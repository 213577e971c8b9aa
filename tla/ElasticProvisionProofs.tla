----------------------- MODULE ElasticProvisionProofs -----------------------
(***************************************************************************)
(* What holds of the Elasticsearch modules for any hosts and any number of *)
(* applies.                                                                *)
(***************************************************************************)
EXTENDS ElasticProvision, TLAPS

\* Whether an output file of life id names deployment d.
Names(id, d) ==
  \E h \in Host : file[<<h, id>>].kind = "printed" /\ file[<<h, id>>].deployment = d

\* A life of the module begins without files, and an apply posts once.
FreshInv ==
  /\ \A h \in Host, i \in Attempt :
       file[<<h, i>>] # Missing => i <= applies /\ (run.pc = "start" => i < applies)
  /\ run.pc = "start" => work = saved /\ saved.id < applies
  /\ run.pc \in {"start", "post"} => posted < applies

\* Only what was seen healthy is printed.
FileInv ==
  /\ \A h \in Host, i \in Attempt :
       file[<<h, i>>].kind = "printed" =>
         file[<<h, i>>].deployment \in 1..posted /\ cloud[file[<<h, i>>].deployment] = "healthy"
  /\ run.pc \in {"start", "post"} => run.meta = 0
  /\ run.pc = "wait" /\ run.meta # 0 => run.meta = posted
  /\ run.pc = "lookup" => run.meta = posted /\ posted # 0 /\ cloud[posted] = "healthy"

\* While the script runs, no state has its result.
RunInv ==
  /\ run.pc \in {"post", "wait", "lookup"} =>
       work.shell = "tainted" /\ saved.shell # "created" /\ work.id # 0
  /\ run.pc \in {"read", "outputs"} => work.shell = "created"

\* A script that has succeeded has printed the newest deployment; what was
\* captured is in some file.
CapturedIn(s) ==
  /\ s.shell = "created" => s.id # 0 /\ Names(s.id, posted)
  /\ s.contents # Missing => s.shell = "created"
  /\ Captured(s) => Names(s.id, s.contents.deployment)

\* An apply keeps what the state holds.
KeptInv == Captured(saved) /\ ~Idle => work.contents = saved.contents

IInv ==
  /\ TypeOK /\ FreshInv /\ FileInv /\ RunInv
  /\ CapturedIn(saved) /\ CapturedIn(work) /\ KeptInv

-----------------------------------------------------------------------------
LEMMA Texts ==
  /\ Missing \in Text /\ Missing.kind = "missing"
  /\ \A k \in {"blank", "{}"} :
       Unprinted(k) \in Text /\ Unprinted(k) # Missing /\ Unprinted(k).kind = k
  /\ \A d \in 0..MaxApplies, e \in BOOLEAN :
       /\ Printed(d, e) \in Text /\ Printed(d, e).kind = "printed"
       /\ Printed(d, e).deployment = d
  /\ NoState.id = 0 /\ NoState.shell = "absent" /\ NoState.contents = Missing
<1>1. 0 \in 0..MaxApplies
  BY ElasticAssumption
<1>2. ASSUME NEW k \in {"missing", "blank", "{}"}
      PROVE  Unprinted(k) \in Text /\ Unprinted(k).kind = k
  BY <1>1 DEF Text, Unprinted
<1>3. ASSUME NEW d \in 0..MaxApplies, NEW e \in BOOLEAN
      PROVE  /\ Printed(d, e) \in Text /\ Printed(d, e).kind = "printed"
             /\ Printed(d, e).deployment = d
  BY DEF Text, Printed
<1>4. Missing = Unprinted("missing")
  BY DEF Missing
<1>5. NoState.id = 0 /\ NoState.shell = "absent" /\ NoState.contents = Missing
  BY DEF NoState
<1> QED BY <1>2, <1>3, <1>4, <1>5

LEMMA NoRuns ==
  ASSUME NEW pc
  PROVE  NoRun(pc).pc = pc /\ NoRun(pc).host \in Host /\ NoRun(pc).meta = 0
         /\ NoRun(pc) = [pc |-> pc, host |-> NoRun(pc).host, meta |-> 0]
BY ElasticAssumption DEF NoRun

LEMMA NoStates ==
  ASSUME NEW n \in Nat
  PROVE  NoState \in State(n)
<1>1. 0 \in 0..n
  OBVIOUS
<1>2. Missing \in Text
  BY Texts
<1> QED BY <1>1, <1>2 DEF NoState, State

LEMMA InitInvariant == Init => IInv
<1> SUFFICES ASSUME Init PROVE IInv
  OBVIOUS
<1>1. run.pc = "none" /\ run.host \in Host /\ run.meta = 0
      /\ run = [pc |-> "none", host |-> run.host, meta |-> 0]
  BY NoRuns DEF Init
<1>2. TypeOK
  <2>1. posted \in 0..applies /\ applies \in 0..MaxApplies
    BY ElasticAssumption DEF Init
  <2>2. NoState \in State(applies) /\ saved \in State(applies) /\ work \in State(applies)
    BY <2>1, NoStates DEF Init
  <2>3. \A d \in Attempt : cloud[d] = "none" <=> d > posted
    BY ElasticAssumption DEF Init, Attempt
  <2>4. /\ cloud \in [Attempt -> {"none", "accepted", "starting", "healthy"}]
        /\ file \in [Host \X Attempt -> Text]
    BY Texts DEF Init
  <2>5. run \in Apply(posted)
    BY <1>1, <2>1 DEF Ended, Apply
  <2> QED BY <2>1, <2>2, <2>3, <2>4, <2>5 DEF TypeOK
<1>3. \A h \in Host, i \in Attempt : file[<<h, i>>] = Missing
  BY DEF Init
<1>4. FreshInv /\ FileInv /\ RunInv
  BY <1>1, <1>3, Texts DEF FreshInv, FileInv, RunInv
<1>5. CapturedIn(saved) /\ CapturedIn(work) /\ KeptInv
  BY <1>1, Texts DEF Init, CapturedIn, Captured, KeptInv, Idle, Ended
<1> QED BY <1>2, <1>4, <1>5 DEF IInv

-----------------------------------------------------------------------------
(* Where an apply begins and ends.                                         *)

LEMMA StartInvariant ==
  ASSUME IInv, NEW h \in Host, StartApply(h)
  PROVE  IInv'
<1>0. /\ applies < MaxApplies /\ applies' = applies + 1 /\ work' = saved
      /\ run' = [pc |-> "start", host |-> h, meta |-> 0]
      /\ UNCHANGED <<cloud, posted, file, saved>>
  BY DEF StartApply
<1>1. applies \in Nat /\ applies' \in 0..MaxApplies /\ posted \in 0..applies
      /\ posted < applies' /\ saved.id \in 0..applies /\ saved.id < applies'
  BY <1>0, ElasticAssumption DEF IInv, TypeOK, State
<1>2. TypeOK'
  <2>1. /\ posted' \in 0..applies' /\ 0 \in 0..posted'
        /\ saved' \in State(applies') /\ work' \in State(applies')
    BY <1>0, <1>1 DEF IInv, TypeOK, State
  <2>2. run' \in Apply(posted')
    BY <1>0, <2>1 DEF Apply
  <2> QED BY <1>0, <1>1, <2>1, <2>2 DEF IInv, TypeOK
<1>3. FreshInv'
  <2>1. ASSUME NEW g \in Host, NEW i \in Attempt, file[<<g, i>>] # Missing
        PROVE  i <= applies' /\ i < applies'
    BY <1>0, <1>1, <2>1, ElasticAssumption DEF IInv, FreshInv, Attempt
  <2> QED BY <1>0, <1>1, <2>1 DEF FreshInv
<1>4. FileInv' /\ RunInv'
  BY <1>0 DEF IInv, FileInv, RunInv
<1>5. CapturedIn(saved)' /\ CapturedIn(work)' /\ KeptInv'
  BY <1>0 DEF IInv, CapturedIn, Captured, Names, KeptInv
<1> QED BY <1>2, <1>3, <1>4, <1>5 DEF IInv

\* An apply ends, with or without its state being stored.
LEMMA EndInvariant ==
  ASSUME IInv, NEW pc \in Ended, run' = NoRun(pc),
         saved' \in {saved, work}, work' \in {saved, work},
         UNCHANGED <<cloud, posted, file, applies>>
  PROVE  IInv'
<1>1. run'.pc = pc /\ run' = [pc |-> pc, host |-> run'.host, meta |-> 0] /\ run'.host \in Host
  BY NoRuns
<1>2. pc \notin {"start", "post", "wait", "lookup", "read", "outputs"}
  BY DEF Ended
<1>3. TypeOK'
  <2>1. 0 \in 0..posted
    BY ElasticAssumption DEF IInv, TypeOK
  <2>2. run' \in Apply(posted')
    BY <1>1, <2>1 DEF Apply
  <2> QED BY <2>2 DEF IInv, TypeOK
<1>4. FreshInv' /\ FileInv' /\ RunInv'
  BY <1>1, <1>2 DEF IInv, FreshInv, FileInv, RunInv
<1>5. CapturedIn(saved)' /\ CapturedIn(work)' /\ KeptInv'
  BY <1>1 DEF IInv, CapturedIn, Captured, Names, KeptInv, Idle
<1> QED BY <1>3, <1>4, <1>5 DEF IInv

LEMMA DestroyInvariant ==
  ASSUME IInv, NEW h \in Host, Destroy(h)
  PROVE  IInv'
<1>0. /\ saved' = NoState /\ work' = NoState /\ run' = NoRun("none")
      /\ UNCHANGED <<cloud, posted, applies>>
      /\ \/ UNCHANGED file
         \/ saved.shell = "created" /\ file' = [file EXCEPT ![<<h, saved.id>>] = Missing]
  BY DEF Destroy
<1>1. run'.pc = "none" /\ run' = [pc |-> "none", host |-> run'.host, meta |-> 0]
      /\ run'.host \in Host
  BY <1>0, NoRuns
<1>2. /\ file' \in [Host \X Attempt -> Text]
      /\ \A g \in Host, i \in Attempt :
           file'[<<g, i>>] = file[<<g, i>>] \/ file'[<<g, i>>] = Missing
  <2>1. file \in [Host \X Attempt -> Text] /\ Missing \in Text
    BY Texts DEF IInv, TypeOK
  <2>2. CASE UNCHANGED file
    BY <2>1, <2>2
  <2>3. CASE file' = [file EXCEPT ![<<h, saved.id>>] = Missing]
    BY <2>1, <2>3
  <2> QED BY <1>0, <2>2, <2>3
<1>3. TypeOK'
  <2>1. 0 \in 0..posted /\ 0 \in 0..applies
    BY ElasticAssumption DEF IInv, TypeOK
  <2>2. run' \in Apply(posted')
    BY <1>0, <1>1, <2>1 DEF Ended, Apply
  <2>3. saved' \in State(applies) /\ work' \in State(applies)
    BY <1>0, NoStates DEF IInv, TypeOK
  <2> QED BY <1>0, <1>2, <2>2, <2>3 DEF IInv, TypeOK
<1>4. FreshInv'
  BY <1>0, <1>1, <1>2 DEF IInv, FreshInv
<1>5. FileInv' /\ RunInv'
  <2>1. Missing.kind # "printed"
    BY Texts
  <2>2. \A g \in Host, i \in Attempt :
          file'[<<g, i>>].kind = "printed" => file'[<<g, i>>] = file[<<g, i>>]
    BY <1>2, <2>1
  <2>3. FileInv'
    BY <1>0, <1>1, <2>2 DEF IInv, FileInv
  <2> QED BY <1>1, <2>3 DEF RunInv
<1>6. CapturedIn(saved)' /\ CapturedIn(work)' /\ KeptInv'
  BY <1>0, <1>1, Texts DEF CapturedIn, Captured, KeptInv, Idle, Ended
<1> QED BY <1>3, <1>4, <1>5, <1>6 DEF IInv

-----------------------------------------------------------------------------
(* The steps of an apply.                                                  *)

\* Only the place in the apply changes.
LEMMA MoveInvariant ==
  ASSUME IInv, SkipScript \/ Wait
  PROVE  IInv'
<1>0. /\ UNCHANGED <<cloud, posted, file, saved, work, applies>>
      /\ \/ run.pc = "start" /\ work.shell = "created" /\ run' = [run EXCEPT !.pc = "read"]
         \/ /\ run.pc = "wait" /\ run.meta # 0 /\ cloud[run.meta] = "healthy"
            /\ run' = [run EXCEPT !.pc = "lookup"]
  BY DEF SkipScript, Wait, Goes, Healthy
<1>1. /\ run' \in Apply(posted)
      /\ run'.meta = run.meta
      /\ run.pc = "start" => run'.pc = "read"
      /\ run.pc = "wait" => run'.pc = "lookup"
  BY <1>0 DEF IInv, TypeOK, Apply
<1>2. TypeOK'
  BY <1>0, <1>1 DEF IInv, TypeOK
<1>3. FreshInv' /\ FileInv' /\ RunInv'
  BY <1>0, <1>1 DEF IInv, FreshInv, FileInv, RunInv
<1>4. CapturedIn(saved)' /\ CapturedIn(work)' /\ KeptInv'
  BY <1>0, <1>1 DEF IInv, CapturedIn, Captured, Names, KeptInv, Idle, Ended
<1> QED BY <1>2, <1>3, <1>4 DEF IInv

LEMMA RunScriptInvariant ==
  ASSUME IInv, RunScript
  PROVE  IInv'
<1> DEFINE id == IF work.id = 0 THEN applies ELSE work.id
<1>0. /\ run.pc = "start" /\ work.shell # "created" /\ work = saved
      /\ work' = [work EXCEPT !.id = id, !.shell = "tainted"]
      /\ file' = [file EXCEPT ![<<run.host, work'.id>>] = Unprinted("blank")]
      /\ run' = [run EXCEPT !.pc = "post"]
      /\ UNCHANGED <<cloud, posted, saved, applies>>
  BY DEF IInv, FreshInv, RunScript, OutputFile, Goes
<1>1. /\ work \in State(applies) /\ run \in Apply(posted) /\ file \in [Host \X Attempt -> Text]
      /\ Unprinted("blank") \in Text /\ Unprinted("blank").kind # "printed"
  BY Texts DEF IInv, TypeOK
<1>2. id \in 0..applies /\ id # 0 /\ id \in Attempt
  BY <1>0, <1>1, ElasticAssumption DEF IInv, TypeOK, FreshInv, Attempt, State
<1> HIDE DEF id
<1>3. /\ work' \in State(applies) /\ work'.id = id /\ work'.shell = "tainted"
      /\ work'.contents = work.contents
  BY <1>0, <1>1, <1>2 DEF State
<1>4. run' \in Apply(posted) /\ run'.pc = "post" /\ run'.meta = run.meta
  BY <1>0, <1>1 DEF Apply
<1>5. /\ file' \in [Host \X Attempt -> Text]
      /\ \A h \in Host, i \in Attempt :
           \/ file'[<<h, i>>] = file[<<h, i>>]
           \/ i = id /\ file'[<<h, i>>].kind # "printed"
  BY <1>0, <1>1, <1>2, <1>3 DEF Apply
<1>6. TypeOK'
  BY <1>0, <1>3, <1>4, <1>5 DEF IInv, TypeOK
<1>7. FreshInv'
  <2>1. ASSUME NEW h \in Host, NEW i \in Attempt, file'[<<h, i>>] # Missing
        PROVE  i <= applies
    BY <1>2, <1>5, <2>1 DEF IInv, FreshInv, TypeOK
  <2> QED BY <1>0, <1>4, <2>1 DEF IInv, FreshInv
<1>8. FileInv'
  <2>1. \A h \in Host, i \in Attempt :
          file'[<<h, i>>].kind = "printed" => file'[<<h, i>>] = file[<<h, i>>]
    BY <1>5
  <2> QED BY <1>0, <1>4, <2>1 DEF IInv, FileInv
<1>9. RunInv'
  BY <1>0, <1>2, <1>3, <1>4 DEF RunInv
<1>10. saved.contents = Missing /\ saved.shell # "created" /\ work.contents = Missing
       /\ ~Captured(saved)
  BY <1>0, Texts DEF IInv, CapturedIn, Captured
<1>11. CapturedIn(saved)' /\ CapturedIn(work)' /\ KeptInv'
  BY <1>0, <1>3, <1>10 DEF CapturedIn, Captured, KeptInv
<1> QED BY <1>6, <1>7, <1>8, <1>9, <1>11 DEF IInv

\* The service accepts a deployment or does not; the script waits for it, or for
\* one that does not exist.
LEMMA PostInvariant ==
  ASSUME IInv, Post
  PROVE  IInv'
<1>0. /\ run.pc = "post" /\ UNCHANGED <<file, saved, work, applies>>
      /\ \/ Accepted /\ run' = [run EXCEPT !.pc = "wait", !.meta = posted + 1]
         \/ Accepted /\ run' = [run EXCEPT !.pc = "wait"]
         \/ run' = [run EXCEPT !.pc = "wait"] /\ UNCHANGED <<cloud, posted>>
  BY DEF Post, Unanswered, Goes
<1>1. /\ posted \in 0..applies /\ posted < applies /\ applies \in 0..MaxApplies
      /\ run \in Apply(posted) /\ MaxApplies \in Nat
      /\ cloud \in [Attempt -> {"none", "accepted", "starting", "healthy"}]
      /\ \A d \in Attempt : cloud[d] = "none" <=> d > posted
  BY <1>0, ElasticAssumption DEF IInv, TypeOK, FreshInv
<1>2. /\ posted' \in 0..applies /\ posted <= posted'
      /\ cloud' \in [Attempt -> {"none", "accepted", "starting", "healthy"}]
      /\ \A d \in Attempt : cloud'[d] = "none" <=> d > posted'
      /\ \A d \in 1..posted : cloud'[d] = cloud[d]
  <2>1. CASE Accepted
    <3>1. posted' = posted + 1 /\ posted + 1 \in Attempt
      BY <1>1, <2>1 DEF Accepted, Attempt
    <3>2. \A d \in Attempt : cloud'[d] = IF d = posted' THEN "accepted" ELSE cloud[d]
      BY <1>1, <2>1, <3>1 DEF Accepted
    <3>3. cloud' \in [Attempt -> {"none", "accepted", "starting", "healthy"}]
      BY <1>1, <2>1, <3>1 DEF Accepted
    <3>4. \A d \in Attempt : cloud'[d] = "none" <=> d > posted'
      BY <1>1, <3>1, <3>2 DEF Attempt
    <3>5. \A d \in 1..posted : d \in Attempt /\ d # posted'
      BY <1>1, <3>1 DEF Attempt
    <3> QED BY <1>1, <3>1, <3>2, <3>3, <3>4, <3>5
  <2>2. CASE UNCHANGED <<cloud, posted>>
    BY <1>1, <2>2
  <2> QED BY <1>0, <2>1, <2>2
<1>3. run'.pc = "wait" /\ run' \in Apply(posted')
  <2>1. 0..posted \subseteq 0..posted' /\ (posted' = posted + 1 => posted + 1 \in 0..posted')
    BY <1>1, <1>2
  <2>2. Accepted => posted' = posted + 1
    BY DEF Accepted
  <2> QED BY <1>0, <1>1, <2>1, <2>2 DEF Apply
<1>4. run'.meta # 0 => run'.meta = posted'
  BY <1>0, <1>1 DEF IInv, FileInv, RunInv, Apply, Accepted
<1>5. TypeOK'
  BY <1>0, <1>2, <1>3 DEF IInv, TypeOK
<1>6. FreshInv'
  BY <1>0, <1>3 DEF IInv, FreshInv
<1>7. FileInv'
  <2>1. ASSUME NEW h \in Host, NEW i \in Attempt, file[<<h, i>>].kind = "printed"
        PROVE  /\ file[<<h, i>>].deployment \in 1..posted'
               /\ cloud'[file[<<h, i>>].deployment] = "healthy"
    <3>1. /\ file[<<h, i>>].deployment \in 1..posted
          /\ cloud[file[<<h, i>>].deployment] = "healthy"
      BY <2>1 DEF IInv, FileInv
    <3> QED BY <1>1, <1>2, <3>1
  <2> QED BY <1>0, <1>3, <1>4, <2>1 DEF FileInv
<1>8. RunInv'
  BY <1>0, <1>3 DEF IInv, RunInv
<1>9. CapturedIn(saved)' /\ CapturedIn(work)' /\ KeptInv'
  <2>1. saved.shell # "created" /\ work.shell # "created"
    BY <1>0 DEF IInv, RunInv
  <2>2. saved.contents = Missing /\ work.contents = Missing /\ ~Captured(saved) /\ ~Captured(work)
    BY <2>1, Texts DEF IInv, CapturedIn, Captured
  <2> QED BY <1>0, <2>1, <2>2 DEF CapturedIn, Captured, KeptInv
<1> QED BY <1>5, <1>6, <1>7, <1>8, <1>9 DEF IInv

\* The last line of the script: what it prints is the newest deployment.
LEMMA LookupInvariant ==
  ASSUME IInv, Lookup
  PROVE  IInv'
<1>0. /\ run.pc = "lookup" /\ UNCHANGED <<cloud, posted, saved, applies>>
      /\ work' = [work EXCEPT !.shell = "created"] /\ run' = [run EXCEPT !.pc = "read"]
      /\ run.meta = posted /\ posted # 0 /\ cloud[posted] = "healthy"
      /\ work.shell = "tainted" /\ saved.shell # "created" /\ work.id # 0
  BY DEF IInv, FileInv, RunInv, Lookup, Goes
<1>1. PICK known \in BOOLEAN :
        file' = [file EXCEPT ![<<run.host, work.id>>] = Printed(posted, known)]
  BY <1>0, ElasticAssumption DEF Lookup, OutputFile
<1>2. /\ work \in State(applies) /\ run \in Apply(posted) /\ file \in [Host \X Attempt -> Text]
      /\ posted \in 0..MaxApplies /\ posted \in 1..posted
  BY <1>0, ElasticAssumption DEF IInv, TypeOK
<1>3. /\ work' \in State(applies) /\ work'.id = work.id /\ work'.shell = "created"
      /\ work'.contents = work.contents
  BY <1>0, <1>2 DEF State
<1>4. run' \in Apply(posted) /\ run'.pc = "read" /\ run.host \in Host
  BY <1>0, <1>2 DEF Apply
<1>5. work.id \in Attempt /\ work.id <= applies
  BY <1>0, <1>2, ElasticAssumption DEF State, Attempt, IInv, TypeOK
<1>6. /\ Printed(posted, known) \in Text /\ Printed(posted, known).kind = "printed"
      /\ Printed(posted, known).deployment = posted
  BY <1>1, <1>2, Texts
<1>7. /\ file' \in [Host \X Attempt -> Text]
      /\ \A h \in Host, i \in Attempt :
           \/ file'[<<h, i>>] = file[<<h, i>>]
           \/ i = work.id /\ file'[<<h, i>>] = Printed(posted, known)
      /\ file'[<<run.host, work.id>>] = Printed(posted, known)
  BY <1>1, <1>2, <1>4, <1>5, <1>6
<1>8. TypeOK'
  BY <1>0, <1>3, <1>4, <1>7 DEF IInv, TypeOK
<1>9. FreshInv'
  <2>1. ASSUME NEW h \in Host, NEW i \in Attempt, file'[<<h, i>>] # Missing
        PROVE  i <= applies
    BY <1>5, <1>7, <2>1 DEF IInv, FreshInv
  <2> QED BY <1>0, <1>4, <2>1 DEF FreshInv
<1>10. FileInv'
  <2>1. ASSUME NEW h \in Host, NEW i \in Attempt, file'[<<h, i>>].kind = "printed"
        PROVE  /\ file'[<<h, i>>].deployment \in 1..posted
               /\ cloud[file'[<<h, i>>].deployment] = "healthy"
    BY <1>0, <1>2, <1>6, <1>7, <2>1 DEF IInv, FileInv
  <2> QED BY <1>0, <1>4, <2>1 DEF FileInv
<1>11. RunInv'
  BY <1>3, <1>4 DEF RunInv
<1>12. saved.contents = Missing /\ work.contents = Missing /\ ~Captured(saved) /\ ~Captured(work)
  BY <1>0, Texts DEF IInv, CapturedIn, Captured
<1>13. Names(work.id, posted)'
  BY <1>0, <1>3, <1>4, <1>6, <1>7 DEF Names
<1>14. CapturedIn(saved)' /\ CapturedIn(work)' /\ KeptInv'
  BY <1>0, <1>3, <1>12, <1>13 DEF CapturedIn, Captured, KeptInv, Names
<1> QED BY <1>8, <1>9, <1>10, <1>11, <1>14 DEF IInv

LEMMA CaptureInvariant ==
  ASSUME IInv, Capture
  PROVE  IInv'
<1> DEFINE text == file[<<run.host, work.id>>]
           read == IF text = Missing THEN Unprinted("{}") ELSE text
<1>0. /\ run.pc = "read" /\ UNCHANGED <<cloud, posted, file, saved, applies>>
      /\ work' = [work EXCEPT !.contents = Kept(work.contents, read)]
      /\ run' = [run EXCEPT !.pc = "outputs"]
      /\ work.shell = "created" /\ work.id # 0
  BY DEF IInv, RunInv, CapturedIn, Capture, OutputFile, Goes
<1>1. /\ work \in State(applies) /\ run \in Apply(posted) /\ file \in [Host \X Attempt -> Text]
  BY DEF IInv, TypeOK
<1>2. run.host \in Host /\ work.id \in Attempt /\ work.contents \in Text
  <2>1. run.host \in Host
    BY <1>1 DEF Apply
  <2>2. work.id \in 0..applies /\ work.contents \in Text
    BY <1>1 DEF State
  <2>3. work.id \in Attempt
    <3>1. applies \in 0..MaxApplies /\ MaxApplies \in Nat
      BY ElasticAssumption DEF IInv, TypeOK
    <3>2. work.id # 0
      BY <1>0
    <3> QED BY <2>2, <3>1, <3>2 DEF Attempt
  <2> QED BY <2>1, <2>2, <2>3
<1>3. read \in Text /\ (read.kind = "printed" => read = text)
  BY <1>1, <1>2, Texts
<1>4. /\ Kept(work.contents, read) \in Text
      /\ work.contents # Missing => Kept(work.contents, read) = work.contents
      /\ Kept(work.contents, read) \in {work.contents, read}
  BY <1>2, <1>3 DEF Kept
<1>5. /\ work' \in State(applies) /\ work'.id = work.id /\ work'.shell = work.shell
      /\ work'.contents = Kept(work.contents, read)
  BY <1>0, <1>1, <1>4 DEF State
<1> HIDE DEF read
<1>6. run' \in Apply(posted) /\ run'.pc = "outputs"
  BY <1>0, <1>1 DEF Apply
<1>7. TypeOK' /\ FreshInv' /\ FileInv' /\ RunInv'
  BY <1>0, <1>5, <1>6 DEF IInv, TypeOK, FreshInv, FileInv, RunInv
<1>8. CapturedIn(saved)' /\ KeptInv'
  <2>1. Captured(saved) => work.contents = saved.contents /\ work.contents # Missing
    BY <1>0, Texts DEF IInv, KeptInv, Idle, Ended, Captured
  <2> QED BY <1>0, <1>4, <1>5, <2>1 DEF IInv, CapturedIn, Captured, Names, KeptInv
<1>9. CapturedIn(work)'
  <2>1. ASSUME Captured(work)'
        PROVE  Names(work.id, work'.contents.deployment)
    <3>1. CASE work'.contents = work.contents
      BY <2>1, <3>1 DEF IInv, CapturedIn, Captured
    <3>2. CASE work'.contents = read
      BY <1>2, <1>3, <2>1, <3>2 DEF Captured, Names
    <3> QED BY <1>4, <1>5, <3>1, <3>2
  <2>2. Names(work.id, posted)
    BY <1>0 DEF IInv, CapturedIn
  <2> QED BY <1>0, <1>5, <2>1, <2>2 DEF CapturedIn, Captured, Names
<1> QED BY <1>7, <1>8, <1>9 DEF IInv

-----------------------------------------------------------------------------
(* The service.                                                            *)

LEMMA SettleInvariant ==
  ASSUME IInv, NEW d \in Attempt, Settle(d)
  PROVE  IInv'
<1>0. /\ UNCHANGED <<posted, file, saved, work, applies, run>>
      /\ cloud[d] \in {"accepted", "starting"}
      /\ \E s \in {"starting", "healthy"} : cloud' = [cloud EXCEPT ![d] = s]
  BY DEF Settle
<1>1. cloud \in [Attempt -> {"none", "accepted", "starting", "healthy"}]
  BY DEF IInv, TypeOK
<1>2. /\ cloud' \in [Attempt -> {"none", "accepted", "starting", "healthy"}]
      /\ \A c \in Attempt : cloud'[c] = "none" <=> cloud[c] = "none"
      /\ \A c \in Attempt : cloud[c] = "healthy" => cloud'[c] = "healthy"
  BY <1>0, <1>1
<1>3. TypeOK'
  BY <1>0, <1>2 DEF IInv, TypeOK
<1>4. FileInv'
  <2>1. 1..posted \subseteq Attempt
    BY ElasticAssumption DEF IInv, TypeOK, Attempt
  <2>2. posted # 0 => posted \in Attempt
    BY ElasticAssumption DEF IInv, TypeOK, Attempt
  <2> QED BY <1>0, <1>2, <2>1, <2>2 DEF IInv, FileInv
<1>5. FreshInv' /\ RunInv' /\ CapturedIn(saved)' /\ CapturedIn(work)' /\ KeptInv'
  BY <1>0 DEF IInv, FreshInv, RunInv, CapturedIn, Captured, Names, KeptInv, Idle
<1> QED BY <1>3, <1>4, <1>5 DEF IInv

-----------------------------------------------------------------------------
(* The invariant.                                                          *)

LEMMA NextInvariant == IInv /\ [Next]_vars => IInv'
<1> SUFFICES ASSUME IInv, [Next]_vars PROVE IInv'
  OBVIOUS
<1>1. ASSUME NEW h \in Host, StartApply(h) PROVE IInv'
  BY <1>1, StartInvariant
<1>2. ASSUME NEW h \in Host, Destroy(h) PROVE IInv'
  BY <1>2, DestroyInvariant
<1>3. CASE RunScript
  BY <1>3, RunScriptInvariant
<1>4. CASE SkipScript \/ Wait
  BY <1>4, MoveInvariant
<1>5. CASE Post
  BY <1>5, PostInvariant
<1>6. CASE Lookup
  BY <1>6, LookupInvariant
<1>7. CASE Capture
  BY <1>7, CaptureInvariant
<1>8. CASE Outputs \/ Fail \/ Interrupt \/ Crash
  <2>1. /\ \E pc \in Ended : run' = NoRun(pc)
        /\ saved' \in {saved, work} /\ work' \in {saved, work}
        /\ UNCHANGED <<cloud, posted, file, applies>>
    BY <1>8 DEF Outputs, Fail, Interrupt, Crash, Ends, Ended
  <2> QED BY <2>1, EndInvariant
<1>9. ASSUME NEW d \in Attempt, Settle(d) PROVE IInv'
  BY <1>9, SettleInvariant
<1>10. CASE UNCHANGED vars
  BY <1>10 DEF vars, IInv, TypeOK, FreshInv, FileInv, RunInv, CapturedIn, Captured, Names,
               KeptInv, Idle
<1> QED
  BY <1>1, <1>2, <1>3, <1>4, <1>5, <1>6, <1>7, <1>8, <1>9, <1>10 DEF Next, ApplyStep

LEMMA Invariant == Spec => []IInv
BY InitInvariant, NextInvariant, PTL DEF Spec

\* The types hold for any hosts and any number of applies; in particular each
\* apply creates one deployment at most.
THEOREM TypeCorrect == Spec => []TypeOK
<1>1. IInv => TypeOK
  BY DEF IInv
<1> QED BY <1>1, Invariant, PTL

\* local-exec-capture-stdout never captures a deployment of another life of the
\* module, nor one that was not seen healthy, wherever and however often it was
\* applied, interrupted and destroyed.
THEOREM CapturedIsOwn == Spec => []CapturesOwn
<1>1. IInv => CapturesOwn
  <2> SUFFICES ASSUME IInv, Captured(saved)
               PROVE  /\ {saved.contents.deployment, posted} \subseteq PrintedBy(saved.id)
                      /\ \A d \in PrintedBy(saved.id) : cloud[d] = "healthy"
    BY DEF CapturesOwn
  <2>1. saved.contents # Missing
    BY Texts DEF Captured
  <2>2. saved.id # 0 /\ Names(saved.id, posted) /\ Names(saved.id, saved.contents.deployment)
    BY <2>1 DEF IInv, CapturedIn
  <2>3. saved.id \in Attempt
    BY <2>2, ElasticAssumption DEF IInv, TypeOK, State, Attempt
  <2>4. \A d : Names(saved.id, d) => d \in PrintedBy(saved.id)
    BY DEF Names, PrintedBy
  <2>5. \A d \in PrintedBy(saved.id) : cloud[d] = "healthy"
    BY <2>3 DEF IInv, FileInv, PrintedBy
  <2> QED BY <2>2, <2>4, <2>5
<1> QED BY <1>1, Invariant, PTL

\* ignore_changes: no apply replaces what the state has captured.
THEOREM CapturedStays == Spec => CapturedForGood
<1>1. IInv /\ [Next]_vars
      => [Captured(saved) => saved' = NoState \/ saved'.contents = saved.contents]_vars
  <2> SUFFICES ASSUME IInv, Next, Captured(saved)
               PROVE  saved' = NoState \/ saved'.contents = saved.contents
    OBVIOUS
  <2>1. CASE Outputs \/ Fail \/ Interrupt
    <3>1. saved' = work
      BY <2>1 DEF Outputs, Fail, Interrupt, Ends
    <3>2. ~Idle
      BY <2>1 DEF Outputs, Fail, TimesOut, Interrupt, Idle, Ended
    <3> QED BY <3>1, <3>2 DEF IInv, KeptInv
  <2>2. CASE \E h \in Host : Destroy(h)
    BY <2>2 DEF Destroy
  <2>3. CASE ~(Outputs \/ Fail \/ Interrupt \/ \E h \in Host : Destroy(h))
    BY <2>3 DEF Next, ApplyStep, StartApply, RunScript, SkipScript, Post, Wait, Lookup, Capture,
                Crash, Settle
  <2> QED BY <2>1, <2>2, <2>3
<1> QED BY <1>1, Invariant, PTL DEF Spec, CapturedForGood
=============================================================================
