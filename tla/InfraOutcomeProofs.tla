------------------------- MODULE InfraOutcomeProofs -------------------------
(***************************************************************************)
(* What the workspaces of the infrastructure pipeline hold once it has     *)
(* deployed to them, tested there and torn them down.                      *)
(***************************************************************************)
EXTENDS InfraReviewProofs

\* A job that has deployed, or may have, and has its teardown ahead or failed.
Owing == Deploying \cup {"teardown", "failedTeardown", "destroying", "failedDestroying",
                         "deployFailed"}

\* What a job that moves to p does to the contents.
Effect(s, p) ==
  \/ /\ SameContent /\ p # "applied"
     /\ job[s] \in Owing /\ TornDown(s) => p \in Owing
  \/ \E k :
       /\ ContentBecomes(WorkspaceName(s), k)
       /\ job[s] \in {"applying"} \cup TearingDown
       /\ IF p = "applied" THEN k = Applied(s) ELSE k \in {Partial, Empty}
       /\ TornDown(s) => p \in Owing \/ k = Empty

LEMMA FailureOwes ==
  \A s \in Slot : job[s] \in Owing \cup TearingDown /\ TornDown(s) => AfterFailure(s) \in Owing
  BY DEF AfterFailure, Owing, Building, Deploying, TearingDown

\* A step of one job.
JobMove(s, p) ==
  /\ Edge(s, p) /\ Effect(s, p) /\ job'[s] = p
  /\ \A t \in Slot \ {s} : job'[t] = job[t]
  /\ Rerun(s) \/ UNCHANGED runVars

LEMMA StepEffect ==
  ASSUME ReviewInv, NEW s \in Slot, JobStep(s) \/ JobFault(s) \/ Rerun(s)
  PROVE  Effect(s, job'[s])
<1> DEFINE w == WorkspaceName(s)
<1>1. TypeOK /\ BackendType /\ AbsentInv /\ w \in Workspace
  BY BackendTypeOK, WorkspaceOfSlot DEF ReviewInv, IInv
<1>2. \A p : Moves(s, p) => job'[s] = p
  BY <1>1, Moved
<1>3. job[s] \in Locking => tfstate[w].lineage # 0
  BY LockedExists DEF ReviewInv
<1>4. (UNCHANGED tfstate \/ (\E l : Open(w, l)) \/ (\E l : Release(w, l))
          \/ (CanDelete(w) /\ Delete(w))) => SameContent
  <2> HIDE DEF w
  <2>1. UNCHANGED tfstate => SameContent
    BY DEF SameContent
  <2> QED BY <1>1, <2>1, OpenKeepsContent, ReleaseKeepsContent, DeleteKeepsContent
<1>5. \A k, l : Persist(w, k, l) /\ job[s] \in Locking => ContentBecomes(w, k)
  <2> HIDE DEF w
  <2> QED BY <1>1, <1>3, PersistContent
<1> HIDE DEF w
<1> USE DEF w
<1>6. CASE StartBuild(s) \/ StartDeploy(s) \/ Reject(s) \/ Rerun(s)
  <2>1. SameContent
    BY <1>4, <1>6 DEF StartBuild, StartDeploy, Reject, Rerun
  <2>2. job'[s] \in {"waiting", "building", "unchanged", "deploying", "skipped", "rejected"}
    BY <1>2, <1>6 DEF StartBuild, StartDeploy, Reject, Rerun
  <2>3. job[s] \in Owing => job'[s] \in Owing
    BY <1>2, <1>6 DEF StartBuild, StartDeploy, Reject, Rerun, At, Owing, Deploying
  <2> QED BY <2>1, <2>2, <2>3 DEF Effect
<1>7. CASE SelectForBuild(s) \/ StartPlan(s) \/ FinishPlan(s)
  <2>1. SameContent
    BY <1>4, <1>7 DEF SelectForBuild, StartPlan, FinishPlan, NewOrSelect
  <2>2. job[s] \notin Owing /\ job'[s] # "applied"
    BY <1>2, <1>7 DEF SelectForBuild, StartPlan, FinishPlan, At, Owing, Deploying
  <2> QED BY <2>1, <2>2 DEF Effect
<1>8. CASE PullArtifact(s) \/ StartApply(s) \/ RefuseApply(s) \/ PassTests(s) \/ StartDestroy(s)
  <2>1. SameContent
    BY <1>4, <1>8 DEF PullArtifact, StartApply, RefuseApply, PassTests, StartDestroy, NewOrSelect
  <2>2. job'[s] # "applied"
    BY <1>2, <1>8 DEF PullArtifact, StartApply, RefuseApply, PassTests, StartDestroy,
                      AfterFailure, AfterTests
  <2>3. TornDown(s) => job'[s] \in Owing
    <3>1. CASE PullArtifact(s) \/ StartApply(s) \/ StartDestroy(s)
      BY <1>2, <3>1 DEF PullArtifact, StartApply, StartDestroy, Owing, Deploying
    <3>2. CASE RefuseApply(s)
      BY <1>2, <3>2, FailureOwes DEF RefuseApply, At, Owing, Deploying
    <3>3. CASE PassTests(s)
      BY <1>2, <3>3 DEF PassTests, AfterTests, Owing
    <3> QED BY <1>8, <3>1, <3>2, <3>3
  <2> QED BY <2>1, <2>2, <2>3 DEF Effect
<1>9. CASE FinishApply(s)
  <2>1. ContentBecomes(w, Applied(s)) /\ job[s] = "applying" /\ job'[s] = "applied"
    BY <1>2, <1>5, <1>9 DEF FinishApply, Locking
  <2> QED BY <2>1 DEF Effect, Owing, Deploying
<1>10. CASE BreakApply(s)
  <2>1. ContentBecomes(w, Partial) /\ job[s] = "applying" /\ job'[s] = AfterFailure(s)
    BY <1>2, <1>5, <1>10 DEF BreakApply, Locking
  <2>2. job'[s] # "applied" /\ (TornDown(s) => job'[s] \in Owing)
    BY <2>1, FailureOwes DEF AfterFailure, Owing, Deploying
  <2> QED BY <2>1, <2>2 DEF Effect
<1>11. CASE FinishDestroy(s)
  <2>1. ContentBecomes(w, Empty) /\ job[s] \in TearingDown /\ job'[s] # "applied"
    BY <1>2, <1>5, <1>11 DEF FinishDestroy, Locking, TearingDown
  <2> QED BY <2>1 DEF Effect
<1>12. CASE DeleteWorkspace(s)
  <2>1. SameContent
    BY <1>4, <1>12 DEF DeleteWorkspace
  <2>2. job[s] \notin Owing /\ job'[s] # "applied"
    BY <1>2, <1>12 DEF DeleteWorkspace, Owing, Deploying
  <2> QED BY <2>1, <2>2 DEF Effect
<1>13. CASE FailStep(s)
  <2>1. SameContent
    BY <1>4, <1>13 DEF FailStep
  <2>2. job'[s] \in {AfterFailure(s), "deployFailed"}
    BY <1>2, <1>13 DEF FailStep
  <2>3. job'[s] # "applied" /\ (job[s] \in Owing /\ TornDown(s) => job'[s] \in Owing)
    BY <2>2, FailureOwes DEF AfterFailure, Owing, Deploying
  <2> QED BY <2>1, <2>3 DEF Effect
<1>14. CASE Interrupt(s)
  <2>1. job[s] \in Locking /\ job'[s] = AfterFailure(s)
    BY <1>2, <1>14 DEF Interrupt
  <2>2. job'[s] # "applied" /\ (job[s] \in Owing /\ TornDown(s) => job'[s] \in Owing)
    BY <2>1, FailureOwes DEF AfterFailure
  <2>3. CASE \E l : Release(w, l)
    BY <1>4, <2>2, <2>3 DEF Effect
  <2>4. CASE job[s] # "planning" /\ \E l : Persist(w, Partial, l)
    <3>1. ContentBecomes(w, Partial) /\ job[s] \in {"applying"} \cup TearingDown
      BY <1>5, <2>1, <2>4 DEF Locking, TearingDown
    <3>2. job[s] \in Owing
      BY <2>1, <2>4 DEF Locking, Owing, Deploying
    <3> QED BY <2>2, <3>1, <3>2 DEF Effect
  <2> QED BY <1>14, <2>3, <2>4 DEF Interrupt
<1> QED BY <1>6, <1>7, <1>8, <1>9, <1>10, <1>11, <1>12, <1>13, <1>14 DEF JobStep, JobFault

\* A step is one of a job, with its effect, or leaves jobs and workspaces alone.
LEMMA JobMoves ==
  ASSUME ReviewInv, [Next]_vars
  PROVE  RunOnly \/ \E s \in Slot : \E p : JobMove(s, p)
<1>1. TypeOK
  BY DEF ReviewInv, IInv
<1>2. ASSUME NEW s \in Slot, JobStep(s) \/ JobFault(s) \/ Rerun(s),
             Rerun(s) \/ UNCHANGED runVars
      PROVE  JobMove(s, job'[s])
  <2>1. PICK p : Moves(s, p) /\ Edge(s, p)
    BY <1>2, JobEdge
  <2>2. job'[s] = p /\ \A t \in Slot \ {s} : job'[t] = job[t]
    BY <1>1, <2>1, Moved
  <2> QED BY <1>2, <2>1, <2>2, StepEffect DEF JobMove
<1> QED BY <1>2, StepKinds

-----------------------------------------------------------------------------
(* Who works in a workspace.                                               *)

\* Jobs of one workspace are of one environment and one configuration.
LEMMA SameWorkspace ==
  ASSUME NEW s \in Slot, NEW t \in Slot, WorkspaceName(s) = WorkspaceName(t),
         s.env \in EnvOf(s.run), t.env \in EnvOf(t.run)
  PROVE  s.env = t.env /\ s.cfg = t.cfg
<1>1. Prefix[s.cfg] = Prefix[t.cfg]
  BY DEF WorkspaceName
<1>2. s.cfg = t.cfg
  BY <1>1, PrefixAssumption, SlotFields
<1>3. CASE s.run \in PullRequest /\ PrIsolation[s.env]
  <2>1. WorkspaceName(s) = <<"pr", PrNumber[s.run], Prefix[s.cfg]>>
    BY <1>3 DEF WorkspaceName
  <2>2. t.run \in PullRequest
    BY <2>1 DEF WorkspaceName
  <2> QED BY <1>2, <1>3, <2>2 DEF EnvOf
<1>4. CASE ~(s.run \in PullRequest /\ PrIsolation[s.env])
  <2>1. WorkspaceName(s) = <<"env", s.env, Prefix[s.cfg]>>
    BY <1>4 DEF WorkspaceName
  <2>2. WorkspaceName(t) = <<"env", t.env, Prefix[t.cfg]>>
    BY <2>1 DEF WorkspaceName
  <2>3. <<"env", s.env, Prefix[s.cfg]>> = <<"env", t.env, Prefix[t.cfg]>>
    BY <2>1, <2>2, Zenon
  <2>4. s.env = t.env
    BY <2>3
  <2> QED BY <1>2, <2>4
<1> QED BY <1>3, <1>4

\* No pull request works where a run of master does and none is meant to.
LEMMA MasterWorkspace ==
  ASSUME NEW s \in Slot, NEW t \in Slot, WorkspaceName(s) = WorkspaceName(t),
         s.run \in Master, t.env \in EnvOf(t.run), ~SharedWithPullRequest(s)
  PROVE  t.run \in Master
  BY SlotFields DEF SharedWithPullRequest, Master

\* Isolated pull requests meet neither master nor each other.
LEMMA OwnWorkspace ==
  ASSUME Isolated, NEW s \in Slot, NEW t \in Slot, WorkspaceName(s) = WorkspaceName(t),
         s.env \in EnvOf(s.run), t.env \in EnvOf(t.run)
  PROVE  s.run = t.run \/ (s.run \in Master /\ t.run \in Master)
<1>1. \A u \in Slot : u.run \in PullRequest /\ u.env \in EnvOf(u.run) =>
        WorkspaceName(u) = <<"pr", PrNumber[u.run], Prefix[u.cfg]>>
  BY DEF Isolated, EnvOf, WorkspaceName
<1>2. \A u \in Slot : u.run \in Master =>
        WorkspaceName(u) = <<"env", u.env, Prefix[u.cfg]>>
  BY DEF WorkspaceName, Master
<1>3. s.run \in Run /\ t.run \in Run
  BY SlotFields
<1>4. CASE s.run \in PullRequest /\ t.run \in PullRequest
  <2>1. PrNumber[s.run] = PrNumber[t.run]
    BY <1>1, <1>4
  <2> QED BY <1>4, <2>1 DEF Isolated
<1>5. CASE s.run \in PullRequest /\ t.run \notin PullRequest
  BY <1>1, <1>2, <1>3, <1>5 DEF Master
<1>6. CASE s.run \notin PullRequest /\ t.run \in PullRequest
  BY <1>1, <1>2, <1>3, <1>6 DEF Master
<1> QED BY <1>3, <1>4, <1>5, <1>6 DEF Master

-----------------------------------------------------------------------------
(* What is left in an environment that is torn down.                       *)

OwedInv ==
  \A s \in Slot :
    TornDown(s) /\ s.env \in EnvOf(s.run) /\ tfstate[WorkspaceName(s)].content # Empty =>
      \E t \in Slot : WorkspaceName(t) = WorkspaceName(s) /\ job[t] \in Owing

LEMMA OwedInit == Init => OwedInv
<1> SUFFICES ASSUME Init, NEW s \in Slot, TornDown(s),
                    tfstate[WorkspaceName(s)].content # Empty
             PROVE  FALSE
  BY DEF OwedInv
<1> DEFINE w == WorkspaceName(s)
<1>1. w \in Workspace /\ s.cfg \in Config
  BY WorkspaceOfSlot, SlotFields
<1>2. \E e \in Env, c \in Config : w = <<"env", e, Prefix[c]>> /\ e \notin Teardown[c]
  <2> HIDE DEF w
  <2> QED BY <1>1 DEF w, Init, BackendInit, SteadyState, Absent
<1>3. PICK e \in Env, c \in Config : w = <<"env", e, Prefix[c]>> /\ e \notin Teardown[c]
  BY <1>2
<1>4. s.env = e /\ Prefix[s.cfg] = Prefix[c]
  BY <1>3 DEF WorkspaceName
<1>5. s.cfg = c
  BY <1>1, <1>4, PrefixAssumption
<1> QED BY <1>3, <1>4, <1>5 DEF TornDown

LEMMA OwedStep ==
  ASSUME ReviewInv, ActiveInv, OwedInv, [Next]_vars
  PROVE  OwedInv'
<1>1. CASE RunOnly
  <2>1. job' = job /\ tfstate' = tfstate
    BY <1>1 DEF RunOnly
  <2> QED BY <2>1 DEF OwedInv, TornDown, EnvOf, WorkspaceName, Owing
<1>2. ASSUME NEW u \in Slot, NEW p, JobMove(u, p)
      PROVE  OwedInv'
  <2>1. SUFFICES ASSUME NEW s \in Slot, TornDown(s), s.env \in EnvOf(s.run),
                        tfstate'[WorkspaceName(s)].content # Empty
                 PROVE  \E t \in Slot : WorkspaceName(t) = WorkspaceName(s) /\ job'[t] \in Owing
    BY DEF OwedInv, TornDown, EnvOf, WorkspaceName, Owing
  <2>2. WorkspaceName(s) \in Workspace
    BY WorkspaceOfSlot
  <2>3. \A t \in Slot : WorkspaceName(t) = WorkspaceName(s) /\ job[t] # "waiting" => TornDown(t)
    <3> SUFFICES ASSUME NEW t \in Slot, WorkspaceName(t) = WorkspaceName(s), job[t] # "waiting"
                 PROVE  TornDown(t)
      OBVIOUS
    <3>1. t.env \in EnvOf(t.run)
      BY DEF ActiveInv
    <3>2. t.env = s.env /\ t.cfg = s.cfg
      BY <2>1, <3>1, SameWorkspace
    <3> QED BY <2>1, <3>2 DEF TornDown
  <2>4. CASE SameContent /\ (job[u] \in Owing /\ TornDown(u) => p \in Owing)
    <3>1. PICK t \in Slot : WorkspaceName(t) = WorkspaceName(s) /\ job[t] \in Owing
      BY <2>1, <2>2, <2>4 DEF OwedInv, SameContent
    <3>2. TornDown(t)
      BY <2>3, <3>1 DEF Owing, Deploying
    <3>3. job'[t] \in Owing
      BY <1>2, <2>4, <3>1, <3>2 DEF JobMove
    <3> QED BY <3>1, <3>3
  <2>5. ASSUME NEW k, ContentBecomes(WorkspaceName(u), k),
               job[u] \in {"applying"} \cup TearingDown,
               TornDown(u) => p \in Owing \/ k = Empty
        PROVE  \E t \in Slot : WorkspaceName(t) = WorkspaceName(s) /\ job'[t] \in Owing
    <3>1. CASE WorkspaceName(u) = WorkspaceName(s)
      <4>1. TornDown(u)
        BY <2>3, <2>5, <3>1 DEF TearingDown
      <4>2. p \in Owing
        BY <2>1, <2>5, <3>1, <4>1 DEF ContentBecomes
      <4> QED BY <1>2, <3>1, <4>2 DEF JobMove
    <3>2. CASE WorkspaceName(u) # WorkspaceName(s)
      <4>1. tfstate'[WorkspaceName(s)] = tfstate[WorkspaceName(s)]
        BY <2>2, <2>5, <3>2 DEF ContentBecomes
      <4>2. PICK t \in Slot : WorkspaceName(t) = WorkspaceName(s) /\ job[t] \in Owing
        BY <2>1, <4>1 DEF OwedInv
      <4> QED BY <1>2, <3>2, <4>2 DEF JobMove
    <3> QED BY <3>1, <3>2
  <2> QED BY <1>2, <2>4, <2>5 DEF JobMove, Effect
<1> QED BY <1>1, <1>2, JobMoves

\* Whatever fails, is interrupted, cancelled or started again, resources that
\* stay in an environment that is torn down are owed by a job that says so.
THEOREM LeftoversAreOwed == Spec => []LeftoversShow
<1>1. Init => ReviewInv /\ ActiveInv /\ OwedInv
  BY InitInv, InitRefined, ActiveInit, OwedInit DEF ReviewInv
<1>2. ReviewInv /\ [Next]_vars => ReviewInv'
  BY NextInv, NextRefined DEF ReviewInv, Refined
<1>3. ReviewInv /\ ActiveInv /\ OwedInv /\ [Next]_vars => (ActiveInv /\ OwedInv)'
  BY ActiveStep, OwedStep DEF ReviewInv, IInv
<1>4. OwedInv => LeftoversShow
  BY DEF OwedInv, LeftoversShow, Owing, TearingDown
<1> QED BY <1>1, <1>2, <1>3, <1>4, PTL DEF Spec

-----------------------------------------------------------------------------
(* The runs of master, as long as none of them is started again.           *)

NoReruns == \A q \in Master : reruns[q] = 0

\* One run of master at a time.
BatchInv == NoReruns => \A q, r \in Master : InFlight(q) /\ InFlight(r) => q = r

\* A run of master builds a commit that master had by then; after a merge that
\* waits for a run, a commit before it.
HeadInv ==
  \A r \in Master :
    /\ status[r] = "idle" => head[r] = None
    /\ status[r] # "idle" =>
         \E i \in 1..origin : head[r] = MasterLog[i] /\ (pending => i < origin)

\* A run that goes for the first time is the one with the latest commit.
LatestInv ==
  \A q, r \in Master :
    InFlight(q) /\ reruns[q] = 0 /\ status[r] # "idle" /\ r # q => Later(q, r)

LEMMA RerunsGrow ==
  ASSUME TypeOK, [Next]_vars, NoReruns'
  PROVE  NoReruns /\ ((RunOnly \/ UNCHANGED runVars)
                      \/ \E r \in Run \ Master : status' = [status EXCEPT ![r] = "active"]
                                               /\ UNCHANGED <<origin, pending, head>>)
<1>1. CASE RunOnly
  BY <1>1 DEF RunOnly, NoReruns
<1>2. CASE UNCHANGED runVars
  BY <1>2 DEF runVars, NoReruns
<1>3. ASSUME NEW s \in Slot, Rerun(s)
      PROVE  NoReruns /\ \E r \in Run \ Master : status' = [status EXCEPT ![r] = "active"]
                                                /\ UNCHANGED <<origin, pending, head>>
  <2>1. /\ reruns' = [reruns EXCEPT ![s.run] = @ + 1] /\ s.run \in Run
        /\ reruns \in [Run -> 0..MaxReruns]
        /\ status' = [status EXCEPT ![s.run] = "active"] /\ UNCHANGED <<origin, pending, head>>
    BY <1>3, SlotFields DEF Rerun, TypeOK
  <2>2. s.run \notin Master
    <3>1. reruns'[s.run] = reruns[s.run] + 1 /\ reruns[s.run] \in 0..MaxReruns
      BY <2>1
    <3> QED BY <3>1, PipelineAssumption DEF NoReruns
  <2>3. NoReruns
    BY <2>1, <2>2 DEF NoReruns, Master
  <2> QED BY <2>1, <2>2, <2>3
<1> QED BY <1>1, <1>2, <1>3, StepKinds

LEMMA BatchStep ==
  ASSUME TypeOK, BatchInv, [Next]_vars
  PROVE  BatchInv'
<1> SUFFICES ASSUME NoReruns', NEW q \in Master, NEW r \in Master, InFlight(q)', InFlight(r)'
             PROVE  q = r
  BY DEF BatchInv, Master
<1>1. NoReruns /\ q \in Run /\ r \in Run /\ status \in [Run -> Status]
  BY RerunsGrow DEF TypeOK, Master
<1>2. CASE RunOnly
  BY <1>1, <1>2 DEF RunOnly, Merge, QueueMaster, QueuePullRequest, Prepare, Cancel, Finish, vars,
                    BatchInv, InFlight, MayQueue, Master
<1>3. CASE UNCHANGED runVars
  BY <1>1, <1>3 DEF runVars, BatchInv, InFlight
<1>4. CASE \E x \in Run \ Master : status' = [status EXCEPT ![x] = "active"]
  BY <1>1, <1>4 DEF BatchInv, InFlight
<1> QED BY <1>2, <1>3, <1>4, RerunsGrow

LEMMA PositionOf ==
  ASSUME OneCommitEach, NEW i \in 1..MasterLength
  PROVE  Position(MasterLog[i]) = i
  BY DEF Position, OneCommitEach

LEMMA HeadStep ==
  ASSUME TypeOK, HeadInv, [Next]_vars
  PROVE  HeadInv'
<1>1. origin \in 1..MasterLength /\ status \in [Run -> Status] /\ head \in [Run -> Commit \cup {None}]
  BY DEF TypeOK
<1>2. CASE Merge
  <2>1. /\ origin' = origin + 1 /\ origin' \in 1..MasterLength
        /\ status' = status /\ head' = head
    BY <1>1, <1>2, DetectionAssumption DEF Merge
  <2>2. \A i \in 1..origin : i \in 1..origin' /\ i < origin'
    BY <1>1, <2>1, DetectionAssumption
  <2> QED BY <2>1, <2>2 DEF HeadInv
<1>3. ASSUME NEW x \in Run, QueueMaster(x) PROVE HeadInv'
  <2>1. /\ pending' = FALSE /\ origin' = origin /\ status[x] = "idle"
        /\ status' = [status EXCEPT ![x] = "queued"]
        /\ head' = [head EXCEPT ![x] = MasterLog[origin]]
        /\ origin \in 1..origin
    BY <1>1, <1>3, DetectionAssumption DEF QueueMaster
  <2>2. \A r \in Run \ {x} : status'[r] = status[r] /\ head'[r] = head[r]
    BY <1>1, <2>1
  <2>3. status'[x] = "queued" /\ head'[x] = MasterLog[origin]
    BY <1>1, <2>1
  <2> QED BY <2>1, <2>2, <2>3 DEF HeadInv, Master
<1>4. ASSUME NEW x \in Run,
             QueuePullRequest(x) \/ Prepare(x) \/ Cancel(x) \/ Finish(x)
      PROVE  HeadInv'
  <2>1. origin' = origin /\ pending' = pending
    BY <1>4 DEF QueuePullRequest, Prepare, Cancel, Finish
  <2>2. \A r \in Master : head'[r] = head[r] /\ (status'[r] = "idle" <=> status[r] = "idle")
    BY <1>1, <1>4 DEF QueuePullRequest, Prepare, Cancel, Finish, Master
  <2> QED BY <2>1, <2>2 DEF HeadInv
<1>5. CASE UNCHANGED runVars
  BY <1>5 DEF runVars, HeadInv
<1>6. ASSUME NEW s \in Slot, Rerun(s) PROVE HeadInv'
  <2>1. /\ origin' = origin /\ pending' = pending /\ head' = head
        /\ status' = [status EXCEPT ![s.run] = "active"] /\ s.run \in Run
        /\ status[s.run] # "idle"
    BY <1>6, SlotFields DEF Rerun, MayRerun
  <2>2. \A r \in Master : status'[r] = "idle" <=> status[r] = "idle"
    BY <1>1, <2>1 DEF Master
  <2> QED BY <2>1, <2>2 DEF HeadInv
<1>7. UNCHANGED vars => UNCHANGED runVars
  BY DEF vars, runVars
<1> QED BY <1>2, <1>3, <1>4, <1>5, <1>6, <1>7, StepKinds DEF RunOnly

\* The head of a run stays once it is known.
LEMMA HeadsStay ==
  ASSUME TypeOK, [Next]_vars, NEW r \in Run, status[r] # "idle"
  PROVE  head'[r] = head[r]
<1>1. head \in [Run -> Commit \cup {None}]
  BY DEF TypeOK
<1>2. CASE RunOnly
  BY <1>1, <1>2 DEF RunOnly, Merge, QueueMaster, QueuePullRequest, Prepare, Cancel, Finish, vars
<1>3. CASE UNCHANGED runVars
  BY <1>3 DEF runVars
<1>4. CASE \E s \in Slot : Rerun(s)
  BY <1>4 DEF Rerun
<1> QED BY <1>2, <1>3, <1>4, StepKinds

\* The runs keep their order, and one that is queued comes after all before it.
LEMMA LaterStep ==
  ASSUME OneCommitEach, TypeOK, HeadInv, [Next]_vars
  PROVE  /\ \A q, r \in Master : status[q] # "idle" /\ status[r] # "idle" =>
              (Later(q, r)' <=> Later(q, r))
         /\ \A q, r \in Master : status[q] = "idle" => ~Later(q, r)
         /\ \A q, r \in Master : QueueMaster(q) /\ status[r] # "idle" => Later(q, r)'
<1>1. head \in [Run -> Commit \cup {None}] /\ status \in [Run -> Status]
  BY DEF TypeOK
<1>2. \A q \in Master : status[q] # "idle" => head'[q] = head[q]
  BY HeadsStay DEF Master
<1>3. ASSUME NEW q \in Master, NEW r \in Master, QueueMaster(q), status[r] # "idle"
      PROVE  Later(q, r)'
  <2>1. head'[q] = MasterLog[origin] /\ pending /\ q # r
    BY <1>1, <1>3 DEF QueueMaster, Master
  <2>2. PICK i \in 1..origin : head[r] = MasterLog[i] /\ i < origin
    BY <1>3, <2>1 DEF HeadInv
  <2>3. origin \in 1..MasterLength /\ i \in 1..MasterLength /\ MasterLog[origin] \in Commit
    BY <2>2, DetectionAssumption DEF TypeOK
  <2>4. Position(head'[q]) = origin /\ Position(head'[r]) = i
    BY <1>2, <1>3, <2>1, <2>2, <2>3, PositionOf
  <2> QED BY <2>1, <2>2, <2>3, <2>4, PipelineAssumption DEF Later
<1>4. ASSUME NEW q \in Master, NEW r \in Master, status[q] # "idle", status[r] # "idle"
      PROVE  Later(q, r)' <=> Later(q, r)
  <2>1. head'[q] = head[q] /\ head'[r] = head[r]
    BY <1>2, <1>4
  <2> QED BY <2>1 DEF Later, Position
<1>5. \A q, r \in Master : status[q] = "idle" => ~Later(q, r)
  BY DEF HeadInv, Later
<1> QED BY <1>3, <1>4, <1>5

LEMMA LatestStep ==
  ASSUME OneCommitEach, TypeOK, HeadInv, LatestInv, [Next]_vars
  PROVE  LatestInv'
<1> SUFFICES ASSUME NEW q \in Master, NEW r \in Master,
                    InFlight(q)', reruns'[q] = 0, status'[r] # "idle", r # q
             PROVE  Later(q, r)'
  BY DEF LatestInv, Master
<1>1. q \in Run /\ r \in Run /\ status \in [Run -> Status] /\ reruns \in [Run -> 0..MaxReruns]
  BY DEF TypeOK, Master
<1>2. /\ (InFlight(q) /\ reruns[q] = 0) \/ QueueMaster(q)
      /\ status[r] # "idle" \/ QueueMaster(r)
  <2>1. CASE RunOnly
    BY <1>1, <2>1 DEF RunOnly, Merge, QueueMaster, QueuePullRequest, Prepare, Cancel, Finish,
                      vars, InFlight, Master
  <2>2. CASE UNCHANGED runVars
    BY <2>2 DEF runVars, InFlight
  <2>3. ASSUME NEW s \in Slot, Rerun(s)
        PROVE  InFlight(q) /\ reruns[q] = 0 /\ status[r] # "idle"
    <3>1. /\ reruns' = [reruns EXCEPT ![s.run] = @ + 1] /\ s.run \in Run
          /\ status' = [status EXCEPT ![s.run] = "active"]
          /\ status[s.run] # "idle"
      BY <2>3, SlotFields DEF Rerun, MayRerun
    <3>2. q # s.run
      <4>1. ASSUME q = s.run PROVE FALSE
        <5>1. reruns'[q] = reruns[q] + 1 /\ reruns[q] \in 0..MaxReruns
          BY <1>1, <3>1, <4>1
        <5> QED BY <5>1, PipelineAssumption
      <4> QED BY <4>1
    <3> QED BY <1>1, <3>1, <3>2 DEF InFlight
  <2> QED BY <2>1, <2>2, <2>3, StepKinds
<1>3. CASE InFlight(q) /\ reruns[q] = 0
  <2>1. status[q] # "idle" /\ ~QueueMaster(r)
    BY <1>3 DEF InFlight, QueueMaster, MayQueue
  <2>2. Later(q, r)
    BY <1>2, <1>3, <2>1 DEF LatestInv
  <2> QED BY <1>2, <2>1, <2>2, LaterStep
<1>4. CASE QueueMaster(q)
  <2>1. ~QueueMaster(r)
    <3>1. ASSUME QueueMaster(r) PROVE FALSE
      <4>1. status' = [status EXCEPT ![r] = "queued"] /\ status[q] = "idle"
        BY <1>4, <3>1 DEF QueueMaster
      <4>2. status'[q] = "idle"
        BY <1>1, <4>1
      <4> QED BY <4>2 DEF InFlight
    <3> QED BY <3>1
  <2> QED BY <1>2, <1>4, <2>1, LaterStep
<1> QED BY <1>2, <1>3, <1>4

-----------------------------------------------------------------------------
(* What master has deployed.                                               *)

\* A job of the latest run that has deployed finds what its commit says, from
\* its apply until a later run is queued.
DeployedInv ==
  NoReruns =>
    \A s \in Slot :
      /\ s.run \in Master
      /\ job[s] \in {"applied", "deployed"} /\ ~TornDown(s) /\ ~SharedWithPullRequest(s)
      /\ \A q \in Master : ~Later(q, s.run)
      => tfstate[WorkspaceName(s)].content = Rendered(s.cfg, head[s.run])

\* What an apply makes of a workspace.
LEMMA AppliedHead ==
  ASSUME IInv, NEW s \in Slot, job[s] = "applying"
  PROVE  Applied(s) = Rendered(s.cfg, head[s.run])
<1>1. PlanOf(s) # NoPlan
  BY DEF IInv, JobInv
<1>2. s.run \in Run /\ WorkspaceName(s) \in Workspace
  BY SlotFields, WorkspaceOfSlot
<1>3. PlanOf(s).head = head[s.run]
  BY <1>1, <1>2 DEF PlanOf, IInv, PlanInv
<1> QED BY <1>3 DEF Applied

LEMMA DeployedStep ==
  ASSUME OneCommitEach, ReviewInv, TeardownInv, ActiveInv, HeadInv, LatestInv, DeployedInv,
         IdleInv, [Next]_vars
  PROVE  DeployedInv'
<1>1. TypeOK
  BY DEF ReviewInv, IInv
<1> SUFFICES ASSUME NoReruns', NEW s \in Slot, s.run \in Master,
                    job'[s] \in {"applied", "deployed"}, ~TornDown(s),
                    ~SharedWithPullRequest(s), \A q \in Master : ~Later(q, s.run)'
             PROVE  tfstate'[WorkspaceName(s)].content = Rendered(s.cfg, head'[s.run])
  BY DEF DeployedInv, Master, TornDown, SharedWithPullRequest, EnvOf, WorkspaceName, Rendered
<1>2. NoReruns
  BY <1>1, RerunsGrow
<1>3. CASE RunOnly
  <2>1. job' = job /\ tfstate' = tfstate
    BY <1>3 DEF RunOnly
  <2>2. status[s.run] # "idle"
    BY <2>1 DEF IdleInv
  <2>3. \A q \in Master : ~Later(q, s.run)
    BY <1>1, <2>2, LaterStep
  <2>4. head'[s.run] = head[s.run]
    <3>1. head \in [Run -> Commit \cup {None}] /\ s.run \in Run
      BY <1>1, SlotFields DEF TypeOK
    <3> QED BY <1>3, <2>2, <3>1 DEF RunOnly, Merge, QueueMaster, QueuePullRequest, Prepare,
                                    Cancel, Finish, vars, Master
  <2> QED BY <1>2, <2>1, <2>3, <2>4 DEF DeployedInv
<1>4. ASSUME NEW u \in Slot, NEW p, JobMove(u, p)
      PROVE  tfstate'[WorkspaceName(s)].content = Rendered(s.cfg, head'[s.run])
  <2>1. head' = head
    BY <1>4 DEF JobMove, Rerun, runVars
  <2>2. \A q \in Master : ~Later(q, s.run)
    BY <2>1 DEF Later, Position
  <2>3. WorkspaceName(s) \in Workspace
    BY WorkspaceOfSlot
  <2>4. CASE SameContent /\ p # "applied"
    <3>1. job[s] \in {"applied", "deployed"}
      <4>1. CASE s # u
        BY <1>4, <4>1 DEF JobMove
      <4>2. CASE s = u
        <5>1. p = "deployed" /\ job[s] \notin TearingDown
          BY <1>4, <2>4, <4>2 DEF JobMove, TeardownInv
        <5> QED BY <1>4, <4>2, <5>1 DEF JobMove, Edge
      <4> QED BY <4>1, <4>2
    <3> QED BY <1>2, <2>1, <2>2, <2>3, <2>4, <3>1 DEF DeployedInv, SameContent
  <2>5. ASSUME NEW k, ContentBecomes(WorkspaceName(u), k),
               job[u] \in {"applying"} \cup TearingDown, p = "applied" => k = Applied(u)
        PROVE  tfstate'[WorkspaceName(s)].content = Rendered(s.cfg, head[s.run])
    <3>1. CASE WorkspaceName(u) # WorkspaceName(s)
      <4>1. tfstate'[WorkspaceName(s)] = tfstate[WorkspaceName(s)]
        BY <2>3, <2>5, <3>1 DEF ContentBecomes
      <4>2. job[s] = job'[s]
        BY <1>4, <3>1 DEF JobMove
      <4> QED BY <1>2, <2>2, <4>1, <4>2 DEF DeployedInv
    <3>2. CASE WorkspaceName(u) = WorkspaceName(s)
      <4>1. job[u] # "waiting" /\ job[u] \notin Resting
        BY <2>5 DEF TearingDown, Resting, Failed, Succeeded
      <4>2. u.env \in EnvOf(u.run) /\ status[u.run] \in {"active", "cancelled"}
        BY <4>1 DEF ActiveInv
      <4>3. u.run \in Master
        BY <3>2, <4>2, MasterWorkspace
      <4>4. s.env \in EnvOf(s.run)
        BY SlotFields DEF EnvOf, Master
      <4>5. u.env = s.env /\ u.cfg = s.cfg
        BY <3>2, <4>2, <4>4, SameWorkspace
      <4>6. ASSUME u # s PROVE FALSE
        <5>1. u.run # s.run
          BY <4>5, <4>6, SameSlot
        <5>2. status[s.run] # "idle"
          BY <1>4, <4>6 DEF JobMove, IdleInv
        <5> QED BY <1>2, <2>2, <4>2, <4>3, <5>1, <5>2 DEF LatestInv, InFlight, NoReruns
      <4>7. CASE u = s
        <5>1. job[s] = "applying"
          BY <2>5, <4>7 DEF TeardownInv
        <5>2. p = "applied"
          BY <1>4, <4>7, <5>1 DEF JobMove, Edge, TearingDown
        <5>3. k = Rendered(s.cfg, head[s.run])
          BY <2>5, <4>7, <5>1, <5>2, AppliedHead DEF ReviewInv
        <5> QED BY <2>5, <4>7, <5>3 DEF ContentBecomes
      <4> QED BY <4>6, <4>7
    <3> QED BY <3>1, <3>2
  <2> QED BY <1>4, <2>1, <2>4, <2>5 DEF JobMove, Effect
<1> QED BY <1>3, <1>4, JobMoves

\* What green promises of a forced pipeline, on a master without reverts: all
\* that the conditions of the detection would have to find out is not asked, and
\* then no order of runs, environments, cancellations and failures breaks it.
THEOREM ForcedGreen ==
  ASSUME ForceRun, OneCommitEach
  PROVE  Spec => []GreenMeansDeployed
<1> DEFINE Inv == /\ ReviewInv /\ ActiveInv /\ IdleInv /\ PromotedInv
                  /\ HeadInv /\ LatestInv /\ DeployedInv
<1>1. Init => Inv
  <2>1. Init => ReviewInv /\ ActiveInv
    BY InitInv, InitRefined, ActiveInit DEF ReviewInv
  <2>2. Init => IdleInv /\ PromotedInv /\ DeployedInv
    BY DEF Init, IdleInv, PromotedInv, DeployedInv
  <2>3. Init => HeadInv /\ LatestInv
    BY DEF Init, HeadInv, LatestInv, InFlight, Master
  <2> QED BY <2>1, <2>2, <2>3
<1>2. Inv /\ [Next]_vars => Inv'
  <2> SUFFICES ASSUME Inv, [Next]_vars PROVE Inv'
    OBVIOUS
  <2>1. TypeOK /\ TeardownInv
    BY DEF ReviewInv, IInv
  <2>2. ReviewInv'
    BY NextInv, NextRefined DEF ReviewInv, Refined
  <2>3. ActiveInv' /\ IdleInv' /\ PromotedInv'
    BY <2>1, ActiveStep, IdleStep, PromotedStep
  <2>4. HeadInv' /\ LatestInv'
    BY <2>1, HeadStep, LatestStep
  <2>5. DeployedInv'
    BY <2>1, DeployedStep
  <2> QED BY <2>2, <2>3, <2>4, <2>5
<1>3. Inv => GreenMeansDeployed
  <2> SUFFICES ASSUME Inv, NEW r \in Master, \A q \in Master : reruns[q] = 0,
                      \A s \in Slot : s.run = r => job[s] \in Succeeded,
                      \A q \in Master : ~Later(q, r),
                      NEW s \in Slot, s.run = r, ~TornDown(s), ~SharedWithPullRequest(s)
               PROVE  tfstate[WorkspaceName(s)].content = Rendered(s.cfg, head[r])
    BY DEF GreenMeansDeployed
  <2>1. job[s] = "deployed"
    BY DEF Succeeded, PromotedInv
  <2> QED BY <2>1 DEF DeployedInv, NoReruns
<1> HIDE DEF Inv
<1> QED BY <1>1, <1>2, <1>3, PTL DEF Spec

-----------------------------------------------------------------------------
(* What the integration tests look at.                                     *)

OwnInv ==
  \A s \in Slot : job[s] = "applied" =>
    tfstate[WorkspaceName(s)].content = Rendered(s.cfg, head[s.run])

\* Of isolated pull requests and runs that are not started again, one job at a
\* time is at work in a workspace.
LEMMA Exclusive ==
  ASSUME Isolated, MaxReruns = 0, TypeOK, ActiveInv, BatchInv,
         NEW s \in Slot, NEW t \in Slot, WorkspaceName(s) = WorkspaceName(t),
         job[s] \notin Resting, job[t] \notin Resting
  PROVE  s = t
<1>1. /\ s.env \in EnvOf(s.run) /\ t.env \in EnvOf(t.run)
      /\ InFlight(s.run) /\ InFlight(t.run)
  BY DEF ActiveInv, Resting, InFlight
<1>2. s.env = t.env /\ s.cfg = t.cfg
  BY <1>1, SameWorkspace
<1>3. NoReruns
  <2>1. reruns \in [Run -> 0..0]
    BY DEF TypeOK
  <2> QED BY <2>1 DEF NoReruns, Master
<1>4. s.run = t.run
  BY <1>1, <1>3, OwnWorkspace DEF BatchInv
<1> QED BY <1>2, <1>4, SameSlot

LEMMA OwnStep ==
  ASSUME Isolated, MaxReruns = 0, ReviewInv, ActiveInv, IdleInv, BatchInv, OwnInv, [Next]_vars
  PROVE  OwnInv'
<1> SUFFICES ASSUME NEW s \in Slot, job'[s] = "applied"
             PROVE  tfstate'[WorkspaceName(s)].content = Rendered(s.cfg, head'[s.run])
  BY DEF OwnInv, WorkspaceName, Rendered
<1>1. TypeOK /\ WorkspaceName(s) \in Workspace
  BY WorkspaceOfSlot DEF ReviewInv, IInv
<1>2. CASE RunOnly
  <2>1. job[s] = "applied" /\ tfstate' = tfstate
    BY <1>2 DEF RunOnly
  <2>2. status[s.run] \notin {"idle", "queued"}
    BY <2>1 DEF IdleInv
  <2>3. head'[s.run] = head[s.run]
    <3>1. head \in [Run -> Commit \cup {None}] /\ s.run \in Run
      BY <1>1, SlotFields DEF TypeOK
    <3> QED BY <1>2, <2>2, <3>1 DEF RunOnly, Merge, QueueMaster, QueuePullRequest, Prepare,
                                    Cancel, Finish, vars
  <2> QED BY <2>1, <2>3 DEF OwnInv
<1>3. ASSUME NEW u \in Slot, NEW p, JobMove(u, p)
      PROVE  tfstate'[WorkspaceName(s)].content = Rendered(s.cfg, head'[s.run])
  <2>1. head' = head
    BY <1>3 DEF JobMove, Rerun, runVars
  <2>2. CASE SameContent /\ p # "applied"
    <3>1. job[s] = "applied"
      BY <1>3, <2>2 DEF JobMove
    <3> QED BY <1>1, <2>1, <2>2, <3>1 DEF OwnInv, SameContent
  <2>3. ASSUME NEW k, ContentBecomes(WorkspaceName(u), k),
               job[u] \in {"applying"} \cup TearingDown, p = "applied" => k = Applied(u)
        PROVE  tfstate'[WorkspaceName(s)].content = Rendered(s.cfg, head[s.run])
    <3>1. CASE WorkspaceName(u) # WorkspaceName(s)
      <4>1. tfstate'[WorkspaceName(s)] = tfstate[WorkspaceName(s)]
        BY <1>1, <2>3, <3>1 DEF ContentBecomes
      <4>2. job[s] = job'[s]
        BY <1>3, <3>1 DEF JobMove
      <4> QED BY <4>1, <4>2 DEF OwnInv
    <3>2. CASE u = s
      <4>1. p = "applied" /\ job[s] = "applying"
        BY <1>3, <3>2 DEF JobMove, Edge
      <4>2. k = Rendered(s.cfg, head[s.run])
        BY <2>3, <3>2, <4>1, AppliedHead DEF ReviewInv
      <4> QED BY <2>3, <3>2, <4>2 DEF ContentBecomes
    <3>3. ASSUME WorkspaceName(u) = WorkspaceName(s), u # s PROVE FALSE
      <4>1. job[s] = "applied"
        BY <1>3, <3>3 DEF JobMove
      <4>2. job[s] \notin Resting /\ job[u] \notin Resting
        BY <2>3, <4>1 DEF TearingDown, Resting, Failed, Succeeded
      <4> QED BY <1>1, <3>3, <4>2, Exclusive
    <3> QED BY <3>1, <3>2, <3>3
  <2> QED BY <1>3, <2>1, <2>2, <2>3 DEF JobMove, Effect
<1> QED BY <1>2, <1>3, JobMoves

\* Whatever the history of master, the environments and the faults: where pull
\* requests are isolated and nothing is started again, tests see what their own
\* run has deployed.
THEOREM IsolatedTests ==
  ASSUME Isolated, MaxReruns = 0
  PROVE  Spec => []TestsSeeOwnDeployment
<1> DEFINE Inv == ReviewInv /\ ActiveInv /\ IdleInv /\ BatchInv /\ OwnInv
<1>1. Init => Inv
  <2>1. Init => ReviewInv /\ ActiveInv
    BY InitInv, InitRefined, ActiveInit DEF ReviewInv
  <2>2. Init => IdleInv /\ BatchInv /\ OwnInv
    BY DEF Init, IdleInv, BatchInv, OwnInv, InFlight, Master
  <2> QED BY <2>1, <2>2
<1>2. Inv /\ [Next]_vars => Inv'
  <2>1. ReviewInv /\ [Next]_vars => ReviewInv'
    BY NextInv, NextRefined DEF ReviewInv, Refined
  <2>2. ReviewInv => TypeOK
    BY DEF ReviewInv, IInv
  <2> QED BY <2>1, <2>2, ActiveStep, IdleStep, BatchStep, OwnStep
<1>3. Inv => TestsSeeOwnDeployment
  BY DEF OwnInv, TestsSeeOwnDeployment, At
<1> HIDE DEF Inv
<1> QED BY <1>1, <1>2, <1>3, PTL DEF Spec

-----------------------------------------------------------------------------
(* What is left where no step fails but for the locks and the plans of     *)
(* other jobs.                                                             *)

\* A job that has its teardown ahead, or will get there, as nothing stops it.
Pending == Deploying \cup {"planning", "built", "teardown", "failedTeardown",
                           "destroying", "failedDestroying"}

\* A lock that is held is held by a command.
HeldInv ==
  \A w \in Workspace : tfstate[w].lock # Free =>
    WorkspaceName(tfstate[w].lock) = w /\ job[tfstate[w].lock] \in Locking

\* No run ends before the Deploy stages of what it has built.
BuiltInv ==
  /\ \A r \in Run : status[r] # "cancelled"
  /\ \A s \in Slot : job[s] = "built" => status[s.run] = "active"

\* Every Deploy stage of a forced run has its plan, in master and elsewhere.
Planned == {"built", "deployFailed"} \cup Deploying \cup TearingDown
ForcedPlanInv == \A s \in Slot : job[s] \in Planned => PlanOf(s) # NoPlan

PendingInv ==
  \A s \in Slot :
    TornDown(s) /\ s.env \in EnvOf(s.run) /\ tfstate[WorkspaceName(s)].content # Empty =>
      \E t \in Slot : WorkspaceName(t) = WorkspaceName(s) /\ job[t] \in Pending

LEMMA NoFaults == ~Faults => \A s \in Slot : ~JobFault(s)
  BY DEF JobFault, Reject, BreakApply, FailStep, Interrupt

LEMMA ForcedPlanStep ==
  ASSUME ForceRun, IInv, PromotedInv, ForcedPlanInv, [Next]_vars
  PROVE  ForcedPlanInv'
<1>1. TypeOK
  BY DEF IInv
<1>2. \A t \in Slot : PlanOf(t) # NoPlan => PlanOf(t)' # NoPlan
  BY PlansStay
<1>3. CASE RunOnly
  BY <1>2, <1>3 DEF RunOnly, ForcedPlanInv
<1>4. ASSUME NEW s \in Slot, NEW p, Edge(s, p), job'[s] = p,
             \A t \in Slot \ {s} : job'[t] = job[t]
      PROVE  ForcedPlanInv'
  <2> SUFFICES ASSUME NEW t \in Slot, job'[t] \in Planned PROVE PlanOf(t)' # NoPlan
    BY DEF ForcedPlanInv
  <2>1. CASE t # s
    BY <1>2, <1>4, <2>1 DEF ForcedPlanInv
  <2>2. CASE t = s /\ p = "built"
    BY <1>4, <2>2, PlansStay DEF Edge
  <2>3. CASE t = s /\ p # "built"
    <3>1. job[s] # "unchanged" /\ job[s] # "skipped"
      BY DEF PromotedInv
    <3>2. job[s] \in Planned
      BY <1>1, <1>4, <2>3, <3>1 DEF Edge, Building, Deploying, TearingDown, Succeeded, TypeOK,
                                    Phase, Failed, Planned
    <3> QED BY <1>2, <2>3, <3>2 DEF ForcedPlanInv
  <2> QED BY <2>1, <2>2, <2>3
<1> QED BY <1>1, <1>3, <1>4, JobKinds

LEMMA BuiltStep ==
  ASSUME ~Faults, TypeOK, IdleInv, BuiltInv, [Next]_vars
  PROVE  BuiltInv'
<1>1. status \in [Run -> Status] /\ \A s \in Slot : s.run \in Run
  BY SlotFields DEF TypeOK
<1>2. CASE RunOnly
  <2>1. ASSUME NEW s \in Slot, job[s] = "built" PROVE status'[s.run] = "active"
    <3>1. status[s.run] = "active"
      BY <2>1 DEF BuiltInv
    <3>2. ~Finish(s.run)
      BY <2>1, <3>1 DEF Finish, Settled, Failed, Succeeded
    <3> QED BY <1>1, <1>2, <3>1, <3>2 DEF RunOnly, Merge, QueueMaster, QueuePullRequest, Prepare,
                                          Cancel, vars, Finish
  <2>2. \A r \in Run : status'[r] # "cancelled"
    BY <1>1, <1>2 DEF BuiltInv, RunOnly, Merge, QueueMaster, QueuePullRequest, Prepare, Cancel,
                      Finish, vars
  <2> QED BY <1>2, <2>1, <2>2 DEF BuiltInv, RunOnly
<1>3. ASSUME NEW s \in Slot, NEW p, Edge(s, p), job'[s] = p,
             \A t \in Slot \ {s} : job'[t] = job[t], UNCHANGED runVars
      PROVE  BuiltInv'
  <2>1. p = "built" => status[s.run] = "active"
    BY <1>3 DEF Edge, FinishPlan, At
  <2> QED BY <1>3, <2>1 DEF BuiltInv, runVars
<1>4. ASSUME NEW s \in Slot, Rerun(s), job'[s] \in Restarted,
             \A t \in Slot \ {s} : job'[t] = job[t]
      PROVE  BuiltInv'
  <2>1. \A r \in Run : status'[r] = IF r = s.run THEN "active" ELSE status[r]
    BY <1>1, <1>4 DEF Rerun
  <2> QED BY <1>1, <1>4, <2>1 DEF BuiltInv, Restarted
<1>5. \A s \in Slot : Rerun(s) => job'[s] \in Restarted
  BY Moved DEF Rerun, Restarted
<1> QED BY <1>2, <1>3, <1>4, <1>5, JobKinds

\* A step of one job where no step fails: what becomes of the lock, and of what
\* the job has to tear down.
Quiet(s) ==
  LET w == WorkspaceName(s)
      p == job'[s]
  IN  /\ \A v \in Workspace \ {w} : tfstate'[v] = tfstate[v]
      /\ \/ tfstate'[w].lock \in {tfstate[w].lock, Free}
         \/ tfstate'[w].lock = s /\ p \in Locking
      /\ job[s] \in Locking => tfstate'[w].lock = Free
      /\ \/ /\ tfstate'[w].content = tfstate[w].content
            /\ job[s] \in Pending /\ TornDown(s) =>
                 p \in Pending \/ (tfstate[w].lock # Free /\ job[s] \notin Locking)
         \/ p = "applied" \/ tfstate'[w].content = Empty

LEMMA QuietStep ==
  ASSUME ForceRun, ReviewInv, ForcedPlanInv, NEW s \in Slot, JobStep(s) \/ Rerun(s)
  PROVE  Quiet(s)
<1> DEFINE w == WorkspaceName(s)
           p == job'[s]
<1>1. TypeOK /\ BackendType /\ AbsentInv /\ w \in Workspace /\ IInv
  BY BackendTypeOK, WorkspaceOfSlot DEF ReviewInv, IInv
<1>2. \A q : Moves(s, q) => p = q
  BY <1>1, Moved
<1>3. /\ job[s] \in Locking => tfstate[w].lineage # 0 /\ tfstate[w].lock = s
      /\ s # Free
  BY <1>1, LockedExists, PipelineAssumption DEF IInv, LockDiscipline
<1>4. Locking = {"planning", "applying", "destroying", "failedDestroying"}
  BY DEF Locking
<1>5. ASSUME UNCHANGED tfstate
      PROVE  /\ \A v \in Workspace \ {w} : tfstate'[v] = tfstate[v]
             /\ tfstate'[w].lock = tfstate[w].lock /\ tfstate'[w].content = tfstate[w].content
  BY <1>5
<1>6. ASSUME NEW l \in Slot \cup {Free}, Open(w, l)
      PROVE  /\ \A v \in Workspace \ {w} : tfstate'[v] = tfstate[v]
             /\ tfstate'[w].lock = l /\ tfstate'[w].content = tfstate[w].content
  <2> HIDE DEF w
  <2>1. tfstate' = [tfstate EXCEPT ![w] = [Opened(w) EXCEPT !.lock = l]] /\ Opened(w) \in State
    BY <1>1, <1>6, ContentMembers DEF Open, Opened, State, BackendType
  <2>2. SameContent
    BY <1>1, <1>6, OpenKeepsContent
  <2> QED BY <1>1, <2>1, <2>2 DEF BackendType, State, SameContent
<1>7. ASSUME NewOrSelect(w)
      PROVE  /\ \A v \in Workspace \ {w} : tfstate'[v] = tfstate[v]
             /\ tfstate'[w].lock \in {tfstate[w].lock, Free}
             /\ tfstate'[w].content = tfstate[w].content
  <2>1. Opened(w).lock \in {tfstate[w].lock, Free} /\ Opened(w).lock \in Slot \cup {Free}
    BY <1>1 DEF Opened, BackendType, State
  <2>2. Open(w, Opened(w).lock)
    BY <1>7 DEF NewOrSelect
  <2> HIDE DEF w
  <2> QED BY <1>6, <2>1, <2>2
<1>8. ASSUME Release(w, Free)
      PROVE  /\ \A v \in Workspace \ {w} : tfstate'[v] = tfstate[v]
             /\ tfstate'[w].lock = Free /\ tfstate'[w].content = tfstate[w].content
  <2> HIDE DEF w
  <2> QED BY <1>1, <1>8 DEF Release, BackendType, State
<1>9. ASSUME NEW k, Persist(w, k, Free)
      PROVE  /\ \A v \in Workspace \ {w} : tfstate'[v] = tfstate[v]
             /\ tfstate'[w].lock = Free /\ tfstate'[w].content = k
  <2> HIDE DEF w
  <2> DEFINE sn == IF k = tfstate[w].content /\ k # Partial
                   THEN tfstate[w].serial ELSE tfstate[w].serial + 1
  <2>1. tfstate' = [tfstate EXCEPT ![w].serial = sn, ![w].content = k, ![w].lock = Free]
    BY <1>1, <1>9 DEF Persist, BackendType
  <2> HIDE DEF sn
  <2> QED BY <1>1, <2>1 DEF BackendType, State
<1> HIDE DEF w
<1>10. CASE StartBuild(s) \/ StartDeploy(s) \/ PassTests(s) \/ Rerun(s)
  <2>1. UNCHANGED tfstate /\ job[s] \notin Locking
    BY <1>4, <1>10 DEF StartBuild, StartDeploy, PassTests, Rerun, At
  <2>2. job[s] \in Pending /\ TornDown(s) => p \in Pending
    <3>1. CASE StartDeploy(s)
      BY <1>2, <3>1 DEF StartDeploy, DeployNeeded, Pending, Deploying
    <3>2. CASE PassTests(s)
      BY <1>2, <3>2 DEF PassTests, AfterTests, Pending
    <3>3. CASE StartBuild(s) \/ Rerun(s)
      BY <1>10, <3>3 DEF StartBuild, Rerun, At, Pending, Deploying
    <3> QED BY <1>10, <3>1, <3>2, <3>3
  <2> QED BY <1>5, <2>1, <2>2 DEF Quiet, w
<1>11. CASE SelectForBuild(s)
  <2>1. NewOrSelect(w) /\ job[s] = "building"
    BY <1>11 DEF SelectForBuild, At, w
  <2> QED BY <1>4, <1>7, <2>1 DEF Quiet, w, Pending, Deploying
<1>12. CASE StartPlan(s)
  <2>1. job[s] = "selected" /\ job[s] \notin Locking \cup Pending
    BY <1>4, <1>12 DEF StartPlan, At, Pending, Deploying
  <2>2. CASE Open(w, s) /\ Moves(s, "planning")
    <3>1. p \in Locking /\ tfstate'[w].lock = s
      BY <1>2, <1>4, <1>6, <2>2
    <3> QED BY <1>6, <2>1, <2>2, <3>1 DEF Quiet, w
  <2>3. CASE UNCHANGED tfstate
    BY <1>5, <2>1, <2>3 DEF Quiet, w
  <2> QED BY <1>12, <2>2, <2>3 DEF StartPlan, w
<1>13. CASE FinishPlan(s)
  <2>1. Release(w, Free) /\ p = "built"
    BY <1>2, <1>13 DEF FinishPlan, w
  <2>2. p \in Pending
    BY <2>1 DEF Pending
  <2> QED BY <1>8, <2>1, <2>2 DEF Quiet, w
<1>14. CASE PullArtifact(s)
  <2>1. NewOrSelect(w) /\ Moves(s, "attached") /\ job[s] = "deploying"
    BY <1>14 DEF PullArtifact, At, w, ForcedPlanInv, Planned, Deploying
  <2> QED BY <1>2, <1>4, <1>7, <2>1 DEF Quiet, w, Pending, Deploying
<1>15. CASE StartApply(s)
  <2>1. Open(w, s) /\ p = "applying" /\ job[s] = "attached"
    BY <1>2, <1>15 DEF StartApply, At, w
  <2> QED BY <1>4, <1>6, <2>1 DEF Quiet, w, Pending, Deploying
<1>16. CASE RefuseApply(s)
  <2>1. NewOrSelect(w) /\ p = AfterFailure(s) /\ job[s] = "attached"
    BY <1>2, <1>16 DEF RefuseApply, At, w
  <2>2. TornDown(s) => p = "failedTeardown"
    BY <2>1 DEF AfterFailure, Building, Deploying
  <2> QED BY <1>4, <1>7, <2>1, <2>2 DEF Quiet, w, Pending
<1>17. CASE FinishApply(s)
  <2>1. Persist(w, Applied(s), Free) /\ p = "applied"
    BY <1>2, <1>17 DEF FinishApply, w
  <2> QED BY <1>9, <2>1 DEF Quiet, w
<1>18. CASE StartDestroy(s)
  <2>1. /\ job[s] \in {"teardown", "failedTeardown"}
        /\ \/ Open(w, s) /\ p \in {"destroying", "failedDestroying"}
           \/ UNCHANGED tfstate /\ tfstate[w].lock # Free
    BY <1>2, <1>18 DEF StartDestroy, CanLock, w
  <2> QED BY <1>4, <1>5, <1>6, <2>1 DEF Quiet, w, Pending
<1>19. CASE FinishDestroy(s)
  <2>1. Persist(w, Empty, Free)
    BY <1>19 DEF FinishDestroy, w
  <2> QED BY <1>9, <2>1 DEF Quiet, w
<1>20. CASE DeleteWorkspace(s)
  <2>1. /\ job[s] \in {"emptied", "failedEmptied"}
        /\ UNCHANGED tfstate \/ Delete(w)
    BY <1>20 DEF DeleteWorkspace, w
  <2>2. ASSUME Delete(w)
        PROVE  /\ \A v \in Workspace \ {w} : tfstate'[v] = tfstate[v]
               /\ tfstate'[w].lock = Free /\ tfstate'[w].content = Empty
    BY <1>1, <2>2 DEF Delete, Absent, BackendType
  <2> QED BY <1>4, <1>5, <2>1, <2>2 DEF Quiet, w, Pending, Deploying
<1> QED BY <1>10, <1>11, <1>12, <1>13, <1>14, <1>15, <1>16, <1>17, <1>18, <1>19, <1>20
        DEF JobStep

LEMMA QuietKinds ==
  ASSUME ForceRun, ~Faults, ReviewInv, ForcedPlanInv, [Next]_vars
  PROVE  \/ RunOnly
         \/ \E s \in Slot : Quiet(s) /\ \A t \in Slot \ {s} : job'[t] = job[t]
<1>1. TypeOK
  BY DEF ReviewInv, IInv
<1>2. ASSUME NEW s \in Slot, JobStep(s) \/ Rerun(s)
      PROVE  Quiet(s) /\ \A t \in Slot \ {s} : job'[t] = job[t]
  <2>1. PICK p : Moves(s, p)
    BY <1>2, JobEdge
  <2> QED BY <1>1, <1>2, <2>1, Moved, QuietStep
<1> QED BY <1>2, NoFaults, StepKinds

LEMMA HeldStep ==
  ASSUME ForceRun, ~Faults, ReviewInv, ForcedPlanInv, HeldInv, [Next]_vars
  PROVE  HeldInv'
<1>1. CASE RunOnly
  BY <1>1 DEF RunOnly, HeldInv, WorkspaceName
<1>2. ASSUME NEW s \in Slot, Quiet(s), \A t \in Slot \ {s} : job'[t] = job[t]
      PROVE  HeldInv'
  <2> SUFFICES ASSUME NEW w \in Workspace, tfstate'[w].lock # Free
               PROVE  WorkspaceName(tfstate'[w].lock) = w /\ job'[tfstate'[w].lock] \in Locking
    BY DEF HeldInv, WorkspaceName
  <2>1. tfstate[w].lock # Free => tfstate[w].lock \in Slot
    BY DEF ReviewInv, IInv, TypeOK
  <2>2. CASE w # WorkspaceName(s)
    <3>1. tfstate'[w] = tfstate[w]
      BY <1>2, <2>2 DEF Quiet
    <3>2. WorkspaceName(tfstate[w].lock) = w /\ job[tfstate[w].lock] \in Locking
      BY <3>1 DEF HeldInv
    <3> QED BY <1>2, <2>1, <2>2, <3>1, <3>2
  <2>3. CASE w = WorkspaceName(s)
    <3>1. CASE tfstate'[w].lock = s /\ job'[s] \in Locking
      BY <2>3, <3>1
    <3>2. CASE tfstate'[w].lock = tfstate[w].lock
      <4>1. WorkspaceName(tfstate[w].lock) = w /\ job[tfstate[w].lock] \in Locking
        BY <3>2 DEF HeldInv
      <4>2. tfstate[w].lock # s
        BY <1>2, <2>3, <3>2, <4>1 DEF Quiet
      <4> QED BY <1>2, <2>1, <3>2, <4>1, <4>2
    <3> QED BY <1>2, <2>3, <3>1, <3>2 DEF Quiet
  <2> QED BY <2>2, <2>3
<1> QED BY <1>1, <1>2, QuietKinds

LEMMA PendingStep ==
  ASSUME ForceRun, ~Faults, ReviewInv, ForcedPlanInv, ActiveInv, HeldInv, PendingInv, [Next]_vars
  PROVE  PendingInv'
<1>1. CASE RunOnly
  <2>1. job' = job /\ tfstate' = tfstate
    BY <1>1 DEF RunOnly
  <2> QED BY <2>1 DEF PendingInv, TornDown, EnvOf, WorkspaceName, Pending
<1>2. ASSUME NEW u \in Slot, Quiet(u), \A t \in Slot \ {u} : job'[t] = job[t]
      PROVE  PendingInv'
  <2>1. SUFFICES ASSUME NEW s \in Slot, TornDown(s), s.env \in EnvOf(s.run),
                        tfstate'[WorkspaceName(s)].content # Empty
                 PROVE  \E t \in Slot : WorkspaceName(t) = WorkspaceName(s) /\ job'[t] \in Pending
    BY DEF PendingInv, TornDown, EnvOf, WorkspaceName, Pending
  <2> DEFINE w == WorkspaceName(s)
  <2>2. w \in Workspace
    BY WorkspaceOfSlot
  <2> HIDE DEF w
  <2>3. CASE WorkspaceName(u) # w
    <3>1. PICK t \in Slot : WorkspaceName(t) = w /\ job[t] \in Pending
      BY <1>2, <2>1, <2>2, <2>3 DEF Quiet, PendingInv, w
    <3> QED BY <1>2, <2>3, <3>1 DEF w
  <2>4. CASE WorkspaceName(u) = w /\ job'[u] = "applied"
    BY <2>4 DEF w, Pending, Deploying
  <2>5. CASE WorkspaceName(u) = w /\ job'[u] # "applied"
    <3>1. /\ tfstate[w].content # Empty
          /\ job[u] \in Pending /\ TornDown(u) =>
               job'[u] \in Pending \/ (tfstate[w].lock # Free /\ job[u] \notin Locking)
      BY <1>2, <2>1, <2>5 DEF Quiet, w
    <3>2. PICK t \in Slot : WorkspaceName(t) = w /\ job[t] \in Pending
      BY <2>1, <3>1 DEF PendingInv, w
    <3>3. CASE t # u
      BY <1>2, <3>2, <3>3 DEF w
    <3>4. CASE t = u
      <4>1. TornDown(u)
        <5>1. u.env \in EnvOf(u.run)
          BY <3>2, <3>4 DEF ActiveInv, Pending, Deploying
        <5>2. u.env = s.env /\ u.cfg = s.cfg
          BY <2>1, <2>5, <5>1, SameWorkspace DEF w
        <5> QED BY <2>1, <5>2 DEF TornDown
      <4>2. CASE job'[u] \in Pending
        BY <2>5, <4>2 DEF w
      <4>3. CASE job'[u] \notin Pending
        <5> DEFINE h == tfstate[w].lock
        <5>1. h # Free /\ h \in Slot
          BY <2>2, <3>1, <3>2, <3>4, <4>1, <4>3 DEF ReviewInv, IInv, TypeOK
        <5>2. WorkspaceName(h) = w /\ job[h] \in Locking
          BY <2>2, <5>1 DEF HeldInv
        <5>3. job[h] \in Pending
          BY <5>2 DEF Locking, Pending, Deploying
        <5>4. h # u
          BY <3>1, <3>2, <3>4, <4>1, <4>3, <5>2
        <5> QED BY <1>2, <5>1, <5>2, <5>3, <5>4 DEF w
      <4> QED BY <4>2, <4>3
    <3> QED BY <3>3, <3>4
  <2> QED BY <2>3, <2>4, <2>5
<1> QED BY <1>1, <1>2, QuietKinds

\* Where no step fails of its own and runs are forced, nothing is left in an
\* environment that is torn down once all runs are over: a job that cannot apply
\* its plan, or cannot destroy for a lock, leaves it to the one that holds the
\* lock, which has its own teardown ahead.
THEOREM ForcedTeardown ==
  ASSUME ForceRun, ~Faults
  PROVE  Spec => []NothingLeftBehind
<1> DEFINE Inv == /\ ReviewInv /\ ActiveInv /\ IdleInv /\ PromotedInv
                  /\ BuiltInv /\ ForcedPlanInv /\ HeldInv /\ PendingInv
<1>1. Init => Inv
  <2>1. Init => ReviewInv /\ ActiveInv
    BY InitInv, InitRefined, ActiveInit DEF ReviewInv
  <2>2. Init => IdleInv /\ PromotedInv /\ BuiltInv /\ ForcedPlanInv
    BY DEF Init, IdleInv, PromotedInv, BuiltInv, ForcedPlanInv, Planned, Deploying, TearingDown
  <2>3. Init => HeldInv
    BY DEF Init, HeldInv, BackendInit, SteadyState, Absent
  <2>4. Init => PendingInv
    BY OwedInit DEF Init, OwedInv, PendingInv, Owing, Deploying
  <2> QED BY <2>1, <2>2, <2>3, <2>4
<1>2. Inv /\ [Next]_vars => Inv'
  <2> SUFFICES ASSUME Inv, [Next]_vars PROVE Inv'
    OBVIOUS
  <2>1. IInv /\ TypeOK
    BY DEF ReviewInv, IInv
  <2>2. ReviewInv' /\ ActiveInv'
    BY <2>1, NextInv, NextRefined, ActiveStep DEF ReviewInv, Refined
  <2>3. IdleInv' /\ PromotedInv' /\ BuiltInv' /\ ForcedPlanInv'
    BY <2>1, IdleStep, PromotedStep, BuiltStep, ForcedPlanStep
  <2>4. HeldInv' /\ PendingInv'
    BY HeldStep, PendingStep
  <2> QED BY <2>2, <2>3, <2>4
<1>3. Inv => NothingLeftBehind
  <2> SUFFICES ASSUME Inv, \A r \in Run : status[r] \in {"idle", "done"}, NEW t \in Slot,
                      job[t] \in Pending
               PROVE  FALSE
    BY DEF NothingLeftBehind, PendingInv
  <2>1. status[t.run] \in {"idle", "done"}
    BY SlotFields
  <2>2. job[t] \in Resting /\ job[t] # "built"
    BY <2>1 DEF ActiveInv, BuiltInv
  <2> QED BY <2>2 DEF Resting, Pending, Deploying, Failed, Succeeded
<1> HIDE DEF Inv
<1> QED BY <1>1, <1>2, <1>3, PTL DEF Spec

-----------------------------------------------------------------------------
(* Older and later runs.                                                   *)

\* Master takes nothing back: what a configuration is at two commits it is at
\* those between them, and it never is what an empty or a broken state is.
NoReverts ==
  /\ \A c \in Config : \A i, j, k \in 1..MasterLength :
       i <= j /\ j <= k /\ Rendered(c, MasterLog[i]) = Rendered(c, MasterLog[k]) =>
         Rendered(c, MasterLog[j]) = Rendered(c, MasterLog[k])
  /\ \A c \in Config, k \in Commit : Rendered(c, k) \notin {Empty, Partial}

\* A job of a run of master that shares no workspace with a pull request.
Kept(s) == s.run \in Master /\ ~SharedWithPullRequest(s)

\* A job with a plan made before any job of its run was started again.
FirstPlan(s) == PlanOf(s) # NoPlan /\ PlanOf(s).attempt = 0

\* What runs of master with the heads h may have made of a workspace.
Made(h, c, k) ==
  \/ k \in {Empty, Partial}
  \/ \E i \in 1..MasterLength :
       /\ k = Rendered(c, MasterLog[i])
       /\ i = 1 \/ \E q \in Master : h[q] = MasterLog[i]

MadeInv == \A s \in Slot : Kept(s) => Made(head, s.cfg, tfstate[WorkspaceName(s)].content)

\* A first plan is for what commits not after its own have made.
BaseInv ==
  \A s \in Slot : Kept(s) /\ FirstPlan(s) =>
    \/ PlanOf(s).base \in {Empty, Partial}
    \/ \E i, j \in 1..MasterLength :
         /\ i <= j /\ head[s.run] = MasterLog[j]
         /\ PlanOf(s).base = Rendered(s.cfg, MasterLog[i])

\* A job that has applied its plan, and whatever it did to tear it down.
Released == {"applied", "teardown", "destroying", "emptied", "deployed"}

\* Once a later run has applied, a first plan of an earlier one is stale, unless the
\* workspace held what the later run deployed when the earlier one made its plan.
OvertakenInv ==
  \A s, t \in Slot :
    /\ Kept(s) /\ t = [s EXCEPT !.run = t.run] /\ t.run \in Master /\ Later(t.run, s.run)
    /\ job[t] \in Released /\ FirstPlan(s)
    /\ Fresh(WorkspaceName(s), PlanOf(s))
    => tfstate[WorkspaceName(s)].content = Rendered(s.cfg, head[t.run])

-----------------------------------------------------------------------------
\* A lineage that is gone does not come back, and its serial never falls.
LEMMA LineageMoves ==
  ASSUME IInv, [Next]_vars, NEW w \in Workspace
  PROVE  \/ /\ tfstate'[w].lineage = tfstate[w].lineage
            /\ tfstate[w].serial <= tfstate'[w].serial
         \/ tfstate'[w].lineage \in {0, lineages + 1}
<1> DEFINE Goal == \/ /\ tfstate'[w].lineage = tfstate[w].lineage
                      /\ tfstate[w].serial <= tfstate'[w].serial
                   \/ tfstate'[w].lineage \in {0, lineages + 1}
<1>1. BackendType /\ tfstate[w] \in State /\ tfstate[w].serial \in Nat
  BY BackendTypeOK DEF IInv, BackendType, State
<1>2. ASSUME UNCHANGED tfstate PROVE Goal
  BY <1>1, <1>2
<1>3. ASSUME NEW v \in Workspace, NEW l, Open(v, l) PROVE Goal
  <2>1. tfstate' = [tfstate EXCEPT ![v] = [Opened(v) EXCEPT !.lock = l]]
    BY <1>3 DEF Open
  <2>2. CASE v # w
    BY <1>1, <2>1, <2>2 DEF BackendType
  <2>3. CASE v = w
    <3>1. tfstate'[w] = [Opened(w) EXCEPT !.lock = l]
      BY <1>1, <2>1, <2>3 DEF BackendType
    <3>2. CASE Exists(w)
      BY <1>1, <3>1, <3>2 DEF Opened, State
    <3>3. CASE ~Exists(w)
      BY <3>1, <3>3 DEF Opened
    <3> QED BY <3>2, <3>3
  <2> QED BY <2>2, <2>3
<1>4. ASSUME NEW v \in Workspace, NEW l, Release(v, l) PROVE Goal
  <2>1. tfstate' = [tfstate EXCEPT ![v].lock = l] /\ tfstate \in [Workspace -> State]
    BY <1>1, <1>4 DEF Release, BackendType
  <2>2. CASE v # w
    BY <1>1, <2>1, <2>2
  <2>3. CASE v = w
    <3>1. tfstate'[w] = [tfstate[w] EXCEPT !.lock = l]
      BY <2>1, <2>3
    <3> QED BY <1>1, <3>1 DEF State
  <2> QED BY <2>2, <2>3
<1>5. ASSUME NEW v \in Workspace, NEW k, NEW l, Persist(v, k, l) PROVE Goal
  <2> DEFINE sn == IF k = tfstate[v].content /\ k # Partial
                   THEN tfstate[v].serial ELSE tfstate[v].serial + 1
  <2>1. tfstate' = [tfstate EXCEPT ![v].serial = sn, ![v].content = k, ![v].lock = l]
    BY <1>1, <1>5 DEF Persist, BackendType
  <2>2. tfstate[v].serial \in Nat /\ tfstate[v].serial <= sn
    BY <1>1 DEF BackendType, State
  <2> HIDE DEF sn
  <2>3. CASE v # w
    BY <1>1, <2>1, <2>3 DEF BackendType
  <2>4. CASE v = w
    <3>1. tfstate'[w] = [tfstate[w] EXCEPT !.serial = sn, !.content = k, !.lock = l]
      BY <1>1, <2>1, <2>4 DEF BackendType
    <3> QED BY <1>1, <2>2, <2>4, <3>1 DEF State
  <2> QED BY <2>3, <2>4
<1>6. ASSUME NEW v \in Workspace, Delete(v) PROVE Goal
  <2>1. tfstate' = [tfstate EXCEPT ![v] = Absent]
    BY <1>6 DEF Delete
  <2> QED BY <1>1, <2>1 DEF BackendType, Absent
<1> HIDE DEF Goal
<1>7. ASSUME NEW s \in Slot, JobStep(s) PROVE Goal
  BY <1>2, <1>3, <1>4, <1>5, <1>6, <1>7, WorkspaceOfSlot
     DEF JobStep, StartBuild, SelectForBuild, StartPlan, FinishPlan, StartDeploy,
         PullArtifact, StartApply, RefuseApply, FinishApply, PassTests, StartDestroy,
         FinishDestroy, DeleteWorkspace, NewOrSelect
<1>8. ASSUME NEW s \in Slot, JobFault(s) PROVE Goal
  BY <1>2, <1>4, <1>5, <1>8, WorkspaceOfSlot
     DEF JobFault, Reject, BreakApply, FailStep, Interrupt
<1> QED BY <1>2, <1>7, <1>8, StepKinds DEF RunOnly, Rerun, Goal

\* A plan that is stale stays so, and one that is not was made for what the
\* workspace still holds.
LEMMA StaleStays ==
  ASSUME IInv, [Next]_vars, NEW r \in Run, NEW w \in Workspace,
         artifact[r][w] # NoPlan, artifact'[r][w] = artifact[r][w], Fresh(w, artifact[r][w])'
  PROVE  Fresh(w, artifact[r][w]) /\ tfstate'[w].content = tfstate[w].content
<1> DEFINE p == artifact[r][w]
<1>1. /\ p.lineage \in 1..lineages /\ lineages \in Nat /\ p.serial \in Nat
      /\ tfstate[w].serial \in Nat /\ tfstate'[w].serial \in Nat
      /\ p.lineage = tfstate[w].lineage =>
           /\ p.serial <= tfstate[w].serial
           /\ p.serial = tfstate[w].serial => p.base = tfstate[w].content
      /\ p.lineage = tfstate'[w].lineage /\ p.serial = tfstate'[w].serial =>
           p.base = tfstate'[w].content
  <2>1. IInv'
    BY NextInv
  <2>2. p \in Plan
    BY DEF IInv, TypeOK
  <2>3. tfstate[w] \in State /\ tfstate'[w] \in State /\ lineages \in Nat
    BY <2>1, BackendTypeOK DEF IInv, BackendType, TypeOK, State
  <2>4. p.serial \in Nat
    BY <2>2 DEF Plan
  <2>5. p.lineage = tfstate'[w].lineage /\ p.serial = tfstate'[w].serial =>
           p.base = tfstate'[w].content
    BY <2>1 DEF IInv, PlanInv
  <2> HIDE DEF p
  <2>6. tfstate[w].serial \in Nat /\ tfstate'[w].serial \in Nat
    BY <2>3 DEF State
  <2> QED BY <2>3, <2>4, <2>5, <2>6 DEF IInv, PlanInv, p
<1>2. p.lineage = tfstate'[w].lineage /\ p.serial = tfstate'[w].serial
  BY DEF Fresh
<1> HIDE DEF p
<1>3. p.lineage = tfstate[w].lineage /\ tfstate[w].serial <= tfstate'[w].serial
  BY <1>1, <1>2, LineageMoves
<1>4. p.serial = tfstate[w].serial
  BY <1>1, <1>2, <1>3
<1> QED BY <1>1, <1>2, <1>3, <1>4 DEF Fresh, p

\* The plan of a job changes as that job makes it.
LEMMA PlanChanges ==
  ASSUME IInv, ActiveInv, [Next]_vars, NEW t \in Slot, t.env \in EnvOf(t.run)
  PROVE  \/ PlanOf(t)' = PlanOf(t)
         \/ /\ FinishPlan(t)
            /\ PlanOf(t)'.base = tfstate[WorkspaceName(t)].content
            /\ PlanOf(t)'.attempt = reruns[t.run]
<1>1. PlanOf(t)' = artifact'[t.run][WorkspaceName(t)]
  BY DEF PlanOf, WorkspaceName
<1>2. CASE artifact' = artifact
  BY <1>1, <1>2 DEF PlanOf
<1>3. ASSUME NEW s \in Slot, FinishPlan(s)
      PROVE  PlanOf(t)' = PlanOf(t)
             \/ /\ s = t
                /\ PlanOf(t)'.base = tfstate[WorkspaceName(t)].content
                /\ PlanOf(t)'.attempt = reruns[t.run]
  <2> DEFINE w == WorkspaceName(s)
             plan == [head |-> head[s.run], lineage |-> tfstate[w].lineage,
                      serial |-> tfstate[w].serial, base |-> tfstate[w].content,
                      attempt |-> reruns[s.run]]
  <2>1. artifact' = [artifact EXCEPT ![s.run][w] = plan] /\ job[s] = "planning"
    BY <1>3 DEF FinishPlan, At
  <2>2. plan.base = tfstate[w].content /\ plan.attempt = reruns[s.run]
    OBVIOUS
  <2>3. w \in Workspace /\ s.run \in Run /\ WorkspaceName(t) \in Workspace /\ t.run \in Run
    BY WorkspaceOfSlot, SlotFields
  <2> HIDE DEF plan
  <2>4. CASE s.run = t.run /\ w = WorkspaceName(t)
    <3>1. s.env \in EnvOf(s.run)
      BY <2>1 DEF ActiveInv
    <3>2. s = t
      BY <2>4, <3>1, SameWorkspace, SameSlot
    <3>3. PlanOf(t)' = plan
      <4> HIDE DEF w
      <4> QED BY <1>1, <2>1, <2>3, <2>4 DEF IInv, TypeOK
    <3> QED BY <2>2, <3>2, <3>3
  <2>5. CASE ~(s.run = t.run /\ w = WorkspaceName(t))
    <3> HIDE DEF w
    <3>1. artifact'[t.run][WorkspaceName(t)] = artifact[t.run][WorkspaceName(t)]
      BY <2>1, <2>3, <2>5 DEF IInv, TypeOK
    <3> QED BY <1>1, <3>1 DEF PlanOf
  <2> QED BY <2>4, <2>5
<1>4. artifact' = artifact \/ \E s \in Slot : FinishPlan(s)
  <2>1. ASSUME NEW s \in Slot, JobStep(s) PROVE artifact' = artifact \/ FinishPlan(s)
    BY <2>1 DEF JobStep, StartBuild, SelectForBuild, StartPlan, StartDeploy,
                PullArtifact, StartApply, RefuseApply, FinishApply, PassTests, StartDestroy,
                FinishDestroy, DeleteWorkspace
  <2>2. ASSUME NEW s \in Slot, JobFault(s) \/ Rerun(s) PROVE artifact' = artifact
    BY <2>2 DEF JobFault, Reject, BreakApply, FailStep, Interrupt, Rerun
  <2> QED BY <2>1, <2>2, StepKinds DEF RunOnly
<1> QED BY <1>2, <1>3, <1>4

\* A job comes to have released by its apply alone.
LEMMA ReleasedEdge ==
  ASSUME TypeOK, NEW s \in Slot, JobStep(s) \/ JobFault(s) \/ Rerun(s), job'[s] \in Released
  PROVE  job'[s] = "applied" \/ job[s] \in Released
<1>1. \A p : Moves(s, p) => job'[s] = p
  BY Moved
<1>2. AfterFailure(s) \notin Released
  BY DEF AfterFailure, Released
<1>3. CASE StartBuild(s) \/ SelectForBuild(s) \/ StartPlan(s) \/ FinishPlan(s)
  BY <1>1, <1>3 DEF StartBuild, SelectForBuild, StartPlan, FinishPlan, Released
<1>4. CASE StartDeploy(s) \/ PullArtifact(s) \/ StartApply(s) \/ RefuseApply(s)
  BY <1>1, <1>2, <1>4 DEF StartDeploy, PullArtifact, StartApply, RefuseApply, Released
<1>5. CASE FinishApply(s) \/ PassTests(s) \/ Rerun(s)
  BY <1>1, <1>5 DEF FinishApply, PassTests, At, Rerun, Released
<1>6. CASE StartDestroy(s) \/ FinishDestroy(s) \/ DeleteWorkspace(s)
  BY <1>1, <1>6 DEF StartDestroy, FinishDestroy, DeleteWorkspace, Released
<1>7. CASE JobFault(s)
  BY <1>1, <1>2, <1>7 DEF JobFault, Reject, BreakApply, FailStep, Interrupt, Released
<1> QED BY <1>3, <1>4, <1>5, <1>6, <1>7 DEF JobStep

LEMMA NewlyReleased ==
  ASSUME TypeOK, [Next]_vars, NEW t \in Slot, job'[t] \in Released, job[t] \notin Released
  PROVE  job'[t] = "applied"
<1>1. ASSUME NEW s \in Slot, JobStep(s) \/ JobFault(s) \/ Rerun(s)
      PROVE  s = t
  BY <1>1, JobEdge, Moved
<1>2. ~RunOnly
  BY DEF RunOnly
<1> QED BY <1>1, <1>2, StepKinds, ReleasedEdge

-----------------------------------------------------------------------------
\* The members of a slot of another run.
LEMMA OtherRun ==
  ASSUME NEW s \in Slot, NEW q \in Run
  PROVE  /\ [s EXCEPT !.run = q] \in Slot
         /\ [s EXCEPT !.run = q].run = q
         /\ [s EXCEPT !.run = q].env = s.env
         /\ [s EXCEPT !.run = q].cfg = s.cfg
  BY DEF Slot

LEMMA MadeInit == Init => MadeInv
<1> SUFFICES ASSUME Init, NEW s \in Slot, Kept(s)
             PROVE  Made(head, s.cfg, tfstate[WorkspaceName(s)].content)
  BY DEF MadeInv
<1> DEFINE w == WorkspaceName(s)
<1>1. w \in Workspace /\ w[3] = Prefix[s.cfg] /\ s.cfg \in Config
  BY WorkspaceOfSlot, SlotFields DEF WorkspaceName
<1>2. (CHOOSE c \in Config : w[3] = Prefix[c]) = s.cfg
  BY <1>1, PrefixAssumption
<1> HIDE DEF w
<1>3. tfstate[w].content \in {Empty, Rendered(s.cfg, MasterLog[1])}
  BY <1>1, <1>2 DEF Init, BackendInit, SteadyState, Absent
<1>4. 1 \in 1..MasterLength
  BY DetectionAssumption
<1> QED BY <1>3, <1>4 DEF Made, w

\* The head of a run that has one stays.
LEMMA KnownStays ==
  ASSUME TypeOK, HeadInv, [Next]_vars, NEW q \in Master, NEW i \in 1..MasterLength,
         head[q] = MasterLog[i]
  PROVE  head'[q] = head[q] /\ status[q] # "idle"
<1>1. head[q] # None
  BY DetectionAssumption, PipelineAssumption
<1>2. status[q] # "idle"
  BY <1>1 DEF HeadInv
<1> QED BY <1>2, HeadsStay DEF Master

\* What a run of master in progress checked out.
LEMMA KnownHead ==
  ASSUME TypeOK, HeadInv, NEW r \in Master, status[r] # "idle"
  PROVE  \E i \in 1..MasterLength : head[r] = MasterLog[i]
<1>1. PICK i \in 1..origin : head[r] = MasterLog[i]
  BY DEF HeadInv
<1>2. i \in 1..MasterLength
  BY DetectionAssumption DEF TypeOK
<1> QED BY <1>1, <1>2

LEMMA MadeStep ==
  ASSUME ReviewInv, ActiveInv, IdleInv, HeadInv, MadeInv, [Next]_vars
  PROVE  MadeInv'
<1>1. TypeOK /\ IInv
  BY DEF ReviewInv, IInv
<1> SUFFICES ASSUME NEW s \in Slot, Kept(s)
             PROVE  Made(head', s.cfg, tfstate'[WorkspaceName(s)].content)
  BY DEF MadeInv, Made, Kept, SharedWithPullRequest, EnvOf, WorkspaceName, Master, Rendered
<1> DEFINE w == WorkspaceName(s)
<1>2. w \in Workspace /\ s.run \in Master
  BY WorkspaceOfSlot DEF Kept
<1>3. \A k : Made(head, s.cfg, k) => Made(head', s.cfg, k)
  BY <1>1, KnownStays DEF Made
<1>4. Made(head, s.cfg, tfstate[w].content)
  BY DEF MadeInv
<1>5. CASE tfstate'[w].content = tfstate[w].content
  BY <1>3, <1>4, <1>5
<1>6. ASSUME NEW u \in Slot, NEW p, JobMove(u, p), NEW k,
             ContentBecomes(w, k), WorkspaceName(u) = w,
             job[u] \in {"applying"} \cup TearingDown,
             IF p = "applied" THEN k = Applied(u) ELSE k \in {Partial, Empty}
      PROVE  Made(head', s.cfg, tfstate'[w].content)
  <2>1. tfstate'[w].content = k
    BY <1>6 DEF ContentBecomes
  <2>2. CASE p # "applied"
    BY <1>6, <2>1, <2>2 DEF Made
  <2>3. CASE p = "applied"
    <3>1. job[u] = "applying" /\ head' = head
      BY <1>6, <2>3 DEF JobMove, Edge, Rerun, runVars
    <3>2. u.env \in EnvOf(u.run) /\ status[u.run] # "idle"
      BY <3>1 DEF ActiveInv, IdleInv
    <3>3. u.run \in Master /\ s.env \in EnvOf(s.run)
      BY <1>2, <1>6, <3>2, MasterWorkspace, SlotFields DEF Kept, EnvOf, Master
    <3>4. u.cfg = s.cfg
      BY <1>6, <3>2, <3>3, SameWorkspace
    <3>5. k = Rendered(s.cfg, head[u.run])
      BY <1>1, <1>6, <2>3, <3>1, <3>4, AppliedHead
    <3>6. PICK i \in 1..MasterLength : head[u.run] = MasterLog[i]
      BY <1>1, <3>2, <3>3, KnownHead
    <3>7. Made(head, s.cfg, k)
      BY <3>3, <3>5, <3>6 DEF Made
    <3> QED BY <1>3, <2>1, <3>7
  <2> QED BY <2>2, <2>3
<1>7. CASE RunOnly
  BY <1>5, <1>7 DEF RunOnly
<1>8. ASSUME NEW u \in Slot, NEW p, JobMove(u, p)
      PROVE  Made(head', s.cfg, tfstate'[w].content)
  <2>1. CASE SameContent
    BY <1>2, <1>5, <2>1 DEF SameContent
  <2>2. ASSUME NEW k, ContentBecomes(WorkspaceName(u), k),
               job[u] \in {"applying"} \cup TearingDown,
               IF p = "applied" THEN k = Applied(u) ELSE k \in {Partial, Empty}
        PROVE  Made(head', s.cfg, tfstate'[w].content)
    <3>1. CASE WorkspaceName(u) = w
      BY <1>6, <1>8, <2>2, <3>1
    <3>2. CASE WorkspaceName(u) # w
      BY <1>2, <1>5, <2>2, <3>2 DEF ContentBecomes
    <3> QED BY <3>1, <3>2
  <2> QED BY <1>8, <2>1, <2>2 DEF JobMove, Effect
<1> QED BY <1>7, <1>8, JobMoves

\* Of two runs the later one has the later commit.
LEMMA LaterPosition ==
  ASSUME OneCommitEach, NEW q \in Master, NEW r \in Master,
         NEW i \in 1..MasterLength, NEW j \in 1..MasterLength,
         head[q] = MasterLog[i], head[r] = MasterLog[j]
  PROVE  Later(q, r) <=> i > j
<1>1. head[q] # None
  BY DetectionAssumption, PipelineAssumption
<1> QED BY <1>1, PositionOf DEF Later

LEMMA BaseStep ==
  ASSUME OneCommitEach, IInv, ActiveInv, HeadInv, LatestInv, MadeInv, BaseInv, [Next]_vars
  PROVE  BaseInv'
<1> SUFFICES ASSUME NEW s \in Slot, Kept(s), FirstPlan(s)'
             PROVE  \/ PlanOf(s)'.base \in {Empty, Partial}
                    \/ \E i, j \in 1..MasterLength :
                         /\ i <= j /\ head'[s.run] = MasterLog[j]
                         /\ PlanOf(s)'.base = Rendered(s.cfg, MasterLog[i])
  BY DEF BaseInv, Kept, SharedWithPullRequest, EnvOf, WorkspaceName, Master, Rendered
<1>1. TypeOK /\ s.run \in Master /\ s.env \in EnvOf(s.run)
  BY SlotFields DEF IInv, Kept, EnvOf, Master
<1>2. CASE PlanOf(s)' = PlanOf(s)
  <2>1. status[s.run] # "idle"
    BY <1>2, SlotFields, WorkspaceOfSlot DEF IInv, RunInv, PlanOf, FirstPlan
  <2>2. head'[s.run] = head[s.run]
    BY <1>1, <2>1, HeadsStay DEF Master
  <2> QED BY <1>2, <2>2 DEF BaseInv, FirstPlan
<1>3. CASE /\ FinishPlan(s)
           /\ PlanOf(s)'.base = tfstate[WorkspaceName(s)].content
           /\ PlanOf(s)'.attempt = reruns[s.run]
  <2>1. job[s] = "planning" /\ status[s.run] = "active" /\ head' = head
    BY <1>3 DEF FinishPlan, At, runVars
  <2>2. InFlight(s.run) /\ reruns[s.run] = 0
    BY <1>3, <2>1 DEF InFlight, FirstPlan
  <2>3. PICK j \in 1..MasterLength : head[s.run] = MasterLog[j]
    BY <1>1, <2>1, KnownHead
  <2>4. Made(head, s.cfg, PlanOf(s)'.base)
    BY <1>3 DEF MadeInv
  <2>5. ASSUME NEW i \in 1..MasterLength, i = 1 \/ \E q \in Master : head[q] = MasterLog[i]
        PROVE  i <= j
    <3>1. CASE i = 1
      BY <3>1, DetectionAssumption
    <3>2. ASSUME NEW q \in Master, head[q] = MasterLog[i] PROVE i <= j
      <4>1. status[q] # "idle"
        BY <1>1, <3>2, KnownStays
      <4>2. q = s.run \/ Later(s.run, q)
        BY <1>1, <2>2, <4>1 DEF LatestInv
      <4>3. CASE q = s.run
        <5>1. i = j
          BY <2>3, <3>2, <4>3, PositionOf
        <5> QED BY <5>1, DetectionAssumption
      <4>4. CASE Later(s.run, q)
        <5>1. j > i
          BY <1>1, <2>3, <3>2, <4>4, LaterPosition
        <5> QED BY <5>1, DetectionAssumption
      <4> QED BY <4>2, <4>3, <4>4
    <3> QED BY <2>5, <3>1, <3>2
  <2> QED BY <2>1, <2>3, <2>4, <2>5 DEF Made
<1> QED BY <1>1, <1>2, <1>3, PlanChanges

\* A run that goes for the first time has no later one beside it.
LEMMA NoneLater ==
  ASSUME LatestInv, OneCommitEach, TypeOK, HeadInv, NEW r \in Master, NEW q \in Master,
         InFlight(r), reruns[r] = 0, status[q] # "idle"
  PROVE  ~Later(q, r)
<1>1. status[r] # "idle"
  BY DEF InFlight
<1>2. PICK i \in 1..MasterLength : head[q] = MasterLog[i]
  BY KnownHead
<1>3. PICK j \in 1..MasterLength : head[r] = MasterLog[j]
  BY <1>1, KnownHead
<1>4. /\ Later(q, r) <=> i > j
      /\ Later(r, q) <=> j > i
  BY <1>2, <1>3, LaterPosition
<1>5. CASE q = r
  <2>1. i = j
    BY <1>2, <1>3, <1>5 DEF OneCommitEach
  <2> QED BY <1>4, <2>1, DetectionAssumption
<1>6. CASE q # r
  <2>1. Later(r, q)
    BY <1>6 DEF LatestInv
  <2> QED BY <1>4, <2>1, DetectionAssumption
<1> QED BY <1>5, <1>6

LEMMA OvertakenStep ==
  ASSUME OneCommitEach, ReviewInv, ActiveInv, IdleInv, HeadInv, LatestInv,
         OvertakenInv, [Next]_vars
  PROVE  OvertakenInv'
<1>1. TypeOK /\ IInv
  BY DEF ReviewInv, IInv
<1> SUFFICES ASSUME NEW s \in Slot, NEW t \in Slot, Kept(s), t = [s EXCEPT !.run = t.run],
                    t.run \in Master, Later(t.run, s.run)', job'[t] \in Released,
                    FirstPlan(s)', Fresh(WorkspaceName(s), PlanOf(s))'
             PROVE  tfstate'[WorkspaceName(s)].content = Rendered(s.cfg, head'[t.run])
  BY DEF OvertakenInv, Kept, SharedWithPullRequest, EnvOf, WorkspaceName, Master,
         Released, Rendered
<1> DEFINE w == WorkspaceName(s)
<1>2. /\ s.run \in Master /\ s.run \in Run /\ t.run \in Run
      /\ s.env \in EnvOf(s.run) /\ w \in Workspace
      /\ t.env = s.env /\ t.cfg = s.cfg
  <2>1. s.run \in Master /\ s.run \in Run /\ t.run \in Run /\ s.env \in Env /\ w \in Workspace
    BY SlotFields, WorkspaceOfSlot DEF Kept
  <2>2. [s EXCEPT !.run = t.run].env = s.env /\ [s EXCEPT !.run = t.run].cfg = s.cfg
    BY <2>1, OtherRun
  <2> HIDE DEF w
  <2> QED BY <2>1, <2>2 DEF EnvOf, Master
<1>3. WorkspaceName(t) = w
  BY <1>2 DEF WorkspaceName, Master
<1>4. PlanOf(s) = artifact[s.run][w] /\ PlanOf(s)' = artifact'[s.run][w]
  BY DEF PlanOf, WorkspaceName
<1>5. ASSUME job[t] \in Released
      PROVE  /\ PlanOf(s)' = PlanOf(s) /\ status[s.run] # "idle" /\ status[t.run] # "idle"
             /\ head'[t.run] = head[t.run] /\ Later(t.run, s.run)
  <2>1. status[t.run] # "idle"
    BY <1>5 DEF IdleInv, Released
  <2>2. PlanOf(s)' = PlanOf(s)
    <3>1. ASSUME FinishPlan(s), PlanOf(s)'.attempt = reruns[s.run] PROVE FALSE
      <4>1. job[s] = "planning" /\ status[s.run] = "active" /\ UNCHANGED runVars
        BY <3>1 DEF FinishPlan, At
      <4>2. InFlight(s.run) /\ reruns[s.run] = 0
        BY <3>1, <4>1 DEF InFlight, FirstPlan
      <4>3. Later(t.run, s.run)
        BY <4>1 DEF runVars, Later, Position
      <4> QED BY <1>1, <1>2, <2>1, <4>2, <4>3, NoneLater
    <3> QED BY <1>1, <1>2, <3>1, PlanChanges
  <2>3. status[s.run] # "idle"
    BY <1>1, <1>2, <1>4, <2>2 DEF IInv, RunInv, FirstPlan
  <2> QED BY <1>1, <1>2, <2>1, <2>2, <2>3, HeadsStay, LaterStep
<1>6. CASE job[t] \in Released
  <2> HIDE DEF w
  <2>1. Fresh(w, artifact[s.run][w]) /\ tfstate'[w].content = tfstate[w].content
    <3>1. artifact'[s.run][w] = artifact[s.run][w] /\ artifact[s.run][w] # NoPlan
      BY <1>4, <1>5, <1>6 DEF FirstPlan
    <3>2. Fresh(w, artifact[s.run][w])'
      BY DEF w, Fresh, PlanOf, WorkspaceName
    <3> QED BY <1>1, <1>2, <3>1, <3>2, StaleStays
  <2>2. tfstate[w].content = Rendered(s.cfg, head[t.run])
    BY <1>4, <1>5, <1>6, <2>1 DEF OvertakenInv, FirstPlan, w
  <2> QED BY <1>5, <1>6, <2>1, <2>2 DEF w
<1>7. CASE job[t] \notin Released
  <2>1. PICK u \in Slot : \E p : JobMove(u, p)
    BY <1>7, JobMoves DEF RunOnly
  <2>2. PICK p : JobMove(u, p)
    BY <2>1
  <2>3. u = t
    BY <1>7, <2>2 DEF JobMove
  <2>4. p = "applied"
    BY <1>1, <1>7, <2>2, <2>3, NewlyReleased DEF JobMove
  <2>5. job[t] = "applying" /\ head' = head
    BY <2>2, <2>3, <2>4 DEF JobMove, Edge, Rerun, runVars
  <2>6. ContentBecomes(w, Applied(t))
    BY <1>3, <2>2, <2>3, <2>4 DEF JobMove, Effect
  <2>7. Applied(t) = Rendered(s.cfg, head[t.run])
    BY <1>1, <1>2, <2>5, AppliedHead
  <2> QED BY <2>5, <2>6, <2>7 DEF ContentBecomes
<1> QED BY <1>6, <1>7

\* An apply of an earlier run changes nothing where a later one has deployed.
LEMMA NothingRolledBack ==
  ASSUME OneCommitEach, NoReverts, ReviewInv, ActiveInv, IdleInv, HeadInv, LatestInv,
         BaseInv, OvertakenInv, [Next]_vars,
         NEW s \in Slot, job[s] = "applying", job'[s] = "applied", Kept(s),
         PlanOf(s).attempt = 0,
         NEW q \in Master, Later(q, s.run), job[[s EXCEPT !.run = q]] = "deployed"
  PROVE  tfstate'[WorkspaceName(s)].content = tfstate[WorkspaceName(s)].content
<1> DEFINE w == WorkspaceName(s)
           t == [s EXCEPT !.run = q]
<1>1. /\ TypeOK /\ IInv
      /\ s.run \in Master /\ s.run \in Run /\ s.cfg \in Config /\ w \in Workspace
      /\ t \in Slot /\ t.run = q
  BY SlotFields, WorkspaceOfSlot, OtherRun DEF ReviewInv, IInv, Kept, Master
<1>2. status[q] # "idle" /\ InFlight(s.run)
  <2>1. status[t.run] # "idle"
    BY <1>1 DEF IdleInv
  <2>2. status[s.run] \in {"active", "cancelled"}
    BY DEF ActiveInv, Resting, Failed, Succeeded
  <2> QED BY <1>1, <2>1, <2>2 DEF InFlight
<1>3. PlanOf(s) = artifact[s.run][w] /\ PlanOf(s) # NoPlan /\ Fresh(w, PlanOf(s))
  BY <1>1 DEF PlanOf, IInv, JobInv
<1>4. FirstPlan(s)
  BY <1>3 DEF FirstPlan
<1>5. PICK j \in 1..MasterLength : head[s.run] = MasterLog[j]
  BY <1>1, <1>2, KnownHead DEF InFlight
<1>6. PICK k \in 1..MasterLength : head[q] = MasterLog[k]
  BY <1>1, <1>2, KnownHead
<1>7. j < k
  BY <1>1, <1>5, <1>6, LaterPosition, DetectionAssumption
<1>8. tfstate[w].content = Rendered(s.cfg, MasterLog[k])
  <2>1. t = [s EXCEPT !.run = t.run] /\ job[t] \in Released
    BY <1>1 DEF Released
  <2> HIDE DEF t, w
  <2> QED BY <1>1, <1>3, <1>4, <1>6, <2>1 DEF OvertakenInv, w
<1>9. PlanOf(s).base = tfstate[w].content
  <2> HIDE DEF w
  <2> QED BY <1>1, <1>3 DEF IInv, PlanInv, Fresh
<1> HIDE DEF t
<1>10. Rendered(s.cfg, MasterLog[j]) = Rendered(s.cfg, MasterLog[k])
  <2>1. MasterLog[k] \in Commit
    BY DetectionAssumption
  <2>2. Rendered(s.cfg, MasterLog[k]) \notin {Empty, Partial}
    BY <1>1, <2>1 DEF NoReverts
  <2>3. PICK i, m \in 1..MasterLength :
          /\ i <= m /\ head[s.run] = MasterLog[m]
          /\ PlanOf(s).base = Rendered(s.cfg, MasterLog[i])
    BY <1>3, <1>4, <1>8, <1>9, <2>2 DEF BaseInv
  <2>4. m = j
    BY <1>5, <2>3 DEF OneCommitEach
  <2>5. i <= j /\ j <= k /\ Rendered(s.cfg, MasterLog[i]) = Rendered(s.cfg, MasterLog[k])
    BY <1>7, <1>8, <1>9, <2>3, <2>4, DetectionAssumption
  <2> QED BY <1>1, <2>5 DEF NoReverts
<1>11. tfstate'[w].content = Rendered(s.cfg, head[s.run])
  <2>1. PICK u \in Slot : \E p : JobMove(u, p)
    BY JobMoves DEF RunOnly
  <2>2. PICK p : JobMove(u, p)
    BY <2>1
  <2>3. u = s /\ p = "applied"
    BY <2>2 DEF JobMove
  <2>4. ContentBecomes(w, Applied(s))
    BY <2>2, <2>3 DEF JobMove, Effect
  <2>5. Applied(s) = Rendered(s.cfg, head[s.run])
    BY <1>1, AppliedHead
  <2> QED BY <2>4, <2>5 DEF ContentBecomes
<1> QED BY <1>5, <1>8, <1>10, <1>11

\* On a master that takes nothing back, a plan that an older run of master made
\* before any of its jobs was started again never replaces what a later run has
\* deployed, in any environment, whatever fails, is cancelled, interrupted or
\* started again: no later run was there when the plan was made, and the later
\* run's apply has made it stale, or it changes nothing.
THEOREM NeverRolledBack ==
  ASSUME OneCommitEach, NoReverts
  PROVE  Spec => NoRollback
<1> DEFINE Inv == /\ ReviewInv /\ ActiveInv /\ IdleInv /\ HeadInv /\ LatestInv
                  /\ MadeInv /\ BaseInv /\ OvertakenInv
           Kind == \A s \in Slot :
             job[s] = "applying" /\ job'[s] = "applied"
             /\ s.run \in Master /\ ~SharedWithPullRequest(s)
             /\ PlanOf(s).attempt = 0 =>
               \A q \in Master : Later(q, s.run) /\ job[[s EXCEPT !.run = q]] = "deployed" =>
                 tfstate'[WorkspaceName(s)].content = tfstate[WorkspaceName(s)].content
<1>1. Init => Inv
  <2>1. Init => ReviewInv /\ ActiveInv /\ MadeInv
    BY InitInv, InitRefined, ActiveInit, MadeInit DEF ReviewInv
  <2>2. Init => IdleInv /\ HeadInv /\ LatestInv
    BY DEF Init, IdleInv, HeadInv, LatestInv, InFlight, Master
  <2>3. Init => \A s \in Slot : PlanOf(s) = NoPlan
    BY SlotFields, WorkspaceOfSlot DEF Init, PlanOf
  <2>4. Init => BaseInv /\ OvertakenInv
    BY <2>3 DEF BaseInv, OvertakenInv, FirstPlan
  <2> QED BY <2>1, <2>2, <2>4
<1>2. Inv /\ [Next]_vars => Inv'
  <2> SUFFICES ASSUME Inv, [Next]_vars PROVE Inv'
    OBVIOUS
  <2>1. TypeOK /\ IInv
    BY DEF ReviewInv, IInv
  <2>2. ReviewInv' /\ ActiveInv' /\ IdleInv'
    BY <2>1, NextInv, NextRefined, ActiveStep, IdleStep DEF ReviewInv, Refined
  <2>3. HeadInv' /\ LatestInv'
    BY <2>1, HeadStep, LatestStep
  <2>4. MadeInv' /\ BaseInv' /\ OvertakenInv'
    BY <2>1, MadeStep, BaseStep, OvertakenStep
  <2> QED BY <2>2, <2>3, <2>4
<1>3. Inv /\ [Next]_vars => Kind
  BY NothingRolledBack DEF Kept
<1>4. Inv /\ [Next]_vars => [Kind]_vars
  BY <1>3
<1> HIDE DEF Inv
<1> QED BY <1>1, <1>2, <1>4, PTL DEF Spec, NoRollback
=============================================================================
