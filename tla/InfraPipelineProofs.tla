------------------------ MODULE InfraPipelineProofs ------------------------
(***************************************************************************)
(* What holds of the infrastructure pipeline for every history of master,  *)
(* every set of runs and every choice of environments and configurations.  *)
(***************************************************************************)
EXTENDS InfraPipeline, TLAPS

\* A run that was queued knows its commit; one that was not has no artifact.
RunInv ==
  \A r \in Run :
    /\ status[r] = "idle" => \A w \in Workspace : artifact[r][w] = NoPlan
    /\ status[r] # "idle" => head[r] \in Commit

\* The lineage and serial of a plan stand for the content it was made for, now
\* and whatever happens to the workspace.
PlanInv ==
  \A r \in Run, w \in Workspace :
    artifact[r][w] # NoPlan =>
      /\ artifact[r][w].head = head[r]
      /\ artifact[r][w].head \in Commit
      /\ artifact[r][w].lineage \in 1..lineages
      /\ artifact[r][w].lineage = tfstate[w].lineage =>
           /\ artifact[r][w].serial <= tfstate[w].serial
           /\ artifact[r][w].serial = tfstate[w].serial =>
                artifact[r][w].base = tfstate[w].content

\* A lineage was given out before it is used, and only what exists is locked.
StateInv ==
  \A w \in Workspace :
    /\ tfstate[w].lineage <= lineages
    /\ tfstate[w].lock # Free => tfstate[w].lineage # 0

\* A Deploy job past its download has a plan, and one inside terraform apply
\* has a plan for the very state of its workspace.
JobInv ==
  \A s \in Slot :
    /\ job[s] \in {"attached", "applying"} => PlanOf(s) # NoPlan
    /\ job[s] = "applying" => Fresh(WorkspaceName(s), PlanOf(s))

IInv == TypeOK /\ RunInv /\ PlanInv /\ StateInv /\ JobInv /\ LockDiscipline

-----------------------------------------------------------------------------
\* Every job works in one of the workspaces.
LEMMA WorkspaceOfSlot == \A s \in Slot : WorkspaceName(s) \in Workspace
  BY DEF Workspace

\* The contents a workspace may hold.
LEMMA ContentMembers ==
  /\ Empty \in AnyContent
  /\ Partial \in AnyContent
  /\ \A c \in Config, k \in Commit : Rendered(c, k) \in AnyContent
<1>1. \A c \in Config : Empty \in Content(c) /\ Partial \in Content(c)
  BY DEF Content
<1>2. \A c \in Config, k \in Commit : Rendered(c, k) \in Content(c)
  BY DEF Content
<1>3. \A c \in Config : Content(c) \subseteq AnyContent
  BY DEF AnyContent
<1>4. LastConfig \in Config
  BY PipelineAssumption
<1> QED BY <1>1, <1>2, <1>3, <1>4

\* The parts of a slot.
LEMMA SlotFields == \A s \in Slot : s.run \in Run /\ s.env \in Env /\ s.cfg \in Config
  BY DEF Slot

\* The absence of a plan is in the range of artifact.
LEMMA NoPlanIsPlan == NoPlan \in Plan
  BY ContentMembers DEF NoPlan, Plan

-----------------------------------------------------------------------------
(* The backend's own steps.                                                *)

State == [lineage : Nat, serial : Nat, content : AnyContent, lock : Slot \cup {Free}]
BackendType ==
  /\ tfstate \in [Workspace -> State]
  /\ \A w \in Workspace : tfstate[w].lineage # 0 \/ tfstate[w] = Absent
  /\ lineages \in Nat

\* Opening a workspace, with or without taking its lock, makes no plan fresh
\* that was not.
LEMMA OpenStep ==
  ASSUME BackendType, artifact \in [Run -> [Workspace -> Plan]], PlanInv, StateInv,
         NEW w \in Workspace, NEW l \in Slot \cup {Free}, Open(w, l),
         artifact' = artifact, head' = head
  PROVE  /\ BackendType' /\ PlanInv' /\ StateInv'
         /\ \A v \in Workspace \ {w} : tfstate'[v] = tfstate[v]
         /\ tfstate'[w].lock = l
         /\ Exists(w) => /\ tfstate'[w].lineage = tfstate[w].lineage
                         /\ tfstate'[w].serial = tfstate[w].serial
<1>1. Opened(w) \in State
  BY ContentMembers DEF Opened, State, BackendType
<1>2. /\ tfstate' = [tfstate EXCEPT ![w] = [Opened(w) EXCEPT !.lock = l]]
      /\ lineages' = IF Exists(w) THEN lineages ELSE lineages + 1
  BY DEF Open
<1>3. tfstate'[w] = [Opened(w) EXCEPT !.lock = l] /\ tfstate'[w] \in State
  BY <1>1, <1>2 DEF BackendType, State
<1>4. \A v \in Workspace \ {w} : tfstate'[v] = tfstate[v]
  BY <1>2 DEF BackendType
<1>5. BackendType'
  <2>1. tfstate'[w].lineage # 0
    BY <1>1, <1>3 DEF Opened, Exists, State, BackendType
  <2> QED BY <1>2, <1>3, <1>4, <2>1 DEF BackendType
<1>6. /\ tfstate'[w].lock = l
      /\ Exists(w) => /\ tfstate'[w].lineage = tfstate[w].lineage
                      /\ tfstate'[w].serial = tfstate[w].serial
                      /\ tfstate'[w].content = tfstate[w].content
      /\ ~Exists(w) => tfstate'[w].lineage = lineages + 1
  BY <1>1, <1>3 DEF Opened, State, BackendType
<1>7. StateInv'
  BY <1>2, <1>4, <1>6 DEF StateInv, Exists, BackendType, State
<1>8. PlanInv'
  BY <1>2, <1>4, <1>6 DEF PlanInv, Exists, BackendType, State, Plan
<1> QED BY <1>4, <1>5, <1>6, <1>7, <1>8

\* A command that held the lock lets go of it, or not.
LEMMA ReleaseStep ==
  ASSUME BackendType, StateInv,
         NEW w \in Workspace, tfstate[w].lock # Free,
         NEW l \in Slot \cup {Free}, Release(w, l)
  PROVE  /\ BackendType' /\ StateInv'
         /\ \A v \in Workspace \ {w} : tfstate'[v] = tfstate[v]
         /\ tfstate'[w] = [tfstate[w] EXCEPT !.lock = l]
<1>1. tfstate' = [tfstate EXCEPT ![w].lock = l] /\ lineages' = lineages
  BY DEF Release
<1>2. tfstate'[w] = [tfstate[w] EXCEPT !.lock = l]
  BY <1>1 DEF BackendType
<1>3. \A v \in Workspace \ {w} : tfstate'[v] = tfstate[v]
  BY <1>1 DEF BackendType
<1>4. BackendType'
  <2>1. tfstate[w].lineage # 0 /\ tfstate[w] \in State
    BY DEF StateInv, BackendType
  <2> QED BY <1>1, <1>2, <1>3, <2>1 DEF BackendType, State
<1>5. StateInv'
  BY <1>1, <1>2, <1>3 DEF StateInv, BackendType, State
<1> QED BY <1>2, <1>3, <1>4, <1>5

\* A command that held the lock writes: what changes the content raises the
\* serial, so that no plan made before is fresh any more.
LEMMA PersistStep ==
  ASSUME BackendType, artifact \in [Run -> [Workspace -> Plan]], PlanInv, StateInv,
         NEW w \in Workspace, tfstate[w].lock # Free,
         NEW l \in Slot \cup {Free}, NEW k \in AnyContent, Persist(w, k, l),
         artifact' = artifact, head' = head
  PROVE  /\ BackendType' /\ PlanInv' /\ StateInv'
         /\ \A v \in Workspace \ {w} : tfstate'[v] = tfstate[v]
         /\ tfstate'[w].lock = l
<1> DEFINE sn == IF k = tfstate[w].content /\ k # Partial
                 THEN tfstate[w].serial ELSE tfstate[w].serial + 1
<1>1. /\ tfstate' = [tfstate EXCEPT ![w].serial = sn, ![w].content = k, ![w].lock = l]
      /\ lineages' = lineages
  BY DEF Persist, BackendType
<1>2. tfstate'[w] = [tfstate[w] EXCEPT !.serial = sn, !.content = k, !.lock = l]
  BY <1>1 DEF BackendType
<1>3. \A v \in Workspace \ {w} : tfstate'[v] = tfstate[v]
  BY <1>1 DEF BackendType
<1>4. tfstate[w] \in State /\ sn \in Nat
  BY DEF BackendType, State
<1>5. /\ tfstate'[w].lineage = tfstate[w].lineage
      /\ tfstate'[w].serial = sn
      /\ tfstate'[w].content = k
      /\ tfstate'[w].lock = l
      /\ tfstate'[w] \in State
  <2> HIDE DEF sn
  <2> QED BY <1>2, <1>4 DEF State
<1>6. BackendType'
  <2>1. tfstate[w].lineage # 0
    BY DEF StateInv
  <2> QED BY <1>1, <1>3, <1>5, <2>1 DEF BackendType
<1>7. StateInv'
  BY <1>1, <1>3, <1>5 DEF StateInv
<1>8. /\ tfstate[w].serial <= sn
      /\ sn = tfstate[w].serial => k = tfstate[w].content
  BY <1>4 DEF State
<1>9. PlanInv'
  <2> HIDE DEF sn
  <2> SUFFICES ASSUME NEW r \in Run, NEW v \in Workspace, artifact[r][v] # NoPlan
               PROVE  /\ artifact[r][v].head = head[r]
                      /\ artifact[r][v].head \in Commit
                      /\ artifact[r][v].lineage \in 1..lineages
                      /\ artifact[r][v].lineage = tfstate'[v].lineage =>
                           /\ artifact[r][v].serial <= tfstate'[v].serial
                           /\ artifact[r][v].serial = tfstate'[v].serial =>
                                artifact[r][v].base = tfstate'[v].content
    BY <1>1 DEF PlanInv
  <2>1. artifact[r][v].serial \in Nat
    BY DEF Plan
  <2>2. CASE v # w
    BY <2>2, <1>3 DEF PlanInv
  <2>3. CASE v = w
    <3>1. /\ artifact[r][w].head = head[r]
          /\ artifact[r][w].head \in Commit
          /\ artifact[r][w].lineage \in 1..lineages
          /\ artifact[r][w].lineage = tfstate[w].lineage =>
               /\ artifact[r][w].serial <= tfstate[w].serial
               /\ artifact[r][w].serial = tfstate[w].serial =>
                    artifact[r][w].base = tfstate[w].content
      BY <2>3 DEF PlanInv
    <3>2. tfstate[w].serial \in Nat
      BY <1>4 DEF State
    <3>3. ASSUME artifact[r][w].lineage = tfstate'[w].lineage
          PROVE  /\ artifact[r][w].serial <= tfstate'[w].serial
                 /\ artifact[r][w].serial = tfstate'[w].serial =>
                      artifact[r][w].base = tfstate'[w].content
      <4>1. artifact[r][w].serial <= tfstate[w].serial
        BY <3>1, <3>3, <1>5
      <4>2. artifact[r][w].serial <= sn
        BY <4>1, <2>1, <2>3, <3>2, <1>4, <1>8
      <4>3. ASSUME artifact[r][w].serial = sn PROVE artifact[r][w].base = k
        <5>1. sn = tfstate[w].serial
          BY <4>1, <4>3, <3>2, <1>4, <1>8
        <5> QED BY <5>1, <4>3, <3>1, <3>3, <1>5, <1>8
      <4> QED BY <4>2, <4>3, <1>5
    <3> QED BY <3>1, <3>3, <2>3
  <2> QED BY <2>2, <2>3
<1> QED BY <1>3, <1>5, <1>6, <1>7, <1>9

\* A deleted workspace takes its lineage along.
LEMMA DeleteStep ==
  ASSUME BackendType, artifact \in [Run -> [Workspace -> Plan]], PlanInv, StateInv,
         NEW w \in Workspace, Delete(w), artifact' = artifact, head' = head
  PROVE  /\ BackendType' /\ PlanInv' /\ StateInv'
         /\ \A v \in Workspace \ {w} : tfstate'[v] = tfstate[v]
<1>1. tfstate' = [tfstate EXCEPT ![w] = Absent] /\ lineages' = lineages
  BY DEF Delete
<1>2. tfstate'[w] = Absent /\ \A v \in Workspace \ {w} : tfstate'[v] = tfstate[v]
  BY <1>1 DEF BackendType
<1>3. Absent \in State
  BY ContentMembers DEF Absent, State
<1>4. BackendType'
  BY <1>1, <1>2, <1>3 DEF BackendType
<1>5. StateInv'
  BY <1>1, <1>2 DEF StateInv, Absent, BackendType
<1>6. PlanInv'
  BY <1>1, <1>2 DEF PlanInv, Absent, BackendType
<1> QED BY <1>2, <1>4, <1>5, <1>6

-----------------------------------------------------------------------------
(* The pipeline's steps.                                                   *)

\* The backend's part of the type invariant.
LEMMA BackendTypeOK == TypeOK => BackendType
  BY DEF TypeOK, BackendType, State

\* The invariant starts to hold, with or without a first deployment.
LEMMA InitInv == Init => IInv
<1> SUFFICES ASSUME Init PROVE IInv
  OBVIOUS
<1>1. artifact = [r \in Run |-> [w \in Workspace |-> NoPlan]]
  BY DEF Init
<1>2. artifact \in [Run -> [Workspace -> Plan]]
  BY <1>1, NoPlanIsPlan
<1>3. BackendType /\ StateInv
  <2>1. CASE ~Bootstrapped
    <3>1. BackendInit
      BY <2>1 DEF Init
    <3>2. Absent \in State
      BY ContentMembers DEF Absent, State
    <3> QED BY <3>1, <3>2 DEF BackendInit, BackendType, StateInv, Absent
  <2>2. CASE Bootstrapped
    <3> DEFINE Initially(w) ==
          IF \E e \in Env, c \in Config : w = <<"env", e, Prefix[c]>> /\ e \notin Teardown[c]
          THEN [lineage |-> 1, serial |-> 1, lock |-> Free,
                content |-> Rendered(CHOOSE c \in Config : w[3] = Prefix[c], MasterLog[1])]
          ELSE Absent
    <3>1. lineages = 1 /\ tfstate = [w \in Workspace |-> Initially(w)]
      BY <2>2 DEF Init, SteadyState
    <3>2. ASSUME NEW w \in Workspace
          PROVE  /\ Initially(w) \in State
                 /\ Initially(w).lineage \in {0, 1}
                 /\ Initially(w).lineage # 0 \/ Initially(w) = Absent
                 /\ Initially(w).lock = Free
      <4>1. CASE \E e \in Env, c \in Config : w = <<"env", e, Prefix[c]>> /\ e \notin Teardown[c]
        <5>1. \E c \in Config : w[3] = Prefix[c]
          BY <4>1
        <5>2. (CHOOSE c \in Config : w[3] = Prefix[c]) \in Config
          BY <5>1
        <5>3. MasterLog[1] \in Commit
          BY DetectionAssumption
        <5>4. Rendered(CHOOSE c \in Config : w[3] = Prefix[c], MasterLog[1]) \in AnyContent
          BY <5>2, <5>3, ContentMembers
        <5> QED BY <4>1, <5>4 DEF State
      <4>2. CASE ~\E e \in Env, c \in Config : w = <<"env", e, Prefix[c]>> /\ e \notin Teardown[c]
        <5>1. Initially(w) = Absent
          BY <4>2
        <5> QED BY <5>1, ContentMembers DEF State, Absent
      <4> QED BY <4>1, <4>2
    <3> HIDE DEF Initially
    <3> QED BY <3>1, <3>2 DEF BackendType, StateInv
  <2> QED BY <2>1, <2>2
<1>4. job = [s \in Slot |-> "waiting"]
  BY DEF Init
<1>5. TypeOK
  <2>1. origin \in 1..MasterLength /\ pending \in BOOLEAN
    <3>1. 1 \in 1..MasterLength
      BY DetectionAssumption
    <3>2. origin = 1 /\ pending = FALSE
      BY DEF Init
    <3> QED BY <3>1, <3>2
  <2>4. reruns \in [Run -> 0..MaxReruns]
    <3>1. 0 \in 0..MaxReruns
      BY PipelineAssumption
    <3> QED BY <3>1 DEF Init
  <2>2. status \in [Run -> Status] /\ head \in [Run -> Commit \cup {None}]
    BY DEF Init, Status
  <2>3. job \in [Slot -> Phase]
    BY <1>4 DEF Phase
  <2> QED BY <2>1, <2>2, <2>3, <2>4, <1>2, <1>3 DEF TypeOK, BackendType, State
<1>6. RunInv /\ PlanInv
  BY <1>1 DEF Init, RunInv, PlanInv
<1>7. JobInv /\ LockDiscipline
  BY <1>4 DEF JobInv, LockDiscipline, Locking
<1> QED BY <1>3, <1>5, <1>6, <1>7 DEF IInv

\* A job that moves on, and the state of its own workspace at most with it,
\* disturbs no other job: either nobody else holds the lock there, or the step
\* leaves lock, lineage and serial as they were.
LEMMA MoveStep ==
  ASSUME IInv, NEW s \in Slot, NEW p \in Phase, Moves(s, p),
         UNCHANGED <<runVars, artifact>>,
         BackendType', PlanInv', StateInv',
         \A v \in Workspace \ {WorkspaceName(s)} : tfstate'[v] = tfstate[v],
         \/ tfstate[WorkspaceName(s)].lock \in {Free, s}
         \/ /\ tfstate'[WorkspaceName(s)].lock = tfstate[WorkspaceName(s)].lock
            /\ tfstate'[WorkspaceName(s)].lineage = tfstate[WorkspaceName(s)].lineage
            /\ tfstate'[WorkspaceName(s)].serial = tfstate[WorkspaceName(s)].serial,
         p \in Locking => tfstate'[WorkspaceName(s)].lock = s,
         p \in {"attached", "applying"} => PlanOf(s) # NoPlan,
         p = "applying" => /\ PlanOf(s).lineage = tfstate'[WorkspaceName(s)].lineage
                           /\ PlanOf(s).serial = tfstate'[WorkspaceName(s)].serial
  PROVE  IInv'
<1>1. /\ TypeOK /\ RunInv /\ JobInv /\ LockDiscipline
      /\ Free \notin Slot
  BY PipelineAssumption DEF IInv
<1>2. job' = [job EXCEPT ![s] = p]
  BY DEF Moves
<1>3. TypeOK'
  BY <1>1, <1>2 DEF TypeOK, BackendType, State, runVars
<1>4. RunInv'
  BY <1>1 DEF RunInv, runVars
<1>5. job'[s] = p /\ \A t \in Slot \ {s} : job'[t] = job[t]
  BY <1>1, <1>2 DEF TypeOK
<1>6. \A t \in Slot : PlanOf(t)' = PlanOf(t)
  BY DEF PlanOf, WorkspaceName
<1>7. ASSUME NEW t \in Slot \ {s}, job[t] \in Locking
      PROVE  /\ tfstate'[WorkspaceName(t)].lock = t
             /\ tfstate'[WorkspaceName(t)].lineage = tfstate[WorkspaceName(t)].lineage
             /\ tfstate'[WorkspaceName(t)].serial = tfstate[WorkspaceName(t)].serial
  <2>1. tfstate[WorkspaceName(t)].lock = t /\ t # Free
    BY <1>1, <1>7 DEF LockDiscipline
  <2>2. CASE WorkspaceName(t) # WorkspaceName(s)
    BY <2>1, <2>2, WorkspaceOfSlot
  <2>3. CASE WorkspaceName(t) = WorkspaceName(s)
    BY <2>1, <2>3
  <2> QED BY <2>2, <2>3
<1>8. LockDiscipline'
  <2> SUFFICES ASSUME NEW t \in Slot, job'[t] \in Locking
               PROVE  tfstate'[WorkspaceName(t)].lock = t
    BY DEF LockDiscipline, WorkspaceName, Locking
  <2> QED BY <1>5, <1>7
<1>9. JobInv'
  <2> SUFFICES ASSUME NEW t \in Slot
               PROVE  /\ job'[t] \in {"attached", "applying"} => PlanOf(t) # NoPlan
                      /\ job'[t] = "applying" =>
                           /\ PlanOf(t).lineage = tfstate'[WorkspaceName(t)].lineage
                           /\ PlanOf(t).serial = tfstate'[WorkspaceName(t)].serial
    BY <1>6 DEF JobInv, Fresh, WorkspaceName
  <2>1. CASE t = s
    BY <2>1, <1>5
  <2>2. CASE t # s
    BY <2>2, <1>1, <1>5, <1>7 DEF JobInv, Fresh, Locking
  <2> QED BY <2>1, <2>2
<1> QED BY <1>3, <1>4, <1>8, <1>9 DEF IInv

\* A job that moves on without touching the backend.
LEMMA QuietMove ==
  ASSUME IInv, NEW s \in Slot, NEW p \in Phase, Moves(s, p),
         UNCHANGED <<runVars, artifact, tfstate, lineages>>,
         p \notin Locking,
         p = "attached" => PlanOf(s) # NoPlan
  PROVE  IInv'
<1>1. /\ BackendType' /\ PlanInv' /\ StateInv'
      /\ \A v \in Workspace \ {WorkspaceName(s)} : tfstate'[v] = tfstate[v]
  BY BackendTypeOK DEF IInv, BackendType, PlanInv, StateInv, runVars
<1> QED BY <1>1, MoveStep DEF Locking

\* A job that opens its workspace, the lock left as it is.
LEMMA SelectMove ==
  ASSUME IInv, NEW s \in Slot, NEW p \in Phase, Moves(s, p),
         UNCHANGED <<runVars, artifact>>,
         NewOrSelect(WorkspaceName(s)),
         p \notin Locking,
         p = "attached" => PlanOf(s) # NoPlan
  PROVE  IInv'
<1> DEFINE w == WorkspaceName(s)
<1>1. w \in Workspace
  BY WorkspaceOfSlot
<1>2. Opened(w).lock \in Slot \cup {Free}
  BY <1>1 DEF IInv, TypeOK, Opened
<1>3. Open(w, Opened(w).lock)
  BY DEF NewOrSelect
<1>4. /\ BackendType' /\ PlanInv' /\ StateInv'
      /\ \A v \in Workspace \ {w} : tfstate'[v] = tfstate[v]
      /\ tfstate'[w].lock = Opened(w).lock
      /\ Exists(w) => /\ tfstate'[w].lineage = tfstate[w].lineage
                      /\ tfstate'[w].serial = tfstate[w].serial
  <2>1. /\ BackendType /\ artifact \in [Run -> [Workspace -> Plan]] /\ PlanInv /\ StateInv
        /\ artifact' = artifact /\ head' = head
    BY BackendTypeOK DEF IInv, TypeOK, runVars
  <2> HIDE DEF w
  <2> QED BY <1>1, <1>2, <1>3, <2>1, OpenStep
<1>5. tfstate[w].lock = Free \/ Exists(w)
  BY <1>1 DEF IInv, StateInv, Exists
<1>6. Exists(w) => tfstate'[w].lock = tfstate[w].lock
  BY <1>4 DEF Opened
<1> QED BY <1>4, <1>5, <1>6, MoveStep DEF Locking

\* A job that opens its workspace and takes the free lock.
LEMMA LockMove ==
  ASSUME IInv, NEW s \in Slot, NEW p \in Phase, Moves(s, p),
         UNCHANGED <<runVars, artifact>>,
         CanLock(WorkspaceName(s)), Open(WorkspaceName(s), s),
         p # "attached",
         p = "applying" => PlanOf(s) # NoPlan /\ Fresh(WorkspaceName(s), PlanOf(s))
  PROVE  IInv'
<1> DEFINE w == WorkspaceName(s)
<1>1. w \in Workspace
  BY WorkspaceOfSlot
<1>2. /\ BackendType' /\ PlanInv' /\ StateInv'
      /\ \A v \in Workspace \ {w} : tfstate'[v] = tfstate[v]
      /\ tfstate'[w].lock = s
      /\ Exists(w) => /\ tfstate'[w].lineage = tfstate[w].lineage
                      /\ tfstate'[w].serial = tfstate[w].serial
  <2>1. /\ BackendType /\ artifact \in [Run -> [Workspace -> Plan]] /\ PlanInv /\ StateInv
        /\ artifact' = artifact /\ head' = head
    BY BackendTypeOK DEF IInv, TypeOK, runVars
  <2>2. Open(w, s) /\ s \in Slot \cup {Free}
    OBVIOUS
  <2> HIDE DEF w
  <2> QED BY <1>1, <2>1, <2>2, OpenStep
<1>3. p = "applying" => Exists(w)
  <2> SUFFICES ASSUME p = "applying" PROVE Exists(w)
    OBVIOUS
  <2>1. PlanOf(s).lineage \in 1..lineages
    BY <1>1, SlotFields DEF IInv, PlanInv, PlanOf
  <2>2. PlanOf(s).lineage = tfstate[w].lineage
    BY DEF Fresh
  <2>3. lineages \in Nat
    BY DEF IInv, TypeOK
  <2> QED BY <2>1, <2>2, <2>3 DEF Exists
<1>4. p = "applying" => /\ PlanOf(s).lineage = tfstate'[w].lineage
                        /\ PlanOf(s).serial = tfstate'[w].serial
  BY <1>2, <1>3 DEF Fresh
<1>5. tfstate[w].lock \in {Free, s}
  BY DEF CanLock
<1> QED BY <1>2, <1>4, <1>5, MoveStep

\* A job that holds the lock and lets go of it, keeping the state as it is.
LEMMA ReleaseMove ==
  ASSUME IInv, NEW s \in Slot, NEW p \in Phase, Moves(s, p),
         UNCHANGED <<runVars, artifact>>,
         tfstate[WorkspaceName(s)].lock = s,
         NEW l \in Slot \cup {Free}, Release(WorkspaceName(s), l),
         p \notin Locking, p # "attached"
  PROVE  IInv'
<1> DEFINE w == WorkspaceName(s)
<1>1. w \in Workspace /\ tfstate[w].lock # Free
  BY WorkspaceOfSlot, PipelineAssumption
<1>2. /\ BackendType' /\ StateInv'
      /\ \A v \in Workspace \ {w} : tfstate'[v] = tfstate[v]
      /\ tfstate'[w] = [tfstate[w] EXCEPT !.lock = l]
  <2>1. BackendType /\ StateInv
    BY BackendTypeOK DEF IInv
  <2>2. Release(w, l)
    OBVIOUS
  <2> HIDE DEF w
  <2> QED BY <1>1, <2>1, <2>2, ReleaseStep
<1>3. PlanInv'
  <2>1. /\ \A v \in Workspace : /\ tfstate'[v].lineage = tfstate[v].lineage
                                /\ tfstate'[v].serial = tfstate[v].serial
                                /\ tfstate'[v].content = tfstate[v].content
        /\ lineages' = lineages /\ artifact' = artifact /\ head' = head
    <3>1. tfstate[w] \in State
      BY <1>1, BackendTypeOK DEF IInv, BackendType
    <3> HIDE DEF w
    <3>2. /\ tfstate'[w].lineage = tfstate[w].lineage
          /\ tfstate'[w].serial = tfstate[w].serial
          /\ tfstate'[w].content = tfstate[w].content
      BY <3>1, <1>2 DEF State
    <3>3. lineages' = lineages
      BY DEF Release
    <3> QED BY <3>2, <3>3, <1>2 DEF runVars
  <2> QED BY <2>1 DEF PlanInv, IInv
<1> QED BY <1>2, <1>3, MoveStep DEF Locking

\* A job that holds the lock and writes the state.
LEMMA PersistMove ==
  ASSUME IInv, NEW s \in Slot, NEW p \in Phase, Moves(s, p),
         UNCHANGED <<runVars, artifact>>,
         tfstate[WorkspaceName(s)].lock = s,
         NEW l \in Slot \cup {Free}, NEW k \in AnyContent,
         Persist(WorkspaceName(s), k, l),
         p \notin Locking, p # "attached"
  PROVE  IInv'
<1> DEFINE w == WorkspaceName(s)
<1>1. w \in Workspace /\ tfstate[w].lock # Free
  BY WorkspaceOfSlot, PipelineAssumption
<1>2. /\ BackendType' /\ PlanInv' /\ StateInv'
      /\ \A v \in Workspace \ {w} : tfstate'[v] = tfstate[v]
  <2>1. /\ BackendType /\ artifact \in [Run -> [Workspace -> Plan]] /\ PlanInv /\ StateInv
        /\ artifact' = artifact /\ head' = head
    BY BackendTypeOK DEF IInv, TypeOK, runVars
  <2>2. Persist(w, k, l)
    OBVIOUS
  <2> HIDE DEF w
  <2> QED BY <1>1, <2>1, <2>2, PersistStep
<1> QED BY <1>2, MoveStep DEF Locking

\* Where a failed step leaves its job, no lock is needed and no plan is.
LEMMA AfterFailurePhase ==
  \A s \in Slot : /\ AfterFailure(s) \in Phase \ Locking
                  /\ AfterFailure(s) # "attached"
  BY DEF AfterFailure, Phase, TearingDown, Failed, Locking

\* A job in a locked section has its own name in the lock.
LEMMA HoldsLock ==
  IInv => \A s \in Slot : job[s] \in Locking => tfstate[WorkspaceName(s)].lock = s
  BY DEF IInv, LockDiscipline

-----------------------------------------------------------------------------
(* One lemma for each action.                                              *)

\* Runs come, go and are started again.
LEMMA RunSteps ==
  ASSUME IInv,
         \/ Merge
         \/ \E r \in Run :
              QueueMaster(r) \/ QueuePullRequest(r) \/ Prepare(r) \/ Cancel(r) \/ Finish(r)
  PROVE  IInv'
<1> DEFINE Runs ==
      /\ UNCHANGED <<reruns, job, artifact, tfstate, lineages>>
      /\ origin' \in 1..MasterLength
      /\ pending' \in BOOLEAN
      /\ status' \in [Run -> Status]
      /\ head' \in [Run -> Commit \cup {None}]
      /\ \A q \in Run : /\ head'[q] = head[q] \/ status[q] = "idle"
                        /\ status'[q] # "idle" => head'[q] \in Commit
                        /\ status'[q] = "idle" => status[q] = "idle"
<1>1. Runs
  <2>1. /\ TypeOK /\ RunInv /\ MasterLength \in Nat \ {0}
        /\ MasterLog \in [1..MasterLength -> Commit]
    BY DetectionAssumption DEF IInv
  <2>2. CASE Merge
    <3>1. origin' \in 1..MasterLength /\ pending' \in BOOLEAN
      BY <2>1, <2>2 DEF Merge, TypeOK
    <3> QED BY <2>1, <2>2, <3>1 DEF Merge, TypeOK, RunInv
  <2>3. ASSUME NEW r \in Run, QueueMaster(r) PROVE Runs
    <3>1. MasterLog[origin] \in Commit
      BY <2>1 DEF TypeOK
    <3> QED BY <2>1, <2>3, <3>1 DEF QueueMaster, TypeOK, RunInv, Status
  <2>4. ASSUME NEW r \in Run, QueuePullRequest(r) PROVE Runs
    <3>1. PrHead[r] \in Commit
      BY <2>4, PipelineAssumption DEF QueuePullRequest
    <3> QED BY <2>1, <2>4, <3>1 DEF QueuePullRequest, TypeOK, RunInv, Status
  <2>5. ASSUME NEW r \in Run, Prepare(r) PROVE Runs
    BY <2>1, <2>5 DEF Prepare, TypeOK, RunInv, Status
  <2>6. ASSUME NEW r \in Run, Cancel(r) PROVE Runs
    BY <2>1, <2>6 DEF Cancel, TypeOK, RunInv, Status
  <2>7. ASSUME NEW r \in Run, Finish(r) PROVE Runs
    BY <2>1, <2>7 DEF Finish, TypeOK, RunInv, Status
  <2> QED BY <2>2, <2>3, <2>4, <2>5, <2>6, <2>7
<1>2. TypeOK'
  BY <1>1 DEF IInv, TypeOK
<1>3. RunInv'
  BY <1>1 DEF IInv, RunInv
<1>4. PlanInv'
  BY <1>1 DEF IInv, RunInv, PlanInv
<1>5. StateInv' /\ JobInv' /\ LockDiscipline'
  BY <1>1 DEF IInv, StateInv, JobInv, LockDiscipline, PlanOf, WorkspaceName, Fresh
<1> QED BY <1>2, <1>3, <1>4, <1>5 DEF IInv

\* Where the restart of a failed stage leaves its job.
Restarted == {"waiting", "building", "deploying"}

\* A failed stage is started again.
LEMMA RerunStep == ASSUME IInv, NEW s \in Slot, Rerun(s) PROVE IInv'
<1>1. /\ UNCHANGED <<origin, pending, head, artifact, tfstate, lineages>>
      /\ status' = [status EXCEPT ![s.run] = "active"]
      /\ reruns' = [reruns EXCEPT ![s.run] = @ + 1]
      /\ status[s.run] \in {"active", "done"}
      /\ reruns[s.run] < MaxReruns
      /\ \E p \in Restarted : job' = [job EXCEPT ![s] = p]
  BY DEF Rerun, Moves, MayRerun, Restarted
<1>2. s.run \in Run
  BY SlotFields
<1>3. reruns' \in [Run -> 0..MaxReruns]
  BY <1>1, <1>2, PipelineAssumption DEF IInv, TypeOK
<1>4. job' \in [Slot -> Phase] /\ status' \in [Run -> Status]
  <2>1. Restarted \subseteq Phase
    BY DEF Restarted, Phase, Building, Deploying
  <2> QED BY <1>1, <1>2, <2>1 DEF IInv, TypeOK, Status
<1>5. TypeOK'
  BY <1>1, <1>3, <1>4 DEF IInv, TypeOK
<1>6. RunInv'
  BY <1>1, <1>2 DEF IInv, RunInv, TypeOK
<1>7. PlanInv' /\ StateInv'
  BY <1>1 DEF IInv, PlanInv, StateInv
<1>8. \A t \in Slot : job'[t] = job[t] \/ job'[t] \in Restarted
  BY <1>1 DEF IInv, TypeOK
<1>9. JobInv' /\ LockDiscipline'
  BY <1>1, <1>8 DEF IInv, JobInv, LockDiscipline, PlanOf, WorkspaceName, Fresh, Locking, Restarted
<1> QED BY <1>5, <1>6, <1>7, <1>9 DEF IInv

\* Steps of a job that leave the backend alone.
LEMMA QuietSteps ==
  ASSUME IInv, NEW s \in Slot,
         StartBuild(s) \/ StartDeploy(s) \/ Reject(s) \/ PassTests(s) \/ FailStep(s)
  PROVE  IInv'
<1>1. UNCHANGED <<runVars, artifact, tfstate, lineages>>
  BY DEF StartBuild, StartDeploy, Reject, PassTests, FailStep
<1>2. \E p \in Phase \ (Locking \cup {"attached"}) : Moves(s, p)
  <2>1. CASE StartBuild(s)
    BY <2>1 DEF StartBuild, Phase, Building, Locking
  <2>2. CASE StartDeploy(s)
    BY <2>2 DEF StartDeploy, Phase, Deploying, Succeeded, Locking
  <2>3. CASE Reject(s)
    BY <2>3 DEF Reject, Phase, Failed, Locking
  <2>4. CASE PassTests(s)
    <3>1. AfterTests(s) \in {"teardown", "deployed"}
      BY DEF AfterTests
    <3> QED BY <2>4, <3>1 DEF PassTests, Phase, TearingDown, Succeeded, Locking
  <2>5. CASE FailStep(s)
    BY <2>5, AfterFailurePhase DEF FailStep, Phase, Failed, Locking
  <2> QED BY <2>1, <2>2, <2>3, <2>4, <2>5
<1> QED BY <1>1, <1>2, QuietMove

\* Steps of the Build stage on the backend.
LEMMA SelectForBuildStep == ASSUME IInv, NEW s \in Slot, SelectForBuild(s) PROVE IInv'
  BY SelectMove DEF SelectForBuild, Phase, Building, Locking

\* Planning starts under the lock, or not at all.
LEMMA StartPlanStep == ASSUME IInv, NEW s \in Slot, StartPlan(s) PROVE IInv'
<1>1. CASE CanLock(WorkspaceName(s))
  BY <1>1, LockMove DEF StartPlan, Phase, Building
<1>2. CASE ~CanLock(WorkspaceName(s))
  BY <1>2, QuietMove DEF StartPlan, Phase, Failed, Locking
<1> QED BY <1>1, <1>2

\* Downloading the plan opens the workspace.
LEMMA PullArtifactStep == ASSUME IInv, NEW s \in Slot, PullArtifact(s) PROVE IInv'
<1>1. CASE PlanOf(s) # NoPlan
  BY <1>1, SelectMove DEF PullArtifact, Phase, Deploying, Locking
<1>2. CASE PlanOf(s) = NoPlan
  BY <1>2, QuietMove DEF PullArtifact, Phase, Failed, Locking
<1> QED BY <1>1, <1>2

\* Applying starts under the lock with a plan that is fresh.
LEMMA StartApplyStep == ASSUME IInv, NEW s \in Slot, StartApply(s) PROVE IInv'
<1>1. PlanOf(s) # NoPlan
  BY DEF StartApply, At, IInv, JobInv
<1> QED BY <1>1, LockMove DEF StartApply, MayApply, Phase, Deploying

\* A stale plan, or a lock somebody else holds, fails the job.
LEMMA RefuseApplyStep == ASSUME IInv, NEW s \in Slot, RefuseApply(s) PROVE IInv'
  BY SelectMove, AfterFailurePhase DEF RefuseApply

\* The plan is carried out.
LEMMA FinishApplyStep == ASSUME IInv, NEW s \in Slot, FinishApply(s) PROVE IInv'
<1>1. job[s] = "applying" /\ tfstate[WorkspaceName(s)].lock = s
  BY HoldsLock DEF FinishApply, Locking
<1>2. PlanOf(s).head \in Commit
  BY <1>1, SlotFields, WorkspaceOfSlot DEF IInv, JobInv, PlanInv, PlanOf
<1>3. Applied(s) \in AnyContent
  BY <1>2, SlotFields, ContentMembers DEF Applied
<1> QED BY <1>1, <1>3, PersistMove DEF FinishApply, Phase, Deploying, Locking

\* Part of the plan is carried out.
LEMMA BreakApplyStep == ASSUME IInv, NEW s \in Slot, BreakApply(s) PROVE IInv'
<1>1. tfstate[WorkspaceName(s)].lock = s
  BY HoldsLock DEF BreakApply, Locking
<1> QED BY <1>1, ContentMembers, AfterFailurePhase, PersistMove DEF BreakApply

\* The teardown takes the lock, or fails.
LEMMA StartDestroyStep == ASSUME IInv, NEW s \in Slot, StartDestroy(s) PROVE IInv'
<1>1. CASE CanLock(WorkspaceName(s))
  BY <1>1, LockMove DEF StartDestroy, Phase, TearingDown
<1>2. CASE ~CanLock(WorkspaceName(s))
  BY <1>2, QuietMove DEF StartDestroy, Phase, Failed, Locking
<1> QED BY <1>1, <1>2

\* The teardown is over.
LEMMA FinishDestroyStep == ASSUME IInv, NEW s \in Slot, FinishDestroy(s) PROVE IInv'
<1>1. tfstate[WorkspaceName(s)].lock = s
  BY HoldsLock DEF FinishDestroy, Locking
<1> QED BY <1>1, ContentMembers, PersistMove DEF FinishDestroy, Phase, TearingDown, Locking

\* The workspace is deleted, or it is not empty and the job fails.
LEMMA DeleteWorkspaceStep == ASSUME IInv, NEW s \in Slot, DeleteWorkspace(s) PROVE IInv'
<1> DEFINE w == WorkspaceName(s)
<1>1. PICK p \in {"deployed", "deployFailed"} : Moves(s, p)
  BY DEF DeleteWorkspace
<1>2. p \in Phase \ Locking /\ p # "attached"
  BY DEF Phase, Failed, Succeeded, Locking
<1>3. UNCHANGED <<runVars, artifact>>
  BY DEF DeleteWorkspace
<1>4. CASE CanDelete(w)
  <2>1. Delete(w) /\ w \in Workspace /\ tfstate[w].lock = Free
    BY <1>4, WorkspaceOfSlot DEF DeleteWorkspace, CanDelete, CanLock
  <2>2. /\ BackendType /\ artifact \in [Run -> [Workspace -> Plan]] /\ PlanInv /\ StateInv
        /\ artifact' = artifact /\ head' = head
    BY <1>3, BackendTypeOK DEF IInv, TypeOK, runVars
  <2>3. /\ BackendType' /\ PlanInv' /\ StateInv'
        /\ \A v \in Workspace \ {w} : tfstate'[v] = tfstate[v]
    <3> HIDE DEF w
    <3> QED BY <2>1, <2>2, DeleteStep
  <2> QED BY <1>1, <1>2, <1>3, <2>1, <2>3, MoveStep DEF Locking
<1>5. CASE ~CanDelete(w)
  BY <1>1, <1>2, <1>3, <1>5, QuietMove DEF DeleteWorkspace
<1> QED BY <1>4, <1>5

\* A Terraform command is ended from outside.
LEMMA InterruptStep == ASSUME IInv, NEW s \in Slot, Interrupt(s) PROVE IInv'
<1>1. tfstate[WorkspaceName(s)].lock = s
  BY HoldsLock DEF Interrupt
<1>2. PICK l \in {Free, s} : \/ Release(WorkspaceName(s), l)
                             \/ Persist(WorkspaceName(s), Partial, l)
  BY DEF Interrupt
<1>3. Moves(s, AfterFailure(s)) /\ UNCHANGED <<runVars, artifact>>
  BY DEF Interrupt
<1>4. l \in Slot \cup {Free}
  OBVIOUS
<1>5. CASE Release(WorkspaceName(s), l)
  BY <1>1, <1>3, <1>4, <1>5, AfterFailurePhase, ReleaseMove
<1>6. CASE Persist(WorkspaceName(s), Partial, l)
  BY <1>1, <1>3, <1>4, <1>6, AfterFailurePhase, ContentMembers, PersistMove
<1> QED BY <1>2, <1>5, <1>6

\* The plan is saved: it is fresh at that moment, and no job of the same run is
\* applying an older one there, since this one holds the lock.
LEMMA FinishPlanStep == ASSUME IInv, NEW s \in Slot, FinishPlan(s) PROVE IInv'
<1> DEFINE w == WorkspaceName(s)
           plan == [head |-> head[s.run], lineage |-> tfstate[w].lineage,
                    serial |-> tfstate[w].serial, base |-> tfstate[w].content,
                    attempt |-> reruns[s.run]]
<1>1. /\ artifact' = [artifact EXCEPT ![s.run][w] = plan]
      /\ Release(w, Free)
      /\ job' = [job EXCEPT ![s] = "built"]
      /\ UNCHANGED runVars
      /\ status[s.run] = "active"
      /\ job[s] = "planning"
  BY DEF FinishPlan, At, Moves
<1>2. /\ TypeOK /\ RunInv /\ PlanInv /\ StateInv /\ JobInv /\ LockDiscipline
      /\ BackendType
  BY BackendTypeOK DEF IInv
<1>3. w \in Workspace /\ s.run \in Run
  BY WorkspaceOfSlot, SlotFields
<1>4. tfstate[w].lock = s /\ s # Free /\ tfstate[w] \in State
  BY <1>1, <1>2, <1>3, PipelineAssumption DEF LockDiscipline, Locking, BackendType
<1>5. tfstate[w].lineage \in 1..lineages
  <2>1. tfstate[w].lineage # 0 /\ tfstate[w].lineage <= lineages
    BY <1>2, <1>3, <1>4 DEF StateInv
  <2>2. tfstate[w].lineage \in Nat /\ lineages \in Nat
    BY <1>2, <1>4 DEF State, BackendType
  <2> QED BY <2>1, <2>2
<1>6. head[s.run] \in Commit
  BY <1>1, <1>2, <1>3 DEF RunInv
<1>7. plan \in Plan
  <2>1. reruns[s.run] \in Nat
    BY <1>2, <1>3, PipelineAssumption DEF TypeOK
  <2> QED BY <1>4, <1>6, <2>1 DEF Plan, State
<1>8. /\ BackendType' /\ StateInv'
      /\ \A v \in Workspace \ {w} : tfstate'[v] = tfstate[v]
      /\ tfstate'[w] = [tfstate[w] EXCEPT !.lock = Free]
  <2> HIDE DEF w, plan
  <2> QED BY <1>1, <1>2, <1>3, <1>4, ReleaseStep
<1>9. \A v \in Workspace : /\ tfstate'[v].lineage = tfstate[v].lineage
                           /\ tfstate'[v].serial = tfstate[v].serial
                           /\ tfstate'[v].content = tfstate[v].content
  <2> HIDE DEF w, plan
  <2> QED BY <1>4, <1>8 DEF State
<1>10. /\ artifact'[s.run][w] = plan
       /\ \A r \in Run, v \in Workspace :
            r # s.run \/ v # w => artifact'[r][v] = artifact[r][v]
       /\ artifact' \in [Run -> [Workspace -> Plan]]
  <2> HIDE DEF w, plan
  <2> QED BY <1>1, <1>2, <1>3, <1>7 DEF TypeOK
<1>11. plan # NoPlan
  <2>1. None \notin Commit
    BY PipelineAssumption
  <2>2. plan.head # NoPlan.head
    BY <1>6, <2>1 DEF NoPlan
  <2> HIDE DEF plan
  <2> QED BY <2>2
<1>12. TypeOK'
  BY <1>1, <1>2, <1>8, <1>10 DEF TypeOK, BackendType, State, runVars, Phase
<1>13. RunInv'
  BY <1>1, <1>2, <1>3, <1>10 DEF RunInv, runVars
<1>14. PlanInv'
  <2>1. lineages' = lineages /\ head' = head
    BY <1>1 DEF Release, runVars
  <2>2. plan.serial <= tfstate[w].serial
    BY <1>4 DEF State
  <2> SUFFICES ASSUME NEW r \in Run, NEW v \in Workspace, artifact'[r][v] # NoPlan
               PROVE  /\ artifact'[r][v].head = head[r]
                      /\ artifact'[r][v].head \in Commit
                      /\ artifact'[r][v].lineage \in 1..lineages
                      /\ artifact'[r][v].lineage = tfstate[v].lineage =>
                           /\ artifact'[r][v].serial <= tfstate[v].serial
                           /\ artifact'[r][v].serial = tfstate[v].serial =>
                                artifact'[r][v].base = tfstate[v].content
    BY <1>9, <2>1 DEF PlanInv
  <2>3. CASE r = s.run /\ v = w
    BY <1>5, <1>6, <1>10, <2>2, <2>3
  <2>4. CASE r # s.run \/ v # w
    BY <1>2, <1>10, <2>4 DEF PlanInv
  <2> QED BY <2>3, <2>4
<1>15. job'[s] = "built" /\ \A t \in Slot \ {s} : job'[t] = job[t]
  BY <1>1, <1>2 DEF TypeOK
<1>16. \A t \in Slot \ {s} : job[t] \in Locking => WorkspaceName(t) # w
  BY <1>2, <1>4 DEF LockDiscipline
<1>17. LockDiscipline'
  <2> SUFFICES ASSUME NEW t \in Slot, job'[t] \in Locking
               PROVE  tfstate'[WorkspaceName(t)].lock = t
    BY DEF LockDiscipline, WorkspaceName, Locking
  <2>1. t # s
    BY <1>15 DEF Locking
  <2> HIDE DEF w
  <2> QED BY <1>2, <1>8, <1>15, <1>16, <2>1, WorkspaceOfSlot DEF LockDiscipline
<1>18. JobInv'
  <2> SUFFICES ASSUME NEW t \in Slot
               PROVE  /\ job'[t] \in {"attached", "applying"} => PlanOf(t)' # NoPlan
                      /\ job'[t] = "applying" =>
                           /\ PlanOf(t)'.lineage = tfstate'[WorkspaceName(t)].lineage
                           /\ PlanOf(t)'.serial = tfstate'[WorkspaceName(t)].serial
    BY DEF JobInv, Fresh, WorkspaceName
  <2>1. PlanOf(t)' = artifact'[t.run][WorkspaceName(t)]
    BY DEF PlanOf, WorkspaceName
  <2>2. t.run \in Run /\ WorkspaceName(t) \in Workspace
    BY SlotFields, WorkspaceOfSlot
  <2>3. PlanOf(t)' = PlanOf(t) \/ (PlanOf(t)' = plan /\ WorkspaceName(t) = w)
    <3> HIDE DEF w, plan
    <3> QED BY <1>10, <2>1, <2>2 DEF PlanOf
  <2>4. job'[t] \in {"attached", "applying"} => t # s
    BY <1>15
  <2> HIDE DEF w, plan
  <2>5. job'[t] \in {"attached", "applying"} => PlanOf(t)' # NoPlan
    BY <1>2, <1>11, <1>15, <2>3, <2>4 DEF JobInv
  <2>6. job'[t] = "applying" => PlanOf(t)' = PlanOf(t)
    BY <1>15, <1>16, <2>3, <2>4 DEF Locking
  <2> QED BY <1>2, <1>9, <1>15, <2>2, <2>4, <2>5, <2>6 DEF JobInv, Fresh
<1> QED BY <1>12, <1>13, <1>14, <1>17, <1>18, <1>8 DEF IInv

\* Every step of the pipeline keeps the invariant.
LEMMA NextInv == IInv /\ [Next]_vars => IInv'
<1> SUFFICES ASSUME IInv, [Next]_vars PROVE IInv'
  OBVIOUS
<1>1. CASE Merge
  BY <1>1, RunSteps
<1>2. ASSUME NEW r \in Run,
             QueueMaster(r) \/ QueuePullRequest(r) \/ Prepare(r) \/ Cancel(r) \/ Finish(r)
      PROVE  IInv'
  BY <1>2, RunSteps
<1>3. ASSUME NEW s \in Slot, JobStep(s) PROVE IInv'
  BY <1>3, QuietSteps, SelectForBuildStep, StartPlanStep, FinishPlanStep, PullArtifactStep,
     StartApplyStep, RefuseApplyStep, FinishApplyStep, StartDestroyStep, FinishDestroyStep,
     DeleteWorkspaceStep DEF JobStep
<1>4. ASSUME NEW s \in Slot, JobFault(s) PROVE IInv'
  BY <1>4, QuietSteps, BreakApplyStep, InterruptStep DEF JobFault
<1>5. ASSUME NEW s \in Slot, Rerun(s) PROVE IInv'
  BY <1>5, RerunStep
<1>6. CASE UNCHANGED vars
  BY <1>6 DEF vars, IInv, TypeOK, RunInv, PlanInv, StateInv, JobInv, LockDiscipline,
              PlanOf, WorkspaceName, Fresh
<1> QED BY <1>1, <1>2, <1>3, <1>4, <1>5, <1>6 DEF Next

\* Every variable of the pipeline stays in its range.
THEOREM TypeCorrect == Spec => []TypeOK
<1>1. IInv => TypeOK
  BY DEF IInv
<1> QED BY <1>1, InitInv, NextInv, PTL DEF Spec

\* No two jobs of any runs ever work on one workspace at the same time.
THEOREM LockHeld == Spec => []LockDiscipline
<1>1. IInv => LockDiscipline
  BY DEF IInv
<1> QED BY <1>1, InitInv, NextInv, PTL DEF Spec

\* Whatever is merged, cancelled, interrupted or started again in between, an
\* apply carries out the plan of its own run and commit, on the content the
\* approver was shown the plan for.
THEOREM ReviewedApply == Spec => []AppliesReviewedPlan
<1>1. IInv => AppliesReviewedPlan
  <2> SUFFICES ASSUME IInv, NEW s \in Slot, job[s] = "applying"
               PROVE  /\ PlanOf(s).base = tfstate[WorkspaceName(s)].content
                      /\ PlanOf(s).head = head[s.run]
    BY DEF AppliesReviewedPlan
  <2>1. PlanOf(s) # NoPlan /\ Fresh(WorkspaceName(s), PlanOf(s))
    BY DEF IInv, JobInv
  <2>2. s.run \in Run /\ WorkspaceName(s) \in Workspace
    BY SlotFields, WorkspaceOfSlot
  <2> QED BY <2>1, <2>2 DEF IInv, PlanInv, PlanOf, Fresh
<1> QED BY <1>1, InitInv, NextInv, PTL DEF Spec

-----------------------------------------------------------------------------
(* What a run promises under conditions that the pipeline's variables and  *)
(* definitions decide: FORCE_RUN, isolation, reruns, merges.               *)

\* Every pull request has workspaces of its own.
Isolated ==
  /\ \A r \in PullRequest : PrIsolation[1]
  /\ \A q, r \in PullRequest : PrNumber[q] = PrNumber[r] => q = r

\* A commit is in the history of master once.
OneCommitEach ==
  \A i, j \in 1..MasterLength : MasterLog[i] = MasterLog[j] => i = j

-----------------------------------------------------------------------------
(* How a job moves.                                                        *)

Resting == {"waiting", "unchanged", "built"} \cup Failed \cup Succeeded

\* The steps of one job, with the conditions that matter below.
Edge(s, p) ==
  /\ job[s] = "waiting" =>
       /\ status[s.run] = "active" /\ s.env \in EnvOf(s.run) /\ Reached(s.run, s.env)
       /\ p = IF BuildNeeded(s) THEN "building" ELSE "unchanged"
  /\ job[s] \in Building => p \in {"selected", "planning", "built", "buildFailed"}
  /\ p = "built" => FinishPlan(s)
  /\ job[s] \in {"built", "unchanged"} =>
       /\ status[s.run] = "active"
       /\ p \in {"rejected", IF DeployNeeded(s) THEN "deploying" ELSE "skipped"}
  /\ job[s] \in Deploying \cup TearingDown =>
       p \in Deploying \cup TearingDown \cup {"deployFailed", "deployed"}
  /\ p = "applied" => job[s] = "applying"
  /\ p = "deployed" => job[s] = "applied" \/ job[s] \in TearingDown
  /\ job[s] = "buildFailed" => p \in {"waiting", "building"} /\ Rerun(s)
  /\ job[s] = "deployFailed" => p = "deploying" /\ Rerun(s)
  /\ job[s] \notin Succeeded \cup {"rejected"}

LEMMA FailureEdge ==
  \A s \in Slot :
    /\ job[s] \in Building => AfterFailure(s) = "buildFailed"
    /\ job[s] \in Deploying \cup TearingDown =>
         AfterFailure(s) \in {"failedTeardown", "deployFailed"}
  BY DEF AfterFailure, Building, Deploying, TearingDown

LEMMA JobEdge ==
  ASSUME NEW s \in Slot, JobStep(s) \/ JobFault(s) \/ Rerun(s)
  PROVE  \E p : Moves(s, p) /\ Edge(s, p)
<1> USE DEF At, Building, Deploying, TearingDown, Succeeded
<1>1. CASE StartBuild(s)
  BY <1>1 DEF StartBuild, Edge
<1>2. CASE SelectForBuild(s) \/ StartPlan(s) \/ FinishPlan(s)
  BY <1>2 DEF SelectForBuild, StartPlan, FinishPlan, Edge
<1>3. CASE StartDeploy(s) \/ Reject(s)
  BY <1>3 DEF StartDeploy, Reject, Edge
<1>4. CASE PullArtifact(s) \/ StartApply(s) \/ FinishApply(s)
  BY <1>4 DEF PullArtifact, StartApply, FinishApply, Edge
<1>5. CASE RefuseApply(s) \/ BreakApply(s)
  BY <1>5, FailureEdge DEF RefuseApply, BreakApply, Edge
<1>6. CASE PassTests(s)
  BY <1>6 DEF PassTests, AfterTests, Edge
<1>7. CASE StartDestroy(s) \/ FinishDestroy(s) \/ DeleteWorkspace(s)
  BY <1>7 DEF StartDestroy, FinishDestroy, DeleteWorkspace, Edge
<1>8. CASE FailStep(s)
  BY <1>8, FailureEdge DEF FailStep, Edge
<1>9. CASE Interrupt(s)
  BY <1>9, FailureEdge DEF Interrupt, Locking, Edge
<1>10. CASE Rerun(s)
  BY <1>10 DEF Rerun, Edge
<1> QED BY <1>1, <1>2, <1>3, <1>4, <1>5, <1>6, <1>7, <1>8, <1>9, <1>10 DEF JobStep, JobFault

LEMMA Moved ==
  ASSUME TypeOK, NEW s \in Slot, NEW p, Moves(s, p)
  PROVE  job'[s] = p /\ \A t \in Slot \ {s} : job'[t] = job[t]
  BY DEF TypeOK, Moves

\* A step is one of a job, or one of a run and leaves the jobs alone.
RunOnly ==
  /\ UNCHANGED <<reruns, job, artifact, tfstate, lineages>>
  /\ \/ Merge
     \/ \E r \in Run : \/ QueueMaster(r) \/ QueuePullRequest(r) \/ Prepare(r)
                       \/ Cancel(r) \/ Finish(r)
     \/ UNCHANGED vars

LEMMA StepKinds ==
  ASSUME [Next]_vars
  PROVE  \/ RunOnly
         \/ \E s \in Slot : JobStep(s) /\ UNCHANGED runVars
         \/ \E s \in Slot : JobFault(s) /\ UNCHANGED runVars
         \/ \E s \in Slot : Rerun(s)
<1>1. CASE \E s \in Slot : JobStep(s)
  BY <1>1 DEF JobStep, StartBuild, SelectForBuild, StartPlan, FinishPlan, StartDeploy,
              PullArtifact, StartApply, RefuseApply, FinishApply, PassTests, StartDestroy,
              FinishDestroy, DeleteWorkspace
<1>2. CASE \E s \in Slot : JobFault(s)
  BY <1>2 DEF JobFault, Reject, BreakApply, FailStep, Interrupt
<1>3. CASE Merge
  BY <1>3 DEF Merge, RunOnly
<1>4. CASE \E r \in Run : \/ QueueMaster(r) \/ QueuePullRequest(r) \/ Prepare(r)
                          \/ Cancel(r) \/ Finish(r)
  BY <1>4 DEF RunOnly, QueueMaster, QueuePullRequest, Prepare, Cancel, Finish
<1>5. CASE UNCHANGED vars
  BY <1>5 DEF RunOnly, vars
<1> QED BY <1>1, <1>2, <1>3, <1>4, <1>5 DEF Next

\* What a step does to the jobs.
LEMMA JobKinds ==
  ASSUME TypeOK, [Next]_vars
  PROVE  \/ RunOnly
         \/ \E s \in Slot : \E p :
              /\ Edge(s, p) /\ job'[s] = p
              /\ \A t \in Slot \ {s} : job'[t] = job[t]
              /\ Rerun(s) \/ UNCHANGED runVars
  BY StepKinds, JobEdge, Moved

-----------------------------------------------------------------------------
(* Runs and their jobs.                                                    *)

\* Only a run in progress has jobs in progress, and only where it goes at all.
ActiveInv ==
  \A s \in Slot :
    /\ status[s.run] \notin {"active", "cancelled"} => job[s] \in Resting
    /\ job[s] # "waiting" => s.env \in EnvOf(s.run)

LEMMA ActiveStep ==
  ASSUME TypeOK, ActiveInv, [Next]_vars
  PROVE  ActiveInv'
<1>1. CASE RunOnly
  <2>1. job' = job
    BY <1>1 DEF RunOnly
  <2>2. ASSUME NEW s \in Slot, status'[s.run] \notin {"active", "cancelled"}
        PROVE  job[s] \in Resting
    <3>1. s.run \in Run /\ status \in [Run -> Status]
      BY SlotFields DEF TypeOK
    <3>2. CASE status[s.run] \notin {"active", "cancelled"}
      BY <3>2 DEF ActiveInv
    <3>3. CASE status[s.run] \in {"active", "cancelled"}
      <4>1. Finish(s.run)
        BY <1>1, <2>2, <3>1, <3>3 DEF RunOnly, Merge, QueueMaster, QueuePullRequest, Prepare,
                                      Cancel, Finish, vars
      <4>2. Settled(s)
        BY <4>1 DEF Finish
      <4> QED BY <4>2 DEF Settled, Resting
    <3> QED BY <3>2, <3>3
  <2> QED BY <2>1, <2>2 DEF ActiveInv, EnvOf, Resting, Failed, Succeeded
<1>2. ASSUME NEW s \in Slot, NEW p, Edge(s, p), job'[s] = p,
             \A t \in Slot \ {s} : job'[t] = job[t], Rerun(s) \/ UNCHANGED runVars
      PROVE  ActiveInv'
  <2>1. ASSUME NEW t \in Slot, status'[t.run] \notin {"active", "cancelled"}
        PROVE  job'[t] \in Resting
    <3>1. status[t.run] \notin {"active", "cancelled"} \/ job[t] \in {"buildFailed", "deployFailed"}
      <4>1. CASE UNCHANGED runVars
        BY <2>1, <4>1 DEF runVars
      <4>2. CASE Rerun(s)
        <5>1. /\ status' = [status EXCEPT ![s.run] = "active"] /\ s.run \in Run
              /\ t.run \in Run /\ status \in [Run -> Status]
          BY <4>2, SlotFields DEF Rerun, TypeOK
        <5> QED BY <2>1, <5>1
      <4> QED BY <1>2, <4>1, <4>2
    <3>2. CASE t # s
      BY <1>2, <3>1, <3>2 DEF ActiveInv, Resting, Failed
    <3>3. CASE t = s
      <4>1. UNCHANGED runVars
        <5>1. ASSUME Rerun(s) PROVE FALSE
          <6>1. /\ status' = [status EXCEPT ![s.run] = "active"] /\ s.run \in Run
                /\ status \in [Run -> Status]
            BY <5>1, SlotFields DEF Rerun, TypeOK
          <6> QED BY <2>1, <3>3, <6>1
        <5> QED BY <1>2, <5>1
      <4>2. status[s.run] \notin {"active", "cancelled"} /\ job[s] \in Resting
        BY <2>1, <3>3, <4>1 DEF runVars, ActiveInv
      <4>3. job[s] \in {"waiting", "unchanged", "built", "buildFailed", "deployFailed"}
        BY <1>2, <4>2 DEF Edge, Resting, Failed, Succeeded
      <4>4. job[s] \in {"buildFailed", "deployFailed"}
        BY <1>2, <4>2, <4>3 DEF Edge
      <4>5. Rerun(s) /\ s.run \in Run /\ status \in [Run -> Status]
        BY <1>2, <4>4, SlotFields DEF Edge, TypeOK
      <4>6. status'[s.run] = "active"
        BY <4>5 DEF Rerun
      <4> QED BY <2>1, <3>3, <4>6
    <3> QED BY <3>2, <3>3
  <2>2. ASSUME NEW t \in Slot, job'[t] # "waiting"
        PROVE  t.env \in EnvOf(t.run)
    <3>1. CASE t # s
      BY <1>2, <2>2, <3>1 DEF ActiveInv
    <3>2. CASE t = s
      BY <1>2, <2>2, <3>2 DEF ActiveInv, Edge
    <3> QED BY <3>1, <3>2
  <2> QED BY <2>1, <2>2 DEF ActiveInv, EnvOf, Resting, Failed, Succeeded
<1> QED BY <1>1, <1>2, JobKinds

LEMMA ActiveInit == Init => ActiveInv
  BY DEF Init, ActiveInv, Resting

\* A slot is its run, its environment and its configuration.
LEMMA SameSlot ==
  \A s, t \in Slot : s.run = t.run /\ s.env = t.env /\ s.cfg = t.cfg => s = t
  BY DEF Slot

-----------------------------------------------------------------------------
(* Promotion: an environment is reached through the Deploy stage of the    *)
(* last configuration of the one before, and a forced run skips none.      *)

\* What a forced run has begun to build has all its predecessors deployed.
PromotedInv ==
  \A s \in Slot :
    /\ job[s] \notin {"unchanged", "skipped"}
    /\ job[s] # "waiting" =>
         \A d \in 1..(s.env - 1) : job[[run |-> s.run, env |-> d, cfg |-> LastConfig]] = "deployed"

LEMMA PromotedStep ==
  ASSUME ForceRun, TypeOK, PromotedInv, [Next]_vars
  PROVE  PromotedInv'
<1>1. CASE RunOnly
  BY <1>1 DEF RunOnly, PromotedInv
<1>2. ASSUME NEW s \in Slot, NEW p, Edge(s, p), job'[s] = p,
             \A t \in Slot \ {s} : job'[t] = job[t]
      PROVE  PromotedInv'
  <2>1. BuildNeeded(s) /\ DeployNeeded(s)
    BY DEF BuildNeeded, DeployNeeded
  <2>2. p \notin {"unchanged", "skipped"}
    BY <1>2, <2>1 DEF Edge, Building, Deploying, TearingDown, Succeeded, PromotedInv, TypeOK,
                      Phase, Failed
  <2>3. \A t \in Slot : job[t] = "deployed" => job'[t] = "deployed"
    BY <1>2 DEF Edge, Succeeded
  <2>4. \A t \in Slot : \A d \in 1..(t.env - 1) : [run |-> t.run, env |-> d, cfg |-> LastConfig] \in Slot
    <3> SUFFICES ASSUME NEW t \in Slot, NEW d \in 1..(t.env - 1)
                 PROVE  [run |-> t.run, env |-> d, cfg |-> LastConfig] \in Slot
      OBVIOUS
    <3>1. t.run \in Run /\ t.env \in 1..Environments /\ LastConfig \in Config
      BY SlotFields, PipelineAssumption DEF Env
    <3>2. d \in Env
      BY <3>1, PipelineAssumption DEF Env
    <3> QED BY <3>1, <3>2 DEF Slot
  <2>5. ASSUME NEW t \in Slot, job'[t] # "waiting", NEW d \in 1..(t.env - 1)
        PROVE  job'[[run |-> t.run, env |-> d, cfg |-> LastConfig]] = "deployed"
    <3> DEFINE u == [run |-> t.run, env |-> d, cfg |-> LastConfig]
    <3>1. u \in Slot
      BY <2>4
    <3>2. job[u] = "deployed"
      <4>1. CASE job[t] # "waiting"
        BY <4>1 DEF PromotedInv
      <4>2. CASE job[t] = "waiting"
        <5>1. t = s
          BY <1>2, <2>5, <4>2
        <5>2. job[u] \in Succeeded
          BY <1>2, <4>2, <5>1 DEF Edge, Reached
        <5> QED BY <3>1, <5>2 DEF Succeeded, PromotedInv
      <4> QED BY <4>1, <4>2
    <3> HIDE DEF u
    <3> QED BY <2>3, <3>1, <3>2 DEF u
  <2> QED BY <1>2, <2>2, <2>5 DEF PromotedInv
<1> QED BY <1>1, <1>2, JobKinds

\* A forced run of a pipeline with one configuration applies nothing to an
\* environment that it has not deployed to the one before and tested there.
THEOREM ForcedPromotion ==
  ASSUME ForceRun, Config = {LastConfig}
  PROVE  Spec => []TestedBeforePromotion
<1>1. Init => PromotedInv
  BY DEF Init, PromotedInv
<1>2. TypeOK /\ PromotedInv /\ [Next]_vars => PromotedInv'
  BY PromotedStep
<1>3. TypeOK /\ PromotedInv => TestedBeforePromotion
  <2> SUFFICES ASSUME PromotedInv, NEW s \in Slot, job[s] \in {"applying", "applied"}, s.env > 1
               PROVE  job[[s EXCEPT !.env = s.env - 1]] = "deployed"
    BY DEF TestedBeforePromotion
  <2>1. s.cfg = LastConfig /\ s.env \in 1..Environments
    BY SlotFields DEF Env
  <2>2. s.env - 1 \in 1..(s.env - 1)
    BY <2>1, PipelineAssumption
  <2>3. [s EXCEPT !.env = s.env - 1] = [run |-> s.run, env |-> s.env - 1, cfg |-> LastConfig]
    BY <2>1 DEF Slot
  <2>4. job[[run |-> s.run, env |-> s.env - 1, cfg |-> LastConfig]] = "deployed"
    BY <2>2 DEF PromotedInv
  <2> QED BY <2>3, <2>4
<1>4. Spec => []TypeOK
  BY TypeCorrect
<1> QED BY <1>1, <1>2, <1>3, <1>4, PTL DEF Spec

-----------------------------------------------------------------------------
(* The two change detections of a run.                                     *)

\* What makes them agree: they are not asked, or master stands still while a run
\* of it is in progress, and a run that is over is not started again.
Agreeing == ForceRun \/ (QuietMerges /\ MaxReruns = 0)

IdleInv == \A s \in Slot : status[s.run] \in {"idle", "queued"} => job[s] = "waiting"

\* A Deploy stage that may go ahead has its plan; one that has none would not be
\* found to be needed.
ArtifactInv ==
  \A s \in Slot : s.run \in Master =>
    /\ job[s] \in {"built", "deployFailed", "deployed"} \cup Deploying \cup TearingDown =>
         PlanOf(s) # NoPlan
    /\ job[s] = "unchanged" => ~ForceRun /\ (InFlight(s.run) => ~BuildNeeded(s))

LEMMA IdleStep ==
  ASSUME TypeOK, IdleInv, [Next]_vars
  PROVE  IdleInv'
<1>1. CASE RunOnly
  <2> SUFFICES ASSUME NEW s \in Slot, status'[s.run] \in {"idle", "queued"}
               PROVE  job[s] = "waiting"
    BY <1>1 DEF IdleInv, RunOnly
  <2>1. s.run \in Run /\ status \in [Run -> Status]
    BY SlotFields DEF TypeOK
  <2>2. status[s.run] \in {"idle", "queued"}
    BY <1>1, <2>1 DEF RunOnly, Merge, QueueMaster, QueuePullRequest, Prepare, Cancel, Finish, vars
  <2> QED BY <2>2 DEF IdleInv
<1>2. ASSUME NEW s \in Slot, NEW p, Edge(s, p), job'[s] = p,
             \A t \in Slot \ {s} : job'[t] = job[t], UNCHANGED runVars
      PROVE  IdleInv'
  <2>1. status[s.run] \notin {"idle", "queued"}
    BY <1>2 DEF IdleInv, Edge
  <2> QED BY <1>2, <2>1 DEF IdleInv, runVars
<1>3. ASSUME NEW s \in Slot, Rerun(s), \A t \in Slot \ {s} : job'[t] = job[t]
      PROVE  IdleInv'
  <2>1. /\ status' = [status EXCEPT ![s.run] = "active"] /\ s.run \in Run
        /\ status \in [Run -> Status]
    BY <1>3, SlotFields DEF Rerun, TypeOK
  <2>2. \A t \in Slot : status'[t.run] \in {"idle", "queued"} =>
          t.run # s.run /\ status'[t.run] = status[t.run]
    BY <2>1, SlotFields
  <2> QED BY <1>3, <2>2 DEF IdleInv
<1> QED BY <1>1, <1>2, <1>3, JobKinds

\* A saved plan stays.
LEMMA PlansStay ==
  ASSUME IInv, [Next]_vars
  PROVE  /\ \A s \in Slot : PlanOf(s) # NoPlan => PlanOf(s)' # NoPlan
         /\ \A s \in Slot : FinishPlan(s) => PlanOf(s)' # NoPlan
<1>1. CASE artifact' = artifact
  <2>1. \A s \in Slot : PlanOf(s)' = PlanOf(s)
    BY <1>1 DEF PlanOf, WorkspaceName
  <2>2. \A s \in Slot : ~FinishPlan(s) \/ PlanOf(s) # NoPlan
    <3> SUFFICES ASSUME NEW s \in Slot, FinishPlan(s) PROVE PlanOf(s) # NoPlan
      OBVIOUS
    <3>1. /\ artifact' = [artifact EXCEPT ![s.run][WorkspaceName(s)] =
               [head |-> head[s.run], lineage |-> tfstate[WorkspaceName(s)].lineage,
                serial |-> tfstate[WorkspaceName(s)].serial,
                base |-> tfstate[WorkspaceName(s)].content,
                attempt |-> reruns[s.run]]]
          /\ head[s.run] \in Commit
      BY SlotFields DEF FinishPlan, At, IInv, RunInv
    <3>2. PlanOf(s).head = head[s.run]
      BY <1>1, <3>1, SlotFields, WorkspaceOfSlot DEF PlanOf, IInv, TypeOK
    <3> QED BY <3>1, <3>2, PipelineAssumption DEF NoPlan
  <2> QED BY <2>1, <2>2
<1>2. ASSUME NEW s \in Slot, FinishPlan(s)
      PROVE  /\ PlanOf(s)' # NoPlan
             /\ \A t \in Slot : PlanOf(t) # NoPlan => PlanOf(t)' # NoPlan
  <2> DEFINE w == WorkspaceName(s)
             plan == [head |-> head[s.run], lineage |-> tfstate[w].lineage,
                      serial |-> tfstate[w].serial, base |-> tfstate[w].content,
                      attempt |-> reruns[s.run]]
  <2>1. artifact' = [artifact EXCEPT ![s.run][w] = plan] /\ head[s.run] \in Commit
    BY <1>2, SlotFields DEF FinishPlan, At, IInv, RunInv
  <2>2. plan # NoPlan
    <3>1. plan.head # NoPlan.head
      BY <2>1, PipelineAssumption DEF NoPlan
    <3> HIDE DEF plan
    <3> QED BY <3>1
  <2>3. w \in Workspace /\ s.run \in Run
    BY WorkspaceOfSlot, SlotFields
  <2> HIDE DEF w, plan
  <2>4. \A r \in Run, v \in Workspace :
          artifact'[r][v] = IF r = s.run /\ v = w THEN plan ELSE artifact[r][v]
    BY <2>1, <2>3 DEF IInv, TypeOK
  <2>5. \A t \in Slot : PlanOf(t)' = artifact'[t.run][WorkspaceName(t)]
    BY DEF PlanOf, WorkspaceName
  <2>6. \A t \in Slot : t.run \in Run /\ WorkspaceName(t) \in Workspace
    BY WorkspaceOfSlot, SlotFields
  <2>7. PlanOf(s)' = plan
    BY <2>3, <2>4, <2>5 DEF w
  <2>8. \A t \in Slot : PlanOf(t)' \in {plan, PlanOf(t)}
    BY <2>4, <2>5, <2>6 DEF PlanOf
  <2> QED BY <2>2, <2>7, <2>8
<1>3. artifact' = artifact \/ \E s \in Slot : FinishPlan(s)
  <2>1. ASSUME NEW s \in Slot, JobStep(s) PROVE artifact' = artifact \/ FinishPlan(s)
    BY <2>1 DEF JobStep, StartBuild, SelectForBuild, StartPlan, StartDeploy,
                PullArtifact, StartApply, RefuseApply, FinishApply, PassTests, StartDestroy,
                FinishDestroy, DeleteWorkspace
  <2>2. ASSUME NEW s \in Slot, JobFault(s) \/ Rerun(s) PROVE artifact' = artifact
    BY <2>2 DEF JobFault, Reject, BreakApply, FailStep, Interrupt, Rerun
  <2> QED BY <2>1, <2>2, StepKinds DEF RunOnly
<1> QED BY <1>1, <1>2, <1>3

LEMMA ArtifactStep ==
  ASSUME Agreeing, IInv, IdleInv, ArtifactInv, [Next]_vars
  PROVE  ArtifactInv'
<1> DEFINE Planned == {"built", "deployFailed", "deployed"} \cup Deploying \cup TearingDown
<1>1. TypeOK
  BY DEF IInv
<1>2. \A t \in Slot : PlanOf(t) # NoPlan => PlanOf(t)' # NoPlan
  BY PlansStay
<1>3. CASE RunOnly
  <2> SUFFICES ASSUME NEW t \in Slot, t.run \in Master, job[t] = "unchanged",
                      InFlight(t.run)'
               PROVE  ~BuildNeeded(t)'
    BY <1>2, <1>3 DEF RunOnly, ArtifactInv, Master, Deploying, TearingDown
  <2>1. ~ForceRun /\ QuietMerges /\ t.run \in Run /\ status \in [Run -> Status]
    BY <1>1, SlotFields DEF ArtifactInv, Agreeing, TypeOK
  <2>2. status[t.run] \notin {"idle", "queued"}
    BY DEF IdleInv
  <2>3. InFlight(t.run)
    BY <1>3, <2>1, <2>2 DEF RunOnly, Merge, QueueMaster, QueuePullRequest, Prepare, Cancel,
                            Finish, vars, InFlight
  <2>4. ~BuildNeeded(t)
    BY <2>3 DEF ArtifactInv
  <2>5. ~Merge
    BY <2>1, <2>3 DEF Merge
  <2>6. origin' = origin /\ head'[t.run] = head[t.run]
    <3>1. head \in [Run -> Commit \cup {None}]
      BY <1>1 DEF TypeOK
    <3> QED BY <1>3, <2>1, <2>2, <2>5, <3>1 DEF RunOnly, QueueMaster, QueuePullRequest, Prepare,
                                           Cancel, Finish, vars
  <2> QED BY <2>4, <2>6 DEF BuildNeeded
<1>4. ASSUME NEW s \in Slot, NEW p, Edge(s, p), job'[s] = p,
             \A t \in Slot \ {s} : job'[t] = job[t], UNCHANGED runVars
      PROVE  ArtifactInv'
  <2>1. ASSUME NEW t \in Slot, t.run \in Master, job'[t] = "unchanged"
        PROVE  ~ForceRun /\ (InFlight(t.run)' => ~BuildNeeded(t)')
    <3>1. InFlight(t.run)' = InFlight(t.run) /\ BuildNeeded(t)' = BuildNeeded(t)
      BY <1>4 DEF runVars, InFlight, BuildNeeded
    <3>2. CASE t # s
      BY <1>4, <2>1, <3>1, <3>2 DEF ArtifactInv
    <3>3. CASE t = s
      <4>1. job[s] = "waiting"
        BY <1>1, <1>4, <2>1, <3>3 DEF Edge, Building, Deploying, TearingDown, Succeeded, TypeOK,
                                      Phase, Failed
      <4>2. ~BuildNeeded(s)
        BY <1>4, <2>1, <3>3, <4>1 DEF Edge
      <4> QED BY <3>1, <3>3, <4>2 DEF BuildNeeded
    <3> QED BY <3>2, <3>3
  <2>2. ASSUME NEW t \in Slot, t.run \in Master, job'[t] \in Planned
        PROVE  PlanOf(t)' # NoPlan
    <3>1. CASE t # s
      BY <1>2, <1>4, <2>2, <3>1 DEF ArtifactInv
    <3>2. CASE t = s /\ p = "built"
      BY <1>4, <3>2, PlansStay DEF Edge
    <3>3. CASE t = s /\ p # "built"
      <4>1. job[s] \in Planned \cup {"unchanged"}
        BY <1>1, <1>4, <2>2, <3>3 DEF Edge, Building, Deploying, TearingDown, Succeeded, TypeOK,
                                      Phase, Failed
      <4>2. ASSUME job[s] = "unchanged" PROVE FALSE
        <5>1. ~BuildNeeded(s)
          BY <1>4, <2>2, <3>3, <4>2 DEF ArtifactInv, Edge, InFlight
        <5>2. p \in {"rejected", "skipped"}
          BY <1>4, <4>2, <5>1 DEF Edge, BuildNeeded, DeployNeeded
        <5> QED BY <1>4, <2>2, <3>3, <5>2 DEF Deploying, TearingDown
      <4> QED BY <1>2, <2>2, <3>3, <4>1, <4>2 DEF ArtifactInv
    <3> QED BY <3>1, <3>2, <3>3
  <2> QED BY <2>1, <2>2 DEF ArtifactInv, Master, Deploying, TearingDown
<1>5. ASSUME NEW s \in Slot, Rerun(s), \A t \in Slot \ {s} : job'[t] = job[t],
             \/ job[s] = "deployFailed" /\ job'[s] = "deploying"
             \/ job'[s] \in {"waiting", "building"}
      PROVE  ArtifactInv'
  <2>1. ForceRun
    <3>1. reruns[s.run] < MaxReruns /\ reruns[s.run] \in 0..MaxReruns
      BY <1>1, <1>5, SlotFields DEF Rerun, MayRerun, TypeOK
    <3> QED BY <3>1, PipelineAssumption DEF Agreeing
  <2>2. job'[s] \in Planned => job[s] = "deployFailed"
    BY <1>5 DEF Deploying, TearingDown
  <2>3. \A t \in Slot : t.run \in Master => job'[t] # "unchanged"
    BY <1>5, <2>1 DEF ArtifactInv
  <2>4. ASSUME NEW t \in Slot, t.run \in Master, job'[t] \in Planned
        PROVE  PlanOf(t)' # NoPlan
    BY <1>2, <1>5, <2>2, <2>4 DEF ArtifactInv
  <2> QED BY <2>3, <2>4 DEF ArtifactInv, Master, Deploying, TearingDown
<1>6. \A s \in Slot : Rerun(s) => \/ job[s] = "deployFailed" /\ job'[s] = "deploying"
                                 \/ job'[s] \in {"waiting", "building"}
  BY <1>1, Moved DEF Rerun
<1> HIDE DEF Planned
<1> QED BY <1>1, <1>3, <1>4, <1>5, <1>6, JobKinds

\* A Deploy stage of master that goes ahead finds the plan of its Build stage,
\* however many runs, environments and configurations there are, whenever the two
\* change detections look at the same master or are not asked.
THEOREM DeploysFindArtifact == Agreeing => (Spec => []DeployFindsArtifact)
<1> SUFFICES ASSUME Agreeing PROVE Spec => []DeployFindsArtifact
  OBVIOUS
<1>1. Init => IdleInv /\ ArtifactInv
  BY DEF Init, IdleInv, ArtifactInv, Deploying, TearingDown
<1>2. IInv /\ IdleInv /\ ArtifactInv /\ [Next]_vars => (IdleInv /\ ArtifactInv)'
  BY IdleStep, ArtifactStep DEF IInv
<1>3. ArtifactInv => DeployFindsArtifact
  BY DEF ArtifactInv, DeployFindsArtifact, Deploying
<1>4. Init => IInv
  BY InitInv
<1>5. IInv /\ [Next]_vars => IInv'
  BY NextInv
<1> QED BY <1>1, <1>2, <1>3, <1>4, <1>5, PTL DEF Spec
=============================================================================
