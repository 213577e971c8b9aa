------------------------- MODULE InfraReviewProofs -------------------------
(***************************************************************************)
(* That the infrastructure pipeline implements ReviewedDeployment, for     *)
(* every history of master, all runs, environments and configurations.     *)
(***************************************************************************)
EXTENDS InfraReview, InfraPipelineProofs

\* A workspace that does not exist holds nothing.
AbsentInv == \A w \in Workspace : tfstate[w].lineage = 0 => tfstate[w].content = Empty

\* Only an environment that is torn down after each release is torn down.
TeardownInv == \A s \in Slot : job[s] \in TearingDown => TornDown(s)

ReviewInv == IInv /\ AbsentInv /\ TeardownInv

-----------------------------------------------------------------------------
(* What the steps of the backend do to the contents.                       *)

\* One workspace holds something else.
ContentBecomes(w, k) ==
  /\ tfstate'[w].content = k
  /\ \A v \in Workspace \ {w} : tfstate'[v] = tfstate[v]

SameContent == \A w \in Workspace : tfstate'[w].content = tfstate[w].content

LEMMA OpenKeepsContent ==
  ASSUME BackendType, AbsentInv, NEW w \in Workspace, NEW l, Open(w, l)
  PROVE  SameContent /\ AbsentInv'
<1>1. /\ tfstate' = [tfstate EXCEPT ![w] = [Opened(w) EXCEPT !.lock = l]]
      /\ tfstate \in [Workspace -> State] /\ lineages \in Nat
  BY DEF Open, BackendType
<1>2. tfstate[w] \in State
  BY <1>1
<1>3. /\ Opened(w).content = tfstate[w].content
      /\ Opened(w).lineage # 0
      /\ [Opened(w) EXCEPT !.lock = l].content = Opened(w).content
      /\ [Opened(w) EXCEPT !.lock = l].lineage = Opened(w).lineage
  <2>1. CASE Exists(w)
    BY <1>2, <2>1 DEF Opened, Exists, State
  <2>2. CASE ~Exists(w)
    BY <1>1, <2>2 DEF Opened, Exists, AbsentInv
  <2> QED BY <2>1, <2>2
<1>4. \A v \in Workspace : v # w => tfstate'[v] = tfstate[v]
  BY <1>1
<1>5. tfstate'[w] = [Opened(w) EXCEPT !.lock = l]
  BY <1>1
<1> QED BY <1>3, <1>4, <1>5 DEF SameContent, AbsentInv

LEMMA ReleaseKeepsContent ==
  ASSUME BackendType, AbsentInv, NEW w \in Workspace, NEW l, Release(w, l)
  PROVE  SameContent /\ AbsentInv'
<1>1. tfstate' = [tfstate EXCEPT ![w].lock = l] /\ tfstate \in [Workspace -> State]
  BY DEF Release, BackendType
<1>2. tfstate'[w] = [tfstate[w] EXCEPT !.lock = l] /\ tfstate[w] \in State
  BY <1>1
<1>3. tfstate'[w].content = tfstate[w].content /\ tfstate'[w].lineage = tfstate[w].lineage
  BY <1>2 DEF State
<1>4. \A v \in Workspace : v # w => tfstate'[v] = tfstate[v]
  BY <1>1
<1> QED BY <1>3, <1>4 DEF SameContent, AbsentInv

LEMMA PersistContent ==
  ASSUME BackendType, AbsentInv, NEW w \in Workspace, NEW k, NEW l, Persist(w, k, l),
         tfstate[w].lineage # 0
  PROVE  ContentBecomes(w, k) /\ AbsentInv'
<1> DEFINE sn == IF k = tfstate[w].content /\ k # Partial
                 THEN tfstate[w].serial ELSE tfstate[w].serial + 1
<1>1. /\ tfstate' = [tfstate EXCEPT ![w].serial = sn, ![w].content = k, ![w].lock = l]
      /\ tfstate \in [Workspace -> State]
  BY DEF Persist, BackendType
<1> HIDE DEF sn
<1>2. /\ tfstate'[w] = [tfstate[w] EXCEPT !.serial = sn, !.content = k, !.lock = l]
      /\ tfstate[w] \in State
  BY <1>1
<1>3. tfstate'[w].content = k /\ tfstate'[w].lineage = tfstate[w].lineage
  BY <1>2 DEF State
<1>4. \A v \in Workspace : v # w => tfstate'[v] = tfstate[v]
  BY <1>1
<1> QED BY <1>3, <1>4 DEF ContentBecomes, AbsentInv

LEMMA DeleteKeepsContent ==
  ASSUME BackendType, AbsentInv, NEW w \in Workspace, CanDelete(w), Delete(w)
  PROVE  SameContent /\ AbsentInv'
<1>1. /\ tfstate'[w] = Absent /\ tfstate[w].content = Empty
      /\ \A v \in Workspace : v # w => tfstate'[v] = tfstate[v]
  BY DEF Delete, CanDelete, BackendType
<1> QED BY <1>1 DEF SameContent, AbsentInv, Absent

-----------------------------------------------------------------------------
(* The same, as the abstract specification sees it.                        *)

\* The target of a job's own plan is what it applies.
LEMMA ConfigOfSlot == \A s \in Slot : ConfigOf(WorkspaceName(s)) = s.cfg
<1> SUFFICES ASSUME NEW s \in Slot PROVE ConfigOf(WorkspaceName(s)) = s.cfg
  OBVIOUS
<1>1. WorkspaceName(s)[3] = Prefix[s.cfg] /\ s.cfg \in Config
  BY SlotFields DEF WorkspaceName
<1> QED BY <1>1, PrefixAssumption DEF ConfigOf

LEMMA Unnoticed ==
  ASSUME SameContent, artifact' = artifact
  PROVE  UNCHANGED <<ReviewContent, ReviewProposal>>
<1>1. ReviewContent' = ReviewContent
  BY DEF SameContent, ReviewContent
<1>2. ReviewProposal' = ReviewProposal
  BY DEF ReviewProposal
<1> QED BY <1>1, <1>2

LEMMA ContentMoves ==
  ASSUME NEW w \in Workspace, NEW k, ContentBecomes(w, k), artifact' = artifact
  PROVE  /\ ReviewContent' = [ReviewContent EXCEPT ![w] = k]
         /\ ReviewProposal' = ReviewProposal
<1>1. ReviewContent' = [v \in Workspace |-> tfstate'[v].content]
  BY DEF ReviewContent
<1>2. \A v \in Workspace : tfstate'[v].content = IF v = w THEN k ELSE tfstate[v].content
  BY DEF ContentBecomes
<1>3. ReviewContent = [v \in Workspace |-> tfstate[v].content]
  BY DEF ReviewContent
<1>4. ReviewContent' = [ReviewContent EXCEPT ![w] = k]
  BY <1>1, <1>2, <1>3
<1>5. ReviewProposal' = ReviewProposal
  BY DEF ReviewProposal
<1> QED BY <1>4, <1>5

\* An apply writes what its run proposed, or breaks off, in the state the
\* proposal was made for.
LEMMA ApplyCarries ==
  ASSUME IInv, NEW s \in Slot, job[s] = "applying",
         NEW k \in {Applied(s), Partial}, ContentBecomes(WorkspaceName(s), k),
         artifact' = artifact
  PROVE  Review!Next
<1> DEFINE w == WorkspaceName(s)
           p == [base |-> PlanOf(s).base, target |-> Applied(s)]
<1>1. w \in Workspace /\ s.run \in Run
  BY WorkspaceOfSlot, SlotFields
<1>2. PlanOf(s) = artifact[s.run][w] /\ artifact[s.run][w] # NoPlan
  BY DEF PlanOf, IInv, JobInv
<1>3. p \in ReviewProposal[s.run][w]
  <2>1. Applied(s) = Rendered(ConfigOf(w), artifact[s.run][w].head)
    BY <1>2, ConfigOfSlot DEF Applied
  <2> HIDE DEF w
  <2> QED BY <1>1, <1>2, <2>1 DEF ReviewProposal
<1>4. p.base = ReviewContent[w]
  <2>1. Fresh(w, PlanOf(s))
    BY DEF IInv, JobInv
  <2> HIDE DEF w
  <2>2. artifact[s.run][w].base = tfstate[w].content
    BY <1>1, <1>2, <2>1 DEF IInv, PlanInv, Fresh
  <2> QED BY <1>1, <1>2, <2>2 DEF ReviewContent
<1>5. k \in {p.target, Partial}
  OBVIOUS
<1>6. /\ ReviewContent' = [ReviewContent EXCEPT ![w] = k]
      /\ ReviewProposal' = ReviewProposal
  BY <1>1, ContentMoves
<1> HIDE DEF w, p
<1>7. Review!Carry(s.run, w)
  BY <1>3, <1>4, <1>5, <1>6 DEF Review!Carry
<1> QED BY <1>1, <1>7 DEF Review!Next

\* A teardown empties a workspace that is torn down.
LEMMA DestroyDisposes ==
  ASSUME TeardownInv, NEW s \in Slot, job[s] \in TearingDown,
         NEW k \in {Empty, Partial}, ContentBecomes(WorkspaceName(s), k),
         artifact' = artifact
  PROVE  Review!Next
<1> DEFINE w == WorkspaceName(s)
<1>1. w \in Workspace /\ w \in DisposableWorkspace
  BY WorkspaceOfSlot DEF TeardownInv, DisposableWorkspace
<1>2. /\ ReviewContent' = [ReviewContent EXCEPT ![w] = k]
      /\ ReviewProposal' = ReviewProposal
  BY <1>1, ContentMoves
<1> HIDE DEF w
<1>3. Review!Dispose(w)
  BY <1>1, <1>2 DEF Review!Dispose
<1> QED BY <1>1, <1>3 DEF Review!Next

\* A saved plan proposes what it will do to what the workspace holds.
LEMMA PlanProposes ==
  ASSUME IInv, AbsentInv, NEW s \in Slot, FinishPlan(s)
  PROVE  Review!Next
<1> DEFINE w == WorkspaceName(s)
           plan == [head |-> head[s.run], lineage |-> tfstate[w].lineage,
                    serial |-> tfstate[w].serial, base |-> tfstate[w].content,
                    attempt |-> reruns[s.run]]
           k == Rendered(s.cfg, head[s.run])
           p == [base |-> ReviewContent[w], target |-> k]
<1>1. /\ artifact' = [artifact EXCEPT ![s.run][w] = plan]
      /\ Release(w, Free) /\ status[s.run] = "active"
  BY DEF FinishPlan, At
<1>2. w \in Workspace /\ s.run \in Run /\ s.cfg \in Config
  BY WorkspaceOfSlot, SlotFields
<1>3. head[s.run] \in Commit
  BY <1>1, <1>2 DEF IInv, RunInv
<1>4. k \in AnyContent
  BY <1>2, <1>3, ContentMembers
<1>5. plan # NoPlan
  <2>1. plan.head # NoPlan.head
    BY <1>3, PipelineAssumption DEF NoPlan
  <2> HIDE DEF plan
  <2> QED BY <2>1
<1>6. plan.base = ReviewContent[w] /\ plan.head = head[s.run]
  BY <1>2 DEF ReviewContent
<1>7. ConfigOf(w) = s.cfg
  BY ConfigOfSlot
<1>8. UNCHANGED ReviewContent
  <2>1. SameContent
    <3> HIDE DEF w
    <3> QED BY <1>1, <1>2, ReleaseKeepsContent, BackendTypeOK DEF IInv
  <2> QED BY <2>1 DEF SameContent, ReviewContent
<1> HIDE DEF w, plan
<1>9. ReviewProposal' = [ReviewProposal EXCEPT ![s.run][w] = {p}]
  <2> DEFINE Proposed(q, v) ==
        IF q = NoPlan THEN {}
        ELSE {[base |-> q.base, target |-> Rendered(ConfigOf(v), q.head)]}
  <2>1. /\ ReviewProposal = [r \in Run |-> [v \in Workspace |-> Proposed(artifact[r][v], v)]]
        /\ ReviewProposal' = [r \in Run |-> [v \in Workspace |-> Proposed(artifact'[r][v], v)]]
    BY DEF ReviewProposal
  <2>2. Proposed(plan, w) = {p}
    BY <1>5, <1>6, <1>7
  <2>3. \A r \in Run, v \in Workspace :
          artifact'[r][v] = IF r = s.run /\ v = w THEN plan ELSE artifact[r][v]
    BY <1>1, <1>2 DEF IInv, TypeOK
  <2> HIDE DEF Proposed, p
  <2>4. \A r \in Run, v \in Workspace :
          Proposed(artifact'[r][v], v) = IF r = s.run /\ v = w THEN {p}
                                         ELSE Proposed(artifact[r][v], v)
    BY <2>2, <2>3
  <2> QED BY <1>2, <2>1, <2>4
<1>10. Review!Propose(s.run, w)
  BY <1>4, <1>8, <1>9 DEF Review!Propose
<1> QED BY <1>2, <1>10 DEF Review!Next

-----------------------------------------------------------------------------
(* The steps of the pipeline.                                              *)

Unseen == UNCHANGED <<ReviewContent, ReviewProposal>>

\* What is shown of every step.
Refined == AbsentInv' /\ TeardownInv' /\ (Review!Next \/ Unseen)

LEMMA TeardownMove ==
  ASSUME TypeOK, TeardownInv, NEW s \in Slot, NEW p, Moves(s, p),
         p \in TearingDown => TornDown(s)
  PROVE  TeardownInv'
<1>1. \A t \in Slot : job'[t] = IF t = s THEN p ELSE job[t]
  BY DEF Moves, TypeOK
<1> QED BY <1>1 DEF TeardownInv, TornDown, TearingDown

\* Teardowns begin where the configuration says so.
LEMMA TeardownStarts ==
  \A s \in Slot : /\ AfterTests(s) \in TearingDown => TornDown(s)
                  /\ AfterFailure(s) \in TearingDown => TornDown(s)
  BY DEF AfterTests, AfterFailure, TearingDown

\* A job that holds the lock works in a workspace that exists.
LEMMA LockedExists ==
  ASSUME IInv, NEW s \in Slot, job[s] \in Locking
  PROVE  tfstate[WorkspaceName(s)].lineage # 0 /\ WorkspaceName(s) \in Workspace
<1>1. tfstate[WorkspaceName(s)].lock = s /\ s # Free
  BY PipelineAssumption DEF IInv, LockDiscipline
<1> QED BY <1>1, WorkspaceOfSlot DEF IInv, StateInv

LEMMA RunRefined ==
  ASSUME ReviewInv,
         \/ Merge
         \/ \E r \in Run : \/ QueueMaster(r) \/ QueuePullRequest(r) \/ Prepare(r)
                           \/ Cancel(r) \/ Finish(r)
         \/ UNCHANGED vars
  PROVE  Refined
<1>1. UNCHANGED <<job, artifact, tfstate, lineages>>
  BY DEF Merge, QueueMaster, QueuePullRequest, Prepare, Cancel, Finish, vars
<1>2. SameContent /\ AbsentInv' /\ TeardownInv'
  BY <1>1 DEF ReviewInv, SameContent, AbsentInv, TeardownInv, TornDown, TearingDown
<1> QED BY <1>1, <1>2, Unnoticed DEF Refined, Unseen

\* Steps that leave the backend alone.
LEMMA QuietRefined ==
  ASSUME ReviewInv, NEW s \in Slot,
         StartBuild(s) \/ StartDeploy(s) \/ Reject(s) \/ PassTests(s) \/ FailStep(s) \/ Rerun(s)
  PROVE  Refined
<1>1. UNCHANGED <<artifact, tfstate>>
  BY DEF StartBuild, StartDeploy, Reject, PassTests, FailStep, Rerun
<1>2. SameContent /\ AbsentInv'
  BY <1>1 DEF ReviewInv, SameContent, AbsentInv
<1>3. \E p : Moves(s, p) /\ (p \in TearingDown => TornDown(s))
  BY TeardownStarts DEF StartBuild, StartDeploy, Reject, PassTests, FailStep, Rerun, TearingDown
<1>4. TeardownInv'
  BY <1>3, TeardownMove DEF ReviewInv, IInv
<1> QED BY <1>1, <1>2, <1>4, Unnoticed DEF Refined, Unseen

\* Steps that open a workspace, or fail to.
LEMMA OpenRefined ==
  ASSUME ReviewInv, NEW s \in Slot,
         \/ SelectForBuild(s) \/ StartPlan(s) \/ PullArtifact(s)
         \/ StartApply(s) \/ RefuseApply(s) \/ StartDestroy(s)
  PROVE  Refined
<1> DEFINE w == WorkspaceName(s)
<1>1. w \in Workspace /\ BackendType /\ AbsentInv
  BY WorkspaceOfSlot, BackendTypeOK DEF ReviewInv, IInv
<1>2. artifact' = artifact /\ (UNCHANGED tfstate \/ \E l : Open(w, l))
  BY DEF SelectForBuild, StartPlan, PullArtifact, StartApply, RefuseApply, StartDestroy,
         NewOrSelect
<1>3. \E p : Moves(s, p) /\ (p \in TearingDown => TornDown(s))
  <2>1. CASE StartDestroy(s)
    BY <2>1 DEF StartDestroy, ReviewInv, TeardownInv, TearingDown
  <2> QED BY <2>1, TeardownStarts DEF SelectForBuild, StartPlan, PullArtifact, StartApply,
                                    RefuseApply, TearingDown
<1>4. TeardownInv'
  BY <1>3, TeardownMove DEF ReviewInv, IInv
<1>5. SameContent /\ AbsentInv'
  <2> HIDE DEF w
  <2>1. CASE UNCHANGED tfstate
    BY <1>1, <2>1 DEF SameContent, AbsentInv
  <2>2. CASE \E l : Open(w, l)
    BY <1>1, <2>2, OpenKeepsContent
  <2> QED BY <1>2, <2>1, <2>2
<1> QED BY <1>2, <1>4, <1>5, Unnoticed DEF Refined, Unseen

LEMMA PlanRefined ==
  ASSUME ReviewInv, NEW s \in Slot, FinishPlan(s)
  PROVE  Refined
<1>1. Moves(s, "built") /\ Release(WorkspaceName(s), Free)
  BY DEF FinishPlan
<1>2. TeardownInv'
  BY <1>1, TeardownMove DEF ReviewInv, IInv, TearingDown
<1>3. AbsentInv'
  BY <1>1, ReleaseKeepsContent, WorkspaceOfSlot, BackendTypeOK DEF ReviewInv, IInv
<1> QED BY <1>2, <1>3, PlanProposes DEF ReviewInv, Refined

LEMMA ApplyRefined ==
  ASSUME ReviewInv, NEW s \in Slot, FinishApply(s) \/ BreakApply(s)
  PROVE  Refined
<1>1. job[s] = "applying" /\ artifact' = artifact
  BY DEF FinishApply, BreakApply
<1>2. \E k \in {Applied(s), Partial} : Persist(WorkspaceName(s), k, Free)
  BY DEF FinishApply, BreakApply
<1>3. \E p : Moves(s, p) /\ (p \in TearingDown => TornDown(s))
  BY TeardownStarts DEF FinishApply, BreakApply, TearingDown
<1>4. TeardownInv'
  BY <1>3, TeardownMove DEF ReviewInv, IInv
<1>5. \E k \in {Applied(s), Partial} : ContentBecomes(WorkspaceName(s), k) /\ AbsentInv'
  BY <1>1, <1>2, PersistContent, LockedExists, BackendTypeOK DEF ReviewInv, IInv, Locking
<1> QED BY <1>1, <1>4, <1>5, ApplyCarries DEF ReviewInv, Refined

LEMMA DestroyRefined ==
  ASSUME ReviewInv, NEW s \in Slot, FinishDestroy(s)
  PROVE  Refined
<1>1. /\ job[s] \in {"destroying", "failedDestroying"} /\ artifact' = artifact
      /\ Persist(WorkspaceName(s), Empty, Free)
  BY DEF FinishDestroy
<1>2. job[s] \in TearingDown /\ job[s] \in Locking /\ TornDown(s)
  BY <1>1 DEF TearingDown, Locking, ReviewInv, TeardownInv
<1>3. \E p : Moves(s, p)
  BY DEF FinishDestroy
<1>4. TeardownInv'
  BY <1>2, <1>3, TeardownMove DEF ReviewInv, IInv
<1>5. ContentBecomes(WorkspaceName(s), Empty) /\ AbsentInv'
  BY <1>1, <1>2, PersistContent, LockedExists, BackendTypeOK DEF ReviewInv, IInv
<1> QED BY <1>1, <1>2, <1>4, <1>5, DestroyDisposes DEF ReviewInv, Refined

LEMMA DeleteRefined ==
  ASSUME ReviewInv, NEW s \in Slot, DeleteWorkspace(s)
  PROVE  Refined
<1> DEFINE w == WorkspaceName(s)
<1>1. /\ artifact' = artifact
      /\ UNCHANGED tfstate \/ (CanDelete(w) /\ Delete(w))
      /\ \E p \in {"deployed", "deployFailed"} : Moves(s, p)
  BY DEF DeleteWorkspace
<1>2. TeardownInv'
  BY <1>1, TeardownMove DEF ReviewInv, IInv, TearingDown
<1>3. w \in Workspace /\ BackendType /\ AbsentInv
  BY WorkspaceOfSlot, BackendTypeOK DEF ReviewInv, IInv
<1>4. SameContent /\ AbsentInv'
  <2> HIDE DEF w
  <2>1. CASE UNCHANGED tfstate
    BY <1>3, <2>1 DEF SameContent, AbsentInv
  <2>2. CASE CanDelete(w) /\ Delete(w)
    BY <1>3, <2>2, DeleteKeepsContent
  <2> QED BY <1>1, <2>1, <2>2
<1> QED BY <1>1, <1>2, <1>4, Unnoticed DEF Refined, Unseen

\* A command that is ended from outside has done nothing, or part of its work.
LEMMA InterruptRefined ==
  ASSUME ReviewInv, NEW s \in Slot, Interrupt(s)
  PROVE  Refined
<1> DEFINE w == WorkspaceName(s)
<1>1. /\ job[s] \in Locking /\ artifact' = artifact /\ Moves(s, AfterFailure(s))
      /\ \E l : \/ Release(w, l)
                \/ job[s] # "planning" /\ Persist(w, Partial, l)
  BY DEF Interrupt
<1>2. TeardownInv'
  BY <1>1, TeardownMove, TeardownStarts DEF ReviewInv, IInv
<1>3. w \in Workspace /\ BackendType /\ AbsentInv /\ tfstate[w].lineage # 0
  BY <1>1, LockedExists, BackendTypeOK DEF ReviewInv, IInv
<1>4. CASE \E l : Release(w, l)
  <2>1. SameContent /\ AbsentInv'
    <3> HIDE DEF w
    <3> QED BY <1>3, <1>4, ReleaseKeepsContent
  <2> QED BY <1>1, <1>2, <2>1, Unnoticed DEF Refined, Unseen
<1>5. CASE job[s] # "planning" /\ \E l : Persist(w, Partial, l)
  <2>1. ContentBecomes(w, Partial) /\ AbsentInv'
    <3> HIDE DEF w
    <3> QED BY <1>3, <1>5, PersistContent
  <2>2. job[s] = "applying" \/ job[s] \in TearingDown
    BY <1>1, <1>5 DEF Locking, TearingDown
  <2> QED BY <1>1, <1>2, <2>1, <2>2, ApplyCarries, DestroyDisposes DEF ReviewInv, Refined
<1> QED BY <1>1, <1>4, <1>5

LEMMA NextRefined == ReviewInv /\ [Next]_vars => Refined
<1> SUFFICES ASSUME ReviewInv, [Next]_vars PROVE Refined
  OBVIOUS
<1>1. ASSUME NEW s \in Slot, JobStep(s) PROVE Refined
  BY <1>1, QuietRefined, OpenRefined, PlanRefined, ApplyRefined, DestroyRefined, DeleteRefined
     DEF JobStep
<1>2. ASSUME NEW s \in Slot, JobFault(s) PROVE Refined
  BY <1>2, QuietRefined, ApplyRefined, InterruptRefined DEF JobFault
<1>3. ASSUME NEW s \in Slot, Rerun(s) PROVE Refined
  BY <1>3, QuietRefined
<1> QED BY <1>1, <1>2, <1>3, RunRefined DEF Next

LEMMA InitRefined == Init => AbsentInv /\ TeardownInv /\ Review!Init
<1> SUFFICES ASSUME Init PROVE AbsentInv /\ TeardownInv /\ Review!Init
  OBVIOUS
<1>1. AbsentInv
  BY DEF Init, BackendInit, SteadyState, AbsentInv, Absent
<1>2. TeardownInv
  BY DEF Init, TeardownInv, TearingDown
<1>3. ReviewContent \in [Workspace -> AnyContent]
  BY InitInv DEF IInv, TypeOK, ReviewContent
<1>4. ReviewProposal = [r \in Run |-> [w \in Workspace |-> {}]]
  BY DEF Init, ReviewProposal
<1> QED BY <1>1, <1>2, <1>3, <1>4 DEF Review!Init

-----------------------------------------------------------------------------
\* Whoever approves a deployment gets what ReviewedDeployment promises: each
\* step of the pipeline proposes, carries a proposal out in the state it was
\* made for, tears a disposable environment down, or changes no content.
THEOREM PipelineImplementsReview == Spec => ImplementsReview
<1>1. Init => ReviewInv /\ Review!Init
  BY InitInv, InitRefined DEF ReviewInv
<1>2. ReviewInv /\ [Next]_vars => ReviewInv'
  BY NextInv, NextRefined DEF ReviewInv, Refined
<1>3. ReviewInv /\ [Next]_vars => [Review!Next]_<<ReviewContent, ReviewProposal>>
  BY NextRefined DEF Refined, Unseen
<1> QED BY <1>1, <1>2, <1>3, PTL DEF Spec, ImplementsReview, Review!Spec
=============================================================================
