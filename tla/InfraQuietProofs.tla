-------------------------- MODULE InfraQuietProofs --------------------------
(***************************************************************************)
(* What change detection is worth on a master that stands still while a    *)
(* run of it is in progress: every environment follows master, and none is *)
(* passed over on the way to the next.                                     *)
(***************************************************************************)
EXTENDS InfraOutcomeProofs, FiniteSetTheorems, WellFoundedInduction

-----------------------------------------------------------------------------
(* A master that stands still while a run of it is in progress.            *)

\* Whatever changes what Terraform renders is seen by the trigger and by the
\* change detection.
Noticed ==
  \A c \in Config : \A i \in 1..(MasterLength - 1) :
    Diff(MasterLog[i], MasterLog[i + 1]) \cap (Template[c] \cup Modules)
      \subseteq WhiteListed \cap Triggering

\* Pull requests have workspaces of their own: enablePrIsolation.
PullRequestsApart == PullRequest = {} \/ PrIsolation[1]

\* No step fails of its own, nothing is started again, nobody merges while a run
\* of master is in progress, and pull requests keep to their workspaces.
Undisturbed == ~Faults /\ MaxReruns = 0 /\ QuietMerges /\ PullRequestsApart

\* A run of master in progress builds the last commit, which is not the first.
LastMergeInv ==
  /\ \A r \in Master : InFlight(r) => head[r] = MasterLog[origin] /\ ~pending /\ origin > 1
  /\ pending => origin > 1

\* The jobs of a run of master in progress are where the change detection sends
\* them, as it would send them now.
NeededInv ==
  \A s \in Slot : s.run \in Master /\ InFlight(s.run) =>
    /\ job[s] \in {"built", "deployFailed", "deployed"} \cup Building \cup Deploying
                  \cup TearingDown => BuildNeeded(s)
    /\ job[s] = "skipped" => ~BuildNeeded(s)

\* How a job is that did not succeed, or will not.
Broken == Failed \cup {"failedTeardown", "failedDestroying", "failedEmptied"}

\* What the jobs of master leave where none of them fails: the lock to those
\* that hold it, a plan that is fresh until its apply, an empty state to delete.
HarmlessInv ==
  \A s \in Slot : s.run \in Master =>
    LET w == WorkspaceName(s) IN
    /\ job[s] \notin Broken
    /\ tfstate[w].lock # Free => \E t \in Slot : WorkspaceName(t) = w /\ job[t] \in Locking
    /\ InFlight(s.run) =>
         /\ job[s] \in {"built", "deploying", "attached"} => Exists(w) /\ Fresh(w, PlanOf(s))
         /\ job[s] = "emptied" => Exists(w) /\ tfstate[w].content = Empty

\* A run of master in progress has yet to apply in the workspace of s.
Outstanding(s) ==
  \E t \in Slot : /\ WorkspaceName(t) = WorkspaceName(s)
                  /\ t.run \in Master /\ InFlight(t.run) /\ job[t] \notin Released

\* The position of master that the workspace of s holds.
Due(s) == IF pending \/ Outstanding(s) THEN origin - 1 ELSE origin

\* Every environment that is kept is where master was before the last merge, or
\* is after it.
CurrentInv ==
  \A s \in Slot : s.run \in Master /\ ~TornDown(s) =>
    tfstate[WorkspaceName(s)].content = Rendered(s.cfg, MasterLog[Due(s)])

\* No merge since the latest run changed what Terraform renders, but one that
\* waits for its run.
LatestHeadInv ==
  \A r \in Master : status[r] # "idle" /\ (\A q \in Master : ~Later(q, r)) =>
    \A c \in Config :
      Rendered(c, head[r]) = Rendered(c, MasterLog[IF pending THEN origin - 1 ELSE origin])

-----------------------------------------------------------------------------
\* What the trigger does not see renders the same.
LEMMA UntriggeredSame ==
  ASSUME Noticed, NEW c \in Config, NEW i \in 1..(MasterLength - 1),
         Diff(MasterLog[i], MasterLog[i + 1]) \cap Triggering = {}
  PROVE  Rendered(c, MasterLog[i + 1]) = Rendered(c, MasterLog[i])
<1>1. \A p \in Template[c] \cup Modules : p \in Path
  BY DetectionAssumption
<1>2. \A p \in Template[c] \cup Modules : p \notin Diff(MasterLog[i], MasterLog[i + 1])
  BY DEF Noticed
<1>3. \A p \in Template[c] \cup Modules : Tree[MasterLog[i]][p] = Tree[MasterLog[i + 1]][p]
  BY <1>1, <1>2 DEF Diff
<1> QED BY <1>3 DEF Rendered

\* What the change detection of the last commit passes over renders the same.
LEMMA UndetectedSame ==
  ASSUME Noticed, NEW c \in Config, NEW m \in 1..MasterLength, m > 1,
         ~NeedsCicd(c, MasterLog[m], m)
  PROVE  Rendered(c, MasterLog[m]) = Rendered(c, MasterLog[m - 1])
<1>1. m - 1 \in 1..(MasterLength - 1) /\ (m - 1) + 1 = m /\ m - 1 # 0
  BY DetectionAssumption
<1>2. Upstream(MasterLog[m], m) = m - 1
  BY DEF Upstream, Diff
<1>3. FileChangeSet(MasterLog[m], m) = Diff(MasterLog[m], MasterLog[m - 1]) \cap WhiteListed
  BY <1>1, <1>2 DEF FileChangeSet
<1>4. \A p \in Template[c] \cup Modules : p \in Path
  BY DetectionAssumption
<1>5. \A p \in Template[c] \cup Modules : p \in Watched(c)
  BY DEF Watched
<1>6. \A p \in Template[c] \cup Modules :
        p \in Diff(MasterLog[m - 1], MasterLog[m]) => p \in WhiteListed
  BY <1>1 DEF Noticed
<1>7. \A p : p \in Diff(MasterLog[m - 1], MasterLog[m]) <=> p \in Diff(MasterLog[m], MasterLog[m - 1])
  BY DEF Diff
<1>8. \A p \in Template[c] \cup Modules : p \notin Diff(MasterLog[m], MasterLog[m - 1])
  BY <1>3, <1>5, <1>6, <1>7 DEF NeedsCicd
<1>9. \A p \in Template[c] \cup Modules : Tree[MasterLog[m]][p] = Tree[MasterLog[m - 1]][p]
  BY <1>4, <1>8 DEF Diff
<1> QED BY <1>9 DEF Rendered

\* No pull request works where a run of master does.
LEMMA MasterApart ==
  ASSUME PullRequestsApart, NEW s \in Slot, s.run \in Master
  PROVE  ~SharedWithPullRequest(s)
<1> SUFFICES ASSUME NEW t \in Slot, t.run \in PullRequest, t.env \in EnvOf(t.run),
                    WorkspaceName(t) = WorkspaceName(s)
             PROVE  FALSE
  BY DEF SharedWithPullRequest
<1>1. WorkspaceName(t) = <<"pr", PrNumber[t.run], Prefix[t.cfg]>>
  BY DEF EnvOf, WorkspaceName, PullRequestsApart
<1>2. WorkspaceName(s) = <<"env", s.env, Prefix[s.cfg]>>
  BY DEF WorkspaceName, Master
<1>3. <<"pr", PrNumber[t.run], Prefix[t.cfg]>> = <<"env", s.env, Prefix[s.cfg]>>
  BY <1>1, <1>2, Zenon
<1> QED BY <1>3

\* A job of master in progress is alone in its workspace.
LEMMA MasterAlone ==
  ASSUME PullRequestsApart, MaxReruns = 0, TypeOK, BatchInv,
         NEW s \in Slot, s.run \in Master, InFlight(s.run),
         NEW t \in Slot, t.env \in EnvOf(t.run), InFlight(t.run),
         WorkspaceName(s) = WorkspaceName(t)
  PROVE  s = t
<1>1. s.env \in EnvOf(s.run)
  BY SlotFields DEF EnvOf, Master
<1>2. t.run \in Master
  BY MasterApart, MasterWorkspace
<1>3. reruns \in [Run -> 0..0]
  BY DEF TypeOK
<1>4. s.run = t.run
  BY <1>2, <1>3 DEF BatchInv, NoReruns, Master
<1> QED BY <1>1, <1>4, SameWorkspace, SameSlot

LEMMA NothingRerun ==
  ASSUME MaxReruns = 0, TypeOK
  PROVE  NoReruns /\ \A s \in Slot : ~Rerun(s)
<1>1. reruns \in [Run -> 0..0]
  BY DEF TypeOK
<1>2. \A r \in Run : reruns[r] = 0
  BY <1>1
<1> QED BY <1>2, SlotFields DEF NoReruns, Master, Rerun, MayRerun

\* A step of a job is one of a run in progress, where that run goes.
LEMMA JobRuns ==
  ASSUME MaxReruns = 0, TypeOK, ActiveInv, NEW s \in Slot, JobStep(s)
  PROVE  /\ InFlight(s.run) /\ s.env \in EnvOf(s.run)
         /\ UNCHANGED runVars
         /\ \A t \in Slot \ {s} : job'[t] = job[t]
<1>1. PICK p : Moves(s, p) /\ Edge(s, p)
  BY JobEdge
<1>2. \A t \in Slot \ {s} : job'[t] = job[t]
  BY <1>1, Moved
<1>3. s.env \in EnvOf(s.run)
  BY <1>1 DEF ActiveInv, Edge
<1>4. job[s] \notin Failed \cup Succeeded
  BY <1>1, NothingRerun DEF Edge, Failed
<1>5. InFlight(s.run)
  BY <1>1, <1>4 DEF ActiveInv, Edge, InFlight, Resting
<1>6. UNCHANGED runVars
  BY DEF JobStep, StartBuild, SelectForBuild, StartPlan, FinishPlan, StartDeploy,
         PullArtifact, StartApply, RefuseApply, FinishApply, PassTests, StartDestroy,
         FinishDestroy, DeleteWorkspace
<1> QED BY <1>2, <1>3, <1>5, <1>6

-----------------------------------------------------------------------------
(* The backend's steps, as the job that takes them sees its workspace.     *)

\* The other workspaces are left alone.
Elsewhere(w) == \A v \in Workspace \ {w} : tfstate'[v] = tfstate[v]

\* The state of w is the one plans were made for.
SameState(w) ==
  /\ tfstate'[w].lineage = tfstate[w].lineage
  /\ tfstate'[w].serial = tfstate[w].serial

LEMMA Opening ==
  ASSUME BackendType, AbsentInv, NEW w \in Workspace, NEW l \in Slot \cup {Free}, Open(w, l)
  PROVE  /\ Elsewhere(w)
         /\ tfstate'[w].lock = l /\ tfstate'[w].lineage # 0
         /\ tfstate'[w].content = tfstate[w].content
         /\ Exists(w) => SameState(w)
<1>1. tfstate' = [tfstate EXCEPT ![w] = [Opened(w) EXCEPT !.lock = l]] /\ Opened(w) \in State
  BY ContentMembers DEF Open, Opened, State, BackendType
<1>2. tfstate'[w] = [Opened(w) EXCEPT !.lock = l] /\ Elsewhere(w)
  BY <1>1 DEF BackendType, Elsewhere
<1>3. tfstate'[w].lock = l /\ tfstate'[w].lineage = Opened(w).lineage
      /\ tfstate'[w].serial = Opened(w).serial
  BY <1>1, <1>2 DEF State
<1>4. Opened(w).lineage # 0
  BY DEF Opened, Exists, BackendType
<1>5. Exists(w) => Opened(w) = tfstate[w]
  BY DEF Opened
<1>6. SameContent
  BY OpenKeepsContent
<1> QED BY <1>2, <1>3, <1>4, <1>5, <1>6 DEF SameState, SameContent

LEMMA Selecting ==
  ASSUME BackendType, AbsentInv, StateInv, NEW w \in Workspace, NewOrSelect(w)
  PROVE  /\ Elsewhere(w)
         /\ tfstate'[w].lock = tfstate[w].lock /\ tfstate'[w].lineage # 0
         /\ tfstate'[w].content = tfstate[w].content
         /\ Exists(w) => SameState(w)
<1>1. Opened(w).lock = tfstate[w].lock
  BY DEF Opened, Exists, StateInv
<1>2. tfstate[w].lock \in Slot \cup {Free} /\ Open(w, tfstate[w].lock)
  BY <1>1 DEF NewOrSelect, BackendType, State
<1> QED BY <1>2, Opening

LEMMA Releasing ==
  ASSUME BackendType, NEW w \in Workspace, Release(w, Free)
  PROVE  /\ Elsewhere(w)
         /\ tfstate'[w].lock = Free /\ tfstate'[w].content = tfstate[w].content
         /\ SameState(w)
  BY DEF Release, BackendType, State, Elsewhere, SameState

LEMMA Persisting ==
  ASSUME BackendType, NEW w \in Workspace, NEW k, Persist(w, k, Free)
  PROVE  /\ Elsewhere(w)
         /\ tfstate'[w].lock = Free /\ tfstate'[w].content = k
         /\ tfstate'[w].lineage = tfstate[w].lineage
<1> DEFINE sn == IF k = tfstate[w].content /\ k # Partial
                 THEN tfstate[w].serial ELSE tfstate[w].serial + 1
<1>1. tfstate' = [tfstate EXCEPT ![w].serial = sn, ![w].content = k, ![w].lock = Free]
  BY DEF Persist, BackendType
<1> HIDE DEF sn
<1> QED BY <1>1 DEF BackendType, State, Elsewhere

LEMMA Deleting ==
  ASSUME BackendType, NEW w \in Workspace, Delete(w)
  PROVE  /\ Elsewhere(w)
         /\ tfstate'[w].lock = Free /\ tfstate'[w].content = Empty
  BY DEF Delete, Absent, BackendType, Elsewhere

\* A job works in its workspace.
LEMMA WorksThere ==
  ASSUME ReviewInv, NEW s \in Slot, JobStep(s)
  PROVE  Elsewhere(WorkspaceName(s))
<1> DEFINE w == WorkspaceName(s)
<1>1. BackendType /\ AbsentInv /\ StateInv /\ w \in Workspace /\ s \in Slot \cup {Free}
  BY BackendTypeOK, WorkspaceOfSlot DEF ReviewInv, IInv
<1> HIDE DEF w
<1>2. UNCHANGED tfstate => Elsewhere(w)
  BY DEF Elsewhere
<1>3. Open(w, s) \/ NewOrSelect(w) \/ Release(w, Free) \/ Delete(w) => Elsewhere(w)
  BY <1>1, Opening, Selecting, Releasing, Deleting
<1>4. \A k : Persist(w, k, Free) => Elsewhere(w)
  BY <1>1, Persisting
<1> USE DEF w
<1>5. CASE StartBuild(s) \/ StartDeploy(s) \/ PassTests(s)
  BY <1>2, <1>5 DEF StartBuild, StartDeploy, PassTests
<1>6. CASE SelectForBuild(s) \/ StartPlan(s) \/ FinishPlan(s)
  BY <1>2, <1>3, <1>6 DEF SelectForBuild, StartPlan, FinishPlan
<1>7. CASE PullArtifact(s) \/ StartApply(s) \/ RefuseApply(s)
  BY <1>2, <1>3, <1>7 DEF PullArtifact, StartApply, RefuseApply
<1>8. CASE FinishApply(s) \/ FinishDestroy(s)
  BY <1>4, <1>8 DEF FinishApply, FinishDestroy
<1>9. CASE StartDestroy(s) \/ DeleteWorkspace(s)
  BY <1>2, <1>3, <1>9 DEF StartDestroy, DeleteWorkspace
<1> QED BY <1>5, <1>6, <1>7, <1>8, <1>9 DEF JobStep

-----------------------------------------------------------------------------
(* The jobs of master.                                                     *)

\* A step of a job of master where none of them fails.
Orderly(s) ==
  LET w == WorkspaceName(s)
      p == job'[s]
  IN  /\ p \notin Broken
      /\ tfstate'[w].lock # Free => p \in Locking
      /\ p \in {"built", "deploying", "attached"} =>
           /\ tfstate'[w].lineage # 0
           /\ artifact'[s.run][w].lineage = tfstate'[w].lineage
           /\ artifact'[s.run][w].serial = tfstate'[w].serial
      /\ p = "emptied" => tfstate'[w].lineage # 0 /\ tfstate'[w].content = Empty
      /\ \/ TornDown(s)
         \/ tfstate'[w].content = tfstate[w].content /\ (p \in Released <=> job[s] \in Released)
         \/ /\ p = "applied" /\ job[s] \notin Released
            /\ tfstate'[w].content = Rendered(s.cfg, head[s.run])

\* Before its step, the lock is the job's own or free.
LEMMA LockedByItself ==
  ASSUME PullRequestsApart, MaxReruns = 0, TypeOK, ActiveInv, BatchInv, HarmlessInv,
         NEW s \in Slot, s.run \in Master, InFlight(s.run),
         tfstate[WorkspaceName(s)].lock # Free
  PROVE  job[s] \in Locking
<1>1. PICK t \in Slot : WorkspaceName(t) = WorkspaceName(s) /\ job[t] \in Locking
  BY DEF HarmlessInv
<1>2. t.env \in EnvOf(t.run) /\ InFlight(t.run)
  BY <1>1 DEF ActiveInv, InFlight, Locking, Resting, Failed, Succeeded
<1>3. s = t
  BY <1>1, <1>2, MasterAlone
<1> QED BY <1>1, <1>3

LEMMA OrderlyStep ==
  ASSUME Undisturbed, ReviewInv, ActiveInv, BatchInv, ArtifactInv, HarmlessInv,
         NEW s \in Slot, s.run \in Master, JobStep(s)
  PROVE  Orderly(s)
<1> DEFINE w == WorkspaceName(s)
           p == job'[s]
<1>1. /\ IInv /\ TypeOK /\ BackendType /\ AbsentInv /\ StateInv /\ TeardownInv
      /\ w \in Workspace /\ s.run \in Run /\ s \in Slot \cup {Free}
  BY BackendTypeOK, WorkspaceOfSlot, SlotFields DEF ReviewInv, IInv
<1>2. \A q : Moves(s, q) => p = q
  BY <1>1, Moved
<1>3. InFlight(s.run) /\ MaxReruns = 0 /\ PullRequestsApart
  BY <1>1, JobRuns DEF Undisturbed
<1>4. job[s] \notin Locking => tfstate[w].lock = Free
  BY <1>1, <1>3, LockedByItself
<1>5. /\ job[s] \notin Broken
      /\ job[s] \in {"built", "deploying", "attached"} => Exists(w) /\ Fresh(w, PlanOf(s))
      /\ job[s] = "emptied" => Exists(w) /\ tfstate[w].content = Empty
  BY <1>3 DEF HarmlessInv
<1>6. job[s] \in Locking => Exists(w)
  BY <1>1, LockedExists DEF Exists
<1>7. job[s] \in TearingDown => TornDown(s)
  BY <1>1 DEF TeardownInv
<1>8. Locking = {"planning", "applying", "destroying", "failedDestroying"}
  BY DEF Locking
<1>9. PlanOf(s) = artifact[s.run][w]
  BY DEF PlanOf
<1> HIDE DEF w
<1>10. CASE StartBuild(s)
  <2>1. /\ tfstate' = tfstate /\ job[s] = "waiting" /\ p \in {"building", "unchanged"}
    BY <1>2, <1>10 DEF StartBuild, At
  <2> QED BY <1>4, <1>8, <2>1 DEF Orderly, w, Broken, Failed, Released
<1>11. CASE SelectForBuild(s)
  <2>1. NewOrSelect(w) /\ job[s] = "building" /\ p = "selected"
    BY <1>2, <1>11 DEF SelectForBuild, At, w
  <2>2. tfstate'[w].lock = Free /\ tfstate'[w].content = tfstate[w].content
    BY <1>1, <1>4, <1>8, <2>1, Selecting
  <2> QED BY <2>1, <2>2 DEF Orderly, w, Broken, Failed, Released
<1>12. CASE StartPlan(s)
  <2>1. job[s] = "selected" /\ CanLock(w)
    BY <1>4, <1>8, <1>12 DEF StartPlan, At, CanLock
  <2>2. Open(w, s) /\ p = "planning"
    BY <1>2, <1>12, <2>1 DEF StartPlan, w
  <2>3. tfstate'[w].content = tfstate[w].content
    BY <1>1, <2>2, Opening
  <2> QED BY <1>8, <2>1, <2>2, <2>3 DEF Orderly, w, Broken, Failed, Released
<1>13. CASE FinishPlan(s)
  <2> DEFINE plan == [head |-> head[s.run], lineage |-> tfstate[w].lineage,
                      serial |-> tfstate[w].serial, base |-> tfstate[w].content,
                      attempt |-> reruns[s.run]]
  <2>1. /\ Release(w, Free) /\ job[s] = "planning" /\ p = "built"
        /\ artifact' = [artifact EXCEPT ![s.run][w] = plan]
    BY <1>2, <1>13 DEF FinishPlan, At, w
  <2>2. /\ tfstate'[w].lock = Free /\ tfstate'[w].content = tfstate[w].content
        /\ SameState(w)
    BY <1>1, <2>1, Releasing
  <2>3. plan.lineage = tfstate[w].lineage /\ plan.serial = tfstate[w].serial
    OBVIOUS
  <2> HIDE DEF plan
  <2>4. artifact'[s.run][w] = plan
    BY <1>1, <2>1 DEF TypeOK
  <2> QED BY <1>6, <1>8, <2>1, <2>2, <2>3, <2>4
          DEF Orderly, w, Broken, Failed, Released, SameState, Exists
<1>14. CASE StartDeploy(s)
  <2>1. /\ tfstate' = tfstate /\ artifact' = artifact /\ job[s] \in {"built", "unchanged"}
        /\ p = IF DeployNeeded(s) THEN "deploying" ELSE "skipped"
    BY <1>2, <1>14 DEF StartDeploy
  <2>2. DeployNeeded(s) <=> BuildNeeded(s)
    BY DEF DeployNeeded, BuildNeeded
  <2>3. job[s] = "unchanged" => ~BuildNeeded(s)
    BY <1>3 DEF ArtifactInv
  <2>4. tfstate'[w].lock = Free /\ tfstate'[w].content = tfstate[w].content
    BY <1>4, <1>8, <2>1
  <2>5. p = "deploying" => Exists(w) /\ Fresh(w, PlanOf(s))
    BY <1>5, <2>1, <2>2, <2>3
  <2> QED BY <1>9, <2>1, <2>2, <2>4, <2>5
          DEF Orderly, w, Broken, Failed, Released, Exists, Fresh
<1>15. CASE PullArtifact(s)
  <2>1. job[s] = "deploying" /\ artifact' = artifact
    BY <1>15 DEF PullArtifact, At
  <2>2. PlanOf(s) # NoPlan
    BY <2>1 DEF ArtifactInv, Deploying
  <2>3. NewOrSelect(w) /\ p = "attached"
    BY <1>2, <1>15, <2>2 DEF PullArtifact, w
  <2>4. Exists(w) /\ Fresh(w, PlanOf(s)) /\ tfstate[w].lock = Free
    BY <1>4, <1>5, <1>8, <2>1
  <2>5. /\ tfstate'[w].lock = Free /\ tfstate'[w].content = tfstate[w].content
        /\ SameState(w)
    BY <1>1, <2>3, <2>4, Selecting
  <2> QED BY <1>9, <2>1, <2>3, <2>4, <2>5
          DEF Orderly, w, Broken, Failed, Released, Exists, Fresh, SameState
<1>16. CASE StartApply(s)
  <2>1. Open(w, s) /\ job[s] = "attached" /\ p = "applying"
    BY <1>2, <1>16 DEF StartApply, At, w
  <2>2. tfstate'[w].content = tfstate[w].content
    BY <1>1, <2>1, Opening
  <2> QED BY <1>8, <2>1, <2>2 DEF Orderly, w, Broken, Failed, Released
<1>17. CASE RefuseApply(s)
  <2>1. job[s] = "attached" /\ ~MayApply(w, PlanOf(s))
    BY <1>17 DEF RefuseApply, At, w
  <2> QED BY <1>4, <1>5, <1>8, <2>1 DEF MayApply, CanLock
<1>18. CASE FinishApply(s)
  <2>1. job[s] = "applying" /\ p = "applied" /\ Persist(w, Applied(s), Free)
    BY <1>2, <1>18 DEF FinishApply, w
  <2>2. tfstate'[w].lock = Free /\ tfstate'[w].content = Rendered(s.cfg, head[s.run])
    BY <1>1, <2>1, Persisting, AppliedHead
  <2> QED BY <2>1, <2>2 DEF Orderly, w, Broken, Failed, Released
<1>19. CASE PassTests(s)
  <2>1. tfstate' = tfstate /\ job[s] = "applied" /\ p \in {"teardown", "deployed"}
    BY <1>2, <1>19 DEF PassTests, At, AfterTests
  <2> QED BY <1>4, <1>8, <2>1 DEF Orderly, w, Broken, Failed, Released
<1>20. CASE StartDestroy(s)
  <2>1. job[s] = "teardown"
    BY <1>5, <1>20 DEF StartDestroy, Broken
  <2>2. CanLock(w) /\ TornDown(s)
    BY <1>4, <1>7, <1>8, <2>1 DEF CanLock, TearingDown
  <2>3. p = "destroying"
    BY <1>2, <1>20, <2>1, <2>2 DEF StartDestroy, w
  <2> QED BY <1>8, <2>2, <2>3 DEF Orderly, w, Broken, Failed
<1>21. CASE FinishDestroy(s)
  <2>1. job[s] = "destroying" /\ Persist(w, Empty, Free)
    BY <1>5, <1>21 DEF FinishDestroy, Broken, w
  <2>2. p = "emptied" /\ TornDown(s)
    BY <1>2, <1>7, <1>21, <2>1 DEF FinishDestroy, TearingDown
  <2>3. /\ tfstate'[w].lock = Free /\ tfstate'[w].content = Empty
        /\ tfstate'[w].lineage = tfstate[w].lineage
    BY <1>1, <2>1, Persisting
  <2> QED BY <1>6, <1>8, <2>1, <2>2, <2>3 DEF Orderly, w, Broken, Failed, Exists
<1>22. CASE DeleteWorkspace(s)
  <2>1. job[s] = "emptied"
    BY <1>5, <1>22 DEF DeleteWorkspace, Broken
  <2>2. CanDelete(w) /\ TornDown(s)
    BY <1>4, <1>5, <1>7, <1>8, <2>1 DEF CanDelete, CanLock, TearingDown
  <2>3. Delete(w) /\ p = "deployed"
    BY <1>2, <1>22, <2>1, <2>2 DEF DeleteWorkspace, w
  <2>4. tfstate'[w].lock = Free
    BY <1>1, <2>3, Deleting
  <2> QED BY <2>2, <2>3, <2>4 DEF Orderly, w, Broken, Failed
<1> QED BY <1>10, <1>11, <1>12, <1>13, <1>14, <1>15, <1>16, <1>17, <1>18, <1>19, <1>20,
           <1>21, <1>22 DEF JobStep

\* A step of a job leaves the others of master alone: they work elsewhere, or
\* their run is over or yet to come.
LEMMA OthersStay ==
  ASSUME Undisturbed, ReviewInv, ActiveInv, BatchInv,
         NEW s \in Slot, JobStep(s), NEW t \in Slot, t.run \in Master, t # s
  PROVE  /\ job'[t] = job[t] /\ (InFlight(t.run)' <=> InFlight(t.run))
         /\ PlanOf(t)' = PlanOf(t)
         /\ WorkspaceName(t) = WorkspaceName(s) => ~InFlight(t.run) /\ s.run \in Master
         /\ WorkspaceName(t) # WorkspaceName(s) =>
              tfstate'[WorkspaceName(t)] = tfstate[WorkspaceName(t)]
<1>1. IInv /\ TypeOK /\ MaxReruns = 0 /\ PullRequestsApart
  BY DEF ReviewInv, IInv, Undisturbed
<1>2. /\ InFlight(s.run) /\ s.env \in EnvOf(s.run) /\ UNCHANGED runVars
      /\ \A u \in Slot \ {s} : job'[u] = job[u]
  BY <1>1, JobRuns
<1>3. job'[t] = job[t] /\ (InFlight(t.run)' <=> InFlight(t.run))
  BY <1>2 DEF runVars, InFlight
<1>4. t.env \in EnvOf(t.run)
  BY SlotFields DEF EnvOf, Master
<1>5. PlanOf(t)' = PlanOf(t)
  <2>1. [Next]_vars
    BY DEF Next
  <2>2. ~FinishPlan(t)
    <3>1. ASSUME FinishPlan(t) PROVE FALSE
      <4>1. job[t] = "planning" /\ job'[t] = "built"
        BY <1>1, <3>1, Moved DEF FinishPlan, At
      <4> QED BY <1>3, <4>1
    <3> QED BY <3>1
  <2> QED BY <1>1, <1>4, <2>1, <2>2, PlanChanges
<1>6. WorkspaceName(t) = WorkspaceName(s) => ~InFlight(t.run) /\ s.run \in Master
  BY <1>1, <1>2, MasterAlone, MasterApart, MasterWorkspace
<1>7. WorkspaceName(t) # WorkspaceName(s) =>
        tfstate'[WorkspaceName(t)] = tfstate[WorkspaceName(t)]
  BY WorksThere, WorkspaceOfSlot DEF Elsewhere
<1> QED BY <1>3, <1>5, <1>6, <1>7

\* What a step that is not a job's leaves alone while a run is in progress.
LEMMA FlightStays ==
  ASSUME TypeOK, QuietMerges, RunOnly, NEW r \in Master, InFlight(r)
  PROVE  origin' = origin /\ head'[r] = head[r]
<1>1. r \in Run /\ head \in [Run -> Commit \cup {None}] /\ status[r] # "idle"
  BY DEF TypeOK, Master, InFlight
<1>2. ~Merge
  BY DEF Merge
<1> QED BY <1>1, <1>2 DEF RunOnly, QueueMaster, QueuePullRequest, Prepare, Cancel, Finish, vars

\* A run comes into progress by being queued.
LEMMA FlightBegins ==
  ASSUME TypeOK, RunOnly, NEW r \in Master, InFlight(r)', ~InFlight(r)
  PROVE  QueueMaster(r)
<1>1. r \in Run /\ status \in [Run -> Status]
  BY DEF TypeOK, Master
<1> QED BY <1>1 DEF RunOnly, Merge, QueueMaster, QueuePullRequest, Prepare, Cancel, Finish, vars,
                    InFlight, Master

LEMMA QuietKind ==
  ASSUME Undisturbed, TypeOK, [Next]_vars
  PROVE  RunOnly \/ \E s \in Slot : JobStep(s)
  BY StepKinds, NoFaults, NothingRerun DEF Undisturbed

LEMMA NeededInit == Init => NeededInv
  BY DEF Init, NeededInv, Building, Deploying, TearingDown

\* The change detection decides between the outcomes once and for all while
\* master stands still, whatever fails in the run.
LEMMA NeededStep ==
  ASSUME QuietMerges, MaxReruns = 0, TypeOK, IdleInv, NeededInv, [Next]_vars
  PROVE  NeededInv'
<1> DEFINE Going == {"built", "deployFailed", "deployed"} \cup Building \cup Deploying
                      \cup TearingDown
<1> SUFFICES ASSUME NEW t \in Slot, t.run \in Master, InFlight(t.run)'
             PROVE  /\ job'[t] \in Going => BuildNeeded(t)'
                    /\ job'[t] = "skipped" => ~BuildNeeded(t)'
  BY DEF NeededInv, Master, Building, Deploying, TearingDown
<1>1. CASE RunOnly
  <2>1. job' = job
    BY <1>1 DEF RunOnly
  <2>2. CASE InFlight(t.run)
    <3>1. BuildNeeded(t)' <=> BuildNeeded(t)
      BY <1>1, <2>2, FlightStays DEF BuildNeeded
    <3> QED BY <2>1, <2>2, <3>1 DEF NeededInv
  <2>3. CASE ~InFlight(t.run)
    <3>1. job[t] = "waiting"
      BY <1>1, <2>3, FlightBegins DEF QueueMaster, IdleInv
    <3> QED BY <2>1, <3>1 DEF Building, Deploying, TearingDown
  <2> QED BY <2>2, <2>3
<1>2. ASSUME NEW s \in Slot, NEW p, Edge(s, p), job'[s] = p,
             \A u \in Slot \ {s} : job'[u] = job[u], UNCHANGED runVars
      PROVE  /\ job'[t] \in Going => BuildNeeded(t)'
             /\ job'[t] = "skipped" => ~BuildNeeded(t)'
  <2>1. (BuildNeeded(t)' <=> BuildNeeded(t)) /\ InFlight(t.run)
    BY <1>2 DEF BuildNeeded, InFlight, runVars
  <2>2. /\ job[t] \in Going => BuildNeeded(t)
        /\ job[t] = "skipped" => ~BuildNeeded(t)
    BY <2>1 DEF NeededInv
  <2>3. CASE t # s
    BY <1>2, <2>1, <2>2, <2>3
  <2>4. CASE t = s
    <3>1. CASE job[s] = "waiting"
      BY <1>2, <2>1, <2>4, <3>1 DEF Edge, Building, Deploying, TearingDown
    <3>2. CASE job[s] \in {"built", "unchanged"}
      <4>1. p \in {"rejected", IF BuildNeeded(s) THEN "deploying" ELSE "skipped"}
        BY <1>2, <3>2 DEF Edge, DeployNeeded, BuildNeeded
      <4> QED BY <1>2, <2>1, <2>4, <4>1 DEF Building, Deploying, TearingDown
    <3>3. CASE job[s] \in Building \cup Deploying \cup TearingDown
      <4>1. p # "skipped"
        BY <1>2, <3>3 DEF Edge, Building, Deploying, TearingDown
      <4> QED BY <1>2, <2>1, <2>2, <2>4, <3>3, <4>1
    <3>4. job[s] \notin Failed \cup Succeeded
      BY <1>2, NothingRerun DEF Edge, Failed, Succeeded
    <3>5. job[s] \in Phase
      BY DEF TypeOK
    <3> QED BY <3>1, <3>2, <3>3, <3>4, <3>5 DEF Phase
  <2> QED BY <2>3, <2>4
<1> QED BY <1>1, <1>2, JobKinds, NothingRerun

LEMMA HarmlessStep ==
  ASSUME Undisturbed, ReviewInv, ActiveInv, IdleInv, BatchInv, ArtifactInv, HarmlessInv,
         [Next]_vars
  PROVE  HarmlessInv'
<1>1. TypeOK /\ MaxReruns = 0
  BY DEF ReviewInv, IInv, Undisturbed
<1> SUFFICES ASSUME NEW t \in Slot, t.run \in Master
             PROVE  LET w == WorkspaceName(t) IN
                    /\ job'[t] \notin Broken
                    /\ tfstate'[w].lock # Free =>
                         \E u \in Slot : WorkspaceName(u) = w /\ job'[u] \in Locking
                    /\ InFlight(t.run)' =>
                         /\ job'[t] \in {"built", "deploying", "attached"} =>
                              (Exists(w) /\ Fresh(w, PlanOf(t)))'
                         /\ job'[t] = "emptied" => Exists(w)' /\ tfstate'[w].content = Empty
  BY DEF HarmlessInv, WorkspaceName, Master, Broken, Locking, Failed
<1>2. CASE RunOnly
  <2>1. job' = job /\ tfstate' = tfstate /\ artifact' = artifact
    BY <1>2 DEF RunOnly
  <2>2. /\ Exists(WorkspaceName(t))' = Exists(WorkspaceName(t))
        /\ Fresh(WorkspaceName(t), PlanOf(t))' = Fresh(WorkspaceName(t), PlanOf(t))
    BY <2>1 DEF Exists, Fresh, PlanOf, WorkspaceName
  <2>4. CASE InFlight(t.run) \/ ~InFlight(t.run)'
    BY <2>1, <2>2, <2>4 DEF HarmlessInv
  <2>5. CASE ~InFlight(t.run) /\ InFlight(t.run)'
    <3>1. job[t] = "waiting"
      BY <1>1, <1>2, <2>5, FlightBegins DEF QueueMaster, IdleInv
    <3> QED BY <2>1, <3>1 DEF HarmlessInv
  <2> QED BY <2>4, <2>5
<1>3. ASSUME NEW s \in Slot, JobStep(s), s = t
      PROVE  LET w == WorkspaceName(t) IN
             /\ job'[t] \notin Broken
             /\ tfstate'[w].lock # Free =>
                  \E u \in Slot : WorkspaceName(u) = w /\ job'[u] \in Locking
             /\ job'[t] \in {"built", "deploying", "attached"} =>
                  (Exists(w) /\ Fresh(w, PlanOf(t)))'
             /\ job'[t] = "emptied" => Exists(w)' /\ tfstate'[w].content = Empty
  <2>1. Orderly(t)
    BY <1>3, OrderlyStep
  <2>4. job'[t] \in {"built", "deploying", "attached"} =>
          (Exists(WorkspaceName(t)) /\ Fresh(WorkspaceName(t), PlanOf(t)))'
    <3>1. job'[t] \in {"built", "deploying", "attached"} =>
            /\ tfstate'[WorkspaceName(t)].lineage # 0
            /\ artifact'[t.run][WorkspaceName(t)].lineage = tfstate'[WorkspaceName(t)].lineage
            /\ artifact'[t.run][WorkspaceName(t)].serial = tfstate'[WorkspaceName(t)].serial
      BY <2>1 DEF Orderly
    <3> QED BY <3>1 DEF Exists, Fresh, PlanOf, WorkspaceName
  <2>5. job'[t] = "emptied" =>
          Exists(WorkspaceName(t))' /\ tfstate'[WorkspaceName(t)].content = Empty
    <3>1. job'[t] = "emptied" => /\ tfstate'[WorkspaceName(t)].lineage # 0
                                 /\ tfstate'[WorkspaceName(t)].content = Empty
      BY <2>1 DEF Orderly
    <3> QED BY <3>1 DEF Exists, WorkspaceName
  <2> QED BY <2>1, <2>4, <2>5 DEF Orderly
<1>4. ASSUME NEW s \in Slot, JobStep(s), s # t
      PROVE  LET w == WorkspaceName(t) IN
             /\ job'[t] \notin Broken
             /\ tfstate'[w].lock # Free =>
                  \E u \in Slot : WorkspaceName(u) = w /\ job'[u] \in Locking
             /\ InFlight(t.run)' =>
                  /\ job'[t] \in {"built", "deploying", "attached"} =>
                       (Exists(w) /\ Fresh(w, PlanOf(t)))'
                  /\ job'[t] = "emptied" => Exists(w)' /\ tfstate'[w].content = Empty
  <2>1. /\ job'[t] = job[t] /\ (InFlight(t.run)' <=> InFlight(t.run))
        /\ PlanOf(t)' = PlanOf(t)
        /\ WorkspaceName(t) = WorkspaceName(s) => ~InFlight(t.run) /\ s.run \in Master
        /\ WorkspaceName(t) # WorkspaceName(s) =>
             tfstate'[WorkspaceName(t)] = tfstate[WorkspaceName(t)]
    BY <1>4, OthersStay
  <2>2. CASE WorkspaceName(t) = WorkspaceName(s)
    <3>1. Orderly(s)
      BY <1>4, <2>1, <2>2, OrderlyStep
    <3> QED BY <2>1, <2>2, <3>1 DEF HarmlessInv, Orderly
  <2>3. CASE WorkspaceName(t) # WorkspaceName(s)
    <3>1. UNCHANGED runVars /\ \A u \in Slot \ {s} : job'[u] = job[u]
      BY <1>1, <1>4, JobRuns
    <3>3. /\ Exists(WorkspaceName(t))' <=> Exists(WorkspaceName(t))
          /\ Fresh(WorkspaceName(t), PlanOf(t))' <=> Fresh(WorkspaceName(t), PlanOf(t))
      <4>1. tfstate'[WorkspaceName(t)] = tfstate[WorkspaceName(t)]
        BY <2>1, <2>3
      <4>2. WorkspaceName(t)' = WorkspaceName(t)
        BY DEF WorkspaceName
      <4> QED BY <2>1, <4>1, <4>2 DEF Exists, Fresh
    <3>4. tfstate'[WorkspaceName(t)].lock # Free =>
            \E u \in Slot : WorkspaceName(u) = WorkspaceName(t) /\ job'[u] \in Locking
      <4> SUFFICES ASSUME tfstate'[WorkspaceName(t)].lock # Free
                   PROVE  \E u \in Slot : WorkspaceName(u) = WorkspaceName(t) /\ job'[u] \in Locking
        OBVIOUS
      <4>1. PICK u \in Slot : WorkspaceName(u) = WorkspaceName(t) /\ job[u] \in Locking
        BY <2>1, <2>3 DEF HarmlessInv
      <4> QED BY <2>3, <3>1, <4>1
    <3> QED BY <2>1, <2>3, <3>3, <3>4 DEF HarmlessInv
  <2> QED BY <2>2, <2>3
<1> QED BY <1>1, <1>2, <1>3, <1>4, QuietKind

-----------------------------------------------------------------------------
(* The commits of master.                                                  *)

\* What a step that is not a job's does to the runs of master.
LEMMA RunOnlyKinds ==
  ASSUME ~Faults, TypeOK, RunOnly
  PROVE  \/ Merge
         \/ \E x \in Master : QueueMaster(x)
         \/ \E x \in Master : Finish(x)
         \/ /\ UNCHANGED <<origin, pending>>
            /\ \A r \in Master : /\ head'[r] = head[r]
                                 /\ status'[r] = "idle" <=> status[r] = "idle"
                                 /\ InFlight(r)' <=> InFlight(r)
<1> DEFINE Goal == /\ UNCHANGED <<origin, pending>>
                   /\ \A r \in Master : /\ head'[r] = head[r]
                                        /\ status'[r] = "idle" <=> status[r] = "idle"
                                        /\ InFlight(r)' <=> InFlight(r)
<1>1. status \in [Run -> Status] /\ head \in [Run -> Commit \cup {None}] /\ Master \subseteq Run
  BY DEF TypeOK, Master
<1>2. ASSUME NEW x \in Run, QueuePullRequest(x) PROVE Goal
  BY <1>1, <1>2 DEF QueuePullRequest, InFlight, Master
<1>3. ASSUME NEW x \in Run, Prepare(x) PROVE Goal
  BY <1>1, <1>3 DEF Prepare, InFlight
<1>4. ASSUME NEW x \in Run \ Master, Finish(x) PROVE Goal
  BY <1>1, <1>4 DEF Finish, InFlight
<1>5. ASSUME UNCHANGED vars PROVE Goal
  BY <1>5 DEF vars, InFlight
<1> HIDE DEF Goal
<1> USE DEF Goal
<1>6. ASSUME NEW x \in Run, QueueMaster(x) PROVE x \in Master
  BY <1>6 DEF QueueMaster
<1>7. ASSUME NEW x \in Run, Cancel(x) PROVE FALSE
  BY <1>7 DEF Cancel
<1> QED BY <1>2, <1>3, <1>4, <1>5, <1>6, <1>7 DEF RunOnly

LEMMA LastMergeStep ==
  ASSUME Undisturbed, TypeOK, ActiveInv, LastMergeInv, [Next]_vars
  PROVE  LastMergeInv'
<1>1. /\ status \in [Run -> Status] /\ head \in [Run -> Commit \cup {None}] /\ Master \subseteq Run
      /\ origin \in Nat /\ origin \in 1..MasterLength
  BY DetectionAssumption DEF TypeOK, Master
<1>2. CASE Merge
  <2>1. \A r \in Master : ~InFlight(r)'
    BY <1>2 DEF Merge, Undisturbed, InFlight
  <2>2. origin' = origin + 1
    BY <1>2 DEF Merge
  <2>3. origin' > 1
    BY <1>1, <2>2
  <2> QED BY <2>1, <2>3 DEF LastMergeInv, Master
<1>3. ASSUME NEW x \in Master, QueueMaster(x) PROVE LastMergeInv'
  <2>1. /\ pending /\ pending' = FALSE /\ origin' = origin
        /\ \A q \in Master : ~InFlight(q)
        /\ head' = [head EXCEPT ![x] = MasterLog[origin]]
        /\ status' = [status EXCEPT ![x] = "queued"]
    BY <1>3 DEF QueueMaster, MayQueue
  <2>2. head'[x] = MasterLog[origin] /\ \A q \in Master \ {x} : ~InFlight(q)'
    BY <1>1, <2>1 DEF InFlight
  <2> QED BY <2>1, <2>2 DEF LastMergeInv, Master
<1>4. ASSUME NEW x \in Master, Finish(x) PROVE LastMergeInv'
  <2>1. /\ UNCHANGED <<origin, pending, head>>
        /\ status' = [status EXCEPT ![x] = "done"]
    BY <1>4 DEF Finish
  <2>2. \A q \in Master : InFlight(q)' => InFlight(q)
    BY <1>1, <2>1 DEF InFlight
  <2> QED BY <2>1, <2>2 DEF LastMergeInv, Master
<1>5. ASSUME UNCHANGED <<origin, pending>>,
             \A r \in Master : head'[r] = head[r] /\ (InFlight(r)' <=> InFlight(r))
      PROVE  LastMergeInv'
  BY <1>5 DEF LastMergeInv, Master
<1>6. ASSUME NEW s \in Slot, JobStep(s) PROVE LastMergeInv'
  <2>1. UNCHANGED runVars
    BY <1>6, JobRuns DEF Undisturbed
  <2> QED BY <2>1 DEF LastMergeInv, runVars, InFlight, Master
<1>7. CASE RunOnly
  BY <1>2, <1>3, <1>4, <1>5, <1>7, RunOnlyKinds DEF Undisturbed
<1> QED BY <1>6, <1>7, QuietKind

LEMMA LatestHeadStep ==
  ASSUME Undisturbed, Noticed, OneCommitEach, TypeOK, ActiveInv, HeadInv, LatestHeadInv,
         [Next]_vars
  PROVE  LatestHeadInv'
<1> DEFINE base == IF pending THEN origin - 1 ELSE origin
<1>1. /\ status \in [Run -> Status] /\ head \in [Run -> Commit \cup {None}] /\ Master \subseteq Run
      /\ origin \in 1..MasterLength /\ MasterLength \in Nat
  BY DetectionAssumption DEF TypeOK, Master
<1> SUFFICES ASSUME NEW r \in Master, status'[r] # "idle", \A q \in Master : ~Later(q, r)',
                    NEW c \in Config
             PROVE  Rendered(c, head'[r])
                      = Rendered(c, MasterLog[IF pending' THEN origin' - 1 ELSE origin'])
  BY DEF LatestHeadInv, Master, Rendered
<1>2. ASSUME UNCHANGED <<origin, pending>>,
             \A q \in Master : /\ head'[q] = head[q]
                               /\ status'[q] = "idle" <=> status[q] = "idle"
      PROVE  Rendered(c, head'[r])
               = Rendered(c, MasterLog[IF pending' THEN origin' - 1 ELSE origin'])
  <2>1. \A q \in Master : Later(q, r)' <=> Later(q, r)
    BY <1>2 DEF Later, Position
  <2> QED BY <1>2, <2>1 DEF LatestHeadInv
<1>3. CASE Merge
  <2>1. /\ ~pending /\ origin < MasterLength /\ origin' = origin + 1
        /\ head' = head /\ status' = status
        /\ pending' <=> Diff(MasterLog[origin], MasterLog[origin + 1]) \cap Triggering # {}
    BY <1>3 DEF Merge, Undisturbed
  <2>2. \A q \in Master : Later(q, r)' <=> Later(q, r)
    BY <2>1 DEF Later, Position
  <2>3. Rendered(c, head[r]) = Rendered(c, MasterLog[origin])
    BY <2>1, <2>2 DEF LatestHeadInv
  <2>4. CASE pending'
    BY <1>1, <2>1, <2>3, <2>4
  <2>5. CASE ~pending'
    <3>1. origin \in 1..(MasterLength - 1)
      BY <1>1, <2>1
    <3>2. Rendered(c, MasterLog[origin + 1]) = Rendered(c, MasterLog[origin])
      BY <2>1, <2>5, <3>1, UntriggeredSame
    <3> QED BY <2>1, <2>3, <2>5, <3>2
  <2> QED BY <2>4, <2>5
<1>4. ASSUME NEW x \in Master, QueueMaster(x)
      PROVE  Rendered(c, head'[r])
               = Rendered(c, MasterLog[IF pending' THEN origin' - 1 ELSE origin'])
  <2>1. /\ pending' = FALSE /\ origin' = origin
        /\ head' = [head EXCEPT ![x] = MasterLog[origin]]
        /\ status' = [status EXCEPT ![x] = "queued"]
    BY <1>4 DEF QueueMaster
  <2>2. CASE r = x
    BY <1>1, <2>1, <2>2
  <2>3. CASE r # x
    <3>1. status[r] # "idle"
      BY <1>1, <2>1, <2>3
    <3> QED BY <1>4, <3>1, LaterStep
  <2> QED BY <2>2, <2>3
<1>5. ASSUME NEW x \in Master, Finish(x)
      PROVE  Rendered(c, head'[r])
               = Rendered(c, MasterLog[IF pending' THEN origin' - 1 ELSE origin'])
  <2>1. UNCHANGED <<origin, pending, head>> /\ status' = [status EXCEPT ![x] = "done"]
        /\ status[x] # "idle"
    BY <1>5 DEF Finish
  <2>2. \A q \in Master : status'[q] = "idle" <=> status[q] = "idle"
    BY <1>1, <2>1
  <2> QED BY <1>2, <2>1, <2>2
<1>6. ASSUME NEW s \in Slot, JobStep(s)
      PROVE  Rendered(c, head'[r])
               = Rendered(c, MasterLog[IF pending' THEN origin' - 1 ELSE origin'])
  <2>1. UNCHANGED runVars
    BY <1>6, JobRuns DEF Undisturbed
  <2> QED BY <1>2, <2>1 DEF runVars
<1>7. CASE RunOnly
  BY <1>2, <1>3, <1>4, <1>5, <1>7, RunOnlyKinds DEF Undisturbed
<1> QED BY <1>6, <1>7, QuietKind

-----------------------------------------------------------------------------
(* Environments that are kept.                                             *)

\* Of environments some of which fail, one is the first.
LEMMA FirstOfEnvs ==
  ASSUME NEW S \in SUBSET Env, S # {}
  PROVE  \E m \in S : \A j \in S : m <= j
<1> DEFINE Below(i) == {j \in S : j < i}
           Belows == {Below(i) : i \in S}
<1>1. IsFiniteSet(S) /\ S \subseteq Nat
  <2>1. IsFiniteSet(Env) /\ Env \subseteq Nat
    BY FS_Interval, PipelineAssumption DEF Env
  <2> QED BY <2>1, FS_Subset
<1>2. Belows \subseteq FiniteSubsetsOf(S)
  BY <1>1, FS_Subset DEF FiniteSubsetsOf
<1>3. Belows # {}
  OBVIOUS
<1>4. PICK U \in Belows : \A V \in Belows : <<V, U>> \notin StrictSubsetOrdering(S)
  <2>1. IsWellFoundedOn(StrictSubsetOrdering(S), FiniteSubsetsOf(S))
    BY FS_StrictSubsetOrderingWellFounded
  <2> HIDE DEF Belows
  <2> QED BY <1>2, <1>3, <2>1, WFMin
<1>5. PICK m \in S : U = Below(m)
  OBVIOUS
<1>6. ASSUME NEW j \in S, j < m PROVE FALSE
  <2>1. (\A x \in S : x < j => x < m) /\ ~(j < j)
    BY <1>1, <1>6
  <2>2. Below(j) \subseteq Below(m) /\ j \in Below(m) /\ j \notin Below(j)
    BY <1>6, <2>1
  <2>3. <<Below(j), Below(m)>> \in StrictSubsetOrdering(S)
    BY <2>2 DEF StrictSubsetOrdering
  <2> QED BY <1>4, <1>5, <2>3
<1> QED BY <1>1, <1>6

\* A run of master ends when all its stages have succeeded.
LEMMA EndsInSuccess ==
  ASSUME ~Faults, BuiltInv, HarmlessInv, NEW r \in Master, Finish(r)
  PROVE  \A s \in Slot : s.run = r => job[s] \in Succeeded
<1> DEFINE Left == {e \in Env : \E s \in Slot : s.run = r /\ s.env = e /\ job[s] \notin Succeeded}
<1>1. \A s \in Slot : s.run = r /\ job[s] \notin Succeeded => ~Reached(r, s.env)
  <2> SUFFICES ASSUME NEW s \in Slot, s.run = r, job[s] \notin Succeeded
               PROVE  ~Reached(r, s.env)
    OBVIOUS
  <2>1. Settled(s) /\ r \in Run
    BY DEF Finish, Master
  <2>2. job[s] \notin Failed
    BY DEF HarmlessInv, Broken
  <2>3. status[r] # "cancelled"
    BY <2>1 DEF BuiltInv
  <2>4. s.env \in EnvOf(s.run)
    BY SlotFields DEF EnvOf, Master
  <2> QED BY <2>1, <2>2, <2>3, <2>4 DEF Settled
<1>2. SUFFICES ASSUME Left # {} PROVE FALSE
  BY SlotFields
<1>3. PICK m \in Left : \A e \in Left : m <= e
  <2> HIDE DEF Left
  <2>1. Left \in SUBSET Env
    BY DEF Left
  <2> QED BY <1>2, <2>1, FirstOfEnvs
<1>4. PICK s \in Slot : s.run = r /\ s.env = m /\ job[s] \notin Succeeded
  OBVIOUS
<1>5. PICK d \in 1..(m - 1) : job[[run |-> r, env |-> d, cfg |-> LastConfig]] \notin Succeeded
  BY <1>1, <1>4 DEF Reached
<1>6. d \in Env /\ d < m
  BY PipelineAssumption DEF Env
<1>7. [run |-> r, env |-> d, cfg |-> LastConfig] \in Slot
  BY <1>6, PipelineAssumption DEF Slot, Master
<1>8. d \in Left
  BY <1>5, <1>6, <1>7
<1> QED BY <1>3, <1>6, <1>8 DEF Env

\* The workspace of a kept environment follows master, one merge behind while a
\* run has yet to apply.
LEMMA CurrentStep ==
  ASSUME Undisturbed, Noticed, ReviewInv, ActiveInv, IdleInv, BatchInv, BuiltInv, ArtifactInv,
         LastMergeInv, NeededInv, HarmlessInv, CurrentInv, [Next]_vars
  PROVE  CurrentInv'
<1>1. /\ TypeOK /\ TeardownInv /\ MaxReruns = 0 /\ PullRequestsApart /\ ~Faults /\ NoReruns
      /\ status \in [Run -> Status] /\ Master \subseteq Run
      /\ origin \in 1..MasterLength /\ MasterLength \in Nat
  BY NothingRerun, DetectionAssumption DEF ReviewInv, IInv, TypeOK, Undisturbed, Master
<1> SUFFICES ASSUME NEW s \in Slot, s.run \in Master, ~TornDown(s)
             PROVE  tfstate'[WorkspaceName(s)].content = Rendered(s.cfg, MasterLog[Due(s)'])
  BY DEF CurrentInv, Master, TornDown, WorkspaceName, Rendered
<1>2. tfstate[WorkspaceName(s)].content = Rendered(s.cfg, MasterLog[Due(s)])
  BY DEF CurrentInv
<1>3. s.env \in EnvOf(s.run)
  BY SlotFields DEF EnvOf, Master
<1>4. Due(s)' = IF pending' \/ Outstanding(s)' THEN origin' - 1 ELSE origin'
  BY DEF Due
<1>5. Outstanding(s)' <=>
        \E t \in Slot : /\ WorkspaceName(t) = WorkspaceName(s)
                        /\ t.run \in Master /\ InFlight(t.run)' /\ job'[t] \notin Released
  BY DEF Outstanding, WorkspaceName, Master, Released
<1>6. CASE Merge
  <2>1. /\ ~pending /\ origin < MasterLength /\ origin' = origin + 1
        /\ status' = status /\ job' = job /\ tfstate' = tfstate
        /\ \A q \in Master : ~InFlight(q)
        /\ pending' <=> Diff(MasterLog[origin], MasterLog[origin + 1]) \cap Triggering # {}
    BY <1>6 DEF Merge, Undisturbed
  <2>2. ~Outstanding(s) /\ ~Outstanding(s)'
    BY <1>5, <2>1 DEF Outstanding, InFlight
  <2>3. tfstate'[WorkspaceName(s)].content = Rendered(s.cfg, MasterLog[origin])
    BY <1>2, <2>1, <2>2 DEF Due
  <2>4. CASE pending'
    BY <1>1, <1>4, <2>1, <2>3, <2>4
  <2>5. CASE ~pending'
    <3>1. origin \in 1..(MasterLength - 1) /\ s.cfg \in Config
      BY <1>1, <2>1, SlotFields
    <3>2. Rendered(s.cfg, MasterLog[origin + 1]) = Rendered(s.cfg, MasterLog[origin])
      BY <2>1, <2>5, <3>1, UntriggeredSame
    <3> QED BY <1>4, <2>1, <2>2, <2>3, <2>5, <3>2
  <2> QED BY <2>4, <2>5
<1>7. ASSUME NEW x \in Master, QueueMaster(x)
      PROVE  tfstate'[WorkspaceName(s)].content = Rendered(s.cfg, MasterLog[Due(s)'])
  <2>1. /\ pending /\ origin' = origin /\ job' = job /\ tfstate' = tfstate
        /\ status[x] = "idle" /\ status' = [status EXCEPT ![x] = "queued"]
    BY <1>7 DEF QueueMaster
  <2> DEFINE t == [s EXCEPT !.run = x]
  <2>2. t \in Slot /\ t.run = x /\ t.env = s.env /\ t.cfg = s.cfg
    BY <1>1, OtherRun
  <2> HIDE DEF t
  <2>3. WorkspaceName(t) = WorkspaceName(s)
    BY <2>2 DEF WorkspaceName, Master
  <2>4. job[t] = "waiting"
    BY <2>1, <2>2 DEF IdleInv
  <2>5. InFlight(t.run)'
    BY <1>1, <2>1, <2>2 DEF InFlight
  <2>6. Outstanding(s)'
    BY <1>5, <2>1, <2>2, <2>3, <2>4, <2>5 DEF Released
  <2> QED BY <1>2, <1>4, <2>1, <2>6 DEF Due
<1>8. ASSUME NEW x \in Master, Finish(x)
      PROVE  tfstate'[WorkspaceName(s)].content = Rendered(s.cfg, MasterLog[Due(s)'])
  <2>1. /\ UNCHANGED <<origin, pending, head, job, tfstate>>
        /\ status' = [status EXCEPT ![x] = "done"] /\ InFlight(x)
    BY <1>8 DEF Finish, InFlight
  <2>2. \A q \in Master : InFlight(q) => q = x
    BY <1>1, <2>1 DEF BatchInv
  <2>3. \A q \in Master : ~InFlight(q)'
    BY <1>1, <2>1, <2>2 DEF InFlight
  <2>4. head[x] = MasterLog[origin] /\ ~pending /\ origin > 1
    BY <2>1 DEF LastMergeInv
  <2>5. Due(s)' = origin
    BY <1>4, <1>5, <2>1, <2>3, <2>4
  <2>6. CASE ~Outstanding(s)
    BY <1>2, <2>1, <2>4, <2>5, <2>6 DEF Due
  <2>7. CASE Outstanding(s)
    <3>1. PICK t \in Slot : /\ WorkspaceName(t) = WorkspaceName(s)
                            /\ t.run \in Master /\ InFlight(t.run) /\ job[t] \notin Released
      BY <2>7 DEF Outstanding
    <3>2. t.run = x
      BY <2>2, <3>1
    <3>3. job[t] = "skipped"
      BY <1>1, <1>8, <3>1, <3>2, EndsInSuccess DEF Succeeded, Released
    <3>4. ~NeedsCicd(t.cfg, MasterLog[origin], origin)
      BY <2>4, <3>1, <3>2, <3>3 DEF NeededInv, BuildNeeded
    <3>5. t.cfg = s.cfg /\ t.cfg \in Config
      <4>1. t.env \in EnvOf(t.run)
        BY <3>1, SlotFields DEF EnvOf, Master
      <4> QED BY <1>3, <3>1, <4>1, SameWorkspace, SlotFields
    <3>6. Rendered(s.cfg, MasterLog[origin]) = Rendered(s.cfg, MasterLog[origin - 1])
      BY <1>1, <2>4, <3>4, <3>5, UndetectedSame
    <3> QED BY <1>2, <2>1, <2>5, <2>7, <3>6 DEF Due
  <2> QED BY <2>6, <2>7
<1>9. ASSUME RunOnly, UNCHANGED <<origin, pending>>,
             \A r \in Master : InFlight(r)' <=> InFlight(r)
      PROVE  tfstate'[WorkspaceName(s)].content = Rendered(s.cfg, MasterLog[Due(s)'])
  <2>1. job' = job /\ tfstate' = tfstate
    BY <1>9 DEF RunOnly
  <2>2. Outstanding(s)' <=> Outstanding(s)
    BY <1>5, <1>9, <2>1 DEF Outstanding
  <2> QED BY <1>2, <1>4, <1>9, <2>1, <2>2 DEF Due
<1>10. ASSUME NEW u \in Slot, JobStep(u)
       PROVE  tfstate'[WorkspaceName(s)].content = Rendered(s.cfg, MasterLog[Due(s)'])
  <2>1. /\ InFlight(u.run) /\ u.env \in EnvOf(u.run) /\ UNCHANGED runVars
        /\ \A t \in Slot \ {u} : job'[t] = job[t]
    BY <1>1, <1>10, JobRuns
  <2>2. /\ origin' = origin /\ pending' = pending
        /\ \A r \in Master : InFlight(r)' <=> InFlight(r)
    BY <2>1 DEF runVars, InFlight
  <2>3. CASE WorkspaceName(u) # WorkspaceName(s)
    <3>1. tfstate'[WorkspaceName(s)] = tfstate[WorkspaceName(s)]
      BY <1>10, <2>3, WorksThere, WorkspaceOfSlot DEF Elsewhere
    <3>2. Outstanding(s)' <=> Outstanding(s)
      BY <1>5, <2>1, <2>2, <2>3 DEF Outstanding
    <3> QED BY <1>2, <1>4, <2>2, <3>1, <3>2 DEF Due
  <2>4. CASE WorkspaceName(u) = WorkspaceName(s)
    <3>1. u.run \in Master /\ u.cfg = s.cfg /\ ~TornDown(u)
      <4>1. u.run \in Master
        BY <1>1, <2>1, <2>4, MasterApart, MasterWorkspace
      <4>2. u.env = s.env /\ u.cfg = s.cfg
        BY <1>3, <2>1, <2>4, SameWorkspace
      <4> QED BY <4>1, <4>2 DEF TornDown
    <3>2. \A t \in Slot :
            WorkspaceName(t) = WorkspaceName(s) /\ t.run \in Master /\ InFlight(t.run) => t = u
      <4> SUFFICES ASSUME NEW t \in Slot, WorkspaceName(t) = WorkspaceName(s),
                          t.run \in Master, InFlight(t.run)
                   PROVE  t = u
        OBVIOUS
      <4> QED BY <1>1, <2>1, <2>4, MasterAlone
    <3>3. (Outstanding(s) <=> job[u] \notin Released) /\ (Outstanding(s)' <=> job'[u] \notin Released)
      BY <1>5, <2>1, <2>2, <2>4, <3>1, <3>2 DEF Outstanding
    <3>4. head[u.run] = MasterLog[origin] /\ ~pending
      BY <2>1, <3>1 DEF LastMergeInv
    <3>5. Orderly(u)
      BY <1>10, <3>1, OrderlyStep
    <3>6. CASE /\ tfstate'[WorkspaceName(s)].content = tfstate[WorkspaceName(s)].content
               /\ job'[u] \in Released <=> job[u] \in Released
      BY <1>2, <1>4, <2>2, <3>3, <3>6 DEF Due
    <3>7. CASE /\ job'[u] = "applied"
               /\ tfstate'[WorkspaceName(s)].content = Rendered(u.cfg, head[u.run])
      BY <1>4, <2>2, <3>1, <3>3, <3>4, <3>7 DEF Released
    <3> QED BY <2>4, <3>1, <3>5, <3>6, <3>7 DEF Orderly
  <2> QED BY <2>3, <2>4
<1>11. CASE RunOnly
  BY <1>1, <1>6, <1>7, <1>8, <1>9, <1>11, RunOnlyKinds
<1> QED BY <1>1, <1>10, <1>11, QuietKind

LEMMA CurrentInit ==
  ASSUME Bootstrapped, Init
  PROVE  LastMergeInv /\ HarmlessInv /\ CurrentInv /\ LatestHeadInv
<1>1. /\ origin = 1 /\ pending = FALSE /\ SteadyState
      /\ \A r \in Run : status[r] = "idle"
      /\ \A s \in Slot : job[s] = "waiting"
  BY DEF Init
<1>2. \A r \in Run : ~InFlight(r)
  BY <1>1 DEF InFlight
<1>3. LastMergeInv /\ LatestHeadInv
  BY <1>1, <1>2 DEF LastMergeInv, LatestHeadInv, Master
<1>4. \A w \in Workspace : tfstate[w].lock = Free
  BY <1>1 DEF SteadyState, Absent
<1>5. HarmlessInv
  BY <1>1, <1>2, <1>4, WorkspaceOfSlot DEF HarmlessInv, Broken, Failed, Master
<1>6. ASSUME NEW s \in Slot, s.run \in Master, ~TornDown(s)
      PROVE  tfstate[WorkspaceName(s)].content = Rendered(s.cfg, MasterLog[Due(s)])
  <2> DEFINE w == WorkspaceName(s)
  <2>1. w = <<"env", s.env, Prefix[s.cfg]>> /\ w[3] = Prefix[s.cfg] /\ w \in Workspace
    BY <1>6, WorkspaceOfSlot DEF WorkspaceName, Master
  <2>2. s.env \in Env /\ s.cfg \in Config /\ s.env \notin Teardown[s.cfg]
    BY <1>6, SlotFields DEF TornDown
  <2> HIDE DEF w
  <2>3. (CHOOSE c \in Config : w[3] = Prefix[c]) = s.cfg
    BY <2>1, <2>2, PrefixAssumption
  <2>4. \E e \in Env, c \in Config : w = <<"env", e, Prefix[c]>> /\ e \notin Teardown[c]
    BY <2>1, <2>2
  <2>5. tfstate[w].content = Rendered(s.cfg, MasterLog[1])
    BY <1>1, <2>1, <2>3, <2>4 DEF SteadyState
  <2>6. Due(s) = 1
    BY <1>1, <1>2 DEF Due, Outstanding, Master
  <2> QED BY <2>5, <2>6 DEF w
<1> QED BY <1>3, <1>5, <1>6 DEF CurrentInv

\* What green promises of a pipeline that asks the change detection, whatever the
\* environments, the configurations and the runs, and whichever are torn down: on
\* a master without reverts that stands still while a run of it is in progress,
\* where no step fails of its own and where trigger and detection see what changes
\* the rendered stacks.  Each condition is one the code leaves to its users.
THEOREM QuietGreen ==
  ASSUME Undisturbed, Noticed, OneCommitEach, Bootstrapped
  PROVE  Spec => []GreenMeansDeployed
<1> DEFINE Inv == /\ ReviewInv /\ ActiveInv /\ IdleInv /\ BatchInv /\ BuiltInv /\ ArtifactInv
                  /\ HeadInv /\ LatestInv
                  /\ LastMergeInv /\ NeededInv /\ HarmlessInv /\ CurrentInv /\ LatestHeadInv
<1>1. Init => Inv
  <2>1. Init => ReviewInv /\ ActiveInv
    BY InitInv, InitRefined, ActiveInit DEF ReviewInv
  <2>2. Init => IdleInv /\ BuiltInv /\ ArtifactInv
    BY DEF Init, IdleInv, BuiltInv, ArtifactInv, Deploying, TearingDown
  <2>3. Init => BatchInv /\ HeadInv /\ LatestInv
    BY DEF Init, BatchInv, HeadInv, LatestInv, InFlight, Master
  <2> QED BY <2>1, <2>2, <2>3, NeededInit, CurrentInit
<1>2. Inv /\ [Next]_vars => Inv'
  <2> SUFFICES ASSUME Inv, [Next]_vars PROVE Inv'
    OBVIOUS
  <2>1. IInv /\ TypeOK
    BY DEF ReviewInv, IInv
  <2>2. ReviewInv'
    BY <2>1, NextInv, NextRefined DEF ReviewInv, Refined
  <2>3. ActiveInv' /\ IdleInv' /\ BatchInv'
    BY <2>1, ActiveStep, IdleStep, BatchStep
  <2>4. BuiltInv' /\ ArtifactInv'
    BY <2>1, BuiltStep, ArtifactStep DEF Undisturbed, Agreeing
  <2>5. HeadInv' /\ LatestInv'
    BY <2>1, HeadStep, LatestStep
  <2>6. LastMergeInv' /\ LatestHeadInv'
    BY <2>1, LastMergeStep, LatestHeadStep
  <2>7. NeededInv' /\ HarmlessInv' /\ CurrentInv'
    BY <2>1, NeededStep, HarmlessStep, CurrentStep DEF Undisturbed
  <2> QED BY <2>2, <2>3, <2>4, <2>5, <2>6, <2>7
<1>3. Inv => GreenMeansDeployed
  <2> SUFFICES ASSUME Inv, NEW r \in Master, status[r] = "done", \A q \in Master : reruns[q] = 0,
                      \A q \in Master : ~Later(q, r),
                      NEW s \in Slot, s.run = r, ~TornDown(s)
               PROVE  tfstate[WorkspaceName(s)].content = Rendered(s.cfg, head[r])
    BY DEF GreenMeansDeployed
  <2>1. tfstate[WorkspaceName(s)].content = Rendered(s.cfg, MasterLog[Due(s)])
    BY DEF CurrentInv
  <2>2. ~Outstanding(s)
    <3>1. ASSUME NEW q \in Master, InFlight(q) PROVE FALSE
      BY <3>1 DEF LatestInv, InFlight
    <3> QED BY <3>1 DEF Outstanding
  <2>3. Rendered(s.cfg, head[r]) = Rendered(s.cfg, MasterLog[IF pending THEN origin - 1 ELSE origin])
    BY SlotFields DEF LatestHeadInv
  <2> QED BY <2>1, <2>2, <2>3 DEF Due
<1> HIDE DEF Inv
<1> QED BY <1>1, <1>2, <1>3, PTL DEF Spec

-----------------------------------------------------------------------------
(* The order of the environments of a run.                                 *)

\* What has begun followed what comes before it.
ReachedInv == \A s \in Slot : job[s] # "waiting" => Reached(s.run, s.env)

LEMMA ReachedStep ==
  ASSUME TypeOK, ReachedInv, [Next]_vars
  PROVE  ReachedInv'
<1>1. CASE RunOnly
  BY <1>1 DEF RunOnly, ReachedInv, Reached, Succeeded
<1>2. ASSUME NEW s \in Slot, NEW p, Edge(s, p), job'[s] = p,
             \A t \in Slot \ {s} : job'[t] = job[t]
      PROVE  ReachedInv'
  <2> SUFFICES ASSUME NEW t \in Slot, job'[t] # "waiting", NEW d \in 1..(t.env - 1)
               PROVE  job'[[run |-> t.run, env |-> d, cfg |-> LastConfig]] \in Succeeded
    BY DEF ReachedInv, Reached, Succeeded
  <2> DEFINE u == [run |-> t.run, env |-> d, cfg |-> LastConfig]
  <2>1. u \in Slot
    <3>1. t.run \in Run /\ t.env \in 1..Environments /\ LastConfig \in Config
      BY SlotFields, PipelineAssumption DEF Env
    <3>2. d \in Env
      BY <3>1, PipelineAssumption DEF Env
    <3> QED BY <3>1, <3>2 DEF Slot
  <2>2. Reached(t.run, t.env)
    BY <1>2 DEF ReachedInv, Edge
  <2>3. job[u] \in Succeeded
    BY <2>2 DEF Reached
  <2> HIDE DEF u
  <2>4. job'[u] = job[u]
    BY <1>2, <2>1, <2>3 DEF Edge
  <2> QED BY <2>3, <2>4 DEF u
<1> QED BY <1>1, <1>2, JobKinds

\* Nothing goes to an environment that its run has not deployed to the one before
\* and tested there, whatever fails, is refused or cancelled: in a pipeline with
\* one configuration whose master stands still while a run of it is in progress
\* and where nothing is started again, the change detection of an environment
\* cannot pass it over and then send the run on to the next.
THEOREM QuietPromotion ==
  ASSUME QuietMerges, MaxReruns = 0, Config = {LastConfig}
  PROVE  Spec => []TestedBeforePromotion
<1> DEFINE Inv == TypeOK /\ ActiveInv /\ IdleInv /\ ReachedInv /\ NeededInv
<1>1. Init => ActiveInv /\ IdleInv /\ ReachedInv /\ NeededInv
  BY ActiveInit, NeededInit DEF Init, IdleInv, ReachedInv
<1>2. TypeOK /\ Inv /\ [Next]_vars =>
        ActiveInv' /\ IdleInv' /\ ReachedInv' /\ NeededInv'
  BY ActiveStep, IdleStep, ReachedStep, NeededStep
<1>3. Inv => TestedBeforePromotion
  <2> SUFFICES ASSUME Inv, NEW s \in Slot, job[s] \in {"applying", "applied"}, s.env > 1
               PROVE  job[[s EXCEPT !.env = s.env - 1]] = "deployed"
    BY DEF TestedBeforePromotion
  <2> DEFINE t == [run |-> s.run, env |-> s.env - 1, cfg |-> LastConfig]
  <2>1. s.cfg = LastConfig /\ s.env \in 1..Environments /\ s.run \in Run
    BY SlotFields DEF Env
  <2>2. s.env - 1 \in 1..(s.env - 1) /\ s.env - 1 \in Env
    BY <2>1, PipelineAssumption DEF Env
  <2>3. [s EXCEPT !.env = s.env - 1] = t
    BY <2>1 DEF Slot
  <2>4. t \in Slot /\ t.run = s.run /\ t.cfg = s.cfg
    BY <2>1, <2>2 DEF Slot
  <2>5. s.env \in EnvOf(s.run) /\ InFlight(s.run)
    BY DEF ActiveInv, InFlight, Resting, Failed, Succeeded
  <2>6. s.run \in Master
    BY <2>1, <2>5 DEF EnvOf, Master
  <2>7. job[t] \in Succeeded
    BY <2>2 DEF ReachedInv, Reached
  <2> HIDE DEF t
  <2>8. BuildNeeded(s)
    BY <2>5, <2>6 DEF NeededInv, Deploying
  <2>9. BuildNeeded(t)
    BY <2>4, <2>8 DEF BuildNeeded
  <2>10. job[t] # "skipped"
    BY <2>4, <2>5, <2>6, <2>9 DEF NeededInv
  <2> QED BY <2>3, <2>7, <2>10 DEF Succeeded
<1>4. Spec => []TypeOK
  BY TypeCorrect
<1> HIDE DEF Inv
<1>5. Inv <=> TypeOK /\ ActiveInv /\ IdleInv /\ ReachedInv /\ NeededInv
  BY DEF Inv
<1> QED BY <1>1, <1>2, <1>3, <1>4, <1>5, PTL DEF Spec
=============================================================================
