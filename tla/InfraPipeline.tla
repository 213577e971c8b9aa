--------------------------- MODULE InfraPipeline ---------------------------
(***************************************************************************)
(* The infrastructure pipeline of devops/infrastructure: runs of one       *)
(* pipeline, each going through the stages prepare-stage.yml lays out for  *)
(* every environment and configuration,                                    *)
(*                                                                         *)
(*   Prepare -> Environment_e -> Build c,e -> (approval) -> Deploy c,e     *)
(*                                                                         *)
(* over the Terraform states of TerraformState and a master branch that    *)
(* moves while they run.                                                   *)
(***************************************************************************)
EXTENDS ChangeDetection, FiniteSets

CONSTANTS
  Run,           \* the pipeline runs
  Triggering,    \* the paths whose change triggers the pipeline
  PullRequest,   \* those a pull request triggers
  PrHead,        \* PrHead[r]: the merge commit r checks out
  PrNumber,      \* PrNumber[r]: the number in refs/pull/N/merge
  Environments,  \* how many environments a run of master lists; 1 is 'dev'
  LastConfig,    \* the configuration listed last
  Prefix,        \* terraformWorkspacePrefix of a configuration
  PrIsolation,   \* PrIsolation[e]: enablePrIsolation of an environment
  Teardown,      \* Teardown[c]: c's environmentsToTeardownAfterRelease
  ForceRun,      \* whether FORCE_RUN casts to true
  Faults,        \* whether steps may fail on their own
  MaxReruns,     \* bound of the model: how often one run's jobs are started again
  QuietMerges,   \* TRUE: nobody merges while a run of master is in flight
  Bootstrapped,  \* whether the first commit of master is deployed already
  Free, Empty, Partial, None

Env == 1..Environments
Slot == [run: Run, env: Env, cfg: Config]

\* Fault: PR_ISOLATION is never true.
WorkspaceName_Shared(s) == <<"env", s.env, Prefix[s.cfg]>>

\* tasks/tf-ws-compute.yml
WorkspaceName(s) ==
  IF s.run \in PullRequest /\ PrIsolation[s.env]
  THEN <<"pr", PrNumber[s.run], Prefix[s.cfg]>>
  ELSE <<"env", s.env, Prefix[s.cfg]>>

Workspace == {WorkspaceName(s) : s \in Slot}

VARIABLES
  origin,    \* position of origin/master in MasterLog
  pending,   \* a push to master no run was queued for
  status,    \* status[r]: the run as a whole
  head,      \* head[r]: the commit r checks out
  reruns,    \* reruns[r]: how often failed jobs of r were started again
  job,       \* job[s]: how far r is with one configuration of one environment
  artifact,  \* artifact[r][w]: the plan in BUILD_ARTIFACT_NAME-w of run r
  tfstate, lineages

INSTANCE TerraformState WITH Holder <- Slot

runVars == <<origin, pending, status, head, reruns>>
vars == <<origin, pending, status, head, reruns, job, artifact, tfstate, lineages>>

ASSUME PipelineAssumption ==
  /\ Triggering \subseteq Path
  /\ PullRequest \subseteq Run
  /\ PrHead \in [PullRequest -> Commit]
  /\ Environments \in Nat \ {0}
  /\ LastConfig \in Config
  /\ PrIsolation \in [Env -> BOOLEAN]
  /\ Teardown \in [Config -> SUBSET Env]
  /\ ForceRun \in BOOLEAN /\ Faults \in BOOLEAN /\ QuietMerges \in BOOLEAN
  /\ Bootstrapped \in BOOLEAN
  /\ MaxReruns \in Nat
  /\ Free \notin Slot
  /\ None \notin Commit

\* Two configurations of one pipeline have different prefixes: the artifact of
\* one is not the artifact of the other.
ASSUME PrefixAssumption ==
  \A c, d \in Config : Prefix[c] = Prefix[d] => c = d

NoPlan == [head |-> None, lineage |-> 0, serial |-> 0, base |-> Empty, attempt |-> 0]

Status == {"idle", "queued", "active", "cancelled", "done"}

\* Stages of a Build, of a Deploy, and how they end.
Building == {"building", "selected", "planning"}
Deploying == {"deploying", "attached", "applying", "applied"}
TearingDown == {"teardown", "destroying", "emptied",
                "failedTeardown", "failedDestroying", "failedEmptied"}
Failed == {"buildFailed", "rejected", "deployFailed"}
Succeeded == {"skipped", "deployed"}
Phase == {"waiting", "unchanged", "built"}
           \cup Building \cup Deploying \cup TearingDown \cup Failed \cup Succeeded

\* The phases in which a command of the job holds the lock of its workspace.
Locking == {"planning", "applying", "destroying", "failedDestroying"}

\* Master's first commit was deployed by a forced run, and is still there in
\* every environment that is kept.
SteadyState ==
  /\ lineages = 1
  /\ tfstate = [w \in Workspace |->
       IF \E e \in Env, c \in Config : w = <<"env", e, Prefix[c]>> /\ e \notin Teardown[c]
       THEN [lineage |-> 1, serial |-> 1, lock |-> Free,
             content |-> Rendered(CHOOSE c \in Config : w[3] = Prefix[c], MasterLog[1])]
       ELSE Absent]

Init ==
  /\ origin = 1
  /\ pending = FALSE
  /\ status = [r \in Run |-> "idle"]
  /\ head = [r \in Run |-> None]
  /\ reruns = [r \in Run |-> 0]
  /\ job = [s \in Slot |-> "waiting"]
  /\ artifact = [r \in Run |-> [w \in Workspace |-> NoPlan]]
  /\ IF Bootstrapped THEN SteadyState ELSE BackendInit

-----------------------------------------------------------------------------
(* Helpers.                                                                *)

InFlight(r) == status[r] \in {"queued", "active", "cancelled"}
Master == Run \ PullRequest

\* Fault: trigger without batch.
MayQueue_NotBatched == TRUE

\* batch: true
MayQueue == \A q \in Master : ~InFlight(q)

\* Nobody restarts jobs of a run that is being cancelled.  MaxReruns bounds the
\* model; Azure Pipelines has no such bound.
MayRerun(r) == status[r] \in {"active", "done"} /\ reruns[r] < MaxReruns

\* Only a run of master lists environments after the first.
EnvOf(r) == IF r \in PullRequest THEN {1} ELSE Env

\* No step follows a cancellation, but those with the condition always().
At(s, phase) == job[s] = phase /\ status[s.run] = "active"

Moves(s, phase) == job' = [job EXCEPT ![s] = phase]

\* Fault: every environment depends on PrepareStage alone.
Reached_AtOnce(r, e) == TRUE

\* Environment_e has no dependsOn, hence follows the stage listed before it:
\* PrepareStage, or the Deploy stage of the last configuration before it.
Reached(r, e) ==
  \A d \in 1..(e - 1) :
    job[[run |-> r, env |-> d, cfg |-> LastConfig]] \in Succeeded

\* A slot that can still do something without a rerun.
Settled(s) ==
  \/ job[s] \in Failed \cup Succeeded
  \/ job[s] = "waiting" /\ ~Reached(s.run, s.env)
  \/ job[s] = "waiting" /\ s.env \notin EnvOf(s.run)
  \/ job[s] \in {"waiting", "unchanged", "built"} /\ status[s.run] = "cancelled"

\* The conditions of the ComputeWs jobs, after a change detection each.
BuildNeeded(s) == ForceRun \/ NeedsCicd(s.cfg, head[s.run], origin)

\* Fault: the Deploy stage has no condition.
DeployNeeded_Always(s) == TRUE

DeployNeeded(s) == ForceRun \/ NeedsCicd(s.cfg, head[s.run], origin)

PlanOf(s) == artifact[s.run][WorkspaceName(s)]

\* Terraform carries a saved plan out under the lock and in the very state the
\* plan was made in.
MayApply_Unlocked(w, plan) == Fresh(w, plan)
MayApply_AnyAge(w, plan) == CanLock(w)
MayApply(w, plan) == CanLock(w) /\ Fresh(w, plan)

\* Fault: apply without the plan file, on what master holds by now.
Applied_Unplanned(s) == Rendered(s.cfg, MasterLog[origin])

Applied(s) == Rendered(s.cfg, PlanOf(s).head)

TornDown(s) == s.env \in Teardown[s.cfg]

\* Fault: the environment is never found in the list.
AfterTests_Kept(s) == "deployed"

AfterTests(s) == IF TornDown(s) THEN "teardown" ELSE "deployed"

\* Fault: the exit status of a failed step in a Deploy job is lost.
AfterFailure_Unnoticed(s) ==
  IF job[s] \in Building THEN "buildFailed" ELSE AfterTests(s)

\* Where a step that fails leaves its job: tf-destroy.yml has the condition
\* always() and runs in a Deploy job whatever failed before it.
AfterFailure(s) ==
  CASE job[s] \in Building                       -> "buildFailed"
    [] job[s] \in Deploying /\ TornDown(s)       -> "failedTeardown"
    [] OTHER                                     -> "deployFailed"

-----------------------------------------------------------------------------
(* Branches, triggers and runs.                                            *)

\* A squash merge lands on master; paths: include, exclude decide whether it
\* asks for a run.
Merge ==
  /\ origin < MasterLength
  /\ QuietMerges => ~pending /\ \A r \in Master : ~InFlight(r)
  /\ origin' = origin + 1
  /\ pending' = (pending \/ Diff(MasterLog[origin], MasterLog[origin + 1]) \cap Triggering # {})
  /\ UNCHANGED <<status, head, reruns, job, artifact, tfstate, lineages>>

\* trigger: batch: true.  One run of master at a time; the next takes every
\* merge since.
QueueMaster(r) ==
  /\ r \in Master /\ status[r] = "idle"
  /\ pending /\ MayQueue
  /\ pending' = FALSE
  /\ status' = [status EXCEPT ![r] = "queued"]
  /\ head' = [head EXCEPT ![r] = MasterLog[origin]]
  /\ UNCHANGED <<origin, reruns, job, artifact, tfstate, lineages>>

\* pr: branches '*'.
QueuePullRequest(r) ==
  /\ r \in PullRequest /\ status[r] = "idle"
  /\ status' = [status EXCEPT ![r] = "queued"]
  /\ head' = [head EXCEPT ![r] = PrHead[r]]
  /\ UNCHANGED <<origin, pending, reruns, job, artifact, tfstate, lineages>>

\* PrepareStage: lint and publish the sources, or fail and end the run.
Prepare(r) ==
  /\ status[r] = "queued"
  /\ \E ok \in {TRUE, ~Faults} :
       status' = [status EXCEPT ![r] = IF ok THEN "active" ELSE "done"]
  /\ UNCHANGED <<origin, pending, head, reruns, job, artifact, tfstate, lineages>>

\* pr: autoCancel, or somebody cancels the run: no stage starts any more.
Cancel(r) ==
  /\ Faults
  /\ status[r] = "active"
  /\ status' = [status EXCEPT ![r] = "cancelled"]
  /\ UNCHANGED <<origin, pending, head, reruns, job, artifact, tfstate, lineages>>

Finish(r) ==
  /\ status[r] \in {"active", "cancelled"}
  /\ \A s \in Slot : s.run = r => Settled(s)
  /\ status' = [status EXCEPT ![r] = "done"]
  /\ UNCHANGED <<origin, pending, head, reruns, job, artifact, tfstate, lineages>>

\* A failed stage is started again: a Build stage as a whole, with a change
\* detection of its own, or its failed job alone, with the outcome of the
\* detection before; of a Deploy stage the failed job.
Rerun(s) ==
  /\ MayRerun(s.run)
  /\ reruns' = [reruns EXCEPT ![s.run] = @ + 1]
  /\ status' = [status EXCEPT ![s.run] = "active"]
  /\ \/ job[s] = "buildFailed" /\ \E p \in {"waiting", "building"} : Moves(s, p)
     \/ job[s] = "deployFailed" /\ Moves(s, "deploying")
  /\ UNCHANGED <<origin, pending, head, artifact, tfstate, lineages>>

-----------------------------------------------------------------------------
(* The Build stage.                                                        *)

\* TemplateChangeDetection_c_Build, then the condition of ComputeWs.
StartBuild(s) ==
  /\ At(s, "waiting")
  /\ s.env \in EnvOf(s.run) /\ Reached(s.run, s.env)
  /\ Moves(s, IF BuildNeeded(s) THEN "building" ELSE "unchanged")
  /\ UNCHANGED <<runVars, artifact, tfstate, lineages>>

\* tf-ws-create.yml
SelectForBuild(s) ==
  /\ At(s, "building")
  /\ NewOrSelect(WorkspaceName(s))
  /\ Moves(s, "selected")
  /\ UNCHANGED <<runVars, artifact>>

\* Fault: plan waits for the lock without a timeout.
StartPlan_Waits(s) ==
  /\ At(s, "selected")
  /\ CanLock(WorkspaceName(s))
  /\ Open(WorkspaceName(s), s)
  /\ Moves(s, "planning")
  /\ UNCHANGED <<runVars, artifact>>

\* tests-unit.yml passed; terraform plan takes the lock, or fails on it.
StartPlan(s) ==
  /\ At(s, "selected")
  /\ IF CanLock(WorkspaceName(s))
     THEN Open(WorkspaceName(s), s) /\ Moves(s, "planning")
     ELSE Moves(s, "buildFailed") /\ UNCHANGED <<tfstate, lineages>>
  /\ UNCHANGED <<runVars, artifact>>

\* terraform plan -out, CopyFiles and PublishBuildArtifacts.  base and attempt,
\* how often jobs of the run had been started again, are there for the properties.
FinishPlan(s) ==
  LET w == WorkspaceName(s) IN
  /\ At(s, "planning")
  /\ artifact' = [artifact EXCEPT ![s.run][w] =
       [head |-> head[s.run], lineage |-> tfstate[w].lineage,
        serial |-> tfstate[w].serial, base |-> tfstate[w].content,
        attempt |-> reruns[s.run]]]
  /\ Release(w, Free)
  /\ Moves(s, "built")
  /\ UNCHANGED runVars

-----------------------------------------------------------------------------
(* The Deploy stage.                                                       *)

\* The environment's approval, TemplateChangeDetection_c_Deploy and the
\* condition of ComputeWs: detection is done anew.
StartDeploy(s) ==
  /\ job[s] \in {"built", "unchanged"}
  /\ status[s.run] = "active"
  /\ Moves(s, IF DeployNeeded(s) THEN "deploying" ELSE "skipped")
  /\ UNCHANGED <<runVars, artifact, tfstate, lineages>>

\* The approval is refused or times out.
Reject(s) ==
  /\ Faults
  /\ job[s] \in {"built", "unchanged"}
  /\ status[s.run] = "active"
  /\ Moves(s, "rejected")
  /\ UNCHANGED <<runVars, artifact, tfstate, lineages>>

\* DownloadBuildArtifacts, which fails without an artifact of that name, and
\* tf-ws-create.yml.
PullArtifact(s) ==
  /\ At(s, "deploying")
  /\ IF PlanOf(s) # NoPlan
     THEN NewOrSelect(WorkspaceName(s)) /\ Moves(s, "attached")
     ELSE Moves(s, "deployFailed") /\ UNCHANGED <<tfstate, lineages>>
  /\ UNCHANGED <<runVars, artifact>>

\* terraform apply WS_plan.out takes the lock, then looks at the plan's age.
StartApply(s) ==
  LET w == WorkspaceName(s) IN
  /\ At(s, "attached")
  /\ MayApply(w, PlanOf(s))
  /\ Open(w, s)
  /\ Moves(s, "applying")
  /\ UNCHANGED <<runVars, artifact>>

RefuseApply(s) ==
  LET w == WorkspaceName(s) IN
  /\ At(s, "attached")
  /\ ~MayApply(w, PlanOf(s))
  /\ NewOrSelect(w)
  /\ Moves(s, AfterFailure(s))
  /\ UNCHANGED <<runVars, artifact>>

FinishApply(s) ==
  /\ job[s] = "applying"
  /\ Persist(WorkspaceName(s), Applied(s), Free)
  /\ Moves(s, "applied")
  /\ UNCHANGED <<runVars, artifact>>

\* Some resources were made, one was refused: the state says so.
BreakApply(s) ==
  /\ Faults
  /\ job[s] = "applying"
  /\ Persist(WorkspaceName(s), Partial, Free)
  /\ Moves(s, AfterFailure(s))
  /\ UNCHANGED <<runVars, artifact>>

\* tests-int.yml passed, or was skipped by SKIP_TESTS.
PassTests(s) ==
  /\ At(s, "applied")
  /\ Moves(s, AfterTests(s))
  /\ UNCHANGED <<runVars, artifact, tfstate, lineages>>

-----------------------------------------------------------------------------
(* tf-destroy.yml, in a job that succeeded so far or not.                  *)

StartDestroy(s) ==
  LET w == WorkspaceName(s) IN
  /\ job[s] \in {"teardown", "failedTeardown"}
  /\ IF CanLock(w)
     THEN /\ Open(w, s)
          /\ Moves(s, IF job[s] = "teardown" THEN "destroying" ELSE "failedDestroying")
     ELSE Moves(s, "deployFailed") /\ UNCHANGED <<tfstate, lineages>>
  /\ UNCHANGED <<runVars, artifact>>

FinishDestroy(s) ==
  /\ job[s] \in {"destroying", "failedDestroying"}
  /\ Persist(WorkspaceName(s), Empty, Free)
  /\ Moves(s, IF job[s] = "destroying" THEN "emptied" ELSE "failedEmptied")
  /\ UNCHANGED <<runVars, artifact>>

\* Fault: terraform workspace delete -force.
DeleteWorkspace_Force(s) ==
  LET w == WorkspaceName(s) IN
  /\ job[s] \in {"emptied", "failedEmptied"}
  /\ IF Exists(w) THEN Delete(w) ELSE UNCHANGED <<tfstate, lineages>>
  /\ Moves(s, IF Exists(w) /\ job[s] = "emptied" THEN "deployed" ELSE "deployFailed")
  /\ UNCHANGED <<runVars, artifact>>

\* terraform workspace select default; terraform workspace delete WS
DeleteWorkspace(s) ==
  LET w == WorkspaceName(s) IN
  /\ job[s] \in {"emptied", "failedEmptied"}
  /\ IF CanDelete(w) THEN Delete(w) ELSE UNCHANGED <<tfstate, lineages>>
  /\ Moves(s, IF CanDelete(w) /\ job[s] = "emptied" THEN "deployed" ELSE "deployFailed")
  /\ UNCHANGED <<runVars, artifact>>

-----------------------------------------------------------------------------
(* Failures of single steps.                                               *)

\* A step outside Terraform's locked section fails, or is not run any more: a
\* test, a download, the backend.  Without the artifact tf-destroy.yml has no
\* directory to work in.
FailStep(s) ==
  /\ Faults
  /\ job[s] \in (Building \cup Deploying \cup TearingDown) \ Locking
  /\ \/ Moves(s, AfterFailure(s))
     \/ job[s] = "deploying" /\ Moves(s, "deployFailed")
  /\ UNCHANGED <<runVars, artifact, tfstate, lineages>>

\* deploymentTimeoutInMinutes or a cancellation ends a job inside a Terraform
\* command.  Terraform winds up (graceful) or is killed with the lock in place;
\* apply and destroy may have changed resources.
Interrupt(s) ==
  LET w == WorkspaceName(s) IN
  /\ Faults
  /\ job[s] \in Locking
  /\ \E l \in {Free, s} :
       \/ Release(w, l)
       \/ job[s] # "planning" /\ Persist(w, Partial, l)
  /\ Moves(s, AfterFailure(s))
  /\ UNCHANGED <<runVars, artifact>>

-----------------------------------------------------------------------------
JobStep(s) ==
  \/ StartBuild(s) \/ SelectForBuild(s) \/ StartPlan(s) \/ FinishPlan(s)
  \/ StartDeploy(s) \/ PullArtifact(s)
  \/ StartApply(s) \/ RefuseApply(s) \/ FinishApply(s) \/ PassTests(s)
  \/ StartDestroy(s) \/ FinishDestroy(s) \/ DeleteWorkspace(s)

JobFault(s) == Reject(s) \/ BreakApply(s) \/ FailStep(s) \/ Interrupt(s)

Next ==
  \/ Merge
  \/ \E r \in Run :
       QueueMaster(r) \/ QueuePullRequest(r) \/ Prepare(r) \/ Cancel(r) \/ Finish(r)
  \/ \E s \in Slot : JobStep(s) \/ JobFault(s) \/ Rerun(s)

Spec == Init /\ [][Next]_vars

\* Azure DevOps runs what it queued: agents take jobs, jobs take steps, an
\* approval is given, refused or times out, and a cancelled job is ended.
Fairness ==
  /\ \A r \in Run : WF_vars(Prepare(r)) /\ WF_vars(Finish(r))
  /\ \A s \in Slot :
       /\ WF_vars(JobStep(s) \/ Reject(s))
       /\ WF_vars(status[s.run] = "cancelled" /\ (FailStep(s) \/ Interrupt(s)))

FairSpec == Spec /\ Fairness

-----------------------------------------------------------------------------
(* Properties.                                                             *)

Content(c) == {Empty, Partial} \cup {Rendered(c, k) : k \in Commit}
AnyContent == UNION {Content(c) : c \in Config}
Plan == [head : Commit \cup {None}, lineage : Nat, serial : Nat, base : AnyContent,
         attempt : Nat]

\* Every variable stays in its range; a lock names a job or nobody, and a
\* workspace that does not exist has neither content nor lock, so that no
\* command ever writes to a workspace that was deleted under it.
TypeOK ==
  /\ origin \in 1..MasterLength
  /\ pending \in BOOLEAN
  /\ status \in [Run -> Status]
  /\ head \in [Run -> Commit \cup {None}]
  /\ reruns \in [Run -> 0..MaxReruns]
  /\ job \in [Slot -> Phase]
  /\ artifact \in [Run -> [Workspace -> Plan]]
  /\ tfstate \in [Workspace -> [lineage : Nat, serial : Nat, content : AnyContent,
                                lock : Slot \cup {Free}]]
  /\ \A w \in Workspace : tfstate[w].lineage # 0 \/ tfstate[w] = Absent
  /\ lineages \in Nat

\* A Terraform command works on a workspace only while its own job holds the
\* lock, so no two jobs of any runs plan, apply or destroy there at once.
LockDiscipline ==
  \A s \in Slot : job[s] \in Locking => tfstate[WorkspaceName(s)].lock = s

\* What an apply does was shown to the approver: from its first to its last
\* moment the workspace holds what the plan of this run was computed from, and
\* the plan is for the commit of this run.  (tf-plan.yml saves the plan in the
\* Build stage, tf-apply.yml applies that file after the approval.)
AppliesReviewedPlan ==
  \A s \in Slot : job[s] = "applying" =>
    /\ PlanOf(s).base = tfstate[WorkspaceName(s)].content
    /\ PlanOf(s).head = head[s.run]

\* tests-int.yml looks at what its own run has just deployed, not at what
\* another run made of the workspace since.
TestsSeeOwnDeployment ==
  \A s \in Slot : At(s, "applied") =>
    tfstate[WorkspaceName(s)].content = Rendered(s.cfg, head[s.run])

\* A Deploy stage of master that goes ahead has the artifact of its Build
\* stage: the two change detections of one run agree.
DeployFindsArtifact ==
  \A s \in Slot : job[s] = "deploying" /\ s.run \in Master => PlanOf(s) # NoPlan

\* Nothing is applied to an environment before the same run has deployed it to
\* the environment before and tested it there.
TestedBeforePromotion ==
  \A s \in Slot : job[s] \in {"applying", "applied"} /\ s.env > 1 =>
    job[[s EXCEPT !.env = s.env - 1]] = "deployed"

Position(k) == CHOOSE i \in 1..MasterLength : MasterLog[i] = k
Later(q, r) == head[q] # None /\ Position(head[q]) > Position(head[r])

SharedWithPullRequest(s) ==
  \E t \in Slot : t.run \in PullRequest /\ t.env \in EnvOf(t.run) /\ WorkspaceName(t) = WorkspaceName(s)

\* When the latest run of master ends without a failure and none was started
\* again, every environment that is kept and not shared with pull requests
\* holds what that commit says, also where the run decided that a configuration
\* needs no deployment.
GreenMeansDeployed ==
  \A r \in Master :
    /\ status[r] = "done" /\ \A q \in Master : reruns[q] = 0
    /\ \A s \in Slot : s.run = r => job[s] \in Succeeded
    /\ \A q \in Master : ~Later(q, r)
    => \A s \in Slot : s.run = r /\ ~TornDown(s) /\ ~SharedWithPullRequest(s) =>
         tfstate[WorkspaceName(s)].content = Rendered(s.cfg, head[r])

\* An older run of master never replaces what a later one has deployed, on a
\* master without reverts and where no pull request deploys, as long as its plan
\* was made before any of its jobs was started again: then the later run's own
\* apply made that plan stale, or it changes nothing, however often its Deploy
\* stage is started again.  A Build stage that is started again, or comes after
\* one that was, plans the old commit afresh, and nothing stops its apply.
NoRollback ==
  [][\A s \in Slot :
       job[s] = "applying" /\ job'[s] = "applied"
       /\ s.run \in Master /\ ~SharedWithPullRequest(s)
       /\ PlanOf(s).attempt = 0 =>
         \A q \in Master : Later(q, s.run) /\ job[[s EXCEPT !.run = q]] = "deployed" =>
           tfstate'[WorkspaceName(s)].content = tfstate[WorkspaceName(s)].content]_vars

\* Once every run is over nothing is left in an environment that is torn down
\* after each release.
NothingLeftBehind ==
  (\A r \in Run : status[r] \in {"idle", "done"}) =>
    \A s \in Slot : TornDown(s) /\ s.env \in EnvOf(s.run) =>
      tfstate[WorkspaceName(s)].content = Empty

\* What is left in an environment that is torn down after each release shows: as
\* a job that still has its teardown ahead, or as a Deploy that failed.  No
\* failure, interruption, cancellation or other run hides it behind a success.
LeftoversShow ==
  \A s \in Slot :
    TornDown(s) /\ s.env \in EnvOf(s.run) /\ tfstate[WorkspaceName(s)].content # Empty =>
      \E t \in Slot : /\ WorkspaceName(t) = WorkspaceName(s)
                     /\ job[t] \in Deploying \cup TearingDown \cup {"deployFailed"}

\* Every run comes to an end, whatever locks were left behind: a job that finds
\* its workspace locked fails instead of waiting.
RunsEnd == \A r \in Run : (status[r] \in {"queued", "active", "cancelled"}) ~> (status[r] = "done")
=============================================================================
