# TLA+ models of osdu-infrastructure

This directory holds TLA+ specifications of the moving parts of
`osdu-infrastructure`, the TLC configurations that check them on small
instances, and proofs that TLAPS checks for all instances. The repository is
mostly declarative (Terraform templates and modules, Helm charts); what has
behaviour of its own are the Azure DevOps pipelines that plan, approve and apply
the Terraform code, the GitOps deployment of the services, the scripts that
Terraform runs as provisioners, the Terraform test harness, the bootstrap script
and the workflows that publish client libraries. Paths below are relative to
`src/archive/` unless they start with `src/`.

## 1. Inventory

### Infrastructure pipeline (`devops/infrastructure/`) — modelled

* *State.* `origin/master`; the runs with their commit and status; per run,
  environment and configuration a Build and a Deploy stage; the artifact
  `BUILD_ARTIFACT_NAME-<workspace>` that carries a saved plan from one to the
  other; the remote Terraform states, one per workspace, with lineage, serial and
  lock.
* *Operations.* Trigger (`batch: true` on master, `pr` on everything), prepare
  (lint, publish), and per stage: change detection, workspace computation,
  `workspace new || select`, unit tests, `plan`, publish; approval; `apply` of the
  saved plan, integration tests, optional `destroy` and `workspace delete`. A
  failed Build or Deploy stage can be started again.
* *Interactions.* Runs meet in the Terraform state (its lock and its serial), in
  the environments, and in `origin/master`, which each change detection reads
  anew. Artifacts belong to one run.
* *Hard.* Approvals that take days between plan and apply; two detections per
  stage pair, over a moving master; a job that is killed inside a Terraform
  command; reruns after newer runs; pull requests in the workspace of master.
* *Correct when* only reviewed plans are applied, commands on one workspace
  exclude each other, a green run has deployed its commit, nothing gets to an
  environment without having been tested in the one before, old runs roll
  nothing back, temporary environments are emptied, and runs end.

### GitOps service deployment (`devops/service-pipelines/`) — modelled

* *State.* One branch per environment in the manifest repository; the clones on
  the agents; what Flux has applied.
* *Operations.* `aks-deployment-steps.yml` renders a chart; `gitops.yml` clones,
  copies, commits, pulls (a merge) and pushes; `aks-deploy-stages.yml` goes on to
  the next environment; Flux (`helm_flux.tf`) polls and applies.
* *Interactions.* The builds of all services push to the same branches without a
  lock; only git's fast-forward rule and its merges stand between them.
* *Hard.* A push between another build's pull and push; textual merges of two
  builds of one service; stages that fail half-way.
* *Correct when* no build's manifests are lost, what Flux applies of a service
  comes from one build, and the newest build wins where builds are ordered.
* `create-pr.yml` and `resolve-branch-names.yml` are included by no pipeline and
  are left out.

### Elasticsearch provisioning (`infra/modules/providers/elastic/`) — modelled

* *State.* The deployments at the service; output files on hosts; three
  `null_resource`s and their triggers in the Terraform state.
* *Operations.* `ese-deploy-create.sh` (POST, wait for health, look up the
  endpoint), capture of its output, apply again, destroy.
* *Hard.* Everything between the POST and the stored state can fail, on hosts
  that are replaced; the script runs its functions in command substitutions,
  where `set -e` is off.
* *Correct when* the state captures a deployment that its own scripts created
  and saw healthy, keeps it, and an apply always ends.

### Terraform test harness (`test-harness/infratests/`) — modelled

* *State.* The Terraform directories with the workspace selected in each (a file
  in `.terraform`); the backends with their workspaces, some of which hold
  resources; the test processes, their plan files and their verdicts.
* *Operations.* `RunUnitTests`: init, select or create a workspace of its own,
  plan, check the plan, and, deferred, select what was selected before and delete
  its own. `RunIntegrationTests`: init, `terraform output`, check the outputs. The
  checks match nested maps and lists of what is expected against what there is
  (`validate.go`).
* *Interactions.* `go test` runs packages side by side; they share directories and
  backends with one another, with later runs and with people.
* *Hard.* Commands that fail before or after the clean-up is registered, tests
  that are killed in the middle, workspaces left behind, deployed or selected.
* *Correct when* a verdict says what the plan contains and nothing else, a plan
  that passes was made over an empty workspace, a test that passed leaves the
  directory as it was, cleaning up never fails for a reason of its own, and an
  integration test reads the workspace that was selected when its run was started,
  or the default one where the run itself has removed the selection.

### Mage task runners (four magefiles) — modelled

* *State.* Which targets of a process have run and how they ended; the source
  files a formatter would change.
* *Operations.* Targets with their dependencies (`mg.Deps`), lint, clean, tests of
  the harness, unit and integration tests of modules and templates.
* *Hard.* The order follows from `mg.Deps` calls spread over the targets; the
  commands that check the format rewrite the files; `Clean` deletes the selection
  on which integration tests rely, in the runners that have it.
* *Correct when* integration tests run after the unit tests of their template, no
  test runs on sources the run has rewritten, and every run ends.

### Azure assertions of the tests (`test-harness/terratest-extensions/`, the integration tests) — partly modelled

* *State.* Collections listed page by page; role assignments; secrets with
  versions; the entries of a Redis cache. All of it belongs to Azure, and others
  change it meanwhile.
* *Operations.* List a collection and compare; compare role assignments as maps
  from scopes to roles; read secrets and compare; set, get and remove an entry.
* *Hard.* Others create and delete items between two pages. The topics and the
  subscriptions of a topic are listed with `$skip` and `$top`, so that a page begins
  behind a number of items, not behind an item.
* *Correct when* a listing has all that was there, nothing that was not and nothing
  twice, as far as its links allow; a verdict follows from what was there, nothing that others do in a vault
  or a cache makes a test fail, and every assertion ends.
* The functions that read one resource with one call (`acr.go`, `webapp.go`,
  `appgateway.go`, `cosmos.go`, `network.go`, `cli.go`, the access policies of a
  vault) have no order and no state, and are left out.

### Planned (see section 2)

| Component | Files | State and operations | Hard; correct when |
|---|---|---|---|
| Bootstrap | `scripts/install.sh` | resource group, vault, storage, service principals, user, keys; "create unless it exists", no `set -e` | interrupted and run again: every credential that exists is in the vault |
| Provisioner scripts | `flux/deploy_flux.sh`, `kubediff/deploy_kubediff.sh`, `keyvault-flexvol/deploy.sh` | namespaces, secrets, workloads in a cluster | a script that failed half-way is completed by the next apply |
| App service deployment | `build-stage.yml`, `deploy-stages.yml`, `tasks/app-service-*.yml`, `tasks/service-*.yml` | package and start command of an app service | the tests of a run see the run's own package |
| Client libraries | `src/.github/workflows/*` | five blobs, overwritten in turn; the Maven publication | blobs of one commit |
| Terraform stacks | `infra/templates/**`, `infra/modules/**` | resource graphs; remote state of the central stack read by the others | order of creation and destruction, partial applies, stale outputs |

### Not modelled

Helm charts, `src/openapi.yaml`, `src/java`, `src/configs` and `docs/osdu` are
data; the attributes of Terraform resources are the Azure provider's business.
`test-harness/init.sh` and the `local-run*.sh` beside it start the tests in
containers on a developer's machine and share no state with anything. An agent
that keeps its working directory fails at the `mkdir` of
`tasks/aks-deployment-steps.yml:47`, always and at once, so agents are fresh.

## 2. Plan

1. `ChangeDetection`, `TerraformState`, `InfraPipeline`, with the abstract
   `ReviewedDeployment` and the refinement `InfraReview`: done; proved in
   `InfraPipelineProofs`, `InfraReviewProofs`, `InfraOutcomeProofs` and
   `InfraQuietProofs`.
2. `GitOps`: done; proved in `GitOpsProofs`.
3. `ElasticProvision`: done; proved in `ElasticProvisionProofs`.
4. `PlanValidation`, `TestHarness`, `Mage`, composed in `TestRun`: done; proved in
   `TestRunProofs`.
5. `AzureQueries`: done; proved in `AzureQueriesProofs`.
6. `InstallCommon`: `install.sh` as a sequence of check-and-create steps over a
   subscription, stopped anywhere and run again.
7. `DeployScripts`: the three scripts over one abstract cluster; what each leaves
   behind, and whether the retry of a tainted resource converges.
8. `SdkPublish` and `AppServiceDeploy`: runs without any lock over shared blobs
   and a shared app service.
9. `StackGraph`: the resource graphs of the central, service and partition stacks
   with applies that stop anywhere, composed with remote state.

Worth proving beyond section 5: `GreenMeansDeployed` on a quiet master whose runs
fail and are then repaired, once a condition is found that says what a repair must
touch. Runs stay few: one per question, with the properties that share an
instance in one run.

## 3. Modules and the code

| Module | Models |
|---|---|
| `ChangeDetection` | `tasks/detect-cicd.yml`: the comparison branch, the change set with its white list, the four path filters. Commits are trees; a merge, a revert or an empty commit is a tree like any other. |
| `TerraformState` | the azurerm backend as the tasks use it (external): lineage, serial, content, lock. |
| `InfraPipeline` | the runs: `prepare-stage.yml`, `build-stage.yml`, `deploy-stage.yml` and the tasks they include. |
| `ReviewedDeployment` | abstract: a workspace changes only as a proposal for its present content says, or by being torn down. |
| `InfraReview` | the refinement mapping from `InfraPipeline` to it. |
| `InfraPipelineProofs` | the invariants of `InfraPipeline`: types, locks, reviewed plans; promotion and artifacts, run by run. |
| `InfraReviewProofs` | the refinement, step by step. |
| `InfraOutcomeProofs` | what runs leave in the environments: deployed, tested, torn down, never rolled back. |
| `InfraQuietProofs` | what change detection is worth on a master that stands still during its runs. |
| `GitOps` | `aks-deploy-stages.yml`, `tasks/aks-deployment-steps.yml`, `tasks/gitops.yml`, `helm_flux.tf`. |
| `GitOpsProofs` | theorems about `GitOps`. |
| `ElasticProvision` | both Elasticsearch modules, with their `local-exec-capture-stdout`. |
| `ElasticProvisionProofs` | theorems about `ElasticProvision`. |
| `PlanValidation` | `validate.go`, and the checks in `unit.go` and `integration.go` that call it. |
| `TestHarness` | `RunUnitTests` and `RunIntegrationTests` as processes over directories and backends. |
| `Mage` | the targets of the four magefiles and `mg.Deps`. |
| `TestRun` | the composition: a task runner, the test processes it starts, `Clean`, and people between two runs. |
| `TestRunProofs` | theorems about `TestRun`. |
| `AzureQueries` | `terratest-extensions/modules/azure` and the assertions of the integration tests that call it. |
| `AzureQueriesProofs` | theorems about `AzureQueries`. |
| `MC*` | the instances for TLC. |

### InfraPipeline

A *slot* is one configuration in one environment of one run; `job[s]` is how far
its stages are, `artifact[r][w]` the saved plan, `tfstate[w]` the remote state.
One action stands for one step of the YAML: `StartBuild` (change detection and
the condition of `ComputeWs`), `SelectForBuild` (`tf-ws-create.yml`),
`StartPlan`/`FinishPlan` (`tf-plan.yml`, which holds the lock in between),
`StartDeploy` (approval and the second detection), `PullArtifact`,
`StartApply`/`RefuseApply`/`FinishApply`/`BreakApply` (`tf-apply.yml`),
`PassTests` (`tests-int.yml`), `StartDestroy`/`FinishDestroy`/`DeleteWorkspace`
(`tf-destroy.yml`). `FailStep`, `Interrupt`, `Cancel`, `Reject` and `Rerun` are
what Azure DevOps and the people in front of it may do. `Merge` moves master at
any time.

`Rerun` starts a failed Build again, as a whole stage (with a change detection of
its own) or as the failed job alone (with the outcome of the detection before), and
the failed job of a Deploy. A plan carries two fields for the properties only:
`base`, the content it was made for, and `attempt`, how often jobs of its run had
been started again by then. Not started again are a `PrepareStage` that failed, a
refused approval, cancelled jobs, and all jobs of a Deploy stage at once: the first
is a run that has not begun, the others would find the environment as the restarts
that are modelled do, except that a whole Deploy stage started again could skip its
job and so end green over what the failed one left.

Three things of the YAML shape the model:

* `Environment_X` stages have no `dependsOn`, so they follow the stage listed
  before them, the Deploy stage of the *last* configuration of the environment
  before (`Reached`). With several configurations, the others do not gate the
  promotion.
* Detection runs twice, against `origin/master` as it is at that moment
  (`BuildNeeded`, `DeployNeeded`).
* `tf-destroy.yml` has `condition: always()`: it runs after a failure
  (`failedTeardown`) and under cancellation.

`terraform plan` and `apply` run without `-lock-timeout`: a lock that is held
makes the step fail, never wait. The content of a state is what Terraform makes of
the template and the modules of a commit (`Rendered`); a broken apply leaves
`Partial`. In the first state (`SteadyState`) every environment that is kept holds
the first commit of master, and those that are torn down do not exist. Terraform's
check of a saved plan compares lineage and serial
(`Fresh`), not content; that this suffices is part of what is proved.

### GitOps

Every push extends the tip, so a branch is a sequence of trees and the merge base
of a clone is a position in it. `Copied`, `Merged` and `Conflict` are the copy and
git's three-way merge at the level of files: two sides that changed one file in
different ways conflict. (git may merge such a file if the changes lie apart; in
rendered manifests, whose image tag differs in every build, the model takes the
conflict.) `git pull` is in its merge mode. `Fail` is `set -euo pipefail`.
Agents are fresh: on one that keeps its directory the `mkdir` before
`helm template` fails. Assumed are that two services have no template name in
common (`NamesApart`: the registry is one flat directory) and that Azure DevOps
gives each build a number of its own (`NumbersApart`). `OneBuild` and `InTurn` are
about services whose rendered manifests differ in every build, as those do that
contain the image tag, which is the commit (`Tagged`).

### ElasticProvision

`run.pc` follows one apply through the script and the resources of
`local-exec-capture-stdout`; `work` is the state in memory, stored at the end of
the apply (`Ends`), lost in a `Crash`. `RunScript` taints the resource until
`Lookup`, the last line of the script, has succeeded. Command substitutions run
without `set -e`: a `curl` that fails inside `createDeployment` lets the script go
on and wait for deployment "null" (`Post`), and one that fails inside
`lookupElasticsearchEndpoint` yields an endpoint such as `https://:` (`Lookup`).
`Settle` is the service: as the comment at `ese-deploy-create.sh:142` says, it
calls a new deployment healthy before it starts; the ten seconds of sleep are taken
to be enough. `Destroy` deletes no deployment, as the code does not. The
enterprise variant differs in a check of the id that fails at once, and in the
removal of the file at destroy; the model allows both.

### PlanValidation, TestHarness, Mage, TestRun

A Go value of type `interface{}` is a record with its type and its value; the type
switches of `validate.go` become disjuncts of the recursive functions `Matches`
(plans) and `SameJSON` (outputs, which are compared as JSON). In a test process,
`pc[t]` is how far it is: `Initialize`, `SelectOwn`, `MakePlan`, `CheckPlan`, then
the deferred statements `Restore` and `DeleteOwn`; an integration test goes from
`Initialize` to `CheckOutput`. `CommandFails` is `t.Fatal` at any of them: before
the `defer` statements are registered it ends the test at once, after that they
still run and may themselves fail, with or without effect. `Killed` is an
interrupt or the timeout of `go test`, after which nothing runs.

`Target` and `Todo` are the graph of targets of one runner, `Due` says that a
target's dependencies have succeeded, and `Current` which one `mg.Deps` has come
to, that is the end of the way from the main target through the first dependency
that has not succeeded (`Open`, `Down`): every call in these magefiles names one target, so nothing runs in parallel
but the packages of one `go test`. A formatter prints the files it rewrites, so
`Lint` fails and corrects at once, and the next run passes. In `TestRun`, `Clean`
removes `.terraform` and the local states, in the runners of modules and templates
with the local workspaces; its `filepath.Walk` ends with an error, and fails the
target, at a file that cannot be read or is missing (`./infra/modules`, where the
runner is not started above it), with the directories before it cleaned. Errors of
`os.RemoveAll`, which the code ignores, are left out. `found` keeps what was
selected when the run began; nothing selects it again when `.terraform` has been
removed, so that what the tests of a directory start from, `Basis`, is then the
`default` workspace. `Work` is somebody who selects or deploys a workspace between two runs.
External and assumed: `terraform workspace delete` refuses the workspace that is
selected and one with resources; `random.UniqueId` never repeats (`NamesUnique`);
a plan over deployed resources has an action that is neither `create` nor `read`
(`PlansAssumption`). Three assumptions state what the repository's tests and paths
are like: `OutputsExpected` (each integration test expects at least one output),
`DirsApart` (a local state belongs to one directory, and unit tests of templates
with a remote backend name their workspaces) and `PathsAssumption` (integration
tests are in directories called so, a Terraform directory has one test of each kind
with the suffixes of one target pair, tests called `testing` belong to modules).

### AzureQueries

One test process evaluates one assertion after the other. An item of a listing is
a number that gives its place in the order of the listing; `PageAfter` is the page
behind as many items as its link says (`Fetch`, `Skipped`). Two kinds of links are
modelled. Those of the topics and of the subscriptions of a topic (`ByOffset`; the
calls with `nil, nil` for skip and top, `servicebus.go:295`, `:329`, `:364`) are a
number of items: a deletion moves items to a page that was read already, so that
one is missed, and a creation makes one come twice. All others are links the
client cannot look into (authorization rules, caches, containers, role
assignments); they are taken to continue behind the last item of the page before,
whatever happened to it. `changed` records what others have done during a listing;
`NoneMissed` and `NoneTwice` say what a listing is good for then.
`verifyNamespaceAuthenticationRuleList` lists anew for every name it expects
(`servicebus_tests.go:95`); each of these listings is an assertion with one name.
`NextPage` is one turn of the loop over `NotDone`, `Values` and `Next`;
`listAccountContainers` never turns (`FirstPage`). Since a page with a link to
another one is never empty, the iterators of `servicebus.go` and the pages of the
others have the same turns. `always` and `ever` record what was in the collection
from the first page on. A map from scopes to roles keeps the last assignment of
each scope (`RoleMap`). The values of secrets stand for the deployment that wrote
them. `AnswerLost` is a command that a Redis server executes while the connection
breaks. Assumed is that random cache keys differ (`KeysDiffer`).

## 4. Runs

Deadlock is not checked anywhere: runs, builds and applies are finite sets, and a
system that has used them up may stop.

| Run | Instance | Shows |
|---|---|---|
| `infra_core` | a pull request and a run of master, one environment with teardown, two commits, all faults, one rerun | `TypeOK`, `LockDiscipline`, `AppliesReviewedPlan`, `LeftoversShow`; the refinement `ImplementsReview`; `RunsEnd` under fairness |
| `infra_quiet` | five runs (two of pull requests, isolated from each other), five commits, two environments; nobody merges during a run of master and nothing fails | `GreenMeansDeployed`, `DeployFindsArtifact` under the condition the comment in `detect-cicd.yml:42` relies on; `TestsSeeOwnDeployment` with `enablePrIsolation` |
| `infra_forced` | `FORCE_RUN`, two runs of master, four commits that land at any time, two environments, faults, one rerun | `GreenMeansDeployed`, `TestedBeforePromotion`, `NoRollback` |
| `infra_teardown` | three runs, an environment torn down after each release | `NothingLeftBehind` |
| `infra_batched` | two commits land before the detection of one run | violates `GreenMeansDeployed` |
| `infra_whitelist` | a commit that changes an ARM template | violates `GreenMeansDeployed` |
| `infra_shared_dev` | two pull requests as the pipelines define them | violates `TestsSeeOwnDeployment` |
| `gitops_builds` | two builds of one service race, two of another run one after the other, through two environments | `TypeOK`, `OneBuild`, `NoLostUpdate`, `NewestDeployed`, `InTurn`, `Settles` |
| `elastic_applies` | four applies and any number of destroys on two hosts, all faults | `TypeOK`, `CapturesOwn`, `CapturedForGood`, `ApplyEnds` |
| `elastic_endpoint` | one apply | violates `EndpointKnown` |
| `harness_runs` | two runs of each of the five runners over three templates and two modules, eight test packages, failing commands, killed tests, a deployment between the runs | `TypeOK`, `PassedLeavesNoTrace`, `CleanUpSucceeds`, `FreshPlan`, `VerdictIsSubset`, `IntegrationAfterUnit`, `IntegrationReadsFound`, `TestsOnFormattedSources`, `EveryRunEnds` |
| `azure_queries` | listings of up to five items on pages of two (exact with links that count and with links to an item, contained, exact on the first page only, roles), three secrets, a cache with two other keys, three changes by others, failing calls | `TypeOK`, `ListingComplete`, `PassIsJustified`, `VerdictExact`, `OthersDoNotInterfere`, `AssertionEnds` |

*Bounds.* `MasterLength` bounds the merges, `MaxReruns` the reruns, `MaxApplies`
the applies; the sets of runs and builds bound the rest. Two runs suffice for
everything that two actors can do to each other on a workspace, three (two pull
requests and master) for the isolation and the teardown, and four for change
detection over a history in which each class of path (template, modules, other,
documentation) changes once. Two builds of one service next
to another service are needed for a merge to mix two of them. With three applies a
module can fail, be destroyed and be made anew over the file of its first life;
with four, the file of an attempt whose host was lost can be there again when a
later attempt on another host was interrupted.
`gitops_builds` has no faults: a build that fails leaves nothing behind that was
not pushed, exactly like one that is never scheduled again, and without them
`Settles` depends on git's refusals alone.

`MaxRuns` bounds the runs of a task runner: the first leaves a workspace, a
selection or rewritten sources, the second meets them. Each value in `MCInner` is
met by each as expected and planned attribute: every type, lists with repeated,
missing and reordered elements, maps in maps and in lists. `LastItem` and
`PageSize` make listings of up to three pages, the last one full or not;
`MaxChanges` lets an item before, on and behind the page change, and lets both
creations and deletions fall into one listing.

*Fairness.* Azure DevOps gives a queued job to an agent and an agent takes the
next step, so the steps of jobs are weakly fair, together with the outcome of an
approval (given, refused or timed out) and the end of a cancelled job. Merges,
triggers, cancellations, faults and reruns are not fair. Flux polls every five
minutes, so its step is. Terraform goes on with an apply; signals and crashes are
not fair, and neither is the service: a deployment may never get healthy. The
process of `mage` and those of `go test` run on, fail or are ended by the timeout
(`-timeout 7200s`), so their steps are fair, while faults, interrupts and people
are not; a call to Azure returns or fails (the clients give up after their
retries), so the steps of an assertion are fair, the changes by others are not.

*Mutants.* Operators named `X_Something`, next to `X`, are versions of `X` with a
bug that the code might have; with one in place of `X`, the property that
`PROJECT.json` names for it is violated.

## 5. Proofs

`InfraPipelineProofs` proves, for every history of master, every set of runs,
environments and configurations, any number of reruns and all faults:

* `TypeCorrect`: `Spec => []TypeOK`
* `LockHeld`: `Spec => []LockDiscipline`
* `ReviewedApply`: `Spec => []AppliesReviewedPlan`

from `DetectionAssumption`, `PipelineAssumption` and `PrefixAssumption` (two
configurations of a pipeline have different workspace prefixes; without it two
slots of one run would overwrite each other's artifact).

`AppliesReviewedPlan` is not inductive: that the workspace still holds what the
plan was made for rests on Terraform comparing lineage and serial. The inductive
invariant `IInv` is the conjunction of

* `TypeOK` and `LockDiscipline`;
* `RunInv`: a run has no plan before it starts and has a commit from then on;
* `PlanInv`: a plan is for its run's commit, and if its lineage and serial are
  those of the workspace, so is its base. This is the heart: each write that
  changes the content raises the serial, and a state that is created anew has a
  lineage that no plan has;
* `StateInv`: lineages are given out in order, and only a state that exists is
  locked, so that no command writes to one that was deleted (`TypeOK`);
* `JobInv`: a job that has its artifact has a plan, and one that is applying has a
  fresh one.

There is a lemma for each operation of the backend (`OpenStep`, `ReleaseStep`,
`PersistStep`, `DeleteStep`), one for each kind of move of a job (`QuietMove`,
`SelectMove`, `LockMove`, `ReleaseMove`, `PersistMove`), and the step of the
invariant goes through the actions with these.

`InfraReviewProofs` proves

* `PipelineImplementsReview`: `Spec => ImplementsReview`

from the same assumptions. Its invariant `ReviewInv` adds to `IInv` that a
workspace that does not exist is empty (`AbsentInv`) and that only jobs of
disposable environments tear down (`TeardownInv`). A lemma for each kind of action
says to what the mapping takes it (`Refined`): `FinishPlan` proposes, `FinishApply`
and `BreakApply` carry out, `FinishDestroy` and `DeleteWorkspace` tear down, and all
others stutter. That a proposal is carried out in the state it was made for is
`PlanInv` once more.

The end of `InfraPipelineProofs`, `InfraOutcomeProofs` and `InfraQuietProofs` prove
what holds of whole runs, for any history, runs and environments, under conditions
that a pipeline's variables, its definitions and its users decide:

| Theorem | Property | Condition |
|---|---|---|
| `ForcedPromotion` | `TestedBeforePromotion` | `FORCE_RUN`, one configuration |
| `DeploysFindArtifact` | `DeployFindsArtifact` | `Agreeing`: `FORCE_RUN`, or nobody merges during a run and nothing is rerun |
| `LeftoversAreOwed` | `LeftoversShow` | none |
| `ForcedGreen` | `GreenMeansDeployed` | `FORCE_RUN`, `OneCommitEach` |
| `IsolatedTests` | `TestsSeeOwnDeployment` | `Isolated` pull requests, no reruns |
| `ForcedTeardown` | `NothingLeftBehind` | `FORCE_RUN`, no `Faults` |
| `NeverRolledBack` | `NoRollback` | `OneCommitEach`, `NoReverts` |
| `QuietGreen` | `GreenMeansDeployed` | `Undisturbed`, `Noticed`, `OneCommitEach`, `Bootstrapped` |
| `QuietPromotion` | `TestedBeforePromotion` | nobody merges during a run of master, no reruns, one configuration |

The conditions are what the code offers: `FORCE_RUN` is a variable of the
pipelines; every pipeline definition in the repository lists one configuration;
`Isolated` is `enablePrIsolation` with pull requests of different numbers. A commit
is in the history of master once by the nature of git. `NoReverts` is a condition on
the people who merge: a commit that brings an earlier content back would make "an
older run" meaningless; it also says that a release is never empty or broken by
itself. (The instance of `infra_forced` meets these conditions.) Without `Faults`,
steps still fail where another job holds the lock and where a plan is stale, and
`ForcedTeardown` is about these: a job that cannot destroy leaves its resources to
the one whose command holds the lock.

`StepKinds` sorts the steps into those of runs and those of one job; `JobEdge` and
`StepEffect` say what a step of a job does to its phase and to its workspace, so that
the steps below need not go through the actions again. The invariants are

* `ActiveInv` and `IdleInv`: only runs in progress have jobs in progress;
* `PromotedInv`: what a forced run has begun has its predecessors deployed;
* `ArtifactInv`: from `built` on, a job has its plan, and one whose Build stage
  found nothing to do would find nothing now;
* `OwedInv`: what is in a disposable environment is owed by a job that is under way
  or has failed;
* `HeadInv`, `LatestInv`, `DeployedInv`: a run builds a commit master had by then;
  one that goes for the first time is the latest, so nobody else writes what it has
  deployed before the next one is queued;
* `BatchInv` and `OwnInv`: runs of master exclude each other (`Exclusive`), and what
  a job has applied stays until its tests;
* `HeldInv`, `BuiltInv`, `ForcedPlanInv`, `PendingInv`: a held lock is held by a
  command under way, a job that has built will get to its Deploy stage with its
  plan, and so to its teardown;
* `MadeInv`, `BaseInv`, `OvertakenInv`: a plan that a run makes before any of its
  jobs was started again (`FirstPlan`) is made over what commits not after its own
  have made, as no later run is there yet (`LatestInv`); once a later run has applied,
  that plan is stale and stays so (`StaleStays`), unless the later run's apply changed
  nothing, in which case `NoReverts` says that the older plan does not either. So
  `NoRollback` covers the Deploy stages of failed runs that are started again in any
  environment, however late. It cannot cover plans made after a restart: see the
  findings.

`QuietGreen` is the promise of change detection itself, with as many
configurations, environments, runs and commits as one likes. Its conditions are
those that the code needs and does not enforce:

* `Undisturbed`: nobody merges while a run of master is in progress, no step fails
  of its own and nothing is rerun, and pull requests have workspaces of their own.
  `infra_batched` shows what becomes of the first; a run that fails and is followed
  by one that touches nothing, of the second; `infra_shared_dev`, of the last;
* `Noticed`: what changes a rendered stack is on the white list and triggers a run.
  `infra_whitelist` is a commit that is not;
* `Bootstrapped`: a forced run deployed the first commit everywhere.

`infra_quiet` is an instance that meets all of them. Faults are excluded, yet locks
and stale plans are not: that a job meets neither is proved, not assumed. The
invariants are

* `LastMergeInv`: a run of master in progress builds the last merge, so that what
  detection compares is that merge with the one before;
* `NeededInv`: both detections of a slot come out as they would now;
* `HarmlessInv`: no job of master fails, a lock in its workspaces is held by a job
  under way there, and a plan stays fresh until its apply. `Orderly` says what one
  step makes of a job, `OthersStay` that it leaves the others of master alone;
* `CurrentInv`: every environment that is kept holds the commit before the last
  merge while that merge waits for its run, or for the job of that run in this
  environment, and the last one afterwards (`Due`, `Outstanding`). Where the run
  skips the environment, the two render the same (`UndetectedSame`); where the
  merge triggers no run at all, too (`UntriggeredSame`);
* `LatestHeadInv`: what was merged since the newest run renders the same.

That a green run leaves nothing to do rests on `EndsInSuccess`: when a run ends,
every one of its jobs has succeeded, since a job that none of the environments
before it holds back would still have a step to take. `QuietPromotion` needs
`NeededInv` and `ReachedInv` alone and holds under all faults and cancellations:
detection decides once for the whole run, so it cannot skip one environment and
deploy to the next.

`AzureQueriesProofs` proves, for collections, pages and expected sets of any size,
any number of changes by others and all faults:

* `TypeCorrect`: `Spec => []TypeOK`
* `ListingsComplete`: `Spec => []ListingComplete`
* `PassesJustified`: `Spec => []PassIsJustified`
* `Undisturbed`: `Spec => []OthersDoNotInterfere`
* `VerdictsExact`: `Spec => []VerdictExact`

from `QueryAssumption` and `KeysDiffer`. What a listing returns says nothing of the
listing before it returns; the inductive invariant `IInv` adds

* `ListInv`: while pages are read, what has been there all the time has been
  appended, is on the page that was read last, or lies behind its link, so that a
  page without a link completes the listing; and nothing that was appended or is on
  that page lies behind the link, so that nothing is appended twice. Behind a link
  that counts items (`Behind`) are those with a greater place; the first half then
  survives creations only, which move items on, and the second deletions only,
  which move them back;
* `StillInv`: a collection that nobody changed was the same all the time;
* `SecretInv`: what has been read of a secret is the version the outputs name.

It rests on the places of items: they grow along the listing (`Places`) and move
when others create or delete (`PlacesMove`), so a page is no longer than asked for
(`PageIsShort`), empty only if nothing follows (`PageHasItems`), and what follows is
on it or behind its link (`FetchReadsOn`). That a finite set of numbers has a last and a first
element (`MaxExists`, `MinExists`) follows from the well-foundedness of strict
inclusion among finite sets. `PassesJustified` is the argument behind comparing
a length and then looking for every name: results of the length that is expected,
with everything that is expected, hold nothing else and nothing twice, whatever the
pages were. `VerdictsExact` adds
`VerdictInv` (a verdict is that of the comparison) and the other direction: on a
collection that nobody changes, what is listed is what is there, so nothing but a
difference makes an assertion fail.

`TestRunProofs` proves, for any tests, directories, backends, fixtures and plans,
any number of runs of each runner and all faults:

* `TypeCorrect`: `Spec => []TypeOK`
* `NoTraceLeft`: `Spec => []PassedLeavesNoTrace`
* `CleanUp`: `Spec => []CleanUpSucceeds`
* `Fresh`: `Spec => []FreshPlan`
* `AfterUnits`: `Spec => []IntegrationAfterUnit`
* `OutputsFound`: `Spec => []IntegrationReadsFound`
* `Formatted`: `Spec => []TestsOnFormattedSources`

from `HarnessAssumption`, `NamesUnique`, `PlansAssumption`, `OutputsExpected`,
`RunAssumption`, `DirsApart` and `PathsAssumption`. Two arguments meet here. The
first is about the order in which `mg.Deps` comes to the targets. `Down` is defined
by recursion along the dependencies, so it has to be shown that the recursion
ends: `Rank` gives each target its depth, at most 4 in every magefile (`Graph`), and
`DownIs` concludes that `Down` satisfies its equation. From it, `DownFacts`: what is
due is the main target or the first open dependency of another one. With the
graphs of the magefiles this gives `UnitFirst` (an integration target is due when the
unit target beside it is done) and `CleanBefore` (tests are due when cleaning is
done). The second argument is about workspaces. What a process does to
them is to select its own, to select again what it found, or to delete its own
(`ProcessWorld`). None of the properties is inductive; the invariant `IInv` adds

* `RunningInv`: only tests of the target that is due are running, and only in a run;
* `StartedInv`, `CleanFirst`: a process that has started belongs to a target that has,
  those of a target that succeeded have passed, and cleaning was before both;
* `AfterUnit`: an integration test starts after its unit test has passed;
* `NameInv`: a random name is found in the directory of its test and on its backend
  only, there not before the test selects it, and nobody deploys it during the run.
  Names that killed tests of earlier runs have left may be selected, deployed or
  found by any later run, so the name counts the run;
* `SelectInv`: the selection of a directory is its `Basis` (what was selected when
  the run began, or the default once the run has removed `.terraform`), then the
  test's own, and again the `Basis` once its unit test has put it back;
* `PlanInv`: a plan over a deployed workspace changes something, so it cannot pass;
* `CleanedInv`: in the runners that clean, directories start from the default
  workspace and local states are empty. It is why tests without a workspace name of
  their own can clean up under the harness and module runners, and not under
  `mage RunUnitTests`;
* `RewrittenInv`: a run that has rewritten a file has failed.

That deletions leave no selection dangling (`TypeCorrect`) rests on `OtherName`:
two unit tests that share a backend use different workspaces, by their random names
or because a local backend belongs to one directory.

`ElasticProvisionProofs` proves, for any hosts, any number of applies and all
crashes:

* `TypeCorrect`: `Spec => []TypeOK`
* `CapturedIsOwn`: `Spec => []CapturesOwn`
* `CapturedStays`: `Spec => CapturedForGood`

from `ElasticAssumption`. A file is read by another apply, perhaps on another
host, than the one that wrote it, so the invariant is about what is in the files
of a life of the module:

* `FreshInv`: the files of a life that has not begun are missing, and an apply
  creates one deployment at most;
* `FileInv`: what a file names was created and healthy;
* `RunInv`: while the script runs, neither state has its result;
* `CapturedIn`, for the stored state and the one in memory: a script that has
  succeeded has printed the newest deployment under the id of the state, and what
  was captured is in one of its files;
* `KeptInv`: an apply keeps what the state holds.

`GitOpsProofs` proves, for any services, builds, files and environments:

* `TypeCorrect`: `Spec => []TypeOK`
* `NoUpdateLost`: `Spec => NoLostUpdate`
* `NeverMixed`: `Tagged => (Spec => []OneBuild)`
* `DeployedInTurn`: `Tagged => (Spec => []InTurn)`
* `NewestStays`: `Spec => []NewestDeployed`

from `GitOpsAssumption`, `NamesApart` and `NumbersApart`. `NoLostUpdate` is about
a push, but what is pushed was decided by the copy and the merge before it. The
inductive invariant adds
`CloneInv`: each file of a clone is as at the commit that was merged last, or was
rendered by the clone's build and, between the checkout and that commit, changed
by nobody (`Explained`). A merge keeps this because it refuses conflicts
(`PullInvariant`), the pushes of others because they only extend the branch
(`PushExtends`); git's fast-forward rule then makes the commit merged last the one
that the push replaces.

`NeverMixed` rests on `MergeSides`: where every file of a service differs in every
build, a merge without conflict takes all files of the service from one side. So
each tree of a branch and of a clone holds the manifests of one build
(`PureInv`). `DeployedInTurn` adds that a build's manifests are in its clone or
were pushed to the branch before (`SeenInv`), hence, once it has been deployed,
somewhere on the branch (`ReceivedInv`). `NewestStays` is about builds of a service
that run one after the other (`OrderInv`): while one of them is at work nobody else
touches its files, so its merge and its push change none of them (`UntouchedInv`).

Only model-checked: `VerdictIsSubset`, as `Matches` recurses over data, which no
induction available to the provers reaches; and all liveness properties, as
fairness and ENABLED are out of the prover's reach.

## 6. Findings

* *A template change that is not on the white list* (`infra_whitelist`):
  `GIT_DIFF_EXTENSION_WHITE_LIST` does not contain `.json`, yet modules deploy ARM
  templates. The commit triggers a run that deploys nothing and ends green.
* *Detection against a moving master* (`infra_batched`): a run of master compares
  with `HEAD~` only if it is the head of `origin/master` when it looks. If another
  merge lands first, the run looks at that one, and the run of the other merge
  looks one commit back: the first change is deployed by neither, unless the two
  touch the same configuration. `infra_quiet` shows that without such merges, and
  without failures, the mechanism works; `infra_forced` that it works with
  `FORCE_RUN`. (A failed run followed by one that touches nothing is another way to
  a green run on an old deployment, which is why `infra_quiet` has no faults. The
  same race also lets a run skip the first environment and deploy to the next;
  with `FORCE_RUN`, or on a quiet master, it cannot: `ForcedPromotion` and
  `QuietPromotion`.)
* *Pull requests share dev* (`infra_shared_dev`): every pipeline definition sets
  `enablePrIsolation: false`, while the design document names workspaces after
  pull requests to avoid races.
* *A failed endpoint lookup is captured for good* (`elastic_endpoint`).

Met while modelling, without a run of their own: a failed Build of an older run that
is started again after a newer run has deployed plans the old commit afresh, over
the newer deployment, and its apply takes that back, in the first environment too;
so does a run whose failed Deploy is started again, in the environments that it
reaches only then, and one of several configurations that had not built yet. Nothing
in the pipeline prevents it, and nothing in its documents promises that it does:
`NoRollback` is about the plans made before the first restart, on masters without
reverts (TLC shows the rollback when the condition on the plan is left out); a pull
request that deploys to the shared `dev` the content that a later run of master
carries makes the apply of that run change nothing, so that the plan of an older
failed run stays fresh and its rerun takes the content back (found in the attempt to
prove `NoRollback` without this restriction, and confirmed by TLC); the name of a pull request's workspace lacks the environment
(`tf-ws-compute.yml:51`), harmless as pull requests have one; an interrupted apply
of the Elasticsearch module, repeated on another host, captures `{}` and fails from
then on; a script that fails after its POST leaves a deployment that the next
apply does not find, against `main.tf:21` ("This will only ever happen a single
time"); if the attempt that succeeded is interrupted before its state is stored, on
a host that then goes away and comes back, and the next attempt on another one
before its output is captured, the apply after them captures the output of the
first, a healthy deployment that is not the newest (attempting the proof of the
stronger property showed this; `CapturesOwn` says what is kept); the expression engine casts any non-empty `FORCE_RUN`, also the text `false`, to
true, so `ForceRun` stands for the result of the cast.

Of the tests: `ListAccountContainers` "Lists the containers for a target storage
account" but returns the first page of ten, the loop over the others being
commented out (`storage.go:35`), so `ListingComplete` says less of it, and its
comparison, meant to be exact, passes although there are more containers behind that
page, as `VerdictExact` says; the maps of
role assignments hold one role for each scope, and the expected map of the
kubelet's identity sets three for one scope (`identity_roles.go:90`; its check is
commented out in `integration_test.go:50`), so `VerdictExact` is restricted to
scopes with one assignment; `VerifySubscriptionsList` compares the length of what
was listed with `$skip` and `$top`: it may fail while others create a subscription
and all expected are there, and it may pass over one that was there all the time
and is not expected while others delete one (`ListingComplete` and
`PassIsJustified` say what holds then); a unit test that is killed without a workspace name
of its own leaves `default-unit-testing` selected, after which the deletion of it
fails until somebody removes `.terraform` or runs `CleanAll`, so
`CleanUpSucceeds` is restricted accordingly; `terraform fmt` and `go fmt` correct
what they report, so a failed lint passes when it is repeated on the same
directory; `CleanAll` removes the selection of every directory below the harness, so
`mage` started there with an environment's workspace selected runs the integration
tests on the outputs of the default workspace and says nothing of it
(`IntegrationReadsFound` states both cases); `validate.go` matches lists as sets and compares numbers in plans with
their Go types, so an expected `int` never matches a planned `float64`, while in
outputs they are compared as JSON and do.
