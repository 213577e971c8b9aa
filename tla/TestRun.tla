------------------------------ MODULE TestRun ------------------------------
(***************************************************************************)
(* A task runner that lints, cleans and runs the tests of the harness, one *)
(* run after the other.  Tests of an earlier run may have been killed      *)
(* anywhere, and between runs somebody works in the same directories.      *)
(***************************************************************************)
EXTENDS TestHarness, Mage

CONSTANTS
  Below,      \* Below[r]: the Terraform directories below the one r is started in
  Matching,   \* Matching[s]: the test packages whose path ends in s
  Local,      \* the backends that are files of a Terraform directory
  ModuleDir,  \* the directories below infra/modules
  Human       \* Human[b]: the workspaces people use on backend b

VARIABLE found  \* found[d]: what was selected in d when the run began

vars == <<harnessVars, mageVars, found>>

ASSUME RunAssumption ==
  /\ Below \in [Runner -> SUBSET Dir]
  /\ Matching \in [Suffix -> SUBSET Test]
  /\ Local \subseteq Backend /\ ModuleDir \subseteq Dir
  /\ Human \in [Backend -> SUBSET (Name \ {UnitTesting})]
  /\ \A b \in Backend, t \in Test, n \in 0..MaxRuns : RandomName[t][n] \notin Human[b]

\* No two directories share a local backend, and unit tests on a remote one name
\* their workspaces.
ASSUME DirsApart ==
  /\ \A d, e \in Dir : BackendOf[d] = BackendOf[e] /\ BackendOf[d] \in Local => d = e
  /\ \A t \in Test \ Integration : BackendOf[DirOf[t]] \notin Local => t \in Named

TemplateSuffix == Suffix \ {"unit", "integration", "testing"}

\* The suffixes of integration tests, and of the unit tests beside them.
UnitOf ==
  [s \in {"integration", "central_resources/tests/integration",
          "service_resources/tests/integration", "data_partition/tests/integration",
          "common_resources/tests/integration", "data_resources/tests/integration"} |->
     CASE s = "integration"                         -> "unit"
       [] s = "central_resources/tests/integration" -> "central_resources/tests/unit"
       [] s = "service_resources/tests/integration" -> "service_resources/tests/unit"
       [] s = "data_partition/tests/integration"    -> "data_partition/tests/unit"
       [] s = "common_resources/tests/integration"  -> "common_resources/tests/unit"
       [] s = "data_resources/tests/integration"    -> "data_resources/tests/unit"]

\* Where the tests are.
ASSUME PathsAssumption ==
  \* Integration tests are in directories that are called so, other tests are not.
  /\ \A s \in Suffix : IF s \in DOMAIN UnitOf THEN Matching[s] \subseteq Integration
                                               ELSE Matching[s] \cap Integration = {}
  \* The tests of a Terraform directory are beside each other, one of a kind.
  /\ \A t, u \in Test : DirOf[t] = DirOf[u] /\ (t \in Integration <=> u \in Integration) => t = u
  /\ \A s \in DOMAIN UnitOf : \A t \in Matching[s], u \in Test \ Integration :
       DirOf[t] = DirOf[u] => u \in Matching[UnitOf[s]]
  \* No path ends in two suffixes of one runner; unit tests of templates name their
  \* workspaces, and what is called `testing' is of a module.
  /\ \A r \in Runner : \A x, y \in Target(r) :
       {Body(x), Body(y)} \subseteq Suffix /\ x # y => Matching[Body(x)] \cap Matching[Body(y)] = {}
  /\ \A s \in TemplateSuffix : Matching[s] \subseteq Named \cup Integration
  /\ \A t \in Matching["testing"] : DirOf[t] \in ModuleDir

-----------------------------------------------------------------------------
\* Before the first run people have selected and deployed what they wanted.
Init ==
  /\ runner \in Runner
  /\ exists = [b \in Backend |-> Human[b] \cup {Default}]
  /\ selected = [d \in Dir |-> Default]
  /\ deployed = [b \in Backend |-> {}]
  /\ run = 0
  /\ pc = [t \in Test |-> "idle"]
  /\ start = [t \in Test |-> Default]
  /\ plan = [t \in Test |-> NoPlan]
  /\ checked = [t \in Test |-> NoFixture]
  /\ failed = [t \in Test |-> FALSE]
  /\ result = Todo(runner)
  /\ unformatted \in SUBSET SourceKind
  /\ rewritten = {}
  /\ found = selected

Between == run = 0 \/ Ended

\* `go list ./...', and those whose path ends in s.
Packages(s) == {t \in Matching[s] : DirOf[t] \in Below[runner]}

-----------------------------------------------------------------------------
(* Bodies of targets that run no tests.                                    *)

\* Fault: .terraform is kept.
Cleaned_KeepsSelection(scope, whole) ==
  LET local == {BackendOf[d] : d \in scope} \cap Local IN
  /\ exists' = [b \in Backend |-> IF whole /\ b \in local THEN {Default} ELSE exists[b]]
  /\ deployed' = [b \in Backend |-> IF b \in local THEN {} ELSE deployed[b]]
  /\ UNCHANGED selected

\* .terraform is removed, with the selection; every file terraform.tfstate,
\* with the state of a local workspace; and, if whole, terraform.tfstate.d,
\* with the local workspaces.
Cleaned(scope, whole) ==
  LET local == {BackendOf[d] : d \in scope} \cap Local IN
  /\ exists' = [b \in Backend |-> IF whole /\ b \in local THEN {Default} ELSE exists[b]]
  /\ deployed' = [b \in Backend |-> IF b \in local THEN {} ELSE deployed[b]]
  /\ selected' = [d \in Dir |-> IF d \in scope THEN Default ELSE selected[d]]

Scope == IF runner = "harness" THEN Below[runner] ELSE ModuleDir

\* The walk may end at a file that is missing or cannot be read.
Clean ==
  /\ Due("clean")
  /\ \/ Becomes("ok") /\ Cleaned(Scope, runner # "harness")
     \/ /\ Faults /\ Becomes("failed")
        /\ \E part \in SUBSET Scope : Cleaned(part, runner # "harness")
  /\ UNCHANGED <<run, pc, start, plan, checked, failed, runner, unformatted, rewritten, found>>

\* The directories whose selection the run itself has removed, and the workspace
\* that tests of d are then to start from and to read.
Wiped == IF \E t \in DOMAIN result : Body(t) = "clean" /\ result[t] = "ok" THEN Scope ELSE {}
Basis(d) == IF d \in Wiped THEN Default ELSE found[d]

GroupDone == Group /\ UNCHANGED <<harnessVars, found>>

LintCheck == \E cmd \in {"go fmt", "terraform fmt"} : Lint(cmd) /\ UNCHANGED <<harnessVars, found>>

RunTestHarnessUnitTests ==
  /\ Due("test the harness")
  /\ Becomes("ok")
  /\ UNCHANGED <<harnessVars, runner, unformatted, rewritten, found>>

\* A command that a target starts fails: a file that cannot be parsed, or a
\* failing test of the harness itself.
TargetFails ==
  /\ Faults /\ ~Between
  /\ Body(Current) \in {"go fmt", "terraform fmt", "test the harness"} \cup Suffix
  /\ Due(Body(Current))
  /\ Becomes("failed")
  /\ UNCHANGED <<harnessVars, runner, unformatted, rewritten, found>>

-----------------------------------------------------------------------------
(* FindAndRunTests.                                                        *)

StartTests ==
  LET s == Body(Current) IN
  /\ s \in Suffix /\ Due(s)
  /\ \/ Packages(s) = {} /\ Becomes("failed") /\ UNCHANGED harnessVars
     \/ Packages(s) # {} /\ Becomes("running") /\ GoTest(Packages(s))
  /\ UNCHANGED <<runner, unformatted, rewritten, found>>

EndTests ==
  LET s == Body(Current) IN
  /\ ~Ended /\ result[Current] = "running"
  /\ \A t \in Packages(s) : ~Running(t)
  /\ Becomes(IF \A t \in Packages(s) : Passed(t) THEN "ok" ELSE "failed")
  /\ UNCHANGED <<harnessVars, runner, unformatted, rewritten, found>>

Tests(t) == TestStep(t) /\ UNCHANGED <<mageVars, found>>

Interrupt(t) == Killed(t) /\ UNCHANGED <<mageVars, found>>

-----------------------------------------------------------------------------
(* Between runs.                                                           *)

\* Somebody selects a workspace and deploys it, or deploys the one that is
\* selected, whoever left it so.
Work(d) ==
  LET b == BackendOf[d] IN
  /\ Between /\ run < MaxRuns /\ d \in Below[runner]
  /\ \E w \in Human[b] \cup {selected[d]} :
       /\ selected' = [selected EXCEPT ![d] = w]
       /\ exists' = [exists EXCEPT ![b] = @ \cup {w}]
       /\ deployed' = [deployed EXCEPT ![b] = @ \cup {w}] \/ UNCHANGED deployed
  /\ UNCHANGED <<run, pc, start, plan, checked, failed, mageVars, found>>

\* mage <runner>.
StartRun ==
  /\ Between /\ run < MaxRuns
  /\ run' = run + 1
  /\ pc' = [t \in Test |-> "idle"]
  /\ result' = Todo(runner)
  /\ rewritten' = {}
  /\ found' = selected
  /\ start' = [t \in Test |-> Default]
  /\ failed' = [t \in Test |-> FALSE]
  /\ UNCHANGED <<world, plan, checked, runner, unformatted>>

Proceed ==
  /\ ~Between
  /\ \/ Clean \/ GroupDone \/ LintCheck \/ RunTestHarnessUnitTests
     \/ StartTests \/ EndTests

Next ==
  \/ Proceed \/ TargetFails \/ StartRun
  \/ \E t \in Test : Tests(t) \/ Interrupt(t)
  \/ \E d \in Dir : Work(d)

Spec == Init /\ [][Next]_vars

\* mage runs what is due, and the operating system every process it started.
FairSpec == Spec /\ WF_vars(Proceed) /\ \A t \in Test : WF_vars(Tests(t))
-----------------------------------------------------------------------------
(* Properties.                                                             *)

\* Types; and the workspace selected in a directory exists on its backend, as
\* does every one that is deployed, whatever the tests and targets delete.
TypeOK ==
  /\ selected \in [Dir -> Name] /\ found \in [Dir -> Name]
  /\ \A d \in Dir : selected[d] \in exists[BackendOf[d]]
  /\ exists \in [Backend -> SUBSET Name] /\ deployed \in [Backend -> SUBSET Name]
  /\ \A b \in Backend : Default \in exists[b] /\ deployed[b] \subseteq exists[b]
  /\ run \in 0..MaxRuns
  /\ pc \in [Test -> Step] /\ start \in [Test -> Name] /\ failed \in [Test -> BOOLEAN]
  /\ DOMAIN plan = Test /\ DOMAIN checked = Test
  /\ runner \in Runner
  /\ result \in [Target(runner) -> {"todo", "running", "ok", "failed"}]
  /\ unformatted \subseteq SourceKind /\ rewritten \subseteq SourceKind

\* A unit test that passed has left the directory as it found it: selected is what
\* was so when the run began, or the default if the run has removed .terraform
\* since, and the test's own workspace is gone (the deferred statements of
\* RunUnitTests).
PassedLeavesNoTrace ==
  \A t \in Test \ Integration : Passed(t) /\ ~Between =>
    /\ selected[DirOf[t]] = Basis(DirOf[t])
    /\ workspaceName(t) \notin exists[Home(t)]

\* Cleaning up fails for no reason of its own: when no check and no command of a
\* unit test failed, its workspace can be deleted, although an earlier process
\* may have been killed in it and left it selected or deployed.  That takes a
\* name of its own or a runner that removes .terraform first.
CleanUpSucceeds ==
  \A t \in Test :
    pc[t] = "restored" /\ ~failed[t] /\ (t \in Named \/ runner # "unit")
    => DeleteAccepted(t, workspaceName(t))

\* A plan that passes was made over an empty workspace, although a process that
\* was killed may have left its workspace selected and somebody deployed it
\* (unit.go: "it should be brand new infrastructure on each PR cycle").
FreshPlan ==
  \A t \in Test : pc[t] = "checked" /\ ~failed[t] => workspaceName(t) \notin deployed[Home(t)]

\* While the integration test of a directory runs, its unit test has passed in
\* the same run, whichever runner orders the two.
IntegrationAfterUnit ==
  \A t \in Integration, u \in Test \ Integration :
    /\ Running(t) /\ DirOf[u] = DirOf[t] /\ DirOf[u] \in Below[runner]
    => Passed(u)

\* An integration test that passed has read the outputs of a deployed workspace,
\* although unit tests have moved the selection in the meantime: of the one that
\* was selected when the run began, or, where the run's own cleaning has removed
\* .terraform (CleanAll of the harness), of the default one, whatever was selected
\* before.
IntegrationReadsFound ==
  \A t \in Integration : Passed(t) /\ ~Between =>
    /\ selected[DirOf[t]] = Basis(DirOf[t])
    /\ Basis(DirOf[t]) \in deployed[Home(t)]

\* No test runs on sources that the run itself has rewritten: the commands that
\* check the format also correct it.
TestsOnFormattedSources == (\E t \in Test : pc[t] # "idle") /\ ~Between => rewritten = {}

\* Every run comes to an end, also when tests are killed.
EveryRunEnds == (run > 0) ~> Ended
=============================================================================
