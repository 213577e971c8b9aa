---------------------------- MODULE TestHarness ----------------------------
(***************************************************************************)
(* The tests of Terraform templates: RunUnitTests and RunIntegrationTests  *)
(* of test-harness/infratests.  `go test' runs packages as processes side  *)
(* by side; each works in a Terraform directory, whose selected workspace  *)
(* is a file in .terraform, and on a backend, which holds the workspaces   *)
(* and what is deployed in them.                                           *)
(*                                                                         *)
(* A unit test plans in a workspace of its own, checks the plan, selects   *)
(* again the workspace it found, and deletes its own.  The last two are    *)
(* deferred: they run after a failed check as well, but not when the       *)
(* process is killed or exceeds the timeout of `go test'.                  *)
(***************************************************************************)
EXTENDS PlanValidation

CONSTANTS
  Test,            \* test packages
  Integration,     \* those that call RunIntegrationTests
  Dir, DirOf,      \* DirOf[t]: TerraformDir of the options of t
  Backend,
  BackendOf,       \* BackendOf[d]: the backend the template in d is configured for
  Name,            \* workspace names
  Default,         \* the workspace that always exists
  UnitTesting,     \* "default-unit-testing"
  Named,           \* the packages whose fixture names a workspace: a random one
  RandomName,      \* RandomName[t][n]: the one of t in the n-th run of the tests
  MaxRuns,         \* bound: how often the tests are run
  FreshPlans,      \* FreshPlans[d]: plans over an empty workspace
  ChangePlans,     \* ChangePlans[d]: plans over a deployed one
  Fixtures,        \* Fixtures[t]: the unit test fixtures t may hold
  OutputFixtures,  \* OutputFixtures[t]: the integration test fixtures
  Outputs,         \* Outputs[d]: the outputs of a deployed workspace
  NoPlan,
  Faults           \* whether commands may fail on their own, and processes be killed

ASSUME HarnessAssumption ==
  /\ Integration \subseteq Test /\ Named \subseteq Test
  /\ DirOf \in [Test -> Dir] /\ BackendOf \in [Dir -> Backend]
  /\ Default \in Name /\ UnitTesting \in Name \ {Default}
  /\ MaxRuns \in Nat
  /\ RandomName \in [Test -> [0..MaxRuns -> Name]]
  /\ Faults \in BOOLEAN

\* random.UniqueId: no two names are the same, and none is one of the others.
ASSUME NamesUnique ==
  \A t, u \in Test, m, n \in 0..MaxRuns :
    /\ RandomName[t][m] \notin {Default, UnitTesting}
    /\ RandomName[t][m] = RandomName[u][n] => t = u /\ m = n

\* Terraform: what is deployed is not created once more.
ASSUME PlansAssumption ==
  \A d \in Dir : \A p \in ChangePlans[d] :
    \E a \in DOMAIN p : ~(p[a].actions \subseteq {"create", "read"})

\* Every integration test expects outputs.
ASSUME OutputsExpected ==
  \A t \in Integration : \A f \in OutputFixtures[t] : f.ExpectedTfOutputCount # 0

VARIABLES
  selected,  \* selected[d]: the workspace that is selected in d
  exists,    \* exists[b]: the workspaces of the backend
  deployed,  \* deployed[b]: those that hold resources
  run,       \* how often the tests were started
  pc,        \* pc[t]: how far the test process of t is
  start,     \* start[t]: startingWorkspaceName
  plan,      \* plan[t]: the plan file
  checked,   \* checked[t]: the fixture the plan was checked against
  failed     \* failed[t]: t.Fatal was called

harnessVars == <<selected, exists, deployed, run, pc, start, plan, checked, failed>>
world == <<selected, exists, deployed>>

Step == {"idle", "started", "initialized", "selected", "planned", "checked",
         "unwinding", "restored", "over", "killed"}

NoFixture == [ExpectedResourceCount |-> 0, ExpectedResourceAttributeValues |-> <<>>]

-----------------------------------------------------------------------------
Home(t) == BackendOf[DirOf[t]]

workspaceName(t) == IF t \in Named THEN RandomName[t][run] ELSE UnitTesting

\* Fault: a process that was killed is waited for.
Running_Forever(t) == pc[t] \notin {"idle", "over"}

Running(t) == pc[t] \notin {"idle", "over", "killed"}
Passed(t) == pc[t] = "over" /\ ~failed[t]

Goes(t, s) == pc' = [pc EXCEPT ![t] = s]
Fatal(t) == failed' = [failed EXCEPT ![t] = TRUE]

\* terraform.WorkspaceSelectOrNew.
SelectOrNew(t, w) ==
  /\ exists' = [exists EXCEPT ![Home(t)] = @ \cup {w}]
  /\ selected' = [selected EXCEPT ![DirOf[t]] = w]
  /\ UNCHANGED deployed

\* Fault: workspace delete -force.
DeleteAccepted_Force(t, w) == TRUE

\* terraform workspace delete.
DeleteAccepted(t, w) ==
  /\ selected[DirOf[t]] # w
  /\ w \in exists[Home(t)]
  /\ w \notin deployed[Home(t)]

-----------------------------------------------------------------------------
(* One test process.                                                       *)

\* terraform init, and what the process reads before it changes anything: a
\* unit test the name of the selected workspace.
Initialize(t) ==
  /\ pc[t] = "started"
  /\ start' = [start EXCEPT ![t] = selected[DirOf[t]]]
  /\ Goes(t, "initialized")
  /\ UNCHANGED <<world, run, plan, checked, failed>>

SelectOwn(t) ==
  /\ t \notin Integration /\ pc[t] = "initialized"
  /\ SelectOrNew(t, workspaceName(t))
  /\ Goes(t, "selected")
  /\ UNCHANGED <<run, start, plan, checked, failed>>

\* terraform plan -out.
MakePlan(t) ==
  LET d == DirOf[t] IN
  /\ pc[t] = "selected"
  /\ \E p \in (IF selected[d] \in deployed[Home(t)] THEN ChangePlans[d] ELSE FreshPlans[d]) :
       plan' = [plan EXCEPT ![t] = p]
  /\ Goes(t, "planned")
  /\ UNCHANGED <<world, run, start, checked, failed>>

\* validateTerraformPlanFile.
CheckPlan(t) ==
  /\ pc[t] = "planned"
  /\ \E f \in Fixtures[t] :
       /\ checked' = [checked EXCEPT ![t] = f]
       /\ failed' = [failed EXCEPT ![t] = ~validateTerraformPlanFile(f, plan[t])]
  /\ Goes(t, "checked")
  /\ UNCHANGED <<world, run, start, plan>>

\* Fault: the workspace that always exists is selected.
PutBack_Default(t) == SelectOrNew(t, Default)

\* The deferred selection of the workspace the test found.
PutBack(t) == SelectOrNew(t, start[t])

\* The deferred statements, last one first: the plan file is removed and the
\* starting workspace selected ...
Restore(t) ==
  /\ pc[t] \in {"checked", "unwinding"}
  /\ PutBack(t)
  /\ plan' = [plan EXCEPT ![t] = NoPlan]
  /\ checked' = [checked EXCEPT ![t] = NoFixture]
  /\ Goes(t, "restored")
  /\ UNCHANGED <<run, start, failed>>

\* ... and the test's own workspace deleted.
DeleteOwn(t) ==
  LET accepted == DeleteAccepted(t, workspaceName(t)) IN
  /\ pc[t] = "restored"
  /\ exists' = IF accepted
               THEN [exists EXCEPT ![Home(t)] = @ \ {workspaceName(t)}] ELSE exists
  /\ deployed' = [deployed EXCEPT ![Home(t)] = @ \cap exists'[Home(t)]]
  /\ failed' = [failed EXCEPT ![t] = @ \/ ~accepted]
  /\ Goes(t, "over")
  /\ UNCHANGED <<selected, run, start, plan, checked>>

\* terraform output in the workspace that is selected, and the checks of it.  A
\* workspace without resources has no outputs.
CheckOutput(t) ==
  LET d == DirOf[t] IN
  /\ t \in Integration /\ pc[t] = "initialized"
  /\ \E f \in OutputFixtures[t],
        o \in (IF selected[d] \in deployed[Home(t)] THEN Outputs[d] ELSE {<<>>}) :
       failed' = [failed EXCEPT ![t] = ~validateTerraformOutput(f, o)]
  /\ Goes(t, "over")
  /\ UNCHANGED <<world, run, start, plan, checked>>

\* A command that fails calls t.Fatal.  Before the deferred statements are
\* registered that is the end of the test, also when `workspace select' itself
\* succeeded and the `workspace show' after it failed.  Later they still run,
\* and each may fail in turn, selecting with or without effect.
CommandFails(t) ==
  /\ Faults
  /\ Fatal(t)
  /\ \/ /\ pc[t] \in {"started", "initialized"}
        /\ Goes(t, "over")
        /\ \/ UNCHANGED world
           \/ /\ pc[t] = "initialized" /\ t \notin Integration
              /\ SelectOrNew(t, workspaceName(t))
        /\ UNCHANGED <<plan, checked>>
     \/ /\ pc[t] \in {"selected", "planned"}
        /\ Goes(t, "unwinding")
        /\ UNCHANGED <<world, plan, checked>>
     \/ /\ pc[t] \in {"checked", "unwinding"}
        /\ Goes(t, "restored")
        /\ plan' = [plan EXCEPT ![t] = NoPlan]
        /\ checked' = [checked EXCEPT ![t] = NoFixture]
        /\ UNCHANGED world \/ PutBack(t)
     \/ /\ pc[t] = "restored"
        /\ Goes(t, "over")
        /\ UNCHANGED <<world, plan, checked>>
  /\ UNCHANGED <<run, start>>

\* A timeout or an interrupt ends the process where it is.
Killed(t) ==
  /\ Faults /\ Running(t)
  /\ Goes(t, "killed")
  /\ plan' = [plan EXCEPT ![t] = NoPlan]
  /\ checked' = [checked EXCEPT ![t] = NoFixture]
  /\ UNCHANGED <<world, run, start, failed>>

TestStep(t) ==
  \/ Initialize(t) \/ SelectOwn(t) \/ MakePlan(t) \/ CheckPlan(t)
  \/ Restore(t) \/ DeleteOwn(t) \/ CheckOutput(t) \/ CommandFails(t)

-----------------------------------------------------------------------------
\* go test <packages>.
GoTest(packages) ==
  /\ pc' = [t \in Test |-> IF t \in packages THEN "started" ELSE pc[t]]
  /\ failed' = [t \in Test |-> IF t \in packages THEN FALSE ELSE failed[t]]
  /\ UNCHANGED <<world, run, start, plan, checked>>
=============================================================================
