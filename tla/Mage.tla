-------------------------------- MODULE Mage --------------------------------
(***************************************************************************)
(* The task runners: the magefiles of the test harness, of the Terraform   *)
(* modules and of two families of templates.                               *)
(*                                                                         *)
(* mg.Deps runs a target once in a process, after those it depends on, one *)
(* at a time here since every call names one target.  A target that fails  *)
(* ends the process: mg.Deps panics in all that wait for it.               *)
(***************************************************************************)
EXTENDS Naturals, Sequences

VARIABLES
  runner,       \* which runner was started
  result,       \* result[t]: what became of target t in this process
  unformatted,  \* the kinds of source files `go fmt' or `terraform fmt' would change
  rewritten     \* those they changed in this run

mageVars == <<runner, result, unformatted, rewritten>>

\* "unit" is the harness started with RunUnitTests, the others with their default.
Runner == {"harness", "unit", "modules", "mvp", "resources"}

\* The Terraform files are those of the working directory: `terraform fmt' does
\* not visit its subdirectories.
SourceKind == {"go", "terraform"}

-----------------------------------------------------------------------------
(* What depends on what.  Fault: the integration tests of a template do    *)
(* not wait for its unit tests.                                            *)

HarnessDeps ==
  [RunAllTargets |-> <<"CleanAll", "LintCheckGo", "LintCheckTerraform",
                       "RunTestHarnessUnitTests", "RunUnitTests", "RunIntegrationTests">>,
   CleanAll |-> <<>>, LintCheckGo |-> <<>>, LintCheckTerraform |-> <<>>,
   RunTestHarnessUnitTests |-> <<>>, RunUnitTests |-> <<>>, RunIntegrationTests |-> <<>>]

ModulesDeps ==
  [All |-> <<"TestModules">>, TestModules |-> <<"Clean", "Check">>, Clean |-> <<>>,
   Check |-> <<"LintTF", "LintGO">>, LintTF |-> <<>>, LintGO |-> <<>>]

MvpDeps_Unordered ==
  [All |-> <<"CentralTests", "ServiceTests", "PartitionTests">>,
   CentralTests |-> <<"CentralIntegrationTest", "CentralUnitTest">>,
   CentralUnitTest |-> <<"Check">>, CentralIntegrationTest |-> <<"Check">>,
   ServiceTests |-> <<"ServiceUnitTest", "ServiceIntegrationTest">>,
   ServiceUnitTest |-> <<"Check">>, ServiceIntegrationTest |-> <<"Check">>,
   PartitionTests |-> <<"PartitionUnitTest", "PartitionIntegrationTest">>,
   PartitionUnitTest |-> <<"Check">>, PartitionIntegrationTest |-> <<"Check">>,
   Check |-> <<"LintTF", "LintGO">>, LintTF |-> <<>>, LintGO |-> <<>>]

MvpDeps ==
  [All |-> <<"CentralTests", "ServiceTests", "PartitionTests">>,
   CentralTests |-> <<"CentralUnitTest", "CentralIntegrationTest">>,
   CentralUnitTest |-> <<"Check">>, CentralIntegrationTest |-> <<"Check">>,
   ServiceTests |-> <<"ServiceUnitTest", "ServiceIntegrationTest">>,
   ServiceUnitTest |-> <<"Check">>, ServiceIntegrationTest |-> <<"Check">>,
   PartitionTests |-> <<"PartitionUnitTest", "PartitionIntegrationTest">>,
   PartitionUnitTest |-> <<"Check">>, PartitionIntegrationTest |-> <<"Check">>,
   Check |-> <<"LintTF", "LintGO">>, LintTF |-> <<>>, LintGO |-> <<>>]

ResourcesDeps ==
  [All |-> <<"TestCommonResources", "TestDataResources", "TestServiceResources">>,
   TestCommonResources |-> <<"CommonUnitTest", "CommonIntegrationTest">>,
   CommonUnitTest |-> <<"Check">>, CommonIntegrationTest |-> <<"Check">>,
   TestDataResources |-> <<"DataUnitTest", "DataIntegrationTest">>,
   DataUnitTest |-> <<"Check">>, DataIntegrationTest |-> <<"Check">>,
   TestServiceResources |-> <<"ServiceUnitTest", "ServiceIntegrationTest">>,
   ServiceUnitTest |-> <<"Check">>, ServiceIntegrationTest |-> <<"Check">>,
   Check |-> <<"LintTF", "LintGO">>, LintTF |-> <<>>, LintGO |-> <<>>]

Deps(r) == CASE r \in {"harness", "unit"} -> HarnessDeps [] r = "modules" -> ModulesDeps
             [] r = "mvp" -> MvpDeps [] r = "resources" -> ResourcesDeps

Main(r) == CASE r = "harness" -> "RunAllTargets" [] r = "unit" -> "RunUnitTests" [] OTHER -> "All"

\* What a target does after its dependencies.  A path suffix stands for
\* FindAndRunTests.
Body(t) ==
  CASE t \in {"CleanAll", "Clean"}             -> "clean"
    [] t \in {"LintCheckGo", "LintGO"}         -> "go fmt"
    [] t \in {"LintCheckTerraform", "LintTF"}  -> "terraform fmt"
    [] t = "RunTestHarnessUnitTests"           -> "test the harness"
    [] t = "RunUnitTests"                      -> "unit"
    [] t = "RunIntegrationTests"               -> "integration"
    [] t = "TestModules"                       -> "testing"
    [] t = "CentralUnitTest"                   -> "central_resources/tests/unit"
    [] t = "CentralIntegrationTest"            -> "central_resources/tests/integration"
    [] t = "ServiceUnitTest"                   -> "service_resources/tests/unit"
    [] t = "ServiceIntegrationTest"            -> "service_resources/tests/integration"
    [] t = "PartitionUnitTest"                 -> "data_partition/tests/unit"
    [] t = "PartitionIntegrationTest"          -> "data_partition/tests/integration"
    [] t = "CommonUnitTest"                    -> "common_resources/tests/unit"
    [] t = "CommonIntegrationTest"             -> "common_resources/tests/integration"
    [] t = "DataUnitTest"                      -> "data_resources/tests/unit"
    [] t = "DataIntegrationTest"               -> "data_resources/tests/integration"
    [] OTHER                                   -> "none"

Suffix ==
  {"unit", "integration", "testing",
   "central_resources/tests/unit", "central_resources/tests/integration",
   "service_resources/tests/unit", "service_resources/tests/integration",
   "data_partition/tests/unit", "data_partition/tests/integration",
   "common_resources/tests/unit", "common_resources/tests/integration",
   "data_resources/tests/unit", "data_resources/tests/integration"}

-----------------------------------------------------------------------------
Target(r) == DOMAIN Deps(r)
Todo(r) == [t \in Target(r) |-> "todo"]

Aborted == \E t \in DOMAIN result : result[t] = "failed"
Green == result[Main(runner)] = "ok"
Ended == Green \/ Aborted

Open(t) == {i \in DOMAIN Deps(runner)[t] : result[Deps(runner)[t][i]] # "ok"}

\* Down[t]: what is due of t, that is t itself once all its dependencies are
\* done, and what is due of the first that is not before.
Down[t \in Target(runner)] ==
  IF Open(t) = {} THEN t
  ELSE Down[Deps(runner)[t][CHOOSE i \in Open(t) : \A j \in Open(t) : i <= j]]

\* The target whose body is due.
Current == Down[Main(runner)]

Due(body) == ~Ended /\ result[Current] = "todo" /\ Body(Current) = body
Becomes(outcome) == result' = [result EXCEPT ![Current] = outcome]

\* A target without a body of its own.
Group == Due("none") /\ Becomes("ok") /\ UNCHANGED <<runner, unformatted, rewritten>>

Changes(cmd) == IF cmd = "go fmt" THEN {"go"} ELSE {"terraform"}

\* Fault: the exit code alone decides.
RunsQuietly_ExitCode(cmd) == TRUE

\* verifyRunsQuietly: both commands name the files they rewrite.
RunsQuietly(cmd) == Changes(cmd) \cap unformatted = {}

Lint(cmd) ==
  /\ Due(cmd)
  /\ Becomes(IF RunsQuietly(cmd) THEN "ok" ELSE "failed")
  /\ rewritten' = rewritten \cup (Changes(cmd) \cap unformatted)
  /\ unformatted' = unformatted \ Changes(cmd)
  /\ UNCHANGED runner
=============================================================================
