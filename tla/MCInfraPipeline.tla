-------------------------- MODULE MCInfraPipeline --------------------------
(***************************************************************************)
(* Instances of InfraPipeline for TLC: a short history of master with one  *)
(* file per class of path, and the pipeline definitions of the repository  *)
(* reduced to two environments.                                            *)
(***************************************************************************)
EXTENDS InfraReview

CONSTANTS ca, cb,          \* configurations
          r1, r2, r3, r4, r5,  \* runs
          x1, x2, x3       \* merge commits of pull requests

MCConfigs1 == {ca}
MCConfigs2 == {ca, cb}

\* Paths: Terraform and Go files of the template and of the modules, a figure
\* of the pipeline's documentation, an ARM template of a module (*.json), and
\* what is not the pipeline's business.
MCPath == {"template", "modules", "figure", "arm", "other"}
MCWhiteListed == MCPath \ {"figure", "arm"}
MCShared == {"figure"}
MCModules == {"modules", "arm"}
MCTriggering == MCPath \ {"other"}
MCTemplate == [c \in Config |-> {"template"}]
MCPrefix == [c \in Config |-> c]
MCNoTeardown == [c \in Config |-> {}]
MCTeardownDev == [c \in Config |-> {1}]
MCNoIsolation == [e \in 1..Environments |-> FALSE]
MCIsolation == [e \in 1..Environments |-> TRUE]

\* Master: commit i+1 changes the paths touched[i].
MCTouched == <<{"template"}, {"other"}, {"modules"}, {"figure"}>>
MCArmTouched == <<{"arm"}>>
MCVersion(touched, i, p) == Cardinality({j \in 1..(i - 1) : p \in touched[j]})
MCMasterLog == [i \in 1..MasterLength |-> i]
MCPrCommits == {x1, x2, x3}
MCCommit == 1..MasterLength \cup MCPrCommits

\* A pull request changes the template.
MCTreeOf(touched) ==
  [k \in MCCommit |-> [p \in MCPath |->
     IF k \in MCPrCommits THEN (IF p = "template" THEN k ELSE 0) ELSE MCVersion(touched, k, p)]]
MCTree == MCTreeOf(MCTouched)
MCArmTree == MCTreeOf(MCArmTouched)
MCPrHead == [r \in PullRequest |-> CASE r = r1 -> x1 [] r = r2 -> x2 [] OTHER -> x3]
MCPrNumber == [r \in PullRequest |-> r]
=============================================================================
