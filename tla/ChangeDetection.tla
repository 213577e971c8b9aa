-------------------------- MODULE ChangeDetection --------------------------
(***************************************************************************)
(* Template change detection: devops/infrastructure/tasks/detect-cicd.yml. *)
(* A commit is a tree, a function from paths to contents, so that reverts  *)
(* and commits that change nothing are trees like any other.  MasterLog is *)
(* the first-parent history of master; a pull request is built from a      *)
(* merge commit that is not in it.                                         *)
(***************************************************************************)
EXTENDS Naturals

CONSTANTS
  Path,          \* the tracked files, as classes the script tells apart
  WhiteListed,   \* those that match GIT_DIFF_EXTENSION_WHITE_LIST
  Shared,        \* those under TEST_HARNESS_DIR or PIPELINE_ROOT_DIR
  Modules,       \* those under TF_ROOT_DIR/modules
  Config,        \* the configurations of the pipeline
  Template,      \* Template[c]: those under c's terraformTemplatePath
  Commit,        \* every commit a run may check out
  Tree,          \* Tree[k][p]: what commit k holds at path p
  MasterLength,  \* the number of commits master ever receives
  MasterLog      \* MasterLog[i]: the i-th commit of master

ASSUME DetectionAssumption ==
  /\ WhiteListed \subseteq Path
  /\ Shared \subseteq Path
  /\ Modules \subseteq Path
  /\ \A c \in Config : Template[c] \subseteq Path
  /\ MasterLength \in Nat \ {0}
  /\ MasterLog \in [1..MasterLength -> Commit]

\* git diff --name-only a b
Diff(a, b) == {p \in Path : Tree[a][p] # Tree[b][p]}

\* GIT_DIFF_UPSTREAMBRANCH: position m of master, or the one before it when
\* the checkout has the very tree of master.  Position 0 is the parent of the
\* first commit: it does not exist, git fails and the script goes on.
Upstream(head, m) == IF Diff(head, MasterLog[m]) # {} THEN m ELSE m - 1

\* FILTERED_FILE_CHANGE_SET
FileChangeSet(head, m) ==
  LET u == Upstream(head, m)
  IN  IF u = 0 THEN {} ELSE Diff(head, MasterLog[u]) \cap WhiteListed

\* Fault: MODULE_CHANGES is not looked at.
Watched_NoModules(c) == Shared \cup Template[c]

\* The paths of the four greps that raise needs_cicd.
Watched(c) == Shared \cup Template[c] \cup Modules

NeedsCicd(c, head, m) == FileChangeSet(head, m) \cap Watched(c) # {}

\* What Terraform makes of configuration c at commit k: the template and the
\* modules it calls, and nothing else of the tree.
Rendered(c, k) == [p \in Template[c] \cup Modules |-> Tree[k][p]]
=============================================================================
