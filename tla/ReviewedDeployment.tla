------------------------- MODULE ReviewedDeployment -------------------------
(***************************************************************************)
(* What the infrastructure pipeline promises whoever approves a            *)
(* deployment: a workspace changes only from the content a proposal was    *)
(* made for to the content it proposes (or breaks off on the way there),   *)
(* or because the environment is one that is torn down.                    *)
(***************************************************************************)
CONSTANTS
  Proposer,    \* who proposes: the runs
  Workspace,   \* what is deployed to
  Disposable,  \* the workspaces that are torn down
  Contents,    \* what a workspace may hold
  Empty, Partial

VARIABLES
  content,     \* content[w]
  proposal     \* proposal[r][w]: the change that r proposes, if it does

Init ==
  /\ content \in [Workspace -> Contents]
  /\ proposal = [r \in Proposer |-> [w \in Workspace |-> {}]]

Propose(r, w) ==
  /\ \E k \in Contents :
       proposal' = [proposal EXCEPT ![r][w] = {[base |-> content[w], target |-> k]}]
  /\ UNCHANGED content

\* The change takes place, as a whole or not.
Carry(r, w) ==
  /\ \E p \in proposal[r][w] :
       /\ p.base = content[w]
       /\ \E k \in {p.target, Partial} : content' = [content EXCEPT ![w] = k]
  /\ UNCHANGED proposal

Dispose(w) ==
  /\ w \in Disposable
  /\ \E k \in {Empty, Partial} : content' = [content EXCEPT ![w] = k]
  /\ UNCHANGED proposal

Next ==
  \/ \E r \in Proposer, w \in Workspace : Propose(r, w) \/ Carry(r, w)
  \/ \E w \in Workspace : Dispose(w)

Spec == Init /\ [][Next]_<<content, proposal>>
=============================================================================
