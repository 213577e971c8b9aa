--------------------------- MODULE TerraformState ---------------------------
(***************************************************************************)
(* The azurerm backend of Terraform 0.12 as the pipeline's tasks use it:   *)
(* one state per workspace, with a lineage given at creation, a serial     *)
(* raised by each write that changes it, and a lock (a blob lease) that    *)
(* plan, apply and destroy hold.  Terraform is not in this repository.     *)
(***************************************************************************)
EXTENDS Naturals

CONSTANTS
  Workspace,  \* the workspace names
  Holder,     \* the jobs that may take a lock
  Free,       \* the lock of a state nobody holds
  Empty,      \* the content of a state without resources
  Partial     \* the content after an apply or a destroy that broke off


VARIABLES
  tfstate,    \* tfstate[w]: lineage (0: no such workspace), serial, content, lock
  lineages    \* how many lineages were given out

Absent == [lineage |-> 0, serial |-> 0, content |-> Empty, lock |-> Free]

BackendInit ==
  /\ tfstate = [w \in Workspace |-> Absent]
  /\ lineages = 0

Exists(w) == tfstate[w].lineage # 0

\* The state of w once it is opened: a workspace that has none gets an empty
\* state of a new lineage.
Opened(w) ==
  IF Exists(w) THEN tfstate[w]
  ELSE [lineage |-> lineages + 1, serial |-> 1, content |-> Empty, lock |-> Free]

Open(w, l) ==
  /\ tfstate' = [tfstate EXCEPT ![w] = [Opened(w) EXCEPT !.lock = l]]
  /\ lineages' = IF Exists(w) THEN lineages ELSE lineages + 1

\* terraform workspace new w || terraform workspace select w
NewOrSelect(w) == Open(w, Opened(w).lock)

CanLock(w) == tfstate[w].lock = Free

\* The holder of the lock lets go of it (l = Free), or is killed and does not.
Release(w, l) ==
  /\ tfstate' = [tfstate EXCEPT ![w].lock = l]
  /\ UNCHANGED lineages

\* The holder of the lock writes content k first; a write that changes
\* something raises the serial.
Persist(w, k, l) ==
  /\ tfstate' = [tfstate EXCEPT
       ![w].serial = IF k = tfstate[w].content /\ k # Partial THEN @ ELSE @ + 1,
       ![w].content = k,
       ![w].lock = l]
  /\ UNCHANGED lineages

\* terraform workspace delete w: refused while the state tracks resources or
\* is locked.
CanDelete(w) == Exists(w) /\ CanLock(w) /\ tfstate[w].content = Empty

Delete(w) ==
  /\ tfstate' = [tfstate EXCEPT ![w] = Absent]
  /\ UNCHANGED lineages

\* The check behind "Saved plan is stale".
Fresh(w, plan) ==
  /\ plan.lineage = tfstate[w].lineage
  /\ plan.serial = tfstate[w].serial
=============================================================================
