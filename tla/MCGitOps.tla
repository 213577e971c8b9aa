------------------------------ MODULE MCGitOps ------------------------------
(***************************************************************************)
(* Instances of GitOps for TLC: service x with a deployment, whose image   *)
(* tag differs in every build, and a configuration, and service y with one *)
(* manifest; x also keeps a copy outside the registry.  Nothing orders the *)
(* builds of x, those of y run one after the other.                        *)
(***************************************************************************)
EXTENDS GitOps

CONSTANTS x1, x2, x3, y1, y2,  \* builds
          x, y                 \* services

MCServiceOf == [b \in Build |-> IF b \in {y1, y2} THEN y ELSE x]
MCNumber == [b \in Build |-> CASE b = x1 -> 1 [] b = x2 -> 2 [] b = x3 -> 3
                              [] b = y1 -> 1 [] b = y2 -> 2]
MCRegistry == {"x/deployment", "x/config", "y/deployment"}
MCPath == MCRegistry \cup {"generated/x"}

\* The third build of x is one with skipDeploy.
MCWrites ==
  [b \in Build |-> CASE b \in {y1, y2} -> {"y/deployment"}
                     [] b = x3 -> {"generated/x"}
                     [] OTHER  -> {"x/deployment", "x/config", "generated/x"}]

\* The configuration of x changes with its second build only.
MCRendering ==
  [b \in Build |-> [p \in MCWrites[b] |->
     IF p = "x/config" THEN (IF b = x1 THEN 0 ELSE 2) ELSE MCNumber[b]]]
MCInOrder == {y}
MCOriginal == [p \in MCPath |-> 0]

\* The manifests of these instances are tagged.
ASSUME MCTagged == Tagged
=============================================================================
