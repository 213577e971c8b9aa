---------------------------- MODULE InfraReview ----------------------------
(***************************************************************************)
(* The infrastructure pipeline implements ReviewedDeployment: a saved plan *)
(* is a proposal, and the lineage and serial it carries stand for the      *)
(* content it was made for.                                                *)
(***************************************************************************)
EXTENDS InfraPipeline

ReviewContent == [w \in Workspace |-> tfstate[w].content]

ConfigOf(w) == CHOOSE c \in Config : Prefix[c] = w[3]

ReviewProposal ==
  [r \in Run |-> [w \in Workspace |->
     IF artifact[r][w] = NoPlan THEN {}
     ELSE {[base |-> artifact[r][w].base,
            target |-> Rendered(ConfigOf(w), artifact[r][w].head)]}]]

DisposableWorkspace == {WorkspaceName(s) : s \in {t \in Slot : TornDown(t)}}

Review == INSTANCE ReviewedDeployment WITH
  Proposer <- Run, Disposable <- DisposableWorkspace, Contents <- AnyContent,
  content <- ReviewContent, proposal <- ReviewProposal

\* Every step of the pipeline is, for the one who approves, a proposal, the
\* carrying out of a proposal in the state it was made for, a teardown, or
\* nothing.
ImplementsReview == Review!Spec
=============================================================================
