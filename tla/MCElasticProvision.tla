------------------------- MODULE MCElasticProvision -------------------------
(***************************************************************************)
(* Instances of ElasticProvision for TLC: the agents of a pipeline.        *)
(***************************************************************************)
EXTENDS ElasticProvision

CONSTANTS h1, h2
MCHost == {h1, h2}
=============================================================================
