---------------------------- MODULE MCGraphEpoch ----------------------------
(* Instances of GraphEpoch for TLC.                                         *)
EXTENDS GraphEpoch

=============================================================================
