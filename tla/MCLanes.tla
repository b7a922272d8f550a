------------------------------- MODULE MCLanes -------------------------------
(* Instances of Lanes for TLC.                                              *)
EXTENDS Lanes

=============================================================================
