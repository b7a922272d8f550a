----------------------------- MODULE MCAutoStash -----------------------------
(* Instances of AutoStash for TLC.                                          *)
EXTENDS AutoStash

CONSTANTS e1, e2, e3, e4

=============================================================================
