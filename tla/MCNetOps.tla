------------------------------ MODULE MCNetOps ------------------------------
(* The instances of NetOps that TLC checks: two branches, two changes.      *)
EXTENDS NetOps, TLC

=============================================================================
