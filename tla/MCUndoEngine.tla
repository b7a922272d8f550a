---------------------------- MODULE MCUndoEngine ----------------------------
(* Instances of UndoEngine for TLC.                                         *)
EXTENDS UndoEngine

CONSTANTS m, b, s1, s2, t1, x1

=============================================================================
