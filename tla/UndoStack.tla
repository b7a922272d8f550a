------------------------------ MODULE UndoStack ------------------------------
(****************************************************************************)
(* What the undo journal promises: a value and the stack of writes that     *)
(* made it.  Undoing a write puts back, in one step, the value it started   *)
(* from, and takes that write and every later one off the stack; it is      *)
(* refused once the value is no longer what the newest write left.  A crash *)
(* may fray the top of the stack; the next write then loses it.             *)
(****************************************************************************)
EXTENDS Naturals

CONSTANTS Values, MaxTx

VARIABLES
    value,  \* HEAD and the branches
    stack,  \* the writes that can be undone
    frayed  \* the next write loses the top of the stack, and itself

Writes == [id : 1..MaxTx, success : BOOLEAN, before : Values, after : Values]

Top(w) == w \in stack /\ \A x \in stack : x.id <= w.id
Below(id) == {w \in stack : w.id < id}

Init == value \in Values /\ stack = {} /\ frayed = FALSE

(* A journaled write: its effect and its entry appear together.             *)
Write ==
    /\ ~frayed /\ frayed' = frayed
    /\ value' \in Values
    /\ \E w \in {[id |-> i, success |-> ok, before |-> value, after |-> value'] :
                   i \in 1..MaxTx, ok \in BOOLEAN} :
          /\ \A x \in stack : x.id < w.id
          /\ stack' = stack \cup {w}

(* A crash in the middle of the newest entry's line.                        *)
Fray == stack # {} /\ frayed' = TRUE /\ UNCHANGED <<value, stack>>

(* The write after it: neither of the two can be undone.                    *)
LostWrite ==
    /\ frayed /\ frayed' = FALSE
    /\ value' \in Values
    /\ stack' = {w \in stack : ~Top(w)}

(* A change that is no undoable write: a write the process did not live to  *)
(* journal, or one whose line was appended to half a line.                  *)
Drift == value' \in Values /\ UNCHANGED <<stack, frayed>>

Undo ==
    /\ frayed' = FALSE
    /\ \E w \in stack :
          /\ w.success
          /\ \E t \in stack : Top(t) /\ value = t.after
          /\ value' = w.before
          /\ stack' = Below(w.id)

(* Undoing a write that failed only takes it, and what came after, away.    *)
Discard ==
    /\ frayed' = FALSE /\ value' = value
    /\ \E w \in stack : ~w.success /\ stack' = Below(w.id)

Next == Write \/ Fray \/ LostWrite \/ Drift \/ Undo \/ Discard

Spec == Init /\ [][Next]_<<value, stack, frayed>>

=============================================================================
