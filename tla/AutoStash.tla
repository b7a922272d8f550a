------------------------------- MODULE AutoStash -------------------------------
(****************************************************************************)
(* The stash flows of crates/engine/src/write_queue.rs: run_with_auto_stash *)
(* around a branch switch or a pull (status - stash push - operation -      *)
(* stash pop), and the stashPush, stashPop and stashDrop requests that run  *)
(* on the same queue.  The user edits files at any moment; another git      *)
(* process may use the stash between two of the flow's subprocesses.        *)
(****************************************************************************)
EXTENDS Naturals, Sequences, SequencesExt

CONSTANTS
    Edits,      \* uncommitted changes a user can make
    Untracked,  \* those that are new files
    Staged,     \* those that are staged
    Sticky,     \* those git status reports and git stash does not save
                \* (changes inside a submodule)
    MaxStash,   \* bound: entries in the stash
    Faults      \* "crash": the engine dies; "external": another git process

ASSUME EditsAssumption ==
    /\ Untracked \cup Staged \cup Sticky \subseteq Edits
    /\ Untracked \cap Staged = {}
    /\ Faults \subseteq {"crash", "external"}
ASSUME MaxStashAssumption == MaxStash \in Nat

(* A stash entry, and whether the auto-stash in hand made it.               *)
Entries == [edits : SUBSET Edits, own : BOOLEAN]

VARIABLES
    work,      \* the edits in the worktree
    stash,     \* the stash, newest entry first
    unmerged,  \* the index has conflicts
    pc,        \* where run_with_auto_stash is
    stashed,   \* its flag of that name
    opOk,      \* its main operation succeeded
    mine,      \* history: the edits it found when it stashed, less those the
               \* user took back since
    vain,      \* history: there was nothing for its stash push to save
    meddled,   \* history: another process used the stash since it began
    reply      \* what the last command answered

vars == <<work, stash, unmerged, pc, stashed, opOk, mine, vain, meddled, reply>>

Replies == {"none", "ok", "err", "aborted", "opFailed", "stranded", "retained"}

(* The flag says "stashed" from the stash push to the end of the run only.  *)
TypeOK ==
    /\ work \in SUBSET Edits
    /\ stash \in Seq(Entries) /\ Len(stash) <= MaxStash
    /\ unmerged \in BOOLEAN
    /\ pc \in {"idle", "check", "push", "op", "pop"}
    /\ stashed \in BOOLEAN /\ opOk \in BOOLEAN
    /\ mine \in SUBSET Edits /\ vain \in BOOLEAN /\ meddled \in BOOLEAN
    /\ reply \in Replies
    /\ pc \in {"check", "push"} => ~stashed
    /\ pc = "pop" => stashed

Init ==
    /\ work \in SUBSET Edits /\ stash = <<>> /\ unmerged = FALSE
    /\ pc = "idle" /\ stashed = FALSE /\ opOk = FALSE
    /\ mine = {} /\ vain = FALSE /\ meddled = FALSE /\ reply = "none"

InStash == UNION {stash[i].edits : i \in DOMAIN stash}

-----------------------------------------------------------------------------
(* The git stash commands.                                                  *)

(* What git stash push [-u] [--staged] saves.                               *)
Selected(untracked, stagedOnly) ==
    IF stagedOnly THEN (work \cap Staged) \ Sticky
                  ELSE work \ (Sticky \cup IF untracked THEN {} ELSE Untracked)

(* With nothing to save git succeeds and makes no entry.                    *)
GitPush(saved, own) ==
    /\ ~unmerged
    /\ IF saved = {} THEN UNCHANGED <<work, stash>>
       ELSE /\ Len(stash) < MaxStash
            /\ stash' = <<[edits |-> saved, own |-> own]>> \o stash
            /\ work' = work \ saved
    /\ UNCHANGED unmerged

(* Entry i goes back into the worktree; pop, unlike apply, then drops it.   *)
GitPop(i, apply) ==
    /\ i \in DOMAIN stash /\ ~unmerged
    /\ work' = work \cup stash[i].edits
    /\ stash' = IF apply THEN stash ELSE RemoveAt(stash, i)
    /\ UNCHANGED unmerged

(* A merge conflict: the edits arrive with markers and the entry is kept.   *)
GitPopConflicts(i) ==
    /\ i \in DOMAIN stash /\ ~unmerged
    /\ work' = work \cup stash[i].edits
    /\ unmerged' = TRUE
    /\ UNCHANGED stash

(* No such entry, an unmerged index, or local changes in the way: nothing.  *)
PopRefused(i) == i \notin DOMAIN stash \/ unmerged \/ work # {}

-----------------------------------------------------------------------------
(* run_with_auto_stash.                                                     *)

(* The entries of a finished run are the user's like any other.             *)
Settled(s) == [i \in DOMAIN s |-> [s[i] EXCEPT !.own = FALSE]]

(* Mutant: the flag of the last run is not reset.                           *)
BeginKeepsFlag ==
    /\ pc = "idle"
    /\ \E autoStash \in BOOLEAN : pc' = IF autoStash THEN "check" ELSE "op"
    /\ stash' = Settled(stash)
    /\ mine' = {} /\ vain' = FALSE /\ meddled' = FALSE /\ reply' = "none"
    /\ UNCHANGED <<work, unmerged, stashed, opOk>>

(* switchBranch or pull, with or without autoStash.                         *)
Begin ==
    /\ pc = "idle"
    /\ \E autoStash \in BOOLEAN : pc' = IF autoStash THEN "check" ELSE "op"
    /\ stash' = Settled(stash)
    /\ stashed' = FALSE /\ reply' = "none"
    /\ mine' = {} /\ vain' = FALSE /\ meddled' = FALSE
    /\ UNCHANGED <<work, unmerged, opOk>>

CheckDirty ==
    /\ pc = "check"
    /\ pc' = IF work # {} \/ unmerged THEN "push" ELSE "op"
    /\ UNCHANGED <<work, stash, unmerged, stashed, opOk, mine, vain, meddled, reply>>

(* Mutant: the stash leaves untracked files out.                            *)
AutoPushTracked ==
    /\ pc = "push"
    /\ GitPush(Selected(FALSE, FALSE), TRUE)
    /\ stashed' = TRUE /\ mine' = work /\ vain' = (work \subseteq Sticky) /\ pc' = "op"
    /\ UNCHANGED <<opOk, meddled, reply>>

AutoPush ==
    /\ pc = "push"
    /\ GitPush(Selected(TRUE, FALSE), TRUE)
    /\ stashed' = TRUE /\ mine' = work /\ vain' = (work \subseteq Sticky) /\ pc' = "op"
    /\ UNCHANGED <<opOk, meddled, reply>>

(* The stash push fails, always so on an unmerged index: nothing is run.    *)
AutoPushFails ==
    /\ pc = "push"
    /\ pc' = "idle" /\ reply' = "aborted"
    /\ UNCHANGED <<work, stash, unmerged, stashed, opOk, mine, vain, meddled>>

Finish(answer) == pc' = "idle" /\ reply' = answer /\ UNCHANGED <<stashed, opOk, mine, vain, meddled>>

OpSucceeds ==
    /\ pc = "op" /\ ~unmerged
    /\ IF stashed THEN pc' = "pop" /\ reply' = reply
                  ELSE pc' = "idle" /\ reply' = "ok"
    /\ opOk' = TRUE
    /\ UNCHANGED <<work, stash, unmerged, stashed, mine, vain, meddled>>

(* Mutant: the error is returned without putting the stash back.            *)
OpFailsNoPop ==
    /\ pc = "op"
    /\ unmerged' \in {unmerged, TRUE}
    /\ pc' = "idle" /\ reply' = "opFailed"
    /\ opOk' = FALSE
    /\ UNCHANGED <<work, stash, stashed, mine, vain, meddled>>

(* It fails, and a pull may leave merge conflicts.                          *)
OpFails ==
    /\ pc = "op"
    /\ unmerged' \in {unmerged, TRUE}
    /\ IF stashed THEN pc' = "pop" /\ reply' = reply
                  ELSE pc' = "idle" /\ reply' = "opFailed"
    /\ opOk' = FALSE
    /\ UNCHANGED <<work, stash, stashed, mine, vain, meddled>>

(* Mutant: the stash is applied and kept.                                   *)
PopBackApplies ==
    /\ pc = "pop"
    /\ GitPop(1, TRUE)
    /\ Finish(IF opOk THEN "ok" ELSE "opFailed")

PopBack ==
    /\ pc = "pop"
    /\ GitPop(1, FALSE)
    /\ Finish(IF opOk THEN "ok" ELSE "opFailed")

(* "... the changes are retained in the stash", whichever way it fails.  On *)
(* the base the run's own entry was made from it cannot conflict.           *)
PopBackFails ==
    /\ pc = "pop"
    /\ \/ GitPopConflicts(1) /\ (opOk \/ ~stash[1].own \/ "external" \in Faults)
       \/ PopRefused(1) /\ UNCHANGED <<work, stash, unmerged>>
    /\ Finish(IF opOk THEN "retained" ELSE "stranded")

-----------------------------------------------------------------------------
(* The stash requests.                                                      *)

Answers(answer) ==
    /\ pc = "idle" /\ reply' = answer /\ mine' = {} /\ stashed' = FALSE
    /\ UNCHANGED <<pc, opOk, vain, meddled>>

StashPush ==
    \/ /\ \E untracked, stagedOnly \in BOOLEAN :
            GitPush(Selected(untracked, stagedOnly), FALSE)
       /\ Answers("ok")
    \/ /\ unmerged
       /\ UNCHANGED <<work, stash, unmerged>>
       /\ Answers("err")

StashPop ==
    \E i \in 1..MaxStash :
        \/ /\ \E apply \in BOOLEAN : GitPop(i, apply)
           /\ Answers("ok")
        \/ /\ \/ GitPopConflicts(i)
              \/ PopRefused(i) /\ UNCHANGED <<work, stash, unmerged>>
           /\ Answers("err")

StashDrop ==
    /\ \E i \in 1..MaxStash :
         IF i \in DOMAIN stash THEN stash' = RemoveAt(stash, i) /\ Answers("ok")
                               ELSE stash' = stash /\ Answers("err")
    /\ UNCHANGED <<work, unmerged>>

-----------------------------------------------------------------------------
(* The environment.                                                         *)

(* The user edits a file or takes an edit back, at any moment.              *)
Edit ==
    /\ \/ \E e \in Edits \ (work \cup InStash) : work' = work \cup {e} /\ mine' = mine
       \/ \E e \in work : work' = work \ {e} /\ mine' = mine \ {e}
    /\ UNCHANGED <<stash, unmerged, pc, stashed, opOk, vain, meddled, reply>>

(* Between commands the user resolves conflicts and commits some edits.     *)
Settle ==
    /\ \E kept \in SUBSET work : work' = kept
    /\ unmerged' = FALSE
    /\ UNCHANGED stash
    /\ Answers("none")

(* Another git process pushes, pops or drops a stash entry.                 *)
External ==
    /\ "external" \in Faults
    /\ \/ GitPush(Selected(TRUE, FALSE), FALSE)
       \/ \E i \in DOMAIN stash : GitPop(i, FALSE)
       \/ /\ \E i \in DOMAIN stash : stash' = RemoveAt(stash, i)
          /\ UNCHANGED <<work, unmerged>>
    /\ meddled' = TRUE
    /\ UNCHANGED <<pc, stashed, opOk, mine, vain, reply>>

(* The engine dies between two subprocesses; nothing remembers the flow.    *)
Crash ==
    /\ "crash" \in Faults /\ pc # "idle"
    /\ pc' = "idle" /\ reply' = "none" /\ stashed' = FALSE /\ mine' = {}
    /\ UNCHANGED <<work, stash, unmerged, opOk, vain, meddled>>

Proceed ==
    \/ CheckDirty \/ AutoPush \/ AutoPushFails \/ OpSucceeds \/ OpFails
    \/ PopBack \/ PopBackFails

Next ==
    \/ Begin \/ Proceed \/ StashPush \/ StashPop \/ StashDrop
    \/ Edit \/ Settle \/ External \/ Crash

Spec == Init /\ [][Next]_vars

-----------------------------------------------------------------------------
(* Properties.                                                              *)

(* The answer of a switch or a pull tells the user where the changes he had *)
(* are, those he took back himself aside.  "ok" and a failed operation: in  *)
(* the worktree, with no entry of the run left in the stash.  "Retained in  *)
(* the stash": in an entry that the run left there, but for the submodule   *)
(* changes, which are in the worktree.  If there was nothing to save then   *)
(* there is no such entry, and that answer is wrong (write_queue.rs:756).   *)
ReplyTellsWhere ==
    pc = "idle" /\ stashed /\ ~meddled =>
        /\ reply \in {"ok", "opFailed"} =>
             mine \subseteq work /\ \A i \in DOMAIN stash : ~stash[i].own
        /\ reply \in {"retained", "stranded"} =>
             /\ mine \cap Sticky \subseteq work
             /\ ~vain => \E i \in DOMAIN stash :
                            stash[i].own /\ mine \ Sticky \subseteq stash[i].edits

(* An automatic pop takes the entry the run pushed itself, if there was     *)
(* anything to push: no flag of an earlier run, no edit made meanwhile and  *)
(* no crash makes it take another.                                          *)
PopsWhatItPushed ==
    [][pc = "pop" /\ pc' = "idle" /\ Len(stash') < Len(stash) /\ ~meddled /\ ~vain
          => stash[1].own]_vars

(* run_with_auto_stash: the operation runs between stashing the changes and *)
(* popping "the stash back".  The entry popped is the one that was pushed.  *)
PopsOwnEntry ==
    [][pc = "pop" /\ pc' = "idle" /\ Len(stash') < Len(stash) /\ ~meddled
          => stash[1].own]_vars

=============================================================================
