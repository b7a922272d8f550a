--------------------------- MODULE AutoStashProofs ---------------------------
(****************************************************************************)
(* Where an auto-stash leaves the user's changes, for every set of changes  *)
(* and every stash, beside crashes and other git processes.                 *)
(****************************************************************************)
EXTENDS AutoStash, TLAPS

(* No entry of the stash was made by the run in hand.                       *)
NoneOwn == \A i \in DOMAIN stash : ~stash[i].own

(* What the run found is where git stash push left it: the changes it does  *)
(* not save in the worktree, and the others in the newest entry, the only   *)
(* one of the run, or there are no others and no such entry.                *)
Stowed ==
    /\ mine \cap Sticky \subseteq work
    /\ vain => mine \subseteq Sticky /\ NoneOwn
    /\ ~vain =>
          /\ stash # <<>> /\ stash[1].own /\ mine \ Sticky \subseteq stash[1].edits
          /\ \A i \in DOMAIN stash : i # 1 => ~stash[i].own

(* As long as nobody meddles, the run pushes one entry at most and finds it *)
(* again.                                                                   *)
RunKeepsTrack ==
    ~meddled =>
        /\ pc \in {"check", "push"} => NoneOwn
        /\ pc \in {"op", "pop"} /\ stashed => Stowed

IInv == TypeOK /\ RunKeepsTrack /\ ReplyTellsWhere

-----------------------------------------------------------------------------
(* An entry is taken out of a sequence, and the later ones move up.         *)
LEMMA RemoveAtKeeps ==
    ASSUME NEW S, NEW s \in Seq(S), NEW n \in 1..Len(s)
    PROVE  /\ RemoveAt(s, n) \in Seq(S) /\ Len(RemoveAt(s, n)) = Len(s) - 1
           /\ \A i \in 1..(Len(s) - 1) : RemoveAt(s, n)[i] = IF i < n THEN s[i] ELSE s[i + 1]
<1>. DEFINE before == SubSeq(s, 1, n - 1)
            after  == SubSeq(s, n + 1, Len(s))
<1>1. before \in Seq(S) /\ Len(before) = n - 1 /\ \A i \in 1..(n - 1) : before[i] = s[i]
  OBVIOUS
<1>2. /\ after \in Seq(S) /\ Len(after) = Len(s) - n
      /\ \A i \in 1..(Len(s) - n) : after[i] = s[n + i]
  OBVIOUS
<1>. HIDE DEF before, after
<1>3. RemoveAt(s, n) = before \o after
  BY DEF RemoveAt, before, after
<1>4. before \o after \in Seq(S) /\ Len(before \o after) = Len(s) - 1
  BY <1>1, <1>2
<1>5. ASSUME NEW i \in 1..(Len(s) - 1)
      PROVE  (before \o after)[i] = IF i < n THEN s[i] ELSE s[i + 1]
  <2>1. CASE i < n
    BY <1>1, <1>2, <2>1
  <2>2. CASE ~(i < n)
    <3>1. i - (n - 1) \in 1..(Len(s) - n) /\ (before \o after)[i] = after[i - (n - 1)]
      BY <1>1, <1>2, <2>2
    <3>. QED BY <1>2, <2>2, <3>1
  <2>. QED BY <2>1, <2>2
<1>. QED BY <1>3, <1>4, <1>5

(* An entry is put on top of the stash, and the others move down.           *)
LEMMA PushKeeps ==
    ASSUME NEW S, NEW s \in Seq(S), NEW e \in S
    PROVE  /\ <<e>> \o s \in Seq(S) /\ Len(<<e>> \o s) = Len(s) + 1
           /\ (<<e>> \o s)[1] = e
           /\ \A i \in 2..(Len(s) + 1) : (<<e>> \o s)[i] = s[i - 1]
OBVIOUS

(* The part of TypeOK that git stash commands change.                       *)
StashTypeOK == /\ work \in SUBSET Edits /\ unmerged \in BOOLEAN
               /\ stash \in Seq(Entries) /\ Len(stash) <= MaxStash

(* A stash push leaves a well-formed stash of no more than MaxStash entries,*)
LEMMA GitPushTypes ==
    ASSUME StashTypeOK, NEW saved \in SUBSET Edits, NEW own \in BOOLEAN, GitPush(saved, own)
    PROVE  StashTypeOK'
<1>1. CASE saved = {}
  BY <1>1 DEF GitPush, StashTypeOK
<1>2. CASE saved # {}
  <2>1. [edits |-> saved, own |-> own] \in Entries
    BY DEF Entries
  <2>2. stash' = <<[edits |-> saved, own |-> own]>> \o stash /\ Len(stash) < MaxStash
        /\ work' = work \ saved /\ unmerged' = unmerged
    BY <1>2 DEF GitPush
  <2>3. stash' \in Seq(Entries) /\ Len(stash') = Len(stash) + 1
    BY <2>1, <2>2, PushKeeps DEF StashTypeOK
  <2>. QED BY <2>2, <2>3, MaxStashAssumption DEF StashTypeOK
<1>. QED BY <1>1, <1>2

(* so does a pop, with a conflict or without one,                           *)
LEMMA GitPopTypes ==
    ASSUME StashTypeOK, NEW i, NEW apply \in BOOLEAN, GitPop(i, apply) \/ GitPopConflicts(i)
    PROVE  StashTypeOK'
<1>0. stash \in Seq(Entries) /\ i \in DOMAIN stash
  BY DEF GitPop, GitPopConflicts, StashTypeOK
<1>1. i \in 1..Len(stash) /\ stash[i] \in Entries
  BY <1>0
<1>2. RemoveAt(stash, i) \in Seq(Entries) /\ Len(RemoveAt(stash, i)) = Len(stash) - 1
  BY <1>1, RemoveAtKeeps DEF StashTypeOK
<1>3. work' \in SUBSET Edits
  BY <1>1 DEF GitPop, GitPopConflicts, StashTypeOK, Entries
<1>4. stash' = stash \/ stash' = RemoveAt(stash, i)
  BY DEF GitPop, GitPopConflicts
<1>5. stash' \in Seq(Entries) /\ Len(stash') <= MaxStash
  BY <1>0, <1>2, <1>4, MaxStashAssumption DEF StashTypeOK
<1>6. unmerged' \in BOOLEAN
  BY DEF GitPop, GitPopConflicts, StashTypeOK
<1>. QED BY <1>3, <1>5, <1>6 DEF StashTypeOK

(* so does a drop,                                                          *)
LEMMA DropTypes ==
    ASSUME StashTypeOK, NEW i \in DOMAIN stash, stash' = RemoveAt(stash, i),
           UNCHANGED <<work, unmerged>>
    PROVE  StashTypeOK'
<1>1. RemoveAt(stash, i) \in Seq(Entries) /\ Len(RemoveAt(stash, i)) = Len(stash) - 1
  BY RemoveAtKeeps DEF StashTypeOK
<1>. QED BY <1>1, MaxStashAssumption DEF StashTypeOK

(* and so does the end of a run, after which no entry is its own.           *)
LEMMA SettledTypes ==
    ASSUME StashTypeOK
    PROVE  /\ Settled(stash) \in Seq(Entries) /\ Len(Settled(stash)) = Len(stash)
           /\ \A i \in DOMAIN Settled(stash) : ~Settled(stash)[i].own
<1>1. stash \in Seq(Entries) /\ DOMAIN stash = 1..Len(stash)
  BY DEF StashTypeOK
<1>2. ASSUME NEW i \in DOMAIN stash
      PROVE  /\ [stash[i] EXCEPT !.own = FALSE] \in Entries
             /\ ~[stash[i] EXCEPT !.own = FALSE].own
  <2>1. stash[i] \in Entries
    BY <1>1
  <2>. QED BY <2>1 DEF Entries
<1>3. Settled(stash) \in [1..Len(stash) -> Entries]
  BY <1>1, <1>2 DEF Settled
<1>4. Settled(stash) \in Seq(Entries)
  BY <1>1, <1>3
<1>5. Len(Settled(stash)) = Len(stash)
  BY <1>1, <1>3, <1>4
<1>. QED BY <1>2, <1>4, <1>5 DEF Settled

-----------------------------------------------------------------------------
(* The user has no stash, and no command was run.                           *)
LEMMA InitIInv == Init => IInv
<1>. SUFFICES ASSUME Init PROVE IInv
  OBVIOUS
<1>1. TypeOK
  <2>1. stash \in Seq(Entries) /\ Len(stash) = 0
    BY DEF Init
  <2>2. Len(stash) <= MaxStash
    BY <2>1, MaxStashAssumption
  <2>. QED BY <2>1, <2>2 DEF Init, TypeOK, Replies
<1>2. RunKeepsTrack /\ ReplyTellsWhere
  BY DEF Init, RunKeepsTrack, ReplyTellsWhere
<1>. QED BY <1>1, <1>2 DEF IInv

(* What git stash push saves are changes of the worktree.                   *)
LEMMA SelectedIsWork ==
    ASSUME StashTypeOK, NEW untracked \in BOOLEAN, NEW stagedOnly \in BOOLEAN
    PROVE  Selected(untracked, stagedOnly) \in SUBSET Edits
BY DEF StashTypeOK, Selected

(* Every step keeps the types.                                              *)
LEMMA TypeNext == IInv /\ [Next]_vars => TypeOK'
<1>. SUFFICES ASSUME IInv, [Next]_vars PROVE TypeOK'
  OBVIOUS
<1>0. TypeOK /\ StashTypeOK
  BY DEF IInv, TypeOK, StashTypeOK
<1>1. StashTypeOK'
  <2>1. CASE Begin
    BY <1>0, <2>1, SettledTypes DEF Begin, StashTypeOK
  <2>2. CASE AutoPush
    BY <1>0, <2>2, GitPushTypes, SelectedIsWork DEF AutoPush
  <2>3. CASE StashPush
    BY <1>0, <2>3, GitPushTypes, SelectedIsWork DEF StashPush, StashTypeOK
  <2>4. CASE StashPop
    <3>1. CASE \E i \in 1..MaxStash, apply \in BOOLEAN : GitPop(i, apply)
      BY <1>0, <3>1, GitPopTypes
    <3>2. CASE \E i \in 1..MaxStash : GitPopConflicts(i)
      BY <1>0, <3>2, GitPopTypes
    <3>3. CASE UNCHANGED <<work, stash, unmerged>>
      BY <1>0, <3>3 DEF StashTypeOK
    <3>. QED BY <2>4, <3>1, <3>2, <3>3 DEF StashPop
  <2>5. CASE StashDrop
    BY <1>0, <2>5, DropTypes DEF StashDrop, StashTypeOK
  <2>6. CASE PopBack
    BY <1>0, <2>6, GitPopTypes DEF PopBack
  <2>7. CASE PopBackFails
    BY <1>0, <2>7, GitPopTypes DEF PopBackFails, StashTypeOK
  <2>8. CASE External
    <3>1. CASE GitPush(Selected(TRUE, FALSE), FALSE)
      BY <1>0, <3>1, GitPushTypes, SelectedIsWork
    <3>2. CASE \E i \in DOMAIN stash : GitPop(i, FALSE)
      BY <1>0, <3>2, GitPopTypes
    <3>3. CASE (\E i \in DOMAIN stash : stash' = RemoveAt(stash, i)) /\ UNCHANGED <<work, unmerged>>
      BY <1>0, <3>3, DropTypes
    <3>. QED BY <2>8, <3>1, <3>2, <3>3 DEF External
  <2>9. CASE \/ CheckDirty \/ AutoPushFails \/ OpSucceeds \/ OpFails \/ Edit \/ Settle \/ Crash
             \/ UNCHANGED vars
    BY <1>0, <2>9 DEF CheckDirty, AutoPushFails, OpSucceeds, OpFails, Edit, Settle, Crash, vars,
                      StashTypeOK
  <2>. QED BY <2>1, <2>2, <2>3, <2>4, <2>5, <2>6, <2>7, <2>8, <2>9 DEF Next, Proceed
<1>2. pc' \in {"idle", "check", "push", "op", "pop"} /\ reply' \in Replies
  <2>1. CASE Begin \/ CheckDirty \/ AutoPush \/ AutoPushFails \/ OpSucceeds \/ OpFails
             \/ PopBack \/ PopBackFails
    BY <1>0, <2>1 DEF Begin, CheckDirty, AutoPush, AutoPushFails, OpSucceeds, OpFails, PopBack,
                      PopBackFails, Finish, TypeOK, Replies
  <2>2. CASE StashPush \/ StashPop \/ StashDrop \/ Edit \/ Settle \/ External \/ Crash
             \/ UNCHANGED vars
    BY <1>0, <2>2 DEF StashPush, StashPop, StashDrop, Answers, Edit, Settle, External, Crash, vars,
                      TypeOK, Replies
  <2>. QED BY <2>1, <2>2 DEF Next, Proceed
<1>4. (pc' \in {"check", "push"} => ~stashed') /\ (pc' = "pop" => stashed')
  <2>1. CASE Begin
    <3>1. stashed' = FALSE /\ pc' # "pop"
      BY <2>1 DEF Begin
    <3>. QED BY <3>1
  <2>2. CASE CheckDirty
    <3>1. pc = "check" /\ stashed' = stashed /\ pc' # "pop"
      BY <2>2 DEF CheckDirty
    <3>. QED BY <1>0, <3>1 DEF TypeOK
  <2>3. CASE AutoPush
    BY <2>3 DEF AutoPush
  <2>4. CASE OpSucceeds \/ OpFails
    <3>1. stashed' = stashed /\ (pc' = "idle" \/ (pc' = "pop" /\ stashed))
      BY <2>4 DEF OpSucceeds, OpFails
    <3>. QED BY <3>1
  <2>5. CASE \/ AutoPushFails \/ PopBack \/ PopBackFails \/ StashPush \/ StashPop \/ StashDrop
             \/ Edit \/ Settle \/ External \/ Crash \/ UNCHANGED vars
    <3>1. pc' = "idle" \/ UNCHANGED <<pc, stashed>>
      BY <2>5 DEF AutoPushFails, PopBack, PopBackFails, Finish, StashPush, StashPop, StashDrop,
                  Answers, Edit, Settle, External, Crash, vars
    <3>. QED BY <1>0, <3>1 DEF TypeOK
  <2>. QED BY <2>1, <2>2, <2>3, <2>4, <2>5 DEF Next, Proceed
<1>3. /\ stashed' \in BOOLEAN /\ opOk' \in BOOLEAN /\ mine' \in SUBSET Edits
      /\ vain' \in BOOLEAN /\ meddled' \in BOOLEAN
  <2>1. CASE Begin \/ CheckDirty \/ AutoPush \/ AutoPushFails \/ OpSucceeds \/ OpFails
             \/ PopBack \/ PopBackFails
    BY <1>0, <2>1 DEF Begin, CheckDirty, AutoPush, AutoPushFails, OpSucceeds, OpFails, PopBack,
                      PopBackFails, Finish, TypeOK
  <2>2. CASE StashPush \/ StashPop \/ StashDrop \/ Edit \/ Settle \/ External \/ Crash
             \/ UNCHANGED vars
    BY <1>0, <2>2 DEF StashPush, StashPop, StashDrop, Answers, Edit, Settle, External, Crash, vars,
                      TypeOK
  <2>. QED BY <2>1, <2>2 DEF Next, Proceed
<1>. QED BY <1>1, <1>2, <1>3, <1>4 DEF TypeOK, StashTypeOK

-----------------------------------------------------------------------------
(* The stash push of a run that nobody interferes with stows what it found. *)
LEMMA AutoPushStows ==
    ASSUME IInv, AutoPush, ~meddled
    PROVE  Stowed'
<1>. DEFINE saved == work \ Sticky
<1>0. TypeOK /\ StashTypeOK /\ NoneOwn
  BY DEF IInv, RunKeepsTrack, AutoPush, TypeOK, StashTypeOK
<1>1. GitPush(saved, TRUE) /\ mine' = work /\ vain' = (work \subseteq Sticky)
  BY DEF AutoPush, Selected
<1>2. CASE saved = {}
  <2>1. /\ work' = work /\ stash' = stash /\ mine' = work /\ mine' \subseteq Sticky
        /\ vain' = TRUE
    BY <1>1, <1>2 DEF GitPush
  <2>2. NoneOwn'
    BY <1>0, <2>1 DEF NoneOwn
  <2>. QED BY <2>1, <2>2 DEF Stowed
<1>3. CASE saved # {}
  <2>1. /\ stash' = <<[edits |-> saved, own |-> TRUE]>> \o stash /\ work' = work \ saved
        /\ [edits |-> saved, own |-> TRUE] \in Entries
    BY <1>0, <1>1, <1>3 DEF GitPush, Entries, StashTypeOK
  <2>2. /\ stash' \in Seq(Entries) /\ Len(stash') = Len(stash) + 1
        /\ stash'[1] = [edits |-> saved, own |-> TRUE]
        /\ \A i \in 2..(Len(stash) + 1) : stash'[i] = stash[i - 1]
    BY <1>0, <2>1, PushKeeps DEF StashTypeOK
  <2>3. stash' # <<>> /\ stash'[1].own /\ stash'[1].edits = mine' \ Sticky
    BY <1>1, <2>2
  <2>4. ASSUME NEW i \in DOMAIN stash', i # 1 PROVE ~stash'[i].own
    <3>1. i \in 2..(Len(stash) + 1) /\ i - 1 \in DOMAIN stash
      BY <1>0, <2>2, <2>4 DEF StashTypeOK
    <3>. QED BY <1>0, <2>2, <3>1 DEF NoneOwn
  <2>5. mine' \cap Sticky \subseteq work' /\ vain' = FALSE
    BY <1>1, <1>3, <2>1
  <2>. QED BY <2>3, <2>4, <2>5 DEF Stowed
<1>. QED BY <1>2, <1>3

(* What was stowed stays so while the stash does; a change that is taken    *)
(* back is no longer looked for.                                            *)
LEMMA StowedStays ==
    ASSUME Stowed, UNCHANGED <<stash, vain>>, mine' \subseteq mine,
           mine' \cap work \subseteq work'
    PROVE  Stowed'
BY DEF Stowed, NoneOwn

(* No step of the run or of the user but one that meddles makes it lose     *)
(* track.                                                                   *)
LEMMA RunKeepsTrackNext == IInv /\ [Next]_vars => RunKeepsTrack'
<1>. SUFFICES ASSUME IInv, [Next]_vars, ~meddled' PROVE RunKeepsTrack'
  BY DEF RunKeepsTrack
<1>0. TypeOK /\ StashTypeOK
  BY DEF IInv, TypeOK, StashTypeOK
<1>. USE DEF RunKeepsTrack
<1>1. CASE Begin
  <2>1. NoneOwn'
    BY <1>0, <1>1, SettledTypes DEF Begin, NoneOwn
  <2>. QED BY <1>1, <2>1 DEF Begin
<1>2. CASE CheckDirty
  <2>1. ~stashed /\ UNCHANGED <<work, stash, unmerged, stashed, meddled>> /\ NoneOwn
    BY <1>0, <1>2 DEF CheckDirty, IInv, TypeOK
  <2>. QED BY <1>2, <2>1 DEF CheckDirty, NoneOwn
<1>3. CASE AutoPush
  <2>1. pc' = "op" /\ ~meddled
    BY <1>3 DEF AutoPush
  <2>. QED BY <1>3, <2>1, AutoPushStows
<1>4. CASE OpSucceeds \/ OpFails
  <2>1. /\ pc = "op" /\ pc' \in {"idle", "pop"}
        /\ UNCHANGED <<work, stash, stashed, mine, vain, meddled>>
    BY <1>4 DEF OpSucceeds, OpFails
  <2>. QED BY <2>1, StowedStays DEF IInv
<1>5. CASE pc' = "idle"
  BY <1>5
<1>6. CASE Edit
  <2>1. /\ mine' \subseteq mine /\ mine' \cap work \subseteq work'
        /\ UNCHANGED <<stash, pc, stashed, vain, meddled>>
    BY <1>6 DEF Edit
  <2>2. NoneOwn => NoneOwn'
    BY <2>1 DEF NoneOwn
  <2>. QED BY <2>1, <2>2, StowedStays DEF IInv
<1>7. CASE UNCHANGED vars
  BY <1>7 DEF IInv, vars, Stowed, NoneOwn
<1>. QED BY <1>1, <1>2, <1>3, <1>4, <1>5, <1>6, <1>7
     DEF Next, Proceed, AutoPushFails, PopBack, PopBackFails, Finish, StashPush, StashPop,
         StashDrop, Answers, Settle, External, Crash

(* The pop at the end brings back what was stowed, or leaves it there.      *)
LEMMA ReplyTellsWhereNext == IInv /\ [Next]_vars => ReplyTellsWhere'
<1>. SUFFICES ASSUME IInv, [Next]_vars, pc' = "idle", stashed', ~meddled'
     PROVE  /\ reply' \in {"ok", "opFailed"} =>
                 mine' \subseteq work' /\ \A i \in DOMAIN stash' : ~stash'[i].own
            /\ reply' \in {"retained", "stranded"} =>
                 /\ mine' \cap Sticky \subseteq work'
                 /\ ~vain' => \E i \in DOMAIN stash' :
                                 stash'[i].own /\ mine' \ Sticky \subseteq stash'[i].edits
  BY DEF ReplyTellsWhere
<1>0. TypeOK /\ StashTypeOK
  BY DEF IInv, TypeOK, StashTypeOK
<1>1. CASE PopBack
  <2>0. pc = "pop" /\ stashed /\ ~meddled /\ mine' = mine /\ reply' \in {"ok", "opFailed"}
        /\ work' = work \cup stash[1].edits /\ stash' = RemoveAt(stash, 1)
        /\ 1 \in DOMAIN stash
    BY <1>1 DEF PopBack, Finish, GitPop
  <2>1. Stowed
    BY <2>0 DEF IInv, RunKeepsTrack
  <2>2. mine \subseteq work'
    BY <2>0, <2>1 DEF Stowed
  <2>3. \A i \in DOMAIN stash : i # 1 => ~stash[i].own
    BY <2>1 DEF Stowed, NoneOwn
  <2>4. /\ stash' \in Seq(Entries) /\ Len(stash') = Len(stash) - 1
        /\ \A i \in 1..(Len(stash) - 1) : stash'[i] = IF i < 1 THEN stash[i] ELSE stash[i + 1]
    <3>1. stash \in Seq(Entries) /\ 1 \in 1..Len(stash)
      BY <1>0, <2>0 DEF StashTypeOK
    <3>. QED BY <2>0, <3>1, RemoveAtKeeps
  <2>5. ASSUME NEW i \in DOMAIN stash' PROVE ~stash'[i].own
    <3>1. i \in 1..(Len(stash) - 1) /\ i + 1 \in DOMAIN stash /\ i + 1 # 1
      BY <1>0, <2>4 DEF StashTypeOK
    <3>2. stash'[i] = stash[i + 1]
      BY <2>4, <3>1
    <3>. QED BY <2>3, <3>1, <3>2
  <2>. QED BY <2>0, <2>2, <2>5
<1>2. CASE PopBackFails
  <2>0. /\ pc = "pop" /\ stashed /\ ~meddled /\ mine' = mine /\ stash' = stash
        /\ reply' \in {"retained", "stranded"}
    BY <1>2 DEF PopBackFails, Finish, GitPopConflicts
  <2>1. Stowed
    BY <2>0 DEF IInv, RunKeepsTrack
  <2>2. vain' = vain /\ work \subseteq work'
    BY <1>2 DEF PopBackFails, Finish, GitPopConflicts
  <2>3. CASE vain
    BY <2>0, <2>1, <2>2, <2>3 DEF Stowed
  <2>4. CASE ~vain
    <3>1. 1 \in DOMAIN stash /\ stash[1].own /\ mine \ Sticky \subseteq stash[1].edits
      BY <1>0, <2>1, <2>4 DEF Stowed, StashTypeOK
    <3>. QED BY <2>0, <2>1, <2>2, <3>1 DEF Stowed
  <2>. QED BY <2>3, <2>4
<1>3. CASE Edit
  <2>1. mine' \subseteq mine /\ mine' \cap work \subseteq work'
    BY <1>3 DEF Edit
  <2>2. UNCHANGED <<stash, pc, stashed, vain, meddled, reply>>
    BY <1>3 DEF Edit
  <2>. QED BY <2>1, <2>2 DEF IInv, ReplyTellsWhere
<1>4. CASE UNCHANGED vars
  BY <1>4 DEF IInv, ReplyTellsWhere, vars
<1>5. PopBack \/ PopBackFails \/ Edit \/ UNCHANGED vars
  BY <1>0
  DEF Next, Proceed, Begin, CheckDirty, AutoPush, AutoPushFails, OpSucceeds, OpFails, StashPush,
      StashPop, StashDrop, Answers, Settle, External, Crash, TypeOK
<1>. QED BY <1>1, <1>2, <1>3, <1>4, <1>5

(* Every reachable state satisfies the inductive invariant.                 *)
LEMMA Inductive == Spec => []IInv
<1>1. IInv /\ [Next]_vars => IInv'
  BY TypeNext, RunKeepsTrackNext, ReplyTellsWhereNext DEF IInv
<1>. QED BY InitIInv, <1>1, PTL DEF Spec

-----------------------------------------------------------------------------
(* The stash and the run in hand are well-formed, and the flag of the run   *)
(* says "stashed" from its stash push to its end only.                      *)
THEOREM TypeCorrect == Spec => []TypeOK
<1>1. IInv => TypeOK
  BY DEF IInv
<1>. QED BY Inductive, <1>1, PTL

(* What a switch or a pull answers is true of the changes the user has not  *)
(* taken back since: they are in the worktree, or in the entry its message  *)
(* speaks of and the submodule changes in the worktree.  The property names *)
(* the exception: "retained" when there was nothing to save.                *)
THEOREM ReplyIsTrue == Spec => []ReplyTellsWhere
<1>1. IInv => ReplyTellsWhere
  BY DEF IInv
<1>. QED BY Inductive, <1>1, PTL

(* An automatic pop takes the entry of its own run, whatever the user edits *)
(* or takes back at any moment, unless git stash push had nothing to save;  *)
(* then it takes an older entry of his (the run that violates PopsOwnEntry). *)
THEOREM PopIsItsOwn == Spec => PopsWhatItPushed
<1>1. IInv /\ [Next]_vars =>
         [pc = "pop" /\ pc' = "idle" /\ Len(stash') < Len(stash) /\ ~meddled /\ ~vain
              => stash[1].own]_vars
  <2>. SUFFICES ASSUME IInv, pc = "pop", ~meddled, ~vain PROVE stash[1].own
    OBVIOUS
  <2>1. stashed /\ Stowed
    BY DEF IInv, TypeOK, RunKeepsTrack
  <2>. QED BY <2>1 DEF Stowed
<1>. QED BY Inductive, <1>1, PTL DEF Spec, PopsWhatItPushed

=============================================================================
