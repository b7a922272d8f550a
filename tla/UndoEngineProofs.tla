-------------------------- MODULE UndoEngineProofs --------------------------
(****************************************************************************)
(* Safety of the undo journal for every number of branches, commits, trees, *)
(* stashes and transactions, and whatever the environment does.             *)
(****************************************************************************)
EXTENDS UndoEngine, TLAPS

Writing   == {"begun", "ran", "posted", "appended"}
Restoring == {"cut", "restoring", "refsDone", "indexDone", "restored"}
Undoing   == {"checked", "marked"} \cup Restoring

(* The transaction in hand is typed, its id is taken, its pre snapshot is   *)
(* whole, it is not in the journal before its line is, and its post         *)
(* snapshot and its marker are on disk once they were written.              *)
JobInHand ==
    /\ pc \in Writing \cup Undoing => job \in Jobs
    /\ pc \in Writing => job.id < nextId /\ pre[job.id] \in Repos
    /\ pc \in {"begun", "ran", "posted"} => job.id \notin JournalIds
    /\ pc = "posted" => post[job.id] \in Repos
    /\ pc = "marked" => marker = MarkOf(job)
    /\ pc = "restoring" => seen \in [Branches -> Shas \cup {None}]

IInv == TypeOK /\ JournaledSnapshots /\ FreshIds /\ RestoreIsMarked /\ JobInHand

-----------------------------------------------------------------------------
(* The git commands take repositories to repositories.                      *)

(* A new commit leaves a well-formed repository.                            *)
LEMMA AdvanceType ==
    ASSUME NEW r \in Repos, NEW s \in Shas PROVE Advance(r, s) \in Repos
BY DEF Advance, Repos

(* So does a checkout.                                                      *)
LEMMA CheckOutType ==
    ASSUME NEW r \in Repos, NEW h \in Branches \cup Shas, NEW t \in Trees \cup {None}
    PROVE  CheckOut(r, h, t) \in Repos
BY DEF CheckOut, Repos

(* So does a stash command.                                                 *)
LEMMA StashToType ==
    ASSUME NEW r \in Repos, NEW x \in Stashes \cup {None}, NEW t \in Trees \cup {None}
    PROVE  StashTo(r, x, t) \in Repos
BY DEF StashTo, Repos

(* So does every command that succeeds.                                     *)
LEMMA SucceedsType ==
    ASSUME NEW c \in CommandKinds, NEW r \in Repos, NEW q \in Succeeds(c, r)
    PROVE  q \in Repos
<1>1. CASE c = "stage"
  <2>1. PICK t \in Trees : q = [r EXCEPT !.index = t]
    BY <1>1 DEF Succeeds
  <2>. QED BY <2>1 DEF Repos
<1>2. CASE c = "commit"
  <2>1. PICK s \in Shas : q = Advance(r, s)
    BY <1>2 DEF Succeeds
  <2>. QED BY <2>1, AdvanceType
<1>3. CASE c = "create"
  <2>1. PICK b \in Branches, s \in Shas : q = [r EXCEPT !.refs[b] = s]
    BY <1>3 DEF Succeeds
  <2>. QED BY <2>1 DEF Repos
<1>4. CASE c = "delete"
  <2>1. PICK b \in Branches : q = [r EXCEPT !.refs[b] = None]
    BY <1>4 DEF Succeeds, Existing
  <2>. QED BY <2>1 DEF Repos
<1>5. CASE c = "switch"
  <2>1. PICK b \in Existing(r), t \in Trees : q = CheckOut(r, b, t)
    BY <1>5 DEF Succeeds
  <2>. QED BY <2>1, CheckOutType DEF Existing
<1>6. CASE c = "pull"
  <2>1. PICK s \in Shas, t \in Trees : q = [Advance(r, s) EXCEPT !.index = t]
    BY <1>6 DEF Succeeds
  <2>2. Advance(r, s) \in Repos
    BY AdvanceType
  <2>. QED BY <2>1, <2>2 DEF Repos
<1>7. CASE c = "push"
  BY <1>7 DEF Succeeds
<1>8. CASE c = "stash"
  <2>1. PICK x \in Stashes \cup {None}, t \in Trees : q = StashTo(r, x, t)
    BY <1>8 DEF Succeeds
  <2>. QED BY <2>1, StashToType
<1>. QED
  BY <1>1, <1>2, <1>3, <1>4, <1>5, <1>6, <1>7, <1>8 DEF CommandKinds

(* So does an auto-stash that stays.                                        *)
LEMMA StrandedType ==
    ASSUME NEW Q \in SUBSET Repos, NEW q \in Stranded(Q)
    PROVE  q \in Repos
<1>1. PICK w \in Q : \E x \in Stashes, t \in {w.index, None} : q = StashTo(w, x, t)
  BY DEF Stranded
<1>2. w.index \in Trees \cup {None}
  BY <1>1 DEF Repos
<1>. QED BY <1>1, <1>2, StashToType

(* So does every command that fails half-way.                               *)
LEMMA ConflictedType ==
    ASSUME NEW c \in CommandKinds, NEW r \in Repos, NEW q \in Conflicted(c, r)
    PROVE  q \in Repos
<1>1. Stashed(r) \subseteq Repos
  BY DEF Stashed, Repos
<1>2. Halted(r) \subseteq Repos
  BY CheckOutType DEF Halted, Repos
<1>3. Succeeds(c, r) \subseteq Repos
  BY SucceedsType
<1>4. CASE c = "pull"
  <2>1. Stashed(r) \cup Succeeds(c, r) \cup Halted(r) \subseteq Repos
    BY <1>1, <1>2, <1>3
  <2>2. q \in Halted(r) \cup Stranded(Stashed(r) \cup Succeeds(c, r) \cup Halted(r))
    BY <1>4 DEF Conflicted
  <2>. QED BY <1>2, <2>1, <2>2, StrandedType
<1>5. CASE c = "switch"
  <2>1. Stashed(r) \cup Succeeds(c, r) \subseteq Repos
    BY <1>1, <1>3
  <2>2. q \in Stranded(Stashed(r) \cup Succeeds(c, r))
    BY <1>5 DEF Conflicted
  <2>. QED BY <2>1, <2>2, StrandedType
<1>6. CASE c = "stash"
  <2>1. q = StashTo(r, r.stash, None)
    BY <1>6 DEF Conflicted
  <2>. QED BY <2>1, StashToType DEF Repos
<1>7. CASE c \notin {"pull", "switch", "stash"}
  <2>1. Conflicted(c, r) = {}
    BY <1>7 DEF Conflicted
  <2>. QED BY <2>1
<1>. QED BY <1>4, <1>5, <1>6, <1>7

(* So does whatever run_write lets git do.                                  *)
LEMMA GitType ==
    ASSUME NEW c \in Commands, NEW r \in Repos, NEW q \in Succeeds(c, r) \cup Fails(c, r)
    PROVE  q \in Repos
BY SucceedsType, ConflictedType, KindAssumption DEF Fails

-----------------------------------------------------------------------------
(* A fresh repository has no journal, no snapshots and no marker.           *)
LEMMA InitIInv == Init => IInv
<1>. SUFFICES ASSUME Init PROVE IInv
  OBVIOUS
<1>1. repo \in Repos
  BY DEF Init, Repos
<1>. QED BY <1>1, MaxTxAssumption DEF Init, IInv, TypeOK, JournaledSnapshots, FreshIds,
       RestoreIsMarked, JobInHand, Phases, Writing, Restoring, Undoing

(* Every step of the queue, of an opening engine and of the environment     *)
(* keeps the inductive invariant.                                           *)
LEMMA NextIInv == IInv /\ [Next]_vars => IInv'
<1>. SUFFICES ASSUME IInv, [Next]_vars PROVE IInv'
  OBVIOUS
<1>. USE MaxTxAssumption
     DEF IInv, TypeOK, JournaledSnapshots, FreshIds, RestoreIsMarked, JobInHand,
         Phases, Writing, Restoring, Undoing, disk, mem,
         Ids, Entries, Jobs, Marks, JournalIds, UsedIds
<1>1. CASE Open
  <2>1. TypeOK'
    BY <1>1 DEF Open, NextFree
  <2>2. JournaledSnapshots'
    BY <1>1 DEF Open, NextFree
  <2>3. FreshIds'
    BY <1>1 DEF Open, NextFree
  <2>4. RestoreIsMarked'
    BY <1>1 DEF Open, NextFree
  <2>5. JobInHand'
    BY <1>1 DEF Open, NextFree
  <2>. QED BY <2>1, <2>2, <2>3, <2>4, <2>5 DEF IInv
<1>2. CASE RecoverNothing
  BY <1>2 DEF RecoverNothing
<1>3. CASE RecoverUndo
  <2>1. TypeOK'
    BY <1>3 DEF RecoverUndo, TruncateJournal, Marked
  <2>2. JournaledSnapshots'
    BY <1>3 DEF RecoverUndo, TruncateJournal, Marked
  <2>3. FreshIds'
    BY <1>3 DEF RecoverUndo, TruncateJournal, Marked
  <2>4. RestoreIsMarked'
    <3>1. MarkOf(job') = marker
      BY <1>3 DEF RecoverUndo, Marked, MarkOf
    <3>. QED BY <1>3, <3>1 DEF RecoverUndo, TruncateJournal, MarkOf
  <2>5. JobInHand'
    BY <1>3 DEF RecoverUndo, TruncateJournal, Marked
  <2>. QED BY <2>1, <2>2, <2>3, <2>4, <2>5 DEF IInv
<1>4. CASE RecoverFails
  BY <1>4 DEF RecoverFails
<1>5. CASE Begin
  <2>1. TypeOK'
    BY <1>5 DEF Begin
  <2>2. JournaledSnapshots'
    BY <1>5 DEF Begin
  <2>3. FreshIds'
    BY <1>5 DEF Begin
  <2>4. RestoreIsMarked'
    BY <1>5 DEF Begin
  <2>5. JobInHand'
    BY <1>5 DEF Begin
  <2>. QED BY <2>1, <2>2, <2>3, <2>4, <2>5 DEF IInv
<1>6. CASE BeginFails
  BY <1>6 DEF BeginFails
<1>7. CASE RunGit
  <2>1. TypeOK'
    <3>1. repo' \in Repos
      BY <1>7, GitType DEF RunGit
    <3>2. job' \in Jobs
      BY <1>7 DEF RunGit
    <3>. QED BY <1>7, <3>1, <3>2 DEF RunGit
  <2>2. JournaledSnapshots'
    BY <1>7 DEF RunGit
  <2>3. FreshIds'
    BY <1>7 DEF RunGit
  <2>4. RestoreIsMarked'
    BY <1>7 DEF RunGit
  <2>5. JobInHand'
    BY <1>7 DEF RunGit
  <2>. QED BY <2>1, <2>2, <2>3, <2>4, <2>5 DEF IInv
<1>8. CASE WritePost
  BY <1>8 DEF WritePost
<1>9. CASE AppendLine
  <2>1. TypeOK'
    BY <1>9 DEF AppendLine, JournalWith
  <2>2. JournaledSnapshots'
    BY <1>9, SMTT(30) DEF AppendLine, JournalWith
  <2>3. FreshIds'
    BY <1>9 DEF AppendLine, JournalWith
  <2>4. RestoreIsMarked'
    BY <1>9 DEF AppendLine, JournalWith
  <2>5. JobInHand'
    BY <1>9 DEF AppendLine, JournalWith
  <2>. QED BY <2>1, <2>2, <2>3, <2>4, <2>5 DEF IInv
<1>10. CASE AppendNewline
  BY <1>10 DEF AppendNewline
<1>11. CASE CommitFails
  <2>1. TypeOK'
    BY <1>11 DEF CommitFails
  <2>2. JournaledSnapshots'
    BY <1>11 DEF CommitFails
  <2>3. FreshIds'
    BY <1>11 DEF CommitFails
  <2>4. RestoreIsMarked'
    BY <1>11 DEF CommitFails
  <2>5. JobInHand'
    BY <1>11 DEF CommitFails
  <2>. QED BY <2>1, <2>2, <2>3, <2>4, <2>5 DEF IInv
<1>12. CASE ResolveConflict
  <2>1. TypeOK'
    <3>1. repo' \in Repos
      BY <1>12 DEF ResolveConflict, Repos
    <3>. QED BY <1>12, <3>1 DEF ResolveConflict
  <2>2. JournaledSnapshots'
    BY <1>12 DEF ResolveConflict, Repos
  <2>3. FreshIds'
    BY <1>12 DEF ResolveConflict, Repos
  <2>4. RestoreIsMarked'
    BY <1>12 DEF ResolveConflict, Repos
  <2>5. JobInHand'
    BY <1>12 DEF ResolveConflict, Repos
  <2>. QED BY <2>1, <2>2, <2>3, <2>4, <2>5 DEF IInv
<1>13. CASE \E id \in Ids : UndoNotFound(id)
  BY <1>13 DEF UndoNotFound
<1>14. CASE \E id \in Ids : UndoNoop(id)
  <2>. PICK id \in Ids : UndoNoop(id)
    BY <1>14
  <2>1. TypeOK'
    <3>1. asked' \in SUBSET Ids
      BY DEF UndoNoop, Covered
    <3>2. job' \in Jobs
      BY DEF UndoNoop
    <3>. QED BY <3>1, <3>2 DEF UndoNoop, TruncateJournal
  <2>2. JournaledSnapshots'
    BY <1>14 DEF UndoNoop, TruncateJournal
  <2>3. FreshIds'
    BY <1>14 DEF UndoNoop, TruncateJournal
  <2>4. RestoreIsMarked'
    BY <1>14 DEF UndoNoop, TruncateJournal
  <2>5. JobInHand'
    BY <1>14 DEF UndoNoop, TruncateJournal
  <2>. QED BY <2>1, <2>2, <2>3, <2>4, <2>5 DEF IInv
<1>15. CASE \E id \in Ids : UndoNoopFails(id)
  BY <1>15 DEF UndoNoopFails
<1>16. CASE \E id \in Ids : UndoBlocked(id)
  BY <1>16 DEF UndoBlocked
<1>17. CASE \E id \in Ids : UndoAccepted(id)
  <2>. PICK id \in Ids : UndoAccepted(id)
    BY <1>17
  <2>1. TypeOK'
    <3>1. asked' \in SUBSET Ids
      BY DEF UndoAccepted, Covered
    <3>2. job' \in Jobs
      BY DEF UndoAccepted
    <3>. QED BY <3>1, <3>2 DEF UndoAccepted
  <2>2. JournaledSnapshots'
    BY <1>17 DEF UndoAccepted
  <2>3. FreshIds'
    BY <1>17 DEF UndoAccepted
  <2>4. RestoreIsMarked'
    BY <1>17 DEF UndoAccepted
  <2>5. JobInHand'
    BY <1>17 DEF UndoAccepted
  <2>. QED BY <2>1, <2>2, <2>3, <2>4, <2>5 DEF IInv
<1>18. CASE WriteMarker
  <2>1. TypeOK'
    BY <1>18 DEF WriteMarker, MarkOf
  <2>2. JournaledSnapshots'
    BY <1>18 DEF WriteMarker, MarkOf
  <2>3. FreshIds'
    BY <1>18 DEF WriteMarker, MarkOf
  <2>4. RestoreIsMarked'
    BY <1>18 DEF WriteMarker, MarkOf
  <2>5. JobInHand'
    BY <1>18 DEF WriteMarker, MarkOf
  <2>. QED BY <2>1, <2>2, <2>3, <2>4, <2>5 DEF IInv
<1>19. CASE CutJournal
  <2>1. TypeOK'
    BY <1>19 DEF CutJournal, TruncateJournal
  <2>2. JournaledSnapshots'
    BY <1>19 DEF CutJournal, TruncateJournal
  <2>3. FreshIds'
    BY <1>19 DEF CutJournal, TruncateJournal
  <2>4. RestoreIsMarked'
    BY <1>19 DEF CutJournal, TruncateJournal
  <2>5. JobInHand'
    BY <1>19 DEF CutJournal, TruncateJournal
  <2>. QED BY <2>1, <2>2, <2>3, <2>4, <2>5 DEF IInv
<1>20. CASE UndoFails
  <2>1. TypeOK'
    BY <1>20 DEF UndoFails, MarkOf
  <2>2. JournaledSnapshots'
    BY <1>20 DEF UndoFails, MarkOf
  <2>3. FreshIds'
    BY <1>20 DEF UndoFails, MarkOf
  <2>4. RestoreIsMarked'
    BY <1>20 DEF UndoFails, MarkOf
  <2>5. JobInHand'
    BY <1>20 DEF UndoFails, MarkOf
  <2>. QED BY <2>1, <2>2, <2>3, <2>4, <2>5 DEF IInv
<1>21. CASE ReadCurrent
  <2>. seen' \in [Branches -> Shas \cup {None}]
    BY <1>21 DEF ReadCurrent, Repos
  <2>1. TypeOK'
    BY <1>21 DEF ReadCurrent
  <2>2. JournaledSnapshots'
    BY <1>21 DEF ReadCurrent
  <2>3. FreshIds'
    BY <1>21 DEF ReadCurrent
  <2>4. RestoreIsMarked'
    BY <1>21 DEF ReadCurrent
  <2>5. JobInHand'
    BY <1>21 DEF ReadCurrent
  <2>. QED BY <2>1, <2>2, <2>3, <2>4, <2>5 DEF IInv
<1>22. CASE RestoreRefs
  <2>1. TypeOK'
    <3>1. RestoredRefs \in [Branches -> Shas \cup {None}]
      BY <1>22 DEF RestoreRefs, RestoredRefs, Repos
    <3>2. repo' \in Repos
      BY <1>22, <3>1 DEF RestoreRefs, Repos
    <3>. QED BY <1>22, <3>2 DEF RestoreRefs
  <2>2. JournaledSnapshots'
    BY <1>22 DEF RestoreRefs, RestoredRefs, Batch, Repos
  <2>3. FreshIds'
    BY <1>22 DEF RestoreRefs, RestoredRefs, Batch, Repos
  <2>4. RestoreIsMarked'
    BY <1>22 DEF RestoreRefs, RestoredRefs, Batch, Repos
  <2>5. JobInHand'
    BY <1>22 DEF RestoreRefs, RestoredRefs, Batch, Repos
  <2>. QED BY <2>1, <2>2, <2>3, <2>4, <2>5 DEF IInv
<1>23. CASE RestoreIndex
  <2>1. TypeOK'
    BY <1>23 DEF RestoreIndex, Repos
  <2>2. JournaledSnapshots'
    BY <1>23 DEF RestoreIndex, Repos
  <2>3. FreshIds'
    BY <1>23 DEF RestoreIndex, Repos
  <2>4. RestoreIsMarked'
    BY <1>23 DEF RestoreIndex, Repos
  <2>5. JobInHand'
    BY <1>23 DEF RestoreIndex, Repos
  <2>. QED BY <2>1, <2>2, <2>3, <2>4, <2>5 DEF IInv
<1>24. CASE RestoreHead
  <2>1. TypeOK'
    <3>1. job.snapshot.head \in Branches \cup Shas
      BY <1>24 DEF RestoreHead, Repos
    <3>2. repo' \in Repos
      BY <1>24, <3>1 DEF RestoreHead, Repos
    <3>. QED BY <1>24, <3>2 DEF RestoreHead
  <2>2. JournaledSnapshots'
    BY <1>24 DEF RestoreHead, Repos
  <2>3. FreshIds'
    BY <1>24 DEF RestoreHead, Repos
  <2>4. RestoreIsMarked'
    BY <1>24 DEF RestoreHead, Repos
  <2>5. JobInHand'
    BY <1>24 DEF RestoreHead, Repos
  <2>. QED BY <2>1, <2>2, <2>3, <2>4, <2>5 DEF IInv
<1>25. CASE Finish
  <2>1. TypeOK'
    BY <1>25 DEF Finish, PruneSnapshots, MarkOf
  <2>2. JournaledSnapshots'
    BY <1>25 DEF Finish, PruneSnapshots, MarkOf
  <2>3. FreshIds'
    BY <1>25 DEF Finish, PruneSnapshots, MarkOf
  <2>4. RestoreIsMarked'
    BY <1>25 DEF Finish, PruneSnapshots, MarkOf
  <2>5. JobInHand'
    BY <1>25 DEF Finish, PruneSnapshots, MarkOf
  <2>. QED BY <2>1, <2>2, <2>3, <2>4, <2>5 DEF IInv
<1>26. CASE RestoreFails
  BY <1>26 DEF RestoreFails
<1>27. CASE FinishFails
  BY <1>27 DEF FinishFails
<1>28. CASE Close
  <2>1. TypeOK'
    BY <1>28 DEF Close, GoDown
  <2>2. JournaledSnapshots'
    BY <1>28 DEF Close, GoDown
  <2>3. FreshIds'
    BY <1>28 DEF Close, GoDown
  <2>4. RestoreIsMarked'
    BY <1>28 DEF Close, GoDown
  <2>5. JobInHand'
    BY <1>28 DEF Close, GoDown
  <2>. QED BY <2>1, <2>2, <2>3, <2>4, <2>5 DEF IInv
<1>29. CASE Crash
  <2>1. TypeOK'
    BY <1>29 DEF Crash, GoDown
  <2>2. JournaledSnapshots'
    BY <1>29, SMTT(30) DEF Crash, GoDown
  <2>3. FreshIds'
    BY <1>29 DEF Crash, GoDown
  <2>4. RestoreIsMarked'
    BY <1>29 DEF Crash, GoDown
  <2>5. JobInHand'
    BY <1>29 DEF Crash, GoDown
  <2>. QED BY <2>1, <2>2, <2>3, <2>4, <2>5 DEF IInv
<1>30. CASE CrashInLine
  <2>1. TypeOK'
    BY <1>30 DEF CrashInLine, GoDown
  <2>2. JournaledSnapshots'
    BY <1>30 DEF CrashInLine, GoDown
  <2>3. FreshIds'
    BY <1>30 DEF CrashInLine, GoDown
  <2>4. RestoreIsMarked'
    BY <1>30 DEF CrashInLine, GoDown
  <2>5. JobInHand'
    BY <1>30 DEF CrashInLine, GoDown
  <2>. QED BY <2>1, <2>2, <2>3, <2>4, <2>5 DEF IInv
<1>31. CASE External
  <2>1. TypeOK'
    <3>1. repo' \in Repos
      BY <1>31, SucceedsType, ConflictedType, KindAssumption DEF External
    <3>. QED BY <1>31, <3>1 DEF External
  <2>2. JournaledSnapshots'
    BY <1>31 DEF External
  <2>3. FreshIds'
    BY <1>31 DEF External
  <2>4. RestoreIsMarked'
    BY <1>31 DEF External
  <2>5. JobInHand'
    BY <1>31 DEF External
  <2>. QED BY <2>1, <2>2, <2>3, <2>4, <2>5 DEF IInv
<1>32. CASE UNCHANGED vars
  BY <1>32 DEF vars
<1>. QED
  BY <1>1, <1>2, <1>3, <1>4, <1>5, <1>6, <1>7, <1>8, <1>9, <1>10, <1>11, <1>12,
     <1>13, <1>14, <1>15, <1>16, <1>17, <1>18, <1>19, <1>20, <1>21, <1>22, <1>23,
     <1>24, <1>25, <1>26, <1>27, <1>28, <1>29, <1>30, <1>31, <1>32
     DEF Next, Requests, Proceed

-----------------------------------------------------------------------------
(* The inductive invariant holds at every reachable state.                  *)
LEMMA Invariance == Spec => []IInv
BY InitIInv, NextIInv, PTL DEF Spec

(* Every file under .git/bamboo/undo, the queue's transaction in hand and   *)
(* the repository stay well-formed, whichever crash, failure or foreign     *)
(* write comes between two steps.                                           *)
THEOREM TypeCorrect == Spec => []TypeOK
BY Invariance, PTL DEF IInv

(* An entry of journal.jsonl never loses the snapshots an undo of it needs: *)
(* commit writes .post before the line, truncation precedes pruning, and no *)
(* later begin reuses its files.                                            *)
THEOREM EntriesKeepSnapshots == Spec => []JournaledSnapshots
BY Invariance, PTL DEF IInv

(* UndoEngine::new hands out an id above everything on disk, and begin,     *)
(* crashes and undos keep it so.                                            *)
THEOREM IdsStayFresh == Spec => []FreshIds
BY Invariance, PTL DEF IInv

(* A restore under way is described by the durable marker, and the journal  *)
(* is already cut below it: a crash at any point of restore_snapshot leaves *)
(* what recover needs.                                                      *)
THEOREM RestoresAreMarked == Spec => []RestoreIsMarked
BY Invariance, PTL DEF IInv

-----------------------------------------------------------------------------
(* What holds as long as nothing but crashes and conflicts goes wrong: no   *)
(* file operation and no git command of a restore fails, and no other       *)
(* process writes the repository.                                           *)
OnlyCrashes == Faults \subseteq {"crash", "tail", "conflict"}

(* A cut mends the journal's end.                                           *)
LineMended == pc \in Restoring => tail = "clean"

(* A write goes from the snapshot on disk to the one it will have there.    *)
WriteInHand ==
    /\ pc \in Writing => nextId = job.id + 1 /\ pre[job.id] = job.snapshot
    /\ pc = "posted" => post[job.id] = repo
    /\ pc = "appended" /\ tail = "open" => job.id \in JournalIds

(* An undo was asked for, what it wants back is on disk, and nothing has    *)
(* happened since the newest write; a marker is its, here or after a crash. *)
UndoInHand ==
    /\ pc \in {"checked", "marked"} =>
         /\ \E e \in journal : e.id = job.id /\ e.success
         /\ pre[job.id] = job.snapshot
         /\ MatchesNewest
         /\ Covered(job.id) \subseteq asked
    /\ Marked =>
         /\ pc \in {"down", "opening", "marked"} \cup Restoring
         /\ Covered(marker.id) \subseteq asked

(* A restore is on its way to its snapshot.                                 *)
OnItsWay ==
    /\ pc = "restoring" => seen = repo.refs
    /\ pc \in {"refsDone", "indexDone", "restored"} => repo.refs = job.snapshot.refs
    /\ pc \in {"indexDone", "restored"} /\ job.snapshot.index # None =>
         repo.index = job.snapshot.index
    /\ pc = "restored" => repo.head = job.snapshot.head

(* No snapshot rests on a branch that does not exist, and the repository    *)
(* only does in the middle of a restore.                                    *)
Resolves(r) == r.head \in Branches => r.refs[r.head] # None
HeadsResolve ==
    /\ \A i \in Ids : pre[i] \in Repos => Resolves(pre[i])
    /\ Marked => Resolves(marker.snapshot)
    /\ pc \in Writing \cup Undoing => Resolves(job.snapshot)
    /\ ~Marked => Resolves(repo)

(* An answer stays true as long as it is the last one.                      *)
Answered ==
    /\ pc # "idle" => reply = "none"
    /\ reply = "restored" =>
         /\ repo.head = job.snapshot.head
         /\ repo.refs = job.snapshot.refs
         /\ job.snapshot.index # None => repo.index = job.snapshot.index

CrashInv == LineMended /\ WriteInHand /\ UndoInHand /\ OnItsWay /\ HeadsResolve /\ Answered

(* A command that leaves HEAD on a branch leaves it on one that exists.     *)
LEMMA ResolvesKept ==
    ASSUME NEW c \in CommandKinds, NEW r \in Repos, Resolves(r),
           NEW q \in Succeeds(c, r) \cup Conflicted(c, r)
    PROVE  Resolves(q)
<1>. USE SentinelAssumption DEF Resolves, Repos
<1>1. \A s \in Shas : Resolves(Advance(r, s))
  BY DEF Advance
<1>2. \A h \in Existing(r) \cup Shas \cup {r.head}, t \in Trees \cup {None} :
         Resolves(CheckOut(r, h, t)) /\ CheckOut(r, h, t) \in Repos
  BY DEF CheckOut, Existing
<1>3. \A w \in Repos, x \in Stashes \cup {None}, t \in Trees \cup {None} :
         Resolves(w) => Resolves(StashTo(w, x, t))
  BY DEF StashTo
<1>4. CASE c = "stage"
  BY <1>4 DEF Succeeds, Conflicted
<1>5. CASE c = "commit"
  BY <1>1, <1>5 DEF Succeeds, Conflicted
<1>6. CASE c = "create"
  BY <1>6 DEF Succeeds, Conflicted
<1>7. CASE c = "delete"
  <2>1. PICK b \in Existing(r) \ {r.head} : q = [r EXCEPT !.refs[b] = None]
    BY <1>7 DEF Succeeds, Conflicted
  <2>. QED  BY <2>1
<1>8. \A Q \in SUBSET Repos :
         (\A w \in Q : Resolves(w)) => \A w \in Stranded(Q) : Resolves(w)
  <2>. SUFFICES ASSUME NEW Q \in SUBSET Repos, \A w \in Q : Resolves(w), NEW w \in Stranded(Q)
                PROVE  Resolves(w)
    OBVIOUS
  <2>1. PICK v \in Q : \E x \in Stashes, t \in {v.index, None} : w = StashTo(v, x, t)
    BY DEF Stranded
  <2>2. v.index \in Trees \cup {None}
    OBVIOUS
  <2>3. v \in Repos /\ Resolves(v)
    OBVIOUS
  <2>. HIDE DEF Resolves, Repos
  <2>. QED  BY <1>3, <2>1, <2>2, <2>3
<1>12. \A w \in Stashed(r) : w \in Repos /\ Resolves(w)
  BY DEF Stashed
<1>13. \A w \in Halted(r) : w \in Repos /\ Resolves(w)
  BY <1>2 DEF Halted
<1>14. c \in {"switch", "pull"} => \A w \in Succeeds(c, r) : w \in Repos /\ Resolves(w)
  <2>1. CASE c = "switch"
    BY <1>2, <2>1 DEF Succeeds, Existing
  <2>2. CASE c = "pull"
    <3>. SUFFICES ASSUME NEW w \in Succeeds(c, r) PROVE w \in Repos /\ Resolves(w)
      BY <2>2
    <3>1. PICK s \in Shas, t \in Trees : w = [Advance(r, s) EXCEPT !.index = t]
      BY <2>2 DEF Succeeds
    <3>. QED  BY <1>1, <3>1, AdvanceType
  <2>. QED  BY <2>1, <2>2
<1>15. CASE c = "switch"
  <2>. HIDE DEF Resolves, Repos
  <2>1. Stashed(r) \cup Succeeds(c, r) \subseteq Repos
    BY <1>12, <1>14, <1>15
  <2>2. \A w \in Stashed(r) \cup Succeeds(c, r) : Resolves(w)
    BY <1>12, <1>14, <1>15
  <2>3. q \in Succeeds(c, r) \cup Stranded(Stashed(r) \cup Succeeds(c, r))
    BY <1>15 DEF Conflicted
  <2>. QED  BY <1>8, <2>1, <2>2, <2>3
<1>9. CASE c = "pull"
  <2>. HIDE DEF Resolves, Repos
  <2>. DEFINE Q == Stashed(r) \cup Succeeds(c, r) \cup Halted(r)
  <2>1. Q \subseteq Repos
    BY <1>12, <1>13, <1>14, <1>9
  <2>2. \A w \in Q : Resolves(w)
    BY <1>12, <1>13, <1>14, <1>9
  <2>3. q \in Q \cup Stranded(Q)
    BY <1>9 DEF Conflicted
  <2>. HIDE DEF Q
  <2>. QED  BY <1>8, <2>1, <2>2, <2>3
<1>10. CASE c = "push"
  BY <1>10 DEF Succeeds, Conflicted
<1>11. CASE c = "stash"
  BY <1>3, <1>11 DEF Succeeds, Conflicted
<1>. QED
  BY <1>4, <1>5, <1>6, <1>7, <1>9, <1>10, <1>11, <1>15 DEF CommandKinds

(* What a crash does to the marker.                                         *)
LEMMA CrashTears ==
    Crash => \/ marker' = marker
             \/ marker' = Torn /\ pc = "checked"
             \/ marker' = None /\ pc = "restored"
BY DEF Crash

(* Every step keeps it.                                                     *)
LEMMA CrashStep ==
    ASSUME OnlyCrashes, IInv, CrashInv, IInv', [Next]_vars
    PROVE  CrashInv'
<1>. USE MaxTxAssumption, SentinelAssumption
     DEF IInv, TypeOK, JournaledSnapshots, FreshIds, RestoreIsMarked, JobInHand,
         Phases, Writing, Restoring, Undoing, disk, mem,
         Ids, Entries, Jobs, Marks, JournalIds, UsedIds, Marked, MarkOf, Covered, MatchesNewest,
         Newest,
         CrashInv, LineMended, WriteInHand, UndoInHand, OnItsWay, HeadsResolve, Answered, Resolves
<1>1. CASE Open
  BY <1>1 DEF Open
<1>2. CASE RecoverNothing
  BY <1>2 DEF RecoverNothing
<1>3. CASE RecoverUndo
  BY <1>3 DEF RecoverUndo, TruncateJournal
<1>4. CASE Begin
  BY <1>4 DEF Begin
<1>5. CASE RunGit
  <2>1. Resolves(repo) => Resolves(repo')
    BY <1>5, ResolvesKept, KindAssumption DEF RunGit, Fails
  <2>. QED  BY <1>5, <2>1 DEF RunGit
<1>6. CASE WritePost
  BY <1>6 DEF WritePost
<1>7. CASE AppendLine
  <2>1. tail = "clean" => journal' = journal \cup {[id |-> job.id, success |-> job.success]}
    BY <1>7 DEF AppendLine, JournalWith
  <2>2. tail' = "open" => job.id \in JournalIds'
    BY <1>7, <2>1 DEF AppendLine
  <2>. QED  BY <1>7, <2>2 DEF AppendLine
<1>8. CASE AppendNewline
  BY <1>8 DEF AppendNewline
<1>9. CASE ResolveConflict
  BY <1>9 DEF ResolveConflict, Repos
<1>10. CASE \E id \in Ids : UndoNotFound(id)
  BY <1>10 DEF UndoNotFound
<1>11. CASE \E id \in Ids : UndoNoop(id)
  BY <1>11 DEF UndoNoop, TruncateJournal, Covered
<1>12. CASE \E id \in Ids : UndoBlocked(id)
  BY <1>12 DEF UndoBlocked
<1>13. CASE \E id \in Ids : UndoAccepted(id)
  BY <1>13 DEF UndoAccepted, Covered
<1>14. CASE WriteMarker
  BY <1>14 DEF WriteMarker
<1>15. CASE CutJournal
  BY <1>15 DEF CutJournal, TruncateJournal
<1>16. CASE ReadCurrent
  BY <1>16 DEF ReadCurrent
<1>17. CASE RestoreRefs
  <2>1. \A b \in Branches : RestoredRefs[b] = job.snapshot.refs[b]
    BY <1>17 DEF RestoreRefs, RestoredRefs, Batch, Drifted
  <2>2. job.snapshot \in Repos
    BY <1>17 DEF RestoreRefs
  <2>3. RestoredRefs = job.snapshot.refs
    BY <2>1, <2>2 DEF RestoredRefs, Repos
  <2>4. repo' = [repo EXCEPT !.refs = job.snapshot.refs] /\ repo'.refs = job.snapshot.refs
    BY <1>17, <2>3 DEF RestoreRefs, Repos
  <2>. QED  BY <1>17, <2>4 DEF RestoreRefs
<1>18. CASE RestoreIndex
  <2>1. /\ repo'.refs = repo.refs
        /\ job.snapshot.index # None => repo'.index = job.snapshot.index
    BY <1>18 DEF RestoreIndex, Repos, OnlyCrashes
  <2>. QED  BY <1>18, <2>1 DEF RestoreIndex
<1>19. CASE RestoreHead
  BY <1>19 DEF RestoreHead, Repos
<1>20. CASE Finish
  <2>1. Resolves(repo)
    BY <1>20 DEF Finish
  <2>2. /\ ~Marked' /\ pc' = "idle" /\ UNCHANGED <<repo, journal, tail, job, nextId, seen, asked>>
        /\ \A i \in Ids : pre'[i] = pre[i] \/ pre'[i] \notin Repos
    BY <1>20 DEF Finish, PruneSnapshots
  <2>3. Answered'
    BY <1>20 DEF Finish
  <2>. QED  BY <2>1, <2>2, <2>3
<1>21. CASE RestoreFails
  BY <1>21 DEF RestoreFails, Drifted, OnlyCrashes
<1>22. CASE Close
  BY <1>22 DEF Close, GoDown
<1>23. CASE Crash
  <2>1. pc # "appended" /\ UNCHANGED <<repo, journal, tail>> /\ GoDown
    BY <1>23 DEF Crash, GoDown
  <2>2. UndoInHand'
    BY <1>23, <2>1 DEF Crash, GoDown
  <2>3. \A i \in Ids : pre'[i] = pre[i] \/ pre'[i] \notin Repos
    BY <1>23 DEF Crash
  <2>4. \/ marker' = marker
        \/ marker' = Torn /\ pc = "checked"
        \/ marker' = None /\ pc = "restored"
    BY <1>23, CrashTears
  <2>5. pc = "restored" => Resolves(repo)
    OBVIOUS
  <2>6. HeadsResolve'
    BY <2>1, <2>3, <2>4, <2>5 DEF GoDown
  <2>. QED  BY <2>1, <2>2, <2>6 DEF GoDown
<1>26. CASE CrashInLine
  BY <1>26 DEF CrashInLine, GoDown
<1>24. CASE BeginFails \/ RecoverFails \/ CommitFails \/ UndoFails \/ FinishFails \/ External
            \/ \E id \in Ids : UndoNoopFails(id)
  BY <1>24 DEF BeginFails, RecoverFails, CommitFails, UndoFails, FinishFails, External,
       UndoNoopFails, OnlyCrashes
<1>25. CASE UNCHANGED vars
  BY <1>25 DEF vars
<1>. QED
  BY <1>1, <1>2, <1>3, <1>4, <1>5, <1>6, <1>7, <1>8, <1>9, <1>10, <1>11, <1>12, <1>13, <1>14,
     <1>15, <1>16, <1>17, <1>18, <1>19, <1>20, <1>21, <1>22, <1>23, <1>24, <1>25, <1>26
     DEF Next, Requests, Proceed

-----------------------------------------------------------------------------
(* The engine against the atomic stack of UndoStack.                        *)

(* The entries of the stack: those the journal keeps once a marked undo is  *)
(* rolled forward.                                                          *)
Kept == {e \in journal : Marked => e.id < marker.id}

(* The stack's values are what is visible of repositories.                  *)
LEMMA VisibleType ==
    \A r \in Repos : Visible(r) \in [head : Branches \cup Shas,
                                   refs : [Branches -> Shas \cup {None}]]
BY DEF Visible, Repos

(* So is the value of the stack, which is what an undo under way will       *)
(* restore.                                                                 *)
LEMMA ValueType ==
    ASSUME IInv
    PROVE  StackValue \in [head : Branches \cup Shas, refs : [Branches -> Shas \cup {None}]]
<1>1. Marked => marker.snapshot \in Repos
  BY DEF Marked, Marks
<1>2. pc \in {"begun", "ran", "posted"} => job.snapshot \in Repos
  BY DEF IInv, JobInHand, Writing, Jobs
<1>3. repo \in Repos
  BY DEF IInv, TypeOK
<1>. QED  BY <1>1, <1>2, <1>3, VisibleType DEF StackValue

(* And it stays one.                                                        *)
LEMMA ValueTypes ==
    ASSUME IInv, IInv'
    PROVE  StackValue' \in [head : Branches \cup Shas, refs : [Branches -> Shas \cup {None}]]
<1>1. Marked' => marker'.snapshot \in Repos
  BY DEF Marked, Marks
<1>2. pc' \in {"begun", "ran", "posted"} => job'.snapshot \in Repos
  BY DEF IInv, JobInHand, Writing, Jobs
<1>3. repo' \in Repos
  BY DEF IInv, TypeOK
<1>. QED  BY <1>1, <1>2, <1>3, VisibleType DEF StackValue

(* The stack is the same while the journal and the snapshots of its entries *)
(* are.                                                                     *)
LEMMA SameEntries ==
    ASSUME Kept' = Kept,
           \A e \in Kept : pre'[e.id] = pre[e.id] /\ post'[e.id] = post[e.id]
    PROVE  StackEntries' = StackEntries
BY DEF StackEntries, Kept, Visible

(* The stack's entries are as many as the journal's, id by id.              *)
LEMMA StackIds ==
    /\ \A e \in Kept : [id |-> e.id, success |-> e.success, before |-> Visible(pre[e.id]),
                        after |-> Visible(post[e.id])] \in StackEntries
    /\ \A w \in StackEntries : \E e \in Kept :
          w = [id |-> e.id, success |-> e.success, before |-> Visible(pre[e.id]),
               after |-> Visible(post[e.id])]
BY DEF StackEntries, Kept

(* What the stack does not see.                                             *)
Stutters == UNCHANGED <<StackValue, StackEntries, StackFrayed>>

(* The steps it does not see: the value is the one a write began with until *)
(* its line is written, and the one a marked undo leads to until it is done.*)
LEMMA StutterStep ==
    ASSUME OnlyCrashes, IInv, CrashInv, IInv', CrashInv',
           \/ Open \/ RecoverNothing \/ RecoverUndo \/ Begin \/ RunGit \/ WritePost
           \/ AppendNewline \/ ResolveConflict
           \/ \E id \in Ids : UndoNotFound(id) \/ UndoBlocked(id) \/ UndoAccepted(id)
           \/ CutJournal \/ ReadCurrent \/ RestoreRefs \/ RestoreIndex \/ RestoreHead
           \/ Finish \/ Close \/ UNCHANGED vars
    PROVE  Stutters
<1>. USE MaxTxAssumption, SentinelAssumption
     DEF IInv, TypeOK, FreshIds, RestoreIsMarked, JobInHand, Writing, Restoring, Undoing, disk, mem,
         Ids, Entries, Jobs, Marks, JournalIds, UsedIds, Marked, MarkOf, 
         CrashInv, LineMended, WriteInHand, UndoInHand, OnItsWay, Visible, StackValue, StackFrayed,
         Kept, Stutters
<1>1. CASE Open
  BY <1>1, SameEntries DEF Open
<1>2. CASE RecoverNothing
  BY <1>2, SameEntries DEF RecoverNothing
<1>3. CASE RecoverUndo
  BY <1>3, SameEntries DEF RecoverUndo, TruncateJournal
<1>4. CASE Begin
  BY <1>4, SameEntries DEF Begin
<1>5. CASE RunGit
  BY <1>5, SameEntries DEF RunGit
<1>6. CASE WritePost
  BY <1>6, SameEntries DEF WritePost
<1>7. CASE AppendNewline
  BY <1>7, SameEntries DEF AppendNewline
<1>8. CASE ResolveConflict
  BY <1>8, SameEntries DEF ResolveConflict, Repos
<1>9. CASE \E id \in Ids : UndoNotFound(id) \/ UndoBlocked(id) \/ UndoAccepted(id)
  BY <1>9, SameEntries DEF UndoNotFound, UndoBlocked, UndoAccepted
<1>10. CASE CutJournal
  BY <1>10, SameEntries DEF CutJournal, TruncateJournal
<1>11. CASE ReadCurrent
  BY <1>11, SameEntries DEF ReadCurrent
<1>12. CASE RestoreRefs \/ RestoreIndex \/ RestoreHead
  BY <1>12, SameEntries DEF RestoreRefs, RestoreIndex, RestoreHead
<1>13. CASE Finish
  BY <1>13, SameEntries DEF Finish, PruneSnapshots
<1>14. CASE Close
  BY <1>14, SameEntries DEF Close, GoDown
<1>15. CASE UNCHANGED vars
  BY <1>15, SameEntries DEF vars
<1>. QED
  BY <1>1, <1>2, <1>3, <1>4, <1>5, <1>6, <1>7, <1>8, <1>9, <1>10, <1>11, <1>12, <1>13, <1>14, <1>15

(* The line of a write puts it on the stack.                                *)
LEMMA WriteStep ==
    ASSUME OnlyCrashes, IInv, CrashInv, IInv', CrashInv', AppendLine, tail = "clean"
    PROVE  Stack!Write
<1>. DEFINE e == [id |-> job.id, success |-> job.success]
            w == [id |-> job.id, success |-> job.success, before |-> StackValue,
                  after |-> Visible(repo)]
<1>1. /\ pc = "posted" /\ ~Marked /\ job \in Jobs /\ tail = "clean"
      /\ post[job.id] = repo /\ pre[job.id] = job.snapshot
      /\ UNCHANGED <<repo, pre, post, marker>> /\ pc' = "appended"
      /\ journal' = journal \cup {e}
  BY DEF AppendLine, IInv, JobInHand, CrashInv, WriteInHand, UndoInHand, Writing,
     Restoring, Undoing, JournalWith
<1>2. job.id \in 1..MaxTx /\ job.success \in BOOLEAN
  BY <1>1 DEF Jobs, Ids
<1>3. \A f \in journal : f.id < job.id
  BY <1>1, <1>2, MaxTxAssumption DEF IInv, FreshIds, TypeOK, JobInHand, CrashInv, WriteInHand,
     Writing, UsedIds,
     JournalIds, Entries, Ids
<1>4. Kept = journal /\ Kept' = journal \cup {e}
  BY <1>1 DEF Kept, Marked
<1>5. StackValue = Visible(pre[job.id]) /\ StackValue' = Visible(repo)
  BY <1>1 DEF StackValue, Marked
<1>6. \A x \in StackEntries : x.id < w.id
  BY <1>3, <1>4, StackIds
<1>7. StackEntries' = StackEntries \cup {w}
  <2>. DEFINE In(f) == [id |-> f.id, success |-> f.success, before |-> Visible(pre[f.id]),
                        after |-> Visible(post[f.id])]
  <2>1. StackEntries = {In(f) : f \in journal}
    BY <1>4 DEF StackEntries, Kept
  <2>2. StackEntries' = {In(f) : f \in journal \cup {e}}
    BY <1>1, <1>4 DEF StackEntries, Kept
  <2>3. In(e) = w
    BY <1>1, <1>5
  <2>. HIDE DEF In, e, w
  <2>. QED  BY <2>1, <2>2, <2>3
<1>8. w \in {[id |-> i, success |-> ok, before |-> StackValue, after |-> StackValue'] :
                i \in 1..MaxTx, ok \in BOOLEAN}
  BY <1>2, <1>5
<1>9. StackValue' \in [head : Branches \cup Shas, refs : [Branches -> Shas \cup {None}]]
  BY <1>5, VisibleType DEF IInv, TypeOK
<1>10. ~StackFrayed /\ ~StackFrayed'
  BY <1>1 DEF StackFrayed
<1>11. StackFrayed \in BOOLEAN /\ StackFrayed' \in BOOLEAN
  BY DEF StackFrayed
<1>. HIDE DEF w
<1>. QED  BY <1>6, <1>7, <1>8, <1>9, <1>10, <1>11 DEF Stack!Write

(* A write whose line, or the beginning of it, joins a frayed one is lost   *)
(* together with that.                                                      *)
LEMMA LostStep ==
    ASSUME OnlyCrashes, IInv, CrashInv, IInv', CrashInv', tail = "open", pc = "posted",
           AppendLine \/ CrashInLine
    PROVE  Stack!LostWrite
<1>1. /\ ~Marked /\ ~Marked' /\ UNCHANGED <<pre, post, marker>>
      /\ journal' = {f \in journal : ~Newest(f)} /\ tail' = "torn"
  BY DEF AppendLine, CrashInLine, JournalWith, CrashInv, UndoInHand, Restoring, Marked
<1>2. Kept = journal /\ Kept' = {f \in journal : ~Newest(f)}
  BY <1>1 DEF Kept
<1>. DEFINE In(f) == [id |-> f.id, success |-> f.success, before |-> Visible(pre[f.id]),
                      after |-> Visible(post[f.id])]
<1>3. StackEntries = {In(f) : f \in journal}
  BY <1>2 DEF StackEntries, Kept
<1>4. StackEntries' = {In(f) : f \in {g \in journal : ~Newest(g)}}
  BY <1>1, <1>2 DEF StackEntries, Kept
<1>5. ASSUME NEW f \in journal PROVE Stack!Top(In(f)) <=> Newest(f)
  <2>1. In(f) \in StackEntries
    BY <1>3
  <2>2. (\A x \in StackEntries : x.id <= f.id) <=> \A g \in journal : g.id <= f.id
    <3>1. \A g \in journal : In(g) \in StackEntries /\ In(g).id = g.id
      BY <1>3
    <3>2. \A x \in StackEntries : \E g \in journal : x.id = g.id
      BY <1>3
    <3>. QED  BY <3>1, <3>2
  <2>. QED  BY <2>1, <2>2 DEF Stack!Top, Newest
<1>6. StackEntries' = {w \in StackEntries : ~Stack!Top(w)}
  <2>. HIDE DEF In
  <2>. QED  BY <1>3, <1>4, <1>5
<1>7. StackFrayed = TRUE /\ StackFrayed' = FALSE
  BY <1>1 DEF StackFrayed
<1>. QED  BY <1>6, <1>7, ValueTypes DEF Stack!LostWrite

(* The crash that takes the newline frays the newest entry.                 *)
LEMMA FrayStep ==
    ASSUME OnlyCrashes, IInv, CrashInv, IInv', CrashInv', tail = "open", pc = "appended",
           CrashInLine
    PROVE  Stack!Fray
<1>1. /\ ~Marked /\ ~Marked' /\ UNCHANGED <<repo, journal, tail, pre, post, marker>> /\ pc' = "down"
  BY DEF CrashInLine, GoDown, CrashInv, UndoInHand, Restoring, Marked
<1>2. StackValue' = StackValue
  BY <1>1 DEF StackValue
<1>3. StackEntries' = StackEntries
  BY <1>1, SameEntries DEF Kept
<1>4. StackEntries # {}
  <2>1. PICK e \in journal : e.id = job.id
    BY DEF CrashInv, WriteInHand, JournalIds
  <2>. QED  BY <1>1, <2>1 DEF StackEntries
<1>5. StackFrayed' = TRUE
  BY <1>1 DEF StackFrayed
<1>. QED  BY <1>2, <1>3, <1>4, <1>5 DEF Stack!Fray

(* A line appended to half a line, or half a line, leaves the stack as it   *)
(* is.                                                                      *)
LEMMA TornStep ==
    ASSUME OnlyCrashes, IInv, CrashInv, IInv', CrashInv', pc = "posted",
           \/ AppendLine /\ tail = "torn"
           \/ CrashInLine /\ tail # "open"
    PROVE  Stack!Drift
<1>1. /\ ~Marked /\ ~Marked' /\ UNCHANGED <<journal, pre, post, marker>>
      /\ tail # "open" /\ tail' # "open"
  BY DEF AppendLine, CrashInLine, JournalWith, CrashInv, UndoInHand, Restoring, Marked
<1>2. StackEntries' = StackEntries
  BY <1>1, SameEntries DEF Kept
<1>3. StackFrayed = FALSE /\ StackFrayed' = FALSE
  BY <1>1 DEF StackFrayed
<1>. QED  BY <1>2, <1>3, ValueTypes DEF Stack!Drift

(* The marker takes the undone write and the later ones off the stack and   *)
(* puts back the value the undone one began with.                           *)
LEMMA UndoStep ==
    ASSUME OnlyCrashes, IInv, CrashInv, IInv', CrashInv', WriteMarker
    PROVE  Stack!Undo
<1>. DEFINE In(e) == [id |-> e.id, success |-> e.success, before |-> Visible(pre[e.id]),
                      after |-> Visible(post[e.id])]
<1>1. /\ pc = "checked" /\ ~Marked /\ job \in Jobs /\ MatchesNewest
      /\ pre[job.id] = job.snapshot
      /\ UNCHANGED <<repo, journal, pre, post>>
      /\ marker' = MarkOf(job) /\ marker' \in Marks
  BY DEF WriteMarker, IInv, TypeOK, JobInHand, CrashInv, UndoInHand, Restoring, Undoing, MarkOf,
     Marks, Jobs
<1>2. PICK e \in journal : e.id = job.id /\ e.success
  BY <1>1 DEF CrashInv, UndoInHand
<1>3. PICK f \in journal : Newest(f) /\ repo = post[f.id]
  BY <1>1 DEF MatchesNewest
<1>4. Kept = journal /\ Kept' = {g \in journal : g.id < job.id}
  BY <1>1 DEF Kept, Marked, MarkOf
<1>5. StackValue = Visible(repo) /\ StackValue' = Visible(job.snapshot)
  BY <1>1 DEF StackValue, Marked, MarkOf
<1>6. Stack!Top(In(f))
  BY <1>3, <1>4, StackIds DEF Stack!Top, Newest
<1>7. StackEntries' = Stack!Below(In(e).id)
  BY <1>1, <1>2, <1>4 DEF StackEntries, Kept, Stack!Below
<1>8. In(e) \in StackEntries /\ In(f) \in StackEntries
  BY <1>2, <1>3, <1>4, StackIds
<1>9. StackFrayed' = FALSE
  BY <1>1 DEF StackFrayed, Marked
<1>. QED  BY <1>1, <1>2, <1>3, <1>5, <1>6, <1>7, <1>8, <1>9 DEF Stack!Undo

(* So does the undo of a write that failed, but for the value.              *)
LEMMA DiscardStep ==
    ASSUME OnlyCrashes, IInv, CrashInv, IInv', CrashInv', NEW id \in Ids, UndoNoop(id)
    PROVE  Stack!Discard
<1>1. /\ pc = "idle" /\ ~Marked
      /\ UNCHANGED <<repo, pre, post, marker, pc>> /\ journal' = {e \in journal : e.id < id}
  BY DEF UndoNoop, TruncateJournal, CrashInv, UndoInHand, Restoring
<1>2. PICK e \in journal : e.id = id /\ ~e.success
  BY DEF UndoNoop
<1>3. StackValue' = StackValue
  BY <1>1 DEF StackValue, Marked
<1>4. Kept = journal /\ Kept' = {f \in journal : f.id < id}
  BY <1>1 DEF Kept, Marked
<1>5. StackEntries' = Stack!Below(id)
  BY <1>1, <1>4 DEF StackEntries, Kept, Stack!Below
<1>6. \E w \in StackEntries : w.id = id /\ ~w.success
  BY <1>2, <1>4, StackIds
<1>7. StackFrayed' = FALSE
  BY DEF UndoNoop, TruncateJournal, StackFrayed
<1>. QED  BY <1>3, <1>5, <1>6, <1>7 DEF Stack!Discard

(* A crash loses a write that is not yet in the journal, no more.           *)
LEMMA DriftStep ==
    ASSUME OnlyCrashes, IInv, CrashInv, IInv', CrashInv', Crash
    PROVE  Stack!Drift
<1>1. /\ UNCHANGED <<repo, journal>> /\ pc' = "down"
      /\ \A i \in Ids : pre'[i] = pre[i] \/ (pc = "idle" /\ i = nextId)
      /\ \A i \in Ids : post'[i] = post[i] \/ (pc = "ran" /\ i = job.id)
  <2>1. pre \in [Ids -> Repos \cup {None, Torn}] /\ post \in [Ids -> Repos \cup {None, Torn}]
    BY DEF IInv, TypeOK
  <2>2. UNCHANGED <<repo, journal>> /\ pc' = "down"
    BY DEF Crash, GoDown
  <2>3. pre' = pre \/ (pc = "idle" /\ pre' = [pre EXCEPT ![nextId] = Torn])
    BY Zenon DEF Crash
  <2>4. post' = post \/ (pc = "ran" /\ post' = [post EXCEPT ![job.id] = Torn])
    BY Zenon DEF Crash
  <2>5. ASSUME NEW i \in Ids PROVE pre'[i] = pre[i] \/ (pc = "idle" /\ i = nextId)
    BY <2>1, <2>3
  <2>6. ASSUME NEW i \in Ids PROVE post'[i] = post[i] \/ (pc = "ran" /\ i = job.id)
    BY <2>1, <2>4
  <2>. QED  BY <2>2, <2>5, <2>6
<1>2. \A e \in Kept : pre'[e.id] = pre[e.id] /\ post'[e.id] = post[e.id]
  BY <1>1 DEF IInv, TypeOK, FreshIds, JobInHand, UsedIds, JournalIds, Kept, Entries
<1>3. Kept' = Kept
  <2>1. CASE marker' = marker
    BY <1>1, <2>1 DEF Kept, Marked
  <2>2. CASE marker' = Torn /\ pc = "checked"
    BY <1>1, <2>2, SentinelAssumption DEF Kept, Marked, CrashInv, UndoInHand, Restoring
  <2>3. CASE marker' = None /\ pc = "restored"
    BY <1>1, <2>3, SentinelAssumption DEF Kept, Marked, IInv, RestoreIsMarked, JobInHand, MarkOf,
       Undoing, Restoring, Jobs, Marks
  <2>. QED  BY <2>1, <2>2, <2>3, CrashTears
<1>4. StackValue' \in [head : Branches \cup Shas, refs : [Branches -> Shas \cup {None}]]
  BY <1>1, VisibleType DEF StackValue, Marked, Marks, IInv, TypeOK
<1>5. StackFrayed' = StackFrayed
  <2>1. tail' = tail /\ pc # "appended" /\ pc' = "down"
    BY DEF Crash, GoDown
  <2>2. CASE marker' = marker
    BY <2>1, <2>2 DEF StackFrayed, Marked
  <2>3. CASE marker' = Torn /\ pc = "checked"
    BY <2>1, <2>3, SentinelAssumption DEF StackFrayed, Marked, CrashInv, UndoInHand, Restoring
  <2>4. CASE marker' = None /\ pc = "restored"
    BY <2>1, <2>4 DEF StackFrayed, CrashInv, LineMended, Restoring
  <2>. QED  BY <2>2, <2>3, <2>4, CrashTears
<1>. QED  BY <1>2, <1>3, <1>4, <1>5, SameEntries DEF Stack!Drift

(* Every step of the engine is a step of the stack.                         *)
LEMMA StackStep ==
    ASSUME OnlyCrashes, IInv, CrashInv, IInv', CrashInv', [Next]_vars
    PROVE  Stack!Next \/ Stutters
<1>1. CASE Crash
  BY <1>1, DriftStep DEF Stack!Next
<1>2. CASE AppendLine
  <2>1. pc = "posted" /\ tail \in {"clean", "open", "torn"}
    BY <1>2 DEF AppendLine, IInv, TypeOK
  <2>. QED  BY <1>2, <2>1, WriteStep, LostStep, TornStep DEF Stack!Next
<1>8. CASE CrashInLine
  <2>1. CASE pc = "posted"
    BY <1>8, <2>1, LostStep, TornStep DEF Stack!Next
  <2>2. CASE pc = "appended" /\ tail = "open"
    BY <1>8, <2>2, FrayStep DEF Stack!Next
  <2>3. CASE pc = "appended" /\ tail # "open"
    <3>1. UNCHANGED <<repo, journal, tail, pre, post, marker>> /\ pc' = "down"
      BY <1>8, <2>3 DEF CrashInLine, GoDown
    <3>2. StackEntries' = StackEntries
      BY <3>1, SameEntries DEF Kept, Marked
    <3>. QED  BY <2>3, <3>1, <3>2 DEF StackValue, StackFrayed, Stutters, Marked
  <2>. QED  BY <1>8, <2>1, <2>2, <2>3 DEF CrashInLine
<1>3. CASE WriteMarker
  BY <1>3, UndoStep DEF Stack!Next
<1>4. CASE \E id \in Ids : UndoNoop(id)
  BY <1>4, DiscardStep DEF Stack!Next
<1>5. CASE RestoreFails
  BY <1>5 DEF RestoreFails, Drifted, OnlyCrashes, CrashInv, OnItsWay
<1>6. CASE BeginFails \/ RecoverFails \/ CommitFails \/ UndoFails \/ FinishFails \/ External
            \/ \E id \in Ids : UndoNoopFails(id)
  BY <1>6 DEF BeginFails, RecoverFails, CommitFails, UndoFails, FinishFails, External,
       UndoNoopFails, OnlyCrashes
<1>7. CASE \/ Open \/ RecoverNothing \/ RecoverUndo \/ Begin \/ RunGit \/ WritePost
           \/ AppendNewline \/ ResolveConflict
           \/ \E id \in Ids : UndoNotFound(id) \/ UndoBlocked(id) \/ UndoAccepted(id)
           \/ CutJournal \/ ReadCurrent \/ RestoreRefs \/ RestoreIndex \/ RestoreHead
           \/ Finish \/ Close \/ UNCHANGED vars
  BY <1>7, StutterStep
<1>. QED
  BY <1>1, <1>2, <1>3, <1>4, <1>5, <1>6, <1>7, <1>8 DEF Next, Requests, Proceed

-----------------------------------------------------------------------------
(* No entry is there at first, and nothing is under way.                    *)
LEMMA InitCrashInv == Init => CrashInv
<1>. SUFFICES ASSUME Init PROVE CrashInv
  OBVIOUS
<1>1. marker = None /\ ~Marked /\ \A i \in Ids : pre[i] = None
  BY SentinelAssumption DEF Init, Marked
<1>2. Resolves(repo)
  BY SentinelAssumption DEF Init, Resolves
<1>. QED  BY <1>1, <1>2, SentinelAssumption DEF Init, CrashInv, LineMended, WriteInHand,
     UndoInHand, OnItsWay,
            HeadsResolve, Answered, Writing, Undoing, Restoring

(* The second strengthening holds as long as nothing but crashes and        *)
(* conflicts goes wrong.                                                    *)
LEMMA CrashInvariance == OnlyCrashes => (Spec => []CrashInv)
<1>1. SUFFICES ASSUME OnlyCrashes PROVE Spec => []CrashInv
  OBVIOUS
<1>2. IInv /\ IInv' /\ CrashInv /\ [Next]_vars => CrashInv'
  BY <1>1, CrashStep
<1>. QED  BY <1>2, InitCrashInv, Invariance, PTL DEF Spec

(* Under crashes at any point, a line's newline included, and conflicting   *)
(* commands the engine is the undo stack: a write takes effect with its     *)
(* journal line, an undo with its marker.  A crash costs no more than the   *)
(* write it interrupts and, inside a line of the journal, the entry whose   *)
(* line it or the next write joins.                                         *)
THEOREM EngineIsAStack == OnlyCrashes => (Spec => ImplementsUndoStack)
<1>1. SUFFICES ASSUME OnlyCrashes PROVE Spec => Stack!Spec
  BY DEF ImplementsUndoStack
<1>2. Init => Stack!Init
  <2>1. Init => StackEntries = {}
    BY DEF Init, StackEntries
  <2>2. Init => StackFrayed = FALSE
    BY DEF Init, StackFrayed
  <2>. QED  BY <2>1, <2>2, InitIInv, ValueType DEF Stack!Init
<1>3. IInv /\ IInv' /\ CrashInv /\ CrashInv' /\ [Next]_vars =>
         [Stack!Next]_<<StackValue, StackEntries, StackFrayed>>
  BY <1>1, StackStep DEF Stutters
<1>4. Spec => []CrashInv
  BY <1>1, CrashInvariance
<1>. QED  BY <1>2, <1>3, <1>4, Invariance, PTL DEF Spec, Stack!Spec

(* Then no transaction leaves the journal, be it by an undo or by the       *)
(* recovery after a crash, unless an undo the user asked for covered it, or *)
(* a crash had left it as the newest without its newline.                   *)
THEOREM OnlyAskedLeaves == OnlyCrashes => (Spec => OnlyAskedIsUndone)
<1>1. SUFFICES ASSUME OnlyCrashes PROVE Spec => OnlyAskedIsUndone
  OBVIOUS
<1>2. ASSUME IInv, CrashInv, CrashInv', [Next]_vars
      PROVE  \A e \in journal \ journal' :
                e.id \in asked' \/ (pc = "posted" /\ tail = "open" /\ Newest(e))
  <2>. USE DEF IInv, TypeOK, JobInHand, CrashInv, UndoInHand, Covered, JournalIds, Marked, MarkOf,
           TruncateJournal, disk, mem
  <2>1. CASE RecoverUndo
    BY <1>2, <2>1, MaxTxAssumption DEF RecoverUndo, Entries, Ids, Marks
  <2>2. CASE CutJournal
    BY <1>2, <2>2, MaxTxAssumption DEF CutJournal, Entries, Ids, Jobs, Undoing
  <2>3. CASE \E id \in Ids : UndoNoop(id)
    BY <1>2, <2>3, MaxTxAssumption DEF UndoNoop, Entries, Ids
  <2>4. CASE AppendLine
    BY <1>2, <2>4 DEF AppendLine, JournalWith
  <2>6. CASE CrashInLine
    BY <1>2, <2>6 DEF CrashInLine
  <2>5. CASE UNCHANGED journal
    BY <2>5
  <2>. QED
    BY <1>2, <2>1, <2>2, <2>3, <2>4, <2>5, <2>6
       DEF Next, Requests, Proceed, vars, Open, RecoverNothing, RecoverFails, Begin, BeginFails,
           RunGit, WritePost, AppendNewline,
           CommitFails, ResolveConflict, UndoNotFound, UndoNoopFails, UndoBlocked, UndoAccepted,
           WriteMarker, UndoFails,
           ReadCurrent, RestoreRefs, RestoreIndex, RestoreHead, Finish, RestoreFails, FinishFails,
           Close, Crash, GoDown, External
<1>3. IInv /\ CrashInv /\ CrashInv' /\ [Next]_vars
        => [\A e \in journal \ journal' :
               e.id \in asked' \/ (pc = "posted" /\ tail = "open" /\ Newest(e))]_<<journal, asked>>
  BY <1>2
<1>4. Spec => []CrashInv
  BY <1>1, CrashInvariance
<1>. QED  BY <1>3, <1>4, Invariance, PTL DEF Spec, OnlyAskedIsUndone

(* Then an undo that answered "restored" has restored HEAD, every branch    *)
(* and a mergeable index, and HEAD never rests on a branch that is gone.    *)
THEOREM RestoredIsBefore == OnlyCrashes => (Spec => []RestoredIsPreState)
<1>1. SUFFICES ASSUME OnlyCrashes PROVE Spec => []RestoredIsPreState
  OBVIOUS
<1>2. CrashInv => RestoredIsPreState
  BY DEF CrashInv, Answered, HeadsResolve, Resolves, RestoredIsPreState
<1>. QED  BY <1>1, <1>2, CrashInvariance, PTL

=============================================================================
