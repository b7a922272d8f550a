--------------------------- MODULE CommitViewProofs ---------------------------
(****************************************************************************)
(* What the commit view discards and what the merge editor stages, for      *)
(* every set of files and however the repository changes under them.        *)
(****************************************************************************)
EXTENDS CommitView, TLAPS

(* While a discard is past its modal the history has what every listing had *)
(* since, the one of its own check included, and that one had to allow it.  *)
DiscardKnows ==
    /\ discard \in {"asked", "read", "sent"} => \A f \in Files : status[f] \subseteq since[f]
    /\ discard = "read" => \A f \in Files : checked[f] \subseteq since[f]
    /\ discard = "sent" => \A f \in paths : since[f] \ {"staged"} # {}

(* A save is staged for a conflict that its status read found, and none is  *)
(* there that the history has not.                                          *)
SaveKnows ==
    /\ save # "idle" /\ "conflicts" \in status[Merged] => disputed
    /\ save = "read" /\ found => disputed
    /\ save = "sent" => disputed

IInv == TypeOK /\ DiscardKnows /\ SaveKnows

-----------------------------------------------------------------------------
(* What the engine makes of a write is a status again.                      *)
LEMMA OutcomesAreStatuses ==
    ASSUME status \in Statuses, NEW kind \in Kinds, NEW f \in Files
    PROVE  Outcomes(kind, f) \subseteq Statuses
<1>1. ASSUME NEW l \in Listings PROVE [status EXCEPT ![f] = l] \in Statuses
  BY DEF Statuses
<1>2. Unstaged \in Statuses
  BY ListingAssumption DEF Unstaged, Statuses
<1>. QED BY <1>1, <1>2 DEF Outcomes, Kinds

(* Of the files that are discarded the staged rows remain.                  *)
DiscardedStatus ==
    [f \in Files |-> IF f \in paths THEN status[f] \cap {"staged"} ELSE status[f]]

(* A file keeps a listing when it is discarded.                             *)
LEMMA DiscardedIsStatus ==
    ASSUME status \in Statuses
    PROVE  DiscardedStatus \in Statuses
BY ListingAssumption DEF DiscardedStatus, Statuses

(* So every change of the repository is one from a status to a status.      *)
LEMMA ChangesAreStatuses ==
    ASSUME TypeOK, [Next]_vars
    PROVE  \/ UNCHANGED <<status, changes>>
           \/ \E new \in Statuses : RepoChanges(new)
<1>1. CASE External
  BY <1>1 DEF External, TypeOK, Statuses
<1>2. CASE Written
  <2>1. sent[1] \in Kinds /\ sent[2] \in Files
    BY <1>2 DEF Written, TypeOK
  <2>. QED BY <1>2, <2>1, OutcomesAreStatuses DEF Written, TypeOK
<1>3. CASE SaveStaged
  <2>1. Outcomes("stage", Merged) \subseteq Statuses
    BY MergedAssumption, OutcomesAreStatuses DEF TypeOK, Kinds
  <2>. QED BY <1>3, <2>1 DEF SaveStaged
<1>4. CASE Discarded
  BY <1>4, DiscardedIsStatus DEF Discarded, DiscardedStatus, TypeOK
<1>5. CASE ~(External \/ Written \/ SaveStaged \/ Discarded)
  BY <1>5
  DEF Next, Refreshing, vars, repo, RepoRests, Bump, Resolve, Ready, CloseView, TimerFires,
      RefreshRead, RefreshPosted, RefreshDone, RefreshFails, Click, WriteFails, AskDiscard,
      DiscardCancelled, DiscardConfirmed, DiscardRead, CheckPasses, CheckRefuses, CheckFails,
      DiscardFails, Save, SaveRead, SaveDecides, SaveBlind, SaveFails
<1>. QED BY <1>1, <1>2, <1>3, <1>4, <1>5

-----------------------------------------------------------------------------
(* Only the flow of a discard is under way, or only that of a save, begins  *)
(* and ends, and what a refresh does is not about either.                   *)
Discards ==
    \/ AskDiscard \/ DiscardCancelled \/ DiscardConfirmed \/ DiscardRead
    \/ CheckPasses \/ CheckRefuses \/ CheckFails \/ Discarded \/ DiscardFails
Saves == Save \/ SaveRead \/ SaveDecides \/ SaveBlind \/ SaveStaged \/ SaveFails

(* The history of a discard and that of a save are kept with every change.  *)
LEMMA HistoryKept ==
    ASSUME IInv, [Next]_vars, ~Discards
    PROVE  /\ UNCHANGED <<discard, paths, checked>>
           /\ \/ UNCHANGED <<status, since>>
              \/ /\ status' \in Statuses
                 /\ since' = IF discard \in {"idle", "modal"} THEN Nowhere
                             ELSE [f \in Files |-> since[f] \cup status'[f]]
<1>1. UNCHANGED <<discard, paths, checked>>
  BY DEF Next, Refreshing, Discards, vars, discarder, Bump, External, Resolve, Ready, CloseView,
         TimerFires, RefreshRead, RefreshPosted, RefreshDone, RefreshFails, Click, Written,
         WriteFails, Save, SaveRead, SaveDecides, SaveBlind, SaveStaged, SaveFails
<1>2. CASE External \/ Written \/ SaveStaged
  <2>1. \E new \in Statuses : RepoChanges(new)
    <3>1. \E new : RepoChanges(new)
      BY <1>2 DEF External, Written, SaveStaged
    <3>2. changes' # changes
      BY <3>1 DEF RepoChanges, IInv, TypeOK
    <3>. QED BY <3>2, ChangesAreStatuses DEF IInv
  <2>. QED BY <1>1, <2>1 DEF RepoChanges, Lists
<1>3. CASE ~(External \/ Written \/ SaveStaged)
  <2>1. UNCHANGED <<status, since>>
    BY <1>3
    DEF Next, Refreshing, Discards, vars, repo, history, RepoRests, Bump, Resolve, Ready,
        CloseView, TimerFires, RefreshRead, RefreshPosted, RefreshDone, RefreshFails, Click,
        WriteFails, Save, SaveRead, SaveDecides, SaveBlind, SaveFails
  <2>. QED BY <1>1, <2>1
<1>. QED BY <1>1, <1>2, <1>3

(* The check before a discard sees a listing of the history.                *)
LEMMA DiscardKnowsNext == IInv /\ [Next]_vars => DiscardKnows'
<1>. SUFFICES ASSUME IInv, [Next]_vars PROVE DiscardKnows'
  OBVIOUS
<1>0. TypeOK /\ DiscardKnows /\ status \in Statuses
  BY DEF IInv, TypeOK
<1>1. CASE ~Discards
  <2>1. CASE UNCHANGED <<status, since>>
    BY <1>0, <1>1, <2>1, HistoryKept DEF DiscardKnows
  <2>2. CASE /\ status' \in Statuses
             /\ since' = IF discard \in {"idle", "modal"} THEN Nowhere
                         ELSE [f \in Files |-> since[f] \cup status'[f]]
    <3>1. UNCHANGED <<discard, paths, checked>>
      BY <1>1, HistoryKept
    <3>2. discard \in {"asked", "read", "sent"} =>
             \A f \in Files : since[f] \subseteq since'[f] /\ status'[f] \subseteq since'[f]
      BY <2>2
    <3>. QED BY <1>0, <3>1, <3>2 DEF DiscardKnows, TypeOK
  <2>. QED BY <1>1, <2>1, <2>2, HistoryKept
<1>2. CASE discard' \in {"idle", "modal"}
  BY <1>2 DEF DiscardKnows
<1>3. CASE DiscardConfirmed
  BY <1>3 DEF DiscardConfirmed, DiscardKnows, repo
<1>4. CASE DiscardRead
  BY <1>0, <1>4 DEF DiscardRead, DiscardKnows, RepoRests, repo, history
<1>5. CASE CheckPasses
  <2>1. /\ discard = "read" /\ discard' = "sent" /\ UNCHANGED <<status, since, paths>>
        /\ \A f \in paths : checked[f] \ {"staged"} # {}
    BY <1>5 DEF CheckPasses, RepoRests, repo, history
  <2>2. \A f \in paths : since[f] \ {"staged"} # {}
    BY <1>0, <2>1 DEF DiscardKnows, TypeOK
  <2>. QED BY <1>0, <2>1, <2>2 DEF DiscardKnows
<1>. QED BY <1>1, <1>2, <1>3, <1>4, <1>5
     DEF Discards, AskDiscard, DiscardCancelled, CheckRefuses, CheckFails, Discarded,
         DiscardFails, NoDiscard

(* The decision to stage is about a conflict that the history has.          *)
LEMMA SaveKnowsNext == IInv /\ [Next]_vars => SaveKnows'
<1>. SUFFICES ASSUME IInv, [Next]_vars PROVE SaveKnows'
  OBVIOUS
<1>0. TypeOK /\ SaveKnows
  BY DEF IInv
<1>1. CASE Save
  BY <1>1 DEF Save, SaveKnows, repo
<1>2. CASE SaveRead
  BY <1>0, <1>2 DEF SaveRead, SaveKnows, RepoRests, repo, history
<1>3. CASE SaveDecides \/ SaveBlind
  BY <1>0, <1>3 DEF SaveDecides, SaveBlind, NoSave, SaveKnows, RepoRests, repo, history
<1>4. CASE SaveStaged \/ SaveFails
  BY <1>4 DEF SaveStaged, SaveFails, NoSave, SaveKnows
<1>5. CASE ~Saves
  <2>1. UNCHANGED <<save, found>>
    BY <1>5
    DEF Next, Refreshing, Saves, vars, saver, Bump, External, Resolve, Ready, CloseView,
        TimerFires, RefreshRead, RefreshPosted, RefreshDone, RefreshFails, Click, Written,
        WriteFails, AskDiscard, DiscardCancelled, DiscardConfirmed, DiscardRead, CheckPasses,
        CheckRefuses, CheckFails, Discarded, DiscardFails
  <2>2. CASE \E new : RepoChanges(new)
    BY <1>0, <2>1, <2>2 DEF RepoChanges, Lists, SaveKnows
  <2>3. CASE ~\E new : RepoChanges(new)
    <3>1. UNCHANGED <<status, disputed>>
      BY <1>5, <2>3
      DEF Next, Refreshing, Saves, vars, repo, history, RepoRests, Bump, External, Resolve,
          Ready, CloseView, TimerFires, RefreshRead, RefreshPosted, RefreshDone, RefreshFails,
          Click, Written, WriteFails, AskDiscard, DiscardCancelled, DiscardConfirmed,
          DiscardRead, CheckPasses, CheckRefuses, CheckFails, Discarded, DiscardFails
    <3>. QED BY <1>0, <2>1, <3>1 DEF SaveKnows
  <2>. QED BY <2>2, <2>3
<1>. QED BY <1>1, <1>2, <1>3, <1>4, <1>5 DEF Saves

-----------------------------------------------------------------------------
(* The type invariant, by the owners of the variables.                      *)
RepoOK ==
    /\ status \in Statuses /\ changes \in 0..MaxChanges /\ unseen \in BOOLEAN
    /\ since \in [Files -> SUBSET {"conflicts", "staged", "changes", "untracked"}]
    /\ disputed \in BOOLEAN

ListOK ==
    /\ view \in {"none", "loading", "loaded"}
    /\ shown \in Statuses \cup {Blank} /\ lastItems \in Statuses

RefresherOK ==
    /\ timer \in BOOLEAN /\ refreshQueued \in BOOLEAN /\ failed \in BOOLEAN
    /\ refresh \in {"idle", "asked", "read", "posted"} /\ answer \in Statuses
    /\ refreshQueued => refresh # "idle"
    /\ moved \in BOOLEAN

WriterOK ==
    /\ sent \in (Kinds \X Files) \cup {<<>>} /\ committing \in {"no", "sent", "settling"}

DiscarderOK ==
    /\ discard \in {"idle", "modal", "asked", "read", "sent"}
    /\ paths \in SUBSET Files /\ checked \in Statuses
    /\ discard # "idle" => paths # {}

SaverOK == save \in {"idle", "asked", "read", "sent", "blind"} /\ found \in BOOLEAN

(* The parts make the type invariant, before and after a step.              *)
LEMMA TypeParts ==
    /\ TypeOK <=> RepoOK /\ ListOK /\ RefresherOK /\ WriterOK /\ DiscarderOK /\ SaverOK
    /\ TypeOK' <=> RepoOK' /\ ListOK' /\ RefresherOK' /\ WriterOK' /\ DiscarderOK' /\ SaverOK'
BY DEF TypeOK, RepoOK, ListOK, RefresherOK, WriterOK, DiscarderOK, SaverOK

(* A file that is listed nowhere has a listing, and a listing is a set of   *)
(* buckets.                                                                 *)
LEMMA NowhereIsStatus ==
    /\ Nowhere \in Statuses
    /\ Nowhere \in [Files -> SUBSET {"conflicts", "staged", "changes", "untracked"}]
    /\ Statuses \subseteq [Files -> SUBSET {"conflicts", "staged", "changes", "untracked"}]
BY ListingAssumption DEF Nowhere, Statuses

(* No program lists a file in a way that there is not, and the history      *)
(* keeps its type.                                                          *)
LEMMA RepoOKNext == TypeOK /\ [Next]_vars => RepoOK'
<1>. SUFFICES ASSUME TypeOK, [Next]_vars PROVE RepoOK'
  OBVIOUS
<1>. DEFINE Rows == SUBSET {"conflicts", "staged", "changes", "untracked"}
<1>0. RepoOK
  BY TypeParts
<1>1. CASE \E new \in Statuses : RepoChanges(new)
  <2>1. PICK new \in Statuses : RepoChanges(new)
    BY <1>1
  <2>2. status' \in Statuses /\ changes' \in 0..MaxChanges /\ unseen' \in BOOLEAN
    BY <1>0, <2>1, BoundAssumption DEF RepoChanges, Lists, RepoOK
  <2>3. new \in [Files -> Rows] /\ since \in [Files -> Rows]
    BY <1>0, NowhereIsStatus DEF RepoOK
  <2>4. [f \in Files |-> since[f] \cup new[f]] \in [Files -> Rows]
    BY <2>3
  <2>5. since' \in [Files -> Rows]
    BY <2>1, <2>4, NowhereIsStatus DEF RepoChanges, Lists
  <2>6. disputed' \in BOOLEAN
    BY <2>1 DEF RepoChanges, Lists
  <2>. QED BY <2>2, <2>5, <2>6 DEF RepoOK
<1>2. CASE ~\E new \in Statuses : RepoChanges(new)
  <2>1. UNCHANGED <<status, changes>>
    BY <1>2, ChangesAreStatuses
  <2>2. unseen' \in BOOLEAN
    BY <1>0
    DEF RepoOK, Next, Refreshing, vars, repo, RepoRests, RepoChanges, Bump, External, Resolve,
        Ready, CloseView, TimerFires, RefreshRead, RefreshPosted, RefreshDone, RefreshFails,
        Click, Written, WriteFails, AskDiscard, DiscardCancelled, DiscardConfirmed, DiscardRead,
        CheckPasses, CheckRefuses, CheckFails, Discarded, DiscardFails, Save, SaveRead,
        SaveDecides, SaveBlind, SaveStaged, SaveFails
  <2>3. ~(External \/ Written \/ SaveStaged \/ Discarded)
    <3>1. ASSUME NEW new, RepoChanges(new) PROVE changes' # changes
      BY <1>0, <3>1 DEF RepoChanges, RepoOK
    <3>. QED BY <2>1, <3>1 DEF External, Written, SaveStaged, Discarded
  <2>4. since' \in {since, Nowhere, status}
    BY <2>3
    DEF Next, Refreshing, vars, repo, history, RepoRests, Bump, Resolve, Ready, CloseView,
        TimerFires, RefreshRead, RefreshPosted, RefreshDone, RefreshFails, Click, WriteFails,
        AskDiscard, DiscardCancelled, DiscardConfirmed, DiscardRead, CheckPasses, CheckRefuses,
        CheckFails, DiscardFails, NoDiscard, Save, SaveRead, SaveDecides, SaveBlind, SaveFails
  <2>5. since' \in [Files -> Rows]
    BY <1>0, <2>4, NowhereIsStatus DEF RepoOK
  <2>6. disputed' = disputed \/ NoSave \/ Save
    BY <2>3
    DEF Next, Refreshing, vars, repo, history, RepoRests, Bump, Resolve, Ready,
        CloseView, TimerFires, RefreshRead, RefreshPosted, RefreshDone, RefreshFails, Click,
        WriteFails, AskDiscard, DiscardCancelled, DiscardConfirmed, DiscardRead, CheckPasses,
        CheckRefuses, CheckFails, DiscardFails, SaveRead, SaveDecides, SaveBlind, SaveFails
  <2>7. disputed' \in BOOLEAN
    <3>1. CASE disputed' = disputed
      BY <1>0, <3>1 DEF RepoOK
    <3>2. CASE NoSave
      BY <3>2 DEF NoSave
    <3>3. CASE Save
      BY <3>3 DEF Save
    <3>. QED BY <2>6, <3>1, <3>2, <3>3
  <2>. QED BY <1>0, <2>1, <2>2, <2>5, <2>7 DEF RepoOK
<1>. QED BY <1>1, <1>2

(* The list shows a status that a refresh or a check has read.              *)
LEMMA ListOKNext == TypeOK /\ [Next]_vars => ListOK'
<1>. SUFFICES ASSUME TypeOK, [Next]_vars PROVE ListOK'
  OBVIOUS
<1>0. ListOK /\ answer \in Statuses /\ checked \in Statuses
  BY DEF TypeOK, ListOK
<1>1. CASE Resolve \/ Ready \/ CloseView
  BY <1>0, <1>1 DEF ListOK, Resolve, Ready, CloseView
<1>2. CASE RefreshPosted \/ CheckPasses \/ CheckRefuses
  BY <1>0, <1>2 DEF ListOK, RefreshPosted, CheckPasses, CheckRefuses
<1>3. \/ UNCHANGED list
      \/ Resolve \/ Ready \/ CloseView \/ RefreshPosted \/ CheckPasses \/ CheckRefuses
  BY DEF Next, Refreshing, vars, Bump, External, TimerFires, RefreshRead, RefreshDone,
         RefreshFails, Click, Written, WriteFails, AskDiscard, DiscardCancelled,
         DiscardConfirmed, DiscardRead, CheckFails, Discarded, DiscardFails, Save, SaveRead,
         SaveDecides, SaveBlind, SaveStaged, SaveFails
<1>4. CASE UNCHANGED list
  BY <1>0, <1>4 DEF ListOK, list
<1>. QED BY <1>1, <1>2, <1>3, <1>4

(* A refresh is queued only behind another one, which dequeues it when it   *)
(* ends.                                                                    *)
LEMMA RefresherOKNext == TypeOK /\ [Next]_vars => RefresherOK'
<1>. SUFFICES ASSUME TypeOK, [Next]_vars PROVE RefresherOK'
  OBVIOUS
<1>0. RefresherOK /\ status \in Statuses /\ Nowhere \in Statuses
  BY NowhereIsStatus DEF TypeOK, RefresherOK
<1>. USE DEF RefresherOK
<1>1. ASSUME DoRefresh, UNCHANGED <<answer, failed, moved>>, timer' \in BOOLEAN PROVE RefresherOK'
  BY <1>0, <1>1 DEF DoRefresh
<1>2. CASE Ready \/ TimerFires \/ Written \/ Discarded
  BY <1>0, <1>1, <1>2 DEF Ready, TimerFires, Written, Discarded
<1>3. CASE Bump
  BY <1>0, <1>3 DEF Bump
<1>4. CASE RefreshRead \/ RefreshPosted
  BY <1>0, <1>4 DEF RefreshRead, RefreshPosted
<1>5. CASE RefreshDone \/ RefreshFails
  BY <1>0, <1>5 DEF RefreshDone, RefreshFails, EndsRefresh
<1>6. \/ UNCHANGED <<timer, refresh, answer, refreshQueued, failed, moved>>
      \/ Ready \/ TimerFires \/ Written \/ Discarded
      \/ Bump \/ RefreshRead \/ RefreshPosted \/ RefreshDone \/ RefreshFails
  BY DEF Next, Refreshing, vars, refresher, External, Resolve, CloseView, Click, WriteFails,
         AskDiscard, DiscardCancelled, DiscardConfirmed, DiscardRead, CheckPasses, CheckRefuses,
         CheckFails, DiscardFails, Save, SaveRead, SaveDecides, SaveBlind, SaveStaged, SaveFails
<1>7. CASE UNCHANGED <<timer, refresh, answer, refreshQueued, failed, moved>>
  BY <1>0, <1>7
<1>. QED BY <1>2, <1>3, <1>4, <1>5, <1>6, <1>7

(* One write is under way, and it is of a kind that the view knows.         *)
LEMMA WriterOKNext == TypeOK /\ [Next]_vars => WriterOK'
<1>. SUFFICES ASSUME TypeOK, [Next]_vars PROVE WriterOK'
  OBVIOUS
<1>0. WriterOK
  BY TypeParts
<1>1. CASE Click
  BY <1>0, <1>1 DEF WriterOK, Click
<1>2. CASE Written \/ WriteFails
  BY <1>0, <1>2 DEF WriterOK, Written, WriteFails
<1>3. CASE RefreshDone \/ RefreshFails
  BY <1>0, <1>3 DEF WriterOK, RefreshDone, RefreshFails, EndsRefresh, Settled
<1>4. \/ UNCHANGED <<sent, committing>>
      \/ Click \/ Written \/ WriteFails \/ RefreshDone \/ RefreshFails
  BY DEF Next, Refreshing, vars, Bump, External, Resolve, Ready, CloseView, TimerFires,
         RefreshRead, RefreshPosted, AskDiscard, DiscardCancelled, DiscardConfirmed,
         DiscardRead, CheckPasses, CheckRefuses, CheckFails, Discarded, DiscardFails, Save,
         SaveRead, SaveDecides, SaveBlind, SaveStaged, SaveFails
<1>5. CASE UNCHANGED <<sent, committing>>
  BY <1>0, <1>5 DEF WriterOK
<1>. QED BY <1>1, <1>2, <1>3, <1>4, <1>5

(* The paths of a discard come from the list, and there is one at least.    *)
LEMMA DiscarderOKNext == TypeOK /\ [Next]_vars => DiscarderOK'
<1>. SUFFICES ASSUME TypeOK, [Next]_vars PROVE DiscarderOK'
  OBVIOUS
<1>0. DiscarderOK /\ status \in Statuses /\ Nowhere \in Statuses
  BY TypeParts, NowhereIsStatus DEF RepoOK
<1>. USE DEF DiscarderOK
<1>1. CASE AskDiscard
  BY <1>0, <1>1 DEF AskDiscard, Discardable
<1>2. CASE NoDiscard
  BY <1>0, <1>2 DEF NoDiscard
<1>3. CASE DiscardConfirmed \/ DiscardRead \/ CheckPasses
  BY <1>0, <1>3 DEF DiscardConfirmed, DiscardRead, CheckPasses
<1>4. \/ UNCHANGED <<discard, paths, checked>>
      \/ AskDiscard \/ NoDiscard \/ DiscardConfirmed \/ DiscardRead \/ CheckPasses
  BY DEF Next, Refreshing, vars, discarder, Bump, External, Resolve, Ready, CloseView, TimerFires,
         RefreshRead, RefreshPosted, RefreshDone, RefreshFails, Click, Written, WriteFails,
         DiscardCancelled, CheckRefuses, CheckFails, Discarded, DiscardFails, Save,
         SaveRead, SaveDecides, SaveBlind, SaveStaged, SaveFails
<1>5. CASE UNCHANGED <<discard, paths, checked>>
  BY <1>0, <1>5
<1>. QED BY <1>1, <1>2, <1>3, <1>4, <1>5

(* A save goes from stage to stage.                                         *)
LEMMA SaverOKNext == TypeOK /\ [Next]_vars => SaverOK'
<1>. SUFFICES ASSUME TypeOK, [Next]_vars PROVE SaverOK'
  OBVIOUS
<1>0. SaverOK
  BY TypeParts
<1>1. CASE Saves /\ ~SaveRead
  <2>1. UNCHANGED found \/ found' = FALSE
    BY <1>1 DEF Saves, Save, SaveDecides, SaveBlind, SaveStaged, SaveFails, NoSave
  <2>2. save' \in {"idle", "asked", "read", "sent", "blind"}
    BY <1>1 DEF Saves, Save, SaveDecides, SaveBlind, SaveStaged, SaveFails, NoSave
  <2>3. found' \in BOOLEAN
    BY <1>0, <2>1 DEF SaverOK
  <2>. QED BY <2>2, <2>3 DEF SaverOK
<1>3. CASE SaveRead
  <2>1. found' \in BOOLEAN
    BY <1>3 DEF SaveRead
  <2>. QED BY <1>3, <2>1 DEF SaverOK, SaveRead
<1>2. CASE ~Saves
  <2>1. UNCHANGED <<save, found>>
    BY <1>2
    DEF Next, Refreshing, Saves, vars, saver, Bump, External, Resolve, Ready, CloseView,
        TimerFires, RefreshRead, RefreshPosted, RefreshDone, RefreshFails, Click, Written,
        WriteFails, AskDiscard, DiscardCancelled, DiscardConfirmed, DiscardRead, CheckPasses,
        CheckRefuses, CheckFails, Discarded, DiscardFails
  <2>. QED BY <1>0, <2>1 DEF SaverOK
<1>. QED BY <1>1, <1>2, <1>3

-----------------------------------------------------------------------------
(* Whatever the repository is like at first, the view is not open.          *)
LEMMA InitIInv == Init => IInv
<1>. SUFFICES ASSUME Init PROVE IInv
  OBVIOUS
<1>1. ListOK
  BY NowhereIsStatus DEF Init, ListOK
<1>4. RepoOK
  <2>1. 0 \in 0..MaxChanges
    BY BoundAssumption
  <2>. QED BY <2>1, NowhereIsStatus DEF Init, RepoOK
<1>2. RefresherOK /\ WriterOK /\ DiscarderOK /\ SaverOK
  BY NowhereIsStatus DEF Init, RefresherOK, WriterOK, DiscarderOK, SaverOK
<1>3. DiscardKnows /\ SaveKnows
  BY DEF Init, DiscardKnows, SaveKnows
<1>. QED BY <1>1, <1>2, <1>3, <1>4, TypeParts DEF IInv

(* The strengthening holds initially and is kept by every step.             *)
LEMMA Inductive == Spec => []IInv
<1>1. IInv /\ [Next]_vars => IInv'
  BY TypeParts, RepoOKNext, ListOKNext, RefresherOKNext, WriterOKNext, DiscarderOKNext,
     SaverOKNext, DiscardKnowsNext, SaveKnowsNext DEF IInv
<1>. QED BY InitIInv, <1>1, PTL DEF Spec

(* The variables have their types; only a refresh under way has another one *)
(* queued behind it, and a discard beyond its modal has paths.              *)
THEOREM TypeCorrect == Spec => []TypeOK
<1>1. IInv => TypeOK
  BY DEF IInv
<1>. QED BY Inductive, <1>1, PTL

(* However long the modal stands open and whatever the list shows by then,  *)
(* nothing is discarded that was not listed as discardable after the user   *)
(* had confirmed.                                                           *)
THEOREM DiscardsAreChecked == Spec => DiscardsAreRechecked
<1>1. IInv /\ [Next]_vars =>
         [Discarded => \A f \in paths : since[f] \ {"staged"} # {}]_vars
  <2>. SUFFICES ASSUME IInv, Discarded PROVE \A f \in paths : since[f] \ {"staged"} # {}
    OBVIOUS
  <2>. QED BY DEF IInv, DiscardKnows, Discarded
<1>. QED BY Inductive, <1>1, PTL DEF Spec, DiscardsAreRechecked

(* The merge editor stages what it saves only if the file was in conflict   *)
(* at some time since the save, unless the engine could not tell.           *)
THEOREM ResolutionsAreKept == Spec => SavesKeepResolutions
<1>1. IInv /\ [Next]_vars => [SaveStaged /\ save # "blind" => disputed]_vars
  <2>. SUFFICES ASSUME IInv, SaveStaged, save # "blind" PROVE disputed
    OBVIOUS
  <2>. QED BY DEF IInv, SaveKnows, SaveStaged
<1>. QED BY Inductive, <1>1, PTL DEF Spec, SavesKeepResolutions

=============================================================================
