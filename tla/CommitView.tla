------------------------------ MODULE CommitView ------------------------------
(****************************************************************************)
(* The commit view, editors/vscode/src/commitView.ts and mergeEditor.ts:    *)
(* the list of changed files follows the repository through notifications,  *)
(* a debounce timer and status requests of which one is under way at a      *)
(* time; a discard asks the user and then the engine again; a save of the   *)
(* merge editor stages a file if it is still in conflict.  Meanwhile other  *)
(* programs change the repository.                                          *)
(****************************************************************************)
EXTENDS Naturals, FiniteSets

CONSTANTS
    Files,
    Merged,      \* the file that is open in the merge editor
    Listings,    \* how a file may be listed: sets of buckets
    Blank,       \* the list of a webview that was sent no status
    MaxChanges   \* bound: changes of the repository

ASSUME MergedAssumption == Merged \in Files
ASSUME ListingAssumption ==
    /\ {} \in Listings
    /\ \A l \in Listings : {l \ {"staged"}, l \cap {"staged"}} \subseteq Listings
    /\ Listings \subseteq SUBSET {"conflicts", "staged", "changes", "untracked"}
ASSUME BoundAssumption == MaxChanges \in Nat

Statuses == [Files -> Listings]
Kinds == {"stage", "unstage", "resolve", "commit"}

VARIABLES
    \* the repository and the engine
    status,      \* the listing of every file
    changes,
    unseen,      \* a change for which the epoch was not bumped yet
    \* commitView.ts
    view,        \* the webview: none, being loaded, or loaded
    shown,       \* what it lists
    lastItems,
    timer,       \* a notification is on its way, or the debounce timer runs
    refresh, answer, refreshQueued,   \* doRefresh
    sent,        \* the clicked write under way, with its file, and ...
    committing,
    discard, paths, checked,          \* discardPaths
    \* mergeEditor.ts
    save, found,                      \* onSaved
    \* history
    failed,      \* the last refresh ended with an error message
    moved,       \* the epoch moved while the refresh read
    since,       \* how the files were listed since the discard was confirmed
    disputed     \* the merged file was in conflict at some time since the save

repo    == <<status, changes, unseen>>
list    == <<view, shown, lastItems>>
refresher == <<timer, refresh, answer, refreshQueued, failed>>
discarder == <<discard, paths, checked>>
saver   == <<save, found>>
history == <<since, disputed>>
vars == <<repo, list, refresher, sent, committing, discarder, saver, moved, history>>

(* The variables have their types; only a refresh under way has another one *)
(* queued behind it, and a discard beyond its modal has paths.              *)
TypeOK ==
    /\ status \in Statuses /\ changes \in 0..MaxChanges
    /\ unseen \in BOOLEAN
    /\ view \in {"none", "loading", "loaded"}
    /\ shown \in Statuses \cup {Blank} /\ lastItems \in Statuses
    /\ timer \in BOOLEAN /\ refreshQueued \in BOOLEAN /\ failed \in BOOLEAN
    /\ refresh \in {"idle", "asked", "read", "posted"} /\ answer \in Statuses
    /\ sent \in (Kinds \X Files) \cup {<<>>} /\ committing \in {"no", "sent", "settling"}
    /\ discard \in {"idle", "modal", "asked", "read", "sent"}
    /\ paths \in SUBSET Files /\ checked \in Statuses
    /\ save \in {"idle", "asked", "read", "sent", "blind"} /\ found \in BOOLEAN
    /\ moved \in BOOLEAN
    /\ since \in [Files -> SUBSET {"conflicts", "staged", "changes", "untracked"}]
    /\ disputed \in BOOLEAN
    /\ refreshQueued => refresh # "idle"
    /\ discard # "idle" => paths # {}

Nowhere == [f \in Files |-> {}]

Init ==
    /\ status \in Statuses /\ changes = 0 /\ unseen = FALSE
    /\ view = "none" /\ shown = Blank /\ lastItems = Nowhere
    /\ timer = FALSE /\ refresh = "idle" /\ answer = Nowhere /\ refreshQueued = FALSE
    /\ failed = FALSE /\ sent = <<>> /\ committing = "no"
    /\ discard = "idle" /\ paths = {} /\ checked = Nowhere
    /\ save = "idle" /\ found = FALSE
    /\ moved = FALSE /\ since = Nowhere /\ disputed = FALSE

-----------------------------------------------------------------------------
(* The repository.                                                          *)

(* The files are listed anew; the history remembers how.                    *)
Lists(new) ==
    /\ status' = new
    /\ since' = IF discard' \in {"idle", "modal"} THEN Nowhere
                ELSE [f \in Files |-> since[f] \cup new[f]]
    /\ disputed' = (save' # "idle" /\ (disputed \/ "conflicts" \in new[Merged]))

RepoChanges(new) ==
    /\ changes < MaxChanges /\ changes' = changes + 1
    /\ Lists(new) /\ unseen' = TRUE

RepoRests == UNCHANGED <<repo, history>>

(* Another program, an editor, a merge.                                     *)
External ==
    /\ UNCHANGED <<discarder, saver>>
    /\ \E f \in Files : \E l \in Listings \ {status[f]} :
          RepoChanges([status EXCEPT ![f] = l])
    /\ UNCHANGED <<list, refresher, sent, committing, moved>>

(* The watcher or the write queue bumps the epoch and tells the client,     *)
(* where the notification starts the timer or starts it again.              *)
Bump ==
    /\ unseen /\ unseen' = FALSE /\ timer' = TRUE
    /\ moved' = (refresh = "read")
    /\ UNCHANGED <<status, changes, list, refresh, answer, refreshQueued, failed, sent, committing,
                   discarder, saver, history>>

-----------------------------------------------------------------------------
(* Refreshing the list.                                                     *)

(* Mutant: a refresh under way is thought good enough.                      *)
DoRefreshOnce ==
    /\ refresh' = IF refresh = "idle" THEN "asked" ELSE refresh
    /\ UNCHANGED refreshQueued

DoRefresh ==
    IF refresh = "idle" THEN refresh' = "asked" /\ UNCHANGED refreshQueued
    ELSE refreshQueued' = TRUE /\ UNCHANGED refresh

Resolve ==
    /\ view = "none" /\ view' = "loading"
    /\ UNCHANGED <<repo, shown, lastItems, refresher, sent, committing, discarder, saver, moved, history>>

(* The webview's "ready".                                                   *)
Ready ==
    /\ view = "loading" /\ view' = "loaded"
    /\ DoRefresh
    /\ RepoRests
    /\ UNCHANGED <<shown, lastItems, timer, answer, failed, sent, committing, discarder, saver, moved>>

CloseView ==
    /\ view # "none" /\ view' = "none" /\ shown' = Blank
    /\ UNCHANGED <<repo, lastItems, refresher, sent, committing, discarder, saver, moved, history>>

TimerFires ==
    /\ timer /\ timer' = FALSE
    /\ DoRefresh
    /\ RepoRests
    /\ UNCHANGED <<list, answer, failed, sent, committing, discarder, saver, moved>>

RefreshRead ==
    /\ refresh = "asked" /\ refresh' = "read" /\ answer' = status
    /\ RepoRests
    /\ UNCHANGED <<list, timer, refreshQueued, failed, sent, committing, discarder, saver, moved>>

(* The status is kept and posted; an unloaded webview drops it.             *)
RefreshPosted ==
    /\ refresh = "read" /\ refresh' = "posted"
    /\ lastItems' = answer /\ failed' = FALSE /\ answer' = Nowhere
    /\ shown' = IF view = "loaded" THEN answer ELSE shown
    /\ moved' = FALSE /\ RepoRests
    /\ UNCHANGED <<view, timer, refreshQueued, sent, committing, discarder, saver>>

(* A commit is under way until the refresh after it has ended.              *)
Settled == IF committing = "settling" THEN "no" ELSE committing

(* Mutant: an error does not reach the finally.                             *)
EndsRefreshUnless(error) ==
    IF error THEN UNCHANGED <<refresh, refreshQueued, timer, committing>>
    ELSE /\ refresh' = "idle" /\ refreshQueued' = FALSE
         /\ timer' = (timer \/ refreshQueued)
         /\ committing' = Settled

(* Mutant: the queued refresh is started and stays queued.                  *)
EndsRefreshQueued(error) ==
    /\ refresh' = "idle" /\ UNCHANGED refreshQueued
    /\ timer' = (timer \/ refreshQueued)
    /\ committing' = Settled

(* The finally, after an error too: a queued refresh starts the timer.      *)
EndsRefresh(error) ==
    /\ refresh' = "idle" /\ refreshQueued' = FALSE
    /\ timer' = (timer \/ refreshQueued)
    /\ committing' = Settled

RefreshDone ==
    /\ refresh = "posted"
    /\ EndsRefresh(FALSE)
    /\ RepoRests
    /\ UNCHANGED <<list, answer, failed, sent, discarder, saver, moved>>

(* read_status fails when the epoch moved while it read, or for any other   *)
(* reason; the list stays as it is.                                         *)
RefreshFails ==
    /\ refresh = "read"
    /\ EndsRefresh(TRUE)
    /\ failed' = ~moved /\ answer' = Nowhere
    /\ moved' = FALSE /\ RepoRests
    /\ UNCHANGED <<list, sent, discarder, saver>>

-----------------------------------------------------------------------------
(* Stage, unstage, resolve and commit.                                      *)

Listed(items, f) == items # Blank /\ items[f] # {}

(* The rows that have the buttons; the webview's commit button is off while *)
(* it lists a conflict, and a commit while another one is under way is      *)
(* dropped.                                                                 *)
CanClick(kind, f) ==
    /\ view = "loaded" /\ Listed(shown, f)
    /\ \/ kind = "stage" /\ shown[f] \cap {"changes", "untracked"} # {}
       \/ kind = "unstage" /\ "staged" \in shown[f]
       \/ kind = "resolve" /\ "conflicts" \in shown[f] /\ "conflicts" \in lastItems[f]
       \/ kind = "commit" /\ committing = "no" /\ \A g \in Files : "conflicts" \notin shown[g]

(* Bound: the user begins one thing at a time; what else could happen       *)
(* meanwhile, External does.                                                *)
UserIsFree == sent = <<>> /\ discard = "idle" /\ save = "idle"

Click ==
    /\ UserIsFree
    /\ \E kind \in Kinds, f \in Files :
          /\ CanClick(kind, f) /\ sent' = <<kind, f>>
          /\ committing' = IF kind = "commit" THEN "sent" ELSE committing
    /\ UNCHANGED <<repo, list, refresher, discarder, saver, moved, history>>

Unstaged == [f \in Files |-> status[f] \ {"staged"}]

(* What the engine makes of it; it refuses what does not fit any more.      *)
Outcomes(kind, f) ==
    CASE kind = "stage" ->
           IF status[f] = {} THEN {} ELSE {[status EXCEPT ![f] = l] : l \in {{}, {"staged"}} \cap Listings}
      [] kind = "unstage" ->
           IF "staged" \notin status[f] THEN {}
           ELSE {[status EXCEPT ![f] = l] : l \in {{}, {"changes"}, {"untracked"}} \cap Listings}
      [] kind = "resolve" ->
           IF "conflicts" \notin status[f] THEN {}
           ELSE {[status EXCEPT ![f] = l] : l \in {{}, {"staged"}} \cap Listings}
      [] kind = "commit" ->
           IF \E g \in Files : "conflicts" \in status[g] THEN {} ELSE {Unstaged} \ {status}

Written ==
    /\ sent # <<>> /\ sent' = <<>>
    /\ UNCHANGED <<discarder, saver>>
    /\ \E new \in Outcomes(sent[1], sent[2]) : RepoChanges(new)
    /\ DoRefresh
    /\ committing' = CASE sent[1] # "commit" -> committing
                         [] sent[1] = "commit" /\ refresh = "idle" -> "settling"
                         [] OTHER -> "no"
    /\ UNCHANGED <<list, timer, answer, failed, moved>>

WriteFails ==
    /\ sent # <<>> /\ sent' = <<>>
    /\ committing' = IF sent[1] = "commit" THEN "no" ELSE committing
    /\ UNCHANGED <<repo, list, refresher, discarder, saver, moved, history>>

-----------------------------------------------------------------------------
(* Discarding.                                                              *)

(* One row of the context menu, or the whole bucket.  Of a file with two    *)
(* rows the first one that the status lists counts for the context menu.    *)
Discardable ==
    {{f \in Files : b \in lastItems[f]} : b \in {"changes", "untracked"}}
    \cup {{f} : f \in {g \in Files : lastItems[g] \ {"staged"} # {}}}

(* The flow is over, and what it knew is gone.                              *)
NoDiscard ==
    discard' = "idle" /\ paths' = {} /\ checked' = Nowhere /\ since' = Nowhere

AskDiscard ==
    /\ UserIsFree /\ discard' = "modal"
    /\ paths' \in Discardable \ {{}}
    /\ UNCHANGED <<repo, list, refresher, sent, committing, checked, saver, moved, history>>

DiscardCancelled ==
    /\ discard = "modal" /\ NoDiscard
    /\ UNCHANGED <<repo, list, refresher, sent, committing, saver, moved, disputed>>

(* Mutant: the list at hand is good enough.                                 *)
DiscardConfirmedAtOnce ==
    /\ discard = "modal" /\ discard' = "read" /\ checked' = lastItems
    /\ since' = status
    /\ UNCHANGED <<repo, list, refresher, sent, committing, paths, saver, moved, disputed>>

DiscardConfirmed ==
    /\ discard = "modal" /\ discard' = "asked"
    /\ since' = status
    /\ UNCHANGED <<repo, list, refresher, sent, committing, paths, checked, saver, moved, disputed>>

(* verifyStillDiscardable.                                                  *)
DiscardRead ==
    /\ discard = "asked" /\ discard' = "read" /\ checked' = status
    /\ RepoRests
    /\ UNCHANGED <<list, refresher, sent, committing, paths, saver, moved>>

(* It looks at the first row of every path, in whatever order the engine's  *)
(* two threads listed them.                                                 *)
CheckPasses ==
    /\ discard = "read" /\ discard' = "sent"
    /\ \A f \in paths : checked[f] \ {"staged"} # {}
    /\ lastItems' = checked
    /\ RepoRests
    /\ UNCHANGED <<view, shown, refresher, sent, committing, paths, checked, saver, moved>>

CheckRefuses ==
    /\ discard = "read" /\ NoDiscard
    /\ \E f \in paths : checked[f] = {} \/ "staged" \in checked[f]
    /\ lastItems' = checked
    /\ UNCHANGED <<repo, view, shown, refresher, sent, committing, saver, moved, disputed>>

CheckFails ==
    /\ discard = "read" /\ NoDiscard
    /\ UNCHANGED <<repo, list, refresher, sent, committing, saver, moved, disputed>>

(* The engine classifies the paths once more.                               *)
EngineAgrees == \A f \in paths : status[f] # {} /\ "conflicts" \notin status[f]

Discarded ==
    /\ discard = "sent" /\ NoDiscard
    /\ EngineAgrees
    /\ UNCHANGED saver
    /\ RepoChanges([f \in Files |-> IF f \in paths THEN status[f] \cap {"staged"} ELSE status[f]])
    /\ DoRefresh
    /\ UNCHANGED <<list, timer, answer, failed, sent, committing, moved>>

DiscardFails ==
    /\ discard = "sent" /\ NoDiscard
    /\ UNCHANGED <<repo, list, refresher, sent, committing, saver, moved, disputed>>

-----------------------------------------------------------------------------
(* Saving in the merge editor.                                              *)

(* The output of an open merge editor is saved without conflict markers.    *)
Save ==
    /\ UserIsFree /\ save' = "asked"
    /\ disputed' = ("conflicts" \in status[Merged])
    /\ UNCHANGED <<repo, list, refresher, sent, committing, discarder, found, moved, since>>

SaveRead ==
    /\ save = "asked" /\ save' = "read"
    /\ found' = ("conflicts" \in status[Merged])
    /\ RepoRests
    /\ UNCHANGED <<list, refresher, sent, committing, discarder, moved>>

NoSave == save' = "idle" /\ found' = FALSE /\ disputed' = FALSE

(* Mutant: whatever the status says, the save is staged.                    *)
SaveDecidesAlways ==
    /\ save = "read" /\ save' = "sent" /\ UNCHANGED <<found, disputed>>
    /\ UNCHANGED <<repo, list, refresher, sent, committing, discarder, moved, since>>

SaveDecides ==
    /\ save = "read"
    /\ IF found THEN save' = "sent" /\ UNCHANGED <<found, disputed>> ELSE NoSave
    /\ UNCHANGED <<repo, list, refresher, sent, committing, discarder, moved, since>>

(* The status request failed: the stage has to arbitrate.                   *)
SaveBlind ==
    /\ save = "read" /\ save' = "blind"
    /\ RepoRests
    /\ UNCHANGED <<list, refresher, sent, committing, discarder, found, moved>>

SaveStaged ==
    /\ save \in {"sent", "blind"} /\ NoSave
    /\ UNCHANGED discarder
    /\ \E new \in Outcomes("stage", Merged) : RepoChanges(new)
    /\ UNCHANGED <<list, refresher, sent, committing, moved>>

SaveFails ==
    /\ save \in {"sent", "blind"} /\ NoSave
    /\ UNCHANGED <<repo, list, refresher, sent, committing, discarder, moved, since>>

-----------------------------------------------------------------------------
Refreshing ==
    \/ Bump \/ TimerFires
    \/ RefreshRead \/ RefreshPosted \/ RefreshDone \/ RefreshFails

Next ==
    \/ External
    \/ Resolve \/ Ready \/ CloseView
    \/ Refreshing
    \/ Click \/ Written \/ WriteFails
    \/ AskDiscard \/ DiscardCancelled \/ DiscardConfirmed \/ DiscardRead
    \/ CheckPasses \/ CheckRefuses \/ CheckFails \/ Discarded \/ DiscardFails
    \/ Save \/ SaveRead \/ SaveDecides \/ SaveBlind \/ SaveStaged \/ SaveFails

Spec == Init /\ [][Next]_vars

(* Timers fire and messages arrive; the engine answers.                     *)
FairSpec ==
    /\ Spec
    /\ WF_vars(Bump) /\ WF_vars(TimerFires)
    /\ WF_vars(RefreshRead) /\ WF_vars(RefreshPosted \/ RefreshDone \/ RefreshFails)

-----------------------------------------------------------------------------
(* Properties.                                                              *)

(* The list does not stay old: as long as the view is open and the engine   *)
(* gives no error of its own, what the repository has is listed in the end. *)
(* An answer that was overtaken by a change, a refresh that found another   *)
(* one under way and a status refused for the epoch are all made up for.    *)
EventuallyShown ==
    view = "loaded" ~> (view # "loaded" \/ failed \/ shown = status)

(* Nothing is discarded that was not listed as discardable after the user   *)
(* had confirmed, however long the dialog stood open.                       *)
DiscardsAreRechecked ==
    [][Discarded => \A f \in paths : since[f] \ {"staged"} # {}]_vars

(* A save in the merge editor does not stage a file that was resolved       *)
(* before the save, unless the status that should tell could not be read.   *)
SavesKeepResolutions == [][SaveStaged /\ save # "blind" => disputed]_vars

=============================================================================
