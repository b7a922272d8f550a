------------------------------ MODULE GraphEpoch ------------------------------
(****************************************************************************)
(* How the commit graph on the screen follows the repository.  The engine   *)
(* counts an epoch (session.rs): the write queue bumps it after a command,  *)
(* the file system watcher when it sees .git change.  read_graph_page       *)
(* (gix_read.rs) refuses a request of another epoch, before and after its   *)
(* walk.  The extension (graphSession.ts) follows the notifications, probes *)
(* for the epoch, has the webview (graph.js) ask again, and retries a       *)
(* refused request once.                                                    *)
(****************************************************************************)
EXTENDS Naturals, Sequences, SequencesExt, FiniteSetsExt

CONSTANTS
    Linked,      \* the repository is a linked worktree
    Commits,     \* commits it has at first
    Offsets,     \* rows the user can scroll to
    Limit,       \* rows of a viewport
    MaxChanges,  \* bound: changes of the repository
    MaxScrolls,  \* bound: scrolls and resizes
    MaxReads,    \* bound: getGraph requests in flight
    None

ASSUME LinkedAssumption == Linked \in BOOLEAN
ASSUME SizesAssumption ==
    /\ {Commits, Limit, MaxReads} \subseteq Nat \ {0} /\ {MaxChanges, MaxScrolls} \subseteq Nat
    /\ Offsets \subseteq Nat /\ 0 \in Offsets /\ \A o \in Offsets : 0..o \subseteq Offsets
    /\ None \notin Nat

VARIABLES
    \* the repository
    history,  \* its logs, each newest commit first; the last is the current
    changes,  \* number of changes made, those of the index included
    fs,       \* what changed in .git and the watcher has not looked at
    \* the engine
    epoch,
    bumped,   \* history: the log the epoch began with
    writer,   \* the queue's consumer: the write it ran and has to bump for
    toEmit,   \* the epoch of the notification it has to send, or 0
    events,   \* notifications under way
    reads,    \* getGraph requests under way
    \* the extension
    known,    \* RepoState.epoch
    invalid,  \* invalidateTimer: the epoch it was armed with, or 0
    timer,    \* debounceTimer: the viewport it was armed with, or None
    failed,   \* the last request ended in an error message
    \* the webview
    view,     \* its first visible row
    anchor,   \* anchorCommit
    rows,     \* the commit shown in a row
    moved,    \* viewportTimer, armed by the browser: the list became shorter
    scrolls,  \* number of scrolls
    shown     \* history: the log of the last page applied, or 0

repo   == <<history, changes, fs>>
engine == <<epoch, bumped, writer, toEmit>>
host   == <<known, invalid, timer, failed>>
web    == <<view, anchor, rows, moved, scrolls, shown>>
vars   == <<repo, engine, events, reads, host, web>>

Version == Len(history)
Log == Last(history)
Ids == 1..(Commits + MaxChanges)
Viewports == [offset : Offsets, anchor : Ids \cup {None}]
ASSUME NoneAssumption == None \notin Viewports
Requests == [probe : BOOLEAN, notified : Nat, viewport : Viewports, asked : Nat,
             retried : BOOLEAN, newest : BOOLEAN,
             stage : {"sent", "read", "served", "mismatch"}, epoch : Nat, version : Nat]
Rows == UNION {o..(o + Limit - 1) : o \in Offsets}

(* The extension never knows an epoch the engine has not reached, and one  *)
(* page request at most is the newest.                                      *)
TypeOK ==
    /\ history \in Seq(Seq(Ids)) /\ changes \in 0..MaxChanges
    /\ fs \subseteq {"refs", "index"}
    /\ epoch \in Nat \ {0} /\ bumped \in 1..Version
    /\ writer \in {"idle", "commit", "stage", "reset"} /\ toEmit \in 0..epoch
    /\ \A i \in DOMAIN events : events[i] \in [kind : {"index", "graph"}, epoch : 1..epoch]
    /\ reads \subseteq Requests /\ Cardinality(reads) <= MaxReads
    /\ \A r \in reads : r.epoch <= epoch /\ r.asked <= epoch /\ r.version <= Version
    /\ Cardinality({r \in reads : ~r.probe /\ r.newest}) <= 1
    /\ known \in 1..epoch /\ invalid \in 0..epoch
    /\ timer \in Viewports \cup {None} /\ failed \in BOOLEAN
    /\ view \in Offsets /\ anchor \in Ids \cup {None}
    /\ rows \in [Rows -> Ids \cup {None}] /\ moved \in BOOLEAN /\ scrolls \in 0..MaxScrolls
    /\ shown \in 0..Version

(* The webview has loaded and asks for its first viewport.                  *)
Init ==
    /\ history = <<[i \in 1..Commits |-> Commits + 1 - i]>> /\ changes = 0 /\ fs = {}
    /\ epoch = 1 /\ bumped = 1 /\ writer = "idle" /\ toEmit = 0 /\ events = <<>>
    /\ reads = {}
    /\ known = 1 /\ invalid = 0 /\ failed = FALSE
    /\ timer = [offset |-> 0, anchor |-> None]
    /\ view = 0 /\ anchor = None /\ rows = [r \in Rows |-> None]
    /\ moved = FALSE /\ scrolls = 0 /\ shown = 0

-----------------------------------------------------------------------------
(* The repository changes.                                                  *)

(* What the watcher is told of: a linked worktree's git directory holds its *)
(* index and HEAD, its branches are in the main repository's.               *)
Touches(kind) ==
    IF kind = "stage" \/ Linked THEN {"index"} ELSE {"refs", "index"}

Change(kind) ==
    /\ changes < MaxChanges
    /\ changes' = changes + 1
    /\ fs' = fs \cup Touches(kind)
    /\ CASE kind = "stage"  -> history' = history
         [] kind = "commit" -> history' = Append(history, <<Commits + Version>> \o Log)
         [] kind = "reset"   -> Len(Log) > 1 /\ history' = Append(history, Tail(Log))

(* The write queue runs a command, "reset" standing for an undo ...         *)
Write(kind) ==
    /\ writer = "idle" /\ toEmit = 0
    /\ Change(kind)
    /\ writer' = kind
    /\ UNCHANGED <<epoch, bumped, toEmit, events, reads, host, web>>

(* ... or another git process does.                                         *)
External(kind) ==
    /\ Change(kind)
    /\ UNCHANGED <<engine, events, reads, host, web>>

-----------------------------------------------------------------------------
(* The epoch.                                                               *)

BumpEpoch == epoch' = epoch + 1 /\ bumped' = Version

(* After a success the queue bumps the epoch, and says so after an undo.    *)
QueueBumps ==
    /\ writer # "idle"
    /\ BumpEpoch
    /\ toEmit' = IF writer = "reset" THEN epoch' ELSE 0
    /\ writer' = "idle"
    /\ UNCHANGED <<repo, events, reads, host, web>>

QueueEmits ==
    /\ toEmit # 0
    /\ events' = Append(events, [kind |-> "graph", epoch |-> toEmit])
    /\ toEmit' = 0
    /\ UNCHANGED <<repo, epoch, bumped, writer, reads, host, web>>

Notices(kind, seen) == IF seen THEN <<[kind |-> kind, epoch |-> epoch']>> ELSE <<>>

(* Mutant: a batch with an index event is taken for a staging.              *)
WatchIndexFirst ==
    \E batch \in SUBSET fs \ {{}} :
        /\ BumpEpoch
        /\ events' = events \o Notices("index", "index" \in batch)
                            \o Notices("graph", batch = {"refs"})
        /\ fs' = fs \ batch
        /\ UNCHANGED <<history, changes, writer, toEmit, reads, host, web>>

(* process_event_batch: the events of a debounce window, one bump.          *)
Watch ==
    \E batch \in SUBSET fs \ {{}} :
        /\ BumpEpoch
        /\ events' = events \o Notices("index", "index" \in batch)
                            \o Notices("graph", "refs" \in batch)
        /\ fs' = fs \ batch
        /\ UNCHANGED <<history, changes, writer, toEmit, reads, host, web>>

-----------------------------------------------------------------------------
(* read_graph_page.                                                         *)

Become(r, s) == reads' = (reads \ {r}) \cup {s}

(* The epoch is captured and checked, then the refs are walked; 0 asks for  *)
(* no check.                                                                *)
Read(r) ==
    /\ r \in reads /\ r.stage = "sent"
    /\ IF r.asked \in {0, epoch}
       THEN Become(r, [r EXCEPT !.stage = "read", !.epoch = epoch, !.version = Version])
       ELSE Become(r, [r EXCEPT !.stage = "mismatch", !.epoch = epoch])
    /\ UNCHANGED <<repo, engine, events, host, web>>

(* Mutant: the page is labelled with the epoch at its end, unchecked.       *)
AnswerRelabels(r) ==
    /\ r \in reads /\ r.stage = "read"
    /\ Become(r, [r EXCEPT !.stage = "served", !.epoch = epoch])
    /\ UNCHANGED <<repo, engine, events, host, web>>

(* After the walk the epoch must still be the one captured.                 *)
Answer(r) ==
    /\ r \in reads /\ r.stage = "read"
    /\ IF r.epoch = epoch THEN Become(r, [r EXCEPT !.stage = "served"])
                          ELSE Become(r, [r EXCEPT !.stage = "mismatch", !.epoch = epoch])
    /\ UNCHANGED <<repo, engine, events, host, web>>

(* Where the page of a viewport begins: at the anchor, if the log has it.   *)
FirstOf(log, viewport) ==
    IF \E i \in DOMAIN log : log[i] = viewport.anchor
    THEN CHOOSE i \in DOMAIN log : log[i] = viewport.anchor
    ELSE viewport.offset + 1

Start(r) == FirstOf(history[r.version], r.viewport)

Page(r) ==
    LET log == history[r.version] IN SubSeq(log, Start(r), Min({Start(r) + Limit - 1, Len(log)}))

-----------------------------------------------------------------------------
(* The extension host, class GraphSession.                                  *)

Sent(viewport, asked, retried) ==
    [probe |-> FALSE, notified |-> 0, viewport |-> viewport, asked |-> asked,
     retried |-> retried, newest |-> TRUE, stage |-> "sent", epoch |-> 0, version |-> 0]

Superseded == {IF r.probe THEN r ELSE [r EXCEPT !.newest = FALSE] : r \in reads}

(* A notification arrives; graphInvalidated arms a timer.                   *)
Notified ==
    /\ events # <<>>
    /\ known' = Head(events).epoch
    /\ invalid' = IF Head(events).kind = "graph" THEN Head(events).epoch ELSE invalid
    /\ events' = Tail(events)
    /\ UNCHANGED <<repo, engine, reads, timer, failed, web>>

(* refreshAfterInvalidation begins with a probe.                            *)
Probe ==
    /\ invalid # 0 /\ Cardinality(reads) < MaxReads
    /\ reads' = reads \cup {[Sent([offset |-> 0, anchor |-> None], 0, FALSE)
                               EXCEPT !.probe = TRUE, !.notified = invalid, !.newest = FALSE]}
    /\ invalid' = 0
    /\ UNCHANGED <<repo, engine, events, known, timer, failed, web>>

(* Its answer, or the notified epoch, is adopted; the webview forgets its   *)
(* rows and asks for its viewport.                                          *)
Probed(r) ==
    /\ r \in reads /\ r.probe /\ r.stage \in {"served", "mismatch"}
    /\ known' = IF r.stage = "served" THEN r.epoch ELSE r.notified
    /\ reads' = reads \ {r}
    /\ rows' = [row \in Rows |-> None]
    /\ timer' = [offset |-> view, anchor |-> anchor]
    /\ UNCHANGED <<repo, engine, events, invalid, failed, view, anchor, moved, scrolls, shown>>

(* Mutant: requestGraph takes no new sequence number.                       *)
RequestGraphNoSeq ==
    /\ timer # None /\ Cardinality(reads) < MaxReads
    /\ reads' = reads \cup {Sent(timer, known, FALSE)}
    /\ timer' = None /\ failed' = FALSE
    /\ UNCHANGED <<repo, engine, events, known, invalid, web>>

(* requestGraph, when the debounce timer fires.                             *)
RequestGraph ==
    /\ timer # None /\ Cardinality(reads) < MaxReads
    /\ reads' = Superseded \cup {Sent(timer, known, FALSE)}
    /\ timer' = None /\ failed' = FALSE
    /\ UNCHANGED <<repo, engine, events, known, invalid, web>>

(* applyPage: the rows a request was for get its page.  When the list has   *)
(* become shorter than the view is deep, the browser scrolls it up, which   *)
(* is a scroll event.  The window is one row high, the rest of a page lies  *)
(* below it.                                                                *)
ApplyPage(r) ==
    /\ rows' = [row \in Rows |->
                 IF row - r.viewport.offset \in 0..(Len(Page(r)) - 1)
                 THEN Page(r)[row - r.viewport.offset + 1] ELSE rows[row]]
    /\ shown' = r.version
    /\ view' = Min({view, Len(history[shown']) - 1})
    /\ moved' = (moved \/ view' # view)
    /\ UNCHANGED <<anchor, scrolls>>

(* Mutant: an answer is shown whether or not a newer request is under way.  *)
ShowPageAnyway(r) ==
    /\ r \in reads /\ ~r.probe /\ r.stage = "served"
    /\ reads' = reads \ {r} /\ known' = r.epoch /\ ApplyPage(r)
    /\ UNCHANGED <<repo, engine, events, invalid, timer, failed>>

(* The answer to the newest request.                                        *)
ShowPage(r) ==
    /\ r \in reads /\ ~r.probe /\ r.newest /\ r.stage = "served"
    /\ reads' = reads \ {r} /\ known' = r.epoch /\ ApplyPage(r)
    /\ UNCHANGED <<repo, engine, events, invalid, timer, failed>>

(* Mutant: the retry is neither marked nor made with the fresh epoch.       *)
RetryAsBefore(r) ==
    /\ r \in reads /\ ~r.probe /\ r.newest /\ ~r.retried /\ r.stage = "mismatch"
    /\ reads' = (reads \ {r}) \cup {Sent(r.viewport, r.asked, FALSE)}
    /\ UNCHANGED <<repo, engine, events, host, web>>

(* A mismatch is retried once, with the epoch the error names.              *)
Retry(r) ==
    /\ r \in reads /\ ~r.probe /\ r.newest /\ ~r.retried /\ r.stage = "mismatch"
    /\ known' = r.epoch
    /\ reads' = (reads \ {r}) \cup {Sent(r.viewport, r.epoch, TRUE)}
    /\ UNCHANGED <<repo, engine, events, invalid, timer, failed, web>>

GiveUp(r) ==
    /\ r \in reads /\ ~r.probe /\ r.newest /\ r.retried /\ r.stage = "mismatch"
    /\ reads' = reads \ {r}
    /\ failed' = TRUE
    /\ UNCHANGED <<repo, engine, events, known, invalid, timer, web>>

(* An answer to a superseded request, of either kind.                       *)
Drop(r) ==
    /\ r \in reads /\ ~r.probe /\ ~r.newest /\ r.stage \in {"served", "mismatch"}
    /\ reads' = reads \ {r}
    /\ UNCHANGED <<repo, engine, events, host, web>>

-----------------------------------------------------------------------------
(* The webview.                                                             *)

(* requestViewport: the first visible commit, if it is known, is the anchor *)
(* from now on.                                                             *)
RequestViewport ==
    /\ anchor' = IF rows[view'] # None THEN rows[view'] ELSE anchor
    /\ timer' = [offset |-> view', anchor |-> anchor']
    /\ moved' = FALSE
    /\ UNCHANGED <<repo, engine, events, reads, known, invalid, failed, rows, shown>>

(* Mutant: a scroll that the browser makes is not followed by a request.    *)
MovedOnly ==
    /\ moved /\ moved' = FALSE
    /\ UNCHANGED <<repo, engine, events, reads, host, view, anchor, rows, scrolls, shown>>

(* Its debounce timer fires, after the browser has scrolled ...             *)
Moved ==
    /\ moved /\ view' = view /\ scrolls' = scrolls
    /\ RequestViewport

(* ... or the user, or after a resize.                                      *)
Scroll(o) ==
    /\ scrolls < MaxScrolls /\ scrolls' = scrolls + 1
    /\ o # 0 => shown # 0 /\ o < Len(history[shown])
    /\ view' = o
    /\ RequestViewport

Proceed ==
    \/ QueueBumps \/ QueueEmits \/ Watch
    \/ \E r \in reads : Read(r) \/ Answer(r)
    \/ Notified \/ Probe \/ RequestGraph \/ Moved
    \/ \E r \in reads : Probed(r) \/ ShowPage(r) \/ Retry(r) \/ GiveUp(r) \/ Drop(r)

Next ==
    \/ \E kind \in {"commit", "stage", "reset"} : Write(kind) \/ External(kind)
    \/ Proceed
    \/ \E o \in Offsets : Scroll(o)

Spec == Init /\ [][Next]_vars

(* Every thread, timer and message of the machinery makes progress, not     *)
(* only some; nothing is assumed of the user or of other processes.         *)
FairSpec ==
    /\ Spec
    /\ WF_vars(QueueBumps) /\ WF_vars(QueueEmits) /\ WF_vars(Watch)
    /\ WF_vars(Notified) /\ WF_vars(Probe) /\ WF_vars(RequestGraph) /\ WF_vars(Moved)
    /\ WF_vars(\E r \in reads : Read(r)) /\ WF_vars(\E r \in reads : Answer(r))
    /\ WF_vars(\E r \in reads : Probed(r) \/ ShowPage(r) \/ Retry(r) \/ GiveUp(r) \/ Drop(r))

-----------------------------------------------------------------------------
(* Properties.                                                              *)

Quiet ==
    /\ fs = {} /\ writer = "idle" /\ toEmit = 0 /\ events = <<>>
    /\ reads = {} /\ invalid = 0 /\ timer = None /\ ~moved

(* The viewport shows the log from its i-th commit on; rows below its end   *)
(* are not drawn.                                                           *)
ShowsFrom(i) ==
    /\ i \in DOMAIN Log
    /\ \A k \in 0..(Limit - 1) : i + k <= Len(Log) => rows[view + k] = Log[i + k]

(* When nothing is under way any more, the viewport shows the repository's  *)
(* current log, from the anchor on if the log still has it and from the     *)
(* view's own row if not, or the user was told that his request failed: no  *)
(* change the engine or anyone else made is missed.                         *)
QuietIsCurrent ==
    Quiet /\ ~failed => ShowsFrom(FirstOf(Log, [offset |-> view, anchor |-> anchor]))

(* graph.js keeps commits by their row: when nothing is under way any more, *)
(* a row shows the commit that the current log has there.  False, since the *)
(* engine cuts a page at its anchor (README, known limits).                 *)
RowsShowTheirCommits == Quiet /\ ~failed => ShowsFrom(view + 1)

(* A page of the current epoch has everything that epoch was bumped for.    *)
PageCoversItsEpoch ==
    \A r \in reads : r.stage = "served" /\ r.epoch = epoch => r.version >= bumped

(* What the webview shows never goes back to an older log.                  *)
NeverGoesBack == [][shown' >= shown]_vars

(* Bumps and mismatches do not chase each other: when the repository stays  *)
(* as it is and the user is still, the view comes to rest.                  *)
EventuallyQuiet == <>[]Quiet

=============================================================================
