# Verification of git-bamboo

git-bamboo is a Git client for VS Code: a Rust engine process (`src/crates/engine`) that serves
one repository over JSON-RPC on its standard streams, and an extension (`src/editors/vscode`)
that starts the engine and shows its answers. This directory holds TLA+ models of the parts whose
correctness depends on the order of steps, TLC runs on small instances, and TLAPS proofs for every
instance. `tlc -config X.cfg M.tla` checks a run, `tlapm M.tla` a module of proofs; PROJECT.json
lists which configuration belongs to which module, and which source lines every definition models.

## 1. The system

| Part | State | Operations | Behaves hard because |
|---|---|---|---|
| **Undo engine** `undo.rs` | journal.jsonl, N.pre / N.post snapshot files, undo-in-progress.json; next_id in memory | begin, commit, undo (cascade), restore_snapshot, recover, new | a crash or a failure between any two file writes; other git processes change the repository under it |
| **Write queue** `write_queue.rs` | none of its own: one consumer task, a channel of requests | about 25 git write commands, undo, autoStash, discard, resolveConflict; epoch bump after a success | multi-command flows over a repository the user and other processes edit at the same time; partial failure |
| **Session, epoch, watcher** `session.rs` | epoch counter, channel of events, watcher thread | open, bump_epoch, process_event_batch | three threads bump and notify; notifications arrive out of order with reads |
| **Reads** `gix_read.rs` | none | graph page with its lanes, status, branch status, details, blobs | a page is walked while the epoch moves; pages of one log are laid out separately; the listing and the write queue judge files by different rules |
| **redb cache** `cache.rs` | lanes, commit metadata, durable epoch | get, put, retry of a locked file | exclusive file lock while a session is replaced |
| **Server** `server.rs`, `main.rs` | the session slot, the ready watch, the stop flag, the reader's end | initialize, dispatch, shutdown, forwarding of events, SIGINT, watch for the parent | concurrent requests while the session is being replaced or stopped; a client that dies |
| **Engine client** `engineClient.ts` | pending requests, exit state | request with timeout, notifications, stop, dispose | answers after timeouts, exit with requests pending |
| **Graph session** `graphSession.ts`, `graph.js` | known epoch, sequence number, debounce and probe timers; rows, anchor | requestGraph, refreshAfterInvalidation, applyPage | late answers, retries and timers race |
| **Commit view, merge editor** `commitView.ts`, `mergeEditor.ts`, `contextTargetSlot.ts` | last status, refresh in flight | refresh, stage, commit, discard, resolve | confirmation dialogs for a status that is old when answered |
| **Network operations** `netOps.ts` | the operation guard | fetch, pull, push, recovery, auto-fetch | a guard held across user dialogs |
| Protocol types, xtask, command wiring, rendering | | | no state worth a model |

How they interact. The client's requests become tasks of the server; reads run in parallel on
blocking threads, writes and undos are sent to the session's queue and run one at a time. The
write queue brackets each git command with UndoEngine::begin and commit, bumps the session's
epoch after a success, and the watcher bumps it again when it sees .git change. Events are sent
to the client, whose graph session reacts by probing for the epoch and asking for its viewport again;
a graph request carries the epoch the client knows and is refused when the engine's has moved.

What makes each part correct:

* undo engine: a journal entry always has its snapshots; an undo that answers "restored" did
  restore; nothing leaves the stack that no one asked to undo; a crash anywhere leaves a state
  from which the undo is completed; the whole is an atomic undo stack, but for journal lines that a
  crash leaves unfinished;
* auto-stash: the user is told where his changes are, and only the flow's own stash entry is popped;
* discard and resolve: staged content is never lost, what is reported done is done, a discard that git
  refuses has done nothing, one that is broken off has not begun with what git cannot bring back before
  the rest was through, and what the view offers is not refused;
* lanes: a row keeps its lane while the user scrolls, and lines of history do not share one;
* epoch and graph: what the screen shows ends up at the repository's log, never goes back, and the
  machinery comes to rest;
* server and client: every request is answered, or its caller learns that it will not be; an engine
  without a client ends.

## 2. The modules

Every module models one machine with the processes beside it. They share no variables; what one
leaves out of a neighbour it replaces by any behaviour that neighbour can have.

| Module | Models | Beside it |
|---|---|---|
| `UndoStack` | what the undo journal promises: an atomic stack of writes | nothing |
| `UndoEngine` | `undo.rs`, driven by the queue's consumer (`run_write`, `run_undo`) | crashes, foreign git processes, failing calls |
| `AutoStash` | `run_with_auto_stash` and the stash requests of `write_queue.rs` | user, foreign git processes, crashes |
| `Worktree` | discard, resolveConflict, stage, unstage, commit of `write_queue.rs` on files; the listing of `read_status` in `gix_read.rs` and what `commitView.ts` and `commit.js` offer for it | editors and foreign git processes |
| `Server` | `server.rs`, `main.rs`, opening in `session.rs` and `cache.rs`, the hand-over in `write_queue.rs`, `engineClient.ts` | signals, death of the engine or of the extension host |
| `GraphEpoch` | epoch and watcher in `session.rs`, the page read in `gix_read.rs`, `graphSession.ts`, `graph.js` | user, other programs |
| `Lanes` | the sweep of `read_graph_page` in `gix_read.rs` and the rows `graph.js` collects | the user, who scrolls |
| `NetOps` | `netOps.ts`, `read_branch_status` in `gix_read.rs` and the auto-fetch timer of `extension.ts` | user, terminals, other people's pushes |
| `CommitView` | `commitView.ts`, the save hook of `mergeEditor.ts` | user, other programs |

`UndoEngine` instantiates `UndoStack` under a refinement mapping. The theorems about a module `M` are
in `MProofs`, which extends it; every module but `UndoStack` has one. The `MC` modules give the
constants of TLC's runs their elements. UndoEngine, AutoStash and Worktree are three views of the one consumer of
`write_queue.rs` (snapshots of refs and index, the stash, single files); a command is complete before
the next one begins in each of them. Server leaves out what a command does and knows only when it
runs; GraphEpoch has of a write its change and its bump; NetOps and CommitView see the engine as
requests with an outcome.

**UndoEngine.** `repo` is what a `Snapshot` holds: HEAD, refs/heads, refs/stash and the tree of the
index (`None`: the index is unmerged and has no tree). `journal` is the set of journal lines, ordered by
their ids; `tail` says how the file ends, since a crash may leave half a line or a line without its
newline (`CrashInLine`; any other death of the process is `Crash`). A line appended to such an end joins
it, and `read_journal` skips both. `pre`, `post` and `marker` are files that are absent, whole or torn.
`pc` is where the consumer stands: `Begin` - `RunGit` - `WritePost` - `AppendLine` - `AppendNewline` for
a write, `UndoAccepted` - `WriteMarker` - `CutJournal` - `ReadCurrent` - `RestoreRefs` - `RestoreIndex`
- `RestoreHead` - `Finish` for an undo, and the last six of these, after `RecoverUndo`, for an opening
that finds a marker. The write of a whole file through a rename is one step, the append to the journal
two. `Finish` is the marker's removal with the pruning of snapshot files that follows. A command that
fails may leave the repository as a conflict leaves it: a pull halted in the middle, a stash popped
halfway, an auto-stash that could not be popped after a switch or pull that itself succeeded, halted or
failed (`Conflicted`). `asked` is a history variable: the ids an accepted undo covered. A crash is the
death of the process; the loss of data the operating system holds is not modelled.

**AutoStash.** Changes are a set of edits in the worktree, some of them untracked, some staged, some
`Sticky` (inside a submodule: `git status` reports them, `git stash` leaves them). An entry of the
stash remembers in `own` whether the flow under way pushed it. `mine`, `vain` and `meddled` are history:
what the flow found and the user has not taken back since, whether the push had nothing to save (submodule
changes only, or the user took back the rest after the status), and whether another process used the stash
in between.

**Worktree.** A file is its version in HEAD, at index stage 0 or conflict stages 1 to 3, and in the
worktree. `classify_discard_paths` gives the three lists that `DiscardCheckout`, `DiscardClean` and
`DiscardRm` work off; `resolve_conflict` classifies, takes a side, and adds or removes. Between any
two steps a file may be changed by others (`touched`). Each git command is done, is refused by git as a
whole, or is broken off by the system (`Broken`) after any of its files: one that cannot be written or
removed, a locked index, a full disk. A file is then done or not; one that git leaves half written, or a
single file that `git rm` skips, is not modelled. `Listed` is `read_status`: staged changes
(HEAD against index) and changes of the worktree (index against worktree), a conflict by itself;
`OffersDiscard` and `OfferedResolutions` are what the view makes of it. `offered` remembers whether the
command was one of those when it was classified.

**Server.** A request is a promise in the client (`call`), a line in the pipe, then a task of the
server with a stage (`task`) and perhaps an `Arc` of the session (`holds`). The session is named
after the initialize that opened it and is `Alive` as long as someone has an Arc; its cache's file
lock is what makes `OpenSession` wait for that to end. `ready` is the watch that waiters are
released by. The consumer of a session upgrades its weak handle for each command. `loop` goes
through serving, joining, stopping and stopped, as `run()` does, and is gone when the process is:
`reading` says whether the task blocked on stdin has ended, since the runtime waits for it. It ends at
the end of the input (`HostDies`: the client's end of the pipe is closed), with a frame `read_message`
refuses, or with one that arrives after `run()` has returned. `ran` is history; an executed request
answers "ok" whatever git said. Initializes name the same repository; notifications are left out.

**GraphEpoch.** The repository is the list of its logs. A write changes it, then bumps (`QueueBumps`),
then notifies (`QueueEmits`), each a step; the watcher bumps and notifies in one, once for each batch,
and may split what it saw into several. A page request is a record with its stage: sent, walked (`Read`
captures the epoch and the log together, the check of the epoch after the walk is in `Answer`), and
served or refused. `known`, `invalid` and `timer` are RepoState.epoch, invalidateTimer and
debounceTimer; `view`, `anchor` and `rows` belong to the webview, whose window is `Limit` rows high.
When a page makes the log shorter than the scroll position the browser scrolls up, and `moved` is the
viewport request its scroll event leads to (`Moved`). `bumped` and `shown` are history. There is one
graph; a request that fails for another reason than the epoch ends in the error message, as the failed
retry does.

**Lanes.** A log is any acyclic choice of at most two parents for each of `Length` rows. `Scroll`
asks for a page, the three `Place` actions are one turn of the sweep each (no child, one, several),
`Serve` cuts the page out of the rows swept and puts it beside those the webview has. `Margin` is
PRELOAD_MARGIN, `MaxLanes` u16::MAX. The log does not move: GraphEpoch is about what happens when it does.

**NetOps.** A history is a set of changes, so a branch contains another's when the one is a subset.
A flow is `pc` with what it read when it began (`branch`, `target`, `mode`); every request is one
step with all its outcomes (done, refused, failed, killed after the remote half was done), every
dialog waits for `Asked`. `BranchStatus` is `read_branch_status`, what a flow knows from it. `guard`
is `netOpInFlight`. `shown`, `foreign` and `agreed` are history: what the user could see of the remote
when he confirmed a force push or fetched since, what other programs fetched since without his knowledge
(`BackgroundFetch`), and what he confirmed to overwrite. Without `confirmForce` the setting is the user's answer.

**CommitView.** `status` is the listing of each file, a set of buckets (a file may be staged and
changed at once). A change of the repository sets `unseen` until `Bump`, whose notification is part
of the debounce timer. `refresh` is `doRefresh` with its queued successor; a status read that the
epoch overtook fails. `discard` is the chain modal, status, check, engine; `save` the hook of the
merge editor. `since`, `disputed`, `failed` and `moved` are history. The webview keeps its context
when hidden and drops what is posted to it while it is loading. The user begins one thing at a time.

## 3. What is checked

`tlc -config <run>.cfg <MC module>`. States are distinct states on the given bounds.

| Run | States | Bounds and why they suffice |
|---|---|---|
| `undo_faults` | 2.3 M | One branch, commit, tree and stash, two transactions, all six faults at every step. The properties relate files of one transaction with those of the next; two are enough for an id to be reused, an older entry to be cut or a stale marker to meet a newer write. |
| `undo_crash` | 1.2 M | Two branches, two commits, one stash, all eight kinds of write, conflicting commands and auto-stashes that stay behind, a crash anywhere, inside a journal line too. The refinement and the restored state need branches that come, move and go, and HEAD on either; two writes make a cascade, and a line that joins another. |
| `auto_stash` | 1.1 M | Four edits (plain, untracked, staged, in a submodule), three stash entries: the flow's own, one before and one after it. |
| `worktree` | 332 k | Two files, each in any state git can have it in; others change a file once while a command runs. A command looks at each file for itself, two show one of them failing after the other. Symmetric in the files. |
| `graph_epoch` | 1.1 M | Two commits, a change, a scroll, two requests in flight, one visible row of two, so that the log can get shorter than the place scrolled to. A single change already gives up to three bumps (queue, refs, index) and two notifications, which overtake each other, the probe, the page and its retry. |
| `lanes` | 7.0 M | Every log of five commits with up to two parents each, a branch and a merge and a root between them, in any order a wrong clock can give; three lanes, so that lane numbers run out; pages of two rows with a margin of one, so that a page ends between parent and child. |
| `server` | 807 k | Three requests of any kinds and all six faults: initialize, its replacement, and a read or write between them; or initialize, a write, shutdown. |
| `net_ops` | 455 k | Two branches and two changes, either force mode, any upstream: what a flow removes from one branch is told from the other, and what the user saw from what was fetched since. |
| `commit_view` | 534 k | One file with five listings, two changes: the second change overtakes the refresh that the first caused. Untracked files are treated as changed ones by this code and left out. |
| `undo_noop`, `undo_stale_marker`, `auto_stash_sticky` | | the disagreements of section 5 |

What the passing runs show:

* **Undo engine** - With every fault on, a journal entry has both snapshots whole
  (`JournaledSnapshots`), ids are never reused (`FreshIds`), and a restore is covered by its marker
  and a journal that is already cut (`RestoreIsMarked`). With crashes at every step, the engine is an
  atomic undo stack (`ImplementsUndoStack`: an undo happens when its marker is on disk, a write when its
  line is in the journal) whose top a crash may fray: the entry without its newline can be undone until
  the next write joins its line and both are lost, which is all that a crash costs beside the write it
  interrupts. "Restored" means restored with a HEAD that resolves (`RestoredIsPreState`), nothing un-asked
  leaves the journal but such an entry (`OnlyAskedIsUndone`), a marked undo ends (`MarkedUndoEnds`).
* **Auto-stash** - The answer says where the user's changes are, those he took back himself aside, and the
  flow's own entry stays behind only if it does (`ReplyTellsWhere`; "retained in the stash" says nothing
  when the push had nothing to save). If it had, no other entry is popped (`PopsWhatItPushed`).
* **Worktree** - What is reported done is done: a discarded file is what was staged, a resolved one the
  chosen side (`DoneIsDone`). A discard takes nothing out of the index even when racing others or broken
  off, and if git refuses it, unless someone interfered, it has changed nothing (`DiscardIsSafe`). A discard
  that the system breaks off may have done a part: untracked files are deleted only when all tracked ones are
  restored, intent-to-add files only after both (`FailsInOrder`). What the view offers for a listing that is
  still true the engine does, unless the system keeps it from doing so, but for two kinds of files
  (`OfferedIsDone`, section 5).
* **Lanes** - Lane numbers stay in their range, pages of different depth agree on the lane of every row
  when children come before their parents (`PagesAgree`), and without merges a lane is one line's at a
  time (`LinesApart`).
* **Server** - Sessions exclude each other (`OneSession`), accepted writes keep their session
  (`WritesKeepTheirSession`), answers are true (`AnswersAreHonest`), early requests wait for the first
  session (`FirstSessionIsAwaited`), every call ends (`EveryCallSettles`, with three exceptions it names), and
  an engine whose client died exits even without the watch for its parent (`OrphanStops`).
* **Graph** - At rest the viewport shows the current log from its anchor on, or from its own row where the
  log has no such commit any more, or the user has got a message (`QuietIsCurrent`), a page of the current
  epoch has what the epoch stands for (`PageCoversItsEpoch`), the screen never goes back
  (`NeverGoesBack`), and bumps and refusals do not chase each other for ever (`EventuallyQuiet`).
* **Network operations** - One flow at a time (`OneFlow`); only a confirmed force push of the branch
  the modal named removes anything from the remote (`OverwritesAreAgreed`), and with lease nothing that
  the extension fetched unseen: what a push removes the user could see when he confirmed it, or another
  program has fetched it since (`LeaseKeepsUnseen`); a flow ends or asks (`EndsOrAsks`).
* **Commit view** - The list gets to the repository's status and stays there until it changes again
  (`EventuallyShown`); a discard acts on files listed as discardable after the confirmation
  (`DiscardsAreRechecked`); a save does not stage over a resolution it could know of
  (`SavesKeepResolutions`).

**Fairness.** Weak fairness only, and only of what the program or its runtime schedules. UndoEngine: the
consumer finishes what it began and an opening runs recover before it returns; nobody has to open a
session or to send a request. Server: tasks are scheduled, pipes are read, timers fire, git returns; as
one of `Proceed`, since a step of one task is seldom disabled by another's (some step is taken while one
is possible). GraphEpoch: each thread, timer and message on its own. NetOps: a request is answered,
because the engine kills a network command after ten minutes (`write_queue.rs:629-646`); a dialog need
not be. CommitView: the bump, the timer and the answers to a refresh. Nothing is assumed of users, other
processes or other people, and no run assumes strong fairness.

**Deadlock** is checked except in `graph_epoch`, where coming to rest is the aim, and `server`, where
the engine ends and the client has settled every call.

## 4. What is proved

Every invariant and every action property of the passing runs, and the refinement of the undo stack, for
all values of the constants under the named assumptions of the modules. No set of commits, branches,
files, edits or viewports is assumed to be finite or non-empty. The assumptions:

| Module | Assumed of its constants |
|---|---|
| `UndoEngine` | `MaxTx` is a natural; commands and faults are of the listed kinds; a branch name is no commit; `None` and `Torn` are different from each other and from what a file can hold, and no commit, tree or stash is `None` |
| `Server` | `MaxRequests` is a natural; faults are of the listed kinds |
| `AutoStash` | untracked, staged and sticky edits are edits, none is both untracked and staged; faults are of the listed kinds; `MaxStash` is a natural |
| `Worktree` | `None` is no version of a file |
| `CommitView` | the listings are sets of buckets; they hold the empty one, and with a listing its staged part and the rest; the file in the merge editor is one of the files; `MaxChanges` is a natural |
| `GraphEpoch` | sizes are naturals, or positive where there must be one; the offsets are an interval from 0; `None` is no number and no viewport; `Linked` is a Boolean |
| `Lanes` | `Length`, `Limit` and `MaxLanes` are positive naturals, `Margin` is a natural |
| `NetOps` | `None` is no branch; the force modes are the two of the settings |

| Module | Theorem | Says |
|---|---|---|
| `UndoEngineProofs` | `TypeCorrect` | `Spec => []TypeOK` |
| | `EntriesKeepSnapshots` | `Spec => []JournaledSnapshots` |
| | `IdsStayFresh` | `Spec => []FreshIds` |
| | `RestoresAreMarked` | `Spec => []RestoreIsMarked` |
| | `EngineIsAStack` | `OnlyCrashes => (Spec => ImplementsUndoStack)` |
| | `OnlyAskedLeaves` | `OnlyCrashes => (Spec => OnlyAskedIsUndone)` |
| | `RestoredIsBefore` | `OnlyCrashes => (Spec => []RestoredIsPreState)` |
| `AutoStashProofs` | `TypeCorrect` | `Spec => []TypeOK` |
| | `ReplyIsTrue` | `Spec => []ReplyTellsWhere` |
| | `PopIsItsOwn` | `Spec => PopsWhatItPushed` |
| `WorktreeProofs` | `TypeCorrect` | `Spec => []TypeOK` |
| | `ReportedIsDone` | `Spec => []DoneIsDone` |
| | `OffersAreKept` | `Spec => []OfferedIsDone` |
| | `FailuresAreInOrder` | `Spec => []FailsInOrder` |
| | `DiscardsAreSafe` | `Spec => DiscardIsSafe` |
| `ServerProofs` | `TypeCorrect` | `Spec => []TypeOK` |
| | `SessionsAreExclusive` | `Spec => []OneSession` |
| | `WritesAreKept` | `Spec => []WritesKeepTheirSession` |
| | `AnswersAreTrue` | `Spec => []AnswersAreHonest` |
| | `FirstSessionWaits` | `Spec => []FirstSessionIsAwaited` |
| `GraphEpochProofs` | `TypeCorrect` | `Spec => []TypeOK` |
| | `LabelsAreTrue` | `Spec => []PageCoversItsEpoch` |
| | `ViewNeverGoesBack` | `Spec => NeverGoesBack` |
| | `RestIsCurrent` | `~Linked => (Spec => []QuietIsCurrent)` |
| `LanesProofs` | `TypeCorrect` | `Spec => []TypeOK` |
| | `LinesKeepApart` | `Spec => []LinesApart` |
| | `ScrollingKeepsLanes` | `Spec => PagesAgree` |
| `NetOpsProofs` | `TypeCorrect` | `Spec => []TypeOK` |
| | `FlowsAreExclusive` | `Spec => []OneFlow` |
| | `OverwritesAreConfirmed` | `Spec => OverwritesAreAgreed` |
| | `LeaseProtectsUnseen` | `Spec => LeaseKeepsUnseen` |
| `CommitViewProofs` | `TypeCorrect` | `Spec => []TypeOK` |
| | `DiscardsAreChecked` | `Spec => DiscardsAreRechecked` |
| | `ResolutionsAreKept` | `Spec => SavesKeepResolutions` |

Two hypotheses restrict a theorem, each to where the code keeps the property; section 5 says what
happens outside of it. `OnlyCrashes` (crashes anywhere, inside a journal line too, and conflicting
commands: the faults of `undo_crash`) excludes the restore that fails and leaves its marker, and other
programs. `~Linked` excludes a linked worktree, whose branches are not watched.

*Undo engine.* IInv == TypeOK /\ JournaledSnapshots /\ FreshIds /\ RestoreIsMarked /\ JobInHand. The
three properties hold each other up: a new entry has its snapshots because the transaction in hand kept
them since `Begin` (JobInHand); a `Begin` takes no entry's snapshot because ids are fresh; ids are fresh
after a restart because the engine starts above every id it finds in the journal or among the files.
RestoreIsMarked needs to know that the marker was written for the job (`marked` in JobInHand) before the
journal is cut, and `recover` gets the same job from the marker. Lemmas show that every git command
takes repositories to repositories; the step of each action is split by conjunct.

With crashes only, CrashInv is inductive beside IInv. It says how the journal may end, that a write goes
from the snapshot on disk to the state it will record, that an undo beyond its check was asked for and
nothing has happened since the newest write, and that between marker and removal the repository is on
its way to the marker's snapshot: branches first, then index, then HEAD (OnItsWay). HeadsResolve is why
the state it gets to has a HEAD that resolves: every snapshot was taken of a repository that had one.
The refinement is shown step by step: the initial states map to the empty stack; `WriteMarker` is the
stack's undo, the append of the line its write; every other step leaves stack and value as the mapping
gives them (`Stutters`), a crash too, because what the mapping reads, the marker and the journal above
it, is on disk. Where the journal's end is unfinished, the stack is frayed if that end is the newest
entry (`StackFrayed`): a crash before the newline is its `Fray`, and the write that joins the line its
`LostWrite`.

*Auto-stash.* IInv == TypeOK /\ RunKeepsTrack /\ ReplyTellsWhere. Unless another process meddled, a run that is
about to push has no entry yet; from its push to its pop, what it found is where
`git stash push` left it (`Stowed`): the sticky changes in the worktree, all others in the newest entry,
the only one of the run, or in no entry at all when the push was in vain. That last case is what lets the
pop take a stranger's entry (`auto_stash_sticky`); `vain` is set at the push itself,
and what the user takes back leaves `mine`, so that no edit he makes at any time is excluded.

*Worktree.* IInv == TypeOK /\ JobOnTrack /\ DoneIsDone /\ FailsInOrder /\ OfferedIsDone. What the
classification found of the files that nobody touched stays true until the git command for them has run,
and what that command did stays done while the next ones run (DiscardOnTrack, ResolveOnTrack).
OfferedIsDone is then about the one step that classifies: what the view offers is in a list, and what is
in a list has the state its command needs; so that a command that fails while nobody interferes was
broken off by the system, and FailsInOrder is the part of DiscardOnTrack that such a failure leaves
behind.

*Server.* IInv == TypeOK /\ OneSession /\ StdinIsNew /\ QueuedOnce /\ TrueAnswers. OneSession is kept
because an Arc is only ever made from one that exists (lemma `NoneAppears`), except in `OpenSession`,
which needs the cache's lock. WritesKeepTheirSession follows from QueuedOnce: a command in a queue
belongs to a suspended handler, and the handler holds the session. That a command is in one place once
is what makes the consumer run it once (TrueAnswers), and StdinIsNew that `Accept` never starts a second
handler for a request. TrueAnswers follows an answer through both pipes to the client.
FirstSessionIsAwaited has an invariant of its own, FirstInv: while there is one initialize and the
server is serving, the waiters are released only after it has been answered, it fills the slot before
that, and "uninit" is on its way to nobody but when it has failed (OneIsAwaited).

*Graph.* IInv has a part for each process. In it a request knows no epoch and no log that the engine has
not reached, and a page that carries the current epoch is of a log no older than that epoch was bumped
for (`RequestOK`): the engine captures the epoch before it walks, which is LabelsAreTrue. A page under
way is no older than what is shown, because one page request at most is the newest and the webview drops
the answers to others: ViewNeverGoesBack. For the viewport at rest RestInv follows a change of the log
from where the watcher will see it, over the notification, the debounce and the probe, to the timer that
asks for the viewport (`Pending`); when nothing is pending, the page under way is of the current log,
and when there is none the viewport shows it or the user was told of a failure.

*Lanes.* IInv == TypeOK /\ Held. Held says that, in a log without merges whose children come before
their parents, and while there is room, every commit whose line goes on below the rows swept still holds
its lane in the vector; two that hold a lane hold different ones, which is LinesApart. It is kept
because, when a row's turn comes, all its children have been swept and each held its lane until then;
since they are no merges, their lines end at this row, so the lanes that are freed were nobody else's,
and the row itself takes the leftmost (lemmas `ChildrenOf`, `HoldStep`). Type correctness needs that the
vector never grows past `MaxLanes` and that a row outside it is given lane 0. PagesAgree compares sweeps
that have nothing in common but the log. A sweep is stated as a sequence of lanes and vectors, each the
turn's function of those before (`Run`); two of them have no first row that they differ at (`RunsAgree`,
a least counterexample in place of an induction). The invariant PagesInv says that the sweep under way
is a Run, and that every row the webview shows got its lane from one.

*Network operations.* IInv == TypeOK /\ OneFlow /\ ForceIsConfirmed. A step is one of the only flow
there is (OneFlow), so that between the modal and the force push no other flow can change the branch and
target that the user agreed to, nor fetch behind his back; what his own terminal fetches he sees,
and what other programs fetch is accounted to them (ForceIsConfirmed).

*Commit view.* IInv == TypeOK /\ DiscardKnows /\ SaveKnows. The history since the confirmation holds all
that was listed then and later, so that the list the check reads is in it whenever it was read
(DiscardKnows); the same for the conflict that a save found (SaveKnows).

*Only model-checked* is liveness, which the prover does not reach: MarkedUndoEnds, EveryCallSettles,
OrphanStops, EventuallyQuiet, EndsOrAsks, EventuallyShown. The instances of section 3 have to speak for
them; and the disagreements of section 5 are counterexamples that TLC finds.

## 5. Where the code and its comments disagree

| Run | Property | What TLC finds |
|---|---|---|
| `undo_noop` | `NoopPopsOne` | Two writes, the first failed. Undoing the first answers noop and takes the second off the stack too. undo.rs:301 cuts the journal at the target; the comment above it says to "just pop it". |
| `undo_stale_marker` | `OnlyAskedIsUndone` | A restore fails and leaves its marker (undo.rs:342); the user goes on and commits; the next opening finds the marker and rolls that commit back as well. |
| `auto_stash_sticky` | `PopsOwnEntry` | Only a submodule has changes. `git stash push` saves nothing and exits 0, `stashed` is set (write_queue.rs:711), and the pop takes the user's older entry. |

In `undo_crash` and `undo_faults` the cause of `undo_stale_marker` is present as far as it can be:
`undo_faults` lets restores and file writes fail and checks the properties that survive that;
`undo_crash` has no failing restore, which is why OnlyAskedIsUndone holds there.

Known limits that have no run of their own. Where constants or a property are named they come out of a
model; the others were met on the way.

* Undoing a stash push or pop answers "restored" but leaves refs/stash as it is (undo.rs:358 restores
  heads, index and HEAD; undo.rs:274 compares the stash): RestoredIsPreState does not speak of it.
* `writeln!` writes a journal line and its newline apart (undo.rs:198). After a crash between them the next write's
  line joins the old one, `read_journal` skips both, and the write is answered ok: OkIsUndoable fails with
  `Faults = {"tail"}`, although write_queue.rs:403-404 means never to "report plain success for that" and
  undo.rs:502-503 expects to skip a truncated last line only. The refinement of `undo_crash` has this as
  `Fray` and `LostWrite`.
* An auto-stash pops a stranger's entry without a submodule as well: the user takes his last change back between
  the status (write_queue.rs:705) and the stash push (write_queue.rs:711). PopsOwnEntry fails with `Sticky = {}`
  too. When the pop fails instead, "the changes are retained in the stash" (write_queue.rs:756-758) is true of no
  entry; ReplyTellsWhere excepts it.
* Of a linked worktree only the private git directory is watched (session.rs:228), so that a branch
  moved from outside is not noticed: QuietIsCurrent fails with `Linked = TRUE`.
* `dispose()` does not end when the engine exits without its answer to the shutdown request having
  arrived: the exit handler clears the two-second timer (engineClient.ts:101, :291). EveryCallSettles
  excepts it.
* A page is cut at its anchor's index by the engine (gix_read.rs:268-275) and stored at the offset asked for by
  the webview (graph.js:636). A user who scrolls to a row that is not loaded keeps the anchor of the old place
  (graph.js:192), and the row shows that commit: RowsShowTheirCommits fails with one log, two commits and two
  scrolls, although graph.js:160 has a map from row to commit and gix_read.rs:265 an anchor to be stable "across
  invalidations". After a new commit above the anchor that commit is in no row. QuietIsCurrent therefore speaks
  of the log from the anchor on.
* A push with lease compares with what was fetched last, by whomever: other programs that fetch between the
  user's answer and the push make it overwrite what he never saw. write_queue.rs:786-789 knows the bare lease
  to be weaker than a precise one; LeaseKeepsUnseen excepts `foreign`.
* A discard whose `git clean` or `git rm` is broken off by the system reports an error after `git checkout` has
  restored the tracked files (write_queue.rs:1050-1064); nothing says which files are gone. DiscardIsSafe
  speaks of git's own refusals, FailsInOrder of the rest.
* A pull, and the recovery of a rejected push, works on the branch that is current by then, while the
  messages name, and the push takes, the one read at the beginning (netOps.ts:515, :514, :493).
* A file with staged and with unstaged changes is listed twice. The check after a confirmed discard looks at its
  first item only (commitView.ts:269), finds it staged and refuses, although nothing changed; CommitView's
  `CheckRefuses` does so.
* Of a conflict added on one side only, both sides are offered (commit.js:106-111), and the engine tries to check
  out a stage that is not there (write_queue.rs:1198-1209): OfferedIsDone excepts it. It also excepts a file that
  was removed from the index and kept, which is listed as untracked too and discarded as a tracked one.
* Both parents of a merge continue on the merge's lane, and when they have no other children they stay there, so
  that two lines share it; gix_read.rs:177 says that a lane is one commit's line. LinesApart speaks of logs
  without merges. A root never frees its lane. With clocks that put a parent before its child PagesAgree fails:
  it asks for ChildrenFirst.
* After `shutdown` or SIGINT `run()` returns, but the runtime waits for the task blocked on stdin, so that the
  process exits only at the end of the input or with one more frame; server.rs:239-241 means to exit regardless.
  dispose() kills it; EveryCallSettles excepts requests sent to such an engine.
* A default remote that is configured and names no remote leaves none as the default, although
  gix_read.rs:940-941 says that the first one is taken then.
* A second initialize empties the slot; requests that come before it is filled find `ready` set and are told that
  nothing is initialized (server.rs:353-369). FirstSessionIsAwaited speaks of a single initialize. An
  initialize that is refused at once never releases those who wait; EveryCallSettles excepts them.
* When the status of a save cannot be read, the merge editor stages blindly (mergeEditor.ts:214-217);
  SavesKeepResolutions excepts it. `verifyStillDiscardable` replaces lastItems without telling the webview
  (commitView.ts:263-267), and every notification starts the debounce again (commitView.ts:131): a list is
  as late as notifications keep coming.

## 6. What is not modelled

Argument parsing and validation, credential redaction and error texts, commit walks, diffs and blobs
(the work of gitoxide), widths, badges and rendering, protocol types, packaging: no state, or none that
depends on order. The audit log is written and never read. The lanes in the redb cache are not read back;
only its file lock matters and is in Server. The worktree half of the watcher says only that something
changed. Not yet modelled although they have state: the opening and tracking of merge editors and
showConflicts, the slots that park context targets, the forwarding of notifications.

## 7. What comes next

Of the properties that runs check, only liveness is without a theorem (section 4). What is left:

1. *Merge editor*: opening, tracking and closing of editors beside refreshes of the conflict list.
2. *Context targets* (`contextTargetSlot.ts`): one slot, filled by a webview's message, emptied by a command.
3. *Notifications in Server*: forwarding, a session replaced meanwhile.
4. *Details and badges* of the graph: answers for a selection that has moved on.
5. *Proofs of what survives more faults.* `EngineIsAStack` and the two theorems beside it allow
   crashes and conflicting commands. Failing file writes alone should leave OnlyAskedIsUndone true where
   no restore fails; the hypothesis would have to speak of restores and writes apart.
