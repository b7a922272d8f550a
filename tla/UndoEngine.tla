------------------------------ MODULE UndoEngine ------------------------------
(****************************************************************************)
(* The undo journal of crates/engine/src/undo.rs, driven by the single      *)
(* consumer of crates/engine/src/write_queue.rs.                            *)
(*                                                                          *)
(* A journaled write is begin (durable .pre) - git - commit (durable .post, *)
(* then one journal line).  An undo is check - durable marker - journal     *)
(* truncation - refs - index - HEAD - marker removal - pruning.  Opening    *)
(* the engine rolls a marked undo forward.  One action per step that can be *)
(* told apart by a crash, by another process writing the repository, or by  *)
(* a failing system call.                                                   *)
(****************************************************************************)
EXTENDS Naturals, FiniteSets

CONSTANTS
    Branches,   \* local branch names
    Shas,       \* commits
    Trees,      \* index contents, as git write-tree names them
    Stashes,    \* targets of refs/stash
    None,       \* absent: a ref, a stash, an unmerged index, a file
    Torn,       \* a file whose write was cut short
    MaxTx,      \* bound: transaction ids are 1..MaxTx
    Commands,   \* the write commands clients send
    Faults      \* what the environment does, see FaultKinds

(* "crash":    the process dies between two steps or inside a file write;   *)
(* "tail":     it dies inside a journal line, or before its newline;        *)
(* "external": another process writes the repository;                       *)
(* "git":      a git subprocess of a restore fails;                         *)
(* "io":       a write, rename or unlink under .git/bamboo/undo fails;      *)
(* "conflict": a git write fails after it has changed the repository.       *)
FaultKinds == {"crash", "tail", "external", "git", "io", "conflict"}

CommandKinds ==
    {"stage", "commit", "create", "delete", "switch", "pull", "push", "stash"}

ASSUME MaxTxAssumption == MaxTx \in Nat
ASSUME KindAssumption == Faults \subseteq FaultKinds /\ Commands \subseteq CommandKinds

Ids == 1..MaxTx

(* What a Snapshot captures: HEAD, refs/heads, refs/stash, the index tree.  *)
Repos == [head  : Branches \cup Shas,
          refs  : [Branches -> Shas \cup {None}],
          stash : Stashes \cup {None},
          index : Trees \cup {None}]

Entries == [id : Ids, success : BOOLEAN]
Marks   == [id : Ids, snapshot : Repos]
Jobs    == [id : Ids, success : BOOLEAN, snapshot : Repos]

(* A detached HEAD is told from a checked-out branch, and a file that is    *)
(* not there or that does not parse from one that does.                     *)
ASSUME SentinelAssumption ==
    /\ None \notin Shas \cup Trees \cup Stashes
    /\ Branches \cap Shas = {}
    /\ None # Torn /\ \A f \in {None, Torn} : f \notin Repos /\ f \notin Marks

VARIABLES
    repo,      \* the repository, as far as a snapshot sees it
    journal,   \* the lines of journal.jsonl that parse
    tail,      \* how journal.jsonl ends: "clean", "open" or "torn"
    pre, post, \* the snapshot files N.pre and N.post
    marker,    \* undo-in-progress.json
    nextId,    \* UndoEngine::next_id
    pc,        \* where the queue's consumer is
    mode,      \* who runs restore_snapshot: "undo" or "recover"
    job,       \* the transaction in hand
    seen,      \* the refs restore_snapshot read for its old-value guards
    reply,     \* the answer to the last request
    asked      \* history: ids some accepted undo request covered

disk == <<journal, tail, pre, post, marker>>
mem  == <<nextId, mode, job, seen>>
vars == <<repo, disk, mem, pc, reply, asked>>

Phases == {"down", "opening", "idle", "begun", "ran", "posted", "appended",
           "checked", "marked", "cut", "restoring", "refsDone", "indexDone",
           "restored"}

(* What the files of the journal and the queue's memory can hold.           *)
TypeOK ==
    /\ repo \in Repos
    /\ journal \in SUBSET Entries
    /\ tail \in {"clean", "open", "torn"}
    /\ pre \in [Ids -> Repos \cup {None, Torn}]
    /\ post \in [Ids -> Repos \cup {None, Torn}]
    /\ marker \in Marks \cup {None, Torn}
    /\ nextId \in 1..(MaxTx + 1)
    /\ pc \in Phases
    /\ mode \in {"undo", "recover"}
    /\ job \in Jobs \cup {None}
    /\ seen \in [Branches -> Shas \cup {None}] \cup {None}
    /\ reply \in {"none", "ok", "err", "done", "restored", "noop", "blocked",
                  "notfound", "failed"}
    /\ asked \in SUBSET Ids

-----------------------------------------------------------------------------
(* The git commands, by what they do to the snapshotted state.              *)

Existing(r) == {b \in Branches : r.refs[b] # None}

(* A new commit moves the checked-out branch, or HEAD itself when detached. *)
Advance(r, s) ==
    IF r.head \in Branches THEN [r EXCEPT !.refs[r.head] = s]
                           ELSE [r EXCEPT !.head = s]

(* HEAD and the index after a checkout; the stash and the index after a     *)
(* stash command.                                                           *)
CheckOut(r, h, t) == [r EXCEPT !.head = h, !.index = t]
StashTo(r, x, t)  == [r EXCEPT !.stash = x, !.index = t]

Succeeds(c, r) ==
    CASE c = "stage"  -> {[r EXCEPT !.index = t] : t \in Trees}
      [] c = "commit" -> {q \in {Advance(r, s) : s \in Shas} : r.index # None}
      [] c = "create" -> {[r EXCEPT !.refs[b] = s] :
                             b \in Branches \ Existing(r), s \in Shas}
      [] c = "delete" -> {[r EXCEPT !.refs[b] = None] :
                             b \in Existing(r) \ {r.head}}
      [] c = "switch" -> {q \in {CheckOut(r, b, t) : b \in Existing(r), t \in Trees} :
                             r.index # None}
      [] c = "pull"   -> {q \in {[Advance(r, s) EXCEPT !.index = t] :
                                    s \in Shas, t \in Trees} : r.index # None}
      [] c = "push"   -> {r}
      [] c = "stash"  -> {StashTo(r, x, t) : x \in Stashes \cup {None}, t \in Trees}

(* A merge or a rebase that stopped at a conflict.                          *)
Halted(r) == {CheckOut(r, h, None) : h \in Shas \cup {r.head}}

(* An auto-stash whose pop was refused, or met a conflict: its entry stays. *)
Stashed(r)  == {[r EXCEPT !.index = t] : t \in Trees}
Stranded(Q) == UNION {{StashTo(q, x, t) : x \in Stashes, t \in {q.index, None}} : q \in Q}

(* A failed command usually changes nothing; a conflicting pull, rebase or  *)
(* stash pop leaves its traces behind, and so does the pop of an auto-stash *)
(* after a switch or a pull, be it that these succeeded or not.             *)
Conflicted(c, r) ==
    CASE c = "pull"   -> {q \in Halted(r) \cup Stranded(Stashed(r) \cup Succeeds(c, r) \cup Halted(r)) :
                             r.index # None}
      [] c = "switch" -> {q \in Stranded(Stashed(r) \cup Succeeds(c, r)) : r.index # None}
      [] c = "stash"  -> {StashTo(r, r.stash, None)}
      [] OTHER        -> {}

Fails(c, r) == {r} \cup {q \in Conflicted(c, r) : "conflict" \in Faults}

-----------------------------------------------------------------------------
(* The files under .git/bamboo/undo.                                        *)

JournalIds == {e.id : e \in journal}
Newest(e) == e \in journal /\ \A f \in journal : f.id <= e.id
Marked == marker \in Marks
UsedIds == JournalIds \cup {i \in Ids : pre[i] # None \/ post[i] # None}

(* Mutant: the transaction being undone stays in the journal.               *)
TruncateJournalAfter(id) ==
    /\ journal' = {e \in journal : e.id <= id}
    /\ tail' = "clean"

(* truncate_journal_at: temp file, fsync, rename.                           *)
TruncateJournal(id) ==
    /\ journal' = {e \in journal : e.id < id}
    /\ tail' = "clean"

(* What appending a line leaves parseable.  A line after an unterminated    *)
(* one joins it, and read_journal skips the joined line.                    *)
JournalWith(e) ==
    CASE tail = "clean" -> journal \cup {e}
      [] tail = "open"  -> {f \in journal : ~Newest(f)}
      [] tail = "torn"  -> journal

(* Mutant: the transaction before the undone one loses its files as well.   *)
PruneOneMore(files, id) == [i \in Ids |-> IF i + 1 >= id THEN None ELSE files[i]]

PruneSnapshots(files, id) == [i \in Ids |-> IF i >= id THEN None ELSE files[i]]

Init ==
    /\ \E b \in Branches, s \in Shas, t \in Trees :
         repo = [head |-> b, refs |-> [c \in Branches |-> IF c = b THEN s ELSE None],
                 stash |-> None, index |-> t]
    /\ journal = {} /\ tail = "clean"
    /\ pre = [i \in Ids |-> None] /\ post = [i \in Ids |-> None]
    /\ marker = None
    /\ nextId = 1
    /\ pc = "down" /\ mode = "undo" /\ job = None /\ seen = None
    /\ reply = "none" /\ asked = {}

-----------------------------------------------------------------------------
(* Opening: UndoEngine::new and recover.                                    *)

(* Mutant: next_id is the highest id on disk, not one past it.              *)
NextFreeNoIncrement(n) == n \in 0..MaxTx /\ (\A i \in UsedIds : i <= n) /\
                          (n = 0 \/ n \in UsedIds)

(* Mutant: only the journal is scanned, not the snapshot files.             *)
NextFreeJournalOnly(n) == n \in 1..(MaxTx + 1) /\ (\A i \in JournalIds : i < n) /\
                          (n = 1 \/ (n - 1) \in JournalIds)

(* One past the highest id in the journal or among the snapshot files.      *)
NextFree(n) ==
    /\ n \in 1..(MaxTx + 1)
    /\ \A i \in UsedIds : i < n
    /\ n = 1 \/ (n - 1) \in UsedIds

Open ==
    /\ pc = "down"
    /\ \E n \in 0..(MaxTx + 1) : NextFree(n) /\ nextId' = n
    /\ pc' = "opening"
    /\ UNCHANGED <<repo, disk, mode, job, seen, reply, asked>>

(* Nothing to recover, or a marker that does not parse: new() only warns.   *)
RecoverNothing ==
    /\ pc = "opening" /\ ~Marked
    /\ pc' = "idle"
    /\ UNCHANGED <<repo, disk, mem, reply, asked>>

(* Mutant: the crash of an undo is forgotten instead of rolled forward.     *)
RecoverDropsMarker ==
    /\ pc = "opening" /\ Marked
    /\ marker' = None /\ pc' = "idle"
    /\ UNCHANGED <<repo, journal, tail, pre, post, mem, reply, asked>>

RecoverUndo ==
    /\ pc = "opening" /\ Marked
    /\ TruncateJournal(marker.id)
    /\ job' = [id |-> marker.id, success |-> TRUE, snapshot |-> marker.snapshot]
    /\ mode' = "recover" /\ pc' = "cut"
    /\ UNCHANGED <<repo, pre, post, marker, nextId, seen, reply, asked>>

RecoverFails ==
    /\ "io" \in Faults
    /\ pc = "opening" /\ Marked
    /\ pc' = "idle"
    /\ UNCHANGED <<repo, disk, mem, reply, asked>>

-----------------------------------------------------------------------------
(* A journaled write: run_write, with begin and commit of the engine.       *)

Begin ==
    /\ pc = "idle" /\ nextId <= MaxTx
    /\ pre' = [pre EXCEPT ![nextId] = repo]
    /\ job' = [id |-> nextId, success |-> FALSE, snapshot |-> repo]
    /\ nextId' = nextId + 1
    /\ asked' = asked \ {nextId}
    /\ pc' = "begun" /\ reply' = "none"
    /\ UNCHANGED <<repo, journal, tail, post, marker, mode, seen>>

BeginFails ==
    /\ "io" \in Faults
    /\ pc = "idle" /\ nextId <= MaxTx
    /\ \E f \in {None, Torn} : pre' = [pre EXCEPT ![nextId] = f]
    /\ nextId' = nextId + 1
    /\ reply' = "err"
    /\ UNCHANGED <<repo, journal, tail, post, marker, mode, job, seen, pc, asked>>

RunGit ==
    /\ pc = "begun"
    /\ \E c \in Commands :
         \/ /\ repo' \in Succeeds(c, repo)
            /\ job' = [job EXCEPT !.success = TRUE]
         \/ /\ repo' \in Fails(c, repo)
            /\ job' = job
    /\ pc' = "ran"
    /\ UNCHANGED <<disk, nextId, mode, seen, reply, asked>>

WritePost ==
    /\ pc = "ran"
    /\ post' = [post EXCEPT ![job.id] = repo]
    /\ pc' = "posted"
    /\ UNCHANGED <<repo, journal, tail, pre, marker, mem, reply, asked>>

AppendLine ==
    /\ pc = "posted"
    /\ journal' = JournalWith([id |-> job.id, success |-> job.success])
    /\ tail' = IF tail = "clean" THEN "open" ELSE "torn"
    /\ pc' = "appended"
    /\ UNCHANGED <<repo, pre, post, marker, mem, reply, asked>>

AppendNewline ==
    /\ pc = "appended"
    /\ tail' = "clean"
    /\ pc' = "idle"
    /\ reply' = IF job.success THEN "ok" ELSE "err"
    /\ UNCHANGED <<repo, journal, pre, post, marker, mem, asked>>

(* commit returns an error, and run_write never answers Ok after one.       *)
CommitFails ==
    /\ "io" \in Faults
    /\ pc \in {"ran", "posted", "appended"}
    /\ IF pc = "ran"
       THEN \E f \in {None, Torn} : post' = [post EXCEPT ![job.id] = f]
       ELSE post' = post
    /\ tail' \in IF pc = "appended" THEN {tail, "clean"} ELSE {tail}
    /\ pc' = "idle" /\ reply' = "err"
    /\ UNCHANGED <<repo, journal, pre, marker, mem, asked>>

(* ResolveConflict runs on the queue but is not journaled.                  *)
ResolveConflict ==
    /\ pc = "idle" /\ repo.index = None
    /\ \E t \in Trees : repo' = [repo EXCEPT !.index = t]
    /\ reply' = "done"
    /\ UNCHANGED <<disk, mem, pc, asked>>

-----------------------------------------------------------------------------
(* Undo.                                                                    *)

UndoNotFound(id) ==
    /\ pc = "idle" /\ id \notin JournalIds
    /\ reply' = "notfound"
    /\ UNCHANGED <<repo, disk, mem, pc, asked>>

(* The journaled ids an undo of id rolls back.                              *)
Covered(id) == {i \in JournalIds : i >= id}

UndoNoop(id) ==
    /\ pc = "idle"
    /\ \E e \in journal : e.id = id /\ ~e.success
    /\ TruncateJournal(id)
    /\ job' = [id |-> id, success |-> FALSE, snapshot |-> repo]
    /\ reply' = "noop"
    /\ asked' = asked \cup Covered(id)
    /\ UNCHANGED <<repo, pre, post, marker, nextId, mode, seen, pc>>

UndoNoopFails(id) ==
    /\ "io" \in Faults
    /\ pc = "idle"
    /\ \E e \in journal : e.id = id /\ ~e.success
    /\ reply' = "failed"
    /\ UNCHANGED <<repo, disk, mem, pc, asked>>

(* The repository is still what the newest journaled write left.            *)
MatchesNewest == \E e \in journal : Newest(e) /\ repo = post[e.id]

UndoBlocked(id) ==
    /\ pc = "idle"
    /\ \E e \in journal : e.id = id /\ e.success
    /\ ~MatchesNewest
    /\ reply' = "blocked"
    /\ UNCHANGED <<repo, disk, mem, pc, asked>>

UndoAccepted(id) ==
    /\ pc = "idle"
    /\ \E e \in journal : e.id = id /\ e.success
    /\ MatchesNewest
    /\ pre[id] \in Repos
    /\ job' = [id |-> id, success |-> TRUE, snapshot |-> pre[id]]
    /\ mode' = "undo"
    /\ asked' = asked \cup Covered(id)
    /\ pc' = "checked" /\ reply' = "none"
    /\ UNCHANGED <<repo, disk, nextId, seen>>

MarkOf(j) == [id |-> j.id, snapshot |-> j.snapshot]

WriteMarker ==
    /\ pc = "checked"
    /\ marker' = MarkOf(job)
    /\ pc' = "marked"
    /\ UNCHANGED <<repo, journal, tail, pre, post, mem, reply, asked>>

CutJournal ==
    /\ pc = "marked"
    /\ TruncateJournal(job.id)
    /\ pc' = "cut"
    /\ UNCHANGED <<repo, pre, post, marker, mem, reply, asked>>

(* An error before the restore: whatever of the marker was written stays.   *)
UndoFails ==
    /\ "io" \in Faults
    /\ \/ pc = "checked" /\ marker' \in {marker, Torn, MarkOf(job)}
       \/ pc = "marked" /\ marker' = marker
    /\ pc' = "idle" /\ reply' = "failed"
    /\ UNCHANGED <<repo, journal, tail, pre, post, mem, asked>>

-----------------------------------------------------------------------------
(* restore_snapshot, run by undo and by recover.                            *)

ReadCurrent ==
    /\ pc = "cut"
    /\ seen' = repo.refs
    /\ pc' = "restoring"
    /\ UNCHANGED <<repo, disk, nextId, mode, job, reply, asked>>

(* The branches update-ref --stdin names: wanted, or seen and unwanted.     *)
Batch == {b \in Branches : job.snapshot.refs[b] # None \/ seen[b] # None}
Drifted == \E b \in Batch : repo.refs[b] # seen[b]

(* Mutant: branches the snapshot does not have are left in place.           *)
RestoredRefsNoDelete ==
    [b \in Branches |-> IF job.snapshot.refs[b] # None THEN job.snapshot.refs[b]
                                                       ELSE repo.refs[b]]

RestoredRefs ==
    [b \in Branches |-> IF b \in Batch THEN job.snapshot.refs[b] ELSE repo.refs[b]]

RestoreRefs ==
    /\ pc = "restoring" /\ ~Drifted
    /\ repo' = [repo EXCEPT !.refs = RestoredRefs]
    /\ pc' = "refsDone"
    /\ UNCHANGED <<disk, mem, reply, asked>>

(* git read-tree; an unmerged snapshot has no tree, a failure is a warning. *)
RestoreIndex ==
    /\ pc = "refsDone"
    /\ \/ /\ job.snapshot.index # None
          /\ repo' = [repo EXCEPT !.index = job.snapshot.index]
       \/ /\ job.snapshot.index = None \/ "git" \in Faults
          /\ repo' = repo
    /\ pc' = "indexDone"
    /\ UNCHANGED <<disk, mem, reply, asked>>

(* Mutant: HEAD is left where it is.                                        *)
RestoreHeadSkipped ==
    /\ pc = "indexDone"
    /\ pc' = "restored"
    /\ UNCHANGED <<repo, disk, mem, reply, asked>>

RestoreHead ==
    /\ pc = "indexDone"
    /\ repo' = [repo EXCEPT !.head = job.snapshot.head]
    /\ pc' = "restored"
    /\ UNCHANGED <<disk, mem, reply, asked>>

(* Mutant: the marker outlives the undo it describes.                       *)
FinishKeepsMarker ==
    /\ pc = "restored"
    /\ pc' = "idle" /\ reply' = IF mode = "undo" THEN "restored" ELSE "none"
    /\ UNCHANGED <<repo, disk, mem, asked>>

Finish ==
    /\ pc = "restored"
    /\ marker' = None
    /\ IF mode = "undo"
       THEN /\ pre' = PruneSnapshots(pre, job.id)
            /\ post' = PruneSnapshots(post, job.id)
            /\ reply' = "restored"
       ELSE UNCHANGED <<pre, post, reply>>
    /\ pc' = "idle"
    /\ UNCHANGED <<repo, journal, tail, mem, asked>>

(* A failed restore: undo keeps the marker and reports the error; recover   *)
(* warns and removes the marker all the same.                               *)
RestoreFails ==
    /\ \/ "git" \in Faults /\ pc \in {"cut", "restoring", "indexDone"}
       \/ pc = "restoring" /\ Drifted
    /\ IF mode = "undo"
       THEN reply' = "failed" /\ marker' = marker
       ELSE reply' = reply /\ marker' = None
    /\ pc' = "idle"
    /\ UNCHANGED <<repo, journal, tail, pre, post, mem, asked>>

(* The marker cannot be removed once everything is restored.                *)
FinishFails ==
    /\ "io" \in Faults
    /\ pc = "restored"
    /\ reply' = IF mode = "undo" THEN "failed" ELSE reply
    /\ pc' = "idle"
    /\ UNCHANGED <<repo, disk, mem, asked>>

-----------------------------------------------------------------------------
(* The environment.                                                         *)

GoDown ==
    /\ pc' = "down" /\ reply' = "none"
    /\ mode' = "undo" /\ job' = None /\ seen' = None
    /\ UNCHANGED <<repo, nextId, asked>>

(* The session is replaced or the engine shut down between two commands.    *)
Close ==
    /\ pc = "idle"
    /\ GoDown
    /\ UNCHANGED disk

(* The process dies; a file it was writing is cut short.                    *)
Crash ==
    /\ pc # "down" /\ pc # "appended"
    /\ "crash" \in Faults
    /\ GoDown
    /\ UNCHANGED <<journal, tail>>
    /\ \/ UNCHANGED <<pre, post, marker>>
       \/ /\ pc = "idle" /\ nextId <= MaxTx
          /\ pre' = [pre EXCEPT ![nextId] = Torn]
          /\ UNCHANGED <<post, marker>>
       \/ /\ pc = "ran"
          /\ post' = [post EXCEPT ![job.id] = Torn]
          /\ UNCHANGED <<pre, marker>>
       \/ /\ pc = "checked"
          /\ marker' = Torn
          /\ UNCHANGED <<pre, post>>
       \/ /\ pc = "restored"
          /\ marker' = None
          /\ UNCHANGED <<pre, post>>

(* It dies while it appends to journal.jsonl: half a line, which joins an   *)
(* unterminated one before it, or a whole line without its newline.         *)
CrashInLine ==
    /\ "tail" \in Faults
    /\ \/ /\ pc = "posted"
          /\ journal' = IF tail = "open" THEN {e \in journal : ~Newest(e)} ELSE journal
          /\ tail' = "torn"
       \/ /\ pc = "appended"
          /\ UNCHANGED <<journal, tail>>
    /\ GoDown
    /\ UNCHANGED <<pre, post, marker>>

(* Another git process, at any moment.                                      *)
External ==
    /\ "external" \in Faults
    /\ \E c \in Commands : repo' \in Succeeds(c, repo) \cup Conflicted(c, repo)
    /\ UNCHANGED <<disk, mem, pc, reply, asked>>

Requests ==
    \/ Begin \/ BeginFails \/ ResolveConflict
    \/ \E id \in Ids : \/ UndoNotFound(id) \/ UndoNoop(id) \/ UndoNoopFails(id)
                       \/ UndoBlocked(id) \/ UndoAccepted(id)

(* What the consumer does next once it has taken a command or is opening.   *)
Proceed ==
    \/ RecoverNothing \/ RecoverUndo \/ RecoverFails
    \/ RunGit \/ WritePost \/ AppendLine \/ AppendNewline \/ CommitFails
    \/ WriteMarker \/ CutJournal \/ UndoFails
    \/ ReadCurrent \/ RestoreRefs \/ RestoreIndex \/ RestoreHead \/ Finish
    \/ RestoreFails \/ FinishFails

Next == Open \/ Requests \/ Proceed \/ Close \/ Crash \/ CrashInLine \/ External

Spec == Init /\ [][Next]_vars

(* run_undo and run_write run to completion once started, and Session::open *)
(* runs recover before it returns; nobody is obliged to send requests.      *)
FairSpec == Spec /\ WF_vars(Proceed)

-----------------------------------------------------------------------------
(* Properties.                                                              *)

(* A journaled entry always has both snapshot files whole on disk, whatever *)
(* crashes, write failures and recoveries came before (commit, undo.rs).    *)
JournaledSnapshots ==
    \A e \in journal : pre[e.id] \in Repos /\ post[e.id] \in Repos

(* No transaction in the journal or on disk will be handed out again: a new *)
(* begin never overwrites a snapshot an entry or a crashed write left.      *)
FreshIds == pc # "down" => \A i \in UsedIds : i < nextId

(* Once the journal is truncated, and until the restore ends, the marker on *)
(* disk describes exactly the restore in hand, and the journal holds        *)
(* nothing that restore takes back: a crash anywhere in between can be      *)
(* rolled forward.                                                          *)
RestoreIsMarked ==
    pc \in {"cut", "restoring", "refsDone", "indexDone", "restored"} =>
        /\ marker = MarkOf(job)
        /\ \A e \in journal : e.id < job.id

(* An undo that answered "restored" left HEAD, every branch and a mergeable *)
(* index as they were before the undone write; and however an undo ended,   *)
(* HEAD does not rest on a branch that does not exist, unless the undo is   *)
(* still to be rolled forward.                                              *)
RestoredIsPreState ==
    /\ pc = "idle" /\ reply = "restored" =>
         /\ repo.head = job.snapshot.head
         /\ repo.refs = job.snapshot.refs
         /\ job.snapshot.index # None => repo.index = job.snapshot.index
    /\ pc = "idle" /\ ~Marked /\ repo.head \in Branches => repo.refs[repo.head] # None

(* A transaction leaves the journal only if the user asked for an undo that *)
(* covered it, or as the newest one, when a crash had taken its newline and *)
(* the next write is appended to its line.                                  *)
OnlyAskedIsUndone ==
    [][\A e \in journal \ journal' :
          e.id \in asked' \/ (pc = "posted" /\ tail = "open" /\ Newest(e))]_<<journal, asked>>

(* A marked undo ends, in this process or in one that opens the engine      *)
(* after a crash, with the marker gone.                                     *)
MarkedUndoEnds == (Marked /\ pc # "down") ~> (marker = None \/ pc = "down")

-----------------------------------------------------------------------------
(* The engine implements an atomic undo stack.  An undo takes effect when   *)
(* its marker is on disk, a write when its line is in the journal.          *)

Visible(r) == [head |-> r.head, refs |-> r.refs]

StackValue ==
    CASE Marked -> Visible(marker.snapshot)
      [] ~Marked /\ pc \in {"begun", "ran", "posted"} -> Visible(job.snapshot)
      [] OTHER -> Visible(repo)

StackEntries ==
    {[id |-> e.id, success |-> e.success,
      before |-> Visible(pre[e.id]), after |-> Visible(post[e.id])] :
        e \in {f \in journal : Marked => f.id < marker.id}}

(* The newest entry's line is unterminated, and not about to be cut away.   *)
StackFrayed == tail = "open" /\ pc # "appended" /\ ~Marked

Stack == INSTANCE UndoStack WITH
            Values <- [head : Branches \cup Shas, refs : [Branches -> Shas \cup {None}]],
            value <- StackValue, stack <- StackEntries, frayed <- StackFrayed

ImplementsUndoStack == Stack!Spec

-----------------------------------------------------------------------------
(* What comments in the code say and the code does not do.                  *)

(* run_write: a write that is not undoable is never reported as a plain     *)
(* success.  False after a crash inside a line of the journal (README,      *)
(* known limits).                                                           *)
OkIsUndoable == pc = "idle" /\ reply = "ok" => job.id \in JournalIds

(* undo.rs, undo of a failed transaction: just pop it from the stack.       *)
NoopPopsOne ==
    [][reply' = "noop" /\ journal' # journal =>
          \A e \in journal \ journal' : e.id = job'.id]_<<journal, reply, job>>

=============================================================================
