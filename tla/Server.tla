-------------------------------- MODULE Server --------------------------------
(****************************************************************************)
(* Requests and sessions: the serve loop, the session slot and the handlers *)
(* of crates/engine/src/server.rs, the opening of a session behind the      *)
(* cache's exclusive file lock (session.rs, cache.rs), the write queue's    *)
(* hand-over (write_queue.rs), and the client end of the same pipes,        *)
(* editors/vscode/src/engineClient.ts.  What a read or a write does to the  *)
(* repository is left to the other modules.  Every initialize names the     *)
(* same repository, so that all sessions open the same cache.               *)
(****************************************************************************)
EXTENDS Naturals, Sequences, FiniteSets, SequencesExt

CONSTANTS
    MaxRequests,  \* bound: request ids are 1..MaxRequests
    Faults        \* what goes wrong, see FaultKinds

(* "refuse":  initialize is given a path that is no repository;             *)
(* "open":    opening a session fails;                                      *)
(* "signal":  the engine gets a SIGINT;                                     *)
(* "die":     the engine dies;                                              *)
(* "frame":   a write is larger than a frame may be, or breaks off;         *)
(* "orphan":  the extension host dies.                                      *)
FaultKinds == {"refuse", "open", "signal", "die", "frame", "orphan"}

ASSUME RequestsAssumption == MaxRequests \in Nat
ASSUME FaultsAssumption == Faults \subseteq FaultKinds

Ids == 1..MaxRequests
Kinds == {"initialize", "read", "write", "shutdown"}
Sessions == Ids    \* a session is named after the initialize that opened it
(* "ok" is the answer of a request that was executed, git's errors included.*)
Answers == {"ok", "error", "uninit"}

VARIABLES
    \* the client
    kind,      \* what was requested
    call,      \* the promise of a request
    disposing, \* dispose() has not begun, waits, is through; or the client crashed
    timer,     \* shutdownTimer runs
    noticed,   \* the 'exit' event was delivered
    \* the pipes
    stdin, stdout,
    \* the server
    reading,   \* the task that reads stdin has not ended
    loop,      \* run(): it serves, joins the handlers, stops the writer, has
               \* returned; the process is gone
    stopping,  \* a message is in shutdown_rx
    slot,      \* BambooServer::session, or 0
    ready,     \* session_ready
    task,      \* how far the handler of a request is
    holds,     \* the session a handler has an Arc of, or 0
    queue,     \* the commands in a session's write queue
    consumer,  \* the command its consumer executes, or 0
    out,       \* the writer's channel
    ran        \* history: how often a request was executed

client  == <<kind, call, disposing, timer, noticed>>
session == <<slot, ready, queue, consumer>>
vars == <<client, stdin, stdout, reading, loop, stopping, session, task, holds, out, ran>>

(* An Arc of the session is in the slot, in a handler, or with its consumer *)
(* for the length of a command; with the last one its cache is closed.      *)
Alive(s) == slot = s \/ consumer[s] # 0 \/ \E i \in Ids : holds[i] = s

Settled == {"ok", "error", "uninit", "timeout", "lost"}

(* A handler has a session exactly while it works with one.                 *)
TypeOK ==
    /\ kind \in [Ids -> Kinds \cup {"none"}]
    /\ call \in [Ids -> {"unsent", "pending"} \cup Settled]
    /\ disposing \in {"no", "asked", "done", "crashed"} /\ timer \in BOOLEAN /\ noticed \in BOOLEAN
    /\ stdin \in Seq(Ids) /\ stdout \in Seq(Ids \X Answers) /\ out \in Seq(Ids \X Answers)
    /\ loop \in {"serving", "joining", "stopping", "stopped", "gone"}
    /\ reading \in BOOLEAN /\ stopping \in BOOLEAN
    /\ slot \in Sessions \cup {0} /\ ready \in BOOLEAN
    /\ task \in [Ids -> {"none", "begun", "waiting", "locking", "opened", "published",
                         "running", "queued", "replied", "answered"}]
    /\ holds \in [Ids -> Sessions \cup {0}]
    /\ \A i \in Ids : holds[i] # 0 <=> task[i] \in {"opened", "published", "running",
                                                    "queued", "replied"}
    /\ queue \in [Sessions -> Seq(Ids)] /\ consumer \in [Sessions -> Ids \cup {0}]
    /\ ran \in [Ids -> Nat]

Init ==
    /\ kind = [i \in Ids |-> "none"] /\ call = [i \in Ids |-> "unsent"]
    /\ disposing = "no" /\ timer = FALSE /\ noticed = FALSE
    /\ stdin = <<>> /\ stdout = <<>> /\ out = <<>>
    /\ loop = "serving" /\ reading = TRUE /\ stopping = FALSE
    /\ slot = 0 /\ ready = FALSE
    /\ task = [i \in Ids |-> "none"] /\ holds = [i \in Ids |-> 0]
    /\ queue = [s \in Sessions |-> <<>>] /\ consumer = [s \in Sessions |-> 0]
    /\ ran = [i \in Ids |-> 0]

-----------------------------------------------------------------------------
(* The client, class EngineClient.                                          *)

IsNext(i) == call[i] = "unsent" /\ \A j \in 1..(i - 1) : call[j] # "unsent"

Send(i, k) ==
    /\ IsNext(i)
    /\ kind' = [kind EXCEPT ![i] = k]
    /\ call' = [call EXCEPT ![i] = "pending"]
    /\ stdin' = IF loop = "gone" THEN stdin ELSE Append(stdin, i)

Request(i, k) ==
    /\ disposing = "no" /\ ~noticed /\ k # "shutdown"
    /\ Send(i, k)
    /\ UNCHANGED <<disposing, timer, noticed, stdout, reading, loop, stopping, session, task, holds,
                   out, ran>>

(* Reads are requested with a timeout, writes and initialize are not.       *)
TimesOut(i) ==
    /\ disposing # "crashed" /\ call[i] = "pending" /\ kind[i] = "read"
    /\ call' = [call EXCEPT ![i] = "timeout"]
    /\ UNCHANGED <<kind, disposing, timer, noticed, stdin, stdout, reading, loop, stopping, session,
                   task, holds, out, ran>>

(* handleMessage: an answer nobody waits for any more is dropped.           *)
Receive ==
    /\ disposing # "crashed" /\ stdout # <<>>
    /\ stdout' = Tail(stdout)
    /\ LET i == Head(stdout)[1] IN
       call' = IF call[i] = "pending" THEN [call EXCEPT ![i] = Head(stdout)[2]] ELSE call
    /\ UNCHANGED <<kind, disposing, timer, noticed, stdin, reading, loop, stopping, session, task,
                   holds, out, ran>>

RejectAllPending == call' = [i \in Ids |-> IF call[i] = "pending" THEN "lost" ELSE call[i]]

(* Mutant: the exit handler does not reject what is pending.                *)
ExitedQuietly ==
    /\ disposing # "crashed" /\ loop = "gone" /\ ~noticed
    /\ noticed' = TRUE /\ timer' = FALSE
    /\ UNCHANGED <<kind, call, disposing, stdin, stdout, reading, loop, stopping, session, task,
                   holds, out, ran>>

(* The 'exit' event: during dispose() it only stops the shutdown timer.     *)
Exited ==
    /\ disposing # "crashed" /\ loop = "gone" /\ ~noticed
    /\ noticed' = TRUE /\ timer' = FALSE
    /\ IF disposing = "no" THEN RejectAllPending ELSE call' = call
    /\ UNCHANGED <<kind, disposing, stdin, stdout, reading, loop, stopping, session, task, holds,
                   out, ran>>

(* dispose: a shutdown request, awaited for two seconds, then kill.         *)
Dispose ==
    /\ disposing = "no"
    /\ \E i \in Ids : Send(i, "shutdown")
    /\ disposing' = "asked" /\ timer' = TRUE
    /\ UNCHANGED <<noticed, stdout, reading, loop, stopping, session, task, holds, out, ran>>

DisposeEnds ==
    /\ disposing = "asked"
    /\ timer \/ \E i \in Ids : kind[i] = "shutdown" /\ call[i] # "pending"
    /\ disposing' = "done" /\ timer' = FALSE
    /\ RejectAllPending /\ loop' = "gone"
    /\ UNCHANGED <<kind, noticed, stdin, stdout, reading, stopping, session, task, holds, out,
                   ran>>

(* The client's process dies, all promises with it, and its ends of the     *)
(* pipes are closed.                                                        *)
HostDies ==
    /\ "orphan" \in Faults /\ disposing # "crashed" /\ loop # "gone"
    /\ disposing' = "crashed" /\ stdout' = <<>>
    /\ RejectAllPending /\ timer' = FALSE
    /\ UNCHANGED <<kind, noticed, stdin, reading, loop, stopping, session, task, holds, out,
                   ran>>

-----------------------------------------------------------------------------
(* The reader, the serve loop and the writer.                               *)

Accept ==
    /\ loop = "serving" /\ reading /\ stdin # <<>>
    /\ stdin' = Tail(stdin)
    /\ task' = [task EXCEPT ![Head(stdin)] = "begun"]
    /\ UNCHANGED <<client, stdout, reading, loop, stopping, session, holds, out, ran>>

(* Out of the loop run() takes no more messages: what is read is lost.      *)
Swallow ==
    /\ loop \in {"joining", "stopping"} /\ reading /\ stdin # <<>>
    /\ stdin' = Tail(stdin)
    /\ UNCHANGED <<client, stdout, reading, loop, stopping, session, task, holds, out, ran>>

(* The reader ends at the end of the input, or with a frame for which run() *)
(* is no longer there ...                                                   *)
ReaderEnds ==
    /\ reading /\ loop # "gone"
    /\ IF stdin = <<>> THEN disposing = "crashed" ELSE loop = "stopped"
    /\ reading' = FALSE
    /\ UNCHANGED <<client, stdin, stdout, loop, stopping, session, task, holds, out, ran>>

(* ... or with a frame that read_message refuses, which is answered without *)
(* an id: to the client, no answer.                                         *)
RefuseFrame ==
    /\ "frame" \in Faults /\ reading /\ loop # "gone"
    /\ stdin # <<>> /\ kind[Head(stdin)] = "write"
    /\ reading' = FALSE
    /\ UNCHANGED <<client, stdin, stdout, loop, stopping, session, task, holds, out, ran>>

(* Mutant: the waiters are not released.                                    *)
LeaveWaiting ==
    /\ loop = "serving" /\ loop' = "joining"
    /\ ready' = ready
    /\ UNCHANGED <<client, stdin, stdout, reading, stopping, slot, queue, consumer, task,
                   holds, out, ran>>

(* The loop is left for good, and who waits for a session is released.      *)
Leave ==
    /\ loop = "serving" /\ loop' = "joining"
    /\ ready' = TRUE
    /\ UNCHANGED <<client, stdin, stdout, reading, stopping, slot, queue, consumer, task,
                   holds, out, ran>>

(* It is left for a request for shutdown, or when the reader has ended.     *)
Stop == (stopping \/ ~reading) /\ Leave

(* Then the handlers are joined, and the writer is stopped.                 *)
Joined ==
    /\ loop = "joining" /\ \A i \in Ids : task[i] \in {"none", "answered"}
    /\ loop' = "stopping"
    /\ UNCHANGED <<client, stdin, stdout, reading, stopping, session, task, holds, out, ran>>

Write ==
    /\ loop \notin {"stopped", "gone"} /\ out # <<>>
    /\ stdout' = IF disposing = "crashed" THEN stdout ELSE Append(stdout, Head(out))
    /\ out' = Tail(out)
    /\ UNCHANGED <<client, stdin, reading, loop, stopping, session, task, holds, ran>>

(* The writer's select takes the stop signal whether or not frames wait.    *)
WriterStops ==
    /\ loop = "stopping"
    /\ loop' = "stopped"
    /\ UNCHANGED <<client, stdin, stdout, reading, stopping, session, task, holds, out, ran>>

(* main() returns, but the runtime it drops waits for the blocked reader.   *)
Exit ==
    /\ loop = "stopped" /\ ~reading
    /\ loop' = "gone"
    /\ UNCHANGED <<client, stdin, stdout, reading, stopping, session, task, holds, out, ran>>

Signal ==
    /\ "signal" \in Faults /\ loop = "serving" /\ ~stopping
    /\ stopping' = TRUE
    /\ UNCHANGED <<client, stdin, stdout, reading, loop, session, task, holds, out, ran>>

Die ==
    /\ "die" \in Faults /\ loop # "gone"
    /\ loop' = "gone"
    /\ UNCHANGED <<client, stdin, stdout, reading, stopping, session, task, holds, out, ran>>

(* parent_watch_loop, on Unix: exit without a word when the parent is gone. *)
ParentGone ==
    /\ loop # "gone" /\ disposing = "crashed"
    /\ loop' = "gone"
    /\ UNCHANGED <<client, stdin, stdout, reading, stopping, session, task, holds, out, ran>>

-----------------------------------------------------------------------------
(* The handlers.                                                            *)

At(i, stage) == loop # "gone" /\ task[i] = stage

(* Mutant: the session is still held by a handler that is done.             *)
AnswerKeepsSession(i, answer) ==
    /\ task' = [task EXCEPT ![i] = "answered"]
    /\ holds' = holds
    /\ out' = Append(out, <<i, answer>>)

(* The handler ends with an answer, and lets go of its session.             *)
Answer(i, answer) ==
    /\ task' = [task EXCEPT ![i] = "answered"]
    /\ holds' = [holds EXCEPT ![i] = 0]
    /\ out' = Append(out, <<i, answer>>)

Elsewhere == UNCHANGED <<client, stdin, stdout, reading, loop>>

HandleShutdown(i) ==
    /\ At(i, "begun") /\ kind[i] = "shutdown"
    /\ stopping' = TRUE
    /\ Answer(i, "ok")
    /\ UNCHANGED <<session, ran>> /\ Elsewhere

(* handle_initialize: it refuses at once, or empties the slot first ...     *)
InitializeRefused(i) ==
    /\ "refuse" \in Faults
    /\ At(i, "begun") /\ kind[i] = "initialize"
    /\ Answer(i, "error")
    /\ UNCHANGED <<stopping, session, ran>> /\ Elsewhere

EmptySlot(i) ==
    /\ At(i, "begun") /\ kind[i] = "initialize"
    /\ slot' = 0
    /\ task' = [task EXCEPT ![i] = "locking"]
    /\ UNCHANGED <<stopping, ready, queue, consumer, holds, out, ran>> /\ Elsewhere

(* Mutant: the undo journal is opened before the cache has its lock.        *)
OpenSessionUnlocked(i) ==
    /\ At(i, "locking")
    /\ holds' = [holds EXCEPT ![i] = i]
    /\ task' = [task EXCEPT ![i] = "opened"]
    /\ UNCHANGED <<stopping, slot, ready, queue, consumer, out, ran>> /\ Elsewhere

(* ... opens the cache, whose file only one session can have open, and then *)
(* the undo journal ...                                                     *)
OpenSession(i) ==
    /\ At(i, "locking") /\ \A s \in Sessions : ~Alive(s)
    /\ holds' = [holds EXCEPT ![i] = i]
    /\ task' = [task EXCEPT ![i] = "opened"]
    /\ UNCHANGED <<stopping, slot, ready, queue, consumer, out, ran>> /\ Elsewhere

(* ... which it gives up when the lock is not released in time ...          *)
OpenFails(i) ==
    /\ At(i, "locking") /\ ("open" \in Faults \/ \E s \in Sessions : Alive(s))
    /\ ready' = TRUE
    /\ Answer(i, "error")
    /\ UNCHANGED <<stopping, slot, queue, consumer, ran>> /\ Elsewhere

(* ... and puts the session into the slot before it releases the waiters.   *)
Publish(i) ==
    /\ At(i, "opened")
    /\ slot' = holds[i]
    /\ task' = [task EXCEPT ![i] = "published"]
    /\ UNCHANGED <<stopping, ready, queue, consumer, holds, out, ran>> /\ Elsewhere

Initialized(i) ==
    /\ At(i, "published")
    /\ ready' = TRUE /\ ran' = [ran EXCEPT ![i] = @ + 1]
    /\ Answer(i, "ok")
    /\ UNCHANGED <<stopping, slot, queue, consumer>> /\ Elsewhere

NeedsSession(i) == kind[i] \in {"read", "write"}

(* get_any_session: the session in the slot, or wait for the first one.     *)
TakeSession(i) ==
    /\ \/ At(i, "begun") /\ NeedsSession(i)
       \/ At(i, "waiting") /\ ready
    /\ slot # 0
    /\ holds' = [holds EXCEPT ![i] = slot]
    /\ task' = [task EXCEPT ![i] = "running"]
    /\ UNCHANGED <<stopping, session, out, ran>> /\ Elsewhere

(* Mutant: a request that finds no session is refused at once.              *)
AwaitSessionNot(i) ==
    /\ At(i, "begun") /\ NeedsSession(i) /\ slot = 0
    /\ Answer(i, "uninit")
    /\ UNCHANGED <<stopping, session, ran>> /\ Elsewhere

AwaitSession(i) ==
    /\ At(i, "begun") /\ NeedsSession(i) /\ slot = 0
    /\ task' = [task EXCEPT ![i] = "waiting"]
    /\ UNCHANGED <<stopping, session, holds, out, ran>> /\ Elsewhere

NotInitialized(i) ==
    /\ At(i, "waiting") /\ ready /\ slot = 0
    /\ Answer(i, "uninit")
    /\ UNCHANGED <<stopping, session, ran>> /\ Elsewhere

Read(i) ==
    /\ At(i, "running") /\ kind[i] = "read"
    /\ ran' = [ran EXCEPT ![i] = @ + 1]
    /\ Answer(i, "ok")
    /\ UNCHANGED <<stopping, session>> /\ Elsewhere

(* Mutant: the handler does not keep its session while the command waits.   *)
EnqueueLetsGo(i) ==
    /\ At(i, "running") /\ kind[i] = "write"
    /\ queue' = [queue EXCEPT ![holds[i]] = Append(@, i)]
    /\ task' = [task EXCEPT ![i] = "queued"]
    /\ holds' = [holds EXCEPT ![i] = 0]
    /\ UNCHANGED <<stopping, slot, ready, consumer, out, ran>> /\ Elsewhere

(* enqueue_write and enqueue_undo.                                          *)
Enqueue(i) ==
    /\ At(i, "running") /\ kind[i] = "write"
    /\ queue' = [queue EXCEPT ![holds[i]] = Append(@, i)]
    /\ task' = [task EXCEPT ![i] = "queued"]
    /\ UNCHANGED <<stopping, slot, ready, consumer, holds, out, ran>> /\ Elsewhere

(* run_write_queue: upgrade the weak handle, execute, reply, let go.        *)
Consume(s) ==
    /\ loop # "gone" /\ consumer[s] = 0 /\ queue[s] # <<>> /\ Alive(s)
    /\ consumer' = [consumer EXCEPT ![s] = Head(queue[s])]
    /\ queue' = [queue EXCEPT ![s] = Tail(@)]
    /\ UNCHANGED <<stopping, slot, ready, task, holds, out, ran>> /\ Elsewhere

(* Mutant: a finished command goes back into the queue.                     *)
ExecuteAgain(s) ==
    /\ loop # "gone" /\ consumer[s] # 0
    /\ ran' = [ran EXCEPT ![consumer[s]] = @ + 1]
    /\ ran[consumer[s]] < 2
    /\ task' = [task EXCEPT ![consumer[s]] = "replied"]
    /\ UNCHANGED <<stopping, session, holds, out>> /\ Elsewhere

Execute(s) ==
    /\ loop # "gone" /\ consumer[s] # 0
    /\ ran' = [ran EXCEPT ![consumer[s]] = @ + 1]
    /\ task' = [task EXCEPT ![consumer[s]] = "replied"]
    /\ consumer' = [consumer EXCEPT ![s] = 0]
    /\ UNCHANGED <<stopping, slot, ready, queue, holds, out>> /\ Elsewhere

Reply(i) ==
    /\ At(i, "replied")
    /\ Answer(i, "ok")
    /\ UNCHANGED <<stopping, session, ran>> /\ Elsewhere

Handle(i) ==
    \/ HandleShutdown(i)
    \/ InitializeRefused(i) \/ EmptySlot(i) \/ OpenSession(i) \/ OpenFails(i)
    \/ Publish(i) \/ Initialized(i)
    \/ TakeSession(i) \/ AwaitSession(i) \/ NotInitialized(i)
    \/ Read(i) \/ Enqueue(i) \/ Reply(i)

Next ==
    \/ \E i \in Ids, k \in Kinds : Request(i, k)
    \/ \E i \in Ids : TimesOut(i) \/ Handle(i)
    \/ Receive \/ Exited \/ Dispose \/ DisposeEnds \/ HostDies
    \/ Accept \/ Swallow \/ ReaderEnds \/ RefuseFrame
    \/ Stop \/ Joined \/ Write \/ WriterStops \/ Exit \/ Signal \/ Die \/ ParentGone
    \/ \E s \in Sessions : Consume(s) \/ Execute(s)

Spec == Init /\ [][Next]_vars

(* Tasks are scheduled, git commands return, pipes are read, timers fire:   *)
(* some such step is taken while one is possible, in no particular order.   *)
(* The watch for the parent is not on every platform.                       *)
Proceed ==
    \/ Receive \/ Exited \/ DisposeEnds
    \/ Accept \/ ReaderEnds \/ Stop \/ Joined \/ Write \/ WriterStops \/ Exit
    \/ \E i \in Ids : Handle(i)
    \/ \E s \in Sessions : Consume(s) \/ Execute(s)

FairSpec == Spec /\ WF_vars(Proceed)

-----------------------------------------------------------------------------
(* Properties.                                                              *)

(* Two sessions are never alive together, however initializations race with *)
(* each other and with commands under way: the recovery of an interrupted   *)
(* undo never runs beside a command of the session it replaces.             *)
OneSession == \A s, t \in Sessions : Alive(s) /\ Alive(t) => s = t

(* A command in a write queue has a session to run in, whatever became of   *)
(* the slot: the consumer's upgrade never fails with a command in its hand, *)
(* and no accepted write is dropped.                                        *)
WritesKeepTheirSession == \A s \in Sessions : queue[s] # <<>> => Alive(s)

(* A request is executed once at most, once if the client was told what     *)
(* came of it, and not at all if the engine refused it: for its argument,   *)
(* for a session that did not open, or for want of one.                     *)
AnswersAreHonest ==
    \A i \in Ids :
        /\ ran[i] <= 1
        /\ call[i] = "ok" /\ kind[i] # "shutdown" => ran[i] = 1
        /\ call[i] \in {"error", "uninit"} => ran[i] = 0

(* A request that overtakes the only initialize waits for it: as long as    *)
(* that has not failed and the engine is not being stopped, nobody is told  *)
(* that there is no session.                                                *)
Initializes == {i \in Ids : kind[i] = "initialize"}
FirstSessionIsAwaited ==
    Cardinality(Initializes) = 1 /\ loop = "serving"
        /\ (\A i \in Initializes : task[i] # "answered" \/ slot # 0)
    => \A i \in Ids : call[i] # "uninit"

(* When no more requests come, every one of them has ended or will end: it  *)
(* is answered, timed out or rejected.                                      *)
(* Three are excepted: one that waits for an initialize that never succeeds *)
(* or fails to open, those pending when the engine is gone during dispose() *)
(* and those that a stopped engine, which only exits when it is sent one    *)
(* more frame, leaves unanswered.                                           *)
Excepted(i) ==
    \/ task[i] = "waiting" /\ ~ready
    \/ loop = "gone" /\ disposing = "asked"
    \/ loop = "stopped" /\ reading
EveryCallSettles == <>[](\A i \in Ids : call[i] = "pending" => Excepted(i))

(* An engine whose client has died ends by itself, whatever was requested,  *)
(* queued or waiting, and even without a watch for the parent: nobody else  *)
(* would end it, and it holds the lock of the cache.                        *)
OrphanStops == disposing = "crashed" ~> loop = "gone"

=============================================================================
