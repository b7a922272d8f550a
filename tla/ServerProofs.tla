---------------------------- MODULE ServerProofs ----------------------------
(****************************************************************************)
(* Safety of sessions, write queues and answers for every number of         *)
(* requests and whatever goes wrong.                                        *)
(****************************************************************************)
EXTENDS Server, FiniteSetTheorems, TLAPS

(* What is read from the pipe was sent once and has no handler yet.         *)
StdinIsNew ==
    /\ \A n \in 1..Len(stdin) : task[stdin[n]] = "none" /\ call[stdin[n]] # "unsent"
    /\ \A m, n \in 1..Len(stdin) : stdin[m] = stdin[n] => m = n
    /\ \A i \in Ids : task[i] # "none" => call[i] # "unsent"

(* A handler is in one place of its session's queue or with its consumer,   *)
(* and it is suspended there with its session in hand.                      *)
Suspended(i, s) == task[i] = "queued" /\ holds[i] = s
InQueue(s) == \A n \in 1..Len(queue[s]) : Suspended(queue[s][n], s)
InQueueOnce(s) == \A m, n \in 1..Len(queue[s]) : queue[s][m] = queue[s][n] => m = n
WithConsumer(s) ==
    consumer[s] # 0 => /\ Suspended(consumer[s], s)
                       /\ \A n \in 1..Len(queue[s]) : queue[s][n] # consumer[s]
QueuedOnce == \A s \in Sessions : InQueue(s) /\ InQueueOnce(s) /\ WithConsumer(s)

(* What an answer says of the request is true, and stays true.              *)
Truthful(i, answer) ==
    /\ task[i] = "answered"
    /\ answer = "ok" /\ kind[i] # "shutdown" => ran[i] = 1
    /\ answer \in {"error", "uninit"} => ran[i] = 0

(* So are all answers in a pipe, and those delivered.                       *)
OnTheWay(pipe) == \A n \in 1..Len(pipe) : Truthful(pipe[n][1], pipe[n][2])
Delivered == \A i \in Ids : call[i] \in Answers => Truthful(i, call[i])

(* A request runs once, before its reply and not before that.               *)
RunsOnce ==
    \A i \in Ids :
        /\ ran[i] <= 1
        /\ task[i] = "replied" => ran[i] = 1
        /\ task[i] \notin {"replied", "answered"} => ran[i] = 0

TrueAnswers == OnTheWay(out) /\ OnTheWay(stdout) /\ Delivered /\ RunsOnce

IInv == TypeOK /\ OneSession /\ StdinIsNew /\ QueuedOnce /\ TrueAnswers

(* The steps that only change the course of the reader and the serve loop.  *)
Course == \/ ReaderEnds \/ RefuseFrame \/ Joined \/ WriterStops \/ Exit
          \/ Signal \/ Die \/ ParentGone

-----------------------------------------------------------------------------
(* 0 stands for no request and for no session.                              *)
LEMMA ZeroIsNoId == 0 \notin Ids
BY RequestsAssumption DEF Ids

(* What the clients, the handlers and the pipes have is left alone by them. *)
LEMMA CourseOnly ==
    Course => UNCHANGED <<kind, call, disposing, timer, noticed, stdin, stdout, slot, ready,
                          queue, consumer, task, holds, out, ran>>
BY DEF Course, ReaderEnds, RefuseFrame, Joined, WriterStops, Exit, Signal, Die, ParentGone,
       client, session

(* Nothing was requested, so there is nothing in any pipe or queue.         *)
LEMMA InitIInv == Init => IInv
<1>. SUFFICES ASSUME Init PROVE IInv
  OBVIOUS
<1>. USE DEF Init
<1>1. TypeOK
  <2>1. queue \in [Sessions -> Seq(Ids)]
    BY DEF Sessions
  <2>2. \A i \in Ids : holds[i] # 0 <=> task[i] \in {"opened", "published", "running",
                                                   "queued", "replied"}
    OBVIOUS
  <2>3. stdin \in Seq(Ids) /\ stdout \in Seq(Ids \X Answers) /\ out \in Seq(Ids \X Answers)
    OBVIOUS
  <2>4. ran \in [Ids -> Nat] /\ consumer \in [Sessions -> Ids \cup {0}]
        /\ holds \in [Ids -> Sessions \cup {0}]
    OBVIOUS
  <2>. QED BY <2>1, <2>2, <2>3, <2>4 DEF TypeOK, Settled, Kinds
<1>2. OneSession
  BY DEF OneSession, Alive, Sessions
<1>3. StdinIsNew
  BY DEF StdinIsNew
<1>4. QueuedOnce
  BY DEF QueuedOnce, InQueue, InQueueOnce, WithConsumer
<1>5. TrueAnswers
  BY DEF TrueAnswers, OnTheWay, Delivered, RunsOnce, Answers
<1>. QED BY <1>1, <1>2, <1>3, <1>4, <1>5 DEF IInv

-----------------------------------------------------------------------------
(* Every step keeps the variables well-formed, and a handler has a session  *)
(* exactly while it works with one.                                         *)
LEMMA TypeNext == IInv /\ [Next]_vars => TypeOK'
<1>. SUFFICES ASSUME IInv, [Next]_vars PROVE TypeOK'
  OBVIOUS
<1>. USE DEF IInv, TypeOK, Answers, Kinds, Settled, Sessions, client, session
<1>1. CASE \E i \in Ids, k \in Kinds : Request(i, k)
  BY <1>1 DEF Request, Send
<1>2. CASE \E i \in Ids : TimesOut(i)
  BY <1>2 DEF TimesOut
<1>3. CASE Receive
  <2>1. Head(stdout) \in Ids \X Answers /\ Tail(stdout) \in Seq(Ids \X Answers)
    BY <1>3 DEF Receive
  <2>2. Head(stdout)[1] \in Ids /\ Head(stdout)[2] \in Answers
    BY <2>1
  <2>3. call' \in [Ids -> {"unsent", "pending"} \cup Settled]
    BY <1>3, <2>2 DEF Receive
  <2>4. stdout' = Tail(stdout)
        /\ UNCHANGED <<kind, disposing, timer, noticed, stdin, reading, loop, stopping, slot,
                      ready, queue, consumer, task, holds, out, ran>>
    BY <1>3 DEF Receive
  <2>. QED BY <2>1, <2>3, <2>4
<1>4. CASE Exited
  <2>1. call' \in [Ids -> {"unsent", "pending"} \cup Settled]
    BY <1>4 DEF Exited, RejectAllPending
  <2>2. noticed' \in BOOLEAN /\ timer' \in BOOLEAN
        /\ UNCHANGED <<kind, disposing, stdin, stdout, reading, loop, stopping, slot, ready, queue,
                      consumer, task, holds, out, ran>>
    BY <1>4 DEF Exited
  <2>. QED BY <2>1, <2>2
<1>5. CASE Dispose
  BY <1>5 DEF Dispose, Send
<1>6. CASE DisposeEnds
  BY <1>6 DEF DisposeEnds, RejectAllPending
<1>7. CASE Accept
  <2>1. Head(stdin) \in Ids /\ Tail(stdin) \in Seq(Ids) /\ task[Head(stdin)] = "none"
    BY <1>7 DEF Accept, StdinIsNew
  <2>. QED BY <1>7, <2>1 DEF Accept
<1>8. CASE Stop \/ Course
  <2>1. loop' \in {"serving", "joining", "stopping", "stopped", "gone"}
        /\ reading' \in BOOLEAN /\ stopping' \in BOOLEAN
    BY <1>8 DEF Stop, Leave, Course, ReaderEnds, RefuseFrame, Joined, WriterStops, Exit,
                Signal, Die, ParentGone
  <2>2. ready' \in BOOLEAN
        /\ UNCHANGED <<kind, call, disposing, timer, noticed, stdin, stdout, slot, queue,
                      consumer, task, holds, out, ran>>
    BY <1>8, CourseOnly DEF Stop, Leave
  <2>. QED BY <2>1, <2>2
<1>9. ASSUME NEW i \in Ids, Handle(i) PROVE TypeOK'
  <2>. USE DEF At, Answer, Elsewhere
  <2>1. CASE HandleShutdown(i)
    BY <2>1 DEF HandleShutdown
  <2>2. CASE InitializeRefused(i)
    BY <2>2 DEF InitializeRefused
  <2>3. CASE EmptySlot(i)
    BY <2>3 DEF EmptySlot
  <2>4. CASE OpenSession(i)
    BY <2>4 DEF OpenSession, Ids
  <2>5. CASE OpenFails(i)
    BY <2>5 DEF OpenFails
  <2>6. CASE Publish(i)
    BY <2>6 DEF Publish
  <2>7. CASE Initialized(i)
    BY <2>7 DEF Initialized
  <2>8. CASE TakeSession(i)
    BY <2>8 DEF TakeSession
  <2>9. CASE AwaitSession(i)
    BY <2>9 DEF AwaitSession
  <2>10. CASE NotInitialized(i)
    BY <2>10, SMTT(30) DEF NotInitialized
  <2>11. CASE Read(i)
    BY <2>11, SMTT(30) DEF Read
  <2>12. CASE Enqueue(i)
    BY <2>12 DEF Enqueue
  <2>13. CASE Reply(i)
    BY <2>13 DEF Reply
  <2>. QED BY <1>9, <2>1, <2>2, <2>3, <2>4, <2>5, <2>6, <2>7, <2>8, <2>9, <2>10, <2>11,
              <2>12, <2>13 DEF Handle
<1>10. ASSUME NEW s \in Sessions, Consume(s) PROVE TypeOK'
  BY <1>10 DEF Consume, Elsewhere
<1>11. ASSUME NEW s \in Sessions, Execute(s) PROVE TypeOK'
  <2>1. consumer[s] \in Ids /\ task[consumer[s]] = "queued"
    BY <1>11 DEF Execute, QueuedOnce, WithConsumer, Suspended
  <2>2. ran' \in [Ids -> Nat] /\ consumer' \in [Sessions -> Ids \cup {0}]
    BY <1>11, <2>1 DEF Execute
  <2>3. task' = [task EXCEPT ![consumer[s]] = "replied"]
        /\ UNCHANGED <<kind, call, disposing, timer, noticed, stdin, stdout, reading, loop,
                      stopping, slot, ready, queue, holds, out>>
    BY <1>11 DEF Execute, Elsewhere
  <2>4. \A i \in Ids : holds'[i] # 0 <=> task'[i] \in {"opened", "published", "running",
                                                     "queued", "replied"}
    BY <2>1, <2>3
  <2>5. task' \in [Ids -> {"none", "begun", "waiting", "locking", "opened", "published",
                          "running", "queued", "replied", "answered"}]
    BY <2>1, <2>3
  <2>6. /\ stdin' \in Seq(Ids) /\ stdout' \in Seq(Ids \X Answers) /\ out' \in Seq(Ids \X Answers)
        /\ holds' \in [Ids -> Sessions \cup {0}] /\ queue' \in [Sessions -> Seq(Ids)]
    BY <2>3
  <2>. QED BY <2>2, <2>3, <2>4, <2>5, <2>6
<1>12. CASE Write
  <2>1. Head(out) \in Ids \X Answers /\ Tail(out) \in Seq(Ids \X Answers)
    BY <1>12 DEF Write
  <2>2. stdout' \in Seq(Ids \X Answers) /\ out' \in Seq(Ids \X Answers)
        /\ UNCHANGED <<kind, call, disposing, timer, noticed, stdin, reading, loop, stopping, slot,
                      ready, queue, consumer, task, holds, ran>>
    BY <1>12, <2>1 DEF Write
  <2>. QED BY <2>2
<1>13. CASE UNCHANGED vars
  BY <1>13 DEF vars
<1>14. CASE Swallow
  <2>1. Tail(stdin) \in Seq(Ids)
    BY <1>14 DEF Swallow
  <2>. QED BY <1>14, <2>1 DEF Swallow
<1>15. CASE HostDies
  <2>1. call' \in [Ids -> {"unsent", "pending"} \cup Settled]
    BY <1>15 DEF HostDies, RejectAllPending
  <2>2. disposing' = "crashed" /\ timer' = FALSE /\ stdout' = <<>>
        /\ UNCHANGED <<kind, noticed, stdin, reading, loop, stopping, slot, ready, queue,
                      consumer, task, holds, out, ran>>
    BY <1>15 DEF HostDies
  <2>3. stdout' \in Seq(Ids \X Answers)
    BY <2>2
  <2>. QED BY <2>1, <2>2, <2>3
<1>. QED BY <1>1, <1>2, <1>3, <1>4, <1>5, <1>6, <1>7, <1>8, <1>9, <1>10, <1>11, <1>12, <1>13,
            <1>14, <1>15 DEF Next, Course

-----------------------------------------------------------------------------
(* A step after which no session has an Arc that had none keeps OneSession. *)
LEMMA NoneAppears ==
    ASSUME OneSession, \A s \in Sessions : Alive(s)' => Alive(s)
    PROVE  OneSession'
BY DEF OneSession

(* A session is opened when none is alive, and every other Arc is made from *)
(* one: of the slot, of a handler, or of the consumer's upgraded handle.    *)
LEMMA OneSessionNext == IInv /\ [Next]_vars => OneSession'
<1>. SUFFICES ASSUME IInv, [Next]_vars PROVE OneSession'
  OBVIOUS
<1>. USE DEF IInv, TypeOK, Sessions, client, session
<1>1. CASE UNCHANGED <<session, holds>>
  BY <1>1, NoneAppears DEF Alive
<1>2. ASSUME NEW i \in Ids, Handle(i) PROVE OneSession'
  <2>. USE DEF At, Answer
  <2>1. CASE OpenSession(i)
    <3>1. \A s \in Sessions : Alive(s)' => s = i
      BY <2>1 DEF OpenSession, Alive, Ids
    <3>. QED BY <3>1 DEF OneSession
  <2>2. CASE ~OpenSession(i)
    <3>1. \A s \in Sessions : Alive(s)' => Alive(s)
      <4>1. CASE HandleShutdown(i) \/ InitializeRefused(i) \/ EmptySlot(i) \/ OpenFails(i)
        BY <4>1 DEF HandleShutdown, InitializeRefused, EmptySlot, OpenFails, Alive
      <4>2. CASE Publish(i)
        BY <4>2 DEF Publish, Alive
      <4>3. CASE Initialized(i) \/ NotInitialized(i) \/ Read(i) \/ Reply(i)
        <5>1. holds' = [holds EXCEPT ![i] = 0] /\ slot' = slot /\ consumer' = consumer
          BY <4>3 DEF Initialized, NotInitialized, Read, Reply
        <5>2. \A j \in Ids : holds'[j] = holds[j] \/ holds'[j] = 0
          BY <5>1
        <5>. QED BY <5>1, <5>2, ZeroIsNoId DEF Alive
      <4>4. CASE TakeSession(i)
        BY <4>4 DEF TakeSession, Alive
      <4>5. CASE AwaitSession(i) \/ Enqueue(i)
        BY <4>5 DEF AwaitSession, Enqueue, Alive
      <4>. QED BY <1>2, <2>2, <4>1, <4>2, <4>3, <4>4, <4>5 DEF Handle
    <3>. QED BY <3>1, NoneAppears
  <2>. QED BY <2>1, <2>2
<1>3. ASSUME NEW s \in Sessions, Consume(s) \/ Execute(s) PROVE OneSession'
  <2>1. \A t \in Sessions : Alive(t)' => Alive(t)
    BY <1>3 DEF Consume, Execute, Alive
  <2>. QED BY <2>1, NoneAppears
<1>4. CASE Stop
  <2>1. \A s \in Sessions : Alive(s)' => Alive(s)
    BY <1>4 DEF Stop, Leave, Alive
  <2>. QED BY <2>1, NoneAppears
<1>5. UNCHANGED <<session, holds>> \/ Stop \/ (\E i \in Ids : Handle(i))
      \/ \E s \in Sessions : Consume(s) \/ Execute(s)
  BY CourseOnly DEF Next, Course, vars, session, Request, TimesOut, Receive, Exited, Dispose,
                    DisposeEnds, HostDies, Accept, Swallow, Write
<1>. QED BY <1>1, <1>2, <1>3, <1>4, <1>5

-----------------------------------------------------------------------------
(* A session whose queue and consumer stay, and whose suspended handlers    *)
(* do, keeps its order.                                                     *)
LEMMA QueueKeeps ==
    ASSUME NEW s \in Sessions,
           queue[s] \in Seq(Ids), consumer[s] \in Ids \cup {0},
           InQueue(s) /\ InQueueOnce(s) /\ WithConsumer(s),
           queue'[s] = queue[s], consumer'[s] = consumer[s],
           \A i \in Ids : Suspended(i, s) => Suspended(i, s)'
    PROVE  InQueue(s)' /\ InQueueOnce(s)' /\ WithConsumer(s)'
<1>1. InQueue(s)'
  <2>1. \A n \in 1..Len(queue[s]) : queue[s][n] \in Ids
    OBVIOUS
  <2>. QED BY <2>1 DEF InQueue
<1>2. InQueueOnce(s)'
  BY DEF InQueueOnce
<1>3. WithConsumer(s)'
  BY DEF WithConsumer
<1>. QED BY <1>1, <1>2, <1>3

(* So do all of them when only handlers that are in no queue do something.  *)
LEMMA QueuesKeep ==
    ASSUME TypeOK, QueuedOnce, UNCHANGED <<queue, consumer>>,
           \A i \in Ids : task[i] = "queued" => task'[i] = "queued" /\ holds'[i] = holds[i]
    PROVE  QueuedOnce'
<1>1. ASSUME NEW s \in Sessions PROVE InQueue(s)' /\ InQueueOnce(s)' /\ WithConsumer(s)'
  <2>1. queue[s] \in Seq(Ids) /\ consumer[s] \in Ids \cup {0}
    BY DEF TypeOK
  <2>2. \A i \in Ids : Suspended(i, s) => Suspended(i, s)'
    BY DEF Suspended
  <2>. QED BY <2>1, <2>2, QueueKeeps DEF QueuedOnce
<1>. QED BY <1>1 DEF QueuedOnce

(* A handler that joins the queue was nowhere in it.                        *)
LEMMA EnqueueKeeps ==
    ASSUME NEW s \in Sessions, NEW i \in Ids,
           queue[s] \in Seq(Ids), consumer[s] \in Ids \cup {0},
           InQueue(s) /\ InQueueOnce(s) /\ WithConsumer(s),
           queue'[s] = Append(queue[s], i), consumer'[s] = consumer[s],
           task[i] # "queued", Suspended(i, s)',
           \A j \in Ids : Suspended(j, s) => Suspended(j, s)'
    PROVE  InQueue(s)' /\ InQueueOnce(s)' /\ WithConsumer(s)'
<1>. DEFINE q == queue[s]
<1>1. /\ Len(queue'[s]) = Len(q) + 1 /\ queue'[s][Len(q) + 1] = i
      /\ \A n \in 1..Len(q) : queue'[s][n] = q[n] /\ q[n] \in Ids
  OBVIOUS
<1>2. \A n \in 1..Len(queue'[s]) : n \in 1..Len(q) \/ n = Len(q) + 1
  BY <1>1
<1>3. \A n \in 1..Len(q) : q[n] # i
  BY DEF InQueue, Suspended
<1>4. consumer[s] # i
  BY ZeroIsNoId DEF WithConsumer, Suspended
<1>5. InQueue(s)'
  BY <1>1, <1>2 DEF InQueue
<1>6. InQueueOnce(s)'
  <2>1. ASSUME NEW m \in 1..Len(queue'[s]), NEW n \in 1..Len(queue'[s]),
               queue'[s][m] = queue'[s][n]
        PROVE  m = n
    <3>1. CASE m \in 1..Len(q) /\ n \in 1..Len(q)
      BY <1>1, <2>1, <3>1 DEF InQueueOnce
    <3>2. CASE m = Len(q) + 1 \/ n = Len(q) + 1
      BY <1>1, <1>2, <1>3, <2>1, <3>2
    <3>. QED BY <1>2, <3>1, <3>2
  <2>. QED BY <2>1 DEF InQueueOnce
<1>7. WithConsumer(s)'
  <2>1. SUFFICES ASSUME consumer[s] # 0
        PROVE  Suspended(consumer[s], s)'
               /\ \A n \in 1..Len(queue'[s]) : queue'[s][n] # consumer[s]
    BY DEF WithConsumer, Suspended
  <2>2. Suspended(consumer[s], s)'
    BY <2>1 DEF WithConsumer
  <2>3. \A n \in 1..Len(q) : q[n] # consumer[s]
    BY <2>1 DEF WithConsumer
  <2>. QED BY <1>1, <1>2, <1>4, <2>2, <2>3
<1>. QED BY <1>5, <1>6, <1>7

(* The consumer takes the head of the queue.                                *)
LEMMA ConsumeKeeps ==
    ASSUME NEW s \in Sessions,
           queue[s] \in Seq(Ids), queue[s] # <<>>,
           InQueue(s), InQueueOnce(s),
           queue'[s] = Tail(queue[s]), consumer'[s] = Head(queue[s]),
           UNCHANGED <<task, holds>>
    PROVE  InQueue(s)' /\ InQueueOnce(s)' /\ WithConsumer(s)'
<1>. DEFINE q == queue[s]
<1>1. /\ Len(q) \in Nat /\ Len(queue'[s]) = Len(q) - 1
      /\ \A n \in 1..Len(queue'[s]) : queue'[s][n] = q[n + 1]
      /\ consumer'[s] = q[1] /\ 1 \in 1..Len(q)
  OBVIOUS
<1>2. \A n \in 1..Len(queue'[s]) : n \in Nat /\ n + 1 \in 1..Len(q) /\ n + 1 # 1
  BY <1>1
<1>3. InQueue(s)'
  BY <1>1, <1>2 DEF InQueue, Suspended
<1>4. InQueueOnce(s)'
  <2>1. ASSUME NEW m \in 1..Len(queue'[s]), NEW n \in 1..Len(queue'[s]),
               queue'[s][m] = queue'[s][n]
        PROVE  m = n
    <3>1. m + 1 = n + 1
      BY <1>1, <1>2, <2>1 DEF InQueueOnce
    <3>. QED BY <1>2, <3>1
  <2>. QED BY <2>1 DEF InQueueOnce
<1>5. WithConsumer(s)'
  <2>1. Suspended(q[1], s)
    BY <1>1 DEF InQueue
  <2>2. \A n \in 1..Len(queue'[s]) : queue'[s][n] # q[1]
    BY <1>1, <1>2 DEF InQueueOnce
  <2>3. consumer'[s] = q[1]
    BY <1>1
  <2>. QED BY <2>1, <2>2, <2>3 DEF WithConsumer, Suspended
<1>. QED BY <1>3, <1>4, <1>5

(* A handler joins one queue, keeps its session, and leaves the queue to    *)
(* the consumer alone.                                                      *)
LEMMA QueuedOnceNext == IInv /\ [Next]_vars => QueuedOnce'
<1>. SUFFICES ASSUME IInv, [Next]_vars PROVE QueuedOnce'
  OBVIOUS
<1>0. TypeOK /\ QueuedOnce /\ StdinIsNew
      /\ \A s \in Sessions : queue[s] \in Seq(Ids) /\ consumer[s] \in Ids \cup {0}
  BY DEF IInv, TypeOK
<1>1. CASE UNCHANGED <<queue, consumer, task, holds>>
  BY <1>0, <1>1, QueuesKeep
<1>2. ASSUME NEW i \in Ids, Handle(i) PROVE QueuedOnce'
  <2>1. CASE Enqueue(i)
    <3>1. /\ holds[i] \in Sessions /\ task[i] = "running" /\ UNCHANGED <<consumer, holds>>
          /\ queue' = [queue EXCEPT ![holds[i]] = Append(@, i)]
          /\ task' = [task EXCEPT ![i] = "queued"]
      BY <1>0, <2>1 DEF Enqueue, At, TypeOK, Sessions
    <3>2. ASSUME NEW s \in Sessions PROVE InQueue(s)' /\ InQueueOnce(s)' /\ WithConsumer(s)'
      <4>1. \A j \in Ids : Suspended(j, s) => Suspended(j, s)'
        BY <1>0, <3>1 DEF Suspended, TypeOK
      <4>2. CASE s = holds[i]
        <5>1. queue'[s] = Append(queue[s], i) /\ Suspended(i, s)'
          BY <1>0, <3>1, <4>2 DEF Suspended, TypeOK
        <5>. QED BY <1>0, <3>1, <4>1, <5>1, EnqueueKeeps DEF QueuedOnce
      <4>3. CASE s # holds[i]
        <5>1. queue'[s] = queue[s]
          BY <1>0, <3>1, <4>3 DEF TypeOK
        <5>. QED BY <1>0, <3>1, <4>1, <5>1, QueueKeeps DEF QueuedOnce
      <4>. QED BY <4>2, <4>3
    <3>. QED BY <3>2 DEF QueuedOnce
  <2>2. CASE ~Enqueue(i)
    <3>1. /\ UNCHANGED <<queue, consumer>>
          /\ \A j \in Ids : task[j] = "queued" => task'[j] = "queued" /\ holds'[j] = holds[j]
      <4>. USE <1>0 DEF At, Answer, TypeOK, session
      <4>1. CASE HandleShutdown(i) \/ InitializeRefused(i) \/ EmptySlot(i) \/ OpenFails(i)
        BY <4>1 DEF HandleShutdown, InitializeRefused, EmptySlot, OpenFails
      <4>2. CASE Publish(i) \/ Initialized(i) \/ TakeSession(i) \/ AwaitSession(i)
        BY <4>2 DEF Publish, Initialized, TakeSession, AwaitSession
      <4>3. CASE NotInitialized(i) \/ Read(i) \/ OpenSession(i) \/ Reply(i)
        BY <4>3 DEF NotInitialized, Read, OpenSession, Reply
      <4>. QED BY <1>2, <2>2, <4>1, <4>2, <4>3 DEF Handle
    <3>. QED BY <1>0, <3>1, QueuesKeep
  <2>. QED BY <2>1, <2>2
<1>3. ASSUME NEW t \in Sessions, Consume(t) PROVE QueuedOnce'
  <2>1. /\ queue[t] # <<>> /\ UNCHANGED <<task, holds>>
        /\ consumer' = [consumer EXCEPT ![t] = Head(queue[t])]
        /\ queue' = [queue EXCEPT ![t] = Tail(@)]
    BY <1>3 DEF Consume
  <2>2. ASSUME NEW s \in Sessions PROVE InQueue(s)' /\ InQueueOnce(s)' /\ WithConsumer(s)'
    <3>1. CASE s = t
      <4>1. queue'[s] = Tail(queue[s]) /\ consumer'[s] = Head(queue[s])
        BY <1>0, <2>1, <3>1 DEF TypeOK
      <4>. QED BY <1>0, <2>1, <3>1, <4>1, ConsumeKeeps DEF QueuedOnce
    <3>2. CASE s # t
      <4>1. queue'[s] = queue[s] /\ consumer'[s] = consumer[s]
        BY <1>0, <2>1, <3>2 DEF TypeOK
      <4>2. \A j \in Ids : Suspended(j, s) => Suspended(j, s)'
        BY <2>1 DEF Suspended
      <4>. QED BY <1>0, <4>1, <4>2, QueueKeeps DEF QueuedOnce
    <3>. QED BY <3>1, <3>2
  <2>. QED BY <2>2 DEF QueuedOnce
<1>4. ASSUME NEW t \in Sessions, Execute(t) PROVE QueuedOnce'
  <2>1. /\ consumer[t] # 0 /\ consumer[t] \in Ids /\ UNCHANGED <<queue, holds>>
        /\ consumer' = [consumer EXCEPT ![t] = 0]
        /\ task' = [task EXCEPT ![consumer[t]] = "replied"]
    BY <1>0, <1>4 DEF Execute
  <2>2. Suspended(consumer[t], t) /\ \A n \in 1..Len(queue[t]) : queue[t][n] # consumer[t]
    BY <1>0, <2>1 DEF QueuedOnce, WithConsumer
  <2>3. ASSUME NEW s \in Sessions PROVE InQueue(s)' /\ InQueueOnce(s)' /\ WithConsumer(s)'
    <3>1. CASE s = t
      <4>1. queue'[s] = queue[s] /\ consumer'[s] = 0
        BY <1>0, <2>1, <3>1 DEF TypeOK
      <4>2. \A n \in 1..Len(queue[s]) : queue[s][n] \in Ids /\ Suspended(queue[s][n], s)
        BY <1>0 DEF QueuedOnce, InQueue
      <4>3. \A n \in 1..Len(queue[s]) : Suspended(queue[s][n], s)'
        BY <1>0, <2>1, <2>2, <3>1, <4>2 DEF Suspended, TypeOK
      <4>4. InQueueOnce(s)
        BY <1>0 DEF QueuedOnce
      <4>. QED BY <4>1, <4>3, <4>4 DEF InQueue, InQueueOnce, WithConsumer
    <3>2. CASE s # t
      <4>1. queue'[s] = queue[s] /\ consumer'[s] = consumer[s]
        BY <1>0, <2>1, <3>2 DEF TypeOK
      <4>2. \A j \in Ids : Suspended(j, s) => Suspended(j, s)'
        BY <1>0, <2>1, <2>2, <3>2 DEF Suspended, TypeOK
      <4>. QED BY <1>0, <4>1, <4>2, QueueKeeps DEF QueuedOnce
    <3>. QED BY <3>1, <3>2
  <2>. QED BY <2>3 DEF QueuedOnce
<1>5. CASE Accept
  <2>1. task[Head(stdin)] = "none" /\ UNCHANGED <<queue, consumer, holds>>
    BY <1>0, <1>5 DEF Accept, StdinIsNew, TypeOK, session
  <2>. QED BY <1>0, <1>5, <2>1, QueuesKeep DEF Accept, TypeOK
<1>6. CASE Stop
  BY <1>0, <1>6, QueuesKeep DEF Stop, Leave
<1>7. UNCHANGED <<queue, consumer, task, holds>> \/ Accept \/ Stop
      \/ (\E i \in Ids : Handle(i)) \/ \E s \in Sessions : Consume(s) \/ Execute(s)
  BY CourseOnly DEF Next, Course, vars, session, Request, TimesOut, Receive, Exited, Dispose,
                    DisposeEnds, HostDies, Swallow, Write
<1>. QED BY <1>1, <1>2, <1>3, <1>4, <1>5, <1>6, <1>7


-----------------------------------------------------------------------------
(* A request enters the pipe when it is first sent and leaves it to its     *)
(* handler.                                                                 *)
LEMMA StdinIsNewNext == IInv /\ [Next]_vars => StdinIsNew'
<1>. SUFFICES ASSUME IInv, [Next]_vars PROVE StdinIsNew'
  OBVIOUS
<1>0. TypeOK /\ StdinIsNew /\ stdin \in Seq(Ids)
      /\ \A n \in 1..Len(stdin) : stdin[n] \in Ids
  BY DEF IInv, TypeOK
<1>1. ASSUME stdin' = stdin,
             \A i \in Ids : /\ call[i] # "unsent" => call'[i] # "unsent"
                            /\ task[i] = "none" => task'[i] = "none"
                            /\ task'[i] # "none" => task[i] # "none"
      PROVE  StdinIsNew'
  BY <1>0, <1>1 DEF StdinIsNew
<1>2. ASSUME NEW i \in Ids, NEW k \in Kinds, Send(i, k), UNCHANGED task PROVE StdinIsNew'
  <2>1. /\ call[i] = "unsent" /\ task[i] = "none" /\ call' = [call EXCEPT ![i] = "pending"]
        /\ \A n \in 1..Len(stdin) : stdin[n] # i
    BY <1>0, <1>2 DEF Send, IsNext, StdinIsNew
  <2>2. \A j \in Ids : call[j] # "unsent" => call'[j] # "unsent"
    BY <1>0, <2>1 DEF TypeOK
  <2>3. CASE stdin' = stdin
    BY <1>1, <1>2, <2>2, <2>3
  <2>4. CASE stdin' = Append(stdin, i)
    <3>1. /\ Len(stdin') = Len(stdin) + 1 /\ stdin'[Len(stdin) + 1] = i /\ Len(stdin) \in Nat
          /\ \A n \in 1..Len(stdin) : stdin'[n] = stdin[n]
      BY <1>0, <2>4
    <3>2. \A n \in 1..Len(stdin') : n \in 1..Len(stdin) \/ n = Len(stdin) + 1
      BY <3>1
    <3>3. call'[i] # "unsent"
      BY <1>0, <2>1 DEF TypeOK
    <3>4. \A n \in 1..Len(stdin') : task[stdin'[n]] = "none" /\ call'[stdin'[n]] # "unsent"
      BY <1>0, <2>1, <2>2, <3>1, <3>2, <3>3 DEF StdinIsNew
    <3>5. ASSUME NEW m \in 1..Len(stdin'), NEW n \in 1..Len(stdin'), stdin'[m] = stdin'[n]
          PROVE  m = n
      <4>1. CASE m \in 1..Len(stdin) /\ n \in 1..Len(stdin)
        BY <1>0, <3>1, <3>5, <4>1 DEF StdinIsNew
      <4>2. CASE m = Len(stdin) + 1 \/ n = Len(stdin) + 1
        BY <2>1, <3>1, <3>2, <3>5, <4>2
      <4>. QED BY <3>2, <4>1, <4>2
    <3>6. \A j \in Ids : task[j] # "none" => call'[j] # "unsent"
      BY <1>0, <2>2 DEF StdinIsNew
    <3>. QED BY <1>2, <3>4, <3>5, <3>6 DEF StdinIsNew
  <2>. QED BY <1>2, <2>3, <2>4 DEF Send
<1>3. CASE \E i \in Ids, k \in Kinds : Request(i, k)
  BY <1>2, <1>3 DEF Request
<1>4. CASE Dispose
  BY <1>2, <1>4 DEF Dispose, Kinds
<1>5. CASE Accept \/ Swallow
  <2>1. /\ stdin # <<>> /\ stdin' = Tail(stdin) /\ UNCHANGED call
        /\ \A i \in Ids : i # stdin[1] => task'[i] = task[i]
    BY <1>0, <1>5 DEF Accept, Swallow, client, TypeOK
  <2>2. /\ Len(stdin) \in Nat /\ Len(stdin') = Len(stdin) - 1 /\ 1 \in 1..Len(stdin)
        /\ \A n \in 1..Len(stdin') : stdin'[n] = stdin[n + 1]
    BY <1>0, <2>1
  <2>3. \A n \in 1..Len(stdin') : n \in Nat /\ n + 1 \in 1..Len(stdin) /\ n + 1 # 1
    BY <2>2
  <2>4. \A n \in 1..Len(stdin') : stdin'[n] # stdin[1]
    BY <1>0, <2>2, <2>3 DEF StdinIsNew
  <2>5. \A n \in 1..Len(stdin') : task'[stdin'[n]] = "none" /\ call[stdin'[n]] # "unsent"
    BY <1>0, <2>1, <2>2, <2>3, <2>4 DEF StdinIsNew
  <2>6. ASSUME NEW m \in 1..Len(stdin'), NEW n \in 1..Len(stdin'), stdin'[m] = stdin'[n]
        PROVE  m = n
    <3>1. m + 1 = n + 1
      BY <1>0, <2>2, <2>3, <2>6 DEF StdinIsNew
    <3>. QED BY <2>3, <3>1
  <2>7. \A i \in Ids : task'[i] # "none" => call[i] # "unsent"
    BY <1>0, <2>1, <2>2 DEF StdinIsNew
  <2>. QED BY <2>1, <2>5, <2>6, <2>7 DEF StdinIsNew
<1>6. CASE Receive \/ Exited \/ DisposeEnds \/ HostDies \/ \E i \in Ids : TimesOut(i)
  <2>1. UNCHANGED <<stdin, task>>
    BY <1>6 DEF Receive, Exited, DisposeEnds, HostDies, TimesOut
  <2>2. \A i \in Ids : call[i] # "unsent" => call'[i] # "unsent"
    <3>1. CASE Receive
      <4>1. stdout[1] \in Ids \X Answers
        BY <1>0, <3>1 DEF Receive, TypeOK
      <4>. QED BY <1>0, <3>1, <4>1 DEF Receive, TypeOK, Answers
    <3>2. CASE Exited \/ DisposeEnds \/ HostDies
      BY <1>0, <3>2 DEF Exited, DisposeEnds, HostDies, RejectAllPending, TypeOK
    <3>3. CASE \E i \in Ids : TimesOut(i)
      BY <1>0, <3>3 DEF TimesOut, TypeOK
    <3>. QED BY <1>6, <3>1, <3>2, <3>3
  <2>. QED BY <1>1, <2>1, <2>2
<1>7. ASSUME NEW i \in Ids, Handle(i) PROVE StdinIsNew'
  <2>1. UNCHANGED <<stdin, call>> /\ task[i] # "none"
        /\ \E a \in {"locking", "opened", "published", "waiting", "running", "queued",
                     "answered"} : task' = [task EXCEPT ![i] = a]
    BY <1>7 DEF Handle, HandleShutdown, InitializeRefused, EmptySlot, OpenSession, OpenFails,
                Publish, Initialized, TakeSession, AwaitSession, NotInitialized, Read, Enqueue,
                Reply, At, Answer, Elsewhere, client
  <2>. QED BY <1>0, <1>1, <2>1 DEF TypeOK
<1>8. ASSUME NEW s \in Sessions, Execute(s) PROVE StdinIsNew'
  <2>1. consumer[s] \in Ids /\ task[consumer[s]] = "queued" /\ UNCHANGED <<stdin, call>>
        /\ task' = [task EXCEPT ![consumer[s]] = "replied"]
    BY <1>8 DEF Execute, Elsewhere, client, IInv, TypeOK, QueuedOnce, WithConsumer, Suspended
  <2>. QED BY <1>0, <1>1, <2>1 DEF TypeOK
<1>9. CASE UNCHANGED vars \/ Stop \/ Course \/ Write \/ \E s \in Sessions : Consume(s)
  <2>1. UNCHANGED <<stdin, call, task>>
    BY <1>9, CourseOnly DEF vars, client, session, Stop, Leave, Write, Consume, Elsewhere
  <2>. QED BY <1>1, <2>1
<1>. QED BY <1>3, <1>4, <1>5, <1>6, <1>7, <1>8, <1>9 DEF Next, Course

-----------------------------------------------------------------------------
(* What a request that was answered is and how often it ran is settled.     *)
LEMMA AnsweredStays ==
    IInv /\ [Next]_vars =>
        \A i \in Ids : task[i] = "answered" =>
            task'[i] = "answered" /\ ran'[i] = ran[i] /\ kind'[i] = kind[i]
<1>. SUFFICES ASSUME IInv, [Next]_vars, NEW i \in Ids, task[i] = "answered"
     PROVE  task'[i] = "answered" /\ ran'[i] = ran[i] /\ kind'[i] = kind[i]
  OBVIOUS
<1>0. TypeOK /\ StdinIsNew /\ QueuedOnce
  BY DEF IInv
<1>1. ASSUME NEW j \in Ids, NEW k \in Kinds, Send(j, k), UNCHANGED <<task, ran>>
      PROVE  task'[i] = "answered" /\ ran'[i] = ran[i] /\ kind'[i] = kind[i]
  BY <1>0, <1>1 DEF Send, IsNext, StdinIsNew, TypeOK
<1>2. CASE (\E j \in Ids, k \in Kinds : Request(j, k)) \/ Dispose
  BY <1>1, <1>2 DEF Request, Dispose, Kinds
<1>3. CASE Accept
  <2>1. stdin[1] \in Ids /\ task[stdin[1]] = "none"
    BY <1>0, <1>3 DEF Accept, StdinIsNew, TypeOK
  <2>2. UNCHANGED <<kind, ran>> /\ task' = [task EXCEPT ![stdin[1]] = "begun"]
    BY <1>0, <1>3 DEF Accept, TypeOK, client
  <2>. QED BY <1>0, <2>1, <2>2 DEF TypeOK
<1>4. ASSUME NEW j \in Ids, Handle(j)
      PROVE  task'[i] = "answered" /\ ran'[i] = ran[i] /\ kind'[i] = kind[i]
  <2>1. /\ kind' = kind /\ task[j] # "answered"
        /\ ran' = ran \/ ran' = [ran EXCEPT ![j] = @ + 1]
        /\ \E a \in {"locking", "opened", "published", "waiting", "running", "queued",
                     "answered"} : task' = [task EXCEPT ![j] = a]
    BY <1>4 DEF Handle, HandleShutdown, InitializeRefused, EmptySlot, OpenSession, OpenFails,
                Publish, Initialized, TakeSession, AwaitSession, NotInitialized, Read, Enqueue,
                Reply, At, Answer, Elsewhere, client
  <2>. QED BY <1>0, <2>1 DEF TypeOK
<1>5. ASSUME NEW s \in Sessions, Execute(s)
      PROVE  task'[i] = "answered" /\ ran'[i] = ran[i] /\ kind'[i] = kind[i]
  <2>1. task[consumer[s]] = "queued"
    BY <1>0, <1>5 DEF Execute, QueuedOnce, WithConsumer, Suspended
  <2>. QED BY <1>0, <1>5, <2>1 DEF Execute, Elsewhere, client, TypeOK
<1>6. CASE \/ UNCHANGED vars \/ Receive \/ Exited \/ DisposeEnds \/ HostDies
           \/ (\E j \in Ids : TimesOut(j)) \/ Swallow \/ Stop \/ Course \/ Write
           \/ \E s \in Sessions : Consume(s)
  BY <1>6, CourseOnly DEF vars, client, session, Receive, Exited, DisposeEnds, HostDies,
                          TimesOut, Swallow, Stop, Leave, Write, Consume, Elsewhere
<1>. QED BY <1>2, <1>3, <1>4, <1>5, <1>6 DEF Next, Course

(* A handler, or the consumer for it, runs its request on the way to the    *)
(* answer.                                                                  *)
LEMMA RunsOnceNext == IInv /\ [Next]_vars => RunsOnce'
<1>. SUFFICES ASSUME IInv, [Next]_vars PROVE RunsOnce'
  OBVIOUS
<1>0. TypeOK /\ RunsOnce /\ StdinIsNew /\ QueuedOnce
  BY DEF IInv, TrueAnswers
<1>1. CASE UNCHANGED <<task, ran>>
  BY <1>1, <1>0 DEF RunsOnce
<1>2. CASE Accept
  <2>1. stdin[1] \in Ids /\ task[stdin[1]] = "none"
    BY <1>0, <1>2 DEF Accept, StdinIsNew, TypeOK
  <2>2. UNCHANGED ran /\ task' = [task EXCEPT ![stdin[1]] = "begun"]
    BY <1>0, <1>2 DEF Accept, TypeOK
  <2>. QED BY <1>0, <2>1, <2>2 DEF RunsOnce, TypeOK
<1>3. ASSUME NEW i \in Ids, Handle(i) PROVE RunsOnce'
  <2>. USE <1>0 DEF RunsOnce, TypeOK, At, Answer
  <2>1. CASE Initialized(i) \/ Read(i)
    <3>1. /\ ran[i] = 0 /\ ran' = [ran EXCEPT ![i] = @ + 1]
          /\ task' = [task EXCEPT ![i] = "answered"]
      BY <2>1 DEF Initialized, Read
    <3>2. ran' = [ran EXCEPT ![i] = 1]
      BY <3>1
    <3>. QED BY <3>1, <3>2
  <2>2. CASE Reply(i)
    BY <2>2 DEF Reply
  <2>3. CASE HandleShutdown(i) \/ InitializeRefused(i) \/ OpenFails(i) \/ NotInitialized(i)
    BY <2>3 DEF HandleShutdown, InitializeRefused, OpenFails, NotInitialized
  <2>4. CASE \/ EmptySlot(i) \/ OpenSession(i) \/ Publish(i) \/ TakeSession(i)
             \/ AwaitSession(i) \/ Enqueue(i)
    <3>1. /\ ran' = ran /\ task[i] \notin {"replied", "answered"}
          /\ \E a \in {"locking", "opened", "published", "running", "waiting", "queued"} :
                 task' = [task EXCEPT ![i] = a]
      BY <2>4 DEF EmptySlot, OpenSession, Publish, TakeSession, AwaitSession, Enqueue
    <3>. QED BY <3>1
  <2>. QED BY <1>3, <2>1, <2>2, <2>3, <2>4 DEF Handle
<1>4. ASSUME NEW s \in Sessions, Execute(s) PROVE RunsOnce'
  <2>1. consumer[s] \in Ids /\ task[consumer[s]] = "queued"
    BY <1>0, <1>4 DEF Execute, QueuedOnce, WithConsumer, Suspended, TypeOK
  <2>. QED BY <1>0, <1>4, <2>1 DEF Execute, RunsOnce, TypeOK
<1>5. UNCHANGED <<task, ran>> \/ Accept \/ (\E i \in Ids : Handle(i))
      \/ \E s \in Sessions : Execute(s)
  BY CourseOnly DEF Next, Course, vars, session, Request, TimesOut, Receive, Exited, Dispose,
                    DisposeEnds, HostDies, Swallow, Stop, Leave, Write, Consume
<1>. QED BY <1>1, <1>2, <1>3, <1>4, <1>5

(* A pipe of true answers stays one when its head is taken, when a true     *)
(* answer is added, and when time passes.                                   *)
LEMMA PipeKeeps ==
    ASSUME NEW pipe \in Seq(Ids \X Answers), NEW pipe1 \in Seq(Ids \X Answers), OnTheWay(pipe),
           \A i \in Ids : task[i] = "answered" =>
               task'[i] = "answered" /\ ran'[i] = ran[i] /\ kind'[i] = kind[i],
           \/ pipe1 = pipe
           \/ pipe # <<>> /\ pipe1 = Tail(pipe)
           \/ \E i \in Ids, a \in Answers : pipe1 = Append(pipe, <<i, a>>) /\ Truthful(i, a)'
    PROVE  \A n \in 1..Len(pipe1) : Truthful(pipe1[n][1], pipe1[n][2])'
<1>1. \A i \in Ids, a \in Answers : Truthful(i, a) => Truthful(i, a)'
  BY DEF Truthful
<1>2. \A n \in 1..Len(pipe) : pipe[n][1] \in Ids /\ pipe[n][2] \in Answers
                              /\ Truthful(pipe[n][1], pipe[n][2])
  BY DEF OnTheWay
<1>3. CASE pipe1 = pipe
  BY <1>1, <1>2, <1>3
<1>4. CASE pipe # <<>> /\ pipe1 = Tail(pipe)
  <2>1. \A n \in 1..Len(pipe1) : n + 1 \in 1..Len(pipe) /\ pipe1[n] = pipe[n + 1]
    BY <1>4
  <2>. QED BY <1>1, <1>2, <2>1
<1>5. ASSUME NEW i \in Ids, NEW a \in Answers, pipe1 = Append(pipe, <<i, a>>),
             Truthful(i, a)'
      PROVE  \A n \in 1..Len(pipe1) : Truthful(pipe1[n][1], pipe1[n][2])'
  <2>1. /\ pipe1[Len(pipe) + 1] = <<i, a>> /\ Len(pipe1) = Len(pipe) + 1
        /\ \A n \in 1..Len(pipe) : pipe1[n] = pipe[n]
    BY <1>5
  <2>2. \A n \in 1..Len(pipe1) : n \in 1..Len(pipe) \/ n = Len(pipe) + 1
    BY <2>1
  <2>. QED BY <1>1, <1>2, <1>5, <2>1, <2>2
<1>. QED BY <1>3, <1>4, <1>5

(* A handler answers what is true, and the writer and the client only move  *)
(* answers on.                                                              *)
LEMMA TrueAnswersNext == IInv /\ [Next]_vars => TrueAnswers'
<1>. SUFFICES ASSUME IInv, [Next]_vars PROVE TrueAnswers'
  OBVIOUS
<1>0. /\ TypeOK /\ RunsOnce /\ OnTheWay(out) /\ OnTheWay(stdout) /\ Delivered
      /\ out \in Seq(Ids \X Answers) /\ stdout \in Seq(Ids \X Answers)
  BY DEF IInv, TrueAnswers, TypeOK
<1>1. RunsOnce' /\ TypeOK'
  BY RunsOnceNext, TypeNext
<1>2. \A i \in Ids : task[i] = "answered" =>
         task'[i] = "answered" /\ ran'[i] = ran[i] /\ kind'[i] = kind[i]
  BY AnsweredStays
<1>3. OnTheWay(out)'
  <2>1. \/ out' = out
        \/ out # <<>> /\ out' = Tail(out)
        \/ \E i \in Ids, a \in Answers : out' = Append(out, <<i, a>>) /\ Truthful(i, a)'
    <3>1. ASSUME NEW i \in Ids, Handle(i)
          PROVE  out' = out \/ \E a \in Answers : out' = Append(out, <<i, a>>)
                                                  /\ Truthful(i, a)'
      <4>. USE <1>0 DEF At, Answer, Answers, Truthful, RunsOnce, TypeOK
      <4>1. CASE HandleShutdown(i)
        BY <4>1 DEF HandleShutdown, Elsewhere, client
      <4>2. CASE InitializeRefused(i) \/ OpenFails(i)
        BY <4>2 DEF InitializeRefused, OpenFails
      <4>3. CASE NotInitialized(i)
        BY <4>3 DEF NotInitialized
      <4>4. CASE Initialized(i) \/ Read(i)
        <5>1. /\ ran[i] = 0 /\ ran' = [ran EXCEPT ![i] = @ + 1]
              /\ task' = [task EXCEPT ![i] = "answered"]
              /\ out' = Append(out, <<i, "ok">>)
          BY <4>4 DEF Initialized, Read
        <5>2. ran'[i] = 1 /\ task'[i] = "answered"
          BY <5>1
        <5>. QED BY <5>1, <5>2
      <4>5. CASE Reply(i)
        BY <4>5 DEF Reply
      <4>6. CASE \/ EmptySlot(i) \/ OpenSession(i) \/ Publish(i) \/ TakeSession(i)
                 \/ AwaitSession(i) \/ Enqueue(i)
        BY <4>6 DEF EmptySlot, OpenSession, Publish, TakeSession, AwaitSession, Enqueue
      <4>. QED BY <3>1, <4>1, <4>2, <4>3, <4>4, <4>5, <4>6 DEF Handle
    <3>2. CASE Write
      BY <3>2 DEF Write
    <3>3. out' = out \/ Write \/ \E i \in Ids : Handle(i)
      BY CourseOnly DEF Next, Course, vars, session, Request, TimesOut, Receive, Exited, Dispose,
                        DisposeEnds, HostDies, Accept, Swallow, Stop, Leave, Consume, Execute
    <3>. QED BY <3>1, <3>2, <3>3
  <2>2. out' \in Seq(Ids \X Answers)
    BY <1>1 DEF TypeOK
  <2>. QED BY <1>0, <1>2, <2>1, <2>2, PipeKeeps DEF OnTheWay
<1>4. OnTheWay(stdout)'
  <2>0. CASE HostDies
    <3>1. stdout' = <<>>
      BY <2>0 DEF HostDies
    <3>. QED BY <3>1 DEF OnTheWay
  <2>1. \/ HostDies
        \/ stdout' = stdout
        \/ stdout # <<>> /\ stdout' = Tail(stdout)
        \/ \E i \in Ids, a \in Answers : stdout' = Append(stdout, <<i, a>>)
                                         /\ Truthful(i, a)'
    <3>1. CASE Write /\ disposing # "crashed"
      <4>1. /\ stdout' = Append(stdout, out[1]) /\ 1 \in 1..Len(out)
            /\ out[1] = <<out[1][1], out[1][2]>> /\ out[1][1] \in Ids /\ out[1][2] \in Answers
        BY <1>0, <3>1 DEF Write
      <4>2. Truthful(out[1][1], out[1][2])
        BY <1>0, <4>1 DEF OnTheWay
      <4>3. Truthful(out[1][1], out[1][2]) => 
               \A i \in Ids, a \in Answers : out[1] = <<i, a>> => Truthful(i, a)'
        BY <1>2, <4>1 DEF Truthful
      <4>. QED BY <4>1, <4>2, <4>3
    <3>2. CASE Receive
      BY <3>2 DEF Receive
    <3>3. HostDies \/ stdout' = stdout \/ (Write /\ disposing # "crashed") \/ Receive
      BY CourseOnly
      DEF Next, Course, vars, Request, TimesOut, Exited, Dispose, DisposeEnds, Accept, Swallow,
          Stop, Leave, Write, Consume, Execute, Handle, HandleShutdown, InitializeRefused,
          EmptySlot, OpenSession, OpenFails, Publish, Initialized, TakeSession, AwaitSession,
          NotInitialized, Read, Enqueue, Reply, Elsewhere
    <3>. QED BY <3>1, <3>2, <3>3
  <2>2. stdout' \in Seq(Ids \X Answers)
    BY <1>1 DEF TypeOK
  <2>. QED BY <1>0, <1>2, <2>0, <2>1, <2>2, PipeKeeps DEF OnTheWay
<1>5. Delivered'
  <2>1. ASSUME NEW i \in Ids, call'[i] \in Answers
        PROVE  \/ call'[i] = call[i]
               \/ Truthful(i, call'[i])
    <3>1. CASE Receive
      <4>1. stdout[1][1] \in Ids /\ 1 \in 1..Len(stdout)
        BY <1>0, <3>1 DEF Receive
      <4>2. Truthful(stdout[1][1], stdout[1][2])
        BY <1>0, <4>1 DEF OnTheWay
      <4>3. \/ call'[i] = call[i]
            \/ i = stdout[1][1] /\ call'[i] = stdout[1][2]
        BY <1>0, <3>1, <4>1 DEF Receive, TypeOK
      <4>. QED BY <4>2, <4>3
    <3>2. CASE Exited \/ DisposeEnds \/ HostDies
      BY <1>0, <2>1, <3>2 DEF Exited, DisposeEnds, HostDies, RejectAllPending, TypeOK, Answers
    <3>3. CASE \E j \in Ids : TimesOut(j)
      BY <1>0, <2>1, <3>3 DEF TimesOut, TypeOK, Answers
    <3>4. CASE Dispose \/ \E j \in Ids, k \in Kinds : Request(j, k)
      BY <1>0, <2>1, <3>4 DEF Dispose, Request, Send, TypeOK, Answers
    <3>5. \/ call' = call \/ Receive \/ Exited \/ DisposeEnds \/ HostDies
          \/ (\E j \in Ids : TimesOut(j)) \/ Dispose
          \/ \E j \in Ids, k \in Kinds : Request(j, k)
      BY CourseOnly
      DEF Next, Course, vars, client, Accept, Swallow, Stop, Leave, Write, Consume, Execute,
          Handle, HandleShutdown, InitializeRefused, EmptySlot, OpenSession, OpenFails, Publish,
          Initialized, TakeSession, AwaitSession, NotInitialized, Read, Enqueue, Reply, Elsewhere
    <3>. QED BY <3>1, <3>2, <3>3, <3>4, <3>5
  <2>2. \A i \in Ids : call'[i] \in Answers => Truthful(i, call'[i])
    BY <1>0, <2>1 DEF Delivered
  <2>3. \A i \in Ids : call'[i] \in Answers =>
           /\ task'[i] = "answered"
           /\ call'[i] = "ok" /\ kind'[i] # "shutdown" => ran'[i] = 1
           /\ call'[i] \in {"error", "uninit"} => ran'[i] = 0
    BY <1>2, <2>2 DEF Truthful
  <2>. QED BY <2>3 DEF Delivered, Truthful
<1>. QED BY <1>1, <1>3, <1>4, <1>5 DEF TrueAnswers

-----------------------------------------------------------------------------
(* Every reachable state satisfies the inductive invariant.                 *)
LEMMA Inductive == Spec => []IInv
<1>1. IInv /\ [Next]_vars => IInv'
  BY TypeNext, OneSessionNext, StdinIsNewNext, QueuedOnceNext, TrueAnswersNext DEF IInv
<1>. QED BY InitIInv, <1>1, PTL DEF Spec

(* The client, the pipes and the server are well-formed, and a handler has  *)
(* a session exactly while it works with one.                               *)
THEOREM TypeCorrect == Spec => []TypeOK
<1>1. IInv => TypeOK
  BY DEF IInv
<1>. QED BY Inductive, <1>1, PTL

(* However many initializations race with each other and with commands      *)
(* under way, two sessions are never alive together.                        *)
THEOREM SessionsAreExclusive == Spec => []OneSession
<1>1. IInv => OneSession
  BY DEF IInv
<1>. QED BY Inductive, <1>1, PTL

(* No accepted write loses the session it is to run in.                     *)
THEOREM WritesAreKept == Spec => []WritesKeepTheirSession
<1>1. IInv => WritesKeepTheirSession
  <2>. SUFFICES ASSUME IInv, NEW s \in Sessions, queue[s] # <<>> PROVE Alive(s)
    BY DEF WritesKeepTheirSession
  <2>1. queue[s] \in Seq(Ids) /\ 1 \in 1..Len(queue[s])
    BY DEF IInv, TypeOK
  <2>2. queue[s][1] \in Ids /\ holds[queue[s][1]] = s
    BY <2>1 DEF IInv, QueuedOnce, InQueue, Suspended
  <2>. QED BY <2>2 DEF Alive
<1>. QED BY Inductive, <1>1, PTL

(* No request runs twice, and what the client is told of it is true.        *)
THEOREM AnswersAreTrue == Spec => []AnswersAreHonest
<1>1. IInv => AnswersAreHonest
  BY DEF IInv, TrueAnswers, Delivered, RunsOnce, Truthful, Answers, AnswersAreHonest
<1>. QED BY Inductive, <1>1, PTL

-----------------------------------------------------------------------------
(* The first session.                                                       *)

AtMostOneInitialize == \A i, j \in Initializes : i = j

(* "uninit" was answered to somebody.                                       *)
Uninit(pipe) == \E n \in 1..Len(pipe) : pipe[n][2] = "uninit"
UninitGiven ==
    \/ Uninit(out) \/ Uninit(stdout)
    \/ \E i \in Ids : call[i] = "uninit"

(* What was not sent is no request yet, and only an initialize opens a      *)
(* session.                                                                 *)
RequestsAreSent == \A i \in Ids : call[i] = "unsent" => kind[i] = "none"
InitializesOpen ==
    \A i \in Ids : task[i] \in {"locking", "opened", "published"} => kind[i] = "initialize"

(* Before its loop is left the server releases the waiters, and one of them *)
(* tells its client that there is no session, only when the initialize has  *)
(* ended, the latter when it has failed as well.                            *)
OneIsAwaited ==
    AtMostOneInitialize /\ loop = "serving" =>
        /\ ready => \E i \in Initializes : task[i] = "answered"
        /\ \A i \in Initializes : task[i] = "published" => slot # 0
        /\ UninitGiven => slot = 0 /\ \E i \in Initializes : task[i] = "answered"

FirstInv == RequestsAreSent /\ InitializesOpen /\ OneIsAwaited

(* Nothing was requested.                                                  *)
LEMMA InitFirstInv == Init => FirstInv
BY DEF Init, FirstInv, RequestsAreSent, InitializesOpen, OneIsAwaited, UninitGiven, Uninit,
       Initializes

(* A kind is given with the promise, once.                                  *)
LEMMA KindsAreGivenOnce ==
    IInv /\ RequestsAreSent /\ [Next]_vars =>
        /\ RequestsAreSent'
        /\ \A i \in Ids : call[i] # "unsent" => kind'[i] = kind[i] /\ call'[i] # "unsent"
<1>. SUFFICES ASSUME IInv, RequestsAreSent, [Next]_vars
     PROVE  /\ RequestsAreSent'
            /\ \A i \in Ids : call[i] # "unsent" => kind'[i] = kind[i] /\ call'[i] # "unsent"
  OBVIOUS
<1>0. TypeOK /\ StdinIsNew
  BY DEF IInv
<1>1. ASSUME NEW j \in Ids, NEW k \in Kinds, Send(j, k)
      PROVE  /\ RequestsAreSent'
             /\ \A i \in Ids : call[i] # "unsent" => kind'[i] = kind[i] /\ call'[i] # "unsent"
  BY <1>0, <1>1 DEF Send, IsNext, RequestsAreSent, TypeOK
<1>2. CASE (\E j \in Ids, k \in Kinds : Request(j, k)) \/ Dispose
  BY <1>1, <1>2 DEF Request, Dispose, Kinds
<1>3. CASE Receive
  <2>1. stdout[1] \in Ids \X Answers
    BY <1>0, <1>3 DEF Receive, TypeOK
  <2>2. kind' = kind /\ \A i \in Ids : call'[i] = call[i]
                                       \/ (call[i] = "pending" /\ call'[i] \in Answers)
    BY <1>0, <1>3, <2>1 DEF Receive, TypeOK
  <2>. QED BY <2>2 DEF RequestsAreSent, Answers
<1>4. CASE Exited \/ DisposeEnds \/ HostDies \/ \E j \in Ids : TimesOut(j)
  <2>1. kind' = kind /\ \A i \in Ids : call'[i] = call[i]
                                       \/ (call[i] = "pending" /\ call'[i] \in {"lost", "timeout"})
    BY <1>0, <1>4 DEF Exited, DisposeEnds, HostDies, TimesOut, RejectAllPending, TypeOK
  <2>. QED BY <2>1 DEF RequestsAreSent
<1>5. CASE UNCHANGED <<kind, call>>
  BY <1>5 DEF RequestsAreSent
<1>6. \/ (\E j \in Ids, k \in Kinds : Request(j, k)) \/ Dispose \/ Receive
      \/ Exited \/ DisposeEnds \/ HostDies \/ (\E j \in Ids : TimesOut(j))
      \/ UNCHANGED <<kind, call>>
  BY CourseOnly
  DEF Next, Course, vars, client, Accept, Swallow, Stop, Leave, Write, Consume, Execute,
      Handle, HandleShutdown, InitializeRefused, EmptySlot, OpenSession, OpenFails, Publish,
      Initialized, TakeSession, AwaitSession, NotInitialized, Read, Enqueue, Reply, Elsewhere
<1>. QED BY <1>2, <1>3, <1>4, <1>5, <1>6

(* The steps of the server that have to do with its first session.          *)
Opens(i) == \/ EmptySlot(i) \/ OpenSession(i) \/ OpenFails(i) \/ Publish(i) \/ Initialized(i)

(* Only those of an initialize change the slot or release waiters while the *)
(* loop serves, and it never serves again.                                  *)
LEMMA OnlyInitializeOpens ==
    IInv /\ [Next]_vars /\ loop' = "serving" =>
        /\ loop = "serving"
        /\ \/ \E i \in Ids : Opens(i)
           \/ UNCHANGED <<slot, ready>>
<1>. SUFFICES ASSUME IInv, [Next]_vars, loop' = "serving"
     PROVE  loop = "serving" /\ ((\E i \in Ids : Opens(i)) \/ UNCHANGED <<slot, ready>>)
  OBVIOUS
<1>1. ASSUME NEW i \in Ids, Handle(i) PROVE loop' = loop /\ (Opens(i) \/ UNCHANGED <<slot, ready>>)
  BY <1>1 DEF Handle, Opens, HandleShutdown, InitializeRefused, EmptySlot, OpenSession, OpenFails,
              Publish, Initialized, TakeSession, AwaitSession, NotInitialized, Read, Enqueue, Reply,
              Elsewhere, session
<1>2. CASE Course
  BY <1>2 DEF Course, ReaderEnds, RefuseFrame, Joined, WriterStops, Exit, Signal, Die, ParentGone,
              session
<1>3. (\E i \in Ids : Handle(i)) \/ Course \/ (loop = "serving" /\ UNCHANGED <<slot, ready>>)
  BY DEF Next, Course, vars, session, Request, TimesOut, Receive, Exited, Dispose, DisposeEnds,
         HostDies, Accept, Swallow, Write, Stop, Leave, Consume, Execute, Elsewhere
<1>. QED BY <1>1, <1>2, <1>3

(* And only they make a handler one that opens a session or has published it. *)
LEMMA OnlyInitializesOpen ==
    IInv /\ [Next]_vars =>
        \A j \in Ids : task'[j] \in {"locking", "opened", "published"} =>
            \/ task'[j] = task[j]
            \/ Opens(j) /\ \/ task[j] \in {"locking", "opened"}
                           \/ kind[j] = "initialize"
<1>. SUFFICES ASSUME IInv, [Next]_vars, NEW j \in Ids,
                     task'[j] \in {"locking", "opened", "published"}
     PROVE  \/ task'[j] = task[j]
            \/ Opens(j) /\ \/ task[j] \in {"locking", "opened"}
                           \/ kind[j] = "initialize"
  OBVIOUS
<1>0. TypeOK /\ StdinIsNew /\ QueuedOnce
  BY DEF IInv
<1>1. ASSUME NEW i \in Ids, Handle(i), i # j PROVE task'[j] = task[j]
  BY <1>0, <1>1
  DEF Handle, HandleShutdown, InitializeRefused, EmptySlot, OpenSession, OpenFails, Publish,
      Initialized, TakeSession, AwaitSession, NotInitialized, Read, Enqueue, Reply, Answer, TypeOK
<1>2. CASE Handle(j)
  <2>1. \/ Opens(j)
        \/ \E a \in {"running", "waiting", "queued", "answered"} : task' = [task EXCEPT ![j] = a]
    BY <1>2
    DEF Handle, Opens, HandleShutdown, InitializeRefused, TakeSession, AwaitSession, NotInitialized,
        Read, Enqueue, Reply, Answer
  <2>2. Opens(j)
    BY <1>0, <2>1 DEF TypeOK
  <2>3. \/ task[j] \in {"locking", "opened"} \/ kind[j] = "initialize" \/ task'[j] = "answered"
    BY <1>0, <2>2 DEF Opens, EmptySlot, OpenSession, OpenFails, Publish, Initialized, At, Answer,
                      TypeOK
  <2>. QED BY <2>2, <2>3
<1>3. CASE Accept
  <2>1. stdin[1] \in Ids /\ task' = [task EXCEPT ![stdin[1]] = "begun"]
    BY <1>0, <1>3 DEF Accept, TypeOK
  <2>. QED BY <1>0, <2>1 DEF TypeOK
<1>4. ASSUME NEW s \in Sessions, Execute(s) PROVE task'[j] = task[j]
  <2>1. task' = [task EXCEPT ![consumer[s]] = "replied"]
    BY <1>4 DEF Execute
  <2>. QED BY <1>0, <2>1 DEF TypeOK
<1>5. \/ UNCHANGED task \/ Accept \/ (\E i \in Ids : Handle(i)) \/ \E s \in Sessions : Execute(s)
  BY CourseOnly DEF Next, Course, vars, Request, TimesOut, Receive, Exited, Dispose, DisposeEnds,
                    HostDies, Swallow, Stop, Leave, Write, Consume
<1>. QED BY <1>1, <1>2, <1>3, <1>4, <1>5

(* "uninit" is what one kind of step says, or was said before.              *)
LEMMA UninitIsGiven ==
    IInv /\ [Next]_vars /\ UninitGiven' => UninitGiven \/ \E i \in Ids : NotInitialized(i)
<1>. SUFFICES ASSUME IInv, [Next]_vars, UninitGiven', \A i \in Ids : ~NotInitialized(i)
     PROVE  UninitGiven
  OBVIOUS
<1>0. TypeOK /\ out \in Seq(Ids \X Answers) /\ stdout \in Seq(Ids \X Answers)
  BY DEF IInv, TypeOK
<1>1. Uninit(out)' => Uninit(out)
  <2>1. \/ out' = out
        \/ out # <<>> /\ out' = Tail(out)
        \/ \E i \in Ids, a \in {"ok", "error"} : out' = Append(out, <<i, a>>)
    <3>1. ASSUME NEW i \in Ids, Handle(i)
          PROVE  out' = out \/ \E a \in {"ok", "error"} : out' = Append(out, <<i, a>>)
      BY <3>1
      DEF Handle, HandleShutdown, InitializeRefused, EmptySlot, OpenSession, OpenFails, Publish,
          Initialized, TakeSession, AwaitSession, Read, Enqueue, Reply, Answer
    <3>2. out' = out \/ Write \/ \E i \in Ids : Handle(i)
      BY CourseOnly DEF Next, Course, vars, Request, TimesOut, Receive, Exited, Dispose,
                        DisposeEnds, HostDies, Accept, Swallow, Stop, Leave, Consume, Execute
    <3>. QED BY <3>1, <3>2 DEF Write
  <2>2. CASE out' = out
    BY <2>2 DEF Uninit
  <2>3. CASE out # <<>> /\ out' = Tail(out)
    <3>1. \A n \in 1..Len(out') : n + 1 \in 1..Len(out) /\ out'[n] = out[n + 1]
      BY <1>0, <2>3
    <3>. QED BY <3>1 DEF Uninit
  <2>4. ASSUME NEW i \in Ids, NEW a \in {"ok", "error"}, out' = Append(out, <<i, a>>)
        PROVE  Uninit(out)' => Uninit(out)
    <3>1. \A n \in 1..Len(out') : \/ n \in 1..Len(out) /\ out'[n] = out[n]
                                  \/ out'[n] = <<i, a>>
      BY <1>0, <2>4
    <3>. QED BY <3>1 DEF Uninit
  <2>. QED BY <2>1, <2>2, <2>3, <2>4
<1>2. Uninit(stdout)' => Uninit(stdout) \/ Uninit(out)
  <2>1. \/ stdout' = stdout \/ stdout' = <<>>
        \/ stdout # <<>> /\ stdout' = Tail(stdout)
        \/ out # <<>> /\ stdout' = Append(stdout, Head(out))
    BY CourseOnly
    DEF Next, Course, vars, Request, TimesOut, Receive, Exited, Dispose, DisposeEnds, HostDies,
        Accept, Swallow, Stop, Leave, Write, Consume, Execute, Handle, HandleShutdown,
        InitializeRefused, EmptySlot, OpenSession, OpenFails, Publish, Initialized, TakeSession,
        AwaitSession, NotInitialized, Read, Enqueue, Reply, Elsewhere
  <2>2. CASE out # <<>> /\ stdout' = Append(stdout, Head(out))
    <3>1. Head(out) = out[1] /\ 1 \in 1..Len(out) /\ out[1] \in Ids \X Answers
      BY <1>0, <2>2
    <3>2. \A n \in 1..Len(stdout') : \/ n \in 1..Len(stdout) /\ stdout'[n] = stdout[n]
                                     \/ stdout'[n] = out[1]
      BY <1>0, <2>2, <3>1
    <3>. QED BY <3>1, <3>2 DEF Uninit
  <2>3. CASE stdout # <<>> /\ stdout' = Tail(stdout)
    <3>1. \A n \in 1..Len(stdout') : n + 1 \in 1..Len(stdout) /\ stdout'[n] = stdout[n + 1]
      BY <1>0, <2>3
    <3>. QED BY <3>1 DEF Uninit
  <2>. QED BY <2>1, <2>2, <2>3 DEF Uninit
<1>3. ASSUME NEW i \in Ids, call'[i] = "uninit" PROVE UninitGiven
  <2>1. CASE Receive
    <3>1. 1 \in 1..Len(stdout) /\ stdout[1] \in Ids \X Answers /\ Head(stdout) = stdout[1]
      BY <1>0, <2>1 DEF Receive
    <3>2. call'[i] = call[i] \/ call'[i] = stdout[1][2]
      BY <1>0, <2>1, <3>1 DEF Receive, TypeOK
    <3>. QED BY <1>3, <3>1, <3>2 DEF UninitGiven, Uninit
  <2>2. CASE Exited \/ DisposeEnds \/ HostDies \/ (\E j \in Ids : TimesOut(j)) \/ Dispose
             \/ \E j \in Ids, k \in Kinds : Request(j, k)
    <3>1. call'[i] = call[i]
      BY <1>0, <1>3, <2>2 DEF Exited, DisposeEnds, HostDies, TimesOut, Dispose, Request, Send,
                              RejectAllPending, TypeOK
    <3>. QED BY <1>3, <3>1 DEF UninitGiven
  <2>3. CASE call' = call
    BY <1>3, <2>3 DEF UninitGiven
  <2>4. \/ call' = call \/ Receive \/ Exited \/ DisposeEnds \/ HostDies
        \/ (\E j \in Ids : TimesOut(j)) \/ Dispose
        \/ \E j \in Ids, k \in Kinds : Request(j, k)
    BY CourseOnly
    DEF Next, Course, vars, client, Accept, Swallow, Stop, Leave, Write, Consume, Execute,
        Handle, HandleShutdown, InitializeRefused, EmptySlot, OpenSession, OpenFails, Publish,
        Initialized, TakeSession, AwaitSession, NotInitialized, Read, Enqueue, Reply, Elsewhere
  <2>. QED BY <2>1, <2>2, <2>3, <2>4
<1>. QED BY <1>1, <1>2, <1>3 DEF UninitGiven

(* While there is one initialize the waiters depend on nothing else.        *)
LEMMA OneIsAwaitedNext == IInv /\ FirstInv /\ [Next]_vars => OneIsAwaited'
<1>. SUFFICES ASSUME IInv, FirstInv, [Next]_vars, AtMostOneInitialize', loop' = "serving"
     PROVE  /\ ready' => \E i \in Initializes' : task'[i] = "answered"
            /\ \A i \in Initializes' : task'[i] = "published" => slot' # 0
            /\ UninitGiven' => slot' = 0 /\ \E i \in Initializes' : task'[i] = "answered"
  BY DEF OneIsAwaited
<1>0. TypeOK /\ StdinIsNew /\ RequestsAreSent /\ InitializesOpen
  BY DEF IInv, FirstInv
<1>1. \A i \in Ids : kind[i] = "initialize" => kind'[i] = "initialize"
  BY <1>0, KindsAreGivenOnce DEF RequestsAreSent
<1>2. AtMostOneInitialize /\ loop = "serving"
  BY <1>1, OnlyInitializeOpens DEF AtMostOneInitialize, Initializes
<1>3. /\ ready => \E i \in Initializes : task[i] = "answered"
      /\ \A i \in Initializes : task[i] = "published" => slot # 0
      /\ UninitGiven => slot = 0 /\ \E i \in Initializes : task[i] = "answered"
  BY <1>2 DEF FirstInv, OneIsAwaited
<1>4. \A i \in Initializes : task[i] = "answered" => i \in Initializes' /\ task'[i] = "answered"
  BY <1>1, AnsweredStays DEF Initializes
<1>5. ASSUME NEW i \in Ids, Opens(i)
      PROVE  /\ i \in Initializes /\ i \in Initializes' /\ task[i] # "answered"
             /\ ~ready /\ ~UninitGiven
  <2>1. i \in Initializes /\ task[i] # "answered"
    BY <1>0, <1>5 DEF Opens, EmptySlot, OpenSession, OpenFails, Publish, Initialized, At,
                      InitializesOpen, Initializes
  <2>2. ~\E j \in Initializes : task[j] = "answered"
    BY <1>2, <2>1 DEF AtMostOneInitialize
  <2>. QED BY <1>1, <1>3, <2>1, <2>2 DEF Initializes
<1>6. ready' => \E i \in Initializes' : task'[i] = "answered"
  <2>1. ASSUME NEW i \in Ids, Opens(i), ready'
        PROVE  i \in Initializes' /\ task'[i] = "answered"
    BY <1>0, <1>5, <2>1
    DEF Opens, EmptySlot, OpenSession, OpenFails, Publish, Initialized, Answer, TypeOK
  <2>. QED BY <1>3, <1>4, <2>1, OnlyInitializeOpens
<1>7. ASSUME NEW j \in Initializes', task'[j] = "published" PROVE slot' # 0
  <2>0. j \in Ids
    BY DEF Initializes
  <2>1. ASSUME NEW i \in Ids, Opens(i) PROVE slot' # 0
    <3>1. i = j
      BY <1>5, <2>1 DEF AtMostOneInitialize
    <3>2. Publish(j)
      BY <1>0, <1>7, <2>0, <2>1, <3>1
      DEF Opens, EmptySlot, OpenSession, OpenFails, Initialized, Answer, TypeOK
    <3>. QED BY <1>0, <2>0, <3>2 DEF Publish, At, TypeOK
  <2>2. CASE UNCHANGED <<slot, ready>> /\ ~\E i \in Ids : Opens(i)
    <3>1. task[j] = "published"
      BY <1>7, <2>0, <2>2, OnlyInitializesOpen
    <3>2. j \in Initializes
      BY <1>0, <2>0, <3>1 DEF InitializesOpen, Initializes
    <3>. QED BY <1>3, <2>2, <3>1, <3>2
  <2>. QED BY <2>1, <2>2, OnlyInitializeOpens
<1>8. ASSUME UninitGiven' PROVE slot' = 0 /\ \E i \in Initializes' : task'[i] = "answered"
  <2>1. CASE UninitGiven
    <3>1. UNCHANGED <<slot, ready>>
      BY <1>5, <2>1, OnlyInitializeOpens
    <3>. QED BY <1>3, <1>4, <2>1, <3>1
  <2>2. ASSUME NEW i \in Ids, NotInitialized(i)
        PROVE  slot' = 0 /\ \E j \in Initializes' : task'[j] = "answered"
    <3>1. ready /\ slot = 0 /\ slot' = 0
      BY <2>2 DEF NotInitialized, session
    <3>. QED BY <1>3, <1>4, <3>1
  <2>. QED BY <1>8, <2>1, <2>2, UninitIsGiven
<1>. QED BY <1>6, <1>7, <1>8

(* So the invariant of the first session holds in every reachable state.    *)
LEMMA FirstInvariance == Spec => []FirstInv
<1>1. IInv /\ FirstInv /\ [Next]_vars => FirstInv'
  <2>. SUFFICES ASSUME IInv, FirstInv, [Next]_vars PROVE FirstInv'
    OBVIOUS
  <2>0. TypeOK /\ StdinIsNew /\ RequestsAreSent /\ InitializesOpen
    BY DEF IInv, FirstInv
  <2>1. ASSUME NEW j \in Ids, task'[j] \in {"locking", "opened", "published"}
        PROVE  kind'[j] = "initialize"
    <3>1. task[j] # "none" /\ kind[j] = "initialize"
      BY <2>0, <2>1, OnlyInitializesOpen
      DEF InitializesOpen, Opens, EmptySlot, OpenSession, OpenFails, Publish, Initialized, At
    <3>2. call[j] # "unsent"
      BY <2>0, <3>1 DEF StdinIsNew
    <3>. QED BY <2>0, <3>1, <3>2, KindsAreGivenOnce
  <2>2. InitializesOpen'
    BY <2>1 DEF InitializesOpen
  <2>. QED BY <2>0, <2>2, KindsAreGivenOnce, OneIsAwaitedNext DEF FirstInv
<1>. QED BY Inductive, InitFirstInv, <1>1, PTL DEF Spec

(* Nobody is told that there is no session while the only initialize can    *)
(* still provide one, whichever of the two was handled first.               *)
THEOREM FirstSessionWaits == Spec => []FirstSessionIsAwaited
<1>1. FirstInv => FirstSessionIsAwaited
  <2>. SUFFICES ASSUME FirstInv, Cardinality(Initializes) = 1, loop = "serving",
                       \A i \in Initializes : task[i] # "answered" \/ slot # 0,
                       NEW i \in Ids, call[i] = "uninit"
       PROVE  FALSE
    BY DEF FirstSessionIsAwaited
  <2>1. IsFiniteSet(Initializes)
    <3>1. IsFiniteSet(1..MaxRequests)
      BY FS_Interval, RequestsAssumption
    <3>2. Initializes \subseteq 1..MaxRequests
      BY DEF Initializes, Ids
    <3>. QED BY <3>1, <3>2, FS_Subset
  <2>2. \E x : Initializes = {x}
    BY <2>1, FS_Singleton
  <2>3. AtMostOneInitialize
    BY <2>2 DEF AtMostOneInitialize
  <2>. QED BY <2>3 DEF FirstInv, OneIsAwaited, UninitGiven
<1>. QED BY FirstInvariance, <1>1, PTL

=============================================================================
