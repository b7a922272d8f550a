--------------------------- MODULE GraphEpochProofs ---------------------------
(****************************************************************************)
(* Which pages the commit graph shows, for every number of commits, changes *)
(* and requests: the labels of the engine's answers are true, and the       *)
(* answers to older requests do not come back.                              *)
(****************************************************************************)
EXTENDS GraphEpoch, FiniteSetTheorems, SequenceTheorems, TLAPS

(* No log is ever empty.                                                    *)
Logs == Seq(Ids) \ {<<>>}

(* Every change of the repository's history is counted.                     *)
RepoOK ==
    /\ history \in Seq(Logs) /\ changes \in 0..MaxChanges
    /\ fs \subseteq {"refs", "index"}
    /\ Version <= changes + 1

EngineOK ==
    /\ epoch \in Nat \ {0} /\ bumped \in 1..Version
    /\ writer \in {"idle", "commit", "stage", "reset"} /\ toEmit \in 0..epoch

EventsUpTo(n) == [kind : {"index", "graph"}, epoch : 1..n]

EventsOK == events \in Seq(EventsUpTo(epoch))

HostOK ==
    /\ known \in 1..epoch /\ invalid \in 0..epoch
    /\ timer \in Viewports \cup {None} /\ failed \in BOOLEAN

WebOK ==
    /\ view \in Offsets /\ anchor \in Ids \cup {None}
    /\ rows \in [Rows -> Ids \cup {None}] /\ moved \in BOOLEAN
    /\ scrolls \in 0..MaxScrolls /\ shown \in 0..Version

(* Whether a request waits for, or has got, a page.                         *)
HasPage(r) == r.stage \in {"read", "served"}
IsPage(r) == ~r.probe /\ r.newest

(* An answer names an epoch the engine has reached; a page was walked no    *)
(* earlier than its epoch began, and the one that may be shown no earlier   *)
(* than the one that is shown.                                              *)
RequestOK(r) ==
    /\ r \in Requests
    /\ r.probe => r.notified \in 1..epoch
    /\ r.asked <= epoch /\ r.epoch <= epoch /\ r.version <= Version
    /\ r.stage # "sent" => r.epoch >= 1
    /\ HasPage(r) => r.version >= 1
    /\ HasPage(r) /\ r.epoch = epoch => r.version >= bumped
    /\ HasPage(r) /\ IsPage(r) => r.version >= shown

RequestsOK ==
    /\ \A r \in reads : RequestOK(r)
    /\ \A r, s \in reads : IsPage(r) /\ IsPage(s) => r = s
    /\ IsFiniteSet(reads) /\ Cardinality(reads) <= MaxReads

IInv == RepoOK /\ EngineOK /\ EventsOK /\ HostOK /\ WebOK /\ RequestsOK

-----------------------------------------------------------------------------
(* The type invariant says no more than the strengthening.                  *)
LEMMA OneNewestCounts ==
    ASSUME RequestsOK
    PROVE  Cardinality({r \in reads : ~r.probe /\ r.newest}) <= 1
<1>. DEFINE N == {r \in reads : ~r.probe /\ r.newest}
<1>1. \A r, s \in N : r = s
  BY DEF RequestsOK, IsPage
<1>2. CASE N = {}
  BY <1>2, FS_EmptySet
<1>3. ASSUME NEW r \in N PROVE Cardinality(N) <= 1
  <2>1. N = {r}
    BY <1>1
  <2>2. Cardinality({r}) = 1
    BY FS_Singleton
  <2>. QED BY <2>1, <2>2
<1>. QED BY <1>2, <1>3

(* So the type invariant follows from the strengthening.                    *)
LEMMA StrengtheningIsTyped == IInv => TypeOK
<1>. SUFFICES ASSUME IInv PROVE TypeOK
  OBVIOUS
<1>1. \A i \in DOMAIN events : events[i] \in [kind : {"index", "graph"}, epoch : 1..epoch]
  BY LenProperties, ElementOfSeq DEF IInv, EventsOK, EventsUpTo
<1>2. /\ reads \subseteq Requests /\ Cardinality(reads) <= MaxReads
      /\ \A r \in reads : r.epoch <= epoch /\ r.asked <= epoch /\ r.version <= Version
  BY DEF IInv, RequestsOK, RequestOK
<1>3. Cardinality({r \in reads : ~r.probe /\ r.newest}) <= 1
  BY OneNewestCounts DEF IInv
<1>. QED BY <1>1, <1>2, <1>3 DEF IInv, TypeOK, RepoOK, Logs, EngineOK, HostOK, WebOK

-----------------------------------------------------------------------------
(* The repository has a log, and a change appends one to its history.       *)
LEMMA LogIsTyped ==
    ASSUME RepoOK, EngineOK
    PROVE  Log \in Logs /\ Version \in Nat \ {0} /\ history # <<>>
<1>1. Version \in Nat \ {0}
  BY LenProperties DEF RepoOK, EngineOK, Version
<1>. QED BY <1>1, ElementOfSeq DEF RepoOK, Log, Last, Version

(* A commit adds an id that is new, a reset takes the newest one off, and a *)
(* staging leaves the log alone.                                            *)
LEMMA ChangeOK ==
    ASSUME RepoOK, EngineOK, NEW kind \in {"commit", "stage", "reset"}, Change(kind)
    PROVE  RepoOK' /\ Version' \in Nat /\ Version' >= Version
<1>1. Log \in Logs /\ Version \in Nat \ {0}
  BY LogIsTyped
<1>2. /\ changes \in Nat /\ changes < MaxChanges /\ changes' = changes + 1
      /\ MaxChanges \in Nat /\ Commits \in Nat
  BY SizesAssumption DEF RepoOK, Change
<1>3. changes' \in 0..MaxChanges /\ fs' \subseteq {"refs", "index"}
  BY <1>2 DEF RepoOK, Change, Touches
<1>4. ASSUME NEW log \in Logs, history' = Append(history, log)
      PROVE  RepoOK' /\ Version' \in Nat /\ Version' >= Version
  <2>1. history' \in Seq(Logs) /\ Version' = Version + 1
    BY <1>4, AppendProperties DEF RepoOK, Version
  <2>. QED BY <1>1, <1>2, <1>3, <2>1 DEF RepoOK
<1>5. CASE kind = "stage"
  <2>1. history' = history
    BY <1>5 DEF Change
  <2>. QED BY <1>1, <1>2, <1>3, <2>1 DEF RepoOK, Version
<1>6. CASE kind = "commit"
  <2>1. Commits + Version \in Ids
    BY <1>1, <1>2 DEF Ids, RepoOK
  <2>2. <<Commits + Version>> \in Seq(Ids)
    BY <2>1
  <2>3. <<Commits + Version>> \o Log \in Logs
    <3>1. /\ Len(<<Commits + Version>>) = 1 /\ Len(Log) \in Nat /\ Log \in Seq(Ids)
          /\ <<Commits + Version>> \o Log \in Seq(Ids)
          /\ Len(<<Commits + Version>> \o Log) = Len(<<Commits + Version>>) + Len(Log)
      BY <1>1, <2>2, ConcatProperties, LenProperties DEF Logs
    <3>. QED BY <3>1, EmptySeq DEF Logs
  <2>4. history' = Append(history, <<Commits + Version>> \o Log)
    BY <1>6 DEF Change
  <2>. QED BY <1>4, <2>3, <2>4
<1>7. CASE kind = "reset"
  <2>1. Len(Log) > 1 /\ history' = Append(history, Tail(Log))
    BY <1>7 DEF Change
  <2>2. Log # <<>>
    BY <2>1, EmptySeq
  <2>3. Tail(Log) \in Logs
    <3>1. Tail(Log) \in Seq(Ids) /\ Len(Tail(Log)) = Len(Log) - 1 /\ Len(Log) \in Nat
      BY <1>1, <2>2, HeadTailProperties, LenProperties DEF Logs
    <3>. QED BY <2>1, <3>1, EmptySeq DEF Logs
  <2>. QED BY <1>4, <2>1, <2>3
<1>. QED BY <1>5, <1>6, <1>7

(* The history and the epoch only grow, and an epoch is bumped for the log  *)
(* of its beginning.                                                        *)
Grows ==
    /\ RepoOK' /\ EngineOK'
    /\ Version' \in Nat /\ Version' >= Version
    /\ epoch' \in Nat /\ epoch' >= epoch
    /\ epoch' = epoch => bumped' = bumped

(* No step takes a log from the history, or moves the epoch back; a bump    *)
(* takes the log that is current.                                           *)
LEMMA GrowsNext == RepoOK /\ EngineOK /\ [Next]_vars => Grows
<1>. SUFFICES ASSUME RepoOK, EngineOK, [Next]_vars PROVE Grows
  OBVIOUS
<1>1. Version \in Nat \ {0}
  BY LogIsTyped
<1>2. ASSUME NEW kind \in {"commit", "stage", "reset"}, Write(kind) PROVE Grows
  <2>1. RepoOK' /\ Version' \in Nat /\ Version' >= Version
    BY <1>2, ChangeOK DEF Write
  <2>2. writer' \in {"idle", "commit", "stage", "reset"} /\ UNCHANGED <<epoch, bumped, toEmit>>
    BY <1>2 DEF Write
  <2>. QED BY <1>1, <2>1, <2>2 DEF EngineOK, Grows
<1>3. ASSUME NEW kind \in {"commit", "stage", "reset"}, External(kind) PROVE Grows
  <2>1. RepoOK' /\ Version' \in Nat /\ Version' >= Version
    BY <1>3, ChangeOK DEF External
  <2>2. UNCHANGED <<epoch, bumped, writer, toEmit>>
    BY <1>3 DEF External, engine
  <2>. QED BY <1>1, <2>1, <2>2 DEF EngineOK, Grows
<1>4. ASSUME UNCHANGED repo PROVE RepoOK' /\ Version' = Version
  BY <1>4 DEF repo, RepoOK, Version
<1>6. CASE UNCHANGED <<repo, engine>>
  BY <1>1, <1>4, <1>6 DEF engine, EngineOK, Grows
<1>7. CASE QueueBumps
  BY <1>1, <1>4, <1>7 DEF QueueBumps, BumpEpoch, EngineOK, Grows
<1>8. CASE QueueEmits
  BY <1>1, <1>4, <1>8 DEF QueueEmits, EngineOK, Grows
<1>5. CASE Watch
  <2>1. UNCHANGED <<history, changes, writer, toEmit>> /\ fs' \subseteq fs /\ BumpEpoch
    BY <1>5 DEF Watch
  <2>2. RepoOK' /\ Version' = Version
    BY <2>1 DEF RepoOK, Version
  <2>. QED BY <1>1, <2>1, <2>2 DEF BumpEpoch, EngineOK, Grows
<1>. QED BY <1>2, <1>3, <1>5, <1>6, <1>7, <1>8
     DEF Next, Proceed, vars, Read, Answer, Notified, Probe,
         RequestGraph, Probed, ShowPage, Retry, GiveUp, Drop, Moved, Scroll, RequestViewport

-----------------------------------------------------------------------------
(* A notification is of an epoch that the engine has reached.               *)
LEMMA EventsOKNext == IInv /\ [Next]_vars => EventsOK'
<1>. SUFFICES ASSUME IInv, [Next]_vars PROVE EventsOK'
  OBVIOUS
<1>0. Grows /\ EventsOK /\ EngineOK
  BY GrowsNext DEF IInv
<1>. DEFINE E == EventsUpTo(epoch')
<1>1. events \in Seq(E)
  <2>1. EventsUpTo(epoch) \subseteq E
    BY <1>0 DEF EventsUpTo, Grows, EngineOK
  <2>. QED BY <1>0, <2>1, SeqMonotonic DEF EventsOK
<1>2. CASE UNCHANGED events
  BY <1>1, <1>2 DEF EventsOK
<1>3. CASE QueueEmits
  <2>1. [kind |-> "graph", epoch |-> toEmit] \in E
    BY <1>0, <1>3 DEF QueueEmits, EventsUpTo, EngineOK
  <2>. QED BY <1>1, <1>3, <2>1, AppendProperties DEF QueueEmits, EventsOK
<1>4. CASE Watch
  <2>1. ASSUME NEW kind \in {"index", "graph"}, NEW seen
        PROVE  Notices(kind, seen) \in Seq(E)
    <3>1. [kind |-> kind, epoch |-> epoch'] \in E
      BY <1>0 DEF EventsUpTo, Grows, EngineOK
    <3>2. <<[kind |-> kind, epoch |-> epoch']>> \in Seq(E) /\ <<>> \in Seq(E)
      BY <3>1, EmptySeq
    <3>. QED BY <3>2 DEF Notices
  <2>2. PICK batch \in SUBSET fs \ {{}} :
           events' = events \o Notices("index", "index" \in batch)
                            \o Notices("graph", "refs" \in batch)
    BY <1>4 DEF Watch
  <2>3. events \o Notices("index", "index" \in batch) \in Seq(E)
    BY <1>1, <2>1, ConcatProperties
  <2>4. events' \in Seq(E)
    BY <2>1, <2>2, <2>3, ConcatProperties
  <2>. QED BY <2>4 DEF EventsOK
<1>5. CASE Notified
  BY <1>1, <1>5, HeadTailProperties DEF Notified, EventsOK
<1>. QED BY <1>2, <1>3, <1>4, <1>5
     DEF Next, Proceed, vars, web, Write, External, QueueBumps, Read, Answer, Probe, RequestGraph,
         Probed, ShowPage, Retry, GiveUp, Drop, Moved, Scroll, RequestViewport

(* The webview asks for a viewport it has.                                  *)
LEMMA ViewportIsTyped ==
    ASSUME WebOK, view' \in Offsets, RequestViewport
    PROVE  anchor' \in Ids \cup {None} /\ timer' \in Viewports
<1>1. view' \in Rows
  BY SizesAssumption DEF Rows
<1>2. anchor' \in Ids \cup {None}
  BY <1>1 DEF RequestViewport, WebOK
<1>. QED BY <1>2 DEF RequestViewport, Viewports

(* A user who scrolls, or a browser.                                        *)
LEMMA ScrollsAsk ==
    ASSUME WebOK, Moved \/ \E o \in Offsets : Scroll(o)
    PROVE  /\ view' \in Offsets /\ anchor' \in Ids \cup {None}
           /\ timer' = [offset |-> view', anchor |-> anchor'] /\ timer' \in Viewports
           /\ moved' = FALSE /\ scrolls' \in 0..MaxScrolls
           /\ UNCHANGED <<repo, engine, events, reads, known, invalid, failed, rows, shown>>
<1>1. view' \in Offsets /\ RequestViewport
  BY DEF Moved, Scroll, WebOK
<1>2. scrolls' \in 0..MaxScrolls
  BY SizesAssumption DEF Moved, Scroll, WebOK
<1>. QED BY <1>1, <1>2, ViewportIsTyped DEF RequestViewport

(* What the extension and the webview keep of what they are told.           *)
LEMMA HostOKNext == IInv /\ [Next]_vars => HostOK'
<1>. SUFFICES ASSUME IInv, [Next]_vars PROVE HostOK'
  OBVIOUS
<1>0. Grows /\ EventsOK /\ EngineOK /\ HostOK /\ WebOK
  BY GrowsNext DEF IInv
<1>1. 0..epoch \subseteq 0..epoch' /\ 1..epoch \subseteq 1..epoch'
  BY <1>0 DEF Grows, EngineOK
<1>2. \A r \in reads : RequestOK(r) /\ r \in Requests
  BY DEF IInv, RequestsOK, RequestOK
<1>3. CASE UNCHANGED host
  BY <1>0, <1>1, <1>3 DEF host, HostOK
<1>4. CASE Notified
  <2>1. Head(events) \in EventsUpTo(epoch)
    BY <1>0, <1>4, HeadTailProperties DEF EventsOK, Notified
  <2>. QED BY <1>0, <1>1, <1>4, <2>1 DEF Notified, EventsUpTo, HostOK
<1>5. CASE Probe
  BY <1>0, <1>1, <1>5 DEF Probe, HostOK, Grows
<1>10. CASE RequestGraph
  BY <1>0, <1>1, <1>10 DEF RequestGraph, HostOK
<1>6. ASSUME NEW r \in reads, Probed(r) PROVE HostOK'
  <2>1. known' \in 1..epoch
    BY <1>0, <1>2, <1>6 DEF Probed, RequestOK, Requests, EngineOK
  <2>2. timer' \in Viewports
    BY <1>0, <1>6 DEF Probed, Viewports, WebOK
  <2>. QED BY <1>0, <1>1, <1>6, <2>1, <2>2 DEF Probed, HostOK
<1>7. ASSUME NEW r \in reads, ShowPage(r) \/ Retry(r) PROVE HostOK'
  <2>0. r.stage # "sent" /\ known' = r.epoch
    BY <1>7 DEF ShowPage, Retry
  <2>1. known' \in 1..epoch
    BY <1>0, <1>2, <2>0 DEF RequestOK, Requests, EngineOK
  <2>. QED BY <1>0, <1>1, <1>7, <2>1 DEF ShowPage, Retry, HostOK
<1>8. ASSUME NEW r \in reads, GiveUp(r) PROVE HostOK'
  BY <1>0, <1>1, <1>8 DEF GiveUp, HostOK
<1>9. CASE Moved \/ \E o \in Offsets : Scroll(o)
  BY <1>0, <1>1, <1>9, ScrollsAsk DEF HostOK
<1>. QED BY <1>3, <1>4, <1>5, <1>6, <1>7, <1>8, <1>9, <1>10
     DEF Next, Proceed, vars, Write, External, QueueBumps, QueueEmits, Watch, Read, Answer, Drop

(* Of two numbers the smaller one.                                          *)
LEMMA MinOfTwo ==
    ASSUME NEW a \in Int, NEW b \in Int
    PROVE  Min({a, b}) \in {a, b} /\ Min({a, b}) <= a /\ Min({a, b}) <= b
<1>1. \E x \in {a, b} : \A y \in {a, b} : x <= y
  OBVIOUS
<1>. QED BY <1>1 DEF Min

(* The rows of a page are commits.                                          *)
LEMMA PageIsTyped ==
    ASSUME IInv, NEW r \in reads, HasPage(r)
    PROVE  Page(r) \in Seq(Ids)
<1>. DEFINE log == history[r.version]
            last == Min({Start(r) + Limit - 1, Len(log)})
<1>1. r.version \in 1..Version
  BY DEF IInv, RequestsOK, RequestOK, Requests
<1>2. log \in Seq(Ids)
  BY <1>1, ElementOfSeq DEF IInv, RepoOK, Version, Logs
<1>3. Len(log) \in Nat /\ DOMAIN log = 1..Len(log)
  BY <1>2, LenProperties
<1>4. r.viewport.offset \in Nat
  BY SizesAssumption DEF IInv, RequestsOK, RequestOK, Requests, Viewports
<1>5. Start(r) \in Nat \ {0}
  BY <1>3, <1>4 DEF Start, FirstOf
<1>6. last \in Int /\ last <= Len(log)
  <2>1. Start(r) + Limit - 1 \in Int
    BY <1>5, SizesAssumption
  <2>3. Len(log) \in Int
    BY <1>3
  <2>. HIDE DEF log
  <2>. QED BY <2>1, <2>3, MinOfTwo
<1>7. \A i \in Start(r)..last : log[i] \in Ids
  BY <1>2, <1>3, <1>5, <1>6, ElementOfSeq
<1>8. Start(r) \in Int
  BY <1>5
<1>9. SubSeq(log, Start(r), last) \in Seq(Ids)
  <2>. HIDE DEF log, last
  <2>. QED BY <1>6, <1>7, <1>8, SubSeqProperties
<1>. QED BY <1>9 DEF Page

(* A list that became shorter moves the view up, to one of its rows.        *)
LEMMA ViewStaysInList ==
    ASSUME IInv, NEW r \in reads, ShowPage(r)
    PROVE  /\ view' \in Offsets /\ view' < Len(history[r.version])
           /\ moved' \in BOOLEAN /\ (view' # view => moved') /\ (moved => moved')
<1>1. r.version \in 1..Version
  BY DEF IInv, RequestsOK, RequestOK, Requests, ShowPage, HasPage
<1>2. history[r.version] \in Logs
  BY <1>1, ElementOfSeq DEF IInv, RepoOK, Version
<1>3. PICK n \in Nat \ {0} : n = Len(history[r.version])
  BY <1>2, LenProperties, EmptySeq DEF Logs
<1>4. view \in Offsets /\ view \in Nat
  BY SizesAssumption DEF IInv, WebOK
<1>5. view' = Min({view, n - 1}) /\ moved' = (moved \/ view' # view)
  BY <1>3 DEF ShowPage, ApplyPage
<1>6. Min({view, n - 1}) \in {view, n - 1} /\ Min({view, n - 1}) <= view
      /\ Min({view, n - 1}) <= n - 1
  <2>1. view \in Int /\ n - 1 \in Int
    BY <1>3, <1>4
  <2>. QED BY <2>1, MinOfTwo
<1>7. view' \in 0..view /\ view' < n
  BY <1>3, <1>4, <1>5, <1>6
<1>8. view' \in Offsets
  BY <1>4, <1>7, SizesAssumption
<1>. QED BY <1>3, <1>5, <1>7, <1>8 DEF IInv, WebOK

(* A page is put into the rows it was asked for, and a scroll stays in the  *)
(* rows.                                                                    *)
LEMMA WebOKNext == IInv /\ [Next]_vars => WebOK'
<1>. SUFFICES ASSUME IInv, [Next]_vars PROVE WebOK'
  OBVIOUS
<1>0. Grows /\ EngineOK /\ WebOK
  BY GrowsNext DEF IInv
<1>1. shown \in 0..Version'
  BY <1>0, LogIsTyped DEF IInv, Grows, WebOK
<1>2. CASE UNCHANGED web
  BY <1>0, <1>1, <1>2 DEF web, WebOK
<1>3. ASSUME NEW r \in reads, Probed(r) PROVE WebOK'
  BY <1>0, <1>1, <1>3 DEF Probed, WebOK
<1>4. ASSUME NEW r \in reads, ShowPage(r) PROVE WebOK'
  <2>1. Page(r) \in Seq(Ids)
    BY <1>4, PageIsTyped DEF ShowPage, HasPage
  <2>2. r.version \in 0..Version
    BY LogIsTyped DEF IInv, RequestsOK, RequestOK, Requests
  <2>6. r.viewport.offset \in Nat
    BY SizesAssumption DEF IInv, RequestsOK, RequestOK, Requests, Viewports
  <2>3. ASSUME NEW row \in Rows, row - r.viewport.offset \in 0..(Len(Page(r)) - 1)
        PROVE  Page(r)[row - r.viewport.offset + 1] \in Ids
    <3>0. row \in Nat
      BY SizesAssumption DEF Rows
    <3>1. row - r.viewport.offset + 1 \in 1..Len(Page(r))
      BY <2>1, <2>3, <2>6, <3>0, LenProperties
    <3>. QED BY <2>1, <3>1, ElementOfSeq
  <2>4. rows' \in [Rows -> Ids \cup {None}]
    BY <1>0, <1>4, <2>3 DEF ShowPage, ApplyPage, WebOK
  <2>5. shown' \in 0..Version'
    BY <1>0, <1>4, <2>2, LogIsTyped DEF IInv, ShowPage, ApplyPage, Grows
  <2>7. view' \in Offsets /\ moved' \in BOOLEAN
    BY <1>4, ViewStaysInList
  <2>. QED BY <1>0, <1>4, <2>4, <2>5, <2>7 DEF ShowPage, ApplyPage, WebOK
<1>5. CASE Moved \/ \E o \in Offsets : Scroll(o)
  BY <1>0, <1>1, <1>5, ScrollsAsk DEF WebOK
<1>. QED BY <1>2, <1>3, <1>4, <1>5
     DEF Next, Proceed, vars, Write, External, QueueBumps, QueueEmits, Watch, Read, Answer,
         Notified, Probe, RequestGraph, Retry, GiveUp, Drop, host

-----------------------------------------------------------------------------
(* The requests.  What a step leaves alone stays true of a request, as the  *)
(* history and the epoch grow.                                              *)
LEMMA RequestStays ==
    ASSUME EngineOK, RepoOK, Grows, NEW r, RequestOK(r),
           HasPage(r) /\ IsPage(r) => r.version >= shown'
    PROVE  RequestOK(r)'
<1>1. /\ r.asked \in Nat /\ r.epoch \in Nat /\ r.version \in Nat /\ r.notified \in Nat
      /\ epoch \in Nat /\ Version \in Nat
  BY LogIsTyped DEF RequestOK, Requests, EngineOK
<1>2. r.probe => r.notified \in 1..epoch'
  BY <1>1 DEF RequestOK, Grows
<1>3. r.asked <= epoch' /\ r.epoch <= epoch' /\ r.version <= Version'
  BY <1>1 DEF RequestOK, Grows
<1>4. HasPage(r) /\ r.epoch = epoch' => r.version >= bumped'
  <2>1. r.epoch = epoch' => epoch' = epoch
    BY <1>1 DEF RequestOK, Grows
  <2>. QED BY <2>1 DEF RequestOK, Grows
<1>. QED BY <1>2, <1>3, <1>4 DEF RequestOK, HasPage, IsPage

(* A request as it is sent.                                                 *)
LEMMA SentIsOK ==
    ASSUME Grows, NEW viewport \in Viewports, NEW asked \in 0..epoch', NEW retried \in BOOLEAN
    PROVE  RequestOK(Sent(viewport, asked, retried))' /\ IsPage(Sent(viewport, asked, retried))
<1>. DEFINE s == Sent(viewport, asked, retried)
<1>1. s \in Requests /\ s.stage = "sent" /\ ~s.probe /\ s.newest
  BY DEF Requests, Sent
<1>2. s.asked = asked /\ s.epoch = 0 /\ s.version = 0
  BY DEF Sent
<1>. HIDE DEF s
<1>3. s.asked <= epoch' /\ s.epoch <= epoch' /\ s.version <= Version'
  BY <1>2 DEF Grows
<1>4. RequestOK(s)' /\ IsPage(s)
  BY <1>1, <1>3 DEF RequestOK, HasPage, IsPage
<1>. QED BY <1>4 DEF s

(* A request keeps its kind from stage to stage.                            *)
LEMMA AnsweredIsOK ==
    ASSUME IInv, NEW r \in reads, NEW s, Become(r, s), UNCHANGED <<repo, engine, shown>>,
           \/ s = [r EXCEPT !.stage = "read", !.epoch = epoch, !.version = Version]
           \/ s = [r EXCEPT !.stage = "mismatch", !.epoch = epoch]
           \/ r.stage = "read" /\ s = [r EXCEPT !.stage = "served"]
    PROVE  RequestOK(s)' /\ (IsPage(s) => IsPage(r))
<1>0. RequestOK(r) /\ r \in Requests /\ EngineOK /\ RepoOK
  BY DEF IInv, RequestsOK, RequestOK
<1>1. epoch \in Nat \ {0} /\ Version \in Nat \ {0} /\ bumped <= Version /\ shown <= Version
  BY LogIsTyped DEF IInv, EngineOK, WebOK
<1>2. /\ epoch' = epoch /\ bumped' = bumped /\ shown' = shown /\ Version' = Version
  BY DEF engine, repo, Version
<1>3. /\ r.asked \in Nat /\ r.epoch \in Nat /\ r.version \in Nat
      /\ r.asked <= epoch /\ r.epoch <= epoch /\ r.version <= Version
      /\ r.probe => r.notified \in 1..epoch
  BY <1>0 DEF RequestOK, Requests
<1>4. CASE s = [r EXCEPT !.stage = "read", !.epoch = epoch, !.version = Version]
  <2>1. /\ s \in Requests
        /\ s.stage = "read" /\ s.epoch = epoch /\ s.version = Version
        /\ s.probe = r.probe /\ s.newest = r.newest
        /\ s.asked = r.asked /\ s.notified = r.notified
    BY <1>0, <1>1, <1>4 DEF Requests
  <2>. QED BY <1>1, <1>2, <1>3, <2>1 DEF RequestOK, HasPage, IsPage
<1>5. CASE s = [r EXCEPT !.stage = "mismatch", !.epoch = epoch]
  <2>1. s = [r EXCEPT !.stage = "mismatch", !.epoch = epoch, !.version = r.version]
    BY <1>0, <1>5 DEF Requests
  <2>2. /\ s \in Requests
        /\ s.stage = "mismatch" /\ s.epoch = epoch /\ s.version = r.version
        /\ s.probe = r.probe /\ s.newest = r.newest
        /\ s.asked = r.asked /\ s.notified = r.notified
    BY <1>0, <1>1, <1>3, <2>1 DEF Requests
  <2>. QED BY <1>1, <1>2, <1>3, <2>2 DEF RequestOK, HasPage, IsPage
<1>6. CASE r.stage = "read" /\ s = [r EXCEPT !.stage = "served"]
  <2>1. s = [r EXCEPT !.stage = "served", !.epoch = r.epoch, !.version = r.version]
    BY <1>0, <1>6 DEF Requests
  <2>2. /\ s \in Requests
        /\ s.stage = "served" /\ s.epoch = r.epoch /\ s.version = r.version
        /\ s.probe = r.probe /\ s.newest = r.newest
        /\ s.asked = r.asked /\ s.notified = r.notified
    BY <1>0, <1>3, <2>1 DEF Requests
  <2>. QED BY <1>0, <1>1, <1>2, <1>3, <1>6, <2>2 DEF RequestOK, HasPage, IsPage
<1>. QED BY <1>4, <1>5, <1>6

(* Requests come one at a time and within the bound; superseding does not   *)
(* add any.                                                                 *)
LEMMA ReadsAreFinite ==
    ASSUME NEW S, IsFiniteSet(S), NEW x
    PROVE  /\ IsFiniteSet(S \cup {x}) /\ Cardinality(S \cup {x}) <= Cardinality(S) + 1
           /\ IsFiniteSet(S \ {x}) /\ Cardinality(S \ {x}) <= Cardinality(S)
           /\ x \in S => Cardinality(S \ {x}) + 1 = Cardinality(S)
BY FS_AddElement, FS_RemoveElement, FS_CardinalityType

Supersede(r) == IF r.probe THEN r ELSE [r EXCEPT !.newest = FALSE]

(* Superseding maps the requests, so there are no more of them.             *)
LEMMA SupersededIsFinite ==
    ASSUME IsFiniteSet(reads)
    PROVE  IsFiniteSet(Superseded) /\ Cardinality(Superseded) <= Cardinality(reads)
<1>. DEFINE f == [r \in reads |-> Supersede(r)]
<1>1. f \in Surjection(reads, Superseded)
  BY DEF Superseded, Supersede, Surjection
<1>. QED BY <1>1, FS_Surjection

(* A superseded request is not the newest, and is as before otherwise.      *)
LEMMA SupersededIsOK ==
    ASSUME NEW r \in Requests
    PROVE  /\ Supersede(r) \in Requests /\ ~IsPage(Supersede(r))
           /\ Supersede(r).stage = r.stage
           /\ Supersede(r).epoch = r.epoch /\ Supersede(r).version = r.version
           /\ Supersede(r).probe = r.probe
           /\ Supersede(r).asked = r.asked /\ Supersede(r).notified = r.notified
<1>1. CASE r.probe
  BY <1>1 DEF Supersede, IsPage
<1>2. CASE ~r.probe
  BY <1>2 DEF Supersede, IsPage, Requests
<1>. QED BY <1>1, <1>2

(* Of one request another one is made, or it is gone.                       *)
LEMMA ReplacedIsOK ==
    ASSUME IInv, Grows, shown' = shown, NEW r \in reads, NEW s,
           \/ reads' = reads \ {r}
           \/ reads' = (reads \ {r}) \cup {s} /\ RequestOK(s)' /\ (IsPage(s) => IsPage(r))
    PROVE  RequestsOK'
<1>1. \A q \in reads : RequestOK(q)'
  BY RequestStays DEF IInv, RequestsOK, RequestOK
<1>2. \A q \in reads' : RequestOK(q)'
  BY <1>1
<1>3. \A p, q \in reads' : IsPage(p) /\ IsPage(q) => p = q
  BY DEF IInv, RequestsOK
<1>4. IsFiniteSet(reads') /\ Cardinality(reads') <= MaxReads
  <2>1. IsFiniteSet(reads) /\ Cardinality(reads) <= MaxReads
    BY DEF IInv, RequestsOK
  <2>2. /\ IsFiniteSet(reads \ {r}) /\ Cardinality(reads \ {r}) + 1 = Cardinality(reads)
        /\ Cardinality(reads \ {r}) <= Cardinality(reads)
    BY <2>1, ReadsAreFinite
  <2>3. /\ IsFiniteSet((reads \ {r}) \cup {s})
        /\ Cardinality((reads \ {r}) \cup {s}) <= Cardinality(reads \ {r}) + 1
    BY <2>2, ReadsAreFinite
  <2>4. /\ Cardinality(reads) \in Nat /\ Cardinality(reads \ {r}) \in Nat
        /\ Cardinality((reads \ {r}) \cup {s}) \in Nat /\ MaxReads \in Nat
    BY <2>1, <2>2, <2>3, FS_CardinalityType, SizesAssumption
  <2>. QED BY <2>1, <2>2, <2>3, <2>4
<1>. QED BY <1>2, <1>3, <1>4 DEF RequestsOK

(* What a request is answered is true, whoever moves meanwhile.             *)
LEMMA RequestsOKNext == IInv /\ [Next]_vars => RequestsOK'
<1>. SUFFICES ASSUME IInv, [Next]_vars PROVE RequestsOK'
  OBVIOUS
<1>0. /\ Grows /\ EngineOK /\ RepoOK /\ HostOK /\ WebOK /\ RequestsOK
      /\ None \notin Nat /\ 0 \in Offsets
  BY GrowsNext, SizesAssumption DEF IInv
<1>1. \A r \in reads : RequestOK(r) /\ r \in Requests
  BY <1>0 DEF RequestsOK, RequestOK
<1>2. shown' = shown => \A r \in reads : RequestOK(r)'
  BY <1>0, <1>1, RequestStays DEF RequestOK
<1>3. CASE UNCHANGED <<reads, shown>>
  BY <1>0, <1>2, <1>3 DEF RequestsOK
<1>4. ASSUME NEW r \in reads, Read(r) \/ Answer(r) PROVE RequestsOK'
  <2>1. UNCHANGED <<repo, engine, shown>>
    BY <1>4 DEF Read, Answer, web
  <2>2. PICK s : /\ Become(r, s)
                 /\ \/ s = [r EXCEPT !.stage = "read", !.epoch = epoch, !.version = Version]
                    \/ s = [r EXCEPT !.stage = "mismatch", !.epoch = epoch]
                    \/ r.stage = "read" /\ s = [r EXCEPT !.stage = "served"]
    BY <1>4 DEF Read, Answer
  <2>3. RequestOK(s)' /\ (IsPage(s) => IsPage(r))
    BY <2>1, <2>2, AnsweredIsOK
  <2>. QED BY <1>0, <2>1, <2>2, <2>3, ReplacedIsOK DEF Become
<1>5. ASSUME NEW r \in reads, Probed(r) \/ GiveUp(r) \/ Drop(r) PROVE RequestsOK'
  <2>1. reads' = reads \ {r} /\ shown' = shown
    BY <1>5 DEF Probed, GiveUp, Drop, web
  <2>. QED BY <1>0, <2>1, ReplacedIsOK
<1>6. ASSUME NEW r \in reads, Retry(r) PROVE RequestsOK'
  <2>1. /\ reads' = (reads \ {r}) \cup {Sent(r.viewport, r.epoch, TRUE)} /\ shown' = shown
        /\ IsPage(r)
    BY <1>6 DEF Retry, IsPage, web
  <2>2. r.viewport \in Viewports /\ r.epoch \in 0..epoch'
    BY <1>0, <1>1 DEF Requests, RequestOK, Grows, EngineOK
  <2>3. RequestOK(Sent(r.viewport, r.epoch, TRUE))'
    BY <1>0, <2>2, SentIsOK
  <2>. QED BY <1>0, <2>1, <2>3, ReplacedIsOK
<1>7. ASSUME NEW r \in reads, ShowPage(r) PROVE RequestsOK'
  <2>1. reads' = reads \ {r} /\ IsPage(r)
    BY <1>7 DEF ShowPage, IsPage
  <2>2. \A q \in reads' : q \in reads /\ ~IsPage(q)
    BY <1>0, <2>1 DEF RequestsOK
  <2>3. \A q \in reads' : RequestOK(q)'
    BY <1>0, <1>1, <2>2, RequestStays
  <2>4. IsFiniteSet(reads') /\ Cardinality(reads') <= MaxReads
    <3>1. IsFiniteSet(reads) /\ Cardinality(reads) <= MaxReads
      BY <1>0 DEF RequestsOK
    <3>2. IsFiniteSet(reads') /\ Cardinality(reads') <= Cardinality(reads)
      BY <2>1, <3>1, ReadsAreFinite
    <3>. QED BY <3>1, <3>2, FS_CardinalityType, SizesAssumption
  <2>. QED BY <2>2, <2>3, <2>4 DEF RequestsOK
<1>8. CASE Probe
  <2>0. PICK s : s = [Sent([offset |-> 0, anchor |-> None], 0, FALSE)
                        EXCEPT !.probe = TRUE, !.notified = invalid, !.newest = FALSE]
    OBVIOUS
  <2>1. reads' = reads \cup {s} /\ Cardinality(reads) < MaxReads /\ shown' = shown
    BY <1>8, <2>0 DEF Probe, web
  <2>2. RequestOK(s)' /\ ~IsPage(s)
    <3>1. invalid \in 1..epoch' /\ invalid \in Nat
      BY <1>0, <1>8 DEF Probe, HostOK, Grows, EngineOK
    <3>2. [offset |-> 0, anchor |-> None] \in Viewports
      BY <1>0 DEF Viewports
    <3>3. /\ s \in Requests /\ s.notified = invalid /\ ~s.newest
          /\ s.stage = "sent" /\ s.asked = 0 /\ s.epoch = 0 /\ s.version = 0
      BY <2>0, <3>1, <3>2 DEF Requests, Sent
    <3>. QED BY <1>0, <3>1, <3>3 DEF RequestOK, HasPage, IsPage, Grows
  <2>3. \A r \in reads' : RequestOK(r)'
    BY <1>2, <2>1, <2>2
  <2>4. \A p, r \in reads' : IsPage(p) /\ IsPage(r) => p = r
    BY <1>0, <2>1, <2>2 DEF RequestsOK
  <2>5. IsFiniteSet(reads') /\ Cardinality(reads') <= MaxReads
    <3>1. IsFiniteSet(reads)
      BY <1>0 DEF RequestsOK
    <3>2. IsFiniteSet(reads') /\ Cardinality(reads') <= Cardinality(reads) + 1
      BY <2>1, <3>1, ReadsAreFinite
    <3>. QED BY <2>1, <3>1, <3>2, FS_CardinalityType, SizesAssumption
  <2>. QED BY <2>3, <2>4, <2>5 DEF RequestsOK
<1>9. CASE RequestGraph
  <2>0. PICK s, v, n : s = Sent(v, n, FALSE) /\ v = timer /\ n = known
    OBVIOUS
  <2>1. reads' = Superseded \cup {s} /\ Cardinality(reads) < MaxReads /\ shown' = shown
    BY <1>9, <2>0 DEF RequestGraph, web
  <2>2. RequestOK(s)'
    <3>1. v \in Viewports /\ n \in 0..epoch'
      BY <1>0, <1>9, <2>0 DEF RequestGraph, HostOK, Grows, EngineOK
    <3>2. RequestOK(Sent(v, n, FALSE))'
      BY <1>0, <3>1, SentIsOK
    <3>. QED BY <2>0, <3>2
  <2>3. Superseded = {Supersede(r) : r \in reads}
    BY DEF Superseded, Supersede
  <2>4. ASSUME NEW r \in reads PROVE RequestOK(Supersede(r))' /\ ~IsPage(Supersede(r))
    <3>1. RequestOK(r)' /\ r \in Requests
      BY <1>1, <1>2, <2>1
    <3>. QED BY <3>1, SupersededIsOK DEF RequestOK, HasPage
  <2>5. \A q \in reads' : RequestOK(q)'
    BY <2>1, <2>2, <2>3, <2>4
  <2>6. \A p, q \in reads' : IsPage(p) /\ IsPage(q) => p = q
    BY <2>1, <2>3, <2>4
  <2>7. IsFiniteSet(reads') /\ Cardinality(reads') <= MaxReads
    <3>1. IsFiniteSet(reads)
      BY <1>0 DEF RequestsOK
    <3>2. IsFiniteSet(Superseded) /\ Cardinality(Superseded) <= Cardinality(reads)
      BY <3>1, SupersededIsFinite
    <3>3. IsFiniteSet(reads') /\ Cardinality(reads') <= Cardinality(Superseded) + 1
      BY <2>1, <3>2, ReadsAreFinite
    <3>. QED BY <2>1, <3>1, <3>2, <3>3, FS_CardinalityType, SizesAssumption
  <2>. QED BY <2>5, <2>6, <2>7 DEF RequestsOK
<1>. QED BY <1>3, <1>4, <1>5, <1>6, <1>7, <1>8, <1>9
     DEF Next, Proceed, vars, web, Write, External, QueueBumps, QueueEmits, Watch, Notified,
         Moved, Scroll, RequestViewport

-----------------------------------------------------------------------------
(* The webview has nothing yet and asks for its first viewport.             *)
LEMMA InitIInv == Init => IInv
<1>. SUFFICES ASSUME Init PROVE IInv
  OBVIOUS
<1>1. Commits \in Nat \ {0} /\ MaxChanges \in Nat /\ MaxScrolls \in Nat /\ MaxReads \in Nat
  BY SizesAssumption
<1>2. [i \in 1..Commits |-> Commits + 1 - i] \in Logs
  <2>1. [i \in 1..Commits |-> Commits + 1 - i] \in [1..Commits -> Ids]
    BY <1>1 DEF Ids
  <2>2. [i \in 1..Commits |-> Commits + 1 - i] \in Seq(Ids)
    BY <1>1, <2>1, SeqDef
  <2>3. DOMAIN [i \in 1..Commits |-> Commits + 1 - i] # DOMAIN <<>>
    BY <1>1
  <2>. QED BY <2>2, <2>3 DEF Logs
<1>3. history \in Seq(Logs) /\ Version = 1
  BY <1>2 DEF Init, Version
<1>4. RepoOK /\ EngineOK
  BY <1>1, <1>3 DEF Init, RepoOK, EngineOK
<1>5. EventsOK
  BY EmptySeq DEF Init, EventsOK
<1>6. timer \in Viewports
  BY SizesAssumption DEF Init, Viewports
<1>7. HostOK
  <2>1. known \in 1..epoch /\ invalid \in 0..epoch
    BY DEF Init
  <2>2. failed \in BOOLEAN
    BY DEF Init
  <2>. QED BY <1>6, <2>1, <2>2 DEF HostOK
<1>8. WebOK
  <2>1. view \in Offsets /\ anchor \in Ids \cup {None} /\ rows \in [Rows -> Ids \cup {None}]
    BY SizesAssumption DEF Init
  <2>2. moved \in BOOLEAN /\ scrolls = 0 /\ shown = 0
    BY DEF Init
  <2>. QED BY <1>1, <1>3, <2>1, <2>2 DEF WebOK
<1>9. RequestsOK
  BY <1>1, FS_EmptySet DEF Init, RequestsOK
<1>. QED BY <1>4, <1>5, <1>7, <1>8, <1>9 DEF IInv

(* The strengthening holds initially and is kept by every step.             *)
LEMMA Inductive == Spec => []IInv
<1>1. IInv /\ [Next]_vars => IInv'
  BY GrowsNext, EventsOKNext, HostOKNext, WebOKNext, RequestsOKNext DEF IInv, Grows
<1>. QED BY InitIInv, <1>1, PTL DEF Spec

(* The extension never knows an epoch the engine has not reached, and one   *)
(* page request at most is the newest.                                      *)
THEOREM TypeCorrect == Spec => []TypeOK
<1>. QED BY Inductive, StrengtheningIsTyped, PTL

(* A page that the engine labels with the current epoch has everything that *)
(* epoch was bumped for, however the walk and the bumps interleave.         *)
THEOREM LabelsAreTrue == Spec => []PageCoversItsEpoch
<1>1. IInv => PageCoversItsEpoch
  BY DEF IInv, RequestsOK, RequestOK, HasPage, PageCoversItsEpoch
<1>. QED BY Inductive, <1>1, PTL

(* What the webview shows never goes back to an older log, in whatever      *)
(* order the answers arrive.                                                *)
THEOREM ViewNeverGoesBack == Spec => NeverGoesBack
<1>1. IInv /\ [Next]_vars => [shown' >= shown]_vars
  <2>. SUFFICES ASSUME IInv, Next PROVE shown' >= shown
    OBVIOUS
  <2>1. shown \in Nat
    BY LogIsTyped DEF IInv, WebOK
  <2>2. ASSUME NEW r \in reads, ShowPage(r) PROVE shown' >= shown
    BY <2>2 DEF ShowPage, ApplyPage, IInv, RequestsOK, RequestOK, HasPage, IsPage
  <2>3. shown' = shown \/ \E r \in reads : ShowPage(r)
    BY DEF Next, Proceed, web, host, Write, External, QueueBumps, QueueEmits, Watch, Read, Answer,
           Notified, Probe, RequestGraph, Probed, Retry, GiveUp, Drop, Moved, Scroll,
           RequestViewport
  <2>. QED BY <2>1, <2>2, <2>3
<1>. QED BY Inductive, <1>1, PTL DEF Spec, NeverGoesBack

-----------------------------------------------------------------------------
(* At rest.  A change of the log is on its way to the webview, from where   *)
(* the watcher will see it to the timer that asks for another page.         *)
Pending ==
    \/ "refs" \in fs
    \/ \E i \in DOMAIN events : events[i].kind = "graph"
    \/ invalid # 0
    \/ \E r \in reads : r.probe
    \/ timer # None
    \/ moved

Here == [offset |-> view, anchor |-> anchor]
Shows == ShowsFrom(FirstOf(Log, Here))

(* Until it has arrived there, what is under way need not be of the current *)
(* log; then it is, and when nothing is under way the viewport is.          *)
AsksForView == timer # None => moved \/ timer = Here
PageIsCurrent ==
    \A r \in reads : IsPage(r) =>
        Pending \/ (r.viewport = Here /\ (HasPage(r) => r.version = Version))
ViewIsCurrent == Pending \/ failed \/ Shows \/ \E r \in reads : IsPage(r)

RestInv == AsksForView /\ PageIsCurrent /\ ViewIsCurrent

(* A page of the current log, put into the rows of the viewport, shows it.  *)
LEMMA PageShows ==
    ASSUME IInv, NEW r \in reads, ShowPage(r), r.version = Version, r.viewport = Here,
           view' = view
    PROVE  Shows'
<1>0. PICK log, i, last, v : /\ log = Log /\ i = Start(r) /\ v = view
                             /\ last = Min({i + Limit - 1, Len(log)})
  OBVIOUS
<1>1. /\ history[r.version] = log /\ Log' = log /\ view' = v /\ anchor' = anchor
      /\ Here' = Here /\ i = FirstOf(log, Here) /\ r.viewport.offset = v
  <2>1. history[r.version] = log /\ history' = history /\ anchor' = anchor
    BY <1>0 DEF Log, Last, Version, ShowPage, ApplyPage, repo
  <2>2. Log' = log /\ Here' = Here
    BY <1>0, <2>1 DEF Log, Last, Here
  <2>3. i = FirstOf(log, Here)
    BY <1>0, <2>1 DEF Start
  <2>4. r.viewport.offset = v
    BY <1>0 DEF Here
  <2>. QED BY <1>0, <2>1, <2>2, <2>3, <2>4
<1>2. log \in Seq(Ids) /\ Len(log) \in Nat /\ DOMAIN log = 1..Len(log)
  BY <1>0, LogIsTyped, LenProperties DEF IInv, Logs
<1>3. v \in Offsets /\ v \in Nat /\ Limit \in Nat \ {0} /\ v < Len(log)
  BY <1>0, <1>1, SizesAssumption, ViewStaysInList DEF IInv, WebOK
<1>4. i \in DOMAIN log /\ i \in Nat \ {0}
  <2>1. CASE \E k \in DOMAIN log : log[k] = anchor
    <3>1. i = CHOOSE k \in DOMAIN log : log[k] = anchor
      BY <1>1, <2>1 DEF FirstOf, Here
    <3>2. i \in DOMAIN log
      BY <2>1, <3>1
    <3>. QED BY <1>2, <3>2
  <2>2. CASE ~\E k \in DOMAIN log : log[k] = anchor
    <3>1. i = v + 1
      BY <1>0, <1>1, <2>2 DEF FirstOf, Here
    <3>. QED BY <1>2, <1>3, <3>1
  <2>. QED BY <2>1, <2>2
<1>5. last \in Int /\ last <= Len(log) /\ (last = i + Limit - 1 \/ last = Len(log))
  <2>1. i + Limit - 1 \in Int /\ Len(log) \in Int
    BY <1>2, <1>3, <1>4
  <2>. QED BY <1>0, <2>1, MinOfTwo
<1>6. /\ Len(Page(r)) = IF i <= last THEN last - i + 1 ELSE 0
      /\ \A k \in 1..(last - i + 1) : Page(r)[k] = log[i + k - 1]
  <2>1. \A k \in i..last : log[k] \in Ids
    <3>1. i \in Nat \ {0} /\ last \in Int /\ last <= Len(log) /\ Len(log) \in Nat
      BY <1>2, <1>4, <1>5
    <3>2. \A k \in i..last : k \in 1..Len(log)
      BY <3>1
    <3>. QED BY <1>2, <3>2, ElementOfSeq
  <2>2. Page(r) = SubSeq(log, i, last)
    BY <1>0, <1>1 DEF Page
  <2>. QED BY <1>4, <1>5, <2>1, <2>2, SubSeqProperties
<1>7. ASSUME NEW k \in 0..(Limit - 1), i + k <= Len(log)
      PROVE  rows'[v + k] = log[i + k]
  <2>1. v + k \in Rows
    BY <1>3 DEF Rows
  <2>2. i + k <= last
    BY <1>3, <1>4, <1>5, <1>7
  <2>3. (v + k) - v = k /\ k \in 0..(Len(Page(r)) - 1) /\ k + 1 \in 1..(last - i + 1)
    BY <1>3, <1>4, <1>5, <1>6, <2>2
  <2>4. rows'[v + k] = Page(r)[k + 1]
    BY <1>1, <2>1, <2>3 DEF ShowPage, ApplyPage
  <2>5. Page(r)[k + 1] = log[i + (k + 1) - 1] /\ i + (k + 1) - 1 = i + k
    BY <1>4, <1>6, <2>3
  <2>. QED BY <2>4, <2>5
<1>8. ShowsFrom(i)'
  BY <1>1, <1>4, <1>7 DEF ShowsFrom
<1>9. i = FirstOf(Log, Here)'
  BY <1>1 DEF FirstOf
<1>. QED BY <1>8, <1>9 DEF Shows, ShowsFrom

(* With a change on its way nothing else matters, and a step that leaves    *)
(* the view and the requests alone must only keep it on its way.            *)
LEMMA PendingIsEnough == Pending' /\ AsksForView' => RestInv'
BY DEF RestInv, PageIsCurrent, ViewIsCurrent

(* A step that leaves them alone keeps the rest of the invariant.           *)
LEMMA RestStays ==
    ASSUME RestInv, Pending => Pending',
           UNCHANGED <<history, view, anchor, rows, moved, timer, failed, reads>>
    PROVE  RestInv'
<1>1. AsksForView'
  BY DEF RestInv, AsksForView, Here
<1>2. Version' = Version /\ (Shows' <=> Shows) /\ Here' = Here
  BY DEF Version, Shows, ShowsFrom, FirstOf, Here, Log, Last
<1>3. PageIsCurrent'
  BY <1>2 DEF RestInv, PageIsCurrent
<1>4. ViewIsCurrent'
  BY <1>2 DEF RestInv, ViewIsCurrent
<1>. QED BY <1>1, <1>3, <1>4 DEF RestInv

(* Every change of the log is noticed where the branches are watched.       *)
LEMMA ChangeKeepsRest ==
    ASSUME ~Linked, IInv, RestInv, NEW kind \in {"commit", "stage", "reset"}, Change(kind),
           UNCHANGED <<events, reads, host, web>>
    PROVE  RestInv'
<1>1. CASE kind = "stage"
  <2>1. history' = history /\ fs \subseteq fs'
    BY <1>1 DEF Change
  <2>2. Pending => Pending'
    BY <2>1 DEF Pending, host, web
  <2>. QED BY <2>1, <2>2, RestStays DEF host, web
<1>2. CASE kind # "stage"
  <2>1. Pending'
    BY <1>2 DEF Change, Touches, Pending
  <2>2. AsksForView'
    BY DEF RestInv, AsksForView, Here, host, web
  <2>. QED BY <2>1, <2>2, PendingIsEnough
<1>. QED BY <1>1, <1>2

(* The watcher passes it on to the client, and the client to a probe.       *)
LEMMA WatchKeepsRest ==
    ASSUME IInv, RestInv, Watch
    PROVE  RestInv'
<1>1. UNCHANGED <<history, view, anchor, rows, moved, timer, failed, reads, invalid>>
  BY DEF Watch, host, web
<1>2. PICK batch \in SUBSET fs \ {{}} :
         /\ events' = events \o Notices("index", "index" \in batch)
                             \o Notices("graph", "refs" \in batch)
         /\ fs' = fs \ batch
  BY DEF Watch
<1>3. EventsOK /\ EventsOK' /\ Grows
  BY EventsOKNext, GrowsNext DEF IInv, Next, Proceed
<1>. DEFINE E == EventsUpTo(epoch')
            one == Notices("index", "index" \in batch)
            two == Notices("graph", "refs" \in batch)
<1>4. events \in Seq(E) /\ one \in Seq(E) /\ two \in Seq(E)
  <2>1. EventsUpTo(epoch) \subseteq E
    BY <1>3 DEF EventsUpTo, Grows, IInv, EngineOK
  <2>2. events \in Seq(E)
    BY <1>3, <2>1, SeqMonotonic DEF EventsOK
  <2>3. \A kind \in {"index", "graph"} : [kind |-> kind, epoch |-> epoch'] \in E
    BY <1>3 DEF EventsUpTo, Grows, IInv, EngineOK
  <2>4. <<>> \in Seq(E)
    BY EmptySeq
  <2>. QED BY <2>2, <2>3, <2>4 DEF Notices
<1>5. \A i \in 1..Len(events) : i \in DOMAIN events' /\ events'[i] = events[i]
  BY <1>2, <1>4, ConcatProperties, LenProperties
<1>6. CASE "refs" \in batch
  <2>1. two = <<[kind |-> "graph", epoch |-> epoch']>>
    BY <1>6 DEF Notices
  <2>2. Len(events \o one) + 1 \in DOMAIN events'
        /\ events'[Len(events \o one) + 1] = [kind |-> "graph", epoch |-> epoch']
    BY <1>2, <1>4, <2>1, ConcatProperties, LenProperties
  <2>3. Pending'
    BY <2>2 DEF Pending
  <2>. QED BY <1>1, <2>3, RestStays
<1>7. CASE "refs" \notin batch
  <2>1. Pending => Pending'
    BY <1>1, <1>2, <1>4, <1>5, <1>7, LenProperties DEF Pending
  <2>. QED BY <1>1, <2>1, RestStays
<1>. QED BY <1>6, <1>7

(* The client arms its timer for every notification that is about the       *)
(* graph.                                                                   *)
LEMMA NotifiedKeepsRest ==
    ASSUME IInv, RestInv, Notified
    PROVE  RestInv'
<1>1. UNCHANGED <<history, fs, view, anchor, rows, moved, timer, failed, reads>>
  BY DEF Notified, repo, web
<1>2. events \in Seq(EventsUpTo(epoch)) /\ events # <<>>
  BY DEF IInv, EventsOK, Notified
<1>3. DOMAIN events = 1..Len(events) /\ Len(events) \in Nat \ {0}
  BY <1>2, LenProperties, EmptySeq
<1>4. CASE Head(events).kind = "graph"
  <2>1. Head(events) \in EventsUpTo(epoch)
    BY <1>2, HeadTailProperties
  <2>2. invalid' # 0
    BY <1>4, <2>1 DEF Notified, EventsUpTo, IInv, EngineOK
  <2>3. Pending'
    BY <2>2 DEF Pending
  <2>. QED BY <1>1, <2>3, RestStays
<1>5. CASE Head(events).kind # "graph"
  <2>1. invalid' = invalid /\ events' = Tail(events)
    BY <1>5 DEF Notified
  <2>2. ASSUME NEW i \in DOMAIN events, events[i].kind = "graph"
        PROVE  \E j \in DOMAIN events' : events'[j].kind = "graph"
    <3>1. Head(events) = events[1]
      BY <1>2
    <3>2. i - 1 \in 1..(Len(events) - 1)
      BY <1>3, <1>5, <2>2, <3>1
    <3>3. Tail(events) \in Seq(EventsUpTo(epoch)) /\ Len(Tail(events)) = Len(events) - 1
          /\ \A j \in 1..Len(Tail(events)) : Tail(events)[j] = events[j + 1]
      BY <1>2, HeadTailProperties
    <3>4. i - 1 \in DOMAIN Tail(events) /\ Tail(events)[i - 1] = events[(i - 1) + 1]
      BY <3>2, <3>3, LenProperties
    <3>5. (i - 1) + 1 = i
      BY <1>3
    <3>. QED BY <2>1, <2>2, <3>4, <3>5
  <2>3. Pending => Pending'
    BY <1>1, <2>1, <2>2 DEF Pending
  <2>. QED BY <1>1, <2>3, RestStays
<1>. QED BY <1>4, <1>5

(* Reading and answering change nothing but the stage of a request, and a   *)
(* page is read from the log that is current.                               *)
LEMMA ReadKeepsRest ==
    ASSUME IInv, RestInv, NEW r \in reads, Read(r) \/ Answer(r)
    PROVE  RestInv'
<1>0. /\ UNCHANGED <<history, fs, events, invalid, timer, view, anchor, rows, moved, failed>>
      /\ r \in Requests
  BY DEF Read, Answer, repo, host, web, IInv, RequestsOK, RequestOK
<1>1. /\ Version' = Version /\ Version \in Nat /\ (Shows' <=> Shows) /\ Here' = Here
      /\ epoch \in Nat
  BY <1>0, LogIsTyped
  DEF Version, Shows, ShowsFrom, FirstOf, Here, Log, Last, IInv, EngineOK
<1>2. PICK s : /\ reads' = (reads \ {r}) \cup {s}
               /\ \/ s = [r EXCEPT !.stage = "read", !.epoch = epoch, !.version = Version]
                  \/ s = [r EXCEPT !.stage = "mismatch", !.epoch = epoch]
                  \/ r.stage = "read" /\ s = [r EXCEPT !.stage = "served"]
  BY DEF Read, Answer, Become
<1>3. s.probe = r.probe /\ s.newest = r.newest /\ s.viewport = r.viewport
  BY <1>0, <1>2 DEF Requests
<1>4. HasPage(s) => s.version = Version \/ (HasPage(r) /\ s.version = r.version)
  BY <1>0, <1>2 DEF Requests, HasPage
<1>5. Pending => Pending'
  BY <1>0, <1>2, <1>3 DEF Pending
<1>6. AsksForView'
  BY <1>0, <1>1 DEF RestInv, AsksForView
<1>7. PageIsCurrent'
  BY <1>0, <1>1, <1>2, <1>3, <1>4, <1>5 DEF RestInv, PageIsCurrent, IsPage
<1>8. ViewIsCurrent'
  BY <1>0, <1>1, <1>2, <1>3, <1>5 DEF RestInv, ViewIsCurrent, IsPage
<1>. QED BY <1>6, <1>7, <1>8 DEF RestInv

(* A request that is sent is for the viewport, and its page will be read    *)
(* later.                                                                   *)
LEMMA RequestKeepsRest ==
    ASSUME IInv, RestInv, RequestGraph
    PROVE  RestInv'
<1>1. PICK s, v, n : s = Sent(v, n, FALSE) /\ v = timer /\ n = known
  OBVIOUS
<1>2. /\ reads' = Superseded \cup {s} /\ timer' = None
      /\ Here' = Here /\ moved' = moved
  BY <1>1 DEF RequestGraph, web, Here
<1>3. IsPage(s) /\ ~HasPage(s) /\ s.viewport = v /\ (moved \/ v = Here)
  BY <1>1 DEF Sent, IsPage, HasPage, RequestGraph, RestInv, AsksForView
<1>4. \A q \in Superseded : ~IsPage(q)
  <2>1. \A r \in reads : r \in Requests
    BY DEF IInv, RequestsOK, RequestOK
  <2>. QED BY <2>1, SupersededIsOK DEF Superseded, Supersede
<1>5. PageIsCurrent'
  BY <1>2, <1>3, <1>4 DEF PageIsCurrent, Pending
<1>6. ViewIsCurrent'
  BY <1>2, <1>3 DEF ViewIsCurrent
<1>7. AsksForView'
  BY <1>2 DEF AsksForView
<1>. QED BY <1>5, <1>6, <1>7 DEF RestInv

(* So is one that is sent again.                                            *)
LEMMA RetryKeepsRest ==
    ASSUME IInv, RestInv, NEW r \in reads, Retry(r)
    PROVE  RestInv'
<1>1. PICK s : /\ s = Sent(r.viewport, r.epoch, TRUE)
               /\ reads' = (reads \ {r}) \cup {s}
  BY DEF Retry
<1>2. UNCHANGED <<history, fs, events, invalid, timer, view, anchor, moved>> /\ IsPage(r)
      /\ Here' = Here
  BY DEF Retry, IsPage, repo, web, Here
<1>3. IsPage(s) /\ ~HasPage(s) /\ s.viewport = r.viewport
  BY <1>1 DEF Sent, IsPage, HasPage
<1>4. \A q \in reads \ {r} : ~IsPage(q)
  BY <1>2 DEF IInv, RequestsOK
<1>5. Pending => Pending'
  BY <1>1, <1>2 DEF Pending, IsPage
<1>6. PageIsCurrent'
  BY <1>1, <1>2, <1>3, <1>4, <1>5 DEF RestInv, PageIsCurrent
<1>7. ViewIsCurrent'
  BY <1>1, <1>3 DEF ViewIsCurrent
<1>8. AsksForView'
  BY <1>2 DEF RestInv, AsksForView
<1>. QED BY <1>6, <1>7, <1>8 DEF RestInv

(* A request that is over leaves a message, the page it got, or a newer     *)
(* one behind.                                                              *)
LEMMA EndKeepsRest ==
    ASSUME IInv, RestInv, NEW r \in reads, ShowPage(r) \/ GiveUp(r) \/ Drop(r)
    PROVE  RestInv'
<1>1. /\ UNCHANGED <<history, fs, events, invalid, timer, anchor>>
      /\ reads' = reads \ {r} /\ ~r.probe
  BY DEF ShowPage, ApplyPage, GiveUp, Drop, repo, host, web
<1>2. Version' = Version
  BY <1>1 DEF Version
<1>3. (view' # view => moved') /\ (moved => moved')
  BY ViewStaysInList DEF GiveUp, Drop, web
<1>4. ~moved' => Here' = Here
  BY <1>1, <1>3 DEF Here
<1>5. Pending => Pending'
  BY <1>1, <1>3 DEF Pending
<1>6. AsksForView'
  BY <1>1, <1>3, <1>4 DEF RestInv, AsksForView
<1>7. PageIsCurrent'
  BY <1>1, <1>2, <1>4, <1>5 DEF RestInv, PageIsCurrent, Pending
<1>8. ViewIsCurrent'
  <2>1. CASE Pending \/ moved'
    BY <1>5, <2>1 DEF ViewIsCurrent, Pending
  <2>2. CASE GiveUp(r)
    BY <2>2 DEF GiveUp, ViewIsCurrent
  <2>3. CASE ~Pending /\ ~moved' /\ ShowPage(r)
    <3>1. IsPage(r) /\ HasPage(r)
      BY <2>3 DEF ShowPage, IsPage, HasPage
    <3>2. r.version = Version /\ r.viewport = Here
      BY <2>3, <3>1 DEF RestInv, PageIsCurrent
    <3>3. Shows'
      BY <1>3, <2>3, <3>2, PageShows
    <3>. QED BY <3>3 DEF ViewIsCurrent
  <2>4. CASE ~Pending /\ Drop(r)
    <3>1. ~IsPage(r) /\ UNCHANGED <<rows, failed, view>>
      BY <2>4 DEF Drop, IsPage, host, web
    <3>2. Shows' <=> Shows
      BY <1>1, <3>1 DEF Shows, ShowsFrom, FirstOf, Here, Log, Last
    <3>3. failed \/ Shows \/ \E q \in reads : IsPage(q)
      BY <2>4 DEF RestInv, ViewIsCurrent
    <3>4. CASE failed
      BY <3>1, <3>4 DEF ViewIsCurrent
    <3>5. CASE Shows
      BY <3>2, <3>5 DEF ViewIsCurrent
    <3>6. CASE \E q \in reads : IsPage(q)
      BY <1>1, <3>1, <3>6 DEF ViewIsCurrent
    <3>. QED BY <3>3, <3>4, <3>5, <3>6
  <2>. QED BY <2>1, <2>2, <2>3, <2>4
<1>. QED BY <1>6, <1>7, <1>8 DEF RestInv

(* At first the webview asks, and no step loses what the others rely on.    *)
LEMMA RestInductive == ~Linked => (Spec => []RestInv)
<1>. SUFFICES ASSUME ~Linked PROVE Spec => []RestInv
  OBVIOUS
<1>1. Init => RestInv
  <2>. SUFFICES ASSUME Init PROVE RestInv
    OBVIOUS
  <2>1. timer \in Viewports /\ timer = Here /\ reads = {}
    BY SizesAssumption DEF Init, Viewports, Here
  <2>2. timer # None
    BY <2>1, NoneAssumption
  <2>. QED BY <2>1, <2>2 DEF RestInv, AsksForView, PageIsCurrent, ViewIsCurrent, Pending
<1>2. IInv /\ RestInv /\ [Next]_vars => RestInv'
  <2>. SUFFICES ASSUME IInv, RestInv, [Next]_vars PROVE RestInv'
    OBVIOUS
  <2>1. ASSUME NEW kind \in {"commit", "stage", "reset"}, Write(kind) \/ External(kind)
        PROVE  RestInv'
    BY <2>1, ChangeKeepsRest DEF Write, External
  <2>2. CASE QueueBumps \/ UNCHANGED vars
    <3>1. UNCHANGED <<history, fs, events, invalid, view, anchor, rows, moved, timer, failed,
                      reads>>
      BY <2>2 DEF QueueBumps, vars, repo, host, web
    <3>2. Pending => Pending'
      BY <3>1 DEF Pending
    <3>. QED BY <3>1, <3>2, RestStays
  <2>3. CASE QueueEmits
    <3>1. events' = Append(events, [kind |-> "graph", epoch |-> toEmit])
      BY <2>3 DEF QueueEmits
    <3>2. /\ Len(events) + 1 \in DOMAIN events'
          /\ events'[Len(events) + 1] = [kind |-> "graph", epoch |-> toEmit]
      BY <3>1, LenProperties DEF IInv, EventsOK
    <3>3. Pending'
      BY <3>2 DEF Pending
    <3>4. AsksForView'
      BY <2>3 DEF QueueEmits, RestInv, AsksForView, Here, host, web
    <3>. QED BY <3>3, <3>4, PendingIsEnough
  <2>4. CASE Probe
    <3>1. PICK s : /\ s = [Sent([offset |-> 0, anchor |-> None], 0, FALSE)
                             EXCEPT !.probe = TRUE, !.notified = invalid, !.newest = FALSE]
                   /\ reads' = reads \cup {s}
      BY <2>4 DEF Probe
    <3>2. s.probe
      BY <3>1 DEF Sent
    <3>3. Pending'
      BY <3>1, <3>2 DEF Pending
    <3>4. AsksForView'
      BY <2>4 DEF Probe, RestInv, AsksForView, Here, web
    <3>. QED BY <3>3, <3>4, PendingIsEnough
  <2>5. ASSUME \/ \E r \in reads : Probed(r)
               \/ Moved \/ \E o \in Offsets : Scroll(o)
        PROVE  RestInv'
    <3>1. timer' = Here' /\ timer' # None
      <4>1. timer' = [offset |-> view', anchor |-> anchor']
        BY <2>5, ScrollsAsk DEF Probed, IInv
      <4>2. view' \in Offsets /\ anchor' \in Ids \cup {None}
        BY WebOKNext DEF WebOK, Ids, IInv
      <4>. QED BY <4>1, <4>2, NoneAssumption DEF Viewports, Here
    <3>. QED BY <3>1, PendingIsEnough DEF Pending, AsksForView
  <2>6. ASSUME NEW r \in reads, Read(r) \/ Answer(r) PROVE RestInv'
    BY <2>6, ReadKeepsRest
  <2>7. ASSUME NEW r \in reads, ShowPage(r) \/ GiveUp(r) \/ Drop(r) PROVE RestInv'
    BY <2>7, EndKeepsRest
  <2>8. ASSUME NEW r \in reads, Retry(r) PROVE RestInv'
    BY <2>8, RetryKeepsRest
  <2>. QED BY <2>1, <2>2, <2>3, <2>4, <2>5, <2>6, <2>7, <2>8, WatchKeepsRest,
              NotifiedKeepsRest, RequestKeepsRest
       DEF Next, Proceed
<1>. QED BY <1>1, <1>2, Inductive, PTL DEF Spec

(* Where the branches are watched, the viewport at rest shows the current   *)
(* log from its anchor on, or from its own row if the log has the anchor no *)
(* more, or the user was told that his request failed, whatever the engine  *)
(* and others have changed meanwhile.                                       *)
THEOREM RestIsCurrent == ~Linked => (Spec => []QuietIsCurrent)
<1>1. RestInv => QuietIsCurrent
  BY DEF RestInv, ViewIsCurrent, Pending, Shows, Here, QuietIsCurrent, Quiet
<1>. QED BY <1>1, RestInductive, PTL

=============================================================================
