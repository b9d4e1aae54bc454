----------------------- MODULE HistoryReaders_proofs -----------------------
(***************************************************************************)
(* Proofs about the readers of the history stream, for any number of       *)
(* events, records, reconnects and pages, for every limit of a query and   *)
(* every capacity of the channel and of the connection.                    *)
(***************************************************************************)
EXTENDS History_proofs

\* Only the operator of the queries has a query, and only a watch a connection.
IdleInv ==
  /\ reader # "query" => query.phase = "idle"
  /\ reader \notin {"status", "transitions"} => client.phase = "down"

ReadInv == WriteInv /\ ReaderTypes /\ IdleInv

\* `pgmctl watch transitions`.
WatchInv ==
  reader = "transitions" =>
    /\ \A i \in 1 .. Len(wire) :
         wire[i].id = NoID => i = Len(wire) /\ server.phase = "ended"
    /\ Chain(log, first, seen, wire, chan)
    /\ client.lastID = IF seen = <<>> THEN NoID ELSE seen[Len(seen)]
    /\ client.phase # "open" => server.phase = "none"
    /\ server.phase # "snapshot"
    /\ server.phase \in {"none", "subscribe"} => chan = <<>> /\ wire = <<>>
    /\ server.phase = "subscribe" => server.cursor = client.lastID
    /\ server.phase = "stream" /\ ~server.found =>
         /\ chan = <<>> /\ wire = <<>>
         /\ server.cursor = client.lastID /\ server.cursor # NoID
    /\ server.phase = "ended" => chan = <<>>
    /\ server.phase = "stream" /\ server.found => UpTo(log, first, seen, wire, chan, server.pos)

\* The pages of GET /v1/history.
QueryInv ==
  reader = "query" =>
    /\ Chain(log, first, seen, <<>>, query.out)
    /\ query.phase # "over" => query.cursor = IF seen = <<>> THEN NoID ELSE seen[Len(seen)]
    /\ query.phase # "run" => query.out = <<>>
    /\ query.phase = "run" /\ ~query.found => query.out = <<>> /\ query.cursor # NoID
    /\ query.phase = "run" /\ query.found => UpTo(log, first, seen, <<>>, query.out, query.pos)

\* Without a reader nobody gets anything.
NoneInv == reader = "none" => seen = <<>>

\* Record k is in the snapshot on the screen, in one on its way, or in the channel.
Shown(k) ==
  \/ seen # <<>> /\ seen[1] >= log[k].event
  \/ \E i \in 1 .. Len(wire) : wire[i].upto >= log[k].event
  \/ \E i \in 1 .. Len(chan) : chan[i] = k

\* The snapshot sn on the screen and the frames w behind it: they come in the
\* order they were taken in, none is ahead of the n events so far, and only a
\* stream that has ended has a frame without a snapshot, its last.
Snapshots(sn, w, ended, n) ==
  /\ sn # <<>> => sn[1] <= n
  /\ \A i \in 1 .. Len(w) :
       /\ w[i].upto <= n
       /\ w[i].id = NoID => i = Len(w) /\ ended
       /\ w[i].id # NoID /\ sn # <<>> => sn[1] <= w[i].upto
       /\ \A j \in 1 .. Len(w) : i < j /\ w[j].id # NoID => w[i].upto <= w[j].upto

\* `pgmctl watch status`: no retained status change behind the Watcher is lost.
StatusInv ==
  reader = "status" =>
    /\ client.phase # "open" => server.phase = "none"
    /\ server.phase = "none" => chan = <<>> /\ wire = <<>>
    /\ Snapshots(seen, wire, server.phase = "ended", Len(emitted))
    /\ server.phase = "stream" =>
         /\ ~server.found => server.start = server.pos
         /\ \A k \in server.start .. server.pos - 1 :
              ChangesStatus(k) /\ k >= first => Shown(k)

-----------------------------------------------------------------------------
(* The types *)

\* The types after a step.
LEMMA TypesStep ==
  ASSUME ReadInv, [Next]_vars
  PROVE  /\ WriteInv' /\ ReaderTypes' /\ reader' = reader
         /\ ReadStep => UNCHANGED <<emitted, log, first, scenario>>
         /\ Grown \/ ReadStep
<1> USE DEF ReadInv
<1>1. WriteInv' /\ (Grown \/ ReadStep)
  BY WriteStep, StepKinds
<1>2. CASE Grown
  <2>1. ReaderTypes' /\ scenario' = scenario
    BY <1>2, GrownTypes DEF Grown
  <2>2. ReadStep => UNCHANGED <<emitted, log, first, scenario>>
    BY ServerTypes, ClientTypes, Zenon DEF ReadStep
  <2> QED
    BY <1>1, <2>1, <2>2 DEF reader
<1>3. CASE ReadStep
  <2>1. ReaderTypes' /\ UNCHANGED <<emitted, log, first, scenario>>
    BY <1>3, ServerTypes, ClientTypes, Zenon DEF ReadStep
  <2> QED
    BY <1>1, <2>1 DEF reader
<1> QED
  BY <1>1, <1>2, <1>3

\* IdleInv is kept.
LEMMA IdleStep ==
  ASSUME ReadInv, [Next]_vars
  PROVE  ReadInv'
<1>1. /\ WriteInv' /\ ReaderTypes' /\ reader' = reader
      /\ Grown \/ ReadStep
  BY TypesStep
<1>2. CASE Grown
  BY <1>1, <1>2 DEF ReadInv, IdleInv, Grown
<1>3. CASE ReadStep
  <2>1. CASE WriteStatusFrame \/ Subscribe \/ WatcherNext \/ SubscriptionFails
              \/ HandleWatchEvent \/ HandlerGivesUp
    <3>1. client' = client /\ query' = query
      BY <2>1, Zenon DEF WriteStatusFrame, Subscribe, WatcherNext, SubscriptionFails,
                         HandleWatchEvent, HandlerGivesUp
    <3> QED
      BY <1>1, <3>1 DEF ReadInv, IdleInv
  <2>2. CASE Connect \/ ConnectFails
    <3>1. query' = query /\ reader \in {"status", "transitions"}
      BY <2>2, Zenon DEF Connect, ConnectFails
    <3> QED
      BY <1>1, <3>1 DEF ReadInv, IdleInv
  <2>3. CASE PipeFrame \/ \E broken \in BOOLEAN : ConnectionEnds(broken)
    <3>1. query' = query /\ client.phase = "open"
      BY <2>3, Zenon DEF PipeFrame, ConnectionEnds
    <3> QED
      BY <1>1, <3>1 DEF ReadInv, IdleInv
  <2>4. CASE QueryStart \/ QueryNext \/ QueryReturns \/ QueryFails
    <3>1. client' = client /\ (reader = "query" \/ query.phase = "run")
      BY <2>4, Zenon DEF QueryStart, QueryNext, QueryReturns, QueryFails
    <3> QED
      BY <1>1, <3>1 DEF ReadInv, IdleInv
  <2> QED
    BY <1>3, <2>1, <2>2, <2>3, <2>4 DEF ReadStep
<1> QED
  BY <1>1, <1>2, <1>3

\* The types that the steps of a watch need.
LEMMA WatchTypes ==
  ASSUME ReadInv
  PROVE  /\ log \in Seq(Record) /\ Len(log) \in Nat /\ first \in Nat /\ Len(emitted) \in Nat
         /\ server \in Servers /\ client \in Clients /\ query \in Queries
         /\ chan \in Seq(Int) /\ wire \in Seq(Frame) /\ seen \in Seq(Int)
         /\ server.pos \in Nat /\ server.pos <= Len(log) + 1
         /\ query.pos \in Nat /\ query.pos <= Len(log) + 1
         /\ \A i \in 1 .. Len(chan) : chan[i] \in 1 .. Len(log)
<1>1. /\ log \in Seq(Record) /\ Len(log) \in Nat /\ first \in Nat /\ Len(emitted) \in Nat
  BY DEF ReadInv, WriteInv, WriterTypes
<1>2. /\ server \in Servers /\ client \in Clients /\ query \in Queries
      /\ chan \in Seq(Int) /\ wire \in Seq(Frame) /\ seen \in Seq(Int)
      /\ server.pos <= Len(log) + 1 /\ query.pos <= Len(log) + 1
      /\ \A i \in 1 .. Len(chan) : chan[i] \in 1 .. Len(log)
  BY DEF ReadInv, ReaderTypes, Servers, Clients, Queries
<1>3. server.pos \in Nat /\ query.pos \in Nat
  BY <1>2 DEF Servers, Queries
<1> QED
  BY <1>1, <1>2, <1>3

-----------------------------------------------------------------------------
(* Watching the transitions *)

\* What the reader has of a chain is a chain, and its last record is stored.
LEMMA SeenChain ==
  ASSUME NEW l \in Seq(Record), NEW f \in Nat,
         NEW s \in Seq(Int), NEW w \in Seq(Frame), NEW b \in Seq(Int), Chain(l, f, s, w, b)
  PROVE  /\ Chain(l, f, s, <<>>, <<>>)
         /\ s # <<>> => s[Len(s)] \in 1 .. Len(l) /\ Len(s) \in 1 .. Len(s)
<1>1. <<>> \in Seq(Int) /\ <<>> \in Seq(Frame)
  OBVIOUS
<1>2. /\ Len(s) <= Size(s, w, b) /\ Size(s, <<>>, <<>>) = Len(s)
      /\ \A i \in 1 .. Len(s) : At(s, w, b, i) = s[i]
  BY PathSeen
<1>3. \A i \in 1 .. Len(s) : At(s, <<>>, <<>>, i) = s[i]
  BY <1>1, PathSeen, Zenon
<1>4. Chain(l, f, s, <<>>, <<>>)
  <2>1. Len(l) <= Len(l) /\ f <= f
    OBVIOUS
  <2>2. \A i \in 1 .. Size(s, <<>>, <<>>) : At(s, <<>>, <<>>, i) = At(s, w, b, i)
    BY <1>2, <1>3
  <2>3. Size(s, <<>>, <<>>) <= Size(s, w, b)
    BY <1>2
  <2> QED
    BY <1>1, <2>1, <2>2, <2>3, ChainKeeps, Zenon
<1>5. ASSUME s # <<>> PROVE s[Len(s)] \in 1 .. Len(l) /\ Len(s) \in 1 .. Len(s)
  <2>1. Len(s) \in 1 .. Len(s)
    BY <1>5
  <2>2. At(s, <<>>, <<>>, Len(s)) \in 1 .. Len(l)
    BY <1>2, <1>4, <2>1 DEF Chain
  <2> QED
    BY <1>3, <2>1, <2>2
<1> QED
  BY <1>4, <1>5

\* ChainKeeps and UpToKeeps for a step that leaves the log alone.
LEMMA ChainSame ==
  ASSUME NEW l \in Seq(Record), NEW f \in Nat,
         NEW s \in Seq(Int), NEW w \in Seq(Frame), NEW b \in Seq(Int),
         NEW s2 \in Seq(Int), NEW w2 \in Seq(Frame), NEW b2 \in Seq(Int),
         Size(s2, w2, b2) = Size(s, w, b),
         \A i \in 1 .. Size(s, w, b) : At(s2, w2, b2, i) = At(s, w, b, i),
         Chain(l, f, s, w, b)
  PROVE  /\ Chain(l, f, s2, w2, b2)
         /\ \A pos \in Nat : pos <= Len(l) + 1 /\ UpTo(l, f, s, w, b, pos)
                               => UpTo(l, f, s2, w2, b2, pos)
<1>1. Len(l) <= Len(l) /\ f <= f /\ Size(s2, w2, b2) <= Size(s, w, b)
  BY SizeType
<1>2. \A i \in 1 .. Size(s2, w2, b2) : At(s2, w2, b2, i) = At(s, w, b, i)
  OBVIOUS
<1>3. Chain(l, f, s2, w2, b2)
  BY <1>1, <1>2, ChainKeeps, Zenon
<1>4. ASSUME NEW pos \in Nat, pos <= Len(l) + 1, UpTo(l, f, s, w, b, pos)
      PROVE  UpTo(l, f, s2, w2, b2, pos)
  BY <1>1, <1>2, <1>4, UpToKeeps, Zenon
<1> QED
  BY <1>3, <1>4

\* The writers.
LEMMA WatchGrown ==
  ASSUME ReadInv, ReadInv', WatchInv, Grown
  PROVE  WatchInv'
<1> SUFFICES ASSUME reader = "transitions" PROVE WatchInv'
  BY DEF WatchInv, Grown, reader
<1>1. /\ log \in Seq(Record) /\ first \in Nat
      /\ chan \in Seq(Int) /\ wire \in Seq(Frame) /\ seen \in Seq(Int)
      /\ server.pos \in Nat /\ server.pos <= Len(log) + 1
  BY WatchTypes
<1>2. /\ log' \in Seq(Record) /\ first' \in Nat
  BY DEF ReadInv, WriteInv, WriterTypes
<1>3. /\ Len(log) <= Len(log') /\ first <= first'
      /\ \A k \in 1 .. Len(log) : log'[k] = log[k]
      /\ reader' = reader /\ client' = client /\ server' = server /\ chan' = chan
      /\ wire' = wire /\ seen' = seen
  BY DEF Grown, reader
<1>4. Chain(log, first, seen, wire, chan)
  BY DEF WatchInv
<1>5. /\ Size(seen, wire, chan) <= Size(seen, wire, chan)
      /\ \A i \in 1 .. Size(seen, wire, chan) : At(seen, wire, chan, i) = At(seen, wire, chan, i)
  BY <1>1, SizeType
<1>6. Chain(log', first', seen, wire, chan)
  BY <1>1, <1>2, <1>3, <1>4, <1>5, ChainKeeps, Zenon
<1>7. UpTo(log, first, seen, wire, chan, server.pos) => UpTo(log', first', seen, wire, chan, server.pos)
  BY <1>1, <1>2, <1>3, <1>4, <1>5, UpToKeeps, Zenon
<1> QED
  BY <1>3, <1>6, <1>7, Zenon DEF WatchInv

\* What the steps of a watch may rely on.
LEMMA WatchFacts ==
  ASSUME ReadInv, WatchInv, reader = "transitions"
  PROVE  /\ Chain(log, first, seen, wire, chan)
         /\ client.lastID = IF seen = <<>> THEN NoID ELSE seen[Len(seen)]
         /\ seen # <<>> => client.lastID # NoID
         /\ server.phase # "ended" => \A i \in 1 .. Len(wire) : wire[i].id # NoID
<1>1. /\ Chain(log, first, seen, wire, chan)
      /\ client.lastID = IF seen = <<>> THEN NoID ELSE seen[Len(seen)]
      /\ server.phase # "ended" => \A i \in 1 .. Len(wire) : wire[i].id # NoID
  BY Zenon DEF WatchInv
<1>2. seen # <<>> => seen[Len(seen)] \in 1 .. Len(log)
  BY <1>1, WatchTypes, SeenChain
<1> QED
  BY <1>1, <1>2, WatchTypes DEF NoID

\* A server that has come to the end of its stream has nothing for a reader
\* who has seen nothing.
LEMMA WatchSubscribe ==
  ASSUME ReadInv, ReadInv', WatchInv, reader = "transitions", Subscribe
  PROVE  WatchInv'
<1>1. /\ server.phase = "subscribe" /\ client' = client /\ chan' = chan /\ wire' = wire
      /\ seen' = seen /\ log' = log /\ first' = first /\ reader' = reader
  BY Zenon DEF Subscribe, stream, reader
<1>2. /\ chan = <<>> /\ wire = <<>> /\ server.cursor = client.lastID
      /\ client.phase = "open"
  BY <1>1 DEF WatchInv
<1>3. /\ Chain(log, first, seen, wire, chan)
      /\ client.lastID = IF seen = <<>> THEN NoID ELSE seen[Len(seen)]
      /\ seen # <<>> => client.lastID # NoID
  BY WatchFacts
<1>4. server \in Servers /\ Len(wire) = 0
  BY <1>2, WatchTypes
<1>5. /\ server'.cursor = server.cursor
      /\ \/ server'.phase = "failed"
         \/ server'.phase = "stream" /\ server'.found = (server.cursor = NoID)
  BY <1>4, Zenon DEF Subscribe, Servers
<1>6. server'.found /\ server'.phase = "stream" => UpTo(log, first, seen, wire, chan, server'.pos)
  <2> SUFFICES ASSUME seen = <<>> PROVE UpTo(log, first, seen, wire, chan, server'.pos)
    BY <1>2, <1>3, <1>5, Zenon
  <2>1. Size(seen, wire, chan) = 0
    BY <1>2 DEF Size, Live
  <2> QED
    BY <2>1 DEF UpTo
<1>7. \A i \in 1 .. Len(wire) : FALSE
  BY <1>4
<1>8. server'.phase \in {"failed", "stream"} /\ (server'.phase = "stream" => (server'.found <=> server.cursor = NoID))
  BY <1>5, Zenon
<1> QED
  BY <1>1, <1>2, <1>3, <1>5, <1>6, <1>7, <1>8, Zenon DEF WatchInv

\* Watcher.run's loop: the next record joins the chain; before the cursor is
\* found, nothing is sent, and behind it nothing has been missed.
LEMMA WatchNext ==
  ASSUME ReadInv, ReadInv', WatchInv, reader = "transitions", WatcherNext
  PROVE  WatchInv'
<1> DEFINE p == NextRecord(server.pos)
<1>1. /\ server.phase = "stream" /\ client' = client /\ wire' = wire /\ p <= Len(log)
      /\ seen' = seen /\ log' = log /\ first' = first /\ reader' = reader
      /\ chan' = IF server.found /\ TypeMatches(p) THEN Append(chan, p) ELSE chan
  BY DEF WatcherNext, stream, reader
<1>2. /\ server'.phase = "stream" /\ server'.cursor = server.cursor
      /\ server'.pos = p + 1 /\ server'.found = (server.found \/ p = server.cursor)
  BY WatchTypes DEF WatcherNext, Servers
<1>3. /\ log \in Seq(Record) /\ first \in Nat /\ seen \in Seq(Int) /\ wire \in Seq(Frame)
      /\ chan \in Seq(Int) /\ server.pos \in Nat
  BY WatchTypes
<1>4. p \in 1 .. Len(log) /\ p \in Nat /\ p = Max2(server.pos, first)
  BY <1>1, <1>3, NextType DEF ReadInv, NextRecord
<1>5. /\ Chain(log, first, seen, wire, chan)
      /\ client.lastID = IF seen = <<>> THEN NoID ELSE seen[Len(seen)]
      /\ \A i \in 1 .. Len(wire) : wire[i].id # NoID
      /\ client.phase = "open"
  BY <1>1, WatchFacts DEF WatchInv
<1> HIDE DEF p
<1>6. /\ Chain(log, first, seen, wire, chan')
      /\ server'.found => UpTo(log, first, seen, wire, chan', server'.pos)
      /\ ~server'.found => chan' = <<>> /\ wire = <<>> /\ server.cursor = client.lastID
                             /\ server.cursor # NoID
  <2>1. CASE server.found
    <3>1. UpTo(log, first, seen, wire, chan, server.pos)
      BY <1>1, <2>1 DEF WatchInv
    <3>2. /\ Chain(log, first, seen, wire, Append(chan, p))
          /\ UpTo(log, first, seen, wire, Append(chan, p), p + 1)
          /\ ~Matches(log, p) => UpTo(log, first, seen, wire, chan, p + 1)
      BY <1>3, <1>4, <1>5, <3>1, ChainExtend, Zenon
    <3>3. TypeMatches(p) <=> Matches(log, p)
      BY DEF TypeMatches, Matches
    <3> QED
      BY <1>1, <1>2, <1>5, <2>1, <3>2, <3>3, Zenon
  <2>2. CASE ~server.found
    <3>1. /\ chan' = <<>> /\ chan = <<>> /\ wire = <<>>
          /\ server.cursor = client.lastID /\ server.cursor # NoID
      BY <1>1, <2>2 DEF WatchInv
    <3>2. ASSUME p = server.cursor PROVE UpTo(log, first, seen, <<>>, <<>>, p + 1)
      <4>1. p = seen[Len(seen)] /\ seen # <<>>
        BY <1>5, <3>1, <3>2
      <4>2. Size(seen, <<>>, <<>>) = Len(seen) /\ Len(seen) \in 1 .. Len(seen)
        BY <1>3, <1>5, <4>1, SeenChain, PathSeen
      <4>3. At(seen, <<>>, <<>>, Len(seen)) = p
        BY <4>1, <4>2, <1>3 DEF At
      <4>4. NoGap(log, first, p, p + 1)
        BY <1>4 DEF NoGap
      <4>5. p < p + 1
        BY <1>4
      <4> QED
        BY <4>2, <4>3, <4>4, <4>5 DEF UpTo
    <3> QED
      BY <1>2, <1>5, <2>2, <3>1, <3>2, Zenon
  <2> QED
    BY <2>1, <2>2
<1>7. server'.found \in BOOLEAN
  BY <1>2
<1> QED
  BY <1>1, <1>2, <1>5, <1>6, <1>7, Zenon DEF WatchInv

\* The subscription ends with an error.
LEMMA WatchFails ==
  ASSUME ReadInv, ReadInv', WatchInv, reader = "transitions", SubscriptionFails
  PROVE  WatchInv'
<1>1. /\ server.phase = "stream" /\ client' = client /\ wire' = wire /\ chan' = chan
      /\ seen' = seen /\ log' = log /\ first' = first /\ reader' = reader
  BY DEF SubscriptionFails, stream, reader
<1>2. server'.phase = "failed" /\ server'.cursor = server.cursor
  BY WatchTypes DEF SubscriptionFails, Servers
<1> QED
  BY <1>1, <1>2, Zenon DEF WatchInv

\* The handler forwards a record.
LEMMA WatchHandle ==
  ASSUME ReadInv, ReadInv', WatchInv, reader = "transitions", HandleWatchEvent
  PROVE  WatchInv'
<1> DEFINE f == [id |-> Head(chan), upto |-> Len(emitted)]
<1>1. /\ server.phase \in {"stream", "failed"} /\ chan # <<>> /\ chan' = Tail(chan)
      /\ client' = client /\ wire' = Append(wire, f) /\ server' = server
      /\ seen' = seen /\ log' = log /\ first' = first /\ reader' = reader
  BY DEF HandleWatchEvent, stream, reader
<1>2. /\ log \in Seq(Record) /\ first \in Nat /\ seen \in Seq(Int) /\ wire \in Seq(Frame)
      /\ chan \in Seq(Int) /\ server.pos \in Nat /\ server.pos <= Len(log) + 1
      /\ Len(log) \in Nat /\ Len(emitted) \in Nat
  BY WatchTypes
<1>3. Head(chan) \in 1 .. Len(log)
  <2>1. Head(chan) = chan[1] /\ 1 \in 1 .. Len(chan)
    BY <1>1, <1>2, TailSeq
  <2> QED
    BY <2>1, WatchTypes
<1>4. f \in Frame /\ f.id = Head(chan) /\ f.id # NoID
  BY <1>2, <1>3 DEF Frame, NoID
<1>5. /\ Chain(log, first, seen, wire, chan)
      /\ \A i \in 1 .. Len(wire) : wire[i].id # NoID
      /\ client.lastID = IF seen = <<>> THEN NoID ELSE seen[Len(seen)]
      /\ client.phase = "open"
      /\ server.phase = "stream" =>
           server.found /\ UpTo(log, first, seen, wire, chan, server.pos)
  BY <1>1, WatchFacts DEF WatchInv
<1> HIDE DEF f
<1>6. /\ wire' \in Seq(Frame) /\ chan' \in Seq(Int)
      /\ \A i \in 1 .. Len(wire') : wire'[i].id # NoID
  <2>1. /\ wire' \in Seq(Frame) /\ chan' \in Seq(Int)
        /\ Len(wire') = Len(wire) + 1 /\ Len(wire) \in Nat
        /\ \A i \in 1 .. Len(wire) : wire'[i] = wire[i]
        /\ wire'[Len(wire) + 1] = f
    BY <1>1, <1>2, <1>4, AppendSeq, TailSeq
  <2>2. \A i \in 1 .. Len(wire') : i \in 1 .. Len(wire) \/ i = Len(wire) + 1
    BY <2>1
  <2> QED
    BY <1>4, <1>5, <2>1, <2>2
<1>7. /\ Size(seen, wire', chan') = Size(seen, wire, chan)
      /\ \A i \in 1 .. Size(seen, wire, chan) : At(seen, wire', chan', i) = At(seen, wire, chan, i)
  BY <1>1, <1>2, <1>4, <1>5, PathForward, Zenon
<1>8. /\ Chain(log, first, seen, wire', chan')
      /\ server.phase = "stream" => UpTo(log, first, seen, wire', chan', server.pos)
  BY <1>2, <1>5, <1>6, <1>7, ChainSame, Zenon
<1> QED
  BY <1>1, <1>5, <1>6, <1>8, Zenon DEF WatchInv

\* The handler gives up: what is left in the channel is lost, at the end.
LEMMA WatchGivesUp ==
  ASSUME ReadInv, ReadInv', WatchInv, reader = "transitions", HandlerGivesUp
  PROVE  WatchInv'
<1> DEFINE f == [id |-> NoID, upto |-> 0]
<1>1. /\ server.phase = "failed" /\ chan' = <<>>
      /\ client' = client /\ wire' = Append(wire, f)
      /\ seen' = seen /\ log' = log /\ first' = first /\ reader' = reader
  BY DEF HandlerGivesUp, stream, reader
<1>2. server'.phase = "ended"
  BY WatchTypes DEF HandlerGivesUp, Servers
<1>3. /\ log \in Seq(Record) /\ first \in Nat /\ seen \in Seq(Int) /\ wire \in Seq(Frame)
      /\ chan \in Seq(Int) /\ <<>> \in Seq(Int)
  BY WatchTypes
<1>4. f \in Frame /\ f.id = NoID
  BY DEF Frame, NoID
<1>5. /\ Chain(log, first, seen, wire, chan)
      /\ \A i \in 1 .. Len(wire) : wire[i].id # NoID
      /\ client.lastID = IF seen = <<>> THEN NoID ELSE seen[Len(seen)]
      /\ client.phase = "open"
  BY <1>1, WatchFacts DEF WatchInv
<1> HIDE DEF f
<1>6. /\ wire' \in Seq(Frame) /\ Len(wire') = Len(wire) + 1 /\ Len(wire) \in Nat
      /\ \A i \in 1 .. Len(wire) : wire'[i] = wire[i]
  BY <1>1, <1>3, <1>4, AppendSeq
<1>7. \A i \in 1 .. Len(wire') : wire'[i].id = NoID => i = Len(wire')
  <2>1. \A i \in 1 .. Len(wire') : i \in 1 .. Len(wire) \/ i = Len(wire')
    BY <1>6
  <2> QED
    BY <1>5, <1>6, <2>1
<1>8. /\ Size(seen, wire', <<>>) <= Size(seen, wire, chan)
      /\ \A i \in 1 .. Size(seen, wire', <<>>) : At(seen, wire', <<>>, i) = At(seen, wire, chan, i)
  BY <1>1, <1>3, <1>4, <1>5, PathMarker
<1>9. Chain(log, first, seen, wire', <<>>)
  <2>1. Len(log) <= Len(log) /\ first <= first
    BY <1>3
  <2> QED
    BY <1>3, <1>5, <1>6, <1>8, <2>1, ChainKeeps, Zenon
<1> QED
  BY <1>1, <1>2, <1>5, <1>7, <1>9, Zenon DEF WatchInv

\* Tail dials with the last id it has, or fails to.
LEMMA WatchConnect ==
  ASSUME ReadInv, ReadInv', WatchInv, reader = "transitions", Connect \/ ConnectFails
  PROVE  WatchInv'
<1>1. /\ client.phase = "down" /\ wire' = wire /\ chan' = chan
      /\ seen' = seen /\ log' = log /\ first' = first /\ reader' = reader
  BY DEF Connect, ConnectFails, stream, reader
<1>2. server.phase = "none" /\ chan = <<>> /\ wire = <<>> /\ Len(wire) = 0
  BY <1>1 DEF WatchInv
<1>3. \A i \in 1 .. Len(wire) : FALSE
  BY <1>2
<1>4. CASE Connect
  <2>1. client'.phase = "open" /\ client'.lastID = client.lastID
    BY <1>4, WatchTypes DEF Connect, Clients
  <2>2. server'.phase = "subscribe" /\ server'.cursor = client.lastID
    BY <1>4 DEF Connect, NoServer
  <2> QED
    BY <1>1, <1>2, <1>3, <2>1, <2>2, Zenon DEF WatchInv
<1>5. CASE ConnectFails
  <2>1. server' = server /\ client'.lastID = client.lastID
    BY <1>5, WatchTypes DEF ConnectFails, Retry, Clients
  <2> QED
    BY <1>1, <1>2, <1>3, <2>1, Zenon DEF WatchInv
<1> QED
  BY <1>4, <1>5

\* The connection ends: what was under way is lost, at the end.
LEMMA WatchEnds ==
  ASSUME ReadInv, ReadInv', WatchInv, reader = "transitions",
         NEW broken \in BOOLEAN, ConnectionEnds(broken)
  PROVE  WatchInv'
<1>1. /\ wire' = <<>> /\ chan' = <<>> /\ server' = NoServer /\ Retry
      /\ seen' = seen /\ log' = log /\ first' = first /\ reader' = reader
  BY DEF ConnectionEnds, stream, reader
<1>2. client'.lastID = client.lastID
  BY <1>1, WatchTypes DEF Retry, Clients
<1>3. Chain(log, first, seen, <<>>, <<>>)
  BY WatchFacts, WatchTypes, SeenChain
<1>4. server'.phase = "none" /\ (\A i \in 1 .. Len(wire') : FALSE)
  BY <1>1 DEF NoServer
<1> QED
  BY <1>1, <1>2, <1>3, <1>4, Zenon DEF WatchInv

\* pipeFrames: the id of a record is kept with the record.
LEMMA WatchPipe ==
  ASSUME ReadInv, ReadInv', WatchInv, reader = "transitions", PipeFrame
  PROVE  WatchInv'
<1> DEFINE f == Head(wire)
<1>1. /\ wire # <<>> /\ wire' = Tail(wire) /\ chan' = chan /\ server' = server
      /\ client.phase = "open"
      /\ log' = log /\ first' = first /\ reader' = reader
      /\ client' = IF f.id = NoID THEN client ELSE [client EXCEPT !.lastID = f.id]
      /\ seen' = IF f.id = NoID THEN seen ELSE Append(seen, f.id)
  BY DEF PipeFrame, stream, reader
<1>2. /\ log \in Seq(Record) /\ first \in Nat /\ seen \in Seq(Int) /\ wire \in Seq(Frame)
      /\ chan \in Seq(Int) /\ server.pos \in Nat /\ server.pos <= Len(log) + 1
      /\ client \in Clients
  BY WatchTypes
<1>3. /\ f \in Frame /\ f = wire[1] /\ Len(wire) \in Nat \ {0} /\ f.id \in Int
      /\ wire' \in Seq(Frame) /\ Len(wire') = Len(wire) - 1
      /\ \A i \in 1 .. Len(wire) - 1 : wire'[i] = wire[i + 1]
  <2>1. /\ f \in Frame /\ f = wire[1] /\ Len(wire) \in Nat \ {0}
        /\ wire' \in Seq(Frame) /\ Len(wire') = Len(wire) - 1
        /\ \A i \in 1 .. Len(wire) - 1 : wire'[i] = wire[i + 1]
    BY <1>1, <1>2, TailSeq
  <2> QED
    BY <2>1 DEF Frame
<1>4. /\ Chain(log, first, seen, wire, chan)
      /\ client.lastID = IF seen = <<>> THEN NoID ELSE seen[Len(seen)]
      /\ \A i \in 1 .. Len(wire) : wire[i].id = NoID => i = Len(wire) /\ server.phase = "ended"
      /\ server.phase # "snapshot" /\ server.phase \notin {"none", "subscribe"}
      /\ server.phase = "ended" => chan = <<>>
      /\ server.phase = "stream" =>
           server.found /\ UpTo(log, first, seen, wire, chan, server.pos)
  BY <1>1, Zenon DEF WatchInv
<1> HIDE DEF f
<1>5. \A i \in 1 .. Len(wire') :
        wire'[i].id = NoID => i = Len(wire') /\ server.phase = "ended"
  <2> SUFFICES ASSUME NEW i \in 1 .. Len(wire'), wire'[i].id = NoID
               PROVE  i = Len(wire') /\ server.phase = "ended"
    OBVIOUS
  <2>1. PICK j \in 1 .. Len(wire) : j = i + 1 /\ wire'[i] = wire[j]
    BY <1>3
  <2>2. j = Len(wire) /\ server.phase = "ended"
    BY <1>4, <2>1
  <2> QED
    BY <1>3, <2>1, <2>2
<1>6. CASE f.id = NoID
  <2>1. Len(wire) = 1 /\ server.phase = "ended" /\ chan = <<>>
    BY <1>3, <1>4, <1>6
  <2>2. wire' = <<>>
    BY <1>3, <2>1
  <2>3. Chain(log, first, seen, <<>>, <<>>)
    BY <1>2, <1>4, SeenChain
  <2> QED
    BY <1>1, <1>4, <1>5, <1>6, <2>1, <2>2, <2>3, Zenon DEF WatchInv
<1>7. CASE f.id # NoID
  <2>1. /\ Size(seen', wire', chan) = Size(seen, wire, chan)
        /\ \A i \in 1 .. Size(seen, wire, chan) : At(seen', wire', chan, i) = At(seen, wire, chan, i)
    BY <1>1, <1>2, <1>4, <1>7, PathPipe DEF f
  <2>2. /\ seen' \in Seq(Int) /\ seen' # <<>> /\ seen'[Len(seen')] = f.id
    BY <1>1, <1>2, <1>3, <1>7, AppendSeq
  <2>3. client'.lastID = f.id /\ client'.phase = "open"
    BY <1>1, <1>2, <1>7 DEF Clients
  <2>4. /\ Chain(log, first, seen', wire', chan)
        /\ server.phase = "stream" => UpTo(log, first, seen', wire', chan, server.pos)
    BY <1>2, <1>3, <1>4, <2>1, <2>2, ChainSame, Zenon
  <2> QED
    BY <1>1, <1>4, <1>5, <2>2, <2>3, <2>4, Zenon DEF WatchInv
<1> QED
  BY <1>6, <1>7

\* WatchInv is kept.
LEMMA WatchStep ==
  ASSUME ReadInv, WatchInv, [Next]_vars
  PROVE  WatchInv'
<1>1. /\ ReadInv' /\ reader' = reader /\ (Grown \/ ReadStep)
      /\ ReadStep => UNCHANGED <<emitted, log, first, scenario>>
  BY TypesStep, IdleStep
<1>2. CASE Grown
  BY <1>1, <1>2, WatchGrown
<1>3. CASE reader # "transitions"
  BY <1>1, <1>3 DEF WatchInv
<1>4. CASE reader = "transitions" /\ ReadStep
  <2>1. ~WriteStatusFrame /\ ~QueryStart /\ ~QueryNext /\ ~QueryReturns /\ ~QueryFails
    BY <1>4, Zenon DEF WriteStatusFrame, QueryStart, QueryNext, QueryReturns, QueryFails,
                       WatchInv, ReadInv, IdleInv
  <2> QED
    BY <1>1, <1>4, <2>1, WatchSubscribe, WatchNext, WatchFails, WatchHandle, WatchGivesUp,
       WatchConnect, WatchEnds, WatchPipe, Zenon DEF ReadStep
<1> QED
  BY <1>1, <1>2, <1>3, <1>4

-----------------------------------------------------------------------------
(* The pages of a query *)

\* A page joins the pages before it.
LEMMA PathPage ==
  ASSUME NEW s \in Seq(Int), NEW b \in Seq(Int)
  PROVE  /\ s \o b \in Seq(Int) /\ Len(s \o b) = Len(s) + Len(b)
         /\ Size(s \o b, <<>>, <<>>) = Size(s, <<>>, b)
         /\ \A i \in 1 .. Size(s, <<>>, b) : At(s \o b, <<>>, <<>>, i) = At(s, <<>>, b, i)
         /\ b # <<>> => s \o b # <<>> /\ (s \o b)[Len(s \o b)] = b[Len(b)]
<1>0. s \o b \in Seq(Int)
  OBVIOUS
<1>1. PICK r \in Seq(Int) : r = s \o b
  BY <1>0, Zenon
<1>2. /\ Len(r) = Len(s) + Len(b) /\ Len(s) \in Nat /\ Len(b) \in Nat
      /\ \A i \in 1 .. Len(r) : r[i] = IF i <= Len(s) THEN s[i] ELSE b[i - Len(s)]
  BY <1>1
<1>3. Live(<<>>) = 0 /\ Len(<<>>) = 0
  BY DEF Live
<1>4. Size(r, <<>>, <<>>) = Len(r) /\ Size(s, <<>>, b) = Len(r)
  BY <1>2, <1>3 DEF Size
<1>5. \A i \in 1 .. Len(r) : At(r, <<>>, <<>>, i) = At(s, <<>>, b, i)
  BY <1>2, <1>3 DEF At
<1>6. ASSUME b # <<>> PROVE r # <<>> /\ r[Len(r)] = b[Len(b)]
  <2>1. Len(b) # 0
    BY <1>6
  <2>2. Len(r) \in 1 .. Len(r) /\ ~(Len(r) <= Len(s)) /\ Len(r) - Len(s) = Len(b)
    BY <1>2, <2>1
  <2>3. r # <<>>
    BY <1>2, <2>1
  <2>4. r[Len(r)] = IF Len(r) <= Len(s) THEN s[Len(r)] ELSE b[Len(r) - Len(s)]
    BY <1>2, <2>2
  <2> QED
    BY <2>2, <2>3, <2>4
<1> QED
  BY <1>1, <1>2, <1>4, <1>5, <1>6

\* What the steps of a query may rely on.
LEMMA QueryFacts ==
  ASSUME ReadInv, QueryInv, reader = "query"
  PROVE  /\ log \in Seq(Record) /\ first \in Nat /\ seen \in Seq(Int)
         /\ query.out \in Seq(Int) /\ query.pos \in Nat /\ query.pos <= Len(log) + 1
         /\ <<>> \in Seq(Frame) /\ <<>> \in Seq(Int)
         /\ Chain(log, first, seen, <<>>, query.out)
         /\ seen # <<>> => seen[Len(seen)] # NoID
<1>1. /\ log \in Seq(Record) /\ first \in Nat /\ seen \in Seq(Int) /\ Len(log) \in Nat
      /\ query.out \in Seq(Int) /\ query.pos \in Nat /\ query.pos <= Len(log) + 1
      /\ <<>> \in Seq(Frame) /\ <<>> \in Seq(Int)
  BY WatchTypes DEF Queries
<1>2. Chain(log, first, seen, <<>>, query.out)
  BY DEF QueryInv
<1>3. seen # <<>> => seen[Len(seen)] \in 1 .. Len(log)
  BY <1>1, <1>2, SeenChain, Zenon
<1> QED
  BY <1>1, <1>2, <1>3 DEF NoID

\* The writers.
LEMMA QueryGrown ==
  ASSUME ReadInv, ReadInv', QueryInv, Grown
  PROVE  QueryInv'
<1> SUFFICES ASSUME reader = "query" PROVE QueryInv'
  BY DEF QueryInv, Grown, reader
<1> DEFINE out == query.out
<1>1. /\ log \in Seq(Record) /\ first \in Nat /\ seen \in Seq(Int) /\ out \in Seq(Int)
      /\ query.pos \in Nat /\ query.pos <= Len(log) + 1 /\ <<>> \in Seq(Frame)
      /\ Chain(log, first, seen, <<>>, out)
  BY QueryFacts
<1>2. log' \in Seq(Record) /\ first' \in Nat
  BY DEF ReadInv, WriteInv, WriterTypes
<1>3. /\ Len(log) <= Len(log') /\ first <= first'
      /\ \A k \in 1 .. Len(log) : log'[k] = log[k]
      /\ reader' = reader /\ query' = query /\ seen' = seen
  BY DEF Grown, reader
<1>4. /\ Size(seen, <<>>, out) <= Size(seen, <<>>, out)
      /\ \A i \in 1 .. Size(seen, <<>>, out) : At(seen, <<>>, out, i) = At(seen, <<>>, out, i)
  <2> HIDE DEF out
  <2>1. Size(seen, <<>>, out) \in Nat
    BY <1>1, SizeType, Zenon
  <2> QED
    BY <2>1
<1> HIDE DEF out
<1>5. Chain(log', first', seen, <<>>, out)
  BY <1>1, <1>2, <1>3, <1>4, ChainKeeps, Zenon
<1>6. UpTo(log, first, seen, <<>>, out, query.pos) => UpTo(log', first', seen, <<>>, out, query.pos)
  BY <1>1, <1>2, <1>3, <1>4, UpToKeeps, Zenon
<1> QED
  BY <1>3, <1>5, <1>6, Zenon DEF QueryInv, out

\* A page begins at the front, to look for the cursor, or has none to look for.
LEMMA QueryBegins ==
  ASSUME ReadInv, ReadInv', QueryInv, reader = "query", QueryStart
  PROVE  QueryInv'
<1>1. /\ query.phase = "idle" /\ query.out = <<>>
      /\ query.cursor = IF seen = <<>> THEN NoID ELSE seen[Len(seen)]
      /\ seen' = seen /\ log' = log /\ first' = first /\ reader' = reader
  BY DEF QueryStart, QueryInv, stream, reader
<1>2. /\ query'.phase = "run" /\ query'.out = <<>> /\ query'.cursor = query.cursor
      /\ query'.found = (query.cursor = NoID)
  BY WatchTypes DEF QueryStart, Queries
<1>3. Chain(log, first, seen, <<>>, <<>>) /\ (seen # <<>> => query.cursor # NoID)
  BY <1>1, QueryFacts
<1>4. ASSUME query'.found PROVE UpTo(log, first, seen, <<>>, <<>>, query'.pos)
  <2>1. seen = <<>>
    BY <1>2, <1>3, <1>4, Zenon
  <2>2. Size(seen, <<>>, <<>>) = 0
    BY <2>1 DEF Size, Live
  <2> QED
    BY <2>2 DEF UpTo
<1>5. ~query'.found => query.cursor # NoID
  BY <1>2, Zenon
<1> QED
  BY <1>1, <1>2, <1>3, <1>4, <1>5, Zenon DEF QueryInv

\* A record of a page.
LEMMA QueryFetches ==
  ASSUME ReadInv, ReadInv', QueryInv, reader = "query", QueryNext
  PROVE  QueryInv'
<1> DEFINE p == NextRecord(query.pos)
           out == query.out
<1>1. /\ query.phase = "run" /\ p <= Len(log)
      /\ query.cursor = IF seen = <<>> THEN NoID ELSE seen[Len(seen)]
      /\ seen' = seen /\ log' = log /\ first' = first /\ reader' = reader
  BY DEF QueryNext, QueryInv, stream, reader
<1>2. /\ query'.phase = "run" /\ query'.cursor = query.cursor /\ query'.pos = p + 1
      /\ query'.found = (query.found \/ p = query.cursor)
      /\ query'.out = IF query.found /\ TypeMatches(p) THEN Append(out, p) ELSE out
  BY WatchTypes DEF QueryNext, Queries
<1>3. /\ log \in Seq(Record) /\ first \in Nat /\ seen \in Seq(Int) /\ out \in Seq(Int)
      /\ query.pos \in Nat /\ <<>> \in Seq(Frame) /\ Chain(log, first, seen, <<>>, out)
  BY QueryFacts
<1>4. p \in 1 .. Len(log) /\ p \in Nat /\ p = Max2(query.pos, first)
  BY <1>1, <1>3, NextType DEF ReadInv, NextRecord
<1>5. CASE query.found
  <2>1. UpTo(log, first, seen, <<>>, out, query.pos)
    BY <1>1, <1>5 DEF QueryInv
  <2> HIDE DEF p, out
  <2>2. /\ Chain(log, first, seen, <<>>, Append(out, p))
        /\ UpTo(log, first, seen, <<>>, Append(out, p), p + 1)
        /\ ~Matches(log, p) => UpTo(log, first, seen, <<>>, out, p + 1)
    BY <1>3, <1>4, <2>1, ChainExtend, Zenon
  <2>3. TypeMatches(p) <=> Matches(log, p)
    BY DEF TypeMatches, Matches
  <2>4. /\ query'.found
        /\ Chain(log, first, seen, <<>>, query'.out)
        /\ UpTo(log, first, seen, <<>>, query'.out, query'.pos)
    BY <1>2, <1>3, <1>5, <2>2, <2>3, Zenon
  <2> QED
    BY <1>1, <1>2, <2>4, Zenon DEF QueryInv
<1>6. CASE ~query.found
  <2>1. out = <<>> /\ query'.out = <<>> /\ query.cursor # NoID
    BY <1>1, <1>2, <1>6 DEF QueryInv
  <2>2. ASSUME p = query.cursor PROVE UpTo(log, first, seen, <<>>, <<>>, p + 1)
    <3> HIDE DEF p, out
    <3>1. p = seen[Len(seen)] /\ seen # <<>>
      BY <1>1, <2>1, <2>2
    <3>2. Size(seen, <<>>, <<>>) = Len(seen) /\ Len(seen) \in 1 .. Len(seen)
      BY <1>3, <3>1, SeenChain, PathSeen, Zenon
    <3>3. At(seen, <<>>, <<>>, Len(seen)) = p
      BY <1>3, <3>1, <3>2 DEF At
    <3>4. NoGap(log, first, p, p + 1) /\ p < p + 1
      BY <1>4 DEF NoGap
    <3> QED
      BY <3>2, <3>3, <3>4 DEF UpTo
  <2> HIDE DEF p, out
  <2>3. query'.found => UpTo(log, first, seen, <<>>, <<>>, query'.pos)
    BY <1>2, <1>6, <2>2, Zenon
  <2> QED
    BY <1>1, <1>2, <1>3, <2>1, <2>3, Zenon DEF QueryInv
<1> QED
  BY <1>5, <1>6

\* A page is returned, and its last record is the cursor of the next; a page
\* that fails is asked for again.
LEMMA QueryEnds ==
  ASSUME ReadInv, ReadInv', QueryInv, reader = "query", QueryReturns \/ QueryFails
  PROVE  QueryInv'
<1> DEFINE out == query.out
<1>1. /\ query.phase = "run" /\ log' = log /\ first' = first /\ reader' = reader
      /\ query.cursor = IF seen = <<>> THEN NoID ELSE seen[Len(seen)]
  BY DEF QueryReturns, QueryFails, QueryInv, stream, reader
<1>2. /\ log \in Seq(Record) /\ first \in Nat /\ seen \in Seq(Int) /\ out \in Seq(Int)
      /\ <<>> \in Seq(Frame) /\ <<>> \in Seq(Int) /\ Chain(log, first, seen, <<>>, out)
  BY QueryFacts
<1>3. CASE QueryFails
  <2>1. /\ query'.phase = "idle" /\ query'.out = <<>> /\ query'.cursor = query.cursor
        /\ seen' = seen
    BY <1>3 DEF QueryFails, NoQuery
  <2>2. Chain(log, first, seen, <<>>, <<>>)
    BY <1>2, SeenChain, Zenon
  <2> QED
    BY <1>1, <2>1, <2>2, Zenon DEF QueryInv
<1>4. CASE QueryReturns
  <2>1. /\ query'.out = <<>> /\ seen' = seen \o out
        /\ \/ query'.phase = "over"
           \/ query'.phase = "idle" /\ query'.cursor = out[Limit] /\ Len(out) = Limit
    BY <1>4 DEF QueryReturns, NoQuery
  <2> HIDE DEF out
  <2>2. /\ seen' \in Seq(Int)
        /\ Size(seen', <<>>, <<>>) = Size(seen, <<>>, out)
        /\ \A i \in 1 .. Size(seen, <<>>, out) : At(seen', <<>>, <<>>, i) = At(seen, <<>>, out, i)
        /\ out # <<>> => seen' # <<>> /\ seen'[Len(seen')] = out[Len(out)]
    BY <1>2, <2>1, PathPage
  <2>3. Chain(log, first, seen', <<>>, <<>>)
    BY <1>2, <2>2, ChainSame, Zenon
  <2>4. Len(out) = Limit => out # <<>>
    BY BoundsAssumption
  <2>5. query'.phase = "over" \/ (query'.phase = "idle"
          /\ query'.cursor = IF seen' = <<>> THEN NoID ELSE seen'[Len(seen')])
    BY <2>1, <2>2, <2>4
  <2> QED
    BY <1>1, <2>1, <2>3, <2>5, Zenon DEF QueryInv
<1> QED
  BY <1>3, <1>4

\* QueryInv is kept.
LEMMA QueryStep ==
  ASSUME ReadInv, QueryInv, [Next]_vars
  PROVE  QueryInv'
<1>1. /\ ReadInv' /\ reader' = reader /\ (Grown \/ ReadStep)
      /\ ReadStep => UNCHANGED <<emitted, log, first, scenario>>
  BY TypesStep, IdleStep
<1>2. CASE Grown
  BY <1>1, <1>2, QueryGrown
<1>3. CASE reader # "query"
  BY <1>1, <1>3 DEF QueryInv
<1>4. CASE reader = "query" /\ ReadStep
  <2>1. ~PipeFrame
    BY <1>4 DEF PipeFrame, ReadInv, IdleInv
  <2>2. CASE query' = query /\ seen' = seen
    BY <1>1, <1>4, <2>2, Zenon DEF QueryInv
  <2>3. \/ query' = query /\ seen' = seen
        \/ QueryStart \/ QueryNext \/ QueryReturns \/ QueryFails
    BY <1>4, <2>1, Zenon DEF ReadStep, WriteStatusFrame, Subscribe, WatcherNext,
       SubscriptionFails, HandleWatchEvent, HandlerGivesUp, Connect, ConnectFails,
       ConnectionEnds
  <2> QED
    BY <1>1, <1>4, <2>2, <2>3, QueryBegins, QueryFetches, QueryEnds
<1> QED
  BY <1>1, <1>2, <1>3, <1>4

\* NoneInv is kept.
LEMMA NoneStep ==
  ASSUME ReadInv, NoneInv, [Next]_vars
  PROVE  NoneInv'
<1>1. reader' = reader /\ (Grown \/ ReadStep)
  BY TypesStep
<1>2. ASSUME reader = "none" PROVE seen' = seen
  <2>1. ~PipeFrame /\ ~QueryReturns
    BY <1>2 DEF PipeFrame, QueryReturns, ReadInv, IdleInv
  <2>2. CASE Grown
    BY <2>2 DEF Grown
  <2>3. CASE ReadStep
    BY <2>1, <2>3, Zenon DEF ReadStep, WriteStatusFrame, Subscribe, WatcherNext,
       SubscriptionFails, HandleWatchEvent, HandlerGivesUp, Connect, ConnectFails,
       ConnectionEnds, QueryStart, QueryNext, QueryFails
  <2> QED
    BY <1>1, <2>2, <2>3
<1> QED
  BY <1>1, <1>2 DEF NoneInv

\* The readers' invariants hold at the start.
LEMMA ReadInit == Init => ReadInv /\ WatchInv /\ QueryInv /\ NoneInv
<1> SUFFICES ASSUME Init PROVE ReadInv /\ WatchInv /\ QueryInv /\ NoneInv
  OBVIOUS
<1>1. /\ log = <<>> /\ first = 1 /\ chan = <<>> /\ wire = <<>> /\ seen = <<>>
      /\ server = NoServer /\ query = NoQuery
      /\ client = [phase |-> "down", lastID |-> NoID, attempts |-> 0]
  BY DEF Init
<1>2. <<>> \in Seq(Int) /\ <<>> \in Seq(Frame) /\ Len(<<>>) = 0
  OBVIOUS
<1>3. ReaderTypes
  <2>1. server \in Servers /\ client \in Clients /\ query \in Queries
    BY <1>1, <1>2 DEF NoServer, NoQuery, NoID, Servers, Clients, Queries
  <2>2. server.pos <= Len(log) + 1 /\ query.pos <= Len(log) + 1
    BY <1>1, <1>2 DEF NoServer, NoQuery
  <2> QED
    BY <1>1, <1>2, <2>1, <2>2 DEF ReaderTypes, Servers, Clients, Queries
<1>4. ReadInv
  BY <1>1, <1>3, WriteInit DEF ReadInv, IdleInv, NoQuery
<1>5. Size(<<>>, <<>>, <<>>) = 0
  BY <1>2 DEF Size, Live
<1>6. Chain(log, first, <<>>, <<>>, <<>>)
  BY <1>5 DEF Chain
<1>7. \A i \in 1 .. Len(wire) : FALSE
  BY <1>1, <1>2
<1>8. server.phase = "none" /\ client.lastID = NoID
  BY <1>1 DEF NoServer
<1>9. WatchInv
  BY <1>1, <1>6, <1>7, <1>8 DEF WatchInv
<1>10. query.phase = "idle" /\ query.out = <<>> /\ query.cursor = NoID
  BY <1>1 DEF NoQuery
<1>11. QueryInv
  BY <1>1, <1>6, <1>10 DEF QueryInv
<1> QED
  BY <1>1, <1>4, <1>9, <1>11 DEF NoneInv

\* A chain that the reader has is what ExactlyOnce asks for.
LEMMA ChainOnce ==
  ASSUME ReadInv, NEW w \in Seq(Frame), NEW b \in Seq(Int), Chain(log, first, seen, w, b)
  PROVE  ExactlyOnce
<1>1. log \in Seq(Record) /\ first \in Nat /\ seen \in Seq(Int) /\ Len(seen) \in Nat
  BY WatchTypes
<1>2. Chain(log, first, seen, <<>>, <<>>)
  BY <1>1, SeenChain
<1>3. /\ Size(seen, <<>>, <<>>) = Len(seen)
      /\ \A i \in 1 .. Len(seen) : At(seen, <<>>, <<>>, i) = seen[i]
  <2>1. <<>> \in Seq(Frame) /\ <<>> \in Seq(Int)
    OBVIOUS
  <2> QED
    BY <1>1, <2>1, PathSeen, Zenon
<1> SUFFICES ASSUME NEW i \in 1 .. Len(seen) - 1
             PROVE  /\ seen[i] < seen[i + 1]
                    /\ \A k \in seen[i] + 1 .. seen[i + 1] - 1 : TypeMatches(k) => k < first
  BY DEF ExactlyOnce
<1>4. PICK j \in 1 .. Len(seen) : j = i + 1
  BY <1>1
<1>5. i \in 1 .. Len(seen)
  BY <1>1
<1>6. seen[i] < seen[j] /\ NoGap(log, first, seen[i], seen[j])
  BY <1>2, <1>3, <1>4, <1>5 DEF Chain
<1> QED
  BY <1>4, <1>6 DEF NoGap, Matches, TypeMatches

\* For any number of drops, reconnects and pages, and any retention: a watch
\* of the transitions and the pages of a query give the matching records in
\* stream order, none twice, and none left out that is still retained.
THEOREM EachRecordOnce == Spec => []ExactlyOnce
<1> DEFINE Inv == ReadInv /\ WatchInv /\ QueryInv /\ NoneInv
<1>1. Init => Inv
  BY ReadInit
<1>2. Inv /\ [Next]_vars => Inv'
  BY IdleStep, WatchStep, QueryStep, NoneStep
<1>3. Inv => ExactlyOnce
  <2> SUFFICES ASSUME Inv PROVE ExactlyOnce
    OBVIOUS
  <2>1. reader \in {"none", "status", "transitions", "query"}
    BY ScenariosAssumption DEF ReadInv, WriteInv, WriterTypes, reader
  <2>2. CASE reader = "transitions"
    BY <2>2, WatchTypes, ChainOnce DEF WatchInv
  <2>3. CASE reader = "query"
    BY <2>3, QueryFacts, ChainOnce, Zenon
  <2>4. CASE reader = "none"
    BY <2>4 DEF NoneInv, ExactlyOnce
  <2>5. CASE reader = "status"
    BY <2>5 DEF ExactlyOnce
  <2> QED
    BY <2>1, <2>2, <2>3, <2>4, <2>5
<1> HIDE DEF Inv
<1> QED
  BY <1>1, <1>2, <1>3, PTL DEF Spec

-----------------------------------------------------------------------------
(* Status *)

\* A frame at the end: a snapshot taken now, or the marker that ends the stream.
LEMMA SnapshotsAppend ==
  ASSUME NEW sn \in Seq(Int), NEW w \in Seq(Frame), NEW f \in Frame, NEW n \in Nat,
         NEW ended \in BOOLEAN, Snapshots(sn, w, FALSE, n),
         \/ f.id # NoID /\ f.upto = n
         \/ f.id = NoID /\ f.upto = 0 /\ ended
  PROVE  Snapshots(sn, Append(w, f), ended, n)
<1>1. PICK v \in Seq(Frame) : v = Append(w, f)
  BY AppendSeq, Zenon
<1>2. /\ Len(w) \in Nat /\ Len(v) = Len(w) + 1
      /\ \A i \in 1 .. Len(w) : v[i] = w[i]
      /\ v[Len(w) + 1] = f
  BY <1>1, AppendSeq
<1>3. /\ \A i \in 1 .. Len(w) : w[i].upto \in Nat
      /\ f.upto \in Nat
  <2>1. \A i \in 1 .. Len(w) : w[i] \in Frame
    OBVIOUS
  <2> QED
    BY <2>1 DEF Frame
<1>4. \A i \in 1 .. Len(v) : (i \in 1 .. Len(w) /\ i < Len(v) /\ v[i] = w[i]) \/ (i = Len(v) /\ v[i] = f)
  BY <1>2
<1>5. /\ sn # <<>> => sn[1] <= n
      /\ \A i \in 1 .. Len(w) :
           /\ w[i].upto <= n /\ w[i].id # NoID
           /\ sn # <<>> => sn[1] <= w[i].upto
           /\ \A j \in 1 .. Len(w) : i < j => w[i].upto <= w[j].upto
  BY Zenon DEF Snapshots
<1> SUFFICES ASSUME NEW i \in 1 .. Len(v)
             PROVE  /\ v[i].upto <= n
                    /\ v[i].id = NoID => i = Len(v) /\ ended
                    /\ v[i].id # NoID /\ sn # <<>> => sn[1] <= v[i].upto
                    /\ \A j \in 1 .. Len(v) : i < j /\ v[j].id # NoID => v[i].upto <= v[j].upto
  BY <1>1, <1>5 DEF Snapshots
<1>6. v[i].upto <= n
  BY <1>3, <1>4, <1>5
<1>7. v[i].id = NoID => i = Len(v) /\ ended
  BY <1>4, <1>5
<1>8. v[i].id # NoID /\ sn # <<>> => sn[1] <= v[i].upto
  BY <1>4, <1>5
<1>9. ASSUME NEW j \in 1 .. Len(v), i < j, v[j].id # NoID PROVE v[i].upto <= v[j].upto
  <2>1. i \in 1 .. Len(w) /\ v[i] = w[i]
    BY <1>2, <1>4, <1>9
  <2>2. CASE j \in 1 .. Len(w) /\ v[j] = w[j]
    BY <1>5, <1>9, <2>1, <2>2
  <2>3. CASE v[j] = f
    BY <1>5, <1>9, <2>1, <2>3
  <2> QED
    BY <1>4, <2>2, <2>3
<1> QED
  BY <1>6, <1>7, <1>8, <1>9

\* The client takes a frame: a snapshot that is no older than the one it
\* replaces, and no newer than those that follow.
LEMMA SnapshotsPipe ==
  ASSUME NEW sn \in Seq(Int), NEW w \in Seq(Frame), NEW n \in Nat, NEW ended \in BOOLEAN,
         w # <<>>, Snapshots(sn, w, ended, n)
  PROVE  /\ Head(w).id # NoID =>
              /\ Snapshots(<<Head(w).upto>>, Tail(w), ended, n)
              /\ sn # <<>> => sn[1] <= Head(w).upto
         /\ Head(w).id = NoID => ended /\ Tail(w) = <<>>
<1>1. PICK v \in Seq(Frame) : v = Tail(w)
  BY TailSeq, Zenon
<1>2. /\ Len(w) \in Nat \ {0} /\ Len(v) = Len(w) - 1 /\ Head(w) = w[1]
      /\ \A i \in 1 .. Len(w) - 1 : v[i] = w[i + 1]
  BY <1>1, TailSeq
<1>3. PICK one \in 1 .. Len(w) : one = 1 /\ Head(w) = w[one]
  BY <1>2
<1>4. ASSUME Head(w).id # NoID
      PROVE  /\ Snapshots(<<Head(w).upto>>, v, ended, n)
             /\ sn # <<>> => sn[1] <= Head(w).upto
  <2>0. w[one] \in Frame
    OBVIOUS
  <2>1. PICK x \in Nat : x = Head(w).upto
    BY <1>3, <2>0 DEF Frame
  <2>2. x <= n /\ (sn # <<>> => sn[1] <= x)
    BY <1>3, <1>4, <2>1 DEF Snapshots
  <2>3. <<x>>[1] = x /\ <<x>> # <<>>
    OBVIOUS
  <2>4. ASSUME NEW i \in 1 .. Len(v)
        PROVE  /\ v[i].upto <= n
               /\ v[i].id = NoID => i = Len(v) /\ ended
               /\ v[i].id # NoID => x <= v[i].upto
               /\ \A j \in 1 .. Len(v) : i < j /\ v[j].id # NoID => v[i].upto <= v[j].upto
    <3>1. PICK i2 \in 1 .. Len(w) : i2 = i + 1 /\ v[i] = w[i2]
      BY <1>2
    <3>2. /\ w[i2].upto <= n
          /\ w[i2].id = NoID => i2 = Len(w) /\ ended
      BY DEF Snapshots
    <3>3. w[i2].id # NoID => x <= w[i2].upto
      <4>1. one < i2
        BY <1>3, <3>1
      <4> QED
        BY <1>3, <2>1, <4>1 DEF Snapshots
    <3>4. ASSUME NEW j \in 1 .. Len(v), i < j, v[j].id # NoID PROVE v[i].upto <= v[j].upto
      <4>1. PICK j2 \in 1 .. Len(w) : j2 = j + 1 /\ v[j] = w[j2]
        BY <1>2
      <4>2. i2 < j2
        BY <3>1, <3>4, <4>1
      <4> QED
        BY <3>1, <3>4, <4>1, <4>2 DEF Snapshots
    <3>5. i2 = Len(w) => i = Len(v)
      BY <1>2, <3>1
    <3> QED
      BY <3>1, <3>2, <3>3, <3>4, <3>5
  <2> QED
    BY <2>1, <2>2, <2>3, <2>4 DEF Snapshots
<1>5. ASSUME Head(w).id = NoID PROVE ended /\ v = <<>>
  <2>1. one = Len(w) /\ ended
    BY <1>3, <1>5, Zenon DEF Snapshots
  <2>2. Len(v) = 0
    BY <1>2, <1>3, <2>1
  <2> QED
    BY <2>1, <2>2
<1> QED
  BY <1>1, <1>4, <1>5

\* The types that the steps of a status stream need.
LEMMA StatusTypes ==
  ASSUME ReadInv
  PROVE  /\ first \in Nat \ {0}
         /\ server.start \in Nat /\ server.found \in BOOLEAN
         /\ \A k \in 1 .. Len(log) : log[k].event \in Nat /\ log[k].event <= Len(emitted)
         /\ \A i \in 1 .. Len(wire) : wire[i].upto \in Nat
         /\ seen # <<>> => seen[1] \in Int
<1>1. first \in Nat \ {0} /\ Len(emitted) \in Nat
      /\ \A k \in 1 .. Len(log) : log[k].event \in 1 .. Len(emitted)
  BY DEF ReadInv, WriteInv, WriterTypes
<1>2. server.start \in Nat /\ server.found \in BOOLEAN
  BY WatchTypes DEF Servers
<1>3. \A i \in 1 .. Len(wire) : wire[i] \in Frame
  BY WatchTypes
<1>4. seen # <<>> => seen[1] \in Int
  BY WatchTypes
<1> QED
  BY <1>1, <1>2, <1>3, <1>4 DEF Frame

\* The writers: what is behind the Watcher stays behind it.
LEMMA StatusGrown ==
  ASSUME ReadInv, ReadInv', StatusInv, Grown
  PROVE  StatusInv'
<1> SUFFICES ASSUME reader = "status" PROVE StatusInv'
  BY DEF StatusInv, Grown, reader
<1>1. /\ first' >= first /\ Len(emitted) <= Len(emitted')
      /\ Len(log) <= Len(log')
      /\ \A k \in 1 .. Len(log) : log'[k] = log[k]
      /\ reader' = reader /\ client' = client /\ server' = server /\ chan' = chan
      /\ wire' = wire /\ seen' = seen
  BY DEF Grown, reader
<1>2. /\ Len(emitted) \in Nat /\ Len(log) \in Nat /\ first \in Nat \ {0} /\ server.pos \in Nat
      /\ server.pos <= Len(log) + 1 /\ server.start \in Nat
      /\ \A i \in 1 .. Len(wire) : wire[i].upto \in Nat
      /\ seen # <<>> => seen[1] \in Int
  BY WatchTypes, StatusTypes
<1>3. Len(emitted') \in Nat /\ first' \in Nat
  BY DEF ReadInv, WriteInv, WriterTypes
<1>4. Snapshots(seen, wire, server.phase = "ended", Len(emitted'))
  <2>1. Snapshots(seen, wire, server.phase = "ended", Len(emitted))
    BY DEF StatusInv
  <2>2. /\ seen # <<>> => seen[1] <= Len(emitted')
        /\ \A i \in 1 .. Len(wire) : wire[i].upto <= Len(emitted')
    BY <1>1, <1>2, <1>3, <2>1 DEF Snapshots
  <2> QED
    BY <2>1, <2>2, Zenon DEF Snapshots
<1>5. ASSUME server.phase = "stream", NEW k \in server.start .. server.pos - 1,
             ChangesStatus(k)', k >= first'
      PROVE  Shown(k)'
  <2>1. k \in 1 .. Len(log) /\ k >= first
    BY <1>1, <1>2, <1>3, <1>5
  <2>2. log'[k] = log[k]
    BY <1>1, <2>1
  <2>3. Shown(k)
    BY <1>5, <2>1, <2>2 DEF StatusInv, ChangesStatus
  <2> QED
    BY <1>1, <2>2, <2>3 DEF Shown
<1> QED
  BY <1>1, <1>4, <1>5, Zenon DEF StatusInv

\* The first frame.
LEMMA StatusFirst ==
  ASSUME ReadInv, ReadInv', StatusInv, reader = "status", WriteStatusFrame
  PROVE  StatusInv'
<1>1. /\ server.phase = "snapshot" /\ client' = client /\ chan' = chan /\ seen' = seen
      /\ reader' = reader /\ emitted' = emitted
  BY DEF WriteStatusFrame, writers, reader
<1>2. /\ seen \in Seq(Int) /\ wire \in Seq(Frame) /\ Len(emitted) \in Nat
  BY WatchTypes
<1>3. /\ client.phase = "open"
      /\ Snapshots(seen, wire, FALSE, Len(emitted))
  BY <1>1, Zenon DEF StatusInv
<1>4. PICK f \in Frame :
        /\ wire' = Append(wire, f)
        /\ \/ f.id # NoID /\ f.upto = Len(emitted) /\ server'.phase = "subscribe"
           \/ f.id = NoID /\ f.upto = 0 /\ server'.phase = "ended"
  <2>1. /\ [id |-> ReqID, upto |-> Len(emitted)] \in Frame
        /\ [id |-> NoID, upto |-> 0] \in Frame /\ ReqID # NoID
    BY <1>2 DEF Frame, ReqID, NoID
  <2>2. \A ph \in {"subscribe", "ended"} : [server EXCEPT !.phase = ph].phase = ph
    BY WatchTypes DEF Servers
  <2> QED
    BY <2>1, <2>2, Zenon DEF WriteStatusFrame
<1>5. Snapshots(seen, wire', server'.phase = "ended", Len(emitted))
  <2>1. (server'.phase = "ended") \in BOOLEAN
    OBVIOUS
  <2> QED
    BY <1>2, <1>3, <1>4, <2>1, SnapshotsAppend, Zenon
<1> QED
  BY <1>1, <1>3, <1>4, <1>5, Zenon DEF StatusInv

\* The Watcher subscribes, or its subscription ends with an error.
LEMMA StatusSubscribe ==
  ASSUME ReadInv, ReadInv', StatusInv, reader = "status", Subscribe \/ SubscriptionFails
  PROVE  StatusInv'
<1>1. /\ server.phase \in {"subscribe", "stream"} /\ client' = client /\ chan' = chan
      /\ wire' = wire /\ seen' = seen /\ reader' = reader /\ emitted' = emitted
  BY Zenon DEF Subscribe, SubscriptionFails, writers, reader
<1>2. \/ server'.phase = "failed"
      \/ server'.phase = "stream" /\ server'.pos = server'.start
  BY WatchTypes, Zenon DEF Subscribe, SubscriptionFails, Servers
<1>3. server'.start \in Nat
  BY DEF ReadInv, ReaderTypes
<1>4. \A k \in server'.start .. server'.start - 1 : FALSE
  BY <1>3
<1>5. client.phase = "open" /\ Snapshots(seen, wire, FALSE, Len(emitted))
  BY <1>1, Zenon DEF StatusInv
<1>6. Snapshots(seen, wire, server'.phase = "ended", Len(emitted))
  BY <1>5, Zenon DEF Snapshots
<1> QED
  BY <1>1, <1>2, <1>4, <1>5, <1>6 DEF StatusInv

\* Watcher.run's loop: a record behind the cursor goes into the channel.
LEMMA StatusNext ==
  ASSUME ReadInv, ReadInv', StatusInv, reader = "status", WatcherNext
  PROVE  StatusInv'
<1> DEFINE p == NextRecord(server.pos)
<1>1. /\ server.phase = "stream" /\ client' = client /\ wire' = wire /\ p <= Len(log)
      /\ seen' = seen /\ log' = log /\ first' = first /\ reader' = reader /\ emitted' = emitted
      /\ chan' = IF server.found THEN Append(chan, p) ELSE chan
  BY DEF WatcherNext, stream, writers, reader
<1>2. /\ server'.phase = "stream" /\ server'.pos = p + 1
      /\ server'.found = (server.found \/ p = server.cursor)
      /\ server'.start = IF server.found THEN server.start ELSE p + 1
  BY WatchTypes DEF WatcherNext, Servers
<1>3. /\ chan \in Seq(Int) /\ server.pos \in Nat /\ first \in Nat \ {0} /\ server.start \in Nat
  BY WatchTypes, StatusTypes
<1>4. p \in Nat /\ p \in Int /\ (p = server.pos \/ p = first) /\ p >= server.pos
  BY <1>3 DEF NextRecord, Max2
<1> HIDE DEF p
<1>5. ASSUME NEW k \in server'.start .. server'.pos - 1, ChangesStatus(k), k >= first
      PROVE  Shown(k)'
  <2>1. CASE ~server.found
    <3>1. server'.start = p + 1 /\ server'.pos = p + 1
      BY <1>2, <2>1
    <3> QED
      BY <1>4, <3>1
  <2>2. CASE server.found
    <3>1. /\ Len(chan) \in Nat /\ Len(chan') = Len(chan) + 1
          /\ \A i \in 1 .. Len(chan) : chan'[i] = chan[i]
          /\ chan'[Len(chan) + 1] = p
      BY <1>1, <1>3, <1>4, <2>2, AppendSeq
    <3>2. \A i \in 1 .. Len(chan) : i \in 1 .. Len(chan')
      BY <3>1
    <3>3. k \in server.start .. p
      BY <1>2, <1>3, <1>4, <2>2
    <3>4. CASE k = p
      <4>1. Len(chan) + 1 \in 1 .. Len(chan')
        BY <3>1
      <4> QED
        BY <3>1, <3>4, <4>1 DEF Shown
    <3>5. CASE k # p
      <4>1. k \in server.start .. server.pos - 1
        BY <1>3, <1>4, <1>5, <3>3, <3>5
      <4>2. Shown(k)
        BY <1>1, <1>5, <4>1 DEF StatusInv
      <4> QED
        BY <1>1, <3>1, <3>2, <4>2 DEF Shown
    <3> QED
      BY <3>4, <3>5
  <2> QED
    BY <2>1, <2>2
<1>6. ~server'.found => server'.start = server'.pos
  BY <1>2, Zenon
<1>7. /\ client.phase = "open"
      /\ Snapshots(seen, wire, server.phase = "ended", Len(emitted))
  BY <1>1 DEF StatusInv
<1>8. Snapshots(seen, wire, server'.phase = "ended", Len(emitted))
  BY <1>1, <1>2, <1>7, Zenon
<1>9. \A k : ChangesStatus(k)' <=> ChangesStatus(k)
  BY <1>1 DEF ChangesStatus
<1> QED
  BY <1>1, <1>2, <1>5, <1>6, <1>7, <1>8, <1>9 DEF StatusInv

\* The handler drops a record that changes no status, or answers it with a
\* snapshot that has every event recorded so far.
LEMMA StatusHandle ==
  ASSUME ReadInv, ReadInv', StatusInv, reader = "status", HandleWatchEvent
  PROVE  StatusInv'
<1>1. /\ server.phase \in {"stream", "failed"} /\ chan # <<>> /\ chan' = Tail(chan)
      /\ client' = client /\ seen' = seen /\ log' = log /\ first' = first
      /\ reader' = reader /\ emitted' = emitted
  BY DEF HandleWatchEvent, stream, writers, reader
<1>2. /\ chan \in Seq(Int) /\ wire \in Seq(Frame) /\ seen \in Seq(Int) /\ Len(emitted) \in Nat
      /\ Len(log) \in Nat /\ server.pos \in Nat /\ server.pos <= Len(log) + 1
      /\ server \in Servers
  BY WatchTypes
<1>3. /\ client.phase = "open" /\ Snapshots(seen, wire, FALSE, Len(emitted))
  BY <1>1, Zenon DEF StatusInv
<1>4. /\ Len(chan) \in Nat \ {0} /\ Len(chan') = Len(chan) - 1 /\ Head(chan) = chan[1]
      /\ \A i \in 1 .. Len(chan) - 1 : chan'[i] = chan[i + 1]
  BY <1>1, <1>2, TailSeq
<1>5. Head(chan) \in 1 .. Len(log)
  <2>1. 1 \in 1 .. Len(chan)
    BY <1>4
  <2> QED
    BY <1>4, <2>1, WatchTypes
<1>6. \A k : ChangesStatus(k)' <=> ChangesStatus(k)
  BY <1>1 DEF ChangesStatus
<1>7. CASE wire' = wire /\ server' = server /\ ~IsStatusChangeEvent(Head(chan))
  <2>1. ASSUME server.phase = "stream", NEW k \in server.start .. server.pos - 1,
               ChangesStatus(k), k >= first
        PROVE  Shown(k)'
    <3>1. Shown(k)
      BY <2>1 DEF StatusInv
    <3>2. ASSUME NEW i \in 1 .. Len(chan), chan[i] = k
          PROVE  \E j \in 1 .. Len(chan') : chan'[j] = k
      <4>1. k # Head(chan)
        BY <1>7, <2>1 DEF ChangesStatus, IsStatusChangeEvent
      <4>2. i # 1
        BY <1>4, <3>2, <4>1
      <4>3. PICK j \in 1 .. Len(chan') : i = j + 1
        BY <1>4, <4>2
      <4> QED
        BY <1>4, <3>2, <4>3
    <3> QED
      BY <1>1, <1>7, <3>1, <3>2 DEF Shown
  <2>2. Snapshots(seen, wire, server.phase = "ended", Len(emitted))
    BY DEF StatusInv
  <2> QED
    BY <1>1, <1>3, <1>6, <1>7, <2>1, <2>2 DEF StatusInv
<1>8. ASSUME NEW f \in Frame, wire' = Append(wire, f), f.id # NoID, f.upto = Len(emitted),
             server' = server
      PROVE  StatusInv'
  <2>1. Snapshots(seen, wire', FALSE, Len(emitted))
    BY <1>2, <1>3, <1>8, SnapshotsAppend, Zenon
  <2>2. Snapshots(seen, wire', server.phase = "ended", Len(emitted))
    BY <2>1, Zenon DEF Snapshots
  <2>3. ASSUME NEW k \in server.start .. server.pos - 1, k >= first PROVE Shown(k)'
    <3>1. k \in 1 .. Len(log)
      BY <1>2, <2>3, StatusTypes
    <3>2. log[k].event <= Len(emitted)
      BY <3>1, StatusTypes
    <3>3. Len(wire) + 1 \in 1 .. Len(wire') /\ wire'[Len(wire) + 1] = f
      BY <1>2, <1>8, AppendSeq
    <3>4. wire'[Len(wire) + 1].upto >= log[k].event
      BY <1>2, <1>8, <3>1, <3>2, <3>3, StatusTypes
    <3> QED
      BY <1>1, <3>3, <3>4 DEF Shown
  <2> QED
    BY <1>1, <1>3, <1>8, <2>2, <2>3 DEF StatusInv
<1>9. ASSUME NEW f \in Frame, wire' = Append(wire, f), f.id = NoID, f.upto = 0,
             server'.phase = "ended"
      PROVE  StatusInv'
  <2>1. Snapshots(seen, wire', TRUE, Len(emitted))
    BY <1>2, <1>3, <1>9, SnapshotsAppend, Zenon
  <2> QED
    BY <1>1, <1>3, <1>9, <2>1, Zenon DEF StatusInv
<1>10. /\ [id |-> Head(chan), upto |-> Len(emitted)] \in Frame /\ Head(chan) # NoID
       /\ [id |-> NoID, upto |-> 0] \in Frame
       /\ [server EXCEPT !.phase = "ended"].phase = "ended"
  BY <1>2, <1>5 DEF Frame, NoID, Servers
<1>11. \/ wire' = wire /\ server' = server /\ ~IsStatusChangeEvent(Head(chan))
       \/ wire' = Append(wire, [id |-> Head(chan), upto |-> Len(emitted)]) /\ server' = server
       \/ /\ wire' = Append(wire, [id |-> NoID, upto |-> 0])
          /\ server' = [server EXCEPT !.phase = "ended"]
  BY DEF HandleWatchEvent
<1> QED
  BY <1>7, <1>8, <1>9, <1>10, <1>11, Zenon

\* The handler gives up.
LEMMA StatusGivesUp ==
  ASSUME ReadInv, ReadInv', StatusInv, reader = "status", HandlerGivesUp
  PROVE  StatusInv'
<1> DEFINE f == [id |-> NoID, upto |-> 0]
<1>1. /\ server.phase = "failed" /\ wire' = Append(wire, f)
      /\ client' = client /\ seen' = seen /\ reader' = reader /\ emitted' = emitted
  BY DEF HandlerGivesUp, writers, reader
<1>2. server'.phase = "ended"
  BY WatchTypes DEF HandlerGivesUp, Servers
<1>3. /\ client.phase = "open" /\ Snapshots(seen, wire, FALSE, Len(emitted))
  BY <1>1, Zenon DEF StatusInv
<1>4. f \in Frame /\ f.id = NoID /\ f.upto = 0
  BY DEF Frame, NoID
<1> HIDE DEF f
<1>5. Snapshots(seen, wire', TRUE, Len(emitted))
  BY <1>1, <1>3, <1>4, WatchTypes, SnapshotsAppend, Zenon
<1> QED
  BY <1>1, <1>2, <1>3, <1>5, Zenon DEF StatusInv

\* A connection begins, does not come about, or ends: the screen keeps its snapshot.
LEMMA StatusConnect ==
  ASSUME ReadInv, ReadInv', StatusInv, reader = "status",
         Connect \/ ConnectFails \/ \E broken \in BOOLEAN : ConnectionEnds(broken)
  PROVE  StatusInv'
<1>1. /\ seen' = seen /\ reader' = reader /\ emitted' = emitted
  BY Zenon DEF Connect, ConnectFails, ConnectionEnds, writers, reader
<1>2. CASE Connect
  <2>1. client'.phase = "open"
    BY <1>2, WatchTypes DEF Connect, Clients
  <2>2. server'.phase = "snapshot" /\ wire' = wire /\ client.phase = "down"
    BY <1>2 DEF Connect, NoServer
  <2>3. server.phase = "none" /\ Snapshots(seen, wire, FALSE, Len(emitted))
    BY <2>2, Zenon DEF StatusInv
  <2>4. Snapshots(seen, wire, server'.phase = "ended", Len(emitted))
    BY <2>3, Zenon DEF Snapshots
  <2> QED
    BY <1>1, <2>1, <2>2, <2>4 DEF StatusInv
<1>3. CASE ConnectFails
  <2>1. server' = server /\ wire' = wire /\ chan' = chan /\ server.phase = "none"
    BY <1>3 DEF ConnectFails, StatusInv
  <2> QED
    BY <1>1, <2>1 DEF StatusInv
<1>4. CASE \E broken \in BOOLEAN : ConnectionEnds(broken)
  <2>1. server' = NoServer /\ wire' = <<>> /\ chan' = <<>>
    BY <1>4 DEF ConnectionEnds
  <2>2. server'.phase = "none" /\ (\A i \in 1 .. Len(wire') : FALSE)
    BY <2>1 DEF NoServer
  <2>3. seen # <<>> => seen[1] <= Len(emitted)
    BY DEF StatusInv, Snapshots
  <2>4. Snapshots(seen, wire', server'.phase = "ended", Len(emitted))
    BY <2>2, <2>3, Zenon DEF Snapshots
  <2> QED
    BY <1>1, <2>1, <2>2, <2>4 DEF StatusInv
<1> QED
  BY <1>2, <1>3, <1>4

\* The screen is redrawn with a snapshot that is no older.
LEMMA StatusPipe ==
  ASSUME ReadInv, ReadInv', StatusInv, reader = "status", PipeFrame
  PROVE  StatusInv'
<1> DEFINE f == Head(wire)
<1>1. /\ wire # <<>> /\ wire' = Tail(wire) /\ chan' = chan /\ server' = server
      /\ client.phase = "open"
      /\ log' = log /\ first' = first /\ reader' = reader /\ emitted' = emitted
      /\ client' = IF f.id = NoID THEN client ELSE [client EXCEPT !.lastID = f.id]
      /\ seen' = IF f.id = NoID THEN seen ELSE <<f.upto>>
  BY DEF PipeFrame, stream, writers, reader
<1>2. /\ chan \in Seq(Int) /\ wire \in Seq(Frame) /\ seen \in Seq(Int) /\ Len(emitted) \in Nat
      /\ client \in Clients
  BY WatchTypes
<1>3. /\ Snapshots(seen, wire, server.phase = "ended", Len(emitted)) /\ server.phase # "none"
  BY <1>1 DEF StatusInv
<1>4. /\ f.id # NoID => /\ Snapshots(<<f.upto>>, wire', server.phase = "ended", Len(emitted))
                        /\ seen # <<>> => seen[1] <= f.upto
      /\ f.id = NoID => server.phase = "ended" /\ wire' = <<>>
  <2>1. (server.phase = "ended") \in BOOLEAN
    OBVIOUS
  <2> QED
    BY <1>1, <1>2, <1>3, <2>1, SnapshotsPipe, Zenon
<1>5. client'.phase = "open"
  BY <1>1, <1>2 DEF Clients
<1>6. CASE f.id = NoID
  <2>1. /\ seen' = seen /\ server.phase = "ended" /\ wire' = <<>>
        /\ seen # <<>> => seen[1] <= Len(emitted)
    BY <1>1, <1>3, <1>4, <1>6 DEF Snapshots
  <2>2. \A i \in 1 .. Len(wire') : FALSE
    BY <2>1
  <2>3. Snapshots(seen', wire', server.phase = "ended", Len(emitted))
    BY <2>1, <2>2, Zenon DEF Snapshots
  <2> QED
    BY <1>1, <1>5, <2>1, <2>3 DEF StatusInv
<1>7. CASE f.id # NoID
  <2>1. /\ Len(wire) \in Nat \ {0} /\ Len(wire') = Len(wire) - 1 /\ f = wire[1]
        /\ \A i \in 1 .. Len(wire) - 1 : wire'[i] = wire[i + 1]
    BY <1>1, <1>2, TailSeq
  <2>2. seen' # <<>> /\ seen'[1] = f.upto
    BY <1>1, <1>7
  <2>3. ASSUME server.phase = "stream", NEW k \in server.start .. server.pos - 1,
               ChangesStatus(k), k >= first
        PROVE  Shown(k)'
    <3>1. Shown(k)
      BY <2>3 DEF StatusInv
    <3>2. k \in 1 .. Len(log)
      BY <2>3, WatchTypes, StatusTypes
    <3>3. PICK ev \in Nat : ev = log[k].event
      BY <3>2, StatusTypes
    <3>4. PICK u \in Nat : u = f.upto
      <4>1. 1 \in 1 .. Len(wire)
        BY <2>1
      <4> QED
        BY <2>1, <4>1, StatusTypes
    <3>5. CASE seen # <<>> /\ seen[1] >= ev
      <4>1. seen[1] \in Int /\ seen[1] <= u
        BY <1>4, <1>7, <3>4, <3>5, StatusTypes
      <4>2. u >= ev
        BY <3>5, <4>1
      <4> QED
        BY <1>1, <2>2, <3>3, <3>4, <4>2 DEF Shown
    <3>6. ASSUME NEW i \in 1 .. Len(wire), wire[i].upto >= ev PROVE Shown(k)'
      <4>1. CASE i = 1
        BY <1>1, <2>1, <2>2, <3>3, <3>6, <4>1 DEF Shown
      <4>2. CASE i # 1
        <5>1. PICK j \in 1 .. Len(wire') : i = j + 1
          BY <2>1, <4>2
        <5>2. wire'[j] = wire[i]
          BY <2>1, <5>1
        <5> QED
          BY <1>1, <3>3, <3>6, <5>2 DEF Shown
      <4> QED
        BY <4>1, <4>2
    <3>7. CASE \E i \in 1 .. Len(chan) : chan[i] = k
      BY <1>1, <3>7 DEF Shown
    <3> QED
      BY <3>1, <3>3, <3>5, <3>6, <3>7 DEF Shown
  <2>4. \A k : ChangesStatus(k)' <=> ChangesStatus(k)
    BY <1>1 DEF ChangesStatus
  <2>5. Snapshots(seen', wire', server.phase = "ended", Len(emitted))
    BY <1>1, <1>4, <1>7
  <2> HIDE DEF f
  <2> QED
    BY <1>1, <1>3, <1>5, <2>3, <2>4, <2>5 DEF StatusInv
<1> QED
  BY <1>6, <1>7

\* StatusInv is kept.
LEMMA StatusStep ==
  ASSUME ReadInv, StatusInv, [Next]_vars
  PROVE  StatusInv'
<1>1. /\ ReadInv' /\ reader' = reader /\ (Grown \/ ReadStep)
  BY TypesStep, IdleStep
<1>2. CASE Grown
  BY <1>1, <1>2, StatusGrown
<1>3. CASE reader # "status"
  BY <1>1, <1>3 DEF StatusInv
<1>4. CASE reader = "status" /\ ReadStep
  <2>1. ~QueryStart /\ ~QueryNext /\ ~QueryReturns /\ ~QueryFails
    BY <1>4, Zenon DEF QueryStart, QueryNext, QueryReturns, QueryFails, ReadInv, IdleInv
  <2> QED
    BY <1>1, <1>4, <2>1, StatusFirst, StatusSubscribe, StatusNext, StatusHandle, StatusGivesUp,
       StatusConnect, StatusPipe, Zenon DEF ReadStep
<1> QED
  BY <1>1, <1>2, <1>3, <1>4

\* For any number of events, records and reconnects, and any retention: once
\* nothing is under way, the screen shows a snapshot that is no older than any
\* retained status change recorded since the stream found its place.
THEOREM ScreenFollows == Spec => []StatusFollows
<1> DEFINE Inv == ReadInv /\ StatusInv
<1>1. Init => Inv
  <2> SUFFICES ASSUME Init PROVE StatusInv
    BY ReadInit
  <2>1. /\ server = NoServer /\ chan = <<>> /\ wire = <<>> /\ seen = <<>>
    BY DEF Init
  <2>2. server.phase = "none" /\ (\A i \in 1 .. Len(wire) : FALSE)
    BY <2>1 DEF NoServer
  <2>3. Snapshots(seen, wire, server.phase = "ended", Len(emitted))
    BY <2>1, <2>2, Zenon DEF Snapshots
  <2> QED
    BY <2>1, <2>2, <2>3 DEF StatusInv
<1>2. Inv /\ [Next]_vars => Inv'
  BY IdleStep, StatusStep
<1>3. Inv => StatusFollows
  <2> SUFFICES ASSUME Inv, reader = "status", Settled, server.found,
                      NEW k \in Max2(first, server.start) .. Len(log), ChangesStatus(k)
               PROVE  seen # <<>> /\ seen[1] >= log[k].event
    BY DEF StatusFollows
  <2>1. /\ first \in Nat \ {0} /\ server.start \in Nat /\ server.pos \in Nat /\ Len(log) \in Nat
    BY WatchTypes, StatusTypes
  <2>2. NextRecord(server.pos) > Len(log)
    BY DEF Settled
  <2>3. k \in server.start .. server.pos - 1 /\ k >= first
    BY <2>1, <2>2 DEF NextRecord, Max2
  <2>4. Shown(k) /\ chan = <<>> /\ wire = <<>>
    BY <2>3 DEF Settled, StatusInv
  <2> QED
    BY <2>4 DEF Shown
<1> HIDE DEF Inv
<1> QED
  BY <1>1, <1>2, <1>3, PTL DEF Spec
=============================================================================
