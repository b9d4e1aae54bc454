--------------------------- MODULE History_proofs ---------------------------
(***************************************************************************)
(* Proofs about the writers of the history stream, for any number of       *)
(* peers, events and records; and the lemmas about sequences of records    *)
(* and about the types of the readers that HistoryReaders_proofs rests on. *)
(***************************************************************************)
EXTENDS History, TLAPS

Event == [kind : {"edge", "other"}, emitter : Node \cup {None}]
Record == [event : Nat, type : {"state_transition", "backup_started", "proxy.leader_changed"}]
Frame == [id : Int, upto : Nat]

\* The writers' side, typed.
WriterTypes ==
  /\ emitted \in Seq(Event)
  /\ inbox \in [Node -> SUBSET (1 .. Len(emitted))]
  /\ derive \in [Node -> 0 .. Len(emitted)]
  /\ log \in Seq(Record)
  /\ \A i \in 1 .. Len(log) : log[i].event \in 1 .. Len(emitted)
  /\ first \in Nat \ {0} /\ first <= Len(log) + 1
  /\ scenario \in Scenarios

\* The readers' side, typed.
ReaderTypes ==
  /\ client \in [phase : {"down", "open", "over"}, lastID : Int, attempts : Nat]
  /\ server \in [phase : {"none", "snapshot", "subscribe", "stream", "failed", "ended"},
                 cursor : Int, pos : Nat, found : BOOLEAN, start : Nat]
  /\ chan \in Seq(Int) /\ wire \in Seq(Frame) /\ seen \in Seq(Int)
  /\ query \in [phase : {"idle", "run", "over"}, cursor : Int, pos : Nat,
                found : BOOLEAN, out : Seq(Int)]
  /\ \A i \in 1 .. Len(chan) : chan[i] \in 1 .. Len(log)
  /\ server.pos <= Len(log) + 1 /\ query.pos <= Len(log) + 1

\* While an event waits at the peer that owns it alone it has no record, and
\* while its derived record is due it has no other record than its own.
OwnerInv ==
  \A n \in Node :
    /\ \A e \in inbox[n] : emitted[e].emitter = n =>
         /\ derive[n] # e
         /\ \A i \in 1 .. Len(log) : log[i].event # e
    /\ derive[n] # 0 =>
         /\ Owns(n, derive[n])
         /\ emitted[derive[n]].emitter = n =>
              \A i \in 1 .. Len(log) :
                log[i].event = derive[n] => log[i].type = "state_transition"

-----------------------------------------------------------------------------
(* What the reader has and what is on its way to them, as one sequence *)

\* The frames of w that carry a record: only the last one may carry none.
Live(w) == IF w # <<>> /\ w[Len(w)].id = NoID THEN Len(w) - 1 ELSE Len(w)

Size(s, w, b) == Len(s) + Live(w) + Len(b)

\* The i-th record of s, of the frames w, and of b, in that order.
At(s, w, b, i) ==
  IF i <= Len(s) THEN s[i]
  ELSE IF i <= Len(s) + Live(w) THEN w[i - Len(s)].id
  ELSE b[i - Len(s) - Live(w)]

Matches(l, k) == l[k].type = "state_transition"

\* No matching record of l that is still retained, from f on, lies between a and b.
NoGap(l, f, a, b) == \A k \in a + 1 .. b - 1 : Matches(l, k) => k < f

\* Stored records, in stream order, without a gap.
Chain(l, f, s, w, b) ==
  /\ \A i \in 1 .. Size(s, w, b) : At(s, w, b, i) \in 1 .. Len(l)
  /\ \A i, j \in 1 .. Size(s, w, b) :
       j = i + 1 => /\ At(s, w, b, i) < At(s, w, b, j)
                    /\ NoGap(l, f, At(s, w, b, i), At(s, w, b, j))

\* And none between the last of them and pos.
UpTo(l, f, s, w, b, pos) ==
  \A i \in 1 .. Size(s, w, b) :
    i = Size(s, w, b) => At(s, w, b, i) < pos /\ NoGap(l, f, At(s, w, b, i), pos)

-----------------------------------------------------------------------------
(* Sequences *)

\* Append, element by element.
LEMMA AppendSeq ==
  ASSUME NEW T, NEW s \in Seq(T), NEW x \in T
  PROVE  /\ Append(s, x) \in Seq(T) /\ Append(s, x) # <<>>
         /\ Len(s) \in Nat /\ Len(Append(s, x)) = Len(s) + 1
         /\ \A i \in 1 .. Len(s) : Append(s, x)[i] = s[i]
         /\ Append(s, x)[Len(s) + 1] = x
  OBVIOUS
\* Tail, element by element.
LEMMA TailSeq ==
  ASSUME NEW T, NEW s \in Seq(T), s # <<>>
  PROVE  /\ Tail(s) \in Seq(T) /\ Head(s) = s[1] /\ Head(s) \in T
         /\ Len(s) \in Nat \ {0} /\ Len(Tail(s)) = Len(s) - 1
         /\ \A i \in 1 .. Len(s) - 1 : Tail(s)[i] = s[i + 1]
<1>1. Len(s) \in Nat \ {0}
  OBVIOUS
<1> QED
  BY <1>1

-----------------------------------------------------------------------------
(* The writers *)

\* Every step is of a writer, of retention, or of a reader.
LEMMA WriterSteps ==
  ASSUME Next
  PROVE  \/ \E kind \in scenario.kinds, emitter \in scenario.emitters,
               reached \in SUBSET scenario.peers : Broadcast(kind, emitter, reached)
         \/ \E n \in Node :
              \/ \E e \in 1 .. Len(emitted) : HandleCoordinationEvent(n, e)
              \/ SynthesizeLeaderChange(n) \/ PeerCrash(n)
         \/ Retention
         \/ UNCHANGED <<writers, stream, scenario>>
<1>1. CASE WriteStatusFrame \/ Subscribe \/ WatcherNext \/ SubscriptionFails
            \/ HandleWatchEvent \/ HandlerGivesUp
  BY <1>1 DEF WriteStatusFrame, Subscribe, WatcherNext, SubscriptionFails,
              HandleWatchEvent, HandlerGivesUp
<1>2. CASE Connect \/ ConnectFails \/ PipeFrame \/ \E broken \in BOOLEAN : ConnectionEnds(broken)
  BY <1>2 DEF Connect, ConnectFails, PipeFrame, ConnectionEnds
<1>3. CASE QueryStart \/ QueryNext \/ QueryReturns \/ QueryFails
  BY <1>3, Zenon DEF QueryStart, QueryNext, QueryReturns, QueryFails
<1> QED
  BY <1>1, <1>2, <1>3 DEF Next

\* PublishEvent stores one record at the end, or none.
LEMMA PublishStep ==
  ASSUME WriterTypes, NEW e \in 1 .. Len(emitted), NEW t, PublishEvent(e, t),
         t \in {"state_transition", "backup_started", "proxy.leader_changed"}
  PROVE  /\ log' \in Seq(Record) /\ Len(log) \in Nat /\ Len(log') \in Nat
         /\ Len(log') >= Len(log)
         /\ \A i \in 1 .. Len(log) : log'[i] = log[i]
         /\ \A i \in 1 .. Len(log') :
              i > Len(log) => /\ i = Len(log) + 1
                              /\ log'[i].event = e /\ log'[i].type = t
         /\ \A i \in 1 .. Len(log') : log'[i].event \in 1 .. Len(emitted)
<1> DEFINE r == [event |-> e, type |-> t]
<1>1. Len(emitted) \in Nat /\ log \in Seq(Record) /\ Len(log) \in Nat
  BY DEF WriterTypes
<1>2. r \in Record /\ r.event = e /\ r.type = t
  BY <1>1 DEF Record
<1>3. CASE log' = Append(log, r)
  <2> HIDE DEF r
  <2>1. /\ log' \in Seq(Record) /\ Len(log') = Len(log) + 1
        /\ \A i \in 1 .. Len(log) : log'[i] = log[i]
        /\ log'[Len(log) + 1] = r
    BY <1>1, <1>2, <1>3, AppendSeq
  <2>2. \A i \in 1 .. Len(log') : i > Len(log) => i = Len(log) + 1
    BY <1>1, <2>1
  <2>3. \A i \in 1 .. Len(log') : log'[i].event \in 1 .. Len(emitted)
    <3>1. \A i \in 1 .. Len(log) : log[i].event \in 1 .. Len(emitted)
      BY DEF WriterTypes
    <3>2. \A i \in 1 .. Len(log') : i \in 1 .. Len(log) \/ i = Len(log) + 1
      BY <1>1, <2>1
    <3> QED
      BY <1>2, <2>1, <3>1, <3>2
  <2> QED
    BY <1>1, <1>2, <2>1, <2>2, <2>3
<1>4. CASE log' = log
  BY <1>1, <1>4 DEF WriterTypes
<1> QED
  BY <1>3, <1>4 DEF PublishEvent

\* A broadcast makes a new event, which nobody has recorded.
LEMMA BroadcastKeeps ==
  ASSUME WriterTypes, OwnerInv, RecordedOnce,
         NEW kind \in scenario.kinds, NEW emitter \in scenario.emitters,
         NEW reached \in SUBSET scenario.peers, Broadcast(kind, emitter, reached)
  PROVE  /\ WriterTypes' /\ OwnerInv' /\ RecordedOnce'
         /\ Len(emitted') >= Len(emitted)
<1> DEFINE r == [kind |-> kind, emitter |-> emitter]
<1>1. /\ emitted' = Append(emitted, r)
      /\ inbox' = [n \in Node |-> IF n \in reached THEN inbox[n] \cup {Len(emitted) + 1}
                                                   ELSE inbox[n]]
      /\ derive' = derive /\ log' = log /\ first' = first /\ scenario' = scenario
  BY DEF Broadcast, stream
<1>2. r \in Event
  <2>1. scenario \in [reader : {"none", "status", "transitions", "query"}, peers : SUBSET Node,
                         kinds : SUBSET {"edge", "other"},
                         emitters : SUBSET (Node \cup {None}), events : Nat]
    BY ScenariosAssumption DEF WriterTypes
  <2>2. kind \in {"edge", "other"} /\ emitter \in Node \cup {None}
    BY <2>1
  <2> QED
    BY <2>2 DEF Event
<1> HIDE DEF r
<1>3. /\ emitted \in Seq(Event) /\ Len(emitted) \in Nat
      /\ log \in Seq(Record) /\ Len(log) \in Nat
      /\ inbox \in [Node -> SUBSET (1 .. Len(emitted))]
      /\ derive \in [Node -> 0 .. Len(emitted)]
      /\ \A i \in 1 .. Len(log) : log[i].event \in 1 .. Len(emitted)
  BY DEF WriterTypes
<1>4. /\ emitted' \in Seq(Event) /\ Len(emitted') = Len(emitted) + 1
      /\ \A i \in 1 .. Len(emitted) : emitted'[i] = emitted[i]
  BY <1>1, <1>2, <1>3, AppendSeq
<1>5. inbox' \in [Node -> SUBSET (1 .. Len(emitted'))]
  BY <1>1, <1>3, <1>4
<1>6. derive' \in [Node -> 0 .. Len(emitted')]
  BY <1>1, <1>3, <1>4
<1>7. WriterTypes'
  BY <1>1, <1>3, <1>4, <1>5, <1>6 DEF WriterTypes
<1>8. OwnerInv'
  <2> SUFFICES ASSUME NEW n \in Node PROVE OwnerInv!(n)'
    BY DEF OwnerInv
  <2>1. ASSUME NEW e \in inbox'[n], emitted'[e].emitter = n
        PROVE  derive[n] # e /\ \A i \in 1 .. Len(log) : log[i].event # e
    <3>1. CASE e = Len(emitted) + 1
      BY <1>3, <3>1
    <3>2. CASE e # Len(emitted) + 1
      <4>1. e \in inbox[n]
        BY <1>1, <2>1, <3>2
      <4>2. emitted[e].emitter = n
        BY <1>3, <1>4, <2>1, <4>1
      <4> QED
        BY <4>1, <4>2 DEF OwnerInv
    <3> QED
      BY <3>1, <3>2
  <2>2. derive[n] # 0 => emitted'[derive[n]] = emitted[derive[n]]
    BY <1>3, <1>4
  <2> QED
    BY <1>1, <2>1, <2>2, Zenon DEF OwnerInv, Owns
<1>9. RecordedOnce'
  BY <1>1, <1>3, <1>4 DEF RecordedOnce
<1> QED
  BY <1>3, <1>4, <1>7, <1>8, <1>9

\* One more record of event e of the owner n: the records that are there
\* already must be of the transition, and the new one of the leader change.
LEMMA RecordedOnceKeeps ==
  ASSUME WriterTypes, RecordedOnce, NEW e \in 1 .. Len(emitted), NEW t,
         t \in {"state_transition", "backup_started", "proxy.leader_changed"},
         PublishEvent(e, t), emitted' = emitted,
         emitted[e].emitter # None =>
           \A i \in 1 .. Len(log) : log[i].event = e =>
             log[i].type = "state_transition" /\ t = "proxy.leader_changed"
  PROVE  RecordedOnce'
<1> SUFFICES ASSUME NEW i \in 1 .. Len(log'), NEW j \in 1 .. Len(log'),
                    i < j, log'[i].event = log'[j].event,
                    emitted[log'[i].event].emitter # None
             PROVE  log'[i].type = "state_transition" /\ log'[j].type = "proxy.leader_changed"
  BY DEF RecordedOnce
<1>1. /\ Len(log) \in Nat /\ Len(log') \in Nat
      /\ \A k \in 1 .. Len(log) : log'[k] = log[k]
      /\ \A k \in 1 .. Len(log') :
           k > Len(log) => k = Len(log) + 1 /\ log'[k].event = e /\ log'[k].type = t
  BY PublishStep
<1>2. CASE j \in 1 .. Len(log)
  <2>1. i \in 1 .. Len(log)
    BY <1>1, <1>2
  <2> QED
    BY <1>1, <1>2, <2>1 DEF RecordedOnce
<1>3. CASE j \notin 1 .. Len(log)
  <2>1. j = Len(log) + 1 /\ log'[j].event = e /\ log'[j].type = t
    BY <1>1, <1>3
  <2>2. i \in 1 .. Len(log)
    BY <1>1, <2>1
  <2> QED
    BY <1>1, <2>1, <2>2
<1> QED
  BY <1>2, <1>3

\* handleCoordinationEvent.
LEMMA HandleKeeps ==
  ASSUME WriterTypes, OwnerInv, RecordedOnce,
         NEW n \in Node, NEW e \in 1 .. Len(emitted), HandleCoordinationEvent(n, e)
  PROVE  WriterTypes' /\ OwnerInv' /\ RecordedOnce'
<1>1. /\ e \in inbox[n] /\ inbox' = [inbox EXCEPT ![n] = inbox[n] \ {e}]
      /\ emitted' = emitted /\ first' = first /\ scenario' = scenario
      /\ emitted[e].kind = "edge" => derive[n] = 0
  BY DEF HandleCoordinationEvent
<1>2. /\ Len(emitted) \in Nat /\ Len(log) \in Nat
      /\ inbox \in [Node -> SUBSET (1 .. Len(emitted))]
      /\ derive \in [Node -> 0 .. Len(emitted)]
  BY DEF WriterTypes
<1>3. /\ inbox' \in [Node -> SUBSET (1 .. Len(emitted))]
      /\ \A m \in Node : inbox'[m] \subseteq inbox[m]
      /\ e \notin inbox'[n]
  BY <1>1, <1>2
<1>4. CASE ~Owns(n, e)
  <2>1. log' = log /\ derive' = derive
    BY <1>4 DEF HandleCoordinationEvent
  <2>2. WriterTypes'
    BY <1>1, <1>3, <2>1 DEF WriterTypes
  <2>3. OwnerInv'
    BY <1>1, <1>3, <2>1 DEF OwnerInv, Owns
  <2> QED
    BY <1>1, <2>1, <2>2, <2>3 DEF RecordedOnce
<1>5. CASE Owns(n, e)
  <2> DEFINE t == TypeOf(e)
  <2>1. /\ PublishEvent(e, t)
        /\ t \in {"state_transition", "backup_started"}
        /\ emitted[e].kind = "edge" => t = "state_transition"
        /\ derive' = IF emitted[e].kind = "edge" THEN [derive EXCEPT ![n] = e] ELSE derive
    BY <1>5 DEF HandleCoordinationEvent, TypeOf
  <2> HIDE DEF t
  <2>2. /\ log' \in Seq(Record) /\ Len(log') \in Nat /\ Len(log') >= Len(log)
        /\ \A i \in 1 .. Len(log) : log'[i] = log[i]
        /\ \A i \in 1 .. Len(log') :
             i > Len(log) => i = Len(log) + 1 /\ log'[i].event = e /\ log'[i].type = t
        /\ \A i \in 1 .. Len(log') : log'[i].event \in 1 .. Len(emitted)
    BY <2>1, PublishStep
  <2>3. /\ derive' \in [Node -> 0 .. Len(emitted)]
        /\ \A m \in Node : m # n => derive'[m] = derive[m]
        /\ derive'[n] = derive[n] \/ (derive'[n] = e /\ emitted[e].kind = "edge")
    BY <1>2, <2>1
  <2>4. WriterTypes'
    <3>1. first \in Nat \ {0} /\ first <= Len(log')  + 1
      BY <1>2, <2>2 DEF WriterTypes
    <3> QED
      BY <1>1, <1>3, <2>2, <2>3, <3>1 DEF WriterTypes
  <2>5. emitted[e].emitter = n => \A i \in 1 .. Len(log) : log[i].event # e
    BY <1>1 DEF OwnerInv
  <2>6. emitted[e].emitter \in {None, n}
    BY <1>5 DEF Owns
  <2>7. RecordedOnce'
    BY <1>1, <2>1, <2>5, <2>6, RecordedOnceKeeps
  <2>8. OwnerInv'
    <3> SUFFICES ASSUME NEW m \in Node PROVE OwnerInv!(m)'
      BY DEF OwnerInv
    <3>1. ASSUME NEW f \in inbox'[m], emitted[f].emitter = m
          PROVE  derive'[m] # f /\ \A i \in 1 .. Len(log') : log'[i].event # f
      <4>1. f \in inbox[m] /\ f # 0
        BY <1>2, <1>3
      <4>2. f # e
        BY <1>3, <2>6, <3>1, NoneAssumption
      <4>3. derive[m] # f /\ \A i \in 1 .. Len(log) : log[i].event # f
        BY <3>1, <4>1 DEF OwnerInv
      <4>4. derive'[m] # f
        BY <2>3, <4>2, <4>3
      <4>5. \A i \in 1 .. Len(log') : i \in 1 .. Len(log) \/ i > Len(log)
        BY <1>2, <2>2
      <4> QED
        BY <2>2, <4>2, <4>3, <4>4, <4>5
    <3>2. ASSUME derive'[m] # 0
          PROVE  /\ Owns(m, derive'[m])
                 /\ emitted[derive'[m]].emitter = m =>
                      \A i \in 1 .. Len(log') :
                        log'[i].event = derive'[m] => log'[i].type = "state_transition"
      <4>1. CASE derive'[m] = derive[m]
        <5>1. /\ Owns(m, derive[m])
              /\ emitted[derive[m]].emitter = m =>
                      \A i \in 1 .. Len(log) :
                        log[i].event = derive[m] => log[i].type = "state_transition"
          BY <3>2, <4>1 DEF OwnerInv
        <5>2. emitted[derive[m]].emitter = m => derive[m] # e
          <6>1. CASE m = n
            BY <1>1, <6>1 DEF OwnerInv
          <6>2. CASE m # n
            BY <2>6, <6>2, NoneAssumption
          <6> QED
            BY <6>1, <6>2
        <5>3. \A i \in 1 .. Len(log') : i \in 1 .. Len(log) \/ i > Len(log)
          BY <1>2, <2>2
        <5> QED
          BY <2>2, <4>1, <5>1, <5>2, <5>3
      <4>2. CASE derive'[m] # derive[m]
        <5>1. m = n /\ derive'[m] = e /\ t = "state_transition"
          BY <2>1, <2>3, <4>2
        <5>2. \A i \in 1 .. Len(log') : i \in 1 .. Len(log) \/ i > Len(log)
          BY <1>2, <2>2
        <5> QED
          BY <1>5, <2>2, <2>5, <5>1, <5>2
      <4> QED
        BY <4>1, <4>2
    <3> QED
      BY <1>1, <3>1, <3>2 DEF Owns
  <2> QED
    BY <2>4, <2>7, <2>8
<1> QED
  BY <1>4, <1>5

\* The derived record.
LEMMA SynthesizeKeeps ==
  ASSUME WriterTypes, OwnerInv, RecordedOnce, NEW n \in Node, SynthesizeLeaderChange(n)
  PROVE  WriterTypes' /\ OwnerInv' /\ RecordedOnce'
<1> DEFINE e == derive[n]
           t == "proxy.leader_changed"
<1>1. /\ PublishEvent(e, t) /\ e # 0
      /\ derive' = [derive EXCEPT ![n] = 0] /\ inbox' = inbox
      /\ emitted' = emitted /\ first' = first /\ scenario' = scenario
  BY DEF SynthesizeLeaderChange
<1>2. /\ Len(emitted) \in Nat /\ Len(log) \in Nat
      /\ inbox \in [Node -> SUBSET (1 .. Len(emitted))]
      /\ derive \in [Node -> 0 .. Len(emitted)]
  BY DEF WriterTypes
<1>3. e \in 1 .. Len(emitted)
  BY <1>1, <1>2
<1>4. /\ log' \in Seq(Record) /\ Len(log') \in Nat /\ Len(log') >= Len(log)
      /\ \A i \in 1 .. Len(log) : log'[i] = log[i]
      /\ \A i \in 1 .. Len(log') :
             i > Len(log) => i = Len(log) + 1 /\ log'[i].event = e /\ log'[i].type = t
      /\ \A i \in 1 .. Len(log') : log'[i].event \in 1 .. Len(emitted)
  BY <1>1, <1>3, PublishStep
<1>5. /\ emitted[e].emitter \in {None, n}
      /\ emitted[e].emitter = n =>
           \A i \in 1 .. Len(log) : log[i].event = e => log[i].type = "state_transition"
  BY <1>1 DEF OwnerInv, Owns
<1>6. RecordedOnce'
  BY <1>1, <1>3, <1>5, RecordedOnceKeeps
<1>7. /\ derive' \in [Node -> 0 .. Len(emitted)] /\ derive'[n] = 0
      /\ \A m \in Node : m # n => derive'[m] = derive[m]
  BY <1>1, <1>2
<1>8. WriterTypes'
  <2>1. first \in Nat \ {0} /\ first <= Len(log') + 1
    BY <1>2, <1>4 DEF WriterTypes
  <2> QED
    BY <1>1, <1>4, <1>7, <2>1 DEF WriterTypes
<1>9. OwnerInv'
  <2> SUFFICES ASSUME NEW m \in Node PROVE OwnerInv!(m)'
    BY DEF OwnerInv
  <2>0. \A i \in 1 .. Len(log') : i \in 1 .. Len(log) \/ i > Len(log)
    BY <1>2, <1>4
  <2>1. ASSUME NEW f \in inbox[m], emitted[f].emitter = m
        PROVE  derive'[m] # f /\ \A i \in 1 .. Len(log') : log'[i].event # f
    <3>1. f # 0 /\ derive[m] # f /\ \A i \in 1 .. Len(log) : log[i].event # f
      BY <1>2, <2>1 DEF OwnerInv
    <3>2. f # e
      <4>1. CASE m = n
        BY <3>1, <4>1
      <4>2. CASE m # n
        BY <1>5, <2>1, <4>2, NoneAssumption
      <4> QED
        BY <4>1, <4>2
    <3> QED
      BY <1>4, <1>7, <2>0, <3>1, <3>2, Zenon
  <2>2. ASSUME derive'[m] # 0
        PROVE  /\ Owns(m, derive'[m])
               /\ emitted[derive'[m]].emitter = m =>
                    \A i \in 1 .. Len(log') :
                      log'[i].event = derive'[m] => log'[i].type = "state_transition"
    <3>1. m # n /\ derive'[m] = derive[m]
      BY <1>7, <2>2
    <3>2. /\ Owns(m, derive[m])
          /\ emitted[derive[m]].emitter = m =>
               \A i \in 1 .. Len(log) :
                 log[i].event = derive[m] => log[i].type = "state_transition"
      BY <2>2, <3>1 DEF OwnerInv
    <3>3. emitted[derive[m]].emitter = m => derive[m] # e
      BY <1>5, <3>1, NoneAssumption
    <3> QED
      BY <1>4, <2>0, <3>1, <3>2, <3>3
  <2> QED
    BY <1>1, <2>1, <2>2 DEF Owns
<1> QED
  BY <1>6, <1>8, <1>9

\* What a crash loses is never recorded.
LEMMA CrashKeeps ==
  ASSUME WriterTypes, OwnerInv, RecordedOnce, NEW n \in Node, PeerCrash(n)
  PROVE  WriterTypes' /\ OwnerInv' /\ RecordedOnce'
<1>1. /\ inbox' = [inbox EXCEPT ![n] = {}] /\ derive' = [derive EXCEPT ![n] = 0]
      /\ emitted' = emitted /\ log' = log /\ first' = first /\ scenario' = scenario
  BY DEF PeerCrash, stream
<1>2. /\ Len(emitted) \in Nat
      /\ inbox \in [Node -> SUBSET (1 .. Len(emitted))]
      /\ derive \in [Node -> 0 .. Len(emitted)]
  BY DEF WriterTypes
<1>3. /\ inbox' \in [Node -> SUBSET (1 .. Len(emitted))]
      /\ derive' \in [Node -> 0 .. Len(emitted)]
      /\ \A m \in Node : \/ inbox'[m] = inbox[m] /\ derive'[m] = derive[m]
                         \/ inbox'[m] = {} /\ derive'[m] = 0
  BY <1>1, <1>2
<1>4. WriterTypes'
  BY <1>1, <1>3 DEF WriterTypes
<1>5. OwnerInv'
  BY <1>1, <1>3 DEF OwnerInv, Owns
<1> QED
  BY <1>1, <1>4, <1>5 DEF RecordedOnce

\* The invariant of the writers.
WriteInv == WriterTypes /\ OwnerInv /\ RecordedOnce

\* It holds at the start.
LEMMA WriteInit == Init => WriteInv
<1> SUFFICES ASSUME Init PROVE WriteInv
  OBVIOUS
<1>1. /\ emitted = <<>> /\ log = <<>> /\ first = 1 /\ scenario \in Scenarios
      /\ inbox = [n \in Node |-> {}] /\ derive = [n \in Node |-> 0]
  BY DEF Init
<1>2. emitted \in Seq(Event) /\ log \in Seq(Record) /\ Len(emitted) = 0 /\ Len(log) = 0
  BY <1>1
<1> QED
  BY <1>1, <1>2 DEF WriteInv, WriterTypes, OwnerInv, RecordedOnce

\* It is inductive.
LEMMA WriteStep == WriteInv /\ [Next]_vars => WriteInv'
<1> SUFFICES ASSUME WriteInv, [Next]_vars PROVE WriteInv'
  OBVIOUS
<1> USE DEF WriteInv
<1>1. CASE UNCHANGED <<writers, stream, scenario>>
  <2>1. /\ emitted' = emitted /\ inbox' = inbox /\ derive' = derive /\ log' = log
        /\ first' = first /\ scenario' = scenario
    BY <1>1 DEF writers, stream
  <2> QED
    BY <2>1 DEF WriterTypes, OwnerInv, Owns, RecordedOnce
<1>2. CASE Retention
  <2>1. /\ emitted' = emitted /\ inbox' = inbox /\ derive' = derive /\ log' = log
        /\ first' = first + 1 /\ first <= Len(log) /\ scenario' = scenario
    BY <1>2 DEF Retention, writers
  <2>2. first \in Nat /\ Len(log) \in Nat
    BY DEF WriterTypes
  <2>3. first' \in Nat \ {0} /\ first' <= Len(log) + 1
    BY <2>1, <2>2
  <2> QED
    BY <2>1, <2>3 DEF WriterTypes, OwnerInv, Owns, RecordedOnce
<1>3. CASE UNCHANGED vars
  BY <1>1, <1>3 DEF vars, writers, stream
<1>4. CASE Next
  BY <1>1, <1>2, <1>4, WriterSteps, BroadcastKeeps, HandleKeeps, SynthesizeKeeps, CrashKeeps
<1> QED
  BY <1>3, <1>4

\* For any number of peers that receive an event, in any order and with any
\* crashes: an event that names its emitter has at most one record of its own
\* and one that is derived from it, in this order.
THEOREM OneRecord == Spec => []RecordedOnce
<1>1. WriteInv => RecordedOnce
  BY DEF WriteInv
<1> QED
  BY WriteInit, WriteStep, <1>1, PTL DEF Spec

-----------------------------------------------------------------------------
(* Chains *)

\* The number of records under way is a number.
LEMMA SizeType ==
  ASSUME NEW s \in Seq(Int), NEW w \in Seq(Frame), NEW b \in Seq(Int)
  PROVE  /\ Live(w) \in Nat /\ Live(w) <= Len(w) /\ Len(w) <= Live(w) + 1
         /\ Size(s, w, b) \in Nat /\ Len(s) \in Nat /\ Len(w) \in Nat /\ Len(b) \in Nat
<1>1. Len(s) \in Nat /\ Len(w) \in Nat /\ Len(b) \in Nat
  OBVIOUS
<1>2. w # <<>> => Len(w) # 0
  OBVIOUS
<1>3. Live(w) \in Nat /\ Live(w) <= Len(w) /\ Len(w) <= Live(w) + 1
  BY <1>1, <1>2 DEF Live
<1> QED
  BY <1>1, <1>3 DEF Size

\* A prefix of a chain is a chain, also of a longer log with less retained.
LEMMA ChainKeeps ==
  ASSUME NEW l \in Seq(Record), NEW m \in Seq(Record), NEW f \in Nat, NEW g \in Nat,
         Len(l) <= Len(m), \A k \in 1 .. Len(l) : m[k] = l[k], f <= g,
         NEW s \in Seq(Int), NEW w \in Seq(Frame), NEW b \in Seq(Int),
         NEW s2 \in Seq(Int), NEW w2 \in Seq(Frame), NEW b2 \in Seq(Int),
         Size(s2, w2, b2) <= Size(s, w, b),
         \A i \in 1 .. Size(s2, w2, b2) : At(s2, w2, b2, i) = At(s, w, b, i),
         Chain(l, f, s, w, b)
  PROVE  Chain(m, g, s2, w2, b2)
<1> DEFINE N == Size(s, w, b)
           M == Size(s2, w2, b2)
<1>0. N \in Nat /\ M \in Nat
  BY SizeType
<1>1. N \in Nat /\ M \in Nat /\ M <= N /\ Len(l) \in Nat /\ Len(m) \in Nat
  BY <1>0
<1>2. \A i \in 1 .. M : i \in 1 .. N
  BY <1>1
<1>3. \A i \in 1 .. N : At(s, w, b, i) \in 1 .. Len(l)
  BY DEF Chain
<1>4. \A i \in 1 .. M : At(s2, w2, b2, i) \in 1 .. Len(m)
  BY <1>1, <1>2, <1>3
<1>5. ASSUME NEW i \in 1 .. M, NEW j \in 1 .. M, j = i + 1
      PROVE  /\ At(s2, w2, b2, i) < At(s2, w2, b2, j)
             /\ NoGap(m, g, At(s2, w2, b2, i), At(s2, w2, b2, j))
  <2>1. PICK x \in 1 .. Len(l) : x = At(s, w, b, i)
    BY <1>2, <1>3
  <2>2. PICK y \in 1 .. Len(l) : y = At(s, w, b, j)
    BY <1>2, <1>3
  <2>3. At(s2, w2, b2, i) = x /\ At(s2, w2, b2, j) = y
    BY <2>1, <2>2
  <2>4. x < y /\ NoGap(l, f, x, y)
    BY <1>2, <1>5, <2>1, <2>2 DEF Chain
  <2>5. NoGap(m, g, x, y)
    <3> SUFFICES ASSUME NEW k \in x + 1 .. y - 1, Matches(m, k) PROVE k < g
      BY DEF NoGap
    <3>1. k \in 1 .. Len(l)
      BY <1>1
    <3>2. Matches(l, k)
      <4>1. m[k] = l[k]
        BY <3>1
      <4> QED
        BY <4>1 DEF Matches
    <3>3. k < f
      BY <2>4, <3>2 DEF NoGap
    <3>4. k \in Nat
      BY <3>1
    <3> QED
      BY ONLY <3>3, <3>4, f \in Nat, g \in Nat, f <= g
  <2> QED
    BY <2>3, <2>4, <2>5
<1> QED
  BY <1>4, <1>5 DEF Chain

\* The same of what has been looked at behind its end.
LEMMA UpToKeeps ==
  ASSUME NEW l \in Seq(Record), NEW m \in Seq(Record), NEW f \in Nat, NEW g \in Nat,
         Len(l) <= Len(m), \A k \in 1 .. Len(l) : m[k] = l[k], f <= g,
         NEW s \in Seq(Int), NEW w \in Seq(Frame), NEW b \in Seq(Int),
         NEW s2 \in Seq(Int), NEW w2 \in Seq(Frame), NEW b2 \in Seq(Int),
         Size(s2, w2, b2) = Size(s, w, b),
         \A i \in 1 .. Size(s2, w2, b2) : At(s2, w2, b2, i) = At(s, w, b, i),
         NEW pos \in Nat, pos <= Len(l) + 1,
         Chain(l, f, s, w, b), UpTo(l, f, s, w, b, pos)
  PROVE  UpTo(m, g, s2, w2, b2, pos)
<1> SUFFICES ASSUME NEW i \in 1 .. Size(s2, w2, b2), i = Size(s2, w2, b2)
             PROVE  At(s2, w2, b2, i) < pos /\ NoGap(m, g, At(s2, w2, b2, i), pos)
  BY DEF UpTo
<1>1. PICK x \in 1 .. Len(l) : x = At(s, w, b, i)
  BY SMTT(30) DEF Chain
<1>2. At(s2, w2, b2, i) = x
  BY <1>1
<1>3. x < pos /\ NoGap(l, f, x, pos)
  BY <1>1 DEF UpTo
<1>4. NoGap(m, g, x, pos)
  <2> SUFFICES ASSUME NEW k \in x + 1 .. pos - 1, Matches(m, k) PROVE k < g
    BY DEF NoGap
  <2>1. Len(l) \in Nat
    OBVIOUS
  <2>2. k \in 1 .. Len(l)
    BY <2>1
  <2>3. Matches(l, k)
    BY <2>2 DEF Matches
  <2>4. k < f
    BY <1>3, <2>3 DEF NoGap
  <2> QED
    BY <2>2, <2>4
<1> QED
  BY <1>2, <1>3, <1>4

\* A record at the end of b.
LEMMA PathAppend ==
  ASSUME NEW s \in Seq(Int), NEW w \in Seq(Frame), NEW b \in Seq(Int), NEW x \in Int
  PROVE  /\ Size(s, w, Append(b, x)) = Size(s, w, b) + 1
         /\ \A i \in 1 .. Size(s, w, b) : At(s, w, Append(b, x), i) = At(s, w, b, i)
         /\ At(s, w, Append(b, x), Size(s, w, b) + 1) = x
<1>1. PICK c \in Seq(Int) : c = Append(b, x)
  BY AppendSeq, Zenon
<1>2. /\ Len(b) \in Nat /\ Len(c) = Len(b) + 1
      /\ \A i \in 1 .. Len(b) : c[i] = b[i]
      /\ c[Len(b) + 1] = x
  BY <1>1, AppendSeq
<1>3. PICK n \in Nat : n = Live(w)
  BY SizeType
<1>4. PICK a \in Nat : a = Len(s)
  OBVIOUS
<1>5. Size(s, w, b) = a + n + Len(b) /\ Size(s, w, c) = a + n + Len(c)
  BY <1>3, <1>4 DEF Size
<1>6. ASSUME NEW i \in 1 .. a + n + Len(b) PROVE At(s, w, c, i) = At(s, w, b, i)
  <2>1. CASE i <= a + n
    BY <1>3, <1>4, <2>1 DEF At
  <2>2. CASE ~(i <= a + n)
    <3>1. i - a - n \in 1 .. Len(b) /\ ~(i <= a)
      BY <1>2, <2>2
    <3> QED
      BY <1>2, <1>3, <1>4, <2>2, <3>1, Zenon DEF At
  <2> QED
    BY <2>1, <2>2
<1>7. At(s, w, c, a + n + Len(b) + 1) = x
  <2>1. (a + n + Len(b) + 1) - a - n = Len(b) + 1
        /\ ~(a + n + Len(b) + 1 <= a) /\ ~(a + n + Len(b) + 1 <= a + n)
    BY <1>2
  <2> QED
    BY <1>2, <1>3, <1>4, <2>1, Zenon DEF At
<1> QED
  BY <1>1, <1>2, <1>5, <1>6, <1>7

\* The handler takes a record out of the channel and writes its frame.
LEMMA PathForward ==
  ASSUME NEW s \in Seq(Int), NEW w \in Seq(Frame), NEW b \in Seq(Int), NEW f \in Frame,
         b # <<>>, f.id = Head(b), f.id # NoID,
         \A i \in 1 .. Len(w) : w[i].id # NoID
  PROVE  /\ Size(s, Append(w, f), Tail(b)) = Size(s, w, b)
         /\ \A i \in 1 .. Size(s, w, b) : At(s, Append(w, f), Tail(b), i) = At(s, w, b, i)
<1>1. PICK v \in Seq(Frame) : v = Append(w, f)
  BY AppendSeq, Zenon
<1>2. /\ Len(w) \in Nat /\ Len(v) = Len(w) + 1 /\ v # <<>>
      /\ \A i \in 1 .. Len(w) : v[i] = w[i]
      /\ v[Len(w) + 1] = f
  BY <1>1, AppendSeq
<1>3. PICK c \in Seq(Int) : c = Tail(b)
  BY TailSeq, Zenon
<1>4. /\ Len(b) \in Nat \ {0} /\ Len(c) = Len(b) - 1 /\ f.id = b[1]
      /\ \A i \in 1 .. Len(b) - 1 : c[i] = b[i + 1]
  BY <1>3, TailSeq
<1>5. Live(w) = Len(w) /\ Live(v) = Len(w) + 1
  <2>1. w # <<>> => Len(w) \in 1 .. Len(w)
    BY <1>2
  <2> QED
    BY <1>2, <2>1 DEF Live
<1>6. PICK a \in Nat : a = Len(s)
  OBVIOUS
<1>7. PICK n \in Nat : n = Len(w)
  BY <1>2
<1>8. PICK z \in Nat : z = Len(b)
  BY <1>4
<1>9. Size(s, w, b) = a + n + z /\ Size(s, v, c) = a + n + z
  BY <1>4, <1>5, <1>6, <1>7, <1>8, <1>2 DEF Size
<1>10. ASSUME NEW i \in 1 .. a + n + z PROVE At(s, v, c, i) = At(s, w, b, i)
  <2>1. CASE i <= a
    BY <1>6, <2>1 DEF At
  <2>2. CASE ~(i <= a) /\ i <= a + n
    <3>1. i - a \in 1 .. n /\ i <= a + (n + 1)
      BY <2>2
    <3> QED
      BY <1>2, <1>5, <1>6, <1>7, <2>2, <3>1 DEF At
  <2>3. CASE i = a + n + 1
    <3>1. ~(i <= a) /\ ~(i <= a + n) /\ i <= a + (n + 1) /\ i - a = n + 1 /\ i - a - n = 1
      BY <2>3
    <3> QED
      BY <1>2, <1>4, <1>5, <1>6, <1>7, <3>1 DEF At
  <2>4. CASE i > a + n + 1
    <3>1. PICK k \in Nat : k = i - a - (n + 1)
      BY <2>4
    <3>2. ~(i <= a) /\ ~(i <= a + n) /\ ~(i <= a + (n + 1)) /\ i - a - n = k + 1
      BY <2>4, <3>1
    <3>3. k \in 1 .. z - 1
      BY <2>4, <3>1
    <3>4. c[k] = b[k + 1]
      BY <1>4, <1>8, <3>3, Zenon
    <3> QED
      BY <1>5, <1>6, <1>7, <3>1, <3>2, <3>4 DEF At
  <2> QED
    BY <2>1, <2>2, <2>3, <2>4
<1> QED
  BY <1>1, <1>3, <1>9, <1>10

\* The client takes a frame that carries a record.
LEMMA PathPipe ==
  ASSUME NEW s \in Seq(Int), NEW w \in Seq(Frame), NEW b \in Seq(Int), w # <<>>,
         Head(w).id # NoID,
         \A i \in 1 .. Len(w) : w[i].id = NoID => i = Len(w)
  PROVE  /\ Size(Append(s, Head(w).id), Tail(w), b) = Size(s, w, b)
         /\ \A i \in 1 .. Size(s, w, b) :
              At(Append(s, Head(w).id), Tail(w), b, i) = At(s, w, b, i)
<1>1. PICK x \in Int : x = Head(w).id
  <2>1. Head(w) \in Frame
    BY TailSeq
  <2> QED
    BY <2>1 DEF Frame
<1>2. PICK r \in Seq(Int) : r = Append(s, x)
  BY AppendSeq, Zenon
<1>3. /\ Len(s) \in Nat /\ Len(r) = Len(s) + 1
      /\ \A i \in 1 .. Len(s) : r[i] = s[i]
      /\ r[Len(s) + 1] = x
  BY <1>2, AppendSeq
<1>4. PICK v \in Seq(Frame) : v = Tail(w)
  BY TailSeq, Zenon
<1>5. /\ Len(w) \in Nat \ {0} /\ Len(v) = Len(w) - 1 /\ x = w[1].id
      /\ \A i \in 1 .. Len(w) - 1 : v[i] = w[i + 1]
  BY <1>1, <1>4, TailSeq
<1>6. Live(w) \in Nat \ {0} /\ Live(v) = Live(w) - 1
  <2>1. CASE Len(w) = 1
    <3>1. v = <<>> /\ w[Len(w)].id # NoID
      BY <1>1, <1>5, <2>1
    <3> QED
      BY <1>5, <2>1, <3>1 DEF Live
  <2>2. CASE Len(w) # 1
    <3>1. Len(v) \in 1 .. Len(w) - 1 /\ Len(v) + 1 = Len(w)
      BY <1>5, <2>2
    <3>2. v # <<>> /\ v[Len(v)] = w[Len(w)]
      BY <1>5, <3>1
    <3> QED
      BY <1>5, <2>2, <3>2 DEF Live
  <2> QED
    BY <2>1, <2>2
<1>7. PICK a \in Nat : a = Len(s)
  BY <1>3
<1>8. PICK n \in Nat \ {0} : n = Live(w)
  BY <1>6
<1>9. Size(s, w, b) = a + n + Len(b) /\ Size(r, v, b) = a + n + Len(b)
  BY <1>3, <1>6, <1>7, <1>8 DEF Size
<1>l. n <= Len(w)
  BY <1>8, SizeType
<1>10. ASSUME NEW i \in 1 .. a + n + Len(b) PROVE At(r, v, b, i) = At(s, w, b, i)
  <2>1. CASE i <= a
    <3>1. i <= a + 1
      BY <2>1
    <3> QED
      BY <1>3, <1>7, <2>1, <3>1 DEF At
  <2>2. CASE i = a + 1
    <3>1. ~(i <= a) /\ i <= a + 1 /\ i <= a + n /\ i - a = 1
      BY <2>2
    <3> QED
      BY <1>3, <1>5, <1>7, <1>8, <2>2, <3>1 DEF At
  <2>3. CASE i > a + 1 /\ i <= a + n
    <3>1. PICK k \in Nat : k = i - (a + 1)
      BY <2>3
    <3>2. ~(i <= a) /\ ~(i <= a + 1) /\ i <= (a + 1) + (n - 1) /\ i - a = k + 1
      BY <2>3, <3>1
    <3>3. k \in 1 .. Len(w) - 1
      BY <1>5, <1>l, <2>3, <3>1
    <3>4. v[k] = w[k + 1]
      BY <1>5, <3>3
    <3> QED
      BY <1>3, <1>6, <1>7, <1>8, <2>3, <3>1, <3>2, <3>4 DEF At
  <2>4. CASE i > a + n
    <3>1. /\ ~(i <= a) /\ ~(i <= a + 1) /\ ~(i <= a + n) /\ ~(i <= (a + 1) + (n - 1))
          /\ i - (a + 1) - (n - 1) = i - a - n
      BY <2>4
    <3> QED
      BY <1>3, <1>6, <1>7, <1>8, <3>1 DEF At
  <2> QED
    BY <2>1, <2>2, <2>3, <2>4
<1> QED
  BY <1>1, <1>2, <1>4, <1>9, <1>10

\* A frame without a record ends the stream and what was left in the channel.
LEMMA PathMarker ==
  ASSUME NEW s \in Seq(Int), NEW w \in Seq(Frame), NEW b \in Seq(Int), NEW f \in Frame,
         f.id = NoID, \A i \in 1 .. Len(w) : w[i].id # NoID
  PROVE  /\ Size(s, Append(w, f), <<>>) <= Size(s, w, b)
         /\ \A i \in 1 .. Size(s, Append(w, f), <<>>) :
              At(s, Append(w, f), <<>>, i) = At(s, w, b, i)
<1>0. /\ Len(w) \in Nat /\ Len(Append(w, f)) = Len(w) + 1 /\ Append(w, f) # <<>>
      /\ \A i \in 1 .. Len(w) : Append(w, f)[i] = w[i]
      /\ Append(w, f)[Len(w) + 1] = f
  BY AppendSeq
<1>1. PICK v \in Seq(Frame) : v = Append(w, f)
  BY AppendSeq, Zenon
<1>2. /\ Len(w) \in Nat /\ Len(v) = Len(w) + 1 /\ v # <<>>
      /\ \A i \in 1 .. Len(w) : v[i] = w[i]
      /\ v[Len(w) + 1] = f
  BY <1>0, <1>1
<1>3. Live(w) = Len(w) /\ Live(v) = Len(w)
  <2>1. w # <<>> => Len(w) \in 1 .. Len(w)
    BY <1>2
  <2> QED
    BY <1>2, <2>1 DEF Live
<1>4. PICK a \in Nat : a = Len(s)
  OBVIOUS
<1>5. PICK n \in Nat : n = Len(w)
  BY <1>2
<1>6. Len(b) \in Nat
  OBVIOUS
<1>7. Size(s, v, <<>>) = a + n /\ Size(s, w, b) = a + n + Len(b)
  BY <1>3, <1>4, <1>5, <1>6 DEF Size
<1>8. ASSUME NEW i \in 1 .. a + n PROVE At(s, v, <<>>, i) = At(s, w, b, i)
  <2>1. CASE i <= a
    BY <1>4, <2>1 DEF At
  <2>2. CASE ~(i <= a)
    <3>1. i - a \in 1 .. n /\ i <= a + n
      BY <2>2
    <3> QED
      BY <1>2, <1>3, <1>4, <1>5, <2>2, <3>1 DEF At
  <2> QED
    BY <2>1, <2>2
<1> QED
  BY <1>1, <1>6, <1>7, <1>8

\* What the reader has is the beginning of it.
LEMMA PathSeen ==
  ASSUME NEW s \in Seq(Int), NEW w \in Seq(Frame), NEW b \in Seq(Int)
  PROVE  /\ Len(s) <= Size(s, w, b) /\ Size(s, <<>>, <<>>) = Len(s)
         /\ \A i \in 1 .. Len(s) : At(s, w, b, i) = s[i]
         /\ Size(s, <<>>, b) = Len(s) + Len(b)
<1>1. Len(s) \in Nat /\ Len(b) \in Nat /\ Live(w) \in Nat
  BY SizeType
<1>2. Live(<<>>) = 0
  BY DEF Live
<1> QED
  BY <1>1, <1>2 DEF Size, At

\* The next record goes to the end of a chain; one that does not match is passed.
LEMMA ChainExtend ==
  ASSUME NEW l \in Seq(Record), NEW f \in Nat,
         NEW s \in Seq(Int), NEW w \in Seq(Frame), NEW b \in Seq(Int),
         NEW pos \in Nat, NEW p \in 1 .. Len(l), p = Max2(pos, f),
         Chain(l, f, s, w, b), UpTo(l, f, s, w, b, pos)
  PROVE  /\ Chain(l, f, s, w, Append(b, p)) /\ UpTo(l, f, s, w, Append(b, p), p + 1)
         /\ ~Matches(l, p) => UpTo(l, f, s, w, b, p + 1)
<1>0. p \in Nat /\ p \in Int /\ pos <= p /\ (p = pos \/ p = f) /\ Len(l) \in Nat
  BY DEF Max2
<1>1. PICK N \in Nat : N = Size(s, w, b)
  BY SizeType
<1>2. PICK c \in Seq(Int) : c = Append(b, p)
  BY <1>0, AppendSeq, Zenon
<1>3. /\ Size(s, w, c) = N + 1
      /\ \A i \in 1 .. N : At(s, w, c, i) = At(s, w, b, i)
      /\ At(s, w, c, N + 1) = p
  BY <1>0, <1>1, <1>2, PathAppend
<1>4. \A i \in 1 .. N : At(s, w, b, i) \in 1 .. Len(l)
  BY <1>1 DEF Chain
<1>5. ASSUME NEW i \in 1 .. N, i = N
      PROVE  At(s, w, b, i) < p /\ NoGap(l, f, At(s, w, b, i), p)
  <2>1. PICK x \in Nat : x = At(s, w, b, i)
    BY <1>4
  <2>2. x < pos /\ NoGap(l, f, x, pos)
    BY <1>1, <1>5, <2>1 DEF UpTo
  <2>3. ASSUME NEW k \in x + 1 .. p - 1, Matches(l, k) PROVE k < f
    <3>1. CASE k < pos
      BY <2>2, <2>3, <3>1 DEF NoGap
    <3>2. CASE ~(k < pos)
      BY <1>0, <3>2
    <3> QED
      BY <3>1, <3>2
  <2> QED
    BY <1>0, <2>1, <2>2, <2>3 DEF NoGap
<1>6. Chain(l, f, s, w, c)
  <2>1. ASSUME NEW i \in 1 .. N + 1 PROVE At(s, w, c, i) \in 1 .. Len(l)
    <3>1. CASE i \in 1 .. N
      BY <1>3, <1>4, <3>1
    <3>2. CASE i \notin 1 .. N
      <4>1. i = N + 1
        BY <3>2
      <4> QED
        BY <1>3, <4>1
    <3> QED
      BY <3>1, <3>2
  <2>2. ASSUME NEW i \in 1 .. N + 1, NEW j \in 1 .. N + 1, j = i + 1
        PROVE  At(s, w, c, i) < At(s, w, c, j) /\ NoGap(l, f, At(s, w, c, i), At(s, w, c, j))
    <3>1. i \in 1 .. N
      BY <2>2
    <3>2. CASE j \in 1 .. N
      BY <1>1, <1>3, <2>2, <3>1, <3>2 DEF Chain
    <3>3. CASE j \notin 1 .. N
      <4>1. j = N + 1 /\ i = N
        BY <2>2, <3>3
      <4>2. At(s, w, c, j) = p
        BY <1>3, <4>1
      <4> QED
        BY <1>3, <1>5, <3>1, <4>1, <4>2
    <3> QED
      BY <3>2, <3>3
  <2> QED
    BY <1>3, <2>1, <2>2 DEF Chain
<1>7. UpTo(l, f, s, w, c, p + 1)
  <2>1. \A k \in p + 1 .. p : FALSE
    BY <1>0
  <2>2. NoGap(l, f, p, p + 1)
    BY <1>0, <2>1 DEF NoGap
  <2> QED
    BY <1>0, <1>3, <2>2 DEF UpTo
<1>8. ASSUME ~Matches(l, p) PROVE UpTo(l, f, s, w, b, p + 1)
  <2> SUFFICES ASSUME NEW i \in 1 .. N, i = N
               PROVE  At(s, w, b, i) < p + 1 /\ NoGap(l, f, At(s, w, b, i), p + 1)
    BY <1>1 DEF UpTo
  <2>1. PICK x \in Nat : x = At(s, w, b, i)
    BY <1>4
  <2>2. x < p /\ NoGap(l, f, x, p)
    BY <1>5, <2>1
  <2>3. ASSUME NEW k \in x + 1 .. p, Matches(l, k) PROVE k < f
    <3>1. k # p
      BY <1>8, <2>3
    <3>2. k \in x + 1 .. p - 1
      BY <1>0, <3>1
    <3> QED
      BY <2>2, <2>3, <3>2 DEF NoGap
  <2>4. (p + 1) - 1 = p /\ x < p + 1
    BY <1>0, <2>2
  <2> QED
    BY <2>1, <2>3, <2>4 DEF NoGap
<1> QED
  BY <1>2, <1>6, <1>7, <1>8

-----------------------------------------------------------------------------
(* The types of the readers *)

\* What the writers and retention do to the readers: the log grows, less of it
\* is retained, and nothing else changes.
Grown ==
  /\ log' \in Seq(Record) /\ Len(log) <= Len(log')
  /\ \A k \in 1 .. Len(log) : log'[k] = log[k]
  /\ first <= first' /\ Len(emitted) <= Len(emitted')
  /\ scenario' = scenario /\ client' = client /\ server' = server /\ chan' = chan
  /\ wire' = wire /\ seen' = seen /\ query' = query

\* The steps of the readers.
ReadStep ==
  \/ WriteStatusFrame \/ Subscribe \/ WatcherNext \/ SubscriptionFails
  \/ HandleWatchEvent \/ HandlerGivesUp
  \/ Connect \/ ConnectFails \/ PipeFrame
  \/ \E broken \in BOOLEAN : ConnectionEnds(broken)
  \/ QueryStart \/ QueryNext \/ QueryReturns \/ QueryFails

\* Every step is one or the other.
LEMMA StepKinds ==
  ASSUME WriteInv, [Next]_vars
  PROVE  Grown \/ ReadStep
<1>0. /\ Len(log) \in Nat /\ log \in Seq(Record) /\ Len(emitted) \in Nat /\ first \in Nat
  BY DEF WriteInv, WriterTypes
<1>1. CASE UNCHANGED vars
  BY <1>0, <1>1 DEF vars, Grown
<1>2. ASSUME NEW kind \in scenario.kinds, NEW emitter \in scenario.emitters,
             NEW reached \in SUBSET scenario.peers, Broadcast(kind, emitter, reached)
      PROVE  Grown
  <2>1. Len(emitted') >= Len(emitted) /\ emitted' \in Seq(Event)
    BY <1>2, BroadcastKeeps DEF WriteInv, WriterTypes
  <2>2. Len(emitted') \in Nat
    BY <2>1
  <2> QED
    BY <1>0, <1>2, <2>1, <2>2 DEF Broadcast, stream, Grown
<1>3. ASSUME NEW n \in Node, NEW e \in 1 .. Len(emitted), HandleCoordinationEvent(n, e)
      PROVE  Grown
  <2>1. \/ log' = log
        \/ PublishEvent(e, TypeOf(e)) /\ TypeOf(e) \in {"state_transition", "backup_started"}
    BY <1>3 DEF HandleCoordinationEvent, TypeOf
  <2>2. /\ log' \in Seq(Record) /\ Len(log) <= Len(log')
        /\ \A k \in 1 .. Len(log) : log'[k] = log[k]
    <3>1. CASE log' = log
      BY <1>0, <3>1
    <3>2. CASE PublishEvent(e, TypeOf(e)) /\ TypeOf(e) \in {"state_transition", "backup_started"}
      BY <1>0, <3>2, PublishStep DEF WriteInv
    <3> QED
      BY <2>1, <3>1, <3>2
  <2> QED
    BY <1>0, <1>3, <2>2 DEF HandleCoordinationEvent, Grown
<1>4. ASSUME NEW n \in Node, SynthesizeLeaderChange(n) PROVE Grown
  <2>1. PublishEvent(derive[n], "proxy.leader_changed") /\ derive[n] \in 1 .. Len(emitted)
    BY <1>0, <1>4 DEF SynthesizeLeaderChange, WriteInv, WriterTypes
  <2>2. /\ log' \in Seq(Record) /\ Len(log) <= Len(log')
        /\ \A k \in 1 .. Len(log) : log'[k] = log[k]
    BY <1>0, <2>1, PublishStep DEF WriteInv
  <2> QED
    BY <1>0, <1>4, <2>2 DEF SynthesizeLeaderChange, Grown
<1>5. ASSUME NEW n \in Node, PeerCrash(n) PROVE Grown
  BY <1>0, <1>5 DEF PeerCrash, stream, Grown
<1>6. CASE Retention
  BY <1>0, <1>6 DEF Retention, writers, Grown
<1>7. CASE Next
  BY <1>2, <1>3, <1>4, <1>5, <1>6, <1>7 DEF Next, ReadStep
<1> QED
  BY <1>1, <1>7

Servers == [phase : {"none", "snapshot", "subscribe", "stream", "failed", "ended"},
            cursor : Int, pos : Nat, found : BOOLEAN, start : Nat]
Clients == [phase : {"down", "open", "over"}, lastID : Int, attempts : Nat]
Queries == [phase : {"idle", "run", "over"}, cursor : Int, pos : Nat,
            found : BOOLEAN, out : Seq(Int)]

\* NextRecord of a reader that is behind the end.
LEMMA NextType ==
  ASSUME WriteInv, NEW pos \in Nat, NextRecord(pos) <= Len(log)
  PROVE  /\ NextRecord(pos) \in 1 .. Len(log) /\ NextRecord(pos) \in Nat
         /\ NextRecord(pos) >= pos /\ NextRecord(pos) >= first
         /\ NextRecord(pos) + 1 <= Len(log) + 1
  BY DEF NextRecord, Max2, WriteInv, WriterTypes

\* The writers leave the readers in their types.
LEMMA GrownTypes ==
  ASSUME WriteInv, ReaderTypes, Grown
  PROVE  ReaderTypes'
<1>1. Len(log) \in Nat /\ Len(log') \in Nat /\ Len(log) <= Len(log')
  BY DEF WriteInv, WriterTypes, Grown
<1>2. ASSUME NEW i \in 1 .. Len(chan) PROVE chan[i] \in 1 .. Len(log')
  <2>1. chan[i] \in 1 .. Len(log)
    BY DEF ReaderTypes
  <2> QED
    BY <1>1, <2>1
<1>3. server.pos \in Nat /\ query.pos \in Nat
  BY DEF ReaderTypes
<1>4. server.pos <= Len(log') + 1 /\ query.pos <= Len(log') + 1
  BY <1>1, <1>3 DEF ReaderTypes
<1> QED
  BY <1>2, <1>4 DEF ReaderTypes, Grown

\* The steps of the server side.
LEMMA ServerTypes ==
  ASSUME WriteInv, ReaderTypes,
         WriteStatusFrame \/ Subscribe \/ WatcherNext \/ SubscriptionFails
           \/ HandleWatchEvent \/ HandlerGivesUp
  PROVE  ReaderTypes' /\ UNCHANGED <<emitted, log, first, scenario>>
<1>0. /\ log \in Seq(Record) /\ Len(log) \in Nat /\ Len(emitted) \in Nat
      /\ first \in Nat /\ first <= Len(log) + 1
  BY DEF WriteInv, WriterTypes
<1>1. /\ server \in Servers /\ client \in Clients /\ query \in Queries
      /\ chan \in Seq(Int) /\ wire \in Seq(Frame) /\ seen \in Seq(Int)
      /\ \A i \in 1 .. Len(chan) : chan[i] \in 1 .. Len(log)
      /\ server.pos <= Len(log) + 1 /\ query.pos <= Len(log) + 1
  BY DEF ReaderTypes, Servers, Clients, Queries
<1>2. /\ emitted' = emitted /\ log' = log /\ first' = first /\ scenario' = scenario
      /\ client' = client /\ seen' = seen /\ query' = query
  BY DEF WriteStatusFrame, Subscribe, WatcherNext, SubscriptionFails, HandleWatchEvent,
         HandlerGivesUp, writers, stream
<1>3. /\ [id |-> NoID, upto |-> 0] \in Frame
      /\ \A i \in Int : [id |-> i, upto |-> Len(emitted)] \in Frame
  BY <1>0 DEF Frame, NoID
<1>4. \A p \in {"subscribe", "stream", "failed", "ended"} : [server EXCEPT !.phase = p] \in Servers
  BY <1>1 DEF Servers
<1>5. SUFFICES /\ server' \in Servers /\ chan' \in Seq(Int) /\ wire' \in Seq(Frame)
               /\ \A i \in 1 .. Len(chan') : chan'[i] \in 1 .. Len(log)
               /\ server'.pos <= Len(log) + 1
  BY <1>1, <1>2 DEF ReaderTypes, Servers, Clients, Queries
<1>6. CASE WriteStatusFrame
  <2>1. /\ chan' = chan
        /\ \E f \in Frame : wire' = Append(wire, f)
        /\ \E p \in {"subscribe", "ended"} : server' = [server EXCEPT !.phase = p]
    BY <1>3, <1>6 DEF WriteStatusFrame, ReqID
  <2>2. wire' \in Seq(Frame)
    BY <1>1, <2>1, AppendSeq
  <2>3. server' \in Servers /\ server'.pos = server.pos
    BY <1>1, <1>4, <2>1, Zenon DEF Servers
  <2> QED
    BY <1>1, <2>1, <2>2, <2>3
<1>7. CASE Subscribe
  <2>1. PICK pos \in Nat : pos = IF server.cursor = NoID THEN Len(log) + 1 ELSE first
    BY <1>0
  <2>2. /\ chan' = chan /\ wire' = wire
        /\ server' \in {[server EXCEPT !.phase = "failed"],
                        [server EXCEPT !.phase = "stream", !.pos = pos, !.start = pos,
                                       !.found = (server.cursor = NoID)]}
    BY <1>7, <2>1 DEF Subscribe
  <2>3. pos <= Len(log) + 1
    BY <1>0, <2>1
  <2>4. CASE server' = [server EXCEPT !.phase = "failed"]
    BY <1>1, <1>4, <2>2, <2>4 DEF Servers
  <2>5. CASE server' = [server EXCEPT !.phase = "stream", !.pos = pos, !.start = pos,
                                      !.found = (server.cursor = NoID)]
    <3>1. server' \in Servers /\ server'.pos = pos
      BY <1>1, <2>1, <2>5, Zenon DEF Servers
    <3> QED
      BY <1>1, <2>2, <2>3, <3>1
  <2> QED
    BY <2>2, <2>4, <2>5
<1>8. CASE WatcherNext
  <2> DEFINE p == NextRecord(server.pos)
  <2>1. /\ p <= Len(log) /\ wire' = wire
        /\ chan' = Append(chan, p) \/ chan' = chan
        /\ server' = [server EXCEPT !.pos = p + 1,
                        !.found = (server.found \/ p = server.cursor),
                        !.start = IF server.found THEN server.start ELSE p + 1]
    BY <1>8 DEF WatcherNext
  <2>2. server.pos \in Nat /\ server.found \in BOOLEAN /\ server.start \in Nat
    BY <1>1 DEF Servers
  <2>3. p \in 1 .. Len(log) /\ p \in Nat /\ p + 1 <= Len(log) + 1
    BY <2>1, <2>2, NextType
  <2> HIDE DEF p
  <2>4. server' \in Servers /\ server'.pos = p + 1
    <3>1. PICK st \in Nat : st = IF server.found THEN server.start ELSE p + 1
      BY <2>2, <2>3
    <3>2. PICK q \in Nat : q = p + 1
      BY <2>3
    <3>3. server' = [server EXCEPT !.pos = q, !.found = (server.found \/ p = server.cursor),
                                   !.start = st]
      BY <2>1, <3>1, <3>2
    <3>4. server' \in Servers /\ server'.pos = q
      BY <1>1, <3>3, Zenon DEF Servers
    <3> QED
      BY <3>2, <3>4
  <2>5. chan' \in Seq(Int) /\ \A i \in 1 .. Len(chan') : chan'[i] \in 1 .. Len(log)
    <3>1. CASE chan' = chan
      BY <1>1, <3>1
    <3>2. CASE chan' = Append(chan, p)
      <4>1. /\ chan' \in Seq(Int) /\ Len(chan) \in Nat /\ Len(chan') = Len(chan) + 1
            /\ \A i \in 1 .. Len(chan) : chan'[i] = chan[i]
            /\ chan'[Len(chan) + 1] = p
        BY <1>1, <2>3, <3>2, AppendSeq
      <4>2. \A i \in 1 .. Len(chan') : i \in 1 .. Len(chan) \/ i = Len(chan) + 1
        BY <4>1
      <4> QED
        BY <1>1, <2>3, <4>1, <4>2, Zenon
    <3> QED
      BY <2>1, <3>1, <3>2
  <2> QED
    BY <1>1, <2>1, <2>3, <2>4, <2>5
<1>9. CASE SubscriptionFails
  BY <1>1, <1>4, <1>9 DEF SubscriptionFails, Servers
<1>10. CASE HandleWatchEvent
  <2>1. /\ chan # <<>> /\ chan' = Tail(chan)
        /\ wire' = wire \/ \E f \in Frame : wire' = Append(wire, f)
        /\ server' = server \/ server' = [server EXCEPT !.phase = "ended"]
    <3>1. chan # <<>> /\ Head(chan) \in Int
      BY <1>1, <1>10, TailSeq DEF HandleWatchEvent
    <3> QED
      BY <1>3, <1>10, <3>1 DEF HandleWatchEvent
  <2>2. /\ chan' \in Seq(Int) /\ Len(chan) \in Nat \ {0} /\ Len(chan') = Len(chan) - 1
        /\ \A i \in 1 .. Len(chan) - 1 : chan'[i] = chan[i + 1]
    BY <1>1, <2>1, TailSeq
  <2>3. \A i \in 1 .. Len(chan') : i + 1 \in 1 .. Len(chan)
    BY <2>2
  <2>4. \A i \in 1 .. Len(chan') : chan'[i] \in 1 .. Len(log)
    BY <1>1, <2>2, <2>3, Zenon
  <2>5. wire' \in Seq(Frame)
    <3>1. ASSUME NEW f \in Frame, wire' = Append(wire, f) PROVE wire' \in Seq(Frame)
      BY <1>1, <3>1, AppendSeq
    <3> QED
      BY <1>1, <2>1, <3>1
  <2>6. server' \in Servers /\ server'.pos = server.pos
    BY <1>1, <1>4, <2>1, Zenon DEF Servers
  <2> QED
    BY <1>1, <2>2, <2>4, <2>5, <2>6
<1>11. CASE HandlerGivesUp
  <2>1. /\ \E f \in Frame : wire' = Append(wire, f)
        /\ chan' = <<>> /\ server' = [server EXCEPT !.phase = "ended"]
    BY <1>3, <1>11 DEF HandlerGivesUp
  <2>2. wire' \in Seq(Frame)
    BY <1>1, <2>1, AppendSeq
  <2>3. chan' \in Seq(Int) /\ Len(chan') = 0
    BY <2>1
  <2>4. server' \in Servers /\ server'.pos = server.pos
    BY <1>1, <1>4, <2>1 DEF Servers
  <2> QED
    BY <1>1, <2>2, <2>3, <2>4
<1> QED
  BY <1>6, <1>7, <1>8, <1>9, <1>10, <1>11

\* The steps of the client and of the query.
LEMMA ClientTypes ==
  ASSUME WriteInv, ReaderTypes,
         \/ Connect \/ ConnectFails \/ PipeFrame
         \/ \E broken \in BOOLEAN : ConnectionEnds(broken)
         \/ QueryStart \/ QueryNext \/ QueryReturns \/ QueryFails
  PROVE  ReaderTypes' /\ UNCHANGED <<emitted, log, first, scenario>>
<1>0. /\ log \in Seq(Record) /\ Len(log) \in Nat /\ Len(emitted) \in Nat
      /\ first \in Nat /\ first <= Len(log) + 1
  BY DEF WriteInv, WriterTypes
<1>1. /\ server \in Servers /\ client \in Clients /\ query \in Queries
      /\ chan \in Seq(Int) /\ wire \in Seq(Frame) /\ seen \in Seq(Int)
      /\ \A i \in 1 .. Len(chan) : chan[i] \in 1 .. Len(log)
      /\ server.pos <= Len(log) + 1 /\ query.pos <= Len(log) + 1
  BY DEF ReaderTypes, Servers, Clients, Queries
<1>2. /\ emitted' = emitted /\ log' = log /\ first' = first /\ scenario' = scenario
  BY Zenon DEF Connect, ConnectFails, PipeFrame, ConnectionEnds, QueryStart, QueryNext,
         QueryReturns, QueryFails, writers, stream
<1>3. /\ NoServer \in Servers /\ NoServer.pos = 0
      /\ NoQuery \in Queries /\ NoQuery.pos = 0
  BY DEF NoServer, Servers, NoQuery, Queries, NoID
<1>4. /\ <<>> \in Seq(Int) /\ <<>> \in Seq(Frame) /\ Len(<<>>) = 0
  OBVIOUS
<1>5. CASE Connect
  <2>1. /\ server' = [NoServer EXCEPT !.phase = IF reader = "status" THEN "snapshot"
                                                ELSE "subscribe", !.cursor = client.lastID]
        /\ client' = [client EXCEPT !.phase = "open"]
        /\ chan' = chan /\ wire' = wire /\ seen' = seen /\ query' = query
    BY <1>5 DEF Connect
  <2>2. client' \in Clients /\ client.lastID \in Int
    BY <1>1, <2>1, Zenon DEF Clients
  <2>3. server' \in Servers /\ server'.pos = 0
    BY <1>3, <2>1, <2>2, Zenon DEF Servers
  <2> QED
    BY <1>0, <1>1, <1>2, <2>1, <2>2, <2>3 DEF ReaderTypes, Servers, Clients, Queries
<1>6. ASSUME Retry PROVE client' \in Clients
  <2>1. PICK a \in Nat : a = client.attempts + 1
    BY <1>1 DEF Clients
  <2>2. \/ client' = [client EXCEPT !.phase = "over"]
        \/ client' = [client EXCEPT !.phase = "down", !.attempts = a]
    BY <1>6, <2>1 DEF Retry
  <2> QED
    BY <1>1, <2>2, Zenon DEF Clients
<1>7. CASE ConnectFails
  BY <1>1, <1>2, <1>6, <1>7 DEF ConnectFails, ReaderTypes, Servers, Clients, Queries
<1>8. ASSUME NEW broken \in BOOLEAN, ConnectionEnds(broken) PROVE ReaderTypes'
  <2>1. /\ client' \in Clients /\ server' = NoServer /\ chan' = <<>> /\ wire' = <<>>
        /\ seen' = seen /\ query' = query
    BY <1>6, <1>8 DEF ConnectionEnds
  <2> QED
    BY <1>0, <1>1, <1>2, <1>3, <1>4, <2>1 DEF ReaderTypes, Servers, Clients, Queries
<1>9. CASE PipeFrame
  <2> DEFINE f == Head(wire)
  <2>1. /\ wire # <<>> /\ wire' = Tail(wire)
        /\ server' = server /\ chan' = chan /\ query' = query
        /\ client' = IF f.id = NoID THEN client ELSE [client EXCEPT !.lastID = f.id]
    BY <1>9 DEF PipeFrame
  <2>2. f \in Frame /\ wire' \in Seq(Frame) /\ f.id \in Int /\ f.upto \in Nat
    <3>1. f \in Frame /\ wire' \in Seq(Frame)
      BY <1>1, <2>1, TailSeq
    <3> QED
      BY <3>1 DEF Frame
  <2>3. client' \in Clients
    BY <1>1, <2>1, <2>2 DEF Clients
  <2>4. seen' = seen \/ seen' = <<f.upto>> \/ seen' = Append(seen, f.id)
    BY <1>9 DEF PipeFrame
  <2> HIDE DEF f
  <2>5. seen' \in Seq(Int)
    <3>1. CASE seen' = <<f.upto>>
      BY <2>2, <3>1
    <3>2. CASE seen' = Append(seen, f.id)
      BY <1>1, <2>2, <3>2, AppendSeq
    <3> QED
      BY <1>1, <2>4, <3>1, <3>2
  <2> QED
    BY <1>1, <1>2, <2>1, <2>2, <2>3, <2>5 DEF ReaderTypes, Servers, Clients, Queries
<1>10. SUFFICES ASSUME QueryStart \/ QueryNext \/ QueryReturns \/ QueryFails
                PROVE  ReaderTypes'
  BY <1>2, <1>5, <1>7, <1>8, <1>9
<1>11. /\ client' = client /\ server' = server /\ chan' = chan /\ wire' = wire
  BY <1>10, Zenon DEF QueryStart, QueryNext, QueryReturns, QueryFails
<1>12. SUFFICES query' \in Queries /\ query'.pos <= Len(log) + 1 /\ seen' \in Seq(Int)
  BY <1>1, <1>2, <1>11 DEF ReaderTypes, Servers, Clients, Queries
<1>13. CASE QueryStart
  <2>1. /\ seen' = seen
        /\ \E pos \in IF query.cursor = NoID THEN first .. Len(log) + 1 ELSE {first} :
             query' = [query EXCEPT !.phase = "run", !.pos = pos, !.out = <<>>,
                                    !.found = (query.cursor = NoID)]
    BY <1>13, Zenon DEF QueryStart
  <2>2. PICK pos \in Nat : /\ pos <= Len(log) + 1
                           /\ query' = [query EXCEPT !.phase = "run", !.pos = pos, !.out = <<>>,
                                                     !.found = (query.cursor = NoID)]
    <3>1. \A pos \in first .. Len(log) + 1 : pos \in Nat /\ pos <= Len(log) + 1
      BY <1>0
    <3>2. first \in first .. Len(log) + 1
      BY <1>0
    <3> QED
      BY <2>1, <3>1, <3>2, Zenon
  <2> QED
    BY <1>1, <1>4, <2>1, <2>2, Zenon DEF Queries
<1>14. CASE QueryNext
  <2> DEFINE p == NextRecord(query.pos)
  <2>1. /\ p <= Len(log) /\ seen' = seen
        /\ query' = [query EXCEPT !.pos = p + 1, !.found = (query.found \/ p = query.cursor),
                                !.out = IF query.found /\ TypeMatches(p)
                                        THEN Append(query.out, p) ELSE query.out]
    BY <1>14 DEF QueryNext
  <2>2. query.pos \in Nat /\ query.found \in BOOLEAN /\ query.out \in Seq(Int)
    BY <1>1 DEF Queries
  <2>3. p \in 1 .. Len(log) /\ p \in Nat /\ p + 1 <= Len(log) + 1
    BY <2>1, <2>2, NextType
  <2> HIDE DEF p
  <2>4. PICK o \in Seq(Int) : o = IF query.found /\ TypeMatches(p)
                                  THEN Append(query.out, p) ELSE query.out
    <3>1. p \in Int
      BY <2>3
    <3>2. Append(query.out, p) \in Seq(Int)
      BY <2>2, <3>1, AppendSeq
    <3> QED
      BY <2>2, <3>2, Zenon
  <2>5. PICK q \in Nat : q = p + 1
    BY <2>3
  <2>6. query' = [query EXCEPT !.pos = q, !.found = (query.found \/ p = query.cursor),
                               !.out = o]
    BY <2>1, <2>4, <2>5
  <2>7. query' \in Queries /\ query'.pos = q
    BY <1>1, <2>6, Zenon DEF Queries
  <2> QED
    BY <1>1, <2>1, <2>3, <2>5, <2>7
<1>c. ASSUME NEW c \in Int
      PROVE  [NoQuery EXCEPT !.cursor = c] \in Queries /\ [NoQuery EXCEPT !.cursor = c].pos = 0
  BY <1>3 DEF Queries
<1>15. CASE QueryReturns
  <2>1. query.out \in Seq(Int) /\ Len(query.out) \in Nat
    BY <1>1 DEF Queries
  <2>2. seen' \in Seq(Int)
    BY <1>1, <1>15, <2>1 DEF QueryReturns
  <2>3. CASE query' = [NoQuery EXCEPT !.phase = "over"]
    BY <1>0, <1>3, <2>2, <2>3 DEF Queries
  <2>4. CASE query' = [NoQuery EXCEPT !.cursor = query.out[Limit]] /\ Len(query.out) = Limit
    <3>1. query.out[Limit] \in Int
      BY <2>1, <2>4, BoundsAssumption
    <3> QED
      BY <1>0, <1>c, <2>2, <2>4, <3>1
  <2> QED
    BY <1>15, <2>3, <2>4 DEF QueryReturns
<1>16. CASE QueryFails
  <2>1. query.cursor \in Int
    BY <1>1 DEF Queries
  <2> QED
    BY <1>0, <1>1, <1>c, <1>16, <2>1 DEF QueryFails
<1> QED
  BY <1>10, <1>13, <1>14, <1>15, <1>16
=============================================================================
