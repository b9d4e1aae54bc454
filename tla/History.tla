------------------------------- MODULE History -------------------------------
(***************************************************************************)
(* The history stream, its writers and one of its readers, end to end:     *)
(*   - every peer's subscription to the coordination events of the         *)
(*     Managers, and what it appends to the stream (cluster/events.go,     *)
(*     history/publisher.go);                                              *)
(*   - a reader: "status" and "transitions" are the two shapes of          *)
(*     `pgmctl watch` (pgmctl/watch/sse.go), served by handlers_watch.go   *)
(*     and history/watcher.go; "query" is an operator who follows the      *)
(*     cursors of GET /v1/history (history/query.go).                      *)
(*                                                                         *)
(* The stream is external.  A record is identified by its place in log,    *)
(* which stands for its ULID; retention removes records from the front.    *)
(***************************************************************************)
EXTENDS Integers, Sequences

CONSTANTS
  Node,         \* the peers
  Scenarios,    \* the readers to consider, each with the peers that are up and
                \* with the coordination events of the Managers: their kinds,
                \* the emitters they name (or None), a bound on their number
  MaxRecords,   \* bound on the records whose delivery is followed
  MaxAttempts,  \* ReconnectPolicy.MaxAttempts
  Limit,        \* the limit of a history query
  ChanCap,      \* capacity of the Watcher's events channel (64 in the code)
  WireCap,      \* frames under way to the client
  None          \* no emitter

ASSUME NoneAssumption == None \notin Node
ASSUME BoundsAssumption ==
  /\ MaxAttempts \in Nat /\ MaxRecords \in Nat
  /\ Limit \in Nat \ {0} /\ ChanCap \in Nat \ {0} /\ WireCap \in Nat \ {0}
ASSUME ScenariosAssumption ==
  Scenarios \subseteq [reader : {"none", "status", "transitions", "query"}, peers : SUBSET Node,
                         kinds : SUBSET {"edge", "other"},
                         emitters : SUBSET (Node \cup {None}), events : Nat]

VARIABLES
  emitted,  \* the coordination events so far: kind and payload's node_id
  inbox,    \* events waiting in the subscriptions of each peer
  derive,   \* the event whose derived record a peer is about to publish, or 0
  log,      \* every record ever stored
  first,    \* the first record that is still retained
  scenario, \* the member of Scenarios this behaviour is of
  client,   \* Tail: phase, lastID, attempts
  server,   \* the SSE handler and its Watcher
  chan,     \* the events channel between Watcher and handler
  wire,     \* frames written and not yet read
  seen,     \* the records the reader got; for "status" its last snapshot
  query     \* history.Run and the operator's cursor

writers == <<emitted, inbox, derive>>
stream == <<log, first>>
vars == <<emitted, inbox, derive, log, first, scenario, client, server,
          chan, wire, seen, query>>

reader == scenario.reader

NoID == 0      \* no Last-Event-ID, no cursor
ReqID == -1    \* an id that is not the id of a record

NoServer == [phase |-> "none", cursor |-> NoID, pos |-> 0, found |-> FALSE, start |-> 0]
NoQuery == [phase |-> "idle", cursor |-> NoID, pos |-> 0, found |-> FALSE, out |-> <<>>]

Init ==
  /\ emitted = <<>>
  /\ inbox = [n \in Node |-> {}]
  /\ derive = [n \in Node |-> 0]
  /\ log = <<>> /\ first = 1
  /\ scenario \in Scenarios
  /\ client = [phase |-> "down", lastID |-> NoID, attempts |-> 0]
  /\ server = NoServer
  /\ chan = <<>> /\ wire = <<>> /\ seen = <<>>
  /\ query = NoQuery

-----------------------------------------------------------------------------
(* Writers *)

\* A Manager broadcasts an event: "edge" is a state_transition with a
\* leadership reason, "other" any other topic.  A payload need not carry a
\* node_id.  Core NATS delivers it to the peers it reaches, once; an event
\* that reaches none leaves no trace.
Broadcast(kind, emitter, reached) ==
  /\ Len(emitted) < scenario.events
  /\ emitted' = Append(emitted, [kind |-> kind, emitter |-> emitter])
  /\ inbox' = [n \in Node |-> IF n \in reached THEN inbox[n] \cup {Len(emitted) + 1}
                                               ELSE inbox[n]]
  /\ UNCHANGED <<derive, stream, scenario, client, server, chan, wire, seen, query>>

\* PublishEvent: best effort, one attempt.  An error says nothing of whether
\* the record was stored.
PublishEvent(e, type) ==
  \/ log' = Append(log, [event |-> e, type |-> type])
  \/ UNCHANGED log

\* Mutant: every peer appends what it receives.
OwnsNoFilter(n, e) == TRUE

\* The emitter's peer owns the record; an event without an emitter is
\* recorded by every peer that receives it.
Owns(n, e) == emitted[e].emitter \in {None, n}

TypeOf(e) == IF emitted[e].kind = "edge" THEN "state_transition" ELSE "backup_started"

\* handleCoordinationEvent.  Each topic has its subscription, and with it its
\* own goroutine: events of one topic are handled in order, one at a time.
HandleCoordinationEvent(n, e) ==
  /\ e \in inbox[n]
  /\ \A f \in inbox[n] : emitted[f].kind = emitted[e].kind => e <= f
  /\ emitted[e].kind = "edge" => derive[n] = 0
  /\ inbox' = [inbox EXCEPT ![n] = @ \ {e}]
  /\ IF Owns(n, e)
     THEN /\ PublishEvent(e, TypeOf(e))
          /\ derive' = IF emitted[e].kind = "edge" THEN [derive EXCEPT ![n] = e] ELSE derive
     ELSE UNCHANGED <<log, derive>>
  /\ UNCHANGED <<emitted, first, scenario, client, server, chan, wire, seen, query>>

\* The second half of the handler: proxy.leader_changed, from the same event.
SynthesizeLeaderChange(n) ==
  /\ derive[n] # 0
  /\ PublishEvent(derive[n], "proxy.leader_changed")
  /\ derive' = [derive EXCEPT ![n] = 0]
  /\ UNCHANGED <<emitted, inbox, first, scenario, client, server, chan, wire, seen, query>>

\* The peer's process ends between two steps.
PeerCrash(n) ==
  /\ inbox[n] # {} \/ derive[n] # 0
  /\ inbox' = [inbox EXCEPT ![n] = {}]
  /\ derive' = [derive EXCEPT ![n] = 0]
  /\ UNCHANGED <<emitted, stream, scenario, client, server, chan, wire, seen, query>>

\* MaxAge or MaxBytes (DiscardOld) removes the oldest record.
Retention ==
  /\ first <= Len(log)
  /\ first' = first + 1
  /\ UNCHANGED <<writers, log, scenario, client, server, chan, wire, seen, query>>

-----------------------------------------------------------------------------
(* The server side of a watch *)

Max2(a, b) == IF a > b THEN a ELSE b

\* Where a reader that has come to pos finds its next record.
NextRecord(pos) == Max2(pos, first)

\* The type filter of "transitions" and of the query.
TypeMatches(k) == log[k].type = "state_transition"

\* Mutant: the topic of the transitions is missing from the list.
IsStatusChangeEventNoTransition(k) == log[k].type = "proxy.leader_changed"

IsStatusChangeEvent(k) == log[k].type \in {"state_transition", "proxy.leader_changed"}

\* The first frame of a status stream: a snapshot of the status as of the
\* events so far, under the id of the request.  The handler ends
\* when Status fails.
WriteStatusFrame ==
  /\ server.phase = "snapshot" /\ Len(wire) < WireCap
  /\ \/ /\ wire' = Append(wire, [id |-> ReqID, upto |-> Len(emitted)])
        /\ server' = [server EXCEPT !.phase = "subscribe"]
     \/ /\ wire' = Append(wire, [id |-> NoID, upto |-> 0])
        /\ server' = [server EXCEPT !.phase = "ended"]
  /\ UNCHANGED <<writers, stream, scenario, client, chan, seen, query>>

\* Watcher.run up to its loop: the consumer starts at the front of the stream
\* when there is a cursor to look for, else behind its end.
Subscribe ==
  /\ server.phase = "subscribe"
  /\ LET pos == IF server.cursor = NoID THEN Len(log) + 1 ELSE first
     IN  server' \in {[server EXCEPT !.phase = "failed"],
                      [server EXCEPT !.phase = "stream", !.pos = pos, !.start = pos,
                                     !.found = (server.cursor = NoID)]}
  /\ UNCHANGED <<writers, stream, scenario, client, chan, wire, seen, query>>

\* Mutant: the record of the cursor is delivered again.
WatcherNextInclusive ==
  LET p == NextRecord(server.pos)
      found == server.found \/ p = server.cursor
      wanted == found /\ (reader = "transitions" => TypeMatches(p))
  IN  /\ server.phase = "stream" /\ p <= Len(log)
      /\ wanted => Len(chan) < ChanCap
      /\ chan' = IF wanted THEN Append(chan, p) ELSE chan
      /\ server' = [server EXCEPT !.pos = p + 1, !.found = found,
                                  !.start = IF server.found THEN @ ELSE p + 1]
      /\ UNCHANGED <<writers, stream, scenario, client, wire, seen, query>>

\* Mutant: a full channel drops the record.
WatcherNextNonBlocking ==
  LET p == NextRecord(server.pos)
      wanted == server.found /\ (reader = "transitions" => TypeMatches(p))
  IN  /\ server.phase = "stream" /\ p <= Len(log)
      /\ chan' = IF wanted /\ Len(chan) < ChanCap THEN Append(chan, p) ELSE chan
      /\ server' = [server EXCEPT !.pos = p + 1, !.found = @ \/ p = server.cursor,
                                  !.start = IF server.found THEN @ ELSE p + 1]
      /\ UNCHANGED <<writers, stream, scenario, client, wire, seen, query>>

\* One turn of Watcher.run: records up to the cursor are skipped, the others
\* are filtered and sent, which blocks while the channel is full.
WatcherNext ==
  LET p == NextRecord(server.pos)
      wanted == server.found /\ (reader = "transitions" => TypeMatches(p))
  IN  /\ server.phase = "stream" /\ p <= Len(log)
      /\ wanted => Len(chan) < ChanCap
      /\ chan' = IF wanted THEN Append(chan, p) ELSE chan
      /\ server' = [server EXCEPT !.pos = p + 1, !.found = @ \/ p = server.cursor,
                                  !.start = IF server.found THEN @ ELSE p + 1]
      /\ UNCHANGED <<writers, stream, scenario, client, wire, seen, query>>

\* iter.Next fails: one error, then both channels are closed.
SubscriptionFails ==
  /\ server.phase = "stream"
  /\ server' = [server EXCEPT !.phase = "failed"]
  /\ UNCHANGED <<writers, stream, scenario, client, chan, wire, seen, query>>

\* The handler's select takes an event.  A status frame is a snapshot fetched
\* now, under the event's id; the handler ends when Status fails.
HandleWatchEvent ==
  /\ server.phase \in {"stream", "failed"} /\ chan # <<>>
  /\ chan' = Tail(chan)
  /\ IF reader = "status" /\ ~IsStatusChangeEvent(Head(chan))
     THEN UNCHANGED <<wire, server>>
     ELSE /\ Len(wire) < WireCap
          /\ \/ /\ wire' = Append(wire, [id |-> Head(chan), upto |-> Len(emitted)])
                /\ UNCHANGED server
             \/ /\ reader = "status"
                /\ wire' = Append(wire, [id |-> NoID, upto |-> 0])
                /\ server' = [server EXCEPT !.phase = "ended"]
  /\ UNCHANGED <<writers, stream, scenario, client, seen, query>>

\* The select takes the error (an "error" frame, whatever is left in the
\* channel), or finds the channel closed (a gap_marker).  Neither has an id.
HandlerGivesUp ==
  /\ server.phase = "failed" /\ Len(wire) < WireCap
  /\ wire' = Append(wire, [id |-> NoID, upto |-> 0])
  /\ chan' = <<>>
  /\ server' = [server EXCEPT !.phase = "ended"]
  /\ UNCHANGED <<writers, stream, scenario, client, seen, query>>

-----------------------------------------------------------------------------
(* The client side of a watch: Tail *)

\* StreamSSE with the last id as Last-Event-ID.
Connect ==
  /\ reader \in {"status", "transitions"} /\ client.phase = "down"
  /\ client' = [client EXCEPT !.phase = "open"]
  /\ server' = [NoServer EXCEPT !.phase = IF reader = "status" THEN "snapshot" ELSE "subscribe",
                                !.cursor = client.lastID]
  /\ UNCHANGED <<writers, stream, scenario, chan, wire, seen, query>>

\* attempt counts every reconnect of the process; nothing resets it.
Retry ==
  client' = IF client.attempts + 1 > MaxAttempts
            THEN [client EXCEPT !.phase = "over"]
            ELSE [client EXCEPT !.phase = "down", !.attempts = @ + 1]

ConnectFails ==
  /\ reader \in {"status", "transitions"} /\ client.phase = "down"
  /\ Retry
  /\ UNCHANGED <<writers, stream, scenario, server, chan, wire, seen, query>>

\* The connection breaks, or the server has ended it and all is read.
ConnectionEnds(broken) ==
  /\ client.phase = "open"
  /\ broken \/ (server.phase = "ended" /\ wire = <<>>)
  /\ Retry
  /\ server' = NoServer /\ chan' = <<>> /\ wire' = <<>>
  /\ UNCHANGED <<writers, stream, scenario, seen, query>>

\* pipeFrames and the renderer: the id of a frame is kept before the frame is
\* passed on; status redraws, the others append.
PipeFrame ==
  /\ client.phase = "open" /\ wire # <<>>
  /\ LET f == Head(wire)
     IN  /\ client' = IF f.id = NoID THEN client ELSE [client EXCEPT !.lastID = f.id]
         /\ seen' = CASE f.id = NoID -> seen
                      [] f.id # NoID /\ reader = "status" -> <<f.upto>>
                      [] OTHER -> Append(seen, f.id)
  /\ wire' = Tail(wire)
  /\ UNCHANGED <<writers, stream, scenario, server, chan, query>>

-----------------------------------------------------------------------------
(* GET /v1/history, page by page *)

\* The consumer starts at the front when there is a cursor, else at a time.
QueryStart ==
  /\ reader = "query" /\ query.phase = "idle"
  /\ \E pos \in IF query.cursor = NoID THEN first .. Len(log) + 1 ELSE {first} :
       query' = [query EXCEPT !.phase = "run", !.pos = pos, !.out = <<>>,
                              !.found = (query.cursor = NoID)]
  /\ UNCHANGED <<writers, stream, scenario, client, server, chan, wire, seen>>

\* One message of a fetch.
QueryNext ==
  LET p == NextRecord(query.pos)
  IN  /\ query.phase = "run" /\ p <= Len(log) /\ Len(query.out) < Limit
      /\ query' = [query EXCEPT !.pos = p + 1, !.found = @ \/ p = query.cursor,
                                !.out = IF query.found /\ TypeMatches(p)
                                        THEN Append(@, p) ELSE @]
      /\ UNCHANGED <<writers, stream, scenario, client, server, chan, wire, seen>>

\* The limit is reached, or a fetch came back empty, which a slow stream may
\* do at any time.  Only a full page is called truncated, and then the
\* operator passes next_cursor on.
QueryReturns ==
  /\ query.phase = "run"
  /\ seen' = seen \o query.out
  /\ query' = IF Len(query.out) = Limit
              THEN [NoQuery EXCEPT !.cursor = query.out[Limit]]
              ELSE [NoQuery EXCEPT !.phase = "over"]
  /\ UNCHANGED <<writers, stream, scenario, client, server, chan, wire>>

\* The fetch fails: the page is lost, and asked for again.
QueryFails ==
  /\ query.phase = "run"
  /\ query' = [NoQuery EXCEPT !.cursor = query.cursor]
  /\ UNCHANGED <<writers, stream, scenario, client, server, chan, wire, seen>>

-----------------------------------------------------------------------------
Next ==
  \/ \E kind \in scenario.kinds, emitter \in scenario.emitters,
        reached \in SUBSET scenario.peers \ {{}} :
       Broadcast(kind, emitter, reached)
  \/ \E n \in Node :
       \/ \E e \in 1 .. Len(emitted) : HandleCoordinationEvent(n, e)
       \/ SynthesizeLeaderChange(n) \/ PeerCrash(n)
  \/ Retention
  \/ WriteStatusFrame \/ Subscribe \/ WatcherNext \/ SubscriptionFails
  \/ HandleWatchEvent \/ HandlerGivesUp
  \/ Connect \/ ConnectFails \/ PipeFrame
  \/ \E broken \in BOOLEAN : ConnectionEnds(broken)
  \/ QueryStart \/ QueryNext \/ QueryReturns \/ QueryFails

\* The goroutines of an open stream keep running.
Fairness ==
  WF_vars(WatcherNext) /\ WF_vars(HandleWatchEvent) /\ WF_vars(PipeFrame)

Spec == Init /\ [][Next]_vars /\ Fairness

-----------------------------------------------------------------------------
(* Properties *)

TypeOK ==
  /\ \A e \in 1 .. Len(emitted) : emitted[e].emitter \in Node \cup {None}
  /\ inbox \in [Node -> SUBSET (1 .. Len(emitted))]
  /\ derive \in [Node -> 0 .. Len(emitted)]
  /\ first \in 1 .. Len(log) + 1
  /\ client.phase \in {"down", "open", "over"}
  /\ client.attempts \in 0 .. MaxAttempts
  /\ client.lastID \in {ReqID, NoID} \cup 1 .. Len(log)
  /\ server.phase \in {"none", "snapshot", "subscribe", "stream", "failed", "ended"}
  /\ query.phase \in {"idle", "run", "over"}

(* The emitter filter of handleCoordinationEvent: an event that names its   *)
(* emitter is recorded at most once per type, whichever peers receive it    *)
(* and crash, and its derived record never comes before it.                 *)
RecordedOnce ==
  \A i, j \in 1 .. Len(log) :
    i < j /\ log[i].event = log[j].event /\ emitted[log[i].event].emitter # None
    => log[i].type = "state_transition" /\ log[j].type = "proxy.leader_changed"

(* Through any sequence of drops, reconnects and page turns the reader gets *)
(* the matching records in stream order, none twice, and none left out      *)
(* between two that it got unless retention removed it (Watcher.run,        *)
(* history.Run, Last-Event-ID of Tail, next_cursor).                        *)
ExactlyOnce ==
  reader # "status" =>
    \A i \in 1 .. Len(seen) - 1 :
      /\ seen[i] < seen[i + 1]
      /\ \A k \in seen[i] + 1 .. seen[i + 1] - 1 : TypeMatches(k) => k < first

\* The stream is open and nothing is under way to the client.
Settled ==
  /\ server.phase = "stream" /\ NextRecord(server.pos) > Len(log)
  /\ chan = <<>> /\ wire = <<>>

\* The records the handler's comment names.
ChangesStatus(k) == log[k].type \in {"state_transition", "proxy.leader_changed"}

(* A status stream that has found its place shows, once settled, a snapshot *)
(* no older than any retained status change recorded since (the filter and  *)
(* the fetch of handleWatchStatus).                                         *)
StatusFollows ==
  reader = "status" /\ Settled /\ server.found =>
    \A k \in Max2(first, server.start) .. Len(log) :
      ChangesStatus(k) => seen # <<>> /\ seen[1] >= log[k].event

\* Record k lies ahead of an open stream that has found its place.
Ahead(k) ==
  /\ reader = "transitions" /\ server.phase = "stream" /\ server.found
  /\ server.start <= k /\ k <= Len(log) /\ TypeMatches(k)

(* A record that lies ahead of an open stream is shown in the end, unless   *)
(* retention removes it or the stream ends first: the blocking sends        *)
(* between Watcher, handler and Tail lose nothing.                          *)
Delivered ==
  \A k \in 1 .. MaxRecords :
    Ahead(k) ~> \/ \E i \in 1 .. Len(seen) : seen[i] = k
                \/ k < first \/ server.phase # "stream"
=============================================================================
