----------------------------- MODULE ControlPlane -----------------------------
(***************************************************************************)
(* The lifecycle-management (LCM) API of a set of peers: the middleware    *)
(* wrap with its audit gate and leader routing, the engine calls, the      *)
(* leader-route responder, and the order in which both are closed.         *)
(*                                                                         *)
(* A forwarded request is published once and reaches the subscription of   *)
(* any peer, the forwarder's own included; the peer that takes itself for  *)
(* the leader when its callback runs executes it.  Core NATS may lose a    *)
(* message on its way to any of them, and a reply.  The engine (Manager)   *)
(* is a library: a call starts, and returns a result some time later.      *)
(***************************************************************************)
EXTENDS Integers, FiniteSets, Sequences

CONSTANTS
  Node,         \* the peers
  Req,          \* request slots; a slot is used again once nothing refers to it
  MaxParallel,  \* responderMaxParallel
  RouteModes,   \* values of control.leader_route_mode
  Failing,      \* the peers whose audit sinks may stop accepting records
  Stopping,     \* the peers that may shut down
  None          \* no request, no peer

ASSUME NoneAssumption == None \notin Req \cup Node /\ IsFiniteSet(Node)
ASSUME ParallelAssumption == MaxParallel \in Nat \ {0}
ASSUME ModesAssumption == RouteModes \subseteq {"forward", "redirect"}

VARIABLES
  mode,     \* the route mode, the same on every peer
  leader,   \* IsLeader as each peer sees it: LocalRole = RolePrimary
  sinksUp,  \* both audit sinks of the peer accept records (environment)
  natsBad, historyBad,  \* natsFailures > 0, historyFailures > 0
  lastOK,   \* both sinks took the peer's last record (history variable)
  req,      \* each request, as its receiver sees it
  inbox,    \* the pending messages of each peer's responder subscription
  waiting,  \* the request whose dispatch waits for a slot, or None
  calling,  \* the requests whose engine call runs on the responder's behalf
  ran,      \* the peers on which an engine call for the request has started
  okAt,     \* those on which it returned no error
  steady,   \* no peer's view of the leadership has changed since the
            \* request arrived, and at most one took itself for the leader
  stage     \* "serving", "httpStopped", "closing", "closed"

audit == <<natsBad, historyBad, lastOK>>
queues == <<inbox, waiting, calling>>
effects == <<ran, okAt>>
environment == <<mode, leader, sinksUp, stage, steady>>
vars == <<mode, leader, sinksUp, natsBad, historyBad, lastOK, req, inbox,
          waiting, calling, ran, okAt, steady, stage>>

Kinds == {"leaderOnly", "local", "read"}

\* A slot that is not in use.
Idle == [phase |-> "idle", at |-> None, kind |-> "read",
         forwarded |-> FALSE, reply |-> "", outcome |-> "", code |-> ""]

Leaders == {n \in Node : leader[n]}

Init ==
  /\ mode \in RouteModes
  /\ leader \in [Node -> BOOLEAN]
  /\ sinksUp = [n \in Node |-> TRUE]
  /\ natsBad = [n \in Node |-> FALSE] /\ historyBad = [n \in Node |-> FALSE]
  /\ lastOK = [n \in Node |-> TRUE]
  /\ req = [q \in Req |-> Idle]
  /\ inbox = [n \in Node |-> <<>>]
  /\ waiting = [n \in Node |-> None]
  /\ calling = [n \in Node |-> {}]
  /\ ran = [q \in Req |-> {}] /\ okAt = [q \in Req |-> {}]
  /\ steady = [q \in Req |-> TRUE]
  /\ stage = [n \in Node |-> "serving"]

-----------------------------------------------------------------------------
(* Audit *)

\* Mutant: one counter for both sinks, reset by whichever succeeds.
EmitSharedCounter(n) ==
  \E took \in SUBSET {"nats", "history"} :
    /\ (took = {"nats", "history"}) <=> sinksUp[n]
    /\ natsBad' = [natsBad EXCEPT ![n] = took = {}]
    /\ historyBad' = [historyBad EXCEPT ![n] = took = {}]
    /\ lastOK' = [lastOK EXCEPT ![n] = sinksUp[n]]

\* Emit on peer n: each sink takes the record or not, and its counter is
\* reset or raised.
Emit(n) ==
  \E took \in SUBSET {"nats", "history"} :
    /\ (took = {"nats", "history"}) <=> sinksUp[n]
    /\ natsBad' = [natsBad EXCEPT ![n] = "nats" \notin took]
    /\ historyBad' = [historyBad EXCEPT ![n] = "history" \notin took]
    /\ lastOK' = [lastOK EXCEPT ![n] = sinksUp[n]]

Healthy(n) == ~natsBad[n] /\ ~historyBad[n]

-----------------------------------------------------------------------------
(* The HTTP side *)

\* The receiver has an answer: it audits it and writes the envelope.
Answer(q, outcome, code) ==
  /\ req' = [req EXCEPT ![q].phase = "answered", ![q].outcome = outcome,
                        ![q].code = code]
  /\ Emit(req[q].at)

\* A request of the given kind reaches peer n.
Arrives(q, n, kind, phase) ==
  [Idle EXCEPT !.phase = phase, !.at = n, !.kind = kind,
               !.forwarded = (phase = "forwarded")]

\* wrap, in its order: authentication, the audit gate, leader routing; then
\* the handler's check of the body.  "" lets the request through.
Refusal(n, kind, authorized, bodyOK) ==
  IF ~authorized THEN "auth"
  ELSE IF kind # "read" /\ ~Healthy(n) THEN "audit_unavailable"
  ELSE IF kind = "leaderOnly" /\ ~leader[n] /\ mode = "redirect"
    THEN "leadership_in_transition"  \* LeaderAddr() is always ""
  ELSE IF ~bodyOK THEN "invalid_argument" ELSE ""

\* wrap decides what becomes of a request at peer n: refused, published for
\* the leader, or executed here.
Wrap(q, n, kind, authorized, bodyOK) ==
  LET refusal == Refusal(n, kind, authorized, bodyOK)
  IN
  /\ req[q].phase = "idle" /\ stage[n] = "serving"
  /\ steady' = [steady EXCEPT ![q] = Cardinality(Leaders) <= 1]
  /\ UNCHANGED <<mode, leader, sinksUp, waiting, calling, okAt, stage>>
  /\ \/ /\ refusal # ""
        /\ req' = [req EXCEPT ![q] = [Arrives(q, n, kind, "answered")
                     EXCEPT !.outcome = "rejected", !.code = refusal]]
        /\ Emit(n)
        /\ UNCHANGED <<inbox, ran>>
     \/ /\ refusal = "" /\ kind = "leaderOnly" /\ ~leader[n]
        /\ req' = [req EXCEPT ![q] = Arrives(q, n, kind, "forwarded")]
        /\ \E reached \in SUBSET {m \in Node : stage[m] \in {"serving", "httpStopped"}} :
             inbox' = [m \in Node |-> IF m \in reached THEN Append(inbox[m], q)
                                                       ELSE inbox[m]]
        /\ UNCHANGED <<audit, ran>>
     \/ /\ refusal = "" /\ (kind = "leaderOnly" => leader[n])
        /\ req' = [req EXCEPT ![q] = Arrives(q, n, kind, "engine")]
        /\ ran' = IF kind = "read" THEN ran ELSE [ran EXCEPT ![q] = {n}]
        /\ UNCHANGED <<audit, inbox>>

\* finishMutation: the local engine call is over.
EngineReturns(q, ok) ==
  /\ req[q].phase = "engine"
  /\ IF ok THEN Answer(q, "accepted", "") ELSE Answer(q, "failed", "engine_error")
  /\ okAt' = IF ok THEN [okAt EXCEPT ![q] = @ \cup {req[q].at}] ELSE okAt
  /\ UNCHANGED <<environment, queues, ran>>

\* The handler panics: wrap recovers and refuses.
HandlerPanics(q) ==
  /\ req[q].phase = "engine"
  /\ Answer(q, "rejected", "internal")
  /\ UNCHANGED <<environment, queues, effects>>

\* forwardEngineCall gets a reply, whatever it says, and reports completeOK.
ForwardReturns(q) ==
  /\ req[q].phase = "forwarded" /\ req[q].reply # ""
  /\ Answer(q, "accepted", "")
  /\ UNCHANGED <<environment, queues, effects>>

\* Mutant: the timeout is armed only when a leader is known.
ForwardFailsIfLed(q) ==
  /\ req[q].phase = "forwarded" /\ Leaders # {}
  /\ \E code \in {"leader_route_timeout", "engine_error"} : Answer(q, "failed", code)
  /\ UNCHANGED <<environment, queues, effects>>

\* leader_route_timeout, or the error of a connection without responders.
ForwardFails(q) ==
  /\ req[q].phase = "forwarded"
  /\ \E code \in {"leader_route_timeout", "engine_error"} : Answer(q, "failed", code)
  /\ UNCHANGED <<environment, queues, effects>>

-----------------------------------------------------------------------------
(* The leader-route responder *)

\* Mutant: every peer that receives a forward executes it.
DispatchAnyPeer(n) ==
  /\ inbox[n] # <<>> /\ waiting[n] = None
  /\ inbox' = [inbox EXCEPT ![n] = Tail(@)]
  /\ waiting' = [waiting EXCEPT ![n] = Head(inbox[n])]
  /\ UNCHANGED <<environment, audit, req, calling, effects>>

\* The subscription callback: a peer that is not the leader stays silent, the
\* leader waits for a slot.
Dispatch(n) ==
  /\ inbox[n] # <<>> /\ waiting[n] = None
  /\ inbox' = [inbox EXCEPT ![n] = Tail(@)]
  /\ waiting' = IF leader[n] THEN [waiting EXCEPT ![n] = Head(inbox[n])] ELSE waiting
  /\ UNCHANGED <<environment, audit, req, calling, effects>>

\* m.Respond: only the first reply to reach a forwarder that still waits counts.
Respond(q, outcome) ==
  req' \in {req, IF req[q].phase = "forwarded" /\ req[q].reply = ""
                 THEN [req EXCEPT ![q].reply = outcome] ELSE req}

\* A slot is free.  handle refuses behind a closed audit gate or a bad body,
\* or starts the engine call.
Handle(n, bodyOK) ==
  /\ waiting[n] # None /\ Cardinality(calling[n]) < MaxParallel
  /\ waiting' = [waiting EXCEPT ![n] = None]
  /\ IF Healthy(n) /\ bodyOK
     THEN /\ calling' = [calling EXCEPT ![n] = @ \cup {waiting[n]}]
          /\ ran' = [ran EXCEPT ![waiting[n]] = @ \cup {n}]
          /\ UNCHANGED <<audit, req>>
     ELSE /\ Emit(n)
          /\ Respond(waiting[n], "rejected")
          /\ UNCHANGED <<calling, ran>>
  /\ UNCHANGED <<environment, inbox, okAt>>

\* Mutant: a call that fails keeps its slot.
HandleReturnsLeaks(n, q, ok) ==
  /\ q \in calling[n]
  /\ calling' = IF ok THEN [calling EXCEPT ![n] = @ \ {q}] ELSE calling
  /\ okAt' = IF ok THEN [okAt EXCEPT ![q] = @ \cup {n}] ELSE okAt
  /\ Emit(n)
  /\ Respond(q, IF ok THEN "accepted" ELSE "failed")
  /\ UNCHANGED <<environment, inbox, waiting, ran>>

\* dispatchEngine returns, at the latest at the end of its timeout: audit,
\* reply, and the slot is free again.
HandleReturns(n, q, ok) ==
  /\ q \in calling[n]
  /\ calling' = [calling EXCEPT ![n] = @ \ {q}]
  /\ okAt' = IF ok THEN [okAt EXCEPT ![q] = @ \cup {n}] ELSE okAt
  /\ Emit(n)
  /\ Respond(q, IF ok THEN "accepted" ELSE "failed")
  /\ UNCHANGED <<environment, inbox, waiting, ran>>

-----------------------------------------------------------------------------
(* Shutdown *)

SetStage(n, from, to) ==
  /\ stage[n] = from
  /\ stage' = [stage EXCEPT ![n] = to]
  /\ UNCHANGED <<mode, leader, sinksUp, steady, audit, req, queues, effects>>

\* Step "control": the listener is closed.
StopControl(n) == n \in Stopping /\ SetStage(n, "serving", "httpStopped")

\* Step "leader-route-responder": sub.Drain ends the interest; the callback
\* keeps running for what is pending.
BeginClose(n) == SetStage(n, "httpStopped", "closing")

\* wg.Wait returns: no worker runs at this moment.
CloseReturns(n) == calling[n] = {} /\ SetStage(n, "closing", "closed")

-----------------------------------------------------------------------------
(* The environment *)

\* A promotion or demotion of the local Postgres, or a Status that fails.
LeaderChanges(n) ==
  /\ leader' = [leader EXCEPT ![n] = ~leader[n]]
  /\ steady' = [q \in Req |-> FALSE]
  /\ UNCHANGED <<mode, sinksUp, stage, audit, req, queues, effects>>

\* The NATS connection or the history stream of peer n breaks or comes back.
SinksChange(n) ==
  /\ n \in Failing
  /\ sinksUp' = [sinksUp EXCEPT ![n] = ~sinksUp[n]]
  /\ UNCHANGED <<mode, leader, stage, steady, audit, req, queues, effects>>

Referred(q) ==
  \E n \in Node : q = waiting[n] \/ q \in calling[n]
                  \/ \E i \in 1 .. Len(inbox[n]) : inbox[n][i] = q

\* The slot of an answered request is used again.
Forget(q) ==
  /\ req[q].phase = "answered" /\ ~Referred(q)
  /\ req' = [req EXCEPT ![q] = Idle]
  /\ ran' = [ran EXCEPT ![q] = {}] /\ okAt' = [okAt EXCEPT ![q] = {}]
  /\ UNCHANGED <<environment, audit, queues>>

Next ==
  \/ \E q \in Req :
       \/ \E n \in Node, kind \in Kinds, authorized, bodyOK \in BOOLEAN :
            Wrap(q, n, kind, authorized, bodyOK)
       \/ \E ok \in BOOLEAN : EngineReturns(q, ok)
       \/ HandlerPanics(q) \/ ForwardReturns(q) \/ ForwardFails(q) \/ Forget(q)
  \/ \E n \in Node :
       \/ Dispatch(n)
       \/ \E bodyOK \in BOOLEAN : Handle(n, bodyOK)
       \/ \E q \in Req, ok \in BOOLEAN : HandleReturns(n, q, ok)
       \/ StopControl(n) \/ BeginClose(n) \/ CloseReturns(n)
       \/ LeaderChanges(n) \/ SinksChange(n)

\* Engine calls return, timeouts fire, and the subscription's goroutine runs.
Fairness ==
  /\ \A q \in Req : WF_vars(\E ok \in BOOLEAN : EngineReturns(q, ok))
  /\ \A q \in Req : WF_vars(ForwardFails(q))
  /\ \A n \in Node :
       /\ WF_vars(Dispatch(n))
       /\ WF_vars(\E bodyOK \in BOOLEAN : Handle(n, bodyOK))
       /\ WF_vars(\E q \in Req, ok \in BOOLEAN : HandleReturns(n, q, ok))
       /\ WF_vars(CloseReturns(n))

Spec == Init /\ [][Next]_vars /\ Fairness
-------------------------------------------------------------------------------
(* Properties *)

TypeOK ==
  /\ mode \in RouteModes
  /\ leader \in [Node -> BOOLEAN] /\ sinksUp \in [Node -> BOOLEAN]
  /\ natsBad \in [Node -> BOOLEAN] /\ historyBad \in [Node -> BOOLEAN]
  /\ lastOK \in [Node -> BOOLEAN]
  /\ req \in [Req -> [phase : {"idle", "engine", "forwarded", "answered"},
                      at : Node \cup {None}, kind : Kinds, forwarded : BOOLEAN,
                      reply : {"", "accepted", "rejected", "failed"},
                      outcome : {"", "accepted", "rejected", "failed"},
                      code : {"", "auth", "audit_unavailable",
                              "leadership_in_transition", "invalid_argument",
                              "engine_error", "internal",
                              "leader_route_timeout"}]]
  /\ inbox \in [Node -> Seq(Req)]
  /\ waiting \in [Node -> Req \cup {None}]
  /\ calling \in [Node -> SUBSET Req]
  /\ ran \in [Req -> SUBSET Node] /\ okAt \in [Req -> SUBSET Node]
  /\ steady \in [Req -> BOOLEAN]
  /\ stage \in [Node -> {"serving", "httpStopped", "closing", "closed"}]

\* The engine runs only what the middleware lets through.  A refused request
\* has no engine call anywhere, then or later, unless its handler panicked
\* (wrap's early returns).  A mutating call starts on a peer only if both sinks
\* took the peer's last record: the two counters of the gate, reset and raised
\* one by one from concurrent requests, never open it after a loss (Healthy, Emit).
GateHolds ==
  /\ [](\A q \in Req : req[q].phase = "answered" /\ req[q].outcome = "rejected"
                          /\ req[q].code # "internal" => ran[q] = {})
  /\ [][\A q \in Req, n \in Node : n \in ran'[q] \ ran[q] => lastOK[n]]_vars

\* While the peers agree on at most one leader and no view changes, a request
\* is executed at most once and on the leader, although every peer receives
\* every forward; a forwarder that has timed out does not execute its own
\* forward (dispatch's IsLeader check).
SteadyRunsOnce ==
  \A q \in Req : steady[q] =>
    /\ Cardinality(ran[q]) <= 1
    /\ req[q].kind = "leaderOnly" => ran[q] \subseteq Leaders
    /\ req[q].forwarded => req[q].at \notin ran[q]

\* Every request is answered: engine calls return, and a forward that nobody
\* answers runs into leader_route_timeout (Forward).
AlwaysAnswered ==
  \A q \in Req : req[q].phase \in {"engine", "forwarded"} ~> req[q].phase = "answered"

\* LeaderRouteResponder.Close always returns.
CloseAlwaysReturns == \A n \in Node : stage[n] = "closing" ~> stage[n] = "closed"

\* contracts/lcm.md says of "accepted" that the "engine returned a non-error result".
AcceptedMeansEngineOK ==
  \A q \in Req : req[q].phase = "answered" /\ req[q].outcome = "accepted"
                   /\ req[q].kind # "read" => okAt[q] # {}
===============================================================================
