------------------------- MODULE ControlPlane_proofs -------------------------
(***************************************************************************)
(* Proofs about the control plane for any number of peers and requests,    *)
(* where the runs have two or three of each: the audit gate, and what runs *)
(* a request while the leadership is steady.                               *)
(***************************************************************************)
EXTENDS ControlPlane, FiniteSetTheorems, TLAPS

\* The gate is open exactly on the peers whose last record reached both sinks.
AuditInv == \A n \in Node : Healthy(n) <=> lastOK[n]

\* What the fields of a request say of its engine calls.
ReqInv ==
  \A q \in Req :
    /\ req[q].phase = "idle" => ~req[q].forwarded /\ req[q].kind = "read" /\ ran[q] = {}
    /\ req[q].phase # "idle" => req[q].at \in Node
    /\ req[q].forwarded =>
         /\ req[q].phase \in {"forwarded", "answered"}
         /\ req[q].kind = "leaderOnly" /\ req[q].outcome # "rejected"
    /\ ~req[q].forwarded => ran[q] \subseteq {req[q].at} /\ req[q].phase # "forwarded"
    /\ req[q].phase = "answered" /\ req[q].outcome = "rejected"
         /\ req[q].code # "internal" => ran[q] = {}

\* The responders have forwarded requests only.
QueueInv ==
  \A n \in Node :
    /\ waiting[n] # None => req[waiting[n]].forwarded
    /\ \A q \in calling[n] : req[q].forwarded
    /\ \A i \in 1 .. Len(inbox[n]) : req[inbox[n][i]].forwarded

\* While nobody's view of the leadership changes, only the leader has a call.
SteadyInv ==
  \A q \in Req : steady[q] /\ req[q].phase # "idle" =>
    /\ \A m, n \in Node : leader[m] /\ leader[n] => m = n
    /\ req[q].kind = "leaderOnly" => ran[q] \subseteq Leaders
    /\ \A n \in Node : waiting[n] = q => leader[n]
    /\ req[q].forwarded => ~leader[req[q].at]

CPInv == TypeOK /\ AuditInv /\ ReqInv /\ QueueInv /\ SteadyInv

Requests ==
  [phase : {"idle", "engine", "forwarded", "answered"},
   at : Node \cup {None}, kind : Kinds, forwarded : BOOLEAN,
   reply : {"", "accepted", "rejected", "failed"},
   outcome : {"", "accepted", "rejected", "failed"},
   code : {"", "auth", "audit_unavailable", "leadership_in_transition",
           "invalid_argument", "engine_error", "internal", "leader_route_timeout"}]

-----------------------------------------------------------------------------
(* What the actions have in common *)

\* Cardinality in the model, equality in the proofs.
LEMMA AtMostOne ==
  ASSUME NEW S, IsFiniteSet(S)
  PROVE  Cardinality(S) <= 1 <=> \A x, y \in S : x = y
<1>1. ASSUME Cardinality(S) <= 1, NEW x \in S, NEW y \in S, x # y PROVE FALSE
  <2>1. IsFiniteSet({x}) /\ Cardinality({x}) = 1
    BY FS_Singleton, Zenon
  <2>n. y \notin {x}
    BY <1>1
  <2>2. IsFiniteSet({x} \cup {y}) /\ Cardinality({x} \cup {y}) = 2
    BY <2>n, <2>1, FS_AddElement
  <2>3. Cardinality({x} \cup {y}) <= Cardinality(S)
    BY FS_Subset
  <2>4. Cardinality(S) \in Nat
    BY FS_CardinalityType
  <2> QED
    BY <1>1, <2>2, <2>3, <2>4
<1>2. ASSUME \A x, y \in S : x = y PROVE Cardinality(S) <= 1
  <2>1. CASE S = {}
    BY <2>1, FS_EmptySet
  <2>2. CASE S # {}
    <3>1. PICK x : S = {x}
      BY <1>2, <2>2
    <3> QED
      BY <3>1, FS_Singleton
  <2> QED
    BY <2>1, <2>2
<1> QED
  BY <1>1, <1>2

\* Emit keeps the gate and the history variable together.
LEMMA EmitStep ==
  ASSUME TypeOK, AuditInv, NEW n \in Node, Emit(n)
  PROVE  /\ natsBad' \in [Node -> BOOLEAN] /\ historyBad' \in [Node -> BOOLEAN]
         /\ lastOK' \in [Node -> BOOLEAN]
         /\ AuditInv'
<1>1. PICK took \in SUBSET {"nats", "history"} :
        /\ (took = {"nats", "history"}) <=> sinksUp[n]
        /\ natsBad' = [natsBad EXCEPT ![n] = "nats" \notin took]
        /\ historyBad' = [historyBad EXCEPT ![n] = "history" \notin took]
        /\ lastOK' = [lastOK EXCEPT ![n] = sinksUp[n]]
  BY Zenon DEF Emit
<1>2. /\ natsBad \in [Node -> BOOLEAN] /\ historyBad \in [Node -> BOOLEAN]
      /\ lastOK \in [Node -> BOOLEAN] /\ sinksUp \in [Node -> BOOLEAN]
  BY Zenon DEF TypeOK
<1>3. /\ natsBad' \in [Node -> BOOLEAN] /\ historyBad' \in [Node -> BOOLEAN]
      /\ lastOK' \in [Node -> BOOLEAN]
  BY <1>1, <1>2
<1>4. (took = {"nats", "history"}) <=> ("nats" \in took /\ "history" \in took)
  OBVIOUS
<1>5. ASSUME NEW m \in Node PROVE Healthy(m)' <=> lastOK'[m]
  <2>1. CASE m = n
    <3>1. /\ natsBad'[m] <=> "nats" \notin took
          /\ historyBad'[m] <=> "history" \notin took
          /\ lastOK'[m] <=> sinksUp[n]
      BY <1>1, <1>2, <2>1, Zenon
    <3> QED
      BY <1>1, <1>4, <3>1 DEF Healthy
  <2>2. CASE m # n
    <3>1. /\ natsBad'[m] = natsBad[m] /\ historyBad'[m] = historyBad[m]
          /\ lastOK'[m] = lastOK[m]
      BY <1>1, <1>2, <2>2
    <3> QED
      BY <3>1 DEF Healthy, AuditInv
  <2> QED
    BY <2>1, <2>2
<1> QED
  BY <1>3, <1>5 DEF AuditInv

\* The queues hold requests.
LEMMA QueueTypes ==
  ASSUME TypeOK, NEW n \in Node
  PROVE  /\ waiting[n] # None => waiting[n] \in Req
         /\ calling[n] \subseteq Req
         /\ inbox[n] \in Seq(Req)
         /\ \A i \in 1 .. Len(inbox[n]) : inbox[n][i] \in Req
<1>1. inbox[n] \in Seq(Req)
  BY Zenon DEF TypeOK
<1>2. waiting[n] \in Req \cup {None} /\ calling[n] \subseteq Req
  BY Zenon DEF TypeOK
<1> QED
  BY <1>1, <1>2

\* Answer changes what it is given, in one request.
LEMMA AnswerStep ==
  ASSUME TypeOK, AuditInv, NEW q \in Req, req[q].at \in Node,
         NEW outcome \in {"accepted", "rejected", "failed"},
         NEW code \in {"", "engine_error", "internal", "leader_route_timeout"},
         Answer(q, outcome, code)
  PROVE  /\ req' \in [Req -> Requests]
         /\ \A p \in Req : p # q => req'[p] = req[p]
         /\ req'[q].phase = "answered" /\ req'[q].outcome = outcome
         /\ req'[q].code = code /\ req'[q].at = req[q].at
         /\ req'[q].kind = req[q].kind /\ req'[q].forwarded = req[q].forwarded
         /\ natsBad' \in [Node -> BOOLEAN] /\ historyBad' \in [Node -> BOOLEAN]
         /\ lastOK' \in [Node -> BOOLEAN] /\ AuditInv'
<1>1. req' = [req EXCEPT ![q] = [req[q] EXCEPT !.phase = "answered",
                                   !.outcome = outcome, !.code = code]]
  BY Zenon DEF Answer, TypeOK
<1>2. req \in [Req -> Requests]
  BY Zenon DEF TypeOK, Requests
<1>3. req[q] \in Requests
  BY <1>2, Zenon
<1>4. [req[q] EXCEPT !.phase = "answered", !.outcome = outcome, !.code = code] \in Requests
  BY <1>3, Zenon DEF Requests
<1>5. /\ req' \in [Req -> Requests]
      /\ \A p \in Req : p # q => req'[p] = req[p]
      /\ req'[q] = [req[q] EXCEPT !.phase = "answered", !.outcome = outcome, !.code = code]
  BY <1>1, <1>2, <1>4, Zenon
<1>6. /\ req'[q].phase = "answered" /\ req'[q].outcome = outcome
      /\ req'[q].code = code /\ req'[q].at = req[q].at
      /\ req'[q].kind = req[q].kind /\ req'[q].forwarded = req[q].forwarded
  BY <1>3, <1>5, Zenon DEF Requests
<1>7. Emit(req[q].at)
  BY Zenon DEF Answer
<1> QED
  BY <1>5, <1>6, <1>7, EmitStep, Zenon

\* An answer to a request in progress disturbs no other part of the invariant.
LEMMA AnswerKeeps ==
  ASSUME CPInv, NEW q \in Req, req[q].phase \in {"engine", "forwarded"},
         NEW outcome \in {"accepted", "rejected", "failed"},
         NEW code \in {"", "engine_error", "internal", "leader_route_timeout"},
         outcome = "rejected" => req[q].phase = "engine" /\ code = "internal",
         Answer(q, outcome, code),
         UNCHANGED <<environment, queues, ran>>, okAt' \in [Req -> SUBSET Node]
  PROVE  CPInv'
<1> USE DEF CPInv
<1>1. req[q].phase # "idle" /\ req[q].at \in Node
  BY Zenon DEF ReqInv
<1>2. /\ req' \in [Req -> Requests]
      /\ \A p \in Req : p # q => req'[p] = req[p]
      /\ req'[q].phase = "answered" /\ req'[q].outcome = outcome
      /\ req'[q].code = code /\ req'[q].at = req[q].at
      /\ req'[q].kind = req[q].kind /\ req'[q].forwarded = req[q].forwarded
      /\ natsBad' \in [Node -> BOOLEAN] /\ historyBad' \in [Node -> BOOLEAN]
      /\ lastOK' \in [Node -> BOOLEAN] /\ AuditInv'
  BY <1>1, AnswerStep, Zenon
<1>3. /\ mode' = mode /\ leader' = leader /\ sinksUp' = sinksUp /\ stage' = stage
      /\ steady' = steady /\ inbox' = inbox /\ waiting' = waiting
      /\ calling' = calling /\ ran' = ran
  BY Zenon DEF environment, queues
<1>4. TypeOK'
  BY <1>2, <1>3, Zenon DEF TypeOK, Requests
<1>5. ReqInv'
  <2> SUFFICES ASSUME NEW p \in Req PROVE ReqInv!(p)'
    BY Zenon DEF ReqInv
  <2>1. CASE p # q
    BY <1>2, <1>3, <2>1, Zenon DEF ReqInv
  <2>2. CASE p = q
    BY <1>1, <1>2, <1>3, <2>2, Zenon DEF ReqInv
  <2> QED
    BY <2>1, <2>2, Zenon
<1>6. QueueInv'
  <2>1. \A p \in Req : req'[p].forwarded = req[p].forwarded
    BY <1>2, Zenon
  <2> QED
    BY <1>3, <2>1, QueueTypes, Zenon DEF QueueInv
<1>7. SteadyInv'
  <2> SUFFICES ASSUME NEW p \in Req PROVE SteadyInv!(p)'
    BY Zenon DEF SteadyInv
  <2>1. CASE p # q
    BY <1>2, <1>3, <2>1, ZenonT(40) DEF SteadyInv, Leaders
  <2>2. CASE p = q
    BY <1>1, <1>2, <1>3, <2>2, Zenon DEF SteadyInv, Leaders
  <2> QED
    BY <2>1, <2>2, Zenon
<1> QED
  BY <1>2, <1>4, <1>5, <1>6, <1>7, Zenon

-----------------------------------------------------------------------------
(* The HTTP side *)

\* wrap takes a slot that nothing refers to.
LEMMA WrapStep ==
  ASSUME CPInv, NEW q \in Req, NEW n \in Node, NEW kind \in Kinds,
         NEW authorized \in BOOLEAN, NEW bodyOK \in BOOLEAN,
         Wrap(q, n, kind, authorized, bodyOK)
  PROVE  CPInv'
<1> USE DEF CPInv
<1> DEFINE refusal == Refusal(n, kind, authorized, bodyOK)
           refused == [Arrives(q, n, kind, "answered")
                         EXCEPT !.outcome = "rejected", !.code = refusal]
<1>1. /\ req[q].phase = "idle" /\ ran[q] = {} /\ ~req[q].forwarded
      /\ steady' = [steady EXCEPT ![q] = Cardinality(Leaders) <= 1]
      /\ UNCHANGED <<mode, leader, sinksUp, waiting, calling, okAt, stage>>
  BY Zenon DEF Wrap, ReqInv
<1>2. /\ refusal \in {"", "auth", "audit_unavailable", "leadership_in_transition",
                      "invalid_argument"}
  BY DEF Refusal
<1>3. /\ refused \in Requests
      /\ refused.phase = "answered" /\ refused.at = n /\ ~refused.forwarded
      /\ refused.outcome = "rejected" /\ refused.kind = kind
  BY <1>2, NoneAssumption, Zenon DEF Arrives, Idle, Requests, Kinds
<1>4. \A phase \in {"engine", "forwarded"} :
        LET x == Arrives(q, n, kind, phase)
        IN  /\ x \in Requests /\ x.phase = phase /\ x.at = n /\ x.kind = kind
            /\ x.forwarded <=> phase = "forwarded"
            /\ x.outcome = ""
  BY NoneAssumption, Zenon DEF Arrives, Idle, Requests, Kinds
<1> DEFINE
      Refuse ==
        req' = [req EXCEPT ![q] = refused] /\ Emit(n) /\ inbox' = inbox /\ ran' = ran
      Forward ==
        /\ kind = "leaderOnly" /\ ~leader[n]
        /\ req' = [req EXCEPT ![q] = Arrives(q, n, kind, "forwarded")]
        /\ \E reached \in SUBSET Node :
             inbox' = [m \in Node |-> IF m \in reached THEN Append(inbox[m], q)
                                                       ELSE inbox[m]]
        /\ UNCHANGED audit /\ ran' = ran
      Execute ==
        /\ kind = "leaderOnly" => leader[n]
        /\ req' = [req EXCEPT ![q] = Arrives(q, n, kind, "engine")]
        /\ ran' = ran \/ ran' = [ran EXCEPT ![q] = {n}]
        /\ UNCHANGED audit /\ inbox' = inbox
<1>5. Refuse \/ Forward \/ Execute
  BY Zenon DEF Wrap
<1>6. /\ req \in [Req -> Requests] /\ ran \in [Req -> SUBSET Node]
      /\ steady \in [Req -> BOOLEAN] /\ inbox \in [Node -> Seq(Req)]
      /\ leader \in [Node -> BOOLEAN]
  BY Zenon DEF TypeOK, Requests
<1> HIDE DEF refusal, refused
<1>7. /\ req' \in [Req -> Requests] /\ \A p \in Req : p # q => req'[p] = req[p]
      /\ req'[q].phase # "idle" /\ req'[q].at = n /\ req'[q].kind = kind
      /\ req'[q].forwarded => /\ req'[q].phase = "forwarded" /\ req'[q].outcome = ""
                              /\ kind = "leaderOnly" /\ ~leader[n]
      /\ ~req'[q].forwarded => req'[q].phase # "forwarded"
      /\ ~req'[q].forwarded /\ kind = "leaderOnly" /\ ran'[q] # {} => leader[n]
      /\ req'[q].phase = "answered" => ran'[q] = {}
      /\ req'[q].forwarded => ran'[q] = {}
      /\ inbox' = inbox \/ req'[q].forwarded
  <2>1. CASE Refuse
    BY <1>1, <1>3, <1>6, <2>1, Zenon
  <2>2. CASE Forward
    BY <1>1, <1>4, <1>6, <2>2, Zenon
  <2>3. CASE Execute
    BY <1>1, <1>4, <1>6, <2>3, Zenon
  <2> QED
    BY <1>5, <2>1, <2>2, <2>3, Zenon
<1>8. /\ ran' \in [Req -> SUBSET Node] /\ \A p \in Req : p # q => ran'[p] = ran[p]
      /\ ran'[q] \subseteq {n}
  <2>1. ran[q] = {} /\ {n} \in SUBSET Node
    BY <1>1
  <2>2. CASE ran' = ran
    BY <1>6, <2>1, <2>2
  <2>3. CASE ran' = [ran EXCEPT ![q] = {n}]
    BY <1>6, <2>1, <2>3
  <2> QED
    BY <1>5, <2>2, <2>3
<1>9. /\ steady' \in [Req -> BOOLEAN] /\ \A p \in Req : p # q => steady'[p] = steady[p]
      /\ steady'[q] => \A l, m \in Node : leader[l] /\ leader[m] => l = m
  <2>1. IsFiniteSet(Leaders)
    BY NoneAssumption, FS_Subset DEF Leaders
  <2>2. Cardinality(Leaders) <= 1 <=> \A l, m \in Leaders : l = m
    BY <2>1, AtMostOne
  <2>3. (Cardinality(Leaders) <= 1) \in BOOLEAN
    OBVIOUS
  <2> QED
    BY <1>1, <1>6, <2>2, <2>3, Zenon DEF Leaders
<1>10. \A m \in Node :
         /\ inbox'[m] \in Seq(Req)
         /\ \A i \in 1 .. Len(inbox'[m]) :
              \/ i \in 1 .. Len(inbox[m]) /\ inbox'[m][i] = inbox[m][i]
              \/ inbox'[m][i] = q /\ inbox' # inbox
  <2> TAKE m \in Node
  <2>1. inbox[m] \in Seq(Req)
    BY <1>6
  <2>2. CASE inbox'[m] = inbox[m]
    BY <2>1, <2>2
  <2>3. CASE inbox'[m] = Append(inbox[m], q)
    <3>1. /\ Append(inbox[m], q) \in Seq(Req)
          /\ \A i \in 1 .. Len(Append(inbox[m], q)) :
               \/ i \in 1 .. Len(inbox[m]) /\ Append(inbox[m], q)[i] = inbox[m][i]
               \/ Append(inbox[m], q)[i] = q
          /\ Len(Append(inbox[m], q)) # Len(inbox[m])
      BY <2>1
    <3> QED
      BY <2>3, <3>1
  <2>4. inbox'[m] = inbox[m] \/ inbox'[m] = Append(inbox[m], q)
    BY <1>5
  <2> QED
    BY <2>2, <2>3, <2>4
<1>11. /\ natsBad' \in [Node -> BOOLEAN] /\ historyBad' \in [Node -> BOOLEAN]
       /\ lastOK' \in [Node -> BOOLEAN] /\ AuditInv'
  <2>1. CASE UNCHANGED audit
    BY <2>1, Zenon DEF audit, TypeOK, AuditInv, Healthy
  <2>2. CASE Emit(n)
    BY <2>2, EmitStep
  <2> QED
    BY <1>5, <2>1, <2>2
<1>12. TypeOK'
  <2>1. inbox' \in [Node -> Seq(Req)]
    BY <1>5, <1>6, <1>10
  <2> QED
    BY <1>1, <1>7, <1>8, <1>9, <1>11, <2>1, Zenon DEF TypeOK, Requests
<1>13. ReqInv'
  <2> SUFFICES ASSUME NEW p \in Req PROVE ReqInv!(p)'
    BY DEF ReqInv
  <2>1. CASE p # q
    BY <1>7, <1>8, <2>1, Zenon DEF ReqInv
  <2>2. CASE p = q
    BY <1>7, <1>8, <2>2, Zenon DEF ReqInv
  <2> QED
    BY <2>1, <2>2
<1>14. QueueInv'
  <2> SUFFICES ASSUME NEW m \in Node PROVE QueueInv!(m)'
    BY DEF QueueInv
  <2>1. /\ waiting[m] # None => waiting[m] # q
        /\ q \notin calling[m]
        /\ \A i \in 1 .. Len(inbox[m]) : inbox[m][i] # q
    BY <1>1, QueueTypes DEF QueueInv
  <2>2. \A i \in 1 .. Len(inbox'[m]) : req'[inbox'[m][i]].forwarded
    <3> TAKE i \in 1 .. Len(inbox'[m])
    <3>1. CASE i \in 1 .. Len(inbox[m]) /\ inbox'[m][i] = inbox[m][i]
      <4>1. inbox[m][i] \in Req /\ inbox[m][i] # q
        BY <2>1, <3>1, QueueTypes
      <4>2. req[inbox[m][i]].forwarded
        BY <3>1 DEF QueueInv
      <4> QED
        BY <1>7, <3>1, <4>1, <4>2, Zenon
    <3>2. CASE inbox'[m][i] = q /\ inbox' # inbox
      BY <1>7, <3>2, Zenon
    <3> QED
      BY <1>10, <3>1, <3>2
  <2> QED
    BY <1>1, <1>7, <2>1, <2>2, QueueTypes, Zenon DEF QueueInv
<1>15. SteadyInv'
  <2> SUFFICES ASSUME NEW p \in Req PROVE SteadyInv!(p)'
    BY DEF SteadyInv
  <2>1. CASE p # q
    BY <1>1, <1>7, <1>8, <1>9, <2>1, ZenonT(40) DEF SteadyInv, Leaders
  <2>2. CASE p = q
    <3>1. \A m \in Node : waiting[m] # q
      BY <1>1, NoneAssumption DEF QueueInv
    <3> QED
      BY <1>1, <1>7, <1>8, <1>9, <2>2, <3>1, Zenon DEF SteadyInv, Leaders
  <2> QED
    BY <2>1, <2>2
<1> QED
  BY <1>11, <1>12, <1>13, <1>14, <1>15

\* The other steps of the HTTP side.
LEMMA EngineReturnsStep ==
  ASSUME CPInv, NEW q \in Req, NEW ok \in BOOLEAN, EngineReturns(q, ok)
  PROVE  CPInv'
<1>1. req[q].phase = "engine" /\ UNCHANGED <<environment, queues, ran>>
  BY Zenon DEF EngineReturns
<1>2. okAt' \in [Req -> SUBSET Node]
  <2>1. req[q].at \in Node /\ okAt \in [Req -> SUBSET Node]
    BY <1>1, Zenon DEF CPInv, ReqInv, TypeOK
  <2>2. okAt' = okAt \/ okAt' = [okAt EXCEPT ![q] = okAt[q] \cup {req[q].at}]
    BY Zenon DEF EngineReturns
  <2> QED
    BY <2>1, <2>2
<1>3. Answer(q, "accepted", "") \/ Answer(q, "failed", "engine_error")
  BY Zenon DEF EngineReturns
<1> QED
  BY <1>1, <1>2, <1>3, AnswerKeeps, Zenon

\* The recover of wrap.
LEMMA HandlerPanicsStep ==
  ASSUME CPInv, NEW q \in Req, HandlerPanics(q)
  PROVE  CPInv'
<1>1. req[q].phase = "engine" /\ UNCHANGED <<environment, queues, ran>>
  BY DEF HandlerPanics, effects
<1>2. okAt' \in [Req -> SUBSET Node]
  BY Zenon DEF HandlerPanics, effects, CPInv, TypeOK
<1>3. Answer(q, "rejected", "internal")
  BY DEF HandlerPanics
<1> QED
  BY <1>1, <1>2, <1>3, AnswerKeeps, Zenon

\* A forward ends with a reply or without one.
LEMMA ForwardStep ==
  ASSUME CPInv, NEW q \in Req, ForwardReturns(q) \/ ForwardFails(q)
  PROVE  CPInv'
<1>1. req[q].phase = "forwarded" /\ UNCHANGED <<environment, queues, ran>>
  BY Zenon DEF ForwardReturns, ForwardFails, effects
<1>2. okAt' \in [Req -> SUBSET Node]
  BY Zenon DEF ForwardReturns, ForwardFails, effects, CPInv, TypeOK
<1>3. \/ Answer(q, "accepted", "")
      \/ Answer(q, "failed", "leader_route_timeout") \/ Answer(q, "failed", "engine_error")
  BY Zenon DEF ForwardReturns, ForwardFails
<1> QED
  BY <1>1, <1>2, <1>3, AnswerKeeps, Zenon

\* The slot of a request that is over is free again.
LEMMA ForgetStep ==
  ASSUME CPInv, NEW q \in Req, Forget(q)
  PROVE  CPInv'
<1> USE DEF CPInv
<1>1. /\ ~Referred(q)
      /\ req' = [req EXCEPT ![q] = Idle]
      /\ ran' = [ran EXCEPT ![q] = {}] /\ okAt' = [okAt EXCEPT ![q] = {}]
      /\ mode' = mode /\ leader' = leader /\ sinksUp' = sinksUp /\ stage' = stage
      /\ steady' = steady /\ inbox' = inbox /\ waiting' = waiting /\ calling' = calling
      /\ natsBad' = natsBad /\ historyBad' = historyBad /\ lastOK' = lastOK
  BY DEF Forget, environment, audit, queues
<1>2. /\ req \in [Req -> Requests] /\ ran \in [Req -> SUBSET Node]
      /\ okAt \in [Req -> SUBSET Node]
  BY Zenon DEF TypeOK, Requests
<1>3. /\ Idle \in Requests /\ Idle.phase = "idle" /\ Idle.kind = "read"
      /\ ~Idle.forwarded
  BY DEF Idle, Requests, Kinds
<1>4. /\ req' \in [Req -> Requests] /\ ran' \in [Req -> SUBSET Node]
      /\ okAt' \in [Req -> SUBSET Node]
      /\ \A p \in Req : p # q => req'[p] = req[p] /\ ran'[p] = ran[p]
      /\ req'[q] = Idle /\ ran'[q] = {}
  BY <1>1, <1>2, <1>3
<1>5. TypeOK'
  BY <1>1, <1>4, Zenon DEF TypeOK, Requests
<1>6. AuditInv'
  BY <1>1 DEF AuditInv, Healthy
<1>7. ReqInv'
  <2> SUFFICES ASSUME NEW p \in Req PROVE ReqInv!(p)'
    BY DEF ReqInv
  <2>1. CASE p # q
    BY <1>4, <2>1 DEF ReqInv
  <2>2. CASE p = q
    BY <1>3, <1>4, <2>2 DEF ReqInv
  <2> QED
    BY <2>1, <2>2
<1>8. QueueInv'
  <2> SUFFICES ASSUME NEW m \in Node PROVE QueueInv!(m)'
    BY DEF QueueInv
  <2>1. /\ waiting[m] # q /\ q \notin calling[m]
        /\ \A i \in 1 .. Len(inbox[m]) : inbox[m][i] # q
    BY <1>1 DEF Referred
  <2>2. \A p \in Req : p # q /\ req[p].forwarded => req'[p].forwarded
    BY <1>4
  <2>3. \A i \in 1 .. Len(inbox[m]) : req'[inbox[m][i]].forwarded
    <3> TAKE i \in 1 .. Len(inbox[m])
    <3>1. inbox[m][i] \in Req /\ inbox[m][i] # q /\ req[inbox[m][i]].forwarded
      BY <2>1, QueueTypes DEF QueueInv
    <3> QED
      BY <2>2, <3>1
  <2> QED
    BY <1>1, <2>1, <2>2, <2>3, QueueTypes DEF QueueInv
<1>9. SteadyInv'
  <2> SUFFICES ASSUME NEW p \in Req PROVE SteadyInv!(p)'
    BY DEF SteadyInv
  <2>1. CASE p # q
    BY <1>1, <1>4, <2>1 DEF SteadyInv, Leaders
  <2>2. CASE p = q
    BY <1>3, <1>4, <2>2 DEF SteadyInv
  <2> QED
    BY <2>1, <2>2
<1> QED
  BY <1>5, <1>6, <1>7, <1>8, <1>9

-----------------------------------------------------------------------------
(* The leader-route responder *)

\* A reply changes only the reply field of the request.
LEMMA RespondStep ==
  ASSUME TypeOK, NEW q \in Req, NEW outcome \in {"accepted", "rejected", "failed"},
         Respond(q, outcome)
  PROVE  /\ req' \in [Req -> Requests]
         /\ \A p \in Req : /\ req'[p].phase = req[p].phase /\ req'[p].at = req[p].at
                           /\ req'[p].kind = req[p].kind
                           /\ req'[p].forwarded = req[p].forwarded
                           /\ req'[p].outcome = req[p].outcome
                           /\ req'[p].code = req[p].code
<1>1. req \in [Req -> Requests]
  BY Zenon DEF TypeOK, Requests
<1>2. CASE req' = req
  BY <1>1, <1>2
<1>3. CASE req' = [req EXCEPT ![q].reply = outcome]
  <2>1. req[q] \in Requests
    BY <1>1
  <2>2. [req[q] EXCEPT !.reply = outcome] \in Requests
    BY <2>1, Zenon DEF Requests
  <2>3. /\ req' \in [Req -> Requests] /\ req'[q] = [req[q] EXCEPT !.reply = outcome]
        /\ \A p \in Req : p # q => req'[p] = req[p]
    BY <1>1, <1>3, <2>2
  <2>4. /\ req'[q].phase = req[q].phase /\ req'[q].at = req[q].at
        /\ req'[q].kind = req[q].kind /\ req'[q].forwarded = req[q].forwarded
        /\ req'[q].outcome = req[q].outcome /\ req'[q].code = req[q].code
    BY <2>1, <2>3, Zenon DEF Requests
  <2> QED
    BY <2>3, <2>4, Zenon
<1> QED
  BY <1>2, <1>3, Zenon DEF Respond

\* The subscription callback.
LEMMA DispatchStep ==
  ASSUME CPInv, NEW n \in Node, Dispatch(n)
  PROVE  CPInv'
<1> USE DEF CPInv
<1>1. /\ inbox[n] # <<>> /\ waiting[n] = None
      /\ inbox' = [inbox EXCEPT ![n] = Tail(inbox[n])]
      /\ waiting' = IF leader[n] THEN [waiting EXCEPT ![n] = Head(inbox[n])] ELSE waiting
      /\ mode' = mode /\ leader' = leader /\ sinksUp' = sinksUp /\ stage' = stage
      /\ steady' = steady /\ natsBad' = natsBad /\ historyBad' = historyBad
      /\ lastOK' = lastOK /\ req' = req /\ calling' = calling
      /\ ran' = ran /\ okAt' = okAt
  BY DEF Dispatch, environment, audit, effects
<1>2. inbox \in [Node -> Seq(Req)] /\ waiting \in [Node -> Req \cup {None}]
  BY Zenon DEF TypeOK
<1>3. /\ inbox[n] \in Seq(Req) /\ Len(inbox[n]) \in Nat \ {0}
      /\ Head(inbox[n]) = inbox[n][1] /\ Head(inbox[n]) \in Req
      /\ Tail(inbox[n]) \in Seq(Req)
      /\ \A i \in 1 .. Len(Tail(inbox[n])) :
           i + 1 \in 1 .. Len(inbox[n]) /\ Tail(inbox[n])[i] = inbox[n][i + 1]
  <2>1. inbox[n] \in Seq(Req)
    BY <1>2
  <2>2. Len(inbox[n]) \in Nat \ {0}
    BY <1>1, <2>1
  <2> QED
    BY <1>1, <2>1, <2>2
<1>4. /\ inbox' \in [Node -> Seq(Req)] /\ waiting' \in [Node -> Req \cup {None}]
      /\ \A m \in Node : m # n => inbox'[m] = inbox[m] /\ waiting'[m] = waiting[m]
      /\ inbox'[n] = Tail(inbox[n])
      /\ (waiting'[n] = None \/ (waiting'[n] = inbox[n][1] /\ leader[n]))
  <2>1. /\ inbox' \in [Node -> Seq(Req)] /\ inbox'[n] = Tail(inbox[n])
        /\ \A m \in Node : m # n => inbox'[m] = inbox[m]
    BY <1>1, <1>2, <1>3
  <2>2. CASE leader[n]
    <3>1. waiting' = [waiting EXCEPT ![n] = Head(inbox[n])]
      BY <1>1, <2>2
    <3> QED
      BY <1>2, <1>3, <2>1, <2>2, <3>1
  <2>3. CASE ~leader[n]
    <3>1. waiting' = waiting /\ waiting[n] = None
      BY <2>3 DEF Dispatch
    <3>2. waiting' \in [Node -> Req \cup {None}] /\ waiting'[n] = None
      BY <1>2, <3>1
    <3>3. \A m \in Node : waiting'[m] = waiting[m]
      BY <3>1
    <3> QED
      BY <2>1, <3>2, <3>3
  <2> QED
    BY <2>2, <2>3
<1>5. TypeOK'
  BY <1>1, <1>4, Zenon DEF TypeOK
<1>6. AuditInv' /\ ReqInv'
  BY <1>1 DEF AuditInv, Healthy, ReqInv
<1>7. QueueInv'
  <2> SUFFICES ASSUME NEW m \in Node PROVE QueueInv!(m)'
    BY DEF QueueInv
  <2>1. CASE m # n
    BY <1>1, <1>4, <2>1 DEF QueueInv
  <2>2. CASE m = n
    <3>1. \A i \in 1 .. Len(inbox[n]) : req[inbox[n][i]].forwarded
      BY DEF QueueInv
    <3>2. \A i \in 1 .. Len(Tail(inbox[n])) : req[Tail(inbox[n])[i]].forwarded
      BY <1>3, <3>1
    <3>0. req[inbox[n][1]].forwarded
      BY <1>3, <3>1
    <3>3. waiting'[n] # None => req[waiting'[n]].forwarded
      BY <1>4, <3>0
    <3>4. \A q \in calling[n] : req[q].forwarded
      BY DEF QueueInv
    <3> QED
      BY <1>1, <1>4, <2>2, <3>2, <3>3, <3>4
  <2> QED
    BY <2>1, <2>2
<1>8. SteadyInv'
  BY <1>1, <1>4, NoneAssumption DEF SteadyInv, Leaders
<1> QED
  BY <1>5, <1>6, <1>7, <1>8

\* A slot is free for the request that waited.
LEMMA HandleStep ==
  ASSUME CPInv, NEW n \in Node, NEW bodyOK \in BOOLEAN, Handle(n, bodyOK)
  PROVE  CPInv'
<1> USE DEF CPInv
<1> DEFINE q == waiting[n]
<1>1. /\ waiting[n] # None /\ waiting' = [waiting EXCEPT ![n] = None]
      /\ mode' = mode /\ leader' = leader /\ sinksUp' = sinksUp /\ stage' = stage
      /\ steady' = steady /\ inbox' = inbox /\ okAt' = okAt
  BY DEF Handle, environment
<1>2. /\ q \in Req /\ req[q].forwarded /\ req[q].phase # "idle"
      /\ req[q].kind = "leaderOnly" /\ req[q].outcome # "rejected"
  BY <1>1, QueueTypes DEF QueueInv, ReqInv
<1>3. /\ waiting' \in [Node -> Req \cup {None}] /\ waiting'[n] = None
      /\ \A m \in Node : m # n => waiting'[m] = waiting[m]
  BY <1>1, Zenon DEF TypeOK
<1>4. \/ /\ calling' = [calling EXCEPT ![n] = calling[n] \cup {q}]
         /\ ran' = [ran EXCEPT ![q] = ran[q] \cup {n}]
         /\ natsBad' = natsBad /\ historyBad' = historyBad /\ lastOK' = lastOK
         /\ req' = req
      \/ Emit(n) /\ Respond(q, "rejected") /\ calling' = calling /\ ran' = ran
  BY DEF Handle, audit
<1> HIDE DEF q
<1>5. /\ req' \in [Req -> Requests]
      /\ \A p \in Req : /\ req'[p].phase = req[p].phase /\ req'[p].at = req[p].at
                        /\ req'[p].kind = req[p].kind
                        /\ req'[p].forwarded = req[p].forwarded
                        /\ req'[p].outcome = req[p].outcome
                        /\ req'[p].code = req[p].code
  <2>1. CASE req' = req
    BY <2>1, Zenon DEF TypeOK, Requests
  <2>2. CASE Respond(q, "rejected")
    BY <1>2, <2>2, RespondStep
  <2> QED
    BY <1>4, <2>1, <2>2
<1>6. /\ natsBad' \in [Node -> BOOLEAN] /\ historyBad' \in [Node -> BOOLEAN]
      /\ lastOK' \in [Node -> BOOLEAN] /\ AuditInv'
  <2>1. CASE natsBad' = natsBad /\ historyBad' = historyBad /\ lastOK' = lastOK
    BY <2>1, Zenon DEF TypeOK, AuditInv, Healthy
  <2>2. CASE Emit(n)
    BY <2>2, EmitStep
  <2> QED
    BY <1>4, <2>1, <2>2
<1>7. /\ calling' \in [Node -> SUBSET Req] /\ ran' \in [Req -> SUBSET Node]
      /\ \A m \in Node : calling'[m] \subseteq calling[m] \cup {q}
      /\ \A p \in Req : p # q => ran'[p] = ran[p]
      /\ ran'[q] \subseteq ran[q] \cup {n}
  <2>1. calling \in [Node -> SUBSET Req] /\ ran \in [Req -> SUBSET Node]
    BY Zenon DEF TypeOK
  <2>2. CASE calling' = calling /\ ran' = ran
    BY <2>1, <2>2
  <2>3. CASE /\ calling' = [calling EXCEPT ![n] = calling[n] \cup {q}]
             /\ ran' = [ran EXCEPT ![q] = ran[q] \cup {n}]
    <3>1. calling[n] \cup {q} \in SUBSET Req /\ ran[q] \cup {n} \in SUBSET Node
      BY <1>2, <2>1
    <3> QED
      BY <1>2, <2>1, <2>3, <3>1
  <2> QED
    BY <1>4, <2>2, <2>3
<1>8. TypeOK'
  BY <1>1, <1>3, <1>5, <1>6, <1>7, Zenon DEF TypeOK, Requests
<1>9. ReqInv'
  <2> SUFFICES ASSUME NEW p \in Req PROVE ReqInv!(p)'
    BY DEF ReqInv
  <2>1. CASE p # q
    BY <1>5, <1>7, <2>1 DEF ReqInv
  <2>2. CASE p = q
    BY <1>2, <1>5, <2>2 DEF ReqInv
  <2> QED
    BY <2>1, <2>2
<1>10. QueueInv'
  <2> SUFFICES ASSUME NEW m \in Node PROVE QueueInv!(m)'
    BY DEF QueueInv
  <2>1. \A i \in 1 .. Len(inbox[m]) : req'[inbox[m][i]].forwarded
    BY <1>5, QueueTypes DEF QueueInv
  <2>2. waiting'[m] # None => req'[waiting'[m]].forwarded
    BY <1>3, <1>5, QueueTypes DEF QueueInv
  <2>3. \A p \in calling'[m] : req'[p].forwarded
    BY <1>2, <1>5, <1>7, QueueTypes DEF QueueInv
  <2> QED
    BY <1>1, <2>1, <2>2, <2>3
<1>11. SteadyInv'
  <2> SUFFICES ASSUME NEW p \in Req PROVE SteadyInv!(p)'
    BY DEF SteadyInv
  <2>1. CASE p # q
    BY <1>1, <1>3, <1>5, <1>7, <2>1, NoneAssumption DEF SteadyInv, Leaders
  <2>2. CASE p = q
    <3>1. steady[q] => leader[n]
      BY <1>2 DEF SteadyInv, q
    <3> QED
      BY <1>1, <1>2, <1>3, <1>5, <1>7, <2>2, <3>1, NoneAssumption DEF SteadyInv, Leaders
  <2> QED
    BY <2>1, <2>2
<1> QED
  BY <1>6, <1>8, <1>9, <1>10, <1>11

\* The engine call of a forward returns.
LEMMA HandleReturnsStep ==
  ASSUME CPInv, NEW n \in Node, NEW q \in Req, NEW ok \in BOOLEAN, HandleReturns(n, q, ok)
  PROVE  CPInv'
<1> USE DEF CPInv
<1>1. /\ calling' = [calling EXCEPT ![n] = calling[n] \ {q}]
      /\ okAt' = okAt \/ okAt' = [okAt EXCEPT ![q] = okAt[q] \cup {n}]
      /\ Emit(n)
      /\ mode' = mode /\ leader' = leader /\ sinksUp' = sinksUp /\ stage' = stage
      /\ steady' = steady /\ inbox' = inbox /\ waiting' = waiting /\ ran' = ran
  BY DEF HandleReturns, environment
<1>2. Respond(q, "accepted") \/ Respond(q, "failed")
  BY DEF HandleReturns
<1>3. /\ req' \in [Req -> Requests]
      /\ \A p \in Req : /\ req'[p].phase = req[p].phase /\ req'[p].at = req[p].at
                        /\ req'[p].kind = req[p].kind
                        /\ req'[p].forwarded = req[p].forwarded
                        /\ req'[p].outcome = req[p].outcome
                        /\ req'[p].code = req[p].code
  BY <1>2, RespondStep
<1>4. /\ natsBad' \in [Node -> BOOLEAN] /\ historyBad' \in [Node -> BOOLEAN]
      /\ lastOK' \in [Node -> BOOLEAN] /\ AuditInv'
  BY <1>1, EmitStep
<1>5. /\ calling' \in [Node -> SUBSET Req]
      /\ \A m \in Node : calling'[m] \subseteq calling[m]
  BY <1>1, Zenon DEF TypeOK
<1>6. okAt' \in [Req -> SUBSET Node]
  <2>1. okAt \in [Req -> SUBSET Node] /\ okAt[q] \cup {n} \in SUBSET Node
    BY Zenon DEF TypeOK
  <2>2. CASE okAt' = okAt
    BY <2>1, <2>2
  <2>3. CASE okAt' = [okAt EXCEPT ![q] = okAt[q] \cup {n}]
    BY <2>1, <2>3
  <2> QED
    BY <1>1, <2>2, <2>3
<1>7. TypeOK'
  BY <1>1, <1>3, <1>4, <1>5, <1>6, ZenonT(40) DEF TypeOK, Requests
<1>8. ReqInv'
  BY <1>1, <1>3 DEF ReqInv
<1>9. QueueInv'
  <2> SUFFICES ASSUME NEW m \in Node PROVE QueueInv!(m)'
    BY DEF QueueInv
  <2>1. \A i \in 1 .. Len(inbox[m]) : req'[inbox[m][i]].forwarded
    BY <1>3, QueueTypes DEF QueueInv
  <2>2. waiting[m] # None => req'[waiting[m]].forwarded
    BY <1>3, QueueTypes DEF QueueInv
  <2>3. \A p \in calling'[m] : req'[p].forwarded
    BY <1>3, <1>5, QueueTypes DEF QueueInv
  <2> QED
    BY <1>1, <2>1, <2>2, <2>3
<1>10. SteadyInv'
  BY <1>1, <1>3 DEF SteadyInv, Leaders
<1> QED
  BY <1>4, <1>7, <1>8, <1>9, <1>10

-----------------------------------------------------------------------------
(* Shutdown and the environment *)

\* No step of the shutdown touches a request.
LEMMA StageStep ==
  ASSUME CPInv, NEW n \in Node, StopControl(n) \/ BeginClose(n) \/ CloseReturns(n)
  PROVE  CPInv'
<1>0. /\ \E s \in {"serving", "httpStopped", "closing", "closed"} : stage' = [stage EXCEPT ![n] = s]
      /\ UNCHANGED <<mode, leader, sinksUp, steady, audit, req, queues, effects>>
  BY DEF StopControl, BeginClose, CloseReturns, SetStage
<1>1. /\ stage' \in [Node -> {"serving", "httpStopped", "closing", "closed"}]
      /\ UNCHANGED <<mode, leader, sinksUp, steady, audit, req, queues, effects>>
  BY <1>0 DEF CPInv, TypeOK
<1>2. /\ mode' = mode /\ leader' = leader /\ sinksUp' = sinksUp /\ steady' = steady
      /\ natsBad' = natsBad /\ historyBad' = historyBad /\ lastOK' = lastOK
      /\ req' = req /\ inbox' = inbox /\ waiting' = waiting /\ calling' = calling
      /\ ran' = ran /\ okAt' = okAt
  BY <1>1 DEF audit, queues, effects
<1>3. TypeOK'
  BY <1>1, <1>2, Zenon DEF CPInv, TypeOK
<1>4. AuditInv' /\ ReqInv' /\ QueueInv'
  BY <1>2, SMTT(30) DEF CPInv, AuditInv, Healthy, ReqInv, QueueInv
<1>5. SteadyInv'
  BY <1>2, Zenon DEF CPInv, SteadyInv, Leaders
<1> QED
  BY <1>3, <1>4, <1>5 DEF CPInv

\* A change of leadership ends the steadiness of every request.
LEMMA LeaderStep ==
  ASSUME CPInv, NEW n \in Node, LeaderChanges(n)
  PROVE  CPInv'
<1>1. /\ leader' \in [Node -> BOOLEAN] /\ steady' \in [Req -> BOOLEAN]
      /\ \A q \in Req : ~steady'[q]
  BY Zenon DEF LeaderChanges, CPInv, TypeOK
<1>2. /\ mode' = mode /\ sinksUp' = sinksUp /\ stage' = stage
      /\ natsBad' = natsBad /\ historyBad' = historyBad /\ lastOK' = lastOK
      /\ req' = req /\ inbox' = inbox /\ waiting' = waiting /\ calling' = calling
      /\ ran' = ran /\ okAt' = okAt
  BY DEF LeaderChanges, audit, queues, effects
<1>3. TypeOK'
  BY <1>1, <1>2, ZenonT(40) DEF CPInv, TypeOK
<1>4. AuditInv' /\ ReqInv' /\ QueueInv'
  BY <1>2 DEF CPInv, AuditInv, Healthy, ReqInv, QueueInv
<1>5. SteadyInv'
  BY <1>1 DEF SteadyInv
<1> QED
  BY <1>3, <1>4, <1>5 DEF CPInv

\* The gate looks at records, not at the sinks.
LEMMA SinksStep ==
  ASSUME CPInv, NEW n \in Node, SinksChange(n)
  PROVE  CPInv'
<1>1. sinksUp' \in [Node -> BOOLEAN]
  BY Zenon DEF SinksChange, CPInv, TypeOK
<1>2. /\ mode' = mode /\ leader' = leader /\ stage' = stage /\ steady' = steady
      /\ natsBad' = natsBad /\ historyBad' = historyBad /\ lastOK' = lastOK
      /\ req' = req /\ inbox' = inbox /\ waiting' = waiting /\ calling' = calling
      /\ ran' = ran /\ okAt' = okAt
  BY DEF SinksChange, audit, queues, effects
<1>3. TypeOK'
  BY <1>1, <1>2, ZenonT(40) DEF CPInv, TypeOK
<1>4. AuditInv' /\ ReqInv' /\ QueueInv'
  BY <1>2, ZenonT(40) DEF CPInv, AuditInv, Healthy, ReqInv, QueueInv
<1>5. SteadyInv'
  BY <1>2, Zenon DEF CPInv, SteadyInv, Leaders
<1> QED
  BY <1>3, <1>4, <1>5 DEF CPInv

-----------------------------------------------------------------------------
(* The theorems *)

\* CPInv holds at the start.
LEMMA CPInit == Init => CPInv
<1> SUFFICES ASSUME Init PROVE CPInv
  OBVIOUS
<1>1. Idle \in Requests
  BY DEF Idle, Requests, Kinds
<1>2. \A q \in Req : req[q] = Idle
  BY DEF Init
<1>3. <<>> \in Seq(Req)
  OBVIOUS
<1>4. TypeOK
  <2>1. /\ mode \in RouteModes /\ leader \in [Node -> BOOLEAN]
        /\ sinksUp \in [Node -> BOOLEAN] /\ natsBad \in [Node -> BOOLEAN]
        /\ historyBad \in [Node -> BOOLEAN] /\ lastOK \in [Node -> BOOLEAN]
        /\ steady \in [Req -> BOOLEAN]
        /\ stage \in [Node -> {"serving", "httpStopped", "closing", "closed"}]
    BY DEF Init
  <2>2. req \in [Req -> Requests]
    BY <1>1 DEF Init
  <2>3. /\ inbox \in [Node -> Seq(Req)] /\ waiting \in [Node -> Req \cup {None}]
        /\ calling \in [Node -> SUBSET Req]
        /\ ran \in [Req -> SUBSET Node] /\ okAt \in [Req -> SUBSET Node]
    BY <1>3 DEF Init
  <2> QED
    BY <2>1, <2>2, <2>3, Zenon DEF TypeOK, Requests
<1>5. AuditInv
  BY DEF Init, AuditInv, Healthy
<1>6. ReqInv
  BY <1>2, Zenon DEF Init, ReqInv, Idle
<1>7. QueueInv
  <2> SUFFICES ASSUME NEW n \in Node PROVE QueueInv!(n)
    BY DEF QueueInv
  <2>1. waiting[n] = None /\ calling[n] = {} /\ inbox[n] = <<>>
    BY DEF Init
  <2>2. Len(inbox[n]) = 0
    BY <2>1
  <2> QED
    BY <2>1, <2>2
<1>8. SteadyInv
  <2>0. Idle.phase = "idle"
    BY DEF Idle
  <2>1. \A q \in Req : req[q].phase = "idle"
    BY <1>2, <2>0
  <2> QED
    BY <2>1 DEF SteadyInv
<1> QED
  BY <1>4, <1>5, <1>6, <1>7, <1>8 DEF CPInv

\* CPInv is inductive.
LEMMA CPStep ==
  ASSUME CPInv, [Next]_vars
  PROVE  CPInv'
<1>1. CASE UNCHANGED vars
  <2>1. /\ mode' = mode /\ leader' = leader /\ sinksUp' = sinksUp /\ stage' = stage
        /\ natsBad' = natsBad /\ historyBad' = historyBad /\ lastOK' = lastOK
        /\ req' = req /\ inbox' = inbox /\ waiting' = waiting /\ calling' = calling
        /\ ran' = ran /\ okAt' = okAt /\ steady' = steady
    BY <1>1 DEF vars
  <2> QED
    <3>1. TypeOK'
      BY <2>1, ZenonT(40) DEF CPInv, TypeOK
    <3>2. AuditInv' /\ ReqInv' /\ QueueInv' /\ SteadyInv'
      BY <2>1 DEF CPInv, AuditInv, Healthy, ReqInv, QueueInv, SteadyInv, Leaders
    <3> QED
      BY <3>1, <3>2 DEF CPInv
<1>2. CASE \E q \in Req :
             \/ \E n \in Node, kind \in Kinds, authorized, bodyOK \in BOOLEAN :
                  Wrap(q, n, kind, authorized, bodyOK)
             \/ \E ok \in BOOLEAN : EngineReturns(q, ok)
             \/ HandlerPanics(q) \/ ForwardReturns(q) \/ ForwardFails(q) \/ Forget(q)
  BY <1>2, WrapStep, EngineReturnsStep, HandlerPanicsStep, ForwardStep, ForgetStep
<1>3. CASE \E n \in Node :
             \/ Dispatch(n)
             \/ \E bodyOK \in BOOLEAN : Handle(n, bodyOK)
             \/ \E q \in Req, ok \in BOOLEAN : HandleReturns(n, q, ok)
             \/ StopControl(n) \/ BeginClose(n) \/ CloseReturns(n)
             \/ LeaderChanges(n) \/ SinksChange(n)
  BY <1>3, DispatchStep, HandleStep, HandleReturnsStep, StageStep, LeaderStep, SinksStep
<1> QED
  BY <1>1, <1>2, <1>3 DEF Next

\* CPInv in every reachable state.
THEOREM CPInvariance == Spec => []CPInv
<1>1. CPInv /\ [Next]_vars => CPInv'
  BY CPStep
<1> QED
  BY CPInit, <1>1, PTL DEF Spec

\* However many peers subscribe to the forwards, a request that arrives while
\* at most one peer takes itself for the leader, and during which no view
\* changes, is executed at most once, by that leader, and never by the peer
\* that forwarded it (dispatch's IsLeader check).
THEOREM RunsOnce == Spec => []SteadyRunsOnce
<1>1. CPInv => SteadyRunsOnce
  <2> SUFFICES ASSUME CPInv, NEW q \in Req, steady[q] PROVE SteadyRunsOnce!(q)!2
    BY DEF SteadyRunsOnce
  <2>1. ran[q] \in SUBSET Node /\ IsFiniteSet(ran[q])
    BY NoneAssumption, FS_Subset, Zenon DEF CPInv, TypeOK
  <2>2. CASE req[q].phase = "idle"
    BY <2>1, <2>2, AtMostOne DEF CPInv, ReqInv
  <2>3. CASE req[q].phase # "idle"
    <3>1. /\ \A m, n \in Node : leader[m] /\ leader[n] => m = n
          /\ req[q].kind = "leaderOnly" => ran[q] \subseteq Leaders
          /\ req[q].forwarded => ~leader[req[q].at]
      BY <2>3 DEF CPInv, SteadyInv
    <3>2. /\ req[q].forwarded => req[q].kind = "leaderOnly"
          /\ ~req[q].forwarded => ran[q] \subseteq {req[q].at}
      BY DEF CPInv, ReqInv
    <3>3. \A x, y \in ran[q] : x = y
      BY <2>1, <3>1, <3>2, Zenon DEF Leaders, CPInv, TypeOK
    <3>4. Cardinality(ran[q]) <= 1
      BY <2>1, <3>3, AtMostOne
    <3>5. req[q].forwarded => req[q].at \notin ran[q]
      BY <3>1, <3>2 DEF Leaders
    <3> QED
      BY <3>1, <3>4, <3>5
  <2> QED
    BY <2>2, <2>3
<1> QED
  BY <1>1, CPInvariance, PTL

\* The engine of a peer is started only by wrap and by handle, and both look
\* at the gate first.
LEMMA StartsBehindGate ==
  ASSUME CPInv, [Next]_vars, NEW p \in Req, NEW k \in Node, k \in ran'[p] \ ran[p]
  PROVE  lastOK[k]
<1>0. ran \in [Req -> SUBSET Node] /\ waiting \in [Node -> Req \cup {None}]
  BY Zenon DEF CPInv, TypeOK
<1>1. CASE ran' = ran
  BY <1>1
<1>2. ASSUME NEW q \in Req, NEW n \in Node, NEW kind \in Kinds,
             NEW authorized \in BOOLEAN, NEW bodyOK \in BOOLEAN,
             Wrap(q, n, kind, authorized, bodyOK)
      PROVE  lastOK[k]
  <2>1. \/ ran' = ran
        \/ /\ Refusal(n, kind, authorized, bodyOK) = "" /\ kind # "read"
           /\ ran' = [ran EXCEPT ![q] = {n}]
    BY <1>2, Zenon DEF Wrap
  <2>2. CASE /\ Refusal(n, kind, authorized, bodyOK) = "" /\ kind # "read"
             /\ ran' = [ran EXCEPT ![q] = {n}]
    <3>1. Healthy(n)
      BY <2>2 DEF Refusal
    <3>2. k = n
      BY <1>0, <2>2, Zenon
    <3> QED
      BY <3>1, <3>2 DEF CPInv, AuditInv
  <2> QED
    BY <1>1, <2>1, <2>2, Zenon
<1>3. ASSUME NEW n \in Node, NEW bodyOK \in BOOLEAN, Handle(n, bodyOK)
      PROVE  lastOK[k]
  <2>1. \/ ran' = ran
        \/ Healthy(n) /\ ran' = [ran EXCEPT ![waiting[n]] = ran[waiting[n]] \cup {n}]
    BY <1>3 DEF Handle
  <2>2. CASE Healthy(n) /\ ran' = [ran EXCEPT ![waiting[n]] = ran[waiting[n]] \cup {n}]
    <3>1. k = n
      BY <1>0, <2>2
    <3> QED
      BY <2>2, <3>1 DEF CPInv, AuditInv
  <2> QED
    BY <1>1, <2>1, <2>2
<1>4. ASSUME NEW q \in Req, Forget(q) PROVE lastOK[k]
  BY <1>0, <1>4 DEF Forget
<1>5. ASSUME NEW q \in Req,
             \/ \E ok \in BOOLEAN : EngineReturns(q, ok)
             \/ HandlerPanics(q) \/ ForwardReturns(q) \/ ForwardFails(q)
      PROVE  ran' = ran
  BY <1>5, ZenonT(40) DEF EngineReturns, HandlerPanics, ForwardReturns, ForwardFails, effects
<1>6. ASSUME NEW n \in Node,
             \/ Dispatch(n)
             \/ \E q \in Req, ok \in BOOLEAN : HandleReturns(n, q, ok)
             \/ StopControl(n) \/ BeginClose(n) \/ CloseReturns(n)
             \/ LeaderChanges(n) \/ SinksChange(n)
      PROVE  ran' = ran
  BY <1>6 DEF Dispatch, HandleReturns, StopControl, BeginClose, CloseReturns, SetStage,
              LeaderChanges, SinksChange, effects
<1>7. CASE UNCHANGED vars
  BY <1>1, <1>7, SMTT(30) DEF vars
<1>8. CASE Next
  BY <1>1, <1>2, <1>3, <1>4, <1>5, <1>6, <1>8 DEF Next
<1> QED
  BY <1>7, <1>8

\* The middleware's gate, for any number of peers and of concurrent requests:
\* nothing runs for a request that was refused, and no mutating call starts on
\* a peer whose last audit record was lost by a sink.
THEOREM GateCloses == Spec => GateHolds
<1>1. CPInv => \A q \in Req : req[q].phase = "answered" /\ req[q].outcome = "rejected"
                                /\ req[q].code # "internal" => ran[q] = {}
  BY DEF CPInv, ReqInv
<1>2. CPInv /\ [Next]_vars =>
        [\A q \in Req, n \in Node : n \in ran'[q] \ ran[q] => lastOK[n]]_vars
  BY StartsBehindGate
<1> QED
  BY <1>1, <1>2, CPInvariance, PTL DEF Spec, GateHolds
=============================================================================
