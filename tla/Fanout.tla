-------------------------------- MODULE Fanout --------------------------------
(***************************************************************************)
(* The request/reply fan-out between peers (internal/fanout) and what      *)
(* GET /v1/status makes of it (runtime/aggregator.go).  One originator     *)
(* makes calls, one after the other; every peer has two subscriptions per  *)
(* slice, its own subject and the wildcard.                                *)
(*                                                                         *)
(* NATS is external: messages arrive in any order, and one that is lost is *)
(* one that is never handled or never read: the deadline does not wait for *)
(* it.  The role of a peer is the Manager's; that it promotes only when no *)
(* other peer is primary is the property OnePrimary of PeerLease.          *)
(***************************************************************************)
EXTENDS Integers, Sequences, FiniteSets

CONSTANTS
  Node,        \* the peers that answer
  Expected,    \* the peers the originator's configuration names
  Programs,    \* the sequences of calls to consider: None for a broadcast,
               \* or the target of a unicast
  MaxChanges,  \* bound on the role changes, crashes and restarts
  None

ASSUME NodesAssumption ==
  IsFiniteSet(Node) /\ Expected \subseteq Node /\ Expected # {} /\ None \notin Node
ASSUME ProgramsAssumption == Programs \subseteq Seq(Expected \cup {None})

VARIABLES
  role,      \* what Manager.Status reports as LocalRole, or "down"
  changes,   \* how often role changed
  requests,  \* requests delivered to a subscription and not yet handled
  inbox,     \* replies delivered and not yet read, each for the inbox of its call
  program,   \* the calls of this behaviour
  call,      \* the call of the originator: id, target, phase, expired
  got,       \* its replies so far, in order of arrival
  status,    \* what the last call returned: instances and PrimaryNodeID
  was        \* the roles each peer had while the call was open

fanoutVars == <<role, changes, requests, inbox, program, call, got, status, was>>

Reply(c, sub, n, ok, r) == [call |-> c, sub |-> sub, node |-> n, ok |-> ok, role |-> r]

FanoutInit ==
  /\ role \in [Node -> {"primary", "replica"}]
  /\ Cardinality({n \in Node : role[n] = "primary"}) <= 1
  /\ changes = 0
  /\ requests = {} /\ inbox = {}
  /\ program \in Programs
  /\ call = [id |-> 0, target |-> None, phase |-> "idle", expired |-> FALSE]
  /\ got = <<>>
  /\ status = [instances |-> <<>>, primary |-> None]
  /\ was = [n \in Node |-> {}]

-----------------------------------------------------------------------------
(* The peers *)

\* A promotion, a demotion, a crash ("down") or a restart.
RoleChanges(n, r) ==
  /\ changes < MaxChanges /\ role[n] # r
  /\ r = "primary" => role[n] = "replica" /\ \A m \in Node : role[m] # "primary"
  /\ role' = [role EXCEPT ![n] = r]
  /\ was' = [was EXCEPT ![n] = @ \cup {r}]
  /\ changes' = changes + 1
  /\ requests' = IF r = "down" THEN {q \in requests : q.node # n} ELSE requests
  /\ UNCHANGED <<inbox, call, got, status, program>>

\* The node id a reply is stamped with.
SelfNodeID(q) == q.node

\* Server.handle: the slice's handler answers with Manager.Status of this
\* moment, or fails.
Handle(q) ==
  /\ requests' = requests \ {q}
  /\ \/ inbox' = inbox \cup {Reply(q.call, q.sub, SelfNodeID(q), TRUE, role[q.node])}
     \/ inbox' = inbox \cup {Reply(q.call, q.sub, SelfNodeID(q), FALSE, None)}
  /\ UNCHANGED <<role, changes, call, got, status, was, program>>

-----------------------------------------------------------------------------
(* The originator *)

\* The subscriptions a request goes to.  The subject of a broadcast matches
\* the wildcards only; that of a unicast matches them too.
Subscribers(target) ==
  LET at(sub, n) == [call |-> call.id + 1, node |-> n, sub |-> sub]
      up == {n \in Node : role[n] # "down"}
  IN  {at("wildcard", n) : n \in up} \cup {at("unicast", n) : n \in up \cap {target}}

\* Broadcast (to None) and Unicast up to their wait.
Publish ==
  /\ call.phase # "wait" /\ call.id < Len(program)
  /\ call' = [id |-> call.id + 1, target |-> program[call.id + 1], phase |-> "wait",
              expired |-> FALSE]
  /\ requests' = requests \cup Subscribers(program[call.id + 1])
  /\ got' = <<>>
  /\ was' = [n \in Node |-> {role[n]}]
  /\ UNCHANGED <<role, changes, inbox, status, program>>

Nodes(replies) == {replies[i].node : i \in 1 .. Len(replies)}

\* Mutant: a peer that replied with an error gets a second entry.
MissingOrFailed(replies) ==
  Expected \ {replies[i].node : i \in {j \in 1 .. Len(replies) : replies[j].ok}}

\* The expected peers to synthesize sibling_unreachable for.
Missing(replies) == Expected \ Nodes(replies)

Unreachable(n) == Reply(call.id, "none", n, FALSE, None)

\* EnrichStatus: the first reply that claims the role names the primary.
PrimaryOf(replies) ==
  LET claims == {i \in 1 .. Len(replies) : replies[i].ok /\ replies[i].role = "primary"}
  IN  IF claims = {} THEN None
      ELSE replies[CHOOSE i \in claims : \A j \in claims : i <= j].node

\* The elements of a finite set, one after the other.
Listed(S) ==
  CHOOSE f \in [1 .. Cardinality(S) -> S] : \A i, j \in DOMAIN f : f[i] = f[j] => i = j

\* The end of Broadcast and what EnrichStatus makes of it.
Return(replies, expired) ==
  LET all == replies \o Listed({Unreachable(n) : n \in Missing(replies)})
  IN  /\ call' = [call EXCEPT !.phase = "done", !.expired = expired]
      /\ got' = all
      /\ status' = IF call.target # None THEN status
                   ELSE [instances |-> all, primary |-> PrimaryOf(all)]

\* Mutant: one reply too few ends the wait.
EnoughOffByOne(replies) == Len(replies) + 1 >= Cardinality(Expected)

\* Broadcast stops waiting at as many replies as there are expected peers.
Enough(replies) == Len(replies) >= Cardinality(Expected)

\* Mutant: one inbox for all calls.
OwnInboxShared(r) == TRUE

\* Every call has an inbox of its own.
OwnInbox(r) == r.call = call.id

\* NextMsg of a broadcast: the first reply of a node counts.
Receive(r) ==
  /\ call.phase = "wait" /\ call.target = None /\ OwnInbox(r)
  /\ inbox' = inbox \ {r}
  /\ LET replies == IF r.node \in Nodes(got) THEN got ELSE Append(got, r)
     IN  IF Enough(replies) THEN Return(replies, FALSE)
         ELSE got' = replies /\ UNCHANGED <<call, status>>
  /\ UNCHANGED <<role, changes, requests, was, program>>

\* RequestWithContext of a unicast: the first reply is the answer.
ReceiveUnicast(r) ==
  /\ call.phase = "wait" /\ call.target # None /\ OwnInbox(r)
  /\ inbox' = inbox \ {r}
  /\ got' = <<r>>
  /\ call' = [call EXCEPT !.phase = "done"]
  /\ UNCHANGED <<role, changes, requests, status, was, program>>

\* The deadline passes.
Deadline ==
  /\ call.phase = "wait"
  /\ IF call.target = None THEN Return(got, TRUE)
     ELSE /\ got' = <<Unreachable(call.target)>>
          /\ call' = [call EXCEPT !.phase = "done", !.expired = TRUE]
          /\ UNCHANGED status
  /\ UNCHANGED <<role, changes, requests, inbox, was, program>>

FanoutNext ==
  \/ \E n \in Node, r \in {"primary", "replica", "down"} : RoleChanges(n, r)
  \/ \E q \in requests : Handle(q)
  \/ Publish
  \/ \E r \in inbox : Receive(r) \/ ReceiveUnicast(r)
  \/ Deadline

FanoutSpec == FanoutInit /\ [][FanoutNext]_fanoutVars

-----------------------------------------------------------------------------
(* Properties *)

Roles == {"primary", "replica", "down"}

FanoutTypeOK ==
  /\ role \in [Node -> Roles]
  /\ call.id \in 0 .. Len(program) /\ call.phase \in {"idle", "wait", "done"}
  /\ \A q \in requests : q.node \in Node /\ q.call \in 1 .. call.id
  /\ \A r \in inbox : r.node \in Node /\ r.call \in 1 .. call.id
  /\ Nodes(got) \subseteq Node
  /\ status.primary \in Node \cup {None}
  /\ was \in [Node -> SUBSET Roles]

Answered == call.phase = "done" /\ call.target = None

(* The instances of a status have every configured peer exactly once, and   *)
(* no other peer twice, whatever was lost, late or failed (the dedup and    *)
(* the synthesized entries of Broadcast).  The roles among them are ones    *)
(* the peers had during that call, never those of an earlier call whose     *)
(* replies came late (the inbox of Broadcast and Unicast).                  *)
StatusOfThisCall ==
  /\ Answered =>
       /\ Expected \subseteq Nodes(status.instances)
       /\ Len(status.instances) = Cardinality(Nodes(status.instances))
  /\ call.phase = "done" =>
       \A i \in 1 .. Len(got) : got[i].ok => got[i].role \in was[got[i].node]

(* A peer that is primary during the whole call and whose answer counted is *)
(* the PrimaryNodeID of the status, also while its siblings crash, restart  *)
(* and answer late (EnrichStatus, first claim wins).                        *)
StablePrimaryNamed ==
  Answered =>
    \A i \in 1 .. Len(got) :
      got[i].ok /\ was[got[i].node] = {"primary"} => status.primary = got[i].node

(* fanout-protocol.md: sibling_unreachable is "No reply received within     *)
(* deadline_ms".  A peer is called unreachable only after the deadline.     *)
UnreachableAfterDeadline ==
  call.phase = "done" =>
    \A i \in 1 .. Len(got) : got[i].sub = "none" => call.expired
=============================================================================
