---------------------------- MODULE SingleWriter ----------------------------
(***************************************************************************)
(* What the peers of a cluster promise about the Postgres that accepts     *)
(* writes: a node opens for writes only while it holds the lease, and it   *)
(* keeps the lease for as long as it writes.  A node that loses the lease  *)
(* under its writes is a stray until it has stopped them.                  *)
(***************************************************************************)
CONSTANTS
  Node,
  None    \* no holder

VARIABLES
  holder,   \* the node that holds the lease, or None
  writers,  \* the nodes whose Postgres accepts writes
  strays    \* the nodes that have given the lease up without stopping

vars == <<holder, writers, strays>>

Init == holder = None /\ writers = {} /\ strays = {}

\* A free lease is granted; its new holder is no stray, unless it is fenced.
Grant(n) ==
  /\ holder = None
  /\ holder' = n
  /\ strays' \in {strays, strays \ {n}}
  /\ UNCHANGED writers

\* The lease is released, resigned, or runs out.  A holder that goes on writing
\* becomes a stray.
Drop ==
  /\ holder # None
  /\ holder' = None
  /\ writers' \in {writers, writers \ {holder}}
  /\ strays' \in {strays, strays \cup {holder}}
  /\ holder \in writers' => holder \in strays'

\* A node gives up its claim to the lease before the lease is gone.
GiveUp(n) ==
  /\ strays' = strays \cup {n}
  /\ UNCHANGED <<holder, writers>>

\* A node begins to accept writes.
Open(n) ==
  /\ n = holder \/ n \in strays
  /\ writers' = writers \cup {n}
  /\ UNCHANGED <<holder, strays>>

\* A node stops; only then it may cease to be a stray.
Close(n) ==
  /\ writers' = writers \ {n}
  /\ strays' \in {strays, strays \ {n}}
  /\ UNCHANGED holder

Next ==
  \/ Drop
  \/ \E n \in Node : Grant(n) \/ GiveUp(n) \/ Open(n) \/ Close(n)

Spec == Init /\ [][Next]_vars
=============================================================================
