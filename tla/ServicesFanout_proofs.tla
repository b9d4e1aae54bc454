----------------------- MODULE ServicesFanout_proofs ------------------------
(***************************************************************************)
(* Proofs about the services of one process (Services) for every scenario, *)
(* every set of peers and of addresses and without the bounds that the run *)
(* needs, and about the fan-out between the peers (Fanout) for any number  *)
(* of them, of calls, role changes and restarts.                           *)
(***************************************************************************)
EXTENDS Services, Fanout, FiniteSetTheorems, TLAPS

\* Every gate of main and Start, the failing ones included.
LEMMA GateFrame ==
  ASSUME Gate \/ GateFails
  PROVE  UNCHANGED <<stop, disk, tripped, fences, routes, known, last, doubled>>
  BY Zenon DEF Gate, GateFails, LoadConfig, ValidateConfig, ObsGate, NATSGate,
         ConnectGate, SubstrateGate, AddressGate, ServicesGate, ManagerGate,
         ListenGate, ControlGate, AuditGate, ReadyGate, storage, mesh

\* The steps that are not of the storage monitor leave its flag and its count.
LEMMA StorageFrame ==
  ASSUME Next PROVE StorageTick \/ UNCHANGED <<tripped, fences>>
<1>1. CASE Gate \/ GateFails
  BY <1>1, GateFrame
<1>2. CASE StopSignal \/ ManagerReturns \/ ServerCloses \/ DrainAndExit
  BY <1>2, Zenon DEF StopSignal, ManagerReturns, ServerCloses, DrainAndExit, storage
<1>3. CASE RestartRequest \/ SelfTerminate \/ DiskChange \/ RouteChange \/ RouteTick
  BY <1>3, Zenon DEF RestartRequest, SelfTerminate, DiskChange, RouteChange, RouteTick, storage
<1>4. CASE PeerPublishes \/ Resolve \/ ResolveAttempt
  BY <1>4, Zenon DEF PeerPublishes, Resolve, ResolveAttempt, storage
<1> QED
  BY <1>1, <1>2, <1>3, <1>4 DEF Next

\* The count is the flag.
FenceInv == tripped \in BOOLEAN /\ fences = IF tripped THEN 1 ELSE 0

\* The storage monitor fences at most once in the life of a process, however
\* often the directory goes bad and whenever the ticks come.
THEOREM FenceOnce == Spec => []FencedOnce
<1>1. Init => FenceInv
  BY Zenon DEF Init, FenceInv
<1>2. FenceInv /\ [Next]_vars => FenceInv'
  <2> SUFFICES ASSUME FenceInv, [Next]_vars PROVE FenceInv'
    OBVIOUS
  <2>1. CASE StorageTick
    <3>1. tripped' = TRUE
      BY <2>1, Zenon DEF StorageTick, Trip
    <3>2. CASE tripped
      <4>1. fences' = fences
        BY <2>1, <3>2, Zenon DEF StorageTick, Trip
      <4>2. fences = 1
        BY <3>2 DEF FenceInv
      <4> QED
        BY <3>1, <4>1, <4>2 DEF FenceInv
    <3>3. CASE ~tripped
      <4>1. fences' = fences + 1
        BY <2>1, <3>3, Zenon DEF StorageTick, Trip
      <4>2. fences = 0
        BY <3>3 DEF FenceInv
      <4>3. fences' = 1
        BY <4>1, <4>2
      <4> QED
        BY <3>1, <4>3 DEF FenceInv
    <3> QED
      BY <3>2, <3>3
  <2>2. CASE UNCHANGED <<tripped, fences>>
    BY <2>2 DEF FenceInv
  <2>3. CASE UNCHANGED vars
    BY <2>2, <2>3 DEF vars, storage
  <2> QED
    BY <2>1, <2>2, <2>3, StorageFrame
<1>3. FenceInv => FencedOnce
  BY DEF FenceInv, FencedOnce
<1> QED
  BY <1>1, <1>2, <1>3, PTL DEF Spec
-----------------------------------------------------------------------------

\* The steps that are not of the route watcher leave its state and its events.
LEMMA RouteFrame ==
  ASSUME Next PROVE RouteTick \/ UNCHANGED <<known, last, doubled>>
<1>1. CASE Gate \/ GateFails
  BY <1>1, GateFrame
<1>2. CASE StopSignal \/ ManagerReturns \/ ServerCloses \/ DrainAndExit
  BY <1>2, Zenon DEF StopSignal, ManagerReturns, ServerCloses, DrainAndExit, mesh
<1>3. CASE RestartRequest \/ SelfTerminate \/ DiskChange \/ StorageTick \/ RouteChange
  BY <1>3, Zenon DEF RestartRequest, SelfTerminate, DiskChange, StorageTick, RouteChange, mesh
<1>4. CASE PeerPublishes \/ Resolve \/ ResolveAttempt
  BY <1>4, Zenon DEF PeerPublishes, Resolve, ResolveAttempt, mesh
<1> QED
  BY <1>1, <1>2, <1>3, <1>4 DEF Next

\* The snapshot of the last tick is what the events have told.
RouteInv ==
  /\ last \in [Peers -> {"none", "up", "down"}]
  /\ known = {p \in Peers : last[p] = "up"}
  /\ doubled = FALSE

\* For every set of peers, route_up and route_down alternate for each of them.
THEOREM EventsAlternate == Spec => []RouteEventsAlternate
<1>1. Init => RouteInv
  BY Zenon DEF Init, RouteInv
<1>2. RouteInv /\ [Next]_vars => RouteInv'
  <2> SUFFICES ASSUME RouteInv, [Next]_vars PROVE RouteInv'
    OBVIOUS
  <2>1. CASE RouteTick
    <3> DEFINE ups == Connected \ known
               downs == known \ Connected
    <3>1. known' = Connected /\ Connected \subseteq Peers /\ Emit(ups, downs)
      BY <2>1 DEF RouteTick, Connected
    <3>2. last' = [p \in Peers |-> IF p \in ups THEN "up"
                                   ELSE IF p \in downs THEN "down" ELSE last[p]]
      BY <3>1 DEF Emit
    <3>3. last' \in [Peers -> {"none", "up", "down"}]
      BY <3>2 DEF RouteInv
    <3>4. known' = {p \in Peers : last'[p] = "up"}
      BY <3>1, <3>2 DEF RouteInv
    <3>5. /\ ~\E p \in ups : last[p] = "up"
          /\ ~\E p \in downs : last[p] # "up"
      BY <3>1 DEF RouteInv
    <3>6. doubled' = FALSE
      BY <3>1, <3>5 DEF Emit, RouteInv
    <3> QED
      BY <3>3, <3>4, <3>6 DEF RouteInv
  <2>2. CASE UNCHANGED <<known, last, doubled>>
    BY <2>2 DEF RouteInv
  <2>3. CASE UNCHANGED vars
    BY <2>2, <2>3 DEF vars, mesh
  <2> QED
    BY <2>1, <2>2, <2>3, RouteFrame
<1>3. RouteInv => RouteEventsAlternate
  BY DEF RouteInv, RouteEventsAlternate
<1> QED
  BY <1>1, <1>2, <1>3, PTL DEF Spec
-----------------------------------------------------------------------------

\* The gates but one leave the addresses.
LEMMA GateAddrs ==
  ASSUME Gate \/ GateFails
  PROVE  UNCHANGED addrs \/ Put(Self, cfg.replication_addr)
  BY Zenon DEF Gate, GateFails, LoadConfig, ValidateConfig, ObsGate, NATSGate,
         ConnectGate, SubstrateGate, AddressGate, ServicesGate, ManagerGate,
         ListenGate, ControlGate, AuditGate, ReadyGate

\* What may happen to the addresses in a step.
LEMMA AddrSteps ==
  ASSUME Next
  PROVE  \/ UNCHANGED addrs
         \/ \E p \in Peers : \E a : Put(p, a)
         \/ Resolve \/ ResolveAttempt
<1>1. CASE Gate \/ GateFails
  BY <1>1, GateAddrs, SelfAssumption
<1>2. CASE StopSignal \/ ManagerReturns \/ ServerCloses \/ DrainAndExit
  BY <1>2, Zenon DEF StopSignal, ManagerReturns, ServerCloses, DrainAndExit
<1>3. CASE RestartRequest \/ SelfTerminate \/ DiskChange \/ StorageTick
  BY <1>3, Zenon DEF RestartRequest, SelfTerminate, DiskChange, StorageTick
<1>4. CASE RouteChange \/ RouteTick
  BY <1>4, Zenon DEF RouteChange, RouteTick
<1>5. CASE PeerPublishes
  BY <1>5 DEF PeerPublishes
<1> QED
  BY <1>1, <1>2, <1>3, <1>4, <1>5 DEF Next

\* The key of a peer holds an address of that peer, and so does the answer of a
\* lookup that found one.
AddrInv ==
  /\ published = [p \in Peers |-> published[p]]
  /\ \A p \in Peers :
       PeerAddrKey(p) \in DOMAIN kv => kv[PeerAddrKey(p)] \in published[p]
  /\ lookup = [peer |-> lookup.peer, attempt |-> lookup.attempt, answer |-> lookup.answer]
  /\ lookup.peer \in Peers \cup {Nil}
  /\ lookup.answer \in Addrs =>
       lookup.peer \in Peers /\ lookup.answer \in published[lookup.peer]

\* PublishPeerAddress adds an address to what its own peer has published.
LEMMA PutKeeps ==
  ASSUME AddrInv, NEW q \in Peers, NEW a, Put(q, a)
  PROVE  AddrInv'
<1>1. lookup' = lookup
  BY DEF Put
<1>2. /\ published' = [p \in Peers |-> published'[p]]
      /\ \A p \in Peers : published[p] \subseteq published'[p]
      /\ a \in published'[q]
  BY DEF Put, AddrInv
<1>3. ASSUME NEW p \in Peers, PeerAddrKey(p) \in DOMAIN kv'
      PROVE  kv'[PeerAddrKey(p)] \in published'[p]
  <2>1. CASE p = q
    BY <1>2, <1>3, <2>1 DEF Put
  <2>2. CASE p # q
    <3>1. PeerAddrKey(p) # PeerAddrKey(q)
      BY <2>2 DEF PeerAddrKey
    <3>2. PeerAddrKey(p) \in DOMAIN kv /\ kv'[PeerAddrKey(p)] = kv[PeerAddrKey(p)]
      BY <1>3, <3>1 DEF Put
    <3> QED
      BY <1>2, <3>2 DEF AddrInv
  <2> QED
    BY <2>1, <2>2
<1>4. lookup.answer \in Addrs =>
        lookup.peer \in Peers /\ lookup.answer \in published'[lookup.peer]
  BY <1>2 DEF AddrInv
<1> QED
  BY <1>1, <1>2, <1>3, <1>4 DEF AddrInv, PeerAddrKey

\* An attempt of the resolver answers with what the key of its peer holds, or
\* with none of the addresses.
LEMMA AttemptKeeps ==
  ASSUME AddrInv, ResolveAttempt
  PROVE  AddrInv'
<1>1. kv' = kv /\ published' = published /\ lookup.peer \in Peers
  BY DEF ResolveAttempt, AddrInv
<1>2. CASE /\ PeerAddrKey(lookup.peer) \in DOMAIN kv
           /\ lookup' = [lookup EXCEPT !.answer = kv[PeerAddrKey(lookup.peer)]]
  BY <1>1, <1>2 DEF AddrInv, PeerAddrKey
<1>3. CASE lookup' = [lookup EXCEPT !.answer = "error"]
  BY <1>1, <1>3, AddrsAssumption DEF AddrInv, PeerAddrKey
<1>4. CASE lookup' = [lookup EXCEPT !.answer = "missing"]
  BY <1>1, <1>4, AddrsAssumption DEF AddrInv, PeerAddrKey
<1>5. CASE lookup' = [lookup EXCEPT !.attempt = @ + 1]
  BY <1>1, <1>5 DEF AddrInv, PeerAddrKey
<1> QED
  BY <1>2, <1>3, <1>4, <1>5 DEF ResolveAttempt

\* For all peers and addresses, the resolver never hands out the address of
\* another peer: each publishes under a key of its own (PeerAddrKey).
THEOREM ResolvesOwnPeer == Spec => []ResolvedIsPeers
<1>1. Init => AddrInv
  <2> SUFFICES ASSUME Init PROVE AddrInv
    OBVIOUS
  <2>1. kv = <<>> /\ published = [p \in Peers |-> {}] /\ lookup = NoLookup
    BY Zenon DEF Init
  <2>2. \A p \in Peers : PeerAddrKey(p) \notin DOMAIN kv
    <3>1. DOMAIN kv = 1 .. 0
      BY <2>1
    <3> QED
      BY <3>1
  <2> QED
    BY <2>1, <2>2, AddrsAssumption DEF AddrInv, NoLookup
<1>2. AddrInv /\ [Next]_vars => AddrInv'
  <2> SUFFICES ASSUME AddrInv, [Next]_vars PROVE AddrInv'
    OBVIOUS
  <2>1. CASE UNCHANGED addrs
    BY <2>1 DEF addrs, AddrInv, PeerAddrKey
  <2>2. CASE \E p \in Peers : \E a : Put(p, a)
    BY <2>2, PutKeeps
  <2>3. CASE Resolve
    <3>1. PICK p \in Peers : lookup' = [NoLookup EXCEPT !.peer = p]
      BY <2>3, Zenon DEF Resolve
    <3>2. kv' = kv /\ published' = published
      BY <2>3, Zenon DEF Resolve
    <3> QED
      BY <3>1, <3>2, AddrsAssumption DEF AddrInv, NoLookup, PeerAddrKey
  <2>4. CASE ResolveAttempt
    BY <2>4, AttemptKeeps
  <2>5. CASE UNCHANGED vars
    BY <2>1, <2>5 DEF vars
  <2> QED
    BY <2>1, <2>2, <2>3, <2>4, <2>5, AddrSteps
<1>3. AddrInv => ResolvedIsPeers
  BY DEF AddrInv, ResolvedIsPeers
<1> QED
  BY <1>1, <1>2, <1>3, PTL DEF Spec
-----------------------------------------------------------------------------

\* A process that has passed Validate exits through the drain and in no other
\* way, an accepted restart included.
THEOREM OnlyDrainExits == Spec => ExitsThroughDrain
<1>1. ASSUME Next, at' = "exited", at # "exited"
      PROVE  at \in {"load", "validate", "drain"}
  <2>1. CASE Gate
    BY <1>1, <2>1
    DEF Gate, LoadConfig, ValidateConfig, Refuse, ObsGate, NATSGate, ConnectGate,
        SubstrateGate, AddressGate, ServicesGate, ManagerGate, ListenGate,
        ControlGate, AuditGate, ReadyGate, Pass, Fail
  <2>2. CASE GateFails \/ ManagerReturns \/ ServerCloses \/ DrainAndExit
    BY <1>1, <2>2, Zenon DEF GateFails, Fail, ManagerReturns, ServerCloses, DrainAndExit
  <2>3. CASE StopSignal \/ RestartRequest \/ SelfTerminate \/ DiskChange \/ StorageTick
    BY <1>1, <2>3, Zenon
    DEF StopSignal, RestartRequest, SelfTerminate, DiskChange, StorageTick, startup
  <2>4. CASE RouteChange \/ RouteTick \/ PeerPublishes \/ Resolve \/ ResolveAttempt
    BY <1>1, <2>4, Zenon
    DEF RouteChange, RouteTick, PeerPublishes, Resolve, ResolveAttempt, startup
  <2> QED
    BY <1>1, <2>1, <2>2, <2>3, <2>4 DEF Next
<1>2. [Next]_vars =>
        [at' = "exited" /\ at # "exited" => at \in {"load", "validate", "drain"}]_vars
  BY <1>1
<1> QED
  BY <1>2, PTL DEF Spec, ExitsThroughDrain
-----------------------------------------------------------------------------
(* The configuration *)

\* The keys that the mode defaults touch are keys of a configuration.
LEMMA ModeKeys == SidecarKeys \cup {"deployment_mode"} \subseteq Keys
  BY DEF SidecarKeys, Keys, Defaults

\* What the layers make of a key, before the mode defaults.
Merged(i) == Overlay(ApplyEnv(Overlay(Defaults, i.yaml), i), i.flags)

\* Each overlay lets the stronger layer win, key by key.
LEMMA MergedIsWritten ==
  ASSUME NEW k \in Keys
  PROVE  Merged(in)[k] = Written(k)
<1>1. CASE k \in DOMAIN in.flags
  BY <1>1 DEF Merged, Overlay, Written
<1>2. CASE k \notin DOMAIN in.flags /\ k \in DOMAIN in.env
  BY <1>2 DEF Merged, Overlay, ApplyEnv, Written
<1>3. CASE k \notin DOMAIN in.flags \cup DOMAIN in.env /\ k \in DOMAIN in.alias
  BY <1>3 DEF Merged, Overlay, ApplyEnv, Written
<1>4. CASE k \notin DOMAIN in.flags \cup DOMAIN in.env \cup DOMAIN in.alias
  BY <1>4 DEF Merged, Overlay, ApplyEnv, Written
<1> QED
  BY <1>1, <1>2, <1>3, <1>4

\* ApplyModeDefaults rewrites four listeners of a sidecar and nothing else.
LEMMA ModeDefaults ==
  ASSUME NEW k \in Keys, NEW c, c = [j \in Keys |-> c[j]]
  PROVE  ApplyModeDefaults(c)[k] =
           IF c.deployment_mode = Sidecar /\ k \in SidecarKeys
           THEN PreferLoopback(c[k]) ELSE c[k]
  BY ModeKeys, Zenon DEF ApplyModeDefaults, SidecarKeys

\* What Validate is given is what Load returned.
LoadedInv == at = "validate" => cfg = Load(in)

\* Every step that leads to Validate is a successful Load.
LEMMA LoadedStep ==
  ASSUME LoadedInv, [Next]_vars
  PROVE  LoadedInv'
<1> SUFFICES ASSUME at' = "validate" PROVE cfg' = Load(in')
  BY DEF LoadedInv
<1>1. CASE LoadConfig
  BY <1>1 DEF LoadConfig, Refuse
<1>2. CASE at' = at /\ cfg' = cfg /\ in' = in
  BY <1>2 DEF LoadedInv
<1>3. CASE ValidateConfig \/ ObsGate \/ NATSGate \/ ConnectGate \/ SubstrateGate
  BY <1>3 DEF ValidateConfig, Refuse, ObsGate, NATSGate, ConnectGate, SubstrateGate,
              Pass, Fail
<1>4. CASE AddressGate \/ ServicesGate \/ ManagerGate \/ ListenGate \/ ControlGate
            \/ AuditGate \/ ReadyGate
  BY <1>4 DEF AddressGate, ServicesGate, ManagerGate, ListenGate, ControlGate,
              AuditGate, ReadyGate, Pass, Fail
<1>5. CASE GateFails \/ ManagerReturns \/ DrainAndExit
  BY <1>5 DEF GateFails, Fail, ManagerReturns, DrainAndExit
<1>6. CASE StopSignal \/ ServerCloses \/ RestartRequest \/ SelfTerminate \/ DiskChange
            \/ StorageTick
  BY <1>2, <1>6, Zenon DEF StopSignal, ServerCloses, RestartRequest, SelfTerminate, DiskChange,
              StorageTick, startup
<1>7. CASE RouteChange \/ RouteTick \/ PeerPublishes \/ Resolve \/ ResolveAttempt
  BY <1>2, <1>7, Zenon DEF RouteChange, RouteTick, PeerPublishes, Resolve, ResolveAttempt, startup
<1>8. CASE UNCHANGED vars
  BY <1>2, <1>8 DEF vars, startup
<1> QED
  BY <1>1, <1>3, <1>4, <1>5, <1>6, <1>7, <1>8 DEF Next, Gate

\* For every file, environment, set of aliases and command line, each key has
\* the value of its strongest layer, but for the listeners that a sidecar moves
\* to the loopback interface.
THEOREM PrecedenceOfLayers == Spec => []PrecedenceKept
<1>1. Init => LoadedInv
  BY Zenon DEF Init, LoadedInv
<1>2. LoadedInv /\ [Next]_vars => LoadedInv'
  BY LoadedStep
<1>3. LoadedInv => PrecedenceKept
  <2> SUFFICES ASSUME LoadedInv, at = "validate", NEW k \in Keys
               PROVE  IF /\ Written("deployment_mode") = Sidecar /\ k \in SidecarKeys
                         /\ Written(k) \in AllInterfaces
                      THEN cfg[k] \in Loopback
                      ELSE cfg[k] = Written(k)
    BY DEF PrecedenceKept
  <2>1. cfg = ApplyModeDefaults(Merged(in))
    BY DEF LoadedInv, Load, Merged
  <2>2. Merged(in) = [j \in Keys |-> Merged(in)[j]]
    BY DEF Merged, Overlay
  <2>3. Merged(in)[k] = Written(k) /\ Merged(in)["deployment_mode"] = Written("deployment_mode")
    BY MergedIsWritten, ModeKeys
  <2>4. cfg[k] = IF Written("deployment_mode") = Sidecar /\ k \in SidecarKeys
                 THEN PreferLoopback(Written(k)) ELSE Written(k)
    BY <2>1, <2>2, <2>3, ModeDefaults
  <2> QED
    BY <2>4 DEF PreferLoopback, Loopback
<1> QED
  BY <1>1, <1>2, <1>3, PTL DEF Spec
-----------------------------------------------------------------------------
(* What Validate and the credential check leave *)

\* A configuration without problems breaks none of the rules about listeners.
LEMMA NoProblems ==
  ASSUME NEW c, Problems(c) = {}
  PROVE  /\ ~(RoutesEnabled(c) /\ BadAddr(c.routes_listen))
         /\ ~(ExposedRoutes(c) /\ c.username = "")
         /\ ~(ExposedRoutes(c) /\ c.password_env = "" /\ c.password_file = "")
         /\ ~(/\ ExposedRoutes(c)
              /\ ~Both(c.cluster_cert, c.cluster_key) /\ ~c.cluster_ack)
         /\ c.control_listen # NoPort
         /\ ~(/\ ~BadAddr(c.control_listen) /\ ~IsLoopback(c.control_listen)
              /\ ~Both(c.control_cert, c.control_key) /\ ~c.control_ack)
<1>1. \A r \in DOMAIN ClusterRules(c) : ~ClusterRules(c)[r]
  BY DEF Problems
<1>2. \A r \in DOMAIN Rules(c) : ~Rules(c)[r]
  BY DEF Problems
<1>3. {"routes_listen", "username", "password", "cluster_tls"} \subseteq DOMAIN ClusterRules(c)
  BY SMTT(30) DEF ClusterRules
<1>4. {"control_listen", "control_tls"} \subseteq DOMAIN Rules(c)
  BY DEF Rules
<1>5. /\ ~ClusterRules(c).routes_listen /\ ~ClusterRules(c).username
      /\ ~ClusterRules(c).password /\ ~ClusterRules(c).cluster_tls
  BY <1>1, <1>3
<1>6. ~Rules(c).control_listen /\ ~Rules(c).control_tls
  BY <1>2, <1>4
<1>7. /\ ~(RoutesEnabled(c) /\ BadAddr(c.routes_listen))
      /\ ~(ExposedRoutes(c) /\ c.username = "")
      /\ ~(ExposedRoutes(c) /\ c.password_env = "" /\ c.password_file = "")
      /\ ~(/\ ExposedRoutes(c)
           /\ ~Both(c.cluster_cert, c.cluster_key) /\ ~c.cluster_ack)
  BY <1>5, Zenon DEF ClusterRules
<1>8. /\ c.control_listen # NoPort
      /\ ~(/\ ~BadAddr(c.control_listen) /\ ~IsLoopback(c.control_listen)
           /\ ~Both(c.control_cert, c.control_key) /\ ~c.control_ack)
  BY <1>6, Zenon DEF Rules
<1> QED
  BY <1>7, <1>8, Zenon

\* Nothing is built from a configuration with problems, the server is not
\* started without the credential, and the control plane has an address.
ConsentInv ==
  /\ at \in {"load", "validate"} => health = {} /\ open = {}
  /\ health # {} \/ open # {} \/ at \notin {"load", "validate", "exited"} =>
       Problems(cfg) = {}
  /\ ServerUp => ~CredentialFails(cfg, in)
  /\ "control" \in open => cfg.control_listen # ""

\* The gates keep ConsentInv.
LEMMA ConsentGate ==
  ASSUME ConsentInv, Gate \/ GateFails
  PROVE  ConsentInv'
<1>1. CASE LoadConfig
  BY <1>1, Zenon DEF LoadConfig, Refuse, ConsentInv, ServerUp
<1>2. CASE ValidateConfig
  BY <1>2, Zenon DEF ValidateConfig, Refuse, ConsentInv, ServerUp
<1>3. CASE ObsGate
  BY <1>3, Zenon DEF ObsGate, Pass, ConsentInv, ServerUp
<1>4. CASE NATSGate
  BY <1>4, Zenon DEF NATSGate, Pass, Fail, ConsentInv, ServerUp
<1>5. CASE ConnectGate
  BY <1>5, Zenon DEF ConnectGate, Pass, ConsentInv, ServerUp
<1>6. CASE SubstrateGate \/ AddressGate \/ ServicesGate \/ ManagerGate \/ AuditGate
  BY <1>6, Zenon DEF SubstrateGate, AddressGate, ServicesGate, ManagerGate, AuditGate, Pass,
              ConsentInv, ServerUp
<1>7. CASE ListenGate \/ ReadyGate
  BY <1>7, Zenon DEF ListenGate, ReadyGate, Pass, ConsentInv, ServerUp
<1>8. CASE ControlGate
  BY <1>8, Zenon DEF ControlGate, ServeControl, Pass, Fail, ConsentInv, ServerUp
<1>9. CASE GateFails
  <2>1. /\ at \in Gates \ {"load", "validate"} /\ at' = "drain"
        /\ cfg' = cfg /\ health' = health /\ open' = open /\ in' = in
    BY <1>9, Zenon DEF GateFails, Fail, Gates
  <2> QED
    BY <2>1, Zenon DEF ConsentInv, ServerUp, Gates
<1> QED
  BY <1>1, <1>2, <1>3, <1>4, <1>5, <1>6, <1>7, <1>8, <1>9 DEF Gate

\* ConsentInv is inductive.
LEMMA ConsentStep ==
  ASSUME ConsentInv, [Next]_vars
  PROVE  ConsentInv'
<1>1. CASE at' = at /\ cfg' = cfg /\ in' = in /\ health' = health /\ open' = open
  BY <1>1, Zenon DEF ConsentInv, ServerUp
<1>2. CASE Gate \/ GateFails
  BY <1>2, ConsentGate
<1>3. CASE ManagerReturns
  BY <1>3, Zenon DEF ManagerReturns, ConsentInv, ServerUp
<1>4. CASE DrainAndExit
  BY <1>4, Zenon DEF DrainAndExit, ConsentInv, ServerUp
<1>5. CASE ServerCloses
  BY <1>5, Zenon DEF ServerCloses, Alive, ConsentInv, ServerUp
<1>6. CASE StopSignal \/ RestartRequest \/ SelfTerminate \/ DiskChange \/ StorageTick
  BY <1>1, <1>6, Zenon DEF StopSignal, RestartRequest, SelfTerminate, DiskChange,
              StorageTick, startup
<1>7. CASE RouteChange \/ RouteTick \/ PeerPublishes \/ Resolve \/ ResolveAttempt
  BY <1>1, <1>7, Zenon DEF RouteChange, RouteTick, PeerPublishes, Resolve, ResolveAttempt, startup
<1>8. CASE UNCHANGED vars
  BY <1>1, <1>8 DEF vars, startup
<1> QED
  BY <1>2, <1>3, <1>4, <1>5, <1>6, <1>7, <1>8 DEF Next

\* For every configuration there is: what Validate let pass and BuildOptions
\* and NewServer bind is reachable from other hosts in the clear only where the
\* operator acknowledged it, and the route mesh asks for a strong credential.
THEOREM ConsentAsked == Spec => []ExposedByConsent
<1>1. Init => ConsentInv
  BY Zenon DEF Init, ConsentInv, ServerUp
<1>2. ConsentInv /\ [Next]_vars => ConsentInv'
  BY ConsentStep
<1>3. ConsentInv => ExposedByConsent
  <2> SUFFICES ASSUME ConsentInv, ServerUp PROVE ExposedByConsent
    BY DEF ExposedByConsent
  <2>1. Problems(cfg) = {} /\ ~CredentialFails(cfg, in)
    BY Zenon DEF ConsentInv, ServerUp
  <2>2. ASSUME RoutesEnabled(cfg), RoutesOptions(cfg, in).addr \notin Loopback
        PROVE  /\ RoutesOptions(cfg, in).tls \/ cfg.cluster_ack
               /\ RoutesOptions(cfg, in).auth /\ in.secret = "strong"
    <3>1. ~BadAddr(cfg.routes_listen)
      BY <2>1, <2>2, NoProblems, Zenon
    <3>2. ~IsLoopback(cfg.routes_listen)
      BY <2>2 DEF RoutesOptions, IsLoopback, Loopback
    <3>3. ExposedRoutes(cfg)
      BY <2>2, <3>1, <3>2 DEF ExposedRoutes
    <3>4. /\ cfg.username # "" /\ (cfg.password_env # "" \/ cfg.password_file # "")
          /\ Both(cfg.cluster_cert, cfg.cluster_key) \/ cfg.cluster_ack
      BY <2>1, <3>3, NoProblems, Zenon
    <3>5. in.secret = "strong"
      BY <2>1, <3>4, Zenon DEF CredentialFails, Password
    <3> QED
      BY <3>4, <3>5, Zenon DEF RoutesOptions
  <2>3. ASSUME "control" \in open, cfg.control_listen \notin Loopback
        PROVE  Both(cfg.control_cert, cfg.control_key) \/ cfg.control_ack
    <3>1. ~BadAddr(cfg.control_listen) /\ ~IsLoopback(cfg.control_listen)
      BY <2>1, <2>3, NoProblems, Zenon DEF ConsentInv, BadAddr, IsLoopback
    <3> QED
      BY <2>1, <3>1, NoProblems, Zenon
  <2> QED
    BY <2>2, <2>3 DEF ExposedByConsent
<1> QED
  BY <1>1, <1>2, <1>3, PTL DEF Spec
-----------------------------------------------------------------------------
(* The operator restart *)

Answers == {"none", "accepted", "wrong_peer", "supervisor_not_detected", "engine_error",
            "auth_required", "audit_unavailable", "invalid_argument"}

\* A restart is accepted, and fires, only where a supervisor was detected; a
\* process that was ready has its host context cancelled before it drains.
RestartInv ==
  /\ restarts \in [accepted : Nat, pending : Nat, answer : Answers]
  /\ ctx \in BOOLEAN /\ (ctx => why # {}) /\ why \subseteq {"signal", "manager", "restart"}
  /\ restarts.pending > 0 \/ "restart" \in why => presence # "none"
  /\ at \in Gates \ {"audit", "ready"} => presence = "none"
  /\ "manager" \in health => at \in {"serving", "drain", "exited"}
  /\ "manager" \in health /\ at # "serving" => ctx

\* The gates keep RestartInv: the supervisor is looked for once.
LEMMA RestartGate ==
  ASSUME RestartInv, Gate \/ GateFails
  PROVE  RestartInv'
<1>0. restarts' = restarts /\ ctx' = ctx /\ why' = why
  BY GateFrame DEF stop
<1>1. CASE LoadConfig \/ ValidateConfig \/ ObsGate \/ NATSGate \/ ConnectGate
  BY <1>0, <1>1 DEF LoadConfig, ValidateConfig, Refuse, ObsGate, NATSGate, ConnectGate,
       Pass, Fail, RestartInv, Gates
<1>2. CASE SubstrateGate \/ AddressGate \/ ServicesGate \/ ManagerGate \/ AuditGate
  BY <1>0, <1>2, Zenon DEF SubstrateGate, AddressGate, ServicesGate, ManagerGate, AuditGate, Pass,
       RestartInv, Gates
<1>3. CASE ListenGate \/ ReadyGate
  BY <1>0, <1>3 DEF ListenGate, ReadyGate, Pass, RestartInv, Gates
<1>4. CASE ControlGate
  <2>1. /\ at = "control" /\ health' = health /\ at' \in {"ready", "drain", "audit"}
    BY <1>4, Zenon DEF ControlGate, Pass, Fail
  <2>2. presence = "none" /\ "manager" \notin health
    BY <2>1 DEF RestartInv, Gates
  <2> QED
    BY <1>0, <2>1, <2>2 DEF RestartInv, Gates
<1>5. CASE GateFails
  <2>1. /\ at \in Gates /\ at' = "drain" /\ health' = health /\ presence' = presence
    BY <1>5, Zenon DEF GateFails, Fail, Gates
  <2> QED
    BY <1>0, <2>1 DEF RestartInv, Gates
<1> QED
  BY <1>1, <1>2, <1>3, <1>4, <1>5 DEF Gate

\* RestartInv is inductive.
LEMMA RestartStep ==
  ASSUME RestartInv, [Next]_vars
  PROVE  RestartInv'
<1>1. CASE UNCHANGED <<stop, at, health, presence>>
  BY <1>1 DEF RestartInv, stop
<1>2. CASE Gate \/ GateFails
  BY <1>2, RestartGate
<1>3. CASE StopSignal
  BY <1>3 DEF StopSignal, startup, RestartInv
<1>4. CASE ManagerReturns
  BY <1>4, Zenon DEF ManagerReturns, RestartInv, Gates
<1>5. CASE DrainAndExit
  BY <1>5, Zenon DEF DrainAndExit, stop, RestartInv, Gates
<1>6. CASE RestartRequest
  <2>1. /\ at' = at /\ health' = health /\ presence' = presence /\ ctx' = ctx /\ why' = why
    BY <1>6 DEF RestartRequest, startup
  <2>2. \/ \E a \in Answers : restarts' = [restarts EXCEPT !.answer = a]
        \/ /\ presence # "none"
           /\ restarts' = [accepted |-> restarts.accepted + 1,
                           pending |-> restarts.pending + 1, answer |-> "accepted"]
    BY <1>6 DEF RestartRequest, RestartProxy, RestartPostgres, Answer, Answers
  <2>3. /\ restarts' \in [accepted : Nat, pending : Nat, answer : Answers]
        /\ restarts'.pending = restarts.pending \/ presence # "none"
    BY <2>2 DEF RestartInv, Answers
  <2> QED
    BY <2>1, <2>3 DEF RestartInv
<1>7. CASE SelfTerminate
  <2>1. /\ at' = at /\ health' = health /\ presence' = presence
        /\ ctx' = TRUE /\ why' = why \cup {"restart"} /\ restarts.pending > 0
        /\ restarts' = [restarts EXCEPT !.pending = restarts.pending - 1]
    BY <1>7 DEF SelfTerminate, startup
  <2>2. restarts' \in [accepted : Nat, pending : Nat, answer : Answers]
    BY <2>1 DEF RestartInv
  <2> QED
    BY <2>1, <2>2 DEF RestartInv
<1>8. CASE ServerCloses \/ DiskChange \/ StorageTick
  BY <1>1, <1>8, Zenon DEF ServerCloses, DiskChange, StorageTick, startup
<1>9. CASE RouteChange \/ RouteTick \/ PeerPublishes \/ Resolve \/ ResolveAttempt
  BY <1>1, <1>9, Zenon DEF RouteChange, RouteTick, PeerPublishes, Resolve, ResolveAttempt, startup
<1>10. CASE UNCHANGED vars
  BY <1>1, <1>10 DEF vars, startup
<1> QED
  BY <1>2, <1>3, <1>4, <1>5, <1>6, <1>7, <1>8, <1>9, <1>10 DEF Next

\* Whenever restarts fire, one or several of them, during the last gates of
\* Start or beside a signal: a node that served and was stopped by them alone
\* has a supervisor to start it again.
THEOREM NotStranded == Spec => []NeverStranded
<1>1. Init => RestartInv
  <2> SUFFICES ASSUME Init PROVE RestartInv
    OBVIOUS
  <2>1. restarts = [accepted |-> 0, pending |-> 0, answer |-> "none"]
    BY Zenon DEF Init
  <2>2. /\ restarts \in [accepted : Nat, pending : Nat, answer : Answers]
        /\ ~(restarts.pending > 0)
    BY <2>1 DEF Answers
  <2>3. ctx = FALSE /\ why = {} /\ presence = "none" /\ health = {} /\ at = "load"
    BY Zenon DEF Init
  <2> QED
    BY <2>2, <2>3, Zenon DEF RestartInv
<1>2. RestartInv /\ [Next]_vars => RestartInv'
  BY RestartStep
<1>3. RestartInv => NeverStranded
  BY Zenon DEF RestartInv, NeverStranded
<1> QED
  BY <1>1, <1>2, <1>3, PTL DEF Spec

-----------------------------------------------------------------------------
(* The fan-out *)

Requests == [call : Nat, node : Node, sub : {"wildcard", "unicast"}]

Replies ==
  [call : Nat, sub : {"wildcard", "unicast", "none"}, node : Node,
   ok : BOOLEAN, role : Roles \cup {None}]

\* No two entries of s are of one node.
Distinct(s) == \A i, j \in 1 .. Len(s) : s[i].node = s[j].node => i = j

TypeInv ==
  /\ role \in [Node -> Roles] /\ was \in [Node -> SUBSET Roles]
  /\ program \in Seq(Expected \cup {None})
  /\ call \in [id : Nat, target : Expected \cup {None},
               phase : {"idle", "wait", "done"}, expired : BOOLEAN]
  /\ call.phase = "idle" <=> call.id = 0
  /\ requests \subseteq Requests /\ \A q \in requests : q.call \in 1 .. call.id
  /\ inbox \subseteq Replies
  /\ \A r \in inbox : r.call \in 1 .. call.id /\ r.sub # "none"
  /\ got \in Seq(Replies)

\* What the peers have been since the call was published.
WasInv ==
  /\ \A m, n \in Node : role[m] = "primary" /\ role[n] = "primary" => m = n
  /\ call.id > 0 =>
       /\ \A n \in Node : role[n] \in was[n]
       /\ \A m, n \in Node : was[n] = {"primary"} /\ "primary" \in was[m] => m = n
  /\ \A r \in inbox : r.call = call.id /\ r.ok => r.role \in was[r.node]
  /\ \A i \in 1 .. Len(got) : got[i].ok => got[i].role \in was[got[i].node]

\* The replies a broadcast has counted, and what it made of them.
GotInv ==
  /\ call.target = None => Distinct(got)
  /\ Answered => /\ Expected \subseteq Nodes(got)
                 /\ status = [instances |-> got, primary |-> PrimaryOf(got)]

\* A synthesized entry is one of a deadline, if every peer is a configured one.
DeadlineInv ==
  /\ call.phase = "wait" => ~call.expired
  /\ \A i \in 1 .. Len(got) : got[i].sub = "none" => call.phase = "done"
  /\ Node = Expected =>
       \A i \in 1 .. Len(got) : got[i].sub = "none" => call.expired

-----------------------------------------------------------------------------
(* Sequences of replies *)

\* Listed lists a finite set.
LEMMA ListedAll ==
  ASSUME NEW S, IsFiniteSet(S)
  PROVE  /\ Listed(S) \in Seq(S) /\ Len(Listed(S)) = Cardinality(S)
         /\ \A i, j \in 1 .. Len(Listed(S)) : Listed(S)[i] = Listed(S)[j] => i = j
         /\ \A x \in S : \E i \in 1 .. Len(Listed(S)) : Listed(S)[i] = x
<1> DEFINE N == Cardinality(S)
           f == Listed(S)
<1>1. N \in Nat /\ ExistsBijection(1 .. N, S)
  BY FS_CardinalityType
<1>2. \E g \in [1 .. N -> S] : IsInjective(g)
  BY <1>1 DEF ExistsBijection, Bijection, Injection
<1>3. f \in [1 .. N -> S] /\ IsInjective(f)
  BY <1>2 DEF Listed, IsInjective
<1>4. f \in Injection(1 .. N, S)
  BY <1>3 DEF Injection
<1>5. IsFiniteSet(1 .. N) /\ Cardinality(1 .. N) = N
  BY <1>1, FS_Interval
<1>6. f \in Surjection(1 .. N, S)
  BY <1>4, <1>5, FS_Injection
<1>7. f \in Seq(S) /\ Len(f) = N
  BY <1>1, <1>3
<1> HIDE DEF f
<1>8. \A i, j \in 1 .. Len(f) : f[i] = f[j] => i = j
  BY <1>3, <1>7 DEF IsInjective
<1>9. \A x \in S : \E i \in 1 .. Len(f) : f[i] = x
  BY <1>6, <1>7 DEF Surjection
<1> QED
  BY <1>7, <1>8, <1>9 DEF f

\* As many nodes as entries, when no node has two.
LEMMA DistinctCount ==
  ASSUME NEW s \in Seq(Replies), Distinct(s)
  PROVE  IsFiniteSet(Nodes(s)) /\ Cardinality(Nodes(s)) = Len(s)
<1> DEFINE N == Len(s)
           f == [i \in 1 .. N |-> s[i].node]
<1>1. N \in Nat
  OBVIOUS
<1>2. f \in [1 .. N -> Nodes(s)]
  BY DEF Nodes
<1>3. IsInjective(f)
  BY DEF IsInjective, Distinct
<1>4. \A x \in Nodes(s) : \E i \in 1 .. N : f[i] = x
  BY DEF Nodes
<1>5. ExistsBijection(1 .. N, Nodes(s))
  BY <1>2, <1>3, <1>4 DEF ExistsBijection, Bijection, Injection, Surjection
<1> QED
  BY <1>1, <1>5, FS_CountingElements, FS_NatBijection

\* The entries that Return adds.
Synthesized(s) == Listed({Unreachable(n) : n \in Missing(s)})

\* They are one for every expected node that did not reply.
LEMMA SynthesizedEntries ==
  ASSUME TypeInv, NEW s \in Seq(Replies)
  PROVE  /\ Synthesized(s) \in Seq(Replies)
         /\ Distinct(Synthesized(s))
         /\ \A i \in 1 .. Len(Synthesized(s)) :
              /\ Synthesized(s)[i].node \in Missing(s)
              /\ Synthesized(s)[i].sub = "none" /\ Synthesized(s)[i].ok = FALSE
         /\ \A n \in Missing(s) :
              \E i \in 1 .. Len(Synthesized(s)) : Synthesized(s)[i].node = n
         /\ Missing(s) = {} => Len(Synthesized(s)) = 0
<1> DEFINE M == Missing(s)
           U == {Unreachable(n) : n \in M}
           g == [n \in M |-> Unreachable(n)]
           f == Listed(U)
<1>1. IsFiniteSet(M) /\ M \subseteq Node
  BY NodesAssumption, FS_Subset DEF Missing
<1>2. g \in Surjection(M, U)
  BY DEF Surjection
<1>3. IsFiniteSet(U) /\ Cardinality(U) <= Cardinality(M)
  BY <1>1, <1>2, FS_Surjection
<1>4. \A n \in M : /\ Unreachable(n) \in Replies /\ Unreachable(n).node = n
                   /\ Unreachable(n).sub = "none" /\ Unreachable(n).ok = FALSE
  BY <1>1 DEF Unreachable, Reply, Replies, TypeInv
<1>5. /\ f \in Seq(U) /\ Len(f) = Cardinality(U)
      /\ \A i, j \in 1 .. Len(f) : f[i] = f[j] => i = j
      /\ \A x \in U : \E i \in 1 .. Len(f) : f[i] = x
  BY <1>3, ListedAll, Zenon
<1> HIDE DEF f
<1>6. \A i \in 1 .. Len(f) : \E n \in M : f[i] = Unreachable(n)
  <2>1. \A i \in 1 .. Len(f) : f[i] \in U
    BY <1>5
  <2> QED
    BY <2>1, Zenon
<1>7. f \in Seq(Replies)
  BY <1>4, <1>5, <1>6
<1>8. Distinct(f)
  BY <1>4, <1>5, <1>6 DEF Distinct
<1>9. \A i \in 1 .. Len(f) : f[i].node \in M /\ f[i].sub = "none" /\ f[i].ok = FALSE
  BY <1>4, <1>6
<1>10. \A n \in M : \E i \in 1 .. Len(f) : f[i].node = n
  <2> TAKE n \in M
  <2>1. PICK i \in 1 .. Len(f) : f[i] = Unreachable(n)
    BY <1>5, Zenon
  <2> QED
    BY <1>4, <2>1
<1>11. ASSUME M = {} PROVE Len(f) = 0
  <2>1. U = {}
    BY <1>11
  <2> QED
    BY <1>5, <2>1, FS_EmptySet
<1>12. f = Synthesized(s)
  BY DEF f, Synthesized
<1> QED
  BY <1>7, <1>8, <1>9, <1>10, <1>11, <1>12

\* What Return hands out: every expected node is in it, and none is in it twice.
LEMMA ReturnedEntries ==
  ASSUME TypeInv, NEW s \in Seq(Replies), Distinct(s),
         NEW all, all = s \o Synthesized(s)
  PROVE  /\ all \in Seq(Replies)
         /\ Distinct(all)
         /\ Expected \subseteq Nodes(all)
         /\ \A i \in 1 .. Len(all) :
              \/ i \in 1 .. Len(s) /\ all[i] = s[i]
              \/ Missing(s) # {} /\ all[i].sub = "none" /\ all[i].ok = FALSE
<1> DEFINE f == Synthesized(s)
<1>1. /\ f \in Seq(Replies) /\ Distinct(f)
      /\ \A i \in 1 .. Len(f) : /\ f[i].node \in Missing(s)
                                /\ f[i].sub = "none" /\ f[i].ok = FALSE
      /\ \A n \in Missing(s) : \E i \in 1 .. Len(f) : f[i].node = n
  BY SynthesizedEntries, Zenon
<1> HIDE DEF f
<1>2. /\ all \in Seq(Replies) /\ Len(all) = Len(s) + Len(f)
      /\ \A i \in 1 .. Len(s) : all[i] = s[i]
      /\ \A i \in 1 .. Len(f) : all[Len(s) + i] = f[i]
  BY <1>1 DEF f
<1>3. \A i \in 1 .. Len(all) :
        \/ i \in 1 .. Len(s) /\ all[i] = s[i]
        \/ i - Len(s) \in 1 .. Len(f) /\ all[i] = f[i - Len(s)]
  <2> TAKE i \in 1 .. Len(all)
  <2>1. CASE i <= Len(s)
    BY <1>2, <2>1
  <2>2. CASE i > Len(s)
    <3>1. \A a, b \in Nat : \A c \in 1 .. a + b :
            c > a => \E k \in 1 .. b : c = a + k
      <4> TAKE a \in Nat, b \in Nat
      <4> TAKE c \in 1 .. a + b
      <4> HAVE c > a
      <4> WITNESS c - a \in 1 .. b
      <4> QED
        OBVIOUS
    <3>2. PICK k \in 1 .. Len(f) : i = Len(s) + k
      BY <1>1, <1>2, <2>2, <3>1
    <3> QED
      BY <1>1, <1>2, <3>2
  <2> QED
    BY <2>1, <2>2, <1>2
<1>4. \A i \in 1 .. Len(s) : s[i].node \notin Missing(s)
  BY DEF Missing, Nodes
<1>o. /\ \A i \in 1 .. Len(all) : i \in 1 .. Len(s) => all[i].node \notin Missing(s)
      /\ \A i \in 1 .. Len(all) : i \notin 1 .. Len(s) => all[i].node \in Missing(s)
  BY <1>1, <1>2, <1>3, <1>4
<1>5. Distinct(all)
  <2> SUFFICES ASSUME NEW i \in 1 .. Len(all), NEW j \in 1 .. Len(all),
                      all[i].node = all[j].node
               PROVE  i = j
    BY DEF Distinct
  <2>1. CASE i \in 1 .. Len(s) /\ j \in 1 .. Len(s)
    BY <1>2, <2>1 DEF Distinct
  <2>2. CASE i \in 1 .. Len(s) /\ j \notin 1 .. Len(s)
    BY <1>o, <2>2
  <2>3. CASE i \notin 1 .. Len(s) /\ j \in 1 .. Len(s)
    BY <1>o, <2>3
  <2>4. CASE i \notin 1 .. Len(s) /\ j \notin 1 .. Len(s)
    <3>1. /\ i - Len(s) \in 1 .. Len(f) /\ all[i] = f[i - Len(s)]
          /\ j - Len(s) \in 1 .. Len(f) /\ all[j] = f[j - Len(s)]
      BY <1>3, <2>4
    <3>2. i - Len(s) = j - Len(s)
      BY <1>1, <3>1 DEF Distinct
    <3> QED
      BY <1>2, <3>2
  <2> QED
    BY <2>1, <2>2, <2>3, <2>4
<1>6. Expected \subseteq Nodes(all)
  <2> SUFFICES ASSUME NEW n \in Expected PROVE \E i \in 1 .. Len(all) : all[i].node = n
    BY DEF Nodes
  <2>1. CASE n \in Nodes(s)
    <3>1. PICK i \in 1 .. Len(s) : s[i].node = n
      BY <2>1 DEF Nodes
    <3>2. i \in 1 .. Len(all) /\ all[i] = s[i]
      BY <1>1, <1>2
    <3> QED
      BY <3>1, <3>2
  <2>2. CASE n \notin Nodes(s)
    <3>1. PICK i \in 1 .. Len(f) : f[i].node = n
      BY <1>1, <2>2 DEF Missing
    <3>2. Len(s) + i \in 1 .. Len(all) /\ all[Len(s) + i] = f[i]
      BY <1>1, <1>2
    <3> QED
      BY <3>1, <3>2
  <2> QED
    BY <2>1, <2>2
<1> QED
  BY <1>1, <1>2, <1>3, <1>5, <1>6

-----------------------------------------------------------------------------
(* The inductive invariant *)

FanoutInv == TypeInv /\ WasInv /\ GotInv /\ DeadlineInv

\* The originator has not called yet.
LEMMA InitInv == FanoutInit => FanoutInv
<1> SUFFICES ASSUME FanoutInit PROVE FanoutInv
  OBVIOUS
<1>1. TypeInv
  BY NodesAssumption, ProgramsAssumption DEF FanoutInit, TypeInv, Roles
<1>2. \A m, n \in Node : role[m] = "primary" /\ role[n] = "primary" => m = n
  <2> DEFINE P == {n \in Node : role[n] = "primary"}
  <2> SUFFICES ASSUME NEW m \in P, NEW n \in P, m # n PROVE FALSE
    OBVIOUS
  <2>1. IsFiniteSet(P)
    BY NodesAssumption, FS_Subset
  <2>2. IsFiniteSet({m}) /\ Cardinality({m}) = 1
    BY FS_Singleton
  <2>3. IsFiniteSet({m} \cup {n}) /\ Cardinality({m} \cup {n}) = 2
    BY <2>2, FS_AddElement
  <2>4. Cardinality({m} \cup {n}) <= Cardinality(P)
    BY <2>1, FS_Subset
  <2>5. Cardinality(P) \in Nat
    BY <2>1, FS_CardinalityType
  <2>6. Cardinality(P) <= 1
    BY DEF FanoutInit
  <2> QED
    BY <2>3, <2>4, <2>5, <2>6
<1>3. WasInv
  BY <1>2 DEF FanoutInit, WasInv
<1>4. GotInv /\ DeadlineInv
  BY DEF FanoutInit, GotInv, DeadlineInv, Distinct, Answered
<1> QED
  BY <1>1, <1>3, <1>4 DEF FanoutInv

\* A peer changes its role while replies are on their way.
LEMMA RoleStep ==
  ASSUME FanoutInv, NEW n \in Node, NEW r \in {"primary", "replica", "down"},
         RoleChanges(n, r)
  PROVE  FanoutInv'
<1> USE DEF FanoutInv
<1>1. /\ role[n] # r /\ role' = [role EXCEPT ![n] = r]
      /\ was' = [was EXCEPT ![n] = @ \cup {r}]
      /\ r = "primary" => \A m \in Node : role[m] # "primary"
      /\ requests' \subseteq requests
      /\ UNCHANGED <<inbox, call, got, status, program>>
  BY DEF RoleChanges
<1>2. /\ role \in [Node -> Roles] /\ was \in [Node -> SUBSET Roles] /\ r \in Roles
  BY DEF TypeInv, Roles
<1>3. TypeInv'
  BY <1>1, <1>2 DEF TypeInv
<1>4. WasInv'
  <2>1. \A m \in Node : /\ role'[m] = IF m = n THEN r ELSE role[m]
                        /\ was'[m] = IF m = n THEN was[m] \cup {r} ELSE was[m]
    BY <1>1, <1>2
  <2>2. \A m \in Node : was[m] \subseteq was'[m]
    BY <2>1, Zenon
  <2>3. \A l, m \in Node : role'[l] = "primary" /\ role'[m] = "primary" => l = m
    BY <1>1, <2>1 DEF WasInv
  <2>4. call.id > 0 => \A m \in Node : role'[m] \in was'[m]
    BY <2>1, Zenon DEF WasInv
  <2>5. ASSUME call.id > 0, NEW l \in Node, NEW m \in Node,
               was'[m] = {"primary"}, "primary" \in was'[l]
        PROVE  l = m
    <3>1. ASSUME m = n PROVE FALSE
      <4>1. was[n] \cup {r} = {"primary"} /\ role[n] \in was[n]
        BY <2>1, <2>5, <3>1, Zenon DEF WasInv
      <4>2. r = "primary" /\ role[n] = "primary"
        BY <4>1
      <4> QED
        BY <1>1, <4>2
    <3>2. was[m] = {"primary"} /\ role[m] = "primary"
      BY <2>1, <2>5, <3>1, Zenon DEF WasInv
    <3>3. "primary" \in was[l]
      BY <1>1, <2>1, <2>5, <3>2
    <3> QED
      BY <2>5, <3>2, <3>3 DEF WasInv
  <2>6. \A x \in inbox : x.call = call.id /\ x.ok => x.role \in was'[x.node]
    BY <2>2 DEF WasInv, TypeInv, Replies
  <2>7. \A i \in 1 .. Len(got) : got[i].ok => got[i].role \in was'[got[i].node]
    <3> TAKE i \in 1 .. Len(got)
    <3>1. got[i] \in Replies
      BY DEF TypeInv
    <3> QED
      BY <2>2, <3>1 DEF WasInv, Replies
  <2> QED
    BY <1>1, <2>3, <2>4, <2>5, <2>6, <2>7 DEF WasInv
<1>5. GotInv' /\ DeadlineInv'
  BY <1>1 DEF GotInv, DeadlineInv, Answered
<1> QED
  BY <1>3, <1>4, <1>5

\* A peer answers a request, of this call or of an earlier one.
LEMMA HandleStep ==
  ASSUME FanoutInv, NEW q \in requests, Handle(q)
  PROVE  FanoutInv'
<1> USE DEF FanoutInv
<1>1. PICK x : /\ inbox' = inbox \cup {x}
               /\ \/ x = Reply(q.call, q.sub, q.node, TRUE, role[q.node])
                  \/ x = Reply(q.call, q.sub, q.node, FALSE, None)
  BY Zenon DEF Handle, SelfNodeID
<1>2. requests' \subseteq requests /\ UNCHANGED <<role, call, got, status, was, program>>
  BY DEF Handle
<1>3. q \in Requests /\ q.call \in 1 .. call.id
  BY DEF TypeInv
<1>4. /\ x \in Replies /\ x.call = q.call /\ x.sub # "none" /\ x.node = q.node
      /\ x.ok => x.role = role[q.node]
  <2>1. /\ q.call \in Nat /\ q.node \in Node /\ q.sub \in {"wildcard", "unicast"}
        /\ role[q.node] \in Roles
    BY <1>3 DEF Requests, TypeInv
  <2>2. CASE x = Reply(q.call, q.sub, q.node, TRUE, role[q.node])
    BY <2>1, <2>2 DEF Reply, Replies
  <2>3. CASE x = Reply(q.call, q.sub, q.node, FALSE, None)
    BY <2>1, <2>3 DEF Reply, Replies
  <2> QED
    BY <1>1, <2>2, <2>3, Zenon
<1>5. TypeInv'
  BY <1>1, <1>2, <1>3, <1>4 DEF TypeInv
<1>6. x.ok => x.role \in was[x.node]
  BY <1>3, <1>4 DEF WasInv, TypeInv, Requests
<1>7. WasInv'
  BY <1>1, <1>2, <1>6 DEF WasInv
<1>8. GotInv' /\ DeadlineInv'
  BY <1>2 DEF GotInv, DeadlineInv, Answered
<1> QED
  BY <1>5, <1>7, <1>8

\* The originator publishes its next call.
LEMMA PublishStep ==
  ASSUME FanoutInv, Publish
  PROVE  FanoutInv'
<1> USE DEF FanoutInv
<1> DEFINE target == program[call.id + 1]
<1>1. /\ call' = [id |-> call.id + 1, target |-> target, phase |-> "wait", expired |-> FALSE]
      /\ requests' = requests \cup Subscribers(target)
      /\ got' = <<>> /\ was' = [n \in Node |-> {role[n]}]
      /\ UNCHANGED <<role, inbox, status, program>>
  BY DEF Publish
<1>2. call.id \in Nat /\ target \in Expected \cup {None}
  <2>1. call.id \in Nat /\ call.id < Len(program) /\ program \in Seq(Expected \cup {None})
    BY DEF Publish, TypeInv
  <2> QED
    BY <2>1
<1>3. \A q \in Subscribers(target) : q \in Requests /\ q.call = call.id + 1
  BY <1>2 DEF Subscribers, Requests
<1>4. TypeInv'
  <2>1. /\ call' \in [id : Nat, target : Expected \cup {None},
                      phase : {"idle", "wait", "done"}, expired : BOOLEAN]
        /\ call'.phase = "wait" /\ call'.id = call.id + 1
    BY <1>1, <1>2
  <2>2. call'.phase = "idle" <=> call'.id = 0
    BY <1>2, <2>1
  <2>3. \A q \in requests' : q \in Requests /\ q.call \in 1 .. call'.id
    BY <1>1, <1>2, <1>3, <2>1 DEF TypeInv
  <2>4. \A r \in inbox : r.call \in 1 .. call'.id /\ r.sub # "none"
    BY <1>2, <2>1 DEF TypeInv
  <2>5. was' \in [Node -> SUBSET Roles] /\ got' \in Seq(Replies)
    BY <1>1 DEF TypeInv
  <2> QED
    BY <1>1, <2>1, <2>2, <2>3, <2>4, <2>5 DEF TypeInv
<1>5. WasInv'
  <2>1. \A n \in Node : was'[n] = {role[n]}
    BY <1>1
  <2>2. \A r \in inbox : r.call # call'.id
    BY <1>1, <1>2 DEF TypeInv
  <2>3. \A m, n \in Node : role'[m] = "primary" /\ role'[n] = "primary" => m = n
    BY <1>1 DEF WasInv
  <2>4. \A n \in Node : role'[n] \in was'[n]
    BY <1>1, <2>1
  <2>5. \A m, n \in Node : was'[n] = {"primary"} /\ "primary" \in was'[m] => m = n
    BY <1>1, <2>1, <2>3
  <2>6. inbox' = inbox /\ got' = <<>> /\ 1 .. Len(got') = {}
    BY <1>1
  <2> QED
    BY <2>2, <2>3, <2>4, <2>5, <2>6, Zenon DEF WasInv
<1>6. GotInv' /\ DeadlineInv'
  BY <1>1 DEF GotInv, DeadlineInv, Answered, Distinct
<1> QED
  BY <1>4, <1>5, <1>6

\* Broadcast returns: what its caller gets is complete.
LEMMA ReturnStep ==
  ASSUME FanoutInv, call.phase = "wait", call.target = None,
         NEW s \in Seq(Replies), Distinct(s), NEW expired \in BOOLEAN,
         \A i \in 1 .. Len(s) : s[i].ok => s[i].role \in was[s[i].node],
         \A i \in 1 .. Len(s) : s[i].sub # "none",
         Node = Expected => expired \/ Missing(s) = {},
         Return(s, expired), inbox' \subseteq inbox,
         UNCHANGED <<role, requests, was, program>>
  PROVE  FanoutInv'
<1> USE DEF FanoutInv
<1>1. /\ call' = [call EXCEPT !.phase = "done", !.expired = expired]
      /\ got' = s \o Synthesized(s)
      /\ status' = [instances |-> got', primary |-> PrimaryOf(got')]
  BY DEF Return, Synthesized
<1>2. /\ got' \in Seq(Replies)
      /\ Distinct(got')
      /\ Expected \subseteq Nodes(got')
      /\ \A i \in 1 .. Len(got') :
           \/ i \in 1 .. Len(s) /\ got'[i] = s[i]
           \/ Missing(s) # {} /\ got'[i].sub = "none" /\ got'[i].ok = FALSE
  BY <1>1, ReturnedEntries, Zenon
<1>3. /\ call'.id = call.id /\ call'.target = None /\ call'.phase = "done"
      /\ call'.expired = expired
      /\ call' \in [id : Nat, target : Expected \cup {None},
                    phase : {"idle", "wait", "done"}, expired : BOOLEAN]
  BY <1>1, Zenon DEF TypeInv
<1>4. TypeInv'
  BY <1>2, <1>3 DEF TypeInv
<1>5. WasInv'
  BY <1>2, <1>3 DEF WasInv
<1>6. GotInv'
  BY <1>1, <1>2, <1>3 DEF GotInv, Answered, Distinct, Nodes
<1>7. DeadlineInv'
  BY <1>2, <1>3 DEF DeadlineInv
<1> QED
  BY <1>4, <1>5, <1>6, <1>7

\* The replies after one more: those of a node that replied before are dropped.
Counted(r) == IF r.node \in Nodes(got) THEN got ELSE Append(got, r)

\* They are as good as those before.
LEMMA CountedReplies ==
  ASSUME FanoutInv, call.phase = "wait", call.target = None, NEW r \in inbox, OwnInbox(r)
  PROVE  /\ Counted(r) \in Seq(Replies) /\ Distinct(Counted(r))
         /\ \A i \in 1 .. Len(Counted(r)) :
              /\ Counted(r)[i].ok => Counted(r)[i].role \in was[Counted(r)[i].node]
              /\ Counted(r)[i].sub # "none"
<1> USE DEF FanoutInv
<1>1. r \in Replies /\ r.sub # "none" /\ (r.ok => r.role \in was[r.node])
  BY DEF TypeInv, WasInv, OwnInbox
<1>2. /\ got \in Seq(Replies) /\ Distinct(got)
      /\ \A i \in 1 .. Len(got) : /\ got[i].ok => got[i].role \in was[got[i].node]
                                  /\ got[i].sub # "none"
  BY DEF TypeInv, WasInv, GotInv, DeadlineInv
<1>3. CASE r.node \in Nodes(got)
  BY <1>2, <1>3 DEF Counted
<1>4. CASE r.node \notin Nodes(got)
  <2> DEFINE s == Append(got, r)
  <2>1. /\ s \in Seq(Replies) /\ Len(s) = Len(got) + 1
        /\ \A i \in 1 .. Len(got) : s[i] = got[i]
        /\ s[Len(got) + 1] = r
    BY <1>1, <1>2
  <2>2. \A i \in 1 .. Len(s) : i \in 1 .. Len(got) \/ i = Len(got) + 1
    BY <1>2, <2>1
  <2>3. \A i \in 1 .. Len(got) : s[i].node # r.node
    BY <1>4, <2>1 DEF Nodes
  <2> HIDE DEF s
  <2>4. Distinct(s)
    BY <1>2, <2>1, <2>2, <2>3 DEF Distinct
  <2>5. \A i \in 1 .. Len(s) : /\ s[i].ok => s[i].role \in was[s[i].node]
                               /\ s[i].sub # "none"
    BY <1>1, <1>2, <2>1, <2>2
  <2>6. Counted(r) = s
    BY <1>4 DEF Counted, s
  <2> QED
    BY <2>1, <2>4, <2>5, <2>6
<1> QED
  BY <1>3, <1>4

\* Enough distinct replies leave no expected peer out, if there are no other peers.
LEMMA EnoughIsAll ==
  ASSUME NEW s \in Seq(Replies), Distinct(s), Enough(s), Node = Expected
  PROVE  Missing(s) = {}
<1>1. IsFiniteSet(Nodes(s)) /\ Cardinality(Nodes(s)) = Len(s)
  BY DistinctCount
<1>2. Nodes(s) \subseteq Expected
  <2>1. \A i \in 1 .. Len(s) : s[i] \in Replies
    OBVIOUS
  <2>2. \A i \in 1 .. Len(s) : s[i].node \in Node
    BY <2>1 DEF Replies
  <2> QED
    BY <2>2 DEF Nodes
<1>3. IsFiniteSet(Expected)
  BY NodesAssumption
<1>4. /\ Cardinality(Nodes(s)) <= Cardinality(Expected)
      /\ Cardinality(Expected) = Cardinality(Nodes(s)) => Expected = Nodes(s)
  BY <1>2, <1>3, FS_Subset
<1>5. Cardinality(Expected) \in Nat /\ Cardinality(Nodes(s)) \in Nat
  BY <1>1, <1>3, FS_CardinalityType
<1>6. Cardinality(Nodes(s)) >= Cardinality(Expected)
  BY <1>1 DEF Enough
<1> QED
  BY <1>4, <1>5, <1>6 DEF Missing

\* NextMsg of a broadcast.
LEMMA ReceiveStep ==
  ASSUME FanoutInv, NEW r \in inbox, Receive(r)
  PROVE  FanoutInv'
<1> DEFINE s == Counted(r)
<1>1. /\ call.phase = "wait" /\ call.target = None /\ OwnInbox(r)
      /\ inbox' \subseteq inbox /\ UNCHANGED <<role, requests, was, program>>
  BY DEF Receive
<1>2. /\ s \in Seq(Replies) /\ Distinct(s)
      /\ \A i \in 1 .. Len(s) : /\ s[i].ok => s[i].role \in was[s[i].node]
                                /\ s[i].sub # "none"
  BY <1>1, CountedReplies
<1>3. \/ Enough(s) /\ Return(s, FALSE)
      \/ got' = s /\ UNCHANGED <<call, status>>
  BY Zenon DEF Receive, Counted
<1> HIDE DEF s
<1>4. CASE Enough(s) /\ Return(s, FALSE)
  <2>1. Node = Expected => Missing(s) = {}
    BY <1>2, <1>4, EnoughIsAll
  <2> QED
    BY <1>1, <1>2, <1>4, <2>1, ReturnStep, Zenon
<1>5. CASE got' = s /\ UNCHANGED <<call, status>>
  <2> USE DEF FanoutInv
  <2>1. TypeInv'
    BY <1>1, <1>2, <1>5 DEF TypeInv
  <2>2. WasInv'
    BY <1>1, <1>2, <1>5 DEF WasInv
  <2>3. GotInv'
    BY <1>1, <1>2, <1>5 DEF GotInv, Answered, Distinct
  <2>4. DeadlineInv'
    BY <1>1, <1>2, <1>5 DEF DeadlineInv
  <2> QED
    BY <2>1, <2>2, <2>3, <2>4
<1> QED
  BY <1>3, <1>4, <1>5, Zenon

\* The answer to a unicast.
LEMMA ReceiveUnicastStep ==
  ASSUME FanoutInv, NEW r \in inbox, ReceiveUnicast(r)
  PROVE  FanoutInv'
<1> USE DEF FanoutInv
<1>1. /\ call.phase = "wait" /\ call.target # None /\ r.call = call.id
      /\ inbox' \subseteq inbox /\ got' = <<r>>
      /\ call' = [call EXCEPT !.phase = "done"]
      /\ UNCHANGED <<role, requests, status, was, program>>
  BY DEF ReceiveUnicast, OwnInbox
<1>2. r \in Replies /\ r.sub # "none" /\ (r.ok => r.role \in was[r.node])
  BY <1>1 DEF TypeInv, WasInv
<1>3. got' \in Seq(Replies) /\ \A i \in 1 .. Len(got') : got'[i] = r
  BY <1>1, <1>2
<1>4. /\ call'.id = call.id /\ call'.target # None /\ call'.phase = "done"
      /\ call' \in [id : Nat, target : Expected \cup {None},
                    phase : {"idle", "wait", "done"}, expired : BOOLEAN]
  BY <1>1 DEF TypeInv
<1>5. TypeInv'
  BY <1>1, <1>3, <1>4 DEF TypeInv
<1>6. WasInv'
  BY <1>1, <1>2, <1>3, <1>4 DEF WasInv
<1>7. GotInv' /\ DeadlineInv'
  BY <1>2, <1>3, <1>4 DEF GotInv, DeadlineInv, Answered
<1> QED
  BY <1>5, <1>6, <1>7

\* The deadline of either call.
LEMMA DeadlineStep ==
  ASSUME FanoutInv, Deadline
  PROVE  FanoutInv'
<1> USE DEF FanoutInv
<1>1. call.phase = "wait" /\ UNCHANGED <<role, requests, inbox, was, program>>
  BY DEF Deadline
<1>2. CASE call.target = None
  <2>1. Return(got, TRUE)
    BY <1>2, Zenon DEF Deadline
  <2>2. /\ got \in Seq(Replies) /\ Distinct(got)
        /\ \A i \in 1 .. Len(got) : got[i].ok => got[i].role \in was[got[i].node]
        /\ \A i \in 1 .. Len(got) : got[i].sub # "none"
    BY <1>1, <1>2 DEF TypeInv, WasInv, GotInv, DeadlineInv
  <2> QED
    BY <1>1, <1>2, <2>1, <2>2, ReturnStep, Zenon
<1>3. CASE call.target # None
  <2>1. /\ got' = <<Unreachable(call.target)>> /\ UNCHANGED status
        /\ call' = [call EXCEPT !.phase = "done", !.expired = TRUE]
    BY <1>3 DEF Deadline
  <2>2. Unreachable(call.target) \in Replies /\ Unreachable(call.target).ok = FALSE
    BY <1>3, NodesAssumption DEF Unreachable, Reply, Replies, TypeInv
  <2>3. got' \in Seq(Replies) /\ \A i \in 1 .. Len(got') : got'[i].ok = FALSE
    BY <2>1, <2>2
  <2>4. /\ call'.id = call.id /\ call'.target # None /\ call'.phase = "done"
        /\ call'.expired = TRUE
        /\ call' \in [id : Nat, target : Expected \cup {None},
                      phase : {"idle", "wait", "done"}, expired : BOOLEAN]
    BY <1>3, <2>1, Zenon DEF TypeInv
  <2>5. TypeInv'
    BY <1>1, <2>3, <2>4 DEF TypeInv
  <2>6. WasInv'
    BY <1>1, <2>3, <2>4 DEF WasInv
  <2>7. GotInv' /\ DeadlineInv'
    BY <2>4 DEF GotInv, DeadlineInv, Answered
  <2> QED
    BY <2>5, <2>6, <2>7
<1> QED
  BY <1>2, <1>3

\* FanoutInv holds in every reachable state.
LEMMA FanoutInvariance == FanoutSpec => []FanoutInv
<1>1. FanoutInv /\ [FanoutNext]_fanoutVars => FanoutInv'
  <2> SUFFICES ASSUME FanoutInv, [FanoutNext]_fanoutVars PROVE FanoutInv'
    OBVIOUS
  <2>1. ASSUME NEW n \in Node, NEW r \in {"primary", "replica", "down"}, RoleChanges(n, r)
        PROVE  FanoutInv'
    BY <2>1, RoleStep
  <2>2. ASSUME NEW q \in requests, Handle(q) PROVE FanoutInv'
    BY <2>2, HandleStep
  <2>3. CASE Publish
    BY <2>3, PublishStep
  <2>4. ASSUME NEW r \in inbox, Receive(r) PROVE FanoutInv'
    BY <2>4, ReceiveStep
  <2>5. ASSUME NEW r \in inbox, ReceiveUnicast(r) PROVE FanoutInv'
    BY <2>5, ReceiveUnicastStep
  <2>6. CASE Deadline
    BY <2>6, DeadlineStep
  <2>7. CASE UNCHANGED fanoutVars
    BY <2>7 DEF FanoutInv, TypeInv, WasInv, GotInv, DeadlineInv, Answered, fanoutVars
  <2> QED
    BY <2>1, <2>2, <2>3, <2>4, <2>5, <2>6, <2>7 DEF FanoutNext
<1> QED
  BY <1>1, InitInv, PTL DEF FanoutSpec

-----------------------------------------------------------------------------
(* What GET /v1/status may rely on *)

\* A status has every configured peer exactly once and no peer twice, and no role
\* in it is from before the call, whatever was lost, late, or of an earlier call.
THEOREM StatusComplete == FanoutSpec => []StatusOfThisCall
<1>1. FanoutInv => StatusOfThisCall
  <2> SUFFICES ASSUME FanoutInv PROVE StatusOfThisCall
    OBVIOUS
  <2>1. ASSUME Answered
        PROVE  /\ Expected \subseteq Nodes(status.instances)
               /\ Len(status.instances) = Cardinality(Nodes(status.instances))
    <3>1. status.instances = got /\ Expected \subseteq Nodes(got) /\ Distinct(got)
      BY <2>1 DEF FanoutInv, GotInv, Answered
    <3>2. Cardinality(Nodes(got)) = Len(got)
      BY <3>1, DistinctCount DEF FanoutInv, TypeInv
    <3> QED
      BY <3>1, <3>2
  <2>2. \A i \in 1 .. Len(got) : got[i].ok => got[i].role \in was[got[i].node]
    BY DEF FanoutInv, WasInv
  <2> QED
    BY <2>1, <2>2 DEF StatusOfThisCall
<1> QED
  BY <1>1, FanoutInvariance, PTL

\* A peer that was primary during the whole call, and whose answer counted, is
\* the primary that the status names.
THEOREM PrimaryNamed == FanoutSpec => []StablePrimaryNamed
<1>1. FanoutInv => StablePrimaryNamed
  <2> SUFFICES ASSUME FanoutInv, Answered, NEW i \in 1 .. Len(got),
                      got[i].ok, was[got[i].node] = {"primary"}
               PROVE  status.primary = got[i].node
    BY DEF StablePrimaryNamed
  <2> DEFINE claims == {k \in 1 .. Len(got) : got[k].ok /\ got[k].role = "primary"}
  <2>1. status.primary = PrimaryOf(got) /\ Distinct(got)
    BY DEF FanoutInv, GotInv, Answered
  <2>2. \A k \in 1 .. Len(got) : got[k].node \in Node
    <3> TAKE k \in 1 .. Len(got)
    <3>1. got[k] \in Replies
      BY DEF FanoutInv, TypeInv
    <3> QED
      BY <3>1 DEF Replies
  <2>3. call.id > 0
    BY DEF FanoutInv, TypeInv, Answered
  <2>4. i \in claims
    BY DEF FanoutInv, WasInv
  <2>5. ASSUME NEW k \in claims PROVE k = i
    <3>1. "primary" \in was[got[k].node]
      BY <2>5 DEF FanoutInv, WasInv
    <3>2. got[k].node = got[i].node
      BY <2>2, <2>3, <3>1 DEF FanoutInv, WasInv
    <3> QED
      BY <2>1, <3>2 DEF Distinct
  <2>6. (CHOOSE k \in claims : \A j \in claims : k <= j) = i
    <3>1. claims = {i}
      BY <2>4, <2>5
    <3>2. i <= i
      OBVIOUS
    <3> HIDE DEF claims
    <3> QED
      BY <3>1, <3>2
  <2>7. PrimaryOf(got) = got[i].node
    BY <2>4, <2>6, Zenon DEF PrimaryOf
  <2> QED
    BY <2>1, <2>7
<1> QED
  BY <1>1, FanoutInvariance, PTL

\* When the configuration names every peer there is, a peer is called unreachable
\* only after the deadline: Broadcast never stops early with one of them missing.
THEOREM NoEarlyUnreachable ==
  ASSUME Node = Expected
  PROVE  FanoutSpec => []UnreachableAfterDeadline
<1>1. FanoutInv => UnreachableAfterDeadline
  BY DEF FanoutInv, DeadlineInv, UnreachableAfterDeadline
<1> QED
  BY <1>1, FanoutInvariance, PTL

=============================================================================
