------------------------------ MODULE Services ------------------------------
(***************************************************************************)
(* One pgman-proxy process from its command line to its exit, and the      *)
(* services that run beside the Manager: the gates of runtime.Start with   *)
(* the configuration they are given, the readiness flags, the operator     *)
(* restart of POST /v1/restart, the storage monitor, the route watcher and *)
(* the replication addresses of the peers.                                 *)
(*                                                                         *)
(* What the gates do to Postgres and to the substrate is in Boot and       *)
(* PeerLease, and what the drain does is in Drain: here a gate passes or   *)
(* fails and the drain is one step.                                        *)
(***************************************************************************)
EXTENDS Config, FiniteSets

CONSTANTS
  Scenarios,  \* what the process is started with, and what may befall it
  Peers,      \* the node ids of the cluster, Self among them
  Self,
  Addrs,      \* replication addresses, host:port
  Nil,        \* no value
  MaxFlaps,   \* bounds the changes of the disk, the routes and the addresses
  MaxRestarts \* bounds the restart requests

ASSUME SelfAssumption == Self \in Peers /\ Nil \notin Peers
\* what the resolver answers when it has no address
ASSUME AddrsAssumption == Addrs \cap {Nil, "error", "missing"} = {}

VARIABLES
  in,        \* the scenario
  cfg,       \* the configuration, Nil until it is loaded
  at,        \* the gate that comes next, "serving", "drain", or "exited"
  exit,      \* the exit code: of a failed gate at once, else after the drain
  health,    \* the readiness signals that have been set
  open,      \* the HTTP servers that accept connections
  presence,  \* DetectSupervisor
  ctx,       \* the host context is cancelled
  why,       \* what has cancelled it (history variable)
  restarts,  \* accepted restarts, those that have not yet fired, the answer
  disk,      \* the JetStream directory: "ok", "unwritable", "full"
  tripped,   \* StorageMonitor.tripped
  fences,    \* how often the self-fence was invoked (history variable)
  lease,     \* the lease adapter: "none", "open", "closed"
  polling,   \* StorageMonitor and RouteWatcher have been started
  routes,    \* the routes of the embedded server: "off", "" (no name yet), a peer
  known,     \* RouteWatcher.known
  last,      \* the last event emitted for a peer (history variable)
  doubled,   \* an event repeated the one before it (history variable)
  kv,        \* the cluster bucket, by key
  published, \* the addresses each peer has published (history variable)
  lookup,    \* a call of the PeerDSNResolver
  flaps      \* the changes of the environment so far

startup == <<cfg, at, exit, health, open, presence>>
stop    == <<ctx, why, restarts>>
storage == <<disk, tripped, fences, lease>>
mesh    == <<polling, routes, known, last, doubled>>
addrs   == <<kv, published, lookup>>
vars    == <<in, startup, stop, storage, mesh, addrs, flaps>>

Gates == {"load", "validate", "obs", "nats", "connect", "substrate", "address",
          "services", "manager", "listen", "control", "audit", "ready"}
Codes == {"ExitOK", "ExitObs", "ExitDeps", "ExitListen", "ExitSingleton",
          "ExitConfig", "ExitDrainTimeout", "ExitInternal", "ExitControl"}
Slots == {1, 2}
NoLookup == [peer |-> Nil, attempt |-> 0, answer |-> Nil]

TypeOK ==
  /\ in \in Scenarios
  /\ cfg = Nil \/ DOMAIN cfg = Keys
  /\ at \in Gates \cup {"serving", "drain", "exited"}
  /\ exit \in Codes \cup {""}
  /\ health \subseteq {"nats", "listener", "manager"}
  /\ open \subseteq {"obs", "control"}
  /\ ctx \in BOOLEAN /\ why \subseteq {"signal", "manager", "restart"}
  /\ restarts.pending \in 0 .. restarts.accepted
  /\ disk \in {"ok", "unwritable", "full"} /\ tripped \in BOOLEAN
  /\ lease \in {"none", "open", "closed"}
  /\ polling \in BOOLEAN /\ routes \in [Slots -> Peers \cup {"off", ""}] /\ known \subseteq Peers
  /\ last \in [Peers -> {"none", "up", "down"}] /\ doubled \in BOOLEAN
  /\ lookup.attempt \in 0 .. 4
  /\ flaps \in 0 .. MaxFlaps

Init ==
  /\ in \in Scenarios
  /\ cfg = Nil /\ at = "load" /\ exit = ""
  /\ health = {} /\ open = {} /\ presence = "none"
  /\ ctx = FALSE /\ why = {}
  /\ restarts = [accepted |-> 0, pending |-> 0, answer |-> "none"]
  /\ disk = "ok" /\ tripped = FALSE /\ fences = 0 /\ lease = "none"
  /\ polling = FALSE /\ routes = [s \in Slots |-> "off"] /\ known = {}
  /\ last = [p \in Peers |-> "none"] /\ doubled = FALSE
  /\ kv = <<>> /\ published = [p \in Peers |-> {}] /\ lookup = NoLookup
  /\ flaps = 0

\* The environment of this scenario may do f, once more.
May(f) == f \in in.faults /\ flaps < MaxFlaps /\ flaps' = flaps + 1

-----------------------------------------------------------------------------
(* The gates of main and Start *)

\* run returns before it has built anything.
Refuse(code) ==
  /\ at' = "exited" /\ exit' = code
  /\ UNCHANGED <<cfg, health, open, presence>>

\* config.Load
LoadConfig ==
  /\ at = "load"
  /\ IF LoadFails(in) THEN Refuse("ExitConfig")
     ELSE /\ cfg' = Load(in) /\ at' = "validate"
          /\ UNCHANGED <<exit, health, open, presence>>
  /\ UNCHANGED <<in, stop, storage, mesh, addrs, flaps>>

\* config.Validate
ValidateConfig ==
  /\ at = "validate"
  /\ IF Problems(cfg) # {} THEN Refuse("ExitConfig")
     ELSE at' = "obs" /\ UNCHANGED <<cfg, exit, health, open, presence>>
  /\ UNCHANGED <<in, stop, storage, mesh, addrs, flaps>>

\* The gate passes, and the next one is to.
Pass(gate, to) == at = gate /\ at' = to

\* A gate fails: StartupError, and main tears down what there is.
Fail(gate, code) ==
  /\ at = gate /\ at' = "drain" /\ exit' = code
  /\ UNCHANGED <<cfg, health, open, presence>>

\* What can fail a gate other than the configuration: a port in use, a
\* dependency that is not there, or a context that is already cancelled.
GateFails ==
  /\ "gates" \in in.faults \/ ctx
  /\ \/ Fail("obs", "ExitObs")
     \/ Fail("nats", "ExitConfig")
     \/ \E gate \in {"nats", "connect", "substrate", "address", "manager"} :
          Fail(gate, "ExitDeps")
     \/ Fail("listen", "ExitListen")
     \/ Fail("control", "ExitControl") /\ cfg.control_listen # ""
     \/ Fail("audit", "ExitControl")
  /\ UNCHANGED <<in, stop, storage, mesh, addrs, flaps>>

\* Gate 3: the obs server, with its readiness endpoint.
ObsGate ==
  /\ Pass("obs", "nats")
  /\ open' = open \cup {"obs"}
  /\ UNCHANGED <<in, cfg, exit, health, presence, stop, storage, mesh, addrs, flaps>>

\* Gate 4: bootEmbeddedNATS.
NATSGate ==
  /\ at = "nats"
  /\ IF PasswordFails(cfg, in) \/ CredentialFails(cfg, in) \/ OptionsFail(cfg, in)
     THEN Fail("nats", "ExitConfig")
     ELSE Pass("nats", "connect") /\ UNCHANGED <<cfg, exit, health, open, presence>>
  /\ UNCHANGED <<in, stop, storage, mesh, addrs, flaps>>

\* Gate 4b: cluster.Connect, and the first readiness signal.
ConnectGate ==
  /\ Pass("connect", "substrate")
  /\ health' = health \cup {"nats"}
  /\ UNCHANGED <<in, cfg, exit, open, presence, stop, storage, mesh, addrs, flaps>>

\* Phase 1 up to BuildHandles, which opens the lease adapter.
SubstrateGate ==
  /\ Pass("substrate", "address")
  /\ lease' = "open"
  /\ UNCHANGED <<in, cfg, exit, health, open, presence, stop, disk, tripped,
                 fences, mesh, addrs, flaps>>

\* PeerAddrKey: sanitizePeerKey keeps a validated node id as it is.
PeerAddrKey(p) == <<"peer", p>>

\* kv.Put
Put(p, addr) ==
  /\ kv' = [k \in DOMAIN kv \cup {PeerAddrKey(p)} |->
              IF k = PeerAddrKey(p) THEN addr ELSE kv[k]]
  /\ published' = [published EXCEPT ![p] = @ \cup {addr}]
  /\ UNCHANGED lookup

\* The history stream; then PublishPeerAddress, for a peer that has one.
AddressGate ==
  /\ Pass("address", "services")
  /\ IF cfg.replication_addr = "" THEN UNCHANGED addrs
     ELSE Put(Self, cfg.replication_addr)
  /\ UNCHANGED <<in, cfg, exit, health, open, presence, stop, storage, mesh, flaps>>

\* The storage monitor and the route watcher start.
ServicesGate ==
  /\ Pass("services", "manager")
  /\ polling' = TRUE
  /\ UNCHANGED <<in, cfg, exit, health, open, presence, stop, storage, routes,
                 known, last, doubled, addrs, flaps>>

\* Gates 6 and 7: Postgres is prepared (Boot), the Manager and the fan-out
\* server are built.
ManagerGate ==
  /\ Pass("manager", "listen")
  /\ UNCHANGED <<in, cfg, exit, health, open, presence, stop, storage, mesh,
                 addrs, flaps>>

\* Gate 8: the data-plane listener.
ListenGate ==
  /\ Pass("listen", "control")
  /\ health' = health \cup {"listener"}
  /\ UNCHANGED <<in, cfg, exit, open, presence, stop, storage, mesh, addrs, flaps>>

\* DetectSupervisor: the first of its signals that is there.
DetectSupervisor ==
  CASE cfg.assume_supervised          -> "assumed"
    [] "KUBERNETES_SERVICE_HOST" \in in.marks -> "kubernetes"
    [] "NOTIFY_SOCKET" \in in.marks   -> "systemd"
    [] "PC_PROC_NAME" \in in.marks    -> "process-compose"
    [] "tini" \in in.marks            -> "tini"
    [] "systemd" \in in.marks         -> "systemd"
    [] OTHER                          -> "none"

\* NewServer loads the key pair it was given.
NewServerFails == Both(cfg.control_cert, cfg.control_key) /\ ~in.tlsOK

\* Start of the control plane's server, in a goroutine.
ServeControl == open' = open \cup {"control"}

\* Gate 10: the control plane serves from here on, before Start is over.
ControlGate ==
  /\ at = "control"
  /\ IF cfg.control_listen = ""
     THEN Pass("control", "ready") /\ UNCHANGED <<exit, open, presence>>
     ELSE IF NewServerFails THEN Fail("control", "ExitControl")
     ELSE /\ Pass("control", "audit")
          /\ presence' = DetectSupervisor
          /\ ServeControl
          /\ UNCHANGED exit
  /\ UNCHANGED <<in, cfg, health, stop, storage, mesh, addrs, flaps>>

\* Gate 11: the history stream has a leader and takes the first record.
AuditGate ==
  /\ Pass("audit", "ready")
  /\ UNCHANGED <<in, cfg, exit, health, open, presence, stop, storage, mesh,
                 addrs, flaps>>

\* Start returns; main starts the Manager.
ReadyGate ==
  /\ Pass("ready", "serving")
  /\ health' = health \cup {"manager"}
  /\ UNCHANGED <<in, cfg, exit, open, presence, stop, storage, mesh, addrs, flaps>>

Gate ==
  \/ LoadConfig \/ ValidateConfig \/ ObsGate \/ NATSGate \/ ConnectGate
  \/ SubstrateGate \/ AddressGate \/ ServicesGate \/ ManagerGate
  \/ ListenGate \/ ControlGate \/ AuditGate \/ ReadyGate

-----------------------------------------------------------------------------
(* The end of the process *)

\* main has installed its signal handlers.
Alive == at \notin {"load", "validate", "exited"}

\* The embedded server has started.
ServerUp == at = "connect" \/ "nats" \in health

\* SIGTERM or SIGINT.
StopSignal ==
  /\ Alive /\ "signal" \in in.faults /\ "signal" \notin why
  /\ ctx' = TRUE /\ why' = why \cup {"signal"}
  /\ UNCHANGED <<in, startup, restarts, storage, mesh, addrs, flaps>>

\* Manager.Start returns: because of the context, or by itself, and then
\* main cancels it.  An error that is not the context's names the exit code.
ManagerReturns ==
  /\ at = "serving" /\ at' = "drain"
  /\ ctx \/ "manager" \in in.faults
  /\ exit' \in IF "manager" \in in.faults
               THEN {"", "ExitSingleton", "ExitInternal"} ELSE {""}
  /\ ctx' = TRUE
  /\ why' = IF ctx THEN why ELSE why \cup {"manager"}
  /\ UNCHANGED <<in, cfg, health, open, presence, restarts, storage, mesh, addrs,
                 flaps>>

\* The servers of obs and of the control plane each watch the context.
ServerCloses ==
  /\ Alive /\ ctx
  /\ \E s \in open : open' = open \ {s}
  /\ UNCHANGED <<in, cfg, at, exit, health, presence, stop, storage, mesh, addrs,
                 flaps>>

\* Drain, and run returns.
DrainAndExit ==
  /\ at = "drain" /\ at' = "exited"
  /\ exit' \in IF exit # "" THEN {exit}
               ELSE {"ExitOK", "ExitDrainTimeout", "ExitInternal"}
  /\ open' = {}
  /\ lease' = IF lease = "open" THEN "closed" ELSE lease
  /\ UNCHANGED <<in, cfg, health, presence, stop, disk, tripped, fences, mesh,
                 addrs, flaps>>

-----------------------------------------------------------------------------
(* POST /v1/restart *)

Answer(a) == restarts' = [restarts EXCEPT !.answer = a]

\* Mutant: the pre-flight looks at the target alone.
RestartProxyUnsupervised(node) ==
  IF node # Self THEN Answer("wrong_peer")
  ELSE restarts' = [accepted |-> restarts.accepted + 1,
                    pending |-> restarts.pending + 1, answer |-> "accepted"]

\* handleRestartProxy: the 200 is written first, and a goroutine will pull the
\* plug once it has been flushed.
RestartProxy(node) ==
  IF node # Self THEN Answer("wrong_peer")
  ELSE IF presence = "none" THEN Answer("supervisor_not_detected")
  ELSE restarts' = [accepted |-> restarts.accepted + 1,
                    pending |-> restarts.pending + 1, answer |-> "accepted"]

\* handleRestartPostgres: no node means this one.  The engine's call may fail.
RestartPostgres(node) ==
  IF node \notin {Self, Nil} THEN Answer("wrong_peer")
  ELSE \E a \in {"accepted", "engine_error"} : Answer(a)

\* handleRestart behind wrap, which may refuse the request (ControlPlane).
RestartRequest ==
  /\ "control" \in open /\ "restart" \in in.faults
  /\ restarts.accepted < MaxRestarts
  /\ \/ \E a \in {"auth_required", "audit_unavailable", "invalid_argument"} : Answer(a)
     \/ \E node \in Peers \cup {Nil} : RestartProxy(node) \/ RestartPostgres(node)
  /\ UNCHANGED <<in, startup, ctx, why, storage, mesh, addrs, flaps>>

\* Mutant: the request's own context is cancelled.
SelfTerminateRequest ==
  /\ Alive /\ restarts.pending > 0
  /\ restarts' = [restarts EXCEPT !.pending = @ - 1]
  /\ UNCHANGED <<in, startup, ctx, why, storage, mesh, addrs, flaps>>

\* The goroutine of handleRestartProxy: SelfTerminate cancels the host context.
SelfTerminate ==
  /\ Alive /\ restarts.pending > 0
  /\ restarts' = [restarts EXCEPT !.pending = @ - 1]
  /\ ctx' = TRUE /\ why' = why \cup {"restart"}
  /\ UNCHANGED <<in, startup, storage, mesh, addrs, flaps>>

-----------------------------------------------------------------------------
(* The storage monitor *)

\* The goroutines of StorageMonitor and RouteWatcher tick.  Their select may
\* still take a tick when the context has just been cancelled.
Polling == polling /\ at # "exited"

DiskChange ==
  /\ Alive /\ May("disk")
  /\ disk' \in {"ok", "unwritable", "full"} \ {disk}
  /\ UNCHANGED <<in, startup, stop, tripped, fences, lease, mesh, addrs>>

\* Mutant: the free space is not looked at.
DegradedWritable == disk = "unwritable"

\* check: stat, a probe file, and the free space.
Degraded == disk # "ok"

\* trip: the first time, the event and the fence, which closes the leadership.
Trip ==
  /\ tripped' = TRUE
  /\ IF tripped THEN UNCHANGED <<fences, lease>>
     ELSE fences' = fences + 1 /\ lease' = "closed"

\* One tick of the monitor, which does not exist without a directory.
StorageTick ==
  /\ Polling /\ cfg.jetstream_dir # ""
  /\ Degraded /\ Trip
  /\ UNCHANGED <<in, startup, stop, disk, mesh, addrs, flaps>>

-----------------------------------------------------------------------------
(* The route watcher *)

\* Routes come without a name, are named once the handshake is over, and go.
RouteChange ==
  /\ Alive /\ ServerUp /\ RoutesEnabled(cfg)
  /\ \E s \in Slots :
       \/ routes[s] = "off" /\ May("routes") /\ routes' = [routes EXCEPT ![s] = ""]
       \/ /\ routes[s] = "" /\ UNCHANGED flaps
          /\ \E p \in Peers \ {Self} : routes' = [routes EXCEPT ![s] = p]
       \/ routes[s] # "off" /\ UNCHANGED flaps /\ routes' = [routes EXCEPT ![s] = "off"]
  /\ UNCHANGED <<in, startup, stop, storage, polling, known, last, doubled, addrs>>

\* The peers with a named route, however many routes they have.
Connected == {routes[s] : s \in Slots} \cap Peers

Emit(ups, downs) ==
  /\ last' = [p \in Peers |-> IF p \in ups THEN "up"
                              ELSE IF p \in downs THEN "down" ELSE last[p]]
  /\ doubled' = \/ doubled
                \/ \E p \in ups : last[p] = "up"
                \/ \E p \in downs : last[p] # "up"

\* Mutant: the peers that have gone are looked for when one has come.
RouteTickOnUp ==
  /\ Polling /\ Connected \ known # {}
  /\ Emit(Connected \ known, known \ Connected)
  /\ known' = Connected
  /\ UNCHANGED <<in, startup, stop, storage, polling, routes, addrs, flaps>>

\* tick: the difference to the last snapshot becomes events.  A snapshot that
\* fails, or differs in nothing, changes nothing.
RouteTick ==
  /\ Polling /\ known # Connected
  /\ Emit(Connected \ known, known \ Connected)
  /\ known' = Connected
  /\ UNCHANGED <<in, startup, stop, storage, polling, routes, addrs, flaps>>

-----------------------------------------------------------------------------
(* Replication addresses *)

\* Another peer boots, with the address it had or with a new one.
PeerPublishes ==
  /\ Alive /\ May("resolve")
  /\ \E p \in Peers \ {Self}, a \in Addrs : Put(p, a)
  /\ UNCHANGED <<in, startup, stop, storage, mesh>>

\* The Manager asks for the DSN of a peer it wants to clone from.
Resolve ==
  /\ at = "serving" /\ "resolve" \in in.faults
  /\ cfg.replication_addr # "" /\ lookup = NoLookup
  /\ \E p \in Peers \ {Self} : lookup' = [NoLookup EXCEPT !.peer = p]
  /\ UNCHANGED <<in, startup, stop, storage, mesh, kv, published, flaps>>

\* The attempts of the resolver, from 0 on: five in all.
LastAttempt == 4

\* One attempt of PeerAddressResolver: found, an error that is not retried,
\* not there yet, or given up because of the context or of the fifth miss.
ResolveAttempt ==
  /\ Alive /\ lookup.peer # Nil /\ lookup.answer = Nil
  /\ LET key == PeerAddrKey(lookup.peer)
     IN  \/ key \in DOMAIN kv /\ lookup' = [lookup EXCEPT !.answer = kv[key]]
         \/ lookup' = [lookup EXCEPT !.answer = "error"]
         \/ /\ key \notin DOMAIN kv
            /\ lookup' = IF ctx \/ lookup.attempt = LastAttempt
                         THEN [lookup EXCEPT !.answer = "missing"]
                         ELSE [lookup EXCEPT !.attempt = @ + 1]
  /\ UNCHANGED <<in, startup, stop, storage, mesh, kv, published, flaps>>

-----------------------------------------------------------------------------

Next ==
  \/ Gate \/ GateFails
  \/ StopSignal \/ ManagerReturns \/ ServerCloses \/ DrainAndExit
  \/ RestartRequest \/ SelfTerminate
  \/ DiskChange \/ StorageTick
  \/ RouteChange \/ RouteTick
  \/ PeerPublishes \/ Resolve \/ ResolveAttempt

\* The scheduler runs the goroutines of the process, the gates have deadlines,
\* the Manager returns when its context is cancelled, and tickers tick until
\* then.
Fairness ==
  /\ WF_vars(Gate) /\ WF_vars(ManagerReturns /\ ctx) /\ WF_vars(DrainAndExit)
  /\ WF_vars(SelfTerminate)
  /\ WF_vars(StorageTick /\ ~ctx) /\ WF_vars(RouteTick /\ ~ctx)

Spec == Init /\ [][Next]_vars /\ Fairness

-----------------------------------------------------------------------------
(* Properties *)

\* What the operator wrote for k, by the documented precedence: flags over
\* environment over file over defaults, and an alias only where nothing
\* canonical is set.
Written(k) ==
  CASE k \in DOMAIN in.flags -> in.flags[k]
    [] k \notin DOMAIN in.flags /\ k \in DOMAIN in.env -> in.env[k]
    [] k \notin DOMAIN in.flags \cup DOMAIN in.env /\ k \in DOMAIN in.alias -> in.alias[k]
    [] OTHER -> IF k \in DOMAIN in.yaml THEN in.yaml[k] ELSE Defaults[k]

SidecarKeys == {"proxy_listen", "health_addr", "metrics_addr", "control_listen"}

\* Load: every key has the value that its strongest layer wrote, but for the
\* listeners of a sidecar, which are never on all interfaces, whichever layers
\* the mode and the address come from (ApplyModeDefaults).
PrecedenceKept ==
  at = "validate" =>
    \A k \in Keys :
      IF /\ Written("deployment_mode") = Sidecar /\ k \in SidecarKeys
         /\ Written(k) \in AllInterfaces
      THEN cfg[k] \in Loopback
      ELSE cfg[k] = Written(k)

\* A process whose embedded server is up listens to other hosts in the clear only where
\* the operator acknowledged it, and never lets a peer into the route mesh
\* without the shared credential.  Validate decides this on the texts of the
\* configuration; BuildOptions and NewServer bind what they make of them.
ExposedByConsent ==
  ServerUp =>
    /\ RoutesEnabled(cfg) /\ RoutesOptions(cfg, in).addr \notin Loopback =>
         /\ RoutesOptions(cfg, in).tls \/ cfg.cluster_ack
         /\ RoutesOptions(cfg, in).auth /\ in.secret = "strong"
    /\ "control" \in open /\ cfg.control_listen \notin Loopback =>
         Both(cfg.control_cert, cfg.control_key) \/ cfg.control_ack

\* A node that served and has gone, though nobody signalled it and its Manager
\* did not give up, has a supervisor that starts it again.
NeverStranded ==
  at = "exited" /\ "manager" \in health /\ why \cap {"signal", "manager"} = {} =>
    presence # "none"

\* A process that has built anything exits only through the drain, whatever
\* ends it: SelfTerminate cancels the host context and main does the rest.
ExitsThroughDrain ==
  [][at' = "exited" /\ at # "exited" => at \in {"load", "validate", "drain"}]_vars

\* A restart that was answered with 200 leads to the exit of the process,
\* whether it fires while Start is still at its last gate, beside a SIGTERM, or
\* after the Manager has returned.
RestartEnds == restarts.pending > 0 ~> at = "exited"

\* The self-fence is invoked at most once in the life of a process, however
\* often the directory goes bad and comes back (tripped.Swap).
FencedOnce == fences <= 1

\* A directory that stays full or unwritable costs the peer its lease, unless
\* the process is stopping anyway, and is fenced for once only.
DegradedFences ==
  /\ []FencedOnce
  /\ Polling /\ cfg.jetstream_dir # "" /\ disk # "ok" ~>
       lease = "closed" \/ disk = "ok" \/ at = "exited"

\* For each peer, route_up and route_down alternate, beginning with route_up,
\* whatever happens to the routes between two ticks (RouteWatcher.known).
RouteEventsAlternate == ~doubled

\* Events alternate, and when the routes have settled the last event of each
\* peer tells whether it is connected, as long as the process runs.
RoutesReported ==
  /\ []RouteEventsAlternate
  /\ <>[](~Polling \/ ctx
          \/ \A p \in Peers : last[p] = "up" <=> p \in Connected)

\* An address that the resolver hands out was published by that very peer.
ResolvedIsPeers ==
  lookup.answer \in Addrs => lookup.answer \in published[lookup.peer]
=============================================================================
