---------------------------- MODULE Boot_proofs -----------------------------
(***************************************************************************)
(* Start-up and reload (Boot), for every number of peers and every         *)
(* scenario.  Each property has an inductive invariant of its own, over    *)
(* the one for the types (BootTypes): what a peer at a given gate may take *)
(* for granted.                                                            *)
(*   ProvenInv  standby.signal is there past the signal gate               *)
(*   RouteInv   file, in-memory copy and server agree unless a pass of     *)
(*              applyOnce is due                                           *)
(* BootFiles_proofs goes on with the store and the configuration files,    *)
(* BootBucket_proofs with the coordination bucket.                         *)
(***************************************************************************)
EXTENDS Boot, TLAPS

-----------------------------------------------------------------------------
(* What the variables hold *)

Options ==
  [clustered : BOOLEAN, routes : SUBSET Nat, password : Nat \cup {None}, name : STRING]
Reading == [new : Configuration, oldPw : Nat]
Phases == Gates \cup {"down", "running"}

\* The gates before the server is up, and the ones after the bucket is tuned.
BeforeServer == {"down", "store", "nats"}
BeforeBucket == {"down", "store", "nats", "meta", "mesh", "lookup"}
AfterSignal == {"conf1", "conf2", "load", "manager", "listen", "audit", "running"}
AfterConf == {"load", "manager", "listen", "audit", "running"}
AfterBucket == {"history", "signal"} \cup AfterSignal

\* Two configurations that differ in what a reload may change.
SameStartup(c, d) == c.size = d.size /\ c.override = d.override /\ c.extras = d.extras

\* The configuration of a process is one that the operator wrote, but for its
\* routes, and only a peer that may boot is at a gate.
PeerTypes(n) ==
  /\ file[n] \in {scenario.start[n]} \cup scenario.writes
  /\ n \notin scenario.nodes => pc[n] \in {"down", "running"}
  /\ pc[n] # "down" =>
       /\ cfg[n] \in Configuration /\ cfg[n].size > 0
       /\ \E c \in {scenario.start[n]} \cup scenario.writes : SameStartup(cfg[n], c)
  /\ pc[n] \in BeforeServer => server[n] = None
  /\ pc[n] \notin BeforeServer =>
       server[n] \in Options /\ server[n].clustered = (cfg[n].size > 1)
  /\ pc[n] # "running" => reading[n] = None
  /\ reading[n] # None => reading[n].new.valid

BootTypes ==
  /\ scenario \in Scenarios
  /\ pc \in [Node -> Phases]
  /\ file \in [Node -> Configs]
  /\ cfg \in [Node -> Configuration \cup {None}]
  /\ server \in [Node -> Options \cup {None}]
  /\ reading \in [Node -> Reading \cup {None}]
  /\ \A n \in Node : PeerTypes(n)

-----------------------------------------------------------------------------
(* Steps, as the variables of every invariant see them *)

\* n goes from one gate to another, on the same side of the server's start.
Moves(n, g) ==
  /\ pc[n] \in Gates /\ g \in Gates \cup {"running"}
  /\ pc[n] \in BeforeServer <=> g \in BeforeServer
  /\ pc' = [pc EXCEPT ![n] = g]
  /\ UNCHANGED <<scenario, reloadVars>>

\* The store and its archives are left alone.
StoreStays == UNCHANGED <<store, archives, made>>

\* A gate past the server's start, which leaves the store to the server.
Passes(n, g) == Moves(n, g) /\ pc[n] \notin BeforeServer /\ StoreStays

\* No process moves and no configuration changes.
Stays == UNCHANGED <<scenario, pc, reloadVars>>

\* A gate of Start: one of the three about the store, or a later one.
LEMMA GateMoves ==
  ASSUME NEW n \in Node, BootStep(n) \/ AttemptLost(n)
  PROVE  \/ ArchiveIncompatibleStore(n) \/ StartServer(n) \/ StoreOpened(n)
         \/ \E g \in Phases : Passes(n, g)
<1> USE DEF Passes, StoreStays, diskVars, Moves, Phases, Gates, KVGates, BeforeServer, GoTo
<1>3. CASE MeshFormed(n)
  BY <1>3 DEF MeshFormed
<1>4. CASE KVLookup(n)
  BY <1>4, Zenon DEF KVLookup, AtKV
<1>5. CASE KVCreate(n)
  BY <1>5 DEF KVCreate, AtKV
<1>6. CASE KVStatus(n)
  BY <1>6, Zenon DEF KVStatus, AtKV
<1>7. CASE KVUpgrade(n)
  BY <1>7 DEF KVUpgrade, AtKV
<1>8. CASE KVStream(n)
  BY <1>8 DEF KVStream, AtKV
<1>9. CASE KVTune(n)
  BY <1>9 DEF KVTune, AtKV
<1>10. CASE EnsureHistoryStream(n)
  BY <1>10 DEF EnsureHistoryStream
<1>11. CASE EnsureStandbySignal(n)
  BY <1>11 DEF EnsureStandbySignal
<1>12. CASE ApplyConf(n)
  BY <1>12 DEF ApplyConf, ApplyFile
<1>13. CASE ApplyHBA(n)
  BY <1>13 DEF ApplyHBA, ApplyFile
<1>14. CASE ReloadPostgres(n)
  BY <1>14 DEF ReloadPostgres
<1>15. CASE BuildManager(n)
  BY <1>15 DEF BuildManager, Step
<1>16. CASE OpenListeners(n)
  BY <1>16 DEF OpenListeners, Step
<1>17. CASE FirstAudit(n)
  BY <1>17 DEF FirstAudit, Step
<1>18. CASE AttemptLost(n)
  BY <1>18 DEF AttemptLost
<1> QED
  BY <1>3, <1>4, <1>5, <1>6, <1>7, <1>8, <1>9, <1>10, <1>11, <1>12,
     <1>13, <1>14, <1>15, <1>16, <1>17, <1>18, Zenon DEF BootStep

\* Every step is one of these.
LEMMA StepKinds ==
  ASSUME Next
  PROVE  \E n \in Node :
           \/ n \in scenario.nodes /\ BootStart(n)
           \/ ArchiveIncompatibleStore(n) \/ StartServer(n) \/ StoreOpened(n)
           \/ \E g \in Phases : Passes(n, g)
           \/ Stays /\ StoreStays
           \/ StopsOrCrashes(n)
           \/ n \in scenario.nodes /\ Edit(n)
           \/ Signal(n)
           \/ HandleSIGHUP(n)
<1>1. PICK n \in Node :
        \/ n \in scenario.nodes /\ BootStart(n)
        \/ BootStep(n) \/ AttemptLost(n)
        \/ LateWrite(n) \/ InitDB(n) \/ StartPostgres(n) \/ Promote(n) \/ PostgresStops(n)
        \/ StopsOrCrashes(n)
        \/ n \in scenario.nodes /\ Edit(n)
        \/ Signal(n)
        \/ HandleSIGHUP(n)
  BY Zenon DEF Next
<1>2. ASSUME LateWrite(n) \/ InitDB(n) \/ StartPostgres(n) \/ Promote(n) \/ PostgresStops(n)
      PROVE  Stays /\ StoreStays
  BY <1>2 DEF StoreStays, diskVars, LateWrite, InitDB, StartPostgres, Promote, PostgresStops, Stays
<1> QED
  BY <1>1, <1>2, GateMoves, Zenon

\* What the gates about the store do to the process.
LEMMA StoreGateMoves ==
  ASSUME NEW n \in Node
  PROVE  /\ ArchiveIncompatibleStore(n) => Moves(n, "nats") /\ "nats" \in Phases
         /\ StoreOpened(n) => Moves(n, "mesh") /\ "mesh" \in Phases
BY DEF ArchiveIncompatibleStore, StoreOpened, GoTo, Moves, Phases, Gates, KVGates, BeforeServer

\* What bootEmbeddedNATS hands to the server.
LEMMA OptionsBuilt ==
  ASSUME NEW c \in Configuration, NEW p \in Nat
  PROVE  /\ optionsFromConfig(c, p) \in Options
         /\ optionsFromConfig(c, p).clustered = (c.size > 1)
         /\ optionsFromConfig(c, p).routes = (IF c.size > 1 THEN c.routes ELSE {})
BY DEF optionsFromConfig, BuildOptions, Options, Configuration

\* What the program finds at the outset has the types.
LEMMA TypesInit == Init => BootTypes
<1> SUFFICES ASSUME Init PROVE BootTypes
  OBVIOUS
<1>1. /\ scenario \in Scenarios
      /\ scenario.start \in [Node -> Configs] /\ scenario.up \subseteq Node
      /\ \A n \in scenario.up : scenario.start[n].size > 1
  BY ScenariosAssumption DEF Init
<1>2. \A n \in Node : file[n] = scenario.start[n] /\ file[n] \in Configs /\ file[n] \in Configuration
  BY <1>1, ConfigsAssumption DEF Init
<1>3. \A n \in Node : /\ file[n].password \in Nat
                      /\ optionsFromConfig(file[n], file[n].password) \in Options
                      /\ optionsFromConfig(file[n], file[n].password).clustered = (file[n].size > 1)
  <2> TAKE n \in Node
  <2>1. file[n].password \in Nat
    BY <1>2 DEF Configuration
  <2> QED
    BY <1>2, <2>1, OptionsBuilt
<1>4. /\ pc \in [Node -> Phases] /\ file \in [Node -> Configs]
      /\ cfg \in [Node -> Configuration \cup {None}]
      /\ server \in [Node -> Options \cup {None}]
      /\ reading \in [Node -> Reading \cup {None}]
  BY <1>1, <1>2, <1>3 DEF Init, Phases
<1>5. ASSUME NEW n \in Node PROVE PeerTypes(n)
  <2>1. CASE n \in scenario.up
    <3>1. /\ pc[n] = "running" /\ cfg[n] = file[n] /\ reading[n] = None
          /\ server[n] = optionsFromConfig(file[n], file[n].password)
      BY <2>1 DEF Init
    <3>2. cfg[n].size > 0
      <4>1. cfg[n].size \in Nat /\ cfg[n].size > 1
        BY <3>1, <2>1, <1>1, <1>2 DEF Configuration
      <4> QED
        BY <4>1
    <3> QED
      BY <3>1, <3>2, <1>2, <1>3 DEF BeforeServer, SameStartup, PeerTypes
  <2>2. CASE n \notin scenario.up
    <3>1. pc[n] = "down" /\ server[n] = None /\ reading[n] = None
      BY <2>2 DEF Init
    <3> QED
      BY <3>1, <1>2 DEF BeforeServer, PeerTypes
  <2> QED
    BY <2>1, <2>2
<1> QED
  BY <1>1, <1>4, <1>5 DEF BootTypes

\* A peer of which nothing changed keeps its types.
LEMMA OthersKeep ==
  ASSUME NEW m \in Node, PeerTypes(m), scenario' = scenario,
         file'[m] = file[m], pc'[m] = pc[m], cfg'[m] = cfg[m],
         server'[m] = server[m], reading'[m] = reading[m]
  PROVE  PeerTypes(m)'
BY Zenon DEF PeerTypes

\* Every step of start-up, of the operator and of a reload keeps the types.
LEMMA TypesStep == BootTypes /\ [Next]_vars => BootTypes'
<1> SUFFICES ASSUME BootTypes, [Next]_vars PROVE BootTypes'
  OBVIOUS
<1> USE DEF BootTypes
<1>0. /\ scenario \in Scenarios /\ scenario.start \in [Node -> Configs] /\ scenario.writes \subseteq Configs
      /\ scenario.nodes \subseteq Node
      /\ \A c \in Configs : c \in Configuration /\ (c.valid => c.size > 0)
  BY ScenariosAssumption, ConfigsAssumption
<1>1. CASE UNCHANGED vars \/ Stays
  <2>1. UNCHANGED <<scenario, pc, file, cfg, server, reading>>
    BY <1>1 DEF vars, Stays, reloadVars
  <2> QED
    BY <2>1, OthersKeep
<1>2. ASSUME NEW n \in Node, n \in scenario.nodes, BootStart(n) PROVE BootTypes'
  <2>1. /\ pc[n] = "down" /\ file[n].valid /\ pc' = [pc EXCEPT ![n] = "store"]
        /\ cfg' = [cfg EXCEPT ![n] = file[n]]
        /\ UNCHANGED <<scenario, file, server, reading>>
    BY <1>2 DEF BootStart, GoTo
  <2>2. file[n] \in Configuration /\ file[n].size > 0
    BY <2>1, <1>0
  <2>3. pc' \in [Node -> Phases] /\ cfg' \in [Node -> Configuration \cup {None}]
    BY <2>1, <2>2 DEF Phases, Gates
  <2>4. PeerTypes(n)'
    BY <2>1, <2>2, <1>2 DEF PeerTypes, BeforeServer, SameStartup
  <2>5. ASSUME NEW m \in Node, m # n PROVE PeerTypes(m)'
    BY <2>1, <2>5, OthersKeep
  <2> QED
    BY <2>1, <2>3, <2>4, <2>5
<1>3. ASSUME NEW n \in Node, StartServer(n) PROVE BootTypes'
  <2>1. /\ pc[n] = "nats" /\ pc' = [pc EXCEPT ![n] = "meta"]
        /\ server' = [server EXCEPT ![n] = optionsFromConfig(cfg[n], file[n].password)]
        /\ UNCHANGED <<scenario, file, cfg, reading>>
    BY <1>3 DEF StartServer, GoTo
  <2>2. PeerTypes(n) /\ cfg[n] \in Configuration /\ file[n].password \in Nat
    BY <2>1, <1>0 DEF PeerTypes, Configuration
  <2>3. server'[n] \in Options /\ server'[n].clustered = (cfg[n].size > 1)
    BY <2>1, <2>2, OptionsBuilt
  <2>4. pc' \in [Node -> Phases] /\ server' \in [Node -> Options \cup {None}]
    BY <2>1, <2>3 DEF Phases, Gates
  <2>5. PeerTypes(n)'
    BY <2>1, <2>2, <2>3 DEF PeerTypes, BeforeServer
  <2>6. ASSUME NEW m \in Node, m # n PROVE PeerTypes(m)'
    BY <2>1, <2>6, OthersKeep
  <2> QED
    BY <2>1, <2>4, <2>5, <2>6
<1>4. ASSUME NEW n \in Node, NEW g \in Phases, Moves(n, g) PROVE BootTypes'
  <2>1. /\ pc[n] \in Gates /\ g \in Gates \cup {"running"}
        /\ pc[n] \in BeforeServer <=> g \in BeforeServer
        /\ pc' = [pc EXCEPT ![n] = g]
        /\ UNCHANGED <<scenario, file, cfg, server, reading>>
    BY <1>4 DEF Moves, reloadVars
  <2>2. pc[n] # "down" /\ pc[n] # "running"
    BY <2>1 DEF Gates, KVGates
  <2>3. pc' \in [Node -> Phases] /\ pc'[n] = g
    BY <2>1
  <2>4. PeerTypes(n)'
    BY <2>1, <2>2, <2>3 DEF PeerTypes
  <2>5. ASSUME NEW m \in Node, m # n PROVE PeerTypes(m)'
    BY <2>1, <2>5, OthersKeep
  <2> QED
    BY <2>1, <2>3, <2>4, <2>5
<1>5. ASSUME NEW n \in Node, StopsOrCrashes(n) PROVE BootTypes'
  <2>1. /\ pc' = [pc EXCEPT ![n] = "down"] /\ cfg' = [cfg EXCEPT ![n] = None]
        /\ server' = [server EXCEPT ![n] = None] /\ reading' = [reading EXCEPT ![n] = None]
        /\ UNCHANGED <<scenario, file>>
    BY <1>5 DEF StopsOrCrashes, GoTo
  <2>2. /\ pc' \in [Node -> Phases] /\ cfg' \in [Node -> Configuration \cup {None}]
        /\ server' \in [Node -> Options \cup {None}] /\ reading' \in [Node -> Reading \cup {None}]
    BY <2>1 DEF Phases
  <2>3. PeerTypes(n)'
    BY <2>1 DEF PeerTypes, BeforeServer
  <2>4. ASSUME NEW m \in Node, m # n PROVE PeerTypes(m)'
    BY <2>1, <2>4, OthersKeep
  <2> QED
    BY <2>1, <2>2, <2>3, <2>4
<1>6. ASSUME NEW n \in Node, n \in scenario.nodes, Edit(n) PROVE BootTypes'
  <2>1. PICK c \in Configs : file' = [file EXCEPT ![n] = c] /\ c \in scenario.writes
    BY <1>6, Zenon DEF Edit, OperatorEdits
  <2>2. UNCHANGED <<scenario, pc, cfg, server, reading>>
    BY <1>6 DEF Edit, OperatorEdits, bootVarsAround
  <2>3. file' \in [Node -> Configs]
    BY <2>1
  <2>4. PeerTypes(n)'
    BY <2>1, <2>2 DEF PeerTypes
  <2>5. ASSUME NEW m \in Node, m # n PROVE PeerTypes(m)'
    BY <2>1, <2>2, <2>5, OthersKeep
  <2> QED
    BY <2>2, <2>3, <2>4, <2>5
<1>7. ASSUME NEW n \in Node, Signal(n) PROVE BootTypes'
  <2>1. UNCHANGED <<scenario, pc, file, cfg, server, reading>>
    BY <1>7 DEF Signal, OperatorSignals, bootVarsAround
  <2> QED
    BY <2>1, OthersKeep
<1>8. ASSUME NEW n \in Node, HandleSIGHUP(n) PROVE BootTypes'
  <2>1. pc[n] = "running" /\ UNCHANGED <<scenario, pc>> /\ (ReloadRead(n) \/ ReloadApply(n))
    BY <1>8 DEF HandleSIGHUP, bootVarsAround
  <2>2. /\ PeerTypes(n) /\ cfg[n] \in Configuration /\ server[n] \in Options
        /\ file[n] \in Configs /\ file[n] \in Configuration /\ file[n].password \in Nat
    BY <2>1, <1>0 DEF PeerTypes, BeforeServer, Configuration
  <2>3. CASE ReloadRead(n)
    <3>1. UNCHANGED <<file, cfg, server>>
      BY <2>3 DEF ReloadRead
    <3>2. \/ UNCHANGED reading
          \/ /\ file[n].valid
             /\ reading' = [reading EXCEPT ![n] = [new |-> file[n], oldPw |-> file[n].password]]
      BY <2>3 DEF ReloadRead
    <3>3. [new |-> file[n], oldPw |-> file[n].password] \in Reading
      BY <2>2 DEF Reading
    <3>4. reading' \in [Node -> Reading \cup {None}]
      BY <3>2, <3>3
    <3>5. PeerTypes(n)'
      BY <2>1, <2>2, <3>1, <3>2 DEF PeerTypes
    <3>6. ASSUME NEW m \in Node, m # n PROVE PeerTypes(m)'
      <4>1. reading'[m] = reading[m]
        BY <3>2, <3>6
      <4> QED
        BY <2>1, <3>1, <4>1, OthersKeep
    <3> QED
      BY <2>1, <3>1, <3>4, <3>5, <3>6
  <2>4. CASE ReloadApply(n)
    <3>1. /\ reading' = [reading EXCEPT ![n] = None] /\ UNCHANGED file
          /\ reading[n] \in Reading
      BY <2>4 DEF ReloadApply
    <3>2. PICK o : o = optionsFromConfig(reading[n].new, file[n].password)
      OBVIOUS
    <3>3. o \in Options /\ reading[n].new.routes \in SUBSET Nat
      <4>1. reading[n].new \in Configuration
        BY <3>1 DEF Reading
      <4> QED
        BY <4>1, <3>2, <2>2, OptionsBuilt, Zenon DEF Configuration
    <3>4. \/ UNCHANGED <<server, cfg>>
          \/ /\ server' = [server EXCEPT ![n] = ReloadOptions(@, o)]
             /\ cfg' = [cfg EXCEPT ![n].routes = reading[n].new.routes]
      BY <2>4, <3>2 DEF ReloadApply
    <3>5. /\ ReloadOptions(server[n], o) \in Options
          /\ ReloadOptions(server[n], o).clustered = server[n].clustered
      BY <2>2, <3>3, Zenon DEF ReloadOptions, Options
    <3>6. /\ [cfg[n] EXCEPT !.routes = reading[n].new.routes] \in Configuration
          /\ [cfg[n] EXCEPT !.routes = reading[n].new.routes].size = cfg[n].size
          /\ SameStartup([cfg[n] EXCEPT !.routes = reading[n].new.routes], cfg[n])
      BY <2>2, <3>3, Zenon DEF Configuration, SameStartup
    <3>7. /\ server'[n] \in Options /\ server'[n].clustered = server[n].clustered
          /\ cfg'[n] \in Configuration /\ SameStartup(cfg'[n], cfg[n])
          /\ \A m \in Node \ {n} : server'[m] = server[m] /\ cfg'[m] = cfg[m]
      <4>1. CASE UNCHANGED <<server, cfg>>
        BY <4>1, <2>2 DEF SameStartup
      <4>2. CASE /\ server' = [server EXCEPT ![n] = ReloadOptions(@, o)]
                 /\ cfg' = [cfg EXCEPT ![n].routes = reading[n].new.routes]
        BY <4>2, <3>5, <3>6
      <4> QED
        BY <4>1, <4>2, <3>4
    <3>8. /\ server' \in [Node -> Options \cup {None}] /\ cfg' \in [Node -> Configuration \cup {None}]
          /\ reading' \in [Node -> Reading \cup {None}]
      <4>1. CASE UNCHANGED <<server, cfg>>
        BY <4>1, <3>1
      <4>2. CASE /\ server' = [server EXCEPT ![n] = ReloadOptions(@, o)]
                 /\ cfg' = [cfg EXCEPT ![n].routes = reading[n].new.routes]
        BY <4>2, <3>1, <3>5, <3>6
      <4> QED
        BY <4>1, <4>2, <3>4
    <3>9. PeerTypes(n)'
      <4>1. PICK c \in {scenario.start[n]} \cup scenario.writes : SameStartup(cfg[n], c)
        BY <2>1, <2>2 DEF PeerTypes
      <4>2. SameStartup(cfg'[n], c) /\ cfg'[n].size > 0 /\ cfg'[n].size = cfg[n].size
        BY <4>1, <3>7, <2>1, <2>2 DEF SameStartup, PeerTypes
      <4>3. server'[n].clustered = (cfg'[n].size > 1)
        BY <4>2, <3>7, <2>1, <2>2 DEF PeerTypes, BeforeServer
      <4>4. pc'[n] = "running" /\ reading'[n] = None
        BY <2>1, <3>1
      <4> QED
        BY <4>1, <4>2, <4>3, <4>4, <2>1, <2>2, <3>1, <3>7 DEF PeerTypes, BeforeServer
    <3>10. ASSUME NEW m \in Node, m # n PROVE PeerTypes(m)'
      BY <2>1, <3>1, <3>7, <3>10, OthersKeep
    <3> QED
      BY <2>1, <3>1, <3>8, <3>9, <3>10
  <2> QED
    BY <2>1, <2>3, <2>4
<1> QED
  BY <1>1, <1>2, <1>3, <1>4, <1>5, <1>6, <1>7, <1>8, StepKinds, StoreGateMoves, Zenon DEF Passes

\* The types hold throughout.
LEMMA TypesInvariance == Spec => []BootTypes
BY TypesInit, TypesStep, PTL DEF Spec

\* The reload of a running server keeps declared_size.
LEMMA ReloadKeepsStartup ==
  ASSUME BootTypes, NEW n \in Node, HandleSIGHUP(n), NEW m \in Node, pc[m] # "down"
  PROVE  SameStartup(cfg'[m], cfg[m]) /\ (m # n => cfg'[m] = cfg[m])
<1>1. pc[n] = "running" /\ (ReloadRead(n) \/ ReloadApply(n))
  BY DEF HandleSIGHUP
<1>2. UNCHANGED cfg \/ cfg' = [cfg EXCEPT ![n].routes = reading[n].new.routes]
  BY <1>1 DEF ReloadRead, ReloadApply
<1>3. cfg \in [Node -> Configuration \cup {None}] /\ cfg[m] \in Configuration
  BY DEF BootTypes, PeerTypes
<1>4. CASE UNCHANGED cfg
  BY <1>4 DEF SameStartup
<1>5. CASE cfg' = [cfg EXCEPT ![n].routes = reading[n].new.routes]
  BY <1>5, <1>3 DEF SameStartup, Configuration
<1> QED
  BY <1>2, <1>4, <1>5

-----------------------------------------------------------------------------
(* PGDATA *)

\* Past the signal gate a database of an earlier process has standby.signal.
PeerProven(n) ==
  n \in scenario.nodes /\ pc[n] \in AfterSignal /\ pgdata[n] = "complete" => signal[n] \/ proven[n]

ProvenInv ==
  /\ signal \in [Node -> BOOLEAN] /\ proven \in [Node -> BOOLEAN]
  /\ pgdata \in [Node -> {"empty", "complete"}]
  /\ pg = [n \in Node |-> pg[n]]
  /\ \A n \in Node : PeerProven(n)

DataStays == UNCHANGED <<pgdata, signal, proven, conf>>

\* A gate that leaves PGDATA alone.  A postmaster may be reloaded, not started.
Beside(n, g) ==
  /\ pc' = [pc EXCEPT ![n] = g]
  /\ g \in AfterSignal => pc[n] \in AfterConf /\ g \in AfterConf
  /\ DataStays /\ UNCHANGED <<scenario, cfg>>
  /\ pg' = pg \/ pg' = [pg EXCEPT ![n] = IF changed[n] /\ @ # None THEN conf[n] ELSE @]

\* A gate of Start: one of the three about PGDATA, or one that leaves it alone.
LEMMA GateData ==
  ASSUME NEW n \in Node, BootStep(n) \/ AttemptLost(n)
  PROVE  \/ EnsureStandbySignal(n) \/ ApplyConf(n) \/ ApplyHBA(n)
         \/ \E g \in Phases : Beside(n, g)
<1> USE DEF Beside, reloadVars, DataStays, diskVars, pgVars, Phases, Gates, KVGates,
            AfterSignal, AfterConf, GoTo
<1>1. CASE ArchiveIncompatibleStore(n)
  BY <1>1 DEF ArchiveIncompatibleStore
<1>2. CASE StartServer(n)
  BY <1>2 DEF StartServer
<1>3. CASE StoreOpened(n) \/ MeshFormed(n)
  BY <1>3 DEF StoreOpened, MeshFormed
<1>4. CASE KVLookup(n)
  BY <1>4, Zenon DEF KVLookup, AtKV
<1>5. CASE KVCreate(n)
  BY <1>5 DEF KVCreate, AtKV
<1>6. CASE KVStatus(n)
  BY <1>6, Zenon DEF KVStatus, AtKV
<1>7. CASE KVUpgrade(n)
  BY <1>7 DEF KVUpgrade, AtKV
<1>8. CASE KVStream(n)
  BY <1>8 DEF KVStream, AtKV
<1>9. CASE KVTune(n)
  BY <1>9 DEF KVTune, AtKV
<1>10. CASE EnsureHistoryStream(n)
  BY <1>10 DEF EnsureHistoryStream
<1>14. CASE ReloadPostgres(n)
  BY <1>14 DEF ReloadPostgres
<1>15. CASE BuildManager(n)
  BY <1>15 DEF BuildManager, Step
<1>16. CASE OpenListeners(n)
  BY <1>16 DEF OpenListeners, Step
<1>17. CASE FirstAudit(n)
  BY <1>17 DEF FirstAudit, Step
<1>18. CASE AttemptLost(n)
  BY <1>18 DEF AttemptLost
<1> QED
  BY <1>1, <1>2, <1>3, <1>4, <1>5, <1>6, <1>7, <1>8, <1>9, <1>10,
     <1>14, <1>15, <1>16, <1>17, <1>18, Zenon DEF BootStep

\* PGDATA of a peer that gets no nearer to its Postgres.
LEMMA ProvenKept ==
  ASSUME NEW m \in Node, PeerProven(m), scenario' = scenario,
         pgdata'[m] = pgdata[m], signal'[m] = signal[m], proven'[m] = proven[m],
         pc'[m] \in AfterSignal => pc[m] \in AfterSignal
  PROVE  PeerProven(m)'
BY Zenon DEF PeerProven

\* At the outset no peer that may boot is past the signal gate with a database.
LEMMA ProvenInit == Init => ProvenInv
<1> SUFFICES ASSUME Init PROVE ProvenInv
  OBVIOUS
<1>1. /\ scenario.pgdata \in {"empty", "complete"}
      /\ scenario.pgdata = "complete" => scenario.up \cap scenario.nodes = {}
  BY ScenariosAssumption DEF Init
<1>2. /\ signal \in [Node -> BOOLEAN] /\ proven \in [Node -> BOOLEAN]
      /\ pgdata \in [Node -> {"empty", "complete"}]
      /\ pg = [n \in Node |-> pg[n]]
  BY <1>1 DEF Init
<1>3. ASSUME NEW n \in Node PROVE PeerProven(n)
  BY <1>1 DEF PeerProven, Init, AfterSignal
<1> QED
  BY <1>2, <1>3 DEF ProvenInv

\* A database that this process did not make has standby.signal from the signal
\* gate on, and a postmaster starts only past that gate.
LEMMA ProvenStep ==
  BootTypes /\ ProvenInv /\ [Next]_vars
    => /\ ProvenInv'
       /\ \A n \in Node : pg[n] = None /\ pg'[n] # None => signal[n] \/ proven[n]
<1> SUFFICES ASSUME BootTypes, ProvenInv, [Next]_vars
             PROVE  /\ ProvenInv'
                    /\ \A n \in Node : pg[n] = None /\ pg'[n] # None => signal[n] \/ proven[n]
  OBVIOUS
<1> USE DEF ProvenInv
<1>1. ASSUME UNCHANGED <<scenario, pgdata, signal, proven>>,
             \A m \in Node : pc'[m] \in AfterSignal => pc[m] \in AfterSignal,
             pg' = [m \in Node |-> pg'[m]]
      PROVE  ProvenInv'
  BY <1>1, ProvenKept
<1>2. CASE UNCHANGED vars
  <2>1. UNCHANGED <<scenario, pgdata, signal, proven, pc, pg>>
    BY <1>2 DEF vars, diskVars, pgVars
  <2> QED
    BY <1>1, <2>1
<1>3. ASSUME NEW n \in Node, BootStart(n)
      PROVE  ProvenInv' /\ UNCHANGED pg
  <2>1. /\ pc' = [pc EXCEPT ![n] = "store"] /\ proven' = [proven EXCEPT ![n] = FALSE]
        /\ UNCHANGED <<scenario, pgdata, signal, pg>>
    BY <1>3 DEF BootStart, GoTo, diskVars
  <2>2. PeerProven(n)'
    BY <2>1 DEF PeerProven, BootTypes, AfterSignal
  <2>3. ASSUME NEW m \in Node, m # n PROVE PeerProven(m)'
    <3>1. pc'[m] = pc[m] /\ proven'[m] = proven[m]
      BY <2>1, <2>3 DEF BootTypes
    <3> QED
      BY <2>1, <3>1, ProvenKept, Zenon
  <2>4. proven' \in [Node -> BOOLEAN]
    BY <2>1
  <2> QED
    BY <2>1, <2>2, <2>3, <2>4
<1>4. ASSUME NEW n \in Node, NEW g \in Phases, Beside(n, g)
      PROVE  ProvenInv' /\ \A m \in Node : pg[m] = None => pg'[m] = None
  <2>1. \A m \in Node : pc'[m] \in AfterSignal => pc[m] \in AfterSignal
    BY <1>4 DEF Beside, AfterSignal, AfterConf, BootTypes
  <2>2. pg' = [m \in Node |-> pg'[m]] /\ \A m \in Node : pg[m] = None => pg'[m] = None
    BY <1>4 DEF Beside
  <2>3. UNCHANGED <<scenario, pgdata, signal, proven>>
    BY <1>4 DEF Beside, DataStays
  <2> QED
    BY <1>1, <2>1, <2>2, <2>3
<1>5. ASSUME NEW n \in Node, EnsureStandbySignal(n)
      PROVE  ProvenInv' /\ UNCHANGED pg
  <2>1. /\ pc' = [pc EXCEPT ![n] = "conf1"] /\ UNCHANGED <<scenario, pgdata, proven, pg>>
        /\ signal' = [signal EXCEPT ![n] = @ \/ pgdata[n] = "complete"]
    BY <1>5 DEF EnsureStandbySignal, GoTo, pgVars
  <2>2. signal' \in [Node -> BOOLEAN]
    BY <2>1
  <2>3. PeerProven(n)'
    BY <2>1, Zenon DEF PeerProven
  <2>4. ASSUME NEW m \in Node, m # n PROVE PeerProven(m)'
    <3>1. pc'[m] = pc[m] /\ signal'[m] = signal[m]
      BY <2>1, <2>4 DEF BootTypes
    <3> QED
      BY <2>1, <3>1, ProvenKept
  <2> QED
    BY <2>1, <2>2, <2>3, <2>4
<1>6. ASSUME NEW n \in Node, ApplyConf(n) \/ ApplyHBA(n)
      PROVE  ProvenInv' /\ UNCHANGED pg
  <2>1. /\ pc[n] \in {"conf1", "conf2"} /\ UNCHANGED <<scenario, pgdata, signal, proven, pg>>
        /\ \E g : pc' = [pc EXCEPT ![n] = g]
    BY <1>6 DEF ApplyConf, ApplyHBA, ApplyFile, GoTo
  <2>2. \A m \in Node : pc'[m] \in AfterSignal => pc[m] \in AfterSignal
    BY <2>1 DEF AfterSignal, BootTypes
  <2> QED
    BY <1>1, <2>1, <2>2
<1>7. ASSUME NEW n \in Node, LateWrite(n)
      PROVE  ProvenInv' /\ UNCHANGED pg
  <2>1. UNCHANGED <<scenario, pgdata, signal, proven, pc, pg>>
    BY <1>7 DEF LateWrite, diskVars, pgVars
  <2> QED
    BY <1>1, <2>1
<1>8. ASSUME NEW n \in Node, StopsOrCrashes(n)
      PROVE  ProvenInv' /\ UNCHANGED pg
  <2>1. pc' = [pc EXCEPT ![n] = "down"] /\ UNCHANGED <<scenario, pgdata, signal, proven, pg>>
    BY <1>8 DEF StopsOrCrashes, GoTo, diskVars, pgVars
  <2>2. \A m \in Node : pc'[m] \in AfterSignal => pc[m] \in AfterSignal
    BY <2>1 DEF AfterSignal, BootTypes
  <2> QED
    BY <1>1, <2>1, <2>2
<1>9. ASSUME NEW n \in Node, InitDB(n)
      PROVE  ProvenInv' /\ UNCHANGED pg
  <2>1. /\ pgdata' = [pgdata EXCEPT ![n] = "complete"] /\ proven' = [proven EXCEPT ![n] = TRUE]
        /\ UNCHANGED <<scenario, pc, signal, pg>>
    BY <1>9 DEF InitDB
  <2>2. /\ proven' \in [Node -> BOOLEAN] /\ pgdata' \in [Node -> {"empty", "complete"}]
        /\ proven'[n]
    BY <2>1
  <2>3. PeerProven(n)'
    BY <2>2 DEF PeerProven
  <2>4. ASSUME NEW m \in Node, m # n PROVE PeerProven(m)'
    <3>1. pgdata'[m] = pgdata[m] /\ proven'[m] = proven[m]
      BY <2>1, <2>4
    <3> QED
      BY <2>1, <3>1, ProvenKept, Zenon
  <2> QED
    BY <2>1, <2>2, <2>3, <2>4
<1>10. ASSUME NEW n \in Node, StartPostgres(n)
       PROVE  ProvenInv' /\ \A m \in Node : pg[m] = None /\ pg'[m] # None => signal[m] \/ proven[m]
  <2>1. /\ pc[n] = "running" /\ n \in scenario.nodes /\ pgdata[n] = "complete"
        /\ pg' = [pg EXCEPT ![n] = conf[n]]
        /\ UNCHANGED <<scenario, pc, pgdata, signal, proven>>
    BY <1>10 DEF StartPostgres, diskVars
  <2>2. signal[n] \/ proven[n]
    BY <2>1 DEF PeerProven, AfterSignal
  <2>3. pg' = [m \in Node |-> pg'[m]] /\ \A m \in Node \ {n} : pg'[m] = pg[m]
    BY <2>1
  <2> QED
    BY <1>1, <2>1, <2>2, <2>3
<1>11. ASSUME NEW n \in Node, Promote(n)
       PROVE  ProvenInv' /\ UNCHANGED pg
  <2>1. /\ signal' = [signal EXCEPT ![n] = FALSE] /\ proven' = [proven EXCEPT ![n] = TRUE]
        /\ UNCHANGED <<scenario, pc, pgdata, pg>>
    BY <1>11 DEF Promote
  <2>2. signal' \in [Node -> BOOLEAN] /\ proven' \in [Node -> BOOLEAN] /\ proven'[n]
    BY <2>1
  <2>3. PeerProven(n)'
    BY <2>2 DEF PeerProven
  <2>4. ASSUME NEW m \in Node, m # n PROVE PeerProven(m)'
    <3>1. signal'[m] = signal[m] /\ proven'[m] = proven[m]
      BY <2>1, <2>4
    <3> QED
      BY <2>1, <3>1, ProvenKept, Zenon
  <2> QED
    BY <2>1, <2>2, <2>3, <2>4
<1>12. ASSUME NEW n \in Node, PostgresStops(n)
       PROVE  ProvenInv' /\ \A m \in Node : pg[m] = None => pg'[m] = None
  <2>1. pg' = [pg EXCEPT ![n] = None] /\ UNCHANGED <<scenario, pc, pgdata, signal, proven>>
    BY <1>12 DEF PostgresStops, diskVars
  <2>2. pg' = [m \in Node |-> pg'[m]] /\ \A m \in Node : pg[m] = None => pg'[m] = None
    BY <2>1
  <2> QED
    BY <1>1, <2>1, <2>2
<1>13. ASSUME NEW n \in Node, Edit(n) \/ Signal(n) \/ HandleSIGHUP(n)
       PROVE  ProvenInv' /\ UNCHANGED pg
  <2>1. UNCHANGED <<scenario, pc, pgdata, signal, proven, pg>>
    BY <1>13 DEF Edit, Signal, HandleSIGHUP, bootVarsAround, diskVars, pgVars
  <2> QED
    BY <1>1, <2>1
<1>14. CASE Next
  <2>1. PICK n \in Node :
          \/ BootStart(n) \/ BootStep(n) \/ AttemptLost(n) \/ LateWrite(n) \/ StopsOrCrashes(n)
          \/ InitDB(n) \/ StartPostgres(n) \/ Promote(n) \/ PostgresStops(n)
          \/ Edit(n) \/ Signal(n) \/ HandleSIGHUP(n)
    BY <1>14, Zenon DEF Next
  <2>2. ASSUME BootStep(n) \/ AttemptLost(n)
        PROVE  ProvenInv' /\ \A m \in Node : pg[m] = None => pg'[m] = None
    BY <2>2, <1>4, <1>5, <1>6, GateData
  <2> QED
    BY <2>1, <2>2, <1>3, <1>7, <1>8, <1>9, <1>10, <1>11, <1>12, <1>13
<1> QED
  BY <1>2, <1>14 DEF vars, pgVars

\* For any number of peers, boots and crashes: Postgres never starts as a
\* primary on a database of an earlier process.
THEOREM NeverUnprovenPrimary == Spec => NoUnprovenPrimaryStart
<1>1. BootTypes /\ ProvenInv /\ [Next]_vars
        => [\A n \in Node : pg[n] = None /\ pg'[n] # None => signal[n] \/ proven[n]]_vars
  BY ProvenStep
<1> QED
  BY <1>1, ProvenInit, ProvenStep, TypesInvariance, PTL DEF Spec, NoUnprovenPrimaryStart

-----------------------------------------------------------------------------
(* SIGHUP *)

\* The routes that BuildOptions takes from a configuration.
RoutesOf(c) == IF c.size > 1 THEN c.routes ELSE {}

\* The server routes to what the in-memory copy names, and that copy is the file
\* unless an edit, a signal, a pass or an error stands between the two.
PeerRoutes(n) ==
  /\ hup[n] \/ reading[n] # None => scenario.signals
  /\ reading[n] # None => reading[n].new \in {scenario.start[n]} \cup scenario.writes
  /\ pc[n] \notin BeforeServer => server[n].routes = RoutesOf(cfg[n])
  /\ reading[n] # None /\ ~hup[n] /\ ~edited[n] => reading[n].new = file[n]
  /\ pc[n] # "down" /\ reading[n] = None /\ ~hup[n] /\ ~edited[n] /\ ~failed[n] =>
       RoutesOf(cfg[n]) = RoutesOf(file[n])

RouteInv ==
  /\ hup \in [Node -> BOOLEAN] /\ edited \in [Node -> BOOLEAN] /\ failed \in [Node -> BOOLEAN]
  /\ \A n \in Node : PeerRoutes(n)

\* A peer whose configuration and server did not change and that got no further.
LEMMA RoutesKept ==
  ASSUME NEW m \in Node, PeerRoutes(m), scenario' = scenario,
         file'[m] = file[m], cfg'[m] = cfg[m], server'[m] = server[m], hup'[m] = hup[m],
         reading'[m] = reading[m], edited'[m] = edited[m], failed'[m] = failed[m],
         pc'[m] # "down" => pc[m] # "down",
         pc'[m] \notin BeforeServer => pc[m] \notin BeforeServer
  PROVE  PeerRoutes(m)'
BY Zenon DEF PeerRoutes

\* The servers at the outset route to what their files name.
LEMMA RouteInit == Init => RouteInv
<1> SUFFICES ASSUME Init PROVE RouteInv
  OBVIOUS
<1>1. scenario.start \in [Node -> Configs] /\ scenario.up \subseteq Node
  BY ScenariosAssumption DEF Init
<1>2. hup \in [Node -> BOOLEAN] /\ edited \in [Node -> BOOLEAN] /\ failed \in [Node -> BOOLEAN]
  BY DEF Init
<1>3. ASSUME NEW n \in Node PROVE PeerRoutes(n)
  <2>1. ~hup[n] /\ reading[n] = None
    BY DEF Init
  <2>2. CASE n \in scenario.up
    <3>1. /\ pc[n] = "running" /\ cfg[n] = file[n]
          /\ server[n] = optionsFromConfig(file[n], file[n].password)
      BY <2>2 DEF Init
    <3>2. file[n] \in Configuration
      BY <1>1, ConfigsAssumption DEF Init
    <3>3. file[n].password \in Nat
      BY <3>2 DEF Configuration
    <3>4. server[n].routes = RoutesOf(cfg[n])
      BY <3>1, <3>2, <3>3, OptionsBuilt DEF RoutesOf
    <3> QED
      BY <2>1, <3>1, <3>4 DEF PeerRoutes
  <2>3. CASE n \notin scenario.up
    <3>1. pc[n] = "down"
      BY <2>3 DEF Init
    <3> QED
      BY <2>1, <3>1 DEF PeerRoutes, BeforeServer
  <2> QED
    BY <2>2, <2>3
<1> QED
  BY <1>2, <1>3 DEF RouteInv

\* The two halves of applyOnce.
LEMMA ReloadStep ==
  ASSUME OneMode, BootTypes, RouteInv, NEW n \in Node, HandleSIGHUP(n)
  PROVE  RouteInv'
<1> USE DEF RouteInv
<1>1. /\ pc[n] = "running" /\ UNCHANGED <<scenario, pc>> /\ (ReloadRead(n) \/ ReloadApply(n))
      /\ pc[n] \notin BeforeServer
  BY DEF HandleSIGHUP, bootVarsAround, BeforeServer
<1>2. /\ PeerTypes(n) /\ PeerRoutes(n) /\ cfg[n] \in Configuration /\ server[n] \in Options
      /\ file[n] \in Configs /\ file[n] \in Configuration /\ file[n].password \in Nat
  BY <1>1, ConfigsAssumption DEF BootTypes, PeerTypes, Configuration
<1>3. CASE ReloadRead(n)
  <2>1. /\ hup[n] /\ reading[n] = None /\ hup' = [hup EXCEPT ![n] = FALSE]
        /\ UNCHANGED <<file, cfg, server, edited>>
    BY <1>3 DEF ReloadRead
  <2>2. \/ /\ reading' = [reading EXCEPT ![n] = [new |-> file[n], oldPw |-> file[n].password]]
           /\ UNCHANGED failed
        \/ failed' = [failed EXCEPT ![n] = TRUE] /\ UNCHANGED reading
    BY <1>3 DEF ReloadRead
  <2>3. \A m \in Node \ {n} : reading'[m] = reading[m] /\ failed'[m] = failed[m] /\ hup'[m] = hup[m]
    BY <2>1, <2>2 DEF BootTypes
  <2>4. hup' \in [Node -> BOOLEAN] /\ failed' \in [Node -> BOOLEAN]
    BY <2>1, <2>2, Zenon
  <2>5. PeerRoutes(n)'
    <3>1. CASE reading' = [reading EXCEPT ![n] = [new |-> file[n], oldPw |-> file[n].password]]
      <4>1. reading'[n] = [new |-> file[n], oldPw |-> file[n].password] /\ reading'[n].new = file[n]
        BY <3>1 DEF BootTypes
      <4>2. reading'[n] # None
        <5>1. file[n] \in Configuration /\ file[n].password \in Nat
          BY <1>2
        <5>2. [new |-> file[n], oldPw |-> file[n].password] \in [new : Configuration, oldPw : Nat]
          BY <5>1
        <5> QED
          BY <4>1, <5>2, NoneAssumption
      <4> QED
        BY <4>1, <4>2, <1>1, <1>2, <2>1 DEF PeerRoutes, PeerTypes
    <3>2. CASE failed' = [failed EXCEPT ![n] = TRUE] /\ UNCHANGED reading
      <4>1. failed'[n] = TRUE
        BY <3>2
      <4> QED
        BY <4>1, <3>2, <1>1, <1>2, <2>1 DEF PeerRoutes
    <3> QED
      BY <2>2, <3>1, <3>2
  <2>6. ASSUME NEW m \in Node, m # n PROVE PeerRoutes(m)'
    BY <2>6, <1>1, <2>1, <2>3, RoutesKept, Zenon
  <2> QED
    BY <2>1, <2>4, <2>5, <2>6
<1>4. CASE ReloadApply(n)
  <2>1. /\ reading[n] # None /\ reading' = [reading EXCEPT ![n] = None] /\ reading'[n] = None
        /\ UNCHANGED <<file, hup, edited>>
    BY <1>4 DEF ReloadApply, BootTypes
  <2>2. PICK c : c = reading[n].new
    OBVIOUS
  <2>3. /\ reading[n] \in Reading /\ c \in Configuration /\ reading[n].oldPw \in Nat
        /\ c \in {scenario.start[n]} \cup scenario.writes /\ scenario.signals
    BY <2>1, <2>2, <1>2 DEF PeerRoutes, BootTypes, Reading
  <2>4. RoutesOf([cfg[n] EXCEPT !.routes = c.routes]) = RoutesOf(c)
    <3>1. PICK d \in {scenario.start[n]} \cup scenario.writes : SameStartup(cfg[n], d)
      BY <1>1, <1>2 DEF PeerTypes
    <3>2. (d.size > 1) = (c.size > 1)
      BY <3>1, <2>3 DEF OneMode, BootTypes
    <3>3. /\ [cfg[n] EXCEPT !.routes = c.routes].size = cfg[n].size
          /\ [cfg[n] EXCEPT !.routes = c.routes].routes = c.routes
      BY <1>2 DEF Configuration
    <3> QED
      BY <3>1, <3>2, <3>3 DEF SameStartup, RoutesOf
  <2>5. PICK old, new : /\ old = optionsFromConfig(cfg[n], reading[n].oldPw)
                        /\ new = optionsFromConfig(c, file[n].password)
    OBVIOUS
  <2>6. old.routes = RoutesOf(cfg[n]) /\ new.routes = RoutesOf(c) /\ new \in Options
    BY <2>3, <2>5, <1>2, OptionsBuilt DEF RoutesOf
  <2>7. \/ /\ server' = [server EXCEPT ![n] = ReloadOptions(@, new)]
           /\ cfg' = [cfg EXCEPT ![n].routes = c.routes]
           /\ failed' = [failed EXCEPT ![n] = FALSE]
        \/ /\ old.routes = new.routes
           /\ failed' = [failed EXCEPT ![n] = FALSE]
           /\ UNCHANGED <<server, cfg>>
        \/ /\ failed' = [failed EXCEPT ![n] = TRUE]
           /\ UNCHANGED <<server, cfg>>
    BY <1>4, <2>2, <2>5 DEF ReloadApply, hasAllowListed
  <2>8. /\ failed' \in [Node -> BOOLEAN]
        /\ \A m \in Node \ {n} : /\ failed'[m] = failed[m] /\ reading'[m] = reading[m]
                                 /\ server'[m] = server[m] /\ cfg'[m] = cfg[m]
    BY <2>1, <2>7, Zenon DEF BootTypes
  <2>9. ~hup[n] /\ ~edited[n] => c = file[n]
    BY <1>2, <2>1, <2>2 DEF PeerRoutes
  <2>10. PeerRoutes(n)'
    <3>1. CASE /\ server' = [server EXCEPT ![n] = ReloadOptions(@, new)]
               /\ cfg' = [cfg EXCEPT ![n].routes = c.routes]
      <4>1. /\ server'[n] = ReloadOptions(server[n], new)
            /\ cfg'[n] = [cfg[n] EXCEPT !.routes = c.routes]
        BY <3>1 DEF BootTypes
      <4>2. ReloadOptions(server[n], new).routes = new.routes
        BY <1>2 DEF ReloadOptions, Options
      <4>3. server'[n].routes = RoutesOf(cfg'[n]) /\ RoutesOf(cfg'[n]) = RoutesOf(c)
        BY <4>1, <4>2, <2>4, <2>6
      <4> QED
        BY <4>3, <2>1, <2>3, <2>9, <1>1, <1>2 DEF PeerRoutes
    <3>2. CASE old.routes = new.routes /\ UNCHANGED <<server, cfg>>
      BY <3>2, <2>1, <2>3, <2>6, <2>9, <1>1, <1>2, Zenon DEF PeerRoutes
    <3>3. CASE failed' = [failed EXCEPT ![n] = TRUE] /\ UNCHANGED <<server, cfg>>
      <4>1. failed'[n] = TRUE
        BY <3>3
      <4> QED
        BY <4>1, <3>3, <2>1, <2>3, <1>1, <1>2 DEF PeerRoutes
    <3> QED
      BY <2>7, <3>1, <3>2, <3>3
  <2>11. ASSUME NEW m \in Node, m # n PROVE PeerRoutes(m)'
    BY <2>11, <1>1, <2>1, <2>8, RoutesKept
  <2> QED
    BY <2>1, <2>8, <2>10, <2>11
<1> QED
  BY <1>1, <1>3, <1>4

\* The steps of all peers and of the operator.
LEMMA RouteStep == OneMode /\ BootTypes /\ RouteInv /\ [Next]_vars => RouteInv'
<1> SUFFICES ASSUME OneMode, BootTypes, RouteInv, [Next]_vars PROVE RouteInv'
  OBVIOUS
<1> USE DEF RouteInv
<1>1. CASE UNCHANGED vars \/ Stays
  <2>1. UNCHANGED <<scenario, pc, file, cfg, server, hup, reading, edited, failed>>
    BY <1>1 DEF vars, Stays, reloadVars
  <2> QED
    BY <2>1, RoutesKept
<1>2. ASSUME NEW n \in Node, BootStart(n) PROVE RouteInv'
  <2>1. /\ pc[n] = "down" /\ pc' = [pc EXCEPT ![n] = "store"]
        /\ cfg' = [cfg EXCEPT ![n] = file[n]] /\ edited' = [edited EXCEPT ![n] = FALSE]
        /\ failed' = [failed EXCEPT ![n] = FALSE]
        /\ UNCHANGED <<scenario, file, server, hup, reading>>
    BY <1>2 DEF BootStart, GoTo
  <2>2. edited' \in [Node -> BOOLEAN] /\ failed' \in [Node -> BOOLEAN]
    BY <2>1
  <2>3. reading[n] = None /\ pc'[n] = "store" /\ cfg'[n] = file[n]
    BY <2>1 DEF BootTypes, PeerTypes
  <2>4. PeerRoutes(n)'
    BY <2>1, <2>3 DEF PeerRoutes, BeforeServer
  <2>5. ASSUME NEW m \in Node, m # n PROVE PeerRoutes(m)'
    <3>1. pc'[m] = pc[m] /\ cfg'[m] = cfg[m] /\ edited'[m] = edited[m] /\ failed'[m] = failed[m]
      BY <2>1, <2>5 DEF BootTypes
    <3> QED
      BY <2>1, <3>1, RoutesKept, Zenon
  <2> QED
    BY <2>1, <2>2, <2>4, <2>5
<1>3. ASSUME NEW n \in Node, StartServer(n) PROVE RouteInv'
  <2>1. /\ pc[n] = "nats" /\ pc' = [pc EXCEPT ![n] = "meta"]
        /\ server' = [server EXCEPT ![n] = optionsFromConfig(cfg[n], file[n].password)]
        /\ UNCHANGED <<scenario, file, cfg, hup, reading, edited, failed>>
    BY <1>3 DEF StartServer, GoTo
  <2>2. cfg[n] \in Configuration /\ file[n] \in Configuration /\ file[n].password \in Nat
    BY <2>1, ConfigsAssumption DEF BootTypes, PeerTypes, Configuration
  <2>3. server'[n].routes = RoutesOf(cfg[n])
    BY <2>1, <2>2, OptionsBuilt DEF BootTypes, RoutesOf
  <2>4. PeerRoutes(n)'
    BY <2>1, <2>3 DEF PeerRoutes
  <2>5. ASSUME NEW m \in Node, m # n PROVE PeerRoutes(m)'
    <3>1. pc'[m] = pc[m] /\ server'[m] = server[m]
      BY <2>1, <2>5 DEF BootTypes
    <3> QED
      BY <2>1, <3>1, RoutesKept
  <2> QED
    BY <2>1, <2>4, <2>5
<1>4. ASSUME NEW n \in Node, NEW g \in Phases, Moves(n, g) PROVE RouteInv'
  <2>1. /\ pc' = [pc EXCEPT ![n] = g] /\ pc[n] # "down"
        /\ pc[n] \in BeforeServer <=> g \in BeforeServer
        /\ UNCHANGED <<scenario, file, cfg, server, hup, reading, edited, failed>>
    BY <1>4 DEF Moves, reloadVars, Gates, KVGates
  <2>2. ASSUME NEW m \in Node PROVE PeerRoutes(m)'
    <3>1. /\ pc'[m] # "down" => pc[m] # "down"
          /\ pc'[m] \notin BeforeServer => pc[m] \notin BeforeServer
      BY <2>1 DEF BootTypes
    <3> QED
      BY <2>1, <3>1, RoutesKept
  <2> QED
    BY <2>1, <2>2
<1>5. ASSUME NEW n \in Node, StopsOrCrashes(n) PROVE RouteInv'
  <2>1. /\ pc' = [pc EXCEPT ![n] = "down"] /\ cfg' = [cfg EXCEPT ![n] = None]
        /\ server' = [server EXCEPT ![n] = None] /\ reading' = [reading EXCEPT ![n] = None]
        /\ hup' = [hup EXCEPT ![n] = FALSE]
        /\ UNCHANGED <<scenario, file, edited, failed>>
    BY <1>5 DEF StopsOrCrashes, GoTo
  <2>2. /\ hup' \in [Node -> BOOLEAN] /\ pc'[n] = "down" /\ reading'[n] = None /\ ~hup'[n]
    BY <2>1 DEF BootTypes
  <2>3. PeerRoutes(n)'
    BY <2>2 DEF PeerRoutes, BeforeServer
  <2>4. ASSUME NEW m \in Node, m # n PROVE PeerRoutes(m)'
    <3>1. /\ pc'[m] = pc[m] /\ cfg'[m] = cfg[m] /\ server'[m] = server[m]
          /\ reading'[m] = reading[m] /\ hup'[m] = hup[m]
      BY <2>1, <2>4 DEF BootTypes
    <3> QED
      BY <2>1, <3>1, RoutesKept, Zenon
  <2> QED
    BY <2>1, <2>2, <2>3, <2>4
<1>6. ASSUME NEW n \in Node, Edit(n) PROVE RouteInv'
  <2>1. PICK c \in Configs : file' = [file EXCEPT ![n] = c]
    BY <1>6, Zenon DEF Edit, OperatorEdits
  <2>2. /\ edited' = [edited EXCEPT ![n] = TRUE]
        /\ UNCHANGED <<scenario, pc, cfg, server, hup, reading, failed>>
    BY <1>6 DEF Edit, OperatorEdits, bootVarsAround
  <2>3. edited' \in [Node -> BOOLEAN] /\ edited'[n]
    BY <2>2
  <2>4. PeerRoutes(n)'
    BY <2>2, <2>3 DEF PeerRoutes
  <2>5. ASSUME NEW m \in Node, m # n PROVE PeerRoutes(m)'
    <3>1. file'[m] = file[m] /\ edited'[m] = edited[m]
      BY <2>1, <2>2, <2>5 DEF BootTypes
    <3> QED
      BY <2>2, <3>1, RoutesKept, Zenon
  <2> QED
    BY <2>2, <2>3, <2>4, <2>5
<1>7. ASSUME NEW n \in Node, Signal(n) PROVE RouteInv'
  <2>1. /\ scenario.signals /\ hup' = [hup EXCEPT ![n] = TRUE] /\ edited' = [edited EXCEPT ![n] = FALSE]
        /\ UNCHANGED <<scenario, pc, file, cfg, server, reading, failed>>
    BY <1>7 DEF Signal, OperatorSignals, bootVarsAround
  <2>2. hup' \in [Node -> BOOLEAN] /\ edited' \in [Node -> BOOLEAN] /\ hup'[n]
    BY <2>1
  <2>3. PeerRoutes(n)'
    BY <2>1, <2>2 DEF PeerRoutes
  <2>4. ASSUME NEW m \in Node, m # n PROVE PeerRoutes(m)'
    <3>1. hup'[m] = hup[m] /\ edited'[m] = edited[m]
      BY <2>1, <2>4
    <3> QED
      BY <2>1, <3>1, RoutesKept, Zenon
  <2> QED
    BY <2>1, <2>2, <2>3, <2>4
<1> QED
  BY <1>1, <1>2, <1>3, <1>4, <1>5, <1>6, <1>7, ReloadStep, StepKinds, StoreGateMoves, Zenon DEF Passes

\* However edits, signals, passes and restarts interleave on any number of
\* peers, as long as SIGHUP is not sent across a change of mode: once nothing is
\* left to do, a running server routes to the peers that its file names.
THEOREM RoutesFollowFile ==
  ASSUME OneMode
  PROVE  Spec => []RoutesFollow
<1>1. BootTypes /\ RouteInv => RoutesFollow
  <2> SUFFICES ASSUME BootTypes, RouteInv, NEW n \in Node, ReloadSettled(n), pc[n] = "running"
               PROVE  server[n].routes = optionsFromConfig(file[n], file[n].password).routes
    BY DEF RoutesFollow
  <2>1. server[n].routes = RoutesOf(file[n])
    BY DEF RouteInv, PeerRoutes, ReloadSettled, BeforeServer
  <2>2. file[n] \in Configuration /\ file[n].password \in Nat
    BY ConfigsAssumption DEF BootTypes, Configuration
  <2> QED
    BY <2>1, <2>2, OptionsBuilt DEF RoutesOf
<1>2. BootTypes /\ RouteInv /\ [Next]_vars => RouteInv'
  BY RouteStep
<1> QED
  BY <1>1, <1>2, RouteInit, TypesInvariance, PTL DEF Spec

=============================================================================
