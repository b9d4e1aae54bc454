-------------------------------- MODULE Boot --------------------------------
(***************************************************************************)
(* Start-up of the peers (internal/runtime/start.go, Start): the sequence  *)
(* of gates each process passes, what the gates do to the peer's disk (the *)
(* JetStream store, PGDATA's standby.signal, the managed blocks of         *)
(* postgresql.conf and pg_hba.conf) and to what the peers share (the       *)
(* coordination KV bucket and the history stream, each RPC a step of its   *)
(* own), with crashes and restarts at every step.  A Postgres that a       *)
(* process started outlives it.  Once up, a peer serves SIGHUP (Reload).   *)
(*                                                                         *)
(* The bucket's and stream's server side, the Manager and Postgres are     *)
(* external and modelled from how start.go and bucket.go use them.         *)
(***************************************************************************)
EXTENDS Reload

CONSTANTS Scenarios,    \* what the runs explore; Init picks one
          MaxSuffix     \* maxArchiveSuffix

(* A scenario is a record                                                  *)
(*   start    [Node -> configuration on disk]                              *)
(*   up       the peers already running                                    *)
(*   nodes    the peers that may boot                                      *)
(*   boots, edits, losses   bounds on process starts, operator edits and   *)
(*            RPCs whose outcome the caller does not learn                 *)
(*   writes   the configurations the operator may write                    *)
(*   bucket   the clustered bucket at the outset                           *)
(*   pgdata, confs   PGDATA and the possible contents of its conf files    *)
(*   signals  SIGHUP is sent                                               *)
VARIABLES
  scenario,
  left,      \* left: [boots, edits, losses] still allowed
  pc,        \* pc[n]: the gate n is at, "down" or "running"
  store,     \* store[n]: <dir>/jetstream: "none", "bare", "standalone", "clustered"
  archives,  \* archives[n]: the stores moved aside, each with its name
  made,      \* made[n]: how many stores n's server has created, the latest in place
  pgdata,    \* pgdata[n]: "empty" or "complete"
  signal,    \* signal[n]: standby.signal is in PGDATA
  conf,      \* conf[n][f]: the lines of postgresql.conf (1) and pg_hba.conf (2)
  pg,        \* pg[n]: the conf a running postmaster has loaded, None if it is down
  proven,    \* proven[n]: this process's Manager ran initdb or promoted
  changed,   \* changed[n]: applyManagedConf changed a file during this boot
  bucket,    \* bucket[b]: the KV bucket of the cluster or of a standalone peer
  history,   \* history[b]: replicas of the history stream, 0 when absent
  seen,      \* seen[n]: the stream configuration n read before tuning it
  late,      \* late[n]: a write of n that may still land, None otherwise
  passed     \* the peers past PreCreateClusterKV since the bucket's last upgrade

diskVars   == <<store, archives, made, pgdata, signal, conf>>
pgVars     == <<pg, proven, changed>>
sharedVars == <<bucket, history, seen, late, passed>>
vars == <<scenario, left, pc, diskVars, pgVars, sharedVars, reloadVars>>

Cluster == "cluster"
Absent == [exists |-> FALSE, replicas |-> 0, direct |-> FALSE]

(* A configuration as config.Load gives it, addresses and passwords        *)
(* numbered.  Validate refuses a declared_size below 1.                    *)
Configuration ==
  [size : Nat, override : Nat, routes : SUBSET Nat, name : STRING, password : Nat,
   extras : Seq(STRING), valid : BOOLEAN]

(* A KV bucket's configuration.                                            *)
Bucket == [exists : BOOLEAN, replicas : Nat, direct : BOOLEAN]

ASSUME ConfigsAssumption ==
  Configs \subseteq {c \in Configuration : c.valid => c.size > 0}
ASSUME NodesAssumption == Cluster \notin Node /\ MaxSuffix \in Nat
ASSUME NoneAssumption == None \notin [new : Configuration, oldPw : Nat]

(* What may be there at the outset.  The peers that are up have come up    *)
(* through the same gates: clustered, on a bucket that is tuned for them.  *)
(* One of them that may boot again has no database yet.                    *)
ASSUME ScenariosAssumption ==
  \A s \in Scenarios :
    /\ s.start \in [Node -> Configs] /\ s.writes \subseteq Configs
    /\ s.up \subseteq Node /\ s.nodes \subseteq Node
    /\ s.bucket \in Bucket /\ s.bucket.exists = (s.bucket.replicas > 0)
    /\ s.pgdata \in {"empty", "complete"} /\ s.confs \subseteq Seq(STRING)
    /\ \A n \in s.up : /\ s.start[n].size > 1
                        /\ s.bucket.replicas >= DecideReplicas(s.start[n])
                        /\ s.bucket.exists /\ ~s.bucket.direct
    /\ s.pgdata = "complete" => s.up \cap s.nodes = {}

(* The bucket and stream a peer's JetStream context addresses.             *)
Home(n) == IF cfg[n].size > 1 THEN Cluster ELSE n

Target(n) == DecideReplicas(cfg[n])

KVGates == {"lookup", "create", "status", "upgrade", "stream", "tune"}
Gates == {"store", "nats", "meta", "mesh"} \cup KVGates
           \cup {"history", "signal", "conf1", "conf2", "load", "manager", "listen", "audit"}

---------------------------------------------------------------------------
(* The gates before the shared state.                                      *)

GoTo(n, gate) == pc' = [pc EXCEPT ![n] = gate]

(* main.run: load and validate the configuration, bind the observability   *)
(* listener.  An invalid one never starts.                                 *)
BootStart(n) ==
  /\ pc[n] = "down" /\ left.boots > 0
  /\ file[n].valid
  /\ left' = [left EXCEPT !.boots = @ - 1]
  /\ GoTo(n, "store")
  /\ cfg' = [cfg EXCEPT ![n] = file[n]]
  /\ edited' = [edited EXCEPT ![n] = FALSE]
  /\ failed' = [failed EXCEPT ![n] = FALSE]
  /\ proven' = [proven EXCEPT ![n] = FALSE]
  /\ changed' = [changed EXCEPT ![n] = FALSE]
  /\ UNCHANGED <<scenario, diskVars, pg, sharedVars, file, server, hup, reading>>

(* DetectStoreLayout: only a clustered store holds the meta group, so a    *)
(* directory the server had just begun reads as standalone.                *)
DetectStoreLayout(s) ==
  CASE s = "none" -> "none"
    [] s = "clustered" -> "clustered"
    [] OTHER -> "standalone"

(* A broken check that forgets the rollback from clustered to standalone.  *)
MismatchOnExpansionOnly(n) ==
  cfg[n].size > 1 /\ DetectStoreLayout(store[n]) = "standalone"

(* The mode about to start is not the one that wrote the store.            *)
Mismatch(n) ==
  \/ cfg[n].size > 1 /\ DetectStoreLayout(store[n]) = "standalone"
  \/ cfg[n].size = 1 /\ DetectStoreLayout(store[n]) = "clustered"

(* The archive's name: layout and suffix.  All archiving happens within    *)
(* one second here, so the timestamp never separates two names.            *)
FreeSuffixes(n) ==
  {i \in 0 .. MaxSuffix : \A a \in archives[n] : a.name # <<DetectStoreLayout(store[n]), i>>}

(* ArchiveIncompatibleStore: a store of the other mode is renamed to the   *)
(* first free name.  A standalone peer's bucket and stream go with it; the *)
(* clustered ones live on in the other peers' stores.  Without a free name *)
(* the gate cannot be passed (StopsOrCrashes).                             *)
ArchiveIncompatibleStore(n) ==
  /\ pc[n] = "store"
  /\ \/ /\ ~Mismatch(n)
        /\ UNCHANGED <<store, archives, bucket, history>>
     \/ /\ Mismatch(n)
        /\ \E i \in FreeSuffixes(n) :
             /\ \A k \in FreeSuffixes(n) : i <= k
             /\ archives' = [archives EXCEPT ![n] = @ \cup
                               {[name |-> <<DetectStoreLayout(store[n]), i>>, nth |-> made[n]]}]
        /\ store' = [store EXCEPT ![n] = "none"]
        /\ bucket' = [bucket EXCEPT ![n] = Absent]
        /\ history' = [history EXCEPT ![n] = 0]
  /\ GoTo(n, "nats")
  /\ UNCHANGED <<scenario, left, made, pgdata, signal, conf, pgVars,
                 seen, late, passed, reloadVars>>

(* bootEmbeddedNATS: the password is resolved, the options built and the   *)
(* server started; it opens its store or begins an empty one.              *)
StartServer(n) ==
  /\ pc[n] = "nats"
  /\ server' = [server EXCEPT ![n] = optionsFromConfig(cfg[n], file[n].password)]
  /\ store' = [store EXCEPT ![n] = IF @ = "none" THEN "bare" ELSE @]
  /\ made' = [made EXCEPT ![n] = IF store[n] = "none" THEN @ + 1 ELSE @]
  /\ GoTo(n, "meta")
  /\ UNCHANGED <<scenario, left, archives, pgdata, signal, conf, pgVars, sharedVars,
                 file, cfg, hup, reading, edited, failed>>

(* The server writes its JetStream state; a clustered one its meta group.  *)
StoreOpened(n) ==
  /\ pc[n] = "meta"
  /\ store' = [store EXCEPT ![n] =
                 IF @ # "bare" THEN @
                 ELSE IF server[n].clustered THEN "clustered" ELSE "standalone"]
  /\ GoTo(n, "mesh")
  /\ UNCHANGED <<scenario, left, archives, made, pgdata, signal, conf, pgVars,
                 sharedVars, reloadVars>>

ClusterServers == {m \in Node : server[m] # None /\ server[m].clustered}

(* WaitForRouteMesh: routes to all of the declared siblings.               *)
Meshed(n) == cfg[n].size > 1 => Cardinality(ClusterServers) >= cfg[n].size

(* WaitForJetStreamResponsive, and the reason it waits: the API answers    *)
(* while a majority of the clustered servers is up.                        *)
Responsive(n) == cfg[n].size > 1 => 2 * Cardinality(ClusterServers) > cfg[n].size

(* Connect, WaitForRouteMesh and WaitForJetStreamResponsive.               *)
MeshFormed(n) ==
  /\ pc[n] = "mesh"
  /\ Meshed(n) /\ Responsive(n)
  /\ GoTo(n, "lookup")
  /\ UNCHANGED <<scenario, left, diskVars, pgVars, sharedVars, reloadVars>>

---------------------------------------------------------------------------
(* PreCreateClusterKV, one step per RPC of tryPreCreateClusterKV.  A write *)
(* is a record: create adds the bucket where there is none, update         *)
(* replaces the configuration of one that exists.                          *)

CreateOp(n)  == [kind |-> "create", replicas |-> Target(n), direct |-> TRUE]
UpgradeOp(n) == [kind |-> "upgrade", replicas |-> Target(n), direct |-> TRUE]

TuneOp(n) == [kind |-> "tune", replicas |-> seen[n].replicas, direct |-> FALSE]

Written(b, op) ==
  IF b.exists = (op.kind = "create") THEN b
  ELSE [exists |-> TRUE, replicas |-> op.replicas, direct |-> op.direct]

(* One RPC of n at a time, and the server answers n's requests in order.   *)
AtKV(n, gate) == pc[n] = gate /\ late[n] = None /\ Responsive(n)

(* js.KeyValue: found, or not found and created next.                      *)
KVLookup(n) ==
  /\ AtKV(n, "lookup")
  /\ GoTo(n, IF bucket[Home(n)].exists THEN "status" ELSE "create")
  /\ UNCHANGED <<scenario, left, diskVars, pgVars, sharedVars, reloadVars>>

KVWrite(n, op) ==
  /\ bucket' = [bucket EXCEPT ![Home(n)] = Written(@, op)]
  /\ passed' = IF op.kind = "upgrade" THEN {} ELSE passed

(* CreateKeyValue; a peer that loses the race fetches the winner's bucket. *)
KVCreate(n) ==
  /\ AtKV(n, "create")
  /\ KVWrite(n, CreateOp(n))
  /\ GoTo(n, "status")
  /\ UNCHANGED <<scenario, left, diskVars, pgVars, history, seen, late, reloadVars>>

(* A broken check that takes every difference for an upgrade.              *)
KVStatusShrinks(n) ==
  /\ AtKV(n, "status")
  /\ GoTo(n, IF bucket[Home(n)].replicas # Target(n) THEN "upgrade" ELSE "stream")
  /\ UNCHANGED <<scenario, left, diskVars, pgVars, sharedVars, reloadVars>>

(* kv.Status: more replicas than the target is refused (the attempt fails  *)
(* and so does every later one), fewer are upgraded.                       *)
KVStatus(n) ==
  /\ AtKV(n, "status")
  /\ bucket[Home(n)].replicas <= Target(n)
  /\ GoTo(n, IF bucket[Home(n)].replicas < Target(n) THEN "upgrade" ELSE "stream")
  /\ UNCHANGED <<scenario, left, diskVars, pgVars, sharedVars, reloadVars>>

(* UpdateKeyValue writes a whole KV configuration, direct reads included.  *)
KVUpgrade(n) ==
  /\ AtKV(n, "upgrade")
  /\ KVWrite(n, UpgradeOp(n))
  /\ GoTo(n, "stream")
  /\ UNCHANGED <<scenario, left, diskVars, pgVars, history, seen, late, reloadVars>>

(* js.Stream: read the stream's configuration; nothing to do when direct   *)
(* reads are off already.                                                  *)
KVStream(n) ==
  /\ AtKV(n, "stream")
  /\ IF bucket[Home(n)].direct
       THEN /\ seen' = [seen EXCEPT ![n] = bucket[Home(n)]]
            /\ GoTo(n, "tune")
            /\ UNCHANGED passed
       ELSE /\ GoTo(n, "history")
            /\ passed' = passed \cup {n}
            /\ UNCHANGED seen
  /\ UNCHANGED <<scenario, left, diskVars, pgVars, bucket, history, late, reloadVars>>

(* A broken tune that gives up, without a retry, on a configuration that   *)
(* changed since it was read.                                              *)
KVTuneIfUnchanged(n) ==
  /\ AtKV(n, "tune")
  /\ bucket[Home(n)] = seen[n]
  /\ bucket' = [bucket EXCEPT ![Home(n)] = Written(@, TuneOp(n))]
  /\ passed' = passed \cup {n}
  /\ seen' = [seen EXCEPT ![n] = Absent]
  /\ GoTo(n, "history")
  /\ UNCHANGED <<scenario, left, diskVars, pgVars, history, late, reloadVars>>

(* WaitForStreamReady, then UpdateStream with the configuration read above *)
(* and direct reads off.                                                   *)
KVTune(n) ==
  /\ AtKV(n, "tune")
  /\ bucket' = [bucket EXCEPT ![Home(n)] = Written(@, TuneOp(n))]
  /\ passed' = passed \cup {n}
  /\ seen' = [seen EXCEPT ![n] = Absent]
  /\ GoTo(n, "history")
  /\ UNCHANGED <<scenario, left, diskVars, pgVars, history, late, reloadVars>>

(* An RPC's answer does not arrive: the attempt ends and the loop of       *)
(* PreCreateClusterKV starts over.  A write may still land.                *)
AttemptLost(n) ==
  /\ pc[n] \in KVGates /\ late[n] = None
  /\ left.losses > 0
  /\ left' = [left EXCEPT !.losses = @ - 1]
  /\ late' = [late EXCEPT ![n] =
                CASE pc[n] = "create"  -> [home |-> Home(n), op |-> CreateOp(n)]
                  [] pc[n] = "upgrade" -> [home |-> Home(n), op |-> UpgradeOp(n)]
                  [] pc[n] = "tune"    -> [home |-> Home(n), op |-> TuneOp(n)]
                  [] OTHER             -> None]
  /\ seen' = [seen EXCEPT ![n] = Absent]
  /\ GoTo(n, "lookup")
  /\ UNCHANGED <<scenario, diskVars, pgVars, bucket, history, passed, reloadVars>>

(* The write whose answer was lost takes effect, or is dropped.            *)
LateWrite(n) ==
  /\ late[n] # None
  /\ \/ /\ bucket' = [bucket EXCEPT ![late[n].home] = Written(@, late[n].op)]
        /\ passed' = IF late[n].op.kind = "upgrade" THEN {} ELSE passed
     \/ UNCHANGED <<bucket, passed>>
  /\ late' = [late EXCEPT ![n] = None]
  /\ UNCHANGED <<scenario, left, pc, diskVars, pgVars, history, seen, reloadVars>>

(* BuildHandles, then EnsureHistoryStream: create, or reconcile to the     *)
(* desired configuration, whichever the stream needs.                      *)
EnsureHistoryStream(n) ==
  /\ pc[n] = "history" /\ Responsive(n)
  /\ history' = [history EXCEPT ![Home(n)] = Target(n)]
  /\ GoTo(n, "signal")
  /\ UNCHANGED <<scenario, left, diskVars, pgVars, bucket, seen, late, passed, reloadVars>>

---------------------------------------------------------------------------
(* The gates that touch PGDATA.                                            *)

(* A broken version that looks for a postmaster first.                     *)
EnsureStandbySignalWhenUp(n) ==
  /\ pc[n] = "signal"
  /\ signal' = [signal EXCEPT ![n] = @ \/ (pgdata[n] = "complete" /\ pg[n] # None)]
  /\ GoTo(n, "conf1")
  /\ UNCHANGED <<scenario, left, store, archives, made, pgdata, conf, pgVars,
                 sharedVars, reloadVars>>

(* ensureStandbySignalIfInitialized.                                       *)
EnsureStandbySignal(n) ==
  /\ pc[n] = "signal"
  /\ signal' = [signal EXCEPT ![n] = @ \/ pgdata[n] = "complete"]
  /\ GoTo(n, "conf1")
  /\ UNCHANGED <<scenario, left, store, archives, made, pgdata, conf, pgVars,
                 sharedVars, reloadVars>>

Begin == "BEGIN"
End == "END"
Where(lines, mark) == {i \in DOMAIN lines : lines[i] = mark}

(* Malformed marker pairs: applyManagedBlock refuses to touch the file.    *)
Malformed(lines) ==
  \/ \E m \in {Begin, End} : \E i, j \in Where(lines, m) : i # j
  \/ (Where(lines, Begin) = {}) # (Where(lines, End) = {})
  \/ \E b \in Where(lines, Begin), e \in Where(lines, End) : e < b

Body(lines) ==
  IF Where(lines, Begin) = {} THEN <<>>
  ELSE LET b == CHOOSE i \in Where(lines, Begin) : TRUE
           e == CHOOSE i \in Where(lines, End) : TRUE
       IN SubSeq(lines, b + 1, e - 1)

Block(extras) == IF extras = <<>> THEN <<>> ELSE <<Begin>> \o extras \o <<End>>

(* A broken rewrite that drops what follows the block.                     *)
ApplyManagedBlockToEOF(lines, extras) ==
  IF Where(lines, Begin) = {} THEN lines \o Block(extras)
  ELSE LET b == CHOOSE i \in Where(lines, Begin) : TRUE
       IN SubSeq(lines, 1, b - 1) \o Block(extras)

(* applyManagedBlock: append, replace in place or remove the block.        *)
ApplyManagedBlock(lines, extras) ==
  IF Where(lines, Begin) = {} THEN lines \o Block(extras)
  ELSE LET b == CHOOSE i \in Where(lines, Begin) : TRUE
           e == CHOOSE i \in Where(lines, End) : TRUE
       IN SubSeq(lines, 1, b - 1) \o Block(extras) \o SubSeq(lines, e + 1, Len(lines))

(* One file of applyManagedConf at boot: an atomic rewrite, or nothing.    *)
(* Without a complete PGDATA both are skipped.                             *)
ApplyFile(n, f, next) ==
  /\ IF pgdata[n] = "complete"
       THEN /\ ~Malformed(conf[n][f])
            /\ conf' = [conf EXCEPT ![n][f] = ApplyManagedBlock(@, cfg[n].extras)]
            /\ changed' = [changed EXCEPT ![n] = @ \/ conf'[n][f] # conf[n][f]]
       ELSE UNCHANGED <<conf, changed>>
  /\ GoTo(n, next)
  /\ UNCHANGED <<scenario, left, store, archives, made, pgdata, signal, pg, proven,
                 sharedVars, reloadVars>>

ApplyConf(n) == pc[n] = "conf1" /\ ApplyFile(n, 1, "conf2")

ApplyHBA(n)  == pc[n] = "conf2" /\ ApplyFile(n, 2, "load")

(* applyManagedConfAtBoot, second half: reload a postmaster that is up,    *)
(* when this boot changed a file.                                          *)
ReloadPostgres(n) ==
  /\ pc[n] = "load"
  /\ pg' = [pg EXCEPT ![n] = IF changed[n] /\ @ # None THEN conf[n] ELSE @]
  /\ GoTo(n, "manager")
  /\ UNCHANGED <<scenario, left, diskVars, proven, changed, sharedVars, reloadVars>>

Step(n, gate, next) ==
  /\ pc[n] = gate
  /\ GoTo(n, next)
  /\ UNCHANGED <<scenario, left, diskVars, pgVars, sharedVars, reloadVars>>

(* The Manager is built and published, the fan-out responder subscribes.   *)
BuildManager(n) == Step(n, "manager", "listen")

(* The data-plane address is probed, the control plane and the leader-route *)
(* responder start serving.                                                *)
OpenListeners(n) == Step(n, "listen", "audit")

(* WaitForStreamReady on the history stream and the initial audit record.  *)
(* SetManagerReady follows.                                                *)
FirstAudit(n) ==
  /\ pc[n] = "audit" /\ history[Home(n)] > 0 /\ Responsive(n)
  /\ Step(n, "audit", "running")

(* The gates whose own condition, and not an accident, ends the boot.      *)
Refused(n) ==
  \/ pc[n] = "store" /\ Mismatch(n) /\ FreeSuffixes(n) = {}
  \/ pc[n] = "mesh" /\ ~Meshed(n)
  \/ pc[n] \in KVGates \cup {"history", "audit"} /\ ~Responsive(n)
  \/ pc[n] = "status" /\ bucket[Home(n)].replicas > Target(n)
  \/ pc[n] \in {"conf1", "conf2"} /\ pgdata[n] = "complete"
       /\ \E f \in 1 .. 2 : Malformed(conf[n][f])

(* Start returns an error at a gate and teardownPartial undoes it, or the  *)
(* process dies, at a gate or later.  What is on disk stays, and so does a *)
(* postmaster.                                                             *)
StopsOrCrashes(n) ==
  /\ pc[n] # "down"
  /\ n \in scenario.nodes
  /\ GoTo(n, "down")
  /\ cfg' = [cfg EXCEPT ![n] = None]
  /\ server' = [server EXCEPT ![n] = None]
  /\ hup' = [hup EXCEPT ![n] = FALSE]
  /\ reading' = [reading EXCEPT ![n] = None]
  /\ seen' = [seen EXCEPT ![n] = Absent]
  /\ passed' = passed \ {n}
  /\ UNCHANGED <<scenario, left, diskVars, pgVars, bucket, history, late,
                 file, edited, failed>>

---------------------------------------------------------------------------
(* Postgres under the Manager of a running peer (external).                *)

(* initdb on an empty PGDATA; PostInitDB applies the blocks to the fresh   *)
(* files before the first start.                                           *)
InitDB(n) ==
  /\ pc[n] = "running" /\ n \in scenario.nodes
  /\ pgdata[n] = "empty"
  /\ pgdata' = [pgdata EXCEPT ![n] = "complete"]
  /\ conf' = [conf EXCEPT ![n] = [f \in 1 .. 2 |-> ApplyManagedBlock(<<"own">>, cfg[n].extras)]]
  /\ proven' = [proven EXCEPT ![n] = TRUE]
  /\ UNCHANGED <<scenario, left, pc, store, archives, made, signal, pg, changed,
                 sharedVars, reloadVars>>

(* pg_ctl start: the postmaster reads its configuration files.             *)
StartPostgres(n) ==
  /\ pc[n] = "running" /\ n \in scenario.nodes
  /\ pgdata[n] = "complete" /\ pg[n] = None
  /\ pg' = [pg EXCEPT ![n] = conf[n]]
  /\ UNCHANGED <<scenario, left, pc, diskVars, proven, changed, sharedVars, reloadVars>>

(* became_leader: pg_ctl promote removes standby.signal.                   *)
Promote(n) ==
  /\ pc[n] = "running" /\ n \in scenario.nodes
  /\ pg[n] # None /\ signal[n]
  /\ signal' = [signal EXCEPT ![n] = FALSE]
  /\ proven' = [proven EXCEPT ![n] = TRUE]
  /\ UNCHANGED <<scenario, left, pc, store, archives, made, pgdata, conf, pg, changed,
                 sharedVars, reloadVars>>

(* The postmaster stops: its host restarts, or it dies.                    *)
PostgresStops(n) ==
  /\ pg[n] # None
  /\ pg' = [pg EXCEPT ![n] = None]
  /\ UNCHANGED <<scenario, left, pc, diskVars, proven, changed, sharedVars, reloadVars>>

---------------------------------------------------------------------------
bootVarsAround == <<scenario, pc, diskVars, pgVars, sharedVars>>

Edit(n) ==
  /\ left.edits > 0
  /\ left' = [left EXCEPT !.edits = @ - 1]
  /\ OperatorEdits(n)
  /\ file'[n] \in scenario.writes
  /\ UNCHANGED bootVarsAround

Signal(n) ==
  /\ scenario.signals /\ pc[n] = "running"
  /\ OperatorSignals(n)
  /\ UNCHANGED <<left, bootVarsAround>>

HandleSIGHUP(n) ==
  /\ pc[n] = "running"
  /\ ReloadRead(n) \/ ReloadApply(n)
  /\ UNCHANGED <<left, bootVarsAround>>

Init ==
  /\ scenario \in Scenarios
  /\ left = [boots |-> scenario.boots, edits |-> scenario.edits, losses |-> scenario.losses]
  /\ file = scenario.start
  /\ pc = [n \in Node |-> IF n \in scenario.up THEN "running" ELSE "down"]
  /\ cfg = [n \in Node |-> IF n \in scenario.up THEN file[n] ELSE None]
  /\ server = [n \in Node |-> IF n \in scenario.up
                              THEN optionsFromConfig(file[n], file[n].password) ELSE None]
  /\ hup = [n \in Node |-> FALSE]
  /\ reading = [n \in Node |-> None]
  /\ edited = [n \in Node |-> FALSE]
  /\ failed = [n \in Node |-> FALSE]
  /\ store = [n \in Node |-> IF n \in scenario.up THEN "clustered" ELSE "none"]
  /\ archives = [n \in Node |-> {}]
  /\ made = [n \in Node |-> IF n \in scenario.up THEN 1 ELSE 0]
  /\ pgdata = [n \in Node |-> scenario.pgdata]
  /\ signal = [n \in Node |-> FALSE]
  /\ \E c1, c2 \in scenario.confs : conf = [n \in Node |-> <<c1, c2>>]
  /\ pg = [n \in Node |-> None]
  /\ proven = [n \in Node |-> FALSE]
  /\ changed = [n \in Node |-> FALSE]
  /\ bucket = [b \in Node \cup {Cluster} |-> IF b = Cluster THEN scenario.bucket ELSE Absent]
  /\ history = [b \in Node \cup {Cluster} |->
                  IF b = Cluster THEN scenario.bucket.replicas ELSE 0]
  /\ seen = [n \in Node |-> Absent]
  /\ late = [n \in Node |-> None]
  /\ passed = scenario.up

BootStep(n) ==
  \/ ArchiveIncompatibleStore(n) \/ StartServer(n) \/ StoreOpened(n) \/ MeshFormed(n)
  \/ KVLookup(n) \/ KVCreate(n) \/ KVStatus(n) \/ KVUpgrade(n) \/ KVStream(n) \/ KVTune(n)
  \/ EnsureHistoryStream(n) \/ EnsureStandbySignal(n)
  \/ ApplyConf(n) \/ ApplyHBA(n) \/ ReloadPostgres(n)
  \/ BuildManager(n) \/ OpenListeners(n) \/ FirstAudit(n)

Next ==
  \E n \in Node :
    \/ n \in scenario.nodes /\ BootStart(n)
    \/ BootStep(n)
    \/ AttemptLost(n)
    \/ LateWrite(n)
    \/ StopsOrCrashes(n)
    \/ InitDB(n) \/ StartPostgres(n) \/ Promote(n) \/ PostgresStops(n)
    \/ n \in scenario.nodes /\ Edit(n)
    \/ Signal(n)
    \/ HandleSIGHUP(n)

(* A process keeps running its start-up code, a lost request eventually    *)
(* lands or is dropped, and a gate that cannot be passed exits within its  *)
(* budget (2 min for the mesh, 60 s for the bucket).  Crashes, restarts    *)
(* and the operator are not fair.                                          *)
Fairness ==
  \A n \in Node : /\ WF_vars(BootStep(n))
                  /\ WF_vars(LateWrite(n))
                  /\ WF_vars(Refused(n) /\ StopsOrCrashes(n))

Spec == Init /\ [][Next]_vars /\ Fairness

---------------------------------------------------------------------------
(* What some of these rest on, besides the code.                           *)

(* The configurations a scenario's booting peers may have.                 *)
BootConfigs(s) == {s.start[n] : n \in s.nodes} \cup s.writes

(* The peers that boot agree on the replicas of a clustered bucket.        *)
OneTarget ==
  \A s \in Scenarios : \A c, d \in BootConfigs(s) :
    c.size > 1 /\ d.size > 1 => DecideReplicas(c) = DecideReplicas(d)

(* Where SIGHUP is sent, declared_size is not edited across the border     *)
(* between standalone and clustered: it is a startup-only key.             *)
OneMode ==
  \A s \in Scenarios : s.signals =>
    \A c, d \in {s.start[n] : n \in Node} \cup s.writes : (c.size > 1) = (d.size > 1)

(* No configured line is itself a marker of the managed block.             *)
PlainLines ==
  \A c \in Configs : \A i \in DOMAIN c.extras : c.extras[i] \notin {Begin, End}

(* Types of the variables of start-up and reload (start.go, reload.go).    *)
TypeOK ==
  /\ ReloadTypeOK
  /\ scenario \in Scenarios
  /\ pc \in [Node -> Gates \cup {"down", "running"}]
  /\ \A n \in Node : /\ (pc[n] = "down") = (cfg[n] = None)
                     /\ pc[n] = "running" => server[n] # None
                     /\ late[n] # None => late[n].op.replicas \in 1 .. 3
                     /\ seen[n].direct => pc[n] = "tune"
  /\ store \in [Node -> {"none", "bare", "standalone", "clustered"}]
  /\ \A n \in Node : archives[n] \subseteq
       [name : {"standalone", "clustered"} \X (0 .. MaxSuffix), nth : 1 .. made[n]]
  /\ made \in [Node -> Nat]
  /\ pgdata \in [Node -> {"empty", "complete"}]
  /\ signal \in [Node -> BOOLEAN]
  /\ proven \in [Node -> BOOLEAN]
  /\ changed \in [Node -> BOOLEAN]
  /\ \A b \in DOMAIN bucket : /\ bucket[b].replicas \in 0 .. 3
                             /\ bucket[b].exists = (bucket[b].replicas > 0)
                             /\ history[b] \in 0 .. 3
  /\ passed \subseteq Node

(* PreCreateClusterKV is "idempotent and safe to call concurrently": once  *)
(* it has returned on a peer, and until the bucket's replication is        *)
(* upgraded, the bucket has at least that peer's replicas and serves no    *)
(* direct reads, whatever creates, tunes and lost answers of other peers   *)
(* are still under way (bucket.go).                                        *)
PassedMeansTuned ==
  \A n \in passed : LET b == bucket[Home(n)]
                    IN b.exists /\ ~b.direct /\ b.replicas >= Target(n)

(* The bucket is what the peers that passed need, and no step of any peer's *)
(* start-up, late ones included, lowers its replication (the "would shrink" *)
(* refusal).                                                               *)
BucketTuned ==
  /\ []PassedMeansTuned
  /\ [][bucket'[Cluster].replicas >= bucket[Cluster].replicas]_vars

(* A server never runs on a store the other mode wrote: what               *)
(* ArchiveIncompatibleStore is for, through crashes between the rename,    *)
(* the server's first write and its meta group (store_layout.go).          *)
StoreMatchesMode ==
  \A n \in Node : server[n] # None =>
    store[n] \in IF server[n].clustered THEN {"bare", "clustered"}
                 ELSE {"bare", "standalone"}

(* Archiving keeps every store "for forensics": each one ever created is   *)
(* in place or under a name of its own, also when names collide or run out.*)
NoStoreLost ==
  \A n \in Node :
    /\ \A k \in 1 .. made[n] :
         (k = made[n] /\ store[n] # "none") \/ \E a \in archives[n] : a.nth = k
    /\ \A a, b \in archives[n] : a.name = b.name => a = b

(* A change of mode costs no store: the server runs on one of its own mode, *)
(* and every store that was made is there or archived.                     *)
StoresKept == StoreMatchesMode /\ NoStoreLost

(* Postgres never starts on a database of an earlier process as a primary: *)
(* without standby.signal it only starts where this process's Manager ran  *)
(* initdb or promoted (the rationale of ensureStandbySignalIfInitialized). *)
NoUnprovenPrimaryStart ==
  [][\A n \in Node : pg[n] = None /\ pg'[n] # None => signal[n] \/ proven[n]]_vars

Outside(lines) ==
  IF Malformed(lines) \/ Where(lines, Begin) = {} THEN lines
  ELSE LET b == CHOOSE i \in Where(lines, Begin) : TRUE
           e == CHOOSE i \in Where(lines, End) : TRUE
       IN SubSeq(lines, 1, b - 1) \o SubSeq(lines, e + 1, Len(lines))

(* Past applyManagedConfAtBoot an existing database has the configured     *)
(* lines in both files, after whatever partial boots came before           *)
(* (managed_block.go).                                                     *)
ConfOnDisk ==
  \A n \in Node :
    pc[n] \in {"load", "manager", "listen", "audit", "running"} /\ pgdata[n] = "complete" /\ n \in scenario.nodes
      => \A f \in 1 .. 2 : ~Malformed(conf[n][f]) /\ Body(conf[n][f]) = cfg[n].extras

(* applyManagedConfAtBoot does its work and no more: the configured lines   *)
(* are on disk, and every line outside the markers of an existing          *)
(* database's files survives every boot; a file with malformed markers is  *)
(* left alone (applyManagedBlock).                                         *)
ManagedBlocks ==
  /\ []ConfOnDisk
  /\ [][\A n \in Node, f \in 1 .. 2 :
          pgdata[n] = "complete" => Outside(conf'[n][f]) = Outside(conf[n][f])]_vars

(* No SIGHUP is lost to the capacity-1 channel or to a diff against a      *)
(* stale in-memory copy: when all is settled the server routes to the      *)
(* peers the file names (reload.go).                                       *)
RoutesFollow ==
  \A n \in Node : ReloadSettled(n) /\ pc[n] = "running" =>
    server[n].routes = optionsFromConfig(file[n], file[n].password).routes

(* Peers that start together and stay up all come up: nobody waits for     *)
(* ever on the mesh, the bucket race or a lost answer (start.go).          *)
ColdStart ==
  <>[](\A n \in scenario.nodes : pc[n] # "down")
    => <>(\A n \in scenario.nodes : pc[n] = "running")

(* "startup fails closed rather than running with stale replication rules" *)
(* (applyManagedConfAtBoot): a running peer's postmaster has loaded the    *)
(* configured lines.                                                       *)
NoStaleRules ==
  \A n \in Node : pc[n] = "running" /\ pg[n] # None =>
    \A f \in 1 .. 2 : Body(pg[n][f]) = cfg[n].extras

(* FR-014a: SIGHUP reloads the cluster password; when all is settled the   *)
(* server uses the password its configuration resolves to.                 *)
PasswordFollows ==
  \A n \in Node : ReloadSettled(n) /\ pc[n] = "running" =>
    server[n].password = optionsFromConfig(file[n], file[n].password).password
=============================================================================
