------------------------------ MODULE PeerLease ------------------------------
(***************************************************************************)
(* The leadership lease, the campaign gate, the local Postgres and the     *)
(* shutdown order of a set of pgman-proxy peers.                           *)
(*                                                                         *)
(* Each peer boots (runtime.Start), publishes its Manager, runs, and ends  *)
(* in the drain of cmd/pgman-proxy/main.go.  The steps of the drain that   *)
(* touch the lease or Postgres are "manager", "postgres" and "cluster";    *)
(* the others take time only, which DrainTimeout covers here and module    *)
(* Drain models in full.  The lease adapter (natsadapter.Leadership) and   *)
(* the Manager are libraries outside the repository: their actions are     *)
(* modelled from the way the repository uses them.                         *)
(*                                                                         *)
(* The deployment is the bundled image: when the process ends, its         *)
(* container ends, and with it the postmaster.                             *)
(***************************************************************************)

CONSTANTS
  Node,   \* the peers, by node id
  None    \* no holder

ASSUME NoneAssumption == None \notin Node

VARIABLES
  lease,    \* the key of the KV bucket: the holder's node id, or None
  pc,       \* where the process of each peer stands
  stopping, \* ctx.Err() # nil: the shutdown of the peer has started
  mgr,      \* the Manager: "none", "new" (published), "started", "stopped"
  adapter,  \* the lease adapter: "none", "open", "fenced", "closed"
  attempt,  \* an acquisition that has passed the gate and is in flight
  dir,      \* PGDATA: "empty", "partial" (no pg_control yet), "complete"
  signal,   \* standby.signal is in PGDATA
  pg,       \* the local Postgres: "down", "standby", "primary"
  lapsed,   \* n lost the lease between two renewals, and has a database that
            \* would run as a primary (history variable)
  keepPg,   \* the drain was built with stopPostgres = false
  stopErr   \* StopErrors holds the plain error of StopPostgres

local == <<pc, stopping, mgr, adapter, attempt, keepPg, stopErr>>
data  == <<dir, signal, pg, lapsed>>
vars  == <<lease, pc, stopping, mgr, adapter, attempt, dir, signal, pg,
           lapsed, keepPg, stopErr>>

DrainSteps == {"manager", "postgres", "cluster", "drained"}

TypeOK ==
  /\ lease \in Node \cup {None}
  /\ pc \in [Node -> {"down", "boot", "signalled", "up"} \cup DrainSteps]
  /\ stopping \in [Node -> BOOLEAN]
  /\ mgr \in [Node -> {"none", "new", "started", "stopped"}]
  /\ adapter \in [Node -> {"none", "open", "fenced", "closed"}]
  /\ attempt \in [Node -> BOOLEAN]
  /\ dir \in [Node -> {"empty", "partial", "complete"}]
  /\ signal \in [Node -> BOOLEAN]
  /\ pg \in [Node -> {"down", "standby", "primary"}]
  /\ lapsed \in [Node -> BOOLEAN]
  /\ keepPg \in [Node -> BOOLEAN]
  /\ stopErr \in [Node -> BOOLEAN]

Init ==
  /\ lease = None
  /\ pc = [n \in Node |-> "down"]
  /\ stopping = [n \in Node |-> FALSE]
  /\ mgr = [n \in Node |-> "none"]
  /\ adapter = [n \in Node |-> "none"]
  /\ attempt = [n \in Node |-> FALSE]
  /\ dir \in [Node -> {"empty", "complete"}]
  /\ signal = [n \in Node |-> FALSE]
  /\ pg = [n \in Node |-> "down"]
  /\ lapsed = [n \in Node |-> FALSE]
  /\ keepPg = [n \in Node |-> FALSE]
  /\ stopErr = [n \in Node |-> FALSE]

-----------------------------------------------------------------------------
(* Start-up *)

\* Start up to BuildHandles: the lease adapter runs, the Manager is unset.
Boot(n) ==
  /\ pc[n] = "down"
  /\ pc' = [pc EXCEPT ![n] = "boot"]
  /\ adapter' = [adapter EXCEPT ![n] = "open"]
  /\ UNCHANGED <<lease, stopping, mgr, attempt, keepPg, stopErr, data>>

\* Mutant: gate 6.5 is left to the Manager.
EnsureStandbySignalSkipped(n) ==
  /\ pc[n] = "boot"
  /\ pc' = [pc EXCEPT ![n] = "signalled"]
  /\ UNCHANGED <<lease, stopping, mgr, adapter, attempt, keepPg, stopErr, data>>

\* Gate 6.5: an initialised PGDATA (PG_VERSION is there) gets standby.signal.
EnsureStandbySignal(n) ==
  /\ pc[n] = "boot"
  /\ pc' = [pc EXCEPT ![n] = "signalled"]
  /\ signal' = IF dir[n] = "empty" THEN signal ELSE [signal EXCEPT ![n] = TRUE]
  /\ UNCHANGED <<lease, stopping, mgr, adapter, attempt, keepPg, stopErr,
                 dir, pg, lapsed>>

\* Gate 7: manager.New, then mgrRef.Store.
PublishManager(n) ==
  /\ pc[n] = "signalled"
  /\ pc' = [pc EXCEPT ![n] = "up"]
  /\ mgr' = [mgr EXCEPT ![n] = "new"]
  /\ UNCHANGED <<lease, stopping, adapter, attempt, keepPg, stopErr, data>>

\* buildShutdownSteps: the first step for what has been constructed.
FirstStep(n) == IF mgr[n] = "none" THEN "cluster" ELSE "manager"

\* A gate of Start fails: teardownPartial drains without the postgres step.
\* ctx is not cancelled on this path.
StartFails(n) ==
  /\ pc[n] \in {"boot", "signalled"} \/ (pc[n] = "up" /\ mgr[n] = "new")
  /\ pc' = [pc EXCEPT ![n] = FirstStep(n)]
  /\ keepPg' = [keepPg EXCEPT ![n] = TRUE]
  /\ UNCHANGED <<lease, stopping, mgr, adapter, attempt, stopErr, data>>

\* main: go res.Manager.Start(ctx).
ManagerStart(n) ==
  /\ pc[n] = "up" /\ mgr[n] = "new"
  /\ mgr' = [mgr EXCEPT ![n] = "started"]
  /\ UNCHANGED <<lease, pc, stopping, adapter, attempt, keepPg, stopErr, data>>

-----------------------------------------------------------------------------
(* The end of a run, and the drain *)

\* SIGTERM, SIGINT or an operator restart cancels ctx, at any point.
StopSignal(n) ==
  /\ pc[n] # "down" /\ ~stopping[n]
  /\ stopping' = [stopping EXCEPT ![n] = TRUE]
  /\ UNCHANGED <<lease, pc, mgr, adapter, attempt, keepPg, stopErr, data>>

\* main's select and the drain it builds.  Manager.Start has returned: after
\* the shutdown signal, or by itself, and then shutdown() cancels ctx.  A
\* singleton conflict, met before the Manager touches Postgres, leaves
\* Postgres out of the drain.
ManagerReturns(n, singleton) ==
  /\ pc[n] = "up"
  /\ mgr[n] = IF singleton THEN "new" ELSE "started"
  /\ stopping' = [stopping EXCEPT ![n] = TRUE]
  /\ keepPg' = [keepPg EXCEPT ![n] = singleton]
  /\ pc' = [pc EXCEPT ![n] = FirstStep(n)]
  /\ UNCHANGED <<lease, mgr, adapter, attempt, stopErr, data>>

\* Mutant: the lease is released right after the manager step.
DrainManagerToCluster(n) ==
  /\ pc[n] = "manager"
  /\ mgr' = [mgr EXCEPT ![n] = "stopped"]
  /\ pc' = [pc EXCEPT ![n] = "cluster"]
  /\ UNCHANGED <<lease, stopping, adapter, attempt, keepPg, stopErr, data>>

\* Step "manager": Manager.Stop.  Postgres keeps running.
DrainManager(n) ==
  /\ pc[n] = "manager"
  /\ mgr' = [mgr EXCEPT ![n] = "stopped"]
  /\ pc' = [pc EXCEPT ![n] = IF keepPg[n] THEN "cluster" ELSE "postgres"]
  /\ UNCHANGED <<lease, stopping, adapter, attempt, keepPg, stopErr, data>>

\* Step "postgres": StopPostgres ends with Postgres down (already down, fast,
\* or immediate), or both modes fail and Drain records the error.
DrainPostgres(n) ==
  /\ pc[n] = "postgres"
  /\ pc' = [pc EXCEPT ![n] = "cluster"]
  /\ \/ /\ pg' = [pg EXCEPT ![n] = "down"]
        /\ UNCHANGED stopErr
     \/ /\ pg[n] # "down"
        /\ stopErr' = [stopErr EXCEPT ![n] = TRUE]
        /\ UNCHANGED pg
  /\ UNCHANGED <<lease, stopping, mgr, adapter, attempt, keepPg, dir, signal,
                 lapsed>>

\* Leadership.Close: the loop ends; the key is deleted if it is ours and the
\* delete, which is bounded in time, gets through.
CloseLeadership(n, how) ==
  /\ adapter' = [adapter EXCEPT ![n] = how]
  /\ attempt' = [attempt EXCEPT ![n] = FALSE]
  /\ \/ lease' = IF lease = n THEN None ELSE lease
     \/ UNCHANGED lease

\* Step "cluster": Handles.Close.
DrainCluster(n) ==
  /\ pc[n] = "cluster"
  /\ pc' = [pc EXCEPT ![n] = "drained"]
  /\ IF adapter[n] = "open"
     THEN CloseLeadership(n, "closed")
     ELSE UNCHANGED <<lease, adapter, attempt>>
  /\ UNCHANGED <<stopping, mgr, keepPg, stopErr, data>>

\* The budget is used up: Drain breaks out of its loop.
DrainTimeout(n) ==
  /\ pc[n] \in DrainSteps \ {"drained"}
  /\ pc' = [pc EXCEPT ![n] = "drained"]
  /\ UNCHANGED <<lease, stopping, mgr, adapter, attempt, keepPg, stopErr, data>>

\* The process and its container are gone, Postgres with them.
Vanish(n) ==
  /\ pc' = [pc EXCEPT ![n] = "down"]
  /\ stopping' = [stopping EXCEPT ![n] = FALSE]
  /\ mgr' = [mgr EXCEPT ![n] = "none"]
  /\ adapter' = [adapter EXCEPT ![n] = "none"]
  /\ attempt' = [attempt EXCEPT ![n] = FALSE]
  /\ pg' = [pg EXCEPT ![n] = "down"]
  /\ lapsed' = [lapsed EXCEPT ![n] = FALSE]
  /\ keepPg' = [keepPg EXCEPT ![n] = FALSE]
  /\ stopErr' = [stopErr EXCEPT ![n] = FALSE]
  /\ UNCHANGED <<lease, dir, signal>>

\* run returns its exit code.
Exit(n) == pc[n] = "drained" /\ Vanish(n)

\* SIGKILL, a host failure, or a panic that main turns into os.Exit.
Crash(n) == pc[n] # "down" /\ Vanish(n)

\* The storage monitor trips and fences: Leadership.Close, and nothing else.
\* It runs from BuildHandles until ctx is cancelled; the select of its loop
\* may still take a tick after that.
StorageTrip(n) ==
  /\ pc[n] # "down" /\ adapter[n] = "open"
  /\ CloseLeadership(n, "fenced")
  /\ UNCHANGED <<pc, stopping, mgr, keepPg, stopErr, data>>

-----------------------------------------------------------------------------
(* The lease adapter's loop *)

\* Mutant: a directory that is not empty is good enough.
BootGateAllowPartial(n, readable) == readable /\ dir[n] # "empty"

\* pgdataComplete, which is FALSE when the directory cannot be inspected.
BootGateAllow(n, readable) == readable /\ dir[n] = "complete"

\* Mutant: the gate does not look at ctx.
CampaignGateNoCtx(n, shouldCampaign, readable) ==
  IF mgr[n] # "none" THEN shouldCampaign ELSE BootGateAllow(n, readable)

\* campaignGate(ctx.Err() # nil, m, bootGate.allow)
CampaignGate(n, shouldCampaign, readable) ==
  /\ ~stopping[n]
  /\ IF mgr[n] # "none" THEN shouldCampaign ELSE BootGateAllow(n, readable)

\* The gate is consulted before each acquisition, never before a renewal.
\* What ShouldCampaign and the inspection of PGDATA say is free.
Campaign(n) ==
  /\ adapter[n] = "open" /\ lease # n /\ ~attempt[n]
  /\ \E shouldCampaign, readable \in BOOLEAN :
        CampaignGate(n, shouldCampaign, readable)
  /\ attempt' = [attempt EXCEPT ![n] = TRUE]
  /\ UNCHANGED <<lease, pc, stopping, mgr, adapter, keepPg, stopErr, data>>

\* Mutant: the key is put, whoever's it is.
AcquirePut(n) ==
  /\ attempt[n]
  /\ attempt' = [attempt EXCEPT ![n] = FALSE]
  /\ lease' = n /\ lapsed' = [lapsed EXCEPT ![n] = FALSE]
  /\ UNCHANGED <<pc, stopping, mgr, adapter, keepPg, stopErr, dir, signal, pg>>

\* The attempt that passed the gate reaches the bucket, some time later.
Acquire(n) ==
  /\ attempt[n]
  /\ attempt' = [attempt EXCEPT ![n] = FALSE]
  /\ IF lease = None
     THEN lease' = n /\ lapsed' = [lapsed EXCEPT ![n] = FALSE]
     ELSE UNCHANGED <<lease, lapsed>>
  /\ UNCHANGED <<pc, stopping, mgr, adapter, keepPg, stopErr, dir, signal, pg>>

\* The TTL runs out on a key that nobody renews.
Expire ==
  /\ lease # None /\ adapter[lease] # "open"
  /\ lease' = None
  /\ UNCHANGED <<local, data>>

\* The renewals of an open adapter do not get through (a partition, a lost
\* JetStream quorum) until the TTL has run out.
Lapse(n) ==
  /\ lease = n /\ adapter[n] = "open"
  /\ lease' = None
  /\ lapsed' = IF signal[n] THEN lapsed ELSE [lapsed EXCEPT ![n] = TRUE]
  /\ UNCHANGED <<local, dir, signal, pg>>

-----------------------------------------------------------------------------
(* The Manager, as long as it has not been stopped *)

SetData(n, d, s, p) ==
  /\ dir' = [dir EXCEPT ![n] = d]
  /\ signal' = [signal EXCEPT ![n] = s]
  /\ pg' = [pg EXCEPT ![n] = p]
  /\ lapsed' = IF s THEN [lapsed EXCEPT ![n] = FALSE] ELSE lapsed

\* The leader initialises an empty PGDATA and starts it as a primary.
InitDB(n) ==
  /\ lease = n /\ dir[n] = "empty"
  /\ SetData(n, "complete", FALSE, "primary")

\* A base backup: the directory is wiped, pg_control arrives last.
BeginClone(n) ==
  /\ lease # n /\ pg[n] = "down" /\ dir[n] # "partial"
  /\ \E m \in Node \ {n} : pg[m] = "primary"
  /\ SetData(n, "partial", FALSE, "down")

FinishClone(n) ==
  /\ dir[n] = "partial"
  /\ SetData(n, "complete", TRUE, "down")

\* pg_ctl start: the role is decided by standby.signal.
StartPostgres(n) ==
  /\ pg[n] = "down" /\ dir[n] = "complete"
  /\ SetData(n, dir[n], signal[n], IF signal[n] THEN "standby" ELSE "primary")

\* pg_ctl promote removes standby.signal.
Promote(n) ==
  /\ lease = n /\ pg[n] = "standby"
  /\ SetData(n, dir[n], FALSE, "primary")

\* The demotion of a primary that does not hold the lease (auto_demote).
Demote(n) ==
  /\ lease # n /\ pg[n] = "primary"
  /\ SetData(n, dir[n], TRUE, "down")

Manager(n) ==
  /\ mgr[n] = "started"
  /\ \/ InitDB(n) \/ BeginClone(n) \/ FinishClone(n)
     \/ StartPostgres(n) \/ Promote(n) \/ Demote(n)
  /\ UNCHANGED <<lease, local>>

\* A switchover: the leader demotes itself and resigns the lease.
Resign(n) ==
  /\ mgr[n] = "started" /\ lease = n /\ pg[n] = "primary"
  /\ SetData(n, dir[n], TRUE, "down")
  /\ lease' = None
  /\ UNCHANGED local

\* The postmaster dies by itself.
PostgresCrash(n) ==
  /\ pg[n] # "down"
  /\ SetData(n, dir[n], signal[n], "down")
  /\ UNCHANGED <<lease, local>>

-----------------------------------------------------------------------------

Next ==
  \/ Expire
  \/ \E n \in Node :
       \/ Boot(n) \/ EnsureStandbySignal(n) \/ PublishManager(n)
       \/ StartFails(n) \/ ManagerStart(n) \/ StopSignal(n)
       \/ \E singleton \in BOOLEAN : ManagerReturns(n, singleton)
       \/ DrainManager(n) \/ DrainPostgres(n) \/ DrainCluster(n)
       \/ DrainTimeout(n) \/ Exit(n) \/ Crash(n) \/ StorageTrip(n)
       \/ Campaign(n) \/ Acquire(n) \/ Lapse(n)
       \/ Manager(n) \/ Resign(n) \/ PostgresCrash(n)

Spec == Init /\ [][Next]_vars
-----------------------------------------------------------------------------
(* Properties *)

\* The three ways in which the lease is lost under a live primary: the storage
\* fence, a drain whose Postgres could not be stopped, and a renewal that does
\* not get through.
GivenUp(n) == adapter[n] = "fenced" \/ stopErr[n] \/ lapsed[n]

\* A Postgres that runs as a primary is covered by the lease: renewal lasts
\* until Handles.Close, and the drain's postgres step comes before it and after
\* the manager step.  The exceptions are those of GivenUp.
PrimaryHoldsLease ==
  \A n \in Node : pg[n] = "primary" => lease = n \/ GivenUp(n)

\* Two nodes run a primary at the same time only if one of them was fenced by
\* its storage monitor, failed to stop its Postgres, or let the lease lapse and
\* has not been demoted yet.  In particular a restart
\* never brings an old primary back beside the new one: standby.signal is
\* written before the Manager can start Postgres.
OnePrimary ==
  \A m, n \in Node :
    m # n /\ pg[m] = "primary" /\ pg[n] = "primary" => GivenUp(m) \/ GivenUp(n)

\* Neither the holder nor with an attempt on its way.
OutOfRace(n) == lease # n /\ ~attempt[n]

\* Once the shutdown of a node has started, the node wins the lease only with
\* an attempt that had already passed campaignGate: out of the race, it stays
\* out until its process has ended.
StoppingNeverWins ==
  [][\A n \in Node :
       stopping[n] /\ OutOfRace(n) => OutOfRace(n)' \/ pc'[n] = "down"]_vars

\* A node wins the lease before its Manager is published only if its PGDATA
\* holds a complete database (the boot-window gate, feature 005).
BootWinnerHasData ==
  [][\A n \in Node :
       mgr[n] = "none" /\ lease # n /\ lease' = n => dir[n] = "complete"]_vars

Writers == {n \in Node : pg[n] = "primary"}
Strays == {n \in Node : GivenUp(n)}

Contract == INSTANCE SingleWriter
            WITH holder <- lease, writers <- Writers, strays <- Strays

\* The peers implement SingleWriter: the lease is only ever taken when it is
\* free, no Postgres comes up as a primary on a node that neither holds the
\* lease nor has given it up, and a node that has given it up counts as a stray
\* until its Postgres is down or it holds the lease again, whichever of
\* the drain, a crash, an expiry and a switchover comes between.
WriterContract == Contract!Spec
=============================================================================
