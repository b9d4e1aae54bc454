------------------------- MODULE LeaseDrain_proofs --------------------------
(***************************************************************************)
(* Proofs about PeerLease for every set of peers, and about the drain of   *)
(* one of them (Drain) for every budget and every timeout.                 *)
(*                                                                         *)
(* PrimaryHoldsLease is not inductive: a Postgres that is down may come    *)
(* back as a primary when standby.signal is missing (NoSignalHoldsLease),  *)
(* the start-up order decides when it may be missing (SignalledAtBoot),    *)
(* and the drain order decides when the adapter may be closed              *)
(* (ClosedAfterStop).  LeaseInv is the conjunction that is inductive.      *)
(*                                                                         *)
(* The drain has an invariant for each of its promises: ClockInv for the   *)
(* deadline, OrderInv for the order of its steps, StoppedInv for what the  *)
(* exit code says, TailInv for the release of the lease.                   *)
(***************************************************************************)
EXTENDS PeerLease, Drain, TLAPS

\* What a process that is not there has left behind, and which phases have
\* which Manager.
PhaseShape ==
  \A n \in Node :
    /\ pc[n] = "down" => mgr[n] = "none" /\ pg[n] = "down"
    /\ pc[n] \in {"boot", "signalled"} => mgr[n] = "none"
    /\ keepPg[n] => pc[n] \in DrainSteps
    /\ pc[n] \in {"postgres", "cluster"} => mgr[n] # "started"
    /\ adapter[n] = "none" <=> pc[n] = "down"

\* Postgres runs only under a Manager that was started.
PostgresUnderManager ==
  \A n \in Node : mgr[n] \in {"none", "new"} \/ keepPg[n] =>
                     pg[n] = "down" /\ mgr[n] # "started"

\* From gate 6.5 until Manager.Start, a complete PGDATA has its signal.
SignalledAtBoot ==
  \A n \in Node :
    (pc[n] = "signalled" \/ mgr[n] = "new") /\ dir[n] = "complete" => signal[n]

\* Without the signal, the next start of Postgres makes a primary.
NoSignalHoldsLease ==
  \A n \in Node : mgr[n] = "started" /\ dir[n] = "complete" /\ ~signal[n] =>
                     lease = n \/ GivenUp(n)

\* A primary has no standby.signal: pg_ctl start looked, promote removed it.
PrimaryUnsignalled ==
  \A n \in Node : pg[n] = "primary" => ~signal[n]

\* The drain closes the adapter only after Postgres, and after the Manager.
ClosedAfterStop ==
  \A n \in Node :
    /\ pc[n] = "cluster" => pg[n] = "down" \/ stopErr[n]
    /\ adapter[n] = "closed" => /\ pc[n] = "drained"
                                /\ mgr[n] # "started"
                                /\ pg[n] = "down" \/ stopErr[n]

\* An attempt that passed the gate in the boot window has data behind it.
AttemptHasData ==
  \A n \in Node : attempt[n] /\ mgr[n] = "none" => dir[n] = "complete"

LeaseInv ==
  /\ TypeOK
  /\ PhaseShape
  /\ PostgresUnderManager
  /\ SignalledAtBoot
  /\ NoSignalHoldsLease
  /\ PrimaryUnsignalled
  /\ ClosedAfterStop
  /\ AttemptHasData
  /\ PrimaryHoldsLease
-----------------------------------------------------------------------------

\* The initial states satisfy LeaseInv.
LEMMA InitLeaseInv == Init => LeaseInv
  BY NoneAssumption
  DEF Init, LeaseInv, TypeOK, DrainSteps, PhaseShape, PostgresUnderManager,
      SignalledAtBoot, NoSignalHoldsLease, ClosedAfterStop, AttemptHasData,
      PrimaryUnsignalled, PrimaryHoldsLease

\* Every step of one peer, and every expiry of the lease, keeps LeaseInv.
LEMMA NextLeaseInv == LeaseInv /\ [Next]_vars => LeaseInv'
<1> SUFFICES ASSUME LeaseInv, [Next]_vars PROVE LeaseInv'
  OBVIOUS
<1> USE NoneAssumption
    DEF LeaseInv, TypeOK, DrainSteps, PhaseShape, PostgresUnderManager,
        SignalledAtBoot, NoSignalHoldsLease, ClosedAfterStop, AttemptHasData,
        PrimaryUnsignalled, PrimaryHoldsLease, GivenUp, local, data
<1>1. CASE Expire
  BY <1>1 DEF Expire
<1>2. ASSUME NEW n \in Node, Boot(n) PROVE LeaseInv'
  BY <1>2 DEF Boot
<1>3. ASSUME NEW n \in Node, EnsureStandbySignal(n) PROVE LeaseInv'
  BY <1>3 DEF EnsureStandbySignal
<1>4. ASSUME NEW n \in Node, PublishManager(n) PROVE LeaseInv'
  BY <1>4 DEF PublishManager
<1>5. ASSUME NEW n \in Node, StartFails(n) PROVE LeaseInv'
  BY <1>5 DEF StartFails, FirstStep
<1>6. ASSUME NEW n \in Node, ManagerStart(n) PROVE LeaseInv'
  BY <1>6 DEF ManagerStart
<1>7. ASSUME NEW n \in Node, StopSignal(n) PROVE LeaseInv'
  BY <1>7 DEF StopSignal
<1>8. ASSUME NEW n \in Node, DrainManager(n) PROVE LeaseInv'
  BY <1>8 DEF DrainManager
<1>9. ASSUME NEW n \in Node, DrainPostgres(n) PROVE LeaseInv'
  <2>1. CASE pg' = [pg EXCEPT ![n] = "down"] /\ UNCHANGED stopErr
    BY <1>9, <2>1 DEF DrainPostgres
  <2>2. CASE stopErr' = [stopErr EXCEPT ![n] = TRUE] /\ UNCHANGED pg
    BY <1>9, <2>2 DEF DrainPostgres
  <2> QED
    BY <1>9, <2>1, <2>2 DEF DrainPostgres
<1>10. ASSUME NEW n \in Node, DrainCluster(n) PROVE LeaseInv'
  <2>1. CASE adapter[n] = "open"
    <3>1. pg[n] = "down" \/ stopErr[n]
      BY <1>10 DEF DrainCluster
    <3>2. /\ adapter' = [adapter EXCEPT ![n] = "closed"]
          /\ attempt' = [attempt EXCEPT ![n] = FALSE]
          /\ lease' = lease \/ (lease = n /\ lease' = None)
      BY <1>10, <2>1 DEF DrainCluster, CloseLeadership
    <3>3. TypeOK'
      BY <1>10, <3>2 DEF DrainCluster
    <3>4. (PhaseShape /\ PostgresUnderManager /\ SignalledAtBoot
            /\ PrimaryUnsignalled /\ ClosedAfterStop /\ AttemptHasData)'
      BY <1>10, <3>1, <3>2 DEF DrainCluster
    <3>5. (NoSignalHoldsLease /\ PrimaryHoldsLease)'
      BY <1>10, <3>1, <3>2 DEF DrainCluster
    <3> QED
      BY <3>3, <3>4, <3>5
  <2>2. CASE adapter[n] # "open"
    BY <1>10, <2>2 DEF DrainCluster
  <2> QED
    BY <2>1, <2>2
<1>11. ASSUME NEW n \in Node, DrainTimeout(n) PROVE LeaseInv'
  BY <1>11 DEF DrainTimeout
<1>12. ASSUME NEW n \in Node, Exit(n) PROVE LeaseInv'
  BY <1>12 DEF Exit, Vanish
<1>13. ASSUME NEW n \in Node, Crash(n) PROVE LeaseInv'
  BY <1>13 DEF Crash, Vanish
<1>14. ASSUME NEW n \in Node, StorageTrip(n) PROVE LeaseInv'
  BY <1>14 DEF StorageTrip, CloseLeadership
<1>15. ASSUME NEW n \in Node, Campaign(n) PROVE LeaseInv'
  BY <1>15 DEF Campaign, CampaignGate, BootGateAllow
<1>16. ASSUME NEW n \in Node, Acquire(n) PROVE LeaseInv'
  <2>1. CASE lease = None
    <3>1. /\ lease' = n
          /\ attempt' = [attempt EXCEPT ![n] = FALSE]
          /\ lapsed' = [lapsed EXCEPT ![n] = FALSE]
          /\ UNCHANGED <<pc, stopping, mgr, adapter, keepPg, stopErr, dir,
                         signal, pg>>
      BY <1>16, <2>1 DEF Acquire
    <3>2. TypeOK'
      BY <3>1
    <3>3. (PhaseShape /\ PostgresUnderManager /\ SignalledAtBoot
            /\ PrimaryUnsignalled /\ ClosedAfterStop /\ AttemptHasData)'
      BY <3>1
    <3>4. \A m \in Node : m # n /\ GivenUp(m) => GivenUp(m)'
      BY <3>1
    <3>5. (NoSignalHoldsLease /\ PrimaryHoldsLease)'
      BY <2>1, <3>1, <3>4
    <3> QED
      BY <3>2, <3>3, <3>5
  <2>2. CASE lease # None
    BY <1>16, <2>2 DEF Acquire
  <2> QED
    BY <2>1, <2>2
<1>17. ASSUME NEW n \in Node, Resign(n) PROVE LeaseInv'
  BY <1>17 DEF Resign, SetData
<1>18. ASSUME NEW n \in Node, PostgresCrash(n) PROVE LeaseInv'
  BY <1>18 DEF PostgresCrash, SetData
<1>19. ASSUME NEW n \in Node, NEW singleton \in BOOLEAN, ManagerReturns(n, singleton)
       PROVE  LeaseInv'
  BY <1>19, SMTT(30) DEF ManagerReturns, FirstStep
<1>20. ASSUME NEW n \in Node, Manager(n) PROVE LeaseInv'
  <2>1. CASE InitDB(n)
    BY <1>20, <2>1 DEF Manager, InitDB, SetData
  <2>2. CASE BeginClone(n)
    BY <1>20, <2>2 DEF Manager, BeginClone, SetData
  <2>3. CASE FinishClone(n)
    BY <1>20, <2>3 DEF Manager, FinishClone, SetData
  <2>4. CASE StartPostgres(n)
    BY <1>20, <2>4 DEF Manager, StartPostgres, SetData
  <2>5. CASE Promote(n)
    BY <1>20, <2>5 DEF Manager, Promote, SetData
  <2>6. CASE Demote(n)
    BY <1>20, <2>6 DEF Manager, Demote, SetData
  <2> QED
    BY <1>20, <2>1, <2>2, <2>3, <2>4, <2>5, <2>6 DEF Manager
<1>21. ASSUME NEW n \in Node, Lapse(n) PROVE LeaseInv'
  BY <1>21 DEF Lapse
<1>22. CASE UNCHANGED vars
  BY <1>22 DEF vars
<1> HIDE NoneAssumption
    DEF LeaseInv, TypeOK, DrainSteps, PhaseShape, PostgresUnderManager,
        SignalledAtBoot, NoSignalHoldsLease, ClosedAfterStop, AttemptHasData,
        PrimaryUnsignalled, PrimaryHoldsLease, GivenUp, local, data
<1> QED
  BY <1>1, <1>2, <1>3, <1>4, <1>5, <1>6, <1>7, <1>8, <1>9, <1>10, <1>11,
     <1>12, <1>13, <1>14, <1>15, <1>16, <1>17, <1>18, <1>19, <1>20, <1>21,
     <1>22
  DEF Next

\* LeaseInv holds in every reachable state.
LEMMA LeaseInvariance == Spec => []LeaseInv
  BY InitLeaseInv, NextLeaseInv, PTL DEF Spec

\* Every variable keeps its type in every behaviour, for every set of peers.
THEOREM TypeCorrect == Spec => []TypeOK
  BY LeaseInvariance, PTL DEF LeaseInv

\* A Postgres that runs as a primary is covered by the lease, for every set of
\* peers and across crashes, restarts, drains and switchovers, unless its node
\* was fenced by the storage monitor, failed to stop it in the drain, or let the
\* lease lapse and has not demoted it yet.
THEOREM PrimaryLease == Spec => []PrimaryHoldsLease
  BY LeaseInvariance, PTL DEF LeaseInv

\* Two primaries at once need a fenced node, a failed Postgres stop or a lapse:
\* the lease has one holder, and each of the two would have to be it.
THEOREM AtMostOnePrimary == Spec => []OnePrimary
<1>1. PrimaryHoldsLease => OnePrimary
  BY DEF PrimaryHoldsLease, OnePrimary
<1> QED
  BY <1>1, PrimaryLease, PTL

\* The lease changes hands to a node only by that node's own Acquire.
LEMMA OnlyAcquireWins ==
  ASSUME NEW n \in Node, TypeOK, Next, lease # n, lease' = n
  PROVE  Acquire(n)
<1> USE NoneAssumption DEF TypeOK
<1>1. ~Expire
  BY DEF Expire
<1>2. PICK m \in Node :
         \/ Boot(m) \/ EnsureStandbySignal(m) \/ PublishManager(m)
         \/ StartFails(m) \/ ManagerStart(m) \/ StopSignal(m)
         \/ \E singleton \in BOOLEAN : ManagerReturns(m, singleton)
         \/ DrainManager(m) \/ DrainPostgres(m) \/ DrainCluster(m)
         \/ DrainTimeout(m) \/ Exit(m) \/ Crash(m) \/ StorageTrip(m)
         \/ Campaign(m) \/ Acquire(m) \/ Lapse(m)
         \/ Manager(m) \/ Resign(m) \/ PostgresCrash(m)
  BY <1>1 DEF Next
<1>3. lease' \in {lease, None} \/ Acquire(m)
  BY <1>2, ZenonT(40)
  DEF Boot, EnsureStandbySignal, PublishManager, StartFails, ManagerStart,
      StopSignal, ManagerReturns, DrainManager, DrainPostgres, DrainCluster,
      CloseLeadership, DrainTimeout, Exit, Crash, Vanish, StorageTrip,
      Campaign, Lapse, Manager, Resign, PostgresCrash
<1>4. Acquire(m) => m = n
  BY DEF Acquire
<1> QED
  BY <1>3, <1>4

\* A node whose shutdown has started and that is out of the race stays out of
\* it: the gate refuses a new attempt, and only an attempt wins.
THEOREM NoWinWhileStopping == Spec => StoppingNeverWins
<1>1. ASSUME TypeOK, Next, NEW n \in Node, stopping[n], OutOfRace(n)
      PROVE  OutOfRace(n)' \/ pc'[n] = "down"
  <2>1. lease' # n
    BY <1>1, OnlyAcquireWins DEF OutOfRace, Acquire
  <2>2. ~attempt'[n]
    BY <1>1
    DEF TypeOK, OutOfRace, Next, Boot, EnsureStandbySignal, PublishManager,
        StartFails, ManagerStart, StopSignal, ManagerReturns, DrainManager,
        DrainPostgres, DrainCluster, CloseLeadership, DrainTimeout, Exit,
        Crash, Vanish, StorageTrip, Campaign, CampaignGate, Acquire, Lapse,
        Expire, Manager, Resign, PostgresCrash, local
  <2> QED
    BY <2>1, <2>2 DEF OutOfRace
<1>2. TypeOK /\ [Next]_vars =>
        [\A n \in Node :
           stopping[n] /\ OutOfRace(n) => OutOfRace(n)' \/ pc'[n] = "down"]_vars
  BY <1>1
<1> QED
  BY <1>2, TypeCorrect, PTL DEF Spec, StoppingNeverWins

\* A node that wins the lease before its Manager is published has a complete
\* PGDATA, although the gate was consulted some steps before the win.
THEOREM BootWindow == Spec => BootWinnerHasData
<1>1. ASSUME LeaseInv, Next, NEW n \in Node,
             mgr[n] = "none", lease # n, lease' = n
      PROVE  dir[n] = "complete"
  <2>1. TypeOK /\ AttemptHasData
    BY <1>1 DEF LeaseInv
  <2>2. Acquire(n)
    BY ONLY <1>1, <2>1, OnlyAcquireWins, n \in Node
  <2>3. attempt[n]
    BY <2>2 DEF Acquire
  <2> QED
    BY <1>1, <2>1, <2>3 DEF AttemptHasData
<1>2. LeaseInv /\ [Next]_vars =>
        [\A n \in Node :
           mgr[n] = "none" /\ lease # n /\ lease' = n => dir[n] = "complete"]_vars
  BY <1>1
<1> QED
  BY <1>2, LeaseInvariance, PTL DEF Spec, BootWinnerHasData

\* A step that changes nothing SingleWriter sees is a stutter of it.
LEMMA Unseen ==
  ASSUME UNCHANGED <<lease, pg, adapter, stopErr, lapsed>>
  PROVE  UNCHANGED Contract!vars
  BY DEF Contract!vars, Writers, Strays, GivenUp

\* Leadership.Close takes the lease from n, or leaves it: n gives up, or drops.
LEMMA StepStorageTrip ==
  ASSUME LeaseInv, NEW n \in Node, StorageTrip(n)
  PROVE  Contract!Next
<1> USE DEF LeaseInv, TypeOK, StorageTrip, CloseLeadership, data
<1>1. Writers' = Writers
  BY DEF Writers
<1>2. Strays' = Strays \cup {n}
  BY DEF Strays, GivenUp
<1>3. CASE lease' = lease
  <2>1. Contract!GiveUp(n)
    BY <1>1, <1>2, <1>3 DEF Contract!GiveUp
  <2> QED
    BY <2>1 DEF Contract!Next
<1>4. CASE lease = n /\ lease' = None
  <2>1. Contract!Drop
    BY <1>1, <1>2, <1>4, NoneAssumption DEF Contract!Drop
  <2> QED
    BY <2>1 DEF Contract!Next
<1> QED
  BY <1>3, <1>4

\* A node that may have ceased to be a stray, and nothing else.
LEMMA StraysLose ==
  ASSUME NEW n \in Node,
         \A m \in Node : m # n => (GivenUp(m)' <=> GivenUp(m)),
         GivenUp(n)' => GivenUp(n)
  PROVE  Strays' \in {Strays, Strays \ {n}}
<1>1. CASE GivenUp(n)'
  BY <1>1 DEF Strays
<1>2. CASE ~GivenUp(n)'
  BY <1>2 DEF Strays
<1> QED
  BY <1>1, <1>2

\* What ends Postgres on n, and clears its reasons to be a stray or not.
LEMMA StepClose ==
  ASSUME NEW n \in Node, lease' = lease, Writers' = Writers \ {n},
         \A m \in Node : m # n => (GivenUp(m)' <=> GivenUp(m)),
         GivenUp(n)' => GivenUp(n)
  PROVE  Contract!Next
<1>1. Contract!Close(n)
  BY StraysLose DEF Contract!Close
<1> QED
  BY <1>1 DEF Contract!Next

\* A Postgres that comes up as a primary is the holder's, or a stray's.
LEMMA StepOpen ==
  ASSUME NEW n \in Node, lease = n \/ GivenUp(n), lease' = lease,
         Writers' = Writers \cup {n}, UNCHANGED <<adapter, stopErr, lapsed>>
  PROVE  Contract!Next
<1>1. Strays' = Strays
  BY DEF Strays, GivenUp
<1>2. Contract!Open(n)
  BY <1>1 DEF Contract!Open, Strays
<1> QED
  BY <1>2 DEF Contract!Next

\* A lease that ends is the holder's, whose Postgres is no primary or a stray.
LEMMA StepDrop ==
  ASSUME NEW n \in Node, lease = n, lease' = None,
         Writers' \in {Writers, Writers \ {n}},
         \A m \in Node : m # n => (GivenUp(m)' <=> GivenUp(m)),
         GivenUp(n) => GivenUp(n)',
         n \in Writers' => GivenUp(n)'
  PROVE  Contract!Next
<1>1. Strays' \in {Strays, Strays \cup {n}}
  <2>1. CASE GivenUp(n)'
    BY <2>1 DEF Strays
  <2>2. CASE ~GivenUp(n)'
    BY <2>2 DEF Strays
  <2> QED
    BY <2>1, <2>2
<1>2. n \in Writers' => n \in Strays'
  BY DEF Strays
<1>3. Contract!Drop
  BY <1>1, <1>2, NoneAssumption DEF Contract!Drop
<1> QED
  BY <1>3 DEF Contract!Next

\* The holder has not lapsed: winning the lease ends the lapse.
HolderNotLapsed == \A n \in Node : lapsed[n] => lease # n

\* HolderNotLapsed holds in every reachable state.
LEMMA NotLapsed == Spec => []HolderNotLapsed
<1>1. Init => HolderNotLapsed
  BY DEF Init, HolderNotLapsed
<1>2. ASSUME TypeOK, HolderNotLapsed, Next PROVE HolderNotLapsed'
  <2> SUFFICES ASSUME NEW n \in Node, lapsed'[n], lease' = n PROVE FALSE
    BY DEF HolderNotLapsed
  <2>1. lease # n => Acquire(n)
    BY <1>2, OnlyAcquireWins
  <2>2. ~Acquire(n)
    BY <1>2 DEF Acquire, HolderNotLapsed, TypeOK
  <2>3. lease = n /\ ~lapsed[n]
    BY <1>2, <2>1, <2>2 DEF HolderNotLapsed
  <2>4. lease' # None
    BY NoneAssumption
  <2>5. PICK m \in Node :
         \/ Expire
         \/ Boot(m) \/ EnsureStandbySignal(m) \/ PublishManager(m)
         \/ StartFails(m) \/ ManagerStart(m) \/ StopSignal(m)
         \/ \E singleton \in BOOLEAN : ManagerReturns(m, singleton)
         \/ DrainManager(m) \/ DrainPostgres(m) \/ DrainCluster(m)
         \/ DrainTimeout(m) \/ Exit(m) \/ Crash(m) \/ StorageTrip(m)
         \/ Campaign(m) \/ Acquire(m) \/ Lapse(m)
         \/ Manager(m) \/ Resign(m) \/ PostgresCrash(m)
    BY <1>2 DEF Next
  <2>6. CASE \/ Boot(m) \/ EnsureStandbySignal(m) \/ PublishManager(m)
             \/ StartFails(m) \/ ManagerStart(m) \/ StopSignal(m)
             \/ \E singleton \in BOOLEAN : ManagerReturns(m, singleton)
             \/ DrainManager(m) \/ DrainTimeout(m) \/ Campaign(m)
    <3>1. lapsed' = lapsed
      BY <2>6, SMTT(30)
      DEF Boot, EnsureStandbySignal, PublishManager, StartFails, ManagerStart,
          StopSignal, ManagerReturns, DrainManager, DrainTimeout, Campaign, data
    <3> QED
      BY <2>3, <3>1
  <2>7. CASE DrainPostgres(m) \/ DrainCluster(m) \/ StorageTrip(m)
    <3>1. lapsed' = lapsed
      BY <2>7 DEF DrainPostgres, DrainCluster, StorageTrip, data
    <3> QED
      BY <2>3, <3>1
  <2>8. CASE Exit(m) \/ Crash(m)
    BY <1>2, <2>3, <2>8 DEF Exit, Crash, Vanish, TypeOK
  <2>9. CASE Expire \/ Lapse(m) \/ Resign(m)
    BY <2>4, <2>9 DEF Expire, Lapse, Resign
  <2>10. CASE Acquire(m)
    BY <2>2, <2>3, <2>10, <1>2 DEF Acquire, TypeOK
  <2>11. CASE Manager(m) \/ PostgresCrash(m)
    <3>1. lapsed' = lapsed \/ lapsed' = [lapsed EXCEPT ![m] = FALSE]
      BY <2>11
      DEF Manager, InitDB, BeginClone, FinishClone, StartPostgres, Promote,
          Demote, PostgresCrash, SetData
    <3> QED
      BY <1>2, <2>3, <3>1 DEF TypeOK
  <2> QED
    BY <2>5, <2>6, <2>7, <2>8, <2>9, <2>10, <2>11
<1>3. TypeOK /\ HolderNotLapsed /\ [Next]_vars => HolderNotLapsed'
  BY <1>2 DEF HolderNotLapsed, vars
<1> QED
  BY <1>1, <1>3, TypeCorrect, PTL DEF Spec

\* Every step of a peer is a step of SingleWriter or one that it does not see.
LEMMA StepContract ==
  ASSUME LeaseInv, HolderNotLapsed, Next
  PROVE  Contract!Next \/ UNCHANGED Contract!vars
<1> DEFINE Goal == Contract!Next \/ UNCHANGED Contract!vars
<1>t. TypeOK
  BY DEF LeaseInv
<1>1. ASSUME Expire PROVE Goal
  <2>1. /\ lease \in Node /\ lease' = None
        /\ UNCHANGED <<pg, adapter, stopErr, lapsed>>
    BY <1>1, <1>t DEF Expire, local, data, TypeOK
  <2>2. \A m \in Node : GivenUp(m)' <=> GivenUp(m)
    BY <2>1 DEF GivenUp
  <2>3. Writers' = Writers
    BY <2>1 DEF Writers
  <2>4. lease \in Writers => GivenUp(lease)
    BY <1>1, <2>1
    DEF Expire, LeaseInv, PhaseShape, ClosedAfterStop, GivenUp, TypeOK, Writers
  <2> QED
    BY <2>1, <2>2, <2>3, <2>4, StepDrop
<1>2. ASSUME NEW n \in Node,
             \/ Boot(n) \/ EnsureStandbySignal(n) \/ PublishManager(n)
             \/ StartFails(n) \/ ManagerStart(n) \/ StopSignal(n)
             \/ \E singleton \in BOOLEAN : ManagerReturns(n, singleton)
             \/ DrainManager(n) \/ DrainTimeout(n) \/ Campaign(n)
      PROVE  Goal
  <2>1. UNCHANGED <<lease, pg, stopErr, lapsed>>
    BY <1>2
    DEF Boot, EnsureStandbySignal, PublishManager, StartFails, ManagerStart,
        StopSignal, ManagerReturns, DrainManager, DrainTimeout, Campaign, data
  <2>2. \A m \in Node : adapter'[m] = "fenced" <=> adapter[m] = "fenced"
    BY <1>2
    DEF Boot, EnsureStandbySignal, PublishManager, StartFails, ManagerStart,
        StopSignal, ManagerReturns, DrainManager, DrainTimeout, Campaign, data,
        LeaseInv, TypeOK, PhaseShape
  <2>3. Writers' = Writers /\ Strays' = Strays
    BY <2>1, <2>2 DEF Writers, Strays, GivenUp
  <2> QED
    BY <2>1, <2>3 DEF Contract!vars
<1>3. ASSUME NEW n \in Node, DrainPostgres(n) PROVE Goal
  <2>1. CASE pg' = [pg EXCEPT ![n] = "down"] /\ UNCHANGED stopErr
    <3>1. \A m \in Node : GivenUp(m)' <=> GivenUp(m)
      BY <1>3, <2>1 DEF DrainPostgres, GivenUp
    <3>2. lease' = lease /\ Writers' = Writers \ {n}
      BY <1>3, <1>t, <2>1 DEF DrainPostgres, Writers, TypeOK
    <3> QED
      BY <3>1, <3>2, StepClose
  <2>2. CASE stopErr' = [stopErr EXCEPT ![n] = TRUE] /\ UNCHANGED pg
    <3>1. Writers' = Writers /\ Strays' = Strays \cup {n}
      BY <1>3, <1>t, <2>2 DEF DrainPostgres, Writers, Strays, GivenUp, TypeOK
    <3> QED
      BY <1>3, <3>1 DEF DrainPostgres, Contract!GiveUp, Contract!Next
  <2> QED
    BY <1>3, <2>1, <2>2 DEF DrainPostgres
<1>4. ASSUME NEW n \in Node, DrainCluster(n) PROVE Goal
  <2>1. CASE lease' = lease
    <3>1. \A m \in Node : GivenUp(m)' <=> GivenUp(m)
      BY <1>4, <1>t DEF DrainCluster, CloseLeadership, GivenUp, TypeOK, data
    <3> QED
      BY <1>4, <2>1, <3>1 DEF DrainCluster, data, Contract!vars, Writers, Strays
  <2>2. CASE lease' # lease
    <3>1. /\ lease = n /\ lease' = None /\ adapter[n] = "open"
          /\ adapter' = [adapter EXCEPT ![n] = "closed"]
          /\ UNCHANGED <<pg, stopErr, lapsed>>
      BY <1>4, <2>2 DEF DrainCluster, CloseLeadership, data
    <3>2. \A m \in Node : GivenUp(m)' <=> GivenUp(m)
      BY <1>t, <3>1 DEF GivenUp, TypeOK
    <3>3. Writers' = Writers
      BY <3>1 DEF Writers
    <3>4. n \in Writers => GivenUp(n)
      BY <1>4 DEF DrainCluster, LeaseInv, ClosedAfterStop, GivenUp, Writers
    <3> QED
      BY <3>1, <3>2, <3>3, <3>4, StepDrop
  <2> QED
    BY <2>1, <2>2
<1>5. ASSUME NEW n \in Node, Vanish(n) PROVE Goal
  <2>1. /\ \A m \in Node : m # n => (GivenUp(m)' <=> GivenUp(m))
        /\ ~GivenUp(n)'
    BY <1>5, <1>t DEF Vanish, GivenUp, TypeOK
  <2>2. lease' = lease /\ Writers' = Writers \ {n}
    BY <1>5, <1>t DEF Vanish, Writers, TypeOK
  <2> QED
    BY <2>1, <2>2, StepClose
<1>6. ASSUME NEW n \in Node, Acquire(n) PROVE Goal
  <2>1. CASE lease = None
    <3>1. /\ lease' = n /\ lapsed' = [lapsed EXCEPT ![n] = FALSE]
          /\ UNCHANGED <<pg, adapter, stopErr>>
      BY <1>6, <2>1 DEF Acquire
    <3>2. /\ \A m \in Node : m # n => (GivenUp(m)' <=> GivenUp(m))
          /\ GivenUp(n)' => GivenUp(n)
      BY <1>t, <3>1 DEF GivenUp, TypeOK
    <3>3. Strays' \in {Strays, Strays \ {n}}
      BY <3>2, StraysLose
    <3>4. Contract!Grant(n)
      BY <2>1, <3>1, <3>3 DEF Contract!Grant, Writers
    <3> QED
      BY <3>4 DEF Contract!Next
  <2>2. CASE lease # None
    BY <1>6, <2>2, Unseen DEF Acquire
  <2> QED
    BY <2>1, <2>2
<1>7. ASSUME NEW n \in Node, Lapse(n) PROVE Goal
  <2>1. /\ lease = n /\ lease' = None /\ UNCHANGED <<pg, adapter, stopErr>>
        /\ lapsed' = IF signal[n] THEN lapsed ELSE [lapsed EXCEPT ![n] = TRUE]
    BY <1>7 DEF Lapse, local
  <2>2. /\ \A m \in Node : m # n => (GivenUp(m)' <=> GivenUp(m))
        /\ GivenUp(n) => GivenUp(n)'
    BY <1>t, <2>1 DEF GivenUp, TypeOK
  <2>3. Writers' = Writers
    BY <2>1 DEF Writers
  <2>4. n \in Writers => GivenUp(n)'
    BY <1>t, <2>1 DEF LeaseInv, PrimaryUnsignalled, GivenUp, TypeOK, Writers
  <2> QED
    BY <2>1, <2>2, <2>3, <2>4, StepDrop
<1>8. ASSUME NEW n \in Node, Manager(n) PROVE Goal
  <2>1. UNCHANGED <<lease, adapter, stopErr>>
    BY <1>8 DEF Manager, local
  <2>2. CASE InitDB(n) \/ Promote(n) \/ (StartPostgres(n) /\ ~signal[n])
    <3>1. pg' = [pg EXCEPT ![n] = "primary"] /\ lapsed' = lapsed
      BY <2>2 DEF InitDB, Promote, StartPostgres, SetData
    <3>2. Writers' = Writers \cup {n}
      BY <1>t, <3>1 DEF Writers, TypeOK
    <3>3. lease = n \/ GivenUp(n)
      <4>1. CASE InitDB(n) \/ Promote(n)
        BY <4>1, Zenon DEF InitDB, Promote
      <4>2. CASE StartPostgres(n) /\ ~signal[n]
        <5>1. mgr[n] = "started" /\ dir[n] = "complete" /\ ~signal[n]
          BY <1>8, <4>2 DEF Manager, StartPostgres
        <5> QED
          BY <5>1 DEF LeaseInv, NoSignalHoldsLease
      <4> QED
        BY <2>2, <4>1, <4>2
    <3> QED
      BY <2>1, <3>1, <3>2, <3>3, StepOpen
  <2>3. CASE BeginClone(n) \/ FinishClone(n) \/ Demote(n)
    <3>1. /\ pg' = [pg EXCEPT ![n] = "down"]
          /\ lapsed' = lapsed \/ lapsed' = [lapsed EXCEPT ![n] = FALSE]
      BY <2>3 DEF BeginClone, FinishClone, Demote, SetData
    <3>2. /\ \A m \in Node : m # n => (GivenUp(m)' <=> GivenUp(m))
          /\ GivenUp(n)' => GivenUp(n)
      BY <1>t, <2>1, <3>1 DEF GivenUp, TypeOK
    <3>3. Writers' = Writers \ {n}
      BY <1>t, <3>1 DEF Writers, TypeOK
    <3> QED
      BY <2>1, <3>2, <3>3, StepClose
  <2>4. CASE StartPostgres(n) /\ signal[n]
    <3>1. /\ pg[n] = "down" /\ pg' = [pg EXCEPT ![n] = "standby"]
          /\ lapsed' = [lapsed EXCEPT ![n] = FALSE]
      BY <2>4 DEF StartPostgres, SetData
    <3>2. Writers' = Writers \ {n}
      BY <1>t, <3>1 DEF Writers, TypeOK
    <3>3. /\ \A m \in Node : m # n => (GivenUp(m)' <=> GivenUp(m))
          /\ GivenUp(n)' => GivenUp(n)
      BY <1>t, <2>1, <3>1 DEF GivenUp, TypeOK
    <3> QED
      BY <2>1, <3>2, <3>3, StepClose
  <2> QED
    BY <1>8, <2>2, <2>3, <2>4 DEF Manager
<1>9. ASSUME NEW n \in Node, Resign(n) PROVE Goal
  <2>1. /\ lease = n /\ lease' = None /\ UNCHANGED <<adapter, stopErr>>
        /\ pg' = [pg EXCEPT ![n] = "down"] /\ lapsed' = [lapsed EXCEPT ![n] = FALSE]
    BY <1>9 DEF Resign, SetData, local
  <2>2. \A m \in Node : GivenUp(m)' <=> GivenUp(m)
    BY <1>t, <2>1 DEF GivenUp, TypeOK, HolderNotLapsed
  <2>3. Writers' = Writers \ {n}
    BY <1>t, <2>1 DEF TypeOK, Writers
  <2> QED
    BY <2>1, <2>2, <2>3, StepDrop
<1>10. ASSUME NEW n \in Node, PostgresCrash(n) PROVE Goal
  <2>1. /\ UNCHANGED <<lease, adapter, stopErr>>
        /\ pg' = [pg EXCEPT ![n] = "down"]
        /\ lapsed' = lapsed \/ lapsed' = [lapsed EXCEPT ![n] = FALSE]
    BY <1>10 DEF PostgresCrash, SetData, local
  <2>2. /\ \A m \in Node : m # n => (GivenUp(m)' <=> GivenUp(m))
        /\ GivenUp(n)' => GivenUp(n)
    BY <1>t, <2>1 DEF GivenUp, TypeOK
  <2>3. Writers' = Writers \ {n}
    BY <1>t, <2>1 DEF TypeOK, Writers
  <2> QED
    BY <2>1, <2>2, <2>3, StepClose
<1> QED
  BY <1>1, <1>2, <1>3, <1>4, <1>5, <1>6, <1>7, <1>8, <1>9, <1>10, StepStorageTrip
  DEF Next, Exit, Crash

\* The peers implement SingleWriter, for every set of peers: each of their steps
\* is one of its steps under the mapping of Contract, or changes nothing there.
THEOREM ImplementsSingleWriter == Spec => WriterContract
<1>1. Init => Contract!Init
  BY DEF Init, Contract!Init, Writers, Strays, GivenUp
<1>2. LeaseInv /\ HolderNotLapsed /\ [Next]_vars => [Contract!Next]_(Contract!vars)
  <2>1. UNCHANGED vars => UNCHANGED Contract!vars
    BY Unseen DEF vars
  <2> QED
    BY <2>1, StepContract
<1> QED
  BY <1>1, <1>2, LeaseInvariance, NotLapsed, PTL DEF Spec, WriterContract, Contract!Spec

-----------------------------------------------------------------------------
(* The clock *)

\* The longest that one step may go on after the deadline.
Overrun == Max2(RouteTimeout, Max2(PublishTimeout, DeleteTimeout))

\* The clock and the deadline are what OverrunBounded compares.
ClockInv == budget \in Nat /\ clock \in Nat /\ clock <= budget + Overrun

\* No timeout is longer than Overrun.
LEMMA OverrunCovers ==
  /\ Overrun \in Nat
  /\ RouteTimeout <= Overrun /\ PublishTimeout <= Overrun /\ DeleteTimeout <= Overrun
  BY TimeoutsAssumption DEF Overrun, Max2

\* Fast mode is over by the deadline, with room for what comes after it.
LEMMA FastStopWindow ==
  ASSUME budget \in Nat, clock \in Nat, clock < budget
  PROVE  /\ FastStopEnd \in Nat /\ FastStopEnd <= budget
         /\ budget - clock >= FastFloor + ImmediateWindow + TailReserve =>
              FastStopEnd + ImmediateWindow + TailReserve <= budget
  BY DEF FastStopEnd, Min2, Max2, FastFloor, ImmediateWindow, TailReserve

\* Every step of Drain begins before the deadline.  It ends by the deadline, or
\* after a timeout of its own.
LEMMA StepEnds ==
  ASSUME budget \in Nat, clock \in Nat, DrainNext
  PROVE  /\ budget' = budget /\ clock' \in Nat
         /\ \/ clock' = clock
            \/ clock' <= budget
            \/ clock < budget /\ clock' <= clock + Overrun
<1> USE DEF Running, StepDone
<1>c. CtxEnd = clock \/ CtxEnd = budget
  BY DEF CtxEnd
<1>1. CASE BoundedStep
  <2>1. PICK t \in clock .. CtxEnd : clock' = t /\ budget' = budget /\ clock < budget
    BY <1>1, Zenon DEF BoundedStep
  <2> QED
    BY <1>c, <2>1
<1>2. CASE InstantStep
  BY <1>2, Zenon DEF InstantStep
<1>3. CASE ResponderStep
  <2>1. PICK t \in clock .. clock + RouteTimeout :
          clock' = t /\ budget' = budget /\ clock < budget
    BY <1>3, Zenon DEF ResponderStep
  <2> QED
    BY <2>1, OverrunCovers, TimeoutsAssumption
<1>4. CASE StopPostgres
  <2>1. clock < budget /\ budget' = budget
    BY <1>4, Zenon DEF StopPostgres
  <2>2. FastStopEnd \in Nat /\ FastStopEnd <= budget
    BY <2>1, FastStopWindow
  <2>3. \/ clock' = clock
        \/ \E t \in clock .. FastStopEnd : clock' = t
        \/ \E t \in clock .. FastStopEnd :
             \E u \in t .. Min2(budget, t + ImmediateWindow) : clock' = u
    BY <1>4, Zenon DEF StopPostgres
  <2> QED
    BY <2>1, <2>2, <2>3 DEF Min2, ImmediateWindow
<1>5. CASE PreStopStep
  <2>1. PICK t \in clock .. clock + PublishTimeout :
          clock' = t /\ budget' = budget /\ clock < budget
    BY <1>5, Zenon DEF PreStopStep
  <2> QED
    BY <2>1, OverrunCovers, TimeoutsAssumption
<1>6. CASE ClusterStep
  <2>1. PICK t \in clock .. clock + DeleteTimeout :
          clock' = t /\ budget' = budget /\ clock < budget
    BY <1>6, Zenon DEF ClusterStep
  <2> QED
    BY <2>1, OverrunCovers, TimeoutsAssumption
<1>7. CASE EmbeddedStep
  <2>1. /\ budget' = budget /\ clock < budget
        /\ clock' = CtxEnd \/ \E t \in clock .. CtxEnd : clock' = t
    BY <1>7, Zenon DEF EmbeddedStep
  <2> QED
    BY <1>c, <2>1
<1>8. CASE DrainBreak \/ Return
  BY <1>8, Zenon DEF DrainBreak, Return
<1> QED
  BY <1>1, <1>2, <1>3, <1>4, <1>5, <1>6, <1>7, <1>8 DEF DrainNext

\* ClockInv holds in every reachable state.
LEMMA ClockInvariance == DrainSpec => []ClockInv
<1>1. DrainInit => ClockInv
  <2> SUFFICES ASSUME DrainInit PROVE ClockInv
    OBVIOUS
  <2>1. budget \in Nat /\ clock = 0
    BY BudgetsAssumption, Zenon DEF DrainInit
  <2> QED
    BY <2>1, OverrunCovers DEF ClockInv
<1>2. ClockInv /\ [DrainNext]_drainVars => ClockInv'
  <2> SUFFICES ASSUME ClockInv, [DrainNext]_drainVars PROVE ClockInv'
    OBVIOUS
  <2>1. Overrun' = Overrun
    BY DEF Overrun
  <2>2. CASE DrainNext
    BY <2>1, <2>2, StepEnds, OverrunCovers DEF ClockInv
  <2>3. CASE UNCHANGED drainVars
    BY <2>1, <2>3 DEF ClockInv, drainVars
  <2> QED
    BY <2>2, <2>3
<1> QED
  BY <1>1, <1>2, PTL DEF DrainSpec

\* Drain looks at the deadline before every step, so that the drain overruns it
\* by one step that ignores its context, and by no more.
THEOREM BoundedOverrun == DrainSpec => []OverrunBounded
<1>1. ClockInv => OverrunBounded
  BY DEF ClockInv, OverrunBounded, Overrun
<1> QED
  BY <1>1, ClockInvariance, PTL

\* StopPostgres leaves the tail reserve to the steps after it whenever it starts
\* with room for its own windows, in fast mode and when it escalates.
THEOREM ReserveKept == DrainSpec => TailReserved
<1>1. ASSUME ClockInv, DrainNext, ran' # ran, Head(steps) = "postgres",
             budget - clock >= FastFloor + ImmediateWindow + TailReserve
      PROVE  budget - clock' >= TailReserve
  <2>1. StopPostgres
    BY <1>1, Zenon
    DEF DrainNext, BoundedStep, InstantStep, ResponderStep, PreStopStep, ClusterStep,
        EmbeddedStep, DrainBreak, Return, Running
  <2>2. FastStopEnd \in Nat /\ FastStopEnd + ImmediateWindow + TailReserve <= budget
    BY <1>1, <2>1, FastStopWindow, Zenon DEF ClockInv, StopPostgres, Running
  <2>3. \/ clock' = clock
        \/ \E t \in clock .. FastStopEnd : clock' = t
        \/ \E t \in clock .. FastStopEnd :
             \E u \in t .. Min2(budget, t + ImmediateWindow) : clock' = u
    BY <2>1 DEF StopPostgres, StepDone
  <2> QED
    BY <1>1, <2>2, <2>3
    DEF ClockInv, Min2, FastFloor, ImmediateWindow, TailReserve
<1>2. ClockInv /\ [DrainNext]_drainVars =>
        [ran' # ran /\ Head(steps) = "postgres"
           /\ budget - clock >= FastFloor + ImmediateWindow + TailReserve
         => budget - clock' >= TailReserve]_drainVars
  BY <1>1
<1> QED
  BY <1>2, ClockInvariance, PTL DEF DrainSpec, TailReserved

-----------------------------------------------------------------------------
(* The order of the steps *)

StepNames ==
  {"control", "fanout", "leader-route-responder", "obs", "manager", "postgres",
   "event-subscription", "embedded-pre-stop", "cluster", "embedded-nats"}

\* What buildShutdownSteps makes of a process that is complete and owns Postgres.
ShutdownOrder ==
  <<"control", "fanout", "leader-route-responder", "obs", "manager", "postgres",
    "event-subscription", "embedded-pre-stop", "cluster", "embedded-nats">>

\* s is the beginning of ShutdownOrder, k steps long.
Begins(s, k) ==
  s \in Seq(StepNames) /\ Len(s) = k /\ \A i \in 1 .. k : s[i] = ShutdownOrder[i]

\* Appending the next step of ShutdownOrder to its beginning.
LEMMA BeginsLonger ==
  ASSUME NEW s, NEW k \in Nat, NEW m \in Nat, m = k + 1, NEW name \in StepNames,
         Begins(s, k), name = ShutdownOrder[m]
  PROVE  Begins(s \o <<name>>, m)
<1>1. s \in Seq(StepNames) /\ Len(s) = k
  BY DEF Begins
<1>2. s \o <<name>> = Append(s, name)
  BY <1>1
<1>3. /\ Append(s, name) \in Seq(StepNames)
      /\ Len(Append(s, name)) = m
      /\ \A i \in 1 .. k : Append(s, name)[i] = s[i]
      /\ Append(s, name)[m] = name
  BY <1>1
<1>4. ASSUME NEW i \in 1 .. m PROVE Append(s, name)[i] = ShutdownOrder[i]
  <2>1. CASE i = m
    BY <1>3, <2>1
  <2>2. CASE i \in 1 .. k
    BY <1>3, <2>2 DEF Begins
  <2>3. i = m \/ i \in 1 .. k
    OBVIOUS
  <2> QED
    BY <2>1, <2>2, <2>3, Zenon
<1> QED
  BY <1>2, <1>3, <1>4 DEF Begins

\* ShutdownOrder, step by step.
LEMMA OrderElements ==
  /\ ShutdownOrder[1] = "control" /\ ShutdownOrder[2] = "fanout"
  /\ ShutdownOrder[3] = "leader-route-responder" /\ ShutdownOrder[4] = "obs"
  /\ ShutdownOrder[5] = "manager" /\ ShutdownOrder[6] = "postgres"
  /\ ShutdownOrder[7] = "event-subscription"
  /\ ShutdownOrder[8] = "embedded-pre-stop"
  /\ ShutdownOrder[9] = "cluster" /\ ShutdownOrder[10] = "embedded-nats"
  BY DEF ShutdownOrder

\* Everything is built when Start has returned.
LEMMA AllBuilt ==
  \A part \in {"obs", "embedded", "cluster", "events", "postgres", "manager",
               "fanout", "control", "responder"} : part \in Built(Len(Parts))
<1>1. Len(Parts) = 9
  BY DEF Parts
<1>2. \A i \in 1 .. 9 : Parts[i] \in Built(Len(Parts))
  BY <1>1 DEF Built
<1>3. /\ Parts[1] = "obs" /\ Parts[2] = "embedded" /\ Parts[3] = "cluster"
      /\ Parts[4] = "events" /\ Parts[5] = "postgres" /\ Parts[6] = "manager"
      /\ Parts[7] = "fanout" /\ Parts[8] = "control" /\ Parts[9] = "responder"
  BY DEF Parts
<1> QED
  BY <1>2, <1>3

\* The drain of a complete process that owns Postgres has all ten steps, in order.
LEMMA FullPlan == Begins(BuildShutdownSteps(Built(Len(Parts)), TRUE), 10)
<1> DEFINE p1 == <<"control">>
           p2 == p1 \o <<"fanout">>
           p3 == p2 \o <<"leader-route-responder">>
           p4 == p3 \o <<"obs">>
           p5 == p4 \o <<"manager">>
           p6 == p5 \o <<"postgres">>
           p7 == p6 \o <<"event-subscription">>
           p8 == p7 \o <<"embedded-pre-stop">>
           p9 == p8 \o <<"cluster">>
           p10 == p9 \o <<"embedded-nats">>
<1>1. BuildShutdownSteps(Built(Len(Parts)), TRUE) = p10
  BY AllBuilt DEF BuildShutdownSteps
<1>2. Begins(p1, 1)
  <2>1. p1 \in Seq(StepNames) /\ Len(p1) = 1 /\ p1[1] = "control"
    BY DEF StepNames
  <2>2. \A i \in 1 .. 1 : i = 1
    OBVIOUS
  <2> QED
    BY <2>1, <2>2, OrderElements DEF Begins
<1> HIDE DEF p1, p2, p3, p4, p5, p6, p7, p8, p9, p10
<1>3. Begins(p2, 2)
  BY <1>2, OrderElements, BeginsLonger DEF StepNames, p2
<1>4. Begins(p3, 3)
  BY <1>3, OrderElements, BeginsLonger DEF StepNames, p3
<1>5. Begins(p4, 4)
  BY <1>4, OrderElements, BeginsLonger DEF StepNames, p4
<1>6. Begins(p5, 5)
  BY <1>5, OrderElements, BeginsLonger DEF StepNames, p5
<1>7. Begins(p6, 6)
  BY <1>6, OrderElements, BeginsLonger DEF StepNames, p6
<1>8. Begins(p7, 7)
  BY <1>7, OrderElements, BeginsLonger DEF StepNames, p7
<1>9. Begins(p8, 8)
  BY <1>8, OrderElements, BeginsLonger DEF StepNames, p8
<1>10. Begins(p9, 9)
  BY <1>9, OrderElements, BeginsLonger DEF StepNames, p9
<1>11. Begins(p10, 10)
  BY <1>10, OrderElements, BeginsLonger DEF StepNames, p10
<1> QED
  BY <1>1, <1>11, Zenon

\* No step of s stops Postgres.
LeavesPostgres(s) == s \in Seq(StepNames) /\ \A i \in 1 .. Len(s) : s[i] # "postgres"

\* Two plans without the "postgres" step, one after the other, are without it.
LEMMA LeavesPostgresConcat ==
  ASSUME NEW s, NEW t, LeavesPostgres(s), LeavesPostgres(t)
  PROVE  LeavesPostgres(s \o t)
  BY DEF LeavesPostgres

\* A drain that does not own Postgres has no step that stops it, whatever was built.
LEMMA PartialPlan ==
  ASSUME NEW res PROVE LeavesPostgres(BuildShutdownSteps(res, FALSE))
<1> DEFINE step(part, name) == IF part \in res THEN <<name>> ELSE <<>>
           p1 == step("control", "control")
           p2 == p1 \o step("fanout", "fanout")
           p3 == p2 \o step("responder", "leader-route-responder")
           p4 == p3 \o step("obs", "obs")
           p5 == p4 \o step("manager", "manager")
           p6 == p5 \o <<>>
           p7 == p6 \o step("events", "event-subscription")
           p8 == p7 \o step("embedded", "embedded-pre-stop")
           p9 == p8 \o step("cluster", "cluster")
           p10 == p9 \o step("embedded", "embedded-nats")
<1>1. BuildShutdownSteps(res, FALSE) = p10
  BY DEF BuildShutdownSteps
<1>2. \A part : \A name \in StepNames : name # "postgres" => LeavesPostgres(step(part, name))
  <2> SUFFICES ASSUME NEW part, NEW name \in StepNames, name # "postgres"
               PROVE  LeavesPostgres(<<name>>) /\ LeavesPostgres(<<>>)
    OBVIOUS
  <2>1. <<name>> \in Seq(StepNames) /\ Len(<<name>>) = 1 /\ <<name>>[1] = name
    OBVIOUS
  <2>2. \A i \in 1 .. 1 : i = 1
    OBVIOUS
  <2>3. LeavesPostgres(<<name>>)
    BY <2>1, <2>2 DEF LeavesPostgres
  <2> QED
    BY <2>3 DEF LeavesPostgres
<1>3. LeavesPostgres(<<>>)
  BY DEF LeavesPostgres
<1> HIDE DEF step, p1, p2, p3, p4, p5, p6, p7, p8, p9, p10
<1>4. LeavesPostgres(p1) /\ LeavesPostgres(p2)
  BY <1>2, LeavesPostgresConcat DEF StepNames, p1, p2
<1>5. LeavesPostgres(p3) /\ LeavesPostgres(p4)
  BY <1>2, <1>4, LeavesPostgresConcat DEF StepNames, p3, p4
<1>6. LeavesPostgres(p5) /\ LeavesPostgres(p6)
  BY <1>2, <1>3, <1>5, LeavesPostgresConcat DEF StepNames, p5, p6
<1>7. LeavesPostgres(p7) /\ LeavesPostgres(p8)
  BY <1>2, <1>6, LeavesPostgresConcat DEF StepNames, p7, p8
<1>8. LeavesPostgres(p9) /\ LeavesPostgres(p10)
  BY <1>2, <1>7, LeavesPostgresConcat DEF StepNames, p9, p10
<1> QED
  BY <1>1, <1>8, Zenon

-----------------------------------------------------------------------------
(* The steps still to run are the end of the plan, and those before them ran *)

\* The number of steps that are left says which they are, and which have run.
OrderInv ==
  /\ steps \in Seq(StepNames)
  /\ StopsPostgres =>
       /\ Len(steps) <= 10
       /\ \A i \in 1 .. Len(steps) : steps[i] = ShutdownOrder[10 - Len(steps) + i]
  /\ StopsPostgres /\ steps # <<>> =>
       \A i \in 1 .. 10 - Len(steps) : ShutdownOrder[i] \in ran
  /\ ~StopsPostgres => LeavesPostgres(steps)

\* The loop of Drain takes the first step, gives up on all of them, or is over.
LEMMA LoopStep ==
  ASSUME DrainNext
  PROVE  /\ cause' = cause
         /\ \/ steps # <<>> /\ steps' = Tail(steps) /\ ran' = ran \cup {Head(steps)}
            \/ steps' = <<>> /\ ran' = ran
            \/ steps' = steps /\ ran' = ran
  BY Zenon DEF DrainNext, BoundedStep, InstantStep, ResponderStep, StopPostgres, PreStopStep,
         ClusterStep, EmbeddedStep, DrainBreak, Return, Running, StepDone

\* Which step is first says how many are left.
LEMMA FirstOfPlan ==
  ASSUME OrderInv, StopsPostgres, steps # <<>>
  PROVE  /\ Len(steps) \in 1 .. 10
         /\ Head(steps) = ShutdownOrder[11 - Len(steps)]
         /\ Head(steps) = "postgres" <=> Len(steps) = 5
         /\ Head(steps) = "event-subscription" <=> Len(steps) = 4
         /\ Head(steps) = "embedded-pre-stop" <=> Len(steps) = 3
         /\ Head(steps) = "cluster" <=> Len(steps) = 2
         /\ Head(steps) = "embedded-nats" <=> Len(steps) = 1
<1>1. Len(steps) \in 1 .. 10 /\ Head(steps) = steps[1]
  <2>1. steps \in Seq(StepNames) /\ Len(steps) <= 10
    BY DEF OrderInv
  <2>2. Len(steps) \in Nat \ {0}
    BY <2>1
  <2>3. \A k \in Nat \ {0} : k <= 10 => k \in 1 .. 10
    OBVIOUS
  <2>4. Head(steps) = steps[1]
    BY <2>1, <2>2
  <2> QED
    BY <2>1, <2>2, <2>3, <2>4, Zenon
<1>2. Head(steps) = ShutdownOrder[11 - Len(steps)]
  BY <1>1 DEF OrderInv
<1>3. \A k \in 1 .. 10 :
        /\ ShutdownOrder[k] = "postgres" <=> k = 6
        /\ ShutdownOrder[k] = "event-subscription" <=> k = 7
        /\ ShutdownOrder[k] = "embedded-pre-stop" <=> k = 8
        /\ ShutdownOrder[k] = "cluster" <=> k = 9
        /\ ShutdownOrder[k] = "embedded-nats" <=> k = 10
  BY OrderElements
<1>5. PICK k \in 1 .. 10 : k = Len(steps)
  BY <1>1
<1>6. PICK m \in 1 .. 10 : m = 11 - k
  OBVIOUS
<1>7. Head(steps) = ShutdownOrder[m]
  BY <1>2, <1>5, <1>6
<1>8. /\ Head(steps) = "postgres" <=> k = 5
      /\ Head(steps) = "event-subscription" <=> k = 4
      /\ Head(steps) = "embedded-pre-stop" <=> k = 3
      /\ Head(steps) = "cluster" <=> k = 2
      /\ Head(steps) = "embedded-nats" <=> k = 1
  BY <1>3, <1>6, <1>7
<1> QED
  BY <1>1, <1>2, <1>5, <1>8, Zenon

\* Only a drain that owns Postgres has the step that stops it.
LEMMA PostgresOwned ==
  ASSUME OrderInv, steps # <<>>, Head(steps) = "postgres"
  PROVE  StopsPostgres
<1> SUFFICES ASSUME ~StopsPostgres PROVE FALSE
  OBVIOUS
<1>1. Len(steps) \in Nat /\ 1 \in 1 .. Len(steps) /\ Head(steps) = steps[1]
  BY DEF OrderInv
<1> QED
  BY <1>1 DEF OrderInv, LeavesPostgres

\* OrderInv holds in every reachable state.
LEMMA OrderInvariance == DrainSpec => []OrderInv
<1>1. DrainInit => OrderInv
  <2> SUFFICES ASSUME DrainInit PROVE OrderInv
    OBVIOUS
  <2>1. CASE StopsPostgres
    <3>1. Begins(steps, 10)
      BY <2>1, FullPlan, Zenon DEF DrainInit, Plans, StopsPostgres
    <3> QED
      BY <2>1, <3>1 DEF OrderInv, Begins
  <2>2. CASE ~StopsPostgres
    <3>1. \E res : steps = BuildShutdownSteps(res, FALSE)
      <4>1. CASE cause = "startup"
        BY <4>1, Zenon DEF DrainInit, Plans
      <4>2. CASE cause # "startup"
        <5>1. StopsPostgres = FALSE
          BY <2>2 DEF StopsPostgres
        <5> QED
          BY <4>2, <5>1, Zenon DEF DrainInit, Plans
      <4> QED
        BY <4>1, <4>2, Zenon
    <3>2. LeavesPostgres(steps)
      BY <3>1, PartialPlan, Zenon
    <3> QED
      BY <2>2, <3>2 DEF OrderInv, LeavesPostgres
  <2> QED
    BY <2>1, <2>2
<1>2. OrderInv /\ [DrainNext]_drainVars => OrderInv'
  <2> SUFFICES ASSUME OrderInv, DrainNext PROVE OrderInv'
    BY DEF OrderInv, drainVars, StopsPostgres, LeavesPostgres
  <2>1. StopsPostgres' <=> StopsPostgres
    BY LoopStep DEF StopsPostgres
  <2>2. CASE steps # <<>> /\ steps' = Tail(steps) /\ ran' = ran \cup {Head(steps)}
    <3>1. /\ steps' \in Seq(StepNames) /\ Len(steps') = Len(steps) - 1
          /\ \A i \in 1 .. Len(steps') : steps'[i] = steps[i + 1]
          /\ Len(steps) \in Nat
      BY <2>2 DEF OrderInv
    <3>2. CASE StopsPostgres
      <4>1. Len(steps) \in 1 .. 10 /\ Head(steps) = ShutdownOrder[11 - Len(steps)]
        BY <2>2, <3>2, FirstOfPlan
      <4>2. \A i \in 1 .. Len(steps') : steps'[i] = ShutdownOrder[10 - Len(steps') + i]
        <5> TAKE i \in 1 .. Len(steps')
        <5>1. i + 1 \in 1 .. Len(steps) /\ 10 - Len(steps') + i = 10 - Len(steps) + (i + 1)
          BY <3>1
        <5> QED
          BY <3>1, <3>2, <5>1 DEF OrderInv
      <4>3. ASSUME NEW i \in 1 .. 10 - Len(steps') PROVE ShutdownOrder[i] \in ran'
        <5>1. i \in 1 .. 10 - Len(steps) \/ i = 11 - Len(steps)
          BY <3>1, <4>1
        <5>2. \A j \in 1 .. 10 - Len(steps) : ShutdownOrder[j] \in ran
          BY <2>2, <3>2 DEF OrderInv
        <5> QED
          BY <2>2, <4>1, <5>1, <5>2
      <4> QED
        BY <2>1, <3>1, <3>2, <4>1, <4>2, <4>3 DEF OrderInv
    <3>3. CASE ~StopsPostgres
      <4>1. \A i \in 1 .. Len(steps') : steps'[i] # "postgres"
        BY <3>1, <3>3 DEF OrderInv, LeavesPostgres
      <4> QED
        BY <2>1, <3>1, <3>3, <4>1 DEF OrderInv, LeavesPostgres
    <3> QED
      BY <3>2, <3>3
  <2>3. CASE steps' = <<>> /\ ran' = ran
    BY <2>1, <2>3 DEF OrderInv, LeavesPostgres
  <2>4. CASE steps' = steps /\ ran' = ran
    BY <2>1, <2>4 DEF OrderInv, LeavesPostgres
  <2> QED
    BY <2>2, <2>3, <2>4, LoopStep
<1> QED
  BY <1>1, <1>2, PTL DEF DrainSpec

\* Postgres is stopped only by a drain that owns it, and the lease given up only
\* after the step that stops it: buildShutdownSteps keeps that order in every plan.
THEOREM ReleaseOrdered == DrainSpec => ReleaseAfterPostgres
<1>1. ASSUME OrderInv, DrainNext, leaseKey' # leaseKey, StopsPostgres PROVE "postgres" \in ran
  <2>1. steps # <<>> /\ Head(steps) = "cluster"
    BY <1>1, Zenon
    DEF DrainNext, BoundedStep, InstantStep, ResponderStep, StopPostgres, PreStopStep,
        ClusterStep, EmbeddedStep, DrainBreak, Return, Running
  <2>2. Len(steps) = 2
    BY <1>1, <2>1, FirstOfPlan
  <2>3. ShutdownOrder[6] \in ran
    BY <1>1, <2>1, <2>2 DEF OrderInv
  <2> QED
    BY <2>3 DEF ShutdownOrder
<1>2. ASSUME OrderInv, DrainNext, postgres' # postgres PROVE StopsPostgres /\ leaseKey' = leaseKey
  <2>1. steps # <<>> /\ Head(steps) = "postgres" /\ leaseKey' = leaseKey
    BY <1>2, Zenon
    DEF DrainNext, BoundedStep, InstantStep, ResponderStep, StopPostgres, PreStopStep,
        ClusterStep, EmbeddedStep, DrainBreak, Return, Running
  <2> QED
    BY <1>2, <2>1, PostgresOwned
<1>3. OrderInv /\ [DrainNext]_drainVars =>
        [/\ leaseKey' # leaseKey /\ StopsPostgres => "postgres" \in ran
         /\ postgres' # postgres => StopsPostgres /\ leaseKey' = leaseKey]_drainVars
  BY <1>1, <1>2
<1> QED
  BY <1>3, OrderInvariance, PTL DEF DrainSpec, ReleaseAfterPostgres

-----------------------------------------------------------------------------
(* What a clean drain has stopped, by the number of steps that are left *)

\* A drain that is clean so far has stopped what its steps so far are there to stop.
StoppedInv ==
  /\ timedOut \in BOOLEAN /\ stopErrors \in BOOLEAN
  /\ cause \in {"signal", "singleton", "managerErr", "startup"}
  /\ cause = "signal" /\ ~timedOut /\ ~stopErrors =>
       /\ Len(steps) < 5 => postgres = "down"
       /\ Len(steps) < 2 => leaseKey # "held"
       /\ Len(steps) < 1 => nats # "up"
  /\ exit = "ExitOK" => cause = "signal" /\ ~timedOut /\ ~stopErrors /\ steps = <<>>

\* The steps of a drain that is clean so far do what they are there for.
LEMMA CleanStep ==
  ASSUME StoppedInv, DrainNext, ~timedOut', ~stopErrors'
  PROVE  /\ ~timedOut /\ ~stopErrors
         /\ \/ /\ exit' = exit /\ exit = "" /\ steps # <<>> /\ steps' = Tail(steps)
               /\ postgres' = postgres \/ postgres' = "down"
               /\ leaseKey' = leaseKey \/ leaseKey' # "held"
               /\ nats' = nats \/ nats' # "up"
               /\ Head(steps) = "postgres" => postgres' = "down"
               /\ Head(steps) = "cluster" => leaseKey' # "held"
               /\ Head(steps) = "embedded-nats" => nats' # "up"
            \/ /\ steps = <<>> /\ UNCHANGED <<steps, postgres, leaseKey, nats>>
               /\ exit' = "ExitOK" => cause = "signal"
<1> USE DEF Running, StepDone, StoppedInv
<1>1. CASE BoundedStep \/ InstantStep \/ ResponderStep \/ PreStopStep
  BY <1>1, Zenon DEF BoundedStep, InstantStep, ResponderStep, PreStopStep
<1>2. CASE StopPostgres
  BY <1>2, Zenon DEF StopPostgres
<1>3. CASE ClusterStep
  BY <1>3, Zenon DEF ClusterStep
<1>4. CASE EmbeddedStep
  BY <1>4, Zenon DEF EmbeddedStep
<1>5. CASE DrainBreak
  BY <1>5, Zenon DEF DrainBreak
<1>6. CASE Return
  <2>1. cause # "signal" => exit' # "ExitOK"
    BY <1>6, Zenon DEF Return
  <2> QED
    BY <1>6, <2>1, Zenon DEF Return
<1> QED
  BY <1>1, <1>2, <1>3, <1>4, <1>5, <1>6, Zenon DEF DrainNext

\* The exit code says what the flags of the drain say, and cannot change any more.
LEMMA ExitStep ==
  ASSUME StoppedInv, DrainNext, exit' = "ExitOK"
  PROVE  cause' = "signal" /\ ~timedOut' /\ ~stopErrors' /\ steps' = <<>>
<1>1. Return
  BY Zenon DEF DrainNext, BoundedStep, InstantStep, ResponderStep, StopPostgres, PreStopStep,
         ClusterStep, EmbeddedStep, DrainBreak, Running, StepDone
<1>2. cause = "signal"
  BY <1>1, Zenon DEF Return, StoppedInv
<1>3. exit' = DrainExitCode
  BY <1>1, <1>2, Zenon DEF Return
<1> QED
  BY <1>1, <1>2, <1>3, Zenon DEF Return, DrainExitCode, StoppedInv

\* StoppedInv holds in every reachable state.
LEMMA StoppedInvariance == DrainSpec => []StoppedInv
<1>1. DrainInit => StoppedInv
  <2> SUFFICES ASSUME DrainInit PROVE StoppedInv
    OBVIOUS
  <2>1. ASSUME cause = "signal" PROVE Len(steps) = 10
    BY <2>1, FullPlan, Zenon DEF DrainInit, Plans, StopsPostgres, Begins
  <2>2. cause = "signal" => ~(Len(steps) < 5) /\ ~(Len(steps) < 2) /\ ~(Len(steps) < 1)
    BY <2>1
  <2> QED
    BY <2>2, Zenon DEF DrainInit, StoppedInv
<1>2. StoppedInv /\ OrderInv /\ [DrainNext]_drainVars => StoppedInv'
  <2> SUFFICES ASSUME StoppedInv, OrderInv, DrainNext PROVE StoppedInv'
    BY DEF StoppedInv, drainVars
  <2>1. timedOut' \in BOOLEAN /\ stopErrors' \in BOOLEAN
    BY Zenon DEF StoppedInv, DrainNext, BoundedStep, InstantStep, ResponderStep, StopPostgres,
           PreStopStep, ClusterStep, EmbeddedStep, DrainBreak, Return, StepDone
  <2>2. ASSUME cause' = "signal", ~timedOut', ~stopErrors'
        PROVE  /\ Len(steps') < 5 => postgres' = "down"
               /\ Len(steps') < 2 => leaseKey' # "held"
               /\ Len(steps') < 1 => nats' # "up"
    <3>1. cause = "signal" /\ StopsPostgres
      BY <2>2, LoopStep DEF StopsPostgres
    <3>2. CASE steps # <<>> /\ steps' = Tail(steps)
      <4>1. PICK k \in 1 .. 10 : k = Len(steps)
        BY <3>1, <3>2, FirstOfPlan
      <4>2. Len(steps') = k - 1
        BY <3>2, <4>1 DEF OrderInv
      <4>3. /\ Head(steps) = "postgres" <=> k = 5
            /\ Head(steps) = "cluster" <=> k = 2
            /\ Head(steps) = "embedded-nats" <=> k = 1
        BY <3>1, <3>2, <4>1, FirstOfPlan
      <4>4. /\ ~timedOut /\ ~stopErrors
            /\ postgres' = postgres \/ postgres' = "down"
            /\ leaseKey' = leaseKey \/ leaseKey' # "held"
            /\ nats' = nats \/ nats' # "up"
            /\ k = 5 => postgres' = "down"
            /\ k = 2 => leaseKey' # "held"
            /\ k = 1 => nats' # "up"
        BY <2>2, <3>2, <4>3, CleanStep, Zenon
      <4>5. (k < 5 => postgres = "down") /\ (k < 2 => leaseKey # "held")
        BY <3>1, <4>1, <4>4 DEF StoppedInv
      <4> QED
        BY <4>2, <4>4, <4>5
    <3>3. CASE ~(steps # <<>> /\ steps' = Tail(steps))
      BY <2>2, <3>1, <3>3, CleanStep, Zenon DEF StoppedInv
    <3> QED
      BY <3>2, <3>3
  <2> QED
    BY <2>1, <2>2, ExitStep, LoopStep DEF StoppedInv
<1> QED
  BY <1>1, <1>2, OrderInvariance, PTL DEF DrainSpec

\* Exit code 0 promises the supervisor that Postgres is down, the lease is given
\* up and the embedded server is stopped: no drain that skipped, failed or
\* degraded one of those steps exits with it.
THEOREM CleanExitStopped == DrainSpec => []ExitOKMeansStopped
<1>1. StoppedInv => ExitOKMeansStopped
  <2> SUFFICES ASSUME StoppedInv, exit = "ExitOK"
               PROVE  postgres = "down" /\ leaseKey # "held" /\ nats # "up"
    BY DEF ExitOKMeansStopped
  <2>1. cause = "signal" /\ ~timedOut /\ ~stopErrors /\ Len(steps) = 0
    BY DEF StoppedInv
  <2> QED
    BY <2>1 DEF StoppedInv
<1> QED
  BY <1>1, StoppedInvariance, PTL

-----------------------------------------------------------------------------
(* What the "postgres" step leaves of the budget is enough for the release *)

\* Until the release, the clock stands where the "postgres" step left it, or the
\* publish of "embedded-pre-stop" has used less than what was left.
TailInv ==
  /\ tail \in Int
  /\ tail > PublishTimeout =>
       \/ "cluster" \in ran
       \/ /\ exit = "" /\ StopsPostgres
          /\ \/ Len(steps) \in {3, 4} /\ tail = budget - clock
             \/ Len(steps) = 2 /\ clock < budget

\* One step less.
LEMMA OneLess ==
  ASSUME NEW S, NEW s \in Seq(S)
  PROVE  /\ Len(s) = 5 => s # <<>> /\ Len(Tail(s)) = 4
         /\ Len(s) = 4 => s # <<>> /\ Len(Tail(s)) = 3
         /\ Len(s) = 3 => s # <<>> /\ Len(Tail(s)) = 2
         /\ Len(s) = 2 => s # <<>> /\ Len(Tail(s)) = 1
  OBVIOUS

\* TailInv holds in every reachable state.
LEMMA TailInvariance == DrainSpec => []TailInv
<1>1. DrainInit => TailInv
  <2> SUFFICES ASSUME DrainInit PROVE TailInv
    OBVIOUS
  <2>1. tail = NotYet
    BY Zenon DEF DrainInit
  <2>2. tail \in Int /\ ~(tail > PublishTimeout)
    BY <2>1, TimeoutsAssumption DEF NotYet
  <2> QED
    BY <2>2, Zenon DEF TailInv
<1>2. TailInv /\ OrderInv /\ ClockInv /\ [DrainNext]_drainVars => TailInv'
  <2> SUFFICES ASSUME TailInv, OrderInv, ClockInv, DrainNext PROVE TailInv'
    BY Zenon DEF TailInv, drainVars, StopsPostgres
  <2>b. budget \in Nat /\ clock \in Nat /\ clock' \in Nat /\ budget' = budget
    BY StepEnds DEF ClockInv
  <2>s. StopsPostgres' <=> StopsPostgres
    BY LoopStep DEF StopsPostgres
  <2>t. tail \in Int
    BY Zenon DEF TailInv
  <2>c. clock < budget => ~(clock >= budget)
    BY <2>b
  <2>d. tail > PublishTimeout /\ tail = budget - clock => clock < budget
    BY <2>b, <2>t, TimeoutsAssumption
  <2>e. /\ tail > PublishTimeout /\ tail = budget - clock
        /\ \E t \in clock .. clock + PublishTimeout : clock' = t
        => clock' < budget'
    BY <2>b, <2>t, TimeoutsAssumption
  <2>1. CASE StopPostgres
    <3>1. /\ steps # <<>> /\ Head(steps) = "postgres" /\ steps' = Tail(steps)
          /\ exit' = "" /\ tail' = budget - clock'
      BY <2>1, Zenon DEF StopPostgres, Running, StepDone
    <3>2. StopsPostgres /\ Len(steps) = 5
      BY <3>1, PostgresOwned, FirstOfPlan, Zenon
    <3>3. Len(steps') = 4
      BY <3>1, <3>2, OneLess, Zenon DEF OrderInv
    <3>4. tail' = budget - clock'
      BY <3>1, Zenon
    <3>5. tail' \in Int /\ tail' = budget' - clock'
      BY <2>b, <3>4
    <3> QED
      BY <2>s, <3>1, <3>2, <3>3, <3>5, Zenon DEF TailInv
  <2>2. CASE ~StopPostgres
    <3>1. tail' = tail
      BY <2>2, Zenon
      DEF DrainNext, BoundedStep, InstantStep, ResponderStep, PreStopStep, ClusterStep,
          EmbeddedStep, DrainBreak, Return, Running, StepDone
    <3>2. "cluster" \in ran => "cluster" \in ran'
      BY LoopStep
    <3>3. ASSUME exit = "", StopsPostgres, steps # <<>>, clock < budget
          PROVE  steps' = Tail(steps) /\ exit' = "" /\ ran' = ran \cup {Head(steps)}
      <4>1. ~(clock >= budget)
        BY <2>c, <3>3, Zenon
      <4> QED
        BY <3>3, <4>1, Zenon
        DEF DrainNext, BoundedStep, InstantStep, ResponderStep, StopPostgres, PreStopStep,
            ClusterStep, EmbeddedStep, DrainBreak, Return, Running, StepDone
    <3>4. ASSUME tail > PublishTimeout, exit = "", StopsPostgres,
                 Len(steps) = 4, tail = budget - clock
          PROVE  exit' = "" /\ Len(steps') = 3 /\ tail' = budget' - clock'
      <4>1. steps # <<>> /\ Len(Tail(steps)) = 3
        BY <3>4, OneLess, Zenon DEF OrderInv
      <4>2. clock < budget
        BY <2>d, <3>4, Zenon
      <4>3. steps' = Tail(steps) /\ exit' = "" /\ Len(steps') = 3
        BY <3>3, <3>4, <4>1, <4>2, Zenon
      <4>4. Head(steps) = "event-subscription"
        BY <3>4, <4>1, FirstOfPlan, Zenon
      <4>5. ~(clock >= budget)
        BY <2>c, <4>2
      <4>6. InstantStep
        BY <4>1, <4>3, <4>4, <4>5, Zenon
        DEF DrainNext, BoundedStep, ResponderStep, StopPostgres, PreStopStep,
            ClusterStep, EmbeddedStep, DrainBreak, Return, Running
      <4>7. clock' = clock
        BY <4>6 DEF InstantStep, StepDone
      <4> QED
        BY <2>b, <2>t, <3>1, <3>4, <4>3, <4>7, Zenon
    <3>5. ASSUME tail > PublishTimeout, exit = "", StopsPostgres,
                 Len(steps) = 3, tail = budget - clock
          PROVE  exit' = "" /\ Len(steps') = 2 /\ clock' < budget'
      <4>1. steps # <<>> /\ Len(Tail(steps)) = 2
        BY <3>5, OneLess, Zenon DEF OrderInv
      <4>2. clock < budget
        BY <2>d, <3>5, Zenon
      <4>3. steps' = Tail(steps) /\ exit' = "" /\ Len(steps') = 2
        BY <3>3, <3>5, <4>1, <4>2, Zenon
      <4>4. Head(steps) = "embedded-pre-stop"
        BY <3>5, <4>1, FirstOfPlan, Zenon
      <4>5. ~(clock >= budget)
        BY <2>c, <4>2
      <4>6. PreStopStep
        BY <4>1, <4>3, <4>4, <4>5, Zenon
        DEF DrainNext, BoundedStep, InstantStep, ResponderStep, StopPostgres,
            ClusterStep, EmbeddedStep, DrainBreak, Return, Running
      <4>7. \E t \in clock .. clock + PublishTimeout : clock' = t
        BY <4>6 DEF PreStopStep, StepDone
      <4> QED
        BY <2>e, <3>5, <4>3, <4>7, Zenon
    <3>6. ASSUME tail > PublishTimeout, exit = "", StopsPostgres,
                 Len(steps) = 2, clock < budget
          PROVE  "cluster" \in ran'
      <4>1. steps # <<>>
        BY <3>6, OneLess, Zenon DEF OrderInv
      <4> QED
        BY <3>3, <3>6, <4>1, FirstOfPlan, Zenon
    <3> QED
      BY <2>s, <3>1, <3>2, <3>4, <3>5, <3>6, Zenon DEF TailInv
  <2> QED
    BY <2>1, <2>2
<1> QED
  BY <1>1, <1>2, OrderInvariance, ClockInvariance, PTL DEF DrainSpec

\* The lease is released in every drain whose "postgres" step leaves more than
\* the publish of "embedded-pre-stop" may take.
THEOREM TailSuffices == DrainSpec => []ReleaseGivenTail
<1>1. TailInv => ReleaseGivenTail
  BY Zenon DEF TailInv, ReleaseGivenTail
<1> QED
  BY <1>1, TailInvariance, PTL

=============================================================================
