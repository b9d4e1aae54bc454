------------------------- MODULE BootBucket_proofs --------------------------
(***************************************************************************)
(* Start-up and reload (Boot), continued: the coordination bucket, which   *)
(* the peers share.                                                        *)
(*   KVInv      what a peer at a KV gate has read is still so, whatever    *)
(*              writes of other peers land meanwhile                       *)
(***************************************************************************)
EXTENDS Boot_proofs

-----------------------------------------------------------------------------
(* The coordination bucket *)

Op == [kind : {"create", "upgrade", "tune"}, replicas : Nat \ {0}, direct : BOOLEAN]
Late == [home : Node \cup {Cluster}, op : Op]

\* The replicas that the booting peers of a scenario agree on.
AgreedBy(s) ==
  CHOOSE t \in Nat \ {0} : \A c \in BootConfigs(s) : c.size > 1 => DecideReplicas(c) = t

Sound(b) == b \in Bucket /\ (b.exists <=> b.replicas > 0)

KVTypes ==
  /\ bucket \in [Node \cup {Cluster} -> Bucket]
  /\ \A b \in Node \cup {Cluster} : Sound(bucket[b])
  /\ seen \in [Node -> Bucket] /\ late \in [Node -> Late \cup {None}]
  /\ passed \in SUBSET Node

\* What a peer at a gate of PreCreateClusterKV knows of its bucket b.
KVKnown(n, b) ==
  /\ pc[n] = "status" => b.exists
  /\ pc[n] = "upgrade" => b.exists /\ b.replicas <= Target(n)
  /\ pc[n] \in {"stream", "tune"} => b.exists /\ b.replicas = Target(n)
  /\ pc[n] = "tune" => seen[n].replicas = Target(n)

\* What still holds of the shared bucket b when a write w lands late.
LateKnown(w, b, agreed) ==
  /\ w.op.direct <=> w.op.kind # "tune"
  /\ w.home = Cluster =>
       /\ w.op.replicas = agreed
       /\ w.op.kind # "create" => b.exists /\ b.replicas <= agreed
       /\ w.op.kind = "tune" => b.replicas = agreed

\* A bucket that suits a peer which has passed.
TunedFor(n, b) == b.exists /\ ~b.direct /\ b.replicas >= Target(n)

\* A peer has no write under way once it has passed.
PeerKV(n) ==
  /\ KVKnown(n, bucket[Home(n)])
  /\ late[n] # None =>
       /\ pc[n] \in BeforeBucket /\ late[n].home \in {n, Cluster}
       /\ LateKnown(late[n], bucket[Cluster], AgreedBy(scenario))
  /\ n \in passed => pc[n] \in AfterBucket /\ TunedFor(n, bucket[Home(n)])

KVInv == KVTypes /\ \A n \in Node : PeerKV(n)

KVStays == UNCHANGED <<bucket, seen, late, passed>>

\* A gate on one side of PreCreateClusterKV.
AwayFromKV(n, g) ==
  /\ pc' = [pc EXCEPT ![n] = g] /\ KVStays /\ UNCHANGED <<scenario, cfg>>
  /\ \/ pc[n] \in BeforeBucket /\ g \in BeforeBucket
     \/ pc[n] \in AfterBucket /\ g \in AfterBucket

\* A gate of Start: one that touches a bucket, or one that does not.
LEMMA GateKV ==
  ASSUME NEW n \in Node, BootStep(n)
  PROVE  \/ ArchiveIncompatibleStore(n)
         \/ KVLookup(n) \/ KVCreate(n) \/ KVStatus(n) \/ KVUpgrade(n) \/ KVStream(n) \/ KVTune(n)
         \/ \E g \in Phases : AwayFromKV(n, g)
<1> USE DEF AwayFromKV, KVStays, reloadVars, sharedVars, Phases, Gates, KVGates, GoTo,
            BeforeBucket, AfterBucket, AfterSignal
<1>1. CASE StartServer(n)
  BY <1>1 DEF StartServer
<1>2. CASE StoreOpened(n)
  BY <1>2 DEF StoreOpened
<1>3. CASE MeshFormed(n)
  BY <1>3 DEF MeshFormed
<1>4. CASE EnsureHistoryStream(n)
  BY <1>4 DEF EnsureHistoryStream
<1>5. CASE EnsureStandbySignal(n)
  BY <1>5 DEF EnsureStandbySignal
<1>6. CASE ApplyConf(n)
  BY <1>6 DEF ApplyConf, ApplyFile
<1>7. CASE ApplyHBA(n)
  BY <1>7 DEF ApplyHBA, ApplyFile
<1>8. CASE ReloadPostgres(n)
  BY <1>8 DEF ReloadPostgres
<1>9. CASE BuildManager(n)
  BY <1>9 DEF BuildManager, Step
<1>10. CASE OpenListeners(n)
  BY <1>10 DEF OpenListeners, Step
<1>11. CASE FirstAudit(n)
  BY <1>11 DEF FirstAudit, Step
<1> QED
  BY <1>1, <1>2, <1>3, <1>4, <1>5, <1>6, <1>7, <1>8, <1>9, <1>10, <1>11 DEF BootStep

\* DecideReplicas of a configuration that Validate accepts.
LEMMA ReplicasPositive ==
  ASSUME NEW c \in Configuration, c.size > 0
  PROVE  DecideReplicas(c) \in Nat \ {0}
<1>1. c.size \in Nat /\ c.override \in Nat
  BY DEF Configuration
<1> QED
  BY <1>1 DEF DecideReplicas, DeriveReplicas

\* Every clustered peer at a gate has the agreed target.
LEMMA TargetAgreed ==
  ASSUME OneTarget, BootTypes, NEW n \in Node, pc[n] \in Gates
  PROVE  /\ Target(n) \in Nat \ {0}
         /\ cfg[n].size > 1 => Target(n) = AgreedBy(scenario)
<1>1. /\ cfg[n] \in Configuration /\ cfg[n].size > 0 /\ n \in scenario.nodes
      /\ \E c \in {scenario.start[n]} \cup scenario.writes : SameStartup(cfg[n], c)
  BY DEF BootTypes, PeerTypes, Gates, KVGates
<1>2. Target(n) \in Nat \ {0}
  BY <1>1, ReplicasPositive DEF Target
<1>3. ASSUME cfg[n].size > 1 PROVE Target(n) = AgreedBy(scenario)
  <2>1. PICK c \in BootConfigs(scenario) : SameStartup(cfg[n], c)
    BY <1>1 DEF BootConfigs
  <2>2. c.size > 1 /\ DecideReplicas(c) = Target(n)
    BY <2>1, <1>3 DEF SameStartup, Target, DecideReplicas
  <2>3. \A d \in BootConfigs(scenario) : d.size > 1 => DecideReplicas(d) = Target(n)
    BY <2>1, <2>2 DEF OneTarget, BootTypes
  <2>4. \A d \in BootConfigs(scenario) : d.size > 1 => DecideReplicas(d) = AgreedBy(scenario)
    BY <2>3, <1>2 DEF AgreedBy
  <2> QED
    BY <2>1, <2>2, <2>4
<1> QED
  BY <1>2, <1>3

\* A write leaves a bucket as it was, or as the write says.
LEMMA WriteEffect ==
  ASSUME NEW b, Sound(b), NEW op \in Op
  PROVE  /\ Sound(Written(b, op))
         /\ \/ Written(b, op) = b /\ (b.exists <=> op.kind = "create")
            \/ /\ Written(b, op).exists /\ Written(b, op).replicas = op.replicas
               /\ Written(b, op).direct = op.direct
               /\ (b.exists <=> op.kind # "create")
<1>1. b \in Bucket /\ op.replicas \in Nat /\ op.replicas > 0 /\ op.direct \in BOOLEAN
      /\ b.exists \in BOOLEAN
  BY DEF Sound, Op, Bucket
<1>2. CASE b.exists = (op.kind = "create")
  <2>1. Written(b, op) = b
    BY <1>2 DEF Written
  <2>2. b.exists <=> op.kind = "create"
    BY <1>2, Zenon
  <2> QED
    BY <2>1, <2>2
<1>3. CASE b.exists # (op.kind = "create")
  <2>1. Written(b, op) = [exists |-> TRUE, replicas |-> op.replicas, direct |-> op.direct]
    BY <1>3 DEF Written
  <2>2. (b.exists <=> op.kind # "create")
    BY <1>1, <1>3, Zenon
  <2>3. /\ Written(b, op).exists /\ Written(b, op).replicas = op.replicas
        /\ Written(b, op).direct = op.direct
    BY <2>1
  <2>4. Written(b, op) \in Bucket
    BY <2>1, <1>1 DEF Bucket
  <2>5. Written(b, op).exists = TRUE /\ Written(b, op).replicas > 0
    BY <2>1, <1>1
  <2>6. Sound(Written(b, op))
    BY <2>4, <2>5, Zenon DEF Sound
  <2> QED
    BY <2>2, <2>3, <2>6
<1> QED
  BY <1>2, <1>3

\* The shared bucket changes at most to the agreed replicas, from fewer.
Rises(b, c) ==
  \/ c = b
  \/ c.exists /\ c.replicas = AgreedBy(scenario) /\ b.replicas <= AgreedBy(scenario)

\* A peer that took no part keeps what it knows, when the shared bucket rises and
\* does not turn direct under a peer that has passed.
LEMMA OthersKV ==
  ASSUME OneTarget, BootTypes, KVTypes, NEW m \in Node, PeerKV(m), scenario' = scenario,
         pc'[m] = pc[m], late'[m] = late[m], seen'[m] = seen[m],
         pc[m] # "down" => SameStartup(cfg'[m], cfg[m]),
         bucket'[m] = bucket[m], Sound(bucket'[Cluster]),
         Rises(bucket[Cluster], bucket'[Cluster]),
         m \in passed' => /\ m \in passed
                          /\ bucket'[Cluster].direct => bucket[Cluster].direct \/ ~bucket[Cluster].exists
  PROVE  PeerKV(m)'
<1>1. pc[m] # "down" => Home(m)' = Home(m) /\ Target(m)' = Target(m)
  BY DEF SameStartup, Home, Target, DecideReplicas
<1>2. pc[m] # "down" => Home(m) \in {m, Cluster} /\ (Home(m) = Cluster => cfg[m].size > 1)
  BY NodesAssumption DEF Home
<1>3. Sound(bucket[Cluster])
  BY DEF KVTypes
<1>4. ASSUME pc[m] # "down"
      PROVE  \/ bucket'[Home(m)'] = bucket[Home(m)]
             \/ Home(m)' = Cluster /\ Home(m) = Cluster
  <2>1. Home(m)' = Home(m) /\ Home(m) \in {m, Cluster}
    BY <1>1, <1>2, <1>4
  <2>2. CASE Home(m) = m
    <3>1. Home(m)' = m
      BY <2>1, <2>2
    <3> QED
      BY <3>1, <2>2, Zenon
  <2>3. CASE Home(m) = Cluster
    BY <2>1, <2>3
  <2> QED
    BY <2>1, <2>2, <2>3
<1>5. KVKnown(m, bucket[Home(m)])'
  <2>1. CASE pc[m] \in {"status", "upgrade", "stream", "tune"}
    <3>1. pc[m] \in Gates /\ pc[m] # "down"
      BY <2>1 DEF Gates, KVGates
    <3>2. CASE bucket'[Home(m)'] = bucket[Home(m)]
      BY <3>1, <3>2, <1>1 DEF PeerKV, KVKnown
    <3>3. CASE Home(m)' = Cluster /\ Home(m) = Cluster /\ bucket'[Cluster] # bucket[Cluster]
      <4>1. Target(m) = AgreedBy(scenario) /\ Target(m) \in Nat
        BY <3>1, <3>3, <1>2, TargetAgreed
      <4>2. bucket'[Cluster].exists /\ bucket'[Cluster].replicas = Target(m)
        BY <4>1, <3>3 DEF Rises
      <4>3. bucket'[Cluster].replicas <= Target(m)
        BY <4>1, <4>2, SMTT(30)
      <4>4. KVKnown(m, bucket[Home(m)]) /\ Target(m)' = Target(m)
        BY <3>1, <1>1 DEF PeerKV
      <4> QED
        BY <4>2, <4>3, <4>4, <3>3, Zenon DEF KVKnown
    <3> QED
      BY <3>1, <3>2, <3>3, <1>4
  <2>2. CASE pc[m] \notin {"status", "upgrade", "stream", "tune"}
    BY <2>2 DEF KVKnown
  <2> QED
    BY <2>1, <2>2
<1>6. ASSUME late[m] # None
      PROVE  LateKnown(late[m], bucket'[Cluster], AgreedBy(scenario))
  <2>1. LateKnown(late[m], bucket[Cluster], AgreedBy(scenario)) /\ late[m] \in Late
    BY <1>6 DEF PeerKV, KVTypes
  <2>2. CASE bucket'[Cluster] = bucket[Cluster]
    BY <2>1, <2>2
  <2>3. CASE bucket'[Cluster] # bucket[Cluster]
    <3>1. bucket'[Cluster].exists /\ bucket'[Cluster].replicas = AgreedBy(scenario)
      BY <2>3 DEF Rises
    <3>2. bucket'[Cluster].replicas <= AgreedBy(scenario)
      <4>1. bucket'[Cluster].replicas \in Nat
        BY DEF Sound, Bucket
      <4> QED
        BY <4>1, <3>1
    <3> QED
      BY <2>1, <3>1, <3>2, Zenon DEF LateKnown
  <2> QED
    BY <2>2, <2>3
<1>7. ASSUME m \in passed' PROVE pc[m] \in AfterBucket /\ TunedFor(m, bucket[Home(m)])'
  <2>1. pc[m] \in AfterBucket /\ TunedFor(m, bucket[Home(m)]) /\ pc[m] # "down"
    BY <1>7 DEF PeerKV, AfterBucket, AfterSignal
  <2>2. CASE bucket'[Home(m)'] = bucket[Home(m)]
    BY <2>1, <2>2, <1>1 DEF TunedFor
  <2>3. CASE Home(m)' = Cluster /\ Home(m) = Cluster /\ bucket'[Cluster] # bucket[Cluster]
    <3>1. /\ bucket[Cluster].replicas \in Nat /\ bucket'[Cluster].replicas \in Nat
          /\ bucket'[Cluster].direct \in BOOLEAN
      BY <1>3 DEF Sound, Bucket
    <3>2. Target(m) \in Nat
      <4>1. cfg[m] \in Configuration /\ cfg[m].size > 0
        BY <2>1 DEF BootTypes, PeerTypes
      <4> QED
        BY <4>1, ReplicasPositive DEF Target
    <3>3. /\ bucket'[Cluster].replicas = AgreedBy(scenario) /\ bucket[Cluster].replicas <= AgreedBy(scenario)
          /\ bucket'[Cluster].exists
      BY <2>3 DEF Rises
    <3>4. bucket'[Cluster].replicas >= Target(m)
      <4>1. bucket[Cluster].replicas >= Target(m)
        BY <2>1, <2>3 DEF TunedFor
      <4>2. bucket[Cluster].replicas <= bucket'[Cluster].replicas
        BY <3>3
      <4> QED
        BY <4>1, <4>2, <3>1, <3>2, SMTT(30)
    <3>5. ~bucket'[Cluster].direct
      BY <1>7, <2>1, <2>3 DEF TunedFor
    <3> QED
      BY <3>3, <3>4, <3>5, <2>1, <2>3, <1>1, Zenon DEF TunedFor
  <2> QED
    BY <2>1, <2>2, <2>3, <1>4
<1> QED
  BY <1>5, <1>6, <1>7, Zenon DEF PeerKV

\* The peers that are up have passed, on a bucket tuned for them.
LEMMA KVInit == Init => KVInv
<1> SUFFICES ASSUME Init PROVE KVInv
  OBVIOUS
<1>1. /\ scenario.start \in [Node -> Configs] /\ scenario.up \subseteq Node
      /\ Sound(scenario.bucket)
      /\ \A n \in scenario.up : /\ scenario.start[n].size > 1
                                /\ scenario.bucket.replicas >= DecideReplicas(scenario.start[n])
                                /\ scenario.bucket.exists /\ ~scenario.bucket.direct
  <2>1. scenario.bucket \in Bucket /\ scenario.bucket.exists = (scenario.bucket.replicas > 0)
    BY ScenariosAssumption DEF Init
  <2>2. Sound(scenario.bucket)
    BY <2>1, Zenon DEF Sound
  <2> QED
    BY <2>2, ScenariosAssumption DEF Init
<1>2. Sound(Absent)
  <2>1. Absent \in Bucket /\ Absent.exists = FALSE /\ Absent.replicas = 0
    BY DEF Absent, Bucket
  <2>2. (Absent.replicas > 0) = FALSE
    BY <2>1
  <2> QED
    BY <2>1, <2>2, Zenon DEF Sound
<1>3. KVTypes
  <2>1. /\ bucket \in [Node \cup {Cluster} -> Bucket]
        /\ \A b \in Node \cup {Cluster} : bucket[b] = scenario.bucket \/ bucket[b] = Absent
    BY <1>1, <1>2 DEF Init, Sound
  <2>2. \A b \in Node \cup {Cluster} : Sound(bucket[b])
    BY <2>1, <1>1, <1>2
  <2>3. seen \in [Node -> Bucket] /\ late \in [Node -> Late \cup {None}] /\ passed \in SUBSET Node
    BY <1>1, <1>2 DEF Init, Sound
  <2> QED
    BY <2>1, <2>2, <2>3 DEF KVTypes
<1>4. ASSUME NEW n \in Node PROVE PeerKV(n)
  <2>1. late[n] = None /\ pc[n] \in {"running", "down"}
    BY DEF Init
  <2>2. ASSUME n \in passed PROVE pc[n] \in AfterBucket /\ TunedFor(n, bucket[Home(n)])
    <3>1. n \in scenario.up /\ pc[n] = "running" /\ cfg[n] = scenario.start[n]
      BY <2>2 DEF Init
    <3>2. bucket[Cluster] = scenario.bucket
      BY DEF Init
    <3>3. Home(n) = Cluster
      BY <3>1, <1>1 DEF Home
    <3> QED
      BY <3>1, <3>2, <3>3, <1>1 DEF TunedFor, Target, AfterBucket, AfterSignal
  <2> QED
    BY <2>1, <2>2 DEF PeerKV, KVKnown
<1> QED
  BY <1>3, <1>4 DEF KVInv

\* A write to one bucket, of a peer that read what it had to.
LEMMA WriteAt ==
  ASSUME KVTypes, NEW h \in Node \cup {Cluster}, NEW op \in Op,
         bucket' = [bucket EXCEPT ![h] = Written(@, op)],
         (op.direct <=> op.kind # "tune"),
         h = Cluster =>
           /\ op.replicas = AgreedBy(scenario)
           /\ op.kind # "create" => bucket[Cluster].replicas <= AgreedBy(scenario)
  PROVE  /\ bucket' \in [Node \cup {Cluster} -> Bucket]
         /\ \A b \in Node \cup {Cluster} : Sound(bucket'[b])
         /\ \A b \in Node \cup {Cluster} : b # h => bucket'[b] = bucket[b]
         /\ bucket'[h] = Written(bucket[h], op)
         /\ Rises(bucket[Cluster], bucket'[Cluster])
         /\ bucket'[Cluster].direct =>
              bucket[Cluster].direct \/ ~bucket[Cluster].exists \/ op.kind = "upgrade"
<1>1. /\ bucket' \in [Node \cup {Cluster} -> Bucket]
      /\ \A b \in Node \cup {Cluster} : b # h => bucket'[b] = bucket[b]
      /\ bucket'[h] = Written(bucket[h], op)
  <2>1. bucket \in [Node \cup {Cluster} -> Bucket] /\ Sound(bucket[h])
    BY DEF KVTypes
  <2>2. Written(bucket[h], op) \in Bucket
    BY <2>1, WriteEffect DEF Sound
  <2> QED
    BY <2>1, <2>2
<1>2. \A b \in Node \cup {Cluster} : Sound(bucket[b])
  BY DEF KVTypes
<1>3. Sound(Written(bucket[h], op))
  BY <1>2, WriteEffect
<1>4. \A b \in Node \cup {Cluster} : Sound(bucket'[b])
  BY <1>1, <1>2, <1>3, Zenon
<1>5. CASE h # Cluster
  BY <1>1, <1>4, <1>5, Zenon DEF Rises
<1>6. CASE h = Cluster
  <2>1. bucket'[Cluster] = Written(bucket[Cluster], op) /\ Sound(bucket[Cluster])
    BY <1>1, <1>2, <1>6
  <2>2. \/ bucket'[Cluster] = bucket[Cluster]
        \/ /\ bucket'[Cluster].exists /\ bucket'[Cluster].replicas = op.replicas
           /\ bucket'[Cluster].direct = op.direct
           /\ (bucket[Cluster].exists <=> op.kind # "create")
    BY <2>1, WriteEffect
  <2>3. CASE bucket'[Cluster] = bucket[Cluster]
    BY <2>3, <1>1, <1>4, Zenon DEF Rises
  <2>4. CASE /\ bucket'[Cluster].exists /\ bucket'[Cluster].replicas = op.replicas
             /\ bucket'[Cluster].direct = op.direct
             /\ (bucket[Cluster].exists <=> op.kind # "create")
    <3>1. op.replicas \in Nat /\ op.replicas = AgreedBy(scenario) /\ bucket[Cluster].replicas \in Nat
          /\ (bucket[Cluster].exists <=> bucket[Cluster].replicas > 0)
          /\ bucket[Cluster].exists \in BOOLEAN
      BY <1>6, <2>1 DEF Op, Sound, Bucket
    <3>2. op.kind = "create" => bucket[Cluster].replicas = 0
      <4>1. op.kind = "create" => ~(bucket[Cluster].replicas > 0)
        BY <3>1, <2>4, Zenon
      <4> QED
        BY <3>1, <4>1
    <3>3. bucket[Cluster].replicas <= AgreedBy(scenario)
      BY <3>1, <3>2, <1>6
    <3>4. Rises(bucket[Cluster], bucket'[Cluster])
      BY <2>4, <3>1, <3>3 DEF Rises
    <3>5. bucket'[Cluster].direct => ~bucket[Cluster].exists \/ op.kind = "upgrade"
      <4>1. op.kind \in {"create", "upgrade", "tune"}
        BY DEF Op
      <4>2. CASE op.kind = "tune"
        BY <4>2, <2>4
      <4>3. CASE op.kind = "create"
        BY <4>3, <2>4
      <4> QED
        BY <4>1, <4>2, <4>3
    <3> QED
      BY <3>4, <3>5, <1>1, <1>4, Zenon
  <2> QED
    BY <2>2, <2>3, <2>4
<1> QED
  BY <1>5, <1>6

\* Where the bucket of a peer at a gate is.
LEMMA HomeAt ==
  ASSUME NEW n \in Node
  PROVE  Home(n) \in {n, Cluster} /\ (Home(n) = Cluster <=> cfg[n].size > 1)
BY NodesAssumption DEF Home

\* A peer at a gate writes to its bucket: the other peers keep what they know.
LEMMA GateWrite ==
  ASSUME OneTarget, BootTypes, KVInv, NEW n \in Node, pc[n] \in KVGates, late[n] = None,
         NEW op \in Op, op.replicas = Target(n), (op.direct <=> op.kind # "tune"),
         op.kind # "create" => bucket[Home(n)].exists /\ bucket[Home(n)].replicas <= Target(n),
         bucket' = [bucket EXCEPT ![Home(n)] = Written(@, op)],
         \/ passed' = (IF op.kind = "upgrade" THEN {} ELSE passed)
         \/ passed' = passed \cup {n} /\ op.kind # "upgrade",
         NEW g \in Phases, pc' = [pc EXCEPT ![n] = g],
         seen' \in [Node -> Bucket], \A m \in Node \ {n} : seen'[m] = seen[m],
         UNCHANGED <<scenario, cfg, late>>
  PROVE  /\ KVTypes' /\ Rises(bucket[Cluster], bucket'[Cluster])
         /\ \A m \in Node \ {n} : PeerKV(m)'
         /\ bucket'[Home(n)] = Written(bucket[Home(n)], op)
         /\ Home(n)' = Home(n) /\ Target(n)' = Target(n)
         /\ n \notin passed
         /\ Sound(bucket[Home(n)])
<1> USE DEF KVInv
<1>1. /\ pc[n] \in Gates /\ pc[n] \notin AfterBucket /\ Home(n) \in {n, Cluster}
      /\ Home(n) = Cluster <=> cfg[n].size > 1
  BY HomeAt DEF Gates, KVGates, AfterBucket, AfterSignal
<1>2. Home(n) \in Node \cup {Cluster}
  BY <1>1
<1>3. Home(n)' = Home(n) /\ Target(n)' = Target(n)
  BY DEF Home, Target
<1>4. n \notin passed
  BY <1>1 DEF PeerKV
<1>5. Home(n) = Cluster =>
        /\ op.replicas = AgreedBy(scenario)
        /\ op.kind # "create" => bucket[Cluster].replicas <= AgreedBy(scenario)
  BY <1>1, TargetAgreed
<1>6. /\ bucket' \in [Node \cup {Cluster} -> Bucket]
      /\ \A b \in Node \cup {Cluster} : Sound(bucket'[b])
      /\ \A b \in Node \cup {Cluster} : b # Home(n) => bucket'[b] = bucket[b]
      /\ bucket'[Home(n)] = Written(bucket[Home(n)], op)
      /\ Rises(bucket[Cluster], bucket'[Cluster])
      /\ bucket'[Cluster].direct =>
           bucket[Cluster].direct \/ ~bucket[Cluster].exists \/ op.kind = "upgrade"
  BY <1>2, <1>5, WriteAt, Zenon
<1>7. KVTypes'
  <2>1. passed' \in SUBSET Node /\ late' \in [Node -> Late \cup {None}]
    BY DEF KVTypes
  <2> QED
    BY <2>1, <1>6, Zenon DEF KVTypes
<1>8. ASSUME NEW m \in Node \ {n} PROVE PeerKV(m)'
  <2>1. m \in Node /\ m # n /\ m # Home(n)
    BY <1>1, NodesAssumption
  <2>2. /\ pc'[m] = pc[m] /\ late'[m] = late[m] /\ seen'[m] = seen[m] /\ cfg'[m] = cfg[m]
        /\ bucket'[m] = bucket[m] /\ Sound(bucket'[Cluster])
    BY <2>1, <1>6 DEF BootTypes
  <2>3. m \in passed' => m \in passed /\ op.kind # "upgrade"
    BY <2>1
  <2>4. m \in passed' => /\ m \in passed
                         /\ bucket'[Cluster].direct =>
                              bucket[Cluster].direct \/ ~bucket[Cluster].exists
    BY <2>3, <1>6
  <2>5. KVTypes /\ PeerKV(m) /\ SameStartup(cfg'[m], cfg[m])
    BY <2>1, <2>2 DEF SameStartup
  <2> QED
    BY <2>1, <2>2, <2>4, <2>5, <1>6, OthersKV, Zenon
<1> QED
  BY <1>3, <1>4, <1>6, <1>7, <1>8, <1>2 DEF KVTypes

\* A step that changes no bucket, of which n alone may take part: the other
\* peers keep what they know.
LEMMA GateQuiet ==
  ASSUME OneTarget, BootTypes, KVInv, NEW n \in Node, NEW g \in Phases,
         pc' = [pc EXCEPT ![n] = g],
         \A b \in Node \cup {Cluster} : b # n => bucket'[b] = bucket[b],
         passed' \subseteq passed \cup {n},
         \A m \in Node \ {n} : /\ seen'[m] = seen[m] /\ late'[m] = late[m]
                              /\ cfg'[m] = cfg[m],
         UNCHANGED scenario
  PROVE  (\A m \in Node \ {n} : PeerKV(m)') /\ Rises(bucket[Cluster], bucket'[Cluster])
<1> USE DEF KVInv
<1>1. bucket'[Cluster] = bucket[Cluster] /\ Sound(bucket[Cluster])
  BY NodesAssumption DEF KVTypes
<1>2. Rises(bucket[Cluster], bucket'[Cluster])
  BY <1>1 DEF Rises
<1>3. ASSUME NEW m \in Node \ {n} PROVE PeerKV(m)'
  <2>1. m \in Node /\ m # n
    OBVIOUS
  <2>2. /\ pc'[m] = pc[m] /\ late'[m] = late[m] /\ seen'[m] = seen[m]
        /\ SameStartup(cfg'[m], cfg[m])
        /\ bucket'[m] = bucket[m] /\ Sound(bucket'[Cluster])
    BY <2>1, <1>1 DEF BootTypes, SameStartup
  <2>3. m \in passed' => /\ m \in passed
                         /\ bucket'[Cluster].direct =>
                              bucket[Cluster].direct \/ ~bucket[Cluster].exists
    BY <2>1, <1>1
  <2>4. KVTypes /\ PeerKV(m)
    BY <2>1
  <2> QED
    BY <2>1, <2>2, <2>3, <2>4, <1>2, OthersKV, Zenon
<1> QED
  BY <1>2, <1>3

\* The gates of PreCreateClusterKV, and the writes that land after the answer
\* was given up: n itself.
LEMMA KVGateStep ==
  ASSUME OneTarget, BootTypes, KVInv, NEW n \in Node,
         KVCreate(n) \/ KVUpgrade(n) \/ KVTune(n)
  PROVE  KVInv' /\ Rises(bucket[Cluster], bucket'[Cluster])
<1> USE DEF KVInv
<1>1. PeerKV(n) /\ KVTypes /\ KVKnown(n, bucket[Home(n)])
  BY DEF PeerKV
<1>2. CASE KVCreate(n)
  <2>1. /\ pc[n] = "create" /\ late[n] = None
        /\ bucket' = [bucket EXCEPT ![Home(n)] = Written(@, CreateOp(n))]
        /\ passed' = IF CreateOp(n).kind = "upgrade" THEN {} ELSE passed
        /\ pc' = [pc EXCEPT ![n] = "status"]
        /\ UNCHANGED <<scenario, cfg, late, seen>>
    BY <1>2 DEF KVCreate, AtKV, KVWrite, GoTo, reloadVars
  <2>2. pc[n] \in KVGates /\ pc[n] \in Gates /\ "status" \in Phases
    BY <2>1 DEF Phases, Gates, KVGates
  <2>3. /\ CreateOp(n) \in Op /\ CreateOp(n).kind = "create" /\ CreateOp(n).replicas = Target(n)
        /\ CreateOp(n).direct = TRUE
    BY <2>2, TargetAgreed DEF CreateOp, Op
  <2>4. /\ seen' \in [Node -> Bucket] /\ \A m \in Node \ {n} : seen'[m] = seen[m]
    BY <2>1 DEF KVTypes
  <2>5. /\ CreateOp(n).direct <=> CreateOp(n).kind # "tune"
        /\ CreateOp(n).kind # "create" => bucket[Home(n)].exists /\ bucket[Home(n)].replicas <= Target(n)
    BY <2>3
  <2>6. /\ KVTypes' /\ Rises(bucket[Cluster], bucket'[Cluster])
        /\ \A m \in Node \ {n} : PeerKV(m)'
        /\ bucket'[Home(n)] = Written(bucket[Home(n)], CreateOp(n))
        /\ Home(n)' = Home(n) /\ Target(n)' = Target(n)
        /\ n \notin passed /\ Sound(bucket[Home(n)])
    BY <2>1, <2>2, <2>3, <2>4, <2>5, GateWrite, Zenon
  <2>7. bucket'[Home(n)].exists
    <3>1. \/ bucket'[Home(n)] = bucket[Home(n)] /\ bucket[Home(n)].exists
          \/ bucket'[Home(n)].exists
      BY <2>3, <2>6, WriteEffect
    <3> QED
      BY <3>1
  <2>8. PeerKV(n)'
    <3>1. pc'[n] = "status" /\ late'[n] = None /\ n \notin passed'
      BY <2>1, <2>3, <2>6 DEF BootTypes
    <3> QED
      BY <3>1, <2>6, <2>7 DEF PeerKV, KVKnown
  <2> QED
    BY <2>6, <2>8
<1>3. CASE KVUpgrade(n)
  <2>1. /\ pc[n] = "upgrade" /\ late[n] = None
        /\ bucket' = [bucket EXCEPT ![Home(n)] = Written(@, UpgradeOp(n))]
        /\ passed' = IF UpgradeOp(n).kind = "upgrade" THEN {} ELSE passed
        /\ pc' = [pc EXCEPT ![n] = "stream"]
        /\ UNCHANGED <<scenario, cfg, late, seen>>
    BY <1>3 DEF KVUpgrade, AtKV, KVWrite, GoTo, reloadVars
  <2>2. pc[n] \in KVGates /\ pc[n] \in Gates /\ "stream" \in Phases
    BY <2>1 DEF Phases, Gates, KVGates
  <2>3. /\ UpgradeOp(n) \in Op /\ UpgradeOp(n).kind = "upgrade" /\ UpgradeOp(n).replicas = Target(n)
        /\ UpgradeOp(n).direct = TRUE
    BY <2>2, TargetAgreed DEF UpgradeOp, Op
  <2>4. /\ seen' \in [Node -> Bucket] /\ \A m \in Node \ {n} : seen'[m] = seen[m]
    BY <2>1 DEF KVTypes
  <2>5. /\ UpgradeOp(n).direct <=> UpgradeOp(n).kind # "tune"
        /\ bucket[Home(n)].exists /\ bucket[Home(n)].replicas <= Target(n)
    BY <2>1, <2>3, <1>1 DEF KVKnown
  <2>6. /\ KVTypes' /\ Rises(bucket[Cluster], bucket'[Cluster])
        /\ \A m \in Node \ {n} : PeerKV(m)'
        /\ bucket'[Home(n)] = Written(bucket[Home(n)], UpgradeOp(n))
        /\ Home(n)' = Home(n) /\ Target(n)' = Target(n)
        /\ n \notin passed /\ Sound(bucket[Home(n)])
    BY <2>1, <2>2, <2>3, <2>4, <2>5, GateWrite, Zenon
  <2>7. bucket'[Home(n)].exists /\ bucket'[Home(n)].replicas = Target(n)
    <3>1. \/ bucket[Home(n)].exists <=> UpgradeOp(n).kind = "create"
          \/ bucket'[Home(n)].exists /\ bucket'[Home(n)].replicas = UpgradeOp(n).replicas
      <4>1. UpgradeOp(n) \in Op /\ Sound(bucket[Home(n)])
        BY <2>3, <2>6
      <4>2. LET b == bucket[Home(n)]
                w == Written(bucket[Home(n)], UpgradeOp(n))
            IN  \/ b.exists <=> UpgradeOp(n).kind = "create"
                \/ w.exists /\ w.replicas = UpgradeOp(n).replicas
        BY <4>1, WriteEffect, Zenon
      <4>3. bucket'[Home(n)] = Written(bucket[Home(n)], UpgradeOp(n))
        BY <2>6
      <4> QED
        BY <4>2, <4>3, Zenon
    <3> QED
      BY <3>1, <2>3, <2>5
  <2>8. PeerKV(n)'
    <3>1. pc'[n] = "stream" /\ late'[n] = None /\ n \notin passed'
      BY <2>1, <2>3, <2>6 DEF BootTypes
    <3> QED
      BY <3>1, <2>6, <2>7 DEF PeerKV, KVKnown
  <2> QED
    BY <2>6, <2>8
<1>4. CASE KVTune(n)
  <2>1. /\ pc[n] = "tune" /\ late[n] = None
        /\ bucket' = [bucket EXCEPT ![Home(n)] = Written(@, TuneOp(n))]
        /\ passed' = passed \cup {n} /\ seen' = [seen EXCEPT ![n] = Absent]
        /\ pc' = [pc EXCEPT ![n] = "history"]
        /\ UNCHANGED <<scenario, cfg, late>>
    BY <1>4 DEF KVTune, AtKV, GoTo, reloadVars
  <2>2. pc[n] \in KVGates /\ pc[n] \in Gates /\ "history" \in Phases
    BY <2>1 DEF Phases, Gates, KVGates
  <2>3. Target(n) \in Nat \ {0} /\ seen[n].replicas = Target(n)
    BY <2>1, <2>2, <1>1, TargetAgreed DEF KVKnown
  <2>4. /\ TuneOp(n) \in Op /\ TuneOp(n).kind = "tune" /\ TuneOp(n).replicas = Target(n)
        /\ TuneOp(n).direct = FALSE
    BY <2>3 DEF TuneOp, Op
  <2>5. /\ seen' \in [Node -> Bucket] /\ \A m \in Node \ {n} : seen'[m] = seen[m]
    <3>1. Absent \in Bucket
      BY DEF Absent, Bucket
    <3> QED
      BY <2>1, <3>1 DEF KVTypes
  <2>6. /\ TuneOp(n).direct <=> TuneOp(n).kind # "tune"
        /\ bucket[Home(n)].exists /\ bucket[Home(n)].replicas <= Target(n)
        /\ TuneOp(n).kind # "upgrade"
    BY <2>1, <2>3, <2>4, <1>1, SMTT(30) DEF KVKnown
  <2>7. /\ KVTypes' /\ Rises(bucket[Cluster], bucket'[Cluster])
        /\ \A m \in Node \ {n} : PeerKV(m)'
        /\ bucket'[Home(n)] = Written(bucket[Home(n)], TuneOp(n))
        /\ Home(n)' = Home(n) /\ Target(n)' = Target(n)
        /\ n \notin passed /\ Sound(bucket[Home(n)])
    BY <2>1, <2>2, <2>4, <2>5, <2>6, GateWrite, Zenon
  <2>8. /\ bucket'[Home(n)].exists /\ bucket'[Home(n)].replicas >= Target(n)
        /\ ~bucket'[Home(n)].direct
    <3>1. \/ bucket[Home(n)].exists <=> TuneOp(n).kind = "create"
          \/ /\ bucket'[Home(n)].exists /\ bucket'[Home(n)].replicas = TuneOp(n).replicas
             /\ bucket'[Home(n)].direct = TuneOp(n).direct
      <4>1. TuneOp(n) \in Op /\ Sound(bucket[Home(n)])
        BY <2>4, <2>7
      <4>2. LET b == bucket[Home(n)]
                w == Written(bucket[Home(n)], TuneOp(n))
            IN  \/ b.exists <=> TuneOp(n).kind = "create"
                \/ w.exists /\ w.replicas = TuneOp(n).replicas /\ w.direct = TuneOp(n).direct
        BY <4>1, WriteEffect, Zenon
      <4>3. bucket'[Home(n)] = Written(bucket[Home(n)], TuneOp(n))
        BY <2>7
      <4> QED
        BY <4>2, <4>3, Zenon
    <3> QED
      BY <3>1, <2>3, <2>4, <2>6, SMTT(30)
  <2>9. PeerKV(n)'
    <3>1. pc'[n] = "history" /\ late'[n] = None /\ "history" \in AfterBucket
      BY <2>1 DEF BootTypes, AfterBucket
    <3> QED
      BY <3>1, <2>7, <2>8 DEF PeerKV, KVKnown, TunedFor
  <2> QED
    BY <2>7, <2>9
<1> QED
  BY <1>2, <1>3, <1>4

\* A write that was given up takes effect or is dropped.
LEMMA LateStep ==
  ASSUME OneTarget, BootTypes, KVInv, NEW n \in Node, LateWrite(n)
  PROVE  KVInv' /\ Rises(bucket[Cluster], bucket'[Cluster])
<1> USE DEF KVInv
<1>1. /\ late[n] # None /\ late' = [late EXCEPT ![n] = None]
      /\ UNCHANGED <<scenario, pc, cfg, seen>>
      /\ \/ /\ bucket' = [bucket EXCEPT ![late[n].home] = Written(@, late[n].op)]
            /\ passed' = IF late[n].op.kind = "upgrade" THEN {} ELSE passed
         \/ UNCHANGED <<bucket, passed>>
  BY DEF LateWrite, reloadVars
<1>2. PICK h, op : h = late[n].home /\ op = late[n].op
  OBVIOUS
<1>3. /\ h \in {n, Cluster} /\ op \in Op /\ h \in Node \cup {Cluster}
      /\ pc[n] \in BeforeBucket /\ (op.direct <=> op.kind # "tune")
      /\ h = Cluster =>
           /\ op.replicas = AgreedBy(scenario)
           /\ op.kind # "create" => bucket[Cluster].replicas <= AgreedBy(scenario)
  <2>1. PeerKV(n) /\ late[n] \in Late
    BY <1>1 DEF KVTypes
  <2> QED
    BY <2>1, <1>1, <1>2 DEF PeerKV, Late, LateKnown
<1>4. /\ bucket' \in [Node \cup {Cluster} -> Bucket]
      /\ \A b \in Node \cup {Cluster} : Sound(bucket'[b])
      /\ \A b \in Node \cup {Cluster} : b # h => bucket'[b] = bucket[b]
      /\ Rises(bucket[Cluster], bucket'[Cluster])
      /\ bucket'[Cluster].direct =>
           bucket[Cluster].direct \/ ~bucket[Cluster].exists \/ passed' = {}
      /\ passed' \subseteq passed
  <2>1. CASE /\ bucket' = [bucket EXCEPT ![h] = Written(@, op)]
             /\ passed' = IF op.kind = "upgrade" THEN {} ELSE passed
    <3>1. /\ bucket' \in [Node \cup {Cluster} -> Bucket]
          /\ \A b \in Node \cup {Cluster} : Sound(bucket'[b])
          /\ \A b \in Node \cup {Cluster} : b # h => bucket'[b] = bucket[b]
          /\ Rises(bucket[Cluster], bucket'[Cluster])
          /\ bucket'[Cluster].direct =>
               bucket[Cluster].direct \/ ~bucket[Cluster].exists \/ op.kind = "upgrade"
      BY <2>1, <1>3, WriteAt, Zenon
    <3>2. (op.kind = "upgrade" => passed' = {}) /\ passed' \subseteq passed
      BY <2>1
    <3> QED
      BY <3>1, <3>2, Zenon
  <2>2. CASE UNCHANGED <<bucket, passed>>
    BY <2>2 DEF KVTypes, Rises
  <2> QED
    BY <1>1, <1>2, <2>1, <2>2
<1>5. KVTypes'
  <2>1. passed' \in SUBSET Node /\ late' \in [Node -> Late \cup {None}] /\ seen' \in [Node -> Bucket]
    BY <1>1, <1>4 DEF KVTypes
  <2> QED
    BY <2>1, <1>4, Zenon DEF KVTypes
<1>6. PeerKV(n)'
  <2>1. late'[n] = None /\ pc'[n] = pc[n] /\ n \notin passed'
    <3>1. n \notin passed
      BY <1>3 DEF PeerKV, BeforeBucket, AfterBucket, AfterSignal
    <3> QED
      BY <3>1, <1>1, <1>4 DEF KVTypes
  <2> QED
    BY <2>1, <1>3 DEF PeerKV, KVKnown, BeforeBucket
<1>7. ASSUME NEW m \in Node \ {n} PROVE PeerKV(m)'
  <2>1. m \in Node /\ m # n /\ m # h
    BY <1>3, NodesAssumption
  <2>2. /\ pc'[m] = pc[m] /\ late'[m] = late[m] /\ seen'[m] = seen[m]
        /\ SameStartup(cfg'[m], cfg[m])
        /\ bucket'[m] = bucket[m] /\ Sound(bucket'[Cluster])
    BY <2>1, <1>1, <1>4 DEF KVTypes, SameStartup
  <2>3. m \in passed' => /\ m \in passed
                         /\ bucket'[Cluster].direct =>
                              bucket[Cluster].direct \/ ~bucket[Cluster].exists
    BY <1>4
  <2>4. KVTypes /\ PeerKV(m) /\ scenario' = scenario
    BY <2>1, <1>1
  <2> QED
    BY <2>1, <2>2, <2>3, <2>4, <1>4, OthersKV, Zenon
<1> QED
  BY <1>4, <1>5, <1>6, <1>7

\* A write of an attempt that was given up.
LEMMA WriteUnderWay ==
  ASSUME NEW h \in Node \cup {Cluster}, NEW o \in Op, NEW b, NEW k,
         NEW w, w = [home |-> h, op |-> o],
         o.direct <=> o.kind # "tune",
         h = Cluster => o.replicas = k,
         h = Cluster /\ o.kind # "create" => b.exists /\ b.replicas <= k,
         h = Cluster /\ o.kind = "tune" => b.replicas = k
  PROVE  w \in Late /\ w.home = h /\ LateKnown(w, b, k)
<1>1. w \in Late /\ w.home = h /\ w.op = o
  BY DEF Late
<1> QED
  BY <1>1, Zenon DEF LateKnown

\* An attempt is given up; a write of it may be under way.
LEMMA LostStep ==
  ASSUME OneTarget, BootTypes, KVInv, NEW n \in Node, AttemptLost(n)
  PROVE  KVInv' /\ Rises(bucket[Cluster], bucket'[Cluster])
<1> USE DEF KVInv
<1>1. /\ pc[n] \in KVGates /\ pc' = [pc EXCEPT ![n] = "lookup"] /\ seen' = [seen EXCEPT ![n] = Absent]
      /\ UNCHANGED <<scenario, cfg, bucket, passed>>
      /\ late' = [late EXCEPT ![n] =
                CASE pc[n] = "create"  -> [home |-> Home(n), op |-> CreateOp(n)]
                  [] pc[n] = "upgrade" -> [home |-> Home(n), op |-> UpgradeOp(n)]
                  [] pc[n] = "tune"    -> [home |-> Home(n), op |-> TuneOp(n)]
                  [] OTHER             -> None]
  BY DEF AttemptLost, GoTo, reloadVars
<1>2. /\ pc[n] \in Gates /\ Home(n) \in {n, Cluster} /\ Home(n) \in Node \cup {Cluster}
      /\ Home(n) = Cluster <=> cfg[n].size > 1
      /\ pc[n] \notin AfterBucket /\ "lookup" \in Phases
  BY <1>1, HomeAt DEF Gates, KVGates, AfterBucket, AfterSignal, Phases
<1>3. /\ Target(n) \in Nat \ {0} /\ (Home(n) = Cluster => Target(n) = AgreedBy(scenario))
      /\ KVKnown(n, bucket[Home(n)])
  BY <1>2, TargetAgreed DEF PeerKV
<1>4. late'[n] = None \/ (late'[n] \in Late /\ late'[n].home = Home(n)
                          /\ LateKnown(late'[n], bucket[Cluster], AgreedBy(scenario)))
  <2>1. CASE pc[n] = "create"
    <3>1. late'[n] = [home |-> Home(n), op |-> CreateOp(n)]
      BY <2>1, <1>1 DEF KVTypes
    <3>2. /\ CreateOp(n) \in Op /\ CreateOp(n).kind = "create" /\ CreateOp(n).replicas = Target(n)
          /\ CreateOp(n).direct = TRUE
      BY <1>3 DEF CreateOp, Op
    <3> QED
      <4>1. Home(n) \in Node \cup {Cluster} /\ CreateOp(n) \in Op /\ (CreateOp(n).direct <=> CreateOp(n).kind # "tune")
        BY <1>2, <3>2
      <4>2. Home(n) = Cluster =>
              /\ CreateOp(n).replicas = AgreedBy(scenario)
              /\ CreateOp(n).kind # "create" =>
                   bucket[Cluster].exists /\ bucket[Cluster].replicas <= AgreedBy(scenario)
              /\ CreateOp(n).kind = "tune" => bucket[Cluster].replicas = AgreedBy(scenario)
        BY <1>3, <3>2
      <4> QED
        BY <3>1, <4>1, <4>2, WriteUnderWay, SMTT(40)
  <2>2. CASE pc[n] = "upgrade"
    <3>1. late'[n] = [home |-> Home(n), op |-> UpgradeOp(n)]
      BY <2>2, <1>1 DEF KVTypes
    <3>2. /\ UpgradeOp(n) \in Op /\ UpgradeOp(n).kind = "upgrade" /\ UpgradeOp(n).replicas = Target(n)
          /\ UpgradeOp(n).direct = TRUE
      BY <1>3 DEF UpgradeOp, Op
    <3> QED
      <4>1. Home(n) \in Node \cup {Cluster} /\ UpgradeOp(n) \in Op /\ (UpgradeOp(n).direct <=> UpgradeOp(n).kind # "tune")
        BY <1>2, <3>2
      <4>2. Home(n) = Cluster =>
              /\ UpgradeOp(n).replicas = AgreedBy(scenario)
              /\ UpgradeOp(n).kind # "create" =>
                   bucket[Cluster].exists /\ bucket[Cluster].replicas <= AgreedBy(scenario)
              /\ UpgradeOp(n).kind = "tune" => bucket[Cluster].replicas = AgreedBy(scenario)
        BY <2>2, <1>3, <3>2 DEF KVKnown
      <4> QED
        BY <3>1, <4>1, <4>2, WriteUnderWay, SMTT(40)
  <2>3. CASE pc[n] = "tune"
    <3>1. late'[n] = [home |-> Home(n), op |-> TuneOp(n)]
      BY <2>3, <1>1 DEF KVTypes
    <3>2. /\ TuneOp(n) \in Op /\ TuneOp(n).kind = "tune" /\ TuneOp(n).replicas = Target(n)
          /\ TuneOp(n).direct = FALSE
      BY <2>3, <1>3 DEF TuneOp, Op, KVKnown
    <3> QED
      <4>1. Home(n) \in Node \cup {Cluster} /\ TuneOp(n) \in Op /\ (TuneOp(n).direct <=> TuneOp(n).kind # "tune")
        BY <1>2, <3>2
      <4>2. Home(n) = Cluster =>
              /\ TuneOp(n).replicas = AgreedBy(scenario)
              /\ TuneOp(n).kind # "create" =>
                   bucket[Cluster].exists /\ bucket[Cluster].replicas <= AgreedBy(scenario)
              /\ TuneOp(n).kind = "tune" => bucket[Cluster].replicas = AgreedBy(scenario)
        BY <2>3, <1>3, <3>2 DEF KVKnown
      <4> QED
        BY <3>1, <4>1, <4>2, WriteUnderWay, SMTT(40)
  <2>4. CASE pc[n] \notin {"create", "upgrade", "tune"}
    BY <2>4, <1>1 DEF KVTypes
  <2> QED
    BY <2>1, <2>2, <2>3, <2>4
<1>5. KVTypes'
  <2>1. Absent \in Bucket
    BY DEF Absent, Bucket
  <2>2. seen' \in [Node -> Bucket]
    BY <2>1, <1>1 DEF KVTypes
  <2>3. late' \in [Node -> Late \cup {None}]
    <3>1. PICK w : late' = [late EXCEPT ![n] = w]
      BY <1>1, Zenon
    <3>2. w \in Late \cup {None}
      BY <3>1, <1>4 DEF KVTypes
    <3> QED
      BY <3>1, <3>2 DEF KVTypes
  <2> QED
    BY <2>2, <2>3, <1>1, Zenon DEF KVTypes
<1>6. PeerKV(n)'
  <2>1. pc'[n] = "lookup" /\ n \notin passed'
    BY <1>1, <1>2 DEF BootTypes, PeerKV
  <2> QED
    BY <2>1, <1>1, <1>2, <1>4 DEF PeerKV, KVKnown, BeforeBucket
<1>7. (\A m \in Node \ {n} : PeerKV(m)') /\ Rises(bucket[Cluster], bucket'[Cluster])
  <2>1. /\ \A b \in Node \cup {Cluster} : b # n => bucket'[b] = bucket[b]
        /\ passed' \subseteq passed \cup {n}
        /\ \A m \in Node \ {n} : seen'[m] = seen[m] /\ late'[m] = late[m] /\ cfg'[m] = cfg[m]
    BY <1>1 DEF KVTypes
  <2> QED
    BY <2>1, <1>1, <1>2, GateQuiet, Zenon
<1> QED
  BY <1>5, <1>6, <1>7

\* A step of n that writes to no bucket but, archiving it, its own.
QuietAt(n, g) ==
  /\ pc' = [pc EXCEPT ![n] = g]
  /\ bucket' \in [Node \cup {Cluster} -> Bucket] /\ Sound(bucket'[n])
  /\ \A b \in Node \cup {Cluster} : b # n => bucket'[b] = bucket[b]
  /\ passed' \subseteq passed \cup {n} /\ UNCHANGED <<scenario, late>>
  /\ seen' \in [Node -> Bucket]
  /\ \A m \in Node \ {n} : seen'[m] = seen[m] /\ cfg'[m] = cfg[m]

\* Such a step keeps the invariant when n knows what its next gate takes for
\* granted.
LEMMA QuietStep ==
  ASSUME OneTarget, BootTypes, KVInv, NEW n \in Node, NEW g \in Phases, QuietAt(n, g),
         KVKnown(n, bucket[Home(n)])',
         late[n] # None => g \in BeforeBucket,
         n \in passed' => g \in AfterBucket /\ TunedFor(n, bucket[Home(n)])'
  PROVE  KVInv' /\ Rises(bucket[Cluster], bucket'[Cluster])
<1> USE DEF KVInv, QuietAt
<1>1. (\A m \in Node \ {n} : PeerKV(m)') /\ Rises(bucket[Cluster], bucket'[Cluster])
  <2>1. \A m \in Node \ {n} : seen'[m] = seen[m] /\ late'[m] = late[m] /\ cfg'[m] = cfg[m]
    OBVIOUS
  <2> QED
    BY <2>1, GateQuiet, Zenon
<1>2. KVTypes'
  <2>1. passed' \in SUBSET Node
    BY DEF KVTypes
  <2>2. \A b \in Node \cup {Cluster} : Sound(bucket'[b])
    BY DEF KVTypes
  <2> QED
    BY <2>1, <2>2, Zenon DEF KVTypes
<1>3. PeerKV(n)'
  <2>1. pc'[n] = g /\ bucket'[Cluster] = bucket[Cluster]
    BY NodesAssumption DEF BootTypes
  <2> QED
    BY <2>1, Zenon DEF PeerKV
<1> QED
  BY <1>1, <1>2, <1>3

\* The steps of all peers.
LEMMA KVStep ==
  ASSUME OneTarget, BootTypes, KVInv, [Next]_vars
  PROVE  KVInv' /\ Rises(bucket[Cluster], bucket'[Cluster])
<1> USE DEF KVInv
<1>0. /\ KVTypes /\ bucket \in [Node \cup {Cluster} -> Bucket] /\ seen \in [Node -> Bucket]
      /\ \A b \in Node \cup {Cluster} : Sound(bucket[b])
      /\ Sound(Absent) /\ Absent \in Bucket
  <2>1. Absent \in Bucket /\ ~Absent.exists /\ Absent.replicas = 0
    BY DEF Absent, Bucket
  <2>2. ~(Absent.replicas > 0)
    BY <2>1
  <2> QED
    BY <2>1, <2>2, Zenon DEF KVTypes, Sound
<1>1. ASSUME KVStays, UNCHANGED <<scenario, pc>>,
             \A m \in Node : pc[m] # "down" => SameStartup(cfg'[m], cfg[m])
      PROVE  KVInv' /\ Rises(bucket[Cluster], bucket'[Cluster])
  <2>1. UNCHANGED <<bucket, seen, late, passed>>
    BY <1>1 DEF KVStays
  <2>2. Rises(bucket[Cluster], bucket'[Cluster])
    BY <2>1 DEF Rises
  <2>3. ASSUME NEW m \in Node PROVE PeerKV(m)'
    BY <2>1, <2>2, <1>0, <1>1, OthersKV
  <2> QED
    BY <2>1, <2>2, <2>3 DEF KVTypes
<1>2. CASE UNCHANGED vars
  <2>1. KVStays /\ UNCHANGED <<scenario, pc, cfg>>
    BY <1>2 DEF vars, KVStays, sharedVars, reloadVars
  <2> QED
    BY <2>1, <1>1 DEF SameStartup
<1>3. ASSUME NEW n \in Node, BootStart(n)
      PROVE  KVInv' /\ Rises(bucket[Cluster], bucket'[Cluster])
  <2>1. /\ pc[n] = "down" /\ pc' = [pc EXCEPT ![n] = "store"]
        /\ cfg' = [cfg EXCEPT ![n] = file[n]] /\ UNCHANGED <<scenario, bucket, seen, late, passed>>
    BY <1>3 DEF BootStart, GoTo, sharedVars
  <2>2. /\ "store" \in Phases /\ "store" \in BeforeBucket /\ n \notin passed' /\ pc'[n] = "store"
        /\ \A m \in Node \ {n} : cfg'[m] = cfg[m]
    BY <2>1 DEF BootTypes, PeerKV, Phases, Gates, BeforeBucket, AfterBucket, AfterSignal
  <2>3. KVKnown(n, bucket[Home(n)])'
    BY <2>2 DEF KVKnown
  <2>8. QuietAt(n, "store")
    BY <2>1, <2>2, <2>3, <1>0 DEF QuietAt
  <2>9. late[n] # None => "store" \in BeforeBucket
    BY <2>1, <2>2, <2>3
  <2> QED
    BY <2>1, <2>2, <2>3, <2>8, <2>9, QuietStep, Zenon
<1>4. ASSUME NEW n \in Node, ArchiveIncompatibleStore(n)
      PROVE  KVInv' /\ Rises(bucket[Cluster], bucket'[Cluster])
  <2>1. /\ pc[n] = "store" /\ pc' = [pc EXCEPT ![n] = "nats"]
        /\ bucket' = bucket \/ bucket' = [bucket EXCEPT ![n] = Absent]
        /\ UNCHANGED <<scenario, cfg, seen, late, passed>>
    BY <1>4 DEF ArchiveIncompatibleStore, GoTo, reloadVars
  <2>2. /\ "nats" \in Phases /\ "nats" \in BeforeBucket /\ n \notin passed' /\ pc'[n] = "nats"
    BY <2>1 DEF BootTypes, PeerKV, Phases, Gates, BeforeBucket, AfterBucket, AfterSignal
  <2>3. KVKnown(n, bucket[Home(n)])'
    BY <2>2 DEF KVKnown
  <2>4. /\ bucket' \in [Node \cup {Cluster} -> Bucket] /\ Sound(bucket'[n])
        /\ \A b \in Node \cup {Cluster} : b # n => bucket'[b] = bucket[b]
    BY <2>1, <1>0
  <2>8. QuietAt(n, "nats")
    BY <2>1, <2>2, <2>3, <2>4, <1>0 DEF QuietAt
  <2>9. late[n] # None => "nats" \in BeforeBucket
    BY <2>1, <2>2, <2>3, <2>4
  <2> QED
    BY <2>1, <2>2, <2>3, <2>4, <2>8, <2>9, QuietStep, Zenon
<1>5. ASSUME NEW n \in Node, KVLookup(n)
      PROVE  KVInv' /\ Rises(bucket[Cluster], bucket'[Cluster])
  <2>1. PICK g : g = IF bucket[Home(n)].exists THEN "status" ELSE "create"
    OBVIOUS
  <2>2. /\ pc[n] = "lookup" /\ late[n] = None /\ pc' = [pc EXCEPT ![n] = g]
        /\ UNCHANGED <<scenario, cfg, bucket, seen, late, passed>>
    BY <1>5, <2>1 DEF KVLookup, AtKV, GoTo, reloadVars, sharedVars
  <2>3. /\ g \in Phases /\ n \notin passed' /\ pc'[n] = g
    BY <2>1, <2>2 DEF BootTypes, PeerKV, Phases, Gates, KVGates, AfterBucket, AfterSignal
  <2>4. bucket'[Home(n)'] = bucket[Home(n)]
    BY <2>2 DEF Home
  <2>5. KVKnown(n, bucket[Home(n)])'
    BY <2>1, <2>3, <2>4 DEF KVKnown
  <2>8. QuietAt(n, g)
    BY <2>2, <2>3, <2>5, <1>0 DEF QuietAt
  <2>9. late[n] # None => g \in BeforeBucket
    BY <2>2, <2>3, <2>5
  <2> QED
    BY <2>2, <2>3, <2>5, <2>8, <2>9, QuietStep, Zenon
<1>6. ASSUME NEW n \in Node, KVStatus(n)
      PROVE  KVInv' /\ Rises(bucket[Cluster], bucket'[Cluster])
  <2>1. PICK g : g = IF bucket[Home(n)].replicas < Target(n) THEN "upgrade" ELSE "stream"
    OBVIOUS
  <2>2. /\ pc[n] = "status" /\ late[n] = None /\ pc' = [pc EXCEPT ![n] = g]
        /\ bucket[Home(n)].replicas <= Target(n)
        /\ UNCHANGED <<scenario, cfg, bucket, seen, late, passed>>
    BY <1>6, <2>1 DEF KVStatus, AtKV, GoTo, reloadVars, sharedVars
  <2>3. /\ g \in Phases /\ n \notin passed' /\ pc'[n] = g /\ bucket[Home(n)].exists /\ pc[n] \in Gates
    BY <2>1, <2>2 DEF BootTypes, PeerKV, KVKnown, Phases, Gates, KVGates, AfterBucket, AfterSignal
  <2>4. bucket'[Home(n)'] = bucket[Home(n)] /\ Target(n)' = Target(n)
    BY <2>2 DEF Home, Target
  <2>5. g = "stream" => bucket[Home(n)].replicas = Target(n)
    <3>1. Target(n) \in Nat
      BY <2>3, TargetAgreed
    <3>2. bucket[Home(n)].replicas \in Nat
      BY <1>0, HomeAt DEF Sound, Bucket
    <3> QED
      BY <3>1, <3>2, <2>1, <2>2
  <2>6. KVKnown(n, bucket[Home(n)])'
    BY <2>1, <2>2, <2>3, <2>4, <2>5, SMTT(30) DEF KVKnown
  <2>8. QuietAt(n, g)
    BY <2>2, <2>3, <2>6, <1>0 DEF QuietAt
  <2>9. late[n] # None => g \in BeforeBucket
    BY <2>2, <2>3, <2>6
  <2> QED
    BY <2>2, <2>3, <2>6, <2>8, <2>9, QuietStep, Zenon
<1>7. ASSUME NEW n \in Node, KVStream(n)
      PROVE  KVInv' /\ Rises(bucket[Cluster], bucket'[Cluster])
  <2>1. /\ pc[n] = "stream" /\ late[n] = None
        /\ UNCHANGED <<scenario, cfg, bucket, late>>
        /\ \/ /\ seen' = [seen EXCEPT ![n] = bucket[Home(n)]]
              /\ pc' = [pc EXCEPT ![n] = "tune"] /\ passed' = passed
           \/ /\ ~bucket[Home(n)].direct
              /\ pc' = [pc EXCEPT ![n] = "history"]
              /\ passed' = passed \cup {n} /\ seen' = seen
    BY <1>7 DEF KVStream, AtKV, GoTo, reloadVars
  <2>2. /\ pc[n] \in Gates /\ n \notin passed /\ Sound(bucket[Home(n)]) /\ bucket[Home(n)] \in Bucket
        /\ bucket[Home(n)].exists /\ bucket[Home(n)].replicas = Target(n)
    <3>1. pc[n] \in Gates /\ PeerKV(n) /\ pc[n] \notin AfterBucket /\ Home(n) \in Node \cup {Cluster}
      BY <2>1, HomeAt DEF Gates, KVGates, AfterBucket, AfterSignal
    <3> QED
      BY <2>1, <3>1, <1>0 DEF PeerKV, KVKnown, Sound
  <2>3. bucket'[Home(n)'] = bucket[Home(n)] /\ Target(n)' = Target(n) /\ Target(n) \in Nat
    BY <2>1, <2>2, TargetAgreed DEF Home, Target
  <2>4. CASE /\ seen' = [seen EXCEPT ![n] = bucket[Home(n)]]
             /\ pc' = [pc EXCEPT ![n] = "tune"] /\ passed' = passed
    <3>1. /\ "tune" \in Phases /\ pc'[n] = "tune" /\ seen'[n] = bucket[Home(n)]
          /\ seen' \in [Node -> Bucket] /\ \A m \in Node \ {n} : seen'[m] = seen[m] /\ cfg'[m] = cfg[m]
      BY <2>1, <2>2, <2>4, <1>0 DEF BootTypes, Phases, Gates, KVGates
    <3>2. KVKnown(n, bucket[Home(n)])'
      BY <3>1, <2>2, <2>3 DEF KVKnown
    <3>8. QuietAt(n, "tune")
      BY <2>1, <2>2, <2>4, <3>1, <3>2, <1>0 DEF QuietAt
    <3>9. late[n] # None => "tune" \in BeforeBucket
      BY <2>1, <2>2, <2>4, <3>1, <3>2
    <3> QED
      BY <2>1, <2>2, <2>4, <3>1, <3>2, <3>8, <3>9, QuietStep, Zenon
  <2>5. CASE /\ ~bucket[Home(n)].direct
             /\ pc' = [pc EXCEPT ![n] = "history"]
             /\ passed' = passed \cup {n} /\ seen' = seen
    <3>1. "history" \in Phases /\ pc'[n] = "history" /\ "history" \in AfterBucket
      BY <2>5 DEF BootTypes, Phases, Gates, KVGates, AfterBucket
    <3>2. KVKnown(n, bucket[Home(n)])'
      BY <3>1 DEF KVKnown
    <3>3. TunedFor(n, bucket[Home(n)])'
      BY <2>2, <2>3, <2>5, SMTT(30) DEF TunedFor
    <3>8. QuietAt(n, "history")
      BY <2>1, <2>2, <2>5, <3>1, <3>2, <3>3, <1>0 DEF QuietAt
    <3>9. late[n] # None => "history" \in BeforeBucket
      BY <2>1, <2>2, <2>5, <3>1, <3>2, <3>3
    <3> QED
      BY <2>1, <2>2, <2>5, <3>1, <3>2, <3>3, <3>8, <3>9, QuietStep, Zenon
  <2> QED
    BY <2>1, <2>4, <2>5
<1>8. ASSUME NEW n \in Node, NEW g \in Phases, AwayFromKV(n, g)
      PROVE  KVInv' /\ Rises(bucket[Cluster], bucket'[Cluster])
  <2>1. /\ pc' = [pc EXCEPT ![n] = g] /\ UNCHANGED <<scenario, cfg, bucket, seen, late, passed>>
        /\ pc'[n] = g
        /\ \/ pc[n] \in BeforeBucket /\ g \in BeforeBucket
           \/ pc[n] \in AfterBucket /\ g \in AfterBucket
    BY <1>8 DEF AwayFromKV, KVStays, BootTypes
  <2>2. PeerKV(n) /\ BeforeBucket \cap AfterBucket = {}
    BY DEF BeforeBucket, AfterBucket, AfterSignal
  <2>3. KVKnown(n, bucket[Home(n)])'
    BY <2>1 DEF KVKnown, BeforeBucket, AfterBucket, AfterSignal
  <2>4. n \in passed => g \in AfterBucket /\ TunedFor(n, bucket[Home(n)])'
    <3>1. n \in passed => pc[n] \in AfterBucket /\ TunedFor(n, bucket[Home(n)])
      BY <2>2 DEF PeerKV
    <3>2. TunedFor(n, bucket[Home(n)])' <=> TunedFor(n, bucket[Home(n)])
      BY <2>1 DEF TunedFor, Home, Target
    <3> QED
      BY <2>1, <2>2, <3>1, <3>2
  <2>5. late[n] # None => g \in BeforeBucket
    BY <2>1, <2>2 DEF PeerKV
  <2>8. QuietAt(n, g)
    BY <2>1, <2>3, <2>4, <2>5, <1>0 DEF QuietAt
  <2>9. late[n] # None => g \in BeforeBucket
    BY <2>1, <2>3, <2>4, <2>5
  <2> QED
    BY <2>1, <2>3, <2>4, <2>5, <2>8, <2>9, QuietStep, Zenon
<1>9. ASSUME NEW n \in Node, StopsOrCrashes(n)
      PROVE  KVInv' /\ Rises(bucket[Cluster], bucket'[Cluster])
  <2>1. /\ pc' = [pc EXCEPT ![n] = "down"] /\ cfg' = [cfg EXCEPT ![n] = None]
        /\ seen' = [seen EXCEPT ![n] = Absent] /\ passed' = passed \ {n}
        /\ UNCHANGED <<scenario, bucket, late>>
    BY <1>9 DEF StopsOrCrashes, GoTo
  <2>2. /\ "down" \in Phases /\ "down" \in BeforeBucket /\ pc'[n] = "down"
        /\ \A m \in Node \ {n} : cfg'[m] = cfg[m] /\ seen'[m] = seen[m]
        /\ seen' \in [Node -> Bucket] /\ passed' \subseteq passed \cup {n}
    BY <2>1, <1>0 DEF BootTypes, Phases, BeforeBucket
  <2>3. KVKnown(n, bucket[Home(n)])'
    BY <2>2 DEF KVKnown
  <2>8. QuietAt(n, "down")
    BY <2>1, <2>2, <2>3, <1>0 DEF QuietAt
  <2>9. late[n] # None => "down" \in BeforeBucket
    BY <2>1, <2>2, <2>3
  <2> QED
    BY <2>1, <2>2, <2>3, <2>8, <2>9, QuietStep, Zenon
<1>10. ASSUME NEW n \in Node, HandleSIGHUP(n)
       PROVE  KVInv' /\ Rises(bucket[Cluster], bucket'[Cluster])
  <2>1. KVStays /\ UNCHANGED <<scenario, pc>>
    BY <1>10 DEF HandleSIGHUP, bootVarsAround, sharedVars, KVStays
  <2>2. \A m \in Node : pc[m] # "down" => SameStartup(cfg'[m], cfg[m])
    BY <1>10, ReloadKeepsStartup
  <2> QED
    BY <2>1, <2>2, <1>1
<1>11. ASSUME NEW n \in Node,
              InitDB(n) \/ StartPostgres(n) \/ Promote(n) \/ PostgresStops(n) \/ Edit(n) \/ Signal(n)
       PROVE  KVInv' /\ Rises(bucket[Cluster], bucket'[Cluster])
  <2>1. KVStays /\ UNCHANGED <<scenario, pc, cfg>>
    BY <1>11 DEF InitDB, StartPostgres, Promote, PostgresStops, Edit, OperatorEdits, Signal, OperatorSignals,
                 bootVarsAround, sharedVars, reloadVars, KVStays
  <2> QED
    BY <2>1, <1>1 DEF SameStartup
<1>12. CASE Next
  <2>1. PICK n \in Node :
          \/ BootStart(n) \/ BootStep(n) \/ AttemptLost(n) \/ LateWrite(n) \/ StopsOrCrashes(n)
          \/ InitDB(n) \/ StartPostgres(n) \/ Promote(n) \/ PostgresStops(n) \/ Edit(n) \/ Signal(n)
          \/ HandleSIGHUP(n)
    BY <1>12, Zenon DEF Next
  <2>2. BootStep(n) => KVInv' /\ Rises(bucket[Cluster], bucket'[Cluster])
    BY GateKV, KVGateStep, <1>4, <1>5, <1>6, <1>7, <1>8, Zenon
  <2> QED
    BY <2>1, <2>2, <1>3, <1>9, <1>10, <1>11, LateStep, LostStep, Zenon
<1> QED
  BY <1>2, <1>12

\* On any number of peers that agree on the replicas of a clustered bucket, and
\* through any lost answer, late write, crash and restart: a peer that has passed
\* PreCreateClusterKV finds its bucket tuned until the next upgrade, and nothing
\* lowers the shared bucket's replication.
THEOREM BucketStaysTuned ==
  ASSUME OneTarget
  PROVE  Spec => BucketTuned
<1>1. KVInv => PassedMeansTuned
  BY DEF KVInv, KVTypes, PeerKV, TunedFor, PassedMeansTuned
<1>2. BootTypes /\ KVInv /\ [Next]_vars
        => KVInv' /\ [bucket'[Cluster].replicas >= bucket[Cluster].replicas]_vars
  <2> SUFFICES ASSUME BootTypes, KVInv, [Next]_vars
               PROVE  KVInv' /\ bucket'[Cluster].replicas >= bucket[Cluster].replicas
    OBVIOUS
  <2>1. KVInv' /\ Rises(bucket[Cluster], bucket'[Cluster])
    BY KVStep
  <2>2. bucket[Cluster].replicas \in Nat
    BY DEF KVInv, KVTypes, Bucket
  <2> QED
    BY <2>1, <2>2 DEF Rises
<1> QED
  BY <1>1, <1>2, KVInit, TypesInvariance, PTL DEF Spec, BucketTuned

=============================================================================
