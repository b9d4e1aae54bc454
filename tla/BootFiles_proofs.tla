-------------------------- MODULE BootFiles_proofs --------------------------
(***************************************************************************)
(* Start-up and reload (Boot), continued: what a boot rewrites on disk.    *)
(*   StoreInv   the store fits the mode past the archiving gate            *)
(*   ConfInv    the files done so far hold the configured lines            *)
(***************************************************************************)
EXTENDS Boot_proofs

-----------------------------------------------------------------------------
(* The JetStream store *)

\* The store a server of this mode may find or leave.
Fits(s, clustered) == s = "bare" \/ s = IF clustered THEN "clustered" ELSE "standalone"

\* Past ArchiveIncompatibleStore the store is of the configured mode or none.
PeerStore(n) ==
  /\ \A k \in 1 .. made[n] :
       (k = made[n] /\ store[n] # "none") \/ \E a \in archives[n] : a.nth = k
  /\ \A a, b \in archives[n] : a.name = b.name => a = b
  /\ store[n] # "none" => made[n] > 0
  /\ pc[n] = "nats" => store[n] = "none" \/ Fits(store[n], cfg[n].size > 1)
  /\ pc[n] \notin BeforeServer => Fits(store[n], cfg[n].size > 1)

StoreInv ==
  /\ store \in [Node -> {"none", "bare", "standalone", "clustered"}]
  /\ made \in [Node -> Nat] /\ DOMAIN archives = Node
  /\ \A n \in Node : PeerStore(n)

\* A store that is not touched still fits, at whatever later gate the peer is.
LEMMA StoreKept ==
  ASSUME NEW m \in Node, PeerStore(m),
         store'[m] = store[m], archives'[m] = archives[m], made'[m] = made[m],
         pc'[m] = "nats" => pc[m] = "nats" /\ cfg'[m] = cfg[m],
         pc'[m] \notin BeforeServer => pc[m] \notin BeforeServer /\ cfg'[m].size = cfg[m].size
  PROVE  PeerStore(m)'
BY Zenon DEF PeerStore, Fits

\* The stores at the outset are those of the peers that are up.
LEMMA StoreInit == Init => StoreInv
<1> SUFFICES ASSUME Init PROVE StoreInv
  OBVIOUS
<1>1. /\ scenario.up \subseteq Node
      /\ \A n \in scenario.up : scenario.start[n].size > 1
  BY ScenariosAssumption DEF Init
<1>2. ASSUME NEW n \in Node PROVE PeerStore(n)
  <2>1. archives[n] = {}
    BY DEF Init
  <2>2. CASE n \in scenario.up
    <3>1. /\ store[n] = "clustered" /\ made[n] = 1 /\ pc[n] = "running"
          /\ cfg[n] = scenario.start[n]
      BY <2>2, <1>1 DEF Init
    <3> QED
      BY <2>1, <2>2, <3>1, <1>1 DEF PeerStore, Fits
  <2>3. CASE n \notin scenario.up
    <3>1. store[n] = "none" /\ made[n] = 0 /\ pc[n] = "down"
      BY <2>3 DEF Init
    <3> QED
      BY <2>1, <3>1 DEF PeerStore, BeforeServer
  <2> QED
    BY <2>2, <2>3
<1>3. /\ store \in [Node -> {"none", "bare", "standalone", "clustered"}]
      /\ made \in [Node -> Nat] /\ DOMAIN archives = Node
  BY DEF Init
<1> QED
  BY <1>2, <1>3 DEF StoreInv

\* ArchiveIncompatibleStore: a store goes under a name that none has.
LEMMA ArchiveStep ==
  ASSUME BootTypes, StoreInv, NEW n \in Node, ArchiveIncompatibleStore(n)
  PROVE  StoreInv'
<1> USE DEF StoreInv
<1>1. /\ pc[n] = "store" /\ pc' = [pc EXCEPT ![n] = "nats"]
      /\ UNCHANGED <<made, cfg>> /\ pc'[n] = "nats"
  BY DEF ArchiveIncompatibleStore, GoTo, reloadVars, BootTypes
<1>2. PeerStore(n) /\ cfg[n].size \in Nat /\ cfg[n].size > 0
  BY <1>1 DEF BootTypes, PeerTypes, Configuration
<1>3. CASE ~Mismatch(n) /\ UNCHANGED <<store, archives>>
  <2>1. PeerStore(n)'
    <3>1. store[n] = "none" \/ Fits(store[n], cfg[n].size > 1)
      BY <1>2, <1>3 DEF Mismatch, DetectStoreLayout, Fits
    <3> QED
      BY <3>1, <1>1, <1>2, <1>3 DEF PeerStore, BeforeServer
  <2>2. ASSUME NEW m \in Node, m # n PROVE PeerStore(m)'
    <3>1. pc'[m] = pc[m] /\ cfg'[m] = cfg[m]
      BY <1>1, <2>2 DEF BootTypes
    <3> QED
      BY <3>1, <1>1, <1>3, StoreKept, Zenon
  <2> QED
    BY <1>1, <1>3, <2>1, <2>2
<1>4. CASE /\ Mismatch(n)
           /\ \E i \in FreeSuffixes(n) : archives' = [archives EXCEPT ![n] = @ \cup
                {[name |-> <<DetectStoreLayout(store[n]), i>>, nth |-> made[n]]}]
           /\ store' = [store EXCEPT ![n] = "none"]
  <2>1. PICK i \in FreeSuffixes(n) : archives' = [archives EXCEPT ![n] = @ \cup
               {[name |-> <<DetectStoreLayout(store[n]), i>>, nth |-> made[n]]}]
    BY <1>4, Zenon
  <2>2. PICK x : /\ x = [name |-> <<DetectStoreLayout(store[n]), i>>, nth |-> made[n]]
                 /\ x.nth = made[n] /\ \A a \in archives[n] : a.name # x.name
    <3>1. \A a \in archives[n] : a.name # <<DetectStoreLayout(store[n]), i>>
      BY DEF FreeSuffixes
    <3>2. PICK x : x = [name |-> <<DetectStoreLayout(store[n]), i>>, nth |-> made[n]]
      BY Zenon
    <3>3. x.name = <<DetectStoreLayout(store[n]), i>> /\ x.nth = made[n]
      BY <3>2
    <3> QED
      BY <3>1, <3>2, <3>3, Zenon
  <2>3. /\ archives'[n] = archives[n] \cup {x} /\ DOMAIN archives' = Node
        /\ \A m \in Node \ {n} : archives'[m] = archives[m]
    BY <2>1, <2>2
  <2>4. store'[n] = "none" /\ \A m \in Node \ {n} : store'[m] = store[m]
    BY <1>4
  <2>5. PeerStore(n)'
    <3>1. \A k \in 1 .. made'[n] : \E a \in archives'[n] : a.nth = k
      BY <1>1, <1>2, <2>2, <2>3 DEF PeerStore
    <3>2. \A a, b \in archives'[n] : a.name = b.name => a = b
      BY <1>2, <2>2, <2>3 DEF PeerStore
    <3> QED
      BY <3>1, <3>2, <1>1, <2>4 DEF PeerStore, BeforeServer
  <2>6. ASSUME NEW m \in Node, m # n PROVE PeerStore(m)'
    <3>1. /\ pc'[m] = pc[m] /\ cfg'[m] = cfg[m] /\ made'[m] = made[m]
          /\ store'[m] = store[m] /\ archives'[m] = archives[m]
      BY <1>1, <2>3, <2>4, <2>6 DEF BootTypes
    <3> QED
      BY <3>1, StoreKept, Zenon
  <2>7. store' \in [Node -> {"none", "bare", "standalone", "clustered"}]
    BY <1>4
  <2> QED
    BY <1>1, <2>3, <2>5, <2>6, <2>7
<1> QED
  BY <1>3, <1>4 DEF ArchiveIncompatibleStore

\* The server opens the store of its mode, or begins one.
LEMMA ServerStoreStep ==
  ASSUME BootTypes, StoreInv, NEW n \in Node, StartServer(n) \/ StoreOpened(n)
  PROVE  StoreInv'
<1> USE DEF StoreInv
<1>1. PeerStore(n) /\ PeerTypes(n) /\ made[n] \in Nat
  BY DEF BootTypes
<1>2. CASE StartServer(n)
  <2>1. /\ pc[n] = "nats" /\ pc' = [pc EXCEPT ![n] = "meta"] /\ UNCHANGED <<archives, cfg>>
        /\ store' = [store EXCEPT ![n] = IF @ = "none" THEN "bare" ELSE @]
        /\ made' = [made EXCEPT ![n] = IF store[n] = "none" THEN @ + 1 ELSE @]
    BY <1>2 DEF StartServer, GoTo
  <2>2. /\ store' \in [Node -> {"none", "bare", "standalone", "clustered"}] /\ made' \in [Node -> Nat]
        /\ pc'[n] = "meta" /\ store'[n] = (IF store[n] = "none" THEN "bare" ELSE store[n])
        /\ made'[n] = (IF store[n] = "none" THEN made[n] + 1 ELSE made[n])
    BY <1>1, <2>1 DEF BootTypes
  <2>3. store'[n] # "none" /\ made'[n] > 0
    BY <1>1, <2>2 DEF PeerStore
  <2>4. \A k \in 1 .. made'[n] : k = made'[n] \/ \E a \in archives'[n] : a.nth = k
    BY <1>1, <2>1, <2>2 DEF PeerStore
  <2>5. Fits(store'[n], cfg'[n].size > 1)
    BY <1>1, <2>1, <2>2 DEF PeerStore, Fits
  <2>6. PeerStore(n)'
    BY <1>1, <2>1, <2>2, <2>3, <2>4, <2>5 DEF PeerStore
  <2>7. ASSUME NEW m \in Node, m # n PROVE PeerStore(m)'
    <3>1. /\ pc'[m] = pc[m] /\ cfg'[m] = cfg[m] /\ made'[m] = made[m]
          /\ store'[m] = store[m] /\ archives'[m] = archives[m]
      BY <2>1, <2>7 DEF BootTypes
    <3> QED
      BY <3>1, StoreKept, Zenon
  <2> QED
    BY <2>1, <2>2, <2>6, <2>7
<1>3. CASE StoreOpened(n)
  <2>1. /\ pc[n] = "meta" /\ pc' = [pc EXCEPT ![n] = "mesh"] /\ UNCHANGED <<archives, made, cfg>>
        /\ store' = [store EXCEPT ![n] = IF @ # "bare" THEN @
                       ELSE IF server[n].clustered THEN "clustered" ELSE "standalone"]
    BY <1>3 DEF StoreOpened, GoTo, reloadVars
  <2>2. /\ store' \in [Node -> {"none", "bare", "standalone", "clustered"}]
        /\ pc'[n] = "mesh"
        /\ store'[n] = (IF store[n] # "bare" THEN store[n]
                        ELSE IF server[n].clustered THEN "clustered" ELSE "standalone")
    BY <2>1 DEF BootTypes
  <2>3. server[n].clustered = (cfg[n].size > 1) /\ Fits(store[n], cfg[n].size > 1)
    BY <1>1, <2>1 DEF PeerStore, PeerTypes, BeforeServer
  <2>4. Fits(store'[n], cfg'[n].size > 1) /\ (store'[n] = "none") = (store[n] = "none")
    BY <2>1, <2>2, <2>3, Zenon DEF Fits
  <2>5. PeerStore(n)'
    BY <1>1, <2>1, <2>2, <2>4 DEF PeerStore
  <2>6. ASSUME NEW m \in Node, m # n PROVE PeerStore(m)'
    <3>1. /\ pc'[m] = pc[m] /\ cfg'[m] = cfg[m] /\ made'[m] = made[m]
          /\ store'[m] = store[m] /\ archives'[m] = archives[m]
      BY <2>1, <2>6 DEF BootTypes
    <3> QED
      BY <3>1, StoreKept, Zenon
  <2> QED
    BY <2>1, <2>2, <2>5, <2>6
<1> QED
  BY <1>2, <1>3

\* No step loses a store or puts a server on one of the other mode.
LEMMA StoreStep == BootTypes /\ StoreInv /\ [Next]_vars => StoreInv'
<1> SUFFICES ASSUME BootTypes, StoreInv, [Next]_vars PROVE StoreInv'
  OBVIOUS
<1>1. ASSUME StoreStays,
             \A m \in Node :
               /\ pc'[m] = "nats" => pc[m] = "nats" /\ cfg'[m] = cfg[m]
               /\ pc'[m] \notin BeforeServer =>
                    pc[m] \notin BeforeServer /\ cfg'[m].size = cfg[m].size
      PROVE  StoreInv'
  BY <1>1, StoreKept DEF StoreInv, StoreStays
<1>2. CASE UNCHANGED vars \/ (Stays /\ StoreStays)
  <2>1. StoreStays /\ UNCHANGED <<pc, cfg>>
    BY <1>2 DEF vars, diskVars, Stays, StoreStays, reloadVars
  <2> QED
    BY <1>1, <2>1
<1>3. ASSUME NEW n \in Node, BootStart(n) PROVE StoreInv'
  <2>1. /\ pc' = [pc EXCEPT ![n] = "store"] /\ cfg' = [cfg EXCEPT ![n] = file[n]] /\ StoreStays
    BY <1>3 DEF BootStart, GoTo, diskVars, StoreStays
  <2> QED
    BY <1>1, <2>1 DEF BeforeServer, BootTypes
<1>4. ASSUME NEW n \in Node, NEW g \in Phases, Passes(n, g) PROVE StoreInv'
  <2>1. /\ pc' = [pc EXCEPT ![n] = g] /\ UNCHANGED cfg /\ StoreStays
        /\ pc[n] \notin BeforeServer /\ g \notin BeforeServer
    BY <1>4 DEF Passes, Moves, reloadVars
  <2>2. g # "nats"
    BY <2>1 DEF BeforeServer
  <2> QED
    BY <1>1, <2>1, <2>2 DEF BootTypes
<1>5. ASSUME NEW n \in Node, StopsOrCrashes(n) PROVE StoreInv'
  <2>1. pc' = [pc EXCEPT ![n] = "down"] /\ cfg' = [cfg EXCEPT ![n] = None] /\ StoreStays
    BY <1>5 DEF StopsOrCrashes, GoTo, diskVars, StoreStays
  <2> QED
    BY <1>1, <2>1 DEF BeforeServer, BootTypes
<1>6. ASSUME NEW n \in Node, Edit(n) \/ Signal(n) PROVE StoreInv'
  <2>1. UNCHANGED <<pc, cfg>> /\ StoreStays
    BY <1>6 DEF Edit, OperatorEdits, Signal, OperatorSignals, bootVarsAround, diskVars, StoreStays
  <2> QED
    BY <1>1, <2>1
<1>7. ASSUME NEW n \in Node, HandleSIGHUP(n) PROVE StoreInv'
  <2>1. UNCHANGED pc /\ StoreStays /\ pc[n] = "running"
    BY <1>7 DEF HandleSIGHUP, bootVarsAround, diskVars, StoreStays
  <2>2. \A m \in Node : /\ pc[m] # "down" => SameStartup(cfg'[m], cfg[m])
                        /\ m # n /\ pc[m] # "down" => cfg'[m] = cfg[m]
    BY <1>7, ReloadKeepsStartup
  <2> QED
    BY <1>1, <2>1, <2>2 DEF SameStartup, BeforeServer
<1> QED
  BY <1>2, <1>3, <1>4, <1>5, <1>6, <1>7, StepKinds, ArchiveStep, ServerStoreStep, Zenon

\* For any number of peers, boots, crashes and changes of declared_size: a
\* server never runs on a store that the other mode wrote, and every store that
\* was ever made is in place or archived under a name of its own.
THEOREM StoresAlwaysKept == Spec => []StoresKept
<1>1. BootTypes /\ StoreInv => StoresKept
  <2> SUFFICES ASSUME BootTypes, StoreInv PROVE StoresKept
    OBVIOUS
  <2>1. NoStoreLost
    BY DEF NoStoreLost, StoreInv, PeerStore
  <2>2. ASSUME NEW n \in Node, server[n] # None
        PROVE  store[n] \in IF server[n].clustered THEN {"bare", "clustered"}
                            ELSE {"bare", "standalone"}
    <3>1. pc[n] \notin BeforeServer
      BY <2>2 DEF BootTypes, PeerTypes
    <3>2. server[n].clustered = (cfg[n].size > 1) /\ Fits(store[n], cfg[n].size > 1)
      BY <3>1 DEF BootTypes, PeerTypes, StoreInv, PeerStore
    <3> QED
      BY <3>2, Zenon DEF Fits
  <2> QED
    BY <2>1, <2>2 DEF StoresKept, StoreMatchesMode
<1> QED
  BY <1>1, StoreInit, StoreStep, TypesInvariance, PTL DEF Spec

-----------------------------------------------------------------------------
(* The managed blocks *)

\* A line of a file, the markers and initdb's own among them.
Line == STRING \cup {Begin, End, "own"}

Managed(n, f) == ~Malformed(conf[n][f]) /\ Body(conf[n][f]) = cfg[n].extras

\* The two files are done one after the other.
PeerConf(n) ==
  n \in scenario.nodes /\ pgdata[n] = "complete" =>
    /\ pc[n] = "conf2" \/ pc[n] \in AfterConf => Managed(n, 1)
    /\ pc[n] \in AfterConf => Managed(n, 2)

ConfInv ==
  /\ conf \in [Node -> [1 .. 2 -> Seq(Line)]]
  /\ pgdata \in [Node -> {"empty", "complete"}]
  /\ \A n \in Node : PeerConf(n)

\* No line is a marker.
Plain(s) == \A i \in 1 .. Len(s) : s[i] # Begin /\ s[i] # End

\* A file that is not malformed has no marker at all, or one of each in order.
LEMMA Markers ==
  ASSUME NEW s \in Seq(Line), ~Malformed(s)
  PROVE  \/ Where(s, Begin) = {} /\ Where(s, End) = {} /\ Plain(s)
         \/ \E b, e \in 1 .. Len(s) : Where(s, Begin) = {b} /\ Where(s, End) = {e} /\ b < e
<1>1. ASSUME NEW m \in {Begin, End}
      PROVE  Where(s, m) = {} \/ \E i \in 1 .. Len(s) : Where(s, m) = {i}
  BY DEF Malformed, Where
<1>2. CASE Where(s, Begin) = {} /\ Where(s, End) = {}
  BY <1>2 DEF Plain, Where
<1>3. ASSUME NEW b \in 1 .. Len(s), NEW e \in 1 .. Len(s),
             Where(s, Begin) = {b}, Where(s, End) = {e}
      PROVE  b < e
  <2>1. ~(e < b)
    BY <1>3 DEF Malformed
  <2>2. b # e
    BY <1>3 DEF Where, Begin, End
  <2> QED
    BY <2>1, <2>2
<1>4. (Where(s, Begin) = {}) <=> (Where(s, End) = {})
  BY DEF Malformed
<1> QED
  BY <1>1, <1>2, <1>3, <1>4

\* A part of a sequence, recognised by its elements.
LEMMA Slice ==
  ASSUME NEW s \in Seq(Line), NEW m \in Nat, NEW n \in Nat, m >= 1, n <= Len(s),
         NEW u \in Seq(Line), Len(u) = n - m + 1, \A i \in 1 .. Len(u) : s[m + i - 1] = u[i]
  PROVE  SubSeq(s, m, n) = u
<1>3. /\ SubSeq(s, m, n) \in Seq(Line)
      /\ Len(SubSeq(s, m, n)) = Len(u)
      /\ \A i \in 1 .. n - m + 1 : SubSeq(s, m, n)[i] = s[m + i - 1]
  OBVIOUS
<1> QED
  BY <1>3

\* Two sequences, one after the other.
LEMMA Joined ==
  ASSUME NEW S, NEW a \in Seq(S), NEW b \in Seq(S)
  PROVE  /\ a \o b \in Seq(S) /\ Len(a \o b) = Len(a) + Len(b)
         /\ \A i \in 1 .. Len(a) : (a \o b)[i] = a[i]
         /\ \A i \in 1 .. Len(b) : (a \o b)[Len(a) + i] = b[i]
         /\ \A i \in 1 .. Len(a \o b) : i \in 1 .. Len(a) \/ i - Len(a) \in 1 .. Len(b)
OBVIOUS

\* A block between two plain parts is well formed and holds the lines given.
LEMMA BlockBetween ==
  ASSUME NEW p \in Seq(Line), NEW x \in Seq(Line), NEW t \in Seq(Line),
         Plain(p), Plain(x), Plain(t), x # <<>>
  PROVE  /\ (p \o Block(x)) \o t \in Seq(Line) /\ ~Malformed((p \o Block(x)) \o t)
         /\ Body((p \o Block(x)) \o t) = x /\ Outside((p \o Block(x)) \o t) = p \o t
<1>1. PICK k : k = Block(x)
  OBVIOUS
<1>2. /\ k \in Seq(Line) /\ Len(k) = Len(x) + 2 /\ k[1] = Begin /\ k[Len(x) + 2] = End
      /\ \A i \in 1 .. Len(x) : k[i + 1] = x[i]
  <2>1. k = (<<Begin>> \o x) \o <<End>> /\ <<Begin>> \in Seq(Line) /\ <<End>> \in Seq(Line)
    BY <1>1 DEF Block, Line
  <2> QED
    BY <2>1
<1>3. PICK q : q = p \o k
  BY Zenon
<1>4. /\ q \in Seq(Line) /\ Len(q) = Len(p) + Len(k)
      /\ \A i \in 1 .. Len(p) : q[i] = p[i]
      /\ \A i \in 1 .. Len(k) : q[Len(p) + i] = k[i]
  <2>1. k \in Seq(Line)
    BY <1>2
  <2>2. /\ p \o k \in Seq(Line) /\ Len(p \o k) = Len(p) + Len(k)
        /\ \A i \in 1 .. Len(p) : (p \o k)[i] = p[i]
        /\ \A i \in 1 .. Len(k) : (p \o k)[Len(p) + i] = k[i]
    BY <2>1, Joined
  <2> QED
    BY <1>3, <2>2
<1>5. PICK r : r = q \o t
  BY Zenon
<1>6. /\ r \in Seq(Line) /\ Len(r) = Len(q) + Len(t)
      /\ \A i \in 1 .. Len(q) : r[i] = q[i]
      /\ \A i \in 1 .. Len(t) : r[Len(q) + i] = t[i]
  <2>1. q \in Seq(Line)
    BY <1>4
  <2>2. /\ q \o t \in Seq(Line) /\ Len(q \o t) = Len(q) + Len(t)
        /\ \A i \in 1 .. Len(q) : (q \o t)[i] = q[i]
        /\ \A i \in 1 .. Len(t) : (q \o t)[Len(q) + i] = t[i]
    BY <2>1, Joined
  <2> QED
    BY <1>5, <2>2
<1>7. PICK b \in Nat, e \in Nat : b = Len(p) + 1 /\ e = Len(p) + Len(x) + 2
  OBVIOUS
<1>8. /\ b < e /\ b >= 1 /\ Len(r) = e + Len(t)
      /\ \A i \in 1 .. b - 1 : r[i] = p[i]
      /\ r[b] = Begin /\ r[e] = End
      /\ \A i \in 1 .. Len(x) : r[b + i] = x[i]
      /\ \A i \in 1 .. Len(t) : r[e + i] = t[i]
  <2>1. b < e /\ b >= 1 /\ Len(q) = e /\ Len(r) = e + Len(t) /\ b - 1 = Len(p)
    BY <1>2, <1>4, <1>6, <1>7
  <2>2. \A i \in 1 .. Len(k) : r[Len(p) + i] = k[i]
    BY <1>2, <1>4, <1>6
  <2>3. r[b] = Begin /\ r[e] = End
    BY <1>2, <1>7, <2>2
  <2>4. \A i \in 1 .. Len(x) : r[b + i] = x[i]
    BY <1>2, <1>7, <2>2
  <2> QED
    <3>1. \A i \in 1 .. Len(p) : r[i] = p[i]
      BY <1>4, <1>6, <2>1
    <3> QED
      BY <1>6, <2>1, <2>3, <2>4, <3>1, Zenon
<1>9. \A i \in 1 .. Len(r) : i # b /\ i # e => r[i] # Begin /\ r[i] # End
  <2> TAKE i \in 1 .. Len(r)
  <2>1. CASE i \in 1 .. b - 1
    BY <2>1, <1>7, <1>8 DEF Plain
  <2>2. CASE i - b \in 1 .. Len(x)
    <3>1. r[b + (i - b)] = x[i - b] /\ b + (i - b) = i
      BY <2>2, <1>8
    <3> QED
      BY <2>2, <3>1, Zenon DEF Plain
  <2>3. CASE i - e \in 1 .. Len(t)
    <3>1. r[e + (i - e)] = t[i - e] /\ e + (i - e) = i
      BY <2>3, <1>8
    <3> QED
      BY <2>3, <3>1, Zenon DEF Plain
  <2>4. \/ i \in 1 .. b - 1 \/ i - b \in 1 .. Len(x) \/ i - e \in 1 .. Len(t) \/ i = b \/ i = e
    BY <1>7, <1>8
  <2> QED
    BY <2>1, <2>2, <2>3, <2>4
<1>10. Where(r, Begin) = {b} /\ Where(r, End) = {e}
  <2>1. b \in 1 .. Len(r) /\ e \in 1 .. Len(r) /\ Begin # End
    BY <1>8 DEF Begin, End
  <2>2. DOMAIN r = 1 .. Len(r)
    BY <1>6
  <2> QED
    BY <2>1, <2>2, <1>8, <1>9, Zenon DEF Where
<1>11. ~Malformed(r)
  BY <1>8, <1>10 DEF Malformed
<1>12. Body(r) = SubSeq(r, b + 1, e - 1) /\ SubSeq(r, b + 1, e - 1) = x
  <2>1. SubSeq(r, b + 1, e - 1) = x
    <3>1. \A i \in 1 .. Len(x) : (b + 1) + i - 1 = b + i
      OBVIOUS
    <3>2. /\ r \in Seq(Line) /\ b + 1 \in Nat /\ e - 1 \in Nat /\ b + 1 >= 1 /\ e - 1 <= Len(r)
          /\ Len(x) = (e - 1) - (b + 1) + 1
      BY <1>6, <1>7, <1>8
    <3> QED
      BY <1>8, <3>1, <3>2, Slice
  <2> QED
    BY <1>10, <2>1, Zenon DEF Body
<1>13. Outside(r) = SubSeq(r, 1, b - 1) \o SubSeq(r, e + 1, Len(r))
  BY <1>10, <1>11, Zenon DEF Outside
<1>14. SubSeq(r, 1, b - 1) = p
  BY <1>6, <1>7, <1>8, Slice
<1>15. SubSeq(r, e + 1, Len(r)) = t
  <2>1. \A i \in 1 .. Len(t) : (e + 1) + i - 1 = e + i
    OBVIOUS
  <2>2. /\ r \in Seq(Line) /\ e + 1 \in Nat /\ e + 1 >= 1
        /\ Len(r) \in Nat /\ Len(r) <= Len(r) /\ Len(t) = Len(r) - (e + 1) + 1
    <3>1. Len(r) = e + Len(t) /\ Len(t) \in Nat
      BY <1>8
    <3>2. r \in Seq(Line)
      BY <1>6
    <3> QED
      BY <3>1, <3>2
  <2> QED
    BY <1>8, <2>1, <2>2, Slice
<1> QED
  BY <1>1, <1>3, <1>5, <1>6, <1>11, <1>12, <1>13, <1>14, <1>15, Zenon

\* A file without markers has no block.
LEMMA NoBlock ==
  ASSUME NEW s \in Seq(Line), Plain(s)
  PROVE  ~Malformed(s) /\ Body(s) = <<>> /\ Outside(s) = s
<1>1. Where(s, Begin) = {} /\ Where(s, End) = {}
  BY DEF Where, Plain
<1>2. ~Malformed(s)
  BY <1>1 DEF Malformed
<1> QED
  BY <1>1, <1>2 DEF Body, Outside

\* Two files without markers, one after the other, have none.
LEMMA PlainConcat ==
  ASSUME NEW s \in Seq(Line), NEW t \in Seq(Line), Plain(s), Plain(t)
  PROVE  s \o t \in Seq(Line) /\ Plain(s \o t)
<1>1. ASSUME NEW i \in 1 .. Len(s \o t) PROVE (s \o t)[i] # Begin /\ (s \o t)[i] # End
  <2>1. CASE i \in 1 .. Len(s)
    BY <2>1, Joined DEF Plain
  <2>2. CASE i - Len(s) \in 1 .. Len(t)
    <3>1. (s \o t)[Len(s) + (i - Len(s))] = t[i - Len(s)] /\ Len(s) + (i - Len(s)) = i
      BY <2>2, Joined
    <3> QED
      BY <2>2, <3>1 DEF Plain
  <2> QED
    BY <2>1, <2>2, Joined
<1> QED
  BY <1>1, Joined DEF Plain

\* applyManagedBlock: whatever well-formed file it is given, the result is
\* well formed, holds exactly the lines given, and nothing else has changed.
LEMMA ApplyCorrect ==
  ASSUME NEW s \in Seq(Line), ~Malformed(s), NEW x \in Seq(Line), Plain(x)
  PROVE  /\ ApplyManagedBlock(s, x) \in Seq(Line) /\ ~Malformed(ApplyManagedBlock(s, x))
         /\ Body(ApplyManagedBlock(s, x)) = x
         /\ Outside(ApplyManagedBlock(s, x)) = Outside(s)
<1>1. PICK p \in Seq(Line), t \in Seq(Line) :
        /\ Plain(p) /\ Plain(t)
        /\ Outside(s) = p \o t
        /\ ApplyManagedBlock(s, x) = (p \o Block(x)) \o t
  <2>1. CASE Where(s, Begin) = {} /\ Where(s, End) = {} /\ Plain(s)
    <3>1. Outside(s) = s /\ ApplyManagedBlock(s, x) = s \o Block(x)
      BY <2>1 DEF Outside, ApplyManagedBlock
    <3>2. Block(x) \in Seq(Line)
      <4>1. <<Begin>> \in Seq(Line) /\ <<End>> \in Seq(Line)
        BY DEF Line
      <4> QED
        BY <4>1 DEF Block
    <3>3. /\ <<>> \in Seq(Line) /\ Plain(<<>>)
          /\ s \o <<>> = s /\ (s \o Block(x)) \o <<>> = s \o Block(x)
      BY <3>2 DEF Plain
    <3> QED
      BY <2>1, <3>1, <3>3, Zenon
  <2>2. CASE \E b, e \in 1 .. Len(s) : Where(s, Begin) = {b} /\ Where(s, End) = {e} /\ b < e
    <3>1. PICK b \in 1 .. Len(s), e \in 1 .. Len(s) :
            Where(s, Begin) = {b} /\ Where(s, End) = {e} /\ b < e
      BY <2>2
    <3>2. PICK p, t : p = SubSeq(s, 1, b - 1) /\ t = SubSeq(s, e + 1, Len(s))
      BY Zenon
    <3>3. /\ Outside(s) = p \o t
          /\ ApplyManagedBlock(s, x) = (p \o Block(x)) \o t
      BY <3>1, <3>2, Zenon DEF Outside, ApplyManagedBlock
    <3>4. \A i \in 1 .. Len(s) : i # b /\ i # e => s[i] # Begin /\ s[i] # End
      BY <3>1 DEF Where
    <3>5. /\ p \in Seq(Line) /\ Len(p) = b - 1 /\ \A i \in 1 .. b - 1 : p[i] = s[i]
          /\ t \in Seq(Line) /\ Len(t) = Len(s) - e /\ \A i \in 1 .. Len(s) - e : t[i] = s[e + i]
      BY <3>2
    <3>6. Plain(p)
      <4>1. \A i \in 1 .. b - 1 : i \in 1 .. Len(s) /\ i # b /\ i # e
        BY <3>1
      <4> QED
        BY <4>1, <3>4, <3>5 DEF Plain
    <3>7. Plain(t)
      <4>1. ASSUME NEW i \in 1 .. Len(t) PROVE t[i] # Begin /\ t[i] # End
        <5>1. t[i] = s[e + i] /\ e + i \in 1 .. Len(s) /\ e + i # b /\ e + i # e
          BY <3>1, <3>5
        <5> QED
          BY <5>1, <3>4
      <4> QED
        BY <4>1 DEF Plain
    <3> QED
      BY <3>3, <3>5, <3>6, <3>7, Zenon
  <2> QED
    BY <2>1, <2>2, Markers, Zenon
<1>2. CASE x = <<>>
  <2>1. Block(x) = <<>> /\ p \o <<>> = p
    BY <1>2 DEF Block
  <2>2. ApplyManagedBlock(s, x) = p \o t
    BY <2>1, <1>1
  <2>3. p \o t \in Seq(Line) /\ Plain(p \o t)
    BY <1>1, PlainConcat
  <2> QED
    BY <2>2, <2>3, <1>1, <1>2, NoBlock, Zenon
<1>3. CASE x # <<>>
  <2>1. /\ (p \o Block(x)) \o t \in Seq(Line) /\ ~Malformed((p \o Block(x)) \o t)
        /\ Body((p \o Block(x)) \o t) = x /\ Outside((p \o Block(x)) \o t) = p \o t
    <3>1. Plain(p) /\ Plain(t)
      BY <1>1
    <3> QED
      BY <3>1, <1>3, BlockBetween
  <2> QED
    BY <2>1, <1>1
<1> QED
  BY <1>2, <1>3

\* A sequence over a set is one over a larger set.
LEMMA SeqWider ==
  ASSUME NEW S, NEW T, S \subseteq T, NEW s \in Seq(S)
  PROVE  s \in Seq(T) /\ DOMAIN s = 1 .. Len(s)
OBVIOUS

\* The lines of a configuration are no markers.
LEMMA ExtrasPlain ==
  ASSUME PlainLines, BootTypes, NEW n \in Node, pc[n] # "down"
  PROVE  cfg[n].extras \in Seq(Line) /\ Plain(cfg[n].extras)
<1>1. PICK c \in {scenario.start[n]} \cup scenario.writes : SameStartup(cfg[n], c)
  BY DEF BootTypes, PeerTypes
<1>2. c \in Configs /\ c \in Configuration
  BY <1>1, ScenariosAssumption, ConfigsAssumption DEF BootTypes
<1>3. c.extras \in Seq(STRING) /\ STRING \subseteq Line
  BY <1>2 DEF Configuration, Line
<1>4. c.extras \in Seq(Line) /\ DOMAIN c.extras = 1 .. Len(c.extras)
  <2>1. c.extras \in Seq(Line)
    BY <1>3, SeqWider, Zenon
  <2> QED
    BY <1>3, <2>1, SeqWider, Zenon
<1>5. Plain(c.extras)
  BY <1>2, <1>4 DEF Plain, PlainLines
<1> QED
  BY <1>1, <1>4, <1>5 DEF SameStartup

\* A peer whose files, database and lines are as before, and that got no further.
LEMMA ConfKept ==
  ASSUME NEW m \in Node, PeerConf(m), scenario' = scenario,
         conf'[m] = conf[m], pgdata'[m] = pgdata[m],
         pc'[m] = "conf2" \/ pc'[m] \in AfterConf => cfg'[m].extras = cfg[m].extras,
         pc'[m] = "conf2" => pc[m] = "conf2" \/ pc[m] \in AfterConf,
         pc'[m] \in AfterConf => pc[m] \in AfterConf
  PROVE  PeerConf(m)'
BY Zenon DEF PeerConf, Managed

\* At the outset no peer that may boot is past the gates with a database.
LEMMA ConfInit == Init => ConfInv
<1> SUFFICES ASSUME Init PROVE ConfInv
  OBVIOUS
<1>1. /\ scenario.pgdata \in {"empty", "complete"} /\ scenario.confs \subseteq Seq(STRING)
      /\ scenario.pgdata = "complete" => scenario.up \cap scenario.nodes = {}
  BY ScenariosAssumption DEF Init
<1>2. PICK c1, c2 \in scenario.confs : conf = [n \in Node |-> <<c1, c2>>]
  BY DEF Init
<1>3. c1 \in Seq(Line) /\ c2 \in Seq(Line)
  <2>1. c1 \in Seq(STRING) /\ c2 \in Seq(STRING) /\ STRING \subseteq Line
    BY <1>1, <1>2 DEF Line
  <2> QED
    BY <2>1, SeqWider, Zenon
<1>4. <<c1, c2>> \in [1 .. 2 -> Seq(Line)]
  BY <1>3
<1>5. conf \in [Node -> [1 .. 2 -> Seq(Line)]] /\ pgdata \in [Node -> {"empty", "complete"}]
  BY <1>1, <1>2, <1>4 DEF Init
<1>6. ASSUME NEW n \in Node PROVE PeerConf(n)
  BY <1>1 DEF PeerConf, Init, AfterConf
<1> QED
  BY <1>5, <1>6 DEF ConfInv

\* One file of applyManagedConf.
LEMMA ApplyStep ==
  ASSUME PlainLines, BootTypes, ConfInv, NEW n \in Node, NEW f \in 1 .. 2, NEW next,
         \/ f = 1 /\ pc[n] = "conf1" /\ next = "conf2"
         \/ f = 2 /\ pc[n] = "conf2" /\ next = "load",
         ApplyFile(n, f, next)
  PROVE  /\ ConfInv'
         /\ \A m \in Node, g \in 1 .. 2 : Outside(conf'[m][g]) = Outside(conf[m][g])
<1> USE DEF ConfInv
<1>1. /\ pc' = [pc EXCEPT ![n] = next] /\ UNCHANGED <<scenario, pgdata, cfg>>
      /\ pc'[n] = next /\ pc[n] # "down"
      /\ \A m \in Node \ {n} : pc'[m] = pc[m]
  BY DEF ApplyFile, GoTo, BootTypes, reloadVars
<1>2. cfg[n].extras \in Seq(Line) /\ Plain(cfg[n].extras)
  BY <1>1, ExtrasPlain
<1>3. CASE pgdata[n] = "complete"
  <2>1. /\ ~Malformed(conf[n][f]) /\ conf[n][f] \in Seq(Line)
        /\ conf' = [conf EXCEPT ![n][f] = ApplyManagedBlock(@, cfg[n].extras)]
    BY <1>3 DEF ApplyFile
  <2>2. PICK r : r = ApplyManagedBlock(conf[n][f], cfg[n].extras)
    OBVIOUS
  <2>3. /\ r \in Seq(Line) /\ ~Malformed(r) /\ Body(r) = cfg[n].extras
        /\ Outside(r) = Outside(conf[n][f])
    BY <2>1, <2>2, <1>2, ApplyCorrect
  <2>4. /\ conf' \in [Node -> [1 .. 2 -> Seq(Line)]] /\ conf'[n][f] = r
        /\ \A g \in 1 .. 2 : g # f => conf'[n][g] = conf[n][g]
        /\ \A m \in Node \ {n} : conf'[m] = conf[m]
    <3>1. conf' = [conf EXCEPT ![n] = [conf[n] EXCEPT ![f] = r]]
      BY <2>1, <2>2
    <3>2. conf[n] \in [1 .. 2 -> Seq(Line)]
      OBVIOUS
    <3>3. [conf[n] EXCEPT ![f] = r] \in [1 .. 2 -> Seq(Line)]
      BY <3>2, <2>3
    <3> QED
      BY <3>1, <3>2, <3>3
  <2>5. Managed(n, f)'
    BY <2>3, <2>4, <1>1 DEF Managed
  <2>6. PeerConf(n)'
    <3>1. CASE f = 1 /\ pc[n] = "conf1" /\ next = "conf2"
      BY <3>1, <2>5, <1>1 DEF PeerConf, AfterConf
    <3>2. CASE f = 2 /\ pc[n] = "conf2" /\ next = "load"
      <4>1. Managed(n, 1)' <=> Managed(n, 1)
        BY <3>2, <2>4, <1>1 DEF Managed
      <4> QED
        BY <3>2, <4>1, <2>5, <1>1, <1>3 DEF PeerConf
    <3> QED
      BY <3>1, <3>2
  <2>7. ASSUME NEW m \in Node, m # n PROVE PeerConf(m)'
    BY <2>7, <2>4, <1>1, ConfKept
  <2>8. \A m \in Node, g \in 1 .. 2 : Outside(conf'[m][g]) = Outside(conf[m][g])
    <3> TAKE m \in Node, g \in 1 .. 2
    <3>1. CASE m = n /\ g = f
      BY <3>1, <2>3, <2>4
    <3>2. CASE ~(m = n /\ g = f)
      <4>1. conf'[m][g] = conf[m][g]
        BY <3>2, <2>4
      <4> QED
        BY <4>1
    <3> QED
      BY <3>1, <3>2
  <2> QED
    BY <2>4, <2>6, <2>7, <2>8, <1>1
<1>4. CASE pgdata[n] # "complete"
  <2>1. UNCHANGED conf
    BY <1>4 DEF ApplyFile
  <2>2. PeerConf(n)'
    BY <1>1, <1>4 DEF PeerConf
  <2>3. ASSUME NEW m \in Node, m # n PROVE PeerConf(m)'
    BY <2>3, <2>1, <1>1, ConfKept
  <2> QED
    BY <2>1, <2>2, <2>3, <1>1
<1> QED
  BY <1>3, <1>4

\* PostInitDB on fresh files.
LEMMA InitDBStep ==
  ASSUME PlainLines, BootTypes, ConfInv, NEW n \in Node, InitDB(n)
  PROVE  /\ ConfInv'
         /\ pgdata[n] # "complete" /\ \A m \in Node \ {n} : conf'[m] = conf[m]
<1> USE DEF ConfInv
<1>1. /\ pc[n] = "running" /\ pgdata[n] = "empty" /\ pgdata' = [pgdata EXCEPT ![n] = "complete"]
      /\ conf' = [conf EXCEPT ![n] = [f \in 1 .. 2 |-> ApplyManagedBlock(<<"own">>, cfg[n].extras)]]
      /\ UNCHANGED <<scenario, pc, cfg>>
  BY DEF InitDB, reloadVars
<1>2. cfg[n].extras \in Seq(Line) /\ Plain(cfg[n].extras)
  BY <1>1, ExtrasPlain
<1>3. <<"own">> \in Seq(Line) /\ ~Malformed(<<"own">>)
  <2>1. "own" \in Line /\ "own" # Begin /\ "own" # End
    BY DEF Line, Begin, End
  <2>2. <<"own">> \in Seq(Line) /\ Len(<<"own">>) = 1 /\ <<"own">>[1] = "own"
    BY <2>1
  <2>3. Plain(<<"own">>)
    BY <2>1, <2>2 DEF Plain
  <2> QED
    BY <2>2, <2>3, NoBlock, Zenon
<1>4. PICK r : r = ApplyManagedBlock(<<"own">>, cfg[n].extras)
  OBVIOUS
<1>5. r \in Seq(Line) /\ ~Malformed(r) /\ Body(r) = cfg[n].extras
  <2>1. LET a == ApplyManagedBlock(<<"own">>, cfg[n].extras)
        IN  a \in Seq(Line) /\ ~Malformed(a) /\ Body(a) = cfg[n].extras
    BY <1>2, <1>3, ApplyCorrect, Zenon
  <2> QED
    BY <2>1, <1>4
<1>6. /\ conf' \in [Node -> [1 .. 2 -> Seq(Line)]] /\ pgdata' \in [Node -> {"empty", "complete"}]
      /\ \A f \in 1 .. 2 : conf'[n][f] = r
      /\ \A m \in Node \ {n} : conf'[m] = conf[m] /\ pgdata'[m] = pgdata[m]
  <2>1. conf' = [conf EXCEPT ![n] = [f \in 1 .. 2 |-> r]]
    BY <1>1, <1>4
  <2> QED
    BY <2>1, <1>1, <1>5
<1>7. PeerConf(n)'
  BY <1>1, <1>5, <1>6 DEF PeerConf, Managed
<1>8. ASSUME NEW m \in Node, m # n PROVE PeerConf(m)'
  BY <1>8, <1>6, <1>1, ConfKept
<1> QED
  BY <1>1, <1>6, <1>7, <1>8

\* The steps of all peers.
LEMMA ConfStep ==
  ASSUME PlainLines, BootTypes, ConfInv, [Next]_vars
  PROVE  /\ ConfInv'
         /\ \A n \in Node, f \in 1 .. 2 :
              pgdata[n] = "complete" => Outside(conf'[n][f]) = Outside(conf[n][f])
<1> USE DEF ConfInv
<1>1. ASSUME UNCHANGED <<scenario, conf, pgdata>>,
             \A m \in Node : /\ pc'[m] = "conf2" => pc[m] = "conf2"
                             /\ pc'[m] \in AfterConf => pc[m] \in AfterConf
                             /\ pc'[m] = "conf2" \/ pc'[m] \in AfterConf => cfg'[m].extras = cfg[m].extras
      PROVE  ConfInv'
  <2>1. ASSUME NEW m \in Node PROVE PeerConf(m)'
    BY <1>1, ConfKept, Zenon
  <2> QED
    BY <2>1, <1>1
<1>2. CASE UNCHANGED vars
  <2>1. UNCHANGED <<scenario, conf, pgdata, pc, cfg>>
    BY <1>2 DEF vars, diskVars, reloadVars
  <2> QED
    BY <1>1, <2>1
<1>3. ASSUME NEW n \in Node, BootStart(n)
      PROVE  ConfInv' /\ UNCHANGED conf
  <2>1. /\ pc' = [pc EXCEPT ![n] = "store"] /\ cfg' = [cfg EXCEPT ![n] = file[n]]
        /\ UNCHANGED <<scenario, pgdata, conf>>
    BY <1>3 DEF BootStart, GoTo, diskVars
  <2>2. pc'[n] = "store" /\ \A m \in Node \ {n} : pc'[m] = pc[m] /\ cfg'[m] = cfg[m]
    BY <2>1 DEF BootTypes
  <2> QED
    BY <1>1, <2>1, <2>2 DEF AfterConf
<1>4. ASSUME NEW n \in Node, NEW g \in Phases, Beside(n, g)
      PROVE  ConfInv' /\ UNCHANGED conf
  <2>1. \A m \in Node : /\ pc'[m] = "conf2" => pc[m] = "conf2"
                        /\ pc'[m] \in AfterConf => pc[m] \in AfterConf
    BY <1>4 DEF Beside, AfterSignal, AfterConf, BootTypes
  <2>2. UNCHANGED <<scenario, pgdata, conf, cfg>>
    BY <1>4 DEF Beside, DataStays
  <2> QED
    BY <1>1, <2>1, <2>2
<1>5. ASSUME NEW n \in Node, EnsureStandbySignal(n)
      PROVE  ConfInv' /\ UNCHANGED conf
  <2>1. pc' = [pc EXCEPT ![n] = "conf1"] /\ UNCHANGED <<scenario, pgdata, conf, cfg>>
    BY <1>5 DEF EnsureStandbySignal, GoTo, reloadVars
  <2>2. \A m \in Node : /\ pc'[m] = "conf2" => pc[m] = "conf2"
                        /\ pc'[m] \in AfterConf => pc[m] \in AfterConf
    BY <2>1 DEF AfterConf, BootTypes
  <2> QED
    BY <1>1, <2>1, <2>2
<1>6. ASSUME NEW n \in Node, ApplyConf(n) \/ ApplyHBA(n)
      PROVE  ConfInv' /\ \A m \in Node, f \in 1 .. 2 : Outside(conf'[m][f]) = Outside(conf[m][f])
  <2>1. CASE ApplyConf(n)
    <3>1. pc[n] = "conf1" /\ ApplyFile(n, 1, "conf2") /\ 1 \in 1 .. 2
      BY <2>1 DEF ApplyConf
    <3> QED
      BY <3>1, ApplyStep, Zenon
  <2>2. CASE ApplyHBA(n)
    <3>1. pc[n] = "conf2" /\ ApplyFile(n, 2, "load") /\ 2 \in 1 .. 2
      BY <2>2 DEF ApplyHBA
    <3> QED
      BY <3>1, ApplyStep, Zenon
  <2> QED
    BY <1>6, <2>1, <2>2
<1>7. ASSUME NEW n \in Node, StopsOrCrashes(n)
      PROVE  ConfInv' /\ UNCHANGED conf
  <2>1. /\ pc' = [pc EXCEPT ![n] = "down"] /\ cfg' = [cfg EXCEPT ![n] = None]
        /\ UNCHANGED <<scenario, pgdata, conf>>
    BY <1>7 DEF StopsOrCrashes, GoTo, diskVars
  <2>2. pc'[n] = "down" /\ \A m \in Node \ {n} : pc'[m] = pc[m] /\ cfg'[m] = cfg[m]
    BY <2>1 DEF BootTypes
  <2> QED
    BY <1>1, <2>1, <2>2 DEF AfterConf
<1>8. ASSUME NEW n \in Node,
             LateWrite(n) \/ StartPostgres(n) \/ Promote(n) \/ PostgresStops(n) \/ Edit(n) \/ Signal(n)
      PROVE  ConfInv' /\ UNCHANGED conf
  <2>1. UNCHANGED <<scenario, pc, pgdata, conf, cfg>>
    BY <1>8 DEF LateWrite, StartPostgres, Promote, PostgresStops, Edit, OperatorEdits, Signal,
                OperatorSignals, bootVarsAround, diskVars, reloadVars
  <2> QED
    BY <1>1, <2>1
<1>9. ASSUME NEW n \in Node, HandleSIGHUP(n)
      PROVE  ConfInv' /\ UNCHANGED conf
  <2>1. UNCHANGED <<scenario, pc, pgdata, conf>>
    BY <1>9 DEF HandleSIGHUP, bootVarsAround, diskVars
  <2>2. \A m \in Node : pc[m] # "down" => cfg'[m].extras = cfg[m].extras
    BY <1>9, ReloadKeepsStartup DEF SameStartup
  <2> QED
    BY <1>1, <2>1, <2>2 DEF AfterConf
<1>10. CASE Next
  <2>1. PICK n \in Node :
          \/ BootStart(n) \/ BootStep(n) \/ AttemptLost(n) \/ LateWrite(n) \/ StopsOrCrashes(n)
          \/ InitDB(n) \/ StartPostgres(n) \/ Promote(n) \/ PostgresStops(n)
          \/ Edit(n) \/ Signal(n) \/ HandleSIGHUP(n)
    BY <1>10, Zenon DEF Next
  <2>2. ASSUME BootStep(n) \/ AttemptLost(n)
        PROVE  ConfInv' /\ \A m \in Node, f \in 1 .. 2 : Outside(conf'[m][f]) = Outside(conf[m][f])
    BY <2>2, <1>4, <1>5, <1>6, GateData
  <2>3. CASE InitDB(n)
    <3>1. /\ ConfInv' /\ pgdata[n] # "complete" /\ \A m \in Node \ {n} : conf'[m] = conf[m]
      BY <2>3, InitDBStep
    <3>2. ASSUME NEW m \in Node, NEW f \in 1 .. 2, pgdata[m] = "complete"
          PROVE  Outside(conf'[m][f]) = Outside(conf[m][f])
      <4>1. conf'[m] = conf[m]
        BY <3>1, <3>2
      <4> QED
        BY <4>1
    <3> QED
      BY <3>1, <3>2
  <2> QED
    BY <2>1, <2>2, <2>3, <1>3, <1>7, <1>8, <1>9
<1> QED
  BY <1>2, <1>10 DEF vars, diskVars

\* For any files, lines and number of peers, as long as no configured line is a
\* marker, and through any partial boot: past the gates the files of a database
\* hold the configured lines, and what is outside the markers is never touched.
THEOREM ManagedBlocksKept ==
  ASSUME PlainLines
  PROVE  Spec => ManagedBlocks
<1>1. ConfInv => ConfOnDisk
  <2> SUFFICES ASSUME ConfInv, NEW n \in Node, pc[n] \in AfterConf, pgdata[n] = "complete",
                      n \in scenario.nodes
               PROVE  \A f \in 1 .. 2 : Managed(n, f)
    BY DEF ConfOnDisk, AfterConf, Managed
  <2>1. Managed(n, 1) /\ Managed(n, 2)
    BY DEF ConfInv, PeerConf
  <2>2. \A f \in 1 .. 2 : f = 1 \/ f = 2
    OBVIOUS
  <2> QED
    BY <2>1, <2>2
<1>2. BootTypes /\ ConfInv /\ [Next]_vars
        => /\ ConfInv'
           /\ [\A n \in Node, f \in 1 .. 2 :
                 pgdata[n] = "complete" => Outside(conf'[n][f]) = Outside(conf[n][f])]_vars
  BY ConfStep
<1> QED
  BY <1>1, <1>2, ConfInit, TypesInvariance, PTL DEF Spec, ManagedBlocks

=============================================================================
