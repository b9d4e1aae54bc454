------------------------------ MODULE MCPgmctl ------------------------------
(***************************************************************************)
(* Three nodes, thirteen first shapes of the cluster and the commands that *)
(* matter on each.  The contexts file is edited while a cluster-affecting  *)
(* command starts; otherwise the cluster moves and the file stands still.  *)
(***************************************************************************)
EXTENDS Pgmctl

CONSTANTS n1, n2, n3, A, B, eA, eB, prod, test

MCEdits ==
    {[id |-> 1, op |-> "set", name |-> prod, endpoint |-> eB, pin |-> Nil, force |-> FALSE],
     [id |-> 2, op |-> "delete", name |-> prod, endpoint |-> Nil, pin |-> Nil, force |-> TRUE],
     [id |-> 3, op |-> "use", name |-> test, endpoint |-> Nil, pin |-> Nil, force |-> FALSE]}

MCFile == [kind |-> "ok", current |-> prod,
           ctxs |-> (prod :> [endpoint |-> eA, pin |-> A] @@ test :> [endpoint |-> eB, pin |-> B])]

MCUnpinned == [kind |-> "ok", current |-> prod, ctxs |-> (prod :> [endpoint |-> eA, pin |-> Nil])]

Well == [healthy |-> TRUE, issues |-> {}]
RolesOf(p) == [n \in Node |-> IF n \in p THEN "primary" ELSE "standby"]

Shape0 == [role |-> RolesOf({n1}), state |-> [n \in Node |-> "running"], lease |-> n1, jw |-> NoWindow,
           diverged |-> {}, mismatch |-> FALSE, dg |-> Well, nats |-> "ready"]

Steady == Shape0
FailedOver == [Shape0 EXCEPT !.role = RolesOf({n1, n2}), !.state[n1] = "failed", !.lease = n2]
Crashed == [Shape0 EXCEPT !.state[n1] = "failed", !.lease = None]
Switching == [Shape0 EXCEPT !.role = RolesOf({}), !.state[n2] = "promoting", !.lease = n2]
StoppedStandby == [Shape0 EXCEPT !.state[n2] = "stopped"]
FencedStandby == [Shape0 EXCEPT !.state[n3] = "fenced", !.nats = "absent"]
Warned == [Shape0 EXCEPT !.dg = [healthy |-> FALSE, issues |-> {0, 1}], !.nats = "absent"]
Diverged == [Shape0 EXCEPT !.diverged = {n3}, !.dg = [healthy |-> FALSE, issues |-> {1, 3}], !.nats = "not_ready"]
Strangers == [Shape0 EXCEPT !.mismatch = TRUE, !.dg = [healthy |-> FALSE, issues |-> {}]]

Peer(n, l) == [node |-> n, fenced |-> FALSE, complete |-> TRUE, lsn |-> l]
Window == [Shape0 EXCEPT !.state[n1] = "stopped", !.lease = None,
             !.jw = [publisher |-> n1, long |-> TRUE, peers |-> <<Peer(n1, 5), Peer(n2, 3), Peer(n3, 2)>>]]
WindowFresh == [Window EXCEPT !.jw.long = FALSE]
WindowHeld == [Window EXCEPT !.state[n1] = "running", !.lease = n1]
WindowAlone == [Window EXCEPT !.jw.peers = <<Peer(n1, 5), [Peer(n2, 3) EXCEPT !.complete = FALSE], Peer(n3, -1)>>]

NoFlags == [endpoint |-> Nil, context |-> Nil, env |-> Nil]
Base == [op |-> "status", target |-> n1, yes |-> FALSE, force |-> FALSE, tty |-> TRUE, cluster |-> Nil,
         flags |-> NoFlags, strict |-> FALSE, wait |-> FALSE, replace |-> FALSE, subject |-> "none",
         badArgs |-> FALSE, shape |-> Steady, file |-> MCFile, edits |-> FALSE, budget |-> 0]

Plain == {Steady, FailedOver, Crashed, Switching, FencedStandby, StoppedStandby}
Odd == {Warned, Diverged, Strangers, Window, WindowFresh, WindowHeld, WindowAlone}

ReportScenarios ==
    {[Base EXCEPT !.op = o, !.shape = sh, !.budget = 2] : o \in {"status", "health"}, sh \in Plain}
    \cup {[Base EXCEPT !.op = o, !.shape = sh, !.strict = TRUE, !.budget = 1] :
       o \in {"status", "health"}, sh \in Plain \cup Odd}
    \cup {[Base EXCEPT !.op = "explain", !.subject = su, !.target = n, !.shape = sh, !.budget = 1] :
       su \in {"node-not-promoting", "replication-broken", "current-state"}, n \in {n1, n3},
       sh \in {FailedOver, Switching, FencedStandby}}

DoctorScenarios ==
    {[Base EXCEPT !.op = "doctor", !.shape = sh, !.strict = st] : sh \in Plain \cup Odd, st \in BOOLEAN}
    \cup {[Base EXCEPT !.op = "doctor", !.shape = sh, !.budget = 1] : sh \in Plain \cup Odd}
    \cup {[Base EXCEPT !.op = "doctor", !.shape = FailedOver, !.budget = 2]}
    \cup {[Base EXCEPT !.op = "explain", !.subject = "failover-stuck", !.shape = sh, !.budget = 1] :
       sh \in {Steady, Crashed, Diverged}}

FenceScenarios ==
    {[Base EXCEPT !.op = o, !.target = n, !.force = f, !.yes = y, !.shape = sh, !.budget = 2] :
       o \in {"fence"}, n \in {n1, n2}, f \in BOOLEAN, y \in {TRUE}, sh \in {Steady, FailedOver, Switching}}
    \cup {[Base EXCEPT !.op = o, !.target = n3, !.tty = t, !.shape = FencedStandby, !.budget = 1, !.badArgs = b] :
       o \in {"unfence", "set-config", "cancel"}, t \in BOOLEAN, b \in BOOLEAN}

PromoteScenarios ==
    {[Base EXCEPT !.op = "promote", !.target = n, !.wait = w, !.replace = r, !.shape = sh, !.budget = b] :
       n \in {n2, n3}, w \in {TRUE}, r \in {FALSE}, sh \in {Window}, b \in {3}}
    \cup {[Base EXCEPT !.op = "promote", !.target = n, !.badArgs = a, !.shape = sh, !.budget = 1] :
       n \in {n1, n2}, a \in BOOLEAN, sh \in {Steady, WindowFresh, WindowHeld}}

FlagScenarios ==
    {[Base EXCEPT !.op = o, !.yes = y, !.force = f, !.tty = t, !.cluster = c, !.file = fi, !.flags = fl,
                  !.budget = 1] :
       o \in {"failover", "switchover"}, y \in BOOLEAN, f \in BOOLEAN, t \in BOOLEAN, c \in {Nil, A, B},
       fi \in {MCFile, MCUnpinned, Missing},
       fl \in {NoFlags, [NoFlags EXCEPT !.env = eB], [NoFlags EXCEPT !.context = test],
               [NoFlags EXCEPT !.endpoint = eB, !.context = prod], [NoFlags EXCEPT !.endpoint = eB]}}

EditScenarios ==
    {[Base EXCEPT !.op = "restart", !.cluster = c, !.force = f, !.edits = TRUE, !.flags = fl] :
       c \in {Nil, A}, f \in BOOLEAN, fl \in {NoFlags, [NoFlags EXCEPT !.env = eB], [NoFlags EXCEPT !.context = prod, !.env = eB]}}

MCScenarios ==
    ReportScenarios \cup DoctorScenarios \cup FenceScenarios \cup PromoteScenarios
    \cup FlagScenarios \cup EditScenarios
=============================================================================
