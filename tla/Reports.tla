------------------------------ MODULE Reports ------------------------------
(***************************************************************************)
(* What an operator is told about the cluster: the status aggregator that  *)
(* stitches the peers' fan-out replies into one Status                     *)
(* (internal/runtime/aggregator.go), the doctor's check catalog            *)
(* (internal/control/doctor_checks.go) and the verdicts pgmctl draws from  *)
(* them: doctor, status, health, explain and the promote preflight         *)
(* (internal/pgmctl/cmd).  Every definition is a function of the data it   *)
(* is given; Pgmctl.tla supplies the data, one request at a time.          *)
(*                                                                         *)
(* A reply is [node, ok, role, state, diverged]; a Status is               *)
(* [inst, primary, leader, jw, auth, mismatch], where inst is a sequence   *)
(* of [node, role, state, up, lag] and jw is NoWindow or                   *)
(* [publisher, holds, long, peers].  lag is a class: 0 below 1 MiB, 1 up   *)
(* to 64 MiB, 2 up to 1 GiB, 3 from there.                                 *)
(***************************************************************************)
EXTENDS Integers, Sequences, FiniteSets, SequencesExt

CONSTANTS None,      \* the empty node id
          NoWindow,  \* Status.JoinWindow = nil
          NoAuth     \* Status.PromotionAuthorization = nil

Transitional == {"init", "bootstrapping", "promoting", "demoting", "rewinding"}
States == Transitional \cup {"unknown", "running", "fenced", "failed", "stopped"}
Roles  == {"unknown", "primary", "standby"}

Worst(order, s) == CHOOSE x \in s : \A y \in s : order[x] >= order[y]

(***************************************************************************)
(* The aggregator.                                                         *)
(***************************************************************************)

\* statusResponderHandler: what a peer says of itself when asked.
PeerSlice(n, role, state, diverged) ==
    [node |-> n, ok |-> TRUE, role |-> role, state |-> state, diverged |-> diverged]

\* A peer that did not answer with a decodable payload (collect's ok = false).
NoReply(n) == [node |-> n, ok |-> FALSE, role |-> "unknown", state |-> "unknown", diverged |-> FALSE]

\* Mutant: a stopped peer counts as up.
PostgresUpStopped(r) == r.ok /\ r.state \notin {"failed", "unknown"}

PostgresUp(r) == r.ok /\ r.state \notin {"failed", "stopped", "unknown"}

Instance(r) == [node |-> r.node, role |-> r.role, state |-> r.state, up |-> PostgresUp(r), lag |-> 0]

\* The first reply that carries the primary label, whatever its state.
FirstPrimary(replies) ==
    LET labelled == {i \in DOMAIN replies : replies[i].ok /\ replies[i].role = "primary"}
    IN  IF labelled = {} THEN None
        ELSE replies[CHOOSE i \in labelled : \A j \in labelled : i <= j].node

\* EnrichStatus: a failed broadcast leaves the local status as it came.
EnrichStatus(local, collected, replies) ==
    IF ~collected THEN local
    ELSE [local EXCEPT !.inst = [i \in DOMAIN replies |-> Instance(replies[i])],
                       !.primary = IF @ = None THEN FirstPrimary(replies) ELSE @]

(***************************************************************************)
(* The doctor's catalog.                                                   *)
(***************************************************************************)

Instances(st) == Range(st.inst)
ReachableIdx(st) == {i \in DOMAIN st.inst : st.inst[i].state # "unknown"}

ActivePrimaries(st) ==
    {i \in DOMAIN st.inst : /\ st.inst[i].role = "primary"
                            /\ st.inst[i].state = "running" /\ st.inst[i].up}

\* Mutant: the persistent role label alone makes a primary.
LabelledPrimaryCheck(st) ==
    IF Cardinality({i \in DOMAIN st.inst : st.inst[i].role = "primary"}) = 1 THEN "PASS" ELSE "FAIL"

checkClusterHasPrimary(st) == IF Cardinality(ActivePrimaries(st)) = 1 THEN "PASS" ELSE "FAIL"

checkClusterHasLeader(st) == IF st.leader = None THEN "FAIL" ELSE "PASS"

Quorum(total) == (total \div 2) + 1

checkClusterQuorum(st) ==
    IF Len(st.inst) = 0 THEN "UNKNOWN"
    ELSE IF Cardinality(ReachableIdx(st)) >= Quorum(Len(st.inst)) THEN "PASS" ELSE "FAIL"

checkNodesAllReachable(st) ==
    IF \A i \in Instances(st) : i.state # "unknown" THEN "PASS" ELSE "WARN"

checkNodesNoFailedState(st) ==
    IF \A i \in Instances(st) : i.state # "failed" THEN "PASS" ELSE "FAIL"

checkPostgresResponding(st) ==
    IF \A i \in Instances(st) : i.state # "unknown" => i.up THEN "PASS" ELSE "FAIL"

checkReplicationLag(st) ==
    LET lags == {i.lag : i \in {j \in Instances(st) : j.role = "standby"}}
    IN  IF 3 \in lags THEN "FAIL" ELSE IF lags \cap {1, 2} # {} THEN "WARN" ELSE "PASS"

\* dg is [healthy, issues]; an issue is pg-manager's severity, 0 (info) to 3 (critical).
checkEngineDiagnose(dg) ==
    IF dg.healthy THEN "PASS" ELSE IF dg.issues \cap {2, 3} # {} THEN "FAIL" ELSE "WARN"

checkClusterIdentity(st) == IF st.mismatch THEN "FAIL" ELSE "PASS"

\* PeerTimelines returns the broadcast's error; EnrichStatus swallows it.
checkTimelineConsistent(collected, replies) ==
    IF ~collected THEN "UNKNOWN"
    ELSE IF \E r \in Range(replies) : r.ok /\ r.diverged THEN "FAIL" ELSE "PASS"

\* Mutant: the publisher itself is a candidate.
CandidatesWithPublisher(jw) ==
    {i \in DOMAIN jw.peers : /\ ~jw.peers[i].fenced
                             /\ jw.peers[i].complete /\ jw.peers[i].lsn >= 0}

\* A join-window peer is [node, fenced, complete, lsn]; lsn is -1 while it published none.
Candidates(jw) ==
    {i \in DOMAIN jw.peers : /\ jw.peers[i].node # jw.publisher /\ ~jw.peers[i].fenced
                             /\ jw.peers[i].complete /\ jw.peers[i].lsn >= 0}

\* The first of the candidates with the highest published LSN.
bestJoinWindowCandidate(jw) ==
    LET best == {i \in Candidates(jw) : \A j \in Candidates(jw) : jw.peers[i].lsn >= jw.peers[j].lsn}
    IN  IF best = {} THEN None ELSE jw.peers[CHOOSE i \in best : \A j \in best : i <= j].node

\* jw.long: silent for DefaultJoinWindowAbandonSilence or more.
checkJoinWindow(st) ==
    CASE st.jw = NoWindow                    -> "PASS"
      [] st.jw # NoWindow /\ st.auth # NoAuth -> "WARN"
      [] OTHER -> IF st.jw.holds THEN "PASS" ELSE IF st.jw.long THEN "FAIL" ELSE "WARN"

\* DefaultDoctorChecks, in catalog order.
DefaultDoctorChecks ==
    <<"has-primary", "has-leader", "quorum", "all-reachable", "no-failed-state", "responding",
      "lag", "diagnose", "identity", "timeline", "join-window">>

\* The checks that look at the stitched instances, as opposed to the local status alone.
FanoutChecks == {"has-primary", "quorum", "all-reachable", "no-failed-state", "responding", "lag", "timeline"}

StatusCheck(name, st) ==
    CASE name = "has-primary"     -> checkClusterHasPrimary(st)
      [] name = "has-leader"      -> checkClusterHasLeader(st)
      [] name = "quorum"          -> checkClusterQuorum(st)
      [] name = "all-reachable"   -> checkNodesAllReachable(st)
      [] name = "no-failed-state" -> checkNodesNoFailedState(st)
      [] name = "responding"      -> checkPostgresResponding(st)
      [] name = "lag"             -> checkReplicationLag(st)
      [] name = "identity"        -> checkClusterIdentity(st)
      [] name = "join-window"     -> checkJoinWindow(st)

(***************************************************************************)
(* pgmctl's verdicts.  Exit codes are those of cmd/exit.go.                *)
(***************************************************************************)

ExitOK == 0
ExitWarnStrict == 1
ExitUnhealthy == 2
ExitSubjectNA == 4
ExitUnknown == 5
ExitUsage == 64
ExitNetwork == 65
ExitConfig == 78
ExitTimeout == 124

WorstSeverity(sevs) ==
    Worst([PASS |-> 0, INFO |-> 1, WARN |-> 2, UNKNOWN |-> 3, FAIL |-> 4], sevs \cup {"PASS"})

doctorExitForReport(sevs, strict) ==
    LET w == WorstSeverity(sevs)
    IN  CASE w = "FAIL" -> ExitUnhealthy
          [] w = "UNKNOWN" -> ExitUnknown
          [] w = "WARN" -> IF strict THEN ExitWarnStrict ELSE ExitOK
          [] OTHER -> ExitOK

Healthy(i) == i.up /\ i.state = "running"

\* peerCounts, computeSubstrateQuorum.
Responding(st) == Cardinality(ReachableIdx(st))
HealthyCount(st) == Cardinality({i \in DOMAIN st.inst : Healthy(st.inst[i])})
Quorate(st) == Len(st.inst) > 0 /\ Responding(st) >= Quorum(Len(st.inst))

\* beliefsStale: the leader and the primary this node still names are unverifiable.
BeliefsStale(st) == Len(st.inst) > 0 /\ ~Quorate(st)

nodeSeverity(i) ==
    CASE i.state = "failed" -> "FAIL"
      [] i.state = "fenced" -> "WARN"
      [] i.state \notin {"failed", "fenced"} /\ ~i.up -> "FAIL"
      [] OTHER -> IF i.role = "standby" /\ i.lag >= 2
                  THEN IF i.lag = 3 THEN "FAIL" ELSE "WARN" ELSE "PASS"

StatusSeverities(st) ==
    {IF st.primary = None \/ BeliefsStale(st) THEN "FAIL" ELSE "PASS",
     IF st.leader = None \/ BeliefsStale(st) THEN "FAIL" ELSE "PASS",
     IF HealthyCount(st) = 0 \/ BeliefsStale(st) THEN "FAIL"
     ELSE IF HealthyCount(st) < Len(st.inst) \/ Responding(st) < Len(st.inst) THEN "WARN" ELSE "PASS"}
    \cup {nodeSeverity(i) : i \in Instances(st)}

\* renderStatus: the table form's exit code.
renderStatus(st, strict) ==
    CASE "FAIL" \in StatusSeverities(st) -> ExitUnhealthy
      [] "FAIL" \notin StatusSeverities(st) /\ "WARN" \in StatusSeverities(st)
           -> IF strict THEN ExitWarnStrict ELSE ExitOK
      [] OTHER -> ExitOK

severityFromPGManager(n) == CASE n = 0 -> "INFO" [] n = 1 -> "WARN" [] n = 2 -> "FAIL" [] OTHER -> "UNKNOWN"

rank == [PASS |-> 0, INFO |-> 1, WARN |-> 2, UNKNOWN |-> 2, FAIL |-> 3]

\* worstOf keeps the first line of the highest rank: order matters between WARN and UNKNOWN.
worstOf(lines) ==
    FoldLeft(LAMBDA worst, line : IF rank[line] > rank[worst] THEN line ELSE worst, "PASS", lines)

\* The issues' order in a Diagnosis only matters between WARN and critical, which rank alike;
\* they are taken by rising severity.
replicationSummary(dg) ==
    IF dg.healthy THEN "PASS"
    ELSE worstOf([k \in 1..Cardinality(dg.issues) |->
                    severityFromPGManager(SetToSortSeq(dg.issues, <)[k])])

peersHealth(st) ==
    CASE st.inst = <<>> -> "UNKNOWN"
      [] st.inst # <<>> /\ \E i \in Instances(st) : (i.state = "failed" \/ (i.state = "running" /\ ~i.up)) -> "FAIL"
      [] OTHER -> IF \A i \in Instances(st) : Healthy(i) THEN "PASS" ELSE "WARN"

\* Mutant: health's majority lacks a peer.
QuorumHealthMinusOne(st) ==
    CASE st.inst = <<>> -> "UNKNOWN"
      [] st.inst # <<>> /\ (st.primary = None \/ st.leader = None) -> "FAIL"
      [] OTHER -> IF Responding(st) + 1 < Quorum(Len(st.inst)) THEN "FAIL" ELSE "PASS"

quorumHealth(st) ==
    CASE st.inst = <<>> -> "UNKNOWN"
      [] st.inst # <<>> /\ (st.primary = None \/ st.leader = None) -> "FAIL"
      [] OTHER -> IF Responding(st) < Quorum(Len(st.inst)) THEN "FAIL" ELSE "PASS"

\* nats: the embedded server's Ready, or "absent" when the status carries no snapshot.
HealthLines(st, nats, replication) ==
    <<"PASS",
      CASE nats = "absent" -> "INFO" [] nats = "ready" -> "PASS" [] OTHER -> "FAIL",
      IF st.primary = None THEN "FAIL" ELSE "PASS",
      IF st.leader = None THEN "FAIL" ELSE "PASS",
      peersHealth(st), quorumHealth(st), replication>>

HealthExit(overall, strict) ==
    CASE overall \in {"PASS", "INFO"} -> ExitOK
      [] overall = "WARN" -> IF strict THEN ExitWarnStrict ELSE ExitOK
      [] OTHER -> ExitUnhealthy

(***************************************************************************)
(* explain: the diagnosis of a subject, or "n/a" (exit 4).                 *)
(***************************************************************************)

\* docFails: the doctor report was read and counts a FAIL.
explainFailoverStuck(st, docFails) ==
    CASE st.primary # None /\ st.leader # None -> IF docFails THEN "doctor failures" ELSE "n/a"
      [] st.primary = None /\ st.leader = None -> "no leader and no primary"
      [] st.primary = None /\ st.leader # None -> "no primary"
      [] OTHER -> "no leader"

Find(st, n) == {i \in Instances(st) : i.node = n}

explainNodeNotPromoting(st, n) ==
    IF st.primary = n \/ Find(st, n) = {} THEN "n/a"
    ELSE LET t == CHOOSE i \in Find(st, n) : TRUE
         IN  IF t.state \in {"failed", "fenced"} THEN t.state
             ELSE IF ~t.up THEN "postgres down"
             ELSE IF st.leader # n THEN "not the leader"
             ELSE IF t.state = "promoting" THEN "promoting" ELSE "no obvious blocker"

explainReplicationBroken(st, n) ==
    IF {i \in Find(st, n) : i.role = "standby"} = {} THEN "n/a"
    ELSE LET t == CHOOSE i \in Find(st, n) : TRUE
         IN  IF ~t.up THEN "postgres down"
             ELSE IF t.state \in {"failed", "fenced"} THEN t.state
             ELSE IF t.lag = 3 THEN "stalled" ELSE IF t.lag \in {1, 2} THEN "degraded" ELSE "n/a"

explainCurrentState(st) ==
    IF HealthyCount(st) = Len(st.inst) THEN "nominal"
    ELSE IF Responding(st) < Quorum(Len(st.inst)) THEN "quorum at risk" ELSE "degraded"

ExplainExit(diagnosis) == IF diagnosis = "n/a" THEN ExitSubjectNA ELSE ExitOK

(***************************************************************************)
(* promote's preflight: the exit code that refuses, or ExitOK.             *)
(***************************************************************************)
printPromotePreflight(jw, target) ==
    IF target = jw.publisher THEN ExitUsage
    ELSE IF \A p \in Range(jw.peers) : p.node # target THEN ExitUsage ELSE ExitOK
=============================================================================
