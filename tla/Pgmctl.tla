------------------------------- MODULE Pgmctl -------------------------------
(***************************************************************************)
(* One pgmctl invocation against a cluster that keeps moving               *)
(* (internal/pgmctl/cmd, client, confirm), with the server side it talks   *)
(* to: GET /v1/status is a fan-out whose peers answer one after the other, *)
(* POST /v1/doctor/run is eleven checks that each read the cluster again   *)
(* (internal/control/handlers_doctor.go), and a mutating POST runs at the  *)
(* engine before its answer, which may be lost, comes back.  Between a     *)
(* guard or preflight and the POST it allows, the operator thinks.         *)
(*                                                                         *)
(* The cluster is pg-manager's: a node's role label outlives the state     *)
(* that earned it, so a crashed primary stays "primary" until it rejoins.  *)
(* A scenario fixes the command, its flags, the cluster's first shape and  *)
(* how many events (cluster changes and faults) may happen.                *)
(***************************************************************************)
EXTENDS Reports, Contexts

CONSTANTS Node, MaxPolls, Scenarios

VARIABLES scn,   \* the scenario, fixed by Init
          cl,    \* the cluster: [role, state, lease, jw, auth]
          cm,    \* the pgmctl process: [pc, res, st, exit, polls, deadline]
          rq,    \* the request in flight: [local, view, pos, rep, srv]
          h      \* history: [events, seen, guard, ran, confirmed]

vars == <<scn, cl, cm, rq, h, file, ed, stored>>

ClusterAffecting == {"failover", "switchover", "restart", "promote"}
Mutating == ClusterAffecting \cup {"fence", "unfence", "set-config", "cancel"}

(***************************************************************************)
(* The cluster as the engine behind the endpoint sees it.                  *)
(***************************************************************************)

JoinWindow(c) ==
    IF c.jw = NoWindow THEN NoWindow
    ELSE [publisher |-> c.jw.publisher, holds |-> c.lease = c.jw.publisher, long |-> c.jw.long,
          peers |-> [i \in DOMAIN c.jw.peers |->
                       [c.jw.peers[i] EXCEPT !.fenced = (c.state[c.jw.peers[i].node] = "fenced")]]]

\* Engine.Status before enrichment: no instances, no primary.
LocalStatus(c) ==
    [inst |-> <<>>, primary |-> None, leader |-> c.lease, jw |-> JoinWindow(c), auth |-> c.auth,
     mismatch |-> scn.shape.mismatch]

Active(c) == {n \in Node : c.role[n] = "primary" /\ c.state[n] = "running"}
Labelled(c) == {n \in Node : c.role[n] = "primary"}

\* What held of the cluster at some moment; h.seen collects it over a request.
Facts(c) ==
    (IF Cardinality(Active(c)) # 1 THEN {"not one primary"} ELSE {})
    \cup (IF c.lease = None THEN {"no leader"} ELSE {})
    \cup (IF \E n \in Node : c.state[n] = "failed" THEN {"failed"} ELSE {})
    \cup (IF \E n \in Node : c.state[n] \in {"failed", "stopped"} THEN {"down"} ELSE {})
    \cup (IF c.jw # NoWindow THEN {"window"} ELSE {})
    \cup (IF Labelled(c) # {scn.target} THEN {"relabelled"} ELSE {})
    \cup (IF c.jw = NoWindow /\ (c.lease = scn.target \/ scn.target \in Active(c)) THEN {"promoted"} ELSE {})

\* AuthorizeJoinWindowPromotion's preconditions (pg-manager): "accepted", or the refusal's code.
EngineAuthorizes(jw, auth, target, replace) ==
    IF jw = NoWindow THEN "no_join_window"
    ELSE IF auth # NoAuth /\ ~replace THEN "refused"
    ELSE IF /\ ~jw.holds /\ jw.long
            /\ \E i \in Candidates(jw) : /\ jw.peers[i].node = target
                                         /\ \A j \in Candidates(jw) : jw.peers[j].lsn <= jw.peers[i].lsn
         THEN "accepted" ELSE "refused"

NoStatus == [inst |-> <<>>, primary |-> None, leader |-> None, jw |-> NoWindow, auth |-> NoAuth, mismatch |-> FALSE]

Init ==
    /\ scn \in Scenarios
    /\ cl = [role |-> scn.shape.role, state |-> scn.shape.state, lease |-> scn.shape.lease,
             jw |-> scn.shape.jw, auth |-> NoAuth]
    /\ cm = [pc |-> "setup", res |-> NotResolved, st |-> NoStatus, exit |-> -1,
             polls |-> 0, deadline |-> FALSE]
    /\ rq = [local |-> NoStatus, view |-> <<>>, pos |-> 0, rep |-> {}, srv |-> "none"]
    /\ h = [events |-> 0, seen |-> Facts(cl), guard |-> {}, ran |-> FALSE, confirmed |-> Nil]
    /\ ContextsInit(scn.file)

(***************************************************************************)
(* Cluster changes.                                                        *)
(***************************************************************************)

Change(c) ==
    /\ h.events < scn.budget /\ cm.pc # "done"
    /\ cl' = c
    /\ h' = [h EXCEPT !.events = @ + 1, !.seen = @ \cup Facts(c)]
    /\ UNCHANGED <<scn, cm, rq, ctxVars>>

\* EventPostgresCrashed: the state changes, the label stays.
PostgresCrashed(n) == cl.state[n] \in {"running", "promoting"} /\ Change([cl EXCEPT !.state[n] = "failed"])

Stopped(n) == cl.state[n] = "running" /\ Change([cl EXCEPT !.state[n] = "stopped"])

LeaseExpires ==
    /\ cl.lease # None /\ cl.state[cl.lease] \notin {"running", "promoting"}
    /\ Change([cl EXCEPT !.lease = None])

\* Inside a join window only the publisher or the authorized target may take the lease.
TakeLease(n) ==
    /\ cl.lease = None /\ cl.state[n] = "running"
    /\ cl.jw # NoWindow => n = cl.jw.publisher \/ (cl.auth # NoAuth /\ n = cl.auth.target)
    /\ Change([cl EXCEPT !.lease = n, !.state[n] = IF cl.role[n] = "primary" THEN "running" ELSE "promoting"])

\* pg_promote finished; an authorization for n is consumed with it and the window closes.
Promoted(n) ==
    /\ cl.lease = n /\ cl.state[n] = "promoting"
    /\ LET used == cl.auth # NoAuth /\ cl.auth.target = n
       IN  Change([cl EXCEPT !.role[n] = "primary", !.state[n] = "running",
                             !.auth = IF used THEN NoAuth ELSE @, !.jw = IF used THEN NoWindow ELSE @])

\* The first half of a switchover.
Demoted(n) ==
    /\ cl.lease = n /\ n \in Active(cl) /\ cl.jw = NoWindow
    /\ Change([cl EXCEPT !.role[n] = "standby", !.lease = None])

Rejoined(n) ==
    /\ cl.state[n] \in {"failed", "stopped"} /\ cl.lease # n
    /\ Change([cl EXCEPT !.role[n] = "standby", !.state[n] = "running"])

AuthorizationEnds == cl.auth # NoAuth /\ Change([cl EXCEPT !.auth = NoAuth])

\* Another operator's promote --replace.
Reauthorized(n) ==
    /\ cl.auth # NoAuth /\ cl.auth.target # n
    /\ Change([cl EXCEPT !.auth = [target |-> n, mine |-> FALSE]])

PublisherSilent ==
    /\ cl.jw # NoWindow /\ cl.lease # cl.jw.publisher /\ ~cl.jw.long
    /\ Change([cl EXCEPT !.jw.long = TRUE])

WindowClosedByPublisher ==
    /\ cl.jw # NoWindow /\ cl.lease = cl.jw.publisher
    /\ Change([cl EXCEPT !.jw = NoWindow])

ClusterNext ==
    \/ \E n \in Node : \/ PostgresCrashed(n) \/ Stopped(n) \/ TakeLease(n) \/ Promoted(n)
                       \/ Demoted(n) \/ Rejoined(n) \/ Reauthorized(n)
    \/ LeaseExpires \/ AuthorizationEnds \/ PublisherSilent \/ WindowClosedByPublisher

(***************************************************************************)
(* The command: Setup, requests, prompts.                                  *)
(***************************************************************************)

Exit(code) == cm' = [cm EXCEPT !.pc = "done", !.exit = code]

\* Mutant: a request that timed out is reported as a usage error.
FailureCodesUsage == {ExitNetwork, ExitUsage, ExitUnhealthy}

\* The exit codes of a request that brought no envelope back (ExitCodeFromError): unreachable
\* or unauthorised, out of time, or an answer that is no accepted envelope.
FailureCodes == {ExitNetwork, ExitTimeout, ExitUnhealthy}

Fault == h.events < scn.budget
Faulty(facts) == h' = [h EXCEPT !.events = @ + 1, !.seen = @ \cup facts]

\* A request goes out: the server reads its own engine first and starts the fan-out.
Request(r, pos) ==
    rq' = [rq EXCEPT !.local = LocalStatus(cl), !.view = <<>>, !.pos = pos, !.srv = r]

Idle == [rq EXCEPT !.local = NoStatus, !.view = <<>>]

\* What follows Setup, by command.
Entry ==
    CASE scn.op = "fence" -> "guard"
      [] scn.op = "promote" -> "preflight"
      [] scn.op \in {"status", "health", "explain"} -> "report"
      [] scn.op = "doctor" -> "check"
      [] scn.op = "cancel" -> "post"
      [] OTHER -> "prompt"

\* Mutant: Setup forgets to hold --cluster against the context's expected_cluster.
PinMismatchIgnored(r) == FALSE

PinMismatch(r) == scn.cluster # Nil /\ r.pin # Nil /\ scn.cluster # r.pin

\* AppContext.Setup and the command's own argument checks (promote and its --cancel check their arguments first).
Setup ==
    /\ cm.pc = "setup"
    /\ LET r == Resolve(scn.flags)
       IN  IF scn.op \in {"promote", "cancel"} /\ scn.badArgs THEN Exit(ExitUsage) /\ UNCHANGED <<rq, h>>
           ELSE IF ~r.ok \/ PinMismatch(r) THEN Exit(ExitConfig) /\ UNCHANGED <<rq, h>>
           ELSE IF scn.badArgs THEN Exit(ExitUsage) /\ UNCHANGED <<rq, h>>
           ELSE /\ cm' = [cm EXCEPT !.pc = Entry, !.res = r]
                /\ Request(IF Entry = "post" THEN "sent" ELSE "none", IF Entry = "check" THEN 1 ELSE 0)
                /\ h' = [h EXCEPT !.seen = Facts(cl)]
    /\ UNCHANGED <<scn, cl, ctxVars>>

CheckName == DefaultDoctorChecks[rq.pos]
Getting == cm.pc \in {"guard", "preflight", "report", "poll"}
FanningOut == Getting \/ (cm.pc = "check" /\ CheckName \in FanoutChecks)

Answered == {rq.view[i].node : i \in DOMAIN rq.view}

\* A peer answers; replies reach the collector in any order.
Answer(n) ==
    /\ FanningOut /\ n \notin Answered
    /\ \E i \in 1 .. Len(rq.view) + 1 :
         rq' = [rq EXCEPT !.view =
                  InsertAt(@, i, PeerSlice(n, cl.role[n], cl.state[n], n \in scn.shape.diverged))]
    /\ UNCHANGED <<scn, cl, cm, h, ctxVars>>

\* How a fan-out ends: every peer answered, some did not in time, or the broadcast failed.
Gathered ==
    IF Answered = Node THEN {[collected |-> TRUE, replies |-> rq.view, facts |-> {}]}
    ELSE IF ~Fault THEN {}
    ELSE {[collected |-> TRUE,
           replies |-> rq.view \o SetToSeq({NoReply(n) : n \in Node \ Answered}),
           facts |-> {"missing"} \cup (IF scn.target \in Answered THEN {} ELSE {"unread"})],
          [collected |-> FALSE, replies |-> <<>>, facts |-> {"missing", "unread"}]}

Record(g) ==
    h' = [h EXCEPT !.events = IF g.facts = {} THEN @ ELSE @ + 1, !.seen = @ \cup g.facts,
                   !.guard = IF cm.pc = "guard" THEN h.seen \cup g.facts ELSE @]

fenceCurrentPrimaryGuard(s) == s.primary # scn.target \/ scn.force

\* Mutant: a closed window alone ends the wait with success.
PollVerdictWindowOnly(s) ==
    LET pending == s.auth # NoAuth /\ s.auth.mine
    IN  IF ~pending /\ s.jw = NoWindow THEN "done"
        ELSE IF ~pending /\ s.jw # NoWindow THEN "ended" ELSE "again"

\* waitForPromotion's reading of one status: "done", "ended" or "again".
PollVerdict(s) ==
    LET pending == s.auth # NoAuth /\ s.auth.mine
        primary == s.primary = scn.target \/ s.leader = scn.target
    IN  IF ~pending /\ s.jw = NoWindow /\ primary THEN "done"
        ELSE IF ~pending /\ s.jw # NoWindow THEN "ended" ELSE "again"

AfterPoll(verdict, s) ==
    CASE verdict = "done" -> [cm EXCEPT !.pc = "done", !.exit = ExitOK, !.st = s]
      [] verdict = "ended" -> [cm EXCEPT !.pc = "done", !.exit = ExitUnhealthy, !.st = s]
      [] OTHER -> IF cm.deadline THEN [cm EXCEPT !.pc = "done", !.exit = ExitTimeout, !.st = s]
                  ELSE [cm EXCEPT !.pc = "sleep", !.st = s]

\* explain's evaluators that need the status alone.
Explanation(s) ==
    CASE scn.subject = "node-not-promoting" -> explainNodeNotPromoting(s, scn.target)
      [] scn.subject = "replication-broken" -> explainReplicationBroken(s, scn.target)
      [] OTHER -> explainCurrentState(s)

\* The client has the status s.
GotStatus(s) ==
    \/ /\ cm.pc = "guard"
       /\ cm' = IF fenceCurrentPrimaryGuard(s) THEN [cm EXCEPT !.pc = "prompt", !.st = s]
                ELSE [cm EXCEPT !.pc = "done", !.exit = ExitUsage, !.st = s]
    \/ /\ cm.pc = "preflight"
       /\ LET code == IF s.jw = NoWindow THEN ExitSubjectNA ELSE printPromotePreflight(s.jw, scn.target)
          IN  cm' = IF code = ExitOK THEN [cm EXCEPT !.pc = "prompt", !.st = s]
                    ELSE [cm EXCEPT !.pc = "done", !.exit = code, !.st = s]
    \/ /\ cm.pc = "report" /\ scn.op = "status"
       /\ cm' = [cm EXCEPT !.pc = "done", !.exit = renderStatus(s, scn.strict), !.st = s]
    \/ /\ cm.pc = "report" /\ scn.op = "health"
       /\ cm' = [cm EXCEPT !.pc = "diagnose", !.st = s]
    \/ /\ cm.pc = "report" /\ scn.op = "explain"
       /\ cm' = IF scn.subject = "failover-stuck" THEN [cm EXCEPT !.pc = "check", !.st = s]
                ELSE [cm EXCEPT !.pc = "done", !.exit = ExplainExit(Explanation(s)), !.st = s]
    \/ /\ cm.pc = "poll"
       /\ cm' = AfterPoll(PollVerdict(s), s)

GetDone ==
    /\ Getting
    /\ \E g \in Gathered : \E s \in {EnrichStatus(rq.local, g.collected, g.replies)} :
         GotStatus(s) /\ Record(g)
    /\ IF cm'.pc = "check" THEN Request("none", 1) ELSE rq' = Idle
    /\ UNCHANGED <<scn, cl, ctxVars>>

\* The status request itself fails: the guard warns and goes on, the wait tries again.
GetFails ==
    /\ Getting /\ Fault
    /\ \/ cm.pc = "guard" /\ cm' = [cm EXCEPT !.pc = "prompt"]
       \/ cm.pc = "poll" /\ cm' = AfterPoll("again", cm.st)
       \/ cm.pc \in {"report", "preflight"} /\ \E code \in FailureCodes : Exit(code)
    /\ Record([facts |-> {"unread"}])
    /\ rq' = Idle
    /\ UNCHANGED <<scn, cl, ctxVars>>

\* health's second request, best effort.
Diagnose ==
    /\ cm.pc = "diagnose"
    /\ \E read \in IF Fault THEN BOOLEAN ELSE {TRUE} :
         \E rep \in {IF read THEN replicationSummary(scn.shape.dg) ELSE "UNKNOWN"} :
         \E lines \in {HealthLines(cm.st, scn.shape.nats, rep)} :
             /\ Exit(HealthExit(worstOf(lines), scn.strict))
             /\ IF read THEN UNCHANGED h ELSE Faulty({"unread"})
    /\ UNCHANGED <<scn, cl, rq, ctxVars>>

(***************************************************************************)
(* POST /v1/doctor/run.                                                    *)
(***************************************************************************)

\* Verdict of the running check from what it gathered.
Verdict(g) ==
    CASE CheckName = "diagnose" -> checkEngineDiagnose(scn.shape.dg)
      [] CheckName = "timeline" -> checkTimelineConsistent(g.collected, g.replies)
      [] OTHER -> StatusCheck(CheckName, EnrichStatus(rq.local, g.collected, g.replies))

Severities(rep) == {r[2] : r \in rep}

ReportExit(rep) ==
    IF scn.op = "doctor" THEN doctorExitForReport(Severities(rep), scn.strict)
    ELSE ExplainExit(explainFailoverStuck(cm.st, "FAIL" \in Severities(rep)))

\* runChecks: the check's result, then the next check reads the cluster anew.
CheckResult(sev) ==
    LET rep == rq.rep \cup {<<CheckName, sev>>}
    IN  IF rq.pos = Len(DefaultDoctorChecks)
        THEN /\ Exit(ReportExit(rep))
             /\ rq' = [rq EXCEPT !.rep = rep]
        ELSE /\ rq' = [rq EXCEPT !.rep = rep, !.pos = @ + 1, !.local = LocalStatus(cl), !.view = <<>>]
             /\ UNCHANGED cm

LocalOnly == [collected |-> TRUE, replies |-> <<>>, facts |-> {}]

CheckDone ==
    /\ cm.pc = "check"
    /\ \E g \in IF CheckName \in FanoutChecks THEN Gathered ELSE {LocalOnly} :
         /\ CheckResult(Verdict(g))
         /\ h' = [h EXCEPT !.events = IF g.facts = {} THEN @ ELSE @ + 1, !.seen = Facts(cl)]
    /\ UNCHANGED <<scn, cl, ctxVars>>

\* Engine.Status or Engine.Diagnose returned an error.
CheckUnread ==
    /\ cm.pc = "check" /\ Fault
    /\ CheckResult("UNKNOWN")
    /\ h' = [h EXCEPT !.events = @ + 1, !.seen = Facts(cl)]
    /\ UNCHANGED <<scn, cl, ctxVars>>

\* The POST fails: doctor reports the error, explain goes on without a report.
DoctorFails ==
    /\ cm.pc = "check" /\ Fault
    /\ IF scn.op = "doctor" THEN \E code \in FailureCodes : Exit(code)
       ELSE Exit(ExplainExit(explainFailoverStuck(cm.st, FALSE)))
    /\ Faulty({"unread"})
    /\ UNCHANGED <<scn, cl, rq, ctxVars>>

(***************************************************************************)
(* Prompts.                                                                *)
(***************************************************************************)

Send(name) ==
    /\ cm' = [cm EXCEPT !.pc = "post", !.st = NoStatus]
    /\ rq' = [rq EXCEPT !.srv = "sent"]
    /\ h' = [h EXCEPT !.confirmed = name]

Refuse(code) == Exit(code) /\ UNCHANGED <<rq, h>>

\* confirm.Prompt: -y, or a terminal and a typed y.
singleResourcePrompt ==
    IF scn.yes THEN Send(Nil)
    ELSE (scn.tty /\ Send(Nil)) \/ Refuse(ExitUsage)

\* confirm.ConfirmClusterName: --force with a matching --cluster, or the name typed in full.
ConfirmClusterName(expected) ==
    IF scn.force THEN IF scn.cluster = expected THEN Send(expected) ELSE Refuse(ExitUnhealthy)
    ELSE (scn.tty /\ Send(expected)) \/ Refuse(ExitUsage)

clusterAffectingPrompt ==
    LET expected == IF scn.cluster # Nil THEN scn.cluster ELSE cm.res.pin
    IN  IF expected = Nil THEN Refuse(ExitConfig) ELSE ConfirmClusterName(expected)

Prompt ==
    /\ cm.pc = "prompt"
    /\ IF scn.op \in ClusterAffecting THEN clusterAffectingPrompt ELSE singleResourcePrompt
    /\ UNCHANGED <<scn, cl, ctxVars>>

(***************************************************************************)
(* The mutating request, and promote's wait.                               *)
(***************************************************************************)

\* What the engine does with an accepted request (a failover or restart shows as later changes).
Effect ==
    CASE scn.op = "fence" -> [cl EXCEPT !.state[scn.target] = "fenced"]
      [] scn.op = "unfence" -> [cl EXCEPT !.state[scn.target] = IF @ = "fenced" THEN "running" ELSE @]
      [] scn.op = "promote" -> [cl EXCEPT !.auth = [target |-> scn.target, mine |-> TRUE],
                                          !.state[cl.jw.publisher] = "fenced"]
      [] scn.op = "cancel" -> [cl EXCEPT !.auth = NoAuth]
      [] OTHER -> cl

ServerAnswer ==
    IF scn.op = "promote" THEN EngineAuthorizes(JoinWindow(cl), cl.auth, scn.target, scn.replace) ELSE "accepted"

\* The server runs the operation, or refuses it (not the leader, precondition, engine error).
Serve ==
    /\ cm.pc = "post" /\ rq.srv = "sent"
    /\ \E code \in {ServerAnswer} \cup (IF Fault THEN {"refused"} ELSE {}) :
         /\ rq' = [rq EXCEPT !.srv = code]
         /\ cl' = IF code = "accepted" THEN Effect ELSE cl
         /\ h' = [h EXCEPT !.ran = (code = "accepted"), !.events = IF code = ServerAnswer THEN @ ELSE @ + 1,
                           !.seen = Facts(cl')]
    /\ UNCHANGED <<scn, cm, ctxVars>>

\* The envelope comes back.
PostAnswered ==
    /\ cm.pc = "post" /\ rq.srv \notin {"none", "sent"}
    /\ CASE rq.srv = "accepted" /\ scn.op = "promote" /\ scn.wait ->
              cm' = [cm EXCEPT !.pc = "poll"] /\ Request("none", 0)
         [] rq.srv = "accepted" /\ ~(scn.op = "promote" /\ scn.wait) -> Exit(ExitOK) /\ UNCHANGED rq
         [] rq.srv = "no_join_window" -> Exit(ExitSubjectNA) /\ UNCHANGED rq
         [] OTHER -> Exit(ExitUnhealthy) /\ UNCHANGED rq
    /\ UNCHANGED <<scn, cl, h, ctxVars>>

\* The request or its answer is lost; the client never retries.
PostLost ==
    /\ cm.pc = "post" /\ Fault
    /\ \E code \in FailureCodes : Exit(code)
    /\ Faulty({})
    /\ UNCHANGED <<scn, cl, rq, ctxVars>>

\* MaxPolls bounds the polls before the deadline.
PollAgain ==
    /\ cm.pc = "sleep" /\ (cm.polls < MaxPolls \/ cm.deadline)
    /\ cm' = [cm EXCEPT !.pc = "poll", !.st = NoStatus, !.polls = IF cm.deadline THEN @ ELSE @ + 1]
    /\ Request("none", 0)
    /\ UNCHANGED <<scn, cl, h, ctxVars>>

\* The authorization's TTL and 30 s more have passed since the answer.
DeadlinePasses ==
    /\ cm.pc \in {"poll", "sleep"} /\ ~cm.deadline
    /\ cm' = [cm EXCEPT !.deadline = TRUE]
    /\ UNCHANGED <<scn, cl, rq, h, ctxVars>>

CommandNext ==
    \/ Setup \/ (\E n \in Node : Answer(n)) \/ GetDone \/ GetFails \/ Diagnose
    \/ CheckDone \/ CheckUnread \/ DoctorFails \/ Prompt
    \/ Serve \/ PostAnswered \/ PostLost \/ PollAgain \/ DeadlinePasses

Edit == scn.edits /\ cm.pc \in {"setup", "prompt", "done"} /\ EditNext /\ UNCHANGED <<scn, cl, cm, rq, h>>

Finished == cm.pc = "done" /\ UNCHANGED vars

Next == CommandNext \/ ClusterNext \/ Edit \/ Finished

\* Requests end by their timeouts, the operator answers the prompt, time passes.
Spec == Init /\ [][Next]_vars /\ WF_vars(CommandNext)

(***************************************************************************)
(* Properties.                                                             *)
(***************************************************************************)

Sev == {"PASS", "INFO", "WARN", "UNKNOWN", "FAIL"}

(* Type invariant: every variable stays in its domain.                     *)
TypeOK ==
    /\ cl.role \in [Node -> Roles] /\ cl.state \in [Node -> States] /\ cl.lease \in Node \cup {None}
    /\ cl.auth = NoAuth \/ cl.auth \in [target : Node, mine : BOOLEAN]
    /\ cm.pc \in {"setup", "guard", "preflight", "report", "poll", "diagnose", "check", "prompt", "post",
                  "sleep", "done"}
    /\ cm.exit \in {-1, ExitOK, ExitWarnStrict, ExitUnhealthy, ExitSubjectNA, ExitUnknown, ExitUsage,
                    ExitNetwork, ExitConfig, ExitTimeout}
    /\ (cm.exit = -1) = (cm.pc # "done")
    /\ cm.polls \in 0 .. MaxPolls /\ cm.deadline \in BOOLEAN
    /\ rq.pos \in 0 .. Len(DefaultDoctorChecks) /\ rq.rep \subseteq (Range(DefaultDoctorChecks) \X Sev)
    /\ rq.srv \in {"none", "sent", "accepted", "refused", "no_join_window"}
    /\ Len(rq.view) <= Cardinality(Node) /\ Cardinality(Answered) = Len(rq.view)
    /\ h.events \in 0 .. scn.budget /\ h.ran \in BOOLEAN
    /\ file.kind \in {"ok", "missing", "bad"}

(* A check of the doctor that FAILs had a reason during that very check:   *)
(* the condition it names held at some moment between the check's start    *)
(* and its result, or a peer's answer was missing.  The eleven checks each *)
(* read a moving cluster again, and a failed ex-primary keeps its label    *)
(* (doctor_checks.go, checkClusterHasPrimary's comment).                   *)
FailHasCause ==
    [][\A r \in rq'.rep \ rq.rep : r[2] = "FAIL" =>
         CASE r[1] = "has-primary" -> "not one primary" \in h.seen \/ Answered # Node
           [] r[1] = "has-leader" -> "no leader" \in h.seen
           [] r[1] = "quorum" -> Answered # Node
           [] r[1] = "no-failed-state" -> "failed" \in h.seen
           [] r[1] = "responding" -> "down" \in h.seen
           [] r[1] = "join-window" -> "window" \in h.seen
           [] r[1] = "timeline" -> scn.shape.diverged # {}
           [] OTHER -> TRUE]_vars

Unread(s) == s.inst = <<>>
HardFailures(s) == {c \in {"has-leader", "quorum", "no-failed-state"} : StatusCheck(c, s) = "FAIL"}
DoctorAllPass(s) ==
    \A c \in {"has-primary", "has-leader", "quorum", "all-reachable", "no-failed-state", "responding"} :
       StatusCheck(c, s) = "PASS"

(* The three reports an operator compares draw the same conclusion from    *)
(* the same status, whatever was sampled: a missing leader, a lost quorum  *)
(* or a failed node makes status and health exit 2 as well as the doctor,  *)
(* a down PostgreSQL makes status exit 2, a status the doctor passes       *)
(* altogether is exit 0 for both, and explain never finds its subject moot *)
(* while status misses the leader or the primary.                          *)
VerdictsAgree ==
    LET s == cm.st
        Health(reps) == {HealthExit(worstOf(l), FALSE) : l \in {HealthLines(s, "ready", r) : r \in reps}}
    IN  ~Unread(s) =>
          /\ HardFailures(s) # {} =>
               /\ renderStatus(s, FALSE) = ExitUnhealthy
               /\ Health(Sev) = {ExitUnhealthy}
          /\ checkPostgresResponding(s) = "FAIL" => renderStatus(s, FALSE) = ExitUnhealthy
          /\ DoctorAllPass(s) => renderStatus(s, FALSE) = ExitOK /\ Health({"PASS"}) = {ExitOK}
          /\ s.primary = None \/ s.leader = None => explainFailoverStuck(s, FALSE) # "n/a"
          /\ \A n \in Node : explainReplicationBroken(s, n) # "n/a" =>
               \/ checkPostgresResponding(s) = "FAIL"
               \/ \E i \in Find(s, n) : i.state = "fenced"

\* What is wrong with a cluster, said without any of the reports' definitions.
Sick(c) ==
    \/ Cardinality(Active(c)) # 1 \/ c.lease = None
    \/ \E n \in Node : c.state[n] \in {"failed", "stopped"}
    \/ scn.shape.dg.issues \cap {2, 3} # {} \/ scn.shape.mismatch \/ scn.shape.diverged # {}
    \/ c.jw # NoWindow /\ c.lease # c.jw.publisher /\ c.jw.long /\ c.auth = NoAuth
Suspect(c) == ~scn.shape.dg.healthy \/ (c.jw # NoWindow /\ c.lease # c.jw.publisher)

(* On a cluster that stood still and answered everything, doctor and       *)
(* status exit with exactly what the cluster deserves: the eleven verdicts *)
(* and their folding into one exit code lose nothing and invent nothing.   *)
SteadyVerdict ==
    cm.pc = "done" /\ h.events = 0 /\ cm.res.ok =>
      /\ scn.op = "doctor" => cm.exit = IF Sick(cl) THEN ExitUnhealthy
                                        ELSE IF Suspect(cl) /\ scn.strict THEN ExitWarnStrict ELSE ExitOK
      /\ scn.op = "status" =>
           (cm.exit = ExitUnhealthy) = (\/ Labelled(cl) = {} \/ cl.lease = None
                                        \/ \E n \in Node : cl.state[n] \in {"failed", "stopped"})

(* The promote command the join-window check prints can be run as printed: *)
(* for every status it fails on and names a candidate for, pgmctl's        *)
(* preflight lets that node through and the engine accepts it.             *)
AdviceUsable ==
    LET s == cm.st
    IN  s.jw # NoWindow /\ checkJoinWindow(s) = "FAIL" /\ bestJoinWindowCandidate(s.jw) # None =>
          /\ printPromotePreflight(s.jw, bestJoinWindowCandidate(s.jw)) = ExitOK
          /\ EngineAuthorizes(s.jw, s.auth, bestJoinWindowCandidate(s.jw), FALSE) = "accepted"

(* `pgmctl fence` gets past its guard without --force only if, while the   *)
(* guard looked, the target was not the one node labelled primary, or its  *)
(* own answer was not there to be read.                                    *)
FenceGuardHolds ==
    scn.op = "fence" /\ ~scn.force /\ cm.pc \in {"prompt", "post"} =>
      h.guard \cap {"relabelled", "unread"} # {}

(* The exit code tells the truth: after a usage, configuration or          *)
(* not-applicable exit the engine ran nothing, a mutating command that     *)
(* exits 0 did run, and a doctor with a check it could not read (UNKNOWN)  *)
(* does not exit 0.                                                        *)
ExitTellsRun ==
    /\ cm.exit \in {ExitUsage, ExitConfig, ExitSubjectNA} => ~h.ran
    /\ scn.op \in Mutating /\ cm.exit = ExitOK => h.ran
    /\ scn.op = "doctor" /\ cm.exit = ExitOK => "UNKNOWN" \notin Severities(rq.rep)

(* A cluster-affecting request leaves only with a cluster name confirmed   *)
(* for it, and, when the endpoint came from a context that pins a cluster, *)
(* that name is the pin some saved version of that very context held       *)
(* together with that endpoint, however the file is edited meanwhile.      *)
PinnedClusterOnly ==
    scn.op \in ClusterAffecting /\ rq.srv # "none" =>
      /\ h.confirmed # Nil
      /\ cm.res.name # Nil =>
           \E t \in stored : /\ t.name = cm.res.name /\ t.endpoint = cm.res.endpoint
                             /\ t.pin \in {Nil, h.confirmed} /\ t.pin = cm.res.pin

(* A mutating request leaves only past its walls: the fence guard and the  *)
(* confirmation of the cluster.                                            *)
WallsHold == FenceGuardHolds /\ PinnedClusterOnly

(* promote's wait says "is primary; the join window is closed" only if the *)
(* target led or was primary, with the window closed, at some moment since *)
(* the authorization was recorded.  It ends, as every command does: its    *)
(* requests time out, and it has a deadline even if the cluster never      *)
(* answers again.                                                          *)
WaitVerdict ==
    /\ [](scn.op = "promote" /\ scn.wait /\ cm.exit = ExitOK => "promoted" \in h.seen)
    /\ <>(cm.pc = "done")

=============================================================================
