-------------------------------- MODULE Drain --------------------------------
(***************************************************************************)
(* The shutdown drain of one process in full: buildShutdownSteps, Drain,   *)
(* StopPostgres with its split of the budget, and the exit code of run.    *)
(*                                                                         *)
(* Time is counted in seconds from the start of the drain.  A step that    *)
(* honours its context ends at the latest when the context does; a step    *)
(* that ignores it ends when its own work is done, which takes up to the   *)
(* bounds named below.  PeerLease is the same drain among several peers    *)
(* without the clock.                                                      *)
(***************************************************************************)
EXTENDS Integers, Sequences

CONSTANTS
  Budgets,        \* values of shutdown.drain_budget (validated as >= 0)
  RouteTimeout,   \* control.leader_route_timeout: bounds a forwarded engine call
  PublishTimeout, \* bounds one publish to the history stream
  DeleteTimeout   \* bounds the lease delete of Leadership.Close

ASSUME BudgetsAssumption == Budgets \subseteq Nat
ASSUME TimeoutsAssumption ==
  RouteTimeout \in Nat /\ PublishTimeout \in Nat /\ DeleteTimeout \in Nat

\* postgresStopTailReserve, postgresStopImmediateWindow, postgresStopFastFloor
TailReserve == 3
ImmediateWindow == 2
FastFloor == 1

VARIABLES
  budget,     \* the drain budget, which is also the deadline on this clock
  clock,      \* the time since the drain started
  cause,      \* why the process stops: "signal", "singleton", "managerErr",
              \* or "startup" (teardownPartial)
  cancelled,  \* the drain's parent context is already cancelled
  steps,      \* the steps still to run
  ran,        \* the steps that have been run
  timedOut, stopErrors,   \* DrainResult
  tail,       \* what the "postgres" step left of the budget, NotYet before it
  postgres,   \* the local Postgres: "up", "down"
  leaseKey,   \* "held", "none", or "left" to expire
  nats,       \* the embedded server: "up", "stopped", "forced"
  exit        \* the exit code of the process, "" while it runs

drainVars == <<budget, clock, cause, cancelled, steps, ran, timedOut, stopErrors,
          tail, postgres, leaseKey, nats, exit>>

NotYet == -1

\* What Start constructs, in its order.
Parts == <<"obs", "embedded", "cluster", "events", "postgres", "manager",
           "fanout", "control", "responder">>

\* The first n parts: what is there when Start fails after building n.
Built(n) == {Parts[i] : i \in 1 .. n}

\* Mutant: the lease is released before Postgres is stopped.
BuildShutdownStepsEarlyRelease(res, stopPostgres) ==
  LET step(part, name) == IF part \in res THEN <<name>> ELSE <<>>
  IN  step("control", "control") \o step("fanout", "fanout")
      \o step("responder", "leader-route-responder")
      \o step("obs", "obs") \o step("manager", "manager")
      \o step("cluster", "cluster")
      \o (IF stopPostgres THEN step("postgres", "postgres") ELSE <<>>)
      \o step("events", "event-subscription")
      \o step("embedded", "embedded-pre-stop")
      \o step("embedded", "embedded-nats")

\* buildShutdownSteps.  The event subscriptions are one step here: all of
\* them are dropped between "postgres" and "embedded-pre-stop".
BuildShutdownSteps(res, stopPostgres) ==
  LET step(part, name) == IF part \in res THEN <<name>> ELSE <<>>
  IN  step("control", "control") \o step("fanout", "fanout")
      \o step("responder", "leader-route-responder")
      \o step("obs", "obs") \o step("manager", "manager")
      \o (IF stopPostgres THEN step("postgres", "postgres") ELSE <<>>)
      \o step("events", "event-subscription")
      \o step("embedded", "embedded-pre-stop")
      \o step("cluster", "cluster") \o step("embedded", "embedded-nats")

StopsPostgres == cause \in {"signal", "managerErr"}

\* The plan of the drain: a full one after run, a partial one after Start.
Plans ==
  IF cause = "startup"
  THEN {BuildShutdownSteps(Built(n), FALSE) : n \in 1 .. Len(Parts)}
  ELSE {BuildShutdownSteps(Built(Len(Parts)), StopsPostgres)}

DrainInit ==
  /\ budget \in Budgets
  /\ clock = 0
  /\ cause \in {"signal", "singleton", "managerErr", "startup"}
  \* only teardownPartial drains under the context that a signal cancels
  /\ cancelled \in IF cause = "startup" THEN BOOLEAN ELSE {FALSE}
  /\ steps \in Plans
  /\ ran = {}
  /\ timedOut = FALSE /\ stopErrors = FALSE
  /\ tail = NotYet
  /\ postgres \in {"up", "down"}
  /\ leaseKey \in {"held", "none"}
  /\ nats = "up"
  /\ exit = ""

\* The loop of Drain enters its next iteration with time left.
Running(name) == exit = "" /\ steps # <<>> /\ Head(steps) = name /\ clock < budget

\* The step is over at time t with result err: nil, a context error (both
\* "nil" to Drain), ErrDrainDegraded, or any other error.
StepDone(t, err) ==
  /\ clock' = t
  /\ ran' = ran \cup {Head(steps)}
  /\ steps' = Tail(steps)
  /\ tail' = IF Head(steps) = "postgres" THEN budget - t ELSE tail
  /\ timedOut' = (timedOut \/ err = "degraded")
  /\ stopErrors' = (stopErrors \/ err = "error")
  /\ UNCHANGED <<budget, cause, cancelled, exit>>

\* When the step's context ends.
CtxEnd == IF cancelled THEN clock ELSE budget

\* control and obs: http.Server.Shutdown waits for open requests, and a watch
\* stream stays open until its client leaves.  manager: Manager.Stop.
BoundedStep ==
  \E name \in {"control", "obs", "manager"}, t \in clock .. CtxEnd,
     err \in {"nil", "error"} :
    /\ Running(name)
    /\ StepDone(t, err)
    /\ UNCHANGED <<postgres, leaseKey, nats>>

\* fanout and event-subscription: Drain and Unsubscribe return at once.
InstantStep ==
  \E name \in {"fanout", "event-subscription"}, err \in {"nil", "error"} :
    /\ Running(name)
    /\ err = "error" => name = "event-subscription"
    /\ StepDone(clock, err)
    /\ UNCHANGED <<postgres, leaseKey, nats>>

\* LeaderRouteResponder.Close waits for the forwarded calls in flight.
ResponderStep ==
  \E t \in clock .. clock + RouteTimeout :
    /\ Running("leader-route-responder")
    /\ StepDone(t, "nil")
    /\ UNCHANGED <<postgres, leaseKey, nats>>

Min2(a, b) == IF a < b THEN a ELSE b
Max2(a, b) == IF a > b THEN a ELSE b

\* Mutant: the immediate window is not set aside.
FastStopEndNoImmediate ==
  Min2(budget, clock + Max2(budget - clock - TailReserve, FastFloor))

\* fastStopWindow: when fast mode has to be over.
FastStopEnd ==
  Min2(budget, clock + Max2(budget - clock - ImmediateWindow - TailReserve, FastFloor))

\* StopPostgres.  IsRunning may fail, which takes the stop path.  A stop that
\* fails says nothing of the postmaster, which may still be on its way down.
StopPostgres ==
  /\ Running("postgres")
  /\ UNCHANGED <<leaseKey, nats>>
  /\ \/ postgres = "down" /\ StepDone(clock, "nil") /\ UNCHANGED postgres
     \/ \E t \in clock .. FastStopEnd : StepDone(t, "nil") /\ postgres' = "down"
     \/ \E t \in clock .. FastStopEnd :
        \E u \in t .. Min2(budget, t + ImmediateWindow) :
          \/ StepDone(u, "degraded") /\ postgres' = "down"
          \/ StepDone(u, "error") /\ postgres' \in {postgres, "down"}

\* Mutant: the marker is published to both categories of the stream.
PreStopStepTwice ==
  \E t \in clock .. clock + 2 * PublishTimeout :
    /\ Running("embedded-pre-stop")
    /\ StepDone(t, "nil")
    /\ UNCHANGED <<postgres, leaseKey, nats>>

\* SignalStopping publishes server_stopping to the history stream.
PreStopStep ==
  \E t \in clock .. clock + PublishTimeout :
    /\ Running("embedded-pre-stop")
    /\ StepDone(t, "nil")
    /\ UNCHANGED <<postgres, leaseKey, nats>>

\* Handles.Close: the lease delete, then Conn.Drain, which does not wait.
ClusterStep ==
  \E t \in clock .. clock + DeleteTimeout :
    /\ Running("cluster")
    /\ StepDone(t, "nil")
    /\ leaseKey' \in IF leaseKey = "held" THEN {"none", "left"} ELSE {leaseKey}
    /\ UNCHANGED <<postgres, nats>>

\* Server.Shutdown: clean, or given up when the context ends.
EmbeddedStep ==
  /\ Running("embedded-nats")
  /\ \/ \E t \in clock .. CtxEnd : StepDone(t, "nil") /\ nats' = "stopped"
     \/ StepDone(CtxEnd, "nil") /\ nats' = "forced"
  /\ UNCHANGED <<postgres, leaseKey>>

\* Mutant: the break is forgotten, and no step runs past the deadline.
DrainBreakMissing ==
  /\ exit = "" /\ steps # <<>> /\ clock >= budget
  /\ timedOut' = TRUE
  /\ UNCHANGED <<budget, clock, cause, cancelled, steps, ran, stopErrors, tail,
                 postgres, leaseKey, nats, exit>>

\* remaining <= 0 at the head of an iteration: break.
DrainBreak ==
  /\ exit = "" /\ steps # <<>> /\ clock >= budget
  /\ timedOut' = TRUE
  /\ steps' = <<>>
  /\ UNCHANGED <<budget, clock, cause, cancelled, ran, stopErrors, tail, postgres,
                 leaseKey, nats, exit>>

\* Mutant: a drain that ran out of time counts as clean.
DrainExitCodeTimeoutOK ==
  IF stopErrors THEN "ExitInternal" ELSE "ExitOK"

\* DrainResult.ExitCode
DrainExitCode ==
  IF stopErrors THEN "ExitInternal"
  ELSE IF timedOut THEN "ExitDrainTimeout" ELSE "ExitOK"

\* run: the manager's error, or the failed gate, names the exit code first.
Return ==
  /\ exit = "" /\ steps = <<>>
  /\ exit' = CASE cause = "startup"    -> "startErr.Code"
               [] cause = "singleton"  -> "ExitSingleton"
               [] cause = "managerErr" -> "ExitInternal"
               [] OTHER                -> DrainExitCode
  /\ UNCHANGED <<budget, clock, cause, cancelled, steps, ran, timedOut,
                 stopErrors, tail, postgres, leaseKey, nats>>

DrainNext ==
  \/ BoundedStep \/ InstantStep \/ ResponderStep \/ StopPostgres
  \/ PreStopStep \/ ClusterStep \/ EmbeddedStep \/ DrainBreak \/ Return

DrainSpec == DrainInit /\ [][DrainNext]_drainVars /\ WF_drainVars(DrainNext)

-----------------------------------------------------------------------------
DrainTypeOK ==
  /\ budget \in Budgets
  /\ clock \in Nat
  /\ cause \in {"signal", "singleton", "managerErr", "startup"}
  /\ cancelled \in BOOLEAN /\ timedOut \in BOOLEAN /\ stopErrors \in BOOLEAN
  /\ steps \in Seq(STRING) /\ ran \subseteq STRING
  /\ tail \in Int
  /\ postgres \in {"up", "down"} /\ leaseKey \in {"held", "none", "left"}
  /\ nats \in {"up", "stopped", "forced"}
  /\ exit \in {"", "startErr.Code", "ExitSingleton", "ExitInternal",
               "ExitDrainTimeout", "ExitOK"}

(* Exit code 0 is a promise to the supervisor: Postgres is down and every   *)
(* step of the drain ran, the lease release included (Drain, ExitCode, and  *)
(* the %v of StopPostgres that keeps a failed stop from looking like a      *)
(* context error).                                                          *)
ExitOKMeansStopped ==
  exit = "ExitOK" => postgres = "down" /\ leaseKey # "held" /\ nats # "up"

(* Whatever ends the process, the lease is given up only after the step     *)
(* that stops Postgres ran, and Postgres is stopped only by a drain that    *)
(* owns it: not after a singleton conflict or a failed start                *)
(* (buildShutdownSteps and its stopPostgres).                               *)
ReleaseAfterPostgres ==
  [][/\ leaseKey' # leaseKey /\ StopsPostgres => "postgres" \in ran
     /\ postgres' # postgres => StopsPostgres /\ leaseKey' = leaseKey]_drainVars

(* A "postgres" step that starts with room for the fast floor and both      *)
(* reserves leaves the tail reserve untouched, escalation included          *)
(* (fastStopWindow and the immediate window of StopPostgres).               *)
TailReserved ==
  [][ran' # ran /\ Head(steps) = "postgres"
       /\ budget - clock >= FastFloor + ImmediateWindow + TailReserve
     => budget - clock' >= TailReserve]_drainVars

(* The drain may overrun its budget, but only by one step that ignores its  *)
(* context: the loop of Drain looks at the deadline before every step.      *)
OverrunBounded ==
  clock <= budget + Max2(RouteTimeout, Max2(PublishTimeout, DeleteTimeout))

(* The lease is released in every drain whose "postgres" step leaves more   *)
(* than the history publish of "embedded-pre-stop" may take: the steps      *)
(* between them cost nothing else.  (TailReserve is less than that.)        *)
ReleaseGivenTail == exit # "" /\ tail > PublishTimeout => "cluster" \in ran

(* The process always exits, and within its budget but for the one step     *)
(* that ignores its context: every step returns, and Drain looks at the     *)
(* deadline before the next.                                                *)
AlwaysExits == []OverrunBounded /\ <>(exit # "")
=============================================================================
