------------------------------- MODULE Reload -------------------------------
(***************************************************************************)
(* The SIGHUP path of one peer (internal/runtime/reload.go and             *)
(* internal/embedded/reload.go): the operator edits the configuration and  *)
(* the cluster password's file, sends SIGHUP, and the handler diffs what   *)
(* it reads against its in-memory copy and hands the new options to the    *)
(* running embedded NATS server.  Boot.tla puts this beside the start-up   *)
(* of the peer and gives the next-state relation.                          *)
(*                                                                         *)
(* A configuration is a record                                             *)
(*   size      cluster.declared_size                                       *)
(*   override  cluster.replication_factor_override, 0 when unset           *)
(*   routes    cluster.route_peers, a set of addresses                     *)
(*   name      cluster.name, standing for every startup-only key           *)
(*   password  the content of the file cluster.password points at          *)
(*   extras    the lines of postgres.conf_extras and of hba_extras         *)
(*   valid     config.Load and config.Validate accept it                   *)
(***************************************************************************)
EXTENDS Naturals, Sequences, FiniteSets

CONSTANTS Node,         \* the peers
          Configs,      \* the configurations the operator may write
          None          \* not a configuration, an options record or a node

VARIABLES
  file,     \* file[n]: the configuration on n's disk
  cfg,      \* cfg[n]: ReloadHandler.CurrentCfg, None while n is not up
  server,   \* server[n]: the options the embedded server runs with, or None
  hup,      \* hup[n]: the capacity-1 signal channel of Wait holds a SIGHUP
  reading,  \* reading[n]: what applyOnce has read so far, None outside it
  edited,   \* edited[n]: file[n] changed since the last SIGHUP was sent
  failed    \* failed[n]: the last applyOnce returned an error

reloadVars == <<file, cfg, server, hup, reading, edited, failed>>

(* DeriveReplicas: the declared size, at most three.                       *)
DeriveReplicas(size) == IF size <= 2 THEN size ELSE 3

(* DecideReplicas(...).Effective(): an override replaces the derived count. *)
DecideReplicas(c) ==
  IF c.override > 0 THEN c.override ELSE DeriveReplicas(c.size)

(* BuildOptions: routes and credential only reach the options of a         *)
(* clustered server.                                                       *)
BuildOptions(clustered, routes, password, name) ==
  [clustered |-> clustered,
   routes    |-> IF clustered THEN routes ELSE {},
   password  |-> IF clustered THEN password ELSE None,
   name      |-> name]

(* optionsFromConfig, and the same lines of bootEmbeddedNATS.              *)
optionsFromConfig(c, password) == BuildOptions(c.size > 1, c.routes, password, c.name)

(* A broken diff that overlooks removed routes.                            *)
hasAddedOrRotated(old, new) ==
  \/ ~(new.routes \subseteq old.routes)
  \/ old.password # new.password

(* ComputeDiff: is there a change of an allow-listed key?                  *)
hasAllowListed(old, new) ==
  \/ old.routes # new.routes
  \/ old.password # new.password

(* ReloadOptions of the NATS server: routes and cluster password take      *)
(* effect, everything else is ineffective until a restart.                 *)
ReloadOptions(running, new) ==
  [running EXCEPT !.routes = new.routes, !.password = new.password]

(* The operator replaces the configuration or the secret on disk.          *)
OperatorEdits(n) ==
  \E c \in Configs \ {file[n]} :
    /\ file' = [file EXCEPT ![n] = c]
    /\ edited' = [edited EXCEPT ![n] = TRUE]
    /\ UNCHANGED <<cfg, server, hup, reading, failed>>

(* kill -HUP.  signal.Notify drops the signal when the channel is full.    *)
(* One sent before Wait is installed is swallowed (SignalContext) and is   *)
(* not modelled.                                                           *)
OperatorSignals(n) ==
  /\ edited[n]
  /\ server[n] # None
  /\ hup' = [hup EXCEPT ![n] = TRUE]
  /\ edited' = [edited EXCEPT ![n] = FALSE]
  /\ UNCHANGED <<file, cfg, server, reading, failed>>

(* applyOnce, first half: Wait takes the signal, config.Load and Validate  *)
(* read the file, and the OLD password is resolved from the source the     *)
(* in-memory configuration names, which is the file the operator rewrote.  *)
ReloadRead(n) ==
  /\ hup[n] /\ reading[n] = None
  /\ hup' = [hup EXCEPT ![n] = FALSE]
  /\ IF file[n].valid
       THEN /\ reading' = [reading EXCEPT ![n] = [new |-> file[n], oldPw |-> file[n].password]]
            /\ UNCHANGED failed
       ELSE /\ failed' = [failed EXCEPT ![n] = TRUE]
            /\ UNCHANGED reading
  /\ UNCHANGED <<file, cfg, server, edited>>

(* applyOnce, second half: the new password is resolved, the diff computed *)
(* and, when an allow-listed key changed, the server reloaded.  The NATS   *)
(* server may refuse, and then nothing changes.  Of the in-memory copy     *)
(* only the routes advance.                                                *)
ReloadApply(n) ==
  /\ reading[n] # None
  /\ reading' = [reading EXCEPT ![n] = None]
  /\ LET old == optionsFromConfig(cfg[n], reading[n].oldPw)
         new == optionsFromConfig(reading[n].new, file[n].password)
     IN \/ /\ hasAllowListed(old, new)
           /\ server' = [server EXCEPT ![n] = ReloadOptions(@, new)]
           /\ cfg' = [cfg EXCEPT ![n].routes = reading[n].new.routes]
           /\ failed' = [failed EXCEPT ![n] = FALSE]
        \/ /\ ~hasAllowListed(old, new)
           /\ failed' = [failed EXCEPT ![n] = FALSE]
           /\ UNCHANGED <<server, cfg>>
        \/ /\ hasAllowListed(old, new)
           /\ failed' = [failed EXCEPT ![n] = TRUE]
           /\ UNCHANGED <<server, cfg>>
  /\ UNCHANGED <<file, hup, edited>>

(* Nothing is left to do: the operator signalled after the last edit, no   *)
(* signal waits, no pass runs and the last one returned no error.          *)
ReloadSettled(n) ==
  /\ server[n] # None
  /\ ~hup[n] /\ reading[n] = None
  /\ ~edited[n] /\ ~failed[n]

ReloadTypeOK ==
  /\ file \in [Node -> Configs]
  /\ \A n \in Node : (server[n] = None) \/ (cfg[n] # None)
  /\ hup \in [Node -> BOOLEAN]
  /\ edited \in [Node -> BOOLEAN]
  /\ failed \in [Node -> BOOLEAN]
=============================================================================
