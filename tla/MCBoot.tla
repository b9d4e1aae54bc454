------------------------------- MODULE MCBoot -------------------------------
(* Six small situations of start-up and reload for TLC.                   *)
EXTENDS Boot

CONSTANTS n1, n2

Config(size, routes, password, extras) ==
  [size |-> size, override |-> 0, routes |-> routes, name |-> "c",
   password |-> password, extras |-> extras, valid |-> TRUE]

Solo == Config(1, {}, 0, <<>>)
SoloRules == Config(1, {}, 0, <<"rule">>)
Pair == Config(2, {1}, 0, <<>>)
PairRouted == Config(2, {1, 2}, 0, <<>>)
PairRotated == Config(2, {1}, 1, <<>>)
PairRenamed == [Pair EXCEPT !.name = "d"]
PairInvalid == [Pair EXCEPT !.valid = FALSE]
PairOneReplica == [Pair EXCEPT !.override = 1]

MCConfigs == {Solo, SoloRules, Pair, PairRouted, PairRotated, PairRenamed,
              PairInvalid, PairOneReplica}

Base ==
  [name |-> "formation", start |-> [n \in Node |-> Pair], up |-> {}, nodes |-> Node,
   boots |-> 4, edits |-> 0, losses |-> 2, writes |-> {}, bucket |-> Absent,
   pgdata |-> "empty", confs |-> {<<>>}, signals |-> FALSE]

(* Both peers of a new cluster start at once, one of them perhaps twice.   *)
Formation == Base

(* One peer restarts with a larger replication factor than the bucket has. *)
Upgrade ==
  [Base EXCEPT !.name = "upgrade", !.start = [n \in Node |-> IF n = n1 THEN Pair ELSE PairOneReplica],
               !.up = {n2}, !.nodes = {n1}, !.boots = 2,
               !.bucket = [exists |-> TRUE, replicas |-> 1, direct |-> FALSE]]

(* A peer with a smaller target than the bucket's replicas.                *)
Shrink ==
  [Base EXCEPT !.name = "shrink", !.start = [n \in Node |-> IF n = n1 THEN PairOneReplica ELSE Pair],
               !.up = {n2}, !.nodes = {n1}, !.boots = 1,
               !.bucket = [exists |-> TRUE, replicas |-> 2, direct |-> FALSE]]

(* One peer is expanded and rolled back between boots.                     *)
Expand ==
  [Base EXCEPT !.name = "expand", !.start = [n \in Node |-> Solo], !.nodes = {n1}, !.boots = 6,
               !.edits = 5, !.losses = 0, !.writes = {Solo, Pair}]

(* One peer with an existing database whose managed lines change.          *)
Database ==
  [Base EXCEPT !.name = "database", !.start = [n \in Node |-> Solo], !.nodes = {n1}, !.boots = 4,
               !.edits = 3, !.losses = 0, !.writes = {Solo, SoloRules},
               !.pgdata = "complete",
               !.confs = {<<"own">>, <<"own", Begin, "old", End, "tail">>, <<End, "own", Begin>>}]

(* Two running peers; the operator edits one's configuration and signals.  *)
Reloads ==
  [Base EXCEPT !.name = "reloads", !.up = Node, !.nodes = {n1}, !.boots = 0, !.edits = 4,
               !.writes = {Pair, PairRouted, PairRotated, PairRenamed, PairInvalid},
               !.bucket = [exists |-> TRUE, replicas |-> 2, direct |-> FALSE],
               !.signals = TRUE]

MCScenarios == {Formation, Upgrade, Shrink, Expand, Database, Reloads}

ASSUME OneTarget /\ OneMode /\ PlainLines


DatabaseOnly == {Database}
ReloadsOnly == {Reloads}
=============================================================================
