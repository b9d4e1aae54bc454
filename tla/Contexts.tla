------------------------------ MODULE Contexts ------------------------------
(***************************************************************************)
(* pgmctl's contexts file (internal/pgmctl/config, cmd/config_cmd.go): the *)
(* read-modify-write edits of `pgmctl config`, each a process of its own   *)
(* that may be killed at any step, and how an invocation resolves its      *)
(* endpoint from flags, file and environment.                              *)
(*                                                                         *)
(* A file is [kind, ctxs, current]: kind "ok" when Load accepts it,        *)
(* "missing", or "bad" when Load refuses it (unparsable, or group- or      *)
(* world-readable).  os.WriteFile truncates and then writes; an empty file *)
(* is one Load accepts, with no context in it.                             *)
(***************************************************************************)
EXTENDS Integers, FiniteSets, TLC

CONSTANTS Nil,      \* the empty name, endpoint or cluster id
          Edits      \* the set of edits: [id, op, name, endpoint, pin, force]

VARIABLES file,      \* the contexts file
          ed,        \* ed[e] = [pc, cfg]: an edit's progress and the config it holds in memory
          stored     \* history: every [name, endpoint, pin] the file ever held

ctxVars == <<file, ed, stored>>

Empty == [kind |-> "ok", ctxs |-> <<>>, current |-> Nil]
Missing == [Empty EXCEPT !.kind = "missing"]
Bad == [Empty EXCEPT !.kind = "bad"]

Triples(f) == {[name |-> n, endpoint |-> f.ctxs[n].endpoint, pin |-> f.ctxs[n].pin] : n \in DOMAIN f.ctxs}

\* Context.Validate: an endpoint is required.  (The token sources and the scheme are constant here.)
Validate(c) == c.endpoint # Nil

CurrentFound(f) == f.current = Nil \/ f.current \in DOMAIN f.ctxs

\* Load: an error for a missing or refused file, an invalid context, or a dangling current-context.
LoadOK(f) == f.kind = "ok" /\ CurrentFound(f) /\ \A n \in DOMAIN f.ctxs : Validate(f.ctxs[n])

Override(new, old) == IF new = Nil THEN old ELSE new

\* newConfigSetContext: find or append, overlay the flags given, adopt as current when there is none.
SetContext(cfg, e) ==
    LET old == IF e.name \in DOMAIN cfg.ctxs THEN cfg.ctxs[e.name] ELSE [endpoint |-> Nil, pin |-> Nil]
        new == [endpoint |-> Override(e.endpoint, old.endpoint), pin |-> Override(e.pin, old.pin)]
    IN  [cfg EXCEPT !.ctxs = (e.name :> new) @@ cfg.ctxs,
                    !.current = IF @ = Nil THEN e.name ELSE @]

DeleteContext(cfg, name) ==
    [cfg EXCEPT !.ctxs = [n \in DOMAIN cfg.ctxs \ {name} |-> cfg.ctxs[n]],
                !.current = IF @ = name THEN Nil ELSE @]

\* The config an edit would save, or Bad when the command refuses and writes nothing.
\* set-context takes any Load error for a missing file and starts from an empty config.
Edited(e, f) ==
    CASE e.op = "set" ->
           LET new == SetContext(IF LoadOK(f) THEN f ELSE Empty, e)
           IN  IF Validate(new.ctxs[e.name]) THEN new ELSE Bad
      [] e.op = "use" -> IF LoadOK(f) /\ e.name \in DOMAIN f.ctxs THEN [f EXCEPT !.current = e.name] ELSE Bad
      [] e.op = "delete" ->
           IF LoadOK(f) /\ e.name \in DOMAIN f.ctxs /\ (f.current # e.name \/ e.force)
           THEN DeleteContext(f, e.name) ELSE Bad

ContextsInit(f) ==
    /\ file = f
    /\ ed = [e \in Edits |-> [pc |-> "start", cfg |-> Empty]]
    /\ stored = Triples(f)

\* Load, and the change made in memory.
EditLoad(e) ==
    /\ ed[e].pc = "start"
    /\ ed' = [ed EXCEPT ![e] = IF Edited(e, file) = Bad THEN [pc |-> "refused", cfg |-> Empty]
                               ELSE [pc |-> "loaded", cfg |-> Edited(e, file)]]
    /\ UNCHANGED <<file, stored>>

\* Save, first half: os.WriteFile opens the file with O_TRUNC.
SaveTruncate(e) ==
    /\ ed[e].pc = "loaded"
    /\ file' = Empty
    /\ ed' = [ed EXCEPT ![e].pc = "truncated"]
    /\ UNCHANGED stored

\* Another edit is between its own truncation and its end: the two writes land on one file
\* and the longer one's tail may survive the shorter one.
Overlapped(e) == \E o \in Edits \ {e} : ed[o].pc \in {"truncated", "saved"}

\* Save, second half.
SaveWrite(e) ==
    /\ ed[e].pc = "truncated"
    /\ file' \in {ed[e].cfg} \cup (IF Overlapped(e) THEN {Bad} ELSE {})
    /\ ed' = [ed EXCEPT ![e].pc = "saved"]
    /\ stored' = stored \cup Triples(file')

\* The editing process is killed, possibly in the middle of its write.
EditKilled(e) ==
    /\ ed[e].pc \in {"loaded", "truncated"}
    /\ ed' = [ed EXCEPT ![e].pc = "killed"]
    /\ file' \in {file} \cup (IF ed[e].pc = "truncated" THEN {Bad} ELSE {})
    /\ UNCHANGED stored

EditNext == \E e \in Edits : EditLoad(e) \/ SaveTruncate(e) \/ SaveWrite(e) \/ EditKilled(e)

(***************************************************************************)
(* Resolve: --endpoint, else the named or current context, else            *)
(* PGMCTL_ENDPOINT (its PGMCTL_TOKEN set).  f is [endpoint, context, env]; the result is *)
(* [ok, endpoint, pin, name], name the context the pin came from.          *)
(***************************************************************************)
NotResolved == [ok |-> FALSE, endpoint |-> Nil, pin |-> Nil, name |-> Nil]

FromContext(name) ==
    IF name \in DOMAIN file.ctxs
    THEN [ok |-> TRUE, endpoint |-> file.ctxs[name].endpoint, pin |-> file.ctxs[name].pin, name |-> name]
    ELSE NotResolved

Resolve(f) ==
    IF f.endpoint # Nil
    THEN IF f.context = Nil
         THEN [ok |-> TRUE, endpoint |-> f.endpoint, pin |-> Nil, name |-> Nil]
         ELSE IF LoadOK(file) /\ FromContext(f.context).ok
              THEN [FromContext(f.context) EXCEPT !.endpoint = f.endpoint, !.name = Nil]
              ELSE NotResolved
    ELSE LET named == IF f.context # Nil THEN f.context
                      ELSE IF LoadOK(file) THEN file.current ELSE Nil
         IN  IF LoadOK(file) /\ named # Nil THEN FromContext(named)
             ELSE [NotResolved EXCEPT !.ok = (f.env # Nil), !.endpoint = f.env]
=============================================================================
