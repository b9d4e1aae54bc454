------------------------------- MODULE Config -------------------------------
(***************************************************************************)
(* How a peer gets its configuration: Load merges the defaults, the YAML   *)
(* file, the environment and the flags, ApplyModeDefaults rewrites the     *)
(* listeners of a sidecar, Validate lists the problems, and the embedded   *)
(* server's options are assembled from what is left.                       *)
(*                                                                         *)
(* A layer is a function on the keys it sets; only the keys that some rule *)
(* reads are kept.  An empty variable or flag is an unset one.  A listener *)
(* address is one of a few forms, with p for the port; the address of the  *)
(* routes listener is the host:port that Validate renders from its host.   *)
(***************************************************************************)
EXTENDS Integers

Sidecar == "sidecar"
AllInterfaces == {":p", "0.0.0.0:p", "[::]:p"}
Loopback == {"127.0.0.1:p", "localhost:p"}
Routable == "10.0.0.1:p"
NoPort == "no-port"     \* what net.SplitHostPort refuses

\* Defaults, with the zero values of the keys that have none.
Defaults ==
  [deployment_mode |-> "standalone", cluster_id |-> "", cluster_name |-> "",
   node_id |-> "", peers |-> {}, nats_legacy |-> FALSE, connect_timeout |-> 10,
   declared_size |-> 0, ready_timeout |-> 45, route_peers |-> {},
   jetstream_dir |-> "", routes_enabled |-> TRUE, routes_listen |-> "0.0.0.0:p",
   username |-> "", password_env |-> "", password_file |-> "",
   cluster_cert |-> "", cluster_key |-> "", cluster_ack |-> FALSE,
   proxy_listen |-> "", switch_policy |-> "hard_close",
   assume_supervised |-> FALSE, bin_dir |-> "", data_dir |-> "",
   local_dsn_env |-> "", replication_addr |-> "", tls_mode |-> "verify-full",
   tls_ack |-> FALSE, health_addr |-> ":p", metrics_addr |-> ":p",
   control_listen |-> "", route_mode |-> "forward", route_timeout |-> 30,
   token_env |-> "", token_file |-> "", control_cert |-> "", control_key |-> "",
   control_ack |-> FALSE, drain_budget |-> 30]

Keys == DOMAIN Defaults

\* The keys that the file alone can set, and those that have an alias or a flag.
YAMLOnly == {"nats_legacy", "routes_enabled", "routes_listen", "assume_supervised"}
AliasKeys == {"cluster_id", "node_id", "peers", "data_dir", "bin_dir", "proxy_listen"}
FlagKeys == {"cluster_id", "cluster_name", "node_id", "peers", "proxy_listen",
             "switch_policy", "metrics_addr"}

\* The keys of applyEnv's second table that hold a duration.
Durations == {"connect_timeout", "ready_timeout", "route_timeout", "drain_budget"}

\* The values of layer over those of cfg.
Overlay(cfg, layer) ==
  [k \in Keys |-> IF k \in DOMAIN layer THEN layer[k] ELSE cfg[k]]

\* applyEnv fails: a value of the second table does not parse, or is a
\* negative duration.
EnvFails(in) ==
  in.garbled # {} \/ \E k \in DOMAIN in.env \cap Durations : in.env[k] < 0

\* Mutant: an alias is set whether or not its canonical variable is.
ApplyEnvAliasWins(cfg, in) == Overlay(Overlay(cfg, in.env), in.alias)

\* applyEnv: the canonical variables, then the aliases whose canonical
\* variable is not set.
ApplyEnv(cfg, in) ==
  Overlay(Overlay(cfg, in.env),
          [k \in DOMAIN in.alias \ DOMAIN in.env |-> in.alias[k]])

\* preferLoopbackIfAllInterfaces
PreferLoopback(addr) == IF addr \in AllInterfaces THEN "127.0.0.1:p" ELSE addr

\* ApplyModeDefaults
ApplyModeDefaults(cfg) ==
  IF cfg.deployment_mode # Sidecar THEN cfg
  ELSE [cfg EXCEPT !.proxy_listen = PreferLoopback(@),
                   !.health_addr = PreferLoopback(@),
                   !.metrics_addr = PreferLoopback(@),
                   !.control_listen = PreferLoopback(@)]

\* Load fails: the file cannot be read or parsed, or applyEnv fails.  main
\* builds the flags itself, so that no flag is unknown.
LoadFails(in) == ~in.yamlOK \/ EnvFails(in)

\* Load
Load(in) ==
  ApplyModeDefaults(
    Overlay(ApplyEnv(Overlay(Defaults, in.yaml), in), in.flags))

-----------------------------------------------------------------------------
(* Validate *)

\* nodeIDRegexp
Identifiers == {"c", "node-a", "node-b"}

\* isLoopbackAddr, and the error it returns.
BadAddr(addr) == addr \in {"", NoPort}
IsLoopback(addr) == addr \in Loopback

\* Both or neither.
HalfPair(a, b) == (a = "") # (b = "")
Both(a, b) == a # "" /\ b # ""

\* Validation of cluster.* in one peer and in many.
RoutesEnabled(c) == c.routes_enabled /\ c.declared_size > 1

\* Mutant: the material is required only of a listener on all interfaces.
ExposedRoutesAll(c) == RoutesEnabled(c) /\ c.routes_listen \in AllInterfaces

\* The routes listener is reachable from other hosts.
ExposedRoutes(c) ==
  RoutesEnabled(c) /\ ~BadAddr(c.routes_listen) /\ ~IsLoopback(c.routes_listen)

\* validateCluster: each rule, and whether c breaks it.
ClusterRules(c) ==
  [declared_size   |-> c.declared_size < 1,
   ready_timeout   |-> c.ready_timeout <= 0,
   route_peers     |-> c.declared_size > 1 /\ c.route_peers = {},
   jetstream_dir   |-> c.declared_size >= 2 /\ c.jetstream_dir = "",
   routes_enabled  |-> c.declared_size > 1 /\ ~c.routes_enabled,
   routes_listen   |-> RoutesEnabled(c) /\ BadAddr(c.routes_listen),
   username        |-> ExposedRoutes(c) /\ c.username = "",
   password        |-> ExposedRoutes(c) /\ c.password_env = "" /\ c.password_file = "",
   cluster_tls     |-> /\ ExposedRoutes(c)
                       /\ ~Both(c.cluster_cert, c.cluster_key) /\ ~c.cluster_ack,
   cluster_pair    |-> ExposedRoutes(c) /\ HalfPair(c.cluster_cert, c.cluster_key),
   password_source |-> Both(c.password_env, c.password_file)]

\* Validate: the other rules.
Rules(c) ==
  [deployment_mode  |-> c.deployment_mode \notin {"standalone", "microservice", Sidecar},
   cluster_id       |-> c.cluster_id \notin Identifiers,
   node_id          |-> c.node_id \notin Identifiers,
   peers            |-> c.peers = {} \/ ~(c.peers \subseteq Identifiers),
   peers_self       |-> c.peers # {} /\ c.node_id # "" /\ c.node_id \notin c.peers,
   nats_legacy      |-> c.nats_legacy,
   connect_timeout  |-> c.connect_timeout <= 0,
   proxy_listen     |-> c.proxy_listen = "",
   switch_policy    |-> c.switch_policy \notin {"hard_close", "drain", "pause"},
   postgres         |-> c.bin_dir = "" \/ c.data_dir = "" \/ c.local_dsn_env = "",
   replication_addr |-> c.replication_addr = NoPort,
   tls_mode         |-> c.tls_mode = "disable" /\ ~c.tls_ack,
   token_source     |-> Both(c.token_env, c.token_file),
   token            |-> c.token_env = "" /\ c.token_file = "",
   route_mode       |-> c.route_mode \notin {"forward", "redirect"},
   route_timeout    |-> c.route_timeout <= 0 \/ c.route_timeout > 300,
   control_pair     |-> c.control_listen # "" /\ HalfPair(c.control_cert, c.control_key),
   control_listen   |-> c.control_listen = NoPort,
   control_tls      |-> /\ ~BadAddr(c.control_listen) /\ ~IsLoopback(c.control_listen)
                        /\ ~Both(c.control_cert, c.control_key) /\ ~c.control_ack,
   drain_budget     |-> c.drain_budget < 0]

\* What Validate reports, all at once.  It works on a copy: the name that
\* validateCluster fills in is not seen by the caller.
Problems(c) ==
  {r \in DOMAIN Rules(c) : Rules(c)[r]} \cup
  {r \in DOMAIN ClusterRules(c) : ClusterRules(c)[r]}

-----------------------------------------------------------------------------
(* bootEmbeddedNATS up to the options *)

\* resolveClusterPassword; in.secret is what the variable or the file holds:
\* "short" (less than 16 bytes), "strong", or "" when it is empty or missing.
PasswordFails(c, in) == (c.password_env # "" \/ c.password_file # "") /\ in.secret = ""
Password(c, in) ==
  IF c.password_env # "" \/ c.password_file # "" THEN in.secret ELSE ""

\* LoadClusterCredential, called when there is a name or a password.
CredentialFails(c, in) ==
  /\ c.username # "" \/ Password(c, in) # ""
  /\ c.username = "" \/ Password(c, in) # "strong"

\* BuildOptions fails: key material that does not load, a route URL that does
\* not parse.  The identities it asks for have been validated.
OptionsFail(c, in) ==
  RoutesEnabled(c) /\ \/ Both(c.cluster_cert, c.cluster_key) /\ ~in.tlsOK
                      \/ ~(c.route_peers \subseteq Identifiers)

\* The routes listener as BuildOptions sets it up: its address, whether its
\* peers must present the credential, whether it speaks TLS.
RoutesOptions(c, in) ==
  [addr |-> IF c.routes_listen = ":p" THEN "0.0.0.0:p" ELSE c.routes_listen,
   auth |-> c.username # "" \/ Password(c, in) # "",
   tls  |-> Both(c.cluster_cert, c.cluster_key)]
=============================================================================
