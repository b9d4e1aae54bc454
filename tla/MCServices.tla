----------------------------- MODULE MCServices -----------------------------
(* Scenarios for Services: a valid configuration of a three-node cluster,    *)
(* changed in one or two places of one or two layers; and the same           *)
(* configuration under each fault.                                           *)
EXTENDS Services

\* The file of a cluster deployment, with every required key.
Base ==
  [cluster_id |-> "c", node_id |-> "node-a", peers |-> {"node-a", "node-b"},
   declared_size |-> 3, route_peers |-> {"node-b"}, jetstream_dir |-> "js",
   username |-> "u", password_env |-> "PW", cluster_cert |-> "crt",
   cluster_key |-> "key", proxy_listen |-> "0.0.0.0:p", bin_dir |-> "bin",
   data_dir |-> "data", local_dsn_env |-> "DSN", replication_addr |-> "a1",
   token_env |-> "TOKEN", control_listen |-> "127.0.0.1:p"]

NoLayer == [k \in {} |-> 0]

Plain ==
  [yamlOK |-> TRUE, yaml |-> Base, env |-> NoLayer, alias |-> NoLayer,
   flags |-> NoLayer, garbled |-> {}, secret |-> "strong", tlsOK |-> TRUE,
   marks |-> {"tini"}, faults |-> {}]

\* One value at one key of one layer.
Sets(layer, key, values) == {[layer |-> layer, key |-> key, value |-> v] : v \in values}

Edits ==
  Sets("yaml", "deployment_mode", {Sidecar, "daemon"})
  \cup Sets("env", "deployment_mode", {Sidecar})
  \cup Sets("flags", "proxy_listen", {":p", "10.0.0.1:p"})
  \cup Sets("env", "control_listen", {":p", "10.0.0.1:p", "no-port", "[::]:p"})
  \cup Sets("yaml", "control_listen", {"", "localhost:p"})
  \cup Sets("env", "control_cert", {"crt"}) \cup Sets("env", "control_key", {"key"})
  \cup Sets("env", "control_ack", {TRUE})
  \cup Sets("yaml", "routes_listen", {":p", "127.0.0.1:p", "10.0.0.1:p", "no-port"})
  \cup Sets("yaml", "routes_enabled", {FALSE})
  \cup Sets("env", "declared_size", {0, 1, 2})
  \cup Sets("yaml", "cluster_cert", {""}) \cup Sets("yaml", "cluster_key", {""})
  \cup Sets("yaml", "cluster_ack", {TRUE}) \cup Sets("yaml", "username", {""})
  \cup Sets("yaml", "password_env", {""}) \cup Sets("env", "password_file", {"pw"})
  \cup Sets("yaml", "jetstream_dir", {""}) \cup Sets("yaml", "route_peers", {{}, {"?"}})
  \cup Sets("alias", "node_id", {"node-b"}) \cup Sets("env", "node_id", {"node-a", "Node_A"})
  \cup Sets("flags", "node_id", {"node-b"})
  \cup Sets("alias", "peers", {{"node-b"}}) \cup Sets("env", "peers", {{}})
  \cup Sets("env", "drain_budget", {0, -1}) \cup Sets("yaml", "drain_budget", {-1})
  \cup Sets("env", "route_timeout", {0, 300, 301}) \cup Sets("yaml", "nats_legacy", {TRUE})
  \cup Sets("yaml", "tls_mode", {"disable"}) \cup Sets("env", "tls_ack", {TRUE})
  \cup Sets("env", "replication_addr", {"no-port", "a2"})
  \cup Sets("yaml", "replication_addr", {""})
  \cup Sets("env", "token_file", {"tok"}) \cup Sets("yaml", "token_env", {""})
  \cup Sets("flags", "switch_policy", {"pause", "never"})
  \cup Sets("yaml", "route_mode", {"redirect", "drop"})
  \cup Sets("yaml", "assume_supervised", {TRUE})

Applied(s, e) ==
  [s EXCEPT ![e.layer] = [k \in DOMAIN s[e.layer] \cup {e.key} |->
                            IF k = e.key THEN e.value ELSE s[e.layer][k]]]

\* What the configuration refers to is not what it should be.
Odd ==
  {Plain, [Plain EXCEPT !.yamlOK = FALSE], [Plain EXCEPT !.garbled = {"declared_size"}],
   [Plain EXCEPT !.secret = "short"], [Plain EXCEPT !.secret = ""],
   [Plain EXCEPT !.tlsOK = FALSE]}

\* Only the control plane has key material, and it does not load.
ControlTLSBroken ==
  [Plain EXCEPT !.tlsOK = FALSE, !.yaml.cluster_cert = "", !.yaml.cluster_key = "",
                !.env = [cluster_ack |-> TRUE, control_cert |-> "crt",
                         control_key |-> "key"]]

ConfigScenarios ==
  Odd \cup {ControlTLSBroken}
  \cup {Applied(Applied(Plain, e), f) : e \in Edits, f \in Edits}
  \cup {Applied(s, e) : s \in Odd, e \in Edits}

Supervisors ==
  {{}, {"KUBERNETES_SERVICE_HOST"}, {"NOTIFY_SOCKET"}, {"PC_PROC_NAME", "tini"},
   {"systemd"}}

StopScenarios ==
  {[Plain EXCEPT !.marks = m, !.faults = {"restart"}] : m \in Supervisors}
  \cup {[Plain EXCEPT !.marks = m, !.faults = {"restart", "signal", "gates", "manager"}] :
          m \in {{}, {"tini"}}}

FaultScenarios ==
  {[Plain EXCEPT !.faults = f] :
     f \in {{"disk", "signal"}, {"disk", "restart"}, {"routes", "signal"},
            {"resolve", "signal"}, {"disk", "routes"}}}

MCScenarios == ConfigScenarios \cup StopScenarios \cup FaultScenarios
MCPeers == {"node-a", "node-b", "node-c"}
MCAddrs == {"a1", "a2"}
=============================================================================
