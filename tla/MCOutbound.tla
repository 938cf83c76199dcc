------------------------------ MODULE MCOutbound ------------------------------
(***************************************************************************)
(* Outbound with sources configured like those of src/ssf-relay.yaml, and  *)
(* variants of them.                                                       *)
(***************************************************************************)
EXTENDS Outbound

Rule(prefix, event) == [prefix |-> prefix, event |-> event]

\* The second rule is also a prefix of the first one's paths, and the last one
\* has an event type of its own.
VaultConfig ==
  [mount_rules   |-> << Rule(<<"database/", "creds/">>, "credential-issued"),
                        Rule(<<"database/">>, "secret-accessed"),
                        Rule(<<"kv/data/">>, "kv-read") >>,
   drop_prefixes |-> { <<"sys/">>, <<"auth/", "token/lookup">> }]

K8sConfig ==
  [stages     |-> {"ResponseComplete"},
   drop_users |-> { <<"system:node">> },
   drop_verbs |-> {"watch"}]

OpaConfig == [emit_allow |-> FALSE, drop_paths |-> {"data.system.main"}]

NoConfig == <<>>

Setup(type, config, inline, file) ==
  [type |-> type, config |-> config, inline |-> inline, file |-> file]

Unsigned(type, configs) == {Setup(type, c, "", "") : c \in configs}

MCSetups ==
  Unsigned("vault-audit", {VaultConfig, NoConfig, [mount_rules |-> Malformed]})
  \cup Unsigned("k8s-audit",
         {K8sConfig, NoConfig, [stages |-> Null],
          [stages |-> {"RequestReceived", "ResponseComplete"}, drop_users |-> Malformed],
          [stages |-> {"RequestReceived", "ResponseComplete"}]})
  \cup Unsigned("opa-decision", {OpaConfig, [emit_allow |-> TRUE], [emit_allow |-> Null]})
  \cup Unsigned("syslog", {NoConfig})
  \cup {Setup("opa-decision", OpaConfig, inline, file) :
          inline \in {"", "P-256", "P-384", "garbage"},
          file \in {"P-256", "unreadable"}}

VaultOp(path, op, login, ok) ==
  [path |-> path, op |-> op, login |-> login, ok |-> ok, actor |-> "alice"]

\* Among them a revocation that is refused, a read of a secret named like one, and
\* one of a user whose name begins with login.
VaultOps ==
  {VaultOp(<<"database/", "creds/", "app">>, "read", FALSE, ok) : ok \in BOOLEAN}
  \cup {VaultOp(<<"kv/data/", "app">>, "read", FALSE, TRUE),
        VaultOp(<<"kv/data/", "app", "/revoke">>, "read", FALSE, TRUE),
        VaultOp(<<"auth/", "userpass/users", "/login", "bot">>, "read", FALSE, TRUE),
        VaultOp(<<"sys/", "health">>, "read", FALSE, FALSE)}
  \cup {VaultOp(<<"sys/", "leases", "/revoke">>, "update", FALSE, ok) : ok \in BOOLEAN}
  \cup {VaultOp(<<"auth/", "k8s", "/login">>, "update", TRUE, ok) : ok \in BOOLEAN}

K8sOp(verb, resource, user, code) ==
  [verb |-> verb, resource |-> resource, user |-> user, code |-> code, actor |-> "uid"]

K8sOps ==
  {K8sOp("get", "secrets", <<"alice">>, code) : code \in {200, 403, 404, 500}}
  \cup {K8sOp("get", "secrets", <<"system:node", ":n1">>, 200),
        K8sOp("get", "pods", <<"alice">>, 200),
        K8sOp("watch", "secrets", <<"alice">>, 403),
        K8sOp("create", "serviceaccounts/token", <<"alice">>, 201),
        K8sOp("delete", "secrets", <<"alice">>, 200)}

OpaOp(path, result, input) ==
  [path |-> path, result |-> result, input |-> input, labels |-> "opa-1"]

\* Among them a denial of an input that is no object.
OpaOps ==
  {OpaOp("data.policy.allow", r, "object") : r \in {"false", "true", "null", "object"}}
  \cup {OpaOp("data.policy.allow", "false", Malformed),
        OpaOp("data.system.main", "false", "object")}

\* The parts of a line that is cut in the middle, and at its ends.
MCCuts ==
  [type \in SourceTypes |->
     CASE type = "vault-audit"  ->
            {{"type", "authEntity"}, {"id", "path", "op", "requestEntity", "error"}}
       [] type = "k8s-audit"    -> {{"id", "stage", "verb", "user", "uid"}, {"resource", "code"}}
       [] type = "opa-decision" -> {{"labels", "id", "path"}, {"input", "result"}}]

MCOperations ==
  [type \in SourceTypes \cup {"syslog"} |->
     CASE type = "vault-audit"  -> VaultOps
       [] type = "k8s-audit"    -> K8sOps
       [] type = "opa-decision" -> OpaOps
       [] type = "syslog"       -> {}]

\* The conditions that the theorems about these properties have hold here.
ASSUME ConditionsHold == WatchesOnce /\ WatchesToTheEnd
=============================================================================
