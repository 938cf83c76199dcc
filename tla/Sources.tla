------------------------------- MODULE Sources -------------------------------
(***************************************************************************)
(* The source parsers (src/sources): what NewSource makes of a source's    *)
(* configuration, and what event Parse makes of a line of its log.         *)
(*                                                                         *)
(* A path, a user name or a prefix of one is a sequence of pieces, cut     *)
(* where the parsers look: strings.HasPrefix is IsPrefix of the pieces,    *)
(* and strings.Contains that one of them is there.                         *)
(***************************************************************************)
EXTENDS Integers, SequencesExt

CONSTANTS Null,       \* a key of the configuration without a value
          Malformed   \* a value of another type than the one it decodes to

SourceTypes == {"vault-audit", "k8s-audit", "opa-decision"}

NoEvent == [type |-> "none"]

-----------------------------------------------------------------------------
(* NewSource.                                                              *)

\* Build finds the type, and NewSource returns no error: a value decodes as
\* the list it should be, null as an empty one; but emit_allow is a Boolean.
Builds(type, cfg) ==
  /\ type \in SourceTypes
  /\ \A key \in DOMAIN cfg : cfg[key] # Malformed
  /\ "emit_allow" \in DOMAIN cfg => cfg.emit_allow # Null

\* The value of a key, where one that is there and null is empty.
Setting(cfg, key, default, empty) ==
  IF key \notin DOMAIN cfg THEN default
  ELSE IF cfg[key] = Null THEN empty ELSE cfg[key]

List(cfg, key) == Setting(cfg, key, {}, {})

VaultSource(cfg) ==
  [mountRules   |-> Setting(cfg, "mount_rules", <<>>, <<>>),
   dropPrefixes |-> List(cfg, "drop_prefixes")]

K8sSource(cfg) ==
  [stages    |-> Setting(cfg, "stages", {"ResponseComplete"}, {}),
   dropUsers |-> List(cfg, "drop_users"),
   dropVerbs |-> List(cfg, "drop_verbs")]

OpaSource(cfg) ==
  [emitAllow |-> Setting(cfg, "emit_allow", FALSE, FALSE),
   dropPaths |-> List(cfg, "drop_paths")]

NewSource(type, cfg) ==
  CASE type = "vault-audit"  -> VaultSource(cfg)
    [] type = "k8s-audit"    -> K8sSource(cfg)
    [] type = "opa-decision" -> OpaSource(cfg)

-----------------------------------------------------------------------------
(* Parse.                                                                  *)

\* What an object decodes to that has none of the fields.
EmptyVaultEntry ==
  [type |-> "", path |-> <<>>, op |-> "", id |-> 0, error |-> FALSE,
   requestEntity |-> "", authEntity |-> ""]

EmptyK8sEvent ==
  [stage |-> "", user |-> <<>>, uid |-> "", verb |-> "", resource |-> "",
   code |-> 0, id |-> 0]

EmptyOpaDecision ==
  [path |-> "", result |-> "null", id |-> 0, labels |-> "", input |-> ""]

\* A line that is no JSON object.
NotJSON == [decodes |-> FALSE]

\* A line decodes; labels must be strings and the input an object, which those
\* of an OPA decision need not be.
Decodes(type, line) ==
  /\ line # NotJSON
  /\ type = "opa-decision" => Malformed \notin {line.labels, line.input}

HasPrefixOf(text, prefixes) == \E p \in prefixes : IsPrefix(p, text)

\* The first mount rule whose prefix the path has, as a set of one or none.
MatchingRule(s, e) ==
  {i \in DOMAIN s.mountRules :
     /\ IsPrefix(s.mountRules[i].prefix, e.path)
     /\ \A j \in 1..(i - 1) : ~IsPrefix(s.mountRules[j].prefix, e.path)}

isRevoke(e) == e.op = "revoke" \/ Contains(e.path, "/revoke")

isLogin(e) == IsPrefix(<<"auth/">>, e.path) /\ Contains(e.path, "/login")

\* The type of the event of a response in Vault's audit log: the first rule
\* that applies.
ResponseType(s, e) ==
  IF isRevoke(e) THEN "credential-revoked"
  ELSE IF HasPrefixOf(e.path, s.dropPrefixes) THEN "none"
  ELSE IF e.error THEN "secret-denied"
  ELSE IF isLogin(e) THEN "auth-event"
  ELSE IF MatchingRule(s, e) # {}
       THEN s.mountRules[CHOOSE i \in MatchingRule(s, e) : TRUE].event
  ELSE "none"

\* Mutant of VaultType: the requests are looked at too.
VaultTypeOfAnyEntry(s, e) == ResponseType(s, e)

\* Mutant of VaultType: revocations are dropped with their prefix.
VaultTypeDropsFirst(s, e) ==
  IF e.type # "response" \/ HasPrefixOf(e.path, s.dropPrefixes) THEN "none"
  ELSE ResponseType(s, e)

VaultType(s, e) == IF e.type # "response" THEN "none" ELSE ResponseType(s, e)

\* Mutant of Succeeded: a request that has no code yet has not failed.
SucceededSoFar(code) == code < 300

Succeeded(code) == code \in 200..299

\* The type of the event of a Kubernetes audit event.
K8sType(s, e) ==
  IF \/ e.stage \notin s.stages
     \/ HasPrefixOf(e.user, s.dropUsers)
     \/ e.verb \in s.dropVerbs
       THEN "none"
  ELSE IF e.code \in {401, 403} THEN "secret-denied"
  ELSE IF ~Succeeded(e.code) THEN "none"
  ELSE IF e.verb \in {"get", "create"} /\ e.resource \in {"secrets", "configmaps"}
       THEN "secret-accessed"
  ELSE IF e.verb = "create" /\ e.resource \in {"serviceaccounts/token", "tokens"}
       THEN "credential-issued"
  ELSE IF e.verb = "delete" /\ e.resource = "secrets"
       THEN "credential-revoked"
  ELSE "none"

\* A result that is there and not the Boolean false allows.
isAllowed(result) == result \notin {"false", "null"}

\* The type of the event of an OPA decision.
OpaType(s, e) ==
  IF e.path \in s.dropPaths THEN "none"
  ELSE IF ~isAllowed(e.result) THEN "policy-denied"
  ELSE IF s.emitAllow THEN "policy-allowed" ELSE "none"

\* No event, or what the receiver is told: what happened, in which operation,
\* by whom.
EventIf(what, id, entity) ==
  IF what = "none" THEN NoEvent ELSE [type |-> what, id |-> id, entity |-> entity]

VaultParse(s, e) ==
  EventIf(VaultType(s, e), e.id,
          IF e.requestEntity # "" THEN e.requestEntity ELSE e.authEntity)

K8sParse(s, e) == EventIf(K8sType(s, e), e.id, e.uid)

\* An OPA decision names nobody but the OPA instance, by a label.
OpaParse(s, e) == EventIf(OpaType(s, e), e.id, e.labels)

Parse(type, s, line) ==
  IF ~Decodes(type, line) THEN NoEvent
  ELSE CASE type = "vault-audit"  -> VaultParse(s, line)
         [] type = "k8s-audit"    -> K8sParse(s, line)
         [] type = "opa-decision" -> OpaParse(s, line)
=============================================================================
