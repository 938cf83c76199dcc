------------------------------- MODULE Outbound -------------------------------
(***************************************************************************)
(* The outbound half for one source, end to end: from the operations of    *)
(* the audited system, which log each in one line or several, to the SETs  *)
(* that Emitter.Emit (src/relay/emitter.go) posts.  The relay reads the    *)
(* configuration, starts at the end of the log, may die and start again.   *)
(*                                                                         *)
(* The transport is what LineFeed promises of it: lines come in order and  *)
(* at most once, some do not come whole, and some come joined; a tailer    *)
(* may go back.  What becomes of a POST is modelled in SocketListener.     *)
(***************************************************************************)
EXTENDS Sources

CONSTANTS
  Setups,      \* configurations: a source's type and config, the two key fields
  Operations,  \* Operations[type]: what the audited system may be asked to do
  MaxOps,      \* bound: operations
  MaxStray,    \* bound: lines that are JSON objects, but of another kind
  Cuts,        \* Cuts[type]: sets of fields that may be those of a part of a line
  MaxFaults    \* bound: deaths of the process, joined lines and returns in the log

\* Nothing is asked of a system of a type that no source is built for.
ASSUME OutboundAssumption ==
  /\ \A s \in Setups : DOMAIN s = {"type", "config", "inline", "file"}
  /\ \A s \in Setups : s.type \in DOMAIN Operations
  /\ \A s \in Setups : s.type \in SourceTypes \/ Operations[s.type] = {}
  /\ DOMAIN Cuts = SourceTypes
  /\ MaxOps \in Nat /\ MaxStray \in Nat /\ MaxFaults \in Nat

VARIABLES
  setup,    \* the configuration
  proc,     \* the process: "off", "running" or "exited"
  ops,      \* operations of the audited system, in the order begun
  written,  \* written[k]: lines the k-th operation has logged
  log,      \* <<k, j>> for the j-th line of the k-th operation, <<0, 1>> for a stray one
  at,       \* lines of the log that are behind the relay
  posted,   \* SETs posted
  mixed,    \* those of them that come of joined lines, by their places in posted
  since,    \* SETs posted when the tailer last went back
  whole,    \* operations whose last line came to Parse whole
  faults    \* deaths, joined lines and returns so far

logVars      == <<setup, ops, written, log>>
postVars     == <<posted, mixed, since, whole>>
outboundVars == <<logVars, proc, at, postVars, faults>>

OutboundInit ==
  /\ setup \in Setups
  /\ proc = "off"
  /\ ops = <<>> /\ written = <<>> /\ log = <<>>
  /\ at = 0 /\ faults = 0
  /\ posted = <<>> /\ mixed = {} /\ since = 0 /\ whole = {}

-----------------------------------------------------------------------------
(* The audited system.                                                     *)

\* What the k-th operation logs.  Vault: the request, and the response to it; a
\* login is nobody's request.
VaultLines(op, k) ==
  LET entity == IF op.login THEN "" ELSE op.actor
      request == [EmptyVaultEntry EXCEPT !.type = "request", !.path = op.path, !.op = op.op,
                    !.id = k, !.requestEntity = entity, !.authEntity = entity]
  IN  << request,
         [request EXCEPT !.type = "response", !.error = ~op.ok,
            !.authEntity = IF op.ok THEN op.actor ELSE entity] >>

\* Kubernetes: an event per stage; a watch has started its response before it
\* completes it, and a panic completes none.
K8sLines(op, k) ==
  LET received == [EmptyK8sEvent EXCEPT !.stage = "RequestReceived", !.user = op.user,
                     !.uid = op.actor, !.verb = op.verb, !.resource = op.resource, !.id = k]
      reached(stage) == [received EXCEPT !.stage = stage, !.code = op.code]
      last == reached(IF op.code = 500 THEN "Panic" ELSE "ResponseComplete")
  IN  IF op.verb = "watch" THEN << received, reached("ResponseStarted"), last >>
                           ELSE << received, last >>

\* OPA: the decision.
OpaLines(op, k) ==
  << [path |-> op.path, result |-> op.result, id |-> k, labels |-> op.labels,
      input |-> op.input] >>

LinesOf(type, op, k) ==
  CASE type = "vault-audit"  -> VaultLines(op, k)
    [] type = "k8s-audit"    -> K8sLines(op, k)
    [] type = "opa-decision" -> OpaLines(op, k)

Lines(op, k) == LinesOf(setup.type, op, k)

\* A JSON object none of whose fields is one the parser looks for.
StrayLine ==
  CASE setup.type = "vault-audit"  -> EmptyVaultEntry
    [] setup.type = "k8s-audit"    -> EmptyK8sEvent
    [] setup.type = "opa-decision" -> EmptyOpaDecision

\* The line at a position of the log.
LineAt(a) ==
  IF log[a][1] = 0 THEN StrayLine ELSE Lines(ops[log[a][1]], log[a][1])[log[a][2]]

Complete(k) == written[k] = Len(Lines(ops[k], k))

\* An operation begins: its first line.
Begin ==
  /\ Len(ops) < MaxOps
  /\ \E op \in Operations[setup.type] : ops' = Append(ops, op)
  /\ written' = Append(written, 1)
  /\ log' = Append(log, <<Len(ops'), 1>>)
  /\ UNCHANGED <<setup, proc, at, postVars, faults>>

\* The next line of one that is under way, among others.
Continue(k) ==
  /\ ~Complete(k)
  /\ written' = [written EXCEPT ![k] = @ + 1]
  /\ log' = Append(log, <<k, written'[k]>>)
  /\ UNCHANGED <<setup, proc, ops, at, postVars, faults>>

Stray ==
  /\ Len(SelectSeq(log, LAMBDA l : l[1] = 0)) < MaxStray
  /\ log' = Append(log, <<0, 1>>)
  /\ UNCHANGED <<setup, proc, ops, written, at, postVars, faults>>

-----------------------------------------------------------------------------
(* The start of the relay: the signing key and the source.                 *)

\* The inline key, or else that of the file, or none.
ResolveSigningKeyPEM ==
  IF setup.inline # "" THEN [from |-> "inline", pem |-> setup.inline]
  ELSE IF setup.file # "" THEN [from |-> "file", pem |-> setup.file]
  ELSE [from |-> "none", pem |-> ""]

\* LoadSigningKeyFromPEM takes any EC key; there may be none to load.
KeyLoads == ResolveSigningKeyPEM.pem \in {"", "P-256", "P-384"}

\* Mutant of Start: one line too far.
StartBehindEnd ==
  /\ proc = "off"
  /\ KeyLoads /\ Builds(setup.type, setup.config)
  /\ proc' = "running"
  /\ at' = Len(log) + 1
  /\ UNCHANGED <<logVars, postVars, faults>>

\* The key is loaded, the source built, and the log opened at its end.
Start ==
  /\ proc = "off"
  /\ KeyLoads /\ Builds(setup.type, setup.config)
  /\ proc' = "running"
  /\ at' = Len(log)
  /\ UNCHANGED <<logVars, postVars, faults>>

\* The key cannot be read or parsed, or the source not be built: exit code 1.
StartFails ==
  /\ proc = "off"
  /\ ~(KeyLoads /\ Builds(setup.type, setup.config))
  /\ proc' = "exited"
  /\ UNCHANGED <<logVars, at, postVars, faults>>

\* The process dies, and may be started again.
Crash ==
  /\ proc = "running"
  /\ faults < MaxFaults
  /\ faults' = faults + 1
  /\ proc' = "off"
  /\ UNCHANGED <<logVars, at, postVars>>

-----------------------------------------------------------------------------
(* A line, from the transport to the receiver.                             *)

\* SignSET fails with a key that is not for ES256.
Signs == ResolveSigningKeyPEM.pem # "P-384"

\* Mutant of Emit: what cannot be signed is sent as it is.
EmitUnsigned(event) ==
  posted' = Append(posted, [type |-> event.type, id |-> event.id, entity |-> event.entity,
                            key |-> IF Signs THEN ResolveSigningKeyPEM.from ELSE "none"])

\* An event is posted as a SET, signed if there is a key; one that cannot be
\* signed is dropped.
Emit(event) ==
  posted' = IF Signs
              THEN Append(posted, [type |-> event.type, id |-> event.id,
                                   entity |-> event.entity,
                                   key |-> ResolveSigningKeyPEM.from])
              ELSE posted

\* The source that a setup builds.
Source(s) == NewSource(s.type, s.config)

ParseAndEmit(line) ==
  LET event == Parse(setup.type, Source(setup), line)
  IN  IF event = NoEvent THEN UNCHANGED posted ELSE Emit(event)

\* The next line comes to Parse.
Deliver ==
  /\ proc = "running" /\ at < Len(log)
  /\ at' = at + 1
  /\ ParseAndEmit(LineAt(at'))
  /\ LET k == log[at'][1]
     IN  whole' = IF k # 0 /\ log[at'][2] = Len(Lines(ops[k], k))
                    THEN whole \cup {k} ELSE whole
  /\ UNCHANGED <<logVars, proc, mixed, since, faults>>

\* It is lost, or what comes of it is a part, that is no JSON object.
DeliverTorn ==
  /\ proc = "running" /\ at < Len(log)
  /\ at' = at + 1
  /\ ParseAndEmit(NotJSON)
  /\ UNCHANGED <<logVars, proc, mixed, since, whole, faults>>

\* The beginning of one line and the end of another, when both parts make an
\* object: K are the fields of the one, L of the other, and a field that is cut
\* in two and fits neither is taken for missing.
Joined(first, second, K, L) ==
  [f \in DOMAIN StrayLine |->
     IF f \in L THEN second[f] ELSE IF f \in K THEN first[f] ELSE StrayLine[f]]

\* The log is truncated and has grown again before the tailer looks: what it
\* reads next goes on with the line it had begun.
DeliverJoined ==
  /\ proc = "running" /\ faults < MaxFaults
  /\ faults' = faults + 1
  /\ \E b \in (at + 2)..Len(log), K, L \in Cuts[setup.type] :
       /\ at' = b
       /\ ParseAndEmit(Joined(LineAt(at + 1), LineAt(b), K, L))
  /\ mixed' = mixed \cup ((Len(posted) + 1)..Len(posted'))
  /\ UNCHANGED <<logVars, proc, since, whole>>

\* An error of os.Stat makes the tailer open the file again, at its beginning.
Rewind ==
  /\ proc = "running" /\ faults < MaxFaults
  /\ faults' = faults + 1
  /\ at' \in 0..at
  /\ since' = Len(posted)
  /\ UNCHANGED <<logVars, proc, posted, mixed, whole>>

-----------------------------------------------------------------------------
AuditedSystem == Begin \/ Stray \/ \E k \in 1..Len(ops) : Continue(k)

OutboundNext ==
  \/ AuditedSystem
  \/ Start \/ StartFails \/ Crash
  \/ Deliver \/ DeliverTorn \/ DeliverJoined \/ Rewind

OutboundSpec == OutboundInit /\ [][OutboundNext]_outboundVars

-----------------------------------------------------------------------------
(* Properties.                                                             *)

\* The event types that the mount rules of a Vault source name: any string.
RuleEvents(s) == {Source(s).mountRules[i].event : i \in DOMAIN Source(s).mountRules}

\* The event types of a source: those of its parser, and for Vault those of the
\* mount rules.
EventTypesOf(s) ==
  CASE s.type = "vault-audit" ->
         {"credential-revoked", "secret-denied", "auth-event"} \cup RuleEvents(s)
    [] s.type = "k8s-audit" ->
         {"secret-accessed", "secret-denied", "credential-issued", "credential-revoked"}
    [] s.type = "opa-decision" -> {"policy-denied", "policy-allowed"}

\* The types of the variables.
OutboundTypeOK ==
  /\ setup \in Setups
  /\ proc \in {"off", "running", "exited"}
  /\ ops \in Seq(Operations[setup.type]) /\ Len(ops) <= MaxOps
  /\ written \in Seq(Nat) /\ Len(written) = Len(ops)
  /\ \A k \in 1..Len(ops) : written[k] \in 1..Len(Lines(ops[k], k))
  /\ log \in Seq((0..Len(ops)) \X Nat)
  /\ at \in 0..Len(log)
  /\ \A i \in 1..Len(posted) :
       /\ posted[i].type \in EventTypesOf(setup)
       /\ posted[i].id \in 0..Len(ops)
       /\ posted[i].key \in {"none", "inline", "file"}
  /\ mixed \subseteq 1..Len(posted)
  /\ since \in 0..Len(posted)
  /\ whole \subseteq 1..Len(ops)
  /\ faults \in 0..MaxFaults

(***************************************************************************)
(* However many lines an operation logs, whatever comes between them and   *)
(* whenever the relay starts or dies, the receiver gets at most one SET of *)
(* it each time that the tailer goes through the log.  A SET of a joined   *)
(* line is of no one operation.                                            *)
(***************************************************************************)
OneEventPerOperation ==
  \A i, j \in ((since + 1)..Len(posted)) \ mixed :
    (posted[i].id = posted[j].id /\ posted[i].id # 0) => i = j

(***************************************************************************)
(* What an event says of a Vault operation.  That a secret was issued or   *)
(* read, or what else, is the word of the rule for the path.  A login is   *)
(* told by its path as well, and of a revocation it is only said that one  *)
(* was asked for, as far as the operation and the path tell: whether it    *)
(* was granted, the type of the event does not say.                        *)
(***************************************************************************)
VaultTruth(s, op, type) ==
  \/ type = "secret-denied" /\ ~op.ok
  \/ type = "auth-event" /\ op.ok /\ isLogin(op)
  \/ type = "credential-revoked" /\ isRevoke(op)
  \/ op.ok /\ \E i \in DOMAIN s.mountRules :
                /\ IsPrefix(s.mountRules[i].prefix, op.path)
                /\ type = s.mountRules[i].event

\* What a Kubernetes request does, if it is granted.
K8sEffect(op) ==
  CASE op.verb \in {"get", "create"} /\ op.resource \in {"secrets", "configmaps"} ->
         "secret-accessed"
    [] op.verb = "create" /\ op.resource \in {"serviceaccounts/token", "tokens"} ->
         "credential-issued"
    [] op.verb = "delete" /\ op.resource = "secrets" -> "credential-revoked"
    [] OTHER -> "other"

\* What an event says of a Kubernetes request.
K8sTruth(op, type) ==
  IF type = "secret-denied" THEN op.code \in {401, 403}
                            ELSE op.code \in 200..299 /\ type = K8sEffect(op)

\* What an event says of an OPA decision.
OpaTruth(op, type) == (type = "policy-denied") <=> (op.result \in {"false", "null"})

\* The mount rules of Vault sources are a list, and "none" is not an event type
\* but what the model calls no event.
ASSUME RulesAssumption ==
  \A s \in Setups : (s.type = "vault-audit" /\ Builds(s.type, s.config)) =>
    /\ DOMAIN Source(s).mountRules = 1..Len(Source(s).mountRules)
    /\ Len(Source(s).mountRules) \in Nat
    /\ "none" \notin RuleEvents(s)

\* A condition on the stages of Kubernetes sources, for OneEventPerOperation: that
\* at which a watch begins to answer is not asked for together with the one at
\* which it ends, unless watches are dropped.
WatchesOnce ==
  \A s \in Setups : s.type = "k8s-audit" =>
    \/ ~({"ResponseStarted", "ResponseComplete"} \subseteq Source(s).stages)
    \/ "watch" \in Source(s).dropVerbs

\* And for ReportedIfWanted: nor is it asked for alone.
WatchesToTheEnd ==
  \A s \in Setups : s.type = "k8s-audit" =>
    \/ "ResponseStarted" \in Source(s).stages => "ResponseComplete" \in Source(s).stages
    \/ "watch" \in Source(s).dropVerbs

(***************************************************************************)
(* A SET tells what became of an operation, and who did it: none says that *)
(* access was granted when it was refused, or of a request that is still   *)
(* under way, and none is of no operation, but that OPA's parser takes any *)
(* JSON object without a result for a denial.  A login that was refused    *)
(* has nobody's name in it.  Only a SET of a joined line may say anything. *)
(***************************************************************************)
EventsAreTrue ==
  \A i \in (1..Len(posted)) \ mixed :
    LET set == posted[i]
        op  == ops[set.id]
    IN  IF set.id = 0 THEN setup.type = "opa-decision" /\ set.type = "policy-denied"
        ELSE CASE setup.type = "vault-audit" ->
                    /\ VaultTruth(Source(setup), op, set.type)
                    /\ set.entity = IF op.login /\ ~op.ok THEN "" ELSE op.actor
               [] setup.type = "k8s-audit" ->
                    K8sTruth(op, set.type) /\ set.entity = op.actor
               [] setup.type = "opa-decision" ->
                    OpaTruth(op, set.type) /\ set.entity = op.labels

\* The operations that the configuration and the README ask to report.
VaultWanted(s, op) ==
  \/ isRevoke(op)
  \/ /\ ~HasPrefixOf(op.path, s.dropPrefixes)
     /\ \/ ~op.ok
        \/ isLogin(op)
        \/ HasPrefixOf(op.path, {s.mountRules[i].prefix : i \in DOMAIN s.mountRules})

K8sWanted(s, op) ==
  /\ "ResponseComplete" \in s.stages
  /\ ~HasPrefixOf(op.user, s.dropUsers)
  /\ op.verb \notin s.dropVerbs
  /\ op.code \in {401, 403} \/ (op.code \in 200..299 /\ K8sEffect(op) # "other")

OpaWanted(s, op) ==
  /\ op.path \notin s.dropPaths
  /\ s.emitAllow \/ op.result \in {"false", "null"}

Wanted(s, op) ==
  CASE s.type = "vault-audit" -> VaultWanted(Source(s), op)
    [] s.type = "k8s-audit" -> K8sWanted(Source(s), op)
    [] s.type = "opa-decision" -> OpaWanted(Source(s), op)

\* The parser can read of an operation: OPA decisions whose input is no object, or
\* whose labels are not strings, it cannot.
Readable(type, op) == type = "opa-decision" => Malformed \notin {op.labels, op.input}

(***************************************************************************)
(* Of an operation whose last line came through there is a SET if and only *)
(* if it is to be reported, also if it had begun before the relay: no rule *)
(* hides what another one asks for.  But a decision on an input that is no *)
(* JSON object is not reported, and with a key of another curve than P-256 *)
(* nothing is.                                                             *)
(***************************************************************************)
ReportedIfWanted ==
  \A k \in whole :
    (\E i \in (1..Len(posted)) \ mixed : posted[i].id = k) <=>
      (Signs /\ Wanted(setup, ops[k]) /\ Readable(setup.type, ops[k]))

(***************************************************************************)
(* If a key is configured, every SET is signed, and with the inline key if *)
(* there is one, whatever the file has; a key that cannot be used never    *)
(* makes the relay send unsigned SETs.                                     *)
(***************************************************************************)
SignedAsConfigured ==
  \A i \in 1..Len(posted) :
    /\ posted[i].key = "none" => setup.inline = "" /\ setup.file = ""
    /\ posted[i].key = "file" => setup.inline = ""
    /\ posted[i].key = "inline" => setup.inline = "P-256"
    /\ posted[i].key = "file" => setup.file = "P-256"
=============================================================================
