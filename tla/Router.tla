------------------------------- MODULE Router -------------------------------
(***************************************************************************)
(* The inbound side: Router.Handle (src/relay/router.go) calling, one      *)
(* after the other, the Act of the action adapters (src/actions) that      *)
(* main.go registered from the sinks of the configuration, and the systems *)
(* they act on: Vault, the Kubernetes API, OPA and a webhook receiver.     *)
(*                                                                         *)
(* An Act is a short program of HTTP calls.  A call is sent and then       *)
(* answered, refused, or given up; a call given up may still reach the     *)
(* server and take effect later.  An adapter knows of its target only what *)
(* the answers say.                                                        *)
(***************************************************************************)
EXTENDS Integers, Sequences

CONSTANTS
  Sinks,          \* sinks of the configuration: a sequence of records
                  \* [action, event_type]
  WebhookTypes,   \* event_types of the webhook's configuration
  WebhookTimeout, \* FALSE when the webhook's timeout_secs is 0 or less
  SourceIDs,      \* source IDs of the inbound SETs
  safeID,         \* safeID[s]: s with the characters Rego forbids replaced
  Nodes,          \* Kubernetes nodes
  NoNode,         \* no node name
  ConfigNode,     \* node of node_name or of its environment variable, or NoNode
  HaveToken,      \* the Vault token's environment variable is set
  HaveTokenFile,  \* the Kubernetes service account token can be read
  HasEntity,      \* the Vault token belongs to an entity
  VaultDenies     \* kinds of calls that the token's Vault policies do not allow

EventTypes  == {"compromised", "degraded", "recovered"}
SETTypes    == EventTypes \cup {"other"}
ActionNames == {"vault", "k8s-cordon", "opa-policy", "webhook"}

ASSUME RouterAssumption ==
  /\ Sinks \in Seq([action : ActionNames, event_type : EventTypes])
  /\ WebhookTypes \subseteq EventTypes
  /\ DOMAIN safeID = SourceIDs
  /\ NoNode \notin Nodes
  /\ ConfigNode \in Nodes \cup {NoNode}
  /\ {WebhookTimeout, HaveToken, HaveTokenFile, HasEntity} \subseteq BOOLEAN
  /\ VaultDenies \subseteq {"revoke", "lookup", "flag"}

\* The inbound SETs: node is payload["node_name"].
InboundSET == [type : SETTypes, source : SourceIDs, node : Nodes \cup {NoNode}]

NoSET  == [type |-> "none"]
NoCall == [kind |-> "none"]

VARIABLES
  \* Router.Handle and the Act it is in.
  hpc,       \* "idle", "next" adapter, "send" or "await" a call
  set,       \* the SET being handled
  adapter,   \* index in Sinks of the adapter acting; 0 before the first
  call,      \* the HTTP call to send or sent
  delFailed, \* the first of opa-policy's two deletes failed
  results,   \* outcomes of the adapters called for this SET
  cancelled, \* ctx is done
  \* The systems acted on.
  token,     \* the relay's Vault token: "valid" or "invalid"
  entity,    \* ssf_status of its entity: "unset", "degraded" or "cleared"
  cordoned,  \* nodes with spec.unschedulable
  policies,  \* OPA's policies: records [id, state, source]
  orphans,   \* calls given up that may still reach their server
  \* What an observer remembers.
  givenUp,   \* calls ever given up
  held,      \* restrictions acknowledged and not asked to be lifted since
  lifted     \* liftings acknowledged, no restriction asked for since

handleVars  == <<hpc, set, adapter, call, delFailed, results>>
targetVars  == <<token, entity, cordoned, policies>>
historyVars == <<givenUp, held, lifted>>
routerVars  == <<handleVars, cancelled, targetVars, orphans, historyVars>>

RouterInit ==
  /\ hpc = "idle" /\ set = NoSET /\ adapter = 0
  /\ call = NoCall /\ delFailed = FALSE /\ results = <<>>
  /\ cancelled = FALSE
  /\ token = "valid" /\ entity = "unset"
  /\ cordoned = {} /\ policies = {}
  /\ orphans = {} /\ givenUp = {}
  /\ held = {} /\ lifted = {}

-----------------------------------------------------------------------------
(* Registration.                                                           *)

\* main builds one adapter per action: its first sink's.
Registered ==
  {i \in 1..Len(Sinks) : \A j \in 1..(i - 1) : Sinks[j].action # Sinks[i].action}

\* EventTypes of the adapters.
AdapterTypes(action) == IF action = "webhook" THEN WebhookTypes ELSE EventTypes

\* The adapters, by sink, that Handle calls for an event type.
AdaptersFor(type) == {i \in Registered : type \in AdapterTypes(Sinks[i].action)}

\* Router.EventTypes: what the subscriber subscribes to.
RouterEventTypes == UNION {AdapterTypes(Sinks[i].action) : i \in Registered}

-----------------------------------------------------------------------------
(* The calls of an Act.                                                    *)

PolicyID(s, state) == [id |-> safeID[s], state |-> state]

Put(s, state)    == [kind |-> "put", policy |-> PolicyID(s, state), source |-> s]
Delete(s, state) == [kind |-> "delete", policy |-> PolicyID(s, state)]
Patch(x, value)  == [kind |-> "patch", node |-> x, unschedulable |-> value]
Flag(status)     == [kind |-> "flag", status |-> status]
Revoke           == [kind |-> "revoke"]
Lookup           == [kind |-> "lookup"]
Post(st)         == [kind |-> "post", type |-> st.type, source |-> st.source]

\* resolveNode: configuration or environment, then the SET's payload.
resolveNode(st) == IF ConfigNode # NoNode THEN ConfigNode ELSE st.node

\* Act fails before any call.
FailsLocally(action, st) ==
  \/ action = "vault" /\ ~HaveToken
  \/ action = "k8s-cordon" /\ (resolveNode(st) = NoNode \/ ~HaveTokenFile)

\* How each Act begins.
VaultAct(st) == IF st.type = "compromised" THEN Revoke ELSE Lookup

\* Mutant of CordonAct: a degraded source releases its node.
CordonActReleasesDegraded(st) == Patch(resolveNode(st), st.type = "compromised")

CordonAct(st) == Patch(resolveNode(st), st.type # "recovered")

PolicyAct(st) == IF st.type = "recovered" THEN Delete(st.source, "compromised")
                                          ELSE Put(st.source, st.type)

FirstCall(action, st) ==
  CASE action = "vault"      -> VaultAct(st)
    [] action = "k8s-cordon" -> CordonAct(st)
    [] action = "opa-policy" -> PolicyAct(st)
    [] action = "webhook"    -> Post(st)

\* The resource an adapter's SETs restrict or free, as an observer tells
\* them apart: a source in OPA, a node in Kubernetes, the relay's Vault session.
Resource(action, st) ==
  CASE action = "opa-policy" -> <<"opa-policy", st.source>>
    [] action = "k8s-cordon" -> <<"k8s-cordon", resolveNode(st)>>
    [] OTHER                 -> <<action, "relay">>

Restricts(action, st) ==
  \/ st.type = "compromised" /\ action # "webhook"
  \/ st.type = "degraded" /\ action = "k8s-cordon"

Frees(action, st) == st.type = "recovered" /\ action # "webhook"

-----------------------------------------------------------------------------
(* Router.Handle.                                                          *)

\* A SET arrives: all the resources it is about become unsettled.
HandleStart(st) ==
  /\ hpc = "idle"
  /\ hpc' = "next"
  /\ set' = st /\ adapter' = 0 /\ results' = <<>>
  /\ LET about == {Resource(a, st) : a \in ActionNames}
     IN  /\ held' = IF st.type = "recovered"
                      THEN held \ (about \ {<<"vault", "relay">>}) ELSE held
         /\ lifted' = IF st.type \in {"compromised", "degraded"}
                        THEN lifted \ about ELSE lifted
  /\ UNCHANGED <<call, delFailed, cancelled, targetVars, orphans, givenUp>>

\* The adapters not called yet.
Remaining == {i \in AdaptersFor(set.type) : i > adapter}

\* The next adapter in order of registration.
IsNextAdapter(i) == i \in Remaining /\ \A j \in Remaining : i <= j

\* Mutant of ActReturns: the call is not dropped.
ActReturnsKeepsCall(i, ok) ==
  LET action == Sinks[i].action
  IN  /\ results' = Append(results, [adapter |-> i, ok |-> ok])
      /\ hpc' = "next"
      /\ call' = call
      /\ delFailed' = FALSE
      /\ held' = IF ok /\ Restricts(action, set)
                   THEN held \cup {Resource(action, set)} ELSE held
      /\ lifted' = IF ok /\ Frees(action, set)
                     THEN lifted \cup {Resource(action, set)} ELSE lifted

\* The Act of adapter i returns, nil if ok: Handle notes it and goes on.
ActReturns(i, ok) ==
  LET action == Sinks[i].action
  IN  /\ results' = Append(results, [adapter |-> i, ok |-> ok])
      /\ hpc' = "next"
      /\ call' = NoCall
      /\ delFailed' = FALSE
      /\ held' = IF ok /\ Restricts(action, set)
                   THEN held \cup {Resource(action, set)} ELSE held
      /\ lifted' = IF ok /\ Frees(action, set)
                     THEN lifted \cup {Resource(action, set)} ELSE lifted

\* Handle calls the next adapter's Act, up to its first call.
HandleNext ==
  /\ hpc = "next"
  /\ \E i \in Remaining :
       /\ IsNextAdapter(i)
       /\ adapter' = i
       /\ IF FailsLocally(Sinks[i].action, set)
            THEN ActReturns(i, FALSE)
            ELSE /\ hpc' = "send"
                 /\ call' = FirstCall(Sinks[i].action, set)
                 /\ UNCHANGED <<delFailed, results, held, lifted>>
  /\ UNCHANGED <<set, cancelled, targetVars, orphans, givenUp>>

\* Mutant of HandleReturn: the first error ends the fan-out.
HandleReturnOnError ==
  /\ hpc = "next"
  /\ Remaining = {} \/ \E k \in 1..Len(results) : ~results[k].ok
  /\ hpc' = "idle"
  /\ UNCHANGED <<set, adapter, call, delFailed, results, cancelled, targetVars,
                 orphans, historyVars>>

\* All adapters called, or none registered for the type: Handle returns.
HandleReturn ==
  /\ hpc = "next"
  /\ Remaining = {}
  /\ hpc' = "idle"
  /\ UNCHANGED <<set, adapter, call, delFailed, results, cancelled, targetVars,
                 orphans, historyVars>>

-----------------------------------------------------------------------------
(* The servers.                                                            *)

\* The call is a Vault call that Vault answers with 403.
Forbidden(c) ==
  /\ c.kind \in {"revoke", "lookup", "flag"}
  /\ token = "invalid" \/ c.kind \in VaultDenies

\* What call c does to its target.
Effect(c) ==
  /\ token' = IF c.kind = "revoke" /\ ~Forbidden(c) THEN "invalid" ELSE token
  /\ entity' = IF c.kind = "flag" /\ ~Forbidden(c) THEN c.status ELSE entity
  /\ cordoned' = IF c.kind # "patch" THEN cordoned
                 ELSE IF c.unschedulable THEN cordoned \cup {c.node}
                 ELSE cordoned \ {c.node}
  /\ policies' = CASE c.kind = "put" ->
                        {p \in policies : p.policy # c.policy}
                          \cup {[policy |-> c.policy, source |-> c.source]}
                   [] c.kind = "delete" -> {p \in policies : p.policy # c.policy}
                   [] OTHER -> policies

-----------------------------------------------------------------------------
(* How Act goes on after the answer to its call.                           *)

\* flagEntity: the lookup named an entity, its status is posted.
PostStatus ==
  /\ call' = Flag(IF set.type = "recovered" THEN "cleared" ELSE "degraded")
  /\ hpc' = "send"
  /\ UNCHANGED <<delFailed, results, held, lifted>>

\* Mutant of DeleteSecond: the error of the first delete is dropped.
DeleteSecondDropsError(ok) ==
  /\ call' = Delete(set.source, "degraded")
  /\ hpc' = "send"
  /\ UNCHANGED <<delFailed, results, held, lifted>>

\* The second of the two deletes is made whatever becomes of the first.
DeleteSecond(ok) ==
  /\ call' = Delete(set.source, "degraded")
  /\ hpc' = "send"
  /\ delFailed' = ~ok
  /\ UNCHANGED <<results, held, lifted>>

\* Mutant of Succeeds: a failed revoke-self counts as done.
SucceedsDespiteRevoke(ok, forbidden) ==
  /\ ok \/ (forbidden /\ call.kind # "flag") \/ call.kind = "revoke"
  /\ ~delFailed

\* The last call of an Act makes it succeed: no error, neither of its own nor
\* of the first delete; a 403 to revoke-self or to the lookup counts as done.
Succeeds(ok, forbidden) ==
  /\ ok \/ (forbidden /\ call.kind # "flag")
  /\ ~delFailed

\* How Act goes on after a call.
Continue(ok, forbidden) ==
  IF call.kind = "lookup" /\ ok /\ HasEntity THEN PostStatus
  ELSE IF call.kind = "delete" /\ call.policy.state = "compromised"
    THEN DeleteSecond(ok)
  ELSE ActReturns(adapter, Succeeds(ok, forbidden))

\* client.Do sends the call.
Send ==
  /\ hpc = "send" /\ ~cancelled
  /\ hpc' = "await"
  /\ UNCHANGED <<set, adapter, call, delFailed, results, cancelled, targetVars,
                 orphans, historyVars>>

\* Mutant of SendCancelled: that a call was not sent is no error of the Act.
SendCancelledAsDone ==
  /\ hpc = "send" /\ cancelled
  /\ Continue(TRUE, FALSE)
  /\ UNCHANGED <<set, adapter, cancelled, targetVars, orphans, givenUp>>

\* client.Do does not send with a cancelled ctx: an error.
SendCancelled ==
  /\ hpc = "send" /\ cancelled
  /\ Continue(FALSE, FALSE)
  /\ UNCHANGED <<set, adapter, cancelled, targetVars, orphans, givenUp>>

\* The server acts on the call and its answer arrives.
Answer ==
  /\ hpc = "await"
  /\ Effect(call)
  /\ Continue(~Forbidden(call), Forbidden(call))
  /\ UNCHANGED <<set, adapter, cancelled, orphans, givenUp>>

\* The connection fails, or the server answers with another error and does
\* nothing.
Refuse ==
  /\ hpc = "await"
  /\ Continue(FALSE, FALSE)
  /\ UNCHANGED <<set, adapter, cancelled, targetVars, orphans, givenUp>>

\* Mutants of GiveUp: the client has no timeout; a call that timed out counts
\* as done.
GiveUpOnCancelOnly ==
  /\ hpc = "await"
  /\ cancelled
  /\ Continue(FALSE, FALSE)
  /\ orphans' = orphans \cup {call}
  /\ givenUp' = givenUp \cup {call}
  /\ UNCHANGED <<set, adapter, cancelled, targetVars>>

GiveUpAsDone ==
  /\ hpc = "await"
  /\ cancelled \/ call.kind # "post" \/ WebhookTimeout
  /\ Continue(TRUE, FALSE)
  /\ orphans' = orphans \cup {call}
  /\ givenUp' = givenUp \cup {call}
  /\ UNCHANGED <<set, adapter, cancelled, targetVars>>

\* The client's timeout or the cancellation of ctx ends the wait; the call
\* may yet reach its server.
GiveUp ==
  /\ hpc = "await"
  /\ cancelled \/ call.kind # "post" \/ WebhookTimeout
  /\ Continue(FALSE, FALSE)
  /\ orphans' = orphans \cup {call}
  /\ givenUp' = givenUp \cup {call}
  /\ UNCHANGED <<set, adapter, cancelled, targetVars>>

\* A call given up takes effect after all ...
LateEffect ==
  /\ \E c \in orphans : Effect(c) /\ orphans' = orphans \ {c}
  /\ UNCHANGED <<handleVars, cancelled, historyVars>>

\* ... or never.
OrphanLost ==
  /\ \E c \in orphans : orphans' = orphans \ {c}
  /\ UNCHANGED <<handleVars, cancelled, targetVars, historyVars>>

\* The Vault token expires.
TokenExpires ==
  /\ token = "valid"
  /\ token' = "invalid"
  /\ UNCHANGED <<handleVars, cancelled, entity, cordoned, policies, orphans,
                 historyVars>>

HandleStep == HandleNext \/ HandleReturn \/ Send \/ SendCancelled \/ Answer
              \/ Refuse \/ GiveUp

RouterEnvironment == LateEffect \/ OrphanLost \/ TokenExpires

\* The subscriber hands over a SET, of any type, source and node.
Receive == \E st \in InboundSET : HandleStart(st)

\* ctx is cancelled.
RouterCancel ==
  /\ ~cancelled
  /\ cancelled' = TRUE
  /\ UNCHANGED <<handleVars, targetVars, orphans, historyVars>>

RouterNext == Receive \/ RouterCancel \/ HandleStep \/ RouterEnvironment

RouterSpec == RouterInit /\ [][RouterNext]_routerVars

-----------------------------------------------------------------------------
(* Properties.                                                             *)

Calls ==
  {Put(s, state) : s \in SourceIDs, state \in {"compromised", "degraded"}}
    \cup {Delete(s, state) : s \in SourceIDs, state \in {"compromised", "degraded"}}
    \cup {Patch(x, value) : x \in Nodes, value \in BOOLEAN}
    \cup {Flag(status) : status \in {"degraded", "cleared"}}
    \cup {Post(st) : st \in InboundSET}
    \cup {Revoke, Lookup}

Resources == {Resource(a, st) : a \in ActionNames, st \in InboundSET}

PolicyIDs == {PolicyID(s, state) : s \in SourceIDs, state \in {"compromised", "degraded"}}

RouterTypeOK ==
  /\ hpc \in {"idle", "next", "send", "await"}
  /\ set \in InboundSET \cup {NoSET}
  /\ set = NoSET => hpc = "idle"
  /\ adapter \in 0..Len(Sinks)
  /\ hpc \in {"send", "await"} => adapter # 0
  /\ call \in IF hpc \in {"send", "await"} THEN Calls ELSE {NoCall}
  /\ delFailed \in BOOLEAN
  /\ results \in Seq([adapter : 1..Len(Sinks), ok : BOOLEAN])
  /\ cancelled \in BOOLEAN
  /\ token \in {"valid", "invalid"}
  /\ entity \in {"unset", "degraded", "cleared"}
  /\ cordoned \subseteq Nodes
  /\ policies \subseteq [policy : PolicyIDs, source : SourceIDs]
  /\ orphans \subseteq Calls
  /\ givenUp \subseteq Calls
  /\ held \subseteq Resources
  /\ lifted \subseteq Resources

(***************************************************************************)
(* "All adapters are called even if one errors": when Handle has returned, *)
(* every adapter registered for the SET's type has acted, exactly once,    *)
(* in the order of registration, whatever the others' outcomes.            *)
(***************************************************************************)
FanOutComplete ==
  (hpc = "idle" /\ set # NoSET) =>
    /\ {results[k].adapter : k \in 1..Len(results)} = AdaptersFor(set.type)
    /\ \A j, k \in 1..Len(results) : j < k => results[j].adapter < results[k].adapter

(***************************************************************************)
(* opa-policy: once it has acknowledged that a source is compromised, the  *)
(* deny-all policy made for that source stays in OPA until a recovery of   *)
(* that same source arrives; unless a delete of that policy, given up      *)
(* earlier, may come late.  It needs distinct sources to have distinct     *)
(* policy IDs.                                                             *)
(***************************************************************************)
QuarantineHolds ==
  \A s \in SourceIDs :
    (<<"opa-policy", s>> \in held /\ Delete(s, "compromised") \notin givenUp) =>
      [policy |-> PolicyID(s, "compromised"), source |-> s] \in policies

(***************************************************************************)
(* opa-policy: once it has acknowledged that a source has recovered, no    *)
(* policy made for that source is left in OPA until the source is          *)
(* compromised or degraded again; unless a put, given up earlier, comes    *)
(* late.                                                                   *)
(***************************************************************************)
RecoveryLifts ==
  \A s \in SourceIDs :
    (<<"opa-policy", s>> \in lifted
       /\ \A state \in {"compromised", "degraded"} : Put(s, state) \notin givenUp) =>
      \A p \in policies : p.source # s

(***************************************************************************)
(* k8s-cordon: a node whose cordoning was acknowledged stays unschedulable *)
(* until a recovery arrives that resolves to that node; a node whose       *)
(* release was acknowledged stays schedulable likewise; unless a contrary  *)
(* patch, given up earlier, comes late.                                    *)
(***************************************************************************)
CordonFollowsSETs ==
  \A x \in Nodes :
    /\ (<<"k8s-cordon", x>> \in held /\ Patch(x, FALSE) \notin givenUp) =>
         x \in cordoned
    /\ (<<"k8s-cordon", x>> \in lifted /\ Patch(x, TRUE) \notin givenUp) =>
         x \notin cordoned

(***************************************************************************)
(* vault: after a compromise was acknowledged the relay's Vault session is *)
(* dead, for good ("self-isolation").  It fails when Vault refuses         *)
(* revoke-self for lack of permission, which the adapter takes for done.   *)
(***************************************************************************)
SelfIsolated == <<"vault", "relay">> \in held => token = "invalid"

(***************************************************************************)
(* vault: once it has acknowledged that a source has recovered, ssf_status *)
(* of the relay's entity stays cleared until a source is compromised or    *)
(* degraded again, as long as the token lives; unless a flag given up      *)
(* earlier comes late.  The lookup and the update are two calls, between   *)
(* which ctx may be cancelled, Vault fail or the token expire.  It needs   *)
(* the lookup to be allowed, for the adapter takes its refusal for done.   *)
(***************************************************************************)
RecoveryClears ==
  (/\ <<"vault", "relay">> \in lifted
   /\ HasEntity /\ token = "valid"
   /\ Flag("degraded") \notin givenUp) => entity = "cleared"
=============================================================================
