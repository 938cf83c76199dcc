---------------------------- MODULE RouterProofs ----------------------------
(***************************************************************************)
(* Theorems about the router, its adapters and their targets, for any      *)
(* sinks, sources and nodes, any sequence of SETs, and calls that are      *)
(* refused, given up, or take effect late: every adapter acts on every     *)
(* SET, and what one has acknowledged stays true of its target.            *)
(***************************************************************************)
EXTENDS Router, TLAPS

Calling == hpc \in {"send", "await"}

\* Action `action' may make call c for SET st.
Fits(action, st, c) ==
  /\ st.type \in EventTypes
  /\ \/ /\ action = "opa-policy" /\ st.type # "recovered"
        /\ c = Put(st.source, st.type)
     \/ /\ action = "opa-policy" /\ st.type = "recovered"
        /\ c \in {Delete(st.source, "compromised"), Delete(st.source, "degraded")}
     \/ /\ action = "k8s-cordon" /\ resolveNode(st) \in Nodes
        /\ c = Patch(resolveNode(st), st.type # "recovered")
     \/ action = "vault" /\ st.type = "compromised" /\ c = Revoke
     \/ /\ action = "vault" /\ st.type # "compromised"
        /\ c \in {Lookup, Flag(IF st.type = "recovered" THEN "cleared" ELSE "degraded")}
     \/ action = "webhook" /\ c = Post(st)

\* The call under way is one that the acting adapter makes for the SET.
CallFits == Calling => Fits(Sinks[adapter].action, set, call)

\* Only calls given up are orphans.
OrphansInv == orphans \subseteq givenUp

\* A policy is stored under an ID made of its source and a state.
PoliciesInv ==
  \A p \in policies : \E state \in {"compromised", "degraded"} :
    p.policy = PolicyID(p.source, state)

(***************************************************************************)
(* While a SET is handled, the resources it is about are unsettled: a      *)
(* recovery's are not held, a restriction's not lifted.                    *)
(***************************************************************************)
Unsettled ==
  hpc # "idle" =>
    \A a \in {"opa-policy", "k8s-cordon"} :
      /\ set.type = "recovered" => Resource(a, set) \notin held
      /\ set.type \in {"compromised", "degraded"} => Resource(a, set) \notin lifted

\* No put for source s was ever given up.
NoPutGivenUp(s) ==
  \A state \in {"compromised", "degraded"} : Put(s, state) \notin givenUp

(***************************************************************************)
(* Between the two deletes of a recovery: after the first has succeeded    *)
(* the compromised policy of the source is gone.                           *)
(***************************************************************************)
FirstDeleted ==
  (Calling /\ call = Delete(set.source, "degraded") /\ ~delFailed
     /\ NoPutGivenUp(set.source)) =>
    \A p \in policies : p.source = set.source =>
      p.policy = PolicyID(set.source, "degraded")

\* The failure of the first delete is remembered for the second alone.
DelFailedInv == delFailed => (Calling /\ call.kind = "delete")

\* Distinct sources have distinct safe IDs.
Injective == \A s, t \in SourceIDs : safeID[s] = safeID[t] => s = t

-----------------------------------------------------------------------------
(* Lemmas about the calls.                                                 *)

\* An element of a sequence is one of the set that it is over.
LEMMA ElementOf ==
  ASSUME NEW S, NEW q \in Seq(S), NEW i \in 1..Len(q)
  PROVE  q[i] \in S
OBVIOUS

\* The sinks' actions.
LEMMA SinkActions == \A i \in 1..Len(Sinks) : Sinks[i].action \in ActionNames
<1>1. Sinks \in Seq([action : ActionNames, event_type : EventTypes])
  BY RouterAssumption
<1>2. ASSUME NEW i \in 1..Len(Sinks) PROVE Sinks[i].action \in ActionNames
  <2>. DEFINE S == [action : ActionNames, event_type : EventTypes]
  <2>1. Sinks[i] \in S
    <3>. HIDE DEF S
    <3>. QED  BY <1>1, ElementOf DEF S
  <2>. QED  BY <2>1
<1>. QED  BY <1>2

\* The calls of FirstCall fit.
LEMMA FirstCallFits ==
  ASSUME NEW st \in InboundSET, NEW i \in AdaptersFor(st.type),
         ~FailsLocally(Sinks[i].action, st)
  PROVE  Fits(Sinks[i].action, st, FirstCall(Sinks[i].action, st))
<1>. DEFINE action == Sinks[i].action
<1>1. i \in 1..Len(Sinks) /\ action \in ActionNames
  BY SinkActions DEF AdaptersFor, Registered
<1>2. st.type \in EventTypes
  BY RouterAssumption, <1>1 DEF AdaptersFor, AdapterTypes
<1>3. st.source \in SourceIDs /\ st.node \in Nodes \cup {NoNode}
  BY DEF InboundSET
<1>4. CASE action = "vault"
  BY <1>2, <1>4 DEF Fits, FirstCall, VaultAct, EventTypes
<1>5. CASE action = "k8s-cordon"
  <2>1. resolveNode(st) \in Nodes
    BY <1>3, <1>5, RouterAssumption DEF FailsLocally, resolveNode
  <2>2. FirstCall(action, st) = Patch(resolveNode(st), st.type # "recovered")
    BY <1>5 DEF FirstCall, CordonAct
  <2>. QED  BY <1>2, <1>5, <2>1, <2>2 DEF Fits
<1>6. CASE action = "opa-policy"
  BY <1>2, <1>6 DEF Fits, FirstCall, PolicyAct, EventTypes
<1>7. CASE action = "webhook"
  BY <1>2, <1>7 DEF Fits, FirstCall
<1>. QED  BY <1>1, <1>4, <1>5, <1>6, <1>7 DEF ActionNames

\* A call that fits has its type.
LEMMA FittingCalls ==
  ASSUME NEW st \in InboundSET, NEW action, NEW c, Fits(action, st, c)
  PROVE  c \in Calls
<1>1. st.source \in SourceIDs /\ st.type \in EventTypes
  BY DEF InboundSET, Fits
<1>2. CASE c = Put(st.source, st.type) /\ st.type # "recovered"
  BY <1>1, <1>2 DEF Calls, EventTypes
<1>3. CASE c \in {Delete(st.source, "compromised"), Delete(st.source, "degraded")}
  BY <1>1, <1>3 DEF Calls
<1>4. CASE /\ resolveNode(st) \in Nodes
           /\ c = Patch(resolveNode(st), st.type # "recovered")
  <2>. DEFINE x == resolveNode(st)
              v == st.type # "recovered"
  <2>1. x \in Nodes /\ v \in BOOLEAN /\ c = Patch(x, v)
    BY <1>4
  <2>. HIDE DEF x, v
  <2>. QED  BY <2>1 DEF Calls
<1>5. CASE c \in {Revoke, Lookup, Flag("degraded"), Flag("cleared"), Post(st)}
  BY <1>5 DEF Calls
<1>. QED  BY <1>2, <1>3, <1>4, <1>5 DEF Fits

\* What the kind of a call says of it.
LEMMA PutCalls ==
  ASSUME NEW c \in Calls, c.kind = "put"
  PROVE  \E s \in SourceIDs, state \in {"compromised", "degraded"} : c = Put(s, state)
BY DEF Calls, Put, Delete, Patch, Flag, Post, Revoke, Lookup

\* A delete is of a policy of a source.
LEMMA DeleteCalls ==
  ASSUME NEW c \in Calls, c.kind = "delete"
  PROVE  \E s \in SourceIDs, state \in {"compromised", "degraded"} : c = Delete(s, state)
BY DEF Calls, Put, Delete, Patch, Flag, Post, Revoke, Lookup

\* A patch sets or clears the cordon of a node.
LEMMA PatchCalls ==
  ASSUME NEW c \in Calls, c.kind = "patch"
  PROVE  \E x \in Nodes, value \in BOOLEAN : c = Patch(x, value)
BY DEF Calls, Put, Delete, Patch, Flag, Post, Revoke, Lookup

\* A flag says degraded or cleared.
LEMMA FlagCalls ==
  ASSUME NEW c \in Calls, c.kind = "flag"
  PROVE  c.status \in {"degraded", "cleared"}
BY DEF Calls, Put, Delete, Patch, Flag, Post, Revoke, Lookup

\* The results of a SET, and what they have settled, have their types.
LEMMA ActReturnsTypes ==
  ASSUME RouterTypeOK, NEW i \in 1..Len(Sinks), NEW ok \in BOOLEAN,
         set \in InboundSET, ActReturns(i, ok)
  PROVE  /\ hpc' = "next" /\ call' = NoCall /\ delFailed' = FALSE
         /\ results' \in Seq([adapter : 1..Len(Sinks), ok : BOOLEAN])
         /\ held' \subseteq Resources /\ lifted' \subseteq Resources
<1>1. Sinks[i].action \in ActionNames
  BY SinkActions
<1>2. Resource(Sinks[i].action, set) \in Resources
  BY <1>1 DEF Resources
<1>3. [adapter |-> i, ok |-> ok] \in [adapter : 1..Len(Sinks), ok : BOOLEAN]
  OBVIOUS
<1>4. results \in Seq([adapter : 1..Len(Sinks), ok : BOOLEAN])
      /\ held \subseteq Resources /\ lifted \subseteq Resources
  BY DEF RouterTypeOK
<1>. QED  BY <1>2, <1>3, <1>4 DEF ActReturns

\* How an Act goes on keeps the types.
LEMMA ContinueTypes ==
  ASSUME RouterTypeOK, Calling, NEW ok \in BOOLEAN, NEW forbidden \in BOOLEAN,
         Continue(ok, forbidden)
  PROVE  /\ \/ hpc' = "send" /\ call' \in Calls
            \/ hpc' = "next" /\ call' = NoCall
         /\ delFailed' \in BOOLEAN
         /\ results' \in Seq([adapter : 1..Len(Sinks), ok : BOOLEAN])
         /\ held' \subseteq Resources /\ lifted' \subseteq Resources
<1>1. set \in InboundSET /\ adapter \in 1..Len(Sinks)
  BY RouterAssumption DEF RouterTypeOK, Calling
<1>2. /\ delFailed \in BOOLEAN
      /\ results \in Seq([adapter : 1..Len(Sinks), ok : BOOLEAN])
      /\ held \subseteq Resources /\ lifted \subseteq Resources
  BY DEF RouterTypeOK
<1>3. CASE PostStatus
  BY <1>2, <1>3 DEF PostStatus, Calls
<1>4. CASE DeleteSecond(ok)
  <2>1. Delete(set.source, "degraded") \in Calls
    BY <1>1 DEF Calls, InboundSET
  <2>. QED  BY <1>2, <1>4, <2>1 DEF DeleteSecond
<1>5. CASE ActReturns(adapter, Succeeds(ok, forbidden))
  <2>1. Succeeds(ok, forbidden) \in BOOLEAN
    BY DEF Succeeds
  <2>. QED  BY <1>1, <1>5, <2>1, ActReturnsTypes
<1>. QED  BY <1>3, <1>4, <1>5 DEF Continue

\* A call's effect keeps the types of the targets.
LEMMA EffectTypes ==
  ASSUME RouterTypeOK, NEW c \in Calls, Effect(c)
  PROVE  /\ token' \in {"valid", "invalid"}
         /\ entity' \in {"unset", "degraded", "cleared"}
         /\ cordoned' \subseteq Nodes
         /\ policies' \subseteq [policy : PolicyIDs, source : SourceIDs]
<1>1. token' \in {"valid", "invalid"}
  BY DEF Effect, RouterTypeOK
<1>2. entity' \in {"unset", "degraded", "cleared"}
  BY FlagCalls DEF Effect, RouterTypeOK
<1>3. cordoned' \subseteq Nodes
  <2>1. cordoned \subseteq Nodes
    BY DEF RouterTypeOK
  <2>2. c.kind = "patch" => c.node \in Nodes
    BY PatchCalls DEF Patch
  <2>. QED  BY <2>1, <2>2 DEF Effect
<1>4. policies' \subseteq [policy : PolicyIDs, source : SourceIDs]
  <2>1. policies \subseteq [policy : PolicyIDs, source : SourceIDs]
    BY DEF RouterTypeOK
  <2>2. CASE c.kind = "put"
    <3>1. c.policy \in PolicyIDs /\ c.source \in SourceIDs
      BY <2>2, PutCalls DEF Put, PolicyIDs
    <3>2. policies' = {p \in policies : p.policy # c.policy}
                        \cup {[policy |-> c.policy, source |-> c.source]}
      BY <2>2 DEF Effect
    <3>. QED  BY <2>1, <3>1, <3>2
  <2>3. CASE c.kind = "delete"
    <3>1. policies' = {p \in policies : p.policy # c.policy}
      BY <2>3 DEF Effect
    <3>. QED  BY <2>1, <3>1
  <2>4. CASE c.kind \notin {"put", "delete"}
    <3>1. policies' = policies
      BY <2>4 DEF Effect
    <3>. QED  BY <2>1, <3>1
  <2>. QED  BY <2>2, <2>3, <2>4
<1>. QED  BY <1>1, <1>2, <1>3, <1>4

-----------------------------------------------------------------------------
(* Type correctness.                                                       *)

\* The types, before the first SET.
LEMMA InitTypes == RouterInit => RouterTypeOK
<1>. SUFFICES ASSUME RouterInit PROVE RouterTypeOK
  OBVIOUS
<1>1. Len(Sinks) \in Nat
  BY RouterAssumption
<1>2. results \in Seq([adapter : 1..Len(Sinks), ok : BOOLEAN])
  BY DEF RouterInit
<1>3. adapter \in 0..Len(Sinks) /\ hpc = "idle" /\ set = NoSET
  BY <1>1 DEF RouterInit
<1>. QED  BY <1>2, <1>3 DEF RouterInit, RouterTypeOK

\* Every step of Handle, of the adapters and of their targets keeps the types.
LEMMA NextTypes == RouterTypeOK /\ [RouterNext]_routerVars => RouterTypeOK'
<1>. SUFFICES ASSUME RouterTypeOK, [RouterNext]_routerVars PROVE RouterTypeOK'
  OBVIOUS
<1>. USE DEF handleVars, targetVars, historyVars
<1>0. Len(Sinks) \in Nat
  BY RouterAssumption
<1>1. CASE Receive
  <2>1. PICK st \in InboundSET : HandleStart(st)
    BY <1>1 DEF Receive
  <2>2. results' \in Seq([adapter : 1..Len(Sinks), ok : BOOLEAN])
    BY <2>1 DEF HandleStart
  <2>3. held' \subseteq Resources /\ lifted' \subseteq Resources
    BY <2>1 DEF HandleStart, RouterTypeOK
  <2>4. hpc' = "next" /\ set' \in InboundSET /\ set' # NoSET /\ adapter' = 0
        /\ call' = NoCall /\ UNCHANGED <<delFailed, cancelled, targetVars, orphans, givenUp>>
    <3>1. call = NoCall
      BY <2>1 DEF HandleStart, RouterTypeOK
    <3>2. st # NoSET
      BY DEF InboundSET, NoSET, SETTypes, EventTypes
    <3>. QED  BY <2>1, <3>1, <3>2 DEF HandleStart
  <2>. QED  BY <1>0, <2>2, <2>3, <2>4 DEF RouterTypeOK
<1>2. CASE RouterCancel
  BY <1>2 DEF RouterCancel, RouterTypeOK
<1>3. CASE HandleNext
  <2>1. set \in InboundSET
    BY <1>3 DEF HandleNext, RouterTypeOK
  <2>2. PICK i \in Remaining :
          /\ adapter' = i
          /\ IF FailsLocally(Sinks[i].action, set)
               THEN ActReturns(i, FALSE)
               ELSE /\ hpc' = "send"
                    /\ call' = FirstCall(Sinks[i].action, set)
                    /\ UNCHANGED <<delFailed, results, held, lifted>>
    BY <1>3 DEF HandleNext
  <2>3. i \in AdaptersFor(set.type) /\ i \in 1..Len(Sinks)
    BY DEF Remaining, AdaptersFor, Registered
  <2>4. UNCHANGED <<set, cancelled, targetVars, orphans, givenUp>>
    BY <1>3 DEF HandleNext
  <2>5. set # NoSET /\ adapter' \in 0..Len(Sinks) /\ adapter' # 0
    BY <1>0, <1>3, <2>2, <2>3 DEF HandleNext, RouterTypeOK
  <2>6. CASE FailsLocally(Sinks[i].action, set)
    <3>1. ActReturns(i, FALSE)
      BY <2>2, <2>6
    <3>2. /\ hpc' = "next" /\ call' = NoCall /\ delFailed' = FALSE
          /\ results' \in Seq([adapter : 1..Len(Sinks), ok : BOOLEAN])
          /\ held' \subseteq Resources /\ lifted' \subseteq Resources
      BY <2>1, <2>3, <3>1, ActReturnsTypes
    <3>. QED  BY <2>4, <2>5, <3>2 DEF RouterTypeOK
  <2>7. CASE ~FailsLocally(Sinks[i].action, set)
    <3>1. call' \in Calls
      BY <2>1, <2>2, <2>3, <2>7, FirstCallFits, FittingCalls
    <3>. QED  BY <2>2, <2>4, <2>5, <2>7, <3>1 DEF RouterTypeOK
  <2>. QED  BY <2>6, <2>7
<1>4. CASE HandleReturn
  BY <1>4 DEF HandleReturn, RouterTypeOK
<1>5. CASE Send
  BY <1>5 DEF Send, RouterTypeOK
<1>6. CASE SendCancelled \/ Refuse \/ GiveUp
  <2>1. Calling /\ Continue(FALSE, FALSE)
        /\ UNCHANGED <<set, adapter, cancelled, targetVars>>
    BY <1>6 DEF SendCancelled, Refuse, GiveUp, Calling
  <2>2. orphans' \subseteq Calls /\ givenUp' \subseteq Calls
    BY <1>6 DEF SendCancelled, Refuse, GiveUp, RouterTypeOK
  <2>3. /\ \/ hpc' = "send" /\ call' \in Calls
           \/ hpc' = "next" /\ call' = NoCall
        /\ delFailed' \in BOOLEAN
        /\ results' \in Seq([adapter : 1..Len(Sinks), ok : BOOLEAN])
        /\ held' \subseteq Resources /\ lifted' \subseteq Resources
    BY <2>1, ContinueTypes
  <2>. QED  BY <2>1, <2>2, <2>3 DEF RouterTypeOK, Calling
<1>7. CASE Answer
  <2>1. Calling /\ Continue(~Forbidden(call), Forbidden(call)) /\ Effect(call)
        /\ UNCHANGED <<set, adapter, cancelled, orphans, givenUp>>
    BY <1>7 DEF Answer, Calling
  <2>2. call \in Calls
    BY <2>1 DEF RouterTypeOK, Calling
  <2>3. Forbidden(call) \in BOOLEAN
    BY DEF Forbidden
  <2>4. /\ \/ hpc' = "send" /\ call' \in Calls
           \/ hpc' = "next" /\ call' = NoCall
        /\ delFailed' \in BOOLEAN
        /\ results' \in Seq([adapter : 1..Len(Sinks), ok : BOOLEAN])
        /\ held' \subseteq Resources /\ lifted' \subseteq Resources
    BY <2>1, <2>3, ContinueTypes
  <2>5. /\ token' \in {"valid", "invalid"}
        /\ entity' \in {"unset", "degraded", "cleared"}
        /\ cordoned' \subseteq Nodes
        /\ policies' \subseteq [policy : PolicyIDs, source : SourceIDs]
    BY <2>1, <2>2, EffectTypes
  <2>. QED  BY <2>1, <2>4, <2>5 DEF RouterTypeOK, Calling
<1>8. CASE LateEffect
  <2>1. PICK c \in orphans : Effect(c) /\ orphans' = orphans \ {c}
    BY <1>8 DEF LateEffect
  <2>2. c \in Calls /\ orphans' \subseteq Calls
    BY <2>1 DEF RouterTypeOK
  <2>3. /\ token' \in {"valid", "invalid"}
        /\ entity' \in {"unset", "degraded", "cleared"}
        /\ cordoned' \subseteq Nodes
        /\ policies' \subseteq [policy : PolicyIDs, source : SourceIDs]
    BY <2>1, <2>2, EffectTypes
  <2>. QED  BY <1>8, <2>2, <2>3 DEF LateEffect, RouterTypeOK
<1>9. CASE OrphanLost
  <2>1. orphans' \subseteq Calls
    BY <1>9 DEF OrphanLost, RouterTypeOK
  <2>. QED  BY <1>9, <2>1 DEF OrphanLost, RouterTypeOK
<1>10. CASE TokenExpires
  BY <1>10 DEF TokenExpires, RouterTypeOK
<1>11. CASE UNCHANGED routerVars
  BY <1>11 DEF routerVars, RouterTypeOK
<1>. QED  BY <1>1, <1>2, <1>3, <1>4, <1>5, <1>6, <1>7, <1>8, <1>9, <1>10, <1>11
          DEF RouterNext, HandleStep, RouterEnvironment

(***************************************************************************)
(* The variables of Router.Handle, the adapters and their targets have     *)
(* their types: in particular every call is one the adapters make.         *)
(***************************************************************************)
THEOREM RouterTypeCorrect == RouterSpec => []RouterTypeOK
BY InitTypes, NextTypes, PTL DEF RouterSpec

-----------------------------------------------------------------------------
(* The steps, by what they do to calls, targets and acknowledgements.      *)

\* A call ends without an answer that says it was done.
Fails ==
  /\ Calling
  /\ Continue(FALSE, FALSE)
  /\ UNCHANGED <<set, adapter, targetVars>>
  /\ orphans' \subseteq orphans \cup givenUp'
  /\ givenUp \subseteq givenUp'

\* Nothing is asked for, done or acknowledged.
Quiet ==
  /\ UNCHANGED <<set, adapter, call, delFailed, entity, cordoned, policies, givenUp, held,
                 lifted>>
  /\ orphans' \subseteq orphans
  /\ token' \in {token, "invalid"}
  /\ hpc' # "idle" => hpc # "idle"
  /\ Calling' => Calling

\* A step is of one of six kinds.
LEMMA Steps ==
  [RouterNext]_routerVars =>
    Receive \/ HandleNext \/ Fails \/ Answer \/ LateEffect \/ Quiet
<1>. USE DEF handleVars, targetVars, historyVars, Calling
<1>1. RouterCancel \/ HandleReturn \/ Send \/ TokenExpires \/ OrphanLost => Quiet
  BY DEF RouterCancel, HandleReturn, Send, TokenExpires, OrphanLost, Quiet
<1>2. UNCHANGED routerVars => Quiet
  BY DEF routerVars, Quiet
<1>3. SendCancelled \/ Refuse \/ GiveUp => Fails
  BY DEF SendCancelled, Refuse, GiveUp, Fails
<1>. QED  BY <1>1, <1>2, <1>3 DEF RouterNext, HandleStep, RouterEnvironment

\* The acting adapter has acknowledged nothing, or what its SET asks for.
LEMMA Acknowledges ==
  ASSUME NEW i, NEW ok, ActReturns(i, ok)
  PROVE  /\ \/ held' = held
            \/ /\ ok /\ Restricts(Sinks[i].action, set)
               /\ held' = held \cup {Resource(Sinks[i].action, set)}
         /\ \/ lifted' = lifted
            \/ /\ ok /\ Frees(Sinks[i].action, set)
               /\ lifted' = lifted \cup {Resource(Sinks[i].action, set)}
BY DEF ActReturns

\* How an Act goes on, by cases.
LEMMA Continues ==
  ASSUME NEW ok \in BOOLEAN, NEW forbidden \in BOOLEAN, Continue(ok, forbidden)
  PROVE  \/ /\ call.kind = "lookup" /\ PostStatus
         \/ /\ call.kind = "delete" /\ call.policy.state = "compromised"
            /\ DeleteSecond(ok)
         \/ /\ ~(call.kind = "delete" /\ call.policy.state = "compromised")
            /\ ActReturns(adapter, Succeeds(ok, forbidden))
BY DEF Continue

\* A call that failed acknowledges nothing.
LEMMA FailsSilently ==
  ASSUME Fails
  PROVE  held' = held /\ lifted' = lifted /\ hpc' # "idle"
<1>1. Succeeds(FALSE, FALSE) = FALSE
  BY DEF Succeeds
<1>2. \/ PostStatus \/ DeleteSecond(FALSE)
      \/ ActReturns(adapter, FALSE)
  BY <1>1, Continues DEF Fails
<1>. QED  BY <1>2 DEF PostStatus, DeleteSecond, ActReturns

-----------------------------------------------------------------------------
(* The inductive invariant.                                                *)

\* The call under way stays one that its adapter makes for its SET.
LEMMA NextCallFits ==
  RouterTypeOK /\ CallFits /\ [RouterNext]_routerVars => CallFits'
<1>. SUFFICES ASSUME RouterTypeOK, CallFits, [RouterNext]_routerVars, Calling'
              PROVE  Fits(Sinks[adapter'].action, set', call')
  BY DEF CallFits
<1>0. ASSUME NEW ok \in BOOLEAN, NEW forbidden \in BOOLEAN, Calling,
             Continue(ok, forbidden), UNCHANGED <<set, adapter>>
      PROVE  Fits(Sinks[adapter'].action, set', call')
  <2>1. Fits(Sinks[adapter].action, set, call)
    BY <1>0 DEF CallFits
  <2>2. CASE call.kind = "lookup" /\ PostStatus
    <3>1. Sinks[adapter].action = "vault" /\ set.type # "compromised"
          /\ set.type \in EventTypes
      BY <2>1, <2>2 DEF Fits, Put, Delete, Patch, Post, Revoke
    <3>2. call' = Flag(IF set.type = "recovered" THEN "cleared" ELSE "degraded")
      BY <2>2 DEF PostStatus
    <3>. QED  BY <1>0, <3>1, <3>2 DEF Fits
  <2>3. CASE call.kind = "delete" /\ DeleteSecond(ok)
    <3>1. Sinks[adapter].action = "opa-policy" /\ set.type = "recovered"
          /\ set.type \in EventTypes
      BY <2>1, <2>3 DEF Fits, Put, Lookup, Flag, Patch, Post, Revoke
    <3>2. call' = Delete(set.source, "degraded")
      BY <2>3 DEF DeleteSecond
    <3>. QED  BY <1>0, <3>1, <3>2 DEF Fits
  <2>4. CASE ActReturns(adapter, Succeeds(ok, forbidden))
    BY <2>4 DEF ActReturns, Calling
  <2>. QED  BY <1>0, <2>2, <2>3, <2>4, Continues
<1>1. CASE Receive
  BY <1>1 DEF Receive, HandleStart, Calling
<1>2. CASE HandleNext
  <2>1. set \in InboundSET /\ set' = set
    BY <1>2 DEF HandleNext, RouterTypeOK
  <2>2. PICK i \in Remaining :
          /\ adapter' = i
          /\ ~FailsLocally(Sinks[i].action, set)
          /\ call' = FirstCall(Sinks[i].action, set)
    BY <1>2 DEF HandleNext, ActReturns, Calling
  <2>3. i \in AdaptersFor(set.type)
    BY DEF Remaining
  <2>. QED  BY <2>1, <2>2, <2>3, FirstCallFits
<1>3. CASE Fails
  BY <1>0, <1>3 DEF Fails
<1>4. CASE Answer
  <2>1. Forbidden(call) \in BOOLEAN
    BY DEF Forbidden
  <2>. QED  BY <1>0, <1>4, <2>1 DEF Answer, Calling
<1>5. CASE LateEffect
  BY <1>5 DEF LateEffect, handleVars, CallFits, Calling
<1>6. CASE Quiet
  BY <1>6 DEF Quiet, CallFits
<1>. QED  BY <1>1, <1>2, <1>3, <1>4, <1>5, <1>6, Steps

\* Only a call that is given up becomes an orphan.
LEMMA NextOrphans == OrphansInv /\ [RouterNext]_routerVars => OrphansInv'
<1>. SUFFICES ASSUME OrphansInv, [RouterNext]_routerVars PROVE OrphansInv'
  OBVIOUS
<1>1. CASE Receive
  BY <1>1 DEF Receive, HandleStart, OrphansInv
<1>2. CASE HandleNext
  BY <1>2 DEF HandleNext, OrphansInv
<1>3. CASE Fails
  BY <1>3 DEF Fails, OrphansInv
<1>4. CASE Answer
  BY <1>4 DEF Answer, OrphansInv
<1>5. CASE LateEffect
  BY <1>5 DEF LateEffect, historyVars, OrphansInv
<1>6. CASE Quiet
  BY <1>6 DEF Quiet, OrphansInv
<1>. QED  BY <1>1, <1>2, <1>3, <1>4, <1>5, <1>6, Steps

\* What a call does to the policies.
LEMMA EffectOnPolicies ==
  ASSUME NEW c, Effect(c)
  PROVE  /\ c.kind = "put" =>
              policies' = {p \in policies : p.policy # c.policy}
                            \cup {[policy |-> c.policy, source |-> c.source]}
         /\ c.kind = "delete" => policies' = {p \in policies : p.policy # c.policy}
         /\ c.kind \notin {"put", "delete"} => policies' = policies
BY DEF Effect

\* A policy stored under an ID of its source stays so.
LEMMA EffectPolicies ==
  ASSUME PoliciesInv, NEW c \in Calls, Effect(c)
  PROVE  PoliciesInv'
<1>1. CASE c.kind = "put"
  <2>1. PICK s \in SourceIDs, state \in {"compromised", "degraded"} : c = Put(s, state)
    BY <1>1, PutCalls
  <2>2. c.policy = PolicyID(s, state) /\ c.source = s
    BY <2>1 DEF Put
  <2>3. policies' = {p \in policies : p.policy # c.policy}
                      \cup {[policy |-> PolicyID(s, state), source |-> s]}
    BY <1>1, <2>2, EffectOnPolicies
  <2>. QED  BY <2>3 DEF PoliciesInv
<1>2. CASE c.kind # "put"
  <2>1. policies' \subseteq policies
    BY <1>2, EffectOnPolicies
  <2>. QED  BY <2>1 DEF PoliciesInv
<1>. QED  BY <1>1, <1>2

\* Only a put makes a policy, under the ID of its source.
LEMMA NextPolicies ==
  RouterTypeOK /\ PoliciesInv /\ [RouterNext]_routerVars => PoliciesInv'
<1>. SUFFICES ASSUME RouterTypeOK, PoliciesInv, [RouterNext]_routerVars
              PROVE  PoliciesInv'
  OBVIOUS
<1>1. CASE policies' = policies
  BY <1>1 DEF PoliciesInv
<1>2. CASE Answer
  <2>1. call \in Calls /\ Effect(call)
    BY <1>2 DEF Answer, RouterTypeOK
  <2>. QED  BY <2>1, EffectPolicies
<1>3. CASE LateEffect
  <2>1. PICK c \in Calls : Effect(c)
    BY <1>3 DEF LateEffect, RouterTypeOK
  <2>. QED  BY <2>1, EffectPolicies
<1>. QED  BY <1>1, <1>2, <1>3, Steps
          DEF Receive, HandleStart, HandleNext, Fails, Quiet, targetVars

\* What the SET being handled is about is not settled until its adapter
\* has acknowledged.
LEMMA NextUnsettled ==
  RouterTypeOK /\ Unsettled /\ [RouterNext]_routerVars => Unsettled'
<1>. SUFFICES ASSUME RouterTypeOK, Unsettled, [RouterNext]_routerVars,
                     hpc' # "idle", NEW a \in {"opa-policy", "k8s-cordon"}
              PROVE  /\ set'.type = "recovered" => Resource(a, set') \notin held'
                     /\ set'.type \in {"compromised", "degraded"} =>
                          Resource(a, set') \notin lifted'
  BY DEF Unsettled, Resource, resolveNode
<1>0. ASSUME NEW i, NEW ok, ActReturns(i, ok), set' = set, hpc # "idle"
      PROVE  /\ set'.type = "recovered" => Resource(a, set') \notin held'
             /\ set'.type \in {"compromised", "degraded"} =>
                  Resource(a, set') \notin lifted'
  BY <1>0, Acknowledges DEF Unsettled, Restricts, Frees
<1>1. CASE Receive
  <2>1. PICK st \in InboundSET : HandleStart(st)
    BY <1>1 DEF Receive
  <2>2. set' = st /\ a \in ActionNames /\ Resource(a, st) # <<"vault", "relay">>
    BY <2>1 DEF HandleStart, ActionNames, Resource
  <2>. QED  BY <2>1, <2>2 DEF HandleStart
<1>2. CASE HandleNext
  <2>1. hpc # "idle" /\ set' = set
    BY <1>2 DEF HandleNext
  <2>2. \/ \E i \in Remaining : ActReturns(i, FALSE)
        \/ UNCHANGED <<held, lifted>>
    BY <1>2 DEF HandleNext
  <2>. QED  BY <1>0, <2>1, <2>2 DEF Unsettled
<1>3. CASE Fails
  <2>1. hpc # "idle" /\ set' = set /\ held' = held /\ lifted' = lifted
    BY <1>3, FailsSilently DEF Fails, Calling
  <2>. QED  BY <2>1 DEF Unsettled
<1>4. CASE Answer
  <2>1. hpc # "idle" /\ set' = set /\ Continue(~Forbidden(call), Forbidden(call))
    BY <1>4 DEF Answer
  <2>2. Forbidden(call) \in BOOLEAN
    BY DEF Forbidden
  <2>3. CASE PostStatus \/ DeleteSecond(~Forbidden(call))
    BY <2>1, <2>3 DEF PostStatus, DeleteSecond, Unsettled
  <2>. QED  BY <1>0, <2>1, <2>2, <2>3, Continues
<1>5. CASE LateEffect
  BY <1>5 DEF LateEffect, handleVars, historyVars, Unsettled
<1>6. CASE Quiet
  BY <1>6 DEF Quiet, Unsettled
<1>. QED  BY <1>1, <1>2, <1>3, <1>4, <1>5, <1>6, Steps

\* That the first delete failed is known while the second is under way.
LEMMA NextDelFailed ==
  RouterTypeOK /\ DelFailedInv /\ [RouterNext]_routerVars => DelFailedInv'
<1>. SUFFICES ASSUME RouterTypeOK, DelFailedInv, [RouterNext]_routerVars, delFailed'
              PROVE  Calling' /\ call'.kind = "delete"
  BY DEF DelFailedInv
<1>0. ASSUME NEW ok \in BOOLEAN, NEW forbidden \in BOOLEAN, Continue(ok, forbidden)
      PROVE  Calling' /\ call'.kind = "delete"
  <2>1. CASE call.kind = "lookup" /\ PostStatus
    BY <2>1 DEF PostStatus, DelFailedInv
  <2>2. CASE DeleteSecond(ok)
    BY <2>2 DEF DeleteSecond, Calling, Delete
  <2>3. CASE ActReturns(adapter, Succeeds(ok, forbidden))
    BY <2>3 DEF ActReturns
  <2>. QED  BY <1>0, <2>1, <2>2, <2>3, Continues
<1>1. CASE Receive
  BY <1>1 DEF Receive, HandleStart, DelFailedInv, Calling
<1>2. CASE HandleNext
  BY <1>2 DEF HandleNext, ActReturns, DelFailedInv, Calling
<1>3. CASE Fails
  BY <1>0, <1>3 DEF Fails
<1>4. CASE Answer
  <2>1. Forbidden(call) \in BOOLEAN
    BY DEF Forbidden
  <2>. QED  BY <1>0, <1>4, <2>1 DEF Answer
<1>5. CASE LateEffect
  BY <1>5 DEF LateEffect, handleVars, DelFailedInv, Calling
<1>6. CASE Quiet
  <2>1. Calling /\ call' = call /\ delFailed' = delFailed /\ call.kind = "delete"
    BY <1>6 DEF Quiet, DelFailedInv
  <2>2. hpc' # "idle" => hpc # "idle"
    BY <1>6 DEF Quiet
  <2>3. call' \in Calls \/ call' = NoCall
    BY <2>1 DEF RouterTypeOK, Calling
  <2>4. RouterTypeOK'
    BY NextTypes
  <2>. QED  BY <2>1, <2>4 DEF RouterTypeOK, Calling, NoCall
<1>. QED  BY <1>1, <1>2, <1>3, <1>4, <1>5, <1>6, Steps

\* What the first delete of a recovery removed stays away during the second.
LEMMA NextFirstDeleted ==
  /\ RouterTypeOK /\ CallFits /\ OrphansInv /\ PoliciesInv /\ FirstDeleted
  /\ [RouterNext]_routerVars
  => FirstDeleted'
<1>. SUFFICES ASSUME RouterTypeOK, CallFits, OrphansInv, PoliciesInv, FirstDeleted,
                     [RouterNext]_routerVars,
                     Calling', call' = Delete(set'.source, "degraded"), ~delFailed',
                     NoPutGivenUp(set.source)',
                     NEW p \in policies', p.source = set'.source
              PROVE  p.policy = PolicyID(set'.source, "degraded")
  BY DEF FirstDeleted, NoPutGivenUp
<1>1. CASE Receive
  BY <1>1 DEF Receive, HandleStart, Calling
<1>2. CASE HandleNext
  <2>1. set \in InboundSET
    BY <1>2 DEF HandleNext, RouterTypeOK
  <2>2. PICK i \in Remaining : call' = FirstCall(Sinks[i].action, set)
    BY <1>2 DEF HandleNext, ActReturns, Calling
  <2>3. Sinks[i].action \in ActionNames
    BY SinkActions DEF Remaining, AdaptersFor, Registered
  <2>4. call'.kind = "delete" /\ call'.policy.state = "degraded"
    BY DEF Delete, PolicyID
  <2>. QED  BY <2>2, <2>3, <2>4
            DEF FirstCall, ActionNames, VaultAct, CordonAct, PolicyAct,
                Revoke, Lookup, Patch, Put, Delete, PolicyID, Post
<1>3. CASE Fails
  <2>1. call'.kind = "delete"
    BY DEF Delete
  <2>2. \/ PostStatus \/ DeleteSecond(FALSE)
        \/ ActReturns(adapter, Succeeds(FALSE, FALSE))
    BY <1>3, Continues DEF Fails
  <2>3. ~PostStatus
    BY <2>1 DEF PostStatus, Flag
  <2>4. ~DeleteSecond(FALSE)
    BY DEF DeleteSecond
  <2>5. ~ActReturns(adapter, Succeeds(FALSE, FALSE))
    BY DEF ActReturns, Calling
  <2>. QED  BY <2>2, <2>3, <2>4, <2>5
<1>4. CASE Answer
  <2>1. call'.kind = "delete" /\ set' = set
    BY <1>4 DEF Answer, Delete
  <2>2. Forbidden(call) \in BOOLEAN
    BY DEF Forbidden
  <2>3. call.kind = "delete" /\ call.policy.state = "compromised"
    <3>1. Continue(~Forbidden(call), Forbidden(call))
      BY <1>4 DEF Answer
    <3>2. ~PostStatus
      BY <2>1 DEF PostStatus, Flag
    <3>3. ~ActReturns(adapter, Succeeds(~Forbidden(call), Forbidden(call)))
      BY DEF ActReturns, Calling
    <3>. QED  BY <2>2, <3>1, <3>2, <3>3, Continues
  <2>4. call = Delete(set.source, "compromised")
    <3>1. Fits(Sinks[adapter].action, set, call)
      BY <1>4 DEF Answer, CallFits, Calling
    <3>. QED  BY <2>3, <3>1
              DEF Fits, Put, Delete, PolicyID, Patch, Revoke, Lookup, Flag, Post
  <2>5. p \in policies /\ p.policy # PolicyID(set.source, "compromised")
    BY <1>4, <2>3, <2>4, EffectOnPolicies DEF Answer, Delete
  <2>. QED  BY <2>1, <2>5 DEF PoliciesInv
<1>5. CASE LateEffect
  <2>1. PICK c \in orphans : Effect(c)
    BY <1>5 DEF LateEffect
  <2>2. c \in Calls /\ c \in givenUp
    BY DEF RouterTypeOK, OrphansInv
  <2>3. UNCHANGED <<hpc, set, call, delFailed, givenUp>>
    BY <1>5 DEF LateEffect, handleVars, historyVars
  <2>4. NoPutGivenUp(set.source)
    BY <2>3 DEF NoPutGivenUp
  <2>5. p \in policies
    <3>1. CASE c.kind = "put"
      <4>1. PICK s \in SourceIDs, state \in {"compromised", "degraded"} : c = Put(s, state)
        BY <2>2, <3>1, PutCalls
      <4>2. s # set.source
        BY <2>2, <2>4, <4>1 DEF NoPutGivenUp
      <4>3. policies' = {q \in policies : q.policy # c.policy}
                          \cup {[policy |-> c.policy, source |-> s]}
        BY <2>1, <3>1, <4>1, EffectOnPolicies DEF Put
      <4>. QED  BY <2>3, <4>2, <4>3
    <3>2. CASE c.kind # "put"
      BY <2>1, <3>2, EffectOnPolicies
    <3>. QED  BY <3>1, <3>2
  <2>. QED  BY <2>3, <2>4, <2>5 DEF FirstDeleted, Calling
<1>6. CASE Quiet
  BY <1>6 DEF Quiet, FirstDeleted, NoPutGivenUp
<1>. QED  BY <1>1, <1>2, <1>3, <1>4, <1>5, <1>6, Steps

RInv == /\ RouterTypeOK /\ CallFits /\ OrphansInv /\ PoliciesInv /\ Unsettled
        /\ DelFailedInv /\ FirstDeleted

\* RInv is an invariant: the basis of the theorems below.
THEOREM RouterInvariance == RouterSpec => []RInv
<1>1. RouterInit => RInv
  BY InitTypes DEF RouterInit, RInv, CallFits, OrphansInv, PoliciesInv, Unsettled,
                   DelFailedInv, FirstDeleted, Calling
<1>2. RInv /\ [RouterNext]_routerVars => RInv'
  BY NextTypes, NextCallFits, NextOrphans, NextPolicies, NextUnsettled,
     NextDelFailed, NextFirstDeleted DEF RInv
<1>. QED  BY <1>1, <1>2, PTL DEF RouterSpec

-----------------------------------------------------------------------------
(* opa-policy: quarantines.                                                *)

\* The deny-all policy of source s.
Quarantine(s) == [policy |-> PolicyID(s, "compromised"), source |-> s]

\* Only a delete of its own policy ends a source's quarantine.
LEMMA EffectKeepsQuarantine ==
  ASSUME Injective, NEW c \in Calls, Effect(c), NEW s \in SourceIDs,
         c # Delete(s, "compromised"), Quarantine(s) \in policies
  PROVE  Quarantine(s) \in policies'
<1>1. CASE c.kind = "put"
  <2>1. PICK t \in SourceIDs, state \in {"compromised", "degraded"} : c = Put(t, state)
    BY <1>1, PutCalls
  <2>2. c.policy = PolicyID(t, state) /\ c.source = t
    BY <2>1 DEF Put
  <2>3. CASE c.policy = PolicyID(s, "compromised")
    <3>1. s = t
      BY <2>2, <2>3 DEF PolicyID, Injective
    <3>. QED  BY <1>1, <2>2, <2>3, <3>1, EffectOnPolicies DEF Quarantine
  <2>4. CASE c.policy # PolicyID(s, "compromised")
    BY <1>1, <2>4, EffectOnPolicies DEF Quarantine
  <2>. QED  BY <2>3, <2>4
<1>2. CASE c.kind = "delete"
  <2>1. PICK t \in SourceIDs, state \in {"compromised", "degraded"} : c = Delete(t, state)
    BY <1>2, DeleteCalls
  <2>2. c.policy = PolicyID(t, state)
    BY <2>1 DEF Delete
  <2>3. c.policy # PolicyID(s, "compromised")
    BY <2>1, <2>2 DEF PolicyID, Injective
  <2>. QED  BY <1>2, <2>3, EffectOnPolicies DEF Quarantine
<1>3. CASE c.kind \notin {"put", "delete"}
  BY <1>3, EffectOnPolicies
<1>. QED  BY <1>1, <1>2, <1>3

\* Every step keeps acknowledged quarantines; a call on behalf of another
\* source is about another policy.
LEMMA NextQuarantine ==
  Injective /\ RInv /\ QuarantineHolds /\ [RouterNext]_routerVars => QuarantineHolds'
<1>. SUFFICES ASSUME Injective, RInv, QuarantineHolds, [RouterNext]_routerVars,
                     NEW s \in SourceIDs,
                     <<"opa-policy", s>> \in held', Delete(s, "compromised") \notin givenUp'
              PROVE  Quarantine(s) \in policies'
  BY DEF QuarantineHolds, Quarantine, PolicyID, Delete
<1>0. (<<"opa-policy", s>> \in held /\ Delete(s, "compromised") \notin givenUp) =>
        Quarantine(s) \in policies
  BY DEF QuarantineHolds, Quarantine
<1>1. CASE Receive
  BY <1>0, <1>1 DEF Receive, HandleStart, targetVars
<1>2. CASE HandleNext
  BY <1>0, <1>2, Acknowledges DEF HandleNext, targetVars
<1>3. CASE Fails
  BY <1>0, <1>3, FailsSilently DEF Fails, targetVars
<1>4. CASE Answer
  <2>1. /\ Effect(call) /\ call \in Calls /\ givenUp' = givenUp
        /\ Continue(~Forbidden(call), Forbidden(call))
        /\ Fits(Sinks[adapter].action, set, call)
    BY <1>4 DEF Answer, RInv, RouterTypeOK, CallFits, Calling
  <2>2. Forbidden(call) \in BOOLEAN
    BY DEF Forbidden
  <2>3. CASE <<"opa-policy", s>> \in held
    <3>1. call # Delete(s, "compromised")
      <4>. SUFFICES ASSUME call = Delete(s, "compromised") PROVE FALSE
        OBVIOUS
      <4>1. set.type = "recovered" /\ set.source = s
        <5>1. call.kind = "delete" /\ call.policy = PolicyID(s, "compromised")
          BY DEF Delete
        <5>2. /\ set.type = "recovered"
              /\ call \in {Delete(set.source, "compromised"), Delete(set.source, "degraded")}
          BY <2>1, <5>1 DEF Fits, Put, Patch, Revoke, Lookup, Flag, Post
        <5>3. safeID[s] = safeID[set.source]
          BY <5>1, <5>2 DEF Delete, PolicyID
        <5>4. set \in InboundSET
          BY <1>4 DEF Answer, RInv, RouterTypeOK
        <5>5. set.source \in SourceIDs
          BY <5>4 DEF InboundSET
        <5>. QED  BY <5>2, <5>3, <5>5 DEF Injective
      <4>. QED  BY <1>4, <2>3, <4>1 DEF RInv, Unsettled, Resource, Answer
    <3>. QED  BY <1>0, <2>1, <2>3, <3>1, EffectKeepsQuarantine
  <2>4. CASE <<"opa-policy", s>> \notin held
    <3>1. ActReturns(adapter, Succeeds(~Forbidden(call), Forbidden(call)))
      BY <2>1, <2>2, <2>4, Continues DEF PostStatus, DeleteSecond
    <3>2. /\ Restricts(Sinks[adapter].action, set)
          /\ <<"opa-policy", s>> = Resource(Sinks[adapter].action, set)
      BY <2>4, <3>1, Acknowledges
    <3>3. Sinks[adapter].action = "opa-policy" /\ set.source = s /\ set.type = "compromised"
      BY <2>1, <3>2 DEF Restricts, Resource, Fits
    <3>4. call = Put(s, "compromised")
      BY <2>1, <3>3 DEF Fits
    <3>. QED  BY <2>1, <3>4, EffectOnPolicies DEF Put, Quarantine
  <2>. QED  BY <2>3, <2>4
<1>5. CASE LateEffect
  <2>1. PICK c \in orphans : Effect(c)
    BY <1>5 DEF LateEffect
  <2>2. c \in Calls /\ c \in givenUp /\ held' = held /\ givenUp' = givenUp
    BY <1>5 DEF LateEffect, historyVars, RInv, RouterTypeOK, OrphansInv
  <2>. QED  BY <1>0, <2>1, <2>2, EffectKeepsQuarantine
<1>6. CASE Quiet
  BY <1>0, <1>6 DEF Quiet
<1>. QED  BY <1>1, <1>2, <1>3, <1>4, <1>5, <1>6, Steps

(***************************************************************************)
(* opapolicy's putPolicy and deletePolicy: if distinct sources have        *)
(* distinct safe IDs, an acknowledged quarantine stays in OPA until its    *)
(* source recovers, whatever SETs come in between and whatever calls are   *)
(* lost, refused or late (but for a late delete of that policy).           *)
(***************************************************************************)
THEOREM QuarantineKept == Injective => (RouterSpec => []QuarantineHolds)
<1>. SUFFICES ASSUME Injective PROVE RouterSpec => []QuarantineHolds
  OBVIOUS
<1>1. RouterInit => QuarantineHolds
  BY DEF RouterInit, QuarantineHolds
<1>2. RInv /\ QuarantineHolds /\ [RouterNext]_routerVars => QuarantineHolds'
  BY NextQuarantine
<1>. QED  BY <1>1, <1>2, RouterInvariance, PTL DEF RouterSpec

-----------------------------------------------------------------------------
(* opa-policy: recoveries.                                                 *)

\* Every step keeps acknowledged recoveries.
LEMMA NextRecovery ==
  RInv /\ RecoveryLifts /\ [RouterNext]_routerVars => RecoveryLifts'
<1>. SUFFICES ASSUME RInv, RecoveryLifts, [RouterNext]_routerVars,
                     NEW s \in SourceIDs, <<"opa-policy", s>> \in lifted',
                     NoPutGivenUp(s)', NEW p \in policies'
              PROVE  p.source # s
  BY DEF RecoveryLifts, NoPutGivenUp
<1>0. (<<"opa-policy", s>> \in lifted /\ NoPutGivenUp(s) /\ p \in policies) => p.source # s
  BY DEF RecoveryLifts, NoPutGivenUp
<1>1. CASE Receive
  BY <1>0, <1>1 DEF Receive, HandleStart, targetVars, NoPutGivenUp
<1>2. CASE HandleNext
  BY <1>0, <1>2, Acknowledges DEF HandleNext, targetVars, NoPutGivenUp
<1>3. CASE Fails
  BY <1>0, <1>3, FailsSilently DEF Fails, targetVars, NoPutGivenUp
<1>4. CASE Answer
  <2>1. /\ Effect(call) /\ call \in Calls /\ givenUp' = givenUp
        /\ Continue(~Forbidden(call), Forbidden(call))
        /\ Fits(Sinks[adapter].action, set, call) /\ hpc = "await"
    BY <1>4 DEF Answer, RInv, RouterTypeOK, CallFits, Calling
  <2>2. Forbidden(call) \in BOOLEAN
    BY DEF Forbidden
  <2>3. CASE <<"opa-policy", s>> \in lifted
    <3>1. p.source # s \/ p \notin policies
      BY <1>0, <2>1, <2>3 DEF NoPutGivenUp
    <3>2. CASE call.kind = "put"
      <4>1. call = Put(set.source, set.type) /\ set.type \in {"compromised", "degraded"}
        BY <2>1, <3>2 DEF Fits, Delete, Patch, Revoke, Lookup, Flag, Post, EventTypes
      <4>2. set.source # s
        BY <2>1, <2>3, <4>1 DEF RInv, Unsettled, Resource
      <4>3. policies' = {q \in policies : q.policy # call.policy}
                          \cup {[policy |-> call.policy, source |-> set.source]}
        BY <2>1, <3>2, <4>1, EffectOnPolicies DEF Put
      <4>. QED  BY <3>1, <4>2, <4>3
    <3>3. CASE call.kind # "put"
      BY <2>1, <3>1, <3>3, EffectOnPolicies
    <3>. QED  BY <3>2, <3>3
  <2>4. CASE <<"opa-policy", s>> \notin lifted
    <3>1. /\ ActReturns(adapter, Succeeds(~Forbidden(call), Forbidden(call)))
          /\ ~(call.kind = "delete" /\ call.policy.state = "compromised")
      BY <2>1, <2>2, <2>4, Continues DEF PostStatus, DeleteSecond
    <3>2. /\ Succeeds(~Forbidden(call), Forbidden(call))
          /\ Frees(Sinks[adapter].action, set)
          /\ <<"opa-policy", s>> = Resource(Sinks[adapter].action, set)
      BY <2>4, <3>1, Acknowledges
    <3>3. Sinks[adapter].action = "opa-policy" /\ set.source = s /\ set.type = "recovered"
      BY <2>1, <3>2 DEF Frees, Resource, Fits
    <3>4. call \in {Delete(set.source, "compromised"), Delete(set.source, "degraded")}
      BY <2>1, <3>3 DEF Fits
    <3>5. call = Delete(set.source, "degraded")
      BY <3>1, <3>4 DEF Delete, PolicyID
    <3>6. \A q \in policies : q.source = s => q.policy = PolicyID(s, "degraded")
      BY <2>1, <3>2, <3>3, <3>5 DEF RInv, FirstDeleted, Calling, Succeeds, NoPutGivenUp
    <3>7. p \in policies /\ p.policy # PolicyID(s, "degraded")
      BY <2>1, <3>3, <3>5, EffectOnPolicies DEF Delete
    <3>. QED  BY <3>6, <3>7
  <2>. QED  BY <2>3, <2>4
<1>5. CASE LateEffect
  <2>1. PICK c \in orphans : Effect(c)
    BY <1>5 DEF LateEffect
  <2>2. c \in Calls /\ c \in givenUp /\ lifted' = lifted /\ givenUp' = givenUp
    BY <1>5 DEF LateEffect, historyVars, RInv, RouterTypeOK, OrphansInv
  <2>3. p.source # s \/ p \notin policies
    BY <1>0, <2>2 DEF NoPutGivenUp
  <2>4. CASE c.kind = "put"
    <3>1. PICK t \in SourceIDs, state \in {"compromised", "degraded"} : c = Put(t, state)
      BY <2>2, <2>4, PutCalls
    <3>2. t # s
      BY <2>2, <3>1 DEF NoPutGivenUp
    <3>3. policies' = {q \in policies : q.policy # c.policy}
                        \cup {[policy |-> c.policy, source |-> t]}
      BY <2>1, <2>4, <3>1, EffectOnPolicies DEF Put
    <3>. QED  BY <2>3, <3>2, <3>3
  <2>5. CASE c.kind # "put"
    BY <2>1, <2>3, <2>5, EffectOnPolicies
  <2>. QED  BY <2>4, <2>5
<1>6. CASE Quiet
  BY <1>0, <1>6 DEF Quiet, NoPutGivenUp
<1>. QED  BY <1>1, <1>2, <1>3, <1>4, <1>5, <1>6, Steps

(***************************************************************************)
(* opapolicy's two deletes: an acknowledged recovery leaves no policy of   *)
(* its source in OPA, until the source is compromised or degraded again;   *)
(* here sources may share a safe ID.                                       *)
(***************************************************************************)
THEOREM RecoveryKept == RouterSpec => []RecoveryLifts
<1>1. RouterInit => RecoveryLifts
  BY DEF RouterInit, RecoveryLifts
<1>2. RInv /\ RecoveryLifts /\ [RouterNext]_routerVars => RecoveryLifts'
  BY NextRecovery
<1>. QED  BY <1>1, <1>2, RouterInvariance, PTL DEF RouterSpec

-----------------------------------------------------------------------------
(* k8s-cordon.                                                             *)

\* Only the contrary patch of a node changes it.
LEMMA EffectOnNodes ==
  ASSUME NEW c \in Calls, Effect(c), NEW x \in Nodes
  PROVE  /\ x \in cordoned /\ c # Patch(x, FALSE) => x \in cordoned'
         /\ x \notin cordoned /\ c # Patch(x, TRUE) => x \notin cordoned'
         /\ c = Patch(x, TRUE) => x \in cordoned'
         /\ c = Patch(x, FALSE) => x \notin cordoned'
<1>1. CASE c.kind = "patch"
  <2>1. PICK y \in Nodes, value \in BOOLEAN : c = Patch(y, value)
    BY <1>1, PatchCalls
  <2>2. c.node = y /\ c.unschedulable = value
    BY <2>1 DEF Patch
  <2>3. cordoned' = IF value THEN cordoned \cup {y} ELSE cordoned \ {y}
    BY <1>1, <2>2 DEF Effect
  <2>4. c = Patch(x, TRUE) => y = x /\ value
    <3>1. c = Patch(x, TRUE) => c.node = x /\ c.unschedulable = TRUE
      BY DEF Patch
    <3>. QED  BY <2>2, <3>1
  <2>5. c = Patch(x, FALSE) => y = x /\ ~value
    <3>1. c = Patch(x, FALSE) => c.node = x /\ c.unschedulable = FALSE
      BY DEF Patch
    <3>. QED  BY <2>2, <3>1
  <2>6. (y = x /\ value) => c = Patch(x, TRUE)
    BY <2>1
  <2>7. (y = x /\ ~value) => c = Patch(x, FALSE)
    BY <2>1
  <2>. QED  BY <2>3, <2>4, <2>5, <2>6, <2>7
<1>2. CASE c.kind # "patch"
  BY <1>2 DEF Effect, Patch
<1>. QED  BY <1>1, <1>2

\* Every step leaves a node as it was last acknowledged.
LEMMA NextCordon ==
  RInv /\ CordonFollowsSETs /\ [RouterNext]_routerVars => CordonFollowsSETs'
<1>. SUFFICES ASSUME RInv, CordonFollowsSETs, [RouterNext]_routerVars, NEW x \in Nodes
              PROVE  /\ (<<"k8s-cordon", x>> \in held' /\ Patch(x, FALSE) \notin givenUp') =>
                          x \in cordoned'
                     /\ (<<"k8s-cordon", x>> \in lifted' /\ Patch(x, TRUE) \notin givenUp') =>
                          x \notin cordoned'
  BY DEF CordonFollowsSETs, Patch
<1>0. /\ (<<"k8s-cordon", x>> \in held /\ Patch(x, FALSE) \notin givenUp) => x \in cordoned
      /\ (<<"k8s-cordon", x>> \in lifted /\ Patch(x, TRUE) \notin givenUp) => x \notin cordoned
  BY DEF CordonFollowsSETs
<1>1. CASE Receive
  <2>1. held' \subseteq held /\ lifted' \subseteq lifted
        /\ cordoned' = cordoned /\ givenUp' = givenUp
    BY <1>1 DEF Receive, HandleStart, targetVars
  <2>. QED  BY <1>0, <2>1
<1>2. CASE HandleNext
  <2>1. held' = held /\ lifted' = lifted /\ cordoned' = cordoned /\ givenUp' = givenUp
    BY <1>2, Acknowledges DEF HandleNext, targetVars
  <2>. QED  BY <1>0, <2>1
<1>3. CASE Fails
  <2>1. held' = held /\ lifted' = lifted /\ cordoned' = cordoned /\ givenUp \subseteq givenUp'
    BY <1>3, FailsSilently DEF Fails, targetVars
  <2>. QED  BY <1>0, <2>1
<1>4. CASE Answer
  <2>1. /\ Effect(call) /\ call \in Calls /\ givenUp' = givenUp
        /\ Continue(~Forbidden(call), Forbidden(call))
        /\ Fits(Sinks[adapter].action, set, call) /\ hpc = "await"
    BY <1>4 DEF Answer, RInv, RouterTypeOK, CallFits, Calling
  <2>2. Forbidden(call) \in BOOLEAN
    BY DEF Forbidden
  <2>3. ASSUME NEW value \in BOOLEAN, call = Patch(x, value)
        PROVE  /\ Resource("k8s-cordon", set) = <<"k8s-cordon", x>>
               /\ value <=> (set.type # "recovered")
               /\ set.type \in EventTypes
    <3>1. call.kind = "patch" /\ call.node = x /\ call.unschedulable = value
      BY <2>3 DEF Patch
    <3>2. call = Patch(resolveNode(set), set.type # "recovered") /\ set.type \in EventTypes
      BY <2>1, <3>1 DEF Fits, Put, Delete, Revoke, Lookup, Flag, Post
    <3>3. x = resolveNode(set) /\ value = (set.type # "recovered")
      BY <3>1, <3>2 DEF Patch
    <3>. QED  BY <3>2, <3>3 DEF Resource
  <2>4. ASSUME <<"k8s-cordon", x>> \in held', Patch(x, FALSE) \notin givenUp'
        PROVE  x \in cordoned'
    <3>1. CASE <<"k8s-cordon", x>> \in held
      <4>1. call # Patch(x, FALSE)
        BY <2>1, <2>3, <3>1 DEF RInv, Unsettled
      <4>. QED  BY <1>0, <2>1, <2>4, <3>1, <4>1, EffectOnNodes
    <3>2. CASE <<"k8s-cordon", x>> \notin held
      <4>1. ActReturns(adapter, Succeeds(~Forbidden(call), Forbidden(call)))
        BY <2>1, <2>2, <2>4, <3>2, Continues DEF PostStatus, DeleteSecond
      <4>2. /\ Restricts(Sinks[adapter].action, set)
            /\ <<"k8s-cordon", x>> = Resource(Sinks[adapter].action, set)
        BY <2>4, <3>2, <4>1, Acknowledges
      <4>3. Sinks[adapter].action = "k8s-cordon" /\ resolveNode(set) = x
            /\ set.type # "recovered"
        BY <2>1, <4>2 DEF Restricts, Resource, Fits
      <4>4. call = Patch(x, TRUE)
        BY <2>1, <4>3 DEF Fits
      <4>. QED  BY <2>1, <4>4, EffectOnNodes
    <3>. QED  BY <3>1, <3>2
  <2>5. ASSUME <<"k8s-cordon", x>> \in lifted', Patch(x, TRUE) \notin givenUp'
        PROVE  x \notin cordoned'
    <3>1. CASE <<"k8s-cordon", x>> \in lifted
      <4>1. call # Patch(x, TRUE)
        BY <2>1, <2>3, <3>1 DEF RInv, Unsettled, EventTypes
      <4>. QED  BY <1>0, <2>1, <2>5, <3>1, <4>1, EffectOnNodes
    <3>2. CASE <<"k8s-cordon", x>> \notin lifted
      <4>1. ActReturns(adapter, Succeeds(~Forbidden(call), Forbidden(call)))
        BY <2>1, <2>2, <2>5, <3>2, Continues DEF PostStatus, DeleteSecond
      <4>2. /\ Frees(Sinks[adapter].action, set)
            /\ <<"k8s-cordon", x>> = Resource(Sinks[adapter].action, set)
        BY <2>5, <3>2, <4>1, Acknowledges
      <4>3. Sinks[adapter].action = "k8s-cordon" /\ resolveNode(set) = x
            /\ set.type = "recovered"
        BY <2>1, <4>2 DEF Frees, Resource, Fits
      <4>4. call = Patch(x, FALSE)
        BY <2>1, <4>3 DEF Fits
      <4>. QED  BY <2>1, <4>4, EffectOnNodes
    <3>. QED  BY <3>1, <3>2
  <2>. QED  BY <2>4, <2>5
<1>5. CASE LateEffect
  <2>1. PICK c \in orphans : Effect(c)
    BY <1>5 DEF LateEffect
  <2>2. c \in Calls /\ c \in givenUp /\ UNCHANGED <<held, lifted, givenUp>>
    BY <1>5 DEF LateEffect, historyVars, RInv, RouterTypeOK, OrphansInv
  <2>. QED  BY <1>0, <2>1, <2>2, EffectOnNodes
<1>6. CASE Quiet
  BY <1>0, <1>6 DEF Quiet
<1>. QED  BY <1>1, <1>2, <1>3, <1>4, <1>5, <1>6, Steps

(***************************************************************************)
(* k8scordon's Act: a node follows the last acknowledged SET that resolves *)
(* to it, but for a contrary patch given up earlier.                       *)
(***************************************************************************)
THEOREM CordonKept == RouterSpec => []CordonFollowsSETs
<1>1. RouterInit => CordonFollowsSETs
  BY DEF RouterInit, CordonFollowsSETs
<1>2. RInv /\ CordonFollowsSETs /\ [RouterNext]_routerVars => CordonFollowsSETs'
  BY NextCordon
<1>. QED  BY <1>1, <1>2, RouterInvariance, PTL DEF RouterSpec

-----------------------------------------------------------------------------
(* vault.                                                                  *)

\* A session that was revoked stays so, and only one that was is acknowledged.
LEMMA NextIsolated ==
  "revoke" \notin VaultDenies /\ RInv /\ SelfIsolated /\ [RouterNext]_routerVars => SelfIsolated'
<1>. SUFFICES ASSUME "revoke" \notin VaultDenies, RInv, SelfIsolated, [RouterNext]_routerVars,
                     <<"vault", "relay">> \in held'
              PROVE  token' = "invalid"
  BY DEF SelfIsolated
<1>0. <<"vault", "relay">> \in held => token = "invalid"
  BY DEF SelfIsolated
<1>1. CASE Receive
  BY <1>0, <1>1 DEF Receive, HandleStart, targetVars
<1>2. CASE HandleNext
  BY <1>0, <1>2, Acknowledges DEF HandleNext, targetVars
<1>3. CASE Fails
  BY <1>0, <1>3, FailsSilently DEF Fails, targetVars
<1>4. CASE Answer
  <2>1. /\ Effect(call) /\ Continue(~Forbidden(call), Forbidden(call))
        /\ Fits(Sinks[adapter].action, set, call)
    BY <1>4 DEF Answer, RInv, CallFits, Calling
  <2>2. Forbidden(call) \in BOOLEAN
    BY DEF Forbidden
  <2>3. CASE <<"vault", "relay">> \in held
    BY <1>0, <2>1, <2>3 DEF Effect
  <2>4. CASE <<"vault", "relay">> \notin held
    <3>1. ActReturns(adapter, Succeeds(~Forbidden(call), Forbidden(call)))
      BY <2>1, <2>2, <2>4, Continues DEF PostStatus, DeleteSecond
    <3>2. /\ Restricts(Sinks[adapter].action, set)
          /\ <<"vault", "relay">> = Resource(Sinks[adapter].action, set)
      BY <2>4, <3>1, Acknowledges
    <3>3. Sinks[adapter].action = "vault" /\ set.type = "compromised"
      BY <3>2 DEF Restricts, Resource
    <3>4. call = Revoke
      BY <2>1, <3>3 DEF Fits
    <3>5. Forbidden(call) => token = "invalid"
      BY <3>4 DEF Forbidden, Revoke
    <3>. QED  BY <2>1, <3>4, <3>5 DEF Effect, Revoke
  <2>. QED  BY <2>3, <2>4
<1>5. CASE LateEffect
  BY <1>0, <1>5 DEF LateEffect, Effect, historyVars
<1>6. CASE Quiet
  BY <1>0, <1>6 DEF Quiet
<1>. QED  BY <1>1, <1>2, <1>3, <1>4, <1>5, <1>6, Steps

(***************************************************************************)
(* vault's revokeSelf: where the relay's token may revoke itself, an       *)
(* acknowledged compromise means that the session is dead, and for good.   *)
(***************************************************************************)
THEOREM SelfIsolationKept == "revoke" \notin VaultDenies => (RouterSpec => []SelfIsolated)
<1>. SUFFICES ASSUME "revoke" \notin VaultDenies PROVE RouterSpec => []SelfIsolated
  OBVIOUS
<1>1. RouterInit => SelfIsolated
  BY DEF RouterInit, SelfIsolated
<1>2. RInv /\ SelfIsolated /\ [RouterNext]_routerVars => SelfIsolated'
  BY NextIsolated
<1>. QED  BY <1>1, <1>2, RouterInvariance, PTL DEF RouterSpec

\* While a restriction is handled, no recovery's acknowledgement stands.
StatusUnsettled ==
  (hpc # "idle" /\ set.type \in {"compromised", "degraded"}) =>
    <<"vault", "relay">> \notin lifted

\* A recovery's acknowledgement goes with the next restriction that arrives.
LEMMA NextStatusUnsettled ==
  StatusUnsettled /\ [RouterNext]_routerVars => StatusUnsettled'
<1>. SUFFICES ASSUME StatusUnsettled, [RouterNext]_routerVars, hpc' # "idle",
                     set'.type \in {"compromised", "degraded"}
              PROVE  <<"vault", "relay">> \notin lifted'
  BY DEF StatusUnsettled
<1>0. ASSUME NEW i, NEW ok, ActReturns(i, ok), set' = set, hpc # "idle"
      PROVE  <<"vault", "relay">> \notin lifted'
  BY <1>0, Acknowledges DEF StatusUnsettled, Frees
<1>1. CASE Receive
  <2>1. PICK st \in InboundSET : HandleStart(st)
    BY <1>1 DEF Receive
  <2>2. set' = st /\ Resource("vault", st) = <<"vault", "relay">> /\ "vault" \in ActionNames
    BY <2>1 DEF HandleStart, ActionNames, Resource
  <2>. QED  BY <2>1, <2>2 DEF HandleStart
<1>2. CASE HandleNext
  <2>1. hpc # "idle" /\ set' = set
    BY <1>2 DEF HandleNext
  <2>2. \/ \E i \in Remaining : ActReturns(i, FALSE)
        \/ UNCHANGED <<held, lifted>>
    BY <1>2 DEF HandleNext
  <2>. QED  BY <1>0, <2>1, <2>2 DEF StatusUnsettled
<1>3. CASE Fails
  <2>1. hpc # "idle" /\ set' = set /\ lifted' = lifted
    BY <1>3, FailsSilently DEF Fails, Calling
  <2>. QED  BY <2>1 DEF StatusUnsettled
<1>4. CASE Answer
  <2>1. hpc # "idle" /\ set' = set /\ Continue(~Forbidden(call), Forbidden(call))
    BY <1>4 DEF Answer
  <2>2. Forbidden(call) \in BOOLEAN
    BY DEF Forbidden
  <2>3. CASE PostStatus \/ DeleteSecond(~Forbidden(call))
    BY <2>1, <2>3 DEF PostStatus, DeleteSecond, StatusUnsettled
  <2>. QED  BY <1>0, <2>1, <2>2, <2>3, Continues
<1>5. CASE LateEffect
  BY <1>5 DEF LateEffect, handleVars, historyVars, StatusUnsettled
<1>6. CASE Quiet
  BY <1>6 DEF Quiet, StatusUnsettled
<1>. QED  BY <1>1, <1>2, <1>3, <1>4, <1>5, <1>6, Steps

\* Of a call, a flag alone changes the status, and only while the token lives.
LEMMA EffectOnStatus ==
  ASSUME NEW c \in Calls, Effect(c)
  PROVE  /\ token' = "valid" => token = "valid"
         /\ entity' = entity \/ (c.kind = "flag" /\ entity' = c.status)
         /\ (c.kind = "flag" /\ ~Forbidden(c)) => entity' = c.status
         /\ (c.kind = "flag" /\ c.status # "cleared") => c = Flag("degraded")
<1>1. /\ token' = "valid" => token = "valid"
      /\ entity' = entity \/ (c.kind = "flag" /\ entity' = c.status)
      /\ (c.kind = "flag" /\ ~Forbidden(c)) => entity' = c.status
  BY DEF Effect
<1>2. (c.kind = "flag" /\ c.status # "cleared") => c = Flag("degraded")
  BY DEF Calls, Put, Delete, Patch, Flag, Post, Revoke, Lookup
<1>. QED  BY <1>1, <1>2

\* A status that was cleared stays so, and only one that was is acknowledged.
LEMMA NextClears ==
  ASSUME "lookup" \notin VaultDenies, RInv, StatusUnsettled, RecoveryClears,
         [RouterNext]_routerVars
  PROVE  RecoveryClears'
<1>. SUFFICES ASSUME <<"vault", "relay">> \in lifted', HasEntity, token' = "valid",
                     Flag("degraded") \notin givenUp'
              PROVE  entity' = "cleared"
  BY DEF RecoveryClears, Flag
<1>0. (/\ <<"vault", "relay">> \in lifted /\ token = "valid"
       /\ Flag("degraded") \notin givenUp) => entity = "cleared"
  BY DEF RecoveryClears
<1>1. CASE Receive
  BY <1>0, <1>1 DEF Receive, HandleStart, targetVars
<1>2. CASE HandleNext
  BY <1>0, <1>2, Acknowledges DEF HandleNext, targetVars
<1>3. CASE Fails
  BY <1>0, <1>3, FailsSilently DEF Fails, targetVars
<1>4. CASE Answer
  <2>1. /\ Effect(call) /\ Continue(~Forbidden(call), Forbidden(call))
        /\ Fits(Sinks[adapter].action, set, call) /\ call \in Calls
        /\ hpc = "await" /\ givenUp' = givenUp
    BY <1>4 DEF Answer, RInv, RouterTypeOK, CallFits, Calling
  <2>2. Forbidden(call) \in BOOLEAN /\ token = "valid"
    BY <2>1, EffectOnStatus DEF Forbidden
  <2>3. CASE <<"vault", "relay">> \in lifted
    <3>1. entity = "cleared" /\ set.type \notin {"compromised", "degraded"}
      BY <1>0, <2>1, <2>2, <2>3 DEF StatusUnsettled
    <3>2. call.kind = "flag" => call = Flag("cleared")
      BY <2>1, <3>1 DEF Fits, EventTypes, Put, Delete, Patch, Flag, Post, Revoke, Lookup
    <3>3. call.kind = "flag" => call.status = "cleared"
      BY <3>2 DEF Flag
    <3>. QED  BY <2>1, <3>1, <3>3, EffectOnStatus
  <2>4. CASE <<"vault", "relay">> \notin lifted
    <3>1. /\ ActReturns(adapter, Succeeds(~Forbidden(call), Forbidden(call)))
          /\ ~(call.kind = "lookup" /\ ~Forbidden(call))
      BY <2>1, <2>2, <2>4 DEF Continue, PostStatus, DeleteSecond
    <3>2. /\ Frees(Sinks[adapter].action, set)
          /\ <<"vault", "relay">> = Resource(Sinks[adapter].action, set)
          /\ Succeeds(~Forbidden(call), Forbidden(call))
      BY <2>4, <3>1, Acknowledges
    <3>3. Sinks[adapter].action = "vault" /\ set.type = "recovered"
      BY <3>2 DEF Frees, Resource
    <3>4. call \in {Lookup, Flag("cleared")}
      BY <2>1, <3>3 DEF Fits
    <3>5. call = Flag("cleared")
      BY <2>2, <3>1, <3>4 DEF Forbidden, Lookup
    <3>6. call.kind = "flag" /\ call.status = "cleared"
      BY <3>5 DEF Flag
    <3>7. ~Forbidden(call)
      BY <2>2, <3>2, <3>6 DEF Succeeds
    <3>. QED  BY <2>1, <3>6, <3>7, EffectOnStatus
  <2>. QED  BY <2>3, <2>4
<1>5. CASE LateEffect
  <2>1. PICK c \in orphans : Effect(c)
    BY <1>5 DEF LateEffect
  <2>2. c \in Calls /\ c \in givenUp /\ UNCHANGED <<lifted, givenUp>>
    BY <1>5 DEF LateEffect, historyVars, RInv, RouterTypeOK, OrphansInv
  <2>3. (c.kind = "flag" /\ c.status # "cleared") => c = Flag("degraded")
    BY <2>1, <2>2, EffectOnStatus
  <2>4. token = "valid" /\ (entity' = entity \/ (c.kind = "flag" /\ entity' = c.status))
    BY <2>1, <2>2, EffectOnStatus
  <2>. QED  BY <1>0, <2>2, <2>3, <2>4
<1>6. CASE Quiet
  BY <1>0, <1>6 DEF Quiet
<1>. QED  BY <1>1, <1>2, <1>3, <1>4, <1>5, <1>6, Steps

(***************************************************************************)
(* vault's flagEntity: where the token may look itself up, an acknowledged *)
(* recovery means that ssf_status is cleared, whatever happens between the *)
(* lookup and the update, and until the next restriction arrives.          *)
(***************************************************************************)
THEOREM RecoveryCleared == "lookup" \notin VaultDenies => (RouterSpec => []RecoveryClears)
<1>. SUFFICES ASSUME "lookup" \notin VaultDenies PROVE RouterSpec => []RecoveryClears
  OBVIOUS
<1>1. RouterInit => StatusUnsettled /\ RecoveryClears
  BY DEF RouterInit, StatusUnsettled, RecoveryClears
<1>2. RInv /\ StatusUnsettled /\ RecoveryClears /\ [RouterNext]_routerVars =>
        (StatusUnsettled /\ RecoveryClears)'
  BY NextStatusUnsettled, NextClears
<1>. QED  BY <1>1, <1>2, RouterInvariance, PTL DEF RouterSpec

-----------------------------------------------------------------------------
(* The fan-out.                                                            *)

\* The adapters whose Act has returned for this SET.
Acted == {results[k].adapter : k \in 1..Len(results)}

\* Their results are in the order of registration.
InOrder == \A j, k \in 1..Len(results) : j < k => results[j].adapter < results[k].adapter

(***************************************************************************)
(* Handle has gone through the adapters for the SET's type up to adapter,  *)
(* each of which has returned but the one that is acting; when Handle has  *)
(* returned it has gone through all of them.                               *)
(***************************************************************************)
FanOutInv ==
  set # NoSET =>
    /\ Calling => adapter \in AdaptersFor(set.type)
    /\ Acted = {i \in AdaptersFor(set.type) : i <= adapter /\ (Calling => i # adapter)}
    /\ InOrder
    /\ hpc = "idle" => Remaining = {}

\* An Act that returns adds its adapter, the last one yet, to the results.
LEMMA ResultAdded ==
  ASSUME RouterTypeOK, InOrder, NEW i \in 1..Len(Sinks), NEW ok \in BOOLEAN,
         \A a \in Acted : a < i,
         results' = Append(results, [adapter |-> i, ok |-> ok])
  PROVE  Acted' = Acted \cup {i} /\ InOrder'
<1>. DEFINE R == [adapter : 1..Len(Sinks), ok : BOOLEAN]
            e == [adapter |-> i, ok |-> ok]
<1>1. results \in Seq(R) /\ e \in R /\ e.adapter = i
  BY DEF RouterTypeOK
<1>2. /\ Len(results) \in Nat /\ Len(results') = Len(results) + 1
      /\ \A k \in 1..Len(results) : results'[k] = results[k]
      /\ results'[Len(results) + 1] = e
  <2>. HIDE DEF e, R
  <2>. QED  BY <1>1 DEF e
<1>3. Acted' = Acted \cup {i}
  <2>. HIDE DEF e
  <2>. QED  BY <1>1, <1>2 DEF Acted
<1>4. ASSUME NEW j \in 1..Len(results'), NEW k \in 1..Len(results'), j < k
      PROVE  results'[j].adapter < results'[k].adapter
  <2>. HIDE DEF e
  <2>1. j \in 1..Len(results) /\ results'[j] = results[j]
    BY <1>2, <1>4
  <2>2. CASE k = Len(results) + 1
    BY <1>1, <1>2, <2>1, <2>2 DEF Acted
  <2>3. CASE k \in 1..Len(results)
    BY <1>2, <1>4, <2>1, <2>3 DEF InOrder
  <2>. QED  BY <1>2, <2>2, <2>3
<1>. QED  BY <1>3, <1>4 DEF InOrder

\* An adapter is the first sink of its action.
LEMMA AdaptersAreSinks ==
  ASSUME NEW type
  PROVE  AdaptersFor(type) \subseteq 1..Len(Sinks) /\ Len(Sinks) \in Nat
BY RouterAssumption DEF AdaptersFor, Registered

\* Every step keeps the adapters that have acted those that were to act so far.
LEMMA NextFanOut ==
  RouterTypeOK /\ FanOutInv /\ [RouterNext]_routerVars => FanOutInv'
<1>. SUFFICES ASSUME RouterTypeOK, FanOutInv, [RouterNext]_routerVars, set' # NoSET
              PROVE  /\ Calling' => adapter' \in AdaptersFor(set'.type)
                     /\ Acted' = {i \in AdaptersFor(set'.type) :
                                    i <= adapter' /\ (Calling' => i # adapter')}
                     /\ InOrder'
                     /\ hpc' = "idle" => Remaining' = {}
  BY DEF FanOutInv, AdaptersFor
<1>. DEFINE A == AdaptersFor(set.type)
<1>a. A \subseteq 1..Len(Sinks) /\ Len(Sinks) \in Nat /\ adapter \in 0..Len(Sinks)
  BY AdaptersAreSinks DEF RouterTypeOK
<1>b. set' = set =>
        /\ Calling => adapter \in A
        /\ Acted = {i \in A : i <= adapter /\ (Calling => i # adapter)}
        /\ InOrder
        /\ hpc = "idle" => Remaining = {}
  BY DEF FanOutInv
<1>0. ASSUME NEW ok \in BOOLEAN, NEW forbidden \in BOOLEAN, Calling,
             Continue(ok, forbidden), UNCHANGED <<set, adapter>>
      PROVE  /\ Calling' => adapter' \in AdaptersFor(set'.type)
             /\ Acted' = {i \in AdaptersFor(set'.type) :
                            i <= adapter' /\ (Calling' => i # adapter')}
             /\ InOrder'
             /\ hpc' # "idle"
  <2>1. CASE PostStatus \/ DeleteSecond(ok)
    <3>1. results' = results /\ hpc' = "send"
      BY <2>1 DEF PostStatus, DeleteSecond
    <3>. QED  BY <1>0, <1>b, <3>1 DEF Acted, InOrder, Calling
  <2>2. CASE ActReturns(adapter, Succeeds(ok, forbidden))
    <3>. DEFINE good == Succeeds(ok, forbidden)
    <3>1. results' = Append(results, [adapter |-> adapter, ok |-> good]) /\ hpc' = "next"
      BY <2>2 DEF ActReturns
    <3>2. good \in BOOLEAN
      BY DEF Succeeds
    <3>3. adapter \in A /\ Acted = {i \in A : i < adapter}
      BY <1>0, <1>a, <1>b
    <3>4. adapter \in 1..Len(Sinks) /\ \A a \in Acted : a < adapter
      BY <1>a, <3>3
    <3>5. Acted' = Acted \cup {adapter} /\ InOrder'
      <4>. HIDE DEF good
      <4>. QED  BY <1>0, <1>b, <3>1, <3>2, <3>4, ResultAdded
    <3>6. Acted' = {i \in A : i <= adapter}
      BY <1>a, <3>3, <3>5
    <3>. QED  BY <1>0, <3>1, <3>5, <3>6 DEF Calling
  <2>. QED  BY <1>0, <2>1, <2>2, Continues
<1>1. CASE Receive
  <2>1. results' = <<>> /\ adapter' = 0 /\ hpc' = "next"
    BY <1>1 DEF Receive, HandleStart
  <2>2. Acted' = {} /\ InOrder'
    BY <2>1 DEF Acted, InOrder
  <2>3. {i \in AdaptersFor(set'.type) : i <= adapter'} = {}
    BY <2>1, AdaptersAreSinks
  <2>. QED  BY <2>1, <2>2, <2>3 DEF Calling
<1>2. CASE HandleNext
  <2>1. PICK i \in Remaining :
          /\ IsNextAdapter(i)
          /\ adapter' = i
          /\ IF FailsLocally(Sinks[i].action, set)
               THEN ActReturns(i, FALSE)
               ELSE hpc' = "send" /\ UNCHANGED results
    BY <1>2 DEF HandleNext
  <2>2. set' = set /\ hpc = "next"
    BY <1>2 DEF HandleNext
  <2>3. i \in A /\ i > adapter /\ i \in 1..Len(Sinks)
        /\ \A j \in A : j > adapter => i <= j
    BY <1>a, <2>1 DEF Remaining, IsNextAdapter
  <2>4. Acted = {j \in A : j <= adapter} /\ InOrder
    BY <1>b, <2>2 DEF Calling
  <2>5. \A a \in Acted : a < i
    BY <1>a, <2>3, <2>4
  <2>6. {j \in A : j <= i} = Acted \cup {i} /\ {j \in A : j <= i /\ j # i} = Acted
    BY <1>a, <2>3, <2>4
  <2>7. CASE FailsLocally(Sinks[i].action, set)
    <3>1. results' = Append(results, [adapter |-> i, ok |-> FALSE]) /\ hpc' = "next"
      BY <2>1, <2>7 DEF ActReturns
    <3>2. Acted' = Acted \cup {i} /\ InOrder'
      BY <2>3, <2>4, <2>5, <3>1, ResultAdded
    <3>. QED  BY <2>1, <2>2, <2>6, <3>1, <3>2 DEF Calling
  <2>8. CASE ~FailsLocally(Sinks[i].action, set)
    <3>1. results' = results /\ hpc' = "send"
      BY <2>1, <2>8
    <3>2. Acted' = Acted /\ InOrder' /\ Calling'
      BY <2>4, <3>1 DEF Acted, InOrder, Calling
    <3>. QED  BY <2>1, <2>2, <2>3, <2>6, <3>1, <3>2
  <2>. QED  BY <2>7, <2>8
<1>3. CASE HandleReturn
  BY <1>3, <1>b DEF HandleReturn, Acted, InOrder, Calling, Remaining
<1>4. CASE Fails
  BY <1>0, <1>4 DEF Fails
<1>5. CASE Answer
  <2>1. Forbidden(call) \in BOOLEAN
    BY DEF Forbidden
  <2>. QED  BY <1>0, <1>5, <2>1 DEF Answer, Calling
<1>6. CASE UNCHANGED <<set, adapter, results>> /\ (Calling' <=> Calling)
           /\ (hpc' = "idle" => hpc = "idle")
  BY <1>6, <1>b DEF Acted, InOrder, Remaining
<1>7. RouterCancel \/ Send \/ LateEffect \/ OrphanLost \/ TokenExpires
        \/ UNCHANGED routerVars =>
          UNCHANGED <<set, adapter, results>> /\ (Calling' <=> Calling)
            /\ (hpc' = "idle" => hpc = "idle")
  BY DEF RouterCancel, Send, LateEffect, OrphanLost, TokenExpires, routerVars,
         handleVars, Calling
<1>8. SendCancelled \/ Refuse \/ GiveUp => Fails
  BY DEF SendCancelled, Refuse, GiveUp, Fails, Calling, targetVars
<1>. QED  BY <1>1, <1>2, <1>3, <1>4, <1>5, <1>6, <1>7, <1>8
          DEF RouterNext, HandleStep, RouterEnvironment

(***************************************************************************)
(* Router.Handle: when it has returned, every adapter for the type of the  *)
(* SET has acted once, in the order of registration, also after errors.    *)
(***************************************************************************)
THEOREM AllAdaptersAct == RouterSpec => []FanOutComplete
<1>1. RouterInit => FanOutInv
  BY DEF RouterInit, FanOutInv
<1>2. RouterTypeOK /\ FanOutInv => FanOutComplete
  <2>. SUFFICES ASSUME RouterTypeOK, FanOutInv, hpc = "idle", set # NoSET
                PROVE  Acted = AdaptersFor(set.type) /\ InOrder
    BY DEF FanOutComplete, Acted, InOrder
  <2>1. /\ Acted = {i \in AdaptersFor(set.type) : i <= adapter}
        /\ InOrder /\ Remaining = {}
    BY DEF FanOutInv, Calling
  <2>2. AdaptersFor(set.type) \subseteq Int /\ adapter \in Int
    BY AdaptersAreSinks DEF RouterTypeOK
  <2>. QED  BY <2>1, <2>2 DEF Remaining
<1>. QED  BY <1>1, <1>2, NextFanOut, RouterTypeCorrect, PTL DEF RouterSpec
=============================================================================
