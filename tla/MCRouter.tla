------------------------------ MODULE MCRouter ------------------------------
(***************************************************************************)
(* Router on its own: the subscriber hands it at most MaxSETs SETs, one    *)
(* after the other, of any type, source and node.                          *)
(***************************************************************************)
EXTENDS Router

CONSTANTS MaxSETs,     \* bound: SETs handled
          TheSinks,    \* which sinks the configuration has
          Clashing     \* the two sources' safe IDs are the same

VARIABLE count

MCvars == <<routerVars, count>>

MCSources == {"a-b", "a_b"}

MCsafeID == [s \in MCSources |-> IF Clashing THEN "a_b" ELSE s]

sink(action) == [action |-> action, event_type |-> "compromised"]

\* The configurations: sinks in order, an action may be there twice.
MCSinks ==
  CASE TheSinks = "opa"     -> <<sink("opa-policy")>>
    [] TheSinks = "targets" -> <<sink("vault"), sink("k8s-cordon"), sink("vault")>>
    [] TheSinks = "vault"   -> <<sink("vault")>>

\* The SETs received: the node matters to k8s-cordon alone, the source to
\* opa-policy; a type without adapters is left to the runs without nodes.
MCSETs ==
  {st \in InboundSET : IF TheSinks = "targets"
                         THEN st.source = "a-b" /\ st.type # "other"
                         ELSE st.node = NoNode}

MCInit == RouterInit /\ count = 0

MCReceive ==
  /\ count < MaxSETs
  /\ count' = count + 1
  /\ \E st \in MCSETs : HandleStart(st)

MCNext ==
  \/ MCReceive
  \/ RouterCancel /\ UNCHANGED count
  \/ HandleStep /\ UNCHANGED count
  \/ RouterEnvironment /\ UNCHANGED count

MCSpec == MCInit /\ [][MCNext]_MCvars
=============================================================================
