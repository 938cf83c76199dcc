---------------------------- MODULE MCSubscriber ----------------------------
(***************************************************************************)
(* Subscriber with one adapter, a webhook, configured for a single type.   *)
(***************************************************************************)
EXTENDS Subscriber

MCSinks == <<[action |-> "webhook", event_type |-> "compromised"]>>

MCSources == {"s"}

MCsafeID == [s \in MCSources |-> s]

\* The receiver publishes SETs of every event type.
MCSETs == {[type |-> t, source |-> "s", node |-> NoNode] : t \in EventTypes}
=============================================================================
