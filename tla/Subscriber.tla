----------------------------- MODULE Subscriber -----------------------------
(***************************************************************************)
(* Subscriber.Run (src/relay/subscriber.go): creates a stream subscription *)
(* at the trust receiver, reads its SSE connection line by line, hands     *)
(* every SET to Router.Handle, and starts over when the connection ends.   *)
(* The receiver is modelled from how Run uses it: it publishes SETs, with  *)
(* keep-alives and other lines between them; it may keep what is published *)
(* between the creation of a stream and its GET; it may go down, cut the   *)
(* connection (what was in flight is then lost), or send what is not a SET.*)
(***************************************************************************)
EXTENDS Router

CONSTANTS
  SETs,         \* the SETs the receiver may publish
  MaxPublished, \* bound: SETs published
  MaxNoise,     \* bound: lines that are not SETs
  LimitFrames   \* lines that fit into the reader's limit of 8 MiB

ASSUME SubscriberAssumption ==
  /\ SETs \subseteq InboundSET
  /\ MaxPublished \in Nat /\ MaxNoise \in Nat /\ LimitFrames \in Nat \ {0}

VARIABLES
  \* Subscriber.Run and readSSE.
  spc,        \* where Run is
  backoff,    \* seconds to wait before the next attempt
  used,       \* lines read from this connection
  frame,      \* the line being dispatched: a SET's frame
  subscribed, \* event types of the stream
  \* The receiver and the connection.
  up,         \* the receiver answers
  open,       \* the connection is open
  wire,       \* lines sent and not yet read
  \* What an observer remembers.
  published,  \* number of SETs published
  noise,      \* number of other lines sent
  lost,       \* serials of SETs that were lost on their way
  handled     \* serials of the SETs handed to Router.Handle, in order

subVars     == <<spc, backoff, used, frame, subscribed>>
netVars     == <<up, open, wire>>
obsVars     == <<published, noise, lost, handled>>
subscriberVars == <<subVars, netVars, obsVars, routerVars>>

\* A line of the connection; n is the serial of its SET.
SETFrame(n, st) == [kind |-> "set", n |-> n, set |-> st]
Noise(kind)     == [kind |-> kind]

\* A comment or an empty line; a data line that is no SET; a line too long for
\* the scanner.
NoiseKinds == {"ignored", "garbage", "huge"}

NoFrame == Noise("none")

\* Serials of the SETs in a sequence of frames.
SETsOf(frames) ==
  {frames[k].n : k \in {j \in 1..Len(frames) : frames[j].kind = "set"}}

SubscriberInit ==
  /\ RouterInit
  /\ spc = IF RouterEventTypes = {} THEN "idle" ELSE "loop"
  /\ backoff = 2 /\ used = 0 /\ frame = NoFrame /\ subscribed = {}
  /\ up = TRUE /\ open = FALSE /\ wire = <<>>
  /\ published = 0 /\ noise = 0 /\ lost = {} /\ handled = <<>>

-----------------------------------------------------------------------------
(* The receiver.                                                           *)

\* The receiver publishes a SET of a type subscribed to: to the connection;
\* without one it is lost, or kept for the GET of a stream just created.
Publish ==
  /\ published < MaxPublished
  /\ published' = published + 1
  /\ \/ /\ up /\ (open \/ spc = "connect")
        /\ \E st \in {x \in SETs : x.type \in subscribed} :
             wire' = Append(wire, SETFrame(published', st))
        /\ UNCHANGED lost
     \/ /\ ~open
        /\ lost' = lost \cup {published'}
        /\ UNCHANGED wire
  /\ UNCHANGED <<subVars, up, open, noise, handled, routerVars>>

SendNoise ==
  /\ up /\ open
  /\ noise < MaxNoise
  /\ noise' = noise + 1
  /\ \E kind \in NoiseKinds : wire' = Append(wire, Noise(kind))
  /\ UNCHANGED <<subVars, up, open, published, lost, handled, routerVars>>

\* The connection is cut: of the lines in flight only the first k arrive.
Cut ==
  /\ open
  /\ open' = FALSE
  /\ \E k \in 0..Len(wire) :
       /\ wire' = SubSeq(wire, 1, k)
       /\ lost' = lost \cup SETsOf(SubSeq(wire, k + 1, Len(wire)))
  /\ UNCHANGED <<subVars, up, published, noise, handled, routerVars>>

\* The receiver goes down, between two connections, or comes back.
Toggle ==
  /\ ~open
  /\ up' = ~up
  /\ UNCHANGED <<subVars, open, wire, obsVars, routerVars>>

\* main's signal handler cancels ctx.
Cancel ==
  /\ RouterCancel
  /\ UNCHANGED <<subVars, netVars, obsVars>>

-----------------------------------------------------------------------------
(* Subscriber.Run.                                                         *)

maxBackoff == 60

\* capDuration(2b, maxBackoff).
capDuration(b) == IF 2 * b < maxBackoff THEN 2 * b ELSE maxBackoff

\* The check of ctx at the head of the loop.
LoopHead ==
  /\ spc = "loop"
  /\ spc' = IF cancelled THEN "done" ELSE "create"
  /\ UNCHANGED <<backoff, used, frame, subscribed, netVars, obsVars, routerVars>>

\* createStream succeeds: a new stream, with nothing in it; backoff is reset.
CreateStream ==
  /\ spc = "create"
  /\ up /\ ~cancelled
  /\ subscribed' = RouterEventTypes
  /\ backoff' = 2
  /\ spc' = "connect"
  /\ UNCHANGED <<used, frame, netVars, obsVars, routerVars>>

\* Mutant of CreateFails: the error ends Run.
CreateFailsForGood ==
  /\ spc = "create"
  /\ spc' = "done"
  /\ UNCHANGED <<backoff, used, frame, subscribed, netVars, obsVars, routerVars>>

\* createStream fails: no answer in 10 s, a status other than 201, a body
\* without id, ctx cancelled.
CreateFails ==
  /\ spc = "create"
  /\ spc' = "createWait"
  /\ UNCHANGED <<backoff, used, frame, subscribed, netVars, obsVars, routerVars>>

\* Mutant of BackOff: doubled without the cap.
BackOffUncapped ==
  /\ spc \in {"createWait", "wait"}
  /\ backoff' = 2 * backoff
  /\ spc' = "loop"
  /\ UNCHANGED <<used, frame, subscribed, netVars, obsVars, routerVars>>

\* The wait is over: once more, and twice as long the next time.
BackOff ==
  /\ spc \in {"createWait", "wait"}
  /\ backoff' = capDuration(backoff)
  /\ spc' = "loop"
  /\ UNCHANGED <<used, frame, subscribed, netVars, obsVars, routerVars>>

\* ctx is cancelled during a wait, or while there is nothing to subscribe to.
CancelWait ==
  /\ spc \in {"idle", "createWait", "wait"}
  /\ cancelled
  /\ spc' = "done"
  /\ UNCHANGED <<backoff, used, frame, subscribed, netVars, obsVars, routerVars>>

-----------------------------------------------------------------------------
(* readSSE.                                                                *)

\* The GET is answered with 200: what the stream has is sent.
Connect ==
  /\ spc = "connect"
  /\ up /\ ~cancelled
  /\ open' = TRUE
  /\ used' = 0
  /\ spc' = "scan"
  /\ UNCHANGED <<backoff, frame, subscribed, up, wire, obsVars, routerVars>>

\* readSSE returns; its connection is closed and its stream left behind, with
\* whatever was still to be read.
EndSSE ==
  /\ open' = FALSE
  /\ wire' = <<>>
  /\ lost' = lost \cup SETsOf(wire)
  /\ spc' = "wait"

\* The GET fails: no connection, a status other than 200, ctx cancelled.
ConnectFails ==
  /\ spc = "connect"
  /\ EndSSE
  /\ UNCHANGED <<backoff, used, frame, subscribed, up, published, noise, handled,
                 routerVars>>

\* scanner.Scan finds a line within the limit; it is not ignored.
HasLine == wire # <<>> /\ used < LimitFrames /\ Head(wire).kind # "huge"

\* Mutant of ScanLine: the first SET of a connection is taken for a preamble.
ScanLineSkipsFirst ==
  /\ spc = "scan"
  /\ HasLine /\ ~cancelled
  /\ wire' = Tail(wire)
  /\ used' = used + 1
  /\ IF Head(wire).kind = "set" /\ used > 0
       THEN frame' = Head(wire) /\ spc' = "dispatch"
       ELSE UNCHANGED <<frame, spc>>
  /\ UNCHANGED <<backoff, subscribed, up, open, obsVars, routerVars>>

\* Mutant of ScanLine: the line is not consumed.
ScanLineAgain ==
  /\ spc = "scan"
  /\ HasLine /\ ~cancelled
  /\ used' = used + 1
  /\ IF Head(wire).kind = "set"
       THEN frame' = Head(wire) /\ spc' = "dispatch"
       ELSE UNCHANGED <<frame, spc>>
  /\ UNCHANGED <<backoff, subscribed, netVars, obsVars, routerVars>>

\* Scan returns a line and ctx is not cancelled: a SET is decoded for
\* dispatch, any other line skipped.
ScanLine ==
  /\ spc = "scan"
  /\ HasLine /\ ~cancelled
  /\ wire' = Tail(wire)
  /\ used' = used + 1
  /\ IF Head(wire).kind = "set"
       THEN frame' = Head(wire) /\ spc' = "dispatch"
       ELSE UNCHANGED <<frame, spc>>
  /\ UNCHANGED <<backoff, subscribed, up, open, obsVars, routerVars>>

\* Scan ends: the connection is closed, the limit reached, a line too long.
ScanEnds ==
  /\ spc = "scan"
  /\ \/ wire = <<>> /\ ~open
     \/ used = LimitFrames
     \/ wire # <<>> /\ Head(wire).kind = "huge"
  /\ EndSSE
  /\ UNCHANGED <<backoff, used, frame, subscribed, up, published, noise, handled,
                 routerVars>>

\* Mutant of ScanCancelled: the GET is made without ctx, which is looked at
\* after a line only.
ScanCancelledAfterLine ==
  /\ spc = "scan"
  /\ cancelled
  /\ wire # <<>>
  /\ EndSSE
  /\ UNCHANGED <<backoff, used, frame, subscribed, up, published, noise, handled,
                 routerVars>>

\* ctx is cancelled: it ends the read, or the loop after the line read.
ScanCancelled ==
  /\ spc = "scan"
  /\ cancelled
  /\ EndSSE
  /\ UNCHANGED <<backoff, used, frame, subscribed, up, published, noise, handled,
                 routerVars>>

\* Router.Handle is called with the SET ...
Dispatch ==
  /\ spc = "dispatch"
  /\ HandleStart(frame.set)
  /\ handled' = Append(handled, frame.n)
  /\ spc' = "handle"
  /\ UNCHANGED <<backoff, used, frame, subscribed, netVars, published, noise, lost>>

\* Mutant of Handled: the next SET is taken while this one is handled.
HandledEarly ==
  /\ spc = "handle"
  /\ spc' = "scan"
  /\ UNCHANGED <<backoff, used, frame, subscribed, netVars, obsVars, routerVars>>

\* ... and has returned; its error is logged.
Handled ==
  /\ spc = "handle" /\ hpc = "idle"
  /\ spc' = "scan"
  /\ UNCHANGED <<backoff, used, frame, subscribed, netVars, obsVars, routerVars>>

RunStep ==
  \/ LoopHead \/ CreateStream \/ CreateFails \/ BackOff \/ CancelWait
  \/ Connect \/ ConnectFails \/ ScanLine \/ ScanEnds \/ ScanCancelled
  \/ Dispatch \/ Handled

\* Handle, and the calls of the adapters.
Handling == HandleStep /\ UNCHANGED <<subVars, netVars, obsVars>>

Receiver == Publish \/ SendNoise \/ Cut \/ Toggle

Next ==
  \/ Receiver \/ Cancel
  \/ RunStep
  \/ Handling
  \/ RouterEnvironment /\ UNCHANGED <<subVars, netVars, obsVars>>

Spec == SubscriberInit /\ [][Next]_subscriberVars

(***************************************************************************)
(* Fairness.  Run and Handle take their steps: goroutines are scheduled,   *)
(* timers fire, a line that is there is read, a cancelled ctx ends every   *)
(* wait and call; a call to an adapter's target ends by its timeout if not *)
(* by an answer.  A receiver that is up again and again accepts a stream   *)
(* and its GET in the end (SF of CreateStream and Connect); one that does  *)
(* not answer the GET holds Run until ctx is cancelled: that request has   *)
(* no timeout.                                                             *)
(***************************************************************************)
Fairness ==
  /\ WF_subscriberVars(LoopHead)
  /\ WF_subscriberVars(BackOff)
  /\ WF_subscriberVars(CancelWait)
  /\ WF_subscriberVars(CreateFails)
  /\ SF_subscriberVars(CreateStream)
  /\ SF_subscriberVars(Connect)
  /\ WF_subscriberVars(cancelled /\ ConnectFails)
  /\ WF_subscriberVars(ScanLine)
  /\ WF_subscriberVars(ScanEnds)
  /\ WF_subscriberVars(ScanCancelled)
  /\ WF_subscriberVars(Dispatch)
  /\ WF_subscriberVars(Handled)
  /\ WF_subscriberVars((HandleNext \/ HandleReturn \/ Send \/ SendCancelled \/ GiveUp)
                       /\ UNCHANGED <<subVars, netVars, obsVars>>)

FairSpec == Spec /\ Fairness

-----------------------------------------------------------------------------
(* Properties.                                                             *)

Frames == {SETFrame(n, st) : n \in 1..MaxPublished, st \in SETs}
            \cup {Noise(kind) : kind \in NoiseKinds}

\* The types of the variables; backoff stays within 2 s and 60 s.
SubscriberTypeOK ==
  /\ RouterTypeOK
  /\ spc \in {"idle", "loop", "create", "createWait", "connect", "scan",
              "dispatch", "handle", "wait", "done"}
  /\ backoff \in 2..maxBackoff
  /\ used \in 0..LimitFrames
  /\ frame \in Frames \cup {NoFrame}
  /\ subscribed \subseteq EventTypes
  /\ up \in BOOLEAN /\ open \in BOOLEAN
  /\ wire \in Seq(Frames)
  /\ published \in 0..MaxPublished /\ noise \in 0..MaxNoise
  /\ lost \subseteq 1..published
  /\ handled \in Seq(1..MaxPublished)

(***************************************************************************)
(* Across all connections, SETs reach the adapters at most once and in the *)
(* order published, and none is handled that was counted as lost.          *)
(***************************************************************************)
HandledInOrder ==
  /\ \A j, k \in 1..Len(handled) : j < k => handled[j] < handled[k]
  /\ \A k \in 1..Len(handled) : handled[k] \notin lost

(***************************************************************************)
(* Every SET published is handled, about to be, on its way, or lost with a *)
(* connection (or for want of one): the reader drops none of its own, also *)
(* not at the limit of 8 MiB, which loses only what it cuts off.           *)
(***************************************************************************)
Accounted ==
  1..published =
    lost \cup SETsOf(wire) \cup {handled[k] : k \in 1..Len(handled)}
      \cup (IF spc = "dispatch" THEN {frame.n} ELSE {})

(***************************************************************************)
(* One SET at a time: the adapters act only while Run waits for Handle; in *)
(* particular Run never returns with an action half done.                  *)
(***************************************************************************)
OneAtATime == hpc # "idle" => spc = "handle"

(***************************************************************************)
(* Run never returns before ctx is cancelled, whatever the receiver sends  *)
(* or fails at; a cancelled ctx ends it, wherever it is: in a wait, a      *)
(* request, a read, or in the middle of an adapter's calls to servers that *)
(* do not answer.                                                          *)
(***************************************************************************)
Runs == INSTANCE Runner WITH EarlyErrors <- FALSE,
          outcome <- IF spc = "done" THEN "nil" ELSE "running"

ImplementsRunner == Runs!RunnerSpec

\* A SET on a connection that is being read is handled or lost with it: the
\* reader does not stall behind keep-alives, errors or a target that hangs.
ReadIsHandled ==
  \A n \in 1..MaxPublished :
    (spc = "scan" /\ n \in SETsOf(wire)) ~>
      (n \in lost \/ \E k \in 1..Len(handled) : handled[k] = n)

\* If the receiver is up for good, the relay is not away from its stream for
\* good: it reads from a connection again and again, unless cancelled.
Reconnects ==
  (<>[]up /\ RouterEventTypes # {}) =>
     []<>(cancelled \/ open \/ spc \in {"scan", "dispatch", "handle"})
=============================================================================
