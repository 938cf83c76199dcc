-------------------------- MODULE SubscriberProofs --------------------------
(***************************************************************************)
(* Theorems about Subscriber.Run, for any SETs, bounds, sinks and limit of *)
(* the reader: each SET published is handled at most once and in order,    *)
(* and none is unaccounted for; the adapters act only while Run waits for  *)
(* Handle; Run never returns early; and what is proved of the router alone *)
(* holds of it behind the subscriber.                                      *)
(***************************************************************************)
EXTENDS Subscriber, RouterProofs

\* Serials of the SETs of the wire, one by one, rise.
Rising(frames) ==
  \A j, k \in 1..Len(frames) :
    (j < k /\ frames[j].kind = "set" /\ frames[k].kind = "set") =>
      frames[j].n < frames[k].n

\* The serial of the SET decoded and not yet handed over, if there is one.
Dispatched == IF spc = "dispatch" THEN {frame.n} ELSE {}

\* The SET being dispatched is one.
DispatchInv == spc = "dispatch" => frame.kind = "set"

(***************************************************************************)
(* What is published goes down a line: what is handled, then what is being *)
(* dispatched, then what is in flight; serials rise along it, and what is  *)
(* on it is not counted as lost.                                           *)
(***************************************************************************)
PipelineInv ==
  /\ Rising(wire)
  /\ \A n \in SETsOf(wire) \cup Dispatched :
       /\ n \in 1..published /\ n \notin lost
       /\ \A k \in 1..Len(handled) : handled[k] < n
  /\ \A n \in SETsOf(wire), d \in Dispatched : d < n
  /\ \A k \in 1..Len(handled) : handled[k] \in 1..published
  /\ HandledInOrder

\* The types of the variables that are not the router's.
ReaderTypeOK ==
  /\ spc \in {"idle", "loop", "create", "createWait", "connect", "scan",
              "dispatch", "handle", "wait", "done"}
  /\ backoff \in 2..maxBackoff
  /\ used \in 0..LimitFrames
  /\ frame \in Frames \cup {NoFrame}
  /\ subscribed \subseteq EventTypes
  /\ up \in BOOLEAN /\ open \in BOOLEAN
  /\ wire \in Seq(Frames)
  /\ published \in 0..MaxPublished /\ noise \in 0..MaxNoise
  /\ lost \subseteq 1..published
  /\ handled \in Seq(1..MaxPublished)

\* Run is done only when ctx is cancelled.
DoneInv == spc = "done" => cancelled

SubscriberInv ==
  /\ RouterTypeOK /\ ReaderTypeOK
  /\ DispatchInv /\ PipelineInv /\ Accounted /\ OneAtATime /\ DoneInv

-----------------------------------------------------------------------------
(* Lemmas about the lines in flight.                                       *)

\* SETsOf has the serials of the SETs among the frames.
LEMMA SETsOfAre ==
  ASSUME NEW frames, NEW n
  PROVE  n \in SETsOf(frames) <=>
           \E k \in 1..Len(frames) : frames[k].kind = "set" /\ frames[k].n = n
BY DEF SETsOf

\* Lines are sent at the end ...
LEMMA SETsOfAppend ==
  ASSUME NEW S, NEW w \in Seq(S), NEW f \in S
  PROVE  SETsOf(Append(w, f)) =
           SETsOf(w) \cup (IF f.kind = "set" THEN {f.n} ELSE {})
<1>1. /\ Len(w) \in Nat /\ Len(Append(w, f)) = Len(w) + 1
      /\ \A k \in 1..Len(w) : Append(w, f)[k] = w[k]
      /\ Append(w, f)[Len(w) + 1] = f
  OBVIOUS
<1>. QED  BY <1>1 DEF SETsOf

\* SETs are published after those on the wire.
LEMMA RisingAppend ==
  ASSUME NEW S, NEW w \in Seq(S), NEW f \in S, Rising(w),
         f.kind = "set" => \A n \in SETsOf(w) : n < f.n
  PROVE  Rising(Append(w, f))
<1>1. /\ Len(w) \in Nat /\ Len(Append(w, f)) = Len(w) + 1
      /\ \A k \in 1..Len(w) : Append(w, f)[k] = w[k]
      /\ Append(w, f)[Len(w) + 1] = f
  OBVIOUS
<1>. DEFINE v == Append(w, f)
<1>. HIDE DEF v
<1>2. SUFFICES ASSUME NEW j \in 1..Len(v), NEW k \in 1..Len(v), j < k,
                      v[j].kind = "set", v[k].kind = "set"
               PROVE  v[j].n < v[k].n
  BY DEF Rising, v
<1>3. j \in 1..Len(w) /\ v[j] = w[j]
  BY <1>1, <1>2 DEF v
<1>4. CASE k \in 1..Len(w)
  BY <1>1, <1>2, <1>3, <1>4 DEF Rising, v
<1>5. CASE k = Len(w) + 1
  BY <1>1, <1>2, <1>3, <1>5, SETsOfAre DEF v
<1>. QED  BY <1>1, <1>2, <1>4, <1>5 DEF v

\* ... read from the front ...
LEMMA SETsOfTail ==
  ASSUME NEW S, NEW w \in Seq(S), w # <<>>
  PROVE  /\ Head(w) \in S /\ Tail(w) \in Seq(S)
         /\ SETsOf(w) = SETsOf(Tail(w)) \cup
                          (IF Head(w).kind = "set" THEN {Head(w).n} ELSE {})
<1>1. /\ Len(w) \in Nat /\ Len(w) > 0 /\ Len(Tail(w)) = Len(w) - 1
      /\ \A k \in 1..Len(Tail(w)) : Tail(w)[k] = w[k + 1]
      /\ Head(w) = w[1] /\ Head(w) \in S /\ Tail(w) \in Seq(S)
  OBVIOUS
<1>2. ASSUME NEW n
      PROVE  n \in SETsOf(w) <=>
               n \in SETsOf(Tail(w)) \/ (Head(w).kind = "set" /\ Head(w).n = n)
  <2>. DEFINE t == Tail(w)
              h == Head(w)
  <2>. HIDE DEF t, h
  <2>1. ASSUME NEW k \in 1..Len(w), w[k].kind = "set", w[k].n = n
        PROVE  (h.kind = "set" /\ h.n = n) \/ n \in SETsOf(t)
    <3>1. CASE k = 1
      BY <1>1, <2>1, <3>1 DEF h
    <3>2. CASE k # 1
      <4>1. k - 1 \in 1..Len(t) /\ t[k - 1] = w[k]
        BY <1>1, <3>2 DEF t
      <4>. QED  BY <2>1, <4>1, SETsOfAre
    <3>. QED  BY <3>1, <3>2
  <2>2. ASSUME NEW k \in 1..Len(t), t[k].kind = "set", t[k].n = n
        PROVE  n \in SETsOf(w)
    <3>1. k + 1 \in 1..Len(w) /\ w[k + 1] = t[k]
      BY <1>1 DEF t
    <3>. QED  BY <2>2, <3>1, SETsOfAre
  <2>3. h.kind = "set" /\ h.n = n => n \in SETsOf(w)
    <3>1. 1 \in 1..Len(w) /\ w[1] = h
      BY <1>1 DEF h
    <3>. QED  BY <3>1, SETsOfAre
  <2>4. n \in SETsOf(w) => (h.kind = "set" /\ h.n = n) \/ n \in SETsOf(t)
    <3>1. SUFFICES ASSUME n \in SETsOf(w) PROVE (h.kind = "set" /\ h.n = n) \/ n \in SETsOf(t)
      OBVIOUS
    <3>2. PICK k \in 1..Len(w) : w[k].kind = "set" /\ w[k].n = n
      BY <3>1, SETsOfAre
    <3>. QED  BY <2>1, <3>2
  <2>5. n \in SETsOf(t) => n \in SETsOf(w)
    <3>1. SUFFICES ASSUME n \in SETsOf(t) PROVE n \in SETsOf(w)
      OBVIOUS
    <3>2. PICK k \in 1..Len(t) : t[k].kind = "set" /\ t[k].n = n
      BY <3>1, SETsOfAre
    <3>. QED  BY <2>2, <3>2
  <2>. QED  BY <2>3, <2>4, <2>5 DEF t, h
<1>. QED  BY <1>1, <1>2

\* The first SET on the wire comes before the others.
LEMMA RisingTail ==
  ASSUME NEW S, NEW w \in Seq(S), w # <<>>, Rising(w)
  PROVE  /\ Rising(Tail(w))
         /\ Head(w).kind = "set" => \A n \in SETsOf(Tail(w)) : Head(w).n < n
<1>1. /\ Len(w) \in Nat /\ Len(w) > 0 /\ Len(Tail(w)) = Len(w) - 1
      /\ \A k \in 1..Len(Tail(w)) : Tail(w)[k] = w[k + 1]
      /\ Head(w) = w[1]
  OBVIOUS
<1>. DEFINE t == Tail(w)
            h == Head(w)
<1>. HIDE DEF t, h
<1>2. ASSUME NEW j \in 1..Len(t), NEW k \in 1..Len(t), j < k,
             t[j].kind = "set", t[k].kind = "set"
      PROVE  t[j].n < t[k].n
  <2>1. j + 1 \in 1..Len(w) /\ k + 1 \in 1..Len(w) /\ j + 1 < k + 1
        /\ t[j] = w[j + 1] /\ t[k] = w[k + 1]
    BY <1>1, <1>2 DEF t
  <2>. QED  BY <1>2, <2>1 DEF Rising
<1>3. ASSUME h.kind = "set", NEW n \in SETsOf(t)
      PROVE  h.n < n
  <2>1. PICK k \in 1..Len(t) : t[k].kind = "set" /\ t[k].n = n
    BY SETsOfAre
  <2>2. 1 \in 1..Len(w) /\ k + 1 \in 1..Len(w) /\ 1 < k + 1
        /\ h = w[1] /\ t[k] = w[k + 1]
    BY <1>1 DEF t, h
  <2>. QED  BY <1>3, <2>1, <2>2 DEF Rising
<1>. QED  BY <1>2, <1>3 DEF Rising, t, h

\* ... and cut off at the end.
LEMMA CutFrames ==
  ASSUME NEW S, NEW w \in Seq(S), Rising(w), NEW k \in 0..Len(w)
  PROVE  /\ SubSeq(w, 1, k) \in Seq(S) /\ Rising(SubSeq(w, 1, k))
         /\ SETsOf(w) = SETsOf(SubSeq(w, 1, k)) \cup SETsOf(SubSeq(w, k + 1, Len(w)))
         /\ \A n \in SETsOf(SubSeq(w, 1, k)) : 
              n \in Int => n \notin SETsOf(SubSeq(w, k + 1, Len(w)))
<1>. DEFINE a == SubSeq(w, 1, k)
            b == SubSeq(w, k + 1, Len(w))
<1>0. Len(w) \in Nat
  OBVIOUS
<1>1. /\ a \in Seq(S) /\ Len(a) = k /\ \A i \in 1..k : a[i] = w[i]
  OBVIOUS
<1>2. /\ Len(b) = Len(w) - k /\ \A i \in 1..(Len(w) - k) : b[i] = w[k + i]
  OBVIOUS
<1>. HIDE DEF a, b
<1>3. Rising(a)
  BY <1>0, <1>1 DEF Rising
<1>4. ASSUME NEW n \in SETsOf(a)
      PROVE  \E i \in 1..k : w[i].kind = "set" /\ w[i].n = n
  BY <1>1, SETsOfAre
<1>5. ASSUME NEW n \in SETsOf(b)
      PROVE  \E i \in (k + 1)..Len(w) : w[i].kind = "set" /\ w[i].n = n
  <2>1. PICK i \in 1..Len(b) : b[i].kind = "set" /\ b[i].n = n
    BY SETsOfAre
  <2>2. k + i \in (k + 1)..Len(w) /\ b[i] = w[k + i]
    BY <1>0, <1>2
  <2>. QED  BY <2>1, <2>2
<1>6. ASSUME NEW n \in SETsOf(w), n \notin SETsOf(a)
      PROVE  n \in SETsOf(b)
  <2>1. PICK i \in 1..Len(w) : w[i].kind = "set" /\ w[i].n = n
    BY SETsOfAre
  <2>2. i \notin 1..k
    BY <1>1, <1>6, <2>1, SETsOfAre
  <2>3. i - k \in 1..(Len(w) - k) /\ k + (i - k) = i
    BY <1>0, <2>2
  <2>4. i - k \in 1..Len(b) /\ b[i - k] = w[i]
    BY <1>2, <2>3
  <2>. QED  BY <2>1, <2>4, SETsOfAre
<1>7. SETsOf(a) \subseteq SETsOf(w) /\ SETsOf(b) \subseteq SETsOf(w)
  <2>1. 1..k \subseteq 1..Len(w) /\ (k + 1)..Len(w) \subseteq 1..Len(w)
    BY <1>0
  <2>. QED  BY <1>4, <1>5, <2>1, SETsOfAre
<1>8. ASSUME NEW n \in SETsOf(a), n \in Int, n \in SETsOf(b)
      PROVE  FALSE
  <2>1. PICK i \in 1..k : w[i].kind = "set" /\ w[i].n = n
    BY <1>4
  <2>2. PICK j \in (k + 1)..Len(w) : w[j].kind = "set" /\ w[j].n = n
    BY <1>5, <1>8
  <2>3. i \in 1..Len(w) /\ j \in 1..Len(w) /\ i < j
    BY <1>0
  <2>4. w[i].n < w[j].n
    BY <2>1, <2>2, <2>3 DEF Rising
  <2>. QED  BY <1>8, <2>1, <2>2, <2>4
<1>. QED  BY <1>1, <1>3, <1>6, <1>7, <1>8 DEF a, b

\* A connection with nothing in flight.
LEMMA NothingInFlight == SETsOf(<<>>) = {} /\ Rising(<<>>)
BY DEF SETsOf, Rising

\* Frames are SETs with a serial, or others.
LEMMA SETFrames ==
  ASSUME NEW f \in Frames, f.kind = "set"
  PROVE  f.n \in 1..MaxPublished /\ f.set \in InboundSET
<1>1. PICK n \in 1..MaxPublished, st \in SETs : f = SETFrame(n, st)
  BY DEF Frames, NoiseKinds, Noise
<1>. QED  BY <1>1, SubscriberAssumption DEF SETFrame

\* What the adapters ask to be subscribed to are event types.
LEMMA SubscribedTypes == RouterEventTypes \subseteq EventTypes
BY RouterAssumption DEF RouterEventTypes, AdapterTypes

-----------------------------------------------------------------------------
(* The steps, by what they do to the SETs on their way.                    *)

\* Nothing moves.
Still ==
  /\ UNCHANGED <<frame, wire, published, lost, handled>>
  /\ spc' = "dispatch" <=> spc = "dispatch"

\* readSSE returns, with nothing being dispatched.
SSEEnds ==
  /\ EndSSE
  /\ spc \in {"connect", "scan"}
  /\ UNCHANGED <<frame, published, handled>>

\* A step is of one of seven kinds.
LEMMA SubscriberSteps ==
  [Next]_subscriberVars =>
    Publish \/ SendNoise \/ Cut \/ ScanLine \/ Dispatch \/ SSEEnds \/ Still
<1>. USE DEF subVars, netVars, obsVars
<1>1. Toggle \/ Cancel \/ LoopHead \/ CreateStream \/ CreateFails \/ BackOff \/ CancelWait
        \/ Connect \/ Handled => Still
  BY DEF Toggle, Cancel, LoopHead, CreateStream, CreateFails, BackOff, CancelWait, Connect,
         Handled, Still
<1>2. Handling \/ (RouterEnvironment /\ UNCHANGED <<subVars, netVars, obsVars>>)
        \/ UNCHANGED subscriberVars => Still
  BY DEF Handling, subscriberVars, Still
<1>3. ConnectFails \/ ScanEnds \/ ScanCancelled => SSEEnds
  BY DEF ConnectFails, ScanEnds, ScanCancelled, SSEEnds
<1>. QED  BY <1>1, <1>2, <1>3 DEF Next, Receiver, RunStep

\* What the subscriber does is a step of the router, or none.
LEMMA RouterPart ==
  ReaderTypeOK /\ DispatchInv /\ [Next]_subscriberVars => [RouterNext]_routerVars
<1>. SUFFICES ASSUME ReaderTypeOK, DispatchInv, [Next]_subscriberVars
              PROVE  [RouterNext]_routerVars
  OBVIOUS
<1>1. CASE Dispatch
  <2>1. frame \in Frames /\ frame.kind = "set"
    BY <1>1 DEF Dispatch, DispatchInv, ReaderTypeOK, NoFrame, Noise
  <2>2. frame.set \in InboundSET /\ HandleStart(frame.set)
    BY <1>1, <2>1, SETFrames DEF Dispatch
  <2>. QED  BY <2>2 DEF RouterNext, Receive
<1>2. CASE Cancel \/ Handling \/ RouterEnvironment
  BY <1>2 DEF Cancel, Handling, RouterNext
<1>3. CASE UNCHANGED routerVars
  BY <1>3
<1>4. Receiver \/ UNCHANGED subscriberVars => UNCHANGED routerVars
  BY DEF Receiver, Publish, SendNoise, Cut, Toggle, subscriberVars
<1>5. RunStep => Dispatch \/ UNCHANGED routerVars
  BY DEF RunStep, LoopHead, CreateStream, CreateFails, BackOff, CancelWait, Connect,
         ConnectFails, ScanLine, ScanEnds, ScanCancelled, Handled
<1>. QED  BY <1>1, <1>2, <1>3, <1>4, <1>5 DEF Next

-----------------------------------------------------------------------------
(* The inductive invariant.                                                *)

\* Every step of Run keeps the types of what the reader holds.
LEMMA NextReaderType ==
  ReaderTypeOK /\ DispatchInv /\ PipelineInv /\ [Next]_subscriberVars => ReaderTypeOK'
<1>. SUFFICES ASSUME ReaderTypeOK, DispatchInv, PipelineInv, [Next]_subscriberVars
              PROVE  ReaderTypeOK'
  OBVIOUS
<1>. USE DEF subVars, netVars, obsVars
<1>0. /\ wire \in Seq(Frames) /\ MaxPublished \in Nat /\ MaxNoise \in Nat
      /\ LimitFrames \in Nat \ {0}
      /\ published \in 0..MaxPublished /\ lost \subseteq 1..published
      /\ SETsOf(wire) \subseteq 1..published /\ Rising(wire)
  BY SubscriberAssumption DEF ReaderTypeOK, PipelineInv
<1>1. CASE Publish
  <2>1. published' = published + 1 /\ published' \in 1..MaxPublished
        /\ UNCHANGED <<subVars, up, open, noise, handled>>
    BY <1>0, <1>1 DEF Publish
  <2>2. lost' \subseteq 1..published'
    <3>1. lost' \subseteq lost \cup {published'}
      BY <1>1 DEF Publish
    <3>2. 1..published \subseteq 1..published' /\ published' \in 1..published'
      BY <1>0, <2>1
    <3>. QED  BY <1>0, <3>1, <3>2
  <2>3. wire' \in Seq(Frames)
    <3>1. CASE wire' = wire
      BY <1>0, <3>1
    <3>2. CASE \E st \in SETs : wire' = Append(wire, SETFrame(published', st))
      <4>1. PICK st \in SETs : wire' = Append(wire, SETFrame(published', st))
        BY <3>2
      <4>2. SETFrame(published', st) \in Frames
        BY <2>1 DEF Frames
      <4>. QED  BY <1>0, <4>1, <4>2
    <3>. QED  BY <1>1, <3>1, <3>2 DEF Publish
  <2>. QED  BY <2>1, <2>2, <2>3 DEF ReaderTypeOK
<1>2. CASE SendNoise
  <2>1. noise' \in 0..MaxNoise /\ UNCHANGED <<subVars, up, open, published, lost, handled>>
    BY <1>0, <1>2 DEF SendNoise, ReaderTypeOK
  <2>2. PICK kind \in NoiseKinds : wire' = Append(wire, Noise(kind))
    BY <1>2 DEF SendNoise
  <2>3. Noise(kind) \in Frames
    BY DEF Frames
  <2>4. wire' \in Seq(Frames)
    BY <1>0, <2>2, <2>3
  <2>. QED  BY <2>1, <2>4 DEF ReaderTypeOK
<1>3. CASE Cut
  <2>1. PICK k \in 0..Len(wire) :
          /\ wire' = SubSeq(wire, 1, k)
          /\ lost' = lost \cup SETsOf(SubSeq(wire, k + 1, Len(wire)))
    BY <1>3 DEF Cut
  <2>2. /\ SubSeq(wire, 1, k) \in Seq(Frames)
        /\ SETsOf(wire) = SETsOf(SubSeq(wire, 1, k)) \cup SETsOf(SubSeq(wire, k + 1, Len(wire)))
    BY <1>0, CutFrames
  <2>3. wire' \in Seq(Frames)
    BY <2>1, <2>2
  <2>4. lost' \subseteq 1..published
    BY <1>0, <2>1, <2>2
  <2>. QED  BY <1>3, <2>3, <2>4 DEF Cut, ReaderTypeOK
<1>4. CASE ScanLine
  <2>1. Head(wire) \in Frames /\ Tail(wire) \in Seq(Frames)
    BY <1>0, <1>4, SETsOfTail DEF ScanLine, HasLine
  <2>2. used' \in 0..LimitFrames
    BY <1>0, <1>4 DEF ScanLine, HasLine, ReaderTypeOK
  <2>. QED  BY <1>4, <2>1, <2>2 DEF ScanLine, ReaderTypeOK
<1>5. CASE Dispatch
  <2>1. frame \in Frames /\ frame.kind = "set"
    BY <1>5 DEF Dispatch, DispatchInv, ReaderTypeOK, NoFrame, Noise
  <2>2. frame.n \in 1..MaxPublished
    BY <2>1, SETFrames
  <2>3. handled' \in Seq(1..MaxPublished)
    BY <1>5, <2>2 DEF Dispatch, ReaderTypeOK
  <2>. QED  BY <1>5, <2>3 DEF Dispatch, ReaderTypeOK
<1>6. CASE ConnectFails \/ ScanEnds \/ ScanCancelled
  <2>1. wire' = <<>> /\ lost' = lost \cup SETsOf(wire) /\ open' = FALSE /\ spc' = "wait"
        /\ UNCHANGED <<backoff, used, frame, subscribed, up, published, noise, handled>>
    BY <1>6 DEF ConnectFails, ScanEnds, ScanCancelled, EndSSE
  <2>2. wire' \in Seq(Frames)
    BY <2>1
  <2>3. lost' \subseteq 1..published
    BY <1>0, <2>1
  <2>. QED  BY <2>1, <2>2, <2>3 DEF ReaderTypeOK
<1>7. CASE CreateStream
  BY <1>7, SubscribedTypes DEF CreateStream, ReaderTypeOK, maxBackoff
<1>8. CASE BackOff
  <2>1. backoff' \in 2..maxBackoff
    BY <1>8 DEF BackOff, capDuration, ReaderTypeOK, maxBackoff
  <2>. QED  BY <1>8, <2>1 DEF BackOff, ReaderTypeOK
<1>9. CASE Connect
  BY <1>0, <1>9 DEF Connect, ReaderTypeOK
<1>10. CASE Toggle \/ LoopHead \/ CreateFails \/ CancelWait \/ Handled
  BY <1>10 DEF Toggle, LoopHead, CreateFails, CancelWait, Handled, ReaderTypeOK
<1>11. CASE UNCHANGED <<subVars, netVars, obsVars>>
  BY <1>11 DEF ReaderTypeOK
<1>. QED  BY <1>1, <1>2, <1>3, <1>4, <1>5, <1>6, <1>7, <1>8, <1>9, <1>10, <1>11
          DEF Next, Receiver, RunStep, Cancel, Handling, subscriberVars

\* What is dispatched stays a SET.
LEMMA NextDispatch == DispatchInv /\ [Next]_subscriberVars => DispatchInv'
<1>. SUFFICES ASSUME DispatchInv, [Next]_subscriberVars PROVE DispatchInv'
  OBVIOUS
<1>1. CASE ScanLine
  BY <1>1 DEF ScanLine, DispatchInv
<1>2. CASE Publish \/ SendNoise \/ Cut
  BY <1>2 DEF Publish, SendNoise, Cut, subVars, DispatchInv
<1>3. CASE Dispatch \/ SSEEnds \/ Still
  BY <1>3 DEF Dispatch, SSEEnds, EndSSE, Still, DispatchInv
<1>. QED  BY <1>1, <1>2, <1>3, SubscriberSteps

\* Handle begins and ends with the dispatch of a SET.
LEMMA NextOneAtATime == OneAtATime /\ [Next]_subscriberVars => OneAtATime'
<1>. SUFFICES ASSUME OneAtATime, [Next]_subscriberVars PROVE OneAtATime'
  OBVIOUS
<1>. USE DEF OneAtATime
<1>1. CASE Dispatch
  BY <1>1 DEF Dispatch
<1>2. CASE Handled
  BY <1>2 DEF Handled, routerVars, handleVars
<1>3. CASE Handling
  <2>1. hpc # "idle" /\ UNCHANGED spc
    BY <1>3 DEF Handling, HandleStep, HandleNext, HandleReturn, Send, SendCancelled, Answer,
                Refuse, GiveUp, subVars
  <2>. QED  BY <2>1
<1>4. CASE hpc' = hpc /\ (spc' = spc \/ spc # "handle")
  BY <1>4
<1>5. Receiver \/ Cancel \/ (RouterEnvironment /\ UNCHANGED <<subVars, netVars, obsVars>>)
        \/ UNCHANGED subscriberVars => hpc' = hpc /\ spc' = spc
  BY DEF Receiver, Publish, SendNoise, Cut, Toggle, Cancel, RouterCancel, RouterEnvironment,
         LateEffect, OrphanLost, TokenExpires, subscriberVars, subVars, routerVars, handleVars
<1>6. RunStep => Dispatch \/ Handled \/ (hpc' = hpc /\ spc # "handle")
  BY DEF RunStep, LoopHead, CreateStream, CreateFails, BackOff, CancelWait, Connect,
         ConnectFails, ScanLine, ScanEnds, ScanCancelled, routerVars, handleVars
<1>. QED  BY <1>1, <1>2, <1>3, <1>4, <1>5, <1>6 DEF Next

\* Nothing takes back a cancellation.
LEMMA CancelledStays == [RouterNext]_routerVars => (cancelled => cancelled')
BY DEF RouterNext, Receive, HandleStart, RouterCancel, HandleStep, HandleNext, HandleReturn,
       Send, SendCancelled, Answer, Refuse, GiveUp, RouterEnvironment, LateEffect, OrphanLost,
       TokenExpires, routerVars

\* Run returns only when cancelled.
LEMMA NextDone ==
  ReaderTypeOK /\ DispatchInv /\ DoneInv /\ [Next]_subscriberVars => DoneInv'
<1>. SUFFICES ASSUME ReaderTypeOK, DispatchInv, DoneInv, [Next]_subscriberVars, spc' = "done"
              PROVE  cancelled'
  BY DEF DoneInv
<1>1. cancelled => cancelled'
  BY RouterPart, CancelledStays
<1>2. CASE spc = "done"
  BY <1>1, <1>2 DEF DoneInv
<1>3. CASE spc # "done"
  <2>1. LoopHead \/ CancelWait
    BY <1>3 DEF Next, Receiver, Publish, SendNoise, Cut, Toggle, Cancel, RunStep, CreateStream,
                CreateFails, BackOff, Connect, ConnectFails, ScanLine, ScanEnds, ScanCancelled,
                EndSSE, Dispatch, Handled, Handling, subscriberVars, subVars
  <2>2. cancelled
    BY <2>1 DEF LoopHead, CancelWait
  <2>. QED  BY <1>1, <2>2
<1>. QED  BY <1>2, <1>3

\* Every step keeps the SETs in order from the receiver to Handle.
LEMMA NextPipeline ==
  ReaderTypeOK /\ DispatchInv /\ PipelineInv /\ [Next]_subscriberVars => PipelineInv'
<1>. SUFFICES ASSUME ReaderTypeOK, DispatchInv, PipelineInv, [Next]_subscriberVars
              PROVE  PipelineInv'
  OBVIOUS
<1>0. /\ wire \in Seq(Frames) /\ published \in Nat /\ lost \subseteq 1..published
      /\ handled \in Seq(1..MaxPublished) /\ Len(handled) \in Nat
      /\ \A k \in 1..Len(handled) : handled[k] \in 1..published
  BY DEF ReaderTypeOK, PipelineInv
<1>a. /\ Rising(wire) /\ HandledInOrder
      /\ \A n \in SETsOf(wire) \cup Dispatched :
           /\ n \in 1..published /\ n \notin lost
           /\ \A k \in 1..Len(handled) : handled[k] < n
      /\ \A n \in SETsOf(wire), d \in Dispatched : d < n
  BY DEF PipelineInv
<1>1. CASE Publish
  <2>1. published' = published + 1 /\ handled' = handled /\ Dispatched' = Dispatched
    BY <1>1 DEF Publish, subVars, Dispatched
  <2>2. 1..published \subseteq 1..published' /\ published' \in 1..published'
        /\ \A n \in 1..published : n < published'
    BY <1>0, <2>1
  <2>3. CASE wire' = wire /\ lost' = lost \cup {published'}
    <3>1. SETsOf(wire)' = SETsOf(wire) /\ Rising(wire)'
      BY <1>a, <2>3
    <3>2. HandledInOrder'
      BY <1>0, <1>a, <2>1, <2>2, <2>3 DEF HandledInOrder
    <3>3. published' \notin 1..published
      BY <1>0, <2>1
    <3>. QED  BY <1>0, <1>a, <2>1, <2>2, <2>3, <3>1, <3>2, <3>3 DEF PipelineInv
  <2>4. CASE (\E st \in SETs : wire' = Append(wire, SETFrame(published', st))) /\ lost' = lost
    <3>1. PICK st \in SETs : wire' = Append(wire, SETFrame(published', st))
      BY <2>4
    <3>. DEFINE f == SETFrame(published', st)
    <3>2. published' \in 1..MaxPublished
      BY <1>1, <2>1, SubscriberAssumption DEF Publish, ReaderTypeOK
    <3>3. f \in Frames /\ f.kind = "set" /\ f.n = published'
      BY <3>2 DEF Frames, SETFrame
    <3>. HIDE DEF f
    <3>4. SETsOf(wire)' = SETsOf(wire) \cup {published'}
      BY <1>0, <3>1, <3>3, SETsOfAppend DEF f
    <3>5. Rising(wire)'
      BY <1>0, <1>a, <2>2, <3>1, <3>3, RisingAppend DEF f
    <3>6. published' \notin lost /\ \A k \in 1..Len(handled) : handled[k] < published'
      BY <1>0, <2>1, <2>2
    <3>7. HandledInOrder'
      BY <1>a, <2>1, <2>4 DEF HandledInOrder
    <3>. QED  BY <1>0, <1>a, <2>1, <2>2, <2>4, <3>4, <3>5, <3>6, <3>7 DEF PipelineInv
  <2>. QED  BY <1>1, <2>3, <2>4 DEF Publish
<1>2. CASE SendNoise
  <2>1. UNCHANGED <<published, lost, handled>> /\ Dispatched' = Dispatched
    BY <1>2 DEF SendNoise, subVars, Dispatched
  <2>2. PICK kind \in NoiseKinds : wire' = Append(wire, Noise(kind))
    BY <1>2 DEF SendNoise
  <2>. DEFINE f == Noise(kind)
  <2>3. f \in Frames /\ f.kind # "set" /\ wire' = Append(wire, f)
    BY <2>2 DEF Frames, Noise, NoiseKinds
  <2>. HIDE DEF f
  <2>4. SETsOf(wire)' = SETsOf(wire)
    <3>1. SETsOf(Append(wire, f)) = SETsOf(wire) \cup (IF f.kind = "set" THEN {f.n} ELSE {})
      BY <1>0, <2>3, SETsOfAppend
    <3>. QED  BY <2>3, <3>1
  <2>5. Rising(wire)'
    BY <1>0, <1>a, <2>3, RisingAppend
  <2>. QED  BY <1>0, <1>a, <2>1, <2>4, <2>5 DEF PipelineInv, HandledInOrder
<1>3. CASE Cut
  <2>1. PICK k \in 0..Len(wire) :
          /\ wire' = SubSeq(wire, 1, k)
          /\ lost' = lost \cup SETsOf(SubSeq(wire, k + 1, Len(wire)))
    BY <1>3 DEF Cut
  <2>. DEFINE Behind == SETsOf(SubSeq(wire, k + 1, Len(wire)))
  <2>2. /\ Rising(wire)'
        /\ SETsOf(wire) = SETsOf(wire)' \cup Behind
        /\ \A n \in SETsOf(wire)' : n \in Int => n \notin Behind
    BY <1>0, <1>a, <2>1, CutFrames
  <2>3. UNCHANGED <<published, handled>> /\ Dispatched' = Dispatched
    BY <1>3 DEF Cut, subVars, Dispatched
  <2>4. lost' = lost \cup Behind
    BY <2>1
  <2>. HIDE DEF Behind
  <2>5. \A n \in SETsOf(wire)' : n \notin lost'
    BY <1>a, <2>2, <2>4
  <2>6. \A n \in Behind, d \in Dispatched : d < n /\ d \in Int
    BY <1>a, <2>2
  <2>7. \A n \in Behind, i \in 1..Len(handled) : handled[i] < n /\ handled[i] \in Int
    BY <1>0, <1>a, <2>2
  <2>8. \A d \in Dispatched : d \notin lost'
    BY <1>a, <2>4, <2>6
  <2>9. HandledInOrder'
    <3>1. \A i \in 1..Len(handled) : handled[i] \notin lost'
      BY <1>a, <2>4, <2>7 DEF HandledInOrder
    <3>. QED  BY <1>a, <2>3, <3>1 DEF HandledInOrder
  <2>. QED  BY <1>0, <1>a, <2>2, <2>3, <2>5, <2>8, <2>9 DEF PipelineInv
<1>4. CASE ScanLine
  <2>. DEFINE h == Head(wire)
  <2>1. wire # <<>> /\ wire' = Tail(wire) /\ UNCHANGED <<published, lost, handled>>
        /\ IF h.kind = "set" THEN frame' = h /\ spc' = "dispatch"
                             ELSE spc' = "scan"
    BY <1>4 DEF ScanLine, HasLine, obsVars
  <2>2. /\ SETsOf(wire) = SETsOf(wire)' \cup (IF h.kind = "set" THEN {h.n} ELSE {})
        /\ Rising(wire)'
        /\ h.kind = "set" => \A n \in SETsOf(wire)' : h.n < n
    BY <1>0, <1>a, <2>1, SETsOfTail, RisingTail
  <2>3. Dispatched' = IF h.kind = "set" THEN {h.n} ELSE {}
    BY <2>1 DEF Dispatched
  <2>. HIDE DEF h
  <2>4. HandledInOrder'
    BY <1>a, <2>1 DEF HandledInOrder
  <2>. QED  BY <1>0, <1>a, <2>1, <2>2, <2>3, <2>4 DEF PipelineInv
<1>5. CASE Dispatch
  <2>1. handled' = Append(handled, frame.n) /\ UNCHANGED <<wire, published, lost>>
        /\ spc = "dispatch" /\ spc' = "handle"
    BY <1>5 DEF Dispatch, netVars
  <2>2. Dispatched = {frame.n} /\ Dispatched' = {}
    BY <2>1 DEF Dispatched
  <2>3. frame.n \in 1..published /\ frame.n \notin lost
        /\ \A k \in 1..Len(handled) : handled[k] < frame.n
    BY <1>a, <2>2
  <2>4. /\ Len(handled') = Len(handled) + 1
        /\ \A k \in 1..Len(handled) : handled'[k] = handled[k]
        /\ handled'[Len(handled) + 1] = frame.n
    BY <1>0, <2>1
  <2>5. \A k \in 1..Len(handled') : k \in 1..Len(handled) \/ k = Len(handled) + 1
    BY <1>0, <2>4
  <2>6. \A k \in 1..Len(handled') : handled'[k] \in 1..published /\ handled'[k] \notin lost
    BY <1>0, <1>a, <2>3, <2>4, <2>5 DEF HandledInOrder
  <2>7. ASSUME NEW j \in 1..Len(handled'), NEW k \in 1..Len(handled'), j < k
        PROVE  handled'[j] < handled'[k]
    <3>1. j \in 1..Len(handled)
      BY <1>0, <2>4, <2>7
    <3>2. CASE k \in 1..Len(handled)
      BY <1>a, <2>4, <2>7, <3>1, <3>2 DEF HandledInOrder
    <3>3. CASE k = Len(handled) + 1
      BY <2>3, <2>4, <3>1, <3>3
    <3>. QED  BY <2>5, <3>2, <3>3
  <2>8. HandledInOrder'
    BY <2>1, <2>6, <2>7 DEF HandledInOrder
  <2>9. \A n \in SETsOf(wire) : \A k \in 1..Len(handled') : handled'[k] < n
    BY <1>a, <2>2, <2>4, <2>5
  <2>. QED  BY <1>a, <2>1, <2>2, <2>6, <2>8, <2>9 DEF PipelineInv
<1>6. CASE SSEEnds
  <2>1. wire' = <<>> /\ lost' = lost \cup SETsOf(wire) /\ UNCHANGED <<published, handled>>
        /\ Dispatched' = {}
    BY <1>6 DEF SSEEnds, EndSSE, Dispatched
  <2>2. SETsOf(wire)' = {} /\ Rising(wire)'
    BY <2>1, NothingInFlight
  <2>3. \A n \in SETsOf(wire), k \in 1..Len(handled) : handled[k] # n
    BY <1>0, <1>a
  <2>4. HandledInOrder'
    BY <1>a, <2>1, <2>3 DEF HandledInOrder
  <2>. QED  BY <1>0, <2>1, <2>2, <2>4 DEF PipelineInv
<1>7. CASE Still
  <2>1. Dispatched' = Dispatched
    BY <1>7 DEF Still, Dispatched
  <2>. QED  BY <1>7, <2>1 DEF Still, PipelineInv, HandledInOrder
<1>. QED  BY <1>1, <1>2, <1>3, <1>4, <1>5, <1>6, <1>7, SubscriberSteps

\* The serials handled.
HandledSETs == {handled[k] : k \in 1..Len(handled)}

\* Accounted, as an equation between sets.
LEMMA AccountedFor ==
  Accounted <=> 1..published = lost \cup SETsOf(wire) \cup HandledSETs \cup Dispatched
BY DEF Accounted, HandledSETs, Dispatched

\* Every step leaves each SET published on the wire, dispatched, handled or lost.
LEMMA NextAccounted ==
  ReaderTypeOK /\ DispatchInv /\ PipelineInv /\ Accounted /\ [Next]_subscriberVars
    => Accounted'
<1>. SUFFICES ASSUME ReaderTypeOK, DispatchInv, PipelineInv, Accounted, [Next]_subscriberVars
              PROVE  (1..published)' =
                        lost' \cup SETsOf(wire)' \cup HandledSETs' \cup Dispatched'
  BY DEF Accounted, HandledSETs, Dispatched
<1>0. /\ wire \in Seq(Frames) /\ published \in Nat /\ Rising(wire)
      /\ handled \in Seq(1..MaxPublished) /\ Len(handled) \in Nat
  BY DEF ReaderTypeOK, PipelineInv
<1>a. 1..published = lost \cup SETsOf(wire) \cup HandledSETs \cup Dispatched
  BY AccountedFor
<1>1. CASE Publish
  <2>1. published' = published + 1 /\ HandledSETs' = HandledSETs /\ Dispatched' = Dispatched
    BY <1>1 DEF Publish, subVars, Dispatched, HandledSETs
  <2>2. 1..published' = (1..published) \cup {published'}
    BY <1>0, <2>1
  <2>3. CASE wire' = wire /\ lost' = lost \cup {published'}
    BY <1>a, <2>1, <2>2, <2>3
  <2>4. CASE (\E st \in SETs : wire' = Append(wire, SETFrame(published', st))) /\ lost' = lost
    <3>1. PICK st \in SETs : wire' = Append(wire, SETFrame(published', st))
      BY <2>4
    <3>. DEFINE f == SETFrame(published', st)
    <3>2. published' \in 1..MaxPublished
      BY <1>1, <2>1, SubscriberAssumption DEF Publish, ReaderTypeOK
    <3>3. f \in Frames /\ f.kind = "set" /\ f.n = published'
      BY <3>2 DEF Frames, SETFrame
    <3>. HIDE DEF f
    <3>4. SETsOf(wire)' = SETsOf(wire) \cup {published'}
      BY <1>0, <3>1, <3>3, SETsOfAppend DEF f
    <3>. QED  BY <1>a, <2>1, <2>2, <2>4, <3>4
  <2>. QED  BY <1>1, <2>3, <2>4 DEF Publish
<1>2. CASE SendNoise
  <2>1. UNCHANGED <<published, lost>> /\ HandledSETs' = HandledSETs /\ Dispatched' = Dispatched
    BY <1>2 DEF SendNoise, subVars, Dispatched, HandledSETs
  <2>2. PICK kind \in NoiseKinds : wire' = Append(wire, Noise(kind))
    BY <1>2 DEF SendNoise
  <2>. DEFINE f == Noise(kind)
  <2>3. f \in Frames /\ f.kind # "set" /\ wire' = Append(wire, f)
    BY <2>2 DEF Frames, Noise, NoiseKinds
  <2>. HIDE DEF f
  <2>4. SETsOf(wire)' = SETsOf(wire)
    <3>1. SETsOf(Append(wire, f)) = SETsOf(wire) \cup (IF f.kind = "set" THEN {f.n} ELSE {})
      BY <1>0, <2>3, SETsOfAppend
    <3>. QED  BY <2>3, <3>1
  <2>. QED  BY <1>a, <2>1, <2>4
<1>3. CASE Cut
  <2>1. PICK k \in 0..Len(wire) :
          /\ wire' = SubSeq(wire, 1, k)
          /\ lost' = lost \cup SETsOf(SubSeq(wire, k + 1, Len(wire)))
    BY <1>3 DEF Cut
  <2>2. SETsOf(wire) = SETsOf(wire)' \cup SETsOf(SubSeq(wire, k + 1, Len(wire)))
    BY <1>0, <2>1, CutFrames
  <2>3. UNCHANGED published /\ HandledSETs' = HandledSETs /\ Dispatched' = Dispatched
    BY <1>3 DEF Cut, subVars, Dispatched, HandledSETs
  <2>. QED  BY <1>a, <2>1, <2>2, <2>3
<1>4. CASE ScanLine
  <2>. DEFINE h == Head(wire)
  <2>1. wire # <<>> /\ wire' = Tail(wire) /\ UNCHANGED <<published, lost, handled>>
        /\ spc = "scan"
        /\ IF h.kind = "set" THEN frame' = h /\ spc' = "dispatch"
                             ELSE spc' = "scan"
    BY <1>4 DEF ScanLine, HasLine, obsVars
  <2>2. SETsOf(wire) = SETsOf(wire)' \cup (IF h.kind = "set" THEN {h.n} ELSE {})
    BY <1>0, <2>1, SETsOfTail
  <2>3. /\ Dispatched' = IF h.kind = "set" THEN {h.n} ELSE {}
        /\ Dispatched = {} /\ HandledSETs' = HandledSETs
    BY <2>1 DEF Dispatched, HandledSETs
  <2>. HIDE DEF h
  <2>. QED  BY <1>a, <2>1, <2>2, <2>3
<1>5. CASE Dispatch
  <2>1. handled' = Append(handled, frame.n) /\ UNCHANGED <<wire, published, lost>>
        /\ Dispatched = {frame.n} /\ Dispatched' = {}
    BY <1>5 DEF Dispatch, netVars, Dispatched
  <2>2. /\ Len(handled') = Len(handled) + 1
        /\ \A k \in 1..Len(handled) : handled'[k] = handled[k]
        /\ handled'[Len(handled) + 1] = frame.n
    BY <1>0, <2>1
  <2>3. 1..Len(handled') = 1..Len(handled) \cup {Len(handled) + 1}
    BY <1>0, <2>2
  <2>4. HandledSETs' = HandledSETs \cup {frame.n}
    BY <2>2, <2>3 DEF HandledSETs
  <2>. QED  BY <1>a, <2>1, <2>4
<1>6. CASE SSEEnds
  <2>1. wire' = <<>> /\ lost' = lost \cup SETsOf(wire) /\ UNCHANGED published
        /\ Dispatched = {} /\ Dispatched' = {} /\ HandledSETs' = HandledSETs
    BY <1>6 DEF SSEEnds, EndSSE, Dispatched, HandledSETs
  <2>2. SETsOf(wire)' = {}
    BY <2>1, NothingInFlight
  <2>. QED  BY <1>a, <2>1, <2>2
<1>7. CASE Still
  <2>1. Dispatched' = Dispatched /\ HandledSETs' = HandledSETs
        /\ UNCHANGED <<wire, published, lost>>
    BY <1>7 DEF Still, Dispatched, HandledSETs
  <2>. QED  BY <1>a, <2>1
<1>. QED  BY <1>1, <1>2, <1>3, <1>4, <1>5, <1>6, <1>7, SubscriberSteps

-----------------------------------------------------------------------------
(* The theorems.                                                           *)

\* The invariant, before Run begins.
LEMMA InitSubscriberInv == SubscriberInit => SubscriberInv
<1>. SUFFICES ASSUME SubscriberInit PROVE SubscriberInv
  OBVIOUS
<1>1. RouterTypeOK
  BY InitTypes DEF SubscriberInit
<1>2. ReaderTypeOK
  <2>1. wire \in Seq(Frames) /\ handled \in Seq(1..MaxPublished)
    BY DEF SubscriberInit
  <2>2. 0 \in 0..LimitFrames /\ 0 \in 0..MaxPublished /\ 0 \in 0..MaxNoise
    BY SubscriberAssumption
  <2>3. spc \in {"idle", "loop"} /\ frame = NoFrame /\ backoff = 2 /\ used = 0
        /\ subscribed = {} /\ up = TRUE /\ open = FALSE
        /\ published = 0 /\ noise = 0 /\ lost = {}
    BY DEF SubscriberInit
  <2>4. 2 \in 2..maxBackoff
    BY DEF maxBackoff
  <2>. QED  BY <2>1, <2>2, <2>3, <2>4 DEF ReaderTypeOK
<1>3. DispatchInv /\ DoneInv /\ Dispatched = {}
  BY DEF SubscriberInit, DispatchInv, DoneInv, Dispatched
<1>4. OneAtATime
  BY DEF SubscriberInit, RouterInit, OneAtATime
<1>5. SETsOf(wire) = {} /\ Rising(wire) /\ handled = <<>> /\ published = 0 /\ lost = {}
  BY NothingInFlight DEF SubscriberInit
<1>6. PipelineInv
  BY <1>3, <1>5 DEF PipelineInv, HandledInOrder
<1>7. HandledSETs = {} /\ 1..published = {}
  BY <1>5 DEF HandledSETs
<1>8. Accounted
  BY <1>3, <1>5, <1>7, AccountedFor
<1>. QED  BY <1>1, <1>2, <1>3, <1>4, <1>6, <1>8 DEF SubscriberInv

\* The invariant is inductive.
LEMMA NextSubscriberInv == SubscriberInv /\ [Next]_subscriberVars => SubscriberInv'
<1>1. SubscriberInv /\ [Next]_subscriberVars => RouterTypeOK'
  BY RouterPart, NextTypes DEF SubscriberInv
<1>. QED  BY <1>1, NextReaderType, NextDispatch, NextPipeline, NextAccounted, NextOneAtATime,
             NextDone
          DEF SubscriberInv

\* The invariant holds in every state of the subscriber and the router.
LEMMA SubscriberInvariance == Spec => []SubscriberInv
BY InitSubscriberInv, NextSubscriberInv, PTL DEF Spec

(***************************************************************************)
(* The variables of Run, readSSE and the connection have their types; the  *)
(* wait between two attempts stays within 2 s and 60 s.                    *)
(***************************************************************************)
THEOREM SubscriberTypeCorrect == Spec => []SubscriberTypeOK
<1>1. SubscriberInv => SubscriberTypeOK
  BY DEF SubscriberInv, ReaderTypeOK, SubscriberTypeOK
<1>. QED  BY <1>1, SubscriberInvariance, PTL

(***************************************************************************)
(* readSSE hands over SETs in the order published, each once, across any   *)
(* number of connections, and none after it was counted as lost.           *)
(***************************************************************************)
THEOREM HandledOnceInOrder == Spec => []HandledInOrder
<1>1. SubscriberInv => HandledInOrder
  BY DEF SubscriberInv, PipelineInv
<1>. QED  BY <1>1, SubscriberInvariance, PTL

(***************************************************************************)
(* readSSE drops no SET of its own: each is handled, about to be, in       *)
(* flight, or lost with its connection or for want of one.                 *)
(***************************************************************************)
THEOREM NoSETVanishes == Spec => []Accounted
<1>1. SubscriberInv => Accounted
  BY DEF SubscriberInv
<1>. QED  BY <1>1, SubscriberInvariance, PTL

(***************************************************************************)
(* Run waits for Router.Handle: no adapter acts while Run reads, waits or  *)
(* has returned.                                                           *)
(***************************************************************************)
THEOREM HandlesOneAtATime == Spec => []OneAtATime
<1>1. SubscriberInv => OneAtATime
  BY DEF SubscriberInv
<1>. QED  BY <1>1, SubscriberInvariance, PTL

(***************************************************************************)
(* Run returns once, and only when ctx is done: the safety part of what    *)
(* Runner says of everything main starts.                                  *)
(***************************************************************************)
THEOREM RunNeverReturnsEarly == Spec => Runs!RunnerSafety
<1>1. SubscriberInit => Runs!RunnerInit
  BY DEF SubscriberInit, RouterInit, Runs!RunnerInit
<1>2. SubscriberInv /\ SubscriberInv' /\ [Next]_subscriberVars =>
        [Runs!RunnerNext]_(Runs!runnerVars)
  <2>. SUFFICES ASSUME SubscriberInv, SubscriberInv', [Next]_subscriberVars
                PROVE  [Runs!RunnerNext]_(Runs!runnerVars)
    OBVIOUS
  <2>. DEFINE outcome == IF spc = "done" THEN "nil" ELSE "running"
  <2>1. cancelled' = cancelled \/ (cancelled' = TRUE /\ spc' = spc)
    BY DEF Next, Receiver, Publish, SendNoise, Cut, Toggle, Cancel, RouterCancel, RunStep,
           LoopHead, CreateStream, CreateFails, BackOff, CancelWait, Connect, ConnectFails,
           ScanLine, ScanEnds, ScanCancelled, Dispatch, HandleStart, Handled, Handling,
           HandleStep, HandleNext, HandleReturn, Send, SendCancelled, Answer, Refuse, GiveUp,
           RouterEnvironment, LateEffect, OrphanLost, TokenExpires, subscriberVars, subVars,
           routerVars
  <2>2. spc = "done" => spc' = "done"
    BY DEF Next, Receiver, Publish, SendNoise, Cut, Toggle, Cancel, RunStep, LoopHead,
           CreateStream, CreateFails, BackOff, CancelWait, Connect, ConnectFails, ScanLine,
           ScanEnds, ScanCancelled, Dispatch, Handled, Handling, subscriberVars, subVars
  <2>3. spc' = "done" => cancelled'
    BY DEF SubscriberInv, DoneInv
  <2>4. CASE spc' = "done" /\ spc # "done"
    <3>1. cancelled' = cancelled
      BY <2>1, <2>4
    <3>2. outcome = "running" /\ outcome' = "nil"
      BY <2>4
    <3>3. cancelled
      BY <2>3, <2>4, <3>1
    <3>. QED  BY <3>1, <3>2, <3>3 DEF Runs!RunnerNext, Runs!ReturnCancelled
  <2>5. CASE ~(spc' = "done" /\ spc # "done")
    <3>1. outcome' = outcome
      BY <2>2, <2>5
    <3>. QED  BY <2>1, <3>1 DEF Runs!RunnerNext, Runs!CancelRunner, Runs!runnerVars
  <2>. QED  BY <2>4, <2>5
<1>. QED  BY <1>1, <1>2, SubscriberInvariance, PTL DEF Spec, Runs!RunnerSafety

(***************************************************************************)
(* Behind the subscriber Router.Handle is the router that RouterProofs     *)
(* speaks of: whatever the connection does, all the adapters act on a SET, *)
(* and what they have acknowledged stays so.                               *)
(***************************************************************************)
THEOREM SubscriberKeepsRouter ==
  Spec => /\ []FanOutComplete /\ []RecoveryLifts /\ []CordonFollowsSETs
          /\ Injective => []QuarantineHolds
          /\ "revoke" \notin VaultDenies => []SelfIsolated
          /\ "lookup" \notin VaultDenies => []RecoveryClears
<1>1. Spec => RouterSpec
  <2>1. SubscriberInit => RouterInit
    BY DEF SubscriberInit
  <2>2. SubscriberInv /\ [Next]_subscriberVars => [RouterNext]_routerVars
    BY RouterPart DEF SubscriberInv
  <2>. QED  BY <2>1, <2>2, SubscriberInvariance, PTL DEF Spec, RouterSpec
<1>. QED  BY <1>1, AllAdaptersAct, RecoveryKept, CordonKept, QuarantineKept,
             SelfIsolationKept, RecoveryCleared, PTL
=============================================================================
