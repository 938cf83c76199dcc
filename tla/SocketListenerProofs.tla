------------------------ MODULE SocketListenerProofs ------------------------
(***************************************************************************)
(* Theorems about the socket listeners and Emit, for any sockets, any      *)
(* connections and any buffers: types, the refinements of LineFeed and     *)
(* Runner, EveryLineParsed and ReceivedOnce, from the inductive invariant  *)
(* SocketInv.                                                              *)
(***************************************************************************)
EXTENDS SocketListener, TLAPS

-----------------------------------------------------------------------------
(* Types.                                                                  *)

\* The bytes from x + 1 to y, as ParseUpTo makes a line of them.
Run(x, y) == [i \in 1..(y - x) |-> x + i]

\* A run of serials is a sequence of numbers.
LEMMA RunType ==
  ASSUME NEW x \in Nat, NEW y \in Nat, x <= y
  PROVE  /\ Run(x, y) \in Seq(Nat)
         /\ Len(Run(x, y)) = y - x
         /\ \A i \in 1..(y - x) : Run(x, y)[i] = x + i
<1>1. y - x \in Nat
  OBVIOUS
<1>. QED  BY <1>1 DEF Run

\* ... which are all of what was sent if y was.
LEMMA RunOfSent ==
  ASSUME NEW x \in Nat, NEW y \in Nat, x <= y, NEW z \in Nat, y <= z
  PROVE  Run(x, y) \in Seq(1..z)
<1>1. y - x \in Nat /\ \A i \in 1..(y - x) : x + i \in 1..z
  OBVIOUS
<1>. QED  BY <1>1 DEF Run

\* The types, before ListenSocket begins.
LEMMA InitSocketType == SocketInit => SocketTypeOK
<1>. SUFFICES ASSUME SocketInit PROVE SocketTypeOK
  OBVIOUS
<1>1. \A c \in Conns : MaxSent[c] \in Nat /\ ScanBuf \in Nat
  BY SocketAssumption
<1>2. \A c \in Conns : sent[c] = 0 /\ got[c] = 0 /\ start[c] = 0 /\ nl[c] = {}
  BY DEF SocketInit
<1>3. ASSUME NEW c \in Conns
      PROVE  /\ start[c] <= got[c] /\ got[c] <= sent[c] /\ sent[c] <= MaxSent[c]
             /\ got[c] - start[c] <= ScanBuf
  <2>1. ScanBuf \in Nat /\ MaxSent[c] \in Nat
    BY <1>1
  <2>2. sent[c] = 0 /\ got[c] = 0 /\ start[c] = 0
    BY <1>2
  <2>. QED  BY <2>1, <2>2
<1>5. \A c \in Conns : nl[c] \subseteq 1..sent[c]
  BY <1>2
<1>4. lines \in [Conns -> Seq(Seq(Nat))] /\ received \in [Conns -> Seq(Nat)]
  BY DEF SocketInit
<1>. QED  BY <1>3, <1>4, <1>5 DEF SocketInit, SocketTypeOK

\* Parsing a line appends it to its connection's.
LEMMA ParseUpToType ==
  ASSUME SocketTypeOK, NEW c \in Conns, NEW p \in Nat, start[c] <= p, ParseUpTo(c, p)
  PROVE  /\ lines' \in [Conns -> Seq(Seq(Nat))]
         /\ lines' = [lines EXCEPT ![c] = Append(@, Run(start[c], p))]
         /\ hpc' \in [Conns -> {"none", "scan", "emit", "done"}]
<1>1. start[c] \in Nat /\ lines[c] \in Seq(Seq(Nat))
  BY DEF SocketTypeOK
<1>2. Run(start[c], p) \in Seq(Nat)
  BY <1>1, RunType
<1>3. lines' = [lines EXCEPT ![c] = Append(@, Run(start[c], p))]
  BY DEF ParseUpTo, Run
<1>4. Append(lines[c], Run(start[c], p)) \in Seq(Seq(Nat))
  BY <1>1, <1>2
<1>5. lines' \in [Conns -> Seq(Seq(Nat))]
  BY <1>3, <1>4 DEF SocketTypeOK
<1>6. hpc' \in [Conns -> {"none", "scan", "emit", "done"}]
  BY DEF ParseUpTo, SocketTypeOK
<1>. QED  BY <1>3, <1>5, <1>6

\* Every step keeps the types.
LEMMA NextSocketType == SocketTypeOK /\ [SocketNext]_socketVars => SocketTypeOK'
<1>. SUFFICES ASSUME SocketTypeOK, [SocketNext]_socketVars PROVE SocketTypeOK'
  OBVIOUS
<1>. USE DEF SocketTypeOK, listenVars, peerVars, connVars, emitVars
<1>1. ASSUME NEW c \in Conns, Dial(c) PROVE SocketTypeOK'
  BY <1>1 DEF Dial
<1>2. ASSUME NEW c \in Conns, SendByte(c) PROVE SocketTypeOK'
  <2>1. sent[c] \in Nat /\ nl[c] \subseteq 1..sent[c] /\ MaxSent[c] \in Nat
    BY SocketAssumption
  <2>2. /\ sent' = [sent EXCEPT ![c] = @ + 1]
        /\ sent[c] + 1 <= MaxSent[c]
        /\ UNCHANGED <<cancelled, lpc, listening, backlog, peer, hpc, got, start, err, shut,
                        lines, posts, received>>
    BY <1>2, <2>1 DEF SendByte
  <2>3. sent' \in [Conns -> Nat]
    BY <2>1, <2>2
  <2>4. nl' \in {nl, [nl EXCEPT ![c] = @ \cup {sent[c] + 1}]}
    BY <1>2 DEF SendByte
  <2>5. nl[c] \cup {sent[c] + 1} \subseteq 1..(sent[c] + 1)
    BY <2>1
  <2>9. sent'[c] = sent[c] + 1 /\ nl[c] \subseteq 1..(sent[c] + 1)
    BY <2>1, <2>2
  <2>10. nl'[c] = nl[c] \/ nl'[c] = nl[c] \cup {sent[c] + 1}
    BY <2>4
  <2>6. nl' \in [Conns -> SUBSET Nat] /\ nl'[c] \subseteq 1..sent'[c]
    <3>1. nl' \in [Conns -> SUBSET Nat]
      <4>1. nl[c] \cup {sent[c] + 1} \in SUBSET Nat
        BY <2>1
      <4>. DEFINE more == nl[c] \cup {sent[c] + 1}
      <4>2. nl' = nl \/ nl' = [nl EXCEPT ![c] = more]
        BY <2>4
      <4>. HIDE DEF more
      <4>3. more \in SUBSET Nat
        BY <4>1 DEF more
      <4>. QED  BY <4>2, <4>3
    <3>. QED  BY <3>1, <2>5, <2>9, <2>10
  <2>7. \A d \in Conns \ {c} : nl'[d] = nl[d] /\ sent'[d] = sent[d]
    BY <2>2, <2>4
  <2>8. \A d \in Conns :
          /\ start[d] <= got[d] /\ got[d] <= sent'[d] /\ sent'[d] <= MaxSent[d]
          /\ nl'[d] \subseteq 1..sent'[d]
    BY <2>1, <2>2, <2>6, <2>7, SMTT(30)
  <2>. QED  BY <2>2, <2>3, <2>6, <2>8
<1>3. ASSUME NEW c \in Conns, HangUp(c) \/ Break(c) PROVE SocketTypeOK'
  BY <1>3 DEF HangUp, Break
<1>4. ASSUME NEW s \in Sockets,
             Listen(s) \/ ListenFails(s) \/ ListenerCloses(s) \/ AcceptEnds(s) \/ Return(s)
      PROVE  SocketTypeOK'
  <2>1. /\ \/ lpc' = lpc
           \/ \E v \in {"accept", "failed", "wait", "done"} : lpc' = [lpc EXCEPT ![s] = v]
        /\ listening' \subseteq Sockets
        /\ UNCHANGED <<cancelled, peer, sent, nl, hpc, got, start, err, lines, posts, received>>
    BY <1>4 DEF Listen, ListenFails, ListenerCloses, AcceptEnds, Return
  <2>2. backlog' \subseteq Conns /\ shut' \subseteq Conns
    BY <1>4 DEF Listen, ListenFails, ListenerCloses, AcceptEnds, Return
  <2>3. lpc' \in [Sockets -> {"off", "listen", "accept", "wait", "done", "failed"}]
    BY <2>1
  <2>. QED  BY <2>1, <2>2, <2>3
<1>5. ASSUME NEW c \in Conns, Accept(c) \/ ConnCloses(c) PROVE SocketTypeOK'
  <2>1. /\ hpc' = hpc \/ hpc' = [hpc EXCEPT ![c] = "scan"]
        /\ backlog' \subseteq backlog /\ shut' \subseteq shut \cup {c}
        /\ UNCHANGED <<cancelled, lpc, listening, peer, sent, nl, got, start, err, lines, posts,
                       received>>
    BY <1>5 DEF Accept, ConnCloses
  <2>2. hpc' \in [Conns -> {"none", "scan", "emit", "done"}]
    BY <2>1
  <2>. QED  BY <2>1, <2>2
<1>6. ASSUME NEW c \in Conns, Read(c) PROVE SocketTypeOK'
  <2>. DEFINE room == ScanBuf - (got[c] - start[c])
  <2>1. PICK k \in 1..room : got[c] + k <= sent[c] /\ got' = [got EXCEPT ![c] = @ + k]
    BY <1>6 DEF Read
  <2>2. got[c] \in Nat /\ start[c] \in Nat /\ ScanBuf \in Nat
    BY SocketAssumption
  <2>3. /\ got[c] + k \in Nat /\ start[c] <= got[c] + k
        /\ got[c] + k - start[c] <= ScanBuf
    BY <2>1, <2>2
  <2>4. UNCHANGED <<cancelled, lpc, listening, backlog, peer, sent, nl, hpc, start, err, shut,
                    lines, posts, received>>
    BY <1>6 DEF Read
  <2>. HIDE DEF room
  <2>5. got' \in [Conns -> Nat] /\ got'[c] = got[c] + k
        /\ \A d \in Conns \ {c} : got'[d] = got[d]
    BY <2>1, <2>3
  <2>6. \A d \in Conns : /\ start[d] <= got'[d] /\ got'[d] <= sent[d]
                          /\ got'[d] - start[d] <= ScanBuf
    BY <2>1, <2>3, <2>5
  <2>. QED  BY <2>4, <2>5, <2>6
<1>7. ASSUME NEW c \in Conns, ReadEnds(c) \/ TooLong(c) PROVE SocketTypeOK'
  BY <1>7 DEF ReadEnds, TooLong
<1>8. ASSUME NEW c \in Conns, ScanLine(c) PROVE SocketTypeOK'
  <2>1. PICK p \in Buffered(c) :
          /\ start' = [start EXCEPT ![c] = p]
          /\ IF p = start[c] + 1 THEN UNCHANGED <<lines, hpc>> ELSE ParseUpTo(c, p - 1)
    BY <1>8 DEF ScanLine
  <2>2. /\ p \in Nat /\ start[c] < p /\ p <= got[c]
        /\ start[c] \in Nat /\ got[c] \in Nat /\ got[c] - start[c] <= ScanBuf
    BY DEF Buffered
  <2>3. p - 1 \in Nat /\ start[c] <= p - 1 /\ got[c] - p <= ScanBuf
    BY <2>2, SocketAssumption
  <2>4. /\ lines' \in [Conns -> Seq(Seq(Nat))]
        /\ hpc' \in [Conns -> {"none", "scan", "emit", "done"}]
    <3>1. CASE p = start[c] + 1
      BY <2>1, <3>1
    <3>2. CASE p # start[c] + 1
      <4>. HIDE DEF SocketTypeOK
      <4>. QED  BY <2>1, <2>3, <3>2, ParseUpToType
    <3>. QED  BY <3>1, <3>2
  <2>5. UNCHANGED <<cancelled, lpc, listening, backlog, peer, sent, nl, got, err, shut,
                    posts, received>>
    BY <1>8 DEF ScanLine
  <2>6. start' \in [Conns -> Nat] /\ start'[c] = p
        /\ \A d \in Conns \ {c} : start'[d] = start[d]
    BY <2>1, <2>2
  <2>7. \A d \in Conns : start'[d] <= got[d] /\ got[d] - start'[d] <= ScanBuf
    BY <2>2, <2>3, <2>6
  <2>. QED  BY <2>4, <2>5, <2>6, <2>7
<1>9. ASSUME NEW c \in Conns, ScanRest(c) PROVE SocketTypeOK'
  <2>1. /\ start' = [start EXCEPT ![c] = got[c]]
        /\ ParseUpTo(c, got[c])
        /\ UNCHANGED <<cancelled, lpc, listening, backlog, peer, sent, nl, got, err, shut,
                        posts, received>>
    BY <1>9 DEF ScanRest
  <2>2. got[c] \in Nat /\ start[c] <= got[c] /\ got[c] - got[c] <= ScanBuf
    BY SocketAssumption
  <2>3. /\ lines' \in [Conns -> Seq(Seq(Nat))]
        /\ hpc' \in [Conns -> {"none", "scan", "emit", "done"}]
    <3>. HIDE DEF SocketTypeOK
    <3>. QED  BY <2>1, <2>2, ParseUpToType
  <2>4. start' \in [Conns -> Nat] /\ start'[c] = got[c]
        /\ \A d \in Conns \ {c} : start'[d] = start[d]
    BY <2>1, <2>2
  <2>5. ASSUME NEW d \in Conns PROVE start'[d] <= got[d] /\ got[d] - start'[d] <= ScanBuf
    <3>1. CASE d = c
      BY <2>2, <2>4, <3>1
    <3>2. CASE d # c
      BY <2>4, <3>2
    <3>. QED  BY <3>1, <3>2
  <2>. QED  BY <2>1, <2>3, <2>4, <2>5
<1>10. ASSUME NEW c \in Conns, ScanEnds(c) \/ EmitFails(c) PROVE SocketTypeOK'
  BY <1>10 DEF ScanEnds, EmitFails
<1>14. ASSUME NEW c \in Conns, Emitted(c) \/ EmitTimesOut(c) PROVE SocketTypeOK'
  <2>1. lines[c] \in Seq(Seq(Nat)) /\ received[c] \in Seq(Nat)
    OBVIOUS
  <2>2. Len(lines[c]) \in Nat
    BY <2>1
  <2>. DEFINE k == Len(lines[c])
  <2>. HIDE DEF k
  <2>3. CASE Emitted(c)
    <3>1. received' = [received EXCEPT ![c] = Append(@, k)]
      BY <2>3 DEF Emitted, k
    <3>2. Append(received[c], k) \in Seq(Nat)
      BY <2>1, <2>2 DEF k
    <3>3. received' \in [Conns -> Seq(Nat)]
      BY <3>1, <3>2
    <3>. QED  BY <2>3, <3>3 DEF Emitted
  <2>4. CASE EmitTimesOut(c)
    <3>1. posts' = posts \cup {<<c, k>>}
      BY <2>4 DEF EmitTimesOut, k
    <3>2. posts' \subseteq Conns \X Nat
      BY <3>1, <2>2 DEF k
    <3>. QED  BY <2>4, <3>2 DEF EmitTimesOut
  <2>. QED  BY <1>14, <2>3, <2>4
<1>11. CASE PostArrives
  <2>1. PICK post \in posts :
          /\ posts' = posts \ {post}
          /\ received' = [received EXCEPT ![post[1]] = Append(@, post[2])]
    BY <1>11 DEF PostArrives
  <2>2. post[1] \in Conns /\ post[2] \in Nat
    OBVIOUS
  <2>3. Append(received[post[1]], post[2]) \in Seq(Nat)
    BY <2>2
  <2>4. received' \in [Conns -> Seq(Nat)] /\ posts' \subseteq Conns \X Nat
    BY <2>1, <2>2, <2>3
  <2>. QED  BY <1>11, <2>4 DEF PostArrives
<1>12. CASE (\E s \in Sockets : StartListen(s)) \/ SocketCancel
  BY <1>12 DEF StartListen, SocketCancel
<1>13. CASE UNCHANGED socketVars
  BY <1>13 DEF socketVars
<1>. QED
  BY <1>1, <1>2, <1>3, <1>4, <1>5, <1>6, <1>7, <1>8, <1>9, <1>10, <1>11, <1>12, <1>13,
     <1>14
     DEF SocketNext, SocketEnvironment, Senders, ListenStep, LoopStep, AcceptAny, HandlerStep, OwnStep

-----------------------------------------------------------------------------
(* The listener.                                                           *)

(***************************************************************************)
(* ListenSocket waits for its connections only when ctx is done; they are  *)
(* handled while it accepts or waits, and all have ended when it returns.  *)
(***************************************************************************)
ListenInv ==
  /\ \A s \in Sockets : lpc[s] \in {"wait", "done"} => cancelled
  /\ \A c \in Conns : /\ hpc[c] # "none" => lpc[At[c]] \in {"accept", "wait", "done"}
                      /\ hpc[c] \in {"scan", "emit"} => lpc[At[c]] # "done"

\* Every step keeps the connections within the life of ListenSocket.
LEMMA NextListenInv == SocketTypeOK /\ ListenInv /\ [SocketNext]_socketVars => ListenInv'
<1>. SUFFICES ASSUME SocketTypeOK, ListenInv, [SocketNext]_socketVars PROVE ListenInv'
  OBVIOUS
<1>. USE DEF ListenInv, listenVars, peerVars, connVars, emitVars
<1>0. /\ hpc \in [Conns -> {"none", "scan", "emit", "done"}] /\ At \in [Conns -> Sockets]
      /\ lpc \in [Sockets -> {"off", "listen", "accept", "wait", "done", "failed"}]
  BY SocketAssumption DEF SocketTypeOK
<1>1. CASE UNCHANGED <<cancelled, lpc, hpc>>
  BY <1>1
<1>7. CASE SocketCancel
  BY <1>0, <1>7 DEF SocketCancel
<1>2. ASSUME NEW s \in Sockets,
             Listen(s) \/ ListenFails(s) \/ AcceptEnds(s) \/ Return(s) \/ StartListen(s)
      PROVE  ListenInv'
  <2>1. /\ \A z \in Sockets \ {s} : lpc'[z] = lpc[z]
        /\ hpc' = hpc /\ cancelled' = cancelled
    BY <1>0, <1>2 DEF Listen, ListenFails, AcceptEnds, Return, StartListen
  <2>2. lpc'[s] \in {"wait", "done"} => cancelled
    BY <1>0, <1>2 DEF Listen, ListenFails, AcceptEnds, Return, StartListen
  <2>3. ASSUME NEW c \in Conns, At[c] = s
        PROVE  /\ hpc[c] # "none" => lpc'[s] \in {"accept", "wait", "done"}
               /\ hpc[c] \in {"scan", "emit"} => lpc'[s] # "done"
    BY <1>0, <1>2, <2>3 DEF Listen, ListenFails, AcceptEnds, Return, StartListen
  <2>. QED  BY <1>0, <2>1, <2>2, <2>3
<1>3. ASSUME NEW c \in Conns, Accept(c) PROVE ListenInv'
  BY <1>0, <1>3 DEF Accept
<1>4. ASSUME NEW c \in Conns, hpc[c] \in {"scan", "emit"}, UNCHANGED <<cancelled, lpc>>,
             \E v \in {"scan", "emit", "done"} : hpc' = [hpc EXCEPT ![c] = v]
      PROVE  ListenInv'
  BY <1>0, <1>4
<1>5. ASSUME NEW c \in Conns, ScanLine(c) \/ ScanRest(c)
      PROVE  ListenInv'
  <2>1. hpc[c] = "scan" /\ UNCHANGED <<cancelled, lpc>>
    BY <1>5 DEF ScanLine, ScanRest
  <2>2. hpc' = hpc \/ \E v \in {"scan", "emit", "done"} : hpc' = [hpc EXCEPT ![c] = v]
    BY <1>5 DEF ScanLine, ScanRest, ParseUpTo
  <2>. QED  BY <1>1, <1>4, <2>1, <2>2
<1>6. ASSUME NEW c \in Conns, ScanEnds(c) \/ EmitTimesOut(c) \/ Emitted(c) \/ EmitFails(c)
      PROVE  ListenInv'
  BY <1>4, <1>6 DEF ScanEnds, EmitTimesOut, Emitted, EmitFails
<1>. QED
  BY <1>1, <1>2, <1>3, <1>5, <1>6, <1>7
     DEF SocketNext, SocketEnvironment, Senders, ListenStep, LoopStep, AcceptAny, HandlerStep, OwnStep,
         Dial, SendByte, HangUp, Break, ListenerCloses, ConnCloses, Read, ReadEnds, TooLong,
         PostArrives, socketVars

\* A step that another listener takes, or a connection, leaves this one where it is.
LEMMA ListenerSteps ==
  ASSUME SocketTypeOK, [SocketNext]_socketVars, NEW s \in Sockets
  PROVE  \/ UNCHANGED <<cancelled, lpc[s]>>
         \/ SocketCancel \/ Return(s) \/ ListenFails(s)
         \/ Listen(s) \/ AcceptEnds(s) \/ StartListen(s)
<1>. USE DEF listenVars, peerVars, connVars, emitVars
<1>1. ASSUME NEW z \in Sockets, z # s,
             Listen(z) \/ ListenFails(z) \/ AcceptEnds(z) \/ Return(z) \/ StartListen(z)
      PROVE  UNCHANGED <<cancelled, lpc[s]>>
  BY <1>1 DEF Listen, ListenFails, AcceptEnds, Return, StartListen, SocketTypeOK
<1>. QED
  BY <1>1
     DEF SocketNext, SocketEnvironment, Senders, ListenStep, LoopStep, AcceptAny, HandlerStep,
         OwnStep, Dial, SendByte, HangUp, Break, ListenerCloses, Accept, ConnCloses, Read,
         ReadEnds, TooLong, ScanLine, ScanRest, ScanEnds, EmitTimesOut, Emitted, EmitFails,
         PostArrives, socketVars

\* Of a listener's steps only those of ctx and those that end it are a runner's.
LEMMA NextRunner ==
  SocketTypeOK /\ ListenInv /\ [SocketNext]_socketVars =>
    \A s \in Sockets : [Listener(s)!RunnerNext]_(Listener(s)!runnerVars)
<1>. SUFFICES ASSUME SocketTypeOK, ListenInv, [SocketNext]_socketVars, NEW s \in Sockets
              PROVE  [Listener(s)!RunnerNext]_(Listener(s)!runnerVars)
  OBVIOUS
<1>0. lpc \in [Sockets -> {"off", "listen", "accept", "wait", "done", "failed"}]
  BY DEF SocketTypeOK
<1>1. CASE UNCHANGED <<cancelled, lpc[s]>>
  BY <1>1 DEF Listener!runnerVars
<1>2. CASE SocketCancel
  BY <1>2 DEF SocketCancel, listenVars, Listener!RunnerNext, Listener!CancelRunner
<1>3. CASE Return(s)
  <2>1. lpc[s] = "wait" /\ lpc'[s] = "done" /\ cancelled /\ cancelled' = cancelled
    BY <1>0, <1>3 DEF Return, ListenInv
  <2>. QED  BY <2>1 DEF Listener!RunnerNext, Listener!ReturnCancelled
<1>4. CASE ListenFails(s)
  <2>1. lpc[s] = "listen" /\ lpc'[s] = "failed" /\ cancelled' = cancelled
    BY <1>0, <1>4 DEF ListenFails
  <2>. QED  BY <2>1 DEF Listener!RunnerNext, Listener!FailEarly
<1>5. CASE Listen(s) \/ AcceptEnds(s) \/ StartListen(s)
  <2>1. /\ lpc[s] \notin {"done", "failed"} /\ lpc'[s] \notin {"done", "failed"}
        /\ cancelled' = cancelled
    BY <1>0, <1>5 DEF Listen, AcceptEnds, StartListen
  <2>. QED  BY <2>1 DEF Listener!runnerVars
<1>. QED  BY <1>1, <1>2, <1>3, <1>4, <1>5, ListenerSteps

-----------------------------------------------------------------------------
(* The receiver.                                                           *)

\* The elements of q differ from each other and from k.
Fresh(q, k) == \A j \in 1..Len(q) : q[j] # k
Distinct(q) == \A i, j \in 1..Len(q) : q[i] = q[j] => i = j

\* A sequence without repetitions stays so when something new is appended.
LEMMA AppendFresh ==
  ASSUME NEW q \in Seq(Nat), NEW k \in Nat, Distinct(q), Fresh(q, k)
  PROVE  /\ Distinct(Append(q, k))
         /\ \A j \in 1..Len(Append(q, k)) : Append(q, k)[j] = k \/ \E i \in 1..Len(q) : q[i] = Append(q, k)[j]
BY DEF Distinct, Fresh

(***************************************************************************)
(* Requests received, given up, or under way on a connection are each of   *)
(* another line of it.                                                     *)
(***************************************************************************)
ReceivedInv ==
  \A c \in Conns :
    /\ Distinct(received[c])
    /\ \A j \in 1..Len(received[c]) : received[c][j] \in 1..Len(lines[c])
    /\ \A k \in Nat : <<c, k>> \in posts => k \in 1..Len(lines[c]) /\ Fresh(received[c], k)
    /\ hpc[c] = "emit" =>
         /\ Len(lines[c]) > 0
         /\ <<c, Len(lines[c])>> \notin posts
         /\ Fresh(received[c], Len(lines[c]))

\* Every POST is of another event, and reaches the receiver at most once.
LEMMA NextReceivedInv ==
  SocketTypeOK /\ ReceivedInv /\ [SocketNext]_socketVars => ReceivedInv'
<1>. SUFFICES ASSUME SocketTypeOK, ReceivedInv, [SocketNext]_socketVars, NEW c \in Conns
              PROVE  /\ Distinct(received'[c])
                     /\ \A j \in 1..Len(received'[c]) : received'[c][j] \in 1..Len(lines'[c])
                     /\ \A k \in Nat : <<c, k>> \in posts' =>
                          k \in 1..Len(lines'[c]) /\ Fresh(received'[c], k)
                     /\ hpc'[c] = "emit" =>
                          /\ Len(lines'[c]) > 0
                          /\ <<c, Len(lines'[c])>> \notin posts'
                          /\ Fresh(received'[c], Len(lines'[c]))
  BY DEF ReceivedInv, Distinct, Fresh
<1>0. /\ lines[c] \in Seq(Seq(Nat)) /\ received[c] \in Seq(Nat)
      /\ Len(lines[c]) \in Nat /\ Len(received[c]) \in Nat
      /\ \A j \in 1..Len(received[c]) : received[c][j] \in Nat
      /\ start \in [Conns -> Nat]
  <2>1. /\ lines[c] \in Seq(Seq(Nat)) /\ received[c] \in Seq(Nat) /\ start \in [Conns -> Nat]
    BY DEF SocketTypeOK
  <2>. QED  BY <2>1
<1>00. /\ Distinct(received[c])
       /\ \A j \in 1..Len(received[c]) : received[c][j] \in 1..Len(lines[c])
       /\ \A k \in Nat : <<c, k>> \in posts => k \in 1..Len(lines[c]) /\ Fresh(received[c], k)
       /\ hpc[c] = "emit" =>
            /\ Len(lines[c]) > 0
            /\ <<c, Len(lines[c])>> \notin posts
            /\ Fresh(received[c], Len(lines[c]))
  BY DEF ReceivedInv
<1>. USE DEF listenVars, peerVars, connVars, emitVars
<1>1. CASE /\ lines'[c] = lines[c] /\ received'[c] = received[c]
           /\ \A k \in Nat : <<c, k>> \in posts' => <<c, k>> \in posts
           /\ hpc'[c] = "emit" => hpc[c] = "emit"
  BY <1>0, <1>00, <1>1
<1>2. ASSUME NEW l, lines'[c] = Append(lines[c], l), l \in Seq(Nat),
             received'[c] = received[c], posts' = posts
      PROVE  /\ Distinct(received'[c])
             /\ \A j \in 1..Len(received'[c]) : received'[c][j] \in 1..Len(lines'[c])
             /\ \A k \in Nat : <<c, k>> \in posts' =>
                  k \in 1..Len(lines'[c]) /\ Fresh(received'[c], k)
             /\ /\ Len(lines'[c]) > 0
                /\ <<c, Len(lines'[c])>> \notin posts'
                /\ Fresh(received'[c], Len(lines'[c]))
  <2>1. Len(lines'[c]) = Len(lines[c]) + 1
    BY <1>0, <1>2
  <2>2. \A k \in 1..Len(lines[c]) : k \in 1..Len(lines'[c]) /\ k # Len(lines'[c])
    BY <1>0, <2>1
  <2>3. Len(lines'[c]) \in Nat
    BY <1>0, <2>1
  <2>4. Fresh(received'[c], Len(lines'[c]))
    BY <1>00, <1>2, <2>2 DEF Fresh
  <2>. QED  BY <1>0, <1>00, <1>2, <2>1, <2>2, <2>3, <2>4, SMTT(30)
<1>3. CASE Emitted(c)
  <2>. DEFINE k == Len(lines[c])
  <2>1. /\ received'[c] = Append(received[c], k) /\ lines' = lines /\ posts' = posts
        /\ hpc'[c] = "scan" /\ hpc[c] = "emit"
    BY <1>3 DEF Emitted, SocketTypeOK
  <2>2. k \in 1..Len(lines[c]) /\ k \in Nat /\ Fresh(received[c], k) /\ <<c, k>> \notin posts
    BY <1>0, <1>00, <2>1
  <2>. HIDE DEF k
  <2>3. /\ Distinct(received'[c])
        /\ \A j \in 1..Len(received'[c]) :
             received'[c][j] = k \/ \E i \in 1..Len(received[c]) : received[c][i] = received'[c][j]
    BY <1>0, <1>00, <2>1, <2>2, AppendFresh, SMTT(30)
  <2>5. \A v \in Nat : Fresh(received[c], v) /\ v # k => Fresh(received'[c], v)
    BY <2>3 DEF Fresh
  <2>4. \A v \in Nat : <<c, v>> \in posts' => v \in 1..Len(lines'[c]) /\ Fresh(received'[c], v)
    BY <1>00, <2>1, <2>2, <2>5
  <2>. QED  BY <1>00, <2>1, <2>2, <2>3, <2>4
<1>4. CASE EmitTimesOut(c)
  <2>1. /\ received' = received /\ lines' = lines /\ posts' = posts \cup {<<c, Len(lines[c])>>}
        /\ hpc'[c] = "scan" /\ hpc[c] = "emit"
    BY <1>4 DEF EmitTimesOut, SocketTypeOK
  <2>. QED  BY <1>0, <1>00, <2>1
<1>5. CASE PostArrives
  <2>1. PICK post \in posts :
          /\ posts' = posts \ {post}
          /\ received' = [received EXCEPT ![post[1]] = Append(@, post[2])]
          /\ UNCHANGED <<lines, hpc>>
    BY <1>5 DEF PostArrives
  <2>2. PICK d \in Conns, k \in Nat : post = <<d, k>>
    BY DEF SocketTypeOK
  <2>3. CASE d # c
    <3>1. received'[c] = received[c]
      BY <2>1, <2>2, <2>3 DEF SocketTypeOK
    <3>. QED  BY <1>1, <2>1, <3>1
  <2>4. CASE d = c
    <3>1. received'[c] = Append(received[c], k) /\ <<c, k>> \in posts
      BY <2>1, <2>2, <2>4 DEF SocketTypeOK
    <3>2. k \in 1..Len(lines[c]) /\ Fresh(received[c], k)
      BY <1>00, <3>1
    <3>3. /\ Distinct(received'[c])
          /\ \A j \in 1..Len(received'[c]) :
               received'[c][j] = k \/ \E i \in 1..Len(received[c]) : received[c][i] = received'[c][j]
      BY <1>0, <1>00, <2>2, <3>1, <3>2, AppendFresh
    <3>4. \A v \in Nat : <<c, v>> \in posts' => <<c, v>> \in posts /\ v # k
      BY <2>1, <2>2, <2>4
    <3>5. \A v \in Nat : Fresh(received[c], v) /\ v # k => Fresh(received'[c], v)
      BY <3>3 DEF Fresh
    <3>6. lines' = lines /\ hpc' = hpc /\ (hpc[c] = "emit" => Len(lines[c]) # k)
      BY <1>00, <2>1, <3>1
    <3>7. posts' \subseteq posts
      BY <2>1
    <3>. QED  BY <1>0, <1>00, <3>2, <3>3, <3>4, <3>5, <3>6, <3>7
  <2>. QED  BY <2>3, <2>4
<1>6. CASE ScanLine(c)
  <2>1. PICK p \in Buffered(c) :
          IF p = start[c] + 1 THEN UNCHANGED <<lines, hpc>> ELSE ParseUpTo(c, p - 1)
    BY <1>6 DEF ScanLine
  <2>2. UNCHANGED <<posts, received>>
    BY <1>6 DEF ScanLine
  <2>3. CASE p = start[c] + 1
    BY <1>1, <2>1, <2>2, <2>3
  <2>4. CASE p # start[c] + 1
    <3>1. p - 1 \in Nat /\ start[c] <= p - 1
      BY <1>0, <2>4 DEF Buffered, SocketTypeOK
    <3>2. lines' = [lines EXCEPT ![c] = Append(@, Run(start[c], p - 1))]
      BY <2>1, <2>4, <3>1, ParseUpToType
    <3>3. lines'[c] = Append(lines[c], Run(start[c], p - 1)) /\ Run(start[c], p - 1) \in Seq(Nat)
      BY <1>0, <3>1, <3>2, RunType DEF SocketTypeOK
    <3>. QED  BY <1>2, <2>2, <3>3
  <2>. QED  BY <2>3, <2>4
<1>7. CASE ScanRest(c)
  <2>1. ParseUpTo(c, got[c]) /\ UNCHANGED <<posts, received>>
    BY <1>7 DEF ScanRest
  <2>2. got[c] \in Nat /\ start[c] <= got[c]
    BY DEF SocketTypeOK
  <2>3. lines' = [lines EXCEPT ![c] = Append(@, Run(start[c], got[c]))]
    BY <2>1, <2>2, ParseUpToType
  <2>4. lines'[c] = Append(lines[c], Run(start[c], got[c])) /\ Run(start[c], got[c]) \in Seq(Nat)
    BY <1>0, <2>2, <2>3, RunType DEF SocketTypeOK
  <2>. QED  BY <1>2, <2>1, <2>4
<1>8. ASSUME NEW d \in Conns,
             \/ d # c /\ (ScanLine(d) \/ ScanRest(d) \/ Emitted(d) \/ EmitTimesOut(d))
             \/ ScanEnds(d) \/ EmitFails(d) \/ Accept(d)
      PROVE  /\ lines'[c] = lines[c] /\ received'[c] = received[c]
             /\ \A k \in Nat : <<c, k>> \in posts' => <<c, k>> \in posts
             /\ hpc'[c] = "emit" => hpc[c] = "emit"
  <2>0. /\ lines \in [Conns -> Seq(Seq(Nat))] /\ received \in [Conns -> Seq(Nat)]
        /\ hpc \in [Conns -> {"none", "scan", "emit", "done"}]
    BY DEF SocketTypeOK
  <2>1. CASE d # c /\ (ScanLine(d) \/ ScanRest(d))
    BY <2>0, <2>1 DEF ScanLine, ScanRest, ParseUpTo
  <2>2. CASE d # c /\ Emitted(d)
    BY <2>0, <2>2 DEF Emitted
  <2>3. CASE d # c /\ EmitTimesOut(d)
    BY <2>0, <2>3 DEF EmitTimesOut
  <2>4. CASE ScanEnds(d) \/ EmitFails(d) \/ Accept(d)
    BY <2>0, <2>4 DEF ScanEnds, EmitFails, Accept
  <2>. QED  BY <1>8, <2>1, <2>2, <2>3, <2>4
<1>9. CASE UNCHANGED <<lines, received, posts, hpc>>
  BY <1>1, <1>9
<1>. QED
  BY <1>1, <1>3, <1>4, <1>5, <1>6, <1>7, <1>8, <1>9
     DEF SocketNext, SocketEnvironment, Senders, ListenStep, LoopStep, AcceptAny, HandlerStep, OwnStep,
         Dial, SendByte, HangUp, Break, Listen, ListenFails, AcceptEnds, Return, ListenerCloses,
         StartListen, SocketCancel, ConnCloses, Read, ReadEnds, TooLong, socketVars

-----------------------------------------------------------------------------
(* The lines.                                                              *)

\* The bytes from start[c] + 1 to p become a line.
TakesLine(c, p) ==
  /\ hpc[c] = "scan"
  /\ start[c] < p /\ p <= got[c]
  /\ \A q \in nl[c] : start[c] < q => p < q
  /\ lines'[c] = Append(lines[c], Run(start[c], p))
  /\ \/ start'[c] = p + 1 /\ p + 1 \in nl[c] /\ p + 1 <= got[c]
     \/ start'[c] = p /\ p = got[c] /\ err[c] \in {"eof", "broken"}
  /\ UNCHANGED <<got, sent, nl, err, peer, cancelled, lpc>>

\* A newline ends an empty line.
SkipsNewline(c) ==
  /\ hpc[c] = "scan"
  /\ lines'[c] = lines[c]
  /\ start'[c] = start[c] + 1 /\ start'[c] \in nl[c] /\ start'[c] <= got[c]
  /\ UNCHANGED <<got, sent, nl, err, peer, cancelled, lpc>>

KeepsLines(c) == lines'[c] = lines[c] /\ start'[c] = start[c]

\* What a step does to the lines of a connection.
LEMMA ScanSteps ==
  ASSUME SocketTypeOK, [SocketNext]_socketVars, NEW c \in Conns
  PROVE  KeepsLines(c) \/ SkipsNewline(c) \/ \E p \in Nat : TakesLine(c, p)
<1>. USE DEF listenVars, peerVars, connVars, emitVars
<1>0. /\ start[c] \in Nat /\ got[c] \in Nat /\ nl[c] \subseteq Nat
      /\ start \in [Conns -> Nat] /\ lines \in [Conns -> Seq(Seq(Nat))]
  BY DEF SocketTypeOK
<1>1. CASE UNCHANGED <<lines, start>>
  BY <1>1 DEF KeepsLines
<1>2. ASSUME NEW d \in Conns, d # c, ScanLine(d) \/ ScanRest(d) PROVE KeepsLines(c)
  BY <1>0, <1>2 DEF ScanLine, ScanRest, ParseUpTo, KeepsLines
<1>3. CASE ScanLine(c)
  <2>1. PICK n \in Buffered(c) :
          /\ \A q \in Buffered(c) : n <= q
          /\ start' = [start EXCEPT ![c] = n]
          /\ IF n = start[c] + 1 THEN UNCHANGED <<lines, hpc>> ELSE ParseUpTo(c, n - 1)
    BY <1>3 DEF ScanLine
  <2>2. /\ hpc[c] = "scan"
        /\ UNCHANGED <<got, sent, nl, err, peer, cancelled, lpc>>
    BY <1>3 DEF ScanLine
  <2>3. n \in nl[c] /\ n \in Nat /\ start[c] < n /\ n <= got[c] /\ start'[c] = n
    BY <1>0, <2>1 DEF Buffered
  <2>4. CASE n = start[c] + 1
    <3>1. lines' = lines
      BY <2>1, <2>4
    <3>. QED  BY <2>2, <2>3, <2>4, <3>1 DEF SkipsNewline
  <2>5. CASE n # start[c] + 1
    <3>1. n - 1 \in Nat /\ start[c] < n - 1 /\ n - 1 <= got[c] /\ (n - 1) + 1 = n
      BY <1>0, <2>3, <2>5
    <3>6. start[c] <= n - 1 /\ ParseUpTo(c, n - 1)
      BY <1>0, <2>1, <2>5, <3>1
    <3>2. lines' = [lines EXCEPT ![c] = Append(@, Run(start[c], n - 1))]
      BY <3>1, <3>6, ParseUpToType
    <3>3. lines'[c] = Append(lines[c], Run(start[c], n - 1))
      BY <1>0, <3>2
    <3>4. ASSUME NEW q \in nl[c], start[c] < q PROVE n - 1 < q
      <4>1. CASE q <= got[c]
        <5>1. q \in Buffered(c)
          BY <3>4, <4>1 DEF Buffered
        <5>. QED  BY <1>0, <2>1, <2>3, <5>1
      <4>2. CASE ~(q <= got[c])
        BY <1>0, <2>3, <4>2
      <4>. QED  BY <4>1, <4>2
    <3>5. TakesLine(c, n - 1)
      BY <2>2, <2>3, <3>1, <3>3, <3>4 DEF TakesLine
    <3>. QED  BY <3>1, <3>5
  <2>. QED  BY <2>4, <2>5
<1>4. CASE ScanRest(c)
  <2>1. /\ hpc[c] = "scan" /\ err[c] \in {"eof", "broken"}
        /\ Buffered(c) = {} /\ start[c] < got[c]
        /\ start' = [start EXCEPT ![c] = got[c]]
        /\ ParseUpTo(c, got[c])
        /\ UNCHANGED <<got, sent, nl, err, peer, cancelled, lpc>>
    BY <1>4 DEF ScanRest
  <2>2. lines' = [lines EXCEPT ![c] = Append(@, Run(start[c], got[c]))]
    BY <1>0, <2>1, ParseUpToType
  <2>3. lines'[c] = Append(lines[c], Run(start[c], got[c])) /\ start'[c] = got[c]
    BY <1>0, <2>1, <2>2
  <2>4. \A q \in nl[c] : start[c] < q => got[c] < q
    BY <1>0, <2>1 DEF Buffered
  <2>5. TakesLine(c, got[c])
    BY <1>0, <2>1, <2>3, <2>4 DEF TakesLine
  <2>. QED  BY <1>0, <2>5
<1>. QED
  BY <1>1, <1>2, <1>3, <1>4
     DEF SocketNext, SocketEnvironment, Senders, ListenStep, LoopStep, AcceptAny, HandlerStep, OwnStep,
         Dial, SendByte, HangUp, Break, Listen, ListenFails, Accept, AcceptEnds, Return,
         ListenerCloses, StartListen, SocketCancel, ConnCloses, Read, ReadEnds, TooLong,
         ScanEnds, EmitTimesOut, Emitted, EmitFails, PostArrives, socketVars

\* A line appended is the last one, and leaves the others where they are.
LEMMA AppendLine ==
  ASSUME NEW ls \in Seq(Seq(Nat)), NEW l \in Seq(Nat)
  PROVE  /\ Append(ls, l) \in Seq(Seq(Nat))
         /\ Len(Append(ls, l)) = Len(ls) + 1
         /\ \A i \in 1..Len(ls) : Append(ls, l)[i] = ls[i]
         /\ Append(ls, l)[Len(ls) + 1] = l
         /\ \A i \in 1..Len(Append(ls, l)) : i \in 1..Len(ls) \/ i = Len(ls) + 1
         /\ Len(ls) \in Nat
OBVIOUS

\* What a line taken is, whatever becomes of start.
LEMMA LineTaken ==
  ASSUME SocketTypeOK, NEW c \in Conns, NEW p \in Nat, TakesLine(c, p)
  PROVE  /\ Run(start[c], p) \in Seq(Nat)
         /\ Len(Run(start[c], p)) = p - start[c] /\ Len(Run(start[c], p)) > 0
         /\ \A j \in 1..Len(Run(start[c], p)) :
              /\ Run(start[c], p)[j] \in Nat
              /\ start[c] < Run(start[c], p)[j] /\ Run(start[c], p)[j] <= p
         /\ \A v \in Nat : start[c] < v /\ v <= p =>
              \E j \in 1..Len(Run(start[c], p)) : Run(start[c], p)[j] = v
         /\ Run(start[c], p)[Len(Run(start[c], p))] = p
         /\ start'[c] \in Nat /\ p <= start'[c] /\ start'[c] <= got[c]
         /\ start'[c] = p \/ (start'[c] = p + 1 /\ p + 1 \in nl[c])
<1>1. start[c] \in Nat /\ got[c] \in Nat /\ start[c] < p /\ p <= got[c]
  BY DEF SocketTypeOK, TakesLine
<1>2. /\ Run(start[c], p) \in Seq(Nat)
      /\ Len(Run(start[c], p)) = p - start[c]
      /\ \A j \in 1..(p - start[c]) : Run(start[c], p)[j] = start[c] + j
  <2>1. start[c] <= p
    BY <1>1
  <2>. QED  BY <1>1, <2>1, RunType
<1>. DEFINE l == Run(start[c], p)
            n == p - start[c]
<1>3. n \in Nat /\ n > 0 /\ start[c] + n = p
  BY <1>1
<1>4. Len(l) = n /\ \A j \in 1..n : l[j] = start[c] + j
  BY <1>2
<1>5. \A v \in Nat : start[c] < v /\ v <= p => v - start[c] \in 1..n /\ start[c] + (v - start[c]) = v
  BY <1>1
<1>6. start'[c] \in Nat /\ p <= start'[c] /\ start'[c] <= got[c]
      /\ (start'[c] = p \/ (start'[c] = p + 1 /\ p + 1 \in nl[c]))
  BY <1>1 DEF TakesLine
<1>7. \A j \in 1..n : l[j] \in Nat /\ start[c] < l[j] /\ l[j] <= p
  <2>. HIDE DEF l
  <2>. QED  BY <1>1, <1>4
<1>8. l[n] = p
  <2>. HIDE DEF l, n
  <2>. QED  BY <1>3, <1>4
<1>9. ASSUME NEW v \in Nat, start[c] < v, v <= p PROVE \E j \in 1..n : l[j] = v
  <2>. HIDE DEF l, n
  <2>. QED  BY <1>4, <1>5, <1>9
<1>. HIDE DEF n
<1>. QED  BY <1>2, <1>3, <1>4, <1>6, <1>7, <1>8, <1>9

\* Lines are not empty, and of bytes the scanner is done with.
LinesInv ==
  \A c \in Conns : \A i \in 1..Len(lines[c]) :
    /\ Len(lines[c][i]) > 0
    /\ \A j \in 1..Len(lines[c][i]) : lines[c][i][j] \in 1..start[c]

\* Every step keeps lines not empty, and of bytes the scanner is done with.
LEMMA NextLinesInv == SocketTypeOK /\ LinesInv /\ [SocketNext]_socketVars => LinesInv'
<1>. SUFFICES ASSUME SocketTypeOK, LinesInv, [SocketNext]_socketVars, NEW c \in Conns
              PROVE  \A i \in 1..Len(lines'[c]) :
                       /\ Len(lines'[c][i]) > 0
                       /\ \A j \in 1..Len(lines'[c][i]) : lines'[c][i][j] \in 1..start'[c]
  BY DEF LinesInv
<1>1. \A i \in 1..Len(lines[c]) :
        /\ Len(lines[c][i]) > 0
        /\ \A j \in 1..Len(lines[c][i]) : lines[c][i][j] \in 1..start[c]
  BY DEF LinesInv
<1>2. start[c] \in Nat /\ lines[c] \in Seq(Seq(Nat))
  BY DEF SocketTypeOK
<1>3. CASE KeepsLines(c)
  BY <1>1, <1>3 DEF KeepsLines
<1>4. CASE SkipsNewline(c)
  BY <1>1, <1>2, <1>4, SMTT(30) DEF SkipsNewline
<1>5. ASSUME NEW p \in Nat, TakesLine(c, p)
      PROVE  \A i \in 1..Len(lines'[c]) :
               /\ Len(lines'[c][i]) > 0
               /\ \A j \in 1..Len(lines'[c][i]) : lines'[c][i][j] \in 1..start'[c]
  <2>. DEFINE l == Run(start[c], p)
  <2>1. lines'[c] = Append(lines[c], l)
    BY <1>5 DEF TakesLine
  <2>2. /\ l \in Seq(Nat) /\ Len(l) > 0
        /\ \A j \in 1..Len(l) : l[j] \in Nat /\ start[c] < l[j] /\ l[j] <= p
        /\ start'[c] \in Nat /\ p <= start'[c] /\ start[c] < p
    BY <1>5, LineTaken DEF TakesLine
  <2>. HIDE DEF l
  <2>4. /\ \A i \in 1..Len(lines'[c]) : i \in 1..Len(lines[c]) \/ i = Len(lines[c]) + 1
        /\ \A i \in 1..Len(lines[c]) : lines'[c][i] = lines[c][i]
        /\ lines'[c][Len(lines[c]) + 1] = l
    BY <1>2, <2>1, <2>2, AppendLine
  <2>5. \A v \in 1..start[c] : v \in 1..start'[c]
    BY <1>2, <2>2
  <2>6. \A j \in 1..Len(l) : l[j] \in 1..start'[c]
    BY <1>2, <2>2
  <2>. QED  BY <1>1, <2>2, <2>4, <2>5, <2>6
<1>. QED  BY <1>3, <1>4, <1>5, ScanSteps

-----------------------------------------------------------------------------
(* The refinement of LineFeed.                                             *)

\* Only a sender writes, and only Return closes the feed.
LEMMA FeedSteps ==
  ASSUME SocketTypeOK, [SocketNext]_socketVars, NEW c \in Conns
  PROVE  \/ SendByte(c) \/ Return(At[c])
         \/ sent'[c] = sent[c] /\ (lpc'[At[c]] = "done") = (lpc[At[c]] = "done")
<1>. USE DEF listenVars, peerVars, connVars, emitVars
<1>0. At[c] \in Sockets
  BY SocketAssumption
<1>1. ASSUME NEW d \in Conns, d # c, SendByte(d) PROVE sent'[c] = sent[c] /\ lpc' = lpc
  BY <1>1 DEF SendByte, SocketTypeOK
<1>2. ASSUME NEW s \in Sockets, Listen(s) \/ ListenFails(s) \/ AcceptEnds(s) \/ StartListen(s)
      PROVE  sent' = sent /\ (lpc'[At[c]] = "done") = (lpc[At[c]] = "done")
  BY <1>0, <1>2 DEF Listen, ListenFails, AcceptEnds, StartListen, SocketTypeOK
<1>3. ASSUME NEW s \in Sockets, s # At[c], Return(s)
      PROVE  sent' = sent /\ lpc'[At[c]] = lpc[At[c]]
  BY <1>0, <1>3 DEF Return, SocketTypeOK
<1>. QED
  BY <1>1, <1>2, <1>3
     DEF SocketNext, SocketEnvironment, Senders, ListenStep, LoopStep, AcceptAny, HandlerStep, OwnStep,
         Dial, HangUp, Break, Listen, ListenFails, Accept, AcceptEnds, ListenerCloses,
         StartListen, SocketCancel, ConnCloses, Read, ReadEnds, TooLong, ScanLine, ScanRest,
         ScanEnds, EmitTimesOut, Emitted, EmitFails, PostArrives, socketVars

\* A line taken is a line delivered: of bytes sent, in order, and all later than those before.
LEMMA TakenIsDelivered ==
  ASSUME SocketTypeOK, ListenInv, LinesInv, NEW c \in Conns, NEW p \in Nat, TakesLine(c, p)
  PROVE  Feed(c)!Deliver
<1>. DEFINE l == Run(start[c], p)
<1>1. /\ start[c] \in Nat /\ got[c] \in Nat /\ sent[c] \in Nat /\ got[c] <= sent[c]
      /\ lines[c] \in Seq(Seq(Nat))
  BY DEF SocketTypeOK
<1>2. /\ start[c] < p /\ p <= got[c] /\ lines'[c] = Append(lines[c], l)
      /\ sent' = sent /\ lpc' = lpc /\ hpc[c] = "scan"
  BY DEF TakesLine
<1>3. /\ l \in Seq(Nat) /\ Len(l) = p - start[c] /\ Len(l) > 0
      /\ \A j \in 1..Len(l) : l[j] \in Nat /\ start[c] < l[j] /\ l[j] <= p
  BY LineTaken
<1>4. \A j \in 1..Len(l) : l[j] = start[c] + j
  <2>1. start[c] <= p
    BY <1>1, <1>2
  <2>. QED  BY <1>1, <1>3, <2>1, RunType
<1>7. l \in Seq(1..sent[c])
  <2>1. start[c] <= p /\ p <= sent[c]
    BY <1>1, <1>2
  <2>. QED  BY <1>1, <2>1, RunOfSent
<1>. HIDE DEF l
<1>5. /\ Len(lines'[c]) = Len(lines[c]) + 1 /\ lines'[c][Len(lines'[c])] = l
  BY <1>1, <1>2, <1>3, AppendLine
<1>8. \A i, j \in 1..Len(l) : i < j => l[i] < l[j]
  BY <1>1, <1>3, <1>4
<1>9. \A i \in 1..Len(lines[c]) :
        \A m \in 1..Len(lines[c][i]), q \in 1..Len(l) : lines[c][i][m] < l[q]
  <2>. SUFFICES ASSUME NEW i \in 1..Len(lines[c]), NEW m \in 1..Len(lines[c][i]),
                       NEW q \in 1..Len(l)
                PROVE  lines[c][i][m] < l[q]
    OBVIOUS
  <2>1. lines[c][i][m] \in 1..start[c]
    BY DEF LinesInv
  <2>2. \A v \in 1..start[c] : v < l[q]
    <3>1. l[q] \in Nat /\ start[c] < l[q]
      BY <1>3
    <3>. QED  BY <1>1, <3>1
  <2>. QED  BY <2>1, <2>2
<1>10. lpc[At[c]] # "done"
  BY <1>2 DEF ListenInv
<1>11. Feed(c)!IsLine(l)
  BY <1>3, <1>7, <1>8 DEF Feed!IsLine
<1>12. Feed(c)!IsAfterAll(l)
  BY <1>9 DEF Feed!IsAfterAll
<1>. QED
  BY <1>2, <1>5, <1>10, <1>11, <1>12 DEF Feed!Deliver

\* Every step is, for each connection, a step of its feed.
LEMMA NextFeed ==
  SocketTypeOK /\ ListenInv /\ LinesInv /\ [SocketNext]_socketVars =>
    \A c \in Conns : [Feed(c)!FeedNext]_(Feed(c)!feedVars)
<1>. SUFFICES ASSUME SocketTypeOK, ListenInv, LinesInv, [SocketNext]_socketVars, NEW c \in Conns
              PROVE  [Feed(c)!FeedNext]_(Feed(c)!feedVars)
  OBVIOUS
<1>. USE DEF listenVars, peerVars, connVars, emitVars
<1>1. CASE SendByte(c)
  <2>1. sent'[c] = sent[c] + 1 /\ lines' = lines /\ lpc' = lpc
    BY <1>1 DEF SendByte, SocketTypeOK
  <2>. QED  BY <2>1 DEF Feed!FeedNext, Feed!WriteByte
<1>2. CASE Return(At[c])
  <2>1. lpc[At[c]] = "wait" /\ lpc'[At[c]] = "done" /\ sent' = sent /\ lines' = lines
    BY <1>2, SocketAssumption DEF Return, SocketTypeOK
  <2>. QED  BY <2>1 DEF Feed!FeedNext, Feed!Close
<1>3. CASE /\ sent'[c] = sent[c] /\ (lpc'[At[c]] = "done") = (lpc[At[c]] = "done")
           /\ lines'[c] = lines[c]
  BY <1>3 DEF Feed!feedVars
<1>4. ASSUME NEW p \in Nat, TakesLine(c, p) PROVE Feed(c)!FeedNext
  BY <1>4, TakenIsDelivered DEF Feed!FeedNext
<1>. QED
  BY <1>1, <1>2, <1>3, <1>4, ScanSteps, FeedSteps DEF KeepsLines, SkipsNewline

-----------------------------------------------------------------------------
(* The end of a connection.                                                *)

(***************************************************************************)
(* After eof nothing more is sent, and all that was sent has been read; a  *)
(* connection's goroutine ends only when reading has, and then leaves      *)
(* nothing in its buffer but a line too long.                              *)
(***************************************************************************)
EndInv ==
  \A c \in Conns :
    /\ err[c] = "eof" => peer[c] = "closed" /\ got[c] = sent[c]
    /\ hpc[c] = "done" => /\ err[c] # "none"
                          /\ err[c] \in {"eof", "broken"} => start[c] = got[c]

\* Every step keeps what is known of a connection that has ended.
LEMMA NextEndInv == SocketTypeOK /\ EndInv /\ [SocketNext]_socketVars => EndInv'
<1>. SUFFICES ASSUME SocketTypeOK, EndInv, [SocketNext]_socketVars, NEW c \in Conns
              PROVE  /\ err'[c] = "eof" => peer'[c] = "closed" /\ got'[c] = sent'[c]
                     /\ hpc'[c] = "done" => /\ err'[c] # "none"
                                            /\ err'[c] \in {"eof", "broken"} => start'[c] = got'[c]
  BY DEF EndInv
<1>. USE DEF listenVars, peerVars, connVars, emitVars
<1>0. /\ err[c] = "eof" => peer[c] = "closed" /\ got[c] = sent[c]
      /\ hpc[c] = "done" => /\ err[c] # "none"
                            /\ err[c] \in {"eof", "broken"} => start[c] = got[c]
  BY DEF EndInv
<1>t. /\ peer \in [Conns -> {"away", "open", "closed", "reset"}]
      /\ hpc \in [Conns -> {"none", "scan", "emit", "done"}]
      /\ err \in [Conns -> {"none", "eof", "broken", "tooLong"}]
      /\ sent \in [Conns -> Nat] /\ got \in [Conns -> Nat] /\ start \in [Conns -> Nat]
  BY DEF SocketTypeOK
<1>1. CASE UNCHANGED <<peer, sent, hpc, got, start, err>>
  BY <1>0, <1>1
<1>2. ASSUME NEW d \in Conns, Dial(d) \/ SendByte(d) \/ HangUp(d) \/ Break(d)
      PROVE  /\ peer[c] = "closed" => peer'[c] = "closed" /\ sent'[c] = sent[c]
             /\ UNCHANGED <<hpc, got, start, err>>
  BY <1>2, <1>t DEF Dial, SendByte, HangUp, Break
<1>3. ASSUME NEW d \in Conns, Accept(d) \/ Emitted(d) \/ EmitFails(d) \/ EmitTimesOut(d)
      PROVE  /\ hpc'[c] = "done" => hpc[c] = "done"
             /\ UNCHANGED <<peer, sent, got, start, err>>
  BY <1>3, <1>t DEF Accept, Emitted, EmitFails, EmitTimesOut
<1>4. ASSUME NEW d \in Conns, Read(d) \/ ReadEnds(d) \/ TooLong(d) \/ ScanEnds(d), d # c
      PROVE  /\ hpc'[c] = hpc[c] /\ got'[c] = got[c] /\ err'[c] = err[c]
             /\ UNCHANGED <<peer, sent, start>>
  BY <1>4, <1>t DEF Read, ReadEnds, TooLong, ScanEnds
<1>5. CASE Read(c)
  BY <1>0, <1>5, <1>t DEF Read, Reading
<1>6. CASE ReadEnds(c)
  BY <1>0, <1>6, <1>t DEF ReadEnds, Reading
<1>7. CASE TooLong(c)
  BY <1>0, <1>7, <1>t DEF TooLong
<1>8. CASE ScanEnds(c)
  BY <1>0, <1>8, <1>t DEF ScanEnds
<1>9. ASSUME NEW d \in Conns, ScanLine(d) \/ ScanRest(d)
      PROVE  /\ hpc'[c] = "done" => hpc[c] = "done" /\ start'[c] = start[c]
             /\ UNCHANGED <<peer, sent, got, err>>
  <2>1. hpc[d] = "scan" /\ UNCHANGED <<peer, sent, got, err>>
    BY <1>9 DEF ScanLine, ScanRest
  <2>2. hpc'[d] # "done" /\ (d # c => hpc'[c] = hpc[c])
    BY <1>9, <1>t, <2>1 DEF ScanLine, ScanRest, ParseUpTo
  <2>3. d # c => start'[c] = start[c]
    BY <1>9, <1>t DEF ScanLine, ScanRest
  <2>. QED  BY <2>1, <2>2, <2>3
<1>. QED
  BY <1>0, <1>1, <1>2, <1>3, <1>4, <1>5, <1>6, <1>7, <1>8, <1>9
     DEF SocketNext, SocketEnvironment, Senders, ListenStep, LoopStep, AcceptAny, HandlerStep, OwnStep,
         Listen, ListenFails, AcceptEnds, Return, ListenerCloses, StartListen, SocketCancel,
         ConnCloses, PostArrives, socketVars

-----------------------------------------------------------------------------
(* What the lines are of.                                                  *)

\* The byte p is in a line of c.
InLine(c, p) == \E i \in 1..Len(lines[c]) : \E j \in 1..Len(lines[c][i]) : lines[c][i][j] = p

\* Line l is followed by one of the newlines nls, or by the end e of reading after g bytes.
CutRight(l, nls, g, e) ==
  LET last == l[Len(l)] IN last + 1 \in nls \/ (last = g /\ e \in {"eof", "broken"})

(***************************************************************************)
(* The bytes in lines are those the scanner is done with, but for the      *)
(* newlines; each line ends before a newline or where reading ended.       *)
(***************************************************************************)
ParsedInv ==
  \A c \in Conns :
    /\ \A p \in 1..sent[c] : (p <= start[c] /\ p \notin nl[c]) <=> InLine(c, p)
    /\ \A i \in 1..Len(lines[c]) : CutRight(lines[c][i], nl[c], got[c], err[c])

\* The steps of the senders and of the reader leave what was parsed alone.
LEMMA QuietSteps ==
  ASSUME SocketTypeOK, [SocketNext]_socketVars, NEW c \in Conns
  PROVE  \/ sent'[c] = sent[c] /\ nl'[c] = nl[c]
         \/ /\ sent'[c] = sent[c] + 1
            /\ nl'[c] = nl[c] \/ nl'[c] = nl[c] \cup {sent[c] + 1}
            /\ UNCHANGED <<start, got, lines, err>>
<1>. USE DEF listenVars, peerVars, connVars, emitVars
<1>1. ASSUME NEW d \in Conns, d # c, SendByte(d) PROVE sent'[c] = sent[c] /\ nl'[c] = nl[c]
  BY <1>1 DEF SendByte, SocketTypeOK
<1>2. CASE SendByte(c)
  <2>1. sent'[c] = sent[c] + 1 /\ UNCHANGED <<start, got, lines, err>>
    BY <1>2 DEF SendByte, SocketTypeOK
  <2>2. nl' \in {nl, [nl EXCEPT ![c] = @ \cup {sent[c] + 1}]}
    BY <1>2 DEF SendByte
  <2>3. nl'[c] = nl[c] \/ nl'[c] = nl[c] \cup {sent[c] + 1}
    BY <2>2 DEF SocketTypeOK
  <2>. QED  BY <2>1, <2>3
<1>. QED
  BY <1>1, <1>2
     DEF SocketNext, SocketEnvironment, Senders, ListenStep, LoopStep, AcceptAny, HandlerStep, OwnStep,
         Dial, HangUp, Break, Listen, ListenFails, Accept, AcceptEnds, Return, ListenerCloses,
         StartListen, SocketCancel, ConnCloses, Read, ReadEnds, TooLong, ScanLine, ScanRest,
         ScanEnds, EmitTimesOut, Emitted, EmitFails, PostArrives, socketVars

\* Nothing is read once reading has ended, and it ends once.
LEMMA ReadingEnds ==
  ASSUME SocketTypeOK, [SocketNext]_socketVars, NEW c \in Conns, err[c] # "none"
  PROVE  err'[c] = err[c] /\ got'[c] = got[c]
<1>. USE DEF listenVars, peerVars, connVars, emitVars
<1>1. ASSUME NEW d \in Conns, Read(d) \/ ReadEnds(d) \/ TooLong(d)
      PROVE  err'[c] = err[c] /\ got'[c] = got[c]
  BY <1>1 DEF Read, ReadEnds, TooLong, Reading, SocketTypeOK
<1>. QED
  BY <1>1
     DEF SocketNext, SocketEnvironment, Senders, ListenStep, LoopStep, AcceptAny, HandlerStep, OwnStep,
         Dial, SendByte, HangUp, Break, Listen, ListenFails, Accept, AcceptEnds, Return,
         ListenerCloses, StartListen, SocketCancel, ConnCloses, ScanLine, ScanRest,
         ScanEnds, EmitTimesOut, Emitted, EmitFails, PostArrives, socketVars

\* How a line is cut, it stays.
LEMMA StaysCut ==
  ASSUME SocketTypeOK, [SocketNext]_socketVars, NEW c \in Conns, NEW l,
         CutRight(l, nl[c], got[c], err[c])
  PROVE  CutRight(l, nl'[c], got'[c], err'[c])
<1>1. nl[c] \subseteq nl'[c]
  BY QuietSteps
<1>2. err[c] \in {"eof", "broken"} => err'[c] = err[c] /\ got'[c] = got[c]
  BY ReadingEnds
<1>. QED  BY <1>1, <1>2 DEF CutRight

\* The bytes in lines after a line was taken.
LEMMA InLineTaken ==
  ASSUME SocketTypeOK, NEW c \in Conns, NEW p \in Nat, TakesLine(c, p), NEW q \in Nat
  PROVE  InLine(c, q)' <=> (InLine(c, q) \/ (start[c] < q /\ q <= p))
<1>. DEFINE l == Run(start[c], p)
            n == Len(lines[c])
<1>1. /\ lines[c] \in Seq(Seq(Nat)) /\ lines'[c] = Append(lines[c], l)
  BY DEF SocketTypeOK, TakesLine
<1>2. /\ l \in Seq(Nat)
      /\ \A j \in 1..Len(l) : start[c] < l[j] /\ l[j] <= p
      /\ start[c] < q /\ q <= p => \E j \in 1..Len(l) : l[j] = q
  <2>1. /\ l \in Seq(Nat)
        /\ \A j \in 1..Len(l) : l[j] \in Nat /\ start[c] < l[j] /\ l[j] <= p
    BY LineTaken
  <2>2. \A v \in Nat : start[c] < v /\ v <= p => \E j \in 1..Len(l) : l[j] = v
    BY LineTaken
  <2>. HIDE DEF l
  <2>. QED  BY <2>1, <2>2
<1>. HIDE DEF l
<1>3. /\ n \in Nat
      /\ Len(lines'[c]) = n + 1
      /\ \A i \in 1..n : lines'[c][i] = lines[c][i]
      /\ lines'[c][n + 1] = l
      /\ \A i \in 1..Len(lines'[c]) : i \in 1..n \/ i = n + 1
  BY <1>1, <1>2, AppendLine
<1>4. \A i \in 1..n : i \in 1..Len(lines'[c])
  BY <1>3
<1>5. n + 1 \in 1..Len(lines'[c])
  BY <1>3
<1>. HIDE DEF n
<1>6. InLine(c, q)' => (InLine(c, q) \/ (start[c] < q /\ q <= p))
  <2>. SUFFICES ASSUME NEW i \in 1..Len(lines'[c]), NEW j \in 1..Len(lines'[c][i]),
                       lines'[c][i][j] = q
                PROVE  InLine(c, q) \/ (start[c] < q /\ q <= p)
    BY DEF InLine
  <2>1. CASE i \in 1..n
    BY <1>3, <2>1 DEF InLine, n
  <2>2. CASE i = n + 1
    BY <1>2, <1>3, <2>2
  <2>. QED  BY <1>3, <2>1, <2>2
<1>7. InLine(c, q) => InLine(c, q)'
  BY <1>3, <1>4 DEF InLine, n
<1>8. start[c] < q /\ q <= p => InLine(c, q)'
  BY <1>2, <1>3, <1>5 DEF InLine
<1>. QED  BY <1>6, <1>7, <1>8

\* Every step keeps what was scanned in lines, but for newlines, and the
\* lines cut at newlines.
LEMMA NextParsedInv ==
  SocketTypeOK /\ LinesInv /\ ParsedInv /\ [SocketNext]_socketVars => ParsedInv'
<1>. SUFFICES ASSUME SocketTypeOK, LinesInv, ParsedInv, [SocketNext]_socketVars, NEW c \in Conns
              PROVE  /\ \A p \in 1..sent'[c] : (p <= start'[c] /\ p \notin nl'[c]) <=> InLine(c, p)'
                     /\ \A i \in 1..Len(lines'[c]) : CutRight(lines'[c][i], nl'[c], got'[c], err'[c])
  BY DEF ParsedInv, InLine
<1>1. /\ \A p \in 1..sent[c] : (p <= start[c] /\ p \notin nl[c]) <=> InLine(c, p)
      /\ \A i \in 1..Len(lines[c]) : CutRight(lines[c][i], nl[c], got[c], err[c])
  BY DEF ParsedInv
<1>2. /\ start[c] \in Nat /\ got[c] \in Nat /\ sent[c] \in Nat
      /\ start[c] <= got[c] /\ got[c] <= sent[c]
      /\ nl[c] \subseteq 1..sent[c]
      /\ lines[c] \in Seq(Seq(Nat))
  BY DEF SocketTypeOK
<1>3. \A l : CutRight(l, nl[c], got[c], err[c]) => CutRight(l, nl'[c], got'[c], err'[c])
  BY StaysCut
<1>4. CASE KeepsLines(c)
  <2>1. \A q : InLine(c, q)' <=> InLine(c, q)
    BY <1>4 DEF KeepsLines, InLine
  <2>2. \A i \in 1..Len(lines'[c]) : CutRight(lines'[c][i], nl'[c], got'[c], err'[c])
    BY <1>1, <1>3, <1>4 DEF KeepsLines
  <2>3. CASE sent'[c] = sent[c] /\ nl'[c] = nl[c]
    BY <1>1, <1>4, <2>1, <2>2, <2>3 DEF KeepsLines
  <2>4. CASE sent'[c] = sent[c] + 1 /\ (nl'[c] = nl[c] \/ nl'[c] = nl[c] \cup {sent[c] + 1})
    <3>1. ~InLine(c, sent[c] + 1)
      <4>. SUFFICES ASSUME NEW i \in 1..Len(lines[c]), NEW j \in 1..Len(lines[c][i]),
                           lines[c][i][j] = sent[c] + 1
                    PROVE  FALSE
        BY DEF InLine
      <4>1. sent[c] + 1 \in 1..start[c]
        BY DEF LinesInv
      <4>. QED  BY <1>2, <4>1
    <3>2. \A q \in 1..sent'[c] : q \in 1..sent[c] \/ q = sent[c] + 1
      BY <1>2, <2>4
    <3>3. \A q \in 1..sent[c] : q \in nl'[c] <=> q \in nl[c]
      BY <1>2, <2>4
    <3>4. ~(sent[c] + 1 <= start'[c]) /\ start'[c] = start[c]
      BY <1>2, <1>4 DEF KeepsLines
    <3>. QED  BY <1>1, <2>1, <2>2, <3>1, <3>2, <3>3, <3>4
  <2>. QED  BY <2>3, <2>4, QuietSteps
<1>5. CASE SkipsNewline(c)
  <2>1. \A q : InLine(c, q)' <=> InLine(c, q)
    BY <1>5 DEF SkipsNewline, InLine
  <2>2. \A i \in 1..Len(lines'[c]) : CutRight(lines'[c][i], nl'[c], got'[c], err'[c])
    BY <1>1, <1>3, <1>5 DEF SkipsNewline
  <2>3. /\ sent' = sent /\ nl' = nl /\ start'[c] = start[c] + 1 /\ start[c] + 1 \in nl[c]
    BY <1>5 DEF SkipsNewline
  <2>4. \A q \in 1..sent[c] :
          (q <= start[c] + 1 /\ q \notin nl[c]) <=> (q <= start[c] /\ q \notin nl[c])
    BY <1>2, <2>3
  <2>. QED  BY <1>1, <2>1, <2>2, <2>3, <2>4
<1>6. ASSUME NEW p \in Nat, TakesLine(c, p)
      PROVE  /\ \A q \in 1..sent'[c] : (q <= start'[c] /\ q \notin nl'[c]) <=> InLine(c, q)'
             /\ \A i \in 1..Len(lines'[c]) : CutRight(lines'[c][i], nl'[c], got'[c], err'[c])
  <2>. DEFINE l == Run(start[c], p)
  <2>1. /\ sent' = sent /\ nl' = nl /\ got' = got /\ err' = err
        /\ start[c] < p /\ p <= got[c]
        /\ \A q \in nl[c] : start[c] < q => p < q
        /\ lines'[c] = Append(lines[c], l)
        /\ \/ start'[c] = p + 1 /\ p + 1 \in nl[c]
           \/ start'[c] = p /\ p = got[c] /\ err[c] \in {"eof", "broken"}
    BY <1>6 DEF TakesLine
  <2>2. l \in Seq(Nat) /\ l[Len(l)] = p
    BY <1>6, LineTaken
  <2>. HIDE DEF l
  <2>3. CutRight(l, nl'[c], got'[c], err'[c])
    BY <2>1, <2>2 DEF CutRight
  <2>4. \A i \in 1..Len(lines'[c]) : CutRight(lines'[c][i], nl'[c], got'[c], err'[c])
    <3>1. \A i \in 1..Len(lines'[c]) :
            \/ i \in 1..Len(lines[c]) /\ lines'[c][i] = lines[c][i]
            \/ lines'[c][i] = l
      BY <1>2, <2>1, <2>2, AppendLine
    <3>. QED  BY <1>1, <1>3, <2>3, <3>1
  <2>5. \A q \in 1..sent[c] :
          (q <= start'[c] /\ q \notin nl[c]) <=>
            ((q <= start[c] /\ q \notin nl[c]) \/ (start[c] < q /\ q <= p))
    BY <1>2, <2>1
  <2>6. \A q \in 1..sent[c] : InLine(c, q)' <=> (InLine(c, q) \/ (start[c] < q /\ q <= p))
    BY <1>6, InLineTaken
  <2>. QED  BY <1>1, <2>1, <2>4, <2>5, <2>6
<1>. QED  BY <1>4, <1>5, <1>6, ScanSteps

-----------------------------------------------------------------------------
(* The theorems.                                                           *)

SocketInv ==
  /\ SocketTypeOK
  /\ ListenInv
  /\ ReceivedInv
  /\ LinesInv
  /\ EndInv
  /\ ParsedInv

\* The invariant, before ListenSocket begins.
LEMMA InitSocketInv == SocketInit => SocketInv
<1>. SUFFICES ASSUME SocketInit PROVE SocketInv
  OBVIOUS
<1>1. SocketTypeOK
  BY InitSocketType
<1>2. ListenInv
  BY SocketAssumption DEF SocketInit, ListenInv
<1>3. /\ \A c \in Conns : /\ lines[c] = <<>> /\ received[c] = <<>> /\ sent[c] = 0
                        /\ hpc[c] = "none"
      /\ posts = {}
  BY DEF SocketInit
<1>8. \A c \in Conns : 1..Len(lines[c]) = {} /\ 1..Len(received[c]) = {} /\ 1..sent[c] = {}
  <2>1. Len(<<>>) = 0 /\ 1..0 = {}
    OBVIOUS
  <2>. QED  BY <1>3, <2>1
<1>4. ReceivedInv
  BY <1>3, <1>8 DEF ReceivedInv, Distinct, Fresh
<1>5. LinesInv
  BY <1>3 DEF LinesInv
<1>6. EndInv
  BY DEF SocketInit, EndInv
<1>7. ParsedInv
  BY <1>3, <1>8 DEF ParsedInv, InLine
<1>. QED  BY <1>1, <1>2, <1>4, <1>5, <1>6, <1>7 DEF SocketInv

\* The invariant is inductive.
LEMMA NextSocketInv == SocketInv /\ [SocketNext]_socketVars => SocketInv'
BY NextSocketType, NextListenInv, NextReceivedInv, NextLinesInv, NextEndInv, NextParsedInv
   DEF SocketInv

\* The invariant holds in every state of ListenSocket and its senders.
LEMMA SocketInvariance == SocketSpec => []SocketInv
BY InitSocketInv, NextSocketInv, PTL DEF SocketSpec

(***************************************************************************)
(* The variables of ListenSocket, its connections and Emit have their      *)
(* types, and the scanner's buffer never holds more than it has room for.  *)
(***************************************************************************)
THEOREM SocketTypeCorrect == SocketSpec => []SocketTypeOK
<1>1. SocketInv => SocketTypeOK
  BY DEF SocketInv
<1>. QED  BY <1>1, SocketInvariance, PTL

\* SocketInv has what EveryLineParsed says.
LEMMA ParsedEveryLine == SocketInv => EveryLineParsed
<1>. SUFFICES ASSUME SocketInv, NEW c \in Conns
              PROVE  /\ \A p \in 1..sent[c] :
                          (p <= start[c] /\ p \notin nl[c]) <=>
                            \E i \in 1..Len(lines[c]) :
                              \E j \in 1..Len(lines[c][i]) : lines[c][i][j] = p
                     /\ \A i \in 1..Len(lines[c]) :
                          LET last == lines[c][i][Len(lines[c][i])]
                          IN  last + 1 \in nl[c] \/ (last = got[c] /\ err[c] \in {"eof", "broken"})
                     /\ (hpc[c] = "done" /\ err[c] = "eof") => start[c] = sent[c]
                     /\ (hpc[c] = "done" /\ err[c] = "broken") => start[c] = got[c]
  BY DEF EveryLineParsed
<1>1. ParsedInv /\ EndInv
  BY DEF SocketInv
<1>2. \A p \in 1..sent[c] : (p <= start[c] /\ p \notin nl[c]) <=> InLine(c, p)
  BY <1>1 DEF ParsedInv
<1>3. \A i \in 1..Len(lines[c]) : CutRight(lines[c][i], nl[c], got[c], err[c])
  BY <1>1 DEF ParsedInv
<1>4. /\ (hpc[c] = "done" /\ err[c] = "eof") => start[c] = sent[c]
      /\ (hpc[c] = "done" /\ err[c] = "broken") => start[c] = got[c]
  BY <1>1 DEF EndInv
<1>. QED  BY <1>2, <1>3, <1>4 DEF InLine, CutRight

(***************************************************************************)
(* However reads cut the bytes of a connection, handleSocketConn parses    *)
(* its lines and nothing else, and all of them when the sender hung up.    *)
(***************************************************************************)
THEOREM EveryLineIsParsed == SocketSpec => []EveryLineParsed
BY ParsedEveryLine, SocketInvariance, PTL

(***************************************************************************)
(* A POST that timed out may arrive late, or never, but Emit makes each    *)
(* but once: the receiver has no event twice.                              *)
(***************************************************************************)
THEOREM OncePerEvent == SocketSpec => []ReceivedOnce
<1>1. SocketInv => ReceivedOnce
  BY DEF SocketInv, ReceivedInv, Distinct, ReceivedOnce
<1>. QED  BY <1>1, SocketInvariance, PTL

(***************************************************************************)
(* Every connection of ListenSocket refines LineFeed: what is parsed was   *)
(* sent, in order and once, and nothing is after ListenSocket returned.    *)
(***************************************************************************)
THEOREM LineFeedsRefined == SocketSpec => ImplementsLineFeeds
<1>1. SocketInit => \A c \in Conns : Feed(c)!FeedInit
  BY SocketAssumption DEF SocketInit, Feed!FeedInit
<1>2. SocketInv /\ [SocketNext]_socketVars =>
        [\A c \in Conns : [Feed(c)!FeedNext]_(Feed(c)!feedVars)]_socketVars
  BY NextFeed DEF SocketInv
<1>. QED  BY <1>1, <1>2, SocketInvariance, PTL DEF SocketSpec, ImplementsLineFeeds

(***************************************************************************)
(* Each ListenSocket is a Runner, as far as safety goes: it returns once,  *)
(* nil only when ctx is done, and an error only when it could not listen.  *)
(***************************************************************************)
THEOREM ListenerIsRunner == SocketSpec => ImplementsRunner
<1>1. SocketInit => \A s \in Sockets : Listener(s)!RunnerInit
  BY DEF SocketInit, Listener!RunnerInit
<1>2. SocketInv /\ [SocketNext]_socketVars =>
        [\A s \in Sockets : [Listener(s)!RunnerNext]_(Listener(s)!runnerVars)]_socketVars
  BY NextRunner DEF SocketInv
<1>. QED
  BY <1>1, <1>2, SocketInvariance, PTL DEF SocketSpec, ImplementsRunner
=============================================================================
