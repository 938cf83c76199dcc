--------------------------- MODULE SocketListener ---------------------------
(***************************************************************************)
(* ListenSocket (src/relay/socket_listener.go), once for every socket that *)
(* is a source, with a goroutine for each connection; and Emitter.Emit     *)
(* (src/relay/emitter.go), which a connection calls for its events one     *)
(* after the other.                                                        *)
(*                                                                         *)
(* As in Tailer, a byte is the serial of its write, here per connection,   *)
(* and nl[c] the set of the serials on connection c that are newlines.     *)
(* The scanner's buffer holds the serials from start[c] + 1 to got[c].     *)
(***************************************************************************)
EXTENDS Integers, Sequences

CONSTANTS Sockets,   \* the sockets listened on
          Conns,     \* connections the senders may make
          At,        \* At[c]: the socket that connection c is made to
          ScanBuf,   \* bytes of the scanner's buffer (socketScanBuf)
          SockBuf,   \* bytes the kernel holds for the relay to read
          TimeoutSecs,  \* ssf.timeout_secs of the configuration, 0 if not there
          MaxSent    \* bound: MaxSent[c] bytes are sent on connection c

ASSUME SocketAssumption ==
  /\ At \in [Conns -> Sockets]
  /\ ScanBuf \in Nat \ {0}
  /\ SockBuf \in Nat \ {0}
  /\ TimeoutSecs \in Int
  /\ MaxSent \in [Conns -> Nat]

VARIABLES
  cancelled,  \* ctx is done
  \* ListenSocket, for each socket.
  lpc,        \* "off", "listen", "accept", "wait", "done" or "failed"
  listening,  \* sockets whose listener is open
  backlog,    \* connections not accepted yet
  \* The senders.
  peer,       \* "away", "open", "closed" or "reset"
  sent,       \* bytes written
  nl,         \* serials that are newlines
  \* handleSocketConn.
  hpc,        \* "none", "scan", "emit" or "done"
  got,        \* bytes read into the scanner's buffer
  start,      \* bytes the scanner is done with
  err,        \* why reading ended: "none", "eof", "broken" or "tooLong"
  shut,       \* connections whose end here is closed
  lines,      \* the lines handed to Source.Parse, in order
  \* Emitter.Emit, for the k-th line of a connection.
  posts,      \* requests <<c, k>> given up that may still reach the receiver
  received    \* received[c]: the lines of c whose events were received

listenVars == <<lpc, listening, backlog>>
peerVars   == <<peer, sent, nl>>
connVars   == <<hpc, got, start, err, shut, lines>>
emitVars   == <<posts, received>>
socketVars == <<cancelled, listenVars, peerVars, connVars, emitVars>>

SocketInit ==
  /\ cancelled = FALSE
  /\ lpc = [s \in Sockets |-> "off"] /\ listening = {} /\ backlog = {}
  /\ peer = [c \in Conns |-> "away"]
  /\ sent = [c \in Conns |-> 0]
  /\ nl = [c \in Conns |-> {}]
  /\ hpc = [c \in Conns |-> "none"]
  /\ got = [c \in Conns |-> 0]
  /\ start = [c \in Conns |-> 0]
  /\ err = [c \in Conns |-> "none"]
  /\ shut = {}
  /\ lines = [c \in Conns |-> <<>>]
  /\ posts = {}
  /\ received = [c \in Conns |-> <<>>]

-----------------------------------------------------------------------------
(* The senders.                                                            *)

Dial(c) ==
  /\ peer[c] = "away" /\ At[c] \in listening
  /\ peer' = [peer EXCEPT ![c] = "open"]
  /\ backlog' = backlog \cup {c}
  /\ UNCHANGED <<cancelled, lpc, listening, sent, nl, connVars, emitVars>>

\* A byte, a newline or not, if the kernel has room for it; else the sender
\* is blocked.
SendByte(c) ==
  /\ peer[c] = "open" /\ c \notin shut
  /\ sent[c] < MaxSent[c]
  /\ sent[c] - got[c] < SockBuf
  /\ sent' = [sent EXCEPT ![c] = @ + 1]
  /\ nl' \in {nl, [nl EXCEPT ![c] = @ \cup {sent[c] + 1}]}
  /\ UNCHANGED <<cancelled, listenVars, peer, connVars, emitVars>>

\* The sender closes its end; what it has sent can still be read.
HangUp(c) ==
  /\ peer[c] = "open"
  /\ peer' = [peer EXCEPT ![c] = "closed"]
  /\ UNCHANGED <<cancelled, listenVars, sent, nl, connVars, emitVars>>

\* The connection breaks.
Break(c) ==
  /\ peer[c] = "open"
  /\ peer' = [peer EXCEPT ![c] = "reset"]
  /\ UNCHANGED <<cancelled, listenVars, sent, nl, connVars, emitVars>>

Senders == \E c \in Conns : Dial(c) \/ SendByte(c) \/ HangUp(c) \/ Break(c)

-----------------------------------------------------------------------------
(* ListenSocket.                                                           *)

\* A stale socket file is removed; net.Listen succeeds ...
Listen(s) ==
  /\ lpc[s] = "listen"
  /\ lpc' = [lpc EXCEPT ![s] = "accept"]
  /\ listening' = listening \cup {s}
  /\ UNCHANGED <<cancelled, backlog, peerVars, connVars, emitVars>>

\* ... or fails.
ListenFails(s) ==
  /\ lpc[s] = "listen"
  /\ lpc' = [lpc EXCEPT ![s] = "failed"]
  /\ UNCHANGED <<cancelled, listening, backlog, peerVars, connVars, emitVars>>

\* The goroutine that waits for ctx closes the listener; connections in its
\* backlog are refused.
ListenerCloses(s) ==
  /\ cancelled /\ s \in listening
  /\ listening' = listening \ {s}
  /\ backlog' = {c \in backlog : At[c] # s}
  /\ shut' = shut \cup {c \in backlog : At[c] = s}
  /\ UNCHANGED <<cancelled, lpc, peerVars, hpc, got, start, err, lines, emitVars>>

\* Mutant of Accept: the connection is handled by the accept loop itself.
AcceptAlone(c) ==
  /\ lpc[At[c]] = "accept" /\ c \in backlog
  /\ \A d \in Conns : At[d] = At[c] => hpc[d] \in {"none", "done"}
  /\ backlog' = backlog \ {c}
  /\ hpc' = [hpc EXCEPT ![c] = "scan"]
  /\ UNCHANGED <<cancelled, lpc, listening, peerVars, got, start, err, shut, lines, emitVars>>

\* A connection is accepted, also after the cancellation as long as the
\* listener is open; a goroutine handles it.
Accept(c) ==
  /\ lpc[At[c]] = "accept" /\ c \in backlog
  /\ backlog' = backlog \ {c}
  /\ hpc' = [hpc EXCEPT ![c] = "scan"]
  /\ UNCHANGED <<cancelled, lpc, listening, peerVars, got, start, err, shut, lines, emitVars>>

\* Mutant of AcceptEnds: any error of Accept ends the loop.
AcceptErrorEnds(s) ==
  /\ lpc[s] = "accept"
  /\ lpc' = [lpc EXCEPT ![s] = "wait"]
  /\ UNCHANGED <<cancelled, listening, backlog, peerVars, connVars, emitVars>>

\* Accept fails, because the listener is closed or for another reason, and ctx
\* is done; without that the loop goes on.
AcceptEnds(s) ==
  /\ lpc[s] = "accept" /\ cancelled
  /\ lpc' = [lpc EXCEPT ![s] = "wait"]
  /\ UNCHANGED <<cancelled, listening, backlog, peerVars, connVars, emitVars>>

\* Mutant of Return: the connections' goroutines are not waited for.
ReturnAtOnce(s) ==
  /\ lpc[s] = "wait"
  /\ lpc' = [lpc EXCEPT ![s] = "done"]
  /\ UNCHANGED <<cancelled, listening, backlog, peerVars, connVars, emitVars>>

\* All its connections' goroutines have ended (wg.Wait).
Return(s) ==
  /\ lpc[s] = "wait"
  /\ \A c \in Conns : At[c] = s => hpc[c] \in {"none", "done"}
  /\ lpc' = [lpc EXCEPT ![s] = "done"]
  /\ UNCHANGED <<cancelled, listening, backlog, peerVars, connVars, emitVars>>

-----------------------------------------------------------------------------
(* handleSocketConn.                                                       *)

\* The goroutine that waits for ctx closes the connection.
ConnCloses(c) ==
  /\ cancelled /\ hpc[c] \in {"scan", "emit"} /\ c \notin shut
  /\ shut' = shut \cup {c}
  /\ UNCHANGED <<cancelled, listenVars, peerVars, hpc, got, start, err, lines, emitVars>>

\* The newlines in the scanner's buffer.
Buffered(c) == {p \in nl[c] : start[c] < p /\ p <= got[c]}

\* Scan has no line to return and the buffer has room: it reads.
Reading(c) ==
  /\ hpc[c] = "scan" /\ err[c] = "none"
  /\ Buffered(c) = {}
  /\ got[c] - start[c] < ScanBuf

\* Mutant of Read: what the buffer still holds is not counted.
ReadTooMuch(c) ==
  /\ Reading(c) /\ c \notin shut
  /\ \E k \in 1..ScanBuf :
       /\ got[c] + k <= sent[c]
       /\ got' = [got EXCEPT ![c] = @ + k]
  /\ UNCHANGED <<cancelled, listenVars, peerVars, hpc, start, err, shut, lines, emitVars>>

\* Some bytes, as many as there are room for and have been sent at most.
Read(c) ==
  /\ Reading(c) /\ c \notin shut
  /\ \E k \in 1..(ScanBuf - (got[c] - start[c])) :
       /\ got[c] + k <= sent[c]
       /\ got' = [got EXCEPT ![c] = @ + k]
  /\ UNCHANGED <<cancelled, listenVars, peerVars, hpc, start, err, shut, lines, emitVars>>

\* The end of what the sender sent, or of the connection.
ReadEnds(c) ==
  /\ Reading(c)
  /\ \/ /\ c \notin shut /\ peer[c] = "closed" /\ got[c] = sent[c]
        /\ err' = [err EXCEPT ![c] = "eof"]
     \/ /\ c \in shut \/ peer[c] = "reset"
        /\ err' = [err EXCEPT ![c] = "broken"]
  /\ UNCHANGED <<cancelled, listenVars, peerVars, hpc, got, start, shut, lines, emitVars>>

\* The buffer is full without a newline: bufio.ErrTooLong.
TooLong(c) ==
  /\ hpc[c] = "scan" /\ err[c] = "none"
  /\ Buffered(c) = {}
  /\ got[c] - start[c] = ScanBuf
  /\ err' = [err EXCEPT ![c] = "tooLong"]
  /\ UNCHANGED <<cancelled, listenVars, peerVars, hpc, got, start, shut, lines, emitVars>>

\* The bytes from start[c] + 1 up to p are a line for Parse; an event, if it
\* is one, is emitted.
ParseUpTo(c, p) ==
  /\ lines' = [lines EXCEPT ![c] = Append(@, [i \in 1..(p - start[c]) |-> start[c] + i])]
  /\ \E isEvent \in BOOLEAN :
       hpc' = [hpc EXCEPT ![c] = IF isEvent THEN "emit" ELSE "scan"]

\* Scan returns the first line in its buffer, whether or not reading has ended.
ScanLine(c) ==
  /\ hpc[c] = "scan"
  /\ \E p \in Buffered(c) :
       /\ \A q \in Buffered(c) : p <= q
       /\ start' = [start EXCEPT ![c] = p]
       /\ IF p = start[c] + 1 THEN UNCHANGED <<lines, hpc>>
                              ELSE ParseUpTo(c, p - 1)
  /\ UNCHANGED <<cancelled, listenVars, peerVars, got, err, shut, emitVars>>

\* Mutant of ScanRest: the rest is taken for a line before reading has ended.
ScanRestEarly(c) ==
  /\ hpc[c] = "scan" /\ err[c] # "tooLong"
  /\ Buffered(c) = {} /\ start[c] < got[c]
  /\ start' = [start EXCEPT ![c] = got[c]]
  /\ ParseUpTo(c, got[c])
  /\ UNCHANGED <<cancelled, listenVars, peerVars, got, err, shut, emitVars>>

\* Reading has ended: the rest of the buffer is the last line.
ScanRest(c) ==
  /\ hpc[c] = "scan" /\ err[c] \in {"eof", "broken"}
  /\ Buffered(c) = {} /\ start[c] < got[c]
  /\ start' = [start EXCEPT ![c] = got[c]]
  /\ ParseUpTo(c, got[c])
  /\ UNCHANGED <<cancelled, listenVars, peerVars, got, err, shut, emitVars>>

\* Scan returns FALSE: the connection is closed and its goroutine ends.
ScanEnds(c) ==
  /\ hpc[c] = "scan"
  /\ \/ err[c] = "tooLong"
     \/ err[c] \in {"eof", "broken"} /\ start[c] = got[c]
  /\ hpc' = [hpc EXCEPT ![c] = "done"]
  /\ shut' = shut \cup {c}
  /\ UNCHANGED <<cancelled, listenVars, peerVars, got, start, err, lines, emitVars>>

-----------------------------------------------------------------------------
(* Emitter.Emit, of the event of the line parsed last.                     *)

\* Mutant of ClientTimeout: no default, and http.Client takes 0 for no timeout.
NoDefaultTimeout == TimeoutSecs

\* The timeout of the emitter's http.Client, in seconds.
ClientTimeout == IF TimeoutSecs <= 0 THEN 5 ELSE TimeoutSecs

\* The receiver has the event and its answer arrives.
Emitted(c) ==
  /\ hpc[c] = "emit"
  /\ hpc' = [hpc EXCEPT ![c] = "scan"]
  /\ received' = [received EXCEPT ![c] = Append(@, Len(lines[c]))]
  /\ UNCHANGED <<cancelled, listenVars, peerVars, got, start, err, shut, lines, posts>>

\* The connection or the receiver refuses it: logged, and dropped.
EmitFails(c) ==
  /\ hpc[c] = "emit"
  /\ hpc' = [hpc EXCEPT ![c] = "scan"]
  /\ UNCHANGED <<cancelled, listenVars, peerVars, got, start, err, shut, lines, emitVars>>

\* Mutant of EmitTimesOut: the request is made once more.
EmitRetries(c) ==
  /\ hpc[c] = "emit" /\ ClientTimeout > 0
  /\ posts' = posts \cup {<<c, Len(lines[c])>>}
  /\ UNCHANGED <<cancelled, listenVars, peerVars, connVars, received>>

\* The client's timeout ends the wait (ctx does not); the request may have been
\* received, or be still.
EmitTimesOut(c) ==
  /\ hpc[c] = "emit" /\ ClientTimeout > 0
  /\ hpc' = [hpc EXCEPT ![c] = "scan"]
  /\ posts' = posts \cup {<<c, Len(lines[c])>>}
  /\ UNCHANGED <<cancelled, listenVars, peerVars, got, start, err, shut, lines, received>>

\* A request given up was received after all, sooner or later or never.
PostArrives ==
  /\ \E post \in posts :
       /\ posts' = posts \ {post}
       /\ received' = [received EXCEPT ![post[1]] = Append(@, post[2])]
  /\ UNCHANGED <<cancelled, listenVars, peerVars, connVars>>

-----------------------------------------------------------------------------
\* The manager's goroutine for the source calls ListenSocket.
StartListen(s) ==
  /\ lpc[s] = "off"
  /\ lpc' = [lpc EXCEPT ![s] = "listen"]
  /\ UNCHANGED <<cancelled, listening, backlog, peerVars, connVars, emitVars>>

\* ctx is cancelled.
SocketCancel ==
  /\ ~cancelled
  /\ cancelled' = TRUE
  /\ UNCHANGED <<listenVars, peerVars, connVars, emitVars>>

\* The steps of a connection's goroutine that wait for nobody but the sender.
OwnStep(c) ==
  \/ Read(c) \/ ReadEnds(c) \/ TooLong(c)
  \/ ScanLine(c) \/ ScanRest(c) \/ ScanEnds(c)
  \/ EmitTimesOut(c)

\* Those, and the receiver's answers.
HandlerStep(c) == OwnStep(c) \/ Emitted(c) \/ EmitFails(c)

\* A connection of socket s is accepted.
AcceptAny(s) == \E c \in Conns : At[c] = s /\ Accept(c)

\* The steps of ListenSocket itself.
LoopStep(s) == Listen(s) \/ ListenFails(s) \/ AcceptAny(s) \/ AcceptEnds(s) \/ Return(s)

ListenStep ==
  \/ \E s \in Sockets : LoopStep(s) \/ ListenerCloses(s)
  \/ \E c \in Conns : HandlerStep(c) \/ ConnCloses(c)

SocketEnvironment == Senders \/ PostArrives

SocketNext ==
  \/ \E s \in Sockets : StartListen(s)
  \/ SocketCancel \/ ListenStep \/ SocketEnvironment

SocketSpec == SocketInit /\ [][SocketNext]_socketVars

(***************************************************************************)
(* Fairness: each accept loop accepts what is there, and each connection's *)
(* goroutine takes its steps.  What can be read is read; a POST ends when  *)
(* the client's timeout fires.  Nothing is assumed of the senders or of    *)
(* the receiver, which may never answer.                                   *)
(***************************************************************************)
SocketFairSpec ==
  /\ SocketSpec
  /\ \A s \in Sockets : WF_socketVars(AcceptAny(s))
  /\ \A c \in Conns : WF_socketVars(OwnStep(c))

-----------------------------------------------------------------------------
(* Properties.                                                             *)

SocketTypeOK ==
  /\ cancelled \in BOOLEAN /\ listening \subseteq Sockets
  /\ lpc \in [Sockets -> {"off", "listen", "accept", "wait", "done", "failed"}]
  /\ backlog \subseteq Conns /\ shut \subseteq Conns
  /\ peer \in [Conns -> {"away", "open", "closed", "reset"}]
  /\ hpc \in [Conns -> {"none", "scan", "emit", "done"}]
  /\ err \in [Conns -> {"none", "eof", "broken", "tooLong"}]
  /\ sent \in [Conns -> Nat] /\ got \in [Conns -> Nat] /\ start \in [Conns -> Nat]
  /\ nl \in [Conns -> SUBSET Nat]
  /\ \A c \in Conns :
       /\ start[c] <= got[c] /\ got[c] <= sent[c] /\ sent[c] <= MaxSent[c]
       /\ got[c] - start[c] <= ScanBuf
       /\ nl[c] \subseteq 1..sent[c]
  /\ lines \in [Conns -> Seq(Seq(Nat))]
  /\ posts \subseteq Conns \X Nat
  /\ received \in [Conns -> Seq(Nat)]

(***************************************************************************)
(* Each connection is a line feed: its bytes reach Parse at most once and  *)
(* in the order sent, and none does after its ListenSocket has returned,   *)
(* also of the lines that were buffered when ctx was cancelled.            *)
(***************************************************************************)
Feed(c) == INSTANCE LineFeed WITH written <- sent[c], delivered <- lines[c], start <- 0,
                                  closed <- (lpc[At[c]] = "done"), Rewinds <- FALSE

ImplementsLineFeeds ==
  /\ \A c \in Conns : Feed(c)!FeedInit
  /\ [][\A c \in Conns : [Feed(c)!FeedNext]_(Feed(c)!feedVars)]_socketVars

(***************************************************************************)
(* ListenSocket fails when it cannot listen, and returns otherwise only    *)
(* when ctx is cancelled, whatever goes wrong with Accept.                 *)
(***************************************************************************)
Listener(s) == INSTANCE Runner WITH EarlyErrors <- TRUE,
                 outcome <- CASE lpc[s] = "done"   -> "nil"
                              [] lpc[s] = "failed" -> "error"
                              [] OTHER             -> "running"

ImplementsRunner ==
  /\ \A s \in Sockets : Listener(s)!RunnerInit
  /\ [][\A s \in Sockets : [Listener(s)!RunnerNext]_(Listener(s)!runnerVars)]_socketVars

(***************************************************************************)
(* However the bytes of a connection arrive, what the scanner is done with *)
(* is lines, cut at the newlines and nowhere else (but for the rest at the *)
(* end of a connection).  Nothing is lost of what a sender sent before it  *)
(* hung up, if no line was too long, and nothing that was read if the      *)
(* connection was broken or closed by the relay.                           *)
(***************************************************************************)
EveryLineParsed ==
  \A c \in Conns :
    /\ \A p \in 1..sent[c] :
         (p <= start[c] /\ p \notin nl[c]) <=>
           \E i \in 1..Len(lines[c]) : \E j \in 1..Len(lines[c][i]) : lines[c][i][j] = p
    /\ \A i \in 1..Len(lines[c]) :
         LET last == lines[c][i][Len(lines[c][i])]
         IN  last + 1 \in nl[c] \/ (last = got[c] /\ err[c] \in {"eof", "broken"})
    /\ (hpc[c] = "done" /\ err[c] = "eof") => start[c] = sent[c]
    /\ (hpc[c] = "done" /\ err[c] = "broken") => start[c] = got[c]

\* Emit makes no request twice, and the client repeats none that timed out: the
\* receiver gets an event at most once, and none that was not logged.
ReceivedOnce ==
  \A c \in Conns :
    /\ \A j, k \in 1..Len(received[c]) : received[c][j] = received[c][k] => j = k
    /\ \A j \in 1..Len(received[c]) : received[c][j] \in 1..Len(lines[c])

(***************************************************************************)
(* Every connection is read to its end once its sender has hung up,        *)
(* whatever the other senders and the receiver do; unless the relay is     *)
(* ending.  (A sender that has hung up never comes back, so that "again    *)
(* and again all are read" says it of each.)                               *)
(***************************************************************************)
HungUpIsRead ==
  []<>(cancelled \/ \A c \in Conns : peer[c] = "closed" => hpc[c] = "done")
=============================================================================
