------------------------------- MODULE Relay --------------------------------
(***************************************************************************)
(* The process: main (src/cmd/ssf-relay/main.go) with Manager.Run          *)
(* (src/relay/manager.go), whose sources are sockets, those of             *)
(* SocketListener, or files; of the sources that tail files, and of the    *)
(* subscriber, only the end is modelled.                                   *)
(***************************************************************************)
EXTENDS SocketListener

CONSTANTS Transports  \* Transports[i]: "file" or "socket", of the i-th source

ASSUME RelayAssumption ==
  /\ Transports \in Seq({"file", "socket"})
  /\ Sockets = {i \in 1..Len(Transports) : Transports[i] = "socket"}

VARIABLES
  boot,    \* main before the two halves: "load", "key", "adapters", then "run"
  mgr,     \* Manager.Run: "off", "build", "wait" or "returned"
  built,   \* sources built and started so far
  src,     \* src[i]: "none", "running", "sending" its error, "ended" or "failed"
  errs,    \* number of errors in Manager.Run's channel
  sub,     \* Subscriber.Run: "off", "running" or "returned"
  errCh,   \* main's channel: what the two have returned, "nil" or "error"
  nils,    \* values main has received
  exit     \* "none", "success" (code 0), "failure" (code 1) or "killed"

mainVars  == <<boot, mgr, built, src, errs, sub, errCh, nils, exit>>
relayVars == <<socketVars, mainVars>>

Sources == 1..Len(Transports)

RelayInit ==
  /\ SocketInit
  /\ boot = "load"
  /\ mgr = "off" /\ built = 0
  /\ src = [i \in Sources |-> "none"]
  /\ errs = 0
  /\ sub = "off"
  /\ errCh = <<>> /\ nils = 0
  /\ exit = "none"

-----------------------------------------------------------------------------
(* The start of main.                                                      *)

\* The configuration is loaded, and ctx made to end with a signal.
LoadConfig ==
  /\ boot = "load"
  /\ boot' = "key"
  /\ UNCHANGED <<socketVars, mgr, built, src, errs, sub, errCh, nils, exit>>

\* The signing key is resolved and loaded, if there is one.
LoadKey ==
  /\ boot = "key"
  /\ boot' = "adapters"
  /\ UNCHANGED <<socketVars, mgr, built, src, errs, sub, errCh, nils, exit>>

\* The adapters are built; Manager.Run and Subscriber.Run start.
BuildAdapters ==
  /\ boot = "adapters"
  /\ boot' = "run"
  /\ mgr' = "build" /\ sub' = "running"
  /\ UNCHANGED <<socketVars, built, src, errs, errCh, nils, exit>>

\* One of the three fails: exit code 1.
BootFails ==
  /\ boot # "run"
  /\ exit' = "failure"
  /\ UNCHANGED <<socketVars, boot, mgr, built, src, errs, sub, errCh, nils>>

-----------------------------------------------------------------------------
(* Manager.Run.                                                            *)

\* Mutant of ErrsCap: the channel has no buffer.
NoErrsCap == 0

\* The capacity of errs.
ErrsCap == Len(Transports)

\* The next source is built and its goroutine started.
StartSource ==
  /\ mgr = "build" /\ built < Len(Transports)
  /\ built' = built + 1
  /\ src' = [src EXCEPT ![built + 1] = "running"]
  /\ IF Transports[built + 1] = "socket"
       THEN StartListen(built + 1)
       ELSE UNCHANGED socketVars
  /\ UNCHANGED <<boot, mgr, errs, sub, errCh, nils, exit>>

\* The next source cannot be built: Run returns at once.
BuildFails ==
  /\ mgr = "build" /\ built < Len(Transports)
  /\ mgr' = "returned"
  /\ errCh' = Append(errCh, "error")
  /\ UNCHANGED <<socketVars, boot, built, src, errs, sub, nils, exit>>

AllStarted ==
  /\ mgr = "build" /\ built = Len(Transports)
  /\ mgr' = "wait"
  /\ UNCHANGED <<socketVars, boot, built, src, errs, sub, errCh, nils, exit>>

\* Tail returns: nil or ctx.Err() when cancelled, the error of the seek
\* whenever.
FileEnds(i) ==
  /\ src[i] = "running" /\ Transports[i] = "file"
  /\ src' \in {[src EXCEPT ![i] = "sending"]}
              \cup (IF cancelled THEN {[src EXCEPT ![i] = "ended"]} ELSE {})
  /\ UNCHANGED <<socketVars, boot, mgr, built, errs, sub, errCh, nils, exit>>

\* ListenSocket returns.
SocketEnds(i) ==
  /\ src[i] = "running" /\ Transports[i] = "socket"
  /\ lpc[i] \in {"done", "failed"}
  /\ src' = [src EXCEPT ![i] = IF lpc[i] = "failed" THEN "sending" ELSE "ended"]
  /\ UNCHANGED <<socketVars, boot, mgr, built, errs, sub, errCh, nils, exit>>

\* Mutant of SendError: the error goes straight to main's channel.
SendErrorToMain(i) ==
  /\ src[i] = "sending"
  /\ errCh' = Append(errCh, "error")
  /\ src' = [src EXCEPT ![i] = "failed"]
  /\ UNCHANGED <<socketVars, boot, mgr, built, errs, sub, nils, exit>>

\* The goroutine of a source whose transport failed puts the error into errs,
\* if there is room, and ends.
SendError(i) ==
  /\ src[i] = "sending"
  /\ errs < ErrsCap
  /\ errs' = errs + 1
  /\ src' = [src EXCEPT ![i] = "failed"]
  /\ UNCHANGED <<socketVars, boot, mgr, built, sub, errCh, nils, exit>>

\* Mutant of ManagerReturns: the errors are not looked at.
ManagerReturnsNil ==
  /\ mgr = "wait"
  /\ \A i \in Sources : src[i] \in {"ended", "failed"}
  /\ mgr' = "returned"
  /\ errCh' = Append(errCh, "nil")
  /\ UNCHANGED <<socketVars, boot, built, src, errs, sub, nils, exit>>

\* All goroutines have ended: Run returns the first error, if there is one.
ManagerReturns ==
  /\ mgr = "wait"
  /\ \A i \in Sources : src[i] \in {"ended", "failed"}
  /\ mgr' = "returned"
  /\ errCh' = Append(errCh, IF errs > 0 THEN "error" ELSE "nil")
  /\ UNCHANGED <<socketVars, boot, built, src, errs, sub, nils, exit>>

-----------------------------------------------------------------------------
(* main.                                                                   *)

\* Subscriber.Run returns nil, when ctx is cancelled and not before.
SubscriberReturns ==
  /\ sub = "running" /\ cancelled
  /\ sub' = "returned"
  /\ errCh' = Append(errCh, "nil")
  /\ UNCHANGED <<socketVars, boot, mgr, built, src, errs, nils, exit>>

\* Mutant of MainReceives: main ends with the first of the two.
MainReceivesOne ==
  /\ errCh # <<>>
  /\ errCh' = Tail(errCh)
  /\ exit' = IF Head(errCh) = "error" THEN "failure" ELSE "success"
  /\ nils' = nils + 1
  /\ UNCHANGED <<socketVars, boot, mgr, built, src, errs, sub>>

\* main receives what one of the two has returned: an error ends the process,
\* the second nil too.
MainReceives ==
  /\ errCh # <<>>
  /\ errCh' = Tail(errCh)
  /\ IF Head(errCh) = "error"
       THEN exit' = "failure" /\ UNCHANGED nils
       ELSE nils' = nils + 1 /\ exit' = IF nils = 1 THEN "success" ELSE "none"
  /\ UNCHANGED <<socketVars, boot, mgr, built, src, errs, sub>>

\* SIGTERM or SIGINT cancels ctx, once it is there ...
Signal == boot # "load" /\ SocketCancel /\ UNCHANGED mainVars

\* ... and kills the process before.
EarlySignal ==
  /\ boot = "load"
  /\ exit' = "killed"
  /\ UNCHANGED <<socketVars, boot, mgr, built, src, errs, sub, errCh, nils>>

-----------------------------------------------------------------------------
BootStep == LoadConfig \/ LoadKey \/ BuildAdapters

ManagerStep ==
  \/ StartSource \/ BuildFails \/ AllStarted \/ ManagerReturns
  \/ \E i \in Sources : FileEnds(i) \/ SocketEnds(i) \/ SendError(i)

MainStep == SubscriberReturns \/ MainReceives

\* Nothing happens in a process that has exited.
RelayNext ==
  /\ exit = "none"
  /\ \/ BootStep \/ BootFails \/ ManagerStep \/ MainStep \/ Signal \/ EarlySignal
     \/ (ListenStep \/ SocketEnvironment) /\ UNCHANGED mainVars

RelaySpec == RelayInit /\ [][RelayNext]_relayVars

\* A step of the listener or a connection in a process that is alive.
Alive(A) == exit = "none" /\ A /\ UNCHANGED mainVars

\* Accept of socket s returns: a connection, or an error.
CanAccept(s) == (\E c \in backlog : At[c] = s) \/ s \notin listening

(***************************************************************************)
(* Fairness: every goroutine takes its steps, also those that wait for     *)
(* ctx; Accept is not assumed to fail while the listener is open; Tail and *)
(* Subscriber.Run end when they are cancelled, as a Runner does.           *)
(***************************************************************************)
RelayFairness ==
  /\ WF_relayVars(exit = "none" /\ BootStep)
  /\ WF_relayVars(exit = "none" /\ MainReceives)
  /\ WF_relayVars(exit = "none" /\ (StartSource \/ AllStarted \/ ManagerReturns))
  /\ WF_relayVars(exit = "none" /\ SubscriberReturns)
  /\ \A i \in Sources :
       WF_relayVars(/\ exit = "none"
                    /\ (cancelled /\ FileEnds(i)) \/ SocketEnds(i) \/ SendError(i))
  /\ \A s \in Sockets :
       /\ WF_relayVars(Alive(LoopStep(s) /\ (lpc[s] = "accept" => CanAccept(s))))
       /\ WF_relayVars(Alive(ListenerCloses(s)))
  /\ \A c \in Conns :
       /\ WF_relayVars(Alive(OwnStep(c)))
       /\ WF_relayVars(Alive(ConnCloses(c)))

RelayFairSpec == RelaySpec /\ RelayFairness

-----------------------------------------------------------------------------
(* Properties.                                                             *)

\* The types of the variables; two values at most go through main's channel, so
\* that the two that send to it never block.
RelayTypeOK ==
  /\ SocketTypeOK
  /\ boot \in {"load", "key", "adapters", "run"}
  /\ mgr \in {"off", "build", "wait", "returned"}
  /\ built \in 0..Len(Transports)
  /\ src \in [Sources -> {"none", "running", "sending", "ended", "failed"}]
  /\ errs \in 0..Len(Transports)
  /\ sub \in {"off", "running", "returned"}
  /\ errCh \in Seq({"nil", "error"}) /\ Len(errCh) + nils <= 2
  /\ exit \in {"none", "success", "failure", "killed"}

(***************************************************************************)
(* The process exits with 0 only when it was told to end and has finished  *)
(* its work: every source was started and has ended, the subscriber is not *)
(* in the middle of an action, and no connection has a line that was read  *)
(* and not parsed or is waiting for the receiver.                          *)
(***************************************************************************)
CleanExit ==
  exit = "success" =>
    /\ cancelled
    /\ sub = "returned"
    /\ \A i \in Sources : src[i] \in {"ended", "failed"}
    /\ \A c \in Conns : hpc[c] \in {"none", "done"}

\* "a non-nil error from either is fatal": a source that could not be built or
\* whose transport failed makes the process exit with 1, whenever it was.
ErrorIsNotLost ==
  exit = "success" => \A i \in Sources : src[i] \notin {"none", "failed"}

(***************************************************************************)
(* A signal ends the process, although senders keep their connections and  *)
(* go on sending, the receiver hangs and sources have failed before.       *)
(***************************************************************************)
SignalEnds == cancelled ~> (exit # "none")
=============================================================================
