----------------------------- MODULE RelayProofs -----------------------------
(***************************************************************************)
(* Theorems about the process, for any list of sources, any number of them *)
(* sockets: types, what exit code 0 means and that no error of a source is *)
(* lost, and that what is proved of the socket listeners holds of those of *)
(* the process.                                                            *)
(***************************************************************************)
EXTENDS Relay, SocketListenerProofs

-----------------------------------------------------------------------------
(* The listener in the process.                                            *)

\* The socket of a source that is started is one of those of SocketListener.
LEMMA StartedSocket ==
  ASSUME StartSource, Transports[built + 1] = "socket", built \in Nat
  PROVE  built + 1 \in Sockets /\ StartListen(built + 1)
BY RelayAssumption DEF StartSource

\* A step of the process is one of its socket sources, or none.
LEMMA RelaySocketNext == built \in Nat /\ RelayNext => [SocketNext]_socketVars
BY StartedSocket DEF RelayNext, BootStep, LoadConfig, LoadKey, BuildAdapters, BootFails, ManagerStep,
       StartSource, BuildFails, AllStarted, ManagerReturns, FileEnds, SocketEnds, SendError,
       MainStep, SubscriberReturns, MainReceives, Signal, EarlySignal, SocketNext

\* No listener, connection or sender cancels ctx.
LEMMA ListenersCancelNothing ==
  ASSUME ListenStep \/ SocketEnvironment
  PROVE  cancelled' = cancelled
BY DEF ListenStep, LoopStep, AcceptAny, HandlerStep, OwnStep, SocketEnvironment, Senders,
       Dial, SendByte, HangUp, Break, Listen, ListenFails, Accept, AcceptEnds, Return,
       ListenerCloses, ConnCloses, Read, ReadEnds, TooLong, ScanLine, ScanRest, ScanEnds,
       EmitTimesOut, Emitted, EmitFails, PostArrives, listenVars, peerVars, connVars, emitVars

\* A listener starts only with its source, and ends for good.
LEMMA ListenerAlone ==
  ASSUME SocketTypeOK, ListenStep \/ SocketEnvironment, NEW s \in Sockets
  PROVE  /\ lpc[s] = "off" => lpc'[s] = "off"
         /\ lpc[s] \in {"done", "failed"} => lpc'[s] = lpc[s]
<1>. USE DEF listenVars, peerVars, connVars, emitVars
<1>1. ASSUME NEW z \in Sockets,
             Listen(z) \/ ListenFails(z) \/ AcceptEnds(z) \/ Return(z)
      PROVE  /\ lpc[s] = "off" => lpc'[s] = "off"
             /\ lpc[s] \in {"done", "failed"} => lpc'[s] = lpc[s]
  BY <1>1 DEF Listen, ListenFails, AcceptEnds, Return, SocketTypeOK
<1>. QED
  BY <1>1
     DEF ListenStep, LoopStep, AcceptAny, HandlerStep, OwnStep, SocketEnvironment, Senders,
         Dial, SendByte, HangUp, Break, Accept, ListenerCloses, ConnCloses, Read, ReadEnds,
         TooLong, ScanLine, ScanRest, ScanEnds, EmitTimesOut, Emitted, EmitFails, PostArrives

-----------------------------------------------------------------------------
(* Types.                                                                  *)

\* The types of the variables of main and the manager.
MainTypeOK ==
  /\ boot \in {"load", "key", "adapters", "run"}
  /\ mgr \in {"off", "build", "wait", "returned"}
  /\ built \in 0..Len(Transports)
  /\ src \in [Sources -> {"none", "running", "sending", "ended", "failed"}]
  /\ errs \in 0..Len(Transports)
  /\ sub \in {"off", "running", "returned"}
  /\ errCh \in Seq({"nil", "error"})
  /\ nils \in Nat
  /\ exit \in {"none", "success", "failure", "killed"}

\* A source's transport is a file or a socket.
LEMMA TransportsType == Len(Transports) \in Nat /\ \A i \in Sources : Transports[i] \in {"file", "socket"}
BY RelayAssumption DEF Sources

\* Every step keeps the types of main and the manager.
LEMMA NextMainType == MainTypeOK /\ [RelayNext]_relayVars => MainTypeOK'
<1>. SUFFICES ASSUME MainTypeOK, [RelayNext]_relayVars PROVE MainTypeOK'
  OBVIOUS
<1>. USE DEF MainTypeOK
<1>0. Len(Transports) \in Nat
  BY TransportsType
<1>1. CASE BootStep \/ BootFails
  BY <1>1 DEF BootStep, LoadConfig, LoadKey, BuildAdapters, BootFails
<1>2. CASE StartSource
  <2>1. built + 1 \in 0..Len(Transports) /\ built' = built + 1
    BY <1>0, <1>2 DEF StartSource
  <2>2. src' \in [Sources -> {"none", "running", "sending", "ended", "failed"}]
    BY <1>2 DEF StartSource
  <2>3. UNCHANGED <<boot, mgr, errs, sub, errCh, nils, exit>>
    BY <1>2 DEF StartSource
  <2>. QED  BY <2>1, <2>2, <2>3
<1>3. CASE BuildFails \/ AllStarted \/ ManagerReturns \/ SubscriberReturns
  <2>1. errCh' = errCh \/ \E v \in {"nil", "error"} : errCh' = Append(errCh, v)
    BY <1>3 DEF BuildFails, AllStarted, ManagerReturns, SubscriberReturns
  <2>2. errCh' \in Seq({"nil", "error"})
    BY <2>1
  <2>. QED  BY <1>3, <2>2 DEF BuildFails, AllStarted, ManagerReturns, SubscriberReturns
<1>4. ASSUME NEW i \in Sources, FileEnds(i) \/ SocketEnds(i) PROVE MainTypeOK'
  BY <1>4 DEF FileEnds, SocketEnds
<1>5. ASSUME NEW i \in Sources, SendError(i) PROVE MainTypeOK'
  BY <1>0, <1>5 DEF SendError, ErrsCap
<1>6. CASE MainReceives
  <2>1. errCh' \in Seq({"nil", "error"})
    BY <1>6 DEF MainReceives
  <2>. QED  BY <1>6, <2>1 DEF MainReceives
<1>7. CASE Signal \/ EarlySignal \/ UNCHANGED mainVars
  BY <1>7 DEF Signal, EarlySignal, mainVars
<1>. QED
  BY <1>1, <1>2, <1>3, <1>4, <1>5, <1>6, <1>7
     DEF RelayNext, ManagerStep, MainStep, relayVars, mainVars

-----------------------------------------------------------------------------
(* The invariant.                                                          *)

(***************************************************************************)
(* A listener runs only for its source, which is started first, and whose  *)
(* goroutine ends only after it.                                           *)
(***************************************************************************)
ListenerOfSource ==
  \A s \in Sockets :
    /\ src[s] = "none" => lpc[s] = "off"
    /\ src[s] \in {"sending", "ended", "failed"} => lpc[s] \in {"done", "failed"}

(***************************************************************************)
(* What the manager has started, and the errors it has been sent; as long  *)
(* as no error is on its way to main, or was there, all has ended well     *)
(* when Manager.Run has returned.                                          *)
(***************************************************************************)
ManagerInv ==
  /\ mgr = "wait" => built = Len(Transports)
  /\ \A i \in Sources : src[i] = "failed" => errs > 0
  /\ (mgr = "returned" /\ exit # "failure" /\ \A k \in 1..Len(errCh) : errCh[k] # "error") =>
       \A i \in Sources : src[i] = "ended"

\* The number of the two halves that have returned.
Returned == (IF mgr = "returned" THEN 1 ELSE 0) + (IF sub = "returned" THEN 1 ELSE 0)

(***************************************************************************)
(* What went through main's channel is what the two halves have returned;  *)
(* main has received all of it when it exits with 0.                       *)
(***************************************************************************)
ChannelInv ==
  /\ mgr = "off" <=> boot # "run"
  /\ sub = "off" <=> boot # "run"
  /\ sub = "returned" => cancelled
  /\ exit = "none" => Len(errCh) + nils = Returned /\ nils < 2
  /\ Len(errCh) + nils <= 2
  /\ exit = "success" => nils = 2 /\ mgr = "returned" /\ sub = "returned"

\* ListenSocket runs only while the manager runs its source.
LEMMA NextListenerOfSource ==
  SocketTypeOK /\ MainTypeOK /\ ListenerOfSource /\ [RelayNext]_relayVars => ListenerOfSource'
<1>. SUFFICES ASSUME SocketTypeOK, MainTypeOK, ListenerOfSource, [RelayNext]_relayVars,
                     NEW s \in Sockets
              PROVE  /\ src'[s] = "none" => lpc'[s] = "off"
                     /\ src'[s] \in {"sending", "ended", "failed"} => lpc'[s] \in {"done", "failed"}
  BY DEF ListenerOfSource
<1>0. /\ s \in Sources /\ Transports[s] = "socket"
      /\ src[s] = "none" => lpc[s] = "off"
      /\ src[s] \in {"sending", "ended", "failed"} => lpc[s] \in {"done", "failed"}
      /\ src \in [Sources -> {"none", "running", "sending", "ended", "failed"}]
      /\ lpc \in [Sockets -> {"off", "listen", "accept", "wait", "done", "failed"}]
  BY RelayAssumption DEF ListenerOfSource, Sources, MainTypeOK, SocketTypeOK
<1>1. CASE UNCHANGED <<lpc, src>>
  BY <1>0, <1>1
<1>2. CASE StartSource
  <2>1. /\ src' = [src EXCEPT ![built + 1] = "running"]
        /\ Transports[built + 1] = "socket" => StartListen(built + 1)
        /\ Transports[built + 1] # "socket" => lpc' = lpc
    BY <1>2 DEF StartSource, socketVars, listenVars
  <2>2. CASE s = built + 1
    BY <1>0, <2>1, <2>2
  <2>3. CASE s # built + 1
    <3>1. src'[s] = src[s]
      BY <1>0, <2>1, <2>3
    <3>2. lpc'[s] = lpc[s]
      BY <1>0, <2>1, <2>3 DEF StartListen
    <3>. QED  BY <1>0, <3>1, <3>2
  <2>. QED  BY <2>2, <2>3
<1>3. ASSUME NEW i \in Sources, FileEnds(i) \/ SocketEnds(i)
      PROVE  /\ src'[s] = "none" => lpc'[s] = "off"
             /\ src'[s] \in {"sending", "ended", "failed"} => lpc'[s] \in {"done", "failed"}
  BY <1>0, <1>3 DEF FileEnds, SocketEnds, socketVars, listenVars
<1>4. ASSUME NEW i \in Sources, SendError(i)
      PROVE  /\ src'[s] = "none" => lpc'[s] = "off"
             /\ src'[s] \in {"sending", "ended", "failed"} => lpc'[s] \in {"done", "failed"}
  BY <1>0, <1>4 DEF SendError, socketVars, listenVars
<1>5. CASE (ListenStep \/ SocketEnvironment) /\ UNCHANGED mainVars
  <2>1. src' = src
    BY <1>5 DEF mainVars
  <2>2. lpc[s] = "off" => lpc'[s] = "off"
    BY <1>5, ListenerAlone
  <2>3. lpc[s] \in {"done", "failed"} => lpc'[s] = lpc[s]
    BY <1>5, ListenerAlone
  <2>. QED  BY <1>0, <2>1, <2>2, <2>3
<1>. QED
  BY <1>1, <1>2, <1>3, <1>4, <1>5
     DEF RelayNext, BootStep, LoadConfig, LoadKey, BuildAdapters, BootFails, ManagerStep,
         BuildFails, AllStarted, ManagerReturns, MainStep, SubscriberReturns, MainReceives,
         Signal, SocketCancel, EarlySignal, relayVars, mainVars, socketVars, listenVars

\* Main's channel after a value was sent to it, and after one was received.
LEMMA ChannelOps ==
  ASSUME NEW q \in Seq({"nil", "error"})
  PROVE  /\ Len(q) \in Nat
         /\ \A v \in {"nil", "error"} :
              /\ Len(Append(q, v)) = Len(q) + 1
              /\ Append(q, v)[Len(q) + 1] = v
              /\ \A k \in 1..Len(q) : Append(q, v)[k] = q[k]
         /\ q # <<>> =>
              /\ Len(q) > 0
              /\ Head(q) = q[1] /\ Head(q) \in {"nil", "error"}
              /\ Len(Tail(q)) = Len(q) - 1
              /\ \A k \in 1..Len(Tail(q)) : Tail(q)[k] = q[k + 1]
OBVIOUS

NoError(q) == \A k \in 1..Len(q) : q[k] # "error"

\* No error is in a channel after a send or a receive unless one was before.
LEMMA NoErrorOps ==
  ASSUME NEW q \in Seq({"nil", "error"})
  PROVE  /\ \A v \in {"nil", "error"} : NoError(Append(q, v)) => NoError(q) /\ v # "error"
         /\ q # <<>> /\ Head(q) # "error" /\ NoError(Tail(q)) => NoError(q)
<1>1. ASSUME NEW v \in {"nil", "error"}, NoError(Append(q, v)) PROVE NoError(q) /\ v # "error"
  <2>1. Len(Append(q, v)) = Len(q) + 1 /\ Len(q) \in Nat
    BY ChannelOps
  <2>2. \A k \in 1..Len(q) : k \in 1..Len(Append(q, v)) /\ Append(q, v)[k] = q[k]
    BY <2>1, ChannelOps
  <2>3. Len(q) + 1 \in 1..Len(Append(q, v)) /\ Append(q, v)[Len(q) + 1] = v
    BY <2>1, ChannelOps
  <2>. QED  BY <1>1, <2>2, <2>3 DEF NoError
<1>2. ASSUME q # <<>>, Head(q) # "error", NoError(Tail(q)) PROVE NoError(q)
  <2>. SUFFICES ASSUME NEW k \in 1..Len(q) PROVE q[k] # "error"
    BY DEF NoError
  <2>1. CASE k = 1
    BY <1>2, <2>1, ChannelOps
  <2>2. CASE k # 1
    <3>1. k - 1 \in 1..Len(Tail(q)) /\ Tail(q)[k - 1] = q[(k - 1) + 1] /\ (k - 1) + 1 = k
      BY <1>2, <2>2, ChannelOps
    <3>. QED  BY <1>2, <3>1 DEF NoError
  <2>. QED  BY <2>1, <2>2
<1>. QED  BY <1>1, <1>2

\* Every step keeps what Manager.Run returns true of its sources.
LEMMA NextManagerInv ==
  MainTypeOK /\ ManagerInv /\ [RelayNext]_relayVars => ManagerInv'
<1>. SUFFICES ASSUME MainTypeOK, ManagerInv, [RelayNext]_relayVars PROVE ManagerInv'
  OBVIOUS
<1>. DEFINE Ended == \A i \in Sources : src[i] = "ended"
<1>0. /\ mgr = "wait" => built = Len(Transports)
      /\ \A i \in Sources : src[i] = "failed" => errs > 0
      /\ mgr = "returned" /\ exit # "failure" /\ NoError(errCh) => Ended
  BY DEF ManagerInv, NoError
<1>. SUFFICES /\ mgr' = "wait" => built' = Len(Transports)
              /\ \A i \in Sources : src'[i] = "failed" => errs' > 0
              /\ mgr' = "returned" /\ exit' # "failure" /\ NoError(errCh') => Ended'
  BY DEF ManagerInv, NoError
<1>. USE DEF MainTypeOK
<1>1. CASE UNCHANGED mainVars
  BY <1>0, <1>1 DEF mainVars, NoError
<1>12. UNCHANGED mainVars \/ exit = "none"
  BY DEF RelayNext, relayVars
<1>2. CASE BootStep \/ BootFails \/ EarlySignal
  <2>1. CASE BootStep \/ BootFails
    BY <1>0, <2>1 DEF BootStep, LoadConfig, LoadKey, BuildAdapters, BootFails
  <2>2. CASE EarlySignal
    BY <1>0, <1>1, <1>12, <2>2 DEF EarlySignal
  <2>. QED  BY <1>2, <2>1, <2>2
<1>3. CASE StartSource \/ AllStarted
  BY <1>0, <1>3 DEF StartSource, AllStarted
<1>4. CASE BuildFails
  BY <1>0, <1>4, NoErrorOps DEF BuildFails
<1>5. CASE ManagerReturns
  BY <1>0, <1>5, NoErrorOps DEF ManagerReturns
<1>6. CASE SubscriberReturns
  BY <1>0, <1>6, NoErrorOps DEF SubscriberReturns
<1>7. CASE MainReceives
  <2>1. /\ errCh # <<>> /\ errCh' = Tail(errCh)
        /\ Head(errCh) = "error" => exit' = "failure"
        /\ UNCHANGED <<mgr, built, src, errs>>
    BY <1>7 DEF MainReceives
  <2>2. exit' # "failure" /\ NoError(errCh') => NoError(errCh)
    BY <2>1, NoErrorOps
  <2>. QED  BY <1>0, <1>1, <1>12, <2>1, <2>2
<1>8. ASSUME NEW i \in Sources, FileEnds(i) \/ SocketEnds(i)
      PROVE  /\ src[i] = "running" /\ src'[i] # "failed"
             /\ \A j \in Sources : j # i => src'[j] = src[j]
             /\ UNCHANGED <<mgr, built, errs, errCh, exit>>
  BY <1>8 DEF FileEnds, SocketEnds
<1>9. ASSUME NEW i \in Sources, SendError(i)
      PROVE  /\ src[i] = "sending" /\ errs' > 0
             /\ UNCHANGED <<mgr, built, errCh, exit>>
  BY <1>9 DEF SendError
<1>10. CASE \E i \in Sources : FileEnds(i) \/ SocketEnds(i)
  BY <1>0, <1>8, <1>10
<1>11. CASE \E i \in Sources : SendError(i)
  BY <1>0, <1>9, <1>11
<1>. QED
  BY <1>1, <1>2, <1>3, <1>4, <1>5, <1>6, <1>7, <1>10, <1>11
     DEF RelayNext, ManagerStep, MainStep, Signal, relayVars

\* Every step keeps what main has received true of the two halves.
LEMMA NextChannelInv ==
  MainTypeOK /\ ChannelInv /\ [RelayNext]_relayVars => ChannelInv'
<1>. SUFFICES ASSUME MainTypeOK, ChannelInv, [RelayNext]_relayVars PROVE ChannelInv'
  OBVIOUS
<1>. USE DEF ChannelInv, Returned
<1>0. /\ Len(errCh) \in Nat /\ nils \in Nat
      /\ mgr \in {"off", "build", "wait", "returned"} /\ sub \in {"off", "running", "returned"}
      /\ boot \in {"load", "key", "adapters", "run"}
  BY ChannelOps DEF MainTypeOK
<1>1. CASE UNCHANGED <<cancelled, mainVars>>
  BY <1>1 DEF mainVars
<1>3. \A v \in {"nil", "error"} : Len(Append(errCh, v)) = Len(errCh) + 1
  BY ChannelOps DEF MainTypeOK
<1>4. CASE exit = "none" /\ (BootStep \/ BootFails \/ EarlySignal)
  BY <1>0, <1>4
     DEF BootStep, LoadConfig, LoadKey, BuildAdapters, BootFails, EarlySignal, socketVars
<1>5. CASE StartSource \/ AllStarted
  BY <1>0, <1>5 DEF StartSource, StartListen, AllStarted, socketVars
<1>6. CASE exit = "none" /\ (BuildFails \/ ManagerReturns)
  <2>1. Len(errCh') = Len(errCh) + 1 /\ mgr # "returned" /\ mgr # "off" /\ mgr' = "returned"
        /\ UNCHANGED <<cancelled, boot, sub, nils, exit>>
    BY <1>3, <1>6 DEF BuildFails, ManagerReturns, socketVars
  <2>. QED  BY <1>0, <1>6, <2>1
<1>7. CASE exit = "none" /\ SubscriberReturns
  <2>1. Len(errCh') = Len(errCh) + 1 /\ sub = "running" /\ sub' = "returned" /\ cancelled
        /\ UNCHANGED <<cancelled, boot, mgr, nils, exit>>
    BY <1>3, <1>7 DEF SubscriberReturns, socketVars
  <2>. QED  BY <1>0, <1>7, <2>1
<1>8. CASE exit = "none" /\ MainReceives
  <2>1. /\ Len(errCh) > 0 /\ Len(errCh') = Len(errCh) - 1
        /\ \/ exit' = "failure" /\ nils' = nils
           \/ nils' = nils + 1 /\ exit' = IF nils = 1 THEN "success" ELSE "none"
        /\ UNCHANGED <<cancelled, boot, mgr, sub>>
    BY <1>8, ChannelOps DEF MainReceives, MainTypeOK, socketVars
  <2>. QED  BY <1>0, <1>8, <2>1
<1>9. ASSUME NEW i \in Sources, FileEnds(i) \/ SocketEnds(i) \/ SendError(i) PROVE ChannelInv'
  BY <1>9 DEF FileEnds, SocketEnds, SendError, socketVars
<1>10. CASE Signal
  BY <1>10 DEF Signal, SocketCancel, mainVars
<1>11. CASE (ListenStep \/ SocketEnvironment) /\ UNCHANGED mainVars
  BY <1>1, <1>11, ListenersCancelNothing
<1>. QED
  BY <1>1, <1>4, <1>5, <1>6, <1>7, <1>8, <1>9, <1>10, <1>11
     DEF RelayNext, ManagerStep, MainStep, relayVars, socketVars

-----------------------------------------------------------------------------
(* The theorems.                                                           *)

RelayInv ==
  /\ SocketInv
  /\ MainTypeOK
  /\ ListenerOfSource
  /\ ManagerInv
  /\ ChannelInv

\* The invariant holds in every state of the process.
LEMMA RelayInvariance == RelaySpec => []RelayInv
<1>1. RelayInit => RelayInv
  <2>. SUFFICES ASSUME RelayInit PROVE RelayInv
    OBVIOUS
  <2>1. SocketInv /\ \A s \in Sockets : lpc[s] = "off" /\ s \in Sources
    BY InitSocketInv, RelayAssumption DEF RelayInit, SocketInit, Sources
  <2>2. MainTypeOK
    BY TransportsType DEF RelayInit, MainTypeOK
  <2>3. ListenerOfSource /\ ManagerInv
    BY <2>1 DEF RelayInit, ListenerOfSource, ManagerInv
  <2>4. ChannelInv
    BY DEF RelayInit, ChannelInv, Returned
  <2>. QED  BY <2>1, <2>2, <2>3, <2>4 DEF RelayInv
<1>2. RelayInv /\ [RelayNext]_relayVars => RelayInv'
  <2>1. MainTypeOK /\ [RelayNext]_relayVars => [SocketNext]_socketVars
    <3>1. MainTypeOK => built \in Nat
      BY TransportsType DEF MainTypeOK
    <3>. QED  BY <3>1, RelaySocketNext DEF relayVars
  <2>. QED
    BY <2>1, NextSocketInv, NextMainType, NextListenerOfSource, NextManagerInv, NextChannelInv
       DEF RelayInv, SocketInv
<1>. QED  BY <1>1, <1>2, PTL DEF RelaySpec

\* The socket sources of the process are the listeners of SocketListener.
LEMMA RelaySocketSpec == RelaySpec => SocketSpec
<1>1. RelayInit => SocketInit
  BY DEF RelayInit
<1>2. RelayInv /\ [RelayNext]_relayVars => [SocketNext]_socketVars
  <2>1. RelayInv => built \in Nat
    BY TransportsType DEF RelayInv, MainTypeOK
  <2>. QED  BY <2>1, RelaySocketNext DEF relayVars
<1>. QED  BY <1>1, <1>2, RelayInvariance, PTL DEF RelaySpec, SocketSpec

(***************************************************************************)
(* The variables of the process have their types, and main's channel, of   *)
(* capacity two, is never sent a third value: the two halves never block.  *)
(***************************************************************************)
THEOREM RelayTypeCorrect == RelaySpec => []RelayTypeOK
<1>1. RelayInv => RelayTypeOK
  BY DEF RelayInv, SocketInv, MainTypeOK, ChannelInv, RelayTypeOK
<1>. QED  BY <1>1, RelayInvariance, PTL

\* When main exits with 0 it has received nil from both, and all sources have ended.
LEMMA SuccessMeans ==
  RelayInv /\ exit = "success" =>
    /\ cancelled /\ sub = "returned"
    /\ \A i \in Sources : src[i] = "ended"
    /\ \A c \in Conns : hpc[c] \in {"none", "done"}
<1>. SUFFICES ASSUME RelayInv, exit = "success"
              PROVE  /\ cancelled /\ sub = "returned"
                     /\ \A i \in Sources : src[i] = "ended"
                     /\ \A c \in Conns : hpc[c] \in {"none", "done"}
  OBVIOUS
<1>1. /\ nils = 2 /\ mgr = "returned" /\ sub = "returned" /\ cancelled
      /\ Len(errCh) + nils <= 2 /\ Len(errCh) \in Nat
  BY ChannelOps DEF RelayInv, ChannelInv, MainTypeOK
<1>2. Len(errCh) = 0
  BY <1>1
<1>3. \A i \in Sources : src[i] = "ended"
  BY <1>1, <1>2 DEF RelayInv, ManagerInv
<1>4. \A s \in Sockets : lpc[s] \in {"done", "failed"}
  BY <1>3, RelayAssumption DEF RelayInv, ListenerOfSource, Sources
<1>5. \A c \in Conns : hpc[c] \in {"none", "done"}
  BY <1>4, SocketAssumption DEF RelayInv, SocketInv, ListenInv, SocketTypeOK
<1>. QED  BY <1>1, <1>3, <1>5

(***************************************************************************)
(* main exits with 0 only after a signal, and when the subscriber, every   *)
(* source and every connection's goroutine have come to their end.         *)
(***************************************************************************)
THEOREM ExitIsClean == RelaySpec => []CleanExit
<1>1. RelayInv => CleanExit
  BY SuccessMeans DEF CleanExit
<1>. QED  BY <1>1, RelayInvariance, PTL

(***************************************************************************)
(* A source that main's configuration names and that could not be built,   *)
(* or whose transport failed, makes main exit with 1, however late the     *)
(* error is received.                                                      *)
(***************************************************************************)
THEOREM ErrorsAreFatal == RelaySpec => []ErrorIsNotLost
<1>1. RelayInv => ErrorIsNotLost
  BY SuccessMeans DEF ErrorIsNotLost
<1>. QED  BY <1>1, RelayInvariance, PTL

(***************************************************************************)
(* In the process, too, ListenSocket parses every line and Emit sends no   *)
(* event twice: main and the manager take no step of theirs.               *)
(***************************************************************************)
THEOREM RelayKeepsSocket == RelaySpec => []EveryLineParsed /\ []ReceivedOnce /\ ImplementsLineFeeds
BY RelaySocketSpec, EveryLineIsParsed, OncePerEvent, LineFeedsRefined, PTL
=============================================================================
