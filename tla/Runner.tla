------------------------------- MODULE Runner --------------------------------
(***************************************************************************)
(* What the process expects of everything it starts with ctx, whether Tail,*)
(* ListenSocket or Subscriber.Run: it runs until ctx is cancelled and then *)
(* returns, with an error or without, once and for good; some may also     *)
(* fail earlier, but none returns nil earlier.                             *)
(***************************************************************************)
CONSTANT EarlyErrors  \* it may fail before ctx is cancelled

VARIABLES cancelled,  \* ctx is done
          outcome     \* "running", or what it has returned: "nil" or "error"

runnerVars == <<cancelled, outcome>>

RunnerInit == cancelled = FALSE /\ outcome = "running"

CancelRunner == cancelled' = TRUE /\ UNCHANGED outcome

\* It returns because ctx is done.
ReturnCancelled ==
  /\ outcome = "running" /\ cancelled
  /\ outcome' \in {"nil", "error"}
  /\ UNCHANGED cancelled

\* It gives up.
FailEarly ==
  /\ outcome = "running" /\ EarlyErrors
  /\ outcome' = "error"
  /\ UNCHANGED cancelled

RunnerNext == CancelRunner \/ ReturnCancelled \/ FailEarly

RunnerSafety == RunnerInit /\ [][RunnerNext]_runnerVars

RunnerSpec == RunnerSafety /\ (cancelled ~> (outcome # "running"))
=============================================================================
