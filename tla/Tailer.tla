------------------------------- MODULE Tailer -------------------------------
(***************************************************************************)
(* The log tailer (src/relay/tailer.go) against a log file that its logger *)
(* appends to while a rotator renames, re-creates or truncates it.         *)
(*                                                                         *)
(* Bytes carry the serial number of their write: the k-th byte the logger  *)
(* ever writes is k, and nl is the set of the serials that are newlines.   *)
(* The logger appends (O_APPEND), so a file, known by its inode, always    *)
(* holds a run of consecutive serials: inode i holds base[i]+1 up to       *)
(* base[i]+size[i].  Inode numbers grow with every file created at the     *)
(* path, and the one the tailer holds open is never reused.                *)
(***************************************************************************)
EXTENDS Integers, Sequences

CONSTANTS TailBufSize,  \* bytes a single Read takes at most (tailBufSize)
          MaxBytes,     \* bound: bytes the logger writes
          MaxInodes,    \* bound: files ever created at the path
          MaxTruncs,    \* bound: truncations
          MaxStatErrs   \* bound: errors of os.Stat(path), but for a path that is gone

ASSUME TailerAssumption ==
  /\ TailBufSize \in Nat \ {0}
  /\ MaxBytes \in Nat
  /\ MaxInodes \in Nat
  /\ MaxTruncs \in Nat
  /\ MaxStatErrs \in Nat

VARIABLES
  \* The file system and the logger.
  n,          \* bytes written so far
  nl,         \* serials that are newlines
  base,       \* base[i]: serial just before the first byte of inode i
  size,       \* size[i]: bytes in inode i
  inodes,     \* files created so far; inodes are 1..inodes
  path,       \* inode at the tailed path, 0 when there is none
  wfd,        \* inode the logger has open for append, 0 when none
  truncs,     \* truncations so far
  cancelled,  \* ctx is done
  \* The local variables of Tail.
  pc,         \* where Tail is
  fd,         \* inode of f (of the file last opened, once f is closed)
  pos,        \* offset of f
  pending,    \* bytes read and not yet split into lines
  result,     \* what Tail returned, once pc = "done"
  statErrs,   \* errors of os.Stat(path) so far (but for a path that is gone)
  \* What an observer remembers.
  lines,      \* the lines handed to Source.Parse, in order
  opened,     \* n when Tail first opened the path
  from,       \* offset at which reading of f began
  restart     \* Len(lines) when Tail last reopened the very file it had open

envVars  == <<n, nl, base, size, inodes, path, wfd, truncs>>
tailVars == <<pc, fd, pos, pending, result, lines, opened, from, statErrs, restart>>
vars     == <<n, nl, base, size, inodes, path, wfd, truncs, cancelled,
              pc, fd, pos, pending, result, lines, opened, from, statErrs, restart>>

Inodes == 1..MaxInodes

PCs == {"open", "openRetry", "seek", "wait", "rotation", "truncation", "read",
        "split", "reopen", "reopenRetry", "done"}

Init ==
  /\ n = 0 /\ nl = {}
  /\ base = [i \in Inodes |-> 0]
  /\ size = [i \in Inodes |-> 0]
  /\ inodes = 0 /\ path = 0 /\ wfd = 0
  /\ truncs = 0
  /\ cancelled = FALSE
  /\ pc = "open"
  /\ fd = 0 /\ pos = 0 /\ pending = <<>>
  /\ result = "none"
  /\ lines = <<>> /\ opened = 0 /\ from = 0
  /\ statErrs = 0 /\ restart = 0

-----------------------------------------------------------------------------
(* The logger and the rotator.                                             *)

\* The logger appends one byte, a newline or not, to the file it has open.
Write ==
  /\ wfd # 0
  /\ n < MaxBytes
  /\ n' = n + 1
  /\ nl' \in {nl, nl \cup {n + 1}}
  /\ base' = IF size[wfd] = 0 THEN [base EXCEPT ![wfd] = n] ELSE base
  /\ size' = [size EXCEPT ![wfd] = @ + 1]
  /\ UNCHANGED <<inodes, path, wfd, truncs, cancelled, tailVars>>

\* The rotator creates an empty file at the path.
Create ==
  /\ path = 0
  /\ inodes < MaxInodes
  /\ inodes' = inodes + 1
  /\ path' = inodes + 1
  /\ UNCHANGED <<n, nl, base, size, wfd, truncs, cancelled, tailVars>>

\* The rotator renames the file away; whoever has it open keeps it.
Rename ==
  /\ path # 0
  /\ path' = 0
  /\ UNCHANGED <<n, nl, base, size, inodes, wfd, truncs, cancelled, tailVars>>

\* The logger (re)opens the path, between two lines.
LoggerReopen ==
  /\ path # 0 /\ path # wfd
  /\ n = 0 \/ n \in nl
  /\ wfd' = path
  /\ UNCHANGED <<n, nl, base, size, inodes, path, truncs, cancelled, tailVars>>

\* The rotator truncates the file in place (copytruncate).
Truncate ==
  /\ path # 0 /\ size[path] > 0
  /\ truncs < MaxTruncs
  /\ truncs' = truncs + 1
  /\ size' = [size EXCEPT ![path] = 0]
  /\ UNCHANGED <<n, nl, base, inodes, path, wfd, cancelled, tailVars>>

\* main's signal handler cancels ctx.
Cancel ==
  /\ ~cancelled
  /\ cancelled' = TRUE
  /\ UNCHANGED <<envVars, tailVars>>

Environment == Write \/ Create \/ Rename \/ LoggerReopen \/ Truncate \/ Cancel

-----------------------------------------------------------------------------
(* openWithRetry, called at startup (pc = "open") and after a rotation     *)
(* (pc = "reopen").                                                        *)

\* Mutant of OpenFile: pending survives a rotation.
OpenFileKeepsPending ==
  /\ pc \in {"open", "reopen"}
  /\ path # 0
  /\ fd' = path
  /\ pos' = 0
  /\ from' = 0
  /\ opened' = IF pc = "open" THEN n ELSE opened
  /\ restart' = IF path = fd THEN Len(lines) ELSE restart
  /\ pc' = IF pc = "open" THEN "seek" ELSE "wait"
  /\ UNCHANGED <<envVars, cancelled, pending, result, lines, statErrs>>

\* os.Open succeeds.  After a rotation the offset is 0 and pending is
\* dropped; at startup Tail goes on to seek.  The file at the path may be the
\* one that was open (see isRotated): Tail begins it over.
OpenFile ==
  /\ pc \in {"open", "reopen"}
  /\ path # 0
  /\ fd' = path
  /\ pos' = 0
  /\ from' = 0
  /\ pending' = <<>>
  /\ opened' = IF pc = "open" THEN n ELSE opened
  /\ restart' = IF path = fd THEN Len(lines) ELSE restart
  /\ pc' = IF pc = "open" THEN "seek" ELSE "wait"
  /\ UNCHANGED <<envVars, cancelled, result, lines, statErrs>>

\* Mutant of OpenFails: the error is not looked at.
OpenErrorIgnored ==
  /\ pc \in {"open", "reopen"}
  /\ pc' = IF pc = "open" THEN "seek" ELSE "wait"
  /\ UNCHANGED <<envVars, cancelled, fd, pos, pending, result, lines, opened, from,
                 statErrs, restart>>

\* os.Open fails: the path does not exist, or it cannot be opened just now.
OpenFails ==
  /\ pc \in {"open", "reopen"}
  /\ pc' = IF pc = "open" THEN "openRetry" ELSE "reopenRetry"
  /\ UNCHANGED <<envVars, cancelled, fd, pos, pending, result, lines, opened, from,
                 statErrs, restart>>

\* retryBackoff has passed.
RetryOpen ==
  /\ pc \in {"openRetry", "reopenRetry"}
  /\ pc' = IF pc = "openRetry" THEN "open" ELSE "reopen"
  /\ UNCHANGED <<envVars, cancelled, fd, pos, pending, result, lines, opened, from,
                 statErrs, restart>>

\* Mutant of CancelRetry: the reopen after a rotation does not get ctx.
CancelFirstRetryOnly ==
  /\ pc = "openRetry"
  /\ cancelled
  /\ pc' = "done"
  /\ result' = "ctxErr"
  /\ UNCHANGED <<envVars, cancelled, fd, pos, pending, lines, opened, from,
                 statErrs, restart>>

\* ctx is cancelled during the back-off: ctx.Err() goes up to Tail's caller.
CancelRetry ==
  /\ pc \in {"openRetry", "reopenRetry"}
  /\ cancelled
  /\ pc' = "done"
  /\ result' = "ctxErr"
  /\ UNCHANGED <<envVars, cancelled, fd, pos, pending, lines, opened, from,
                 statErrs, restart>>

-----------------------------------------------------------------------------
(* The body of Tail.                                                       *)

\* Mutant of SeekEnd: the file is read from its beginning.
SeekForgotten ==
  /\ pc = "seek"
  /\ pos' = 0
  /\ from' = 0
  /\ pc' = "wait"
  /\ UNCHANGED <<envVars, cancelled, fd, pending, result, lines, opened, statErrs, restart>>

\* Seek to the end, so that history is not replayed.
SeekEnd ==
  /\ pc = "seek"
  /\ pos' = size[fd]
  /\ from' = size[fd]
  /\ pc' = "wait"
  /\ UNCHANGED <<envVars, cancelled, fd, pending, result, lines, opened, statErrs, restart>>

\* The file cannot seek (a pipe): Tail returns the error.
SeekFails ==
  /\ pc = "seek"
  /\ pc' = "done"
  /\ result' = "seekErr"
  /\ UNCHANGED <<envVars, cancelled, fd, pos, pending, lines, opened, from,
                 statErrs, restart>>

\* The select at the head of the loop: the ticker ...
Tick ==
  /\ pc = "wait"
  /\ pc' = "rotation"
  /\ UNCHANGED <<envVars, cancelled, fd, pos, pending, result, lines, opened, from,
                 statErrs, restart>>

\* ... or the cancelled context.
Stop ==
  /\ pc = "wait"
  /\ cancelled
  /\ pc' = "done"
  /\ result' = "nil"
  /\ UNCHANGED <<envVars, cancelled, fd, pos, pending, lines, opened, from,
                 statErrs, restart>>

\* isRotated: another inode, or none, is at the path; and any error of
\* os.Stat(path) is taken for a path that is gone.
isRotated(statFails) == statFails \/ path # fd

\* Rotation closes f and reopens; else the truncation check follows.
CheckRotation ==
  /\ pc = "rotation"
  /\ \E statFails \in IF statErrs < MaxStatErrs THEN BOOLEAN ELSE {FALSE} :
       /\ pc' = IF isRotated(statFails) THEN "reopen" ELSE "truncation"
       /\ statErrs' = IF statFails THEN statErrs + 1 ELSE statErrs
  /\ UNCHANGED <<envVars, cancelled, fd, pos, pending, result, lines, opened, from, restart>>

\* Mutant of isTruncated: no truncation detection at all.
isTruncatedNever == FALSE

\* The offset is beyond the end of the file.
isTruncated == pos > size[fd]

\* A truncated file is read again from its beginning, at the next tick.
CheckTruncation ==
  /\ pc = "truncation"
  /\ IF isTruncated
       THEN /\ pos' = 0 /\ from' = 0 /\ pending' = <<>>
            /\ pc' = "wait"
       ELSE /\ pc' = "read"
            /\ UNCHANGED <<pos, from, pending>>
  /\ UNCHANGED <<envVars, cancelled, fd, result, lines, opened, statErrs, restart>>

\* f.Stat fails: either check is skipped.
StatFails ==
  /\ pc \in {"rotation", "truncation"}
  /\ pc' = IF pc = "rotation" THEN "truncation" ELSE "read"
  /\ UNCHANGED <<envVars, cancelled, fd, pos, pending, result, lines, opened, from,
                 statErrs, restart>>

\* The number of bytes f.Read returns: what is there, up to the buffer.
readCount ==
  IF size[fd] <= pos THEN 0
  ELSE IF size[fd] - pos < TailBufSize THEN size[fd] - pos ELSE TailBufSize

\* Mutants of Read: the offset is not advanced; the bytes read replace pending.
ReadStaysPut ==
  /\ pc = "read"
  /\ pending' = pending \o [k \in 1..readCount |-> base[fd] + pos + k]
  /\ pc' = IF readCount > 0 THEN "split" ELSE "wait"
  /\ UNCHANGED <<envVars, cancelled, fd, pos, result, lines, opened, from, statErrs, restart>>

ReadOverwrites ==
  /\ pc = "read"
  /\ pos' = pos + readCount
  /\ pending' = [k \in 1..readCount |-> base[fd] + pos + k]
  /\ pc' = IF readCount > 0 THEN "split" ELSE "wait"
  /\ UNCHANGED <<envVars, cancelled, fd, result, lines, opened, from, statErrs, restart>>

\* f.Read, and the bytes read appended to pending.
Read ==
  /\ pc = "read"
  /\ pos' = pos + readCount
  /\ pending' = pending \o [k \in 1..readCount |-> base[fd] + pos + k]
  /\ pc' = IF readCount > 0 THEN "split" ELSE "wait"
  /\ UNCHANGED <<envVars, cancelled, fd, result, lines, opened, from, statErrs, restart>>

\* f.Read fails: logged, and tried again at the next tick.
ReadFails ==
  /\ pc = "read"
  /\ pc' = "wait"
  /\ UNCHANGED <<envVars, cancelled, fd, pos, pending, result, lines, opened, from,
                 statErrs, restart>>

\* bytes.IndexByte: k is the first newline of pending.
IsFirstNewline(k) ==
  /\ k \in 1..Len(pending)
  /\ pending[k] \in nl
  /\ \A j \in 1..(k - 1) : pending[j] \notin nl

\* Mutant of SplitLine: empty lines go to Parse too.
SplitEmptyToo ==
  /\ pc = "split"
  /\ \E k \in 1..Len(pending) :
       /\ IsFirstNewline(k)
       /\ lines' = Append(lines, SubSeq(pending, 1, k - 1))
       /\ pending' = SubSeq(pending, k + 1, Len(pending))
  /\ UNCHANGED <<envVars, cancelled, pc, fd, pos, result, opened, from, statErrs, restart>>

\* A complete line leaves pending; unless empty, it goes to Source.Parse and,
\* when Parse accepts it, to emit.
SplitLine ==
  /\ pc = "split"
  /\ \E k \in 1..Len(pending) :
       /\ IsFirstNewline(k)
       /\ lines' = IF k = 1 THEN lines
                   ELSE Append(lines, SubSeq(pending, 1, k - 1))
       /\ pending' = SubSeq(pending, k + 1, Len(pending))
  /\ UNCHANGED <<envVars, cancelled, pc, fd, pos, result, opened, from, statErrs, restart>>

\* No newline is left in pending.
SplitDone ==
  /\ pc = "split"
  /\ \A k \in 1..Len(pending) : pending[k] \notin nl
  /\ pc' = "wait"
  /\ UNCHANGED <<envVars, cancelled, fd, pos, pending, result, lines, opened, from,
                 statErrs, restart>>

TailStep ==
        \/ OpenFile \/ OpenFails \/ RetryOpen \/ CancelRetry
        \/ SeekEnd \/ SeekFails \/ Tick \/ Stop
        \/ CheckRotation \/ CheckTruncation \/ StatFails
        \/ Read \/ ReadFails \/ SplitLine \/ SplitDone

Next == Environment \/ TailStep

Spec == Init /\ [][Next]_vars

(***************************************************************************)
(* Fairness.  Every step of Tail is eventually taken (its goroutine is     *)
(* scheduled; timers fire; the file-system calls return).  select chooses  *)
(* at random among ready cases, so a case ready again and again is taken:  *)
(* strong fairness of Stop and CancelRetry.  Errors of Open, of Stat and   *)
(* of Read are transient: the calls succeed if tried again and again.      *)
(* Nothing is assumed of the logger, the rotator or the operator.          *)
(***************************************************************************)
Fairness ==
  /\ WF_vars(TailStep)
  /\ SF_vars(Stop)
  /\ SF_vars(CancelRetry)
  /\ SF_vars(OpenFile)
  /\ SF_vars(CheckRotation)
  /\ SF_vars(CheckTruncation)
  /\ SF_vars(Read)

FairSpec == Spec /\ Fairness

-----------------------------------------------------------------------------
(* Properties.                                                             *)

TypeOK ==
  /\ n \in 0..MaxBytes
  /\ nl \subseteq 1..n
  /\ base \in [Inodes -> Nat]
  /\ size \in [Inodes -> Nat]
  /\ inodes \in 0..MaxInodes
  /\ path \in {0, inodes}
  /\ wfd \in 0..inodes
  /\ truncs \in 0..MaxTruncs
  /\ cancelled \in BOOLEAN
  /\ pc \in PCs
  /\ fd \in 0..inodes
  /\ pc \notin {"open", "openRetry", "done"} => fd # 0
  /\ pos \in Nat
  /\ pending \in Seq(Nat)
  /\ result \in {"none", "nil", "ctxErr", "seekErr"}
  /\ lines \in Seq(Seq(Nat))
  /\ opened \in Nat
  /\ from \in Nat
  /\ statErrs \in 0..MaxStatErrs
  /\ restart \in 0..Len(lines)

\* The lines of this pass: those given to Parse since Tail last began over
\* the file that it had open.
Pass == SubSeq(lines, restart + 1, Len(lines))

(***************************************************************************)
(* The lines given to Parse never repeat a byte and never go back: every   *)
(* byte of a line was written after every byte before it, in the line and  *)
(* in the earlier lines.  It holds across rotations and truncations,       *)
(* noticed or not, because the path and the offset never return to content *)
(* already read; but for one way back, an os.Stat(path) that fails while   *)
(* the file is still there, after which Tail begins the same file over.    *)
(***************************************************************************)
OrderedOnce ==
  \A i, j \in 1..Len(Pass) : \A p \in 1..Len(Pass[i]), q \in 1..Len(Pass[j]) :
    (i < j \/ (i = j /\ p < q)) => Pass[i][p] < Pass[j][q]

(***************************************************************************)
(* "Seek to end so we don't replay history on startup": as long as         *)
(* os.Stat(path) has not failed on a file that is there, no byte written   *)
(* before Tail first opened the path is ever given to Parse, whatever      *)
(* rotation happens between the open and the seek.                         *)
(***************************************************************************)
NoReplay ==
  statErrs = 0 =>
    \A i \in 1..Len(lines) : \A p \in 1..Len(lines[i]) : lines[i][p] > opened

\* Line l starts where a line of the log starts.
StartsALine(l) == l[1] = 1 \/ (l[1] - 1) \in nl

\* Line l is a run of consecutive bytes up to the next newline.
RunsToNewline(l) ==
  /\ \A p \in 1..Len(l) : l[p] = l[1] + p - 1 /\ l[p] \notin nl
  /\ (l[1] + Len(l)) \in nl

(***************************************************************************)
(* As long as the file is never truncated, Parse sees only lines of the    *)
(* log, whole: a line split over two reads is put together again, and the  *)
(* end of a file rotated away is never joined to the beginning of the next.*)
(* Only the very first line may lack its beginning (the seek at startup    *)
(* may land inside a line).                                                *)
(***************************************************************************)
WholeLines ==
  truncs = 0 =>
    \A i \in 1..Len(lines) :
      /\ RunsToNewline(lines[i])
      /\ i > 1 => StartsALine(lines[i])

(***************************************************************************)
(* As long as the file is never truncated, no byte read from the file that *)
(* is open is lost: it is a newline, in pending, or in a line given to     *)
(* Parse.                                                                  *)
(***************************************************************************)
NoSilentDrop ==
  (truncs = 0 /\ fd # 0) =>
    \A s \in (base[fd] + from + 1)..(base[fd] + pos) :
      \/ s \in nl
      \/ \E k \in 1..Len(pending) : pending[k] = s
      \/ \E i \in 1..Len(lines) : \E p \in 1..Len(lines[i]) : lines[i][p] = s

\* The tailer has the current file open and has split all of it into lines.
CaughtUp ==
  /\ fd = path
  /\ pos = size[fd]
  /\ \A k \in 1..Len(pending) : pending[k] \notin nl

(***************************************************************************)
(* Once the log, the rotator and the operator are quiet, Tail catches up   *)
(* with the file at the path, through any rotation or truncation it was    *)
(* in the middle of; unless the path is gone or Tail has returned.         *)
(***************************************************************************)
Converges == <>[](pc = "done" \/ path = 0 \/ CaughtUp)

(***************************************************************************)
(* Tail implements LineFeed: every step of it, of the logger and of the    *)
(* rotator is a step of the promised line feed or leaves it unchanged.     *)
(* Beginning a file over is the feed's Rewind.                             *)
(***************************************************************************)
Feed == INSTANCE LineFeed WITH written <- n, delivered <- lines, start <- restart,
                               closed <- (pc = "done"), Rewinds <- TRUE

\* The line feed's specification, on the tailer's state.
ImplementsLineFeed == Feed!FeedSpec

(***************************************************************************)
(* Tail returns only when ctx is cancelled, but for the error of a failed  *)
(* seek, once and for good; and a cancelled ctx ends it, wherever it is,   *)
(* also while the file is gone.                                            *)
(***************************************************************************)
Run == INSTANCE Runner WITH EarlyErrors <- TRUE,
         outcome <- IF pc # "done" THEN "running"
                    ELSE IF result = "nil" THEN "nil" ELSE "error"

ImplementsRunner == Run!RunnerSpec

-----------------------------------------------------------------------------
(* What the comments and the tests say of Tail and the code does not do.   *)

\* tailer.go:26: "Returns nil when ctx is cancelled."
ReturnsNilOnCancel == (pc = "done" /\ result # "seekErr") => result = "nil"

\* tailer.go:25: "It handles log rotation (rename + reopen)": no complete line
\* is left unread in the file that Tail leaves.
FinishesRotatedFile ==
  [][fd # 0 /\ fd' # fd =>
       \A s \in (base[fd] + pos + 1)..(base[fd] + size[fd]) : s \notin nl]_vars
=============================================================================
