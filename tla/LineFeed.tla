------------------------------ MODULE LineFeed ------------------------------
(***************************************************************************)
(* What a transport promises the source behind it, whatever the medium:    *)
(* bytes are written one after the other, some of them are delivered, as   *)
(* lines, each byte at most once and in the order written; and after the   *)
(* transport is closed nothing more is delivered.  Which bytes are left    *)
(* out, and how they are cut into lines, is open here.  A transport that   *)
(* Rewinds may begin again: at most once and in order hold of each pass.   *)
(***************************************************************************)
EXTENDS Integers, Sequences

CONSTANT Rewinds      \* whether the transport may begin again

VARIABLES written,    \* bytes written so far, by serial
          delivered,  \* lines delivered, in order: sequences of serials
          start,      \* how many of those are of earlier passes
          closed      \* the transport has returned

feedVars == <<written, delivered, start, closed>>

FeedInit ==
  /\ written = 0
  /\ delivered = <<>>
  /\ start = 0
  /\ closed = FALSE

WriteByte ==
  /\ written' = written + 1
  /\ UNCHANGED <<delivered, start, closed>>

\* Line l is not empty and increases strictly.
IsLine(l) ==
  /\ l \in Seq(1..written)
  /\ Len(l) > 0
  /\ \A p, q \in 1..Len(l) : p < q => l[p] < l[q]

\* All of line l was written after all of the lines of this pass.
IsAfterAll(l) ==
  \A i \in (start + 1)..Len(delivered) :
    \A p \in 1..Len(delivered[i]), q \in 1..Len(l) : delivered[i][p] < l[q]

Deliver ==
  /\ ~closed
  /\ Len(delivered') = Len(delivered) + 1
  /\ delivered' = Append(delivered, delivered'[Len(delivered')])
  /\ IsLine(delivered'[Len(delivered')])
  /\ IsAfterAll(delivered'[Len(delivered')])
  /\ UNCHANGED <<written, start, closed>>

Rewind ==
  /\ Rewinds
  /\ ~closed
  /\ start' = Len(delivered)
  /\ UNCHANGED <<written, delivered, closed>>

Close ==
  /\ ~closed
  /\ closed' = TRUE
  /\ UNCHANGED <<written, delivered, start>>

FeedNext == WriteByte \/ Deliver \/ Rewind \/ Close

FeedSpec == FeedInit /\ [][FeedNext]_feedVars
=============================================================================
