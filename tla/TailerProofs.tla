---------------------------- MODULE TailerProofs ----------------------------
(***************************************************************************)
(* Theorems about the tailer, for every buffer size and every bound: from  *)
(* the inductive invariant IInv type correctness, OrderedOnce, NoReplay    *)
(* and the refinement of LineFeed; from LogInv, HeldInv and KeptInv beside *)
(* it, WholeLines and NoSilentDrop of logs that are not truncated; and the *)
(* safety part of the refinement of Runner.                                *)
(***************************************************************************)
EXTENDS Tailer, TLAPS

(***************************************************************************)
(* The files.  No file reaches beyond the last byte written; the files     *)
(* hold runs of serials in the order of their inodes; a file the logger    *)
(* has not opened yet is empty; the file it has open ends with the last    *)
(* byte written.                                                           *)
(***************************************************************************)
FilesInv ==
  /\ \A i \in Inodes : size[i] > 0 => base[i] + size[i] <= n
  /\ \A i, j \in Inodes :
       (i < j /\ size[i] > 0 /\ size[j] > 0) => base[i] + size[i] <= base[j]
  /\ \A i \in Inodes : i > wfd => size[i] = 0
  /\ (wfd # 0 /\ size[wfd] > 0) => base[wfd] + size[wfd] = n

\* No byte of the lines ls and the rest pe, nor op, is beyond serial x; and all
\* those bytes are beyond op.
Covers(x, ls, pe, op) ==
  /\ op <= x
  /\ \A i \in 1..Len(ls) : \A p \in 1..Len(ls[i]) : op < ls[i][p] /\ ls[i][p] <= x
  /\ \A k \in 1..Len(pe) : op < pe[k] /\ pe[k] <= x

\* What no line of this pass may reach back to.
Floor == IF statErrs = 0 THEN opened ELSE 0

Covered(x) == Covers(x, Pass, pending, Floor)

(***************************************************************************)
(* The offset.  What is still to be read (in a later file; in this file,   *)
(* beyond the offset, or from the beginning if the file was truncated)     *)
(* lies beyond everything read so far in this pass and, until os.Stat has  *)
(* failed on a file that is there, everything written before Tail opened   *)
(* the path.  Only after such an error is the same file opened again.      *)
(***************************************************************************)
ReadInv ==
  /\ Covered(n)
  /\ \A i \in Inodes : (i > fd /\ size[i] > 0) => Covered(base[i])
  /\ (pc \notin {"open", "openRetry", "seek", "done"} /\ size[fd] > 0) =>
       /\ Covered(base[fd] + pos)
       /\ pos > size[fd] => Covered(base[fd])
  /\ (pc = "seek" /\ size[fd] > 0) => Covered(base[fd] + size[fd])
  /\ pc \in {"open", "openRetry"} =>
       lines = <<>> /\ pending = <<>> /\ opened = 0 /\ fd = 0
  /\ (pc \in {"reopen", "reopenRetry"} /\ statErrs = 0) => path # fd
  /\ statErrs = 0 => restart = 0

\* No line holds a byte that was not written.
WrittenInv ==
  \A i \in 1..Len(lines) : \A p \in 1..Len(lines[i]) : lines[i][p] <= n

\* Lines ls, and the rest pe after them, are in strictly increasing order.
InOrder(ls, pe) ==
  /\ \A i, j \in 1..Len(ls) : \A p \in 1..Len(ls[i]), q \in 1..Len(ls[j]) :
       (i < j \/ (i = j /\ p < q)) => ls[i][p] < ls[j][q]
  /\ \A p, q \in 1..Len(pe) : p < q => pe[p] < pe[q]
  /\ \A i \in 1..Len(ls) : \A p \in 1..Len(ls[i]), q \in 1..Len(pe) :
       ls[i][p] < pe[q]

OrderInv == InOrder(Pass, pending)

IInv == TypeOK /\ FilesInv /\ ReadInv /\ OrderInv /\ WrittenInv

-----------------------------------------------------------------------------
(* Lemmas about the operators, for any values of their arguments.          *)

\* Elements of sequences of naturals, and of sequences of those.
LEMMA ElementNat ==
  ASSUME NEW l \in Seq(Nat), NEW p \in 1..Len(l)
  PROVE  l[p] \in Nat
OBVIOUS

\* An element of a line is a number.
LEMMA ElementsNat ==
  ASSUME NEW ls \in Seq(Seq(Nat)), NEW i \in 1..Len(ls), NEW p \in 1..Len(ls[i])
  PROVE  ls[i][p] \in Nat
<1>1. ls[i] \in Seq(Nat)
  OBVIOUS
<1>. QED  BY <1>1, ElementNat

\* The bytes of a read are a sequence.
LEMMA RunNat ==
  ASSUME NEW x \in Nat, NEW c \in Nat
  PROVE  /\ [k \in 1..c |-> x + k] \in Seq(Nat)
         /\ Len([k \in 1..c |-> x + k]) = c
OBVIOUS

\* What a read takes is in the file.
LEMMA ReadCountNat ==
  ASSUME size[fd] \in Nat, pos \in Nat
  PROVE  /\ readCount \in Nat
         /\ readCount > 0 => pos + readCount <= size[fd] /\ size[fd] > 0
<1>. DEFINE z == size[fd]
            c == IF z <= pos THEN 0
                 ELSE IF z - pos < TailBufSize THEN z - pos ELSE TailBufSize
<1>1. readCount = c
  BY DEF readCount
<1>. HIDE DEF z
<1>2. c \in Nat /\ (c > 0 => pos + c <= z /\ z > 0)
  <2>1. z \in Nat
    BY DEF z
  <2>. QED  BY <2>1, TailerAssumption
<1>. QED  BY <1>1, <1>2 DEF z

\* So are a line cut off, and the rest.
LEMMA CutNat ==
  ASSUME NEW pe \in Seq(Nat), NEW k \in 1..Len(pe)
  PROVE  /\ SubSeq(pe, 1, k - 1) \in Seq(Nat)
         /\ SubSeq(pe, k + 1, Len(pe)) \in Seq(Nat)
OBVIOUS

\* What is covered by a serial is covered by every later one.
LEMMA CoversMonotone ==
  ASSUME NEW x \in Nat, NEW y \in Nat, x <= y,
         NEW ls \in Seq(Seq(Nat)), NEW pe \in Seq(Nat), NEW op \in Nat,
         Covers(x, ls, pe, op)
  PROVE  Covers(y, ls, pe, op)
<1>1. \A i \in 1..Len(ls) : \A p \in 1..Len(ls[i]) : ls[i][p] \in Nat
  BY ElementsNat
<1>2. \A k \in 1..Len(pe) : pe[k] \in Nat
  BY ElementNat
<1>3. \A v \in Nat : v <= x => v <= y
  OBVIOUS
<1>4. ASSUME NEW i \in 1..Len(ls), NEW p \in 1..Len(ls[i])
      PROVE  op < ls[i][p] /\ ls[i][p] <= y
  <2>1. op < ls[i][p] /\ ls[i][p] <= x
    BY DEF Covers
  <2>. QED  BY <2>1, <1>1, <1>3
<1>5. ASSUME NEW k \in 1..Len(pe)
      PROVE  op < pe[k] /\ pe[k] <= y
  <2>1. op < pe[k] /\ pe[k] <= x
    BY DEF Covers
  <2>. QED  BY <2>1, <1>2, <1>3
<1>6. op <= y
  BY <1>3 DEF Covers
<1>. QED  BY <1>4, <1>5, <1>6 DEF Covers

\* With nothing read, a serial covers whatever was written before it.
LEMMA CoversNothing ==
  ASSUME NEW x, NEW op, op <= x
  PROVE  Covers(x, <<>>, <<>>, op)
BY DEF Covers

\* Dropping the rest keeps what covers the lines.
LEMMA CoversDrop ==
  ASSUME NEW x, NEW ls, NEW pe, NEW op, Covers(x, ls, pe, op)
  PROVE  Covers(x, ls, <<>>, op)
BY DEF Covers

\* Bytes read after serial x, up to y, extend what x covers to y.
LEMMA CoversRead ==
  ASSUME NEW x \in Nat, NEW c \in Nat,
         NEW ls \in Seq(Seq(Nat)), NEW pe \in Seq(Nat), NEW op \in Nat,
         Covers(x, ls, pe, op)
  PROVE  Covers(x + c, ls, pe \o [k \in 1..c |-> x + k], op)
<1>. DEFINE new == [k \in 1..c |-> x + k]
<1>1. new \in Seq(Nat) /\ Len(new) = c
  OBVIOUS
<1>2. Covers(x + c, ls, pe, op)
  BY CoversMonotone
<1>3. Len(pe \o new) = Len(pe) + c
  BY <1>1
<1>4. ASSUME NEW k \in 1..Len(pe \o new)
      PROVE  op < (pe \o new)[k] /\ (pe \o new)[k] <= x + c
  <2>1. CASE k <= Len(pe)
    BY <1>2, <1>1, <2>1 DEF Covers
  <2>2. CASE k > Len(pe)
    <3>1. k - Len(pe) \in 1..c
      BY <1>3, <2>2
    <3>2. (pe \o new)[k] = new[k - Len(pe)]
      BY <1>1, <1>3, <2>2
    <3>. QED  BY <3>1, <3>2 DEF Covers
  <2>. QED  BY <2>1, <2>2, <1>3
<1>. QED  BY <1>2, <1>4 DEF Covers

\* Cutting line 1..k-1 off the rest keeps what is covered.
LEMMA CoversSplit ==
  ASSUME NEW x, NEW ls \in Seq(Seq(Nat)), NEW pe \in Seq(Nat), NEW op,
         NEW k \in 1..Len(pe), Covers(x, ls, pe, op)
  PROVE  /\ Covers(x, ls, SubSeq(pe, k + 1, Len(pe)), op)
         /\ Covers(x, Append(ls, SubSeq(pe, 1, k - 1)),
                   SubSeq(pe, k + 1, Len(pe)), op)
<1>. DEFINE rest == SubSeq(pe, k + 1, Len(pe))
            line == SubSeq(pe, 1, k - 1)
            ls2  == Append(ls, line)
<1>1. \A q \in 1..Len(rest) : q + k \in 1..Len(pe) /\ rest[q] = pe[q + k]
  OBVIOUS
<1>2. \A p \in 1..Len(line) : p \in 1..Len(pe) /\ line[p] = pe[p]
  OBVIOUS
<1>3. \A q \in 1..Len(rest) : op < rest[q] /\ rest[q] <= x
  BY <1>1 DEF Covers
<1>4. ASSUME NEW i \in 1..Len(ls2), NEW p \in 1..Len(ls2[i])
      PROVE  op < ls2[i][p] /\ ls2[i][p] <= x
  <2>1. CASE i \in 1..Len(ls)
    <3>1. ls2[i] = ls[i]
      BY <2>1
    <3>. QED  BY <2>1, <3>1 DEF Covers
  <2>2. CASE i = Len(ls) + 1
    <3>1. ls2[i] = line
      BY <2>2
    <3>. QED  BY <1>2, <3>1 DEF Covers
  <2>3. Len(ls2) = Len(ls) + 1 /\ Len(ls) \in Nat
    OBVIOUS
  <2>4. i \in 1..Len(ls) \/ i = Len(ls) + 1
    BY <2>3
  <2>. QED  BY <2>1, <2>2, <2>4
<1>. QED  BY <1>3, <1>4 DEF Covers

\* Bytes read beyond everything read before keep the order.
LEMMA InOrderRead ==
  ASSUME NEW x \in Nat, NEW c \in Nat,
         NEW ls \in Seq(Seq(Nat)), NEW pe \in Seq(Nat), NEW op \in Nat,
         Covers(x, ls, pe, op), InOrder(ls, pe)
  PROVE  InOrder(ls, pe \o [k \in 1..c |-> x + k])
<1>. DEFINE new == [k \in 1..c |-> x + k]
            all == pe \o new
<1>1. new \in Seq(Nat) /\ Len(new) = c
  OBVIOUS
<1>2. Len(all) = Len(pe) + c
  BY <1>1
<1>3. \A k \in 1..Len(pe) : all[k] = pe[k] /\ pe[k] \in Nat
  BY <1>1
<1>4. \A k \in 1..Len(all) : k > Len(pe) => all[k] = x + (k - Len(pe))
  BY <1>1, <1>2
<1>5. \A p, q \in 1..Len(all) : p < q => all[p] < all[q]
  <2>. SUFFICES ASSUME NEW p \in 1..Len(all), NEW q \in 1..Len(all), p < q
                PROVE  all[p] < all[q]
    OBVIOUS
  <2>1. CASE q <= Len(pe)
    BY <2>1, <1>2, <1>3 DEF InOrder
  <2>2. CASE p <= Len(pe) /\ q > Len(pe)
    <3>. DEFINE d == q - Len(pe)
    <3>1. d \in Nat /\ d > 0 /\ all[q] = x + d
      BY <2>2, <1>2, <1>4
    <3>2. p \in 1..Len(pe) /\ all[p] = pe[p] /\ pe[p] \in Nat
      BY <2>2, <1>2, <1>3
    <3>3. pe[p] <= x
      BY <3>2 DEF Covers
    <3>. HIDE DEF d, all
    <3>. QED  BY <3>1, <3>2, <3>3
  <2>3. CASE p > Len(pe)
    BY <2>3, <1>2, <1>4
  <2>. QED  BY <2>1, <2>2, <2>3, <1>2
<1>6. ASSUME NEW i \in 1..Len(ls), NEW p \in 1..Len(ls[i]), NEW q \in 1..Len(all)
      PROVE  ls[i][p] < all[q]
  <2>0. ls[i][p] \in Nat /\ ls[i][p] <= x
    <3>1. ls[i][p] \in Nat
      BY ElementsNat
    <3>2. ls[i][p] <= x
      BY DEF Covers
    <3>. QED  BY <3>1, <3>2
  <2>1. CASE q <= Len(pe)
    <3>1. q \in 1..Len(pe) /\ all[q] = pe[q]
      BY <2>1, <1>2, <1>3
    <3>. QED  BY <3>1 DEF InOrder
  <2>2. CASE q > Len(pe)
    <3>1. all[q] = x + (q - Len(pe))
      BY <2>2, <1>4
    <3>2. q - Len(pe) > 0 /\ q - Len(pe) \in Int
      BY <2>2, <1>2
    <3>. DEFINE v == ls[i][p]
                d == q - Len(pe)
    <3>3. v \in Nat /\ v <= x /\ d > 0 /\ d \in Int /\ all[q] = x + d
      BY <2>0, <3>1, <3>2
    <3>. HIDE DEF all, v, d
    <3>4. v < x + d
      BY <3>3
    <3>5. v < all[q]
      BY <3>3, <3>4
    <3>. QED  BY <3>5 DEF v
  <2>3. q <= Len(pe) \/ q > Len(pe)
    BY <1>2
  <2>. QED  BY <2>1, <2>2, <2>3
<1>. QED  BY <1>5, <1>6 DEF InOrder

\* Cutting a line off the front of the rest keeps the order.
LEMMA InOrderSplit ==
  ASSUME NEW ls \in Seq(Seq(Nat)), NEW pe \in Seq(Nat),
         NEW k \in 1..Len(pe), InOrder(ls, pe)
  PROVE  /\ InOrder(ls, SubSeq(pe, k + 1, Len(pe)))
         /\ InOrder(Append(ls, SubSeq(pe, 1, k - 1)), SubSeq(pe, k + 1, Len(pe)))
<1>. DEFINE rest == SubSeq(pe, k + 1, Len(pe))
            line == SubSeq(pe, 1, k - 1)
            ls2  == Append(ls, line)
<1>1. \A q \in 1..Len(rest) : q + k \in 1..Len(pe) /\ rest[q] = pe[q + k]
  OBVIOUS
<1>2. \A p \in 1..Len(line) : p \in 1..Len(pe) /\ p < k /\ line[p] = pe[p]
  OBVIOUS
<1>0. \A p, q \in 1..Len(pe) : p < q => pe[p] < pe[q]
  BY DEF InOrder
<1>3. ASSUME NEW p \in 1..Len(rest), NEW q \in 1..Len(rest), p < q
      PROVE  rest[p] < rest[q]
  <2>1. p + k \in 1..Len(pe) /\ q + k \in 1..Len(pe) /\ p + k < q + k
    BY <1>1, <1>3
  <2>. QED  BY <1>0, <1>1, <2>1
<1>4. \A i \in 1..Len(ls) : \A p \in 1..Len(ls[i]), q \in 1..Len(rest) :
        ls[i][p] < rest[q]
  BY <1>1 DEF InOrder
<1>5. InOrder(ls, rest)
  BY <1>3, <1>4 DEF InOrder
<1>6. \A i \in 1..Len(ls) : ls2[i] = ls[i]
  OBVIOUS
<1>7. ls2[Len(ls) + 1] = line /\ Len(ls2) = Len(ls) + 1
  OBVIOUS
<1>8. ASSUME NEW p \in 1..Len(line), NEW q \in 1..Len(rest)
      PROVE  line[p] < rest[q]
  <2>1. p \in 1..Len(pe) /\ q + k \in 1..Len(pe) /\ p < q + k
    BY <1>1, <1>2
  <2>. QED  BY <1>0, <1>1, <1>2, <2>1
<1>9. ASSUME NEW i \in 1..Len(ls2), NEW p \in 1..Len(ls2[i]), NEW q \in 1..Len(rest)
      PROVE  ls2[i][p] < rest[q]
  <2>1. CASE i \in 1..Len(ls)
    BY <2>1, <1>4, <1>6
  <2>2. CASE i = Len(ls) + 1
    BY <2>2, <1>7, <1>8
  <2>3. i \in 1..Len(ls) \/ i = Len(ls) + 1
    <3>. DEFINE m == Len(ls)
    <3>1. m \in Nat /\ i \in 1..(m + 1)
      BY <1>7
    <3>. HIDE DEF m
    <3>2. i \in 1..m \/ i = m + 1
      BY <3>1
    <3>. QED  BY <3>2 DEF m
  <2>. QED  BY <2>1, <2>2, <2>3
<1>10. ASSUME NEW i \in 1..Len(ls2), NEW j \in 1..Len(ls2),
              NEW p \in 1..Len(ls2[i]), NEW q \in 1..Len(ls2[j]),
              i < j \/ (i = j /\ p < q)
       PROVE  ls2[i][p] < ls2[j][q]
  <2>1. CASE j \in 1..Len(ls)
    <3>1. i \in 1..Len(ls)
      BY <2>1, <1>7, <1>10
    <3>. QED  BY <2>1, <3>1, <1>6, <1>10 DEF InOrder
  <2>2. CASE j = Len(ls) + 1 /\ i = j
    BY <2>2, <1>7, <1>2, <1>10 DEF InOrder
  <2>3. CASE j = Len(ls) + 1 /\ i \in 1..Len(ls)
    BY <2>3, <1>6, <1>7, <1>2 DEF InOrder
  <2>4. \/ j \in 1..Len(ls)
        \/ j = Len(ls) + 1 /\ (i = j \/ i \in 1..Len(ls))
    <3>1. Len(ls) \in Nat
      OBVIOUS
    <3>. DEFINE m == Len(ls)
    <3>2. i \in 1..(m + 1) /\ j \in 1..(m + 1) /\ m \in Nat
      BY <3>1, <1>7
    <3>3. i < j \/ i = j
      BY <1>10
    <3>. HIDE DEF m
    <3>4. j \in 1..m \/ (j = m + 1 /\ (i = j \/ i \in 1..m))
      BY <3>2, <3>3
    <3>. QED  BY <3>4 DEF m
  <2>. QED  BY <2>1, <2>2, <2>3, <2>4
<1>. QED  BY <1>3, <1>5, <1>9, <1>10 DEF InOrder

-----------------------------------------------------------------------------
(* The lines of this pass.                                                 *)

\* Lowering the floor keeps what is covered.
LEMMA CoversLower ==
  ASSUME NEW x \in Nat, NEW ls \in Seq(Seq(Nat)), NEW pe \in Seq(Nat), NEW op \in Nat,
         Covers(x, ls, pe, op)
  PROVE  Covers(x, ls, pe, 0)
<1>1. \A v \in Nat : op < v => 0 < v
  OBVIOUS
<1>2. ASSUME NEW i \in 1..Len(ls), NEW p \in 1..Len(ls[i])
      PROVE  0 < ls[i][p] /\ ls[i][p] <= x
  <2>1. ls[i][p] \in Nat
    BY ElementsNat
  <2>. QED  BY <1>1, <2>1 DEF Covers
<1>3. ASSUME NEW k \in 1..Len(pe) PROVE 0 < pe[k] /\ pe[k] <= x
  <2>1. pe[k] \in Nat
    BY ElementNat
  <2>. QED  BY <1>1, <2>1 DEF Covers
<1>. QED  BY <1>2, <1>3 DEF Covers

\* The lines after the first r are lines; none when r is their number, all when
\* it is 0.
LEMMA TailOfLines ==
  ASSUME NEW ls \in Seq(Seq(Nat)), NEW r \in 0..Len(ls)
  PROVE  LET pass == SubSeq(ls, r + 1, Len(ls)) IN
         /\ pass \in Seq(Seq(Nat))
         /\ Len(pass) = Len(ls) - r
         /\ \A i \in 1..Len(pass) : pass[i] = ls[r + i]
         /\ r = Len(ls) => pass = <<>>
         /\ r = 0 => pass = ls
<1>. DEFINE pass == SubSeq(ls, r + 1, Len(ls))
<1>1. pass \in Seq(Seq(Nat))
  OBVIOUS
<1>2. Len(pass) = Len(ls) - r /\ \A i \in 1..Len(pass) : pass[i] = ls[r + i]
  <2>1. Len(ls) \in Nat /\ r \in Nat /\ r <= Len(ls)
    OBVIOUS
  <2>2. Len(pass) = Len(ls) - r
    BY <2>1
  <2>3. ASSUME NEW i \in 1..Len(pass) PROVE pass[i] = ls[r + i]
    <3>1. i \in 1..(Len(ls) - r) /\ (r + 1) + i - 1 = r + i
      BY <2>1, <2>2
    <3>. QED  BY <2>1, <3>1
  <2>. QED  BY <2>2, <2>3
<1>3. ASSUME r = Len(ls) PROVE pass = <<>>
  <2>1. Len(pass) = 0
    BY <1>2, <1>3
  <2>. HIDE DEF pass
  <2>. QED  BY <1>1, <2>1
<1>4. ASSUME r = 0 PROVE pass = ls
  BY <1>4
<1>. QED  BY <1>1, <1>2, <1>3, <1>4

\* A sequence is the function of its elements.
LEMMA SeqIsFunction ==
  ASSUME NEW S, NEW l \in Seq(S)
  PROVE  l = [i \in 1..Len(l) |-> l[i]]
OBVIOUS

\* One more line is one more of those after the first r.
LEMMA TailOfAppend ==
  ASSUME NEW ls \in Seq(Seq(Nat)), NEW r \in 0..Len(ls), NEW l \in Seq(Nat)
  PROVE  SubSeq(Append(ls, l), r + 1, Len(Append(ls, l)))
           = Append(SubSeq(ls, r + 1, Len(ls)), l)
<1>. DEFINE all  == Append(ls, l)
            pass == SubSeq(ls, r + 1, Len(ls))
            more == SubSeq(all, r + 1, Len(all))
<1>1. /\ all \in Seq(Seq(Nat)) /\ Len(all) = Len(ls) + 1 /\ all[Len(ls) + 1] = l
      /\ \A i \in 1..Len(ls) : all[i] = ls[i]
  OBVIOUS
<1>2. /\ pass \in Seq(Seq(Nat)) /\ Len(pass) = Len(ls) - r
      /\ \A i \in 1..Len(pass) : pass[i] = ls[r + i]
  BY TailOfLines
<1>3. r \in 0..Len(all) /\ r \in Nat /\ Len(ls) \in Nat
  BY <1>1
<1>. HIDE DEF all
<1>4. /\ more \in Seq(Seq(Nat)) /\ Len(more) = Len(all) - r
      /\ \A i \in 1..Len(more) : more[i] = all[r + i]
  BY <1>1, <1>3, TailOfLines
<1>. HIDE DEF pass, more
<1>5. /\ Append(pass, l) \in Seq(Seq(Nat)) /\ Len(Append(pass, l)) = Len(pass) + 1
      /\ Append(pass, l)[Len(pass) + 1] = l
      /\ \A i \in 1..Len(pass) : Append(pass, l)[i] = pass[i]
  BY <1>2
<1>6. Len(more) = Len(Append(pass, l))
  BY <1>1, <1>2, <1>3, <1>4, <1>5
<1>7. ASSUME NEW i \in 1..Len(more) PROVE more[i] = Append(pass, l)[i]
  <2>1. CASE i \in 1..Len(pass)
    <3>1. r + i \in 1..Len(ls)
      BY <1>2, <1>3, <2>1
    <3>. QED  BY <1>1, <1>2, <1>4, <1>5, <2>1, <3>1
  <2>2. CASE i = Len(pass) + 1
    <3>1. r + i = Len(ls) + 1
      BY <1>2, <1>3, <2>2
    <3>. QED  BY <1>1, <1>4, <1>5, <2>2, <3>1
  <2>3. i \in 1..Len(pass) \/ i = Len(pass) + 1
    <3>1. Len(pass) \in Nat /\ i \in 1..(Len(pass) + 1)
      BY <1>2, <1>5, <1>6
    <3>. QED  BY <3>1
  <2>. QED  BY <2>1, <2>2, <2>3
<1>8. more = Append(pass, l)
  <2>1. /\ more = [i \in 1..Len(more) |-> more[i]]
        /\ Append(pass, l) = [i \in 1..Len(Append(pass, l)) |-> Append(pass, l)[i]]
    BY <1>4, <1>5, SeqIsFunction
  <2>. QED  BY <1>6, <1>7, <2>1
<1>. QED  BY <1>8 DEF all, pass, more

\* The types of Pass and Floor.
LEMMA PassNat ==
  TypeOK => Pass \in Seq(Seq(Nat)) /\ Floor \in Nat /\ restart \in 0..Len(lines)
            /\ (lines = <<>> => Pass = <<>>)
<1>. SUFFICES ASSUME TypeOK
              PROVE  Pass \in Seq(Seq(Nat)) /\ Floor \in Nat /\ restart \in 0..Len(lines)
                     /\ (lines = <<>> => Pass = <<>>)
  OBVIOUS
<1>1. lines \in Seq(Seq(Nat)) /\ restart \in 0..Len(lines) /\ opened \in Nat
  BY DEF TypeOK
<1>2. lines = <<>> => restart = Len(lines)
  BY <1>1
<1>. QED  BY <1>1, <1>2, TailOfLines DEF Pass, Floor

\* The line that is cut off, if any, is one more of this pass.
LEMMA PassSplit ==
  ASSUME TypeOK, NEW k \in 1..Len(pending), restart' = restart,
         lines' = IF k = 1 THEN lines ELSE Append(lines, SubSeq(pending, 1, k - 1))
  PROVE  Pass' = IF k = 1 THEN Pass ELSE Append(Pass, SubSeq(pending, 1, k - 1))
<1>1. lines \in Seq(Seq(Nat)) /\ restart \in 0..Len(lines) /\ pending \in Seq(Nat)
  BY DEF TypeOK
<1>2. SubSeq(pending, 1, k - 1) \in Seq(Nat)
  BY <1>1, CutNat
<1>. QED  BY <1>1, <1>2, TailOfAppend DEF Pass

-----------------------------------------------------------------------------
(* Type correctness.                                                       *)

\* The types, before Tail begins.
LEMMA InitTypeOK == Init => TypeOK
<1>1. <<>> \in Seq(Nat) /\ <<>> \in Seq(Seq(Nat))
  OBVIOUS
<1>2. Init => /\ base \in [Inodes -> Nat] /\ size \in [Inodes -> Nat]
              /\ pending \in Seq(Nat) /\ lines \in Seq(Seq(Nat))
              /\ nl \subseteq 1..n
  BY <1>1 DEF Init
<1>3. Init => /\ n \in 0..MaxBytes /\ inodes \in 0..MaxInodes
              /\ truncs \in 0..MaxTruncs /\ wfd \in 0..inodes /\ fd \in 0..inodes
              /\ path \in {0, inodes} /\ pos \in Nat /\ opened \in Nat /\ from \in Nat
              /\ statErrs \in 0..MaxStatErrs /\ restart \in 0..Len(lines)
  BY TailerAssumption DEF Init
<1>. QED  BY <1>2, <1>3 DEF Init, TypeOK, PCs

\* Every step keeps the types.
LEMMA NextTypeOK == TypeOK /\ [Next]_vars => TypeOK'
<1>. SUFFICES ASSUME TypeOK, [Next]_vars PROVE TypeOK'
  OBVIOUS
<1>. USE TailerAssumption DEF TypeOK, PCs, Inodes, envVars, tailVars
<1>1. CASE Write
  <2>1. wfd \in Inodes
    BY <1>1 DEF Write
  <2>2. n' \in 0..MaxBytes /\ nl' \subseteq 1..n'
    <3>1. n \in Nat /\ nl \subseteq 1..n
      OBVIOUS
    <3>. HIDE DEF TypeOK
    <3>3. n < MaxBytes /\ n' = n + 1 /\ nl' \in {nl, nl \cup {n + 1}}
      BY <1>1 DEF Write
    <3>2. n' \in 0..MaxBytes
      BY <3>1, <3>3
    <3>. QED  BY <3>1, <3>2, <3>3
  <2>3. base' \in [Inodes -> Nat]
    <3>1. CASE size[wfd] = 0
      <4>1. base' = [base EXCEPT ![wfd] = n] /\ n \in Nat
        BY <1>1, <3>1 DEF Write
      <4>. QED  BY <2>1, <4>1
    <3>2. CASE size[wfd] # 0
      BY <1>1, <2>1, <3>2 DEF Write
    <3>. QED  BY <3>1, <3>2
  <2>4. size' \in [Inodes -> Nat]
    <3>1. size \in [Inodes -> Nat]
      OBVIOUS
    <3>. HIDE DEF TypeOK, Inodes
    <3>2. size' = [size EXCEPT ![wfd] = size[wfd] + 1]
      BY <1>1 DEF Write
    <3>3. size[wfd] + 1 \in Nat
      BY <2>1, <3>1
    <3>. QED  BY <3>1, <3>2, <3>3
  <2>. QED  BY <1>1, <2>2, <2>3, <2>4 DEF Write
<1>2. CASE Create
  BY <1>2 DEF Create
<1>3. CASE Rename
  BY <1>3 DEF Rename
<1>4. CASE LoggerReopen
  BY <1>4 DEF LoggerReopen
<1>5. CASE Truncate
  <2>1. size' = [size EXCEPT ![path] = 0] /\ truncs' = truncs + 1 /\ truncs < MaxTruncs
    BY <1>5 DEF Truncate
  <2>2. size' \in [Inodes -> Nat] /\ truncs' \in 0..MaxTruncs
    <3>1. size \in [Inodes -> Nat] /\ truncs \in 0..MaxTruncs
      OBVIOUS
    <3>. HIDE DEF TypeOK
    <3>2. size' \in [Inodes -> Nat]
      BY <2>1, <3>1
    <3>3. truncs' \in 0..MaxTruncs
      BY <2>1, <3>1
    <3>. QED  BY <3>2, <3>3
  <2>. QED  BY <1>5, <2>2 DEF Truncate
<1>6. CASE Cancel
  BY <1>6 DEF Cancel
<1>7. CASE OpenFile
  <2>1. restart' \in 0..Len(lines') /\ lines' = lines
    BY <1>7 DEF OpenFile
  <2>. QED  BY <1>7, <2>1 DEF OpenFile
<1>8. CASE OpenFails
  BY <1>8 DEF OpenFails
<1>9. CASE RetryOpen
  BY <1>9 DEF RetryOpen
<1>10. CASE CancelRetry
  BY <1>10 DEF CancelRetry
<1>11. CASE SeekEnd
  <2>1. fd \in Inodes
    BY <1>11 DEF SeekEnd
  <2>. QED  BY <1>11, <2>1 DEF SeekEnd
<1>12. CASE SeekFails
  BY <1>12 DEF SeekFails
<1>13. CASE Tick
  BY <1>13 DEF Tick
<1>14. CASE Stop
  BY <1>14 DEF Stop
<1>15. CASE CheckRotation
  <2>1. statErrs' \in 0..MaxStatErrs
    <3>1. statErrs \in 0..MaxStatErrs
      OBVIOUS
    <3>. HIDE DEF TypeOK
    <3>2. PICK statFails \in IF statErrs < MaxStatErrs THEN BOOLEAN ELSE {FALSE} :
            statErrs' = IF statFails THEN statErrs + 1 ELSE statErrs
      BY <1>15 DEF CheckRotation
    <3>3. CASE statErrs < MaxStatErrs
      BY <3>1, <3>2, <3>3
    <3>4. CASE ~(statErrs < MaxStatErrs)
      BY <3>1, <3>2, <3>4
    <3>. QED  BY <3>3, <3>4
  <2>. QED  BY <1>15, <2>1 DEF CheckRotation
<1>16. CASE CheckTruncation
  <2>1. <<>> \in Seq(Nat)
    OBVIOUS
  <2>2. CASE isTruncated
    BY <1>16, <2>1, <2>2 DEF CheckTruncation
  <2>3. CASE ~isTruncated
    BY <1>16, <2>3 DEF CheckTruncation
  <2>. QED  BY <2>2, <2>3
<1>17. CASE StatFails
  BY <1>17 DEF StatFails
<1>18. CASE Read
  <2>1. fd \in Inodes
    BY <1>18 DEF Read
  <2>2. readCount \in Nat /\ base[fd] + pos \in Nat
    <3>1. size[fd] \in Nat /\ base[fd] \in Nat /\ pos \in Nat
      BY <2>1
    <3>. HIDE DEF TypeOK
    <3>. QED  BY <3>1, ReadCountNat
  <2>3. [k \in 1..readCount |-> base[fd] + pos + k] \in Seq(Nat)
    BY <2>2, RunNat
  <2>. DEFINE run == [k \in 1..readCount |-> base[fd] + pos + k]
  <2>4. pending' \in Seq(Nat) /\ pos' \in Nat
    <3>1. pending \in Seq(Nat) /\ pos \in Nat
      OBVIOUS
    <3>. HIDE DEF TypeOK
    <3>2. pending' = pending \o run /\ pos' = pos + readCount
      BY <1>18 DEF Read
    <3>. HIDE DEF run
    <3>. QED  BY <2>2, <2>3, <3>1, <3>2 DEF run
  <2>. QED  BY <1>18, <2>4 DEF Read
<1>19. CASE ReadFails
  BY <1>19 DEF ReadFails
<1>20. CASE SplitLine
  <2>1. PICK k \in 1..Len(pending) :
          /\ lines' = IF k = 1 THEN lines
                      ELSE Append(lines, SubSeq(pending, 1, k - 1))
          /\ pending' = SubSeq(pending, k + 1, Len(pending))
    BY <1>20 DEF SplitLine
  <2>2. SubSeq(pending, 1, k - 1) \in Seq(Nat)
    BY CutNat
  <2>3. SubSeq(pending, k + 1, Len(pending)) \in Seq(Nat)
    BY CutNat
  <2>4. lines' \in Seq(Seq(Nat)) /\ Len(lines) <= Len(lines')
    BY <2>1, <2>2
  <2>5. restart' \in 0..Len(lines')
    <3>1. restart' = restart /\ restart \in 0..Len(lines) /\ Len(lines') \in Nat
      <4>1. Len(lines') \in Nat
        BY <2>4
      <4>. HIDE DEF TypeOK
      <4>. QED  BY <1>20, <4>1 DEF SplitLine, TypeOK
    <3>2. \A a, b, c \in Nat : c <= a /\ a <= b => c \in 0..b
      OBVIOUS
    <3>3. Len(lines) \in Nat
      BY <2>4
    <3>. HIDE DEF TypeOK
    <3>. QED  BY <2>4, <3>1, <3>2, <3>3
  <2>. QED  BY <1>20, <2>1, <2>3, <2>4, <2>5 DEF SplitLine
<1>21. CASE SplitDone
  BY <1>21 DEF SplitDone
<1>22. CASE UNCHANGED vars
  BY <1>22 DEF vars
<1>. QED  BY <1>1, <1>2, <1>3, <1>4, <1>5, <1>6, <1>7, <1>8, <1>9, <1>10, <1>11,
             <1>12, <1>13, <1>14, <1>15, <1>16, <1>17, <1>18, <1>19, <1>20,
             <1>21, <1>22 DEF Next, Environment, TailStep

-----------------------------------------------------------------------------
(* The files.                                                              *)

\* Every step keeps the files in order; the logger and the rotator are
\* those that can disturb it.
LEMMA NextFilesInv == TypeOK /\ FilesInv /\ [Next]_vars => FilesInv'
<1>. SUFFICES ASSUME TypeOK, FilesInv, [Next]_vars PROVE FilesInv'
  OBVIOUS
<1>. USE TailerAssumption DEF Inodes
<1>0. base \in [Inodes -> Nat] /\ size \in [Inodes -> Nat] /\ n \in Nat
      /\ wfd \in Nat /\ wfd <= inodes /\ inodes \in Nat /\ inodes <= MaxInodes
  BY DEF TypeOK
<1>1. CASE Write
  <2>1. wfd \in Inodes
    BY <1>0, <1>1 DEF Write
  <2>2. n' = n + 1 /\ wfd' = wfd
    BY <1>1 DEF Write
  <2>3. \A i \in Inodes : i # wfd => base'[i] = base[i] /\ size'[i] = size[i]
    BY <1>0, <1>1 DEF Write
  <2>5. size[wfd] = 0 => base'[wfd] = n
    BY <1>0, <1>1, <2>1 DEF Write
  <2>6. size[wfd] > 0 => base'[wfd] = base[wfd]
    BY <1>0, <1>1, <2>1 DEF Write
  <2>10. size'[wfd] = size[wfd] + 1 /\ size[wfd] \in Nat /\ base[wfd] \in Nat
    BY <1>0, <1>1, <2>1 DEF Write
  <2>11. size[wfd] > 0 => base[wfd] + size[wfd] = n
    BY <1>0, <2>1 DEF FilesInv
  <2>4. size'[wfd] > 0 /\ base'[wfd] + size'[wfd] = n + 1
    <3>1. CASE size[wfd] = 0
      BY <1>0, <2>5, <2>10, <3>1
    <3>2. CASE size[wfd] > 0
      <4>. DEFINE b == base[wfd]
                  z == size[wfd]
      <4>1. base'[wfd] = base[wfd] /\ b + z = n
        BY <2>6, <2>11, <3>2
      <4>2. b + (z + 1) = n + 1
        <5>1. b \in Nat /\ z \in Nat
          BY <2>10
        <5>. HIDE DEF b, z
        <5>. QED  BY <4>1, <5>1
      <4>. QED  BY <2>10, <4>1, <4>2
    <3>. QED  BY <2>10, <3>1, <3>2
  <2>7. ASSUME NEW i \in Inodes, size'[i] > 0
        PROVE  base'[i] + size'[i] <= n'
    <3>1. CASE i = wfd
      BY <1>0, <2>2, <2>4, <3>1
    <3>2. CASE i # wfd
      <4>1. base'[i] + size'[i] <= n
        BY <2>3, <2>7, <3>2 DEF FilesInv
      <4>2. base'[i] + size'[i] \in Nat
        BY <1>0, <2>3, <3>2
      <4>. QED  BY <1>0, <2>2, <4>1, <4>2
    <3>. QED  BY <3>1, <3>2
  <2>8. ASSUME NEW i \in Inodes, NEW j \in Inodes, i < j, size'[i] > 0, size'[j] > 0
        PROVE  base'[i] + size'[i] <= base'[j]
    <3>1. CASE j = wfd
      <4>1. base'[i] = base[i] /\ size'[i] = size[i] /\ size[i] > 0
        BY <2>3, <2>8, <3>1
      <4>2. CASE size[wfd] = 0
        BY <2>5, <3>1, <4>1, <4>2 DEF FilesInv
      <4>3. CASE size[wfd] > 0
        BY <2>1, <2>6, <2>8, <3>1, <4>1, <4>3 DEF FilesInv
      <4>. QED  BY <2>10, <4>2, <4>3
    <3>2. CASE i = wfd
      BY <1>0, <2>1, <2>3, <2>8, <3>2 DEF FilesInv
    <3>3. CASE i # wfd /\ j # wfd
      BY <1>0, <2>3, <2>8, <3>3 DEF FilesInv
    <3>. QED  BY <3>1, <3>2, <3>3
  <2>9. \A i \in Inodes : i > wfd' => size'[i] = 0
    BY <1>0, <2>1, <2>2, <2>3 DEF FilesInv
  <2>. QED  BY <2>2, <2>4, <2>7, <2>8, <2>9 DEF FilesInv
<1>2. CASE LoggerReopen
  <2>1. path = inodes /\ wfd' = inodes /\ n' = n /\ base' = base /\ size' = size
    BY <1>2 DEF LoggerReopen, TypeOK
  <2>2. wfd' > wfd /\ wfd' \in Inodes
    BY <1>0, <1>2, <2>1 DEF LoggerReopen
  <2>3. size[wfd'] = 0
    BY <2>2 DEF FilesInv
  <2>. QED  BY <1>0, <2>1, <2>2, <2>3 DEF FilesInv
<1>3. CASE Truncate
  <2>1. /\ n' = n /\ base' = base /\ wfd' = wfd
        /\ \A i \in Inodes : size'[i] = size[i] \/ size'[i] = 0
    BY <1>0, <1>3 DEF Truncate
  <2>2. \A i \in Inodes : size'[i] > 0 => size'[i] = size[i]
    BY <2>1
  <2>3. \A i \in Inodes : size'[i] > 0 => base'[i] + size'[i] <= n'
    BY <1>0, <2>1, <2>2 DEF FilesInv
  <2>4. \A i, j \in Inodes :
          (i < j /\ size'[i] > 0 /\ size'[j] > 0) => base'[i] + size'[i] <= base'[j]
    BY <1>0, <2>1, <2>2 DEF FilesInv
  <2>5. \A i \in Inodes : i > wfd' => size'[i] = 0
    BY <1>0, <2>1 DEF FilesInv
  <2>6. (wfd' # 0 /\ size'[wfd'] > 0) => base'[wfd'] + size'[wfd'] = n'
    BY <1>0, <2>1, <2>2 DEF FilesInv
  <2>. QED  BY <2>3, <2>4, <2>5, <2>6 DEF FilesInv
<1>4. CASE UNCHANGED <<n, base, size, wfd>>
  BY <1>4 DEF FilesInv
<1>. QED  BY <1>1, <1>2, <1>3, <1>4
          DEF Next, Environment, TailStep, Create, Rename, Cancel,
              OpenFile, OpenFails, RetryOpen, CancelRetry, SeekEnd, SeekFails,
              Tick, Stop, CheckRotation, CheckTruncation, StatFails, Read,
              ReadFails, SplitLine, SplitDone, envVars, vars

-----------------------------------------------------------------------------
(* The offset.                                                             *)

\* Every step leaves what is still to be read beyond what was read; a
\* truncation does, since what is written after it lies beyond it.
LEMMA NextReadInv == TypeOK /\ FilesInv /\ ReadInv /\ [Next]_vars => ReadInv'
<1>. SUFFICES ASSUME TypeOK, FilesInv, ReadInv, [Next]_vars PROVE ReadInv'
  OBVIOUS
<1>. USE TailerAssumption DEF Inodes
<1>0. /\ base \in [Inodes -> Nat] /\ size \in [Inodes -> Nat] /\ n \in Nat
      /\ wfd \in Nat /\ wfd <= inodes /\ inodes \in Nat /\ inodes <= MaxInodes
      /\ fd \in Nat /\ fd <= inodes /\ path \in {0, inodes}
      /\ pos \in Nat /\ opened \in Nat /\ pending \in Seq(Nat)
      /\ lines \in Seq(Seq(Nat)) /\ Pass \in Seq(Seq(Nat)) /\ Floor \in Nat
      /\ (lines = <<>> => Pass = <<>>)
  BY PassNat DEF TypeOK
<1>a. pc \notin {"open", "openRetry", "done"} => fd \in Inodes
  BY <1>0 DEF TypeOK
<1>b. \A x, y \in Nat : (x <= y /\ Covered(x)) => Covered(y)
  BY <1>0, CoversMonotone DEF Covered
<1>c. UNCHANGED <<lines, restart, pending, opened, statErrs>> =>
        \A x : Covered(x) <=> Covers(x, Pass', pending', Floor')
  BY DEF Covered, Pass, Floor
<1>1. CASE Write
  <2>1. wfd \in Inodes
    BY <1>0, <1>1 DEF Write
  <2>2. /\ n' = n + 1 /\ fd' = fd /\ pos' = pos /\ pc' = pc /\ path' = path
        /\ UNCHANGED <<lines, restart, pending, opened, statErrs>>
    BY <1>1 DEF Write, tailVars
  <2>3. \A i \in Inodes : i # wfd => base'[i] = base[i] /\ size'[i] = size[i]
    BY <1>0, <1>1 DEF Write
  <2>4. size'[wfd] = size[wfd] + 1 /\ size[wfd] \in Nat /\ base[wfd] \in Nat
    BY <1>0, <1>1, <2>1 DEF Write
  <2>5. base'[wfd] = IF size[wfd] = 0 THEN n ELSE base[wfd]
    BY <1>0, <1>1, <2>1 DEF Write
  <2>6. Covered(n) /\ Covered(n + 1)
    BY <1>0, <1>b DEF ReadInv
  <2>7. ASSUME NEW i \in Inodes, i > fd, size'[i] > 0
        PROVE  Covered(base'[i])
    <3>1. CASE i # wfd
      BY <2>3, <2>7, <3>1 DEF ReadInv
    <3>2. CASE i = wfd /\ size[wfd] = 0
      BY <2>5, <2>6, <3>2
    <3>3. CASE i = wfd /\ size[wfd] # 0
      BY <2>4, <2>5, <2>7, <3>3 DEF ReadInv
    <3>. QED  BY <3>1, <3>2, <3>3
  <2>8. ASSUME pc \notin {"open", "openRetry", "seek", "done"}, size'[fd] > 0
        PROVE  Covered(base'[fd] + pos) /\ (pos > size'[fd] => Covered(base'[fd]))
    <3>0. fd \in Inodes
      BY <1>a, <2>8
    <3>1. CASE fd # wfd
      BY <2>3, <2>8, <3>0, <3>1 DEF ReadInv
    <3>2. CASE fd = wfd /\ size[wfd] = 0
      <4>1. base'[fd] = n /\ n + pos \in Nat /\ n <= n + pos
        BY <1>0, <2>5, <3>2
      <4>. QED  BY <1>0, <1>b, <2>6, <4>1
    <3>3. CASE fd = wfd /\ size[wfd] # 0
      <4>1. base'[fd] = base[fd] /\ size[fd] > 0
        BY <2>4, <2>5, <3>3
      <4>2. pos > size'[fd] => pos > size[fd]
        BY <1>0, <2>4, <3>3
      <4>. QED  BY <2>8, <4>1, <4>2 DEF ReadInv
    <3>. QED  BY <3>1, <3>2, <3>3
  <2>9. ASSUME pc = "seek", size'[fd] > 0
        PROVE  Covered(base'[fd] + size'[fd])
    <3>0. fd \in Inodes
      BY <1>a, <2>9
    <3>1. CASE fd # wfd
      BY <2>3, <2>9, <3>0, <3>1 DEF ReadInv
    <3>2. CASE fd = wfd /\ size[wfd] = 0
      <4>1. base'[fd] + size'[fd] = n + 1
        BY <1>0, <2>4, <2>5, <3>2
      <4>. QED  BY <2>6, <4>1
    <3>3. CASE fd = wfd /\ size[wfd] # 0
      <4>1. base'[fd] = base[fd] /\ size[fd] > 0
        BY <2>4, <2>5, <3>3
      <4>2. Covered(base[fd] + size[fd])
        BY <2>9, <4>1 DEF ReadInv
      <4>3. /\ base[fd] + size[fd] \in Nat /\ base[fd] + size'[fd] \in Nat
            /\ base[fd] + size[fd] <= base[fd] + size'[fd]
        BY <2>4, <3>3
      <4>. QED  BY <1>b, <4>1, <4>2, <4>3
    <3>. QED  BY <3>1, <3>2, <3>3
  <2>. QED  BY <1>c, <2>2, <2>6, <2>7, <2>8, <2>9 DEF ReadInv, Covered, Pass, Floor
<1>2. CASE Truncate
  <2>1. /\ n' = n /\ fd' = fd /\ pos' = pos /\ pc' = pc /\ path' = path
        /\ base' = base /\ UNCHANGED <<lines, restart, pending, opened, statErrs>>
    BY <1>2 DEF Truncate, tailVars
  <2>2. \A i \in Inodes : size'[i] > 0 => size'[i] = size[i]
    BY <1>0, <1>2 DEF Truncate
  <2>3. \A i \in Inodes : (i > fd /\ size'[i] > 0) => Covered(base[i])
    BY <2>2 DEF ReadInv
  <2>4. ASSUME pc \notin {"open", "openRetry", "seek", "done"}, size'[fd] > 0
        PROVE  Covered(base[fd] + pos) /\ (pos > size'[fd] => Covered(base[fd]))
    BY <1>a, <2>2, <2>4 DEF ReadInv
  <2>5. ASSUME pc = "seek", size'[fd] > 0
        PROVE  Covered(base[fd] + size'[fd])
    BY <1>a, <2>2, <2>5 DEF ReadInv
  <2>. QED  BY <1>c, <2>1, <2>3, <2>4, <2>5 DEF ReadInv, Covered, Pass, Floor
<1>3. CASE Create \/ Rename
  <2>1. /\ n' = n /\ fd' = fd /\ pos' = pos /\ pc' = pc
        /\ base' = base /\ size' = size /\ UNCHANGED <<lines, restart, pending, opened, statErrs>>
    BY <1>3 DEF Create, Rename, tailVars
  <2>2. pc \in {"reopen", "reopenRetry"} => path' # fd
    <3>1. (fd \in 1..inodes /\ inodes \in Nat) \/ pc \notin {"reopen", "reopenRetry"}
      BY <1>0, <1>a
    <3>2. path' \in {0, inodes + 1}
      BY <1>3 DEF Create, Rename
    <3>. QED  BY <3>1, <3>2
  <2>. QED  BY <2>1, <2>2 DEF ReadInv, Covered, Pass, Floor
<1>4. CASE LoggerReopen \/ Cancel
  BY <1>4 DEF LoggerReopen, Cancel, envVars, tailVars, ReadInv, Covered, Pass, Floor
<1>5. CASE OpenFile
  <2>1. /\ n' = n /\ base' = base /\ size' = size /\ path' = path
        /\ fd' = path /\ pos' = 0 /\ lines' = lines /\ pending' = <<>>
        /\ statErrs' = statErrs /\ restart' = IF path = fd THEN Len(lines) ELSE restart
    BY <1>5 DEF OpenFile, envVars
  <2>2. path = inodes /\ path \in Inodes
    BY <1>0, <1>5 DEF OpenFile
  <2>3. CASE pc = "open"
    <3>1. /\ lines' = <<>> /\ opened' = n /\ pc' = "seek"
      BY <1>5, <2>1, <2>3 DEF OpenFile, ReadInv
    <3>5. Pass' = <<>> /\ Floor' <= n
      <4>1. restart' = Len(lines') /\ restart' \in 0..Len(lines') /\ lines' \in Seq(Seq(Nat))
        BY <1>0, <2>1, <3>1, PassNat
      <4>2. Pass' = <<>>
        BY <4>1, TailOfLines DEF Pass
      <4>. QED  BY <1>0, <3>1, <4>2 DEF Floor
    <3>2. Covers(n, Pass', pending', Floor')
      BY <2>1, <3>5, CoversNothing
    <3>3. \A i \in Inodes : i > path => size[i] = 0
      BY <1>0, <2>2 DEF FilesInv
    <3>4. size[path] > 0 => base[path] + size[path] = n
      <4>1. path > wfd => size[path] = 0
        BY <2>2 DEF FilesInv
      <4>2. path > wfd \/ path = wfd
        BY <1>0, <2>2
      <4>3. path = wfd /\ path # 0
            => (size[path] > 0 => base[path] + size[path] = n)
        BY DEF FilesInv
      <4>. QED  BY <2>2, <4>1, <4>2, <4>3
    <3>. QED  BY <2>1, <3>1, <3>2, <3>3, <3>4, <3>5 DEF ReadInv, Covered
  <2>5. CASE pc = "reopen" /\ path = fd
    <3>1. opened' = opened /\ pc' = "wait" /\ statErrs # 0 /\ statErrs' # 0
      BY <1>5, <2>1, <2>5 DEF OpenFile, ReadInv
    <3>2. Pass' = <<>> /\ Floor' = 0
      <4>1. restart' = Len(lines') /\ restart' \in 0..Len(lines') /\ lines' \in Seq(Seq(Nat))
        <5>1. restart' = Len(lines') /\ Len(lines') \in Nat /\ lines' \in Seq(Seq(Nat))
          BY <1>0, <2>1, <2>5
        <5>. QED  BY <5>1
      <4>2. Pass' = <<>>
        BY <4>1, TailOfLines DEF Pass
      <4>. QED  BY <2>1, <3>1, <4>2 DEF Floor
    <3>3. \A x \in Nat : Covers(x, Pass', pending', Floor')
      BY <2>1, <3>2, CoversNothing
    <3>4. n \in Nat /\ \A i \in Inodes : base[i] \in Nat /\ base[i] + 0 = base[i]
      BY <1>0
    <3>. HIDE DEF Inodes
    <3>. QED  BY <2>1, <2>2, <3>1, <3>3, <3>4 DEF ReadInv, Covered
  <2>4. CASE pc = "reopen" /\ path # fd
    <3>1. /\ opened' = opened /\ pc' = "wait" /\ Pass' = Pass /\ Floor' = Floor
          /\ restart' = restart /\ statErrs' = statErrs
      BY <1>5, <2>1, <2>4 DEF OpenFile, Pass, Floor
    <3>2. path > fd
      BY <1>0, <1>a, <2>2, <2>4 DEF ReadInv
    <3>3. \A x : Covered(x) => Covers(x, Pass', pending', Floor')
      BY <2>1, <3>1, CoversDrop DEF Covered
    <3>4. \A i \in Inodes : (i > path /\ size[i] > 0) => Covered(base[i])
      BY <1>0, <2>2, <3>2 DEF ReadInv
    <3>5. size[path] > 0 => Covered(base[path]) /\ base[path] + 0 = base[path]
      BY <1>0, <2>2, <3>2 DEF ReadInv
    <3>6. Covered(n)
      BY DEF ReadInv
    <3>7. statErrs' = 0 => restart' = 0
      BY <3>1 DEF ReadInv
    <3>. QED  BY <2>1, <3>1, <3>3, <3>4, <3>5, <3>6, <3>7 DEF ReadInv, Covered
  <2>. QED  BY <1>5, <2>3, <2>4, <2>5 DEF OpenFile
<1>6. CASE SeekEnd
  <2>1. /\ n' = n /\ base' = base /\ size' = size /\ path' = path /\ fd' = fd
        /\ pos' = size[fd] /\ pc = "seek" /\ pc' = "wait"
        /\ UNCHANGED <<lines, restart, pending, opened, statErrs>>
    BY <1>6 DEF SeekEnd, envVars
  <2>2. ~(pos' > size'[fd])
    BY <1>0, <1>a, <2>1
  <2>. QED  BY <2>1, <2>2 DEF ReadInv, Covered, Pass, Floor
<1>7. CASE CheckTruncation
  <2>1. /\ n' = n /\ base' = base /\ size' = size /\ path' = path /\ fd' = fd
        /\ pc = "truncation" /\ UNCHANGED <<lines, opened, restart, statErrs>>
        /\ Pass' = Pass /\ Floor' = Floor
    BY <1>7 DEF CheckTruncation, envVars, Pass, Floor
  <2>2. CASE isTruncated
    <3>1. pos' = 0 /\ pending' = <<>> /\ pc' = "wait"
      BY <1>7, <2>2 DEF CheckTruncation
    <3>2. \A x : Covered(x) => Covers(x, Pass', pending', Floor')
      BY <2>1, <3>1, CoversDrop DEF Covered
    <3>3. size[fd] > 0 => Covered(base[fd]) /\ base[fd] + 0 = base[fd]
      BY <1>0, <1>a, <2>1, <2>2 DEF ReadInv, isTruncated
    <3>. QED  BY <2>1, <3>1, <3>2, <3>3 DEF ReadInv, Covered, Pass, Floor
  <2>3. CASE ~isTruncated
    <3>1. UNCHANGED <<pos, pending>> /\ pc' = "read"
      BY <1>7, <2>3 DEF CheckTruncation
    <3>. QED  BY <2>1, <3>1 DEF ReadInv, Covered, Pass, Floor
  <2>. QED  BY <2>2, <2>3
<1>8. CASE Read
  <2>1. /\ n' = n /\ base' = base /\ size' = size /\ path' = path /\ fd' = fd
        /\ pc = "read" /\ pc' \in {"split", "wait"}
        /\ UNCHANGED <<lines, opened, restart, statErrs>>
        /\ Pass' = Pass /\ Floor' = Floor
        /\ pos' = pos + readCount
        /\ pending' = pending \o [k \in 1..readCount |-> base[fd] + pos + k]
    BY <1>8 DEF Read, envVars, Pass, Floor
  <2>2. fd \in Inodes /\ size[fd] \in Nat /\ base[fd] \in Nat /\ base[fd] + pos \in Nat
    BY <1>0, <1>a, <2>1
  <2>3. /\ readCount \in Nat
        /\ readCount > 0 => pos + readCount <= size[fd] /\ size[fd] > 0
    BY <1>0, <2>2, ReadCountNat
  <2>4. CASE readCount = 0
    <3>1. pos' = pos /\ pending' = pending
      BY <1>0, <2>1, <2>4
    <3>. QED  BY <2>1, <3>1 DEF ReadInv, Covered, Pass, Floor
  <2>5. CASE readCount > 0
    <3>. DEFINE top == base[fd] + pos + readCount
    <3>1. Covered(base[fd] + pos)
      BY <2>1, <2>3, <2>5 DEF ReadInv
    <3>2. Covers(top, Pass', pending', Floor')
      BY <1>0, <2>1, <2>2, <2>3, <3>1, CoversRead DEF Covered
    <3>3. top \in Nat /\ top <= base[fd] + size[fd]
      <4>. DEFINE b == base[fd]
                  z == size[fd]
      <4>1. b \in Nat /\ z \in Nat /\ pos \in Nat /\ readCount \in Nat
            /\ pos + readCount <= z
        BY <1>0, <2>2, <2>3, <2>5
      <4>. HIDE DEF b, z
      <4>2. b + pos + readCount \in Nat /\ b + pos + readCount <= b + z
        BY <4>1
      <4>. QED  BY <4>2 DEF b, z
    <3>4. pending' \in Seq(Nat)
      <4>1. [k \in 1..readCount |-> base[fd] + pos + k] \in Seq(Nat)
        BY <2>2, <2>3, RunNat
      <4>. QED  BY <1>0, <2>1, <4>1
    <3>. HIDE DEF top
    <3>5. \A y \in Nat : top <= y => Covers(y, Pass', pending', Floor')
      <4>1. Pass' \in Seq(Seq(Nat)) /\ Floor' \in Nat
        BY <1>0, <2>1
      <4>. QED  BY <3>2, <3>3, <3>4, <4>1, CoversMonotone
    <3>6. top <= n
      <4>1. size[fd] > 0
        BY <2>3, <2>5
      <4>2. base[fd] + size[fd] <= n
        BY <2>2, <4>1 DEF FilesInv
      <4>3. base[fd] + size[fd] \in Nat /\ n \in Nat
        BY <1>0, <2>2
      <4>. QED  BY <3>3, <4>2, <4>3
    <3>7. ASSUME NEW i \in Inodes, i > fd, size[i] > 0
          PROVE  base[i] \in Nat /\ top <= base[i]
      <4>1. base[i] \in Nat /\ size[fd] > 0
        BY <1>0, <2>3, <2>5
      <4>2. base[fd] + size[fd] <= base[i]
        BY <2>2, <3>7, <4>1 DEF FilesInv
      <4>. QED  BY <2>2, <3>3, <4>1, <4>2
    <3>8. base[fd] + pos' = top /\ ~(pos' > size[fd])
      <4>1. pos \in Nat /\ pos' = pos + readCount /\ pos + readCount <= size[fd]
        BY <1>0, <2>1, <2>3, <2>5
      <4>. QED  BY <2>2, <2>3, <4>1 DEF top
    <3>. QED  BY <1>0, <2>1, <3>2, <3>5, <3>6, <3>7, <3>8 DEF ReadInv, Covered, Pass, Floor
  <2>. QED  BY <2>3, <2>4, <2>5
<1>9. CASE SplitLine
  <2>1. /\ n' = n /\ base' = base /\ size' = size /\ path' = path /\ fd' = fd
        /\ pos' = pos /\ pc = "split" /\ pc' = pc
        /\ UNCHANGED <<opened, restart, statErrs>> /\ Floor' = Floor
    BY <1>9 DEF SplitLine, envVars, Floor
  <2>2. PICK k \in 1..Len(pending) :
          /\ lines' = IF k = 1 THEN lines
                      ELSE Append(lines, SubSeq(pending, 1, k - 1))
          /\ pending' = SubSeq(pending, k + 1, Len(pending))
    BY <1>9 DEF SplitLine
  <2>4. Pass' = IF k = 1 THEN Pass ELSE Append(Pass, SubSeq(pending, 1, k - 1))
    BY <2>1, <2>2, PassSplit
  <2>3. \A x : Covered(x) => Covers(x, Pass', pending', Floor')
    BY <1>0, <2>1, <2>2, <2>4, CoversSplit DEF Covered
  <2>. QED  BY <2>1, <2>3 DEF ReadInv, Covered
<1>10. CASE OpenFails \/ RetryOpen \/ CancelRetry
  BY <1>10 DEF OpenFails, RetryOpen, CancelRetry, envVars, ReadInv, Covered, Pass, Floor
<1>11. CASE SeekFails \/ Tick \/ Stop \/ StatFails \/ ReadFails \/ SplitDone
  BY <1>11 DEF SeekFails, Tick, Stop, StatFails, ReadFails, SplitDone, envVars,
               ReadInv, Covered, Pass, Floor
<1>12. CASE CheckRotation
  <2>1. /\ pc = "rotation" /\ pc' \in {"reopen", "truncation"}
        /\ UNCHANGED <<n, base, size, path, fd, pos, lines, pending, opened, restart>>
        /\ (pc' = "reopen" /\ statErrs' = 0) => path # fd
        /\ statErrs' = 0 => statErrs = 0
        /\ Floor' \in {Floor, 0} /\ Pass' = Pass
    <3>1. PICK statFails \in BOOLEAN :
            /\ pc' = IF isRotated(statFails) THEN "reopen" ELSE "truncation"
            /\ statErrs' = IF statFails THEN statErrs + 1 ELSE statErrs
      BY <1>12 DEF CheckRotation
    <3>2. statErrs \in Nat
      BY DEF TypeOK
    <3>3. statErrs' = 0 => ~statFails /\ statErrs = 0
      BY <3>1, <3>2
    <3>4. Floor' \in {Floor, 0}
      BY <1>12, <3>1, <3>2 DEF CheckRotation, Floor
    <3>. QED  BY <1>12, <3>1, <3>3, <3>4 DEF CheckRotation, isRotated, envVars, Pass
  <2>2. \A x \in Nat : Covered(x) => Covers(x, Pass', pending', Floor')
    BY <1>0, <2>1, CoversLower DEF Covered
  <2>3. /\ n \in Nat /\ pos \in Nat /\ fd \in Inodes
        /\ \A i \in Inodes : base[i] \in Nat /\ base[i] + pos \in Nat
    BY <1>0, <1>a, <2>1
  <2>. HIDE DEF Inodes
  <2>4. statErrs' = 0 => restart' = 0
    BY <2>1 DEF ReadInv
  <2>. QED  BY <2>1, <2>2, <2>3, <2>4 DEF ReadInv, Covered
<1>13. CASE UNCHANGED vars
  BY <1>13 DEF vars, ReadInv, Covered, Pass, Floor
<1>. QED  BY <1>1, <1>2, <1>3, <1>4, <1>5, <1>6, <1>7, <1>8, <1>9, <1>10, <1>11,
             <1>12, <1>13 DEF Next, Environment, TailStep

-----------------------------------------------------------------------------
(* The order of the lines.                                                 *)

\* Every step keeps lines and pending in order; Read and SplitLine extend
\* them.
LEMMA NextOrderInv ==
  TypeOK /\ ReadInv /\ OrderInv /\ [Next]_vars => OrderInv'
<1>. SUFFICES ASSUME TypeOK, ReadInv, OrderInv, [Next]_vars PROVE OrderInv'
  OBVIOUS
<1>1. InOrder(Pass, pending) /\ pending \in Seq(Nat) /\ Pass \in Seq(Seq(Nat))
  BY PassNat DEF OrderInv, TypeOK
<1>2. InOrder(Pass, <<>>) /\ InOrder(<<>>, <<>>)
  <2>1. 1..Len(<<>>) = {}
    OBVIOUS
  <2>. QED  BY <1>1, <2>1 DEF InOrder
<1>3. CASE Read
  <2>1. /\ Pass' = Pass
        /\ pending' = pending \o [k \in 1..readCount |-> base[fd] + pos + k]
    BY <1>3 DEF Read, Pass
  <2>2. /\ fd \in Inodes /\ base[fd] \in Nat /\ size[fd] \in Nat /\ pos \in Nat
        /\ Floor \in Nat
    <3>1. Floor \in Nat
      BY PassNat
    <3>2. fd \in Inodes /\ base \in [Inodes -> Nat] /\ size \in [Inodes -> Nat] /\ pos \in Nat
      BY TailerAssumption, <1>3 DEF Read, TypeOK, Inodes
    <3>. QED  BY <3>1, <3>2
  <2>3. readCount \in Nat /\ (readCount > 0 => size[fd] > 0)
    BY TailerAssumption, <2>2 DEF readCount
  <2>4. CASE readCount = 0
    BY <1>1, <2>1, <2>4 DEF OrderInv
  <2>5. CASE readCount > 0
    <3>1. Covers(base[fd] + pos, Pass, pending, Floor)
      BY <1>3, <2>3, <2>5 DEF Read, ReadInv, Covered
    <3>2. base[fd] + pos \in Nat
      BY <2>2
    <3>. QED  BY <1>1, <2>1, <2>2, <2>3, <3>1, <3>2, InOrderRead DEF OrderInv
  <2>. QED  BY <2>3, <2>4, <2>5
<1>4. CASE SplitLine
  <2>1. PICK k \in 1..Len(pending) :
          /\ lines' = IF k = 1 THEN lines
                      ELSE Append(lines, SubSeq(pending, 1, k - 1))
          /\ pending' = SubSeq(pending, k + 1, Len(pending))
    BY <1>4 DEF SplitLine
  <2>2. Pass' = IF k = 1 THEN Pass ELSE Append(Pass, SubSeq(pending, 1, k - 1))
    <3>1. restart' = restart
      BY <1>4 DEF SplitLine
    <3>. QED  BY <2>1, <3>1, PassSplit
  <2>. QED  BY <1>1, <2>1, <2>2, InOrderSplit DEF OrderInv
<1>5. CASE UNCHANGED <<lines, restart>> /\ pending' = <<>>
  BY <1>2, <1>5 DEF OrderInv, Pass
<1>6. CASE UNCHANGED <<lines, restart, pending>>
  BY <1>1, <1>6 DEF OrderInv, Pass
<1>7. CASE OpenFile
  <2>1. lines' = lines /\ pending' = <<>> /\ restart' \in {restart, Len(lines)}
    BY <1>7 DEF OpenFile
  <2>2. CASE restart' = restart
    BY <1>5, <2>1, <2>2
  <2>3. CASE restart' = Len(lines)
    <3>1. lines \in Seq(Seq(Nat)) /\ Len(lines) \in Nat
      BY DEF TypeOK
    <3>2. Len(lines) \in 0..Len(lines)
      BY <3>1
    <3>3. Pass' = <<>>
      BY <2>1, <2>3, <3>1, <3>2, TailOfLines DEF Pass
    <3>. QED  BY <1>2, <2>1, <3>3 DEF OrderInv
  <2>. QED  BY <2>1, <2>2, <2>3
<1>. QED  BY <1>3, <1>4, <1>5, <1>6, <1>7
          DEF Next, Environment, TailStep, Write, Create, Rename, LoggerReopen,
              Truncate, Cancel, OpenFails, RetryOpen, CancelRetry,
              SeekEnd, SeekFails, Tick, Stop, CheckRotation, CheckTruncation,
              StatFails, ReadFails, SplitDone, tailVars, vars

\* No step puts a byte in a line that was not written; SplitLine puts bytes
\* of pending.
LEMMA NextWrittenInv ==
  TypeOK /\ ReadInv /\ WrittenInv /\ [Next]_vars => WrittenInv'
<1>. SUFFICES ASSUME TypeOK, ReadInv, WrittenInv, [Next]_vars PROVE WrittenInv'
  OBVIOUS
<1>0. lines \in Seq(Seq(Nat)) /\ pending \in Seq(Nat) /\ n \in Nat
  BY TailerAssumption DEF TypeOK
<1>1. CASE UNCHANGED <<lines, n>>
  BY <1>1 DEF WrittenInv
<1>2. CASE Write
  <2>1. lines' = lines /\ n' = n + 1
    BY <1>2 DEF Write, tailVars
  <2>2. ASSUME NEW i \in 1..Len(lines), NEW p \in 1..Len(lines[i]) PROVE lines[i][p] <= n + 1
    <3>1. lines[i][p] \in Nat /\ lines[i][p] <= n
      BY <1>0, ElementsNat DEF WrittenInv
    <3>. QED  BY <1>0, <3>1
  <2>. QED  BY <2>1, <2>2 DEF WrittenInv
<1>3. CASE SplitLine
  <2>1. PICK k \in 1..Len(pending) :
          lines' = IF k = 1 THEN lines ELSE Append(lines, SubSeq(pending, 1, k - 1))
    BY <1>3 DEF SplitLine
  <2>2. n' = n
    BY <1>3 DEF SplitLine, envVars
  <2>3. CASE k = 1
    BY <1>1, <2>1, <2>2, <2>3
  <2>4. CASE k # 1
    <3>. DEFINE l == SubSeq(pending, 1, k - 1)
    <3>1. l \in Seq(Nat) /\ \A p \in 1..Len(l) : p \in 1..Len(pending) /\ l[p] = pending[p]
      BY <1>0
    <3>2. \A p \in 1..Len(pending) : pending[p] <= n
      BY DEF ReadInv, Covered, Covers
    <3>3. \A p \in 1..Len(l) : l[p] <= n
      BY <3>1, <3>2
    <3>. HIDE DEF l
    <3>4. /\ \A i \in 1..Len(Append(lines, l)) : i \in 1..Len(lines) \/ i = Len(lines) + 1
          /\ \A i \in 1..Len(lines) : Append(lines, l)[i] = lines[i]
          /\ Append(lines, l)[Len(lines) + 1] = l
      BY <1>0, <3>1
    <3>5. \A i \in 1..Len(Append(lines, l)) :
            \A p \in 1..Len(Append(lines, l)[i]) : Append(lines, l)[i][p] <= n
      BY <3>3, <3>4 DEF WrittenInv
    <3>6. lines' = Append(lines, l)
      BY <2>1, <2>4 DEF l
    <3>. QED  BY <2>2, <3>5, <3>6 DEF WrittenInv
  <2>. QED  BY <2>3, <2>4
<1>. QED
  BY <1>1, <1>2, <1>3
     DEF Next, Environment, TailStep, Create, Rename, LoggerReopen, Truncate, Cancel,
         OpenFile, OpenFails, RetryOpen, CancelRetry, SeekEnd, SeekFails, Tick, Stop,
         CheckRotation, CheckTruncation, StatFails, Read, ReadFails, SplitDone,
         envVars, tailVars, vars

-----------------------------------------------------------------------------
(* The theorems.                                                           *)

\* The invariant, before Tail begins.
LEMMA InitIInv == Init => IInv
<1>. SUFFICES ASSUME Init PROVE IInv
  OBVIOUS
<1>1. TypeOK
  BY InitTypeOK
<1>2. FilesInv
  BY DEF Init, FilesInv
<1>3. ReadInv
  <2>1. /\ n = 0 /\ opened = 0 /\ lines = <<>> /\ pending = <<>> /\ fd = 0
        /\ pc = "open" /\ statErrs = 0 /\ restart = 0
        /\ \A i \in Inodes : size[i] = 0
    BY DEF Init
  <2>2. Pass = <<>> /\ Floor <= n
    BY <1>1, <2>1, PassNat DEF Floor
  <2>3. Covered(n)
    BY <2>1, <2>2, CoversNothing DEF Covered
  <2>. QED  BY <2>1, <2>3 DEF ReadInv
<1>4. OrderInv
  <2>1. Pass = <<>> /\ pending = <<>>
    BY <1>1, PassNat DEF Init
  <2>. QED  BY <2>1 DEF OrderInv, InOrder
<1>5. WrittenInv
  BY DEF Init, WrittenInv
<1>. QED  BY <1>1, <1>2, <1>3, <1>4, <1>5 DEF IInv

\* The inductive invariant holds in every state of Tail and the rotator.
THEOREM Invariance == Spec => []IInv
<1>1. IInv /\ [Next]_vars => IInv'
  BY NextTypeOK, NextFilesInv, NextReadInv, NextOrderInv, NextWrittenInv DEF IInv
<1>. QED  BY InitIInv, <1>1, PTL DEF Spec

(***************************************************************************)
(* The tailer's variables always have their types: in particular Tail has  *)
(* a file open whenever it is past openWithRetry.                          *)
(***************************************************************************)
THEOREM TypeCorrect == Spec => []TypeOK
<1>1. IInv => TypeOK
  BY DEF IInv
<1>. QED  BY Invariance, <1>1, PTL

(***************************************************************************)
(* Whatever the logger, the rotator and the timing, the lines given to     *)
(* Source.Parse by Tail contain every byte at most once and in the order   *)
(* written, in each pass over a file: only where an os.Stat(path) fails    *)
(* while the file is there does Tail begin a file over.                    *)
(***************************************************************************)
THEOREM LinesOrderedOnce == Spec => []OrderedOnce
<1>1. IInv => OrderedOnce
  BY DEF IInv, OrderInv, InOrder, OrderedOnce
<1>. QED  BY Invariance, <1>1, PTL

(***************************************************************************)
(* Nothing written before Tail first opened the path is given to           *)
(* Source.Parse, until os.Stat(path) fails on a file that is there.        *)
(***************************************************************************)
THEOREM NothingReplayed == Spec => []NoReplay
<1>1. IInv => NoReplay
  <2>. SUFFICES ASSUME IInv, statErrs = 0,
                       NEW i \in 1..Len(lines), NEW p \in 1..Len(lines[i])
                PROVE  lines[i][p] > opened
    BY DEF NoReplay
  <2>0. Pass = lines /\ Floor = opened
    <3>1. restart = 0 /\ lines \in Seq(Seq(Nat)) /\ restart \in 0..Len(lines)
      BY DEF IInv, ReadInv, TypeOK
    <3>. QED  BY <3>1, TailOfLines DEF Pass, Floor
  <2>1. opened < lines[i][p]
    BY <2>0 DEF IInv, ReadInv, Covered, Covers
  <2>2. opened \in Nat /\ lines[i][p] \in Nat
    <3>1. opened \in Nat /\ lines \in Seq(Seq(Nat))
      BY DEF IInv, TypeOK
    <3>2. lines[i] \in Seq(Nat)
      BY <3>1
    <3>. QED  BY <3>1, <3>2
  <2>. QED  BY <2>1, <2>2
<1>. QED  BY Invariance, <1>1, PTL

-----------------------------------------------------------------------------
(* The refinement of LineFeed.                                             *)

\* A sequence is one over any set that its elements are in.
LEMMA SeqOf ==
  ASSUME NEW S, NEW T, NEW l \in Seq(S), \A p \in 1..Len(l) : l[p] \in T
  PROVE  l \in Seq(T)
<1>1. Len(l) \in Nat /\ l = [p \in 1..Len(l) |-> l[p]]
  OBVIOUS
<1>2. [p \in 1..Len(l) |-> l[p]] \in Seq(T)
  BY <1>1
<1>. QED  BY <1>1, <1>2

\* The next line of pending is one that LineFeed can deliver.
LEMMA SplitDelivers == IInv /\ SplitLine => Feed!Deliver \/ UNCHANGED Feed!feedVars
<1>. SUFFICES ASSUME IInv, SplitLine PROVE Feed!Deliver \/ UNCHANGED Feed!feedVars
  OBVIOUS
<1>1. /\ pending \in Seq(Nat) /\ lines \in Seq(Seq(Nat)) /\ n \in Nat /\ Floor \in Nat
      /\ InOrder(Pass, pending) /\ Covers(n, Pass, pending, Floor)
      /\ restart \in 0..Len(lines)
  BY TailerAssumption, PassNat DEF IInv, TypeOK, OrderInv, ReadInv, Covered
<1>2. PICK k \in 1..Len(pending) :
        lines' = IF k = 1 THEN lines ELSE Append(lines, SubSeq(pending, 1, k - 1))
  BY DEF SplitLine
<1>3. pc = "split" /\ pc' = pc /\ n' = n /\ restart' = restart
  BY DEF SplitLine, envVars
<1>4. CASE k = 1
  BY <1>2, <1>3, <1>4 DEF Feed!feedVars
<1>5. CASE k # 1
  <2>. DEFINE l == SubSeq(pending, 1, k - 1)
  <2>1. /\ l \in Seq(Nat) /\ Len(l) = k - 1 /\ Len(l) > 0
        /\ \A p \in 1..Len(l) : p \in 1..Len(pending) /\ l[p] = pending[p]
    BY <1>1, <1>5
  <2>. HIDE DEF l
  <2>2. /\ lines' = Append(lines, l)
        /\ Len(lines') = Len(lines) + 1
        /\ lines'[Len(lines')] = l
    BY <1>1, <1>2, <1>5, <2>1 DEF l
  <2>3. \A p \in 1..Len(l) : l[p] \in 1..n
    <3>1. \A p \in 1..Len(pending) : pending[p] \in Nat /\ pending[p] <= n /\ Floor < pending[p]
      BY <1>1 DEF Covers
    <3>2. \A v \in Nat : v <= n /\ Floor < v => v \in 1..n
      BY <1>1
    <3>. QED  BY <2>1, <3>1, <3>2
  <2>4. l \in Seq(1..n)
    BY <2>1, <2>3, SeqOf
  <2>5. \A p, q \in 1..Len(l) : p < q => l[p] < l[q]
    BY <1>1, <2>1 DEF InOrder
  <2>6. Feed!IsLine(l)
    BY <2>1, <2>4, <2>5 DEF Feed!IsLine
  <2>7. Feed!IsAfterAll(l)
    <3>1. \A i \in 1..Len(Pass) : \A p \in 1..Len(Pass[i]), q \in 1..Len(l) : Pass[i][p] < l[q]
      BY <1>1, <2>1 DEF InOrder
    <3>2. Len(Pass) = Len(lines) - restart /\ \A i \in 1..Len(Pass) : Pass[i] = lines[restart + i]
      BY <1>1, TailOfLines DEF Pass
    <3>3. ASSUME NEW i \in (restart + 1)..Len(lines)
          PROVE  i - restart \in 1..Len(Pass) /\ Pass[i - restart] = lines[i]
      <4>1. restart \in Nat /\ Len(lines) \in Nat
        BY <1>1
      <4>2. i - restart \in 1..Len(Pass) /\ restart + (i - restart) = i
        BY <3>2, <4>1
      <4>. QED  BY <3>2, <4>2
    <3>. QED  BY <3>1, <3>3 DEF Feed!IsAfterAll
  <2>. QED  BY <1>3, <2>2, <2>6, <2>7 DEF Feed!Deliver
<1>. QED  BY <1>4, <1>5

\* Every step of Tail is one of a line feed, or none.
LEMMA NextFeed == IInv /\ [Next]_vars => [Feed!FeedNext]_(Feed!feedVars)
<1>. SUFFICES ASSUME IInv, [Next]_vars PROVE [Feed!FeedNext]_(Feed!feedVars)
  OBVIOUS
<1>. USE DEF envVars, tailVars
<1>1. CASE Write
  BY <1>1 DEF Write, Feed!FeedNext, Feed!WriteByte
<1>2. CASE SplitLine
  BY <1>2, SplitDelivers DEF Feed!FeedNext
<1>3. CASE Stop \/ CancelRetry \/ SeekFails
  BY <1>3 DEF Stop, CancelRetry, SeekFails, Feed!FeedNext, Feed!Close
<1>4. CASE UNCHANGED <<n, lines, restart, pc>>
  BY <1>4 DEF Feed!feedVars
<1>5. CASE UNCHANGED <<n, lines, restart>> /\ pc # "done" /\ pc' # "done"
  BY <1>5 DEF Feed!feedVars
<1>6. CASE OpenFile
  <2>1. /\ UNCHANGED <<n, lines>> /\ pc # "done" /\ pc' # "done"
        /\ restart' \in {restart, Len(lines)}
    BY <1>6 DEF OpenFile
  <2>2. CASE restart' = restart
    BY <1>5, <2>1, <2>2
  <2>3. CASE restart' = Len(lines)
    BY <2>1, <2>3 DEF Feed!FeedNext, Feed!Rewind
  <2>. QED  BY <2>1, <2>2, <2>3
<1>. QED
  BY <1>1, <1>2, <1>3, <1>4, <1>5, <1>6
     DEF Next, Environment, TailStep, Create, Rename, LoggerReopen,
         Truncate, Cancel, OpenFails, RetryOpen,
         SeekEnd, Tick, CheckRotation, CheckTruncation,
         StatFails, Read, ReadFails, SplitDone, vars

(***************************************************************************)
(* Tail is a line feed: what it gives to Source.Parse are the bytes the    *)
(* logger wrote, in order, each at most once in each pass over a file, and *)
(* nothing after Tail has returned; whatever the rotator does.             *)
(***************************************************************************)
THEOREM LineFeedRefined == Spec => ImplementsLineFeed
<1>1. Init => Feed!FeedInit
  BY DEF Init, Feed!FeedInit
<1>2. IInv /\ [Next]_vars => [Feed!FeedNext]_(Feed!feedVars)
  BY NextFeed
<1>. QED  BY <1>1, <1>2, Invariance, PTL DEF Spec, ImplementsLineFeed, Feed!FeedSpec

-----------------------------------------------------------------------------
(* Whole lines: the invariant.                                             *)

(***************************************************************************)
(* The log, as long as no file was truncated.  The logger opens a file     *)
(* between two lines, so that each file begins with a line.                *)
(***************************************************************************)
LogInv ==
  truncs = 0 =>
    /\ \A i \in Inodes : size[i] > 0 => base[i] = 0 \/ base[i] \in nl
    /\ (wfd # 0 /\ size[wfd] = 0) => n = 0 \/ n \in nl

\* The sequence pe holds the serials up to x.
EndsAt(pe, x) == \A k \in 1..Len(pe) : pe[k] = x - Len(pe) + k

(***************************************************************************)
(* What Tail holds, as long as no file was truncated: pending is the end   *)
(* of what it read from the open file, and begins with a line, unless      *)
(* nothing was given to Parse yet.                                         *)
(***************************************************************************)
HeldInv ==
  truncs = 0 =>
    /\ (fd = 0 \/ pc \in {"open", "openRetry", "seek"}) => lines = <<>> /\ pending = <<>>
    /\ fd # 0 =>
         /\ pos <= size[fd]
         /\ from + Len(pending) <= pos
         /\ EndsAt(pending, base[fd] + pos)
         /\ (size[fd] > 0 /\ lines # <<>>) =>
              LET before == base[fd] + pos - Len(pending) IN before = 0 \/ before \in nl

\* Every step keeps the log as it is while nothing is truncated.
LEMMA NextLogInv == TypeOK /\ FilesInv /\ LogInv /\ [Next]_vars => LogInv'
<1>. SUFFICES ASSUME TypeOK, FilesInv, LogInv, [Next]_vars PROVE LogInv'
  OBVIOUS
<1>0. /\ n \in Nat /\ size \in [Inodes -> Nat] /\ base \in [Inodes -> Nat]
      /\ inodes \in Nat /\ inodes <= MaxInodes
      /\ path \in {0, inodes} /\ wfd \in 0..inodes /\ truncs \in Nat
  BY TailerAssumption DEF TypeOK
<1>1. CASE Write
  <2>1. /\ wfd \in Inodes /\ wfd # 0 /\ wfd' = wfd /\ truncs' = truncs /\ nl \subseteq nl'
        /\ size' = [size EXCEPT ![wfd] = @ + 1]
        /\ base' = IF size[wfd] = 0 THEN [base EXCEPT ![wfd] = n] ELSE base
    BY <1>0, <1>1, TailerAssumption DEF Write, Inodes
  <2>. SUFFICES ASSUME truncs = 0
                PROVE  /\ \A i \in Inodes : size'[i] > 0 => base'[i] = 0 \/ base'[i] \in nl'
                       /\ size'[wfd] # 0
    BY <2>1 DEF LogInv
  <2>2. \A i \in Inodes : i # wfd => size'[i] = size[i] /\ base'[i] = base[i]
    BY <1>0, <2>1
  <2>3. size'[wfd] = size[wfd] + 1 /\ base'[wfd] = IF size[wfd] = 0 THEN n ELSE base[wfd]
    BY <1>0, <2>1
  <2>4. base'[wfd] = 0 \/ base'[wfd] \in nl'
    BY <1>0, <2>1, <2>3 DEF LogInv
  <2>. QED  BY <1>0, <2>1, <2>2, <2>3, <2>4 DEF LogInv
<1>2. CASE LoggerReopen
  BY <1>2 DEF LoggerReopen, LogInv
<1>3. CASE Truncate
  BY <1>0, <1>3 DEF Truncate, LogInv
<1>4. CASE UNCHANGED <<truncs, size, base, nl, wfd, n>>
  BY <1>4 DEF LogInv
<1>. QED
  BY <1>1, <1>2, <1>3, <1>4
     DEF Next, Environment, TailStep, Create, Rename, Cancel, OpenFile, OpenFails, RetryOpen,
         CancelRetry, SeekEnd, SeekFails, Tick, Stop, CheckRotation, CheckTruncation,
         StatFails, Read, ReadFails, SplitLine, SplitDone, envVars, vars

\* What is read next is put after what is pending.
LEMMA EndsAtRead ==
  ASSUME NEW x \in Nat, NEW c \in Nat, NEW pe \in Seq(Nat), EndsAt(pe, x)
  PROVE  /\ EndsAt(pe \o [k \in 1..c |-> x + k], x + c)
         /\ Len(pe \o [k \in 1..c |-> x + k]) = Len(pe) + c
<1>. DEFINE new == [k \in 1..c |-> x + k]
            all == pe \o new
<1>1. new \in Seq(Nat) /\ Len(new) = c /\ \A k \in 1..c : new[k] = x + k
  OBVIOUS
<1>2. Len(all) = Len(pe) + c /\ Len(pe) \in Nat
  BY <1>1
<1>. HIDE DEF new
<1>3. ASSUME NEW k \in 1..Len(all) PROVE all[k] = (x + c) - Len(all) + k
  <2>1. CASE k <= Len(pe)
    <3>1. k \in 1..Len(pe) /\ all[k] = pe[k]
      BY <1>1, <1>2, <2>1
    <3>2. pe[k] = x - Len(pe) + k
      BY <3>1 DEF EndsAt
    <3>. QED  BY <1>2, <3>1, <3>2
  <2>2. CASE k > Len(pe)
    <3>1. k - Len(pe) \in 1..c /\ all[k] = new[k - Len(pe)]
      BY <1>1, <1>2, <2>2
    <3>. QED  BY <1>1, <1>2, <3>1
  <2>. QED  BY <1>2, <2>1, <2>2
<1>. QED  BY <1>2, <1>3 DEF EndsAt, new

\* The rest, once a line is cut off, still ends where pending did.
LEMMA EndsAtSplit ==
  ASSUME NEW x \in Nat, NEW pe \in Seq(Nat), NEW k \in 1..Len(pe), EndsAt(pe, x)
  PROVE  /\ EndsAt(SubSeq(pe, k + 1, Len(pe)), x)
         /\ Len(SubSeq(pe, k + 1, Len(pe))) = Len(pe) - k
         /\ x - Len(SubSeq(pe, k + 1, Len(pe))) = pe[k]
<1>. DEFINE rest == SubSeq(pe, k + 1, Len(pe))
<1>1. Len(rest) = Len(pe) - k /\ Len(pe) \in Nat
  OBVIOUS
<1>2. \A q \in 1..Len(rest) : q + k \in 1..Len(pe) /\ rest[q] = pe[q + k]
  OBVIOUS
<1>. HIDE DEF rest
<1>3. ASSUME NEW q \in 1..Len(rest) PROVE rest[q] = x - Len(rest) + q
  <2>1. rest[q] = x - Len(pe) + (q + k)
    BY <1>2 DEF EndsAt
  <2>. QED  BY <1>1, <2>1
<1>4. pe[k] = x - Len(pe) + k
  BY DEF EndsAt
<1>5. x - Len(rest) = pe[k]
  BY <1>1, <1>4
<1>. QED  BY <1>1, <1>3, <1>5 DEF EndsAt, rest

\* A log that is not truncated now has never been.
LEMMA TruncsGrow == TypeOK /\ [Next]_vars /\ truncs' = 0 => truncs = 0
<1>. SUFFICES ASSUME TypeOK, [Next]_vars, truncs' = 0 PROVE truncs = 0
  OBVIOUS
<1>1. truncs \in Nat
  BY TailerAssumption DEF TypeOK
<1>2. CASE Truncate
  BY <1>1, <1>2 DEF Truncate
<1>3. CASE UNCHANGED truncs
  BY <1>3
<1>. QED
  BY <1>2, <1>3
     DEF Next, Environment, TailStep, Write, Create, Rename, LoggerReopen, Cancel,
         OpenFile, OpenFails, RetryOpen, CancelRetry, SeekEnd, SeekFails, Tick, Stop,
         CheckRotation, CheckTruncation, StatFails, Read, ReadFails, SplitLine, SplitDone,
         envVars, vars

\* Every step keeps what Tail holds a part of the log; Read extends it.
LEMMA NextHeldInv ==
  TypeOK /\ FilesInv /\ ReadInv /\ LogInv /\ HeldInv /\ [Next]_vars => HeldInv'
<1>. SUFFICES ASSUME TypeOK, FilesInv, ReadInv, LogInv, HeldInv, [Next]_vars, truncs' = 0
              PROVE  /\ (fd' = 0 \/ pc' \in {"open", "openRetry", "seek"}) =>
                          lines' = <<>> /\ pending' = <<>>
                     /\ fd' # 0 =>
                          /\ pos' <= size'[fd']
                          /\ from' + Len(pending') <= pos'
                          /\ EndsAt(pending', base'[fd'] + pos')
                          /\ (size'[fd'] > 0 /\ lines' # <<>>) =>
                               LET before == base'[fd'] + pos' - Len(pending')
                               IN  before = 0 \/ before \in nl'
  BY DEF HeldInv, EndsAt
<1>0. /\ n \in Nat /\ size \in [Inodes -> Nat] /\ base \in [Inodes -> Nat]
      /\ inodes \in Nat /\ inodes <= MaxInodes
      /\ path \in {0, inodes} /\ wfd \in 0..inodes /\ truncs \in Nat
      /\ fd \in 0..inodes /\ pos \in Nat /\ from \in Nat
      /\ pending \in Seq(Nat) /\ lines \in Seq(Seq(Nat))
      /\ pc \notin {"open", "openRetry", "done"} => fd # 0
      /\ \A i \in 1..inodes : i \in Inodes
  BY TailerAssumption DEF TypeOK, Inodes
<1>00. truncs = 0
  BY TruncsGrow DEF IInv
<1>a. (fd = 0 \/ pc \in {"open", "openRetry", "seek"}) => lines = <<>> /\ pending = <<>>
  BY <1>00 DEF HeldInv
<1>b. fd # 0 =>
        /\ pos <= size[fd]
        /\ from + Len(pending) <= pos
        /\ EndsAt(pending, base[fd] + pos)
        /\ (size[fd] > 0 /\ lines # <<>>) =>
             LET before == base[fd] + pos - Len(pending) IN before = 0 \/ before \in nl
  BY <1>00 DEF HeldInv
<1>c. Len(pending) \in Nat /\ Len(<<>>) = 0 /\ (fd # 0 => fd \in Inodes)
  BY <1>0
<1>1. CASE Write
  <2>1. /\ wfd \in Inodes /\ nl \subseteq nl'
        /\ size' = [size EXCEPT ![wfd] = @ + 1]
        /\ base' = IF size[wfd] = 0 THEN [base EXCEPT ![wfd] = n] ELSE base
        /\ UNCHANGED <<pc, fd, pos, pending, lines, from>>
    BY <1>0, <1>1 DEF Write, tailVars
  <2>2. CASE fd = 0 \/ fd # wfd
    <3>1. fd # 0 => size'[fd] = size[fd] /\ base'[fd] = base[fd]
      BY <1>0, <1>c, <2>1, <2>2
    <3>. QED  BY <1>a, <1>b, <2>1, <3>1
  <2>3. CASE fd = wfd /\ size[wfd] = 0
    <3>1. /\ size'[fd] = 1 /\ base'[fd] = n /\ fd # 0
      BY <1>0, <2>1, <2>3, <1>1 DEF Write
    <3>2. pos = 0 /\ Len(pending) = 0 /\ from = 0
      BY <1>0, <1>b, <1>c, <2>3, <3>1
    <3>3. n = 0 \/ n \in nl
      BY <1>00, <2>3, <3>1 DEF LogInv
    <3>4. EndsAt(pending, n + pos)
      BY <3>2 DEF EndsAt
    <3>5. n + pos - Len(pending) = n
      BY <1>0, <3>2
    <3>. QED  BY <1>a, <2>1, <3>1, <3>2, <3>3, <3>4, <3>5
  <2>4. CASE fd = wfd /\ size[wfd] # 0
    <3>1. size'[fd] = size[fd] + 1 /\ base'[fd] = base[fd]
      BY <1>0, <2>1, <2>4
    <3>2. size[fd] \in Nat /\ size[fd] > 0
      BY <1>0, <2>1, <2>4
    <3>4. fd # 0
      BY <1>0, <2>1, <2>4, TailerAssumption DEF Inodes
    <3>5. pos <= size[fd]
      BY <1>b, <3>4
    <3>3. pos <= size[fd] + 1 /\ fd # 0
      BY <1>0, <3>2, <3>4, <3>5
    <3>. QED  BY <1>a, <1>b, <2>1, <3>1, <3>2, <3>3
  <2>. QED  BY <2>2, <2>3, <2>4
<1>2. CASE OpenFile
  <2>1. /\ fd' = path /\ pos' = 0 /\ from' = 0 /\ pending' = <<>> /\ lines' = lines
        /\ size' = size /\ base' = base /\ nl' = nl /\ path # 0
    BY <1>2 DEF OpenFile, envVars
  <2>2. pc = "open" \/ pc' = "wait"
    BY <1>2 DEF OpenFile
  <2>3. path \in Inodes /\ size[path] \in Nat /\ base[path] \in Nat
    BY <1>0, <2>1
  <2>4. EndsAt(<<>>, base[path] + 0) /\ base[path] + 0 - Len(<<>>) = base[path]
    BY <2>3, <1>c DEF EndsAt
  <2>5. size[path] > 0 => base[path] = 0 \/ base[path] \in nl
    BY <1>00, <2>3 DEF LogInv
  <2>. QED  BY <1>a, <1>c, <2>1, <2>2, <2>3, <2>4, <2>5
<1>3. CASE SeekEnd
  <2>1. /\ pc = "seek" /\ fd' = fd /\ pos' = size[fd] /\ from' = size[fd]
        /\ UNCHANGED <<size, base, nl, pending, lines>>
    BY <1>3 DEF SeekEnd, envVars
  <2>2. lines = <<>> /\ pending = <<>> /\ fd # 0 /\ size[fd] \in Nat
    BY <1>0, <1>a, <1>c, <2>1
  <2>3. EndsAt(<<>>, base[fd] + size[fd])
    BY <1>c DEF EndsAt
  <2>. QED  BY <1>c, <2>1, <2>2, <2>3
<1>4. CASE CheckTruncation
  <2>1. fd # 0 /\ ~isTruncated
    BY <1>0, <1>b, <1>c, <1>4 DEF CheckTruncation, isTruncated
  <2>. QED  BY <1>a, <1>b, <1>4, <2>1 DEF CheckTruncation, envVars
<1>5. CASE Read
  <2>1. /\ pc = "read" /\ fd # 0 /\ pos' = pos + readCount
        /\ pending' = pending \o [k \in 1..readCount |-> base[fd] + pos + k]
        /\ pc' \notin {"open", "openRetry", "seek"}
        /\ UNCHANGED <<size, base, nl, fd, lines, from>>
    BY <1>0, <1>5 DEF Read, envVars
  <2>2. /\ base[fd] + pos \in Nat /\ size[fd] \in Nat
        /\ readCount \in Nat /\ (readCount > 0 => pos + readCount <= size[fd])
    BY <1>0, <1>c, <2>1, ReadCountNat, SMTT(30)
  <2>3. /\ EndsAt(pending', base[fd] + pos + readCount)
        /\ Len(pending') = Len(pending) + readCount
    BY <1>0, <1>b, <2>1, <2>2, EndsAtRead, SMTT(30)
  <2>. DEFINE b == base[fd]
              c == readCount
  <2>4. b \in Nat /\ c \in Nat /\ pos \in Nat
    BY <1>0, <1>c, <2>1, <2>2
  <2>. HIDE DEF b, c
  <2>5. b + (pos + c) = b + pos + c /\ b + (pos + c) - (Len(pending) + c) = b + pos - Len(pending)
    BY <1>c, <2>4
  <2>6. pos + c <= size[fd]
    BY <1>0, <1>b, <2>1, <2>2 DEF c
  <2>7. from + (Len(pending) + c) <= pos + c
    BY <1>0, <1>b, <1>c, <2>1, <2>4
  <2>8. EndsAt(pending', base[fd] + pos')
    BY <2>1, <2>3, <2>5 DEF b, c
  <2>9. base[fd] + pos' - Len(pending') = base[fd] + pos - Len(pending)
    BY <2>1, <2>3, <2>5 DEF b, c
  <2>10. pos' <= size[fd] /\ from + Len(pending') <= pos'
    BY <2>1, <2>3, <2>6, <2>7 DEF c
  <2>. QED  BY <1>b, <2>1, <2>8, <2>9, <2>10
<1>6. CASE SplitLine
  <2>1. /\ pc = "split" /\ pc' = pc /\ fd # 0
        /\ UNCHANGED <<size, base, nl, fd, pos, from>>
    BY <1>0, <1>6 DEF SplitLine, envVars
  <2>2. PICK k \in 1..Len(pending) :
          pending[k] \in nl /\ pending' = SubSeq(pending, k + 1, Len(pending))
    BY <1>6 DEF SplitLine, IsFirstNewline
  <2>3. base[fd] + pos \in Nat
    BY <1>0, <1>c, <2>1, SMTT(30)
  <2>4. /\ EndsAt(pending', base[fd] + pos)
        /\ Len(pending') = Len(pending) - k
        /\ base[fd] + pos - Len(pending') = pending[k]
    <3>1. EndsAt(pending, base[fd] + pos) /\ pending \in Seq(Nat)
      BY <1>0, <1>b, <2>1
    <3>. DEFINE x == base[fd] + pos
    <3>2. x \in Nat /\ EndsAt(pending, x)
      BY <2>3, <3>1
    <3>. HIDE DEF x
    <3>3. /\ EndsAt(pending', x)
          /\ Len(pending') = Len(pending) - k
          /\ x - Len(pending') = pending[k]
      BY <2>2, <3>1, <3>2, EndsAtSplit
    <3>4. x = base[fd] + pos
      BY DEF x
    <3>5. base[fd] \in Nat /\ pos \in Nat /\ x \in Nat /\ Len(pending') \in Int
      BY <1>0, <1>c, <2>1, <3>2, <3>3
    <3>. QED  BY <3>3, <3>4, <3>5
  <2>5. from + Len(pending') <= pos
    BY <1>0, <1>b, <1>c, <2>1, <2>2, <2>4
  <2>. QED  BY <1>b, <2>1, <2>2, <2>4, <2>5
<1>7. CASE RetryOpen
  BY <1>a, <1>b, <1>7 DEF RetryOpen, envVars
<1>8. CASE UNCHANGED <<size, base, nl, fd, pos, pending, lines, from>> /\ pc' \notin {"open", "openRetry", "seek"}
  BY <1>a, <1>b, <1>8
<1>9. CASE UNCHANGED <<size, base, nl, fd, pos, pending, lines, from, pc>>
  BY <1>a, <1>b, <1>9
<1>10. CASE OpenFails
  BY <1>a, <1>b, <1>10 DEF OpenFails, envVars
<1>11. CASE Truncate
  BY <1>00, <1>11 DEF Truncate
<1>. QED
  BY <1>1, <1>2, <1>3, <1>4, <1>5, <1>6, <1>7, <1>8, <1>9, <1>10, <1>11
     DEF Next, Environment, TailStep, Create, Rename, LoggerReopen, Cancel,
         CancelRetry, SeekFails, Tick, Stop, CheckRotation,
         StatFails, ReadFails, SplitDone, envVars, tailVars, vars

-----------------------------------------------------------------------------
(* Whole lines: the theorems.                                              *)

\* Line l of the log with newlines nls, as RunsToNewline and StartsALine say.
RunsIn(l, nls) ==
  /\ \A p \in 1..Len(l) : l[p] = l[1] + p - 1 /\ l[p] \notin nls
  /\ (l[1] + Len(l)) \in nls

StartsIn(l, nls) == l[1] = 1 \/ (l[1] - 1) \in nls

WholeIn(ls, nls) ==
  \A i \in 1..Len(ls) : RunsIn(ls[i], nls) /\ (i > 1 => StartsIn(ls[i], nls))

\* WholeLines, as a property of the lines.
LEMMA WholeLinesIn == WholeLines <=> (truncs = 0 => WholeIn(lines, nl))
BY DEF WholeLines, RunsToNewline, StartsALine, WholeIn, RunsIn, StartsIn

\* A byte written later changes nothing about the lines there are.
LEMMA WholeMore ==
  ASSUME NEW ls \in Seq(Seq(Nat)), NEW nls, NEW x \in Nat, NEW more, more \in {nls, nls \cup {x + 1}},
         \A i \in 1..Len(ls) : \A p \in 1..Len(ls[i]) : ls[i][p] <= x,
         WholeIn(ls, nls)
  PROVE  WholeIn(ls, more)
<1>1. ASSUME NEW i \in 1..Len(ls), NEW p \in 1..Len(ls[i]), ls[i][p] \notin nls
      PROVE  ls[i][p] \notin more
  <2>1. ls[i][p] \in Nat /\ ls[i][p] <= x
    BY ElementsNat
  <2>2. \A v \in Nat : v <= x => v # x + 1
    OBVIOUS
  <2>. QED  BY <1>1, <2>1, <2>2
<1>2. nls \subseteq more
  OBVIOUS
<1>. QED  BY <1>1, <1>2 DEF WholeIn, RunsIn, StartsIn

\* The line that a newline ends is whole, if pending begins with a line.
LEMMA WholeCut ==
  ASSUME NEW x \in Nat, NEW nls \in SUBSET Nat, NEW pe \in Seq(Nat), EndsAt(pe, x),
         NEW k \in 1..Len(pe), k # 1, pe[k] \in nls, \A j \in 1..(k - 1) : pe[j] \notin nls
  PROVE  LET before == x - Len(pe) IN
         /\ RunsIn(SubSeq(pe, 1, k - 1), nls)
         /\ before = 0 \/ before \in nls => StartsIn(SubSeq(pe, 1, k - 1), nls)
<1>. DEFINE l == SubSeq(pe, 1, k - 1)
            before == x - Len(pe)
<1>1. /\ Len(l) = k - 1 /\ 1 \in 1..Len(l) /\ k - 1 \in Nat
      /\ \A p \in 1..Len(l) : p \in 1..Len(pe) /\ p \in 1..(k - 1) /\ l[p] = pe[p]
  OBVIOUS
<1>2. before \in Int /\ \A p \in 1..Len(pe) : pe[p] = before + p
  BY DEF EndsAt
<1>. HIDE DEF l, before
<1>3. l[1] = before + 1 /\ l[1] + Len(l) = pe[k] /\ l[1] - 1 = before
  <2>1. l[1] = before + 1 /\ pe[k] = before + k
    BY <1>1, <1>2
  <2>. QED  BY <1>1, <1>2, <2>1
<1>4. ASSUME NEW p \in 1..Len(l) PROVE l[p] = l[1] + p - 1 /\ l[p] \notin nls
  <2>1. l[p] = before + p /\ l[p] \notin nls
    BY <1>1, <1>2
  <2>2. before + p = (before + 1) + p - 1
    BY <1>1, <1>2
  <2>. QED  BY <1>3, <2>1, <2>2
<1>5. before = 0 => l[1] = 1
  BY <1>3
<1>. QED  BY <1>3, <1>4, <1>5 DEF RunsIn, StartsIn, l, before

\* A whole line after whole lines.
LEMMA WholeAppend ==
  ASSUME NEW ls \in Seq(Seq(Nat)), NEW l \in Seq(Nat), NEW nls,
         WholeIn(ls, nls), RunsIn(l, nls), ls # <<>> => StartsIn(l, nls)
  PROVE  WholeIn(Append(ls, l), nls)
<1>1. /\ Len(ls) \in Nat /\ Len(Append(ls, l)) = Len(ls) + 1
      /\ \A i \in 1..Len(ls) : Append(ls, l)[i] = ls[i]
      /\ Append(ls, l)[Len(ls) + 1] = l
  OBVIOUS
<1>2. \A i \in 1..Len(Append(ls, l)) : i \in 1..Len(ls) \/ i = Len(ls) + 1
  BY <1>1
<1>3. Len(ls) + 1 > 1 => ls # <<>>
  BY <1>1
<1>. QED  BY <1>1, <1>2, <1>3 DEF WholeIn

\* Every step keeps lines whole; SplitLine cuts them at a newline.
LEMMA NextWholeLines ==
  IInv /\ HeldInv /\ WholeLines /\ [Next]_vars => WholeLines'
<1>. SUFFICES ASSUME IInv, HeldInv, WholeLines, [Next]_vars, truncs' = 0
              PROVE  WholeIn(lines', nl')
  BY WholeLinesIn DEF WholeLines, RunsToNewline, StartsALine, WholeIn, RunsIn, StartsIn
<1>0. /\ n \in Nat /\ truncs \in Nat /\ pos \in Nat /\ nl \in SUBSET Nat
      /\ pending \in Seq(Nat) /\ lines \in Seq(Seq(Nat))
      /\ \A i \in 1..Len(lines) : \A p \in 1..Len(lines[i]) : lines[i][p] <= n
  BY TailerAssumption DEF IInv, TypeOK, WrittenInv
<1>00. truncs = 0
  BY TruncsGrow DEF IInv
<1>1. WholeIn(lines, nl)
  BY <1>00, WholeLinesIn
<1>2. CASE Write
  <2>1. lines' = lines /\ nl' \in {nl, nl \cup {n + 1}}
    BY <1>2 DEF Write, tailVars
  <2>2. \A more \in {nl, nl \cup {n + 1}} : WholeIn(lines, more)
    BY <1>0, <1>1, WholeMore
  <2>. QED  BY <2>1, <2>2
<1>3. CASE SplitLine
  <2>1. PICK k \in 1..Len(pending) :
          /\ IsFirstNewline(k)
          /\ lines' = IF k = 1 THEN lines ELSE Append(lines, SubSeq(pending, 1, k - 1))
    BY <1>3 DEF SplitLine
  <2>2. nl' = nl /\ pc = "split"
    BY <1>3 DEF SplitLine, envVars
  <2>3. CASE k = 1
    BY <1>1, <2>1, <2>2, <2>3
  <2>4. CASE k # 1
    <3>. DEFINE l == SubSeq(pending, 1, k - 1)
                x == base[fd] + pos
                before == x - Len(pending)
    <3>1. fd \in Inodes /\ fd # 0 /\ base[fd] \in Nat /\ size[fd] \in Nat
      BY <2>2, TailerAssumption DEF IInv, TypeOK, Inodes
    <3>2. EndsAt(pending, x) /\ x \in Nat
      BY <1>0, <1>00, <3>1 DEF HeldInv
    <3>3. size[fd] > 0
      <4>1. from + Len(pending) <= pos /\ pos <= size[fd] /\ from \in Nat /\ Len(pending) > 0
        BY <1>0, <1>00, <2>1, <3>1 DEF HeldInv, IInv, TypeOK
      <4>. QED  BY <1>0, <3>1, <4>1
    <3>4. lines # <<>> => before = 0 \/ before \in nl
      <4>. HIDE DEF x
      <4>2. x = base[fd] + pos
        BY DEF x
      <4>3. base[fd] \in Nat /\ pos \in Nat /\ x \in Nat /\ Len(pending) \in Nat
        BY <1>0, <3>1, <3>2
      <4>1. (size[fd] > 0 /\ lines # <<>>) => before = 0 \/ before \in nl
        BY <1>00, <3>1, <4>2, <4>3 DEF HeldInv
      <4>. QED  BY <3>3, <4>1
    <3>5. RunsIn(l, nl) /\ (before = 0 \/ before \in nl => StartsIn(l, nl))
      <4>1. pending[k] \in nl /\ \A j \in 1..(k - 1) : pending[j] \notin nl
        BY <2>1 DEF IsFirstNewline
      <4>. HIDE DEF x
      <4>. QED  BY <1>0, <2>4, <3>2, <4>1, WholeCut
    <3>6. l \in Seq(Nat)
      BY <1>0
    <3>. HIDE DEF l, before
    <3>7. WholeIn(Append(lines, l), nl)
      BY <1>0, <1>1, <3>4, <3>5, <3>6, WholeAppend
    <3>. QED  BY <2>1, <2>2, <2>4, <3>7 DEF l
  <2>. QED  BY <2>3, <2>4
<1>4. CASE UNCHANGED <<lines, nl>>
  BY <1>1, <1>4
<1>. QED
  BY <1>2, <1>3, <1>4
     DEF Next, Environment, TailStep, Create, Rename, LoggerReopen, Truncate, Cancel,
         OpenFile, OpenFails, RetryOpen, CancelRetry, SeekEnd, SeekFails, Tick, Stop,
         CheckRotation, CheckTruncation, StatFails, Read, ReadFails, SplitDone,
         envVars, tailVars, vars

-----------------------------------------------------------------------------
(* Nothing read is lost.                                                   *)

\* Byte v is a newline, or in the rest pe, or in one of the lines ls.
Kept(v, nls, pe, ls) ==
  \/ v \in nls
  \/ \E k \in 1..Len(pe) : pe[k] = v
  \/ \E i \in 1..Len(ls) : \E p \in 1..Len(ls[i]) : ls[i][p] = v

\* Bytes read and appended to the rest are kept, and with them all that was.
LEMMA KeptRead ==
  ASSUME NEW x \in Nat, NEW c \in Nat, NEW pe \in Seq(Nat), NEW ls, NEW nls
  PROVE  LET all == pe \o [k \in 1..c |-> x + k] IN
         /\ \A v : Kept(v, nls, pe, ls) => Kept(v, nls, all, ls)
         /\ \A v \in (x + 1)..(x + c) : Kept(v, nls, all, ls)
<1>. DEFINE new == [k \in 1..c |-> x + k]
            all == pe \o new
<1>1. new \in Seq(Nat) /\ Len(new) = c /\ \A k \in 1..c : new[k] = x + k
  OBVIOUS
<1>2. /\ Len(all) = Len(pe) + c /\ Len(pe) \in Nat
      /\ \A k \in 1..Len(pe) : all[k] = pe[k]
  BY <1>1
<1>3. \A k \in 1..c : Len(pe) + k \in 1..Len(all) /\ all[Len(pe) + k] = new[k]
  BY <1>1, <1>2
<1>4. \A k \in 1..Len(pe) : k \in 1..Len(all)
  BY <1>2
<1>. HIDE DEF new, all
<1>5. \A v : Kept(v, nls, pe, ls) => Kept(v, nls, all, ls)
  BY <1>2, <1>4 DEF Kept
<1>6. ASSUME NEW v \in (x + 1)..(x + c) PROVE Kept(v, nls, all, ls)
  <2>1. v - x \in 1..c /\ x + (v - x) = v
    OBVIOUS
  <2>2. Len(pe) + (v - x) \in 1..Len(all) /\ all[Len(pe) + (v - x)] = v
    BY <1>1, <1>3, <2>1
  <2>. QED  BY <2>2 DEF Kept
<1>. QED  BY <1>5, <1>6 DEF all, new

\* What is cut off the rest is kept, in the line or as its newline.
LEMMA KeptSplit ==
  ASSUME NEW pe \in Seq(Nat), NEW ls \in Seq(Seq(Nat)), NEW nls, NEW k \in 1..Len(pe),
         pe[k] \in nls, NEW v, Kept(v, nls, pe, ls)
  PROVE  Kept(v, nls, SubSeq(pe, k + 1, Len(pe)),
              IF k = 1 THEN ls ELSE Append(ls, SubSeq(pe, 1, k - 1)))
<1>. DEFINE rest == SubSeq(pe, k + 1, Len(pe))
            l    == SubSeq(pe, 1, k - 1)
            more == IF k = 1 THEN ls ELSE Append(ls, l)
<1>1. /\ Len(rest) = Len(pe) - k /\ Len(pe) \in Nat
      /\ \A q \in 1..Len(rest) : rest[q] = pe[q + k]
  OBVIOUS
<1>2. Len(l) = k - 1 /\ \A p \in 1..Len(l) : l[p] = pe[p]
  OBVIOUS
<1>3. l \in Seq(Nat)
  OBVIOUS
<1>. HIDE DEF rest, l
<1>4. /\ \A i \in 1..Len(ls) : i \in 1..Len(more) /\ more[i] = ls[i]
      /\ k # 1 => Len(ls) + 1 \in 1..Len(more) /\ more[Len(ls) + 1] = l
  BY <1>3
<1>. HIDE DEF more
<1>5. CASE v \in nls
  BY <1>5 DEF Kept
<1>6. CASE \E i \in 1..Len(ls) : \E p \in 1..Len(ls[i]) : ls[i][p] = v
  BY <1>4, <1>6 DEF Kept, more
<1>7. ASSUME NEW q \in 1..Len(pe), pe[q] = v PROVE Kept(v, nls, rest, more)
  <2>1. CASE q = k
    BY <1>7, <2>1 DEF Kept
  <2>2. CASE q < k
    <3>1. q \in 1..Len(l) /\ l[q] = v /\ k # 1
      BY <1>2, <1>7, <2>2
    <3>. QED  BY <1>4, <3>1 DEF Kept
  <2>3. CASE q > k
    <3>1. q - k \in 1..Len(rest) /\ rest[q - k] = pe[(q - k) + k] /\ (q - k) + k = q
      BY <1>1, <2>3
    <3>. QED  BY <1>7, <3>1 DEF Kept
  <2>. QED  BY <2>1, <2>2, <2>3
<1>. QED  BY <1>5, <1>6, <1>7 DEF Kept, rest, l, more

\* What was read of the open file is kept, as long as no file was truncated.
KeptInv ==
  (truncs = 0 /\ fd # 0) =>
    \A s \in (base[fd] + from + 1)..(base[fd] + pos) : Kept(s, nl, pending, lines)

\* Every step keeps what was read, in lines or in pending.
LEMMA NextKeptInv ==
  IInv /\ HeldInv /\ KeptInv /\ [Next]_vars => KeptInv'
<1>. SUFFICES ASSUME IInv, HeldInv, KeptInv, [Next]_vars, truncs' = 0, fd' # 0
              PROVE  \A s \in (base'[fd'] + from' + 1)..(base'[fd'] + pos') :
                       Kept(s, nl', pending', lines')
  BY DEF KeptInv, Kept
<1>0. /\ n \in Nat /\ size \in [Inodes -> Nat] /\ base \in [Inodes -> Nat]
      /\ truncs \in Nat /\ pos \in Nat /\ from \in Nat
      /\ wfd \in 0..inodes /\ inodes \in Nat
      /\ pending \in Seq(Nat) /\ lines \in Seq(Seq(Nat))
      /\ (fd # 0 => fd \in Inodes) /\ (wfd # 0 => wfd \in Inodes)
      /\ (path # 0 => path \in Inodes)
      /\ pc \notin {"open", "openRetry", "done"} => fd # 0
  BY TailerAssumption DEF IInv, TypeOK, Inodes
<1>00. truncs = 0
  BY TruncsGrow DEF IInv
<1>1. fd # 0 => \A s \in (base[fd] + from + 1)..(base[fd] + pos) : Kept(s, nl, pending, lines)
  BY <1>00 DEF KeptInv
<1>2. fd # 0 => pos <= size[fd] /\ from <= pos
  <2>1. fd # 0 => pos <= size[fd] /\ from + Len(pending) <= pos
    BY <1>00 DEF HeldInv
  <2>2. Len(pending) \in Nat
    BY <1>0
  <2>. QED  BY <1>0, <2>1, <2>2
<1>3. CASE pos' = from' /\ base'[fd'] \in Nat /\ from' \in Nat
  <2>1. \A b, f \in Nat : (b + f + 1)..(b + f) = {}
    OBVIOUS
  <2>. QED  BY <1>3, <2>1
<1>4. CASE Write
  <2>1. /\ wfd \in Inodes /\ nl \subseteq nl'
        /\ base' = IF size[wfd] = 0 THEN [base EXCEPT ![wfd] = n] ELSE base
        /\ UNCHANGED <<fd, pos, pending, lines, from>>
    BY <1>0, <1>4 DEF Write, tailVars
  <2>2. CASE base'[fd] = base[fd]
    BY <1>1, <2>1, <2>2 DEF Kept
  <2>3. CASE base'[fd] # base[fd]
    <3>1. fd = wfd /\ size[fd] = 0 /\ base'[fd] = n
      BY <1>0, <2>1, <2>3
    <3>2. pos = 0 /\ from = 0
      BY <1>0, <1>2, <2>1, <3>1
    <3>. QED  BY <1>0, <1>3, <2>1, <3>1, <3>2
  <2>. QED  BY <2>2, <2>3
<1>5. CASE OpenFile
  <2>1. fd' = path /\ path # 0 /\ pos' = 0 /\ from' = 0 /\ base' = base
    BY <1>5 DEF OpenFile, envVars
  <2>2. base'[fd'] \in Nat
    BY <1>0, <2>1
  <2>. QED  BY <1>3, <2>1, <2>2
<1>6. CASE SeekEnd
  <2>1. fd' = fd /\ pos' = size[fd] /\ from' = size[fd] /\ base' = base
    BY <1>6 DEF SeekEnd, envVars
  <2>2. base'[fd'] \in Nat /\ from' \in Nat
    BY <1>0, <2>1
  <2>. QED  BY <1>3, <2>1, <2>2
<1>7. CASE CheckTruncation
  <2>1. fd # 0 /\ ~isTruncated
    BY <1>0, <1>2, <1>7 DEF CheckTruncation, isTruncated
  <2>. QED  BY <1>1, <1>7, <2>1 DEF CheckTruncation, envVars
<1>8. CASE Read
  <2>1. /\ fd # 0 /\ pos' = pos + readCount
        /\ pending' = pending \o [k \in 1..readCount |-> base[fd] + pos + k]
        /\ UNCHANGED <<base, nl, fd, lines, from>>
    BY <1>0, <1>8 DEF Read, envVars
  <2>. DEFINE b == base[fd]
              c == readCount
              x == b + pos
  <2>2. b \in Nat /\ c \in Nat /\ x \in Nat
    BY <1>0, <2>1, ReadCountNat
  <2>3. \A s \in (b + from + 1)..(b + (pos + c)) :
          s \in (b + from + 1)..(b + pos) \/ s \in (x + 1)..(x + c)
    <3>. HIDE DEF b, c
    <3>. QED  BY <1>0, <2>2
  <2>. HIDE DEF x, c
  <2>4. /\ \A v : Kept(v, nl, pending, lines) => Kept(v, nl, pending', lines)
        /\ \A v \in (x + 1)..(x + c) : Kept(v, nl, pending', lines)
    <3>1. pending' = pending \o [k \in 1..c |-> x + k]
      BY <2>1 DEF x, c
    <3>. QED  BY <1>0, <2>2, <3>1, KeptRead
  <2>5. \A s \in (b + from + 1)..(b + (pos + c)) : Kept(s, nl, pending', lines)
    BY <1>1, <2>1, <2>3, <2>4
  <2>. QED  BY <2>1, <2>5 DEF c
<1>9. CASE SplitLine
  <2>1. PICK k \in 1..Len(pending) :
          /\ pending[k] \in nl
          /\ lines' = IF k = 1 THEN lines ELSE Append(lines, SubSeq(pending, 1, k - 1))
          /\ pending' = SubSeq(pending, k + 1, Len(pending))
    BY <1>9 DEF SplitLine, IsFirstNewline
  <2>2. UNCHANGED <<base, nl, fd, pos, from>> /\ fd # 0
    BY <1>0, <1>9 DEF SplitLine, envVars
  <2>3. \A v : Kept(v, nl, pending, lines) => Kept(v, nl, pending', lines')
    BY <1>0, <2>1, KeptSplit
  <2>. QED  BY <1>1, <2>2, <2>3
<1>10. CASE UNCHANGED <<base, nl, fd, pos, from, pending, lines>>
  BY <1>1, <1>10
<1>. QED
  BY <1>4, <1>5, <1>6, <1>7, <1>8, <1>9, <1>10
     DEF Next, Environment, TailStep, Create, Rename, LoggerReopen, Truncate, Cancel,
         OpenFails, RetryOpen, CancelRetry, SeekFails, Tick, Stop,
         CheckRotation, StatFails, ReadFails, SplitDone,
         envVars, tailVars, vars

-----------------------------------------------------------------------------
\* All that is said of logs that are not truncated holds in every state.
LEMMA LogInvariance == Spec => [](IInv /\ LogInv /\ HeldInv /\ WholeLines /\ KeptInv)
<1>. DEFINE All == IInv /\ LogInv /\ HeldInv /\ WholeLines /\ KeptInv
<1>1. Init => All
  <2>. SUFFICES ASSUME Init PROVE All
    OBVIOUS
  <2>1. /\ lines = <<>> /\ pending = <<>> /\ fd = 0 /\ wfd = 0
        /\ \A i \in Inodes : size[i] = 0
    BY DEF Init
  <2>. QED  BY <2>1, InitIInv DEF LogInv, HeldInv, WholeLines, KeptInv
<1>2. All /\ [Next]_vars => All'
  BY NextTypeOK, NextFilesInv, NextReadInv, NextOrderInv, NextWrittenInv, NextLogInv,
     NextHeldInv, NextWholeLines, NextKeptInv DEF IInv
<1>. QED  BY <1>1, <1>2, PTL DEF Spec

(***************************************************************************)
(* While the file is not truncated, processPending gives Source.Parse the  *)
(* lines of the log, whole, however reads cut them and across rotations.   *)
(***************************************************************************)
THEOREM LinesAreWhole == Spec => []WholeLines
BY LogInvariance, PTL

(***************************************************************************)
(* While the file is not truncated, whatever Tail has read from the file   *)
(* that it has open is in a line given to Source.Parse, or still pending.  *)
(***************************************************************************)
THEOREM NothingReadIsLost == Spec => []NoSilentDrop
<1>1. KeptInv => NoSilentDrop
  BY DEF KeptInv, Kept, NoSilentDrop
<1>. QED  BY <1>1, LogInvariance, PTL

-----------------------------------------------------------------------------
(* The runner.                                                             *)

\* No step of Tail or of its environment undoes the cancellation or the return,
\* and Tail returns nil only when it has been cancelled.
LEMMA NextRun == [Next]_vars => [Run!RunnerNext]_(Run!runnerVars)
<1>. SUFFICES ASSUME [Next]_vars PROVE [Run!RunnerNext]_(Run!runnerVars)
  OBVIOUS
<1>. DEFINE outcome == IF pc # "done" THEN "running"
                       ELSE IF result = "nil" THEN "nil" ELSE "error"
<1>1. CASE cancelled' = TRUE /\ UNCHANGED <<pc, result>>
  BY <1>1 DEF Run!RunnerNext, Run!CancelRunner
<1>2. CASE cancelled' = cancelled /\ pc # "done" /\ pc' # "done"
  <2>1. outcome = "running" /\ outcome' = "running"
    BY <1>2
  <2>. HIDE DEF outcome
  <2>. QED  BY <1>2, <2>1 DEF Run!runnerVars, outcome
<1>3. CASE /\ pc # "done" /\ pc' = "done" /\ cancelled' = cancelled
           /\ result' = "nil" => cancelled
  <2>0. outcome = "running"
    BY <1>3
  <2>1. outcome = "running" /\ outcome' \in {"nil", "error"}
        /\ (outcome' = "error" \/ cancelled)
    <3>1. CASE result' = "nil"
      <4>1. outcome' = "nil"
        BY <1>3, <3>1
      <4>. QED  BY <1>3, <2>0, <3>1, <4>1
    <3>2. CASE result' # "nil"
      <4>1. outcome' = "error"
        BY <1>3, <3>2
      <4>. QED  BY <2>0, <4>1
    <3>. QED  BY <3>1, <3>2
  <2>. HIDE DEF outcome
  <2>. QED  BY <1>3, <2>1 DEF Run!RunnerNext, Run!ReturnCancelled, Run!FailEarly, outcome
<1>4. CASE UNCHANGED <<pc, result, cancelled>>
  BY <1>4 DEF Run!runnerVars
<1>5. ASSUME Environment
      PROVE  UNCHANGED <<pc, result>> /\ (cancelled' = TRUE \/ UNCHANGED cancelled)
  BY <1>5 DEF Environment, Write, Create, Rename, LoggerReopen, Truncate, Cancel, tailVars
<1>6. ASSUME Stop \/ CancelRetry \/ SeekFails
      PROVE  /\ pc # "done" /\ pc' = "done" /\ cancelled' = cancelled
             /\ result' = "nil" => cancelled
  BY <1>6 DEF Stop, CancelRetry, SeekFails
<1>7. ASSUME \/ OpenFile \/ OpenFails \/ RetryOpen \/ SeekEnd \/ Tick
             \/ CheckRotation \/ CheckTruncation \/ StatFails
             \/ Read \/ ReadFails \/ SplitLine \/ SplitDone
      PROVE  cancelled' = cancelled /\ pc # "done" /\ pc' # "done"
  BY <1>7 DEF OpenFile, OpenFails, RetryOpen, SeekEnd, Tick, CheckRotation,
              CheckTruncation, StatFails, Read, ReadFails, SplitLine, SplitDone
<1>. QED
  BY <1>1, <1>2, <1>3, <1>4, <1>5, <1>6, <1>7 DEF Next, TailStep, vars, tailVars

(***************************************************************************)
(* Tail returns once, and nil only when ctx is done: the safety part of    *)
(* what Runner says of everything main starts.                             *)
(***************************************************************************)
THEOREM TailNeverReturnsEarly == Spec => Run!RunnerSafety
<1>1. Init => Run!RunnerInit
  BY DEF Init, Run!RunnerInit
<1>. QED  BY <1>1, NextRun, PTL DEF Spec, Run!RunnerSafety
=============================================================================
