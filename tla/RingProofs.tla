----------------------------- MODULE RingProofs -----------------------------
(***************************************************************************)
(* Proofs about the two rings of the kernel whose unsigned indices wrap,   *)
(* and about who sleeps on them.                                           *)
(*                                                                         *)
(* The console (kernel/console.c on kernel/uart.c): no reader or writer    *)
(* sleeps through its wakeup, the two output paths never overrun the       *)
(* transmit FIFO, and the input ring with its three indices implements     *)
(* LineQueue.                                                              *)
(*                                                                         *)
(* The pipe (kernel/pipe.c): the page is freed exactly at the last close,  *)
(* nobody sleeps through the change it waits for, and the ring with its    *)
(* two counters implements ByteQueue.  The lemmas about remainders serve   *)
(* both, at UMAX and at PIPE_UMAX.                                         *)
(***************************************************************************)
EXTENDS Console, Pipe, SequenceTheorems, TLAPS

ReadPC == {"rd_acquire", "rd_loop", "rd_sleep", "rd_asleep"}
WritePC == {"wr_batch", "tx_acquire", "tx_loop", "tx_asleep"}
ConsolePC == {"user"} \union ReadPC \union WritePC

Index == 0..UMAX - 1
Cells == 0..INPUT_BUF_SIZE - 1

ConsoleTyped ==
    /\ conslock \in Procs \union {None, Intr}
    /\ buf \in [Cells -> Stored \union {None}]
    /\ r \in Index /\ w \in Index /\ e \in Index
    /\ tx_busy \in {0, 1} /\ fifo \in Nat /\ thri \in {0, 1}
    /\ hpc \in {"idle", "tx", "rx", "echo", "put"}
    /\ hpc \in {"echo", "put"} => c \in Keys
    /\ ppc \in {"idle", "put"}
    /\ pc \in [Procs -> ConsolePC]

\* cons.lock is held by the reader at a program point under it, or by the
\* interrupt handler while it works on a character.
ConsLock ==
    /\ \A p \in Procs : pc[p] \in {"rd_loop", "rd_sleep"} <=> conslock = p
    /\ hpc \in {"echo", "put"} <=> conslock = Intr

\* A reader that sleeps, or is about to, has seen everything that was handed over.
ReadersAsleep == \A p \in Procs : pc[p] \in {"rd_sleep", "rd_asleep"} => r = w

\* tx_busy means that an interrupt is still to come or to be acted upon, and a
\* writer sleeps only while it is set.
WritersAsleep ==
    /\ tx_busy = 1 => fifo > 0 \/ thri = 1 \/ hpc = "tx"
    /\ \A p \in Procs : pc[p] = "tx_asleep" => tx_busy = 1

\* What may still be written to THR without another look at the device: one
\* character of printf(), one of the echo, one of uartwrite().
Credit ==
    (IF ppc = "put" THEN 1 ELSE 0) + (IF hpc = "put" THEN 1 ELSE 0) + (1 - tx_busy)

CreditKept == fifo + Credit <= 3

\* The indices go round in the order r, w, e and never more than a ring apart,
\* and the line being edited has no end.
RingInv ==
    /\ Minus(e, r) <= INPUT_BUF_SIZE
    /\ Minus(w, r) + Minus(e, w) = Minus(e, r)
    /\ \A k \in 1..Minus(e, w) : Segment(w, e)[k] \notin {NL, EOT}

ConsoleInv ==
    /\ ConsoleTyped
    /\ ConsLock
    /\ ReadersAsleep
    /\ WritersAsleep
    /\ CreditKept
    /\ RingInv

----------------------------------------------------------------------------
(* Arithmetic of the wrapping indices. *)

LEMMA Sizes ==
    INPUT_BUF_SIZE \in Nat \ {0} /\ UMAX \in Nat \ {0} /\ INPUT_BUF_SIZE < UMAX
  BY ConsoleAssumption

LEMMA DivMod ==
    ASSUME NEW x \in Int, NEW m \in Nat \ {0}
    PROVE  /\ (x % m) \in 0..m - 1
           /\ (x \div m) \in Int
           /\ x = m * (x \div m) + (x % m)
  OBVIOUS

LEMMA ModOfSum ==
    ASSUME NEW m \in Nat \ {0}, NEW q \in Int, NEW d \in 0..m - 1
    PROVE  (m * q + d) % m = d
  OBVIOUS

LEMMA ModNear ==
    ASSUME NEW m \in Nat \ {0}, NEW x \in Int, -m <= x, x < 2 * m
    PROVE  x % m = IF x < 0 THEN x + m ELSE IF x < m THEN x ELSE x - m
  <1>1. ASSUME x < 0 PROVE x % m = x + m
    BY <1>1
  <1>2. ASSUME 0 <= x, x < m PROVE x % m = x
    BY <1>2
  <1>3. ASSUME m <= x PROVE x % m = x - m
    BY <1>3
  <1> QED
    BY <1>1, <1>2, <1>3

\* A multiple of the size of the ring does not change the slot.
LEMMA ModShift ==
    ASSUME NEW m \in Nat \ {0}, NEW u \in Nat, u % m = 0, NEW x \in Int
    PROVE  (x - u) % m = x % m
  <1> DEFINE q == x \div m
             k == u \div m
             d == x % m
  <1>1. x = m * q + d /\ q \in Int /\ d \in 0..m - 1
    BY DivMod
  <1>2. u = m * k /\ k \in Int
    BY DivMod, SMT
  <1>3. x - u = m * (q - k) + d
    <2> HIDE DEF q, k, d
    <2> QED
      BY <1>1, <1>2
  <1>4. (m * (q - k) + d) % m = d
    <2> HIDE DEF q, k, d
    <2> QED
      BY <1>1, <1>2, ModOfSum
  <1> QED
    BY <1>3, <1>4

\* Two positions less than a ring apart are in different slots.
LEMMA ModApart ==
    ASSUME NEW m \in Nat \ {0}, NEW a \in Int, NEW b \in Int, a < b, b < a + m
    PROVE  a % m # b % m
  <1> DEFINE q == a \div m
             k == b \div m
             d == a % m
  <1> SUFFICES ASSUME d = b % m PROVE FALSE
    OBVIOUS
  <1>1. a = m * q + d /\ q \in Int /\ d \in 0..m - 1
    BY DivMod
  <1>2. b = m * k + d /\ k \in Int
    BY DivMod
  <1> HIDE DEF q, k, d
  <1>3. b - a = m * (k - q)
    BY <1>1, <1>2
  <1>4. CASE k - q <= 0
    <2>1. m * (k - q) <= 0
      BY <1>1, <1>2, <1>4
    <2> QED
      BY <2>1, <1>3
  <1>5. CASE k - q >= 1
    <2>1. m * (k - q) >= m
      BY <1>1, <1>2, <1>5
    <2> QED
      BY <2>1, <1>3
  <1> QED
    BY <1>4, <1>5, <1>1, <1>2

LEMMA WrapIs ==
    ASSUME NEW x \in Int, -UMAX <= x, x < 2 * UMAX
    PROVE  x % UMAX = IF x < 0 THEN x + UMAX ELSE IF x < UMAX THEN x ELSE x - UMAX
  BY Sizes, ModNear

LEMMA PlusIs ==
    ASSUME NEW x \in Index, NEW k \in 0..UMAX
    PROVE  /\ Plus(x, k) = IF x + k < UMAX THEN x + k ELSE x + k - UMAX
           /\ Plus(x, k) \in Index
  <1> DEFINE a == x + k
  <1>1. a \in Int /\ -UMAX <= a /\ a < 2 * UMAX /\ 0 <= a
    BY Sizes DEF Index
  <1>2. Plus(x, k) = a % UMAX
    BY DEF Plus
  <1>3. a % UMAX = IF a < UMAX THEN a ELSE a - UMAX
    <2> HIDE DEF a
    <2> QED
      BY <1>1, Sizes, WrapIs
  <1> QED
    BY <1>1, <1>2, <1>3, Sizes DEF Index

LEMMA MinusIs ==
    ASSUME NEW x \in Index, NEW k \in 0..UMAX
    PROVE  /\ Minus(x, k) = IF x >= k THEN x - k ELSE x - k + UMAX
           /\ Minus(x, k) \in Index
  <1> DEFINE a == x - k
  <1>1. a \in Int /\ -UMAX <= a /\ a < UMAX
    BY Sizes DEF Index
  <1>2. Minus(x, k) = a % UMAX
    BY DEF Minus
  <1>3. a % UMAX = IF a >= 0 THEN a ELSE a + UMAX
    <2> HIDE DEF a
    <2> QED
      BY <1>1, Sizes, WrapIs
  <1> QED
    BY <1>1, <1>2, <1>3, Sizes DEF Index

\* How far index y is ahead of index x.
LEMMA Distance ==
    ASSUME NEW x \in Index, NEW y \in Index
    PROVE  /\ Minus(y, x) = IF y >= x THEN y - x ELSE y - x + UMAX
           /\ Minus(y, x) \in Index /\ Minus(y, x) \in Nat
           /\ x \in Int /\ y \in Int
           /\ Minus(y, x) = 0 <=> x = y
  <1>1. x \in 0..UMAX
    BY Sizes DEF Index
  <1>2. /\ Minus(y, x) = IF y >= x THEN y - x ELSE y - x + UMAX
        /\ Minus(y, x) \in Index
    BY <1>1, MinusIs
  <1> QED
    BY <1>2, Sizes DEF Index

LEMMA SlotIn ==
    ASSUME NEW x \in Int
    PROVE  Slot(x) \in Cells
  BY Sizes, DivMod DEF Slot, Cells

LEMMA SlotApart ==
    ASSUME NEW a \in Int, NEW b \in Int, a < b, b < a + INPUT_BUF_SIZE
    PROVE  Slot(a) # Slot(b)
  BY Sizes, ModApart DEF Slot

LEMMA SlotShift ==
    ASSUME NEW x \in Int
    PROVE  Slot(x - UMAX) = Slot(x)
  <1>1. UMAX % INPUT_BUF_SIZE = 0
    BY ConsoleAssumption
  <1> QED
    BY <1>1, Sizes, ModShift DEF Slot

LEMMA SlotSame ==
    ASSUME NEW x \in Int, NEW y \in Int, y = x \/ y = x - UMAX
    PROVE  Slot(x) = Slot(y)
  BY SlotShift

\* The wrapped position of a character is in the slot of the unwrapped one.
LEMMA SlotPlus ==
    ASSUME NEW x \in Index, NEW k \in 0..UMAX
    PROVE  Slot(Plus(x, k)) = Slot(x + k)
  <1>1. x + k \in Int /\ (Plus(x, k) = x + k \/ Plus(x, k) = (x + k) - UMAX)
    BY PlusIs, Sizes DEF Index
  <1> QED
    BY <1>1, SlotShift

----------------------------------------------------------------------------
(* Segments of a ring. *)

Chars == Stored \union {None}
Rings == [Cells -> Chars]

\* The characters of ring b from index x up to index y.
Seg(b, x, y) == [k \in 1..Minus(y, x) |-> b[Slot(Plus(x, k - 1))]]

LEMMA SegSeq ==
    ASSUME NEW b \in Rings, NEW x \in Index, NEW y \in Index
    PROVE  /\ Seg(b, x, y) \in Seq(Chars)
           /\ Len(Seg(b, x, y)) = Minus(y, x)
           /\ \A k \in 1..Minus(y, x) : Seg(b, x, y)[k] = b[Slot(x + k - 1)]
  <1> DEFINE m == Minus(y, x)
             s == Seg(b, x, y)
  <1>1. m \in Nat /\ m < UMAX /\ x \in Int
    BY Distance, Sizes DEF Index
  <1>2. ASSUME NEW k \in 1..m
        PROVE  /\ Slot(Plus(x, k - 1)) = Slot(x + k - 1)
               /\ b[Slot(x + k - 1)] \in Chars
    <2>1. k - 1 \in 0..UMAX /\ x + (k - 1) = x + k - 1 /\ x + k - 1 \in Int
      <3> HIDE DEF m
      <3> QED
        BY <1>1, Sizes
    <2>2. Slot(x + k - 1) \in Cells
      BY <2>1, SlotIn
    <2> QED
      BY <2>1, <2>2, SlotPlus DEF Rings
  <1>3. s = [k \in 1..m |-> b[Slot(Plus(x, k - 1))]]
    BY DEF Seg
  <1> HIDE DEF m, s
  <1>4. s \in [1..m -> Chars] /\ \A k \in 1..m : s[k] = b[Slot(x + k - 1)]
    BY <1>2, <1>3
  <1>5. s \in Seq(Chars)
    BY <1>1, <1>4, SeqDef
  <1>6. Len(s) = m
    BY <1>1, <1>4, <1>5
  <1> QED
    BY <1>4, <1>5, <1>6 DEF m, s

LEMMA SegEmpty ==
    ASSUME NEW b \in Rings, NEW x \in Index
    PROVE  Seg(b, x, x) = <<>> /\ Minus(x, x) = 0
  <1>1. Minus(x, x) = 0
    BY Distance
  <1>2. Seg(b, x, x) \in Seq(Chars) /\ Len(Seg(b, x, x)) = 0
    BY <1>1, SegSeq
  <1> QED
    BY <1>1, <1>2

\* One more character at the end.
LEMMA SegAppend ==
    ASSUME NEW b \in Rings, NEW x \in Index, NEW y \in Index,
           Minus(y, x) < UMAX - 1
    PROVE  /\ Plus(y, 1) \in Index
           /\ Minus(Plus(y, 1), x) = Minus(y, x) + 1
           /\ Seg(b, x, Plus(y, 1)) = Append(Seg(b, x, y), b[Slot(y)])
  <1>1. PICK m : m = Minus(y, x)
    OBVIOUS
  <1>2. PICK z : z = Plus(y, 1)
    OBVIOUS
  <1>3. /\ z = (IF y + 1 < UMAX THEN y + 1 ELSE y + 1 - UMAX)
        /\ z \in Index
    BY <1>2, PlusIs, Sizes
  <1>4. /\ m = (IF y >= x THEN y - x ELSE y - x + UMAX)
        /\ m \in Nat /\ m < UMAX - 1 /\ x \in Int /\ y \in Int /\ x < UMAX /\ x >= 0
    <2>1. /\ m = (IF y >= x THEN y - x ELSE y - x + UMAX)
          /\ m \in Nat /\ m < UMAX - 1
      BY <1>1, Distance
    <2> QED
      BY <2>1, Sizes DEF Index
  <1>5. Minus(z, x) = m + 1
    <2>1. Minus(z, x) = (IF z >= x THEN z - x ELSE z - x + UMAX)
      BY <1>3, Distance
    <2> QED
      BY <2>1, <1>3, <1>4, Sizes DEF Index
  <1>6. PICK s : s = Seg(b, x, y)
    OBVIOUS
  <1>7. PICK t : t = Seg(b, x, z)
    OBVIOUS
  <1>8. /\ s \in Seq(Chars) /\ Len(s) = m
        /\ \A k \in 1..m : s[k] = b[Slot(x + k - 1)]
    BY <1>1, <1>6, SegSeq
  <1>9. /\ t \in Seq(Chars) /\ Len(t) = m + 1
        /\ \A k \in 1..m + 1 : t[k] = b[Slot(x + k - 1)]
    <2>1. /\ t \in Seq(Chars) /\ Len(t) = Minus(z, x)
          /\ \A k \in 1..Minus(z, x) : t[k] = b[Slot(x + k - 1)]
      BY <1>3, <1>7, SegSeq, SMTT(60)
    <2> QED
      BY <2>1, <1>5
  <1>10. Slot(x + (m + 1) - 1) = Slot(y) /\ b[Slot(y)] \in Chars
    <2>1. x + m = y \/ x + m - UMAX = y
      BY <1>4, Sizes
    <2>2. x + m \in Int /\ x + (m + 1) - 1 = x + m
      BY <1>4
    <2>3. Slot(x + m) = Slot(y)
      <3>1. PICK a \in Int : a = x + m
        BY <2>2
      <3>2. y = a \/ y = a - UMAX
        BY <3>1, <2>1, <1>4, Sizes
      <3> QED
        BY <3>1, <3>2, <1>4, SlotSame
    <2>4. Slot(y) \in Cells
      BY <1>4, SlotIn
    <2> QED
      BY <2>2, <2>3, <2>4 DEF Rings
  <1>11. PICK v \in Chars : v = b[Slot(y)]
    BY <1>10
  <1>12. /\ Append(s, v) \in Seq(Chars) /\ Len(Append(s, v)) = m + 1
         /\ \A k \in 1..m + 1 : Append(s, v)[k] = IF k = m + 1 THEN v ELSE s[k]
    BY <1>4, <1>8
  <1>13. ASSUME NEW k \in 1..m + 1 PROVE t[k] = Append(s, v)[k]
    <2>1. k = m + 1 \/ k \in 1..m
      BY <1>4
    <2>2. t[m + 1] = v
      <3>1. m + 1 \in 1..m + 1
        BY <1>4
      <3>2. t[m + 1] = b[Slot(x + (m + 1) - 1)]
        BY <3>1, <1>9
      <3> QED
        BY <3>2, <1>10, <1>11
    <2> QED
      BY <2>1, <2>2, <1>4, <1>8, <1>9, <1>12
  <1>14. t = Append(s, v)
    BY <1>9, <1>12, <1>13, SeqEqual
  <1> QED
    BY <1>1, <1>2, <1>3, <1>5, <1>6, <1>7, <1>11, <1>14

\* The last character taken back.
LEMMA SegFront ==
    ASSUME NEW b \in Rings, NEW x \in Index, NEW y \in Index, x # y
    PROVE  /\ Minus(y, 1) \in Index
           /\ Minus(Minus(y, 1), x) = Minus(y, x) - 1
           /\ Seg(b, x, Minus(y, 1)) = SubSeq(Seg(b, x, y), 1, Minus(y, x) - 1)
           /\ \A k \in 1..Minus(y, x) - 1 :
                 Seg(b, x, Minus(y, 1))[k] = Seg(b, x, y)[k]
  <1>1. PICK m : m = Minus(y, x)
    OBVIOUS
  <1>2. PICK z : z = Minus(y, 1)
    OBVIOUS
  <1>3. /\ z = (IF y >= 1 THEN y - 1 ELSE y - 1 + UMAX)
        /\ z \in Index
    BY <1>2, MinusIs, Sizes
  <1>4. /\ m = (IF y >= x THEN y - x ELSE y - x + UMAX)
        /\ m \in Nat \ {0} /\ m < UMAX /\ x \in Int /\ y \in Int /\ x < UMAX /\ x >= 0
    <2>1. /\ m = (IF y >= x THEN y - x ELSE y - x + UMAX)
          /\ m \in Nat /\ m # 0 /\ m \in Index
      BY <1>1, Distance
    <2> QED
      BY <2>1, Sizes DEF Index
  <1>5. Minus(z, x) = m - 1
    <2>1. Minus(z, x) = (IF z >= x THEN z - x ELSE z - x + UMAX)
      BY <1>3, Distance
    <2> QED
      BY <2>1, <1>3, <1>4, Sizes DEF Index
  <1>6. PICK s : s = Seg(b, x, y)
    OBVIOUS
  <1>7. PICK t : t = Seg(b, x, z)
    OBVIOUS
  <1>8. /\ s \in Seq(Chars) /\ Len(s) = m
        /\ \A k \in 1..m : s[k] = b[Slot(x + k - 1)]
    BY <1>1, <1>6, SegSeq
  <1>9. /\ t \in Seq(Chars) /\ Len(t) = m - 1
        /\ \A k \in 1..m - 1 : t[k] = b[Slot(x + k - 1)]
    <2>1. /\ t \in Seq(Chars) /\ Len(t) = Minus(z, x)
          /\ \A k \in 1..Minus(z, x) : t[k] = b[Slot(x + k - 1)]
      BY <1>3, <1>7, SegSeq
    <2> QED
      BY <2>1, <1>5
  <1>10. \A k \in 1..m - 1 : t[k] = s[k]
    BY <1>4, <1>8, <1>9
  <1>11. /\ SubSeq(s, 1, m - 1) \in Seq(Chars) /\ Len(SubSeq(s, 1, m - 1)) = m - 1
         /\ \A k \in 1..m - 1 : SubSeq(s, 1, m - 1)[k] = s[k]
    BY <1>4, <1>8
  <1>12. t = SubSeq(s, 1, m - 1)
    BY <1>9, <1>10, <1>11, SeqEqual
  <1> QED
    BY <1>1, <1>2, <1>3, <1>5, <1>6, <1>7, <1>10, <1>12

\* The first character taken away.
LEMMA SegTail ==
    ASSUME NEW b \in Rings, NEW x \in Index, NEW y \in Index, x # y
    PROVE  /\ Plus(x, 1) \in Index
           /\ Minus(y, Plus(x, 1)) = Minus(y, x) - 1
           /\ Seg(b, x, y) # <<>>
           /\ Seg(b, Plus(x, 1), y) = Tail(Seg(b, x, y))
  <1>1. PICK m : m = Minus(y, x)
    OBVIOUS
  <1>2. PICK z : z = Plus(x, 1)
    OBVIOUS
  <1>3. /\ z = (IF x + 1 < UMAX THEN x + 1 ELSE x + 1 - UMAX)
        /\ z \in Index
    BY <1>2, PlusIs, Sizes
  <1>4. /\ m = (IF y >= x THEN y - x ELSE y - x + UMAX)
        /\ m \in Nat \ {0} /\ m < UMAX /\ x \in Int /\ y \in Int /\ x < UMAX /\ x >= 0
        /\ y >= 0 /\ y < UMAX /\ z \in Int
    <2>1. /\ m = (IF y >= x THEN y - x ELSE y - x + UMAX)
          /\ m \in Nat /\ m # 0 /\ m \in Index
      BY <1>1, Distance
    <2> QED
      BY <2>1, <1>3, Sizes DEF Index
  <1>5. Minus(y, z) = m - 1
    <2>1. Minus(y, z) = (IF y >= z THEN y - z ELSE y - z + UMAX)
      BY <1>3, Distance
    <2> QED
      BY <2>1, <1>3, <1>4, Sizes
  <1>6. PICK s : s = Seg(b, x, y)
    OBVIOUS
  <1>7. PICK t : t = Seg(b, z, y)
    OBVIOUS
  <1>8. /\ s \in Seq(Chars) /\ Len(s) = m
        /\ \A k \in 1..m : s[k] = b[Slot(x + k - 1)]
    BY <1>1, <1>6, SegSeq
  <1>9. /\ t \in Seq(Chars) /\ Len(t) = m - 1
        /\ \A k \in 1..m - 1 : t[k] = b[Slot(z + k - 1)]
    <2>1. /\ t \in Seq(Chars) /\ Len(t) = Minus(y, z)
          /\ \A k \in 1..Minus(y, z) : t[k] = b[Slot(z + k - 1)]
      BY <1>3, <1>7, SegSeq
    <2> QED
      BY <2>1, <1>5
  <1>10. /\ s # <<>>
         /\ Tail(s) \in Seq(Chars) /\ Len(Tail(s)) = m - 1
         /\ \A k \in 1..m - 1 : Tail(s)[k] = s[k + 1]
    BY <1>4, <1>8
  <1>11. ASSUME NEW k \in 1..m - 1 PROVE t[k] = Tail(s)[k]
    <2>1. s[k + 1] = b[Slot(x + (k + 1) - 1)]
      <3>1. k + 1 \in 1..m
        BY <1>4
      <3> QED
        BY <1>8, <3>1
    <2>2. z + k - 1 = x + (k + 1) - 1 \/ z + k - 1 = (x + (k + 1) - 1) - UMAX
      BY <1>3, <1>4, Sizes
    <2>3. x + (k + 1) - 1 \in Int
      BY <1>4
    <2>4. Slot(z + k - 1) = Slot(x + (k + 1) - 1)
      BY <2>2, <2>3, <1>4, SlotSame
    <2> QED
      BY <2>1, <2>4, <1>9, <1>10
  <1>12. t = Tail(s)
    BY <1>9, <1>10, <1>11, SeqEqual
  <1> QED
    BY <1>1, <1>2, <1>3, <1>5, <1>6, <1>7, <1>10, <1>12

\* Two adjacent segments are one.
LEMMA SegConcat ==
    ASSUME NEW b \in Rings, NEW x \in Index, NEW y \in Index, NEW z \in Index,
           Minus(y, x) + Minus(z, y) = Minus(z, x)
    PROVE  Seg(b, x, z) = Seg(b, x, y) \o Seg(b, y, z)
  <1>1. PICK i : i = Minus(y, x)
    OBVIOUS
  <1>2. PICK j : j = Minus(z, y)
    OBVIOUS
  <1>3. /\ i \in Nat /\ j \in Nat /\ x \in Int /\ y \in Int
        /\ x + i = y \/ x + i - UMAX = y
    BY <1>1, <1>2, Distance, Sizes
  <1>4. PICK s : s = Seg(b, x, y)
    OBVIOUS
  <1>5. PICK t : t = Seg(b, y, z)
    OBVIOUS
  <1>6. PICK u : u = Seg(b, x, z)
    OBVIOUS
  <1>7. /\ s \in Seq(Chars) /\ Len(s) = i
        /\ \A k \in 1..i : s[k] = b[Slot(x + k - 1)]
    BY <1>1, <1>4, SegSeq
  <1>8. /\ t \in Seq(Chars) /\ Len(t) = j
        /\ \A k \in 1..j : t[k] = b[Slot(y + k - 1)]
    BY <1>2, <1>5, SegSeq
  <1>9. /\ u \in Seq(Chars) /\ Len(u) = i + j
        /\ \A k \in 1..i + j : u[k] = b[Slot(x + k - 1)]
    BY <1>1, <1>2, <1>6, SegSeq, SMTT(60)
  <1>10. /\ s \o t \in Seq(Chars) /\ Len(s \o t) = i + j
         /\ \A k \in 1..i + j : (s \o t)[k] = IF k <= i THEN s[k] ELSE t[k - i]
    BY <1>3, <1>7, <1>8, ConcatProperties
  <1>11. ASSUME NEW k \in 1..i + j PROVE u[k] = (s \o t)[k]
    <2>1. CASE k <= i
      <3>1. k \in 1..i
        BY <2>1, <1>3
      <3> QED
        BY <2>1, <3>1, <1>7, <1>9, <1>10
    <2>2. CASE k > i
      <3>1. k - i \in 1..j /\ ~(k <= i)
        BY <2>2, <1>3
      <3>2. t[k - i] = b[Slot(y + (k - i) - 1)]
        BY <3>1, <1>8
      <3>3. /\ x + k - 1 \in Int
            /\ \/ y + (k - i) - 1 = x + k - 1
               \/ y + (k - i) - 1 = (x + k - 1) - UMAX
        BY <1>3, Sizes
      <3>4. Slot(y + (k - i) - 1) = Slot(x + k - 1)
        BY <3>3, <1>3, SlotSame
      <3> QED
        BY <3>1, <3>2, <3>4, <1>9, <1>10
    <2>3. k <= i \/ k > i
      BY <1>3
    <2> QED
      BY <2>1, <2>2, <2>3
  <1>12. u = s \o t
    BY <1>9, <1>10, <1>11, SeqEqual
  <1> QED
    BY <1>4, <1>5, <1>6, <1>12

\* A character stored at z, behind the segment and less than a ring after its
\* beginning, overwrites nothing of it.
LEMMA SegKept ==
    ASSUME NEW b \in Rings, NEW f \in Rings,
           NEW x \in Index, NEW y \in Index, NEW z \in Index,
           \A a \in Cells : a # Slot(z) => f[a] = b[a],
           Minus(y, x) <= Minus(z, x), Minus(z, x) < INPUT_BUF_SIZE
    PROVE  Seg(f, x, y) = Seg(b, x, y)
  <1>1. PICK i : i = Minus(y, x)
    OBVIOUS
  <1>2. PICK j : j = Minus(z, x)
    OBVIOUS
  <1>3. /\ i \in Nat /\ j \in Nat /\ x \in Int /\ z \in Int
        /\ i <= j /\ j < INPUT_BUF_SIZE
        /\ x + j = z \/ x + j - UMAX = z
    BY <1>1, <1>2, Distance, Sizes
  <1>4. Slot(x + j) = Slot(z) /\ Slot(z) \in Cells /\ x + j \in Int
    <2>1. x + j \in Int
      BY <1>3
    <2>2. PICK a \in Int : a = x + j
      BY <2>1
    <2>3. z = a \/ z = a - UMAX
      BY <2>2, <1>3, Sizes
    <2>4. Slot(a) = Slot(z) /\ Slot(z) \in Cells
      BY <2>3, <1>3, SlotSame, SlotIn
    <2> QED
      BY <2>1, <2>2, <2>4
  <1>5. PICK s : s = Seg(b, x, y)
    OBVIOUS
  <1>6. PICK t : t = Seg(f, x, y)
    OBVIOUS
  <1>7. /\ s \in Seq(Chars) /\ Len(s) = i
        /\ \A k \in 1..i : s[k] = b[Slot(x + k - 1)]
    BY <1>1, <1>5, SegSeq
  <1>8. /\ t \in Seq(Chars) /\ Len(t) = i
        /\ \A k \in 1..i : t[k] = f[Slot(x + k - 1)]
    BY <1>1, <1>6, SegSeq
  <1>9. ASSUME NEW k \in 1..i PROVE t[k] = s[k]
    <2>1. /\ x + k - 1 \in Int /\ x + k - 1 < x + j
          /\ x + j < x + k - 1 + INPUT_BUF_SIZE
      BY <1>3, Sizes
    <2>2. Slot(x + k - 1) # Slot(x + j) /\ Slot(x + k - 1) \in Cells
      BY <2>1, <1>4, SlotApart, SlotIn
    <2> QED
      BY <2>2, <1>4, <1>7, <1>8
  <1>10. t = s
    BY <1>7, <1>8, <1>9, SeqEqual
  <1> QED
    BY <1>5, <1>6, <1>10

----------------------------------------------------------------------------
(* What the operations do to the ring. *)

\* The ring invariant of a ring b with indices x, y, z for r, w, e.
RingOf(b, x, y, z) ==
    /\ Minus(z, x) <= INPUT_BUF_SIZE
    /\ Minus(y, x) + Minus(z, y) = Minus(z, x)
    /\ \A k \in 1..Minus(z, y) : Seg(b, y, z)[k] \notin {NL, EOT}

\* ^U: the line is gone.
LEMMA KillRing ==
    ASSUME NEW b \in Rings, NEW x \in Index, NEW y \in Index, NEW z \in Index,
           RingOf(b, x, y, z)
    PROVE  RingOf(b, x, y, y)
  <1>1. Minus(y, x) \in Nat /\ Minus(z, y) \in Nat /\ Minus(y, y) = 0
    BY Distance
  <1>2. Minus(y, x) <= INPUT_BUF_SIZE
    BY <1>1, Sizes DEF RingOf
  <1> QED
    BY <1>1, <1>2 DEF RingOf

\* Backspace: the line loses its last character.
LEMMA EraseRing ==
    ASSUME NEW b \in Rings, NEW x \in Index, NEW y \in Index, NEW z \in Index,
           RingOf(b, x, y, z), y # z
    PROVE  RingOf(b, x, y, Minus(z, 1))
  <1>1. PICK z1 : z1 = Minus(z, 1)
    OBVIOUS
  <1>2. /\ z1 \in Index /\ Minus(z1, y) = Minus(z, y) - 1
        /\ \A k \in 1..Minus(z, y) - 1 : Seg(b, y, z1)[k] = Seg(b, y, z)[k]
    BY <1>1, SegFront
  <1>3. /\ Minus(y, x) \in Nat /\ Minus(z, y) \in Nat \ {0} /\ Minus(z, x) \in Nat
    BY Distance
  <1>4. Minus(z, x) # 0
    BY <1>3 DEF RingOf
  <1>5. x # z
    BY <1>4, Distance
  <1>6. Minus(z1, x) = Minus(z, x) - 1
    BY <1>1, <1>5, SegFront
  <1>7. /\ Minus(z1, x) <= INPUT_BUF_SIZE
        /\ Minus(y, x) + Minus(z1, y) = Minus(z1, x)
    BY <1>2, <1>3, <1>6, Sizes DEF RingOf
  <1>8. ASSUME NEW k \in 1..Minus(z1, y)
        PROVE  Seg(b, y, z1)[k] \notin {NL, EOT}
    BY <1>2, <1>3 DEF RingOf
  <1> QED
    BY <1>1, <1>7, <1>8 DEF RingOf

\* read(): the oldest character leaves.
LEMMA TakeRing ==
    ASSUME NEW b \in Rings, NEW x \in Index, NEW y \in Index, NEW z \in Index,
           RingOf(b, x, y, z), x # y
    PROVE  RingOf(b, Plus(x, 1), y, z)
  <1>1. PICK x1 : x1 = Plus(x, 1)
    OBVIOUS
  <1>2. /\ Minus(y, x) \in Nat \ {0} /\ Minus(z, y) \in Nat /\ Minus(z, x) \in Nat
    BY Distance
  <1>3. x # z
    <2>1. Minus(z, x) # 0
      BY <1>2 DEF RingOf
    <2> QED
      BY <2>1, Distance
  <1>4. Minus(y, x1) = Minus(y, x) - 1 /\ Minus(z, x1) = Minus(z, x) - 1
    BY <1>1, <1>3, SegTail
  <1> QED
    BY <1>1, <1>2, <1>4, Sizes DEF RingOf

\* A stored character: behind the line, and nothing stored is overwritten.
LEMMA StoreRing ==
    ASSUME NEW b \in Rings, NEW x \in Index, NEW y \in Index, NEW z \in Index,
           NEW f \in Rings, \A a \in Cells : a # Slot(z) => f[a] = b[a],
           RingOf(b, x, y, z), Minus(z, x) < INPUT_BUF_SIZE
    PROVE  /\ Plus(z, 1) \in Index
           /\ Minus(Plus(z, 1), x) = Minus(z, x) + 1
           /\ Seg(f, x, y) = Seg(b, x, y)
           /\ Seg(f, y, Plus(z, 1)) = Append(Seg(b, y, z), f[Slot(z)])
           /\ Seg(f, x, Plus(z, 1)) = Seg(b, x, y) \o Append(Seg(b, y, z), f[Slot(z)])
           /\ RingOf(f, x, Plus(z, 1), Plus(z, 1))
           /\ f[Slot(z)] \notin {NL, EOT} => RingOf(f, x, y, Plus(z, 1))
  <1>0. PICK z1 : z1 = Plus(z, 1)
    OBVIOUS
  <1>1. /\ Minus(y, x) \in Nat /\ Minus(z, y) \in Nat /\ Minus(z, x) \in Nat
        /\ z \in Int /\ Minus(y, x) + Minus(z, y) = Minus(z, x)
        /\ Minus(z, y) < INPUT_BUF_SIZE /\ Minus(y, x) <= Minus(z, x)
    <2>1. /\ Minus(y, x) \in Nat /\ Minus(z, y) \in Nat /\ Minus(z, x) \in Nat
          /\ z \in Int
      BY Distance
    <2>2. Minus(y, x) + Minus(z, y) = Minus(z, x)
      BY DEF RingOf
    <2> QED
      BY <2>1, <2>2, Sizes
  <1>2. Slot(z) \in Cells
    BY <1>1, SlotIn
  <1>3. PICK v \in Chars : v = f[Slot(z)]
    BY <1>2 DEF Rings
  <1>4. Minus(z, x) < UMAX - 1 /\ Minus(z, y) < UMAX - 1
    BY <1>1, Sizes
  <1>5. /\ z1 \in Index
        /\ Minus(z1, x) = Minus(z, x) + 1
        /\ Minus(z1, y) = Minus(z, y) + 1
        /\ Seg(f, x, z1) = Append(Seg(f, x, z), v)
        /\ Seg(f, y, z1) = Append(Seg(f, y, z), v)
    <2>1. /\ z1 \in Index
          /\ Minus(z1, x) = Minus(z, x) + 1
          /\ Seg(f, x, z1) = Append(Seg(f, x, z), f[Slot(z)])
      BY <1>0, <1>4, SegAppend
    <2>2. /\ Minus(z1, y) = Minus(z, y) + 1
          /\ Seg(f, y, z1) = Append(Seg(f, y, z), f[Slot(z)])
      BY <1>0, <1>4, SegAppend
    <2> QED
      BY <1>3, <2>1, <2>2
  <1>6. Seg(f, x, y) = Seg(b, x, y)
    BY <1>1, SegKept
  <1>7. Seg(f, x, z) = Seg(b, x, z)
    <2>1. Minus(z, x) <= Minus(z, x)
      BY <1>1
    <2> QED
      BY <2>1, SegKept
  <1>8. Seg(f, y, z) = Seg(b, y, z)
    <2>1. Minus(z, y) <= Minus(z, y)
      BY <1>1
    <2> QED
      BY <2>1, <1>1, SegKept
  <1>9. Seg(b, x, z) = Seg(b, x, y) \o Seg(b, y, z)
    BY <1>1, SegConcat
  <1>10. /\ Seg(b, x, y) \in Seq(Chars) /\ Seg(b, y, z) \in Seq(Chars)
         /\ Len(Seg(b, y, z)) = Minus(z, y)
    BY SegSeq
  <1>11. Append(Seg(b, x, y) \o Seg(b, y, z), v) = Seg(b, x, y) \o Append(Seg(b, y, z), v)
    <2>1. PICK s : s = Seg(b, x, y)
      OBVIOUS
    <2>2. PICK t : t = Seg(b, y, z)
      OBVIOUS
    <2>3. s \in Seq(Chars) /\ t \in Seq(Chars) /\ <<v>> \in Seq(Chars)
      BY <2>1, <2>2, <1>10
    <2>4. (s \o t) \o <<v>> = s \o (t \o <<v>>)
      BY <2>3, ConcatAssociative
    <2>5. s \o t \in Seq(Chars)
      BY <2>3
    <2>6. Append(s \o t, v) = (s \o t) \o <<v>> /\ Append(t, v) = t \o <<v>>
      BY <2>3, <2>5, AppendIsConcat
    <2> QED
      BY <2>1, <2>2, <2>4, <2>6
  <1>12. RingOf(f, x, z1, z1)
    <2>1. Minus(z1, z1) = 0
      BY <1>5, Distance
    <2>2. Minus(z1, x) \in Nat /\ Minus(z1, x) <= INPUT_BUF_SIZE
      BY <1>1, <1>5, Sizes
    <2> QED
      BY <2>1, <2>2 DEF RingOf
  <1>13. ASSUME v \notin {NL, EOT} PROVE RingOf(f, x, y, z1)
    <2>1. /\ Minus(z1, x) <= INPUT_BUF_SIZE
          /\ Minus(y, x) + Minus(z1, y) = Minus(z1, x)
      BY <1>1, <1>5, Sizes
    <2>2. ASSUME NEW k \in 1..Minus(z1, y)
          PROVE  Seg(f, y, z1)[k] \notin {NL, EOT}
      <3>1. PICK t : t = Seg(b, y, z)
        OBVIOUS
      <3>2. PICK m \in Nat : m = Minus(z, y)
        BY <1>1
      <3>3. t \in Seq(Chars) /\ Len(t) = m /\ k \in 1..m + 1
        BY <3>1, <3>2, <1>5, <1>10
      <3>4. Append(t, v)[k] = v \/ (k \in 1..m /\ Append(t, v)[k] = t[k])
        BY <3>3
      <3>5. \A j \in 1..m : t[j] \notin {NL, EOT}
        BY <3>1, <3>2 DEF RingOf
      <3> QED
        BY <3>1, <3>4, <3>5, <1>5, <1>8, <1>13
    <2> QED
      BY <2>1, <2>2 DEF RingOf
  <1> QED
    BY <1>0, <1>3, <1>5, <1>6, <1>7, <1>8, <1>9, <1>11, <1>12, <1>13

\* The invariant and the refinement mapping in terms of RingOf and Seg.
LEMMA RingIs ==
    /\ RingInv <=> RingOf(buf, r, w, e)
    /\ RingInv' <=> RingOf(buf', r', w', e')
    /\ Segment(r, w) = Seg(buf, r, w) /\ Segment(w, e) = Seg(buf, w, e)
    /\ Segment(r, w)' = Seg(buf', r', w') /\ Segment(w, e)' = Seg(buf', w', e')
  BY DEF RingInv, RingOf, Segment, Seg

\* ^U finds no end of line in the line it erases: it erases all of it.
LEMMA ErasedIs ==
    ASSUME ConsoleTyped, RingInv
    PROVE  Erased = Minus(e, w) /\ Erased \in Nat /\ Minus(e, Erased) = w
  <1>1. PICK m : m = Minus(e, w)
    OBVIOUS
  <1>2. /\ r \in Index /\ w \in Index /\ e \in Index /\ buf \in Rings
        /\ RingOf(buf, r, w, e)
    BY RingIs DEF ConsoleTyped, Rings, Chars
  <1>3. /\ m = (IF e >= w THEN e - w ELSE e - w + UMAX)
        /\ m \in Nat /\ e \in Int /\ w \in Int /\ m \in Index
    BY <1>1, <1>2, Distance
  <1>4. ASSUME NEW k \in 1..m PROVE buf[Slot(Minus(e, k))] # NL
    <2>1. Minus(e, k) = IF e >= k THEN e - k ELSE e - k + UMAX
      <3>1. k \in 0..UMAX
        BY <1>3, Sizes DEF Index
      <3> QED
        BY <3>1, <1>2, MinusIs
    <2>2. PICK j \in 1..m : j = m - k + 1
      <3>1. m - k + 1 \in 1..m
        BY <1>3
      <3> QED
        BY <3>1
    <2>3. /\ w + j - 1 \in Int /\ Minus(e, k) \in Int
          /\ Minus(e, k) = w + j - 1 \/ Minus(e, k) = (w + j - 1) - UMAX
      BY <2>1, <2>2, <1>2, <1>3, Sizes DEF Index
    <2>4. Slot(w + j - 1) = Slot(Minus(e, k))
      BY <2>3, SlotSame
    <2>5. Seg(buf, w, e)[j] = buf[Slot(w + j - 1)]
      BY <1>1, <1>2, SegSeq
    <2>6. Seg(buf, w, e)[j] # NL
      BY <1>1, <1>2 DEF RingOf
    <2> QED
      BY <2>4, <2>5, <2>6
  <1>5. {k \in 1..m : buf[Slot(Minus(e, k))] = NL} = {}
    BY <1>4
  <1>6. Erased = m
    BY <1>1, <1>5 DEF Erased
  <1>7. Minus(e, m) = w
    <2>1. m \in 0..UMAX
      BY <1>3, Sizes DEF Index
    <2>2. Minus(e, m) = IF e >= m THEN e - m ELSE e - m + UMAX
      BY <2>1, <1>2, MinusIs
    <2> QED
      BY <2>2, <1>2, <1>3, Sizes DEF Index
  <1> QED
    BY <1>1, <1>3, <1>6, <1>7

----------------------------------------------------------------------------
(* The steps. *)

\* What becomes of the indices and the ring when the handler is done with a key.
LEMMA ConsoleintrRing ==
    ASSUME ConsoleTyped, RingInv, Consoleintr
    PROVE  \/ UNCHANGED ring
           \/ e # w /\ e' = Minus(e, 1) /\ UNCHANGED <<buf, r, w>>
           \/ e' = w /\ UNCHANGED <<buf, r, w>>
           \/ \E ch \in Stored :
                 /\ Room
                 /\ e' = Plus(e, 1) /\ r' = r
                 /\ buf' = [buf EXCEPT ![Slot(e)] = ch]
                 /\ w' = IF ch \in {NL, EOT} \/ Minus(Plus(e, 1), r) = INPUT_BUF_SIZE
                         THEN Plus(e, 1) ELSE w
  <1>1. c \in Keys
    BY DEF ConsoleTyped, Consoleintr
  <1>2. CASE c = KillKey
    BY <1>2, ErasedIs DEF Consoleintr
  <1>3. CASE c = Backspace
    BY <1>3 DEF Consoleintr, ring, KillKey, Backspace
  <1>4. CASE c # KillKey /\ c # Backspace
    <2>1. CASE Room
      <3>1. PICK ch : ch = IF c = CR THEN NL ELSE c
        OBVIOUS
      <3>2. ch \in Stored
        BY <3>1, <1>1, <1>4 DEF Keys, Stored
      <3>3. Store(c)
        BY <1>4, <2>1 DEF Consoleintr
      <3> QED
        BY <2>1, <3>1, <3>2, <3>3 DEF Store, Consoleintr
    <2>2. CASE ~Room
      BY <1>4, <2>2 DEF Consoleintr, ring
    <2> QED
      BY <2>1, <2>2
  <1> QED
    BY <1>2, <1>3, <1>4

\* The types of the variables are preserved.
LEMMA TypeStep ==
    ASSUME ConsoleTyped, RingInv, [Next]_vars
    PROVE  ConsoleTyped'
  <1> USE ConsoleAssumption DEF ConsoleTyped, ConsolePC, ReadPC, WritePC, Procs, At, ring, uart,
     handler, proc
  <1>1. ASSUME Transmit PROVE ConsoleTyped'
    BY <1>1 DEF Transmit
  <1>2. ASSUME Press PROVE ConsoleTyped'
    BY <1>2 DEF Press
  <1>3. ASSUME PrintfWait PROVE ConsoleTyped'
    BY <1>3 DEF PrintfWait, TxIdle
  <1>4. ASSUME PrintfPut PROVE ConsoleTyped'
    BY <1>4 DEF PrintfPut, WriteTHR
  <1>5. ASSUME Claim PROVE ConsoleTyped'
    BY <1>5 DEF Claim
  <1>6. ASSUME UartintrTx PROVE ConsoleTyped'
    BY <1>6 DEF UartintrTx, Wakeup, TxIdle
  <1>7. ASSUME UartintrRx PROVE ConsoleTyped'
    BY <1>7 DEF UartintrRx
  <1>8. ASSUME EchoWait PROVE ConsoleTyped'
    BY <1>8 DEF EchoWait, TxIdle
  <1>9. ASSUME EchoPut PROVE ConsoleTyped'
    BY <1>9 DEF EchoPut, WriteTHR
  <1>10. ASSUME Consoleintr PROVE ConsoleTyped'
    <2>1. /\ r' \in Index /\ w' \in Index /\ e' \in Index
          /\ buf' \in [Cells -> Stored \union {None}]
      <3>1. Plus(e, 1) \in Index /\ Minus(e, 1) \in Index
        BY PlusIs, MinusIs, Sizes
      <3> QED
        BY <1>10, <3>1, ConsoleintrRing
    <2> QED
      BY <1>10, <2>1 DEF Consoleintr, Store, Wakeup
  <1>11. ASSUME NEW p \in Readers, NEW k \in Reads, Read(p, k) PROVE ConsoleTyped'
    BY <1>11 DEF Read, Goto
  <1>12. ASSUME NEW p \in Procs, ReadAcquire(p) PROVE ConsoleTyped'
    BY <1>12 DEF ReadAcquire, Goto
  <1>13. ASSUME NEW p \in Procs, ReadWait(p) PROVE ConsoleTyped'
    BY <1>13 DEF ReadWait, ReadReturn, Goto
  <1>14. ASSUME NEW p \in Procs, ReadSleep(p) PROVE ConsoleTyped'
    BY <1>14 DEF ReadSleep, Goto
  <1>15. ASSUME NEW p \in Procs, NEW copied \in BOOLEAN, ReadChar(p, copied)
        PROVE  ConsoleTyped'
    <2>1. Plus(r, 1) \in Index
      BY PlusIs, Sizes
    <2> QED
      BY <1>15, <2>1 DEF ReadChar, ReadReturn, Goto
  <1>16. ASSUME NEW p \in Writers, NEW k \in Writes, Write(p, k) PROVE ConsoleTyped'
    BY <1>16 DEF Write, Goto
  <1>17. ASSUME NEW p \in Procs, WriteBatch(p) PROVE ConsoleTyped'
    BY <1>17 DEF WriteBatch, Goto
  <1>18. ASSUME NEW p \in Procs, TxAcquire(p) PROVE ConsoleTyped'
    BY <1>18 DEF TxAcquire, Goto
  <1>19. ASSUME NEW p \in Procs, TxPut(p) PROVE ConsoleTyped'
    BY <1>19 DEF TxPut, WriteTHR
  <1>20. ASSUME NEW p \in Procs, TxRelease(p) PROVE ConsoleTyped'
    BY <1>20 DEF TxRelease, Goto
  <1>21. ASSUME NEW p \in Procs, Kill(p) PROVE ConsoleTyped'
    BY <1>21 DEF Kill
  <1>22. ASSUME NEW p \in Procs, Exit(p) PROVE ConsoleTyped'
    BY <1>22 DEF Exit
  <1>23. CASE UNCHANGED vars
    BY <1>23 DEF vars
  <1> QED
    BY <1>1, <1>2, <1>3, <1>4, <1>5, <1>6, <1>7, <1>8, <1>9, <1>10, <1>11,
       <1>12, <1>13, <1>14, <1>15, <1>16, <1>17, <1>18, <1>19, <1>20, <1>21,
       <1>22, <1>23 DEF Next

\* Mutual exclusion under cons.lock.
LEMMA LockStep ==
    ASSUME ConsoleTyped, ConsLock, [Next]_vars
    PROVE  ConsLock'
  <1> USE ConsoleAssumption DEF ConsLock, ConsoleTyped, ConsolePC, ReadPC, WritePC, Procs, At,
     ring, uart, handler, proc
  <1>1. ASSUME Transmit PROVE ConsLock'
    BY <1>1 DEF Transmit
  <1>2. ASSUME Press PROVE ConsLock'
    BY <1>2 DEF Press
  <1>3. ASSUME PrintfWait PROVE ConsLock'
    BY <1>3 DEF PrintfWait, TxIdle
  <1>4. ASSUME PrintfPut PROVE ConsLock'
    BY <1>4 DEF PrintfPut, WriteTHR
  <1>5. ASSUME Claim PROVE ConsLock'
    BY <1>5 DEF Claim
  <1>6. ASSUME UartintrTx PROVE ConsLock'
    BY <1>6 DEF UartintrTx, Wakeup, TxIdle
  <1>7. ASSUME UartintrRx PROVE ConsLock'
    BY <1>7 DEF UartintrRx
  <1>8. ASSUME EchoWait PROVE ConsLock'
    BY <1>8 DEF EchoWait, TxIdle
  <1>9. ASSUME EchoPut PROVE ConsLock'
    BY <1>9 DEF EchoPut, WriteTHR
  <1>10. ASSUME Consoleintr PROVE ConsLock'
    BY <1>10 DEF Consoleintr, Store, Wakeup
  <1>11. ASSUME NEW p \in Readers, NEW k \in Reads, Read(p, k) PROVE ConsLock'
    BY <1>11 DEF Read, Goto
  <1>12. ASSUME NEW p \in Procs, ReadAcquire(p) PROVE ConsLock'
    BY <1>12 DEF ReadAcquire, Goto
  <1>13. ASSUME NEW p \in Procs, ReadWait(p) PROVE ConsLock'
    BY <1>13 DEF ReadWait, ReadReturn, Goto
  <1>14. ASSUME NEW p \in Procs, ReadSleep(p) PROVE ConsLock'
    BY <1>14 DEF ReadSleep, Goto
  <1>15. ASSUME NEW p \in Procs, NEW copied \in BOOLEAN, ReadChar(p, copied)
        PROVE  ConsLock'
    BY <1>15 DEF ReadChar, ReadReturn, Goto
  <1>16. ASSUME NEW p \in Writers, NEW k \in Writes, Write(p, k)
        PROVE  ConsLock'
    BY <1>16 DEF Write, Goto
  <1>17. ASSUME NEW p \in Procs, WriteBatch(p) PROVE ConsLock'
    BY <1>17 DEF WriteBatch, Goto
  <1>18. ASSUME NEW p \in Procs, TxAcquire(p) PROVE ConsLock'
    BY <1>18 DEF TxAcquire, Goto
  <1>19. ASSUME NEW p \in Procs, TxPut(p) PROVE ConsLock'
    BY <1>19 DEF TxPut, WriteTHR
  <1>20. ASSUME NEW p \in Procs, TxRelease(p) PROVE ConsLock'
    BY <1>20 DEF TxRelease, Goto
  <1>21. ASSUME NEW p \in Procs, Kill(p) PROVE ConsLock'
    BY <1>21 DEF Kill
  <1>22. ASSUME NEW p \in Procs, Exit(p) PROVE ConsLock'
    BY <1>22 DEF Exit
  <1>23. CASE UNCHANGED vars
    BY <1>23 DEF vars
  <1> QED
    BY <1>1, <1>2, <1>3, <1>4, <1>5, <1>6, <1>7, <1>8, <1>9, <1>10, <1>11,
       <1>12, <1>13, <1>14, <1>15, <1>16, <1>17, <1>18, <1>19, <1>20, <1>21,
       <1>22, <1>23 DEF Next

\* Whoever hands a line over wakes the readers, and none is about to sleep.
LEMMA ReadersStep ==
    ASSUME ConsoleTyped, ConsLock, ReadersAsleep, [Next]_vars
    PROVE  ReadersAsleep'
  <1> USE ConsoleAssumption DEF ConsLock, ReadersAsleep, ConsoleTyped, ConsolePC, ReadPC,
     WritePC, Procs, At, ring, uart, handler, proc
  <1>1. ASSUME Transmit PROVE ReadersAsleep'
    BY <1>1 DEF Transmit
  <1>2. ASSUME Press PROVE ReadersAsleep'
    BY <1>2 DEF Press
  <1>3. ASSUME PrintfWait PROVE ReadersAsleep'
    BY <1>3 DEF PrintfWait, TxIdle
  <1>4. ASSUME PrintfPut PROVE ReadersAsleep'
    BY <1>4 DEF PrintfPut, WriteTHR
  <1>5. ASSUME Claim PROVE ReadersAsleep'
    BY <1>5 DEF Claim
  <1>6. ASSUME UartintrTx PROVE ReadersAsleep'
    BY <1>6 DEF UartintrTx, Wakeup, TxIdle
  <1>7. ASSUME UartintrRx PROVE ReadersAsleep'
    BY <1>7 DEF UartintrRx
  <1>8. ASSUME EchoWait PROVE ReadersAsleep'
    BY <1>8 DEF EchoWait, TxIdle
  <1>9. ASSUME EchoPut PROVE ReadersAsleep'
    BY <1>9 DEF EchoPut, WriteTHR
  <1>10. ASSUME Consoleintr PROVE ReadersAsleep'
    BY <1>10 DEF Consoleintr, Store, Wakeup
  <1>11. ASSUME NEW p \in Readers, NEW k \in Reads, Read(p, k)
        PROVE  ReadersAsleep'
    BY <1>11 DEF Read, Goto
  <1>12. ASSUME NEW p \in Procs, ReadAcquire(p) PROVE ReadersAsleep'
    BY <1>12 DEF ReadAcquire, Goto
  <1>13. ASSUME NEW p \in Procs, ReadWait(p) PROVE ReadersAsleep'
    BY <1>13 DEF ReadWait, ReadReturn, Goto
  <1>14. ASSUME NEW p \in Procs, ReadSleep(p) PROVE ReadersAsleep'
    BY <1>14 DEF ReadSleep, Goto
  <1>15. ASSUME NEW p \in Procs, NEW copied \in BOOLEAN, ReadChar(p, copied)
        PROVE  ReadersAsleep'
    BY <1>15 DEF ReadChar, ReadReturn, Goto
  <1>16. ASSUME NEW p \in Writers, NEW k \in Writes, Write(p, k)
        PROVE  ReadersAsleep'
    BY <1>16 DEF Write, Goto
  <1>17. ASSUME NEW p \in Procs, WriteBatch(p) PROVE ReadersAsleep'
    BY <1>17 DEF WriteBatch, Goto
  <1>18. ASSUME NEW p \in Procs, TxAcquire(p) PROVE ReadersAsleep'
    BY <1>18 DEF TxAcquire, Goto
  <1>19. ASSUME NEW p \in Procs, TxPut(p) PROVE ReadersAsleep'
    BY <1>19 DEF TxPut, WriteTHR
  <1>20. ASSUME NEW p \in Procs, TxRelease(p) PROVE ReadersAsleep'
    BY <1>20 DEF TxRelease, Goto
  <1>21. ASSUME NEW p \in Procs, Kill(p) PROVE ReadersAsleep'
    BY <1>21 DEF Kill
  <1>22. ASSUME NEW p \in Procs, Exit(p) PROVE ReadersAsleep'
    BY <1>22 DEF Exit
  <1>23. CASE UNCHANGED vars
    BY <1>23 DEF vars
  <1> QED
    BY <1>1, <1>2, <1>3, <1>4, <1>5, <1>6, <1>7, <1>8, <1>9, <1>10, <1>11,
       <1>12, <1>13, <1>14, <1>15, <1>16, <1>17, <1>18, <1>19, <1>20, <1>21,
       <1>22, <1>23 DEF Next

\* The interrupt that ends tx_busy is not lost between the UART and uartintr().
LEMMA WritersStep ==
    ASSUME ConsoleTyped, WritersAsleep, [Next]_vars
    PROVE  WritersAsleep'
  <1> USE ConsoleAssumption DEF WritersAsleep, ConsoleTyped, ConsolePC, ReadPC, WritePC, Procs,
     At, ring, uart, handler, proc
  <1>1. ASSUME Transmit PROVE WritersAsleep'
    BY <1>1 DEF Transmit
  <1>2. ASSUME Press PROVE WritersAsleep'
    BY <1>2 DEF Press
  <1>3. ASSUME PrintfWait PROVE WritersAsleep'
    BY <1>3 DEF PrintfWait, TxIdle
  <1>4. ASSUME PrintfPut PROVE WritersAsleep'
    BY <1>4 DEF PrintfPut, WriteTHR
  <1>5. ASSUME Claim PROVE WritersAsleep'
    BY <1>5 DEF Claim
  <1>6. ASSUME UartintrTx PROVE WritersAsleep'
    BY <1>6 DEF UartintrTx, Wakeup, TxIdle
  <1>7. ASSUME UartintrRx PROVE WritersAsleep'
    BY <1>7 DEF UartintrRx
  <1>8. ASSUME EchoWait PROVE WritersAsleep'
    BY <1>8 DEF EchoWait, TxIdle
  <1>9. ASSUME EchoPut PROVE WritersAsleep'
    BY <1>9 DEF EchoPut, WriteTHR
  <1>10. ASSUME Consoleintr PROVE WritersAsleep'
    BY <1>10 DEF Consoleintr, Store, Wakeup
  <1>11. ASSUME NEW p \in Readers, NEW k \in Reads, Read(p, k)
        PROVE  WritersAsleep'
    BY <1>11 DEF Read, Goto
  <1>12. ASSUME NEW p \in Procs, ReadAcquire(p) PROVE WritersAsleep'
    BY <1>12 DEF ReadAcquire, Goto
  <1>13. ASSUME NEW p \in Procs, ReadWait(p) PROVE WritersAsleep'
    BY <1>13 DEF ReadWait, ReadReturn, Goto
  <1>14. ASSUME NEW p \in Procs, ReadSleep(p) PROVE WritersAsleep'
    BY <1>14 DEF ReadSleep, Goto
  <1>15. ASSUME NEW p \in Procs, NEW copied \in BOOLEAN, ReadChar(p, copied)
        PROVE  WritersAsleep'
    BY <1>15 DEF ReadChar, ReadReturn, Goto
  <1>16. ASSUME NEW p \in Writers, NEW k \in Writes, Write(p, k)
        PROVE  WritersAsleep'
    BY <1>16 DEF Write, Goto
  <1>17. ASSUME NEW p \in Procs, WriteBatch(p) PROVE WritersAsleep'
    BY <1>17 DEF WriteBatch, Goto
  <1>18. ASSUME NEW p \in Procs, TxAcquire(p) PROVE WritersAsleep'
    BY <1>18 DEF TxAcquire, Goto
  <1>19. ASSUME NEW p \in Procs, TxPut(p) PROVE WritersAsleep'
    BY <1>19 DEF TxPut, WriteTHR
  <1>20. ASSUME NEW p \in Procs, TxRelease(p) PROVE WritersAsleep'
    BY <1>20 DEF TxRelease, Goto
  <1>21. ASSUME NEW p \in Procs, Kill(p) PROVE WritersAsleep'
    BY <1>21 DEF Kill
  <1>22. ASSUME NEW p \in Procs, Exit(p) PROVE WritersAsleep'
    BY <1>22 DEF Exit
  <1>23. CASE UNCHANGED vars
    BY <1>23 DEF vars
  <1> QED
    BY <1>1, <1>2, <1>3, <1>4, <1>5, <1>6, <1>7, <1>8, <1>9, <1>10, <1>11,
       <1>12, <1>13, <1>14, <1>15, <1>16, <1>17, <1>18, <1>19, <1>20, <1>21,
       <1>22, <1>23 DEF Next

\* Only a look at an empty FIFO gives a new credit.
LEMMA CreditStep ==
    ASSUME ConsoleTyped, CreditKept, [Next]_vars
    PROVE  CreditKept'
  <1> USE DEF CreditKept, Credit, ConsoleTyped, ConsolePC, ReadPC, WritePC, Procs, At, ring,
     uart, handler, proc
  <1>1. ASSUME Transmit PROVE CreditKept'
    BY <1>1 DEF Transmit
  <1>2. ASSUME Press PROVE CreditKept'
    BY <1>2 DEF Press
  <1>3. ASSUME PrintfWait PROVE CreditKept'
    BY <1>3 DEF PrintfWait, TxIdle
  <1>4. ASSUME PrintfPut PROVE CreditKept'
    BY <1>4 DEF PrintfPut, WriteTHR
  <1>5. ASSUME Claim PROVE CreditKept'
    BY <1>5 DEF Claim
  <1>6. ASSUME UartintrTx PROVE CreditKept'
    BY <1>6 DEF UartintrTx, Wakeup, TxIdle
  <1>7. ASSUME UartintrRx PROVE CreditKept'
    BY <1>7 DEF UartintrRx
  <1>8. ASSUME EchoWait PROVE CreditKept'
    BY <1>8 DEF EchoWait, TxIdle
  <1>9. ASSUME EchoPut PROVE CreditKept'
    BY <1>9 DEF EchoPut, WriteTHR
  <1>10. ASSUME Consoleintr PROVE CreditKept'
    BY <1>10 DEF Consoleintr, Store, Wakeup
  <1>11. ASSUME NEW p \in Readers, NEW k \in Reads, Read(p, k)
        PROVE  CreditKept'
    BY <1>11 DEF Read, Goto
  <1>12. ASSUME NEW p \in Procs, ReadAcquire(p) PROVE CreditKept'
    BY <1>12 DEF ReadAcquire, Goto
  <1>13. ASSUME NEW p \in Procs, ReadWait(p) PROVE CreditKept'
    BY <1>13 DEF ReadWait, ReadReturn, Goto
  <1>14. ASSUME NEW p \in Procs, ReadSleep(p) PROVE CreditKept'
    BY <1>14 DEF ReadSleep, Goto
  <1>15. ASSUME NEW p \in Procs, NEW copied \in BOOLEAN, ReadChar(p, copied)
        PROVE  CreditKept'
    BY <1>15 DEF ReadChar, ReadReturn, Goto
  <1>16. ASSUME NEW p \in Writers, NEW k \in Writes, Write(p, k)
        PROVE  CreditKept'
    BY <1>16 DEF Write, Goto
  <1>17. ASSUME NEW p \in Procs, WriteBatch(p) PROVE CreditKept'
    BY <1>17 DEF WriteBatch, Goto
  <1>18. ASSUME NEW p \in Procs, TxAcquire(p) PROVE CreditKept'
    BY <1>18 DEF TxAcquire, Goto
  <1>19. ASSUME NEW p \in Procs, TxPut(p) PROVE CreditKept'
    BY <1>19 DEF TxPut, WriteTHR
  <1>20. ASSUME NEW p \in Procs, TxRelease(p) PROVE CreditKept'
    BY <1>20 DEF TxRelease, Goto
  <1>21. ASSUME NEW p \in Procs, Kill(p) PROVE CreditKept'
    BY <1>21 DEF Kill
  <1>22. ASSUME NEW p \in Procs, Exit(p) PROVE CreditKept'
    BY <1>22 DEF Exit
  <1>23. CASE UNCHANGED vars
    BY <1>23 DEF vars
  <1> QED
    BY <1>1, <1>2, <1>3, <1>4, <1>5, <1>6, <1>7, <1>8, <1>9, <1>10, <1>11,
       <1>12, <1>13, <1>14, <1>15, <1>16, <1>17, <1>18, <1>19, <1>20, <1>21,
       <1>22, <1>23 DEF Next

\* Only the handler and a reader change the ring.
LEMMA OthersKeep ==
    ASSUME ~Consoleintr, ~\E p \in Procs, copied \in BOOLEAN : ReadChar(p, copied), [Next]_vars
    PROVE  UNCHANGED ring
  <1> USE DEF ring
  <1>1. ASSUME Transmit PROVE UNCHANGED ring
    BY <1>1 DEF Transmit
  <1>2. ASSUME Press PROVE UNCHANGED ring
    BY <1>2 DEF Press
  <1>3. ASSUME PrintfWait PROVE UNCHANGED ring
    BY <1>3 DEF PrintfWait, TxIdle
  <1>4. ASSUME PrintfPut PROVE UNCHANGED ring
    BY <1>4 DEF PrintfPut, WriteTHR
  <1>5. ASSUME Claim PROVE UNCHANGED ring
    BY <1>5 DEF Claim
  <1>6. ASSUME UartintrTx PROVE UNCHANGED ring
    BY <1>6 DEF UartintrTx, Wakeup, TxIdle
  <1>7. ASSUME UartintrRx PROVE UNCHANGED ring
    BY <1>7 DEF UartintrRx
  <1>8. ASSUME EchoWait PROVE UNCHANGED ring
    BY <1>8 DEF EchoWait, TxIdle
  <1>9. ASSUME EchoPut PROVE UNCHANGED ring
    BY <1>9 DEF EchoPut, WriteTHR
  <1>10. ASSUME Consoleintr PROVE UNCHANGED ring
    BY <1>10 DEF Consoleintr, Store, Wakeup
  <1>11. ASSUME NEW p \in Readers, NEW k \in Reads, Read(p, k)
        PROVE  UNCHANGED ring
    BY <1>11 DEF Read, Goto
  <1>12. ASSUME NEW p \in Procs, ReadAcquire(p) PROVE UNCHANGED ring
    BY <1>12 DEF ReadAcquire, Goto
  <1>13. ASSUME NEW p \in Procs, ReadWait(p) PROVE UNCHANGED ring
    BY <1>13 DEF ReadWait, ReadReturn, Goto
  <1>14. ASSUME NEW p \in Procs, ReadSleep(p) PROVE UNCHANGED ring
    BY <1>14 DEF ReadSleep, Goto
  <1>15. ASSUME NEW p \in Procs, NEW copied \in BOOLEAN, ReadChar(p, copied)
        PROVE  UNCHANGED ring
    BY <1>15 DEF ReadChar, ReadReturn, Goto
  <1>16. ASSUME NEW p \in Writers, NEW k \in Writes, Write(p, k)
        PROVE  UNCHANGED ring
    BY <1>16 DEF Write, Goto
  <1>17. ASSUME NEW p \in Procs, WriteBatch(p) PROVE UNCHANGED ring
    BY <1>17 DEF WriteBatch, Goto
  <1>18. ASSUME NEW p \in Procs, TxAcquire(p) PROVE UNCHANGED ring
    BY <1>18 DEF TxAcquire, Goto
  <1>19. ASSUME NEW p \in Procs, TxPut(p) PROVE UNCHANGED ring
    BY <1>19 DEF TxPut, WriteTHR
  <1>20. ASSUME NEW p \in Procs, TxRelease(p) PROVE UNCHANGED ring
    BY <1>20 DEF TxRelease, Goto
  <1>21. ASSUME NEW p \in Procs, Kill(p) PROVE UNCHANGED ring
    BY <1>21 DEF Kill
  <1>22. ASSUME NEW p \in Procs, Exit(p) PROVE UNCHANGED ring
    BY <1>22 DEF Exit
  <1>23. CASE UNCHANGED vars
    BY <1>23 DEF vars
  <1> QED
    BY <1>1, <1>2, <1>3, <1>4, <1>5, <1>6, <1>7, <1>8, <1>9, <1>10, <1>11,
       <1>12, <1>13, <1>14, <1>15, <1>16, <1>17, <1>18, <1>19, <1>20, <1>21,
       <1>22, <1>23 DEF Next

\* Every step that changes the ring is a step of the queue.
LEMMA QueueStep ==
    ASSUME ConsoleTyped, ConsoleTyped', RingInv, [Next]_vars
    PROVE  RingInv' /\ (UNCHANGED ring \/ Lines!Next)
  <1>1. /\ r \in Index /\ w \in Index /\ e \in Index /\ buf \in Rings
        /\ RingOf(buf, r, w, e)
    BY RingIs DEF ConsoleTyped, Rings, Chars
  <1>2. ASSUME UNCHANGED ring PROVE RingInv' /\ (UNCHANGED ring \/ Lines!Next)
    BY <1>1, <1>2, RingIs DEF ring
  <1>3. ASSUME e # w, e' = Minus(e, 1), UNCHANGED <<buf, r, w>>
        PROVE  RingInv' /\ Lines!Next
    <2>1. RingInv'
      BY <1>1, <1>3, EraseRing, RingIs
    <2>2. Len(Segment(w, e)) = Minus(e, w) /\ Segment(w, e) # <<>>
      <3>1. Segment(w, e) \in Seq(Chars) /\ Len(Segment(w, e)) = Minus(e, w)
        BY <1>1, RingIs, SegSeq
      <3>2. Minus(e, w) # 0
        BY <1>1, <1>3, Distance
      <3> QED
        BY <3>1, <3>2
    <2>3. Segment(w, e)' = SubSeq(Segment(w, e), 1, Minus(e, w) - 1)
      BY <1>1, <1>3, SegFront, RingIs
    <2>4. Segment(r, w)' = Segment(r, w)
      BY <1>3, RingIs
    <2> QED
      BY <2>1, <2>2, <2>3, <2>4 DEF Lines!Next, Lines!Erase
  <1>4. ASSUME e' = w, UNCHANGED <<buf, r, w>>
        PROVE  RingInv' /\ Lines!Next
    <2>1. RingInv'
      BY <1>1, <1>4, KillRing, RingIs
    <2>2. Segment(w, e)' = <<>> /\ Segment(r, w)' = Segment(r, w)
      BY <1>1, <1>4, SegEmpty, RingIs
    <2> QED
      BY <2>1, <2>2 DEF Lines!Next, Lines!KillLine
  <1>5. ASSUME NEW ch \in Stored, Room, e' = Plus(e, 1), r' = r,
               buf' = [buf EXCEPT ![Slot(e)] = ch],
               w' = IF ch \in {NL, EOT} \/ Minus(Plus(e, 1), r) = INPUT_BUF_SIZE
                    THEN Plus(e, 1) ELSE w
        PROVE  RingInv' /\ Lines!Next
    <2>1. Minus(e, r) < INPUT_BUF_SIZE /\ ch \in Chars
      BY <1>5 DEF Room, Chars
    <2>2. /\ Minus(e', r) = Minus(e, r) + 1
          /\ Seg(buf', r, w) = Seg(buf, r, w)
          /\ Seg(buf', w, e') = Append(Seg(buf, w, e), ch)
          /\ Seg(buf', r, e') = Seg(buf, r, w) \o Append(Seg(buf, w, e), ch)
          /\ RingOf(buf', r, e', e')
          /\ ch \notin {NL, EOT} => RingOf(buf', r, w, e')
          /\ buf' \in Rings /\ e' \in Index
      <3>1. PICK x \in Index, y \in Index, z \in Index, b \in Rings :
               x = r /\ y = w /\ z = e /\ b = buf
        BY <1>1
      <3>2. PICK f, z1 : f = buf' /\ z1 = e'
        OBVIOUS
      <3>3. /\ f \in Rings /\ f[Slot(z)] = ch
            /\ \A a \in Cells : a # Slot(z) => f[a] = b[a]
        <4>1. Slot(z) \in Cells
          BY <3>1, Distance, SlotIn
        <4> QED
          BY <4>1, <1>5, <2>1, <3>1, <3>2 DEF Rings
      <3>4. /\ z1 = Plus(z, 1)
            /\ RingOf(b, x, y, z) /\ Minus(z, x) < INPUT_BUF_SIZE
        BY <1>1, <1>5, <2>1, <3>1, <3>2
      <3>5. /\ Plus(z, 1) \in Index
            /\ Minus(Plus(z, 1), x) = Minus(z, x) + 1
            /\ Seg(f, x, y) = Seg(b, x, y)
            /\ Seg(f, y, Plus(z, 1)) = Append(Seg(b, y, z), f[Slot(z)])
            /\ Seg(f, x, Plus(z, 1)) =
                 Seg(b, x, y) \o Append(Seg(b, y, z), f[Slot(z)])
            /\ RingOf(f, x, Plus(z, 1), Plus(z, 1))
            /\ f[Slot(z)] \notin {NL, EOT} => RingOf(f, x, y, Plus(z, 1))
        BY <3>3, <3>4, StoreRing
      <3> QED
        BY <3>1, <3>2, <3>3, <3>4, <3>5
    <2>3. PICK over \in BOOLEAN :
             over = (ch \in {NL, EOT} \/ Minus(e', r) = INPUT_BUF_SIZE)
      OBVIOUS
    <2>4. w' = IF over THEN e' ELSE w
      BY <1>5, <2>3
    <2>5. /\ Minus(e, r) = Len(Segment(r, w)) + Len(Segment(w, e))
          /\ Minus(e, r) \in Nat
      <3>1. /\ Len(Segment(r, w)) = Minus(w, r) /\ Len(Segment(w, e)) = Minus(e, w)
            /\ Minus(e, r) \in Nat
        BY <1>1, RingIs, SegSeq, Distance
      <3>2. Minus(w, r) + Minus(e, w) = Minus(e, r)
        BY <1>1 DEF RingOf
      <3> QED
        BY <3>1, <3>2
    <2>6. over = (ch \in {NL, EOT} \/ Lines!Stored + 1 = INPUT_BUF_SIZE)
      BY <2>2, <2>3, <2>5 DEF Lines!Stored
    <2>7. CASE over
      <3>1. RingInv' /\ Segment(r, w)' = Segment(r, w) \o Append(Segment(w, e), ch)
        BY <1>5, <2>2, <2>4, <2>7, RingIs
      <3>2. Segment(w, e)' = <<>>
        BY <2>2, <2>4, <2>7, RingIs, SegEmpty
      <3>3. Lines!Type(ch)
        BY <2>1, <2>5, <2>6, <2>7, <3>1, <3>2 DEF Lines!Type, Lines!Stored
      <3> QED
        BY <3>1, <3>3 DEF Lines!Next
    <2>8. CASE ~over
      <3>1. /\ RingInv' /\ Segment(r, w)' = Segment(r, w)
            /\ Segment(w, e)' = Append(Segment(w, e), ch)
        BY <1>5, <2>2, <2>3, <2>4, <2>8, RingIs
      <3>2. Lines!Type(ch)
        BY <2>1, <2>5, <2>6, <2>8, <3>1 DEF Lines!Type, Lines!Stored
      <3> QED
        BY <3>1, <3>2 DEF Lines!Next
    <2> QED
      BY <2>7, <2>8
  <1>6. ASSUME r # w, r' = Plus(r, 1), UNCHANGED <<buf, w, e>>
        PROVE  RingInv' /\ Lines!Next
    <2>1. RingInv'
      BY <1>1, <1>6, TakeRing, RingIs
    <2>2. /\ Segment(r, w) # <<>>
          /\ Segment(r, w)' = Tail(Segment(r, w))
          /\ Segment(w, e)' = Segment(w, e)
      BY <1>1, <1>6, SegTail, RingIs
    <2> QED
      BY <2>1, <2>2 DEF Lines!Next, Lines!Deliver
  <1>7. CASE Consoleintr
    BY <1>2, <1>3, <1>4, <1>5, <1>7, ConsoleintrRing
  <1>8. ASSUME NEW p \in Procs, NEW copied \in BOOLEAN, ReadChar(p, copied)
        PROVE  RingInv' /\ (UNCHANGED ring \/ Lines!Next)
    <2>1. /\ UNCHANGED <<buf, w, e>> /\ r # w
          /\ r' = r \/ r' = Plus(r, 1)
      BY <1>8 DEF ReadChar
    <2> QED
      BY <2>1, <1>2, <1>6 DEF ring
  <1> QED
    BY <1>2, <1>7, <1>8, OthersKeep

----------------------------------------------------------------------------
(* Theorems *)

LEMMA InitConsoleInv == Init => ConsoleInv
  <1> SUFFICES ASSUME Init PROVE ConsoleInv
    OBVIOUS
  <1> USE ConsoleAssumption
  <1>1. ConsoleTyped
    BY DEF Init, ConsoleTyped, ConsolePC, Index, Cells, Procs
  <1>2. ConsLock /\ ReadersAsleep /\ WritersAsleep
    BY DEF Init, ConsLock, ReadersAsleep, WritersAsleep
  <1>3. CreditKept
    BY DEF Init, CreditKept, Credit
  <1>4. RingInv
    <2>1. 0 \in Index /\ Minus(0, 0) = 0
      BY Distance, Sizes DEF Index
    <2> QED
      BY <2>1, Sizes DEF Init, RingInv
  <1> QED
    BY <1>1, <1>2, <1>3, <1>4 DEF ConsoleInv

\* The inductive invariant of the console: who holds cons.lock, why each sleeper
\* may sleep, how much may still be sent unseen, and how the indices are ordered.
THEOREM ConsoleInvariant == Spec => []ConsoleInv
  <1>1. ConsoleInv /\ [Next]_vars => ConsoleInv'
    <2> SUFFICES ASSUME ConsoleInv, [Next]_vars PROVE ConsoleInv'
      OBVIOUS
    <2>1. /\ ConsoleTyped /\ ConsLock /\ ReadersAsleep /\ WritersAsleep
          /\ CreditKept /\ RingInv
      BY DEF ConsoleInv
    <2>2. ConsoleTyped' /\ ConsLock'
      BY <2>1, TypeStep, LockStep
    <2>3. ReadersAsleep' /\ WritersAsleep' /\ CreditKept'
      BY <2>1, ReadersStep, WritersStep, CreditStep
    <2>4. RingInv'
      BY <2>1, <2>2, QueueStep
    <2> QED
      BY <2>2, <2>3, <2>4 DEF ConsoleInv
  <1> QED
    BY <1>1, InitConsoleInv, PTL DEF Spec

\* sleep() and wakeup() in kernel/console.c and kernel/uart.c lose no wakeup, for
\* any number of readers and writers.
THEOREM NobodyOversleeps == Spec => []NoLostWakeup
  <1>1. ConsoleInv => NoLostWakeup
    BY DEF ConsoleInv, ReadersAsleep, WritersAsleep, NoLostWakeup, At
  <1> QED
    BY <1>1, ConsoleInvariant, PTL

\* uartwrite(), which does not look at the LSR, and two users of uartputc_sync(),
\* which take no lock, together never have more than three characters in the FIFO.
THEOREM FifoSuffices == Spec => []FifoNotOverrun
  <1>1. ConsoleInv => FifoNotOverrun
    <2> SUFFICES ASSUME ConsoleInv PROVE FifoNotOverrun
      OBVIOUS
    <2>1. fifo + Credit <= 3 /\ Credit \in Nat /\ fifo \in Nat
      BY DEF ConsoleInv, ConsoleTyped, CreditKept, Credit
    <2>2. TX_FIFO \in Nat /\ TX_FIFO >= 3
      BY ConsoleAssumption
    <2> QED
      BY <2>1, <2>2 DEF FifoNotOverrun
  <1> QED
    BY <1>1, ConsoleInvariant, PTL

\* The ring with its three wrapping indices implements LineQueue, for any size of
\* the ring and any UMAX a multiple of it.
THEOREM ConsoleIsLineQueue == Spec => LineDiscipline
  <1>1. Init => Lines!Init
    <2> SUFFICES ASSUME Init PROVE Lines!Init
      OBVIOUS
    <2>1. buf \in Rings /\ r \in Index /\ r = w /\ w = e
      BY InitConsoleInv DEF ConsoleInv, ConsoleTyped, Rings, Chars, Init
    <2>2. Segment(r, w) = <<>> /\ Segment(w, e) = <<>>
      BY <2>1, SegEmpty, RingIs
    <2> QED
      BY <2>2 DEF Lines!Init
  <1>2. ConsoleInv /\ ConsoleInv' /\ [Next]_vars => [UNCHANGED ring \/ Lines!Next]_vars
    BY QueueStep DEF ConsoleInv
  <1> QED
    BY <1>1, <1>2, ConsoleInvariant, PTL DEF Spec, LineDiscipline

----------------------------------------------------------------------------
(* The pipe *)

Locked == WriteLocked \union ReadLocked
InWrite == WriteLocked \union {"write", "write_asleep"}
InRead == ReadLocked \union {"read", "read_asleep"}

\* pi->lock is held by whoever is at a program point under it.
LockHeld == \A p \in PipeProcs : pipe_pc[p] \in Locked <=> lock = p

\* Only a process that holds the read end is in piperead(); the last one to
\* drop it, alone, closes that end.
ReadEnd ==
    /\ \A p \in PipeProcs : pipe_pc[p] \in InRead => p \in readers
    /\ \A p \in PipeProcs : pipe_pc[p] = "close_read" => readers = {}
    /\ \A p, q \in PipeProcs : pipe_pc[p] = "close_read" /\ pipe_pc[q] = "close_read" => p = q
    /\ readopen = 0 <=> readers = {} /\ \A p \in PipeProcs : pipe_pc[p] # "close_read"

\* The same for the write end.
WriteEnd ==
    /\ \A p \in PipeProcs : pipe_pc[p] \in InWrite => p \in writers
    /\ \A p \in PipeProcs : pipe_pc[p] = "close_write" => writers = {}
    /\ \A p, q \in PipeProcs : pipe_pc[p] = "close_write" /\ pipe_pc[q] = "close_write" => p = q
    /\ writeopen = 0 <=> writers = {} /\ \A p \in PipeProcs : pipe_pc[p] # "close_write"

PageFreed == freed = 1 <=> readopen = 0 /\ writeopen = 0

\* A writer that sleeps, or is about to, has a full buffer before it, unless a
\* reader under the lock has made room and has yet to wake it.
PipeWritersAsleep ==
    \A p \in PipeProcs :
        /\ pipe_pc[p] = "write_sleep" => Full /\ readopen = 1
        /\ pipe_pc[p] = "write_asleep" =>
             /\ readopen = 1
             /\ Full \/ \E q \in PipeProcs : pipe_pc[q] = "read_copy"

\* A reader that sleeps, or is about to, has an empty buffer before it, unless a
\* writer under the lock has stored bytes and has yet to wake it, or was killed.
PipeReadersAsleep ==
    \A p \in PipeProcs :
        /\ pipe_pc[p] = "read_sleep" => Empty /\ writeopen = 1
        /\ pipe_pc[p] = "read_asleep" /\ (\A q \in PipeProcs : pipe_killed[q] = 0) =>
             /\ writeopen = 1
             /\ Empty \/ \E q \in PipeProcs : pipe_pc[q] = "write_loop"

\* The counters are never more than a buffer apart.
Used == (nwrite - nread) % PIPE_UMAX

PipeInv ==
    /\ TypeOK
    /\ LockHeld
    /\ ReadEnd
    /\ WriteEnd
    /\ PageFreed
    /\ PipeWritersAsleep
    /\ PipeReadersAsleep
    /\ Used <= PIPESIZE

----------------------------------------------------------------------------
\* The types of the variables are preserved.
LEMMA PipeTypeStep ==
    ASSUME TypeOK, [PipeNext]_pipe_vars
    PROVE  TypeOK'
  <1> USE PipeAssumption DEF TypeOK, PC, InPipe, WriteLocked, ReadLocked, PipeAt,
     ends, counters, refs
  <1>1. ASSUME NEW p \in PipeProcs, WriteCall(p) PROVE TypeOK'
    BY <1>1 DEF WriteCall, Call, PipeGoto
  <1>2. ASSUME NEW p \in PipeProcs, WriteAcquire(p) PROVE TypeOK'
    BY <1>2 DEF WriteAcquire, Acquire, PipeGoto
  <1>3. ASSUME NEW p \in PipeProcs, WriteFails(p) PROVE TypeOK'
    BY <1>3 DEF WriteFails, Done, PipeGoto
  <1>4. ASSUME NEW p \in PipeProcs, WriteFull(p) PROVE TypeOK'
    BY <1>4 DEF WriteFull, WakeReadersAnd, WakeupAnd
  <1>5. ASSUME NEW p \in PipeProcs, WriteSleep(p) PROVE TypeOK'
    BY <1>5 DEF WriteSleep, Sleep, PipeGoto
  <1>6. ASSUME NEW p \in PipeProcs, WriteBadAddress(p) PROVE TypeOK'
    BY <1>6 DEF WriteBadAddress, Done, WakeReadersAnd, WakeupAnd
  <1>7. ASSUME NEW p \in PipeProcs, WriteDone(p) PROVE TypeOK'
    BY <1>7 DEF WriteDone, Done, WakeReadersAnd, WakeupAnd
  <1>8. ASSUME NEW p \in PipeProcs, NEW b \in Bytes, WriteByte(p, b) PROVE TypeOK'
    BY <1>8 DEF WriteByte
  <1>9. ASSUME NEW p \in PipeProcs, ReadCall(p) PROVE TypeOK'
    BY <1>9 DEF ReadCall, Call, PipeGoto
  <1>10. ASSUME NEW p \in PipeProcs, PipeReadAcquire(p) PROVE TypeOK'
    BY <1>10 DEF PipeReadAcquire, Acquire, PipeGoto
  <1>11. ASSUME NEW p \in PipeProcs, ReadKilled(p) PROVE TypeOK'
    BY <1>11 DEF ReadKilled, Done, PipeGoto
  <1>12. ASSUME NEW p \in PipeProcs, ReadEmpty(p) PROVE TypeOK'
    BY <1>12 DEF ReadEmpty, PipeGoto
  <1>13. ASSUME NEW p \in PipeProcs, PipeReadSleep(p) PROVE TypeOK'
    BY <1>13 DEF PipeReadSleep, Sleep, PipeGoto
  <1>14. ASSUME NEW p \in PipeProcs, ReadGo(p) PROVE TypeOK'
    BY <1>14 DEF ReadGo, PipeGoto
  <1>15. ASSUME NEW p \in PipeProcs, ReadByte(p) PROVE TypeOK'
    BY <1>15 DEF ReadByte
  <1>16. ASSUME NEW p \in PipeProcs, ReadBadAddress(p) PROVE TypeOK'
    BY <1>16 DEF ReadBadAddress, Done, WakeWritersAnd, WakeupAnd
  <1>17. ASSUME NEW p \in PipeProcs, ReadDone(p) PROVE TypeOK'
    BY <1>17 DEF ReadDone, Done, WakeWritersAnd, WakeupAnd
  <1>18. ASSUME NEW p \in PipeProcs, CloseRead(p) PROVE TypeOK'
    BY <1>18 DEF CloseRead, PipeGoto
  <1>19. ASSUME NEW p \in PipeProcs, CloseWrite(p) PROVE TypeOK'
    BY <1>19 DEF CloseWrite, PipeGoto
  <1>20. ASSUME NEW p \in PipeProcs, PipeCloseRead(p) PROVE TypeOK'
    BY <1>20 DEF PipeCloseRead, WakeWritersAnd, WakeupAnd, Freed
  <1>21. ASSUME NEW p \in PipeProcs, PipeCloseWrite(p) PROVE TypeOK'
    BY <1>21 DEF PipeCloseWrite, WakeReadersAnd, WakeupAnd, Freed
  <1>22. ASSUME NEW p \in PipeProcs, PipeKill(p) PROVE TypeOK'
    BY <1>22 DEF PipeKill
  <1>23. CASE UNCHANGED pipe_vars
    BY <1>23 DEF pipe_vars
  <1> QED
    BY <1>1, <1>2, <1>3, <1>4, <1>5, <1>6, <1>7, <1>8, <1>9, <1>10, <1>11,
       <1>12, <1>13, <1>14, <1>15, <1>16, <1>17, <1>18, <1>19, <1>20, <1>21,
       <1>22, <1>23 DEF PipeNext, WriteStep, ReadStep, CloseStep

\* Mutual exclusion under pi->lock.
LEMMA PipeLockStep ==
    ASSUME TypeOK, LockHeld, [PipeNext]_pipe_vars
    PROVE  LockHeld'
  <1> USE PipeAssumption DEF TypeOK, LockHeld, Locked, PC, InPipe, WriteLocked,
     ReadLocked, PipeAt, ends, counters, refs
  <1>1. ASSUME NEW p \in PipeProcs, WriteCall(p) PROVE LockHeld'
    BY <1>1 DEF WriteCall, Call, PipeGoto
  <1>2. ASSUME NEW p \in PipeProcs, WriteAcquire(p) PROVE LockHeld'
    BY <1>2 DEF WriteAcquire, Acquire, PipeGoto
  <1>3. ASSUME NEW p \in PipeProcs, WriteFails(p) PROVE LockHeld'
    BY <1>3 DEF WriteFails, Done, PipeGoto
  <1>4. ASSUME NEW p \in PipeProcs, WriteFull(p) PROVE LockHeld'
    BY <1>4 DEF WriteFull, WakeReadersAnd, WakeupAnd
  <1>5. ASSUME NEW p \in PipeProcs, WriteSleep(p) PROVE LockHeld'
    BY <1>5 DEF WriteSleep, Sleep, PipeGoto
  <1>6. ASSUME NEW p \in PipeProcs, WriteBadAddress(p) PROVE LockHeld'
    BY <1>6 DEF WriteBadAddress, Done, WakeReadersAnd, WakeupAnd
  <1>7. ASSUME NEW p \in PipeProcs, WriteDone(p) PROVE LockHeld'
    BY <1>7 DEF WriteDone, Done, WakeReadersAnd, WakeupAnd
  <1>8. ASSUME NEW p \in PipeProcs, NEW b \in Bytes, WriteByte(p, b) PROVE LockHeld'
    BY <1>8 DEF WriteByte
  <1>9. ASSUME NEW p \in PipeProcs, ReadCall(p) PROVE LockHeld'
    BY <1>9 DEF ReadCall, Call, PipeGoto
  <1>10. ASSUME NEW p \in PipeProcs, PipeReadAcquire(p) PROVE LockHeld'
    BY <1>10 DEF PipeReadAcquire, Acquire, PipeGoto
  <1>11. ASSUME NEW p \in PipeProcs, ReadKilled(p) PROVE LockHeld'
    BY <1>11 DEF ReadKilled, Done, PipeGoto
  <1>12. ASSUME NEW p \in PipeProcs, ReadEmpty(p) PROVE LockHeld'
    BY <1>12 DEF ReadEmpty, PipeGoto
  <1>13. ASSUME NEW p \in PipeProcs, PipeReadSleep(p) PROVE LockHeld'
    BY <1>13 DEF PipeReadSleep, Sleep, PipeGoto
  <1>14. ASSUME NEW p \in PipeProcs, ReadGo(p) PROVE LockHeld'
    BY <1>14 DEF ReadGo, PipeGoto
  <1>15. ASSUME NEW p \in PipeProcs, ReadByte(p) PROVE LockHeld'
    BY <1>15 DEF ReadByte
  <1>16. ASSUME NEW p \in PipeProcs, ReadBadAddress(p) PROVE LockHeld'
    BY <1>16 DEF ReadBadAddress, Done, WakeWritersAnd, WakeupAnd
  <1>17. ASSUME NEW p \in PipeProcs, ReadDone(p) PROVE LockHeld'
    BY <1>17 DEF ReadDone, Done, WakeWritersAnd, WakeupAnd
  <1>18. ASSUME NEW p \in PipeProcs, CloseRead(p) PROVE LockHeld'
    BY <1>18 DEF CloseRead, PipeGoto
  <1>19. ASSUME NEW p \in PipeProcs, CloseWrite(p) PROVE LockHeld'
    BY <1>19 DEF CloseWrite, PipeGoto
  <1>20. ASSUME NEW p \in PipeProcs, PipeCloseRead(p) PROVE LockHeld'
    BY <1>20 DEF PipeCloseRead, WakeWritersAnd, WakeupAnd, Freed
  <1>21. ASSUME NEW p \in PipeProcs, PipeCloseWrite(p) PROVE LockHeld'
    BY <1>21 DEF PipeCloseWrite, WakeReadersAnd, WakeupAnd, Freed
  <1>22. ASSUME NEW p \in PipeProcs, PipeKill(p) PROVE LockHeld'
    BY <1>22 DEF PipeKill
  <1>23. CASE UNCHANGED pipe_vars
    BY <1>23 DEF pipe_vars
  <1> QED
    BY <1>1, <1>2, <1>3, <1>4, <1>5, <1>6, <1>7, <1>8, <1>9, <1>10, <1>11,
       <1>12, <1>13, <1>14, <1>15, <1>16, <1>17, <1>18, <1>19, <1>20, <1>21,
       <1>22, <1>23 DEF PipeNext, WriteStep, ReadStep, CloseStep

\* The read end is closed once, by the last of its holders.
LEMMA ReadEndStep ==
    ASSUME TypeOK, ReadEnd, [PipeNext]_pipe_vars
    PROVE  ReadEnd'
  <1> USE PipeAssumption DEF TypeOK, ReadEnd, InRead, PC, InPipe, WriteLocked,
     ReadLocked, PipeAt, ends, counters, refs
  <1>1. ASSUME NEW p \in PipeProcs, WriteCall(p) PROVE ReadEnd'
    BY <1>1 DEF WriteCall, Call, PipeGoto
  <1>2. ASSUME NEW p \in PipeProcs, WriteAcquire(p) PROVE ReadEnd'
    BY <1>2 DEF WriteAcquire, Acquire, PipeGoto
  <1>3. ASSUME NEW p \in PipeProcs, WriteFails(p) PROVE ReadEnd'
    BY <1>3 DEF WriteFails, Done, PipeGoto
  <1>4. ASSUME NEW p \in PipeProcs, WriteFull(p) PROVE ReadEnd'
    BY <1>4 DEF WriteFull, WakeReadersAnd, WakeupAnd
  <1>5. ASSUME NEW p \in PipeProcs, WriteSleep(p) PROVE ReadEnd'
    BY <1>5 DEF WriteSleep, Sleep, PipeGoto
  <1>6. ASSUME NEW p \in PipeProcs, WriteBadAddress(p) PROVE ReadEnd'
    BY <1>6 DEF WriteBadAddress, Done, WakeReadersAnd, WakeupAnd
  <1>7. ASSUME NEW p \in PipeProcs, WriteDone(p) PROVE ReadEnd'
    BY <1>7 DEF WriteDone, Done, WakeReadersAnd, WakeupAnd
  <1>8. ASSUME NEW p \in PipeProcs, NEW b \in Bytes, WriteByte(p, b) PROVE ReadEnd'
    BY <1>8 DEF WriteByte
  <1>9. ASSUME NEW p \in PipeProcs, ReadCall(p) PROVE ReadEnd'
    BY <1>9 DEF ReadCall, Call, PipeGoto
  <1>10. ASSUME NEW p \in PipeProcs, PipeReadAcquire(p) PROVE ReadEnd'
    BY <1>10 DEF PipeReadAcquire, Acquire, PipeGoto
  <1>11. ASSUME NEW p \in PipeProcs, ReadKilled(p) PROVE ReadEnd'
    BY <1>11 DEF ReadKilled, Done, PipeGoto
  <1>12. ASSUME NEW p \in PipeProcs, ReadEmpty(p) PROVE ReadEnd'
    BY <1>12 DEF ReadEmpty, PipeGoto
  <1>13. ASSUME NEW p \in PipeProcs, PipeReadSleep(p) PROVE ReadEnd'
    BY <1>13 DEF PipeReadSleep, Sleep, PipeGoto
  <1>14. ASSUME NEW p \in PipeProcs, ReadGo(p) PROVE ReadEnd'
    BY <1>14 DEF ReadGo, PipeGoto
  <1>15. ASSUME NEW p \in PipeProcs, ReadByte(p) PROVE ReadEnd'
    BY <1>15 DEF ReadByte
  <1>16. ASSUME NEW p \in PipeProcs, ReadBadAddress(p) PROVE ReadEnd'
    BY <1>16 DEF ReadBadAddress, Done, WakeWritersAnd, WakeupAnd
  <1>17. ASSUME NEW p \in PipeProcs, ReadDone(p) PROVE ReadEnd'
    BY <1>17 DEF ReadDone, Done, WakeWritersAnd, WakeupAnd
  <1>18. ASSUME NEW p \in PipeProcs, CloseRead(p) PROVE ReadEnd'
    BY <1>18 DEF CloseRead, PipeGoto
  <1>19. ASSUME NEW p \in PipeProcs, CloseWrite(p) PROVE ReadEnd'
    BY <1>19 DEF CloseWrite, PipeGoto
  <1>20. ASSUME NEW p \in PipeProcs, PipeCloseRead(p) PROVE ReadEnd'
    BY <1>20 DEF PipeCloseRead, WakeWritersAnd, WakeupAnd, Freed
  <1>21. ASSUME NEW p \in PipeProcs, PipeCloseWrite(p) PROVE ReadEnd'
    BY <1>21 DEF PipeCloseWrite, WakeReadersAnd, WakeupAnd, Freed
  <1>22. ASSUME NEW p \in PipeProcs, PipeKill(p) PROVE ReadEnd'
    BY <1>22 DEF PipeKill
  <1>23. CASE UNCHANGED pipe_vars
    BY <1>23 DEF pipe_vars
  <1> QED
    BY <1>1, <1>2, <1>3, <1>4, <1>5, <1>6, <1>7, <1>8, <1>9, <1>10, <1>11,
       <1>12, <1>13, <1>14, <1>15, <1>16, <1>17, <1>18, <1>19, <1>20, <1>21,
       <1>22, <1>23 DEF PipeNext, WriteStep, ReadStep, CloseStep

\* The write end is closed once, by the last of its holders.
LEMMA WriteEndStep ==
    ASSUME TypeOK, WriteEnd, [PipeNext]_pipe_vars
    PROVE  WriteEnd'
  <1> USE PipeAssumption DEF TypeOK, WriteEnd, InWrite, PC, InPipe,
     WriteLocked, ReadLocked, PipeAt, ends, counters, refs
  <1>1. ASSUME NEW p \in PipeProcs, WriteCall(p) PROVE WriteEnd'
    BY <1>1 DEF WriteCall, Call, PipeGoto
  <1>2. ASSUME NEW p \in PipeProcs, WriteAcquire(p) PROVE WriteEnd'
    BY <1>2 DEF WriteAcquire, Acquire, PipeGoto
  <1>3. ASSUME NEW p \in PipeProcs, WriteFails(p) PROVE WriteEnd'
    BY <1>3 DEF WriteFails, Done, PipeGoto
  <1>4. ASSUME NEW p \in PipeProcs, WriteFull(p) PROVE WriteEnd'
    BY <1>4 DEF WriteFull, WakeReadersAnd, WakeupAnd
  <1>5. ASSUME NEW p \in PipeProcs, WriteSleep(p) PROVE WriteEnd'
    BY <1>5 DEF WriteSleep, Sleep, PipeGoto
  <1>6. ASSUME NEW p \in PipeProcs, WriteBadAddress(p) PROVE WriteEnd'
    BY <1>6 DEF WriteBadAddress, Done, WakeReadersAnd, WakeupAnd
  <1>7. ASSUME NEW p \in PipeProcs, WriteDone(p) PROVE WriteEnd'
    BY <1>7 DEF WriteDone, Done, WakeReadersAnd, WakeupAnd
  <1>8. ASSUME NEW p \in PipeProcs, NEW b \in Bytes, WriteByte(p, b) PROVE WriteEnd'
    BY <1>8 DEF WriteByte
  <1>9. ASSUME NEW p \in PipeProcs, ReadCall(p) PROVE WriteEnd'
    BY <1>9 DEF ReadCall, Call, PipeGoto
  <1>10. ASSUME NEW p \in PipeProcs, PipeReadAcquire(p) PROVE WriteEnd'
    BY <1>10 DEF PipeReadAcquire, Acquire, PipeGoto
  <1>11. ASSUME NEW p \in PipeProcs, ReadKilled(p) PROVE WriteEnd'
    BY <1>11 DEF ReadKilled, Done, PipeGoto
  <1>12. ASSUME NEW p \in PipeProcs, ReadEmpty(p) PROVE WriteEnd'
    BY <1>12 DEF ReadEmpty, PipeGoto
  <1>13. ASSUME NEW p \in PipeProcs, PipeReadSleep(p) PROVE WriteEnd'
    BY <1>13 DEF PipeReadSleep, Sleep, PipeGoto
  <1>14. ASSUME NEW p \in PipeProcs, ReadGo(p) PROVE WriteEnd'
    BY <1>14 DEF ReadGo, PipeGoto
  <1>15. ASSUME NEW p \in PipeProcs, ReadByte(p) PROVE WriteEnd'
    BY <1>15 DEF ReadByte
  <1>16. ASSUME NEW p \in PipeProcs, ReadBadAddress(p) PROVE WriteEnd'
    BY <1>16 DEF ReadBadAddress, Done, WakeWritersAnd, WakeupAnd
  <1>17. ASSUME NEW p \in PipeProcs, ReadDone(p) PROVE WriteEnd'
    BY <1>17 DEF ReadDone, Done, WakeWritersAnd, WakeupAnd
  <1>18. ASSUME NEW p \in PipeProcs, CloseRead(p) PROVE WriteEnd'
    BY <1>18 DEF CloseRead, PipeGoto
  <1>19. ASSUME NEW p \in PipeProcs, CloseWrite(p) PROVE WriteEnd'
    BY <1>19 DEF CloseWrite, PipeGoto
  <1>20. ASSUME NEW p \in PipeProcs, PipeCloseRead(p) PROVE WriteEnd'
    BY <1>20 DEF PipeCloseRead, WakeWritersAnd, WakeupAnd, Freed
  <1>21. ASSUME NEW p \in PipeProcs, PipeCloseWrite(p) PROVE WriteEnd'
    BY <1>21 DEF PipeCloseWrite, WakeReadersAnd, WakeupAnd, Freed
  <1>22. ASSUME NEW p \in PipeProcs, PipeKill(p) PROVE WriteEnd'
    BY <1>22 DEF PipeKill
  <1>23. CASE UNCHANGED pipe_vars
    BY <1>23 DEF pipe_vars
  <1> QED
    BY <1>1, <1>2, <1>3, <1>4, <1>5, <1>6, <1>7, <1>8, <1>9, <1>10, <1>11,
       <1>12, <1>13, <1>14, <1>15, <1>16, <1>17, <1>18, <1>19, <1>20, <1>21,
       <1>22, <1>23 DEF PipeNext, WriteStep, ReadStep, CloseStep

\* A writer is woken before the lock is free again.
LEMMA PipeWritersAsleepStep ==
    ASSUME TypeOK, LockHeld, PipeWritersAsleep, [PipeNext]_pipe_vars
    PROVE  PipeWritersAsleep'
  <1> USE PipeAssumption DEF TypeOK, LockHeld, PipeWritersAsleep, Locked, Full,
     Empty, PC, InPipe, WriteLocked, ReadLocked, PipeAt, ends, counters, refs
  <1>1. ASSUME NEW p \in PipeProcs, WriteCall(p) PROVE PipeWritersAsleep'
    BY <1>1 DEF WriteCall, Call, PipeGoto
  <1>2. ASSUME NEW p \in PipeProcs, WriteAcquire(p) PROVE PipeWritersAsleep'
    BY <1>2 DEF WriteAcquire, Acquire, PipeGoto
  <1>3. ASSUME NEW p \in PipeProcs, WriteFails(p) PROVE PipeWritersAsleep'
    BY <1>3 DEF WriteFails, Done, PipeGoto
  <1>4. ASSUME NEW p \in PipeProcs, WriteFull(p) PROVE PipeWritersAsleep'
    BY <1>4 DEF WriteFull, WakeReadersAnd, WakeupAnd
  <1>5. ASSUME NEW p \in PipeProcs, WriteSleep(p) PROVE PipeWritersAsleep'
    BY <1>5 DEF WriteSleep, Sleep, PipeGoto
  <1>6. ASSUME NEW p \in PipeProcs, WriteBadAddress(p) PROVE PipeWritersAsleep'
    BY <1>6 DEF WriteBadAddress, Done, WakeReadersAnd, WakeupAnd
  <1>7. ASSUME NEW p \in PipeProcs, WriteDone(p) PROVE PipeWritersAsleep'
    BY <1>7 DEF WriteDone, Done, WakeReadersAnd, WakeupAnd
  <1>8. ASSUME NEW p \in PipeProcs, NEW b \in Bytes, WriteByte(p, b) PROVE PipeWritersAsleep'
    BY <1>8 DEF WriteByte
  <1>9. ASSUME NEW p \in PipeProcs, ReadCall(p) PROVE PipeWritersAsleep'
    BY <1>9 DEF ReadCall, Call, PipeGoto
  <1>10. ASSUME NEW p \in PipeProcs, PipeReadAcquire(p) PROVE PipeWritersAsleep'
    BY <1>10 DEF PipeReadAcquire, Acquire, PipeGoto
  <1>11. ASSUME NEW p \in PipeProcs, ReadKilled(p) PROVE PipeWritersAsleep'
    BY <1>11 DEF ReadKilled, Done, PipeGoto
  <1>12. ASSUME NEW p \in PipeProcs, ReadEmpty(p) PROVE PipeWritersAsleep'
    BY <1>12 DEF ReadEmpty, PipeGoto
  <1>13. ASSUME NEW p \in PipeProcs, PipeReadSleep(p) PROVE PipeWritersAsleep'
    BY <1>13 DEF PipeReadSleep, Sleep, PipeGoto
  <1>14. ASSUME NEW p \in PipeProcs, ReadGo(p) PROVE PipeWritersAsleep'
    BY <1>14 DEF ReadGo, PipeGoto
  <1>15. ASSUME NEW p \in PipeProcs, ReadByte(p) PROVE PipeWritersAsleep'
    BY <1>15 DEF ReadByte
  <1>16. ASSUME NEW p \in PipeProcs, ReadBadAddress(p) PROVE PipeWritersAsleep'
    BY <1>16 DEF ReadBadAddress, Done, WakeWritersAnd, WakeupAnd
  <1>17. ASSUME NEW p \in PipeProcs, ReadDone(p) PROVE PipeWritersAsleep'
    BY <1>17 DEF ReadDone, Done, WakeWritersAnd, WakeupAnd
  <1>18. ASSUME NEW p \in PipeProcs, CloseRead(p) PROVE PipeWritersAsleep'
    BY <1>18 DEF CloseRead, PipeGoto
  <1>19. ASSUME NEW p \in PipeProcs, CloseWrite(p) PROVE PipeWritersAsleep'
    BY <1>19 DEF CloseWrite, PipeGoto
  <1>20. ASSUME NEW p \in PipeProcs, PipeCloseRead(p) PROVE PipeWritersAsleep'
    BY <1>20 DEF PipeCloseRead, WakeWritersAnd, WakeupAnd, Freed
  <1>21. ASSUME NEW p \in PipeProcs, PipeCloseWrite(p) PROVE PipeWritersAsleep'
    BY <1>21 DEF PipeCloseWrite, WakeReadersAnd, WakeupAnd, Freed
  <1>22. ASSUME NEW p \in PipeProcs, PipeKill(p) PROVE PipeWritersAsleep'
    BY <1>22 DEF PipeKill
  <1>23. CASE UNCHANGED pipe_vars
    BY <1>23 DEF pipe_vars, Full, Empty
  <1> QED
    BY <1>1, <1>2, <1>3, <1>4, <1>5, <1>6, <1>7, <1>8, <1>9, <1>10, <1>11,
       <1>12, <1>13, <1>14, <1>15, <1>16, <1>17, <1>18, <1>19, <1>20, <1>21,
       <1>22, <1>23 DEF PipeNext, WriteStep, ReadStep, CloseStep

\* A reader is woken before the lock is free again, unless a writer was killed.
LEMMA PipeReadersAsleepStep ==
    ASSUME TypeOK, LockHeld, ReadEnd, PipeReadersAsleep, [PipeNext]_pipe_vars
    PROVE  PipeReadersAsleep'
  <1> USE PipeAssumption DEF TypeOK, LockHeld, ReadEnd, PipeReadersAsleep, Locked,
     InRead, Full, Empty, PC, InPipe, WriteLocked, ReadLocked, PipeAt, ends, counters,
     refs
  <1>1. ASSUME NEW p \in PipeProcs, WriteCall(p) PROVE PipeReadersAsleep'
    <2>1. \A q \in PipeProcs : q # p => pipe_pc'[q] = pipe_pc[q]
      BY <1>1 DEF WriteCall, Call, PipeGoto
    <2>2. /\ pipe_pc[p] = "user" /\ pipe_pc'[p] = "write"
          /\ UNCHANGED <<nread, nwrite, writeopen, pipe_killed>>
      BY <1>1 DEF WriteCall, Call, PipeGoto
    <2>3. ASSUME NEW q \in PipeProcs, pipe_pc'[q] = "read_asleep",
                 \A s \in PipeProcs : pipe_killed'[s] = 0
          PROVE  writeopen' = 1 /\ (Empty' \/ \E s \in PipeProcs : pipe_pc'[s] = "write_loop")
      <3>1. pipe_pc[q] = "read_asleep" /\ \A s \in PipeProcs : pipe_killed[s] = 0
        BY <2>1, <2>2, <2>3
      <3>2. CASE Empty
        BY <3>1, <3>2, <2>2
      <3>3. ASSUME NEW s \in PipeProcs, pipe_pc[s] = "write_loop"
            PROVE  pipe_pc'[s] = "write_loop"
        BY <3>3, <2>1, <2>2
      <3> QED
        BY <3>1, <3>2, <3>3, <2>2
    <2>4. ASSUME NEW q \in PipeProcs, pipe_pc'[q] = "read_sleep"
          PROVE  Empty' /\ writeopen' = 1
      BY <2>1, <2>2, <2>4
    <2> QED
      BY <2>3, <2>4
  <1>2. ASSUME NEW p \in PipeProcs, WriteAcquire(p) PROVE PipeReadersAsleep'
    BY <1>2 DEF WriteAcquire, Acquire, PipeGoto
  <1>3. ASSUME NEW p \in PipeProcs, WriteFails(p) PROVE PipeReadersAsleep'
    BY <1>3 DEF WriteFails, Done, PipeGoto
  <1>4. ASSUME NEW p \in PipeProcs, WriteFull(p) PROVE PipeReadersAsleep'
    BY <1>4 DEF WriteFull, WakeReadersAnd, WakeupAnd
  <1>5. ASSUME NEW p \in PipeProcs, WriteSleep(p) PROVE PipeReadersAsleep'
    BY <1>5 DEF WriteSleep, Sleep, PipeGoto
  <1>6. ASSUME NEW p \in PipeProcs, WriteBadAddress(p) PROVE PipeReadersAsleep'
    BY <1>6 DEF WriteBadAddress, Done, WakeReadersAnd, WakeupAnd
  <1>7. ASSUME NEW p \in PipeProcs, WriteDone(p) PROVE PipeReadersAsleep'
    BY <1>7 DEF WriteDone, Done, WakeReadersAnd, WakeupAnd
  <1>8. ASSUME NEW p \in PipeProcs, NEW b \in Bytes, WriteByte(p, b) PROVE PipeReadersAsleep'
    BY <1>8 DEF WriteByte
  <1>9. ASSUME NEW p \in PipeProcs, ReadCall(p) PROVE PipeReadersAsleep'
    BY <1>9 DEF ReadCall, Call, PipeGoto
  <1>10. ASSUME NEW p \in PipeProcs, PipeReadAcquire(p) PROVE PipeReadersAsleep'
    BY <1>10 DEF PipeReadAcquire, Acquire, PipeGoto
  <1>11. ASSUME NEW p \in PipeProcs, ReadKilled(p) PROVE PipeReadersAsleep'
    BY <1>11 DEF ReadKilled, Done, PipeGoto
  <1>12. ASSUME NEW p \in PipeProcs, ReadEmpty(p) PROVE PipeReadersAsleep'
    BY <1>12 DEF ReadEmpty, PipeGoto
  <1>13. ASSUME NEW p \in PipeProcs, PipeReadSleep(p) PROVE PipeReadersAsleep'
    BY <1>13 DEF PipeReadSleep, Sleep, PipeGoto
  <1>14. ASSUME NEW p \in PipeProcs, ReadGo(p) PROVE PipeReadersAsleep'
    BY <1>14 DEF ReadGo, PipeGoto
  <1>15. ASSUME NEW p \in PipeProcs, ReadByte(p) PROVE PipeReadersAsleep'
    BY <1>15 DEF ReadByte
  <1>16. ASSUME NEW p \in PipeProcs, ReadBadAddress(p) PROVE PipeReadersAsleep'
    BY <1>16 DEF ReadBadAddress, Done, WakeWritersAnd, WakeupAnd
  <1>17. ASSUME NEW p \in PipeProcs, ReadDone(p) PROVE PipeReadersAsleep'
    BY <1>17 DEF ReadDone, Done, WakeWritersAnd, WakeupAnd
  <1>18. ASSUME NEW p \in PipeProcs, CloseRead(p) PROVE PipeReadersAsleep'
    BY <1>18 DEF CloseRead, PipeGoto
  <1>19. ASSUME NEW p \in PipeProcs, CloseWrite(p) PROVE PipeReadersAsleep'
    BY <1>19 DEF CloseWrite, PipeGoto
  <1>20. ASSUME NEW p \in PipeProcs, PipeCloseRead(p) PROVE PipeReadersAsleep'
    BY <1>20 DEF PipeCloseRead, WakeWritersAnd, WakeupAnd, Freed
  <1>21. ASSUME NEW p \in PipeProcs, PipeCloseWrite(p) PROVE PipeReadersAsleep'
    BY <1>21 DEF PipeCloseWrite, WakeReadersAnd, WakeupAnd, Freed
  <1>22. ASSUME NEW p \in PipeProcs, PipeKill(p) PROVE PipeReadersAsleep'
    BY <1>22 DEF PipeKill
  <1>23. CASE UNCHANGED pipe_vars
    BY <1>23 DEF pipe_vars, Full, Empty
  <1> QED
    BY <1>1, <1>2, <1>3, <1>4, <1>5, <1>6, <1>7, <1>8, <1>9, <1>10, <1>11,
       <1>12, <1>13, <1>14, <1>15, <1>16, <1>17, <1>18, <1>19, <1>20, <1>21,
       <1>22, <1>23 DEF PipeNext, WriteStep, ReadStep, CloseStep


\* The page is freed by whichever pipeclose() finds the other end closed.
LEMMA PageStep ==
    ASSUME TypeOK, ReadEnd, WriteEnd, PageFreed, [PipeNext]_pipe_vars
    PROVE  PageFreed'
  <1> USE PipeAssumption DEF TypeOK, ReadEnd, WriteEnd, PageFreed, PipeAt, ends,
     counters, refs
  <1>1. ASSUME NEW p \in PipeProcs, WriteCall(p) PROVE PageFreed'
    BY <1>1 DEF WriteCall, Call, PipeGoto
  <1>2. ASSUME NEW p \in PipeProcs, WriteAcquire(p) PROVE PageFreed'
    BY <1>2 DEF WriteAcquire, Acquire, PipeGoto
  <1>3. ASSUME NEW p \in PipeProcs, WriteFails(p) PROVE PageFreed'
    BY <1>3 DEF WriteFails, Done, PipeGoto
  <1>4. ASSUME NEW p \in PipeProcs, WriteFull(p) PROVE PageFreed'
    BY <1>4 DEF WriteFull, WakeReadersAnd, WakeupAnd
  <1>5. ASSUME NEW p \in PipeProcs, WriteSleep(p) PROVE PageFreed'
    BY <1>5 DEF WriteSleep, Sleep, PipeGoto
  <1>6. ASSUME NEW p \in PipeProcs, WriteBadAddress(p) PROVE PageFreed'
    BY <1>6 DEF WriteBadAddress, Done, WakeReadersAnd, WakeupAnd
  <1>7. ASSUME NEW p \in PipeProcs, WriteDone(p) PROVE PageFreed'
    BY <1>7 DEF WriteDone, Done, WakeReadersAnd, WakeupAnd
  <1>8. ASSUME NEW p \in PipeProcs, NEW b \in Bytes, WriteByte(p, b) PROVE PageFreed'
    BY <1>8 DEF WriteByte
  <1>9. ASSUME NEW p \in PipeProcs, ReadCall(p) PROVE PageFreed'
    BY <1>9 DEF ReadCall, Call, PipeGoto
  <1>10. ASSUME NEW p \in PipeProcs, PipeReadAcquire(p) PROVE PageFreed'
    BY <1>10 DEF PipeReadAcquire, Acquire, PipeGoto
  <1>11. ASSUME NEW p \in PipeProcs, ReadKilled(p) PROVE PageFreed'
    BY <1>11 DEF ReadKilled, Done, PipeGoto
  <1>12. ASSUME NEW p \in PipeProcs, ReadEmpty(p) PROVE PageFreed'
    BY <1>12 DEF ReadEmpty, PipeGoto
  <1>13. ASSUME NEW p \in PipeProcs, PipeReadSleep(p) PROVE PageFreed'
    BY <1>13 DEF PipeReadSleep, Sleep, PipeGoto
  <1>14. ASSUME NEW p \in PipeProcs, ReadGo(p) PROVE PageFreed'
    BY <1>14 DEF ReadGo, PipeGoto
  <1>15. ASSUME NEW p \in PipeProcs, ReadByte(p) PROVE PageFreed'
    BY <1>15 DEF ReadByte
  <1>16. ASSUME NEW p \in PipeProcs, ReadBadAddress(p) PROVE PageFreed'
    BY <1>16 DEF ReadBadAddress, Done, WakeWritersAnd, WakeupAnd
  <1>17. ASSUME NEW p \in PipeProcs, ReadDone(p) PROVE PageFreed'
    BY <1>17 DEF ReadDone, Done, WakeWritersAnd, WakeupAnd
  <1>18. ASSUME NEW p \in PipeProcs, CloseRead(p) PROVE PageFreed'
    BY <1>18 DEF CloseRead, PipeGoto
  <1>19. ASSUME NEW p \in PipeProcs, CloseWrite(p) PROVE PageFreed'
    BY <1>19 DEF CloseWrite, PipeGoto
  <1>20. ASSUME NEW p \in PipeProcs, PipeCloseRead(p) PROVE PageFreed'
    BY <1>20 DEF PipeCloseRead, WakeWritersAnd, WakeupAnd, Freed
  <1>21. ASSUME NEW p \in PipeProcs, PipeCloseWrite(p) PROVE PageFreed'
    BY <1>21 DEF PipeCloseWrite, WakeReadersAnd, WakeupAnd, Freed
  <1>22. ASSUME NEW p \in PipeProcs, PipeKill(p) PROVE PageFreed'
    BY <1>22 DEF PipeKill
  <1>23. CASE UNCHANGED pipe_vars
    BY <1>23 DEF pipe_vars
  <1> QED
    BY <1>1, <1>2, <1>3, <1>4, <1>5, <1>6, <1>7, <1>8, <1>9, <1>10, <1>11,
       <1>12, <1>13, <1>14, <1>15, <1>16, <1>17, <1>18, <1>19, <1>20, <1>21,
       <1>22, <1>23 DEF PipeNext, WriteStep, ReadStep, CloseStep

----------------------------------------------------------------------------
(* Arithmetic of the counters *)

LEMMA PipeSizes == PIPESIZE \in Nat \ {0} /\ PIPE_UMAX \in Nat \ {0} /\ PIPESIZE < PIPE_UMAX
  BY PipeAssumption

\* A counter after an addition or subtraction, and the slot it stands for.
PipeWrap(x) == x % PIPE_UMAX
PipeSlot(x) == x % PIPESIZE

LEMMA PipeWrapIs ==
    ASSUME NEW x \in Int, -PIPE_UMAX <= x, x < 2 * PIPE_UMAX
    PROVE  PipeWrap(x) = IF x < 0 THEN x + PIPE_UMAX ELSE IF x < PIPE_UMAX THEN x ELSE x - PIPE_UMAX
  BY PipeSizes, ModNear DEF PipeWrap

LEMMA PipeSlotIn ==
    ASSUME NEW x \in Int
    PROVE  PipeSlot(x) \in 0..PIPESIZE - 1
  BY PipeSizes, DivMod DEF PipeSlot

LEMMA PipeSlotApart ==
    ASSUME NEW a \in Int, NEW b \in Int, a < b, b < a + PIPESIZE
    PROVE  PipeSlot(a) # PipeSlot(b)
  BY PipeSizes, ModApart DEF PipeSlot

LEMMA PipeSlotShift ==
    ASSUME NEW x \in Int
    PROVE  PipeSlot(x - PIPE_UMAX) = PipeSlot(x)
  <1>1. PIPE_UMAX % PIPESIZE = 0
    BY PipeAssumption
  <1> QED
    BY <1>1, PipeSizes, ModShift DEF PipeSlot

\* The wrapped position of a byte is in the slot of the unwrapped one.
LEMMA PipeSlotWrap ==
    ASSUME NEW x \in Int, 0 <= x, x < 2 * PIPE_UMAX
    PROVE  PipeSlot(PipeWrap(x)) = PipeSlot(x)
  <1>1. PipeWrap(x) = x \/ PipeWrap(x) = x - PIPE_UMAX
    BY PipeWrapIs, PipeSizes
  <1> QED
    BY <1>1, PipeSlotShift

\* How many bytes are buffered, and what Full and Empty test.
LEMMA UsedIs ==
    ASSUME TypeOK
    PROVE  /\ Used = IF nwrite >= nread THEN nwrite - nread ELSE nwrite - nread + PIPE_UMAX
           /\ Used \in 0..PIPE_UMAX - 1
           /\ Full <=> Used = PIPESIZE
           /\ Empty <=> Used = 0
           /\ PipeWrap(nread + Used) = nwrite
  <1>1. Used = PipeWrap(nwrite - nread)
    BY DEF Used, PipeWrap
  <1>2. Full <=> nwrite = PipeWrap(nread + PIPESIZE)
    BY DEF Full, PipeWrap
  <1>3. nread \in Nat /\ nread < PIPE_UMAX /\ nwrite \in Nat /\ nwrite < PIPE_UMAX
    BY PipeSizes DEF TypeOK
  <1>4. Used = IF nwrite >= nread THEN nwrite - nread ELSE nwrite - nread + PIPE_UMAX
    BY <1>1, <1>3, PipeWrapIs, PipeSizes
  <1>5. PipeWrap(nread + PIPESIZE) =
           IF nread + PIPESIZE < PIPE_UMAX THEN nread + PIPESIZE
           ELSE nread + PIPESIZE - PIPE_UMAX
    BY <1>3, PipeWrapIs, PipeSizes
  <1>6. Used \in 0..PIPE_UMAX - 1 /\ (Full <=> Used = PIPESIZE) /\ (Empty <=> Used = 0)
    BY <1>2, <1>3, <1>4, <1>5, PipeSizes DEF Empty
  <1>7. PipeWrap(nread + Used) = nwrite
    BY <1>3, <1>4, <1>6, PipeWrapIs, PipeSizes
  <1> QED
    BY <1>4, <1>6, <1>7

LEMMA BufferedIs ==
    ASSUME TypeOK
    PROVE  Buffered = [k \in 1..Used |-> data[PipeSlot(nread + k - 1)]]
  <1>1. Buffered = [k \in 1..Used |-> data[PipeSlot(PipeWrap(nread + k - 1))]]
    BY DEF Buffered, Used, PipeSlot, PipeWrap
  <1>2. ASSUME NEW k \in 1..Used
        PROVE  PipeSlot(PipeWrap(nread + k - 1)) = PipeSlot(nread + k - 1)
    <2>1. Used \in 0..PIPE_UMAX - 1 /\ nread \in 0..PIPE_UMAX - 1
      BY UsedIs DEF TypeOK
    <2> HIDE DEF Used
    <2> QED
      BY <2>1, PipeSlotWrap, PipeSizes
  <1> QED
    BY <1>1, <1>2

LEMMA BufferedSeq ==
    ASSUME TypeOK
    PROVE  Buffered \in Seq(Bytes) /\ Len(Buffered) = Used /\ Used \in Nat
  <1>1. /\ Used \in Nat /\ nread \in Int
        /\ Buffered = [k \in 1..Used |-> data[PipeSlot(nread + k - 1)]]
    BY BufferedIs, UsedIs, PipeSizes DEF TypeOK
  <1> HIDE DEF Used
  <1>2. ASSUME NEW k \in 1..Used
        PROVE  data[PipeSlot(nread + k - 1)] \in Bytes
    <2>1. PipeSlot(nread + k - 1) \in 0..PIPESIZE - 1
      BY <1>1, PipeSlotIn
    <2> QED
      BY <2>1 DEF TypeOK
  <1>3. Buffered \in [1..Used -> Bytes]
    BY <1>1, <1>2
  <1> HIDE DEF Buffered
  <1>4. Buffered \in Seq(Bytes)
    BY <1>1, <1>3, SeqDef
  <1>5. DOMAIN Buffered = 1..Used
    BY <1>3
  <1> QED
    BY <1>1, <1>4, <1>5

\* The same facts about the state after a step.
LEMMA PrimedUsedIs ==
    (TypeOK =>
       /\ Used = IF nwrite >= nread THEN nwrite - nread ELSE nwrite - nread + PIPE_UMAX
       /\ Buffered = [k \in 1..Used |-> data[PipeSlot(nread + k - 1)]])'
  <1>1. TypeOK =>
          /\ Used = IF nwrite >= nread THEN nwrite - nread ELSE nwrite - nread + PIPE_UMAX
          /\ Buffered = [k \in 1..Used |-> data[PipeSlot(nread + k - 1)]]
    BY UsedIs, BufferedIs
  <1> QED
    BY <1>1, PTL

\* pipewrite() stores a byte behind the others: it overwrites none of them.
LEMMA WritePuts ==
    ASSUME TypeOK, TypeOK', Used <= PIPESIZE,
           NEW p \in PipeProcs, NEW b \in Bytes, WriteByte(p, b)
    PROVE  /\ Used < PIPESIZE
           /\ Used' = Used + 1
           /\ Buffered' = Append(Buffered, b)
  <1>0. /\ nread \in 0..PIPE_UMAX - 1 /\ nwrite \in 0..PIPE_UMAX - 1
        /\ Used \in 0..PIPE_UMAX - 1 /\ Used < PIPESIZE
    BY UsedIs, PipeSizes DEF TypeOK, WriteByte
  <1>1. /\ nwrite' = PipeWrap(nwrite + 1)
        /\ nread' = nread
        /\ data' = [data EXCEPT ![PipeSlot(nwrite)] = b]
    BY DEF WriteByte, PipeWrap, PipeSlot
  <1>2. Used' = Used + 1
    <2>1. nwrite' = IF nwrite + 1 < PIPE_UMAX THEN nwrite + 1 ELSE 0
      BY <1>0, <1>1, PipeWrapIs, PipeSizes
    <2>2. Used = IF nwrite >= nread THEN nwrite - nread ELSE nwrite - nread + PIPE_UMAX
      BY UsedIs
    <2>3. Used' = IF nwrite' >= nread' THEN nwrite' - nread'
                  ELSE nwrite' - nread' + PIPE_UMAX
      BY PrimedUsedIs
    <2> HIDE DEF Used
    <2> QED
      BY <1>0, <1>1, <2>1, <2>2, <2>3, PipeSizes
  <1>3. PipeSlot(nwrite) = PipeSlot(nread + Used)
    BY <1>0, UsedIs, PipeSlotWrap, PipeSizes
  <1>4. Buffered' = [k \in 1..Used + 1 |-> data'[PipeSlot(nread + k - 1)]]
    BY PrimedUsedIs, <1>1, <1>2
  <1>5. /\ Buffered = [k \in 1..Used |-> data[PipeSlot(nread + k - 1)]]
        /\ Buffered \in Seq(Bytes) /\ Len(Buffered) = Used
    BY BufferedIs, BufferedSeq
  <1> HIDE DEF Used, Buffered
  <1>6. ASSUME NEW k \in 1..Used + 1
        PROVE  data'[PipeSlot(nread + k - 1)] = Append(Buffered, b)[k]
    <2>0. k = Used + 1 \/ k \in 1..Used
      BY <1>0
    <2>1. CASE k = Used + 1
      <3>1. PipeSlot(nread + k - 1) = PipeSlot(nwrite) /\ PipeSlot(nwrite) \in DOMAIN data
        BY <2>1, <1>0, <1>3, PipeSlotIn DEF TypeOK
      <3> QED
        BY <3>1, <2>1, <1>1, <1>5, <1>0
    <2>2. CASE k \in 1..Used
      <3>1. PipeSlot(nread + k - 1) # PipeSlot(nwrite)
        BY <2>2, <1>0, <1>3, PipeSlotApart, PipeSizes
      <3>2. data'[PipeSlot(nread + k - 1)] = data[PipeSlot(nread + k - 1)]
        BY <3>1, <1>1, <1>0, PipeSlotIn DEF TypeOK
      <3> QED
        BY <3>2, <2>2, <1>0, <1>5
    <2> QED
      BY <2>0, <2>1, <2>2
  <1>7. Append(Buffered, b) = [k \in 1..Used + 1 |-> Append(Buffered, b)[k]]
    BY <1>5, <1>0
  <1> QED
    BY <1>0, <1>2, <1>4, <1>6, <1>7

\* piperead() takes the oldest byte.
LEMMA ReadTakes ==
    ASSUME TypeOK, TypeOK', NEW p \in PipeProcs, ReadByte(p)
    PROVE  /\ Used' = Used - 1
           /\ Buffered # <<>>
           /\ last' = Head(Buffered)
           /\ Buffered' = Tail(Buffered)
  <1>0. /\ nread \in 0..PIPE_UMAX - 1 /\ nwrite \in 0..PIPE_UMAX - 1
        /\ Used \in 1..PIPE_UMAX - 1
    BY UsedIs, PipeSizes DEF TypeOK, ReadByte
  <1>1. /\ nread' = PipeWrap(nread + 1)
        /\ UNCHANGED <<nwrite, data>>
        /\ last' = data[PipeSlot(nread)]
    BY DEF ReadByte, PipeWrap, PipeSlot
  <1>2. nread' = IF nread + 1 < PIPE_UMAX THEN nread + 1 ELSE 0
    BY <1>0, <1>1, PipeWrapIs, PipeSizes
  <1>3. Used' = Used - 1
    <2>1. Used = IF nwrite >= nread THEN nwrite - nread ELSE nwrite - nread + PIPE_UMAX
      BY UsedIs
    <2>2. Used' = IF nwrite' >= nread' THEN nwrite' - nread'
                  ELSE nwrite' - nread' + PIPE_UMAX
      BY PrimedUsedIs
    <2> HIDE DEF Used
    <2> QED
      BY <1>0, <1>1, <1>2, <2>1, <2>2, PipeSizes
  <1>4. Buffered' = [k \in 1..Used - 1 |-> data[PipeSlot(nread' + k - 1)]]
    BY PrimedUsedIs, <1>1, <1>3
  <1>5. /\ Buffered = [k \in 1..Used |-> data[PipeSlot(nread + k - 1)]]
        /\ Buffered \in Seq(Bytes) /\ Len(Buffered) = Used
    BY BufferedIs, BufferedSeq
  <1> HIDE DEF Used, Buffered
  <1>6. ASSUME NEW k \in 1..Used - 1
        PROVE  data[PipeSlot(nread' + k - 1)] = Tail(Buffered)[k]
    <2>1. PipeSlot(nread' + k - 1) = PipeSlot(nread + k)
      <3>1. CASE nread + 1 < PIPE_UMAX
        BY <3>1, <1>0, <1>2
      <3>2. CASE nread + 1 >= PIPE_UMAX
        <4>1. nread' + k - 1 = (nread + k) - PIPE_UMAX
          BY <3>2, <1>0, <1>2, PipeSizes
        <4> QED
          BY <4>1, <1>0, PipeSlotShift
      <3> QED
        BY <3>1, <3>2, <1>0, PipeSizes
    <2>2. Tail(Buffered)[k] = Buffered[k + 1]
      BY <1>0, <1>5
    <2>3. Buffered[k + 1] = data[PipeSlot(nread + (k + 1) - 1)]
      BY <1>0, <1>5
    <2>4. nread + (k + 1) - 1 = nread + k
      BY <1>0
    <2> QED
      BY <2>1, <2>2, <2>3, <2>4
  <1>7. Tail(Buffered) = [k \in 1..Used - 1 |-> Tail(Buffered)[k]]
    BY <1>0, <1>5
  <1>8. last' = Head(Buffered) /\ Buffered # <<>>
    <2>1. nread + 1 - 1 = nread
      BY <1>0
    <2>2. Head(Buffered) = data[PipeSlot(nread + 1 - 1)]
      BY <1>0, <1>5
    <2> QED
      BY <2>1, <2>2, <1>0, <1>1, <1>5
  <1> QED
    BY <1>3, <1>4, <1>6, <1>7, <1>8

\* No other step touches the bytes or the counters.
LEMMA PipeOthersKeep ==
    ASSUME [PipeNext]_pipe_vars,
           ~\E p \in PipeProcs : ReadByte(p) \/ \E b \in Bytes : WriteByte(p, b)
    PROVE  UNCHANGED <<nread, nwrite, data, last>>
  <1> USE PipeAssumption DEF PipeAt, ends, counters, refs
  <1>1. ASSUME NEW p \in PipeProcs, WriteCall(p) PROVE UNCHANGED <<nread, nwrite, data, last>>
    BY <1>1 DEF WriteCall, Call, PipeGoto
  <1>2. ASSUME NEW p \in PipeProcs, WriteAcquire(p) PROVE UNCHANGED <<nread, nwrite, data, last>>
    BY <1>2 DEF WriteAcquire, Acquire, PipeGoto
  <1>3. ASSUME NEW p \in PipeProcs, WriteFails(p) PROVE UNCHANGED <<nread, nwrite, data, last>>
    BY <1>3 DEF WriteFails, Done, PipeGoto
  <1>4. ASSUME NEW p \in PipeProcs, WriteFull(p) PROVE UNCHANGED <<nread, nwrite, data, last>>
    BY <1>4 DEF WriteFull, WakeReadersAnd, WakeupAnd
  <1>5. ASSUME NEW p \in PipeProcs, WriteSleep(p) PROVE UNCHANGED <<nread, nwrite, data, last>>
    BY <1>5 DEF WriteSleep, Sleep, PipeGoto
  <1>6. ASSUME NEW p \in PipeProcs, WriteBadAddress(p) PROVE UNCHANGED <<nread, nwrite, data, last>>
    BY <1>6 DEF WriteBadAddress, Done, WakeReadersAnd, WakeupAnd
  <1>7. ASSUME NEW p \in PipeProcs, WriteDone(p) PROVE UNCHANGED <<nread, nwrite, data, last>>
    BY <1>7 DEF WriteDone, Done, WakeReadersAnd, WakeupAnd
  <1>8. ASSUME NEW p \in PipeProcs, NEW b \in Bytes, WriteByte(p, b) PROVE UNCHANGED <<nread, nwrite, data, last>>
    BY <1>8 DEF WriteByte
  <1>9. ASSUME NEW p \in PipeProcs, ReadCall(p) PROVE UNCHANGED <<nread, nwrite, data, last>>
    BY <1>9 DEF ReadCall, Call, PipeGoto
  <1>10. ASSUME NEW p \in PipeProcs, PipeReadAcquire(p) PROVE UNCHANGED <<nread, nwrite, data, last>>
    BY <1>10 DEF PipeReadAcquire, Acquire, PipeGoto
  <1>11. ASSUME NEW p \in PipeProcs, ReadKilled(p) PROVE UNCHANGED <<nread, nwrite, data, last>>
    BY <1>11 DEF ReadKilled, Done, PipeGoto
  <1>12. ASSUME NEW p \in PipeProcs, ReadEmpty(p) PROVE UNCHANGED <<nread, nwrite, data, last>>
    BY <1>12 DEF ReadEmpty, PipeGoto
  <1>13. ASSUME NEW p \in PipeProcs, PipeReadSleep(p) PROVE UNCHANGED <<nread, nwrite, data, last>>
    BY <1>13 DEF PipeReadSleep, Sleep, PipeGoto
  <1>14. ASSUME NEW p \in PipeProcs, ReadGo(p) PROVE UNCHANGED <<nread, nwrite, data, last>>
    BY <1>14 DEF ReadGo, PipeGoto
  <1>15. ASSUME NEW p \in PipeProcs, ReadByte(p) PROVE UNCHANGED <<nread, nwrite, data, last>>
    BY <1>15 DEF ReadByte
  <1>16. ASSUME NEW p \in PipeProcs, ReadBadAddress(p) PROVE UNCHANGED <<nread, nwrite, data, last>>
    BY <1>16 DEF ReadBadAddress, Done, WakeWritersAnd, WakeupAnd
  <1>17. ASSUME NEW p \in PipeProcs, ReadDone(p) PROVE UNCHANGED <<nread, nwrite, data, last>>
    BY <1>17 DEF ReadDone, Done, WakeWritersAnd, WakeupAnd
  <1>18. ASSUME NEW p \in PipeProcs, CloseRead(p) PROVE UNCHANGED <<nread, nwrite, data, last>>
    BY <1>18 DEF CloseRead, PipeGoto
  <1>19. ASSUME NEW p \in PipeProcs, CloseWrite(p) PROVE UNCHANGED <<nread, nwrite, data, last>>
    BY <1>19 DEF CloseWrite, PipeGoto
  <1>20. ASSUME NEW p \in PipeProcs, PipeCloseRead(p) PROVE UNCHANGED <<nread, nwrite, data, last>>
    BY <1>20 DEF PipeCloseRead, WakeWritersAnd, WakeupAnd, Freed
  <1>21. ASSUME NEW p \in PipeProcs, PipeCloseWrite(p) PROVE UNCHANGED <<nread, nwrite, data, last>>
    BY <1>21 DEF PipeCloseWrite, WakeReadersAnd, WakeupAnd, Freed
  <1>22. ASSUME NEW p \in PipeProcs, PipeKill(p) PROVE UNCHANGED <<nread, nwrite, data, last>>
    BY <1>22 DEF PipeKill
  <1>23. CASE UNCHANGED pipe_vars
    BY <1>23 DEF pipe_vars
  <1> QED
    BY <1>1, <1>2, <1>3, <1>4, <1>5, <1>6, <1>7, <1>8, <1>9, <1>10, <1>11,
       <1>12, <1>13, <1>14, <1>15, <1>16, <1>17, <1>18, <1>19, <1>20, <1>21,
       <1>22, <1>23 DEF PipeNext, WriteStep, ReadStep, CloseStep

\* The steps of the pipe are steps of the queue.
LEMMA PipeQueueStep ==
    ASSUME TypeOK, TypeOK', Used <= PIPESIZE, [PipeNext]_pipe_vars
    PROVE  /\ Used' <= PIPESIZE
           /\ Queue!QueueNext \/ UNCHANGED <<Buffered, last>>
  <1>0. Used \in Nat /\ PIPESIZE \in Nat
    BY BufferedSeq, PipeSizes
  <1>1. ASSUME NEW p \in PipeProcs, NEW b \in Bytes, WriteByte(p, b)
        PROVE  Used' <= PIPESIZE /\ Queue!QueueNext
    <2>1. Len(Buffered) < PIPESIZE /\ Buffered' = Append(Buffered, b)
      BY <1>1, WritePuts, BufferedSeq
    <2>2. UNCHANGED last
      BY <1>1 DEF WriteByte
    <2>3. Used' <= PIPESIZE
      BY <1>0, <1>1, WritePuts
    <2> QED
      BY <2>1, <2>2, <2>3 DEF Queue!QueueNext, Queue!Put
  <1>2. ASSUME NEW p \in PipeProcs, ReadByte(p)
        PROVE  Used' <= PIPESIZE /\ Queue!QueueNext
    <2>1. Used' <= PIPESIZE
      BY <1>0, <1>2, ReadTakes
    <2>2. Queue!Take
      BY <1>2, ReadTakes DEF Queue!Take
    <2> QED
      BY <2>1, <2>2 DEF Queue!QueueNext
  <1>3. CASE ~\E p \in PipeProcs : ReadByte(p) \/ \E b \in Bytes : WriteByte(p, b)
    <2>1. UNCHANGED <<nread, nwrite, data, last>>
      BY <1>3, PipeOthersKeep
    <2>2. Used' = Used
      BY <2>1 DEF Used
    <2>3. Buffered' = Buffered
      BY <2>1 DEF Buffered
    <2> QED
      BY <2>1, <2>2, <2>3
  <1> QED
    BY <1>1, <1>2, <1>3

----------------------------------------------------------------------------
(* Theorems *)

LEMMA InitPipeInv == PipeInit => PipeInv
  <1> SUFFICES ASSUME PipeInit PROVE PipeInv
    OBVIOUS
  <1> USE PipeAssumption
  <1>1. TypeOK
    BY DEF PipeInit, TypeOK, PC
  <1>2. LockHeld /\ PipeWritersAsleep /\ PipeReadersAsleep
    BY DEF PipeInit, LockHeld, Locked, WriteLocked, ReadLocked, PipeWritersAsleep, PipeReadersAsleep
  <1>3. ReadEnd /\ WriteEnd /\ PageFreed
    BY DEF PipeInit, ReadEnd, WriteEnd, PageFreed, InRead, InWrite, WriteLocked, ReadLocked
  <1>4. Used <= PIPESIZE
    BY <1>1, UsedIs, PipeSizes DEF PipeInit
  <1> QED
    BY <1>1, <1>2, <1>3, <1>4 DEF PipeInv

\* The inductive invariant of the pipe: who holds pi->lock, who may still use
\* each end, and what each sleeper may rely on.
THEOREM PipeInvariant == PipeSpec => []PipeInv
  <1>1. PipeInv /\ [PipeNext]_pipe_vars => PipeInv'
    <2> SUFFICES ASSUME PipeInv, [PipeNext]_pipe_vars PROVE PipeInv'
      OBVIOUS
    <2>1. /\ TypeOK /\ LockHeld /\ ReadEnd /\ WriteEnd /\ PageFreed
          /\ PipeWritersAsleep /\ PipeReadersAsleep /\ Used <= PIPESIZE
      BY DEF PipeInv
    <2>2. TypeOK' /\ LockHeld' /\ ReadEnd' /\ WriteEnd' /\ PageFreed'
      BY <2>1, PipeTypeStep, PipeLockStep, ReadEndStep, WriteEndStep, PageStep
    <2>3. PipeWritersAsleep' /\ PipeReadersAsleep'
      BY <2>1, PipeWritersAsleepStep, PipeReadersAsleepStep
    <2>4. (Used <= PIPESIZE)'
      BY <2>1, <2>2, PipeQueueStep
    <2> QED
      BY <2>2, <2>3, <2>4 DEF PipeInv
  <1> QED
    BY <1>1, InitPipeInv, PTL DEF PipeSpec

\* pipeclose() frees the page when the last descriptor is gone and everybody has
\* left the pipe code, for any number of processes: no use after free, no leak.
THEOREM FreedOnce == PipeSpec => []FreedAtLastClose
  <1>1. PipeInv => FreedAtLastClose
    BY DEF PipeInv, TypeOK, ReadEnd, WriteEnd, PageFreed, FreedAtLastClose,
           PC, InPipe, InRead, InWrite
  <1> QED
    BY <1>1, PipeInvariant, PTL

\* sleep() and wakeup() in kernel/pipe.c lose no wakeup: with pi->lock free, a
\* sleeper's reason to sleep still holds.
THEOREM PipeNobodyOversleeps == PipeSpec => []SleepersWait
  <1>1. PipeInv => SleepersWait
    <2> SUFFICES ASSUME PipeInv PROVE SleepersWait
      OBVIOUS
    <2>1. ASSUME lock = NoProc, NEW p \in PipeProcs PROVE pipe_pc[p] \notin Locked
      BY <2>1, PipeAssumption DEF PipeInv, LockHeld
    <2>2. WriterWaits
      <3> SUFFICES ASSUME NEW p \in PipeProcs, pipe_pc[p] = "write_asleep", lock = NoProc
                   PROVE  Full /\ readopen = 1
        BY DEF WriterWaits
      <3>1. \A q \in PipeProcs : pipe_pc[q] # "read_copy"
        BY <2>1 DEF Locked, ReadLocked
      <3>2. PipeWritersAsleep
        BY DEF PipeInv
      <3> QED
        BY <3>1, <3>2 DEF PipeWritersAsleep, Full
    <2>3. ReaderWaits
      BY <2>1 DEF PipeInv, ReaderWaits, PipeReadersAsleep, Locked, WriteLocked
    <2> QED
      BY <2>2, <2>3 DEF SleepersWait
  <1> QED
    BY <1>1, PipeInvariant, PTL

\* The ring buffer with its two wrapping counters is a first-in first-out queue
\* of PIPESIZE bytes, whatever UMAX a multiple of it the counters wrap at.
THEOREM PipeIsQueue == PipeSpec => FifoOrder
  <1>1. PipeInit => Queue!QueueInit
    <2> SUFFICES ASSUME PipeInit PROVE Queue!QueueInit
      OBVIOUS
    <2>1. TypeOK /\ Used = 0
      BY InitPipeInv, UsedIs DEF PipeInv, PipeInit, Empty
    <2>2. Buffered = <<>>
      BY <2>1, BufferedSeq
    <2> QED
      BY <2>2 DEF Queue!QueueInit, PipeInit
  <1>2. PipeInv /\ PipeInv' /\ [PipeNext]_pipe_vars => [Queue!QueueNext]_<<Buffered, last>>
    BY PipeQueueStep DEF PipeInv
  <1> QED
    BY <1>1, <1>2, PipeInvariant, PTL DEF PipeSpec, FifoOrder, Queue!QueueSpec

=============================================================================
