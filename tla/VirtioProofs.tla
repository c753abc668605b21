---------------------------- MODULE VirtioProofs ----------------------------
(***************************************************************************)
(* Proofs about the disk driver of kernel/virtio_disk.c, for any number of *)
(* processes, blocks, contents and descriptors.                            *)
(***************************************************************************)
EXTENDS Virtio, FiniteSetTheorems, WellFoundedInduction, TLAPS

Active == {p \in Procs : pc[p] \in Submitted}
AvailSet == Entries(avail_ring, dev_idx, avail_idx)
UsedSet == Entries(used_ring, used_idx, used_ring_idx)

Second(p) == desc[idx[p]].next
Third(p) == desc[Second(p)].next

\* The lock is held by the one process that is submitting, or by the handler.
LockInv ==
    /\ \A p \in Procs : pc[p] \in {"publish", "notify"} <=> vdisk_lock = p
    /\ intr # "none" <=> vdisk_lock = Handler

\* The arguments of a call.
CallInv ==
    \A p \in Procs :
        /\ pc[p] = "idle" <=> blk[p] = NoBlock
        /\ pc[p] # "idle" /\ wr[p] = 1 => data[p] \in Values

\* The chain of a request describes its call.
ChainOk(p) ==
    /\ idx[p] # Second(p) /\ idx[p] # Third(p) /\ Second(p) # Third(p)
    /\ desc[idx[p]].addr = [kind |-> "op",
                            of |-> [type |-> IF wr[p] = 1 THEN "OUT" ELSE "IN",
                                    sector |-> blk[p]]]
    /\ desc[Second(p)].addr = [kind |-> "data", of |-> p]
    /\ desc[Third(p)].addr = [kind |-> "status", of |-> idx[p]]
    /\ "NEXT" \in desc[idx[p]].flags /\ "NEXT" \in desc[Second(p)].flags
    /\ "NEXT" \notin desc[Third(p)].flags
    /\ info_b[idx[p]] = p

ChainInv == \A p \in Active : ChainOk(p)

\* Who owns a descriptor.
OwnInv ==
    /\ \A p, q \in Active : \A d \in ChainOf(p) : d \in ChainOf(q) => p = q
    /\ \A d \in Desc : d \in free <=> \A p \in Active : d \notin ChainOf(p)
    /\ \A d \in Desc : info_b[d] # NoProc => info_b[d] \in Active /\ idx[info_b[d]] = d

\* The window of a ring is shorter than the ring and has no entry twice.
WindowOk(ring, x, y) ==
    LET n == (y - x) % UMAX
    IN  /\ n < NUM
        /\ \A i \in 0..n - 1 : ring[(x + i) % NUM] \in Desc
        /\ \A i, j \in 0..n - 1 : ring[(x + i) % NUM] = ring[(x + j) % NUM] => i = j

RingsInv ==
    /\ WindowOk(avail_ring, dev_idx, avail_idx)
    /\ WindowOk(used_ring, used_idx, used_ring_idx)

\* The head of a request that has been published and not handed back.
InFlight(h) ==
    /\ h \in Desc /\ info_b[h] \in Procs
    /\ pc[info_b[h]] # "publish" /\ b_disk[info_b[h]] = 1

\* Where the requests are.
PlaceInv ==
    /\ \A h \in AvailSet \union taken : InFlight(h) /\ status[h] = 255
    /\ \A h \in UsedSet : InFlight(h) /\ status[h] = 0
    /\ AvailSet \intersect taken = {}
    /\ \A p \in Active : b_disk[p] = 0 => status[idx[p]] = 0
    /\ \A p \in Active : pc[p] = "publish" =>
        b_disk[p] = 1 /\ status[idx[p]] = 255 /\ avail_ring[avail_idx % NUM] = idx[p]
    /\ \A p \in Active : b_disk[p] = 1 /\ pc[p] # "publish" =>
        idx[p] \in AvailSet \union taken \union UsedSet
    /\ \A p \in Procs : pc[p] \in {"notify", "wait_sleep"} => b_disk[p] = 1

VirtioInv ==
    /\ TypeOK
    /\ panicked = 0
    /\ LockInv
    /\ CallInv
    /\ ChainInv
    /\ OwnInv
    /\ RingsInv
    /\ PlaceInv
    /\ RwSleeperWaits
    /\ RequestsAnnounced
    /\ CompletionAnnounced

----------------------------------------------------------------------------
(* Arithmetic of the wrapping indices. *)

Index == 0..UMAX - 1

\* How far index y is ahead of index x, and the cell of a ring that x names.
Dist(x, y) == (y - x) % UMAX
Cell(x) == x % NUM
Succ(x) == (x + 1) % UMAX

LEMMA DivMod ==
    ASSUME NEW x \in Int, NEW m \in Nat \ {0}
    PROVE  /\ (x % m) \in 0..m - 1
           /\ (x \div m) \in Int
           /\ x = m * (x \div m) + (x % m)
  OBVIOUS

LEMMA ModOfSum ==
    ASSUME NEW m \in Nat \ {0}, NEW q \in Int, NEW d \in 0..m - 1
    PROVE  (m * q + d) % m = d
  OBVIOUS

LEMMA ModNear ==
    ASSUME NEW m \in Nat \ {0}, NEW x \in Int, -m <= x, x < 2 * m
    PROVE  x % m = IF x < 0 THEN x + m ELSE IF x < m THEN x ELSE x - m
  <1>1. ASSUME x < 0 PROVE x % m = x + m
    BY <1>1
  <1>2. ASSUME 0 <= x, x < m PROVE x % m = x
    BY <1>2
  <1>3. ASSUME m <= x PROVE x % m = x - m
    BY <1>3
  <1> QED
    BY <1>1, <1>2, <1>3

LEMMA Sizes ==
    /\ NUM \in Nat \ {0} /\ NUM >= 3 /\ UMAX \in Nat \ {0}
    /\ NUM <= UMAX /\ UMAX % NUM = 0
  <1>1. NUM \in Nat \ {0} /\ NUM >= 3 /\ UMAX \in Nat \ {0} /\ UMAX % NUM = 0
    BY VirtioAssumption
  <1>2. UMAX < NUM => UMAX % NUM = UMAX
    BY <1>1, ModNear
  <1> QED
    BY <1>1, <1>2

\* A multiple of the size of the ring does not change the cell.
LEMMA CellShift ==
    ASSUME NEW x \in Int
    PROVE  Cell(x - UMAX) = Cell(x)
  <1> DEFINE q == x \div NUM
             k == UMAX \div NUM
             d == x % NUM
  <1>1. x = NUM * q + d /\ q \in Int /\ d \in 0..NUM - 1
    BY DivMod, Sizes
  <1>2. UMAX = NUM * k /\ k \in Int
    BY DivMod, Sizes, SMT
  <1>3. x - UMAX = NUM * (q - k) + d
    <2> HIDE DEF q, k, d
    <2> QED
      BY <1>1, <1>2, Sizes
  <1>4. (NUM * (q - k) + d) % NUM = d
    <2> HIDE DEF q, k, d
    <2> QED
      BY <1>1, <1>2, ModOfSum, Sizes
  <1> QED
    BY <1>3, <1>4 DEF Cell

\* Two positions less than a ring apart have different cells.
LEMMA CellApart ==
    ASSUME NEW a \in Int, NEW b \in Int, a < b, b < a + NUM
    PROVE  Cell(a) # Cell(b)
  <1> DEFINE q == a \div NUM
             k == b \div NUM
             d == a % NUM
  <1> SUFFICES ASSUME d = b % NUM PROVE FALSE
    BY DEF Cell
  <1>1. a = NUM * q + d /\ q \in Int /\ d \in 0..NUM - 1
    BY DivMod, Sizes
  <1>2. b = NUM * k + d /\ k \in Int
    BY DivMod, Sizes
  <1> HIDE DEF q, k, d
  <1>3. b - a = NUM * (k - q)
    BY <1>1, <1>2, Sizes
  <1>4. CASE k - q <= 0
    <2>1. NUM * (k - q) <= 0
      BY <1>1, <1>2, <1>4, Sizes
    <2> QED
      BY <2>1, <1>3, Sizes
  <1>5. CASE k - q >= 1
    <2>1. NUM * (k - q) >= NUM
      BY <1>1, <1>2, <1>5, Sizes
    <2> QED
      BY <2>1, <1>3, Sizes
  <1> QED
    BY <1>4, <1>5, <1>1, <1>2

LEMMA CellType == ASSUME NEW x \in Int PROVE Cell(x) \in Desc
  BY DivMod, Sizes DEF Cell, Desc

LEMMA CellSame ==
    ASSUME NEW x \in Int, NEW y \in Int, y = x \/ y = x - UMAX
    PROVE  Cell(y) = Cell(x)
  BY CellShift

LEMMA DistIs ==
    ASSUME NEW x \in Index, NEW y \in Index
    PROVE  /\ Dist(x, y) = IF y >= x THEN y - x ELSE y - x + UMAX
           /\ Dist(x, y) \in Index /\ Dist(x, y) \in Nat
           /\ Dist(x, y) = 0 <=> x = y
           /\ x \in Int /\ y \in Int
  <1> DEFINE a == y - x
  <1>1. a \in Int /\ -UMAX <= a /\ a < UMAX /\ a < 2 * UMAX /\ x \in Int /\ y \in Int
    BY Sizes DEF Index
  <1>2. Dist(x, y) = a % UMAX
    BY DEF Dist
  <1>3. a % UMAX = IF a < 0 THEN a + UMAX ELSE IF a < UMAX THEN a ELSE a - UMAX
    <2> HIDE DEF a
    <2> QED
      BY <1>1, Sizes, ModNear
  <1> QED
    BY <1>1, <1>2, <1>3, Sizes DEF Index

LEMMA SuccIs ==
    ASSUME NEW x \in Index
    PROVE  /\ Succ(x) = IF x + 1 < UMAX THEN x + 1 ELSE 0
           /\ Succ(x) \in Index
           /\ Succ(x) = x + 1 \/ Succ(x) = (x + 1) - UMAX
  <1> DEFINE a == x + 1
  <1>1. a \in Int /\ -UMAX <= a /\ a <= UMAX /\ a < 2 * UMAX /\ 0 < a
    BY Sizes DEF Index
  <1>2. Succ(x) = a % UMAX
    BY DEF Succ
  <1>3. a % UMAX = IF a < 0 THEN a + UMAX ELSE IF a < UMAX THEN a ELSE a - UMAX
    <2> HIDE DEF a
    <2> QED
      BY <1>1, Sizes, ModNear
  <1> QED
    BY <1>1, <1>2, <1>3, Sizes DEF Index

\* Producing and consuming an entry.
LEMMA DistSucc ==
    ASSUME NEW x \in Index, NEW y \in Index
    PROVE  /\ Dist(x, y) + 1 < UMAX => Dist(x, Succ(y)) = Dist(x, y) + 1
           /\ x # y => Dist(Succ(x), y) = Dist(x, y) - 1
  <1>1. Succ(x) \in Index /\ Succ(y) \in Index
    BY SuccIs
  <1>2. /\ Dist(x, y) = IF y >= x THEN y - x ELSE y - x + UMAX
        /\ Dist(x, Succ(y)) = IF Succ(y) >= x THEN Succ(y) - x ELSE Succ(y) - x + UMAX
        /\ Dist(Succ(x), y) = IF y >= Succ(x) THEN y - Succ(x) ELSE y - Succ(x) + UMAX
    BY <1>1, DistIs
  <1>3. /\ Succ(x) = IF x + 1 < UMAX THEN x + 1 ELSE 0
        /\ Succ(y) = IF y + 1 < UMAX THEN y + 1 ELSE 0
    BY SuccIs
  <1>4. x \in Int /\ y \in Int /\ 0 <= x /\ 0 <= y /\ x < UMAX /\ y < UMAX
    BY Sizes DEF Index
  <1> QED
    BY <1>2, <1>3, <1>4, Sizes

\* The i-th entry after the next index is the one after the i-th; the entry at
\* the end of the window is the one of its last index.
LEMMA CellSucc ==
    ASSUME NEW x \in Index, NEW i \in Nat
    PROVE  Cell(Succ(x) + i) = Cell(x + (i + 1))
  <1>1. x \in Int /\ UMAX \in Int
    BY Sizes DEF Index
  <1>2. /\ x + (i + 1) \in Int /\ Succ(x) + i \in Int
        /\ Succ(x) + i = x + (i + 1) \/ Succ(x) + i = (x + (i + 1)) - UMAX
    BY <1>1, SuccIs
  <1> QED
    BY <1>2, CellSame

LEMMA CellEnd ==
    ASSUME NEW x \in Index, NEW y \in Index
    PROVE  Cell(x + Dist(x, y)) = Cell(y)
  <1>1. x \in Int /\ y \in Int /\ UMAX \in Int /\ Dist(x, y) \in Int
    BY Sizes, DistIs DEF Index
  <1>2. y = x + Dist(x, y) \/ y = (x + Dist(x, y)) - UMAX
    <2>1. PICK n \in Int : n = Dist(x, y)
      BY <1>1
    <2>2. n = IF y >= x THEN y - x ELSE y - x + UMAX
      BY <2>1, DistIs
    <2> QED
      BY <1>1, <2>1, <2>2
  <1>3. x + Dist(x, y) \in Int
    BY <1>1
  <1> QED
    BY <1>1, <1>2, <1>3, CellSame

----------------------------------------------------------------------------
(* The window of a ring. *)

LEMMA WindowIs ==
    ASSUME NEW ring, NEW x, NEW y
    PROVE  /\ WindowOk(ring, x, y) <=>
                /\ Dist(x, y) < NUM
                /\ \A i \in 0..Dist(x, y) - 1 : ring[Cell(x + i)] \in Desc
                /\ \A i, j \in 0..Dist(x, y) - 1 :
                    ring[Cell(x + i)] = ring[Cell(x + j)] => i = j
           /\ \A h : h \in Entries(ring, x, y) <=>
                \E i \in 0..Dist(x, y) - 1 : h = ring[Cell(x + i)]
  BY DEF WindowOk, Entries, Dist, Cell

\* Cells of the window are apart from each other and from the one at its end.
LEMMA WindowApart ==
    ASSUME NEW x \in Index, NEW y \in Index, Dist(x, y) < NUM,
           NEW i \in 0..Dist(x, y) - 1
    PROVE  /\ x + i \in Int /\ Cell(x + i) \in Desc /\ Cell(x + i) # Cell(y)
           /\ i # 0 => Cell(x + i) # Cell(x)
  <1>1. x \in Int /\ i \in Int /\ Dist(x, y) \in Int /\ 0 <= i /\ i < Dist(x, y) /\ NUM \in Int
    BY DistIs, Sizes
  <1>2. x + i \in Int /\ x + Dist(x, y) \in Int
    BY <1>1
  <1>3. x + i < x + Dist(x, y) /\ x + Dist(x, y) < (x + i) + NUM
    BY <1>1
  <1>4. Cell(x + i) # Cell(x + Dist(x, y))
    BY <1>2, <1>3, CellApart
  <1>5. i # 0 => Cell(x) # Cell(x + i)
    <2>1. i # 0 => x < x + i /\ x + i < x + NUM
      BY <1>1
    <2> QED
      BY <1>1, <1>2, <2>1, CellApart
  <1> QED
    BY <1>2, <1>4, <1>5, CellEnd, CellType

\* Writing the cell after the window does not change the window.
LEMMA WritePast ==
    ASSUME NEW ring, NEW ring2, NEW x \in Index, NEW y \in Index,
           WindowOk(ring, x, y),
           \A s \in Desc : s # Cell(y) => ring2[s] = ring[s]
    PROVE  /\ WindowOk(ring2, x, y)
           /\ Entries(ring2, x, y) = Entries(ring, x, y)
  <1>1. Dist(x, y) < NUM
    BY WindowIs
  <1>2. \A i \in 0..Dist(x, y) - 1 : ring2[Cell(x + i)] = ring[Cell(x + i)]
    BY <1>1, WindowApart
  <1>3. WindowOk(ring2, x, y)
    BY <1>2, WindowIs
  <1>4. \A h : h \in Entries(ring2, x, y) <=> h \in Entries(ring, x, y)
    BY <1>2, WindowIs
  <1> QED
    BY <1>3, <1>4

\* The producer adds h to the window.
LEMMA Push ==
    ASSUME NEW ring, NEW ring2, NEW x \in Index, NEW y \in Index, NEW h \in Desc,
           WindowOk(ring, x, y), h \notin Entries(ring, x, y), Dist(x, y) + 1 < NUM,
           ring2[Cell(y)] = h,
           \A s \in Desc : s # Cell(y) => ring2[s] = ring[s]
    PROVE  /\ WindowOk(ring2, x, Succ(y))
           /\ Entries(ring2, x, Succ(y)) = Entries(ring, x, y) \union {h}
  <1> DEFINE n == Dist(x, y)
  <1>1. n \in Nat /\ n + 1 < NUM /\ NUM \in Int /\ UMAX \in Int /\ NUM <= UMAX
    BY DistIs, Sizes
  <1>2. Dist(x, Succ(y)) = n + 1
    BY <1>1, DistSucc
  <1>3. \A i \in 0..n - 1 : ring2[Cell(x + i)] = ring[Cell(x + i)]
    BY <1>1, WindowApart
  <1>4. ring2[Cell(x + n)] = h
    BY CellEnd
  <1>5. \A i \in 0..n - 1 : ring[Cell(x + i)] # h /\ ring[Cell(x + i)] \in Desc
    BY WindowIs
  <1>w. \A i, j \in 0..n - 1 : ring[Cell(x + i)] = ring[Cell(x + j)] => i = j
    BY WindowIs
  <1> HIDE DEF n
  <1>6. /\ \A i \in 0..(n + 1) - 1 : i \in 0..n - 1 \/ i = n
        /\ \A i \in 0..n - 1 : i \in 0..(n + 1) - 1
        /\ n \in 0..(n + 1) - 1
    BY <1>1
  <1>7. \A i \in 0..(n + 1) - 1 : ring2[Cell(x + i)] \in Desc
    BY <1>3, <1>4, <1>5, <1>6
  <1>8. \A i, j \in 0..(n + 1) - 1 : ring2[Cell(x + i)] = ring2[Cell(x + j)] => i = j
    BY <1>3, <1>4, <1>5, <1>6, <1>w
  <1>9. WindowOk(ring2, x, Succ(y))
    BY <1>1, <1>2, <1>7, <1>8, WindowIs
  <1>10. \A g : g \in Entries(ring2, x, Succ(y)) <=> g \in Entries(ring, x, y) \/ g = h
    <2>1. \A g : g \in Entries(ring2, x, Succ(y)) <=>
                    \E i \in 0..(n + 1) - 1 : g = ring2[Cell(x + i)]
      BY <1>2, WindowIs
    <2>2. \A g : g \in Entries(ring, x, y) <=> \E i \in 0..n - 1 : g = ring[Cell(x + i)]
      BY WindowIs DEF n
    <2> QED
      BY <1>3, <1>4, <1>6, <2>1, <2>2
  <1> QED
    BY <1>9, <1>10

\* The consumer takes the first entry of the window.
LEMMA Pop ==
    ASSUME NEW ring, NEW ring2, NEW x \in Index, NEW y \in Index,
           WindowOk(ring, x, y), x # y,
           \A s \in Desc : s # Cell(x) => ring2[s] = ring[s]
    PROVE  /\ WindowOk(ring2, Succ(x), y)
           /\ ring[Cell(x)] \in Entries(ring, x, y)
           /\ Entries(ring2, Succ(x), y) = Entries(ring, x, y) \ {ring[Cell(x)]}
           /\ Cell(y) # Cell(x)
  <1> DEFINE n == Dist(x, y)
  <1>1. n \in Nat /\ n # 0 /\ n < NUM /\ NUM \in Int /\ x \in Int
    BY DistIs, Sizes, WindowIs
  <1>2. Dist(Succ(x), y) = n - 1
    BY DistSucc
  <1>w. /\ \A i \in 0..n - 1 : ring[Cell(x + i)] \in Desc
        /\ \A i, j \in 0..n - 1 : ring[Cell(x + i)] = ring[Cell(x + j)] => i = j
    BY WindowIs
  <1>e. \A g : g \in Entries(ring, x, y) <=> \E i \in 0..n - 1 : g = ring[Cell(x + i)]
    BY WindowIs
  <1>a. \A i \in 0..n - 1 : /\ Cell(x + i) \in Desc /\ Cell(x + i) # Cell(y)
                            /\ i # 0 => Cell(x + i) # Cell(x)
    BY <1>1, WindowApart
  <1> HIDE DEF n
  <1>3. 0 \in 0..n - 1 /\ x + 0 = x
    BY <1>1
  <1>4. \A i \in 0..(n - 1) - 1 : i + 1 \in 0..n - 1 /\ i + 1 # 0 /\ i \in Nat
    BY <1>1
  <1>5. \A i \in 0..(n - 1) - 1 : ring2[Cell(Succ(x) + i)] = ring[Cell(x + (i + 1))]
    BY <1>4, <1>a, CellSucc
  <1>6. /\ \A i \in 0..(n - 1) - 1 : ring2[Cell(Succ(x) + i)] \in Desc
        /\ \A i, j \in 0..(n - 1) - 1 :
             ring2[Cell(Succ(x) + i)] = ring2[Cell(Succ(x) + j)] => i = j
    <2>1. \A i \in 0..(n - 1) - 1 : ring2[Cell(Succ(x) + i)] \in Desc
      BY <1>4, <1>5, <1>w
    <2>2. \A i, j \in 0..(n - 1) - 1 :
             ring2[Cell(Succ(x) + i)] = ring2[Cell(Succ(x) + j)] => i + 1 = j + 1
      BY <1>4, <1>5, <1>w
    <2> QED
      BY <1>1, <2>1, <2>2
  <1>7. WindowOk(ring2, Succ(x), y)
    BY <1>1, <1>2, <1>6, WindowIs
  <1>8. ring[Cell(x)] \in Entries(ring, x, y) /\ Cell(y) # Cell(x)
    BY <1>3, <1>a, <1>e
  <1>9. \A g : g \in Entries(ring2, Succ(x), y) <=>
                  \E i \in 0..(n - 1) - 1 : g = ring[Cell(x + (i + 1))]
    BY <1>2, <1>5, WindowIs
  <1>10. \A g : g \in Entries(ring2, Succ(x), y) =>
                  g \in Entries(ring, x, y) /\ g # ring[Cell(x)]
    BY <1>3, <1>4, <1>9, <1>e, <1>w
  <1>11. ASSUME NEW g \in Entries(ring, x, y), g # ring[Cell(x)]
         PROVE  g \in Entries(ring2, Succ(x), y)
    <2>1. PICK i \in 0..n - 1 : g = ring[Cell(x + i)]
      BY <1>e
    <2>2. i # 0
      BY <1>3, <1>11, <2>1
    <2>3. i - 1 \in 0..(n - 1) - 1 /\ (i - 1) + 1 = i
      BY <1>1, <2>1, <2>2
    <2> QED
      BY <1>9, <2>1, <2>3
  <1> QED
    BY <1>7, <1>8, <1>10, <1>11

LEMMA DescFinite == IsFiniteSet(Desc) /\ Cardinality(Desc) = NUM
  <1>1. 0 \in Int /\ NUM - 1 \in Int /\ ~(0 > NUM - 1) /\ (NUM - 1) - 0 + 1 = NUM
    BY Sizes
  <1> QED
    BY <1>1, FS_Interval DEF Desc

\* A window that lacks two descriptors has room for one more.
LEMMA WindowRoom ==
    ASSUME NEW ring, NEW x \in Index, NEW y \in Index, WindowOk(ring, x, y),
           NEW g \in Desc, NEW h \in Desc, g # h,
           g \notin Entries(ring, x, y), h \notin Entries(ring, x, y)
    PROVE  Dist(x, y) + 1 < NUM
  <1> DEFINE n == Dist(x, y)
             S == 0..n - 1
             T == (Desc \ {g}) \ {h}
             f == [i \in S |-> ring[Cell(x + i)]]
  <1>1. n \in Nat
    BY DistIs
  <1>2. IsFiniteSet(S) /\ Cardinality(S) = n
    <2>1. 0 \in Int /\ n - 1 \in Int /\ (0 > n - 1 <=> n = 0) /\ (n - 1) - 0 + 1 = n
      BY <1>1
    <2> QED
      BY <2>1, FS_Interval
  <1>3. IsFiniteSet(T) /\ Cardinality(T) = NUM - 2
    <2>1. IsFiniteSet(Desc \ {g}) /\ Cardinality(Desc \ {g}) = NUM - 1
      BY DescFinite, FS_RemoveElement
    <2>2. h \in Desc \ {g}
      OBVIOUS
    <2> QED
      BY <2>1, <2>2, FS_RemoveElement, Sizes
  <1>4. f \in [S -> T]
    <2>1. \A i \in S : ring[Cell(x + i)] \in Desc
      BY WindowIs
    <2>2. \A i \in S : ring[Cell(x + i)] # g /\ ring[Cell(x + i)] # h
      BY WindowIs
    <2> QED
      BY <2>1, <2>2
  <1>5. \A i, j \in S : f[i] = f[j] => i = j
    BY WindowIs
  <1> HIDE DEF S, T, f, n
  <1>6. f \in Injection(S, T)
    BY <1>4, <1>5 DEF Injection, IsInjective
  <1>7. Cardinality(S) <= Cardinality(T)
    BY <1>2, <1>3, <1>6, FS_Injection
  <1> QED
    BY <1>1, <1>2, <1>3, <1>7, Sizes DEF n

----------------------------------------------------------------------------
(* Facts about states. *)

LEMMA Names ==
    /\ NoProc \notin Procs /\ Handler \notin Procs /\ NoProc # Handler
    /\ NoBlock \notin Blocks
  BY VirtioAssumption

LEMMA Indices ==
    ASSUME TypeOK
    PROVE  avail_idx \in Index /\ used_ring_idx \in Index /\ used_idx \in Index
           /\ dev_idx \in Index
  BY DEF TypeOK, Index

LEMMA ActiveFacts ==
    ASSUME TypeOK, NEW p \in Active
    PROVE  /\ p \in Procs /\ pc[p] \in Submitted
           /\ idx[p] \in Desc /\ Second(p) \in Desc /\ Third(p) \in Desc
           /\ ChainOf(p) = {idx[p], Second(p), Third(p)} /\ ChainOf(p) \subseteq Desc
  <1>1. p \in Procs /\ pc[p] \in Submitted /\ idx[p] \in Desc
    BY DEF TypeOK, Active
  <1>2. \A d \in Desc : desc[d].next \in Desc
    BY DEF TypeOK
  <1> QED
    BY <1>1, <1>2 DEF Second, Third, ChainOf

\* The head of a request names the process, which is in its call.
LEMMA HeadFacts ==
    ASSUME VirtioInv, NEW h, InFlight(h)
    PROVE  /\ info_b[h] \in Active /\ idx[info_b[h]] = h /\ h \in Desc
           /\ h \in ChainOf(info_b[h]) /\ h \notin free
           /\ b_disk[info_b[h]] = 1 /\ pc[info_b[h]] # "publish"
  <1>1. /\ info_b[h] \in Active /\ idx[info_b[h]] = h /\ h \in Desc
        /\ b_disk[info_b[h]] = 1 /\ pc[info_b[h]] # "publish"
    BY Names DEF VirtioInv, OwnInv, InFlight
  <1>2. h \in ChainOf(info_b[h])
    BY <1>1 DEF ChainOf
  <1> QED
    BY <1>1, <1>2 DEF VirtioInv, OwnInv

\* In a chain only the head is the head of a request.
LEMMA OneHead ==
    ASSUME VirtioInv, NEW p \in Active, NEW h \in ChainOf(p), InFlight(h)
    PROVE  h = idx[p] /\ info_b[h] = p
  <1>1. info_b[h] \in Active /\ idx[info_b[h]] = h /\ h \in ChainOf(info_b[h])
    BY HeadFacts
  <1>2. info_b[h] = p
    BY <1>1 DEF VirtioInv, OwnInv
  <1> QED
    BY <1>1, <1>2

\* A chain whose descriptors do not change.
LEMMA ChainSame ==
    ASSUME NEW p, idx'[p] = idx[p],
           desc'[idx[p]] = desc[idx[p]], desc'[Second(p)] = desc[Second(p)]
    PROVE  Second(p)' = Second(p) /\ Third(p)' = Third(p) /\ ChainOf(p)' = ChainOf(p)
  <1>1. Second(p)' = Second(p)
    BY DEF Second
  <1>2. Third(p)' = Third(p)
    BY <1>1 DEF Third
  <1> QED
    BY <1>1, <1>2 DEF ChainOf, Second

\* What keeps each part of the invariant.
LEMMA CallKept ==
    ASSUME CallInv, UNCHANGED <<blk, wr, data>>,
           \A q \in Procs : pc'[q] = "idle" <=> pc[q] = "idle"
    PROVE  CallInv'
  BY DEF CallInv

LEMMA ChainKept ==
    ASSUME ChainInv, Active' = Active, UNCHANGED <<idx, desc, info_b>>,
           \A q \in Active : wr'[q] = wr[q] /\ blk'[q] = blk[q]
    PROVE  ChainInv'
  <1>1. \A q : Second(q)' = Second(q) /\ Third(q)' = Third(q)
    BY DEF Second, Third
  <1>2. \A q \in Active : ChainOk(q)' <=> ChainOk(q)
    BY <1>1 DEF ChainOk
  <1> QED
    BY <1>2 DEF ChainInv

LEMMA OwnKept ==
    ASSUME OwnInv, Active' = Active, UNCHANGED <<idx, desc, free, info_b>>
    PROVE  OwnInv'
  <1>1. \A q : ChainOf(q)' = ChainOf(q)
    BY DEF ChainOf
  <1> QED
    BY <1>1 DEF OwnInv

LEMMA RingsKept ==
    ASSUME RingsInv, UNCHANGED <<avail, used, dev_idx, used_idx>>
    PROVE  RingsInv' /\ AvailSet' = AvailSet /\ UsedSet' = UsedSet
  BY DEF RingsInv, WindowOk, AvailSet, UsedSet, Entries, avail, used

LEMMA PlaceKept ==
    ASSUME PlaceInv, RingsInv, Active' = Active,
           UNCHANGED <<avail, used, dev_idx, used_idx, taken, status, info_b, b_disk, idx>>,
           \A q \in Procs : pc'[q] = "publish" <=> pc[q] = "publish",
           \A q \in Procs : pc'[q] \in {"notify", "wait_sleep"} => b_disk[q] = 1
    PROVE  PlaceInv'
  <1>1. AvailSet' = AvailSet /\ UsedSet' = UsedSet
    BY RingsKept
  <1>2. \A h : InFlight(h)' <=> InFlight(h)
    BY DEF InFlight
  <1>3. avail_ring' = avail_ring /\ avail_idx' = avail_idx
    BY DEF avail
  <1>4. \A p \in Active : p \in Procs
    BY DEF Active
  <1> QED
    BY <1>1, <1>2, <1>3, <1>4 DEF PlaceInv

----------------------------------------------------------------------------
(* Steps that only move processes: no descriptors, back to sleep, killed. *)

LEMMA MoveStep ==
    ASSUME VirtioInv, TypeOK',
           UNCHANGED <<memory, avail, used, vdisk_lock, driver, calls, panicked, device>>,
           \A q \in Procs :
                /\ pc'[q] \in {"publish", "notify", "idle"} \/ pc[q] \in {"publish", "notify", "idle"}
                     => pc'[q] = pc[q]
                /\ pc'[q] \in Submitted <=> pc[q] \in Submitted
                /\ pc'[q] = "wait_sleep" => b_disk[q] = 1,
           RwSleeperWaits'
    PROVE  VirtioInv'
  <1>i. /\ TypeOK /\ panicked = 0 /\ LockInv /\ CallInv /\ ChainInv /\ OwnInv
        /\ RingsInv /\ PlaceInv /\ RequestsAnnounced /\ CompletionAnnounced
    BY DEF VirtioInv
  <1>u. /\ UNCHANGED <<desc, status, data, avail, used, vdisk_lock, free, info_b, used_idx,
                       b_disk, intr, blk, wr, idx, panicked, sectors, dev_idx, kicked,
                       taken, isr>>
        /\ UNCHANGED <<avail_idx, used_ring_idx>>
    BY DEF memory, driver, calls, device, avail, used
  <1>1. Active' = Active
    BY DEF Active
  <1>2. LockInv'
    BY <1>i, <1>u DEF LockInv
  <1>3. CallInv'
    BY <1>i, <1>u, CallKept
  <1>4. ChainInv' /\ OwnInv' /\ RingsInv'
    BY <1>i, <1>u, <1>1, ChainKept, OwnKept, RingsKept
  <1>5. PlaceInv'
    <2>1. \A q \in Procs : pc'[q] \in {"notify", "wait_sleep"} => b_disk[q] = 1
      BY <1>i DEF PlaceInv
    <2> QED
      BY <1>i, <1>u, <1>1, <2>1, PlaceKept
  <1>6. RequestsAnnounced' /\ CompletionAnnounced'
    BY <1>i, <1>u DEF RequestsAnnounced, CompletionAnnounced
  <1> QED
    BY <1>i, <1>u, <1>2, <1>3, <1>4, <1>5, <1>6 DEF VirtioInv

LEMMA NoDescriptorsStep ==
    ASSUME VirtioInv, TypeOK', NEW p \in Procs, NoDescriptors(p)
    PROVE  VirtioInv'
  <1>t. pc \in [Procs -> PC]
    BY DEF VirtioInv, TypeOK
  <1>1. /\ pc[p] = "rw" /\ Cardinality(free) < 3
        /\ UNCHANGED <<memory, avail, used, vdisk_lock, driver, calls, panicked, device>>
        /\ UNCHANGED free
    BY DEF NoDescriptors, driver
  <1>2. \A q \in Procs : pc'[q] = IF q = p THEN "rw_sleep"
                                  ELSE IF free # {} /\ pc[q] = "rw_sleep" THEN "rw" ELSE pc[q]
    <2>1. CASE free = {}
      BY <1>t, <2>1 DEF NoDescriptors
    <2>2. CASE free # {}
      BY <1>t, <2>2 DEF NoDescriptors, WakeRw
    <2> QED
      BY <2>1, <2>2
  <1>3. \A q \in Procs :
                /\ pc'[q] \in {"publish", "notify", "idle"} \/ pc[q] \in {"publish", "notify", "idle"}
                     => pc'[q] = pc[q]
                /\ pc'[q] \in Submitted <=> pc[q] \in Submitted
                /\ pc'[q] = "wait_sleep" => b_disk[q] = 1
    BY <1>1, <1>2 DEF Submitted, VirtioInv, PlaceInv
  <1>4. RwSleeperWaits'
    BY <1>1 DEF RwSleeperWaits
  <1> QED
    BY <1>1, <1>3, <1>4, MoveStep

LEMMA WaitAgainStep ==
    ASSUME VirtioInv, TypeOK', NEW p \in Procs, WaitAgain(p) \/ Kill(p)
    PROVE  VirtioInv'
  <1>t. pc \in [Procs -> PC] /\ RwSleeperWaits
    BY DEF VirtioInv, TypeOK
  <1>1. /\ UNCHANGED <<memory, avail, used, vdisk_lock, driver, calls, panicked, device>>
        /\ UNCHANGED free
    BY DEF WaitAgain, Kill, driver
  <1>2. /\ \A q \in Procs : q # p => pc'[q] = pc[q]
        /\ \/ pc[p] = "wait" /\ pc'[p] = "wait_sleep" /\ b_disk[p] = 1
           \/ pc[p] = "rw_sleep" /\ pc'[p] = "rw"
           \/ pc[p] = "wait_sleep" /\ pc'[p] = "wait"
    BY <1>t DEF WaitAgain, Kill
  <1>3. \A q \in Procs :
                /\ pc'[q] \in {"publish", "notify", "idle"} \/ pc[q] \in {"publish", "notify", "idle"}
                     => pc'[q] = pc[q]
                /\ pc'[q] \in Submitted <=> pc[q] \in Submitted
                /\ pc'[q] = "wait_sleep" => b_disk[q] = 1
    BY <1>1, <1>2 DEF Submitted, VirtioInv, PlaceInv
  <1>4. RwSleeperWaits'
    BY <1>t, <1>1, <1>2 DEF RwSleeperWaits
  <1> QED
    BY <1>1, <1>3, <1>4, MoveStep

LEMMA CallStep ==
    ASSUME VirtioInv, TypeOK', NEW p \in Procs, Call(p)
    PROVE  VirtioInv'
  <1>i. /\ TypeOK /\ panicked = 0 /\ LockInv /\ CallInv /\ ChainInv /\ OwnInv
        /\ RingsInv /\ PlaceInv /\ RequestsAnnounced /\ CompletionAnnounced /\ RwSleeperWaits
    BY DEF VirtioInv
  <1>u. /\ UNCHANGED <<desc, status, avail, used, vdisk_lock, free, info_b, used_idx,
                       b_disk, intr, idx, panicked, sectors, dev_idx, kicked,
                       taken, isr>>
        /\ UNCHANGED <<avail_idx, used_ring_idx>>
    BY DEF Call, driver, device, avail, used
  <1>0. /\ pc[p] = "idle" /\ pc'[p] = "rw"
        /\ \A q \in Procs : q # p => /\ pc'[q] = pc[q] /\ blk'[q] = blk[q]
                                     /\ wr'[q] = wr[q] /\ data'[q] = data[q]
        /\ blk'[p] \in Blocks
        /\ wr'[p] = 1 => data'[p] \in Values
    <2>1. PICK k \in Blocks, w \in {0, 1} :
            /\ blk' = [blk EXCEPT ![p] = k]
            /\ wr' = [wr EXCEPT ![p] = w]
            /\ \E v \in IF w = 1 THEN Values ELSE {NoBlock} : data' = [data EXCEPT ![p] = v]
      BY DEF Call
    <2>2. PICK v \in IF w = 1 THEN Values ELSE {NoBlock} : data' = [data EXCEPT ![p] = v]
      BY <2>1
    <2>3. pc[p] = "idle" /\ pc' = [pc EXCEPT ![p] = "rw"]
      BY DEF Call
    <2> QED
      BY <1>i, <2>1, <2>2, <2>3 DEF TypeOK
  <1>1. Active' = Active /\ \A q \in Active : q # p /\ q \in Procs
    BY <1>0 DEF Active, Submitted
  <1>2. LockInv'
    BY <1>i, <1>u, <1>0 DEF LockInv
  <1>3. CallInv'
    BY <1>i, <1>0, Names DEF CallInv
  <1>4. ChainInv' /\ OwnInv' /\ RingsInv'
    BY <1>i, <1>u, <1>0, <1>1, ChainKept, OwnKept, RingsKept
  <1>5. PlaceInv'
    <2>1. /\ \A q \in Procs : pc'[q] \in {"notify", "wait_sleep"} => b_disk[q] = 1
          /\ \A q \in Procs : pc'[q] = "publish" <=> pc[q] = "publish"
      BY <1>i, <1>0 DEF PlaceInv
    <2> QED
      BY <1>i, <1>u, <1>1, <2>1, PlaceKept
  <1>6. RequestsAnnounced' /\ CompletionAnnounced' /\ RwSleeperWaits'
    BY <1>i, <1>u, <1>0 DEF RequestsAnnounced, CompletionAnnounced, RwSleeperWaits
  <1> QED
    BY <1>i, <1>u, <1>2, <1>3, <1>4, <1>5, <1>6 DEF VirtioInv

----------------------------------------------------------------------------
(* alloc3_desc() and the chain of a new request. *)

LEMMA Smallest ==
    ASSUME NEW S \in SUBSET Nat, S # {}
    PROVE  \E x \in S : \A y \in S : x <= y
  <1> DEFINE R == OpToRel(<, Nat)
  <1>1. IsWellFoundedOn(R, Nat)
    BY NatLessThanWellFounded
  <1>2. \A x, y \in Nat : y < x => <<y, x>> \in R
    BY DEF OpToRel
  <1> HIDE DEF R
  <1>3. PICK x \in S : \A y \in S : ~(<<y, x>> \in R)
    BY <1>1, WFMin
  <1>4. \A y \in S : x \in Nat /\ y \in Nat /\ ~(y < x)
    BY <1>2, <1>3
  <1>5. \A y \in S : x <= y
    BY <1>4
  <1> QED
    BY <1>5

LEMMA AllocFacts ==
    ASSUME NEW S \in SUBSET Desc, S # {}
    PROVE  alloc_desc(S) \in S
  <1>1. S \in SUBSET Nat
    BY DEF Desc
  <1>2. \E x \in S : \A y \in S : x <= y
    BY <1>1, Smallest
  <1> QED
    BY <1>2 DEF alloc_desc

\* With three free descriptors, alloc3_desc() finds three different ones.
LEMMA Alloc3 ==
    ASSUME TypeOK, Cardinality(free) >= 3
    PROVE  LET d0 == alloc_desc(free)
               d1 == alloc_desc(free \ {d0})
               d2 == alloc_desc(free \ {d0, d1})
           IN  /\ d0 \in free /\ d1 \in free /\ d2 \in free
               /\ d0 # d1 /\ d0 # d2 /\ d1 # d2
  <1> DEFINE d0 == alloc_desc(free)
             d1 == alloc_desc(free \ {d0})
             d2 == alloc_desc(free \ {d0, d1})
  <1>1. free \in SUBSET Desc /\ IsFiniteSet(free) /\ Cardinality(free) \in Nat
    BY DescFinite, FS_Subset, FS_CardinalityType DEF TypeOK
  <1>2. d0 \in free
    <2>1. free # {}
      BY <1>1, FS_EmptySet
    <2> QED
      BY <1>1, <2>1, AllocFacts
  <1> HIDE DEF d0
  <1>3. IsFiniteSet(free \ {d0}) /\ Cardinality(free \ {d0}) = Cardinality(free) - 1
    BY <1>1, <1>2, FS_RemoveElement
  <1>4. d1 \in free \ {d0}
    <2>1. free \ {d0} # {}
      BY <1>1, <1>3, FS_EmptySet
    <2> QED
      BY <1>1, <2>1, AllocFacts
  <1> HIDE DEF d1
  <1>5. Cardinality((free \ {d0}) \ {d1}) # 0 /\ IsFiniteSet((free \ {d0}) \ {d1})
    <2>1. /\ IsFiniteSet((free \ {d0}) \ {d1})
          /\ Cardinality((free \ {d0}) \ {d1}) = Cardinality(free \ {d0}) - 1
      BY <1>3, <1>4, FS_RemoveElement
    <2> QED
      BY <1>1, <1>3, <2>1
  <1>6. (free \ {d0}) \ {d1} = free \ {d0, d1}
    OBVIOUS
  <1>7. d2 \in free \ {d0, d1}
    <2>1. free \ {d0, d1} # {}
      BY <1>1, <1>5, <1>6, FS_EmptySet
    <2> QED
      BY <1>1, <2>1, AllocFacts
  <1> HIDE DEF d2
  <1>8. d0 \in free /\ d1 \in free /\ d2 \in free /\ d0 # d1 /\ d0 # d2 /\ d1 # d2
    BY <1>2, <1>4, <1>7
  <1> QED
    BY <1>8 DEF d0, d1, d2

HeadOf(p, d1) ==
    [addr |-> [kind |-> "op", of |-> [type |-> IF wr[p] = 1 THEN "OUT" ELSE "IN",
                                      sector |-> blk[p]]],
     flags |-> {"NEXT"}, next |-> d1]
BodyOf(p, d2) ==
    [addr |-> [kind |-> "data", of |-> p],
     flags |-> {"NEXT"} \union IF wr[p] = 1 THEN {} ELSE {"WRITE"}, next |-> d2]
TailOf(d0) == [addr |-> [kind |-> "status", of |-> d0], flags |-> {"WRITE"}, next |-> 0]

\* Submit(p) with the descriptors d0, d1 and d2.
Submits(p, d0, d1, d2) ==
    /\ d0 \in free /\ d1 \in free /\ d2 \in free
    /\ d0 # d1 /\ d0 # d2 /\ d1 # d2
    /\ free' = free \ {d0, d1, d2}
    /\ idx'[p] = d0 /\ \A q \in Procs : q # p => idx'[q] = idx[q]
    /\ desc'[d0] = HeadOf(p, d1) /\ desc'[d1] = BodyOf(p, d2) /\ desc'[d2] = TailOf(d0)
    /\ \A d \in Desc : d \notin {d0, d1, d2} => desc'[d] = desc[d]
    /\ status'[d0] = 255 /\ \A d \in Desc : d # d0 => status'[d] = status[d]
    /\ b_disk'[p] = 1 /\ \A q \in Procs : q # p => b_disk'[q] = b_disk[q]
    /\ info_b'[d0] = p /\ \A d \in Desc : d # d0 => info_b'[d] = info_b[d]
    /\ avail_ring'[Cell(avail_idx)] = d0
    /\ \A d \in Desc : d # Cell(avail_idx) => avail_ring'[d] = avail_ring[d]
    /\ pc[p] = "rw" /\ pc'[p] = "publish" /\ \A q \in Procs : q # p => pc'[q] = pc[q]
    /\ vdisk_lock = NoProc /\ vdisk_lock' = p
    /\ Cardinality(free) >= 3
    /\ UNCHANGED <<data, avail_idx, used_ring, used_ring_idx, used_idx, intr, blk, wr,
                   panicked, sectors, dev_idx, kicked, taken, isr>>

LEMMA SubmitFacts ==
    ASSUME TypeOK, CallInv, NEW p \in Procs, Submit(p)
    PROVE  /\ \E d0, d1, d2 \in Desc : Submits(p, d0, d1, d2)
           /\ TypeOK'
  <1> DEFINE d0 == alloc_desc(free)
             d1 == alloc_desc(free \ {d0})
             d2 == alloc_desc(free \ {d0, d1})
  <1>0. Cardinality(free) >= 3 /\ pc[p] = "rw" /\ vdisk_lock = NoProc
    BY DEF Submit
  <1>1. /\ d0 \in free /\ d1 \in free /\ d2 \in free
        /\ d0 # d1 /\ d0 # d2 /\ d1 # d2
    BY <1>0, Alloc3
  <1>2. /\ vdisk_lock' = p
        /\ free' = free \ {d0, d1, d2}
        /\ idx' = [idx EXCEPT ![p] = d0]
        /\ desc' = [desc EXCEPT ![d0] = HeadOf(p, d1), ![d1] = BodyOf(p, d2), ![d2] = TailOf(d0)]
        /\ status' = [status EXCEPT ![d0] = 255]
        /\ b_disk' = [b_disk EXCEPT ![p] = 1]
        /\ info_b' = [info_b EXCEPT ![d0] = p]
        /\ avail_ring' = [avail_ring EXCEPT ![Cell(avail_idx)] = d0]
        /\ pc' = [pc EXCEPT ![p] = "publish"]
        /\ UNCHANGED <<data, avail_idx, used_ring, used_ring_idx, used_idx, intr, blk, wr,
                       panicked, sectors, dev_idx, kicked, taken, isr>>
    BY DEF Submit, HeadOf, BodyOf, TailOf, Cell, used, device
  <1> HIDE DEF d0, d1, d2
  <1>3. d0 \in Desc /\ d1 \in Desc /\ d2 \in Desc /\ Cell(avail_idx) \in Desc
    <2>1. avail_idx \in Int
      BY Indices, Sizes DEF Index
    <2> QED
      BY <1>1, <2>1, CellType DEF TypeOK
  <1>t. /\ desc \in [Desc -> [addr : Addr, flags : SUBSET {"NEXT", "WRITE"}, next : Desc]]
        /\ status \in [Desc -> {0, 255}]
        /\ avail_ring \in [Desc -> Desc \union {Consumed}]
        /\ info_b \in [Desc -> Procs \union {NoProc}]
        /\ b_disk \in [Procs -> {0, 1}]
        /\ pc \in [Procs -> PC] /\ idx \in [Procs -> Desc] /\ free \subseteq Desc
    BY DEF TypeOK
  <1>4. /\ desc'[d0] = HeadOf(p, d1) /\ desc'[d1] = BodyOf(p, d2) /\ desc'[d2] = TailOf(d0)
        /\ \A d \in Desc : d \notin {d0, d1, d2} => desc'[d] = desc[d]
    <2>1. DOMAIN desc = Desc
      BY <1>t
    <2> QED
      BY <1>1, <1>2, <1>3, <2>1
  <1>5. Submits(p, d0, d1, d2)
    BY <1>0, <1>1, <1>2, <1>3, <1>4, <1>t DEF Submits
  <1>6. TypeOK'
    <2>1. /\ HeadOf(p, d1) \in [addr : Addr, flags : SUBSET {"NEXT", "WRITE"}, next : Desc]
          /\ BodyOf(p, d2) \in [addr : Addr, flags : SUBSET {"NEXT", "WRITE"}, next : Desc]
          /\ TailOf(d0) \in [addr : Addr, flags : SUBSET {"NEXT", "WRITE"}, next : Desc]
      <3>1. blk[p] \in Blocks
        BY <1>0 DEF TypeOK, CallInv
      <3> QED
        BY <1>3, <3>1, Sizes DEF HeadOf, BodyOf, TailOf, Addr, Header, Desc
    <2>2. desc' \in [Desc -> [addr : Addr, flags : SUBSET {"NEXT", "WRITE"}, next : Desc]]
      BY <1>2, <1>t, <2>1
    <2>3. /\ status' \in [Desc -> {0, 255}]
          /\ avail_ring' \in [Desc -> Desc \union {Consumed}]
          /\ info_b' \in [Desc -> Procs \union {NoProc}]
          /\ b_disk' \in [Procs -> {0, 1}]
          /\ pc' \in [Procs -> PC] /\ idx' \in [Procs -> Desc] /\ free' \subseteq Desc
          /\ vdisk_lock' \in Procs \union {NoProc, Handler}
      BY <1>2, <1>3, <1>t DEF PC
    <2> QED
      BY <1>2, <2>2, <2>3 DEF TypeOK
  <1> QED
    BY <1>3, <1>5, <1>6

LEMMA SubmitStep ==
    ASSUME VirtioInv, TypeOK', NEW p \in Procs, Submit(p)
    PROVE  VirtioInv'
  <1>i. /\ TypeOK /\ panicked = 0 /\ LockInv /\ CallInv /\ ChainInv /\ OwnInv
        /\ RingsInv /\ PlaceInv /\ RequestsAnnounced /\ CompletionAnnounced /\ RwSleeperWaits
    BY DEF VirtioInv
  <1>0. PICK d0, d1, d2 \in Desc : Submits(p, d0, d1, d2)
    BY <1>i, SubmitFacts
  <1>p. /\ pc[p] = "rw" /\ pc'[p] = "publish"
        /\ \A q \in Procs : q # p => pc'[q] = pc[q] /\ idx'[q] = idx[q] /\ b_disk'[q] = b_disk[q]
        /\ idx'[p] = d0 /\ b_disk'[p] = 1 /\ info_b'[d0] = p /\ status'[d0] = 255
        /\ \A d \in Desc : d # d0 => info_b'[d] = info_b[d] /\ status'[d] = status[d]
        /\ UNCHANGED <<blk, wr, taken>>
        /\ free' = free \ {d0, d1, d2}
        /\ d0 # d1 /\ d0 # d2 /\ d1 # d2
    BY <1>0 DEF Submits
  <1>d. /\ desc'[d0] = HeadOf(p, d1) /\ desc'[d1] = BodyOf(p, d2) /\ desc'[d2] = TailOf(d0)
        /\ \A d \in Desc : d \notin {d0, d1, d2} => desc'[d] = desc[d]
    BY <1>0 DEF Submits
  <1>a. p \notin Active /\ Active' = Active \union {p} /\ \A q \in Active : q # p /\ q \in Procs
    BY <1>p DEF Active, Submitted
  <1>f. \A q \in Active : d0 \notin ChainOf(q) /\ d1 \notin ChainOf(q) /\ d2 \notin ChainOf(q)
    BY <1>0, <1>i DEF OwnInv, Submits
  <1>n. Second(p)' = d1 /\ Third(p)' = d2 /\ ChainOf(p)' = {d0, d1, d2}
    BY <1>p, <1>d DEF Second, Third, ChainOf, HeadOf, BodyOf
  <1>o. ASSUME NEW q \in Active
        PROVE  /\ Second(q)' = Second(q) /\ Third(q)' = Third(q) /\ ChainOf(q)' = ChainOf(q)
               /\ desc'[idx[q]] = desc[idx[q]] /\ desc'[Second(q)] = desc[Second(q)]
               /\ desc'[Third(q)] = desc[Third(q)]
               /\ idx'[q] = idx[q] /\ idx[q] # d0
               /\ info_b'[idx[q]] = info_b[idx[q]] /\ status'[idx[q]] = status[idx[q]]
    <2>1. /\ idx[q] \in Desc /\ Second(q) \in Desc /\ Third(q) \in Desc
          /\ ChainOf(q) = {idx[q], Second(q), Third(q)}
      BY <1>i, ActiveFacts
    <2>2. /\ desc'[idx[q]] = desc[idx[q]] /\ desc'[Second(q)] = desc[Second(q)]
          /\ desc'[Third(q)] = desc[Third(q)] /\ idx[q] # d0
      BY <1>d, <1>f, <2>1
    <2>3. idx'[q] = idx[q]
      BY <1>p, <1>a
    <2> QED
      BY <1>p, <2>1, <2>2, <2>3, ChainSame
  <1>1. LockInv'
    <2>1. vdisk_lock = NoProc /\ vdisk_lock' = p /\ UNCHANGED intr
      BY <1>0 DEF Submits
    <2> QED
      BY <1>i, <1>p, <2>1, Names DEF LockInv
  <1>2. CallInv'
    <2>1. UNCHANGED <<blk, wr, data>>
      BY <1>0 DEF Submits
    <2> QED
      BY <1>i, <1>p, <2>1, CallKept
  <1>3. ChainInv'
    <2>1. ASSUME NEW q \in Active PROVE ChainOk(q)'
      <3>1. ChainOk(q)
        BY <1>i DEF ChainInv
      <3>2. wr'[q] = wr[q] /\ blk'[q] = blk[q]
        BY <1>p
      <3> QED
        BY <3>1, <3>2, <1>o DEF ChainOk
    <2>2. ChainOk(p)'
      BY <1>p, <1>d, <1>n DEF ChainOk, HeadOf, BodyOf, TailOf
    <2> QED
      BY <1>a, <2>1, <2>2 DEF ChainInv
  <1>4. OwnInv'
    <2>1. \A q, r \in Active' : \A d \in ChainOf(q)' : d \in ChainOf(r)' => q = r
      BY <1>i, <1>a, <1>f, <1>n, <1>o DEF OwnInv
    <2>2. \A d \in Desc : d \in free' <=> \A q \in Active' : d \notin ChainOf(q)'
      BY <1>i, <1>p, <1>a, <1>n, <1>o DEF OwnInv
    <2>3. \A d \in Desc : info_b'[d] # NoProc => info_b'[d] \in Active' /\ idx'[info_b'[d]] = d
      BY <1>i, <1>p, <1>a, <1>o DEF OwnInv
    <2> QED
      BY <2>1, <2>2, <2>3 DEF OwnInv
  <1>r. avail_idx \in Index /\ dev_idx \in Index
    BY <1>i, Indices
  <1>s. /\ UNCHANGED <<used, used_idx, dev_idx, avail_idx>>
        /\ avail_ring'[Cell(avail_idx)] = d0
        /\ \A d \in Desc : d # Cell(avail_idx) => avail_ring'[d] = avail_ring[d]
    BY <1>0 DEF Submits, used
  <1>5. RingsInv' /\ AvailSet' = AvailSet /\ UsedSet' = UsedSet
    <2>1. /\ WindowOk(avail_ring', dev_idx, avail_idx)
          /\ Entries(avail_ring', dev_idx, avail_idx) = Entries(avail_ring, dev_idx, avail_idx)
      BY <1>i, <1>r, <1>s, WritePast DEF RingsInv
    <2>2. AvailSet' = AvailSet
      BY <1>s, <2>1 DEF AvailSet, Entries
    <2>3. UsedSet' = UsedSet
      BY <1>s DEF UsedSet, Entries, used
    <2> QED
      BY <1>i, <1>s, <2>1, <2>2, <2>3 DEF RingsInv, WindowOk, used
  <1>6. PlaceInv'
    <2>1. ASSUME NEW h, InFlight(h)
          PROVE  InFlight(h)' /\ status'[h] = status[h]
      <3>1. info_b[h] \in Active /\ idx[info_b[h]] = h /\ h \in Desc
        BY <2>1, HeadFacts
      <3>2. h # d0 /\ info_b[h] # p /\ info_b[h] \in Procs
        BY <1>a, <1>o, <3>1
      <3> QED
        BY <1>p, <2>1, <3>1, <3>2 DEF InFlight
    <2>2. /\ \A h \in AvailSet \union taken : InFlight(h) /\ status[h] = 255
          /\ \A h \in UsedSet : InFlight(h) /\ status[h] = 0
          /\ AvailSet \intersect taken = {}
      BY <1>i DEF PlaceInv
    <2>3. /\ \A h \in AvailSet' \union taken' : InFlight(h)' /\ status'[h] = 255
          /\ \A h \in UsedSet' : InFlight(h)' /\ status'[h] = 0
          /\ AvailSet' \intersect taken' = {}
      BY <1>p, <1>5, <2>1, <2>2
    <2>4. \A q \in Active' : b_disk'[q] = 0 => status'[idx'[q]] = 0
      BY <1>i, <1>p, <1>a, <1>o DEF PlaceInv
    <2>5. \A q \in Active' : pc'[q] = "publish" =>
            b_disk'[q] = 1 /\ status'[idx'[q]] = 255 /\ avail_ring'[Cell(avail_idx')] = idx'[q]
      <3>1. \A q \in Active : pc[q] # "publish"
        <4>1. vdisk_lock = NoProc
          BY <1>0 DEF Submits
        <4> QED
          BY <1>i, <1>a, <4>1, Names DEF LockInv
      <3> QED
        BY <1>p, <1>a, <1>s, <3>1
    <2>6. \A q \in Active' : b_disk'[q] = 1 /\ pc'[q] # "publish" =>
            idx'[q] \in AvailSet' \union taken' \union UsedSet'
      <3>1. \A q \in Active : b_disk[q] = 1 /\ pc[q] # "publish" =>
              idx[q] \in AvailSet \union taken \union UsedSet
        BY <1>i DEF PlaceInv
      <3> QED
        BY <1>p, <1>a, <1>5, <3>1
    <2>7. \A q \in Procs : pc'[q] \in {"notify", "wait_sleep"} => b_disk'[q] = 1
      BY <1>i, <1>p DEF PlaceInv
    <2> QED
      BY <2>3, <2>4, <2>5, <2>6, <2>7 DEF PlaceInv, Cell
  <1>7. RwSleeperWaits' /\ RequestsAnnounced' /\ CompletionAnnounced' /\ panicked' = 0
    <2>1. /\ Cardinality(free) >= 3 /\ vdisk_lock = NoProc
          /\ UNCHANGED <<used_idx, used_ring_idx, isr, intr, dev_idx, avail_idx, kicked, panicked>>
      BY <1>0 DEF Submits
    <2>2. Cardinality(free) \in Nat
      BY <1>i, DescFinite, FS_Subset, FS_CardinalityType DEF TypeOK
    <2>3. \A q \in Procs : pc[q] # "rw_sleep"
      BY <1>i, <2>1, <2>2 DEF RwSleeperWaits
    <2>4. \A q \in Procs : pc'[q] # "rw_sleep"
      BY <1>p, <2>3
    <2>5. RequestsAnnounced'
      BY <1>i, <1>p, <2>1 DEF RequestsAnnounced
    <2> QED
      BY <1>i, <2>1, <2>4, <2>5 DEF RwSleeperWaits, CompletionAnnounced
  <1> QED
    BY <1>1, <1>2, <1>3, <1>4, <1>5, <1>6, <1>7 DEF VirtioInv

----------------------------------------------------------------------------
(* The rest of virtio_disk_rw() *)

LEMMA PublishStep ==
    ASSUME VirtioInv, TypeOK', NEW p \in Procs, Publish(p)
    PROVE  VirtioInv'
  <1>i. /\ TypeOK /\ panicked = 0 /\ LockInv /\ CallInv /\ ChainInv /\ OwnInv
        /\ RingsInv /\ PlaceInv /\ RequestsAnnounced /\ CompletionAnnounced /\ RwSleeperWaits
    BY DEF VirtioInv
  <1>u. /\ UNCHANGED <<desc, status, data, avail_ring, used, vdisk_lock, free, info_b,
                       used_idx, b_disk, intr, blk, wr, idx, panicked, sectors, dev_idx,
                       kicked, taken, isr>>
        /\ UNCHANGED used_ring_idx
    BY DEF Publish, memory, driver, calls, device, used
  <1>0. /\ pc[p] = "publish" /\ pc'[p] = "notify"
        /\ \A q \in Procs : q # p => pc'[q] = pc[q]
        /\ avail_idx' = Succ(avail_idx)
    BY <1>i DEF Publish, TypeOK, Succ
  <1>a. Active' = Active /\ p \in Active
    BY <1>0 DEF Active, Submitted
  <1>o. \A q \in Procs : q # p => pc[q] # "publish"
    BY <1>i, <1>0 DEF LockInv
  <1>1. LockInv'
    BY <1>i, <1>u, <1>0 DEF LockInv
  <1>2. CallInv'
    BY <1>i, <1>u, <1>0, CallKept
  <1>3. ChainInv' /\ OwnInv'
    BY <1>i, <1>u, <1>a, ChainKept, OwnKept
  <1>c. /\ idx[p] \in Desc /\ Second(p) \in Desc /\ idx[p] # Second(p)
        /\ idx[p] \in ChainOf(p) /\ Second(p) \in ChainOf(p) /\ info_b[idx[p]] = p
        /\ avail_ring[Cell(avail_idx)] = idx[p] /\ b_disk[p] = 1 /\ status[idx[p]] = 255
    <2>1. /\ idx[p] \in Desc /\ Second(p) \in Desc
          /\ ChainOf(p) = {idx[p], Second(p), Third(p)}
      BY <1>i, <1>a, ActiveFacts
    <2>2. idx[p] # Second(p) /\ info_b[idx[p]] = p
      BY <1>i, <1>a DEF ChainInv, ChainOk
    <2>3. avail_ring[Cell(avail_idx)] = idx[p] /\ b_disk[p] = 1 /\ status[idx[p]] = 255
      BY <1>i, <1>a, <1>0 DEF PlaceInv, Cell
    <2> QED
      BY <2>1, <2>2, <2>3
  <1>f. \A h \in AvailSet \union taken \union UsedSet : InFlight(h)
    BY <1>i DEF PlaceInv
  <1>m. /\ idx[p] \notin AvailSet \union taken \union UsedSet
        /\ Second(p) \notin AvailSet
    <2>1. ~InFlight(idx[p])
      BY <1>0, <1>c DEF InFlight
    <2>2. ~InFlight(Second(p))
      BY <1>a, <1>c, OneHead
    <2> QED
      BY <1>f, <2>1, <2>2
  <1>4. RingsInv' /\ AvailSet' = AvailSet \union {idx[p]} /\ UsedSet' = UsedSet
    <2>1. /\ avail_idx \in Index /\ dev_idx \in Index
          /\ WindowOk(avail_ring, dev_idx, avail_idx)
      BY <1>i, Indices DEF RingsInv
    <2>2. Dist(dev_idx, avail_idx) + 1 < NUM
      BY <1>c, <1>m, <2>1, WindowRoom DEF AvailSet
    <2>3. /\ WindowOk(avail_ring, dev_idx, Succ(avail_idx))
          /\ Entries(avail_ring, dev_idx, Succ(avail_idx))
               = Entries(avail_ring, dev_idx, avail_idx) \union {idx[p]}
      BY <1>c, <1>m, <2>1, <2>2, Push DEF AvailSet
    <2>4. AvailSet' = AvailSet \union {idx[p]}
      BY <1>u, <1>0, <2>3 DEF AvailSet, Entries
    <2>5. UsedSet' = UsedSet
      BY <1>u DEF UsedSet, Entries, used
    <2> QED
      BY <1>i, <1>u, <1>0, <2>3, <2>4, <2>5 DEF RingsInv, WindowOk, used
  <1>5. PlaceInv'
    <2>1. \A h : InFlight(h) => InFlight(h)'
      BY <1>u, <1>0 DEF InFlight
    <2>2. InFlight(idx[p])'
      BY <1>u, <1>0, <1>c DEF InFlight
    <2>3. /\ \A h \in AvailSet \union taken : InFlight(h) /\ status[h] = 255
          /\ \A h \in UsedSet : InFlight(h) /\ status[h] = 0
          /\ AvailSet \intersect taken = {}
      BY <1>i DEF PlaceInv
    <2>4. /\ \A h \in AvailSet' \union taken' : InFlight(h)' /\ status'[h] = 255
          /\ \A h \in UsedSet' : InFlight(h)' /\ status'[h] = 0
          /\ AvailSet' \intersect taken' = {}
      BY <1>u, <1>c, <1>m, <1>4, <2>1, <2>2, <2>3
    <2>5. \A q \in Active : b_disk[q] = 1 /\ pc[q] # "publish" =>
              idx[q] \in AvailSet \union taken \union UsedSet
      BY <1>i DEF PlaceInv
    <2>6. \A q \in Active' : b_disk'[q] = 1 /\ pc'[q] # "publish" =>
            idx'[q] \in AvailSet' \union taken' \union UsedSet'
      <3>1. \A q \in Active : q \in Procs
        BY DEF Active
      <3> QED
        BY <1>u, <1>0, <1>a, <1>4, <2>5, <3>1
    <2>7. \A q \in Active : pc'[q] # "publish" /\ q \in Procs
      BY <1>0, <1>o DEF Active
    <2> QED
      BY <1>i, <1>u, <1>0, <1>a, <1>c, <2>4, <2>6, <2>7 DEF PlaceInv
  <1>6. RwSleeperWaits' /\ RequestsAnnounced' /\ CompletionAnnounced'
    BY <1>i, <1>u, <1>0 DEF RwSleeperWaits, RequestsAnnounced, CompletionAnnounced
  <1> QED
    BY <1>i, <1>u, <1>1, <1>2, <1>3, <1>4, <1>5, <1>6 DEF VirtioInv

LEMMA NotifyStep ==
    ASSUME VirtioInv, TypeOK', NEW p \in Procs, Notify(p)
    PROVE  VirtioInv'
  <1>i. /\ TypeOK /\ panicked = 0 /\ LockInv /\ CallInv /\ ChainInv /\ OwnInv
        /\ RingsInv /\ PlaceInv /\ RequestsAnnounced /\ CompletionAnnounced /\ RwSleeperWaits
    BY DEF VirtioInv
  <1>u. /\ UNCHANGED <<desc, status, data, avail, used, free, info_b,
                       used_idx, b_disk, intr, blk, wr, idx, panicked, sectors, dev_idx,
                       taken, isr>>
        /\ UNCHANGED <<used_ring_idx, avail_idx>>
    BY DEF Notify, memory, driver, calls, used, avail
  <1>0. /\ pc[p] = "notify" /\ pc'[p] = "wait_sleep"
        /\ \A q \in Procs : q # p => pc'[q] = pc[q]
        /\ kicked' = 1 /\ vdisk_lock' = NoProc
    BY <1>i DEF Notify, TypeOK
  <1>a. Active' = Active
    BY <1>0 DEF Active, Submitted
  <1>1. LockInv'
    <2>1. vdisk_lock = p
      BY <1>i, <1>0 DEF LockInv
    <2> QED
      BY <1>i, <1>u, <1>0, <2>1, Names DEF LockInv
  <1>2. CallInv'
    BY <1>i, <1>u, <1>0, CallKept
  <1>3. ChainInv' /\ OwnInv' /\ RingsInv'
    BY <1>i, <1>u, <1>a, ChainKept, OwnKept, RingsKept
  <1>4. PlaceInv'
    <2>1. /\ \A q \in Procs : pc'[q] \in {"notify", "wait_sleep"} => b_disk[q] = 1
          /\ \A q \in Procs : pc'[q] = "publish" <=> pc[q] = "publish"
      BY <1>i, <1>0 DEF PlaceInv
    <2> QED
      BY <1>i, <1>u, <1>a, <2>1, PlaceKept
  <1>5. RwSleeperWaits' /\ RequestsAnnounced' /\ CompletionAnnounced'
    BY <1>i, <1>u, <1>0 DEF RwSleeperWaits, RequestsAnnounced, CompletionAnnounced
  <1> QED
    BY <1>i, <1>u, <1>1, <1>2, <1>3, <1>4, <1>5 DEF VirtioInv

\* free_chain() visits exactly the descriptors of the request.
LEMMA FreeChain ==
    ASSUME TypeOK, NEW p \in Active, ChainOk(p)
    PROVE  free_chain(idx[p]) = ChainOf(p)
  <1> DEFINE Closed(S) == \A d \in S : "NEXT" \in desc[d].flags => desc[d].next \in S
  <1>1. /\ idx[p] \in Desc /\ Second(p) \in Desc /\ Third(p) \in Desc
        /\ ChainOf(p) = {idx[p], Second(p), Third(p)} /\ ChainOf(p) \subseteq Desc
    BY ActiveFacts
  <1>2. /\ desc[idx[p]].next = Second(p) /\ desc[Second(p)].next = Third(p)
        /\ "NEXT" \in desc[idx[p]].flags /\ "NEXT" \in desc[Second(p)].flags
        /\ "NEXT" \notin desc[Third(p)].flags
    BY DEF ChainOk, Second, Third
  <1>3. \A d : d \in free_chain(idx[p]) <=>
            d \in Desc /\ \A S \in SUBSET Desc : idx[p] \in S /\ Closed(S) => d \in S
    BY DEF free_chain
  <1>4. Closed(ChainOf(p)) /\ idx[p] \in ChainOf(p)
    BY <1>1, <1>2
  <1>5. \A S \in SUBSET Desc : idx[p] \in S /\ Closed(S) => ChainOf(p) \subseteq S
    BY <1>1, <1>2
  <1> HIDE DEF Closed
  <1>6. \A d : d \in free_chain(idx[p]) => d \in ChainOf(p)
    BY <1>1, <1>3, <1>4
  <1>7. \A d \in ChainOf(p) : d \in free_chain(idx[p])
    BY <1>1, <1>3, <1>5
  <1> QED
    BY <1>6, <1>7

\* What Finish(p) does.
Finishes(p) ==
    /\ p \in Active /\ pc[p] = "wait" /\ vdisk_lock = NoProc /\ b_disk[p] = 0
    /\ pc'[p] = "idle"
    /\ \A q \in Procs : q # p => pc'[q] = IF pc[q] = "rw_sleep" THEN "rw" ELSE pc[q]
    /\ info_b'[idx[p]] = NoProc
    /\ \A d \in Desc : d # idx[p] => info_b'[d] = info_b[d]
    /\ \A d \in Desc : d \notin ChainOf(p) => desc'[d] = desc[d]
    /\ free' = free \union ChainOf(p)
    /\ \A q \in Procs : q # p => /\ blk'[q] = blk[q] /\ wr'[q] = wr[q]
                                 /\ data'[q] = data[q] /\ idx'[q] = idx[q]
    /\ blk'[p] = NoBlock /\ wr'[p] = 0 /\ data'[p] = NoBlock
    /\ panicked' = 0
    /\ UNCHANGED <<status, avail, used, vdisk_lock, used_idx, b_disk, intr, device>>

LEMMA FinishFacts ==
    ASSUME VirtioInv, NEW p \in Procs, Finish(p)
    PROVE  Finishes(p) /\ TypeOK'
  <1>i. TypeOK /\ panicked = 0 /\ ChainInv /\ OwnInv
    BY DEF VirtioInv
  <1>0. /\ pc[p] = "wait" /\ vdisk_lock = NoProc /\ b_disk[p] = 0 /\ p \in Active
    BY DEF Finish, Active, Submitted
  <1>1. free_chain(idx[p]) = ChainOf(p)
    BY <1>i, <1>0, FreeChain DEF ChainInv
  <1>2. ChainOf(p) \intersect free = {} /\ ChainOf(p) \subseteq Desc
    BY <1>i, <1>0, ActiveFacts DEF OwnInv
  <1>3. /\ info_b' = [info_b EXCEPT ![idx[p]] = NoProc]
        /\ panicked' = IF ChainOf(p) \intersect free # {} THEN 1 ELSE panicked
        /\ desc' = [d \in Desc |-> IF d \in ChainOf(p) THEN ClearDesc ELSE desc[d]]
        /\ free' = free \union ChainOf(p)
        /\ pc' = [WakeRw(pc) EXCEPT ![p] = "idle"]
        /\ blk' = [blk EXCEPT ![p] = NoBlock]
        /\ wr' = [wr EXCEPT ![p] = 0]
        /\ data' = [data EXCEPT ![p] = NoBlock]
        /\ idx' = [idx EXCEPT ![p] = 0]
        /\ UNCHANGED <<status, avail, used, vdisk_lock, used_idx, b_disk, intr, device>>
    BY <1>1 DEF Finish
  <1>t. /\ desc \in [Desc -> [addr : Addr, flags : SUBSET {"NEXT", "WRITE"}, next : Desc]]
        /\ info_b \in [Desc -> Procs \union {NoProc}]
        /\ pc \in [Procs -> PC] /\ idx \in [Procs -> Desc] /\ free \subseteq Desc
        /\ blk \in [Procs -> Blocks \union {NoBlock}] /\ wr \in [Procs -> {0, 1}]
        /\ data \in [Procs -> Values \union {NoBlock}]
    BY <1>i DEF TypeOK
  <1>4. pc' \in [Procs -> PC] /\ pc'[p] = "idle"
        /\ \A q \in Procs : q # p => pc'[q] = IF pc[q] = "rw_sleep" THEN "rw" ELSE pc[q]
    BY <1>3, <1>t DEF WakeRw, PC
  <1>5. Finishes(p)
    BY <1>i, <1>0, <1>2, <1>3, <1>4, <1>t DEF Finishes
  <1>6. TypeOK'
    <2>1. ClearDesc \in [addr : Addr, flags : SUBSET {"NEXT", "WRITE"}, next : Desc] /\ 0 \in Desc
      BY Sizes DEF ClearDesc, Addr, Desc
    <2>2. desc' \in [Desc -> [addr : Addr, flags : SUBSET {"NEXT", "WRITE"}, next : Desc]]
      BY <1>3, <1>t, <2>1
    <2>3. /\ info_b' \in [Desc -> Procs \union {NoProc}]
          /\ idx' \in [Procs -> Desc] /\ free' \subseteq Desc
          /\ blk' \in [Procs -> Blocks \union {NoBlock}] /\ wr' \in [Procs -> {0, 1}]
          /\ data' \in [Procs -> Values \union {NoBlock}] /\ panicked' = 0
      BY <1>i, <1>2, <1>3, <1>t, <2>1
    <2> QED
      BY <1>i, <1>3, <1>4, <2>2, <2>3 DEF TypeOK, avail, used, device
  <1> QED
    BY <1>5, <1>6

LEMMA FinishStep ==
    ASSUME VirtioInv, TypeOK', NEW p \in Procs, Finish(p)
    PROVE  VirtioInv'
  <1>i. /\ TypeOK /\ panicked = 0 /\ LockInv /\ CallInv /\ ChainInv /\ OwnInv
        /\ RingsInv /\ PlaceInv /\ RequestsAnnounced /\ CompletionAnnounced /\ RwSleeperWaits
    BY DEF VirtioInv
  <1>0. Finishes(p)
    BY FinishFacts
  <1>u. /\ UNCHANGED <<status, avail, used, vdisk_lock, used_idx, b_disk, intr, sectors,
                       dev_idx, kicked, taken, isr>>
        /\ UNCHANGED <<used_ring_idx, avail_idx, avail_ring>>
        /\ panicked' = 0
    BY <1>0 DEF Finishes, device, used, avail
  <1>p. /\ pc[p] = "wait" /\ pc'[p] = "idle" /\ b_disk[p] = 0 /\ vdisk_lock = NoProc
        /\ \A q \in Procs : q # p => pc'[q] = IF pc[q] = "rw_sleep" THEN "rw" ELSE pc[q]
    BY <1>0 DEF Finishes
  <1>a. /\ p \in Active /\ Active' = Active \ {p} /\ \A q \in Active : q \in Procs
        /\ \A q \in Active : q # p => pc'[q] = pc[q]
    BY <1>p DEF Active, Submitted
  <1>c. ChainOf(p) \subseteq Desc /\ idx[p] \in ChainOf(p) /\ info_b[idx[p]] = p
    <2>1. ChainOf(p) = {idx[p], Second(p), Third(p)} /\ ChainOf(p) \subseteq Desc
      BY <1>i, <1>a, ActiveFacts
    <2>2. info_b[idx[p]] = p
      BY <1>i, <1>a DEF ChainInv, ChainOk
    <2> QED
      BY <2>1, <2>2
  <1>o. ASSUME NEW q \in Active, q # p
        PROVE  /\ Second(q)' = Second(q) /\ Third(q)' = Third(q) /\ ChainOf(q)' = ChainOf(q)
               /\ desc'[idx[q]] = desc[idx[q]] /\ desc'[Second(q)] = desc[Second(q)]
               /\ desc'[Third(q)] = desc[Third(q)]
               /\ idx'[q] = idx[q] /\ idx[q] # idx[p] /\ info_b'[idx[q]] = info_b[idx[q]]
               /\ wr'[q] = wr[q] /\ blk'[q] = blk[q]
    <2>1. /\ idx[q] \in Desc /\ Second(q) \in Desc /\ Third(q) \in Desc
          /\ ChainOf(q) = {idx[q], Second(q), Third(q)} /\ q \in Procs
      BY <1>i, ActiveFacts
    <2>2. \A d \in ChainOf(q) : d \notin ChainOf(p)
      BY <1>i, <1>a, <1>o DEF OwnInv
    <2>3. /\ desc'[idx[q]] = desc[idx[q]] /\ desc'[Second(q)] = desc[Second(q)]
          /\ desc'[Third(q)] = desc[Third(q)] /\ idx'[q] = idx[q]
          /\ wr'[q] = wr[q] /\ blk'[q] = blk[q]
      BY <1>0, <1>o, <2>1, <2>2 DEF Finishes
    <2>4. idx[q] # idx[p] /\ info_b'[idx[q]] = info_b[idx[q]]
      BY <1>0, <1>c, <2>1, <2>2 DEF Finishes
    <2> QED
      BY <2>1, <2>3, <2>4, ChainSame
  <1>1. LockInv'
    BY <1>i, <1>u, <1>p DEF LockInv
  <1>2. CallInv'
    <2>1. /\ blk'[p] = NoBlock
          /\ \A q \in Procs : q # p => /\ blk'[q] = blk[q] /\ wr'[q] = wr[q]
                                       /\ data'[q] = data[q]
      BY <1>0 DEF Finishes
    <2> QED
      BY <1>i, <1>p, <2>1 DEF CallInv
  <1>3. ChainInv'
    <2>1. ASSUME NEW q \in Active, q # p PROVE ChainOk(q)'
      <3>1. ChainOk(q)
        BY <1>i DEF ChainInv
      <3> QED
        BY <1>o, <2>1, <3>1 DEF ChainOk
    <2> QED
      BY <1>a, <2>1 DEF ChainInv
  <1>4. OwnInv'
    <2>0. /\ free' = free \union ChainOf(p)
          /\ info_b'[idx[p]] = NoProc
          /\ \A d \in Desc : d # idx[p] => info_b'[d] = info_b[d]
      BY <1>0 DEF Finishes
    <2>1. \A q, r \in Active' : \A d \in ChainOf(q)' : d \in ChainOf(r)' => q = r
      BY <1>i, <1>a, <1>o DEF OwnInv
    <2>2. \A d \in Desc : d \in free' <=> \A q \in Active' : d \notin ChainOf(q)'
      BY <1>i, <1>a, <1>o, <2>0 DEF OwnInv
    <2>3. \A d \in Desc : info_b'[d] # NoProc => info_b'[d] \in Active' /\ idx'[info_b'[d]] = d
      BY <1>i, <1>a, <1>c, <1>o, <2>0 DEF OwnInv
    <2> QED
      BY <2>1, <2>2, <2>3 DEF OwnInv
  <1>5. RingsInv' /\ AvailSet' = AvailSet /\ UsedSet' = UsedSet
    BY <1>i, <1>u, RingsKept
  <1>6. PlaceInv'
    <2>1. ASSUME NEW h, InFlight(h)
          PROVE  InFlight(h)'
      <3>1. info_b[h] \in Active /\ idx[info_b[h]] = h /\ h \in Desc /\ b_disk[info_b[h]] = 1
        BY <2>1, HeadFacts
      <3>2. h # idx[p] /\ info_b[h] # p /\ info_b[h] \in Procs
        BY <1>a, <1>p, <1>c, <3>1
      <3>3. info_b'[h] = info_b[h] /\ pc'[info_b[h]] = pc[info_b[h]]
        BY <1>0, <1>a, <3>1, <3>2 DEF Finishes
      <3> QED
        BY <1>u, <2>1, <3>1, <3>2, <3>3 DEF InFlight
    <2>2. /\ \A h \in AvailSet \union taken : InFlight(h) /\ status[h] = 255
          /\ \A h \in UsedSet : InFlight(h) /\ status[h] = 0
          /\ AvailSet \intersect taken = {}
      BY <1>i DEF PlaceInv
    <2>3. /\ \A h \in AvailSet' \union taken' : InFlight(h)' /\ status'[h] = 255
          /\ \A h \in UsedSet' : InFlight(h)' /\ status'[h] = 0
          /\ AvailSet' \intersect taken' = {}
      BY <1>u, <1>5, <2>1, <2>2
    <2>4. \A q \in Active' :
            /\ b_disk'[q] = 0 => status'[idx'[q]] = 0
            /\ pc'[q] = "publish" =>
                 b_disk'[q] = 1 /\ status'[idx'[q]] = 255 /\ avail_ring'[avail_idx' % NUM] = idx'[q]
            /\ b_disk'[q] = 1 /\ pc'[q] # "publish" =>
                 idx'[q] \in AvailSet' \union taken' \union UsedSet'
      BY <1>i, <1>u, <1>a, <1>o, <1>5 DEF PlaceInv
    <2>5. \A q \in Procs : pc'[q] \in {"notify", "wait_sleep"} => b_disk'[q] = 1
      BY <1>i, <1>u, <1>p DEF PlaceInv
    <2> QED
      BY <2>3, <2>4, <2>5 DEF PlaceInv
  <1>7. RwSleeperWaits' /\ RequestsAnnounced' /\ CompletionAnnounced'
    <2>1. \A q \in Procs : pc'[q] # "rw_sleep"
      BY <1>p
    <2>2. \A q \in Procs : pc[q] = "notify" => pc'[q] = "notify"
      BY <1>p
    <2> QED
      BY <1>i, <1>u, <2>1, <2>2 DEF RwSleeperWaits, RequestsAnnounced, CompletionAnnounced
  <1> QED
    BY <1>u, <1>1, <1>2, <1>3, <1>4, <1>5, <1>6, <1>7 DEF VirtioInv

----------------------------------------------------------------------------
(* virtio_disk_intr() *)

LEMMA IntrStepLock ==
    ASSUME VirtioInv, TypeOK', IntrBegin \/ IntrCaughtUp \/ IntrEnd
    PROVE  VirtioInv'
  <1>i. /\ TypeOK /\ panicked = 0 /\ LockInv /\ CallInv /\ ChainInv /\ OwnInv
        /\ RingsInv /\ PlaceInv /\ RequestsAnnounced /\ CompletionAnnounced /\ RwSleeperWaits
    BY DEF VirtioInv
  <1>u. /\ UNCHANGED <<desc, status, data, avail, used, free, info_b, used_idx, b_disk, pc,
                       blk, wr, idx, panicked, sectors, dev_idx, kicked, taken>>
        /\ UNCHANGED <<used_ring_idx, avail_idx>>
    BY DEF IntrBegin, IntrCaughtUp, IntrEnd, memory, calls, used, avail, device
  <1>a. Active' = Active
    BY <1>u DEF Active
  <1>1. LockInv'
    <2>1. CASE IntrBegin
      BY <1>i, <1>u, <2>1, Names DEF LockInv, IntrBegin
    <2>2. CASE IntrCaughtUp
      BY <1>i, <1>u, <2>2, Names DEF LockInv, IntrCaughtUp
    <2>3. CASE IntrEnd
      BY <1>i, <1>u, <2>3, Names DEF LockInv, IntrEnd
    <2> QED
      BY <2>1, <2>2, <2>3
  <1>2. CallInv' /\ ChainInv' /\ OwnInv' /\ RingsInv'
    BY <1>i, <1>u, <1>a, CallKept, ChainKept, OwnKept, RingsKept
  <1>3. PlaceInv'
    <2>1. \A q \in Procs : pc'[q] \in {"notify", "wait_sleep"} => b_disk[q] = 1
      BY <1>i, <1>u DEF PlaceInv
    <2> QED
      BY <1>i, <1>u, <1>a, <2>1, PlaceKept
  <1>4. RwSleeperWaits' /\ RequestsAnnounced'
    BY <1>i, <1>u DEF RwSleeperWaits, RequestsAnnounced
  <1>5. CompletionAnnounced'
    BY <1>i, <1>u DEF CompletionAnnounced, IntrBegin, IntrCaughtUp, IntrEnd, device
  <1> QED
    BY <1>i, <1>u, <1>1, <1>2, <1>3, <1>4, <1>5 DEF VirtioInv

\* What IntrEntry does: it hands the request of p back.
HandsBack(p) ==
    /\ intr = "loop" /\ used_idx # used_ring_idx
    /\ used_ring[Cell(used_idx)] = idx[p] /\ idx[p] \in UsedSet
    /\ p \in Active /\ info_b[idx[p]] = p /\ status[idx[p]] = 0
    /\ b_disk'[p] = 0 /\ \A q \in Procs : q # p => b_disk'[q] = b_disk[q]
    /\ pc'[p] = (IF pc[p] = "wait_sleep" THEN "wait" ELSE pc[p])
    /\ \A q \in Procs : q # p => pc'[q] = pc[q]
    /\ used_idx' = Succ(used_idx)
    /\ \A d \in Desc : d # Cell(used_idx) => used_ring'[d] = used_ring[d]
    /\ UNCHANGED <<memory, avail, used_ring_idx, vdisk_lock, free, info_b, intr, calls,
                   device, panicked>>

LEMMA IntrEntryFacts ==
    ASSUME VirtioInv, IntrEntry
    PROVE  (\E p \in Procs : HandsBack(p)) /\ TypeOK'
  <1>i. TypeOK /\ panicked = 0 /\ ChainInv /\ OwnInv /\ RingsInv /\ PlaceInv
    BY DEF VirtioInv
  <1> DEFINE id == used_ring[Cell(used_idx)]
  <1>0. intr = "loop" /\ used_idx # used_ring_idx
    BY DEF IntrEntry
  <1>n. used_idx \in Index /\ used_ring_idx \in Index /\ used_idx \in Int
    BY <1>i, Indices, Sizes DEF Index
  <1>c. Cell(used_idx) \in Desc /\ Succ(used_idx) \in Index
    BY <1>n, CellType, SuccIs
  <1>1. id \in UsedSet
    <2>1. \A s \in Desc : s # Cell(used_idx) => used_ring[s] = used_ring[s]
      OBVIOUS
    <2> QED
      BY <1>i, <1>0, <1>n, <2>1, Pop DEF RingsInv, UsedSet
  <1> HIDE DEF id
  <1>2. InFlight(id) /\ status[id] = 0
    BY <1>i, <1>1 DEF PlaceInv
  <1>3. info_b[id] \in Active /\ idx[info_b[id]] = id /\ id \in Desc
    BY <1>2, HeadFacts
  <1>4. PICK p \in Procs : p = info_b[id] /\ p \in Active
    BY <1>3 DEF Active
  <1>5. id # Consumed /\ info_b[id] # NoProc
    <2>1. id # -1
      BY <1>3, Sizes DEF Desc
    <2> QED
      BY <1>4, <2>1, Names DEF Consumed
  <1>6. /\ b_disk' = [b_disk EXCEPT ![p] = 0]
        /\ pc' = [pc EXCEPT ![p] = IF pc[p] = "wait_sleep" THEN "wait" ELSE pc[p]]
        /\ used_idx' = Succ(used_idx)
        /\ used_ring' = [used_ring EXCEPT ![Cell(used_idx)] = Consumed]
        /\ UNCHANGED <<memory, avail, used_ring_idx, vdisk_lock, free, info_b, intr, calls,
                       device, panicked>>
    <2>1. ~(id = Consumed \/ status[id] # 0 \/ info_b[id] = NoProc)
      BY <1>2, <1>5
    <2> QED
      BY <1>4, <2>1 DEF IntrEntry, id, Cell, Succ
  <1>t. /\ b_disk \in [Procs -> {0, 1}] /\ pc \in [Procs -> PC]
        /\ used_ring \in [Desc -> Desc \union {Consumed}]
    BY <1>i DEF TypeOK
  <1>7. HandsBack(p)
    <2>1. idx[p] = id /\ info_b[idx[p]] = p
      BY <1>3, <1>4
    <2>2. /\ b_disk'[p] = 0 /\ \A q \in Procs : q # p => b_disk'[q] = b_disk[q]
          /\ pc'[p] = (IF pc[p] = "wait_sleep" THEN "wait" ELSE pc[p])
          /\ \A q \in Procs : q # p => pc'[q] = pc[q]
          /\ \A d \in Desc : d # Cell(used_idx) => used_ring'[d] = used_ring[d]
      BY <1>6, <1>t, <1>c
    <2>3. used_ring[Cell(used_idx)] = idx[p]
      BY <2>1 DEF id
    <2> QED
      BY <1>0, <1>1, <1>2, <1>4, <1>6, <2>1, <2>2, <2>3 DEF HandsBack
  <1>8. TypeOK'
    <2>1. /\ b_disk' \in [Procs -> {0, 1}] /\ pc' \in [Procs -> PC]
          /\ used_ring' \in [Desc -> Desc \union {Consumed}]
      BY <1>6, <1>t DEF PC
    <2>2. {avail_idx', used_ring_idx', used_idx', dev_idx'} \subseteq 0..UMAX - 1
      BY <1>i, <1>c, <1>6 DEF TypeOK, Index, avail, device
    <2> QED
      BY <1>i, <1>6, <2>1, <2>2 DEF TypeOK, memory, avail, calls, device
  <1> QED
    BY <1>7, <1>8

LEMMA IntrEntryStep ==
    ASSUME VirtioInv, TypeOK', IntrEntry
    PROVE  VirtioInv'
  <1>i. /\ TypeOK /\ panicked = 0 /\ LockInv /\ CallInv /\ ChainInv /\ OwnInv
        /\ RingsInv /\ PlaceInv /\ RequestsAnnounced /\ CompletionAnnounced /\ RwSleeperWaits
    BY DEF VirtioInv
  <1>0. PICK p \in Procs : HandsBack(p)
    BY IntrEntryFacts
  <1>u. /\ UNCHANGED <<desc, status, data, avail, vdisk_lock, free, info_b, intr,
                       blk, wr, idx, panicked, sectors, dev_idx, kicked, taken, isr>>
        /\ UNCHANGED <<used_ring_idx, avail_idx, avail_ring>>
    BY <1>0 DEF HandsBack, memory, calls, avail, device
  <1>p. /\ intr = "loop" /\ idx[p] \in UsedSet
        /\ p \in Active /\ info_b[idx[p]] = p /\ status[idx[p]] = 0
        /\ b_disk'[p] = 0 /\ \A q \in Procs : q # p => b_disk'[q] = b_disk[q]
        /\ pc'[p] = (IF pc[p] = "wait_sleep" THEN "wait" ELSE pc[p])
        /\ \A q \in Procs : q # p => pc'[q] = pc[q]
    BY <1>0 DEF HandsBack
  <1>h. \A q \in Procs : pc[q] \notin {"publish", "notify"}
    <2>1. vdisk_lock = Handler
      BY <1>i, <1>p DEF LockInv
    <2> QED
      BY <1>i, <2>1, Names DEF LockInv
  <1>a. Active' = Active /\ \A q \in Active : q \in Procs
    BY <1>p DEF Active, Submitted
  <1>o. \A q \in Active : idx[q] = idx[p] => q = p
    <2>1. \A q \in Active : info_b[idx[q]] = q
      BY <1>i DEF ChainInv, ChainOk
    <2> QED
      BY <1>p, <2>1
  <1>1. LockInv'
    BY <1>i, <1>u, <1>p, <1>h DEF LockInv
  <1>2. CallInv'
    BY <1>i, <1>u, <1>p, CallKept
  <1>3. ChainInv' /\ OwnInv'
    BY <1>i, <1>u, <1>a, ChainKept, OwnKept
  <1>4. RingsInv' /\ AvailSet' = AvailSet /\ UsedSet' = UsedSet \ {idx[p]}
    <2>0. /\ used_idx # used_ring_idx /\ used_idx' = Succ(used_idx)
          /\ \A d \in Desc : d # Cell(used_idx) => used_ring'[d] = used_ring[d]
          /\ used_ring[Cell(used_idx)] = idx[p]
      BY <1>0 DEF HandsBack
    <2>1. /\ used_idx \in Index /\ used_ring_idx \in Index
          /\ WindowOk(used_ring, used_idx, used_ring_idx)
      BY <1>i, Indices DEF RingsInv
    <2>2. /\ WindowOk(used_ring', Succ(used_idx), used_ring_idx)
          /\ Entries(used_ring', Succ(used_idx), used_ring_idx)
               = Entries(used_ring, used_idx, used_ring_idx) \ {idx[p]}
      BY <2>0, <2>1, Pop
    <2>3. UsedSet' = UsedSet \ {idx[p]}
      BY <1>u, <2>0, <2>2 DEF UsedSet, Entries
    <2>4. AvailSet' = AvailSet
      BY <1>u DEF AvailSet, Entries
    <2> QED
      BY <1>i, <1>u, <2>0, <2>2, <2>3, <2>4 DEF RingsInv, WindowOk
  <1>5. PlaceInv'
    <2>1. ASSUME NEW h, InFlight(h), h # idx[p] PROVE InFlight(h)'
      <3>1. info_b[h] \in Active /\ idx[info_b[h]] = h
        BY <2>1, HeadFacts
      <3>2. info_b[h] # p /\ info_b[h] \in Procs
        BY <1>a, <2>1, <3>1
      <3> QED
        BY <1>u, <1>p, <2>1, <3>2 DEF InFlight
    <2>2. /\ \A h \in AvailSet \union taken : InFlight(h) /\ status[h] = 255
          /\ \A h \in UsedSet : InFlight(h) /\ status[h] = 0
          /\ AvailSet \intersect taken = {}
      BY <1>i DEF PlaceInv
    <2>3. /\ \A h \in AvailSet' \union taken' : InFlight(h)' /\ status'[h] = 255
          /\ \A h \in UsedSet' : InFlight(h)' /\ status'[h] = 0
          /\ AvailSet' \intersect taken' = {}
      BY <1>u, <1>p, <1>4, <2>1, <2>2
    <2>4. \A q \in Active' : b_disk'[q] = 0 => status'[idx'[q]] = 0
      BY <1>i, <1>u, <1>p, <1>a DEF PlaceInv
    <2>5. \A q \in Active' : pc'[q] # "publish"
      BY <1>p, <1>a, <1>h
    <2>6. \A q \in Active' : b_disk'[q] = 1 /\ pc'[q] # "publish" =>
            idx'[q] \in AvailSet' \union taken' \union UsedSet'
      <3>1. \A q \in Active : b_disk[q] = 1 /\ pc[q] # "publish" =>
              idx[q] \in AvailSet \union taken \union UsedSet
        BY <1>i DEF PlaceInv
      <3> QED
        BY <1>u, <1>p, <1>a, <1>h, <1>o, <1>4, <3>1
    <2>7. \A q \in Procs : pc'[q] \in {"notify", "wait_sleep"} => b_disk'[q] = 1
      BY <1>i, <1>p, <1>h DEF PlaceInv
    <2> QED
      BY <2>3, <2>4, <2>5, <2>6, <2>7 DEF PlaceInv
  <1>6. RwSleeperWaits' /\ RequestsAnnounced' /\ CompletionAnnounced'
    BY <1>i, <1>u, <1>p DEF RwSleeperWaits, RequestsAnnounced, CompletionAnnounced
  <1> QED
    BY <1>i, <1>u, <1>1, <1>2, <1>3, <1>4, <1>5, <1>6 DEF VirtioInv

----------------------------------------------------------------------------
(* The device *)

LEMMA DevIdleStep == ASSUME VirtioInv, TypeOK', DevIdle PROVE VirtioInv'
  <1>i. /\ TypeOK /\ panicked = 0 /\ LockInv /\ CallInv /\ ChainInv /\ OwnInv
        /\ RingsInv /\ PlaceInv /\ RequestsAnnounced /\ CompletionAnnounced /\ RwSleeperWaits
    BY DEF VirtioInv
  <1>u. /\ UNCHANGED <<desc, status, data, avail, used, vdisk_lock, free, info_b, used_idx,
                       b_disk, intr, pc, blk, wr, idx, panicked, sectors, dev_idx, taken, isr>>
        /\ UNCHANGED <<used_ring_idx, avail_idx>>
        /\ dev_idx = avail_idx
    BY DEF DevIdle, memory, calls, used, avail, driver
  <1>a. Active' = Active
    BY <1>u DEF Active
  <1>1. LockInv' /\ CallInv' /\ ChainInv' /\ OwnInv' /\ RingsInv'
    BY <1>i, <1>u, <1>a, CallKept, ChainKept, OwnKept, RingsKept DEF LockInv
  <1>2. PlaceInv'
    <2>1. \A q \in Procs : pc'[q] \in {"notify", "wait_sleep"} => b_disk[q] = 1
      BY <1>i, <1>u DEF PlaceInv
    <2> QED
      BY <1>i, <1>u, <1>a, <2>1, PlaceKept
  <1>3. RwSleeperWaits' /\ RequestsAnnounced' /\ CompletionAnnounced'
    BY <1>i, <1>u DEF RwSleeperWaits, RequestsAnnounced, CompletionAnnounced
  <1> QED
    BY <1>i, <1>u, <1>1, <1>2, <1>3 DEF VirtioInv

LEMMA DevTakeStep ==
    ASSUME VirtioInv, DevTake
    PROVE  TypeOK' /\ VirtioInv'
  <1>i. /\ TypeOK /\ panicked = 0 /\ LockInv /\ CallInv /\ ChainInv /\ OwnInv
        /\ RingsInv /\ PlaceInv /\ RequestsAnnounced /\ CompletionAnnounced /\ RwSleeperWaits
    BY DEF VirtioInv
  <1>u. /\ UNCHANGED <<desc, status, data, used, vdisk_lock, free, info_b, used_idx,
                       b_disk, intr, pc, blk, wr, idx, panicked, sectors, isr, kicked>>
        /\ UNCHANGED <<used_ring, used_ring_idx, avail_idx>>
        /\ kicked = 1 /\ dev_idx # avail_idx
    BY DEF DevTake, memory, calls, used, driver
  <1> DEFINE h == avail_ring[Cell(dev_idx)]
  <1>0. /\ taken' = taken \union {h}
        /\ avail_ring' = [avail_ring EXCEPT ![Cell(dev_idx)] = Consumed]
        /\ dev_idx' = Succ(dev_idx)
    BY DEF DevTake, Cell, Succ
  <1>n. /\ dev_idx \in Index /\ avail_idx \in Index /\ Cell(dev_idx) \in Desc
        /\ Succ(dev_idx) \in Index /\ Cell(avail_idx) \in Desc
    <2>1. dev_idx \in Index /\ avail_idx \in Index /\ dev_idx \in Int /\ avail_idx \in Int
      BY <1>i, Indices, Sizes DEF Index
    <2> QED
      BY <2>1, CellType, SuccIs
  <1>c. \A d \in Desc : d # Cell(dev_idx) => avail_ring'[d] = avail_ring[d]
    BY <1>i, <1>0, <1>n DEF TypeOK
  <1>w. /\ WindowOk(avail_ring', Succ(dev_idx), avail_idx)
        /\ h \in Entries(avail_ring, dev_idx, avail_idx)
        /\ Entries(avail_ring', Succ(dev_idx), avail_idx)
             = Entries(avail_ring, dev_idx, avail_idx) \ {h}
        /\ Cell(avail_idx) # Cell(dev_idx)
    BY <1>i, <1>u, <1>n, <1>c, Pop DEF RingsInv
  <1> HIDE DEF h
  <1>a. Active' = Active
    BY <1>u DEF Active
  <1>1. LockInv' /\ CallInv' /\ ChainInv' /\ OwnInv'
    BY <1>i, <1>u, <1>a, CallKept, ChainKept, OwnKept DEF LockInv
  <1>2. RingsInv' /\ AvailSet' = AvailSet \ {h} /\ UsedSet' = UsedSet /\ h \in AvailSet
    <2>1. AvailSet' = AvailSet \ {h} /\ h \in AvailSet
      BY <1>u, <1>0, <1>w DEF AvailSet, Entries
    <2>2. UsedSet' = UsedSet
      BY <1>u DEF UsedSet, Entries
    <2> QED
      BY <1>i, <1>u, <1>0, <1>w, <2>1, <2>2 DEF RingsInv, WindowOk
  <1>3. PlaceInv'
    <2>1. \A g : InFlight(g)' <=> InFlight(g)
      BY <1>u DEF InFlight
    <2>2. /\ \A g \in AvailSet \union taken : InFlight(g) /\ status[g] = 255
          /\ \A g \in UsedSet : InFlight(g) /\ status[g] = 0
          /\ AvailSet \intersect taken = {}
      BY <1>i DEF PlaceInv
    <2>3. /\ \A g \in AvailSet' \union taken' : InFlight(g)' /\ status'[g] = 255
          /\ \A g \in UsedSet' : InFlight(g)' /\ status'[g] = 0
          /\ AvailSet' \intersect taken' = {}
      BY <1>u, <1>0, <1>2, <2>1, <2>2
    <2>4. avail_ring'[avail_idx' % NUM] = avail_ring[avail_idx % NUM]
      BY <1>u, <1>n, <1>c, <1>w DEF Cell
    <2>5. AvailSet' \union taken' \union UsedSet' = AvailSet \union taken \union UsedSet
      BY <1>0, <1>2
    <2> QED
      BY <1>i, <1>u, <1>a, <2>3, <2>4, <2>5 DEF PlaceInv
  <1>4. RwSleeperWaits' /\ RequestsAnnounced' /\ CompletionAnnounced'
    BY <1>i, <1>u DEF RwSleeperWaits, RequestsAnnounced, CompletionAnnounced
  <1>5. TypeOK'
    <2>1. h \in Desc
      BY <1>i, <1>2 DEF PlaceInv, InFlight
    <2>2. avail_ring' \in [Desc -> Desc \union {Consumed}] /\ taken' \subseteq Desc
      BY <1>i, <1>0, <2>1 DEF TypeOK
    <2>3. {avail_idx', used_ring_idx', used_idx', dev_idx'} \subseteq 0..UMAX - 1
      BY <1>i, <1>u, <1>0, <1>n DEF TypeOK, Index
    <2> QED
      BY <1>i, <1>u, <2>2, <2>3 DEF TypeOK
  <1> QED
    BY <1>i, <1>u, <1>1, <1>2, <1>3, <1>4, <1>5 DEF VirtioInv

\* What DevComplete(h) does: it moves the block of process p.
Completes(p) ==
    /\ p \in Active /\ idx[p] \in taken /\ InFlight(idx[p]) /\ status[idx[p]] = 255
    /\ info_b[idx[p]] = p /\ blk[p] \in Blocks
    /\ \/ /\ wr[p] = 1 /\ data[p] \in Values
          /\ sectors' = [sectors EXCEPT ![blk[p]] = data[p]] /\ UNCHANGED data
       \/ /\ wr[p] # 1
          /\ data' = [data EXCEPT ![p] = sectors[blk[p]]] /\ UNCHANGED sectors
    /\ status'[idx[p]] = 0 /\ \A d \in Desc : d # idx[p] => status'[d] = status[d]
    /\ taken' = taken \ {idx[p]}
    /\ used_ring'[Cell(used_ring_idx)] = idx[p]
    /\ \A d \in Desc : d # Cell(used_ring_idx) => used_ring'[d] = used_ring[d]
    /\ used_ring_idx' = Succ(used_ring_idx)
    /\ isr' = 1
    /\ UNCHANGED <<desc, avail, vdisk_lock, driver, pc, calls, panicked, dev_idx, kicked>>

LEMMA CompleteFacts ==
    ASSUME VirtioInv, NEW h \in Desc, DevComplete(h)
    PROVE  (\E p \in Procs : Completes(p)) /\ TypeOK'
  <1>i. TypeOK /\ panicked = 0 /\ CallInv /\ ChainInv /\ OwnInv /\ PlaceInv
    BY DEF VirtioInv
  <1>1. h \in taken /\ InFlight(h) /\ status[h] = 255
    BY <1>i DEF PlaceInv, DevComplete
  <1>2. info_b[h] \in Active /\ idx[info_b[h]] = h
    BY <1>1, HeadFacts
  <1>3. PICK p \in Procs : p = info_b[h] /\ p \in Active /\ idx[p] = h
    BY <1>2 DEF Active
  <1>4. ChainOk(p)
    BY <1>i, <1>3 DEF ChainInv
  <1>5. /\ desc[h].next = Second(p) /\ desc[Second(p)].next = Third(p)
        /\ desc[h].addr.of.sector = blk[p]
        /\ desc[h].addr.of.type = (IF wr[p] = 1 THEN "OUT" ELSE "IN")
        /\ desc[Second(p)].addr.of = p
        /\ desc[Third(p)].addr.of = h
    BY <1>3, <1>4 DEF ChainOk, Second, Third
  <1>6. /\ IF desc[h].addr.of.type = "OUT"
           THEN sectors' = [sectors EXCEPT ![blk[p]] = data[p]] /\ UNCHANGED data
           ELSE data' = [data EXCEPT ![p] = sectors[blk[p]]] /\ UNCHANGED sectors
        /\ status' = [status EXCEPT ![h] = 0]
        /\ taken' = taken \ {h}
        /\ used_ring' = [used_ring EXCEPT ![Cell(used_ring_idx)] = h]
        /\ used_ring_idx' = Succ(used_ring_idx)
        /\ isr' = 1
        /\ UNCHANGED <<desc, avail, vdisk_lock, driver, pc, calls, panicked, dev_idx, kicked>>
    BY <1>5 DEF DevComplete, Cell, Succ
  <1>7. blk[p] \in Blocks /\ (wr[p] = 1 => data[p] \in Values)
    <2>1. pc[p] # "idle"
      BY <1>3 DEF Active, Submitted
    <2> QED
      BY <1>i, <2>1 DEF CallInv, TypeOK
  <1>8. used_ring_idx \in Index /\ Cell(used_ring_idx) \in Desc /\ Succ(used_ring_idx) \in Index
    <2>1. used_ring_idx \in Index /\ used_ring_idx \in Int
      BY <1>i, Indices, Sizes DEF Index
    <2> QED
      BY <2>1, CellType, SuccIs
  <1>t. /\ status \in [Desc -> {0, 255}] /\ used_ring \in [Desc -> Desc \union {Consumed}]
        /\ data \in [Procs -> Values \union {NoBlock}] /\ sectors \in [Blocks -> Values]
    BY <1>i DEF TypeOK
  <1>m. \/ /\ wr[p] = 1 /\ data[p] \in Values
           /\ sectors' = [sectors EXCEPT ![blk[p]] = data[p]] /\ UNCHANGED data
        \/ /\ wr[p] # 1
           /\ data' = [data EXCEPT ![p] = sectors[blk[p]]] /\ UNCHANGED sectors
    BY <1>5, <1>6, <1>7
  <1>9. Completes(p)
    <2>1. /\ status'[h] = 0 /\ \A d \in Desc : d # h => status'[d] = status[d]
          /\ used_ring'[Cell(used_ring_idx)] = h
          /\ \A d \in Desc : d # Cell(used_ring_idx) => used_ring'[d] = used_ring[d]
      BY <1>6, <1>8, <1>t
    <2> QED
      BY <1>1, <1>3, <1>6, <1>7, <1>m, <2>1 DEF Completes
  <1>10. TypeOK'
    <2>1. /\ status' \in [Desc -> {0, 255}] /\ used_ring' \in [Desc -> Desc \union {Consumed}]
      BY <1>6, <1>t
    <2>2. data' \in [Procs -> Values \union {NoBlock}] /\ sectors' \in [Blocks -> Values]
      BY <1>m, <1>t, <1>7
    <2>3. {avail_idx', used_ring_idx', used_idx', dev_idx'} \subseteq 0..UMAX - 1
      BY <1>i, <1>6, <1>8 DEF TypeOK, Index, avail, driver
    <2> QED
      BY <1>i, <1>6, <2>1, <2>2, <2>3 DEF TypeOK, avail, driver, calls
  <1> QED
    BY <1>9, <1>10

LEMMA CompleteStep ==
    ASSUME VirtioInv, TypeOK', NEW h \in Desc, DevComplete(h)
    PROVE  VirtioInv'
  <1>i. /\ TypeOK /\ panicked = 0 /\ LockInv /\ CallInv /\ ChainInv /\ OwnInv
        /\ RingsInv /\ PlaceInv /\ RequestsAnnounced /\ CompletionAnnounced /\ RwSleeperWaits
    BY DEF VirtioInv
  <1>0. PICK p \in Procs : Completes(p)
    BY CompleteFacts
  <1>u. /\ UNCHANGED <<desc, avail, vdisk_lock, free, info_b, used_idx, b_disk, intr,
                       pc, blk, wr, idx, panicked, dev_idx, kicked>>
        /\ UNCHANGED <<avail_idx, avail_ring>>
        /\ isr' = 1
    BY <1>0 DEF Completes, calls, avail, driver
  <1>p. /\ p \in Active /\ idx[p] \in taken /\ InFlight(idx[p]) /\ status[idx[p]] = 255
        /\ info_b[idx[p]] = p
        /\ status'[idx[p]] = 0 /\ \A d \in Desc : d # idx[p] => status'[d] = status[d]
        /\ taken' = taken \ {idx[p]}
    BY <1>0 DEF Completes
  <1>a. Active' = Active /\ \A q \in Active : q \in Procs /\ idx[q] \in Desc
    BY <1>i, <1>u, ActiveFacts DEF Active
  <1>1. LockInv' /\ ChainInv' /\ OwnInv'
    BY <1>i, <1>u, <1>a, ChainKept, OwnKept DEF LockInv
  <1>2. CallInv'
    <2>1. \A q \in Procs : wr[q] = 1 => data'[q] = data[q]
      BY <1>0, <1>i DEF Completes, TypeOK
    <2> QED
      BY <1>i, <1>u, <2>1 DEF CallInv
  <1>c. /\ idx[p] \in Desc /\ Second(p) \in Desc /\ idx[p] # Second(p)
        /\ Second(p) \in ChainOf(p)
    <2>1. /\ idx[p] \in Desc /\ Second(p) \in Desc
          /\ ChainOf(p) = {idx[p], Second(p), Third(p)}
      BY <1>i, <1>p, ActiveFacts
    <2>2. idx[p] # Second(p)
      BY <1>i, <1>p DEF ChainInv, ChainOk
    <2> QED
      BY <2>1, <2>2
  <1>f. /\ \A g \in AvailSet \union taken : InFlight(g) /\ status[g] = 255
        /\ \A g \in UsedSet : InFlight(g) /\ status[g] = 0
        /\ AvailSet \intersect taken = {}
    BY <1>i DEF PlaceInv
  <1>m. idx[p] \notin UsedSet /\ Second(p) \notin UsedSet
    <2>1. ~InFlight(Second(p))
      BY <1>p, <1>c, OneHead
    <2> QED
      BY <1>f, <1>p, <2>1
  <1>3. RingsInv' /\ UsedSet' = UsedSet \union {idx[p]} /\ AvailSet' = AvailSet
    <2>0. /\ used_ring'[Cell(used_ring_idx)] = idx[p]
          /\ \A d \in Desc : d # Cell(used_ring_idx) => used_ring'[d] = used_ring[d]
          /\ used_ring_idx' = Succ(used_ring_idx)
      BY <1>0 DEF Completes
    <2>1. /\ used_idx \in Index /\ used_ring_idx \in Index
          /\ WindowOk(used_ring, used_idx, used_ring_idx)
      BY <1>i, Indices DEF RingsInv
    <2>2. Dist(used_idx, used_ring_idx) + 1 < NUM
      BY <1>c, <1>m, <2>1, WindowRoom DEF UsedSet
    <2>3. /\ WindowOk(used_ring', used_idx, Succ(used_ring_idx))
          /\ Entries(used_ring', used_idx, Succ(used_ring_idx))
               = Entries(used_ring, used_idx, used_ring_idx) \union {idx[p]}
      BY <1>c, <1>m, <2>0, <2>1, <2>2, Push DEF UsedSet
    <2>4. UsedSet' = UsedSet \union {idx[p]}
      BY <1>u, <2>0, <2>3 DEF UsedSet, Entries
    <2>5. AvailSet' = AvailSet
      BY <1>u DEF AvailSet, Entries
    <2> QED
      BY <1>i, <1>u, <2>0, <2>3, <2>4, <2>5 DEF RingsInv, WindowOk
  <1>4. PlaceInv'
    <2>1. \A g : InFlight(g)' <=> InFlight(g)
      BY <1>u DEF InFlight
    <2>2. \A g : InFlight(g) => g \in Desc
      BY DEF InFlight
    <2>3. /\ \A g \in AvailSet' \union taken' : InFlight(g)' /\ status'[g] = 255
          /\ \A g \in UsedSet' : InFlight(g)' /\ status'[g] = 0
          /\ AvailSet' \intersect taken' = {}
      BY <1>p, <1>f, <1>3, <2>1, <2>2
    <2>4. \A q \in Active : pc[q] = "publish" => idx[q] # idx[p]
      <3>1. \A q \in Active : info_b[idx[q]] = q
        BY <1>i DEF ChainInv, ChainOk
      <3> QED
        BY <1>p, <3>1 DEF InFlight
    <2>5. AvailSet' \union taken' \union UsedSet' = AvailSet \union taken \union UsedSet
      BY <1>p, <1>3
    <2>6. \A q \in Active : /\ status[idx[q]] = 0 => status'[idx[q]] = 0
                            /\ pc[q] = "publish" => status'[idx[q]] = status[idx[q]]
      BY <1>p, <1>a, <2>4
    <2> QED
      BY <1>i, <1>u, <1>a, <2>3, <2>5, <2>6 DEF PlaceInv
  <1>5. RwSleeperWaits' /\ RequestsAnnounced' /\ CompletionAnnounced'
    BY <1>i, <1>u DEF RwSleeperWaits, RequestsAnnounced, CompletionAnnounced
  <1> QED
    BY <1>i, <1>u, <1>1, <1>2, <1>3, <1>4, <1>5 DEF VirtioInv

----------------------------------------------------------------------------
(* The invariant *)

LEMMA InitInv == Init => VirtioInv
  <1> SUFFICES ASSUME Init PROVE VirtioInv
    OBVIOUS
  <1>s. 0 \in Desc /\ 0 \in 0..UMAX - 1 /\ 0 \in Index
    BY Sizes DEF Desc, Index
  <1>1. TypeOK
    <2>1. ClearDesc \in [addr : Addr, flags : SUBSET {"NEXT", "WRITE"}, next : Desc]
      BY <1>s DEF ClearDesc, Addr
    <2> QED
      BY <1>s, <2>1 DEF Init, TypeOK, PC
  <1>2. Active = {}
    BY DEF Init, Active, Submitted
  <1>3. LockInv /\ CallInv /\ ChainInv /\ panicked = 0
    BY <1>2, Names DEF Init, LockInv, CallInv, ChainInv
  <1>4. OwnInv
    BY <1>2 DEF Init, OwnInv
  <1>5. RingsInv /\ AvailSet = {} /\ UsedSet = {}
    <2>1. Dist(0, 0) = 0
      BY <1>s, DistIs
    <2>2. \A i \in 0..0 - 1 : FALSE
      OBVIOUS
    <2>3. 0 < NUM
      BY Sizes
    <2>4. ASSUME NEW ring PROVE WindowOk(ring, 0, 0) /\ Entries(ring, 0, 0) = {}
      BY <2>1, <2>2, <2>3, WindowIs
    <2>5. dev_idx = 0 /\ avail_idx = 0 /\ used_idx = 0 /\ used_ring_idx = 0
      BY DEF Init
    <2> QED
      BY <2>4, <2>5 DEF RingsInv, AvailSet, UsedSet
  <1>6. PlaceInv
    BY <1>2, <1>5 DEF Init, PlaceInv
  <1>7. RwSleeperWaits /\ RequestsAnnounced /\ CompletionAnnounced
    BY DEF Init, RwSleeperWaits, RequestsAnnounced, CompletionAnnounced
  <1> QED
    BY <1>1, <1>3, <1>4, <1>5, <1>6, <1>7 DEF VirtioInv

\* Types of the steps that change little.
LEMMA TypeStep ==
    ASSUME TypeOK,
           \/ \E p \in Procs : \/ Call(p) \/ NoDescriptors(p) \/ WaitAgain(p) \/ Kill(p)
                               \/ Publish(p) \/ Notify(p)
           \/ IntrBegin \/ IntrCaughtUp \/ IntrEnd \/ DevIdle
    PROVE  TypeOK'
  <1>1. ASSUME NEW p \in Procs, Call(p) PROVE TypeOK'
    <2>1. /\ blk' \in [Procs -> Blocks \union {NoBlock}] /\ wr' \in [Procs -> {0, 1}]
          /\ data' \in [Procs -> Values \union {NoBlock}] /\ pc' \in [Procs -> PC]
      <3>1. PICK k \in Blocks, w \in {0, 1} :
              /\ blk' = [blk EXCEPT ![p] = k]
              /\ wr' = [wr EXCEPT ![p] = w]
              /\ \E v \in IF w = 1 THEN Values ELSE {NoBlock} : data' = [data EXCEPT ![p] = v]
        BY <1>1 DEF Call
      <3>2. PICK v \in Values \union {NoBlock} : data' = [data EXCEPT ![p] = v]
        BY <3>1
      <3> QED
        BY <1>1, <3>1, <3>2 DEF Call, TypeOK, PC
    <2> QED
      BY <1>1, <2>1 DEF Call, TypeOK, avail, used, driver, device
  <1>2. ASSUME NEW p \in Procs, NoDescriptors(p) PROVE TypeOK'
    <2>1. pc' \in [Procs -> PC]
      <3>1. CASE free = {}
        BY <1>2, <3>1 DEF NoDescriptors, TypeOK, PC
      <3>2. CASE free # {}
        BY <1>2, <3>2 DEF NoDescriptors, TypeOK, PC, WakeRw
      <3> QED
        BY <3>1, <3>2
    <2> QED
      BY <1>2, <2>1 DEF NoDescriptors, TypeOK, memory, avail, used, driver, calls, device
  <1>3. ASSUME NEW p \in Procs, WaitAgain(p) \/ Kill(p) PROVE TypeOK'
    <2>1. pc' \in [Procs -> PC]
      BY <1>3 DEF WaitAgain, Kill, TypeOK, PC
    <2> QED
      BY <1>3, <2>1 DEF WaitAgain, Kill, TypeOK, memory, avail, used, driver, calls, device
  <1>4. ASSUME NEW p \in Procs, Publish(p) PROVE TypeOK'
    <2>1. pc' \in [Procs -> PC]
      BY <1>4 DEF Publish, TypeOK, PC
    <2>2. avail_idx' \in 0..UMAX - 1
      <3>1. avail_idx' = Succ(avail_idx)
        BY <1>4 DEF Publish, Succ
      <3> QED
        BY <3>1, Indices, SuccIs DEF Index
    <2> QED
      BY <1>4, <2>1, <2>2 DEF Publish, TypeOK, memory, used, driver, calls, device
  <1>5. ASSUME NEW p \in Procs, Notify(p) PROVE TypeOK'
    <2>1. pc' \in [Procs -> PC]
      BY <1>5 DEF Notify, TypeOK, PC
    <2> QED
      BY <1>5, <2>1 DEF Notify, TypeOK, memory, avail, used, driver, calls
  <1>6. ASSUME IntrBegin \/ IntrCaughtUp \/ IntrEnd PROVE TypeOK'
    BY <1>6 DEF IntrBegin, IntrCaughtUp, IntrEnd, TypeOK, memory, avail, used, calls, device
  <1>7. ASSUME DevIdle PROVE TypeOK'
    BY <1>7 DEF DevIdle, TypeOK, memory, avail, used, driver, calls
  <1> QED
    BY <1>1, <1>2, <1>3, <1>4, <1>5, <1>6, <1>7

LEMMA InvStep == ASSUME VirtioInv, [Next]_vars PROVE VirtioInv'
  <1>t. TypeOK /\ CallInv
    BY DEF VirtioInv
  <1>1. CASE UNCHANGED vars
    <2>u. /\ UNCHANGED <<desc, status, data, avail, used, vdisk_lock, free, info_b, used_idx,
                         b_disk, intr, pc, blk, wr, idx, panicked, sectors, dev_idx, kicked,
                         taken, isr>>
          /\ UNCHANGED <<memory, driver, calls, device>>
      BY <1>1 DEF vars, memory, driver, calls, device
    <2>1. TypeOK'
      BY <1>t, <2>u DEF TypeOK, avail, used
    <2>2. RwSleeperWaits' /\ \A q \in Procs : pc'[q] = "wait_sleep" => b_disk[q] = 1
      BY <2>u DEF VirtioInv, RwSleeperWaits, PlaceInv
    <2> QED
      BY <2>u, <2>1, <2>2, MoveStep
  <1>2. ASSUME NEW p \in Procs, Call(p) \/ RwStep(p) \/ Kill(p) PROVE VirtioInv'
    BY <1>t, <1>2, TypeStep, SubmitFacts, FinishFacts, CallStep, NoDescriptorsStep,
       WaitAgainStep, SubmitStep, PublishStep, NotifyStep, FinishStep DEF RwStep
  <1>3. ASSUME IntrStep PROVE VirtioInv'
    BY <1>t, <1>3, TypeStep, IntrEntryFacts, IntrStepLock, IntrEntryStep DEF IntrStep
  <1>4. ASSUME DevStep PROVE VirtioInv'
    BY <1>t, <1>4, TypeStep, DevTakeStep, DevIdleStep, CompleteFacts, CompleteStep DEF DevStep
  <1> QED
    BY <1>1, <1>2, <1>3, <1>4 DEF Next

\* The inductive invariant, for any number of processes and descriptors and any
\* width of the indices that the number of descriptors divides.
THEOREM VirtioInvariant == Spec => []VirtioInv
  BY InitInv, InvStep, PTL DEF Spec

\* No panic of the driver is reached: free_desc() never frees a descriptor
\* twice, and virtio_disk_intr() finds every request it is told of complete.
THEOREM NoDriverPanic == Spec => [](panicked = 0)
  <1>1. VirtioInv => panicked = 0
    BY DEF VirtioInv
  <1> QED
    BY <1>1, VirtioInvariant, PTL

LEMMA Three ==
    ASSUME NEW a, NEW b, NEW c, a # b, a # c, b # c
    PROVE  Cardinality({a, b, c}) = 3
  <1>1. IsFiniteSet({}) /\ Cardinality({}) = 0
    BY FS_EmptySet
  <1>2. IsFiniteSet({} \union {a}) /\ Cardinality({} \union {a}) = 1
    BY <1>1, FS_AddElement
  <1>3. {} \union {a} = {a} /\ {a} \union {b} = {a, b} /\ {a, b} \union {c} = {a, b, c}
    OBVIOUS
  <1>4. IsFiniteSet({a, b}) /\ Cardinality({a, b}) = 2
    BY <1>2, <1>3, FS_AddElement
  <1>5. c \notin {a, b}
    OBVIOUS
  <1>6. Cardinality({a, b} \union {c}) = Cardinality({a, b}) + 1
    BY <1>4, <1>5, FS_AddElement
  <1> QED
    BY <1>3, <1>4, <1>6

\* Descriptors are neither shared nor lost, whatever the device and the
\* interrupt handler do between alloc3_desc() and free_chain().
THEOREM Accounted == Spec => []DescriptorsAccounted
  <1>1. VirtioInv => DescriptorsAccounted
    <2> SUFFICES ASSUME VirtioInv PROVE DescriptorsAccounted
      OBVIOUS
    <2>i. TypeOK /\ ChainInv /\ OwnInv
      BY DEF VirtioInv
    <2>1. \A p \in Active : Cardinality(ChainOf(p)) = 3
      <3> TAKE p \in Active
      <3>1. ChainOf(p) = {idx[p], Second(p), Third(p)}
        BY <2>i, ActiveFacts
      <3>2. idx[p] # Second(p) /\ idx[p] # Third(p) /\ Second(p) # Third(p)
        BY <2>i DEF ChainInv, ChainOk
      <3>3. Cardinality({idx[p], Second(p), Third(p)}) = 3
        BY <3>2, Three
      <3> QED
        BY <3>1, <3>3
    <2>2. \A p, q \in Active : p # q => ChainOf(p) \intersect ChainOf(q) = {}
      BY <2>i DEF OwnInv
    <2>3. free = Desc \ UNION {ChainOf(p) : p \in Active}
      BY <2>i DEF OwnInv, TypeOK
    <2> QED
      BY <2>1, <2>2, <2>3 DEF DescriptorsAccounted, Active
  <1> QED
    BY <1>1, VirtioInvariant, PTL

\* No process in virtio_disk_rw() is forgotten: not for descriptors, not by the
\* device, not by the interrupt handler.
THEOREM NobodyIsForgotten == Spec => []NobodyForgotten
  <1>1. VirtioInv => NobodyForgotten
    <2> SUFFICES ASSUME VirtioInv PROVE NobodyForgotten
      OBVIOUS
    <2>i. PlaceInv /\ RwSleeperWaits /\ RequestsAnnounced /\ CompletionAnnounced
      BY DEF VirtioInv
    <2>1. RequestUnderWay
      <3> SUFFICES ASSUME NEW p \in Procs, pc[p] = "wait_sleep"
                   PROVE  b_disk[p] = 1 /\ idx[p] \in AvailSet \union taken \union UsedSet
        BY DEF RequestUnderWay, AvailSet, UsedSet
      <3>1. p \in Active /\ pc[p] # "publish"
        BY DEF Active, Submitted
      <3> QED
        BY <2>i, <3>1 DEF PlaceInv
    <2> QED
      BY <2>i, <2>1 DEF NobodyForgotten
  <1> QED
    BY <1>1, VirtioInvariant, PTL

----------------------------------------------------------------------------
(* The driver implements BlockDevice. *)

Moved == {p \in Procs : \E d \in Desc : info_b[d] = p /\ status[d] = 0}

LEMMA MovedIs ==
    ASSUME VirtioInv
    PROVE  Moved = {p \in Active : status[idx[p]] = 0}
  <1>1. \A p \in Active : p \in Procs /\ idx[p] \in Desc /\ info_b[idx[p]] = p
    BY ActiveFacts DEF VirtioInv, ChainInv, ChainOk
  <1>2. \A d \in Desc : info_b[d] \in Procs => info_b[d] \in Active /\ idx[info_b[d]] = d
    BY Names DEF VirtioInv, OwnInv
  <1> QED
    BY <1>1, <1>2 DEF Moved

LEMMA MovedAlways == VirtioInv => Moved = {p \in Active : status[idx[p]] = 0}
  BY MovedIs

LEMMA MovedNext == (VirtioInv => Moved = {p \in Active : status[idx[p]] = 0})'
  BY MovedAlways, PTL

LEMMA PrimedMoved ==
    ASSUME VirtioInv'
    PROVE  Moved' = {p \in Active' : status'[idx'[p]] = 0}
  BY MovedNext

LEMMA DeviceStutter ==
    ASSUME UNCHANGED <<sectors, blk, wr, data, info_b, status>>
    PROVE  UNCHANGED <<sectors, blk, wr, data, Moved>>
  BY DEF Moved

LEMMA RequestStep ==
    ASSUME VirtioInv, NEW p \in Procs, Call(p)
    PROVE  Device!Request(p)
  <1>1. blk[p] = NoBlock
    BY DEF VirtioInv, CallInv, Call
  <1>2. UNCHANGED <<sectors, info_b, status>>
    BY DEF Call, driver, device
  <1>3. \E k \in Blocks, w \in {0, 1} :
          /\ blk' = [blk EXCEPT ![p] = k]
          /\ wr' = [wr EXCEPT ![p] = w]
          /\ \E v \in IF w = 1 THEN Values ELSE {NoBlock} : data' = [data EXCEPT ![p] = v]
    BY DEF Call
  <1> QED
    BY <1>1, <1>2, <1>3 DEF Device!Request

LEMMA NewRequest ==
    ASSUME VirtioInv, VirtioInv', NEW p \in Procs, Submit(p)
    PROVE  UNCHANGED <<sectors, blk, wr, data, Moved>>
  <1>i. TypeOK /\ CallInv /\ OwnInv
    BY DEF VirtioInv
  <1>0. PICK d0, d1, d2 \in Desc : Submits(p, d0, d1, d2)
    BY <1>i, SubmitFacts
  <1>1. /\ UNCHANGED <<sectors, blk, wr, data>>
        /\ idx'[p] = d0 /\ \A q \in Procs : q # p => idx'[q] = idx[q]
        /\ status'[d0] = 255 /\ \A d \in Desc : d # d0 => status'[d] = status[d]
        /\ pc[p] = "rw" /\ pc'[p] = "publish" /\ \A q \in Procs : q # p => pc'[q] = pc[q]
        /\ d0 \in free
    BY <1>0 DEF Submits
  <1>2. p \notin Active /\ Active' = Active \union {p} /\ \A q \in Active : q # p /\ q \in Procs
    BY <1>1 DEF Active, Submitted
  <1>3. \A q \in Active : idx[q] \in Desc /\ idx[q] # d0
    <2>1. \A q \in Active : idx[q] \in Desc /\ idx[q] \in ChainOf(q)
      BY <1>i, ActiveFacts
    <2> QED
      BY <1>i, <1>1, <2>1 DEF OwnInv
  <1>4. Moved = {q \in Active : status[idx[q]] = 0}
    BY MovedIs
  <1>5. Moved' = {q \in Active' : status'[idx'[q]] = 0}
    BY PrimedMoved
  <1>6. Moved' = Moved
    BY <1>1, <1>2, <1>3, <1>4, <1>5
  <1> QED
    BY <1>1, <1>6

LEMMA MoveBlock ==
    ASSUME VirtioInv, VirtioInv', NEW h \in Desc, DevComplete(h)
    PROVE  \E p \in Procs : Device!Move(p)
  <1>i. TypeOK /\ CallInv /\ ChainInv
    BY DEF VirtioInv
  <1>0. PICK p \in Procs : Completes(p)
    BY CompleteFacts
  <1>1. /\ UNCHANGED <<blk, wr, pc, idx, info_b>>
        /\ p \in Active /\ status[idx[p]] = 255 /\ info_b[idx[p]] = p /\ blk[p] \in Blocks
        /\ status'[idx[p]] = 0 /\ \A d \in Desc : d # idx[p] => status'[d] = status[d]
    BY <1>0 DEF Completes, calls, driver
  <1>2. IF wr[p] = 1
        THEN sectors' = [sectors EXCEPT ![blk[p]] = data[p]] /\ UNCHANGED data
        ELSE data' = [data EXCEPT ![p] = sectors[blk[p]]] /\ UNCHANGED sectors
    BY <1>0 DEF Completes
  <1>3. Active' = Active
    BY <1>1 DEF Active
  <1>4. \A q \in Active : idx[q] \in Desc /\ (idx[q] = idx[p] => q = p)
    <2>1. \A q \in Active : idx[q] \in Desc /\ info_b[idx[q]] = q
      BY <1>i, ActiveFacts DEF ChainInv, ChainOk
    <2> QED
      BY <1>1, <2>1
  <1>5. Moved = {q \in Active : status[idx[q]] = 0}
    BY MovedIs
  <1>6. Moved' = {q \in Active' : status'[idx'[q]] = 0}
    BY PrimedMoved
  <1>7. p \notin Moved /\ Moved' = Moved \union {p}
    BY <1>1, <1>3, <1>4, <1>5, <1>6
  <1>8. blk[p] # NoBlock
    BY <1>1, Names
  <1> QED
    BY <1>1, <1>2, <1>7, <1>8 DEF Device!Move, Moved

LEMMA ReturnBlock ==
    ASSUME VirtioInv, VirtioInv', NEW p \in Procs, Finish(p)
    PROVE  Device!Return(p)
  <1>i. TypeOK /\ PlaceInv
    BY DEF VirtioInv
  <1>0. Finishes(p)
    BY FinishFacts
  <1>1. /\ blk' = [blk EXCEPT ![p] = NoBlock]
        /\ wr' = [wr EXCEPT ![p] = 0]
        /\ data' = [data EXCEPT ![p] = NoBlock]
    BY DEF Finish
  <1>2. /\ p \in Active /\ b_disk[p] = 0 /\ pc[p] = "wait" /\ pc'[p] = "idle"
        /\ \A q \in Procs : q # p => pc'[q] = IF pc[q] = "rw_sleep" THEN "rw" ELSE pc[q]
        /\ \A q \in Procs : q # p => idx'[q] = idx[q]
        /\ UNCHANGED <<status, sectors>>
    BY <1>0 DEF Finishes, device
  <1>3. Active' = Active \ {p} /\ \A q \in Active : q \in Procs
    BY <1>2 DEF Active, Submitted
  <1>4. status[idx[p]] = 0
    BY <1>i, <1>2 DEF PlaceInv
  <1>5. Moved = {q \in Active : status[idx[q]] = 0}
    BY MovedIs
  <1>6. Moved' = {q \in Active' : status'[idx'[q]] = 0}
    BY PrimedMoved
  <1>7. p \in Moved /\ Moved' = Moved \ {p}
    BY <1>2, <1>3, <1>4, <1>5, <1>6
  <1> QED
    BY <1>1, <1>2, <1>7 DEF Device!Return, Moved

LEMMA DeviceStep ==
    ASSUME VirtioInv, VirtioInv', [Next]_vars
    PROVE  Device!DeviceNext \/ UNCHANGED <<sectors, blk, wr, data, Moved>>
  <1>1. CASE UNCHANGED vars
    BY <1>1, DeviceStutter DEF vars, memory, driver, calls, device
  <1>2. ASSUME NEW p \in Procs, Call(p) \/ RwStep(p) \/ Kill(p)
        PROVE  Device!DeviceNext \/ UNCHANGED <<sectors, blk, wr, data, Moved>>
    <2>1. CASE Call(p)
      BY <2>1, RequestStep DEF Device!DeviceNext
    <2>2. CASE Submit(p)
      BY <2>2, NewRequest
    <2>3. CASE Finish(p)
      BY <2>3, ReturnBlock DEF Device!DeviceNext
    <2>4. CASE NoDescriptors(p) \/ WaitAgain(p) \/ Kill(p) \/ Publish(p) \/ Notify(p)
      BY <2>4, DeviceStutter DEF NoDescriptors, WaitAgain, Kill, Publish, Notify, memory,
                                 driver, calls, device
    <2> QED
      BY <1>2, <2>1, <2>2, <2>3, <2>4 DEF RwStep
  <1>3. ASSUME IntrStep
        PROVE  Device!DeviceNext \/ UNCHANGED <<sectors, blk, wr, data, Moved>>
    BY <1>3, DeviceStutter DEF IntrStep, IntrBegin, IntrEntry, IntrCaughtUp, IntrEnd, memory,
                               calls, device
  <1>4. ASSUME DevStep
        PROVE  Device!DeviceNext \/ UNCHANGED <<sectors, blk, wr, data, Moved>>
    <2>1. CASE DevTake \/ DevIdle
      BY <2>1, DeviceStutter DEF DevTake, DevIdle, memory, driver, calls
    <2>2. CASE \E h \in Desc : DevComplete(h)
      BY <2>2, MoveBlock DEF Device!DeviceNext
    <2> QED
      BY <1>4, <2>1, <2>2 DEF DevStep
  <1> QED
    BY <1>1, <1>2, <1>3, <1>4 DEF Next

LEMMA DeviceInitial == Init => Device!DeviceInit
  BY Names DEF Init, Device!DeviceInit

\* virtio_disk_rw() moves its own block exactly once between its call and its
\* return, for any number of callers and any order of completion.
THEOREM DriverIsDevice == Spec => TransfersOnce
  <1>1. VirtioInv /\ VirtioInv' /\ [Next]_vars =>
            [Device!DeviceNext]_<<sectors, blk, wr, data, Moved>>
    BY DeviceStep
  <1> QED
    BY <1>1, DeviceInitial, VirtioInvariant, PTL
       DEF Spec, TransfersOnce, Device!DeviceSpec, Moved

=============================================================================
