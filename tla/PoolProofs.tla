----------------------------- MODULE PoolProofs -----------------------------
(***************************************************************************)
(* Proofs about the two pools of the kernel.  The buffers of kernel/bio.c: *)
(* the reference counts are exact, nobody sleeps on a free sleep-lock, and *)
(* the cache implements BlockStore.  The pages of kernel/kalloc.c, as      *)
(* kernel/vm.c, kernel/proc.c and kernel/exec.c hand them out: every page  *)
(* has one holder, no call panics, and a call that fails keeps the memory. *)
(***************************************************************************)
EXTENDS Bcache, Memory, FiniteSetTheorems, WellFoundedInduction, TLAPS

----------------------------------------------------------------------------
(* The buffer cache. *)

UsersOf(b) == {p \in Procs : pc[p] \in Referring /\ buf[p] = b}

\* The list has all the buffers.
ListWhole == \A b \in Bufs : \E k \in Bufs : lru[k] = b

\* No block is in two buffers.
OneCopy ==
    \A b, c \in Bufs : blockno[b] = blockno[c] /\ blockno[b] # NoBlock => b = c

\* A process that counts in refcnt has the buffer of the block it asked for:
\* the buffer is not recycled under it.
RightBuffer ==
    \A p \in Procs : pc[p] \in Referring => blockno[buf[p]] = want[p]

\* b->lock is held from acquiresleep() to releasesleep().
LockHeld ==
    \A b \in Bufs, p \in Procs :
        locked[b] = p <=> pc[p] \in {"bread", "held"} /\ buf[p] = b

\* A buffer handed to a caller has been read.
HeldValid == \A p \in Procs : pc[p] = "held" => valid[buf[p]] = 1

\* A buffer that is neither pinned nor in use by a caller equals its block on
\* disk: it can be recycled without losing anything.
CleanOrKept ==
    \A b \in Bufs : valid[b] = 1 =>
        /\ blockno[b] \in Blocks
        /\ \/ data[b] = disk[blockno[b]]
           \/ b \in pinned
           \/ \E p \in Procs : pc[p] = "held" /\ buf[p] = b

BcacheInv ==
    /\ TypeOK
    /\ ListWhole
    /\ RefcntExact
    /\ OneCopy
    /\ RightBuffer
    /\ LockHeld
    /\ HeldValid
    /\ CleanOrKept
    /\ SleeperHasHolder

----------------------------------------------------------------------------
LEMMA UsersFinite == \A b \in Bufs : IsFiniteSet(UsersOf(b))
  <1> TAKE b \in Bufs
  <1>1. UsersOf(b) \subseteq Procs /\ IsFiniteSet(Procs)
    BY BcacheAssumption DEF UsersOf
  <1> QED
    BY <1>1, FS_Subset

\* A buffer with refcnt 0 has no user and no pin.
LEMMA UnusedBuffer ==
    ASSUME TypeOK, RefcntExact, NEW b \in Bufs, refcnt[b] = 0
    PROVE  b \notin pinned /\ \A p \in Procs : ~(pc[p] \in Referring /\ buf[p] = b)
  <1>1. Cardinality(UsersOf(b)) \in Nat
    BY UsersFinite, FS_CardinalityType
  <1>2. Cardinality(UsersOf(b)) + (IF b \in pinned THEN 1 ELSE 0) = 0
    BY DEF RefcntExact, UsersOf
  <1>3. Cardinality(UsersOf(b)) = 0 /\ b \notin pinned
    BY <1>1, <1>2
  <1>4. UsersOf(b) = {}
    BY <1>3, UsersFinite, FS_EmptySet
  <1> QED
    BY <1>3, <1>4 DEF UsersOf

\* Moving a buffer to the front of the list loses none.
LEMMA MovedIsList ==
    ASSUME TypeOK, ListWhole, NEW b \in Bufs
    PROVE  /\ MovedToFront(b) \in [Bufs -> Bufs]
           /\ \A c \in Bufs : \E k \in Bufs : MovedToFront(b)[k] = c
  <1> USE BcacheAssumption DEF TypeOK
  <1> DEFINE at == CHOOSE k \in Bufs : lru[k] = b
             m == MovedToFront(b)
  <1>1. at \in Bufs /\ lru[at] = b
    BY DEF ListWhole
  <1> HIDE DEF at
  <1>2. m = [k \in Bufs |-> IF k = 1 THEN b ELSE IF k <= at THEN lru[k - 1] ELSE lru[k]]
    BY DEF MovedToFront, at
  <1> HIDE DEF m
  <1>3. m \in [Bufs -> Bufs]
    <2>1. ASSUME NEW k \in Bufs, k # 1 PROVE k - 1 \in Bufs
      BY <2>1 DEF Bufs
    <2>2. ASSUME NEW k \in Bufs
          PROVE  (IF k = 1 THEN b ELSE IF k <= at THEN lru[k - 1] ELSE lru[k]) \in Bufs
      BY <2>1
    <2> QED
      BY <1>2, <2>2
  <1>4. ASSUME NEW c \in Bufs PROVE \E k \in Bufs : m[k] = c
    <2>1. CASE c = b
      BY <2>1, <1>2 DEF Bufs
    <2>2. CASE c # b
      <3>1. PICK j \in Bufs : lru[j] = c
        BY DEF ListWhole
      <3>2. CASE j < at
        <4>1. j + 1 \in Bufs /\ m[j + 1] = c
          BY <3>1, <3>2, <1>1, <1>2 DEF Bufs
        <4> QED
          BY <4>1
      <3>3. CASE j > at
        <4>1. m[j] = c
          BY <3>1, <3>3, <1>1, <1>2 DEF Bufs
        <4> QED
          BY <4>1
      <3> QED
        BY <3>1, <3>2, <3>3, <2>2, <1>1 DEF Bufs
    <2> QED
      BY <2>1, <2>2
  <1> QED
    BY <1>3, <1>4 DEF m

\* The types of the variables are preserved.
LEMMA TypeStep ==
    ASSUME TypeOK, ListWhole, RightBuffer, [Next]_vars
    PROVE  TypeOK'
  <1> USE BcacheAssumption DEF TypeOK, RightBuffer, PC, Referring, At
  <1>1. ASSUME NEW p \in Procs, NEW k \in Blocks, Call(p, k) PROVE TypeOK'
    BY <1>1 DEF Call, Goto
  <1>2. ASSUME NEW p \in Procs, BgetHit(p) PROVE TypeOK'
    BY <1>2 DEF BgetHit, Cached, Goto
  <1>3. ASSUME NEW p \in Procs, BgetRecycle(p) PROVE TypeOK'
    BY <1>3 DEF BgetRecycle, Cached, Unused, Goto
  <1>4. ASSUME NEW p \in Procs, BgetPanic(p) PROVE TypeOK'
    BY <1>4 DEF BgetPanic
  <1>5. ASSUME NEW p \in Procs, AcquireSleep(p) PROVE TypeOK'
    BY <1>5 DEF AcquireSleep, Goto
  <1>6. ASSUME NEW p \in Procs, Asleep(p) PROVE TypeOK'
    BY <1>6 DEF Asleep, Goto
  <1>7. ASSUME NEW p \in Procs, Bread(p) PROVE TypeOK'
    BY <1>7 DEF Bread, Goto
  <1>8. ASSUME NEW p \in Procs, NEW v \in Values, Modify(p, v) PROVE TypeOK'
    BY <1>8 DEF Modify
  <1>9. ASSUME NEW p \in Procs, Bwrite(p) PROVE TypeOK'
    BY <1>9 DEF Bwrite
  <1>10. ASSUME NEW p \in Procs, Bpin(p) PROVE TypeOK'
    BY <1>10 DEF Bpin
  <1>11. ASSUME NEW p \in Procs, Bunpin(p) PROVE TypeOK'
    BY <1>11 DEF Bunpin
  <1>12. ASSUME NEW p \in Procs, ReleaseSleep(p) PROVE TypeOK'
    BY <1>12 DEF ReleaseSleep
  <1>13. ASSUME NEW p \in Procs, Brelse(p) PROVE TypeOK'
    <2>1. lru' \in [Bufs -> Bufs]
      BY <1>13, MovedIsList DEF Brelse
    <2>2. buf' \in [Procs -> Bufs]
      BY <1>13 DEF Brelse, Bufs
    <2> QED
      BY <1>13, <2>1, <2>2 DEF Brelse, Goto
  <1>14. CASE UNCHANGED vars
    BY <1>14 DEF vars
  <1> QED
    BY <1>1, <1>2, <1>3, <1>4, <1>5, <1>6, <1>7, <1>8, <1>9, <1>10, <1>11,
       <1>12, <1>13, <1>14 DEF Next, Get, Use, Frozen

\* brelse() rearranges the list and loses no buffer.
LEMMA ListStep ==
    ASSUME TypeOK, ListWhole, [Next]_vars
    PROVE  ListWhole'
  <1> USE DEF TypeOK, ListWhole, At
  <1>1. ASSUME NEW p \in Procs, NEW k \in Blocks, Call(p, k) PROVE ListWhole'
    BY <1>1 DEF Call, Goto
  <1>2. ASSUME NEW p \in Procs, BgetHit(p) PROVE ListWhole'
    BY <1>2 DEF BgetHit, Cached, Goto
  <1>3. ASSUME NEW p \in Procs, BgetRecycle(p) PROVE ListWhole'
    BY <1>3 DEF BgetRecycle, Cached, Unused, Goto
  <1>4. ASSUME NEW p \in Procs, BgetPanic(p) PROVE ListWhole'
    BY <1>4 DEF BgetPanic
  <1>5. ASSUME NEW p \in Procs, AcquireSleep(p) PROVE ListWhole'
    BY <1>5 DEF AcquireSleep, Goto
  <1>6. ASSUME NEW p \in Procs, Asleep(p) PROVE ListWhole'
    BY <1>6 DEF Asleep, Goto
  <1>7. ASSUME NEW p \in Procs, Bread(p) PROVE ListWhole'
    BY <1>7 DEF Bread, Goto
  <1>8. ASSUME NEW p \in Procs, NEW v \in Values, Modify(p, v) PROVE ListWhole'
    BY <1>8 DEF Modify
  <1>9. ASSUME NEW p \in Procs, Bwrite(p) PROVE ListWhole'
    BY <1>9 DEF Bwrite
  <1>10. ASSUME NEW p \in Procs, Bpin(p) PROVE ListWhole'
    BY <1>10 DEF Bpin
  <1>11. ASSUME NEW p \in Procs, Bunpin(p) PROVE ListWhole'
    BY <1>11 DEF Bunpin
  <1>12. ASSUME NEW p \in Procs, ReleaseSleep(p) PROVE ListWhole'
    BY <1>12 DEF ReleaseSleep
  <1>13. ASSUME NEW p \in Procs, Brelse(p) PROVE ListWhole'
    BY <1>13, MovedIsList DEF Brelse
  <1>14. CASE UNCHANGED vars
    BY <1>14 DEF vars
  <1> QED
    BY <1>1, <1>2, <1>3, <1>4, <1>5, <1>6, <1>7, <1>8, <1>9, <1>10, <1>11,
       <1>12, <1>13, <1>14 DEF Next, Get, Use, Frozen

\* bget() takes a buffer for a block only when no buffer has it.
LEMMA OneCopyStep ==
    ASSUME TypeOK, OneCopy, [Next]_vars
    PROVE  OneCopy'
  <1> USE BcacheAssumption DEF TypeOK, OneCopy, PC, Referring, At
  <1>1. ASSUME NEW p \in Procs, NEW k \in Blocks, Call(p, k) PROVE OneCopy'
    BY <1>1 DEF Call, Goto
  <1>2. ASSUME NEW p \in Procs, BgetHit(p) PROVE OneCopy'
    BY <1>2 DEF BgetHit, Cached, Goto
  <1>3. ASSUME NEW p \in Procs, BgetRecycle(p) PROVE OneCopy'
    BY <1>3 DEF BgetRecycle, Cached, Unused, Goto
  <1>4. ASSUME NEW p \in Procs, BgetPanic(p) PROVE OneCopy'
    BY <1>4 DEF BgetPanic
  <1>5. ASSUME NEW p \in Procs, AcquireSleep(p) PROVE OneCopy'
    BY <1>5 DEF AcquireSleep, Goto
  <1>6. ASSUME NEW p \in Procs, Asleep(p) PROVE OneCopy'
    BY <1>6 DEF Asleep, Goto
  <1>7. ASSUME NEW p \in Procs, Bread(p) PROVE OneCopy'
    BY <1>7 DEF Bread, Goto
  <1>8. ASSUME NEW p \in Procs, NEW v \in Values, Modify(p, v) PROVE OneCopy'
    BY <1>8 DEF Modify
  <1>9. ASSUME NEW p \in Procs, Bwrite(p) PROVE OneCopy'
    BY <1>9 DEF Bwrite
  <1>10. ASSUME NEW p \in Procs, Bpin(p) PROVE OneCopy'
    BY <1>10 DEF Bpin
  <1>11. ASSUME NEW p \in Procs, Bunpin(p) PROVE OneCopy'
    BY <1>11 DEF Bunpin
  <1>12. ASSUME NEW p \in Procs, ReleaseSleep(p) PROVE OneCopy'
    BY <1>12 DEF ReleaseSleep
  <1>13. ASSUME NEW p \in Procs, Brelse(p) PROVE OneCopy'
    BY <1>13 DEF Brelse, Goto
  <1>14. CASE UNCHANGED vars
    BY <1>14 DEF vars
  <1> QED
    BY <1>1, <1>2, <1>3, <1>4, <1>5, <1>6, <1>7, <1>8, <1>9, <1>10, <1>11,
       <1>12, <1>13, <1>14 DEF Next, Get, Use, Frozen

\* A buffer is not recycled while somebody refers to it.
LEMMA RightBufferStep ==
    ASSUME TypeOK, RefcntExact, RightBuffer, [Next]_vars
    PROVE  RightBuffer'
  <1> USE BcacheAssumption DEF TypeOK, RightBuffer, PC, Referring, At
  <1>1. ASSUME NEW p \in Procs, NEW k \in Blocks, Call(p, k) PROVE RightBuffer'
    BY <1>1 DEF Call, Goto
  <1>2. ASSUME NEW p \in Procs, BgetHit(p) PROVE RightBuffer'
    BY <1>2 DEF BgetHit, Cached, Goto
  <1>3. ASSUME NEW p \in Procs, BgetRecycle(p) PROVE RightBuffer'
    <2>1. PICK k \in Unused : /\ blockno' = [blockno EXCEPT ![lru[k]] = want[p]]
                              /\ buf' = [buf EXCEPT ![p] = lru[k]]
      BY <1>3 DEF BgetRecycle
    <2>2. \A q \in Procs : ~(pc[q] \in Referring /\ buf[q] = lru[k])
      BY UnusedBuffer DEF Unused
    <2>3. pc' = [pc EXCEPT ![p] = "acquiresleep"] /\ UNCHANGED want
      BY <1>3 DEF BgetRecycle, Goto
    <2>4. lru[k] \in Bufs
      BY DEF Unused
    <2>5. ASSUME NEW q \in Procs, pc'[q] \in Referring
          PROVE  blockno'[buf'[q]] = want'[q]
      <3>1. CASE q = p
        BY <3>1, <2>1, <2>3, <2>4
      <3>2. CASE q # p
        BY <3>2, <2>1, <2>2, <2>3, <2>4, <2>5
      <3> QED
        BY <3>1, <3>2
    <2> QED
      BY <2>5
  <1>4. ASSUME NEW p \in Procs, BgetPanic(p) PROVE RightBuffer'
    BY <1>4 DEF BgetPanic
  <1>5. ASSUME NEW p \in Procs, AcquireSleep(p) PROVE RightBuffer'
    BY <1>5 DEF AcquireSleep, Goto
  <1>6. ASSUME NEW p \in Procs, Asleep(p) PROVE RightBuffer'
    BY <1>6 DEF Asleep, Goto
  <1>7. ASSUME NEW p \in Procs, Bread(p) PROVE RightBuffer'
    BY <1>7 DEF Bread, Goto
  <1>8. ASSUME NEW p \in Procs, NEW v \in Values, Modify(p, v)
        PROVE  RightBuffer'
    BY <1>8 DEF Modify
  <1>9. ASSUME NEW p \in Procs, Bwrite(p) PROVE RightBuffer'
    BY <1>9 DEF Bwrite
  <1>10. ASSUME NEW p \in Procs, Bpin(p) PROVE RightBuffer'
    BY <1>10 DEF Bpin
  <1>11. ASSUME NEW p \in Procs, Bunpin(p) PROVE RightBuffer'
    BY <1>11 DEF Bunpin
  <1>12. ASSUME NEW p \in Procs, ReleaseSleep(p) PROVE RightBuffer'
    BY <1>12 DEF ReleaseSleep
  <1>13. ASSUME NEW p \in Procs, Brelse(p) PROVE RightBuffer'
    BY <1>13 DEF Brelse, Goto
  <1>14. CASE UNCHANGED vars
    BY <1>14 DEF vars
  <1> QED
    BY <1>1, <1>2, <1>3, <1>4, <1>5, <1>6, <1>7, <1>8, <1>9, <1>10, <1>11,
       <1>12, <1>13, <1>14 DEF Next, Get, Use, Frozen

\* A sleep-lock has one holder.
LEMMA LockStep ==
    ASSUME TypeOK, LockHeld, [Next]_vars
    PROVE  LockHeld'
  <1> USE BcacheAssumption DEF TypeOK, LockHeld, PC, Referring, At
  <1>1. ASSUME NEW p \in Procs, NEW k \in Blocks, Call(p, k) PROVE LockHeld'
    BY <1>1 DEF Call, Goto
  <1>2. ASSUME NEW p \in Procs, BgetHit(p) PROVE LockHeld'
    BY <1>2 DEF BgetHit, Cached, Goto
  <1>3. ASSUME NEW p \in Procs, BgetRecycle(p) PROVE LockHeld'
    BY <1>3 DEF BgetRecycle, Cached, Unused, Goto
  <1>4. ASSUME NEW p \in Procs, BgetPanic(p) PROVE LockHeld'
    BY <1>4 DEF BgetPanic
  <1>5. ASSUME NEW p \in Procs, AcquireSleep(p) PROVE LockHeld'
    BY <1>5 DEF AcquireSleep, Goto
  <1>6. ASSUME NEW p \in Procs, Asleep(p) PROVE LockHeld'
    BY <1>6 DEF Asleep, Goto
  <1>7. ASSUME NEW p \in Procs, Bread(p) PROVE LockHeld'
    BY <1>7 DEF Bread, Goto
  <1>8. ASSUME NEW p \in Procs, NEW v \in Values, Modify(p, v) PROVE LockHeld'
    BY <1>8 DEF Modify
  <1>9. ASSUME NEW p \in Procs, Bwrite(p) PROVE LockHeld'
    BY <1>9 DEF Bwrite
  <1>10. ASSUME NEW p \in Procs, Bpin(p) PROVE LockHeld'
    BY <1>10 DEF Bpin
  <1>11. ASSUME NEW p \in Procs, Bunpin(p) PROVE LockHeld'
    BY <1>11 DEF Bunpin
  <1>12. ASSUME NEW p \in Procs, ReleaseSleep(p) PROVE LockHeld'
    BY <1>12 DEF ReleaseSleep
  <1>13. ASSUME NEW p \in Procs, Brelse(p) PROVE LockHeld'
    BY <1>13 DEF Brelse, Goto
  <1>14. CASE UNCHANGED vars
    BY <1>14 DEF vars
  <1> QED
    BY <1>1, <1>2, <1>3, <1>4, <1>5, <1>6, <1>7, <1>8, <1>9, <1>10, <1>11,
       <1>12, <1>13, <1>14 DEF Next, Get, Use, Frozen

\* Nobody invalidates a buffer in use.
LEMMA HeldValidStep ==
    ASSUME TypeOK, RefcntExact, LockHeld, HeldValid, [Next]_vars
    PROVE  HeldValid'
  <1> USE BcacheAssumption DEF TypeOK, HeldValid, PC, Referring, At
  <1>1. ASSUME NEW p \in Procs, NEW k \in Blocks, Call(p, k) PROVE HeldValid'
    BY <1>1 DEF Call, Goto
  <1>2. ASSUME NEW p \in Procs, BgetHit(p) PROVE HeldValid'
    BY <1>2 DEF BgetHit, Cached, Goto
  <1>3. ASSUME NEW p \in Procs, BgetRecycle(p) PROVE HeldValid'
    <2>1. PICK k \in Unused : /\ valid' = [valid EXCEPT ![lru[k]] = 0]
                              /\ buf' = [buf EXCEPT ![p] = lru[k]]
      BY <1>3 DEF BgetRecycle
    <2>2. \A q \in Procs : ~(pc[q] \in Referring /\ buf[q] = lru[k])
      BY UnusedBuffer DEF Unused
    <2> QED
      BY <1>3, <2>1, <2>2 DEF BgetRecycle, Goto
  <1>4. ASSUME NEW p \in Procs, BgetPanic(p) PROVE HeldValid'
    BY <1>4 DEF BgetPanic
  <1>5. ASSUME NEW p \in Procs, AcquireSleep(p) PROVE HeldValid'
    BY <1>5 DEF AcquireSleep, Goto
  <1>6. ASSUME NEW p \in Procs, Asleep(p) PROVE HeldValid'
    BY <1>6 DEF Asleep, Goto
  <1>7. ASSUME NEW p \in Procs, Bread(p) PROVE HeldValid'
    BY <1>7 DEF Bread, Goto
  <1>8. ASSUME NEW p \in Procs, NEW v \in Values, Modify(p, v) PROVE HeldValid'
    BY <1>8 DEF Modify
  <1>9. ASSUME NEW p \in Procs, Bwrite(p) PROVE HeldValid'
    BY <1>9 DEF Bwrite
  <1>10. ASSUME NEW p \in Procs, Bpin(p) PROVE HeldValid'
    BY <1>10 DEF Bpin
  <1>11. ASSUME NEW p \in Procs, Bunpin(p) PROVE HeldValid'
    BY <1>11 DEF Bunpin
  <1>12. ASSUME NEW p \in Procs, ReleaseSleep(p) PROVE HeldValid'
    BY <1>12 DEF ReleaseSleep
  <1>13. ASSUME NEW p \in Procs, Brelse(p) PROVE HeldValid'
    BY <1>13 DEF Brelse, Goto
  <1>14. CASE UNCHANGED vars
    BY <1>14 DEF vars
  <1> QED
    BY <1>1, <1>2, <1>3, <1>4, <1>5, <1>6, <1>7, <1>8, <1>9, <1>10, <1>11,
       <1>12, <1>13, <1>14 DEF Next, Get, Use, Frozen

\* releasesleep() wakes everybody asleep on the lock.
LEMMA SleeperStep ==
    ASSUME TypeOK, SleeperHasHolder, [Next]_vars
    PROVE  SleeperHasHolder'
  <1> USE BcacheAssumption DEF TypeOK, SleeperHasHolder, PC, Referring, At
  <1>1. ASSUME NEW p \in Procs, NEW k \in Blocks, Call(p, k)
        PROVE  SleeperHasHolder'
    BY <1>1 DEF Call, Goto
  <1>2. ASSUME NEW p \in Procs, BgetHit(p) PROVE SleeperHasHolder'
    BY <1>2 DEF BgetHit, Cached, Goto
  <1>3. ASSUME NEW p \in Procs, BgetRecycle(p) PROVE SleeperHasHolder'
    BY <1>3 DEF BgetRecycle, Cached, Unused, Goto
  <1>4. ASSUME NEW p \in Procs, BgetPanic(p) PROVE SleeperHasHolder'
    BY <1>4 DEF BgetPanic
  <1>5. ASSUME NEW p \in Procs, AcquireSleep(p) PROVE SleeperHasHolder'
    BY <1>5 DEF AcquireSleep, Goto
  <1>6. ASSUME NEW p \in Procs, Asleep(p) PROVE SleeperHasHolder'
    BY <1>6 DEF Asleep, Goto
  <1>7. ASSUME NEW p \in Procs, Bread(p) PROVE SleeperHasHolder'
    BY <1>7 DEF Bread, Goto
  <1>8. ASSUME NEW p \in Procs, NEW v \in Values, Modify(p, v)
        PROVE  SleeperHasHolder'
    BY <1>8 DEF Modify
  <1>9. ASSUME NEW p \in Procs, Bwrite(p) PROVE SleeperHasHolder'
    BY <1>9 DEF Bwrite
  <1>10. ASSUME NEW p \in Procs, Bpin(p) PROVE SleeperHasHolder'
    BY <1>10 DEF Bpin
  <1>11. ASSUME NEW p \in Procs, Bunpin(p) PROVE SleeperHasHolder'
    BY <1>11 DEF Bunpin
  <1>12. ASSUME NEW p \in Procs, ReleaseSleep(p) PROVE SleeperHasHolder'
    BY <1>12 DEF ReleaseSleep
  <1>13. ASSUME NEW p \in Procs, Brelse(p) PROVE SleeperHasHolder'
    BY <1>13 DEF Brelse, Goto
  <1>14. CASE UNCHANGED vars
    BY <1>14 DEF vars
  <1> QED
    BY <1>1, <1>2, <1>3, <1>4, <1>5, <1>6, <1>7, <1>8, <1>9, <1>10, <1>11,
       <1>12, <1>13, <1>14 DEF Next, Get, Use, Frozen

\* What is not on disk stays pinned or in use.
LEMMA CleanStep ==
    ASSUME BcacheInv, [Next]_vars
    PROVE  CleanOrKept'
  <1> USE BcacheAssumption DEF BcacheInv, TypeOK, OneCopy, RightBuffer, LockHeld,
     HeldValid, CleanOrKept, Clean, PC, Referring, At
  <1>1. ASSUME NEW p \in Procs, NEW k \in Blocks, Call(p, k) PROVE CleanOrKept'
    BY <1>1 DEF Call, Goto
  <1>2. ASSUME NEW p \in Procs, BgetHit(p) PROVE CleanOrKept'
    BY <1>2 DEF BgetHit, Cached, Goto
  <1>3. ASSUME NEW p \in Procs, BgetRecycle(p) PROVE CleanOrKept'
    BY <1>3 DEF BgetRecycle, Cached, Unused, Goto
  <1>4. ASSUME NEW p \in Procs, BgetPanic(p) PROVE CleanOrKept'
    BY <1>4 DEF BgetPanic
  <1>5. ASSUME NEW p \in Procs, AcquireSleep(p) PROVE CleanOrKept'
    BY <1>5 DEF AcquireSleep, Goto
  <1>6. ASSUME NEW p \in Procs, Asleep(p) PROVE CleanOrKept'
    BY <1>6 DEF Asleep, Goto
  <1>7. ASSUME NEW p \in Procs, Bread(p) PROVE CleanOrKept'
    BY <1>7, SMTT(60) DEF Bread, Goto
  <1>8. ASSUME NEW p \in Procs, NEW v \in Values, Modify(p, v)
        PROVE  CleanOrKept'
    BY <1>8 DEF Modify
  <1>9. ASSUME NEW p \in Procs, Bwrite(p) PROVE CleanOrKept'
    BY <1>9 DEF Bwrite
  <1>10. ASSUME NEW p \in Procs, Bpin(p) PROVE CleanOrKept'
    BY <1>10 DEF Bpin
  <1>11. ASSUME NEW p \in Procs, Bunpin(p) PROVE CleanOrKept'
    BY <1>11 DEF Bunpin
  <1>12. ASSUME NEW p \in Procs, ReleaseSleep(p) PROVE CleanOrKept'
    BY <1>12 DEF ReleaseSleep
  <1>13. ASSUME NEW p \in Procs, Brelse(p) PROVE CleanOrKept'
    BY <1>13 DEF Brelse, Goto
  <1>14. CASE UNCHANGED vars
    BY <1>14 DEF vars
  <1> QED
    BY <1>1, <1>2, <1>3, <1>4, <1>5, <1>6, <1>7, <1>8, <1>9, <1>10, <1>11,
       <1>12, <1>13, <1>14 DEF Next, Get, Use, Frozen

----------------------------------------------------------------------------
(* Reference counts *)

LEMMA RefcntOf ==
    ASSUME RefcntExact, NEW b \in Bufs
    PROVE  refcnt[b] = Cardinality(UsersOf(b)) + IF b \in pinned THEN 1 ELSE 0
  BY DEF RefcntExact, UsersOf

LEMMA RefcntKept ==
    ASSUME RefcntExact, UNCHANGED <<refcnt, pinned>>,
           \A b \in Bufs : UsersOf(b)' = UsersOf(b)
    PROVE  RefcntExact'
  <1>1. ASSUME NEW b \in Bufs
        PROVE  refcnt'[b] = Cardinality(UsersOf(b)') + IF b \in pinned' THEN 1 ELSE 0
    BY RefcntOf
  <1> QED
    BY <1>1 DEF RefcntExact, UsersOf

\* A step that changes the count, the users or the pin of one buffer only.
LEMMA RefcntOne ==
    ASSUME TypeOK, RefcntExact, NEW c \in Bufs, NEW n,
           refcnt' = [refcnt EXCEPT ![c] = n],
           n = Cardinality(UsersOf(c)') + IF c \in pinned' THEN 1 ELSE 0,
           \A b \in Bufs : b # c =>
              UsersOf(b)' = UsersOf(b) /\ (b \in pinned' <=> b \in pinned)
    PROVE  RefcntExact'
  <1>1. ASSUME NEW b \in Bufs
        PROVE  refcnt'[b] = Cardinality(UsersOf(b)') + IF b \in pinned' THEN 1 ELSE 0
    <2>1. CASE b = c
      BY <2>1 DEF TypeOK
    <2>2. CASE b # c
      BY <2>2, RefcntOf DEF TypeOK
    <2> QED
      BY <2>1, <2>2
  <1> QED
    BY <1>1 DEF RefcntExact, UsersOf

\* Every step that starts or ends a reference counts it.
LEMMA RefcntStep ==
    ASSUME TypeOK, RefcntExact, [Next]_vars
    PROVE  RefcntExact'
  <1> USE DEF TypeOK, PC, Referring, At
  <1>1. ASSUME NEW p \in Procs, NEW k \in Blocks, Call(p, k) PROVE RefcntExact'
    <2>1. \A b \in Bufs : UsersOf(b)' = UsersOf(b)
      BY <1>1 DEF UsersOf, Call, Goto
    <2> QED
      BY <1>1, <2>1, RefcntKept DEF Call
  <1>2. ASSUME NEW p \in Procs, BgetHit(p) PROVE RefcntExact'
    <2>1. PICK c \in Bufs : /\ refcnt' = [refcnt EXCEPT ![c] = @ + 1]
                            /\ buf' = [buf EXCEPT ![p] = c]
      BY <1>2 DEF BgetHit, Cached
    <2>2. /\ UsersOf(c)' = UsersOf(c) \union {p} /\ p \notin UsersOf(c)
          /\ \A b \in Bufs : b # c => UsersOf(b)' = UsersOf(b)
      BY <1>2, <2>1 DEF UsersOf, BgetHit, Goto
    <2>3. UNCHANGED pinned
      BY <1>2 DEF BgetHit
    <2>4. /\ Cardinality(UsersOf(c)') = Cardinality(UsersOf(c)) + 1
          /\ Cardinality(UsersOf(c)) \in Nat
      BY <2>2, UsersFinite, FS_AddElement, FS_CardinalityType
    <2>5. refcnt[c] + 1 = Cardinality(UsersOf(c)') + IF c \in pinned THEN 1 ELSE 0
      BY <2>4, RefcntOf
    <2>6. refcnt' = [refcnt EXCEPT ![c] = refcnt[c] + 1]
      BY <2>1
    <2> QED
      BY <2>2, <2>3, <2>5, <2>6, RefcntOne
  <1>3. ASSUME NEW p \in Procs, BgetRecycle(p) PROVE RefcntExact'
    <2>1. PICK k \in Unused : /\ refcnt' = [refcnt EXCEPT ![lru[k]] = 1]
                              /\ buf' = [buf EXCEPT ![p] = lru[k]]
      BY <1>3 DEF BgetRecycle
    <2>2. PICK c \in Bufs : c = lru[k] /\ refcnt[c] = 0
      BY DEF Unused
    <2>3. c \notin pinned /\ UsersOf(c) = {}
      BY <2>2, UnusedBuffer DEF UsersOf
    <2>4. /\ UsersOf(c)' = UsersOf(c) \union {p} /\ p \notin UsersOf(c)
          /\ \A b \in Bufs : b # c => UsersOf(b)' = UsersOf(b)
      BY <1>3, <2>1, <2>2, <2>3 DEF UsersOf, BgetRecycle, Goto
    <2>5. UNCHANGED pinned
      BY <1>3 DEF BgetRecycle
    <2>6. 1 = Cardinality(UsersOf(c)') + IF c \in pinned THEN 1 ELSE 0
      <3>1. UsersOf(c)' = {p}
        BY <2>3, <2>4
      <3>2. Cardinality({p}) = 1
        BY FS_Singleton
      <3> QED
        BY <3>1, <3>2, <2>3
    <2>7. refcnt' = [refcnt EXCEPT ![c] = 1]
      BY <2>1, <2>2
    <2> QED
      BY <2>2, <2>4, <2>5, <2>6, <2>7, RefcntOne
  <1>4. ASSUME NEW p \in Procs, BgetPanic(p) PROVE RefcntExact'
    <2>1. \A b \in Bufs : UsersOf(b)' = UsersOf(b)
      BY <1>4 DEF UsersOf, BgetPanic
    <2> QED
      BY <1>4, <2>1, RefcntKept DEF BgetPanic
  <1>5. ASSUME NEW p \in Procs, AcquireSleep(p) PROVE RefcntExact'
    <2>1. \A b \in Bufs : UsersOf(b)' = UsersOf(b)
      BY <1>5 DEF UsersOf, AcquireSleep, Goto
    <2> QED
      BY <1>5, <2>1, RefcntKept DEF AcquireSleep
  <1>6. ASSUME NEW p \in Procs, Asleep(p) PROVE RefcntExact'
    <2>1. \A b \in Bufs : UsersOf(b)' = UsersOf(b)
      BY <1>6 DEF UsersOf, Asleep, Goto
    <2> QED
      BY <1>6, <2>1, RefcntKept DEF Asleep
  <1>7. ASSUME NEW p \in Procs, Bread(p) PROVE RefcntExact'
    <2>1. \A b \in Bufs : UsersOf(b)' = UsersOf(b)
      BY <1>7 DEF UsersOf, Bread, Goto
    <2> QED
      BY <1>7, <2>1, RefcntKept DEF Bread
  <1>8. ASSUME NEW p \in Procs, NEW v \in Values, Modify(p, v)
        PROVE  RefcntExact'
    <2>1. \A b \in Bufs : UsersOf(b)' = UsersOf(b)
      BY <1>8 DEF UsersOf, Modify
    <2> QED
      BY <1>8, <2>1, RefcntKept DEF Modify
  <1>9. ASSUME NEW p \in Procs, Bwrite(p) PROVE RefcntExact'
    <2>1. \A b \in Bufs : UsersOf(b)' = UsersOf(b)
      BY <1>9 DEF UsersOf, Bwrite
    <2> QED
      BY <1>9, <2>1, RefcntKept DEF Bwrite
  <1>10. ASSUME NEW p \in Procs, Bpin(p) PROVE RefcntExact'
    <2>1. \A b \in Bufs : UsersOf(b)' = UsersOf(b)
      BY <1>10 DEF UsersOf, Bpin
    <2>2. buf[p] \in Bufs /\ UNCHANGED buf
      BY <1>10 DEF Bpin
    <2>3. refcnt' = [refcnt EXCEPT ![buf[p]] = refcnt[buf[p]] + 1]
      BY <1>10 DEF Bpin
    <2>4. refcnt[buf[p]] + 1 =
             Cardinality(UsersOf(buf[p])) + IF buf[p] \in pinned' THEN 1 ELSE 0
      BY <1>10, RefcntOf, UsersFinite, FS_CardinalityType DEF Bpin
    <2>5. \A b \in Bufs : b # buf[p] => (b \in pinned' <=> b \in pinned)
      BY <1>10 DEF Bpin
    <2> QED
      BY <2>1, <2>2, <2>3, <2>4, <2>5, RefcntOne
  <1>11. ASSUME NEW p \in Procs, Bunpin(p) PROVE RefcntExact'
    <2>1. \A b \in Bufs : UsersOf(b)' = UsersOf(b)
      BY <1>11 DEF UsersOf, Bunpin
    <2>2. buf[p] \in Bufs /\ UNCHANGED buf
      BY <1>11 DEF Bunpin
    <2>3. refcnt' = [refcnt EXCEPT ![buf[p]] = refcnt[buf[p]] - 1]
      BY <1>11 DEF Bunpin
    <2>4. refcnt[buf[p]] - 1 =
             Cardinality(UsersOf(buf[p])) + IF buf[p] \in pinned' THEN 1 ELSE 0
      BY <1>11, RefcntOf, UsersFinite, FS_CardinalityType DEF Bunpin
    <2>5. \A b \in Bufs : b # buf[p] => (b \in pinned' <=> b \in pinned)
      BY <1>11 DEF Bunpin
    <2> QED
      BY <2>1, <2>2, <2>3, <2>4, <2>5, RefcntOne
  <1>12. ASSUME NEW p \in Procs, ReleaseSleep(p) PROVE RefcntExact'
    <2>1. \A b \in Bufs : UsersOf(b)' = UsersOf(b)
      BY <1>12 DEF UsersOf, ReleaseSleep
    <2> QED
      BY <1>12, <2>1, RefcntKept DEF ReleaseSleep
  <1>13. ASSUME NEW p \in Procs, Brelse(p) PROVE RefcntExact'
    <2>1. PICK c \in Bufs : c = buf[p]
      OBVIOUS
    <2>2. /\ UsersOf(c)' = UsersOf(c) \ {p} /\ p \in UsersOf(c)
          /\ \A b \in Bufs : b # c => UsersOf(b)' = UsersOf(b)
      BY <1>13, <2>1 DEF UsersOf, Brelse, Goto
    <2>3. UNCHANGED pinned /\ refcnt' = [refcnt EXCEPT ![c] = refcnt[c] - 1]
      BY <1>13, <2>1 DEF Brelse
    <2>4. /\ Cardinality(UsersOf(c)') = Cardinality(UsersOf(c)) - 1
          /\ Cardinality(UsersOf(c)) \in Nat
      BY <2>2, UsersFinite, FS_RemoveElement, FS_CardinalityType
    <2>5. refcnt[c] - 1 = Cardinality(UsersOf(c)') + IF c \in pinned THEN 1 ELSE 0
      BY <2>4, RefcntOf
    <2> QED
      BY <2>2, <2>3, <2>5, RefcntOne
  <1>14. CASE UNCHANGED vars
    BY <1>14 DEF vars, RefcntExact
  <1> QED
    BY <1>1, <1>2, <1>3, <1>4, <1>5, <1>6, <1>7, <1>8, <1>9, <1>10, <1>11,
       <1>12, <1>13, <1>14 DEF Next, Get, Use, Frozen

----------------------------------------------------------------------------
(* The invariant *)

LEMMA InitBcacheInv == Init => BcacheInv
  <1> SUFFICES ASSUME Init PROVE BcacheInv
    OBVIOUS
  <1> USE BcacheAssumption
  <1>1. TypeOK
    BY DEF Init, TypeOK, PC, Bufs
  <1>2. ListWhole
    <2> SUFFICES ASSUME NEW b \in Bufs PROVE \E k \in Bufs : lru[k] = b
      BY DEF ListWhole
    <2>1. NBUF + 1 - b \in Bufs /\ lru[NBUF + 1 - b] = b
      BY DEF Init, Bufs
    <2> QED
      BY <2>1
  <1>3. RefcntExact
    <2>1. \A b \in Bufs : UsersOf(b) = {}
      BY DEF Init, UsersOf, Referring
    <2>2. \A b \in Bufs : refcnt[b] = Cardinality(UsersOf(b)) + IF b \in pinned THEN 1 ELSE 0
      <3> TAKE b \in Bufs
      <3>1. Cardinality(UsersOf(b)) = 0
        BY <2>1, FS_EmptySet
      <3> QED
        BY <3>1 DEF Init
    <2> QED
      BY <2>2 DEF RefcntExact, UsersOf
  <1>4. OneCopy /\ RightBuffer /\ LockHeld /\ HeldValid /\ CleanOrKept /\ SleeperHasHolder
    BY DEF Init, OneCopy, RightBuffer, LockHeld, HeldValid, CleanOrKept,
           SleeperHasHolder, Referring
  <1> QED
    BY <1>1, <1>2, <1>3, <1>4 DEF BcacheInv

LEMMA BcacheInvStep == BcacheInv /\ [Next]_vars => BcacheInv'
  <1> SUFFICES ASSUME BcacheInv, [Next]_vars PROVE BcacheInv'
    OBVIOUS
  <1>1. /\ TypeOK /\ ListWhole /\ RefcntExact /\ OneCopy /\ RightBuffer
        /\ LockHeld /\ HeldValid /\ SleeperHasHolder
    BY DEF BcacheInv
  <1>2. TypeOK' /\ ListWhole' /\ RefcntExact' /\ OneCopy'
    BY <1>1, TypeStep, ListStep, RefcntStep, OneCopyStep
  <1>3. RightBuffer' /\ LockHeld' /\ HeldValid' /\ SleeperHasHolder' /\ CleanOrKept'
    BY <1>1, RightBufferStep, LockStep, HeldValidStep, SleeperStep, CleanStep
  <1> QED
    BY <1>2, <1>3 DEF BcacheInv

\* The inductive invariant: exact counts protect a buffer in use from being
\* recycled, and what is recycled is on disk.
THEOREM BcacheInvariant == Spec => []BcacheInv
  BY InitBcacheInv, BcacheInvStep, PTL DEF Spec

\* bget(), brelse(), bpin() and bunpin() keep refcnt equal to the number of
\* users plus the log's pin, for any number of processes and buffers.
THEOREM ExactReferences == Spec => []RefcntExact
  <1>1. BcacheInv => RefcntExact
    BY DEF BcacheInv
  <1> QED
    BY <1>1, BcacheInvariant, PTL

\* acquiresleep() and releasesleep() lose no wakeup: whoever sleeps on b->lock
\* waits for a process that holds it.
THEOREM NoLostSleeper == Spec => []SleeperHasHolder
  <1>1. BcacheInv => SleeperHasHolder
    BY DEF BcacheInv
  <1> QED
    BY <1>1, BcacheInvariant, PTL

----------------------------------------------------------------------------
(* The cache implements BlockStore *)

\* What bread() would return: the valid copy, or else the block on disk.
LEMMA ContentsIs ==
    ASSUME BcacheInv, NEW k \in Blocks
    PROVE  /\ \A b \in Bufs : blockno[b] = k /\ valid[b] = 1 => Contents(k) = data[b]
           /\ (\A b \in Bufs : ~(blockno[b] = k /\ valid[b] = 1)) =>
                 Contents(k) = disk[k]
  <1>1. k # NoBlock
    BY BcacheAssumption
  <1>2. ASSUME NEW b \in Bufs, blockno[b] = k, valid[b] = 1
        PROVE  Contents(k) = data[b]
    <2>1. \A c \in Cached(k) : c = b
      BY <1>1, <1>2 DEF Cached, BcacheInv, OneCopy
    <2>2. b \in Cached(k)
      BY <1>2 DEF Cached
    <2>3. (CHOOSE c \in Cached(k) : valid[c] = 1) = b
      BY <1>2, <2>1, <2>2
    <2> QED
      BY <1>2, <2>2, <2>3 DEF Contents
  <1>3. ASSUME \A b \in Bufs : ~(blockno[b] = k /\ valid[b] = 1)
        PROVE  Contents(k) = disk[k]
    BY <1>3 DEF Contents, Cached
  <1> QED
    BY <1>2, <1>3

LEMMA PrimedContentsIs ==
    (BcacheInv => \A k \in Blocks :
        /\ \A b \in Bufs : blockno[b] = k /\ valid[b] = 1 => Contents(k) = data[b]
        /\ (\A b \in Bufs : ~(blockno[b] = k /\ valid[b] = 1)) =>
              Contents(k) = disk[k])'
  <1>1. BcacheInv => \A k \in Blocks :
          /\ \A b \in Bufs : blockno[b] = k /\ valid[b] = 1 => Contents(k) = data[b]
          /\ (\A b \in Bufs : ~(blockno[b] = k /\ valid[b] = 1)) =>
                Contents(k) = disk[k]
    BY ContentsIs
  <1> QED
    BY <1>1, PTL

\* A block has one user at a time: two of them would have the same buffer and
\* hold the same sleep-lock.
LEMMA OneUser ==
    ASSUME BcacheInv, NEW p \in Procs, NEW q \in Procs,
           pc[p] = "held", pc[q] = "held", want[p] = want[q]
    PROVE  p = q
  <1> USE DEF BcacheInv, TypeOK
  <1>1. buf[p] = buf[q]
    BY BcacheAssumption DEF RightBuffer, OneCopy, Referring, PC
  <1> QED
    BY <1>1 DEF LockHeld

LEMMA OwnerIs ==
    ASSUME BcacheInv, NEW k \in Blocks
    PROVE  /\ Owner(k) \in Procs \union {NoProc}
           /\ \A p \in Procs : Owner(k) = p <=> pc[p] = "held" /\ want[p] = k
  <1>1. CASE \E p \in Procs : pc[p] = "held" /\ want[p] = k
    <2>1. /\ Owner(k) \in Procs
          /\ pc[Owner(k)] = "held" /\ want[Owner(k)] = k
      BY <1>1 DEF Owner
    <2> QED
      BY <2>1, OneUser
  <1>2. CASE ~\E p \in Procs : pc[p] = "held" /\ want[p] = k
    BY <1>2, BcacheAssumption DEF Owner
  <1> QED
    BY <1>1, <1>2

LEMMA PrimedOwnerIs ==
    (BcacheInv => \A k \in Blocks :
        /\ Owner(k) \in Procs \union {NoProc}
        /\ \A p \in Procs : Owner(k) = p <=> pc[p] = "held" /\ want[p] = k)'
  <1>1. BcacheInv => \A k \in Blocks :
          /\ Owner(k) \in Procs \union {NoProc}
          /\ \A p \in Procs : Owner(k) = p <=> pc[p] = "held" /\ want[p] = k
    BY OwnerIs
  <1> QED
    BY <1>1, PTL

LEMMA OwnerKept ==
    ASSUME BcacheInv, BcacheInv',
           \A q \in Procs, k \in Blocks :
              pc'[q] = "held" /\ want'[q] = k <=> pc[q] = "held" /\ want[q] = k
    PROVE  \A k \in Blocks : Owner(k)' = Owner(k)
  <1> TAKE k \in Blocks
  <1>1. \A q \in Procs : Owner(k)' = q <=> Owner(k) = q
    BY OwnerIs, PrimedOwnerIs
  <1>2. Owner(k) \in Procs \union {NoProc} /\ Owner(k)' \in Procs \union {NoProc}
    BY OwnerIs, PrimedOwnerIs
  <1> QED
    BY <1>1, <1>2

\* Only the caller's own change of b->data changes what bread() returns.
LEMMA ContentsStep ==
    ASSUME BcacheInv, BcacheInv', ~\E p \in Procs, v \in Values : Modify(p, v), [Next]_vars
    PROVE  \A k \in Blocks : Contents(k)' = Contents(k)
  <1> USE DEF BcacheInv, TypeOK, At
  <1>1. ASSUME NEW p \in Procs, NEW m \in Blocks, Call(p, m)
        PROVE  \A k \in Blocks : Contents(k)' = Contents(k)
    <2>1. UNCHANGED <<disk, blockno, valid, data>>
      BY <1>1 DEF Call
    <2> QED
      BY <2>1 DEF Contents, Cached
  <1>2. ASSUME NEW p \in Procs, BgetHit(p)
        PROVE  \A k \in Blocks : Contents(k)' = Contents(k)
    <2>1. UNCHANGED <<disk, blockno, valid, data>>
      BY <1>2 DEF BgetHit
    <2> QED
      BY <2>1 DEF Contents, Cached
  <1>3. ASSUME NEW p \in Procs, BgetRecycle(p)
        PROVE  \A k \in Blocks : Contents(k)' = Contents(k)
    <2>1. PICK c \in Bufs : /\ refcnt[c] = 0
                            /\ blockno' = [blockno EXCEPT ![c] = want[p]]
                            /\ valid' = [valid EXCEPT ![c] = 0]
      BY <1>3 DEF BgetRecycle, Unused
    <2>2. UNCHANGED <<disk, data>> /\ \A b \in Bufs : blockno[b] # want[p]
      BY <1>3 DEF BgetRecycle, Cached
    <2>3. valid[c] = 1 => data[c] = disk[blockno[c]]
      BY <2>1, UnusedBuffer DEF CleanOrKept, Referring, PC
    <2> TAKE k \in Blocks
    <2>4. CASE \E b \in Bufs : b # c /\ blockno[b] = k /\ valid[b] = 1
      <3>1. PICK b \in Bufs : b # c /\ blockno[b] = k /\ valid[b] = 1
        BY <2>4
      <3>2. blockno'[b] = k /\ valid'[b] = 1 /\ data'[b] = data[b]
        BY <3>1, <2>1, <2>2
      <3> QED
        BY <3>1, <3>2, ContentsIs, PrimedContentsIs
    <2>5. CASE \A b \in Bufs : b # c /\ blockno[b] = k => valid[b] # 1
      <3>1. Contents(k)' = disk'[k]
        <4>1. \A b \in Bufs : ~(blockno'[b] = k /\ valid'[b] = 1)
          BY <2>1, <2>5
        <4> QED
          BY <4>1, PrimedContentsIs
      <3>2. Contents(k) = disk[k]
        <4>1. CASE blockno[c] = k /\ valid[c] = 1
          BY <4>1, <2>3, ContentsIs
        <4>2. CASE ~(blockno[c] = k /\ valid[c] = 1)
          BY <4>2, <2>5, ContentsIs
        <4> QED
          BY <4>1, <4>2
      <3> QED
        BY <3>1, <3>2, <2>2
    <2> QED
      BY <2>4, <2>5
  <1>4. ASSUME NEW p \in Procs, BgetPanic(p)
        PROVE  \A k \in Blocks : Contents(k)' = Contents(k)
    <2>1. UNCHANGED <<disk, blockno, valid, data>>
      BY <1>4 DEF BgetPanic
    <2> QED
      BY <2>1 DEF Contents, Cached
  <1>5. ASSUME NEW p \in Procs, AcquireSleep(p)
        PROVE  \A k \in Blocks : Contents(k)' = Contents(k)
    <2>1. UNCHANGED <<disk, blockno, valid, data>>
      BY <1>5 DEF AcquireSleep
    <2> QED
      BY <2>1 DEF Contents, Cached
  <1>6. ASSUME NEW p \in Procs, Asleep(p)
        PROVE  \A k \in Blocks : Contents(k)' = Contents(k)
    <2>1. UNCHANGED <<disk, blockno, valid, data>>
      BY <1>6 DEF Asleep
    <2> QED
      BY <2>1 DEF Contents, Cached
  <1>7. ASSUME NEW p \in Procs, Bread(p)
        PROVE  \A k \in Blocks : Contents(k)' = Contents(k)
    <2>1. CASE valid[buf[p]] = 1
      <3>1. UNCHANGED <<disk, blockno, valid, data>>
        BY <1>7, <2>1 DEF Bread
      <3> QED
        BY <3>1 DEF Contents, Cached
    <2>2. CASE valid[buf[p]] = 0
      <3>1. PICK c \in Bufs : c = buf[p]
        OBVIOUS
      <3>2. /\ data' = [data EXCEPT ![c] = disk[blockno[c]]]
            /\ valid' = [valid EXCEPT ![c] = 1]
            /\ UNCHANGED <<disk, blockno>>
        BY <1>7, <2>2, <3>1 DEF Bread
      <3> TAKE k \in Blocks
      <3>3. CASE \E b \in Bufs : b # c /\ blockno[b] = k /\ valid[b] = 1
        <4>1. PICK b \in Bufs : b # c /\ blockno[b] = k /\ valid[b] = 1
          BY <3>3
        <4>2. blockno'[b] = k /\ valid'[b] = 1 /\ data'[b] = data[b]
          BY <4>1, <3>2
        <4> QED
          BY <4>1, <4>2, ContentsIs, PrimedContentsIs
      <3>4. CASE blockno[c] = k
        <4>1. \A b \in Bufs : ~(blockno[b] = k /\ valid[b] = 1)
          <5>1. k # NoBlock /\ valid[c] = 0
            BY <2>2, <3>1, BcacheAssumption
          <5> QED
            BY <5>1, <3>4 DEF OneCopy
        <4>2. Contents(k) = disk[k]
          BY <4>1, ContentsIs
        <4>3. blockno'[c] = k /\ valid'[c] = 1 /\ data'[c] = disk[k]
          BY <3>2, <3>4
        <4> QED
          BY <4>2, <4>3, PrimedContentsIs
      <3>5. CASE \A b \in Bufs : ~(blockno[b] = k /\ (valid[b] = 1 \/ b = c))
        <4>1. \A b \in Bufs : ~(blockno'[b] = k /\ valid'[b] = 1)
          BY <3>2, <3>5
        <4> QED
          BY <4>1, <3>2, <3>5, ContentsIs, PrimedContentsIs
      <3> QED
        BY <3>3, <3>4, <3>5, <2>2, <3>1
    <2> QED
      BY <2>1, <2>2
  <1>8. ASSUME NEW p \in Procs, NEW v \in Values, Modify(p, v)
        PROVE  \A k \in Blocks : Contents(k)' = Contents(k)
    BY <1>8
  <1>9. ASSUME NEW p \in Procs, Bwrite(p)
        PROVE  \A k \in Blocks : Contents(k)' = Contents(k)
    <2>1. PICK c \in Bufs : c = buf[p]
      OBVIOUS
    <2>2. /\ disk' = [disk EXCEPT ![blockno[c]] = data[c]]
          /\ UNCHANGED <<blockno, valid, data>>
      BY <1>9, <2>1 DEF Bwrite
    <2>3. valid[c] = 1
      BY <1>9, <2>1 DEF Bwrite, HeldValid
    <2> TAKE k \in Blocks
    <2>4. CASE \E b \in Bufs : blockno[b] = k /\ valid[b] = 1
      BY <2>2, <2>4, ContentsIs, PrimedContentsIs
    <2>5. CASE \A b \in Bufs : ~(blockno[b] = k /\ valid[b] = 1)
      <3>1. blockno[c] # k
        BY <2>3, <2>5
      <3>2. disk'[k] = disk[k]
        BY <2>2, <3>1
      <3>3. \A b \in Bufs : ~(blockno'[b] = k /\ valid'[b] = 1)
        BY <2>2, <2>5
      <3> QED
        BY <2>5, <3>2, <3>3, ContentsIs, PrimedContentsIs
    <2> QED
      BY <2>4, <2>5
  <1>10. ASSUME NEW p \in Procs, Bpin(p)
        PROVE  \A k \in Blocks : Contents(k)' = Contents(k)
    <2>1. UNCHANGED <<disk, blockno, valid, data>>
      BY <1>10 DEF Bpin
    <2> QED
      BY <2>1 DEF Contents, Cached
  <1>11. ASSUME NEW p \in Procs, Bunpin(p)
        PROVE  \A k \in Blocks : Contents(k)' = Contents(k)
    <2>1. UNCHANGED <<disk, blockno, valid, data>>
      BY <1>11 DEF Bunpin
    <2> QED
      BY <2>1 DEF Contents, Cached
  <1>12. ASSUME NEW p \in Procs, ReleaseSleep(p)
        PROVE  \A k \in Blocks : Contents(k)' = Contents(k)
    <2>1. UNCHANGED <<disk, blockno, valid, data>>
      BY <1>12 DEF ReleaseSleep
    <2> QED
      BY <2>1 DEF Contents, Cached
  <1>13. ASSUME NEW p \in Procs, Brelse(p)
        PROVE  \A k \in Blocks : Contents(k)' = Contents(k)
    <2>1. UNCHANGED <<disk, blockno, valid, data>>
      BY <1>13 DEF Brelse
    <2> QED
      BY <2>1 DEF Contents, Cached
  <1>14. CASE UNCHANGED vars
    BY <1>14 DEF vars, Contents, Cached
  <1> QED
    BY <1>1, <1>2, <1>3, <1>4, <1>5, <1>6, <1>7, <1>8, <1>9, <1>10, <1>11,
       <1>12, <1>13, <1>14 DEF Next, Get, Use, Frozen

\* Only bread() and brelse() change who uses a block.
LEMMA OwnerStep ==
    ASSUME BcacheInv, BcacheInv', ~\E p \in Procs : Bread(p) \/ ReleaseSleep(p), [Next]_vars
    PROVE  \A k \in Blocks : Owner(k)' = Owner(k)
  <1> USE DEF BcacheInv, TypeOK, PC, At
  <1>1. ASSUME NEW p \in Procs, NEW m \in Blocks, Call(p, m)
        PROVE  \A k \in Blocks : Owner(k)' = Owner(k)
    <2>1. \A q \in Procs, k \in Blocks :
             pc'[q] = "held" /\ want'[q] = k <=> pc[q] = "held" /\ want[q] = k
      BY <1>1 DEF Call, Goto
    <2> QED
      BY <2>1, OwnerKept
  <1>2. ASSUME NEW p \in Procs, BgetHit(p)
        PROVE  \A k \in Blocks : Owner(k)' = Owner(k)
    <2>1. \A q \in Procs, k \in Blocks :
             pc'[q] = "held" /\ want'[q] = k <=> pc[q] = "held" /\ want[q] = k
      BY <1>2 DEF BgetHit, Cached, Goto
    <2> QED
      BY <2>1, OwnerKept
  <1>3. ASSUME NEW p \in Procs, BgetRecycle(p)
        PROVE  \A k \in Blocks : Owner(k)' = Owner(k)
    <2>1. \A q \in Procs, k \in Blocks :
             pc'[q] = "held" /\ want'[q] = k <=> pc[q] = "held" /\ want[q] = k
      BY <1>3 DEF BgetRecycle, Cached, Unused, Goto
    <2> QED
      BY <2>1, OwnerKept
  <1>4. ASSUME NEW p \in Procs, BgetPanic(p)
        PROVE  \A k \in Blocks : Owner(k)' = Owner(k)
    <2>1. \A q \in Procs, k \in Blocks :
             pc'[q] = "held" /\ want'[q] = k <=> pc[q] = "held" /\ want[q] = k
      BY <1>4 DEF BgetPanic
    <2> QED
      BY <2>1, OwnerKept
  <1>5. ASSUME NEW p \in Procs, AcquireSleep(p)
        PROVE  \A k \in Blocks : Owner(k)' = Owner(k)
    <2>1. \A q \in Procs, k \in Blocks :
             pc'[q] = "held" /\ want'[q] = k <=> pc[q] = "held" /\ want[q] = k
      BY <1>5 DEF AcquireSleep, Goto
    <2> QED
      BY <2>1, OwnerKept
  <1>6. ASSUME NEW p \in Procs, Asleep(p)
        PROVE  \A k \in Blocks : Owner(k)' = Owner(k)
    <2>1. \A q \in Procs, k \in Blocks :
             pc'[q] = "held" /\ want'[q] = k <=> pc[q] = "held" /\ want[q] = k
      BY <1>6 DEF Asleep, Goto
    <2> QED
      BY <2>1, OwnerKept
  <1>7. ASSUME NEW p \in Procs, Bread(p)
        PROVE  \A k \in Blocks : Owner(k)' = Owner(k)
    BY <1>7
  <1>8. ASSUME NEW p \in Procs, NEW v \in Values, Modify(p, v)
        PROVE  \A k \in Blocks : Owner(k)' = Owner(k)
    <2>1. \A q \in Procs, k \in Blocks :
             pc'[q] = "held" /\ want'[q] = k <=> pc[q] = "held" /\ want[q] = k
      BY <1>8 DEF Modify
    <2> QED
      BY <2>1, OwnerKept
  <1>9. ASSUME NEW p \in Procs, Bwrite(p)
        PROVE  \A k \in Blocks : Owner(k)' = Owner(k)
    <2>1. \A q \in Procs, k \in Blocks :
             pc'[q] = "held" /\ want'[q] = k <=> pc[q] = "held" /\ want[q] = k
      BY <1>9 DEF Bwrite
    <2> QED
      BY <2>1, OwnerKept
  <1>10. ASSUME NEW p \in Procs, Bpin(p)
        PROVE  \A k \in Blocks : Owner(k)' = Owner(k)
    <2>1. \A q \in Procs, k \in Blocks :
             pc'[q] = "held" /\ want'[q] = k <=> pc[q] = "held" /\ want[q] = k
      BY <1>10 DEF Bpin
    <2> QED
      BY <2>1, OwnerKept
  <1>11. ASSUME NEW p \in Procs, Bunpin(p)
        PROVE  \A k \in Blocks : Owner(k)' = Owner(k)
    <2>1. \A q \in Procs, k \in Blocks :
             pc'[q] = "held" /\ want'[q] = k <=> pc[q] = "held" /\ want[q] = k
      BY <1>11 DEF Bunpin
    <2> QED
      BY <2>1, OwnerKept
  <1>12. ASSUME NEW p \in Procs, ReleaseSleep(p)
        PROVE  \A k \in Blocks : Owner(k)' = Owner(k)
    BY <1>12
  <1>13. ASSUME NEW p \in Procs, Brelse(p)
        PROVE  \A k \in Blocks : Owner(k)' = Owner(k)
    <2>1. \A q \in Procs, k \in Blocks :
             pc'[q] = "held" /\ want'[q] = k <=> pc[q] = "held" /\ want[q] = k
      BY <1>13 DEF Brelse, Goto
    <2> QED
      BY <2>1, OwnerKept
  <1>14. CASE UNCHANGED vars
    BY <1>14 DEF vars, Owner
  <1> QED
    BY <1>1, <1>2, <1>3, <1>4, <1>5, <1>6, <1>7, <1>8, <1>9, <1>10, <1>11,
       <1>12, <1>13, <1>14 DEF Next, Get, Use, Frozen

AbsContents == [k \in Blocks |-> Contents(k)]
AbsOwner == [k \in Blocks |-> Owner(k)]

\* The end of bread() is the abstract Get.
LEMMA BreadGets ==
    ASSUME BcacheInv, BcacheInv', NEW p \in Procs, Bread(p)
    PROVE  /\ AbsOwner[want[p]] = NoProc
           /\ AbsOwner' = [AbsOwner EXCEPT ![want[p]] = p]
  <1>1. /\ pc[p] = "bread" /\ pc' = [pc EXCEPT ![p] = "held"] /\ UNCHANGED want
        /\ TypeOK
    BY DEF Bread, At, Goto, BcacheInv
  <1>2. PICK w \in Blocks : w = want[p]
    BY <1>1 DEF TypeOK
  <1>3. pc'[p] = "held" /\ want'[p] = w
    BY <1>1, <1>2 DEF TypeOK
  <1>4. Owner(w)' = p
    BY <1>3, PrimedOwnerIs
  <1>5. Owner(w) = NoProc
    <2> SUFFICES ASSUME NEW q \in Procs, Owner(w) = q PROVE FALSE
      BY OwnerIs
    <2>1. pc[q] = "held" /\ want[q] = w /\ q # p
      BY <1>1, OwnerIs
    <2>2. pc'[q] = "held" /\ want'[q] = w
      BY <2>1, <1>1 DEF TypeOK
    <2>3. Owner(w)' = q
      BY <2>2, PrimedOwnerIs
    <2> QED
      BY <2>1, <2>3, <1>4
  <1>6. ASSUME NEW k \in Blocks, k # w PROVE Owner(k)' = Owner(k)
    <2>1. \A q \in Procs :
             pc'[q] = "held" /\ want'[q] = k <=> pc[q] = "held" /\ want[q] = k
      BY <1>1, <1>2, <1>6 DEF TypeOK
    <2>2. \A q \in Procs : Owner(k)' = q <=> Owner(k) = q
      BY <2>1, OwnerIs, PrimedOwnerIs
    <2> QED
      BY <2>2, OwnerIs, PrimedOwnerIs
  <1> QED
    BY <1>2, <1>4, <1>5, <1>6 DEF AbsOwner

\* The beginning of brelse() is the abstract Put.
LEMMA ReleasePuts ==
    ASSUME BcacheInv, BcacheInv', NEW p \in Procs, ReleaseSleep(p)
    PROVE  /\ AbsOwner[want[p]] = p
           /\ AbsOwner' = [AbsOwner EXCEPT ![want[p]] = NoProc]
  <1>1. /\ pc[p] = "held" /\ pc'[p] = "brelse" /\ UNCHANGED want
        /\ \A q \in Procs : q # p => (pc'[q] = "held" <=> pc[q] = "held")
        /\ TypeOK
    BY DEF ReleaseSleep, At, BcacheInv
  <1>2. PICK w \in Blocks : w = want[p]
    BY <1>1 DEF TypeOK
  <1>3. Owner(w) = p
    BY <1>1, <1>2, OwnerIs
  <1>4. Owner(w)' = NoProc
    <2> SUFFICES ASSUME NEW q \in Procs, Owner(w)' = q PROVE FALSE
      BY PrimedOwnerIs
    <2>1. pc'[q] = "held" /\ want'[q] = w /\ q # p
      BY <1>1, PrimedOwnerIs
    <2>2. Owner(w) = q
      BY <2>1, <1>1, OwnerIs
    <2> QED
      BY <2>1, <2>2, <1>3
  <1>6. ASSUME NEW k \in Blocks, k # w PROVE Owner(k)' = Owner(k)
    <2>1. \A q \in Procs :
             pc'[q] = "held" /\ want'[q] = k <=> pc[q] = "held" /\ want[q] = k
      BY <1>1, <1>2, <1>6 DEF TypeOK
    <2>2. \A q \in Procs : Owner(k)' = q <=> Owner(k) = q
      BY <2>1, OwnerIs, PrimedOwnerIs
    <2> QED
      BY <2>2, OwnerIs, PrimedOwnerIs
  <1> QED
    BY <1>2, <1>3, <1>4, <1>6 DEF AbsOwner

\* A change of b->data by its user is the abstract Change.
LEMMA ModifyChanges ==
    ASSUME BcacheInv, BcacheInv', NEW p \in Procs, NEW v \in Values, Modify(p, v)
    PROVE  /\ AbsOwner[want[p]] = p
           /\ AbsContents' = [AbsContents EXCEPT ![want[p]] = v]
  <1>1. /\ pc[p] = "held" /\ data' = [data EXCEPT ![buf[p]] = v]
        /\ UNCHANGED <<disk, blockno, valid, want>>
        /\ TypeOK /\ OneCopy /\ RightBuffer /\ HeldValid
    BY DEF Modify, At, BcacheInv
  <1>2. PICK c \in Bufs : c = buf[p]
    BY <1>1 DEF TypeOK
  <1>3. PICK w \in Blocks : w = want[p]
    BY <1>1 DEF TypeOK
  <1>4. blockno[c] = w /\ valid[c] = 1
    BY <1>1, <1>2, <1>3 DEF RightBuffer, HeldValid, Referring, PC
  <1>5. Contents(w)' = v
    <2>1. blockno'[c] = w /\ valid'[c] = 1 /\ data'[c] = v
      BY <1>1, <1>2, <1>4 DEF TypeOK
    <2> QED
      BY <2>1, PrimedContentsIs
  <1>6. ASSUME NEW k \in Blocks, k # w PROVE Contents(k)' = Contents(k)
    <2>1. CASE \E b \in Bufs : blockno[b] = k /\ valid[b] = 1
      <3>1. PICK b \in Bufs : blockno[b] = k /\ valid[b] = 1
        BY <2>1
      <3>2. data'[b] = data[b] /\ blockno'[b] = k /\ valid'[b] = 1
        BY <3>1, <1>1, <1>2, <1>4, <1>6 DEF TypeOK
      <3> QED
        BY <3>1, <3>2, ContentsIs, PrimedContentsIs
    <2>2. CASE \A b \in Bufs : ~(blockno[b] = k /\ valid[b] = 1)
      BY <2>2, <1>1, ContentsIs, PrimedContentsIs
    <2> QED
      BY <2>1, <2>2
  <1>7. Owner(w) = p
    BY <1>1, <1>3, OwnerIs
  <1> QED
    BY <1>3, <1>5, <1>6, <1>7 DEF AbsContents, AbsOwner

\* Every step of the cache is a step of the store, or none.
LEMMA StoreStep ==
    ASSUME BcacheInv, BcacheInv', [Next]_vars
    PROVE  Store!StoreNext \/ UNCHANGED <<AbsContents, AbsOwner>>
  <1>0. \A p \in Procs : want[p] \in Blocks
    BY DEF BcacheInv, TypeOK
  <1>1. ASSUME NEW p \in Procs, Bread(p) PROVE Store!StoreNext
    <2>1. ~\E q \in Procs, v \in Values : Modify(q, v)
      BY <1>1 DEF Bread, Modify, At, Goto, BcacheInv, TypeOK
    <2>2. AbsContents' = AbsContents
      BY <2>1, ContentsStep DEF AbsContents
    <2>3. Store!Get(p, want[p])
      BY <1>1, <2>2, BreadGets DEF Store!Get, AbsContents, AbsOwner
    <2> QED
      BY <1>0, <2>3 DEF Store!StoreNext
  <1>2. ASSUME NEW p \in Procs, ReleaseSleep(p) PROVE Store!StoreNext
    <2>1. ~\E q \in Procs, v \in Values : Modify(q, v)
      BY <1>2 DEF ReleaseSleep, Modify, At, BcacheInv, TypeOK
    <2>2. AbsContents' = AbsContents
      BY <2>1, ContentsStep DEF AbsContents
    <2>3. Store!Put(p, want[p])
      BY <1>2, <2>2, ReleasePuts DEF Store!Put, AbsContents, AbsOwner
    <2> QED
      BY <1>0, <2>3 DEF Store!StoreNext
  <1>3. ASSUME NEW p \in Procs, NEW v \in Values, Modify(p, v)
        PROVE  Store!StoreNext
    <2>1. ~\E q \in Procs : Bread(q) \/ ReleaseSleep(q)
      BY <1>3 DEF Bread, ReleaseSleep, Modify, At, Goto, BcacheInv, TypeOK
    <2>2. AbsOwner' = AbsOwner
      BY <2>1, OwnerStep DEF AbsOwner
    <2>3. Store!Change(p, want[p], v)
      BY <1>3, <2>2, ModifyChanges DEF Store!Change, AbsContents, AbsOwner
    <2> QED
      BY <1>0, <2>3 DEF Store!StoreNext
  <1>4. CASE /\ ~\E p \in Procs, v \in Values : Modify(p, v)
             /\ ~\E p \in Procs : Bread(p) \/ ReleaseSleep(p)
    BY <1>4, ContentsStep, OwnerStep DEF AbsContents, AbsOwner
  <1> QED
    BY <1>1, <1>2, <1>3, <1>4

\* The buffer cache is invisible: kernel/bio.c implements BlockStore.
THEOREM CacheIsStore == Spec => CacheTransparent
  <1>1. Init => Store!StoreInit
    <2> SUFFICES ASSUME Init PROVE Store!StoreInit
      OBVIOUS
    <2>1. BcacheInv
      BY InitBcacheInv
    <2>2. ASSUME NEW k \in Blocks PROVE Contents(k) = disk[k] /\ Owner(k) = NoProc
      <3>1. \A b \in Bufs : ~(blockno[b] = k /\ valid[b] = 1)
        BY DEF Init
      <3>2. \A p \in Procs : pc[p] # "held"
        BY DEF Init
      <3> QED
        BY <3>1, <3>2, <2>1, ContentsIs, OwnerIs
    <2>3. disk \in [Blocks -> Values]
      BY DEF Init
    <2> QED
      BY <2>2, <2>3 DEF Store!StoreInit
  <1>2. BcacheInv /\ BcacheInv' /\ [Next]_vars =>
           [Store!StoreNext]_<<AbsContents, AbsOwner>>
    BY StoreStep
  <1> QED
    BY <1>1, <1>2, BcacheInvariant, PTL
       DEF Spec, CacheTransparent, Store!StoreSpec, AbsContents, AbsOwner

----------------------------------------------------------------------------
(* Arithmetic: sizes in pages, and the addresses of a page table. *)

LEMMA MulMono ==
    ASSUME NEW a \in Int, NEW b \in Int, NEW m \in Nat, a <= b
    PROVE  a * m <= b * m
  <1>1. (b - a) \in Nat
    OBVIOUS
  <1>2. (b - a) * m >= 0
    BY <1>1
  <1>3. (b - a) * m = b * m - a * m
    OBVIOUS
  <1>4. a * m \in Int /\ b * m \in Int
    OBVIOUS
  <1> QED
    BY <1>2, <1>3, <1>4

\* a pages do not reach n exactly when there are fewer than PGROUNDUP(n).
LEMMA Gauge ==
    ASSUME NEW n \in Nat, NEW a \in Int
    PROVE  /\ PGROUNDUP(n) \in Nat
           /\ a < PGROUNDUP(n) <=> a * PGSIZE < n
  <1> DEFINE x == n + PGSIZE - 1
             q == x \div PGSIZE
             d == x % PGSIZE
  <1>1. PGSIZE \in Nat \ {0}
    BY MemoryAssumption
  <1>2. /\ x \in Nat /\ q \in Int /\ d \in 0..PGSIZE - 1
        /\ x = PGSIZE * q + d
    BY <1>1
  <1>3. PGROUNDUP(n) = q
    BY DEF PGROUNDUP
  <1> HIDE DEF q, d
  <1>4. q * PGSIZE = x - d /\ (q - 1) * PGSIZE = x - d - PGSIZE
    BY <1>1, <1>2
  <1>5. q >= 0
    <2> SUFFICES ASSUME q <= -1 PROVE FALSE
      BY <1>2
    <2>1. q * PGSIZE <= (-1) * PGSIZE
      BY <1>1, <1>2, MulMono
    <2> QED
      BY <2>1, <1>1, <1>2, <1>4
  <1>6. a * PGSIZE \in Int
    BY <1>1
  <1>7. CASE a < q
    <2>1. a * PGSIZE <= (q - 1) * PGSIZE
      BY <1>1, <1>2, <1>7, MulMono
    <2>2. a * PGSIZE < n
      BY <2>1, <1>1, <1>2, <1>4, <1>6
    <2> QED
      BY <1>2, <1>3, <1>5, <1>7, <2>2
  <1>8. CASE a >= q
    <2>1. q * PGSIZE <= a * PGSIZE
      BY <1>1, <1>2, <1>8, MulMono
    <2>2. ~(a * PGSIZE < n)
      BY <2>1, <1>1, <1>2, <1>4, <1>6
    <2> QED
      BY <1>2, <1>3, <1>5, <1>8, <2>2
  <1> QED
    BY <1>2, <1>7, <1>8

LEMMA RoundUp == ASSUME NEW n \in Nat PROVE PGROUNDUP(n) \in Nat
  BY Gauge, 0 \in Int

LEMMA RoundMono ==
    ASSUME NEW m \in Nat, NEW n \in Nat, m <= n
    PROVE  PGROUNDUP(m) <= PGROUNDUP(n)
  <1> DEFINE a == PGROUNDUP(n)
  <1>1. a \in Nat /\ PGROUNDUP(m) \in Nat
    BY RoundUp
  <1>2. a * PGSIZE \in Int /\ ~(a * PGSIZE < n)
    <2>1. ~(a * PGSIZE < n)
      BY <1>1, Gauge
    <2> HIDE DEF a
    <2> QED
      BY <2>1, <1>1, MemoryAssumption
  <1> HIDE DEF a
  <1>3. ~(a * PGSIZE < m)
    BY <1>2
  <1>4. ~(a < PGROUNDUP(m))
    BY <1>1, <1>3, Gauge
  <1> QED
    BY <1>1, <1>4 DEF a

LEMMA RoundExact ==
    ASSUME NEW a \in Nat
    PROVE  a * PGSIZE \in Nat /\ PGROUNDUP(a * PGSIZE) = a
  <1>1. PGSIZE \in Nat \ {0}
    BY MemoryAssumption
  <1>2. a * PGSIZE \in Nat
    BY <1>1
  <1>3. ~(a < PGROUNDUP(a * PGSIZE)) /\ PGROUNDUP(a * PGSIZE) \in Nat
    BY <1>2, Gauge
  <1>4. (a - 1) * PGSIZE < a * PGSIZE
    <2>1. (a - 1) * PGSIZE = a * PGSIZE - PGSIZE
      BY <1>1
    <2> QED
      BY <2>1, <1>1, <1>2
  <1>5. a - 1 < PGROUNDUP(a * PGSIZE)
    BY <1>2, <1>4, Gauge
  <1> QED
    BY <1>2, <1>3, <1>5

\* Sizes that are whole pages, in order.
LEMMA RoundOrder ==
    ASSUME NEW a \in Nat, NEW n \in Nat, n <= a
    PROVE  /\ a * PGSIZE \in Nat /\ PGROUNDUP(a * PGSIZE) = a
           /\ n * PGSIZE \in Nat /\ PGROUNDUP(n * PGSIZE) = n
           /\ n * PGSIZE <= a * PGSIZE
  <1>1. PGSIZE \in Nat
    BY MemoryAssumption
  <1>2. n * PGSIZE <= a * PGSIZE
    BY <1>1, MulMono
  <1> QED
    BY <1>2, RoundExact

LEMMA RoundZero == PGROUNDUP(0) = 0
  <1>1. 0 * PGSIZE = 0
    BY MemoryAssumption
  <1> QED
    BY <1>1, RoundExact

\* The page of an address below n.
LEMMA PageBelow ==
    ASSUME NEW n \in Nat, NEW addr \in Nat, addr < n
    PROVE  /\ addr \div PGSIZE \in Nat /\ addr \div PGSIZE < PGROUNDUP(n)
           /\ (addr \div PGSIZE) * PGSIZE < n
  <1> DEFINE q == addr \div PGSIZE
             d == addr % PGSIZE
  <1>1. PGSIZE \in Nat \ {0}
    BY MemoryAssumption
  <1>2. q \in Int /\ d \in 0..PGSIZE - 1 /\ addr = PGSIZE * q + d
    BY <1>1
  <1> HIDE DEF q, d
  <1>3. q * PGSIZE = addr - d
    BY <1>1, <1>2
  <1>4. q >= 0
    <2> SUFFICES ASSUME q <= -1 PROVE FALSE
      BY <1>2
    <2>1. q * PGSIZE <= (-1) * PGSIZE
      BY <1>1, <1>2, MulMono
    <2> QED
      BY <2>1, <1>1, <1>2, <1>3
  <1>5. q * PGSIZE < n
    BY <1>2, <1>3
  <1>6. q < PGROUNDUP(n)
    BY <1>2, <1>5, Gauge
  <1> QED
    BY <1>2, <1>4, <1>5, <1>6 DEF q

LEMMA RoundDown == ASSUME NEW n \in Nat PROVE PGROUNDDOWN(n) \in Nat
  <1>1. PGSIZE \in Nat \ {0} /\ n + 1 \in Nat /\ n < n + 1
    BY MemoryAssumption
  <1>2. n \div PGSIZE \in Nat
    BY <1>1, PageBelow
  <1> QED
    BY <1>1, <1>2 DEF PGROUNDDOWN

Keys == 0..FANOUT * FANOUT - 1
Users == 0..TRAPFRAME - 1

LEMMA Places ==
    /\ MAXVA \in Nat /\ TRAPFRAME \in Nat /\ TRAPFRAME > 0
    /\ TRAMPOLINE = MAXVA - 1 /\ TRAPFRAME = MAXVA - 2
    /\ VAs = Users \union {TRAPFRAME, TRAMPOLINE}
    /\ TRAPFRAME \notin Users /\ TRAMPOLINE \notin Users /\ TRAPFRAME # TRAMPOLINE
    /\ NPAGES \in Nat /\ trampoline \notin Pages /\ 0 \notin Pages
    /\ trampoline # 0
  <1>1. FANOUT \in Nat /\ FANOUT >= 2 /\ NPAGES \in Nat
    BY MemoryAssumption
  <1>2. PICK s \in Nat : s = FANOUT * FANOUT /\ s >= 4
    <2>1. 2 * FANOUT <= FANOUT * FANOUT
      BY <1>1, MulMono
    <2> QED
      BY <1>1, <2>1
  <1>3. s * FANOUT >= 4 /\ s * FANOUT \in Nat
    <2>1. 4 * FANOUT <= s * FANOUT
      BY <1>1, <1>2, MulMono
    <2> QED
      BY <1>1, <1>2, <2>1
  <1>4. PICK m \in Nat : m = MAXVA /\ m >= 4
    BY <1>2, <1>3 DEF MAXVA
  <1> QED
    BY <1>1, <1>4 DEF TRAMPOLINE, TRAPFRAME, VAs, Users, trampoline, Pages

LEMMA DivRange ==
    ASSUME NEW b \in Nat, NEW m \in Nat \ {0}, NEW n \in Nat, b < n * m
    PROVE  b \div m \in 0..n - 1
  <1> DEFINE q == b \div m
             d == b % m
  <1>1. q \in Int /\ d \in 0..m - 1 /\ b = m * q + d
    OBVIOUS
  <1> HIDE DEF q, d
  <1>2. q * m = b - d /\ n * m \in Nat
    BY <1>1
  <1>3. q >= 0
    <2> SUFFICES ASSUME q <= -1 PROVE FALSE
      BY <1>1
    <2>1. q * m <= (-1) * m
      BY <1>1, MulMono
    <2> QED
      BY <2>1, <1>1, <1>2
  <1>4. q < n
    <2> SUFFICES ASSUME n <= q PROVE FALSE
      BY <1>1
    <2>1. n * m <= q * m
      BY <1>1, MulMono
    <2> QED
      BY <2>1, <1>1, <1>2
  <1> QED
    BY <1>1, <1>3, <1>4 DEF q

\* The entries of the two upper levels for an address.
LEMMA Entries ==
    ASSUME NEW a \in VAs
    PROVE  a \div (FANOUT * FANOUT) \in Keys /\ a \div FANOUT \in Keys
  <1>1. FANOUT \in Nat /\ FANOUT >= 2
    BY MemoryAssumption
  <1>2. PICK s \in Nat : s = FANOUT * FANOUT /\ s >= FANOUT
    <2>1. 1 * FANOUT <= FANOUT * FANOUT
      BY <1>1, MulMono
    <2> QED
      BY <1>1, <2>1
  <1>3. a \in Nat /\ a < s * FANOUT
    BY <1>2, Places DEF VAs, MAXVA
  <1>4. FANOUT \in Nat \ {0}
    BY <1>1
  <1>5. a \div FANOUT \in 0..s - 1
    BY <1>3, <1>4, DivRange
  <1>6. a < FANOUT * s
    BY <1>1, <1>2, <1>3
  <1>7. a \div s \in 0..FANOUT - 1
    <2>1. s \in Nat \ {0}
      BY <1>1, <1>2
    <2> QED
      BY <2>1, <1>1, <1>3, <1>6, DivRange
  <1>8. a \div s \in 0..s - 1
    BY <1>1, <1>2, <1>7
  <1> QED
    BY <1>2, <1>5, <1>8 DEF Keys

LEMMA NatLeast ==
    ASSUME NEW S \in SUBSET Nat, S # {}
    PROVE  Min(S) \in S /\ \A y \in S : Min(S) <= y
  <1> DEFINE R == OpToRel(<, Nat)
  <1>1. IsWellFoundedOn(R, Nat)
    BY NatLessThanWellFounded
  <1>2. \A x, y \in Nat : y < x => <<y, x>> \in R
    BY DEF OpToRel
  <1> HIDE DEF R
  <1>3. PICK x \in S : \A y \in S : ~(<<y, x>> \in R)
    BY <1>1, WFMin
  <1>4. \A y \in S : x \in Nat /\ y \in Nat /\ ~(y < x)
    BY <1>2, <1>3
  <1>5. \A y \in S : x <= y
    BY <1>4
  <1> QED
    BY <1>5 DEF Min

LEMMA MaxOfTwo ==
    ASSUME NEW x \in Int, NEW y \in Int
    PROVE  Max({x, y}) = IF x >= y THEN x ELSE y
  BY DEF Max

----------------------------------------------------------------------------
(* Page tables *)

Ptes == [pa : Nat, u : {0, 1}, w : {0, 1}]
Tables == [root : Nat, dir : [{0, 1} -> [Keys -> Nat]], map : [VAs -> Ptes]]

\* The pages that go with a page table.
Own(t) == TablePages(t) \union UserPages(t)

\* A page table has its own pages, and every user address a page of its own.
GoodTable(t) ==
    /\ t \in Tables
    /\ Own(t) \subseteq Pages
    /\ TablePages(t) \intersect UserPages(t) = {}
    /\ \A a \in VAs : t.map[a].pa = 0 => t.map[a] = NoPte
    /\ \A a, b \in Users : t.map[a].pa = t.map[b].pa /\ a # b => t.map[a].pa = 0

Results == [t : Tables, fr : SUBSET Pages, ok : BOOLEAN, bad : BOOLEAN]

Good(r) == r \in Results /\ GoodTable(r.t) /\ Own(r.t) \intersect r.fr = {}

\* From r to k no page was lost or made, and nothing went wrong.
Conserves(r, k) ==
    /\ Good(k)
    /\ Own(k.t) \union k.fr = Own(r.t) \union r.fr
    /\ (k.bad <=> r.bad)

LEMMA TablePagesAre ==
    ASSUME NEW t \in Tables, NEW x
    PROVE  x \in TablePages(t) <=>
               x # 0 /\ (x = t.root \/ \E level \in {0, 1}, k \in Keys : x = t.dir[level][k])
  <1>1. \A level \in {0, 1} : DOMAIN t.dir[level] = Keys
    BY DEF Tables
  <1> QED
    BY <1>1 DEF TablePages

LEMMA UserPagesAre ==
    ASSUME NEW t, NEW x
    PROVE  x \in UserPages(t) <=> x # 0 /\ \E a \in Users : x = t.map[a].pa
  BY DEF UserPages, Users

LEMMA NoTableGood ==
    /\ NoTable \in Tables /\ NoTable.root = 0 /\ GoodTable(NoTable) /\ Own(NoTable) = {}
    /\ \A a \in VAs : NoTable.map[a] = NoPte
    /\ TablePages(NoTable) = {} /\ UserPages(NoTable) = {}
  <1>1. NoPte \in Ptes /\ NoPte.pa = 0
    BY DEF NoPte, Ptes
  <1>2. /\ NoTable \in Tables /\ NoTable.root = 0
        /\ \A a \in VAs : NoTable.map[a] = NoPte
        /\ \A level \in {0, 1}, k \in Keys : NoTable.dir[level][k] = 0
    BY <1>1 DEF NoTable, Tables, Keys
  <1>3. TablePages(NoTable) = {}
    BY <1>2, TablePagesAre
  <1>4. UserPages(NoTable) = {}
    BY <1>1, <1>2, UserPagesAre, Places
  <1> QED
    BY <1>1, <1>2, <1>3, <1>4, Places DEF GoodTable, Own

LEMMA KallocIn == ASSUME NEW S, S # {} PROVE kalloc(S) \in S
  BY DEF kalloc

LEMMA ConservesTrans ==
    ASSUME NEW r, NEW k, NEW m, Conserves(r, k), Conserves(k, m)
    PROVE  Conserves(r, m)
  BY DEF Conserves

\* The page-table pages after one more was made.
LEMMA WalkLevelWalks ==
    ASSUME NEW r, Good(r), NEW level \in {0, 1}, NEW key \in Keys,
           NEW k, k = WalkLevel(r, level, key)
    PROVE  Conserves(r, k) /\ k.t.map = r.t.map /\ (k.ok => r.ok)
  <1> DEFINE x == kalloc(r.fr)
  <1>0. r \in Results /\ r.t \in Tables
    BY DEF Good, Results
  <1>1. CASE ~r.ok \/ r.t.dir[level][key] # 0
    BY <1>1 DEF WalkLevel, Conserves
  <1>2. CASE r.ok /\ r.t.dir[level][key] = 0 /\ r.fr = {}
    <2>1. k = [r EXCEPT !.ok = FALSE]
      BY <1>2 DEF WalkLevel, Fail
    <2>2. k \in Results /\ k.t = r.t /\ k.fr = r.fr /\ (k.bad <=> r.bad) /\ ~k.ok
      BY <2>1, <1>0 DEF Results
    <2> QED
      BY <2>2 DEF Conserves, Good
  <1>3. CASE r.ok /\ r.t.dir[level][key] = 0 /\ r.fr # {}
    <2>1. k = [r EXCEPT !.t.dir[level][key] = x, !.fr = @ \ {x}]
      BY <1>3 DEF WalkLevel
    <2>2. x \in r.fr /\ x \in Pages /\ x \in Nat /\ x # 0
      BY <1>0, <1>3, KallocIn, Places DEF Results, Pages
    <2> HIDE DEF x
    <2>3. /\ k.t.root = r.t.root /\ k.t.map = r.t.map
          /\ k.t.dir = [r.t.dir EXCEPT ![level][key] = x]
          /\ k.fr = r.fr \ {x} /\ (k.ok <=> r.ok) /\ (k.bad <=> r.bad)
      BY <2>1, <1>0 DEF Results, Tables
    <2>4. k.t \in Tables /\ k \in Results
      <3> DEFINE D == [r.t.dir EXCEPT ![level][key] = x]
      <3>1. D \in [{0, 1} -> [Keys -> Nat]]
        BY <2>2, <1>0 DEF Tables
      <3>2. k = [r EXCEPT !.t = [r.t EXCEPT !.dir = D], !.fr = r.fr \ {x}]
        BY <2>1, <1>0 DEF Results, Tables
      <3> HIDE DEF D
      <3>3. [r.t EXCEPT !.dir = D] \in Tables
        BY <3>1, <1>0 DEF Tables
      <3>4. r.fr \ {x} \in SUBSET Pages
        BY <1>0 DEF Results
      <3> QED
        BY <3>2, <3>3, <3>4, <1>0 DEF Results
    <2>5. \A l \in {0, 1}, j \in Keys :
            k.t.dir[l][j] = IF l = level /\ j = key THEN x ELSE r.t.dir[l][j]
      BY <2>3, <1>0 DEF Tables
    <2>6. TablePages(k.t) = TablePages(r.t) \union {x}
      <3>1. ASSUME NEW y PROVE y \in TablePages(k.t) <=> y \in TablePages(r.t) \/ y = x
        <4>1. y \in TablePages(k.t) <=>
                y # 0 /\ (y = k.t.root \/ \E l \in {0, 1}, j \in Keys : y = k.t.dir[l][j])
          BY <2>4, TablePagesAre
        <4>2. y \in TablePages(r.t) <=>
                y # 0 /\ (y = r.t.root \/ \E l \in {0, 1}, j \in Keys : y = r.t.dir[l][j])
          BY <1>0, TablePagesAre
        <4> QED
          BY <4>1, <4>2, <2>2, <2>3, <2>5, <1>3
      <3> QED
        BY <3>1
    <2>7. UserPages(k.t) = UserPages(r.t)
      BY <2>3 DEF UserPages
    <2>8. GoodTable(k.t)
      BY <2>2, <2>3, <2>4, <2>6, <2>7 DEF Good, GoodTable, Own
    <2>9. /\ Own(k.t) \intersect k.fr = {}
          /\ Own(k.t) \union k.fr = Own(r.t) \union r.fr
      BY <2>2, <2>3, <2>6, <2>7 DEF Good, Own
    <2> QED
      BY <2>3, <2>4, <2>8, <2>9 DEF Conserves, Good
  <1> QED
    BY <1>0, <1>1, <1>2, <1>3

LEMMA WalkWalks ==
    ASSUME NEW r, Good(r), NEW a \in VAs, NEW k, k = walk(r, a)
    PROVE  Conserves(r, k) /\ k.t.map = r.t.map /\ (k.ok => r.ok)
  <1>1. PICK j : j = WalkLevel(r, 1, a \div (FANOUT * FANOUT))
    OBVIOUS
  <1>2. Conserves(r, j) /\ j.t.map = r.t.map /\ (j.ok => r.ok)
    BY <1>1, Entries, WalkLevelWalks
  <1>3. Good(j)
    BY <1>2 DEF Conserves
  <1>4. k = WalkLevel(j, 0, a \div FANOUT)
    BY <1>1 DEF walk
  <1>5. Conserves(j, k) /\ k.t.map = j.t.map /\ (k.ok => j.ok)
    BY <1>3, <1>4, Entries, WalkLevelWalks
  <1> QED
    BY <1>2, <1>5, ConservesTrans

LEMMA NewMap ==
    ASSUME NEW t \in Tables, NEW M \in [VAs -> Ptes], NEW s, s = [t EXCEPT !.map = M]
    PROVE  /\ s \in Tables /\ s.map = M /\ s.root = t.root /\ s.dir = t.dir
           /\ TablePages(s) = TablePages(t)
  <1>1. s \in Tables /\ s.map = M /\ s.root = t.root /\ s.dir = t.dir
    BY DEF Tables
  <1> QED
    BY <1>1 DEF TablePages

\* The map with one more entry.
MapSet(M, a, x, u, w) == [M EXCEPT ![a] = [pa |-> x, u |-> u, w |-> w]]

\* A result with another map.
WithMap(r, k, M) ==
    /\ k.t = [r.t EXCEPT !.map = M]
    /\ k \in Results

\* mappages() of one page.
LEMMA MappagesMaps ==
    ASSUME NEW r, Good(r), r.ok, NEW a \in VAs, r.t.map[a] = NoPte,
           NEW pa \in Nat, NEW u \in {0, 1}, NEW w \in {0, 1},
           NEW k, k = mappages(r, a, pa, u, w)
    PROVE  \E j : /\ Conserves(r, j) /\ j.t.map = r.t.map
                  /\ ~k.ok => k = j
                  /\ k.ok => /\ WithMap(j, k, MapSet(r.t.map, a, pa, u, w))
                             /\ k.fr = j.fr /\ (k.bad <=> j.bad)
  <1> DEFINE pte == [pa |-> pa, u |-> u, w |-> w]
             M == MapSet(r.t.map, a, pa, u, w)
  <1>1. PICK j : j = walk(r, a)
    OBVIOUS
  <1>2. Conserves(r, j) /\ j.t.map = r.t.map
    BY <1>1, WalkWalks
  <1>3. j \in Results /\ j.t \in Tables
    BY <1>2 DEF Conserves, Good, Results
  <1>4. ~(a >= MAXVA)
    BY Places DEF VAs
  <1>5. CASE ~j.ok
    <2>1. k = j
      BY <1>1, <1>4, <1>5 DEF mappages
    <2> QED
      BY <2>1, <1>2, <1>5
  <1>6. CASE j.ok
    <2>1. k = [j EXCEPT !.t.map[a] = pte, !.bad = @ \/ j.t.map[a] # NoPte]
      BY <1>1, <1>4, <1>6 DEF mappages
    <2>2. k.ok /\ k.fr = j.fr /\ (k.bad <=> j.bad)
      BY <2>1, <1>2, <1>3, <1>6 DEF Results
    <2>3. k.t = [j.t EXCEPT !.map = M]
      BY <2>1, <1>2, <1>3 DEF Results, Tables, MapSet
    <2>4. M \in [VAs -> Ptes]
      BY <1>2, <1>3 DEF Tables, Ptes, MapSet
    <2> HIDE DEF M
    <2>5. k.t \in Tables
      BY <2>3, <2>4, <1>3, NewMap
    <2>6. k = [j EXCEPT !.t = k.t, !.bad = @ \/ j.t.map[a] # NoPte]
      BY <2>1, <1>3 DEF Results
    <2>7. k \in Results
      BY <2>5, <2>6, <1>3 DEF Results
    <2> QED
      BY <2>2, <2>3, <2>7, <1>2 DEF WithMap, M
  <1> QED
    BY <1>3, <1>5, <1>6 DEF Results

\* The pages of k are those of j and x.
Adds(j, k, x) == Own(k.t) = Own(j.t) \union {x}

LEMMA UserMapped ==
    ASSUME NEW j, Good(j), NEW a \in Users, j.t.map[a] = NoPte,
           NEW x \in Pages, x \notin Own(j.t), x \notin j.fr,
           NEW u \in {0, 1}, NEW w \in {0, 1}, NEW k,
           WithMap(j, k, MapSet(j.t.map, a, x, u, w)), k.fr = j.fr
    PROVE  /\ Good(k) /\ Adds(j, k, x)
           /\ k.t.map = MapSet(j.t.map, a, x, u, w)
  <1> DEFINE pte == [pa |-> x, u |-> u, w |-> w]
             M == MapSet(j.t.map, a, x, u, w)
  <1>1. j.t \in Tables /\ j \in Results /\ GoodTable(j.t)
    BY DEF Good, Results
  <1>2. a \in VAs /\ x \in Nat /\ x # 0
    BY Places DEF Pages
  <1>3. /\ M \in [VAs -> Ptes]
        /\ \A b \in VAs : M[b] = IF b = a THEN pte ELSE j.t.map[b]
        /\ pte.pa = x
    BY <1>1, <1>2 DEF Tables, Ptes, MapSet
  <1>4. k.t = [j.t EXCEPT !.map = M] /\ k \in Results
    BY DEF WithMap
  <1> HIDE DEF M, pte
  <1>5. /\ k.t \in Tables /\ k.t.map = M
        /\ TablePages(k.t) = TablePages(j.t)
    BY <1>1, <1>3, <1>4, NewMap
  <1>6. UserPages(k.t) = UserPages(j.t) \union {x}
    <2>1. ASSUME NEW y PROVE y \in UserPages(k.t) <=> y \in UserPages(j.t) \/ y = x
      <3>1. y \in UserPages(k.t) <=> y # 0 /\ \E b \in Users : y = k.t.map[b].pa
        BY UserPagesAre
      <3>2. y \in UserPages(j.t) <=> y # 0 /\ \E b \in Users : y = j.t.map[b].pa
        BY UserPagesAre
      <3>3. j.t.map[a].pa = 0
        BY DEF NoPte
      <3>4. \A b \in Users : b \in VAs
        BY Places
      <3> QED
        BY <3>1, <3>2, <3>3, <3>4, <1>2, <1>3, <1>5
    <2> QED
      BY <2>1
  <1>7. \A b \in VAs : k.t.map[b].pa = 0 => k.t.map[b] = NoPte
    BY <1>1, <1>2, <1>3, <1>5 DEF GoodTable
  <1>8. \A b, c \in Users :
            k.t.map[b].pa = k.t.map[c].pa /\ b # c => k.t.map[b].pa = 0
    <2>1. \A b \in Users : j.t.map[b].pa # x
      BY <1>2, UserPagesAre DEF Own
    <2>2. \A b \in Users : b \in VAs
      BY Places
    <2> QED
      BY <2>1, <2>2, <1>1, <1>3, <1>5 DEF GoodTable
  <1>9. GoodTable(k.t) /\ Own(k.t) = Own(j.t) \union {x}
    <2>1. x \notin TablePages(k.t)
      BY <1>5 DEF Own
    <2> QED
      BY <2>1, <1>1, <1>5, <1>6, <1>7, <1>8 DEF GoodTable, Own
  <1> QED
    BY <1>4, <1>5, <1>9 DEF Good, M, pte, Adds

Fixed == {TRAPFRAME, TRAMPOLINE}

PteSet(M, a, pte) == [M EXCEPT ![a] = pte]

LEMMA FixedMapped ==
    ASSUME NEW j, Good(j), NEW a \in Fixed, NEW pte \in Ptes,
           pte.pa = 0 => pte = NoPte,
           NEW k, WithMap(j, k, PteSet(j.t.map, a, pte)), k.fr = j.fr
    PROVE  /\ Good(k) /\ Own(k.t) = Own(j.t)
           /\ k.t.map = PteSet(j.t.map, a, pte)
  <1> DEFINE M == PteSet(j.t.map, a, pte)
  <1>1. j.t \in Tables /\ j \in Results /\ GoodTable(j.t)
    BY DEF Good, Results
  <1>2. a \in VAs /\ a \notin Users /\ \A b \in Users : b \in VAs
    BY Places DEF Fixed
  <1>3. M \in [VAs -> Ptes] /\ \A b \in VAs : M[b] = IF b = a THEN pte ELSE j.t.map[b]
    BY <1>1, <1>2 DEF Tables, PteSet
  <1>4. k.t = [j.t EXCEPT !.map = M] /\ k \in Results
    BY DEF WithMap
  <1> HIDE DEF M
  <1>5. /\ k.t \in Tables /\ k.t.map = M
        /\ TablePages(k.t) = TablePages(j.t)
    BY <1>1, <1>3, <1>4, NewMap
  <1>6. \A b \in Users : k.t.map[b] = j.t.map[b]
    BY <1>2, <1>3, <1>5
  <1>7. UserPages(k.t) = UserPages(j.t)
    <2>1. ASSUME NEW y PROVE y \in UserPages(k.t) <=> y \in UserPages(j.t)
      <3>1. y \in UserPages(k.t) <=> y # 0 /\ \E b \in Users : y = k.t.map[b].pa
        BY UserPagesAre
      <3>2. y \in UserPages(j.t) <=> y # 0 /\ \E b \in Users : y = j.t.map[b].pa
        BY UserPagesAre
      <3> QED
        BY <3>1, <3>2, <1>6
    <2> QED
      BY <2>1
  <1>8. GoodTable(k.t) /\ Own(k.t) = Own(j.t)
    BY <1>1, <1>3, <1>5, <1>6, <1>7 DEF GoodTable, Own
  <1> QED
    BY <1>4, <1>5, <1>8 DEF Good, M

\* kalloc() takes a page that nobody else has.
Take(r, x) == [r EXCEPT !.fr = @ \ {x}]

LEMMA Taken ==
    ASSUME NEW r, Good(r), r.fr # {}, NEW x, x = kalloc(r.fr), NEW j, j = Take(r, x)
    PROVE  /\ Good(j) /\ j.t = r.t /\ j.fr = r.fr \ {x} /\ (j.ok <=> r.ok) /\ (j.bad <=> r.bad)
           /\ x \in r.fr /\ x \in Pages /\ x \notin Own(r.t)
  <1>1. r \in Results /\ x \in r.fr
    BY KallocIn DEF Good
  <1>2. /\ j \in Results /\ j.t = r.t /\ j.fr = r.fr \ {x}
        /\ (j.ok <=> r.ok) /\ (j.bad <=> r.bad) /\ x \in Pages
    BY <1>1 DEF Results, Take
  <1> QED
    BY <1>1, <1>2 DEF Good

\* kfree() of pages that nobody has.
LEMMA Freed ==
    ASSUME NEW r, Good(r), NEW S \in SUBSET Pages,
           S \intersect r.fr = {}, S \intersect Own(r.t) = {},
           NEW k, k = kfree(r, S)
    PROVE  Good(k) /\ k.t = r.t /\ k.fr = r.fr \union S /\ (k.ok <=> r.ok) /\ (k.bad <=> r.bad)
  <1>1. r \in Results
    BY DEF Good
  <1>2. k = [r EXCEPT !.fr = @ \union S, !.bad = @ \/ FALSE]
    BY <1>1 DEF kfree
  <1>3. k \in Results /\ k.t = r.t /\ k.fr = r.fr \union S /\ (k.ok <=> r.ok) /\ (k.bad <=> r.bad)
    BY <1>1, <1>2 DEF Results
  <1> QED
    BY <1>3 DEF Good

LEMMA MapUserMaps ==
    ASSUME NEW r, Good(r), r.ok, NEW a \in Users, r.t.map[a] = NoPte,
           NEW u \in {0, 1}, NEW w \in {0, 1}, NEW k, k = MapUser(r, a, u, w)
    PROVE  /\ Conserves(r, k)
           /\ k.ok => \E x \in r.fr :
                 /\ x \in Pages /\ x # 0
                 /\ k.t.map = MapSet(r.t.map, a, x, u, w)
           /\ ~k.ok => k.t.map = r.t.map
  <1>0. r \in Results /\ a \in VAs
    BY Places DEF Good
  <1>1. CASE r.fr = {}
    <2>1. k = [r EXCEPT !.ok = FALSE]
      BY <1>1 DEF MapUser, Fail
    <2>2. k \in Results /\ k.t = r.t /\ k.fr = r.fr /\ (k.bad <=> r.bad) /\ ~k.ok
      BY <2>1, <1>0 DEF Results
    <2> QED
      BY <2>2 DEF Conserves, Good
  <1>2. CASE r.fr # {}
    <2>1. PICK x : x = kalloc(r.fr)
      OBVIOUS
    <2>2. PICK i : i = Take(r, x)
      OBVIOUS
    <2>3. /\ Good(i) /\ i.t = r.t /\ i.fr = r.fr \ {x} /\ (i.ok <=> r.ok) /\ (i.bad <=> r.bad)
          /\ x \in r.fr /\ x \in Pages /\ x \notin Own(r.t)
      BY <1>2, <2>1, <2>2, Taken
    <2>4. x \in Nat /\ x # 0
      BY <2>3, Places DEF Pages
    <2>5. PICK m : m = mappages(i, a, x, u, w)
      OBVIOUS
    <2>6. PICK j : /\ Conserves(i, j) /\ j.t.map = i.t.map
                   /\ ~m.ok => m = j
                   /\ m.ok => /\ WithMap(j, m, MapSet(i.t.map, a, x, u, w))
                              /\ m.fr = j.fr /\ (m.bad <=> j.bad)
      BY <2>3, <2>4, <2>5, <1>0, MappagesMaps
    <2>7. /\ Good(j) /\ x \notin Own(j.t) /\ x \notin j.fr
          /\ Own(j.t) \union j.fr = (Own(r.t) \union r.fr) \ {x}
          /\ (j.bad <=> r.bad)  /\ j.t.map = r.t.map
      BY <2>3, <2>6 DEF Conserves
    <2>8. k = IF m.ok THEN m ELSE kfree(m, {x})
      BY <1>2, <2>1, <2>2, <2>5 DEF MapUser, Take
    <2>9. CASE m.ok
      <3>1. /\ Good(m) /\ Adds(j, m, x)
            /\ m.t.map = MapSet(j.t.map, a, x, u, w)
        <4>1. WithMap(j, m, MapSet(j.t.map, a, x, u, w)) /\ m.fr = j.fr
          BY <2>6, <2>9
        <4>2. j.t.map[a] = NoPte
          BY <2>7
        <4>3. Good(j) /\ x \in Pages /\ x \notin Own(j.t) /\ x \notin j.fr
          BY <2>3, <2>7
        <4> QED
          BY <4>1, <4>2, <4>3, UserMapped
      <3>2. k = m
        BY <2>8, <2>9
      <3>3. Own(k.t) \union k.fr = Own(r.t) \union r.fr /\ (k.bad <=> r.bad)
        BY <3>1, <3>2, <2>3, <2>6, <2>7, <2>9 DEF Adds
      <3> QED
        BY <3>1, <3>2, <3>3, <2>3, <2>4, <2>7, <2>9 DEF Conserves
    <2>10. CASE ~m.ok
      <3>1. k = kfree(j, {x})
        BY <2>6, <2>8, <2>10
      <3>2. /\ Good(k) /\ k.t = j.t /\ k.fr = j.fr \union {x}
            /\ (k.ok <=> j.ok) /\ (k.bad <=> j.bad)
        BY <3>1, <2>3, <2>7, Freed
      <3>3. ~k.ok
        BY <3>2, <2>6, <2>10
      <3> QED
        BY <3>2, <3>3, <2>3, <2>7 DEF Conserves
    <2> QED
      BY <2>9, <2>10
  <1> QED
    BY <1>1, <1>2

Span(a, n) == a..a + n - 1
UnmapSpan(r, a, n) == uvmunmap(r, a, n, TRUE)

\* The addresses of S are not mapped any more.
Cleared(r, k, S) == \A b \in VAs : k.t.map[b] = IF b \in S THEN NoPte ELSE r.t.map[b]

\* uvmunmap() with do_free, of user addresses.
LEMMA UnmapFrees ==
    ASSUME NEW r, Good(r), NEW a \in Nat, NEW n \in Int, a + n <= TRAPFRAME,
           NEW k, k = UnmapSpan(r, a, n)
    PROVE  /\ Conserves(r, k) /\ (k.ok <=> r.ok)
           /\ Cleared(r, k, Span(a, n))
  <1> DEFINE range == a..a + n - 1
             M == [b \in VAs |-> IF b \in range THEN NoPte ELSE r.t.map[b]]
             S == {r.t.map[b].pa : b \in range} \ {0}
  <1>0. r \in Results /\ r.t \in Tables /\ GoodTable(r.t)
    BY DEF Good, Results
  <1>1. range \subseteq Users /\ range \subseteq VAs /\ range \intersect VAs = range
    BY Places DEF Users
  <1>2. NoPte \in Ptes /\ NoPte.pa = 0
    BY DEF NoPte, Ptes
  <1>3. M \in [VAs -> Ptes]
    BY <1>0, <1>2 DEF Tables
  <1>4. PICK j : j = [r EXCEPT !.t.map = [b \in VAs |-> IF b \in range THEN NoPte ELSE @[b]],
                               !.bad = @ \/ ~(range \subseteq VAs)]
    OBVIOUS
  <1>5. k = kfree(j, S)
    BY <1>1, <1>4 DEF uvmunmap, UnmapSpan
  <1>6. /\ j.t = [r.t EXCEPT !.map = M] /\ j.fr = r.fr /\ (j.ok <=> r.ok) /\ (j.bad <=> r.bad)
        /\ j = [r EXCEPT !.t = j.t, !.bad = @ \/ FALSE]
    <2>1. j = [r EXCEPT !.t.map = M, !.bad = @ \/ FALSE]
      BY <1>0, <1>1, <1>4 DEF Results, Tables
    <2> HIDE DEF M
    <2> QED
      BY <2>1, <1>0 DEF Results, Tables
  <1>7. \A b \in VAs : M[b] = IF b \in range THEN NoPte ELSE r.t.map[b]
    OBVIOUS
  <1> HIDE DEF M
  <1>8. /\ j.t \in Tables /\ j.t.map = M
        /\ TablePages(j.t) = TablePages(r.t)
    BY <1>0, <1>3, <1>6, NewMap
  <1>9. j \in Results
    BY <1>0, <1>6, <1>8 DEF Results
  <1>10. S \subseteq UserPages(r.t)
    BY <1>1, UserPagesAre
  <1>11. UserPages(j.t) = UserPages(r.t) \ S
    <2>1. \A b \in Users : b \in VAs
      BY Places
    <2>2. ASSUME NEW y \in UserPages(j.t) PROVE y \in UserPages(r.t) /\ y \notin S
      <3>1. PICK b \in Users : y = j.t.map[b].pa /\ y # 0
        BY UserPagesAre
      <3>2. b \notin range /\ y = r.t.map[b].pa
        BY <3>1, <2>1, <1>2, <1>7, <1>8
      <3>3. y \in UserPages(r.t)
        BY <3>1, <3>2, UserPagesAre
      <3>4. \A c \in range : r.t.map[c].pa # y
        BY <3>1, <3>2, <1>0, <1>1 DEF GoodTable
      <3> QED
        BY <3>3, <3>4
    <2>3. ASSUME NEW y \in UserPages(r.t), y \notin S PROVE y \in UserPages(j.t)
      <3>1. PICK b \in Users : y = r.t.map[b].pa /\ y # 0
        BY UserPagesAre
      <3>2. b \notin range
        BY <3>1, <2>3
      <3>3. y = j.t.map[b].pa
        BY <3>1, <3>2, <2>1, <1>7, <1>8
      <3> QED
        BY <3>1, <3>3, UserPagesAre
    <2> QED
      BY <2>2, <2>3
  <1>12. GoodTable(j.t)
    <2>1. \A b \in VAs : j.t.map[b].pa = 0 => j.t.map[b] = NoPte
      BY <1>0, <1>7, <1>8 DEF GoodTable
    <2>2. \A b, c \in Users : j.t.map[b].pa = j.t.map[c].pa /\ b # c => j.t.map[b].pa = 0
      BY <1>0, <1>2, <1>7, <1>8, Places DEF GoodTable
    <2> QED
      BY <2>1, <2>2, <1>0, <1>8, <1>11 DEF GoodTable, Own
  <1> HIDE DEF S
  <1>13. Good(j) /\ S \intersect Own(j.t) = {} /\ S \intersect j.fr = {} /\ S \in SUBSET Pages
    BY <1>0, <1>6, <1>8, <1>9, <1>10, <1>11, <1>12 DEF Good, GoodTable, Own
  <1>14. Good(k) /\ k.t = j.t /\ k.fr = j.fr \union S /\ (k.ok <=> j.ok) /\ (k.bad <=> j.bad)
    BY <1>5, <1>13, Freed
  <1>15. Own(k.t) \union k.fr = Own(r.t) \union r.fr
    BY <1>6, <1>8, <1>10, <1>11, <1>14 DEF Own
  <1> QED
    BY <1>6, <1>7, <1>8, <1>14, <1>15 DEF Conserves, Cleared, Span

LEMMA UnmapFixed ==
    ASSUME NEW r, Good(r), NEW a \in Fixed,
           NEW k, k = uvmunmap(r, a, 1, FALSE)
    PROVE  /\ Conserves(r, k) /\ (k.ok <=> r.ok) /\ k.fr = r.fr /\ Own(k.t) = Own(r.t)
           /\ Cleared(r, k, {a})
  <1> DEFINE M == [r.t.map EXCEPT ![a] = NoPte]
  <1>0. r \in Results /\ r.t \in Tables
    BY DEF Good, Results
  <1>1. a \in VAs /\ a..a + 1 - 1 = {a} /\ {a} \subseteq VAs
    BY Places DEF Fixed
  <1>2. NoPte \in Ptes
    BY DEF NoPte, Ptes
  <1>3. M \in [VAs -> Ptes] /\ \A b \in VAs : M[b] = IF b = a THEN NoPte ELSE r.t.map[b]
    BY <1>0, <1>1, <1>2 DEF Tables
  <1>4. [b \in VAs |-> IF b \in a..a + 1 - 1 THEN NoPte ELSE r.t.map[b]] = M
    BY <1>0, <1>1, <1>3 DEF Tables
  <1>5. k = [r EXCEPT !.t.map = [b \in VAs |-> IF b \in a..a + 1 - 1 THEN NoPte ELSE @[b]],
                      !.bad = @ \/ ~(a..a + 1 - 1 \subseteq VAs)]
    BY DEF uvmunmap
  <1>6. k = [r EXCEPT !.t.map = M, !.bad = @ \/ FALSE]
    BY <1>0, <1>1, <1>4, <1>5 DEF Results, Tables
  <1>7. /\ k.t = [r.t EXCEPT !.map = M] /\ k.fr = r.fr /\ (k.ok <=> r.ok) /\ (k.bad <=> r.bad)
        /\ k = [r EXCEPT !.t = k.t, !.bad = @ \/ FALSE]
    <2> HIDE DEF M
    <2> QED
      BY <1>0, <1>6 DEF Results, Tables
  <1>8. k.t \in Tables
    <2> HIDE DEF M
    <2> QED
      BY <1>0, <1>3, <1>7, NewMap
  <1>9. k \in Results
    BY <1>0, <1>7, <1>8 DEF Results
  <1>10. WithMap(r, k, PteSet(r.t.map, a, NoPte))
    BY <1>7, <1>9 DEF WithMap, PteSet
  <1>11. /\ Good(k) /\ Own(k.t) = Own(r.t)
         /\ k.t.map = PteSet(r.t.map, a, NoPte)
    <2>1. PICK pte \in Ptes : pte = NoPte
      BY <1>2
    <2>2. WithMap(r, k, PteSet(r.t.map, a, pte))
      BY <2>1, <1>10
    <2>3. /\ Good(k) /\ Own(k.t) = Own(r.t)
          /\ k.t.map = PteSet(r.t.map, a, pte)
      <3>1. pte.pa = 0 => pte = NoPte
        BY <2>1
      <3>2. k.fr = r.fr
        BY <1>7
      <3> QED
        BY <3>1, <3>2, <2>2, FixedMapped
    <2> QED
      BY <2>1, <2>3
  <1>12. Cleared(r, k, {a})
    BY <1>3, <1>11 DEF Cleared, PteSet
  <1> QED
    BY <1>7, <1>11, <1>12 DEF Conserves

\* All pages of the table are free again.
Emptied(r, k) ==
    /\ Good(k) /\ k.t = NoTable /\ k.fr = r.fr \union Own(r.t)
    /\ k.bad <=> r.bad
    /\ k.ok <=> r.ok

LEMMA FreewalkFrees ==
    ASSUME NEW r, Good(r), \A a \in VAs : r.t.map[a] = NoPte, NEW k, k = freewalk(r)
    PROVE  Emptied(r, k)
  <1>0. r \in Results /\ r.t \in Tables
    BY DEF Good, Results
  <1>1. UserPages(r.t) = {}
    <2>1. \A a \in Users : r.t.map[a].pa = 0
      BY Places DEF NoPte
    <2> QED
      BY <2>1, UserPagesAre
  <1>2. Own(r.t) = TablePages(r.t)
    BY <1>1 DEF Own
  <1>3. PICK j : j = [r EXCEPT !.t = NoTable]
    OBVIOUS
  <1>4. j \in Results /\ j.t = NoTable /\ j.fr = r.fr /\ (j.ok <=> r.ok) /\ (j.bad <=> r.bad)
    BY <1>0, <1>3, NoTableGood DEF Results
  <1>5. Good(j)
    BY <1>4, NoTableGood DEF Good
  <1>6. PICK m : m = kfree(j, TablePages(r.t))
    OBVIOUS
  <1>7. TablePages(r.t) \in SUBSET Pages /\ TablePages(r.t) \intersect j.fr = {}
    BY <1>2, <1>4 DEF Good, GoodTable
  <1>8. TablePages(r.t) \intersect Own(j.t) = {}
    BY <1>4, NoTableGood
  <1>9. Good(m) /\ m.t = j.t /\ m.fr = j.fr \union TablePages(r.t) /\ (m.ok <=> j.ok) /\ (m.bad <=> j.bad)
    BY <1>5, <1>6, <1>7, <1>8, Freed
  <1>10. m \in Results
    BY <1>9 DEF Good
  <1>11. k = [m EXCEPT !.bad = @ \/ FALSE]
    BY <1>3, <1>6 DEF freewalk
  <1>12. k \in Results /\ k.t = m.t /\ k.fr = m.fr /\ (k.ok <=> m.ok) /\ (k.bad <=> m.bad)
    BY <1>10, <1>11 DEF Results
  <1>13. Good(k)
    BY <1>9, <1>12 DEF Good
  <1> QED
    BY <1>2, <1>4, <1>9, <1>12, <1>13 DEF Emptied

\* No user address from page n on is mapped.
Confined(t, n) == \A a \in Users : a >= n => t.map[a] = NoPte

LEMMA UvmfreeFrees ==
    ASSUME NEW r, Good(r), NEW size \in Nat, PGROUNDUP(size) <= TRAPFRAME,
           Confined(r.t, PGROUNDUP(size)),
           r.t.map[TRAPFRAME] = NoPte, r.t.map[TRAMPOLINE] = NoPte,
           NEW k, k = uvmfree(r, size)
    PROVE  Emptied(r, k)
  <1>0. PICK n \in Nat : n = PGROUNDUP(size)
    BY RoundUp
  <1>1. PICK j : j = uvmunmap(r, 0, n, TRUE)
    OBVIOUS
  <1>2. PICK z \in Nat : z = 0 /\ z + n <= TRAPFRAME
    BY <1>0
  <1>3. /\ Conserves(r, j) /\ (j.ok <=> r.ok)
        /\ Cleared(r, j, Span(0, n))
    <2>1. j = UnmapSpan(r, z, n)
      BY <1>1, <1>2 DEF UnmapSpan
    <2>2. Conserves(r, j) /\ (j.ok <=> r.ok) /\ Cleared(r, j, Span(z, n))
      BY <2>1, <1>2, UnmapFrees
    <2> QED
      BY <2>2, <1>2
  <1>4. \A a \in VAs : j.t.map[a] = NoPte
    <2>1. \A a \in Users : a \in Span(0, n) \/ a >= n
      BY Places DEF Users, Span
    <2>2. \A a \in Users : a \in Span(0, n) \/ r.t.map[a] = NoPte
      BY <2>1, <1>0 DEF Confined
    <2> QED
      BY <2>2, <1>3, Places DEF Cleared
  <1>5. Good(j)
    BY <1>3 DEF Conserves
  <1>6. k = freewalk(j)
    BY <1>0, <1>1 DEF uvmfree
  <1>7. Emptied(j, k)
    BY <1>4, <1>5, <1>6, FreewalkFrees
  <1> QED
    BY <1>3, <1>7 DEF Emptied, Conserves

LEMMA ProcFreepagetableFrees ==
    ASSUME NEW r, Good(r), NEW size \in Nat, PGROUNDUP(size) <= TRAPFRAME,
           Confined(r.t, PGROUNDUP(size)),
           NEW k, k = proc_freepagetable(r, size)
    PROVE  Emptied(r, k)
  <1>1. PICK i : i = uvmunmap(r, TRAMPOLINE, 1, FALSE)
    OBVIOUS
  <1>2. /\ Conserves(r, i) /\ (i.ok <=> r.ok) /\ i.fr = r.fr /\ Own(i.t) = Own(r.t)
        /\ Cleared(r, i, {TRAMPOLINE})
    BY <1>1, UnmapFixed DEF Fixed
  <1>3. Good(i)
    BY <1>2 DEF Conserves
  <1>4. PICK j : j = uvmunmap(i, TRAPFRAME, 1, FALSE)
    OBVIOUS
  <1>5. /\ Conserves(i, j) /\ (j.ok <=> i.ok) /\ j.fr = i.fr /\ Own(j.t) = Own(i.t)
        /\ Cleared(i, j, {TRAPFRAME})
    BY <1>3, <1>4, UnmapFixed DEF Fixed
  <1>6. Good(j)
    BY <1>5 DEF Conserves
  <1>7. /\ j.t.map[TRAPFRAME] = NoPte /\ j.t.map[TRAMPOLINE] = NoPte
        /\ \A a \in Users : j.t.map[a] = r.t.map[a]
    BY <1>2, <1>5, Places DEF Cleared
  <1>8. Confined(j.t, PGROUNDUP(size))
    BY <1>7 DEF Confined
  <1>9. k = uvmfree(j, size)
    BY <1>1, <1>4 DEF proc_freepagetable
  <1>10. Emptied(j, k)
    BY <1>6, <1>7, <1>8, <1>9, UvmfreeFrees
  <1> QED
    BY <1>2, <1>5, <1>10 DEF Emptied, Conserves

\* The fixed pages of a process with trapframe f, and user pages below n only.
Layout(t, f, n) ==
    /\ t.map[TRAMPOLINE] = [pa |-> trampoline, u |-> 0, w |-> 0]
    /\ t.map[TRAPFRAME] = [pa |-> f, u |-> 0, w |-> 1]
    /\ Confined(t, n)

\* What proc_pagetable() returns: a new page table, or none and nothing has changed.
Founded(fr, f, k) ==
    /\ Good(k) /\ ~k.bad /\ Own(k.t) \union k.fr = fr
    /\ IF k.ok THEN Layout(k.t, f, 0) ELSE k.t = NoTable

LEMMA ProcPagetableFounds ==
    ASSUME NEW fr \in SUBSET Pages, NEW f \in Pages, NEW k, k = proc_pagetable(fr, f)
    PROVE  Founded(fr, f, k)
  <1>1. CASE fr = {}
    <2>1. k = [Make(NoTable, fr) EXCEPT !.ok = FALSE]
      BY <1>1 DEF proc_pagetable, Fail
    <2>2. k \in Results /\ k.t = NoTable /\ k.fr = fr /\ ~k.ok /\ ~k.bad
      BY <2>1, NoTableGood DEF Make, Results
    <2> QED
      BY <2>2, NoTableGood DEF Founded, Good
  <1>2. CASE fr # {}
    <2>1. PICK x : x = kalloc(fr)
      OBVIOUS
    <2>2. x \in fr /\ x \in Pages /\ x \in Nat /\ x # 0
      <3>1. x \in fr
        BY <1>2, <2>1 DEF kalloc
      <3> QED
        BY <3>1, Places DEF Pages
    <2>3. PICK t : t = [NoTable EXCEPT !.root = x]
      OBVIOUS
    <2>4. t \in Tables /\ t.root = x /\ t.map = NoTable.map /\ t.dir = NoTable.dir
      BY <2>2, <2>3, NoTableGood DEF Tables
    <2>5. TablePages(t) = {x}
      <3>1. \A level \in {0, 1}, j \in Keys : t.dir[level][j] = 0
        BY <2>4 DEF NoTable, Keys
      <3>2. ASSUME NEW y PROVE y \in TablePages(t) <=> y = x
        <4>1. y \in TablePages(t) <=>
                y # 0 /\ (y = t.root \/ \E level \in {0, 1}, j \in Keys : y = t.dir[level][j])
          BY <2>4, TablePagesAre
        <4> QED
          BY <4>1, <3>1, <2>2, <2>4
      <3> QED
        BY <3>2
    <2>6. UserPages(t) = {}
      BY <2>4, NoTableGood DEF UserPages
    <2>7. \A a \in VAs : t.map[a] = NoPte
      BY <2>4, NoTableGood
    <2>8. GoodTable(t) /\ Own(t) = {x}
      <3>1. \A a \in Users : t.map[a].pa = 0
        BY <2>7, Places DEF NoPte
      <3> QED
        BY <3>1, <2>2, <2>4, <2>5, <2>6, <2>7 DEF GoodTable, Own
    <2>9. PICK r : r = Make(t, fr \ {x})
      OBVIOUS
    <2>10. r \in Results /\ r.t = t /\ r.fr = fr \ {x} /\ r.ok /\ ~r.bad
      BY <2>4, <2>9 DEF Make, Results
    <2>11. Good(r) /\ Own(r.t) \union r.fr = fr
      BY <2>2, <2>8, <2>10 DEF Good
    <2>12. PICK k1 : k1 = mappages(r, TRAMPOLINE, trampoline, 0, 0)
      OBVIOUS
    <2>13. PICK k2 : k2 = mappages(k1, TRAPFRAME, f, 0, 1)
      OBVIOUS
    <2>14. k = IF ~k1.ok THEN uvmfree(k1, 0)
               ELSE IF ~k2.ok THEN uvmfree(uvmunmap(k2, TRAMPOLINE, 1, FALSE), 0)
               ELSE k2
      BY <1>2, <2>1, <2>3, <2>9, <2>12, <2>13 DEF proc_pagetable
    <2>15. TRAMPOLINE \in VAs /\ TRAPFRAME \in VAs /\ trampoline \in Nat /\ f \in Nat /\ f # 0
      BY Places DEF trampoline, Pages
    <2>16. PICK j1 : /\ Conserves(r, j1) /\ j1.t.map = r.t.map
                     /\ ~k1.ok => k1 = j1
                     /\ k1.ok => /\ WithMap(j1, k1, MapSet(r.t.map, TRAMPOLINE, trampoline, 0, 0))
                                 /\ k1.fr = j1.fr /\ (k1.bad <=> j1.bad)
      BY <2>7, <2>10, <2>11, <2>12, <2>15, MappagesMaps
    <2>17. /\ Good(j1) /\ Own(j1.t) \union j1.fr = fr /\ ~j1.bad
           /\ j1.t.map = t.map
      BY <2>4, <2>10, <2>11, <2>16 DEF Conserves
    <2>18. CASE ~k1.ok
      <3>1. k = uvmfree(j1, 0)
        BY <2>14, <2>16, <2>18
      <3>2. Confined(j1.t, PGROUNDUP(0)) /\ PGROUNDUP(0) <= TRAPFRAME
        BY <2>7, <2>17, RoundZero, Places DEF Confined
      <3>3. j1.t.map[TRAPFRAME] = NoPte /\ j1.t.map[TRAMPOLINE] = NoPte
        BY <2>7, <2>15, <2>17
      <3>4. Emptied(j1, k)
        BY <3>1, <3>2, <3>3, <2>17, UvmfreeFrees
      <3>5. ~k.ok
        BY <3>4, <2>16, <2>18 DEF Emptied
      <3> QED
        BY <3>4, <3>5, <2>17, NoTableGood DEF Emptied, Founded
    <2>19. CASE k1.ok
      <3>1. PICK p1 : p1 = [pa |-> trampoline, u |-> 0, w |-> 0]
        OBVIOUS
      <3>2. p1 \in Ptes /\ p1.pa # 0
        BY <3>1, <2>15, Places DEF Ptes
      <3>3. WithMap(j1, k1, PteSet(j1.t.map, TRAMPOLINE, p1)) /\ k1.fr = j1.fr /\ (k1.bad <=> j1.bad)
        BY <3>1, <2>16, <2>19 DEF MapSet, PteSet
      <3>4. /\ Good(k1) /\ Own(k1.t) = Own(j1.t)
            /\ k1.t.map = PteSet(j1.t.map, TRAMPOLINE, p1)
        BY <3>2, <3>3, <2>17, FixedMapped DEF Fixed
      <3>5. /\ Own(k1.t) \union k1.fr = fr /\ ~k1.bad
            /\ \A a \in VAs : k1.t.map[a] = IF a = TRAMPOLINE THEN p1 ELSE NoPte
        <4>1. DOMAIN j1.t.map = VAs
          BY <2>4, <2>17 DEF Tables
        <4> QED
          BY <4>1, <3>3, <3>4, <2>7, <2>17 DEF PteSet
      <3>6. k1.t.map[TRAPFRAME] = NoPte
        BY <3>5, <2>15, Places
      <3>7. PICK j2 : /\ Conserves(k1, j2) /\ j2.t.map = k1.t.map
                      /\ ~k2.ok => k2 = j2
                      /\ k2.ok => /\ WithMap(j2, k2, MapSet(k1.t.map, TRAPFRAME, f, 0, 1))
                                  /\ k2.fr = j2.fr /\ (k2.bad <=> j2.bad)
        BY <3>4, <3>6, <2>13, <2>15, <2>19, MappagesMaps
      <3>8. /\ Good(j2) /\ Own(j2.t) \union j2.fr = fr /\ ~j2.bad
            /\ j2.t.map = k1.t.map
        BY <3>5, <3>7 DEF Conserves
      <3>9. CASE ~k2.ok
        <4>1. PICK m : m = uvmunmap(j2, TRAMPOLINE, 1, FALSE)
          OBVIOUS
        <4>2. /\ Conserves(j2, m) /\ (m.ok <=> j2.ok) /\ m.fr = j2.fr /\ Own(m.t) = Own(j2.t)
              /\ Cleared(j2, m, {TRAMPOLINE})
          BY <4>1, <3>8, UnmapFixed DEF Fixed
        <4>3. \A a \in VAs : m.t.map[a] = NoPte
          BY <4>2, <3>5, <3>8 DEF Cleared
        <4>4. Good(m)
          BY <4>2 DEF Conserves
        <4>5. k = uvmfree(m, 0)
          BY <4>1, <3>7, <3>9, <2>14, <2>19
        <4>6. Confined(m.t, PGROUNDUP(0)) /\ PGROUNDUP(0) <= TRAPFRAME
          BY <4>3, RoundZero, Places DEF Confined
        <4>7. Emptied(m, k)
          BY <4>3, <4>4, <4>5, <4>6, <2>15, UvmfreeFrees
        <4>8. ~k.ok
          BY <4>2, <4>7, <3>7, <3>9 DEF Emptied
        <4>9. ~m.bad
          BY <4>2, <3>8 DEF Conserves
        <4> QED
          BY <4>2, <4>7, <4>8, <4>9, <3>8, NoTableGood DEF Emptied, Founded
      <3>10. CASE k2.ok
        <4>1. PICK p2 : p2 = [pa |-> f, u |-> 0, w |-> 1]
          OBVIOUS
        <4>2. p2 \in Ptes /\ p2.pa # 0
          BY <4>1, <2>15 DEF Ptes
        <4>3. WithMap(j2, k2, PteSet(j2.t.map, TRAPFRAME, p2)) /\ k2.fr = j2.fr /\ (k2.bad <=> j2.bad)
          BY <4>1, <3>7, <3>10 DEF MapSet, PteSet
        <4>4. /\ Good(k2) /\ Own(k2.t) = Own(j2.t)
              /\ k2.t.map = PteSet(j2.t.map, TRAPFRAME, p2)
          BY <4>2, <4>3, <3>8, FixedMapped DEF Fixed
        <4>5. \A a \in VAs : k2.t.map[a] = IF a = TRAPFRAME THEN p2 ELSE k1.t.map[a]
          <5>1. DOMAIN j2.t.map = VAs
            BY <3>8 DEF Tables, Good, GoodTable
          <5> QED
            BY <5>1, <4>4, <3>8 DEF PteSet
        <4>6. Layout(k2.t, f, 0)
          BY <4>1, <4>5, <3>1, <3>5, <2>15, Places DEF Layout, Confined
        <4>7. k = k2
          BY <3>10, <2>14, <2>19
        <4> QED
          BY <4>3, <4>4, <4>6, <4>7, <3>8, <3>10, <2>2 DEF Founded
      <3> QED
        BY <3>9, <3>10
    <2> QED
      BY <2>18, <2>19
  <1> QED
    BY <1>1, <1>2

----------------------------------------------------------------------------
(* The inductive invariant *)

PCs == {"user", "failed", "grow", "fork_table", "fork_copy", "fork_run", "argv", "arg", "open", "load"}
Forking == {"fork_table", "fork_copy", "fork_run"}
Execing == {"argv", "arg", "open", "load"}
States == {"UNUSED", "USED", "RUNNABLE", "ZOMBIE"}

TypedTable ==
    /\ state \in [Slots -> States]
    /\ tf \in [Slots -> Pages \union {0}]
    /\ space \in [Slots -> Tables]
    /\ sz \in [Slots -> Nat]

TypedRegs ==
    /\ mem_pc \in [Slots -> PCs]
    /\ va \in [Slots -> Nat] /\ newsz \in [Slots -> Nat]
    /\ new \in [Slots -> Tables]
    /\ prog \in [Slots -> Seq(Headers)]
    /\ argv \in [Slots -> SUBSET Pages]
    /\ child \in [Slots -> 0..NPROC]
    /\ before = [p \in Slots |-> before[p]]

Typed ==
    /\ free \in SUBSET Pages /\ kstack = proc_mapstacks /\ wrong \in BOOLEAN
    /\ TypedTable /\ TypedRegs

Kstacks == {kstack[p] : p \in Slots}

\* The pages of a slot, which are four parts.
Holding(p) == ({tf[p]} \ {0}) \union Own(space[p]) \union Own(new[p]) \union argv[p]

Apart(p) ==
    /\ ({tf[p]} \ {0}) \intersect Own(space[p]) = {}
    /\ ({tf[p]} \ {0}) \intersect Own(new[p]) = {}
    /\ ({tf[p]} \ {0}) \intersect argv[p] = {}
    /\ Own(space[p]) \intersect Own(new[p]) = {}
    /\ Own(space[p]) \intersect argv[p] = {}
    /\ Own(new[p]) \intersect argv[p] = {}

\* Every page is free, a kernel stack, or in one part of one slot.
Partition ==
    /\ \A x \in Pages : x \in free \/ x \in Kstacks \/ \E p \in Slots : x \in Holding(p)
    /\ Kstacks \subseteq Pages /\ Kstacks \intersect free = {}
    /\ \A p \in Slots :
        /\ Holding(p) \subseteq Pages /\ Apart(p)
        /\ Holding(p) \intersect free = {} /\ Holding(p) \intersect Kstacks = {}
    /\ \A p, q \in Slots : p # q => Holding(p) \intersect Holding(q) = {}

TablesGood == \A p \in Slots : GoodTable(space[p]) /\ GoodTable(new[p])

\* init before its exec(), when even its page table may be missing.
Booting(p) == p = 1 /\ sz[p] = 0 /\ space[p] = NoTable /\ mem_pc[p] \in {"open", "load"}

\* The user pages of p are below this one.
Top(p) == IF mem_pc[p] = "grow" THEN va[p] ELSE PGROUNDUP(sz[p])

\* What is in a slot.
SlotInv(p) ==
    /\ PGROUNDUP(sz[p]) <= TRAPFRAME
    /\ state[p] # "RUNNABLE" => mem_pc[p] = "user"
    /\ state[p] = "UNUSED" => tf[p] = 0 /\ space[p] = NoTable /\ sz[p] = 0
    /\ state[p] # "UNUSED" => tf[p] \in Pages
    /\ state[p] = "USED" => space[p] = NoTable \/ Layout(space[p], tf[p], TRAPFRAME)
    /\ state[p] \in {"RUNNABLE", "ZOMBIE"} => Booting(p) \/ Layout(space[p], tf[p], Top(p))

\* Which registers are in use.
RegsInv(p) ==
    /\ mem_pc[p] \notin Forking => child[p] = 0
    /\ mem_pc[p] # "load" => new[p] = NoTable
    /\ mem_pc[p] \notin Execing => argv[p] = {}
    /\ mem_pc[p] \in {"user", "failed", "argv", "arg", "open", "fork_table"} => va[p] = 0
    /\ mem_pc[p] \in {"user", "failed", "argv", "arg", "open"} => newsz[p] = 0
    /\ mem_pc[p] = "grow" =>
          /\ sz[p] <= newsz[p]
          /\ PGROUNDUP(sz[p]) <= va[p] /\ va[p] <= PGROUNDUP(newsz[p])
          /\ PGROUNDUP(newsz[p]) <= TRAPFRAME

SamePerms(x, y) == (x.pa = 0 <=> y.pa = 0) /\ x.u = y.u /\ x.w = y.w

\* The pages below n are copied from t to s.
Copied(t, s, n) == \A a \in Users : a < n => SamePerms(t.map[a], s.map[a])

\* The child that a fork() is making.
ChildInv(p, q) ==
    /\ q \in Slots /\ q # p /\ state[q] = "USED"
    /\ \A s \in Slots : s # p => child[s] # q
    /\ mem_pc[p] = "fork_table" => space[q] = NoTable /\ sz[q] = 0
    /\ mem_pc[p] = "fork_copy" =>
          /\ sz[q] = 0 /\ va[p] <= PGROUNDUP(sz[p])
          /\ Layout(space[q], tf[q], va[p]) /\ Copied(space[p], space[q], va[p])
    /\ mem_pc[p] = "fork_run" =>
          /\ sz[q] = sz[p]
          /\ Layout(space[q], tf[q], PGROUNDUP(sz[p]))
          /\ Copied(space[p], space[q], PGROUNDUP(sz[p]))

ForkInv(p) == mem_pc[p] \in Forking => ChildInv(p, child[p])

\* How far the new image of an exec() is mapped.
High(p) == IF va[p] >= PGROUNDUP(newsz[p]) THEN va[p] ELSE PGROUNDUP(newsz[p])

SizeWith(p) == IF SegmentEnd(p) >= newsz[p] THEN SegmentEnd(p) ELSE newsz[p]

\* All pages below n are there, for the user.
Full(t, n) == \A a \in Users : a < n => t.map[a].u = 1

HeaderFits(h) == PGROUNDUP(h.vaddr + h.memsz) + USERSTACK + 1 <= TRAPFRAME

\* The image that an exec() is making.
ExecInv(p) ==
    mem_pc[p] = "load" =>
        /\ High(p) <= TRAPFRAME
        /\ Layout(new[p], tf[p], High(p)) /\ Full(new[p], High(p))
        /\ prog[p] # <<>> => va[p] <= PGROUNDUP(SizeWith(p))
        /\ prog[p] = <<>> => va[p] <= PGROUNDUP(newsz[p]) + USERSTACK + 1
        /\ \A k \in DOMAIN prog[p] : prog[p][k].filesz <= prog[p][k].memsz
        /\ \/ NPAGES <= TRAPFRAME
           \/ /\ PGROUNDUP(newsz[p]) + USERSTACK + 1 <= TRAPFRAME
              /\ \A k \in DOMAIN prog[p] : HeaderFits(prog[p][k])

\* The image of t without its pages from n on.
ImageBelow(t, n, size) ==
    [perms |-> [a \in VAs |-> IF a \in Users /\ a >= n
                              THEN [v |-> FALSE, u |-> 0, w |-> 0] ELSE Perms(t)[a]],
     sz |-> size]

\* What the caller had when its call began, and what exec() had to allocate of it.
KeptInv(p) ==
    state[p] = "RUNNABLE" =>
        /\ mem_pc[p] \in Execing \union Forking \union {"failed"} => Faulted(before[p], Image(p))
        /\ mem_pc[p] = "grow" => before[p] = ImageBelow(space[p], PGROUNDUP(sz[p]), sz[p])

Local(p) == SlotInv(p) /\ RegsInv(p) /\ ForkInv(p) /\ ExecInv(p) /\ KeptInv(p)

MemInv ==
    /\ Typed /\ Partition /\ TablesGood /\ ~wrong
    /\ \A p \in Slots : Local(p)

----------------------------------------------------------------------------
(* What a step of one process leaves alone. *)

SameTable(s) ==
    state'[s] = state[s] /\ tf'[s] = tf[s] /\ space'[s] = space[s] /\ sz'[s] = sz[s]

SameAt(s) ==
    /\ SameTable(s)
    /\ mem_pc'[s] = mem_pc[s] /\ va'[s] = va[s] /\ new'[s] = new[s] /\ newsz'[s] = newsz[s]
    /\ prog'[s] = prog[s] /\ argv'[s] = argv[s] /\ child'[s] = child[s]
    /\ before'[s] = before[s]

LEMMA FaultedSelf == \A i : Faulted(i, i)
  BY DEF Faulted

LEMMA SameLocal ==
    ASSUME NEW s \in Slots, Local(s), SameAt(s),
           mem_pc[s] \in Forking =>
               /\ SameTable(child[s])
               /\ \A x \in Slots : x # s => child'[x] # child[s]
    PROVE  Local(s)'
  <1> USE DEF SameAt, SameTable
  <1>1. SlotInv(s)'
    BY DEF Local, SlotInv, Booting, Top
  <1>2. RegsInv(s)'
    BY DEF Local, RegsInv
  <1>3. ForkInv(s)'
    BY DEF Local, ForkInv, ChildInv
  <1>4. ExecInv(s)'
    BY DEF Local, ExecInv, High, SizeWith, SegmentEnd, Segment
  <1>5. KeptInv(s)'
    BY DEF Local, KeptInv, Image
  <1> QED
    BY <1>1, <1>2, <1>3, <1>4, <1>5 DEF Local

\* A step of p that may change slot q: a child of p, or one that nobody is making.
Frame(p, q) ==
    /\ \A s \in Slots : s # p /\ s # q => SameAt(s)
    /\ state[p] # "USED"
    /\ state[q] # "USED" \/ (mem_pc[p] \in Forking /\ q = child[p])
    /\ \A x \in Slots :
          child'[x] = child[x] \/ child'[x] = 0 \/ state[child'[x]] # "USED"

LEMMA Others ==
    ASSUME \A s \in Slots : Local(s), NEW p \in Slots, NEW q \in Slots, Frame(p, q),
           NEW s \in Slots, s # p, s # q
    PROVE  Local(s)'
  <1>1. SameAt(s) /\ Local(s)
    BY DEF Frame
  <1>2. ASSUME mem_pc[s] \in Forking
        PROVE  /\ SameTable(child[s])
               /\ \A x \in Slots : x # s => child'[x] # child[s]
    <2>1. PICK c : c = child[s]
      OBVIOUS
    <2>2. /\ c \in Slots /\ state[c] = "USED" /\ \A x \in Slots : x # s => child[x] # c
      BY <1>1, <1>2, <2>1 DEF Local, ForkInv, ChildInv
    <2>3. c # p /\ c # q
      BY <2>2 DEF Frame
    <2>4. SameTable(c)
      BY <2>2, <2>3 DEF Frame, SameAt
    <2>5. 0 \notin Slots
      BY MemoryAssumption DEF Slots
    <2> QED
      BY <2>1, <2>2, <2>4, <2>5 DEF Frame
  <1> QED
    BY <1>1, <1>2, SameLocal

\* The pages of one slot and the free pages are exchanged.
PagesMoved(x) ==
    /\ \A s \in Slots : s # x =>
          tf'[s] = tf[s] /\ space'[s] = space[s] /\ new'[s] = new[s] /\ argv'[s] = argv[s]
    /\ free' \union Holding(x)' = free \union Holding(x)
    /\ free' \intersect Holding(x)' = {}
    /\ Apart(x)'
    /\ GoodTable(space'[x]) /\ GoodTable(new'[x])

LEMMA PartitionStep ==
    ASSUME Partition, TablesGood, free \subseteq Pages, kstack' = kstack,
           NEW x \in Slots, PagesMoved(x)
    PROVE  Partition' /\ TablesGood'
  <1>1. \A s \in Slots : s # x =>
          Holding(s)' = Holding(s) /\ (Apart(s) => Apart(s)')
    BY DEF PagesMoved, Holding, Apart
  <1>2. Kstacks' = Kstacks
    BY DEF Kstacks
  <1>3. /\ free' \union Holding(x)' = free \union Holding(x)
        /\ free' \intersect Holding(x)' = {} /\ Apart(x)'
    BY DEF PagesMoved
  <1>4. \A y \in Pages : y \in free' \/ y \in Kstacks' \/ \E p \in Slots : y \in Holding(p)'
    <2> SUFFICES ASSUME NEW y \in Pages, y \notin free', y \notin Kstacks'
                 PROVE  \E p \in Slots : y \in Holding(p)'
      OBVIOUS
    <2>1. y \in free \/ \E p \in Slots : y \in Holding(p)
      BY <1>2 DEF Partition
    <2>2. CASE y \in free \union Holding(x)
      BY <2>2, <1>3
    <2>3. CASE y \notin free \union Holding(x)
      <3>1. PICK p \in Slots : y \in Holding(p)
        BY <2>1, <2>3
      <3>2. p # x
        BY <3>1, <2>3
      <3> QED
        BY <3>1, <3>2, <1>1
    <2> QED
      BY <2>2, <2>3
  <1>5. /\ Holding(x)' \subseteq Pages /\ Holding(x)' \intersect Kstacks' = {}
        /\ Kstacks' \subseteq Pages /\ Kstacks' \intersect free' = {}
    <2>1. \A y : y \in free' \/ y \in Holding(x)' => y \in free \/ y \in Holding(x)
      BY <1>3
    <2>2. /\ Holding(x) \subseteq Pages /\ Holding(x) \intersect Kstacks = {}
          /\ Kstacks \subseteq Pages /\ Kstacks \intersect free = {}
      BY DEF Partition
    <2> QED
      BY <2>1, <2>2, <1>2
  <1>6. ASSUME NEW p \in Slots
        PROVE  /\ Holding(p)' \subseteq Pages /\ Apart(p)'
               /\ Holding(p)' \intersect free' = {} /\ Holding(p)' \intersect Kstacks' = {}
    <2>1. CASE p = x
      BY <2>1, <1>3, <1>5
    <2>2. CASE p # x
      <3>1. Holding(p)' = Holding(p) /\ Apart(p)'
        BY <2>2, <1>1 DEF Partition
      <3>2. /\ Holding(p) \subseteq Pages /\ Holding(p) \intersect free = {}
            /\ Holding(p) \intersect Kstacks = {} /\ Holding(p) \intersect Holding(x) = {}
        BY <2>2 DEF Partition
      <3>3. Holding(p) \intersect free' = {}
        BY <3>2, <1>3
      <3> QED
        BY <3>1, <3>2, <3>3, <1>2
    <2> QED
      BY <2>1, <2>2
  <1>7. ASSUME NEW p \in Slots, NEW q \in Slots, p # q
        PROVE  Holding(p)' \intersect Holding(q)' = {}
    <2>1. \A s \in Slots : s # x => Holding(s) \intersect Holding(x)' = {}
      <3> SUFFICES ASSUME NEW s \in Slots, s # x PROVE Holding(s) \intersect Holding(x)' = {}
        OBVIOUS
      <3>1. Holding(s) \intersect Holding(x) = {} /\ Holding(s) \intersect free = {}
        BY DEF Partition
      <3> QED
        BY <3>1, <1>3
    <2>2. CASE p # x /\ q # x
      BY <2>2, <1>1, <1>7 DEF Partition
    <2>3. CASE p = x
      BY <2>1, <2>3, <1>1, <1>7
    <2>4. CASE q = x
      BY <2>1, <2>4, <1>1, <1>7
    <2> QED
      BY <2>2, <2>3, <2>4
  <1>8. Partition'
    BY <1>4, <1>5, <1>6, <1>7 DEF Partition
  <1>9. TablesGood'
    BY DEF TablesGood, PagesMoved
  <1> QED
    BY <1>8, <1>9

\* The invariant after a step of p that may change slot q, and the pages of slot x.
LEMMA Assemble ==
    ASSUME MemInv, NEW p \in Slots, NEW q \in Slots, NEW x \in Slots,
           Frame(p, q), PagesMoved(x), Typed', ~wrong', Local(p)', Local(q)'
    PROVE  MemInv'
  <1>1. Typed /\ Partition /\ TablesGood /\ \A s \in Slots : Local(s)
    BY DEF MemInv
  <1>2. kstack' = kstack /\ free \subseteq Pages
    BY <1>1 DEF Typed, proc_mapstacks
  <1>3. Partition' /\ TablesGood'
    BY <1>1, <1>2, PartitionStep
  <1>4. ASSUME NEW s \in Slots PROVE Local(s)'
    <2>1. CASE s # p /\ s # q
      BY <2>1, <1>1, Others
    <2> QED
      BY <2>1
  <1> QED
    BY <1>3, <1>4 DEF MemInv

\* No page moves.
LEMMA NothingMoved ==
    ASSUME MemInv, free' = free, tf' = tf, space' = space, new' = new, argv' = argv,
           NEW x \in Slots
    PROVE  PagesMoved(x)
  <1>1. Partition /\ TablesGood
    BY DEF MemInv
  <1>2. Holding(x)' = Holding(x) /\ (Apart(x) => Apart(x)')
    BY DEF Holding, Apart
  <1>3. Apart(x) /\ Holding(x) \intersect free = {} /\ GoodTable(space[x]) /\ GoodTable(new[x])
    BY <1>1 DEF Partition, TablesGood
  <1> QED
    BY <1>2, <1>3 DEF PagesMoved

\* The facts about the slot of a process that takes a step.
LEMMA SlotFacts ==
    ASSUME MemInv, NEW x \in Slots
    PROVE  /\ Local(x) /\ Typed /\ ~wrong
           /\ GoodTable(space[x]) /\ GoodTable(new[x]) /\ Apart(x)
           /\ Holding(x) \subseteq Pages /\ Holding(x) \intersect free = {}
           /\ Good(Make(space[x], free)) /\ Good(Make(new[x], free))
           /\ free \in SUBSET Pages
  <1>1. /\ Typed /\ ~wrong /\ Local(x) /\ free \in SUBSET Pages
        /\ GoodTable(space[x]) /\ GoodTable(new[x]) /\ Apart(x)
        /\ Holding(x) \subseteq Pages /\ Holding(x) \intersect free = {}
    BY DEF MemInv, Partition, TablesGood, Typed
  <1>2. Own(space[x]) \intersect free = {} /\ Own(new[x]) \intersect free = {}
    BY <1>1 DEF Holding
  <1>3. ASSUME NEW t \in Tables PROVE Make(t, free) \in Results /\ Make(t, free).t = t /\ Make(t, free).fr = free
    BY <1>1 DEF Make, Results
  <1>4. space[x] \in Tables /\ new[x] \in Tables
    BY <1>1 DEF GoodTable
  <1> QED
    BY <1>1, <1>2, <1>3, <1>4 DEF Good

SameRegs(s) ==
    /\ mem_pc'[s] = mem_pc[s] /\ va'[s] = va[s] /\ new'[s] = new[s] /\ newsz'[s] = newsz[s]
    /\ prog'[s] = prog[s] /\ argv'[s] = argv[s] /\ child'[s] = child[s]
    /\ before'[s] = before[s]

Zero == 0 \in Nat /\ 0 \in 0..NPROC /\ 0 \notin Slots /\ 1 \in Slots

LEMMA ZeroIs == Zero
  BY MemoryAssumption DEF Zero, Slots

\* The registers after End().
Blank(p, l) ==
    /\ mem_pc'[p] = l /\ va'[p] = 0 /\ new'[p] = NoTable /\ newsz'[p] = 0
    /\ prog'[p] = <<>> /\ argv'[p] = {} /\ child'[p] = 0

LEMMA Ended ==
    ASSUME TypedRegs, NEW p \in Slots, NEW l \in {"user", "failed"}, End(p, l)
    PROVE  /\ Blank(p, l)
           /\ before'[p] = IF l = "failed" THEN before[p] ELSE NoImage
           /\ \A s \in Slots : s # p => SameRegs(s)
           /\ TypedRegs'
           /\ RegsInv(p)' /\ ForkInv(p)' /\ ExecInv(p)'
  <1> USE DEF End, Forget, MemGoto
  <1>1. Blank(p, l)
    BY DEF TypedRegs, Blank
  <1>2. before'[p] = IF l = "failed" THEN before[p] ELSE NoImage
    BY DEF TypedRegs
  <1>3. \A s \in Slots : s # p => SameRegs(s)
    BY DEF TypedRegs, SameRegs
  <1>4. TypedRegs'
    <2>1. NoTable \in Tables /\ 0 \in Nat /\ 0 \in 0..NPROC /\ {} \in SUBSET Pages /\ l \in PCs
      BY NoTableGood, ZeroIs DEF PCs, Zero
    <2>2. <<>> \in Seq(Headers)
      OBVIOUS
    <2>3. before' = [s \in Slots |-> before'[s]]
      <3>1. before = [s \in Slots |-> before[s]]
        BY DEF TypedRegs
      <3> QED
        BY <3>1
    <2>4. /\ mem_pc' \in [Slots -> PCs] /\ va' \in [Slots -> Nat] /\ newsz' \in [Slots -> Nat]
      BY <2>1 DEF TypedRegs
    <2>5. new' \in [Slots -> Tables] /\ argv' \in [Slots -> SUBSET Pages]
      BY <2>1 DEF TypedRegs
    <2>6. prog' \in [Slots -> Seq(Headers)]
      BY <2>2 DEF TypedRegs
    <2>7. child' \in [Slots -> 0..NPROC]
      BY <2>1 DEF TypedRegs
    <2> QED
      BY <2>3, <2>4, <2>5, <2>6, <2>7 DEF TypedRegs
  <1>5. RegsInv(p)'
    BY <1>1 DEF Blank, RegsInv
  <1>6. ForkInv(p)' /\ ExecInv(p)'
    BY <1>1 DEF Blank, ForkInv, ExecInv, Forking
  <1> HIDE DEF End, Forget, MemGoto
  <1> QED
    BY <1>1, <1>2, <1>3, <1>4, <1>5, <1>6

\* A step of a process that leaves the other slots alone.
LEMMA FrameSelf ==
    ASSUME NEW p \in Slots, state[p] # "USED",
           \A s \in Slots : s # p => SameTable(s) /\ SameRegs(s),
           child'[p] \in {0, child[p]}
    PROVE  Frame(p, p)
  <1>1. \A s \in Slots : s # p => SameAt(s)
    BY DEF SameAt, SameRegs, SameTable
  <1>2. \A x \in Slots : child'[x] = child[x] \/ child'[x] = 0
    BY DEF SameRegs
  <1> QED
    BY <1>1, <1>2 DEF Frame

LEMMA Runs ==
    ASSUME MemInv, NEW p \in Slots, NEW l, MemAt(p, l)
    PROVE  /\ state[p] = "RUNNABLE" /\ mem_pc[p] = l /\ Typed /\ TypedTable /\ TypedRegs /\ ~wrong
           /\ Local(p) /\ SlotInv(p) /\ RegsInv(p) /\ ForkInv(p) /\ ExecInv(p) /\ KeptInv(p)
           /\ (Booting(p) \/ Layout(space[p], tf[p], Top(p)))
           /\ PGROUNDUP(sz[p]) <= TRAPFRAME
           /\ tf[p] \in Pages
  BY DEF MemInv, MemAt, Typed, Local, SlotInv

LEMMA ReturnStep ==
    ASSUME MemInv, NEW p \in Slots, Return(p) PROVE MemInv'
  <1>1. /\ state[p] = "RUNNABLE" /\ mem_pc[p] = "failed" /\ Typed /\ TypedTable /\ TypedRegs /\ ~wrong
        /\ SlotInv(p) /\ RegsInv(p)
    BY Runs DEF Return
  <1>2. /\ mem_pc' = [mem_pc EXCEPT ![p] = "user"]
        /\ before' = [before EXCEPT ![p] = NoImage]
        /\ free' = free /\ kstack' = kstack /\ wrong' = wrong
        /\ state' = state /\ tf' = tf /\ space' = space /\ sz' = sz
        /\ va' = va /\ new' = new /\ newsz' = newsz /\ prog' = prog /\ argv' = argv /\ child' = child
    BY DEF Return, MemGoto, table
  <1>3. Typed'
    BY <1>1, <1>2 DEF Typed, TypedTable, TypedRegs, PCs
  <1>4. Frame(p, p)
    BY <1>1, <1>2, FrameSelf DEF SameTable, SameRegs, TypedRegs
  <1>5. PagesMoved(p)
    BY <1>2, NothingMoved
  <1>6. mem_pc'[p] = "user"
    BY <1>1, <1>2 DEF TypedRegs
  <1>7. Local(p)'
    <2>1. SlotInv(p)'
      BY <1>1, <1>2, <1>6 DEF SlotInv, Booting, Top, Execing
    <2>2. RegsInv(p)'
      BY <1>1, <1>2, <1>6 DEF RegsInv, Forking, Execing
    <2>3. ForkInv(p)' /\ ExecInv(p)' /\ KeptInv(p)'
      BY <1>6 DEF ForkInv, ExecInv, KeptInv, Forking, Execing
    <2> QED
      BY <2>1, <2>2, <2>3 DEF Local
  <1> QED
    BY <1>1, <1>2, <1>3, <1>4, <1>5, <1>7, Assemble

LEMMA SizeFits ==
    ASSUME NEW size \in Nat, size <= TRAPFRAME * PGSIZE
    PROVE  PGROUNDUP(size) <= TRAPFRAME
  <1>1. TRAPFRAME * PGSIZE \in Nat /\ PGROUNDUP(TRAPFRAME * PGSIZE) = TRAPFRAME
    BY Places, RoundExact
  <1> QED
    BY <1>1, RoundMono

LEMMA LayoutMono ==
    ASSUME NEW t, NEW f, NEW m \in Nat, NEW n \in Nat, m <= n, Layout(t, f, m)
    PROVE  Layout(t, f, n)
  <1>1. \A a \in Users : a \in Int
    BY DEF Users
  <1> QED
    BY <1>1 DEF Layout, Confined

\* A slot whose process is not in a call.
LEMMA LocalUser ==
    ASSUME NEW q \in Slots, mem_pc'[q] = "user", SlotInv(q)', RegsInv(q)'
    PROVE  Local(q)'
  BY DEF Local, ForkInv, ExecInv, KeptInv, Forking, Execing

LEMMA ImageBelowIs ==
    ASSUME NEW t, NEW n \in Nat, NEW s, Confined(t, n)
    PROVE  ImageBelow(t, n, s) = [perms |-> Perms(t), sz |-> s]
  <1>1. \A a \in Users : a >= n => Perms(t)[a] = [v |-> FALSE, u |-> 0, w |-> 0]
    <2> SUFFICES ASSUME NEW a \in Users, a >= n
                 PROVE  Perms(t)[a] = [v |-> FALSE, u |-> 0, w |-> 0]
      OBVIOUS
    <2>1. t.map[a] = NoPte /\ a \in VAs
      BY Places DEF Confined
    <2>2. t.map[a].pa = 0 /\ t.map[a].u = 0 /\ t.map[a].w = 0
      BY <2>1 DEF NoPte
    <2>3. (t.map[a].pa # 0) = FALSE
      BY <2>2, Zenon
    <2>4. Perms(t)[a] = [v |-> t.map[a].pa # 0, u |-> t.map[a].u, w |-> t.map[a].w]
      BY <2>1 DEF Perms
    <2> QED
      BY <2>2, <2>3, <2>4, Zenon
  <1>2. [a \in VAs |-> IF a \in Users /\ a >= n THEN [v |-> FALSE, u |-> 0, w |-> 0] ELSE Perms(t)[a]]
        = Perms(t)
    <2>1. \A a \in VAs : (IF a \in Users /\ a >= n THEN [v |-> FALSE, u |-> 0, w |-> 0] ELSE Perms(t)[a])
                         = Perms(t)[a]
      BY <1>1
    <2>2. Perms(t) = [a \in VAs |-> Perms(t)[a]]
      BY DEF Perms
    <2> QED
      BY <2>1, <2>2
  <1> QED
    BY <1>2 DEF ImageBelow

LEMMA Live ==
    ASSUME MemInv, NEW p \in Slots, NEW l, MemAt(p, l), l \notin Execing
    PROVE  Layout(space[p], tf[p], Top(p))
  BY Runs DEF Booting, Execing

LEMMA SbrkLazyStep ==
    ASSUME MemInv, NEW p \in Slots, NEW n \in Sbrks, SbrkLazy(p, n) PROVE MemInv'
  <1>1. /\ state[p] = "RUNNABLE" /\ mem_pc[p] = "user" /\ Typed /\ TypedTable /\ TypedRegs /\ ~wrong
        /\ SlotInv(p) /\ RegsInv(p)
    BY Runs DEF SbrkLazy
  <1>2. /\ sz' = [sz EXCEPT ![p] = sz[p] + n] /\ mem_pc' = mem_pc
        /\ free' = free /\ kstack' = kstack /\ wrong' = wrong
        /\ state' = state /\ tf' = tf /\ space' = space /\ before' = before
        /\ va' = va /\ new' = new /\ newsz' = newsz /\ prog' = prog /\ argv' = argv /\ child' = child
    BY DEF SbrkLazy, regs
  <1>3. sz[p] \in Nat /\ sz[p] + n \in Nat /\ sz[p] <= sz[p] + n /\ sz'[p] = sz[p] + n
    BY <1>1, <1>2, MemoryAssumption DEF TypedTable, SbrkLazy
  <1>4. Typed'
    BY <1>1, <1>2, <1>3 DEF Typed, TypedTable, TypedRegs
  <1>5. Frame(p, p)
    BY <1>1, <1>2, FrameSelf DEF SameTable, SameRegs, TypedTable
  <1>6. PagesMoved(p)
    BY <1>2, NothingMoved
  <1>7. Layout(space[p], tf[p], PGROUNDUP(sz[p]))
    BY <1>1, Live DEF SbrkLazy, Top, Execing
  <1>8. PGROUNDUP(sz[p]) \in Nat /\ PGROUNDUP(sz[p] + n) \in Nat /\ PGROUNDUP(sz[p]) <= PGROUNDUP(sz[p] + n)
    BY <1>3, RoundUp, RoundMono
  <1>9. Layout(space[p], tf[p], PGROUNDUP(sz[p] + n))
    BY <1>7, <1>8, LayoutMono
  <1>10. PGROUNDUP(sz[p] + n) <= TRAPFRAME
    BY <1>3, SizeFits DEF SbrkLazy
  <1>11. SlotInv(p)'
    BY <1>1, <1>2, <1>3, <1>9, <1>10 DEF SlotInv, Top
  <1>12. RegsInv(p)'
    BY <1>1, <1>2 DEF RegsInv
  <1>13. Local(p)'
    BY <1>1, <1>2, <1>11, <1>12, LocalUser
  <1> QED
    BY <1>1, <1>2, <1>4, <1>5, <1>6, <1>13, Assemble

LEMMA Started ==
    ASSUME TypedRegs, NEW p \in Slots, NEW l \in PCs, Start(p, l)
    PROVE  /\ mem_pc' = [mem_pc EXCEPT ![p] = l] /\ mem_pc' \in [Slots -> PCs] /\ mem_pc'[p] = l
           /\ before' = [s \in Slots |-> before'[s]] /\ before'[p] = Image(p)
           /\ \A s \in Slots : s # p => mem_pc'[s] = mem_pc[s] /\ before'[s] = before[s]
  BY DEF TypedRegs, Start, MemGoto

LEMMA SbrkEagerStep ==
    ASSUME MemInv, NEW p \in Slots, NEW n \in Sbrks, SbrkEager(p, n) PROVE MemInv'
  <1>1. /\ state[p] = "RUNNABLE" /\ mem_pc[p] = "user" /\ Typed /\ TypedTable /\ TypedRegs /\ ~wrong
        /\ SlotInv(p) /\ RegsInv(p)
    BY Runs DEF SbrkEager, Start
  <1>2. /\ newsz' = [newsz EXCEPT ![p] = sz[p] + n] /\ va' = [va EXCEPT ![p] = PGROUNDUP(sz[p])]
        /\ free' = free /\ kstack' = kstack /\ wrong' = wrong
        /\ state' = state /\ tf' = tf /\ space' = space /\ sz' = sz
        /\ new' = new /\ prog' = prog /\ argv' = argv /\ child' = child
    BY DEF SbrkEager, table
  <1>3. /\ mem_pc' \in [Slots -> PCs] /\ mem_pc'[p] = "grow"
        /\ before' = [s \in Slots |-> before'[s]] /\ before'[p] = Image(p)
        /\ \A s \in Slots : s # p => mem_pc'[s] = mem_pc[s] /\ before'[s] = before[s]
    BY <1>1, Started DEF SbrkEager, PCs
  <1>4. sz[p] \in Nat /\ sz[p] + n \in Nat /\ sz[p] <= sz[p] + n /\ newsz'[p] = sz[p] + n
    BY <1>1, <1>2, MemoryAssumption DEF TypedTable, TypedRegs, SbrkEager
  <1>5. /\ PGROUNDUP(sz[p]) \in Nat /\ PGROUNDUP(sz[p] + n) \in Nat
        /\ PGROUNDUP(sz[p]) <= PGROUNDUP(sz[p] + n) /\ va'[p] = PGROUNDUP(sz[p])
    BY <1>1, <1>2, <1>4, RoundUp, RoundMono DEF TypedRegs
  <1>6. Typed'
    BY <1>1, <1>2, <1>3, <1>4, <1>5 DEF Typed, TypedTable, TypedRegs
  <1>7. Frame(p, p)
    BY <1>1, <1>2, <1>3, FrameSelf DEF SameTable, SameRegs, TypedRegs
  <1>8. PagesMoved(p)
    BY <1>2, NothingMoved
  <1>9. Layout(space[p], tf[p], PGROUNDUP(sz[p]))
    BY <1>1, Live DEF SbrkEager, Start, Top, Execing
  <1>10. PGROUNDUP(sz[p] + n) <= TRAPFRAME
    BY <1>4, SizeFits DEF SbrkEager
  <1>11. SlotInv(p)'
    BY <1>1, <1>2, <1>3, <1>5, <1>9 DEF SlotInv, Top
  <1>12. RegsInv(p)'
    BY <1>1, <1>2, <1>3, <1>4, <1>5, <1>10 DEF RegsInv, Forking, Execing
  <1>13. KeptInv(p)'
    <2>1. ImageBelow(space[p], PGROUNDUP(sz[p]), sz[p]) = [perms |-> Perms(space[p]), sz |-> sz[p]]
      BY <1>5, <1>9, ImageBelowIs DEF Layout
    <2>2. before'[p] = ImageBelow(space'[p], PGROUNDUP(sz'[p]), sz'[p])
      BY <2>1, <1>2, <1>3 DEF Image
    <2> QED
      BY <2>2, <1>3 DEF KeptInv, Execing, Forking
  <1>14. Local(p)'
    BY <1>3, <1>11, <1>12, <1>13 DEF Local, ForkInv, ExecInv, Forking
  <1> QED
    BY <1>1, <1>2, <1>6, <1>7, <1>8, <1>14, Assemble

LEMMA GrownStep ==
    ASSUME MemInv, NEW p \in Slots, Grown(p) PROVE MemInv'
  <1>1. /\ state[p] = "RUNNABLE" /\ mem_pc[p] = "grow" /\ Typed /\ TypedTable /\ TypedRegs /\ ~wrong
        /\ SlotInv(p) /\ RegsInv(p)
    BY Runs DEF Grown
  <1>2. /\ sz' = [sz EXCEPT ![p] = newsz[p]]
        /\ free' = free /\ kstack' = kstack /\ wrong' = wrong
        /\ state' = state /\ tf' = tf /\ space' = space
    BY DEF Grown
  <1>3. /\ Blank(p, "user") /\ TypedRegs' /\ RegsInv(p)'
        /\ \A s \in Slots : s # p => SameRegs(s)
    BY <1>1, Ended DEF Grown
  <1>4. new[p] = NoTable /\ argv[p] = {} /\ child[p] = 0
    BY <1>1 DEF RegsInv, Forking, Execing
  <1>5. newsz[p] \in Nat /\ va[p] \in Nat
    BY <1>1 DEF TypedRegs
  <1>6. sz'[p] = newsz[p] /\ Typed'
    BY <1>1, <1>2, <1>3, <1>5 DEF Typed, TypedTable
  <1>7. Frame(p, p)
    BY <1>1, <1>2, <1>3, FrameSelf DEF SameTable, TypedTable, Blank
  <1>8. new' = new /\ argv' = argv
    <2>1. \A s \in Slots : new'[s] = new[s] /\ argv'[s] = argv[s]
      BY <1>3, <1>4 DEF Blank, SameRegs
    <2> QED
      BY <2>1, <1>1, <1>3 DEF TypedRegs
  <1>9. PagesMoved(p)
    BY <1>2, <1>8, NothingMoved
  <1>10. Layout(space[p], tf[p], va[p])
    BY <1>1, Live DEF Grown, Top, Execing
  <1>11. PGROUNDUP(newsz[p]) \in Nat /\ va[p] <= PGROUNDUP(newsz[p]) /\ PGROUNDUP(newsz[p]) <= TRAPFRAME
    BY <1>1, <1>5, RoundUp DEF RegsInv
  <1>12. Layout(space[p], tf[p], PGROUNDUP(newsz[p]))
    BY <1>5, <1>10, <1>11, LayoutMono
  <1>13. SlotInv(p)'
    BY <1>1, <1>2, <1>3, <1>6, <1>11, <1>12 DEF SlotInv, Top, Blank
  <1>14. Local(p)'
    BY <1>3, <1>13, LocalUser DEF Blank
  <1> QED
    BY <1>1, <1>2, <1>6, <1>7, <1>9, <1>14, Assemble

LEMMA ExecStep ==
    ASSUME MemInv, NEW p \in Slots, Exec(p) PROVE MemInv'
  <1>1. /\ state[p] = "RUNNABLE" /\ mem_pc[p] = "user" /\ Typed /\ TypedTable /\ TypedRegs /\ ~wrong
        /\ SlotInv(p) /\ RegsInv(p)
    BY Runs DEF Exec, Start
  <1>2. /\ free' = free /\ kstack' = kstack /\ wrong' = wrong
        /\ state' = state /\ tf' = tf /\ space' = space /\ sz' = sz /\ va' = va /\ newsz' = newsz
        /\ new' = new /\ prog' = prog /\ argv' = argv /\ child' = child
    BY DEF Exec, table
  <1>3. /\ mem_pc' \in [Slots -> PCs] /\ mem_pc'[p] = "argv"
        /\ before' = [s \in Slots |-> before'[s]] /\ before'[p] = Image(p)
        /\ \A s \in Slots : s # p => mem_pc'[s] = mem_pc[s] /\ before'[s] = before[s]
    BY <1>1, Started DEF Exec, PCs
  <1>4. Typed'
    BY <1>1, <1>2, <1>3 DEF Typed, TypedTable, TypedRegs
  <1>5. Frame(p, p)
    BY <1>1, <1>2, <1>3, FrameSelf DEF SameTable, SameRegs
  <1>6. PagesMoved(p)
    BY <1>2, NothingMoved
  <1>7. Layout(space[p], tf[p], PGROUNDUP(sz[p]))
    BY <1>1, Live DEF Exec, Start, Top, Execing
  <1>8. SlotInv(p)'
    BY <1>1, <1>2, <1>3, <1>7 DEF SlotInv, Top
  <1>9. RegsInv(p)'
    BY <1>1, <1>2, <1>3 DEF RegsInv, Forking, Execing
  <1>10. KeptInv(p)'
    <2>1. before'[p] = Image(p)'
      BY <1>2, <1>3 DEF Image
    <2> QED
      BY <2>1, <1>3, FaultedSelf DEF KeptInv
  <1>11. Local(p)'
    BY <1>3, <1>8, <1>9, <1>10 DEF Local, ForkInv, ExecInv, Forking
  <1> QED
    BY <1>1, <1>2, <1>4, <1>5, <1>6, <1>11, Assemble

LEMMA ExitStep ==
    ASSUME MemInv, NEW p \in Slots, Exit(p) PROVE MemInv'
  <1>1. /\ state[p] = "RUNNABLE" /\ mem_pc[p] = "user" /\ Typed /\ TypedTable /\ TypedRegs /\ ~wrong
        /\ SlotInv(p) /\ RegsInv(p)
    BY Runs DEF Exit
  <1>2. /\ state' = [state EXCEPT ![p] = "ZOMBIE"]
        /\ free' = free /\ kstack' = kstack /\ wrong' = wrong
        /\ tf' = tf /\ space' = space /\ sz' = sz
    BY DEF Exit, Exits
  <1>3. /\ Blank(p, "user") /\ TypedRegs' /\ RegsInv(p)'
        /\ \A s \in Slots : s # p => SameRegs(s)
    BY <1>1, Ended DEF Exit, Exits
  <1>4. new[p] = NoTable /\ argv[p] = {} /\ child[p] = 0
    BY <1>1 DEF RegsInv, Forking, Execing
  <1>6. state'[p] = "ZOMBIE" /\ Typed'
    BY <1>1, <1>2, <1>3 DEF Typed, TypedTable, States
  <1>7. Frame(p, p)
    BY <1>1, <1>2, <1>3, FrameSelf DEF SameTable, TypedTable, Blank
  <1>8. new' = new /\ argv' = argv
    <2>1. \A s \in Slots : new'[s] = new[s] /\ argv'[s] = argv[s]
      BY <1>3, <1>4 DEF Blank, SameRegs
    <2> QED
      BY <2>1, <1>1, <1>3 DEF TypedRegs
  <1>9. PagesMoved(p)
    BY <1>2, <1>8, NothingMoved
  <1>10. Layout(space[p], tf[p], PGROUNDUP(sz[p]))
    BY <1>1, Live DEF Exit, Top, Execing
  <1>13. SlotInv(p)'
    BY <1>1, <1>2, <1>3, <1>6, <1>10 DEF SlotInv, Top, Blank
  <1>14. Local(p)'
    BY <1>3, <1>13, LocalUser DEF Blank
  <1> QED
    BY <1>1, <1>2, <1>6, <1>7, <1>9, <1>14, Assemble

\* The slot that a fork() is filling.
LEMMA ChildFacts ==
    ASSUME MemInv, NEW p \in Slots, NEW l \in Forking, MemAt(p, l), NEW q, q = child[p]
    PROVE  /\ q \in Slots /\ q # p /\ state[q] = "USED" /\ mem_pc[q] = "user"
           /\ ChildInv(p, q) /\ SlotInv(q) /\ RegsInv(q)
           /\ tf[q] \in Pages /\ new[q] = NoTable /\ argv[q] = {} /\ child[q] = 0
  <1>1. mem_pc[p] = l /\ ForkInv(p)
    BY Runs
  <1>2. q \in Slots /\ q # p /\ state[q] = "USED" /\ ChildInv(p, q)
    BY <1>1 DEF ForkInv, ChildInv
  <1>3. SlotInv(q) /\ RegsInv(q)
    BY <1>2 DEF MemInv, Local
  <1> QED
    BY <1>2, <1>3 DEF SlotInv, RegsInv, Forking, Execing

\* A step of a fork() may change its child.
LEMMA FrameChild ==
    ASSUME NEW p \in Slots, state[p] # "USED", NEW q \in Slots, q # p,
           mem_pc[p] \in Forking, q = child[p],
           \A s \in Slots : s # p /\ s # q => SameTable(s),
           \A s \in Slots : s # p => SameRegs(s),
           child'[p] \in {0, child[p]}
    PROVE  Frame(p, q)
  <1>1. \A s \in Slots : s # p /\ s # q => SameAt(s)
    BY DEF SameAt, SameRegs, SameTable
  <1>2. \A x \in Slots : child'[x] = child[x] \/ child'[x] = 0
    BY DEF SameRegs
  <1> QED
    BY <1>1, <1>2 DEF Frame

LEMMA ForkCopiedStep ==
    ASSUME MemInv, NEW p \in Slots, ForkCopied(p) PROVE MemInv'
  <1>1. /\ state[p] = "RUNNABLE" /\ mem_pc[p] = "fork_copy" /\ Typed /\ TypedTable /\ TypedRegs /\ ~wrong
        /\ SlotInv(p) /\ RegsInv(p) /\ KeptInv(p) /\ PGROUNDUP(sz[p]) <= TRAPFRAME
    BY Runs DEF ForkCopied
  <1>2. PICK q : q = child[p]
    OBVIOUS
  <1>3. /\ q \in Slots /\ q # p /\ state[q] = "USED" /\ mem_pc[q] = "user"
        /\ ChildInv(p, q) /\ SlotInv(q) /\ RegsInv(q)
    BY <1>1, <1>2, ChildFacts DEF ForkCopied, Forking
  <1>4. /\ sz' = [sz EXCEPT ![q] = sz[p]] /\ mem_pc' = [mem_pc EXCEPT ![p] = "fork_run"]
        /\ free' = free /\ kstack' = kstack /\ wrong' = wrong
        /\ state' = state /\ tf' = tf /\ space' = space /\ va' = va /\ newsz' = newsz
        /\ new' = new /\ prog' = prog /\ argv' = argv /\ child' = child /\ before' = before
    BY <1>2 DEF ForkCopied, regs, MemGoto
  <1>5. /\ sz'[q] = sz[p] /\ sz'[p] = sz[p] /\ sz[p] \in Nat
        /\ mem_pc'[p] = "fork_run" /\ mem_pc'[q] = "user"
        /\ \A s \in Slots : s # p => mem_pc'[s] = mem_pc[s]
        /\ \A s \in Slots : s # q => sz'[s] = sz[s]
    BY <1>1, <1>3, <1>4 DEF TypedTable, TypedRegs
  <1>6. Typed'
    BY <1>1, <1>4, <1>5 DEF Typed, TypedTable, TypedRegs, PCs
  <1>7. Frame(p, q)
    <2>1. /\ \A s \in Slots : s # p /\ s # q => SameTable(s)
          /\ \A s \in Slots : s # p => SameRegs(s)
      BY <1>4, <1>5 DEF SameTable, SameRegs
    <2>2. mem_pc[p] \in Forking /\ state[p] # "USED"
      BY <1>1 DEF Forking
    <2>3. child'[p] \in {0, child[p]}
      BY <1>4
    <2> QED
      BY <2>1, <2>2, <2>3, <1>2, <1>3, FrameChild
  <1>8. PagesMoved(p)
    BY <1>4, NothingMoved
  <1>9. Local(q)'
    <2>1. SlotInv(q)'
      BY <1>1, <1>3, <1>4, <1>5 DEF SlotInv
    <2>2. RegsInv(q)'
      BY <1>3, <1>4, <1>5 DEF RegsInv
    <2> QED
      BY <2>1, <2>2, <1>3, <1>5, LocalUser
  <1>10. PICK n : n = PGROUNDUP(sz[p])
    OBVIOUS
  <1>11. n \in Nat /\ va[p] \in Nat /\ va[p] <= n
    BY <1>1, <1>3, <1>5, <1>10, RoundUp DEF ChildInv, TypedRegs
  <1>12. Layout(space[q], tf[q], va[p]) /\ Copied(space[p], space[q], va[p])
    BY <1>1, <1>3 DEF ChildInv
  <1>13. Copied(space[p], space[q], n)
    <2> SUFFICES ASSUME NEW a \in Users, a < n
                 PROVE  SamePerms(space[p].map[a], space[q].map[a])
      BY DEF Copied
    <2>1. CASE a < va[p]
      BY <2>1, <1>12 DEF Copied
    <2>2. CASE ~(a < va[p])
      <3>1. a \in va[p]..n - 1
        BY <2>2, <1>11 DEF Users
      <3>2. space[p].map[a] = NoPte
        BY <3>1, <1>10 DEF ForkCopied
      <3>3. space[q].map[a] = NoPte
        BY <2>2, <1>11, <1>12 DEF Layout, Confined, Users
      <3> QED
        BY <3>2, <3>3 DEF SamePerms
    <2> QED
      BY <2>1, <2>2
  <1>14. Local(p)'
    <2>1. SlotInv(p)'
      BY <1>1, <1>4, <1>5 DEF SlotInv, Top, Booting, Execing
    <2>2. RegsInv(p)'
      BY <1>1, <1>4, <1>5 DEF RegsInv, Forking, Execing
    <2>3. Layout(space[q], tf[q], n)
      BY <1>11, <1>12, LayoutMono
    <2>4. ForkInv(p)'
      <3>1. ChildInv(p, q)'
        BY <2>3, <1>1, <1>3, <1>4, <1>5, <1>10, <1>13 DEF ChildInv
      <3> QED
        BY <3>1, <1>2, <1>4 DEF ForkInv
    <2>5. KeptInv(p)'
      BY <1>1, <1>4, <1>5 DEF KeptInv, Image, Forking
    <2> QED
      BY <2>1, <2>2, <2>4, <2>5, <1>5 DEF Local, ExecInv
  <1> QED
    BY <1>1, <1>3, <1>4, <1>6, <1>7, <1>8, <1>9, <1>14, Assemble

LEMMA ForkRunStep ==
    ASSUME MemInv, NEW p \in Slots, ForkRun(p) PROVE MemInv'
  <1>1. /\ state[p] = "RUNNABLE" /\ mem_pc[p] = "fork_run" /\ Typed /\ TypedTable /\ TypedRegs /\ ~wrong
        /\ SlotInv(p) /\ RegsInv(p)
    BY Runs DEF ForkRun
  <1>2. PICK q : q = child[p]
    OBVIOUS
  <1>3. /\ q \in Slots /\ q # p /\ state[q] = "USED" /\ mem_pc[q] = "user"
        /\ ChildInv(p, q) /\ SlotInv(q) /\ RegsInv(q)
    BY <1>1, <1>2, ChildFacts DEF ForkRun, Forking
  <1>4. /\ state' = [state EXCEPT ![q] = "RUNNABLE"]
        /\ free' = free /\ kstack' = kstack /\ wrong' = wrong
        /\ tf' = tf /\ space' = space /\ sz' = sz
    BY <1>2 DEF ForkRun
  <1>5. /\ Blank(p, "user") /\ TypedRegs' /\ RegsInv(p)'
        /\ \A s \in Slots : s # p => SameRegs(s)
    BY <1>1, Ended DEF ForkRun
  <1>6. /\ state'[q] = "RUNNABLE" /\ state'[p] = state[p] /\ Typed'
        /\ \A s \in Slots : s # q => state'[s] = state[s]
    BY <1>1, <1>3, <1>4, <1>5 DEF Typed, TypedTable, States
  <1>7. Frame(p, q)
    <2>1. /\ \A s \in Slots : s # p /\ s # q => SameTable(s)
      BY <1>4, <1>6 DEF SameTable
    <2>2. mem_pc[p] \in Forking /\ state[p] # "USED"
      BY <1>1 DEF Forking
    <2>3. child'[p] \in {0, child[p]}
      BY <1>5 DEF Blank
    <2> QED
      BY <2>1, <2>2, <2>3, <1>2, <1>3, <1>5, FrameChild
  <1>8. new' = new /\ argv' = argv
    <2>1. new[p] = NoTable /\ argv[p] = {}
      BY <1>1 DEF RegsInv, Execing
    <2>2. \A s \in Slots : new'[s] = new[s] /\ argv'[s] = argv[s]
      BY <1>5, <2>1 DEF Blank, SameRegs
    <2> QED
      BY <2>2, <1>1, <1>5 DEF TypedRegs
  <1>9. PagesMoved(p)
    BY <1>4, <1>8, NothingMoved
  <1>10. SameRegs(q) /\ mem_pc'[q] = "user"
    BY <1>3, <1>5 DEF SameRegs
  <1>11. Local(q)'
    <2>1. Layout(space[q], tf[q], PGROUNDUP(sz[q]))
      BY <1>1, <1>3 DEF ChildInv
    <2>2. SlotInv(q)'
      BY <2>1, <1>3, <1>4, <1>6, <1>10 DEF SlotInv, Top
    <2>3. RegsInv(q)'
      BY <1>3, <1>4, <1>10 DEF RegsInv, SameRegs
    <2> QED
      BY <2>2, <2>3, <1>3, <1>10, LocalUser
  <1>12. Local(p)'
    <2>1. mem_pc'[p] = "user"
      BY <1>5 DEF Blank
    <2>2. SlotInv(p)'
      BY <2>1, <1>1, <1>4, <1>6 DEF SlotInv, Top, Booting, Execing
    <2> QED
      BY <2>1, <2>2, <1>5, LocalUser
  <1> QED
    BY <1>1, <1>3, <1>4, <1>6, <1>7, <1>9, <1>11, <1>12, Assemble

LEMMA ForkTrapframeStep ==
    ASSUME MemInv, NEW p \in Slots, ForkTrapframe(p) PROVE MemInv'
  <1>1. /\ state[p] = "RUNNABLE" /\ mem_pc[p] = "user" /\ Typed /\ TypedTable /\ TypedRegs /\ ~wrong
        /\ SlotInv(p) /\ RegsInv(p)
    BY Runs DEF ForkTrapframe, Start
  <1>2. PICK q : q = Min({s \in Slots : state[s] = "UNUSED"})
    OBVIOUS
  <1>3. PICK x : x = kalloc(free)
    OBVIOUS
  <1>4. q \in Slots /\ state[q] = "UNUSED" /\ q # p
    <2>1. PICK S : S = {s \in Slots : state[s] = "UNUSED"}
      OBVIOUS
    <2>2. S \in SUBSET Nat /\ S # {}
      BY <2>1 DEF Slots, ForkTrapframe
    <2>3. q \in S
      BY <2>1, <2>2, <1>2, NatLeast
    <2> QED
      BY <2>1, <2>3, <1>1
  <1>5. x \in free /\ x \in Pages /\ x # 0
    BY <1>1, <1>3, KallocIn, Places DEF ForkTrapframe, Typed
  <1>6. /\ free' = free \ {x} /\ tf' = [tf EXCEPT ![q] = x] /\ state' = [state EXCEPT ![q] = "USED"]
        /\ child' = [child EXCEPT ![p] = q]
        /\ kstack' = kstack /\ wrong' = wrong /\ space' = space /\ sz' = sz
        /\ va' = va /\ new' = new /\ newsz' = newsz /\ prog' = prog /\ argv' = argv
    BY <1>2, <1>3 DEF ForkTrapframe
  <1>7. /\ mem_pc' \in [Slots -> PCs] /\ mem_pc'[p] = "fork_table"
        /\ before' = [s \in Slots |-> before'[s]] /\ before'[p] = Image(p)
        /\ \A s \in Slots : s # p => mem_pc'[s] = mem_pc[s] /\ before'[s] = before[s]
    BY <1>1, Started DEF ForkTrapframe, PCs
  <1>8. /\ tf'[q] = x /\ state'[q] = "USED" /\ child'[p] = q
        /\ \A s \in Slots : s # q => tf'[s] = tf[s] /\ state'[s] = state[s]
        /\ \A s \in Slots : s # p => child'[s] = child[s]
    BY <1>1, <1>4, <1>6 DEF TypedTable, TypedRegs
  <1>9. Typed'
    <2>1. TypedTable'
      BY <1>1, <1>5, <1>6 DEF TypedTable, States
    <2>2. TypedRegs'
      BY <1>1, <1>4, <1>6, <1>7 DEF TypedRegs, Slots
    <2> QED
      BY <2>1, <2>2, <1>1, <1>6 DEF Typed
  <1>10. Frame(p, q)
    <2>1. \A s \in Slots : s # p /\ s # q => SameAt(s)
      BY <1>6, <1>7, <1>8 DEF SameAt, SameTable
    <2>2. \A s \in Slots : child'[s] = child[s] \/ child'[s] = 0 \/ state[child'[s]] # "USED"
      BY <1>4, <1>8
    <2> QED
      BY <2>1, <2>2, <1>1, <1>4 DEF Frame
  <1>11. /\ SlotInv(q) /\ RegsInv(q) /\ tf[q] = 0 /\ mem_pc[q] = "user" /\ space[q] = NoTable /\ sz[q] = 0
    BY <1>4 DEF MemInv, Local, SlotInv
  <1>12. PagesMoved(q)
    <2>1. /\ GoodTable(space[q]) /\ GoodTable(new[q]) /\ Apart(q) /\ Holding(q) \intersect free = {}
      BY <1>4, SlotFacts
    <2>2. {tf[q]} \ {0} = {} /\ {tf'[q]} \ {0} = {x}
      BY <1>5, <1>8, <1>11
    <2>3. Holding(q) = Own(space[q]) \union Own(new[q]) \union argv[q]
      BY <2>2 DEF Holding
    <2>4. Holding(q)' = {x} \union Own(space[q]) \union Own(new[q]) \union argv[q]
      BY <2>2, <1>6 DEF Holding
    <2>5. Apart(q)'
      BY <2>1, <2>2, <2>3, <1>5, <1>6 DEF Apart
    <2>6. /\ free' \union Holding(q)' = free \union Holding(q)
          /\ free' \intersect Holding(q)' = {}
      BY <2>1, <2>3, <2>4, <1>5, <1>6
    <2> QED
      BY <2>1, <2>5, <2>6, <1>6, <1>8 DEF PagesMoved
  <1>13. Local(q)'
    <2>1. SlotInv(q)'
      BY <1>4, <1>5, <1>6, <1>7, <1>8, <1>11 DEF SlotInv
    <2>2. RegsInv(q)'
      BY <1>4, <1>6, <1>7, <1>8, <1>11 DEF RegsInv
    <2> QED
      BY <2>1, <2>2, <1>4, <1>7, <1>11, LocalUser
  <1>14. Local(p)'
    <2>1. Layout(space[p], tf[p], PGROUNDUP(sz[p]))
      BY <1>1, Live DEF ForkTrapframe, Start, Top, Execing
    <2>2. SlotInv(p)'
      BY <2>1, <1>1, <1>4, <1>6, <1>7, <1>8 DEF SlotInv, Top
    <2>3. RegsInv(p)'
      BY <1>1, <1>4, <1>6, <1>7, <1>8 DEF RegsInv, Forking, Execing
    <2>4. \A s \in Slots : s # p => child'[s] # q
      <3> SUFFICES ASSUME NEW s \in Slots, s # p, child[s] = q PROVE FALSE
        BY <1>8
      <3>1. RegsInv(s) /\ ForkInv(s)
        BY DEF MemInv, Local
      <3>2. mem_pc[s] \in Forking
        BY <3>1, <1>4, ZeroIs DEF RegsInv, Zero
      <3> QED
        BY <3>1, <3>2, <1>4 DEF ForkInv, ChildInv
    <2>5. ForkInv(p)'
      <3>1. ChildInv(p, q)'
        BY <2>4, <1>4, <1>6, <1>7, <1>8, <1>11 DEF ChildInv
      <3> QED
        BY <3>1, <1>8 DEF ForkInv
    <2>6. KeptInv(p)'
      <3>1. before'[p] = Image(p)'
        BY <1>6, <1>7 DEF Image
      <3> QED
        BY <3>1, <1>6, <1>7, FaultedSelf DEF KeptInv
    <2> QED
      BY <2>2, <2>3, <2>5, <2>6, <1>7 DEF Local, ExecInv
  <1> QED
    BY <1>1, <1>4, <1>6, <1>9, <1>10, <1>12, <1>13, <1>14, Assemble

LEMMA Committed ==
    ASSUME ~wrong, NEW r, ~r.bad, Commit(r)
    PROVE  free' = r.fr /\ ~wrong' /\ wrong' \in BOOLEAN
  BY DEF Commit

\* One of two parts is exchanged with a third.
LEMMA Exchange ==
    ASSUME NEW R, NEW S, NEW T, NEW F, NEW G,
           T \union G = S \union F, T \intersect G = {},
           R \intersect S = {}, R \intersect F = {}
    PROVE  /\ G \union (R \union T) = F \union (R \union S)
           /\ G \intersect (R \union T) = {}
           /\ R \intersect T = {}
  <1>1. \A y : y \in T \/ y \in G <=> y \in S \/ y \in F
    OBVIOUS
  <1> QED
    BY <1>1

\* The pages of a computation on the page table of x become the kernel's.
LEMMA SpaceMoved ==
    ASSUME MemInv, NEW x \in Slots, NEW k, Conserves(Make(space[x], free), k),
           free' = k.fr, space' = [space EXCEPT ![x] = k.t], tf' = tf,
           \A s \in Slots : new'[s] = new[s] /\ argv'[s] = argv[s]
    PROVE  PagesMoved(x)
  <1>1. /\ GoodTable(space[x]) /\ GoodTable(new[x]) /\ Apart(x) /\ Holding(x) \intersect free = {}
        /\ TypedTable
    BY SlotFacts DEF Typed
  <1>2. /\ GoodTable(k.t) /\ Own(k.t) \union k.fr = Own(space[x]) \union free
        /\ Own(k.t) \intersect k.fr = {}
    BY DEF Conserves, Good, Make
  <1>3. /\ space'[x] = k.t /\ new'[x] = new[x] /\ argv'[x] = argv[x] /\ tf'[x] = tf[x]
        /\ \A s \in Slots : s # x => space'[s] = space[s]
    BY <1>1 DEF TypedTable
  <1>4. PICK A : A = {tf[x]} \ {0}
    OBVIOUS
  <1>5. PICK R : R = A \union Own(new[x]) \union argv[x]
    OBVIOUS
  <1>6. Holding(x) = R \union Own(space[x]) /\ Holding(x)' = R \union Own(k.t)
    BY <1>3, <1>4, <1>5 DEF Holding
  <1>7. /\ A \intersect Own(space[x]) = {} /\ A \intersect Own(new[x]) = {} /\ A \intersect argv[x] = {}
        /\ Own(space[x]) \intersect Own(new[x]) = {} /\ Own(space[x]) \intersect argv[x] = {}
        /\ Own(new[x]) \intersect argv[x] = {}
    BY <1>1, <1>4 DEF Apart
  <1>71. R \intersect Own(space[x]) = {} /\ R \intersect free = {}
    BY <1>1, <1>5, <1>6, <1>7
  <1>72. /\ free' \union Holding(x)' = free \union Holding(x)
         /\ free' \intersect Holding(x)' = {}
         /\ R \intersect Own(k.t) = {}
    BY <1>2, <1>6, <1>71, Exchange
  <1>8. /\ A \intersect Own(k.t) = {} /\ Own(k.t) \intersect Own(new[x]) = {}
        /\ Own(k.t) \intersect argv[x] = {}
    BY <1>5, <1>72
  <1>9. Apart(x)'
    BY <1>3, <1>4, <1>7, <1>8 DEF Apart
  <1> QED
    BY <1>1, <1>2, <1>3, <1>72, <1>9 DEF PagesMoved

\* The table without the user pages from n on.
Cut(t, s, n) == \A b \in VAs : s.map[b] = IF b \in Users /\ b >= n THEN NoPte ELSE t.map[b]

LEMMA CutLayout ==
    ASSUME NEW t, NEW s, NEW n, Cut(t, s, n), NEW f, NEW m, Layout(t, f, m)
    PROVE  Layout(s, f, n)
  <1>1. /\ TRAMPOLINE \in VAs /\ TRAPFRAME \in VAs /\ TRAMPOLINE \notin Users /\ TRAPFRAME \notin Users
        /\ Users \subseteq VAs
    BY Places
  <1> QED
    BY <1>1 DEF Cut, Layout, Confined

LEMMA DeallocShrinks ==
    ASSUME NEW r, Good(r), NEW oldsz \in Nat, NEW size \in Nat, size <= oldsz,
           PGROUNDUP(oldsz) <= TRAPFRAME, Confined(r.t, PGROUNDUP(oldsz)),
           NEW k, k = uvmdealloc(r, oldsz, size)
    PROVE  Conserves(r, k) /\ (k.ok <=> r.ok) /\ Cut(r.t, k.t, PGROUNDUP(size))
  <1>1. PICK a, m : a = PGROUNDUP(size) /\ m = PGROUNDUP(oldsz)
    OBVIOUS
  <1>2. a \in Nat /\ m \in Nat /\ a <= m
    BY <1>1, RoundUp, RoundMono
  <1>3. CASE size >= oldsz
    <2>1. k = r /\ size = oldsz
      BY <1>3 DEF uvmdealloc
    <2>2. Cut(r.t, r.t, a)
      BY <2>1, <1>1 DEF Cut, Confined
    <2> QED
      BY <2>1, <2>2, <1>1 DEF Conserves
  <1>4. CASE ~(size >= oldsz)
    <2>1. k = UnmapSpan(r, a, m - a)
      BY <1>1, <1>4 DEF uvmdealloc, UnmapSpan
    <2>2. m - a \in Int /\ a + (m - a) <= TRAPFRAME
      BY <1>1, <1>2, Places
    <2>3. Conserves(r, k) /\ (k.ok <=> r.ok) /\ Cleared(r, k, Span(a, m - a))
      BY <2>1, <2>2, <1>2, UnmapFrees
    <2>4. Cut(r.t, k.t, a)
      <3> SUFFICES ASSUME NEW b \in VAs
                   PROVE  k.t.map[b] = IF b \in Users /\ b >= a THEN NoPte ELSE r.t.map[b]
        BY DEF Cut
      <3>1. k.t.map[b] = IF b \in Span(a, m - a) THEN NoPte ELSE r.t.map[b]
        BY <2>3 DEF Cleared
      <3>2. b \in Span(a, m - a) <=> a <= b /\ b < m
        BY <1>2 DEF Span, VAs
      <3>3. a <= b /\ b < m => b \in Users
        BY <1>1, <1>2, Places DEF VAs, Users
      <3>4. b \in Users /\ b >= m => r.t.map[b] = NoPte
        BY <1>1 DEF Confined
      <3>5. b \in Int
        BY DEF VAs
      <3> QED
        BY <3>1, <3>2, <3>3, <3>4, <3>5, <1>2
    <2> QED
      BY <2>3, <2>4, <1>1
  <1> QED
    BY <1>3, <1>4

LEMMA SbrkShrinkStep ==
    ASSUME MemInv, NEW p \in Slots, NEW n \in Sbrks, SbrkShrink(p, n) PROVE MemInv'
  <1>1. /\ state[p] = "RUNNABLE" /\ mem_pc[p] = "user" /\ Typed /\ TypedTable /\ TypedRegs /\ ~wrong
        /\ SlotInv(p) /\ RegsInv(p) /\ PGROUNDUP(sz[p]) <= TRAPFRAME
    BY Runs DEF SbrkShrink
  <1>2. PICK size : size = IF sz[p] + n < 0 THEN sz[p] ELSE sz[p] + n
    OBVIOUS
  <1>3. PICK k : k = uvmdealloc(Make(space[p], free), sz[p], size)
    OBVIOUS
  <1>4. /\ Commit(k) /\ space' = [space EXCEPT ![p] = k.t] /\ sz' = [sz EXCEPT ![p] = size]
        /\ kstack' = kstack /\ state' = state /\ tf' = tf /\ mem_pc' = mem_pc /\ before' = before
        /\ va' = va /\ new' = new /\ newsz' = newsz /\ prog' = prog /\ argv' = argv /\ child' = child
    BY <1>2, <1>3 DEF SbrkShrink, regs
  <1>5. size \in Nat /\ sz[p] \in Nat /\ size <= sz[p]
    BY <1>1, <1>2, MemoryAssumption DEF TypedTable, SbrkShrink
  <1>6. Layout(space[p], tf[p], PGROUNDUP(sz[p]))
    BY <1>1, Live DEF SbrkShrink, Top, Execing
  <1>7. Good(Make(space[p], free)) /\ Make(space[p], free).t = space[p] /\ ~Make(space[p], free).bad
    BY SlotFacts DEF Make
  <1>8. Conserves(Make(space[p], free), k) /\ Cut(space[p], k.t, PGROUNDUP(size))
    BY <1>1, <1>3, <1>5, <1>6, <1>7, DeallocShrinks DEF Layout
  <1>9. Layout(k.t, tf[p], PGROUNDUP(size))
    BY <1>6, <1>8, CutLayout
  <1>10. ~k.bad /\ k.t \in Tables /\ k.fr \in SUBSET Pages
    BY <1>7, <1>8 DEF Conserves, Good, Results
  <1>11. free' = k.fr /\ ~wrong' /\ wrong' \in BOOLEAN
    BY <1>1, <1>4, <1>10, Committed
  <1>12. Typed'
    BY <1>1, <1>4, <1>5, <1>10, <1>11 DEF Typed, TypedTable, TypedRegs
  <1>13. Frame(p, p)
    BY <1>1, <1>4, FrameSelf DEF SameTable, SameRegs, TypedTable
  <1>14. PagesMoved(p)
    BY <1>4, <1>8, <1>11, SpaceMoved
  <1>15. /\ space'[p] = k.t /\ sz'[p] = size
    BY <1>1, <1>4 DEF TypedTable
  <1>16. PGROUNDUP(size) <= TRAPFRAME
    BY <1>1, <1>5, RoundUp, RoundMono, Places
  <1>17. SlotInv(p)'
    BY <1>1, <1>4, <1>9, <1>15, <1>16 DEF SlotInv, Top
  <1>18. RegsInv(p)'
    BY <1>1, <1>4 DEF RegsInv
  <1>19. Local(p)'
    BY <1>1, <1>4, <1>17, <1>18, LocalUser
  <1> QED
    BY <1>11, <1>12, <1>13, <1>14, <1>19, Assemble

\* The page tables are the same, but for the address a.
SameBut(t, s, a) == \A b \in VAs : b # a => s.map[b] = t.map[b]

\* The page table with one more user page.
LEMMA LayoutWith ==
    ASSUME NEW t, NEW s, NEW a \in Users, SameBut(t, s, a), NEW f, NEW n \in Nat, Layout(t, f, n),
           NEW m \in Nat, a < m, n <= m
    PROVE  Layout(s, f, m)
  <1>1. /\ TRAMPOLINE \in VAs /\ TRAPFRAME \in VAs /\ TRAMPOLINE \notin Users /\ TRAPFRAME \notin Users
        /\ Users \subseteq VAs
    BY Places
  <1>2. \A b \in Users : b \in Int
    BY DEF Users
  <1> QED
    BY <1>1, <1>2 DEF Layout, Confined, SameBut

LEMMA SameLayout ==
    ASSUME NEW t, NEW s, s.map = t.map, NEW f, NEW n, Layout(t, f, n) PROVE Layout(s, f, n)
  BY DEF Layout, Confined

\* What an address is mapped to with these permissions.
Given(pte, u, w) == pte.pa # 0 /\ pte.u = u /\ pte.w = w

LEMMA UserPage ==
    ASSUME NEW r, Good(r), r.ok, NEW a \in Users, r.t.map[a] = NoPte,
           NEW u \in {0, 1}, NEW w \in {0, 1}, NEW k, k = MapUser(r, a, u, w)
    PROVE  /\ Conserves(r, k)
           /\ k.ok => SameBut(r.t, k.t, a) /\ Given(k.t.map[a], u, w)
           /\ ~k.ok => k.t.map = r.t.map
  <1>1. /\ Conserves(r, k)
        /\ k.ok => \E x \in r.fr :
              /\ x \in Pages /\ x # 0
              /\ k.t.map = MapSet(r.t.map, a, x, u, w)
        /\ ~k.ok => k.t.map = r.t.map
    BY MapUserMaps
  <1>2. r.t.map \in [VAs -> Ptes] /\ a \in VAs
    BY Places DEF Good, GoodTable, Tables
  <1>3. ASSUME k.ok PROVE SameBut(r.t, k.t, a) /\ Given(k.t.map[a], u, w)
    <2>1. PICK x \in r.fr : x # 0 /\ k.t.map = MapSet(r.t.map, a, x, u, w)
      BY <1>1, <1>3
    <2>2. SameBut(r.t, k.t, a)
      BY <2>1, <1>2 DEF SameBut, MapSet
    <2>3. k.t.map[a] = [pa |-> x, u |-> u, w |-> w]
      BY <2>1, <1>2 DEF MapSet
    <2> QED
      BY <2>1, <2>2, <2>3 DEF Given
  <1> QED
    BY <1>1, <1>3

\* The page table of a process of this size with at most one promised page more.
Fault(t, s, size) ==
    \/ s.map = t.map
    \/ \E a \in Users :
          /\ a * PGSIZE < size /\ t.map[a] = NoPte
          /\ SameBut(t, s, a) /\ Given(s.map[a], 1, 1)

LEMMA FaultedStep ==
    ASSUME NEW i, NEW t, NEW s, NEW size, Faulted(i, [perms |-> Perms(t), sz |-> size]),
           Fault(t, s, size)
    PROVE  Faulted(i, [perms |-> Perms(s), sz |-> size])
  <1>1. CASE s.map = t.map
    <2>1. Perms(s) = Perms(t)
      BY <1>1 DEF Perms
    <2> QED
      BY <2>1
  <1>2. CASE \E a \in Users :
               /\ a * PGSIZE < size /\ t.map[a] = NoPte
               /\ SameBut(t, s, a) /\ Given(s.map[a], 1, 1)
    <2>1. PICK a \in Users : /\ a * PGSIZE < size /\ t.map[a] = NoPte
                             /\ SameBut(t, s, a) /\ Given(s.map[a], 1, 1)
      BY <1>2
    <2>2. /\ size = i.sz
          /\ \A b \in VAs :
                \/ Perms(t)[b] = i.perms[b]
                \/ /\ ~i.perms[b].v /\ b * PGSIZE < i.sz
                   /\ Perms(t)[b] = [v |-> TRUE, u |-> 1, w |-> 1]
      BY DEF Faulted
    <2>3. \A b \in VAs : b # a => Perms(s)[b] = Perms(t)[b]
      BY <2>1 DEF SameBut, Perms
    <2>4. a \in VAs
      BY Places
    <2>5. t.map[a].pa = 0 /\ s.map[a].pa # 0 /\ s.map[a].u = 1 /\ s.map[a].w = 1
      BY <2>1 DEF NoPte, Given
    <2>6. ~Perms(t)[a].v
      BY <2>4, <2>5 DEF Perms
    <2>7. Perms(s)[a] = [v |-> TRUE, u |-> 1, w |-> 1]
      <3>1. (s.map[a].pa # 0) = TRUE
        BY <2>5, Zenon
      <3>2. Perms(s)[a] = [v |-> s.map[a].pa # 0, u |-> s.map[a].u, w |-> s.map[a].w]
        BY <2>4 DEF Perms
      <3> QED
        BY <3>1, <3>2, <2>5, Zenon
    <2>8. ~i.perms[a].v
      BY <2>2, <2>4, <2>6
    <2> QED
      BY <2>1, <2>2, <2>3, <2>7, <2>8 DEF Faulted
  <1> QED
    BY <1>1, <1>2 DEF Fault

LEMMA FaultMaps ==
    ASSUME MemInv, NEW p \in Slots, NEW addr \in Nat, Layout(space[p], tf[p], PGROUNDUP(sz[p])),
           PGROUNDUP(sz[p]) <= TRAPFRAME, sz[p] \in Nat, NEW k, k = vmfault(p, addr)
    PROVE  /\ Conserves(Make(space[p], free), k) /\ Layout(k.t, tf[p], PGROUNDUP(sz[p]))
           /\ Fault(space[p], k.t, sz[p])
  <1>1. PICK r : r = Make(space[p], free)
    OBVIOUS
  <1>2. PICK a, n : a = addr \div PGSIZE /\ n = PGROUNDUP(sz[p])
    OBVIOUS
  <1>3. Good(r) /\ r.t = space[p] /\ r.ok /\ r \in Results
    BY <1>1, SlotFacts DEF Make, Good
  <1>4. CASE addr >= sz[p] \/ space[p].map[a] # NoPte
    <2>1. k = Fail(r)
      BY <1>1, <1>2, <1>4 DEF vmfault
    <2>2. k \in Results /\ k.t = r.t /\ k.fr = r.fr /\ (k.bad <=> r.bad)
      BY <2>1, <1>3 DEF Fail, Results
    <2> QED
      BY <2>2, <1>1, <1>3 DEF Conserves, Good, Fault
  <1>5. CASE ~(addr >= sz[p] \/ space[p].map[a] # NoPte)
    <2>1. PICK u, w : u = 1 /\ w = 1
      OBVIOUS
    <2>2. u \in {0, 1} /\ w \in {0, 1} /\ k = MapUser(r, a, u, w)
      BY <2>1, <1>1, <1>2, <1>5 DEF vmfault
    <2>3. a \in Nat /\ a < n /\ n \in Nat /\ n <= n /\ a * PGSIZE < sz[p]
      BY <1>2, <1>5, PageBelow, RoundUp
    <2>4. a \in Users /\ r.t.map[a] = NoPte
      BY <2>3, <1>2, <1>3, <1>5, Places DEF Users
    <2>5. /\ Conserves(r, k)
          /\ k.ok => SameBut(r.t, k.t, a) /\ Given(k.t.map[a], u, w)
          /\ ~k.ok => k.t.map = r.t.map
      BY <2>2, <2>4, <1>3, UserPage
    <2>6. Layout(r.t, tf[p], n)
      BY <1>2, <1>3
    <2>7. Layout(k.t, tf[p], n)
      <3>1. CASE k.ok
        BY <3>1, <2>3, <2>4, <2>5, <2>6, LayoutWith
      <3>2. CASE ~k.ok
        BY <3>2, <2>5, <2>6, SameLayout
      <3> QED
        BY <3>1, <3>2
    <2>8. Fault(space[p], k.t, sz[p])
      BY <2>1, <2>3, <2>4, <2>5, <1>3 DEF Fault
    <2> QED
      BY <2>5, <2>7, <2>8, <1>1, <1>2
  <1> QED
    BY <1>4, <1>5

LEMMA TouchStep ==
    ASSUME MemInv, NEW p \in Slots, NEW addr \in Touched, NEW store, NEW trap, Touch(p, addr, store, trap)
    PROVE  MemInv'
  <1>1. /\ state[p] = "RUNNABLE" /\ mem_pc[p] = "user" /\ Typed /\ TypedTable /\ TypedRegs /\ ~wrong
        /\ SlotInv(p) /\ RegsInv(p) /\ PGROUNDUP(sz[p]) <= TRAPFRAME
    BY Runs DEF Touch
  <1>20. PICK va0 : va0 = IF trap THEN addr ELSE PGROUNDDOWN(addr)
    OBVIOUS
  <1>2. PICK k : k = vmfault(p, va0)
    OBVIOUS
  <1>3. /\ Commit(k) /\ space' = [space EXCEPT ![p] = k.t]
        /\ kstack' = kstack /\ tf' = tf /\ sz' = sz
        /\ IF k.ok \/ ~trap THEN UNCHANGED <<state, mem_pc, regs>> ELSE Exits(p)
    BY <1>2, <1>20 DEF Touch
  <1>4. Layout(space[p], tf[p], PGROUNDUP(sz[p]))
    BY <1>1, Live DEF Touch, Top, Execing
  <1>5. sz[p] \in Nat /\ va0 \in Nat
    BY <1>1, <1>20, RoundDown, MemoryAssumption DEF TypedTable
  <1>6. Conserves(Make(space[p], free), k) /\ Layout(k.t, tf[p], PGROUNDUP(sz[p]))
    BY <1>1, <1>2, <1>4, <1>5, FaultMaps
  <1>7. ~Make(space[p], free).bad
    BY DEF Make
  <1>8. ~k.bad /\ k.t \in Tables /\ k.fr \in SUBSET Pages
    BY <1>6, <1>7 DEF Conserves, Good, Results
  <1>9. free' = k.fr /\ ~wrong' /\ wrong' \in BOOLEAN
    BY <1>1, <1>3, <1>8, Committed
  <1>10. /\ space' \in [Slots -> Tables] /\ space'[p] = k.t
         /\ \A s \in Slots : s # p => space'[s] = space[s]
    BY <1>1, <1>3, <1>8 DEF TypedTable
  <1>11. CASE k.ok \/ ~trap
    <2>1. /\ state' = state /\ mem_pc' = mem_pc /\ before' = before
          /\ va' = va /\ new' = new /\ newsz' = newsz /\ prog' = prog /\ argv' = argv /\ child' = child
      BY <1>3, <1>11 DEF regs
    <2>2. Typed'
      BY <2>1, <1>1, <1>3, <1>8, <1>9, <1>10 DEF Typed, TypedTable, TypedRegs
    <2>3. Frame(p, p)
      BY <2>1, <1>1, <1>3, <1>10, FrameSelf DEF SameTable, SameRegs
    <2>4. PagesMoved(p)
      BY <2>1, <1>3, <1>6, <1>9, SpaceMoved
    <2>5. SlotInv(p)'
      BY <2>1, <1>1, <1>3, <1>6, <1>10 DEF SlotInv, Top
    <2>6. RegsInv(p)'
      BY <2>1, <1>1, <1>3 DEF RegsInv
    <2>7. Local(p)'
      BY <2>1, <2>5, <2>6, <1>1, LocalUser
    <2> QED
      BY <2>2, <2>3, <2>4, <2>7, <1>9, Assemble
  <1>12. CASE ~(k.ok \/ ~trap)
    <2>1. state' = [state EXCEPT ![p] = "ZOMBIE"] /\ End(p, "user")
      BY <1>3, <1>12 DEF Exits
    <2>2. /\ Blank(p, "user") /\ TypedRegs' /\ RegsInv(p)'
          /\ \A s \in Slots : s # p => SameRegs(s)
      BY <2>1, <1>1, Ended
    <2>3. /\ state'[p] = "ZOMBIE" /\ state' \in [Slots -> States]
          /\ \A s \in Slots : s # p => state'[s] = state[s]
      BY <2>1, <1>1 DEF TypedTable, States
    <2>4. Typed'
      BY <2>2, <2>3, <1>1, <1>3, <1>8, <1>9, <1>10 DEF Typed, TypedTable
    <2>5. Frame(p, p)
      BY <2>2, <2>3, <1>1, <1>3, <1>10, FrameSelf DEF SameTable, Blank
    <2>6. \A s \in Slots : new'[s] = new[s] /\ argv'[s] = argv[s]
      BY <2>2, <1>1 DEF Blank, SameRegs, RegsInv, Execing
    <2>7. PagesMoved(p)
      BY <2>6, <1>3, <1>6, <1>9, SpaceMoved
    <2>8. SlotInv(p)'
      BY <2>2, <2>3, <1>1, <1>3, <1>6, <1>10 DEF SlotInv, Top, Blank
    <2>9. Local(p)'
      BY <2>2, <2>8, LocalUser DEF Blank
    <2> QED
      BY <2>4, <2>5, <2>7, <2>9, <1>9, Assemble
  <1> QED
    BY <1>11, <1>12

LEMMA ImageBelowSame ==
    ASSUME NEW t, NEW s, NEW n, NEW size,
           \A a \in VAs : (a \in Users /\ a >= n) \/ s.map[a] = t.map[a]
    PROVE  ImageBelow(s, n, size) = ImageBelow(t, n, size)
  <1>1. \A a \in VAs : ~(a \in Users /\ a >= n) => Perms(s)[a] = Perms(t)[a]
    BY DEF Perms
  <1>2. \A a \in VAs :
          (IF a \in Users /\ a >= n THEN [v |-> FALSE, u |-> 0, w |-> 0] ELSE Perms(s)[a])
          = (IF a \in Users /\ a >= n THEN [v |-> FALSE, u |-> 0, w |-> 0] ELSE Perms(t)[a])
    BY <1>1
  <1>3. [a \in VAs |-> IF a \in Users /\ a >= n THEN [v |-> FALSE, u |-> 0, w |-> 0] ELSE Perms(s)[a]]
        = [a \in VAs |-> IF a \in Users /\ a >= n THEN [v |-> FALSE, u |-> 0, w |-> 0] ELSE Perms(t)[a]]
    BY <1>2
  <1> QED
    BY <1>3 DEF ImageBelow

LEMMA ImageCut ==
    ASSUME NEW t, NEW s, NEW n \in Nat, NEW size, Cut(t, s, n)
    PROVE  [perms |-> Perms(s), sz |-> size] = ImageBelow(t, n, size)
  <1>1. Confined(s, n)
    BY Places DEF Cut, Confined
  <1>2. ImageBelow(s, n, size) = [perms |-> Perms(s), sz |-> size]
    BY <1>1, ImageBelowIs
  <1>3. \A a \in VAs : (a \in Users /\ a >= n) \/ s.map[a] = t.map[a]
    BY DEF Cut
  <1> QED
    BY <1>2, <1>3, ImageBelowSame

LEMMA GrowStep ==
    ASSUME MemInv, NEW p \in Slots, Grow(p) PROVE MemInv'
  <1>1. /\ state[p] = "RUNNABLE" /\ mem_pc[p] = "grow" /\ Typed /\ TypedTable /\ TypedRegs /\ ~wrong
        /\ SlotInv(p) /\ RegsInv(p) /\ KeptInv(p) /\ PGROUNDUP(sz[p]) <= TRAPFRAME
    BY Runs DEF Grow
  <1>2. PICK r : r = Make(space[p], free)
    OBVIOUS
  <1>3. PICK u : u = 1
    OBVIOUS
  <1>4. PICK a : a = va[p]
    OBVIOUS
  <1>5. PICK k : k = MapUser(r, a, u, u)
    OBVIOUS
  <1>6. PICK n : n = PGROUNDUP(sz[p])
    OBVIOUS
  <1>7. PICK undone : undone = uvmdealloc(k, a * PGSIZE, n * PGSIZE)
    OBVIOUS
  <1>8. /\ a * PGSIZE < newsz[p]
        /\ Commit(IF k.ok THEN k ELSE undone)
        /\ IF k.ok
           THEN /\ space' = [space EXCEPT ![p] = k.t]
                /\ va' = [va EXCEPT ![p] = a + 1]
                /\ UNCHANGED <<mem_pc, new, newsz, prog, argv, child, before>>
           ELSE /\ space' = [space EXCEPT ![p] = undone.t]
                /\ End(p, "failed")
        /\ kstack' = kstack /\ state' = state /\ tf' = tf /\ sz' = sz
    BY <1>2, <1>3, <1>4, <1>5, <1>6, <1>7 DEF Grow
  <1>9. /\ a \in Nat /\ newsz[p] \in Nat /\ sz[p] \in Nat /\ n \in Nat
        /\ n <= a /\ sz[p] <= newsz[p] /\ PGROUNDUP(newsz[p]) <= TRAPFRAME
        /\ PGROUNDUP(newsz[p]) \in Nat
    BY <1>1, <1>4, <1>6, RoundUp DEF TypedTable, TypedRegs, RegsInv
  <1>10. a < PGROUNDUP(newsz[p])
    BY <1>8, <1>9, Gauge
  <1>11. a \in Users /\ a <= TRAPFRAME /\ n <= TRAPFRAME
    BY <1>9, <1>10, Places DEF Users
  <1>12. Layout(space[p], tf[p], a)
    BY <1>1, <1>4, Live DEF Grow, Top, Execing
  <1>13. Good(r) /\ r.t = space[p] /\ r.ok /\ ~r.bad /\ u \in {0, 1}
    BY <1>2, <1>3, SlotFacts DEF Make
  <1>14. r.t.map[a] = NoPte
    BY <1>9, <1>11, <1>12, <1>13 DEF Layout, Confined
  <1>15. /\ Conserves(r, k)
         /\ k.ok => SameBut(r.t, k.t, a) /\ Given(k.t.map[a], u, u)
         /\ ~k.ok => k.t.map = r.t.map
    BY <1>5, <1>11, <1>13, <1>14, UserPage
  <1>16. Good(k) /\ ~k.bad /\ k.t \in Tables /\ k.fr \in SUBSET Pages
    BY <1>13, <1>15 DEF Conserves, Good, Results
  <1>17. before[p] = ImageBelow(space[p], n, sz[p])
    BY <1>1, <1>6 DEF KeptInv
  <1>18. CASE k.ok
    <2>1. /\ Commit(k) /\ space' = [space EXCEPT ![p] = k.t] /\ va' = [va EXCEPT ![p] = a + 1]
          /\ mem_pc' = mem_pc /\ new' = new /\ newsz' = newsz /\ prog' = prog /\ argv' = argv
          /\ child' = child /\ before' = before
      BY <1>8, <1>18
    <2>2. free' = k.fr /\ ~wrong' /\ wrong' \in BOOLEAN
      BY <2>1, <1>1, <1>16, Committed
    <2>3. /\ space'[p] = k.t /\ va'[p] = a + 1 /\ a + 1 \in Nat
          /\ space' \in [Slots -> Tables] /\ va' \in [Slots -> Nat]
          /\ \A s \in Slots : s # p => space'[s] = space[s] /\ va'[s] = va[s]
      BY <2>1, <1>1, <1>9, <1>16 DEF TypedTable, TypedRegs
    <2>4. Typed'
      BY <2>1, <2>2, <2>3, <1>1, <1>8, <1>16 DEF Typed, TypedTable, TypedRegs
    <2>5. Frame(p, p)
      BY <2>1, <2>3, <1>1, <1>8, FrameSelf DEF SameTable, SameRegs
    <2>6. PagesMoved(p)
      BY <2>1, <2>2, <1>2, <1>8, <1>15, SpaceMoved
    <2>7. Layout(k.t, tf[p], a + 1)
      <3>1. Layout(r.t, tf[p], a) /\ SameBut(r.t, k.t, a) /\ a < a + 1 /\ a <= a + 1
        BY <1>9, <1>12, <1>13, <1>15, <1>18
      <3> QED
        BY <3>1, <2>3, <1>9, <1>11, LayoutWith
    <2>8. SlotInv(p)'
      BY <2>1, <2>3, <2>7, <1>1, <1>8 DEF SlotInv, Top
    <2>9. n <= a + 1 /\ a + 1 <= PGROUNDUP(newsz[p])
      BY <1>9, <1>10
    <2>10. RegsInv(p)'
      BY <2>1, <2>3, <2>9, <1>1, <1>6, <1>8 DEF RegsInv
    <2>11. ImageBelow(k.t, n, sz[p]) = ImageBelow(space[p], n, sz[p])
      <3>1. \A b \in VAs : (b \in Users /\ b >= n) \/ k.t.map[b] = space[p].map[b]
        BY <1>9, <1>11, <1>13, <1>15, <1>18 DEF SameBut
      <3> QED
        BY <3>1, ImageBelowSame
    <2>12. KeptInv(p)'
      BY <2>1, <2>3, <2>11, <1>1, <1>6, <1>8, <1>17 DEF KeptInv, Execing, Forking
    <2>13. Local(p)'
      BY <2>1, <2>8, <2>10, <2>12, <1>1 DEF Local, ForkInv, ExecInv, Forking
    <2> QED
      BY <2>2, <2>4, <2>5, <2>6, <2>13, Assemble
  <1>19. CASE ~k.ok
    <2>1. Commit(undone) /\ space' = [space EXCEPT ![p] = undone.t] /\ End(p, "failed")
      BY <1>8, <1>19
    <2>2. /\ a * PGSIZE \in Nat /\ PGROUNDUP(a * PGSIZE) = a
          /\ n * PGSIZE \in Nat /\ PGROUNDUP(n * PGSIZE) = n
          /\ n * PGSIZE <= a * PGSIZE
      BY <1>9, RoundOrder
    <2>3. k.t.map = space[p].map
      BY <1>13, <1>15, <1>19
    <2>4. Layout(k.t, tf[p], a)
      BY <2>3, <1>12, SameLayout
    <2>5. Conserves(k, undone) /\ (undone.ok <=> k.ok) /\ Cut(k.t, undone.t, n)
      <3>1. PICK o, m : o = a * PGSIZE /\ m = n * PGSIZE
        OBVIOUS
      <3>2. o \in Nat /\ m \in Nat /\ PGROUNDUP(o) = a /\ PGROUNDUP(m) = n /\ m <= o
        BY <3>1, <2>2
      <3>3. PGROUNDUP(o) <= TRAPFRAME /\ Confined(k.t, PGROUNDUP(o))
        BY <3>2, <2>4, <1>11 DEF Layout
      <3>4. undone = uvmdealloc(k, o, m)
        BY <3>1, <1>7
      <3>5. Conserves(k, undone) /\ (undone.ok <=> k.ok) /\ Cut(k.t, undone.t, PGROUNDUP(m))
        BY <3>2, <3>3, <3>4, <1>16, DeallocShrinks
      <3> QED
        BY <3>2, <3>5
    <2>6. Conserves(r, undone)
      BY <2>5, <1>15, ConservesTrans
    <2>7. ~undone.bad /\ undone.t \in Tables /\ undone.fr \in SUBSET Pages
      BY <2>6, <1>13 DEF Conserves, Good, Results
    <2>8. free' = undone.fr /\ ~wrong' /\ wrong' \in BOOLEAN
      BY <2>1, <2>7, <1>1, Committed
    <2>9. /\ Blank(p, "failed") /\ TypedRegs' /\ RegsInv(p)' /\ ForkInv(p)' /\ ExecInv(p)'
          /\ before'[p] = before[p]
          /\ \A s \in Slots : s # p => SameRegs(s)
      BY <2>1, <1>1, Ended
    <2>10. /\ space'[p] = undone.t /\ space' \in [Slots -> Tables]
           /\ \A s \in Slots : s # p => space'[s] = space[s]
      BY <2>1, <2>7, <1>1 DEF TypedTable
    <2>11. Typed'
      BY <2>7, <2>8, <2>9, <2>10, <1>1, <1>8 DEF Typed, TypedTable
    <2>12. Frame(p, p)
      BY <2>9, <2>10, <1>1, <1>8, FrameSelf DEF SameTable, Blank
    <2>13. \A s \in Slots : new'[s] = new[s] /\ argv'[s] = argv[s]
      BY <2>9, <1>1 DEF Blank, SameRegs, RegsInv, Execing
    <2>14. PagesMoved(p)
      BY <2>1, <2>6, <2>8, <2>13, <1>2, <1>8, SpaceMoved
    <2>15. Layout(undone.t, tf[p], n)
      BY <2>4, <2>5, CutLayout
    <2>16. SlotInv(p)'
      BY <2>9, <2>10, <2>15, <1>1, <1>6, <1>8 DEF SlotInv, Top, Blank
    <2>17. KeptInv(p)'
      <3>1. [perms |-> Perms(undone.t), sz |-> sz[p]] = ImageBelow(k.t, n, sz[p])
        BY <2>5, <1>9, ImageCut
      <3>2. ImageBelow(k.t, n, sz[p]) = ImageBelow(space[p], n, sz[p])
        BY <2>3, ImageBelowSame
      <3>3. before'[p] = [perms |-> Perms(space'[p]), sz |-> sz'[p]]
        BY <3>1, <3>2, <2>9, <2>10, <1>8, <1>17
      <3> QED
        BY <3>3, <2>9, FaultedSelf DEF KeptInv, Blank, Image
    <2>18. Local(p)'
      BY <2>9, <2>16, <2>17 DEF Local
    <2> QED
      BY <2>8, <2>11, <2>12, <2>14, <2>18, Assemble
  <1> QED
    BY <1>18, <1>19

\* The slot q is free again, and the other ones are as before.
Reset(q) ==
    /\ state'[q] = "UNUSED" /\ tf'[q] = 0 /\ space'[q] = NoTable /\ sz'[q] = 0
    /\ \A s \in Slots : s # q => SameTable(s)

\* freeproc() frees all the pages of the slot, when nothing else has gone wrong.
LEMMA FreeprocFrees ==
    ASSUME MemInv, NEW q \in Slots, mem_pc[q] = "user", NEW r, Good(r), ~r.bad,
           Own(r.t) \union r.fr = Own(space[q]) \union free,
           r.t # NoTable => Confined(r.t, PGROUNDUP(sz[q])),
           freeproc(q, r)
    PROVE  /\ free' = free \union Holding(q) /\ ~wrong' /\ wrong' \in BOOLEAN
           /\ free' \in SUBSET Pages
           /\ TypedTable' /\ Reset(q)
           /\ new[q] = NoTable /\ argv[q] = {}
  <1>1. /\ Typed /\ TypedTable /\ TypedRegs /\ ~wrong /\ Local(q) /\ Apart(q)
        /\ Holding(q) \subseteq Pages /\ Holding(q) \intersect free = {} /\ free \in SUBSET Pages
    BY SlotFacts DEF Typed
  <1>2. PICK S : S = {tf[q]} \ {0}
    OBVIOUS
  <1>3. PICK k : k = IF r.t = NoTable THEN r ELSE proc_freepagetable(r, sz[q])
    OBVIOUS
  <1>4. PICK m : m = kfree(k, S)
    OBVIOUS
  <1>5. /\ Commit(m) /\ tf' = [tf EXCEPT ![q] = 0] /\ space' = [space EXCEPT ![q] = NoTable]
        /\ sz' = [sz EXCEPT ![q] = 0] /\ state' = [state EXCEPT ![q] = "UNUSED"]
    BY <1>2, <1>3, <1>4 DEF freeproc
  <1>6. new[q] = NoTable /\ argv[q] = {} /\ sz[q] \in Nat /\ PGROUNDUP(sz[q]) <= TRAPFRAME
    BY <1>1 DEF Local, RegsInv, Execing, SlotInv, TypedTable
  <1>7. Holding(q) = S \union Own(space[q])
    BY <1>2, <1>6, NoTableGood DEF Holding
  <1>8. Good(k) /\ k.t = NoTable /\ k.fr = Own(space[q]) \union free /\ ~k.bad
    <2>1. CASE r.t = NoTable
      BY <2>1, <1>3, NoTableGood
    <2>2. CASE r.t # NoTable
      <3>1. k = proc_freepagetable(r, sz[q])
        BY <2>2, <1>3
      <3>2. Emptied(r, k)
        BY <3>1, <2>2, <1>6, ProcFreepagetableFrees
      <3> QED
        BY <3>2 DEF Emptied
    <2> QED
      BY <2>1, <2>2
  <1>9. S \in SUBSET Pages /\ S \intersect k.fr = {} /\ S \intersect Own(k.t) = {}
    <2>1. S \intersect Own(space[q]) = {} /\ S \subseteq Holding(q)
      BY <1>1, <1>2, <1>7 DEF Apart
    <2> QED
      BY <2>1, <1>1, <1>8, NoTableGood
  <1>10. Good(m) /\ m.fr = k.fr \union S /\ (m.bad <=> k.bad)
    BY <1>4, <1>8, <1>9, Freed
  <1>11. free' = m.fr /\ ~wrong' /\ wrong' \in BOOLEAN
    BY <1>1, <1>5, <1>8, <1>10, Committed
  <1>12. free' = free \union Holding(q)
    BY <1>7, <1>8, <1>10, <1>11
  <1>13. TypedTable'
    BY <1>1, <1>5, NoTableGood DEF TypedTable, States
  <1>14. Reset(q)
    BY <1>1, <1>5 DEF TypedTable, Reset, SameTable
  <1> QED
    BY <1>1, <1>6, <1>11, <1>12, <1>13, <1>14

LEMMA ResetMoved ==
    ASSUME MemInv, NEW q \in Slots, Reset(q), free' = free \union Holding(q),
           \A s \in Slots : new'[s] = new[s] /\ argv'[s] = argv[s],
           new[q] = NoTable, argv[q] = {}
    PROVE  PagesMoved(q)
  <1>1. Holding(q)' = {} /\ Apart(q)'
    BY NoTableGood DEF Holding, Apart, Reset
  <1> QED
    BY <1>1, NoTableGood DEF PagesMoved, Reset, SameTable

LEMMA ResetLocal ==
    ASSUME NEW q \in Slots, Reset(q), RegsInv(q), mem_pc[q] = "user", SameRegs(q)
    PROVE  Local(q)'
  <1>1. mem_pc'[q] = "user"
    BY DEF SameRegs
  <1>2. SlotInv(q)'
    BY <1>1, RoundZero, Places DEF SlotInv, Reset
  <1>3. RegsInv(q)'
    BY <1>1 DEF RegsInv, SameRegs, Reset
  <1> QED
    BY <1>1, <1>2, <1>3, LocalUser

LEMMA ReapStep ==
    ASSUME MemInv, NEW q \in Slots, Reap(q) PROVE MemInv'
  <1>1. /\ Typed /\ TypedRegs /\ GoodTable(space[q]) /\ Local(q) /\ SlotInv(q) /\ RegsInv(q)
        /\ Good(Make(space[q], free))
    BY SlotFacts DEF Typed, Local
  <1>2. /\ state[q] = "ZOMBIE" /\ mem_pc[q] = "user" /\ Layout(space[q], tf[q], PGROUNDUP(sz[q]))
    BY <1>1 DEF Reap, SlotInv, Booting, Top, Execing
  <1>3. PICK r : r = Make(space[q], free)
    OBVIOUS
  <1>4. /\ Good(r) /\ ~r.bad /\ Own(r.t) \union r.fr = Own(space[q]) \union free
        /\ Confined(r.t, PGROUNDUP(sz[q]))
    BY <1>1, <1>2, <1>3 DEF Make, Layout
  <1>5. /\ freeproc(q, r) /\ mem_pc' = mem_pc /\ kstack' = kstack /\ before' = before
        /\ va' = va /\ new' = new /\ newsz' = newsz /\ prog' = prog /\ argv' = argv /\ child' = child
    BY <1>3 DEF Reap, regs
  <1>6. /\ free' = free \union Holding(q) /\ ~wrong' /\ wrong' \in BOOLEAN
        /\ free' \in SUBSET Pages
        /\ TypedTable' /\ Reset(q)
        /\ new[q] = NoTable /\ argv[q] = {}
    BY <1>2, <1>4, <1>5, FreeprocFrees
  <1>7. Typed'
    BY <1>1, <1>5, <1>6 DEF Typed, TypedRegs
  <1>8. \A s \in Slots : SameRegs(s)
    BY <1>5 DEF SameRegs
  <1>9. Frame(q, q)
    BY <1>2, <1>5, <1>6, <1>8, FrameSelf DEF Reset
  <1>10. PagesMoved(q)
    BY <1>5, <1>6, ResetMoved
  <1>11. Local(q)'
    BY <1>1, <1>2, <1>6, <1>8, ResetLocal
  <1> QED
    BY <1>6, <1>7, <1>9, <1>10, <1>11, Assemble

\* A call that failed leaves the process as it was.
LEMMA LocalFailed ==
    ASSUME NEW p \in Slots, state[p] = "RUNNABLE", mem_pc[p] \in Execing \union Forking,
           SlotInv(p), KeptInv(p), ~Booting(p), SameTable(p), Blank(p, "failed"),
           RegsInv(p)', ForkInv(p)', ExecInv(p)', before'[p] = before[p]
    PROVE  Local(p)'
  <1>1. mem_pc[p] # "grow" /\ mem_pc'[p] = "failed"
    BY DEF Execing, Forking, Blank
  <1>2. SlotInv(p)'
    BY <1>1 DEF SlotInv, Top, SameTable
  <1>3. KeptInv(p)'
    BY <1>1 DEF KeptInv, Image, SameTable
  <1> QED
    BY <1>2, <1>3 DEF Local

\* A fork() that fails, with its child in r.
LEMMA ForkFails ==
    ASSUME MemInv, NEW p \in Slots, NEW l \in Forking, MemAt(p, l), NEW q, q = child[p],
           NEW r, Good(r), ~r.bad, Own(r.t) \union r.fr = Own(space[q]) \union free,
           r.t # NoTable => Confined(r.t, PGROUNDUP(sz[q])),
           freeproc(q, r), End(p, "failed"), kstack' = kstack
    PROVE  MemInv'
  <1>1. /\ state[p] = "RUNNABLE" /\ mem_pc[p] = l /\ Typed /\ TypedRegs
        /\ SlotInv(p) /\ RegsInv(p) /\ KeptInv(p)
    BY Runs
  <1>2. /\ q \in Slots /\ q # p /\ state[q] = "USED" /\ mem_pc[q] = "user" /\ RegsInv(q)
    BY ChildFacts
  <1>3. /\ free' = free \union Holding(q) /\ ~wrong' /\ wrong' \in BOOLEAN
        /\ free' \in SUBSET Pages
        /\ TypedTable' /\ Reset(q)
        /\ new[q] = NoTable /\ argv[q] = {}
    BY <1>2, FreeprocFrees
  <1>4. /\ Blank(p, "failed") /\ TypedRegs' /\ RegsInv(p)' /\ ForkInv(p)' /\ ExecInv(p)'
        /\ before'[p] = before[p]
        /\ \A s \in Slots : s # p => SameRegs(s)
    BY <1>1, Ended
  <1>5. Typed'
    BY <1>1, <1>3, <1>4 DEF Typed
  <1>6. Frame(p, q)
    <2>1. mem_pc[p] \in Forking /\ state[p] # "USED" /\ child'[p] \in {0, child[p]}
      BY <1>1, <1>4 DEF Blank
    <2>2. \A s \in Slots : s # p /\ s # q => SameTable(s)
      BY <1>3 DEF Reset
    <2> QED
      BY <2>1, <2>2, <1>2, <1>4, FrameChild
  <1>7. \A s \in Slots : new'[s] = new[s] /\ argv'[s] = argv[s]
    <2>1. new[p] = NoTable /\ argv[p] = {}
      BY <1>1 DEF RegsInv, Forking, Execing
    <2> QED
      BY <2>1, <1>4 DEF Blank, SameRegs
  <1>8. PagesMoved(q)
    BY <1>2, <1>3, <1>7, ResetMoved
  <1>9. Local(q)'
    BY <1>2, <1>3, <1>4, ResetLocal
  <1>10. Local(p)'
    <2>1. SameTable(p)
      BY <1>2, <1>3 DEF Reset
    <2>2. ~Booting(p) /\ mem_pc[p] \in Execing \union Forking
      BY <1>1 DEF Booting, Execing, Forking
    <2> QED
      BY <2>1, <2>2, <1>1, <1>4, LocalFailed
  <1> QED
    BY <1>2, <1>3, <1>5, <1>6, <1>8, <1>9, <1>10, Assemble

\* A fork() goes on: the table of its child is k.t now.
LEMMA ForkGoesOn ==
    ASSUME MemInv, NEW p \in Slots, NEW l \in Forking, MemAt(p, l), NEW q, q = child[p],
           NEW k, Conserves(Make(space[q], free), k), Commit(k), space' = [space EXCEPT ![q] = k.t],
           NEW m \in Forking, mem_pc' = [mem_pc EXCEPT ![p] = m],
           NEW a \in Nat, va' = [va EXCEPT ![p] = a], a <= PGROUNDUP(sz[p]),
           m = "fork_copy", Layout(k.t, tf[q], a), Copied(space[p], k.t, a), sz[q] = 0,
           state' = state, tf' = tf, sz' = sz, new' = new, newsz' = newsz, prog' = prog,
           argv' = argv, child' = child, before' = before, kstack' = kstack
    PROVE  MemInv'
  <1>1. /\ state[p] = "RUNNABLE" /\ mem_pc[p] = l /\ Typed /\ TypedTable /\ TypedRegs /\ ~wrong
        /\ SlotInv(p) /\ RegsInv(p) /\ KeptInv(p)
    BY Runs
  <1>2. /\ q \in Slots /\ q # p /\ state[q] = "USED" /\ mem_pc[q] = "user" /\ RegsInv(q)
        /\ SlotInv(q) /\ ChildInv(p, q)
    BY ChildFacts
  <1>3. ~Make(space[q], free).bad
    BY DEF Make
  <1>4. ~k.bad /\ k.t \in Tables /\ k.fr \in SUBSET Pages
    BY <1>3 DEF Conserves, Good, Results
  <1>5. free' = k.fr /\ ~wrong' /\ wrong' \in BOOLEAN
    BY <1>1, <1>4, Committed
  <1>6. /\ space'[q] = k.t /\ space' \in [Slots -> Tables] /\ va' \in [Slots -> Nat]
        /\ mem_pc' \in [Slots -> PCs] /\ mem_pc'[p] = "fork_copy" /\ va'[p] = a
        /\ \A s \in Slots : s # q => space'[s] = space[s]
        /\ \A s \in Slots : s # p => va'[s] = va[s] /\ mem_pc'[s] = mem_pc[s]
    BY <1>1, <1>2, <1>4 DEF TypedTable, TypedRegs, PCs
  <1>7. Typed'
    BY <1>1, <1>4, <1>5, <1>6 DEF Typed, TypedTable, TypedRegs
  <1>8. Frame(p, q)
    <2>1. mem_pc[p] \in Forking /\ state[p] # "USED" /\ child'[p] \in {0, child[p]}
      BY <1>1
    <2>2. /\ \A s \in Slots : s # p /\ s # q => SameTable(s)
          /\ \A s \in Slots : s # p => SameRegs(s)
      BY <1>6 DEF SameTable, SameRegs
    <2> QED
      BY <2>1, <2>2, <1>2, FrameChild
  <1>9. PagesMoved(q)
    BY <1>2, <1>5, SpaceMoved
  <1>10. Local(q)'
    <2>1. SlotInv(q)'
      <3>1. PGROUNDUP(sz[p]) \in Nat /\ PGROUNDUP(sz[p]) <= TRAPFRAME
        BY <1>1, RoundUp DEF SlotInv, TypedTable
      <3>2. TRAPFRAME \in Nat /\ a <= TRAPFRAME
        BY <3>1, Places
      <3>3. Layout(k.t, tf[q], TRAPFRAME)
        BY <3>2, LayoutMono
      <3> QED
        BY <3>3, <1>2, <1>6 DEF SlotInv
    <2>2. RegsInv(q)'
      BY <1>2, <1>6 DEF RegsInv
    <2> QED
      BY <2>1, <2>2, <1>2, <1>6, LocalUser
  <1>11. Local(p)'
    <2>1. SlotInv(p)'
      BY <1>1, <1>2, <1>6 DEF SlotInv, Top, Booting, Execing, Forking
    <2>2. RegsInv(p)'
      BY <1>1, <1>6 DEF RegsInv, Forking, Execing
    <2>3. ForkInv(p)'
      <3>1. ChildInv(p, q)'
        BY <1>2, <1>6 DEF ChildInv
      <3> QED
        BY <3>1 DEF ForkInv
    <2>4. space'[p] = space[p]
      BY <1>2, <1>6
    <2>5. KeptInv(p)'
      BY <2>4, <1>1, <1>6 DEF KeptInv, Image
    <2> QED
      BY <2>1, <2>2, <2>3, <2>5, <1>6 DEF Local, ExecInv
  <1> QED
    BY <1>2, <1>5, <1>7, <1>8, <1>9, <1>10, <1>11, Assemble

LEMMA ForkTableStep ==
    ASSUME MemInv, NEW p \in Slots, ForkTable(p) PROVE MemInv'
  <1>1. PICK q, l, m, z : q = child[p] /\ l = "fork_table" /\ m = "fork_copy" /\ z = 0
    OBVIOUS
  <1>2. l \in Forking /\ m \in Forking /\ MemAt(p, l) /\ z \in Nat
    BY <1>1 DEF ForkTable, Forking
  <1>3. /\ mem_pc[p] = "fork_table" /\ Typed /\ TypedTable /\ TypedRegs /\ RegsInv(p)
    BY <1>1, <1>2, Runs
  <1>4. /\ q \in Slots /\ ChildInv(p, q) /\ tf[q] \in Pages
    BY <1>1, <1>2, ChildFacts
  <1>5. space[q] = NoTable /\ sz[q] = 0 /\ va[p] = 0 /\ free \in SUBSET Pages
    BY <1>3, <1>4 DEF ChildInv, RegsInv, Typed
  <1>6. PICK k : k = proc_pagetable(free, tf[q])
    OBVIOUS
  <1>7. Founded(free, tf[q], k)
    BY <1>4, <1>5, <1>6, ProcPagetableFounds
  <1>8. /\ Good(k) /\ ~k.bad /\ Own(k.t) \union k.fr = Own(space[q]) \union free
    BY <1>5, <1>7, NoTableGood DEF Founded
  <1>9. CASE k.ok
    <2>1. /\ Commit(k) /\ space' = [space EXCEPT ![q] = k.t]
          /\ mem_pc' = [mem_pc EXCEPT ![p] = m] /\ state' = state /\ tf' = tf /\ sz' = sz
          /\ va' = va /\ new' = new /\ newsz' = newsz /\ prog' = prog /\ argv' = argv /\ child' = child
          /\ before' = before /\ kstack' = kstack
      BY <1>1, <1>6, <1>9 DEF ForkTable, MemGoto, regs
    <2>2. va' = [va EXCEPT ![p] = z]
      BY <2>1, <1>1, <1>3, <1>5 DEF TypedRegs
    <2>3. Conserves(Make(space[q], free), k)
      BY <1>8 DEF Conserves, Make
    <2>4. Layout(k.t, tf[q], z)
      BY <1>1, <1>7, <1>9 DEF Founded
    <2>5. Copied(space[p], k.t, z)
      BY <1>1 DEF Copied, Users
    <2>6. z <= PGROUNDUP(sz[p])
      BY <1>1, <1>3, RoundUp DEF TypedTable
    <2> QED
      BY <2>1, <2>2, <2>3, <2>4, <2>5, <2>6, <1>1, <1>2, <1>5, ForkGoesOn
  <1>10. CASE ~k.ok
    <2>1. freeproc(q, k) /\ End(p, "failed") /\ kstack' = kstack
      BY <1>1, <1>6, <1>10 DEF ForkTable
    <2>2. k.t = NoTable
      BY <1>7, <1>10 DEF Founded
    <2> QED
      BY <2>1, <2>2, <1>1, <1>2, <1>8, ForkFails
  <1> QED
    BY <1>9, <1>10

LEMMA ForkCopyStep ==
    ASSUME MemInv, NEW p \in Slots, ForkCopy(p) PROVE MemInv'
  <1>1. PICK q, l : q = child[p] /\ l = "fork_copy"
    OBVIOUS
  <1>2. l \in Forking /\ MemAt(p, l)
    BY <1>1 DEF ForkCopy, Forking
  <1>3. /\ mem_pc[p] = l /\ Typed /\ TypedTable /\ TypedRegs /\ PGROUNDUP(sz[p]) <= TRAPFRAME
    BY <1>2, Runs
  <1>4. /\ q \in Slots /\ q # p /\ ChildInv(p, q) /\ tf[q] \in Pages
    BY <1>1, <1>2, ChildFacts
  <1>5. PICK n : n = PGROUNDUP(sz[p])
    OBVIOUS
  <1>6. PICK left : left = {b \in va[p]..n - 1 : space[p].map[b] # NoPte}
    OBVIOUS
  <1>7. PICK a : a = Min(left)
    OBVIOUS
  <1>8. PICK u, w : u = space[p].map[a].u /\ w = space[p].map[a].w
    OBVIOUS
  <1>9. PICK r : r = Make(space[q], free)
    OBVIOUS
  <1>10. PICK k : k = MapUser(r, a, u, w)
    OBVIOUS
  <1>11. PICK j : j = UnmapSpan(k, 0, a)
    OBVIOUS
  <1>12. /\ left # {}
         /\ IF k.ok
            THEN /\ Commit(k)
                 /\ space' = [space EXCEPT ![q] = k.t]
                 /\ va' = [va EXCEPT ![p] = a + 1]
                 /\ UNCHANGED <<state, tf, sz, mem_pc, new, newsz, prog, argv, child, before>>
            ELSE /\ freeproc(q, j)
                 /\ End(p, "failed")
         /\ kstack' = kstack
    BY <1>1, <1>5, <1>6, <1>7, <1>8, <1>9, <1>10, <1>11 DEF ForkCopy, UnmapSpan
  <1>13. va[p] \in Nat /\ sz[p] \in Nat /\ n \in Nat /\ n <= TRAPFRAME
    BY <1>3, <1>5, RoundUp DEF TypedTable, TypedRegs
  <1>14. /\ a \in left /\ \A b \in left : a <= b
    <2>1. left \in SUBSET Nat
      BY <1>6, <1>13
    <2> QED
      BY <2>1, <1>7, <1>12, NatLeast
  <1>15. /\ a \in Nat /\ va[p] <= a /\ a < n /\ space[p].map[a] # NoPte /\ a \in Users /\ a \in VAs
    BY <1>6, <1>13, <1>14, Places DEF Users
  <1>16. GoodTable(space[p])
    BY SlotFacts
  <1>17. u \in {0, 1} /\ w \in {0, 1} /\ space[p].map[a].pa # 0
    BY <1>8, <1>15, <1>16 DEF GoodTable, Tables, Ptes
  <1>18. /\ sz[q] = 0 /\ Layout(space[q], tf[q], va[p]) /\ Copied(space[p], space[q], va[p])
    BY <1>1, <1>3, <1>4 DEF ChildInv
  <1>19. Good(r) /\ r.t = space[q] /\ r.ok /\ ~r.bad /\ r.fr = free
    BY <1>4, <1>9, SlotFacts DEF Make
  <1>20. r.t.map[a] = NoPte
    BY <1>15, <1>18, <1>19 DEF Layout, Confined
  <1>21. /\ Conserves(r, k)
         /\ k.ok => SameBut(r.t, k.t, a) /\ Given(k.t.map[a], u, w)
         /\ ~k.ok => k.t.map = r.t.map
    BY <1>10, <1>15, <1>17, <1>19, <1>20, UserPage
  <1>22. CASE k.ok
    <2>1. /\ Commit(k) /\ space' = [space EXCEPT ![q] = k.t] /\ va' = [va EXCEPT ![p] = a + 1]
          /\ state' = state /\ tf' = tf /\ sz' = sz /\ mem_pc' = mem_pc
          /\ new' = new /\ newsz' = newsz /\ prog' = prog /\ argv' = argv /\ child' = child
          /\ before' = before /\ kstack' = kstack
      BY <1>12, <1>22
    <2>2. PICK b : b = a + 1
      OBVIOUS
    <2>3. b \in Nat /\ b <= n /\ a < b /\ va[p] <= b
      BY <2>2, <1>13, <1>15
    <2>4. SameBut(space[q], k.t, a) /\ Given(k.t.map[a], u, w)
      BY <1>19, <1>21, <1>22
    <2>5. Layout(k.t, tf[q], b)
      BY <2>3, <2>4, <1>13, <1>15, <1>18, LayoutWith
    <2>6. Copied(space[p], k.t, b)
      <3> SUFFICES ASSUME NEW c \in Users, c < b
                   PROVE  SamePerms(space[p].map[c], k.t.map[c])
        BY DEF Copied
      <3>1. c \in Nat /\ c \in VAs
        BY Places DEF Users
      <3>2. CASE c = a
        BY <3>2, <2>4, <1>8, <1>17 DEF Given, SamePerms
      <3>3. CASE c # a
        <4>1. k.t.map[c] = space[q].map[c]
          BY <3>1, <3>3, <2>4 DEF SameBut
        <4>2. CASE c < va[p]
          BY <4>1, <4>2, <1>18 DEF Copied
        <4>3. CASE ~(c < va[p])
          <5>1. c \in va[p]..n - 1 /\ c < a
            BY <4>3, <3>1, <3>3, <2>2, <2>3, <1>13, <1>15
          <5>2. space[p].map[c] = NoPte
            BY <5>1, <3>1, <1>6, <1>14, <1>15
          <5>3. space[q].map[c] = NoPte
            BY <4>3, <3>1, <1>13, <1>18 DEF Layout, Confined
          <5> QED
            BY <5>2, <5>3, <4>1 DEF SamePerms
        <4> QED
          BY <4>2, <4>3
      <3> QED
        BY <3>2, <3>3
    <2>7. mem_pc' = [mem_pc EXCEPT ![p] = l]
      BY <2>1, <1>3 DEF TypedRegs
    <2>8. va' = [va EXCEPT ![p] = b] /\ b <= PGROUNDUP(sz[p])
      BY <2>1, <2>2, <2>3, <1>5
    <2>9. Conserves(Make(space[q], free), k)
      BY <1>9, <1>21
    <2> QED
      BY <2>1, <2>3, <2>5, <2>6, <2>7, <2>8, <2>9, <1>1, <1>2, <1>18, ForkGoesOn
  <1>23. CASE ~k.ok
    <2>1. freeproc(q, j) /\ End(p, "failed") /\ kstack' = kstack
      BY <1>12, <1>23
    <2>2. Good(k) /\ ~k.bad
      BY <1>19, <1>21 DEF Conserves
    <2>3. PICK z : z = 0
      OBVIOUS
    <2>4. z \in Nat /\ a \in Int /\ z + a <= TRAPFRAME /\ j = UnmapSpan(k, z, a)
      BY <2>3, <1>11, <1>13, <1>15, Places
    <2>5. Conserves(k, j) /\ Cleared(k, j, Span(z, a))
      BY <2>2, <2>4, UnmapFrees
    <2>6. Good(j) /\ ~j.bad /\ Own(j.t) \union j.fr = Own(space[q]) \union free
      BY <2>2, <2>5, <1>19, <1>21 DEF Conserves
    <2>7. Confined(j.t, PGROUNDUP(sz[q]))
      <3> SUFFICES ASSUME NEW b \in Users PROVE j.t.map[b] = NoPte
        BY DEF Confined
      <3>1. b \in VAs /\ b \in Nat
        BY Places DEF Users
      <3>2. CASE b < a
        BY <3>1, <3>2, <2>3, <2>5, <1>15 DEF Cleared, Span
      <3>3. CASE ~(b < a)
        <4>1. b >= va[p]
          BY <3>1, <3>3, <1>13, <1>15
        <4>2. space[q].map[b] = NoPte
          BY <4>1, <1>18 DEF Layout, Confined
        <4>3. k.t.map[b] = NoPte
          BY <4>2, <1>19, <1>21, <1>23
        <4> QED
          BY <4>3, <3>1, <2>5 DEF Cleared
      <3> QED
        BY <3>2, <3>3
    <2> QED
      BY <2>1, <2>6, <2>7, <1>1, <1>2, ForkFails
  <1> QED
    BY <1>22, <1>23

\* exec() fails: the new image and the arguments are freed, and the caller goes on.
LEMMA ExecFails ==
    ASSUME MemInv, NEW p \in Slots, NEW l \in Execing, MemAt(p, l),
           NEW r, Good(r), ~r.bad, Own(r.t) \union r.fr = Own(new[p]) \union free,
           NEW size \in Nat,
           r.t # NoTable => Confined(r.t, PGROUNDUP(size)) /\ PGROUNDUP(size) <= TRAPFRAME,
           ExecBad(p, r, size), kstack' = kstack
    PROVE  MemInv'
  <1>1. /\ state[p] = "RUNNABLE" /\ mem_pc[p] = l /\ Typed /\ TypedTable /\ TypedRegs /\ ~wrong
        /\ SlotInv(p) /\ RegsInv(p) /\ KeptInv(p)
    BY Runs
  <1>2. /\ Apart(p) /\ Holding(p) \subseteq Pages /\ Holding(p) \intersect free = {}
        /\ GoodTable(space[p]) /\ free \in SUBSET Pages
    BY SlotFacts
  <1>3. PICK k : k = IF r.t = NoTable THEN r ELSE proc_freepagetable(r, size)
    OBVIOUS
  <1>4. PICK m : m = kfree(k, argv[p])
    OBVIOUS
  <1>5. /\ sz[p] > 0 /\ Commit(m) /\ End(p, "failed")
        /\ state' = state /\ tf' = tf /\ space' = space /\ sz' = sz
    BY <1>3, <1>4 DEF ExecBad, ArgvBad, table
  <1>6. Good(k) /\ k.t = NoTable /\ k.fr = Own(new[p]) \union free /\ ~k.bad
    <2>1. CASE r.t = NoTable
      BY <2>1, <1>3, NoTableGood
    <2>2. CASE r.t # NoTable
      <3>1. k = proc_freepagetable(r, size)
        BY <2>2, <1>3
      <3>2. Emptied(r, k)
        BY <3>1, <2>2, ProcFreepagetableFrees
      <3> QED
        BY <3>2 DEF Emptied
    <2> QED
      BY <2>1, <2>2
  <1>7. PICK A : A = {tf[p]} \ {0}
    OBVIOUS
  <1>8. /\ Holding(p) = A \union Own(space[p]) \union Own(new[p]) \union argv[p]
        /\ A \intersect Own(space[p]) = {} /\ A \intersect Own(new[p]) = {} /\ A \intersect argv[p] = {}
        /\ Own(space[p]) \intersect Own(new[p]) = {} /\ Own(space[p]) \intersect argv[p] = {}
        /\ Own(new[p]) \intersect argv[p] = {}
    BY <1>2, <1>7 DEF Holding, Apart
  <1>9. argv[p] \in SUBSET Pages /\ argv[p] \intersect k.fr = {} /\ argv[p] \intersect Own(k.t) = {}
    BY <1>2, <1>6, <1>8, NoTableGood
  <1>10. Good(m) /\ m.fr = k.fr \union argv[p] /\ (m.bad <=> k.bad)
    BY <1>4, <1>6, <1>9, Freed
  <1>11. free' = Own(new[p]) \union free \union argv[p] /\ ~wrong' /\ wrong' \in BOOLEAN
    BY <1>1, <1>5, <1>6, <1>10, Committed
  <1>12. /\ Blank(p, "failed") /\ TypedRegs' /\ RegsInv(p)' /\ ForkInv(p)' /\ ExecInv(p)'
         /\ before'[p] = before[p]
         /\ \A s \in Slots : s # p => SameRegs(s)
    BY <1>1, <1>5, Ended
  <1>13. Typed'
    <2>1. free' \in SUBSET Pages
      BY <1>2, <1>8, <1>11
    <2> QED
      BY <2>1, <1>1, <1>5, <1>11, <1>12 DEF Typed, TypedTable
  <1>14. Frame(p, p)
    BY <1>1, <1>5, <1>12, FrameSelf DEF SameTable, Blank
  <1>15. PagesMoved(p)
    <2>1. new'[p] = NoTable /\ argv'[p] = {}
      BY <1>12 DEF Blank
    <2>2. Holding(p)' = A \union Own(space[p])
      BY <2>1, <1>5, <1>7, NoTableGood DEF Holding
    <2>3. Apart(p)'
      BY <2>1, <1>5, <1>7, <1>8, NoTableGood DEF Apart
    <2>4. free' \union Holding(p)' = free \union Holding(p)
      BY <2>2, <1>8, <1>11
    <2>5. free' \intersect Holding(p)' = {}
      BY <2>2, <1>2, <1>8, <1>11
    <2> QED
      BY <2>1, <2>3, <2>4, <2>5, <1>2, <1>5, <1>12, NoTableGood DEF PagesMoved, SameRegs
  <1>16. Local(p)'
    <2>1. SameTable(p) /\ ~Booting(p) /\ mem_pc[p] \in Execing \union Forking
      BY <1>1, <1>5 DEF SameTable, Booting, TypedTable
    <2> QED
      BY <2>1, <1>1, <1>12, LocalFailed
  <1> QED
    BY <1>11, <1>13, <1>14, <1>15, <1>16, Assemble

\* exec() reads a pointer of the caller, whose page table is k.t then.
LEMMA ExecFetchStep ==
    ASSUME MemInv, NEW p \in Slots, NEW addr \in Touched, ExecFetch(p, addr) PROVE MemInv'
  <1>1. /\ state[p] = "RUNNABLE" /\ mem_pc[p] = "argv" /\ Typed /\ TypedTable /\ TypedRegs /\ ~wrong
        /\ SlotInv(p) /\ RegsInv(p) /\ KeptInv(p) /\ PGROUNDUP(sz[p]) <= TRAPFRAME
        /\ (Booting(p) \/ Layout(space[p], tf[p], Top(p)))
    BY Runs DEF ExecFetch
  <1>2. PICK there, va0 : there = Make(space[p], free) /\ va0 = PGROUNDDOWN(addr)
    OBVIOUS
  <1>3. PICK k : k = IF Cardinality(argv[p]) >= MAXARG \/ addr >= sz[p] THEN Fail(there)
                     ELSE IF Accessible(p, addr, FALSE) THEN there
                     ELSE vmfault(p, va0)
    OBVIOUS
  <1>4. /\ space' = [space EXCEPT ![p] = k.t]
        /\ IF k.ok THEN Commit(k) /\ MemGoto(p, "arg") /\ UNCHANGED regs ELSE ArgvBad(p, k)
        /\ kstack' = kstack /\ tf' = tf /\ sz' = sz /\ state' = state
    BY <1>2, <1>3 DEF ExecFetch
  <1>5. sz[p] \in Nat /\ va0 \in Nat
    BY <1>1, <1>2, RoundDown, MemoryAssumption DEF TypedTable
  <1>6. Layout(space[p], tf[p], PGROUNDUP(sz[p]))
    BY <1>1 DEF Booting, Top
  <1>7. Good(there) /\ there.t = space[p] /\ there.fr = free /\ ~there.bad /\ there \in Results
    BY <1>2, SlotFacts DEF Make, Good
  <1>8. /\ Conserves(there, k) /\ Layout(k.t, tf[p], PGROUNDUP(sz[p]))
        /\ Fault(space[p], k.t, sz[p])
    <2>1. CASE k = vmfault(p, va0)
      BY <2>1, <1>1, <1>2, <1>5, <1>6, FaultMaps
    <2>2. CASE k = there
      BY <2>2, <1>6, <1>7 DEF Conserves, Fault
    <2>3. CASE k = Fail(there)
      <3>1. k \in Results /\ k.t = there.t /\ k.fr = there.fr /\ (k.bad <=> there.bad)
        BY <2>3, <1>7 DEF Fail, Results
      <3> QED
        BY <3>1, <1>6, <1>7 DEF Conserves, Good, Fault
    <2> QED
      BY <2>1, <2>2, <2>3, <1>3
  <1>9. Good(k) /\ ~k.bad /\ k.t \in Tables /\ k.fr \in SUBSET Pages
    BY <1>7, <1>8 DEF Conserves, Good, Results
  <1>10. /\ space' \in [Slots -> Tables] /\ space'[p] = k.t
         /\ \A s \in Slots : s # p => space'[s] = space[s]
    BY <1>1, <1>4, <1>9 DEF TypedTable
  <1>11. Faulted(before[p], Image(p)')
    <2>1. Faulted(before[p], [perms |-> Perms(space[p]), sz |-> sz[p]])
      BY <1>1 DEF KeptInv, Image, Execing
    <2>2. Faulted(before[p], [perms |-> Perms(k.t), sz |-> sz[p]])
      BY <2>1, <1>8, FaultedStep
    <2>3. Image(p)' = [perms |-> Perms(k.t), sz |-> sz[p]]
      BY <1>4, <1>10 DEF Image
    <2> QED
      BY <2>2, <2>3
  <1>12. CASE k.ok
    <2>1. /\ Commit(k) /\ mem_pc' = [mem_pc EXCEPT ![p] = "arg"] /\ before' = before
          /\ va' = va /\ new' = new /\ newsz' = newsz /\ prog' = prog /\ argv' = argv /\ child' = child
      BY <1>4, <1>12 DEF MemGoto, regs
    <2>2. /\ mem_pc'[p] = "arg" /\ mem_pc' \in [Slots -> PCs]
          /\ \A s \in Slots : s # p => mem_pc'[s] = mem_pc[s]
      BY <2>1, <1>1 DEF TypedRegs, PCs
    <2>3. free' = k.fr /\ ~wrong' /\ wrong' \in BOOLEAN
      BY <2>1, <1>1, <1>9, Committed
    <2>4. Typed'
      BY <2>1, <2>2, <2>3, <1>1, <1>4, <1>9, <1>10 DEF Typed, TypedTable, TypedRegs
    <2>5. Frame(p, p)
      BY <2>1, <2>2, <1>1, <1>4, <1>10, FrameSelf DEF SameTable, SameRegs
    <2>6. PagesMoved(p)
      BY <2>1, <2>3, <1>2, <1>4, <1>8, SpaceMoved
    <2>7. SlotInv(p)'
      BY <2>2, <1>1, <1>4, <1>8, <1>10 DEF SlotInv, Top
    <2>8. RegsInv(p)'
      BY <2>1, <2>2, <1>1, <1>4 DEF RegsInv, Execing, Forking
    <2>9. KeptInv(p)'
      BY <2>1, <2>2, <1>11 DEF KeptInv, Execing
    <2>10. Local(p)'
      BY <2>2, <2>7, <2>8, <2>9 DEF Local, ForkInv, ExecInv, Forking
    <2> QED
      BY <2>3, <2>4, <2>5, <2>6, <2>10, Assemble
  <1>13. CASE ~k.ok
    <2>1. PICK m : m = kfree(k, argv[p])
      OBVIOUS
    <2>2. Commit(m) /\ End(p, "failed")
      BY <2>1, <1>4, <1>13 DEF ArgvBad
    <2>3. /\ Blank(p, "failed") /\ TypedRegs' /\ RegsInv(p)' /\ ForkInv(p)' /\ ExecInv(p)'
          /\ before'[p] = before[p]
          /\ \A s \in Slots : s # p => SameRegs(s)
      BY <2>2, <1>1, Ended
    <2>4. /\ Apart(p) /\ Holding(p) \subseteq Pages /\ Holding(p) \intersect free = {}
          /\ free \in SUBSET Pages
      BY SlotFacts
    <2>5. new[p] = NoTable
      BY <1>1 DEF RegsInv
    <2>6. PICK A : A = {tf[p]} \ {0}
      OBVIOUS
    <2>7. /\ Holding(p) = A \union Own(space[p]) \union argv[p]
          /\ A \intersect Own(space[p]) = {} /\ A \intersect argv[p] = {}
          /\ Own(space[p]) \intersect argv[p] = {}
      BY <2>4, <2>5, <2>6, NoTableGood DEF Holding, Apart
    <2>8. /\ Own(k.t) \union k.fr = Own(space[p]) \union free /\ Own(k.t) \intersect k.fr = {}
          /\ GoodTable(k.t)
      BY <1>7, <1>8 DEF Conserves, Good
    <2>9. \A y : y \in Own(k.t) \/ y \in k.fr <=> y \in Own(space[p]) \/ y \in free
      BY <2>8
    <2>10. argv[p] \in SUBSET Pages /\ argv[p] \intersect k.fr = {} /\ argv[p] \intersect Own(k.t) = {}
      BY <2>4, <2>7, <2>9
    <2>11. Good(m) /\ m.fr = k.fr \union argv[p] /\ (m.bad <=> k.bad)
      BY <2>1, <2>10, <1>9, Freed
    <2>12. free' = k.fr \union argv[p] /\ ~wrong' /\ wrong' \in BOOLEAN
      BY <2>2, <2>11, <1>1, <1>9, Committed
    <2>13. Typed'
      BY <2>3, <2>10, <2>12, <1>1, <1>4, <1>9, <1>10 DEF Typed, TypedTable
    <2>14. Frame(p, p)
      BY <2>3, <1>1, <1>4, <1>10, FrameSelf DEF SameTable, Blank
    <2>15. PagesMoved(p)
      <3>1. new'[p] = NoTable /\ argv'[p] = {}
        BY <2>3 DEF Blank
      <3>2. Holding(p)' = A \union Own(k.t)
        BY <3>1, <2>6, <1>4, <1>10, NoTableGood DEF Holding
      <3>3. A \intersect Own(k.t) = {} /\ A \intersect k.fr = {}
        BY <2>4, <2>7, <2>9
      <3>4. Apart(p)'
        BY <3>1, <3>3, <2>6, <1>4, <1>10, NoTableGood DEF Apart
      <3>5. free' \union Holding(p)' = free \union Holding(p)
        BY <3>2, <2>7, <2>9, <2>12
      <3>6. free' \intersect Holding(p)' = {}
        BY <3>2, <3>3, <2>7, <2>8, <2>10, <2>12
      <3> QED
        BY <3>1, <3>4, <3>5, <3>6, <2>3, <2>8, <1>4, <1>10, NoTableGood DEF PagesMoved, SameRegs
    <2>16. SlotInv(p)'
      BY <2>3, <1>1, <1>4, <1>8, <1>10 DEF SlotInv, Top, Blank
    <2>17. KeptInv(p)'
      BY <2>3, <1>11 DEF KeptInv, Blank
    <2>18. Local(p)'
      BY <2>3, <2>16, <2>17 DEF Local
    <2> QED
      BY <2>12, <2>13, <2>14, <2>15, <2>18, Assemble
  <1> QED
    BY <1>12, <1>13

\* exec() fails before it has a new image.
LEMMA ExecFailsEarly ==
    ASSUME MemInv, NEW p \in Slots, NEW l \in Execing, l # "load", MemAt(p, l),
           ExecBad(p, Make(NoTable, free), 0), kstack' = kstack
    PROVE  MemInv'
  <1>1. mem_pc[p] = l /\ Typed /\ RegsInv(p)
    BY Runs
  <1>2. PICK r, z : r = Make(NoTable, free) /\ z = 0
    OBVIOUS
  <1>3. new[p] = NoTable /\ free \in SUBSET Pages
    BY <1>1 DEF RegsInv, Typed
  <1>4. r \in Results /\ r.t = NoTable /\ r.fr = free /\ ~r.bad
    BY <1>2, <1>3, NoTableGood DEF Make, Results
  <1>5. Good(r) /\ Own(r.t) \union r.fr = Own(new[p]) \union free
    BY <1>3, <1>4, NoTableGood DEF Good
  <1>6. ExecBad(p, r, z) /\ z \in Nat
    BY <1>2
  <1> QED
    BY <1>4, <1>5, <1>6, ExecFails

\* The pages of a computation on the table that exec() is making.
LEMMA NewMoved ==
    ASSUME MemInv, NEW x \in Slots, NEW k, Conserves(Make(new[x], free), k),
           free' = k.fr, new' = [new EXCEPT ![x] = k.t], tf' = tf, space' = space, argv' = argv
    PROVE  PagesMoved(x)
  <1>1. /\ GoodTable(space[x]) /\ GoodTable(new[x]) /\ Apart(x) /\ Holding(x) \intersect free = {}
        /\ TypedRegs
    BY SlotFacts DEF Typed
  <1>2. /\ GoodTable(k.t) /\ Own(k.t) \union k.fr = Own(new[x]) \union free
        /\ Own(k.t) \intersect k.fr = {}
    BY DEF Conserves, Good, Make
  <1>3. /\ new'[x] = k.t
        /\ \A s \in Slots : s # x => new'[s] = new[s]
    BY <1>1 DEF TypedRegs
  <1>4. PICK A : A = {tf[x]} \ {0}
    OBVIOUS
  <1>5. PICK R : R = A \union Own(space[x]) \union argv[x]
    OBVIOUS
  <1>6. Holding(x) = R \union Own(new[x]) /\ Holding(x)' = R \union Own(k.t)
    BY <1>3, <1>4, <1>5 DEF Holding
  <1>7. /\ A \intersect Own(space[x]) = {} /\ A \intersect Own(new[x]) = {} /\ A \intersect argv[x] = {}
        /\ Own(space[x]) \intersect Own(new[x]) = {} /\ Own(space[x]) \intersect argv[x] = {}
        /\ Own(new[x]) \intersect argv[x] = {}
    BY <1>1, <1>4 DEF Apart
  <1>8. R \intersect Own(new[x]) = {} /\ R \intersect free = {}
    BY <1>1, <1>5, <1>6, <1>7
  <1>9. /\ free' \union Holding(x)' = free \union Holding(x)
        /\ free' \intersect Holding(x)' = {}
        /\ R \intersect Own(k.t) = {}
    BY <1>2, <1>6, <1>8, Exchange
  <1>10. /\ A \intersect Own(k.t) = {} /\ Own(space[x]) \intersect Own(k.t) = {}
         /\ Own(k.t) \intersect argv[x] = {}
    BY <1>5, <1>9
  <1>11. Apart(x)'
    BY <1>3, <1>4, <1>7, <1>10 DEF Apart
  <1> QED
    BY <1>1, <1>2, <1>3, <1>9, <1>11 DEF PagesMoved

LEMMA ExecArgStep ==
    ASSUME MemInv, NEW p \in Slots, ExecArg(p) PROVE MemInv'
  <1>1. /\ state[p] = "RUNNABLE" /\ mem_pc[p] = "arg" /\ Typed /\ TypedTable /\ TypedRegs /\ ~wrong
        /\ SlotInv(p) /\ RegsInv(p) /\ KeptInv(p)
    BY Runs DEF ExecArg
  <1>2. kstack' = kstack
    BY DEF ExecArg
  <1>3. CASE /\ free # {}
             /\ argv' = [argv EXCEPT ![p] = @ \union {kalloc(free)}]
             /\ Commit(Make(0, free \ {kalloc(free)}))
             /\ MemGoto(p, "argv")
             /\ UNCHANGED <<table, va, new, newsz, prog, child, before>>
    <2>1. PICK x : x = kalloc(free)
      OBVIOUS
    <2>2. x \in free /\ x \in Pages
      BY <2>1, <1>1, <1>3, KallocIn DEF Typed
    <2>3. /\ argv' = [argv EXCEPT ![p] = argv[p] \union {x}]
          /\ free' = free \ {x} /\ ~wrong' /\ wrong' \in BOOLEAN
          /\ state' = state /\ tf' = tf /\ space' = space /\ sz' = sz
          /\ mem_pc' = [mem_pc EXCEPT ![p] = "argv"]
          /\ va' = va /\ new' = new /\ newsz' = newsz /\ prog' = prog /\ child' = child /\ before' = before
      BY <2>1, <1>1, <1>3 DEF table, Commit, Make, MemGoto
    <2>4. /\ argv'[p] = argv[p] \union {x} /\ argv' \in [Slots -> SUBSET Pages]
          /\ mem_pc'[p] = "argv" /\ mem_pc' \in [Slots -> PCs]
          /\ \A s \in Slots : s # p => argv'[s] = argv[s] /\ mem_pc'[s] = mem_pc[s]
      BY <2>2, <2>3, <1>1 DEF TypedRegs, PCs
    <2>5. Typed'
      BY <2>3, <2>4, <1>1, <1>2 DEF Typed, TypedTable, TypedRegs
    <2>6. Frame(p, p)
      BY <2>3, <2>4, <1>1, FrameSelf DEF SameTable, SameRegs
    <2>7. PagesMoved(p)
      <3>1. /\ Apart(p) /\ Holding(p) \intersect free = {} /\ GoodTable(space[p]) /\ GoodTable(new[p])
        BY SlotFacts
      <3>2. Holding(p)' = Holding(p) \union {x}
        BY <2>3, <2>4 DEF Holding
      <3>3. /\ free' \union Holding(p)' = free \union Holding(p)
            /\ free' \intersect Holding(p)' = {}
        BY <3>1, <3>2, <2>2, <2>3
      <3>4. x \notin Holding(p)
        BY <3>1, <2>2
      <3>5. Apart(p)'
        BY <3>1, <3>4, <2>3, <2>4 DEF Apart, Holding
      <3> QED
        BY <3>1, <3>3, <3>5, <2>3, <2>4 DEF PagesMoved
    <2>8. SlotInv(p)'
      BY <2>3, <2>4, <1>1 DEF SlotInv, Booting, Top
    <2>9. RegsInv(p)'
      BY <2>3, <2>4, <1>1 DEF RegsInv, Execing, Forking
    <2>10. KeptInv(p)'
      BY <2>3, <2>4, <1>1 DEF KeptInv, Image, Execing
    <2>11. Local(p)'
      BY <2>4, <2>8, <2>9, <2>10 DEF Local, ForkInv, ExecInv, Forking
    <2> QED
      BY <2>3, <2>5, <2>6, <2>7, <2>11, Assemble
  <1>4. CASE MemGoto(p, "open") /\ UNCHANGED <<free, table, regs, wrong>>
    <2>1. /\ mem_pc' = [mem_pc EXCEPT ![p] = "open"]
          /\ free' = free /\ wrong' = wrong /\ state' = state /\ tf' = tf /\ space' = space /\ sz' = sz
          /\ va' = va /\ new' = new /\ newsz' = newsz /\ prog' = prog /\ argv' = argv /\ child' = child
          /\ before' = before
      BY <1>4 DEF MemGoto, table, regs
    <2>2. /\ mem_pc'[p] = "open" /\ mem_pc' \in [Slots -> PCs]
          /\ \A s \in Slots : s # p => mem_pc'[s] = mem_pc[s]
      BY <2>1, <1>1 DEF TypedRegs, PCs
    <2>3. Typed'
      BY <2>1, <2>2, <1>1, <1>2 DEF Typed, TypedTable, TypedRegs
    <2>4. Frame(p, p)
      BY <2>1, <2>2, <1>1, FrameSelf DEF SameTable, SameRegs
    <2>5. PagesMoved(p)
      BY <2>1, NothingMoved
    <2>6. SlotInv(p)'
      BY <2>1, <2>2, <1>1 DEF SlotInv, Booting, Top, Execing
    <2>7. RegsInv(p)'
      BY <2>1, <2>2, <1>1 DEF RegsInv, Execing, Forking
    <2>8. KeptInv(p)'
      BY <2>1, <2>2, <1>1 DEF KeptInv, Image, Execing
    <2>9. Local(p)'
      BY <2>2, <2>6, <2>7, <2>8 DEF Local, ForkInv, ExecInv, Forking
    <2> QED
      BY <2>1, <2>3, <2>4, <2>5, <2>9, <1>1, Assemble
  <1>5. CASE ExecBad(p, Make(NoTable, free), 0)
    <2>1. PICK l : l = "arg"
      OBVIOUS
    <2>2. l \in Execing /\ l # "load" /\ MemAt(p, l)
      BY <2>1, <1>1 DEF Execing, MemAt
    <2> QED
      BY <2>2, <1>2, <1>5, ExecFailsEarly
  <1> QED
    BY <1>3, <1>4, <1>5 DEF ExecArg

LEMMA ExecNoneStep ==
    ASSUME MemInv, NEW p \in Slots, ExecNone(p) PROVE MemInv'
  <1>1. PICK l : l = "open"
    OBVIOUS
  <1>2. l \in Execing /\ l # "load" /\ MemAt(p, l)
    BY <1>1 DEF Execing, ExecNone
  <1>3. ExecBad(p, Make(NoTable, free), 0) /\ kstack' = kstack
    BY DEF ExecNone
  <1> QED
    BY <1>2, <1>3, ExecFailsEarly

LEMMA ExecOpenStep ==
    ASSUME MemInv, NEW p \in Slots, NEW segments \in Programs, ExecOpen(p, segments) PROVE MemInv'
  <1>1. /\ state[p] = "RUNNABLE" /\ mem_pc[p] = "open" /\ Typed /\ TypedTable /\ TypedRegs /\ ~wrong
        /\ SlotInv(p) /\ RegsInv(p) /\ KeptInv(p) /\ tf[p] \in Pages
    BY Runs DEF ExecOpen
  <1>2. kstack' = kstack
    BY DEF ExecOpen
  <1>3. PICK k : k = proc_pagetable(free, tf[p])
    OBVIOUS
  <1>4. Founded(free, tf[p], k)
    BY <1>1, <1>3, ProcPagetableFounds DEF Typed
  <1>5. new[p] = NoTable /\ va[p] = 0 /\ newsz[p] = 0 /\ free \in SUBSET Pages
    BY <1>1 DEF RegsInv, Typed
  <1>6. Good(k) /\ ~k.bad /\ Own(k.t) \union k.fr = Own(new[p]) \union free
    BY <1>4, <1>5, NoTableGood DEF Founded
  <1>7. CASE k.ok
    <2>1. /\ Commit(k) /\ new' = [new EXCEPT ![p] = k.t] /\ prog' = [prog EXCEPT ![p] = segments]
          /\ mem_pc' = [mem_pc EXCEPT ![p] = "load"]
          /\ state' = state /\ tf' = tf /\ space' = space /\ sz' = sz
          /\ va' = va /\ newsz' = newsz /\ argv' = argv /\ child' = child /\ before' = before
      BY <1>3, <1>7 DEF ExecOpen, MemGoto, table
    <2>2. free' = k.fr /\ ~wrong' /\ wrong' \in BOOLEAN /\ k.fr \in SUBSET Pages /\ k.t \in Tables
      BY <2>1, <1>1, <1>6, Committed DEF Good, Results
    <2>3. segments \in Seq(Headers) /\ \A i \in DOMAIN segments : segments[i].filesz <= segments[i].memsz
      BY ProgramsAssumption
    <2>4. /\ new'[p] = k.t /\ prog'[p] = segments /\ mem_pc'[p] = "load" /\ va'[p] = 0 /\ newsz'[p] = 0
          /\ \A s \in Slots : s # p =>
                new'[s] = new[s] /\ prog'[s] = prog[s] /\ mem_pc'[s] = mem_pc[s]
      BY <2>1, <1>1, <1>5 DEF TypedRegs
    <2>5. TypedRegs'
      <3>1. mem_pc' \in [Slots -> PCs] /\ new' \in [Slots -> Tables]
        BY <2>1, <2>2, <1>1 DEF TypedRegs, PCs
      <3>2. prog' \in [Slots -> Seq(Headers)]
        BY <2>1, <2>3, <1>1 DEF TypedRegs
      <3> QED
        BY <3>1, <3>2, <2>1, <1>1 DEF TypedRegs
    <2>6. Typed'
      BY <2>1, <2>2, <2>5, <1>1, <1>2 DEF Typed, TypedTable
    <2>7. Frame(p, p)
      BY <2>1, <2>4, <1>1, FrameSelf DEF SameTable, SameRegs
    <2>8. PagesMoved(p)
      <3>1. Conserves(Make(new[p], free), k)
        BY <1>6 DEF Conserves, Make
      <3> QED
        BY <3>1, <2>1, <2>2, NewMoved
    <2>9. SlotInv(p)'
      BY <2>1, <2>4, <1>1 DEF SlotInv, Booting, Top, Execing
    <2>10. RegsInv(p)'
      BY <2>1, <2>4, <1>1 DEF RegsInv, Execing, Forking
    <2>11. KeptInv(p)'
      BY <2>1, <2>4, <1>1 DEF KeptInv, Image, Execing
    <2>12. ExecInv(p)'
      <3>1. High(p)' = 0
        BY <2>4, RoundZero DEF High
      <3>2. Layout(new[p], tf[p], High(p))' /\ Full(new[p], High(p))' /\ High(p)' <= TRAPFRAME
        BY <3>1, <2>1, <2>4, <1>4, <1>7, Places DEF Founded, Full, Users
      <3>3. ASSUME segments # <<>> PROVE SizeWith(p)' \in Nat
        <4>1. segments[1] \in Headers
          BY <2>3, <3>3
        <4>2. SegmentEnd(p)' = segments[1].vaddr + segments[1].memsz
          BY <2>4 DEF SegmentEnd, Segment
        <4>3. SegmentEnd(p)' \in Nat
          BY <4>1, <4>2 DEF Headers
        <4> QED
          BY <4>3, <2>4 DEF SizeWith
      <3>4. segments # <<>> => va'[p] <= PGROUNDUP(SizeWith(p)')
        BY <3>3, <2>4, RoundUp
      <3>6. va'[p] <= PGROUNDUP(newsz'[p]) + USERSTACK + 1
        BY <2>4, RoundZero, MemoryAssumption
      <3>5. \/ NPAGES <= TRAPFRAME
            \/ /\ PGROUNDUP(newsz'[p]) + USERSTACK + 1 <= TRAPFRAME
               /\ \A i \in DOMAIN segments : HeaderFits(segments[i])
        <4> SUFFICES ASSUME ~(NPAGES <= TRAPFRAME)
                     PROVE  /\ PGROUNDUP(newsz'[p]) + USERSTACK + 1 <= TRAPFRAME
                            /\ \A i \in DOMAIN segments : HeaderFits(segments[i])
          OBVIOUS
        <4>1. \A i \in DOMAIN segments : HeaderFits(segments[i])
          BY RoomAssumption DEF HeaderFits
        <4> QED
          BY <4>1, <2>4, RoundZero, RoomAssumption, Places, MemoryAssumption
      <3> QED
        BY <3>2, <3>4, <3>5, <3>6, <2>3, <2>4 DEF ExecInv
    <2>13. Local(p)'
      BY <2>4, <2>9, <2>10, <2>11, <2>12 DEF Local, ForkInv, Forking
    <2> QED
      BY <2>2, <2>6, <2>7, <2>8, <2>13, Assemble
  <1>8. CASE ~k.ok
    <2>1. PICK r, l, z : r = Make(NoTable, k.fr) /\ l = "open" /\ z = 0
      OBVIOUS
    <2>2. l \in Execing /\ MemAt(p, l) /\ ExecBad(p, r, z) /\ z \in Nat
      BY <2>1, <1>1, <1>3, <1>8 DEF Execing, MemAt, ExecOpen
    <2>3. k.t = NoTable /\ k.fr \in SUBSET Pages
      BY <1>4, <1>6, <1>8 DEF Founded, Good, Results
    <2>4. r \in Results /\ r.t = NoTable /\ r.fr = k.fr /\ ~r.bad
      BY <2>1, <2>3, NoTableGood DEF Make, Results
    <2>5. Good(r) /\ Own(r.t) \union r.fr = Own(new[p]) \union free
      BY <2>3, <2>4, <1>6, NoTableGood DEF Good
    <2> QED
      BY <2>2, <2>4, <2>5, <1>2, ExecFails
  <1> QED
    BY <1>7, <1>8

\* There are too few pages for a page table that maps every user address.
LEMMA NotFull ==
    ASSUME NEW t, GoodTable(t), NEW x \in Pages, x \notin Own(t), NPAGES <= TRAPFRAME,
           \A a \in Users : t.map[a].u = 1
    PROVE  FALSE
  <1>1. PICK f : f = [a \in Users |-> t.map[a].pa]
    OBVIOUS
  <1>2. PICK T : T = Pages \ {x}
    OBVIOUS
  <1>3. \A a \in Users : a \in VAs
    BY Places
  <1>4. \A a \in Users : f[a] = t.map[a].pa /\ f[a] # 0
    BY <1>1, <1>3 DEF GoodTable, NoPte
  <1>5. \A a \in Users : f[a] \in T
    <2> SUFFICES ASSUME NEW a \in Users PROVE f[a] \in T
      OBVIOUS
    <2>1. f[a] \in UserPages(t)
      BY <1>4, UserPagesAre
    <2> QED
      BY <2>1, <1>2 DEF GoodTable, Own
  <1>6. \A a, b \in Users : f[a] = f[b] => a = b
    BY <1>4 DEF GoodTable
  <1>7. f \in [Users -> T]
    BY <1>1, <1>5
  <1>8. f \in Injection(Users, T)
    BY <1>6, <1>7 DEF Injection, IsInjective
  <1>9. IsFiniteSet(Pages) /\ Cardinality(Pages) = NPAGES
    BY FS_Interval, MemoryAssumption DEF Pages
  <1>10. IsFiniteSet(T) /\ Cardinality(T) = NPAGES - 1
    BY <1>2, <1>9, FS_RemoveElement
  <1>11. Cardinality(Users) = TRAPFRAME
    <2>1. 0 \in Int /\ TRAPFRAME - 1 \in Int /\ ~(0 > TRAPFRAME - 1)
      BY Places
    <2> QED
      BY <2>1, FS_Interval, Places DEF Users
  <1>12. Cardinality(Users) <= Cardinality(T)
    BY <1>8, <1>10, FS_Injection
  <1> QED
    BY <1>10, <1>11, <1>12, Places

\* The facts about an exec() that is building its image.
LEMMA Loading ==
    ASSUME MemInv, NEW p \in Slots, MemAt(p, "load"), NEW h, h = High(p), NEW n, n = PGROUNDUP(newsz[p])
    PROVE  /\ state[p] = "RUNNABLE" /\ mem_pc[p] = "load" /\ Typed /\ TypedTable /\ TypedRegs /\ ~wrong
           /\ SlotInv(p) /\ RegsInv(p) /\ KeptInv(p) /\ ExecInv(p)
           /\ va[p] \in Nat /\ newsz[p] \in Nat /\ n \in Nat /\ h \in Nat
           /\ h = IF va[p] >= n THEN va[p] ELSE n
           /\ Max({n, va[p]}) = h /\ Max({va[p], n}) = h
           /\ n <= h /\ h <= TRAPFRAME
           /\ Layout(new[p], tf[p], h) /\ Full(new[p], h)
           /\ prog[p] \in Seq(Headers)
           /\ NPAGES <= TRAPFRAME => h < TRAPFRAME
  <1>1. /\ state[p] = "RUNNABLE" /\ mem_pc[p] = "load" /\ Typed /\ TypedTable /\ TypedRegs /\ ~wrong
        /\ SlotInv(p) /\ RegsInv(p) /\ KeptInv(p) /\ ExecInv(p) /\ tf[p] \in Pages
    BY Runs
  <1>2. va[p] \in Nat /\ newsz[p] \in Nat /\ prog[p] \in Seq(Headers)
    BY <1>1 DEF TypedRegs
  <1>3. n \in Nat
    BY <1>2, RoundUp
  <1>4. h = IF va[p] >= n THEN va[p] ELSE n
    BY DEF High
  <1>5. h \in Nat /\ n <= h
    BY <1>2, <1>3, <1>4
  <1>6. Max({n, va[p]}) = h
    <2>1. Max({n, va[p]}) = IF n >= va[p] THEN n ELSE va[p]
      BY <1>2, <1>3, MaxOfTwo
    <2> QED
      BY <2>1, <1>2, <1>3, <1>4
  <1>7. Max({va[p], n}) = h
    <2>1. Max({va[p], n}) = IF va[p] >= n THEN va[p] ELSE n
      BY <1>2, <1>3, MaxOfTwo
    <2> QED
      BY <2>1, <1>4
  <1>8. h <= TRAPFRAME /\ Layout(new[p], tf[p], h) /\ Full(new[p], h)
    BY <1>1 DEF ExecInv
  <1>9. ASSUME NPAGES <= TRAPFRAME PROVE h < TRAPFRAME
    <2> SUFFICES ASSUME h = TRAPFRAME PROVE FALSE
      BY <1>5, <1>8, Places
    <2>1. \A a \in Users : new[p].map[a].u = 1
      BY <1>8, Places DEF Full, Users
    <2>2. GoodTable(new[p]) /\ Apart(p)
      BY SlotFacts
    <2>3. tf[p] \notin Own(new[p])
      BY <2>2, <1>1, Places DEF Apart
    <2> QED
      BY <2>1, <2>2, <2>3, <1>1, <1>9, NotFull
  <1> QED
    BY <1>1, <1>2, <1>3, <1>4, <1>5, <1>6, <1>7, <1>8, <1>9

LEMMA ExecMapStep ==
    ASSUME MemInv, NEW p \in Slots, MemAt(p, "load"), NEW size, NEW w \in {0, 1},
           ExecMap(p, size, w), NEW h, h = High(p), h \in Users,
           prog[p] # <<>> => h + 1 <= PGROUNDUP(SizeWith(p)),
           prog[p] = <<>> => h + 1 <= PGROUNDUP(newsz[p]) + USERSTACK + 1
    PROVE  MemInv'
  <1>1. PICK n : n = PGROUNDUP(newsz[p])
    OBVIOUS
  <1>2. /\ state[p] = "RUNNABLE" /\ mem_pc[p] = "load" /\ Typed /\ TypedTable /\ TypedRegs /\ ~wrong
        /\ SlotInv(p) /\ RegsInv(p) /\ KeptInv(p) /\ ExecInv(p)
        /\ va[p] \in Nat /\ newsz[p] \in Nat /\ n \in Nat /\ h \in Nat
        /\ Max({n, va[p]}) = h /\ n <= h /\ h <= TRAPFRAME
        /\ Layout(new[p], tf[p], h) /\ Full(new[p], h)
    BY <1>1, Loading
  <1>3. PICK r, u : r = Make(new[p], free) /\ u = 1
    OBVIOUS
  <1>4. PICK k : k = MapUser(r, h, u, w)
    OBVIOUS
  <1>5. PICK undone : undone = uvmdealloc(k, h * PGSIZE, n * PGSIZE)
    OBVIOUS
  <1>6. /\ h * PGSIZE < size /\ kstack' = kstack
        /\ IF k.ok
           THEN /\ Commit(k)
                /\ new' = [new EXCEPT ![p] = k.t]
                /\ va' = [va EXCEPT ![p] = h + 1]
                /\ UNCHANGED <<table, mem_pc, newsz, prog, argv, child, before>>
           ELSE ExecBad(p, undone, newsz[p])
    BY <1>1, <1>2, <1>3, <1>4, <1>5 DEF ExecMap
  <1>7. Good(r) /\ r.t = new[p] /\ r.fr = free /\ r.ok /\ ~r.bad /\ u \in {0, 1}
    BY <1>3, SlotFacts DEF Make
  <1>8. r.t.map[h] = NoPte
    BY <1>2, <1>7 DEF Layout, Confined
  <1>9. /\ Conserves(r, k)
        /\ k.ok => SameBut(r.t, k.t, h) /\ Given(k.t.map[h], u, w)
        /\ ~k.ok => k.t.map = r.t.map
    BY <1>4, <1>7, <1>8, UserPage
  <1>10. Good(k) /\ ~k.bad /\ k.t \in Tables /\ k.fr \in SUBSET Pages
    BY <1>7, <1>9 DEF Conserves, Good, Results
  <1>11. CASE k.ok
    <2>1. /\ Commit(k) /\ new' = [new EXCEPT ![p] = k.t] /\ va' = [va EXCEPT ![p] = h + 1]
          /\ state' = state /\ tf' = tf /\ space' = space /\ sz' = sz /\ mem_pc' = mem_pc
          /\ newsz' = newsz /\ prog' = prog /\ argv' = argv /\ child' = child /\ before' = before
      BY <1>6, <1>11 DEF table
    <2>2. free' = k.fr /\ ~wrong' /\ wrong' \in BOOLEAN
      BY <2>1, <1>2, <1>10, Committed
    <2>3. /\ new'[p] = k.t /\ va'[p] = h + 1 /\ h + 1 \in Nat
          /\ new' \in [Slots -> Tables] /\ va' \in [Slots -> Nat]
          /\ \A s \in Slots : s # p => new'[s] = new[s] /\ va'[s] = va[s]
      BY <2>1, <1>2, <1>10 DEF TypedRegs
    <2>4. Typed'
      BY <2>1, <2>2, <2>3, <1>2, <1>6, <1>10 DEF Typed, TypedTable, TypedRegs
    <2>5. Frame(p, p)
      BY <2>1, <2>3, <1>2, FrameSelf DEF SameTable, SameRegs
    <2>6. PagesMoved(p)
      BY <2>1, <2>2, <1>3, <1>9, NewMoved
    <2>7. SlotInv(p)'
      BY <2>1, <1>2 DEF SlotInv, Booting, Top
    <2>8. RegsInv(p)'
      BY <2>1, <1>2 DEF RegsInv, Execing, Forking
    <2>9. KeptInv(p)'
      BY <2>1, <1>2 DEF KeptInv, Image
    <2>10. ExecInv(p)'
      <3>1. High(p)' = h + 1
        BY <2>1, <2>3, <1>1, <1>2 DEF High
      <3>2. h + 1 <= TRAPFRAME
        BY Places DEF Users
      <3>3. SameBut(new[p], k.t, h) /\ Given(k.t.map[h], u, w)
        BY <1>7, <1>9, <1>11
      <3>4. Layout(k.t, tf[p], h + 1)
        <4>1. h < h + 1 /\ h <= h + 1
          BY <1>2
        <4> QED
          BY <4>1, <3>3, <2>3, <1>2, LayoutWith
      <3>5. Full(k.t, h + 1)
        <4> SUFFICES ASSUME NEW b \in Users, b < h + 1 PROVE k.t.map[b].u = 1
          BY DEF Full
        <4>1. b \in VAs /\ b \in Nat
          BY Places DEF Users
        <4>2. CASE b = h
          BY <4>2, <3>3, <1>3 DEF Given
        <4>3. CASE b # h
          BY <4>1, <4>3, <3>3, <1>2 DEF SameBut, Full
        <4> QED
          BY <4>2, <4>3
      <3>6. SizeWith(p)' = SizeWith(p)
        BY <2>1 DEF SizeWith, SegmentEnd, Segment
      <3> QED
        BY <3>1, <3>2, <3>4, <3>5, <3>6, <2>1, <2>3, <1>2 DEF ExecInv
    <2>11. Local(p)'
      BY <2>1, <2>7, <2>8, <2>9, <2>10, <1>2 DEF Local, ForkInv, Forking
    <2> QED
      BY <2>2, <2>4, <2>5, <2>6, <2>11, Assemble
  <1>12. CASE ~k.ok
    <2>1. ExecBad(p, undone, newsz[p])
      BY <1>6, <1>12
    <2>2. PICK o, m, l : o = h * PGSIZE /\ m = n * PGSIZE /\ l = "load"
      OBVIOUS
    <2>3. o \in Nat /\ m \in Nat /\ PGROUNDUP(o) = h /\ PGROUNDUP(m) = n /\ m <= o
      <3>1. h \in Nat /\ n \in Nat /\ n <= h
        BY <1>2
      <3> QED
        BY <2>2, <3>1, RoundOrder
    <2>4. Layout(k.t, tf[p], h)
      <3>1. k.t.map = new[p].map
        BY <1>7, <1>9, <1>12
      <3> QED
        BY <3>1, <1>2, SameLayout
    <2>5. PGROUNDUP(o) <= TRAPFRAME /\ Confined(k.t, PGROUNDUP(o))
      BY <2>3, <2>4, <1>2 DEF Layout
    <2>6. undone = uvmdealloc(k, o, m)
      BY <2>2, <1>5
    <2>7. Conserves(k, undone) /\ Cut(k.t, undone.t, PGROUNDUP(m))
      BY <2>3, <2>5, <2>6, <1>10, DeallocShrinks
    <2>8. Layout(undone.t, tf[p], n)
      BY <2>3, <2>4, <2>7, CutLayout
    <2>9. Good(undone) /\ ~undone.bad /\ Own(undone.t) \union undone.fr = Own(new[p]) \union free
      BY <2>7, <1>7, <1>9, <1>10 DEF Conserves
    <2>10. Confined(undone.t, PGROUNDUP(newsz[p])) /\ PGROUNDUP(newsz[p]) <= TRAPFRAME
      BY <2>8, <1>1, <1>2, Places DEF Layout
    <2>11. l \in Execing /\ MemAt(p, l)
      BY <2>2 DEF Execing
    <2> QED
      BY <2>1, <2>9, <2>10, <2>11, <1>2, <1>6, ExecFails
  <1> QED
    BY <1>11, <1>12

LEMMA SegmentFacts ==
    ASSUME NEW p \in Slots, prog[p] \in Seq(Headers), prog[p] # <<>>, newsz[p] \in Nat
    PROVE  /\ Segment(p) = prog[p][1] /\ 1 \in DOMAIN prog[p] /\ Segment(p) \in Headers
           /\ SegmentEnd(p) \in Nat /\ Segment(p).w \in {0, 1}
           /\ SizeWith(p) \in Nat /\ SegmentEnd(p) <= SizeWith(p) /\ newsz[p] <= SizeWith(p)
           /\ PGROUNDUP(SegmentEnd(p)) <= PGROUNDUP(SizeWith(p))
           /\ PGROUNDUP(newsz[p]) <= PGROUNDUP(SizeWith(p))
  <1>1. Segment(p) = prog[p][1] /\ 1 \in DOMAIN prog[p] /\ Segment(p) \in Headers
    BY DEF Segment
  <1>2. SegmentEnd(p) \in Nat /\ Segment(p).w \in {0, 1}
    BY <1>1 DEF SegmentEnd, Headers
  <1>3. SizeWith(p) \in Nat /\ SegmentEnd(p) <= SizeWith(p) /\ newsz[p] <= SizeWith(p)
    BY <1>2 DEF SizeWith
  <1> QED
    BY <1>1, <1>2, <1>3, RoundMono

LEMMA ExecLoadStep ==
    ASSUME MemInv, NEW p \in Slots, ExecLoad(p) PROVE MemInv'
  <1>1. PICK n, h, size, w : n = PGROUNDUP(newsz[p]) /\ h = High(p) /\ size = SegmentEnd(p) /\ w = Segment(p).w
    OBVIOUS
  <1>2. MemAt(p, "load") /\ prog[p] # <<>> /\ ExecMap(p, size, w)
    BY <1>1 DEF ExecLoad
  <1>3. /\ mem_pc[p] = "load" /\ ExecInv(p) /\ newsz[p] \in Nat /\ n \in Nat /\ h \in Nat
        /\ Max({n, va[p]}) = h /\ prog[p] \in Seq(Headers) /\ h <= TRAPFRAME
        /\ NPAGES <= TRAPFRAME => h < TRAPFRAME
    BY <1>1, <1>2, Loading
  <1>4. /\ Segment(p) = prog[p][1] /\ 1 \in DOMAIN prog[p] /\ Segment(p) \in Headers
        /\ size \in Nat /\ w \in {0, 1} /\ SizeWith(p) \in Nat
        /\ PGROUNDUP(size) <= PGROUNDUP(SizeWith(p))
    BY <1>1, <1>2, <1>3, SegmentFacts
  <1>5. h * PGSIZE < size
    BY <1>1, <1>2, <1>3 DEF ExecMap
  <1>6. h < PGROUNDUP(size) /\ PGROUNDUP(size) \in Nat /\ PGROUNDUP(SizeWith(p)) \in Nat
    BY <1>3, <1>4, <1>5, Gauge, RoundUp
  <1>7. h \in Users
    <2>1. CASE NPAGES <= TRAPFRAME
      BY <2>1, <1>3, Places DEF Users
    <2>2. CASE ~(NPAGES <= TRAPFRAME)
      <3>1. HeaderFits(prog[p][1])
        BY <2>2, <1>3, <1>4 DEF ExecInv
      <3>2. PGROUNDUP(size) + USERSTACK + 1 <= TRAPFRAME
        BY <3>1, <1>1, <1>4 DEF HeaderFits, SegmentEnd
      <3> QED
        BY <3>2, <1>3, <1>6, Places, MemoryAssumption DEF Users
    <2> QED
      BY <2>1, <2>2
  <1>8. h + 1 <= PGROUNDUP(SizeWith(p))
    BY <1>3, <1>4, <1>6
  <1> QED
    BY <1>1, <1>2, <1>4, <1>7, <1>8, ExecMapStep

\* The number of pages up to the end of the stack.
LEMMA StackPages ==
    ASSUME NEW p \in Slots, NEW n \in Nat, n = PGROUNDUP(newsz[p])
    PROVE  StackTop(p) \in Nat /\ PGROUNDUP(StackTop(p)) = n + USERSTACK + 1
  <1>1. n + USERSTACK + 1 \in Nat
    BY MemoryAssumption
  <1> QED
    BY <1>1, RoundExact DEF StackTop

LEMMA ExecStackStep ==
    ASSUME MemInv, NEW p \in Slots, ExecStack(p) PROVE MemInv'
  <1>1. PICK n, h, size, w : n = PGROUNDUP(newsz[p]) /\ h = High(p) /\ size = StackTop(p) /\ w = 1
    OBVIOUS
  <1>2. MemAt(p, "load") /\ prog[p] = <<>> /\ ExecMap(p, size, w) /\ w \in {0, 1}
    BY <1>1 DEF ExecStack
  <1>3. /\ mem_pc[p] = "load" /\ ExecInv(p) /\ n \in Nat /\ h \in Nat
        /\ Max({n, va[p]}) = h /\ h <= TRAPFRAME
        /\ NPAGES <= TRAPFRAME => h < TRAPFRAME
    BY <1>1, <1>2, Loading
  <1>4. size \in Nat /\ PGROUNDUP(size) = n + USERSTACK + 1
    BY <1>1, <1>3, StackPages
  <1>5. h * PGSIZE < size
    BY <1>1, <1>2, <1>3 DEF ExecMap
  <1>6. h < n + USERSTACK + 1
    BY <1>3, <1>4, <1>5, Gauge
  <1>7. h \in Users
    <2>1. CASE NPAGES <= TRAPFRAME
      BY <2>1, <1>3, Places DEF Users
    <2>2. CASE ~(NPAGES <= TRAPFRAME)
      <3>1. n + USERSTACK + 1 <= TRAPFRAME
        BY <2>2, <1>1, <1>3 DEF ExecInv
      <3> QED
        BY <3>1, <1>3, <1>6, Places, MemoryAssumption DEF Users
    <2> QED
      BY <2>1, <2>2
  <1>8. h + 1 <= PGROUNDUP(newsz[p]) + USERSTACK + 1
    BY <1>1, <1>3, <1>6, MemoryAssumption
  <1> QED
    BY <1>1, <1>2, <1>7, <1>8, ExecMapStep

LEMMA ExecBadHeaderStep ==
    ASSUME MemInv, NEW p \in Slots, ExecBadHeader(p) PROVE MemInv'
  <1>1. PICK n, h, r, l : n = PGROUNDUP(newsz[p]) /\ h = High(p) /\ r = Make(new[p], free) /\ l = "load"
    OBVIOUS
  <1>2. MemAt(p, "load") /\ va[p] <= n /\ ExecBad(p, r, newsz[p]) /\ kstack' = kstack
    BY <1>1 DEF ExecBadHeader
  <1>3. /\ newsz[p] \in Nat /\ va[p] \in Nat /\ n \in Nat /\ h = (IF va[p] >= n THEN va[p] ELSE n)
        /\ h <= TRAPFRAME /\ Layout(new[p], tf[p], h)
    BY <1>1, <1>2, Loading
  <1>4. h = n
    BY <1>2, <1>3
  <1>5. Good(r) /\ r.t = new[p] /\ r.fr = free /\ ~r.bad
    BY <1>1, SlotFacts DEF Make
  <1>6. Confined(r.t, PGROUNDUP(newsz[p])) /\ PGROUNDUP(newsz[p]) <= TRAPFRAME
    BY <1>1, <1>3, <1>4, <1>5 DEF Layout
  <1>7. l \in Execing /\ MemAt(p, l)
    BY <1>1, <1>2 DEF Execing
  <1> QED
    BY <1>2, <1>3, <1>5, <1>6, <1>7, ExecFails

LEMMA ExecLoadedStep ==
    ASSUME MemInv, NEW p \in Slots, ExecLoaded(p) PROVE MemInv'
  <1>1. PICK n, h, size, seg : /\ n = PGROUNDUP(newsz[p]) /\ h = High(p) /\ size = SizeWith(p)
                               /\ seg = SegmentEnd(p)
    OBVIOUS
  <1>2. MemAt(p, "load") /\ prog[p] # <<>> /\ ExecMapped(p, seg) /\ kstack' = kstack
    BY <1>1 DEF ExecLoaded
  <1>3. /\ state[p] = "RUNNABLE" /\ mem_pc[p] = "load" /\ Typed /\ TypedTable /\ TypedRegs /\ ~wrong
        /\ SlotInv(p) /\ RegsInv(p) /\ KeptInv(p) /\ ExecInv(p)
        /\ va[p] \in Nat /\ newsz[p] \in Nat /\ n \in Nat /\ h \in Nat
        /\ h = IF va[p] >= n THEN va[p] ELSE n
        /\ Max({va[p], n}) = h /\ n <= h /\ h <= TRAPFRAME
        /\ Layout(new[p], tf[p], h) /\ Full(new[p], h)
        /\ prog[p] \in Seq(Headers)
    BY <1>1, <1>2, Loading
  <1>4. /\ Segment(p) = prog[p][1] /\ 1 \in DOMAIN prog[p] /\ Segment(p) \in Headers
        /\ seg \in Nat /\ size \in Nat /\ seg <= size /\ newsz[p] <= size
        /\ PGROUNDUP(seg) <= PGROUNDUP(size) /\ n <= PGROUNDUP(size)
    BY <1>1, <1>2, <1>3, SegmentFacts
  <1>5. size = Max({seg, newsz[p]})
    <2>1. Max({seg, newsz[p]}) = IF seg >= newsz[p] THEN seg ELSE newsz[p]
      BY <1>3, <1>4, MaxOfTwo
    <2> QED
      BY <2>1, <1>1 DEF SizeWith
  <1>6. ~(h < PGROUNDUP(seg)) /\ PGROUNDUP(seg) \in Nat /\ PGROUNDUP(size) \in Nat
    <2>1. h * PGSIZE >= seg
      BY <1>1, <1>2, <1>3 DEF ExecMapped
    <2>2. h * PGSIZE \in Nat
      BY <1>3, RoundExact
    <2>3. h \in Int /\ seg \in Nat
      BY <1>3, <1>4
    <2>4. h < PGROUNDUP(seg) <=> h * PGSIZE < seg
      BY <2>3, Gauge
    <2>5. ~(h < PGROUNDUP(seg))
      BY <2>1, <2>2, <2>3, <2>4
    <2> QED
      BY <2>5, <1>4, RoundUp
  <1>7. h = PGROUNDUP(size)
    <2>1. size = seg \/ size = newsz[p]
      BY <1>1 DEF SizeWith
    <2>2. PGROUNDUP(size) <= h
      BY <2>1, <1>1, <1>3, <1>4, <1>6
    <2>3. va[p] <= PGROUNDUP(size)
      BY <1>1, <1>2, <1>3 DEF ExecInv
    <2> QED
      BY <2>2, <2>3, <1>3, <1>4, <1>6
  <1>8. CASE /\ newsz' = [newsz EXCEPT ![p] = size]
             /\ prog' = [prog EXCEPT ![p] = Tail(@)]
             /\ wrong' = (wrong \/ ~loadseg(p))
             /\ UNCHANGED <<free, table, mem_pc, va, new, argv, child, before>>
    <2>1. /\ newsz' = [newsz EXCEPT ![p] = size] /\ prog' = [prog EXCEPT ![p] = Tail(prog[p])]
          /\ free' = free /\ state' = state /\ tf' = tf /\ space' = space /\ sz' = sz /\ mem_pc' = mem_pc
          /\ va' = va /\ new' = new /\ argv' = argv /\ child' = child /\ before' = before
      BY <1>8 DEF table
    <2>2. loadseg(p)
      <3>1. PICK s : s = Segment(p)
        OBVIOUS
      <3>2. /\ s \in Headers /\ s.filesz <= s.memsz
        BY <3>1, <1>2, <1>3, <1>4 DEF ExecInv
      <3>3. /\ s.vaddr \in Nat /\ s.vaddr + s.filesz \in Nat /\ s.vaddr + s.filesz <= seg
        BY <3>1, <3>2, <1>1 DEF Headers, SegmentEnd
      <3>4. /\ PGROUNDUP(s.vaddr + s.filesz) <= PGROUNDUP(seg) /\ PGROUNDUP(s.vaddr + s.filesz) \in Nat
        BY <3>3, <1>4, RoundMono, RoundUp
      <3>5. s.vaddr \div PGSIZE \in Nat
        <4>1. s.vaddr < s.vaddr + 1 /\ s.vaddr + 1 \in Nat
          BY <3>3
        <4> QED
          BY <4>1, <3>3, PageBelow
      <3>6. ASSUME NEW a \in (s.vaddr \div PGSIZE)..(PGROUNDUP(s.vaddr + s.filesz) - 1)
            PROVE  new[p].map[a].u = 1
        <4>1. a \in Nat /\ a < h
          BY <3>4, <3>5, <3>6, <1>3, <1>4, <1>6, <1>7
        <4>2. a \in Users
          BY <4>1, <1>3, Places DEF Users
        <4> QED
          BY <4>1, <4>2, <1>3 DEF Full
      <3> QED
        BY <3>1, <3>6 DEF loadseg
    <2>3. ~wrong' /\ wrong' \in BOOLEAN
      BY <2>2, <1>3, <1>8
    <2>4. Tail(prog[p]) \in Seq(Headers)
      BY <1>2, <1>3
    <2>5. /\ newsz'[p] = size /\ prog'[p] = Tail(prog[p])
          /\ \A s \in Slots : s # p => newsz'[s] = newsz[s] /\ prog'[s] = prog[s]
      BY <2>1, <1>3 DEF TypedRegs
    <2>6. TypedRegs'
      <3>1. newsz' \in [Slots -> Nat]
        BY <2>1, <1>3, <1>4 DEF TypedRegs
      <3>2. prog' \in [Slots -> Seq(Headers)]
        BY <2>1, <2>4, <1>3 DEF TypedRegs
      <3> QED
        BY <3>1, <3>2, <2>1, <1>3 DEF TypedRegs
    <2>7. Typed'
      BY <2>1, <2>3, <2>6, <1>2, <1>3 DEF Typed, TypedTable
    <2>8. Frame(p, p)
      BY <2>1, <2>5, <1>3, FrameSelf DEF SameTable, SameRegs
    <2>9. PagesMoved(p)
      BY <2>1, NothingMoved
    <2>10. SlotInv(p)'
      BY <2>1, <1>3 DEF SlotInv, Booting, Top
    <2>11. RegsInv(p)'
      BY <2>1, <1>3 DEF RegsInv, Execing, Forking
    <2>12. KeptInv(p)'
      BY <2>1, <1>3 DEF KeptInv, Image
    <2>13. \A i \in DOMAIN Tail(prog[p]) : \E j \in DOMAIN prog[p] : Tail(prog[p])[i] = prog[p][j]
      <3> SUFFICES ASSUME NEW i \in DOMAIN Tail(prog[p])
                   PROVE  i + 1 \in DOMAIN prog[p] /\ Tail(prog[p])[i] = prog[p][i + 1]
        OBVIOUS
      <3> QED
        BY <1>2, <1>3
    <2>14. ExecInv(p)'
      <3>1. High(p)' = h
        BY <2>1, <2>5, <1>3, <1>6, <1>7 DEF High
      <3>2. prog'[p] # <<>> => va'[p] <= PGROUNDUP(SizeWith(p)')
        <4> SUFFICES ASSUME prog'[p] # <<>> PROVE va[p] <= PGROUNDUP(SizeWith(p)')
          BY <2>1
        <4>1. prog'[p] \in Seq(Headers) /\ newsz'[p] \in Nat
          BY <2>4, <2>5, <1>4
        <4>2. PICK e : e = SegmentEnd(p)'
          OBVIOUS
        <4>3. e \in Nat
          <5>1. prog'[p][1] \in Headers
            BY <4>1
          <5> QED
            BY <5>1, <4>2 DEF SegmentEnd, Segment, Headers
        <4>4. PICK f : f = SizeWith(p)'
          OBVIOUS
        <4>5. f \in Nat /\ size <= f
          BY <4>2, <4>3, <4>4, <2>5, <1>4 DEF SizeWith
        <4>6. PGROUNDUP(size) <= PGROUNDUP(f) /\ PGROUNDUP(f) \in Nat
          BY <4>5, <1>4, RoundMono, RoundUp
        <4> QED
          BY <4>4, <4>6, <1>3, <1>7
      <3>3. va'[p] <= PGROUNDUP(newsz'[p]) + USERSTACK + 1
        BY <2>1, <2>5, <1>3, <1>6, <1>7, MemoryAssumption
      <3>4. \A i \in DOMAIN prog'[p] : prog'[p][i].filesz <= prog'[p][i].memsz
        BY <2>5, <2>13, <1>3 DEF ExecInv
      <3>5. \/ NPAGES <= TRAPFRAME
            \/ /\ PGROUNDUP(newsz'[p]) + USERSTACK + 1 <= TRAPFRAME
               /\ \A i \in DOMAIN prog'[p] : HeaderFits(prog'[p][i])
        <4> SUFFICES ASSUME ~(NPAGES <= TRAPFRAME)
                     PROVE  /\ PGROUNDUP(newsz'[p]) + USERSTACK + 1 <= TRAPFRAME
                            /\ \A i \in DOMAIN prog'[p] : HeaderFits(prog'[p][i])
          OBVIOUS
        <4>1. /\ n + USERSTACK + 1 <= TRAPFRAME
              /\ \A i \in DOMAIN prog[p] : HeaderFits(prog[p][i])
          BY <1>1, <1>3 DEF ExecInv
        <4>2. PGROUNDUP(seg) + USERSTACK + 1 <= TRAPFRAME
          BY <4>1, <1>1, <1>4 DEF HeaderFits, SegmentEnd
        <4>3. size = seg \/ size = newsz[p]
          BY <1>1 DEF SizeWith
        <4> QED
          BY <4>1, <4>2, <4>3, <2>5, <2>13, <1>1
      <3> QED
        BY <3>1, <3>2, <3>3, <3>4, <3>5, <2>1, <1>3 DEF ExecInv
    <2>15. Local(p)'
      BY <2>1, <2>10, <2>11, <2>12, <2>14, <1>3 DEF Local, ForkInv, Forking
    <2> QED
      BY <2>3, <2>7, <2>8, <2>9, <2>15, Assemble
  <1>9. CASE ExecBad(p, Make(new[p], free), size)
    <2>1. PICK r, l : r = Make(new[p], free) /\ l = "load"
      OBVIOUS
    <2>2. Good(r) /\ r.t = new[p] /\ r.fr = free /\ ~r.bad
      BY <2>1, SlotFacts DEF Make
    <2>3. Confined(r.t, PGROUNDUP(size)) /\ PGROUNDUP(size) <= TRAPFRAME
      BY <2>2, <1>3, <1>7 DEF Layout
    <2>4. l \in Execing /\ MemAt(p, l) /\ ExecBad(p, r, size)
      BY <2>1, <1>2, <1>9 DEF Execing
    <2> QED
      BY <2>2, <2>3, <2>4, <1>2, <1>4, ExecFails
  <1> QED
    BY <1>1, <1>5, <1>8, <1>9 DEF ExecLoaded

\* uvmclear()
LEMMA ClearedUser ==
    ASSUME NEW t, GoodTable(t), NEW a \in Users, t.map[a].pa # 0,
           NEW s, s = [t EXCEPT !.map[a].u = 0]
    PROVE  GoodTable(s) /\ Own(s) = Own(t) /\ SameBut(t, s, a)
  <1>1. t \in Tables /\ t.map \in [VAs -> Ptes] /\ a \in VAs
    BY Places DEF GoodTable, Tables
  <1>2. PICK pte : pte = [t.map[a] EXCEPT !.u = 0]
    OBVIOUS
  <1>3. pte \in Ptes /\ pte.pa = t.map[a].pa
    BY <1>1, <1>2 DEF Ptes
  <1>4. PICK M : M = [t.map EXCEPT ![a] = pte]
    OBVIOUS
  <1>5. M \in [VAs -> Ptes] /\ M[a] = pte /\ \A b \in VAs : b # a => M[b] = t.map[b]
    BY <1>1, <1>3, <1>4
  <1>6. s = [t EXCEPT !.map = M]
    BY <1>1, <1>2, <1>4 DEF Tables
  <1>7. s \in Tables /\ s.map = M /\ TablePages(s) = TablePages(t)
    <2>1. s \in Tables /\ s.map = M /\ s.root = t.root /\ s.dir = t.dir
      BY <1>1, <1>5, <1>6 DEF Tables
    <2> QED
      BY <2>1 DEF TablePages
  <1>8. \A b \in VAs : s.map[b].pa = t.map[b].pa
    BY <1>3, <1>5, <1>7
  <1>9. UserPages(s) = UserPages(t)
    <2>1. \A b \in Users : s.map[b].pa = t.map[b].pa
      BY <1>8, Places
    <2> QED
      BY <2>1 DEF UserPages, Users
  <1>10. \A b \in VAs : s.map[b].pa = 0 => s.map[b] = NoPte
    BY <1>3, <1>5, <1>7 DEF GoodTable
  <1>11. \A b, c \in Users : s.map[b].pa = s.map[c].pa /\ b # c => s.map[b].pa = 0
    BY <1>8, Places DEF GoodTable
  <1> QED
    BY <1>5, <1>7, <1>9, <1>10, <1>11 DEF GoodTable, Own, SameBut

LEMMA ExecCommitStep ==
    ASSUME MemInv, NEW p \in Slots, ExecCommit(p) PROVE MemInv'
  <1>1. PICK n, h, top : n = PGROUNDUP(newsz[p]) /\ h = High(p) /\ top = StackTop(p)
    OBVIOUS
  <1>2. MemAt(p, "load") /\ prog[p] = <<>> /\ ExecMapped(p, top) /\ kstack' = kstack
    BY <1>1 DEF ExecCommit
  <1>3. /\ state[p] = "RUNNABLE" /\ mem_pc[p] = "load" /\ Typed /\ TypedTable /\ TypedRegs /\ ~wrong
        /\ SlotInv(p) /\ RegsInv(p) /\ KeptInv(p) /\ ExecInv(p)
        /\ va[p] \in Nat /\ newsz[p] \in Nat /\ n \in Nat /\ h \in Nat
        /\ h = IF va[p] >= n THEN va[p] ELSE n
        /\ Max({va[p], n}) = h /\ n <= h /\ h <= TRAPFRAME
        /\ Layout(new[p], tf[p], h) /\ Full(new[p], h)
    BY <1>1, <1>2, Loading
  <1>4. top \in Nat /\ PGROUNDUP(top) = n + USERSTACK + 1
    BY <1>1, <1>3, StackPages
  <1>5. h = PGROUNDUP(top) /\ n < h
    <2>1. h * PGSIZE >= top
      BY <1>1, <1>2, <1>3 DEF ExecMapped
    <2>2. h * PGSIZE \in Nat
      BY <1>3, RoundExact
    <2>3. ~(h < PGROUNDUP(top))
      BY <2>1, <2>2, <1>3, <1>4, Gauge
    <2>4. va[p] <= n + USERSTACK + 1
      BY <1>1, <1>2, <1>3 DEF ExecInv
    <2> QED
      BY <2>3, <2>4, <1>3, <1>4, MemoryAssumption
  <1>6. n \in Users /\ new[p].map[n].u = 1
    BY <1>3, <1>5, Places DEF Users, Full
  <1>7. /\ GoodTable(new[p]) /\ GoodTable(space[p]) /\ Apart(p) /\ Holding(p) \subseteq Pages
        /\ Holding(p) \intersect free = {} /\ free \in SUBSET Pages
        /\ Good(Make(space[p], free)) /\ Good(Make(new[p], free))
    BY SlotFacts
  <1>8. new[p].map[n] # NoPte /\ new[p].map[n].pa # 0
    BY <1>6, <1>7, Places DEF GoodTable, NoPte
  <1>9. PICK image : image = [new[p] EXCEPT !.map[n].u = 0]
    OBVIOUS
  <1>10. GoodTable(image) /\ Own(image) = Own(new[p]) /\ SameBut(new[p], image, n)
    BY <1>6, <1>7, <1>8, <1>9, ClearedUser
  <1>11. Layout(image, tf[p], h)
    <2>1. h <= h
      BY <1>3
    <2> QED
      BY <2>1, <1>3, <1>5, <1>6, <1>10, LayoutWith
  <1>12. PICK old : old = proc_freepagetable(Make(space[p], free), sz[p])
    OBVIOUS
  <1>13. PICK bad : bad = [old EXCEPT !.bad = @ \/ new[p].map[n] = NoPte]
    OBVIOUS
  <1>14. CASE /\ Commit(kfree(bad, argv[p]))
              /\ space' = [space EXCEPT ![p] = image]
              /\ sz' = [sz EXCEPT ![p] = top]
              /\ End(p, "user")
              /\ UNCHANGED <<state, tf>>
    <2>1. PICK r : r = Make(space[p], free)
      OBVIOUS
    <2>2. /\ Good(r) /\ r.t = space[p] /\ r.fr = free /\ ~r.bad
          /\ sz[p] \in Nat /\ PGROUNDUP(sz[p]) <= TRAPFRAME
      BY <2>1, <1>3, <1>7 DEF Make, SlotInv, TypedTable
    <2>3. Confined(r.t, PGROUNDUP(sz[p]))
      <3>1. Booting(p) \/ Layout(space[p], tf[p], PGROUNDUP(sz[p]))
        BY <1>3 DEF SlotInv, Top
      <3>2. CASE Booting(p)
        BY <3>2, <2>2, NoTableGood, Places DEF Booting, Confined
      <3>3. CASE Layout(space[p], tf[p], PGROUNDUP(sz[p]))
        BY <3>3, <2>2 DEF Layout
      <3> QED
        BY <3>1, <3>2, <3>3
    <2>4. Emptied(r, old)
      BY <2>1, <2>2, <2>3, <1>12, ProcFreepagetableFrees
    <2>5. Good(bad) /\ bad.t = NoTable /\ bad.fr = free \union Own(space[p]) /\ ~bad.bad
      <3>1. old \in Results /\ old.t = NoTable /\ old.fr = free \union Own(space[p]) /\ ~old.bad
        BY <2>2, <2>4 DEF Emptied, Good
      <3>2. bad \in Results /\ bad.t = old.t /\ bad.fr = old.fr /\ ~bad.bad
        BY <3>1, <1>8, <1>13 DEF Results
      <3> QED
        BY <3>1, <3>2, NoTableGood DEF Good
    <2>6. PICK A : A = {tf[p]} \ {0}
      OBVIOUS
    <2>7. /\ Holding(p) = A \union Own(space[p]) \union Own(new[p]) \union argv[p]
          /\ A \intersect Own(space[p]) = {} /\ A \intersect Own(new[p]) = {} /\ A \intersect argv[p] = {}
          /\ Own(space[p]) \intersect Own(new[p]) = {} /\ Own(space[p]) \intersect argv[p] = {}
          /\ Own(new[p]) \intersect argv[p] = {}
      BY <2>6, <1>7 DEF Holding, Apart
    <2>8. argv[p] \in SUBSET Pages /\ argv[p] \intersect bad.fr = {} /\ argv[p] \intersect Own(bad.t) = {}
      BY <2>5, <2>7, <1>7, NoTableGood
    <2>9. PICK m : m = kfree(bad, argv[p])
      OBVIOUS
    <2>10. Good(m) /\ m.fr = bad.fr \union argv[p] /\ (m.bad <=> bad.bad)
      BY <2>5, <2>8, <2>9, Freed
    <2>11. free' = free \union Own(space[p]) \union argv[p] /\ ~wrong' /\ wrong' \in BOOLEAN
      BY <2>5, <2>9, <2>10, <1>3, <1>14, Committed
    <2>12. /\ Blank(p, "user") /\ TypedRegs' /\ RegsInv(p)'
           /\ \A s \in Slots : s # p => SameRegs(s)
      BY <1>3, <1>14, Ended
    <2>13. /\ space'[p] = image /\ sz'[p] = top /\ space' \in [Slots -> Tables] /\ sz' \in [Slots -> Nat]
           /\ \A s \in Slots : s # p => space'[s] = space[s] /\ sz'[s] = sz[s]
      BY <1>3, <1>4, <1>10, <1>14 DEF TypedTable, GoodTable
    <2>14. Typed'
      <3>1. free' \in SUBSET Pages
        BY <2>7, <2>11, <1>7
      <3> QED
        BY <3>1, <2>11, <2>12, <2>13, <1>2, <1>3, <1>14 DEF Typed, TypedTable
    <2>15. Frame(p, p)
      BY <2>12, <2>13, <1>3, <1>14, FrameSelf DEF SameTable, Blank
    <2>16. PagesMoved(p)
      <3>1. new'[p] = NoTable /\ argv'[p] = {}
        BY <2>12 DEF Blank
      <3>2. Holding(p)' = A \union Own(new[p])
        BY <3>1, <2>6, <2>13, <1>10, <1>14, NoTableGood DEF Holding
      <3>3. Apart(p)'
        BY <3>1, <2>6, <2>7, <2>13, <1>10, <1>14, NoTableGood DEF Apart
      <3>4. free' \union Holding(p)' = free \union Holding(p)
        BY <3>2, <2>7, <2>11
      <3>5. free' \intersect Holding(p)' = {}
        BY <3>2, <2>7, <2>11, <1>7
      <3> QED
        BY <3>1, <3>3, <3>4, <3>5, <2>12, <2>13, <1>10, <1>14, NoTableGood DEF PagesMoved, SameRegs
    <2>17. SlotInv(p)'
      BY <2>12, <2>13, <1>3, <1>5, <1>11, <1>14 DEF SlotInv, Top, Blank
    <2>18. Local(p)'
      BY <2>12, <2>17, LocalUser DEF Blank
    <2> QED
      BY <2>11, <2>14, <2>15, <2>16, <2>18, Assemble
  <1>15. CASE ExecBad(p, Make(image, free), top)
    <2>1. PICK r, l : r = Make(image, free) /\ l = "load"
      OBVIOUS
    <2>2. r \in Results /\ r.t = image /\ r.fr = free /\ ~r.bad
      BY <2>1, <1>7, <1>10 DEF Make, Results, GoodTable
    <2>3. Own(new[p]) \intersect free = {}
      BY <1>7 DEF Holding
    <2>4. Good(r) /\ Own(r.t) \union r.fr = Own(new[p]) \union free
      BY <2>2, <2>3, <1>10 DEF Good
    <2>5. Confined(r.t, PGROUNDUP(top)) /\ PGROUNDUP(top) <= TRAPFRAME
      BY <2>2, <1>3, <1>5, <1>11 DEF Layout
    <2>6. l \in Execing /\ MemAt(p, l) /\ ExecBad(p, r, top)
      BY <2>1, <1>2, <1>15 DEF Execing
    <2> QED
      BY <2>2, <2>4, <2>5, <2>6, <1>2, <1>4, ExecFails
  <1> QED
    BY <1>1, <1>9, <1>12, <1>13, <1>14, <1>15 DEF ExecCommit

LEMMA MemInitInv == MemInit => MemInv
  <1> SUFFICES ASSUME MemInit PROVE MemInv
    OBVIOUS
  <1>1. PICK avail : avail = Pages \ 1..NPROC
    OBVIOUS
  <1>2. PICK x : x = kalloc(avail)
    OBVIOUS
  <1>3. PICK fr : fr = avail \ {x}
    OBVIOUS
  <1>4. PICK k : k = proc_pagetable(fr, x)
    OBVIOUS
  <1>5. /\ kstack = proc_mapstacks
        /\ tf = [p \in Slots |-> IF p = 1 THEN x ELSE 0]
        /\ free = k.fr /\ wrong = k.bad
        /\ space = [p \in Slots |-> IF p = 1 THEN k.t ELSE NoTable]
        /\ state = [p \in Slots |-> IF p = 1 THEN "RUNNABLE" ELSE "UNUSED"]
        /\ sz = [p \in Slots |-> 0]
        /\ mem_pc = [p \in Slots |-> IF p = 1 THEN "open" ELSE "user"]
        /\ va = [p \in Slots |-> 0] /\ newsz = [p \in Slots |-> 0]
        /\ new = [p \in Slots |-> NoTable]
        /\ prog = [p \in Slots |-> <<>>]
        /\ argv = [p \in Slots |-> {}]
        /\ child = [p \in Slots |-> 0]
        /\ before = [p \in Slots |-> IF p = 1 THEN Image(1) ELSE NoImage]
    BY <1>1, <1>2, <1>3, <1>4 DEF MemInit
  <1>6. x \in avail /\ x \in Pages /\ x # 0 /\ x \notin Slots /\ x \notin fr /\ fr \in SUBSET Pages
    <2>1. NPROC + 1 \in avail
      BY <1>1, MemoryAssumption DEF Pages
    <2> QED
      BY <2>1, <1>1, <1>2, <1>3, KallocIn, Places DEF Slots
  <1>7. Founded(fr, x, k)
    BY <1>4, <1>6, ProcPagetableFounds
  <1>8. /\ Good(k) /\ ~k.bad /\ k.bad \in BOOLEAN /\ Own(k.t) \union k.fr = fr /\ Own(k.t) \intersect k.fr = {}
        /\ k.t \in Tables /\ GoodTable(k.t) /\ k.fr \in SUBSET Pages
        /\ k.ok \/ k.t = NoTable
    BY <1>7 DEF Founded, Good, Results
  <1>9. Zero
    BY ZeroIs
  <1>10. \A p \in Slots :
          /\ tf[p] = (IF p = 1 THEN x ELSE 0) /\ space[p] = (IF p = 1 THEN k.t ELSE NoTable)
          /\ state[p] = (IF p = 1 THEN "RUNNABLE" ELSE "UNUSED") /\ sz[p] = 0
          /\ mem_pc[p] = (IF p = 1 THEN "open" ELSE "user") /\ va[p] = 0 /\ newsz[p] = 0
          /\ new[p] = NoTable /\ prog[p] = <<>> /\ argv[p] = {} /\ child[p] = 0
          /\ before[p] = (IF p = 1 THEN Image(1) ELSE NoImage)
    BY <1>5
  <1>11. Typed
    <2>1. TypedTable
      BY <1>5, <1>6, <1>8, <1>9, NoTableGood DEF TypedTable, States, Zero
    <2>2. TypedRegs
      <3>1. <<>> \in Seq(Headers)
        OBVIOUS
      <3>2. prog \in [Slots -> Seq(Headers)]
        BY <3>1, <1>5
      <3>3. before = [p \in Slots |-> before[p]]
        BY <1>5
      <3>4. /\ mem_pc \in [Slots -> PCs] /\ va \in [Slots -> Nat] /\ newsz \in [Slots -> Nat]
            /\ child \in [Slots -> 0..NPROC]
        BY <1>5, <1>9 DEF PCs, Zero
      <3>5. new \in [Slots -> Tables] /\ argv \in [Slots -> SUBSET Pages]
        BY <1>5, NoTableGood
      <3> QED
        BY <3>2, <3>3, <3>4, <3>5 DEF TypedRegs
    <2> QED
      BY <2>1, <2>2, <1>5, <1>8 DEF Typed
  <1>12. /\ Holding(1) = {x} \union Own(k.t)
         /\ \A p \in Slots : p # 1 => Holding(p) = {}
    BY <1>6, <1>9, <1>10, NoTableGood DEF Holding, Zero
  <1>13. Kstacks = Slots
    BY <1>5 DEF Kstacks, proc_mapstacks
  <1>14. Partition
    <2>1. \A y : y \in Pages <=> y = x \/ y \in fr \/ y \in Slots
      BY <1>1, <1>3, <1>6, MemoryAssumption DEF Slots, Pages
    <2>2. \A y \in fr : y \notin Slots /\ y # x
      BY <1>1, <1>3 DEF Slots
    <2>3. \A y : y \in fr <=> y \in Own(k.t) \/ y \in k.fr
      BY <1>8
    <2>4. \A y \in Pages : y \in free \/ y \in Kstacks \/ \E p \in Slots : y \in Holding(p)
      BY <2>1, <2>3, <1>5, <1>9, <1>12, <1>13 DEF Zero
    <2>5. Kstacks \subseteq Pages /\ Kstacks \intersect free = {}
      BY <2>1, <2>2, <2>3, <1>5, <1>13
    <2>6. ASSUME NEW p \in Slots
          PROVE  /\ Holding(p) \subseteq Pages /\ Apart(p)
                 /\ Holding(p) \intersect free = {} /\ Holding(p) \intersect Kstacks = {}
      <3>1. CASE p = 1
        <4>1. Holding(p) \subseteq Pages
          BY <3>1, <2>1, <2>3, <1>12
        <4>2. Holding(p) \intersect free = {}
          BY <3>1, <2>2, <2>3, <1>5, <1>8, <1>12
        <4>3. Holding(p) \intersect Kstacks = {}
          BY <3>1, <2>2, <2>3, <1>6, <1>12, <1>13
        <4>4. Apart(p)
          BY <3>1, <2>2, <2>3, <1>6, <1>9, <1>10, NoTableGood DEF Apart, Zero
        <4> QED
          BY <4>1, <4>2, <4>3, <4>4
      <3>2. CASE p # 1
        BY <3>2, <1>10, <1>12, NoTableGood DEF Apart
      <3> QED
        BY <3>1, <3>2
    <2>7. \A p, q \in Slots : p # q => Holding(p) \intersect Holding(q) = {}
      BY <1>12
    <2> QED
      BY <2>4, <2>5, <2>6, <2>7 DEF Partition
  <1>15. TablesGood
    BY <1>8, <1>10, NoTableGood DEF TablesGood
  <1>16. ASSUME NEW p \in Slots PROVE Local(p)
    <2>1. SlotInv(p)
      <3>1. CASE p = 1
        <4>1. k.ok => Layout(space[p], tf[p], 0)
          BY <3>1, <1>7, <1>10 DEF Founded
        <4>2. ~k.ok => Booting(p)
          BY <3>1, <1>8, <1>10 DEF Booting
        <4> QED
          BY <3>1, <4>1, <4>2, <1>6, <1>10, RoundZero, Places DEF SlotInv, Top
      <3>2. CASE p # 1
        BY <3>2, <1>10, RoundZero, Places DEF SlotInv
      <3> QED
        BY <3>1, <3>2
    <2>2. RegsInv(p) /\ ForkInv(p) /\ ExecInv(p)
      BY <1>10 DEF RegsInv, ForkInv, ExecInv, Forking, Execing
    <2>3. KeptInv(p)
      BY <1>10, FaultedSelf DEF KeptInv, Execing, Forking
    <2> QED
      BY <2>1, <2>2, <2>3 DEF Local
  <1> QED
    BY <1>5, <1>8, <1>11, <1>14, <1>15, <1>16 DEF MemInv

LEMMA MemIdle ==
    ASSUME MemInv, UNCHANGED mem_vars PROVE MemInv'
  <1>1. /\ free' = free /\ kstack' = kstack /\ state' = state /\ tf' = tf /\ space' = space /\ sz' = sz
        /\ mem_pc' = mem_pc /\ va' = va /\ new' = new /\ newsz' = newsz /\ prog' = prog /\ argv' = argv
        /\ child' = child /\ before' = before /\ wrong' = wrong
    BY DEF mem_vars, table, regs
  <1>2. Typed' /\ ~wrong'
    BY <1>1 DEF MemInv, Typed, TypedTable, TypedRegs
  <1>3. PICK p \in Slots : TRUE
    BY ZeroIs DEF Zero
  <1>4. PagesMoved(p)
    BY <1>1, NothingMoved
  <1>5. Partition' /\ TablesGood'
    BY <1>1, <1>4, PartitionStep DEF MemInv, Typed
  <1>6. ASSUME NEW s \in Slots PROVE Local(s)'
    <2>1. Local(s) /\ SameAt(s)
      BY <1>1 DEF MemInv, SameAt, SameTable
    <2>2. mem_pc[s] \in Forking =>
               /\ SameTable(child[s])
               /\ \A x \in Slots : x # s => child'[x] # child[s]
      BY <2>1, <1>1 DEF Local, ForkInv, ChildInv, SameTable
    <2> QED
      BY <2>1, <2>2, SameLocal
  <1> QED
    BY <1>2, <1>5, <1>6 DEF MemInv

LEMMA MemStep ==
    ASSUME MemInv, [MemNext]_mem_vars PROVE MemInv'
  <1>1. CASE UNCHANGED mem_vars
    BY <1>1, MemIdle
  <1>2. CASE MemNext
    <2>1. CASE \E p \in Slots : Return(p)
      BY <2>1, ReturnStep
    <2>2. CASE \E p \in Slots, n \in Sbrks : SbrkShrink(p, n)
      BY <2>2, SbrkShrinkStep
    <2>3. CASE \E p \in Slots, n \in Sbrks : SbrkLazy(p, n)
      BY <2>3, SbrkLazyStep
    <2>4. CASE \E p \in Slots, n \in Sbrks : SbrkEager(p, n)
      BY <2>4, SbrkEagerStep
    <2>5. CASE \E p \in Slots : Grow(p)
      BY <2>5, GrowStep
    <2>6. CASE \E p \in Slots : Grown(p)
      BY <2>6, GrownStep
    <2>7. CASE \E p \in Slots, addr \in Touched, store, trap \in BOOLEAN : Touch(p, addr, store, trap)
      <3>1. PICK p \in Slots, addr \in Touched, store \in BOOLEAN, trap \in BOOLEAN :
              Touch(p, addr, store, trap)
        BY <2>7
      <3> QED
        BY <3>1, TouchStep
    <2>8. CASE \E p \in Slots : ForkTrapframe(p)
      BY <2>8, ForkTrapframeStep
    <2>9. CASE \E p \in Slots : ForkTable(p)
      BY <2>9, ForkTableStep
    <2>10. CASE \E p \in Slots : ForkCopy(p)
      BY <2>10, ForkCopyStep
    <2>11. CASE \E p \in Slots : ForkCopied(p)
      BY <2>11, ForkCopiedStep
    <2>12. CASE \E p \in Slots : ForkRun(p)
      BY <2>12, ForkRunStep
    <2>13. CASE \E p \in Slots : Exec(p)
      BY <2>13, ExecStep
    <2>14. CASE \E p \in Slots, addr \in Touched : ExecFetch(p, addr)
      BY <2>14, ExecFetchStep
    <2>15. CASE \E p \in Slots : ExecArg(p)
      BY <2>15, ExecArgStep
    <2>16. CASE \E p \in Slots : ExecNone(p)
      BY <2>16, ExecNoneStep
    <2>17. CASE \E p \in Slots, s \in Programs : ExecOpen(p, s)
      BY <2>17, ExecOpenStep
    <2>18. CASE \E p \in Slots : ExecBadHeader(p)
      BY <2>18, ExecBadHeaderStep
    <2>19. CASE \E p \in Slots : ExecLoad(p)
      BY <2>19, ExecLoadStep
    <2>20. CASE \E p \in Slots : ExecLoaded(p)
      BY <2>20, ExecLoadedStep
    <2>21. CASE \E p \in Slots : ExecStack(p)
      BY <2>21, ExecStackStep
    <2>22. CASE \E p \in Slots : ExecCommit(p)
      BY <2>22, ExecCommitStep
    <2>23. CASE \E p \in Slots : Exit(p)
      BY <2>23, ExitStep
    <2>24. CASE \E p \in Slots : Reap(p)
      BY <2>24, ReapStep
    <2> QED
      BY <1>2, <2>1, <2>2, <2>3, <2>4, <2>5, <2>6, <2>7, <2>8, <2>9, <2>10, <2>11, <2>12,
         <2>13, <2>14, <2>15, <2>16, <2>17, <2>18, <2>19, <2>20, <2>21, <2>22, <2>23, <2>24 DEF MemNext
  <1> QED
    BY <1>1, <1>2

\* The inductive invariant: kalloc(), kfree() and the page tables of kernel/vm.c
\* divide the pages, and each system call leaves what it has built in a state
\* that it can finish or undo.
THEOREM MemoryInvariant == MemSpec => []MemInv
  <1>1. MemInv /\ [MemNext]_mem_vars => MemInv'
    BY MemStep
  <1> QED
    BY <1>1, MemInitInv, PTL DEF MemSpec

----------------------------------------------------------------------------
\* mappages() never maps a page twice, freewalk() never meets a leaf, loadseg()
\* finds every page of its segment, and nothing is freed twice: none of the
\* panics of kernel/vm.c and kernel/exec.c is reached.
THEOREM NeverPanics == MemSpec => []NoPanic
  <1>1. MemInv => NoPanic
    BY DEF MemInv, NoPanic
  <1> QED
    BY <1>1, MemoryInvariant, PTL

LEMMA CopiedPerms ==
    ASSUME NEW t, NEW s, NEW f, NEW g, NEW n \in Nat, f # 0, g # 0,
           Layout(t, f, n), Layout(s, g, n), Copied(t, s, n)
    PROVE  Perms(s) = Perms(t)
  <1>1. ASSUME NEW a \in VAs PROVE SamePerms(t.map[a], s.map[a])
    <2>1. CASE a \in Users /\ a < n
      BY <2>1 DEF Copied
    <2>2. CASE a \in Users /\ ~(a < n)
      BY <2>2 DEF Layout, Confined, SamePerms, Users
    <2>3. CASE a = TRAPFRAME
      BY <2>3 DEF Layout, SamePerms
    <2>4. CASE a = TRAMPOLINE
      BY <2>4 DEF Layout, SamePerms
    <2> QED
      BY <2>1, <2>2, <2>3, <2>4, Places
  <1>2. ASSUME NEW a \in VAs
        PROVE  [v |-> s.map[a].pa # 0, u |-> s.map[a].u, w |-> s.map[a].w]
               = [v |-> t.map[a].pa # 0, u |-> t.map[a].u, w |-> t.map[a].w]
    <2>1. (s.map[a].pa # 0) <=> (t.map[a].pa # 0)
      BY <1>1 DEF SamePerms
    <2>2. (s.map[a].pa # 0) = (t.map[a].pa # 0)
      BY <2>1, Zenon
    <2>3. s.map[a].u = t.map[a].u /\ s.map[a].w = t.map[a].w
      BY <1>1 DEF SamePerms
    <2> QED
      BY <2>2, <2>3, Zenon
  <1> QED
    BY <1>2, Zenon DEF Perms

\* fork(), exec() and sbrk() that return -1 leave their caller the memory it had (of
\* which exec() may have allocated promised pages, to read its arguments), and a
\* child of fork() has the memory of its parent.
THEOREM FailuresKeepMemory == MemSpec => []AllOrNothing
  <1>1. ASSUME MemInv PROVE AllOrNothing
    <2> SUFFICES ASSUME NEW p \in Slots
                 PROVE  /\ MemAt(p, "failed") => Faulted(before[p], Image(p))
                        /\ MemAt(p, "fork_run") => Image(child[p]) = Image(p)
      BY DEF AllOrNothing
    <2>1. ASSUME MemAt(p, "failed") PROVE Faulted(before[p], Image(p))
      BY <1>1, <2>1, Runs DEF KeptInv
    <2>2. ASSUME MemAt(p, "fork_run") PROVE Image(child[p]) = Image(p)
      <3>1. PICK q, l : q = child[p] /\ l = "fork_run"
        OBVIOUS
      <3>2. l \in Forking /\ MemAt(p, l)
        BY <3>1, <2>2 DEF Forking
      <3>3. ChildInv(p, q) /\ tf[q] \in Pages
        BY <3>1, <3>2, <1>1, ChildFacts
      <3>4. mem_pc[p] = "fork_run" /\ tf[p] \in Pages /\ TypedTable
        BY <2>2, <1>1, Runs
      <3>5. PICK n : n = PGROUNDUP(sz[p])
        OBVIOUS
      <3>6. /\ sz[q] = sz[p] /\ Layout(space[q], tf[q], n) /\ Copied(space[p], space[q], n)
        BY <3>3, <3>4, <3>5 DEF ChildInv
      <3>7. Layout(space[p], tf[p], n)
        BY <3>4, <3>5, <2>2, <1>1, Live DEF Top, Execing
      <3>8. n \in Nat /\ tf[p] # 0 /\ tf[q] # 0
        BY <3>3, <3>4, <3>5, RoundUp, Places DEF TypedTable
      <3>9. Perms(space[q]) = Perms(space[p])
        BY <3>6, <3>7, <3>8, CopiedPerms
      <3> QED
        BY <3>1, <3>6, <3>9 DEF Image
    <2> QED
      BY <2>1, <2>2
  <1> QED
    BY <1>1, MemoryInvariant, PTL

Kinds == {"trapframe", "table", "user", "new_table", "new_user", "argv"}

LEMMA KindsAre ==
    /\ PagesOf(<<"free", 0>>) = free
    /\ PagesOf(<<"kstack", 0>>) = Kstacks
    /\ \A p \in Slots :
        /\ PagesOf(<<"trapframe", p>>) = {tf[p]} \ {0}
        /\ PagesOf(<<"table", p>>) = TablePages(space[p])
        /\ PagesOf(<<"user", p>>) = UserPages(space[p])
        /\ PagesOf(<<"new_table", p>>) = TablePages(new[p])
        /\ PagesOf(<<"new_user", p>>) = UserPages(new[p])
        /\ PagesOf(<<"argv", p>>) = argv[p]
  <1>1. PagesOf(<<"free", 0>>) = free /\ PagesOf(<<"kstack", 0>>) = Kstacks
    BY DEF PagesOf, Kstacks
  <1>2. ASSUME NEW p \in Slots
        PROVE  /\ PagesOf(<<"trapframe", p>>) = {tf[p]} \ {0}
               /\ PagesOf(<<"table", p>>) = TablePages(space[p])
               /\ PagesOf(<<"user", p>>) = UserPages(space[p])
               /\ PagesOf(<<"new_table", p>>) = TablePages(new[p])
               /\ PagesOf(<<"new_user", p>>) = UserPages(new[p])
               /\ PagesOf(<<"argv", p>>) = argv[p]
    BY DEF PagesOf
  <1> QED
    BY <1>1, <1>2

LEMMA PartsOfSlot ==
    ASSUME MemInv, NEW p \in Slots
    PROVE  /\ \A c \in Kinds : PagesOf(<<c, p>>) \subseteq Holding(p)
           /\ \A y \in Holding(p) : \E c \in Kinds : y \in PagesOf(<<c, p>>)
           /\ \A c, d \in Kinds : c # d => PagesOf(<<c, p>>) \intersect PagesOf(<<d, p>>) = {}
  <1>1. GoodTable(space[p]) /\ GoodTable(new[p]) /\ Apart(p)
    BY SlotFacts
  <1>2. PICK A, T, U, N, V, G :
          /\ A = {tf[p]} \ {0} /\ T = TablePages(space[p]) /\ U = UserPages(space[p])
          /\ N = TablePages(new[p]) /\ V = UserPages(new[p]) /\ G = argv[p]
    OBVIOUS
  <1>3. /\ PagesOf(<<"trapframe", p>>) = A /\ PagesOf(<<"table", p>>) = T
        /\ PagesOf(<<"user", p>>) = U /\ PagesOf(<<"new_table", p>>) = N
        /\ PagesOf(<<"new_user", p>>) = V /\ PagesOf(<<"argv", p>>) = G
    BY <1>2, KindsAre
  <1>4. Holding(p) = A \union (T \union U) \union (N \union V) \union G
    BY <1>2 DEF Holding, Own
  <1>5. /\ T \intersect U = {} /\ N \intersect V = {}
        /\ A \intersect (T \union U) = {} /\ A \intersect (N \union V) = {} /\ A \intersect G = {}
        /\ (T \union U) \intersect (N \union V) = {} /\ (T \union U) \intersect G = {}
        /\ (N \union V) \intersect G = {}
    BY <1>1, <1>2 DEF GoodTable, Apart, Own
  <1>6. \A c \in Kinds : PagesOf(<<c, p>>) \subseteq Holding(p)
    BY <1>3, <1>4 DEF Kinds
  <1>7. \A y \in Holding(p) : \E c \in Kinds : y \in PagesOf(<<c, p>>)
    BY <1>3, <1>4 DEF Kinds
  <1>8. /\ A \intersect T = {} /\ A \intersect U = {} /\ A \intersect N = {} /\ A \intersect V = {}
        /\ T \intersect N = {} /\ T \intersect V = {} /\ U \intersect N = {} /\ U \intersect V = {}
        /\ T \intersect G = {} /\ U \intersect G = {} /\ N \intersect G = {} /\ V \intersect G = {}
    BY <1>5
  <1>9. ASSUME NEW c \in Kinds, NEW d \in Kinds, c # d, NEW y \in PagesOf(<<c, p>>), y \in PagesOf(<<d, p>>)
        PROVE  FALSE
    <2>1. CASE c = "trapframe"
      BY <2>1, <1>3, <1>5, <1>8, <1>9 DEF Kinds
    <2>2. CASE c = "table"
      BY <2>2, <1>3, <1>5, <1>8, <1>9 DEF Kinds
    <2>3. CASE c = "user"
      BY <2>3, <1>3, <1>5, <1>8, <1>9 DEF Kinds
    <2>4. CASE c = "new_table"
      BY <2>4, <1>3, <1>5, <1>8, <1>9 DEF Kinds
    <2>5. CASE c = "new_user"
      BY <2>5, <1>3, <1>5, <1>8, <1>9 DEF Kinds
    <2>6. CASE c = "argv"
      BY <2>6, <1>3, <1>5, <1>8, <1>9 DEF Kinds
    <2> QED
      BY <2>1, <2>2, <2>3, <2>4, <2>5, <2>6 DEF Kinds
  <1> QED
    BY <1>6, <1>7, <1>9

\* Each page that kinit() freed has one holder at every step of fork(), exec(),
\* sbrk(), page faults, exit() and wait(): none is leaked, none is shared.
THEOREM EveryPageAccounted == MemSpec => []PagesAccounted
  <1>1. ASSUME MemInv PROVE PagesAccounted
    <2>1. Partition /\ TablesGood /\ Typed /\ \A p \in Slots : Local(p)
      BY <1>1 DEF MemInv
    <2>2. PICK held : held = {<<h, PagesOf(h)>> : h \in Holders}
      OBVIOUS
    <2>3. \A h \in Holders :
            h = <<"free", 0>> \/ h = <<"kstack", 0>> \/ \E c \in Kinds, p \in Slots : h = <<c, p>>
      BY DEF Holders, Kinds
    <2>4. /\ <<"free", 0>> \in Holders /\ <<"kstack", 0>> \in Holders
          /\ \A c \in Kinds, p \in Slots : <<c, p>> \in Holders
      BY DEF Holders, Kinds
    <2>5. PagesOf(<<"free", 0>>) = free /\ PagesOf(<<"kstack", 0>>) = Kstacks
      BY KindsAre
    <2>6. \A h \in Holders : PagesOf(h) \subseteq Pages
      <3> SUFFICES ASSUME NEW h \in Holders PROVE PagesOf(h) \subseteq Pages
        OBVIOUS
      <3>1. CASE h = <<"free", 0>> \/ h = <<"kstack", 0>>
        BY <3>1, <2>1, <2>5 DEF Partition, Typed
      <3>2. CASE \E c \in Kinds, p \in Slots : h = <<c, p>>
        <4>1. PICK c \in Kinds, p \in Slots : h = <<c, p>>
          BY <3>2
        <4>2. PagesOf(h) \subseteq Holding(p)
          BY <4>1, <1>1, PartsOfSlot
        <4> QED
          BY <4>2, <2>1 DEF Partition
      <3> QED
        BY <3>1, <3>2, <2>3
    <2>7. \A y \in Pages : \E h \in Holders : y \in PagesOf(h)
      <3> SUFFICES ASSUME NEW y \in Pages PROVE \E h \in Holders : y \in PagesOf(h)
        OBVIOUS
      <3>1. CASE y \in free \/ y \in Kstacks
        BY <3>1, <2>4, <2>5
      <3>2. CASE \E p \in Slots : y \in Holding(p)
        <4>1. PICK p \in Slots : y \in Holding(p)
          BY <3>2
        <4>2. PICK c \in Kinds : y \in PagesOf(<<c, p>>)
          BY <4>1, <1>1, PartsOfSlot
        <4> QED
          BY <4>2, <2>4
      <3> QED
        BY <3>1, <3>2, <2>1 DEF Partition
    <2>8. ASSUME NEW h \in Holders, NEW g \in Holders, h # g,
                 NEW y \in PagesOf(h), y \in PagesOf(g)
          PROVE  FALSE
      <3>1. /\ Kstacks \intersect free = {}
            /\ \A p \in Slots : Holding(p) \intersect free = {} /\ Holding(p) \intersect Kstacks = {}
            /\ \A p, q \in Slots : p # q => Holding(p) \intersect Holding(q) = {}
        BY <2>1 DEF Partition
      <3>2. \A c \in Kinds, p \in Slots : PagesOf(<<c, p>>) \subseteq Holding(p)
        BY <1>1, PartsOfSlot
      <3>3. \A p \in Slots : \A c, d \in Kinds :
              c # d => PagesOf(<<c, p>>) \intersect PagesOf(<<d, p>>) = {}
        BY <1>1, PartsOfSlot
      <3>4. CASE h = <<"free", 0>>
        BY <3>1, <3>2, <3>4, <2>3, <2>5, <2>8
      <3>5. CASE h = <<"kstack", 0>>
        BY <3>1, <3>2, <3>5, <2>3, <2>5, <2>8
      <3>6. CASE \E c \in Kinds, p \in Slots : h = <<c, p>>
        <4>1. PICK c \in Kinds, p \in Slots : h = <<c, p>>
          BY <3>6
        <4>2. y \in Holding(p)
          BY <4>1, <3>2, <2>8
        <4>3. g # <<"free", 0>> /\ g # <<"kstack", 0>>
          BY <4>2, <3>1, <2>5, <2>8
        <4>4. PICK d \in Kinds, q \in Slots : g = <<d, q>>
          BY <4>3, <2>3
        <4>5. y \in Holding(q)
          BY <4>4, <3>2, <2>8
        <4>6. p = q
          BY <4>2, <4>5, <3>1
        <4>7. c # d
          BY <4>1, <4>4, <4>6, <2>8
        <4>8. y \in PagesOf(<<c, p>>) /\ y \in PagesOf(<<d, p>>)
          BY <4>1, <4>4, <4>6, <2>8
        <4> QED
          BY <4>7, <4>8, <3>3
      <3> QED
        BY <3>4, <3>5, <3>6, <2>3
    <2>9. UNION {x[2] : x \in held} = Pages
      <3>1. \A x \in held : \E h \in Holders : x[2] = PagesOf(h)
        BY <2>2
      <3>2. \A h \in Holders : \E x \in held : x[2] = PagesOf(h)
        <4> SUFFICES ASSUME NEW h \in Holders PROVE \E x \in held : x[2] = PagesOf(h)
          OBVIOUS
        <4>1. PICK x : x = <<h, PagesOf(h)>>
          OBVIOUS
        <4>2. x \in held /\ x[2] = PagesOf(h)
          BY <4>1, <2>2
        <4> QED
          BY <4>2
      <3>3. PICK S : S = {x[2] : x \in held}
        OBVIOUS
      <3>4. \A y : y \in UNION S <=> \E x \in held : y \in x[2]
        BY <3>3
      <3>5. \A y : y \in UNION S <=> y \in Pages
        BY <3>1, <3>2, <3>4, <2>6, <2>7
      <3> QED
        BY <3>3, <3>5
    <2>10. \A x, y \in held : x # y => x[2] \intersect y[2] = {}
      <3> SUFFICES ASSUME NEW x \in held, NEW y \in held, x # y, NEW z \in x[2], z \in y[2]
                   PROVE  FALSE
        OBVIOUS
      <3>1. PICK h \in Holders : x = <<h, PagesOf(h)>>
        BY <2>2
      <3>2. PICK g \in Holders : y = <<g, PagesOf(g)>>
        BY <2>2
      <3>3. h # g /\ z \in PagesOf(h) /\ z \in PagesOf(g)
        BY <3>1, <3>2
      <3> QED
        BY <3>3, <2>8
    <2>11. ASSUME NEW p \in Slots
           PROVE  /\ \A a, b \in 0..TRAPFRAME - 1 :
                       space[p].map[a].pa = space[p].map[b].pa /\ a # b => space[p].map[a] = NoPte
                  /\ space[p] # NoTable =>
                       /\ space[p].map[TRAPFRAME].pa = tf[p]
                       /\ space[p].map[TRAMPOLINE].pa = trampoline
      <3>1. GoodTable(space[p]) /\ Local(p)
        BY <2>1 DEF TablesGood
      <3>2. \A a, b \in Users :
              space[p].map[a].pa = space[p].map[b].pa /\ a # b => space[p].map[a] = NoPte
        BY <3>1, Places DEF GoodTable
      <3>3. ASSUME space[p] # NoTable PROVE \E n : Layout(space[p], tf[p], n)
        <4>1. state[p] # "UNUSED" /\ ~Booting(p)
          BY <3>1, <3>3 DEF Local, SlotInv, Booting
        <4>2. CASE state[p] \in {"RUNNABLE", "ZOMBIE"}
          BY <4>1, <4>2, <3>1 DEF Local, SlotInv
        <4>3. CASE state[p] = "USED"
          BY <4>3, <3>1, <3>3 DEF Local, SlotInv
        <4> QED
          BY <4>1, <4>2, <4>3, <2>1 DEF Typed, TypedTable, States
      <3>4. space[p] # NoTable =>
                       /\ space[p].map[TRAPFRAME].pa = tf[p]
                       /\ space[p].map[TRAMPOLINE].pa = trampoline
        BY <3>3 DEF Layout
      <3> QED
        BY <3>2, <3>4 DEF Users
    <2> QED
      BY <2>2, <2>9, <2>10, <2>11 DEF PagesAccounted
  <1> QED
    BY <1>1, MemoryInvariant, PTL
=============================================================================
