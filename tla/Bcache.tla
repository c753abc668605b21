------------------------------- MODULE Bcache -------------------------------
(***************************************************************************)
(* The buffer cache of kernel/bio.c with the sleep-locks of                *)
(* kernel/sleeplock.c that protect its buffers, over a disk that reads and *)
(* writes whole blocks.                                                    *)
(*                                                                         *)
(* Grain of atomicity.  A critical section of bcache.lock and one of a     *)
(* sleep-lock's spinlock are each one step; a transfer by                  *)
(* virtio_disk_rw() is one step, as the buffer is locked while it lasts.   *)
(* The callers (kernel/fs.c, kernel/log.c) use one buffer at a time here,  *)
(* and keep the rule that makes recycling safe: a buffer is given back     *)
(* only when it equals its block on disk or has been pinned, and unpinned  *)
(* only when it has been written.                                          *)
(***************************************************************************)
EXTENDS Integers, FiniteSets

CONSTANTS
    Procs,      \* processes that use the cache
    NoProc,     \* nobody
    NBUF,       \* buffers
    Blocks,     \* block numbers
    NoBlock,    \* the number in a buffer never used: 0 on device 0
    Values,     \* contents of a block
    MaxPins     \* buffers the log pins at a time (LOGBLOCKS)

ASSUME BcacheAssumption ==
    /\ NBUF \in Nat \ {0}
    /\ IsFiniteSet(Procs) /\ NoProc \notin Procs
    /\ NoBlock \notin Blocks
    /\ MaxPins \in Nat

VARIABLES
    disk,      \* contents of the blocks on disk
    lru,       \* the buffers in the order of the list, most recently used first
    blockno,   \* b->blockno (with b->dev)
    valid,     \* b->valid
    refcnt,    \* b->refcnt
    data,      \* b->data
    locked,    \* the holder of b->lock
    pinned,    \* the buffers that the log has pinned
    pc,        \* where each process is
    want,      \* the block number it called bread() with
    buf,       \* the buffer it has
    panicked   \* panic() has frozen the machine

vars == <<disk, lru, blockno, valid, refcnt, data, locked, pinned, pc, want, buf,
          panicked>>

Bufs == 1..NBUF
PC == {"idle", "bget", "acquiresleep", "asleep", "bread", "held", "brelse"}
\* Program points at which a process counts in its buffer's refcnt.
Referring == PC \ {"idle", "bget"}

TypeOK ==
    /\ disk \in [Blocks -> Values]
    /\ lru \in [Bufs -> Bufs]
    /\ blockno \in [Bufs -> Blocks \union {NoBlock}]
    /\ valid \in [Bufs -> {0, 1}]
    /\ refcnt \in [Bufs -> Int]
    /\ data \in [Bufs -> Values]
    /\ locked \in [Bufs -> Procs \union {NoProc}]
    /\ pinned \subseteq Bufs
    /\ pc \in [Procs -> PC]
    /\ want \in [Procs -> Blocks]
    /\ buf \in [Procs -> Bufs]
    /\ panicked \in {0, 1}

----------------------------------------------------------------------------
\* binit(): the loop puts each buffer in front of the ones before it.
Init ==
    /\ disk \in [Blocks -> Values]
    /\ lru = [k \in Bufs |-> NBUF + 1 - k]
    /\ blockno = [b \in Bufs |-> NoBlock]
    /\ valid = [b \in Bufs |-> 0]
    /\ refcnt = [b \in Bufs |-> 0]
    /\ data \in {[b \in Bufs |-> v] : v \in Values}
    /\ locked = [b \in Bufs |-> NoProc]
    /\ pinned = {}
    /\ pc = [p \in Procs |-> "idle"]
    /\ want \in {[p \in Procs |-> k] : k \in Blocks}
    /\ buf = [p \in Procs |-> 1]
    /\ panicked = 0

At(p, l) == panicked = 0 /\ pc[p] = l
Goto(p, l) == pc' = [pc EXCEPT ![p] = l]

----------------------------------------------------------------------------
(* bget() and bread() *)

Call(p, k) ==
    /\ At(p, "idle")
    /\ want' = [want EXCEPT ![p] = k]
    /\ Goto(p, "bget")
    /\ UNCHANGED <<disk, lru, blockno, valid, refcnt, data, locked, pinned, buf,
                   panicked>>

Cached(k) == {b \in Bufs : blockno[b] = k}

\* Mutant: bget() that finds the block but does not count the reference.
BgetHit_NotCounted(p) ==
    /\ At(p, "bget")
    /\ \E b \in Cached(want[p]) : buf' = [buf EXCEPT ![p] = b]
    /\ Goto(p, "acquiresleep")
    /\ UNCHANGED <<disk, lru, blockno, valid, refcnt, data, locked, pinned, want,
                   panicked>>

BgetHit(p) ==
    /\ At(p, "bget")
    /\ \E b \in Cached(want[p]) :
        /\ refcnt' = [refcnt EXCEPT ![b] = @ + 1]
        /\ buf' = [buf EXCEPT ![p] = b]
    /\ Goto(p, "acquiresleep")
    /\ UNCHANGED <<disk, lru, blockno, valid, data, locked, pinned, want, panicked>>

\* The positions in the list of the buffers that nobody refers to.
Unused == {k \in Bufs : refcnt[lru[k]] = 0}

\* Mutant: the recycled buffer keeps b->valid.
BgetRecycle_StaysValid(p) ==
    /\ At(p, "bget")
    /\ Cached(want[p]) = {}
    /\ \E k \in Unused :
        /\ \A j \in Unused : j <= k
        /\ blockno' = [blockno EXCEPT ![lru[k]] = want[p]]
        /\ refcnt' = [refcnt EXCEPT ![lru[k]] = 1]
        /\ buf' = [buf EXCEPT ![p] = lru[k]]
    /\ Goto(p, "acquiresleep")
    /\ UNCHANGED <<disk, lru, valid, data, locked, pinned, want, panicked>>

\* Not cached: the least recently used of them is recycled.
BgetRecycle(p) ==
    /\ At(p, "bget")
    /\ Cached(want[p]) = {}
    /\ \E k \in Unused :
        /\ \A j \in Unused : j <= k
        /\ blockno' = [blockno EXCEPT ![lru[k]] = want[p]]
        /\ valid' = [valid EXCEPT ![lru[k]] = 0]
        /\ refcnt' = [refcnt EXCEPT ![lru[k]] = 1]
        /\ buf' = [buf EXCEPT ![p] = lru[k]]
    /\ Goto(p, "acquiresleep")
    /\ UNCHANGED <<disk, lru, data, locked, pinned, want, panicked>>

BgetPanic(p) ==
    /\ At(p, "bget")
    /\ Cached(want[p]) = {} /\ Unused = {}
    /\ panicked' = 1
    /\ UNCHANGED <<disk, lru, blockno, valid, refcnt, data, locked, pinned, pc,
                   want, buf>>

\* acquiresleep(&b->lock): taken, or sleep(lk, &lk->lk).
AcquireSleep(p) ==
    /\ At(p, "acquiresleep")
    /\ locked[buf[p]] = NoProc
    /\ locked' = [locked EXCEPT ![buf[p]] = p]
    /\ Goto(p, "bread")
    /\ UNCHANGED <<disk, lru, blockno, valid, refcnt, data, pinned, want, buf,
                   panicked>>

Asleep(p) ==
    /\ At(p, "acquiresleep")
    /\ locked[buf[p]] # NoProc
    /\ Goto(p, "asleep")
    /\ UNCHANGED <<disk, lru, blockno, valid, refcnt, data, locked, pinned, want,
                   buf, panicked>>

\* The rest of bread(): read the block unless the buffer has it.
Bread(p) ==
    /\ At(p, "bread")
    /\ IF valid[buf[p]] = 1
       THEN UNCHANGED <<data, valid>>
       ELSE /\ data' = [data EXCEPT ![buf[p]] = disk[blockno[buf[p]]]]
            /\ valid' = [valid EXCEPT ![buf[p]] = 1]
    /\ Goto(p, "held")
    /\ UNCHANGED <<disk, lru, blockno, refcnt, locked, pinned, want, buf, panicked>>

----------------------------------------------------------------------------
(* Between bread() and brelse() *)

\* The caller changes b->data.
Modify(p, v) ==
    /\ At(p, "held")
    /\ data' = [data EXCEPT ![buf[p]] = v]
    /\ UNCHANGED <<disk, lru, blockno, valid, refcnt, locked, pinned, pc, want, buf,
                   panicked>>

Bwrite(p) ==
    /\ At(p, "held")
    /\ disk' = [disk EXCEPT ![blockno[buf[p]]] = data[buf[p]]]
    /\ UNCHANGED <<lru, blockno, valid, refcnt, data, locked, pinned, pc, want, buf,
                   panicked>>

\* log_write() pins a block that is not in the log yet.
Bpin(p) ==
    /\ At(p, "held")
    /\ buf[p] \notin pinned /\ Cardinality(pinned) < MaxPins
    /\ pinned' = pinned \union {buf[p]}
    /\ refcnt' = [refcnt EXCEPT ![buf[p]] = @ + 1]
    /\ UNCHANGED <<disk, lru, blockno, valid, data, locked, pc, want, buf, panicked>>

\* The buffer equals its block on disk.
Clean(p) == data[buf[p]] = disk[blockno[buf[p]]]

\* install_trans() unpins a block that it has just written.
Bunpin(p) ==
    /\ At(p, "held")
    /\ buf[p] \in pinned /\ Clean(p)
    /\ pinned' = pinned \ {buf[p]}
    /\ refcnt' = [refcnt EXCEPT ![buf[p]] = @ - 1]
    /\ UNCHANGED <<disk, lru, blockno, valid, data, locked, pc, want, buf, panicked>>

----------------------------------------------------------------------------
(* brelse() *)

\* Mutant: releasesleep() without wakeup().
ReleaseSleep_NoWakeup(p) ==
    /\ At(p, "held")
    /\ Clean(p) \/ buf[p] \in pinned
    /\ locked' = [locked EXCEPT ![buf[p]] = NoProc]
    /\ Goto(p, "brelse")
    /\ UNCHANGED <<disk, lru, blockno, valid, refcnt, data, pinned, want, buf,
                   panicked>>

\* releasesleep(&b->lock), with wakeup(lk).
ReleaseSleep(p) ==
    /\ At(p, "held")
    /\ Clean(p) \/ buf[p] \in pinned
    /\ locked' = [locked EXCEPT ![buf[p]] = NoProc]
    /\ pc' = [q \in Procs |->
                IF q = p THEN "brelse"
                ELSE IF pc[q] = "asleep" /\ buf[q] = buf[p] THEN "acquiresleep"
                ELSE pc[q]]
    /\ UNCHANGED <<disk, lru, blockno, valid, refcnt, data, pinned, want, buf,
                   panicked>>

\* The list with buffer b moved to its front.
MovedToFront(b) ==
    LET at == CHOOSE k \in Bufs : lru[k] = b
    IN  [k \in Bufs |-> IF k = 1 THEN b ELSE IF k <= at THEN lru[k - 1] ELSE lru[k]]

Brelse(p) ==
    /\ At(p, "brelse")
    /\ refcnt' = [refcnt EXCEPT ![buf[p]] = @ - 1]
    /\ lru' = IF refcnt[buf[p]] = 1 THEN MovedToFront(buf[p]) ELSE lru
    /\ Goto(p, "idle")
    /\ buf' = [buf EXCEPT ![p] = 1]
    /\ UNCHANGED <<disk, blockno, valid, data, locked, pinned, want, panicked>>

----------------------------------------------------------------------------
Get(p) ==
    \/ BgetHit(p) \/ BgetRecycle(p) \/ BgetPanic(p)
    \/ AcquireSleep(p) \/ Asleep(p) \/ Bread(p)

Use(p) == Bwrite(p) \/ Bpin(p) \/ Bunpin(p) \/ \E v \in Values : Modify(p, v)

Frozen == panicked = 1 /\ UNCHANGED vars

Next ==
    \/ \E p \in Procs :
        \/ \E k \in Blocks : Call(p, k)
        \/ Get(p) \/ Use(p) \/ ReleaseSleep(p) \/ Brelse(p)
    \/ Frozen

Spec == Init /\ [][Next]_vars

----------------------------------------------------------------------------
(* Properties *)

\* refcnt counts the processes that refer to the buffer and the log's pin, so
\* a buffer is recycled only when nobody refers to it.
RefcntExact ==
    \A b \in Bufs :
        refcnt[b] = Cardinality({p \in Procs : pc[p] \in Referring /\ buf[p] = b})
                    + IF b \in pinned THEN 1 ELSE 0

\* The block as bread() would return it.
Contents(k) ==
    IF \E b \in Cached(k) : valid[b] = 1
    THEN data[CHOOSE b \in Cached(k) : valid[b] = 1] ELSE disk[k]

Owner(k) ==
    IF \E p \in Procs : pc[p] = "held" /\ want[p] = k
    THEN CHOOSE p \in Procs : pc[p] = "held" /\ want[p] = k ELSE NoProc

Store == INSTANCE BlockStore
         WITH contents <- [k \in Blocks |-> Contents(k)],
              owner <- [k \in Blocks |-> Owner(k)]

\* The cache is invisible: lookups, recycling, reads, writes and pins never
\* change what bread() returns, and a block has one user at a time.
CacheTransparent == Store!StoreSpec

\* No lost wakeup: a process asleep in acquiresleep() waits for a lock that
\* somebody holds.
SleeperHasHolder ==
    \A p \in Procs : pc[p] = "asleep" => locked[buf[p]] # NoProc

=============================================================================
