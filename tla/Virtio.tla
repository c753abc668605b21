------------------------------- MODULE Virtio -------------------------------
(***************************************************************************)
(* The disk driver kernel/virtio_disk.c: processes that hold a buffer call *)
(* virtio_disk_rw(), the device works through the rings on its own, in any *)
(* order, and virtio_disk_intr() hands completions back.                   *)
(*                                                                         *)
(* Grain of atomicity.  disk.vdisk_lock is a variable.  The device does    *)
(* not take it, so within the lock each access to what the device reads    *)
(* or writes meanwhile (the indices of the rings, the notify and the       *)
(* interrupt registers) is a step; the rest of a critical section belongs  *)
(* to one of these.  sleep() and wakeup() are atomic to each other, as     *)
(* both are called with the lock held.                                     *)
(*                                                                         *)
(* The buffer of a call is named by the process that holds its sleep-lock. *)
(* A ring entry that its consumer has read is set to Consumed, which the   *)
(* code does not do: such an entry is dead until it is written again, and  *)
(* a second read of it would be seen.                                      *)
(***************************************************************************)
EXTENDS Integers, FiniteSets

CONSTANTS
    Procs,    \* the processes that use the disk
    NoProc,   \* nobody
    Handler,  \* virtio_disk_intr(), as a holder of the lock
    Blocks,   \* the blocks of the disk
    NoBlock,  \* no block, no contents
    Values,   \* contents of a block
    NUM,      \* descriptors (8)
    UMAX,     \* the indices are 16 bits wide: they wrap at UMAX (2^16)
    MayKill   \* may kkill() wake sleeping processes?

ASSUME VirtioAssumption ==
    /\ NUM \in Nat /\ NUM >= 3
    /\ UMAX \in Nat \ {0} /\ UMAX % NUM = 0
    /\ NoProc \notin Procs /\ Handler \notin Procs /\ NoProc # Handler
    /\ NoBlock \notin Blocks
    /\ MayKill \in BOOLEAN

VARIABLES
    \* shared memory
    desc,           \* disk.desc[], the header disk.ops[i] in place of its address
    status,         \* disk.info[].status: 0 for success, 255 before
    avail_ring,     \* disk.avail->ring
    avail_idx,      \* disk.avail->idx
    used_ring,      \* disk.used->ring[].id
    used_ring_idx,  \* disk.used->idx
    data,           \* the contents of p's buffer; NoBlock if p has none,
                    \* or one that is to be read
    \* the driver
    vdisk_lock,     \* the holder of disk.vdisk_lock
    free,           \* the descriptors with disk.free[i] set
    info_b,         \* disk.info[].b
    used_idx,       \* disk.used_idx
    b_disk,         \* b->disk of p's buffer
    pc,             \* where each process is
    intr,           \* where virtio_disk_intr() is
    blk, wr,        \* the arguments of virtio_disk_rw(): block, write flag
    idx,            \* its local idx[0]
    panicked,       \* panic() has frozen the machine
    \* the device
    sectors,        \* the contents of the disk
    dev_idx,        \* how far it has read the available ring
    kicked,         \* has it been notified since it found the ring empty?
    taken,          \* the chains it works on
    isr             \* the interrupt status register

memory == <<desc, status, data>>
avail == <<avail_ring, avail_idx>>
used == <<used_ring, used_ring_idx>>
driver == <<free, info_b, used_idx, b_disk, intr>>
calls == <<blk, wr, idx>>
device == <<sectors, dev_idx, kicked, taken, isr>>
vars == <<memory, avail, used, vdisk_lock, driver, pc, calls, panicked, device>>

Desc == 0..NUM - 1
Consumed == -1
PC == {"idle", "rw", "rw_sleep", "publish", "notify", "wait", "wait_sleep"}
\* Program points between alloc3_desc() and free_chain().
Submitted == {"publish", "notify", "wait", "wait_sleep"}

Null == [kind |-> "null", of |-> 0]
Header == [type : {"IN", "OUT"}, sector : Blocks]
Addr == {Null} \union [kind : {"op"}, of : Header]
               \union [kind : {"data"}, of : Procs]
               \union [kind : {"status"}, of : Desc]

TypeOK ==
    /\ desc \in [Desc -> [addr : Addr, flags : SUBSET {"NEXT", "WRITE"}, next : Desc]]
    /\ status \in [Desc -> {0, 255}]
    /\ data \in [Procs -> Values \union {NoBlock}]
    /\ avail_ring \in [Desc -> Desc \union {Consumed}]
    /\ used_ring \in [Desc -> Desc \union {Consumed}]
    /\ {avail_idx, used_ring_idx, used_idx, dev_idx} \subseteq 0..UMAX - 1
    /\ vdisk_lock \in Procs \union {NoProc, Handler}
    /\ free \subseteq Desc
    /\ info_b \in [Desc -> Procs \union {NoProc}]
    /\ b_disk \in [Procs -> {0, 1}]
    /\ pc \in [Procs -> PC] /\ intr \in {"none", "loop", "end"}
    /\ blk \in [Procs -> Blocks \union {NoBlock}]
    /\ wr \in [Procs -> {0, 1}]
    /\ idx \in [Procs -> Desc]
    /\ sectors \in [Blocks -> Values]
    /\ taken \subseteq Desc
    /\ {panicked, kicked, isr} \subseteq {0, 1}

ClearDesc == [addr |-> Null, flags |-> {}, next |-> 0]

\* virtio_disk_init(): rings and descriptors from zeroed pages, all free.
Init ==
    /\ desc = [d \in Desc |-> ClearDesc]
    /\ status = [d \in Desc |-> 0]
    /\ avail_ring = [d \in Desc |-> Consumed] /\ avail_idx = 0
    /\ used_ring = [d \in Desc |-> Consumed] /\ used_ring_idx = 0
    /\ data = [p \in Procs |-> NoBlock]
    /\ vdisk_lock = NoProc
    /\ free = Desc
    /\ info_b = [d \in Desc |-> NoProc]
    /\ used_idx = 0
    /\ b_disk = [p \in Procs |-> 0]
    /\ pc = [p \in Procs |-> "idle"] /\ intr = "none"
    /\ blk = [p \in Procs |-> NoBlock] /\ wr = [p \in Procs |-> 0]
    /\ idx = [p \in Procs |-> 0]
    /\ panicked = 0
    /\ sectors \in [Blocks -> Values]
    /\ dev_idx = 0 /\ kicked = 0 /\ taken = {} /\ isr = 0

----------------------------------------------------------------------------
(* virtio_disk_rw() *)

\* wakeup(&disk.free[0]): everybody who sleeps for descriptors tries again.
WakeRw(ps) == [q \in Procs |-> IF ps[q] = "rw_sleep" THEN "rw" ELSE ps[q]]

\* A caller (bread() or bwrite()) holds the block's buffer, so no other call is
\* about the same block.
Call(p) ==
    /\ pc[p] = "idle"
    /\ \E k \in Blocks, w \in {0, 1} :
        /\ \A q \in Procs : blk[q] # k
        /\ blk' = [blk EXCEPT ![p] = k]
        /\ wr' = [wr EXCEPT ![p] = w]
        /\ \E v \in IF w = 1 THEN Values ELSE {NoBlock} :
            data' = [data EXCEPT ![p] = v]
    /\ pc' = [pc EXCEPT ![p] = "rw"]
    /\ UNCHANGED <<desc, status, avail, used, vdisk_lock, driver, idx, panicked,
                   device>>

\* alloc3_desc() fails: what it had allocated is freed again, each free_desc()
\* with a wakeup(), and the caller sleeps.
NoDescriptors(p) ==
    /\ pc[p] = "rw" /\ vdisk_lock = NoProc
    /\ Cardinality(free) < 3
    /\ pc' = [IF free = {} THEN pc ELSE WakeRw(pc) EXCEPT ![p] = "rw_sleep"]
    /\ UNCHANGED <<memory, avail, used, vdisk_lock, driver, calls, panicked, device>>

\* alloc_desc(): the first free descriptor.
alloc_desc(S) == CHOOSE d \in S : \A e \in S : d <= e

\* The three descriptors of a request for p's buffer, chained, and its entry
\* in the available ring.
Submit(p) ==
    LET d0 == alloc_desc(free)
        d1 == alloc_desc(free \ {d0})
        d2 == alloc_desc(free \ {d0, d1})
    IN  /\ pc[p] = "rw" /\ vdisk_lock = NoProc
        /\ Cardinality(free) >= 3
        /\ vdisk_lock' = p
        /\ free' = free \ {d0, d1, d2}
        /\ idx' = [idx EXCEPT ![p] = d0]
        /\ desc' = [desc EXCEPT
             ![d0] = [addr |-> [kind |-> "op",
                                of |-> [type |-> IF wr[p] = 1 THEN "OUT" ELSE "IN",
                                        sector |-> blk[p]]],
                      flags |-> {"NEXT"}, next |-> d1],
             ![d1] = [addr |-> [kind |-> "data", of |-> p],
                      flags |-> {"NEXT"} \union IF wr[p] = 1 THEN {} ELSE {"WRITE"},
                      next |-> d2],
             ![d2] = [addr |-> [kind |-> "status", of |-> d0],
                      flags |-> {"WRITE"}, next |-> 0]]
        /\ status' = [status EXCEPT ![d0] = 255]
        /\ b_disk' = [b_disk EXCEPT ![p] = 1]
        /\ info_b' = [info_b EXCEPT ![d0] = p]
        /\ avail_ring' = [avail_ring EXCEPT ![avail_idx % NUM] = d0]
        /\ pc' = [pc EXCEPT ![p] = "publish"]
        /\ UNCHANGED <<data, avail_idx, used, used_idx, intr, blk, wr, panicked,
                       device>>

\* disk.avail->idx += 1, between two fences.
Publish(p) ==
    /\ pc[p] = "publish"
    /\ avail_idx' = (avail_idx + 1) % UMAX
    /\ pc' = [pc EXCEPT ![p] = "notify"]
    /\ UNCHANGED <<memory, avail_ring, used, vdisk_lock, driver, calls, panicked,
                   device>>

\* The write to QUEUE_NOTIFY; b->disk is still 1, as virtio_disk_intr() needs
\* the lock, so the process sleeps on b.
Notify(p) ==
    /\ pc[p] = "notify"
    /\ kicked' = 1
    /\ vdisk_lock' = NoProc
    /\ pc' = [pc EXCEPT ![p] = "wait_sleep"]
    /\ UNCHANGED <<memory, avail, used, driver, calls, panicked, sectors, dev_idx,
                   taken, isr>>

\* Woken, but not by the completion of its request: back to sleep.
WaitAgain(p) ==
    /\ pc[p] = "wait" /\ vdisk_lock = NoProc
    /\ b_disk[p] = 1
    /\ pc' = [pc EXCEPT ![p] = "wait_sleep"]
    /\ UNCHANGED <<memory, avail, used, vdisk_lock, driver, calls, panicked, device>>

\* Mutant: only the head of the chain is freed.
free_chain_Head(d0) == {d0}

\* The descriptors that the loop of free_chain() visits: d0 and whatever follows
\* one with VRING_DESC_F_NEXT.
free_chain(d0) ==
    LET Closed(S) == \A d \in S : "NEXT" \in desc[d].flags => desc[d].next \in S
    IN  {d \in Desc : \A S \in SUBSET Desc : d0 \in S /\ Closed(S) => d \in S}

\* Mutant: whoever is awake has its block.
Finish_NoRecheck(p) ==
    LET chain == free_chain(idx[p])
    IN  /\ pc[p] = "wait" /\ vdisk_lock = NoProc
        /\ info_b' = [info_b EXCEPT ![idx[p]] = NoProc]
        /\ panicked' = IF chain \intersect free # {} THEN 1 ELSE panicked
        /\ desc' = [d \in Desc |-> IF d \in chain THEN ClearDesc ELSE desc[d]]
        /\ free' = free \union chain
        /\ pc' = [WakeRw(pc) EXCEPT ![p] = "idle"]
        /\ blk' = [blk EXCEPT ![p] = NoBlock]
        /\ wr' = [wr EXCEPT ![p] = 0]
        /\ data' = [data EXCEPT ![p] = NoBlock]
        /\ idx' = [idx EXCEPT ![p] = 0]
        /\ UNCHANGED <<status, avail, used, vdisk_lock, used_idx, b_disk, intr,
                       device>>

\* The end of virtio_disk_rw(): the descriptors are free again, everybody who
\* sleeps for some is woken, and the caller has its buffer.
Finish(p) ==
    LET chain == free_chain(idx[p])
    IN  /\ pc[p] = "wait" /\ vdisk_lock = NoProc
        /\ b_disk[p] = 0
        /\ info_b' = [info_b EXCEPT ![idx[p]] = NoProc]
        /\ panicked' = IF chain \intersect free # {} THEN 1 ELSE panicked
        /\ desc' = [d \in Desc |-> IF d \in chain THEN ClearDesc ELSE desc[d]]
        /\ free' = free \union chain
        /\ pc' = [WakeRw(pc) EXCEPT ![p] = "idle"]
        /\ blk' = [blk EXCEPT ![p] = NoBlock]
        /\ wr' = [wr EXCEPT ![p] = 0]
        /\ data' = [data EXCEPT ![p] = NoBlock]
        /\ idx' = [idx EXCEPT ![p] = 0]
        /\ UNCHANGED <<status, avail, used, vdisk_lock, used_idx, b_disk, intr,
                       device>>

\* kkill() makes a sleeping process RUNNABLE, wherever it sleeps.
Kill(p) ==
    /\ MayKill
    /\ pc[p] \in {"rw_sleep", "wait_sleep"}
    /\ pc' = [pc EXCEPT ![p] = IF pc[p] = "rw_sleep" THEN "rw" ELSE "wait"]
    /\ UNCHANGED <<memory, avail, used, vdisk_lock, driver, calls, panicked, device>>

----------------------------------------------------------------------------
(* virtio_disk_intr() *)

\* devintr() after plic_claim(): the PLIC lets one hart at a time serve the
\* interrupt.  The acknowledgement comes before the first look at the ring.
IntrBegin ==
    /\ intr = "none" /\ isr = 1 /\ vdisk_lock = NoProc
    /\ vdisk_lock' = Handler
    /\ isr' = 0
    /\ intr' = "loop"
    /\ UNCHANGED <<memory, avail, used, free, info_b, used_idx, b_disk, pc, calls,
                   panicked, sectors, dev_idx, kicked, taken>>

\* One entry of the used ring: the buffer's owner is woken.
IntrEntry ==
    LET id == used_ring[used_idx % NUM]
    IN  /\ intr = "loop"
        /\ used_idx # used_ring_idx
        /\ IF id = Consumed \/ status[id] # 0 \/ info_b[id] = NoProc
           THEN panicked' = 1 /\ UNCHANGED <<used_ring, used_idx, b_disk, pc>>
           ELSE LET p == info_b[id]
                IN  /\ b_disk' = [b_disk EXCEPT ![p] = 0]
                    /\ pc' = [pc EXCEPT ![p] = IF pc[p] = "wait_sleep" THEN "wait"
                                               ELSE pc[p]]
                    /\ used_idx' = (used_idx + 1) % UMAX
                    /\ used_ring' = [used_ring EXCEPT ![used_idx % NUM] = Consumed]
                    /\ UNCHANGED panicked
        /\ UNCHANGED <<memory, avail, used_ring_idx, vdisk_lock, free, info_b, intr,
                       calls, device>>

\* The loop has caught up with the device.
IntrCaughtUp ==
    /\ intr = "loop"
    /\ used_idx = used_ring_idx
    /\ intr' = "end"
    /\ UNCHANGED <<memory, avail, used, vdisk_lock, free, info_b, used_idx, b_disk, pc,
                   calls, panicked, device>>

\* Mutant: the interrupt is acknowledged at the end.
IntrEnd_AckLate ==
    /\ intr = "end"
    /\ intr' = "none"
    /\ vdisk_lock' = NoProc
    /\ isr' = 0
    /\ UNCHANGED <<memory, avail, used, free, info_b, used_idx, b_disk, pc, calls,
                   panicked, sectors, dev_idx, kicked, taken>>

\* release(); plic_complete() lets the device interrupt again.
IntrEnd ==
    /\ intr = "end"
    /\ intr' = "none"
    /\ vdisk_lock' = NoProc
    /\ UNCHANGED <<memory, avail, used, free, info_b, used_idx, b_disk, pc, calls,
                   panicked, device>>

----------------------------------------------------------------------------
(* The device, from how the driver uses it and the comments on struct disk. *)

\* It takes the next chain of the available ring.
DevTake ==
    /\ kicked = 1 /\ dev_idx # avail_idx
    /\ taken' = taken \union {avail_ring[dev_idx % NUM]}
    /\ avail_ring' = [avail_ring EXCEPT ![dev_idx % NUM] = Consumed]
    /\ dev_idx' = (dev_idx + 1) % UMAX
    /\ UNCHANGED <<memory, avail_idx, used, vdisk_lock, driver, pc, calls, panicked,
                   sectors, kicked, isr>>

\* It has caught up with the driver and stops looking until it is notified.
DevIdle ==
    /\ kicked = 1 /\ dev_idx = avail_idx
    /\ kicked' = 0
    /\ UNCHANGED <<memory, avail, used, vdisk_lock, driver, pc, calls, panicked,
                   sectors, dev_idx, taken, isr>>

\* It completes a request, in any order: it follows the chain to the header,
\* the buffer and the status byte, moves the block, reports success, adds the
\* chain to the used ring and raises its interrupt, unless it still is raised.
DevComplete(h) ==
    LET head == desc[h]
        body == desc[head.next]
        tail == desc[body.next]
    IN  /\ h \in taken
        /\ head.addr.kind = "op" /\ body.addr.kind = "data" /\ tail.addr.kind = "status"
        /\ LET k == head.addr.of.sector
               b == body.addr.of
           IN  IF head.addr.of.type = "OUT"
               THEN sectors' = [sectors EXCEPT ![k] = data[b]] /\ UNCHANGED data
               ELSE data' = [data EXCEPT ![b] = sectors[k]] /\ UNCHANGED sectors
        /\ status' = [status EXCEPT ![tail.addr.of] = 0]
        /\ taken' = taken \ {h}
        /\ used_ring' = [used_ring EXCEPT ![used_ring_idx % NUM] = h]
        /\ used_ring_idx' = (used_ring_idx + 1) % UMAX
        /\ isr' = 1
        /\ UNCHANGED <<desc, avail, vdisk_lock, driver, pc, calls, panicked, dev_idx,
                       kicked>>

----------------------------------------------------------------------------
RwStep(p) ==
    NoDescriptors(p) \/ Submit(p) \/ Publish(p) \/ Notify(p) \/ WaitAgain(p) \/ Finish(p)

IntrStep == IntrBegin \/ IntrEntry \/ IntrCaughtUp \/ IntrEnd

DevStep == DevTake \/ DevIdle \/ \E h \in Desc : DevComplete(h)

Next ==
    /\ panicked = 0
    /\ \/ \E p \in Procs : Call(p) \/ RwStep(p) \/ Kill(p)
       \/ IntrStep
       \/ DevStep

Spec == Init /\ [][Next]_vars

----------------------------------------------------------------------------
(* Properties *)

\* The descriptors of p's request.
ChainOf(p) ==
    LET d1 == desc[idx[p]].next
    IN  {idx[p], d1, desc[d1].next}

\* Between alloc3_desc() and free_chain() a request has three descriptors of
\* its own, and every other descriptor is free: none is shared, none leaks,
\* however calls, completions and wakeups interleave.
DescriptorsAccounted ==
    LET active == {p \in Procs : pc[p] \in Submitted}
    IN  /\ \A p \in active : Cardinality(ChainOf(p)) = 3
        /\ \A p, q \in active : p # q => ChainOf(p) \intersect ChainOf(q) = {}
        /\ free = Desc \ UNION {ChainOf(p) : p \in active}

\* Nobody sleeps for descriptors while three are free, although a wakeup comes
\* with the first of the three that free_chain() frees.
RwSleeperWaits ==
    (\E p \in Procs : pc[p] = "rw_sleep") => Cardinality(free) < 3

\* The entries of a ring from index i to before index j.
Entries(ring, i, j) == {ring[(i + k) % NUM] : k \in 0..((j - i) % UMAX) - 1}

\* No request is overlooked: the device has been told, or is about to be, of the
\* entries of the available ring that it has not taken.
RequestsAnnounced ==
    dev_idx # avail_idx => kicked = 1 \/ \E p \in Procs : pc[p] = "notify"

\* No completion is overlooked: an entry of the used ring that the driver has
\* not seen is announced by an interrupt, or the handler is still in its loop.
CompletionAnnounced ==
    used_idx # used_ring_idx => isr = 1 \/ intr = "loop"

\* Whoever sleeps on its buffer has a request in one of the rings or at the
\* device, and its completion has not been handed back.
RequestUnderWay ==
    \A p \in Procs : pc[p] = "wait_sleep" =>
        /\ b_disk[p] = 1
        /\ idx[p] \in Entries(avail_ring, dev_idx, avail_idx)
                      \union taken \union Entries(used_ring, used_idx, used_ring_idx)

\* Nobody is forgotten: neither a process that waits for descriptors nor, as its
\* request moves on and its completion will be seen, one that waits for its
\* transfer.
NobodyForgotten ==
    RwSleeperWaits /\ RequestsAnnounced /\ CompletionAnnounced /\ RequestUnderWay

Device == INSTANCE BlockDevice
          WITH moved <- {p \in Procs : \E d \in Desc :
                                           info_b[d] = p /\ status[d] = 0}

\* The driver implements BlockDevice: every call transfers its own block,
\* exactly once, before it returns, although the device completes requests in
\* any order and killed processes wake up early.
TransfersOnce == Device!DeviceSpec

=============================================================================
