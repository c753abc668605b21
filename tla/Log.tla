-------------------------------- MODULE Log --------------------------------
(***************************************************************************)
(* The redo log of kernel/log.c over the buffer cache and the disk, with   *)
(* concurrent operations, crashes at any moment and recovery.              *)
(*                                                                         *)
(* Grain of atomicity.  A critical section of log.lock is one step, and so *)
(* is each iteration of write_log() and install_trans() and each           *)
(* write_head(): every one of them does one synchronous disk write.  The   *)
(* disk writes a block atomically.  The buffer cache (kernel/bio.c)        *)
(* appears as the contents of the buffers of the file system's blocks,     *)
(* their locks and the log's share of their reference counts; a buffer     *)
(* that nobody refers to may be recycled at any moment.  The buffers of    *)
(* the header and of the log blocks are written to disk whenever they      *)
(* change, so they are not told apart from the disk.                       *)
(***************************************************************************)
EXTENDS Integers, FiniteSets

CONSTANTS
    Procs,        \* processes that make file system calls
    initproc,     \* the first of them, which runs recovery in forkret()
    Blocks,       \* home blocks of the file system
    Values,       \* contents of a block
    NotCached,    \* no buffer holds the block
    LOGBLOCKS,    \* blocks in the on-disk log
    MAXOPBLOCKS   \* blocks one operation may write

ASSUME ProcsAssumption ==
    IsFiniteSet(Procs) /\ initproc \in Procs /\ "none" \notin Procs
ASSUME CacheAssumption == NotCached \notin Values
ASSUME LogAssumption ==
    /\ LOGBLOCKS \in Nat /\ MAXOPBLOCKS \in Nat
    /\ 1 <= MAXOPBLOCKS /\ MAXOPBLOCKS <= LOGBLOCKS

VARIABLES
    \* on disk
    home,         \* contents of the home blocks
    logdata,      \* contents of the log blocks
    hd_n,         \* n of the header block
    hd_block,     \* block[] of the header block
    \* in memory
    cache,        \* contents of the buffers, or NotCached
    pin,          \* how often bpin() was called on the buffer, minus bunpin()
    holder,       \* the process that holds the buffer's sleep-lock, or "none"
    lh_n,         \* log.lh.n
    lh_block,     \* log.lh.block
    outstanding,  \* log.outstanding
    committing,   \* log.committing
    pc,           \* where each process is; "idle" outside the log
    tail,         \* each process's loop index in write_log and install_trans
    wrote,        \* the blocks each process has modified in its operation
    panicked      \* panic() has frozen the machine

disk == <<home, logdata, hd_n, hd_block>>
buffers == <<cache, pin, holder>>
header == <<lh_n, lh_block>>
vars == <<disk, buffers, header, outstanding, committing, pc, tail, wrote,
          panicked>>

Tails == 1..LOGBLOCKS
Boot == {"read_head", "recover", "recover_clear"}
Committing == {"write_log", "write_head", "install", "clear", "done"}
InOp == {"op", "logging"}
PC == Boot \union Committing \union InOp \union {"off", "idle", "begin", "asleep"}

TypeOK ==
    /\ home \in [Blocks -> Values]
    /\ logdata \in [Tails -> Values]
    /\ hd_n \in 0..LOGBLOCKS
    /\ hd_block \in [Tails -> Blocks]
    /\ cache \in [Blocks -> Values \union {NotCached}]
    /\ pin \in [Blocks -> Int]
    /\ holder \in [Blocks -> Procs \union {"none"}]
    /\ lh_n \in 0..LOGBLOCKS
    /\ lh_block \in [Tails -> Blocks]
    /\ outstanding \in Int
    /\ committing \in {0, 1}
    /\ pc \in [Procs -> PC]
    /\ tail \in [Procs -> Tails]
    /\ wrote \in [Procs -> SUBSET Blocks]
    /\ panicked \in {0, 1}

----------------------------------------------------------------------------
\* The machine has just been reset: memory holds nothing, and the first
\* process is about to call initlog().
Reset ==
    [cache |-> [b \in Blocks |-> NotCached],
     pin |-> [b \in Blocks |-> 0],
     holder |-> [b \in Blocks |-> "none"],
     pc |-> [p \in Procs |-> IF p = initproc THEN "read_head" ELSE "off"],
     tail |-> [p \in Procs |-> 1],
     wrote |-> [p \in Procs |-> {}]]

\* The first boot, from a disk made by mkfs, whose log is empty.
Init ==
    /\ home \in [Blocks -> Values]
    /\ logdata \in {[t \in Tails |-> v] : v \in Values}
    /\ hd_n = 0
    /\ hd_block \in {[t \in Tails |-> b] : b \in Blocks}
    /\ cache = Reset.cache
    /\ pin = Reset.pin
    /\ holder = Reset.holder
    /\ lh_n = 0
    /\ lh_block = hd_block
    /\ outstanding = 0
    /\ committing = 0
    /\ pc = Reset.pc
    /\ tail = Reset.tail
    /\ wrote = Reset.wrote
    /\ panicked = 0

Up == pc[initproc] \notin Boot
At(p, l) == panicked = 0 /\ pc[p] = l
Goto(p, l) == pc' = [pc EXCEPT ![p] = l]

\* The operations under way.
OpenOps == {p \in Procs : pc[p] \in InOp}

\* The blocks named by the in-memory header.
Logged == {lh_block[t] : t \in 1..lh_n}

\* What bread(b) returns.
View(b) == IF cache[b] = NotCached THEN home[b] ELSE cache[b]

\* wakeup(&log), after which the caller is at l.
WakeupAnd(p, l) ==
    pc' = [q \in Procs |-> IF q = p THEN l
                           ELSE IF pc[q] = "asleep" THEN "begin" ELSE pc[q]]

\* write_head(): only the first n entries are copied.
write_head(n) ==
    /\ hd_n' = n
    /\ hd_block' = [t \in Tails |-> IF t <= n THEN lh_block[t] ELSE hd_block[t]]

----------------------------------------------------------------------------
(* begin_op() *)

Call(p) ==
    /\ At(p, "idle")
    /\ Goto(p, "begin")
    /\ UNCHANGED <<disk, buffers, header, outstanding, committing, tail, wrote,
                   panicked>>

\* Mutant: the reservation forgets the operation that is about to begin.
MustWait_NotCountingItself ==
    committing = 1 \/ lh_n + outstanding * MAXOPBLOCKS > LOGBLOCKS

\* The log is being committed or might run out of space.
MustWait ==
    \/ committing = 1
    \/ lh_n + (outstanding + 1) * MAXOPBLOCKS > LOGBLOCKS

\* sleep(&log, &log.lock).
BeginSleep(p) ==
    /\ At(p, "begin")
    /\ MustWait
    /\ Goto(p, "asleep")
    /\ UNCHANGED <<disk, buffers, header, outstanding, committing, tail, wrote,
                   panicked>>

BeginGo(p) ==
    /\ At(p, "begin")
    /\ ~MustWait
    /\ outstanding' = outstanding + 1
    /\ Goto(p, "op")
    /\ wrote' = [wrote EXCEPT ![p] = {}]
    /\ UNCHANGED <<disk, buffers, header, committing, tail, panicked>>

----------------------------------------------------------------------------
(* An operation: bread, modify, log_write, brelse *)

\* bp = bread(b); modify bp->data.  The callers keep to MAXOPBLOCKS blocks.
Modify(p, b, v) ==
    /\ At(p, "op")
    /\ holder[b] = "none"
    /\ b \in wrote[p] \/ Cardinality(wrote[p]) < MAXOPBLOCKS
    /\ holder' = [holder EXCEPT ![b] = p]
    /\ cache' = [cache EXCEPT ![b] = v]
    /\ wrote' = [wrote EXCEPT ![p] = @ \union {b}]
    /\ Goto(p, "logging")
    /\ UNCHANGED <<disk, pin, header, outstanding, committing, tail, panicked>>

\* The checks of log_write(), made even when the block will be absorbed.
LogWritePanics == lh_n >= LOGBLOCKS \/ outstanding < 1

LogWritePanic(p) ==
    /\ At(p, "logging")
    /\ LogWritePanics
    /\ panicked' = 1
    /\ UNCHANGED <<disk, buffers, header, outstanding, committing, pc, tail, wrote>>

\* log_write(bp); brelse(bp).
log_write(p, b) ==
    /\ At(p, "logging")
    /\ holder[b] = p
    /\ ~LogWritePanics
    /\ \/ /\ b \in Logged   \* log absorption
          /\ UNCHANGED <<header, pin>>
       \/ /\ b \notin Logged
          /\ lh_n' = lh_n + 1
          /\ lh_block' = [lh_block EXCEPT ![lh_n + 1] = b]
          /\ pin' = [pin EXCEPT ![b] = @ + 1]
    /\ holder' = [holder EXCEPT ![b] = "none"]
    /\ Goto(p, "op")
    /\ UNCHANGED <<disk, cache, outstanding, committing, tail, wrote, panicked>>

----------------------------------------------------------------------------
(* end_op() and commit() *)

\* Others are still in their operations: the space reserved for this one is
\* free again.  (end_op() panics if log.committing is set; begin_op() is why
\* no process inside an operation ever finds it set.)
EndOther(p) ==
    /\ At(p, "op")
    /\ committing = 0
    /\ outstanding # 1
    /\ outstanding' = outstanding - 1
    /\ WakeupAnd(p, "idle")
    /\ wrote' = [wrote EXCEPT ![p] = {}]
    /\ UNCHANGED <<disk, buffers, header, committing, tail, panicked>>

\* Mutants of the last end_op(): the header is written before the log blocks;
\* commit() is left out; log.committing is not set.
EndLastAs(p, l, c) ==
    /\ At(p, "op")
    /\ committing = 0
    /\ outstanding = 1
    /\ outstanding' = 0
    /\ committing' = c
    /\ Goto(p, IF lh_n > 0 THEN l ELSE "done")
    /\ tail' = [tail EXCEPT ![p] = 1]
    /\ wrote' = [wrote EXCEPT ![p] = {}]
    /\ UNCHANGED <<disk, buffers, header, panicked>>

EndLast_HeaderFirst(p) == EndLastAs(p, "write_head", 1)

EndLast_NoCommit(p) == EndLastAs(p, "done", 1)

\* The last one commits; commit() does nothing when nothing was written.
EndLast(p) ==
    /\ At(p, "op")
    /\ committing = 0
    /\ outstanding = 1
    /\ outstanding' = 0
    /\ committing' = 1
    /\ Goto(p, IF lh_n > 0 THEN "write_log" ELSE "done")
    /\ tail' = [tail EXCEPT ![p] = 1]
    /\ wrote' = [wrote EXCEPT ![p] = {}]
    /\ UNCHANGED <<disk, buffers, header, panicked>>

\* The loop over the header's entries: on to the next one, or to l.
LoopOr(p, l) ==
    IF tail[p] < lh_n
    THEN tail' = [tail EXCEPT ![p] = @ + 1] /\ UNCHANGED pc
    ELSE tail' = [tail EXCEPT ![p] = 1] /\ Goto(p, l)

\* One iteration of write_log().
write_log(p) ==
    /\ At(p, "write_log")
    /\ LET b == lh_block[tail[p]] IN
        /\ holder[b] = "none"
        /\ logdata' = [logdata EXCEPT ![tail[p]] = View(b)]
        /\ cache' = [cache EXCEPT ![b] = View(b)]
    /\ LoopOr(p, "write_head")
    /\ UNCHANGED <<home, hd_n, hd_block, pin, holder, header, outstanding,
                   committing, wrote, panicked>>

\* "The real commit."
CommitHead(p) ==
    /\ At(p, "write_head")
    /\ write_head(lh_n)
    /\ Goto(p, "install")
    /\ UNCHANGED <<home, logdata, buffers, header, outstanding, committing, tail,
                   wrote, panicked>>

\* One iteration of install_trans(): the log block goes to its home.
Install(p) ==
    LET b == lh_block[tail[p]] IN
        /\ holder[b] = "none"
        /\ home' = [home EXCEPT ![b] = logdata[tail[p]]]
        /\ cache' = [cache EXCEPT ![b] = logdata[tail[p]]]

install_trans(p) ==
    /\ At(p, "install")
    /\ Install(p)
    /\ pin' = [pin EXCEPT ![lh_block[tail[p]]] = @ - 1]
    /\ LoopOr(p, "clear")
    /\ UNCHANGED <<logdata, hd_n, hd_block, holder, header, outstanding,
                   committing, wrote, panicked>>

\* log.lh.n = 0; write_head().
ClearHead(p) ==
    /\ At(p, "clear")
    /\ lh_n' = 0
    /\ write_head(0)
    /\ Goto(p, "done")
    /\ UNCHANGED <<home, logdata, buffers, lh_block, outstanding, committing, tail,
                   wrote, panicked>>

\* Mutant: the wakeup(&log) after commit() is missing.
Committed_NoWakeup(p) ==
    /\ At(p, "done")
    /\ committing' = 0
    /\ Goto(p, "idle")
    /\ UNCHANGED <<disk, buffers, header, outstanding, tail, wrote, panicked>>

Committed(p) ==
    /\ At(p, "done")
    /\ committing' = 0
    /\ WakeupAnd(p, "idle")
    /\ UNCHANGED <<disk, buffers, header, outstanding, tail, wrote, panicked>>

----------------------------------------------------------------------------
(* recover_from_log(), run by the first process before there are others *)

read_head ==
    /\ At(initproc, "read_head")
    /\ lh_n' = hd_n
    /\ lh_block' = [t \in Tails |-> IF t <= hd_n THEN hd_block[t] ELSE lh_block[t]]
    /\ Goto(initproc, IF hd_n > 0 THEN "recover" ELSE "recover_clear")
    /\ UNCHANGED <<disk, buffers, outstanding, committing, tail, wrote, panicked>>

RecoverInstall ==
    /\ At(initproc, "recover")
    /\ Install(initproc)
    /\ LoopOr(initproc, "recover_clear")
    /\ UNCHANGED <<logdata, hd_n, hd_block, pin, holder, header, outstanding,
                   committing, wrote, panicked>>

RecoverClear ==
    /\ At(initproc, "recover_clear")
    /\ lh_n' = 0
    /\ write_head(0)
    /\ pc' = [p \in Procs |-> "idle"]
    /\ UNCHANGED <<home, logdata, buffers, lh_block, outstanding, committing, tail,
                   wrote, panicked>>

----------------------------------------------------------------------------
(* The buffer cache and the machine *)

\* A process reads a block, inside or outside an operation.
Fetch(b) ==
    /\ Up /\ panicked = 0
    /\ cache[b] = NotCached
    /\ cache' = [cache EXCEPT ![b] = home[b]]
    /\ UNCHANGED <<disk, pin, holder, header, outstanding, committing, pc, tail,
                   wrote, panicked>>

\* bget() recycles a buffer whose refcnt is 0.
Evict(b) ==
    /\ panicked = 0
    /\ cache[b] # NotCached
    /\ pin[b] = 0 /\ holder[b] = "none"
    /\ cache' = [cache EXCEPT ![b] = NotCached]
    /\ UNCHANGED <<disk, pin, holder, header, outstanding, committing, pc, tail,
                   wrote, panicked>>

\* Power fails, or somebody resets a machine that has panicked.
Crash ==
    /\ cache' = Reset.cache
    /\ pin' = Reset.pin
    /\ holder' = Reset.holder
    /\ lh_n' = 0
    /\ outstanding' = 0
    /\ committing' = 0
    /\ pc' = Reset.pc
    /\ tail' = Reset.tail
    /\ wrote' = Reset.wrote
    /\ panicked' = 0
    /\ UNCHANGED <<disk, lh_block>>

Op(p) == \E b \in Blocks : log_write(p, b) \/ \E v \in Values : Modify(p, b, v)

EndOp(p) == EndOther(p) \/ EndLast(p)

CommitStep(p) ==
    write_log(p) \/ CommitHead(p) \/ install_trans(p) \/ ClearHead(p) \/ Committed(p)

Recover == read_head \/ RecoverInstall \/ RecoverClear

Next ==
    \/ \E p \in Procs :
        \/ Call(p) \/ BeginSleep(p) \/ BeginGo(p)
        \/ Op(p) \/ LogWritePanic(p) \/ EndOp(p) \/ CommitStep(p)
    \/ Recover
    \/ \E b \in Blocks : Fetch(b) \/ Evict(b)
    \/ Crash

Spec == Init /\ [][Next]_vars

(***************************************************************************)
(* Fairness, for liveness.  A process inside the kernel keeps running, and *)
(* a disk write completes: weak fairness of its steps.  An operation is a  *)
(* finite piece of kernel code, so it reaches end_op(): strong fairness,   *)
(* as end_op() is out of reach while the process is inside log_write().    *)
(***************************************************************************)
Fairness ==
    /\ \A p \in Procs :
        /\ WF_vars(BeginSleep(p) \/ BeginGo(p))
        /\ WF_vars(LogWritePanic(p) \/ \E b \in Blocks : log_write(p, b))
        /\ SF_vars(EndOp(p))
        /\ WF_vars(CommitStep(p))
    /\ WF_vars(Recover)

FairSpec == Spec /\ Fairness

----------------------------------------------------------------------------
(* Safety *)

\* The home blocks as recovery leaves them, from a header (n, block), log
\* blocks and home blocks: of several entries for b the last is installed last.
RecoveredFrom(n, block, data, homes) ==
    LET Entries(b) == {t \in 1..n : block[t] = b}
        Last(b) == CHOOSE t \in Entries(b) : \A u \in Entries(b) : u <= t
    IN  [b \in Blocks |-> IF Entries(b) = {} THEN homes[b] ELSE data[Last(b)]]

Recovered == RecoveredFrom(hd_n, hd_block, logdata, home)

\* File system operations are atomic across crashes: whatever the moment of a
\* crash, inside commit() or inside recovery too, the disk recovers to the
\* contents at a moment when no operation was under way, and while the system
\* is up readers see every write (comment at the top of kernel/log.c).
Current == IF Up THEN [b \in Blocks |-> View(b)] ELSE Recovered

Atomic == INSTANCE AtomicDisk
          WITH cur <- Current, stable <- Recovered,
               open <- OpenOps

CrashAtomic == Atomic!AbsSpec

\* When the last end_op() has returned, everything written is on the disk.
QuietDurable ==
    Up /\ outstanding = 0 /\ committing = 0 =>
        hd_n = 0 /\ \A b \in Blocks : View(b) = home[b]

\* While nobody commits, exactly the logged blocks are pinned, once each: a
\* modified buffer cannot be recycled, and no pin is left behind to shrink
\* the cache (bpin() in log_write(), bunpin() in install_trans()).
PinsMatchLog ==
    Up /\ committing = 0 =>
        \A b \in Blocks : pin[b] = IF b \in Logged THEN 1 ELSE 0

\* The blocks that the operations under way may still add to the log: the k-th
\* block of p's operation is owed when p has yet to modify it, and when p holds
\* it and has yet to log it.
Owed ==
    {c \in OpenOps \X (1..MAXOPBLOCKS) :
        LET p == c[1]
            k == c[2]
        IN  \/ k > Cardinality(wrote[p])
            \/ /\ k = Cardinality(wrote[p])
               /\ \E b \in Blocks : holder[b] = p /\ b \notin Logged}

\* The log has room for all the blocks that the operations under way may add.
LogReserved == lh_n + Cardinality(Owed) <= LOGBLOCKS

\* log_write() only panics in an operation, on a full log, for a block that it
\* would absorb.
PanicsOnlyAbsorbing ==
    \A p \in Procs : At(p, "logging") /\ LogWritePanics =>
        /\ outstanding >= 1
        /\ \A b \in Blocks : holder[b] = p => b \in Logged

\* begin_op()'s reservation is sound: the log has room for whatever the admitted
\* operations may still write, so a block that is not in it yet finds room.
LogSuffices == LogReserved /\ PanicsOnlyAbsorbing

----------------------------------------------------------------------------
(* Liveness, under FairSpec *)

\* A process asleep in begin_op() is woken, or the machine stops.
SleeperWoken ==
    \A p \in Procs : pc[p] = "asleep" ~> pc[p] # "asleep" \/ panicked = 1

=============================================================================
