-------------------------------- MODULE Pipe --------------------------------
(***************************************************************************)
(* One pipe (kernel/pipe.c) shared by several processes, each of which may  *)
(* read, write, close its ends and be killed at any time; and the part of  *)
(* kernel/file.c that counts who still has an end open.                    *)
(*                                                                         *)
(* Grain of atomicity.  pi->lock is a variable, and a pass of a loop under *)
(* it is a step: kkill() takes p->lock only, so p->killed may change       *)
(* between killed(pr) and sleep().  sleep() sets the channel and gives up  *)
(* pi->lock in one step as seen by wakeup(), whose callers hold pi->lock.  *)
(***************************************************************************)
EXTENDS Integers, Sequences, FiniteSets

CONSTANTS
    PipeProcs, \* the processes that inherited the pipe
    NoProc,    \* nobody
    Bytes,     \* contents of a byte
    PIPESIZE,  \* bytes of the buffer (512)
    PIPE_UMAX, \* the counters are unsigned ints: they wrap here (at 2^32)
    Counts,    \* the n arguments of read() and write()
    MayKill    \* may processes be killed?

ASSUME PipeAssumption ==
    /\ PIPESIZE \in Nat \ {0}
    /\ PIPE_UMAX \in Nat /\ PIPE_UMAX > PIPESIZE /\ PIPE_UMAX % PIPESIZE = 0
    /\ PipeProcs # {} /\ NoProc \notin PipeProcs
    /\ Counts \subseteq Int
    /\ MayKill \in BOOLEAN

VARIABLES
    lock,       \* the holder of pi->lock
    readopen,   \* pi->readopen
    writeopen,  \* pi->writeopen
    nread,      \* pi->nread
    nwrite,     \* pi->nwrite
    data,       \* pi->data
    freed,      \* kfree(pi) has been called
    readers,    \* the processes with a descriptor for the read end
    writers,    \* the processes with a descriptor for the write end
    pipe_killed, \* p->killed
    pipe_pc,    \* where each process is
    pipe_i,     \* its count of bytes transferred by this call
    pipe_n,     \* its argument n
    last        \* the byte most recently copied out to a user

ends == <<readopen, writeopen, freed>>
counters == <<nread, nwrite>>
refs == <<readers, writers>>
pipe_vars ==
    <<lock, ends, counters, data, refs, pipe_killed, pipe_pc, pipe_i, pipe_n, last>>

WriteLocked == {"write_loop", "write_sleep"}
ReadLocked == {"read_wait", "read_sleep", "read_copy"}
InPipe == WriteLocked \union ReadLocked \union
          {"write", "write_asleep", "read", "read_asleep"}
PC == InPipe \union {"user", "close_read", "close_write"}

TypeOK ==
    /\ lock \in PipeProcs \union {NoProc}
    /\ readopen \in {0, 1} /\ writeopen \in {0, 1} /\ freed \in {0, 1}
    /\ nread \in 0..PIPE_UMAX - 1 /\ nwrite \in 0..PIPE_UMAX - 1
    /\ data \in [0..PIPESIZE - 1 -> Bytes]
    /\ readers \subseteq PipeProcs /\ writers \subseteq PipeProcs
    /\ pipe_killed \in [PipeProcs -> {0, 1}]
    /\ pipe_pc \in [PipeProcs -> PC]
    /\ pipe_i \in [PipeProcs -> Nat] /\ pipe_n \in [PipeProcs -> Int]
    /\ last \in Bytes

----------------------------------------------------------------------------
\* pipealloc(), in memory that kalloc() filled with junk; then the process
\* that called pipe() has forked the others, which all have both ends.
PipeInit ==
    /\ lock = NoProc
    /\ readopen = 1 /\ writeopen = 1 /\ freed = 0
    /\ nread = 0 /\ nwrite = 0
    /\ data \in {[k \in 0..PIPESIZE - 1 |-> b] : b \in Bytes}
    /\ readers = PipeProcs /\ writers = PipeProcs
    /\ pipe_killed = [p \in PipeProcs |-> 0]
    /\ pipe_pc = [p \in PipeProcs |-> "user"]
    /\ pipe_i = [p \in PipeProcs |-> 0] /\ pipe_n = [p \in PipeProcs |-> 0]
    /\ last \in Bytes

PipeAt(p, l) == pipe_pc[p] = l
PipeGoto(p, l) == pipe_pc' = [pipe_pc EXCEPT ![p] = l]

\* p goes to l and wakeup(chan) makes everybody asleep at c run again at w.
WakeupAnd(p, l, c, w) ==
    pipe_pc' = [q \in PipeProcs |->
                    IF q = p THEN l
                    ELSE IF pipe_pc[q] = c THEN w ELSE pipe_pc[q]]
WakeReadersAnd(p, l) == WakeupAnd(p, l, "read_asleep", "read")
WakeWritersAnd(p, l) == WakeupAnd(p, l, "write_asleep", "write")

Acquire(p, from, to) ==
    /\ PipeAt(p, from)
    /\ lock = NoProc
    /\ lock' = p
    /\ PipeGoto(p, to)
    /\ UNCHANGED <<ends, counters, data, refs, pipe_killed, pipe_i, pipe_n, last>>

\* The tail of sleep(chan, &pi->lock): asleep, and pi->lock is free.
Sleep(p, from, to) ==
    /\ PipeAt(p, from)
    /\ lock' = NoProc
    /\ PipeGoto(p, to)
    /\ UNCHANGED <<ends, counters, data, refs, pipe_killed, pipe_i, pipe_n, last>>

\* A system call with argument k by a process that has not been killed.
Call(p, l, k) ==
    /\ PipeAt(p, "user")
    /\ pipe_killed[p] = 0
    /\ PipeGoto(p, l)
    /\ pipe_i' = [pipe_i EXCEPT ![p] = 0]
    /\ pipe_n' = [pipe_n EXCEPT ![p] = k]
    /\ UNCHANGED <<lock, ends, counters, data, refs, pipe_killed, last>>

\* The call of p is over; i and n are dead.
Done(p) ==
    /\ lock' = NoProc
    /\ pipe_i' = [pipe_i EXCEPT ![p] = 0]
    /\ pipe_n' = [pipe_n EXCEPT ![p] = 0]
    /\ UNCHANGED <<ends, data, refs, pipe_killed>>

Empty == nread = nwrite

\* Mutant: the sum is computed in a wider type than the counters.
Full_NoWrap == nwrite = nread + PIPESIZE

Full == nwrite = (nread + PIPESIZE) % PIPE_UMAX

----------------------------------------------------------------------------
(* pipewrite() *)

WriteCall(p) == p \in writers /\ \E k \in Counts : Call(p, "write", k)

WriteAcquire(p) == Acquire(p, "write", "write_loop")

\* The reader is gone, or the writer was killed: -1, whatever was written.
WriteFails(p) ==
    /\ PipeAt(p, "write_loop")
    /\ pipe_i[p] < pipe_n[p]
    /\ readopen = 0 \/ pipe_killed[p] = 1
    /\ PipeGoto(p, "user")
    /\ Done(p)
    /\ UNCHANGED <<counters, last>>

\* Room to go on?  If not, wake the readers and sleep.
WriteFull(p) ==
    /\ PipeAt(p, "write_loop")
    /\ pipe_i[p] < pipe_n[p]
    /\ readopen = 1 /\ pipe_killed[p] = 0
    /\ Full
    /\ WakeReadersAnd(p, "write_sleep")
    /\ UNCHANGED <<lock, ends, counters, data, refs, pipe_killed, pipe_i, pipe_n, last>>

WriteSleep(p) == Sleep(p, "write_sleep", "write_asleep")

WriteByte(p, b) ==
    /\ PipeAt(p, "write_loop")
    /\ pipe_i[p] < pipe_n[p]
    /\ readopen = 1 /\ pipe_killed[p] = 0
    /\ ~Full
    /\ data' = [data EXCEPT ![nwrite % PIPESIZE] = b]
    /\ nwrite' = (nwrite + 1) % PIPE_UMAX
    /\ pipe_i' = [pipe_i EXCEPT ![p] = @ + 1]
    /\ UNCHANGED <<lock, ends, nread, refs, pipe_killed, pipe_pc, pipe_n, last>>

\* copyin() fails: the call ends early with what it has written.
WriteBadAddress(p) ==
    /\ PipeAt(p, "write_loop")
    /\ pipe_i[p] < pipe_n[p]
    /\ readopen = 1 /\ pipe_killed[p] = 0
    /\ ~Full
    /\ WakeReadersAnd(p, "user")
    /\ Done(p)
    /\ UNCHANGED <<counters, last>>

WriteDone(p) ==
    /\ PipeAt(p, "write_loop")
    /\ pipe_i[p] >= pipe_n[p]
    /\ WakeReadersAnd(p, "user")
    /\ Done(p)
    /\ UNCHANGED <<counters, last>>

----------------------------------------------------------------------------
(* piperead() *)

ReadCall(p) == p \in readers /\ \E k \in Counts : Call(p, "read", k)

PipeReadAcquire(p) == Acquire(p, "read", "read_wait")

ReadKilled(p) ==
    /\ PipeAt(p, "read_wait")
    /\ Empty /\ writeopen = 1
    /\ pipe_killed[p] = 1
    /\ PipeGoto(p, "user")
    /\ Done(p)
    /\ UNCHANGED <<counters, last>>

ReadEmpty(p) ==
    /\ PipeAt(p, "read_wait")
    /\ Empty /\ writeopen = 1
    /\ pipe_killed[p] = 0
    /\ PipeGoto(p, "read_sleep")
    /\ UNCHANGED <<lock, ends, counters, data, refs, pipe_killed, pipe_i, pipe_n, last>>

PipeReadSleep(p) == Sleep(p, "read_sleep", "read_asleep")

ReadGo(p) ==
    /\ PipeAt(p, "read_wait")
    /\ ~Empty \/ writeopen = 0
    /\ PipeGoto(p, "read_copy")
    /\ UNCHANGED <<lock, ends, counters, data, refs, pipe_killed, pipe_i, pipe_n, last>>

ReadByte(p) ==
    /\ PipeAt(p, "read_copy")
    /\ pipe_i[p] < pipe_n[p] /\ ~Empty
    /\ last' = data[nread % PIPESIZE]
    /\ nread' = (nread + 1) % PIPE_UMAX
    /\ pipe_i' = [pipe_i EXCEPT ![p] = @ + 1]
    /\ UNCHANGED <<lock, ends, nwrite, data, refs, pipe_killed, pipe_pc, pipe_n>>

\* copyout() fails: the byte stays in the pipe.
ReadBadAddress(p) ==
    /\ PipeAt(p, "read_copy")
    /\ pipe_i[p] < pipe_n[p] /\ ~Empty
    /\ WakeWritersAnd(p, "user")
    /\ Done(p)
    /\ UNCHANGED <<counters, last>>

\* Mutant: piperead() without wakeup(&pi->nwrite).
ReadDone_NoWakeup(p) ==
    /\ PipeAt(p, "read_copy")
    /\ pipe_i[p] >= pipe_n[p] \/ Empty
    /\ PipeGoto(p, "user")
    /\ Done(p)
    /\ UNCHANGED <<counters, last>>

ReadDone(p) ==
    /\ PipeAt(p, "read_copy")
    /\ pipe_i[p] >= pipe_n[p] \/ Empty
    /\ WakeWritersAnd(p, "user")
    /\ Done(p)
    /\ UNCHANGED <<counters, last>>

----------------------------------------------------------------------------
(* fileclose() and pipeclose(), kkill() *)

\* fileclose(): p drops its reference, and goes on to pipeclose() if it was
\* the last one for that end.
CloseRead(p) ==
    /\ PipeAt(p, "user")
    /\ p \in readers
    /\ readers' = readers \ {p}
    /\ PipeGoto(p, IF readers = {p} THEN "close_read" ELSE "user")
    /\ UNCHANGED <<lock, ends, counters, data, writers, pipe_killed, pipe_i, pipe_n, last>>

CloseWrite(p) ==
    /\ PipeAt(p, "user")
    /\ p \in writers
    /\ writers' = writers \ {p}
    /\ PipeGoto(p, IF writers = {p} THEN "close_write" ELSE "user")
    /\ UNCHANGED <<lock, ends, counters, data, readers, pipe_killed, pipe_i, pipe_n, last>>

\* Mutant: pipeclose() frees the page when either end is closed.
Freed_EitherEnd(r, w) == IF r = 0 \/ w = 0 THEN 1 ELSE 0

\* The page goes back to kalloc() when both ends are closed.
Freed(r, w) == IF r = 0 /\ w = 0 THEN 1 ELSE 0

PipeCloseRead(p) ==
    /\ PipeAt(p, "close_read")
    /\ lock = NoProc
    /\ readopen' = 0
    /\ WakeWritersAnd(p, "user")
    /\ freed' = Freed(0, writeopen)
    /\ UNCHANGED <<lock, writeopen, counters, data, refs, pipe_killed, pipe_i, pipe_n, last>>

PipeCloseWrite(p) ==
    /\ PipeAt(p, "close_write")
    /\ lock = NoProc
    /\ writeopen' = 0
    /\ WakeReadersAnd(p, "user")
    /\ freed' = Freed(readopen, 0)
    /\ UNCHANGED <<lock, readopen, counters, data, refs, pipe_killed, pipe_i, pipe_n, last>>

\* kkill(): the flag, and the process runs again if it was asleep.
PipeKill(p) ==
    /\ MayKill
    /\ pipe_killed[p] = 0
    /\ pipe_killed' = [pipe_killed EXCEPT ![p] = 1]
    /\ pipe_pc' = [pipe_pc EXCEPT ![p] = CASE @ = "write_asleep" -> "write"
                                           [] @ = "read_asleep" -> "read"
                                           [] OTHER -> @]
    /\ UNCHANGED <<lock, ends, counters, data, refs, pipe_i, pipe_n, last>>

----------------------------------------------------------------------------
WriteStep(p) ==
    \/ WriteAcquire(p) \/ WriteFails(p) \/ WriteFull(p) \/ WriteSleep(p)
    \/ WriteBadAddress(p) \/ WriteDone(p) \/ \E b \in Bytes : WriteByte(p, b)

ReadStep(p) ==
    \/ PipeReadAcquire(p) \/ ReadKilled(p) \/ ReadEmpty(p) \/ PipeReadSleep(p)
    \/ ReadGo(p) \/ ReadByte(p) \/ ReadBadAddress(p) \/ ReadDone(p)

CloseStep(p) == PipeCloseRead(p) \/ PipeCloseWrite(p)

PipeNext ==
    \E p \in PipeProcs :
        \/ WriteCall(p) \/ WriteStep(p)
        \/ ReadCall(p) \/ ReadStep(p)
        \/ CloseRead(p) \/ CloseWrite(p) \/ CloseStep(p)
        \/ PipeKill(p)

PipeSpec == PipeInit /\ [][PipeNext]_pipe_vars

----------------------------------------------------------------------------
(* Properties *)

\* The bytes in the buffer, oldest first.
Buffered ==
    [k \in 1..(nwrite - nread) % PIPE_UMAX |->
        data[((nread + k - 1) % PIPE_UMAX) % PIPESIZE]]

Queue == INSTANCE ByteQueue
         WITH queue <- Buffered, last <- last, Capacity <- PIPESIZE

\* piperead() delivers exactly the bytes that pipewrite() stored, once each and
\* in their order, with any number of readers and writers, when calls are cut
\* short by errors or kills and when the counters wrap.
FifoOrder == Queue!QueueSpec

\* The pipe's page is freed when the last reference is gone and everybody has
\* left the pipe code, neither earlier (a use after free) nor never (a leak),
\* whichever end is closed first.
FreedAtLastClose ==
    freed = 1 <=> /\ readers = {} /\ writers = {}
                  /\ \A p \in PipeProcs : pipe_pc[p] = "user"

\* No lost wakeup: a writer is asleep only while the buffer is full and
\* somebody can still read it.
WriterWaits ==
    \A p \in PipeProcs :
        pipe_pc[p] = "write_asleep" /\ lock = NoProc => Full /\ readopen = 1

\* No lost wakeup: a reader is asleep only while the buffer is empty and
\* somebody can still fill it, as long as nobody was killed (pipewrite()'s
\* return -1 for a killed writer skips the wakeup for what it has stored).
ReaderWaits ==
    \A p \in PipeProcs :
        /\ pipe_pc[p] = "read_asleep" /\ lock = NoProc
        /\ \A q \in PipeProcs : pipe_killed[q] = 0
        => Empty /\ writeopen = 1

\* Nobody sleeps through the change it waits for, on either side of the pipe:
\* every change of a counter or of an open flag wakes the processes it lets go on.
\* For readers, in executions without kills: a killed writer forgets its wakeup.
SleepersWait == WriterWaits /\ ReaderWaits

=============================================================================
