# A TLA+ verification of xv6-ptv

xv6-ptv is MIT's xv6 for RISC-V with two additions: the system call
`getprocs()`, which copies the process table to user space, and `ptv`, a
program that prints it as a tree. This directory holds TLA+ models of the
kernel, of that extension and of the shell, TLC configurations that check
them on small instances, and TLAPS proofs of the results that matter most for
every size of the system. Every definition is translated from the source; the
`map` of `PROJECT.json` gives the lines of each.

## 1. The system

| Part | Source | State | Operations | Interacts with |
|---|---|---|---|---|
| Process table | `kernel/proc.c`, `sysproc.c` | `proc[]` (state, pid, parent, chan, killed), `nextpid`, `wait_lock` | fork, exit, wait, kill, reparent | scheduler (states), init (reaps orphans), pipes (descriptors of the dying), getprocs (reads it) |
| getprocs, ptv | `kernel/sysproc.c`, `user/ptv.c` | the `pinfo` array in user memory | one pass over the table; recursion over the array | process table |
| init | `user/init.c` | pid of its shell | fork, wait for ever | process table, which panics if init exits |
| Scheduler, sleep/wakeup, spinlocks | `kernel/proc.c`, `spinlock.c`, `trap.c` | per CPU: `proc`, `noff`, `intena`, interrupt enable; `ticks` | scheduler, sched, yield, sleep, wakeup, push_off, pop_off, clockintr, pause | everything that blocks |
| Log | `kernel/log.c` | header in memory and on disk, log blocks, `outstanding`, `committing` | begin_op, log_write, end_op, commit, recovery | buffer cache (pins), file system calls |
| Buffer cache, sleep-locks | `kernel/bio.c`, `sleeplock.c` | LRU list, `blockno`, `valid`, `refcnt`, sleep-locks | bread, bwrite, brelse, bpin, bunpin | log, file system, disk driver |
| Pipes | `kernel/pipe.c`, `file.c` | ring of 512 bytes, two 32-bit counters, open flags | read, write, close | file table (references), kill, sleep/wakeup |
| Inodes, directories, paths | `kernel/fs.c`, `sysfile.c` | `itable`, on-disk inodes | open, link, unlink, iget, ilock, iput, ... | log, buffer cache |
| File table, contents of files | `kernel/file.c`, `fs.c`, `sysfile.c` | `ftable`, descriptors, offsets, block addresses, bitmap | open, dup, pipe, read, write, close, balloc, bmap, itrunc | inodes, pipes, log (size of a transaction) |
| Disk driver | `kernel/virtio_disk.c` | descriptors, available and used ring | request, completion interrupt | buffer cache |
| Console, UART | `kernel/console.c`, `uart.c` | input ring with three indices, `tx_busy`, the UART's registers | read, write, interrupts, printf | sleep/wakeup, kill |
| Memory | `kernel/kalloc.c`, `vm.c`, `exec.c` | free list, page tables, trapframes | kalloc, kfree, mapping, copying, faults | fork, exec, sbrk, exit, wait |
| Shell | `user/sh.c` | the line, the command tree, descriptors of every process | parse, run, redirect, pipe, list, background | fork, exec, wait, pipe, dup, open, close |
| Boot, library, mkfs, other programs | `kernel/main.c`, `plic.c`, `string.c`, `mkfs/`, `user/` | | | |

What is hard about it: up to eight harts run kernel code at once and interrupts
arrive between any two instructions that run with interrupts on; locks are
dropped and taken again in the middle of operations (`kfork`, `kwait`, `bget`,
`end_op`); sleep and wakeup must not miss each other; power may fail between two
disk writes; counters wrap; and tables, buffers and the log fill up. The
`hazards` of `PROJECT.json` list these places by line, with the properties that
would fail if the code went wrong there.

What makes each part correct:

* process table: pids are unique and never reused; parent links form a tree that
  leads to init; a process is reaped once, by its parent; no zombie has a parent
  that sleeps; orphans are reaped;
* getprocs and ptv: every array that getprocs returns is a tree that ptv can
  walk and prints completely, although it is read while the table changes;
* scheduler: a kernel stack runs on one CPU; interrupts are off exactly while
  locks are held; no wakeup is lost; none of the kernel's own checks panics;
* log: operations are atomic across crashes, durable at the end of a commit, and
  have room in the log;
* buffer cache: one buffer per block, which is not recycled in use, and together
  with the disk it is indistinguishable from an array of blocks with locks;
* pipe: a FIFO of bytes that loses nothing, freed when its last user is gone;
* disk driver: every request moves its own block once, descriptors are neither
  shared nor lost, and no completion goes unnoticed;
* inodes and directories: reference counts are exact, no directory entry
  dangles, an inode is freed when its last link and its last user are gone and not
  before, and lock order excludes deadlock;
* files: a block is free or belongs to one file, references to open files are
  exact, a transaction fits the log, and a file holds what was written to it;
* console: what was typed and not erased is delivered once, in order, when its
  line is over; nobody sleeps through a wakeup; the UART's FIFO is never overrun;
* memory: every page has one owner whatever fails, and a call that fails leaves its
  caller the memory it had;
* shell: a line is parsed as its grammar says, every program gets the files that
  the line names, lists run in order, and every command ends.

## 2. The modules

| Module | Models | Kind |
|---|---|---|
| `ProcTable` | `proc.c`, `sysproc.c`, kill checks of `trap.c`, `init.c` | component |
| `ProcTableProofs` | | theorems |
| `Ptv` | `ptv.c` on top of `ProcTable` | composition |
| `AtomicDisk` | what the log promises | abstract specification |
| `Log` | `log.c` over buffers and disk, with crashes | component, implements `AtomicDisk` |
| `LogProofs` | | theorems |
| `BlockStore` | what the buffer cache promises | abstract specification |
| `Bcache` | `bio.c`, `sleeplock.c` | component, implements `BlockStore` |
| `ByteQueue` | what a pipe promises | abstract specification |
| `Pipe`, `MCPipe` | `pipe.c`, the references of `file.c` | component, implements `ByteQueue` |
| `BlockDevice` | what the disk driver promises | abstract specification |
| `Virtio`, `MCVirtio` | `virtio_disk.c` and the device | component, implements `BlockDevice` |
| `VirtioProofs` | | theorems |
| `Inode`, `MCInode` | the inode table, directories and paths of `fs.c` under the calls of `sysfile.c` | component |
| `InodeProofs` | | theorems |
| `FileContent` | what files promise | abstract specification |
| `File`, `MCFile` | `file.c`, descriptors of `sysfile.c`, `balloc` to `writei` of `fs.c` | component, implements `FileContent` |
| `FileProofs` | | theorems |
| `LineQueue` | what reading the console promises | abstract specification |
| `Console` | `console.c`, `uart.c` and the UART | component, implements `LineQueue` |
| `RingProofs` | `Console` and `Pipe`, the two rings with wrapping indices | theorems |
| `Memory`, `MCMemory` | `kalloc.c`, `vm.c`, `exec.c`, `growproc`, the memory of `kfork`, `kexit`, `kwait` | component |
| `PoolProofs` | `Bcache` and `Memory`, the pools of buffers and of pages | theorems |
| `ShParse` | the parser of `sh.c`, and a grammar to compare it with | algorithm |
| `Shell`, `MCShell` | `main` and `runcmd` of `sh.c` on top of `ShParse` | composition |
| `Sched` | `spinlock.c`, `scheduler`..`wakeup` of `proc.c`, timer part of `trap.c`, `sys_pause` | component |
| `SchedProofs` | | theorems |

Variables carry the names of the C fields and actions those of the C functions
(`kfork` is split into `ForkAlloc`, `ForkPushOff`, ..., one action per critical
section). A definition `X_Something` with the comment *Mutant* is `X` with a
plausible bug; it is no part of any specification and shows that a property
notices the bug.

**Grain of atomicity.** A step is one critical section of a spinlock, or one
synchronous disk transfer. This is justified where all data read and written in
the section are protected by that lock; a lock that is held across several steps
is a variable of its own (`wait_lock`, `pi->lock`, sleep-locks). Each module's
header says where its steps begin and end. `Sched` is the module that looks below
this level: there a step runs from one lock operation to the next, a lock
operation is a step itself, and interrupts may arrive wherever they are enabled.

**ProcTable.** `pc[p]` says where the kernel thread of slot `p` is and `i[p]` is
its loop index (in fork, the new slot). `Dispatch` and `Preempt` move a process
between RUNNABLE and RUNNING, with at most `NCPU` running. Scans that take one
`p->lock` after the other (`allocproc`, `kkill`, `getprocs`) are one step per slot;
scans under `wait_lock` (`reparent`, `kwait`, the wakeups in exit) are one step,
because what they look at changes only under `wait_lock`. Memory allocation and
`copyout` may fail at any call (`MemMayFail`, `WaitAddrs`). `panic()` leads to a
state that never changes. The init program is part of the module: the kernel
relies on its loop.

**Ptv** evaluates `ptv.c`'s recursion on the array of every completed `getprocs`,
so its properties talk about what the user sees in every reachable state.

**Log.** The disk is the home blocks, the log blocks and the header; memory is
the cached buffers with pins and locks and `struct log`. `Crash` resets all memory at
any moment, recovery included, and the first process runs recovery again. A
clean, unreferenced buffer may be evicted at any time. Only file system calls that
keep to `MAXOPBLOCKS` distinct blocks are modelled, which is the contract of
`begin_op`. The constants are abstract: any set of processes, blocks and values.

**Bcache** has the LRU list itself, since `bget` recycles by it; processes sleep on
sleep-locks. A read or write of the disk is one step, as the buffer is locked
throughout.

**Pipe.** Processes that inherited both ends read, write, close and are killed; a
`copyin`/`copyout` may fail at any byte. The counters wrap at `PIPE_UMAX`. (Names that
`Console` has too carry the prefix `Pipe` or `pipe_`: one module proves about both.)

**Virtio.** Driver, device and interrupt handler are three actors on shared rings.
The device takes requests in order and completes them in any order; it announces
a completion after adding it to the used ring, and the handler acknowledges first
and then reads until it has caught up. The 16-bit indices wrap at `UMAX`. A killed
process wakes up early and has to look at `b->disk` again.

**Inode.** Memory and disk copies of an inode are one, apart from `valid`, because
`iupdate()` runs before the inode is unlocked. `iput()` is up to three steps: the
decision under `itable.lock`, the truncation without it, and the last decrement.
Panics of `iget()`, `ilock()`, `unlink()` and of sleeping with `itable.lock` held lead to a
state that never changes. A crash is modelled between calls only, for `CrashAtomic` says
that a crash at any other time leads to the disk of such a moment; `ireclaim()` is part
of it. The calls that programs make are the constant `Calls`.

**Sched.** Each CPU runs either a process or its scheduler thread; `swtch()`
exchanges them with `p->lock` held by the CPU. Every lock operation has the checks of `acquire` (not held by
this CPU already), `release` (held by this CPU) and `pop_off`, and one that fails sets `panicked`, as do
those of `sched`. Processes call `pause()`, the one
system call that needs nothing but sleep and the clock; `ticks` wraps at `TMAX`.

**File.** A process has descriptors, a descriptor a slot of the file table, a slot an
inode, an offset and a mode; fork and dup share slots. `write()` is one step per
pass of each loop: `WriteChunk` begins a transaction and locks the inode,
`WriteBlock` is a pass of `writei` with its `bmap` and `balloc`, `WriteEnd` is what
follows the loop, with `iupdate`, and `WriteReturn` the loop condition of
`filewrite`. `logged` collects the distinct blocks of the transaction, bitmap and
inode included. A byte is the name of its writer, so that `FilesHoldWrites`
notices a byte that was never written there. A `copyin` may fail in the middle of a
block: the bytes before the failure are then in the buffer, not counted and not
logged.

**Console.** Five kinds of actors: readers, writers, `printf`, the interrupt handler
and the UART. `cons.lock` is a variable, since the handler echoes, and waits for the
UART, while it holds it, and so is `tx_lock`, for `uartwrite` sleeps on it; the busy loop of `uartputc_sync` is a step
for the test and another for the store. The UART has a FIFO, a receiver and one
pending transmitter-empty interrupt, which reading ISR clears unless a received
character is reported first. Indices are taken modulo `UMAX`, a multiple of the
ring's size as 2^32 is.

**Memory.** Page tables have the three levels of Sv39 with `FANOUT` entries, and
page-table pages are allocated and freed like any other page. The functions of
`vm.c` are operators on a record of a table, the free pages, and success; an action
is one pass of a loop of `uvmalloc`, `uvmcopy`, `kexec` or `sys_exec`, so that other
processes take pages in between. `wrong` is set by `panic("walk")`, `panic("mappages:
remap")`, `panic("freewalk: leaf")`, `panic("loadseg: address should exist")`, the checks of
`kfree`, and by freeing a page that is free. `before` is a history variable: what the
caller's memory looked like when its call began. `sys_exec` reads its argument
pointers one by one (`ExecFetch`), and a pointer in a page that `sbrk` has only promised makes `copyin`
allocate the page in the middle of the call; the strings themselves are read by `copyinstr`, which
does not. `sbrk` may give back everything: such a process has no code left to make a call with, and
exits with size 0. init starts inside `kexec("/init")` and is taken not to fault, not to give up its text, and
its first exec not to fail, as the kernel panics then by design.

**ShParse** has an operator for each function of the parser, on indices into a
buffer in place of pointers; the grammar (`Line`, `Jobs`, `Pipeline`, `Block`,
`Simple`) says in terms of positions what a line may mean and shares with the
parser only the constructors of the tree (`execcmd`, `pipecmd`, `listcmd`, `backcmd`); which descriptor
and mode a redirection has, and how redirections nest, it says for itself. **Shell** runs the tree. A process is a record of its program point,
parent, descriptors and the command it is to run; from one `fork` or `wait` to the
next it touches only its own descriptors, which is a step. Programs read to the end of their
input, or stop early; `fork`, `pipe`, `open` and `exec` may fail at any time.

## 3. The runs

| Run | Instance | Shows |
|---|---|---|
| `proctable` | `Ptv`, 3 slots, 2 CPUs, pids to 4, kill of 2 and 3, all failures | the tree of parents, no zombie with a sleeping parent, reaping by the parent only, and that `getprocs` always returns a tree that `ptv` prints completely |
| `proctable_live` | 3 slots, fair | init reaps every zombie it has, orphans included |
| `log` | 2 processes, 2 blocks, 2 values, log of 2, 1 per operation, fair | `Log` implements `AtomicDisk` with crashes anywhere; durability after the last end_op; the log has room for every block of every open operation, so that `log_write` panics only over a block that a full log already holds; who sleeps in begin_op is woken |
| `pipe` | 3 symmetric processes, ring of 2, counters modulo 4, writes of 3 | FIFO order, freed exactly at the last close, nobody sleeps without reason |
| `bcache` | 2 processes, 3 blocks, 2 buffers, 1 pin | `Bcache` implements `BlockStore`; reference counts exact; nobody sleeps for a free lock |
| `virtio` | 3 symmetric processes, 3 blocks, 2 values, 7 descriptors, indices modulo 7, kills | `Virtio` implements `BlockDevice`; descriptors are accounted for; no request, no completion and no wakeup is missed |
| `inode` | 2 symmetric processes, 3 inodes, 2 names, all calls on `a`, `b` and `/a/b`, failures, crashes | reference counts exact on every path; no entry dangles; nothing is freed that can still be found; no panic, no deadlock |
| `sched` | 2 processes, 2 CPUs, ticks modulo 2, kills, fair | one CPU per kernel stack, nesting of interrupt disabling, pause sleeps until its time, a sleeping process runs again |
| `console` | a process that reads and writes, one that writes, ring of 2, indices modulo 4, FIFO of 3, a kill | `Console` implements `LineQueue`; no reader or writer sleeps in vain; the FIFO is not overrun by its two unrelated users |
| `memory` | 3 slots, 24 pages, tables of 2 entries, 3 programs, up to 2 arguments, 4 calls | every page has exactly one owner at every step; a failed call leaves the memory as it was, but for promised pages that exec needed; a fork copies exactly; no panic |
| `file` | 2 processes, 2 inodes, 3 files, 2 descriptors, 5 blocks, 5 calls | blocks and file references exact; a transaction of at most `MAXOPBLOCKS`; `File` implements `FileContent` |
| `shell` | `a &`, then each of some 1100 lines; 7 processes, 5 descriptors, 2 arguments | parser and grammar agree; each program has the right input and output; lists in order; every command ends |

A `panic()` of the kernel leads to a state without a successor in `Virtio`, `Inode` and
`Sched`, so that deadlock checking shows that none is reachable; `Memory` and `File`
state it (`NoPanic`, and a part of `BlocksAccounted`).

**Why the bounds are enough.** Three slots are init, its shell and a grandchild,
so that orphans exist, are zombies or alive when their parent dies, and compete
for slots that are reused at once; a fourth pid makes one slot be used twice.
Two CPUs give every pair of concurrent steps. In the log two blocks with two
operations that overlap give absorption, group commit and a crash between any two
of the installations; a log of 2 is full when both are open or one has ended, so that
the next one has to wait. With two processes nobody sleeps when an operation ends and leaves
the other one open, so `SleeperWoken` does not depend on the wakeup of such an `end_op` (`log.c:163`), only on
that of the commit. Larger logs and operations are what `LogProofs` is for. A
pipe of two bytes with writes of three bytes makes writers sleep in mid-call, and
three processes are two readers and a writer or the reverse. Three blocks over two
buffers force recycling, and two processes contend for every lock. Seven descriptors
are two requests and one descriptor left over, so that a third process fails half
way through its allocation and sleeps. Three inodes are the root, a directory and a
file in it; one descriptor per process makes the second open fail.
Twenty-four pages are enough for three processes that are small and too few
for three that have grown, so that each `kalloc` of fork, exec and sbrk fails in some
behaviour; two entries per table put text, heap and trapframe under different
second-level tables. A file has one direct and two indirect blocks, so the disk of
five fills up before, at and after the indirect block; with one bitmap bit per
bitmap block a part of a write that straddles a block boundary logs
exactly `MAXOPBLOCKS` blocks: the inode, the new indirect block, the old data block,
the new one, and a bitmap block for each new one. (In the real system all bits are in
one bitmap block, and `filewrite` still counts as if they were not.) A ring of two
is full after two characters, and a FIFO of three is the least that suffices: a writer,
the echo and printf may each have a character in it. Lines of up to
three characters over all symbols contain every pair of tokens; the longer ones
nest pipes, lists, blocks and redirections; 7 processes are enough for the largest
of them and few enough for forks to fail with the background command running.
The wrap-around bounds `UMAX`, `PIPE_UMAX` and `TMAX` stand for 2^32 (2^16 in `Virtio`) and are passed many
times; with `TMAX = 2` a process that is slow to wake up finds that no time has passed and
sleeps again. Five bounds cut executions short: `Memory` and `File` end after `MaxCalls` calls,
`Shell` after the lines of `Script`, no process forks once `MaxPid` is reached, and
none calls `link()` while an inode has `MaxLink` links. (Links made in a removed directory
are never taken back, so link counts could grow for ever.) The other modules have
finite state without a bound.

Processes are a symmetry set in `MCPipe`, `MCVirtio` and `MCInode`, whose runs check safety
only; no definition there tells processes apart. `inode` leaves out paths with `..`: a
process whose current directory was removed can follow `..` to a parent that was freed,
and `ilock()` panics; `FreedUnused` does not hold then.

`pipe` runs without deadlock checking, since all processes may have closed
their ends for good, and `memory`, `file` and `shell`, which end with the last call or line; in all other runs TLC checks for deadlock too.

**Fairness.** `ProcTable`: the scheduler scans the table round robin, so a process
that is RUNNABLE again and again is dispatched; the timer stays pending while
interrupts are off, so a process that could be preempted again and again is; and a
slice suffices for a kernel step, so a thread that is RUNNING at a step again and
again takes it. All three are strong fairness, since a process is dispatched and
preempted between any two steps. For a spinning `acquire` this assumes that no hart is
overtaken for ever, which the hardware's atomic swap gives in practice and
`spinlock.c` does not guarantee by itself. Programs other than init may stop making
calls. `Log`: weak fairness of disk transfers and of kernel code outside sleep;
strong fairness of `end_op`, because an operation is finite code that reaches it.
`Sched`: strong fairness of each CPU's steps and of its timer. `Shell`: weak fairness
of the step of some process: the system does not stop while anybody can go on, which is
enough as every behaviour is finite. Crashes, kills and
new system calls are never fair.

## 4. The proofs

`ProcTableProofs` proves, for every `NPROC`, `NCPU`, `MaxPid` and every choice of arguments
and failures, that the table is well typed, that pids are unique and never
reused, and that the properties of `proctable` but `PtvShowsTree` hold. The inductive invariant
`IInv` is needed because none of them is inductive alone. `LockHeld` ties
`wait_lock` to program points, `DeadHaveNoThread` ties states to them,
and `ForkOwnsChild` says who owns a slot while `kfork` has dropped its lock. With
them: `ParentsLive` needs `ExitingChildless` (after `reparent` an exiting process has no
children, and cannot get new ones, as a process in fork is not in exit);
`AncestorsOlder` (a parent is init or has a smaller pid, hence there are no cycles)
needs `PidsUnique`, for `nextpid` exceeds every live pid; `ZombieParentAwake` needs
`LockHeld`: from the wakeup in `kexit` to the change of state nobody else holds
`wait_lock`, so the parent cannot have scanned and slept in between. Each kind of
step has a lemma, each disturbed conjunct a step below it. Theorems:
`TypeCorrect`, `NoLostWakeup`, `UniquePids`, `NoOrphans`, `ProcessTree`, and the action
properties `ReapOnce` and `FreshPids`.

`LogProofs` proves for arbitrary processes, blocks, values and log sizes with
`1 <= MAXOPBLOCKS <= LOGBLOCKS` that `Log` implements `AtomicDisk` (`CrashAtomicity`), that
the disk is current when no operation is open and nobody commits (`Durability`),
and that pins match the log (`Pins`). The refinement maps `stable` to
`RecoveredFrom(...)`, the home blocks with the entries of the header on disk
applied, and `cur` to what `bread` returns. The step of `write_head` that writes the
header is the abstract commit; every other disk write leaves `stable` as it is:
writing log blocks because the header on disk is empty, installing because what is
written is what recovery would write again. `LogInv` supplies these facts:
`NoDuplicates` (absorption works), `Exclusive` (commit runs with no open operation),
`CommitPhase` and `BootPhase` (how far commit and recovery have come), `DirtyPinned` (a
buffer that differs from its home block is pinned or locked, so eviction loses
nothing), `Holders`, `BootAlone`.

A second part of `LogProofs` is about the reservation that `begin_op` makes: the
blocks in the log and the blocks that open operations may still add (`Owed`) fit,
and the panic "too big a transaction" is met only by a block that is already in a full
log (`LogSufficient`). The code tests `(outstanding + 1) *
MAXOPBLOCKS`, which counts an operation in full although some of its blocks are in
the log already, and the blocks of operations that have ended only in `lh.n`. `Owed` is
a set of pairs of an operation and a number, so that a step of `log_write` removes
exactly one element when it adds a block; `OpWrites` says that what an operation wrote is in
the log or is the buffer that it holds.

`PoolProofs`, buffers: `refcnt` counts exactly (`ExactReferences`), nobody sleeps on a free sleep-lock
(`NoLostSleeper`), and cache and disk together implement `BlockStore` (`CacheIsStore`). `BcacheInv`
needs that the list has all buffers (or `bget` would miss one), that no block is in two
buffers, that a buffer in use keeps its block, and `CleanOrKept`: a buffer that differs
from the disk is pinned or in use, so that recycling loses nothing.

`SchedProofs`: one CPU per kernel stack (`StackOnOneCpu`), `noff` is the number of locks held (`NoffIsExact`),
no check of `sched`, `acquire`, `release` or `pop_off` fails, on `tickslock` or any `p->lock` (`NoSchedPanic`), and no process sleeps
past its tick (`NobodySleepsLate`). `SchedInv` is the table that the comments of `proc.c` imply: for
every program point which locks the CPU holds and what `noff`, `intena` and the interrupt flag are,
and for every process not on a CPU how it left. `SleepReason` has the wakeup in progress in it: a sleeper
whose time has come is one that the loop of `wakeup` has still to reach.

`RingProofs`, console: nobody sleeps through a wakeup (`NobodyOversleeps`), at most three characters are ever
in the FIFO (`FifoSuffices`), and the ring with its three wrapping indices implements `LineQueue`
(`ConsoleIsLineQueue`). `CreditKept` is the invariant behind the second: a character in the FIFO, or
a permission to send one that has been seen and not used, is one of three. `RingInv` says in which order the indices
lie, modulo `UMAX`, and that an unfinished line has no end in it.

`RingProofs`, pipe: the page is freed at the last close and not before (`FreedOnce`), nobody
sleeps without a reason (`PipeNobodyOversleeps`), and the ring implements `ByteQueue` for every
`PIPESIZE` and every counter width that is a multiple of it (`PipeIsQueue`). `PipeInv` ties
`pi->lock` to program points and says who may still be inside a call on each end; a sleeper's reason
may be gone only while another process under the lock has its wakeup still to do.
`Used <= PIPESIZE` is what makes a byte's slot of the ring its own: arithmetic modulo
`PIPE_UMAX` and `PIPESIZE` is in lemmas of its own. The lemmas about remainders serve the console too.

`VirtioProofs`: no descriptor is shared or lost (`Accounted`), nobody is forgotten (`NobodyIsForgotten`), none of
the driver's panics is reached (`NoDriverPanic`), and the driver implements `BlockDevice`
(`DriverIsDevice`), for any number of processes, at least three descriptors, and indices that wrap at any multiple of their number.
`VirtioInv` says that a request has a chain of three descriptors that describes its call (`ChainInv`) and that are
its own (`OwnInv`); that the unread part of each ring is shorter than the ring and has no entry
twice (`RingsInv`), which follows from the accounting as every entry is the head of a chain;
and that a request is in exactly one of the available ring, the device, the used ring and the
state after the interrupt, with the status that goes with it (`PlaceInv`). That `alloc_desc` finds the least
free descriptor is a proof by least counterexample, from the well-ordering theorem of the library.

`FileProofs`: the counts of the file table are exact (`FileRefs`), every block has one owner, in one place, and every file
its blocks (`BlocksOwned`), a transaction fits into what `begin_op` reserves (`TransactionsFit`), and
a file holds what was written to it, as `File` implements `FileContent` (`FilesAreContents`), for any
processes, table sizes, block sizes, alignments and number of direct and indirect blocks. `FilesInv` is about
descriptors: a `pipe` under way is the only one with its first file, and the file of a `write` under way
cannot go, as the process has a descriptor for it. `LockHeld` ties an inode's lock to the process inside `writei`,
so that no other call truncates the file or moves the offset of a write under way. `BlocksInv` needs that
free blocks are clear, as `bmap` takes a new indirect block to be empty; `Writing` that what
a `writei` has written has blocks before `size` counts it. What `bmap` may return is split into five cases,
and each is shown to add blocks to one inode only. For `TransactionsFit`, `LogBound` counts: two blocks
for each block reached (the block and its bitmap block), one less if the write begins inside of a
block, for that one exists already, one more for the bitmap block of the indirect block, and the
indirect block itself. `LogRoom` shows that this leaves room for the inode, which is why `filewrite`
subtracts `1 + 1 + 2` before it halves.
For `FilesAreContents`, `ContentInv` adds two facts. `OnePlace`: no two places of an inode hold the same block, which
is why a write to one place leaves the bytes of the others alone; it is kept because `bmap` takes a free block for each
place that it fills, and another one for the indirect block. `Written`: what a `writei` under way has written is in
the blocks that `bmap` finds for it, also where `size` does not count it yet. Under the mapping a pass of `writei` below `size` is
`Replace`, the end of a `writei` that grows the file is `Extend`, `O_TRUNC` is `Empty`, and every other step stutters.

`InodeProofs` has two inductive invariants. `RefInv` gives `RefsExact` (`ReferencesCounted`), for any processes, calls and paths:
`Control` says which locals of a call hold an inode at which program point, also while the process is in an `iput` that it will return from,
and each action is shown to be `Balanced`: what it adds to `ref` is what the acting process has gained. `TreeInv` gives `EntriesCounted`
(`EntriesAreCounted`) and `FreedUnused` (`FreedIsUnused`) for programs whose paths have no `..` (`PlainPaths`; the calls of the run
have none either), since the `..` of a removed directory is not counted and may lead to an inode that is free again.
Its parts: `Actor` ties each sleep-lock to the program points under it, and says that an inode somebody uses is neither free nor one that
`ialloc` has given a type and nobody has referenced yet; `Fresh` that such inodes are empty and unlinked; `Shape` that a directory has one name and that its `..`
agrees with it, so that `unlink` takes exactly the right link from the parent; and `Counted`, which is stronger than `EntriesCounted`: the links of an inode are at least
its entries and the calls that have counted a link without an entry for it (`link` before it makes one, `unlink` after it has cleared one).
`FreedUnused` needs the counting of entries, for only a name or a reference leads to an inode, and what `iput` frees has neither; `Counted` needs `FreedUnused`,
or the truncation would drop entries that others count on: hence one invariant. An action that leaves the inodes on disk
alone is `Quiet` and needs only facts about the process that takes it; for the others, `GentleRefs`, `GentleLocks` and `GentleInodes` say what it may do to inodes of others.

`PoolProofs`, pages: no panic of `vm.c` and `exec.c` is reached (`NeverPanics`), every page has one holder
(`EveryPageAccounted`), and a call that fails leaves its caller's memory as it was, promised pages aside (`FailuresKeepMemory`), for any number of slots, pages,
entries per table, and any programs. `MemInv` has four parts. `Typed` and `~wrong`. `Partition`: each page is free, a kernel stack, or in exactly
one of the trapframe, the page table, the table under construction and the arguments of one slot. `TablesGood`: no page of a table
is also mapped by it, and no page is mapped at two user addresses (`GoodTable`), so that `uvmunmap` and `freewalk` free each page once. `Local`, per slot: the user pages
lie below the size that will be passed to `uvmfree` (`Layout`), which is why no leaf remains; and for the program point inside `fork`, `exec`
or `sbrk`, how far the loop has come, what the child or the new image holds so far, and that the caller's memory is as it was at the beginning,
up to pages below its size that `exec` has faulted in (`Faulted`) to read its arguments (`KeptInv`; during `sbrk` it is, once the pages from the old size on are taken away, which is what the error path does).
The operators of `vm.c` have lemmas of their own: each keeps a table good (`Good`), takes from the free pages what it adds to the table and gives
back what it removes, also when it fails half way (`Conserves`), and changes the mappings it is to change and no other. A step of one
process then leaves the others alone, as its pages are disjoint from theirs (`Assemble`, `SameLocal`).

The assumptions used are the named `ASSUME`s of the component modules, which TLC
evaluates in every run of these modules. Those that are more than names being distinct:
the ring of a pipe, of the console and of the driver divides the range of its counters, as 512, 128
and 8 divide 2^32 and 2^16; the transmit FIFO has room for three characters (a 16550 has
16); `1 <= MAXOPBLOCKS <= LOGBLOCKS`; there are at least three descriptors; `MAXOPBLOCKS >= 6` (it is 10), or
`filewrite` would write nothing at a time; and the bitmap has fewer than `MAXOPBLOCKS` blocks (it has one), as `itrunc` may log all of it;
and for `Inode`, finitely many processes and names (references and entries are counted), and a `/` only at the front of a path.
For `Memory`: there are more pages than kernel stacks; `kexec` rejects a header with `memsz < filesz` (which is `ExecBadHeader`, so
`Programs` has the others); and `RoomAssumption`. `kexec` does not compare a program with `TRAPFRAME`, and a program that reached it would map over
the trapframe and panic. Either there are fewer pages than addresses below the trapframe (2^15 and about 2^26 in xv6, so `kalloc` fails
first), or the programs fit; the run has the second, the real system the first.

Only model-checked: all liveness, since the prover does not handle fairness and
`ENABLED`; what `dfs` of `Ptv` and the parser compute, which would need induction over
data (`ShParse` uses RECURSIVE operators, with which the SMT backend is lost; it has
no theorems), and with them `PtvShowsTree`, `RightStreams` and `ListsInOrder`.

## 5. Observations

Behaviour of the code that the models contain, and that is worth knowing:

* A kill that arrives between `kwait`'s check of `killed(p)` (`proc.c:407`) and its
  `sleep` wakes nobody; the killed process sleeps until a child exits, which may be
  never. The comment of `kkill` says that it wakes the process from sleep.
* A child whose `kfork` has not linked it yet (`proc.c:295`) is reported by `getprocs` with
  ppid -1, which `docs/member1-implementation.md` reserves for init and for orphans; `ptv`
  leaves it out of the tree (`Linked` in `PtvShowsTree`).
* `iput` frees an inode on disk before it drops its reference (`fs.c:356`). `create` may
  take the inode in between; if the new file is removed and closed before that
  reference is dropped, no `iput` sees the count go from one to zero with no links,
  and the inode stays allocated until `ireclaim` at the next boot.
* `kill(0)` finds the pid 0 of a free slot and marks it killed, and the next process in
  the slot dies at its first trap; the runs kill other pids only.
* `log_write` checks for a full log before it looks for the block in it, so an absorbed
  write panics in a log that is exactly full although every operation kept to its
  reservation; `log` reaches that panic.
* A file that is created in a removed directory keeps its link when the directory
  goes, and its inode is never freed.
* A writer that is killed after storing some bytes returns without the wakeup at the
  end of `pipewrite` (`pipe.c:84-87`), so `ReaderWaits` is stated for executions without
  kills.
* `param.h` sets `NBUF = LOGBLOCKS`: a full log pins as many buffers as there are, and
  `bget` panics.
* When `copyin` fails in the middle of a block, `writei` releases the buffer without
  logging it: a later read finds the bytes copied so far, unless the buffer is
  recycled first. `FilesHoldWrites` allows them, as bytes that the caller asked to write; that the
  recycling may undo them is not modelled.
* In `a > x > y` the first redirection is innermost and is done last, so the output
  goes to `x`.
* When the second `fork` of a pipeline fails, the shell's child exits without waiting
  for the left side, which becomes init's child and ends at its own pace.

## 6. What is not modelled

Register saving, the trampoline and the string library are sequential code without
shared state. Boot and the set-up of the interrupt controller are straight-line
code; the kernel's own page table is built once. `copyinstr`, `fstat` and the bytes of
pages are left out, as is `mknod`, which is `create` with another type. `mkfs` runs on
the host; the image it writes is the initial state of `Log`, `Inode` and `File`. User
programs other than init, ptv and sh are arbitrary sequences of system calls;
`usertests.c`, `grind.c` and the small test programs, about a third of the repository's lines, are
tests of what is modelled here. `umalloc.c` is sequential. In the shell, `malloc` is taken
to succeed, and `cd` changes nothing that is modelled. Instruction-level memory ordering is not
modelled: the kernel's accesses are under locks with fences, except for the flags
`started` and `panicked`.

Smaller abstractions, none of which a property depends on: `Consoleintr` has neither Control-P, which prints
the process list, nor the character 0, which it drops. The calls of `Inode` are those of `sysfile.c` on paths and
descriptors, without the references that fork and exit take and drop on the current directory and that exec takes on its
file; `ireclaim` frees all orphans in the step of the crash, so that no property says that it misses none.
In `File`, all of `pipe` after its first `filealloc` is one step, and the transaction of `open` is counted for
`O_TRUNC` only, so that the one of `create` is outside of `TransactionFits`. `FileContent` lets a write
replace any bytes of the file by the writer's: it notices two `writei` on one inode at once, not a stale offset. In `Log`,
`end_op` is guarded by `committing = 0` in place of `panic("log.committing")`, which is out of reach: `begin_op` waits
for the commit, and the commit for the last operation.

## 7. Plan

Modelled: process table, getprocs and ptv, scheduler, log, buffer cache, pipes, disk driver,
inodes and directories, files and their blocks, console, memory, shell. Proved: the safety
of process table, scheduler, log, buffer cache, pipes, disk driver, console, files, inodes and directories, and memory. Next:

1. In the models: paths with `..`, with the strongest properties that hold with them, as a hypothesis weaker than `PlainPaths`.
