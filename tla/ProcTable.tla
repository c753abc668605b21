----------------------------- MODULE ProcTable -----------------------------
(***************************************************************************)
(* The process table of xv6: fork, exit, wait, kill, getprocs and the      *)
(* switch between RUNNABLE and RUNNING (kernel/proc.c, kernel/sysproc.c,    *)
(* the kill checks of usertrap in kernel/trap.c, and the init program of   *)
(* user/init.c, whose obligation to reap orphans the kernel relies on).    *)
(*                                                                         *)
(* Grain of atomicity.  Every read or write of p->state, p->pid, p->chan   *)
(* and p->killed happens with p->lock held, so one critical section of     *)
(* p->lock is one step.  wait_lock spans several of them and is a          *)
(* variable.  A loop over the table that takes the locks one after the     *)
(* other is one step per slot (index i[p]), except kwait's scan and the    *)
(* scans of reparent and wakeup: they run with wait_lock held, and nobody  *)
(* else can change a parent pointer, make a child a ZOMBIE or fall asleep  *)
(* in wait() meanwhile, so they are one step.                              *)
(***************************************************************************)
EXTENDS Integers, Sequences, FiniteSets

CONSTANTS
    NPROC,      \* slots of the process table (64 in kernel/param.h)
    NCPU,       \* harts running scheduler()
    MaxPid,     \* bound: no program forks, and no later process exits, past it
    KillPids,   \* the pids that programs pass to kill()
    WaitAddrs,  \* the addresses passed to wait(): 0 for null, 1 for a user one
    MaxCounts,  \* the max_count arguments that programs pass to getprocs()
    MemMayFail, \* may kalloc() fail inside fork()?
    MayFault    \* may programs cause unexpected exceptions?

ASSUME NprocAssumption == NPROC \in Nat /\ NPROC >= 1
ASSUME NcpuAssumption == NCPU \in Nat /\ NCPU >= 1
ASSUME ArgAssumption ==
    /\ MaxPid \in Nat
    /\ KillPids \subseteq Int
    /\ WaitAddrs \subseteq {0, 1}
    /\ MaxCounts \subseteq Int
    /\ MemMayFail \in BOOLEAN
    /\ MayFault \in BOOLEAN

VARIABLES
    state,      \* p->state
    pid,        \* p->pid, 0 in a free slot
    parent,     \* p->parent, None for a null pointer
    chan,       \* p->chan: a slot (its address), None for 0
    killed,     \* p->killed
    nextpid,    \* the counter of allocpid()
    wait_lock,  \* the slot whose kernel thread holds wait_lock, or None
    pc,         \* where p's kernel thread is; "user" in user space
    i,          \* p's loop index over the table; in kfork also np
    a0,         \* p's argument register, then the return value
    shpid,      \* init.c: pid of the shell, 0 before it is forked
    snap,       \* the pinfo array getprocs() has copied out so far
    panicked    \* panic() has frozen the machine

table == <<state, pid, parent, chan, killed, nextpid>>
vars == <<table, wait_lock, pc, i, a0, shpid, snap, panicked>>

Slots == 1..NPROC
Index == 1..NPROC + 1   \* values of a loop index over the table
None == 0
initproc == 1
State == {"UNUSED", "USED", "SLEEPING", "RUNNABLE", "RUNNING", "ZOMBIE"}

\* Program points inside which p holds wait_lock.
ExitLocked == {"exit_reparent", "exit_wake", "exit_zombie"}
WaitLocked == {"wait_scan", "wait_killed", "wait_sleep"}
Locked == ExitLocked \union WaitLocked \union {"getprocs_scan"}
\* Program points inside acquire(&wait_lock): spinning with interrupts off.
Spinning == {"fork_spin", "exit_spin", "wait_spin", "getprocs_spin"}
Forking == {"fork_parent", "fork_spin", "fork_run"}
Unlinked == {"fork_parent", "fork_spin"}
PC == Locked \union Spinning \union Forking \union
      {"user", "ret", "fork_scan", "exit", "wait", "wait_wake",
       "kill_scan", "getprocs", "dead"}

PInfo == [pid : Int, ppid : Int, state : State]

TypeOK ==
    /\ state \in [Slots -> State]
    /\ pid \in [Slots -> Nat]
    /\ parent \in [Slots -> Slots \union {None}]
    /\ chan \in [Slots -> Slots \union {None}]
    /\ killed \in [Slots -> {0, 1}]
    /\ nextpid \in Nat
    /\ wait_lock \in Slots \union {None}
    /\ pc \in [Slots -> PC]
    /\ i \in [Slots -> Index]
    /\ a0 \in [Slots -> Int]
    /\ shpid \in Int
    /\ snap \in Seq(PInfo)
    /\ panicked \in {0, 1}

----------------------------------------------------------------------------
\* userinit(): slot 1 holds the first process, about to run /init.
Init ==
    /\ state = [s \in Slots |-> IF s = initproc THEN "RUNNABLE" ELSE "UNUSED"]
    /\ pid = [s \in Slots |-> IF s = initproc THEN 1 ELSE 0]
    /\ parent = [s \in Slots |-> None]
    /\ chan = [s \in Slots |-> None]
    /\ killed = [s \in Slots |-> 0]
    /\ nextpid = 2
    /\ wait_lock = None
    /\ pc = [s \in Slots |-> IF s = initproc THEN "user" ELSE "dead"]
    /\ i = [s \in Slots |-> 1]
    /\ a0 = [s \in Slots |-> 0]
    /\ shpid = 0
    /\ snap = <<>>
    /\ panicked = 0

\* p's kernel or user thread is running on some CPU and is at l.
At(p, l) == panicked = 0 /\ state[p] = "RUNNING" /\ pc[p] = l

Goto(p, l) == pc' = [pc EXCEPT ![p] = l]

\* The system call of p is over, with return value v; its loop index is dead.
Return(p, v) ==
    /\ pc' = [pc EXCEPT ![p] = "ret"]
    /\ a0' = [a0 EXCEPT ![p] = v]
    /\ i' = [i EXCEPT ![p] = 1]

\* acquire(&wait_lock) turns interrupts off, then spins until it has the lock.
PushOff(p, from, to) ==
    /\ At(p, from)
    /\ Goto(p, to)
    /\ UNCHANGED <<table, wait_lock, i, a0, shpid, snap, panicked>>

Acquire(p) == wait_lock = None /\ wait_lock' = p
Release == wait_lock' = None

Children(p) == {s \in Slots : parent[s] = p}

\* Mutant: wait() that forgets to compare pp->parent.
ZombieChildren_AnyParent(p) == {s \in Slots : state[s] = "ZOMBIE"}

ZombieChildren(p) == {s \in Children(p) : state[s] = "ZOMBIE"}

\* wakeup(c) called by p: what it makes of p->state for every slot.
Wakeup(p, c) ==
    [s \in Slots |-> IF s # p /\ state[s] = "SLEEPING" /\ chan[s] = c
                     THEN "RUNNABLE" ELSE state[s]]

\* freeproc(s): the slot is UNUSED again and remembers nothing.
freeproc(s) ==
    /\ state' = [state EXCEPT ![s] = "UNUSED"]
    /\ pid' = [pid EXCEPT ![s] = 0]
    /\ parent' = [parent EXCEPT ![s] = None]
    /\ chan' = [chan EXCEPT ![s] = None]
    /\ killed' = [killed EXCEPT ![s] = 0]

----------------------------------------------------------------------------
(* scheduler() and yield() *)

\* scheduler(): an idle CPU switches to a RUNNABLE process.
Dispatch(p) ==
    /\ panicked = 0
    /\ state[p] = "RUNNABLE"
    /\ Cardinality({s \in Slots : state[s] = "RUNNING"}) < NCPU
    /\ state' = [state EXCEPT ![p] = "RUNNING"]
    /\ UNCHANGED <<pid, parent, chan, killed, nextpid, wait_lock, pc, i, a0,
                   shpid, snap, panicked>>

\* A timer interrupt makes p yield(); from the start of acquire() to release()
\* interrupts are off.  A p->killed set after usertrap()'s check of it is seen
\* only at the next trap.
Preempt(p) ==
    /\ panicked = 0
    /\ state[p] = "RUNNING"
    /\ pc[p] \notin Spinning \union Locked
    /\ state' = [state EXCEPT ![p] = "RUNNABLE"]
    /\ UNCHANGED <<pid, parent, chan, killed, nextpid, wait_lock, pc, i, a0,
                   shpid, snap, panicked>>

----------------------------------------------------------------------------
(* usertrap(): entering and leaving the kernel *)

\* Any trap of a process that has been killed ends in kexit(-1).
TrapKilled(p) ==
    /\ At(p, "user")
    /\ killed[p] = 1
    /\ Goto(p, "exit")
    /\ UNCHANGED <<table, wait_lock, i, a0, shpid, snap, panicked>>

\* An unexpected exception: setkilled(p), then the check before returning.
Fault(p) ==
    /\ MayFault
    /\ At(p, "user")
    /\ p # initproc
    /\ pid[p] <= MaxPid
    /\ killed' = [killed EXCEPT ![p] = 1]
    /\ Goto(p, "ret")
    /\ UNCHANGED <<state, pid, parent, chan, nextpid, wait_lock, i, a0, shpid,
                   snap, panicked>>

\* A system call that enters the kernel at l with argument v in a0.
Syscall(p, l, v) ==
    /\ At(p, "user")
    /\ killed[p] = 0
    /\ Goto(p, l)
    /\ a0' = [a0 EXCEPT ![p] = v]
    /\ i' = [i EXCEPT ![p] = 1]
    /\ UNCHANGED <<table, wait_lock, shpid, snap, panicked>>

\* The programs other than init may make any call at any time.
UserSyscall(p) ==
    /\ p # initproc
    /\ \/ nextpid <= MaxPid /\ Syscall(p, "fork_scan", 0)
       \/ pid[p] <= MaxPid /\ Syscall(p, "exit", 0)
       \/ \E addr \in WaitAddrs : Syscall(p, "wait", addr)
       \/ \E k \in KillPids : Syscall(p, "kill_scan", k)
       \/ \E n \in MaxCounts : Syscall(p, "getprocs", n)

\* init.c: fork a shell, then wait((int *) 0) until it is the one reaped.
InitSyscall ==
    \/ shpid = 0 /\ Syscall(initproc, "fork_scan", 0)
    \/ shpid # 0 /\ Syscall(initproc, "wait", 0)

\* usertrap()'s way back to user space: the last check of p->killed.
SysReturn(p) ==
    /\ At(p, "ret")
    /\ killed[p] = 0
    /\ p # initproc
    /\ Goto(p, "user")
    /\ a0' = [a0 EXCEPT ![p] = 0]
    /\ UNCHANGED <<table, wait_lock, i, shpid, snap, panicked>>

SysReturnKilled(p) ==
    /\ At(p, "ret")
    /\ killed[p] = 1
    /\ Goto(p, "exit")
    /\ a0' = [a0 EXCEPT ![p] = 0]
    /\ UNCHANGED <<table, wait_lock, i, shpid, snap, panicked>>

\* init.c looks at the result: an error makes it exit, the shell's pid makes
\* it fork again, any other pid was an orphan's.
InitReturn ==
    /\ At(initproc, "ret")
    /\ killed[initproc] = 0
    /\ Goto(initproc, IF a0[initproc] < 0 THEN "exit" ELSE "user")
    /\ shpid' = CASE a0[initproc] < 0 -> shpid
                  [] a0[initproc] >= 0 /\ shpid = 0 -> a0[initproc]
                  [] a0[initproc] >= 0 /\ shpid = a0[initproc] -> 0
                  [] OTHER -> shpid
    /\ a0' = [a0 EXCEPT ![initproc] = 0]
    /\ UNCHANGED <<table, wait_lock, i, snap, panicked>>

----------------------------------------------------------------------------
(* kfork() *)

\* allocproc(): the slot under the loop index is taken, or the loop ends.
ForkSkip(p) ==
    /\ At(p, "fork_scan")
    /\ IF i[p] > NPROC
       THEN Return(p, -1)
       ELSE /\ state[i[p]] # "UNUSED"
            /\ i' = [i EXCEPT ![p] = @ + 1]
            /\ UNCHANGED <<pc, a0>>
    /\ UNCHANGED <<table, wait_lock, shpid, snap, panicked>>

\* allocproc() found a slot and everything fits in memory; np->lock is held
\* up to its release in kfork().  p->killed is not touched: it is whatever the
\* free slot had.
ForkAlloc(p) ==
    /\ At(p, "fork_scan")
    /\ i[p] <= NPROC
    /\ state[i[p]] = "UNUSED"
    /\ pid' = [pid EXCEPT ![i[p]] = nextpid]
    /\ nextpid' = nextpid + 1
    /\ state' = [state EXCEPT ![i[p]] = "USED"]
    /\ pc' = [pc EXCEPT ![p] = "fork_parent", ![i[p]] = "user"]
    /\ a0' = [a0 EXCEPT ![i[p]] = 0]
    /\ UNCHANGED <<parent, chan, killed, wait_lock, i, shpid, snap, panicked>>

\* A kalloc() failed after allocpid(): freeproc(np), fork returns -1.
ForkNoMem(p) ==
    /\ MemMayFail
    /\ At(p, "fork_scan")
    /\ i[p] <= NPROC
    /\ state[i[p]] = "UNUSED"
    /\ nextpid' = nextpid + 1
    /\ freeproc(i[p])
    /\ Return(p, -1)
    /\ UNCHANGED <<wait_lock, shpid, snap, panicked>>

\* The registers, open files, working directory and name are copied (their
\* reference counts belong to the file system), np->lock is released; then
\* acquire(&wait_lock); np->parent = p; release(&wait_lock).
ForkPushOff(p) == PushOff(p, "fork_parent", "fork_spin")

\* Mutant: the assignment np->parent = p the wrong way round.
ForkParent_Swapped(p) ==
    /\ At(p, "fork_spin")
    /\ wait_lock = None
    /\ parent' = [parent EXCEPT ![p] = i[p]]
    /\ Goto(p, "fork_run")
    /\ UNCHANGED <<state, pid, chan, killed, nextpid, wait_lock, i, a0, shpid,
                   snap, panicked>>

ForkParent(p) ==
    /\ At(p, "fork_spin")
    /\ wait_lock = None
    /\ parent' = [parent EXCEPT ![i[p]] = p]
    /\ Goto(p, "fork_run")
    /\ UNCHANGED <<state, pid, chan, killed, nextpid, wait_lock, i, a0, shpid,
                   snap, panicked>>

\* np->state = RUNNABLE, and fork returns the child's pid.
ForkRun(p) ==
    /\ At(p, "fork_run")
    /\ state' = [state EXCEPT ![i[p]] = "RUNNABLE"]
    /\ Return(p, pid[i[p]])
    /\ UNCHANGED <<pid, parent, chan, killed, nextpid, wait_lock, shpid,
                   snap, panicked>>

----------------------------------------------------------------------------
(* kexit() *)

\* panic("init exiting") stops everything.
ExitInit(p) ==
    /\ At(p, "exit")
    /\ p = initproc
    /\ panicked' = 1
    /\ UNCHANGED <<table, wait_lock, pc, i, a0, shpid, snap>>

\* Closing the files and dropping the working directory may put p to sleep on
\* the file system's channels, which only delays it; then acquire(&wait_lock).
ExitPushOff(p) == p # initproc /\ PushOff(p, "exit", "exit_spin")

ExitAcquire(p) ==
    /\ At(p, "exit_spin")
    /\ Acquire(p)
    /\ Goto(p, "exit_reparent")
    /\ UNCHANGED <<table, i, a0, shpid, snap, panicked>>

\* Mutant: kexit() without its call of reparent().
ExitReparent_Skipped(p) ==
    /\ At(p, "exit_reparent")
    /\ Goto(p, "exit_wake")
    /\ UNCHANGED <<table, wait_lock, i, a0, shpid, snap, panicked>>

\* Mutant: reparent() without wakeup(initproc).
ExitReparent_NoWakeup(p) ==
    /\ At(p, "exit_reparent")
    /\ parent' = [s \in Slots |-> IF parent[s] = p THEN initproc ELSE parent[s]]
    /\ Goto(p, "exit_wake")
    /\ UNCHANGED <<state, pid, chan, killed, nextpid, wait_lock, i, a0, shpid,
                   snap, panicked>>

\* reparent(p): hand the children to init, and wake it if there are any.
ExitReparent(p) ==
    /\ At(p, "exit_reparent")
    /\ parent' = [s \in Slots |-> IF parent[s] = p THEN initproc ELSE parent[s]]
    /\ state' = IF Children(p) = {} THEN state ELSE Wakeup(p, initproc)
    /\ Goto(p, "exit_wake")
    /\ UNCHANGED <<pid, chan, killed, nextpid, wait_lock, i, a0, shpid, snap,
                   panicked>>

\* Mutant: kexit() without wakeup(p->parent).
ExitWakeParent_Skipped(p) ==
    /\ At(p, "exit_wake")
    /\ Goto(p, "exit_zombie")
    /\ UNCHANGED <<table, wait_lock, i, a0, shpid, snap, panicked>>

\* wakeup(p->parent), before p is a ZOMBIE but with wait_lock held.
ExitWakeParent(p) ==
    /\ At(p, "exit_wake")
    /\ state' = Wakeup(p, parent[p])
    /\ Goto(p, "exit_zombie")
    /\ UNCHANGED <<pid, parent, chan, killed, nextpid, wait_lock, i, a0, shpid,
                   snap, panicked>>

\* p->state = ZOMBIE, release(&wait_lock), sched() never returns.
ExitZombie(p) ==
    /\ At(p, "exit_zombie")
    /\ state' = [state EXCEPT ![p] = "ZOMBIE"]
    /\ Release
    /\ Goto(p, "dead")
    /\ UNCHANGED <<pid, parent, chan, killed, nextpid, i, a0, shpid, snap,
                   panicked>>

----------------------------------------------------------------------------
(* kwait() *)

WaitPushOff(p) == PushOff(p, "wait", "wait_spin")

WaitAcquire(p) ==
    /\ At(p, "wait_spin")
    /\ Acquire(p)
    /\ Goto(p, "wait_scan")
    /\ UNCHANGED <<table, i, a0, shpid, snap, panicked>>

\* The scan stops at the first ZOMBIE child, which is freed.
WaitReap(p) ==
    /\ At(p, "wait_scan")
    /\ \E z \in ZombieChildren(p) :
        /\ \A y \in ZombieChildren(p) : z <= y
        /\ freeproc(z)
        /\ Return(p, pid[z])
    /\ Release
    /\ UNCHANGED <<nextpid, shpid, snap, panicked>>

\* The status address is bad: -1, and the ZOMBIE stays for a later wait().
WaitCopyoutFails(p) ==
    /\ At(p, "wait_scan")
    /\ ZombieChildren(p) # {}
    /\ a0[p] # 0
    /\ Return(p, -1)
    /\ Release
    /\ UNCHANGED <<table, shpid, snap, panicked>>

WaitNoKids(p) ==
    /\ At(p, "wait_scan")
    /\ Children(p) = {}
    /\ Return(p, -1)
    /\ Release
    /\ UNCHANGED <<table, shpid, snap, panicked>>

WaitHaveKids(p) ==
    /\ At(p, "wait_scan")
    /\ Children(p) # {}
    /\ ZombieChildren(p) = {}
    /\ Goto(p, "wait_killed")
    /\ UNCHANGED <<table, wait_lock, i, a0, shpid, snap, panicked>>

\* killed(p) takes and drops p->lock before sleep() takes it again.
WaitNotKilled(p) ==
    /\ At(p, "wait_killed")
    /\ killed[p] = 0
    /\ Goto(p, "wait_sleep")
    /\ UNCHANGED <<table, wait_lock, i, a0, shpid, snap, panicked>>

WaitKilled(p) ==
    /\ At(p, "wait_killed")
    /\ killed[p] = 1
    /\ Return(p, -1)
    /\ Release
    /\ UNCHANGED <<table, shpid, snap, panicked>>

\* sleep(p, &wait_lock) up to the switch to the scheduler.
WaitSleep(p) ==
    /\ At(p, "wait_sleep")
    /\ chan' = [chan EXCEPT ![p] = p]
    /\ state' = [state EXCEPT ![p] = "SLEEPING"]
    /\ Release
    /\ Goto(p, "wait_wake")
    /\ UNCHANGED <<pid, parent, killed, nextpid, i, a0, shpid, snap, panicked>>

\* sleep() after the switch back; wait_lock is acquired at the loop's top.
WaitWake(p) ==
    /\ At(p, "wait_wake")
    /\ chan' = [chan EXCEPT ![p] = None]
    /\ Goto(p, "wait")
    /\ UNCHANGED <<state, pid, parent, killed, nextpid, wait_lock, i, a0, shpid,
                   snap, panicked>>

----------------------------------------------------------------------------
(* kkill() *)

KillSkip(p) ==
    /\ At(p, "kill_scan")
    /\ IF i[p] > NPROC
       THEN Return(p, -1)
       ELSE /\ pid[i[p]] # a0[p]
            /\ i' = [i EXCEPT ![p] = @ + 1]
            /\ UNCHANGED <<pc, a0>>
    /\ UNCHANGED <<table, wait_lock, shpid, snap, panicked>>

KillFound(p) ==
    /\ At(p, "kill_scan")
    /\ i[p] <= NPROC
    /\ pid[i[p]] = a0[p]
    /\ killed' = [killed EXCEPT ![i[p]] = 1]
    /\ state' = IF state[i[p]] = "SLEEPING"
                THEN [state EXCEPT ![i[p]] = "RUNNABLE"] ELSE state
    /\ Return(p, 0)
    /\ UNCHANGED <<pid, parent, chan, nextpid, wait_lock, shpid, snap,
                   panicked>>

----------------------------------------------------------------------------
(* sys_getprocs() *)

GetprocsBadCount(p) ==
    /\ At(p, "getprocs")
    /\ a0[p] <= 0
    /\ Return(p, -1)
    /\ UNCHANGED <<table, wait_lock, shpid, snap, panicked>>

GetprocsPushOff(p) == a0[p] > 0 /\ PushOff(p, "getprocs", "getprocs_spin")

GetprocsAcquire(p) ==
    /\ At(p, "getprocs_spin")
    /\ Acquire(p)
    /\ snap' = <<>>
    /\ Goto(p, "getprocs_scan")
    /\ UNCHANGED <<table, i, a0, shpid, panicked>>

\* The loop condition of getprocs().
GetprocsMore(p) == i[p] <= NPROC /\ Len(snap) < a0[p]

\* The record for slot s; p->parent->pid is read without the parent's lock.
pinfo(s) == [pid |-> pid[s],
             ppid |-> IF parent[s] # None THEN pid[parent[s]] ELSE -1,
             state |-> state[s]]

GetprocsVisit(p) ==
    /\ At(p, "getprocs_scan")
    /\ GetprocsMore(p)
    /\ snap' = IF state[i[p]] = "UNUSED" THEN snap ELSE Append(snap, pinfo(i[p]))
    /\ i' = [i EXCEPT ![p] = @ + 1]
    /\ UNCHANGED <<table, wait_lock, pc, a0, shpid, panicked>>

\* copyout() to the caller's buffer fails.
GetprocsCopyoutFails(p) ==
    /\ At(p, "getprocs_scan")
    /\ GetprocsMore(p)
    /\ state[i[p]] # "UNUSED"
    /\ snap' = <<>>
    /\ Return(p, -1)
    /\ Release
    /\ UNCHANGED <<table, shpid, panicked>>

GetprocsDone(p) ==
    /\ At(p, "getprocs_scan")
    /\ ~GetprocsMore(p)
    /\ snap' = <<>>
    /\ Return(p, Len(snap))
    /\ Release
    /\ UNCHANGED <<table, shpid, panicked>>

----------------------------------------------------------------------------
Enter(p) == TrapKilled(p) \/ Fault(p) \/ UserSyscall(p)

Leave(p) == SysReturn(p) \/ SysReturnKilled(p)

Fork(p) ==
    \/ ForkSkip(p) \/ ForkAlloc(p) \/ ForkNoMem(p)
    \/ ForkPushOff(p) \/ ForkParent(p) \/ ForkRun(p)

Exit(p) ==
    \/ ExitInit(p) \/ ExitPushOff(p) \/ ExitAcquire(p)
    \/ ExitReparent(p) \/ ExitWakeParent(p) \/ ExitZombie(p)

Wait(p) ==
    \/ WaitPushOff(p) \/ WaitAcquire(p) \/ WaitReap(p)
    \/ WaitCopyoutFails(p) \/ WaitNoKids(p) \/ WaitHaveKids(p)
    \/ WaitNotKilled(p) \/ WaitKilled(p) \/ WaitSleep(p) \/ WaitWake(p)

Kill(p) == KillSkip(p) \/ KillFound(p)

Getprocs(p) ==
    \/ GetprocsBadCount(p) \/ GetprocsPushOff(p) \/ GetprocsAcquire(p)
    \/ GetprocsVisit(p) \/ GetprocsCopyoutFails(p) \/ GetprocsDone(p)

\* panic() loops forever with the machine frozen.
Frozen == panicked = 1 /\ UNCHANGED vars

Next ==
    \/ \E p \in Slots :
        \/ Dispatch(p) \/ Preempt(p) \/ Enter(p) \/ Leave(p)
        \/ Fork(p) \/ Exit(p) \/ Wait(p) \/ Kill(p) \/ Getprocs(p)
    \/ InitSyscall
    \/ InitReturn
    \/ Frozen

Spec == Init /\ [][Next]_vars

(***************************************************************************)
(* Fairness.  scheduler() scans the table round robin, so a process that   *)
(* is RUNNABLE again and again is dispatched.  The timer interrupts every  *)
(* hart for ever and stays pending while interrupts are off, so a process  *)
(* that could be preempted again and again is.  A time slice is long       *)
(* enough for a kernel thread to get past its current step, so a thread    *)
(* RUNNING at that step again and again takes it.  For acquire() the       *)
(* latter says that the spinning amoswap of one hart is not overtaken for  *)
(* ever.  Programs other than init may stop making system calls; a killed  *)
(* one still takes timer interrupts.                                       *)
(***************************************************************************)
KernelStep(p) ==
    \/ TrapKilled(p) \/ Leave(p) \/ Fork(p) \/ Exit(p)
    \/ Wait(p) \/ Kill(p) \/ Getprocs(p)
    \/ p = initproc /\ (InitSyscall \/ InitReturn)

Fairness ==
    \A p \in Slots :
        SF_vars(Dispatch(p)) /\ SF_vars(Preempt(p)) /\ SF_vars(KernelStep(p))

FairSpec == Spec /\ Fairness

----------------------------------------------------------------------------
(* Safety *)

Live(s) == state[s] # "UNUSED"

\* wait_lock is held by exactly the thread that is between acquire and
\* release, and that thread is on a CPU: nobody sleeps or is preempted with it.
LockHeld ==
    \A p \in Slots : wait_lock = p <=> state[p] = "RUNNING" /\ pc[p] \in Locked

\* Only a live thread has a program point; a ZOMBIE and a free slot have none.
DeadHaveNoThread ==
    \A p \in Slots :
        /\ state[p] \in {"UNUSED", "ZOMBIE"} <=> pc[p] = "dead"
        /\ state[p] = "USED" => pc[p] = "user"
        /\ pc[p] \in Locked \union Spinning => state[p] = "RUNNING"
        /\ state[p] = "SLEEPING" => pc[p] = "wait_wake" /\ chan[p] = p

\* allocpid() hands every process its own pid: two slots never share one, so
\* kill(pid) and wait()'s result name one process.
PidsUnique ==
    \A s, t \in Slots :
        /\ Live(s) <=> pid[s] # 0
        /\ pid[s] < nextpid
        /\ pid[s] = pid[t] /\ s # t => pid[s] = 0

\* A thread between allocproc() and the end of kfork() owns its USED slot:
\* nobody else is setting it up, and it becomes visible as its child in step.
ForkOwnsChild ==
    /\ \A p \in Slots : pc[p] \in Forking =>
        /\ i[p] \in Slots
        /\ state[i[p]] = "USED"
        /\ pid[p] < pid[i[p]]
        /\ parent[i[p]] = IF pc[p] = "fork_run" THEN p ELSE None
    /\ \A p, q \in Slots :
        pc[p] \in Forking /\ pc[q] \in Forking /\ i[p] = i[q] => p = q

\* Every parent pointer leads to a process that is neither free nor a ZOMBIE,
\* so reparent() missed nobody and wait() can collect every child; the only
\* parentless processes are init and a child that kfork() has not linked yet.
ParentsLive ==
    \A s \in Slots :
        /\ parent[s] # None =>
            Live(s) /\ state[parent[s]] \notin {"UNUSED", "USED", "ZOMBIE"}
        /\ parent[s] = None /\ Live(s) =>
            s = initproc \/ \E p \in Slots : pc[p] \in Unlinked /\ i[p] = s

\* Between reparent() and ZOMBIE an exiting process has no child: no fork of
\* its own is under way and nobody adopts one.
ExitingChildless ==
    \A p \in Slots :
        pc[p] \in {"exit_wake", "exit_zombie"} => Children(p) = {}

\* init is slot 1 with pid 1, has no parent, and never becomes a ZOMBIE.
InitForever ==
    /\ pid[initproc] = 1 /\ parent[initproc] = None
    /\ state[initproc] \notin {"UNUSED", "USED", "ZOMBIE"}
    /\ pc[initproc] \notin ExitLocked \union {"exit_spin"}

\* Processes descend from init: a parent is init or has the smaller pid, so
\* parent pointers never form a cycle (ptv's dfs recursion relies on it).
AncestorsOlder ==
    \A s \in Slots :
        parent[s] # None => parent[s] = initproc \/ pid[parent[s]] < pid[s]

\* No lost wakeup: the parent of a ZOMBIE is not asleep in wait() and not
\* past its scan on the way to sleep, although kexit() wakes it before it
\* sets ZOMBIE and reparent() moves ZOMBIEs under a sleeping init.
ZombieParentAwake ==
    /\ \A s \in Slots : state[s] = "ZOMBIE" =>
        /\ parent[s] # None
        /\ state[parent[s]] # "SLEEPING"
        /\ pc[parent[s]] \notin {"wait_killed", "wait_sleep"}
    /\ \A p \in Slots : pc[p] = "exit_zombie" =>
        parent[p] # None /\ state[parent[p]] # "SLEEPING"

\* getprocs() has not been cut short by max_count and is about to return.
SnapshotComplete ==
    \E p \in Slots : pc[p] = "getprocs_scan" /\ i[p] = NPROC + 1

\* A ZOMBIE leaves the table only through its own parent's wait(), which
\* returns its pid, and only a ZOMBIE does: no process is reaped twice,
\* by a stranger, or alive.
ReapStep ==
    \A s \in Slots : Live(s) /\ pid'[s] # pid[s] =>
        /\ state[s] = "ZOMBIE" /\ state'[s] = "UNUSED"
        /\ pc[parent[s]] = "wait_scan" /\ a0'[parent[s]] = pid[s]

ReapedByParent == [][ReapStep]_vars

\* Pids are never reused: a slot's new pid is larger than all earlier ones.
FreshStep ==
    \A s \in Slots : pid'[s] # pid[s] => pid'[s] = 0 \/ pid'[s] >= nextpid

PidsFresh == [][FreshStep]_vars

----------------------------------------------------------------------------
(* Liveness, under FairSpec *)

\* init reaps every ZOMBIE it is the parent of, orphans handed over by
\* reparent() included, so they never fill the table.
OrphansReaped ==
    \A s \in Slots :
        state[s] = "ZOMBIE" /\ parent[s] = initproc ~> ~Live(s) \/ panicked = 1

=============================================================================
