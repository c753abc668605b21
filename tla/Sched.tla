------------------------------- MODULE Sched -------------------------------
(***************************************************************************)
(* How kernel threads share the CPUs: spinlocks with push_off/pop_off       *)
(* (kernel/spinlock.c), scheduler(), sched(), yield(), sleep(), wakeup(),   *)
(* kkill() and forkret() (kernel/proc.c), timer interrupts (kernel/trap.c)  *)
(* and sys_pause() (kernel/sysproc.c), which sleeps until clockintr() has  *)
(* counted enough ticks.                                                   *)
(*                                                                         *)
(* A CPU runs one thread at a time: a process's kernel thread or its own   *)
(* scheduler thread.  A step is one CPU running its thread from one lock   *)
(* operation to the next; what a CPU does with one lock and interrupts off *)
(* is not visible to the others before it lets go of the lock.  An         *)
(* acquire() is one step, taken when no other CPU has the lock; holding()  *)
(* is what the lock's variable says: the CPU that has it.                  *)
(***************************************************************************)
EXTENDS Integers, FiniteSets

CONSTANTS
    NPROC,    \* processes
    NCPU,     \* CPUs
    TMAX,     \* ticks is an unsigned int: it wraps at TMAX (2^32)
    Pauses,   \* the arguments of pause()
    MayKill   \* may processes be killed?

ASSUME SchedAssumption ==
    /\ NPROC \in Nat \ {0} /\ NCPU \in Nat \ {0} /\ TMAX \in Nat \ {0}
    /\ Pauses \subseteq 0..TMAX - 1
    /\ MayKill \in BOOLEAN

VARIABLES
    \* processes
    state, chan, killed,  \* p->state, p->chan (1 for &ticks), p->killed
    plock,                \* the CPU that holds p->lock
    ticks0, n,            \* the locals of sys_pause()
    intena0,              \* the local intena of sched()
    \* CPUs
    cur,                  \* the thread that runs; c->proc if it is a process
    intr,                 \* are interrupts enabled?
    noff, intena,         \* c->noff, c->intena
    \* threads
    pc, ret,              \* program point; the one an interrupt returns to
    idx, w,               \* loop index of scheduler(); of wakeup()
    \* globals
    ticks, tickslock,     \* the clock, and the CPU that holds its lock
    panicked              \* panic() has frozen the machine

procvars == <<state, chan, killed, ticks0, n>>
cpuvars == <<intr, noff, intena>>
vars == <<procvars, plock, intena0, cur, cpuvars, pc, ret, idx, w, ticks,
          tickslock, panicked>>

Slots == 1..NPROC
Cpus == 0..NCPU - 1
None == -1
Scheduler(c) == NPROC + 1 + c
Schedulers == {Scheduler(c) : c \in Cpus}
Threads == Slots \union Schedulers
State == {"SLEEPING", "RUNNABLE", "RUNNING"}
PC == {"sched_on", "sched_off", "sched_scan", "sched_back", "forkret", "user",
       "pause", "pause_loop", "pause_sleep", "sleep_release", "sleep_set",
       "sleep_sched", "slept", "clock", "clock_wake", "tick", "yield_sched",
       "yielded", "iret"}

TypeOK ==
    /\ state \in [Slots -> State] /\ chan \in [Slots -> {0, 1}]
    /\ killed \in [Slots -> {0, 1}]
    /\ plock \in [Slots -> Cpus \union {None}]
    /\ ticks0 \in [Slots -> 0..TMAX - 1] /\ n \in [Slots -> 0..TMAX - 1]
    /\ intena0 \in [Slots -> {0, 1}]
    /\ cur \in [Cpus -> Threads]
    /\ intr \in [Cpus -> {0, 1}]
    /\ noff \in [Cpus -> Int] /\ intena \in [Cpus -> {0, 1}]
    /\ pc \in [Threads -> PC] /\ ret \in [Threads -> PC]
    /\ idx \in [Cpus -> 1..NPROC + 1] /\ w \in [Cpus -> 1..NPROC + 1]
    /\ ticks \in 0..TMAX - 1
    /\ tickslock \in Cpus \union {None}
    /\ panicked \in {0, 1}

----------------------------------------------------------------------------
\* Every CPU enters scheduler(); the processes are new, to start in forkret().
Init ==
    /\ state = [p \in Slots |-> "RUNNABLE"] /\ chan = [p \in Slots |-> 0]
    /\ killed = [p \in Slots |-> 0]
    /\ plock = [p \in Slots |-> None]
    /\ ticks0 = [p \in Slots |-> 0] /\ n = [p \in Slots |-> 0]
    /\ intena0 = [p \in Slots |-> 0]
    /\ cur = [c \in Cpus |-> Scheduler(c)]
    /\ intr = [c \in Cpus |-> 0]
    /\ noff = [c \in Cpus |-> 0] /\ intena = [c \in Cpus |-> 0]
    /\ pc = [t \in Threads |-> IF t \in Slots THEN "forkret" ELSE "sched_on"]
    /\ ret = [t \in Threads |-> "user"]
    /\ idx = [c \in Cpus |-> 1] /\ w = [c \in Cpus |-> 1]
    /\ ticks = 0
    /\ tickslock = None
    /\ panicked = 0

\* CPU c is running, and its thread is at l.
At(c, l) == panicked = 0 /\ pc[cur[c]] = l
Goto(c, l) == pc' = [pc EXCEPT ![cur[c]] = l]

\* panic() when one of the checks of the step fails.
Panic(failed) == panicked' = IF failed THEN 1 ELSE 0

PushOff(c) ==
    /\ intr' = [intr EXCEPT ![c] = 0]
    /\ noff' = [noff EXCEPT ![c] = @ + 1]
    /\ intena' = [intena EXCEPT ![c] = IF noff[c] = 0 THEN intr[c] ELSE @]

\* pop_off(), when c->intena is e, which has no meaning once noff is 0.
PopOff(c, e) ==
    /\ noff' = [noff EXCEPT ![c] = @ - 1]
    /\ intr' = [intr EXCEPT ![c] = IF noff[c] = 1 /\ e = 1 THEN 1 ELSE @]
    /\ intena' = [intena EXCEPT ![c] = IF noff[c] = 1 THEN 0 ELSE e]

\* acquire() of a lock that holder has: it spins while that is another CPU.
Acquire(c, holder) ==
    /\ holder \in {None, c}
    /\ PushOff(c)
    /\ Panic(holder = c)

\* The checks of release() and of its pop_off().
BadRelease(c, holder) == holder # c \/ intr[c] = 1 \/ noff[c] < 1

Release(c, holder, e) == PopOff(c, e) /\ Panic(BadRelease(c, holder))

\* acquire(&p->lock); ... ; release(&p->lock) in one step: noff and the
\* interrupts are what they were (c->intena has no meaning while noff is 0).
TouchLock(c, p) ==
    /\ plock[p] \in {None, c}
    /\ Panic(plock[p] = c)
    /\ UNCHANGED <<plock, cpuvars>>

----------------------------------------------------------------------------
(* scheduler(), run by the scheduler thread *)

\* intr_on(): a pending interrupt is taken here ...
SchedOn(c) ==
    /\ At(c, "sched_on")
    /\ intr' = [intr EXCEPT ![c] = 1]
    /\ Goto(c, "sched_off")
    /\ UNCHANGED <<procvars, plock, intena0, cur, noff, intena, ret, idx, w, ticks,
                   tickslock, panicked>>

\* ... before intr_off().
SchedOff(c) ==
    /\ At(c, "sched_off")
    /\ intr' = [intr EXCEPT ![c] = 0]
    /\ Goto(c, "sched_scan")
    /\ UNCHANGED <<procvars, plock, intena0, cur, noff, intena, ret, idx, w, ticks,
                   tickslock, panicked>>

\* The process is not RUNNABLE.
SchedSkip(c) ==
    /\ At(c, "sched_scan")
    /\ idx[c] <= NPROC
    /\ state[idx[c]] # "RUNNABLE"
    /\ TouchLock(c, idx[c])
    /\ idx' = [idx EXCEPT ![c] = @ + 1]
    /\ UNCHANGED <<procvars, intena0, cur, pc, ret, w, ticks, tickslock>>

\* Mutant: scheduler() that reads p->state without p->lock.
SchedRun_NoLock(c) ==
    /\ At(c, "sched_scan")
    /\ idx[c] <= NPROC
    /\ state[idx[c]] = "RUNNABLE"
    /\ plock' = [plock EXCEPT ![idx[c]] = c]
    /\ PushOff(c)
    /\ state' = [state EXCEPT ![idx[c]] = "RUNNING"]
    /\ cur' = [cur EXCEPT ![c] = idx[c]]
    /\ Goto(c, "sched_back")
    /\ UNCHANGED <<chan, killed, ticks0, n, intena0, ret, idx, w, ticks, tickslock,
                   panicked>>

\* swtch() to the process with its lock held.
SchedRun(c) ==
    /\ At(c, "sched_scan")
    /\ idx[c] <= NPROC
    /\ state[idx[c]] = "RUNNABLE"
    /\ Acquire(c, plock[idx[c]])
    /\ plock' = [plock EXCEPT ![idx[c]] = c]
    /\ state' = [state EXCEPT ![idx[c]] = "RUNNING"]
    /\ cur' = [cur EXCEPT ![c] = idx[c]]
    /\ Goto(c, "sched_back")
    /\ UNCHANGED <<chan, killed, ticks0, n, intena0, ret, idx, w, ticks, tickslock>>

\* The process switched back, holding its lock.
SchedBack(c) ==
    /\ At(c, "sched_back")
    /\ plock' = [plock EXCEPT ![idx[c]] = None]
    /\ Release(c, plock[idx[c]], intena[c])
    /\ idx' = [idx EXCEPT ![c] = @ + 1]
    /\ Goto(c, "sched_scan")
    /\ UNCHANGED <<procvars, intena0, cur, ret, w, ticks, tickslock>>

\* The table is done: from its start again (wfi only waits for an interrupt).
SchedEnd(c) ==
    /\ At(c, "sched_scan")
    /\ idx[c] > NPROC
    /\ idx' = [idx EXCEPT ![c] = 1]
    /\ Goto(c, "sched_on")
    /\ UNCHANGED <<procvars, plock, intena0, cur, cpuvars, ret, w, ticks,
                   tickslock, panicked>>

----------------------------------------------------------------------------
(* sched(), and the places that call it *)

\* sched(): its four checks, then swtch() to the scheduler thread.  The lock
\* of p stays with the CPU, c->intena with p.
Sched(c) ==
    LET p == cur[c] IN
    /\ At(c, "yield_sched") \/ At(c, "sleep_sched")
    /\ Panic(plock[p] # c \/ noff[c] # 1 \/ state[p] = "RUNNING" \/ intr[c] = 1)
    /\ intena0' = [intena0 EXCEPT ![p] = intena[c]]
    /\ cur' = [cur EXCEPT ![c] = Scheduler(c)]
    /\ Goto(c, IF pc[p] = "yield_sched" THEN "yielded" ELSE "slept")
    /\ UNCHANGED <<procvars, plock, cpuvars, ret, idx, w, ticks, tickslock>>

\* After swtch() brought p back, on whatever CPU: c->intena is restored and
\* p->lock released.
Resume(c) ==
    /\ intena0' = [intena0 EXCEPT ![cur[c]] = 0]
    /\ plock' = [plock EXCEPT ![cur[c]] = None]
    /\ Release(c, plock[cur[c]], intena0[cur[c]])

\* forkret(): the first time, and on to user space.
ForkRet(c) ==
    /\ At(c, "forkret")
    /\ plock' = [plock EXCEPT ![cur[c]] = None]
    /\ Release(c, plock[cur[c]], intena[c])
    /\ Goto(c, "iret")
    /\ UNCHANGED <<procvars, intena0, cur, ret, idx, w, ticks, tickslock>>

----------------------------------------------------------------------------
(* Timer interrupts: kerneltrap() or usertrap(), clockintr(), yield() *)

\* The hardware turns interrupts off; only CPU 0 keeps the time.
Interrupt(c) ==
    /\ panicked = 0
    /\ intr[c] = 1
    /\ intr' = [intr EXCEPT ![c] = 0]
    /\ ret' = [ret EXCEPT ![cur[c]] = pc[cur[c]]]
    /\ Goto(c, IF c = 0 THEN "clock" ELSE "tick")
    /\ UNCHANGED <<procvars, plock, intena0, cur, noff, intena, idx, w, ticks,
                   tickslock, panicked>>

\* clockintr(): acquire(&tickslock); ticks++.
Clock(c) ==
    /\ At(c, "clock")
    /\ Acquire(c, tickslock)
    /\ tickslock' = c
    /\ ticks' = (ticks + 1) % TMAX
    /\ Goto(c, "clock_wake")
    /\ UNCHANGED <<procvars, plock, intena0, cur, ret, idx, w>>

\* Mutant: wakeup() that looks at p->state without p->lock.
ClockWake_NoLock(c) ==
    /\ At(c, "clock_wake")
    /\ w[c] <= NPROC
    /\ state' = IF state[w[c]] = "SLEEPING" /\ chan[w[c]] = 1
                THEN [state EXCEPT ![w[c]] = "RUNNABLE"] ELSE state
    /\ w' = [w EXCEPT ![c] = @ + 1]
    /\ UNCHANGED <<chan, killed, ticks0, n, plock, intena0, cur, cpuvars, pc, ret,
                   idx, ticks, tickslock, panicked>>

\* Mutant: wakeup() looks for another channel.
ClockWake_OtherChan(c) ==
    /\ At(c, "clock_wake")
    /\ w[c] <= NPROC
    /\ w[c] # cur[c] => plock[w[c]] = None
    /\ w' = [w EXCEPT ![c] = @ + 1]
    /\ UNCHANGED <<procvars, plock, intena0, cur, pc, cpuvars, ret, idx, ticks,
                   tickslock, panicked>>

\* One iteration of wakeup(&ticks): everybody but the interrupted process.
ClockWake(c) ==
    /\ At(c, "clock_wake")
    /\ w[c] <= NPROC
    /\ \/ w[c] = cur[c] /\ UNCHANGED <<state, plock, cpuvars, panicked>>
       \/ /\ w[c] # cur[c]
          /\ TouchLock(c, w[c])
          /\ state' = IF state[w[c]] = "SLEEPING" /\ chan[w[c]] = 1
                      THEN [state EXCEPT ![w[c]] = "RUNNABLE"] ELSE state
    /\ w' = [w EXCEPT ![c] = @ + 1]
    /\ UNCHANGED <<chan, killed, ticks0, n, intena0, cur, pc, ret, idx, ticks,
                   tickslock>>

ClockDone(c) ==
    /\ At(c, "clock_wake")
    /\ w[c] > NPROC
    /\ w' = [w EXCEPT ![c] = 1]
    /\ tickslock' = None
    /\ Release(c, tickslock, intena[c])
    /\ Goto(c, "tick")
    /\ UNCHANGED <<procvars, plock, intena0, cur, ret, idx, ticks>>

\* myproc() is 0 in the scheduler thread: nothing to yield.
TickIdle(c) ==
    /\ At(c, "tick")
    /\ cur[c] \in Schedulers
    /\ Goto(c, "iret")
    /\ UNCHANGED <<procvars, plock, intena0, cur, cpuvars, ret, idx, w, ticks,
                   tickslock, panicked>>

\* yield(): acquire(&p->lock), RUNNABLE, and on to sched().
Yield(c) ==
    /\ At(c, "tick")
    /\ cur[c] \in Slots
    /\ Acquire(c, plock[cur[c]])
    /\ plock' = [plock EXCEPT ![cur[c]] = c]
    /\ state' = [state EXCEPT ![cur[c]] = "RUNNABLE"]
    /\ Goto(c, "yield_sched")
    /\ UNCHANGED <<chan, killed, ticks0, n, intena0, cur, ret, idx, w, ticks,
                   tickslock>>

Yielded(c) ==
    /\ At(c, "yielded")
    /\ Resume(c)
    /\ Goto(c, "iret")
    /\ UNCHANGED <<procvars, cur, ret, idx, w, ticks, tickslock>>

\* sret restores the interrupted code and turns interrupts on again.
Iret(c) ==
    /\ At(c, "iret")
    /\ Goto(c, ret[cur[c]])
    /\ ret' = [ret EXCEPT ![cur[c]] = "user"]
    /\ intr' = [intr EXCEPT ![c] = 1]
    /\ UNCHANGED <<procvars, plock, intena0, cur, noff, intena, idx, w, ticks,
                   tickslock, panicked>>

----------------------------------------------------------------------------
(* sys_pause() with sleep(&ticks, &tickslock), and kkill() *)

\* A killed process makes no more calls: it exits (module ProcTable).
PauseCall(c) ==
    /\ At(c, "user")
    /\ killed[cur[c]] = 0
    /\ Acquire(c, tickslock)
    /\ tickslock' = c
    /\ \E k \in Pauses : n' = [n EXCEPT ![cur[c]] = k]
    /\ ticks0' = [ticks0 EXCEPT ![cur[c]] = ticks]
    /\ Goto(c, "pause_loop")
    /\ UNCHANGED <<state, chan, killed, plock, intena0, cur, ret, idx, w, ticks>>

Elapsed(p) == (ticks - ticks0[p]) % TMAX

\* Enough ticks, or killed(), which takes p->lock: release(&tickslock) and return.
PauseReturn(c) ==
    LET p == cur[c]
        early == Elapsed(p) < n[p]
    IN
    /\ At(c, "pause_loop")
    /\ early => killed[p] = 1 /\ plock[p] \in {None, c}
    /\ tickslock' = None
    /\ PopOff(c, intena[c])
    /\ Panic((early /\ plock[p] = c) \/ BadRelease(c, tickslock))
    /\ Goto(c, "user")
    /\ ticks0' = [ticks0 EXCEPT ![cur[c]] = 0]
    /\ n' = [n EXCEPT ![cur[c]] = 0]
    /\ UNCHANGED <<state, chan, killed, plock, intena0, cur, ret, idx, w, ticks>>

\* killed() takes and drops p->lock before sleep() takes it again.
PauseNotKilled(c) ==
    /\ At(c, "pause_loop")
    /\ Elapsed(cur[c]) < n[cur[c]]
    /\ killed[cur[c]] = 0
    /\ TouchLock(c, cur[c])
    /\ Goto(c, "pause_sleep")
    /\ UNCHANGED <<procvars, intena0, cur, ret, idx, w, ticks, tickslock>>

\* sleep(): acquire(&p->lock) ...
SleepLock(c) ==
    /\ At(c, "pause_sleep")
    /\ Acquire(c, plock[cur[c]])
    /\ plock' = [plock EXCEPT ![cur[c]] = c]
    /\ Goto(c, "sleep_release")
    /\ UNCHANGED <<procvars, intena0, cur, ret, idx, w, ticks, tickslock>>

\* Mutant: sleep() that drops lk without pop_off().
SleepRelease_NoPopOff(c) ==
    /\ At(c, "sleep_release")
    /\ tickslock' = None
    /\ Goto(c, "sleep_set")
    /\ UNCHANGED <<procvars, plock, intena0, cur, cpuvars, ret, idx, w, ticks,
                   panicked>>

\* ... release(lk) ...
SleepRelease(c) ==
    /\ At(c, "sleep_release")
    /\ tickslock' = None
    /\ Release(c, tickslock, intena[c])
    /\ Goto(c, "sleep_set")
    /\ UNCHANGED <<procvars, plock, intena0, cur, ret, idx, w, ticks>>

\* ... and only then SLEEPING, and sched().
SleepSet(c) ==
    /\ At(c, "sleep_set")
    /\ chan' = [chan EXCEPT ![cur[c]] = 1]
    /\ state' = [state EXCEPT ![cur[c]] = "SLEEPING"]
    /\ Goto(c, "sleep_sched")
    /\ UNCHANGED <<killed, ticks0, n, plock, intena0, cur, cpuvars, ret, idx, w,
                   ticks, tickslock, panicked>>

\* Back from sched(): p->chan = 0, release(&p->lock).
Slept(c) ==
    /\ At(c, "slept")
    /\ chan' = [chan EXCEPT ![cur[c]] = 0]
    /\ Resume(c)
    /\ Goto(c, "pause")
    /\ UNCHANGED <<state, killed, ticks0, n, cur, ret, idx, w, ticks, tickslock>>

\* The last line of sleep(): acquire(lk).
PauseAgain(c) ==
    /\ At(c, "pause")
    /\ Acquire(c, tickslock)
    /\ tickslock' = c
    /\ Goto(c, "pause_loop")
    /\ UNCHANGED <<procvars, plock, intena0, cur, ret, idx, w, ticks>>

\* kkill(q) by the process on c: one critical section of q->lock.
Kill(c, q) ==
    /\ MayKill
    /\ At(c, "user")
    /\ killed[cur[c]] = 0 /\ killed[q] = 0
    /\ TouchLock(c, q)
    /\ killed' = [killed EXCEPT ![q] = 1]
    /\ state' = IF state[q] = "SLEEPING"
                THEN [state EXCEPT ![q] = "RUNNABLE"] ELSE state
    /\ UNCHANGED <<chan, ticks0, n, intena0, cur, pc, ret, idx, w, ticks, tickslock>>

----------------------------------------------------------------------------
SchedulerStep(c) ==
    SchedOn(c) \/ SchedOff(c) \/ SchedSkip(c) \/ SchedRun(c) \/ SchedBack(c) \/ SchedEnd(c)

InterruptStep(c) ==
    \/ Clock(c) \/ ClockWake(c) \/ ClockDone(c) \/ TickIdle(c)
    \/ Yield(c) \/ Sched(c) \/ Yielded(c) \/ Iret(c) \/ ForkRet(c)

PauseStep(c) ==
    \/ PauseReturn(c) \/ PauseNotKilled(c) \/ SleepLock(c) \/ SleepRelease(c)
    \/ SleepSet(c) \/ Slept(c) \/ PauseAgain(c)

Next ==
    \E c \in Cpus :
        \/ SchedulerStep(c) \/ InterruptStep(c) \/ PauseStep(c)
        \/ Interrupt(c) \/ PauseCall(c)
        \/ \E q \in Slots : Kill(c, q)

Spec == Init /\ [][Next]_vars

----------------------------------------------------------------------------
(* Safety *)

\* The locks that CPU c holds.
LocksHeld(c) ==
    Cardinality({p \in Slots : plock[p] = c}) + IF tickslock = c THEN 1 ELSE 0

\* A kernel stack is in use on one CPU only: sched() and scheduler() hold
\* p->lock across swtch(), so nobody resumes a process that is still on its way
\* out of another CPU.
OneCpuPerThread ==
    /\ \A c, d \in Cpus : cur[c] = cur[d] => c = d
    /\ \A p \in Slots :
        state[p] # "RUNNING" /\ plock[p] = None => \A c \in Cpus : cur[c] # p

\* push_off() and pop_off() nest correctly although locks are released by
\* another thread, and threads resume on another CPU, than acquired them: noff
\* counts the locks of the CPU, a CPU with a lock takes no interrupt, and one in
\* user space or in a system call without locks does, wherever it came from.
NoffCountsLocks ==
    \A c \in Cpus :
        /\ noff[c] = LocksHeld(c) /\ (noff[c] > 0 => intr[c] = 0)
        /\ pc[cur[c]] \in {"user", "pause", "sched_off"} => intr[c] = 1

\* No lost wakeup: nobody sleeps through the tick it is waiting for.
SleeperIsEarly ==
    \A p \in Slots :
        state[p] = "SLEEPING" /\ tickslock = None => chan[p] = 1 /\ Elapsed(p) < n[p]

----------------------------------------------------------------------------
(* Liveness *)

(***************************************************************************)
(* A CPU executes its thread and the timer interrupts it, but a tenth of a *)
(* second later again, so the interrupted code also proceeds; a spinning   *)
(* acquire() is not overtaken for ever.                                    *)
(***************************************************************************)
Fairness ==
    \A c \in Cpus :
        /\ SF_vars(SchedulerStep(c)) /\ SF_vars(PauseStep(c))
        /\ SF_vars(Interrupt(c) \/ InterruptStep(c))

FairSpec == Spec /\ Fairness

\* A process asleep in pause() runs again: the ticks keep coming, each wakes it,
\* and whichever CPU finds it RUNNABLE runs it.
SleeperRuns ==
    \A p \in Slots : state[p] = "SLEEPING" ~> state[p] = "RUNNING"

=============================================================================
