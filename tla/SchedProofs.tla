----------------------------- MODULE SchedProofs -----------------------------
(***************************************************************************)
(* Proofs about spinlocks, scheduler(), sched(), yield(), sleep() and      *)
(* wakeup() (kernel/spinlock.c, kernel/proc.c): a kernel stack is in use   *)
(* on one CPU only, noff counts the locks of the CPU, no check of sched(), *)
(* acquire(), release() or pop_off() fails, and nobody sleeps through its  *)
(* tick.                                                                   *)
(***************************************************************************)
EXTENDS Sched, FiniteSetTheorems, TLAPS

\* Program points of a process at which it holds its own lock: from yield() or
\* sleep() into sched(), and from the scheduler to the release after it.
HasPlock == {"forkret", "sleep_release", "sleep_set", "sleep_sched", "slept",
             "yield_sched", "yielded"}
\* Program points at which a CPU holds tickslock.
HasTickslock == {"pause_loop", "pause_sleep", "sleep_release", "clock_wake"}
\* Program points of an interrupt handler, and those of the scheduler.
Handler == {"clock", "clock_wake", "tick", "iret"}
SchedulerPC == {"sched_on", "sched_off", "sched_scan", "sched_back"}
\* Program points at which interrupts may be enabled.
Enabled == {"user", "pause", "sched_on", "sched_off", "sched_scan", "iret"}

\* Where CPU c is.
Here(c) == pc[cur[c]]

\* A CPU runs its scheduler, or the process that its scheduler switched to.
OnCpu ==
    \A c \in Cpus :
        /\ cur[c] # Scheduler(c) =>
              cur[c] = idx[c] /\ cur[c] \in Slots /\ pc[Scheduler(c)] = "sched_back"
        /\ pc[Scheduler(c)] = "sched_back" => idx[c] \in Slots
        /\ pc[Scheduler(c)] \in SchedulerPC \union Handler

\* No thread is on two CPUs.
OnOneCpu == \A c, d \in Cpus : cur[c] = cur[d] => c = d

\* What p->state says of a process: where it runs, or how it left.
RunState ==
    \A p \in Slots :
        /\ pc[p] \notin SchedulerPC
        /\ \A c \in Cpus : cur[c] = p =>
            IF pc[p] = "yield_sched" THEN state[p] = "RUNNABLE"
            ELSE IF pc[p] = "sleep_sched" THEN state[p] = "SLEEPING"
            ELSE state[p] = "RUNNING"
        /\ (\A c \in Cpus : cur[c] # p) =>
            /\ pc[p] \in {"forkret", "yielded", "slept"}
            /\ state[p] = "RUNNABLE" \/ (state[p] = "SLEEPING" /\ pc[p] = "slept")

\* p->lock is held by the CPU that runs p under it, or whose scheduler has p
\* come back with it.
PlockHolder ==
    \A p \in Slots, c \in Cpus :
        plock[p] = c <=>
            \/ cur[c] = p /\ pc[p] \in HasPlock
            \/ cur[c] = Scheduler(c) /\ Here(c) = "sched_back" /\ idx[c] = p

TickslockHolder == \A c \in Cpus : tickslock = c <=> Here(c) \in HasTickslock

\* c->noff and c->intena at each program point, and when interrupts are on.
CpuFlags ==
    \A c \in Cpus :
        /\ noff[c] = IF Here(c) = "sleep_release" THEN 2
                     ELSE IF Here(c) \in HasPlock \union HasTickslock \union {"sched_back"}
                     THEN 1 ELSE 0
        /\ intr[c] = 1 => Here(c) \in Enabled
        /\ Here(c) \in {"user", "pause", "sched_off"} => intr[c] = 1
        /\ Here(c) \in {"pause_loop", "pause_sleep", "sleep_release", "sleep_set",
                        "sleep_sched"} => intena[c] = 1
        /\ Here(c) = "clock_wake" => intena[c] = 0
        /\ cur[c] = Scheduler(c) /\ Here(c) = "iret" => intr[c] = 0

\* What a process that left in sleep() finds, and where a handler returns to.
Saved ==
    /\ \A p \in Slots : pc[p] = "slept" => intena0[p] = 1
    /\ \A p \in Slots : ret[p] \in {"user", "pause", "iret"}
    /\ \A c \in Cpus : pc[Scheduler(c)] \in Handler =>
          ret[Scheduler(c)] \in {"sched_on", "sched_off", "sched_scan"}

\* p is between the test in sys_pause() and the switch out of sleep(), or out.
GoingToSleep(p) ==
    \/ pc[p] \in {"pause_sleep", "sleep_release", "sleep_set", "sleep_sched"}
    \/ state[p] = "SLEEPING"

\* Whoever sleeps, or is about to, has a reason to, unless a wakeup() that has
\* yet to look at it is under way.
SleepReason ==
    \A p \in Slots : GoingToSleep(p) =>
        Elapsed(p) < n[p] \/ \E c \in Cpus : Here(c) = "clock_wake" /\ w[c] <= p

\* wakeup() looks for sleepers by p->chan, and starts at the first process.
WakeupReady ==
    /\ \A p \in Slots : state[p] = "SLEEPING" => chan[p] = 1
    /\ \A c \in Cpus : Here(c) # "clock_wake" => w[c] = 1

SchedInv ==
    /\ TypeOK
    /\ OnCpu
    /\ OnOneCpu
    /\ RunState
    /\ PlockHolder
    /\ TickslockHolder
    /\ CpuFlags
    /\ Saved
    /\ SleepReason
    /\ WakeupReady
    /\ panicked = 0

----------------------------------------------------------------------------
LEMMA Threadings ==
    /\ \A c \in Cpus : Scheduler(c) \in Threads /\ Scheduler(c) \in Schedulers
    /\ \A c \in Cpus : Scheduler(c) \notin Slots
    /\ \A c, d \in Cpus : Scheduler(c) = Scheduler(d) => c = d
    /\ \A p \in Slots : p \in Threads /\ p \in 1..NPROC + 1 /\ p \notin Schedulers
    /\ \A t \in Threads : t \in Slots \/ \E c \in Cpus : t = Scheduler(c)
    /\ \A x \in 1..NPROC + 1 : x <= NPROC => x \in Slots /\ x + 1 \in 1..NPROC + 1
    /\ \A x \in Slots : x <= NPROC /\ x + 1 \in 1..NPROC + 1
    /\ 1 \in 1..NPROC + 1
    /\ None \notin Cpus
  BY SchedAssumption DEF Threads, Schedulers, Scheduler, Slots, Cpus, None

\* holding(), by program point: a CPU takes no lock that it has, and releases
\* only what it has.
LEMMA Unlocked ==
    ASSUME SchedInv, NEW c \in Cpus
    PROVE  /\ Here(c) \notin SchedulerPC \union Handler => cur[c] \in Slots
           /\ Here(c) \notin HasPlock \union {"sched_back"} => \A p \in Slots : plock[p] # c
           /\ Here(c) \in HasPlock => plock[cur[c]] = c
           /\ Here(c) = "sched_back" => plock[idx[c]] = c
           /\ Here(c) \in HasTickslock <=> tickslock = c
  <1>1. /\ OnCpu /\ RunState /\ PlockHolder /\ TickslockHolder
        /\ cur[c] \in Threads
    BY DEF SchedInv, TypeOK
  <1>2. cur[c] \in Slots \/ cur[c] = Scheduler(c)
    BY <1>1 DEF OnCpu
  <1>3. cur[c] = Scheduler(c) => Here(c) \in SchedulerPC \union Handler
    BY <1>1 DEF OnCpu, Here
  <1>4. Here(c) \notin HasPlock \union {"sched_back"} => \A p \in Slots : plock[p] # c
    BY <1>1 DEF PlockHolder, Here
  <1>5. Here(c) \in HasPlock => plock[cur[c]] = c
    <2>1. Here(c) \in HasPlock => cur[c] \in Slots
      BY <1>2, <1>3 DEF HasPlock, SchedulerPC, Handler
    <2> QED
      BY <2>1, <1>1 DEF PlockHolder, Here
  <1>6. Here(c) = "sched_back" => plock[idx[c]] = c
    <2>1. Here(c) = "sched_back" => cur[c] = Scheduler(c) /\ idx[c] \in Slots
      BY <1>1, <1>2 DEF RunState, OnCpu, SchedulerPC, Here
    <2> QED
      BY <2>1, <1>1 DEF PlockHolder
  <1>7. Here(c) \in HasTickslock <=> tickslock = c
    BY <1>1 DEF TickslockHolder
  <1> QED
    BY <1>2, <1>3, <1>4, <1>5, <1>6, <1>7

\* push_off() and pop_off() keep the types of the CPU's fields.
LEMMA OffTypes ==
    ASSUME TypeOK, NEW c \in Cpus, NEW e \in {0, 1}, PushOff(c) \/ PopOff(c, e)
    PROVE  /\ intr' \in [Cpus -> {0, 1}] /\ noff' \in [Cpus -> Int]
           /\ intena' \in [Cpus -> {0, 1}]
  BY DEF TypeOK, PushOff, PopOff

LEMMA Ticking == 0 \in 0..TMAX - 1 /\ \A t \in 0..TMAX - 1 : (t + 1) % TMAX \in 0..TMAX - 1
  <1>1. TMAX \in Nat \ {0}
    BY SchedAssumption
  <1> QED
    BY <1>1

\* The types of the variables are preserved.
LEMMA TypeStep ==
    ASSUME TypeOK, OnCpu, RunState, [Next]_vars
    PROVE  TypeOK'
  <1> USE Threadings DEF TypeOK, PC, State, At, Panic, Acquire, Release, procvars, cpuvars
  <1>1. ASSUME NEW c \in Cpus, SchedOn(c) PROVE TypeOK'
    BY <1>1 DEF SchedOn, Goto
  <1>2. ASSUME NEW c \in Cpus, SchedOff(c) PROVE TypeOK'
    BY <1>2 DEF SchedOff, Goto
  <1>3. ASSUME NEW c \in Cpus, SchedSkip(c) PROVE TypeOK'
    BY <1>3 DEF SchedSkip, TouchLock
  <1>4. ASSUME NEW c \in Cpus, SchedRun(c) PROVE TypeOK'
    BY <1>4 DEF SchedRun, Acquire, PushOff, Goto
  <1>5. ASSUME NEW c \in Cpus, SchedBack(c) PROVE TypeOK'
    <2>1. cur[c] = Scheduler(c) /\ idx[c] \in Slots
      BY <1>5 DEF SchedBack, OnCpu, RunState, SchedulerPC
    <2>2. idx' \in [Cpus -> 1..NPROC + 1]
      BY <1>5, <2>1 DEF SchedBack
    <2>3. intr' \in [Cpus -> {0, 1}] /\ noff' \in [Cpus -> Int] /\ intena' \in [Cpus -> {0, 1}]
      BY <1>5, OffTypes DEF SchedBack, Release
    <2> QED
      BY <1>5, <2>1, <2>2, <2>3 DEF SchedBack, Release, PopOff, Goto
  <1>6. ASSUME NEW c \in Cpus, SchedEnd(c) PROVE TypeOK'
    BY <1>6 DEF SchedEnd, Goto
  <1>7. ASSUME NEW c \in Cpus, Clock(c) PROVE TypeOK'
    <2>1. intr' \in [Cpus -> {0, 1}] /\ noff' \in [Cpus -> Int] /\ intena' \in [Cpus -> {0, 1}]
      BY <1>7, OffTypes DEF Clock, Acquire
    <2>2. ticks' \in 0..TMAX - 1
      BY <1>7, Ticking DEF Clock
    <2> QED
      BY <1>7, <2>1, <2>2 DEF Clock, Goto
  <1>8. ASSUME NEW c \in Cpus, ClockWake(c) PROVE TypeOK'
    BY <1>8 DEF ClockWake, TouchLock
  <1>9. ASSUME NEW c \in Cpus, ClockDone(c) PROVE TypeOK'
    BY <1>9 DEF ClockDone, Release, PopOff, Goto
  <1>10. ASSUME NEW c \in Cpus, TickIdle(c) PROVE TypeOK'
    BY <1>10 DEF TickIdle, Goto
  <1>11. ASSUME NEW c \in Cpus, Yield(c) PROVE TypeOK'
    BY <1>11 DEF Yield, Acquire, PushOff, Goto
  <1>12. ASSUME NEW c \in Cpus, Sched(c) PROVE TypeOK'
    BY <1>12 DEF Sched, Goto
  <1>13. ASSUME NEW c \in Cpus, Yielded(c) PROVE TypeOK'
    <2>1. cur[c] \in Slots
      BY <1>13 DEF Yielded, OnCpu, SchedulerPC, Handler
    <2>2. intr' \in [Cpus -> {0, 1}] /\ noff' \in [Cpus -> Int] /\ intena' \in [Cpus -> {0, 1}]
      BY <1>13, <2>1, OffTypes, SMTT(60) DEF Yielded, Resume, Release
    <2> QED
      BY <1>13, <2>1, <2>2 DEF Yielded, Resume, Release, PopOff, Goto
  <1>14. ASSUME NEW c \in Cpus, Iret(c) PROVE TypeOK'
    BY <1>14 DEF Iret, Goto
  <1>15. ASSUME NEW c \in Cpus, ForkRet(c) PROVE TypeOK'
    <2>1. intr' \in [Cpus -> {0, 1}] /\ noff' \in [Cpus -> Int] /\ intena' \in [Cpus -> {0, 1}]
      BY <1>15, OffTypes DEF ForkRet, Release
    <2> QED
      BY <1>15, <2>1 DEF ForkRet, Release, PopOff, Goto
  <1>16. ASSUME NEW c \in Cpus, PauseReturn(c) PROVE TypeOK'
    <2>1. intr' \in [Cpus -> {0, 1}] /\ noff' \in [Cpus -> Int] /\ intena' \in [Cpus -> {0, 1}]
      BY <1>16, OffTypes DEF PauseReturn
    <2> QED
      BY <1>16, <2>1, Ticking DEF PauseReturn, PopOff, Goto
  <1>17. ASSUME NEW c \in Cpus, PauseNotKilled(c) PROVE TypeOK'
    BY <1>17 DEF PauseNotKilled, TouchLock, Goto
  <1>18. ASSUME NEW c \in Cpus, SleepLock(c) PROVE TypeOK'
    <2>1. intr' \in [Cpus -> {0, 1}] /\ noff' \in [Cpus -> Int] /\ intena' \in [Cpus -> {0, 1}]
      BY <1>18, OffTypes DEF SleepLock, Acquire
    <2> QED
      BY <1>18, <2>1 DEF SleepLock, Goto
  <1>19. ASSUME NEW c \in Cpus, SleepRelease(c) PROVE TypeOK'
    BY <1>19 DEF SleepRelease, Release, PopOff, Goto
  <1>20. ASSUME NEW c \in Cpus, SleepSet(c) PROVE TypeOK'
    BY <1>20 DEF SleepSet, Goto
  <1>21. ASSUME NEW c \in Cpus, Slept(c) PROVE TypeOK'
    <2>1. cur[c] \in Slots
      BY <1>21 DEF Slept, OnCpu, SchedulerPC, Handler
    <2>2. intr' \in [Cpus -> {0, 1}] /\ noff' \in [Cpus -> Int] /\ intena' \in [Cpus -> {0, 1}]
      BY <1>21, <2>1, OffTypes DEF Slept, Resume, Release
    <2> QED
      BY <1>21, <2>1, <2>2 DEF Slept, Resume, Release, PopOff, Goto
  <1>22. ASSUME NEW c \in Cpus, PauseAgain(c) PROVE TypeOK'
    BY <1>22 DEF PauseAgain, Acquire, PushOff, Goto
  <1>23. ASSUME NEW c \in Cpus, Interrupt(c) PROVE TypeOK'
    BY <1>23 DEF Interrupt, Goto
  <1>24. ASSUME NEW c \in Cpus, PauseCall(c) PROVE TypeOK'
    <2>1. intr' \in [Cpus -> {0, 1}] /\ noff' \in [Cpus -> Int] /\ intena' \in [Cpus -> {0, 1}]
      BY <1>24, OffTypes DEF PauseCall, Acquire
    <2>2. n' \in [Slots -> 0..TMAX - 1]
      BY <1>24, SchedAssumption, ZenonT(60) DEF PauseCall
    <2>3. ticks0' \in [Slots -> 0..TMAX - 1]
      BY <1>24 DEF PauseCall
    <2> QED
      BY <1>24, <2>1, <2>2, <2>3 DEF PauseCall, Goto
  <1>25. ASSUME NEW c \in Cpus, NEW q \in Slots, Kill(c, q) PROVE TypeOK'
    BY <1>25 DEF Kill, TouchLock
  <1>26. CASE UNCHANGED vars
    BY <1>26 DEF vars, procvars, cpuvars
  <1> QED
    BY <1>1, <1>2, <1>3, <1>4, <1>5, <1>6, <1>7, <1>8, <1>9, <1>10, <1>11,
       <1>12, <1>13, <1>14, <1>15, <1>16, <1>17, <1>18, <1>19, <1>20, <1>21,
       <1>22, <1>23, <1>24, <1>25, <1>26 DEF Next, SchedulerStep, InterruptStep,
       PauseStep

\* Only its own scheduler gives a CPU another thread.
LEMMA OnCpuStep ==
    ASSUME SchedInv, [Next]_vars
    PROVE  OnCpu'
  <1> USE Threadings DEF SchedInv, TypeOK, OnCpu, OnOneCpu, CpuFlags, Here,
     RunState, SchedulerPC, Handler, HasPlock, HasTickslock, Enabled, Saved, At,
     procvars, cpuvars
  <1>1. ASSUME NEW c \in Cpus, SchedOn(c) PROVE OnCpu'
    BY <1>1 DEF SchedOn, Goto
  <1>2. ASSUME NEW c \in Cpus, SchedOff(c) PROVE OnCpu'
    BY <1>2 DEF SchedOff, Goto
  <1>3. ASSUME NEW c \in Cpus, SchedSkip(c) PROVE OnCpu'
    BY <1>3 DEF SchedSkip, TouchLock
  <1>4. ASSUME NEW c \in Cpus, SchedRun(c) PROVE OnCpu'
    BY <1>4 DEF SchedRun, Acquire, PushOff, Goto
  <1>5. ASSUME NEW c \in Cpus, SchedBack(c) PROVE OnCpu'
    BY <1>5 DEF SchedBack, Release, PopOff, Goto
  <1>6. ASSUME NEW c \in Cpus, SchedEnd(c) PROVE OnCpu'
    BY <1>6 DEF SchedEnd, Goto
  <1>7. ASSUME NEW c \in Cpus, Clock(c) PROVE OnCpu'
    BY <1>7 DEF Clock, Acquire, PushOff, Goto
  <1>8. ASSUME NEW c \in Cpus, ClockWake(c) PROVE OnCpu'
    BY <1>8 DEF ClockWake, TouchLock
  <1>9. ASSUME NEW c \in Cpus, ClockDone(c) PROVE OnCpu'
    BY <1>9 DEF ClockDone, Release, PopOff, Goto
  <1>10. ASSUME NEW c \in Cpus, TickIdle(c) PROVE OnCpu'
    BY <1>10 DEF TickIdle, Goto
  <1>11. ASSUME NEW c \in Cpus, Yield(c) PROVE OnCpu'
    BY <1>11 DEF Yield, Acquire, PushOff, Goto
  <1>12. ASSUME NEW c \in Cpus, Sched(c) PROVE OnCpu'
    BY <1>12 DEF Sched, Goto
  <1>13. ASSUME NEW c \in Cpus, Yielded(c) PROVE OnCpu'
    BY <1>13 DEF Yielded, Resume, Release, PopOff, Goto
  <1>14. ASSUME NEW c \in Cpus, Iret(c) PROVE OnCpu'
    BY <1>14 DEF Iret, Goto
  <1>15. ASSUME NEW c \in Cpus, ForkRet(c) PROVE OnCpu'
    BY <1>15 DEF ForkRet, Release, PopOff, Goto
  <1>16. ASSUME NEW c \in Cpus, PauseReturn(c) PROVE OnCpu'
    BY <1>16 DEF PauseReturn, PopOff, Goto
  <1>17. ASSUME NEW c \in Cpus, PauseNotKilled(c) PROVE OnCpu'
    BY <1>17 DEF PauseNotKilled, TouchLock, Goto
  <1>18. ASSUME NEW c \in Cpus, SleepLock(c) PROVE OnCpu'
    BY <1>18 DEF SleepLock, Acquire, PushOff, Goto
  <1>19. ASSUME NEW c \in Cpus, SleepRelease(c) PROVE OnCpu'
    BY <1>19 DEF SleepRelease, Release, PopOff, Goto
  <1>20. ASSUME NEW c \in Cpus, SleepSet(c) PROVE OnCpu'
    BY <1>20 DEF SleepSet, Goto
  <1>21. ASSUME NEW c \in Cpus, Slept(c) PROVE OnCpu'
    BY <1>21 DEF Slept, Resume, Release, PopOff, Goto
  <1>22. ASSUME NEW c \in Cpus, PauseAgain(c) PROVE OnCpu'
    BY <1>22 DEF PauseAgain, Acquire, PushOff, Goto
  <1>23. ASSUME NEW c \in Cpus, Interrupt(c) PROVE OnCpu'
    BY <1>23 DEF Interrupt, Goto
  <1>24. ASSUME NEW c \in Cpus, PauseCall(c) PROVE OnCpu'
    BY <1>24 DEF PauseCall, Acquire, PushOff, Goto
  <1>25. ASSUME NEW c \in Cpus, NEW q \in Slots, Kill(c, q) PROVE OnCpu'
    BY <1>25 DEF Kill, TouchLock
  <1>26. CASE UNCHANGED vars
    BY <1>26 DEF vars, procvars, cpuvars
  <1> QED
    BY <1>1, <1>2, <1>3, <1>4, <1>5, <1>6, <1>7, <1>8, <1>9, <1>10, <1>11,
       <1>12, <1>13, <1>14, <1>15, <1>16, <1>17, <1>18, <1>19, <1>20, <1>21,
       <1>22, <1>23, <1>24, <1>25, <1>26 DEF Next, SchedulerStep, InterruptStep,
       PauseStep

\* A process is taken up only with its lock, which whoever is leaving it has.
LEMMA OnOneCpuStep ==
    ASSUME SchedInv, [Next]_vars
    PROVE  OnOneCpu'
  <1> USE Threadings DEF SchedInv, TypeOK, OnCpu, OnOneCpu, CpuFlags, Here,
     RunState, SchedulerPC, Handler, HasPlock, HasTickslock, Enabled, PlockHolder,
     At, procvars, cpuvars
  <1>1. ASSUME NEW c \in Cpus, SchedOn(c) PROVE OnOneCpu'
    BY <1>1 DEF SchedOn, Goto
  <1>2. ASSUME NEW c \in Cpus, SchedOff(c) PROVE OnOneCpu'
    BY <1>2 DEF SchedOff, Goto
  <1>3. ASSUME NEW c \in Cpus, SchedSkip(c) PROVE OnOneCpu'
    BY <1>3 DEF SchedSkip, TouchLock
  <1>4. ASSUME NEW c \in Cpus, SchedRun(c) PROVE OnOneCpu'
    BY <1>4, SMTT(60) DEF SchedRun, Acquire, PushOff, Goto
  <1>5. ASSUME NEW c \in Cpus, SchedBack(c) PROVE OnOneCpu'
    BY <1>5 DEF SchedBack, Release, PopOff, Goto
  <1>6. ASSUME NEW c \in Cpus, SchedEnd(c) PROVE OnOneCpu'
    BY <1>6 DEF SchedEnd, Goto
  <1>7. ASSUME NEW c \in Cpus, Clock(c) PROVE OnOneCpu'
    BY <1>7 DEF Clock, Acquire, PushOff, Goto
  <1>8. ASSUME NEW c \in Cpus, ClockWake(c) PROVE OnOneCpu'
    BY <1>8 DEF ClockWake, TouchLock
  <1>9. ASSUME NEW c \in Cpus, ClockDone(c) PROVE OnOneCpu'
    BY <1>9 DEF ClockDone, Release, PopOff, Goto
  <1>10. ASSUME NEW c \in Cpus, TickIdle(c) PROVE OnOneCpu'
    BY <1>10 DEF TickIdle, Goto
  <1>11. ASSUME NEW c \in Cpus, Yield(c) PROVE OnOneCpu'
    BY <1>11 DEF Yield, Acquire, PushOff, Goto
  <1>12. ASSUME NEW c \in Cpus, Sched(c) PROVE OnOneCpu'
    BY <1>12 DEF Sched, Goto
  <1>13. ASSUME NEW c \in Cpus, Yielded(c) PROVE OnOneCpu'
    BY <1>13 DEF Yielded, Resume, Release, PopOff, Goto
  <1>14. ASSUME NEW c \in Cpus, Iret(c) PROVE OnOneCpu'
    BY <1>14 DEF Iret, Goto
  <1>15. ASSUME NEW c \in Cpus, ForkRet(c) PROVE OnOneCpu'
    BY <1>15 DEF ForkRet, Release, PopOff, Goto
  <1>16. ASSUME NEW c \in Cpus, PauseReturn(c) PROVE OnOneCpu'
    BY <1>16 DEF PauseReturn, PopOff, Goto
  <1>17. ASSUME NEW c \in Cpus, PauseNotKilled(c) PROVE OnOneCpu'
    BY <1>17 DEF PauseNotKilled, TouchLock, Goto
  <1>18. ASSUME NEW c \in Cpus, SleepLock(c) PROVE OnOneCpu'
    BY <1>18 DEF SleepLock, Acquire, PushOff, Goto
  <1>19. ASSUME NEW c \in Cpus, SleepRelease(c) PROVE OnOneCpu'
    BY <1>19 DEF SleepRelease, Release, PopOff, Goto
  <1>20. ASSUME NEW c \in Cpus, SleepSet(c) PROVE OnOneCpu'
    BY <1>20 DEF SleepSet, Goto
  <1>21. ASSUME NEW c \in Cpus, Slept(c) PROVE OnOneCpu'
    BY <1>21 DEF Slept, Resume, Release, PopOff, Goto
  <1>22. ASSUME NEW c \in Cpus, PauseAgain(c) PROVE OnOneCpu'
    BY <1>22 DEF PauseAgain, Acquire, PushOff, Goto
  <1>23. ASSUME NEW c \in Cpus, Interrupt(c) PROVE OnOneCpu'
    BY <1>23 DEF Interrupt, Goto
  <1>24. ASSUME NEW c \in Cpus, PauseCall(c) PROVE OnOneCpu'
    BY <1>24 DEF PauseCall, Acquire, PushOff, Goto
  <1>25. ASSUME NEW c \in Cpus, NEW q \in Slots, Kill(c, q) PROVE OnOneCpu'
    BY <1>25 DEF Kill, TouchLock
  <1>26. CASE UNCHANGED vars
    BY <1>26 DEF vars, procvars, cpuvars
  <1> QED
    BY <1>1, <1>2, <1>3, <1>4, <1>5, <1>6, <1>7, <1>8, <1>9, <1>10, <1>11,
       <1>12, <1>13, <1>14, <1>15, <1>16, <1>17, <1>18, <1>19, <1>20, <1>21,
       <1>22, <1>23, <1>24, <1>25, <1>26 DEF Next, SchedulerStep, InterruptStep,
       PauseStep

\* What p->state says stays true.
LEMMA RunStateStep ==
    ASSUME SchedInv, [Next]_vars
    PROVE  RunState'
  <1> USE Threadings DEF SchedInv, TypeOK, OnCpu, OnOneCpu, CpuFlags, Here,
     RunState, SchedulerPC, Handler, HasPlock, HasTickslock, Enabled, PlockHolder,
     Saved, At, procvars, cpuvars
  <1>1. ASSUME NEW c \in Cpus, SchedOn(c) PROVE RunState'
    BY <1>1 DEF SchedOn, Goto
  <1>2. ASSUME NEW c \in Cpus, SchedOff(c) PROVE RunState'
    BY <1>2 DEF SchedOff, Goto
  <1>3. ASSUME NEW c \in Cpus, SchedSkip(c) PROVE RunState'
    BY <1>3 DEF SchedSkip, TouchLock
  <1>4. ASSUME NEW c \in Cpus, SchedRun(c) PROVE RunState'
    BY <1>4 DEF SchedRun, Acquire, PushOff, Goto
  <1>5. ASSUME NEW c \in Cpus, SchedBack(c) PROVE RunState'
    BY <1>5 DEF SchedBack, Release, PopOff, Goto
  <1>6. ASSUME NEW c \in Cpus, SchedEnd(c) PROVE RunState'
    BY <1>6 DEF SchedEnd, Goto
  <1>7. ASSUME NEW c \in Cpus, Clock(c) PROVE RunState'
    BY <1>7 DEF Clock, Acquire, PushOff, Goto
  <1>8. ASSUME NEW c \in Cpus, ClockWake(c) PROVE RunState'
    BY <1>8 DEF ClockWake, TouchLock
  <1>9. ASSUME NEW c \in Cpus, ClockDone(c) PROVE RunState'
    BY <1>9 DEF ClockDone, Release, PopOff, Goto
  <1>10. ASSUME NEW c \in Cpus, TickIdle(c) PROVE RunState'
    BY <1>10 DEF TickIdle, Goto
  <1>11. ASSUME NEW c \in Cpus, Yield(c) PROVE RunState'
    BY <1>11 DEF Yield, Acquire, PushOff, Goto
  <1>12. ASSUME NEW c \in Cpus, Sched(c) PROVE RunState'
    BY <1>12 DEF Sched, Goto
  <1>13. ASSUME NEW c \in Cpus, Yielded(c) PROVE RunState'
    BY <1>13 DEF Yielded, Resume, Release, PopOff, Goto
  <1>14. ASSUME NEW c \in Cpus, Iret(c) PROVE RunState'
    BY <1>14 DEF Iret, Goto
  <1>15. ASSUME NEW c \in Cpus, ForkRet(c) PROVE RunState'
    BY <1>15 DEF ForkRet, Release, PopOff, Goto
  <1>16. ASSUME NEW c \in Cpus, PauseReturn(c) PROVE RunState'
    BY <1>16 DEF PauseReturn, PopOff, Goto
  <1>17. ASSUME NEW c \in Cpus, PauseNotKilled(c) PROVE RunState'
    BY <1>17 DEF PauseNotKilled, TouchLock, Goto
  <1>18. ASSUME NEW c \in Cpus, SleepLock(c) PROVE RunState'
    BY <1>18 DEF SleepLock, Acquire, PushOff, Goto
  <1>19. ASSUME NEW c \in Cpus, SleepRelease(c) PROVE RunState'
    BY <1>19 DEF SleepRelease, Release, PopOff, Goto
  <1>20. ASSUME NEW c \in Cpus, SleepSet(c) PROVE RunState'
    BY <1>20 DEF SleepSet, Goto
  <1>21. ASSUME NEW c \in Cpus, Slept(c) PROVE RunState'
    BY <1>21 DEF Slept, Resume, Release, PopOff, Goto
  <1>22. ASSUME NEW c \in Cpus, PauseAgain(c) PROVE RunState'
    BY <1>22 DEF PauseAgain, Acquire, PushOff, Goto
  <1>23. ASSUME NEW c \in Cpus, Interrupt(c) PROVE RunState'
    <2>1. /\ UNCHANGED <<state, cur>> /\ Here(c) \in Enabled
          /\ \A t \in Threads : t # cur[c] => pc'[t] = pc[t]
          /\ pc'[cur[c]] \in {"clock", "tick"}
      BY <1>23 DEF Interrupt, Goto
    <2>2. \A p \in Slots : p # cur[c] => pc'[p] = pc[p]
      BY <2>1
    <2>3. cur[c] \in Slots => state[cur[c]] = "RUNNING"
      BY <2>1
    <2> QED
      BY <2>1, <2>2, <2>3
  <1>24. ASSUME NEW c \in Cpus, PauseCall(c) PROVE RunState'
    BY <1>24 DEF PauseCall, Acquire, PushOff, Goto
  <1>25. ASSUME NEW c \in Cpus, NEW q \in Slots, Kill(c, q) PROVE RunState'
    BY <1>25 DEF Kill, TouchLock
  <1>26. CASE UNCHANGED vars
    BY <1>26 DEF vars, procvars, cpuvars
  <1> QED
    BY <1>1, <1>2, <1>3, <1>4, <1>5, <1>6, <1>7, <1>8, <1>9, <1>10, <1>11,
       <1>12, <1>13, <1>14, <1>15, <1>16, <1>17, <1>18, <1>19, <1>20, <1>21,
       <1>22, <1>23, <1>24, <1>25, <1>26 DEF Next, SchedulerStep, InterruptStep,
       PauseStep

\* p->lock goes from the process to the scheduler and back with swtch().
LEMMA PlockStep ==
    ASSUME SchedInv, [Next]_vars
    PROVE  PlockHolder'
  <1> USE Threadings DEF SchedInv, TypeOK, OnCpu, OnOneCpu, CpuFlags, Here,
     RunState, SchedulerPC, Handler, HasPlock, HasTickslock, Enabled, PlockHolder,
     Saved, At, procvars, cpuvars
  <1>1. ASSUME NEW c \in Cpus, SchedOn(c) PROVE PlockHolder'
    BY <1>1 DEF SchedOn, Goto
  <1>2. ASSUME NEW c \in Cpus, SchedOff(c) PROVE PlockHolder'
    BY <1>2 DEF SchedOff, Goto
  <1>3. ASSUME NEW c \in Cpus, SchedSkip(c) PROVE PlockHolder'
    BY <1>3 DEF SchedSkip, TouchLock
  <1>4. ASSUME NEW c \in Cpus, SchedRun(c) PROVE PlockHolder'
    BY <1>4 DEF SchedRun, Acquire, PushOff, Goto
  <1>5. ASSUME NEW c \in Cpus, SchedBack(c) PROVE PlockHolder'
    BY <1>5 DEF SchedBack, Release, PopOff, Goto
  <1>6. ASSUME NEW c \in Cpus, SchedEnd(c) PROVE PlockHolder'
    BY <1>6 DEF SchedEnd, Goto
  <1>7. ASSUME NEW c \in Cpus, Clock(c) PROVE PlockHolder'
    BY <1>7 DEF Clock, Acquire, PushOff, Goto
  <1>8. ASSUME NEW c \in Cpus, ClockWake(c) PROVE PlockHolder'
    BY <1>8 DEF ClockWake, TouchLock
  <1>9. ASSUME NEW c \in Cpus, ClockDone(c) PROVE PlockHolder'
    BY <1>9 DEF ClockDone, Release, PopOff, Goto
  <1>10. ASSUME NEW c \in Cpus, TickIdle(c) PROVE PlockHolder'
    BY <1>10 DEF TickIdle, Goto
  <1>11. ASSUME NEW c \in Cpus, Yield(c) PROVE PlockHolder'
    BY <1>11 DEF Yield, Acquire, PushOff, Goto
  <1>12. ASSUME NEW c \in Cpus, Sched(c) PROVE PlockHolder'
    BY <1>12 DEF Sched, Goto
  <1>13. ASSUME NEW c \in Cpus, Yielded(c) PROVE PlockHolder'
    BY <1>13 DEF Yielded, Resume, Release, PopOff, Goto
  <1>14. ASSUME NEW c \in Cpus, Iret(c) PROVE PlockHolder'
    <2>1. UNCHANGED <<plock, cur, idx>> /\ pc' = [pc EXCEPT ![cur[c]] = ret[cur[c]]]
      BY <1>14 DEF Iret, Goto
    <2>2. ret[cur[c]] \notin HasPlock \union {"sched_back"}
      BY <1>14 DEF Iret
    <2>3. pc[cur[c]] = "iret"
      BY <1>14 DEF Iret
    <2>4. \A t \in Threads : /\ pc'[t] \in HasPlock <=> pc[t] \in HasPlock
                             /\ pc'[t] = "sched_back" <=> pc[t] = "sched_back"
      BY <2>1, <2>2, <2>3
    <2> HIDE DEF HasPlock, SchedInv
    <2>5. \A d \in Cpus : Here(d)' = "sched_back" <=> Here(d) = "sched_back"
      BY <2>1, <2>4 DEF SchedInv
    <2> QED
      BY <2>1, <2>4, <2>5 DEF SchedInv
  <1>15. ASSUME NEW c \in Cpus, ForkRet(c) PROVE PlockHolder'
    BY <1>15 DEF ForkRet, Release, PopOff, Goto
  <1>16. ASSUME NEW c \in Cpus, PauseReturn(c) PROVE PlockHolder'
    BY <1>16 DEF PauseReturn, PopOff, Goto
  <1>17. ASSUME NEW c \in Cpus, PauseNotKilled(c) PROVE PlockHolder'
    BY <1>17 DEF PauseNotKilled, TouchLock, Goto
  <1>18. ASSUME NEW c \in Cpus, SleepLock(c) PROVE PlockHolder'
    BY <1>18 DEF SleepLock, Acquire, PushOff, Goto
  <1>19. ASSUME NEW c \in Cpus, SleepRelease(c) PROVE PlockHolder'
    BY <1>19 DEF SleepRelease, Release, PopOff, Goto
  <1>20. ASSUME NEW c \in Cpus, SleepSet(c) PROVE PlockHolder'
    BY <1>20 DEF SleepSet, Goto
  <1>21. ASSUME NEW c \in Cpus, Slept(c) PROVE PlockHolder'
    BY <1>21 DEF Slept, Resume, Release, PopOff, Goto
  <1>22. ASSUME NEW c \in Cpus, PauseAgain(c) PROVE PlockHolder'
    BY <1>22 DEF PauseAgain, Acquire, PushOff, Goto
  <1>23. ASSUME NEW c \in Cpus, Interrupt(c) PROVE PlockHolder'
    BY <1>23 DEF Interrupt, Goto
  <1>24. ASSUME NEW c \in Cpus, PauseCall(c) PROVE PlockHolder'
    BY <1>24 DEF PauseCall, Acquire, PushOff, Goto
  <1>25. ASSUME NEW c \in Cpus, NEW q \in Slots, Kill(c, q) PROVE PlockHolder'
    BY <1>25 DEF Kill, TouchLock
  <1>26. CASE UNCHANGED vars
    BY <1>26 DEF vars, procvars, cpuvars
  <1> QED
    BY <1>1, <1>2, <1>3, <1>4, <1>5, <1>6, <1>7, <1>8, <1>9, <1>10, <1>11,
       <1>12, <1>13, <1>14, <1>15, <1>16, <1>17, <1>18, <1>19, <1>20, <1>21,
       <1>22, <1>23, <1>24, <1>25, <1>26 DEF Next, SchedulerStep, InterruptStep,
       PauseStep

\* tickslock has one holder.
LEMMA TickslockStep ==
    ASSUME SchedInv, [Next]_vars
    PROVE  TickslockHolder'
  <1> USE Threadings DEF SchedInv, TypeOK, OnCpu, OnOneCpu, CpuFlags, Here,
     RunState, SchedulerPC, Handler, HasPlock, HasTickslock, Enabled,
     TickslockHolder, Saved, At, procvars, cpuvars
  <1>1. ASSUME NEW c \in Cpus, SchedOn(c) PROVE TickslockHolder'
    BY <1>1 DEF SchedOn, Goto
  <1>2. ASSUME NEW c \in Cpus, SchedOff(c) PROVE TickslockHolder'
    BY <1>2 DEF SchedOff, Goto
  <1>3. ASSUME NEW c \in Cpus, SchedSkip(c) PROVE TickslockHolder'
    BY <1>3 DEF SchedSkip, TouchLock
  <1>4. ASSUME NEW c \in Cpus, SchedRun(c) PROVE TickslockHolder'
    <2>1. /\ cur' = [cur EXCEPT ![c] = idx[c]] /\ UNCHANGED tickslock
          /\ pc' = [pc EXCEPT ![cur[c]] = "sched_back"] /\ Here(c) = "sched_scan"
      BY <1>4 DEF SchedRun, Goto
    <2>2. cur[c] = Scheduler(c) /\ idx[c] \in Slots
      BY <1>4, <2>1 DEF SchedRun
    <2>3. pc[idx[c]] \notin HasTickslock \/ \E d \in Cpus : cur[d] = idx[c]
      BY <2>2
    <2>7. plock[idx[c]] = None
      BY <1>4, <2>1, <2>2, Unlocked DEF SchedRun, Acquire
    <2>4. \A d \in Cpus : cur[d] # idx[c]
      BY <1>4, <2>2, <2>7 DEF SchedRun, PlockHolder
    <2>5. \A d \in Cpus : d # c => Here(d)' = Here(d)
      BY <2>1, <2>2
    <2>6. Here(c)' \notin HasTickslock
      BY <2>1, <2>2, <2>3, <2>4
    <2> QED
      BY <2>1, <2>5, <2>6
  <1>5. ASSUME NEW c \in Cpus, SchedBack(c) PROVE TickslockHolder'
    BY <1>5 DEF SchedBack, Release, PopOff, Goto
  <1>6. ASSUME NEW c \in Cpus, SchedEnd(c) PROVE TickslockHolder'
    BY <1>6 DEF SchedEnd, Goto
  <1>7. ASSUME NEW c \in Cpus, Clock(c) PROVE TickslockHolder'
    BY <1>7 DEF Clock, Acquire, PushOff, Goto
  <1>8. ASSUME NEW c \in Cpus, ClockWake(c) PROVE TickslockHolder'
    BY <1>8 DEF ClockWake, TouchLock
  <1>9. ASSUME NEW c \in Cpus, ClockDone(c) PROVE TickslockHolder'
    BY <1>9 DEF ClockDone, Release, PopOff, Goto
  <1>10. ASSUME NEW c \in Cpus, TickIdle(c) PROVE TickslockHolder'
    BY <1>10 DEF TickIdle, Goto
  <1>11. ASSUME NEW c \in Cpus, Yield(c) PROVE TickslockHolder'
    BY <1>11 DEF Yield, Acquire, PushOff, Goto
  <1>12. ASSUME NEW c \in Cpus, Sched(c) PROVE TickslockHolder'
    BY <1>12 DEF Sched, Goto
  <1>13. ASSUME NEW c \in Cpus, Yielded(c) PROVE TickslockHolder'
    BY <1>13 DEF Yielded, Resume, Release, PopOff, Goto
  <1>14. ASSUME NEW c \in Cpus, Iret(c) PROVE TickslockHolder'
    BY <1>14, SMTT(60) DEF Iret, Goto
  <1>15. ASSUME NEW c \in Cpus, ForkRet(c) PROVE TickslockHolder'
    BY <1>15 DEF ForkRet, Release, PopOff, Goto
  <1>16. ASSUME NEW c \in Cpus, PauseReturn(c) PROVE TickslockHolder'
    BY <1>16 DEF PauseReturn, PopOff, Goto
  <1>17. ASSUME NEW c \in Cpus, PauseNotKilled(c) PROVE TickslockHolder'
    BY <1>17 DEF PauseNotKilled, TouchLock, Goto
  <1>18. ASSUME NEW c \in Cpus, SleepLock(c) PROVE TickslockHolder'
    BY <1>18 DEF SleepLock, Acquire, PushOff, Goto
  <1>19. ASSUME NEW c \in Cpus, SleepRelease(c) PROVE TickslockHolder'
    BY <1>19 DEF SleepRelease, Release, PopOff, Goto
  <1>20. ASSUME NEW c \in Cpus, SleepSet(c) PROVE TickslockHolder'
    BY <1>20 DEF SleepSet, Goto
  <1>21. ASSUME NEW c \in Cpus, Slept(c) PROVE TickslockHolder'
    BY <1>21 DEF Slept, Resume, Release, PopOff, Goto
  <1>22. ASSUME NEW c \in Cpus, PauseAgain(c) PROVE TickslockHolder'
    BY <1>22 DEF PauseAgain, Acquire, PushOff, Goto
  <1>23. ASSUME NEW c \in Cpus, Interrupt(c) PROVE TickslockHolder'
    BY <1>23 DEF Interrupt, Goto
  <1>24. ASSUME NEW c \in Cpus, PauseCall(c) PROVE TickslockHolder'
    BY <1>24 DEF PauseCall, Acquire, PushOff, Goto
  <1>25. ASSUME NEW c \in Cpus, NEW q \in Slots, Kill(c, q)
        PROVE  TickslockHolder'
    BY <1>25 DEF Kill, TouchLock
  <1>26. CASE UNCHANGED vars
    BY <1>26 DEF vars, procvars, cpuvars
  <1> QED
    BY <1>1, <1>2, <1>3, <1>4, <1>5, <1>6, <1>7, <1>8, <1>9, <1>10, <1>11,
       <1>12, <1>13, <1>14, <1>15, <1>16, <1>17, <1>18, <1>19, <1>20, <1>21,
       <1>22, <1>23, <1>24, <1>25, <1>26 DEF Next, SchedulerStep, InterruptStep,
       PauseStep

\* push_off() and pop_off() nest.
LEMMA FlagsStep ==
    ASSUME SchedInv, [Next]_vars
    PROVE  CpuFlags'
  <1> USE Threadings DEF SchedInv, TypeOK, OnCpu, OnOneCpu, CpuFlags, Here,
     RunState, SchedulerPC, Handler, HasPlock, HasTickslock, Enabled, Saved, At,
     procvars, cpuvars
  <1>1. ASSUME NEW c \in Cpus, SchedOn(c) PROVE CpuFlags'
    BY <1>1 DEF SchedOn, Goto
  <1>2. ASSUME NEW c \in Cpus, SchedOff(c) PROVE CpuFlags'
    BY <1>2 DEF SchedOff, Goto
  <1>3. ASSUME NEW c \in Cpus, SchedSkip(c) PROVE CpuFlags'
    BY <1>3 DEF SchedSkip, TouchLock
  <1>4. ASSUME NEW c \in Cpus, SchedRun(c) PROVE CpuFlags'
    BY <1>4 DEF SchedRun, Acquire, PushOff, Goto
  <1>5. ASSUME NEW c \in Cpus, SchedBack(c) PROVE CpuFlags'
    BY <1>5 DEF SchedBack, Release, PopOff, Goto
  <1>6. ASSUME NEW c \in Cpus, SchedEnd(c) PROVE CpuFlags'
    BY <1>6 DEF SchedEnd, Goto
  <1>7. ASSUME NEW c \in Cpus, Clock(c) PROVE CpuFlags'
    BY <1>7 DEF Clock, Acquire, PushOff, Goto
  <1>8. ASSUME NEW c \in Cpus, ClockWake(c) PROVE CpuFlags'
    BY <1>8 DEF ClockWake, TouchLock
  <1>9. ASSUME NEW c \in Cpus, ClockDone(c) PROVE CpuFlags'
    BY <1>9 DEF ClockDone, Release, PopOff, Goto
  <1>10. ASSUME NEW c \in Cpus, TickIdle(c) PROVE CpuFlags'
    BY <1>10 DEF TickIdle, Goto
  <1>11. ASSUME NEW c \in Cpus, Yield(c) PROVE CpuFlags'
    BY <1>11 DEF Yield, Acquire, PushOff, Goto
  <1>12. ASSUME NEW c \in Cpus, Sched(c) PROVE CpuFlags'
    BY <1>12 DEF Sched, Goto
  <1>13. ASSUME NEW c \in Cpus, Yielded(c) PROVE CpuFlags'
    BY <1>13 DEF Yielded, Resume, Release, PopOff, Goto
  <1>14. ASSUME NEW c \in Cpus, Iret(c) PROVE CpuFlags'
    BY <1>14 DEF Iret, Goto
  <1>15. ASSUME NEW c \in Cpus, ForkRet(c) PROVE CpuFlags'
    BY <1>15 DEF ForkRet, Release, PopOff, Goto
  <1>16. ASSUME NEW c \in Cpus, PauseReturn(c) PROVE CpuFlags'
    BY <1>16 DEF PauseReturn, PopOff, Goto
  <1>17. ASSUME NEW c \in Cpus, PauseNotKilled(c) PROVE CpuFlags'
    BY <1>17 DEF PauseNotKilled, TouchLock, Goto
  <1>18. ASSUME NEW c \in Cpus, SleepLock(c) PROVE CpuFlags'
    BY <1>18 DEF SleepLock, Acquire, PushOff, Goto
  <1>19. ASSUME NEW c \in Cpus, SleepRelease(c) PROVE CpuFlags'
    BY <1>19 DEF SleepRelease, Release, PopOff, Goto
  <1>20. ASSUME NEW c \in Cpus, SleepSet(c) PROVE CpuFlags'
    BY <1>20 DEF SleepSet, Goto
  <1>21. ASSUME NEW c \in Cpus, Slept(c) PROVE CpuFlags'
    BY <1>21 DEF Slept, Resume, Release, PopOff, Goto
  <1>22. ASSUME NEW c \in Cpus, PauseAgain(c) PROVE CpuFlags'
    BY <1>22 DEF PauseAgain, Acquire, PushOff, Goto
  <1>23. ASSUME NEW c \in Cpus, Interrupt(c) PROVE CpuFlags'
    BY <1>23 DEF Interrupt, Goto
  <1>24. ASSUME NEW c \in Cpus, PauseCall(c) PROVE CpuFlags'
    BY <1>24 DEF PauseCall, Acquire, PushOff, Goto
  <1>25. ASSUME NEW c \in Cpus, NEW q \in Slots, Kill(c, q) PROVE CpuFlags'
    BY <1>25 DEF Kill, TouchLock
  <1>26. CASE UNCHANGED vars
    BY <1>26 DEF vars, procvars, cpuvars
  <1> QED
    BY <1>1, <1>2, <1>3, <1>4, <1>5, <1>6, <1>7, <1>8, <1>9, <1>10, <1>11,
       <1>12, <1>13, <1>14, <1>15, <1>16, <1>17, <1>18, <1>19, <1>20, <1>21,
       <1>22, <1>23, <1>24, <1>25, <1>26 DEF Next, SchedulerStep, InterruptStep,
       PauseStep

\* Nobody else changes what a thread saved.
LEMMA SavedStep ==
    ASSUME SchedInv, [Next]_vars
    PROVE  Saved'
  <1> USE Threadings DEF SchedInv, TypeOK, OnCpu, OnOneCpu, CpuFlags, Here,
     RunState, SchedulerPC, Handler, HasPlock, HasTickslock, Enabled, Saved, At,
     procvars, cpuvars
  <1>1. ASSUME NEW c \in Cpus, SchedOn(c) PROVE Saved'
    BY <1>1 DEF SchedOn, Goto
  <1>2. ASSUME NEW c \in Cpus, SchedOff(c) PROVE Saved'
    BY <1>2 DEF SchedOff, Goto
  <1>3. ASSUME NEW c \in Cpus, SchedSkip(c) PROVE Saved'
    BY <1>3 DEF SchedSkip, TouchLock
  <1>4. ASSUME NEW c \in Cpus, SchedRun(c) PROVE Saved'
    BY <1>4 DEF SchedRun, Acquire, PushOff, Goto
  <1>5. ASSUME NEW c \in Cpus, SchedBack(c) PROVE Saved'
    BY <1>5 DEF SchedBack, Release, PopOff, Goto
  <1>6. ASSUME NEW c \in Cpus, SchedEnd(c) PROVE Saved'
    BY <1>6 DEF SchedEnd, Goto
  <1>7. ASSUME NEW c \in Cpus, Clock(c) PROVE Saved'
    BY <1>7 DEF Clock, Acquire, PushOff, Goto
  <1>8. ASSUME NEW c \in Cpus, ClockWake(c) PROVE Saved'
    BY <1>8 DEF ClockWake, TouchLock
  <1>9. ASSUME NEW c \in Cpus, ClockDone(c) PROVE Saved'
    BY <1>9 DEF ClockDone, Release, PopOff, Goto
  <1>10. ASSUME NEW c \in Cpus, TickIdle(c) PROVE Saved'
    BY <1>10 DEF TickIdle, Goto
  <1>11. ASSUME NEW c \in Cpus, Yield(c) PROVE Saved'
    BY <1>11 DEF Yield, Acquire, PushOff, Goto
  <1>12. ASSUME NEW c \in Cpus, Sched(c) PROVE Saved'
    BY <1>12 DEF Sched, Goto
  <1>13. ASSUME NEW c \in Cpus, Yielded(c) PROVE Saved'
    BY <1>13 DEF Yielded, Resume, Release, PopOff, Goto
  <1>14. ASSUME NEW c \in Cpus, Iret(c) PROVE Saved'
    BY <1>14 DEF Iret, Goto
  <1>15. ASSUME NEW c \in Cpus, ForkRet(c) PROVE Saved'
    <2>1. UNCHANGED <<intena0, ret>> /\ pc' = [pc EXCEPT ![cur[c]] = "iret"]
      BY <1>15 DEF ForkRet, Goto
    <2>2. cur[c] \in Slots
      BY <1>15 DEF ForkRet
    <2> QED
      BY <2>1, <2>2
  <1>16. ASSUME NEW c \in Cpus, PauseReturn(c) PROVE Saved'
    BY <1>16 DEF PauseReturn, PopOff, Goto
  <1>17. ASSUME NEW c \in Cpus, PauseNotKilled(c) PROVE Saved'
    BY <1>17 DEF PauseNotKilled, TouchLock, Goto
  <1>18. ASSUME NEW c \in Cpus, SleepLock(c) PROVE Saved'
    BY <1>18 DEF SleepLock, Acquire, PushOff, Goto
  <1>19. ASSUME NEW c \in Cpus, SleepRelease(c) PROVE Saved'
    BY <1>19 DEF SleepRelease, Release, PopOff, Goto
  <1>20. ASSUME NEW c \in Cpus, SleepSet(c) PROVE Saved'
    BY <1>20 DEF SleepSet, Goto
  <1>21. ASSUME NEW c \in Cpus, Slept(c) PROVE Saved'
    BY <1>21 DEF Slept, Resume, Release, PopOff, Goto
  <1>22. ASSUME NEW c \in Cpus, PauseAgain(c) PROVE Saved'
    BY <1>22 DEF PauseAgain, Acquire, PushOff, Goto
  <1>23. ASSUME NEW c \in Cpus, Interrupt(c) PROVE Saved'
    <2>1. Here(c) \in Enabled
      BY <1>23 DEF Interrupt
    <2>2. /\ ret' = [ret EXCEPT ![cur[c]] = Here(c)] /\ UNCHANGED intena0
          /\ \A t \in Threads : t # cur[c] => pc'[t] = pc[t]
          /\ pc'[cur[c]] \in {"clock", "tick"}
      BY <1>23 DEF Interrupt, Goto
    <2>3. cur[c] = Scheduler(c) \/ cur[c] \in Slots
      OBVIOUS
    <2>4. CASE cur[c] \in Slots
      <3>1. Here(c) \in {"user", "pause", "iret"}
        BY <2>1, <2>4
      <3> QED
        BY <2>2, <2>4, <3>1
    <2>5. CASE cur[c] = Scheduler(c)
      <3>1. Here(c) \in {"sched_on", "sched_off", "sched_scan", "iret"}
        BY <2>1, <2>5
      <3>2. Here(c) = "iret" => intr[c] = 0
        BY <2>5
      <3> QED
        BY <2>2, <2>5, <3>1, <3>2, <1>23 DEF Interrupt
    <2> QED
      BY <2>3, <2>4, <2>5
  <1>24. ASSUME NEW c \in Cpus, PauseCall(c) PROVE Saved'
    BY <1>24 DEF PauseCall, Acquire, PushOff, Goto
  <1>25. ASSUME NEW c \in Cpus, NEW q \in Slots, Kill(c, q) PROVE Saved'
    BY <1>25 DEF Kill, TouchLock
  <1>26. CASE UNCHANGED vars
    BY <1>26 DEF vars, procvars, cpuvars
  <1> QED
    BY <1>1, <1>2, <1>3, <1>4, <1>5, <1>6, <1>7, <1>8, <1>9, <1>10, <1>11,
       <1>12, <1>13, <1>14, <1>15, <1>16, <1>17, <1>18, <1>19, <1>20, <1>21,
       <1>22, <1>23, <1>24, <1>25, <1>26 DEF Next, SchedulerStep, InterruptStep,
       PauseStep

\* wakeup() starts from the first process and looks for the channel slept on.
LEMMA WakeupStep ==
    ASSUME SchedInv, [Next]_vars
    PROVE  WakeupReady'
  <1> USE Threadings DEF SchedInv, TypeOK, OnCpu, OnOneCpu, CpuFlags, Here,
     RunState, SchedulerPC, Handler, HasPlock, HasTickslock, Enabled, WakeupReady,
     At, procvars, cpuvars
  <1>1. ASSUME NEW c \in Cpus, SchedOn(c) PROVE WakeupReady'
    BY <1>1 DEF SchedOn, Goto
  <1>2. ASSUME NEW c \in Cpus, SchedOff(c) PROVE WakeupReady'
    BY <1>2 DEF SchedOff, Goto
  <1>3. ASSUME NEW c \in Cpus, SchedSkip(c) PROVE WakeupReady'
    BY <1>3 DEF SchedSkip, TouchLock
  <1>4. ASSUME NEW c \in Cpus, SchedRun(c) PROVE WakeupReady'
    BY <1>4 DEF SchedRun, Acquire, PushOff, Goto
  <1>5. ASSUME NEW c \in Cpus, SchedBack(c) PROVE WakeupReady'
    BY <1>5 DEF SchedBack, Release, PopOff, Goto
  <1>6. ASSUME NEW c \in Cpus, SchedEnd(c) PROVE WakeupReady'
    BY <1>6 DEF SchedEnd, Goto
  <1>7. ASSUME NEW c \in Cpus, Clock(c) PROVE WakeupReady'
    BY <1>7 DEF Clock, Acquire, PushOff, Goto
  <1>8. ASSUME NEW c \in Cpus, ClockWake(c) PROVE WakeupReady'
    BY <1>8 DEF ClockWake, TouchLock
  <1>9. ASSUME NEW c \in Cpus, ClockDone(c) PROVE WakeupReady'
    BY <1>9 DEF ClockDone, Release, PopOff, Goto
  <1>10. ASSUME NEW c \in Cpus, TickIdle(c) PROVE WakeupReady'
    BY <1>10 DEF TickIdle, Goto
  <1>11. ASSUME NEW c \in Cpus, Yield(c) PROVE WakeupReady'
    BY <1>11 DEF Yield, Acquire, PushOff, Goto
  <1>12. ASSUME NEW c \in Cpus, Sched(c) PROVE WakeupReady'
    BY <1>12 DEF Sched, Goto
  <1>13. ASSUME NEW c \in Cpus, Yielded(c) PROVE WakeupReady'
    BY <1>13 DEF Yielded, Resume, Release, PopOff, Goto
  <1>14. ASSUME NEW c \in Cpus, Iret(c) PROVE WakeupReady'
    BY <1>14 DEF Iret, Goto
  <1>15. ASSUME NEW c \in Cpus, ForkRet(c) PROVE WakeupReady'
    BY <1>15 DEF ForkRet, Release, PopOff, Goto
  <1>16. ASSUME NEW c \in Cpus, PauseReturn(c) PROVE WakeupReady'
    BY <1>16 DEF PauseReturn, PopOff, Goto
  <1>17. ASSUME NEW c \in Cpus, PauseNotKilled(c) PROVE WakeupReady'
    BY <1>17 DEF PauseNotKilled, TouchLock, Goto
  <1>18. ASSUME NEW c \in Cpus, SleepLock(c) PROVE WakeupReady'
    BY <1>18 DEF SleepLock, Acquire, PushOff, Goto
  <1>19. ASSUME NEW c \in Cpus, SleepRelease(c) PROVE WakeupReady'
    BY <1>19 DEF SleepRelease, Release, PopOff, Goto
  <1>20. ASSUME NEW c \in Cpus, SleepSet(c) PROVE WakeupReady'
    BY <1>20 DEF SleepSet, Goto
  <1>21. ASSUME NEW c \in Cpus, Slept(c) PROVE WakeupReady'
    <2>1. /\ chan' = [chan EXCEPT ![cur[c]] = 0] /\ UNCHANGED <<state, cur, w>>
          /\ pc' = [pc EXCEPT ![cur[c]] = "pause"] /\ Here(c) = "slept"
      BY <1>21 DEF Slept, Goto
    <2>2. cur[c] \in Slots /\ state[cur[c]] = "RUNNING"
      BY <2>1
    <2>3. \A d \in Cpus : Here(d)' # "clock_wake" => Here(d) # "clock_wake"
      BY <2>1
    <2> QED
      BY <2>1, <2>2, <2>3
  <1>22. ASSUME NEW c \in Cpus, PauseAgain(c) PROVE WakeupReady'
    BY <1>22 DEF PauseAgain, Acquire, PushOff, Goto
  <1>23. ASSUME NEW c \in Cpus, Interrupt(c) PROVE WakeupReady'
    <2>1. /\ UNCHANGED <<state, chan, cur, w>> /\ Here(c) \in Enabled
          /\ \A t \in Threads : t # cur[c] => pc'[t] = pc[t]
      BY <1>23 DEF Interrupt, Goto
    <2>2. \A d \in Cpus : Here(d)' # "clock_wake" => Here(d) # "clock_wake"
      BY <2>1
    <2> QED
      BY <2>1, <2>2
  <1>24. ASSUME NEW c \in Cpus, PauseCall(c) PROVE WakeupReady'
    BY <1>24 DEF PauseCall, Acquire, PushOff, Goto
  <1>25. ASSUME NEW c \in Cpus, NEW q \in Slots, Kill(c, q) PROVE WakeupReady'
    BY <1>25 DEF Kill, TouchLock
  <1>26. CASE UNCHANGED vars
    BY <1>26 DEF vars, procvars, cpuvars
  <1> QED
    BY <1>1, <1>2, <1>3, <1>4, <1>5, <1>6, <1>7, <1>8, <1>9, <1>10, <1>11,
       <1>12, <1>13, <1>14, <1>15, <1>16, <1>17, <1>18, <1>19, <1>20, <1>21,
       <1>22, <1>23, <1>24, <1>25, <1>26 DEF Next, SchedulerStep, InterruptStep,
       PauseStep

\* A step that moves no clock, starts nobody's sleep and ends no wakeup().
LEMMA ReasonKept ==
    ASSUME SleepReason, UNCHANGED ticks,
           \A p \in Slots : GoingToSleep(p)' =>
              GoingToSleep(p) /\ ticks0'[p] = ticks0[p] /\ n'[p] = n[p],
           \A d \in Cpus : Here(d) = "clock_wake" => Here(d)' = "clock_wake" /\ w'[d] = w[d]
    PROVE  SleepReason'
  <1> SUFFICES ASSUME NEW p \in Slots, GoingToSleep(p)'
               PROVE  (Elapsed(p) < n[p] \/ \E d \in Cpus : Here(d) = "clock_wake" /\ w[d] <= p)'
    BY DEF SleepReason
  <1>1. Elapsed(p)' = Elapsed(p) /\ n'[p] = n[p]
    BY DEF Elapsed
  <1>2. CASE Elapsed(p) < n[p]
    BY <1>1, <1>2
  <1>3. ASSUME NEW d \in Cpus, Here(d) = "clock_wake", w[d] <= p
        PROVE  Here(d)' = "clock_wake" /\ w'[d] <= p
    BY <1>3
  <1> QED
    BY <1>2, <1>3 DEF SleepReason

\* No wakeup is lost.
LEMMA SleepStep ==
    ASSUME SchedInv, [Next]_vars
    PROVE  SleepReason'
  <1> USE Threadings DEF SchedInv, TypeOK, OnCpu, OnOneCpu, CpuFlags, Here,
     RunState, SchedulerPC, Handler, HasPlock, HasTickslock, Enabled, At,
     procvars, cpuvars
  <1>1. ASSUME NEW c \in Cpus, SchedOn(c) PROVE SleepReason'
    <2>1. \A p \in Slots : GoingToSleep(p)' =>
             GoingToSleep(p) /\ ticks0'[p] = ticks0[p] /\ n'[p] = n[p]
      BY <1>1 DEF GoingToSleep, SchedOn, Goto
    <2>2. \A d \in Cpus : Here(d) = "clock_wake" => Here(d)' = "clock_wake" /\ w'[d] = w[d]
      BY <1>1 DEF SchedOn, Goto
    <2>3. UNCHANGED ticks
      BY <1>1 DEF SchedOn
    <2> HIDE DEF Here
    <2> QED
      BY <2>1, <2>2, <2>3, ReasonKept
  <1>2. ASSUME NEW c \in Cpus, SchedOff(c) PROVE SleepReason'
    <2>1. \A p \in Slots : GoingToSleep(p)' =>
             GoingToSleep(p) /\ ticks0'[p] = ticks0[p] /\ n'[p] = n[p]
      BY <1>2 DEF GoingToSleep, SchedOff, Goto
    <2>2. \A d \in Cpus : Here(d) = "clock_wake" => Here(d)' = "clock_wake" /\ w'[d] = w[d]
      BY <1>2 DEF SchedOff, Goto
    <2>3. UNCHANGED ticks
      BY <1>2 DEF SchedOff
    <2> HIDE DEF Here
    <2> QED
      BY <2>1, <2>2, <2>3, ReasonKept
  <1>3. ASSUME NEW c \in Cpus, SchedSkip(c) PROVE SleepReason'
    <2>1. \A p \in Slots : GoingToSleep(p)' =>
             GoingToSleep(p) /\ ticks0'[p] = ticks0[p] /\ n'[p] = n[p]
      BY <1>3 DEF GoingToSleep, SchedSkip, TouchLock
    <2>2. \A d \in Cpus : Here(d) = "clock_wake" => Here(d)' = "clock_wake" /\ w'[d] = w[d]
      BY <1>3 DEF SchedSkip, TouchLock
    <2>3. UNCHANGED ticks
      BY <1>3 DEF SchedSkip
    <2> HIDE DEF Here
    <2> QED
      BY <2>1, <2>2, <2>3, ReasonKept
  <1>4. ASSUME NEW c \in Cpus, SchedRun(c) PROVE SleepReason'
    <2>1. \A p \in Slots : GoingToSleep(p)' =>
             GoingToSleep(p) /\ ticks0'[p] = ticks0[p] /\ n'[p] = n[p]
      BY <1>4 DEF GoingToSleep, SchedRun, Acquire, PushOff, Goto
    <2>2. \A d \in Cpus : Here(d) = "clock_wake" => Here(d)' = "clock_wake" /\ w'[d] = w[d]
      BY <1>4 DEF SchedRun, Acquire, PushOff, Goto
    <2>3. UNCHANGED ticks
      BY <1>4 DEF SchedRun
    <2> HIDE DEF Here
    <2> QED
      BY <2>1, <2>2, <2>3, ReasonKept
  <1>5. ASSUME NEW c \in Cpus, SchedBack(c) PROVE SleepReason'
    <2>1. \A p \in Slots : GoingToSleep(p)' =>
             GoingToSleep(p) /\ ticks0'[p] = ticks0[p] /\ n'[p] = n[p]
      BY <1>5 DEF GoingToSleep, SchedBack, Release, PopOff, Goto
    <2>2. \A d \in Cpus : Here(d) = "clock_wake" => Here(d)' = "clock_wake" /\ w'[d] = w[d]
      BY <1>5 DEF SchedBack, Release, PopOff, Goto
    <2>3. UNCHANGED ticks
      BY <1>5 DEF SchedBack
    <2> HIDE DEF Here
    <2> QED
      BY <2>1, <2>2, <2>3, ReasonKept
  <1>6. ASSUME NEW c \in Cpus, SchedEnd(c) PROVE SleepReason'
    <2>1. \A p \in Slots : GoingToSleep(p)' =>
             GoingToSleep(p) /\ ticks0'[p] = ticks0[p] /\ n'[p] = n[p]
      BY <1>6 DEF GoingToSleep, SchedEnd, Goto
    <2>2. \A d \in Cpus : Here(d) = "clock_wake" => Here(d)' = "clock_wake" /\ w'[d] = w[d]
      BY <1>6 DEF SchedEnd, Goto
    <2>3. UNCHANGED ticks
      BY <1>6 DEF SchedEnd
    <2> HIDE DEF Here
    <2> QED
      BY <2>1, <2>2, <2>3, ReasonKept
  <1>7. ASSUME NEW c \in Cpus, Clock(c) PROVE SleepReason'
    <2>1. Here(c)' = "clock_wake" /\ w'[c] = 1
      BY <1>7 DEF Clock, Goto, WakeupReady
    <2>2. \A p \in Slots : 1 <= p
      BY DEF Slots
    <2> QED
      BY <2>1, <2>2 DEF SleepReason
  <1>8. ASSUME NEW c \in Cpus, ClockWake(c) PROVE SleepReason'
    <2>1. /\ UNCHANGED <<ticks, ticks0, n, pc, cur>> /\ w' = [w EXCEPT ![c] = @ + 1]
          /\ w[c] \in Slots /\ Here(c) = "clock_wake"
      BY <1>8 DEF ClockWake
    <2>2. \A d \in Cpus : Here(d) = "clock_wake" => d = c
      BY <1>8 DEF ClockWake, TickslockHolder
    <2>3. \A p \in Slots : GoingToSleep(p)' => GoingToSleep(p)
      BY <1>8 DEF ClockWake, GoingToSleep, TouchLock
    <2>x. PICK x \in Slots : x = w[c]
      BY <2>1
    <2>4. ~GoingToSleep(x)'
      <3>1. CASE x = cur[c]
        BY <1>8, <3>1, <2>1, <2>x DEF ClockWake, GoingToSleep
      <3>2. CASE x # cur[c]
        <4>0. plock[x] # c
          BY <2>1, <3>2 DEF PlockHolder
        <4>1. plock[x] = None
          BY <1>8, <2>x, <3>2, <4>0 DEF ClockWake, TouchLock
        <4>2. pc[x] \notin {"sleep_release", "sleep_set", "sleep_sched"}
          <5>1. CASE \E d \in Cpus : cur[d] = x
            BY <5>1, <4>1, <2>1, <2>x DEF PlockHolder
          <5>2. CASE \A d \in Cpus : cur[d] # x
            BY <5>2, <2>1, <2>x
          <5> QED
            BY <5>1, <5>2
        <4>3. pc[x] # "pause_sleep"
          <5>1. CASE \E d \in Cpus : cur[d] = x
            BY <5>1, <2>1, <2>x, <3>2 DEF TickslockHolder
          <5>2. CASE \A d \in Cpus : cur[d] # x
            BY <5>2, <2>1, <2>x
          <5> QED
            BY <5>1, <5>2
        <4>4. state'[x] # "SLEEPING"
          BY <1>8, <3>2, <2>1, <2>x DEF ClockWake, WakeupReady
        <4> QED
          BY <4>2, <4>3, <4>4, <2>1, <2>x DEF GoingToSleep
      <3> QED
        BY <3>1, <3>2
    <2>5. ASSUME NEW p \in Slots, GoingToSleep(p)'
          PROVE  Elapsed(p)' < n'[p] \/ w'[c] <= p
      <3>1. p # w[c] /\ GoingToSleep(p)
        BY <2>x, <2>3, <2>4, <2>5
      <3>2. Elapsed(p) < n[p] \/ w[c] <= p
        BY <2>2, <3>1 DEF SleepReason
      <3>3. w[c] <= p => w'[c] <= p
        BY <2>1, <3>1 DEF Slots
      <3> QED
        BY <2>1, <3>2, <3>3 DEF Elapsed
    <2> QED
      BY <2>1, <2>5 DEF SleepReason
  <1>9. ASSUME NEW c \in Cpus, ClockDone(c) PROVE SleepReason'
    <2>1. \A p \in Slots : GoingToSleep(p)' =>
             GoingToSleep(p) /\ ticks0'[p] = ticks0[p] /\ n'[p] = n[p]
      BY <1>9 DEF GoingToSleep, ClockDone, Goto
    <2>2. UNCHANGED ticks /\ ~(w[c] <= NPROC) /\ tickslock = c
      BY <1>9, SchedAssumption DEF ClockDone, TickslockHolder
    <2>3. \A d \in Cpus : Here(d) = "clock_wake" => d = c
      BY <2>2 DEF TickslockHolder
    <2>4. ASSUME NEW p \in Slots, GoingToSleep(p)'
          PROVE  Elapsed(p)' < n'[p]
      <3>1. ~(w[c] <= p)
        BY <2>2, SchedAssumption DEF Slots
      <3>2. Elapsed(p) < n[p]
        BY <2>1, <2>3, <2>4, <3>1 DEF SleepReason
      <3> QED
        BY <2>1, <2>2, <2>4, <3>2 DEF Elapsed
    <2> HIDE DEF Here
    <2> QED
      BY <2>4 DEF SleepReason
  <1>10. ASSUME NEW c \in Cpus, TickIdle(c) PROVE SleepReason'
    <2>1. \A p \in Slots : GoingToSleep(p)' =>
             GoingToSleep(p) /\ ticks0'[p] = ticks0[p] /\ n'[p] = n[p]
      BY <1>10 DEF GoingToSleep, TickIdle, Goto
    <2>2. \A d \in Cpus : Here(d) = "clock_wake" => Here(d)' = "clock_wake" /\ w'[d] = w[d]
      BY <1>10 DEF TickIdle, Goto
    <2>3. UNCHANGED ticks
      BY <1>10 DEF TickIdle
    <2> HIDE DEF Here
    <2> QED
      BY <2>1, <2>2, <2>3, ReasonKept
  <1>11. ASSUME NEW c \in Cpus, Yield(c) PROVE SleepReason'
    <2>1. \A p \in Slots : GoingToSleep(p)' =>
             GoingToSleep(p) /\ ticks0'[p] = ticks0[p] /\ n'[p] = n[p]
      BY <1>11 DEF GoingToSleep, Yield, Acquire, PushOff, Goto
    <2>2. \A d \in Cpus : Here(d) = "clock_wake" => Here(d)' = "clock_wake" /\ w'[d] = w[d]
      BY <1>11 DEF Yield, Acquire, PushOff, Goto
    <2>3. UNCHANGED ticks
      BY <1>11 DEF Yield
    <2> HIDE DEF Here
    <2> QED
      BY <2>1, <2>2, <2>3, ReasonKept
  <1>12. ASSUME NEW c \in Cpus, Sched(c) PROVE SleepReason'
    <2>1. \A p \in Slots : GoingToSleep(p)' =>
             GoingToSleep(p) /\ ticks0'[p] = ticks0[p] /\ n'[p] = n[p]
      BY <1>12 DEF GoingToSleep, Sched, Goto
    <2>2. \A d \in Cpus : Here(d) = "clock_wake" => Here(d)' = "clock_wake" /\ w'[d] = w[d]
      BY <1>12 DEF Sched, Goto
    <2>3. UNCHANGED ticks
      BY <1>12 DEF Sched
    <2> HIDE DEF Here
    <2> QED
      BY <2>1, <2>2, <2>3, ReasonKept
  <1>13. ASSUME NEW c \in Cpus, Yielded(c) PROVE SleepReason'
    <2>1. \A p \in Slots : GoingToSleep(p)' =>
             GoingToSleep(p) /\ ticks0'[p] = ticks0[p] /\ n'[p] = n[p]
      BY <1>13 DEF GoingToSleep, Yielded, Resume, Release, PopOff, Goto
    <2>2. \A d \in Cpus : Here(d) = "clock_wake" => Here(d)' = "clock_wake" /\ w'[d] = w[d]
      BY <1>13 DEF Yielded, Resume, Release, PopOff, Goto
    <2>3. UNCHANGED ticks
      BY <1>13 DEF Yielded
    <2> HIDE DEF Here
    <2> QED
      BY <2>1, <2>2, <2>3, ReasonKept
  <1>14. ASSUME NEW c \in Cpus, Iret(c) PROVE SleepReason'
    <2>1. \A p \in Slots : GoingToSleep(p)' =>
             GoingToSleep(p) /\ ticks0'[p] = ticks0[p] /\ n'[p] = n[p]
      <3>1. ret[cur[c]] \notin {"pause_sleep", "sleep_release", "sleep_set", "sleep_sched"}
        BY <1>14 DEF Iret, Saved
      <3>2. UNCHANGED <<state, ticks0, n>> /\ pc' = [pc EXCEPT ![cur[c]] = ret[cur[c]]]
        BY <1>14 DEF Iret, Goto
      <3> QED
        BY <3>1, <3>2 DEF GoingToSleep
    <2>2. \A d \in Cpus : Here(d) = "clock_wake" => Here(d)' = "clock_wake" /\ w'[d] = w[d]
      BY <1>14 DEF Iret, Goto
    <2>3. UNCHANGED ticks
      BY <1>14 DEF Iret
    <2> HIDE DEF Here
    <2> QED
      BY <2>1, <2>2, <2>3, ReasonKept
  <1>15. ASSUME NEW c \in Cpus, ForkRet(c) PROVE SleepReason'
    <2>1. \A p \in Slots : GoingToSleep(p)' =>
             GoingToSleep(p) /\ ticks0'[p] = ticks0[p] /\ n'[p] = n[p]
      BY <1>15 DEF GoingToSleep, ForkRet, Release, PopOff, Goto
    <2>2. \A d \in Cpus : Here(d) = "clock_wake" => Here(d)' = "clock_wake" /\ w'[d] = w[d]
      BY <1>15 DEF ForkRet, Release, PopOff, Goto
    <2>3. UNCHANGED ticks
      BY <1>15 DEF ForkRet
    <2> HIDE DEF Here
    <2> QED
      BY <2>1, <2>2, <2>3, ReasonKept
  <1>16. ASSUME NEW c \in Cpus, PauseReturn(c) PROVE SleepReason'
    <2>1. \A p \in Slots : GoingToSleep(p)' =>
             GoingToSleep(p) /\ ticks0'[p] = ticks0[p] /\ n'[p] = n[p]
      BY <1>16 DEF GoingToSleep, PauseReturn, PopOff, Goto
    <2>2. \A d \in Cpus : Here(d) = "clock_wake" => Here(d)' = "clock_wake" /\ w'[d] = w[d]
      BY <1>16 DEF PauseReturn, PopOff, Goto
    <2>3. UNCHANGED ticks
      BY <1>16 DEF PauseReturn
    <2> HIDE DEF Here
    <2> QED
      BY <2>1, <2>2, <2>3, ReasonKept
  <1>17. ASSUME NEW c \in Cpus, PauseNotKilled(c) PROVE SleepReason'
    <2>1. /\ UNCHANGED <<ticks, ticks0, n, w, cur, state>>
          /\ Elapsed(cur[c]) < n[cur[c]]
          /\ pc' = [pc EXCEPT ![cur[c]] = "pause_sleep"] /\ Here(c) = "pause_loop"
      BY <1>17 DEF PauseNotKilled, Goto
    <2>2. \A d \in Cpus : Here(d) = "clock_wake" => Here(d)' = "clock_wake"
      BY <2>1
    <2>3. ASSUME NEW p \in Slots, GoingToSleep(p)'
          PROVE  (Elapsed(p) < n[p] \/ \E d \in Cpus : Here(d) = "clock_wake" /\ w[d] <= p)'
      <3>1. Elapsed(p)' = Elapsed(p) /\ n' = n /\ w' = w
        BY <2>1 DEF Elapsed
      <3>2. CASE p = cur[c]
        BY <3>1, <3>2, <2>1
      <3>3. CASE p # cur[c]
        <4>1. GoingToSleep(p)
          BY <2>1, <2>3, <3>3 DEF GoingToSleep
        <4> HIDE DEF Here
        <4> QED
          BY <4>1, <2>2, <3>1 DEF SleepReason
      <3> QED
        BY <3>2, <3>3
    <2> HIDE DEF Here
    <2> QED
      BY <2>3 DEF SleepReason
  <1>18. ASSUME NEW c \in Cpus, SleepLock(c) PROVE SleepReason'
    <2>1. \A p \in Slots : GoingToSleep(p)' =>
             GoingToSleep(p) /\ ticks0'[p] = ticks0[p] /\ n'[p] = n[p]
      BY <1>18 DEF GoingToSleep, SleepLock, Acquire, PushOff, Goto
    <2>2. \A d \in Cpus : Here(d) = "clock_wake" => Here(d)' = "clock_wake" /\ w'[d] = w[d]
      BY <1>18 DEF SleepLock, Acquire, PushOff, Goto
    <2>3. UNCHANGED ticks
      BY <1>18 DEF SleepLock
    <2> HIDE DEF Here
    <2> QED
      BY <2>1, <2>2, <2>3, ReasonKept
  <1>19. ASSUME NEW c \in Cpus, SleepRelease(c) PROVE SleepReason'
    <2>1. \A p \in Slots : GoingToSleep(p)' =>
             GoingToSleep(p) /\ ticks0'[p] = ticks0[p] /\ n'[p] = n[p]
      BY <1>19 DEF GoingToSleep, SleepRelease, Release, PopOff, Goto
    <2>2. \A d \in Cpus : Here(d) = "clock_wake" => Here(d)' = "clock_wake" /\ w'[d] = w[d]
      BY <1>19 DEF SleepRelease, Release, PopOff, Goto
    <2>3. UNCHANGED ticks
      BY <1>19 DEF SleepRelease
    <2> HIDE DEF Here
    <2> QED
      BY <2>1, <2>2, <2>3, ReasonKept
  <1>20. ASSUME NEW c \in Cpus, SleepSet(c) PROVE SleepReason'
    <2>1. \A p \in Slots : GoingToSleep(p)' =>
             GoingToSleep(p) /\ ticks0'[p] = ticks0[p] /\ n'[p] = n[p]
      BY <1>20 DEF GoingToSleep, SleepSet, Goto
    <2>2. \A d \in Cpus : Here(d) = "clock_wake" => Here(d)' = "clock_wake" /\ w'[d] = w[d]
      BY <1>20 DEF SleepSet, Goto
    <2>3. UNCHANGED ticks
      BY <1>20 DEF SleepSet
    <2> HIDE DEF Here
    <2> QED
      BY <2>1, <2>2, <2>3, ReasonKept
  <1>21. ASSUME NEW c \in Cpus, Slept(c) PROVE SleepReason'
    <2>1. \A p \in Slots : GoingToSleep(p)' =>
             GoingToSleep(p) /\ ticks0'[p] = ticks0[p] /\ n'[p] = n[p]
      BY <1>21 DEF GoingToSleep, Slept, Resume, Release, PopOff, Goto
    <2>2. \A d \in Cpus : Here(d) = "clock_wake" => Here(d)' = "clock_wake" /\ w'[d] = w[d]
      BY <1>21 DEF Slept, Resume, Release, PopOff, Goto
    <2>3. UNCHANGED ticks
      BY <1>21 DEF Slept
    <2> HIDE DEF Here
    <2> QED
      BY <2>1, <2>2, <2>3, ReasonKept
  <1>22. ASSUME NEW c \in Cpus, PauseAgain(c) PROVE SleepReason'
    <2>1. \A p \in Slots : GoingToSleep(p)' =>
             GoingToSleep(p) /\ ticks0'[p] = ticks0[p] /\ n'[p] = n[p]
      BY <1>22 DEF GoingToSleep, PauseAgain, Acquire, PushOff, Goto
    <2>2. \A d \in Cpus : Here(d) = "clock_wake" => Here(d)' = "clock_wake" /\ w'[d] = w[d]
      BY <1>22 DEF PauseAgain, Acquire, PushOff, Goto
    <2>3. UNCHANGED ticks
      BY <1>22 DEF PauseAgain
    <2> HIDE DEF Here
    <2> QED
      BY <2>1, <2>2, <2>3, ReasonKept
  <1>23. ASSUME NEW c \in Cpus, Interrupt(c) PROVE SleepReason'
    <2>1. \A p \in Slots : GoingToSleep(p)' =>
             GoingToSleep(p) /\ ticks0'[p] = ticks0[p] /\ n'[p] = n[p]
      BY <1>23 DEF GoingToSleep, Interrupt, Goto
    <2>2. \A d \in Cpus : Here(d) = "clock_wake" => Here(d)' = "clock_wake" /\ w'[d] = w[d]
      BY <1>23 DEF Interrupt, Goto
    <2>3. UNCHANGED ticks
      BY <1>23 DEF Interrupt
    <2> HIDE DEF Here
    <2> QED
      BY <2>1, <2>2, <2>3, ReasonKept
  <1>24. ASSUME NEW c \in Cpus, PauseCall(c) PROVE SleepReason'
    <2>1. \A p \in Slots : GoingToSleep(p)' =>
             GoingToSleep(p) /\ ticks0'[p] = ticks0[p] /\ n'[p] = n[p]
      BY <1>24 DEF GoingToSleep, PauseCall, Acquire, PushOff, Goto
    <2>2. \A d \in Cpus : Here(d) = "clock_wake" => Here(d)' = "clock_wake" /\ w'[d] = w[d]
      BY <1>24 DEF PauseCall, Acquire, PushOff, Goto
    <2>3. UNCHANGED ticks
      BY <1>24 DEF PauseCall
    <2> HIDE DEF Here
    <2> QED
      BY <2>1, <2>2, <2>3, ReasonKept
  <1>25. ASSUME NEW c \in Cpus, NEW q \in Slots, Kill(c, q) PROVE SleepReason'
    <2>1. \A p \in Slots : GoingToSleep(p)' =>
             GoingToSleep(p) /\ ticks0'[p] = ticks0[p] /\ n'[p] = n[p]
      BY <1>25 DEF GoingToSleep, Kill, TouchLock
    <2>2. \A d \in Cpus : Here(d) = "clock_wake" => Here(d)' = "clock_wake" /\ w'[d] = w[d]
      BY <1>25 DEF Kill, TouchLock
    <2>3. UNCHANGED ticks
      BY <1>25 DEF Kill
    <2> HIDE DEF Here
    <2> QED
      BY <2>1, <2>2, <2>3, ReasonKept
  <1>26. CASE UNCHANGED vars
    BY <1>26 DEF vars, procvars, cpuvars, SleepReason, GoingToSleep, Elapsed
  <1> QED
    BY <1>1, <1>2, <1>3, <1>4, <1>5, <1>6, <1>7, <1>8, <1>9, <1>10, <1>11,
       <1>12, <1>13, <1>14, <1>15, <1>16, <1>17, <1>18, <1>19, <1>20, <1>21,
       <1>22, <1>23, <1>24, <1>25, <1>26 DEF Next, SchedulerStep, InterruptStep,
       PauseStep

\* release() with the lock held and interrupts off.
LEMMA PopOffChecks ==
    ASSUME TypeOK, CpuFlags, NEW c \in Cpus, Here(c) \notin Enabled,
           Here(c) \in HasPlock \union HasTickslock \union {"sched_back"}
    PROVE  intr[c] # 1 /\ ~(noff[c] < 1)
  BY DEF TypeOK, CpuFlags

\* The checks of acquire(), release() and pop_off(), and those of sched(), do not fail.
LEMMA NoPanicStep ==
    ASSUME SchedInv, [Next]_vars
    PROVE  panicked' = 0
  <1> USE DEF At, Here
  <1>1. ASSUME NEW c \in Cpus, SchedOn(c) PROVE panicked' = 0
    BY <1>1 DEF SchedOn, SchedInv
  <1>2. ASSUME NEW c \in Cpus, SchedOff(c) PROVE panicked' = 0
    BY <1>2 DEF SchedOff, SchedInv
  <1>3. ASSUME NEW c \in Cpus, SchedSkip(c) PROVE panicked' = 0
    <2>1. idx[c] \in Slots
      BY <1>3, Threadings DEF SchedSkip, SchedInv, TypeOK
    <2>2. plock[idx[c]] # c
      BY <1>3, <2>1, Unlocked DEF SchedSkip, HasPlock
    <2> QED
      BY <1>3, <2>2 DEF SchedSkip, TouchLock, Panic
  <1>4. ASSUME NEW c \in Cpus, SchedRun(c) PROVE panicked' = 0
    <2>1. idx[c] \in Slots
      BY <1>4, Threadings DEF SchedRun, SchedInv, TypeOK
    <2>2. plock[idx[c]] # c
      BY <1>4, <2>1, Unlocked DEF SchedRun, HasPlock
    <2> QED
      BY <1>4, <2>2 DEF SchedRun, Acquire, Panic
  <1>5. ASSUME NEW c \in Cpus, SchedBack(c) PROVE panicked' = 0
    <2>1. plock[idx[c]] = c
      BY <1>5, Unlocked DEF SchedBack
    <2>2. intr[c] # 1 /\ ~(noff[c] < 1)
      BY <1>5, PopOffChecks DEF SchedBack, SchedInv, Enabled, HasPlock, HasTickslock
    <2> QED
      BY <1>5, <2>1, <2>2 DEF SchedBack, Release, BadRelease, Panic
  <1>6. ASSUME NEW c \in Cpus, SchedEnd(c) PROVE panicked' = 0
    BY <1>6 DEF SchedEnd, SchedInv
  <1>7. ASSUME NEW c \in Cpus, Clock(c) PROVE panicked' = 0
    <2>1. tickslock # c
      BY <1>7, Unlocked DEF Clock, HasTickslock
    <2> QED
      BY <1>7, <2>1 DEF Clock, Acquire, Panic
  <1>8. ASSUME NEW c \in Cpus, ClockWake(c) PROVE panicked' = 0
    <2>1. w[c] \in Slots
      BY <1>8, Threadings DEF ClockWake, SchedInv, TypeOK
    <2>2. plock[w[c]] # c
      BY <1>8, <2>1, Unlocked DEF ClockWake, HasPlock
    <2> QED
      BY <1>8, <2>2 DEF ClockWake, TouchLock, Panic, SchedInv
  <1>9. ASSUME NEW c \in Cpus, ClockDone(c) PROVE panicked' = 0
    <2>1. tickslock = c
      BY <1>9, Unlocked DEF ClockDone, HasTickslock
    <2>2. intr[c] # 1 /\ ~(noff[c] < 1)
      BY <1>9, PopOffChecks DEF ClockDone, SchedInv, Enabled, HasPlock, HasTickslock
    <2> QED
      BY <1>9, <2>1, <2>2 DEF ClockDone, Release, BadRelease, Panic
  <1>10. ASSUME NEW c \in Cpus, TickIdle(c) PROVE panicked' = 0
    BY <1>10 DEF TickIdle, SchedInv
  <1>11. ASSUME NEW c \in Cpus, Yield(c) PROVE panicked' = 0
    <2>1. cur[c] \in Slots
      BY <1>11, Unlocked DEF Yield, SchedulerPC, Handler
    <2>2. plock[cur[c]] # c
      BY <1>11, <2>1, Unlocked DEF Yield, HasPlock
    <2> QED
      BY <1>11, <2>2 DEF Yield, Acquire, Panic
  <1>12. ASSUME NEW c \in Cpus, Sched(c) PROVE panicked' = 0
    <2>1. cur[c] \in Slots /\ plock[cur[c]] = c
      BY <1>12, Unlocked DEF Sched, SchedulerPC, Handler, HasPlock
    <2>2. intr[c] # 1 /\ noff[c] = 1 /\ state[cur[c]] # "RUNNING"
      BY <1>12, <2>1 DEF Sched, SchedInv, CpuFlags, RunState, Enabled, HasPlock
    <2> QED
      BY <1>12, <2>1, <2>2 DEF Sched, Panic
  <1>13. ASSUME NEW c \in Cpus, Yielded(c) PROVE panicked' = 0
    <2>1. plock[cur[c]] = c
      BY <1>13, Unlocked DEF Yielded, SchedulerPC, Handler, HasPlock
    <2>2. intr[c] # 1 /\ ~(noff[c] < 1)
      BY <1>13, PopOffChecks DEF Yielded, SchedInv, Enabled, HasPlock, HasTickslock
    <2> QED
      BY <1>13, <2>1, <2>2 DEF Yielded, Resume, Release, BadRelease, Panic
  <1>14. ASSUME NEW c \in Cpus, Iret(c) PROVE panicked' = 0
    BY <1>14 DEF Iret, SchedInv
  <1>15. ASSUME NEW c \in Cpus, ForkRet(c) PROVE panicked' = 0
    <2>1. plock[cur[c]] = c
      BY <1>15, Unlocked DEF ForkRet, SchedulerPC, Handler, HasPlock
    <2>2. intr[c] # 1 /\ ~(noff[c] < 1)
      BY <1>15, PopOffChecks DEF ForkRet, SchedInv, Enabled, HasPlock, HasTickslock
    <2> QED
      BY <1>15, <2>1, <2>2 DEF ForkRet, Release, BadRelease, Panic
  <1>16. ASSUME NEW c \in Cpus, PauseReturn(c) PROVE panicked' = 0
    <2>1. cur[c] \in Slots /\ tickslock = c
      BY <1>16, Unlocked DEF PauseReturn, SchedulerPC, Handler, HasTickslock
    <2>2. plock[cur[c]] # c
      BY <1>16, <2>1, Unlocked DEF PauseReturn, HasPlock
    <2>3. intr[c] # 1 /\ ~(noff[c] < 1)
      BY <1>16, PopOffChecks DEF PauseReturn, SchedInv, Enabled, HasPlock, HasTickslock
    <2> QED
      BY <1>16, <2>1, <2>2, <2>3 DEF PauseReturn, BadRelease, Panic
  <1>17. ASSUME NEW c \in Cpus, PauseNotKilled(c) PROVE panicked' = 0
    <2>1. cur[c] \in Slots
      BY <1>17, Unlocked DEF PauseNotKilled, SchedulerPC, Handler
    <2>2. plock[cur[c]] # c
      BY <1>17, <2>1, Unlocked DEF PauseNotKilled, HasPlock
    <2> QED
      BY <1>17, <2>2 DEF PauseNotKilled, TouchLock, Panic
  <1>18. ASSUME NEW c \in Cpus, SleepLock(c) PROVE panicked' = 0
    <2>1. cur[c] \in Slots
      BY <1>18, Unlocked DEF SleepLock, SchedulerPC, Handler
    <2>2. plock[cur[c]] # c
      BY <1>18, <2>1, Unlocked DEF SleepLock, HasPlock
    <2> QED
      BY <1>18, <2>2 DEF SleepLock, Acquire, Panic
  <1>19. ASSUME NEW c \in Cpus, SleepRelease(c) PROVE panicked' = 0
    <2>1. tickslock = c
      BY <1>19, Unlocked DEF SleepRelease, HasTickslock
    <2>2. intr[c] # 1 /\ ~(noff[c] < 1)
      BY <1>19, PopOffChecks DEF SleepRelease, SchedInv, Enabled, HasPlock, HasTickslock
    <2> QED
      BY <1>19, <2>1, <2>2 DEF SleepRelease, Release, BadRelease, Panic
  <1>20. ASSUME NEW c \in Cpus, SleepSet(c) PROVE panicked' = 0
    BY <1>20 DEF SleepSet, SchedInv
  <1>21. ASSUME NEW c \in Cpus, Slept(c) PROVE panicked' = 0
    <2>1. plock[cur[c]] = c
      BY <1>21, Unlocked DEF Slept, SchedulerPC, Handler, HasPlock
    <2>2. intr[c] # 1 /\ ~(noff[c] < 1)
      BY <1>21, PopOffChecks DEF Slept, SchedInv, Enabled, HasPlock, HasTickslock
    <2> QED
      BY <1>21, <2>1, <2>2 DEF Slept, Resume, Release, BadRelease, Panic
  <1>22. ASSUME NEW c \in Cpus, PauseAgain(c) PROVE panicked' = 0
    <2>1. tickslock # c
      BY <1>22, Unlocked DEF PauseAgain, HasTickslock
    <2> QED
      BY <1>22, <2>1 DEF PauseAgain, Acquire, Panic
  <1>23. ASSUME NEW c \in Cpus, Interrupt(c) PROVE panicked' = 0
    BY <1>23 DEF Interrupt, SchedInv
  <1>24. ASSUME NEW c \in Cpus, PauseCall(c) PROVE panicked' = 0
    <2>1. tickslock # c
      BY <1>24, Unlocked DEF PauseCall, HasTickslock
    <2> QED
      BY <1>24, <2>1 DEF PauseCall, Acquire, Panic
  <1>25. ASSUME NEW c \in Cpus, NEW q \in Slots, Kill(c, q) PROVE panicked' = 0
    <2>1. plock[q] # c
      BY <1>25, Unlocked DEF Kill, HasPlock
    <2> QED
      BY <1>25, <2>1 DEF Kill, TouchLock, Panic
  <1>26. CASE UNCHANGED vars
    BY <1>26 DEF vars, SchedInv
  <1> QED
    BY <1>1, <1>2, <1>3, <1>4, <1>5, <1>6, <1>7, <1>8, <1>9, <1>10, <1>11,
       <1>12, <1>13, <1>14, <1>15, <1>16, <1>17, <1>18, <1>19, <1>20, <1>21,
       <1>22, <1>23, <1>24, <1>25, <1>26 DEF Next, SchedulerStep, InterruptStep,
       PauseStep

----------------------------------------------------------------------------
(* Theorems *)

LEMMA InitSchedInv == Init => SchedInv
  <1> SUFFICES ASSUME Init PROVE SchedInv
    OBVIOUS
  <1> USE Threadings DEF Init, SchedulerPC, Handler, HasPlock, HasTickslock, Enabled, Here
  <1>1. TypeOK
    BY Ticking, SchedAssumption DEF TypeOK, PC, State
  <1>2. OnCpu /\ OnOneCpu /\ RunState
    BY DEF OnCpu, OnOneCpu, RunState
  <1>3. PlockHolder /\ TickslockHolder
    BY DEF PlockHolder, TickslockHolder
  <1>4. CpuFlags
    BY DEF CpuFlags
  <1>5. Saved /\ SleepReason /\ WakeupReady
    BY DEF Saved, SleepReason, WakeupReady, GoingToSleep
  <1> QED
    BY <1>1, <1>2, <1>3, <1>4, <1>5 DEF SchedInv

\* The inductive invariant: who holds which lock at each program point, what
\* noff, intena and the interrupt flag are there, and who is on which CPU.
THEOREM SchedInvariant == Spec => []SchedInv
  <1>1. SchedInv /\ [Next]_vars => SchedInv'
    <2> SUFFICES ASSUME SchedInv, [Next]_vars PROVE SchedInv'
      OBVIOUS
    <2>1. TypeOK /\ OnCpu /\ RunState
      BY DEF SchedInv
    <2>2. TypeOK' /\ OnCpu' /\ OnOneCpu' /\ RunState'
      BY <2>1, TypeStep, OnCpuStep, OnOneCpuStep, RunStateStep
    <2>3. PlockHolder' /\ TickslockHolder' /\ CpuFlags' /\ Saved'
      BY PlockStep, TickslockStep, FlagsStep, SavedStep
    <2>4. SleepReason' /\ WakeupReady' /\ panicked' = 0
      BY SleepStep, WakeupStep, NoPanicStep
    <2> QED
      BY <2>2, <2>3, <2>4 DEF SchedInv
  <1> QED
    BY <1>1, InitSchedInv, PTL DEF Spec

\* swtch() never resumes a kernel stack that another CPU still uses: scheduler()
\* and sched() hand p->lock over with the stack.
THEOREM StackOnOneCpu == Spec => []OneCpuPerThread
  <1>1. SchedInv => OneCpuPerThread
    <2> SUFFICES ASSUME SchedInv PROVE OneCpuPerThread
      OBVIOUS
    <2>1. OnOneCpu /\ TypeOK /\ RunState /\ PlockHolder
      BY DEF SchedInv
    <2>2. ASSUME NEW p \in Slots, state[p] # "RUNNING", plock[p] = None,
                 NEW c \in Cpus, cur[c] = p
          PROVE  FALSE
      <3>1. pc[p] \in HasPlock
        BY <2>1, <2>2 DEF RunState, HasPlock
      <3> QED
        BY <3>1, <2>1, <2>2, Threadings DEF PlockHolder
    <2> QED
      BY <2>1, <2>2 DEF OnOneCpu, OneCpuPerThread
  <1> QED
    BY <1>1, SchedInvariant, PTL

\* push_off() and pop_off() nest although a lock is released by another thread,
\* and a thread resumes on another CPU, than acquired it.
THEOREM NoffIsExact == Spec => []NoffCountsLocks
  <1>1. SchedInv => NoffCountsLocks
    <2> SUFFICES ASSUME SchedInv, NEW c \in Cpus
                 PROVE  /\ noff[c] = LocksHeld(c) /\ (noff[c] > 0 => intr[c] = 0)
                        /\ pc[cur[c]] \in {"user", "pause", "sched_off"} => intr[c] = 1
      BY DEF NoffCountsLocks
    <2>0. TypeOK /\ OnCpu /\ RunState /\ PlockHolder /\ TickslockHolder /\ CpuFlags
      BY DEF SchedInv
    <2> DEFINE Held == {p \in Slots : plock[p] = c}
    <2>1. Cardinality(Held) =
             IF Here(c) \in HasPlock \union {"sched_back"} THEN 1 ELSE 0
      <3>1. CASE Here(c) \in HasPlock \union {"sched_back"}
        <4>1. \E q \in Slots : Held = {q}
          <5>1. CASE cur[c] = Scheduler(c)
            <6>1. Here(c) = "sched_back" /\ idx[c] \in Slots
              BY <3>1, <5>1, <2>0 DEF OnCpu, Here, HasPlock, SchedulerPC, Handler
            <6>2. Held = {idx[c]}
              BY <6>1, <5>1, <2>0, Threadings DEF PlockHolder
            <6> QED
              BY <6>1, <6>2
          <5>2. CASE cur[c] # Scheduler(c)
            <6>1. cur[c] \in Slots /\ Here(c) \in HasPlock
              BY <3>1, <5>2, <2>0 DEF OnCpu, RunState, Here, SchedulerPC
            <6>2. Held = {cur[c]}
              BY <6>1, <5>2, <2>0 DEF PlockHolder, Here
            <6> QED
              BY <6>1, <6>2
          <5> QED
            BY <5>1, <5>2
        <4> HIDE DEF Held
        <4> QED
          BY <4>1, <3>1, FS_Singleton
      <3>2. CASE Here(c) \notin HasPlock \union {"sched_back"}
        <4>1. Held = {}
          BY <3>2, <2>0 DEF PlockHolder, Here
        <4> HIDE DEF Held
        <4> QED
          BY <4>1, <3>2, FS_EmptySet
      <3> QED
        BY <3>1, <3>2
    <2>2. tickslock = c <=> Here(c) \in HasTickslock
      BY <2>0 DEF TickslockHolder
    <2>3. LocksHeld(c) = Cardinality(Held) + IF tickslock = c THEN 1 ELSE 0
      BY DEF LocksHeld
    <2> HIDE DEF Held
    <2>4. noff[c] = LocksHeld(c)
      BY <2>0, <2>1, <2>2, <2>3 DEF CpuFlags, HasPlock, HasTickslock
    <2>5. noff[c] > 0 => intr[c] = 0
      BY <2>0 DEF CpuFlags, TypeOK, Enabled, HasPlock, HasTickslock
    <2>6. pc[cur[c]] \in {"user", "pause", "sched_off"} => intr[c] = 1
      BY <2>0 DEF CpuFlags, Here
    <2> QED
      BY <2>4, <2>5, <2>6
  <1> QED
    BY <1>1, SchedInvariant, PTL

\* No CPU panics: sched() is always called with p->lock, only that lock, a state
\* that is not RUNNING and interrupts off; acquire() with a lock that the CPU does
\* not hold, release() with one that it does, whichever thread acquired it, and
\* pop_off() with interrupts off and something to pop.
THEOREM NoSchedPanic == Spec => [](panicked = 0)
  <1>1. SchedInv => panicked = 0
    BY DEF SchedInv
  <1> QED
    BY <1>1, SchedInvariant, PTL

\* sleep() drops tickslock only with p->lock held, which wakeup() must take: no
\* tick is lost between the test in sys_pause() and the switch to the scheduler.
THEOREM NobodySleepsLate == Spec => []SleeperIsEarly
  <1>1. SchedInv => SleeperIsEarly
    <2> SUFFICES ASSUME SchedInv, NEW p \in Slots, state[p] = "SLEEPING",
                        tickslock = None
                 PROVE  chan[p] = 1 /\ Elapsed(p) < n[p]
      BY DEF SleeperIsEarly
    <2>1. \A c \in Cpus : Here(c) # "clock_wake"
      BY Threadings DEF SchedInv, TickslockHolder, HasTickslock
    <2>2. GoingToSleep(p) /\ SleepReason /\ WakeupReady
      BY DEF SchedInv, GoingToSleep
    <2> QED
      BY <2>1, <2>2 DEF SleepReason, WakeupReady
  <1> QED
    BY <1>1, SchedInvariant, PTL


=============================================================================
