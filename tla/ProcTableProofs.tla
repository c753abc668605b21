-------------------------- MODULE ProcTableProofs --------------------------
(***************************************************************************)
(* Proofs about the process table, for every size of the table, number of  *)
(* CPUs and choice of system call arguments.  No property of ProcTable is  *)
(* inductive alone; their conjunction IInv is.  Next is first shown to      *)
(* preserve the types, then one lemma per kind of step shows IInv'.         *)
(***************************************************************************)
EXTENDS ProcTable, TLAPS

\* The inductive invariant.  The lock discipline (LockHeld) and the ownership
\* of a slot in creation (ForkOwnsChild) carry the others through the windows
\* in which p->lock has been dropped.
IInv ==
    /\ TypeOK
    /\ LockHeld
    /\ DeadHaveNoThread
    /\ PidsUnique
    /\ ForkOwnsChild
    /\ ParentsLive
    /\ ExitingChildless
    /\ InitForever
    /\ AncestorsOlder
    /\ ZombieParentAwake

\* userinit() leaves a table that satisfies the invariant.
LEMMA InitIInv == Init => IInv
  <1> SUFFICES ASSUME Init PROVE IInv
    OBVIOUS
  <1> USE NprocAssumption DEF Init, Slots, Index, None, initproc
  <1>1. TypeOK
    <2>1. "user" \in PC /\ "dead" \in PC
      BY DEF PC
    <2>2. snap \in Seq(PInfo) /\ panicked \in {0, 1}
      BY DEF PInfo
    <2> QED
      BY <2>1, <2>2 DEF TypeOK, State
  <1>2. LockHeld /\ DeadHaveNoThread
    BY DEF LockHeld, DeadHaveNoThread, Locked, ExitLocked, WaitLocked, Spinning
  <1>3. PidsUnique /\ ForkOwnsChild /\ ParentsLive
    BY DEF PidsUnique, ForkOwnsChild, ParentsLive, Live, Forking, Unlinked
  <1>4. ExitingChildless /\ InitForever /\ AncestorsOlder /\ ZombieParentAwake
    BY DEF ExitingChildless, InitForever, AncestorsOlder, ZombieParentAwake,
           ExitLocked
  <1> QED
    BY <1>1, <1>2, <1>3, <1>4 DEF IInv

\* Arithmetic of the loop index, stated once so that Slots stays folded.
LEMMA IndexFacts ==
    /\ initproc \in Slots /\ None \notin Slots
    /\ 1 \in Index
    /\ \A x \in Slots : x \in Int /\ x \in Index
    /\ \A x \in Index : x \in Int
    /\ \A x \in Index : x <= NPROC => x \in Slots /\ x + 1 \in Index
  BY NprocAssumption DEF Slots, Index, initproc, None

\* The program points and process states that the steps assign.
LEMMA PCFacts ==
    /\ "user" \in PC /\ "ret" \in PC /\ "exit" \in PC /\ "wait" \in PC
    /\ "dead" \in PC /\ "wait_wake" \in PC /\ "fork_scan" \in PC
    /\ "kill_scan" \in PC /\ "getprocs" \in PC
    /\ "exit_reparent" \in PC /\ "exit_wake" \in PC /\ "exit_zombie" \in PC
    /\ "wait_scan" \in PC /\ "wait_killed" \in PC /\ "wait_sleep" \in PC
    /\ "getprocs_scan" \in PC
    /\ "fork_spin" \in PC /\ "exit_spin" \in PC /\ "wait_spin" \in PC
    /\ "getprocs_spin" \in PC /\ "fork_parent" \in PC /\ "fork_run" \in PC
  BY DEF PC, Locked, ExitLocked, WaitLocked, Spinning, Forking

LEMMA StateFacts ==
    /\ "UNUSED" \in State /\ "USED" \in State /\ "SLEEPING" \in State
    /\ "RUNNABLE" \in State /\ "RUNNING" \in State /\ "ZOMBIE" \in State
  BY DEF State

LEMMA ReturnType ==
    ASSUME TypeOK, NEW p \in Slots, NEW v \in Int, Return(p, v)
    PROVE  pc' \in [Slots -> PC] /\ a0' \in [Slots -> Int] /\ i' \in [Slots -> Index]
  <1>1. "ret" \in PC /\ 1 \in Index
    BY IndexFacts, PCFacts
  <1>2. pc' \in [Slots -> PC]
    BY <1>1 DEF TypeOK, Return
  <1>3. a0' \in [Slots -> Int]
    BY DEF TypeOK, Return
  <1>4. i' \in [Slots -> Index]
    BY <1>1 DEF TypeOK, Return
  <1> QED
    BY <1>2, <1>3, <1>4

LEMMA GotoType ==
    ASSUME TypeOK, NEW p \in Slots, NEW l \in PC, Goto(p, l)
    PROVE  pc' \in [Slots -> PC]
  BY DEF TypeOK, Goto

LEMMA PushOffType ==
    ASSUME TypeOK, NEW p \in Slots, NEW k, NEW l \in PC, PushOff(p, k, l)
    PROVE  TypeOK'
  BY GotoType DEF TypeOK, PushOff, table

LEMMA SyscallType ==
    ASSUME TypeOK, NEW p \in Slots, NEW l \in PC, NEW v \in Int, Syscall(p, l, v)
    PROVE  TypeOK'
  <1>1. pc' \in [Slots -> PC]
    BY GotoType DEF Syscall
  <1>2. a0' \in [Slots -> Int]
    BY DEF TypeOK, Syscall
  <1>3. i' \in [Slots -> Index]
    BY IndexFacts DEF TypeOK, Syscall
  <1> QED
    BY <1>1, <1>2, <1>3 DEF TypeOK, Syscall, table

LEMMA WakeupType ==
    ASSUME TypeOK, NEW p, NEW c PROVE Wakeup(p, c) \in [Slots -> State]
  BY StateFacts DEF TypeOK, Wakeup

LEMMA FreeprocType ==
    ASSUME TypeOK, NEW s \in Slots, freeproc(s)
    PROVE  /\ state' \in [Slots -> State] /\ pid' \in [Slots -> Nat]
           /\ parent' \in [Slots -> Slots \union {None}]
           /\ chan' \in [Slots -> Slots \union {None}]
           /\ killed' \in [Slots -> {0, 1}]
  <1>1. state' \in [Slots -> State]
    BY StateFacts DEF TypeOK, freeproc
  <1>2. pid' \in [Slots -> Nat] /\ killed' \in [Slots -> {0, 1}]
    BY DEF TypeOK, freeproc
  <1>3. parent' \in [Slots -> Slots \union {None}]
    BY DEF TypeOK, freeproc
  <1>4. chan' \in [Slots -> Slots \union {None}]
    BY DEF TypeOK, freeproc
  <1> QED
    BY <1>1, <1>2, <1>3, <1>4

\* The steps of fork(), exit(), wait(), kill() and getprocs() preserve the types.
LEMMA ForkType ==
    ASSUME TypeOK, ForkOwnsChild, NEW p \in Slots, Fork(p) PROVE TypeOK'
  <1>1. CASE ForkSkip(p)
    <2>1. CASE i[p] > NPROC
      BY <1>1, <2>1, ReturnType DEF TypeOK, ForkSkip, table
    <2>2. CASE ~(i[p] > NPROC)
      <3>1. i[p] + 1 \in Index
        BY <2>2, IndexFacts, NprocAssumption DEF TypeOK
      <3> QED
        BY <1>1, <2>2, <3>1 DEF TypeOK, ForkSkip, table
    <2> QED
      BY <2>1, <2>2
  <1>2. CASE ForkAlloc(p)
    <2>0. /\ pid \in [Slots -> Nat] /\ pid' = [pid EXCEPT ![i[p]] = nextpid]
          /\ a0 \in [Slots -> Int] /\ a0' = [a0 EXCEPT ![i[p]] = 0]
          /\ nextpid \in Nat /\ nextpid' = nextpid + 1
      BY <1>2 DEF TypeOK, ForkAlloc
    <2>i. i[p] \in Slots
      BY <1>2, IndexFacts DEF TypeOK, ForkAlloc
    <2>1. pid' \in [Slots -> Nat]
      BY <2>0, <2>i
    <2>5. nextpid' \in Nat
      BY <2>0
    <2>2. state' \in [Slots -> State]
      BY <1>2, StateFacts DEF TypeOK, ForkAlloc
    <2>3. pc' \in [Slots -> PC]
      BY <1>2, PCFacts DEF TypeOK, ForkAlloc
    <2>4. a0' \in [Slots -> Int]
      BY <2>0, <2>i
    <2> QED
      BY <1>2, <2>1, <2>2, <2>3, <2>4, <2>5 DEF TypeOK, ForkAlloc
  <1>3. CASE ForkNoMem(p)
    <2>1. i[p] \in Slots
      BY <1>3, IndexFacts DEF TypeOK, ForkNoMem
    <2>2. nextpid' \in Nat
      BY <1>3 DEF TypeOK, ForkNoMem
    <2>3. freeproc(i[p]) /\ Return(p, -1)
      BY <1>3 DEF ForkNoMem
    <2>4. UNCHANGED <<wait_lock, shpid, snap, panicked>>
      BY <1>3 DEF ForkNoMem
    <2>5. pc' \in [Slots -> PC] /\ a0' \in [Slots -> Int] /\ i' \in [Slots -> Index]
      BY <2>3, ReturnType
    <2> QED
      BY <2>1, <2>2, <2>3, <2>4, <2>5, FreeprocType DEF TypeOK
  <1>4. CASE ForkPushOff(p)
    BY <1>4, PushOffType, PCFacts DEF ForkPushOff
  <1>5. CASE ForkParent(p)
    <2>1. parent' \in [Slots -> Slots \union {None}]
      BY <1>5 DEF TypeOK, ForkParent
    <2> QED
      BY <1>5, <2>1, GotoType, PCFacts DEF TypeOK, ForkParent
  <1>6. CASE ForkRun(p)
    <2>1. i[p] \in Slots
      BY <1>6 DEF ForkRun, At, ForkOwnsChild, Forking
    <2>2. state' \in [Slots -> State]
      BY <1>6, StateFacts DEF TypeOK, ForkRun
    <2>3. pid[i[p]] \in Int
      BY <2>1 DEF TypeOK
    <2> QED
      BY <1>6, <2>2, <2>3, ReturnType DEF TypeOK, ForkRun
  <1> QED
    BY <1>1, <1>2, <1>3, <1>4, <1>5, <1>6 DEF Fork

LEMMA ExitType == ASSUME TypeOK, NEW p \in Slots, Exit(p) PROVE TypeOK'
  <1>1. CASE ExitInit(p)
    BY <1>1 DEF TypeOK, ExitInit, table
  <1>2. CASE ExitPushOff(p)
    BY <1>2, PushOffType, PCFacts DEF ExitPushOff
  <1>3. CASE ExitAcquire(p)
    BY <1>3, GotoType, PCFacts DEF TypeOK, ExitAcquire, Acquire, table
  <1>4. CASE ExitReparent(p)
    <2>1. parent' \in [Slots -> Slots \union {None}]
      BY <1>4, IndexFacts DEF TypeOK, ExitReparent
    <2>2. state' \in [Slots -> State]
      BY <1>4, WakeupType DEF TypeOK, ExitReparent
    <2> QED
      BY <1>4, <2>1, <2>2, GotoType, PCFacts DEF TypeOK, ExitReparent
  <1>5. CASE ExitWakeParent(p)
    BY <1>5, WakeupType, GotoType, PCFacts DEF TypeOK, ExitWakeParent
  <1>6. CASE ExitZombie(p)
    <2>1. state' \in [Slots -> State]
      BY <1>6, StateFacts DEF TypeOK, ExitZombie
    <2> QED
      BY <1>6, <2>1, GotoType, PCFacts DEF TypeOK, ExitZombie, Release
  <1> QED
    BY <1>1, <1>2, <1>3, <1>4, <1>5, <1>6 DEF Exit

LEMMA WaitType == ASSUME TypeOK, NEW p \in Slots, Wait(p) PROVE TypeOK'
  <1>1. CASE WaitPushOff(p)
    BY <1>1, PushOffType, PCFacts DEF WaitPushOff
  <1>2. CASE WaitAcquire(p)
    BY <1>2, GotoType, PCFacts DEF TypeOK, WaitAcquire, Acquire, table
  <1>3. CASE WaitReap(p)
    <2>1. PICK z \in Slots : freeproc(z) /\ Return(p, pid[z])
      BY <1>3 DEF WaitReap, ZombieChildren, Children
    <2>2. pid[z] \in Int
      BY DEF TypeOK
    <2> QED
      BY <1>3, <2>1, <2>2, FreeprocType, ReturnType DEF TypeOK, WaitReap, Release
  <1>4. CASE WaitCopyoutFails(p)
    BY <1>4, ReturnType DEF TypeOK, WaitCopyoutFails, Release, table
  <1>5. CASE WaitNoKids(p)
    BY <1>5, ReturnType DEF TypeOK, WaitNoKids, Release, table
  <1>6. CASE WaitHaveKids(p)
    BY <1>6, GotoType, PCFacts DEF TypeOK, WaitHaveKids, table
  <1>7. CASE WaitNotKilled(p)
    BY <1>7, GotoType, PCFacts DEF TypeOK, WaitNotKilled, table
  <1>8. CASE WaitKilled(p)
    BY <1>8, ReturnType DEF TypeOK, WaitKilled, Release, table
  <1>9. CASE WaitSleep(p)
    <2>1. state' \in [Slots -> State]
      BY <1>9, StateFacts DEF TypeOK, WaitSleep
    <2>2. chan' \in [Slots -> Slots \union {None}]
      BY <1>9 DEF TypeOK, WaitSleep
    <2> QED
      BY <1>9, <2>1, <2>2, GotoType, PCFacts DEF TypeOK, WaitSleep, Release
  <1>10. CASE WaitWake(p)
    <2>1. chan' \in [Slots -> Slots \union {None}]
      BY <1>10 DEF TypeOK, WaitWake
    <2> QED
      BY <1>10, <2>1, GotoType, PCFacts DEF TypeOK, WaitWake
  <1> QED
    BY <1>1, <1>2, <1>3, <1>4, <1>5, <1>6, <1>7, <1>8, <1>9, <1>10 DEF Wait

LEMMA KillType == ASSUME TypeOK, NEW p \in Slots, Kill(p) PROVE TypeOK'
  <1>1. CASE KillSkip(p)
    <2>1. CASE i[p] > NPROC
      BY <1>1, <2>1, ReturnType DEF TypeOK, KillSkip, table
    <2>2. CASE ~(i[p] > NPROC)
      <3>1. i[p] + 1 \in Index
        BY <2>2, IndexFacts, NprocAssumption DEF TypeOK
      <3> QED
        BY <1>1, <2>2, <3>1 DEF TypeOK, KillSkip, table
    <2> QED
      BY <2>1, <2>2
  <1>2. CASE KillFound(p)
    <2>1. state' \in [Slots -> State]
      BY <1>2, StateFacts DEF TypeOK, KillFound
    <2>2. killed' \in [Slots -> {0, 1}]
      BY <1>2 DEF TypeOK, KillFound
    <2> QED
      BY <1>2, <2>1, <2>2, ReturnType DEF TypeOK, KillFound
  <1> QED
    BY <1>1, <1>2 DEF Kill

LEMMA GetprocsType == ASSUME TypeOK, NEW p \in Slots, Getprocs(p) PROVE TypeOK'
  <1>1. CASE GetprocsBadCount(p)
    BY <1>1, ReturnType DEF TypeOK, GetprocsBadCount, table
  <1>2. CASE GetprocsPushOff(p)
    BY <1>2, PushOffType, PCFacts DEF GetprocsPushOff
  <1>3. CASE GetprocsAcquire(p)
    BY <1>3, GotoType, PCFacts DEF TypeOK, GetprocsAcquire, Acquire, table
  <1>4. CASE GetprocsVisit(p)
    <2>1. i[p] \in Slots /\ i[p] + 1 \in Index
      BY <1>4, IndexFacts DEF TypeOK, GetprocsVisit, GetprocsMore
    <2>2. pinfo(i[p]) \in PInfo
      BY <2>1 DEF TypeOK, pinfo, PInfo, None
    <2>3. snap' \in Seq(PInfo)
      BY <1>4, <2>2 DEF TypeOK, GetprocsVisit
    <2>4. i' \in [Slots -> Index]
      BY <1>4, <2>1 DEF TypeOK, GetprocsVisit
    <2> QED
      BY <1>4, <2>3, <2>4 DEF TypeOK, GetprocsVisit, table
  <1>5. CASE GetprocsCopyoutFails(p)
    BY <1>5, ReturnType DEF TypeOK, GetprocsCopyoutFails, Release, table
  <1>6. CASE GetprocsDone(p)
    BY <1>6, ReturnType DEF TypeOK, GetprocsDone, Release, table
  <1> QED
    BY <1>1, <1>2, <1>3, <1>4, <1>5, <1>6 DEF Getprocs

LEMMA EnterLeaveType ==
    ASSUME TypeOK, NEW p \in Slots, Enter(p) \/ Leave(p) PROVE TypeOK'
  <1>1. CASE TrapKilled(p)
    BY <1>1, GotoType, PCFacts DEF TypeOK, TrapKilled, table
  <1>2. CASE Fault(p)
    <2>1. killed' \in [Slots -> {0, 1}]
      BY <1>2 DEF TypeOK, Fault
    <2> QED
      BY <1>2, <2>1, GotoType, PCFacts DEF TypeOK, Fault
  <1>3. CASE UserSyscall(p)
    <2>1. 0 \in Int /\ (\A v \in WaitAddrs \union KillPids \union MaxCounts : v \in Int)
      BY ArgAssumption
    <2> QED
      BY <1>3, <2>1, SyscallType, PCFacts DEF UserSyscall
  <1>4. CASE SysReturn(p)
    <2>1. a0' \in [Slots -> Int]
      BY <1>4 DEF TypeOK, SysReturn
    <2> QED
      BY <1>4, <2>1, GotoType, PCFacts DEF TypeOK, SysReturn, table
  <1>5. CASE SysReturnKilled(p)
    <2>1. a0' \in [Slots -> Int]
      BY <1>5 DEF TypeOK, SysReturnKilled
    <2> QED
      BY <1>5, <2>1, GotoType, PCFacts DEF TypeOK, SysReturnKilled, table
  <1> QED
    BY <1>1, <1>2, <1>3, <1>4, <1>5 DEF Enter, Leave

\* Every step of the system keeps the variables in their types.
LEMMA TypeStep == ASSUME IInv, Next PROVE TypeOK'
  <1>ty. TypeOK /\ ForkOwnsChild
    BY DEF IInv
  <1>1. ASSUME NEW p \in Slots, Dispatch(p) \/ Preempt(p) PROVE TypeOK'
    BY <1>1, <1>ty, StateFacts DEF TypeOK, Dispatch, Preempt
  <1>2. CASE InitSyscall
    BY <1>2, <1>ty, SyscallType, PCFacts, IndexFacts DEF InitSyscall
  <1>3. CASE InitReturn
    <2>1. shpid' \in Int
      BY <1>3, <1>ty, IndexFacts DEF TypeOK, InitReturn
    <2>2. a0' \in [Slots -> Int]
      BY <1>3, <1>ty, IndexFacts DEF TypeOK, InitReturn
    <2>3. (IF a0[initproc] < 0 THEN "exit" ELSE "user") \in PC
      BY PCFacts
    <2>4. pc' \in [Slots -> PC]
      BY <1>3, <1>ty, <2>3, GotoType, IndexFacts DEF InitReturn
    <2> QED
      BY <1>3, <1>ty, <2>1, <2>2, <2>4 DEF TypeOK, InitReturn, table
  <1>4. CASE Frozen
    BY <1>4, <1>ty DEF TypeOK, Frozen, vars, table
  <1> QED
    BY <1>ty, <1>1, <1>2, <1>3, <1>4, EnterLeaveType, ForkType, ExitType, WaitType,
       KillType, GetprocsType DEF Next
----------------------------------------------------------------------------
\* Program points outside fork's window and outside the locked regions.
Plain == {"user", "ret", "fork_scan", "exit", "wait", "wait_wake", "kill_scan",
          "getprocs"} \union Spinning

\* A step of a running process that touches neither the table nor wait_lock and
\* stays outside fork's window and the locked regions keeps the invariant.
LEMMA LocalStep ==
    ASSUME IInv, TypeOK', NEW p \in Slots, NEW l \in Plain \ {"fork_spin"},
           state[p] = "RUNNING", pc[p] \in Plain \ {"fork_spin"},
           pc' = [pc EXCEPT ![p] = l], p = initproc => l # "exit_spin",
           \A q \in Slots \ {p} : i'[q] = i[q],
           UNCHANGED <<state, pid, parent, chan, nextpid, wait_lock>>
    PROVE  IInv'
  <1> USE DEF IInv, TypeOK, table
  <1>pc. /\ l \notin Locked /\ pc[p] \notin Locked
         /\ l \notin Forking /\ pc[p] \notin Forking
         /\ l \notin Unlinked /\ pc[p] \notin Unlinked
         /\ l # "dead" /\ pc[p] # "dead"
    BY DEF Plain, Locked, Forking, Unlinked, ExitLocked, WaitLocked, Spinning
  <1>1. LockHeld'
    BY <1>pc DEF LockHeld
  <1>2. DeadHaveNoThread'
    BY <1>pc DEF DeadHaveNoThread
  <1>3. PidsUnique'
    BY DEF PidsUnique, Live
  <1>4. ForkOwnsChild'
    BY <1>pc DEF ForkOwnsChild
  <1>5. ParentsLive'
    <2>1. ASSUME NEW s \in Slots, NEW q \in Slots, pc[q] \in Unlinked, i[q] = s
          PROVE  \E r \in Slots : pc'[r] \in Unlinked /\ i'[r] = s
      BY <1>pc, <2>1
    <2> QED
      BY <2>1 DEF ParentsLive, Live
  <1>6. ExitingChildless'
    BY <1>pc DEF ExitingChildless, Children, Locked, ExitLocked
  <1>7. InitForever'
    BY <1>pc, IndexFacts DEF InitForever, Locked
  <1>8. AncestorsOlder'
    BY DEF AncestorsOlder
  <1>9. ZombieParentAwake'
    BY <1>pc DEF ZombieParentAwake, Locked, ExitLocked, WaitLocked
  <1> QED
    BY <1>1, <1>2, <1>3, <1>4, <1>5, <1>6, <1>7, <1>8, <1>9

\* acquire(&wait_lock) succeeds.
LEMMA AcquireStep ==
    ASSUME IInv, TypeOK', NEW p \in Slots,
           NEW l \in {"exit_reparent", "wait_scan", "getprocs_scan"},
           state[p] = "RUNNING",
           pc[p] \in {"exit_spin", "wait_spin", "getprocs_spin"},
           l = "exit_reparent" => pc[p] = "exit_spin",
           pc' = [pc EXCEPT ![p] = l], Acquire(p), UNCHANGED <<table, i>>
    PROVE  IInv'
  <1> USE DEF IInv, TypeOK, table
  <1>pc. /\ l \in Locked /\ pc[p] \notin Locked
         /\ l \notin Forking /\ pc[p] \notin Forking
         /\ l \notin Unlinked /\ pc[p] \notin Unlinked
    BY DEF Locked, Forking, Unlinked, ExitLocked, WaitLocked
  <1>1. LockHeld'
    BY <1>pc, IndexFacts DEF LockHeld, Acquire
  <1>2. DeadHaveNoThread'
    BY <1>pc DEF DeadHaveNoThread
  <1>3. PidsUnique'
    BY DEF PidsUnique, Live
  <1>4. ForkOwnsChild'
    BY <1>pc DEF ForkOwnsChild
  <1>5. ParentsLive'
    BY <1>pc DEF ParentsLive, Live
  <1>6. ExitingChildless'
    BY <1>pc DEF ExitingChildless, Children
  <1>7. InitForever'
    BY IndexFacts DEF InitForever, ExitLocked
  <1>8. AncestorsOlder'
    BY DEF AncestorsOlder
  <1>9. ZombieParentAwake'
    BY DEF ZombieParentAwake
  <1> QED
    BY <1>1, <1>2, <1>3, <1>4, <1>5, <1>6, <1>7, <1>8, <1>9

\* A step of the holder of wait_lock that leaves the table alone: on to another
\* locked program point, or release(&wait_lock) on the way out.
LEMMA HolderStep ==
    ASSUME IInv, TypeOK', NEW p \in Slots, state[p] = "RUNNING",
           pc[p] \in {"wait_scan", "wait_killed", "getprocs_scan"},
           NEW l \in {"wait_killed", "wait_sleep", "getprocs_scan", "ret"},
           pc' = [pc EXCEPT ![p] = l],
           wait_lock' = IF l = "ret" THEN None ELSE wait_lock,
           l = "wait_killed" => ZombieChildren(p) = {},
           l = "wait_sleep" => pc[p] = "wait_killed",
           \A q \in Slots \ {p} : i'[q] = i[q],
           UNCHANGED table
    PROVE  IInv'
  <1> USE DEF IInv, TypeOK, table
  <1>pc. /\ pc[p] \in Locked /\ (l \in Locked <=> l # "ret")
         /\ l \notin Forking /\ pc[p] \notin Forking
         /\ l \notin Unlinked /\ pc[p] \notin Unlinked
    BY DEF Locked, Forking, Unlinked, ExitLocked, WaitLocked
  <1>1. LockHeld'
    BY <1>pc, IndexFacts DEF LockHeld
  <1>2. DeadHaveNoThread'
    BY <1>pc DEF DeadHaveNoThread, Spinning
  <1>3. PidsUnique'
    BY DEF PidsUnique, Live
  <1>4. ForkOwnsChild'
    BY <1>pc, SMTT(60) DEF ForkOwnsChild
  <1>5. ParentsLive'
    <2>1. ASSUME NEW s \in Slots, NEW q \in Slots, pc[q] \in Unlinked, i[q] = s
          PROVE  \E r \in Slots : pc'[r] \in Unlinked /\ i'[r] = s
      BY <1>pc, <2>1
    <2> QED
      BY <2>1 DEF ParentsLive, Live
  <1>6. ExitingChildless'
    BY DEF ExitingChildless, Children
  <1>7. InitForever'
    BY IndexFacts DEF InitForever, ExitLocked
  <1>8. AncestorsOlder'
    BY DEF AncestorsOlder
  <1>9. ZombieParentAwake'
    BY DEF ZombieParentAwake, ZombieChildren, Children
  <1> QED
    BY <1>1, <1>2, <1>3, <1>4, <1>5, <1>6, <1>7, <1>8, <1>9
----------------------------------------------------------------------------
\* scheduler() and yield() move a process between RUNNABLE and RUNNING.
LEMMA SchedStep ==
    ASSUME IInv, NEW p \in Slots, Dispatch(p) \/ Preempt(p), TypeOK'
    PROVE  IInv'
  <1> USE DEF IInv, TypeOK, table
  <1>0. /\ UNCHANGED <<pid, parent, chan, nextpid, wait_lock, pc, i>>
        /\ pc[p] \notin Spinning \union Locked
        /\ \/ state[p] = "RUNNABLE" /\ state' = [state EXCEPT ![p] = "RUNNING"]
           \/ state[p] = "RUNNING" /\ state' = [state EXCEPT ![p] = "RUNNABLE"]
    BY DEF Dispatch, Preempt, DeadHaveNoThread
  <1> HIDE DEF IInv
  <1>a. TypeOK /\ LockHeld /\ DeadHaveNoThread /\ PidsUnique /\ ForkOwnsChild
    BY DEF IInv
  <1>b. ParentsLive /\ ExitingChildless /\ InitForever /\ AncestorsOlder
        /\ ZombieParentAwake
    BY DEF IInv
  <1>1. LockHeld'
    BY <1>0, <1>a DEF LockHeld
  <1>2. DeadHaveNoThread'
    BY <1>0, <1>a DEF DeadHaveNoThread
  <1>3. PidsUnique'
    BY <1>0, <1>a DEF PidsUnique, Live
  <1>4. ForkOwnsChild'
    BY <1>0, <1>a DEF ForkOwnsChild
  <1>5. ParentsLive'
    BY <1>0, <1>a, <1>b DEF ParentsLive, Live
  <1>6. ExitingChildless' /\ AncestorsOlder'
    BY <1>0, <1>b DEF ExitingChildless, Children, AncestorsOlder
  <1>7. InitForever'
    BY <1>0, <1>a, <1>b, IndexFacts DEF InitForever
  <1>st. \A t \in Slots :
            \/ state'[t] = state[t]
            \/ state[t] # "ZOMBIE" /\ state'[t] \notin {"ZOMBIE", "SLEEPING"}
    BY <1>0, <1>a
  <1>8. ZombieParentAwake'
    BY <1>0, <1>st, <1>a, <1>b DEF ZombieParentAwake
  <1> QED
    BY <1>1, <1>2, <1>3, <1>4, <1>5, <1>6, <1>7, <1>8 DEF IInv

\* kkill() finds the pid: the victim is woken if it sleeps.
LEMMA KillStep ==
    ASSUME IInv, NEW p \in Slots, KillFound(p), TypeOK'
    PROVE  IInv'
  <1> DEFINE s == i[p]
  <1>a. TypeOK /\ LockHeld /\ DeadHaveNoThread /\ PidsUnique /\ ForkOwnsChild
    BY DEF IInv
  <1>b. ParentsLive /\ ExitingChildless /\ InitForever /\ AncestorsOlder
        /\ ZombieParentAwake
    BY DEF IInv
  <1>0. /\ s \in Slots
        /\ UNCHANGED <<pid, parent, chan, nextpid, wait_lock>>
        /\ state[p] = "RUNNING" /\ pc[p] = "kill_scan"
        /\ pc' = [pc EXCEPT ![p] = "ret"]
        /\ \A q \in Slots \ {p} : i'[q] = i[q]
    BY <1>a, IndexFacts DEF TypeOK, KillFound, At, Return
  <1>st. \A t \in Slots :
              \/ state'[t] = state[t]
              \/ t = s /\ state[t] = "SLEEPING" /\ state'[t] = "RUNNABLE"
    BY <1>0, <1>a DEF KillFound, TypeOK
  <1>pc. /\ \A q \in Slots : q # p => pc'[q] = pc[q]
         /\ pc'[p] = "ret" /\ "ret" \notin Locked \union Spinning \union Forking
         /\ "kill_scan" \notin Locked \union Spinning \union Forking
         /\ "ret" \notin Unlinked /\ "kill_scan" \notin Unlinked
    BY <1>0, <1>a DEF TypeOK, Locked, ExitLocked, WaitLocked, Spinning, Forking, Unlinked
  <1> HIDE DEF s
  <1>1. LockHeld'
    BY <1>0, <1>st, <1>pc, <1>a DEF LockHeld, DeadHaveNoThread
  <1>2. DeadHaveNoThread'
    BY <1>0, <1>st, <1>pc, <1>a DEF DeadHaveNoThread
  <1>3. PidsUnique'
    BY <1>0, <1>st, <1>a DEF PidsUnique, Live
  <1>4. ForkOwnsChild'
    BY <1>0, <1>st, <1>pc, <1>a DEF ForkOwnsChild
  <1>5. ParentsLive'
    <2>1. ASSUME NEW t \in Slots, NEW q \in Slots, pc[q] \in Unlinked, i[q] = t
          PROVE  \E r \in Slots : pc'[r] \in Unlinked /\ i'[r] = t
      BY <1>0, <1>pc, <2>1
    <2> QED
      BY <1>0, <1>st, <1>a, <1>b, <2>1, SMTT(60) DEF ParentsLive, Live, TypeOK
  <1>6. ExitingChildless'
    BY <1>0, <1>pc, <1>b DEF ExitingChildless, Children
  <1>7. InitForever' /\ AncestorsOlder'
    BY <1>0, <1>st, <1>pc, <1>b, IndexFacts
    DEF InitForever, AncestorsOlder, ExitLocked
  <1>8. ZombieParentAwake'
    BY <1>0, <1>st, <1>pc, <1>a, <1>b, SMTT(60) DEF ZombieParentAwake, ParentsLive, TypeOK
  <1> QED
    BY <1>1, <1>2, <1>3, <1>4, <1>5, <1>6, <1>7, <1>8 DEF IInv
----------------------------------------------------------------------------
\* kfork() takes a free slot: until it is linked, only the forking thread
\* knows it.
LEMMA ForkAllocStep ==
    ASSUME IInv, NEW p \in Slots, ForkAlloc(p), TypeOK'
    PROVE  IInv'
  <1> DEFINE s == i[p]
  <1>a. TypeOK /\ LockHeld /\ DeadHaveNoThread /\ PidsUnique /\ ForkOwnsChild
    BY DEF IInv
  <1>b. ParentsLive /\ ExitingChildless /\ InitForever /\ AncestorsOlder
        /\ ZombieParentAwake
    BY DEF IInv
  <1>0. /\ s \in Slots /\ state[s] = "UNUSED" /\ s # p
        /\ UNCHANGED <<parent, chan, wait_lock, i>>
        /\ state[p] = "RUNNING" /\ pc[p] = "fork_scan"
        /\ nextpid' = nextpid + 1
    BY <1>a, IndexFacts DEF TypeOK, ForkAlloc, At
  <1>1. /\ \A t \in Slots : t # s => state'[t] = state[t] /\ pid'[t] = pid[t]
        /\ state'[s] = "USED" /\ pid'[s] = nextpid
        /\ \A t \in Slots : t # s /\ t # p => pc'[t] = pc[t]
        /\ pc'[p] = "fork_parent" /\ pc'[s] = "user"
    BY <1>0, <1>a DEF ForkAlloc, TypeOK
  <1>2. /\ "user" \notin Locked \union Spinning \union Forking
        /\ "fork_parent" \notin Locked \union Spinning
        /\ "fork_parent" \in Forking /\ "fork_parent" \in Unlinked
        /\ "fork_scan" \notin Locked \union Spinning \union Forking
        /\ "dead" \notin Locked \union Spinning \union Forking
        /\ Unlinked \subseteq Forking
    BY DEF Locked, ExitLocked, WaitLocked, Spinning, Forking, Unlinked
  <1>3. /\ pc[s] = "dead" /\ parent[s] = None /\ pid[s] = 0
        /\ \A t \in Slots : parent[t] # s
    <2>1. None # s
      BY <1>0, IndexFacts
    <2> QED
      BY <1>0, <1>a, <1>b, <2>1 DEF DeadHaveNoThread, ParentsLive, PidsUnique, Live, TypeOK
  <1>4. \A q \in Slots : pc[q] \in Forking => i[q] # s
    BY <1>0, <1>a DEF ForkOwnsChild
  <1> HIDE DEF s
  <1>5. LockHeld'
    BY <1>0, <1>1, <1>2, <1>3, <1>a DEF LockHeld
  <1>6. DeadHaveNoThread'
    BY <1>0, <1>1, <1>2, <1>3, <1>a DEF DeadHaveNoThread
  <1>7. PidsUnique'
    <2>1. nextpid \in Int /\ \A t \in Slots : pid[t] \in Nat /\ pid[t] < nextpid
      BY <1>a DEF PidsUnique, TypeOK
    <2>2. \A t \in Slots : pid'[t] < nextpid' /\ (Live(t)' <=> pid'[t] # 0)
      BY <2>1, <1>0, <1>1, <1>a DEF PidsUnique, Live
    <2>3. \A t, u \in Slots : pid'[t] = pid'[u] /\ t # u => pid'[t] = 0
      BY <2>1, <1>0, <1>1, <1>a DEF PidsUnique
    <2> QED
      BY <2>2, <2>3 DEF PidsUnique
  <1>8. ForkOwnsChild'
    <2>1. s = i'[p] /\ s = i[p]
      BY <1>0 DEF s
    <2>2. pid[p] < nextpid
      BY <1>a DEF PidsUnique
    <2>3. ASSUME NEW q \in Slots, pc'[q] \in Forking
          PROVE /\ i'[q] \in Slots
                /\ state'[i'[q]] = "USED"
                /\ pid'[q] < pid'[i'[q]]
                /\ parent'[i'[q]] = IF pc'[q] = "fork_run" THEN q ELSE None
      <3>1. CASE q = p
        BY <3>1, <2>1, <2>2, <1>0, <1>1, <1>3
      <3>2. CASE q # p
        BY <3>2, <2>3, <1>0, <1>1, <1>2, <1>4, <1>a DEF ForkOwnsChild
      <3> QED
        BY <3>1, <3>2
    <2>4. ASSUME NEW q \in Slots, NEW r \in Slots, pc'[q] \in Forking,
                 pc'[r] \in Forking, i'[q] = i'[r] PROVE q = r
      BY <2>1, <2>4, <1>0, <1>1, <1>2, <1>4, <1>a DEF ForkOwnsChild
    <2> QED
      BY <2>3, <2>4 DEF ForkOwnsChild
  <1>9. ParentsLive'
    <2>1. ASSUME NEW t \in Slots, parent'[t] # None
          PROVE  Live(t)' /\ state'[parent'[t]] \notin {"UNUSED", "USED", "ZOMBIE"}
      BY <2>1, <1>0, <1>1, <1>3, <1>a, <1>b DEF ParentsLive, Live, TypeOK
    <2>2. ASSUME NEW t \in Slots, parent'[t] = None, Live(t)', t # initproc
          PROVE  \E q \in Slots : pc'[q] \in Unlinked /\ i'[q] = t
      <3>1. CASE t = s
        BY <3>1, <1>0, <1>1, <1>2 DEF s
      <3>2. CASE t # s
        <4>1. PICK q \in Slots : pc[q] \in Unlinked /\ i[q] = t
          BY <3>2, <2>2, <1>0, <1>1, <1>b DEF ParentsLive, Live
        <4> QED
          BY <4>1, <1>0, <1>1, <1>2, <1>3
      <3> QED
        BY <3>1, <3>2
    <2> QED
      BY <2>1, <2>2 DEF ParentsLive
  <1>10. ExitingChildless'
    BY <1>0, <1>1, <1>b DEF ExitingChildless, Children
  <1>11. InitForever'
    BY <1>0, <1>1, <1>b, IndexFacts DEF InitForever, ExitLocked
  <1>12. AncestorsOlder'
    BY <1>0, <1>1, <1>3, <1>a, <1>b DEF AncestorsOlder, TypeOK
  <1>13. ZombieParentAwake'
    BY <1>0, <1>1, <1>3, <1>a, <1>b, ZenonT(60) DEF ZombieParentAwake, TypeOK
  <1> QED
    BY <1>5, <1>6, <1>7, <1>8, <1>9, <1>10, <1>11, <1>12, <1>13 DEF IInv

\* A failed kfork() leaves the slot as free as it found it.
LEMMA ForkNoMemStep ==
    ASSUME IInv, NEW p \in Slots, ForkNoMem(p), TypeOK'
    PROVE  IInv'
  <1>a. TypeOK /\ LockHeld /\ DeadHaveNoThread /\ PidsUnique /\ ForkOwnsChild
    BY DEF IInv
  <1>b. ParentsLive /\ ExitingChildless /\ InitForever /\ AncestorsOlder
        /\ ZombieParentAwake
    BY DEF IInv
  <1>0. /\ i[p] \in Slots /\ state[i[p]] = "UNUSED"
        /\ state[p] = "RUNNING" /\ pc[p] = "fork_scan"
        /\ pc' = [pc EXCEPT ![p] = "ret"]
        /\ \A q \in Slots \ {p} : i'[q] = i[q]
        /\ nextpid' = nextpid + 1 /\ wait_lock' = wait_lock
    BY <1>a, IndexFacts DEF TypeOK, ForkNoMem, At, Return
  <1>1. /\ state' = state /\ pid' = pid /\ parent' = parent
        /\ \A t \in Slots : t # i[p] => chan'[t] = chan[t]
    BY <1>0, <1>a, <1>b
    DEF ForkNoMem, freeproc, TypeOK, PidsUnique, ParentsLive, Live
  <1>2. /\ \A q \in Slots : q # p => pc'[q] = pc[q]
        /\ pc'[p] = "ret" /\ "ret" \notin Locked \union Spinning \union Forking
        /\ "fork_scan" \notin Locked \union Spinning \union Forking
        /\ "ret" \notin Unlinked /\ "fork_scan" \notin Unlinked
    BY <1>0, <1>a DEF TypeOK, Locked, ExitLocked, WaitLocked, Spinning, Forking, Unlinked
  <1>3. LockHeld' /\ DeadHaveNoThread'
    BY <1>0, <1>1, <1>2, <1>a DEF LockHeld, DeadHaveNoThread
  <1>4. PidsUnique' /\ AncestorsOlder'
    BY <1>0, <1>1, <1>a, <1>b, SMTT(60) DEF PidsUnique, Live, AncestorsOlder, TypeOK
  <1>5. ForkOwnsChild'
    BY <1>0, <1>1, <1>2, <1>a DEF ForkOwnsChild
  <1>6. ParentsLive'
    <2>1. ASSUME NEW t \in Slots, NEW q \in Slots, pc[q] \in Unlinked, i[q] = t
          PROVE  \E r \in Slots : pc'[r] \in Unlinked /\ i'[r] = t
      BY <1>0, <1>2, <2>1
    <2> QED
      BY <1>1, <1>b, <2>1 DEF ParentsLive, Live
  <1>7. ExitingChildless' /\ InitForever'
    BY <1>1, <1>2, <1>b, IndexFacts DEF ExitingChildless, Children, InitForever, ExitLocked
  <1>8. ZombieParentAwake'
    BY <1>1, <1>2, <1>a, <1>b DEF ZombieParentAwake, TypeOK
  <1> QED
    BY <1>3, <1>4, <1>5, <1>6, <1>7, <1>8 DEF IInv

\* kfork() enters acquire(&wait_lock) with the new slot still unlinked.
LEMMA ForkPushOffStep ==
    ASSUME IInv, NEW p \in Slots, ForkPushOff(p), TypeOK'
    PROVE  IInv'
  <1>a. TypeOK /\ LockHeld /\ DeadHaveNoThread /\ PidsUnique /\ ForkOwnsChild
    BY DEF IInv
  <1>b. ParentsLive /\ ExitingChildless /\ InitForever /\ AncestorsOlder
        /\ ZombieParentAwake
    BY DEF IInv
  <1>0. /\ UNCHANGED <<state, pid, parent, chan, nextpid, wait_lock, i>>
        /\ state[p] = "RUNNING" /\ pc[p] = "fork_parent"
        /\ pc'[p] = "fork_spin" /\ \A q \in Slots : q # p => pc'[q] = pc[q]
    BY <1>a DEF TypeOK, ForkPushOff, PushOff, At, Goto, table
  <1>1. /\ {"fork_parent", "fork_spin"} \subseteq Forking \intersect Unlinked
        /\ "fork_parent" \notin Locked /\ "fork_spin" \notin Locked
    BY DEF Locked, ExitLocked, WaitLocked, Forking, Unlinked
  <1>2. LockHeld' /\ DeadHaveNoThread'
    BY <1>0, <1>1, <1>a DEF LockHeld, DeadHaveNoThread
  <1>3. PidsUnique' /\ AncestorsOlder'
    BY <1>0, <1>a, <1>b DEF PidsUnique, Live, AncestorsOlder
  <1>4. ForkOwnsChild'
    BY <1>0, <1>1, <1>a DEF ForkOwnsChild
  <1>5. ParentsLive'
    BY <1>0, <1>1, <1>b DEF ParentsLive, Live
  <1>6. ExitingChildless' /\ InitForever'
    BY <1>0, <1>b, IndexFacts DEF ExitingChildless, Children, InitForever, ExitLocked
  <1>7. ZombieParentAwake'
    BY <1>0, <1>a, <1>b DEF ZombieParentAwake, TypeOK
  <1> QED
    BY <1>2, <1>3, <1>4, <1>5, <1>6, <1>7 DEF IInv

\* np->parent = p: the new process gets its parent while nobody exits.
LEMMA ForkParentStep ==
    ASSUME IInv, NEW p \in Slots, ForkParent(p), TypeOK'
    PROVE  IInv'
  <1> DEFINE s == i[p]
  <1>a. TypeOK /\ LockHeld /\ DeadHaveNoThread /\ PidsUnique /\ ForkOwnsChild
    BY DEF IInv
  <1>b. ParentsLive /\ ExitingChildless /\ InitForever /\ AncestorsOlder
        /\ ZombieParentAwake
    BY DEF IInv
  <1>0. /\ UNCHANGED <<state, pid, chan, nextpid, wait_lock, i>> /\ wait_lock = None
        /\ state[p] = "RUNNING" /\ pc[p] = "fork_spin"
        /\ pc'[p] = "fork_run" /\ \A q \in Slots : q # p => pc'[q] = pc[q]
    BY <1>a DEF TypeOK, ForkParent, At, Goto
  <1>1. /\ "fork_run" \in Forking /\ "fork_spin" \in Forking /\ "fork_spin" \in Unlinked
        /\ "fork_run" \notin Unlinked /\ Unlinked \subseteq Forking
        /\ "fork_run" \notin Locked \union Spinning /\ "fork_spin" \notin Locked
    BY DEF Locked, ExitLocked, WaitLocked, Spinning, Forking, Unlinked
  <1>2. s \in Slots /\ state[s] = "USED" /\ pid[p] < pid[s] /\ parent[s] = None /\ s # p
    BY <1>0, <1>1, <1>a DEF ForkOwnsChild
  <1>3. parent'[s] = p /\ \A t \in Slots : t # s => parent'[t] = parent[t]
    BY <1>2, <1>a DEF ForkParent, TypeOK
  <1>4. \A q \in Slots : q # p /\ pc[q] \in Forking => i[q] # s
    BY <1>0, <1>1, <1>a DEF ForkOwnsChild
  <1>4a. i[p] = s
    OBVIOUS
  <1> HIDE DEF s
  <1>5. LockHeld' /\ DeadHaveNoThread'
    BY <1>0, <1>1, <1>a DEF LockHeld, DeadHaveNoThread
  <1>6. PidsUnique'
    BY <1>0, <1>a DEF PidsUnique, Live
  <1>7. AncestorsOlder'
    BY <1>0, <1>2, <1>3, <1>b DEF AncestorsOlder
  <1>8. ForkOwnsChild'
    <2>1. ASSUME NEW q \in Slots, pc'[q] \in Forking
          PROVE /\ i'[q] \in Slots
                /\ state'[i'[q]] = "USED"
                /\ pid'[q] < pid'[i'[q]]
                /\ parent'[i'[q]] = IF pc'[q] = "fork_run" THEN q ELSE None
      <3>1. CASE q = p
        BY <3>1, <1>0, <1>2, <1>3, <1>4a
      <3>2. CASE q # p
        BY <3>2, <2>1, <1>0, <1>3, <1>4, <1>a DEF ForkOwnsChild
      <3> QED
        BY <3>1, <3>2
    <2>2. ASSUME NEW q \in Slots, NEW r \in Slots, pc'[q] \in Forking,
                 pc'[r] \in Forking, i'[q] = i'[r] PROVE q = r
      BY <2>2, <1>0, <1>1, <1>4, <1>a DEF ForkOwnsChild
    <2> QED
      BY <2>1, <2>2 DEF ForkOwnsChild
  <1>9. ParentsLive'
    <2>1. ASSUME NEW t \in Slots, parent'[t] # None
          PROVE  Live(t)' /\ state'[parent'[t]] \notin {"UNUSED", "USED", "ZOMBIE"}
      BY <2>1, <1>0, <1>2, <1>3, <1>b DEF ParentsLive, Live
    <2>2. ASSUME NEW t \in Slots, parent'[t] = None, Live(t)', t # initproc
          PROVE  \E q \in Slots : pc'[q] \in Unlinked /\ i'[q] = t
      <3>1. t # s
        BY <2>2, <1>3, IndexFacts
      <3>2. PICK q \in Slots : pc[q] \in Unlinked /\ i[q] = t
        BY <2>2, <3>1, <1>0, <1>3, <1>b DEF ParentsLive, Live
      <3> QED
        BY <3>1, <3>2, <1>0, <1>4a
    <2> QED
      BY <2>1, <2>2 DEF ParentsLive
  <1>10. ExitingChildless'
    BY <1>0, <1>3, <1>b DEF ExitingChildless, Children
  <1>11. InitForever'
    BY <1>0, <1>2, <1>3, <1>b, IndexFacts DEF InitForever, ExitLocked
  <1>12. ZombieParentAwake'
    <2>1. \A t \in Slots : pc[t] # "exit_zombie"
      BY <1>0, <1>a, IndexFacts DEF LockHeld, DeadHaveNoThread, Locked, ExitLocked
    <2>2. \A t \in Slots : pc'[t] # "exit_zombie"
      BY <2>1, <1>0
    <2>3. ASSUME NEW t \in Slots, state'[t] = "ZOMBIE"
          PROVE  /\ parent'[t] # None
                 /\ state'[parent'[t]] # "SLEEPING"
                 /\ pc'[parent'[t]] \notin {"wait_killed", "wait_sleep"}
      <3>1. t # s /\ state[t] = "ZOMBIE" /\ parent'[t] = parent[t]
        BY <2>3, <1>0, <1>2, <1>3
      <3>2. parent[t] \in Slots
        BY <3>1, <1>a, <1>b DEF ZombieParentAwake, TypeOK
      <3> QED
        BY <3>1, <3>2, <1>0, <1>b DEF ZombieParentAwake
    <2> QED
      BY <2>2, <2>3 DEF ZombieParentAwake
  <1> QED
    BY <1>5, <1>6, <1>7, <1>8, <1>9, <1>10, <1>11, <1>12 DEF IInv

\* np->state = RUNNABLE ends the window.
LEMMA ForkRunStep ==
    ASSUME IInv, NEW p \in Slots, ForkRun(p), TypeOK'
    PROVE  IInv'
  <1> DEFINE s == i[p]
  <1>a. TypeOK /\ LockHeld /\ DeadHaveNoThread /\ PidsUnique /\ ForkOwnsChild
    BY DEF IInv
  <1>b. ParentsLive /\ ExitingChildless /\ InitForever /\ AncestorsOlder
        /\ ZombieParentAwake
    BY DEF IInv
  <1>1. /\ "fork_run" \in Forking /\ "fork_run" \notin Unlinked
        /\ "ret" \notin Locked \union Spinning \union Forking
        /\ Unlinked \subseteq Forking /\ "fork_run" \notin Locked \union Spinning
        /\ "user" \notin Locked \union Spinning \union Forking
    BY DEF Locked, ExitLocked, WaitLocked, Spinning, Forking, Unlinked
  <1>0. /\ UNCHANGED <<pid, parent, chan, nextpid, wait_lock>>
        /\ state[p] = "RUNNING" /\ pc[p] = "fork_run"
        /\ pc'[p] = "ret" /\ \A q \in Slots : q # p => pc'[q] = pc[q] /\ i'[q] = i[q]
    BY <1>a DEF TypeOK, ForkRun, At, Return
  <1>2. s \in Slots /\ state[s] = "USED" /\ parent[s] = p /\ s # p /\ pc[s] = "user"
    BY <1>0, <1>1, <1>a DEF ForkOwnsChild, DeadHaveNoThread
  <1>3. state'[s] = "RUNNABLE" /\ \A t \in Slots : t # s => state'[t] = state[t]
    BY <1>2, <1>a DEF ForkRun, TypeOK
  <1>4. \A q \in Slots : q # p /\ pc[q] \in Forking => i[q] # s
    BY <1>0, <1>1, <1>a DEF ForkOwnsChild
  <1> HIDE DEF s
  <1>5. LockHeld'
    BY <1>0, <1>1, <1>2, <1>3, <1>a DEF LockHeld
  <1>6. DeadHaveNoThread'
    BY <1>0, <1>1, <1>2, <1>3, <1>a DEF DeadHaveNoThread
  <1>7. PidsUnique' /\ AncestorsOlder'
    <2>1. \A t \in Slots : Live(t)' <=> Live(t)
      BY <1>2, <1>3 DEF Live
    <2> QED
      BY <2>1, <1>0, <1>a, <1>b DEF PidsUnique, AncestorsOlder
  <1>8. ForkOwnsChild'
    BY <1>0, <1>1, <1>3, <1>4, <1>a DEF ForkOwnsChild
  <1>9. ParentsLive'
    <2>1. ASSUME NEW t \in Slots, parent'[t] # None
          PROVE  Live(t)' /\ state'[parent'[t]] \notin {"UNUSED", "USED", "ZOMBIE"}
      BY <2>1, <1>0, <1>2, <1>3, <1>a, <1>b, SMTT(60) DEF ParentsLive, Live, TypeOK
    <2>2. ASSUME NEW t \in Slots, parent'[t] = None, Live(t)', t # initproc
          PROVE  \E q \in Slots : pc'[q] \in Unlinked /\ i'[q] = t
      <3>1. PICK q \in Slots : pc[q] \in Unlinked /\ i[q] = t
        BY <2>2, <1>0, <1>2, <1>3, <1>b DEF ParentsLive, Live
      <3> QED
        BY <3>1, <1>0, <1>1
    <2> QED
      BY <2>1, <2>2 DEF ParentsLive
  <1>10. ExitingChildless' /\ InitForever'
    BY <1>0, <1>2, <1>3, <1>b, IndexFacts
    DEF ExitingChildless, Children, InitForever, ExitLocked
  <1>11. ZombieParentAwake'
    BY <1>0, <1>2, <1>3, <1>a, <1>b, ZenonT(60) DEF ZombieParentAwake, TypeOK
  <1> QED
    BY <1>5, <1>6, <1>7, <1>8, <1>9, <1>10, <1>11 DEF IInv

----------------------------------------------------------------------------
\* A process that runs and is not init has a parent: an unlinked one is USED.
LEMMA RunningHasParent ==
    ASSUME IInv, NEW p \in Slots, p # initproc, state[p] = "RUNNING"
    PROVE  parent[p] \in Slots
  <1>1. \A q \in Slots : pc[q] \in Unlinked => i[q] # p
    BY DEF IInv, ForkOwnsChild, Unlinked, Forking
  <1>2. parent[p] # None
    BY <1>1 DEF IInv, ParentsLive, Live
  <1> QED
    BY <1>2 DEF IInv, TypeOK

\* While somebody holds wait_lock, nobody else is in a locked region.
LEMMA OneHolder ==
    ASSUME IInv, NEW p \in Slots, state[p] = "RUNNING", pc[p] \in Locked
    PROVE  wait_lock = p /\ \A q \in Slots \ {p} : pc[q] \notin Locked
  BY DEF IInv, LockHeld, DeadHaveNoThread

\* reparent(p): every child moves to init, which is woken.
LEMMA ExitReparentStep ==
    ASSUME IInv, NEW p \in Slots, ExitReparent(p), TypeOK'
    PROVE  IInv'
  <1>a. TypeOK /\ LockHeld /\ DeadHaveNoThread /\ PidsUnique /\ ForkOwnsChild
    BY DEF IInv
  <1>b. ParentsLive /\ ExitingChildless /\ InitForever /\ AncestorsOlder
        /\ ZombieParentAwake
    BY DEF IInv
  <1>0. /\ UNCHANGED <<pid, chan, nextpid, wait_lock, i>>
        /\ state[p] = "RUNNING" /\ pc[p] = "exit_reparent"
        /\ pc'[p] = "exit_wake" /\ \A q \in Slots : q # p => pc'[q] = pc[q]
    BY <1>a DEF TypeOK, ExitReparent, At, Goto
  <1>1. /\ {"exit_reparent", "exit_wake"} \subseteq ExitLocked \intersect Locked
        /\ "exit_reparent" \notin Forking /\ "exit_wake" \notin Forking
        /\ Unlinked \subseteq Forking
        /\ {"exit_zombie", "wait_killed", "wait_sleep"} \subseteq Locked
    BY DEF Locked, ExitLocked, WaitLocked, Forking, Unlinked
  <1>2. wait_lock = p /\ \A q \in Slots \ {p} : pc[q] \notin Locked
    BY <1>0, <1>1, OneHolder
  <1>3. p # initproc /\ initproc \in Slots /\ initproc # None
    BY <1>0, <1>1, <1>b, IndexFacts DEF InitForever
  <1>4. \A t \in Slots : parent'[t] = IF parent[t] = p THEN initproc ELSE parent[t]
    BY DEF ExitReparent
  <1>5. \A t \in Slots :
            \/ state'[t] = state[t]
            \/ t # p /\ state[t] = "SLEEPING" /\ state'[t] = "RUNNABLE"
    BY <1>a DEF ExitReparent, Wakeup, TypeOK
  <1>6. (\E t \in Slots : parent[t] = p) => state'[initproc] # "SLEEPING"
    <2>1. state[initproc] = "SLEEPING" => chan[initproc] = initproc
      BY <1>3, <1>a DEF DeadHaveNoThread
    <2> QED
      BY <2>1, <1>3 DEF ExitReparent, Wakeup, Children
  <1>7. LockHeld'
    BY <1>0, <1>1, <1>5, <1>a DEF LockHeld, DeadHaveNoThread
  <1>8. DeadHaveNoThread'
    BY <1>0, <1>1, <1>5, <1>a DEF DeadHaveNoThread
  <1>9. PidsUnique'
    BY <1>0, <1>5, <1>a DEF PidsUnique, Live
  <1>10. ForkOwnsChild'
    <2>1. ASSUME NEW q \in Slots, pc'[q] \in Forking
          PROVE /\ i'[q] \in Slots
                /\ state'[i'[q]] = "USED"
                /\ pid'[q] < pid'[i'[q]]
                /\ parent'[i'[q]] = IF pc'[q] = "fork_run" THEN q ELSE None
      <3>1. q # p /\ pc[q] \in Forking /\ pc'[q] = pc[q]
        BY <2>1, <1>0, <1>1
      <3>2. parent[i[q]] # p
        BY <3>1, <1>a, IndexFacts DEF ForkOwnsChild
      <3> QED
        BY <3>1, <3>2, <1>0, <1>4, <1>5, <1>a DEF ForkOwnsChild
    <2>2. ASSUME NEW q \in Slots, NEW r \in Slots, pc'[q] \in Forking,
                 pc'[r] \in Forking, i'[q] = i'[r] PROVE q = r
      BY <2>2, <1>0, <1>1, <1>a DEF ForkOwnsChild
    <2> QED
      BY <2>1, <2>2 DEF ForkOwnsChild
  <1>11. ParentsLive'
    <2>1. ASSUME NEW t \in Slots, parent'[t] # None
          PROVE  Live(t)' /\ state'[parent'[t]] \notin {"UNUSED", "USED", "ZOMBIE"}
      <3>1. parent[t] # None
        BY <2>1, <1>4, IndexFacts
      <3>2. CASE parent[t] = p
        BY <3>1, <3>2, <1>3, <1>4, <1>5, <1>b DEF ParentsLive, Live, InitForever
      <3>3. CASE parent[t] # p
        <4>1. parent[t] \in Slots /\ parent'[t] = parent[t]
          BY <3>1, <3>3, <1>4, <1>a DEF TypeOK
        <4> QED
          BY <3>1, <4>1, <1>5, <1>b DEF ParentsLive, Live
      <3> QED
        BY <3>2, <3>3
    <2>2. ASSUME NEW t \in Slots, parent'[t] = None, Live(t)', t # initproc
          PROVE  \E q \in Slots : pc'[q] \in Unlinked /\ i'[q] = t
      <3>1. PICK q \in Slots : pc[q] \in Unlinked /\ i[q] = t
        BY <2>2, <1>3, <1>4, <1>5, <1>b DEF ParentsLive, Live
      <3> QED
        BY <3>1, <1>0, <1>1
    <2> QED
      BY <2>1, <2>2 DEF ParentsLive
  <1>12. ExitingChildless'
    BY <1>0, <1>1, <1>2, <1>3, <1>4, <1>b DEF ExitingChildless, Children, ExitLocked, Locked
  <1>13. InitForever'
    BY <1>0, <1>3, <1>4, <1>5, <1>b, IndexFacts DEF InitForever
  <1>14. AncestorsOlder'
    BY <1>0, <1>4, <1>b DEF AncestorsOlder
  <1>15. ZombieParentAwake'
    <2>1. \A t \in Slots : pc'[t] # "exit_zombie"
      BY <1>0, <1>1, <1>2
    <2>2. \A t \in Slots : pc'[t] \notin {"wait_killed", "wait_sleep"}
      BY <1>0, <1>1, <1>2
    <2>3. ASSUME NEW t \in Slots, state'[t] = "ZOMBIE"
          PROVE  parent'[t] \in Slots /\ state'[parent'[t]] # "SLEEPING"
      <3>1. state[t] = "ZOMBIE" /\ parent[t] \in Slots
        BY <2>3, <1>5, <1>a, <1>b DEF ZombieParentAwake, TypeOK
      <3>2. CASE parent[t] = p
        BY <3>2, <1>3, <1>4, <1>6
      <3>3. CASE parent[t] # p
        BY <3>1, <3>3, <1>4, <1>5, <1>b DEF ZombieParentAwake
      <3> QED
        BY <3>2, <3>3
    <2> QED
      BY <2>1, <2>2, <2>3, IndexFacts DEF ZombieParentAwake
  <1> QED
    BY <1>7, <1>8, <1>9, <1>10, <1>11, <1>12, <1>13, <1>14, <1>15 DEF IInv

\* wakeup(p->parent): from here to ZOMBIE the parent cannot fall asleep.
LEMMA ExitWakeParentStep ==
    ASSUME IInv, NEW p \in Slots, ExitWakeParent(p), TypeOK'
    PROVE  IInv'
  <1>a. TypeOK /\ LockHeld /\ DeadHaveNoThread /\ PidsUnique /\ ForkOwnsChild
    BY DEF IInv
  <1>b. ParentsLive /\ ExitingChildless /\ InitForever /\ AncestorsOlder
        /\ ZombieParentAwake
    BY DEF IInv
  <1>0. /\ UNCHANGED <<pid, parent, chan, nextpid, wait_lock, i>>
        /\ state[p] = "RUNNING" /\ pc[p] = "exit_wake"
        /\ pc'[p] = "exit_zombie" /\ \A q \in Slots : q # p => pc'[q] = pc[q]
    BY <1>a DEF TypeOK, ExitWakeParent, At, Goto
  <1>1. /\ {"exit_zombie", "exit_wake"} \subseteq ExitLocked \intersect Locked
        /\ "exit_zombie" \notin Forking /\ "exit_wake" \notin Forking
        /\ Unlinked \subseteq Forking
    BY DEF Locked, ExitLocked, Forking, Unlinked
  <1>2. \A q \in Slots \ {p} : pc[q] \notin Locked
    BY <1>0, <1>1, OneHolder
  <1>3. p # initproc /\ parent[p] \in Slots /\ parent[p] # None
    BY <1>0, <1>1, <1>b, IndexFacts, RunningHasParent DEF InitForever
  <1>4. \A t \in Slots :
            \/ state'[t] = state[t]
            \/ t # p /\ state[t] = "SLEEPING" /\ state'[t] = "RUNNABLE"
    BY <1>a DEF ExitWakeParent, Wakeup, TypeOK
  <1>5. state'[parent[p]] # "SLEEPING"
    <2>1. state[parent[p]] = "SLEEPING" => chan[parent[p]] = parent[p] /\ parent[p] # p
      BY <1>0, <1>3, <1>a DEF DeadHaveNoThread
    <2> QED
      BY <2>1, <1>0, <1>3, <1>a DEF ExitWakeParent, Wakeup
  <1>6. LockHeld'
    BY <1>0, <1>1, <1>4, <1>a DEF LockHeld, DeadHaveNoThread
  <1>7. DeadHaveNoThread'
    BY <1>0, <1>1, <1>4, <1>a DEF DeadHaveNoThread
  <1>8. PidsUnique' /\ AncestorsOlder'
    BY <1>0, <1>4, <1>a, <1>b DEF PidsUnique, Live, AncestorsOlder
  <1>9. ForkOwnsChild'
    BY <1>0, <1>1, <1>4, <1>a DEF ForkOwnsChild
  <1>10. ParentsLive'
    <2>1. ASSUME NEW t \in Slots, parent'[t] # None
          PROVE  Live(t)' /\ state'[parent'[t]] \notin {"UNUSED", "USED", "ZOMBIE"}
      <3>1. parent[t] \in Slots /\ parent[t] # None
        BY <2>1, <1>0, <1>a DEF TypeOK
      <3> QED
        BY <3>1, <1>0, <1>4, <1>b DEF ParentsLive, Live
    <2>2. ASSUME NEW t \in Slots, parent'[t] = None, Live(t)', t # initproc
          PROVE  \E q \in Slots : pc'[q] \in Unlinked /\ i'[q] = t
      <3>1. PICK q \in Slots : pc[q] \in Unlinked /\ i[q] = t
        BY <2>2, <1>0, <1>4, <1>b DEF ParentsLive, Live
      <3> QED
        BY <3>1, <1>0, <1>1
    <2> QED
      BY <2>1, <2>2 DEF ParentsLive
  <1>11. ExitingChildless'
    BY <1>0, <1>b DEF ExitingChildless, Children
  <1>12. InitForever'
    BY <1>0, <1>3, <1>4, <1>b, IndexFacts DEF InitForever
  <1>13. ZombieParentAwake'
    <2>1. \A t \in Slots : pc'[t] = "exit_zombie" => t = p
      BY <1>0, <1>1, <1>2
    <2>2. ASSUME NEW t \in Slots, state'[t] = "ZOMBIE"
          PROVE  /\ parent'[t] # None
                 /\ state'[parent'[t]] # "SLEEPING"
                 /\ pc'[parent'[t]] \notin {"wait_killed", "wait_sleep"}
      <3>1. state[t] = "ZOMBIE" /\ parent[t] \in Slots
        BY <2>2, <1>4, <1>a, <1>b DEF ZombieParentAwake, TypeOK
      <3> QED
        BY <3>1, <1>0, <1>4, <1>b DEF ZombieParentAwake
    <2> QED
      BY <2>1, <2>2, <1>0, <1>3, <1>5 DEF ZombieParentAwake
  <1> QED
    BY <1>6, <1>7, <1>8, <1>9, <1>10, <1>11, <1>12, <1>13 DEF IInv

\* p becomes a ZOMBIE: it has no children left and its parent is awake.
LEMMA ExitZombieStep ==
    ASSUME IInv, NEW p \in Slots, ExitZombie(p), TypeOK'
    PROVE  IInv'
  <1>a. TypeOK /\ LockHeld /\ DeadHaveNoThread /\ PidsUnique /\ ForkOwnsChild
    BY DEF IInv
  <1>b. ParentsLive /\ ExitingChildless /\ InitForever /\ AncestorsOlder
        /\ ZombieParentAwake
    BY DEF IInv
  <1>0. /\ UNCHANGED <<pid, parent, chan, nextpid, i>> /\ wait_lock' = None
        /\ state[p] = "RUNNING" /\ pc[p] = "exit_zombie"
        /\ pc'[p] = "dead" /\ \A q \in Slots : q # p => pc'[q] = pc[q]
    BY <1>a DEF TypeOK, ExitZombie, At, Goto, Release
  <1>1. /\ "exit_zombie" \in ExitLocked /\ "exit_zombie" \in Locked
        /\ "exit_zombie" \notin Forking /\ Unlinked \subseteq Forking
        /\ "dead" \notin Forking \union Locked \union Spinning
        /\ {"wait_killed", "wait_sleep"} \subseteq Locked
    BY DEF Locked, ExitLocked, WaitLocked, Spinning, Forking, Unlinked
  <1>2. wait_lock = p /\ \A q \in Slots \ {p} : pc[q] \notin Locked
    BY <1>0, <1>1, OneHolder
  <1>4. state'[p] = "ZOMBIE" /\ \A t \in Slots : t # p => state'[t] = state[t]
    BY <1>a DEF ExitZombie, TypeOK
  <1>3. p # initproc /\ (\A t \in Slots : parent[t] # p)
    BY <1>0, <1>1, <1>b, IndexFacts DEF InitForever, ExitingChildless, Children
  <1>5. LockHeld'
    BY <1>0, <1>1, <1>2, <1>4, <1>a, IndexFacts DEF LockHeld, DeadHaveNoThread
  <1>6. DeadHaveNoThread'
    BY <1>0, <1>1, <1>4, <1>a DEF DeadHaveNoThread
  <1>7. PidsUnique' /\ AncestorsOlder'
    <2>1. \A t \in Slots : Live(t)' <=> Live(t)
      BY <1>0, <1>4 DEF Live
    <2> QED
      BY <2>1, <1>0, <1>a, <1>b DEF PidsUnique, AncestorsOlder
  <1>8. ForkOwnsChild'
    BY <1>0, <1>1, <1>4, <1>a DEF ForkOwnsChild
  <1>9. ParentsLive'
    <2>1. ASSUME NEW t \in Slots, parent'[t] # None
          PROVE  Live(t)' /\ state'[parent'[t]] \notin {"UNUSED", "USED", "ZOMBIE"}
      <3>1. parent[t] \in Slots /\ parent[t] # None
        BY <2>1, <1>0, <1>a DEF TypeOK
      <3> QED
        BY <3>1, <1>0, <1>3, <1>4, <1>b DEF ParentsLive, Live
    <2>2. ASSUME NEW t \in Slots, parent'[t] = None, Live(t)', t # initproc
          PROVE  \E q \in Slots : pc'[q] \in Unlinked /\ i'[q] = t
      <3>1. PICK q \in Slots : pc[q] \in Unlinked /\ i[q] = t
        BY <2>2, <1>0, <1>3, <1>4, <1>b DEF ParentsLive, Live
      <3> QED
        BY <3>1, <1>0, <1>1
    <2> QED
      BY <2>1, <2>2 DEF ParentsLive
  <1>10. ExitingChildless'
    BY <1>0, <1>b DEF ExitingChildless, Children
  <1>11. InitForever'
    BY <1>0, <1>3, <1>4, <1>b, IndexFacts DEF InitForever
  <1>12. ZombieParentAwake'
    <2>1. \A t \in Slots : pc'[t] \notin {"exit_zombie", "wait_killed", "wait_sleep"}
      BY <1>0, <1>1, <1>2
    <2>2. ASSUME NEW t \in Slots, state'[t] = "ZOMBIE"
          PROVE  parent'[t] \in Slots /\ state'[parent'[t]] # "SLEEPING"
      <3>1. parent[t] \in Slots /\ state[parent[t]] # "SLEEPING"
        BY <2>2, <1>0, <1>4, <1>a, <1>b DEF ZombieParentAwake, TypeOK
      <3> QED
        BY <3>1, <1>0, <1>3, <1>4
    <2> QED
      BY <2>1, <2>2, IndexFacts DEF ZombieParentAwake
  <1> QED
    BY <1>5, <1>6, <1>7, <1>8, <1>9, <1>10, <1>11, <1>12 DEF IInv

\* kwait() frees a ZOMBIE child: nobody points to the slot any more.
LEMMA WaitReapStep ==
    ASSUME IInv, NEW p \in Slots, WaitReap(p), TypeOK'
    PROVE  IInv'
  <1>a. TypeOK /\ LockHeld /\ DeadHaveNoThread /\ PidsUnique /\ ForkOwnsChild
    BY DEF IInv
  <1>b. ParentsLive /\ ExitingChildless /\ InitForever /\ AncestorsOlder
        /\ ZombieParentAwake
    BY DEF IInv
  <1>z. PICK z \in Slots : /\ parent[z] = p /\ state[z] = "ZOMBIE"
                           /\ freeproc(z) /\ Return(p, pid[z])
    BY DEF WaitReap, ZombieChildren, Children
  <1>0. /\ nextpid' = nextpid /\ wait_lock' = None
        /\ state[p] = "RUNNING" /\ pc[p] = "wait_scan"
        /\ pc'[p] = "ret" /\ \A q \in Slots : q # p => pc'[q] = pc[q] /\ i'[q] = i[q]
    BY <1>z, <1>a DEF TypeOK, WaitReap, At, Return, Release
  <1>1. /\ "wait_scan" \in Locked /\ "wait_scan" \notin Forking
        /\ Unlinked \subseteq Forking
        /\ "ret" \notin Forking \union Locked \union Spinning
        /\ "dead" \notin Forking \union Locked \union Spinning
        /\ ExitLocked \subseteq Locked
        /\ {"exit_wake", "exit_zombie"} \subseteq ExitLocked
        /\ {"wait_killed", "wait_sleep"} \subseteq Locked
    BY DEF Locked, ExitLocked, WaitLocked, Spinning, Forking, Unlinked
  <1>2. wait_lock = p /\ \A q \in Slots \ {p} : pc[q] \notin Locked
    BY <1>0, <1>1, OneHolder
  <1>4. /\ state'[z] = "UNUSED" /\ pid'[z] = 0 /\ parent'[z] = None
        /\ \A t \in Slots : t # z =>
              /\ state'[t] = state[t] /\ pid'[t] = pid[t]
              /\ parent'[t] = parent[t] /\ chan'[t] = chan[t]
    BY <1>z, <1>a DEF freeproc, TypeOK
  <1>3. z # initproc /\ z # p /\ pc[z] = "dead" /\ (\A t \in Slots : parent[t] # z)
    BY <1>0, <1>z, <1>a, <1>b, IndexFacts DEF InitForever, DeadHaveNoThread, ParentsLive
  <1>5. LockHeld'
    BY <1>0, <1>1, <1>2, <1>3, <1>4, <1>a, IndexFacts DEF LockHeld, DeadHaveNoThread
  <1>6. DeadHaveNoThread'
    BY <1>0, <1>1, <1>3, <1>4, <1>a DEF DeadHaveNoThread
  <1>7. PidsUnique'
    <2>1. nextpid \in Nat /\ \A t \in Slots : pid[t] \in Nat /\ pid[t] < nextpid
      BY <1>a DEF PidsUnique, TypeOK
    <2>2. \A t \in Slots : pid'[t] < nextpid' /\ (Live(t)' <=> pid'[t] # 0)
      BY <2>1, <1>0, <1>4, <1>a DEF PidsUnique, Live
    <2>3. \A t, u \in Slots : pid'[t] = pid'[u] /\ t # u => pid'[t] = 0
      BY <2>1, <1>0, <1>4, <1>a DEF PidsUnique
    <2> QED
      BY <2>2, <2>3 DEF PidsUnique
  <1>8. ForkOwnsChild'
    <2>1. \A q \in Slots : pc'[q] \in Forking => q # p /\ q # z /\ pc[q] \in Forking /\ i[q] # z
      BY <1>0, <1>1, <1>3, <1>z, <1>a DEF ForkOwnsChild
    <2> QED
      BY <2>1, <1>0, <1>4, <1>a DEF ForkOwnsChild
  <1>9. ParentsLive'
    <2>1. ASSUME NEW t \in Slots, parent'[t] # None
          PROVE  Live(t)' /\ state'[parent'[t]] \notin {"UNUSED", "USED", "ZOMBIE"}
      <3>1. t # z /\ parent[t] \in Slots /\ parent[t] # None /\ parent[t] # z
        BY <2>1, <1>3, <1>4, <1>a DEF TypeOK
      <3> QED
        BY <3>1, <1>4, <1>b DEF ParentsLive, Live
    <2>2. ASSUME NEW t \in Slots, parent'[t] = None, Live(t)', t # initproc
          PROVE  \E q \in Slots : pc'[q] \in Unlinked /\ i'[q] = t
      <3>1. PICK q \in Slots : pc[q] \in Unlinked /\ i[q] = t
        BY <2>2, <1>4, <1>b DEF ParentsLive, Live
      <3> QED
        BY <3>1, <1>0, <1>1
    <2> QED
      BY <2>1, <2>2 DEF ParentsLive
  <1>10. ExitingChildless'
    BY <1>0, <1>1, <1>2 DEF ExitingChildless
  <1>11. InitForever'
    BY <1>0, <1>3, <1>4, <1>b, IndexFacts DEF InitForever, ExitLocked
  <1>12. AncestorsOlder'
    <2> SUFFICES ASSUME NEW t \in Slots, parent'[t] # None, parent'[t] # initproc
                 PROVE  pid'[parent'[t]] < pid'[t]
      BY DEF AncestorsOlder
    <2>1. t # z /\ parent'[t] = parent[t] /\ pid'[t] = pid[t]
      BY <1>4
    <2>2. parent[t] \in Slots /\ parent[t] # z
      BY <2>1, <1>3, <1>a DEF TypeOK
    <2>3. pid'[parent[t]] = pid[parent[t]]
      BY <2>2, <1>4
    <2> QED
      BY <2>1, <2>3, <1>b DEF AncestorsOlder
  <1>13. ZombieParentAwake'
    <2>1. \A t \in Slots : pc'[t] \notin {"exit_zombie", "wait_killed", "wait_sleep"}
      BY <1>0, <1>1, <1>2
    <2>2. ASSUME NEW t \in Slots, state'[t] = "ZOMBIE"
          PROVE  parent'[t] \in Slots /\ state'[parent'[t]] # "SLEEPING"
      <3>1. t # z /\ parent[t] \in Slots /\ state[parent[t]] # "SLEEPING" /\ parent[t] # z
        <4>1. t # z
          BY <2>2, <1>4
        <4>2. state[t] = "ZOMBIE"
          BY <4>1, <2>2, <1>4
        <4>3. parent[t] # None /\ state[parent[t]] # "SLEEPING"
          BY <4>2, <1>b DEF ZombieParentAwake
        <4>4. parent[t] \in Slots
          BY <4>3, <1>a DEF TypeOK
        <4> QED
          BY <4>1, <4>3, <4>4, <1>3
      <3> QED
        BY <3>1, <1>4
    <2> QED
      BY <2>1, <2>2, IndexFacts DEF ZombieParentAwake
  <1> QED
    BY <1>5, <1>6, <1>7, <1>8, <1>9, <1>10, <1>11, <1>12, <1>13 DEF IInv

\* sleep(p, &wait_lock): p has no ZOMBIE child when it falls asleep.
LEMMA WaitSleepStep ==
    ASSUME IInv, NEW p \in Slots, WaitSleep(p), TypeOK'
    PROVE  IInv'
  <1>a. TypeOK /\ LockHeld /\ DeadHaveNoThread /\ PidsUnique /\ ForkOwnsChild
    BY DEF IInv
  <1>b. ParentsLive /\ ExitingChildless /\ InitForever /\ AncestorsOlder
        /\ ZombieParentAwake
    BY DEF IInv
  <1>0. /\ UNCHANGED <<pid, parent, nextpid, i>> /\ wait_lock' = None
        /\ state[p] = "RUNNING" /\ pc[p] = "wait_sleep"
        /\ pc'[p] = "wait_wake" /\ \A q \in Slots : q # p => pc'[q] = pc[q]
    BY <1>a DEF TypeOK, WaitSleep, At, Goto, Release
  <1>1. /\ "wait_sleep" \in Locked /\ "exit_zombie" \in Locked
        /\ "wait_sleep" \notin Forking /\ Unlinked \subseteq Forking
        /\ "wait_wake" \notin Forking \union Locked \union Spinning
    BY DEF Locked, ExitLocked, WaitLocked, Spinning, Forking, Unlinked
  <1>2. wait_lock = p /\ \A q \in Slots \ {p} : pc[q] \notin Locked
    BY <1>0, <1>1, OneHolder
  <1>4. /\ state'[p] = "SLEEPING" /\ chan'[p] = p
        /\ \A t \in Slots : t # p => state'[t] = state[t] /\ chan'[t] = chan[t]
    BY <1>a DEF WaitSleep, TypeOK
  <1>3. \A t \in Slots : parent[t] = p => state[t] # "ZOMBIE"
    BY <1>0, <1>b DEF ZombieParentAwake
  <1>5. LockHeld'
    BY <1>0, <1>1, <1>2, <1>4, <1>a, IndexFacts DEF LockHeld, DeadHaveNoThread
  <1>6. DeadHaveNoThread'
    BY <1>0, <1>1, <1>4, <1>a DEF DeadHaveNoThread
  <1>7. PidsUnique' /\ AncestorsOlder'
    <2>1. \A t \in Slots : Live(t)' <=> Live(t)
      BY <1>0, <1>4 DEF Live
    <2> QED
      BY <2>1, <1>0, <1>a, <1>b DEF PidsUnique, AncestorsOlder
  <1>8. ForkOwnsChild'
    BY <1>0, <1>1, <1>4, <1>a DEF ForkOwnsChild
  <1>9. ParentsLive'
    <2>1. ASSUME NEW t \in Slots, parent'[t] # None
          PROVE  Live(t)' /\ state'[parent'[t]] \notin {"UNUSED", "USED", "ZOMBIE"}
      <3>1. parent[t] \in Slots /\ parent[t] # None
        BY <2>1, <1>0, <1>a DEF TypeOK
      <3> QED
        BY <3>1, <1>0, <1>3, <1>4, <1>b DEF ParentsLive, Live
    <2>2. ASSUME NEW t \in Slots, parent'[t] = None, Live(t)', t # initproc
          PROVE  \E q \in Slots : pc'[q] \in Unlinked /\ i'[q] = t
      <3>1. PICK q \in Slots : pc[q] \in Unlinked /\ i[q] = t
        BY <2>2, <1>0, <1>3, <1>4, <1>b DEF ParentsLive, Live
      <3> QED
        BY <3>1, <1>0, <1>1
    <2> QED
      BY <2>1, <2>2 DEF ParentsLive
  <1>10. ExitingChildless'
    BY <1>0, <1>b DEF ExitingChildless, Children
  <1>11. InitForever'
    BY <1>0, <1>4, <1>b, IndexFacts DEF InitForever, ExitLocked
  <1>12. ZombieParentAwake'
    <2>1. \A t \in Slots : pc'[t] # "exit_zombie"
      BY <1>0, <1>1, <1>2
    <2>2. ASSUME NEW t \in Slots, state'[t] = "ZOMBIE"
          PROVE  /\ parent'[t] # None
                 /\ state'[parent'[t]] # "SLEEPING"
                 /\ pc'[parent'[t]] \notin {"wait_killed", "wait_sleep"}
      <3>1. state[t] = "ZOMBIE" /\ parent[t] \in Slots /\ parent[t] # p
        BY <2>2, <1>3, <1>4, <1>a, <1>b, SMTT(60) DEF ZombieParentAwake, TypeOK
      <3> QED
        BY <3>1, <1>0, <1>4, <1>b DEF ZombieParentAwake
    <2> QED
      BY <2>1, <2>2 DEF ZombieParentAwake
  <1> QED
    BY <1>5, <1>6, <1>7, <1>8, <1>9, <1>10, <1>11, <1>12 DEF IInv

\* sleep() resumes: p->chan = 0.
LEMMA WaitWakeStep ==
    ASSUME IInv, NEW p \in Slots, WaitWake(p), TypeOK'
    PROVE  IInv'
  <1>a. TypeOK /\ LockHeld /\ DeadHaveNoThread /\ PidsUnique /\ ForkOwnsChild
    BY DEF IInv
  <1>b. ParentsLive /\ ExitingChildless /\ InitForever /\ AncestorsOlder
        /\ ZombieParentAwake
    BY DEF IInv
  <1>0. /\ UNCHANGED <<state, pid, parent, nextpid, wait_lock, i>>
        /\ state[p] = "RUNNING" /\ pc[p] = "wait_wake"
        /\ pc'[p] = "wait" /\ \A q \in Slots : q # p => pc'[q] = pc[q]
        /\ \A t \in Slots : t # p => chan'[t] = chan[t]
    BY <1>a DEF TypeOK, WaitWake, At, Goto
  <1>1. /\ "wait_wake" \notin Forking \union Locked \union Spinning
        /\ "wait" \notin Forking \union Locked \union Spinning
        /\ Unlinked \subseteq Forking
    BY DEF Locked, ExitLocked, WaitLocked, Spinning, Forking, Unlinked
  <1>2. LockHeld' /\ DeadHaveNoThread'
    BY <1>0, <1>1, <1>a DEF LockHeld, DeadHaveNoThread
  <1>3. PidsUnique' /\ AncestorsOlder'
    BY <1>0, <1>a, <1>b DEF PidsUnique, Live, AncestorsOlder
  <1>4. ForkOwnsChild'
    BY <1>0, <1>1, <1>a DEF ForkOwnsChild
  <1>5. ParentsLive'
    BY <1>0, <1>1, <1>b DEF ParentsLive, Live
  <1>6. ExitingChildless' /\ InitForever'
    BY <1>0, <1>b, IndexFacts DEF ExitingChildless, Children, InitForever, ExitLocked
  <1>7. ZombieParentAwake'
    BY <1>0, <1>a, <1>b DEF ZombieParentAwake, TypeOK
  <1> QED
    BY <1>2, <1>3, <1>4, <1>5, <1>6, <1>7 DEF IInv

----------------------------------------------------------------------------
\* The invariant speaks of the table, wait_lock, program points and indexes.
LEMMA QuietStep ==
    ASSUME IInv, TypeOK', UNCHANGED <<table, wait_lock, pc, i>>
    PROVE  IInv'
  BY DEF IInv, table, LockHeld, DeadHaveNoThread, PidsUnique, Live, ForkOwnsChild,
         ParentsLive, ExitingChildless, Children, InitForever, AncestorsOlder,
         ZombieParentAwake

LEMMA PlainFacts ==
    /\ {"user", "ret", "fork_scan", "exit", "wait", "kill_scan", "getprocs",
         "exit_spin", "wait_spin", "getprocs_spin"} \subseteq Plain \ {"fork_spin"}
    /\ "exit_spin" \notin {"user", "ret", "fork_scan", "exit", "wait", "kill_scan",
                            "getprocs", "wait_spin", "getprocs_spin"}
  BY DEF Plain, Spinning

\* usertrap(): system calls, faults and returns.
LEMMA TrapStep ==
    ASSUME IInv, NEW p \in Slots, Enter(p) \/ Leave(p), TypeOK'
    PROVE  IInv'
  <1>a. TypeOK
    BY DEF IInv
  <1>1. CASE TrapKilled(p)
    BY <1>1, LocalStep, PlainFacts DEF TrapKilled, At, Goto, table
  <1>2. CASE Fault(p)
    BY <1>2, LocalStep, PlainFacts DEF Fault, At, Goto, table
  <1>3. ASSUME NEW l \in {"fork_scan", "exit", "wait", "kill_scan", "getprocs"},
               NEW v, Syscall(p, l, v)
        PROVE  IInv'
    <2>1. \A q \in Slots \ {p} : i'[q] = i[q]
      BY <1>3, <1>a DEF Syscall, TypeOK
    <2> QED
      BY <1>3, <2>1, LocalStep, PlainFacts DEF Syscall, At, Goto, table
  <1>4. CASE UserSyscall(p)
    BY <1>3, <1>4 DEF UserSyscall
  <1>5. CASE Leave(p)
    BY <1>5, LocalStep, PlainFacts
    DEF Leave, SysReturn, SysReturnKilled, At, Goto, table
  <1> QED
    BY <1>1, <1>2, <1>4, <1>5 DEF Enter

\* The moves of init.c.
LEMMA InitMoveStep ==
    ASSUME IInv, InitSyscall \/ InitReturn, TypeOK'
    PROVE  IInv'
  <1>a. TypeOK /\ initproc \in Slots
    BY IndexFacts DEF IInv
  <1>1. ASSUME NEW l \in {"fork_scan", "wait"}, Syscall(initproc, l, 0)
        PROVE  IInv'
    <2>1. \A q \in Slots \ {initproc} : i'[q] = i[q]
      BY <1>1, <1>a DEF Syscall, TypeOK
    <2> QED
      BY <1>1, <1>a, <2>1, LocalStep, PlainFacts DEF Syscall, At, Goto, table
  <1>2. CASE InitReturn
    <2> DEFINE l == IF a0[initproc] < 0 THEN "exit" ELSE "user"
    <2>1. l \in Plain \ {"fork_spin"} /\ l # "exit_spin"
      BY PlainFacts
    <2>2. pc' = [pc EXCEPT ![initproc] = l]
      BY <1>2 DEF InitReturn, Goto
    <2>3. /\ state[initproc] = "RUNNING" /\ pc[initproc] = "ret"
          /\ UNCHANGED <<state, pid, parent, chan, nextpid, wait_lock, i>>
      BY <1>2 DEF InitReturn, At, table
    <2> HIDE DEF l
    <2> QED
      BY <1>a, <2>1, <2>2, <2>3, LocalStep, PlainFacts
  <1> QED
    BY <1>1, <1>2 DEF InitSyscall

\* The steps of fork(), exit(), wait(), kill() and getprocs() that only move p
\* outside the critical sections.
LEMMA OutsideStep ==
    ASSUME IInv, NEW p \in Slots, TypeOK',
           \/ ForkSkip(p) \/ KillSkip(p) \/ ExitPushOff(p) \/ WaitPushOff(p)
           \/ GetprocsBadCount(p) \/ GetprocsPushOff(p)
    PROVE  IInv'
  <1>a. TypeOK
    BY DEF IInv
  <1>1. ASSUME NEW v, NEW l \in {"fork_scan", "kill_scan", "getprocs"}, At(p, l),
               Return(p, v), UNCHANGED <<table, wait_lock>>
        PROVE  IInv'
    <2>1. \A q \in Slots \ {p} : i'[q] = i[q]
      BY <1>1, <1>a DEF Return, TypeOK
    <2> QED
      BY <1>1, <2>1, LocalStep, PlainFacts DEF Return, At, table
  <1>2. ASSUME NEW l \in {"fork_scan", "kill_scan"}, At(p, l), pc' = pc,
               i' = [i EXCEPT ![p] = @ + 1], UNCHANGED <<table, wait_lock>>
        PROVE  IInv'
    <2>1. \A q \in Slots \ {p} : i'[q] = i[q]
      BY <1>2, <1>a DEF TypeOK
    <2>2. pc' = [pc EXCEPT ![p] = l]
      BY <1>2, <1>a DEF At, TypeOK
    <2> QED
      BY <1>2, <2>1, <2>2, LocalStep, PlainFacts DEF At, table
  <1>3. CASE ForkSkip(p)
    BY <1>1, <1>2, <1>3 DEF ForkSkip
  <1>4. CASE KillSkip(p)
    BY <1>1, <1>2, <1>4 DEF KillSkip
  <1>5. CASE ExitPushOff(p)
    BY <1>5, LocalStep, PlainFacts DEF ExitPushOff, PushOff, At, Goto, table
  <1>6. CASE WaitPushOff(p)
    BY <1>6, LocalStep, PlainFacts DEF WaitPushOff, PushOff, At, Goto, table
  <1>7. CASE GetprocsPushOff(p)
    BY <1>7, LocalStep, PlainFacts DEF GetprocsPushOff, PushOff, At, Goto, table
  <1>8. CASE GetprocsBadCount(p)
    BY <1>1, <1>8 DEF GetprocsBadCount
  <1> QED
    BY <1>3, <1>4, <1>5, <1>6, <1>7, <1>8

\* The steps that take wait_lock, hold it over a scan or give it back, without
\* touching the table.
LEMMA InsideStep ==
    ASSUME IInv, NEW p \in Slots, TypeOK',
           \/ ExitAcquire(p) \/ WaitAcquire(p) \/ GetprocsAcquire(p)
           \/ WaitCopyoutFails(p) \/ WaitNoKids(p) \/ WaitHaveKids(p)
           \/ WaitNotKilled(p) \/ WaitKilled(p)
           \/ GetprocsVisit(p) \/ GetprocsCopyoutFails(p) \/ GetprocsDone(p)
    PROVE  IInv'
  <1>a. TypeOK
    BY DEF IInv
  <1>1. CASE ExitAcquire(p)
    BY <1>1, AcquireStep DEF ExitAcquire, At, Goto
  <1>2. CASE WaitAcquire(p)
    BY <1>2, AcquireStep DEF WaitAcquire, At, Goto
  <1>3. CASE GetprocsAcquire(p)
    BY <1>3, AcquireStep DEF GetprocsAcquire, At, Goto
  <1>4. ASSUME NEW v, NEW l \in {"wait_scan", "wait_killed", "getprocs_scan"},
               At(p, l), Return(p, v), Release, UNCHANGED table
        PROVE  IInv'
    <2>1. /\ pc' = [pc EXCEPT ![p] = "ret"] /\ wait_lock' = None
          /\ \A q \in Slots \ {p} : i'[q] = i[q]
      BY <1>4, <1>a DEF Return, Release, TypeOK
    <2> QED
      BY <1>4, <2>1, HolderStep DEF At
  <1>5. CASE WaitCopyoutFails(p)
    BY <1>4, <1>5 DEF WaitCopyoutFails
  <1>6. CASE WaitNoKids(p)
    BY <1>4, <1>6 DEF WaitNoKids
  <1>7. CASE WaitHaveKids(p)
    BY <1>7, HolderStep DEF WaitHaveKids, At, Goto
  <1>8. CASE WaitNotKilled(p)
    BY <1>8, HolderStep DEF WaitNotKilled, At, Goto
  <1>9. CASE WaitKilled(p)
    BY <1>4, <1>9 DEF WaitKilled
  <1>10. CASE GetprocsVisit(p)
    <2>1. \A q \in Slots \ {p} : i'[q] = i[q]
      BY <1>10, <1>a DEF GetprocsVisit, TypeOK
    <2>2. pc' = [pc EXCEPT ![p] = "getprocs_scan"]
      BY <1>10, <1>a DEF GetprocsVisit, At, TypeOK
    <2> QED
      BY <1>10, <2>1, <2>2, HolderStep DEF GetprocsVisit, At
  <1>11. CASE GetprocsCopyoutFails(p)
    BY <1>4, <1>11 DEF GetprocsCopyoutFails
  <1>12. CASE GetprocsDone(p)
    BY <1>4, <1>12 DEF GetprocsDone
  <1> QED
    BY <1>1, <1>2, <1>3, <1>5, <1>6, <1>7, <1>8, <1>9, <1>10, <1>11, <1>12

\* Every step of the system keeps the invariant.
LEMMA NextStep == ASSUME IInv, [Next]_vars PROVE IInv'
  <1>1. CASE UNCHANGED vars
    <2>1. TypeOK'
      BY <1>1 DEF IInv, TypeOK, vars, table
    <2> QED
      BY <1>1, <2>1, QuietStep DEF vars
  <1>2. CASE Next
    <2>t. TypeOK'
      BY <1>2, TypeStep
    <2>1. ASSUME NEW p \in Slots, Fork(p) PROVE IInv'
      BY <2>1, <2>t, OutsideStep, ForkAllocStep, ForkNoMemStep, ForkPushOffStep,
         ForkParentStep, ForkRunStep DEF Fork
    <2>2. ASSUME NEW p \in Slots, Exit(p) PROVE IInv'
      <3>1. CASE ExitInit(p)
        BY <3>1, <2>t, QuietStep DEF ExitInit
      <3> QED
        BY <3>1, <2>2, <2>t, OutsideStep, InsideStep, ExitReparentStep,
           ExitWakeParentStep, ExitZombieStep DEF Exit
    <2>3. ASSUME NEW p \in Slots, Wait(p) PROVE IInv'
      BY <2>3, <2>t, OutsideStep, InsideStep, WaitReapStep, WaitSleepStep,
         WaitWakeStep DEF Wait
    <2>4. ASSUME NEW p \in Slots, Kill(p) PROVE IInv'
      BY <2>4, <2>t, OutsideStep, KillStep DEF Kill
    <2>5. ASSUME NEW p \in Slots, Getprocs(p) PROVE IInv'
      BY <2>5, <2>t, OutsideStep, InsideStep DEF Getprocs
    <2>6. CASE Frozen
      BY <2>6, <2>t, QuietStep DEF Frozen, vars
    <2> QED
      BY <1>2, <2>t, <2>1, <2>2, <2>3, <2>4, <2>5, <2>6, SchedStep, TrapStep,
         InitMoveStep DEF Next
  <1> QED
    BY <1>1, <1>2

----------------------------------------------------------------------------
(* The theorems *)

\* The inductive invariant holds in every reachable state, for every number of
\* slots and CPUs and every set of arguments programs pass to the kernel.
THEOREM Invariant == Spec => []IInv
  BY InitIInv, NextStep, PTL DEF Spec

\* Every variable of the process table stays in its type.
THEOREM TypeCorrect == Spec => []TypeOK
  <1>1. IInv => TypeOK
    BY DEF IInv
  <1> QED
    BY <1>1, Invariant, PTL

\* No wakeup is lost between exit() and wait(): no ZOMBIE has a sleeping parent.
THEOREM NoLostWakeup == Spec => []ZombieParentAwake
  <1>1. IInv => ZombieParentAwake
    BY DEF IInv
  <1> QED
    BY <1>1, Invariant, PTL

\* Two processes never share a pid.
THEOREM UniquePids == Spec => []PidsUnique
  <1>1. IInv => PidsUnique
    BY DEF IInv
  <1> QED
    BY <1>1, Invariant, PTL

\* Every process but init and a child still inside kfork() has a live parent.
THEOREM NoOrphans == Spec => []ParentsLive
  <1>1. IInv => ParentsLive
    BY DEF IInv
  <1> QED
    BY <1>1, Invariant, PTL

\* Parent pointers lead to older processes or to init, so they have no cycle.
THEOREM ProcessTree == Spec => []AncestorsOlder
  <1>1. IInv => AncestorsOlder
    BY DEF IInv
  <1> QED
    BY <1>1, Invariant, PTL

----------------------------------------------------------------------------
(* What a step may do to a pid *)

\* Only fork() and wait() change a pid: fork() of a free slot, wait() of the
\* ZOMBIE child it returns.
LEMMA PidChange ==
    ASSUME IInv, Next, NEW s \in Slots, pid'[s] # pid[s]
    PROVE  \/ state[s] = "UNUSED" /\ pid'[s] = nextpid
           \/ /\ pid'[s] = 0 /\ state[s] = "ZOMBIE" /\ state'[s] = "UNUSED"
              /\ pc[parent[s]] = "wait_scan" /\ a0'[parent[s]] = pid[s]
  <1>a. TypeOK /\ PidsUnique
    BY DEF IInv
  <1>1. ASSUME NEW p \in Slots, Fork(p)
        PROVE  state[s] = "UNUSED" /\ pid'[s] = nextpid
    <2>1. CASE ForkAlloc(p)
      BY <2>1, <1>a DEF ForkAlloc, TypeOK
    <2>2. CASE ForkNoMem(p)
      <3>1. state[i[p]] = "UNUSED" /\ pid' = [pid EXCEPT ![i[p]] = 0] /\ i[p] \in Index
            /\ i[p] <= NPROC
        BY <2>2, <1>a DEF ForkNoMem, freeproc, TypeOK
      <3>2. s = i[p]
        BY <3>1, <1>a DEF TypeOK
      <3>3. pid[s] = 0
        BY <3>1, <3>2, <1>a DEF PidsUnique, Live
      <3> QED
        BY <3>1, <3>2, <3>3, <1>a DEF TypeOK
    <2> QED
      BY <1>1, <2>1, <2>2 DEF Fork, ForkSkip, ForkPushOff, PushOff, ForkParent,
                              ForkRun, table
  <1>2. ASSUME NEW p \in Slots, Wait(p)
        PROVE  /\ pid'[s] = 0 /\ state[s] = "ZOMBIE" /\ state'[s] = "UNUSED"
               /\ pc[parent[s]] = "wait_scan" /\ a0'[parent[s]] = pid[s]
    <2>1. CASE WaitReap(p)
      <3>1. PICK z \in Slots : /\ parent[z] = p /\ state[z] = "ZOMBIE"
                               /\ freeproc(z) /\ Return(p, pid[z])
        BY <2>1 DEF WaitReap, ZombieChildren, Children
      <3>2. s = z /\ pid'[s] = 0 /\ state'[s] = "UNUSED"
        BY <3>1, <1>a DEF freeproc, TypeOK
      <3>3. pc[p] = "wait_scan" /\ a0'[p] = pid[z]
        BY <2>1, <3>1, <1>a DEF WaitReap, At, Return, TypeOK
      <3> QED
        BY <3>1, <3>2, <3>3
    <2> QED
      BY <1>2, <2>1 DEF Wait, WaitPushOff, PushOff, WaitAcquire, WaitCopyoutFails,
                        WaitNoKids, WaitHaveKids, WaitNotKilled, WaitKilled, WaitSleep,
                        WaitWake, table
  <1>3. ASSUME NEW p \in Slots, Exit(p) PROVE pid' = pid
    BY <1>3 DEF Exit, ExitInit, ExitPushOff, PushOff, ExitAcquire, ExitReparent,
                ExitWakeParent, ExitZombie, table
  <1>4. ASSUME NEW p \in Slots, Kill(p) \/ Getprocs(p) PROVE pid' = pid
    BY <1>4 DEF Kill, KillSkip, KillFound, Getprocs, GetprocsBadCount, GetprocsPushOff,
                PushOff, GetprocsAcquire, GetprocsVisit, GetprocsCopyoutFails,
                GetprocsDone, table
  <1>5. ASSUME NEW p \in Slots, Dispatch(p) \/ Preempt(p) \/ Enter(p) \/ Leave(p)
        PROVE  pid' = pid
    BY <1>5 DEF Dispatch, Preempt, Enter, TrapKilled, Fault, UserSyscall, Syscall,
                Leave, SysReturn, SysReturnKilled, table
  <1>6. ASSUME InitSyscall \/ InitReturn \/ Frozen PROVE pid' = pid
    BY <1>6 DEF InitSyscall, Syscall, InitReturn, Frozen, vars, table
  <1> QED
    BY <1>1, <1>2, <1>3, <1>4, <1>5, <1>6 DEF Next

\* A process leaves the table only as a ZOMBIE, through its own parent's
\* wait(), which returns its pid.
THEOREM ReapOnce == Spec => ReapedByParent
  <1>1. IInv /\ [Next]_vars => [ReapStep]_vars
    <2> SUFFICES ASSUME IInv, Next PROVE ReapStep
      OBVIOUS
    <2> QED
      BY PidChange DEF ReapStep, Live
  <1> QED
    BY <1>1, Invariant, PTL DEF Spec, ReapedByParent

\* allocpid() never hands out a pid that was used before.
THEOREM FreshPids == Spec => PidsFresh
  <1>1. IInv /\ [Next]_vars => [FreshStep]_vars
    <2> SUFFICES ASSUME IInv, Next PROVE FreshStep
      OBVIOUS
    <2>1. nextpid >= nextpid
      BY DEF IInv, TypeOK
    <2> QED
      BY <2>1, PidChange DEF FreshStep
  <1> QED
    BY <1>1, Invariant, PTL DEF Spec, PidsFresh

=============================================================================
