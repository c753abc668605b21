----------------------------- MODULE LogProofs -----------------------------
(***************************************************************************)
(* Proof that the log of kernel/log.c makes file system operations atomic: *)
(* Log implements AtomicDisk, and begin_op() reserves enough of the log.   *)
(***************************************************************************)
EXTENDS Log, FiniteSetTheorems, TLAPS

\* Block b has an entry in the in-memory header that is not yet installed.
Pending(b) ==
    \E t \in 1..lh_n :
        /\ lh_block[t] = b
        /\ \A p \in Procs : pc[p] # "clear" /\ (pc[p] = "install" => tail[p] <= t)

\* No block has two entries in the log.
NoDuplicates ==
    /\ \A t, u \in 1..lh_n : lh_block[t] = lh_block[u] => t = u
    /\ \A t, u \in 1..hd_n : hd_block[t] = hd_block[u] => t = u

\* While the first process recovers there are no others.
BootAlone ==
    /\ pc[initproc] # "off"
    /\ \A p \in Procs : p # initproc => pc[p] \notin Boot /\ (pc[p] = "off" <=> ~Up)
    /\ ~Up => outstanding = 0 /\ committing = 0

\* log.outstanding counts the operations, and commit() runs alone.
Exclusive ==
    /\ outstanding = Cardinality(OpenOps)
    /\ \A p \in Procs : pc[p] \in Committing => committing = 1
    /\ \A p, q \in Procs : pc[p] \in Committing /\ pc[q] \in Committing => p = q
    /\ committing = 1 => OpenOps = {}
    /\ Up /\ lh_n > 0 => outstanding > 0 \/ committing = 1

\* A locked buffer belongs to a process inside log_write(), and to that alone.
Holders ==
    /\ \A b \in Blocks : holder[b] # "none" => pc[holder[b]] = "logging"
    /\ \A b, c \in Blocks : holder[b] = holder[c] /\ holder[b] # "none" => b = c

\* How far commit() has got.
CommitPhase ==
    /\ \A p \in Procs : pc[p] \in {"write_log", "install"} => tail[p] <= lh_n
    /\ \A p \in Procs : pc[p] \in {"write_log", "write_head"} =>
        \A t \in 1..lh_n :
            pc[p] = "write_head" \/ t < tail[p] => logdata[t] = View(lh_block[t])
    /\ \A p \in Procs : pc[p] \in {"install", "clear"} =>
        /\ hd_n = lh_n
        /\ \A t \in 1..lh_n :
            /\ hd_block[t] = lh_block[t]
            /\ logdata[t] = View(lh_block[t])
            /\ pc[p] = "clear" \/ t < tail[p] => home[lh_block[t]] = logdata[t]
    /\ \A p \in Procs : pc[p] = "write_head" => tail[p] = 1 /\ lh_n > 0
    /\ \A p \in Procs : pc[p] = "done" => lh_n = 0
    /\ Up /\ (\A p \in Procs : pc[p] \notin {"install", "clear"}) => hd_n = 0

\* How far recovery has got.
BootPhase ==
    /\ pc[initproc] \in {"recover", "recover_clear"} =>
        /\ lh_n = hd_n
        /\ \A t \in 1..lh_n :
            /\ lh_block[t] = hd_block[t]
            /\ pc[initproc] = "recover_clear" \/ t < tail[initproc] =>
                home[lh_block[t]] = logdata[t]
    /\ pc[initproc] = "recover" => tail[initproc] <= lh_n
    /\ pc[initproc] = "read_head" => tail[initproc] = 1
    /\ ~Up => \A b \in Blocks : pin[b] = 0 /\ cache[b] \in {NotCached, home[b]}

\* A buffer that differs from its home block is pinned or locked.
DirtyPinned ==
    Up => \A b \in Blocks :
        /\ pin[b] = IF Pending(b) THEN 1 ELSE 0
        /\ ~Pending(b) /\ holder[b] = "none" => cache[b] \in {NotCached, home[b]}
        /\ Pending(b) \/ holder[b] # "none" => cache[b] # NotCached

LogInv ==
    /\ TypeOK
    /\ NoDuplicates
    /\ BootAlone
    /\ Exclusive
    /\ Holders
    /\ CommitPhase
    /\ BootPhase
    /\ DirtyPinned

----------------------------------------------------------------------------
(* Types *)

LEMMA TailFacts ==
    /\ 1 \in Tails /\ 0 \in 0..LOGBLOCKS
    /\ \A n \in 0..LOGBLOCKS : \A t \in 1..n : t \in Tails
    /\ \A n \in 0..LOGBLOCKS, t \in Tails : t < n => t + 1 \in Tails
    /\ \A n \in 0..LOGBLOCKS : n < LOGBLOCKS => n + 1 \in Tails /\ n + 1 \in 0..LOGBLOCKS
  BY LogAssumption DEF Tails

LEMMA PCFacts ==
    {"read_head", "recover", "recover_clear", "write_log", "write_head", "install",
     "clear", "done", "op", "logging", "off", "idle", "begin", "asleep"} \subseteq PC
  BY DEF PC, Boot, Committing, InOp

LEMMA ResetType ==
    /\ Reset.cache \in [Blocks -> Values \union {NotCached}]
    /\ Reset.pin \in [Blocks -> Int]
    /\ Reset.holder \in [Blocks -> Procs \union {"none"}]
    /\ Reset.pc \in [Procs -> PC]
    /\ Reset.tail \in [Procs -> Tails]
    /\ Reset.wrote \in [Procs -> SUBSET Blocks]
  BY TailFacts, PCFacts DEF Reset

LEMMA GotoType ==
    ASSUME TypeOK, NEW p \in Procs, NEW l \in PC, Goto(p, l)
    PROVE  pc' \in [Procs -> PC]
  BY DEF TypeOK, Goto

LEMMA WakeupType ==
    ASSUME TypeOK, NEW p \in Procs, NEW l \in PC, WakeupAnd(p, l)
    PROVE  pc' \in [Procs -> PC]
  BY PCFacts DEF TypeOK, WakeupAnd

LEMMA LoopType ==
    ASSUME TypeOK, NEW p \in Procs, NEW l \in PC, LoopOr(p, l)
    PROVE  pc' \in [Procs -> PC] /\ tail' \in [Procs -> Tails]
  <1>1. CASE tail[p] < lh_n
    <2>1. tail[p] + 1 \in Tails
      BY <1>1, TailFacts DEF TypeOK
    <2> QED
      BY <1>1, <2>1 DEF TypeOK, LoopOr
  <1>2. CASE ~(tail[p] < lh_n)
    BY <1>2, TailFacts, GotoType DEF TypeOK, LoopOr
  <1> QED
    BY <1>1, <1>2

LEMMA HeadType ==
    ASSUME TypeOK, NEW n \in 0..LOGBLOCKS, write_head(n)
    PROVE  hd_n' \in 0..LOGBLOCKS /\ hd_block' \in [Tails -> Blocks]
  BY DEF TypeOK, write_head

LEMMA ViewType == ASSUME TypeOK, NEW b \in Blocks PROVE View(b) \in Values
  BY DEF TypeOK, View

LEMMA InstallType ==
    ASSUME TypeOK, NEW p \in Procs, Install(p)
    PROVE  /\ home' \in [Blocks -> Values]
           /\ cache' \in [Blocks -> Values \union {NotCached}]
           /\ lh_block[tail[p]] \in Blocks
  BY DEF TypeOK, Install

LEMMA TypeInit == Init => TypeOK
  BY ResetType, TailFacts DEF Init, TypeOK

LEMMA TypeStep == ASSUME TypeOK, Next PROVE TypeOK'
  <1> USE DEF disk, buffers, header
  <1>1. ASSUME NEW p \in Procs, Call(p) \/ BeginSleep(p) PROVE TypeOK'
    <2>1. pc' \in [Procs -> PC]
      BY <1>1, GotoType, PCFacts DEF Call, BeginSleep
    <2> QED
      BY <1>1, <2>1 DEF TypeOK, Call, BeginSleep
  <1>2. ASSUME NEW p \in Procs, BeginGo(p) PROVE TypeOK'
    <2>1. pc' \in [Procs -> PC]
      BY <1>2, GotoType, PCFacts DEF BeginGo
    <2>2. wrote' \in [Procs -> SUBSET Blocks]
      BY <1>2 DEF TypeOK, BeginGo
    <2> QED
      BY <1>2, <2>1, <2>2 DEF TypeOK, BeginGo
  <1>3. ASSUME NEW p \in Procs, NEW b \in Blocks, NEW v \in Values, Modify(p, b, v)
        PROVE  TypeOK'
    <2>1. pc' \in [Procs -> PC]
      BY <1>3, GotoType, PCFacts DEF Modify
    <2>2. wrote' \in [Procs -> SUBSET Blocks]
      BY <1>3 DEF TypeOK, Modify
    <2>3. holder' \in [Blocks -> Procs \union {"none"}]
      BY <1>3 DEF TypeOK, Modify
    <2> QED
      BY <1>3, <2>1, <2>2, <2>3 DEF TypeOK, Modify
  <1>4. ASSUME NEW p \in Procs, LogWritePanic(p) PROVE TypeOK'
    BY <1>4 DEF TypeOK, LogWritePanic
  <1>5. ASSUME NEW p \in Procs, NEW b \in Blocks, log_write(p, b) PROVE TypeOK'
    <2>1. pc' \in [Procs -> PC]
      BY <1>5, GotoType, PCFacts DEF log_write
    <2>2. lh_n' \in 0..LOGBLOCKS
      BY <1>5, TailFacts, LogAssumption DEF TypeOK, log_write, LogWritePanics
    <2>3. lh_block' \in [Tails -> Blocks]
      BY <1>5 DEF TypeOK, log_write
    <2>4. pin' \in [Blocks -> Int]
      BY <1>5 DEF TypeOK, log_write
    <2>5. holder' \in [Blocks -> Procs \union {"none"}]
      BY <1>5 DEF TypeOK, log_write
    <2> QED
      BY <1>5, <2>1, <2>2, <2>3, <2>4, <2>5 DEF TypeOK, log_write
  <1>6. ASSUME NEW p \in Procs, EndOther(p) PROVE TypeOK'
    <2>1. pc' \in [Procs -> PC]
      BY <1>6, WakeupType, PCFacts DEF EndOther
    <2>2. wrote' \in [Procs -> SUBSET Blocks]
      BY <1>6 DEF TypeOK, EndOther
    <2> QED
      BY <1>6, <2>1, <2>2 DEF TypeOK, EndOther
  <1>7. ASSUME NEW p \in Procs, EndLast(p) PROVE TypeOK'
    <2>0. (IF lh_n > 0 THEN "write_log" ELSE "done") \in PC
      BY PCFacts
    <2>1. pc' \in [Procs -> PC]
      BY <1>7, <2>0, GotoType DEF EndLast
    <2>2. tail' \in [Procs -> Tails]
      BY <1>7, TailFacts DEF TypeOK, EndLast
    <2>3. wrote' \in [Procs -> SUBSET Blocks]
      BY <1>7 DEF TypeOK, EndLast
    <2> QED
      BY <1>7, <2>1, <2>2, <2>3 DEF TypeOK, EndLast
  <1>8. ASSUME NEW p \in Procs, write_log(p) PROVE TypeOK'
    <2>1. pc' \in [Procs -> PC] /\ tail' \in [Procs -> Tails]
      BY <1>8, LoopType, PCFacts DEF write_log
    <2>2. lh_block[tail[p]] \in Blocks /\ View(lh_block[tail[p]]) \in Values
      BY ViewType DEF TypeOK
    <2>3. logdata' \in [Tails -> Values]
      BY <1>8, <2>2 DEF TypeOK, write_log
    <2>4. cache' \in [Blocks -> Values \union {NotCached}]
      BY <1>8, <2>2 DEF TypeOK, write_log
    <2> QED
      BY <1>8, <2>1, <2>3, <2>4 DEF TypeOK, write_log
  <1>9. ASSUME NEW p \in Procs, CommitHead(p) PROVE TypeOK'
    <2>1. pc' \in [Procs -> PC]
      BY <1>9, GotoType, PCFacts DEF CommitHead
    <2>2. hd_n' \in 0..LOGBLOCKS /\ hd_block' \in [Tails -> Blocks]
      BY <1>9, HeadType DEF CommitHead, TypeOK
    <2> QED
      BY <1>9, <2>1, <2>2 DEF TypeOK, CommitHead
  <1>10. ASSUME NEW p \in Procs, install_trans(p) PROVE TypeOK'
    <2>1. pc' \in [Procs -> PC] /\ tail' \in [Procs -> Tails]
      BY <1>10, LoopType, PCFacts DEF install_trans
    <2>2. /\ home' \in [Blocks -> Values]
          /\ cache' \in [Blocks -> Values \union {NotCached}]
      BY <1>10, InstallType DEF install_trans
    <2>3. pin' \in [Blocks -> Int]
      BY <1>10, InstallType DEF TypeOK, install_trans
    <2> QED
      BY <1>10, <2>1, <2>2, <2>3 DEF TypeOK, install_trans
  <1>11. ASSUME NEW p \in Procs, ClearHead(p) PROVE TypeOK'
    <2>1. pc' \in [Procs -> PC]
      BY <1>11, GotoType, PCFacts DEF ClearHead
    <2>2. hd_n' \in 0..LOGBLOCKS /\ hd_block' \in [Tails -> Blocks]
      BY <1>11, HeadType, TailFacts DEF ClearHead
    <2> QED
      BY <1>11, <2>1, <2>2, TailFacts DEF TypeOK, ClearHead
  <1>12. ASSUME NEW p \in Procs, Committed(p) PROVE TypeOK'
    <2>1. pc' \in [Procs -> PC]
      BY <1>12, WakeupType, PCFacts DEF Committed
    <2> QED
      BY <1>12, <2>1 DEF TypeOK, Committed
  <1>13. CASE read_head
    <2>0. (IF hd_n > 0 THEN "recover" ELSE "recover_clear") \in PC
      BY PCFacts
    <2>1. pc' \in [Procs -> PC]
      BY <1>13, <2>0, GotoType, ProcsAssumption DEF read_head
    <2>2. lh_block' \in [Tails -> Blocks]
      BY <1>13 DEF TypeOK, read_head
    <2> QED
      BY <1>13, <2>1, <2>2 DEF TypeOK, read_head
  <1>14. CASE RecoverInstall
    <2>1. pc' \in [Procs -> PC] /\ tail' \in [Procs -> Tails]
      BY <1>14, LoopType, PCFacts, ProcsAssumption DEF RecoverInstall
    <2>2. /\ home' \in [Blocks -> Values]
          /\ cache' \in [Blocks -> Values \union {NotCached}]
      BY <1>14, InstallType, ProcsAssumption DEF RecoverInstall
    <2> QED
      BY <1>14, <2>1, <2>2 DEF TypeOK, RecoverInstall
  <1>15. CASE RecoverClear
    <2>1. pc' \in [Procs -> PC]
      BY <1>15, PCFacts DEF RecoverClear
    <2>2. hd_n' \in 0..LOGBLOCKS /\ hd_block' \in [Tails -> Blocks]
      BY <1>15, HeadType, TailFacts DEF RecoverClear
    <2> QED
      BY <1>15, <2>1, <2>2, TailFacts DEF TypeOK, RecoverClear
  <1>16. ASSUME NEW b \in Blocks, Fetch(b) \/ Evict(b) PROVE TypeOK'
    <2>1. cache' \in [Blocks -> Values \union {NotCached}]
      BY <1>16 DEF TypeOK, Fetch, Evict
    <2> QED
      BY <1>16, <2>1 DEF TypeOK, Fetch, Evict
  <1>17. CASE Crash
    BY <1>17, ResetType, TailFacts DEF TypeOK, Crash
  <1> QED
    BY <1>1, <1>2, <1>3, <1>4, <1>5, <1>6, <1>7, <1>8, <1>9, <1>10, <1>11, <1>12,
       <1>13, <1>14, <1>15, <1>16, <1>17
    DEF Next, Op, EndOp, CommitStep, Recover

----------------------------------------------------------------------------
(* Counting operations *)

LEMMA OpenFinite == IsFiniteSet(OpenOps) /\ Cardinality(OpenOps) \in Nat
  <1>1. OpenOps \subseteq Procs
    BY DEF OpenOps
  <1>2. IsFiniteSet(OpenOps)
    BY <1>1, ProcsAssumption, FS_Subset
  <1> QED
    BY <1>2, FS_CardinalityType

LEMMA OpenAdd ==
    ASSUME NEW p \in Procs, p \notin OpenOps, OpenOps' = OpenOps \union {p}
    PROVE  Cardinality(OpenOps') = Cardinality(OpenOps) + 1
  BY OpenFinite, FS_AddElement

LEMMA OpenRemove ==
    ASSUME NEW p \in OpenOps, OpenOps' = OpenOps \ {p}
    PROVE  /\ Cardinality(OpenOps') = Cardinality(OpenOps) - 1
           /\ Cardinality(OpenOps) = 1 => OpenOps' = {}
  <1>1. /\ IsFiniteSet(OpenOps \ {p})
        /\ Cardinality(OpenOps \ {p}) = Cardinality(OpenOps) - 1
    BY OpenFinite, FS_RemoveElement
  <1>2. Cardinality(OpenOps) = 1 => OpenOps \ {p} = {}
    BY <1>1, FS_EmptySet
  <1> QED
    BY <1>1, <1>2

LEMMA OpenEmpty == Cardinality(OpenOps) = 0 <=> OpenOps = {}
  BY OpenFinite, FS_EmptySet

----------------------------------------------------------------------------
(* Steps outside commit(), recovery and log_write() *)

\* Program points at which a process has no hold on buffers, log or disk.
Soft == {"idle", "begin", "asleep", "op", "done"}

\* A step that moves processes between soft points and changes no buffer, no
\* block and no header keeps what the invariant says about those.
LEMMA SoftStep ==
    ASSUME LogInv, TypeOK', UNCHANGED <<disk, buffers, header, tail>>,
           \A q \in Procs : \/ pc'[q] = pc[q]
                            \/ pc[q] \in Soft /\ pc'[q] \in Soft \ {"done"}
    PROVE  /\ NoDuplicates' /\ Holders' /\ CommitPhase' /\ BootPhase' /\ DirtyPinned'
           /\ Up' = Up
           /\ \A q \in Procs : pc'[q] \in Boot \union {"off"} <=> pc[q] \in Boot \union {"off"}
  <1> USE ProcsAssumption DEF disk, buffers, header
  <1>i. TypeOK /\ NoDuplicates /\ Holders /\ CommitPhase /\ BootPhase /\ DirtyPinned
    BY DEF LogInv
  <1>s. \A q \in Procs : \A l \in PC \ Soft : pc'[q] = l <=> pc[q] = l
    BY DEF Soft
  <1>l. {"off", "logging", "write_log", "write_head", "install", "clear", "read_head",
         "recover", "recover_clear"} \subseteq PC \ Soft
    BY DEF PC, Soft, Boot, Committing, InOp
  <1>d. \A q \in Procs : pc'[q] = "done" => pc[q] = "done"
    OBVIOUS
  <1>1. Up' = Up /\ \A q \in Procs : pc'[q] \in Boot \union {"off"}
                                     <=> pc[q] \in Boot \union {"off"}
    BY <1>s, <1>l DEF Up, Boot
  <1>2. NoDuplicates'
    BY <1>i DEF NoDuplicates
  <1>3. Holders'
    <2>1. \A b \in Blocks : holder[b] # "none" => holder[b] \in Procs
      BY <1>i DEF TypeOK
    <2> QED
      BY <1>i, <1>s, <1>l, <2>1 DEF Holders
  <1>v. \A b : View(b)' = View(b)
    BY DEF View
  <1>4. CommitPhase'
    BY <1>i, <1>1, <1>s, <1>l, <1>d, <1>v DEF CommitPhase
  <1>5. BootPhase'
    BY <1>i, <1>1, <1>s, <1>l DEF BootPhase
  <1>p. \A b : Pending(b)' <=> Pending(b)
    BY <1>s, <1>l DEF Pending
  <1>6. DirtyPinned'
    BY <1>i, <1>1, <1>p DEF DirtyPinned
  <1> QED
    BY <1>1, <1>2, <1>3, <1>4, <1>5, <1>6

\* begin_op() called or asleep, or panic: nothing but the caller moves.
LEMMA WaitStep ==
    ASSUME LogInv, TypeOK', NEW p \in Procs,
           Call(p) \/ BeginSleep(p) \/ LogWritePanic(p)
    PROVE  LogInv'
  <1> USE ProcsAssumption DEF disk, buffers, header
  <1>i. TypeOK /\ BootAlone /\ Exclusive
    BY DEF LogInv
  <1>0. /\ UNCHANGED <<disk, buffers, header, tail, outstanding, committing>>
        /\ \A q \in Procs :
            \/ pc'[q] = pc[q]
            \/ pc[q] \in {"idle", "begin"} /\ pc'[q] \in {"begin", "asleep"}
    BY <1>i DEF TypeOK, Call, BeginSleep, LogWritePanic, At, Goto
  <1>1. \A q \in Procs : \/ pc'[q] = pc[q]
                         \/ pc[q] \in Soft /\ pc'[q] \in Soft \ {"done"}
    BY <1>0 DEF Soft
  <1>2. /\ NoDuplicates' /\ Holders' /\ CommitPhase' /\ BootPhase' /\ DirtyPinned'
        /\ Up' = Up
        /\ \A q \in Procs : pc'[q] \in Boot \union {"off"} <=> pc[q] \in Boot \union {"off"}
    BY <1>0, <1>1, SoftStep
  <1>3. \A q \in Procs : /\ pc'[q] \in InOp <=> pc[q] \in InOp
                         /\ pc'[q] \in Committing <=> pc[q] \in Committing
                         /\ pc'[q] \in Boot <=> pc[q] \in Boot
                         /\ pc'[q] = "off" <=> pc[q] = "off"
    BY <1>0 DEF InOp, Committing, Boot
  <1>4. OpenOps' = OpenOps
    BY <1>3 DEF OpenOps
  <1>5. BootAlone'
    BY <1>i, <1>0, <1>2, <1>3 DEF BootAlone
  <1>6. Exclusive'
    BY <1>i, <1>0, <1>2, <1>3, <1>4 DEF Exclusive
  <1> QED
    BY <1>2, <1>5, <1>6 DEF LogInv

\* begin_op() succeeds: one more operation.
LEMMA BeginStep ==
    ASSUME LogInv, TypeOK', NEW p \in Procs, BeginGo(p)
    PROVE  LogInv'
  <1> USE ProcsAssumption DEF disk, buffers, header
  <1>i. TypeOK /\ BootAlone /\ Exclusive
    BY DEF LogInv
  <1>0. /\ UNCHANGED <<disk, buffers, header, tail, committing>>
        /\ outstanding' = outstanding + 1 /\ committing # 1
        /\ pc[p] = "begin" /\ pc'[p] = "op"
        /\ \A q \in Procs : q # p => pc'[q] = pc[q]
    BY <1>i DEF TypeOK, BeginGo, MustWait, At, Goto
  <1>1. \A q \in Procs : \/ pc'[q] = pc[q]
                         \/ pc[q] \in Soft /\ pc'[q] \in Soft \ {"done"}
    BY <1>0 DEF Soft
  <1>2. /\ NoDuplicates' /\ Holders' /\ CommitPhase' /\ BootPhase' /\ DirtyPinned'
        /\ Up' = Up
    BY <1>0, <1>1, SoftStep
  <1>3. \A q \in Procs : /\ pc'[q] \in InOp <=> pc[q] \in InOp \/ q = p
                         /\ pc'[q] \in Committing <=> pc[q] \in Committing
                         /\ pc'[q] \in Boot <=> pc[q] \in Boot
                         /\ pc'[q] = "off" <=> pc[q] = "off"
    BY <1>0 DEF InOp, Committing, Boot
  <1>4. p \notin OpenOps /\ OpenOps' = OpenOps \union {p}
    BY <1>0, <1>3 DEF OpenOps, InOp
  <1>u. Up
    BY <1>i, <1>0 DEF BootAlone, Up, Boot
  <1>5. BootAlone'
    BY <1>i, <1>0, <1>2, <1>3, <1>u DEF BootAlone
  <1>6. Exclusive'
    <2>1. outstanding' = Cardinality(OpenOps') /\ outstanding \in Nat
      BY <1>i, <1>0, <1>4, OpenAdd, OpenFinite DEF Exclusive
    <2> QED
      BY <1>i, <1>0, <1>3, <2>1 DEF Exclusive
  <1> QED
    BY <1>2, <1>5, <1>6 DEF LogInv

\* end_op() of an operation that is not the last.
LEMMA EndOtherStep ==
    ASSUME LogInv, TypeOK', NEW p \in Procs, EndOther(p)
    PROVE  LogInv'
  <1> USE ProcsAssumption DEF disk, buffers, header
  <1>i. TypeOK /\ BootAlone /\ Exclusive
    BY DEF LogInv
  <1>0. /\ UNCHANGED <<disk, buffers, header, tail, committing>>
        /\ outstanding' = outstanding - 1 /\ committing = 0 /\ outstanding # 1
        /\ pc[p] = "op" /\ pc'[p] = "idle"
        /\ \A q \in Procs : q # p => \/ pc'[q] = pc[q]
                                     \/ pc[q] = "asleep" /\ pc'[q] = "begin"
    BY <1>i DEF TypeOK, EndOther, At, WakeupAnd
  <1>1. \A q \in Procs : \/ pc'[q] = pc[q]
                         \/ pc[q] \in Soft /\ pc'[q] \in Soft \ {"done"}
    BY <1>0 DEF Soft
  <1>2. /\ NoDuplicates' /\ Holders' /\ CommitPhase' /\ BootPhase' /\ DirtyPinned'
        /\ Up' = Up
    BY <1>0, <1>1, SoftStep
  <1>3. \A q \in Procs : /\ pc'[q] \in InOp <=> pc[q] \in InOp /\ q # p
                         /\ pc'[q] \in Committing <=> pc[q] \in Committing
                         /\ pc'[q] \in Boot <=> pc[q] \in Boot
                         /\ pc'[q] = "off" <=> pc[q] = "off"
    BY <1>0 DEF InOp, Committing, Boot
  <1>4. p \in OpenOps /\ OpenOps' = OpenOps \ {p}
    BY <1>0, <1>3 DEF OpenOps, InOp
  <1>u. Up
    BY <1>i, <1>0 DEF BootAlone, Up, Boot
  <1>5. BootAlone'
    BY <1>i, <1>0, <1>2, <1>3, <1>u DEF BootAlone
  <1>6. Exclusive'
    <2>1. outstanding' = Cardinality(OpenOps') /\ outstanding \in Nat
      BY <1>i, <1>0, <1>4, OpenRemove, OpenFinite DEF Exclusive
    <2>2. outstanding # 0
      BY <1>i, <1>4, OpenEmpty DEF Exclusive
    <2> QED
      BY <1>i, <1>0, <1>3, <2>1, <2>2 DEF Exclusive
  <1> QED
    BY <1>2, <1>5, <1>6 DEF LogInv

\* The commit is over.
LEMMA CommittedStep ==
    ASSUME LogInv, TypeOK', NEW p \in Procs, Committed(p)
    PROVE  LogInv'
  <1> USE ProcsAssumption DEF disk, buffers, header
  <1>i. TypeOK /\ BootAlone /\ Exclusive /\ CommitPhase
    BY DEF LogInv
  <1>0. /\ UNCHANGED <<disk, buffers, header, tail, outstanding>>
        /\ committing' = 0
        /\ pc[p] = "done" /\ pc'[p] = "idle"
        /\ \A q \in Procs : q # p => \/ pc'[q] = pc[q]
                                     \/ pc[q] = "asleep" /\ pc'[q] = "begin"
    BY <1>i DEF TypeOK, Committed, At, WakeupAnd
  <1>1. \A q \in Procs : \/ pc'[q] = pc[q]
                         \/ pc[q] \in Soft /\ pc'[q] \in Soft \ {"done"}
    BY <1>0 DEF Soft
  <1>2. /\ NoDuplicates' /\ Holders' /\ CommitPhase' /\ BootPhase' /\ DirtyPinned'
        /\ Up' = Up
    BY <1>0, <1>1, SoftStep
  <1>3. \A q \in Procs : /\ pc'[q] \in InOp <=> pc[q] \in InOp
                         /\ pc'[q] \in Committing => pc[q] \in Committing /\ q # p
                         /\ pc'[q] \in Boot <=> pc[q] \in Boot
                         /\ pc'[q] = "off" <=> pc[q] = "off"
    BY <1>0 DEF InOp, Committing, Boot
  <1>4. OpenOps' = OpenOps
    BY <1>3 DEF OpenOps
  <1>u. Up /\ pc[p] \in Committing
    BY <1>i, <1>0 DEF BootAlone, Up, Boot, Committing
  <1>5. BootAlone'
    BY <1>i, <1>0, <1>2, <1>3, <1>u DEF BootAlone
  <1>6. Exclusive'
    <2>1. lh_n' = 0
      BY <1>i, <1>0 DEF CommitPhase
    <2>2. \A q \in Procs : pc'[q] \notin Committing
      BY <1>i, <1>3, <1>u DEF Exclusive
    <2> QED
      BY <1>i, <1>0, <1>4, <2>1, <2>2 DEF Exclusive
  <1> QED
    BY <1>2, <1>5, <1>6 DEF LogInv

----------------------------------------------------------------------------
(* Steps of the buffer cache and of an operation *)

\* Reading and recycling buffers does not change what bread() returns.
LEMMA CacheView ==
    ASSUME TypeOK, LogInv, NEW b \in Blocks, Fetch(b) \/ Evict(b)
    PROVE  /\ \A c \in Blocks : View(c)' = View(c)
           /\ \A c \in Blocks : c # b => cache'[c] = cache[c]
           /\ UNCHANGED <<disk, pin, holder, header, outstanding, committing, pc, tail>>
  <1> USE ProcsAssumption, CacheAssumption DEF disk, buffers, header
  <1>1. /\ \A c \in Blocks : c # b => cache'[c] = cache[c]
        /\ UNCHANGED <<disk, pin, holder, header, outstanding, committing, pc, tail>>
    BY DEF TypeOK, Fetch, Evict
  <1>2. CASE Fetch(b)
    <2>1. cache[b] = NotCached /\ cache'[b] = home[b] /\ home[b] # NotCached
      BY <1>2 DEF TypeOK, Fetch
    <2> QED
      BY <1>1, <2>1 DEF View
  <1>3. CASE Evict(b)
    <2>1. /\ cache[b] # NotCached /\ cache'[b] = NotCached
          /\ pin[b] = 0 /\ holder[b] = "none"
      BY <1>3 DEF TypeOK, Evict
    <2>2. cache[b] = home[b]
      <3>1. CASE Up
        BY <2>1, <3>1 DEF LogInv, DirtyPinned
      <3>2. CASE ~Up
        BY <2>1, <3>2 DEF LogInv, BootPhase
      <3> QED
        BY <3>1, <3>2
    <2> QED
      BY <1>1, <2>1, <2>2 DEF View
  <1> QED
    BY <1>1, <1>2, <1>3

LEMMA CacheStep ==
    ASSUME LogInv, TypeOK', NEW b \in Blocks, Fetch(b) \/ Evict(b)
    PROVE  LogInv'
  <1> USE ProcsAssumption, CacheAssumption DEF disk, buffers, header
  <1>i. /\ TypeOK /\ NoDuplicates /\ BootAlone /\ Exclusive
        /\ Holders /\ CommitPhase /\ BootPhase /\ DirtyPinned
    BY DEF LogInv
  <1>0. /\ \A c \in Blocks : View(c)' = View(c)
        /\ \A c \in Blocks : c # b => cache'[c] = cache[c]
        /\ UNCHANGED <<disk, pin, holder, header, outstanding, committing, pc, tail>>
    BY <1>i, CacheView
  <1>1. NoDuplicates' /\ BootAlone' /\ Exclusive' /\ Holders' /\ Up' = Up
    BY <1>i, <1>0 DEF NoDuplicates, BootAlone, Exclusive, Holders, OpenOps, Up
  <1>2. CommitPhase'
    <2>1. \A t \in 1..lh_n : lh_block[t] \in Blocks
      BY <1>i, TailFacts DEF TypeOK
    <2>2. \A t \in 1..lh_n : View(lh_block[t])' = View(lh_block[t])
      BY <1>0, <2>1
    <2> QED
      BY <1>i, <1>0, <1>1, <2>2 DEF CommitPhase
  <1>3. \A c : Pending(c)' <=> Pending(c)
    BY <1>0 DEF Pending
  <1>4. CASE Fetch(b)
    <2>1. Up /\ cache'[b] = home[b] /\ home[b] # NotCached
      BY <1>4, <1>i DEF TypeOK, Fetch
    <2> QED
      BY <1>i, <1>0, <1>1, <1>2, <1>3, <2>1 DEF LogInv, BootPhase, DirtyPinned
  <1>5. CASE Evict(b)
    <2>1. cache'[b] = NotCached /\ pin[b] = 0 /\ holder[b] = "none"
      BY <1>5, <1>i DEF TypeOK, Evict
    <2>2. BootPhase'
      BY <1>i, <1>0, <1>1, <2>1 DEF BootPhase
    <2>3. DirtyPinned'
      BY <1>i, <1>0, <1>1, <1>3, <2>1 DEF DirtyPinned
    <2> QED
      BY <1>1, <1>2, <2>2, <2>3 DEF LogInv
  <1> QED
    BY <1>4, <1>5

\* While an operation is open nobody commits, and the system is up.
LEMMA OpenNoCommit ==
    ASSUME LogInv, NEW p \in Procs, pc[p] \in InOp
    PROVE  /\ Up /\ committing = 0 /\ outstanding > 0
           /\ \A q \in Procs : pc[q] \notin Committing
           /\ hd_n = 0
  <1>i. TypeOK /\ BootAlone /\ Exclusive /\ CommitPhase
    BY DEF LogInv
  <1>1. p \in OpenOps
    BY DEF OpenOps
  <1>2. committing = 0
    BY <1>i, <1>1 DEF TypeOK, Exclusive
  <1>3. Up
    BY <1>i, ProcsAssumption DEF BootAlone, Up, Boot, InOp
  <1>4. outstanding > 0
    BY <1>i, <1>1, OpenFinite, OpenEmpty DEF Exclusive
  <1>5. \A q \in Procs : pc[q] \notin Committing
    BY <1>i, <1>2 DEF Exclusive
  <1>6. hd_n = 0
    BY <1>i, <1>3, <1>5 DEF CommitPhase, Committing
  <1> QED
    BY <1>2, <1>3, <1>4, <1>5, <1>6

LEMMA ModifyStep ==
    ASSUME LogInv, TypeOK', NEW p \in Procs, NEW b \in Blocks, NEW v \in Values,
           Modify(p, b, v)
    PROVE  LogInv'
  <1> USE ProcsAssumption, CacheAssumption DEF disk, buffers, header
  <1>i. /\ TypeOK /\ NoDuplicates /\ BootAlone /\ Exclusive
        /\ Holders /\ CommitPhase /\ BootPhase /\ DirtyPinned
    BY DEF LogInv
  <1>0. /\ UNCHANGED <<disk, pin, header, outstanding, committing, tail>>
        /\ pc[p] = "op" /\ pc'[p] = "logging"
        /\ \A q \in Procs : q # p => pc'[q] = pc[q]
        /\ holder[b] = "none" /\ holder'[b] = p
        /\ \A c \in Blocks : c # b => holder'[c] = holder[c] /\ cache'[c] = cache[c]
        /\ cache'[b] = v
    BY <1>i DEF TypeOK, Modify, At, Goto
  <1>n. /\ Up /\ committing = 0 /\ outstanding > 0
        /\ \A q \in Procs : pc[q] \notin Committing
        /\ hd_n = 0
    BY <1>0, OpenNoCommit DEF InOp
  <1>3. \A q \in Procs : /\ pc'[q] \in InOp <=> pc[q] \in InOp
                         /\ pc'[q] \notin Committing
                         /\ pc'[q] \in Boot <=> pc[q] \in Boot
                         /\ pc'[q] = "off" <=> pc[q] = "off"
    BY <1>0, <1>n DEF InOp, Committing, Boot
  <1>4. OpenOps' = OpenOps /\ Up' = Up
    BY <1>3 DEF OpenOps, Up
  <1>5. NoDuplicates' /\ BootAlone' /\ Exclusive'
    BY <1>i, <1>0, <1>n, <1>3, <1>4 DEF NoDuplicates, BootAlone, Exclusive
  <1>6. Holders'
    <2>1. \A c \in Blocks : holder[c] # p
      BY <1>i, <1>0 DEF Holders
    <2>2. \A c \in Blocks : holder[c] # "none" => holder[c] \in Procs
      BY <1>i DEF TypeOK
    <2> QED
      BY <1>i, <1>0, <2>1, <2>2 DEF Holders
  <1>7. CommitPhase'
    BY <1>0, <1>n, <1>3 DEF CommitPhase, Committing
  <1>8. BootPhase'
    BY <1>n, <1>4 DEF BootPhase, Up, Boot
  <1>9. \A c : Pending(c)' <=> Pending(c)
    BY <1>0, <1>n, <1>3 DEF Pending, Committing
  <1>10. DirtyPinned'
    BY <1>i, <1>0, <1>n, <1>9 DEF DirtyPinned
  <1> QED
    BY <1>5, <1>6, <1>7, <1>8, <1>10 DEF LogInv

LEMMA LogWriteStep ==
    ASSUME LogInv, TypeOK', NEW p \in Procs, NEW b \in Blocks, log_write(p, b)
    PROVE  LogInv'
  <1> USE ProcsAssumption, CacheAssumption DEF disk, buffers, header
  <1>i. /\ TypeOK /\ NoDuplicates /\ BootAlone /\ Exclusive
        /\ Holders /\ CommitPhase /\ BootPhase /\ DirtyPinned
    BY DEF LogInv
  <1>0. /\ UNCHANGED <<disk, cache, outstanding, committing, tail>>
        /\ pc[p] = "logging" /\ pc'[p] = "op"
        /\ \A q \in Procs : q # p => pc'[q] = pc[q]
        /\ holder[b] = p /\ holder'[b] = "none"
        /\ \A c \in Blocks : c # b => holder'[c] = holder[c]
        /\ lh_n < LOGBLOCKS
    BY <1>i, LogAssumption DEF TypeOK, log_write, LogWritePanics, At, Goto
  <1>n. /\ Up /\ committing = 0 /\ outstanding > 0
        /\ \A q \in Procs : pc[q] \notin Committing
        /\ hd_n = 0
    BY <1>0, OpenNoCommit DEF InOp
  <1>3. \A q \in Procs : /\ pc'[q] \in InOp <=> pc[q] \in InOp
                         /\ pc'[q] \notin Committing
                         /\ pc'[q] \in Boot <=> pc[q] \in Boot
                         /\ pc'[q] = "off" <=> pc[q] = "off"
    BY <1>0, <1>n DEF InOp, Committing, Boot
  <1>4. OpenOps' = OpenOps /\ Up' = Up
    BY <1>3 DEF OpenOps, Up
  <1>5. BootAlone' /\ Exclusive'
    BY <1>i, <1>0, <1>n, <1>3, <1>4 DEF BootAlone, Exclusive
  <1>6. Holders'
    <2>1. \A c \in Blocks : holder[c] # "none" => holder[c] \in Procs
      BY <1>i DEF TypeOK
    <2>2. \A c \in Blocks : c # b => holder[c] # p
      BY <1>i, <1>0 DEF Holders
    <2> QED
      BY <1>i, <1>0, <2>1, <2>2 DEF Holders
  <1>7. CommitPhase'
    BY <1>0, <1>n, <1>3 DEF CommitPhase, Committing
  <1>8. BootPhase'
    BY <1>n, <1>4 DEF BootPhase, Up, Boot
  <1>p. \A c : Pending(c) <=> c \in Logged
    BY <1>n DEF Pending, Committing, Logged
  <1>pp. \A c : Pending(c)' <=> c \in Logged'
    BY <1>3 DEF Pending, Committing, Logged
  <1>9. CASE b \in Logged
    <2>1. UNCHANGED <<lh_n, lh_block, pin>>
      BY <1>9 DEF log_write
    <2>2. NoDuplicates'
      BY <1>i, <1>0, <2>1 DEF NoDuplicates
    <2>3. Logged' = Logged
      BY <2>1 DEF Logged
    <2>4. DirtyPinned'
      BY <1>i, <1>0, <1>n, <1>p, <1>pp, <1>9, <2>1, <2>3 DEF DirtyPinned
    <2> QED
      BY <1>5, <1>6, <1>7, <1>8, <2>2, <2>4 DEF LogInv
  <1>10. CASE b \notin Logged
    <2>0. lh_n \in Nat /\ lh_n + 1 \in Tails /\ \A t \in 1..lh_n : t \in Tails /\ t # lh_n + 1
      BY <1>i, <1>0, TailFacts DEF TypeOK
    <2>1. /\ lh_n' = lh_n + 1 /\ lh_block'[lh_n + 1] = b
          /\ \A t \in 1..lh_n : lh_block'[t] = lh_block[t]
      BY <1>10, <1>i, <2>0 DEF log_write, TypeOK
    <2>2. pin'[b] = pin[b] + 1 /\ \A c \in Blocks : c # b => pin'[c] = pin[c]
      BY <1>10, <1>i DEF log_write, TypeOK
    <2>3. \A t \in 1..lh_n' : t \in 1..lh_n \/ t = lh_n + 1
      BY <2>0, <2>1
    <2>4. \A t \in 1..lh_n : lh_block[t] # b
      BY <1>10 DEF Logged
    <2>5. NoDuplicates'
      BY <1>i, <1>0, <2>0, <2>1, <2>3, <2>4 DEF NoDuplicates
    <2>6. Logged' = Logged \union {b}
      <3>1. \A t \in 1..lh_n : t \in 1..lh_n'
        BY <2>0, <2>1
      <3>2. lh_n + 1 \in 1..lh_n'
        BY <2>0, <2>1
      <3> QED
        BY <2>1, <2>3, <3>1, <3>2 DEF Logged
    <2>7. ~Pending(b) /\ pin[b] = 0
      BY <1>i, <1>n, <1>p, <1>10 DEF DirtyPinned
    <2>8. DirtyPinned'
      BY <1>i, <1>0, <1>n, <1>p, <1>pp, <1>10, <2>2, <2>6, <2>7 DEF DirtyPinned
    <2> QED
      BY <1>5, <1>6, <1>7, <1>8, <2>5, <2>8 DEF LogInv
  <1> QED
    BY <1>9, <1>10

----------------------------------------------------------------------------
(* Steps of commit() *)

\* The process that commits is alone with the log, and no buffer is locked.
LEMMA CommitterAlone ==
    ASSUME LogInv, NEW p \in Procs, pc[p] \in Committing
    PROVE  /\ Up /\ committing = 1 /\ OpenOps = {} /\ outstanding = 0
           /\ \A q \in Procs : q # p => pc[q] \notin Committing
           /\ \A q \in Procs : pc[q] \notin InOp
           /\ \A b \in Blocks : holder[b] = "none"
  <1>i. TypeOK /\ BootAlone /\ Exclusive /\ Holders
    BY DEF LogInv
  <1>1. committing = 1 /\ OpenOps = {} /\ \A q \in Procs : q # p => pc[q] \notin Committing
    BY <1>i DEF Exclusive
  <1>2. \A q \in Procs : pc[q] \notin InOp
    BY <1>1 DEF OpenOps
  <1>3. Up
    BY <1>i, ProcsAssumption DEF BootAlone, Up, Boot, Committing
  <1>4. outstanding = 0
    BY <1>i, <1>1, OpenEmpty DEF Exclusive
  <1>5. \A b \in Blocks : holder[b] = "none"
    <2>1. \A b \in Blocks : holder[b] # "none" => holder[b] \in Procs
      BY <1>i DEF TypeOK
    <2> QED
      BY <1>i, <1>2, <2>1 DEF Holders, InOp
  <1> QED
    BY <1>1, <1>2, <1>3, <1>4, <1>5

\* Its steps keep what the invariant says about who does what.
LEMMA CommitterFrame ==
    ASSUME LogInv, NEW p \in Procs, pc[p] \in Committing, pc'[p] \in Committing,
           \A q \in Procs : q # p => pc'[q] = pc[q],
           UNCHANGED <<outstanding, committing, holder>>
    PROVE  BootAlone' /\ Exclusive' /\ Holders' /\ BootPhase' /\ Up'
  <1>i. TypeOK /\ BootAlone /\ Exclusive /\ Holders
    BY DEF LogInv
  <1>1. /\ Up /\ committing = 1 /\ OpenOps = {} /\ outstanding = 0
        /\ \A q \in Procs : q # p => pc[q] \notin Committing
        /\ \A q \in Procs : pc[q] \notin InOp
        /\ \A b \in Blocks : holder[b] = "none"
    BY CommitterAlone
  <1>2. \A l \in Committing : l \notin Boot /\ l # "off" /\ l \notin InOp
    BY DEF Committing, Boot, InOp
  <1>3. Up'
    BY <1>1, <1>2, ProcsAssumption DEF Up
  <1>4. OpenOps' = {}
    BY <1>1, <1>2 DEF OpenOps
  <1>5. BootAlone'
    BY <1>i, <1>1, <1>2, <1>3, ProcsAssumption DEF BootAlone
  <1>6. Exclusive'
    BY <1>i, <1>1, <1>4 DEF Exclusive
  <1>7. Holders'
    BY <1>1 DEF Holders
  <1>8. BootPhase'
    BY <1>3 DEF BootPhase, Up, Boot
  <1> QED
    BY <1>3, <1>5, <1>6, <1>7, <1>8

\* The two outcomes of an iteration.
LEMMA LoopStep ==
    ASSUME TypeOK, NEW p \in Procs, NEW l, LoopOr(p, l), tail[p] <= lh_n
    PROVE  /\ \A q \in Procs : q # p => pc'[q] = pc[q] /\ tail'[q] = tail[q]
           /\ \/ /\ tail[p] < lh_n /\ tail'[p] = tail[p] + 1 /\ pc'[p] = pc[p]
              \/ /\ tail[p] = lh_n /\ tail'[p] = 1 /\ pc'[p] = l
  <1>1. tail[p] \in Nat /\ lh_n \in Nat
    BY DEF TypeOK, Tails
  <1>2. CASE tail[p] < lh_n
    BY <1>2, <1>1 DEF TypeOK, LoopOr
  <1>3. CASE ~(tail[p] < lh_n)
    BY <1>3, <1>1 DEF TypeOK, LoopOr, Goto
  <1> QED
    BY <1>2, <1>3

\* end_op() of the last operation.
LEMMA EndLastStep ==
    ASSUME LogInv, TypeOK', NEW p \in Procs, EndLast(p)
    PROVE  LogInv'
  <1> USE ProcsAssumption DEF disk, buffers, header
  <1>i. /\ TypeOK /\ NoDuplicates /\ BootAlone /\ Exclusive
        /\ Holders /\ CommitPhase /\ BootPhase /\ DirtyPinned
    BY DEF LogInv
  <1>0. /\ UNCHANGED <<disk, buffers, header>>
        /\ outstanding = 1 /\ outstanding' = 0 /\ committing' = 1
        /\ pc[p] = "op" /\ pc'[p] = (IF lh_n > 0 THEN "write_log" ELSE "done")
        /\ tail'[p] = 1
        /\ \A q \in Procs : q # p => pc'[q] = pc[q] /\ tail'[q] = tail[q]
    <2>1. \A l : pc' = [pc EXCEPT ![p] = l] =>
              pc'[p] = l /\ \A q \in Procs : q # p => pc'[q] = pc[q]
      BY <1>i DEF TypeOK
    <2>2. tail'[p] = 1 /\ \A q \in Procs : q # p => tail'[q] = tail[q]
      BY <1>i DEF TypeOK, EndLast
    <2> QED
      BY <2>1, <2>2 DEF EndLast, At, Goto
  <1>n. /\ Up /\ committing = 0 /\ outstanding > 0
        /\ \A q \in Procs : pc[q] \notin Committing
        /\ hd_n = 0
    BY <1>0, OpenNoCommit DEF InOp
  <1>1. pc'[p] \in {"write_log", "done"}
    BY <1>0
  <1>2. pc'[p] \in Committing /\ pc'[p] \notin Boot \union InOp \union {"off"}
    BY <1>1 DEF Committing, Boot, InOp
  <1>3. OpenOps' = OpenOps \ {p} /\ p \in OpenOps
    BY <1>0, <1>2 DEF OpenOps, InOp
  <1>4. OpenOps' = {}
    BY <1>i, <1>0, <1>3, OpenRemove DEF Exclusive
  <1>5. Up'
    BY <1>0, <1>2, <1>n DEF Up
  <1>6. BootAlone'
    BY <1>i, <1>0, <1>2, <1>5, <1>n DEF BootAlone
  <1>7. Exclusive'
    <2>1. Cardinality(OpenOps') = 0
      BY <1>4, FS_EmptySet
    <2> QED
      BY <1>0, <1>2, <1>4, <1>n, <2>1 DEF Exclusive
  <1>8. Holders'
    <2>1. \A b \in Blocks : holder[b] # "none" => holder[b] \in Procs /\ holder[b] # p
      BY <1>i, <1>0 DEF TypeOK, Holders
    <2> QED
      BY <1>i, <1>0, <2>1 DEF Holders
  <1>9. NoDuplicates' /\ BootPhase'
    BY <1>i, <1>0, <1>5 DEF NoDuplicates, BootPhase, Up, Boot
  <1>10. CommitPhase'
    <2>1. \A q \in Procs : q # p => pc'[q] \notin Committing
      BY <1>0, <1>n
    <2>2. lh_n \in Nat /\ \A t \in 1..lh_n : ~(t < 1)
      BY <1>i DEF TypeOK
    <2>3. pc'[p] = "write_log" => tail'[p] <= lh_n'
      BY <1>0, <2>2
    <2>4. pc'[p] = "done" => lh_n' = 0
      BY <1>0, <2>2
    <2> QED
      BY <1>0, <1>1, <1>n, <2>1, <2>2, <2>3, <2>4 DEF CommitPhase, Committing
  <1>11. \A b : Pending(b)' <=> Pending(b)
    BY <1>0, <1>1, <1>n DEF Pending, Committing
  <1>12. DirtyPinned'
    BY <1>i, <1>0, <1>n, <1>11 DEF DirtyPinned
  <1> QED
    BY <1>6, <1>7, <1>8, <1>9, <1>10, <1>12 DEF LogInv

\* One iteration of write_log(): the block is cached, so only the log changes.
LEMMA WriteLogFacts ==
    ASSUME LogInv, NEW p \in Procs, write_log(p)
    PROVE  /\ UNCHANGED <<home, hd_n, hd_block, pin, holder, header, outstanding,
                          committing>>
           /\ pc[p] = "write_log" /\ hd_n = 0
           /\ tail[p] \in 1..lh_n /\ lh_block[tail[p]] \in Blocks
           /\ logdata'[tail[p]] = View(lh_block[tail[p]])
           /\ \A t \in Tails : t # tail[p] => logdata'[t] = logdata[t]
           /\ cache' = cache
           /\ \A q \in Procs : q # p => pc'[q] = pc[q] /\ tail'[q] = tail[q]
           /\ \/ /\ tail[p] < lh_n /\ tail'[p] = tail[p] + 1 /\ pc'[p] = "write_log"
              \/ /\ tail[p] = lh_n /\ tail'[p] = 1 /\ pc'[p] = "write_head"
  <1> USE ProcsAssumption, CacheAssumption DEF disk, buffers, header
  <1>i. /\ TypeOK /\ CommitPhase /\ DirtyPinned
    BY DEF LogInv
  <1>0. /\ UNCHANGED <<home, hd_n, hd_block, pin, holder, header, outstanding,
                       committing>>
        /\ pc[p] = "write_log"
    BY DEF write_log, At
  <1>1. tail[p] \in 1..lh_n /\ tail[p] \in Tails /\ lh_block[tail[p]] \in Blocks
    BY <1>i, <1>0 DEF TypeOK, CommitPhase, Tails
  <1>2. /\ logdata'[tail[p]] = View(lh_block[tail[p]])
        /\ \A t \in Tails : t # tail[p] => logdata'[t] = logdata[t]
    BY <1>i, <1>1 DEF TypeOK, write_log
  <1>a. Up /\ \A q \in Procs : pc[q] \notin {"install", "clear"}
    <2>1. Up /\ \A q \in Procs : q # p => pc[q] \notin Committing
      BY <1>0, CommitterAlone DEF Committing
    <2> QED
      BY <1>0, <2>1 DEF Committing
  <1>3. cache' = cache
    <2>1. Pending(lh_block[tail[p]])
      BY <1>1, <1>a DEF Pending
    <2>2. cache[lh_block[tail[p]]] # NotCached
      BY <1>i, <1>1, <1>a, <2>1 DEF DirtyPinned
    <2> QED
      BY <1>i, <2>2 DEF TypeOK, write_log, View
  <1>4. hd_n = 0
    BY <1>i, <1>a DEF CommitPhase
  <1>5. tail[p] <= lh_n /\ LoopOr(p, "write_head")
    BY <1>1, <1>i DEF write_log, TypeOK
  <1>6. /\ \A q \in Procs : q # p => pc'[q] = pc[q] /\ tail'[q] = tail[q]
        /\ \/ /\ tail[p] < lh_n /\ tail'[p] = tail[p] + 1 /\ pc'[p] = pc[p]
           \/ /\ tail[p] = lh_n /\ tail'[p] = 1 /\ pc'[p] = "write_head"
    BY <1>i, <1>5, LoopStep
  <1> QED
    BY <1>0, <1>1, <1>2, <1>3, <1>4, <1>6

LEMMA WriteLogStep ==
    ASSUME LogInv, TypeOK', NEW p \in Procs, write_log(p)
    PROVE  LogInv'
  <1> USE ProcsAssumption DEF disk, buffers, header
  <1>i. /\ TypeOK /\ NoDuplicates /\ CommitPhase /\ DirtyPinned
    BY DEF LogInv
  <1>0. /\ UNCHANGED <<home, hd_n, hd_block, pin, holder, header, outstanding,
                       committing>>
        /\ pc[p] = "write_log" /\ hd_n = 0
        /\ tail[p] \in 1..lh_n /\ lh_block[tail[p]] \in Blocks
        /\ logdata'[tail[p]] = View(lh_block[tail[p]])
        /\ \A t \in Tails : t # tail[p] => logdata'[t] = logdata[t]
        /\ cache' = cache
        /\ \A q \in Procs : q # p => pc'[q] = pc[q] /\ tail'[q] = tail[q]
        /\ \/ /\ tail[p] < lh_n /\ tail'[p] = tail[p] + 1 /\ pc'[p] = "write_log"
           \/ /\ tail[p] = lh_n /\ tail'[p] = 1 /\ pc'[p] = "write_head"
    BY WriteLogFacts
  <1>1. pc[p] \in Committing /\ pc'[p] \in Committing
    BY <1>0 DEF Committing
  <1>2. BootAlone' /\ Exclusive' /\ Holders' /\ BootPhase' /\ Up'
    BY <1>0, <1>1, CommitterFrame
  <1>3. Up /\ \A q \in Procs : q # p => pc[q] \notin Committing
    BY <1>1, CommitterAlone
  <1>4. NoDuplicates'
    BY <1>i, <1>0 DEF NoDuplicates
  <1>5. \A c : Pending(c)' <=> Pending(c)
    BY <1>0, <1>3 DEF Pending, Committing
  <1>6. DirtyPinned'
    BY <1>i, <1>0, <1>2, <1>3, <1>5 DEF DirtyPinned
  <1>7. CommitPhase'
    <2>0. lh_n \in Nat /\ tail[p] \in Nat /\ \A t \in 1..lh_n : t \in Tails /\ t \in Nat
      BY <1>i, <1>0, TailFacts DEF TypeOK
    <2>1. \A t \in 1..lh_n : View(lh_block[t])' = View(lh_block[t])
      BY <1>0 DEF View
    <2>2. \A t \in 1..lh_n : t < tail[p] \/ t = tail[p] => logdata'[t] = View(lh_block[t])
      BY <1>i, <1>0, <2>0 DEF CommitPhase
    <2>3. pc'[p] = "write_log" =>
            /\ tail'[p] <= lh_n
            /\ \A t \in 1..lh_n : t < tail'[p] => t < tail[p] \/ t = tail[p]
      BY <1>0, <2>0
    <2>4. pc'[p] = "write_head" =>
            /\ tail'[p] = 1 /\ lh_n > 0
            /\ \A t \in 1..lh_n : t < tail[p] \/ t = tail[p]
      BY <1>0, <2>0
    <2>5. \A q \in Procs : q # p => pc'[q] \notin Committing
      BY <1>0, <1>3
    <2>6. pc'[p] \in {"write_log", "write_head"}
      BY <1>0
    <2> QED
      BY <1>0, <2>1, <2>2, <2>3, <2>4, <2>5, <2>6 DEF CommitPhase, Committing
  <1> QED
    BY <1>2, <1>4, <1>6, <1>7 DEF LogInv

\* write_head() with the entries: the transaction commits.
LEMMA CommitHeadFacts ==
    ASSUME LogInv, NEW p \in Procs, CommitHead(p)
    PROVE  /\ UNCHANGED <<home, logdata, buffers, header, outstanding, committing, tail>>
           /\ pc[p] = "write_head" /\ pc'[p] = "install"
           /\ \A q \in Procs : q # p => pc'[q] = pc[q]
           /\ hd_n = 0 /\ hd_n' = lh_n
           /\ \A t \in 1..lh_n : hd_block'[t] = lh_block[t]
           /\ \A t \in 1..lh_n : logdata[t] = View(lh_block[t])
  <1> USE ProcsAssumption DEF disk, buffers, header
  <1>i. /\ TypeOK /\ CommitPhase
    BY DEF LogInv
  <1>0. /\ UNCHANGED <<home, logdata, buffers, header, outstanding, committing, tail>>
        /\ pc[p] = "write_head" /\ pc'[p] = "install"
        /\ \A q \in Procs : q # p => pc'[q] = pc[q]
    BY <1>i DEF TypeOK, CommitHead, At, Goto
  <1>1. \A t \in 1..lh_n : t \in Tails /\ t <= lh_n
    BY <1>i, TailFacts DEF TypeOK
  <1>2. hd_n' = lh_n /\ \A t \in 1..lh_n : hd_block'[t] = lh_block[t]
    BY <1>1 DEF CommitHead, write_head
  <1>3. \A t \in 1..lh_n : logdata[t] = View(lh_block[t])
    BY <1>i, <1>0 DEF CommitPhase
  <1>4. Up /\ \A q \in Procs : q # p => pc[q] \notin Committing
    BY <1>0, CommitterAlone DEF Committing
  <1>5. hd_n = 0
    BY <1>i, <1>0, <1>4 DEF CommitPhase, Committing
  <1> QED
    BY <1>0, <1>2, <1>3, <1>5

LEMMA CommitHeadStep ==
    ASSUME LogInv, TypeOK', NEW p \in Procs, CommitHead(p)
    PROVE  LogInv'
  <1> USE ProcsAssumption DEF disk, buffers, header
  <1>i. /\ TypeOK /\ NoDuplicates /\ CommitPhase /\ DirtyPinned
    BY DEF LogInv
  <1>0. /\ UNCHANGED <<home, logdata, buffers, header, outstanding, committing, tail>>
        /\ pc[p] = "write_head" /\ pc'[p] = "install"
        /\ \A q \in Procs : q # p => pc'[q] = pc[q]
        /\ hd_n = 0 /\ hd_n' = lh_n
        /\ \A t \in 1..lh_n : hd_block'[t] = lh_block[t]
        /\ \A t \in 1..lh_n : logdata[t] = View(lh_block[t])
    BY CommitHeadFacts
  <1>1. pc[p] \in Committing /\ pc'[p] \in Committing
    BY <1>0 DEF Committing
  <1>2. BootAlone' /\ Exclusive' /\ Holders' /\ BootPhase' /\ Up'
    BY <1>0, <1>1, CommitterFrame
  <1>3. Up /\ \A q \in Procs : q # p => pc[q] \notin Committing
    BY <1>1, CommitterAlone
  <1>4. NoDuplicates'
    BY <1>i, <1>0 DEF NoDuplicates
  <1>t. tail[p] = 1 /\ lh_n > 0 /\ lh_n \in Nat
    BY <1>i, <1>0 DEF CommitPhase, TypeOK
  <1>5. \A c : Pending(c)' <=> Pending(c)
    <2>1. \A t \in 1..lh_n : tail[p] <= t
      BY <1>t
    <2> QED
      BY <1>0, <1>3, <2>1 DEF Pending, Committing
  <1>6. DirtyPinned'
    BY <1>i, <1>0, <1>2, <1>3, <1>5 DEF DirtyPinned
  <1>7. CommitPhase'
    <2>1. \A t \in 1..lh_n : View(lh_block[t])' = View(lh_block[t])
      BY <1>0 DEF View
    <2>2. \A t \in 1..lh_n : ~(t < tail'[p])
      BY <1>0, <1>t
    <2>3. \A q \in Procs : q # p => pc'[q] \notin Committing
      BY <1>0, <1>3
    <2> QED
      BY <1>0, <1>t, <2>1, <2>2, <2>3 DEF CommitPhase, Committing
  <1> QED
    BY <1>2, <1>4, <1>6, <1>7 DEF LogInv

\* One iteration of install_trans(): the home block gets what the buffer has.
LEMMA InstallFacts ==
    ASSUME LogInv, NEW p \in Procs, install_trans(p)
    PROVE  /\ UNCHANGED <<logdata, hd_n, hd_block, holder, header, outstanding,
                          committing>>
           /\ pc[p] = "install"
           /\ tail[p] \in 1..lh_n /\ lh_block[tail[p]] \in Blocks
           /\ home'[lh_block[tail[p]]] = logdata[tail[p]]
           /\ \A c \in Blocks : c # lh_block[tail[p]] => home'[c] = home[c]
           /\ cache' = cache /\ cache[lh_block[tail[p]]] = logdata[tail[p]]
           /\ cache[lh_block[tail[p]]] # NotCached
           /\ \A q \in Procs : q # p => pc'[q] = pc[q] /\ tail'[q] = tail[q]
           /\ \/ /\ tail[p] < lh_n /\ tail'[p] = tail[p] + 1 /\ pc'[p] = "install"
              \/ /\ tail[p] = lh_n /\ tail'[p] = 1 /\ pc'[p] = "clear"
  <1> USE ProcsAssumption, CacheAssumption DEF disk, buffers, header
  <1>i. /\ TypeOK /\ CommitPhase /\ DirtyPinned
    BY DEF LogInv
  <1>0. /\ UNCHANGED <<logdata, hd_n, hd_block, holder, header, outstanding,
                       committing>>
        /\ pc[p] = "install"
    BY DEF install_trans, At
  <1>1. tail[p] \in 1..lh_n /\ tail[p] \in Tails /\ lh_block[tail[p]] \in Blocks
    BY <1>i, <1>0 DEF TypeOK, CommitPhase, Tails
  <1>2. /\ home'[lh_block[tail[p]]] = logdata[tail[p]]
        /\ \A c \in Blocks : c # lh_block[tail[p]] => home'[c] = home[c]
    BY <1>i, <1>1 DEF TypeOK, install_trans, Install
  <1>a. Up /\ \A q \in Procs : q # p => pc[q] \notin {"install", "clear"}
    <2>1. Up /\ \A q \in Procs : q # p => pc[q] \notin Committing
      BY <1>0, CommitterAlone DEF Committing
    <2> QED
      BY <2>1 DEF Committing
  <1>3. Pending(lh_block[tail[p]])
    <2>1. tail[p] <= tail[p]
      BY <1>1
    <2> QED
      BY <1>0, <1>1, <1>a, <2>1 DEF Pending
  <1>4. cache[lh_block[tail[p]]] # NotCached
    BY <1>i, <1>1, <1>a, <1>3 DEF DirtyPinned
  <1>5. logdata[tail[p]] = View(lh_block[tail[p]])
    BY <1>i, <1>0, <1>1 DEF CommitPhase
  <1>6. cache[lh_block[tail[p]]] = logdata[tail[p]]
    BY <1>4, <1>5 DEF View
  <1>7. cache' = cache
    BY <1>i, <1>6 DEF TypeOK, install_trans, Install
  <1>8. tail[p] <= lh_n /\ LoopOr(p, "clear")
    BY <1>1, <1>i DEF install_trans, TypeOK
  <1>9. /\ \A q \in Procs : q # p => pc'[q] = pc[q] /\ tail'[q] = tail[q]
        /\ \/ /\ tail[p] < lh_n /\ tail'[p] = tail[p] + 1 /\ pc'[p] = pc[p]
           \/ /\ tail[p] = lh_n /\ tail'[p] = 1 /\ pc'[p] = "clear"
    BY <1>i, <1>8, LoopStep
  <1> QED
    BY <1>0, <1>1, <1>2, <1>4, <1>6, <1>7, <1>9

LEMMA InstallStep ==
    ASSUME LogInv, TypeOK', NEW p \in Procs, install_trans(p)
    PROVE  LogInv'
  <1> USE ProcsAssumption DEF disk, buffers, header
  <1>i. /\ TypeOK /\ NoDuplicates /\ CommitPhase /\ DirtyPinned
    BY DEF LogInv
  <1> DEFINE k == tail[p]
  <1> DEFINE b == lh_block[k]
  <1>0. /\ UNCHANGED <<logdata, hd_n, hd_block, holder, header, outstanding,
                       committing>>
        /\ pc[p] = "install"
        /\ k \in 1..lh_n /\ b \in Blocks
        /\ home'[b] = logdata[k]
        /\ \A c \in Blocks : c # b => home'[c] = home[c]
        /\ cache' = cache /\ cache[b] = logdata[k]
        /\ cache[b] # NotCached
        /\ \A q \in Procs : q # p => pc'[q] = pc[q] /\ tail'[q] = tail[q]
        /\ \/ /\ k < lh_n /\ tail'[p] = k + 1 /\ pc'[p] = "install"
           \/ /\ k = lh_n /\ tail'[p] = 1 /\ pc'[p] = "clear"
    BY InstallFacts
  <1>pin. pin'[b] = pin[b] - 1 /\ \A c \in Blocks : c # b => pin'[c] = pin[c]
    BY <1>i, <1>0 DEF TypeOK, install_trans
  <1>k. /\ k \in Nat /\ lh_n \in Nat /\ (\A t \in 1..lh_n : t \in Nat /\ t <= lh_n)
        /\ \A t \in 1..lh_n : lh_block[t] = b => t = k
        /\ \A t \in 1..lh_n : lh_block[t] \in Blocks
    BY <1>i, <1>0, TailFacts DEF TypeOK, NoDuplicates
  <1> HIDE DEF k, b
  <1>1. pc[p] \in Committing /\ pc'[p] \in Committing
    BY <1>0 DEF Committing
  <1>2. BootAlone' /\ Exclusive' /\ Holders' /\ BootPhase' /\ Up'
    BY <1>0, <1>1, CommitterFrame
  <1>3. Up /\ (\A q \in Procs : q # p => pc[q] \notin Committing)
        /\ \A c \in Blocks : holder[c] = "none"
    BY <1>1, CommitterAlone
  <1>3a. \A q \in Procs : q # p => pc'[q] \notin {"install", "clear"}
                                   /\ pc[q] \notin {"install", "clear"}
    BY <1>0, <1>3 DEF Committing
  <1>4. NoDuplicates'
    BY <1>i, <1>0 DEF NoDuplicates
  <1>p. \A c : Pending(c) <=> \E t \in 1..lh_n : lh_block[t] = c /\ k <= t
    BY <1>0, <1>3a DEF Pending, k
  <1>pp. \A c : Pending(c)' <=> \E t \in 1..lh_n : lh_block[t] = c /\ k < t
    <2>1. CASE pc'[p] = "install"
      <3>1. tail'[p] = k + 1
        BY <1>0, <2>1
      <3>2. \A t \in 1..lh_n : k + 1 <= t <=> k < t
        BY <1>k
      <3> QED
        BY <1>0, <1>3a, <2>1, <3>1, <3>2 DEF Pending
    <2>2. CASE pc'[p] = "clear"
      <3>1. k = lh_n
        BY <1>0, <2>2
      <3>2. \A t \in 1..lh_n : ~(k < t)
        BY <1>k, <3>1
      <3> QED
        BY <1>0, <2>2, <3>2 DEF Pending
    <2> QED
      BY <1>0, <2>1, <2>2
  <1>5. Pending(b) /\ \A c : Pending(c)' <=> Pending(c) /\ c # b
    <2>1. Pending(b)
      BY <1>0, <1>k, <1>p DEF b
    <2>2. \A t \in 1..lh_n : k < t <=> k <= t /\ lh_block[t] # b
      <3>1. lh_block[k] = b
        BY DEF b
      <3> QED
        BY <1>k, <3>1
    <2>3. \A c : Pending(c)' <=> Pending(c) /\ c # b
      BY <1>p, <1>pp, <2>2
    <2> QED
      BY <2>1, <2>3
  <1>6. DirtyPinned'
    <2>1. pin[b] = 1
      BY <1>i, <1>0, <1>3, <1>5 DEF DirtyPinned
    <2>2. pin'[b] = 0 /\ cache'[b] = home'[b]
      BY <1>0, <1>pin, <2>1
    <2>3. ASSUME NEW c \in Blocks
          PROVE  /\ pin'[c] = IF Pending(c)' THEN 1 ELSE 0
                 /\ ~Pending(c)' => cache'[c] \in {NotCached, home'[c]}
                 /\ Pending(c)' => cache'[c] # NotCached
      <3>1. CASE c = b
        BY <1>5, <2>2, <3>1
      <3>2. CASE c # b
        BY <1>i, <1>0, <1>pin, <1>3, <1>5, <3>2 DEF DirtyPinned
      <3> QED
        BY <3>1, <3>2
    <2> QED
      BY <1>0, <1>3, <2>3 DEF DirtyPinned
  <1>7. CommitPhase'
    <2>1. \A t \in 1..lh_n : logdata[t] = View(lh_block[t]) /\ hd_block[t] = lh_block[t]
      BY <1>i, <1>0 DEF CommitPhase
    <2>2. \A c \in Blocks : View(c)' = View(c)
      BY <1>0 DEF View
    <2>3. \A t \in 1..lh_n : logdata'[t] = View(lh_block[t])'
      BY <1>0, <1>k, <2>1, <2>2
    <2>4. \A t \in 1..lh_n : t < k => home[lh_block[t]] = logdata[t]
      BY <1>i, <1>0 DEF CommitPhase, k
    <2>5. \A t \in 1..lh_n : t < k \/ t = k => home'[lh_block[t]] = logdata[t]
      BY <1>0, <1>k, <2>4 DEF b
    <2>6. pc'[p] = "install" =>
            tail'[p] <= lh_n /\ \A t \in 1..lh_n : t < tail'[p] => t < k \/ t = k
      BY <1>0, <1>k
    <2>7. pc'[p] = "clear" => \A t \in 1..lh_n : t < k \/ t = k
      BY <1>0, <1>k
    <2>8. \A q \in Procs : q # p => pc'[q] \notin Committing
      BY <1>0, <1>3
    <2>9. hd_n = lh_n /\ pc'[p] \in {"install", "clear"}
      BY <1>i, <1>0 DEF CommitPhase
    <2> QED
      BY <1>0, <2>1, <2>3, <2>5, <2>6, <2>7, <2>8, <2>9 DEF CommitPhase, Committing
  <1> QED
    BY <1>2, <1>4, <1>6, <1>7 DEF LogInv

\* log.lh.n = 0; write_head(): the transaction is over.
LEMMA ClearHeadStep ==
    ASSUME LogInv, TypeOK', NEW p \in Procs, ClearHead(p)
    PROVE  LogInv'
  <1> USE ProcsAssumption DEF disk, buffers, header
  <1>i. /\ TypeOK /\ NoDuplicates /\ CommitPhase /\ DirtyPinned
    BY DEF LogInv
  <1>0. /\ UNCHANGED <<home, logdata, buffers, outstanding, committing, tail>>
        /\ pc[p] = "clear" /\ pc'[p] = "done"
        /\ \A q \in Procs : q # p => pc'[q] = pc[q]
        /\ lh_n' = 0 /\ hd_n' = 0
    BY <1>i DEF TypeOK, ClearHead, write_head, At, Goto
  <1>1. pc[p] \in Committing /\ pc'[p] \in Committing
    BY <1>0 DEF Committing
  <1>2. BootAlone' /\ Exclusive' /\ Holders' /\ BootPhase' /\ Up'
    BY <1>0, <1>1, CommitterFrame
  <1>3. Up /\ \A q \in Procs : q # p => pc[q] \notin Committing
    BY <1>1, CommitterAlone
  <1>4. NoDuplicates'
    BY <1>0 DEF NoDuplicates
  <1>5. \A c : ~Pending(c)' /\ ~Pending(c)
    BY <1>0 DEF Pending
  <1>6. DirtyPinned'
    BY <1>i, <1>0, <1>2, <1>3, <1>5 DEF DirtyPinned
  <1>7. CommitPhase'
    BY <1>0, <1>3 DEF CommitPhase, Committing
  <1> QED
    BY <1>2, <1>4, <1>6, <1>7 DEF LogInv

----------------------------------------------------------------------------
(* Crash and recovery *)

\* A machine that has just been reset satisfies the invariant, whatever its
\* disk holds, provided no block has two entries in the on-disk header.
LEMMA ResetFacts ==
    /\ Reset.pc[initproc] = "read_head" /\ Reset.tail[initproc] = 1
    /\ \A p \in Procs : p # initproc => Reset.pc[p] = "off"
    /\ \A p \in Procs : Reset.pc[p] \notin Committing \union InOp
    /\ \A b \in Blocks : /\ Reset.cache[b] = NotCached
                         /\ Reset.pin[b] = 0
                         /\ Reset.holder[b] = "none"
  BY ProcsAssumption DEF Reset, Committing, InOp

LEMMA InitLogInv == Init => LogInv
  <1> SUFFICES ASSUME Init PROVE LogInv
    OBVIOUS
  <1>1. TypeOK
    BY TypeInit
  <1>2. /\ pc[initproc] = "read_head" /\ tail[initproc] = 1
        /\ \A p \in Procs : p # initproc => pc[p] = "off"
        /\ \A p \in Procs : pc[p] \notin Committing \union InOp
        /\ \A b \in Blocks : cache[b] = NotCached /\ pin[b] = 0 /\ holder[b] = "none"
        /\ lh_n = 0 /\ hd_n = 0 /\ outstanding = 0 /\ committing = 0
    BY ResetFacts DEF Init
  <1>3. ~Up
    BY <1>2 DEF Up, Boot
  <1>4. OpenOps = {} /\ Cardinality(OpenOps) = 0
    BY <1>2, FS_EmptySet DEF OpenOps
  <1>5. NoDuplicates /\ BootAlone
    BY <1>2, <1>3, ProcsAssumption DEF NoDuplicates, BootAlone, Boot
  <1>6. Exclusive /\ Holders
    BY <1>2, <1>3, <1>4 DEF Exclusive, Holders
  <1>7. CommitPhase /\ BootPhase /\ DirtyPinned
    BY <1>2, <1>3 DEF CommitPhase, BootPhase, DirtyPinned, Committing
  <1> QED
    BY <1>1, <1>5, <1>6, <1>7 DEF LogInv

LEMMA CrashStep == ASSUME LogInv, TypeOK', Crash PROVE LogInv'
  <1>i. NoDuplicates
    BY DEF LogInv
  <1>2. /\ pc'[initproc] = "read_head" /\ tail'[initproc] = 1
        /\ \A p \in Procs : p # initproc => pc'[p] = "off"
        /\ \A p \in Procs : pc'[p] \notin Committing \union InOp
        /\ \A b \in Blocks : cache'[b] = NotCached /\ pin'[b] = 0 /\ holder'[b] = "none"
        /\ lh_n' = 0 /\ outstanding' = 0 /\ committing' = 0 /\ UNCHANGED <<hd_n, hd_block>>
    BY ResetFacts DEF Crash, disk
  <1>3. ~Up'
    BY <1>2 DEF Up, Boot
  <1>4. OpenOps' = {} /\ Cardinality(OpenOps') = 0
    BY <1>2, FS_EmptySet DEF OpenOps
  <1>5. NoDuplicates' /\ BootAlone'
    BY <1>i, <1>2, <1>3, ProcsAssumption DEF NoDuplicates, BootAlone, Boot
  <1>6. Exclusive' /\ Holders'
    BY <1>2, <1>3, <1>4 DEF Exclusive, Holders
  <1>7. CommitPhase' /\ BootPhase' /\ DirtyPinned'
    BY <1>2, <1>3 DEF CommitPhase, BootPhase, DirtyPinned, Committing
  <1> QED
    BY <1>5, <1>6, <1>7 DEF LogInv

\* During recovery nobody else runs and no buffer is locked or dirty.
LEMMA BootFacts ==
    ASSUME LogInv, ~Up
    PROVE  /\ \A p \in Procs : p # initproc => pc[p] = "off"
           /\ \A p \in Procs : pc[p] \notin Committing \union InOp
           /\ \A b \in Blocks : holder[b] = "none"
           /\ outstanding = 0 /\ committing = 0 /\ OpenOps = {}
  <1>i. TypeOK /\ BootAlone /\ Holders
    BY DEF LogInv
  <1>1. /\ \A p \in Procs : p # initproc => pc[p] = "off"
        /\ outstanding = 0 /\ committing = 0
    BY <1>i DEF BootAlone
  <1>2. pc[initproc] \in Boot
    BY DEF Up
  <1>3. \A p \in Procs : pc[p] \notin Committing \union InOp
    BY <1>1, <1>2 DEF Boot, Committing, InOp
  <1>4. \A b \in Blocks : holder[b] = "none"
    <2>1. \A b \in Blocks : holder[b] # "none" => holder[b] \in Procs
      BY <1>i DEF TypeOK
    <2> QED
      BY <1>i, <1>3, <2>1 DEF Holders, InOp
  <1>5. OpenOps = {}
    BY <1>3 DEF OpenOps
  <1> QED
    BY <1>1, <1>3, <1>4, <1>5

\* A step of recovery that does not end it.
LEMMA BootFrame ==
    ASSUME LogInv, ~Up, pc'[initproc] \in Boot,
           \A p \in Procs : p # initproc => pc'[p] = pc[p],
           UNCHANGED <<outstanding, committing, holder>>
    PROVE  BootAlone' /\ Exclusive' /\ Holders' /\ CommitPhase' /\ DirtyPinned' /\ ~Up'
  <1>1. /\ \A p \in Procs : p # initproc => pc[p] = "off"
        /\ \A b \in Blocks : holder[b] = "none"
        /\ outstanding = 0 /\ committing = 0
    BY BootFacts
  <1>2. ~Up'
    BY DEF Up
  <1>3. \A p \in Procs : pc'[p] \notin Committing \union InOp
    BY <1>1 DEF Boot, Committing, InOp
  <1>4. OpenOps' = {} /\ Cardinality(OpenOps') = 0
    BY <1>3, FS_EmptySet DEF OpenOps
  <1>5. BootAlone'
    BY <1>1, <1>2, ProcsAssumption DEF BootAlone, Boot
  <1>6. Exclusive' /\ Holders' /\ DirtyPinned'
    BY <1>1, <1>2, <1>3, <1>4 DEF Exclusive, Holders, DirtyPinned
  <1>7. CommitPhase'
    BY <1>2, <1>3 DEF CommitPhase, Committing
  <1> QED
    BY <1>2, <1>5, <1>6, <1>7

LEMMA ReadHeadStep == ASSUME LogInv, TypeOK', read_head PROVE LogInv'
  <1> USE ProcsAssumption DEF disk, buffers, header
  <1>i. TypeOK /\ NoDuplicates /\ BootPhase
    BY DEF LogInv
  <1>0. /\ UNCHANGED <<disk, buffers, outstanding, committing, tail>>
        /\ pc[initproc] = "read_head"
        /\ lh_n' = hd_n
        /\ \A p \in Procs : p # initproc => pc'[p] = pc[p]
    BY <1>i DEF TypeOK, read_head, At, Goto
  <1>1. pc'[initproc] = IF hd_n > 0 THEN "recover" ELSE "recover_clear"
    BY <1>i DEF TypeOK, read_head, Goto
  <1>2. hd_n \in Nat /\ \A t \in 1..hd_n : t \in Tails /\ t <= hd_n /\ ~(t < 1)
    BY <1>i, TailFacts DEF TypeOK
  <1>3. \A t \in 1..hd_n : lh_block'[t] = hd_block[t]
    BY <1>2 DEF read_head
  <1>4. ~Up /\ pc'[initproc] \in Boot
    BY <1>0, <1>1 DEF Up, Boot
  <1>5. BootAlone' /\ Exclusive' /\ Holders' /\ CommitPhase' /\ DirtyPinned' /\ ~Up'
    BY <1>0, <1>4, BootFrame
  <1>6. NoDuplicates'
    BY <1>i, <1>0, <1>3 DEF NoDuplicates
  <1>7. BootPhase'
    <2>1. tail'[initproc] = 1
      BY <1>i, <1>0 DEF BootPhase
    <2>2. \A b \in Blocks : pin'[b] = 0 /\ cache'[b] \in {NotCached, home'[b]}
      BY <1>i, <1>0, <1>4 DEF BootPhase
    <2>3. pc'[initproc] = "recover" => 1 <= hd_n
      BY <1>1, <1>2
    <2>4. pc'[initproc] = "recover_clear" => \A t \in 1..hd_n : FALSE
      BY <1>1, <1>2
    <2>5. pc'[initproc] # "read_head"
      BY <1>1
    <2> QED
      BY <1>0, <1>2, <1>3, <2>1, <2>2, <2>3, <2>4, <2>5 DEF BootPhase
  <1> QED
    BY <1>5, <1>6, <1>7 DEF LogInv

\* An iteration of install_trans(1).
LEMMA RecoverFacts ==
    ASSUME LogInv, RecoverInstall
    PROVE  /\ UNCHANGED <<logdata, hd_n, hd_block, pin, holder, header, outstanding,
                          committing>>
           /\ pc[initproc] = "recover" /\ hd_n = lh_n
           /\ tail[initproc] \in 1..lh_n /\ lh_block[tail[initproc]] \in Blocks
           /\ \A t \in 1..lh_n : lh_block[t] = hd_block[t]
           /\ home'[lh_block[tail[initproc]]] = logdata[tail[initproc]]
           /\ cache'[lh_block[tail[initproc]]] = logdata[tail[initproc]]
           /\ \A c \in Blocks : c # lh_block[tail[initproc]] =>
                home'[c] = home[c] /\ cache'[c] = cache[c]
           /\ \A q \in Procs : q # initproc => pc'[q] = pc[q]
           /\ \/ /\ tail[initproc] < lh_n /\ tail'[initproc] = tail[initproc] + 1
                 /\ pc'[initproc] = "recover"
              \/ /\ tail[initproc] = lh_n /\ pc'[initproc] = "recover_clear"
  <1> USE ProcsAssumption DEF disk, buffers, header
  <1>i. TypeOK /\ BootPhase
    BY DEF LogInv
  <1>0. /\ UNCHANGED <<logdata, hd_n, hd_block, pin, holder, header, outstanding,
                       committing>>
        /\ pc[initproc] = "recover"
    BY DEF RecoverInstall, At
  <1>1. /\ tail[initproc] \in 1..lh_n /\ lh_block[tail[initproc]] \in Blocks
    BY <1>i, <1>0 DEF TypeOK, BootPhase, Tails
  <1>2. hd_n = lh_n /\ \A t \in 1..lh_n : lh_block[t] = hd_block[t]
    BY <1>i, <1>0 DEF BootPhase
  <1>3. /\ home'[lh_block[tail[initproc]]] = logdata[tail[initproc]]
        /\ \A c \in Blocks : c # lh_block[tail[initproc]] => home'[c] = home[c]
    BY <1>i, <1>1 DEF TypeOK, RecoverInstall, Install
  <1>4. /\ cache'[lh_block[tail[initproc]]] = logdata[tail[initproc]]
        /\ \A c \in Blocks : c # lh_block[tail[initproc]] => cache'[c] = cache[c]
    BY <1>i, <1>1 DEF TypeOK, RecoverInstall, Install
  <1>5. tail[initproc] <= lh_n /\ LoopOr(initproc, "recover_clear")
    BY <1>1, <1>i DEF RecoverInstall, TypeOK
  <1>6. /\ \A q \in Procs : q # initproc => pc'[q] = pc[q] /\ tail'[q] = tail[q]
        /\ \/ /\ tail[initproc] < lh_n /\ tail'[initproc] = tail[initproc] + 1
              /\ pc'[initproc] = pc[initproc]
           \/ /\ tail[initproc] = lh_n /\ tail'[initproc] = 1
              /\ pc'[initproc] = "recover_clear"
    BY <1>i, <1>5, LoopStep
  <1> QED
    BY <1>0, <1>1, <1>2, <1>3, <1>4, <1>6

LEMMA RecoverInstallStep == ASSUME LogInv, TypeOK', RecoverInstall PROVE LogInv'
  <1> USE ProcsAssumption DEF disk, buffers, header
  <1>i. TypeOK /\ NoDuplicates /\ BootPhase
    BY DEF LogInv
  <1> DEFINE k == tail[initproc]
  <1> DEFINE b == lh_block[k]
  <1>0. /\ UNCHANGED <<logdata, hd_n, hd_block, pin, holder, header, outstanding,
                       committing>>
        /\ pc[initproc] = "recover" /\ hd_n = lh_n
        /\ k \in 1..lh_n /\ b \in Blocks
        /\ \A t \in 1..lh_n : lh_block[t] = hd_block[t]
        /\ home'[b] = logdata[k] /\ cache'[b] = logdata[k]
        /\ \A c \in Blocks : c # b => home'[c] = home[c] /\ cache'[c] = cache[c]
        /\ \A q \in Procs : q # initproc => pc'[q] = pc[q]
        /\ \/ k < lh_n /\ tail'[initproc] = k + 1 /\ pc'[initproc] = "recover"
           \/ k = lh_n /\ pc'[initproc] = "recover_clear"
    BY RecoverFacts
  <1>k. /\ k \in Nat /\ lh_n \in Nat /\ (\A t \in 1..lh_n : t \in Nat /\ t <= lh_n)
        /\ \A t \in 1..lh_n : lh_block[t] = b => t = k
        /\ \A t \in 1..lh_n : lh_block[t] \in Blocks
    BY <1>i, <1>0, TailFacts DEF TypeOK, NoDuplicates
  <1>4. ~Up /\ pc'[initproc] \in Boot
    BY <1>0 DEF Up, Boot
  <1>5. BootAlone' /\ Exclusive' /\ Holders' /\ CommitPhase' /\ DirtyPinned' /\ ~Up'
    BY <1>0, <1>4, BootFrame
  <1>6. NoDuplicates'
    BY <1>i, <1>0 DEF NoDuplicates
  <1>7. BootPhase'
    <2>1. \A t \in 1..lh_n : t < k => home[lh_block[t]] = logdata[t]
      BY <1>i, <1>0 DEF BootPhase
    <2> HIDE DEF k
    <2>2. \A t \in 1..lh_n : t < k \/ t = k => home'[lh_block[t]] = logdata[t]
      BY <1>0, <1>k, <2>1
    <2> HIDE DEF b
    <2>3. pc'[initproc] = "recover" =>
            /\ tail'[initproc] <= lh_n
            /\ \A t \in 1..lh_n : t < tail'[initproc] => t < k \/ t = k
      BY <1>0, <1>k
    <2>4. pc'[initproc] = "recover_clear" => \A t \in 1..lh_n : t < k \/ t = k
      BY <1>0, <1>k
    <2>5. \A c \in Blocks : pin[c] = 0 /\ cache[c] \in {NotCached, home[c]}
      BY <1>i, <1>4 DEF BootPhase
    <2>6. \A c \in Blocks : pin'[c] = 0 /\ cache'[c] \in {NotCached, home'[c]}
      BY <1>0, <2>5
    <2>7. pc'[initproc] # "read_head"
      BY <1>0
    <2> QED
      BY <1>0, <2>2, <2>3, <2>4, <2>6, <2>7 DEF BootPhase
  <1> QED
    BY <1>5, <1>6, <1>7 DEF LogInv

LEMMA RecoverClearStep == ASSUME LogInv, TypeOK', RecoverClear PROVE LogInv'
  <1> USE ProcsAssumption DEF disk, buffers, header
  <1>i. TypeOK /\ BootPhase
    BY DEF LogInv
  <1>0. /\ UNCHANGED <<home, logdata, buffers, outstanding, committing, tail>>
        /\ pc[initproc] = "recover_clear" /\ \A p \in Procs : pc'[p] = "idle"
        /\ lh_n' = 0 /\ hd_n' = 0
    BY <1>i DEF TypeOK, RecoverClear, write_head, At
  <1>1. ~Up /\ Up'
    BY <1>0 DEF Up, Boot
  <1>2. /\ \A b \in Blocks : holder[b] = "none"
        /\ outstanding = 0 /\ committing = 0
    BY <1>1, BootFacts
  <1>3. OpenOps' = {} /\ Cardinality(OpenOps') = 0
    BY <1>0, FS_EmptySet DEF OpenOps, InOp
  <1>4. NoDuplicates' /\ BootAlone'
    BY <1>0, <1>1 DEF NoDuplicates, BootAlone, Boot
  <1>5. Exclusive' /\ Holders'
    BY <1>0, <1>2, <1>3 DEF Exclusive, Holders, Committing
  <1>6. CommitPhase' /\ BootPhase'
    BY <1>0, <1>1 DEF CommitPhase, BootPhase, Up, Boot
  <1>7. DirtyPinned'
    <2>1. \A c : ~Pending(c)'
      BY <1>0 DEF Pending
    <2>2. \A b \in Blocks : pin[b] = 0 /\ cache[b] \in {NotCached, home[b]}
      BY <1>i, <1>1 DEF BootPhase
    <2> QED
      BY <1>0, <1>2, <2>1, <2>2 DEF DirtyPinned
  <1> QED
    BY <1>4, <1>5, <1>6, <1>7 DEF LogInv

----------------------------------------------------------------------------
LEMMA LogInvStep == ASSUME LogInv, [Next]_vars PROVE LogInv'
  <1>1. CASE UNCHANGED vars
    <2>1. /\ TypeOK /\ NoDuplicates /\ BootAlone /\ Exclusive
          /\ Holders /\ CommitPhase /\ BootPhase /\ DirtyPinned
      BY DEF LogInv
    <2>2. TypeOK' /\ NoDuplicates' /\ BootAlone' /\ Exclusive' /\ Holders'
      BY <1>1, <2>1 DEF vars, disk, buffers, header, TypeOK, NoDuplicates, BootAlone,
                        Exclusive, Holders, OpenOps, Up
    <2>3. CommitPhase' /\ BootPhase' /\ DirtyPinned'
      BY <1>1, <2>1 DEF vars, disk, buffers, header, CommitPhase, BootPhase,
                        DirtyPinned, Pending, View, Up
    <2> QED
      BY <2>2, <2>3 DEF LogInv
  <1>2. CASE Next
    <2>t. TypeOK'
      BY <1>2, TypeStep DEF LogInv
    <2> QED
      BY <1>2, <2>t, WaitStep, BeginStep, ModifyStep, LogWriteStep, EndOtherStep,
         EndLastStep, WriteLogStep, CommitHeadStep, InstallStep, ClearHeadStep,
         CommittedStep, ReadHeadStep, RecoverInstallStep, RecoverClearStep, CacheStep,
         CrashStep
      DEF Next, Op, EndOp, CommitStep, Recover
  <1> QED
    BY <1>1, <1>2

\* The inductive invariant holds for every number of processes, blocks, log
\* blocks and blocks per operation.
THEOREM LogInvariant == Spec => []LogInv
  BY InitLogInv, LogInvStep, PTL DEF Spec

----------------------------------------------------------------------------
(* Log implements AtomicDisk *)

LEMMA RecoveredEntry ==
    ASSUME NEW n, NEW block, NEW data, NEW homes, NEW t \in 1..n,
           block[t] \in Blocks, t <= t,
           \A u \in 1..n : block[u] = block[t] => u = t
    PROVE  RecoveredFrom(n, block, data, homes)[block[t]] = data[t]
  <1> DEFINE E == {u \in 1..n : block[u] = block[t]}
  <1>1. E = {t}
    OBVIOUS
  <1>2. (CHOOSE x \in E : \A u \in E : u <= x) = t
    BY <1>1
  <1> QED
    BY <1>1, <1>2 DEF RecoveredFrom

LEMMA RecoveredOther ==
    ASSUME NEW n, NEW block, NEW data, NEW homes, NEW b \in Blocks,
           \A u \in 1..n : block[u] # b
    PROVE  RecoveredFrom(n, block, data, homes)[b] = homes[b]
  BY DEF RecoveredFrom

LEMMA RecoveredExt ==
    ASSUME NEW n, NEW block, NEW data, NEW homes, NEW f,
           f = [b \in Blocks |-> f[b]],
           \A b \in Blocks : RecoveredFrom(n, block, data, homes)[b] = f[b]
    PROVE  RecoveredFrom(n, block, data, homes) = f
  BY DEF RecoveredFrom

LEMMA RecoveredFcn ==
    ASSUME NEW n, NEW block, NEW data, NEW homes
    PROVE  LET R == RecoveredFrom(n, block, data, homes)
           IN  R = [b \in Blocks |-> R[b]]
  BY DEF RecoveredFrom

\* What recovery yields, when the log is empty and when it is not.
LEMMA RecoveredNow ==
    ASSUME LogInv
    PROVE  /\ hd_n = 0 => \A b \in Blocks : Recovered[b] = home[b]
           /\ \A t \in 1..hd_n : /\ hd_block[t] \in Blocks
                                 /\ Recovered[hd_block[t]] = logdata[t]
           /\ \A b \in Blocks : (\A t \in 1..hd_n : hd_block[t] # b) =>
                Recovered[b] = home[b]
  <1>i. TypeOK /\ NoDuplicates
    BY DEF LogInv
  <1>1. \A t \in 1..hd_n : hd_block[t] \in Blocks /\ t <= t
    BY <1>i, TailFacts DEF TypeOK
  <1>2. \A t \in 1..hd_n : Recovered[hd_block[t]] = logdata[t]
    BY <1>i, <1>1, RecoveredEntry DEF Recovered, NoDuplicates
  <1>3. \A b \in Blocks : (\A t \in 1..hd_n : hd_block[t] # b) => Recovered[b] = home[b]
    BY RecoveredOther DEF Recovered
  <1> QED
    BY <1>1, <1>2, <1>3

\* A step that changes neither what recovery yields, nor what readers see, nor
\* who is inside an operation is a stutter of AtomicDisk.
LEMMA Stutter ==
    ASSUME Recovered' = Recovered, Up' = Up, OpenOps' = OpenOps,
           Up => \A b \in Blocks : View(b)' = View(b)
    PROVE  UNCHANGED <<Current, Recovered, OpenOps>>
  BY DEF Current

LEMMA DiskSame == ASSUME UNCHANGED disk PROVE Recovered' = Recovered
  BY DEF Recovered, disk

LEMMA AbsWait ==
    ASSUME LogInv, NEW p \in Procs,
           \/ Call(p) \/ BeginSleep(p) \/ LogWritePanic(p) \/ Committed(p)
           \/ \E b \in Blocks : log_write(p, b)
    PROVE  UNCHANGED <<Current, Recovered, OpenOps>>
  <1> USE ProcsAssumption
  <1>i. TypeOK
    BY DEF LogInv
  <1>0. UNCHANGED <<disk, cache>>
    BY DEF Call, BeginSleep, LogWritePanic, Committed, log_write, buffers
  <1>1. \A q \in Procs :
            /\ pc'[q] \in InOp <=> pc[q] \in InOp
            /\ pc'[q] \in Boot <=> pc[q] \in Boot
    <2>1. CASE Call(p) \/ BeginSleep(p) \/ LogWritePanic(p)
      BY <1>i, <2>1 DEF TypeOK, Call, BeginSleep, LogWritePanic, At, Goto, InOp, Boot
    <2>2. CASE Committed(p)
      BY <1>i, <2>2 DEF TypeOK, Committed, At, WakeupAnd, InOp, Boot
    <2>3. CASE \E b \in Blocks : log_write(p, b)
      BY <1>i, <2>3 DEF TypeOK, log_write, At, Goto, InOp, Boot
    <2> QED
      BY <2>1, <2>2, <2>3
  <1>2. Up' = Up /\ OpenOps' = OpenOps
    BY <1>1 DEF Up, OpenOps
  <1>3. \A b \in Blocks : View(b)' = View(b)
    BY <1>0 DEF View, disk
  <1> QED
    BY <1>0, <1>2, <1>3, DiskSame, Stutter

LEMMA AbsCache ==
    ASSUME LogInv, NEW b \in Blocks, Fetch(b) \/ Evict(b)
    PROVE  UNCHANGED <<Current, Recovered, OpenOps>>
  <1>1. /\ \A c \in Blocks : View(c)' = View(c)
        /\ UNCHANGED <<disk, pc>>
    BY CacheView DEF LogInv
  <1>2. Up' = Up /\ OpenOps' = OpenOps
    BY <1>1 DEF Up, OpenOps
  <1> QED
    BY <1>1, <1>2, DiskSame, Stutter

\* begin_op() and end_op() open and close an operation.
LEMMA AbsBeginEnd ==
    ASSUME LogInv, NEW p \in Procs, BeginGo(p) \/ EndOther(p) \/ EndLast(p)
    PROVE  /\ UNCHANGED <<Current, Recovered>>
           /\ BeginGo(p) => p \notin OpenOps /\ OpenOps' = OpenOps \union {p}
           /\ ~BeginGo(p) => p \in OpenOps /\ OpenOps' = OpenOps \ {p}
  <1> USE ProcsAssumption
  <1>i. TypeOK
    BY DEF LogInv
  <1>0. UNCHANGED <<disk, cache>>
    BY DEF BeginGo, EndOther, EndLast, buffers
  <1>1. CASE BeginGo(p)
    <2>1. /\ pc[p] = "begin" /\ pc'[p] = "op"
          /\ \A q \in Procs : q # p => pc'[q] = pc[q]
      BY <1>i, <1>1 DEF TypeOK, BeginGo, At, Goto
    <2>2. p \notin OpenOps /\ OpenOps' = OpenOps \union {p}
      BY <2>1 DEF OpenOps, InOp
    <2>3. Up' = Up
      BY <2>1 DEF Up, Boot
    <2>4. \A b \in Blocks : View(b)' = View(b)
      BY <1>0 DEF View, disk
    <2> QED
      BY <1>0, <1>1, <2>2, <2>3, <2>4, DiskSame DEF Current
  <1>2. CASE EndOther(p) \/ EndLast(p)
    <2>0. pc[p] = "op"
      BY <1>2 DEF EndOther, EndLast, At
    <2>1. \A q \in Procs : /\ pc'[q] \in InOp <=> pc[q] \in InOp /\ q # p
                           /\ pc'[q] \in Boot <=> pc[q] \in Boot
      <3>1. CASE EndOther(p)
        BY <1>i, <3>1 DEF TypeOK, EndOther, At, WakeupAnd, InOp, Boot
      <3>2. CASE EndLast(p)
        <4>1. \A l : pc' = [pc EXCEPT ![p] = l] =>
                pc'[p] = l /\ \A q \in Procs : q # p => pc'[q] = pc[q]
          BY <1>i DEF TypeOK
        <4>2. /\ pc'[p] \in {"write_log", "done"}
              /\ \A q \in Procs : q # p => pc'[q] = pc[q]
          BY <3>2, <4>1 DEF EndLast, Goto
        <4> QED
          BY <2>0, <4>2 DEF InOp, Boot
      <3> QED
        BY <1>2, <3>1, <3>2
    <2>2. p \in OpenOps /\ OpenOps' = OpenOps \ {p}
      BY <2>0, <2>1 DEF OpenOps, InOp
    <2>3. Up' = Up
      BY <2>1 DEF Up
    <2>4. \A b \in Blocks : View(b)' = View(b)
      BY <1>0 DEF View, disk
    <2>5. ~BeginGo(p)
      BY <2>0 DEF BeginGo, At
    <2> QED
      BY <1>0, <2>2, <2>3, <2>4, <2>5, DiskSame DEF Current
  <1> QED
    BY <1>1, <1>2

\* Modifying a buffer is a write.
LEMMA AbsModify ==
    ASSUME LogInv, NEW p \in Procs, NEW b \in Blocks, NEW v \in Values, Modify(p, b, v)
    PROVE  /\ UNCHANGED <<Recovered, OpenOps>> /\ p \in OpenOps
           /\ Current' = [Current EXCEPT ![b] = v]
  <1> USE ProcsAssumption, CacheAssumption
  <1>i. TypeOK
    BY DEF LogInv
  <1>0. /\ UNCHANGED disk /\ pc[p] = "op" /\ pc'[p] = "logging"
        /\ \A q \in Procs : q # p => pc'[q] = pc[q]
        /\ cache'[b] = v /\ \A c \in Blocks : c # b => cache'[c] = cache[c]
    BY <1>i DEF TypeOK, Modify, At, Goto
  <1>1. p \in OpenOps /\ OpenOps' = OpenOps
    BY <1>0 DEF OpenOps, InOp
  <1>2. Up
    BY <1>0, OpenNoCommit DEF InOp
  <1>3. Up'
    BY <1>0, <1>2 DEF Up, Boot
  <1>4. View(b)' = v /\ \A c \in Blocks : c # b => View(c)' = View(c)
    BY <1>0 DEF View, disk
  <1>5. Current' = [Current EXCEPT ![b] = v]
    BY <1>2, <1>3, <1>4 DEF Current
  <1> QED
    BY <1>0, <1>1, <1>5, DiskSame

\* The same facts about the state after a step.
LEMMA RecoveredNext ==
    ASSUME LogInv'
    PROVE  /\ hd_n' = 0 => \A b \in Blocks : Recovered'[b] = home'[b]
           /\ \A t \in 1..hd_n' : /\ hd_block'[t] \in Blocks
                                  /\ Recovered'[hd_block'[t]] = logdata'[t]
           /\ \A b \in Blocks : (\A t \in 1..hd_n' : hd_block'[t] # b) =>
                Recovered'[b] = home'[b]
  <1>i. TypeOK' /\ NoDuplicates'
    BY DEF LogInv
  <1>1. \A t \in 1..hd_n' : hd_block'[t] \in Blocks /\ t <= t
    BY <1>i, TailFacts DEF TypeOK
  <1>2. \A t \in 1..hd_n' : Recovered'[hd_block'[t]] = logdata'[t]
    BY <1>i, <1>1, RecoveredEntry DEF Recovered, NoDuplicates
  <1>3. \A b \in Blocks : (\A t \in 1..hd_n' : hd_block'[t] # b) =>
            Recovered'[b] = home'[b]
    BY RecoveredOther DEF Recovered
  <1> QED
    BY <1>1, <1>2, <1>3

\* Equal values at every block make the same contents.
LEMMA RecoveredEq ==
    ASSUME \A b \in Blocks : Recovered'[b] = Recovered[b]
    PROVE  Recovered' = Recovered
  BY DEF Recovered, RecoveredFrom

LEMMA AbsWriteLog ==
    ASSUME LogInv, LogInv', NEW p \in Procs, write_log(p)
    PROVE  UNCHANGED <<Current, Recovered, OpenOps>>
  <1> USE ProcsAssumption
  <1>0. /\ UNCHANGED <<home, hd_n, cache>> /\ hd_n = 0
        /\ pc[p] = "write_log" /\ pc'[p] \in {"write_log", "write_head"}
        /\ \A q \in Procs : q # p => pc'[q] = pc[q]
    BY WriteLogFacts
  <1>1. \A b \in Blocks : Recovered'[b] = Recovered[b]
    BY <1>0, RecoveredNow, RecoveredNext
  <1>2. Up' = Up /\ OpenOps' = OpenOps
    BY <1>0 DEF Up, OpenOps, Boot, InOp
  <1>3. \A b \in Blocks : View(b)' = View(b)
    BY <1>0 DEF View
  <1> QED
    BY <1>1, <1>2, <1>3, RecoveredEq, Stutter

\* write_head() makes everything readers see permanent, at once.
LEMMA AbsCommitHead ==
    ASSUME LogInv, LogInv', NEW p \in Procs, CommitHead(p)
    PROVE  OpenOps = {} /\ OpenOps' = {} /\ Current' = Current /\ Recovered' = Current
  <1> USE ProcsAssumption
  <1>0. /\ UNCHANGED <<home, logdata, buffers, header>>
        /\ pc[p] = "write_head" /\ pc'[p] = "install"
        /\ \A q \in Procs : q # p => pc'[q] = pc[q]
        /\ hd_n' = lh_n
        /\ \A t \in 1..lh_n : hd_block'[t] = lh_block[t]
        /\ \A t \in 1..lh_n : logdata[t] = View(lh_block[t])
    BY CommitHeadFacts
  <1>1. Up /\ OpenOps = {} /\ \A b \in Blocks : holder[b] = "none"
    BY <1>0, CommitterAlone DEF Committing
  <1>2. Up' /\ OpenOps' = OpenOps
    BY <1>0, <1>1 DEF Up, OpenOps, Boot, InOp
  <1>3. \A b \in Blocks : View(b)' = View(b)
    BY <1>0 DEF View, buffers
  <1>4. \A b \in Blocks : Recovered'[b] = View(b)
    <2> SUFFICES ASSUME NEW b \in Blocks PROVE Recovered'[b] = View(b)
      OBVIOUS
    <2>1. CASE \E t \in 1..lh_n : lh_block[t] = b
      BY <1>0, <2>1, RecoveredNext
    <2>2. CASE \A t \in 1..lh_n : lh_block[t] # b
      <3>1. Recovered'[b] = home[b]
        BY <1>0, <2>2, RecoveredNext
      <3>2. ~Pending(b)
        BY <2>2 DEF Pending
      <3>3. cache[b] \in {NotCached, home[b]}
        BY <1>1, <3>2 DEF LogInv, DirtyPinned
      <3> QED
        BY <3>1, <3>3 DEF View
    <2> QED
      BY <2>1, <2>2
  <1>5. Current = [b \in Blocks |-> View(b)] /\ Current' = Current
    BY <1>1, <1>2, <1>3 DEF Current
  <1>6. Recovered' = [b \in Blocks |-> View(b)]
    BY <1>4 DEF Recovered, RecoveredFrom
  <1> QED
    BY <1>1, <1>2, <1>5, <1>6

LEMMA AbsInstall ==
    ASSUME LogInv, LogInv', NEW p \in Procs, install_trans(p)
    PROVE  UNCHANGED <<Current, Recovered, OpenOps>>
  <1> USE ProcsAssumption
  <1> DEFINE c == lh_block[tail[p]]
  <1>0. /\ UNCHANGED <<logdata, hd_n, hd_block, cache>>
        /\ pc[p] = "install" /\ pc'[p] \in {"install", "clear"}
        /\ tail[p] \in 1..lh_n
        /\ \A b \in Blocks : b # c => home'[b] = home[b]
        /\ cache[c] # NotCached
        /\ \A q \in Procs : q # p => pc'[q] = pc[q]
    BY InstallFacts
  <1>1. hd_n = lh_n /\ hd_block[tail[p]] = c
    BY <1>0 DEF LogInv, CommitPhase
  <1> HIDE DEF c
  <1>2. \A b \in Blocks : Recovered'[b] = Recovered[b]
    <2> SUFFICES ASSUME NEW b \in Blocks PROVE Recovered'[b] = Recovered[b]
      OBVIOUS
    <2>1. CASE \E t \in 1..hd_n : hd_block[t] = b
      BY <1>0, <2>1, RecoveredNow, RecoveredNext
    <2>2. CASE \A t \in 1..hd_n : hd_block[t] # b
      BY <1>0, <1>1, <2>2, RecoveredNow, RecoveredNext
    <2> QED
      BY <2>1, <2>2
  <1>3. Up' = Up /\ OpenOps' = OpenOps
    BY <1>0 DEF Up, OpenOps, Boot, InOp
  <1>4. \A b \in Blocks : View(b)' = View(b)
    BY <1>0 DEF View
  <1> QED
    BY <1>2, <1>3, <1>4, RecoveredEq, Stutter

\* Clearing the header changes nothing: every entry is at its home already.
LEMMA AbsClear ==
    ASSUME LogInv, LogInv', NEW p \in Procs, ClearHead(p)
    PROVE  UNCHANGED <<Current, Recovered, OpenOps>>
  <1> USE ProcsAssumption
  <1>i. TypeOK /\ CommitPhase
    BY DEF LogInv
  <1>0. /\ UNCHANGED <<home, cache>> /\ hd_n' = 0
        /\ pc[p] = "clear" /\ pc'[p] = "done"
        /\ \A q \in Procs : q # p => pc'[q] = pc[q]
    BY <1>i DEF TypeOK, ClearHead, write_head, buffers, At, Goto
  <1>1. hd_n = lh_n /\ \A t \in 1..hd_n : home[hd_block[t]] = logdata[t]
    BY <1>i, <1>0 DEF CommitPhase
  <1>2. \A b \in Blocks : Recovered'[b] = Recovered[b]
    <2> SUFFICES ASSUME NEW b \in Blocks PROVE home[b] = Recovered[b]
      BY <1>0, RecoveredNext
    <2>1. CASE \E t \in 1..hd_n : hd_block[t] = b
      BY <1>1, <2>1, RecoveredNow
    <2> QED
      BY <2>1, RecoveredNow
  <1>3. Up' = Up /\ OpenOps' = OpenOps
    BY <1>0 DEF Up, OpenOps, Boot, InOp
  <1>4. \A b \in Blocks : View(b)' = View(b)
    BY <1>0 DEF View
  <1> QED
    BY <1>2, <1>3, <1>4, RecoveredEq, Stutter

\* Recovery changes nothing that is visible.
LEMMA AbsRecover ==
    ASSUME LogInv, LogInv', Recover
    PROVE  UNCHANGED <<Current, Recovered, OpenOps>>
  <1> USE ProcsAssumption
  <1>i. TypeOK /\ BootPhase
    BY DEF LogInv
  <1>1. CASE read_head
    <2>1. /\ UNCHANGED disk /\ pc[initproc] = "read_head"
          /\ \A q \in Procs : q # initproc => pc'[q] = pc[q]
      BY <1>i, <1>1 DEF TypeOK, read_head, At, Goto
    <2>2. pc'[initproc] \in {"recover", "recover_clear"}
      BY <1>i, <1>1 DEF TypeOK, read_head, Goto
    <2>3. ~Up /\ ~Up' /\ OpenOps' = OpenOps
      BY <2>1, <2>2 DEF Up, OpenOps, Boot, InOp
    <2> QED
      BY <2>1, <2>3, DiskSame DEF Current
  <1>2. CASE RecoverInstall
    <2> DEFINE c == lh_block[tail[initproc]]
    <2>1. /\ UNCHANGED <<logdata, hd_n, hd_block>>
          /\ pc[initproc] = "recover" /\ pc'[initproc] \in {"recover", "recover_clear"}
          /\ \A q \in Procs : q # initproc => pc'[q] = pc[q]
          /\ \A b \in Blocks : b # c => home'[b] = home[b]
          /\ tail[initproc] \in 1..hd_n /\ c = hd_block[tail[initproc]]
      BY <1>2, RecoverFacts
    <2> HIDE DEF c
    <2>2. \A b \in Blocks : Recovered'[b] = Recovered[b]
      <3> SUFFICES ASSUME NEW b \in Blocks PROVE Recovered'[b] = Recovered[b]
        OBVIOUS
      <3>1. CASE \E t \in 1..hd_n : hd_block[t] = b
        BY <2>1, <3>1, RecoveredNow, RecoveredNext
      <3>2. CASE \A t \in 1..hd_n : hd_block[t] # b
        BY <2>1, <3>2, RecoveredNow, RecoveredNext
      <3> QED
        BY <3>1, <3>2
    <2>3. ~Up /\ ~Up' /\ OpenOps' = OpenOps
      BY <2>1 DEF Up, OpenOps, Boot, InOp
    <2> QED
      BY <2>2, <2>3, RecoveredEq DEF Current
  <1>3. CASE RecoverClear
    <2>1. /\ UNCHANGED <<home, cache>> /\ hd_n' = 0
          /\ pc[initproc] = "recover_clear" /\ \A p \in Procs : pc'[p] = "idle"
      BY <1>3 DEF RecoverClear, write_head, buffers, At
    <2>2. ~Up /\ Up' /\ OpenOps = {} /\ OpenOps' = {}
      <3>1. ~Up /\ Up' /\ OpenOps' = {}
        BY <2>1 DEF Up, Boot, OpenOps, InOp
      <3> QED
        BY <3>1, BootFacts
    <2>3. hd_n = lh_n /\ \A t \in 1..hd_n : home[hd_block[t]] = logdata[t]
      BY <1>i, <2>1 DEF BootPhase
    <2>4. \A b \in Blocks : Recovered[b] = home[b]
      <3> SUFFICES ASSUME NEW b \in Blocks PROVE Recovered[b] = home[b]
        OBVIOUS
      <3>1. CASE \E t \in 1..hd_n : hd_block[t] = b
        BY <2>3, <3>1, RecoveredNow
      <3> QED
        BY <3>1, RecoveredNow
    <2>5. Recovered' = Recovered
      BY <2>1, <2>4, RecoveredNext, RecoveredEq
    <2>6. \A b \in Blocks : View(b)' = Recovered[b]
      <3>1. \A b \in Blocks : cache[b] \in {NotCached, home[b]}
        BY <1>i, <2>2 DEF BootPhase
      <3> QED
        BY <2>1, <2>4, <3>1 DEF View
    <2>7. Current' = Recovered /\ Current = Recovered
      <3>1. Recovered = [b \in Blocks |-> Recovered[b]]
        BY RecoveredFcn DEF Recovered
      <3>2. Current' = [b \in Blocks |-> View(b)']
        BY <2>2 DEF Current
      <3>3. Current' = [b \in Blocks |-> Recovered[b]]
        BY <2>6, <3>2
      <3> QED
        BY <2>2, <3>1, <3>3 DEF Current
    <2> QED
      BY <2>2, <2>5, <2>7
  <1> QED
    BY <1>1, <1>2, <1>3 DEF Recover

LEMMA AbsCrash ==
    ASSUME LogInv, Crash
    PROVE  Current' = Recovered /\ Recovered' = Recovered /\ OpenOps' = {}
  <1>1. UNCHANGED disk /\ pc' = Reset.pc
    BY DEF Crash
  <1>2. ~Up' /\ OpenOps' = {}
    BY <1>1, ResetFacts DEF Up, Boot, OpenOps
  <1> QED
    BY <1>1, <1>2, DiskSame DEF Current

LEMMA AbsInitial == ASSUME Init PROVE Atomic!AbsInit
  <1>1. LogInv
    BY InitLogInv
  <1>2. hd_n = 0 /\ home \in [Blocks -> Values] /\ pc = Reset.pc
    BY DEF Init
  <1>3. ~Up /\ OpenOps = {}
    BY <1>2, ResetFacts DEF Up, Boot, OpenOps
  <1>4. \A b \in Blocks : Recovered[b] = home[b]
    BY <1>1, <1>2, RecoveredNow
  <1>5. Recovered = [b \in Blocks |-> Recovered[b]]
    BY RecoveredFcn DEF Recovered
  <1>6. Recovered \in [Blocks -> Values]
    BY <1>2, <1>4, <1>5
  <1>7. Current = Recovered
    BY <1>3 DEF Current
  <1> QED
    BY <1>3, <1>6, <1>7 DEF Atomic!AbsInit, OpenOps

LEMMA AbsStep ==
    ASSUME LogInv, LogInv', [Next]_vars
    PROVE  [Atomic!AbsNext]_(Atomic!absvars)
  <1>a. ASSUME UNCHANGED <<Current, Recovered, OpenOps>>
        PROVE  UNCHANGED Atomic!absvars
    BY <1>a DEF Atomic!absvars, OpenOps
  <1>1. CASE UNCHANGED vars
    <2>1. UNCHANGED <<disk, cache, pc>>
      BY <1>1 DEF vars, disk, buffers
    <2>2. Up' = Up /\ OpenOps' = OpenOps /\ \A b \in Blocks : View(b)' = View(b)
      BY <2>1 DEF Up, OpenOps, View, disk
    <2> QED
      BY <1>a, <2>1, <2>2, DiskSame, Stutter
  <1>2. ASSUME NEW p \in Procs, BeginGo(p) PROVE Atomic!AbsNext
    <2>1. /\ UNCHANGED <<Current, Recovered>>
          /\ p \notin OpenOps /\ OpenOps' = OpenOps \union {p}
      BY <1>2, AbsBeginEnd
    <2>2. Atomic!Begin(p)
      BY <2>1 DEF Atomic!Begin, OpenOps
    <2> QED
      BY <2>2 DEF Atomic!AbsNext
  <1>3. ASSUME NEW p \in Procs, EndOp(p) PROVE Atomic!AbsNext
    <2>0. ~BeginGo(p)
      BY <1>3 DEF EndOp, EndOther, EndLast, BeginGo, At
    <2>1. /\ UNCHANGED <<Current, Recovered>>
          /\ p \in OpenOps /\ OpenOps' = OpenOps \ {p}
      BY <1>3, <2>0, AbsBeginEnd DEF EndOp
    <2>2. Atomic!End(p)
      BY <2>1 DEF Atomic!End, OpenOps
    <2> QED
      BY <2>2 DEF Atomic!AbsNext
  <1>4. ASSUME NEW p \in Procs, NEW b \in Blocks, NEW v \in Values, Modify(p, b, v)
        PROVE  Atomic!AbsNext
    <2>1. /\ UNCHANGED <<Recovered, OpenOps>> /\ p \in OpenOps
          /\ Current' = [Current EXCEPT ![b] = v]
      BY <1>4, AbsModify
    <2>2. Atomic!Write(p, b, v)
      BY <2>1 DEF Atomic!Write, OpenOps
    <2> QED
      BY <2>2 DEF Atomic!AbsNext
  <1>5. ASSUME NEW p \in Procs, CommitHead(p) PROVE Atomic!AbsNext
    <2>1. OpenOps = {} /\ OpenOps' = {} /\ Current' = Current /\ Recovered' = Current
      BY <1>5, AbsCommitHead
    <2>2. Atomic!Commit
      BY <2>1 DEF Atomic!Commit, OpenOps
    <2> QED
      BY <2>2 DEF Atomic!AbsNext
  <1>6. CASE Crash
    <2>1. Current' = Recovered /\ Recovered' = Recovered /\ OpenOps' = {}
      BY <1>6, AbsCrash
    <2>2. Atomic!CrashAndRecover
      BY <2>1 DEF Atomic!CrashAndRecover, OpenOps
    <2> QED
      BY <2>2 DEF Atomic!AbsNext
  <1>7. ASSUME NEW p \in Procs,
               \/ Call(p) \/ BeginSleep(p) \/ LogWritePanic(p) \/ Committed(p)
               \/ \E b \in Blocks : log_write(p, b)
        PROVE  UNCHANGED Atomic!absvars
    BY <1>7, <1>a, AbsWait
  <1>8. ASSUME NEW p \in Procs, write_log(p) \/ install_trans(p) \/ ClearHead(p)
        PROVE  UNCHANGED Atomic!absvars
    BY <1>8, <1>a, AbsWriteLog, AbsInstall, AbsClear
  <1>9. ASSUME NEW b \in Blocks, Fetch(b) \/ Evict(b) PROVE UNCHANGED Atomic!absvars
    BY <1>9, <1>a, AbsCache
  <1>10. CASE Recover
    BY <1>10, <1>a, AbsRecover
  <1> QED
    BY <1>1, <1>2, <1>3, <1>4, <1>5, <1>6, <1>7, <1>8, <1>9, <1>10
    DEF Next, Op, CommitStep

\* The log implements an atomic disk: whatever the moment of a crash, recovery
\* restores the blocks as they were between two operations, and until then
\* readers see every write.
THEOREM CrashAtomicity == Spec => CrashAtomic
  <1>1. Init => Atomic!AbsInit
    BY AbsInitial
  <1>2. LogInv /\ LogInv' /\ [Next]_vars => [Atomic!AbsNext]_(Atomic!absvars)
    BY AbsStep
  <1> QED
    BY <1>1, <1>2, LogInvariant, PTL DEF Spec, CrashAtomic, Atomic!AbsSpec

\* When the last end_op() has returned, everything written is on the disk.
THEOREM Durability == Spec => []QuietDurable
  <1>1. LogInv => QuietDurable
    <2> SUFFICES ASSUME LogInv, Up, outstanding = 0, committing = 0
                 PROVE  hd_n = 0 /\ \A b \in Blocks : View(b) = home[b]
      BY DEF QuietDurable
    <2>i. TypeOK /\ Exclusive /\ Holders /\ CommitPhase /\ DirtyPinned
      BY DEF LogInv
    <2>1. \A p \in Procs : pc[p] \notin Committing
      BY <2>i DEF Exclusive
    <2>2. lh_n = 0
      BY <2>i DEF TypeOK, Exclusive
    <2>3. hd_n = 0
      BY <2>i, <2>1 DEF CommitPhase, Committing
    <2>4. OpenOps = {}
      BY <2>i, OpenEmpty DEF Exclusive
    <2>5. \A b \in Blocks : holder[b] = "none"
      <3>1. \A b \in Blocks : holder[b] # "none" => holder[b] \in Procs
        BY <2>i DEF TypeOK
      <3> QED
        BY <2>i, <2>4, <3>1 DEF Holders, OpenOps, InOp
    <2>6. \A b \in Blocks : ~Pending(b)
      BY <2>2 DEF Pending
    <2>7. \A b \in Blocks : cache[b] \in {NotCached, home[b]}
      BY <2>i, <2>5, <2>6 DEF DirtyPinned
    <2> QED
      BY <2>3, <2>7 DEF View
  <1> QED
    BY <1>1, LogInvariant, PTL

\* No pin is lost and none is left behind.
THEOREM Pins == Spec => []PinsMatchLog
  <1>1. LogInv => PinsMatchLog
    <2> SUFFICES ASSUME LogInv, Up, committing = 0, NEW b \in Blocks
                 PROVE  pin[b] = IF b \in Logged THEN 1 ELSE 0
      BY DEF PinsMatchLog
    <2>1. \A p \in Procs : pc[p] \notin Committing
      BY DEF LogInv, Exclusive
    <2>2. Pending(b) <=> b \in Logged
      BY <2>1 DEF Pending, Logged, Committing
    <2> QED
      BY <2>2 DEF LogInv, DirtyPinned
  <1> QED
    BY <1>1, LogInvariant, PTL

----------------------------------------------------------------------------
(* The reservation of begin_op() *)

\* An operation has modified at most MAXOPBLOCKS blocks, among them the one it
\* holds; the others are in the log.
OpWrites ==
    \A p \in Procs : pc[p] \in InOp =>
        /\ IsFiniteSet(wrote[p]) /\ Cardinality(wrote[p]) <= MAXOPBLOCKS
        /\ \A b \in Blocks : holder[b] = p => b \in wrote[p]
        /\ \A b \in wrote[p] : b \in Logged \/ holder[b] = p

ReservedInv == LogInv /\ OpWrites /\ LogReserved

\* Operation p still owes its k-th block.
Owes(p, k) ==
    \/ k > Cardinality(wrote[p])
    \/ k = Cardinality(wrote[p]) /\ \E b \in Blocks : holder[b] = p /\ b \notin Logged

LEMMA OwedIs ==
    \A c : c \in Owed <=> /\ c \in OpenOps \X (1..MAXOPBLOCKS)
                          /\ Owes(c[1], c[2])
  BY DEF Owed, Owes

\* No operation owes more than begin_op() reserved for it.
LEMMA OwedBound ==
    /\ IsFiniteSet(Owed) /\ Cardinality(Owed) \in Nat
    /\ Cardinality(Owed) <= Cardinality(OpenOps) * MAXOPBLOCKS
  <1>1. MAXOPBLOCKS \in Nat /\ 1 \in Int /\ MAXOPBLOCKS \in Int /\ ~(1 > MAXOPBLOCKS)
    BY LogAssumption
  <1>2. IsFiniteSet(1..MAXOPBLOCKS) /\ Cardinality(1..MAXOPBLOCKS) = MAXOPBLOCKS
    BY <1>1, FS_Interval
  <1>3. /\ IsFiniteSet(OpenOps \X (1..MAXOPBLOCKS))
        /\ Cardinality(OpenOps \X (1..MAXOPBLOCKS)) = Cardinality(OpenOps) * MAXOPBLOCKS
    BY <1>2, OpenFinite, FS_Product
  <1>4. Owed \in SUBSET (OpenOps \X (1..MAXOPBLOCKS))
    BY DEF Owed
  <1> QED
    BY <1>3, <1>4, FS_Subset, FS_CardinalityType

\* A step after which no operation is under way.
LEMMA NoOpsStep ==
    ASSUME TypeOK', \A q \in Procs : pc'[q] \notin InOp
    PROVE  OpWrites' /\ LogReserved'
  <1>1. OpWrites'
    BY DEF OpWrites
  <1>2. OpenOps' = {}
    BY DEF OpenOps
  <1>3. Owed' = {}
    BY <1>2 DEF Owed
  <1> QED
    BY <1>1, <1>3, FS_EmptySet, LogAssumption DEF TypeOK, LogReserved

LEMMA OwedLess ==
    ASSUME LogReserved, TypeOK, NEW Owed1, Owed1 \subseteq Owed
    PROVE  Cardinality(Owed1) \in Nat /\ lh_n + Cardinality(Owed1) <= LOGBLOCKS
  <1>1. IsFiniteSet(Owed1) /\ Cardinality(Owed1) <= Cardinality(Owed)
    BY OwedBound, FS_Subset
  <1>2. Cardinality(Owed1) \in Nat
    BY <1>1, FS_CardinalityType
  <1> QED
    BY <1>1, <1>2, OwedBound, LogAssumption DEF LogReserved, TypeOK

\* A step that begins no operation and leaves log, locks and the writes of
\* those that are still under way alone.
LEMMA OwedQuiet ==
    ASSUME ReservedInv,
           \A q \in Procs : pc'[q] \in InOp => pc[q] \in InOp /\ wrote'[q] = wrote[q],
           UNCHANGED <<lh_n, lh_block, holder>>
    PROVE  OpWrites' /\ LogReserved'
  <1>1. Logged' = Logged
    BY DEF Logged
  <1>2. OpWrites'
    BY <1>1 DEF ReservedInv, OpWrites
  <1>3. Owed' \subseteq Owed
    BY <1>1 DEF Owed, OpenOps
  <1> QED
    BY <1>2, <1>3, OwedLess DEF ReservedInv, LogInv, LogReserved

LEMMA ReserveBegin ==
    ASSUME ReservedInv, LogInv', NEW p \in Procs, BeginGo(p)
    PROVE  OpWrites' /\ LogReserved'
  <1>i. TypeOK /\ Exclusive /\ Holders /\ OpWrites
    BY DEF ReservedInv, LogInv
  <1>0. /\ pc[p] = "begin" /\ wrote'[p] = {}
        /\ \A q \in Procs : q # p => pc'[q] = pc[q] /\ wrote'[q] = wrote[q]
        /\ UNCHANGED <<lh_n, lh_block, holder>>
        /\ outstanding' = outstanding + 1
        /\ ~MustWait
    BY <1>i DEF BeginGo, TypeOK, At, Goto, buffers, header
  <1>1. Logged' = Logged
    BY <1>0 DEF Logged
  <1>2. \A b \in Blocks : holder[b] # p
    BY <1>i, <1>0, ProcsAssumption DEF Holders
  <1>3. OpWrites'
    <2>1. IsFiniteSet({}) /\ Cardinality({}) = 0 /\ 0 <= MAXOPBLOCKS
      BY FS_EmptySet, LogAssumption
    <2> QED
      BY <1>i, <1>0, <1>1, <1>2, <2>1 DEF OpWrites
  <1>4. Cardinality(OpenOps') = outstanding + 1
    BY <1>0 DEF LogInv, Exclusive
  <1>5. /\ Cardinality(Owed') \in Nat
        /\ Cardinality(Owed') <= Cardinality(OpenOps') * MAXOPBLOCKS
    <2>1. (/\ IsFiniteSet(Owed) /\ Cardinality(Owed) \in Nat
           /\ Cardinality(Owed) <= Cardinality(OpenOps) * MAXOPBLOCKS)'
      BY OwedBound, PTL
    <2> QED
      BY <2>1
  <1>6. lh_n + (outstanding + 1) * MAXOPBLOCKS <= LOGBLOCKS
    BY <1>i, <1>0, LogAssumption DEF MustWait, TypeOK
  <1>7. LogReserved'
    <2> DEFINE r == (outstanding + 1) * MAXOPBLOCKS
    <2>1. r \in Int
      BY <1>i, LogAssumption DEF TypeOK
    <2>2. Cardinality(Owed') <= r
      BY <1>4, <1>5
    <2>3. lh_n + r <= LOGBLOCKS
      BY <1>6
    <2> HIDE DEF r
    <2> QED
      BY <1>i, <1>0, <1>5, <2>1, <2>2, <2>3, LogAssumption DEF LogReserved, TypeOK
  <1> QED
    BY <1>3, <1>7

LEMMA ReserveModify ==
    ASSUME ReservedInv, NEW p \in Procs, NEW b \in Blocks, NEW v \in Values,
           Modify(p, b, v)
    PROVE  OpWrites' /\ LogReserved'
  <1>i. TypeOK /\ Holders /\ OpWrites
    BY DEF ReservedInv, LogInv
  <1>0. /\ pc[p] = "op" /\ pc'[p] = "logging"
        /\ \A q \in Procs : q # p => pc'[q] = pc[q] /\ wrote'[q] = wrote[q]
        /\ holder[b] = "none" /\ holder'[b] = p
        /\ \A c \in Blocks : c # b => holder'[c] = holder[c]
        /\ wrote'[p] = wrote[p] \union {b}
        /\ b \in wrote[p] \/ Cardinality(wrote[p]) < MAXOPBLOCKS
        /\ UNCHANGED <<lh_n, lh_block>>
    BY <1>i DEF Modify, TypeOK, At, Goto, header
  <1>1. Logged' = Logged
    BY <1>0 DEF Logged
  <1>2. /\ IsFiniteSet(wrote[p]) /\ Cardinality(wrote[p]) <= MAXOPBLOCKS
        /\ \A c \in wrote[p] : c \in Logged \/ holder[c] = p
    BY <1>i, <1>0 DEF OpWrites, InOp
  <1>3. /\ \A c \in Blocks : holder[c] # p
        /\ \A q \in Procs, c \in Blocks : q # p => (holder'[c] = q <=> holder[c] = q)
        /\ \A c \in Blocks : holder'[c] = p => c = b
    BY <1>i, <1>0, ProcsAssumption DEF Holders
  <1>w. wrote[p] \subseteq Blocks
    BY <1>i DEF TypeOK
  <1>c. /\ Cardinality(wrote[p]) \in Nat /\ IsFiniteSet(wrote'[p])
        /\ Cardinality(wrote'[p]) =
             IF b \in wrote[p] THEN Cardinality(wrote[p]) ELSE Cardinality(wrote[p]) + 1
    BY <1>0, <1>2, FS_CardinalityType, FS_AddElement
  <1>4. OpWrites'
    <2>1. /\ IsFiniteSet(wrote'[p]) /\ Cardinality(wrote'[p]) <= MAXOPBLOCKS
      BY <1>0, <1>2, <1>c, LogAssumption
    <2>2. \A c \in Blocks : holder'[c] = p => c \in wrote'[p]
      BY <1>0, <1>3
    <2>3. \A c \in wrote'[p] : c \in Logged \/ holder'[c] = p
      BY <1>0, <1>2, <1>3, <1>w
    <2>4. ASSUME NEW q \in Procs, q # p, pc'[q] \in InOp
          PROVE  /\ IsFiniteSet(wrote'[q]) /\ Cardinality(wrote'[q]) <= MAXOPBLOCKS
                 /\ \A c \in Blocks : holder'[c] = q => c \in wrote'[q]
                 /\ \A c \in wrote'[q] : c \in Logged \/ holder'[c] = q
      <3>1. wrote[q] \subseteq Blocks
        BY <1>i DEF TypeOK
      <3> QED
        BY <1>i, <1>0, <1>3, <2>4, <3>1 DEF OpWrites
    <2> QED
      BY <1>1, <2>1, <2>2, <2>3, <2>4 DEF OpWrites
  <1>5. OpenOps' = OpenOps
    BY <1>0 DEF OpenOps, InOp
  <1>6. \A q \in Procs, k \in 1..MAXOPBLOCKS : Owes(q, k)' => Owes(q, k)
    <2> TAKE q \in Procs, k \in 1..MAXOPBLOCKS
    <2>1. CASE q # p
      BY <1>0, <1>1, <1>3, <2>1 DEF Owes
    <2>2. CASE q = p /\ b \in wrote[p]
      <3>1. b \in Logged
        BY <1>2, <1>3, <2>2
      <3> QED
        BY <1>1, <1>3, <1>c, <2>2, <3>1 DEF Owes
    <2>3. CASE q = p /\ b \notin wrote[p]
      BY <1>c, <2>3 DEF Owes
    <2> QED
      BY <2>1, <2>2, <2>3
  <1>7. Owed' \subseteq Owed
    <2>1. (\A c : c \in Owed <=> /\ c \in OpenOps \X (1..MAXOPBLOCKS)
                                 /\ Owes(c[1], c[2]))'
      BY OwedIs, PTL
    <2>2. SUFFICES ASSUME NEW c \in Owed' PROVE c \in Owed
      OBVIOUS
    <2>3. c \in OpenOps' \X (1..MAXOPBLOCKS) /\ Owes(c[1], c[2])'
      BY <2>1
    <2>4. c[1] \in Procs /\ c[2] \in 1..MAXOPBLOCKS
      BY <2>3 DEF OpenOps
    <2> QED
      BY <1>5, <1>6, <2>3, <2>4, OwedIs
  <1> QED
    BY <1>0, <1>4, <1>7, OwedLess DEF ReservedInv, LogInv, LogReserved

LEMMA ReserveLogWrite ==
    ASSUME ReservedInv, NEW p \in Procs, NEW b \in Blocks, log_write(p, b)
    PROVE  OpWrites' /\ LogReserved'
  <1>i. TypeOK /\ Holders /\ OpWrites /\ LogReserved
    BY DEF ReservedInv, LogInv
  <1>0. /\ pc[p] = "logging" /\ pc'[p] = "op"
        /\ \A q \in Procs : q # p => pc'[q] = pc[q]
        /\ wrote' = wrote
        /\ holder[b] = p /\ holder'[b] = "none"
        /\ \A c \in Blocks : c # b => holder'[c] = holder[c]
        /\ lh_n < LOGBLOCKS
    BY <1>i, LogAssumption DEF TypeOK, log_write, LogWritePanics, At, Goto
  <1>1. /\ b \in Logged => UNCHANGED <<lh_n, lh_block>>
        /\ b \notin Logged => /\ lh_n' = lh_n + 1 /\ lh_block'[lh_n + 1] = b
                              /\ \A t \in 1..lh_n : lh_block'[t] = lh_block[t]
    <2>1. lh_n \in Nat /\ lh_n + 1 \in Tails /\ \A t \in 1..lh_n : t \in Tails /\ t # lh_n + 1
      BY <1>i, <1>0, TailFacts DEF TypeOK
    <2> QED
      BY <1>i, <2>1 DEF log_write, TypeOK, header
  <1>2. Logged' = Logged \union {b}
    <2>1. CASE b \in Logged
      BY <1>1, <2>1 DEF Logged
    <2>2. CASE b \notin Logged
      <3>0. lh_n \in Nat /\ lh_n' = lh_n + 1
        BY <1>i, <1>1, <2>2, LogAssumption DEF TypeOK
      <3>1. /\ \A t \in 1..lh_n' : t \in 1..lh_n \/ t = lh_n + 1
            /\ \A t \in 1..lh_n : t \in 1..lh_n'
            /\ lh_n + 1 \in 1..lh_n'
        BY <3>0
      <3> QED
        BY <1>1, <2>2, <3>1 DEF Logged
    <2> QED
      BY <2>1, <2>2
  <1>3. /\ \A c \in Blocks : holder'[c] # p
        /\ \A q \in Procs, c \in Blocks : q # p => (holder'[c] = q <=> holder[c] = q)
        /\ \A c \in Blocks : holder[c] = p => c = b
    BY <1>i, <1>0, ProcsAssumption DEF Holders
  <1>w. \A q \in Procs : wrote[q] \subseteq Blocks
    BY <1>i DEF TypeOK
  <1>o. \A q \in Procs : pc'[q] \in InOp <=> pc[q] \in InOp
    BY <1>0 DEF InOp
  <1>4. OpWrites'
    <2>1. ASSUME NEW q \in Procs, pc'[q] \in InOp
          PROVE  /\ IsFiniteSet(wrote[q]) /\ Cardinality(wrote[q]) <= MAXOPBLOCKS
                 /\ \A c \in Blocks : holder'[c] = q => c \in wrote[q]
                 /\ \A c \in wrote[q] : c \in Logged' \/ holder'[c] = q
      <3>1. /\ IsFiniteSet(wrote[q]) /\ Cardinality(wrote[q]) <= MAXOPBLOCKS
            /\ \A c \in Blocks : holder[c] = q => c \in wrote[q]
            /\ \A c \in wrote[q] : c \in Logged \/ holder[c] = q
        BY <1>i, <1>o, <2>1 DEF OpWrites
      <3>2. CASE q = p
        BY <1>2, <1>3, <1>w, <3>1, <3>2
      <3>3. CASE q # p
        BY <1>2, <1>3, <1>w, <3>1, <3>3
      <3> QED
        BY <3>2, <3>3
    <2> QED
      BY <1>0, <2>1 DEF OpWrites
  <1>5. OpenOps' = OpenOps
    BY <1>o DEF OpenOps
  <1> DEFINE mine == <<p, Cardinality(wrote[p])>>
  <1>6. /\ \A q \in Procs, k \in 1..MAXOPBLOCKS : Owes(q, k)' => Owes(q, k)
        /\ \A k : k = Cardinality(wrote[p]) => ~Owes(p, k)'
    <2>1. Cardinality(wrote[p]) \in Nat
      BY <1>i, <1>0, FS_CardinalityType DEF OpWrites, InOp
    <2>2. ASSUME NEW q \in Procs, NEW k \in 1..MAXOPBLOCKS, Owes(q, k)'
          PROVE  Owes(q, k)
      <3>1. CASE q = p
        BY <1>0, <1>3, <2>2, <3>1 DEF Owes
      <3>2. CASE q # p
        BY <1>0, <1>2, <1>3, <2>2, <3>2 DEF Owes
      <3> QED
        BY <3>1, <3>2
    <2>3. \A k : k = Cardinality(wrote[p]) => ~Owes(p, k)'
      BY <1>0, <1>3, <2>1 DEF Owes
    <2> QED
      BY <2>2, <2>3
  <1>7. Owed' \subseteq Owed /\ mine \notin Owed'
    <2>1. (\A c : c \in Owed <=> /\ c \in OpenOps \X (1..MAXOPBLOCKS)
                                 /\ Owes(c[1], c[2]))'
      BY OwedIs, PTL
    <2>2. ASSUME NEW c \in Owed' PROVE c \in Owed
      <3>1. c \in OpenOps' \X (1..MAXOPBLOCKS) /\ Owes(c[1], c[2])'
        BY <2>1, <2>2
      <3>2. c[1] \in Procs /\ c[2] \in 1..MAXOPBLOCKS
        BY <3>1 DEF OpenOps
      <3> QED
        BY <1>5, <1>6, <3>1, <3>2, OwedIs
    <2>3. mine \notin Owed'
      <3>1. SUFFICES ASSUME NEW c \in Owed', c = mine PROVE FALSE
        OBVIOUS
      <3>2. Owes(c[1], c[2])'
        BY <2>1
      <3>3. c[1] = p /\ c[2] = Cardinality(wrote[p])
        BY <3>1
      <3> QED
        BY <1>6, <3>2, <3>3
    <2> QED
      BY <2>2, <2>3
  <1>8. CASE b \in Logged
    BY <1>1, <1>4, <1>7, <1>8, OwedLess DEF ReservedInv, LogInv, LogReserved
  <1>9. CASE b \notin Logged
    <2>1. /\ b \in wrote[p] /\ IsFiniteSet(wrote[p])
          /\ Cardinality(wrote[p]) <= MAXOPBLOCKS
      BY <1>i, <1>0 DEF OpWrites, InOp
    <2>2. Cardinality(wrote[p]) \in 1..MAXOPBLOCKS
      <3>1. Cardinality(wrote[p]) \in Nat /\ Cardinality(wrote[p]) # 0
        BY <2>1, FS_CardinalityType, FS_EmptySet
      <3> QED
        BY <2>1, <3>1, LogAssumption
    <2>3. p \in OpenOps /\ Owes(p, Cardinality(wrote[p]))
      BY <1>0, <1>9 DEF OpenOps, InOp, Owes
    <2>4. mine \in Owed
      BY <2>2, <2>3, OwedIs
    <2> HIDE DEF mine
    <2>5. Owed' \in SUBSET (Owed \ {mine})
      BY <1>7
    <2>6. /\ IsFiniteSet(Owed \ {mine})
          /\ Cardinality(Owed \ {mine}) = Cardinality(Owed) - 1
      BY <2>4, OwedBound, FS_RemoveElement
    <2>7. IsFiniteSet(Owed') /\ Cardinality(Owed') <= Cardinality(Owed) - 1
      BY <2>5, <2>6, FS_Subset
    <2>8. Cardinality(Owed') \in Nat
      BY <2>7, FS_CardinalityType
    <2>9. LogReserved'
      BY <1>i, <1>1, <1>9, <2>7, <2>8, OwedBound, LogAssumption DEF LogReserved, TypeOK
    <2> QED
      BY <1>4, <2>9
  <1> QED
    BY <1>8, <1>9

LEMMA ReserveInit == Init => OpWrites /\ LogReserved
  <1> SUFFICES ASSUME Init PROVE OpWrites /\ LogReserved
    OBVIOUS
  <1>1. \A q \in Procs : pc[q] \notin InOp
    BY DEF Init, Reset, InOp
  <1>2. OpWrites
    BY <1>1 DEF OpWrites
  <1>3. Owed = {}
    BY <1>1 DEF Owed, OpenOps
  <1> QED
    BY <1>2, <1>3, FS_EmptySet, LogAssumption DEF Init, LogReserved

LEMMA ReservedStep == ASSUME ReservedInv, [Next]_vars PROVE ReservedInv'
  <1>i. LogInv /\ TypeOK
    BY DEF ReservedInv, LogInv
  <1>l. LogInv' /\ TypeOK'
    BY <1>i, LogInvStep DEF LogInv
  <1>u. CASE UNCHANGED vars
    BY <1>l, <1>u, OwedQuiet DEF vars, buffers, header, ReservedInv
  <1>a. ASSUME NEW p \in Procs, Call(p) \/ BeginSleep(p) \/ LogWritePanic(p)
        PROVE  OpWrites' /\ LogReserved'
    <2>1. /\ UNCHANGED <<lh_n, lh_block, holder, wrote>>
          /\ \A q \in Procs : pc'[q] \in InOp => pc[q] \in InOp
      BY <1>i, <1>a DEF Call, BeginSleep, LogWritePanic, Goto, buffers, header, TypeOK, InOp
    <2> QED
      BY <2>1, OwedQuiet
  <1>b. ASSUME NEW p \in Procs, EndOp(p) \/ Committed(p)
        PROVE  OpWrites' /\ LogReserved'
    <2>1. /\ UNCHANGED <<lh_n, lh_block, holder>>
          /\ pc'[p] \notin InOp
          /\ \A q \in Procs : q # p => wrote'[q] = wrote[q]
          /\ \A q \in Procs : q # p => (pc'[q] \in InOp => pc[q] \in InOp)
      BY <1>i, <1>b DEF EndOp, EndOther, EndLast, Committed, WakeupAnd, Goto, buffers,
                        header, TypeOK, InOp
    <2> QED
      BY <2>1, OwedQuiet
  <1>c. ASSUME NEW p \in Procs, write_log(p) \/ CommitHead(p) \/ install_trans(p) \/ ClearHead(p)
        PROVE  OpWrites' /\ LogReserved'
    <2>1. pc[p] \in Committing
      BY <1>c DEF write_log, CommitHead, install_trans, ClearHead, At, Committing
    <2>2. \A q \in Procs : pc[q] \notin InOp
      BY <1>i, <2>1, CommitterAlone
    <2>3. \A q \in Procs : pc'[q] \notin InOp
      BY <1>i, <1>c, <2>2 DEF write_log, CommitHead, install_trans, ClearHead, LoopOr, Goto,
                              TypeOK, InOp
    <2> QED
      BY <1>l, <2>3, NoOpsStep
  <1>d. ASSUME Recover \/ Crash
        PROVE  OpWrites' /\ LogReserved'
    <2>1. CASE Recover
      <3>1. pc[initproc] \in Boot
        BY <2>1 DEF Recover, read_head, RecoverInstall, RecoverClear, At, Boot
      <3>2. \A q \in Procs : pc[q] \notin InOp
        BY <1>i, <3>1, BootFacts DEF Up
      <3>3. \A q \in Procs : pc'[q] \notin InOp
        BY <1>i, <2>1, <3>2, ProcsAssumption
        DEF Recover, read_head, RecoverInstall, RecoverClear, LoopOr, Goto, TypeOK, InOp
      <3> QED
        BY <1>l, <3>3, NoOpsStep
    <2>2. CASE Crash
      <3>1. \A q \in Procs : pc'[q] \notin InOp
        BY <2>2 DEF Crash, Reset, InOp
      <3> QED
        BY <1>l, <3>1, NoOpsStep
    <2> QED
      BY <1>d, <2>1, <2>2
  <1>e. ASSUME NEW b \in Blocks, Fetch(b) \/ Evict(b)
        PROVE  OpWrites' /\ LogReserved'
    BY <1>e, OwedQuiet DEF Fetch, Evict, header
  <1>f. ASSUME NEW p \in Procs, BeginGo(p) \/ Op(p)
        PROVE  OpWrites' /\ LogReserved'
    BY <1>l, <1>f, ReserveBegin, ReserveModify, ReserveLogWrite DEF Op
  <1>n. CASE Next
    BY <1>l, <1>n, <1>a, <1>b, <1>c, <1>d, <1>e, <1>f DEF Next, CommitStep, ReservedInv
  <1> QED
    BY <1>u, <1>n

LEMMA ReservedInvariant == Spec => []ReservedInv
  <1>1. Init => ReservedInv
    BY InitLogInv, ReserveInit DEF ReservedInv
  <1> QED
    BY <1>1, ReservedStep, PTL DEF Spec

\* For any size of the log and of an operation, begin_op() admits no more
\* operations than the log has room for (the conservative test of begin_op(),
\* and "too big a transaction" in log_write()).
LEMMA Reserved == Spec => []LogReserved
  <1>1. ReservedInv => LogReserved
    BY DEF ReservedInv
  <1> QED
    BY <1>1, ReservedInvariant, PTL

\* The only panic of log_write() that operations of legal size can meet is the
\* one for a block that a full log already holds.
LEMMA OverflowAbsorbs == Spec => []PanicsOnlyAbsorbing
  <1>1. ReservedInv => PanicsOnlyAbsorbing
    <2> SUFFICES ASSUME ReservedInv, NEW p \in Procs, At(p, "logging"), LogWritePanics,
                        NEW b \in Blocks, holder[b] = p, b \notin Logged
                 PROVE  FALSE
      <3>1. \A p \in Procs : ReservedInv /\ At(p, "logging") => outstanding >= 1
        BY OpenNoCommit DEF ReservedInv, At, InOp, LogInv, TypeOK
      <3> QED
        BY <3>1 DEF PanicsOnlyAbsorbing
    <2>i. TypeOK /\ OpWrites /\ LogReserved
      BY DEF ReservedInv, LogInv
    <2>0. pc[p] \in InOp /\ p \in OpenOps
      BY DEF At, InOp, OpenOps
    <2>1. outstanding > 0
      BY <2>0, OpenNoCommit DEF ReservedInv
    <2>2. lh_n >= LOGBLOCKS
      BY <2>i, <2>1 DEF LogWritePanics, TypeOK
    <2>3. /\ b \in wrote[p] /\ IsFiniteSet(wrote[p])
          /\ Cardinality(wrote[p]) <= MAXOPBLOCKS
      BY <2>i, <2>0 DEF OpWrites
    <2>4. Cardinality(wrote[p]) \in 1..MAXOPBLOCKS
      <3>1. Cardinality(wrote[p]) \in Nat /\ Cardinality(wrote[p]) # 0
        BY <2>3, FS_CardinalityType, FS_EmptySet
      <3> QED
        BY <2>3, <3>1, LogAssumption
    <2>5. Owes(p, Cardinality(wrote[p]))
      BY DEF Owes
    <2>6. <<p, Cardinality(wrote[p])>> \in Owed
      BY <2>0, <2>4, <2>5, OwedIs
    <2>7. Cardinality(Owed) # 0
      BY <2>6, OwedBound, FS_EmptySet
    <2> QED
      BY <2>i, <2>2, <2>7, OwedBound, LogAssumption DEF LogReserved, TypeOK
  <1> QED
    BY <1>1, ReservedInvariant, PTL

\* The test of begin_op() is enough, for every size of the log and of an operation.
THEOREM LogSufficient == Spec => []LogSuffices
  <1>1. LogReserved /\ PanicsOnlyAbsorbing => LogSuffices
    BY DEF LogSuffices
  <1> QED
    BY <1>1, Reserved, OverflowAbsorbs, PTL

=============================================================================
