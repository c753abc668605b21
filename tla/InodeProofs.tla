---------------------------- MODULE InodeProofs ----------------------------
(***************************************************************************)
(* Proofs about inodes and directories: every reference is counted, no     *)
(* directory entry dangles, and what iput() frees nobody uses.             *)
(*                                                                         *)
(* RefInv is inductive for all programs.  TreeInv needs it, and that       *)
(* programs do not use "..": the ".." of a removed directory, which may    *)
(* be a current directory, is not counted.                                 *)
(***************************************************************************)
EXTENDS Inode, FiniteSetTheorems, WellFoundedInduction, TLAPS

----------------------------------------------------------------------------
(* References *)

\* Inside iput(), and where p is or will be after it.
Iputting == {"iput", "iput_free", "iput_drop"}
Pos(p) == IF pc[p] \in Iputting THEN next[p] ELSE pc[p]

\* The inode that tgt holds a reference to: that of a new inode is taken later.
Held(p) == IF pc[p] = "create_link" THEN 0 ELSE tgt[p]

\* Paths whose elements are names or "..".
GoodPaths == {q \in Paths : Elements(q) \in Seq(Entries)}

TypedInodes ==
    /\ type \in [Inodes -> {"free", "file", "dir"}]
    /\ nlink \in [Inodes -> Int]
    /\ ents \in [Inodes -> [Entries -> 0..NINODES]]
TypedTable ==
    /\ ref \in [Inodes -> Int]
    /\ valid \in [Inodes -> {0, 1}]
    /\ lock \in [Inodes -> Procs \union {NoProc}]
TypedArgs ==
    /\ call \in [Procs -> CallNames \union {"close", "none"}]
    /\ path \in [Procs -> Seq(Entries)]
    /\ path2 \in [Procs -> GoodPaths]
TypedProcs ==
    /\ cwd \in [Procs -> Inodes] /\ fd \in [Procs -> 0..NINODES]
    /\ ip \in [Procs -> 0..NINODES]
    /\ tgt \in [Procs -> 0..NINODES]
    /\ put \in [Procs -> 0..NINODES]
TypedPc == pc \in [Procs -> PC] /\ next \in [Procs -> PC]
Typed == TypedInodes /\ TypedTable /\ TypedArgs /\ TypedProcs /\ TypedPc

\* Where a call goes after an iput(), where it has an inode in ip, and where
\* in tgt.
Nexts == {"idle", "walk", "link_bad", "link_put", "unlink_bad", "unlink_dec",
          "create_found", "create_fail", "created"}
WithDir == {"walk", "named", "unlink_child", "unlink_bad", "create_alloc",
            "create_link", "create_fail"}
WithTarget == {"link_bad", "link_put", "unlink_child", "unlink_dec",
               "create_found", "create_link", "created"}
Walking == {"walk", "named"}
Naming == {"named", "unlink_child", "create_alloc", "create_link"}

\* Which locals a process has in use where.
Control(p) ==
    /\ put[p] # 0 <=> pc[p] \in Iputting
    /\ next[p] \in Nexts
    /\ ip[p] # 0 <=> Pos(p) \in WithDir
    /\ tgt[p] # 0 => Pos(p) \in WithTarget \union Walking
    /\ Pos(p) \in WithTarget => tgt[p] # 0
    /\ Pos(p) \in Walking /\ tgt[p] # 0 => call[p] = "link"
    /\ Pos(p) \in {"link_bad", "link_put"} => call[p] = "link"
    /\ Pos(p) \in {"create_found", "create_alloc", "create_link", "created"} =>
           call[p] \in {"create", "mkdir"}
    /\ Pos(p) \in {"unlink_child", "unlink_dec"} => call[p] = "unlink"
    /\ pc[p] \in Naming => path[p] # <<>>
    /\ pc[p] = "named" => Parent(p)

ControlInv == \A p \in Procs : Control(p)

RefInv == Typed /\ ControlInv /\ RefsExact

\* What a step leaves alone: everything of another process q.
Same(q) ==
    /\ cwd'[q] = cwd[q] /\ fd'[q] = fd[q] /\ pc'[q] = pc[q] /\ call'[q] = call[q]
    /\ path'[q] = path[q] /\ path2'[q] = path2[q] /\ ip'[q] = ip[q]
    /\ tgt'[q] = tgt[q] /\ put'[q] = put[q] /\ next'[q] = next[q]
OthersSame(p) == \A q \in Procs : q # p => Same(q)

\* The references to i that p has.
Is(x, i) == IF x = i THEN 1 ELSE 0
Mine(p, i) ==
    Is(cwd[p], i) + Is(fd[p], i) + Is(ip[p], i) + Is(Held(p), i) + Is(put[p], i)

\* A step of p counts the references that it takes and gives back.
Balanced(p) == \A i \in Inodes : ref'[i] + Mine(p, i) = ref[i] + Mine(p, i)'

\* What every step of p does.
Kept(p) == Typed' /\ Control(p)' /\ OthersSame(p) /\ Balanced(p)

Step(p) ==
    \/ Call(p) \/ Close(p) \/ Namex(p) \/ Iput(p)
    \/ OpenInode(p) \/ Chdir(p) \/ Link(p) \/ Remove(p) \/ Make(p)
    \/ PutParent(p)

LEMMA IsOne ==
    /\ \A x, i : Is(x, i) \in {0, 1}
    /\ \A i \in Inodes : Is(0, i) = 0
  BY DEF Is, Inodes

LEMMA NextIs == Next => (\E p \in Procs : Step(p)) \/ Crash
  BY DEF Next, Step

LEMMA CallKept ==
    ASSUME Typed, ControlInv, NEW p \in Procs, Call(p)
    PROVE  Panic \/ Kept(p)
<1> SUFFICES ASSUME ~Panic PROVE Kept(p)
  OBVIOUS
<1>1. PICK c \in Calls :
        /\ call' = [call EXCEPT ![p] = c[1]]
        /\ path2' = [path2 EXCEPT ![p] = c[3]]
        /\ StartWalk(p, c[2])
        /\ valid' = igetValid(Start(p, c[2]))
        /\ UNCHANGED <<inodes, lock, files, tgt, put, next, panicked>>
  BY DEF Call, iget
<1>c. /\ c[1] \in CallNames /\ c[2] \in Paths /\ c[3] \in Paths
      /\ Elements(c[2]) \in Seq(Entries) /\ Elements(c[3]) \in Seq(Entries)
  BY InodeAssumption
<1>s. /\ Start(p, c[2]) \in Inodes
      /\ ref' = [ref EXCEPT ![Start(p, c[2])] = @ + 1]
      /\ ip' = [ip EXCEPT ![p] = Start(p, c[2])]
      /\ path' = [path EXCEPT ![p] = Elements(c[2])]
      /\ pc' = [pc EXCEPT ![p] = "walk"]
  BY <1>1, InodeAssumption DEF Start, StartWalk, igetRef, Goto, Typed, TypedProcs, Inodes, ROOTINO
<1>p. pc[p] = "idle"
  BY DEF Call
<1>k. Control(p) /\ put[p] = 0 /\ ip[p] = 0 /\ tgt[p] = 0
  BY <1>p DEF ControlInv, Control, Pos, Iputting, WithDir, WithTarget, Walking, Typed, TypedProcs
<1>i. TypedInodes'
  BY <1>1 DEF Typed, TypedInodes, inodes
<1>t. TypedTable'
  BY <1>1, <1>s DEF Typed, TypedTable, igetValid
<1>a. TypedArgs'
  BY <1>1, <1>s, <1>c DEF Typed, TypedArgs, GoodPaths
<1>r. TypedProcs'
  BY <1>1, <1>s DEF Typed, TypedProcs, files, Inodes
<1>g. TypedPc'
  BY <1>1, <1>s DEF Typed, TypedPc, PC
<1>o. OthersSame(p)
  BY <1>1, <1>s DEF OthersSame, Same, Typed, TypedProcs, TypedPc, TypedArgs, files
<1>q. Control(p)'
  BY <1>1, <1>s, <1>k DEF Control, Pos, Iputting, WithDir, WithTarget, Walking, Naming, Typed, TypedProcs, TypedPc, TypedArgs, Parent, Inodes
<1>b. Balanced(p)
  BY <1>1, <1>s, <1>k, <1>p DEF Balanced, Mine, Is, Held, Typed, TypedProcs, TypedPc, TypedTable, files, Inodes
<1> QED BY <1>i, <1>t, <1>a, <1>r, <1>g, <1>o, <1>q, <1>b DEF Typed, Kept

LEMMA NameAndRest ==
    ASSUME NEW S, NEW q \in Seq(S), q # <<>>
    PROVE  Head(q) \in S /\ Tail(q) \in Seq(S)
  OBVIOUS

LEMMA IlockTyped ==
    ASSUME NEW i \in Inodes, NEW v \in [Inodes -> {0, 1}]
    PROVE  ilockValid(i, v) \in [Inodes -> {0, 1}]
  BY DEF ilockValid

LEMMA IgetTyped ==
    ASSUME Typed, NEW i \in Inodes
    PROVE  igetValid(i) \in [Inodes -> {0, 1}] /\ igetRef(i) \in [Inodes -> Int]
  BY DEF igetValid, igetRef, Typed, TypedTable

LEMMA CloseKept ==
    ASSUME Typed, ControlInv, NEW p \in Procs, Close(p)
    PROVE  Kept(p)
<1>k. Control(p) /\ put[p] = 0
  BY DEF Close, ControlInv, Control, Iputting
<1> USE DEF Typed, Close, Put
<1>i. TypedInodes' /\ TypedTable'
  BY DEF TypedInodes, TypedTable, inodes, table
<1>a. TypedArgs'
  BY DEF TypedArgs
<1>r. TypedProcs'
  BY InodeAssumption DEF TypedProcs, table, inodes
<1>g. TypedPc'
  BY DEF TypedPc, PC
<1>o. OthersSame(p)
  BY DEF OthersSame, Same, TypedProcs, TypedPc, TypedArgs
<1>q. Control(p)'
  BY <1>k DEF Control, Pos, Iputting, Nexts, WithDir, WithTarget, Walking, Naming, TypedProcs, TypedPc, TypedArgs, Parent
<1>b. Balanced(p)
  BY <1>k DEF Balanced, Mine, Is, Held, TypedProcs, TypedPc, TypedTable, table, Inodes
<1> QED BY <1>i, <1>a, <1>r, <1>g, <1>o, <1>q, <1>b DEF Kept

LEMMA WalkKept ==
    ASSUME Typed, ControlInv, NEW p \in Procs, Walk(p)
    PROVE  Panic \/ Kept(p)
<1> SUFFICES ASSUME ~Panic PROVE Kept(p)
  OBVIOUS
<1> DEFINE i == ip[p]
           e == ents[i][Head(path[p])]
           last == Parent(p) /\ Len(path[p]) = 1
<1>p. pc[p] = "walk" /\ path[p] # <<>>
  BY DEF Walk
<1>h. Head(path[p]) \in Entries /\ Tail(path[p]) \in Seq(Entries)
  BY <1>p, NameAndRest DEF Typed, TypedArgs
<1>c. Control(p)
  BY DEF ControlInv
<1>k. put[p] = 0 /\ i \in Inodes
  BY <1>p, <1>c DEF Control, Pos, Iputting, WithDir, Typed, TypedProcs, Inodes
<1>e. e \in 0..NINODES
  BY <1>k, <1>h DEF Typed, TypedInodes
<1>1. CASE /\ last
           /\ valid' = ilockValid(i, valid)
           /\ Goto(p, "named")
           /\ UNCHANGED <<inodes, ref, lock, files, args, ip, tgt, put, next, panicked>>
  <2> USE DEF Typed, Goto
  <2>i. TypedInodes' /\ TypedTable'
    BY <1>1 DEF TypedInodes, TypedTable, inodes, ilockValid
  <2>a. TypedArgs'
    BY <1>1 DEF TypedArgs, args
  <2>r. TypedProcs'
    BY <1>1 DEF TypedProcs, files
  <2>g. TypedPc'
    BY <1>1 DEF TypedPc, PC
  <2>o. OthersSame(p)
    BY <1>1 DEF OthersSame, Same, TypedProcs, TypedPc, TypedArgs, files, args
  <2>q. Control(p)'
    BY <1>1, <1>k, <1>c, <1>p DEF Control, Pos, Iputting, Nexts, WithDir, WithTarget, Walking, Naming, TypedProcs, TypedPc, TypedArgs, Parent, args
  <2>b. Balanced(p)
    BY <1>1, <1>k, <1>c, <1>p DEF Balanced, Mine, Is, Held, TypedProcs, TypedPc, TypedTable, files, Inodes
  <2> QED BY <2>i, <2>a, <2>r, <2>g, <2>o, <2>q, <2>b DEF Kept
<1>2. CASE /\ valid' = ilockValid(i, valid)
           /\ ip' = [ip EXCEPT ![p] = 0]
           /\ Put(p, i, Fail(p))
           /\ UNCHANGED <<inodes, ref, lock, files, args, tgt, panicked>>
  <2> USE DEF Typed, Put
  <2>i. TypedInodes' /\ TypedTable'
    BY <1>2 DEF TypedInodes, TypedTable, inodes, ilockValid
  <2>a. TypedArgs'
    BY <1>2 DEF TypedArgs, args
  <2>r. TypedProcs'
    BY <1>2, <1>k DEF TypedProcs, files, Fail, Inodes
  <2>g. TypedPc'
    BY <1>2, <1>k DEF TypedPc, PC, Fail
  <2>o. OthersSame(p)
    BY <1>2 DEF OthersSame, Same, TypedProcs, TypedPc, TypedArgs, files, args
  <2>q. Control(p)'
    BY <1>2, <1>k, <1>c, <1>p DEF Control, Pos, Iputting, Nexts, WithDir, WithTarget, Walking, Naming, TypedProcs, TypedPc, TypedArgs, Parent, args, Fail, Inodes
  <2>b. Balanced(p)
    BY <1>2, <1>k, <1>c, <1>p DEF Balanced, Mine, Is, Held, TypedProcs, TypedPc, TypedTable, files, Inodes
  <2> QED BY <2>i, <2>a, <2>r, <2>g, <2>o, <2>q, <2>b DEF Kept
<1>3. CASE /\ e # 0
           /\ ref' = igetRef(e)
           /\ valid' = ilockValid(i, igetValid(e))
           /\ ip' = [ip EXCEPT ![p] = e]
           /\ path' = [path EXCEPT ![p] = Tail(@)]
           /\ Put(p, i, "walk")
           /\ UNCHANGED <<inodes, lock, files, call, path2, tgt, panicked>>
  <2> USE DEF Typed, Put
  <2>e. e \in Inodes
    BY <1>3, <1>e DEF Inodes
  <2>i. TypedInodes' /\ TypedTable'
    <3>1. igetValid(e) \in [Inodes -> {0, 1}] /\ igetRef(e) \in [Inodes -> Int]
      BY <2>e, IgetTyped
    <3>2. ilockValid(i, igetValid(e)) \in [Inodes -> {0, 1}]
      BY <3>1, <1>k, IlockTyped
    <3> QED BY <1>3, <3>1, <3>2 DEF TypedInodes, TypedTable, inodes
  <2>a. TypedArgs'
    BY <1>3, <1>h DEF TypedArgs
  <2>r. TypedProcs'
    BY <1>3, <1>k, <2>e DEF TypedProcs, files, Inodes
  <2>g. TypedPc'
    BY <1>3, <1>k DEF TypedPc, PC
  <2>o. OthersSame(p)
    BY <1>3 DEF OthersSame, Same, TypedProcs, TypedPc, TypedArgs, files
  <2>q. Control(p)'
    BY <1>3, <1>k, <1>c, <1>p DEF Control, Pos, Iputting, Nexts, WithDir, WithTarget, Walking, Naming, TypedProcs, TypedPc, TypedArgs, Parent, Inodes
  <2>b. Balanced(p)
    <3>1. \A j \in Inodes : ref'[j] = ref[j] + Is(e, j)
      BY <1>3, <2>e DEF igetRef, TypedTable, Is
    <3>2. /\ cwd'[p] = cwd[p] /\ fd'[p] = fd[p] /\ ip'[p] = e
          /\ Held(p)' = Held(p) /\ put'[p] = i
      BY <1>3, <1>k, <1>p DEF Held, TypedProcs, TypedPc, files
    <3> QED
      BY <1>k, <3>1, <3>2, IsOne DEF Balanced, Mine, TypedTable
  <2> QED BY <2>i, <2>a, <2>r, <2>g, <2>o, <2>q, <2>b DEF Kept
<1> QED
  BY <1>1, <1>2, <1>3 DEF Walk, ilock, iget

LEMMA WalkNoParentKept ==
    ASSUME Typed, ControlInv, NEW p \in Procs, WalkNoParent(p)
    PROVE  Kept(p)
<1>p. pc[p] = "walk"
  BY DEF WalkNoParent
<1>c. Control(p)
  BY DEF ControlInv
<1>k. put[p] = 0 /\ ip[p] \in Inodes
  BY <1>p, <1>c DEF Control, Pos, Iputting, Nexts, WithDir, WithTarget, Walking, Naming, Typed, TypedProcs, TypedPc, TypedArgs, Inodes, Parent
<1>1. /\ ip' = [ip EXCEPT ![p] = 0]
      /\ Put(p, ip[p], Fail(p))
      /\ UNCHANGED <<inodes, table, files, args, tgt>>
  BY DEF WalkNoParent
<1> USE DEF Typed, Put
<1>i. TypedInodes'
  BY <1>1 DEF TypedInodes, inodes
<1>t. TypedTable'
  BY <1>1 DEF TypedTable, table
<1>a. TypedArgs'
  BY <1>1 DEF TypedArgs, args
<1>r. TypedProcs'
  BY <1>1, <1>k DEF TypedProcs, files, Inodes
<1>g. TypedPc'
  BY <1>1 DEF TypedPc, PC, Fail
<1>o. OthersSame(p)
  BY <1>1 DEF OthersSame, Same, TypedProcs, TypedPc, TypedArgs, files, args
<1>q. Control(p)'
  BY <1>1, <1>k, <1>c, <1>p DEF Control, Pos, Iputting, Nexts, WithDir, WithTarget, Walking, Naming, TypedProcs, TypedPc, TypedArgs, Parent, Inodes, args, Fail
<1>b. Balanced(p)
  BY <1>1, <1>k, <1>c, <1>p DEF Balanced, Mine, Is, Held, TypedProcs, TypedPc, TypedTable, Inodes, files, table
<1> QED BY <1>i, <1>t, <1>a, <1>r, <1>g, <1>o, <1>q, <1>b DEF Kept

\* Return(p), without the cases.
ReturnAt(p) ==
    /\ put' = [put EXCEPT ![p] = 0]
    /\ next' = [next EXCEPT ![p] = "idle"]
    /\ pc' = [pc EXCEPT ![p] = next[p]]
    /\ \/ next[p] = "idle" /\ call' = [call EXCEPT ![p] = "none"]
          /\ path' = [path EXCEPT ![p] = <<>>] /\ path2' = [path2 EXCEPT ![p] = <<>>]
       \/ next[p] # "idle" /\ UNCHANGED args

LEMMA EmptyPath == <<>> \in Seq(Entries) /\ <<>> \in GoodPaths
  BY DEF GoodPaths, Paths, Elements

LEMMA ReturnKept ==
    ASSUME Typed, ControlInv, NEW p \in Procs, pc[p] \in Iputting,
           ref' = [ref EXCEPT ![put[p]] = @ - 1],
           ReturnAt(p),
           UNCHANGED <<inodes, valid, lock, files, ip, tgt>>
    PROVE  Kept(p)
<1>p. pc[p] \in Iputting
  OBVIOUS
<1>c. Control(p)
  BY DEF ControlInv
<1>k. put[p] \in Inodes /\ next[p] \notin Iputting \union Naming /\ next[p] \in PC
  BY <1>p, <1>c DEF Control, Pos, Iputting, Nexts, WithDir, WithTarget, Walking, Naming, Typed, TypedProcs, TypedPc, TypedArgs, Inodes, Parent
<1> USE DEF Typed, ReturnAt
<1>i. TypedInodes'
  BY <1>p DEF TypedInodes, inodes
<1>t. TypedTable'
  BY <1>p, <1>k DEF TypedTable
<1>a. TypedArgs'
  BY <1>p, EmptyPath DEF TypedArgs, args
<1>r. TypedProcs'
  BY <1>p, <1>k, InodeAssumption DEF TypedProcs, files, Inodes
<1>g. TypedPc'
  BY <1>p DEF TypedPc, PC
<1>o. OthersSame(p)
  BY <1>p DEF OthersSame, Same, TypedProcs, TypedPc, TypedArgs, files, args
<1>q. Control(p)'
  BY <1>p, <1>k, <1>c, <1>p DEF Control, Pos, Iputting, Nexts, WithDir, WithTarget, Walking, Naming, TypedProcs, TypedPc, TypedArgs, Parent, Inodes, args
<1>b. Balanced(p)
  <2>1. \A j \in Inodes : ref'[j] = ref[j] - Is(put[p], j)
    BY <1>k DEF TypedTable, Is
  <2>2. /\ cwd'[p] = cwd[p] /\ fd'[p] = fd[p] /\ ip'[p] = ip[p]
        /\ Held(p)' = Held(p) /\ put'[p] = 0
    BY <1>k, <1>p DEF Held, TypedProcs, TypedPc, files, Iputting, Naming
  <2>3. ASSUME NEW j \in Inodes PROVE ref'[j] + Mine(p, j) = ref[j] + Mine(p, j)'
    <3>1. Mine(p, j)' = Is(cwd[p], j) + Is(fd[p], j) + Is(ip[p], j) + Is(Held(p), j) + Is(0, j)
      BY <2>2, Zenon DEF Mine, Is
    <3> HIDE DEF ReturnAt
    <3>2. ref[j] \in Int /\ Is(0, j) = 0
      BY IsOne DEF TypedTable
    <3> QED BY <2>1, <3>1, <3>2, IsOne DEF Mine
  <2> QED BY <2>3 DEF Balanced
<1> QED BY <1>i, <1>t, <1>a, <1>r, <1>g, <1>o, <1>q, <1>b DEF Kept

LEMMA IputDropKept ==
    ASSUME Typed, ControlInv, NEW p \in Procs, IputDrop(p)
    PROVE  Kept(p)
<1>p. pc[p] = "iput"
  BY DEF IputDrop
<1>1. /\ ref' = [ref EXCEPT ![put[p]] = @ - 1]
      /\ Return(p)
      /\ UNCHANGED <<inodes, valid, lock, files, ip, tgt>>
  BY DEF IputDrop
<1>2. ReturnAt(p)
  BY <1>1 DEF Return, ReturnAt, EndCall, Goto
<1> QED BY <1>1, <1>2, <1>p, ReturnKept DEF Iputting

LEMMA IputLastKept ==
    ASSUME Typed, ControlInv, NEW p \in Procs, IputLast(p)
    PROVE  Kept(p)
<1>p. pc[p] = "iput_drop"
  BY DEF IputLast
<1>1. /\ ref' = [ref EXCEPT ![put[p]] = @ - 1]
      /\ Return(p)
      /\ UNCHANGED <<inodes, valid, lock, files, ip, tgt>>
  BY DEF IputLast
<1>2. ReturnAt(p)
  BY <1>1 DEF Return, ReturnAt, EndCall, Goto
<1> QED BY <1>1, <1>2, <1>p, ReturnKept DEF Iputting

LEMMA IputDecideKept ==
    ASSUME Typed, ControlInv, NEW p \in Procs, IputDecide(p)
    PROVE  Panic \/ Kept(p)
<1> SUFFICES ASSUME ~Panic PROVE Kept(p)
  OBVIOUS
<1>p. pc[p] = "iput"
  BY DEF IputDecide
<1>c. Control(p)
  BY DEF ControlInv
<1>k. put[p] \in Inodes
  BY <1>p, <1>c DEF Control, Pos, Iputting, Nexts, WithDir, WithTarget, Walking, Naming, Typed, TypedProcs, TypedPc, TypedArgs, Inodes, Parent
<1>1. /\ lock' = [lock EXCEPT ![put[p]] = p]
      /\ Goto(p, "iput_free")
      /\ UNCHANGED <<inodes, ref, valid, files, args, ip, tgt, put, next>>
  BY DEF IputDecide
<1> USE DEF Typed, Goto
<1>i. TypedInodes'
  BY <1>1 DEF TypedInodes, inodes
<1>t. TypedTable'
  BY <1>1, <1>k DEF TypedTable
<1>a. TypedArgs'
  BY <1>1 DEF TypedArgs, args
<1>r. TypedProcs'
  BY <1>1, <1>k DEF TypedProcs, files, Inodes
<1>g. TypedPc'
  BY <1>1 DEF TypedPc, PC
<1>o. OthersSame(p)
  BY <1>1 DEF OthersSame, Same, TypedProcs, TypedPc, TypedArgs, files, args
<1>q. Control(p)'
  BY <1>1, <1>k, <1>c, <1>p DEF Control, Pos, Iputting, Nexts, WithDir, WithTarget, Walking, Naming, TypedProcs, TypedPc, TypedArgs, Parent, Inodes, args
<1>b. Balanced(p)
  BY <1>1, <1>k, <1>c, <1>p DEF Balanced, Mine, Is, Held, TypedProcs, TypedPc, TypedTable, Inodes, files
<1> QED BY <1>i, <1>t, <1>a, <1>r, <1>g, <1>o, <1>q, <1>b DEF Kept

LEMMA IputFreeKept ==
    ASSUME Typed, ControlInv, NEW p \in Procs, IputFree(p)
    PROVE  Kept(p)
<1>p. pc[p] = "iput_free"
  BY DEF IputFree
<1>c. Control(p)
  BY DEF ControlInv
<1>k. put[p] \in Inodes
  BY <1>p, <1>c DEF Control, Pos, Iputting, Nexts, WithDir, WithTarget, Walking, Naming, Typed, TypedProcs, TypedPc, TypedArgs, Inodes, Parent
<1>1. /\ type' = [type EXCEPT ![put[p]] = "free"]
      /\ ents' = [ents EXCEPT ![put[p]] = NoEntries]
      /\ valid' = [valid EXCEPT ![put[p]] = 0]
      /\ lock' = [lock EXCEPT ![put[p]] = NoProc]
      /\ Goto(p, "iput_drop")
      /\ UNCHANGED <<nlink, ref, files, args, ip, tgt, put, next>>
  BY DEF IputFree
<1>n. NoEntries \in [Entries -> 0..NINODES]
  BY InodeAssumption DEF NoEntries
<1> USE DEF Typed, Goto
<1>i. TypedInodes'
  BY <1>1, <1>n DEF TypedInodes
<1>t. TypedTable'
  BY <1>1, <1>k DEF TypedTable
<1>a. TypedArgs'
  BY <1>1 DEF TypedArgs, args
<1>r. TypedProcs'
  BY <1>1, <1>k DEF TypedProcs, files, Inodes
<1>g. TypedPc'
  BY <1>1 DEF TypedPc, PC
<1>o. OthersSame(p)
  BY <1>1 DEF OthersSame, Same, TypedProcs, TypedPc, TypedArgs, files, args
<1>q. Control(p)'
  BY <1>1, <1>k, <1>c, <1>p DEF Control, Pos, Iputting, Nexts, WithDir, WithTarget, Walking, Naming, TypedProcs, TypedPc, TypedArgs, Parent, Inodes, args
<1>b. Balanced(p)
  BY <1>1, <1>k, <1>c, <1>p DEF Balanced, Mine, Is, Held, TypedProcs, TypedPc, TypedTable, Inodes, files
<1> QED BY <1>i, <1>t, <1>a, <1>r, <1>g, <1>o, <1>q, <1>b DEF Kept

\* How a call that has i in a local ends in open() or mkdir().
Exit(p, i) ==
    \/ /\ fd[p] = 0
       /\ fd' = [fd EXCEPT ![p] = i]
       /\ EndCall(p)
       /\ UNCHANGED <<cwd, put, next>>
    \/ /\ Put(p, i, "idle")
       /\ UNCHANGED <<files, args>>

LEMMA OpenedExit ==
    ASSUME NEW p, NEW i, Opened(p, i) \/ (Put(p, i, "idle") /\ UNCHANGED <<files, args>>)
    PROVE  Exit(p, i)
  BY DEF Opened, Exit

\* The inode given up is in ip, or in tgt.
LEMMA ExitKept ==
    ASSUME Typed, ControlInv, NEW p \in Procs, NEW i \in Inodes, Exit(p, i),
           TypedTable', UNCHANGED <<inodes, ref>>,
           pc[p] \notin Iputting, pc[p] # "create_link",
           \/ ip[p] = i /\ tgt[p] = 0 /\ ip' = [ip EXCEPT ![p] = 0] /\ UNCHANGED tgt
           \/ tgt[p] = i /\ ip[p] = 0 /\ tgt' = [tgt EXCEPT ![p] = 0] /\ UNCHANGED ip
    PROVE  Kept(p)
<1>c. Control(p)
  BY DEF ControlInv
<1>k. put[p] = 0 /\ next[p] \in Nexts
  BY <1>c DEF Control
<1>i. TypedInodes'
  BY DEF Typed, TypedInodes, inodes
<1>h. ip'[p] = 0 /\ tgt'[p] = 0 /\ TypedProcs'
  BY InodeAssumption DEF Exit, Put, Typed, TypedProcs, Inodes, files
<1>1. CASE /\ fd[p] = 0
           /\ fd' = [fd EXCEPT ![p] = i]
           /\ EndCall(p)
           /\ UNCHANGED <<cwd, put, next>>
  <2> USE DEF Typed, EndCall, Goto
  <2>a. TypedArgs'
    BY <1>1, EmptyPath DEF TypedArgs
  <2>g. TypedPc'
    BY <1>1 DEF TypedPc, PC
  <2>o. OthersSame(p)
    BY <1>1 DEF OthersSame, Same, TypedProcs, TypedPc, TypedArgs
  <2>q. Control(p)'
    BY <1>1, <1>h, <1>k DEF Control, Pos, Iputting, WithDir, WithTarget, Walking, Naming, TypedPc
  <2>b. Balanced(p)
    BY <1>1, <1>k DEF Balanced, Mine, Is, Held, TypedProcs, TypedPc, TypedTable, Inodes
  <2> QED BY <1>i, <1>h, <2>a, <2>g, <2>o, <2>q, <2>b DEF Kept
<1>2. CASE Put(p, i, "idle") /\ UNCHANGED <<files, args>>
  <2> USE DEF Typed, Put
  <2>a. TypedArgs'
    BY <1>2 DEF TypedArgs, args
  <2>g. TypedPc'
    BY <1>2 DEF TypedPc, PC
  <2>o. OthersSame(p)
    BY <1>2 DEF OthersSame, Same, TypedProcs, TypedPc, TypedArgs, files, args
  <2>q. Control(p)'
    BY <1>2, <1>h, <1>k DEF Control, Pos, Iputting, Nexts, WithDir, WithTarget, Walking, Naming, TypedPc, TypedProcs, Inodes
  <2>b. Balanced(p)
    BY <1>2, <1>k DEF Balanced, Mine, Is, Held, TypedProcs, TypedPc, TypedTable, files, Inodes
  <2> QED BY <1>i, <1>h, <2>a, <2>g, <2>o, <2>q, <2>b DEF Kept
<1> QED BY <1>1, <1>2 DEF Exit

LEMMA OpenInodeKept ==
    ASSUME Typed, ControlInv, NEW p \in Procs, OpenInode(p)
    PROVE  Panic \/ Kept(p)
<1> SUFFICES ASSUME ~Panic PROVE Kept(p)
  OBVIOUS
<1>p. Named(p) /\ call[p] \in {"open_read", "open_write"}
  BY DEF OpenInode
<1>c. Control(p)
  BY DEF ControlInv
<1>k. ip[p] \in Inodes /\ tgt[p] = 0 /\ pc[p] \in Walking
  BY <1>p, <1>c DEF Control, Pos, Iputting, Nexts, WithDir, WithTarget, Walking, Naming, Typed, TypedProcs, TypedPc, TypedArgs, Inodes, Parent, Named
<1>1. /\ valid' = ilockValid(ip[p], valid)
      /\ ip' = [ip EXCEPT ![p] = 0]
      /\ Opened(p, ip[p]) \/ (Put(p, ip[p], "idle") /\ UNCHANGED <<files, args>>)
      /\ UNCHANGED <<inodes, ref, lock, tgt>>
  BY DEF OpenInode, ilock
<1>e. Exit(p, ip[p])
  BY <1>1, OpenedExit
<1>t. TypedTable'
  BY <1>1, <1>k, IlockTyped DEF Typed, TypedTable
<1> QED BY <1>1, <1>e, <1>t, <1>k, ExitKept DEF Walking, Iputting

LEMMA CreateFoundKept ==
    ASSUME Typed, ControlInv, NEW p \in Procs, CreateFound(p)
    PROVE  Panic \/ Kept(p)
<1> SUFFICES ASSUME ~Panic PROVE Kept(p)
  OBVIOUS
<1>p. pc[p] = "create_found"
  BY DEF CreateFound
<1>c. Control(p)
  BY DEF ControlInv
<1>k. tgt[p] \in Inodes /\ ip[p] = 0
  BY <1>p, <1>c DEF Control, Pos, Iputting, Nexts, WithDir, WithTarget, Walking, Naming, Typed, TypedProcs, TypedPc, TypedArgs, Inodes, Parent
<1>1. /\ valid' = ilockValid(tgt[p], valid)
      /\ tgt' = [tgt EXCEPT ![p] = 0]
      /\ Opened(p, tgt[p]) \/ (Put(p, tgt[p], "idle") /\ UNCHANGED <<files, args>>)
      /\ UNCHANGED <<inodes, ref, lock, ip>>
  BY DEF CreateFound, ilock
<1>e. Exit(p, tgt[p])
  BY <1>1, OpenedExit
<1>t. TypedTable'
  BY <1>1, <1>k, IlockTyped DEF Typed, TypedTable
<1> QED BY <1>1, <1>e, <1>t, <1>k, <1>p, ExitKept DEF Iputting

LEMMA CreatedKept ==
    ASSUME Typed, ControlInv, NEW p \in Procs, Created(p)
    PROVE  Kept(p)
<1>p. pc[p] = "created"
  BY DEF Created
<1>c. Control(p)
  BY DEF ControlInv
<1>k. tgt[p] \in Inodes /\ ip[p] = 0
  BY <1>p, <1>c DEF Control, Pos, Iputting, Nexts, WithDir, WithTarget, Walking, Naming, Typed, TypedProcs, TypedPc, TypedArgs, Inodes, Parent
<1>1. /\ lock' = [lock EXCEPT ![tgt[p]] = NoProc]
      /\ tgt' = [tgt EXCEPT ![p] = 0]
      /\ Opened(p, tgt[p]) \/ (Put(p, tgt[p], "idle") /\ UNCHANGED <<files, args>>)
      /\ UNCHANGED <<inodes, ref, valid, ip>>
  BY DEF Created
<1>e. Exit(p, tgt[p])
  BY <1>1, OpenedExit
<1>t. TypedTable'
  BY <1>1, <1>k DEF Typed, TypedTable
<1> QED BY <1>1, <1>e, <1>t, <1>k, <1>p, ExitKept DEF Iputting

LEMMA ChdirKept ==
    ASSUME Typed, ControlInv, NEW p \in Procs, Chdir(p)
    PROVE  Panic \/ Kept(p)
<1> SUFFICES ASSUME ~Panic PROVE Kept(p)
  OBVIOUS
<1>p. Named(p) /\ call[p] = "chdir"
  BY DEF Chdir
<1>c. Control(p)
  BY DEF ControlInv
<1>k. ip[p] \in Inodes /\ tgt[p] = 0 /\ put[p] = 0 /\ pc[p] \in Walking /\ cwd[p] \in Inodes
  BY <1>p, <1>c DEF Control, Pos, Iputting, Nexts, WithDir, WithTarget, Walking, Naming, Typed, TypedProcs, TypedPc, TypedArgs, Inodes, Parent, Named
<1>1. /\ valid' = ilockValid(ip[p], valid)
      /\ ip' = [ip EXCEPT ![p] = 0]
      /\ \/ Put(p, cwd[p], "idle") /\ cwd' = [cwd EXCEPT ![p] = ip[p]]
         \/ Put(p, ip[p], "idle") /\ UNCHANGED cwd
      /\ UNCHANGED <<inodes, ref, lock, fd, args, tgt>>
  BY DEF Chdir, ilock
<1>n. 0 \in 0..NINODES /\ cwd[p] \in 0..NINODES /\ ip[p] \in 0..NINODES
  BY <1>k, InodeAssumption DEF Inodes
<1> USE DEF Typed, Put
<1>i. TypedInodes'
  BY <1>1 DEF TypedInodes, inodes
<1>t. TypedTable'
  BY <1>1, <1>k, IlockTyped DEF TypedTable
<1>a. TypedArgs'
  BY <1>1 DEF TypedArgs, args
<1>r. TypedProcs'
  BY <1>1, <1>k, <1>n DEF TypedProcs
<1>g. TypedPc'
  BY <1>1 DEF TypedPc, PC
<1>o. OthersSame(p)
  BY <1>1 DEF OthersSame, Same, TypedProcs, TypedPc, TypedArgs, args
<1>q. Control(p)'
  BY <1>1, <1>k, <1>c, <1>p DEF Control, Pos, Iputting, Nexts, WithDir, WithTarget, Walking, Naming, TypedProcs, TypedPc, TypedArgs, Parent, Inodes, args
<1>b. Balanced(p)
  BY <1>1, <1>k, <1>c, <1>p DEF Balanced, Mine, Is, Held, TypedProcs, TypedPc, TypedTable, Inodes
<1> QED BY <1>i, <1>t, <1>a, <1>r, <1>g, <1>o, <1>q, <1>b DEF Kept

LEMMA LinkPutKept ==
    ASSUME Typed, ControlInv, NEW p \in Procs, LinkPut(p)
    PROVE  Kept(p)
<1>p. pc[p] = "link_put"
  BY DEF LinkPut
<1>c. Control(p)
  BY DEF ControlInv
<1>k. tgt[p] \in Inodes /\ ip[p] = 0 /\ put[p] = 0
  BY <1>p, <1>c DEF Control, Pos, Iputting, Nexts, WithDir, WithTarget, Walking, Naming, Typed, TypedProcs, TypedPc, TypedArgs, Inodes, Parent
<1>1. /\ tgt' = [tgt EXCEPT ![p] = 0]
      /\ Put(p, tgt[p], "idle")
      /\ UNCHANGED <<inodes, table, files, args, ip>>
  BY DEF LinkPut
<1> USE DEF Typed, Put
<1>i. TypedInodes'
  BY <1>1 DEF TypedInodes, inodes
<1>t. TypedTable'
  BY <1>1 DEF TypedTable, table
<1>a. TypedArgs'
  BY <1>1 DEF TypedArgs, args
<1>r. TypedProcs'
  BY <1>1, <1>k DEF TypedProcs, files, Inodes
<1>g. TypedPc'
  BY <1>1 DEF TypedPc, PC
<1>o. OthersSame(p)
  BY <1>1 DEF OthersSame, Same, TypedProcs, TypedPc, TypedArgs, files, args
<1>q. Control(p)'
  BY <1>1, <1>k, <1>c, <1>p DEF Control, Pos, Iputting, Nexts, WithDir, WithTarget, Walking, Naming, TypedProcs, TypedPc, TypedArgs, Parent, Inodes, args
<1>b. Balanced(p)
  BY <1>1, <1>k, <1>c, <1>p DEF Balanced, Mine, Is, Held, TypedProcs, TypedPc, TypedTable, Inodes, files, table
<1> QED BY <1>i, <1>t, <1>a, <1>r, <1>g, <1>o, <1>q, <1>b DEF Kept

LEMMA LinkBadKept ==
    ASSUME Typed, ControlInv, NEW p \in Procs, LinkBad(p)
    PROVE  Panic \/ Kept(p)
<1> SUFFICES ASSUME ~Panic PROVE Kept(p)
  OBVIOUS
<1>p. pc[p] = "link_bad"
  BY DEF LinkBad
<1>c. Control(p)
  BY DEF ControlInv
<1>k. tgt[p] \in Inodes /\ ip[p] = 0 /\ put[p] = 0
  BY <1>p, <1>c DEF Control, Pos, Iputting, Nexts, WithDir, WithTarget, Walking, Naming, Typed, TypedProcs, TypedPc, TypedArgs, Inodes, Parent
<1>1. /\ valid' = ilockValid(tgt[p], valid)
      /\ nlink' = [nlink EXCEPT ![tgt[p]] = @ - 1]
      /\ tgt' = [tgt EXCEPT ![p] = 0]
      /\ Put(p, tgt[p], "idle")
      /\ UNCHANGED <<type, ents, ref, lock, files, args, ip>>
  BY DEF LinkBad, ilock
<1> USE DEF Typed, Put
<1>i. TypedInodes'
  BY <1>1, <1>k DEF TypedInodes
<1>t. TypedTable'
  BY <1>1, <1>k, IlockTyped DEF TypedTable
<1>a. TypedArgs'
  BY <1>1 DEF TypedArgs, args
<1>r. TypedProcs'
  BY <1>1, <1>k DEF TypedProcs, files, Inodes
<1>g. TypedPc'
  BY <1>1 DEF TypedPc, PC
<1>o. OthersSame(p)
  BY <1>1 DEF OthersSame, Same, TypedProcs, TypedPc, TypedArgs, files, args
<1>q. Control(p)'
  BY <1>1, <1>k, <1>c, <1>p DEF Control, Pos, Iputting, Nexts, WithDir, WithTarget, Walking, Naming, TypedProcs, TypedPc, TypedArgs, Parent, Inodes, args
<1>b. Balanced(p)
  BY <1>1, <1>k, <1>c, <1>p DEF Balanced, Mine, Is, Held, TypedProcs, TypedPc, TypedTable, Inodes, files
<1> QED BY <1>i, <1>t, <1>a, <1>r, <1>g, <1>o, <1>q, <1>b DEF Kept

LEMMA UnlinkDecKept ==
    ASSUME Typed, ControlInv, NEW p \in Procs, UnlinkDec(p)
    PROVE  Kept(p)
<1>p. pc[p] = "unlink_dec"
  BY DEF UnlinkDec
<1>c. Control(p)
  BY DEF ControlInv
<1>k. tgt[p] \in Inodes /\ ip[p] = 0 /\ put[p] = 0
  BY <1>p, <1>c DEF Control, Pos, Iputting, Nexts, WithDir, WithTarget, Walking, Naming, Typed, TypedProcs, TypedPc, TypedArgs, Inodes, Parent
<1>1. /\ nlink' = [nlink EXCEPT ![tgt[p]] = @ - 1]
      /\ lock' = [lock EXCEPT ![tgt[p]] = NoProc]
      /\ tgt' = [tgt EXCEPT ![p] = 0]
      /\ Put(p, tgt[p], "idle")
      /\ UNCHANGED <<type, ents, ref, valid, files, args, ip>>
  BY DEF UnlinkDec
<1> USE DEF Typed, Put
<1>i. TypedInodes'
  BY <1>1, <1>k DEF TypedInodes
<1>t. TypedTable'
  BY <1>1, <1>k DEF TypedTable
<1>a. TypedArgs'
  BY <1>1 DEF TypedArgs, args
<1>r. TypedProcs'
  BY <1>1, <1>k DEF TypedProcs, files, Inodes
<1>g. TypedPc'
  BY <1>1 DEF TypedPc, PC
<1>o. OthersSame(p)
  BY <1>1 DEF OthersSame, Same, TypedProcs, TypedPc, TypedArgs, files, args
<1>q. Control(p)'
  BY <1>1, <1>k, <1>c, <1>p DEF Control, Pos, Iputting, Nexts, WithDir, WithTarget, Walking, Naming, TypedProcs, TypedPc, TypedArgs, Parent, Inodes, args
<1>b. Balanced(p)
  BY <1>1, <1>k, <1>c, <1>p DEF Balanced, Mine, Is, Held, TypedProcs, TypedPc, TypedTable, Inodes, files
<1> QED BY <1>i, <1>t, <1>a, <1>r, <1>g, <1>o, <1>q, <1>b DEF Kept

LEMMA PutParentKept ==
    ASSUME Typed, ControlInv, NEW p \in Procs, PutParent(p)
    PROVE  Kept(p)
<1>p. pc[p] \in {"unlink_bad", "create_fail"}
  BY DEF PutParent
<1>c. Control(p)
  BY DEF ControlInv
<1>k. ip[p] \in Inodes /\ tgt[p] = 0 /\ put[p] = 0
  BY <1>p, <1>c DEF Control, Pos, Iputting, Nexts, WithDir, WithTarget, Walking, Naming, Typed, TypedProcs, TypedPc, TypedArgs, Inodes, Parent
<1>1. /\ lock' = [lock EXCEPT ![ip[p]] = NoProc]
      /\ ip' = [ip EXCEPT ![p] = 0]
      /\ Put(p, ip[p], "idle")
      /\ UNCHANGED <<inodes, ref, valid, files, args, tgt>>
  BY DEF PutParent
<1> USE DEF Typed, Put
<1>i. TypedInodes'
  BY <1>1 DEF TypedInodes, inodes
<1>t. TypedTable'
  BY <1>1, <1>k DEF TypedTable
<1>a. TypedArgs'
  BY <1>1 DEF TypedArgs, args
<1>r. TypedProcs'
  BY <1>1, <1>k DEF TypedProcs, files, Inodes
<1>g. TypedPc'
  BY <1>1 DEF TypedPc, PC
<1>o. OthersSame(p)
  BY <1>1 DEF OthersSame, Same, TypedProcs, TypedPc, TypedArgs, files, args
<1>q. Control(p)'
  BY <1>1, <1>k, <1>c, <1>p DEF Control, Pos, Iputting, Nexts, WithDir, WithTarget, Walking, Naming, TypedProcs, TypedPc, TypedArgs, Parent, Inodes, args
<1>b. Balanced(p)
  BY <1>1, <1>k, <1>c, <1>p DEF Balanced, Mine, Is, Held, TypedProcs, TypedPc, TypedTable, Inodes, files
<1> QED BY <1>i, <1>t, <1>a, <1>r, <1>g, <1>o, <1>q, <1>b DEF Kept

LEMMA EntryTyped ==
    ASSUME NEW f \in [Inodes -> [Entries -> 0..NINODES]],
           NEW d \in Inodes, NEW n \in Entries, NEW v \in 0..NINODES
    PROVE  [f EXCEPT ![d][n] = v] \in [Inodes -> [Entries -> 0..NINODES]]
  OBVIOUS

LEMMA NatLeast ==
    ASSUME NEW S \in SUBSET Nat, S # {}
    PROVE  \E x \in S : \A y \in S : x <= y
<1> DEFINE R == OpToRel(<, Nat)
<1>1. IsWellFoundedOn(R, Nat)
  BY NatLessThanWellFounded
<1>2. \A x, y \in Nat : y < x => <<y, x>> \in R
  BY DEF OpToRel
<1> HIDE DEF R
<1>3. PICK x \in S : \A y \in S : ~(<<y, x>> \in R)
  BY <1>1, WFMin
<1>4. \A y \in S : x \in Nat /\ y \in Nat /\ ~(y < x)
  BY <1>2, <1>3
<1> QED BY <1>4

LEMMA LinkOldKept ==
    ASSUME Typed, ControlInv, NEW p \in Procs, LinkOld(p)
    PROVE  Panic \/ Kept(p)
<1> SUFFICES ASSUME ~Panic PROVE Kept(p)
  OBVIOUS
<1>p. Named(p) /\ call[p] = "link" /\ tgt[p] = 0
  BY DEF LinkOld
<1>c. Control(p)
  BY DEF ControlInv
<1>k. ip[p] \in Inodes /\ put[p] = 0 /\ pc[p] = "walk" /\ next[p] \in Nexts
  BY <1>p, <1>c DEF Control, Pos, Iputting, Nexts, WithDir, WithTarget, Walking, Naming, Typed, TypedProcs, TypedPc, TypedArgs, Inodes, Parent, Named
<1> DEFINE start == Start(p, path2[p])
<1>1. CASE /\ valid' = ilockValid(ip[p], valid)
           /\ ip' = [ip EXCEPT ![p] = 0]
           /\ Put(p, ip[p], "idle")
           /\ UNCHANGED <<inodes, ref, lock, files, args, tgt>>
  <2> USE DEF Typed, Put
  <2>i. TypedInodes'
    BY <1>1 DEF TypedInodes, inodes
  <2>t. TypedTable'
    BY <1>1, <1>k, IlockTyped DEF TypedTable
  <2>a. TypedArgs'
    BY <1>1 DEF TypedArgs, args
  <2>r. TypedProcs'
    BY <1>1, <1>k DEF TypedProcs, files, Inodes
  <2>g. TypedPc'
    BY <1>1 DEF TypedPc, PC
  <2>o. OthersSame(p)
    BY <1>1 DEF OthersSame, Same, TypedProcs, TypedPc, TypedArgs, files, args
  <2>q. Control(p)'
    BY <1>1, <1>k, <1>c, <1>p DEF Control, Pos, Iputting, Nexts, WithDir, WithTarget, Walking, Naming, TypedProcs, TypedPc, TypedArgs, Parent, Inodes, args
  <2>b. Balanced(p)
    BY <1>1, <1>k, <1>c, <1>p DEF Balanced, Mine, Is, Held, TypedProcs, TypedPc, TypedTable, Inodes, files
  <2> QED BY <2>i, <2>t, <2>a, <2>r, <2>g, <2>o, <2>q, <2>b DEF Kept
<1>2. CASE /\ nlink' = [nlink EXCEPT ![ip[p]] = @ + 1]
           /\ tgt' = [tgt EXCEPT ![p] = ip[p]]
           /\ StartWalk(p, path2[p])
           /\ valid' = ilockValid(ip[p], igetValid(start))
           /\ UNCHANGED <<type, ents, lock, files, call, path2, put, next>>
  <2>s. start \in Inodes
    BY InodeAssumption DEF Start, Typed, TypedProcs, Inodes, ROOTINO
  <2>e. Elements(path2[p]) \in Seq(Entries)
    BY DEF Typed, TypedArgs, GoodPaths
  <2>1. /\ ref' = igetRef(start)
        /\ ip' = [ip EXCEPT ![p] = start]
        /\ path' = [path EXCEPT ![p] = Elements(path2[p])]
        /\ pc' = [pc EXCEPT ![p] = "walk"]
    BY <1>2 DEF StartWalk, Goto
  <2>v. igetValid(start) \in [Inodes -> {0, 1}] /\ igetRef(start) \in [Inodes -> Int]
    BY <2>s, IgetTyped
  <2>w. ilockValid(ip[p], igetValid(start)) \in [Inodes -> {0, 1}]
    BY <2>v, <1>k, IlockTyped
  <2> HIDE DEF start
  <2> USE DEF Typed
  <2>i. TypedInodes'
    BY <1>2, <2>1, <2>s, <1>k DEF TypedInodes
  <2>t. TypedTable'
    BY <1>2, <2>1, <2>s, <1>k, <2>v, <2>w DEF TypedTable
  <2>a. TypedArgs'
    BY <1>2, <2>1, <2>s, <2>e DEF TypedArgs
  <2>r. TypedProcs'
    BY <1>2, <2>1, <2>s, <1>k DEF TypedProcs, files, Inodes
  <2>g. TypedPc'
    BY <1>2, <2>1, <2>s DEF TypedPc, PC
  <2>o. OthersSame(p)
    BY <1>2, <2>1, <2>s DEF OthersSame, Same, TypedProcs, TypedPc, TypedArgs, files
  <2>q. Control(p)'
    BY <1>2, <2>1, <2>s, <1>k, <1>c, <1>p DEF Control, Pos, Iputting, Nexts, WithDir, WithTarget, Walking, Naming, TypedProcs, TypedPc, TypedArgs, Parent, Inodes
  <2>b. Balanced(p)
    <3>1. \A j \in Inodes : ref'[j] = ref[j] + Is(start, j)
      BY <1>2, <2>1, <2>s DEF igetRef, TypedTable, Is
    <3>2. /\ cwd'[p] = cwd[p] /\ fd'[p] = fd[p] /\ ip'[p] = start /\ Held(p) = 0
          /\ Held(p)' = ip[p] /\ put'[p] = 0
      BY <1>2, <2>1, <2>s, <1>k, <1>p DEF Held, TypedProcs, TypedPc, files
    <3> QED
      BY <1>k, <3>1, <3>2, IsOne DEF Balanced, Mine, TypedTable
  <2> QED BY <2>i, <2>t, <2>a, <2>r, <2>g, <2>o, <2>q, <2>b DEF Kept
<1> QED BY <1>1, <1>2 DEF LinkOld, ilock, iget

LEMMA LinkNewKept ==
    ASSUME Typed, ControlInv, NEW p \in Procs, LinkNew(p)
    PROVE  Panic \/ Kept(p)
<1> SUFFICES ASSUME ~Panic PROVE Kept(p)
  OBVIOUS
<1>p. Named(p) /\ call[p] = "link" /\ tgt[p] # 0
  BY DEF LinkNew
<1>c. Control(p)
  BY DEF ControlInv
<1>k. ip[p] \in Inodes /\ put[p] = 0 /\ pc[p] = "named" /\ tgt[p] \in Inodes
  BY <1>p, <1>c DEF Control, Pos, Iputting, Nexts, WithDir, WithTarget, Walking, Naming, Typed, TypedProcs, TypedPc, TypedArgs, Inodes, Parent, Named
<1>h. path[p] # <<>> /\ Head(path[p]) \in Entries
  BY <1>p, <1>c, NameAndRest DEF Control, Naming, Typed, TypedArgs, Named, Parent
<1>e. ents[ip[p]][Head(path[p])] \in 0..NINODES
  BY <1>h, <1>k DEF Typed, TypedInodes
<1>1. /\ \/ /\ ents' = [ents EXCEPT ![ip[p]][Head(path[p])] = tgt[p]]
            /\ Put(p, ip[p], "link_put")
         \/ Put(p, ip[p], "link_bad") /\ UNCHANGED ents
      /\ valid' = ilockValid(ip[p], valid)
      /\ ip' = [ip EXCEPT ![p] = 0]
      /\ UNCHANGED <<type, nlink, ref, lock, files, args, tgt>>
  BY DEF LinkNew, ilock, iget
<1>n. ents' \in [Inodes -> [Entries -> 0..NINODES]]
  <2>1. tgt[p] \in 0..NINODES
    BY <1>k DEF Inodes
  <2>2. [ents EXCEPT ![ip[p]][Head(path[p])] = tgt[p]] \in [Inodes -> [Entries -> 0..NINODES]]
    BY <1>k, <1>h, <2>1, EntryTyped DEF Typed, TypedInodes
  <2> QED BY <1>1, <2>2 DEF Typed, TypedInodes
<1> USE DEF Typed, Put
<1>i. TypedInodes'
  BY <1>1, <1>n DEF TypedInodes
<1>t. TypedTable'
  BY <1>1, <1>k, IlockTyped DEF TypedTable
<1>a. TypedArgs'
  BY <1>1 DEF TypedArgs, args
<1>r. TypedProcs'
  BY <1>1, <1>k DEF TypedProcs, files, Inodes
<1>g. TypedPc'
  BY <1>1 DEF TypedPc, PC
<1>o. OthersSame(p)
  BY <1>1 DEF OthersSame, Same, TypedProcs, TypedPc, TypedArgs, files, args
<1>q. Control(p)'
  BY <1>1, <1>k, <1>c, <1>p DEF Control, Pos, Iputting, Nexts, WithDir, WithTarget, Walking, Naming, TypedProcs, TypedPc, TypedArgs, Parent, Inodes, args
<1>b. Balanced(p)
  BY <1>1, <1>k, <1>c, <1>p DEF Balanced, Mine, Is, Held, TypedProcs, TypedPc, TypedTable, Inodes, files
<1> QED BY <1>i, <1>t, <1>a, <1>r, <1>g, <1>o, <1>q, <1>b DEF Kept

LEMMA UnlinkKept ==
    ASSUME Typed, ControlInv, NEW p \in Procs, Unlink(p)
    PROVE  Panic \/ Kept(p)
<1> SUFFICES ASSUME ~Panic PROVE Kept(p)
  OBVIOUS
<1>p. Named(p) /\ call[p] = "unlink"
  BY DEF Unlink
<1>c. Control(p)
  BY DEF ControlInv
<1>k. ip[p] \in Inodes /\ put[p] = 0 /\ pc[p] = "named" /\ tgt[p] = 0 /\ next[p] \in Nexts
  BY <1>p, <1>c DEF Control, Pos, Iputting, Nexts, WithDir, WithTarget, Walking, Naming, Typed, TypedProcs, TypedPc, TypedArgs, Inodes, Parent, Named
<1>h. path[p] # <<>> /\ Head(path[p]) \in Entries
  BY <1>p, <1>c, NameAndRest DEF Control, Naming, Typed, TypedArgs, Named, Parent
<1>e. ents[ip[p]][Head(path[p])] \in 0..NINODES
  BY <1>h, <1>k DEF Typed, TypedInodes
<1> DEFINE e == ents[ip[p]][Head(path[p])]
<1>1. CASE /\ valid' = ilockValid(ip[p], valid)
           /\ ip' = [ip EXCEPT ![p] = 0]
           /\ Put(p, ip[p], "idle")
           /\ UNCHANGED <<inodes, ref, lock, files, args, tgt>>
  <2> USE DEF Typed, Put
  <2>i. TypedInodes'
    BY <1>1 DEF TypedInodes, inodes
  <2>t. TypedTable'
    BY <1>1, <1>k, IlockTyped DEF TypedTable
  <2>a. TypedArgs'
    BY <1>1 DEF TypedArgs, args
  <2>r. TypedProcs'
    BY <1>1, <1>k DEF TypedProcs, files, Inodes
  <2>g. TypedPc'
    BY <1>1 DEF TypedPc, PC
  <2>o. OthersSame(p)
    BY <1>1 DEF OthersSame, Same, TypedProcs, TypedPc, TypedArgs, files, args
  <2>q. Control(p)'
    BY <1>1, <1>k, <1>c, <1>p DEF Control, Pos, Iputting, Nexts, WithDir, WithTarget, Walking, Naming, TypedProcs, TypedPc, TypedArgs, Parent, Inodes, args
  <2>b. Balanced(p)
    BY <1>1, <1>k, <1>c, <1>p DEF Balanced, Mine, Is, Held, TypedProcs, TypedPc, TypedTable, Inodes, files
  <2> QED BY <2>i, <2>t, <2>a, <2>r, <2>g, <2>o, <2>q, <2>b DEF Kept
<1>2. CASE /\ e # 0
           /\ ref' = igetRef(e)
           /\ valid' = ilockValid(ip[p], igetValid(e))
           /\ lock' = [lock EXCEPT ![ip[p]] = p]
           /\ tgt' = [tgt EXCEPT ![p] = e]
           /\ Goto(p, "unlink_child")
           /\ UNCHANGED <<inodes, files, args, ip, put, next>>
  <2>e. e \in Inodes
    BY <1>2, <1>e DEF Inodes
  <2>v. igetValid(e) \in [Inodes -> {0, 1}] /\ igetRef(e) \in [Inodes -> Int]
    BY <2>e, IgetTyped
  <2>w. ilockValid(ip[p], igetValid(e)) \in [Inodes -> {0, 1}]
    BY <2>v, <1>k, IlockTyped
  <2> HIDE DEF e
  <2> USE DEF Typed, Goto
  <2>i. TypedInodes'
    BY <1>2, <2>e DEF TypedInodes, inodes
  <2>t. TypedTable'
    BY <1>2, <2>e, <1>k, <2>v, <2>w DEF TypedTable
  <2>a. TypedArgs'
    BY <1>2, <2>e DEF TypedArgs, args
  <2>r. TypedProcs'
    BY <1>2, <2>e, <1>k DEF TypedProcs, files, Inodes
  <2>g. TypedPc'
    BY <1>2, <2>e DEF TypedPc, PC
  <2>o. OthersSame(p)
    BY <1>2, <2>e DEF OthersSame, Same, TypedProcs, TypedPc, TypedArgs, files, args
  <2>q. Control(p)'
    BY <1>h, <1>2, <2>e, <1>k, <1>c, <1>p DEF Control, Pos, Iputting, Nexts, WithDir, WithTarget, Walking, Naming, TypedProcs, TypedPc, TypedArgs, Parent, Inodes, args
  <2>b. Balanced(p)
    <3>1. \A j \in Inodes : ref'[j] = ref[j] + Is(e, j)
      BY <1>2, <2>e DEF igetRef, TypedTable, Is
    <3>2. /\ cwd'[p] = cwd[p] /\ fd'[p] = fd[p] /\ ip'[p] = ip[p] /\ Held(p) = 0
          /\ Held(p)' = e /\ put'[p] = 0
      BY <1>2, <2>e, <1>k, <1>p DEF Held, TypedProcs, TypedPc, files
    <3> QED
      BY <1>k, <3>1, <3>2, IsOne DEF Balanced, Mine, TypedTable
  <2> QED BY <2>i, <2>t, <2>a, <2>r, <2>g, <2>o, <2>q, <2>b DEF Kept
<1> QED BY <1>1, <1>2 DEF Unlink, ilock, iget

LEMMA CreateKept ==
    ASSUME Typed, ControlInv, NEW p \in Procs, Create(p)
    PROVE  Panic \/ Kept(p)
<1> SUFFICES ASSUME ~Panic PROVE Kept(p)
  OBVIOUS
<1>p. Named(p) /\ call[p] \in {"create", "mkdir"}
  BY DEF Create
<1>c. Control(p)
  BY DEF ControlInv
<1>k. ip[p] \in Inodes /\ put[p] = 0 /\ pc[p] = "named" /\ tgt[p] = 0 /\ next[p] \in Nexts
  BY <1>p, <1>c DEF Control, Pos, Iputting, Nexts, WithDir, WithTarget, Walking, Naming, Typed, TypedProcs, TypedPc, TypedArgs, Inodes, Parent, Named
<1>h. path[p] # <<>> /\ Head(path[p]) \in Entries
  BY <1>p, <1>c, NameAndRest DEF Control, Naming, Typed, TypedArgs, Named, Parent
<1>e. ents[ip[p]][Head(path[p])] \in 0..NINODES
  BY <1>h, <1>k DEF Typed, TypedInodes
<1> DEFINE e == ents[ip[p]][Head(path[p])]
<1>1. CASE /\ valid' = ilockValid(ip[p], valid)
           /\ lock' = [lock EXCEPT ![ip[p]] = p]
           /\ Goto(p, "create_alloc")
           /\ UNCHANGED <<inodes, ref, files, args, ip, tgt, put, next>>
  <2> USE DEF Typed, Goto
  <2>i. TypedInodes'
    BY <1>1 DEF TypedInodes, inodes
  <2>t. TypedTable'
    BY <1>1, <1>k, IlockTyped DEF TypedTable
  <2>a. TypedArgs'
    BY <1>1 DEF TypedArgs, args
  <2>r. TypedProcs'
    BY <1>1, <1>k DEF TypedProcs, files, Inodes
  <2>g. TypedPc'
    BY <1>1 DEF TypedPc, PC
  <2>o. OthersSame(p)
    BY <1>1 DEF OthersSame, Same, TypedProcs, TypedPc, TypedArgs, files, args
  <2>q. Control(p)'
    BY <1>h, <1>1, <1>k, <1>c, <1>p DEF Control, Pos, Iputting, Nexts, WithDir, WithTarget, Walking, Naming, TypedProcs, TypedPc, TypedArgs, Parent, Inodes, args
  <2>b. Balanced(p)
    BY <1>1, <1>k, <1>c, <1>p DEF Balanced, Mine, Is, Held, TypedProcs, TypedPc, TypedTable, Inodes, files
  <2> QED BY <2>i, <2>t, <2>a, <2>r, <2>g, <2>o, <2>q, <2>b DEF Kept
<1>2. CASE /\ e # 0
           /\ ref' = igetRef(e)
           /\ valid' = ilockValid(ip[p], igetValid(e))
           /\ tgt' = [tgt EXCEPT ![p] = e]
           /\ ip' = [ip EXCEPT ![p] = 0]
           /\ Put(p, ip[p], "create_found")
           /\ UNCHANGED <<inodes, lock, files, args>>
  <2>e. e \in Inodes
    BY <1>2, <1>e DEF Inodes
  <2>v. igetValid(e) \in [Inodes -> {0, 1}] /\ igetRef(e) \in [Inodes -> Int]
    BY <2>e, IgetTyped
  <2>w. ilockValid(ip[p], igetValid(e)) \in [Inodes -> {0, 1}]
    BY <2>v, <1>k, IlockTyped
  <2> HIDE DEF e
  <2> USE DEF Typed, Put
  <2>i. TypedInodes'
    BY <1>2, <2>e DEF TypedInodes, inodes
  <2>t. TypedTable'
    BY <1>2, <2>e, <1>k, <2>v, <2>w DEF TypedTable
  <2>a. TypedArgs'
    BY <1>2, <2>e DEF TypedArgs, args
  <2>r. TypedProcs'
    BY <1>2, <2>e, <1>k DEF TypedProcs, files, Inodes
  <2>g. TypedPc'
    BY <1>2, <2>e DEF TypedPc, PC
  <2>o. OthersSame(p)
    BY <1>2, <2>e DEF OthersSame, Same, TypedProcs, TypedPc, TypedArgs, files, args
  <2>q. Control(p)'
    BY <1>2, <2>e, <1>k, <1>c, <1>p DEF Control, Pos, Iputting, Nexts, WithDir, WithTarget, Walking, Naming, TypedProcs, TypedPc, TypedArgs, Parent, Inodes, args
  <2>b. Balanced(p)
    <3>1. \A j \in Inodes : ref'[j] = ref[j] + Is(e, j)
      BY <1>2, <2>e DEF igetRef, TypedTable, Is
    <3>2. /\ cwd'[p] = cwd[p] /\ fd'[p] = fd[p] /\ ip'[p] = 0 /\ Held(p) = 0
          /\ Held(p)' = e /\ put'[p] = ip[p]
      BY <1>2, <2>e, <1>k, <1>p DEF Held, TypedProcs, TypedPc, files
    <3> QED
      BY <1>k, <3>1, <3>2, IsOne DEF Balanced, Mine, TypedTable
  <2> QED BY <2>i, <2>t, <2>a, <2>r, <2>g, <2>o, <2>q, <2>b DEF Kept
<1> QED BY <1>1, <1>2 DEF Create, ilock, iget

LEMMA UnlinkChildKept ==
    ASSUME Typed, ControlInv, NEW p \in Procs, UnlinkChild(p)
    PROVE  Panic \/ Kept(p)
<1> SUFFICES ASSUME ~Panic PROVE Kept(p)
  OBVIOUS
<1>p. pc[p] = "unlink_child"
  BY DEF UnlinkChild
<1>c. Control(p)
  BY DEF ControlInv
<1>k. ip[p] \in Inodes /\ put[p] = 0 /\ tgt[p] \in Inodes
  BY <1>p, <1>c DEF Control, Pos, Iputting, Nexts, WithDir, WithTarget, Walking, Naming, Typed, TypedProcs, TypedPc, TypedArgs, Inodes, Parent
<1>h. path[p] # <<>> /\ Head(path[p]) \in Entries
  BY <1>p, <1>c, NameAndRest DEF Control, Naming, Typed, TypedArgs, Named, Parent
<1>e. ents[ip[p]][Head(path[p])] \in 0..NINODES
  BY <1>h, <1>k DEF Typed, TypedInodes
<1>1. CASE /\ tgt' = [tgt EXCEPT ![p] = 0]
           /\ Put(p, tgt[p], "unlink_bad")
           /\ UNCHANGED <<nlink, ents, lock, ip>>
           /\ valid' = ilockValid(tgt[p], valid)
           /\ UNCHANGED <<type, ref, files, args>>
  <2> USE DEF Typed, Put
  <2>i. TypedInodes'
    BY <1>1 DEF TypedInodes
  <2>t. TypedTable'
    BY <1>1, <1>k, IlockTyped DEF TypedTable
  <2>a. TypedArgs'
    BY <1>1 DEF TypedArgs, args
  <2>r. TypedProcs'
    BY <1>1, <1>k DEF TypedProcs, files, Inodes
  <2>g. TypedPc'
    BY <1>1 DEF TypedPc, PC
  <2>o. OthersSame(p)
    BY <1>1 DEF OthersSame, Same, TypedProcs, TypedPc, TypedArgs, files, args
  <2>q. Control(p)'
    BY <1>1, <1>k, <1>c, <1>p DEF Control, Pos, Iputting, Nexts, WithDir, WithTarget, Walking, Naming, TypedProcs, TypedPc, TypedArgs, Parent, Inodes, args
  <2>b. Balanced(p)
    BY <1>1, <1>k, <1>c, <1>p DEF Balanced, Mine, Is, Held, TypedProcs, TypedPc, TypedTable, Inodes, files
  <2> QED BY <2>i, <2>t, <2>a, <2>r, <2>g, <2>o, <2>q, <2>b DEF Kept
<1>2. CASE /\ ents' = [ents EXCEPT ![ip[p]][Head(path[p])] = 0]
           /\ nlink' = [nlink EXCEPT ![ip[p]] = IF type[tgt[p]] = "dir" THEN @ - 1 ELSE @]
           /\ lock' = [lock EXCEPT ![ip[p]] = NoProc, ![tgt[p]] = p]
           /\ ip' = [ip EXCEPT ![p] = 0]
           /\ Put(p, ip[p], "unlink_dec")
           /\ UNCHANGED tgt
           /\ valid' = ilockValid(tgt[p], valid)
           /\ UNCHANGED <<type, ref, files, args>>
  <2>n. ents' \in [Inodes -> [Entries -> 0..NINODES]]
    BY <1>2, <1>k, <1>h, InodeAssumption DEF Typed, TypedInodes
  <2> USE DEF Typed, Put
  <2>i. TypedInodes'
    BY <1>2, <2>n, <1>k DEF TypedInodes
  <2>t. TypedTable'
    BY <1>2, <1>k, IlockTyped DEF TypedTable
  <2>a. TypedArgs'
    BY <1>2 DEF TypedArgs, args
  <2>r. TypedProcs'
    BY <1>2, <1>k DEF TypedProcs, files, Inodes
  <2>g. TypedPc'
    BY <1>2 DEF TypedPc, PC
  <2>o. OthersSame(p)
    BY <1>2 DEF OthersSame, Same, TypedProcs, TypedPc, TypedArgs, files, args
  <2>q. Control(p)'
    BY <1>2, <1>k, <1>c, <1>p DEF Control, Pos, Iputting, Nexts, WithDir, WithTarget, Walking, Naming, TypedProcs, TypedPc, TypedArgs, Parent, Inodes, args
  <2>b. Balanced(p)
    BY <1>2, <1>k, <1>c, <1>p DEF Balanced, Mine, Is, Held, TypedProcs, TypedPc, TypedTable, Inodes, files
  <2> QED BY <2>i, <2>t, <2>a, <2>r, <2>g, <2>o, <2>q, <2>b DEF Kept
<1> QED BY <1>1, <1>2 DEF UnlinkChild, ilock

LEMMA FirstFree ==
    ASSUME Free # {}
    PROVE  /\ (CHOOSE i \in Free : \A j \in Free : i <= j) \in Free
           /\ Free \subseteq Inodes
<1>1. Free \subseteq Nat
  BY InodeAssumption DEF Free, Inodes
<1>2. \E i \in Free : \A j \in Free : i <= j
  BY <1>1, NatLeast
<1> QED BY <1>2 DEF Free

LEMMA IallocKept ==
    ASSUME Typed, ControlInv, NEW p \in Procs, Ialloc(p)
    PROVE  Kept(p)
<1>p. pc[p] = "create_alloc"
  BY DEF Ialloc
<1>c. Control(p)
  BY DEF ControlInv
<1>k. ip[p] \in Inodes /\ put[p] = 0 /\ tgt[p] = 0 /\ next[p] \in Nexts
  BY <1>p, <1>c DEF Control, Pos, Iputting, Nexts, WithDir, WithTarget, Walking, Naming, Typed, TypedProcs, TypedPc, TypedArgs, Inodes, Parent
<1>1. CASE /\ Goto(p, "create_fail")
           /\ UNCHANGED <<inodes, tgt>>
           /\ UNCHANGED <<table, files, args, ip, put, next>>
  <2> USE DEF Typed, Goto
  <2>i. TypedInodes'
    BY <1>1 DEF TypedInodes, inodes
  <2>t. TypedTable'
    BY <1>1 DEF TypedTable, table
  <2>a. TypedArgs'
    BY <1>1 DEF TypedArgs, args
  <2>r. TypedProcs'
    BY <1>1, <1>k DEF TypedProcs, files, Inodes
  <2>g. TypedPc'
    BY <1>1 DEF TypedPc, PC
  <2>o. OthersSame(p)
    BY <1>1 DEF OthersSame, Same, TypedProcs, TypedPc, TypedArgs, files, args
  <2>q. Control(p)'
    BY <1>1, <1>k, <1>c, <1>p DEF Control, Pos, Iputting, Nexts, WithDir, WithTarget, Walking, Naming, TypedProcs, TypedPc, TypedArgs, Parent, Inodes, args
  <2>b. Balanced(p)
    BY <1>1, <1>k, <1>c, <1>p DEF Balanced, Mine, Is, Held, TypedProcs, TypedPc, TypedTable, Inodes, files, table
  <2> QED BY <2>i, <2>t, <2>a, <2>r, <2>g, <2>o, <2>q, <2>b DEF Kept
<1>2. ASSUME NEW i \in Inodes,
             /\ type' = [type EXCEPT ![i] = IF call[p] = "mkdir" THEN "dir" ELSE "file"]
             /\ nlink' = [nlink EXCEPT ![i] = 0]
             /\ ents' = [ents EXCEPT ![i] = NoEntries]
             /\ tgt' = [tgt EXCEPT ![p] = i]
             /\ Goto(p, "create_link")
             /\ UNCHANGED <<table, files, args, ip, put, next>>
      PROVE  Kept(p)
  <2>n. NoEntries \in [Entries -> 0..NINODES]
    BY InodeAssumption DEF NoEntries
  <2> USE DEF Typed, Goto
  <2>i. TypedInodes'
    BY <1>2, <2>n DEF TypedInodes
  <2>t. TypedTable'
    BY <1>2 DEF TypedTable, table
  <2>a. TypedArgs'
    BY <1>2 DEF TypedArgs, args
  <2>r. TypedProcs'
    BY <1>2, <1>k DEF TypedProcs, files, Inodes
  <2>g. TypedPc'
    BY <1>2 DEF TypedPc, PC
  <2>o. OthersSame(p)
    BY <1>2 DEF OthersSame, Same, TypedProcs, TypedPc, TypedArgs, files, args
  <2>q. Control(p)'
    BY <1>2, <1>k, <1>c, <1>p DEF Control, Pos, Iputting, Nexts, WithDir, WithTarget, Walking, Naming, TypedProcs, TypedPc, TypedArgs, Parent, Inodes, args
  <2>b. Balanced(p)
    BY <1>2, <1>k, <1>c, <1>p DEF Balanced, Mine, Is, Held, TypedProcs, TypedPc, TypedTable, Inodes, files, table
  <2> QED BY <2>i, <2>t, <2>a, <2>r, <2>g, <2>o, <2>q, <2>b DEF Kept
<1> QED BY <1>1, <1>2, FirstFree DEF Ialloc

LEMMA CreateLinkKept ==
    ASSUME Typed, ControlInv, NEW p \in Procs, CreateLink(p)
    PROVE  Panic \/ Kept(p)
<1> SUFFICES ASSUME ~Panic PROVE Kept(p)
  OBVIOUS
<1>p. pc[p] = "create_link"
  BY DEF CreateLink
<1>c. Control(p)
  BY DEF ControlInv
<1>k. ip[p] \in Inodes /\ put[p] = 0 /\ tgt[p] \in Inodes
  BY <1>p, <1>c DEF Control, Pos, Iputting, Nexts, WithDir, WithTarget, Walking, Naming, Typed, TypedProcs, TypedPc, TypedArgs, Inodes, Parent
<1>h. path[p] # <<>> /\ Head(path[p]) \in Entries
  BY <1>p, <1>c, NameAndRest DEF Control, Naming, Typed, TypedArgs, Named, Parent
<1>e. ents[ip[p]][Head(path[p])] \in 0..NINODES
  BY <1>h, <1>k DEF Typed, TypedInodes
<1> DEFINE i == tgt[p]
<1>v. igetValid(i) \in [Inodes -> {0, 1}] /\ igetRef(i) \in [Inodes -> Int]
  BY <1>k, IgetTyped
<1>w. ilockValid(i, igetValid(i)) \in [Inodes -> {0, 1}]
  BY <1>v, <1>k, IlockTyped
<1>i. i \in Inodes /\ i \in 0..NINODES /\ ip[p] \in 0..NINODES
  BY <1>k DEF Inodes
<1>1. CASE /\ ref' = igetRef(i)
           /\ valid' = ilockValid(i, igetValid(i))
           /\ ents' = [ents EXCEPT ![ip[p]][Head(path[p])] = i,
                                   ![i][".."] = IF call[p] = "mkdir" THEN ip[p] ELSE 0]
           /\ nlink' = [nlink EXCEPT ![i] = 1, ![ip[p]] = IF call[p] = "mkdir" THEN @ + 1 ELSE @]
           /\ lock' = [lock EXCEPT ![ip[p]] = NoProc, ![i] = p]
           /\ ip' = [ip EXCEPT ![p] = 0]
           /\ Put(p, ip[p], "created")
           /\ UNCHANGED <<type, files, args, tgt>>
  <2>n. ents' \in [Inodes -> [Entries -> 0..NINODES]]
    <3> DEFINE f == [ents EXCEPT ![ip[p]][Head(path[p])] = i]
               w == IF call[p] = "mkdir" THEN ip[p] ELSE 0
    <3>1. w \in 0..NINODES /\ ".." \in Entries
      BY <1>i, InodeAssumption DEF Entries
    <3>2. f \in [Inodes -> [Entries -> 0..NINODES]]
      BY <1>k, <1>h, <1>i, EntryTyped DEF Typed, TypedInodes
    <3>3. ents' = [f EXCEPT ![i][".."] = w]
      BY <1>1
    <3> HIDE DEF f, w
    <3>4. [f EXCEPT ![i][".."] = w] \in [Inodes -> [Entries -> 0..NINODES]]
      BY <1>k, <3>1, <3>2, EntryTyped
    <3> QED BY <3>3, <3>4
  <2>m. nlink' \in [Inodes -> Int]
    BY <1>1, <1>k DEF Typed, TypedInodes
  <2> USE DEF Typed, Put
  <2>i. TypedInodes'
    BY <1>1, <1>i, <2>n, <2>m DEF TypedInodes
  <2>t. TypedTable'
    BY <1>1, <1>i, <1>k, <1>v, <1>w DEF TypedTable
  <2>a. TypedArgs'
    BY <1>1, <1>i DEF TypedArgs, args
  <2>r. TypedProcs'
    BY <1>1, <1>i, <1>k DEF TypedProcs, files, Inodes
  <2>g. TypedPc'
    BY <1>1, <1>i DEF TypedPc, PC
  <2>o. OthersSame(p)
    BY <1>1, <1>i DEF OthersSame, Same, TypedProcs, TypedPc, TypedArgs, files, args
  <2>q. Control(p)'
    BY <1>1, <1>i, <1>k, <1>c, <1>p DEF Control, Pos, Iputting, Nexts, WithDir, WithTarget, Walking, Naming, TypedProcs, TypedPc, TypedArgs, Parent, Inodes, args
  <2>b. Balanced(p)
    <3>1. \A j \in Inodes : ref'[j] = ref[j] + Is(i, j)
      BY <1>1, <1>i DEF igetRef, TypedTable, Is
    <3>2. /\ cwd'[p] = cwd[p] /\ fd'[p] = fd[p] /\ ip'[p] = 0 /\ Held(p) = 0
          /\ Held(p)' = i /\ put'[p] = ip[p]
      BY <1>1, <1>i, <1>k, <1>p DEF Held, TypedProcs, TypedPc, files
    <3> QED
      BY <1>k, <3>1, <3>2, IsOne DEF Balanced, Mine, TypedTable
  <2> QED BY <2>i, <2>t, <2>a, <2>r, <2>g, <2>o, <2>q, <2>b DEF Kept
<1>2. CASE /\ ref' = igetRef(i)
           /\ valid' = ilockValid(i, igetValid(i))
           /\ tgt' = [tgt EXCEPT ![p] = 0]
           /\ Put(p, i, "create_fail")
           /\ UNCHANGED <<nlink, ents, lock, ip>>
           /\ UNCHANGED <<type, files, args>>
  <2> USE DEF Typed, Put
  <2>i. TypedInodes'
    BY <1>2, <1>i DEF TypedInodes
  <2>t. TypedTable'
    BY <1>2, <1>i, <1>k, <1>v, <1>w DEF TypedTable
  <2>a. TypedArgs'
    BY <1>2, <1>i DEF TypedArgs, args
  <2>r. TypedProcs'
    BY <1>2, <1>i, <1>k DEF TypedProcs, files, Inodes
  <2>g. TypedPc'
    BY <1>2, <1>i DEF TypedPc, PC
  <2>o. OthersSame(p)
    BY <1>2, <1>i DEF OthersSame, Same, TypedProcs, TypedPc, TypedArgs, files, args
  <2>q. Control(p)'
    BY <1>2, <1>i, <1>k, <1>c, <1>p DEF Control, Pos, Iputting, Nexts, WithDir, WithTarget, Walking, Naming, TypedProcs, TypedPc, TypedArgs, Parent, Inodes, args
  <2>b. Balanced(p)
    <3>1. \A j \in Inodes : ref'[j] = ref[j] + Is(i, j)
      BY <1>2, <1>i DEF igetRef, TypedTable, Is
    <3>2. /\ cwd'[p] = cwd[p] /\ fd'[p] = fd[p] /\ ip'[p] = ip[p] /\ Held(p) = 0
          /\ Held(p)' = 0 /\ put'[p] = i
      BY <1>2, <1>i, <1>k, <1>p DEF Held, TypedProcs, TypedPc, files
    <3> QED
      BY <1>k, <3>1, <3>2, IsOne DEF Balanced, Mine, TypedTable
  <2> QED BY <2>i, <2>t, <2>a, <2>r, <2>g, <2>o, <2>q, <2>b DEF Kept
<1> QED BY <1>1, <1>2 DEF CreateLink, iget

LEMMA StepKept ==
    ASSUME Typed, ControlInv, NEW p \in Procs, Step(p)
    PROVE  Panic \/ Kept(p)
  BY CallKept, CloseKept, WalkKept, WalkNoParentKept, IputDropKept, IputDecideKept,
     IputFreeKept, IputLastKept, OpenInodeKept, ChdirKept, LinkOldKept, LinkNewKept,
     LinkPutKept, LinkBadKept, UnlinkKept, UnlinkChildKept, UnlinkDecKept, PutParentKept,
     CreateKept, CreateFoundKept, IallocKept, CreateLinkKept, CreatedKept
  DEF Step, Namex, Iput, Link, Remove, Make

LEMMA Procs0 == IsFiniteSet(Procs) /\ NoProc \notin Procs /\ 0 \notin Inodes /\ ROOTINO \in Inodes
  BY InodeAssumption DEF Inodes, ROOTINO

LEMMA SubsetCounts ==
    ASSUME NEW S \in SUBSET Procs
    PROVE  IsFiniteSet(S) /\ Cardinality(S) \in Nat
  BY Procs0, FS_Subset, FS_CardinalityType

Has(S, p) == IF p \in S THEN 1 ELSE 0

\* Two sets of processes that differ in p at most.
LEMMA CountMoves ==
    ASSUME NEW S \in SUBSET Procs, NEW T \in SUBSET Procs, NEW p \in Procs,
           \A q \in Procs : q # p => (q \in S <=> q \in T)
    PROVE  Cardinality(T) + Has(S, p) = Cardinality(S) + Has(T, p)
<1> DEFINE R == S \ {p}
<1>1. IsFiniteSet(R) /\ Cardinality(R) \in Nat
  BY SubsetCounts
<1>2. Cardinality(R \union {p}) = Cardinality(R) + 1
  BY <1>1, FS_AddElement
<1>3. S = (IF p \in S THEN R \union {p} ELSE R) /\ T = (IF p \in T THEN R \union {p} ELSE R)
  OBVIOUS
<1> HIDE DEF R
<1> QED BY <1>1, <1>2, <1>3 DEF Has

At(f, i) == {q \in Procs : f[q] = i}
Helds == [q \in Procs |-> Held(q)]

LEMMA AtMoves ==
    ASSUME NEW f, NEW g, NEW i, NEW p \in Procs, \A q \in Procs : q # p => f[q] = g[q]
    PROVE  /\ Cardinality(At(f, i)) \in Nat /\ Cardinality(At(g, i)) \in Nat
           /\ Cardinality(At(g, i)) + Is(f[p], i) = Cardinality(At(f, i)) + Is(g[p], i)
<1>1. Cardinality(At(g, i)) + Has(At(f, i), p) = Cardinality(At(f, i)) + Has(At(g, i), p)
  <2>1. \A q \in Procs : q # p => (q \in At(f, i) <=> q \in At(g, i))
    BY DEF At
  <2>2. At(f, i) \in SUBSET Procs /\ At(g, i) \in SUBSET Procs
    BY DEF At
  <2> QED BY <2>1, <2>2, CountMoves
<1>2. Has(At(f, i), p) = Is(f[p], i) /\ Has(At(g, i), p) = Is(g[p], i)
  BY DEF Is, At, Has
<1>3. Cardinality(At(f, i)) \in Nat /\ Cardinality(At(g, i)) \in Nat
  BY SubsetCounts DEF At
<1> QED BY <1>1, <1>2, <1>3

Total(i) ==
    Cardinality(At(cwd, i)) + Cardinality(At(fd, i)) + Cardinality(At(ip, i))
    + Cardinality(At(Helds, i)) + Cardinality(At(put, i))

LEMMA RefsAre == RefsExact <=> \A i \in Inodes : ref[i] = Total(i)
<1>1. ASSUME NEW i \in Inodes
      PROVE  {p \in Procs : tgt[p] = i /\ pc[p] # "create_link"} = At(Helds, i)
  BY Procs0 DEF At, Helds, Held
<1> QED BY <1>1 DEF RefsExact, Total, At

LEMMA TotalMoves ==
    ASSUME NEW p \in Procs, OthersSame(p), NEW i \in Inodes
    PROVE  Total(i) \in Nat /\ Total(i)' \in Nat /\ Total(i)' + Mine(p, i) = Total(i) + Mine(p, i)'
<1>1. \A q \in Procs : q # p => /\ cwd[q] = cwd'[q] /\ fd[q] = fd'[q] /\ ip[q] = ip'[q]
                                /\ Helds[q] = Helds'[q] /\ put[q] = put'[q]
  BY DEF OthersSame, Same, Helds, Held
<1> DEFINE C(f) == Cardinality(At(f, i))
<1>2. C(cwd) \in Nat /\ C(cwd') \in Nat /\ C(cwd') + Is(cwd[p], i) = C(cwd) + Is(cwd'[p], i)
  BY <1>1, AtMoves
<1>3. C(fd) \in Nat /\ C(fd') \in Nat /\ C(fd') + Is(fd[p], i) = C(fd) + Is(fd'[p], i)
  BY <1>1, AtMoves
<1>4. C(ip) \in Nat /\ C(ip') \in Nat /\ C(ip') + Is(ip[p], i) = C(ip) + Is(ip'[p], i)
  BY <1>1, AtMoves
<1>5. C(put) \in Nat /\ C(put') \in Nat /\ C(put') + Is(put[p], i) = C(put) + Is(put'[p], i)
  BY <1>1, AtMoves
<1>6. C(Helds) \in Nat /\ C(Helds') \in Nat /\ C(Helds') + Is(Helds[p], i) = C(Helds) + Is(Helds'[p], i)
  BY <1>1, AtMoves
<1>7. Helds[p] = Held(p) /\ Helds'[p] = Held(p)'
  BY DEF Helds
<1>8. Total(i)' = C(cwd') + C(fd') + C(ip') + C(Helds') + C(put')
  BY DEF Total, At
<1>9. /\ Mine(p, i) = Is(cwd[p], i) + Is(fd[p], i) + Is(ip[p], i) + Is(Helds[p], i) + Is(put[p], i)
      /\ Mine(p, i)' = Is(cwd'[p], i) + Is(fd'[p], i) + Is(ip'[p], i) + Is(Helds'[p], i) + Is(put'[p], i)
  BY <1>7, Zenon DEF Mine, Is
<1>10. Total(i) = C(cwd) + C(fd) + C(ip) + C(Helds) + C(put)
  BY DEF Total
<1>11. \A x : Is(x, i) \in Int
  BY IsOne
<1> HIDE DEF C
<1> QED BY <1>2, <1>3, <1>4, <1>5, <1>6, <1>8, <1>9, <1>10, <1>11

LEMMA KeptRefs ==
    ASSUME RefInv, NEW p \in Procs, Kept(p)
    PROVE  RefInv'
<1>1. Typed' /\ OthersSame(p) /\ Control(p)' /\ Balanced(p) /\ Typed
  BY DEF Kept, RefInv
<1>2. ControlInv'
  <2>1. ASSUME NEW q \in Procs, q # p PROVE Control(q)'
    <3>1. Control(q) /\ Same(q)
      BY <1>1, <2>1 DEF RefInv, ControlInv, OthersSame
    <3> QED BY <3>1 DEF Control, Same, Pos, Parent
  <2> QED BY <1>1, <2>1 DEF ControlInv
<1>3. RefsExact'
  <2>1. ASSUME NEW i \in Inodes PROVE ref'[i] = Total(i)'
    <3>1. ref[i] = Total(i) /\ ref'[i] + Mine(p, i) = ref[i] + Mine(p, i)'
      BY <1>1, RefsAre DEF RefInv, Balanced
    <3>2. Total(i) \in Nat /\ Total(i)' \in Nat /\ Total(i)' + Mine(p, i) = Total(i) + Mine(p, i)'
      BY <1>1, TotalMoves
    <3>3. Mine(p, i) \in Int /\ Mine(p, i)' \in Int /\ ref'[i] \in Int
      BY <1>1, IsOne DEF Mine, Typed, TypedTable
    <3> QED BY <3>1, <3>2, <3>3
  <2>2. (\A i \in Inodes : ref[i] = Total(i))'
    BY <2>1
  <2> QED BY <2>2, RefsAre, PTL
<1> QED BY <1>1, <1>2, <1>3 DEF RefInv

\* Everybody is in the root directory and nobody has anything else.
AtRoot ==
    /\ \A p \in Procs : /\ cwd[p] = ROOTINO /\ fd[p] = 0 /\ ip[p] = 0 /\ put[p] = 0
                         /\ Held(p) = 0
    /\ ref = [i \in Inodes |-> IF i = ROOTINO THEN Cardinality(Procs) ELSE 0]

LEMMA AllAtRoot == AtRoot => RefsExact
<1> SUFFICES ASSUME AtRoot PROVE RefsExact
  OBVIOUS
<1> USE DEF AtRoot
<1>1. ASSUME NEW i \in Inodes PROVE ref[i] = Total(i)
  <2>1. At(fd, i) = {} /\ At(ip, i) = {} /\ At(put, i) = {} /\ At(Helds, i) = {}
    BY Procs0 DEF At, Helds
  <2>2. At(cwd, i) = IF i = ROOTINO THEN Procs ELSE {}
    BY DEF At
  <2>3. Cardinality({}) = 0 /\ Cardinality(Procs) \in Nat
    BY FS_EmptySet, Procs0, FS_CardinalityType
  <2> QED BY <2>1, <2>2, <2>3 DEF Total
<1> QED BY <1>1, RefsAre

LEMMA RefInit == Init => RefInv
<1> SUFFICES ASSUME Init PROVE RefInv
  OBVIOUS
<1> USE DEF Init
<1>n. NoEntries \in [Entries -> 0..NINODES] /\ ".." \in Entries /\ ROOTINO \in 0..NINODES
  BY InodeAssumption DEF NoEntries, Entries, ROOTINO
<1>i. TypedInodes
  BY <1>n DEF TypedInodes
<1>t. TypedTable
  BY Procs0, FS_CardinalityType DEF TypedTable
<1>a. TypedArgs
  BY EmptyPath DEF TypedArgs
<1>r. TypedProcs
  BY Procs0, InodeAssumption DEF TypedProcs
<1>g. TypedPc
  BY DEF TypedPc, PC
<1>c. ControlInv
  BY DEF ControlInv, Control, Pos, Iputting, Nexts, WithDir, WithTarget, Walking, Naming
<1>e. RefsExact
  BY AllAtRoot DEF AtRoot, Held
<1> QED BY <1>i, <1>t, <1>a, <1>r, <1>g, <1>c, <1>e DEF RefInv, Typed

LEMMA CrashRefs == RefInv /\ Crash => RefInv'
<1> SUFFICES ASSUME RefInv, Crash PROVE RefInv'
  OBVIOUS
<1> USE DEF Crash
<1>k. \A p \in Procs : pc[p] = "idle" /\ ip[p] = 0 /\ tgt[p] = 0 /\ put[p] = 0
  BY DEF RefInv, ControlInv, Control, Pos, Iputting, WithDir, WithTarget, Walking
<1>n. NoEntries \in [Entries -> 0..NINODES]
  BY InodeAssumption DEF NoEntries
<1>i. TypedInodes'
  BY <1>n DEF RefInv, Typed, TypedInodes
<1>t. TypedTable'
  BY Procs0, FS_CardinalityType DEF RefInv, Typed, TypedTable
<1>a. TypedArgs'
  BY DEF RefInv, Typed, TypedArgs, args
<1>r. TypedProcs'
  BY Procs0, InodeAssumption DEF RefInv, Typed, TypedProcs
<1>g. TypedPc'
  BY DEF RefInv, Typed, TypedPc
<1>c. ControlInv'
  <2>1. UNCHANGED <<put, pc, next, ip, tgt, call, path>>
    BY DEF args
  <2> QED BY <2>1 DEF RefInv, ControlInv, Control, Pos, Parent
<1>e. RefsExact'
  <2>1. \A p \in Procs : cwd'[p] = ROOTINO /\ fd'[p] = 0 /\ ip'[p] = 0 /\ put'[p] = 0 /\ Held(p)' = 0
    BY <1>k DEF Held
  <2>2. AtRoot'
    BY <2>1 DEF AtRoot
  <2> QED BY <2>2, AllAtRoot, PTL
<1> QED BY <1>i, <1>t, <1>a, <1>r, <1>g, <1>c, <1>e DEF RefInv, Typed

\* A step that changes nothing that RefInv is about.
LEMMA FrozenRefs ==
    ASSUME RefInv, UNCHANGED <<inodes, table, files, pc, args, ip, tgt, put, next>>
    PROVE  RefInv'
<1> USE DEF inodes, table, files, args
<1>1. Typed'
  BY DEF RefInv, Typed, TypedInodes, TypedTable, TypedArgs, TypedProcs, TypedPc
<1>2. ControlInv'
  BY DEF RefInv, ControlInv, Control, Pos, Parent
<1>3. RefsExact'
  BY DEF RefInv, RefsExact
<1> QED BY <1>1, <1>2, <1>3 DEF RefInv

\* The inductive invariant about references.
THEOREM RefInvariant == Spec => []RefInv
<1>1. RefInv /\ [Next]_vars => RefInv'
  <2> SUFFICES ASSUME RefInv, [Next]_vars PROVE RefInv'
    OBVIOUS
  <2>1. ASSUME NEW p \in Procs, Step(p) PROVE RefInv'
    BY <2>1, StepKept, KeptRefs, FrozenRefs DEF Panic, RefInv
  <2>2. CASE Crash
    BY <2>2, CrashRefs
  <2>3. CASE UNCHANGED vars
    BY <2>3, FrozenRefs DEF vars
  <2> QED BY <2>1, <2>2, <2>3, NextIs
<1> QED BY <1>1, RefInit, PTL DEF Spec

\* Every reference is counted: RefsExact holds for any processes, calls and
\* numbers of inodes, whichever paths programs use and whatever fails.
THEOREM ReferencesCounted == Spec => []RefsExact
  BY RefInvariant, PTL DEF RefInv

----------------------------------------------------------------------------
(* The tree *)

\* Programs that do not use "..".
PlainPaths == \A c \in Calls : Elements(c[2]) \in Seq(Names) /\ Elements(c[3]) \in Seq(Names)

\* p holds the sleep-lock of i.
Locking == {"unlink_child", "unlink_bad", "create_alloc", "create_link", "create_fail"}
Holds(p, i) ==
    \/ Pos(p) \in Locking /\ ip[p] = i
    \/ Pos(p) \in {"unlink_dec", "created"} /\ tgt[p] = i
    \/ pc[p] = "iput_free" /\ put[p] = i

\* A new inode that create() has no reference to yet.
Pending(i) == \E p \in Procs : pc[p] = "create_link" /\ tgt[p] = i

\* p has a reference to i, and has not freed it.
Uses(p, i) ==
    cwd[p] = i \/ fd[p] = i \/ ip[p] = i \/ Held(p) = i \/ (put[p] = i /\ pc[p] # "iput_drop")

\* What p knows of the inodes that it uses.
Knows(p) ==
    /\ path[p] \in Seq(Names) /\ Elements(path2[p]) \in Seq(Names)
    /\ call[p] = "link" /\ tgt[p] # 0 => type[tgt[p]] = "file"
    /\ pc[p] \in Naming => type[ip[p]] = "dir"
    /\ pc[p] = "create_link" => type[tgt[p]] = IF call[p] = "mkdir" THEN "dir" ELSE "file"
    /\ pc[p] = "unlink_child" => ents[ip[p]][Head(path[p])] = tgt[p]
    /\ pc[p] \in {"create_alloc", "create_link"} => ents[ip[p]][Head(path[p])] = 0
    /\ pc[p] = "iput_free" => ref[put[p]] = 1 /\ nlink[put[p]] = 0

Actor(p) ==
    /\ \A i \in Inodes : lock[i] = p <=> Holds(p, i)
    /\ \A i \in Inodes : Uses(p, i) => type[i] # "free" /\ ~Pending(i)
    /\ Knows(p)

\* Free and new inodes are empty and unlinked; an inode is new for one process.
Fresh ==
    /\ \A i \in Inodes : type[i] = "free" \/ Pending(i) => nlink[i] = 0 /\ ents[i] = NoEntries
    /\ \A p, q \in Procs : pc[p] = "create_link" /\ pc[q] = "create_link" /\ tgt[p] = tgt[q] => p = q

\* The entries that count for i; and the calls that have counted a link of i
\* without an entry for it: link() before it makes one, unlink() after it
\* has cleared one.
LinkSet(i) ==
    {en \in Inodes \X Entries : ents[en[1]][en[2]] = i /\ (en[2] = ".." => InTree(en[1]))}
Links1(p, i) ==
    tgt[p] = i /\ (Pos(p) = "unlink_dec" \/ (call[p] = "link" /\ Pos(p) # "link_put"))
Pend(i) == {p \in Procs : Links1(p, i)}
Counted == \A i \in Inodes : nlink[i] >= Cardinality(LinkSet(i)) + Cardinality(Pend(i))

\* A directory has one name, and its ".." is where that is.
Shape ==
    /\ type[ROOTINO] = "dir" /\ ents[ROOTINO][".."] = ROOTINO
    /\ \A i \in Inodes : type[i] # "dir" => ents[i] = NoEntries
    /\ \A x \in Inodes, n \in Names : ents[x][n] # ROOTINO
    /\ \A x, j \in Inodes, n \in Names : ents[x][n] = j /\ type[j] = "dir" =>
           /\ ents[j][".."] = x
           /\ \A y \in Inodes, m \in Names : ents[y][m] = j => y = x /\ m = n

TreeInv == (\A p \in Procs : Actor(p)) /\ Fresh /\ Counted /\ Shape

\* What a step of p may do to inodes of others.
Touches(p, i) ==
    cwd[p] = i \/ fd[p] = i \/ ip[p] = i \/ tgt[p] = i \/ put[p] = i \/ nlink[i] > 0
GentleRefs(p) == \A i \in Inodes : ref'[i] = ref[i] \/ Touches(p, i)
GentleLocks(p) == \A i \in Inodes, q \in Procs : q # p => (lock'[i] = q <=> lock[i] = q)
GentleInodes(p) ==
    \A i \in Inodes :
        /\ nlink'[i] = nlink[i] \/ Touches(p, i)
        /\ type'[i] = type[i] \/ type[i] = "free" \/ (put[p] = i /\ pc[p] = "iput_free")
        /\ ents'[i] = ents[i] \/ lock[i] \in {p, NoProc}
        /\ Pending(i)' => Pending(i) \/ type[i] = "free"

LEMMA PairsFinite == IsFiniteSet(Inodes \X Entries)
<1>1. IsFiniteSet(Inodes)
  BY FS_Interval, InodeAssumption DEF Inodes
<1>2. IsFiniteSet(Entries)
  BY FS_AddElement, InodeAssumption DEF Entries
<1> QED BY <1>1, <1>2, FS_Product

LEMMA LinksFinite ==
    ASSUME NEW i
    PROVE  /\ IsFiniteSet(LinkSet(i)) /\ Cardinality(LinkSet(i)) \in Nat
           /\ IsFiniteSet(Pend(i)) /\ Cardinality(Pend(i)) \in Nat
<1>1. LinkSet(i) \subseteq Inodes \X Entries
  BY DEF LinkSet
<1>2. IsFiniteSet(LinkSet(i))
  BY <1>1, PairsFinite, FS_Subset
<1>3. Pend(i) \in SUBSET Procs
  BY DEF Pend
<1> QED BY <1>2, <1>3, FS_CardinalityType, SubsetCounts

\* An inode that an entry or a call counts on has links.
LEMMA LinkedHas ==
    ASSUME Typed, Counted, NEW i \in Inodes, LinkSet(i) # {} \/ Pend(i) # {}
    PROVE  nlink[i] > 0
<1>1. Cardinality(LinkSet(i)) > 0 \/ Cardinality(Pend(i)) > 0
  BY LinksFinite, FS_EmptySet
<1> QED BY <1>1, LinksFinite DEF Counted, Typed, TypedInodes

LEMMA NamedHas ==
    ASSUME Typed, Counted, NEW x \in Inodes, NEW n \in Names, ents[x][n] # 0
    PROVE  ents[x][n] \in Inodes /\ nlink[ents[x][n]] > 0
<1>1. n \in Entries /\ n # ".."
  BY InodeAssumption DEF Entries
<1>2. ents[x][n] \in Inodes
  BY <1>1 DEF Typed, TypedInodes, Inodes
<1>3. <<x, n>> \in LinkSet(ents[x][n])
  BY <1>1 DEF LinkSet
<1> QED BY <1>2, <1>3, LinkedHas

LEMMA RootHas ==
    ASSUME Typed, Counted, Shape
    PROVE  nlink[ROOTINO] > 0
<1>1. <<ROOTINO, "..">> \in LinkSet(ROOTINO)
  BY Procs0 DEF LinkSet, Shape, InTree, Entries
<1> QED BY <1>1, LinkedHas, Procs0

\* The one reference to i is the one that p is about to drop.
LEMMA Alone ==
    ASSUME RefInv, NEW p \in Procs, NEW i \in Inodes, ref[i] = 1, put[p] = i, NEW q \in Procs
    PROVE  /\ cwd[q] # i /\ fd[q] # i /\ ip[q] # i /\ Held(q) # i
           /\ q # p => put[q] # i
<1>1. Total(i) = 1
  BY RefsAre DEF RefInv
<1>2. /\ Cardinality(At(cwd, i)) \in Nat /\ Cardinality(At(fd, i)) \in Nat /\ Cardinality(At(ip, i)) \in Nat
      /\ Cardinality(At(Helds, i)) \in Nat /\ Cardinality(At(put, i)) \in Nat
  BY SubsetCounts DEF At
<1>3. IsFiniteSet(At(put, i)) /\ p \in At(put, i)
  BY SubsetCounts DEF At
<1>4. Cardinality(At(put, i)) >= 1
  BY <1>2, <1>3, FS_EmptySet
<1>5. /\ Cardinality(At(cwd, i)) = 0 /\ Cardinality(At(fd, i)) = 0 /\ Cardinality(At(ip, i)) = 0
      /\ Cardinality(At(Helds, i)) = 0 /\ Cardinality(At(put, i)) = 1
  BY <1>1, <1>2, <1>4 DEF Total
<1>6. /\ IsFiniteSet(At(cwd, i)) /\ IsFiniteSet(At(fd, i)) /\ IsFiniteSet(At(ip, i)) /\ IsFiniteSet(At(Helds, i))
  BY SubsetCounts DEF At
<1>7. At(cwd, i) = {} /\ At(fd, i) = {} /\ At(ip, i) = {} /\ At(Helds, i) = {}
  BY <1>5, <1>6, FS_EmptySet
<1>8. At(put, i) = {p}
  BY <1>3, <1>5, FS_Singleton
<1> QED BY <1>7, <1>8 DEF At, Helds

\* What iput() is about to free is not used by anybody else.
LEMMA FreedAlone ==
    ASSUME RefInv, TreeInv, NEW p \in Procs, pc[p] = "iput_free", NEW q \in Procs
    PROVE  /\ put[p] \in Inodes /\ ref[put[p]] = 1 /\ nlink[put[p]] = 0
           /\ cwd[q] # put[p] /\ fd[q] # put[p] /\ ip[q] # put[p] /\ tgt[q] # put[p]
           /\ q # p => put[q] # put[p]
<1>1. put[p] \in Inodes
  BY DEF RefInv, ControlInv, Control, Iputting, Typed, TypedProcs, Inodes
<1>2. ref[put[p]] = 1 /\ nlink[put[p]] = 0 /\ ~Pending(put[p])
  BY <1>1 DEF TreeInv, Actor, Knows, Uses
<1>3. /\ cwd[q] # put[p] /\ fd[q] # put[p] /\ ip[q] # put[p] /\ Held(q) # put[p]
      /\ q # p => put[q] # put[p]
  BY <1>1, <1>2, Alone
<1>4. tgt[q] # put[p]
  BY <1>2, <1>3 DEF Held, Pending
<1> QED BY <1>1, <1>2, <1>3, <1>4

LEMMA OthersActors ==
    ASSUME RefInv, TreeInv, NEW p \in Procs, OthersSame(p),
           GentleRefs(p), GentleLocks(p), GentleInodes(p), NEW q \in Procs, q # p
    PROVE  Actor(q)'
<1>1. Same(q) /\ Actor(q) /\ Control(q)
  BY DEF OthersSame, TreeInv, RefInv, ControlInv
<1>2. \A i \in Inodes : (lock'[i] = q <=> Holds(q, i)')
  BY <1>1 DEF GentleLocks, Actor, Holds, Pos, Same
<1>3. ASSUME NEW i \in Inodes, Uses(q, i) \/ (pc[q] = "create_link" /\ tgt[q] = i)
      PROVE  type'[i] = type[i] /\ type[i] # "free"
  <2>1. type[i] # "free"
    BY <1>1, <1>3 DEF Actor, Knows
  <2>2. ~(put[p] = i /\ pc[p] = "iput_free")
    <3> SUFFICES ASSUME put[p] = i, pc[p] = "iput_free" PROVE FALSE
      OBVIOUS
    <3>1. cwd[q] # i /\ fd[q] # i /\ ip[q] # i /\ tgt[q] # i /\ put[q] # i
      BY FreedAlone
    <3>2. i # 0
      BY Procs0
    <3> QED BY <1>3, <3>1, <3>2 DEF Uses, Held
  <2> QED BY <2>1, <2>2 DEF GentleInodes
<1>4. ASSUME NEW i \in Inodes, Uses(q, i)' PROVE type'[i] # "free" /\ ~Pending(i)'
  <2>1. Uses(q, i)
    BY <1>1, <1>4 DEF Same, Uses, Held
  <2> QED BY <2>1, <1>1, <1>3 DEF GentleInodes, Actor
<1>5. Knows(q)'
  <2>0. ip[q] \in 0..NINODES /\ tgt[q] \in 0..NINODES /\ put[q] \in 0..NINODES
    BY DEF RefInv, Typed, TypedProcs
  <2>i. \A i \in 0..NINODES : i # 0 => i \in Inodes
    BY DEF Inodes
  <2>1. path'[q] \in Seq(Names) /\ Elements(path2'[q]) \in Seq(Names)
    BY <1>1 DEF Same, Actor, Knows
  <2>2. call'[q] = "link" /\ tgt'[q] # 0 => type'[tgt'[q]] = "file"
    <3> SUFFICES ASSUME call'[q] = "link", tgt'[q] # 0 PROVE type'[tgt'[q]] = "file"
      OBVIOUS
    <3>1. tgt[q] \in Inodes /\ (Uses(q, tgt[q]) \/ pc[q] = "create_link") /\ type[tgt[q]] = "file" /\ tgt'[q] = tgt[q]
      BY <1>1, <2>0, <2>i DEF Same, Uses, Held, Actor, Knows
    <3> QED BY <3>1, <1>3
  <2>3. pc'[q] \in Naming => type'[ip'[q]] = "dir"
    <3> SUFFICES ASSUME pc'[q] \in Naming PROVE type'[ip'[q]] = "dir"
      OBVIOUS
    <3>1. type[ip[q]] = "dir" /\ ip'[q] = ip[q] /\ pc[q] \in Naming
      BY <1>1 DEF Same, Actor, Knows
    <3>2. ip[q] \in Inodes
      BY <1>1, <2>0, <2>i, <3>1 DEF Control, Pos, Iputting, WithDir, Naming
    <3>3. Uses(q, ip[q])
      BY DEF Uses
    <3> QED BY <3>1, <3>2, <3>3, <1>3
  <2>4. pc'[q] = "create_link" => type'[tgt'[q]] = IF call'[q] = "mkdir" THEN "dir" ELSE "file"
    <3> SUFFICES ASSUME pc'[q] = "create_link" PROVE type'[tgt'[q]] = IF call'[q] = "mkdir" THEN "dir" ELSE "file"
      OBVIOUS
    <3>1. /\ type[tgt[q]] = IF call[q] = "mkdir" THEN "dir" ELSE "file"
          /\ tgt'[q] = tgt[q] /\ call'[q] = call[q] /\ pc[q] = "create_link"
      BY <1>1 DEF Same, Actor, Knows
    <3>2. tgt[q] \in Inodes
      BY <1>1, <2>0, <2>i, <3>1 DEF Control, Pos, Iputting, WithTarget
    <3> QED BY <3>1, <3>2, <1>3
  <2>5. ASSUME pc[q] \in {"unlink_child", "create_alloc", "create_link"}
        PROVE  ents'[ip[q]] = ents[ip[q]]
    <3>1. ip[q] \in Inodes /\ Holds(q, ip[q])
      BY <1>1, <2>0, <2>i, <2>5 DEF Control, Pos, Iputting, WithDir, Holds, Locking
    <3>2. lock[ip[q]] = q /\ q \notin {p, NoProc}
      BY <1>1, <3>1, Procs0 DEF Actor
    <3> QED BY <3>1, <3>2 DEF GentleInodes
  <2>6. pc'[q] = "unlink_child" => ents'[ip'[q]][Head(path'[q])] = tgt'[q]
    BY <1>1, <2>5 DEF Same, Actor, Knows
  <2>7. pc'[q] \in {"create_alloc", "create_link"} => ents'[ip'[q]][Head(path'[q])] = 0
    BY <1>1, <2>5 DEF Same, Actor, Knows
  <2>8. pc'[q] = "iput_free" => ref'[put'[q]] = 1 /\ nlink'[put'[q]] = 0
    <3> SUFFICES ASSUME pc'[q] = "iput_free" PROVE ref'[put'[q]] = 1 /\ nlink'[put'[q]] = 0
      OBVIOUS
    <3>1. put'[q] = put[q] /\ pc[q] = "iput_free"
      BY <1>1 DEF Same
    <3>2. /\ put[q] \in Inodes /\ ref[put[q]] = 1 /\ nlink[put[q]] = 0
          /\ cwd[p] # put[q] /\ fd[p] # put[q] /\ ip[p] # put[q] /\ tgt[p] # put[q] /\ put[p] # put[q]
      BY <3>1, FreedAlone
    <3>3. ~Touches(p, put[q])
      BY <3>2 DEF Touches
    <3> QED BY <3>1, <3>2, <3>3 DEF GentleRefs, GentleInodes
  <2> QED BY <2>1, <2>2, <2>3, <2>4, <2>6, <2>7, <2>8 DEF Knows
<1> QED BY <1>2, <1>4, <1>5 DEF Actor

\* A step that leaves the inodes alone.
Quiet(p) ==
    /\ UNCHANGED inodes
    /\ pc'[p] # "create_link"
    /\ GentleRefs(p) /\ GentleLocks(p)
    /\ \A i \in Inodes : lock'[i] = p <=> Holds(p, i)'
    /\ \A i \in Inodes : Uses(p, i)' => Uses(p, i) \/ nlink[i] > 0
    /\ Knows(p)'
    /\ \A i \in Inodes : Links1(p, i)' => Links1(p, i)

LEMMA FewerPending ==
    ASSUME NEW p \in Procs, OthersSame(p), NEW i, pc'[p] # "create_link", Pending(i)'
    PROVE  Pending(i)
  BY DEF Pending, OthersSame, Same

LEMMA LinkedSound ==
    ASSUME Fresh, NEW i \in Inodes, nlink[i] > 0
    PROVE  type[i] # "free" /\ ~Pending(i)
  BY DEF Fresh

\* Fewer entries and fewer calls count on i, and it has no fewer links.
LEMMA CountShrinks ==
    ASSUME Typed, Typed', Counted, NEW i \in Inodes, LinkSet(i)' \subseteq LinkSet(i), Pend(i)' \subseteq Pend(i),
           nlink'[i] >= nlink[i]
    PROVE  nlink'[i] >= Cardinality(LinkSet(i)') + Cardinality(Pend(i)')
<1> DEFINE L == LinkSet(i)
           M == LinkSet(i)'
           P == Pend(i)
           Q == Pend(i)'
<1>1. IsFiniteSet(L) /\ IsFiniteSet(P) /\ Cardinality(L) \in Nat /\ Cardinality(P) \in Nat
  BY LinksFinite
<1>2. M \subseteq L /\ Q \subseteq P
  OBVIOUS
<1>3. nlink[i] >= Cardinality(L) + Cardinality(P) /\ nlink[i] \in Int /\ nlink'[i] \in Int
  BY DEF Counted, Typed, TypedInodes
<1> HIDE DEF L, M, P, Q
<1>4. Cardinality(M) <= Cardinality(L) /\ Cardinality(M) \in Nat /\ Cardinality(Q) <= Cardinality(P) /\ Cardinality(Q) \in Nat
  BY <1>1, <1>2, FS_Subset, FS_CardinalityType
<1>5. nlink'[i] >= Cardinality(M) + Cardinality(Q)
  BY <1>1, <1>3, <1>4
<1> QED BY <1>5 DEF M, Q

LEMMA QuietKeeps ==
    ASSUME RefInv, TreeInv, NEW p \in Procs, Kept(p), Quiet(p)
    PROVE  TreeInv'
<1>0. OthersSame(p) /\ Typed' /\ Typed
  BY DEF Kept, RefInv
<1>1. type' = type /\ nlink' = nlink /\ ents' = ents
  BY DEF Quiet, inodes
<1>p. \A i : Pending(i)' => Pending(i)
  BY <1>0, FewerPending DEF Quiet
<1>2. GentleInodes(p)
  BY <1>1, <1>p DEF GentleInodes
<1>3. \A q \in Procs : q # p => Actor(q)'
  BY <1>0, <1>2, OthersActors DEF Quiet
<1>4. Actor(p)'
  <2>1. ASSUME NEW i \in Inodes, Uses(p, i)' PROVE type'[i] # "free" /\ ~Pending(i)'
    <3>1. type[i] # "free" /\ ~Pending(i)
      BY <2>1, LinkedSound DEF Quiet, TreeInv, Actor
    <3> QED BY <3>1, <1>1, <1>p
  <2> QED BY <2>1 DEF Quiet, Actor
<1>5. Fresh'
  <2>1. \A i \in Inodes : type'[i] = "free" \/ Pending(i)' => nlink'[i] = 0 /\ ents'[i] = NoEntries
    BY <1>1, <1>p DEF TreeInv, Fresh
  <2>2. \A r, q \in Procs : pc'[r] = "create_link" /\ pc'[q] = "create_link" /\ tgt'[r] = tgt'[q] => r = q
    BY <1>0 DEF TreeInv, Fresh, Quiet, OthersSame, Same
  <2> QED BY <2>1, <2>2 DEF Fresh
<1>6. Counted'
  <2>1. ASSUME NEW i \in Inodes PROVE nlink'[i] >= Cardinality(LinkSet(i)') + Cardinality(Pend(i)')
    <3>1. LinkSet(i)' = LinkSet(i)
      BY <1>1 DEF LinkSet, InTree
    <3>2. Pend(i)' \subseteq Pend(i)
      BY <1>0 DEF Pend, Links1, Quiet, OthersSame, Same, Pos
    <3>3. nlink'[i] >= nlink[i]
      BY <1>0, <1>1 DEF Typed, TypedInodes
    <3> QED BY <3>1, <3>2, <3>3, <1>0, CountShrinks DEF TreeInv
  <2> QED BY <2>1 DEF Counted
<1>7. Shape'
  BY <1>1 DEF TreeInv, Shape
<1> QED BY <1>3, <1>4, <1>5, <1>6, <1>7 DEF TreeInv

LEMMA CallQuiet ==
    ASSUME PlainPaths, RefInv, TreeInv, NEW p \in Procs, Call(p)
    PROVE  Panic \/ Quiet(p)
<1> SUFFICES ASSUME ~Panic PROVE Quiet(p)
  OBVIOUS
<1>0. Typed /\ Control(p) /\ Actor(p)
  BY DEF RefInv, ControlInv, TreeInv
<1>1. PICK c \in Calls :
        /\ call' = [call EXCEPT ![p] = c[1]]
        /\ path2' = [path2 EXCEPT ![p] = c[3]]
        /\ StartWalk(p, c[2])
        /\ UNCHANGED <<inodes, lock, files, tgt, put, next>>
  BY DEF Call, iget
<1> DEFINE start == Start(p, c[2])
<1>x. Elements(c[2]) \in Seq(Names) /\ Elements(c[3]) \in Seq(Names)
  BY DEF PlainPaths
<1>s. /\ start \in Inodes
      /\ ref' = [ref EXCEPT ![start] = @ + 1]
      /\ ip' = [ip EXCEPT ![p] = start]
      /\ path' = [path EXCEPT ![p] = Elements(c[2])]
      /\ pc' = [pc EXCEPT ![p] = "walk"]
  BY <1>0, <1>1, Procs0 DEF Start, StartWalk, igetRef, Goto, Typed, TypedProcs
<1>t. start = cwd[p] \/ nlink[start] > 0
  BY RootHas DEF Start, TreeInv, RefInv
<1> HIDE DEF start
<1>p. pc[p] = "idle"
  BY DEF Call
<1>k. put[p] = 0 /\ ip[p] = 0 /\ tgt[p] = 0
  BY <1>p, <1>0 DEF Control, Pos, Iputting, Nexts, WithDir, WithTarget, Walking, Naming, Typed, TypedProcs, TypedPc, TypedArgs, Inodes, Parent
<1> USE DEF Typed
<1>c. pc'[p] # "create_link" /\ UNCHANGED inodes
  BY <1>1, <1>s, <1>0, <1>k DEF TypedPc
<1>r. GentleRefs(p)
  BY <1>1, <1>s, <1>0, <1>k, <1>t DEF GentleRefs, Touches
<1>l. GentleLocks(p)
  BY <1>1, <1>s, <1>0, <1>k DEF GentleLocks
<1>h. \A i \in Inodes : lock'[i] = p <=> Holds(p, i)'
  BY <1>1, <1>s, <1>0, <1>k, <1>p DEF Actor, Holds, Pos, Iputting, Nexts, Locking, Walking, WithTarget, WithDir, Control, TypedPc, TypedProcs
<1>u. \A i \in Inodes : Uses(p, i)' => Uses(p, i) \/ nlink[i] > 0
  BY <1>1, <1>s, <1>0, <1>k, <1>p, <1>t DEF Uses, Held, TypedPc, TypedProcs, Inodes, files
<1>n. \A i \in Inodes : Links1(p, i)' => Links1(p, i)
  BY <1>1, <1>s, <1>0, <1>k, <1>p DEF Links1, Pos, Iputting, Nexts, Walking, Control, WithTarget, WithDir, TypedPc, TypedProcs, TypedArgs, Inodes
<1>w. Knows(p)'
  <2>1. /\ pc'[p] = "walk" /\ path'[p] = Elements(c[2]) /\ path2'[p] = c[3] /\ tgt'[p] = 0
    BY <1>0, <1>1, <1>s, <1>k DEF TypedPc, TypedArgs
  <2>2. path'[p] \in Seq(Names) /\ Elements(path2'[p]) \in Seq(Names)
    BY <2>1, <1>x, Zenon
  <2> QED BY <2>1, <2>2 DEF Knows, Naming
<1> QED BY <1>c, <1>r, <1>l, <1>h, <1>u, <1>n, <1>w DEF Quiet

LEMMA CloseQuiet ==
    ASSUME RefInv, TreeInv, NEW p \in Procs, Close(p)
    PROVE  Quiet(p)
<1>0. Typed /\ Control(p) /\ Actor(p)
  BY DEF RefInv, ControlInv, TreeInv
<1>p. pc[p] = "idle"
  BY DEF Close
<1>k. put[p] = 0 /\ ip[p] = 0 /\ tgt[p] = 0
  BY <1>p, <1>0 DEF Control, Pos, Iputting, Nexts, WithDir, WithTarget, Walking, Naming, Typed, TypedProcs, TypedPc, TypedArgs, Inodes, Parent
<1>1. /\ call' = [call EXCEPT ![p] = "close"]
      /\ fd' = [fd EXCEPT ![p] = 0]
      /\ Put(p, fd[p], "idle")
      /\ UNCHANGED <<inodes, table, cwd, path, path2, ip, tgt>>
  BY DEF Close
<1> USE DEF Typed, Put
<1>c. pc'[p] # "create_link" /\ UNCHANGED inodes
  BY <1>1, <1>0, <1>k DEF TypedPc
<1>r. GentleRefs(p)
  BY <1>1, <1>0, <1>k DEF GentleRefs, table
<1>l. GentleLocks(p)
  BY <1>1, <1>0, <1>k DEF GentleLocks, table
<1>h. \A i \in Inodes : lock'[i] = p <=> Holds(p, i)'
  BY <1>1, <1>0, <1>k, <1>p DEF Actor, Holds, Pos, Iputting, Nexts, Locking, Walking, WithTarget, WithDir, Control, TypedPc, TypedProcs, table
<1>u. \A i \in Inodes : Uses(p, i)' => Uses(p, i) \/ nlink[i] > 0
  BY <1>1, <1>0, <1>k, <1>p DEF Uses, Held, TypedPc, TypedProcs, Inodes
<1>n. \A i \in Inodes : Links1(p, i)' => Links1(p, i)
  BY <1>1, <1>0, <1>k, <1>p DEF Links1, Pos, Iputting, Nexts, Walking, Control, WithTarget, WithDir, TypedPc, TypedProcs, TypedArgs, Inodes
<1>w. Knows(p)'
  BY <1>1, <1>0, <1>k, <1>p DEF Actor, Knows, Naming, TypedPc, TypedProcs, TypedArgs, Inodes, inodes
<1> QED BY <1>c, <1>r, <1>l, <1>h, <1>u, <1>n, <1>w DEF Quiet

LEMMA WalkQuiet ==
    ASSUME RefInv, TreeInv, NEW p \in Procs, Walk(p)
    PROVE  Panic \/ Quiet(p)
<1> SUFFICES ASSUME ~Panic PROVE Quiet(p)
  OBVIOUS
<1>0. Typed /\ Control(p) /\ Actor(p)
  BY DEF RefInv, ControlInv, TreeInv
<1>p. pc[p] = "walk" /\ path[p] # <<>>
  BY DEF Walk
<1>k. put[p] = 0 /\ ip[p] \in Inodes
  BY <1>p, <1>0 DEF Control, Pos, Iputting, Nexts, WithDir, WithTarget, Walking, Naming, Typed, TypedProcs, TypedPc, TypedArgs, Inodes, Parent
<1> DEFINE i == ip[p]
           e == ents[i][Head(path[p])]
<1>h. Head(path[p]) \in Names /\ Tail(path[p]) \in Seq(Names)
  BY <1>0, <1>p, NameAndRest DEF Actor, Knows
<1>1. CASE /\ type[i] = "dir"
           /\ Goto(p, "named")
           /\ UNCHANGED <<inodes, ref, lock, files, args, ip, tgt, put, next>>
  <2> USE DEF Typed, Goto
  <2>c. pc'[p] # "create_link" /\ UNCHANGED inodes
    BY <1>1, <1>0, <1>k DEF TypedPc
  <2>r. GentleRefs(p)
    BY <1>1, <1>0, <1>k DEF GentleRefs, Touches
  <2>l. GentleLocks(p)
    BY <1>1, <1>0, <1>k DEF GentleLocks
  <2>h. \A j \in Inodes : lock'[j] = p <=> Holds(p, j)'
    BY <1>1, <1>0, <1>k, <1>p DEF Actor, Holds, Pos, Iputting, Nexts, Locking, Walking, WithTarget, WithDir, Control, TypedPc, TypedProcs
  <2>u. \A j \in Inodes : Uses(p, j)' => Uses(p, j) \/ nlink[j] > 0
    BY <1>1, <1>0, <1>k, <1>p DEF Uses, Held, TypedPc, TypedProcs, Inodes, files
  <2>n. \A j \in Inodes : Links1(p, j)' => Links1(p, j)
    BY <1>1, <1>0, <1>k, <1>p DEF Links1, Pos, Iputting, Nexts, Walking, Control, WithTarget, WithDir, TypedPc, TypedProcs, TypedArgs, Inodes, args
  <2>w. Knows(p)'
    BY <1>1, <1>0, <1>k, <1>p DEF Actor, Knows, Naming, TypedPc, TypedProcs, TypedArgs, Inodes, inodes, args
  <2> QED BY <2>c, <2>r, <2>l, <2>h, <2>u, <2>n, <2>w DEF Quiet
<1>2. CASE /\ ip' = [ip EXCEPT ![p] = 0]
           /\ Put(p, i, Fail(p))
           /\ UNCHANGED <<inodes, ref, lock, files, args, tgt>>
  <2> USE DEF Typed, Put, Fail
  <2>c. pc'[p] # "create_link" /\ UNCHANGED inodes
    BY <1>2, <1>0, <1>k DEF TypedPc
  <2>r. GentleRefs(p)
    BY <1>2, <1>0, <1>k DEF GentleRefs, Touches
  <2>l. GentleLocks(p)
    BY <1>2, <1>0, <1>k DEF GentleLocks
  <2>h. \A j \in Inodes : lock'[j] = p <=> Holds(p, j)'
    BY <1>2, <1>0, <1>k, <1>p DEF Actor, Holds, Pos, Iputting, Nexts, Locking, Walking, WithTarget, WithDir, Control, TypedPc, TypedProcs
  <2>u. \A j \in Inodes : Uses(p, j)' => Uses(p, j) \/ nlink[j] > 0
    BY <1>2, <1>0, <1>k, <1>p DEF Uses, Held, TypedPc, TypedProcs, Inodes, files
  <2>n. \A j \in Inodes : Links1(p, j)' => Links1(p, j)
    BY <1>2, <1>0, <1>k, <1>p DEF Links1, Pos, Iputting, Nexts, Walking, Control, WithTarget, WithDir, TypedPc, TypedProcs, TypedArgs, Inodes, args
  <2>w. Knows(p)'
    BY <1>2, <1>0, <1>k, <1>p DEF Actor, Knows, Naming, TypedPc, TypedProcs, TypedArgs, Inodes, inodes, args
  <2> QED BY <2>c, <2>r, <2>l, <2>h, <2>u, <2>n, <2>w DEF Quiet
<1>3. CASE /\ e # 0
           /\ ref' = igetRef(e)
           /\ ip' = [ip EXCEPT ![p] = e]
           /\ path' = [path EXCEPT ![p] = Tail(@)]
           /\ Put(p, i, "walk")
           /\ UNCHANGED <<inodes, lock, files, call, path2, tgt>>
  <2>e. e \in Inodes /\ nlink[e] > 0
    BY <1>3, <1>0, <1>k, <1>h, NamedHas DEF TreeInv
  <2>i. ref' = [ref EXCEPT ![e] = @ + 1]
    BY <1>3 DEF igetRef
  <2> HIDE DEF e
  <2> USE DEF Typed, Put
  <2>c. pc'[p] # "create_link" /\ UNCHANGED inodes
    BY <1>3, <2>i, <1>0, <1>k DEF TypedPc
  <2>r. GentleRefs(p)
    BY <1>3, <2>i, <1>0, <1>k, <2>e DEF GentleRefs, Touches
  <2>l. GentleLocks(p)
    BY <1>3, <2>i, <1>0, <1>k DEF GentleLocks
  <2>h. \A j \in Inodes : lock'[j] = p <=> Holds(p, j)'
    BY <1>3, <2>i, <1>0, <1>k, <1>p DEF Actor, Holds, Pos, Iputting, Nexts, Locking, Walking, WithTarget, WithDir, Control, TypedPc, TypedProcs
  <2>u. \A j \in Inodes : Uses(p, j)' => Uses(p, j) \/ nlink[j] > 0
    BY <1>3, <2>i, <1>0, <1>k, <1>p, <2>e DEF Uses, Held, TypedPc, TypedProcs, Inodes, files
  <2>n. \A j \in Inodes : Links1(p, j)' => Links1(p, j)
    BY <1>3, <2>i, <1>0, <1>k, <1>p DEF Links1, Pos, Iputting, Nexts, Walking, Control, WithTarget, WithDir, TypedPc, TypedProcs, TypedArgs, Inodes
  <2>w. Knows(p)'
    BY <1>3, <2>i, <1>0, <1>k, <1>p, <1>h DEF Actor, Knows, Naming, TypedPc, TypedProcs, TypedArgs, Inodes, inodes
  <2> QED BY <2>c, <2>r, <2>l, <2>h, <2>u, <2>n, <2>w DEF Quiet
<1> QED BY <1>1, <1>2, <1>3 DEF Walk, ilock, iget

LEMMA WalkNoParentQuiet ==
    ASSUME RefInv, TreeInv, NEW p \in Procs, WalkNoParent(p)
    PROVE  Quiet(p)
<1>0. Typed /\ Control(p) /\ Actor(p)
  BY DEF RefInv, ControlInv, TreeInv
<1>p. pc[p] = "walk"
  BY DEF WalkNoParent
<1>k. put[p] = 0 /\ ip[p] \in Inodes
  BY <1>p, <1>0 DEF Control, Pos, Iputting, Nexts, WithDir, WithTarget, Walking, Naming, Typed, TypedProcs, TypedPc, TypedArgs, Inodes, Parent
<1>1. /\ ip' = [ip EXCEPT ![p] = 0]
      /\ Put(p, ip[p], Fail(p))
      /\ UNCHANGED <<inodes, table, files, args, tgt>>
  BY DEF WalkNoParent
<1> USE DEF Typed, Put, Fail
<1>c. pc'[p] # "create_link" /\ UNCHANGED inodes
  BY <1>1, <1>0, <1>k DEF TypedPc
<1>r. GentleRefs(p)
  BY <1>1, <1>0, <1>k DEF GentleRefs, table
<1>l. GentleLocks(p)
  BY <1>1, <1>0, <1>k DEF GentleLocks, table
<1>h. \A i \in Inodes : lock'[i] = p <=> Holds(p, i)'
  BY <1>1, <1>0, <1>k, <1>p DEF Actor, Holds, Pos, Iputting, Nexts, Locking, Walking, WithTarget, WithDir, Control, TypedPc, TypedProcs, table
<1>u. \A i \in Inodes : Uses(p, i)' => Uses(p, i) \/ nlink[i] > 0
  BY <1>1, <1>0, <1>k, <1>p DEF Uses, Held, TypedPc, TypedProcs, Inodes, files
<1>n. \A i \in Inodes : Links1(p, i)' => Links1(p, i)
  BY <1>1, <1>0, <1>k, <1>p DEF Links1, Pos, Iputting, Nexts, Walking, Control, WithTarget, WithDir, TypedPc, TypedProcs, TypedArgs, Inodes, args
<1>w. Knows(p)'
  BY <1>1, <1>0, <1>k, <1>p DEF Actor, Knows, Naming, TypedPc, TypedProcs, TypedArgs, Inodes, inodes, args
<1> QED BY <1>c, <1>r, <1>l, <1>h, <1>u, <1>n, <1>w DEF Quiet

LEMMA ReturnQuiet ==
    ASSUME RefInv, TreeInv, NEW p \in Procs, pc[p] \in {"iput", "iput_drop"},
           ref' = [ref EXCEPT ![put[p]] = @ - 1],
           ReturnAt(p),
           UNCHANGED <<inodes, valid, lock, files, ip, tgt>>
    PROVE  Quiet(p)
<1>0. Typed /\ Control(p) /\ Actor(p)
  BY DEF RefInv, ControlInv, TreeInv
<1>p. pc[p] \in Iputting /\ pc[p] # "iput_free"
  BY DEF Iputting
<1>k. put[p] \in Inodes /\ next[p] \notin Iputting \union Naming
  BY <1>p, <1>0 DEF Control, Pos, Iputting, Nexts, WithDir, WithTarget, Walking, Naming, Typed, TypedProcs, TypedPc, TypedArgs, Inodes, Parent
<1>e. <<>> \in Seq(Names) /\ Elements(<<>>) \in Seq(Names)
  BY DEF Elements
<1> USE DEF Typed, ReturnAt
<1>c. pc'[p] # "create_link" /\ UNCHANGED inodes
  BY <1>0, <1>k DEF TypedPc, Naming
<1>r. GentleRefs(p)
  BY <1>e, <1>0, <1>k DEF GentleRefs, Touches
<1>l. GentleLocks(p)
  BY <1>e, <1>0, <1>k DEF GentleLocks
<1>h. \A i \in Inodes : lock'[i] = p <=> Holds(p, i)'
  BY <1>e, <1>0, <1>k, <1>p DEF Actor, Holds, Pos, Iputting, Nexts, Locking, Walking, WithTarget, WithDir, Control, TypedPc, TypedProcs
<1>u. \A i \in Inodes : Uses(p, i)' => Uses(p, i) \/ nlink[i] > 0
  BY <1>e, <1>0, <1>k, <1>p DEF Uses, Held, TypedPc, TypedProcs, Inodes, files
<1>n. \A i \in Inodes : Links1(p, i)' => Links1(p, i)
  BY <1>e, <1>0, <1>k, <1>p DEF Links1, Pos, Iputting, Nexts, Walking, Control, WithTarget, WithDir, TypedPc, TypedProcs, TypedArgs, Inodes, args
<1>w. Knows(p)'
  <2>1. pc'[p] = next[p] /\ tgt'[p] = tgt[p] /\ ip'[p] = ip[p]
    BY <1>0 DEF TypedPc
  <2>2. \/ call'[p] = "none" /\ path'[p] = <<>> /\ path2'[p] = <<>>
        \/ call'[p] = call[p] /\ path'[p] = path[p] /\ path2'[p] = path2[p]
    BY <1>0 DEF TypedArgs, args
  <2>3. pc'[p] \notin Naming \union {"create_alloc", "create_link", "unlink_child", "iput_free"}
    BY <1>k, <2>1 DEF Naming, Iputting
  <2>4. path'[p] \in Seq(Names) /\ Elements(path2'[p]) \in Seq(Names)
    BY <1>0, <1>e, <2>2 DEF Actor, Knows
  <2>5. call'[p] = "link" /\ tgt'[p] # 0 => type'[tgt'[p]] = "file"
    BY <1>0, <2>1, <2>2 DEF Actor, Knows, inodes
  <2> HIDE DEF ReturnAt
  <2> QED BY <2>3, <2>4, <2>5 DEF Knows
<1> QED BY <1>c, <1>r, <1>l, <1>h, <1>u, <1>n, <1>w DEF Quiet

LEMMA IputDropQuiet ==
    ASSUME RefInv, TreeInv, NEW p \in Procs, IputDrop(p)
    PROVE  Quiet(p)
<1>1. /\ pc[p] = "iput"
      /\ ref' = [ref EXCEPT ![put[p]] = @ - 1]
      /\ Return(p)
      /\ UNCHANGED <<inodes, valid, lock, files, ip, tgt>>
  BY DEF IputDrop
<1>2. ReturnAt(p)
  BY <1>1 DEF Return, ReturnAt, EndCall, Goto
<1> QED BY <1>1, <1>2, ReturnQuiet

LEMMA IputLastQuiet ==
    ASSUME RefInv, TreeInv, NEW p \in Procs, IputLast(p)
    PROVE  Quiet(p)
<1>1. /\ pc[p] = "iput_drop"
      /\ ref' = [ref EXCEPT ![put[p]] = @ - 1]
      /\ Return(p)
      /\ UNCHANGED <<inodes, valid, lock, files, ip, tgt>>
  BY DEF IputLast
<1>2. ReturnAt(p)
  BY <1>1 DEF Return, ReturnAt, EndCall, Goto
<1> QED BY <1>1, <1>2, ReturnQuiet

LEMMA IputDecideQuiet ==
    ASSUME RefInv, TreeInv, NEW p \in Procs, IputDecide(p)
    PROVE  Panic \/ Quiet(p)
<1> SUFFICES ASSUME ~Panic PROVE Quiet(p)
  OBVIOUS
<1>0. Typed /\ Control(p) /\ Actor(p)
  BY DEF RefInv, ControlInv, TreeInv
<1>p. pc[p] = "iput"
  BY DEF IputDecide
<1>k. put[p] \in Inodes
  BY <1>p, <1>0 DEF Control, Pos, Iputting, Nexts, WithDir, WithTarget, Walking, Naming, Typed, TypedProcs, TypedPc, TypedArgs, Inodes, Parent
<1>1. /\ LastRef(put[p]) /\ lock[put[p]] = NoProc
      /\ lock' = [lock EXCEPT ![put[p]] = p]
      /\ Goto(p, "iput_free")
      /\ UNCHANGED <<inodes, ref, valid, files, args, ip, tgt, put, next>>
  BY DEF IputDecide, Unlocked
<1> USE DEF Typed, Goto
<1>c. pc'[p] # "create_link" /\ UNCHANGED inodes
  BY <1>1, <1>0, <1>k DEF TypedPc
<1>r. GentleRefs(p)
  BY <1>1, <1>0, <1>k DEF GentleRefs, Touches
<1>l. GentleLocks(p)
  BY <1>1, <1>0, <1>k, Procs0 DEF TypedTable, GentleLocks
<1>h. \A i \in Inodes : lock'[i] = p <=> Holds(p, i)'
  BY <1>1, <1>0, <1>k, <1>p, Procs0 DEF Actor, Holds, Pos, Iputting, Nexts, Locking, Walking, WithTarget, WithDir, Control, TypedPc, TypedProcs, TypedTable
<1>u. \A i \in Inodes : Uses(p, i)' => Uses(p, i) \/ nlink[i] > 0
  BY <1>1, <1>0, <1>k, <1>p DEF Uses, Held, TypedPc, TypedProcs, Inodes, files
<1>n. \A i \in Inodes : Links1(p, i)' => Links1(p, i)
  BY <1>1, <1>0, <1>k, <1>p DEF Links1, Pos, Iputting, Nexts, Walking, Control, WithTarget, WithDir, TypedPc, TypedProcs, TypedArgs, Inodes, args
<1>w. Knows(p)'
  BY <1>1, <1>0, <1>k, <1>p DEF Actor, Knows, LastRef, Naming, TypedPc, TypedProcs, TypedArgs, Inodes, inodes, args
<1> QED BY <1>c, <1>r, <1>l, <1>h, <1>u, <1>n, <1>w DEF Quiet

LEMMA ExitQuiet ==
    ASSUME RefInv, TreeInv, NEW p \in Procs, NEW i \in Inodes, Exit(p, i),
           GentleLocks(p), \A j \in Inodes : lock'[j] # p, UNCHANGED <<inodes, ref>>,
           pc[p] \notin Iputting, pc[p] # "create_link",
           \/ ip[p] = i /\ tgt[p] = 0 /\ ip' = [ip EXCEPT ![p] = 0] /\ UNCHANGED tgt
           \/ tgt[p] = i /\ ip[p] = 0 /\ tgt' = [tgt EXCEPT ![p] = 0] /\ UNCHANGED ip
    PROVE  Quiet(p)
<1>0. Typed /\ Control(p) /\ Actor(p)
  BY DEF RefInv, ControlInv, TreeInv
<1>1. /\ ip'[p] = 0 /\ tgt'[p] = 0 /\ i # 0 /\ Uses(p, i) /\ cwd'[p] = cwd[p]
      /\ \/ pc'[p] = "idle" /\ put'[p] = put[p] /\ fd'[p] = i /\ call'[p] = "none" /\ path'[p] = <<>> /\ path2'[p] = <<>>
         \/ pc'[p] = "iput" /\ put'[p] = i /\ next'[p] = "idle" /\ fd'[p] = fd[p] /\ path'[p] = path[p] /\ path2'[p] = path2[p]
  BY <1>0, Procs0 DEF Exit, EndCall, Goto, Put, files, args, Typed, TypedProcs, TypedPc, TypedArgs, Uses, Held
<1>2. <<>> \in Seq(Names) /\ Elements(<<>>) \in Seq(Names)
  BY DEF Elements
<1>z. put[p] = 0
  BY <1>0 DEF Control
<1>r. GentleRefs(p)
  BY DEF GentleRefs
<1>h. \A j \in Inodes : lock'[j] = p <=> Holds(p, j)'
  BY <1>1 DEF Holds, Pos, Iputting, Locking
<1>u. \A j \in Inodes : Uses(p, j)' => Uses(p, j) \/ nlink[j] > 0
  BY <1>z, <1>1, Procs0 DEF Uses, Held
<1>n. \A j \in Inodes : Links1(p, j)' => Links1(p, j)
  BY <1>1, Procs0 DEF Links1
<1>w. Knows(p)'
  <2>1. path'[p] \in Seq(Names) /\ Elements(path2'[p]) \in Seq(Names)
    BY <1>0, <1>1, <1>2 DEF Actor, Knows
  <2> QED BY <1>1, <2>1 DEF Knows, Naming
<1> QED BY <1>1, <1>r, <1>h, <1>u, <1>n, <1>w DEF Quiet

LEMMA OpenInodeQuiet ==
    ASSUME RefInv, TreeInv, NEW p \in Procs, OpenInode(p)
    PROVE  Panic \/ Quiet(p)
<1> SUFFICES ASSUME ~Panic PROVE Quiet(p)
  OBVIOUS
<1>0. Typed /\ Control(p) /\ Actor(p)
  BY DEF RefInv, ControlInv, TreeInv
<1>p. Named(p) /\ call[p] \in {"open_read", "open_write"}
  BY DEF OpenInode
<1>k. ip[p] \in Inodes /\ tgt[p] = 0 /\ pc[p] \in Walking
  BY <1>p, <1>0 DEF Control, Pos, Iputting, Nexts, WithDir, WithTarget, Walking, Naming, Typed, TypedProcs, TypedPc, TypedArgs, Inodes, Parent, Named
<1>1. /\ ip' = [ip EXCEPT ![p] = 0]
      /\ Opened(p, ip[p]) \/ (Put(p, ip[p], "idle") /\ UNCHANGED <<files, args>>)
      /\ UNCHANGED <<inodes, ref, lock, tgt>>
  BY DEF OpenInode, ilock
<1>e. Exit(p, ip[p])
  BY <1>1, OpenedExit
<1>n. \A j \in Inodes : lock[j] # p
  BY <1>p, <1>k, <1>0 DEF Actor, Holds, Pos, Iputting, Locking, Walking, WithTarget
<1>l. GentleLocks(p)
  BY <1>1 DEF GentleLocks
<1> QED BY <1>1, <1>e, <1>l, <1>n, <1>k, ExitQuiet DEF Walking, Iputting

LEMMA CreateFoundQuiet ==
    ASSUME RefInv, TreeInv, NEW p \in Procs, CreateFound(p)
    PROVE  Panic \/ Quiet(p)
<1> SUFFICES ASSUME ~Panic PROVE Quiet(p)
  OBVIOUS
<1>0. Typed /\ Control(p) /\ Actor(p)
  BY DEF RefInv, ControlInv, TreeInv
<1>p. pc[p] = "create_found"
  BY DEF CreateFound
<1>k. tgt[p] \in Inodes /\ ip[p] = 0
  BY <1>p, <1>0 DEF Control, Pos, Iputting, Nexts, WithDir, WithTarget, Walking, Naming, Typed, TypedProcs, TypedPc, TypedArgs, Inodes, Parent
<1>1. /\ tgt' = [tgt EXCEPT ![p] = 0]
      /\ Opened(p, tgt[p]) \/ (Put(p, tgt[p], "idle") /\ UNCHANGED <<files, args>>)
      /\ UNCHANGED <<inodes, ref, lock, ip>>
  BY DEF CreateFound, ilock
<1>e. Exit(p, tgt[p])
  BY <1>1, OpenedExit
<1>n. \A j \in Inodes : lock[j] # p
  BY <1>p, <1>k, <1>0 DEF Actor, Holds, Pos, Iputting, Locking, Walking, WithTarget
<1>l. GentleLocks(p)
  BY <1>1 DEF GentleLocks
<1> QED BY <1>1, <1>e, <1>l, <1>n, <1>k, <1>p, ExitQuiet DEF Iputting

LEMMA CreatedQuiet ==
    ASSUME RefInv, TreeInv, NEW p \in Procs, Created(p)
    PROVE  Quiet(p)
<1>0. Typed /\ Control(p) /\ Actor(p)
  BY DEF RefInv, ControlInv, TreeInv
<1>p. pc[p] = "created"
  BY DEF Created
<1>k. tgt[p] \in Inodes /\ ip[p] = 0
  BY <1>p, <1>0 DEF Control, Pos, Iputting, Nexts, WithDir, WithTarget, Walking, Naming, Typed, TypedProcs, TypedPc, TypedArgs, Inodes, Parent
<1>1. /\ lock' = [lock EXCEPT ![tgt[p]] = NoProc]
      /\ tgt' = [tgt EXCEPT ![p] = 0]
      /\ Opened(p, tgt[p]) \/ (Put(p, tgt[p], "idle") /\ UNCHANGED <<files, args>>)
      /\ UNCHANGED <<inodes, ref, ip>>
  BY DEF Created
<1>e. Exit(p, tgt[p])
  BY <1>1, OpenedExit
<1>m. \A j \in Inodes : lock[j] = p <=> j = tgt[p]
  BY <1>p, <1>k, <1>0 DEF Actor, Holds, Pos, Iputting, Locking
<1>n. \A j \in Inodes : lock'[j] # p
  BY <1>0, <1>1, <1>k, <1>m, Procs0 DEF Typed, TypedTable
<1>l. GentleLocks(p)
  BY <1>0, <1>1, <1>k, <1>m, Procs0 DEF GentleLocks, Typed, TypedTable
<1> QED BY <1>1, <1>e, <1>l, <1>n, <1>k, <1>p, ExitQuiet DEF Iputting

LEMMA ChdirQuiet ==
    ASSUME RefInv, TreeInv, NEW p \in Procs, Chdir(p)
    PROVE  Panic \/ Quiet(p)
<1> SUFFICES ASSUME ~Panic PROVE Quiet(p)
  OBVIOUS
<1>0. Typed /\ Control(p) /\ Actor(p)
  BY DEF RefInv, ControlInv, TreeInv
<1>p. Named(p) /\ call[p] = "chdir"
  BY DEF Chdir
<1>k. ip[p] \in Inodes /\ tgt[p] = 0 /\ put[p] = 0 /\ pc[p] \in Walking /\ cwd[p] \in Inodes
  BY <1>p, <1>0 DEF Control, Pos, Iputting, Nexts, WithDir, WithTarget, Walking, Naming, Typed, TypedProcs, TypedPc, TypedArgs, Inodes, Parent, Named
<1>1. /\ ip' = [ip EXCEPT ![p] = 0]
      /\ \/ Put(p, cwd[p], "idle") /\ cwd' = [cwd EXCEPT ![p] = ip[p]]
         \/ Put(p, ip[p], "idle") /\ UNCHANGED cwd
      /\ UNCHANGED <<inodes, ref, lock, fd, args, tgt>>
  BY DEF Chdir, ilock
<1> USE DEF Typed, Put
<1>c. pc'[p] # "create_link" /\ UNCHANGED inodes
  BY <1>1, <1>0, <1>k DEF TypedPc
<1>r. GentleRefs(p)
  BY <1>1, <1>0, <1>k DEF GentleRefs, Touches
<1>l. GentleLocks(p)
  BY <1>1, <1>0, <1>k DEF GentleLocks
<1>h. \A i \in Inodes : lock'[i] = p <=> Holds(p, i)'
  BY <1>1, <1>0, <1>k, <1>p DEF Actor, Holds, Pos, Iputting, Nexts, Locking, Walking, WithTarget, WithDir, Control, TypedPc, TypedProcs
<1>u. \A i \in Inodes : Uses(p, i)' => Uses(p, i) \/ nlink[i] > 0
  BY <1>1, <1>0, <1>k, <1>p DEF Uses, Held, TypedPc, TypedProcs, Inodes
<1>n. \A i \in Inodes : Links1(p, i)' => Links1(p, i)
  BY <1>1, <1>0, <1>k, <1>p DEF Links1, Pos, Iputting, Nexts, Walking, Control, WithTarget, WithDir, TypedPc, TypedProcs, TypedArgs, Inodes, args
<1>w. Knows(p)'
  BY <1>1, <1>0, <1>k, <1>p DEF Actor, Knows, Naming, TypedPc, TypedProcs, TypedArgs, Inodes, inodes, args
<1> QED BY <1>c, <1>r, <1>l, <1>h, <1>u, <1>n, <1>w DEF Quiet

LEMMA LinkPutQuiet ==
    ASSUME RefInv, TreeInv, NEW p \in Procs, LinkPut(p)
    PROVE  Quiet(p)
<1>0. Typed /\ Control(p) /\ Actor(p)
  BY DEF RefInv, ControlInv, TreeInv
<1>p. pc[p] = "link_put"
  BY DEF LinkPut
<1>k. tgt[p] \in Inodes /\ ip[p] = 0 /\ put[p] = 0
  BY <1>p, <1>0 DEF Control, Pos, Iputting, Nexts, WithDir, WithTarget, Walking, Naming, Typed, TypedProcs, TypedPc, TypedArgs, Inodes, Parent
<1>1. /\ tgt' = [tgt EXCEPT ![p] = 0]
      /\ Put(p, tgt[p], "idle")
      /\ UNCHANGED <<inodes, table, files, args, ip>>
  BY DEF LinkPut
<1> USE DEF Typed, Put
<1>c. pc'[p] # "create_link" /\ UNCHANGED inodes
  BY <1>1, <1>0, <1>k DEF TypedPc
<1>r. GentleRefs(p)
  BY <1>1, <1>0, <1>k DEF GentleRefs, table
<1>l. GentleLocks(p)
  BY <1>1, <1>0, <1>k DEF GentleLocks, table
<1>h. \A i \in Inodes : lock'[i] = p <=> Holds(p, i)'
  BY <1>1, <1>0, <1>k, <1>p DEF Actor, Holds, Pos, Iputting, Nexts, Locking, Walking, WithTarget, WithDir, Control, TypedPc, TypedProcs, table
<1>u. \A i \in Inodes : Uses(p, i)' => Uses(p, i) \/ nlink[i] > 0
  BY <1>1, <1>0, <1>k, <1>p DEF Uses, Held, TypedPc, TypedProcs, Inodes, files
<1>n. \A i \in Inodes : Links1(p, i)' => Links1(p, i)
  BY <1>1, <1>0, <1>k, <1>p DEF Links1, Pos, Iputting, Nexts, Walking, Control, WithTarget, WithDir, TypedPc, TypedProcs, TypedArgs, Inodes, args
<1>w. Knows(p)'
  BY <1>1, <1>0, <1>k, <1>p DEF Actor, Knows, Naming, TypedPc, TypedProcs, TypedArgs, Inodes, inodes, args
<1> QED BY <1>c, <1>r, <1>l, <1>h, <1>u, <1>n, <1>w DEF Quiet

LEMMA PutParentQuiet ==
    ASSUME RefInv, TreeInv, NEW p \in Procs, PutParent(p)
    PROVE  Quiet(p)
<1>0. Typed /\ Control(p) /\ Actor(p)
  BY DEF RefInv, ControlInv, TreeInv
<1>p. pc[p] \in {"unlink_bad", "create_fail"}
  BY DEF PutParent
<1>k. ip[p] \in Inodes /\ tgt[p] = 0 /\ put[p] = 0
  BY <1>p, <1>0 DEF Control, Pos, Iputting, Nexts, WithDir, WithTarget, Walking, Naming, Typed, TypedProcs, TypedPc, TypedArgs, Inodes, Parent
<1>1. /\ lock' = [lock EXCEPT ![ip[p]] = NoProc]
      /\ ip' = [ip EXCEPT ![p] = 0]
      /\ Put(p, ip[p], "idle")
      /\ UNCHANGED <<inodes, ref, valid, files, args, tgt>>
  BY DEF PutParent
<1>m. \A j \in Inodes : lock[j] = p <=> j = ip[p]
  BY <1>p, <1>k, <1>0 DEF Actor, Holds, Pos, Iputting, Locking
<1> USE DEF Typed, Put
<1>c. pc'[p] # "create_link" /\ UNCHANGED inodes
  BY <1>1, <1>0, <1>k DEF TypedPc
<1>r. GentleRefs(p)
  BY <1>1, <1>0, <1>k DEF GentleRefs, Touches
<1>l. GentleLocks(p)
  BY <1>1, <1>0, <1>k, <1>m, Procs0 DEF TypedTable, GentleLocks
<1>h. \A i \in Inodes : lock'[i] = p <=> Holds(p, i)'
  BY <1>1, <1>0, <1>k, <1>p, <1>m, Procs0 DEF TypedTable, Actor, Holds, Pos, Iputting, Nexts, Locking, Walking, WithTarget, WithDir, Control, TypedPc, TypedProcs
<1>u. \A i \in Inodes : Uses(p, i)' => Uses(p, i) \/ nlink[i] > 0
  BY <1>1, <1>0, <1>k, <1>p DEF Uses, Held, TypedPc, TypedProcs, Inodes, files
<1>n. \A i \in Inodes : Links1(p, i)' => Links1(p, i)
  BY <1>1, <1>0, <1>k, <1>p DEF Links1, Pos, Iputting, Nexts, Walking, Control, WithTarget, WithDir, TypedPc, TypedProcs, TypedArgs, Inodes, args
<1>w. Knows(p)'
  BY <1>1, <1>0, <1>k, <1>p DEF Actor, Knows, Naming, TypedPc, TypedProcs, TypedArgs, Inodes, inodes, args
<1> QED BY <1>c, <1>r, <1>l, <1>h, <1>u, <1>n, <1>w DEF Quiet

LEMMA UnlinkQuiet ==
    ASSUME RefInv, TreeInv, NEW p \in Procs, Unlink(p)
    PROVE  Panic \/ Quiet(p)
<1> SUFFICES ASSUME ~Panic PROVE Quiet(p)
  OBVIOUS
<1>0. Typed /\ Control(p) /\ Actor(p)
  BY DEF RefInv, ControlInv, TreeInv
<1>p. Named(p) /\ call[p] = "unlink"
  BY DEF Unlink
<1>k. ip[p] \in Inodes /\ put[p] = 0 /\ pc[p] = "named" /\ tgt[p] = 0 /\ next[p] \in Nexts
  BY <1>p, <1>0 DEF Control, Pos, Iputting, Nexts, WithDir, WithTarget, Walking, Naming, Typed, TypedProcs, TypedPc, TypedArgs, Inodes, Parent, Named
<1>h. path[p] # <<>> /\ Head(path[p]) \in Names
  BY <1>p, <1>k, <1>0, NameAndRest DEF Actor, Knows, Control, Naming
<1> DEFINE e == ents[ip[p]][Head(path[p])]
<1>1. CASE /\ ip' = [ip EXCEPT ![p] = 0]
           /\ Put(p, ip[p], "idle")
           /\ UNCHANGED <<inodes, ref, lock, files, args, tgt>>
  <2> USE DEF Typed, Put
  <2>c. pc'[p] # "create_link" /\ UNCHANGED inodes
    BY <1>1, <1>0, <1>k DEF TypedPc
  <2>r. GentleRefs(p)
    BY <1>1, <1>0, <1>k DEF GentleRefs, Touches
  <2>l. GentleLocks(p)
    BY <1>1, <1>0, <1>k DEF GentleLocks
  <2>h. \A i \in Inodes : lock'[i] = p <=> Holds(p, i)'
    BY <1>1, <1>0, <1>k, <1>p DEF Actor, Holds, Pos, Iputting, Nexts, Locking, Walking, WithTarget, WithDir, Control, TypedPc, TypedProcs
  <2>u. \A i \in Inodes : Uses(p, i)' => Uses(p, i) \/ nlink[i] > 0
    BY <1>1, <1>0, <1>k, <1>p DEF Uses, Held, TypedPc, TypedProcs, Inodes, files
  <2>n. \A i \in Inodes : Links1(p, i)' => Links1(p, i)
    BY <1>1, <1>0, <1>k, <1>p DEF Links1, Pos, Iputting, Nexts, Walking, Control, WithTarget, WithDir, TypedPc, TypedProcs, TypedArgs, Inodes, args
  <2>w. Knows(p)'
    BY <1>1, <1>0, <1>k, <1>p DEF Actor, Knows, Naming, TypedPc, TypedProcs, TypedArgs, Inodes, inodes, args
  <2> QED BY <2>c, <2>r, <2>l, <2>h, <2>u, <2>n, <2>w DEF Quiet
<1>2. CASE /\ e # 0 /\ lock[ip[p]] = NoProc
           /\ ref' = igetRef(e)
           /\ lock' = [lock EXCEPT ![ip[p]] = p]
           /\ tgt' = [tgt EXCEPT ![p] = e]
           /\ Goto(p, "unlink_child")
           /\ UNCHANGED <<inodes, files, args, ip, put, next>>
  <2>e. e \in Inodes /\ nlink[e] > 0
    BY <1>2, <1>0, <1>k, <1>h, NamedHas DEF TreeInv
  <2>i. ref' = [ref EXCEPT ![e] = @ + 1]
    BY <1>2 DEF igetRef
  <2>x. pc'[p] = "unlink_child" /\ tgt'[p] = e /\ ents' = ents /\ ip'[p] = ip[p] /\ path'[p] = path[p]
    BY <1>2, <1>0 DEF Goto, Typed, TypedPc, TypedProcs, inodes, args
  <2>y. ents'[ip'[p]][Head(path'[p])] = tgt'[p]
    BY <2>x, Zenon
  <2> HIDE DEF e
  <2> USE DEF Typed, Goto
  <2>c. pc'[p] # "create_link" /\ UNCHANGED inodes
    BY <1>2, <2>i, <1>0, <1>k DEF TypedPc
  <2>r. GentleRefs(p)
    BY <1>2, <2>i, <1>0, <1>k, <2>e DEF GentleRefs, Touches
  <2>l. GentleLocks(p)
    BY <1>2, <2>i, <1>0, <1>k, Procs0 DEF TypedTable, GentleLocks
  <2>h. \A i \in Inodes : lock'[i] = p <=> Holds(p, i)'
    BY <1>2, <2>i, <1>0, <1>k, <1>p, Procs0 DEF TypedTable, Actor, Holds, Pos, Iputting, Nexts, Locking, Walking, WithTarget, WithDir, Control, TypedPc, TypedProcs
  <2>u. \A i \in Inodes : Uses(p, i)' => Uses(p, i) \/ nlink[i] > 0
    BY <1>2, <2>i, <1>0, <1>k, <1>p, <2>e DEF Uses, Held, TypedPc, TypedProcs, Inodes, files
  <2>n. \A i \in Inodes : Links1(p, i)' => Links1(p, i)
    BY <1>2, <2>i, <1>0, <1>k, <1>p DEF Links1, Pos, Iputting, Nexts, Walking, Control, WithTarget, WithDir, TypedPc, TypedProcs, TypedArgs, Inodes, args
  <2>w. Knows(p)'
    BY <1>2, <2>i, <1>0, <1>k, <1>p, <2>y DEF Actor, Knows, Naming, TypedPc, TypedProcs, TypedArgs, Inodes, inodes, args
  <2> QED BY <2>c, <2>r, <2>l, <2>h, <2>u, <2>n, <2>w DEF Quiet
<1> QED BY <1>1, <1>2 DEF Unlink, ilock, iget, Unlocked

LEMMA CreateQuiet ==
    ASSUME RefInv, TreeInv, NEW p \in Procs, Create(p)
    PROVE  Panic \/ Quiet(p)
<1> SUFFICES ASSUME ~Panic PROVE Quiet(p)
  OBVIOUS
<1>0. Typed /\ Control(p) /\ Actor(p)
  BY DEF RefInv, ControlInv, TreeInv
<1>p. Named(p) /\ call[p] \in {"create", "mkdir"}
  BY DEF Create
<1>k. ip[p] \in Inodes /\ put[p] = 0 /\ pc[p] = "named" /\ tgt[p] = 0 /\ next[p] \in Nexts
  BY <1>p, <1>0 DEF Control, Pos, Iputting, Nexts, WithDir, WithTarget, Walking, Naming, Typed, TypedProcs, TypedPc, TypedArgs, Inodes, Parent, Named
<1>h. path[p] # <<>> /\ Head(path[p]) \in Names
  BY <1>p, <1>k, <1>0, NameAndRest DEF Actor, Knows, Control, Naming
<1> DEFINE e == ents[ip[p]][Head(path[p])]
<1>1. CASE /\ e = 0 /\ lock[ip[p]] = NoProc
           /\ lock' = [lock EXCEPT ![ip[p]] = p]
           /\ Goto(p, "create_alloc")
           /\ UNCHANGED <<inodes, ref, files, args, ip, tgt, put, next>>
  <2> USE DEF Typed, Goto
  <2>c. pc'[p] # "create_link" /\ UNCHANGED inodes
    BY <1>1, <1>0, <1>k DEF TypedPc
  <2>r. GentleRefs(p)
    BY <1>1, <1>0, <1>k DEF GentleRefs, Touches
  <2>l. GentleLocks(p)
    BY <1>1, <1>0, <1>k, Procs0 DEF TypedTable, GentleLocks
  <2>h. \A i \in Inodes : lock'[i] = p <=> Holds(p, i)'
    BY <1>1, <1>0, <1>k, <1>p, Procs0 DEF TypedTable, Actor, Holds, Pos, Iputting, Nexts, Locking, Walking, WithTarget, WithDir, Control, TypedPc, TypedProcs
  <2>u. \A i \in Inodes : Uses(p, i)' => Uses(p, i) \/ nlink[i] > 0
    BY <1>1, <1>0, <1>k, <1>p DEF Uses, Held, TypedPc, TypedProcs, Inodes, files
  <2>n. \A i \in Inodes : Links1(p, i)' => Links1(p, i)
    BY <1>1, <1>0, <1>k, <1>p DEF Links1, Pos, Iputting, Nexts, Walking, Control, WithTarget, WithDir, TypedPc, TypedProcs, TypedArgs, Inodes, args
  <2>w. Knows(p)'
    BY <1>1, <1>0, <1>k, <1>p DEF Actor, Knows, Naming, TypedPc, TypedProcs, TypedArgs, Inodes, inodes, args
  <2> QED BY <2>c, <2>r, <2>l, <2>h, <2>u, <2>n, <2>w DEF Quiet
<1>2. CASE /\ e # 0
           /\ ref' = igetRef(e)
           /\ tgt' = [tgt EXCEPT ![p] = e]
           /\ ip' = [ip EXCEPT ![p] = 0]
           /\ Put(p, ip[p], "create_found")
           /\ UNCHANGED <<inodes, lock, files, args>>
  <2>e. e \in Inodes /\ nlink[e] > 0
    BY <1>2, <1>0, <1>k, <1>h, NamedHas DEF TreeInv
  <2>i. ref' = [ref EXCEPT ![e] = @ + 1]
    BY <1>2 DEF igetRef
  <2> HIDE DEF e
  <2> USE DEF Typed, Put
  <2>c. pc'[p] # "create_link" /\ UNCHANGED inodes
    BY <1>2, <2>i, <1>0, <1>k DEF TypedPc
  <2>r. GentleRefs(p)
    BY <1>2, <2>i, <1>0, <1>k, <2>e DEF GentleRefs, Touches
  <2>l. GentleLocks(p)
    BY <1>2, <2>i, <1>0, <1>k DEF GentleLocks
  <2>h. \A i \in Inodes : lock'[i] = p <=> Holds(p, i)'
    BY <1>2, <2>i, <1>0, <1>k, <1>p DEF Actor, Holds, Pos, Iputting, Nexts, Locking, Walking, WithTarget, WithDir, Control, TypedPc, TypedProcs
  <2>u. \A i \in Inodes : Uses(p, i)' => Uses(p, i) \/ nlink[i] > 0
    BY <1>2, <2>i, <1>0, <1>k, <1>p, <2>e DEF Uses, Held, TypedPc, TypedProcs, Inodes, files
  <2>n. \A i \in Inodes : Links1(p, i)' => Links1(p, i)
    BY <1>2, <2>i, <1>0, <1>k, <1>p DEF Links1, Pos, Iputting, Nexts, Walking, Control, WithTarget, WithDir, TypedPc, TypedProcs, TypedArgs, Inodes, args
  <2>w. Knows(p)'
    BY <1>2, <2>i, <1>0, <1>k, <1>p DEF Actor, Knows, Naming, TypedPc, TypedProcs, TypedArgs, Inodes, inodes, args
  <2> QED BY <2>c, <2>r, <2>l, <2>h, <2>u, <2>n, <2>w DEF Quiet
<1> QED BY <1>1, <1>2 DEF Create, ilock, iget, Unlocked

LEMMA LinkDirQuiet ==
    ASSUME RefInv, TreeInv, NEW p \in Procs, Named(p), call[p] = "link", tgt[p] = 0,
           ip' = [ip EXCEPT ![p] = 0],
           Put(p, ip[p], "idle"),
           UNCHANGED <<inodes, ref, lock, files, args, tgt>>
    PROVE  Quiet(p)
<1>0. Typed /\ Control(p) /\ Actor(p)
  BY DEF RefInv, ControlInv, TreeInv
<1>p. Named(p)
  OBVIOUS
<1>k. ip[p] \in Inodes /\ put[p] = 0 /\ pc[p] = "walk"
  BY <1>p, <1>0 DEF Control, Pos, Iputting, Nexts, WithDir, WithTarget, Walking, Naming, Typed, TypedProcs, TypedPc, TypedArgs, Inodes, Parent, Named
<1> USE DEF Typed, Put
<1>c. pc'[p] # "create_link" /\ UNCHANGED inodes
  BY <1>0, <1>k DEF TypedPc
<1>r. GentleRefs(p)
  BY <1>0, <1>k DEF GentleRefs, Touches
<1>l. GentleLocks(p)
  BY <1>0, <1>k DEF GentleLocks
<1>h. \A i \in Inodes : lock'[i] = p <=> Holds(p, i)'
  BY <1>0, <1>k, <1>p DEF Actor, Holds, Pos, Iputting, Nexts, Locking, Walking, WithTarget, WithDir, Control, TypedPc, TypedProcs
<1>u. \A i \in Inodes : Uses(p, i)' => Uses(p, i) \/ nlink[i] > 0
  BY <1>0, <1>k, <1>p DEF Uses, Held, TypedPc, TypedProcs, Inodes, files
<1>n. \A i \in Inodes : Links1(p, i)' => Links1(p, i)
  BY <1>0, <1>k, <1>p DEF Links1, Pos, Iputting, Nexts, Walking, Control, WithTarget, WithDir, TypedPc, TypedProcs, TypedArgs, Inodes, args
<1>w. Knows(p)'
  BY <1>0, <1>k, <1>p DEF Actor, Knows, Naming, TypedPc, TypedProcs, TypedArgs, Inodes, inodes, args
<1> QED BY <1>c, <1>r, <1>l, <1>h, <1>u, <1>n, <1>w DEF Quiet

LEMMA LinkFailsQuiet ==
    ASSUME RefInv, TreeInv, NEW p \in Procs, pc[p] = "named", call[p] = "link", tgt[p] # 0,
           ip' = [ip EXCEPT ![p] = 0],
           Put(p, ip[p], "link_bad"),
           UNCHANGED <<inodes, ref, lock, files, args, tgt>>
    PROVE  Quiet(p)
<1>0. Typed /\ Control(p) /\ Actor(p)
  BY DEF RefInv, ControlInv, TreeInv
<1>p. pc[p] = "named"
  OBVIOUS
<1>k. ip[p] \in Inodes /\ put[p] = 0
  BY <1>p, <1>0 DEF Control, Pos, Iputting, Nexts, WithDir, WithTarget, Walking, Naming, Typed, TypedProcs, TypedPc, TypedArgs, Inodes, Parent
<1> USE DEF Typed, Put
<1>c. pc'[p] # "create_link" /\ UNCHANGED inodes
  BY <1>0, <1>k DEF TypedPc
<1>r. GentleRefs(p)
  BY <1>0, <1>k DEF GentleRefs, Touches
<1>l. GentleLocks(p)
  BY <1>0, <1>k DEF GentleLocks
<1>h. \A i \in Inodes : lock'[i] = p <=> Holds(p, i)'
  BY <1>0, <1>k, <1>p DEF Actor, Holds, Pos, Iputting, Nexts, Locking, Walking, WithTarget, WithDir, Control, TypedPc, TypedProcs
<1>u. \A i \in Inodes : Uses(p, i)' => Uses(p, i) \/ nlink[i] > 0
  BY <1>0, <1>k, <1>p DEF Uses, Held, TypedPc, TypedProcs, Inodes, files
<1>n. \A i \in Inodes : Links1(p, i)' => Links1(p, i)
  BY <1>0, <1>k, <1>p DEF Links1, Pos, Iputting, Nexts, Walking, Control, WithTarget, WithDir, TypedPc, TypedProcs, TypedArgs, Inodes, args
<1>w. Knows(p)'
  BY <1>0, <1>k, <1>p DEF Actor, Knows, Naming, TypedPc, TypedProcs, TypedArgs, Inodes, inodes, args
<1> QED BY <1>c, <1>r, <1>l, <1>h, <1>u, <1>n, <1>w DEF Quiet

LEMMA NotEmptyQuiet ==
    ASSUME RefInv, TreeInv, NEW p \in Procs, pc[p] = "unlink_child",
           tgt' = [tgt EXCEPT ![p] = 0],
           Put(p, tgt[p], "unlink_bad"),
           UNCHANGED <<inodes, ref, lock, files, args, ip>>
    PROVE  Quiet(p)
<1>0. Typed /\ Control(p) /\ Actor(p)
  BY DEF RefInv, ControlInv, TreeInv
<1>p. pc[p] = "unlink_child"
  OBVIOUS
<1>k. ip[p] \in Inodes /\ put[p] = 0 /\ tgt[p] \in Inodes
  BY <1>p, <1>0 DEF Control, Pos, Iputting, Nexts, WithDir, WithTarget, Walking, Naming, Typed, TypedProcs, TypedPc, TypedArgs, Inodes, Parent
<1> USE DEF Typed, Put
<1>c. pc'[p] # "create_link" /\ UNCHANGED inodes
  BY <1>0, <1>k DEF TypedPc
<1>r. GentleRefs(p)
  BY <1>0, <1>k DEF GentleRefs, Touches
<1>l. GentleLocks(p)
  BY <1>0, <1>k DEF GentleLocks
<1>h. \A i \in Inodes : lock'[i] = p <=> Holds(p, i)'
  BY <1>0, <1>k, <1>p DEF Actor, Holds, Pos, Iputting, Nexts, Locking, Walking, WithTarget, WithDir, Control, TypedPc, TypedProcs
<1>u. \A i \in Inodes : Uses(p, i)' => Uses(p, i) \/ nlink[i] > 0
  BY <1>0, <1>k, <1>p DEF Uses, Held, TypedPc, TypedProcs, Inodes, files
<1>n. \A i \in Inodes : Links1(p, i)' => Links1(p, i)
  BY <1>0, <1>k, <1>p DEF Links1, Pos, Iputting, Nexts, Walking, Control, WithTarget, WithDir, TypedPc, TypedProcs, TypedArgs, Inodes, args
<1>w. Knows(p)'
  BY <1>0, <1>k, <1>p DEF Actor, Knows, Naming, TypedPc, TypedProcs, TypedArgs, Inodes, inodes, args
<1> QED BY <1>c, <1>r, <1>l, <1>h, <1>u, <1>n, <1>w DEF Quiet

LEMMA NoInodeQuiet ==
    ASSUME RefInv, TreeInv, NEW p \in Procs, pc[p] = "create_alloc",
           Goto(p, "create_fail"),
           UNCHANGED <<inodes, table, files, args, ip, tgt, put, next>>
    PROVE  Quiet(p)
<1>0. Typed /\ Control(p) /\ Actor(p)
  BY DEF RefInv, ControlInv, TreeInv
<1>p. pc[p] = "create_alloc"
  OBVIOUS
<1>k. ip[p] \in Inodes /\ put[p] = 0 /\ tgt[p] = 0 /\ call[p] # "link"
  BY <1>p, <1>0 DEF Control, Pos, Iputting, Nexts, WithDir, WithTarget, Walking, Naming, Typed, TypedProcs, TypedPc, TypedArgs, Inodes, Parent
<1> USE DEF Typed, Goto
<1>c. pc'[p] # "create_link" /\ UNCHANGED inodes
  BY <1>0, <1>k DEF TypedPc
<1>r. GentleRefs(p)
  BY <1>0, <1>k DEF GentleRefs, table
<1>l. GentleLocks(p)
  BY <1>0, <1>k DEF GentleLocks, table
<1>h. \A i \in Inodes : lock'[i] = p <=> Holds(p, i)'
  BY <1>0, <1>k, <1>p DEF Actor, Holds, Pos, Iputting, Nexts, Locking, Walking, WithTarget, WithDir, Control, TypedPc, TypedProcs, table
<1>u. \A i \in Inodes : Uses(p, i)' => Uses(p, i) \/ nlink[i] > 0
  BY <1>0, <1>k, <1>p DEF Uses, Held, TypedPc, TypedProcs, Inodes, files
<1>n. \A i \in Inodes : Links1(p, i)' => Links1(p, i)
  BY <1>0, <1>k, <1>p DEF Links1, Pos, Iputting, Nexts, Walking, Control, WithTarget, WithDir, TypedPc, TypedProcs, TypedArgs, Inodes, args
<1>w. Knows(p)'
  BY <1>0, <1>k, <1>p DEF Actor, Knows, Naming, TypedPc, TypedProcs, TypedArgs, Inodes, inodes, args
<1> QED BY <1>c, <1>r, <1>l, <1>h, <1>u, <1>n, <1>w DEF Quiet

LEMMA AddsOne ==
    ASSUME NEW S, NEW T, NEW x, IsFiniteSet(S), T \subseteq S \union {x}
    PROVE  Cardinality(T) \in Nat /\ Cardinality(T) <= Cardinality(S) + 1
<1>1. IsFiniteSet(S \union {x}) /\ Cardinality(S \union {x}) \in Nat /\ Cardinality(S) \in Nat
      /\ Cardinality(S \union {x}) <= Cardinality(S) + 1
  BY FS_AddElement, FS_CardinalityType
<1>2. IsFiniteSet(T) /\ Cardinality(T) <= Cardinality(S \union {x})
  BY <1>1, FS_Subset
<1> QED BY <1>1, <1>2, FS_CardinalityType

LEMMA DropsOne ==
    ASSUME NEW S, NEW T, NEW x \in S, IsFiniteSet(S), T \subseteq S \ {x}
    PROVE  Cardinality(T) \in Nat /\ Cardinality(T) + 1 <= Cardinality(S)
<1>1. IsFiniteSet(S \ {x}) /\ Cardinality(S \ {x}) \in Nat /\ Cardinality(S) \in Nat
      /\ Cardinality(S \ {x}) = Cardinality(S) - 1
  BY FS_RemoveElement, FS_CardinalityType
<1>2. IsFiniteSet(T) /\ Cardinality(T) <= Cardinality(S \ {x})
  BY <1>1, FS_Subset
<1> QED BY <1>1, <1>2, FS_CardinalityType

LEMMA Shrinks ==
    ASSUME NEW S, NEW T, IsFiniteSet(S), T \subseteq S
    PROVE  Cardinality(T) \in Nat /\ Cardinality(T) <= Cardinality(S)
  BY FS_Subset, FS_CardinalityType

LEMMA Assemble ==
    ASSUME RefInv, TreeInv, NEW p \in Procs, OthersSame(p),
           GentleRefs(p), GentleLocks(p), GentleInodes(p),
           Actor(p)', Fresh', Counted', Shape'
    PROVE  TreeInv'
  BY OthersActors DEF TreeInv

\* The calls of others that count on i stay.
LEMMA PendsOf ==
    ASSUME NEW p \in Procs, OthersSame(p), NEW i
    PROVE  /\ Pend(i)' \subseteq Pend(i) \union {p}
           /\ ~Links1(p, i)' => Pend(i)' \subseteq Pend(i) \ {p}
           /\ (Links1(p, i)' => Links1(p, i)) => Pend(i)' \subseteq Pend(i)
  BY DEF Pend, Links1, OthersSame, Same, Pos

\* Fresh is kept when new inodes are left alone.
LEMMA FreshKept ==
    ASSUME RefInv, TreeInv, NEW p \in Procs, OthersSame(p), pc'[p] # "create_link",
           \A i \in Inodes : type'[i] = "free" => type[i] = "free",
           \A i \in Inodes : Pending(i)' \/ type[i] = "free" => nlink'[i] = nlink[i] /\ ents'[i] = ents[i]
    PROVE  Fresh'
<1>1. \A i : Pending(i)' => Pending(i)
  BY FewerPending
<1>2. \A i \in Inodes : type'[i] = "free" \/ Pending(i)' => nlink'[i] = 0 /\ ents'[i] = NoEntries
  BY <1>1 DEF TreeInv, Fresh
<1>3. \A r, q \in Procs : pc'[r] = "create_link" /\ pc'[q] = "create_link" /\ tgt'[r] = tgt'[q] => r = q
  BY DEF TreeInv, Fresh, OthersSame, Same
<1> QED BY <1>2, <1>3 DEF Fresh

LEMMA LinkOldTree ==
    ASSUME RefInv, TreeInv, NEW p \in Procs, Kept(p), LinkOld(p)
    PROVE  Panic \/ TreeInv'
<1> SUFFICES ASSUME ~Panic PROVE TreeInv'
  OBVIOUS
<1>0. Typed /\ Typed' /\ OthersSame(p) /\ Control(p) /\ Actor(p)
  BY DEF RefInv, ControlInv, TreeInv, Kept
<1>p. Named(p) /\ call[p] = "link" /\ tgt[p] = 0
  BY DEF LinkOld
<1> DEFINE i == ip[p]
           start == Start(p, path2[p])
<1>k. i \in Inodes /\ put[p] = 0 /\ pc[p] = "walk" /\ Uses(p, i)
  BY <1>0, <1>p DEF Named, Control, Pos, Iputting, WithDir, Typed, TypedProcs, Inodes, Parent, Uses
<1>1. CASE /\ ip' = [ip EXCEPT ![p] = 0]
           /\ Put(p, i, "idle")
           /\ UNCHANGED <<inodes, ref, lock, files, args, tgt>>
  BY <1>1, <1>p, LinkDirQuiet, QuietKeeps
<1>2. CASE /\ type[i] # "dir"
           /\ nlink' = [nlink EXCEPT ![i] = @ + 1]
           /\ tgt' = [tgt EXCEPT ![p] = i]
           /\ StartWalk(p, path2[p])
           /\ UNCHANGED <<type, ents, lock, files, call, path2, put, next>>
  <2>s. start \in Inodes /\ (start = cwd[p] \/ nlink[start] > 0)
    BY <1>0, RootHas, Procs0 DEF Start, TreeInv, Typed, TypedProcs
  <2>1. /\ ref' = [ref EXCEPT ![start] = @ + 1]
        /\ ip' = [ip EXCEPT ![p] = start]
        /\ path' = [path EXCEPT ![p] = Elements(path2[p])]
        /\ pc' = [pc EXCEPT ![p] = "walk"]
    BY <1>2 DEF StartWalk, Goto, igetRef
  <2> HIDE DEF start
  <2>2. /\ cwd'[p] = cwd[p] /\ fd'[p] = fd[p] /\ ip'[p] = start /\ tgt'[p] = i /\ put'[p] = 0
        /\ pc'[p] = "walk" /\ call'[p] = "link" /\ path'[p] = Elements(path2[p]) /\ path2'[p] = path2[p]
    BY <1>0, <1>2, <1>p, <1>k, <2>1 DEF files, Typed, TypedProcs, TypedPc, TypedArgs
  <2>f. type[i] = "file" /\ ~Pending(i)
    BY <1>0, <1>2, <1>k DEF Actor, Typed, TypedInodes
  <2>r. GentleRefs(p)
    BY <1>0, <2>1, <2>s DEF GentleRefs, Touches, Typed, TypedTable
  <2>l. GentleLocks(p)
    BY <1>2 DEF GentleLocks
  <2>q. \A j : Pending(j)' => Pending(j)
    BY <1>0, <2>2, FewerPending
  <2>i. GentleInodes(p)
    BY <1>0, <1>2, <2>q DEF GentleInodes, Touches, Typed, TypedInodes
  <2>a. Actor(p)'
    <3>1. \A j \in Inodes : lock'[j] = p <=> Holds(p, j)'
      BY <1>0, <1>2, <1>k, <2>2 DEF Actor, Holds, Pos, Iputting, Locking
    <3>2. ASSUME NEW j \in Inodes, Uses(p, j)' PROVE type'[j] # "free" /\ ~Pending(j)'
      <4>1. Uses(p, j) \/ nlink[j] > 0
        BY <3>2, <2>2, <2>s, <1>k, Procs0 DEF Uses, Held
      <4>2. type[j] # "free" /\ ~Pending(j)
        BY <4>1, <1>0, LinkedSound DEF Actor, TreeInv
      <4> QED BY <4>2, <1>2, <2>q
    <3>3. path'[p] \in Seq(Names) /\ Elements(path2'[p]) \in Seq(Names)
      BY <1>0, <2>2 DEF Actor, Knows
    <3>4. Knows(p)'
      BY <3>3, <2>2, <1>2, <2>f DEF Knows, Naming
    <3> QED BY <3>1, <3>2, <3>4 DEF Actor
  <2>h. Fresh'
    <3>1. ASSUME NEW j \in Inodes, Pending(j)' \/ type[j] = "free" PROVE nlink'[j] = nlink[j] /\ ents'[j] = ents[j]
      BY <3>1, <2>q, <2>f, <1>2, <1>0 DEF Typed, TypedInodes
    <3> QED BY <3>1, <1>0, <1>2, <2>2, FreshKept
  <2>c. Counted'
    <3>1. ASSUME NEW j \in Inodes PROVE nlink'[j] >= Cardinality(LinkSet(j)') + Cardinality(Pend(j)')
      <4>1. LinkSet(j)' = LinkSet(j)
        BY <1>2 DEF LinkSet, InTree
      <4>2. CASE j # i
        <5>1. Pend(j)' \subseteq Pend(j)
          BY <4>2, <2>2, <1>0, PendsOf DEF Links1
        <5>2. nlink'[j] >= nlink[j]
          BY <4>2, <1>0, <1>2 DEF Typed, TypedInodes
        <5> QED BY <1>0, <4>1, <5>1, <5>2, CountShrinks DEF TreeInv
      <4>3. CASE j = i
        <5>1. Pend(j)' \subseteq Pend(j) \union {p}
          BY <1>0, PendsOf
        <5>2. Cardinality(Pend(j)') \in Nat /\ Cardinality(Pend(j)') <= Cardinality(Pend(j)) + 1
          BY <5>1, AddsOne, LinksFinite
        <5>3. nlink'[j] = nlink[j] + 1 /\ nlink[j] \in Int /\ nlink[j] >= Cardinality(LinkSet(j)) + Cardinality(Pend(j))
          BY <4>3, <1>0, <1>2, <1>k DEF Typed, TypedInodes, TreeInv, Counted
        <5> QED BY <4>1, <5>2, <5>3, LinksFinite
      <4> QED BY <4>2, <4>3
    <3> QED BY <3>1 DEF Counted
  <2>t. Shape'
    BY <1>2 DEF TreeInv, Shape
  <2> QED BY <1>0, <2>r, <2>l, <2>i, <2>a, <2>h, <2>c, <2>t, Assemble
<1> QED BY <1>1, <1>2 DEF LinkOld, ilock, iget

\* The end of link() that fails and of unlink(): a counted link is given up.
LEMMA LinkDrops ==
    ASSUME RefInv, TreeInv, NEW p \in Procs, Kept(p),
           pc[p] \in {"link_bad", "unlink_dec"},
           nlink' = [nlink EXCEPT ![tgt[p]] = @ - 1],
           tgt' = [tgt EXCEPT ![p] = 0],
           Put(p, tgt[p], "idle"),
           UNCHANGED <<type, ents, ref, files, args, ip>>,
           GentleLocks(p), \A j \in Inodes : lock'[j] # p
    PROVE  TreeInv'
<1>0. Typed /\ Typed' /\ OthersSame(p) /\ Control(p) /\ Actor(p)
  BY DEF RefInv, ControlInv, TreeInv, Kept
<1> DEFINE i == tgt[p]
<1>k. i \in Inodes /\ put[p] = 0 /\ ip[p] = 0 /\ Uses(p, i) /\ Links1(p, i)
  BY <1>0 DEF Control, Pos, Iputting, WithDir, WithTarget, Typed, TypedProcs, Inodes, Uses, Held, Links1
<1>2. /\ cwd'[p] = cwd[p] /\ fd'[p] = fd[p] /\ ip'[p] = 0 /\ tgt'[p] = 0 /\ put'[p] = i
      /\ pc'[p] = "iput" /\ next'[p] = "idle" /\ path'[p] = path[p] /\ path2'[p] = path2[p]
  BY <1>0, <1>k DEF Put, files, args, Typed, TypedProcs, TypedPc
<1>f. type[i] # "free" /\ ~Pending(i)
  BY <1>0, <1>k DEF Actor
<1>r. GentleRefs(p)
  BY DEF GentleRefs
<1>q. \A j : Pending(j)' => Pending(j)
  BY <1>0, <1>2, FewerPending
<1>i. GentleInodes(p)
  BY <1>0, <1>q DEF GentleInodes, Touches, Typed, TypedInodes
<1>a. Actor(p)'
  <2>1. \A j \in Inodes : lock'[j] = p <=> Holds(p, j)'
    BY <1>2 DEF Holds, Pos, Iputting, Locking
  <2>2. ASSUME NEW j \in Inodes, Uses(p, j)' PROVE type'[j] # "free" /\ ~Pending(j)'
    <3>1. Uses(p, j)
      BY <2>2, <1>2, <1>k, Procs0 DEF Uses, Held
    <3> QED BY <3>1, <1>0, <1>q DEF Actor
  <2>3. Knows(p)'
    BY <1>0, <1>2 DEF Actor, Knows, Naming
  <2> QED BY <2>1, <2>2, <2>3 DEF Actor
<1>h. Fresh'
  <2>1. ASSUME NEW j \in Inodes, Pending(j)' \/ type[j] = "free" PROVE nlink'[j] = nlink[j] /\ ents'[j] = ents[j]
    BY <2>1, <1>q, <1>f, <1>0 DEF Typed, TypedInodes
  <2> QED BY <2>1, <1>0, <1>2, FreshKept
<1>c. Counted'
  <2>1. ASSUME NEW j \in Inodes PROVE nlink'[j] >= Cardinality(LinkSet(j)') + Cardinality(Pend(j)')
    <3>1. LinkSet(j)' = LinkSet(j)
      BY DEF LinkSet, InTree
    <3>2. CASE j # i
      <4>1. Pend(j)' \subseteq Pend(j)
        BY <1>0, <1>2, PendsOf, Procs0 DEF Links1
      <4>2. nlink'[j] >= nlink[j]
        BY <3>2, <1>0 DEF Typed, TypedInodes
      <4> QED BY <1>0, <3>1, <4>1, <4>2, CountShrinks DEF TreeInv
    <3>3. CASE j = i
      <4>1. Pend(j)' \subseteq Pend(j) \ {p} /\ p \in Pend(j)
        BY <3>3, <1>0, <1>2, <1>k, PendsOf, Procs0 DEF Links1, Pend
      <4>2. Cardinality(Pend(j)') \in Nat /\ Cardinality(Pend(j)') + 1 <= Cardinality(Pend(j))
        BY <4>1, DropsOne, LinksFinite
      <4>3. nlink'[j] = nlink[j] - 1 /\ nlink[j] \in Int /\ nlink[j] >= Cardinality(LinkSet(j)) + Cardinality(Pend(j))
        BY <3>3, <1>0, <1>k DEF Typed, TypedInodes, TreeInv, Counted
      <4> QED BY <3>1, <4>2, <4>3, LinksFinite
    <3> QED BY <3>2, <3>3
  <2> QED BY <2>1 DEF Counted
<1>t. Shape'
  BY DEF TreeInv, Shape
<1> QED BY <1>0, <1>r, <1>i, <1>a, <1>h, <1>c, <1>t, Assemble

LEMMA LinkBadTree ==
    ASSUME RefInv, TreeInv, NEW p \in Procs, Kept(p), LinkBad(p)
    PROVE  Panic \/ TreeInv'
<1> SUFFICES ASSUME ~Panic PROVE TreeInv'
  OBVIOUS
<1>1. /\ pc[p] = "link_bad"
      /\ nlink' = [nlink EXCEPT ![tgt[p]] = @ - 1]
      /\ tgt' = [tgt EXCEPT ![p] = 0]
      /\ Put(p, tgt[p], "idle")
      /\ UNCHANGED <<type, ents, ref, lock, files, args, ip>>
  BY DEF LinkBad, ilock
<1>2. GentleLocks(p)
  BY <1>1 DEF GentleLocks
<1>3. \A j \in Inodes : lock'[j] # p
  BY <1>1 DEF TreeInv, Actor, Holds, Pos, Iputting, Locking
<1> QED BY <1>1, <1>2, <1>3, LinkDrops

LEMMA UnlinkDecTree ==
    ASSUME RefInv, TreeInv, NEW p \in Procs, Kept(p), UnlinkDec(p)
    PROVE  TreeInv'
<1>1. /\ pc[p] = "unlink_dec"
      /\ nlink' = [nlink EXCEPT ![tgt[p]] = @ - 1]
      /\ lock' = [lock EXCEPT ![tgt[p]] = NoProc]
      /\ tgt' = [tgt EXCEPT ![p] = 0]
      /\ Put(p, tgt[p], "idle")
      /\ UNCHANGED <<type, ents, ref, valid, files, args, ip>>
  BY DEF UnlinkDec
<1>2. \A j \in Inodes : lock[j] = p <=> j = tgt[p]
  BY <1>1 DEF TreeInv, Actor, Holds, Pos, Iputting, Locking
<1>3. lock \in [Inodes -> Procs \union {NoProc}] /\ NoProc \notin Procs
  BY Procs0 DEF RefInv, Typed, TypedTable
<1>4. GentleLocks(p)
  BY <1>1, <1>2, <1>3 DEF GentleLocks
<1>5. \A j \in Inodes : lock'[j] # p
  BY <1>1, <1>2, <1>3
<1> QED BY <1>1, <1>4, <1>5, LinkDrops

LEMMA LinkNewTree ==
    ASSUME RefInv, TreeInv, NEW p \in Procs, Kept(p), LinkNew(p)
    PROVE  Panic \/ TreeInv'
<1> SUFFICES ASSUME ~Panic PROVE TreeInv'
  OBVIOUS
<1>0. Typed /\ Typed' /\ OthersSame(p) /\ Control(p) /\ Actor(p)
  BY DEF RefInv, ControlInv, TreeInv, Kept
<1>p. Named(p) /\ call[p] = "link" /\ tgt[p] # 0
  BY DEF LinkNew
<1> DEFINE d == ip[p]
           n == Head(path[p])
           i == tgt[p]
<1>k. d \in Inodes /\ put[p] = 0 /\ pc[p] = "named" /\ i \in Inodes
  BY <1>0, <1>p DEF Named, Control, Pos, Iputting, WithDir, Typed, TypedProcs, Inodes, Parent
<1>u. Uses(p, d) /\ Uses(p, i) /\ Links1(p, i)
  BY <1>p, <1>k DEF Uses, Held, Links1, Pos, Iputting
<1>n. n \in Names /\ n \in Entries /\ n # ".."
  BY <1>0, <1>k, NameAndRest, InodeAssumption DEF Actor, Knows, Control, Naming, Entries
<1>1. CASE /\ ip' = [ip EXCEPT ![p] = 0]
           /\ Put(p, d, "link_bad")
           /\ UNCHANGED <<inodes, ref, lock, files, args, tgt>>
  BY <1>1, <1>p, <1>k, LinkFailsQuiet, QuietKeeps
<1>2. CASE /\ ents[d][n] = 0 /\ lock[d] = NoProc
           /\ ents' = [ents EXCEPT ![d][n] = i]
           /\ Put(p, d, "link_put")
           /\ ip' = [ip EXCEPT ![p] = 0]
           /\ UNCHANGED <<type, nlink, ref, lock, files, args, tgt>>
  <2>2. /\ cwd'[p] = cwd[p] /\ fd'[p] = fd[p] /\ ip'[p] = 0 /\ tgt'[p] = i /\ put'[p] = d
        /\ pc'[p] = "iput" /\ next'[p] = "link_put" /\ path'[p] = path[p] /\ path2'[p] = path2[p]
        /\ call'[p] = "link"
    BY <1>0, <1>2, <1>p DEF Put, files, args, Typed, TypedProcs, TypedPc
  <2>e. /\ \A x \in Inodes, m \in Entries : ents'[x][m] = IF x = d /\ m = n THEN i ELSE ents[x][m]
        /\ \A x \in Inodes : x # d => ents'[x] = ents[x]
    BY <1>0, <1>2, <1>k, <1>n DEF Typed, TypedInodes
  <2>f. type[i] = "file" /\ type[d] = "dir" /\ ~Pending(i) /\ ~Pending(d)
    BY <1>0, <1>p, <1>k, <1>u DEF Actor, Knows, Naming
  <2>r. GentleRefs(p)
    BY <1>2 DEF GentleRefs
  <2>l. GentleLocks(p)
    BY <1>2 DEF GentleLocks
  <2>q. \A j : Pending(j)' => Pending(j)
    BY <1>0, <2>2, FewerPending
  <2>i. GentleInodes(p)
    BY <1>2, <2>q, <2>e DEF GentleInodes
  <2>a. Actor(p)'
    <3>1. \A j \in Inodes : lock'[j] = p <=> Holds(p, j)'
      BY <1>0, <1>2, <1>k, <2>2 DEF Actor, Holds, Pos, Iputting, Locking
    <3>2. ASSUME NEW j \in Inodes, Uses(p, j)' PROVE type'[j] # "free" /\ ~Pending(j)'
      <4>1. Uses(p, j)
        BY <3>2, <2>2, <1>k, Procs0 DEF Uses, Held
      <4> QED BY <4>1, <1>0, <1>2, <2>q DEF Actor
    <3>3. Knows(p)'
      BY <1>0, <1>2, <2>2, <2>f DEF Actor, Knows, Naming
    <3> QED BY <3>1, <3>2, <3>3 DEF Actor
  <2>h. Fresh'
    <3>1. ASSUME NEW j \in Inodes, Pending(j)' \/ type[j] = "free" PROVE nlink'[j] = nlink[j] /\ ents'[j] = ents[j]
      BY <3>1, <2>q, <2>f, <1>2, <2>e
    <3> QED BY <3>1, <1>0, <1>2, <2>2, FreshKept
  <2>z. ents[i][".."] = 0
    BY <1>k, <2>f DEF TreeInv, Shape, NoEntries, Entries
  <2>x. d # i
    BY <2>f
  <2>c. Counted'
    <3>0. ASSUME NEW x \in Inodes, InTree(x)' PROVE InTree(x) \/ x = i
      BY <3>0, <2>e, <1>n DEF InTree, Entries
    <3>1. ASSUME NEW j \in Inodes PROVE LinkSet(j)' \subseteq LinkSet(j) \union (IF j = i THEN {<<d, n>>} ELSE {})
      <4> SUFFICES ASSUME NEW en \in LinkSet(j)' PROVE en \in LinkSet(j) \/ (j = i /\ en = <<d, n>>)
        OBVIOUS
      <4>1. PICK x \in Inodes, m \in Entries : en = <<x, m>> /\ ents'[x][m] = j /\ (m = ".." => InTree(x)')
        BY DEF LinkSet
      <4>2. CASE x = d /\ m = n
        BY <4>1, <4>2, <2>e
      <4>3. CASE ~(x = d /\ m = n)
        <5>1. ents[x][m] = j
          BY <4>1, <4>3, <2>e
        <5>2. m = ".." => InTree(x)
          BY <4>1, <5>1, <3>0, <2>z, Procs0
        <5> QED BY <4>1, <5>1, <5>2 DEF LinkSet
      <4> QED BY <4>2, <4>3
    <3>2. ASSUME NEW j \in Inodes PROVE nlink'[j] >= Cardinality(LinkSet(j)') + Cardinality(Pend(j)')
      <4>2. CASE j # i
        <5>1. Pend(j)' \subseteq Pend(j) /\ LinkSet(j)' \subseteq LinkSet(j)
          BY <4>2, <3>1, <2>2, <1>0, PendsOf DEF Links1
        <5>2. nlink'[j] >= nlink[j]
          BY <1>0, <1>2 DEF Typed, TypedInodes
        <5> QED BY <1>0, <5>1, <5>2, CountShrinks DEF TreeInv
      <4>3. CASE j = i
        <5>1. ~Links1(p, j)'
          BY <2>2 DEF Links1, Pos, Iputting
        <5>2. Pend(j)' \subseteq Pend(j) \ {p} /\ p \in Pend(j)
          BY <4>3, <5>1, <1>0, <1>u, PendsOf DEF Pend
        <5>3. Cardinality(Pend(j)') \in Nat /\ Cardinality(Pend(j)') + 1 <= Cardinality(Pend(j))
          BY <5>2, DropsOne, LinksFinite
        <5>4. LinkSet(j)' \subseteq LinkSet(j) \union {<<d, n>>}
          BY <4>3, <3>1
        <5>5. Cardinality(LinkSet(j)') \in Nat /\ Cardinality(LinkSet(j)') <= Cardinality(LinkSet(j)) + 1
          BY <5>4, AddsOne, LinksFinite
        <5>6. nlink'[j] = nlink[j] /\ nlink[j] \in Int /\ nlink[j] >= Cardinality(LinkSet(j)) + Cardinality(Pend(j))
          BY <1>0, <1>2 DEF Typed, TypedInodes, TreeInv, Counted
        <5> QED BY <5>3, <5>5, <5>6, LinksFinite
      <4> QED BY <4>2, <4>3
    <3> QED BY <3>2 DEF Counted
  <2>t. Shape'
    <3> USE <2>e, <1>n DEF Entries
    <3>1. type'[ROOTINO] = "dir" /\ ents'[ROOTINO][".."] = ROOTINO
      BY <1>2, Procs0 DEF TreeInv, Shape
    <3>2. \A x \in Inodes : type'[x] # "dir" => ents'[x] = NoEntries
      BY <1>2, <2>f DEF TreeInv, Shape
    <3>3. \A x \in Inodes, m \in Names : ents'[x][m] # ROOTINO
      BY <2>f DEF TreeInv, Shape
    <3>4. \A x, j \in Inodes, m \in Names : ents'[x][m] = j /\ type'[j] = "dir" =>
             /\ ents'[j][".."] = x
             /\ \A y \in Inodes, l \in Names : ents'[y][l] = j => y = x /\ l = m
      BY <1>2, <2>f DEF TreeInv, Shape
    <3> QED BY <3>1, <3>2, <3>3, <3>4 DEF Shape
  <2> QED BY <1>0, <2>r, <2>l, <2>i, <2>a, <2>h, <2>c, <2>t, Assemble
<1>3. ilock(d, IF ents[d][n] = 0
               THEN (/\ ents' = [ents EXCEPT ![d][n] = i]
                     /\ Put(p, d, "link_put")
                     /\ ip' = [ip EXCEPT ![p] = 0]
                     /\ UNCHANGED <<type, nlink, ref, lock, files, args, tgt>>)
                    \/ (/\ Put(p, d, "link_bad") /\ UNCHANGED ents
                        /\ ip' = [ip EXCEPT ![p] = 0]
                        /\ UNCHANGED <<type, nlink, ref, lock, files, args, tgt>>)
               ELSE Panic \/ (/\ Put(p, d, "link_bad") /\ UNCHANGED ents
                              /\ ip' = [ip EXCEPT ![p] = 0]
                              /\ UNCHANGED <<type, nlink, ref, lock, files, args, tgt>>))
  BY DEF LinkNew, iget, ilock
<1> QED BY <1>1, <1>2, <1>3 DEF ilock, Unlocked, inodes

LEMMA IputFreeTree ==
    ASSUME RefInv, TreeInv, NEW p \in Procs, Kept(p), IputFree(p)
    PROVE  TreeInv'
<1>0. Typed /\ Typed' /\ OthersSame(p) /\ Control(p) /\ Actor(p)
  BY DEF RefInv, ControlInv, TreeInv, Kept
<1> DEFINE i == put[p]
<1>1. /\ pc[p] = "iput_free"
      /\ type' = [type EXCEPT ![i] = "free"]
      /\ ents' = [ents EXCEPT ![i] = NoEntries]
      /\ lock' = [lock EXCEPT ![i] = NoProc]
      /\ pc' = [pc EXCEPT ![p] = "iput_drop"]
      /\ UNCHANGED <<nlink, ref, files, args, ip, tgt, put, next>>
  BY DEF IputFree, Goto
<1>k. /\ i \in Inodes /\ nlink[i] = 0
      /\ \A q \in Procs : /\ cwd[q] # i /\ fd[q] # i /\ ip[q] # i /\ tgt[q] # i
                          /\ q # p => put[q] # i
  BY <1>1, FreedAlone
<1>l. lock[i] = p /\ \A j \in Inodes : lock'[j] = IF j = i THEN NoProc ELSE lock[j]
  BY <1>0, <1>1, <1>k DEF Actor, Holds, Typed, TypedTable
<1>2. /\ pc'[p] = "iput_drop" /\ Pos(p)' = Pos(p)
      /\ \A j \in Inodes : type'[j] = IF j = i THEN "free" ELSE type[j]
      /\ \A j \in Inodes : ents'[j] = IF j = i THEN NoEntries ELSE ents[j]
  BY <1>0, <1>1, <1>k DEF Typed, TypedPc, TypedInodes, Pos, Iputting
<1>r. GentleRefs(p)
  BY <1>1 DEF GentleRefs
<1>g. GentleLocks(p)
  BY <1>l, Procs0 DEF GentleLocks
<1>q. \A j : Pending(j)' => Pending(j)
  BY <1>0, <1>2, FewerPending
<1>i. GentleInodes(p)
  BY <1>1, <1>2, <1>l, <1>q DEF GentleInodes
<1>a. Actor(p)'
  <2>1. \A j \in Inodes : lock'[j] = p <=> Holds(p, j)'
    BY <1>0, <1>1, <1>2, <1>k, <1>l, Procs0 DEF Actor, Holds
  <2>2. ASSUME NEW j \in Inodes, Uses(p, j)' PROVE type'[j] # "free" /\ ~Pending(j)'
    <3>1. Uses(p, j) /\ j # i
      BY <2>2, <1>1, <1>2, <1>k, Procs0 DEF Uses, Held, files
    <3> QED BY <3>1, <1>0, <1>2, <1>q DEF Actor
  <2>3. tgt[p] # 0 => tgt[p] \in Inodes
    BY <1>0 DEF Typed, TypedProcs, Inodes
  <2>4. Knows(p)'
    BY <1>0, <1>1, <1>2, <1>k, <2>3 DEF Actor, Knows, Naming, args
  <2> QED BY <2>1, <2>2, <2>4 DEF Actor
<1>h. Fresh'
  <2>1. \A j \in Inodes : type'[j] = "free" \/ Pending(j)' => nlink'[j] = 0 /\ ents'[j] = NoEntries
    BY <1>1, <1>2, <1>k, <1>q DEF TreeInv, Fresh
  <2>2. \A r, q \in Procs : pc'[r] = "create_link" /\ pc'[q] = "create_link" /\ tgt'[r] = tgt'[q] => r = q
    BY <1>0, <1>2 DEF TreeInv, Fresh, OthersSame, Same
  <2> QED BY <2>1, <2>2 DEF Fresh
<1>z. \A x, j \in Inodes, m \in Entries : ents'[x][m] = j => ents[x][m] = j /\ x # i
  BY <1>2, Procs0 DEF NoEntries
<1>c. Counted'
  <2>1. ASSUME NEW x \in Inodes, InTree(x)' PROVE InTree(x)
    BY <2>1, <1>z DEF InTree, Entries
  <2>2. ASSUME NEW j \in Inodes PROVE nlink'[j] >= Cardinality(LinkSet(j)') + Cardinality(Pend(j)')
    <3>1. LinkSet(j)' \subseteq LinkSet(j)
      <4> SUFFICES ASSUME NEW en \in LinkSet(j)' PROVE en \in LinkSet(j)
        OBVIOUS
      <4>1. PICK x \in Inodes, m \in Entries : en = <<x, m>> /\ ents'[x][m] = j /\ (m = ".." => InTree(x)')
        BY DEF LinkSet
      <4> QED BY <4>1, <2>1, <1>z DEF LinkSet
    <3>2. Pend(j)' \subseteq Pend(j)
      BY <1>0, <1>1, <1>2, PendsOf DEF Links1, args
    <3>3. nlink'[j] >= nlink[j]
      BY <1>0, <1>1 DEF Typed, TypedInodes
    <3> QED BY <1>0, <3>1, <3>2, <3>3, CountShrinks DEF TreeInv
  <2> QED BY <2>2 DEF Counted
<1>t. Shape'
  <2>0. i # ROOTINO
    BY <1>0, <1>k, RootHas DEF TreeInv
  <2>1. type'[ROOTINO] = "dir" /\ ents'[ROOTINO][".."] = ROOTINO
    BY <1>2, <2>0, Procs0 DEF TreeInv, Shape
  <2>2. \A x \in Inodes : type'[x] # "dir" => ents'[x] = NoEntries
    BY <1>2 DEF TreeInv, Shape
  <2>3. \A x \in Inodes, m \in Names : ents'[x][m] # ROOTINO
    BY <1>z, Procs0 DEF TreeInv, Shape, Entries
  <2>4. \A x, j \in Inodes, m \in Names : ents'[x][m] = j /\ type'[j] = "dir" =>
           /\ ents'[j][".."] = x
           /\ \A y \in Inodes, l \in Names : ents'[y][l] = j => y = x /\ l = m
    BY <1>2, <1>z DEF TreeInv, Shape, Entries
  <2> QED BY <2>1, <2>2, <2>3, <2>4 DEF Shape
<1> QED BY <1>0, <1>r, <1>g, <1>i, <1>a, <1>h, <1>c, <1>t, Assemble

LEMMA IallocTree ==
    ASSUME RefInv, TreeInv, NEW p \in Procs, Kept(p), Ialloc(p)
    PROVE  TreeInv'
<1>0. Typed /\ Typed' /\ OthersSame(p) /\ Control(p) /\ Actor(p)
  BY DEF RefInv, ControlInv, TreeInv, Kept
<1>p. pc[p] = "create_alloc"
  BY DEF Ialloc
<1>k. ip[p] \in Inodes /\ put[p] = 0 /\ tgt[p] = 0 /\ call[p] \in {"create", "mkdir"} /\ Uses(p, ip[p])
  BY <1>0, <1>p DEF Control, Pos, Iputting, WithDir, WithTarget, Walking, Typed, TypedProcs, Inodes, Uses
<1>1. CASE /\ Goto(p, "create_fail")
           /\ UNCHANGED <<inodes, tgt>>
           /\ UNCHANGED <<table, files, args, ip, put, next>>
  BY <1>1, <1>p, NoInodeQuiet, QuietKeeps
<1>2. ASSUME NEW i \in Inodes, type[i] = "free",
             /\ type' = [type EXCEPT ![i] = IF call[p] = "mkdir" THEN "dir" ELSE "file"]
             /\ nlink' = [nlink EXCEPT ![i] = 0]
             /\ ents' = [ents EXCEPT ![i] = NoEntries]
             /\ tgt' = [tgt EXCEPT ![p] = i]
             /\ Goto(p, "create_link")
             /\ UNCHANGED <<table, files, args, ip, put, next>>
      PROVE  TreeInv'
  <2>n. nlink[i] = 0 /\ ents[i] = NoEntries
    BY <1>2 DEF TreeInv, Fresh
  <2>1. nlink' = nlink /\ ents' = ents
    BY <1>0, <1>2, <2>n DEF Typed, TypedInodes
  <2>2. /\ pc'[p] = "create_link" /\ tgt'[p] = i /\ ip'[p] = ip[p] /\ put'[p] = 0
        /\ cwd'[p] = cwd[p] /\ fd'[p] = fd[p] /\ path'[p] = path[p] /\ path2'[p] = path2[p] /\ call'[p] = call[p]
        /\ \A j \in Inodes : lock'[j] = lock[j] /\ ref'[j] = ref[j]
    BY <1>0, <1>2, <1>k DEF Goto, Typed, TypedPc, TypedProcs, files, args, table
  <2>3. \A j \in Inodes : type'[j] = IF j = i THEN (IF call[p] = "mkdir" THEN "dir" ELSE "file") ELSE type[j]
    BY <1>0, <1>2 DEF Typed, TypedInodes
  <2>q. \A j : Pending(j)' => Pending(j) \/ j = i
    BY <1>0, <2>2 DEF Pending, OthersSame, Same
  <2>r. GentleRefs(p)
    BY <2>2 DEF GentleRefs
  <2>l. GentleLocks(p)
    BY <2>2 DEF GentleLocks
  <2>i. GentleInodes(p)
    BY <1>2, <2>1, <2>3, <2>q DEF GentleInodes
  <2>a. Actor(p)'
    <3>1. \A j \in Inodes : lock'[j] = p <=> Holds(p, j)'
      BY <1>0, <1>p, <2>2 DEF Actor, Holds, Pos, Iputting, Locking
    <3>2. ASSUME NEW j \in Inodes, Uses(p, j)' PROVE type'[j] # "free" /\ ~Pending(j)'
      <4>1. Uses(p, j)
        BY <3>2, <2>2, Procs0 DEF Uses, Held
      <4>2. type[j] # "free" /\ ~Pending(j)
        BY <4>1, <1>0 DEF Actor
      <4> QED BY <4>2, <1>2, <2>3, <2>q
    <3>3. Knows(p)'
      <4>1. type[ip[p]] = "dir" /\ ents[ip[p]][Head(path[p])] = 0
        BY <1>0, <1>p DEF Actor, Knows, Naming
      <4>2. type'[ip'[p]] = "dir"
        BY <4>1, <1>2, <1>k, <2>2, <2>3
      <4> QED BY <4>1, <4>2, <1>0, <1>k, <2>1, <2>2, <2>3 DEF Actor, Knows
    <3> QED BY <3>1, <3>2, <3>3 DEF Actor
  <2>h. Fresh'
    <3>1. \A j \in Inodes : type'[j] = "free" \/ Pending(j)' => nlink'[j] = 0 /\ ents'[j] = NoEntries
      BY <2>1, <2>3, <2>n, <2>q DEF TreeInv, Fresh
    <3>2. ASSUME NEW q \in Procs, q # p, pc'[q] = "create_link" PROVE tgt'[q] # i
      <4>1. pc[q] = "create_link" /\ tgt'[q] = tgt[q]
        BY <3>2, <1>0 DEF OthersSame, Same
      <4> QED BY <4>1, <1>2 DEF TreeInv, Actor, Knows
    <3>3. \A r, q \in Procs : pc'[r] = "create_link" /\ pc'[q] = "create_link" /\ tgt'[r] = tgt'[q] => r = q
      BY <1>0, <2>2, <3>2 DEF TreeInv, Fresh, OthersSame, Same
    <3> QED BY <3>1, <3>3 DEF Fresh
  <2>c. Counted'
    <3>1. ASSUME NEW j \in Inodes PROVE nlink'[j] >= Cardinality(LinkSet(j)') + Cardinality(Pend(j)')
      <4>1. LinkSet(j)' = LinkSet(j)
        BY <2>1 DEF LinkSet, InTree
      <4>2. Pend(j)' \subseteq Pend(j)
        BY <1>0, <1>k, <2>2, PendsOf DEF Links1, Pos, Iputting
      <4>3. nlink'[j] >= nlink[j]
        BY <1>0, <2>1 DEF Typed, TypedInodes
      <4> QED BY <1>0, <4>1, <4>2, <4>3, CountShrinks DEF TreeInv
    <3> QED BY <3>1 DEF Counted
  <2>t. Shape'
    <3>0. i # ROOTINO
      BY <1>0, <2>n, RootHas DEF TreeInv
    <3>1. \A x \in Inodes, m \in Names : ents[x][m] # i
      BY <1>0, <2>n, NamedHas, Procs0 DEF TreeInv
    <3>2. type'[ROOTINO] = "dir" /\ ents'[ROOTINO][".."] = ROOTINO
      BY <2>1, <2>3, <3>0, Procs0 DEF TreeInv, Shape
    <3>3. \A x \in Inodes : type'[x] # "dir" => ents'[x] = NoEntries
      BY <2>1, <2>3, <2>n DEF TreeInv, Shape
    <3>4. \A x \in Inodes, m \in Names : ents'[x][m] # ROOTINO
      BY <2>1 DEF TreeInv, Shape
    <3>5. \A x, j \in Inodes, m \in Names : ents'[x][m] = j /\ type'[j] = "dir" =>
             /\ ents'[j][".."] = x
             /\ \A y \in Inodes, l \in Names : ents'[y][l] = j => y = x /\ l = m
      BY <2>1, <2>3, <3>1 DEF TreeInv, Shape
    <3> QED BY <3>2, <3>3, <3>4, <3>5 DEF Shape
  <2> QED BY <1>0, <2>r, <2>l, <2>i, <2>a, <2>h, <2>c, <2>t, Assemble
<1> QED BY <1>1, <1>2, FirstFree DEF Ialloc, Free

LEMMA CreateLinkTree ==
    ASSUME RefInv, TreeInv, NEW p \in Procs, Kept(p), CreateLink(p)
    PROVE  Panic \/ TreeInv'
<1> SUFFICES ASSUME ~Panic PROVE TreeInv'
  OBVIOUS
<1>0. Typed /\ Typed' /\ OthersSame(p) /\ Control(p) /\ Actor(p)
  BY DEF RefInv, ControlInv, TreeInv, Kept
<1> DEFINE d == ip[p]
           n == Head(path[p])
           i == tgt[p]
           isdir == call[p] = "mkdir"
<1>p. pc[p] = "create_link" /\ lock[i] = NoProc /\ ref' = igetRef(i)
  BY DEF CreateLink, Unlocked, iget
<1>k. d \in Inodes /\ i \in Inodes /\ put[p] = 0 /\ call[p] \in {"create", "mkdir"} /\ Uses(p, d)
  BY <1>0, <1>p DEF Control, Pos, Iputting, WithDir, WithTarget, Typed, TypedProcs, Inodes, Uses
<1>l. lock[d] = p /\ d # i /\ \A j \in Inodes : lock[j] = p => j = d
  BY <1>0, <1>p, <1>k, Procs0 DEF Actor, Holds, Pos, Iputting, Locking
<1>n. n \in Names /\ n \in Entries /\ n # ".." /\ ".." \in Entries
  BY <1>0, <1>p, NameAndRest, InodeAssumption DEF Actor, Knows, Control, Naming, Entries
<1>f. /\ type[i] = (IF isdir THEN "dir" ELSE "file") /\ type[d] = "dir" /\ ~Pending(d)
      /\ nlink[i] = 0 /\ ents[i] = NoEntries /\ ents[d][n] = 0
  <2>1. Pending(i)
    BY <1>p DEF Pending
  <2> QED BY <1>0, <1>p, <1>k, <2>1 DEF Actor, Knows, Naming, TreeInv, Fresh
<1>e. LinkSet(i) = {} /\ Pend(i) = {}
  BY <1>0, <1>f, <1>k, LinkedHas DEF TreeInv
<1>m. \A x \in Inodes, m \in Names : ents[x][m] # i
  BY <1>0, <1>f, <1>k, NamedHas, Procs0 DEF TreeInv
<1>r. GentleRefs(p)
  BY <1>0, <1>p, <1>k DEF GentleRefs, Touches, igetRef, Typed, TypedTable
\* Nobody else has i for its new inode.
<1>q. ASSUME pc'[p] = "iput" PROVE \A j : Pending(j)' => Pending(j) /\ j # i
  <2>1. ASSUME NEW q \in Procs, pc'[q] = "create_link" PROVE pc[q] = "create_link" /\ tgt'[q] = tgt[q] /\ tgt[q] # i
    <3>1. q # p
      BY <1>q, <2>1
    <3>2. pc[q] = "create_link" /\ tgt'[q] = tgt[q]
      BY <1>0, <2>1, <3>1 DEF OthersSame, Same
    <3> QED BY <1>p, <3>1, <3>2 DEF TreeInv, Fresh
  <2> QED BY <2>1 DEF Pending
<1>1. CASE /\ ents' = [ents EXCEPT ![d][n] = i, ![i][".."] = IF isdir THEN d ELSE 0]
           /\ nlink' = [nlink EXCEPT ![i] = 1, ![d] = IF isdir THEN @ + 1 ELSE @]
           /\ lock' = [lock EXCEPT ![d] = NoProc, ![i] = p]
           /\ ip' = [ip EXCEPT ![p] = 0]
           /\ Put(p, d, "created")
           /\ UNCHANGED <<type, files, args, tgt>>
  <2>2. /\ cwd'[p] = cwd[p] /\ fd'[p] = fd[p] /\ ip'[p] = 0 /\ tgt'[p] = i /\ put'[p] = d
        /\ pc'[p] = "iput" /\ next'[p] = "created" /\ path'[p] = path[p] /\ path2'[p] = path2[p]
        /\ call'[p] = call[p]
    BY <1>0, <1>1 DEF Put, files, args, Typed, TypedProcs, TypedPc
  <2>e. /\ \A x \in Inodes, m \in Entries :
             ents'[x][m] = IF x = d /\ m = n THEN i
                           ELSE IF x = i /\ m = ".." THEN (IF isdir THEN d ELSE 0)
                           ELSE ents[x][m]
        /\ \A x \in Inodes : x \notin {d, i} => ents'[x] = ents[x]
    BY <1>0, <1>1, <1>k, <1>n, <1>l DEF Typed, TypedInodes
  <2>n. \A j \in Inodes : nlink'[j] = IF j = i THEN 1 ELSE IF j = d /\ isdir THEN nlink[j] + 1 ELSE nlink[j]
    BY <1>0, <1>1, <1>k, <1>l DEF Typed, TypedInodes
  <2>k. \A j \in Inodes : lock'[j] = IF j = i THEN p ELSE IF j = d THEN NoProc ELSE lock[j]
    BY <1>0, <1>1, <1>k DEF Typed, TypedTable
  <2>q. \A j : Pending(j)' => Pending(j) /\ j # i
    BY <1>q, <2>2
  <2>l. GentleLocks(p)
    BY <1>p, <1>l, <2>k, Procs0 DEF GentleLocks
  <2>i. GentleInodes(p)
    BY <1>1, <1>p, <1>l, <2>e, <2>n, <2>q DEF GentleInodes, Touches
  <2>a. Actor(p)'
    <3>1. \A j \in Inodes : lock'[j] = p <=> Holds(p, j)'
      BY <1>l, <2>2, <2>k, Procs0 DEF Holds, Pos, Iputting, Locking
    <3>2. ASSUME NEW j \in Inodes, Uses(p, j)' PROVE type'[j] # "free" /\ ~Pending(j)'
      <4>1. Uses(p, j) \/ j = i
        BY <3>2, <2>2, <1>k, Procs0 DEF Uses, Held
      <4> QED BY <4>1, <1>0, <1>1, <1>f, <2>q DEF Actor
    <3>3. Knows(p)'
      BY <1>0, <1>k, <2>2 DEF Actor, Knows, Naming
    <3> QED BY <3>1, <3>2, <3>3 DEF Actor
  <2>h. Fresh'
    <3>1. ASSUME NEW j \in Inodes, Pending(j)' \/ type[j] = "free" PROVE nlink'[j] = nlink[j] /\ ents'[j] = ents[j]
      BY <3>1, <2>q, <2>e, <2>n, <1>f
    <3> QED BY <3>1, <1>0, <1>1, <2>2, FreshKept
  <2>z. \A m \in Entries : ents[i][m] = 0
    BY <1>f DEF NoEntries
  <2>c. Counted'
    <3>0. ASSUME NEW x \in Inodes, InTree(x)' PROVE InTree(x) \/ x = i
      <4> SUFFICES ASSUME x # ROOTINO, x # i PROVE InTree(x)
        BY DEF InTree
      <4>1. PICK y \in Inodes, m \in Names : ents'[y][m] = x
        BY <3>0 DEF InTree
      <4>2. m \in Entries /\ m # ".."
        BY InodeAssumption DEF Entries
      <4>3. ents[y][m] = x
        BY <4>1, <4>2, <2>e
      <4> QED BY <4>3 DEF InTree
    <3>1. ASSUME NEW j \in Inodes, NEW en \in LinkSet(j)'
          PROVE  en \in LinkSet(j) \/ (j = i /\ en = <<d, n>>) \/ (j = d /\ isdir /\ en = <<i, "..">>)
      <4>1. PICK x \in Inodes, m \in Entries : en = <<x, m>> /\ ents'[x][m] = j /\ (m = ".." => InTree(x)')
        BY <3>1 DEF LinkSet
      <4>2. CASE x = d /\ m = n
        BY <4>1, <4>2, <2>e
      <4>3. CASE x = i /\ m = ".."
        BY <4>1, <4>3, <2>e, <1>l, Procs0
      <4>4. CASE ~(x = d /\ m = n) /\ ~(x = i /\ m = "..")
        <5>1. ents[x][m] = j
          BY <4>1, <4>4, <2>e
        <5>2. m = ".." => InTree(x)
          BY <4>1, <4>4, <3>0
        <5> QED BY <4>1, <5>1, <5>2 DEF LinkSet
      <4> QED BY <4>2, <4>3, <4>4
    <3>2. ASSUME NEW j \in Inodes PROVE nlink'[j] >= Cardinality(LinkSet(j)') + Cardinality(Pend(j)')
      <4>0. ~Links1(p, j)'
        BY <2>2, <1>k DEF Links1, Pos, Iputting
      <4>1. Pend(j)' \subseteq Pend(j)
        BY <4>0, <1>0, PendsOf
      <4>2. CASE j = i
        <5>1. LinkSet(j)' \subseteq {} \union {<<d, n>>} /\ Pend(j)' = {}
          BY <4>1, <4>2, <3>1, <1>e, <1>l
        <5>2. Cardinality(LinkSet(j)') \in Nat /\ Cardinality(LinkSet(j)') <= Cardinality({}) + 1
          BY <5>1, AddsOne, FS_EmptySet
        <5> QED BY <4>2, <5>1, <5>2, <2>n, FS_EmptySet
      <4>3. CASE j = d /\ isdir
        <5>1. LinkSet(j)' \subseteq LinkSet(j) \union {<<i, "..">>}
          BY <4>3, <3>1, <1>l
        <5>2. Cardinality(LinkSet(j)') \in Nat /\ Cardinality(LinkSet(j)') <= Cardinality(LinkSet(j)) + 1
          BY <5>1, AddsOne, LinksFinite
        <5>3. Cardinality(Pend(j)') \in Nat /\ Cardinality(Pend(j)') <= Cardinality(Pend(j))
          BY <4>1, Shrinks, LinksFinite
        <5>4. nlink'[j] = nlink[j] + 1 /\ nlink[j] \in Int /\ nlink[j] >= Cardinality(LinkSet(j)) + Cardinality(Pend(j))
          BY <4>3, <1>0, <1>l, <2>n DEF Typed, TypedInodes, TreeInv, Counted
        <5> QED BY <5>2, <5>3, <5>4, LinksFinite
      <4>4. CASE j # i /\ ~(j = d /\ isdir)
        <5>1. LinkSet(j)' \subseteq LinkSet(j)
          BY <4>4, <3>1
        <5>2. nlink'[j] >= nlink[j]
          BY <4>4, <1>0, <2>n DEF Typed, TypedInodes
        <5> QED BY <1>0, <4>1, <5>1, <5>2, CountShrinks DEF TreeInv
      <4> QED BY <4>2, <4>3, <4>4
    <3> QED BY <3>2 DEF Counted
  <2>t. Shape'
    <3>0. i # ROOTINO
      BY <1>0, <1>f, RootHas DEF TreeInv
    <3>1. type'[ROOTINO] = "dir" /\ ents'[ROOTINO][".."] = ROOTINO
      <4>1. ents'[ROOTINO][".."] = ents[ROOTINO][".."]
        BY <1>n, <2>e, <3>0, Procs0
      <4> QED BY <4>1, <1>1 DEF TreeInv, Shape
    <3>2. ASSUME NEW x \in Inodes, type'[x] # "dir" PROVE ents'[x] = NoEntries
      <4>1. x # d
        BY <3>2, <1>1, <1>f
      <4>2. CASE x = i
        <5>1. ~isdir
          BY <3>2, <4>2, <1>1, <1>f
        <5>2. \A m \in Entries : ents'[i][m] = 0
          BY <5>1, <2>e, <2>z, <1>k, <1>l
        <5>3. ents'[i] \in [Entries -> 0..NINODES]
          BY <1>0, <1>k DEF Typed, TypedInodes
        <5> QED BY <4>2, <5>2, <5>3 DEF NoEntries
      <4> QED BY <3>2, <4>1, <4>2, <1>1, <2>e DEF TreeInv, Shape
    <3>3. \A x \in Inodes, m \in Names : ents'[x][m] # ROOTINO
      BY <2>e, <3>0, <1>n, <1>k, InodeAssumption DEF TreeInv, Shape, Entries
    <3>4. ASSUME NEW x \in Inodes, NEW j \in Inodes, NEW m \in Names, ents'[x][m] = j
          PROVE  \/ x = d /\ m = n /\ j = i
                 \/ ents[x][m] = j /\ j # i /\ ~(x = d /\ m = n)
      <4>1. m \in Entries /\ m # ".."
        BY InodeAssumption DEF Entries
      <4> QED BY <3>4, <4>1, <2>e, <1>m
    <3>5. ASSUME NEW x \in Inodes, NEW j \in Inodes, NEW m \in Names, ents'[x][m] = j, type'[j] = "dir"
          PROVE  /\ ents'[j][".."] = x
                 /\ \A y \in Inodes, l \in Names : ents'[y][l] = j => y = x /\ l = m
      <4>1. CASE x = d /\ m = n /\ j = i
        <5>1. ents'[j][".."] = x
          <6>1. isdir
            BY <3>5, <4>1, <1>1, <1>f
          <6>2. ents'[i][".."] = IF isdir THEN d ELSE 0
            BY <2>e, <1>k, <1>n, <1>l
          <6> QED BY <4>1, <6>1, <6>2
        <5>2. \A y \in Inodes, l \in Names : ents'[y][l] = j => y = x /\ l = m
          BY <4>1, <3>4
        <5> QED BY <5>1, <5>2
      <4>2. CASE ents[x][m] = j /\ j # i /\ ~(x = d /\ m = n)
        <5>1. type[j] = "dir"
          BY <3>5, <1>1
        <5>2. ents[j][".."] = x /\ \A y \in Inodes, l \in Names : ents[y][l] = j => y = x /\ l = m
          BY <4>2, <5>1 DEF TreeInv, Shape
        <5>3. ents'[j][".."] = x
          BY <5>2, <4>2, <2>e, <1>n
        <5>4. \A y \in Inodes, l \in Names : ents'[y][l] = j => y = x /\ l = m
          BY <4>2, <5>2, <3>4
        <5> QED BY <5>3, <5>4
      <4> QED BY <3>4, <3>5, <4>1, <4>2
    <3> QED BY <3>1, <3>2, <3>3, <3>5 DEF Shape
  <2> QED BY <1>0, <1>r, <2>l, <2>i, <2>a, <2>h, <2>c, <2>t, Assemble
<1>2. CASE /\ tgt' = [tgt EXCEPT ![p] = 0]
           /\ Put(p, i, "create_fail")
           /\ UNCHANGED <<nlink, ents, lock, ip>>
           /\ UNCHANGED <<type, files, args>>
  <2>2. /\ cwd'[p] = cwd[p] /\ fd'[p] = fd[p] /\ ip'[p] = d /\ tgt'[p] = 0 /\ put'[p] = i
        /\ pc'[p] = "iput" /\ next'[p] = "create_fail" /\ path'[p] = path[p] /\ path2'[p] = path2[p]
        /\ call'[p] = call[p]
    BY <1>0, <1>2 DEF Put, files, args, Typed, TypedProcs, TypedPc
  <2>q. \A j : Pending(j)' => Pending(j) /\ j # i
    BY <1>q, <2>2
  <2>l. GentleLocks(p)
    BY <1>2 DEF GentleLocks
  <2>i. GentleInodes(p)
    BY <1>2, <2>q DEF GentleInodes
  <2>a. Actor(p)'
    <3>1. \A j \in Inodes : lock'[j] = p <=> Holds(p, j)'
      BY <1>0, <1>2, <1>l, <2>2 DEF Holds, Pos, Iputting, Locking
    <3>2. ASSUME NEW j \in Inodes, Uses(p, j)' PROVE type'[j] # "free" /\ ~Pending(j)'
      <4>1. Uses(p, j) \/ j = i
        BY <3>2, <2>2, Procs0 DEF Uses, Held
      <4> QED BY <4>1, <1>0, <1>2, <1>f, <2>q DEF Actor
    <3>3. Knows(p)'
      BY <1>0, <2>2 DEF Actor, Knows, Naming
    <3> QED BY <3>1, <3>2, <3>3 DEF Actor
  <2>h. Fresh'
    BY <1>0, <1>2, <2>2, FreshKept
  <2>c. Counted'
    <3>1. ASSUME NEW j \in Inodes PROVE nlink'[j] >= Cardinality(LinkSet(j)') + Cardinality(Pend(j)')
      <4>1. LinkSet(j)' = LinkSet(j)
        BY <1>2 DEF LinkSet, InTree
      <4>2. Pend(j)' \subseteq Pend(j)
        BY <1>0, <2>2, PendsOf, Procs0 DEF Links1
      <4>3. nlink'[j] >= nlink[j]
        BY <1>0, <1>2 DEF Typed, TypedInodes
      <4> QED BY <1>0, <4>1, <4>2, <4>3, CountShrinks DEF TreeInv
    <3> QED BY <3>1 DEF Counted
  <2>t. Shape'
    BY <1>2 DEF TreeInv, Shape
  <2> QED BY <1>0, <1>r, <2>l, <2>i, <2>a, <2>h, <2>c, <2>t, Assemble
<1> QED BY <1>1, <1>2 DEF CreateLink, iget

LEMMA UnlinkChildTree ==
    ASSUME RefInv, TreeInv, NEW p \in Procs, Kept(p), UnlinkChild(p)
    PROVE  Panic \/ TreeInv'
<1> SUFFICES ASSUME ~Panic PROVE TreeInv'
  OBVIOUS
<1>0. Typed /\ Typed' /\ OthersSame(p) /\ Control(p) /\ Actor(p)
  BY DEF RefInv, ControlInv, TreeInv, Kept
<1> DEFINE d == ip[p]
           n == Head(path[p])
           i == tgt[p]
           isdir == type[i] = "dir"
<1>p. pc[p] = "unlink_child" /\ lock[i] = NoProc
  BY DEF UnlinkChild, ilock, Unlocked
<1>k. d \in Inodes /\ i \in Inodes /\ put[p] = 0 /\ call[p] = "unlink" /\ Uses(p, d) /\ Uses(p, i)
  BY <1>0, <1>p DEF Control, Pos, Iputting, WithDir, WithTarget, Typed, TypedProcs, Inodes, Uses, Held
<1>l. lock[d] = p /\ d # i /\ \A j \in Inodes : lock[j] = p => j = d
  BY <1>0, <1>p, <1>k, Procs0 DEF Actor, Holds, Pos, Iputting, Locking
<1>n. n \in Names /\ n \in Entries /\ n # ".." /\ ".." \in Entries
  BY <1>0, <1>p, NameAndRest, InodeAssumption DEF Actor, Knows, Control, Naming, Entries
<1>f. /\ type[d] = "dir" /\ ~Pending(d) /\ type[i] # "free" /\ ~Pending(i) /\ ents[d][n] = i
  BY <1>0, <1>p, <1>k DEF Actor, Knows, Naming
<1>1. CASE /\ tgt' = [tgt EXCEPT ![p] = 0]
           /\ Put(p, i, "unlink_bad")
           /\ UNCHANGED <<inodes, ref, lock, files, args, ip>>
  BY <1>1, <1>p, NotEmptyQuiet, QuietKeeps
<1>2. CASE /\ ents' = [ents EXCEPT ![d][n] = 0]
           /\ nlink' = [nlink EXCEPT ![d] = IF isdir THEN @ - 1 ELSE @]
           /\ lock' = [lock EXCEPT ![d] = NoProc, ![i] = p]
           /\ ip' = [ip EXCEPT ![p] = 0]
           /\ Put(p, d, "unlink_dec")
           /\ UNCHANGED <<tgt, type, ref, files, args>>
  <2>2. /\ cwd'[p] = cwd[p] /\ fd'[p] = fd[p] /\ ip'[p] = 0 /\ tgt'[p] = i /\ put'[p] = d
        /\ pc'[p] = "iput" /\ next'[p] = "unlink_dec" /\ path'[p] = path[p] /\ path2'[p] = path2[p]
        /\ call'[p] = call[p]
    BY <1>0, <1>2 DEF Put, files, args, Typed, TypedProcs, TypedPc
  <2>e. /\ \A x \in Inodes, m \in Entries : ents'[x][m] = IF x = d /\ m = n THEN 0 ELSE ents[x][m]
        /\ \A x \in Inodes : x # d => ents'[x] = ents[x]
    BY <1>0, <1>2, <1>k, <1>n DEF Typed, TypedInodes
  <2>n. \A j \in Inodes : nlink'[j] = IF j = d /\ isdir THEN nlink[j] - 1 ELSE nlink[j]
    BY <1>0, <1>2, <1>k DEF Typed, TypedInodes
  <2>k. \A j \in Inodes : lock'[j] = IF j = i THEN p ELSE IF j = d THEN NoProc ELSE lock[j]
    BY <1>0, <1>2, <1>k DEF Typed, TypedTable
  <2>z. \A x, j \in Inodes, m \in Entries : ents'[x][m] = j => ents[x][m] = j /\ ~(x = d /\ m = n)
    BY <2>e, Procs0
  <2>w. \A m \in Names : m \in Entries /\ m # ".."
    BY InodeAssumption DEF Entries
  <2>q. \A j : Pending(j)' => Pending(j)
    BY <1>0, <2>2, FewerPending
  <2>r. GentleRefs(p)
    BY <1>2 DEF GentleRefs
  <2>l. GentleLocks(p)
    BY <1>p, <1>l, <2>k, Procs0 DEF GentleLocks
  <2>i. GentleInodes(p)
    BY <1>2, <1>l, <2>e, <2>n, <2>q DEF GentleInodes, Touches
  <2>a. Actor(p)'
    <3>1. \A j \in Inodes : lock'[j] = p <=> Holds(p, j)'
      BY <1>l, <2>2, <2>k, Procs0 DEF Holds, Pos, Iputting, Locking
    <3>2. ASSUME NEW j \in Inodes, Uses(p, j)' PROVE type'[j] # "free" /\ ~Pending(j)'
      <4>1. Uses(p, j)
        BY <3>2, <2>2, <1>k, <1>p, Procs0 DEF Uses, Held
      <4> QED BY <4>1, <1>0, <1>2, <2>q DEF Actor
    <3>3. Knows(p)'
      BY <1>0, <1>k, <2>2 DEF Actor, Knows, Naming
    <3> QED BY <3>1, <3>2, <3>3 DEF Actor
  <2>h. Fresh'
    <3>1. ASSUME NEW j \in Inodes, Pending(j)' \/ type[j] = "free" PROVE nlink'[j] = nlink[j] /\ ents'[j] = ents[j]
      BY <3>1, <2>q, <2>e, <2>n, <1>f
    <3> QED BY <3>1, <1>0, <1>2, <2>2, FreshKept
  <2>c. Counted'
    <3>0. ASSUME NEW x \in Inodes, InTree(x)' PROVE InTree(x)
      BY <3>0, <2>z, <2>w DEF InTree
    <3>1. ASSUME NEW j \in Inodes, NEW en \in LinkSet(j)'
          PROVE  en \in LinkSet(j) /\ en # <<d, n>> /\ (en[2] = ".." => InTree(en[1])')
      <4>1. PICK x \in Inodes, m \in Entries : en = <<x, m>> /\ ents'[x][m] = j /\ (m = ".." => InTree(x)')
        BY <3>1 DEF LinkSet
      <4>2. ents[x][m] = j /\ ~(x = d /\ m = n) /\ (m = ".." => InTree(x))
        BY <4>1, <3>0, <2>z
      <4> QED BY <4>1, <4>2 DEF LinkSet
    \* A directory that has lost its name is no longer in the tree.
    <3>t. ASSUME NEW x \in Inodes, x = i, isdir PROVE ents[x][".."] = d /\ InTree(x) /\ ~InTree(x)'
      <4>1. i # ROOTINO
        BY <1>k, <1>n, <1>f DEF TreeInv, Shape
      <4>2. InTree(i)
        BY <1>k, <1>n, <1>f DEF InTree
      <4>3. ents[i][".."] = d /\ \A y \in Inodes, m \in Names : ents[y][m] = i => y = d /\ m = n
        BY <3>t, <1>k, <1>n, <1>f DEF TreeInv, Shape
      <4>4. \A y \in Inodes, m \in Names : ents'[y][m] # i
        BY <4>3, <2>z, <2>w, <1>k
      <4> QED BY <3>t, <4>1, <4>2, <4>3, <4>4 DEF InTree
    <3>2. ASSUME NEW j \in Inodes PROVE nlink'[j] >= Cardinality(LinkSet(j)') + Cardinality(Pend(j)')
      <4>2. CASE j = i
        <5>1. LinkSet(j)' \subseteq LinkSet(j) \ {<<d, n>>} /\ <<d, n>> \in LinkSet(j)
          BY <4>2, <3>1, <1>k, <1>n, <1>f DEF LinkSet
        <5>2. Cardinality(LinkSet(j)') \in Nat /\ Cardinality(LinkSet(j)') + 1 <= Cardinality(LinkSet(j))
          BY <5>1, DropsOne, LinksFinite
        <5>3. Pend(j)' \subseteq Pend(j) \union {p}
          BY <1>0, PendsOf
        <5>4. Cardinality(Pend(j)') \in Nat /\ Cardinality(Pend(j)') <= Cardinality(Pend(j)) + 1
          BY <5>3, AddsOne, LinksFinite
        <5>5. nlink'[j] = nlink[j] /\ nlink[j] \in Int /\ nlink[j] >= Cardinality(LinkSet(j)) + Cardinality(Pend(j))
          BY <4>2, <1>0, <1>l, <2>n DEF Typed, TypedInodes, TreeInv, Counted
        <5> QED BY <5>2, <5>4, <5>5, LinksFinite
      <4>p. ASSUME j # i PROVE Pend(j)' \subseteq Pend(j)
        BY <4>p, <1>0, <2>2, PendsOf DEF Links1
      <4>3. CASE j = d /\ isdir
        <5>0. <<i, "..">> \in LinkSet(j)
          BY <4>3, <3>t, <1>k, <1>n DEF LinkSet
        <5>1. LinkSet(j)' \subseteq LinkSet(j) \ {<<i, "..">>}
          BY <4>3, <3>1, <3>t, <1>k
        <5>2. Cardinality(LinkSet(j)') \in Nat /\ Cardinality(LinkSet(j)') + 1 <= Cardinality(LinkSet(j))
          BY <5>0, <5>1, DropsOne, LinksFinite
        <5>3. Cardinality(Pend(j)') \in Nat /\ Cardinality(Pend(j)') <= Cardinality(Pend(j))
          BY <4>p, <4>3, <1>l, Shrinks, LinksFinite
        <5>4. nlink'[j] = nlink[j] - 1 /\ nlink[j] \in Int /\ nlink[j] >= Cardinality(LinkSet(j)) + Cardinality(Pend(j))
          BY <4>3, <1>0, <2>n DEF Typed, TypedInodes, TreeInv, Counted
        <5> QED BY <5>2, <5>3, <5>4, LinksFinite
      <4>4. CASE j # i /\ ~(j = d /\ isdir)
        <5>1. LinkSet(j)' \subseteq LinkSet(j)
          BY <3>1
        <5>2. nlink'[j] >= nlink[j]
          BY <4>4, <1>0, <2>n DEF Typed, TypedInodes
        <5> QED BY <1>0, <4>p, <4>4, <5>1, <5>2, CountShrinks DEF TreeInv
      <4> QED BY <4>2, <4>3, <4>4
    <3> QED BY <3>2 DEF Counted
  <2>t. Shape'
    <3>1. type'[ROOTINO] = "dir" /\ ents'[ROOTINO][".."] = ROOTINO
      <4>1. ents'[ROOTINO][".."] = ents[ROOTINO][".."]
        BY <1>n, <2>e, Procs0
      <4> QED BY <4>1, <1>2 DEF TreeInv, Shape
    <3>2. \A x \in Inodes : type'[x] # "dir" => ents'[x] = NoEntries
      BY <1>2, <1>f, <2>e DEF TreeInv, Shape
    <3>3. \A x \in Inodes, m \in Names : ents'[x][m] # ROOTINO
      BY <2>z, <2>w, Procs0 DEF TreeInv, Shape
    <3>d. \A j \in Inodes : ents'[j][".."] = ents[j][".."]
      BY <1>n, <2>e
    <3>4. \A x, j \in Inodes, m \in Names : ents'[x][m] = j /\ type'[j] = "dir" =>
             /\ ents'[j][".."] = x
             /\ \A y \in Inodes, l \in Names : ents'[y][l] = j => y = x /\ l = m
      BY <1>2, <2>z, <2>w, <3>d DEF TreeInv, Shape
    <3> QED BY <3>1, <3>2, <3>3, <3>4 DEF Shape
  <2> QED BY <1>0, <2>r, <2>l, <2>i, <2>a, <2>h, <2>c, <2>t, Assemble
<1> QED BY <1>1, <1>2 DEF UnlinkChild, ilock, inodes

\* The root directory is the one that mkfs makes, and nobody is in a call.
LEMMA TreeInit == Init => TreeInv
<1> SUFFICES ASSUME Init PROVE TreeInv
  OBVIOUS
<1>0. Typed
  BY RefInit DEF RefInv
<1>d. ".." \in Entries /\ \A m \in Names : m \in Entries /\ m # ".."
  BY InodeAssumption DEF Entries
<1>e. \A x \in Inodes, m \in Entries : ents[x][m] = IF x = ROOTINO /\ m = ".." THEN ROOTINO ELSE 0
  BY <1>d DEF Init, NoEntries
<1>c. \A p \in Procs : /\ pc[p] = "idle" /\ next[p] = "idle" /\ call[p] = "none" /\ tgt[p] = 0 /\ ip[p] = 0
                        /\ put[p] = 0 /\ fd[p] = 0 /\ cwd[p] = ROOTINO /\ path[p] = <<>> /\ path2[p] = <<>>
  BY DEF Init
<1>i. \A j \in Inodes : /\ type[j] = (IF j = ROOTINO THEN "dir" ELSE "free")
                        /\ nlink[j] = (IF j = ROOTINO THEN 1 ELSE 0)
                        /\ j # ROOTINO => ents[j] = NoEntries
                        /\ lock[j] = NoProc /\ ~Pending(j)
  BY <1>c, Procs0 DEF Init, Pending
<1>1. ASSUME NEW p \in Procs PROVE Actor(p)
  <2>1. \A j \in Inodes : lock[j] = p <=> Holds(p, j)
    BY <1>c, <1>i, Procs0 DEF Holds, Pos, Iputting, Locking
  <2>2. \A j \in Inodes : Uses(p, j) => type[j] # "free" /\ ~Pending(j)
    BY <1>c, <1>i, Procs0 DEF Uses, Held
  <2>3. Knows(p)
    <3>1. <<>> \in Seq(Names) /\ Elements(<<>>) = <<>>
      BY DEF Elements
    <3> QED BY <1>c, <3>1 DEF Knows, Naming
  <2> QED BY <2>1, <2>2, <2>3 DEF Actor
<1>2. Fresh
  BY <1>c, <1>i DEF Fresh
<1>3. Counted
  <2>1. ASSUME NEW j \in Inodes PROVE nlink[j] >= Cardinality(LinkSet(j)) + Cardinality(Pend(j))
    <3>1. Pend(j) = {}
      BY <1>c, Procs0 DEF Pend, Links1
    <3>2. LinkSet(j) \subseteq {} \union {<<ROOTINO, "..">>} /\ (j # ROOTINO => LinkSet(j) = {})
      BY <1>e, Procs0 DEF LinkSet
    <3>3. Cardinality({}) = 0 /\ IsFiniteSet({})
      BY FS_EmptySet
    <3>4. Cardinality(LinkSet(j)) \in Nat /\ Cardinality(LinkSet(j)) <= Cardinality({}) + 1
      BY <3>2, <3>3, AddsOne
    <3>5. CASE j = ROOTINO
      <4>1. nlink[j] = 1 /\ Cardinality(Pend(j)) = 0 /\ Cardinality(LinkSet(j)) <= 1
        BY <1>i, <3>1, <3>3, <3>4, <3>5
      <4> QED BY <3>4, <4>1
    <3>6. CASE j # ROOTINO
      <4>1. nlink[j] = 0 /\ Cardinality(Pend(j)) = 0 /\ Cardinality(LinkSet(j)) = 0
        BY <1>i, <3>1, <3>2, <3>3, <3>6
      <4> QED BY <4>1
    <3> QED BY <3>5, <3>6
  <2> QED BY <2>1 DEF Counted
<1>4. Shape
  <2>1. type[ROOTINO] = "dir" /\ ents[ROOTINO][".."] = ROOTINO
    BY <1>i, <1>e, <1>d, Procs0
  <2>2. \A x \in Inodes, m \in Names : ents[x][m] = 0
    BY <1>e, <1>d
  <2> QED BY <2>1, <2>2, <1>i, Procs0 DEF Shape
<1> QED BY <1>1, <1>2, <1>3, <1>4 DEF TreeInv

\* What ireclaim() frees has no links, so no entry names it.
LEMMA CrashTree ==
    ASSUME RefInv, TreeInv, Crash
    PROVE  TreeInv'
<1>0. Typed /\ Typed'
  BY CrashRefs DEF RefInv
<1>c. \A p \in Procs : pc[p] = "idle" /\ ip[p] = 0 /\ tgt[p] = 0 /\ put[p] = 0
  BY DEF Crash, RefInv, ControlInv, Control, Pos, Iputting, WithDir, WithTarget, Walking
<1> DEFINE orphan(j) == type[j] # "free" /\ nlink[j] = 0
<1>1. /\ \A j \in Inodes : /\ type'[j] = (IF orphan(j) THEN "free" ELSE type[j])
                           /\ ents'[j] = (IF orphan(j) THEN NoEntries ELSE ents[j])
      /\ nlink' = nlink /\ lock' = lock
  BY DEF Crash
<1>2. \A p \in Procs : /\ cwd'[p] = ROOTINO /\ fd'[p] = 0
                       /\ ip'[p] = 0 /\ tgt'[p] = 0 /\ put'[p] = 0 /\ pc'[p] = "idle"
                       /\ path'[p] = path[p] /\ path2'[p] = path2[p]
  BY <1>c DEF Crash, args
<1>r. ~orphan(ROOTINO) /\ type[ROOTINO] = "dir"
  BY <1>0, RootHas DEF TreeInv, Shape
<1> HIDE DEF orphan
<1>q. \A j : ~Pending(j)'
  BY <1>2 DEF Pending
<1>z. \A x, j \in Inodes, m \in Entries : ents'[x][m] = j => ents[x][m] = j /\ ents'[x] = ents[x]
  BY <1>1, Procs0 DEF NoEntries
<1>w. ".." \in Entries /\ \A m \in Names : m \in Entries /\ m # ".."
  BY InodeAssumption DEF Entries
<1>a. ASSUME NEW p \in Procs PROVE Actor(p)'
  <2>1. \A j \in Inodes : lock'[j] = p <=> Holds(p, j)'
    BY <1>c, <1>1, <1>2 DEF TreeInv, Actor, Holds, Pos, Iputting, Locking
  <2>2. \A j \in Inodes : Uses(p, j)' => type'[j] # "free" /\ ~Pending(j)'
    BY <1>1, <1>2, <1>r, <1>q, Procs0 DEF Uses, Held
  <2>3. Knows(p)'
    BY <1>2 DEF TreeInv, Actor, Knows, Naming
  <2> QED BY <2>1, <2>2, <2>3 DEF Actor
<1>h. Fresh'
  <2>1. \A j \in Inodes : type'[j] = "free" \/ Pending(j)' => nlink'[j] = 0 /\ ents'[j] = NoEntries
    BY <1>1, <1>q DEF TreeInv, Fresh, orphan
  <2>2. \A r, q \in Procs : pc'[r] = "create_link" /\ pc'[q] = "create_link" /\ tgt'[r] = tgt'[q] => r = q
    BY <1>2
  <2> QED BY <2>1, <2>2 DEF Fresh
<1>d. Counted'
  <2>1. ASSUME NEW x \in Inodes, InTree(x)' PROVE InTree(x)
    BY <2>1, <1>z, <1>w DEF InTree
  <2>2. ASSUME NEW j \in Inodes PROVE nlink'[j] >= Cardinality(LinkSet(j)') + Cardinality(Pend(j)')
    <3>1. LinkSet(j)' \subseteq LinkSet(j)
      <4> SUFFICES ASSUME NEW en \in LinkSet(j)' PROVE en \in LinkSet(j)
        OBVIOUS
      <4>1. PICK x \in Inodes, m \in Entries : en = <<x, m>> /\ ents'[x][m] = j /\ (m = ".." => InTree(x)')
        BY DEF LinkSet
      <4> QED BY <4>1, <2>1, <1>z DEF LinkSet
    <3>2. Pend(j)' \subseteq Pend(j)
      BY <1>2, Procs0 DEF Pend, Links1
    <3>3. nlink'[j] >= nlink[j]
      BY <1>0, <1>1 DEF Typed, TypedInodes
    <3> QED BY <1>0, <3>1, <3>2, <3>3, CountShrinks DEF TreeInv
  <2> QED BY <2>2 DEF Counted
<1>s. Shape'
  <2>1. type'[ROOTINO] = "dir" /\ ents'[ROOTINO][".."] = ROOTINO
    BY <1>1, <1>r, Procs0 DEF TreeInv, Shape
  <2>2. \A x \in Inodes : type'[x] # "dir" => ents'[x] = NoEntries
    BY <1>1 DEF TreeInv, Shape
  <2>3. \A x \in Inodes, m \in Names : ents'[x][m] # ROOTINO
    BY <1>z, <1>w, Procs0 DEF TreeInv, Shape
  <2>4. ASSUME NEW x \in Inodes, NEW j \in Inodes, NEW m \in Names, ents'[x][m] = j, type'[j] = "dir"
        PROVE  /\ ents'[j][".."] = x
               /\ \A y \in Inodes, l \in Names : ents'[y][l] = j => y = x /\ l = m
    <3>1. ents[x][m] = j /\ type[j] = "dir" /\ ents'[j] = ents[j]
      BY <2>4, <1>z, <1>w, <1>1
    <3>2. ents[j][".."] = x /\ \A y \in Inodes, l \in Names : ents[y][l] = j => y = x /\ l = m
      BY <3>1 DEF TreeInv, Shape
    <3> QED BY <3>1, <3>2, <1>z, <1>w
  <2> QED BY <2>1, <2>2, <2>3, <2>4 DEF Shape
<1> QED BY <1>a, <1>h, <1>d, <1>s DEF TreeInv

LEMMA FrozenTree ==
    ASSUME RefInv, TreeInv, UNCHANGED <<inodes, table, files, pc, args, ip, tgt, put, next>>
    PROVE  TreeInv'
<1> USE DEF inodes, table, files, args
<1>1. \A p \in Procs : Actor(p)'
  BY DEF TreeInv, Actor, Holds, Uses, Knows, Pending, Held, Pos
<1>2. Fresh'
  BY DEF TreeInv, Fresh, Pending
<1>3. \A i : LinkSet(i)' = LinkSet(i) /\ Pend(i)' = Pend(i)
  BY DEF LinkSet, InTree, Pend, Links1, Pos
<1>4. Counted'
  BY <1>3 DEF TreeInv, Counted
<1>5. Shape'
  BY DEF TreeInv, Shape
<1> QED BY <1>1, <1>2, <1>4, <1>5 DEF TreeInv

LEMMA StepTree ==
    ASSUME PlainPaths, RefInv, TreeInv, NEW p \in Procs, Step(p)
    PROVE  Panic \/ TreeInv'
<1> SUFFICES ASSUME ~Panic PROVE TreeInv'
  OBVIOUS
<1>1. Kept(p)
  BY StepKept DEF RefInv
<1>2. CASE Quiet(p)
  BY <1>1, <1>2, QuietKeeps
<1>3. CASE Call(p) \/ Close(p) \/ Namex(p)
  BY <1>2, <1>3, CallQuiet, CloseQuiet, WalkQuiet, WalkNoParentQuiet DEF Namex
<1>4. CASE Iput(p)
  BY <1>1, <1>2, <1>4, IputDropQuiet, IputDecideQuiet, IputLastQuiet, IputFreeTree DEF Iput
<1>5. CASE OpenInode(p) \/ Chdir(p) \/ PutParent(p)
  BY <1>2, <1>5, OpenInodeQuiet, ChdirQuiet, PutParentQuiet
<1>6. CASE Link(p)
  BY <1>1, <1>2, <1>6, LinkOldTree, LinkNewTree, LinkPutQuiet, LinkBadTree DEF Link
<1>7. CASE Remove(p)
  BY <1>1, <1>2, <1>7, UnlinkQuiet, UnlinkChildTree, UnlinkDecTree DEF Remove
<1>8. CASE Make(p)
  BY <1>1, <1>2, <1>8, CreateQuiet, CreateFoundQuiet, IallocTree, CreateLinkTree, CreatedQuiet DEF Make
<1> QED BY <1>3, <1>4, <1>5, <1>6, <1>7, <1>8 DEF Step

\* The inductive invariant about the tree, for programs whose paths have no "..":
\* what a process uses is neither free nor still being made, a directory has one
\* name, and links are counted before an entry is made and after it is cleared.
THEOREM TreeInvariant == ASSUME PlainPaths PROVE Spec => [](RefInv /\ TreeInv)
<1>1. RefInv /\ TreeInv /\ [Next]_vars => TreeInv'
  <2> SUFFICES ASSUME RefInv, TreeInv, [Next]_vars PROVE TreeInv'
    OBVIOUS
  <2>1. ASSUME NEW p \in Procs, Step(p) PROVE TreeInv'
    BY <2>1, StepTree, FrozenTree DEF Panic
  <2>2. CASE Crash
    BY <2>2, CrashTree
  <2>3. CASE UNCHANGED vars
    BY <2>3, FrozenTree DEF vars
  <2> QED BY <2>1, <2>2, <2>3, NextIs
<1> QED BY <1>1, RefInvariant, TreeInit, PTL DEF Spec

\* No entry dangles: with no ".." in paths, EntriesCounted holds at every moment
\* of link(), unlink(), create() and iput() by any number of processes, with
\* failures and crashes.
THEOREM EntriesAreCounted == ASSUME PlainPaths PROVE Spec => []EntriesCounted
<1>1. RefInv /\ TreeInv => EntriesCounted
  <2> SUFFICES ASSUME RefInv, TreeInv, NEW i \in Inodes, LinksTo(i) > 0
               PROVE  type[i] # "free" /\ nlink[i] >= LinksTo(i)
    BY DEF EntriesCounted
  <2>1. LinksTo(i) = Cardinality(LinkSet(i))
    BY DEF LinksTo, LinkSet
  <2>2. nlink[i] >= Cardinality(LinkSet(i)) + Cardinality(Pend(i)) /\ nlink[i] \in Int
    BY DEF RefInv, Typed, TypedInodes, TreeInv, Counted
  <2>3. nlink[i] >= LinksTo(i) /\ nlink[i] > 0
    BY <2>1, <2>2, LinksFinite
  <2> QED BY <2>3, LinkedSound DEF TreeInv
<1> QED BY <1>1, TreeInvariant, PTL

\* What iput() decided under itable.lock still holds when it frees the inode:
\* FreedUnused, for any number of processes, with no ".." in paths.
THEOREM FreedIsUnused == ASSUME PlainPaths PROVE Spec => []FreedUnused
<1>1. RefInv /\ TreeInv => FreedUnused
  <2> SUFFICES ASSUME RefInv, TreeInv, NEW p \in Procs, pc[p] = "iput_free"
               PROVE  ref[put[p]] = 1 /\ nlink[put[p]] = 0 /\ lock[put[p]] = p
    BY DEF FreedUnused
  <2>1. put[p] \in Inodes /\ ref[put[p]] = 1 /\ nlink[put[p]] = 0
    BY FreedAlone
  <2> QED BY <2>1 DEF TreeInv, Actor, Holds
<1> QED BY <1>1, TreeInvariant, PTL

=============================================================================
