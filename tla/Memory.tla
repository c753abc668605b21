------------------------------- MODULE Memory -------------------------------
(***************************************************************************)
(* Physical pages and address spaces: the page allocator (kernel/kalloc.c), *)
(* page tables (kernel/vm.c), and the calls that build, copy, grow, replace *)
(* and free an address space: fork, exec, sbrk, exit and wait, and page    *)
(* faults in lazily allocated memory.                                      *)
(*                                                                         *)
(* Grain of atomicity.  kmem.lock protects one kalloc() or kfree(), so two  *)
(* calls compete for pages in the middle of either: a step is a pass of a  *)
(* loop that maps one page.  Page tables are private to their process.     *)
(*                                                                         *)
(* Page tables have the three levels of Sv39, with FANOUT entries in place *)
(* of 512; sizes are in units of which PGSIZE make a page.                 *)
(***************************************************************************)
EXTENDS Integers, Sequences, FiniteSets, FiniteSetsExt

CONSTANTS
    NPROC,     \* process slots; slot 1 is init
    NPAGES,    \* pages between end and PHYSTOP, but the kernel's page table
    FANOUT,    \* entries of a page-table page (512)
    PGSIZE,    \* units of a page (4096)
    USERSTACK, \* pages of the stack that exec() makes
    MAXARG,    \* arguments of exec()
    Programs,  \* ELF files: sequences of [vaddr, memsz, filesz, w] segments
    Sbrks,     \* the n arguments of sbrk()
    Touched,   \* the addresses that user code and system calls touch
    MaxCalls   \* bound: the number of system calls after boot

Slots == 1..NPROC
Pages == 1..NPAGES
MAXVA == FANOUT * FANOUT * FANOUT    \* in pages
TRAMPOLINE == MAXVA - 1
TRAPFRAME == TRAMPOLINE - 1
VAs == 0..MAXVA - 1

ASSUME MemoryAssumption ==
    /\ NPROC \in Nat \ {0} /\ FANOUT \in Nat \ {0, 1} /\ PGSIZE \in Nat \ {0}
    /\ USERSTACK \in Nat \ {0} /\ MAXARG \in Nat
    /\ NPAGES \in Nat /\ NPAGES > NPROC
    /\ Sbrks \subseteq Int /\ Touched \subseteq Nat

\* What kexec() checks of a program header; ExecBadHeader stands for the others.
Headers == [vaddr : Nat, memsz : Nat, filesz : Nat, w : {0, 1}]

ASSUME ProgramsAssumption ==
    \A s \in Programs :
        s \in Seq(Headers) /\ \A k \in DOMAIN s : s[k].filesz <= s[k].memsz

trampoline == NPAGES + 1    \* a page of the kernel's text

NoPte == [pa |-> 0, u |-> 0, w |-> 0]
NoTable == [root |-> 0,
            dir |-> [level \in {0, 1} |-> [k \in 0..FANOUT * FANOUT - 1 |-> 0]],
            map |-> [va \in VAs |-> NoPte]]

VARIABLES
    free,      \* kmem.freelist
    kstack,    \* the page of each slot's kernel stack
    state,     \* p->state: UNUSED, USED, RUNNABLE (or running) or ZOMBIE
    tf,        \* p->trapframe
    space,     \* p->pagetable
    sz,        \* p->sz
    mem_pc,    \* where each process is in its system call
    va,        \* the page that its loop is at
    new,       \* the page table that exec() is building
    newsz,     \* the size that exec() or growproc() is building
    prog,      \* the segments that exec() has still to load
    argv,      \* the pages with the arguments of exec()
    child,     \* the slot that fork() is filling
    before,    \* the permissions and the size when the call started (history)
    calls,     \* the number of system calls made
    wrong      \* a panic, or a page freed while it was free

table == <<state, tf, space, sz>>
regs == <<va, new, newsz, prog, argv, child, before>>
mem_vars == <<free, kstack, table, mem_pc, regs, calls, wrong>>

Perms(t) == [a \in VAs |-> [v |-> t.map[a].pa # 0, u |-> t.map[a].u, w |-> t.map[a].w]]
Image(p) == [perms |-> Perms(space[p]), sz |-> sz[p]]
NoImage == 0

----------------------------------------------------------------------------
(* kalloc.c and vm.c as functions of r: a table t, the free pages fr, the  *)
(* success ok of what was done so far, and bad when it went wrong.         *)

Make(t, fr) == [t |-> t, fr |-> fr, ok |-> TRUE, bad |-> FALSE]
Fail(r) == [r EXCEPT !.ok = FALSE]

PGROUNDUP(n) == (n + PGSIZE - 1) \div PGSIZE    \* as a number of pages
PGROUNDDOWN(n) == (n \div PGSIZE) * PGSIZE

\* Nothing in kexec() keeps a program below the trapframe.  Memory runs out first,
\* as there are fewer pages (2^15) than addresses (2^26 pages); or the programs fit.
ASSUME RoomAssumption ==
    \/ NPAGES <= TRAPFRAME
    \/ /\ USERSTACK + 1 <= TRAPFRAME
       /\ \A s \in Programs : \A k \in DOMAIN s :
             PGROUNDUP(s[k].vaddr + s[k].memsz) + USERSTACK + 1 <= TRAPFRAME

\* Which page the list returns is immaterial: some page.
kalloc(fr) == CHOOSE page \in fr : TRUE

kfree(r, pages) ==
    [r EXCEPT !.fr = @ \union pages,
              !.bad = @ \/ pages \intersect r.fr # {} \/ ~(pages \subseteq Pages)]

\* One level of walk(..., 1): the page-table page is made if it is missing.
WalkLevel(r, level, k) ==
    IF ~r.ok \/ r.t.dir[level][k] # 0 THEN r
    ELSE IF r.fr = {} THEN Fail(r)
    ELSE [r EXCEPT !.t.dir[level][k] = kalloc(r.fr), !.fr = @ \ {kalloc(@)}]

walk(r, a) == WalkLevel(WalkLevel(r, 1, a \div (FANOUT * FANOUT)), 0, a \div FANOUT)

\* mappages() of one page; bad is panic("walk") or panic("mappages: remap").
mappages(r, a, pa, u, w) ==
    IF a >= MAXVA THEN [r EXCEPT !.bad = TRUE]
    ELSE LET k == walk(r, a)
         IN  IF ~k.ok THEN k
             ELSE [k EXCEPT !.t.map[a] = [pa |-> pa, u |-> u, w |-> w],
                            !.bad = @ \/ k.t.map[a] # NoPte]

\* Mutant: the page is not freed when mappages() fails.
MapUser_Leaks(r, a, u, w) ==
    IF r.fr = {} THEN Fail(r)
    ELSE LET mem == kalloc(r.fr)
         IN  mappages([r EXCEPT !.fr = @ \ {mem}], a, mem, u, w)

\* kalloc() and mappages() of a user page, as uvmalloc(), uvmcopy() and
\* vmfault() do it.
MapUser(r, a, u, w) ==
    IF r.fr = {} THEN Fail(r)
    ELSE LET mem == kalloc(r.fr)
             k == mappages([r EXCEPT !.fr = @ \ {mem}], a, mem, u, w)
         IN  IF k.ok THEN k ELSE kfree(k, {mem})

\* uvmunmap(a, n, do_free): holes are skipped.
uvmunmap(r, a, n, do_free) ==
    LET range == a..a + n - 1
        k == [r EXCEPT !.t.map = [b \in VAs |-> IF b \in range THEN NoPte ELSE @[b]],
                       !.bad = @ \/ ~(range \subseteq VAs)]
    IN  IF do_free
        THEN kfree(k, {r.t.map[b].pa : b \in range \intersect VAs} \ {0})
        ELSE k

uvmdealloc(r, oldsz, size) ==
    IF size >= oldsz THEN r
    ELSE uvmunmap(r, PGROUNDUP(size), PGROUNDUP(oldsz) - PGROUNDUP(size), TRUE)

\* The page-table pages of t.
TablePages(t) ==
    ({t.root} \union UNION {{t.dir[level][k] : k \in DOMAIN t.dir[level]} : level \in {0, 1}})
        \ {0}

\* freewalk() of the three levels; bad is panic("freewalk: leaf").
freewalk(r) ==
    [kfree([r EXCEPT !.t = NoTable], TablePages(r.t))
        EXCEPT !.bad = @ \/ \E a \in VAs : r.t.map[a] # NoPte]

uvmfree(r, size) == freewalk(uvmunmap(r, 0, PGROUNDUP(size), TRUE))

proc_freepagetable(r, size) ==
    uvmfree(uvmunmap(uvmunmap(r, TRAMPOLINE, 1, FALSE), TRAPFRAME, 1, FALSE), size)

\* proc_pagetable() for a process with trapframe page f; uvmcreate() first.
proc_pagetable(fr, f) ==
    LET root == [NoTable EXCEPT !.root = kalloc(fr)]
        k1 == mappages(Make(root, fr \ {kalloc(fr)}), TRAMPOLINE, trampoline, 0, 0)
        k2 == mappages(k1, TRAPFRAME, f, 0, 1)
    IN  IF fr = {} THEN Fail(Make(NoTable, fr))
        ELSE IF ~k1.ok THEN uvmfree(k1, 0)
        ELSE IF ~k2.ok THEN uvmfree(uvmunmap(k2, TRAMPOLINE, 1, FALSE), 0)
        ELSE k2

----------------------------------------------------------------------------
\* Every slot gets the page of its kernel stack at boot, for good.
proc_mapstacks == [p \in Slots |-> p]

\* kinit(); proc_mapstacks(); userinit(): init has a trapframe and an empty
\* page table, and forkret() makes it kexec("/init"), not through sys_exec().
MemInit ==
    LET avail == Pages \ 1..NPROC
        k == proc_pagetable(avail \ {kalloc(avail)}, kalloc(avail))
    IN  /\ kstack = proc_mapstacks
        /\ tf = [p \in Slots |-> IF p = 1 THEN kalloc(avail) ELSE 0]
        /\ free = k.fr
        /\ wrong = k.bad
        /\ calls = 0
        /\ space = [p \in Slots |-> IF p = 1 THEN k.t ELSE NoTable]
        /\ state = [p \in Slots |-> IF p = 1 THEN "RUNNABLE" ELSE "UNUSED"]
        /\ sz = [p \in Slots |-> 0]
        /\ mem_pc = [p \in Slots |-> IF p = 1 THEN "open" ELSE "user"]
        /\ va = [p \in Slots |-> 0] /\ newsz = [p \in Slots |-> 0]
        /\ new = [p \in Slots |-> NoTable]
        /\ prog = [p \in Slots |-> <<>>]
        /\ argv = [p \in Slots |-> {}]
        /\ child = [p \in Slots |-> 0]
        /\ before = [p \in Slots |-> IF p = 1 THEN Image(1) ELSE NoImage]

MemAt(p, l) == state[p] = "RUNNABLE" /\ mem_pc[p] = l
MemGoto(p, l) == mem_pc' = [mem_pc EXCEPT ![p] = l]

\* The pages and the verdict of a computation become the kernel's.
Commit(r) == free' = r.fr /\ wrong' = (wrong \/ r.bad)

\* The registers of a call that is over.
Forget(p) ==
    /\ va' = [va EXCEPT ![p] = 0]
    /\ new' = [new EXCEPT ![p] = NoTable]
    /\ newsz' = [newsz EXCEPT ![p] = 0]
    /\ prog' = [prog EXCEPT ![p] = <<>>]
    /\ argv' = [argv EXCEPT ![p] = {}]
    /\ child' = [child EXCEPT ![p] = 0]

\* The call ends: successfully, or with -1 (then Return follows).
End(p, l) ==
    /\ MemGoto(p, l)
    /\ Forget(p)
    /\ before' = [before EXCEPT ![p] = IF l = "failed" THEN @ ELSE NoImage]

\* The call of p that failed returns to user space.
Return(p) ==
    /\ MemAt(p, "failed")
    /\ MemGoto(p, "user")
    /\ before' = [before EXCEPT ![p] = NoImage]
    /\ UNCHANGED <<calls, free, kstack, table, va, new, newsz, prog, argv, child, wrong>>

\* A process makes a system call; one without memory has no code left that could.
MemCall(p) == sz[p] > 0 /\ calls < MaxCalls /\ calls' = calls + 1

Start(p, l) ==
    /\ MemAt(p, "user")
    /\ MemCall(p)
    /\ MemGoto(p, l)
    /\ before' = [before EXCEPT ![p] = Image(p)]

----------------------------------------------------------------------------
(* sbrk() *)

\* A shrink, eager or lazy: uvmdealloc(), which ignores a size that wraps.  A
\* program may give back all it has, its text included, and can but fault then;
\* init does not.
SbrkShrink(p, n) ==
    LET size == IF sz[p] + n < 0 THEN sz[p] ELSE sz[p] + n
        k == uvmdealloc(Make(space[p], free), sz[p], size)
    IN  /\ MemAt(p, "user") /\ n < 0
        /\ p = 1 => size > 0
        /\ MemCall(p)
        /\ Commit(k)
        /\ space' = [space EXCEPT ![p] = k.t]
        /\ sz' = [sz EXCEPT ![p] = size]
        /\ UNCHANGED <<kstack, state, tf, mem_pc, regs>>

SbrkLazy(p, n) ==
    /\ MemAt(p, "user") /\ n >= 0
    /\ MemCall(p)
    /\ sz[p] + n <= TRAPFRAME * PGSIZE
    /\ sz' = [sz EXCEPT ![p] = @ + n]
    /\ UNCHANGED <<free, kstack, state, tf, space, mem_pc, regs, wrong>>

SbrkEager(p, n) ==
    /\ n > 0
    /\ sz[p] + n <= TRAPFRAME * PGSIZE
    /\ Start(p, "grow")
    /\ newsz' = [newsz EXCEPT ![p] = sz[p] + n]
    /\ va' = [va EXCEPT ![p] = PGROUNDUP(sz[p])]
    /\ UNCHANGED <<free, kstack, table, new, prog, argv, child, wrong>>

\* Mutant: what uvmalloc() has mapped stays when memory runs out.
Grow_NotUndone(p) ==
    LET k == MapUser(Make(space[p], free), va[p], 1, 1)
    IN  /\ MemAt(p, "grow")
        /\ va[p] * PGSIZE < newsz[p]
        /\ Commit(k)
        /\ space' = [space EXCEPT ![p] = k.t]
        /\ IF k.ok
           THEN /\ va' = [va EXCEPT ![p] = @ + 1]
                /\ UNCHANGED <<mem_pc, new, newsz, prog, argv, child, before>>
           ELSE End(p, "failed")
        /\ UNCHANGED <<calls, kstack, state, tf, sz>>

\* A pass of the loop of uvmalloc(); what it has mapped is taken back when
\* memory runs out.
Grow(p) ==
    LET k == MapUser(Make(space[p], free), va[p], 1, 1)
        undone == uvmdealloc(k, va[p] * PGSIZE, PGROUNDUP(sz[p]) * PGSIZE)
    IN  /\ MemAt(p, "grow")
        /\ va[p] * PGSIZE < newsz[p]
        /\ Commit(IF k.ok THEN k ELSE undone)
        /\ IF k.ok
           THEN /\ space' = [space EXCEPT ![p] = k.t]
                /\ va' = [va EXCEPT ![p] = @ + 1]
                /\ UNCHANGED <<mem_pc, new, newsz, prog, argv, child, before>>
           ELSE /\ space' = [space EXCEPT ![p] = undone.t]
                /\ End(p, "failed")
        /\ UNCHANGED <<calls, kstack, state, tf, sz>>

Grown(p) ==
    /\ MemAt(p, "grow")
    /\ va[p] * PGSIZE >= newsz[p]
    /\ sz' = [sz EXCEPT ![p] = newsz[p]]
    /\ End(p, "user")
    /\ UNCHANGED <<calls, free, kstack, state, tf, space, wrong>>

----------------------------------------------------------------------------
(* Access to user memory. *)

\* vmfault(): a page below sz that is not mapped yet.
vmfault(p, addr) ==
    LET a == addr \div PGSIZE
    IN  IF addr >= sz[p] \/ space[p].map[a] # NoPte
        THEN Fail(Make(space[p], free))
        ELSE MapUser(Make(space[p], free), a, 1, 1)

\* walkaddr() finds it, and, for a store or copyout(), PTE_W is set.
Accessible(p, addr, store) ==
    LET a == addr \div PGSIZE
    IN  a \in VAs /\ space[p].map[a].u = 1 /\ (store => space[p].map[a].w = 1)

Exits(p) ==
    /\ state' = [state EXCEPT ![p] = "ZOMBIE"]
    /\ End(p, "user")

\* User code, or a copyin(), copyout() of a call that is not modelled here, touches
\* addr: the page is mapped when it can be, and the process is killed (or the call
\* fails) otherwise.  init() does not touch what it has not got.
Touch(p, addr, store, trap) ==
    LET k == vmfault(p, IF trap THEN addr ELSE PGROUNDDOWN(addr))
    IN  /\ MemAt(p, "user")
        /\ ~Accessible(p, addr, store)
        /\ p = 1 /\ trap => k.ok
        /\ Commit(k)
        /\ space' = [space EXCEPT ![p] = k.t]
        /\ IF k.ok \/ ~trap THEN UNCHANGED <<state, mem_pc, regs>> ELSE Exits(p)
        /\ UNCHANGED <<calls, kstack, tf, sz>>

----------------------------------------------------------------------------
(* fork() *)

\* The unwinding of allocproc() and kfork(): freeproc(q), with q->sz = 0 or
\* the size of a process that has run.
freeproc(q, r) ==
    LET k == IF r.t = NoTable THEN r ELSE proc_freepagetable(r, sz[q])
    IN  /\ Commit(kfree(k, {tf[q]} \ {0}))
        /\ tf' = [tf EXCEPT ![q] = 0]
        /\ space' = [space EXCEPT ![q] = NoTable]
        /\ sz' = [sz EXCEPT ![q] = 0]
        /\ state' = [state EXCEPT ![q] = "UNUSED"]

\* allocproc(): the first free slot gets a trapframe (without a slot or a
\* page, the call has no effect)...
ForkTrapframe(p) ==
    LET unused == {q \in Slots : state[q] = "UNUSED"}
        page == kalloc(free)
    IN  /\ unused # {} /\ free # {}
        /\ Start(p, "fork_table")
        /\ free' = free \ {page}
        /\ tf' = [tf EXCEPT ![Min(unused)] = page]
        /\ state' = [state EXCEPT ![Min(unused)] = "USED"]
        /\ child' = [child EXCEPT ![p] = Min(unused)]
        /\ UNCHANGED <<kstack, space, sz, va, new, newsz, prog, argv, wrong>>

\* ...and proc_pagetable().
ForkTable(p) ==
    LET q == child[p]
        k == proc_pagetable(free, tf[q])
    IN  /\ MemAt(p, "fork_table")
        /\ IF k.ok
           THEN /\ Commit(k)
                /\ space' = [space EXCEPT ![q] = k.t]
                /\ MemGoto(p, "fork_copy")
                /\ UNCHANGED <<state, tf, sz, regs>>
           ELSE /\ freeproc(q, k)
                /\ End(p, "failed")
        /\ UNCHANGED <<kstack, calls>>

\* A pass of the loop of uvmcopy(), for the next page that is mapped.
ForkCopy(p) ==
    LET q == child[p]
        left == {a \in va[p]..PGROUNDUP(sz[p]) - 1 : space[p].map[a] # NoPte}
        a == Min(left)
        pte == space[p].map[a]
        k == MapUser(Make(space[q], free), a, pte.u, pte.w)
    IN  /\ MemAt(p, "fork_copy")
        /\ left # {}
        /\ IF k.ok
           THEN /\ Commit(k)
                /\ space' = [space EXCEPT ![q] = k.t]
                /\ va' = [va EXCEPT ![p] = a + 1]
                /\ UNCHANGED <<state, tf, sz, mem_pc, new, newsz, prog, argv, child, before>>
           ELSE /\ freeproc(q, uvmunmap(k, 0, a, TRUE))
                /\ End(p, "failed")
        /\ UNCHANGED <<kstack, calls>>

ForkCopied(p) ==
    /\ MemAt(p, "fork_copy")
    /\ \A a \in va[p]..PGROUNDUP(sz[p]) - 1 : space[p].map[a] = NoPte
    /\ sz' = [sz EXCEPT ![child[p]] = sz[p]]
    /\ MemGoto(p, "fork_run")
    /\ UNCHANGED <<calls, free, kstack, state, tf, space, regs, wrong>>

ForkRun(p) ==
    /\ MemAt(p, "fork_run")
    /\ state' = [state EXCEPT ![child[p]] = "RUNNABLE"]
    /\ End(p, "user")
    /\ UNCHANGED <<calls, free, kstack, tf, space, sz, wrong>>

----------------------------------------------------------------------------
(* exec() *)

Exec(p) ==
    /\ Start(p, "argv")
    /\ UNCHANGED <<free, kstack, table, va, new, newsz, prog, argv, child, wrong>>

\* sys_exec() frees the arguments and returns -1.
ArgvBad(p, r) == Commit(kfree(r, argv[p])) /\ End(p, "failed")

\* The label bad of kexec(), and on to sys_exec().  forkret() panics when the
\* kexec() of init, which has no memory yet, fails: it is taken to succeed.
ExecBad(p, r, size) ==
    LET k == IF r.t = NoTable THEN r ELSE proc_freepagetable(r, size)
    IN  sz[p] > 0 /\ ArgvBad(p, k) /\ UNCHANGED table

\* A pass of the loop of sys_exec() begins: fetchaddr() of the next pointer, at
\* addr.  Its copyin() allocates the page if sbrk() has only promised it, in the
\* middle of the call.
ExecFetch(p, addr) ==
    LET there == Make(space[p], free)
        k == IF Cardinality(argv[p]) >= MAXARG \/ addr >= sz[p] THEN Fail(there)
             ELSE IF Accessible(p, addr, FALSE) THEN there
             ELSE vmfault(p, PGROUNDDOWN(addr))
    IN  /\ MemAt(p, "argv")
        /\ space' = [space EXCEPT ![p] = k.t]
        /\ IF k.ok THEN Commit(k) /\ MemGoto(p, "arg") /\ UNCHANGED regs
                   ELSE ArgvBad(p, k)
        /\ UNCHANGED <<kstack, calls, state, tf, sz>>

\* The pointer is NULL, or that of one more argument; there is no page for it, or
\* fetchstr() fails, for which a promised page is not good enough.
ExecArg(p) ==
    /\ MemAt(p, "arg")
    /\ \/ /\ free # {}
          /\ argv' = [argv EXCEPT ![p] = @ \union {kalloc(free)}]
          /\ Commit(Make(0, free \ {kalloc(free)}))
          /\ MemGoto(p, "argv")
          /\ UNCHANGED <<table, va, new, newsz, prog, child, before>>
       \/ /\ MemGoto(p, "open")
          /\ UNCHANGED <<free, table, regs, wrong>>
       \/ ExecBad(p, Make(NoTable, free), 0)
    /\ UNCHANGED <<kstack, calls>>

\* kexec() finds no program.
ExecNone(p) ==
    /\ MemAt(p, "open")
    /\ ExecBad(p, Make(NoTable, free), 0)
    /\ UNCHANGED <<kstack, calls>>

\* kexec() up to its first segment.
ExecOpen(p, segments) ==
    LET k == proc_pagetable(free, tf[p])
    IN  /\ MemAt(p, "open")
        /\ IF k.ok
           THEN /\ Commit(k)
                /\ new' = [new EXCEPT ![p] = k.t]
                /\ prog' = [prog EXCEPT ![p] = segments]
                /\ MemGoto(p, "load")
                /\ UNCHANGED <<table, va, newsz, argv, child, before>>
           ELSE ExecBad(p, Make(NoTable, k.fr), 0)
        /\ UNCHANGED <<kstack, calls>>

Segment(p) == Head(prog[p])
SegmentEnd(p) == Segment(p).vaddr + Segment(p).memsz

\* A pass of uvmalloc() for exec(), on the new page table: from newsz up to
\* size, with write permission w, until va[p] gets there.
ExecMap(p, size, w) ==
    LET from == PGROUNDUP(newsz[p])
        a == Max({from, va[p]})
        k == MapUser(Make(new[p], free), a, 1, w)
        undone == uvmdealloc(k, a * PGSIZE, from * PGSIZE)
    IN  /\ a * PGSIZE < size
        /\ IF k.ok
           THEN /\ Commit(k)
                /\ new' = [new EXCEPT ![p] = k.t]
                /\ va' = [va EXCEPT ![p] = a + 1]
                /\ UNCHANGED <<table, mem_pc, newsz, prog, argv, child, before>>
           ELSE ExecBad(p, undone, newsz[p])
        /\ UNCHANGED <<kstack, calls>>

\* uvmalloc() has mapped up to size.
ExecMapped(p, size) == Max({va[p], PGROUNDUP(newsz[p])}) * PGSIZE >= size

\* A program header cannot be read, or does not make sense.
ExecBadHeader(p) ==
    /\ MemAt(p, "load") /\ prog[p] # <<>>
    /\ va[p] <= PGROUNDUP(newsz[p])
    /\ ExecBad(p, Make(new[p], free), newsz[p])
    /\ UNCHANGED <<kstack, calls>>

ExecLoad(p) ==
    /\ MemAt(p, "load") /\ prog[p] # <<>>
    /\ ExecMap(p, SegmentEnd(p), Segment(p).w)

\* The pages that loadseg() fills; bad is "loadseg: address should exist".
loadseg(p) ==
    LET s == Segment(p)
        range == s.vaddr \div PGSIZE..PGROUNDUP(s.vaddr + s.filesz) - 1
    IN  \A a \in range : new[p].map[a].u = 1

\* Mutant: sz = sz1 only after loadseg() has succeeded.
ExecLoaded_SizeLate(p) ==
    LET size == Max({SegmentEnd(p), newsz[p]})
    IN  /\ MemAt(p, "load") /\ prog[p] # <<>>
        /\ ExecMapped(p, SegmentEnd(p))
        /\ \/ /\ size # 0
              /\ newsz' = [newsz EXCEPT ![p] = size]
              /\ prog' = [prog EXCEPT ![p] = Tail(@)]
              /\ wrong' = (wrong \/ ~loadseg(p))
              /\ UNCHANGED <<free, table, mem_pc, va, new, argv, child, before>>
           \/ ExecBad(p, Make(new[p], free), newsz[p])
        /\ UNCHANGED <<kstack, calls>>

\* A segment is mapped: sz = sz1, and loadseg(), which may fail.
ExecLoaded(p) ==
    LET size == Max({SegmentEnd(p), newsz[p]})
    IN  /\ MemAt(p, "load") /\ prog[p] # <<>>
        /\ ExecMapped(p, SegmentEnd(p))
        /\ \/ /\ size # 0
              /\ newsz' = [newsz EXCEPT ![p] = size]
              /\ prog' = [prog EXCEPT ![p] = Tail(@)]
              /\ wrong' = (wrong \/ ~loadseg(p))
              /\ UNCHANGED <<free, table, mem_pc, va, new, argv, child, before>>
           \/ ExecBad(p, Make(new[p], free), size)
        /\ UNCHANGED <<kstack, calls>>

\* The size with the stack and its guard page.
StackTop(p) == (PGROUNDUP(newsz[p]) + USERSTACK + 1) * PGSIZE

ExecStack(p) ==
    /\ MemAt(p, "load") /\ prog[p] = <<>>
    /\ ExecMap(p, StackTop(p), 1)

\* The stack is mapped: uvmclear() of its guard page, the arguments are
\* copied out or do not fit, and the new image replaces the old one.
ExecCommit(p) ==
    LET top == StackTop(p)
        guard == PGROUNDUP(newsz[p])
        image == [new[p] EXCEPT !.map[guard].u = 0]
        old == proc_freepagetable(Make(space[p], free), sz[p])
    IN  /\ MemAt(p, "load") /\ prog[p] = <<>>
        /\ ExecMapped(p, top)
        /\ \/ /\ Commit(kfree([old EXCEPT !.bad = @ \/ new[p].map[guard] = NoPte], argv[p]))
              /\ space' = [space EXCEPT ![p] = image]
              /\ sz' = [sz EXCEPT ![p] = top]
              /\ End(p, "user")
              /\ UNCHANGED <<state, tf>>
           \/ ExecBad(p, Make(image, free), top)
        /\ UNCHANGED <<kstack, calls>>

----------------------------------------------------------------------------
\* exit(); and the wait() that reaps the zombie.
Exit(p) ==
    /\ MemAt(p, "user") /\ p # 1
    /\ Exits(p)
    /\ UNCHANGED <<calls, free, kstack, tf, space, sz, wrong>>

Reap(q) ==
    /\ state[q] = "ZOMBIE"
    /\ freeproc(q, Make(space[q], free))
    /\ UNCHANGED <<calls, kstack, mem_pc, regs>>

MemNext ==
    \/ \E p \in Slots : Return(p)
    \/ \E p \in Slots, n \in Sbrks : SbrkShrink(p, n)
    \/ \E p \in Slots, n \in Sbrks : SbrkLazy(p, n)
    \/ \E p \in Slots, n \in Sbrks : SbrkEager(p, n)
    \/ \E p \in Slots : Grow(p)
    \/ \E p \in Slots : Grown(p)
    \/ \E p \in Slots, addr \in Touched, store, trap \in BOOLEAN : Touch(p, addr, store, trap)
    \/ \E p \in Slots : ForkTrapframe(p)
    \/ \E p \in Slots : ForkTable(p)
    \/ \E p \in Slots : ForkCopy(p)
    \/ \E p \in Slots : ForkCopied(p)
    \/ \E p \in Slots : ForkRun(p)
    \/ \E p \in Slots : Exec(p)
    \/ \E p \in Slots, addr \in Touched : ExecFetch(p, addr)
    \/ \E p \in Slots : ExecArg(p)
    \/ \E p \in Slots : ExecNone(p)
    \/ \E p \in Slots, s \in Programs : ExecOpen(p, s)
    \/ \E p \in Slots : ExecBadHeader(p)
    \/ \E p \in Slots : ExecLoad(p)
    \/ \E p \in Slots : ExecLoaded(p)
    \/ \E p \in Slots : ExecStack(p)
    \/ \E p \in Slots : ExecCommit(p)
    \/ \E p \in Slots : Exit(p)
    \/ \E p \in Slots : Reap(p)

MemSpec == MemInit /\ [][MemNext]_mem_vars

----------------------------------------------------------------------------
\* The pages that user addresses of t map to.
UserPages(t) == {t.map[a].pa : a \in 0..TRAPFRAME - 1} \ {0}

\* Everything that holds pages, and the pages it holds.
Holders ==
    {<<"free", 0>>, <<"kstack", 0>>} \union
    {"trapframe", "table", "user", "new_table", "new_user", "argv"} \X Slots

PagesOf(h) ==
    CASE h[1] = "free" -> free
      [] h[1] = "kstack" -> {kstack[p] : p \in Slots}
      [] h[1] = "trapframe" -> {tf[h[2]]} \ {0}
      [] h[1] = "table" -> TablePages(space[h[2]])
      [] h[1] = "user" -> UserPages(space[h[2]])
      [] h[1] = "new_table" -> TablePages(new[h[2]])
      [] h[1] = "new_user" -> UserPages(new[h[2]])
      [] h[1] = "argv" -> argv[h[2]]

\* Every page is free or has exactly one holder, through every failure in the
\* middle of fork(), exec() and sbrk(): none is leaked, none is shared, no process
\* has one at two addresses, and none is in use and free.
PagesAccounted ==
    LET held == {<<h, PagesOf(h)>> : h \in Holders}
    IN  /\ UNION {x[2] : x \in held} = Pages
        /\ \A x, y \in held : x # y => x[2] \intersect y[2] = {}
        /\ \A p \in Slots :
            /\ \A a, b \in 0..TRAPFRAME - 1 :
                  space[p].map[a].pa = space[p].map[b].pa /\ a # b => space[p].map[a] = NoPte
            /\ space[p] # NoTable =>
                  /\ space[p].map[TRAPFRAME].pa = tf[p]
                  /\ space[p].map[TRAMPOLINE].pa = trampoline

\* No page is mapped over another, no page table is freed with a mapping left
\* in it, no page is freed twice, and exec() loads only into mapped pages.
NoPanic == ~wrong

\* From image i to image j, pages have been allocated that the process had been
\* promised, and nothing else has happened.
Faulted(i, j) ==
    /\ j.sz = i.sz
    /\ \A a \in VAs :
        \/ j.perms[a] = i.perms[a]
        \/ /\ ~i.perms[a].v /\ a * PGSIZE < i.sz
           /\ j.perms[a] = [v |-> TRUE, u |-> 1, w |-> 1]

\* A sbrk(), fork() or exec() that fails leaves the caller the memory it had, of
\* which exec() may have had to allocate promised pages to read its arguments; a
\* fork() that succeeds gives the child the same as its parent, holes included.
AllOrNothing ==
    \A p \in Slots :
        /\ MemAt(p, "failed") => Faulted(before[p], Image(p))
        /\ MemAt(p, "fork_run") => Image(child[p]) = Image(p)

=============================================================================
