-------------------------------- MODULE File --------------------------------
(***************************************************************************)
(* Open files and their contents: file descriptors and the file table      *)
(* (kernel/file.c, kernel/sysfile.c), and the blocks of an inode           *)
(* (balloc() to writei() of kernel/fs.c), under processes that share       *)
(* files, and on a disk that fills up.                                     *)
(*                                                                         *)
(* Grain of atomicity.  A critical section of ftable.lock is a step, or    *)
(* several in a row that one call makes (pipe() is two steps, as another   *)
(* call may take the last file between its two filealloc()s).  The         *)
(* sleep-lock of an inode is a variable during a write(), whose steps are  *)
(* the passes of the loop of writei(): balloc() tests and sets a bit under *)
(* the lock of the bitmap's buffer, and calls on two inodes compete for    *)
(* blocks.  A read and a truncation change nothing that others may see     *)
(* while the inode is locked, and are a step each.                         *)
(*                                                                         *)
(* Inodes are never removed here (module Inode does that), and pipes are   *)
(* ends without contents (module Pipe).                                    *)
(***************************************************************************)
EXTENDS Integers, Sequences, FiniteSets, FiniteSetsExt

CONSTANTS
    Procs,        \* the processes
    First,        \* the one that runs from the start
    None,         \* nobody
    NINODES, NFILE, NOFILE, NBLOCKS,
    NDIRECT, NINDIRECT,
    BSIZE,        \* bytes of a block (1024)
    BPB,          \* blocks whose bits are in one block of the bitmap
    MAXOPBLOCKS,  \* blocks that a transaction may write
    Counts,       \* the n arguments of read() and write()
    Modes,        \* open() modes: may it read, may it write, does it truncate
    MaxCalls      \* bound: the number of system calls

Inodes == 1..NINODES
Files == 1..NFILE
FDs == 1..NOFILE
Blocks == 1..NBLOCKS
MAXFILE == NDIRECT + NINDIRECT

\* The blocks of the bitmap with the bits of the blocks bs.
BitmapBlocks(bs) == {<<"bitmap", b \div BPB>> : b \in bs}

ASSUME FileAssumption ==
    /\ {NINODES, NFILE, NOFILE, NBLOCKS, NDIRECT, NINDIRECT, BSIZE, BPB} \subseteq Nat \ {0}
    /\ MAXOPBLOCKS \in Nat /\ MAXOPBLOCKS >= 6
    /\ First \in Procs /\ None \notin Procs
    /\ Counts \subseteq Nat
    /\ Modes \subseteq [r : BOOLEAN, w : BOOLEAN, trunc : BOOLEAN]
    /\ IsFiniteSet(Procs)
    \* itrunc() may write the whole bitmap: one block, as FSSIZE < BPB.
    /\ Cardinality(BitmapBlocks(Blocks)) < MAXOPBLOCKS

VARIABLES
    file,     \* the file table
    ofile,    \* p->ofile
    alive,    \* the processes that run
    size,     \* ip->size
    addrs,    \* ip->addrs
    ptr,      \* an indirect block's block numbers
    data,     \* a data block's bytes: the process that wrote each
    used,     \* the bitmap
    lock,     \* the holder of an inode's lock
    pc,
    fp,       \* the file of the call
    left,     \* what filewrite() has left
    n1,       \* what this writei() was asked to write
    tot,      \* and has written
    logged,   \* the blocks that the transaction has logged
    calls,    \* the number of system calls made
    wrong     \* a panic

files == <<file, ofile, alive>>
blocks == <<size, addrs, ptr, data, used>>
regs == <<fp, left, n1, tot>>
vars == <<files, blocks, lock, pc, regs, logged, calls, wrong>>

FD_NONE == [ref |-> 0, type |-> "none", ip |-> 0, off |-> 0, readable |-> FALSE,
            writable |-> FALSE]
Zeros == [k \in 0..BSIZE - 1 |-> None]
NoPtrs == [k \in 0..NINDIRECT - 1 |-> 0]
NoAddrs == [k \in 0..NDIRECT |-> 0]

\* An empty disk, and one process without open files.
Init ==
    /\ file = [f \in Files |-> FD_NONE]
    /\ ofile = [p \in Procs |-> [d \in FDs |-> 0]]
    /\ alive = {First}
    /\ size = [i \in Inodes |-> 0]
    /\ addrs = [i \in Inodes |-> NoAddrs]
    /\ ptr = [b \in Blocks |-> NoPtrs] /\ data = [b \in Blocks |-> Zeros]
    /\ used = {}
    /\ lock = [i \in Inodes |-> None]
    /\ pc = [p \in Procs |-> "user"]
    /\ fp = [p \in Procs |-> 0] /\ left = [p \in Procs |-> 0]
    /\ n1 = [p \in Procs |-> 0] /\ tot = [p \in Procs |-> 0]
    /\ logged = [p \in Procs |-> {}]
    /\ calls = 0
    /\ wrong = FALSE

At(p, l) == p \in alive /\ pc[p] = l
Goto(p, l) == pc' = [pc EXCEPT ![p] = l]

\* p makes a system call.
Call(p) == At(p, "user") /\ calls < MaxCalls /\ calls' = calls + 1

\* The inode and the offset of the call's file.
Ip(p) == file[fp[p]].ip
Off(p) == file[fp[p]].off

----------------------------------------------------------------------------
(* Descriptors and the file table *)

FreeFiles == {f \in Files : file[f].ref = 0}
FreeFDs(p) == {d \in FDs : ofile[p][d] = 0}

filedup(f) == [file EXCEPT ![f].ref = @ + 1]

\* fileclose(f) on table t: the last close frees the entry.
fileclose(t, f) ==
    [t EXCEPT ![f] = IF t[f].ref > 1 THEN [t[f] EXCEPT !.ref = @ - 1] ELSE FD_NONE]

\* The blocks of inode i, the indirect one included.
BlocksOf(i) ==
    LET direct == {addrs[i][k] : k \in 0..NDIRECT}
        b == addrs[i][NDIRECT]
    IN  (direct \union (IF b = 0 THEN {} ELSE {ptr[b][k] : k \in DOMAIN ptr[b]})) \ {0}

\* Mutant: the indirect block itself is not freed.
itrunc_KeepsIndirect(p, i) ==
    LET freed == BlocksOf(i) \ {addrs[i][NDIRECT]}
    IN  /\ used' = used \ freed
        /\ addrs' = [addrs EXCEPT ![i] = NoAddrs]
        /\ size' = [size EXCEPT ![i] = 0]
        /\ data' = [b \in Blocks |-> IF b \in freed THEN Zeros ELSE data[b]]
        /\ ptr' = [b \in Blocks |-> IF b \in freed THEN NoPtrs ELSE ptr[b]]
        /\ logged' = [logged EXCEPT ![p] = BitmapBlocks(freed) \union {<<"inode", i>>}]
        /\ wrong' = (wrong \/ ~(freed \subseteq used))

\* itrunc(i).  The contents of free blocks are immaterial: balloc() clears them.
itrunc(p, i) ==
    LET freed == BlocksOf(i)
    IN  /\ used' = used \ freed
        /\ addrs' = [addrs EXCEPT ![i] = NoAddrs]
        /\ size' = [size EXCEPT ![i] = 0]
        /\ data' = [b \in Blocks |-> IF b \in freed THEN Zeros ELSE data[b]]
        /\ ptr' = [b \in Blocks |-> IF b \in freed THEN NoPtrs ELSE ptr[b]]
        /\ logged' = [logged EXCEPT ![p] = BitmapBlocks(freed) \union {<<"inode", i>>}]
        /\ wrong' = (wrong \/ ~(freed \subseteq used))

\* open() of an inode, with its reading, writing and truncating modes.  With
\* no file, or no descriptor, it fails and has no effect.
Open(p, i, mode) ==
    /\ Call(p)
    /\ lock[i] = None
    /\ FreeFiles # {} /\ FreeFDs(p) # {}
    /\ LET f == Min(FreeFiles)
       IN  /\ file' = [file EXCEPT ![f] = [ref |-> 1, type |-> "inode", ip |-> i, off |-> 0,
                                           readable |-> mode.r, writable |-> mode.w]]
           /\ ofile' = [ofile EXCEPT ![p][Min(FreeFDs(p))] = f]
    /\ IF mode.trunc THEN itrunc(p, i) ELSE UNCHANGED <<blocks, logged, wrong>>
    /\ UNCHANGED <<alive, lock, pc, regs>>

Dup(p, d) ==
    /\ Call(p)
    /\ ofile[p][d] # 0 /\ FreeFDs(p) # {}
    /\ ofile' = [ofile EXCEPT ![p][Min(FreeFDs(p))] = ofile[p][d]]
    /\ file' = filedup(ofile[p][d])
    /\ wrong' = (wrong \/ file[ofile[p][d]].ref < 1)
    /\ UNCHANGED <<alive, blocks, lock, pc, regs, logged>>

\* pipe(): two files, the first of which waits in fp for the second (other
\* processes open and close in between)...
PipeRead(p) ==
    LET f == Min(FreeFiles)
    IN  /\ Call(p)
        /\ FreeFiles # {}
        /\ file' = [file EXCEPT ![f] = [FD_NONE EXCEPT !.ref = 1]]
        /\ fp' = [fp EXCEPT ![p] = f]
        /\ Goto(p, "pipe")
        /\ UNCHANGED <<ofile, alive, blocks, lock, left, n1, tot, logged, wrong>>

\* Mutant: without a second file, the first one is not closed.
PipeWrite_Leaks(p, copied) ==
    LET r == fp[p]
        w == Min(FreeFiles)
        d0 == Min(FreeFDs(p))
        d1 == Min(FreeFDs(p) \ {d0})
        ends == [file EXCEPT ![r].type = "pipe", ![r].readable = TRUE,
                             ![w] = [FD_NONE EXCEPT !.ref = 1, !.type = "pipe",
                                                    !.writable = TRUE]]
    IN  /\ At(p, "pipe")
        /\ IF FreeFiles = {}
           THEN UNCHANGED <<file, ofile>>
           ELSE IF Cardinality(FreeFDs(p)) < 2 \/ ~copied
           THEN file' = fileclose(fileclose(ends, r), w) /\ UNCHANGED ofile
           ELSE /\ file' = ends
                /\ ofile' = [ofile EXCEPT ![p][d0] = r, ![p][d1] = w]
        /\ fp' = [fp EXCEPT ![p] = 0]
        /\ Goto(p, "user")
        /\ UNCHANGED <<calls, alive, blocks, lock, left, n1, tot, logged, wrong>>

\* ...and two descriptors; what has been taken is given back when there is
\* no second file, no two descriptors, or nowhere to copy their numbers.
PipeWrite(p, copied) ==
    LET r == fp[p]
        w == Min(FreeFiles)
        d0 == Min(FreeFDs(p))
        d1 == Min(FreeFDs(p) \ {d0})
        ends == [file EXCEPT ![r].type = "pipe", ![r].readable = TRUE,
                             ![w] = [FD_NONE EXCEPT !.ref = 1, !.type = "pipe",
                                                    !.writable = TRUE]]
    IN  /\ At(p, "pipe")
        /\ IF FreeFiles = {}
           THEN file' = fileclose(file, r) /\ UNCHANGED ofile
           ELSE IF Cardinality(FreeFDs(p)) < 2 \/ ~copied
           THEN file' = fileclose(fileclose(ends, r), w) /\ UNCHANGED ofile
           ELSE /\ file' = ends
                /\ ofile' = [ofile EXCEPT ![p][d0] = r, ![p][d1] = w]
        /\ fp' = [fp EXCEPT ![p] = 0]
        /\ Goto(p, "user")
        /\ UNCHANGED <<calls, alive, blocks, lock, left, n1, tot, logged, wrong>>

\* close(), and each pass of the loop of kexit().
Close(p, d) ==
    /\ Call(p) \/ (At(p, "exit") /\ UNCHANGED calls)
    /\ ofile[p][d] # 0
    /\ ofile' = [ofile EXCEPT ![p][d] = 0]
    /\ file' = fileclose(file, ofile[p][d])
    /\ wrong' = (wrong \/ file[ofile[p][d]].ref < 1)
    /\ UNCHANGED <<alive, blocks, lock, pc, regs, logged>>

\* kfork(): the child q shares every open file and its offset.
Fork(p, q) ==
    LET share(f) == Cardinality({d \in FDs : ofile[p][d] = f})
    IN  /\ Call(p)
        /\ q \notin alive
        /\ alive' = alive \union {q}
        /\ ofile' = [ofile EXCEPT ![q] = ofile[p]]
        /\ file' = [f \in Files |-> [file[f] EXCEPT !.ref = @ + share(f)]]
        /\ UNCHANGED <<blocks, lock, pc, regs, logged, wrong>>

Exit(p) ==
    /\ p # First
    /\ Call(p)
    /\ Goto(p, "exit")
    /\ UNCHANGED <<files, blocks, lock, regs, logged, wrong>>

Exited(p) ==
    /\ At(p, "exit")
    /\ FreeFDs(p) = FDs
    /\ alive' = alive \ {p}
    /\ Goto(p, "user")
    /\ UNCHANGED <<calls, file, ofile, blocks, lock, regs, logged, wrong>>

----------------------------------------------------------------------------
(* read() *)

\* The block that holds block bn of inode i, 0 if none.
BlockOf(i, bn) ==
    IF bn < NDIRECT THEN addrs[i][bn]
    ELSE IF addrs[i][NDIRECT] = 0 THEN 0
    ELSE ptr[addrs[i][NDIRECT]][bn - NDIRECT]

\* fileread() of n bytes: off moves by what was read, unless copyout fails.
\* It is no transaction: a bmap() that allocated would panic in log_write().
Read(p, d, n, copied) ==
    LET f == ofile[p][d]
        i == file[f].ip
        o == file[f].off
        r == IF o > size[i] THEN 0 ELSE Min({n, size[i] - o})
    IN  /\ Call(p)
        /\ f # 0
        /\ file[f].readable /\ file[f].type = "inode"
        /\ lock[i] = None
        /\ file' = IF copied THEN [file EXCEPT ![f].off = @ + r] ELSE file
        /\ wrong' = (wrong \/ \E k \in o..o + r - 1 : BlockOf(i, k \div BSIZE) = 0)
        /\ UNCHANGED <<ofile, alive, blocks, lock, pc, regs, logged>>

----------------------------------------------------------------------------
(* write() *)

\* Mutant: the limit forgets that an allocation also writes the bitmap.
MaxWrite_NoBitmap == (MAXOPBLOCKS - 1 - 1 - 2) * BSIZE

\* The bytes that filewrite() writes in one transaction.
MaxWrite == ((MAXOPBLOCKS - 1 - 1 - 2) \div 2) * BSIZE

Write(p, d, n) ==
    LET f == ofile[p][d]
    IN  /\ Call(p)
        /\ f # 0
        /\ file[f].writable /\ file[f].type = "inode"
        /\ fp' = [fp EXCEPT ![p] = f]
        /\ left' = [left EXCEPT ![p] = n]
        /\ Goto(p, "write")
        /\ UNCHANGED <<files, blocks, lock, n1, tot, logged, wrong>>

\* begin_op(), ilock(), and the tests at the start of writei(): a file that
\* was truncated below off, or would become too large, is an error.
WriteChunk(p) ==
    LET i == Ip(p)
        n == Min({left[p], MaxWrite})
    IN  /\ At(p, "write") /\ left[p] > 0
        /\ lock[i] = None
        /\ logged' = [logged EXCEPT ![p] = {}]
        /\ IF Off(p) > size[i] \/ Off(p) + n > MAXFILE * BSIZE
           THEN /\ left' = [left EXCEPT ![p] = 0]
                /\ UNCHANGED <<lock, pc, n1, tot>>
           ELSE /\ lock' = [lock EXCEPT ![i] = p]
                /\ n1' = [n1 EXCEPT ![p] = n]
                /\ tot' = [tot EXCEPT ![p] = 0]
                /\ Goto(p, "writei")
                /\ UNCHANGED left
        /\ UNCHANGED <<calls, files, blocks, fp, wrong>>

\* balloc() with bitmap u: the first free block, 0 if there is none.
balloc(u) == IF u = Blocks THEN 0 ELSE Min(Blocks \ u)

\* bmap(i, bn): the block, the inode's addrs and the indirect block after it,
\* the bitmap, and what was logged.
bmap(i, bn) ==
    LET same(b) == [addr |-> b, a |-> addrs[i], q |-> ptr, u |-> used, log |-> {}]
        new == balloc(used)
        AtDirect(k) ==
            [addr |-> new, a |-> [addrs[i] EXCEPT ![k] = new], q |-> ptr,
             u |-> used \union {new}, log |-> BitmapBlocks({new}) \union {<<"block", new>>}]
        ind == IF addrs[i][NDIRECT] # 0 THEN same(addrs[i][NDIRECT])
               ELSE IF new = 0 THEN same(0) ELSE AtDirect(NDIRECT)
        new2 == balloc(ind.u)
    IN  IF BlockOf(i, bn) # 0 THEN same(BlockOf(i, bn))
        ELSE IF bn < NDIRECT THEN (IF new = 0 THEN same(0) ELSE AtDirect(bn))
        ELSE IF ind.addr = 0 THEN ind
        ELSE IF new2 = 0 THEN [ind EXCEPT !.addr = 0]
        ELSE [addr |-> new2, a |-> ind.a,
              q |-> [ptr EXCEPT ![ind.addr][bn - NDIRECT] = new2],
              u |-> ind.u \union {new2},
              log |-> ind.log \union BitmapBlocks({new2})
                              \union {<<"block", new2>>, <<"block", ind.addr>>}]

\* A pass of the loop of writei(): at most a block, in place.  The loop ends
\* early when the disk is full, or when copyin fails after got bytes: these
\* are in the buffer, but are not logged.
WriteBlock(p, got) ==
    LET i == Ip(p)
        o == Off(p) + tot[p]
        k == bmap(i, o \div BSIZE)
        at == o % BSIZE
        m == Min({n1[p] - tot[p], BSIZE - at})
        done == k.addr # 0 /\ got = m
    IN  /\ At(p, "writei") /\ tot[p] < n1[p]
        /\ got <= m
        /\ addrs' = [addrs EXCEPT ![i] = k.a]
        /\ ptr' = k.q
        /\ used' = k.u
        /\ logged' = [logged EXCEPT ![p] = @ \union k.log \union
                                        IF done THEN {<<"block", k.addr>>} ELSE {}]
        /\ data' = [b \in Blocks |-> IF b # k.addr THEN data[b] ELSE
                       [x \in DOMAIN data[b] |-> IF x \in at..at + got - 1 THEN p ELSE data[b][x]]]
        /\ IF done THEN tot' = [tot EXCEPT ![p] = @ + m] /\ UNCHANGED pc
           ELSE Goto(p, "writei_end") /\ UNCHANGED tot
        /\ UNCHANGED <<calls, files, size, lock, fp, left, n1, wrong>>

\* Mutant: size grows to what was asked for, not to what was written.
WriteEnd_AsAsked(p) ==
    LET i == Ip(p)
    IN  /\ At(p, "writei_end") \/ (At(p, "writei") /\ tot[p] = n1[p])
        /\ size' = [size EXCEPT ![i] = Max({@, Off(p) + n1[p]})]
        /\ logged' = [logged EXCEPT ![p] = @ \union {<<"inode", i>>}]
        /\ file' = [file EXCEPT ![fp[p]].off = @ + tot[p]]
        /\ left' = [left EXCEPT ![p] = IF tot[p] = n1[p] THEN @ - tot[p] ELSE 0]
        /\ n1' = [n1 EXCEPT ![p] = 0] /\ tot' = [tot EXCEPT ![p] = 0]
        /\ lock' = [lock EXCEPT ![i] = None]
        /\ Goto(p, "write")
        /\ UNCHANGED <<calls, ofile, alive, addrs, ptr, data, used, fp, wrong>>

\* The end of writei() and of the transaction: the size, iupdate(), off; the
\* next one follows if this one wrote all that it was asked to.
WriteEnd(p) ==
    LET i == Ip(p)
    IN  /\ At(p, "writei_end") \/ (At(p, "writei") /\ tot[p] = n1[p])
        /\ size' = [size EXCEPT ![i] = Max({@, Off(p) + tot[p]})]
        /\ logged' = [logged EXCEPT ![p] = @ \union {<<"inode", i>>}]
        /\ file' = [file EXCEPT ![fp[p]].off = @ + tot[p]]
        /\ left' = [left EXCEPT ![p] = IF tot[p] = n1[p] THEN @ - tot[p] ELSE 0]
        /\ n1' = [n1 EXCEPT ![p] = 0] /\ tot' = [tot EXCEPT ![p] = 0]
        /\ lock' = [lock EXCEPT ![i] = None]
        /\ Goto(p, "write")
        /\ UNCHANGED <<calls, ofile, alive, addrs, ptr, data, used, fp, wrong>>

WriteReturn(p) ==
    /\ At(p, "write") /\ left[p] = 0
    /\ Goto(p, "user")
    /\ fp' = [fp EXCEPT ![p] = 0]
    /\ logged' = [logged EXCEPT ![p] = {}]
    /\ UNCHANGED <<calls, files, blocks, lock, left, n1, tot, wrong>>

Next ==
    \/ \E p \in Procs, i \in Inodes, mode \in Modes : Open(p, i, mode)
    \/ \E p \in Procs, d \in FDs : Dup(p, d)
    \/ \E p \in Procs : PipeRead(p)
    \/ \E p \in Procs, copied \in BOOLEAN : PipeWrite(p, copied)
    \/ \E p \in Procs, d \in FDs : Close(p, d)
    \/ \E p, q \in Procs : Fork(p, q)
    \/ \E p \in Procs : Exit(p)
    \/ \E p \in Procs : Exited(p)
    \/ \E p \in Procs, d \in FDs, n \in Counts, copied \in BOOLEAN : Read(p, d, n, copied)
    \/ \E p \in Procs, d \in FDs, n \in Counts : Write(p, d, n)
    \/ \E p \in Procs : WriteChunk(p)
    \/ \E p \in Procs, got \in 0..BSIZE : WriteBlock(p, got)
    \/ \E p \in Procs : WriteEnd(p)
    \/ \E p \in Procs : WriteReturn(p)

Spec == Init /\ [][Next]_vars

----------------------------------------------------------------------------
\* Each block is free or belongs to one inode, in one place, although calls
\* on different inodes compete for blocks and a call may stop half-way when
\* the disk is full; and a file has all the blocks of its size, so that a
\* read, which is no transaction, never allocates one.
BlocksAccounted ==
    /\ ~wrong
    /\ used = UNION {BlocksOf(i) : i \in Inodes}
    /\ \A i, j \in Inodes : i # j => BlocksOf(i) \intersect BlocksOf(j) = {}
    /\ \A i \in Inodes : \A x, y \in 0..MAXFILE - 1 :
           BlockOf(i, x) # 0 => /\ x # y => BlockOf(i, x) # BlockOf(i, y)
                               /\ BlockOf(i, x) # addrs[i][NDIRECT]
    /\ \A i \in Inodes : \A bn \in 0..(size[i] + BSIZE - 1) \div BSIZE - 1 :
           BlockOf(i, bn) # 0

\* No transaction logs more blocks than begin_op() reserved for it, whatever
\* the alignment of the write and wherever its blocks come from.
TransactionFits == \A p \in Procs : Cardinality(logged[p]) <= MAXOPBLOCKS

\* A file's count of references is the number of descriptors for it, plus the
\* one that a pipe() in progress holds: no entry is leaked by a call that
\* fails, and none is reused while a descriptor names it.
FileRefsExact ==
    \A f \in Files :
        file[f].ref = Cardinality({c \in Procs \X FDs : ofile[c[1]][c[2]] = f})
                      + Cardinality({p \in Procs : At(p, "pipe") /\ fp[p] = f})

\* The bytes of inode i below its size.
Bytes(i) ==
    [k \in 1..size[i] |-> data[BlockOf(i, (k - 1) \div BSIZE)][(k - 1) % BSIZE]]

Abstract == INSTANCE FileContent
    WITH Writers <- Procs, MaxSize <- MAXFILE * BSIZE,
         content <- [i \in Inodes |-> Bytes(i)]

\* Through direct and indirect blocks, a file holds the bytes written to it.
FilesHoldWrites == Abstract!Spec

=============================================================================
