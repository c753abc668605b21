------------------------------- MODULE Inode -------------------------------
(***************************************************************************)
(* Inodes, directories and path names (kernel/fs.c) under the system calls *)
(* of kernel/sysfile.c that create, link, remove, open and walk them, by   *)
(* several processes, with crashes.                                        *)
(*                                                                         *)
(* Grain of atomicity.  A critical section of itable.lock is a step.  An   *)
(* inode's contents are read and changed with its sleep-lock held; a       *)
(* section of a sleep-lock around at most one other such step is a step,   *)
(* a longer one has the lock in the variable lock.  iput() is at most      *)
(* three steps: the decision, the truncation and the last decrement.       *)
(*                                                                         *)
(* A changed in-memory inode is written by iupdate() before its lock is    *)
(* released, so the copies in memory and on disk are one here, except for  *)
(* the flag valid.  An entry of the inode table is named by the inode that *)
(* it holds: iget() finds the entry with ref > 0 for it, or takes a free   *)
(* one.  File contents other than directories are left out.                *)
(*                                                                         *)
(* A crash happens only between system calls: by the atomicity of the log  *)
(* (module Log) a crash at any other time leads to the disk of the last    *)
(* such moment.                                                            *)
(***************************************************************************)
EXTENDS Integers, Sequences, FiniteSets

CONSTANTS
    Procs,    \* the processes
    NoProc,   \* nobody
    NINODES,  \* inodes on the disk
    NINODE,   \* entries of the inode table
    Names,    \* names of files and directories
    Calls,    \* the system calls that programs make, besides close(): their
              \* names and their two paths.  A path is a sequence of names, of
              \* "..", and of "/" in the first place; only link() has two.
    MaxLink,  \* bound: programs do not link() when a file has so many links
    MayFail   \* may the disk or the file table be full?

CallNames == {"open_read", "open_write", "create", "mkdir", "link", "unlink", "chdir"}

Entries == Names \union {".."}
Paths == Seq(Entries \union {"/"})

\* The path elements of q that namex() walks, without the leading slash.
Elements(q) == IF q # <<>> /\ Head(q) = "/" THEN Tail(q) ELSE q

ASSUME InodeAssumption ==
    /\ NINODES \in Nat \ {0} /\ NINODE \in Nat \ {0}
    /\ NoProc \notin Procs
    /\ Names \intersect {"/", ".."} = {}
    /\ IsFiniteSet(Procs) /\ IsFiniteSet(Names)
    /\ Calls \subseteq CallNames \X Paths \X Paths
    /\ \A c \in Calls : Elements(c[2]) \in Seq(Entries) /\ Elements(c[3]) \in Seq(Entries)
    /\ MaxLink \in Nat
    /\ MayFail \in BOOLEAN

VARIABLES
    \* inodes
    type,    \* "free", "file" or "dir"
    nlink,   \* ip->nlink
    ents,    \* the entries of a directory: an inode number or 0 for each name
    \* the inode table
    ref, valid, lock,
    \* processes
    cwd,     \* p->cwd
    fd,      \* the inode of p's open file, or 0
    pc,      \* where p is
    call,    \* the system call that it is in
    path,    \* what namex() has not walked yet, then the last element alone
    path2,   \* link(): the path of the new link
    ip,      \* the inode that namex() has reached
    tgt,     \* the other inode of the call, 0 if none
    put,     \* the inode that iput() is dropping, 0 if none
    next,    \* where p goes after iput()
    panicked \* panic() has frozen the machine

inodes == <<type, nlink, ents>>
table == <<ref, valid, lock>>
args == <<call, path, path2>>
files == <<cwd, fd>>
vars == <<inodes, table, files, pc, args, ip, tgt, put, next, panicked>>

Inodes == 1..NINODES
ROOTINO == 1
NoEntries == [n \in Entries |-> 0]
PC == {"idle", "walk", "named", "iput", "iput_free", "iput_drop",
       "link_bad", "link_put", "unlink_child", "unlink_bad", "unlink_dec",
       "create_found", "create_alloc", "create_link", "create_fail", "created"}
Suffixes ==
    {<<>>} \union {SubSeq(c[n], k, Len(c[n])) : c \in Calls, n \in {2, 3}, k \in 1..3}

TypeOK ==
    /\ type \in [Inodes -> {"free", "file", "dir"}]
    /\ nlink \in [Inodes -> 0..MaxLink + Cardinality(Procs) + NINODES]
    /\ ents \in [Inodes -> [Entries -> 0..NINODES]]
    /\ ref \in [Inodes -> 0..4 * Cardinality(Procs)]
    /\ valid \in [Inodes -> {0, 1}]
    /\ lock \in [Inodes -> Procs \union {NoProc}]
    /\ cwd \in [Procs -> Inodes] /\ fd \in [Procs -> 0..NINODES]
    /\ pc \in [Procs -> PC] /\ next \in [Procs -> PC]
    /\ call \in [Procs -> CallNames \union {"close", "none"}]
    /\ path \in [Procs -> Suffixes] /\ path2 \in [Procs -> Suffixes]
    /\ ip \in [Procs -> 0..NINODES]
    /\ tgt \in [Procs -> 0..NINODES]
    /\ put \in [Procs -> 0..NINODES]
    /\ panicked \in {0, 1}

\* The disk as mkfs makes it, and every process in the root directory.
Init ==
    /\ type = [i \in Inodes |-> IF i = ROOTINO THEN "dir" ELSE "free"]
    /\ nlink = [i \in Inodes |-> IF i = ROOTINO THEN 1 ELSE 0]
    /\ ents = [i \in Inodes |-> IF i = ROOTINO THEN [NoEntries EXCEPT ![".."] = ROOTINO]
                                ELSE NoEntries]
    /\ ref = [i \in Inodes |-> IF i = ROOTINO THEN Cardinality(Procs) ELSE 0]
    /\ valid = [i \in Inodes |-> 0]
    /\ lock = [i \in Inodes |-> NoProc]
    /\ cwd = [p \in Procs |-> ROOTINO] /\ fd = [p \in Procs |-> 0]
    /\ pc = [p \in Procs |-> "idle"] /\ next = [p \in Procs |-> "idle"]
    /\ call = [p \in Procs |-> "none"]
    /\ path = [p \in Procs |-> <<>>] /\ path2 = [p \in Procs |-> <<>>]
    /\ ip = [p \in Procs |-> 0] /\ tgt = [p \in Procs |-> 0]
    /\ put = [p \in Procs |-> 0]
    /\ panicked = 0

----------------------------------------------------------------------------
(* The inode table *)

Panic ==
    /\ panicked' = 1
    /\ UNCHANGED <<inodes, table, files, pc, args, ip, tgt, put, next>>

\* iget(i), or idup(i), and then A: one more reference.  A new entry of the
\* table has still to be read from the disk.
InUse == {i \in Inodes : ref[i] > 0}
iget(i, A) == IF i \notin InUse /\ Cardinality(InUse) >= NINODE THEN Panic ELSE A
igetRef(i) == [ref EXCEPT ![i] = @ + 1]
igetValid(i) == IF i \in InUse THEN valid ELSE [valid EXCEPT ![i] = 0]

\* ilock(i) and then A: what it reads from the disk must have a type.
Unlocked(i) == lock[i] = NoProc
ilock(i, A) ==
    /\ Unlocked(i)
    /\ IF ref[i] < 1 \/ (valid[i] = 0 /\ type[i] = "free") THEN Panic ELSE A
ilockValid(i, v) == [v EXCEPT ![i] = 1]

Goto(p, l) == pc' = [pc EXCEPT ![p] = l]

\* iput(i), to go on at l.
Put(p, i, l) ==
    /\ pc' = [pc EXCEPT ![p] = "iput"]
    /\ put' = [put EXCEPT ![p] = i]
    /\ next' = [next EXCEPT ![p] = l]

\* end_op() and the return to user space.
EndCall(p) ==
    /\ Goto(p, "idle")
    /\ call' = [call EXCEPT ![p] = "none"]
    /\ path' = [path EXCEPT ![p] = <<>>]
    /\ path2' = [path2 EXCEPT ![p] = <<>>]

\* The return from iput(), which is often the last thing a call does.
Return(p) ==
    /\ put' = [put EXCEPT ![p] = 0]
    /\ next' = [next EXCEPT ![p] = "idle"]
    /\ IF next[p] = "idle" THEN EndCall(p) ELSE Goto(p, next[p]) /\ UNCHANGED args

\* Mutant: an inode is freed in spite of its other users.
LastRef_AnyRef(i) == valid[i] = 1 /\ nlink[i] = 0

\* What iput() looks at under itable.lock: nobody else has i, and i has no links.
LastRef(i) == ref[i] = 1 /\ valid[i] = 1 /\ nlink[i] = 0

\* iput() of an inode that has other references or links.
IputDrop(p) ==
    LET i == put[p]
    IN  /\ pc[p] = "iput"
        /\ ~LastRef(i)
        /\ ref' = [ref EXCEPT ![i] = @ - 1]
        /\ Return(p)
        /\ UNCHANGED <<inodes, valid, lock, files, ip, tgt, panicked>>

\* The last reference to an inode without links: it will be freed.
\* acquiresleep() is called with itable.lock held, so sched() would panic if the
\* sleep-lock were taken.
IputDecide(p) ==
    LET i == put[p]
    IN  /\ pc[p] = "iput"
        /\ LastRef(i)
        /\ IF ~Unlocked(i) THEN Panic
           ELSE /\ lock' = [lock EXCEPT ![i] = p]
                /\ Goto(p, "iput_free")
                /\ UNCHANGED <<inodes, ref, valid, files, args, ip, tgt, put, next, panicked>>

\* itrunc(), type = 0, iupdate(), valid = 0, releasesleep().
IputFree(p) ==
    LET i == put[p]
    IN  /\ pc[p] = "iput_free"
        /\ type' = [type EXCEPT ![i] = "free"]
        /\ ents' = [ents EXCEPT ![i] = NoEntries]
        /\ valid' = [valid EXCEPT ![i] = 0]
        /\ lock' = [lock EXCEPT ![i] = NoProc]
        /\ Goto(p, "iput_drop")
        /\ UNCHANGED <<nlink, ref, files, args, ip, tgt, put, next, panicked>>

IputLast(p) ==
    /\ pc[p] = "iput_drop"
    /\ ref' = [ref EXCEPT ![put[p]] = @ - 1]
    /\ Return(p)
    /\ UNCHANGED <<inodes, valid, lock, files, ip, tgt, panicked>>

----------------------------------------------------------------------------
(* System calls up to the first inode; namex() *)

\* The calls that use nameiparent(): for link() the second time.
Parent(p) ==
    call[p] \in {"create", "mkdir", "unlink"} \/ (call[p] = "link" /\ tgt[p] # 0)

\* The start of namex(q): the root or the current directory.
Start(p, q) == IF q # <<>> /\ Head(q) = "/" THEN ROOTINO ELSE cwd[p]

StartWalk(p, q) ==
    /\ ref' = igetRef(Start(p, q))
    /\ ip' = [ip EXCEPT ![p] = Start(p, q)]
    /\ path' = [path EXCEPT ![p] = Elements(q)]
    /\ Goto(p, "walk")

Call(p) ==
    /\ pc[p] = "idle"
    /\ \E c \in Calls :
        /\ c[1] = "link" => \A i \in Inodes : nlink[i] < MaxLink
        /\ iget(Start(p, c[2]),
                /\ call' = [call EXCEPT ![p] = c[1]]
                /\ path2' = [path2 EXCEPT ![p] = c[3]]
                /\ StartWalk(p, c[2])
                /\ valid' = igetValid(Start(p, c[2]))
                /\ UNCHANGED <<inodes, lock, files, tgt, put, next, panicked>>)

\* close(): the last reference to the file is dropped.
Close(p) ==
    /\ pc[p] = "idle" /\ fd[p] # 0
    /\ call' = [call EXCEPT ![p] = "close"]
    /\ fd' = [fd EXCEPT ![p] = 0]
    /\ Put(p, fd[p], "idle")
    /\ UNCHANGED <<inodes, table, cwd, path, path2, ip, tgt, panicked>>

\* Where a call goes when a path does not lead anywhere.
Fail(p) == IF call[p] = "link" /\ tgt[p] # 0 THEN "link_bad" ELSE "idle"

\* One pass of namex()'s loop, from ilock(ip) to iunlock(ip): ip is the parent
\* that was asked for, the walk fails, or the next element is looked up and
\* referenced.
Walk(p) ==
    LET i == ip[p]
        e == ents[i][Head(path[p])]
        last == Parent(p) /\ Len(path[p]) = 1
    IN  /\ pc[p] = "walk" /\ path[p] # <<>>
        /\ ilock(i,
            \/ /\ type[i] = "dir" /\ last
               /\ valid' = ilockValid(i, valid)
               /\ Goto(p, "named")
               /\ UNCHANGED <<inodes, ref, lock, files, args, ip, tgt, put, next, panicked>>
            \/ /\ type[i] # "dir" \/ (e = 0 /\ ~last)
               /\ valid' = ilockValid(i, valid)
               /\ ip' = [ip EXCEPT ![p] = 0]
               /\ Put(p, i, Fail(p))
               /\ UNCHANGED <<inodes, ref, lock, files, args, tgt, panicked>>
            \/ /\ type[i] = "dir" /\ e # 0 /\ ~last
               /\ iget(e,
                    /\ ref' = igetRef(e)
                    /\ valid' = ilockValid(i, igetValid(e))
                    /\ ip' = [ip EXCEPT ![p] = e]
                    /\ path' = [path EXCEPT ![p] = Tail(@)]
                    /\ Put(p, i, "walk")
                    /\ UNCHANGED <<inodes, lock, files, call, path2, tgt, panicked>>))

\* nameiparent() of a path without a last element fails.
WalkNoParent(p) ==
    /\ pc[p] = "walk" /\ path[p] = <<>> /\ Parent(p)
    /\ ip' = [ip EXCEPT ![p] = 0]
    /\ Put(p, ip[p], Fail(p))
    /\ UNCHANGED <<inodes, table, files, args, tgt, panicked>>

\* namex() has returned an inode.
Named(p) == pc[p] = "named" \/ (pc[p] = "walk" /\ path[p] = <<>> /\ ~Parent(p))

----------------------------------------------------------------------------
(* open(), chdir() *)

\* The end of sys_open() with i locked: a file and a descriptor, or an error.
Opened(p, i) ==
    \/ /\ fd[p] = 0
       /\ fd' = [fd EXCEPT ![p] = i]
       /\ EndCall(p)
       /\ UNCHANGED <<cwd, put, next>>
    \/ /\ fd[p] # 0 \/ MayFail
       /\ Put(p, i, "idle")
       /\ UNCHANGED <<files, args>>

OpenInode(p) ==
    LET i == ip[p]
    IN  /\ Named(p) /\ call[p] \in {"open_read", "open_write"}
        /\ ilock(i,
            /\ valid' = ilockValid(i, valid)
            /\ ip' = [ip EXCEPT ![p] = 0]
            /\ IF type[i] = "dir" /\ call[p] = "open_write"
               THEN Put(p, i, "idle") /\ UNCHANGED <<files, args>>
               ELSE Opened(p, i)
            /\ UNCHANGED <<inodes, ref, lock, tgt, panicked>>)

\* Mutant: the reference to the old directory is not given back.
Chdir_KeepsOld(p) ==
    LET i == ip[p]
    IN  /\ Named(p) /\ call[p] = "chdir"
        /\ ilock(i,
            /\ valid' = ilockValid(i, valid)
            /\ ip' = [ip EXCEPT ![p] = 0]
            /\ IF type[i] = "dir"
               THEN cwd' = [cwd EXCEPT ![p] = i] /\ EndCall(p) /\ UNCHANGED <<put, next>>
               ELSE Put(p, i, "idle") /\ UNCHANGED <<cwd, args>>
            /\ UNCHANGED <<inodes, ref, lock, fd, tgt, panicked>>)

\* p->cwd is the process's own: whether it changes before or after iput() of
\* the old one is not seen by others.
Chdir(p) ==
    LET i == ip[p]
    IN  /\ Named(p) /\ call[p] = "chdir"
        /\ ilock(i,
            /\ valid' = ilockValid(i, valid)
            /\ ip' = [ip EXCEPT ![p] = 0]
            /\ IF type[i] = "dir"
               THEN Put(p, cwd[p], "idle") /\ cwd' = [cwd EXCEPT ![p] = i]
               ELSE Put(p, i, "idle") /\ UNCHANGED cwd
            /\ UNCHANGED <<inodes, ref, lock, fd, args, tgt, panicked>>)

----------------------------------------------------------------------------
(* link() *)

\* Mutant: the link that is about to be made is not counted.
LinkOld_NotCounted(p) ==
    LET i == ip[p]
        start == Start(p, path2[p])
    IN  /\ Named(p) /\ call[p] = "link" /\ tgt[p] = 0
        /\ ilock(i,
            IF type[i] = "dir"
            THEN /\ valid' = ilockValid(i, valid)
                 /\ ip' = [ip EXCEPT ![p] = 0]
                 /\ Put(p, i, "idle")
                 /\ UNCHANGED <<inodes, ref, lock, files, args, tgt, panicked>>
            ELSE iget(start,
                 /\ UNCHANGED nlink
                 /\ tgt' = [tgt EXCEPT ![p] = i]
                 /\ StartWalk(p, path2[p])
                 /\ valid' = ilockValid(i, igetValid(start))
                 /\ UNCHANGED <<type, ents, lock, files, call, path2, put, next, panicked>>))

\* The link count goes up before there is an entry, then the new path is
\* walked.
LinkOld(p) ==
    LET i == ip[p]
        start == Start(p, path2[p])
    IN  /\ Named(p) /\ call[p] = "link" /\ tgt[p] = 0
        /\ ilock(i,
            IF type[i] = "dir"
            THEN /\ valid' = ilockValid(i, valid)
                 /\ ip' = [ip EXCEPT ![p] = 0]
                 /\ Put(p, i, "idle")
                 /\ UNCHANGED <<inodes, ref, lock, files, args, tgt, panicked>>
            ELSE iget(start,
                 /\ nlink' = [nlink EXCEPT ![i] = @ + 1]
                 /\ tgt' = [tgt EXCEPT ![p] = i]
                 /\ StartWalk(p, path2[p])
                 /\ valid' = ilockValid(i, igetValid(start))
                 /\ UNCHANGED <<type, ents, lock, files, call, path2, put, next, panicked>>))

\* dirlink() in the new directory fails if the name exists or the disk is full.
\* An inode that the name leads to has links, so the iput() of the reference
\* that dirlookup() took to it does no more than give it back.
LinkNew(p) ==
    LET d == ip[p]
        e == ents[d][Head(path[p])]
        Links ==
            /\ ents' = [ents EXCEPT ![d][Head(path[p])] = tgt[p]]
            /\ Put(p, d, "link_put")
        Fails == Put(p, d, "link_bad") /\ UNCHANGED ents
        End ==
            /\ valid' = ilockValid(d, valid)
            /\ ip' = [ip EXCEPT ![p] = 0]
            /\ UNCHANGED <<type, nlink, ref, lock, files, args, tgt, panicked>>
    IN  /\ Named(p) /\ call[p] = "link" /\ tgt[p] # 0
        /\ ilock(d, IF e = 0 THEN (Links \/ (MayFail /\ Fails)) /\ End
                    ELSE iget(e, Fails /\ End))

LinkPut(p) ==
    /\ pc[p] = "link_put"
    /\ tgt' = [tgt EXCEPT ![p] = 0]
    /\ Put(p, tgt[p], "idle")
    /\ UNCHANGED <<inodes, table, files, args, ip, panicked>>

\* The label bad: the link count goes down again.
LinkBad(p) ==
    LET i == tgt[p]
    IN  /\ pc[p] = "link_bad"
        /\ ilock(i,
            /\ valid' = ilockValid(i, valid)
            /\ nlink' = [nlink EXCEPT ![i] = @ - 1]
            /\ tgt' = [tgt EXCEPT ![p] = 0]
            /\ Put(p, i, "idle")
            /\ UNCHANGED <<type, ents, ref, lock, files, args, ip, panicked>>)

----------------------------------------------------------------------------
(* unlink() *)

\* The directory is locked, and stays so, and the entry looked up.
Unlink(p) ==
    LET d == ip[p]
        name == Head(path[p])
        e == ents[d][name]
    IN  /\ Named(p) /\ call[p] = "unlink"
        /\ ilock(d,
            IF name = ".." \/ e = 0
            THEN /\ valid' = ilockValid(d, valid)
                 /\ ip' = [ip EXCEPT ![p] = 0]
                 /\ Put(p, d, "idle")
                 /\ UNCHANGED <<inodes, ref, lock, files, args, tgt, panicked>>
            ELSE iget(e,
                 /\ ref' = igetRef(e)
                 /\ valid' = ilockValid(d, igetValid(e))
                 /\ lock' = [lock EXCEPT ![d] = p]
                 /\ tgt' = [tgt EXCEPT ![p] = e]
                 /\ Goto(p, "unlink_child")
                 /\ UNCHANGED <<inodes, files, args, ip, put, next, panicked>>))

IsDirEmpty(i) == \A n \in Names : ents[i][n] = 0

\* With both locked: the entry is cleared and the directory let go.
UnlinkChild(p) ==
    LET d == ip[p]
        i == tgt[p]
        NotEmpty ==
            /\ tgt' = [tgt EXCEPT ![p] = 0]
            /\ Put(p, i, "unlink_bad")
            /\ UNCHANGED <<nlink, ents, lock, ip>>
        Clear ==
            /\ ents' = [ents EXCEPT ![d][Head(path[p])] = 0]
            /\ nlink' = [nlink EXCEPT ![d] = IF type[i] = "dir" THEN @ - 1 ELSE @]
            /\ lock' = [lock EXCEPT ![d] = NoProc, ![i] = p]
            /\ ip' = [ip EXCEPT ![p] = 0]
            /\ Put(p, d, "unlink_dec")
            /\ UNCHANGED tgt
    IN  /\ pc[p] = "unlink_child"
        /\ ilock(i,
            IF nlink[i] < 1 THEN Panic
            ELSE /\ valid' = ilockValid(i, valid)
                 /\ IF type[i] = "dir" /\ ~IsDirEmpty(i) THEN NotEmpty ELSE Clear
                 /\ UNCHANGED <<type, ref, files, args, panicked>>)

\* ip->nlink-- after the directory has been put.
UnlinkDec(p) ==
    LET i == tgt[p]
    IN  /\ pc[p] = "unlink_dec"
        /\ nlink' = [nlink EXCEPT ![i] = @ - 1]
        /\ lock' = [lock EXCEPT ![i] = NoProc]
        /\ tgt' = [tgt EXCEPT ![p] = 0]
        /\ Put(p, i, "idle")
        /\ UNCHANGED <<type, ents, ref, valid, files, args, ip, panicked>>

\* iunlockput(dp) at the label bad of unlink() and at the end of create(),
\* with the directory still locked.
PutParent(p) ==
    /\ pc[p] \in {"unlink_bad", "create_fail"}
    /\ lock' = [lock EXCEPT ![ip[p]] = NoProc]
    /\ ip' = [ip EXCEPT ![p] = 0]
    /\ Put(p, ip[p], "idle")
    /\ UNCHANGED <<inodes, ref, valid, files, args, tgt, panicked>>

----------------------------------------------------------------------------
(* create(), for open() and mkdir() *)

\* The directory is locked; an existing inode is referenced, or the directory
\* stays locked while a new one is made.
Create(p) ==
    LET d == ip[p]
        e == ents[d][Head(path[p])]
    IN  /\ Named(p) /\ call[p] \in {"create", "mkdir"}
        /\ ilock(d,
            IF e = 0
            THEN /\ valid' = ilockValid(d, valid)
                 /\ lock' = [lock EXCEPT ![d] = p]
                 /\ Goto(p, "create_alloc")
                 /\ UNCHANGED <<inodes, ref, files, args, ip, tgt, put, next, panicked>>
            ELSE iget(e,
                 /\ ref' = igetRef(e)
                 /\ valid' = ilockValid(d, igetValid(e))
                 /\ tgt' = [tgt EXCEPT ![p] = e]
                 /\ ip' = [ip EXCEPT ![p] = 0]
                 /\ Put(p, d, "create_found")
                 /\ UNCHANGED <<inodes, lock, files, args, panicked>>))

\* open(O_CREATE) takes an existing file, mkdir() takes nothing that exists.
CreateFound(p) ==
    LET i == tgt[p]
    IN  /\ pc[p] = "create_found"
        /\ ilock(i,
            /\ valid' = ilockValid(i, valid)
            /\ tgt' = [tgt EXCEPT ![p] = 0]
            /\ IF call[p] = "create" /\ type[i] = "file" THEN Opened(p, i)
               ELSE Put(p, i, "idle") /\ UNCHANGED <<files, args>>
            /\ UNCHANGED <<inodes, ref, lock, ip, panicked>>)

Free == {i \in Inodes : type[i] = "free"}

\* ialloc(): the first free inode gets its type on the disk; it is referenced
\* in a later step.
Ialloc(p) ==
    /\ pc[p] = "create_alloc"
    /\ IF Free = {}
       THEN /\ Goto(p, "create_fail")
            /\ UNCHANGED <<inodes, tgt>>
       ELSE LET i == CHOOSE i \in Free : \A j \in Free : i <= j
            IN  /\ type' = [type EXCEPT ![i] = IF call[p] = "mkdir" THEN "dir" ELSE "file"]
                /\ nlink' = [nlink EXCEPT ![i] = 0]
                /\ ents' = [ents EXCEPT ![i] = NoEntries]
                /\ tgt' = [tgt EXCEPT ![p] = i]
                /\ Goto(p, "create_link")
    /\ UNCHANGED <<table, files, args, ip, put, next, panicked>>

\* iget() and ilock() of the new inode, its link count, the entries of a new
\* directory and the one in the parent; an entry may not fit on the disk.
CreateLink(p) ==
    LET d == ip[p]
        i == tgt[p]
        isdir == call[p] = "mkdir"
        Links ==
            /\ ents' = [ents EXCEPT ![d][Head(path[p])] = i,
                                    ![i][".."] = IF isdir THEN d ELSE 0]
            /\ nlink' = [nlink EXCEPT ![i] = 1, ![d] = IF isdir THEN @ + 1 ELSE @]
            /\ lock' = [lock EXCEPT ![d] = NoProc, ![i] = p]
            /\ ip' = [ip EXCEPT ![p] = 0]
            /\ Put(p, d, "created")
            /\ UNCHANGED tgt
        Fails ==
            /\ tgt' = [tgt EXCEPT ![p] = 0]
            /\ Put(p, i, "create_fail")
            /\ UNCHANGED <<nlink, ents, lock, ip>>
    IN  /\ pc[p] = "create_link" /\ Unlocked(i)
        /\ iget(i,
            /\ ref' = igetRef(i)
            /\ valid' = ilockValid(i, igetValid(i))
            /\ Links \/ (MayFail /\ Fails)
            /\ UNCHANGED <<type, files, args, panicked>>)

\* The new inode is unlocked by open() or mkdir().
Created(p) ==
    LET i == tgt[p]
    IN  /\ pc[p] = "created"
        /\ lock' = [lock EXCEPT ![i] = NoProc]
        /\ tgt' = [tgt EXCEPT ![p] = 0]
        /\ IF call[p] = "create" THEN Opened(p, i)
           ELSE Put(p, i, "idle") /\ UNCHANGED <<files, args>>
        /\ UNCHANGED <<inodes, ref, valid, ip, panicked>>

----------------------------------------------------------------------------
(* Crash and restart *)

\* Memory is lost; ireclaim() frees the inodes without links.
Crash ==
    LET orphans == {i \in Inodes : type[i] # "free" /\ nlink[i] = 0}
    IN  /\ \A p \in Procs : pc[p] = "idle"
        /\ type' = [i \in Inodes |-> IF i \in orphans THEN "free" ELSE type[i]]
        /\ ents' = [i \in Inodes |-> IF i \in orphans THEN NoEntries ELSE ents[i]]
        /\ ref' = [i \in Inodes |-> IF i = ROOTINO THEN Cardinality(Procs) ELSE 0]
        /\ valid' = [i \in Inodes |-> 0]
        /\ cwd' = [p \in Procs |-> ROOTINO] /\ fd' = [p \in Procs |-> 0]
        /\ UNCHANGED <<nlink, lock, pc, args, ip, tgt, put, next, panicked>>

----------------------------------------------------------------------------
Iput(p) == IputDrop(p) \/ IputDecide(p) \/ IputFree(p) \/ IputLast(p)
Namex(p) == Walk(p) \/ WalkNoParent(p)
Link(p) == LinkOld(p) \/ LinkNew(p) \/ LinkPut(p) \/ LinkBad(p)
Remove(p) == Unlink(p) \/ UnlinkChild(p) \/ UnlinkDec(p)
Make(p) == Create(p) \/ CreateFound(p) \/ Ialloc(p) \/ CreateLink(p) \/ Created(p)

Next ==
    /\ panicked = 0
    /\ \/ \E p \in Procs :
            \/ Call(p) \/ Close(p) \/ Namex(p) \/ Iput(p)
            \/ OpenInode(p) \/ Chdir(p) \/ Link(p) \/ Remove(p) \/ Make(p)
            \/ PutParent(p)
       \/ Crash

Spec == Init /\ [][Next]_vars

----------------------------------------------------------------------------
(* Properties *)

\* Every reference is counted, on every path through a system call, those of
\* the errors included: ip->ref is the number of pointers to the inode in
\* current directories, open files and the locals of system calls.
RefsExact ==
    \A i \in Inodes :
        ref[i] = Cardinality({p \in Procs : cwd[p] = i})
               + Cardinality({p \in Procs : fd[p] = i})
               + Cardinality({p \in Procs : ip[p] = i})
               + Cardinality({p \in Procs : tgt[p] = i /\ pc[p] # "create_link"})
               + Cardinality({p \in Procs : put[p] = i})

\* The directory entries that name i: names, and ".." of directories that have
\* not been removed.
InTree(d) == d = ROOTINO \/ \E x \in Inodes, n \in Names : ents[x][n] = d
LinksTo(i) ==
    Cardinality({en \in Inodes \X Entries :
        ents[en[1]][en[2]] = i /\ (en[2] = ".." => InTree(en[1]))})

\* No entry dangles: at every moment an inode has at least as many links as
\* entries name it, so it is not freed while it can be found.
EntriesCounted ==
    \A i \in Inodes : LinksTo(i) > 0 =>
        type[i] # "free" /\ nlink[i] >= LinksTo(i)

\* What iput() decided under itable.lock still holds when it frees the inode
\* later, without that lock: nobody has found the inode meanwhile.
FreedUnused ==
    \A p \in Procs : pc[p] = "iput_free" =>
        ref[put[p]] = 1 /\ nlink[put[p]] = 0 /\ lock[put[p]] = p

=============================================================================
