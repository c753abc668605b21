----------------------------- MODULE FileProofs -----------------------------
(***************************************************************************)
(* Proofs about open files and the blocks of inodes (kernel/file.c,        *)
(* kernel/sysfile.c, kernel/fs.c).                                         *)
(***************************************************************************)
EXTENDS File, FiniteSetTheorems, SequenceTheorems, WellFoundedInduction, TLAPS

InWrite == {"write", "writei", "writei_end"}
FileEntry == [ref : Nat, type : {"none", "pipe", "inode"}, ip : Inodes \union {0},
              off : Nat, readable : BOOLEAN, writable : BOOLEAN]

TypeOK ==
    /\ file \in [Files -> FileEntry]
    /\ ofile \in [Procs -> [FDs -> Files \union {0}]]
    /\ alive \in SUBSET Procs
    /\ size \in [Inodes -> Nat]
    /\ addrs \in [Inodes -> [0..NDIRECT -> Blocks \union {0}]]
    /\ ptr \in [Blocks -> [0..NINDIRECT - 1 -> Blocks \union {0}]]
    /\ data \in [Blocks -> [0..BSIZE - 1 -> Procs \union {None}]]
    /\ used \in SUBSET Blocks
    /\ lock \in [Inodes -> Procs \union {None}]
    /\ pc \in [Procs -> {"user", "pipe", "exit"} \union InWrite]
    /\ fp \in [Procs -> Files \union {0}]
    /\ left \in [Procs -> Nat] /\ n1 \in [Procs -> Nat] /\ tot \in [Procs -> Nat]
    /\ wrong \in BOOLEAN

\* The descriptors for file f, and the calls of pipe() that hold it.
Descs(f) == {c \in Procs \X FDs : ofile[c[1]][c[2]] = f}
Piping(f) == {p \in Procs : At(p, "pipe") /\ fp[p] = f}

\* A process that is not running has no open files.
DeadClosed ==
    \A p \in Procs : p \notin alive => pc[p] = "user" /\ \A d \in FDs : ofile[p][d] = 0

\* The file of a pipe() under way is its own, and the file of a write() is an
\* inode that the process has a descriptor for.
CallFile ==
    /\ \A p \in Procs : pc[p] = "pipe" => fp[p] \in Files /\ file[fp[p]].ref = 1
    /\ \A p \in Procs : pc[p] \in InWrite =>
        /\ fp[p] \in Files /\ file[fp[p]].type = "inode"
        /\ \E d \in FDs : ofile[p][d] = fp[p]
    /\ \A f \in Files : file[f].type = "inode" => file[f].ip \in Inodes

FilesInv == TypeOK /\ FileRefsExact /\ DeadClosed /\ CallFile

InWritei == {"writei", "writei_end"}

\* The holder of an inode's lock is the process inside writei() on it.
LockHeld ==
    \A i \in Inodes, p \in Procs : lock[i] = p <=> pc[p] \in InWritei /\ Ip(p) = i

\* Every block is free and clear, or belongs to one inode.
BlocksInv ==
    /\ \A b \in Blocks : b \in used <=> \E i \in Inodes : b \in BlocksOf(i)
    /\ \A i, j \in Inodes : i # j => \A b \in BlocksOf(i) : b \notin BlocksOf(j)
    /\ \A b \in Blocks : b \notin used => ptr[b] = NoPtrs

\* The number of blocks that n bytes take, and inode i has the blocks for them.
Ceil(n) == (n + BSIZE - 1) \div BSIZE
Covered(i, n) == \A bn \in 0..Ceil(n) - 1 : BlockOf(i, bn) # 0

SizesInv == \A i \in Inodes : size[i] <= MAXFILE * BSIZE /\ Covered(i, size[i])

\* How far a writei() has got: what it has written has blocks, although size
\* does not count it yet, and what it has to write fits.
Writing ==
    \A p \in Procs : pc[p] \in InWritei =>
        /\ Off(p) <= size[Ip(p)] /\ tot[p] <= n1[p]
        /\ Off(p) + n1[p] <= MAXFILE * BSIZE /\ n1[p] <= MaxWrite /\ n1[p] <= left[p]
        /\ Covered(Ip(p), Off(p) + tot[p])

FileInv == FilesInv /\ LockHeld /\ BlocksInv /\ SizesInv /\ Writing /\ ~wrong

----------------------------------------------------------------------------
(* Counting *)

LEMMA Sizes ==
    /\ NINODES \in Nat \ {0} /\ NFILE \in Nat \ {0} /\ NOFILE \in Nat \ {0}
    /\ NBLOCKS \in Nat \ {0} /\ NDIRECT \in Nat \ {0} /\ NINDIRECT \in Nat \ {0}
    /\ BSIZE \in Nat \ {0} /\ BPB \in Nat \ {0}
  BY FileAssumption

LEMMA NoZero == 0 \notin Files /\ 0 \notin Inodes /\ 0 \notin Blocks /\ None \notin Procs
  BY Sizes, FileAssumption DEF Files, Inodes, Blocks

LEMMA Smallest ==
    ASSUME NEW S \in SUBSET Nat, S # {}
    PROVE  Min(S) \in S /\ \A y \in S : Min(S) <= y
  <1> DEFINE R == OpToRel(<, Nat)
  <1>1. IsWellFoundedOn(R, Nat)
    BY NatLessThanWellFounded
  <1>2. \A x, y \in Nat : y < x => <<y, x>> \in R
    BY DEF OpToRel
  <1> HIDE DEF R
  <1>3. PICK x \in S : \A y \in S : ~(<<y, x>> \in R)
    BY <1>1, WFMin
  <1>4. \A y \in S : x \in Nat /\ y \in Nat /\ ~(y < x)
    BY <1>2, <1>3
  <1>5. \A y \in S : x <= y
    BY <1>4
  <1> QED
    BY <1>5 DEF Min

LEMMA FreeFile ==
    ASSUME FreeFiles # {}
    PROVE  Min(FreeFiles) \in Files /\ file[Min(FreeFiles)].ref = 0
  <1>1. FreeFiles \in SUBSET Nat
    BY Sizes DEF FreeFiles, Files
  <1>2. Min(FreeFiles) \in FreeFiles
    BY <1>1, Smallest
  <1> QED
    BY <1>2 DEF FreeFiles

LEMMA FreeFD ==
    ASSUME NEW p \in Procs, FreeFDs(p) # {}
    PROVE  Min(FreeFDs(p)) \in FDs /\ ofile[p][Min(FreeFDs(p))] = 0
  <1>1. FreeFDs(p) \in SUBSET Nat
    BY Sizes DEF FreeFDs, FDs
  <1>2. Min(FreeFDs(p)) \in FreeFDs(p)
    BY <1>1, Smallest
  <1> QED
    BY <1>2 DEF FreeFDs

LEMMA FDsFinite == IsFiniteSet(FDs)
  BY Sizes, FS_Interval DEF FDs

LEMMA TwoFDs ==
    ASSUME NEW p \in Procs, ~(Cardinality(FreeFDs(p)) < 2)
    PROVE  LET d0 == Min(FreeFDs(p))
               d1 == Min(FreeFDs(p) \ {d0})
           IN  /\ d0 \in FDs /\ d1 \in FDs /\ d0 # d1
               /\ ofile[p][d0] = 0 /\ ofile[p][d1] = 0
  <1> DEFINE S == FreeFDs(p)
             d0 == Min(S)
             d1 == Min(S \ {d0})
  <1>1. IsFiniteSet(S) /\ Cardinality(S) \in Nat /\ S \in SUBSET Nat
    <2>1. S \in SUBSET FDs
      BY DEF FreeFDs
    <2>2. FDs \in SUBSET Nat
      BY Sizes DEF FDs
    <2> QED
      BY <2>1, <2>2, FDsFinite, FS_Subset, FS_CardinalityType
  <1>2. S # {}
    <2>1. Cardinality({}) = 0
      BY FS_EmptySet
    <2>2. Cardinality(S) # 0
      BY <1>1
    <2> QED
      BY <2>1, <2>2
  <1>3. d0 \in S
    BY <1>1, <1>2, Smallest
  <1> HIDE DEF d0
  <1>4. S \ {d0} # {}
    <2>1. Cardinality(S \ {d0}) = Cardinality(S) - 1
      BY <1>1, <1>3, FS_RemoveElement
    <2>2. Cardinality(S \ {d0}) # 0
      BY <1>1, <2>1
    <2> QED
      BY <2>2, FS_EmptySet
  <1>5. d1 \in S \ {d0}
    BY <1>1, <1>4, Smallest
  <1> HIDE DEF d1
  <1>6. d0 \in FDs /\ d1 \in FDs /\ d0 # d1 /\ ofile[p][d0] = 0 /\ ofile[p][d1] = 0
    BY <1>3, <1>5 DEF FreeFDs
  <1> QED
    BY <1>6 DEF d0, d1

LEMMA PairsFinite == IsFiniteSet(Procs \X FDs)
  BY FDsFinite, FileAssumption, FS_Product

LEMMA CountsFinite ==
    \A f \in Files :
        /\ IsFiniteSet(Descs(f)) /\ Cardinality(Descs(f)) \in Nat
        /\ IsFiniteSet(Piping(f)) /\ Cardinality(Piping(f)) \in Nat
  <1> TAKE f \in Files
  <1>1. Descs(f) \in SUBSET (Procs \X FDs) /\ Piping(f) \in SUBSET Procs
    BY DEF Descs, Piping
  <1> QED
    BY <1>1, PairsFinite, FileAssumption, FS_Subset, FS_CardinalityType

LEMMA ExactIs ==
    FileRefsExact <=>
        \A f \in Files : file[f].ref = Cardinality(Descs(f)) + Cardinality(Piping(f))
  BY DEF FileRefsExact, Descs, Piping

\* A file that a descriptor names is not free, and one that two name has two
\* references at least.
LEMMA Referenced ==
    ASSUME FilesInv, NEW p \in Procs, NEW d \in FDs, ofile[p][d] \in Files
    PROVE  /\ file[ofile[p][d]].ref >= 1
           /\ Piping(ofile[p][d]) = {}
           /\ \A q \in Procs, e \in FDs :
                 ofile[q][e] = ofile[p][d] /\ <<q, e>> # <<p, d>> => file[ofile[p][d]].ref >= 2
  <1>i. TypeOK /\ CallFile /\ FileRefsExact
    BY DEF FilesInv
  <1> DEFINE f == ofile[p][d]
  <1>f. f \in Files
    OBVIOUS
  <1>1. file[f].ref = Cardinality(Descs(f)) + Cardinality(Piping(f))
    BY <1>i, ExactIs
  <1>2. <<p, d>> \in Descs(f)
    BY DEF Descs
  <1>3. /\ IsFiniteSet(Descs(f)) /\ Cardinality(Descs(f)) \in Nat
        /\ IsFiniteSet(Piping(f)) /\ Cardinality(Piping(f)) \in Nat
    BY CountsFinite
  <1> HIDE DEF f
  <1>4. Cardinality(Descs(f)) # 0
    BY <1>2, <1>3, FS_EmptySet
  <1>5. Piping(f) = {}
    <2> SUFFICES ASSUME NEW q \in Piping(f) PROVE FALSE
      OBVIOUS
    <2>1. q \in Procs /\ pc[q] = "pipe" /\ fp[q] = f
      BY DEF Piping, At
    <2>2. file[f].ref = 1
      BY <1>i, <2>1 DEF CallFile
    <2>3. Cardinality(Piping(f)) # 0
      BY <1>3, FS_EmptySet
    <2> QED
      BY <1>1, <1>3, <1>4, <2>2, <2>3
  <1>6. ASSUME NEW q \in Procs, NEW e \in FDs, ofile[q][e] = f, <<q, e>> # <<p, d>>
        PROVE  file[f].ref >= 2
    <2>1. <<q, e>> \in Descs(f) \ {<<p, d>>}
      BY <1>6 DEF Descs
    <2>2. /\ IsFiniteSet(Descs(f) \ {<<p, d>>})
          /\ Cardinality(Descs(f) \ {<<p, d>>}) = Cardinality(Descs(f)) - 1
      BY <1>2, <1>3, FS_RemoveElement
    <2>3. Cardinality(Descs(f) \ {<<p, d>>}) # 0
      BY <2>1, <2>2, FS_EmptySet
    <2> QED
      BY <1>1, <1>3, <1>4, <2>2, <2>3
  <1>7. file[f].ref >= 1
    BY <1>1, <1>3, <1>4
  <1> QED
    BY <1>5, <1>6, <1>7 DEF f

\* A free file has no descriptor and no call.
LEMMA Unreferenced ==
    ASSUME TypeOK, FileRefsExact, NEW f \in Files, file[f].ref = 0
    PROVE  Descs(f) = {} /\ Piping(f) = {}
  <1>1. file[f].ref = Cardinality(Descs(f)) + Cardinality(Piping(f))
    BY ExactIs
  <1>2. /\ IsFiniteSet(Descs(f)) /\ Cardinality(Descs(f)) \in Nat
        /\ IsFiniteSet(Piping(f)) /\ Cardinality(Piping(f)) \in Nat
    BY CountsFinite
  <1>3. Cardinality(Descs(f)) = 0 /\ Cardinality(Piping(f)) = 0
    BY <1>1, <1>2
  <1> QED
    BY <1>2, <1>3, FS_EmptySet

----------------------------------------------------------------------------
(* Arithmetic of blocks *)

LEMMA DivMod ==
    ASSUME NEW x \in Int, NEW m \in Nat \ {0}
    PROVE  /\ (x % m) \in 0..m - 1
           /\ (x \div m) \in Int
           /\ x = m * (x \div m) + (x % m)
  OBVIOUS

LEMMA Times ==
    ASSUME NEW m \in Nat \ {0}, NEW a \in Int, NEW b \in Int, a <= b
    PROVE  m * a \in Int /\ m * b \in Int /\ m * a <= m * b
  OBVIOUS

LEMMA Between ==
    ASSUME NEW m \in Nat \ {0}, NEW a \in Int, NEW b \in Int, m * a < m * b
    PROVE  a < b
  <1> SUFFICES ASSUME b <= a PROVE FALSE
    OBVIOUS
  <1>1. m * b <= m * a /\ m * a \in Int /\ m * b \in Int
    BY Times
  <1> QED
    BY <1>1

LEMMA Next1 ==
    ASSUME NEW m \in Nat \ {0}, NEW a \in Int
    PROVE  m * (a + 1) = m * a + m
  OBVIOUS

\* The block and the place in it of byte x.
LEMMA PlaceOf ==
    ASSUME NEW x \in Nat
    PROVE  /\ x \div BSIZE \in Nat /\ x % BSIZE \in 0..BSIZE - 1
           /\ BSIZE * (x \div BSIZE) \in Nat
           /\ BSIZE * (x \div BSIZE) <= x /\ x < BSIZE * (x \div BSIZE) + BSIZE
           /\ x = BSIZE * (x \div BSIZE) + (x % BSIZE)
  <1> DEFINE q == x \div BSIZE
             r == x % BSIZE
  <1>1. q \in Int /\ r \in 0..BSIZE - 1 /\ x = BSIZE * q + r
    BY DivMod, Sizes
  <1> HIDE DEF q, r
  <1>2. BSIZE * q \in Int /\ BSIZE * 0 = 0 /\ BSIZE * (q + 1) = BSIZE * q + BSIZE
    BY <1>1, Sizes
  <1>3. BSIZE * 0 < BSIZE * (q + 1)
    BY <1>1, <1>2, Sizes
  <1>4. 0 < q + 1
    BY <1>1, <1>3, Between, Sizes
  <1>5. BSIZE * 0 <= BSIZE * q
    BY <1>1, <1>4, Times, Sizes
  <1>6. q \in Nat /\ BSIZE * q \in Nat /\ BSIZE * q <= x /\ x < BSIZE * q + BSIZE
    BY <1>1, <1>2, <1>4, <1>5, Sizes
  <1>7. q = x \div BSIZE /\ r = x % BSIZE
    BY DEF q, r
  <1> QED
    BY <1>1, <1>6, <1>7, Zenon

LEMMA BlockBound ==
    ASSUME NEW x \in Nat, NEW n \in Nat, x < n * BSIZE
    PROVE  x \div BSIZE \in 0..n - 1
  <1> DEFINE q == x \div BSIZE
  <1>1. q \in Nat /\ BSIZE * q \in Nat /\ BSIZE * q <= x
    BY PlaceOf
  <1> HIDE DEF q
  <1>2. n * BSIZE = BSIZE * n /\ BSIZE * n \in Nat
    BY Sizes
  <1>3. BSIZE * q < BSIZE * n
    BY <1>1, <1>2
  <1>4. q < n
    BY <1>1, <1>3, Between, Sizes
  <1>5. q \in 0..n - 1
    BY <1>1, <1>4
  <1> QED
    BY <1>5 DEF q

LEMMA CeilIs ==
    ASSUME NEW x \in Nat
    PROVE  /\ Ceil(x) \in Nat /\ BSIZE * Ceil(x) \in Nat
           /\ x <= BSIZE * Ceil(x) /\ BSIZE * Ceil(x) < x + BSIZE
  <1>1. x + BSIZE - 1 \in Nat
    BY Sizes
  <1> DEFINE y == x + BSIZE - 1
             q == y \div BSIZE
  <1>2. q \in Nat /\ BSIZE * q \in Nat /\ BSIZE * q <= y /\ y < BSIZE * q + BSIZE
    BY <1>1, PlaceOf
  <1>3. Ceil(x) = q
    BY DEF Ceil
  <1>4. y = x + BSIZE - 1
    OBVIOUS
  <1> HIDE DEF q, y
  <1> QED
    BY <1>2, <1>3, <1>4, Sizes

LEMMA ByteCovered ==
    ASSUME NEW k \in Nat, NEW x \in Nat, k < x
    PROVE  k \div BSIZE \in 0..Ceil(x) - 1
  <1>1. Ceil(x) \in Nat /\ BSIZE * Ceil(x) \in Nat /\ x <= BSIZE * Ceil(x)
    BY CeilIs
  <1>2. Ceil(x) * BSIZE = BSIZE * Ceil(x)
    BY <1>1, Sizes
  <1>3. k < Ceil(x) * BSIZE
    BY <1>1, <1>2
  <1> QED
    BY <1>1, <1>3, BlockBound

\* One pass of writei() reaches at most the end of the block that it began in.
LEMMA PassCovers ==
    ASSUME NEW o \in Nat, NEW m \in Nat, m <= BSIZE - (o % BSIZE), NEW bn \in 0..Ceil(o + m) - 1,
           bn # o \div BSIZE
    PROVE  bn \in 0..Ceil(o) - 1
  <1> DEFINE q == o \div BSIZE
             r == o % BSIZE
  <1>1. /\ q \in Nat /\ r \in 0..BSIZE - 1 /\ BSIZE * q \in Nat /\ o = BSIZE * q + r
        /\ m <= BSIZE - r /\ bn # q
    BY PlaceOf, Zenon
  <1> HIDE DEF q, r
  <1>2. BSIZE * (q + 1) = BSIZE * q + BSIZE /\ BSIZE * (q + 2) = BSIZE * q + 2 * BSIZE
    BY <1>1, Sizes
  <1>3. /\ Ceil(o + m) \in Nat /\ BSIZE * Ceil(o + m) \in Nat
        /\ BSIZE * Ceil(o + m) < (o + m) + BSIZE
    BY CeilIs
  <1>4. BSIZE * Ceil(o + m) < BSIZE * (q + 2)
    BY <1>1, <1>2, <1>3, Sizes
  <1>5. Ceil(o + m) < q + 2
    BY <1>1, <1>3, <1>4, Between, Sizes
  <1>6. bn < q
    BY <1>1, <1>3, <1>5
  <1>7. Ceil(o) \in Nat /\ BSIZE * Ceil(o) \in Nat /\ o <= BSIZE * Ceil(o)
    BY CeilIs
  <1>8. q <= Ceil(o)
    <2> SUFFICES ASSUME Ceil(o) < q PROVE FALSE
      BY <1>1, <1>7
    <2>1. BSIZE * (Ceil(o) + 1) <= BSIZE * q
      BY <1>1, <1>7, Times, Sizes
    <2>2. BSIZE * (Ceil(o) + 1) = BSIZE * Ceil(o) + BSIZE
      BY <1>7, Next1, Sizes
    <2> QED
      BY <1>1, <1>7, <2>1, <2>2, Sizes
  <1> QED
    BY <1>6, <1>7, <1>8, <1>1

LEMMA MinTwo ==
    ASSUME NEW a \in Nat, NEW b \in Nat
    PROVE  Min({a, b}) = IF a <= b THEN a ELSE b
  BY DEF Min

LEMMA MaxTwo ==
    ASSUME NEW a \in Nat, NEW b \in Nat
    PROVE  Max({a, b}) = IF a >= b THEN a ELSE b
  BY DEF Max

LEMMA MaxFileIs == MAXFILE \in Nat \ {0} /\ MAXFILE * BSIZE \in Nat /\ MAXFILE = NDIRECT + NINDIRECT
  BY Sizes DEF MAXFILE

LEMMA MaxWriteIs == MaxWrite \in Nat \ {0}
  <1> DEFINE h == (MAXOPBLOCKS - 1 - 1 - 2) \div 2
  <1>1. h \in Nat \ {0}
    BY FileAssumption
  <1> HIDE DEF h
  <1>2. h * BSIZE \in Nat \ {0}
    BY <1>1, Sizes
  <1> QED
    BY <1>2 DEF MaxWrite, h

----------------------------------------------------------------------------
(* Descriptors and files *)

LEMMA GiveDesc ==
    ASSUME TypeOK, NEW p \in Procs, NEW d \in FDs, ofile[p][d] = 0, NEW f \in Files,
           ofile' = [ofile EXCEPT ![p][d] = f]
    PROVE  /\ <<p, d>> \notin Descs(f)
           /\ Descs(f)' = Descs(f) \union {<<p, d>>}
           /\ \A q \in Procs, e \in FDs :
                 ofile'[q][e] = IF q = p /\ e = d THEN f ELSE ofile[q][e]
  <1>1. \A q \in Procs, e \in FDs :
           ofile'[q][e] = IF q = p /\ e = d THEN f ELSE ofile[q][e]
    BY DEF TypeOK
  <1>2. <<p, d>> \notin Descs(f)
    BY NoZero DEF Descs
  <1>3. \A c \in Procs \X FDs : c = <<c[1], c[2]>> /\ c[1] \in Procs /\ c[2] \in FDs
    OBVIOUS
  <1>4. Descs(f)' = Descs(f) \union {<<p, d>>}
    BY <1>1, <1>3 DEF Descs
  <1> QED
    BY <1>1, <1>2, <1>4

LEMMA GiveOther ==
    ASSUME TypeOK, NEW p \in Procs, NEW d \in FDs, ofile[p][d] = 0, NEW f \in Files,
           ofile' = [ofile EXCEPT ![p][d] = f], NEW g \in Files, g # f
    PROVE  Descs(g)' = Descs(g)
  <1>1. \A q \in Procs, e \in FDs :
           ofile'[q][e] = IF q = p /\ e = d THEN f ELSE ofile[q][e]
    BY DEF TypeOK
  <1>2. \A c \in Procs \X FDs : c = <<c[1], c[2]>> /\ c[1] \in Procs /\ c[2] \in FDs
    OBVIOUS
  <1> QED
    BY <1>1, <1>2, NoZero DEF Descs

LEMMA TakeDesc ==
    ASSUME TypeOK, NEW p \in Procs, NEW d \in FDs, NEW f \in Files, ofile[p][d] = f,
           ofile' = [ofile EXCEPT ![p][d] = 0]
    PROVE  /\ <<p, d>> \in Descs(f)
           /\ Descs(f)' = Descs(f) \ {<<p, d>>}
           /\ \A q \in Procs, e \in FDs :
                 ofile'[q][e] = IF q = p /\ e = d THEN 0 ELSE ofile[q][e]
  <1>1. \A q \in Procs, e \in FDs :
           ofile'[q][e] = IF q = p /\ e = d THEN 0 ELSE ofile[q][e]
    BY DEF TypeOK
  <1>2. <<p, d>> \in Descs(f)
    BY DEF Descs
  <1>3. \A c \in Procs \X FDs : c = <<c[1], c[2]>> /\ c[1] \in Procs /\ c[2] \in FDs
    OBVIOUS
  <1>4. Descs(f)' = Descs(f) \ {<<p, d>>}
    BY <1>1, <1>3, NoZero DEF Descs
  <1> QED
    BY <1>1, <1>2, <1>4

LEMMA TakeOther ==
    ASSUME TypeOK, NEW p \in Procs, NEW d \in FDs, NEW f \in Files, ofile[p][d] = f,
           ofile' = [ofile EXCEPT ![p][d] = 0], NEW g \in Files, g # f
    PROVE  Descs(g)' = Descs(g)
  <1>1. \A q \in Procs, e \in FDs :
           ofile'[q][e] = IF q = p /\ e = d THEN 0 ELSE ofile[q][e]
    BY DEF TypeOK
  <1>2. \A c \in Procs \X FDs : c = <<c[1], c[2]>> /\ c[1] \in Procs /\ c[2] \in FDs
    OBVIOUS
  <1> QED
    BY <1>1, <1>2, NoZero DEF Descs

LEMMA ExactNext ==
    ASSUME \A g \in Files : file'[g].ref = Cardinality(Descs(g)') + Cardinality(Piping(g)')
    PROVE  FileRefsExact'
  BY DEF FileRefsExact, Descs, Piping

LEMMA SamePiping ==
    ASSUME UNCHANGED <<alive, pc, fp>>
    PROVE  \A g \in Files : Piping(g)' = Piping(g)
  BY DEF Piping, At

LEMMA SameFiles ==
    ASSUME FileRefsExact, UNCHANGED ofile,
           \A g \in Files : file'[g].ref = file[g].ref /\ Piping(g)' = Piping(g)
    PROVE  FileRefsExact'
  <1>1. \A g \in Files : Descs(g)' = Descs(g) /\ Piping(g)' = Piping(g)
    BY DEF Descs
  <1>2. \A g \in Files : file[g].ref = Cardinality(Descs(g)) + Cardinality(Piping(g))
    BY ExactIs
  <1> QED
    BY <1>1, <1>2, ExactNext

\* A call that gives a descriptor away, or takes one back.
LEMMA OneMore ==
    ASSUME TypeOK, FileRefsExact, NEW p \in Procs, NEW d \in FDs, ofile[p][d] = 0,
           NEW f \in Files, ofile' = [ofile EXCEPT ![p][d] = f],
           UNCHANGED <<alive, pc, fp>>, file'[f].ref = file[f].ref + 1,
           \A g \in Files : g # f => file'[g].ref = file[g].ref
    PROVE  FileRefsExact'
  <1>0. /\ <<p, d>> \notin Descs(f)
        /\ Descs(f)' = Descs(f) \union {<<p, d>>}
    BY GiveDesc
  <1> SUFFICES ASSUME NEW g \in Files
               PROVE  file'[g].ref = Cardinality(Descs(g)') + Cardinality(Piping(g)')
    BY ExactNext
  <1>1. file[g].ref = Cardinality(Descs(g)) + Cardinality(Piping(g))
    BY ExactIs
  <1>2. Piping(g)' = Piping(g)
    BY SamePiping
  <1>3. IsFiniteSet(Descs(g)) /\ Cardinality(Descs(g)) \in Nat /\ Cardinality(Piping(g)) \in Nat
    BY CountsFinite
  <1>4. CASE g = f
    <2>1. Descs(g)' = Descs(g) \union {<<p, d>>} /\ <<p, d>> \notin Descs(g)
      BY <1>0, <1>4
    <2>2. Cardinality(Descs(g) \union {<<p, d>>}) = Cardinality(Descs(g)) + 1
      BY <1>3, <2>1, FS_AddElement
    <2>3. Cardinality(Descs(g)') = Cardinality(Descs(g)) + 1
      BY <2>1, <2>2
    <2>4. file'[g].ref = file[g].ref + 1
      BY <1>4
    <2> QED
      BY <1>1, <1>2, <1>3, <2>3, <2>4
  <1>5. CASE g # f
    <2>1. Descs(g)' = Descs(g)
      BY <1>5, GiveOther
    <2>2. file'[g].ref = file[g].ref
      BY <1>5
    <2> QED
      BY <1>1, <1>2, <2>1, <2>2
  <1> QED
    BY <1>4, <1>5

LEMMA OneLess ==
    ASSUME TypeOK, FileRefsExact, NEW p \in Procs, NEW d \in FDs, NEW f \in Files,
           ofile[p][d] = f, ofile' = [ofile EXCEPT ![p][d] = 0],
           UNCHANGED <<alive, pc, fp>>, file'[f].ref = file[f].ref - 1,
           \A g \in Files : g # f => file'[g].ref = file[g].ref
    PROVE  FileRefsExact'
  <1>0. /\ <<p, d>> \in Descs(f)
        /\ Descs(f)' = Descs(f) \ {<<p, d>>}
    BY TakeDesc
  <1> SUFFICES ASSUME NEW g \in Files
               PROVE  file'[g].ref = Cardinality(Descs(g)') + Cardinality(Piping(g)')
    BY ExactNext
  <1>1. file[g].ref = Cardinality(Descs(g)) + Cardinality(Piping(g))
    BY ExactIs
  <1>2. Piping(g)' = Piping(g)
    BY SamePiping
  <1>3. IsFiniteSet(Descs(g)) /\ Cardinality(Descs(g)) \in Nat /\ Cardinality(Piping(g)) \in Nat
    BY CountsFinite
  <1>4. CASE g = f
    <2>1. Descs(g)' = Descs(g) \ {<<p, d>>} /\ <<p, d>> \in Descs(g)
      BY <1>0, <1>4
    <2>2. Cardinality(Descs(g) \ {<<p, d>>}) = Cardinality(Descs(g)) - 1
      BY <1>3, <2>1, FS_RemoveElement
    <2>3. Cardinality(Descs(g)') = Cardinality(Descs(g)) - 1
      BY <2>1, <2>2
    <2>4. file'[g].ref = file[g].ref - 1
      BY <1>4
    <2> QED
      BY <1>1, <1>2, <1>3, <2>3, <2>4
  <1>5. CASE g # f
    <2>1. Descs(g)' = Descs(g)
      BY <1>5, TakeOther
    <2>2. file'[g].ref = file[g].ref
      BY <1>5
    <2> QED
      BY <1>1, <1>2, <2>1, <2>2
  <1> QED
    BY <1>4, <1>5

\* The file of a call is not free.
LEMMA CallHolds ==
    ASSUME FilesInv, NEW q \in Procs, pc[q] \in InWrite \union {"pipe"}
    PROVE  q \in alive /\ fp[q] \in Files /\ file[fp[q]].ref # 0
  <1>0. q \in alive
    BY DEF FilesInv, DeadClosed, InWrite
  <1>1. CASE pc[q] = "pipe"
    BY <1>0, <1>1 DEF FilesInv, CallFile
  <1>2. CASE pc[q] \in InWrite
    <2>1. PICK d \in FDs : fp[q] \in Files /\ ofile[q][d] = fp[q]
      BY <1>2 DEF FilesInv, CallFile
    <2>2. file[ofile[q][d]].ref >= 1
      BY <2>1, Referenced
    <2> QED
      BY <1>0, <2>1, <2>2
  <1> QED
    BY <1>1, <1>2

LEMMA OpenFiles ==
    ASSUME FilesInv, NEW p \in Procs, NEW i \in Inodes, NEW mode \in Modes, Open(p, i, mode)
    PROVE  FileRefsExact' /\ DeadClosed' /\ CallFile'
  <1>i. TypeOK /\ FileRefsExact /\ DeadClosed /\ CallFile
    BY DEF FilesInv
  <1>0. PICK f \in Files, d \in FDs :
          /\ file[f].ref = 0 /\ ofile[p][d] = 0
          /\ file' = [file EXCEPT ![f] = [ref |-> 1, type |-> "inode", ip |-> i, off |-> 0,
                                          readable |-> mode.r, writable |-> mode.w]]
          /\ ofile' = [ofile EXCEPT ![p][d] = f]
          /\ UNCHANGED <<alive, pc, fp>>
          /\ p \in alive /\ pc[p] = "user"
    BY FreeFile, FreeFD DEF Open, Call, At, regs
  <1>1. /\ file'[f].ref = 1 /\ file'[f].type = "inode" /\ file'[f].ip = i
        /\ \A g \in Files : g # f => file'[g] = file[g]
    BY <1>i, <1>0 DEF TypeOK
  <1>2. \A q \in Procs, e \in FDs : ofile'[q][e] = IF q = p /\ e = d THEN f ELSE ofile[q][e]
    BY <1>i, <1>0, GiveDesc
  <1>3. FileRefsExact'
    <2>1. file'[f].ref = file[f].ref + 1
      BY <1>0, <1>1
    <2>2. \A g \in Files : g # f => file'[g].ref = file[g].ref
      BY <1>1
    <2> QED
      BY <1>i, <1>0, <2>1, <2>2, OneMore
  <1>4. DeadClosed'
    BY <1>i, <1>0, <1>2 DEF DeadClosed
  <1>5. CallFile'
    <2>1. \A q \in Procs : pc[q] \in InWrite \union {"pipe"} => fp[q] \in Files /\ fp[q] # f
      BY <1>0, CallHolds
    <2>2. \A q \in Procs : pc[q] \in InWrite =>
            fp[q] \in Files /\ file[fp[q]].type = "inode" /\ \E e \in FDs : ofile[q][e] = fp[q]
      BY <1>i DEF CallFile
    <2>3. \A q \in Procs : pc[q] \in InWrite => \E e \in FDs : ofile'[q][e] = fp[q]
      BY <1>0, <1>2, <2>2, NoZero
    <2> QED
      BY <1>i, <1>0, <1>1, <2>1, <2>2, <2>3 DEF CallFile
  <1> QED
    BY <1>3, <1>4, <1>5

LEMMA CloseIs ==
    ASSUME NEW t \in [Files -> FileEntry], NEW f \in Files
    PROVE  /\ fileclose(t, f) \in [Files -> FileEntry]
           /\ \A g \in Files : g # f => fileclose(t, f)[g] = t[g]
           /\ t[f].ref > 1 => /\ fileclose(t, f)[f].ref = t[f].ref - 1
                              /\ fileclose(t, f)[f].type = t[f].type
                              /\ fileclose(t, f)[f].ip = t[f].ip
                              /\ fileclose(t, f)[f].off = t[f].off
           /\ ~(t[f].ref > 1) => fileclose(t, f)[f] = FD_NONE
  <1>1. t[f] \in FileEntry /\ t[f].ref \in Nat
    BY DEF FileEntry
  <1>2. FD_NONE \in FileEntry
    BY DEF FD_NONE, FileEntry
  <1>3. CASE t[f].ref > 1
    <2> DEFINE c == [t[f] EXCEPT !.ref = @ - 1]
    <2>1. c \in FileEntry /\ c.ref = t[f].ref - 1 /\ c.type = t[f].type /\ c.ip = t[f].ip /\ c.off = t[f].off
      BY <1>1, <1>3 DEF FileEntry
    <2>2. fileclose(t, f) = [t EXCEPT ![f] = IF t[f].ref > 1 THEN c ELSE FD_NONE]
      BY DEF fileclose
    <2> HIDE DEF c
    <2> QED
      BY <1>3, <2>1, <2>2
  <1>4. CASE ~(t[f].ref > 1)
    <2>1. fileclose(t, f) = [t EXCEPT ![f] = FD_NONE]
      BY <1>4 DEF fileclose
    <2> QED
      BY <1>2, <1>4, <2>1
  <1> QED
    BY <1>3, <1>4

LEMMA DupFiles ==
    ASSUME FilesInv, NEW p \in Procs, NEW d \in FDs, Dup(p, d)
    PROVE  FileRefsExact' /\ DeadClosed' /\ CallFile'
  <1>i. TypeOK /\ FileRefsExact /\ DeadClosed /\ CallFile
    BY DEF FilesInv
  <1>p. PICK f, c : f = ofile[p][d] /\ c = Min(FreeFDs(p))
    OBVIOUS
  <1>0. /\ f \in Files /\ c \in FDs /\ ofile[p][c] = 0
        /\ file' = [file EXCEPT ![f].ref = @ + 1]
        /\ ofile' = [ofile EXCEPT ![p][c] = f]
        /\ UNCHANGED <<alive, pc, fp>>
        /\ p \in alive /\ pc[p] = "user"
    <2>1. /\ ofile[p][d] # 0 /\ FreeFDs(p) # {}
          /\ ofile' = [ofile EXCEPT ![p][c] = f]
          /\ file' = [file EXCEPT ![f].ref = @ + 1]
          /\ UNCHANGED <<alive, pc, fp>>
          /\ p \in alive /\ pc[p] = "user"
      BY <1>p DEF Dup, Call, At, regs, filedup
    <2>2. f \in Files
      BY <1>i, <1>p, <2>1 DEF TypeOK
    <2>3. c \in FDs /\ ofile[p][c] = 0
      BY <1>p, <2>1, FreeFD
    <2> QED
      BY <2>1, <2>2, <2>3
  <1>r. Piping(f) = {}
    BY <1>0, <1>p, Referenced
  <1>1. /\ file'[f].ref = file[f].ref + 1 /\ file'[f].type = file[f].type
        /\ file'[f].ip = file[f].ip
        /\ \A g \in Files : g # f => file'[g] = file[g]
    BY <1>i, <1>0 DEF TypeOK, FileEntry
  <1>2. \A q \in Procs, e \in FDs : ofile'[q][e] = IF q = p /\ e = c THEN f ELSE ofile[q][e]
    BY <1>i, <1>0 DEF TypeOK
  <1>3. FileRefsExact'
    <2>1. \A g \in Files : g # f => file'[g].ref = file[g].ref
      BY <1>1
    <2> QED
      BY <1>i, <1>0, <1>1, <2>1, OneMore
  <1>4. DeadClosed'
    BY <1>i, <1>0, <1>2 DEF DeadClosed
  <1>5. CallFile'
    <2>1. \A q \in Procs : pc[q] = "pipe" => fp[q] # f
      <3> SUFFICES ASSUME NEW q \in Procs, pc[q] = "pipe", fp[q] = f PROVE FALSE
        OBVIOUS
      <3>1. q \in Piping(f)
        BY CallHolds DEF Piping, At
      <3> QED
        BY <1>r, <3>1
    <2>2. \A q \in Procs : pc[q] \in InWrite =>
            fp[q] \in Files /\ file[fp[q]].type = "inode" /\ \E e \in FDs : ofile[q][e] = fp[q]
      BY <1>i DEF CallFile
    <2>3. \A q \in Procs : pc[q] \in InWrite => \E e \in FDs : ofile'[q][e] = fp[q]
      BY <1>0, <1>2, <2>2, NoZero
    <2> QED
      BY <1>i, <1>0, <1>1, <2>1, <2>2, <2>3 DEF CallFile
  <1> QED
    BY <1>3, <1>4, <1>5

LEMMA CloseFiles ==
    ASSUME FilesInv, NEW p \in Procs, NEW d \in FDs, Close(p, d)
    PROVE  FileRefsExact' /\ DeadClosed' /\ CallFile'
  <1>i. TypeOK /\ FileRefsExact /\ DeadClosed /\ CallFile
    BY DEF FilesInv
  <1>d. PICK f : f = ofile[p][d]
    OBVIOUS
  <1>0. /\ f \in Files /\ file' = fileclose(file, f)
        /\ ofile' = [ofile EXCEPT ![p][d] = 0]
        /\ UNCHANGED <<alive, pc, fp>>
        /\ p \in alive /\ pc[p] \in {"user", "exit"}
    <2>1. /\ ofile[p][d] # 0 /\ file' = fileclose(file, f)
          /\ ofile' = [ofile EXCEPT ![p][d] = 0]
          /\ UNCHANGED <<alive, pc, fp>>
          /\ p \in alive /\ pc[p] \in {"user", "exit"}
      BY <1>d DEF Close, Call, At, regs
    <2> QED
      BY <1>i, <1>d, <2>1 DEF TypeOK
  <1>r. /\ file[f].ref \in Nat /\ file[f].ref >= 1 /\ Piping(f) = {}
        /\ \A q \in Procs, e \in FDs : ofile[q][e] = f /\ <<q, e>> # <<p, d>> => file[f].ref >= 2
    BY <1>i, <1>0, <1>d, Referenced DEF TypeOK, FileEntry
  <1>c. /\ \A g \in Files : g # f => file'[g] = file[g]
        /\ file[f].ref > 1 => /\ file'[f].ref = file[f].ref - 1
                              /\ file'[f].type = file[f].type /\ file'[f].ip = file[f].ip
        /\ ~(file[f].ref > 1) => file'[f] = FD_NONE
    BY <1>i, <1>0, CloseIs DEF TypeOK
  <1>1. \A g \in Files : g # f => file'[g] = file[g]
    BY <1>c
  <1>2. /\ file'[f].ref = file[f].ref - 1
        /\ file[f].ref >= 2 => file'[f].type = file[f].type /\ file'[f].ip = file[f].ip
        /\ file'[f].type = "inode" => file'[f].ip = file[f].ip /\ file[f].type = "inode"
    <2>1. CASE file[f].ref > 1
      BY <1>c, <2>1
    <2>2. CASE ~(file[f].ref > 1)
      <3>1. file'[f].ref = 0 /\ file'[f].type = "none"
        BY <1>c, <2>2 DEF FD_NONE
      <3>2. file[f].ref = 1
        BY <1>r, <2>2
      <3> QED
        BY <3>1, <3>2
    <2> QED
      BY <2>1, <2>2
  <1>3. \A q \in Procs, e \in FDs : ofile'[q][e] = IF q = p /\ e = d THEN 0 ELSE ofile[q][e]
    BY <1>i, <1>0, <1>d, TakeDesc
  <1>4. FileRefsExact'
    <2>1. \A g \in Files : g # f => file'[g].ref = file[g].ref
      BY <1>1
    <2> QED
      BY <1>i, <1>0, <1>d, <1>2, <2>1, OneLess
  <1>5. DeadClosed'
    BY <1>i, <1>0, <1>3 DEF DeadClosed
  <1>6. CallFile'
    <2>1. \A q \in Procs : pc[q] = "pipe" => fp[q] # f
      <3> SUFFICES ASSUME NEW q \in Procs, pc[q] = "pipe", fp[q] = f PROVE FALSE
        OBVIOUS
      <3>1. q \in Piping(f)
        BY CallHolds DEF Piping, At
      <3> QED
        BY <1>r, <3>1
    <2>2. ASSUME NEW q \in Procs, pc[q] \in InWrite
          PROVE  /\ fp[q] \in Files /\ file'[fp[q]].type = "inode"
                 /\ \E e \in FDs : ofile'[q][e] = fp[q]
      <3>1. PICK e \in FDs : fp[q] \in Files /\ file[fp[q]].type = "inode" /\ ofile[q][e] = fp[q]
        BY <1>i, <2>2 DEF CallFile
      <3>2. q # p
        BY <1>0, <2>2 DEF InWrite
      <3>3. ofile'[q][e] = fp[q]
        BY <1>3, <3>1, <3>2
      <3>4. fp[q] = f => file[f].ref >= 2
        BY <1>r, <3>1, <3>2
      <3> QED
        BY <1>1, <1>2, <3>1, <3>3, <3>4
    <2>3. \A g \in Files : file'[g].type = "inode" => file'[g].ip \in Inodes
      BY <1>i, <1>1, <1>2 DEF CallFile
    <2> QED
      BY <1>i, <1>0, <1>1, <2>1, <2>2, <2>3 DEF CallFile
  <1> QED
    BY <1>4, <1>5, <1>6

LEMMA OtherPiping ==
    ASSUME NEW p \in Procs, NEW g,
           UNCHANGED alive, \A q \in Procs : q # p => pc'[q] = pc[q] /\ fp'[q] = fp[q]
    PROVE  Piping(g)' \ {p} = Piping(g) \ {p}
  BY DEF Piping, At

LEMMA PipeReadFiles ==
    ASSUME FilesInv, NEW p \in Procs, PipeRead(p)
    PROVE  FileRefsExact' /\ DeadClosed' /\ CallFile'
  <1>i. TypeOK /\ FileRefsExact /\ DeadClosed /\ CallFile
    BY DEF FilesInv
  <1>p. PICK f : f = Min(FreeFiles)
    OBVIOUS
  <1>0. /\ f \in Files /\ file[f].ref = 0
        /\ file' = [file EXCEPT ![f] = [FD_NONE EXCEPT !.ref = 1]]
        /\ fp' = [fp EXCEPT ![p] = f]
        /\ pc' = [pc EXCEPT ![p] = "pipe"]
        /\ UNCHANGED <<ofile, alive>>
        /\ p \in alive /\ pc[p] = "user"
    BY <1>p, FreeFile DEF PipeRead, Call, At, Goto
  <1>1. /\ file'[f].ref = 1 /\ file'[f].type = "none"
        /\ \A g \in Files : g # f => file'[g] = file[g]
    BY <1>i, <1>0 DEF TypeOK, FD_NONE
  <1>2. /\ fp'[p] = f /\ pc'[p] = "pipe"
        /\ \A q \in Procs : q # p => pc'[q] = pc[q] /\ fp'[q] = fp[q]
    BY <1>i, <1>0 DEF TypeOK
  <1>3. FileRefsExact'
    <2> SUFFICES ASSUME NEW g \in Files
                 PROVE  file'[g].ref = Cardinality(Descs(g)') + Cardinality(Piping(g)')
      BY ExactNext
    <2>1. Descs(g)' = Descs(g)
      BY <1>0 DEF Descs
    <2>2. Piping(g)' \ {p} = Piping(g) \ {p}
      BY <1>0, <1>2, OtherPiping
    <2>3. p \notin Piping(g)
      BY <1>0 DEF Piping, At
    <2>4. CASE g = f
      <3>1. Descs(g) = {} /\ Piping(g) = {}
        BY <1>i, <1>0, <2>4, Unreferenced
      <3>2. p \in Piping(g)'
        BY <1>0, <1>2, <2>4 DEF Piping, At
      <3>3. Piping(g)' = {p}
        BY <2>2, <3>1, <3>2
      <3>4. Cardinality({p}) = 1 /\ Cardinality({}) = 0
        BY FS_Singleton, FS_EmptySet
      <3>5. Cardinality(Descs(g)') = 0 /\ Cardinality(Piping(g)') = 1
        BY <2>1, <3>1, <3>3, <3>4
      <3> QED
        BY <1>1, <2>4, <3>5
    <2>5. CASE g # f
      <3>1. p \notin Piping(g)'
        BY <1>2, <2>5 DEF Piping, At
      <3>2. Piping(g)' = Piping(g)
        BY <2>2, <2>3, <3>1
      <3>3. file'[g].ref = file[g].ref
        BY <1>1, <2>5
      <3> QED
        BY <1>i, <2>1, <3>2, <3>3, ExactIs
    <2> QED
      BY <2>4, <2>5
  <1>4. DeadClosed'
    BY <1>i, <1>0, <1>2 DEF DeadClosed
  <1>5. CallFile'
    <2>1. \A q \in Procs : pc[q] \in InWrite \union {"pipe"} => fp[q] \in Files /\ fp[q] # f
      BY <1>0, CallHolds
    <2>2. "pipe" \notin InWrite
      BY DEF InWrite
    <2> QED
      BY <1>i, <1>0, <1>1, <1>2, <2>1, <2>2 DEF CallFile
  <1> QED
    BY <1>3, <1>4, <1>5

\* The file that pipe() holds has no other user.
LEMMA OwnFile ==
    ASSUME FilesInv, NEW p \in Procs, pc[p] = "pipe", NEW r, r = fp[p]
    PROVE  r \in Files /\ file[r].ref = 1 /\ Descs(r) = {} /\ Piping(r) = {p} /\ p \in alive
  <1>0. r \in Files /\ file[r].ref = 1 /\ p \in alive
    BY CallHolds DEF FilesInv, CallFile
  <1>1. file[r].ref = Cardinality(Descs(r)) + Cardinality(Piping(r))
    BY <1>0, ExactIs DEF FilesInv
  <1>2. /\ IsFiniteSet(Descs(r)) /\ Cardinality(Descs(r)) \in Nat
        /\ IsFiniteSet(Piping(r)) /\ Cardinality(Piping(r)) \in Nat
    BY <1>0, CountsFinite
  <1>3. p \in Piping(r)
    BY <1>0 DEF Piping, At
  <1>4. Cardinality(Piping(r)) # 0
    BY <1>2, <1>3, FS_EmptySet
  <1>5. Cardinality(Piping(r)) = 1 /\ Cardinality(Descs(r)) = 0
    BY <1>0, <1>1, <1>2, <1>4
  <1>6. \E x : Piping(r) = {x}
    BY <1>2, <1>5, FS_Singleton
  <1>7. Descs(r) = {}
    BY <1>2, <1>5, FS_EmptySet
  <1> QED
    BY <1>0, <1>3, <1>6, <1>7

\* What pipe() does with its two files: they are free again, or each has a
\* descriptor.
LEMMA PipeWriteIs ==
    ASSUME FilesInv, NEW p \in Procs, NEW copied \in BOOLEAN, PipeWrite(p, copied)
    PROVE  \E r \in Files, w \in Files \union {0} :
             /\ pc[p] = "pipe" /\ r = fp[p] /\ r # w /\ (w # 0 => file[w].ref = 0)
             /\ file' \in [Files -> FileEntry]
             /\ \A g \in Files : g # r /\ g # w => file'[g] = file[g]
             /\ file'[r].type # "inode" /\ (w # 0 => file'[w].type # "inode")
             /\ \/ /\ file'[r].ref = 0 /\ (w # 0 => file'[w].ref = 0)
                   /\ UNCHANGED ofile
                \/ /\ file'[r].ref = 1 /\ w # 0 /\ file'[w].ref = 1
                   /\ \E d0, d1 \in FDs :
                        /\ d0 # d1 /\ ofile[p][d0] = 0 /\ ofile[p][d1] = 0
                        /\ \A q \in Procs, e \in FDs :
                             ofile'[q][e] = IF q = p /\ e = d0 THEN r
                                            ELSE IF q = p /\ e = d1 THEN w ELSE ofile[q][e]
  <1>i. TypeOK
    BY DEF FilesInv
  <1>p. PICK r : r = fp[p]
    OBVIOUS
  <1>0. pc[p] = "pipe"
    BY DEF PipeWrite, At
  <1>1. r \in Files /\ file[r].ref = 1
    BY <1>0, <1>p, OwnFile
  <1>n. FD_NONE.type = "none" /\ FD_NONE.ref = 0
    BY DEF FD_NONE
  <1>2. CASE FreeFiles = {}
    <2>1. file' = fileclose(file, r) /\ UNCHANGED ofile
      BY <1>p, <1>2 DEF PipeWrite
    <2>2. ~(file[r].ref > 1)
      BY <1>1
    <2>3. /\ file' \in [Files -> FileEntry]
          /\ \A g \in Files : g # r => file'[g] = file[g]
          /\ file'[r] = FD_NONE
      BY <1>i, <1>1, <2>1, <2>2, CloseIs DEF TypeOK
    <2> QED
      BY <1>0, <1>1, <1>n, <1>p, <2>1, <2>3, NoZero
  <1>3. CASE FreeFiles # {}
    <2>p. PICK w, d0, d1 :
            w = Min(FreeFiles) /\ d0 = Min(FreeFDs(p)) /\ d1 = Min(FreeFDs(p) \ {d0})
      OBVIOUS
    <2>w. w \in Files /\ file[w].ref = 0 /\ w # r
      BY <1>1, <1>3, <2>p, FreeFile
    <2> DEFINE ends == [file EXCEPT ![r].type = "pipe", ![r].readable = TRUE,
                             ![w] = [FD_NONE EXCEPT !.ref = 1, !.type = "pipe",
                                                    !.writable = TRUE]]
    <2>e. /\ ends \in [Files -> FileEntry]
          /\ ends[r].ref = 1 /\ ends[r].type = "pipe"
          /\ ends[w].ref = 1 /\ ends[w].type = "pipe"
          /\ \A g \in Files : g # r /\ g # w => ends[g] = file[g]
      <3>1. file[r] \in FileEntry /\ file[r].ref = 1
        BY <1>i, <1>1 DEF TypeOK
      <3> DEFINE er == [[file[r] EXCEPT !.type = "pipe"] EXCEPT !.readable = TRUE]
                 ew == [FD_NONE EXCEPT !.ref = 1, !.type = "pipe", !.writable = TRUE]
      <3>2. er \in FileEntry /\ er.ref = 1 /\ er.type = "pipe"
        BY <3>1 DEF FileEntry
      <3>3. ew \in FileEntry /\ ew.ref = 1 /\ ew.type = "pipe"
        BY DEF FileEntry, FD_NONE
      <3>4. ends = [file EXCEPT ![r] = er, ![w] = ew]
        BY <1>i, <1>1, <2>w DEF TypeOK, FileEntry
      <3> HIDE DEF er, ew, ends
      <3>5. ends[r] = er /\ ends[w] = ew /\ \A g \in Files : g # r /\ g # w => ends[g] = file[g]
        BY <1>i, <1>1, <2>w, <3>4 DEF TypeOK
      <3>6. ends \in [Files -> FileEntry]
        BY <1>i, <1>1, <2>w, <3>2, <3>3, <3>4 DEF TypeOK
      <3> QED
        BY <3>2, <3>3, <3>5, <3>6
    <2>1. CASE Cardinality(FreeFDs(p)) < 2 \/ ~copied
      <3>1. file' = fileclose(fileclose(ends, r), w) /\ UNCHANGED ofile
        BY <1>p, <1>3, <2>p, <2>1 DEF PipeWrite
      <3> DEFINE t == fileclose(ends, r)
      <3> HIDE DEF ends
      <3>2. /\ t \in [Files -> FileEntry]
            /\ \A g \in Files : g # r => t[g] = ends[g]
            /\ t[r] = FD_NONE
        <4>1. ~(ends[r].ref > 1)
          BY <2>e
        <4> QED
          BY <1>1, <2>e, <4>1, CloseIs
      <3> HIDE DEF t
      <3>3. t[w].ref = 1
        BY <2>e, <2>w, <3>2
      <3>4. /\ file' \in [Files -> FileEntry]
            /\ \A g \in Files : g # w => file'[g] = t[g]
            /\ file'[w] = FD_NONE
        <4>1. ~(t[w].ref > 1)
          BY <3>3
        <4>2. file' = fileclose(t, w)
          BY <3>1 DEF t
        <4> QED
          BY <2>w, <3>2, <4>1, <4>2, CloseIs
      <3>5. file'[r] = FD_NONE /\ file'[w] = FD_NONE /\ \A g \in Files : g # r /\ g # w => file'[g] = file[g]
        BY <1>1, <2>w, <2>e, <3>2, <3>4
      <3> QED
        BY <1>0, <1>1, <1>n, <1>p, <2>w, <3>1, <3>4, <3>5, NoZero
    <2>2. CASE ~(Cardinality(FreeFDs(p)) < 2 \/ ~copied)
      <3>1. file' = ends /\ ofile' = [ofile EXCEPT ![p][d0] = r, ![p][d1] = w]
        BY <1>p, <1>3, <2>p, <2>2 DEF PipeWrite
      <3>2. d0 \in FDs /\ d1 \in FDs /\ d0 # d1 /\ ofile[p][d0] = 0 /\ ofile[p][d1] = 0
        BY <2>2, <2>p, TwoFDs
      <3>3. \A q \in Procs, e \in FDs :
               ofile'[q][e] = IF q = p /\ e = d0 THEN r
                              ELSE IF q = p /\ e = d1 THEN w ELSE ofile[q][e]
        BY <1>i, <3>1, <3>2 DEF TypeOK
      <3> HIDE DEF ends
      <3>4. /\ file' \in [Files -> FileEntry]
            /\ file'[r].ref = 1 /\ file'[r].type = "pipe"
            /\ file'[w].ref = 1 /\ file'[w].type = "pipe"
            /\ \A g \in Files : g # r /\ g # w => file'[g] = file[g]
        BY <2>e, <3>1
      <3> QED
        BY <1>0, <1>1, <1>p, <2>w, <3>2, <3>3, <3>4, NoZero
    <2> QED
      BY <2>1, <2>2
  <1> QED
    BY <1>2, <1>3

LEMMA NoDesc ==
    ASSUME NEW g, Descs(g) = {}
    PROVE  \A q \in Procs, e \in FDs : ofile[q][e] # g
  <1> SUFFICES ASSUME NEW q \in Procs, NEW e \in FDs, ofile[q][e] = g PROVE FALSE
    OBVIOUS
  <1>1. <<q, e>> \in Descs(g)
    BY DEF Descs
  <1> QED
    BY <1>1

LEMMA PipeWriteFiles ==
    ASSUME FilesInv, NEW p \in Procs, NEW copied \in BOOLEAN, PipeWrite(p, copied)
    PROVE  FileRefsExact' /\ DeadClosed' /\ CallFile'
  <1>i. TypeOK /\ FileRefsExact /\ DeadClosed /\ CallFile
    BY DEF FilesInv
  <1>p. PICK r \in Files, w \in Files \union {0} :
             /\ pc[p] = "pipe" /\ r = fp[p] /\ r # w /\ (w # 0 => file[w].ref = 0)
             /\ file' \in [Files -> FileEntry]
             /\ \A g \in Files : g # r /\ g # w => file'[g] = file[g]
             /\ file'[r].type # "inode" /\ (w # 0 => file'[w].type # "inode")
             /\ \/ /\ file'[r].ref = 0 /\ (w # 0 => file'[w].ref = 0)
                   /\ UNCHANGED ofile
                \/ /\ file'[r].ref = 1 /\ w # 0 /\ file'[w].ref = 1
                   /\ \E d0, d1 \in FDs :
                        /\ d0 # d1 /\ ofile[p][d0] = 0 /\ ofile[p][d1] = 0
                        /\ \A q \in Procs, e \in FDs :
                             ofile'[q][e] = IF q = p /\ e = d0 THEN r
                                            ELSE IF q = p /\ e = d1 THEN w ELSE ofile[q][e]
    BY PipeWriteIs
  <1>r. file[r].ref = 1 /\ Descs(r) = {} /\ Piping(r) = {p} /\ p \in alive
    BY <1>p, OwnFile
  <1>1. /\ pc'[p] = "user" /\ UNCHANGED alive
        /\ \A q \in Procs : q # p => pc'[q] = pc[q] /\ fp'[q] = fp[q]
    BY <1>i DEF PipeWrite, Goto, TypeOK
  <1>c. \A c \in Procs \X FDs : c = <<c[1], c[2]>> /\ c[1] \in Procs /\ c[2] \in FDs
    OBVIOUS
  <1>2. FileRefsExact'
    <2> SUFFICES ASSUME NEW g \in Files
                 PROVE  file'[g].ref = Cardinality(Descs(g)') + Cardinality(Piping(g)')
      BY ExactNext
    <2>1. Piping(g)' = Piping(g) \ {p}
      <3>1. Piping(g)' \ {p} = Piping(g) \ {p}
        BY <1>1, OtherPiping
      <3>2. p \notin Piping(g)'
        BY <1>1 DEF Piping, At
      <3> QED
        BY <3>1, <3>2
    <2>2. CASE g = r
      <3>1. Piping(g)' = {}
        BY <1>r, <2>1, <2>2
      <3>2. Cardinality({}) = 0
        BY FS_EmptySet
      <3>3. CASE UNCHANGED ofile /\ file'[r].ref = 0
        <4>1. Descs(g)' = {}
          BY <1>r, <2>2, <3>3 DEF Descs
        <4> QED
          BY <2>2, <3>1, <3>2, <3>3, <4>1
      <3>4. ASSUME NEW d0 \in FDs, NEW d1 \in FDs, d0 # d1, file'[r].ref = 1,
                   \A q \in Procs, e \in FDs :
                             ofile'[q][e] = IF q = p /\ e = d0 THEN r
                                            ELSE IF q = p /\ e = d1 THEN w ELSE ofile[q][e]
            PROVE  file'[g].ref = Cardinality(Descs(g)') + Cardinality(Piping(g)')
        <4>1. Descs(g)' = {<<p, d0>>}
          <5>1. \A q \in Procs, e \in FDs : ofile[q][e] # r
            BY <1>r, NoDesc
          <5>2. \A q \in Procs, e \in FDs : ofile'[q][e] = r <=> q = p /\ e = d0
            BY <1>p, <3>4, <5>1
          <5> QED
            BY <1>c, <2>2, <5>2 DEF Descs
        <4>2. Cardinality({<<p, d0>>}) = 1
          BY FS_Singleton
        <4>3. Cardinality(Descs(g)') = 1 /\ Cardinality(Piping(g)') = 0
          BY <3>1, <3>2, <4>1, <4>2
        <4> QED
          BY <2>2, <3>4, <4>3
      <3> QED
        BY <1>p, <3>3, <3>4
    <2>3. CASE g = w
      <3>1. Descs(g) = {} /\ Piping(g) = {}
        BY <1>i, <1>p, <2>3, Unreferenced, NoZero
      <3>2. Cardinality({}) = 0 /\ Piping(g)' = {}
        BY <2>1, <3>1, FS_EmptySet
      <3>3. CASE UNCHANGED ofile /\ file'[g].ref = 0
        <4>1. Descs(g)' = {}
          BY <3>1, <3>3 DEF Descs
        <4> QED
          BY <3>2, <3>3, <4>1
      <3>4. ASSUME NEW d0 \in FDs, NEW d1 \in FDs, d0 # d1, file'[g].ref = 1,
                   \A q \in Procs, e \in FDs :
                             ofile'[q][e] = IF q = p /\ e = d0 THEN r
                                            ELSE IF q = p /\ e = d1 THEN w ELSE ofile[q][e]
            PROVE  file'[g].ref = Cardinality(Descs(g)') + Cardinality(Piping(g)')
        <4>1. Descs(g)' = {<<p, d1>>}
          <5>1. \A q \in Procs, e \in FDs : ofile[q][e] # g
            BY <3>1, NoDesc
          <5>2. \A q \in Procs, e \in FDs : ofile'[q][e] = g <=> q = p /\ e = d1
            BY <1>p, <2>3, <3>4, <5>1
          <5> QED
            BY <1>c, <5>2 DEF Descs
        <4>2. Cardinality({<<p, d1>>}) = 1
          BY FS_Singleton
        <4>3. Cardinality(Descs(g)') = 1 /\ Cardinality(Piping(g)') = 0
          BY <3>2, <4>1, <4>2
        <4> QED
          BY <3>4, <4>3
      <3> QED
        BY <1>p, <2>3, <3>3, <3>4, NoZero
    <2>4. CASE g # r /\ g # w
      <3>1. p \notin Piping(g)
        BY <1>p, <2>4 DEF Piping
      <3>2. Piping(g)' = Piping(g)
        BY <2>1, <3>1
      <3>3. \A q \in Procs, e \in FDs : ofile'[q][e] = g <=> ofile[q][e] = g
        BY <1>p, <2>4, NoZero
      <3>4. Descs(g)' = Descs(g)
        BY <1>c, <3>3 DEF Descs
      <3>5. file'[g].ref = file[g].ref
        BY <1>p, <2>4
      <3> QED
        BY <1>i, <3>2, <3>4, <3>5, ExactIs
    <2> QED
      BY <2>2, <2>3, <2>4
  <1>3. DeadClosed'
    BY <1>i, <1>p, <1>r, <1>1 DEF DeadClosed
  <1>4. CallFile'
    <2>1. \A q \in Procs : q # p /\ pc[q] = "pipe" => fp[q] # r
      BY <1>r, CallHolds DEF Piping, At
    <2>2. \A q \in Procs : pc[q] \in InWrite \union {"pipe"} => fp[q] \in Files /\ fp[q] # w
      BY <1>p, CallHolds, NoZero
    <2>3. ASSUME NEW q \in Procs, pc[q] \in InWrite
          PROVE  /\ fp[q] \in Files /\ fp[q] # r /\ file[fp[q]].type = "inode"
                 /\ \E e \in FDs : ofile'[q][e] = fp[q]
      <3>1. PICK e \in FDs : fp[q] \in Files /\ file[fp[q]].type = "inode" /\ ofile[q][e] = fp[q]
        BY <1>i, <2>3 DEF CallFile
      <3>2. fp[q] # r
        BY <1>r, <3>1, NoDesc
      <3>3. q # p
        BY <1>p, <2>3 DEF InWrite
      <3>4. ofile'[q][e] = ofile[q][e]
        BY <1>p, <3>3
      <3> QED
        BY <3>1, <3>2, <3>4
    <2>4. \A g \in Files : file'[g].type = "inode" => file'[g].ip \in Inodes
      BY <1>i, <1>p, NoZero DEF CallFile
    <2>5. \A q \in Procs : pc'[q] = "pipe" => fp'[q] \in Files /\ file'[fp'[q]].ref = 1
      BY <1>i, <1>p, <1>1, <2>1, <2>2 DEF CallFile
    <2>6. \A q \in Procs : pc'[q] \in InWrite =>
             /\ fp'[q] \in Files /\ file'[fp'[q]].type = "inode"
             /\ \E e \in FDs : ofile'[q][e] = fp'[q]
      <3> SUFFICES ASSUME NEW q \in Procs, pc'[q] \in InWrite
                   PROVE  /\ fp'[q] \in Files /\ file'[fp'[q]].type = "inode"
                          /\ \E e \in FDs : ofile'[q][e] = fp'[q]
        OBVIOUS
      <3>1. q # p /\ pc'[q] = pc[q] /\ fp'[q] = fp[q]
        BY <1>1 DEF InWrite
      <3>2. file'[fp[q]] = file[fp[q]]
        BY <1>p, <2>2, <2>3, <3>1
      <3> QED
        BY <2>3, <3>1, <3>2
    <2> QED
      BY <2>4, <2>5, <2>6 DEF CallFile
  <1> QED
    BY <1>2, <1>3, <1>4

LEMMA ForkFiles ==
    ASSUME FilesInv, NEW p \in Procs, NEW q \in Procs, Fork(p, q)
    PROVE  /\ FileRefsExact' /\ DeadClosed' /\ CallFile'
           /\ file' \in [Files -> FileEntry]
  <1>i. TypeOK /\ FileRefsExact /\ DeadClosed /\ CallFile
    BY DEF FilesInv
  <1> DEFINE S(g) == {d \in FDs : ofile[p][d] = g}
  <1>0. /\ p \in alive /\ pc[p] = "user" /\ q \notin alive /\ alive' = alive \union {q}
        /\ ofile' = [ofile EXCEPT ![q] = ofile[p]]
        /\ file' = [g \in Files |-> [file[g] EXCEPT !.ref = @ + Cardinality(S(g))]]
        /\ UNCHANGED <<pc, fp>>
    BY DEF Fork, Call, At, regs
  <1>1. \A g : IsFiniteSet(S(g)) /\ Cardinality(S(g)) \in Nat
    <2> TAKE g
    <2>1. S(g) \in SUBSET FDs
      OBVIOUS
    <2> QED
      BY <2>1, FDsFinite, FS_Subset, FS_CardinalityType
  <1>2. /\ file' \in [Files -> FileEntry]
        /\ \A g \in Files : /\ file'[g].ref = file[g].ref + Cardinality(S(g))
                            /\ file'[g].type = file[g].type /\ file'[g].ip = file[g].ip
    <2> SUFFICES ASSUME NEW g \in Files
                 PROVE  /\ [file[g] EXCEPT !.ref = @ + Cardinality(S(g))] \in FileEntry
                        /\ file'[g].ref = file[g].ref + Cardinality(S(g))
                        /\ file'[g].type = file[g].type /\ file'[g].ip = file[g].ip
      BY <1>0
    <2>1. file[g] \in FileEntry /\ Cardinality(S(g)) \in Nat
      BY <1>i, <1>1 DEF TypeOK
    <2>2. file'[g] = [file[g] EXCEPT !.ref = @ + Cardinality(S(g))]
      BY <1>0
    <2> HIDE DEF S
    <2> QED
      BY <2>1, <2>2 DEF FileEntry
  <1>3. \A x \in Procs, e \in FDs : ofile'[x][e] = IF x = q THEN ofile[p][e] ELSE ofile[x][e]
    BY <1>i, <1>0 DEF TypeOK
  <1>4. pc[q] = "user" /\ q # p /\ \A e \in FDs : ofile[q][e] = 0
    BY <1>i, <1>0 DEF DeadClosed
  <1>5. FileRefsExact'
    <2> SUFFICES ASSUME NEW g \in Files
                 PROVE  file'[g].ref = Cardinality(Descs(g)') + Cardinality(Piping(g)')
      BY ExactNext
    <2>1. Piping(g)' = Piping(g)
      BY <1>0, <1>4 DEF Piping, At
    <2>2. Descs(g)' = Descs(g) \union ({q} \X S(g))
      <3>1. \A c \in Procs \X FDs : c = <<c[1], c[2]>> /\ c[1] \in Procs /\ c[2] \in FDs
        OBVIOUS
      <3>2. \A x \in Procs, e \in FDs :
              ofile'[x][e] = g <=> ofile[x][e] = g \/ (x = q /\ e \in S(g))
        BY <1>3, <1>4, NoZero
      <3>3. \A x, e : <<x, e>> \in {q} \X S(g) <=> x = q /\ e \in S(g)
        OBVIOUS
      <3>4. {q} \X S(g) \subseteq Procs \X FDs
        OBVIOUS
      <3>5. \A x \in Procs, e \in FDs :
              <<x, e>> \in Descs(g)' <=> <<x, e>> \in Descs(g) \union ({q} \X S(g))
        BY <3>2, <3>3 DEF Descs
      <3>6. Descs(g)' \subseteq Procs \X FDs /\ Descs(g) \subseteq Procs \X FDs
        BY DEF Descs
      <3> QED
        BY <3>1, <3>4, <3>5, <3>6
    <2>3. Descs(g) \cap ({q} \X S(g)) = {}
      BY <1>4, NoZero DEF Descs
    <2>4. IsFiniteSet({q} \X S(g)) /\ Cardinality({q} \X S(g)) = Cardinality(S(g))
      <3>1. IsFiniteSet({q}) /\ Cardinality({q}) = 1
        BY FS_Singleton
      <3>2. /\ IsFiniteSet({q} \X S(g))
            /\ Cardinality({q} \X S(g)) = Cardinality({q}) * Cardinality(S(g))
        BY <1>1, <3>1, FS_Product
      <3>3. Cardinality(S(g)) \in Nat
        BY <1>1
      <3> HIDE DEF S
      <3> QED
        BY <3>1, <3>2, <3>3
    <2>5. IsFiniteSet(Descs(g)) /\ Cardinality(Descs(g)) \in Nat /\ Cardinality(Piping(g)) \in Nat
      BY CountsFinite
    <2>6. Cardinality(Descs(g)') = Cardinality(Descs(g)) + Cardinality(S(g))
      <3>1. Cardinality(Descs(g) \union ({q} \X S(g))) =
               Cardinality(Descs(g)) + Cardinality({q} \X S(g)) - Cardinality(Descs(g) \cap ({q} \X S(g)))
        BY <2>4, <2>5, FS_Union
      <3>2. Cardinality(Descs(g) \cap ({q} \X S(g))) = 0
        BY <2>3, FS_EmptySet
      <3>3. Cardinality(S(g)) \in Nat
        BY <1>1
      <3>4. Cardinality(Descs(g)') = Cardinality(Descs(g) \union ({q} \X S(g)))
        BY <2>2
      <3> HIDE DEF S
      <3> QED
        BY <2>4, <2>5, <3>1, <3>2, <3>3, <3>4
    <2>7. file[g].ref = Cardinality(Descs(g)) + Cardinality(Piping(g))
      BY <1>i, ExactIs
    <2>8. file'[g].ref = file[g].ref + Cardinality(S(g)) /\ Cardinality(S(g)) \in Nat
      BY <1>1, <1>2
    <2> HIDE DEF S
    <2> QED
      BY <2>1, <2>5, <2>6, <2>7, <2>8
  <1>6. DeadClosed'
    BY <1>i, <1>0, <1>3, <1>4 DEF DeadClosed
  <1>7. CallFile'
    <2>1. \A x \in Procs : pc[x] = "pipe" => fp[x] \in Files /\ file'[fp[x]].ref = 1
      <3> SUFFICES ASSUME NEW x \in Procs, pc[x] = "pipe"
                   PROVE  fp[x] \in Files /\ file'[fp[x]].ref = 1
        OBVIOUS
      <3>p. PICK r : r = fp[x]
        OBVIOUS
      <3>1. r \in Files /\ file[r].ref = 1 /\ Descs(r) = {}
        BY <3>p, OwnFile
      <3>2. S(r) = {}
        BY <3>1, NoDesc
      <3>3. Cardinality(S(r)) = 0
        BY <3>2, FS_EmptySet
      <3>4. file'[r].ref = file[r].ref + Cardinality(S(r))
        BY <1>2, <3>1
      <3> HIDE DEF S
      <3> QED
        BY <3>p, <3>1, <3>3, <3>4
    <2>2. \A x \in Procs : pc[x] \in InWrite =>
             /\ fp[x] \in Files /\ file'[fp[x]].type = "inode"
             /\ \E e \in FDs : ofile'[x][e] = fp[x]
      <3> SUFFICES ASSUME NEW x \in Procs, pc[x] \in InWrite
                   PROVE  /\ fp[x] \in Files /\ file'[fp[x]].type = "inode"
                          /\ \E e \in FDs : ofile'[x][e] = fp[x]
        OBVIOUS
      <3>1. x # q
        BY <1>4 DEF InWrite
      <3>2. /\ fp[x] \in Files /\ file[fp[x]].type = "inode"
            /\ \E e \in FDs : ofile[x][e] = fp[x]
        BY <1>i DEF CallFile
      <3> HIDE DEF S
      <3> QED
        BY <1>2, <1>3, <3>1, <3>2
    <2>3. \A g \in Files : file'[g].type = "inode" => file'[g].ip \in Inodes
      <3> HIDE DEF S
      <3> QED
        BY <1>i, <1>2 DEF CallFile
    <2>4. UNCHANGED <<pc, fp>>
      BY <1>0
    <2> HIDE DEF S
    <2> QED
      BY <2>1, <2>2, <2>3, <2>4 DEF CallFile
  <1> QED
    BY <1>2, <1>5, <1>6, <1>7

----------------------------------------------------------------------------
(* Blocks *)

LEMMA BallocIs ==
    ASSUME NEW u \in SUBSET Blocks
    PROVE  /\ balloc(u) \in Blocks \union {0}
           /\ balloc(u) # 0 => balloc(u) \in Blocks /\ balloc(u) \notin u
           /\ u # Blocks => balloc(u) # 0
  <1>1. CASE u = Blocks
    BY <1>1 DEF balloc
  <1>2. CASE u # Blocks
    <2>1. Blocks \ u # {} /\ Blocks \ u \in SUBSET Nat
      <3>1. Blocks \in SUBSET Nat
        BY Sizes DEF Blocks
      <3> QED
        BY <1>2, <3>1
    <2>2. Min(Blocks \ u) \in Blocks \ u
      BY <2>1, Smallest
    <2>3. balloc(u) = Min(Blocks \ u)
      BY <1>2 DEF balloc
    <2> QED
      BY <2>2, <2>3, NoZero
  <1> QED
    BY <1>1, <1>2

\* The five ways through bmap().
Found(k, i, bn) ==
    /\ BlockOf(i, bn) # 0
    /\ k = [addr |-> BlockOf(i, bn), a |-> addrs[i], q |-> ptr, u |-> used, log |-> {}]

Full(k, i, bn) ==
    /\ BlockOf(i, bn) = 0
    /\ k = [addr |-> 0, a |-> addrs[i], q |-> ptr, u |-> used, log |-> {}]

NewDirect(k, i, bn) ==
    \E b \in Blocks \ used :
        /\ BlockOf(i, bn) = 0 /\ bn < NDIRECT
        /\ k = [addr |-> b, a |-> [addrs[i] EXCEPT ![bn] = b], q |-> ptr,
                u |-> used \union {b}, log |-> BitmapBlocks({b}) \union {<<"block", b>>}]

NewIndirect(k, i, bn) ==
    \E b \in Blocks \ used :
        /\ BlockOf(i, bn) = 0 /\ bn >= NDIRECT /\ addrs[i][NDIRECT] # 0
        /\ k = [addr |-> b, a |-> addrs[i],
                q |-> [ptr EXCEPT ![addrs[i][NDIRECT]][bn - NDIRECT] = b],
                u |-> used \union {b},
                log |-> BitmapBlocks({b}) \union {<<"block", b>>, <<"block", addrs[i][NDIRECT]>>}]

NewTable(k, i, bn) ==
    \E c \in Blocks \ used :
        /\ BlockOf(i, bn) = 0 /\ bn >= NDIRECT /\ addrs[i][NDIRECT] = 0
        /\ \/ k = [addr |-> 0, a |-> [addrs[i] EXCEPT ![NDIRECT] = c], q |-> ptr,
                   u |-> used \union {c}, log |-> BitmapBlocks({c}) \union {<<"block", c>>}]
           \/ \E b \in Blocks \ (used \union {c}) :
                k = [addr |-> b, a |-> [addrs[i] EXCEPT ![NDIRECT] = c],
                     q |-> [ptr EXCEPT ![c][bn - NDIRECT] = b],
                     u |-> (used \union {c}) \union {b},
                     log |-> (BitmapBlocks({c}) \union {<<"block", c>>})
                             \union BitmapBlocks({b}) \union {<<"block", b>>, <<"block", c>>}]

LEMMA BmapIs ==
    ASSUME TypeOK, NEW i \in Inodes, NEW bn \in 0..MAXFILE - 1, NEW k, k = bmap(i, bn)
    PROVE  \/ Found(k, i, bn) \/ Full(k, i, bn) \/ NewDirect(k, i, bn)
           \/ NewIndirect(k, i, bn) \/ NewTable(k, i, bn)
  <1>u. used \in SUBSET Blocks
    BY DEF TypeOK
  <1>p. PICK new : new = balloc(used)
    OBVIOUS
  <1>n. new \in Blocks \union {0} /\ (new # 0 => new \in Blocks \ used)
    BY <1>u, <1>p, BallocIs
  <1>z. 0 \notin Blocks /\ bn \in Int /\ NDIRECT \in Int
    BY NoZero, Sizes DEF MAXFILE
  <1>1. CASE BlockOf(i, bn) # 0
    BY <1>1 DEF bmap, Found
  <1>2. CASE BlockOf(i, bn) = 0 /\ bn < NDIRECT
    <2>1. CASE new = 0
      BY <1>2, <1>p, <2>1 DEF bmap, Full
    <2>2. CASE new # 0
      BY <1>2, <1>p, <1>n, <2>2 DEF bmap, NewDirect
    <2> QED
      BY <2>1, <2>2
  <1>3. CASE BlockOf(i, bn) = 0 /\ ~(bn < NDIRECT) /\ addrs[i][NDIRECT] # 0
    <2>1. CASE new = 0
      BY <1>3, <1>p, <2>1 DEF bmap, Full
    <2>2. CASE new # 0
      <3> DEFINE log == BitmapBlocks({new})
                          \union {<<"block", new>>, <<"block", addrs[i][NDIRECT]>>}
      <3>1. k = [addr |-> new, a |-> addrs[i],
                 q |-> [ptr EXCEPT ![addrs[i][NDIRECT]][bn - NDIRECT] = new],
                 u |-> used \union {new},
                 log |-> {} \union BitmapBlocks({new})
                             \union {<<"block", new>>, <<"block", addrs[i][NDIRECT]>>}]
        BY <1>3, <1>p, <2>2 DEF bmap
      <3>2. {} \union BitmapBlocks({new})
               \union {<<"block", new>>, <<"block", addrs[i][NDIRECT]>>} = log
        OBVIOUS
      <3>3. k = [addr |-> new, a |-> addrs[i],
                 q |-> [ptr EXCEPT ![addrs[i][NDIRECT]][bn - NDIRECT] = new],
                 u |-> used \union {new}, log |-> log]
        BY <3>1, <3>2
      <3>4. bn >= NDIRECT
        BY <1>3, <1>z
      <3> QED
        BY <1>3, <1>n, <2>2, <3>3, <3>4 DEF NewIndirect
    <2> QED
      BY <2>1, <2>2
  <1>4. CASE BlockOf(i, bn) = 0 /\ ~(bn < NDIRECT) /\ addrs[i][NDIRECT] = 0
    <2>1. CASE new = 0
      BY <1>4, <1>p, <2>1 DEF bmap, Full
    <2>2. CASE new # 0
      <3>p. PICK new2 : new2 = balloc(used \union {new})
        OBVIOUS
      <3>n. new2 \in Blocks \union {0} /\ (new2 # 0 => new2 \in Blocks \ (used \union {new}))
        <4>1. used \union {new} \in SUBSET Blocks
          BY <1>u, <1>n, <2>2
        <4> QED
          BY <3>p, <4>1, BallocIs
      <3> DEFINE log1 == BitmapBlocks({new}) \union {<<"block", new>>}
                 a1 == [addrs[i] EXCEPT ![NDIRECT] = new]
      <3>a. bn >= NDIRECT
        BY <1>4, <1>z
      <3>1. CASE new2 = 0
        <4>1. k = [addr |-> 0, a |-> a1, q |-> ptr, u |-> used \union {new}, log |-> log1]
          BY <1>4, <1>p, <2>2, <3>p, <3>1 DEF bmap
        <4> QED
          BY <1>4, <1>n, <2>2, <3>a, <4>1 DEF NewTable
      <3>2. CASE new2 # 0
        <4>1. k = [addr |-> new2, a |-> a1, q |-> [ptr EXCEPT ![new][bn - NDIRECT] = new2],
                   u |-> (used \union {new}) \union {new2},
                   log |-> log1 \union BitmapBlocks({new2})
                                \union {<<"block", new2>>, <<"block", new>>}]
          BY <1>4, <1>p, <2>2, <3>p, <3>2 DEF bmap
        <4> QED
          BY <1>4, <1>n, <2>2, <3>a, <3>n, <3>2, <4>1 DEF NewTable
      <3> QED
        BY <3>1, <3>2
    <2> QED
      BY <2>1, <2>2
  <1> QED
    BY <1>1, <1>2, <1>3, <1>4

----------------------------------------------------------------------------
(* The calls that leave the references alone *)

LEMMA KeepsFiles ==
    ASSUME FilesInv, NEW p \in Procs, p \in alive, UNCHANGED ofile,
           pc[p] # "pipe", pc'[p] # "pipe",
           \A q \in Procs : q # p => pc'[q] = pc[q] /\ fp'[q] = fp[q],
           \A g \in Files : /\ file'[g].ref = file[g].ref /\ file'[g].type = file[g].type
                            /\ file'[g].ip = file[g].ip,
           pc'[p] \in InWrite => /\ fp'[p] \in Files /\ file[fp'[p]].type = "inode"
                                 /\ \E d \in FDs : ofile[p][d] = fp'[p],
           \/ UNCHANGED alive
           \/ alive' = alive \ {p} /\ pc'[p] = "user" /\ \A d \in FDs : ofile[p][d] = 0
    PROVE  FileRefsExact' /\ DeadClosed' /\ CallFile'
  <1>i. FileRefsExact /\ DeadClosed /\ CallFile
    BY DEF FilesInv
  <1>1. \A g \in Files : Piping(g)' = Piping(g)
    BY DEF Piping, At
  <1>2. FileRefsExact'
    BY <1>i, <1>1, SameFiles
  <1>3. DeadClosed'
    BY <1>i DEF DeadClosed
  <1>4. \A q \in Procs : pc'[q] = "pipe" => fp'[q] \in Files /\ file'[fp'[q]].ref = 1
    BY <1>i DEF CallFile
  <1>5. \A q \in Procs : pc'[q] \in InWrite =>
           /\ fp'[q] \in Files /\ file'[fp'[q]].type = "inode"
           /\ \E d \in FDs : ofile'[q][d] = fp'[q]
    BY <1>i DEF CallFile
  <1>6. \A g \in Files : file'[g].type = "inode" => file'[g].ip \in Inodes
    BY <1>i DEF CallFile
  <1> QED
    BY <1>2, <1>3, <1>4, <1>5, <1>6 DEF CallFile

LEMMA ExitFiles ==
    ASSUME FilesInv, NEW p \in Procs, Exit(p) \/ Exited(p)
    PROVE  FileRefsExact' /\ DeadClosed' /\ CallFile'
  <1>i. TypeOK
    BY DEF FilesInv
  <1>1. CASE Exit(p)
    <2>1. p \in alive /\ pc[p] = "user" /\ pc' = [pc EXCEPT ![p] = "exit"] /\ UNCHANGED <<files, fp>>
      BY <1>1 DEF Exit, Call, At, Goto, regs
    <2> QED
      BY <1>i, <2>1, KeepsFiles DEF TypeOK, InWrite, files
  <1>2. CASE Exited(p)
    <2>1. /\ p \in alive /\ pc[p] = "exit" /\ pc' = [pc EXCEPT ![p] = "user"]
          /\ UNCHANGED <<file, ofile, fp>> /\ alive' = alive \ {p}
          /\ \A d \in FDs : ofile[p][d] = 0
      BY <1>2 DEF Exited, At, Goto, regs, FreeFDs
    <2> QED
      BY <1>i, <2>1, KeepsFiles DEF TypeOK, InWrite
  <1> QED
    BY <1>1, <1>2

LEMMA ReadIs ==
    ASSUME FilesInv, NEW p \in Procs, NEW d \in FDs, NEW n \in Counts, NEW copied \in BOOLEAN,
           Read(p, d, n, copied)
    PROVE  \E f \in Files, r \in Nat :
             /\ p \in alive /\ pc[p] = "user"
             /\ file[f].ip \in Inodes /\ lock[file[f].ip] = None
             /\ file[f].off + r <= size[file[f].ip] \/ r = 0
             /\ file' = [file EXCEPT ![f].off = @ + r] \/ file' = file
             /\ wrong' = (wrong \/ \E k \in file[f].off..file[f].off + r - 1 :
                                     BlockOf(file[f].ip, k \div BSIZE) = 0)
             /\ UNCHANGED <<ofile, alive, blocks, lock, pc, regs, logged>>
  <1>i. TypeOK /\ CallFile
    BY DEF FilesInv
  <1>p. PICK f : f = ofile[p][d]
    OBVIOUS
  <1>q. PICK i : i = file[f].ip
    OBVIOUS
  <1>1. f \in Files /\ file[f].type = "inode"
    BY <1>i, <1>p DEF Read, TypeOK
  <1>2. i \in Inodes /\ file[f].off \in Nat /\ size[i] \in Nat
    BY <1>i, <1>q, <1>1 DEF TypeOK, CallFile, FileEntry
  <1>r. PICK r : r = IF file[f].off > size[i] THEN 0 ELSE Min({n, size[i] - file[f].off})
    OBVIOUS
  <1>3. r \in Nat /\ (file[f].off + r <= size[i] \/ r = 0)
    <2>1. CASE file[f].off > size[i]
      BY <1>r, <2>1
    <2>2. CASE ~(file[f].off > size[i])
      <3>1. size[i] - file[f].off \in Nat /\ n \in Nat
        BY <1>2, <2>2, FileAssumption
      <3>2. r = IF n <= size[i] - file[f].off THEN n ELSE size[i] - file[f].off
        BY <1>r, <2>2, <3>1, MinTwo
      <3> QED
        BY <1>2, <3>1, <3>2
    <2> QED
      BY <2>1, <2>2
  <1>4. /\ p \in alive /\ pc[p] = "user" /\ lock[i] = None
        /\ file' = [file EXCEPT ![f].off = @ + r] \/ file' = file
        /\ wrong' = (wrong \/ \E k \in file[f].off..file[f].off + r - 1 :
                                BlockOf(i, k \div BSIZE) = 0)
        /\ UNCHANGED <<ofile, alive, blocks, lock, pc, regs, logged>>
    BY <1>p, <1>q, <1>r DEF Read, Call, At
  <1> QED
    BY <1>q, <1>1, <1>2, <1>3, <1>4

\* The entry of file f with another offset.
LEMMA MovedIs ==
    ASSUME TypeOK, NEW f \in Files, NEW r \in Nat, file' = [file EXCEPT ![f].off = @ + r]
    PROVE  /\ file' \in [Files -> FileEntry]
           /\ \A g \in Files : /\ file'[g].ref = file[g].ref /\ file'[g].type = file[g].type
                               /\ file'[g].ip = file[g].ip
                               /\ g # f => file'[g] = file[g]
           /\ file'[f].off = file[f].off + r
  <1>1. file \in [Files -> FileEntry]
    BY DEF TypeOK
  <1> QED
    BY <1>1 DEF FileEntry

LEMMA ReadFiles ==
    ASSUME FilesInv, NEW p \in Procs, NEW d \in FDs, NEW n \in Counts, NEW copied \in BOOLEAN,
           Read(p, d, n, copied)
    PROVE  FileRefsExact' /\ DeadClosed' /\ CallFile' /\ file' \in [Files -> FileEntry]
  <1>i. TypeOK
    BY DEF FilesInv
  <1>1. PICK f \in Files, r \in Nat :
          /\ p \in alive /\ pc[p] = "user"
          /\ file' = [file EXCEPT ![f].off = @ + r] \/ file' = file
          /\ UNCHANGED <<ofile, alive, pc, fp>>
    BY ReadIs DEF regs
  <1>2. /\ file' \in [Files -> FileEntry]
        /\ \A g \in Files : /\ file'[g].ref = file[g].ref /\ file'[g].type = file[g].type
                            /\ file'[g].ip = file[g].ip
    <2>1. CASE file' = [file EXCEPT ![f].off = @ + r]
      BY <1>i, <2>1, MovedIs
    <2>2. CASE file' = file
      BY <1>i, <2>2 DEF TypeOK
    <2> QED
      BY <1>1, <2>1, <2>2
  <1>3. pc'[p] \notin InWrite
    BY <1>1 DEF InWrite
  <1>4. FileRefsExact' /\ DeadClosed' /\ CallFile'
    BY <1>1, <1>2, <1>3, KeepsFiles
  <1> QED
    BY <1>2, <1>4

\* The file and the inode of a write().
LEMMA InCall ==
    ASSUME FilesInv, NEW p \in Procs, pc[p] \in InWrite
    PROVE  /\ p \in alive /\ fp[p] \in Files /\ file[fp[p]].type = "inode"
           /\ Ip(p) \in Inodes /\ Off(p) \in Nat
           /\ \E d \in FDs : ofile[p][d] = fp[p]
  <1>1. TypeOK /\ CallFile /\ DeadClosed
    BY DEF FilesInv
  <1>2. /\ fp[p] \in Files /\ file[fp[p]].type = "inode"
        /\ \E d \in FDs : ofile[p][d] = fp[p]
    BY <1>1 DEF CallFile
  <1>3. p \in alive
    BY <1>1 DEF DeadClosed, InWrite
  <1>4. Ip(p) \in Inodes
    BY <1>1, <1>2 DEF CallFile, Ip
  <1>5. Off(p) \in Nat
    BY <1>1, <1>2 DEF TypeOK, FileEntry, Off
  <1> QED
    BY <1>2, <1>3, <1>4, <1>5

LEMMA WriteFiles ==
    ASSUME FilesInv, NEW p \in Procs,
           \/ \E d \in FDs, n \in Counts : Write(p, d, n)
           \/ WriteChunk(p) \/ WriteReturn(p)
           \/ \E got \in 0..BSIZE : WriteBlock(p, got)
    PROVE  FileRefsExact' /\ DeadClosed' /\ CallFile'
  <1>i. TypeOK
    BY DEF FilesInv
  <1>1. CASE \E d \in FDs, n \in Counts : Write(p, d, n)
    <2>0. PICK d \in FDs, n \in Counts : Write(p, d, n)
      BY <1>1
    <2>1. /\ p \in alive /\ pc[p] = "user" /\ pc' = [pc EXCEPT ![p] = "write"]
          /\ UNCHANGED files /\ fp' = [fp EXCEPT ![p] = ofile[p][d]]
          /\ ofile[p][d] # 0 /\ file[ofile[p][d]].type = "inode"
      BY <2>0 DEF Write, Call, At, Goto
    <2>2. fp'[p] = ofile[p][d] /\ fp'[p] \in Files
      BY <1>i, <2>1 DEF TypeOK
    <2>3. pc'[p] = "write"
      BY <1>i, <2>1 DEF TypeOK
    <2>4. \A q \in Procs : q # p => pc'[q] = pc[q] /\ fp'[q] = fp[q]
      BY <1>i, <2>1 DEF TypeOK
    <2> QED
      BY <2>1, <2>2, <2>3, <2>4, KeepsFiles DEF files
  <1>2. CASE WriteChunk(p) \/ \E got \in 0..BSIZE : WriteBlock(p, got)
    <2>1. /\ pc[p] \in InWrite /\ UNCHANGED <<files, fp>>
          /\ \/ UNCHANGED pc
             \/ pc' = [pc EXCEPT ![p] = "writei"] \/ pc' = [pc EXCEPT ![p] = "writei_end"]
      BY <1>2 DEF WriteChunk, WriteBlock, At, Goto, InWrite
    <2>2. pc[p] # "pipe" /\ pc'[p] # "pipe" /\ \A q \in Procs : q # p => pc'[q] = pc[q]
      BY <1>i, <2>1 DEF TypeOK, InWrite
    <2>3. /\ p \in alive /\ fp[p] \in Files /\ file[fp[p]].type = "inode"
          /\ \E d \in FDs : ofile[p][d] = fp[p]
      BY <2>1, InCall
    <2> QED
      BY <2>1, <2>2, <2>3, KeepsFiles DEF files
  <1>3. CASE WriteReturn(p)
    <2>1. /\ p \in alive /\ pc[p] = "write" /\ UNCHANGED files
          /\ pc' = [pc EXCEPT ![p] = "user"] /\ fp' = [fp EXCEPT ![p] = 0]
      BY <1>3 DEF WriteReturn, At, Goto
    <2>2. pc'[p] = "user" /\ \A q \in Procs : q # p => pc'[q] = pc[q] /\ fp'[q] = fp[q]
      BY <1>i, <2>1 DEF TypeOK
    <2> QED
      BY <2>1, <2>2, KeepsFiles DEF files, InWrite
  <1> QED
    BY <1>1, <1>2, <1>3

LEMMA WriteEndFiles ==
    ASSUME FilesInv, NEW p \in Procs, WriteEnd(p)
    PROVE  FileRefsExact' /\ DeadClosed' /\ CallFile' /\ file' \in [Files -> FileEntry]
  <1>i. TypeOK
    BY DEF FilesInv
  <1>1. /\ pc[p] \in InWrite /\ UNCHANGED <<ofile, alive, fp>>
        /\ pc' = [pc EXCEPT ![p] = "write"]
        /\ file' = [file EXCEPT ![fp[p]].off = @ + tot[p]]
    BY DEF WriteEnd, At, Goto, InWrite
  <1>p. PICK f, t : f = fp[p] /\ t = tot[p]
    OBVIOUS
  <1>2. /\ p \in alive /\ f \in Files /\ file[f].type = "inode"
        /\ \E d \in FDs : ofile[p][d] = f
    BY <1>1, <1>p, InCall
  <1>3. t \in Nat
    BY <1>i, <1>p DEF TypeOK
  <1>4. /\ file' \in [Files -> FileEntry]
        /\ \A g \in Files : /\ file'[g].ref = file[g].ref /\ file'[g].type = file[g].type
                            /\ file'[g].ip = file[g].ip
    BY <1>i, <1>1, <1>p, <1>2, <1>3, MovedIs
  <1>5. /\ pc[p] # "pipe" /\ pc'[p] = "write"
        /\ \A q \in Procs : q # p => pc'[q] = pc[q]
    BY <1>i, <1>1 DEF TypeOK, InWrite
  <1>6. FileRefsExact' /\ DeadClosed' /\ CallFile'
    BY <1>1, <1>p, <1>2, <1>4, <1>5, KeepsFiles
  <1> QED
    BY <1>4, <1>6

(* The blocks of an inode with addresses a, when the indirect blocks are q *)

Addrs == [0..NDIRECT -> Blocks \union {0}]
Tables == [Blocks -> [0..NINDIRECT - 1 -> Blocks \union {0}]]

Holds(a, q, b) ==
    /\ b # 0
    /\ \/ \E x \in 0..NDIRECT : a[x] = b
       \/ a[NDIRECT] # 0 /\ \E x \in 0..NINDIRECT - 1 : q[a[NDIRECT]][x] = b

Place(a, q, bn) ==
    IF bn < NDIRECT THEN a[bn]
    ELSE IF a[NDIRECT] = 0 THEN 0 ELSE q[a[NDIRECT]][bn - NDIRECT]

LEMMA HoldsIs ==
    ASSUME TypeOK, NEW i \in Inodes, NEW b
    PROVE  b \in BlocksOf(i) <=> Holds(addrs[i], ptr, b)
  <1>1. addrs[i] \in Addrs /\ ptr \in Tables
    BY DEF TypeOK, Addrs, Tables
  <1>2. addrs[i][NDIRECT] \in Blocks \union {0}
    BY <1>1, Sizes DEF Addrs
  <1>3. addrs[i][NDIRECT] # 0 => DOMAIN ptr[addrs[i][NDIRECT]] = 0..NINDIRECT - 1
    BY <1>1, <1>2 DEF Tables
  <1> QED
    BY <1>3 DEF BlocksOf, Holds

LEMMA HoldsNext ==
    ASSUME addrs' \in [Inodes -> Addrs], ptr' \in Tables, NEW i \in Inodes, NEW b
    PROVE  b \in BlocksOf(i)' <=> Holds(addrs'[i], ptr', b)
  <1>1. addrs'[i] \in Addrs /\ ptr' \in Tables
    OBVIOUS
  <1>2. addrs'[i][NDIRECT] \in Blocks \union {0}
    BY <1>1, Sizes DEF Addrs
  <1>3. addrs'[i][NDIRECT] # 0 => DOMAIN ptr'[addrs'[i][NDIRECT]] = 0..NINDIRECT - 1
    BY <1>1, <1>2 DEF Tables
  <1> QED
    BY <1>3 DEF BlocksOf, Holds

LEMMA PlaceIs ==
    ASSUME NEW i, NEW bn
    PROVE  BlockOf(i, bn) = Place(addrs[i], ptr, bn) /\ BlockOf(i, bn)' = Place(addrs'[i], ptr', bn)
  BY DEF BlockOf, Place

\* A place that is taken holds a block of the inode.
LEMMA PlaceHolds ==
    ASSUME NEW a \in Addrs, NEW q \in Tables, NEW bn \in 0..MAXFILE - 1, Place(a, q, bn) # 0
    PROVE  Place(a, q, bn) \in Blocks /\ Holds(a, q, Place(a, q, bn))
  <1>1. bn \in Int /\ NDIRECT \in Nat /\ NINDIRECT \in Nat /\ bn < NDIRECT + NINDIRECT /\ bn >= 0
    BY Sizes DEF MAXFILE
  <1>2. CASE bn < NDIRECT
    <2>1. bn \in 0..NDIRECT
      BY <1>1, <1>2
    <2>2. Place(a, q, bn) = a[bn]
      BY <1>2 DEF Place
    <2> QED
      BY <2>1, <2>2 DEF Holds, Addrs
  <1>3. CASE ~(bn < NDIRECT)
    <2>1. bn - NDIRECT \in 0..NINDIRECT - 1
      BY <1>1, <1>3
    <2>2. a[NDIRECT] # 0 /\ Place(a, q, bn) = q[a[NDIRECT]][bn - NDIRECT]
      BY <1>3 DEF Place
    <2>3. a[NDIRECT] \in Blocks
      BY <1>1, <2>2 DEF Addrs
    <2>4. q[a[NDIRECT]][bn - NDIRECT] \in Blocks \union {0}
      BY <2>1, <2>3 DEF Tables
    <2> QED
      BY <2>1, <2>2, <2>4 DEF Holds
  <1> QED
    BY <1>2, <1>3

\* A block that becomes a direct block, or the indirect block.
LEMMA AddAddr ==
    ASSUME NEW a \in Addrs, NEW q \in Tables, NEW k \in 0..NDIRECT, a[k] = 0, NEW b \in Blocks,
           k = NDIRECT => q[b] = NoPtrs,
           NEW a2, a2 = [a EXCEPT ![k] = b]
    PROVE  /\ a2 \in Addrs
           /\ \A x : Holds(a2, q, x) <=> Holds(a, q, x) \/ x = b
           /\ \A bn \in 0..MAXFILE - 1 : Place(a, q, bn) # 0 => Place(a2, q, bn) = Place(a, q, bn)
           /\ k < NDIRECT => Place(a2, q, k) = b
  <1>0. b # 0 /\ NDIRECT \in Nat /\ NINDIRECT \in Nat \ {0} /\ k \in Nat /\ k <= NDIRECT
    BY NoZero, Sizes
  <1>1. a2 \in Addrs /\ \A x \in 0..NDIRECT : a2[x] = IF x = k THEN b ELSE a[x]
    BY DEF Addrs
  <1>n. NDIRECT \in 0..NDIRECT
    BY <1>0
  <1>2. k = NDIRECT => a[NDIRECT] = 0 /\ a2[NDIRECT] = b /\ \A x \in 0..NINDIRECT - 1 : q[b][x] = 0
    BY <1>1, <1>n DEF NoPtrs
  <1>3. k # NDIRECT => a2[NDIRECT] = a[NDIRECT]
    BY <1>1, <1>n
  <1>4. ASSUME NEW x PROVE Holds(a2, q, x) <=> Holds(a, q, x) \/ x = b
    <2>1. (\E y \in 0..NDIRECT : a2[y] = x) /\ x # 0 <=> x # 0 /\ ((\E y \in 0..NDIRECT : a[y] = x) \/ x = b)
      BY <1>0, <1>1
    <2>2. CASE k = NDIRECT
      BY <1>0, <1>2, <2>1, <2>2 DEF Holds
    <2>3. CASE k # NDIRECT
      BY <1>0, <1>3, <2>1, <2>3 DEF Holds
    <2> QED
      BY <2>2, <2>3
  <1>5. ASSUME NEW bn \in 0..MAXFILE - 1, Place(a, q, bn) # 0
        PROVE  Place(a2, q, bn) = Place(a, q, bn)
    <2>0. bn \in Nat
      OBVIOUS
    <2>1. CASE bn < NDIRECT
      <3>1. bn \in 0..NDIRECT /\ bn # NDIRECT
        BY <1>0, <2>0, <2>1
      <3>2. Place(a2, q, bn) = a2[bn] /\ Place(a, q, bn) = a[bn]
        BY <2>1 DEF Place
      <3> QED
        BY <1>1, <1>5, <3>1, <3>2
    <2>2. CASE ~(bn < NDIRECT)
      <3>1. a[NDIRECT] # 0
        BY <1>5, <2>2 DEF Place
      <3>2. a2[NDIRECT] = a[NDIRECT]
        BY <1>2, <1>3, <3>1
      <3> QED
        BY <2>2, <3>2 DEF Place
    <2> QED
      BY <2>1, <2>2
  <1>6. k < NDIRECT => Place(a2, q, k) = b
    BY <1>1 DEF Place
  <1> QED
    BY <1>1, <1>4, <1>5, <1>6

\* A block that becomes one of an indirect block's.
LEMMA AddPtr ==
    ASSUME NEW a \in Addrs, NEW q \in Tables, NEW k \in 0..NINDIRECT - 1, NEW b \in Blocks,
           a[NDIRECT] # 0, q[a[NDIRECT]][k] = 0,
           NEW q2 \in Tables,
           \A y \in 0..NINDIRECT - 1 : q2[a[NDIRECT]][y] = IF y = k THEN b ELSE q[a[NDIRECT]][y]
    PROVE  /\ \A x : Holds(a, q2, x) <=> Holds(a, q, x) \/ x = b
           /\ \A bn \in 0..MAXFILE - 1 : Place(a, q, bn) # 0 => Place(a, q2, bn) = Place(a, q, bn)
           /\ Place(a, q2, NDIRECT + k) = b
  <1>0. b # 0 /\ NDIRECT \in Nat /\ NINDIRECT \in Nat \ {0} /\ k \in Nat
    BY NoZero, Sizes
  <1>p. PICK t : t = a[NDIRECT]
    OBVIOUS
  <1>t. t \in Blocks /\ t # 0
    BY <1>0, <1>p DEF Addrs
  <1>1. \A y \in 0..NINDIRECT - 1 : q2[t][y] = IF y = k THEN b ELSE q[t][y]
    BY <1>p
  <1>2. q[t][k] = 0
    BY <1>p
  <1>3. ASSUME NEW x PROVE Holds(a, q2, x) <=> Holds(a, q, x) \/ x = b
    <2>1. (\E y \in 0..NINDIRECT - 1 : q2[t][y] = x) /\ x # 0
             <=> x # 0 /\ ((\E y \in 0..NINDIRECT - 1 : q[t][y] = x) \/ x = b)
      BY <1>0, <1>1, <1>2
    <2> QED
      BY <1>0, <1>p, <1>t, <2>1 DEF Holds
  <1>4. ASSUME NEW bn \in 0..MAXFILE - 1, Place(a, q, bn) # 0
        PROVE  Place(a, q2, bn) = Place(a, q, bn)
    <2>0. bn \in Nat /\ bn < NDIRECT + NINDIRECT
      BY <1>0 DEF MAXFILE
    <2>1. CASE bn < NDIRECT
      BY <2>1 DEF Place
    <2>2. CASE ~(bn < NDIRECT)
      <3>1. bn - NDIRECT \in 0..NINDIRECT - 1
        BY <1>0, <2>0, <2>2
      <3>2. Place(a, q, bn) = q[t][bn - NDIRECT] /\ Place(a, q2, bn) = q2[t][bn - NDIRECT]
        BY <1>p, <1>t, <2>2 DEF Place
      <3>3. q[t][bn - NDIRECT] # 0
        BY <1>4, <3>2
      <3> QED
        BY <1>1, <1>2, <3>1, <3>2, <3>3
    <2> QED
      BY <2>1, <2>2
  <1>5. Place(a, q2, NDIRECT + k) = b
    <2>1. ~(NDIRECT + k < NDIRECT) /\ (NDIRECT + k) - NDIRECT = k
      BY <1>0
    <2>2. Place(a, q2, NDIRECT + k) = q2[t][k]
      BY <1>p, <1>t, <2>1 DEF Place
    <2> QED
      BY <1>1, <2>2
  <1> QED
    BY <1>1, <1>3, <1>4, <1>5

\* Another inode has other indirect blocks.
LEMMA OtherTable ==
    ASSUME NEW a \in Addrs, NEW q \in Tables, NEW t \in Blocks, a[NDIRECT] # t,
           NEW q2 \in Tables, \A y \in Blocks : y # t => q2[y] = q[y]
    PROVE  /\ \A x : Holds(a, q2, x) <=> Holds(a, q, x)
           /\ \A bn : Place(a, q2, bn) = Place(a, q, bn)
  <1>1. a[NDIRECT] # 0 => q2[a[NDIRECT]] = q[a[NDIRECT]]
    BY Sizes DEF Addrs
  <1> QED
    BY <1>1 DEF Holds, Place

\* What a call of bmap() may do: it keeps every block in its place, and gives
\* the inode the blocks that it allocates.
Extended(k, i, bn) ==
    /\ k.a \in Addrs /\ k.q \in Tables /\ k.u \in SUBSET Blocks /\ k.addr \in Blocks \union {0}
    /\ used \subseteq k.u
    /\ \A x : Holds(k.a, k.q, x) <=> Holds(addrs[i], ptr, x) \/ x \in k.u \ used
    /\ \A c \in 0..MAXFILE - 1 :
          Place(addrs[i], ptr, c) # 0 => Place(k.a, k.q, c) = Place(addrs[i], ptr, c)
    /\ \A j \in Inodes : j # i =>
          /\ \A x : Holds(addrs[j], k.q, x) <=> Holds(addrs[j], ptr, x)
          /\ \A c : Place(addrs[j], k.q, c) = Place(addrs[j], ptr, c)
    /\ k.addr # 0 => Place(k.a, k.q, bn) = k.addr
    /\ \A b \in Blocks : b \notin k.u => k.q[b] = NoPtrs

LEMMA HoldsUsed ==
    ASSUME TypeOK, BlocksInv, NEW i \in Inodes, NEW b, Holds(addrs[i], ptr, b)
    PROVE  b \in used /\ b \in Blocks /\ \A j \in Inodes : j # i => ~Holds(addrs[j], ptr, b)
  <1>1. b \in BlocksOf(i)
    BY HoldsIs
  <1>2. b \in Blocks
    <2>1. addrs[i] \in Addrs /\ ptr \in Tables
      BY DEF TypeOK, Addrs, Tables
    <2>2. addrs[i][NDIRECT] \in Blocks \union {0}
      BY <2>1, Sizes DEF Addrs
    <2>3. \A x \in 0..NDIRECT : addrs[i][x] \in Blocks \union {0}
      BY <2>1 DEF Addrs
    <2>4. addrs[i][NDIRECT] # 0 =>
             \A x \in 0..NINDIRECT - 1 : ptr[addrs[i][NDIRECT]][x] \in Blocks \union {0}
      BY <2>1, <2>2 DEF Tables
    <2> QED
      BY <2>3, <2>4 DEF Holds
  <1>3. b \in used
    BY <1>1, <1>2 DEF BlocksInv
  <1>4. \A j \in Inodes : j # i => b \notin BlocksOf(j)
    BY <1>1 DEF BlocksInv
  <1> QED
    BY <1>2, <1>3, <1>4, HoldsIs

LEMMA TableHeld ==
    ASSUME TypeOK, NEW i \in Inodes, addrs[i][NDIRECT] # 0
    PROVE  addrs[i][NDIRECT] \in Blocks /\ Holds(addrs[i], ptr, addrs[i][NDIRECT])
  BY Sizes DEF Holds, TypeOK

LEMMA SameBmap ==
    ASSUME TypeOK, BlocksInv, NEW i \in Inodes, NEW bn \in 0..MAXFILE - 1, NEW k,
           Found(k, i, bn) \/ Full(k, i, bn)
    PROVE  Extended(k, i, bn)
  <1>0. /\ addrs[i] \in Addrs /\ ptr \in Tables /\ used \in SUBSET Blocks
        /\ \A j \in Inodes : addrs[j] \in Addrs
    BY DEF TypeOK, Addrs, Tables
  <1>1. k.a = addrs[i] /\ k.q = ptr /\ k.u = used
    BY DEF Found, Full
  <1>2. k.addr # 0 => k.addr = Place(addrs[i], ptr, bn)
    BY PlaceIs DEF Found, Full
  <1>3. k.addr \in Blocks \union {0}
    BY <1>0, <1>2, PlaceHolds
  <1>4. \A b \in Blocks : b \notin used => ptr[b] = NoPtrs
    BY DEF BlocksInv
  <1> QED
    BY <1>0, <1>1, <1>2, <1>3, <1>4 DEF Extended

LEMMA DirectBmap ==
    ASSUME TypeOK, BlocksInv, NEW i \in Inodes, NEW bn \in 0..MAXFILE - 1, NEW k,
           NewDirect(k, i, bn)
    PROVE  Extended(k, i, bn)
  <1>0. /\ addrs[i] \in Addrs /\ ptr \in Tables /\ used \in SUBSET Blocks
        /\ \A j \in Inodes : addrs[j] \in Addrs
    BY DEF TypeOK, Addrs, Tables
  <1>p. PICK b \in Blocks \ used :
          /\ BlockOf(i, bn) = 0 /\ bn < NDIRECT /\ k.addr = b
          /\ k.a = [addrs[i] EXCEPT ![bn] = b] /\ k.q = ptr /\ k.u = used \union {b}
    BY DEF NewDirect
  <1>a. PICK a : a = addrs[i]
    OBVIOUS
  <1>q. PICK q : q = ptr
    OBVIOUS
  <1>1. bn \in 0..NDIRECT /\ bn # NDIRECT /\ a[bn] = 0
    BY <1>p, <1>a, Sizes DEF BlockOf
  <1>2. /\ k.a \in Addrs
        /\ \A x : Holds(k.a, q, x) <=> Holds(a, q, x) \/ x = b
        /\ \A c \in 0..MAXFILE - 1 : Place(a, q, c) # 0 => Place(k.a, q, c) = Place(a, q, c)
        /\ Place(k.a, q, bn) = b
    BY <1>0, <1>p, <1>a, <1>q, <1>1, AddAddr
  <1>3. k.u \ used = {b}
    BY <1>p
  <1>4. \A y \in Blocks : y \notin used => ptr[y] = NoPtrs
    BY DEF BlocksInv
  <1>5. \A x : Holds(k.a, k.q, x) <=> Holds(addrs[i], ptr, x) \/ x \in k.u \ used
    BY <1>p, <1>a, <1>q, <1>2, <1>3
  <1> QED
    BY <1>0, <1>p, <1>a, <1>q, <1>2, <1>4, <1>5 DEF Extended

LEMMA IndirectBmap ==
    ASSUME TypeOK, BlocksInv, NEW i \in Inodes, NEW bn \in 0..MAXFILE - 1, NEW k,
           NewIndirect(k, i, bn)
    PROVE  Extended(k, i, bn)
  <1>0. /\ addrs[i] \in Addrs /\ ptr \in Tables /\ used \in SUBSET Blocks
        /\ \A j \in Inodes : addrs[j] \in Addrs
    BY DEF TypeOK, Addrs, Tables
  <1>b. PICK b \in Blocks \ used :
          /\ BlockOf(i, bn) = 0 /\ bn >= NDIRECT /\ addrs[i][NDIRECT] # 0
          /\ k = [addr |-> b, a |-> addrs[i],
                  q |-> [ptr EXCEPT ![addrs[i][NDIRECT]][bn - NDIRECT] = b],
                  u |-> used \union {b},
                  log |-> BitmapBlocks({b}) \union {<<"block", b>>, <<"block", addrs[i][NDIRECT]>>}]
    BY Zenon DEF NewIndirect
  <1>p. /\ BlockOf(i, bn) = 0 /\ bn >= NDIRECT /\ addrs[i][NDIRECT] # 0
        /\ k.addr = b /\ k.a = addrs[i] /\ k.u = used \union {b}
        /\ k.q = [ptr EXCEPT ![addrs[i][NDIRECT]][bn - NDIRECT] = b]
    BY <1>b
  <1>a. PICK a : a = addrs[i]
    OBVIOUS
  <1>q. PICK q : q = ptr
    OBVIOUS
  <1>n. PICK n : n = bn - NDIRECT
    OBVIOUS
  <1>1. n \in 0..NINDIRECT - 1 /\ bn = NDIRECT + n /\ ~(bn < NDIRECT)
    BY <1>p, <1>n, Sizes DEF MAXFILE
  <1>2. q[a[NDIRECT]][n] = 0
    BY <1>p, <1>a, <1>q, <1>n, <1>1 DEF BlockOf
  <1>t. PICK t : t = addrs[i][NDIRECT]
    OBVIOUS
  <1>5. t \in Blocks /\ Holds(addrs[i], ptr, t) /\ t # 0
    BY <1>p, <1>t, TableHeld
  <1>6. /\ k.q \in Tables
        /\ \A y \in 0..NINDIRECT - 1 : k.q[t][y] = IF y = n THEN b ELSE q[t][y]
        /\ \A y \in Blocks : y # t => k.q[y] = ptr[y]
    <2>1. k.q = [q EXCEPT ![t][n] = b]
      BY <1>p, <1>q, <1>n, <1>t
    <2>2. q \in Tables
      BY <1>0, <1>q
    <2>p. PICK q2 : q2 = k.q
      OBVIOUS
    <2>3. q2 = [q EXCEPT ![t][n] = b]
      BY <2>1, <2>p
    <2>4. /\ q2 \in Tables
          /\ \A y \in 0..NINDIRECT - 1 : q2[t][y] = IF y = n THEN b ELSE q[t][y]
          /\ \A y \in Blocks : y # t => q2[y] = q[y]
      BY <1>1, <1>5, <2>2, <2>3 DEF Tables
    <2> QED
      BY <1>q, <2>p, <2>4
  <1>3. /\ \A x : Holds(a, k.q, x) <=> Holds(a, q, x) \/ x = b
        /\ \A c \in 0..MAXFILE - 1 : Place(a, q, c) # 0 => Place(a, k.q, c) = Place(a, q, c)
        /\ Place(a, k.q, NDIRECT + n) = b
    <2>1. a \in Addrs /\ q \in Tables /\ a[NDIRECT] = t
      BY <1>0, <1>a, <1>q, <1>t
    <2>q. PICK q2 : q2 = k.q
      OBVIOUS
    <2>2. q2 \in Tables /\ \A y \in 0..NINDIRECT - 1 : q2[t][y] = IF y = n THEN b ELSE q[t][y]
      BY <1>6, <2>q
    <2>3. /\ \A x : Holds(a, q2, x) <=> Holds(a, q, x) \/ x = b
          /\ \A c \in 0..MAXFILE - 1 : Place(a, q, c) # 0 => Place(a, q2, c) = Place(a, q, c)
          /\ Place(a, q2, NDIRECT + n) = b
      BY <1>1, <1>2, <1>5, <2>1, <2>2, AddPtr
    <2> QED
      BY <2>3, <2>q
  <1>4. k.u \ used = {b}
    BY <1>p
  <1>7. t \in used
    BY <1>5, HoldsUsed
  <1>8. \A y \in Blocks : y \notin k.u => k.q[y] = NoPtrs
    BY <1>p, <1>6, <1>7 DEF BlocksInv
  <1>9. ASSUME NEW j \in Inodes, j # i
        PROVE  /\ \A x : Holds(addrs[j], k.q, x) <=> Holds(addrs[j], ptr, x)
               /\ \A c : Place(addrs[j], k.q, c) = Place(addrs[j], ptr, c)
    <2>p. PICK aj : aj = addrs[j]
      OBVIOUS
    <2>1. ~Holds(addrs[j], ptr, t)
      BY <1>5, <1>9, HoldsUsed
    <2>2. addrs[j][NDIRECT] # t
      BY <1>5, <2>1, Sizes DEF Holds
    <2>3. aj \in Addrs /\ aj[NDIRECT] # t /\ q \in Tables
      BY <1>0, <1>q, <2>p, <2>2
    <2>4. /\ \A x : Holds(aj, k.q, x) <=> Holds(aj, q, x)
          /\ \A c : Place(aj, k.q, c) = Place(aj, q, c)
      BY <1>5, <1>6, <1>q, <2>3, OtherTable
    <2> QED
      BY <1>q, <2>p, <2>4
  <1>10. \A x : Holds(k.a, k.q, x) <=> Holds(addrs[i], ptr, x) \/ x \in k.u \ used
    BY <1>p, <1>a, <1>q, <1>3, <1>4
  <1> QED
    BY <1>0, <1>p, <1>a, <1>q, <1>1, <1>3, <1>6, <1>8, <1>9, <1>10 DEF Extended

LEMMA TableBmap ==
    ASSUME TypeOK, BlocksInv, NEW i \in Inodes, NEW bn \in 0..MAXFILE - 1, NEW k,
           NewTable(k, i, bn)
    PROVE  Extended(k, i, bn)
  <1>0. /\ addrs[i] \in Addrs /\ ptr \in Tables /\ used \in SUBSET Blocks
        /\ \A j \in Inodes : addrs[j] \in Addrs
    BY DEF TypeOK, Addrs, Tables
  <1>c. PICK c \in Blocks \ used :
          /\ BlockOf(i, bn) = 0 /\ bn >= NDIRECT /\ addrs[i][NDIRECT] = 0
          /\ \/ k = [addr |-> 0, a |-> [addrs[i] EXCEPT ![NDIRECT] = c], q |-> ptr,
                     u |-> used \union {c}, log |-> BitmapBlocks({c}) \union {<<"block", c>>}]
             \/ \E b \in Blocks \ (used \union {c}) :
                  k = [addr |-> b, a |-> [addrs[i] EXCEPT ![NDIRECT] = c],
                       q |-> [ptr EXCEPT ![c][bn - NDIRECT] = b],
                       u |-> (used \union {c}) \union {b},
                       log |-> (BitmapBlocks({c}) \union {<<"block", c>>})
                               \union BitmapBlocks({b}) \union {<<"block", b>>, <<"block", c>>}]
    BY Zenon DEF NewTable
  <1>f. c \in Blocks /\ c \notin used /\ c # 0
    BY <1>c, NoZero
  <1>a. PICK a : a = addrs[i]
    OBVIOUS
  <1>q. PICK q : q = ptr
    OBVIOUS
  <1>a2. PICK a2 : a2 = [addrs[i] EXCEPT ![NDIRECT] = c]
    OBVIOUS
  <1>t. a \in Addrs /\ q \in Tables /\ NDIRECT \in 0..NDIRECT /\ a[NDIRECT] = 0
    BY <1>0, <1>c, <1>a, <1>q, Sizes
  <1>n. q[c] = NoPtrs /\ \A y \in Blocks : y \notin used => q[y] = NoPtrs
    BY <1>f, <1>q DEF BlocksInv
  <1>1. /\ a2 \in Addrs
        /\ \A x : Holds(a2, q, x) <=> Holds(a, q, x) \/ x = c
        /\ \A d \in 0..MAXFILE - 1 : Place(a, q, d) # 0 => Place(a2, q, d) = Place(a, q, d)
    BY <1>a, <1>a2, <1>f, <1>t, <1>n, AddAddr
  <1>o. ASSUME NEW j \in Inodes, j # i PROVE addrs[j][NDIRECT] # c
    <2> SUFFICES ASSUME addrs[j][NDIRECT] = c PROVE FALSE
      OBVIOUS
    <2>1. Holds(addrs[j], ptr, c)
      BY <1>f, TableHeld
    <2> QED
      BY <1>f, <2>1, HoldsUsed
  <1>2. CASE k = [addr |-> 0, a |-> [addrs[i] EXCEPT ![NDIRECT] = c], q |-> ptr,
                  u |-> used \union {c}, log |-> BitmapBlocks({c}) \union {<<"block", c>>}]
    <2>1. k.addr = 0 /\ k.a = a2 /\ k.q = ptr /\ k.u = used \union {c}
      BY <1>2, <1>a2
    <2>2. k.u \ used = {c}
      BY <1>f, <2>1
    <2>3. \A x : Holds(k.a, k.q, x) <=> Holds(addrs[i], ptr, x) \/ x \in k.u \ used
      BY <1>a, <1>q, <1>1, <2>1, <2>2
    <2> QED
      BY <1>0, <1>a, <1>q, <1>f, <1>n, <1>1, <2>1, <2>3 DEF Extended
  <1>3. ASSUME NEW b \in Blocks \ (used \union {c}),
               k = [addr |-> b, a |-> [addrs[i] EXCEPT ![NDIRECT] = c],
                    q |-> [ptr EXCEPT ![c][bn - NDIRECT] = b],
                    u |-> (used \union {c}) \union {b},
                    log |-> (BitmapBlocks({c}) \union {<<"block", c>>})
                            \union BitmapBlocks({b}) \union {<<"block", b>>, <<"block", c>>}]
        PROVE  Extended(k, i, bn)
    <2>n. PICK n : n = bn - NDIRECT
      OBVIOUS
    <2>q. PICK q2 : q2 = [q EXCEPT ![c][n] = b]
      OBVIOUS
    <2>1. k.addr = b /\ k.a = a2 /\ k.q = q2 /\ k.u = (used \union {c}) \union {b}
      BY <1>3, <1>a2, <1>q, <2>n, <2>q
    <2>2. n \in 0..NINDIRECT - 1 /\ bn = NDIRECT + n
      BY <1>c, <2>n, Sizes DEF MAXFILE
    <2>3. /\ q2 \in Tables
          /\ \A y \in 0..NINDIRECT - 1 : q2[c][y] = IF y = n THEN b ELSE q[c][y]
          /\ \A y \in Blocks : y # c => q2[y] = q[y]
      BY <1>f, <1>t, <2>q, <2>2 DEF Tables
    <2>4. q[c][n] = 0 /\ a2[NDIRECT] = c
      BY <1>n, <1>t, <1>a, <1>a2, <2>2 DEF NoPtrs, Addrs
    <2>5. /\ \A x : Holds(a2, q2, x) <=> Holds(a2, q, x) \/ x = b
          /\ \A d \in 0..MAXFILE - 1 : Place(a2, q, d) # 0 => Place(a2, q2, d) = Place(a2, q, d)
          /\ Place(a2, q2, NDIRECT + n) = b
      BY <1>f, <1>t, <1>1, <2>2, <2>3, <2>4, AddPtr
    <2>6. \A x : x \in k.u \ used <=> x = b \/ x = c
      BY <1>f, <2>1
    <2>7. \A x : Holds(k.a, k.q, x) <=> Holds(addrs[i], ptr, x) \/ x \in k.u \ used
      BY <1>a, <1>q, <1>1, <2>1, <2>5, <2>6
    <2>8. \A d \in 0..MAXFILE - 1 :
             Place(addrs[i], ptr, d) # 0 => Place(k.a, k.q, d) = Place(addrs[i], ptr, d)
      BY <1>a, <1>q, <1>1, <2>1, <2>5
    <2>9. ASSUME NEW j \in Inodes, j # i
          PROVE  /\ \A x : Holds(addrs[j], k.q, x) <=> Holds(addrs[j], ptr, x)
                 /\ \A d : Place(addrs[j], k.q, d) = Place(addrs[j], ptr, d)
      <3>p. PICK aj : aj = addrs[j]
        OBVIOUS
      <3>1. aj \in Addrs /\ aj[NDIRECT] # c
        BY <1>0, <1>o, <2>9, <3>p
      <3>2. /\ \A x : Holds(aj, q2, x) <=> Holds(aj, q, x)
            /\ \A d : Place(aj, q2, d) = Place(aj, q, d)
        BY <1>f, <1>t, <2>3, <3>1, OtherTable
      <3> QED
        BY <1>q, <2>1, <3>p, <3>2
    <2>10. \A y \in Blocks : y \notin k.u => k.q[y] = NoPtrs
      BY <1>n, <2>1, <2>3
    <2>11. k.u \in SUBSET Blocks /\ used \subseteq k.u /\ b \in Blocks
      BY <1>0, <1>f, <2>1
    <2>12. Place(k.a, k.q, bn) = b
      BY <2>1, <2>2, <2>5
    <2> QED
      BY <1>1, <2>1, <2>3, <2>7, <2>8, <2>9, <2>10, <2>11, <2>12 DEF Extended
  <1> QED
    BY <1>c, <1>2, <1>3

LEMMA BmapExtends ==
    ASSUME TypeOK, BlocksInv, NEW i \in Inodes, NEW bn \in 0..MAXFILE - 1, NEW k, k = bmap(i, bn)
    PROVE  Extended(k, i, bn)
  BY BmapIs, SameBmap, DirectBmap, IndirectBmap, TableBmap

----------------------------------------------------------------------------
(* Steps that leave the blocks and the calls inside writei() alone *)

\* Process q, inside writei(), is where it was.
Stays(q) ==
    /\ pc'[q] \in InWritei /\ fp'[q] = fp[q] /\ tot'[q] = tot[q] /\ n1'[q] = n1[q] /\ left'[q] = left[q]
    /\ file'[fp[q]].ip = file[fp[q]].ip /\ file'[fp[q]].off = file[fp[q]].off

LEMMA InWriteiIs == \A x : x \in InWritei => x \in InWrite
  BY DEF InWritei, InWrite

LEMMA StaysIs ==
    ASSUME NEW q, Stays(q)
    PROVE  Ip(q)' = Ip(q) /\ Off(q)' = Off(q) /\ tot'[q] = tot[q] /\ n1'[q] = n1[q] /\ left'[q] = left[q]
  BY DEF Stays, Ip, Off

LEMMA Undisturbed ==
    ASSUME LockHeld, BlocksInv, SizesInv, Writing,
           UNCHANGED <<size, addrs, ptr, used, lock>>,
           \A q \in Procs : pc'[q] \in InWritei => pc[q] \in InWritei,
           \A q \in Procs : pc[q] \in InWritei => Stays(q)
    PROVE  LockHeld' /\ BlocksInv' /\ SizesInv' /\ Writing'
  <1>1. \A q \in Procs : /\ pc'[q] \in InWritei <=> pc[q] \in InWritei
                         /\ pc[q] \in InWritei => Ip(q)' = Ip(q) /\ Off(q)' = Off(q)
                                                  /\ tot'[q] = tot[q] /\ n1'[q] = n1[q] /\ left'[q] = left[q]
    BY StaysIs DEF Stays
  <1>2. LockHeld'
    BY <1>1 DEF LockHeld
  <1>3. BlocksInv'
    BY DEF BlocksInv, BlocksOf
  <1>4. SizesInv'
    BY DEF SizesInv, Covered, BlockOf
  <1>5. Writing'
    <2> SUFFICES ASSUME NEW q \in Procs, pc[q] \in InWritei
                 PROVE  /\ Off(q)' <= size'[Ip(q)'] /\ tot'[q] <= n1'[q]
                        /\ Off(q)' + n1'[q] <= MAXFILE * BSIZE /\ n1'[q] <= MaxWrite /\ n1'[q] <= left'[q]
                        /\ Covered(Ip(q), Off(q) + tot[q])'
      BY <1>1 DEF Writing
    <2>1. Ip(q)' = Ip(q) /\ Off(q)' = Off(q) /\ tot'[q] = tot[q] /\ n1'[q] = n1[q] /\ left'[q] = left[q]
      BY <1>1
    <2>2. Covered(Ip(q), Off(q) + tot[q])' <=> Covered(Ip(q), Off(q) + tot[q])
      BY <2>1 DEF Covered, BlockOf
    <2> QED
      BY <2>1, <2>2 DEF Writing
  <1> QED
    BY <1>2, <1>3, <1>4, <1>5

LEMMA OpenStays ==
    ASSUME FilesInv, NEW p \in Procs, NEW i \in Inodes, NEW mode \in Modes, Open(p, i, mode),
           NEW q \in Procs, pc[q] \in InWritei
    PROVE  Stays(q)
  <1>1. PICK f \in Files : /\ file[f].ref = 0 /\ UNCHANGED <<pc, fp, left, tot, n1>>
                           /\ \E e : file' = [file EXCEPT ![f] = e]
    BY FreeFile DEF Open, regs
  <1>2. fp[q] \in Files /\ file[fp[q]].ref # 0
    BY InWriteiIs, CallHolds
  <1>3. file'[fp[q]] = file[fp[q]]
    BY <1>1, <1>2 DEF FilesInv, TypeOK
  <1> QED
    BY <1>1, <1>3 DEF Stays

LEMMA DupStays ==
    ASSUME FilesInv, NEW p \in Procs, NEW d \in FDs, Dup(p, d),
           NEW q \in Procs, pc[q] \in InWritei
    PROVE  Stays(q)
  <1>1. UNCHANGED <<pc, fp, left, tot, n1>> /\ file' = [file EXCEPT ![ofile[p][d]].ref = @ + 1]
    BY DEF Dup, regs, filedup
  <1>2. fp[q] \in Files
    BY InWriteiIs, CallHolds
  <1>p. PICK f : f = ofile[p][d]
    OBVIOUS
  <1>3. f \in Files
    BY <1>p DEF FilesInv, TypeOK, Dup
  <1>4. file \in [Files -> FileEntry] /\ file' = [file EXCEPT ![f].ref = @ + 1]
    BY <1>1, <1>p DEF FilesInv, TypeOK
  <1>5. file'[fp[q]].ip = file[fp[q]].ip /\ file'[fp[q]].off = file[fp[q]].off
    BY <1>2, <1>3, <1>4 DEF FileEntry
  <1> QED
    BY <1>1, <1>5 DEF Stays

LEMMA PipeStays ==
    ASSUME FilesInv, NEW p \in Procs, PipeRead(p) \/ \E copied \in BOOLEAN : PipeWrite(p, copied),
           NEW q \in Procs, pc[q] \in InWritei
    PROVE  pc[p] \notin InWritei /\ pc'[p] \notin InWritei /\ Stays(q)
  <1>0. fp[q] \in Files /\ file[fp[q]].ref # 0 /\ \E d \in FDs : ofile[q][d] = fp[q]
    BY InWriteiIs, CallHolds, InCall
  <1>t. pc \in [Procs -> {"user", "pipe", "exit"} \union InWrite] /\ fp \in [Procs -> Files \union {0}]
    BY DEF FilesInv, TypeOK
  <1>1. CASE PipeRead(p)
    <2>1. PICK f \in Files : /\ file[f].ref = 0 /\ file' = [file EXCEPT ![f] = [FD_NONE EXCEPT !.ref = 1]]
                             /\ fp' = [fp EXCEPT ![p] = f]
      BY <1>1, FreeFile DEF PipeRead
    <2>2. pc[p] = "user" /\ pc' = [pc EXCEPT ![p] = "pipe"] /\ UNCHANGED <<left, tot, n1>>
      BY <1>1 DEF PipeRead, Goto, Call, At
    <2>3. p # q
      BY <2>2 DEF InWritei
    <2>4. file'[fp[q]] = file[fp[q]]
      BY <1>0, <2>1 DEF FilesInv, TypeOK
    <2>5. pc'[p] = "pipe" /\ pc'[q] = pc[q] /\ fp'[q] = fp[q]
      BY <1>t, <2>1, <2>2, <2>3
    <2> QED
      BY <2>2, <2>4, <2>5 DEF Stays, InWritei
  <1>2. CASE \E copied \in BOOLEAN : PipeWrite(p, copied)
    <2>c. PICK copied \in BOOLEAN : PipeWrite(p, copied)
      BY <1>2
    <2>1. PICK r \in Files, w \in Files \union {0} :
             /\ pc[p] = "pipe" /\ r = fp[p] /\ r # w /\ (w # 0 => file[w].ref = 0)
             /\ \A g \in Files : g # r /\ g # w => file'[g] = file[g]
      BY <2>c, PipeWriteIs
    <2>2. pc' = [pc EXCEPT ![p] = "user"] /\ fp' = [fp EXCEPT ![p] = 0] /\ UNCHANGED <<left, tot, n1>>
      BY <2>c DEF PipeWrite, Goto
    <2>3. p # q
      BY <2>1 DEF InWritei
    <2>4. Descs(r) = {}
      BY <2>1, OwnFile
    <2>5. fp[q] # r
      BY <1>0, <2>4, NoDesc
    <2>6. fp[q] # w
      BY <1>0, <2>1, NoZero
    <2>7. file'[fp[q]] = file[fp[q]]
      BY <1>0, <2>1, <2>5, <2>6
    <2>8. pc'[p] = "user" /\ pc'[q] = pc[q] /\ fp'[q] = fp[q]
      BY <1>t, <2>2, <2>3
    <2> QED
      BY <2>1, <2>2, <2>7, <2>8 DEF Stays, InWritei
  <1> QED
    BY <1>1, <1>2

LEMMA CloseStays ==
    ASSUME FilesInv, NEW p \in Procs, NEW d \in FDs, Close(p, d),
           NEW q \in Procs, pc[q] \in InWritei
    PROVE  Stays(q)
  <1>1. UNCHANGED <<pc, fp, left, tot, n1>> /\ file' = fileclose(file, ofile[p][d])
    BY DEF Close, regs
  <1>2. fp[q] \in Files
    BY InWriteiIs, CallHolds
  <1>p. PICK f, g, t : f = ofile[p][d] /\ g = fp[q] /\ t = file
    OBVIOUS
  <1>3. f \in Files /\ g \in Files /\ t \in [Files -> FileEntry]
    BY <1>2, <1>p DEF FilesInv, TypeOK, Close
  <1>4. file'[g].type = "inode"
    <2>1. CallFile'
      BY CloseFiles
    <2>2. pc'[q] \in InWrite /\ fp'[q] = g
      BY <1>1, <1>p, InWriteiIs
    <2> QED
      BY <2>1, <2>2 DEF CallFile
  <1>5. file' = fileclose(t, f)
    BY <1>1, <1>p
  <1>6. FD_NONE.type # "inode"
    BY DEF FD_NONE
  <1>7. file'[g].ip = t[g].ip /\ file'[g].off = t[g].off
    <2>1. CASE g # f
      BY <1>3, <1>5, <2>1, CloseIs
    <2>2. CASE g = f /\ t[f].ref > 1
      BY <1>3, <1>5, <2>2, CloseIs
    <2>3. CASE g = f /\ ~(t[f].ref > 1)
      <3>1. file'[g] = FD_NONE
        BY <1>3, <1>5, <2>3, CloseIs
      <3> QED
        BY <1>4, <1>6, <3>1
    <2> QED
      BY <2>1, <2>2, <2>3
  <1> QED
    BY <1>1, <1>p, <1>7 DEF Stays

LEMMA ForkStays ==
    ASSUME FilesInv, NEW p \in Procs, NEW q \in Procs, Fork(p, q),
           NEW x \in Procs, pc[x] \in InWritei
    PROVE  Stays(x)
  <1> DEFINE S(g) == {d \in FDs : ofile[p][d] = g}
  <1>1. /\ file' = [g \in Files |-> [file[g] EXCEPT !.ref = @ + Cardinality(S(g))]]
        /\ UNCHANGED <<pc, fp, left, tot, n1>>
    BY DEF Fork, regs
  <1>p. PICK g : g = fp[x]
    OBVIOUS
  <1>2. g \in Files
    BY <1>p, InWriteiIs, CallHolds
  <1>3. file[g] \in FileEntry
    BY <1>2 DEF FilesInv, TypeOK
  <1>4. file'[g] = [file[g] EXCEPT !.ref = @ + Cardinality(S(g))]
    BY <1>1, <1>2
  <1> HIDE DEF S
  <1>5. file'[g].ip = file[g].ip /\ file'[g].off = file[g].off
    BY <1>3, <1>4 DEF FileEntry
  <1> QED
    BY <1>1, <1>p, <1>5 DEF Stays

\* Nobody else moves the offset of a file inside writei(): that takes the
\* inode's lock.
LEMMA ReadStays ==
    ASSUME FilesInv, LockHeld, NEW p \in Procs, NEW d \in FDs, NEW n \in Counts,
           NEW copied \in BOOLEAN, Read(p, d, n, copied), NEW q \in Procs, pc[q] \in InWritei
    PROVE  Stays(q)
  <1>i. TypeOK
    BY DEF FilesInv
  <1>1. PICK f \in Files, r \in Nat :
          /\ file[f].ip \in Inodes /\ lock[file[f].ip] = None
          /\ file' = [file EXCEPT ![f].off = @ + r] \/ file' = file
          /\ UNCHANGED <<pc, fp, left, tot, n1>>
    BY ReadIs DEF regs
  <1>2. fp[q] \in Files /\ Ip(q) \in Inodes
    BY InWriteiIs, InCall
  <1>3. lock[Ip(q)] = q
    BY <1>2 DEF LockHeld
  <1>4. fp[q] # f
    BY <1>1, <1>3, NoZero DEF Ip
  <1>5. file'[fp[q]] = file[fp[q]]
    <2>1. CASE file' = [file EXCEPT ![f].off = @ + r]
      BY <1>i, <1>2, <1>4, <2>1, MovedIs
    <2> QED
      BY <1>1, <2>1
  <1> QED
    BY <1>1, <1>5 DEF Stays

----------------------------------------------------------------------------
(* Steps on the blocks of one inode *)

\* Inode i changes: others keep their blocks, and the bitmap follows.
LEMMA BlocksNext ==
    ASSUME TypeOK, BlocksInv, addrs' \in [Inodes -> Addrs], ptr' \in Tables, NEW i \in Inodes,
           \A j \in Inodes : j # i =>
              /\ addrs'[j] = addrs[j]
              /\ \A x : Holds(addrs[j], ptr', x) <=> Holds(addrs[j], ptr, x),
           \A x \in Blocks : x \in used' <=> \/ x \in used /\ ~Holds(addrs[i], ptr, x)
                                             \/ Holds(addrs'[i], ptr', x),
           \A x : Holds(addrs'[i], ptr', x) => x \notin used \/ Holds(addrs[i], ptr, x),
           \A b \in Blocks : b \notin used' => ptr'[b] = NoPtrs
    PROVE  BlocksInv'
  <1>1. \A j \in Inodes : \A x : j # i => (x \in BlocksOf(j)' <=> x \in BlocksOf(j))
    <2> SUFFICES ASSUME NEW j \in Inodes, NEW x, j # i
                 PROVE  x \in BlocksOf(j)' <=> x \in BlocksOf(j)
      OBVIOUS
    <2>1. x \in BlocksOf(j)' <=> Holds(addrs'[j], ptr', x)
      BY HoldsNext
    <2>2. x \in BlocksOf(j) <=> Holds(addrs[j], ptr, x)
      BY HoldsIs
    <2> QED
      BY <2>1, <2>2
  <1>2. \A x : x \in BlocksOf(i)' <=> Holds(addrs'[i], ptr', x)
    BY HoldsNext
  <1>3. \A x : x \in BlocksOf(i) <=> Holds(addrs[i], ptr, x)
    BY HoldsIs
  <1>4. \A j \in Inodes : \A x : x \in BlocksOf(j) => x \in used
    BY HoldsIs, HoldsUsed
  <1>5. ASSUME NEW b \in Blocks
        PROVE  b \in used' <=> \E j \in Inodes : b \in BlocksOf(j)'
    <2>1. b \in used <=> \E j \in Inodes : b \in BlocksOf(j)
      BY DEF BlocksInv
    <2>2. \A j \in Inodes : j # i /\ b \in BlocksOf(j) => b \notin BlocksOf(i)
      BY DEF BlocksInv
    <2> QED
      BY <1>1, <1>2, <1>3, <2>1, <2>2
  <1>6. ASSUME NEW j \in Inodes, NEW l \in Inodes, j # l, NEW b \in BlocksOf(j)'
        PROVE  b \notin BlocksOf(l)'
    <2>1. \A m, n \in Inodes : m # n => \A x \in BlocksOf(m) : x \notin BlocksOf(n)
      BY DEF BlocksInv
    <2>2. CASE j = i
      BY <1>1, <1>2, <1>3, <1>4, <1>6, <2>1, <2>2
    <2>3. CASE l = i
      BY <1>1, <1>2, <1>3, <1>4, <1>6, <2>1, <2>3
    <2>4. CASE j # i /\ l # i
      BY <1>1, <1>6, <2>1, <2>4
    <2> QED
      BY <2>2, <2>3, <2>4
  <1> QED
    BY <1>5, <1>6 DEF BlocksInv

LEMMA NothingCovered == ASSUME NEW bn \in 0..Ceil(0) - 1 PROVE FALSE
  <1>1. Ceil(0) \in Nat /\ BSIZE * Ceil(0) \in Nat /\ BSIZE * Ceil(0) < 0 + BSIZE
    BY CeilIs
  <1>p. PICK c : c = Ceil(0)
    OBVIOUS
  <1>2. BSIZE * c < BSIZE * 1 /\ c \in Nat
    BY <1>1, <1>p, Sizes
  <1>3. c < 1
    BY <1>2, Between, Sizes
  <1> QED
    BY <1>2, <1>3, <1>p

\* itrunc() returns all the blocks of the inode, and they were all in use.
LEMMA TruncIs ==
    ASSUME TypeOK, BlocksInv, NEW p \in Procs, NEW i \in Inodes, itrunc(p, i)
    PROVE  /\ addrs' \in [Inodes -> Addrs] /\ ptr' \in Tables /\ used' \in SUBSET Blocks
           /\ data' \in [Blocks -> [0..BSIZE - 1 -> Procs \union {None}]]
           /\ size' = [size EXCEPT ![i] = 0]
           /\ wrong' = wrong
           /\ \A j \in Inodes : j # i =>
                /\ addrs'[j] = addrs[j]
                /\ \A x : Holds(addrs[j], ptr', x) <=> Holds(addrs[j], ptr, x)
                /\ \A c : Place(addrs[j], ptr', c) = Place(addrs[j], ptr, c)
           /\ BlocksInv'
  <1>0. /\ \A j \in Inodes : addrs[j] \in Addrs
        /\ addrs \in [Inodes -> Addrs] /\ ptr \in Tables /\ used \in SUBSET Blocks
        /\ data \in [Blocks -> [0..BSIZE - 1 -> Procs \union {None}]]
        /\ wrong \in BOOLEAN
    BY DEF TypeOK, Addrs, Tables
  <1>p. PICK freed : freed = BlocksOf(i)
    OBVIOUS
  <1>1. /\ used' = used \ freed /\ addrs' = [addrs EXCEPT ![i] = NoAddrs]
        /\ size' = [size EXCEPT ![i] = 0]
        /\ data' = [b \in Blocks |-> IF b \in freed THEN Zeros ELSE data[b]]
        /\ ptr' = [b \in Blocks |-> IF b \in freed THEN NoPtrs ELSE ptr[b]]
        /\ wrong' = (wrong \/ ~(freed \subseteq used))
    BY <1>p DEF itrunc
  <1>2. NoAddrs \in Addrs /\ NoPtrs \in [0..NINDIRECT - 1 -> Blocks \union {0}]
        /\ Zeros \in [0..BSIZE - 1 -> Procs \union {None}]
    BY DEF NoAddrs, NoPtrs, Zeros, Addrs
  <1>3. addrs' \in [Inodes -> Addrs] /\ addrs'[i] = NoAddrs /\ \A j \in Inodes : j # i => addrs'[j] = addrs[j]
    BY <1>0, <1>1, <1>2
  <1>4. ptr' \in Tables
    BY <1>0, <1>1, <1>2 DEF Tables
  <1>5. data' \in [Blocks -> [0..BSIZE - 1 -> Procs \union {None}]] /\ used' \in SUBSET Blocks
    BY <1>0, <1>1, <1>2
  <1>6. \A x : x \in freed <=> Holds(addrs[i], ptr, x)
    BY <1>p, HoldsIs
  <1>7. \A x \in freed : x \in used /\ x \in Blocks
    BY <1>6, HoldsUsed
  <1>8. wrong' = wrong
    BY <1>0, <1>1, <1>7
  <1>9. ASSUME NEW j \in Inodes, j # i
        PROVE  /\ \A x : Holds(addrs[j], ptr', x) <=> Holds(addrs[j], ptr, x)
               /\ \A c : Place(addrs[j], ptr', c) = Place(addrs[j], ptr, c)
    <2>1. addrs[j][NDIRECT] # 0 => addrs[j][NDIRECT] \in Blocks /\ addrs[j][NDIRECT] \notin freed
      BY <1>6, <1>9, TableHeld, HoldsUsed
    <2>2. addrs[j][NDIRECT] # 0 => ptr'[addrs[j][NDIRECT]] = ptr[addrs[j][NDIRECT]]
      BY <1>1, <2>1
    <2> QED
      BY <2>2 DEF Holds, Place
  <1>10. \A x : ~Holds(NoAddrs, ptr', x)
    <2>1. \A x \in 0..NDIRECT : NoAddrs[x] = 0
      BY DEF NoAddrs
    <2> QED
      BY <2>1, Sizes DEF Holds
  <1>11. \A b \in Blocks : b \notin used' => ptr'[b] = NoPtrs
    BY <1>1 DEF BlocksInv
  <1>12. \A x \in Blocks : x \in used' <=> \/ x \in used /\ ~Holds(addrs[i], ptr, x)
                                           \/ Holds(addrs'[i], ptr', x)
    BY <1>1, <1>3, <1>6, <1>10
  <1>13. BlocksInv'
    BY <1>3, <1>4, <1>9, <1>10, <1>11, <1>12, BlocksNext
  <1> QED
    BY <1>1, <1>3, <1>4, <1>5, <1>8, <1>9, <1>13

\* Covered in terms of the places of an inode's blocks.
LEMMA CoveredIs ==
    ASSUME NEW i, NEW n
    PROVE  /\ Covered(i, n) <=> \A bn \in 0..Ceil(n) - 1 : Place(addrs[i], ptr, bn) # 0
           /\ Covered(i, n)' <=> \A bn \in 0..Ceil(n) - 1 : Place(addrs'[i], ptr', bn) # 0
  <1>1. Covered(i, n) <=> \A bn \in 0..Ceil(n) - 1 : BlockOf(i, bn) # 0
    BY DEF Covered
  <1>2. Covered(i, n)' <=> \A bn \in 0..Ceil(n) - 1 : BlockOf(i, bn)' # 0
    BY DEF Covered, Ceil
  <1> QED
    BY <1>1, <1>2, PlaceIs

LEMMA TruncKeeps ==
    ASSUME FilesInv, LockHeld, BlocksInv, SizesInv, Writing, NEW p \in Procs, NEW i \in Inodes,
           lock[i] = None, itrunc(p, i), UNCHANGED lock,
           \A q \in Procs : pc'[q] \in InWritei => pc[q] \in InWritei,
           \A q \in Procs : pc[q] \in InWritei => Stays(q)
    PROVE  LockHeld' /\ BlocksInv' /\ SizesInv' /\ Writing'
  <1>i. TypeOK
    BY DEF FilesInv
  <1>1. \A q \in Procs : /\ pc'[q] \in InWritei <=> pc[q] \in InWritei
                         /\ pc[q] \in InWritei => Ip(q)' = Ip(q) /\ Off(q)' = Off(q)
                                                  /\ tot'[q] = tot[q] /\ n1'[q] = n1[q] /\ left'[q] = left[q]
    BY StaysIs DEF Stays
  <1>2. LockHeld'
    BY <1>1 DEF LockHeld
  <1>3. /\ size' = [size EXCEPT ![i] = 0] /\ BlocksInv'
        /\ \A j \in Inodes : j # i =>
              addrs'[j] = addrs[j] /\ \A c : Place(addrs[j], ptr', c) = Place(addrs[j], ptr, c)
    BY <1>i, TruncIs
  <1>4. size'[i] = 0 /\ \A j \in Inodes : j # i => size'[j] = size[j]
    BY <1>i, <1>3 DEF TypeOK
  <1>5. ASSUME NEW j \in Inodes, j # i, NEW n PROVE Covered(j, n)' <=> Covered(j, n)
    BY <1>3, <1>5, CoveredIs
  <1>6. SizesInv'
    <2> SUFFICES ASSUME NEW j \in Inodes PROVE size'[j] <= MAXFILE * BSIZE /\ Covered(j, size[j])'
      BY DEF SizesInv
    <2>p. PICK n : n = size'[j]
      OBVIOUS
    <2>c. Covered(j, size[j])' <=> Covered(j, n)'
      BY <2>p DEF Covered
    <2>1. CASE j = i
      <3>1. Covered(j, 0)'
        BY NothingCovered, CoveredIs
      <3> QED
        BY <1>4, <2>1, <2>p, <2>c, <3>1, MaxFileIs
    <2>2. CASE j # i
      <3>1. n = size[j]
        BY <1>4, <2>p, <2>2
      <3>2. Covered(j, n)' <=> Covered(j, n)
        BY <1>5, <2>2
      <3> QED
        BY <1>4, <2>2, <2>c, <3>1, <3>2 DEF SizesInv
    <2> QED
      BY <2>1, <2>2
  <1>7. Writing'
    <2> SUFFICES ASSUME NEW q \in Procs, pc[q] \in InWritei
                 PROVE  /\ Off(q)' <= size'[Ip(q)'] /\ tot'[q] <= n1'[q]
                        /\ Off(q)' + n1'[q] <= MAXFILE * BSIZE /\ n1'[q] <= MaxWrite /\ n1'[q] <= left'[q]
                        /\ Covered(Ip(q), Off(q) + tot[q])'
      BY <1>1 DEF Writing
    <2>1. Ip(q)' = Ip(q) /\ Off(q)' = Off(q) /\ tot'[q] = tot[q] /\ n1'[q] = n1[q] /\ left'[q] = left[q]
      BY <1>1
    <2>p. PICK j, n : j = Ip(q) /\ n = Off(q) + tot[q]
      OBVIOUS
    <2>2. j \in Inodes /\ lock[j] = q
      BY <2>p, InWriteiIs, InCall DEF LockHeld
    <2>3. j # i
      BY <2>2, NoZero
    <2>4. Covered(j, n)' <=> Covered(j, n)
      BY <1>5, <2>2, <2>3
    <2>5. Covered(Ip(q), Off(q) + tot[q])' <=> Covered(j, n)'
      BY <2>1, <2>p DEF Covered
    <2>6. Covered(Ip(q), Off(q) + tot[q]) <=> Covered(j, n)
      BY <2>p
    <2>7. size'[j] = size[j]
      BY <1>4, <2>2, <2>3
    <2> QED
      BY <2>1, <2>p, <2>4, <2>5, <2>6, <2>7 DEF Writing
  <1> QED
    BY <1>2, <1>3, <1>6, <1>7

----------------------------------------------------------------------------
(* The steps of a write() *)

LEMMA CeilMono ==
    ASSUME NEW x \in Nat, NEW y \in Nat, x <= y
    PROVE  Ceil(x) \in Nat /\ Ceil(y) \in Nat /\ Ceil(x) <= Ceil(y)
  <1>p. PICK c, d : c = Ceil(x) /\ d = Ceil(y)
    OBVIOUS
  <1>1. /\ c \in Nat /\ BSIZE * c \in Nat /\ BSIZE * c < x + BSIZE
        /\ d \in Nat /\ BSIZE * d \in Nat /\ y <= BSIZE * d
    BY <1>p, CeilIs
  <1>2. BSIZE * (d + 1) = BSIZE * d + BSIZE
    BY <1>1, Next1, Sizes
  <1>3. BSIZE * c < BSIZE * (d + 1)
    BY <1>1, <1>2, Sizes
  <1>4. c < d + 1
    BY <1>1, <1>3, Between, Sizes
  <1> QED
    BY <1>1, <1>4, <1>p

LEMMA CeilBound ==
    ASSUME NEW x \in Nat, x <= MAXFILE * BSIZE
    PROVE  Ceil(x) \in Nat /\ Ceil(x) <= MAXFILE
  <1>p. PICK c : c = Ceil(x)
    OBVIOUS
  <1>1. c \in Nat /\ BSIZE * c \in Nat /\ BSIZE * c < x + BSIZE
    BY <1>p, CeilIs
  <1>2. BSIZE * (MAXFILE + 1) = BSIZE * MAXFILE + BSIZE
    BY Next1, Sizes, MaxFileIs
  <1>3. MAXFILE * BSIZE = BSIZE * MAXFILE
    BY Sizes, MaxFileIs
  <1>4. BSIZE * c < BSIZE * (MAXFILE + 1)
    BY <1>1, <1>2, <1>3, Sizes, MaxFileIs
  <1>5. c < MAXFILE + 1
    BY <1>1, <1>4, Between, Sizes, MaxFileIs
  <1> QED
    BY <1>1, <1>5, <1>p, MaxFileIs

LEMMA CoveredLess ==
    ASSUME NEW i, NEW x \in Nat, NEW y \in Nat, x <= y, Covered(i, y)
    PROVE  Covered(i, x)
  <1>1. Ceil(x) \in Nat /\ Ceil(y) \in Nat /\ Ceil(x) <= Ceil(y)
    BY CeilMono
  <1> QED
    BY <1>1 DEF Covered

\* The other calls inside writei() are on other inodes.
LEMMA OtherInode ==
    ASSUME FilesInv, LockHeld, NEW p \in Procs, NEW q \in Procs, p # q, pc[q] \in InWritei,
           pc[p] \in InWrite, lock[Ip(p)] \in {p, None}
    PROVE  Ip(q) # Ip(p) /\ fp[q] # fp[p] /\ lock[Ip(q)] = q
  <1>1. Ip(q) \in Inodes
    BY InWriteiIs, InCall
  <1>2. lock[Ip(q)] = q
    BY <1>1 DEF LockHeld
  <1>3. Ip(q) # Ip(p)
    BY <1>2, NoZero
  <1> QED
    BY <1>2, <1>3 DEF Ip

LEMMA ChunkKeeps ==
    ASSUME FileInv, NEW p \in Procs, WriteChunk(p)
    PROVE  /\ LockHeld' /\ BlocksInv' /\ SizesInv' /\ Writing'
           /\ n1' \in [Procs -> Nat] /\ tot' \in [Procs -> Nat]
  <1>i. TypeOK /\ FilesInv /\ LockHeld /\ BlocksInv /\ SizesInv /\ Writing
    BY DEF FileInv, FilesInv
  <1>0. /\ pc[p] = "write" /\ lock[Ip(p)] = None /\ left[p] > 0
        /\ UNCHANGED <<file, fp, size, addrs, ptr, used>>
    BY DEF WriteChunk, At, files, blocks
  <1>1. /\ p \in alive /\ fp[p] \in Files /\ Ip(p) \in Inodes /\ Off(p) \in Nat
    BY <1>i, <1>0, InCall DEF InWrite
  <1>n. PICK n : n = Min({left[p], MaxWrite})
    OBVIOUS
  <1>2. n \in Nat /\ n <= MaxWrite /\ n <= left[p]
    <2>1. left[p] \in Nat /\ MaxWrite \in Nat
      BY <1>i, MaxWriteIs DEF TypeOK
    <2>2. n = IF left[p] <= MaxWrite THEN left[p] ELSE MaxWrite
      BY <1>n, <2>1, MinTwo
    <2> QED
      BY <2>1, <2>2
  <1>3. CASE Off(p) > size[Ip(p)] \/ Off(p) + n > MAXFILE * BSIZE
    <2>1. UNCHANGED <<lock, pc, n1, tot>> /\ left' = [left EXCEPT ![p] = 0]
      BY <1>n, <1>3 DEF WriteChunk
    <2>2. \A q \in Procs : pc[q] \in InWritei => Stays(q)
      BY <1>i, <1>0, <2>1 DEF Stays, InWritei, TypeOK
    <2>3. LockHeld' /\ BlocksInv' /\ SizesInv' /\ Writing'
      BY <1>i, <1>0, <2>1, <2>2, Undisturbed
    <2> QED
      BY <1>i, <2>1, <2>3 DEF TypeOK
  <1>4. CASE ~(Off(p) > size[Ip(p)] \/ Off(p) + n > MAXFILE * BSIZE)
    <2>1. /\ lock' = [lock EXCEPT ![Ip(p)] = p] /\ n1' = [n1 EXCEPT ![p] = n]
          /\ tot' = [tot EXCEPT ![p] = 0] /\ pc' = [pc EXCEPT ![p] = "writei"]
          /\ UNCHANGED left
      BY <1>n, <1>4 DEF WriteChunk, Goto
    <2>2. \A q : Ip(q)' = Ip(q) /\ Off(q)' = Off(q)
      BY <1>0 DEF Ip, Off
    <2>3. /\ \A j \in Inodes : lock'[j] = IF j = Ip(p) THEN p ELSE lock[j]
          /\ \A q \in Procs : q # p => pc'[q] = pc[q] /\ n1'[q] = n1[q] /\ left'[q] = left[q] /\ tot'[q] = tot[q]
          /\ pc'[p] = "writei" /\ n1'[p] = n /\ tot'[p] = 0 /\ left'[p] = left[p]
          /\ n1' \in [Procs -> Nat] /\ tot' \in [Procs -> Nat]
      BY <1>i, <1>1, <1>2, <2>1 DEF TypeOK
    <2>4. LockHeld'
      <3> SUFFICES ASSUME NEW j \in Inodes, NEW q \in Procs
                   PROVE  lock'[j] = q <=> pc'[q] \in InWritei /\ Ip(q)' = j
        BY DEF LockHeld
      <3>1. lock[j] = q <=> pc[q] \in InWritei /\ Ip(q) = j
        BY <1>i DEF LockHeld
      <3>2. CASE q = p
        <4>1. pc'[p] \in InWritei /\ pc[p] \notin InWritei
          BY <1>0, <2>3 DEF InWritei
        <4> QED
          BY <2>2, <2>3, <3>1, <3>2, <4>1
      <3>3. CASE q # p
        <4>1. pc[q] \in InWritei => Ip(q) # Ip(p)
          BY <1>i, <1>0, <3>3, OtherInode DEF InWrite
        <4> QED
          BY <2>2, <2>3, <3>1, <3>3, <4>1
      <3> QED
        BY <3>2, <3>3
    <2>5. BlocksInv' /\ SizesInv'
      BY <1>i, <1>0 DEF BlocksInv, BlocksOf, SizesInv, Covered, BlockOf
    <2>6. Writing'
      <3> SUFFICES ASSUME NEW q \in Procs, pc'[q] \in InWritei
                   PROVE  /\ Off(q) <= size[Ip(q)] /\ tot'[q] <= n1'[q]
                          /\ Off(q) + n1'[q] <= MAXFILE * BSIZE /\ n1'[q] <= MaxWrite /\ n1'[q] <= left'[q]
                          /\ Covered(Ip(q), Off(q) + tot[q])'
        BY <1>0, <2>2 DEF Writing
      <3>p. PICK j, m : j = Ip(q) /\ m = Off(q) + tot'[q]
        OBVIOUS
      <3>1. Covered(Ip(q), Off(q) + tot[q])' <=> Covered(j, m)
        BY <1>0, <2>2, <3>p DEF Covered, BlockOf
      <3>2. CASE q = p
        <4>1. size[j] \in Nat /\ m = Off(p) /\ m <= size[j] /\ Covered(j, size[j])
          BY <1>i, <1>1, <1>4, <2>3, <3>p, <3>2 DEF TypeOK, SizesInv
        <4>2. Covered(j, m)
          BY <1>1, <4>1, CoveredLess
        <4>3. MAXFILE * BSIZE \in Nat
          BY MaxFileIs
        <4> QED
          BY <1>1, <1>2, <1>4, <2>3, <3>p, <3>1, <3>2, <4>1, <4>2, <4>3
      <3>3. CASE q # p
        <4>1. pc[q] \in InWritei /\ tot'[q] = tot[q] /\ n1'[q] = n1[q] /\ left'[q] = left[q]
          BY <2>3, <3>3
        <4> QED
          BY <1>i, <3>p, <3>1, <4>1 DEF Writing
      <3> QED
        BY <3>2, <3>3
    <2> QED
      BY <2>3, <2>4, <2>5, <2>6
  <1> QED
    BY <1>3, <1>4

LEMMA EndKeeps ==
    ASSUME FileInv, NEW p \in Procs, WriteEnd(p)
    PROVE  LockHeld' /\ BlocksInv' /\ SizesInv' /\ Writing' /\ size' \in [Inodes -> Nat]
  <1>i. TypeOK /\ FilesInv /\ LockHeld /\ BlocksInv /\ SizesInv /\ Writing
    BY DEF FileInv, FilesInv
  <1>p. PICK i, f, t : i = Ip(p) /\ f = fp[p] /\ t = tot[p]
    OBVIOUS
  <1>0. /\ pc[p] \in InWritei /\ UNCHANGED <<addrs, ptr, used, fp>>
        /\ size' = [size EXCEPT ![i] = Max({size[i], Off(p) + t})]
        /\ file' = [file EXCEPT ![f].off = @ + t]
        /\ n1' = [n1 EXCEPT ![p] = 0] /\ tot' = [tot EXCEPT ![p] = 0]
        /\ left' = [left EXCEPT ![p] = IF tot[p] = n1[p] THEN left[p] - tot[p] ELSE 0]
        /\ lock' = [lock EXCEPT ![i] = None] /\ pc' = [pc EXCEPT ![p] = "write"]
    BY <1>p DEF WriteEnd, At, Goto, InWritei
  <1>1. f \in Files /\ i \in Inodes /\ Off(p) \in Nat /\ pc[p] \in InWrite
    BY <1>i, <1>p, <1>0, InWriteiIs, InCall
  <1>2. t \in Nat /\ size[i] \in Nat /\ n1[p] \in Nat /\ MAXFILE * BSIZE \in Nat
    BY <1>i, <1>p, <1>1, MaxFileIs DEF TypeOK
  <1>m. PICK s : s = Max({size[i], Off(p) + t})
    OBVIOUS
  <1>3. s = (IF size[i] >= Off(p) + t THEN size[i] ELSE Off(p) + t) /\ s \in Nat
    <2>1. Off(p) + t \in Nat
      BY <1>1, <1>2
    <2>2. s = IF size[i] >= Off(p) + t THEN size[i] ELSE Off(p) + t
      BY <1>2, <1>m, <2>1, MaxTwo
    <2> QED
      BY <1>2, <2>1, <2>2
  <1>4. s <= MAXFILE * BSIZE /\ Covered(i, s)
    <2>1. /\ t <= n1[p] /\ Off(p) + n1[p] <= MAXFILE * BSIZE /\ Covered(i, Off(p) + t)
          /\ size[i] <= MAXFILE * BSIZE /\ Covered(i, size[i])
      BY <1>i, <1>p, <1>0, <1>1 DEF Writing, SizesInv
    <2>2. Off(p) + t <= MAXFILE * BSIZE
      BY <1>1, <1>2, <2>1
    <2> QED
      BY <1>3, <2>1, <2>2
  <1>5. /\ size' \in [Inodes -> Nat]
        /\ \A j \in Inodes : size'[j] = IF j = i THEN s ELSE size[j]
    BY <1>i, <1>0, <1>1, <1>m, <1>3 DEF TypeOK
  <1>6. \A g \in Files : file'[g].ip = file[g].ip /\ (g # f => file'[g] = file[g])
    BY <1>i, <1>0, <1>1, <1>2, MovedIs
  <1>7. /\ \A j \in Inodes : lock'[j] = IF j = i THEN None ELSE lock[j]
        /\ pc'[p] = "write"
        /\ \A q \in Procs : q # p => pc'[q] = pc[q] /\ n1'[q] = n1[q] /\ left'[q] = left[q] /\ tot'[q] = tot[q]
    BY <1>i, <1>0, <1>1 DEF TypeOK
  <1>8. ASSUME NEW q \in Procs, q # p, pc[q] \in InWritei
        PROVE  Ip(q) \in Inodes /\ Ip(q) # i /\ Ip(q)' = Ip(q) /\ Off(q)' = Off(q)
    <2>1. lock[i] = p
      BY <1>i, <1>p, <1>0, <1>1 DEF LockHeld
    <2>2. Ip(q) # i /\ fp[q] # f
      BY <1>i, <1>p, <1>1, <1>8, <2>1, OtherInode
    <2>3. fp[q] \in Files /\ Ip(q) \in Inodes
      BY <1>i, <1>8, InWriteiIs, InCall
    <2> QED
      BY <1>0, <1>6, <2>2, <2>3 DEF Ip, Off
  <1>9. LockHeld'
    <2> SUFFICES ASSUME NEW j \in Inodes, NEW q \in Procs
                 PROVE  lock'[j] = q <=> pc'[q] \in InWritei /\ Ip(q)' = j
      BY DEF LockHeld
    <2>1. lock[j] = q <=> pc[q] \in InWritei /\ Ip(q) = j
      BY <1>i DEF LockHeld
    <2>2. CASE q = p
      <3>1. pc'[p] \notin InWritei /\ None # p
        BY <1>7, NoZero DEF InWritei
      <3> QED
        BY <1>p, <1>7, <2>1, <2>2, <3>1
    <2>3. CASE q # p
      <3>1. None # q
        BY NoZero
      <3> QED
        BY <1>7, <1>8, <2>1, <2>3, <3>1
    <2> QED
      BY <2>2, <2>3
  <1>10. BlocksInv'
    BY <1>i, <1>0 DEF BlocksInv, BlocksOf
  <1>c. ASSUME NEW j, NEW n PROVE Covered(j, n)' <=> Covered(j, n)
    BY <1>0 DEF Covered, BlockOf
  <1>11. SizesInv'
    <2> SUFFICES ASSUME NEW j \in Inodes PROVE size'[j] <= MAXFILE * BSIZE /\ Covered(j, size[j])'
      BY DEF SizesInv
    <2>p. PICK n : n = size'[j]
      OBVIOUS
    <2>1. Covered(j, size[j])' <=> Covered(j, n)'
      BY <2>p DEF Covered
    <2>2. n <= MAXFILE * BSIZE /\ Covered(j, n)
      BY <1>i, <1>4, <1>5, <2>p DEF SizesInv
    <2> QED
      BY <1>c, <2>p, <2>1, <2>2
  <1>12. Writing'
    <2> SUFFICES ASSUME NEW q \in Procs, pc'[q] \in InWritei
                 PROVE  /\ Off(q)' <= size'[Ip(q)'] /\ tot'[q] <= n1'[q]
                        /\ Off(q)' + n1'[q] <= MAXFILE * BSIZE /\ n1'[q] <= MaxWrite /\ n1'[q] <= left'[q]
                        /\ Covered(Ip(q), Off(q) + tot[q])'
      BY DEF Writing
    <2>1. q # p /\ pc[q] \in InWritei
      BY <1>7 DEF InWritei
    <2>2. /\ Ip(q) \in Inodes /\ Ip(q) # i /\ Ip(q)' = Ip(q) /\ Off(q)' = Off(q)
          /\ tot'[q] = tot[q] /\ n1'[q] = n1[q] /\ left'[q] = left[q]
      BY <1>7, <1>8, <2>1
    <2>p. PICK j, n : j = Ip(q) /\ n = Off(q) + tot[q]
      OBVIOUS
    <2>3. Covered(Ip(q), Off(q) + tot[q])' <=> Covered(j, n)'
      BY <2>2, <2>p DEF Covered
    <2>4. Covered(j, n)
      BY <1>i, <2>1, <2>p DEF Writing
    <2>5. size'[j] = size[j]
      BY <1>5, <2>2, <2>p
    <2> QED
      BY <1>i, <1>c, <2>1, <2>2, <2>p, <2>3, <2>4, <2>5 DEF Writing
  <1> QED
    BY <1>5, <1>9, <1>10, <1>11, <1>12

\* A pass of the loop of writei(), in terms of bmap().
Pass(p, got, i, o, m, k) ==
    /\ i \in Inodes /\ o \in Nat /\ m \in Nat
    /\ i = Ip(p) /\ o = Off(p) + tot[p] /\ m <= BSIZE - (o % BSIZE) /\ tot[p] + m <= n1[p]
    /\ o \div BSIZE \in 0..MAXFILE - 1 /\ k = bmap(i, o \div BSIZE)
    /\ Extended(k, i, o \div BSIZE)
    /\ m > 0 /\ (tot[p] + m = n1[p] \/ m = BSIZE - (o % BSIZE))
    /\ got <= m /\ pc[p] = "writei"
    /\ addrs' = [addrs EXCEPT ![i] = k.a] /\ ptr' = k.q /\ used' = k.u
    /\ data' = [b \in Blocks |-> IF b # k.addr THEN data[b] ELSE
                  [x \in DOMAIN data[b] |->
                     IF x \in (o % BSIZE)..(o % BSIZE) + got - 1 THEN p ELSE data[b][x]]]
    /\ logged' = [logged EXCEPT ![p] = @ \union k.log \union
                     IF k.addr # 0 /\ got = m THEN {<<"block", k.addr>>} ELSE {}]
    /\ \/ /\ k.addr # 0 /\ got = m /\ tot' = [tot EXCEPT ![p] = @ + m] /\ UNCHANGED pc
       \/ /\ ~(k.addr # 0 /\ got = m)
          /\ pc' = [pc EXCEPT ![p] = "writei_end"] /\ UNCHANGED tot
    /\ UNCHANGED <<calls, files, size, lock, fp, left, n1, wrong>>

LEMMA PassIs ==
    ASSUME FileInv, NEW p \in Procs, NEW got \in 0..BSIZE, WriteBlock(p, got)
    PROVE  \E i, o, m, k : Pass(p, got, i, o, m, k)
  <1>i. TypeOK /\ FilesInv /\ LockHeld /\ BlocksInv /\ SizesInv /\ Writing
    BY DEF FileInv, FilesInv
  <1>0. pc[p] = "writei" /\ tot[p] < n1[p]
    BY DEF WriteBlock, At
  <1>1. Ip(p) \in Inodes /\ Off(p) \in Nat
    BY <1>i, <1>0, InCall DEF InWrite
  <1>2. tot[p] \in Nat /\ n1[p] \in Nat /\ Off(p) + n1[p] <= MAXFILE * BSIZE /\ MAXFILE * BSIZE \in Nat
    BY <1>i, <1>0, MaxFileIs DEF TypeOK, Writing, InWritei
  <1>p. PICK i, o : i = Ip(p) /\ o = Off(p) + tot[p]
    OBVIOUS
  <1>3. o \in Nat /\ o < MAXFILE * BSIZE /\ i \in Inodes
    BY <1>0, <1>1, <1>2, <1>p
  <1>4. o \div BSIZE \in 0..MAXFILE - 1
    BY <1>3, BlockBound, MaxFileIs
  <1>a. PICK at : at = o % BSIZE
    OBVIOUS
  <1>5. at \in 0..BSIZE - 1
    BY <1>3, <1>a, PlaceOf
  <1>m. PICK m : m = Min({n1[p] - tot[p], BSIZE - at})
    OBVIOUS
  <1>6. /\ m \in Nat /\ m <= BSIZE - at /\ tot[p] + m <= n1[p]
        /\ m > 0 /\ (tot[p] + m = n1[p] \/ m = BSIZE - at)
    <2>1. n1[p] - tot[p] \in Nat /\ BSIZE - at \in Nat
      BY <1>0, <1>2, <1>5, Sizes
    <2>2. m = IF n1[p] - tot[p] <= BSIZE - at THEN n1[p] - tot[p] ELSE BSIZE - at
      BY <1>m, <2>1, MinTwo
    <2> QED
      BY <1>0, <1>2, <1>5, <2>1, <2>2, Sizes
  <1>k. PICK k : k = bmap(i, o \div BSIZE)
    OBVIOUS
  <1>7. Extended(k, i, o \div BSIZE)
    BY <1>i, <1>3, <1>4, <1>k, BmapExtends
  <1>8. /\ got <= m /\ addrs' = [addrs EXCEPT ![i] = k.a] /\ ptr' = k.q /\ used' = k.u
        /\ data' = [b \in Blocks |-> IF b # k.addr THEN data[b] ELSE
                      [x \in DOMAIN data[b] |-> IF x \in at..at + got - 1 THEN p ELSE data[b][x]]]
        /\ logged' = [logged EXCEPT ![p] = @ \union k.log \union
                         IF k.addr # 0 /\ got = m THEN {<<"block", k.addr>>} ELSE {}]
        /\ \/ /\ k.addr # 0 /\ got = m /\ tot' = [tot EXCEPT ![p] = @ + m] /\ UNCHANGED pc
           \/ /\ ~(k.addr # 0 /\ got = m)
              /\ pc' = [pc EXCEPT ![p] = "writei_end"] /\ UNCHANGED tot
        /\ UNCHANGED <<calls, files, size, lock, fp, left, n1, wrong>>
    BY <1>p, <1>a, <1>m, <1>k, Zenon DEF WriteBlock, Goto
  <1>9. Pass(p, got, i, o, m, k)
    BY <1>0, <1>p, <1>a, <1>3, <1>4, <1>6, <1>7, <1>8, <1>k, Zenon DEF Pass
  <1> QED
    BY <1>9

LEMMA PassType ==
    ASSUME FileInv, NEW p \in Procs, NEW got \in 0..BSIZE, WriteBlock(p, got)
    PROVE  TypeOK'
  <1>i. TypeOK
    BY DEF FileInv, FilesInv
  <1>P. PICK i, o, m, k : Pass(p, got, i, o, m, k)
    BY PassIs
  <1>0. /\ i \in Inodes /\ o \in Nat /\ m \in Nat
        /\ Extended(k, i, o \div BSIZE)
        /\ addrs' = [addrs EXCEPT ![i] = k.a] /\ ptr' = k.q /\ used' = k.u
        /\ data' = [b \in Blocks |-> IF b # k.addr THEN data[b] ELSE
                      [x \in DOMAIN data[b] |->
                         IF x \in (o % BSIZE)..(o % BSIZE) + got - 1 THEN p ELSE data[b][x]]]
        /\ \/ tot' = [tot EXCEPT ![p] = @ + m] /\ UNCHANGED pc
           \/ pc' = [pc EXCEPT ![p] = "writei_end"] /\ UNCHANGED tot
        /\ UNCHANGED <<files, size, lock, fp, left, n1, wrong>>
    BY <1>P, Zenon DEF Pass
  <1>1. k.a \in Addrs /\ k.q \in Tables /\ k.u \in SUBSET Blocks
    BY <1>0 DEF Extended
  <1>2. addrs' \in [Inodes -> Addrs] /\ ptr' \in Tables /\ used' \in SUBSET Blocks
    <2>1. addrs \in [Inodes -> Addrs]
      BY <1>i DEF TypeOK, Addrs
    <2> QED
      BY <1>0, <1>1, <2>1
  <1>a. PICK at : at = o % BSIZE
    OBVIOUS
  <1>3. data' \in [Blocks -> [0..BSIZE - 1 -> Procs \union {None}]]
    <2>1. data' = [b \in Blocks |-> IF b # k.addr THEN data[b] ELSE
                     [x \in DOMAIN data[b] |-> IF x \in at..at + got - 1 THEN p ELSE data[b][x]]]
      BY <1>0, <1>a, Zenon
    <2>2. data \in [Blocks -> [0..BSIZE - 1 -> Procs \union {None}]]
      BY <1>i DEF TypeOK
    <2>3. ASSUME NEW b \in Blocks
          PROVE  [x \in DOMAIN data[b] |-> IF x \in at..at + got - 1 THEN p ELSE data[b][x]]
                    \in [0..BSIZE - 1 -> Procs \union {None}]
      BY <2>2
    <2> QED
      BY <2>1, <2>2, <2>3
  <1>4. tot' \in [Procs -> Nat] /\ pc' \in [Procs -> {"user", "pipe", "exit"} \union InWrite]
    <2>1. tot \in [Procs -> Nat] /\ pc \in [Procs -> {"user", "pipe", "exit"} \union InWrite]
      BY <1>i DEF TypeOK
    <2>2. "writei_end" \in InWrite
      BY DEF InWrite
    <2> QED
      BY <1>0, <2>1, <2>2
  <1>5. UNCHANGED <<file, ofile, alive, size, lock, fp, left, n1, wrong>>
    BY <1>0 DEF files
  <1> QED
    BY <1>i, <1>2, <1>3, <1>4, <1>5 DEF TypeOK, Addrs, Tables

LEMMA PassKeeps ==
    ASSUME FileInv, NEW p \in Procs, NEW got \in 0..BSIZE, WriteBlock(p, got)
    PROVE  LockHeld' /\ BlocksInv' /\ SizesInv' /\ Writing'
  <1>i. TypeOK /\ FilesInv /\ LockHeld /\ BlocksInv /\ SizesInv /\ Writing
    BY DEF FileInv, FilesInv
  <1>P. PICK i, o, m, k : Pass(p, got, i, o, m, k)
    BY PassIs
  <1>0. /\ i \in Inodes /\ o \in Nat /\ m \in Nat
        /\ i = Ip(p) /\ o = Off(p) + tot[p] /\ m <= BSIZE - (o % BSIZE) /\ tot[p] + m <= n1[p]
        /\ o \div BSIZE \in 0..MAXFILE - 1
        /\ Extended(k, i, o \div BSIZE) /\ pc[p] = "writei"
        /\ addrs' = [addrs EXCEPT ![i] = k.a] /\ ptr' = k.q /\ used' = k.u
        /\ \/ /\ k.addr # 0 /\ tot' = [tot EXCEPT ![p] = @ + m] /\ UNCHANGED pc
           \/ pc' = [pc EXCEPT ![p] = "writei_end"] /\ UNCHANGED tot
        /\ UNCHANGED <<files, size, lock, fp, left, n1>>
    BY <1>P, Zenon DEF Pass
  <1>d. i \in Inodes /\ o \in Nat /\ m \in Nat
    BY <1>0
  <1>t. TypeOK'
    BY PassType
  <1>a. /\ addrs' \in [Inodes -> Addrs] /\ ptr' \in Tables
        /\ addrs'[i] = k.a /\ \A j \in Inodes : j # i => addrs'[j] = addrs[j]
    BY <1>i, <1>t, <1>0 DEF TypeOK, Addrs, Tables
  <1>1. BlocksInv'
    <2>1. /\ \A x : Holds(addrs'[i], ptr', x) <=> Holds(addrs[i], ptr, x) \/ x \in used' \ used
          /\ used \subseteq used'
          /\ \A j \in Inodes : j # i => \A x : Holds(addrs[j], ptr', x) <=> Holds(addrs[j], ptr, x)
          /\ \A b \in Blocks : b \notin used' => ptr'[b] = NoPtrs
      BY <1>0, <1>a DEF Extended
    <2>2. \A x \in Blocks : x \in used' <=> \/ x \in used /\ ~Holds(addrs[i], ptr, x)
                                            \/ Holds(addrs'[i], ptr', x)
      BY <1>i, <1>d, <2>1, HoldsUsed
    <2>3. \A x : Holds(addrs'[i], ptr', x) => x \notin used \/ Holds(addrs[i], ptr, x)
      BY <2>1
    <2> QED
      BY <1>i, <1>d, <1>a, <2>1, <2>2, <2>3, BlocksNext
  <1>2. \A j \in Inodes, c \in 0..MAXFILE - 1 :
           Place(addrs[j], ptr, c) # 0 => Place(addrs'[j], ptr', c) # 0
    BY <1>0, <1>a DEF Extended
  <1>3. ASSUME NEW j \in Inodes, NEW n \in Nat, n <= MAXFILE * BSIZE, Covered(j, n)
        PROVE  Covered(j, n)'
    <2>1. Ceil(n) \in Nat /\ Ceil(n) <= MAXFILE
      BY <1>3, CeilBound
    <2>2. 0..Ceil(n) - 1 \subseteq 0..MAXFILE - 1
      BY <2>1, MaxFileIs
    <2> QED
      BY <1>2, <1>3, <2>2, CoveredIs
  <1>4. SizesInv'
    <2> SUFFICES ASSUME NEW j \in Inodes PROVE size[j] <= MAXFILE * BSIZE /\ Covered(j, size[j])'
      BY <1>0 DEF SizesInv
    <2>p. PICK n : n = size[j]
      OBVIOUS
    <2>1. n \in Nat /\ n <= MAXFILE * BSIZE /\ Covered(j, n)
      BY <1>i, <2>p DEF TypeOK, SizesInv
    <2>2. Covered(j, size[j])' <=> Covered(j, n)'
      BY <1>0, <2>p DEF Covered
    <2> QED
      BY <1>3, <2>p, <2>1, <2>2
  <1>5. \A q : Ip(q)' = Ip(q) /\ Off(q)' = Off(q)
    BY <1>0 DEF Ip, Off, files
  <1>6. /\ pc[p] \in InWritei /\ pc'[p] \in InWritei
        /\ \A q \in Procs : q # p => pc'[q] = pc[q] /\ tot'[q] = tot[q]
    BY <1>i, <1>0 DEF TypeOK, InWritei
  <1>7. LockHeld'
    BY <1>i, <1>0, <1>5, <1>6 DEF LockHeld
  <1>8. Writing'
    <2> SUFFICES ASSUME NEW q \in Procs, pc'[q] \in InWritei
                 PROVE  /\ Off(q) <= size[Ip(q)] /\ tot'[q] <= n1[q]
                        /\ Off(q) + n1[q] <= MAXFILE * BSIZE /\ n1[q] <= MaxWrite /\ n1[q] <= left[q]
                        /\ Covered(Ip(q), Off(q) + tot[q])'
      BY <1>0, <1>5 DEF Writing
    <2>1. pc[q] \in InWritei
      BY <1>6
    <2>2. /\ Off(q) <= size[Ip(q)] /\ tot[q] <= n1[q]
          /\ Off(q) + n1[q] <= MAXFILE * BSIZE /\ n1[q] <= MaxWrite /\ n1[q] <= left[q]
          /\ Covered(Ip(q), Off(q) + tot[q])
      BY <1>i, <2>1 DEF Writing
    <2>3. Ip(q) \in Inodes /\ Off(q) \in Nat /\ tot[q] \in Nat /\ n1[q] \in Nat /\ MAXFILE * BSIZE \in Nat
      BY <1>i, <2>1, InWriteiIs, InCall, MaxFileIs DEF TypeOK
    <2>p. PICK j, n : j = Ip(q) /\ n = Off(q) + tot'[q]
      OBVIOUS
    <2>c. Covered(Ip(q), Off(q) + tot[q])' <=> Covered(j, n)'
      BY <1>5, <2>p DEF Covered
    <2>4. CASE tot'[q] = tot[q]
      <3>1. n \in Nat /\ n <= MAXFILE * BSIZE /\ Covered(j, n) /\ j \in Inodes
        BY <2>2, <2>3, <2>p, <2>4
      <3> QED
        BY <1>3, <2>2, <2>4, <2>c, <3>1
    <2>5. CASE tot'[q] # tot[q]
      <3>1. q = p /\ k.addr # 0 /\ tot'[p] = tot[p] + m
        BY <1>i, <1>0, <1>6, <2>5 DEF TypeOK
      <3>2. j = i /\ n = o + m
        BY <1>0, <2>3, <2>p, <3>1
      <3>3. Covered(i, o)
        BY <1>0, <2>2, <3>1
      <3>d. PICK bo : bo = o \div BSIZE
        OBVIOUS
      <3>4. Place(addrs'[i], ptr', bo) # 0
        BY <1>0, <1>a, <3>1, <3>d DEF Extended
      <3>5. o <= MAXFILE * BSIZE
        BY <1>0, <2>2, <2>3, <3>1
      <3>6. Covered(i, o)'
        BY <1>d, <1>3, <3>3, <3>5
      <3>7. ASSUME NEW bn \in 0..Ceil(o + m) - 1 PROVE Place(addrs'[i], ptr', bn) # 0
        <4>1. CASE bn = bo
          BY <3>4, <4>1
        <4>2. CASE bn # bo
          <5>1. bn \in 0..Ceil(o) - 1
            BY <1>0, <3>d, <4>2, PassCovers
          <5> QED
            BY <3>6, <5>1, CoveredIs
        <4> QED
          BY <4>1, <4>2
      <3>8. Covered(j, n)'
        BY <3>2, <3>7, CoveredIs
      <3> QED
        BY <1>0, <2>2, <2>c, <3>1, <3>8
    <2> QED
      BY <2>4, <2>5
  <1> QED
    BY <1>1, <1>4, <1>7, <1>8

----------------------------------------------------------------------------
(* Every step keeps the invariant *)


LEMMA OpenStep ==
    ASSUME FileInv, NEW p \in Procs, NEW i \in Inodes, NEW mode \in Modes, Open(p, i, mode)
    PROVE  FileInv'
  <1>i. TypeOK /\ FilesInv /\ LockHeld /\ BlocksInv /\ SizesInv /\ Writing /\ ~wrong
    BY DEF FileInv, FilesInv
  <1>1. PICK f \in Files, d \in FDs :
          /\ file' = [file EXCEPT ![f] = [ref |-> 1, type |-> "inode", ip |-> i, off |-> 0,
                                          readable |-> mode.r, writable |-> mode.w]]
          /\ ofile' = [ofile EXCEPT ![p][d] = f]
    BY FreeFile, FreeFD DEF Open
  <1>2. UNCHANGED <<alive, lock, pc, fp, left, n1, tot>> /\ lock[i] = None
    BY DEF Open, regs
  <1>3. file' \in [Files -> FileEntry]
    <2>1. mode.r \in BOOLEAN /\ mode.w \in BOOLEAN
      BY FileAssumption
    <2>2. [ref |-> 1, type |-> "inode", ip |-> i, off |-> 0,
           readable |-> mode.r, writable |-> mode.w] \in FileEntry
      BY <2>1 DEF FileEntry
    <2> QED
      BY <1>i, <1>1, <2>2 DEF TypeOK
  <1>4. ofile' \in [Procs -> [FDs -> Files \union {0}]]
    BY <1>i, <1>1 DEF TypeOK
  <1>5. FileRefsExact' /\ DeadClosed' /\ CallFile'
    BY <1>i, OpenFiles
  <1>6. /\ \A q \in Procs : pc'[q] \in InWritei => pc[q] \in InWritei
        /\ \A q \in Procs : pc[q] \in InWritei => Stays(q)
    BY <1>i, <1>2, OpenStays
  <1>7. CASE mode.trunc
    <2>1. itrunc(p, i)
      BY <1>7 DEF Open
    <2>2. LockHeld' /\ BlocksInv' /\ SizesInv' /\ Writing'
      BY <1>i, <1>2, <1>6, <2>1, TruncKeeps
    <2>3. /\ addrs' \in [Inodes -> Addrs] /\ ptr' \in Tables /\ used' \in SUBSET Blocks
          /\ data' \in [Blocks -> [0..BSIZE - 1 -> Procs \union {None}]]
          /\ size' = [size EXCEPT ![i] = 0]
          /\ wrong' = wrong
      BY <1>i, <2>1, TruncIs
    <2>4. size' \in [Inodes -> Nat]
      BY <1>i, <2>3 DEF TypeOK
    <2>5. TypeOK'
      BY <1>i, <1>2, <1>3, <1>4, <2>3, <2>4 DEF TypeOK, Addrs, Tables
    <2> QED
      BY <1>i, <1>5, <2>2, <2>3, <2>5 DEF FileInv, FilesInv
  <1>8. CASE ~mode.trunc
    <2>1. UNCHANGED <<size, addrs, ptr, data, used, wrong>>
      BY <1>8 DEF Open, blocks
    <2>2. LockHeld' /\ BlocksInv' /\ SizesInv' /\ Writing'
      BY <1>i, <1>2, <1>6, <2>1, Undisturbed
    <2>3. TypeOK'
      BY <1>i, <1>2, <1>3, <1>4, <2>1 DEF TypeOK
    <2> QED
      BY <1>i, <1>5, <2>1, <2>2, <2>3 DEF FileInv, FilesInv
  <1> QED
    BY <1>7, <1>8

LEMMA DupStep ==
    ASSUME FileInv, NEW p \in Procs, NEW d \in FDs, Dup(p, d)
    PROVE  FileInv'
  <1>i. TypeOK /\ FilesInv /\ LockHeld /\ BlocksInv /\ SizesInv /\ Writing /\ ~wrong
    BY DEF FileInv, FilesInv
  <1>p. PICK f, c : f = ofile[p][d] /\ c = Min(FreeFDs(p))
    OBVIOUS
  <1>0. ofile[p][d] # 0 /\ FreeFDs(p) # {}
    BY DEF Dup
  <1>1. f \in Files /\ c \in FDs
    BY <1>i, <1>p, <1>0, FreeFD DEF TypeOK
  <1>2. /\ file' = [file EXCEPT ![f].ref = @ + 1] /\ ofile' = [ofile EXCEPT ![p][c] = f]
        /\ wrong' = (wrong \/ file[f].ref < 1)
        /\ UNCHANGED <<alive, size, addrs, ptr, data, used, lock, pc, fp, left, n1, tot>>
    BY <1>p DEF Dup, filedup, regs, blocks
  <1>3. file' \in [Files -> FileEntry]
    <2>1. file \in [Files -> FileEntry]
      BY <1>i DEF TypeOK
    <2> QED
      BY <1>1, <1>2, <2>1 DEF FileEntry
  <1>4. ofile' \in [Procs -> [FDs -> Files \union {0}]]
    BY <1>i, <1>1, <1>2 DEF TypeOK
  <1>5. wrong' = wrong
    <2>1. file[f].ref \in Nat /\ file[f].ref >= 1
      BY <1>i, <1>p, <1>1, Referenced DEF TypeOK, FileEntry
    <2> QED
      BY <1>i, <1>2, <2>1 DEF TypeOK
  <1>6. TypeOK'
    BY <1>i, <1>2, <1>3, <1>4, <1>5 DEF TypeOK
  <1>7. FileRefsExact' /\ DeadClosed' /\ CallFile'
    BY <1>i, DupFiles
  <1>8. LockHeld' /\ BlocksInv' /\ SizesInv' /\ Writing'
    <2>1. \A q \in Procs : pc[q] \in InWritei => Stays(q)
      BY <1>i, DupStays
    <2> QED
      BY <1>i, <1>2, <2>1, Undisturbed
  <1> QED
    BY <1>i, <1>5, <1>6, <1>7, <1>8 DEF FileInv, FilesInv

LEMMA PipeStep ==
    ASSUME FileInv, NEW p \in Procs, PipeRead(p) \/ \E copied \in BOOLEAN : PipeWrite(p, copied)
    PROVE  FileInv'
  <1>i. TypeOK /\ FilesInv /\ LockHeld /\ BlocksInv /\ SizesInv /\ Writing /\ ~wrong
    BY DEF FileInv, FilesInv
  <1>1. /\ UNCHANGED <<alive, size, addrs, ptr, data, used, lock, left, n1, tot, wrong>>
        /\ pc' = [pc EXCEPT ![p] = "pipe"] \/ pc' = [pc EXCEPT ![p] = "user"]
        /\ pc[p] \in {"user", "pipe"}
    BY DEF PipeRead, PipeWrite, Goto, blocks, Call, At
  <1>t. pc \in [Procs -> {"user", "pipe", "exit"} \union InWrite]
    BY <1>i DEF TypeOK
  <1>2. /\ pc' \in [Procs -> {"user", "pipe", "exit"} \union InWrite]
        /\ pc'[p] \in {"user", "pipe"} /\ \A q \in Procs : q # p => pc'[q] = pc[q]
    BY <1>1, <1>t
  <1>3. /\ file' \in [Files -> FileEntry] /\ fp' \in [Procs -> Files \union {0}]
        /\ ofile' \in [Procs -> [FDs -> Files \union {0}]]
    <2>0. file \in [Files -> FileEntry] /\ ofile \in [Procs -> [FDs -> Files \union {0}]]
          /\ fp \in [Procs -> Files \union {0}]
      BY <1>i DEF TypeOK
    <2>1. CASE PipeRead(p)
      <3>1. PICK f \in Files : /\ file' = [file EXCEPT ![f] = [FD_NONE EXCEPT !.ref = 1]]
                               /\ fp' = [fp EXCEPT ![p] = f] /\ UNCHANGED ofile
        BY <2>1, FreeFile DEF PipeRead
      <3>2. [FD_NONE EXCEPT !.ref = 1] \in FileEntry
        BY DEF FD_NONE, FileEntry
      <3> QED
        BY <2>0, <3>1, <3>2
    <2>2. CASE \E copied \in BOOLEAN : PipeWrite(p, copied)
      <3>c. PICK copied \in BOOLEAN : PipeWrite(p, copied)
        BY <2>2
      <3>1. file' \in [Files -> FileEntry]
        BY <1>i, <3>c, PipeWriteIs
      <3>2. fp' = [fp EXCEPT ![p] = 0]
        BY <3>c DEF PipeWrite
      <3>3. fp' \in [Procs -> Files \union {0}]
        BY <2>0, <3>2
      <3>4. ofile' \in [Procs -> [FDs -> Files \union {0}]]
        <4>1. CASE UNCHANGED ofile
          BY <2>0, <4>1
        <4>2. CASE ofile' # ofile
          <5>p. PICK r, w, d0, d1 :
                  /\ r = fp[p] /\ w = Min(FreeFiles) /\ d0 = Min(FreeFDs(p))
                  /\ d1 = Min(FreeFDs(p) \ {d0})
            OBVIOUS
          <5>1. ofile' = [ofile EXCEPT ![p][d0] = r, ![p][d1] = w] /\ FreeFiles # {}
            BY <3>c, <4>2, <5>p DEF PipeWrite
          <5>2. r \in Files \union {0} /\ w \in Files
            BY <2>0, <5>p, <5>1, FreeFile
          <5> QED
            BY <2>0, <5>1, <5>2
        <4> QED
          BY <4>1, <4>2
      <3> QED
        BY <3>1, <3>3, <3>4
    <2> QED
      BY <2>1, <2>2
  <1>4. TypeOK'
    BY <1>i, <1>1, <1>2, <1>3 DEF TypeOK
  <1>5. FileRefsExact' /\ DeadClosed' /\ CallFile'
    BY <1>i, PipeReadFiles, PipeWriteFiles
  <1>6. LockHeld' /\ BlocksInv' /\ SizesInv' /\ Writing'
    <2>1. \A q \in Procs : pc[q] \in InWritei => Stays(q)
      BY <1>i, PipeStays
    <2>2. \A q \in Procs : pc'[q] \in InWritei => pc[q] \in InWritei
      BY <1>2 DEF InWritei
    <2> QED
      BY <1>i, <1>1, <2>1, <2>2, Undisturbed
  <1> QED
    BY <1>i, <1>1, <1>4, <1>5, <1>6 DEF FileInv, FilesInv

LEMMA CloseStep ==
    ASSUME FileInv, NEW p \in Procs, NEW d \in FDs, Close(p, d)
    PROVE  FileInv'
  <1>i. TypeOK /\ FilesInv /\ LockHeld /\ BlocksInv /\ SizesInv /\ Writing /\ ~wrong
    BY DEF FileInv, FilesInv
  <1>p. PICK f, t : f = ofile[p][d] /\ t = file
    OBVIOUS
  <1>0. ofile[p][d] # 0
    BY DEF Close
  <1>1. f \in Files /\ t \in [Files -> FileEntry]
    BY <1>i, <1>p, <1>0 DEF TypeOK
  <1>2. /\ file' = fileclose(t, f) /\ ofile' = [ofile EXCEPT ![p][d] = 0]
        /\ wrong' = (wrong \/ file[f].ref < 1)
        /\ UNCHANGED <<alive, size, addrs, ptr, data, used, lock, pc, fp, left, n1, tot>>
    BY <1>p DEF Close, regs, blocks
  <1>3. file' \in [Files -> FileEntry]
    BY <1>1, <1>2, CloseIs
  <1>4. ofile' \in [Procs -> [FDs -> Files \union {0}]]
    BY <1>i, <1>2 DEF TypeOK
  <1>5. wrong' = wrong
    <2>1. file[f].ref \in Nat /\ file[f].ref >= 1
      BY <1>i, <1>p, <1>1, Referenced DEF TypeOK, FileEntry
    <2> QED
      BY <1>i, <1>2, <2>1 DEF TypeOK
  <1>6. TypeOK'
    BY <1>i, <1>2, <1>3, <1>4, <1>5 DEF TypeOK
  <1>7. FileRefsExact' /\ DeadClosed' /\ CallFile'
    BY <1>i, CloseFiles
  <1>8. LockHeld' /\ BlocksInv' /\ SizesInv' /\ Writing'
    <2>1. \A q \in Procs : pc[q] \in InWritei => Stays(q)
      BY <1>i, CloseStays
    <2> QED
      BY <1>i, <1>2, <2>1, Undisturbed
  <1> QED
    BY <1>i, <1>5, <1>6, <1>7, <1>8 DEF FileInv, FilesInv

LEMMA ForkStep ==
    ASSUME FileInv, NEW p \in Procs, NEW q \in Procs, Fork(p, q)
    PROVE  FileInv'
  <1>i. TypeOK /\ FilesInv /\ LockHeld /\ BlocksInv /\ SizesInv /\ Writing /\ ~wrong
    BY DEF FileInv, FilesInv
  <1>1. /\ alive' = alive \union {q} /\ ofile' = [ofile EXCEPT ![q] = ofile[p]]
        /\ UNCHANGED <<size, addrs, ptr, data, used, lock, pc, fp, left, n1, tot, wrong>>
    BY DEF Fork, regs, blocks
  <1>2. FileRefsExact' /\ DeadClosed' /\ CallFile' /\ file' \in [Files -> FileEntry]
    BY <1>i, ForkFiles
  <1>3. TypeOK'
    BY <1>i, <1>1, <1>2 DEF TypeOK
  <1>4. LockHeld' /\ BlocksInv' /\ SizesInv' /\ Writing'
    <2>1. \A x \in Procs : pc[x] \in InWritei => Stays(x)
      BY <1>i, ForkStays
    <2> QED
      BY <1>i, <1>1, <2>1, Undisturbed
  <1> QED
    BY <1>i, <1>1, <1>2, <1>3, <1>4 DEF FileInv, FilesInv

LEMMA ExitStep ==
    ASSUME FileInv, NEW p \in Procs, Exit(p) \/ Exited(p)
    PROVE  FileInv'
  <1>i. TypeOK /\ FilesInv /\ LockHeld /\ BlocksInv /\ SizesInv /\ Writing /\ ~wrong
    BY DEF FileInv, FilesInv
  <1>1. /\ UNCHANGED <<file, ofile, size, addrs, ptr, data, used, lock, fp, left, n1, tot, wrong>>
        /\ pc' = [pc EXCEPT ![p] = "exit"] \/ pc' = [pc EXCEPT ![p] = "user"]
        /\ pc[p] \in {"user", "exit"} /\ alive' \in {alive, alive \ {p}}
    BY DEF Exit, Exited, Goto, regs, blocks, files, Call, At
  <1>2. /\ pc' \in [Procs -> {"user", "pipe", "exit"} \union InWrite]
        /\ pc'[p] \in {"user", "exit"} /\ \A q \in Procs : q # p => pc'[q] = pc[q]
    BY <1>i, <1>1 DEF TypeOK
  <1>3. TypeOK'
    BY <1>i, <1>1, <1>2 DEF TypeOK
  <1>4. FileRefsExact' /\ DeadClosed' /\ CallFile'
    BY <1>i, ExitFiles
  <1>5. LockHeld' /\ BlocksInv' /\ SizesInv' /\ Writing'
    <2>1. \A q \in Procs : pc[q] \in InWritei => Stays(q)
      BY <1>1, <1>2 DEF Stays, InWritei
    <2>2. \A q \in Procs : pc'[q] \in InWritei => pc[q] \in InWritei
      BY <1>2 DEF InWritei
    <2> QED
      BY <1>i, <1>1, <2>1, <2>2, Undisturbed
  <1> QED
    BY <1>i, <1>1, <1>3, <1>4, <1>5 DEF FileInv, FilesInv

\* A read needs no block that the file does not have.
LEMMA ReadStep ==
    ASSUME FileInv, NEW p \in Procs, NEW d \in FDs, NEW n \in Counts, NEW copied \in BOOLEAN,
           Read(p, d, n, copied)
    PROVE  FileInv'
  <1>i. TypeOK /\ FilesInv /\ LockHeld /\ BlocksInv /\ SizesInv /\ Writing /\ ~wrong
    BY DEF FileInv, FilesInv
  <1>1. PICK f \in Files, r \in Nat :
          /\ file[f].ip \in Inodes /\ (file[f].off + r <= size[file[f].ip] \/ r = 0)
          /\ wrong' = (wrong \/ \E k \in file[f].off..file[f].off + r - 1 :
                                  BlockOf(file[f].ip, k \div BSIZE) = 0)
          /\ UNCHANGED <<ofile, alive, blocks, lock, pc, regs, logged>>
    BY <1>i, ReadIs, Zenon
  <1>2. UNCHANGED <<size, addrs, ptr, data, used, fp, left, n1, tot>>
    BY <1>1 DEF blocks, regs
  <1>3. ~wrong'
    <2>p. PICK i, o : i = file[f].ip /\ o = file[f].off
      OBVIOUS
    <2>1. i \in Inodes /\ o \in Nat /\ size[i] \in Nat /\ Covered(i, size[i])
      BY <1>i, <1>1, <2>p DEF TypeOK, FileEntry, SizesInv
    <2>2. ASSUME NEW k \in o..o + r - 1 PROVE BlockOf(i, k \div BSIZE) # 0
      <3>1. k \in Nat /\ k < size[i]
        BY <1>1, <2>p, <2>1, <2>2
      <3>s. PICK s : s = size[i]
        OBVIOUS
      <3>2. k \div BSIZE \in 0..Ceil(s) - 1
        BY <2>1, <3>1, <3>s, ByteCovered
      <3> QED
        BY <2>1, <3>2, <3>s DEF Covered
    <2>3. wrong' = (wrong \/ \E k \in o..o + r - 1 : BlockOf(i, k \div BSIZE) = 0)
      BY <1>1, <2>p, Zenon
    <2> QED
      BY <1>i, <2>2, <2>3, Zenon
  <1>4. FileRefsExact' /\ DeadClosed' /\ CallFile' /\ file' \in [Files -> FileEntry]
    BY <1>i, ReadFiles
  <1>5. wrong' \in BOOLEAN
    BY <1>1, Zenon
  <1>6. TypeOK'
    <2>1. UNCHANGED <<ofile, alive, lock, pc>>
      BY <1>1
    <2> QED
      BY <1>i, <1>2, <1>4, <1>5, <2>1 DEF TypeOK
  <1>7. LockHeld' /\ BlocksInv' /\ SizesInv' /\ Writing'
    <2>1. \A q \in Procs : pc[q] \in InWritei => Stays(q)
      BY <1>i, ReadStays
    <2>2. UNCHANGED <<lock, pc>>
      BY <1>1
    <2> QED
      BY <1>i, <1>2, <2>1, <2>2, Undisturbed
  <1> QED
    BY <1>3, <1>4, <1>6, <1>7 DEF FileInv, FilesInv

LEMMA WriteStep ==
    ASSUME FileInv, NEW p \in Procs, NEW d \in FDs, NEW n \in Counts, Write(p, d, n)
    PROVE  FileInv'
  <1>i. TypeOK /\ FilesInv /\ LockHeld /\ BlocksInv /\ SizesInv /\ Writing /\ ~wrong
    BY DEF FileInv, FilesInv
  <1>1. /\ pc[p] = "user" /\ pc' = [pc EXCEPT ![p] = "write"]
        /\ fp' = [fp EXCEPT ![p] = ofile[p][d]] /\ left' = [left EXCEPT ![p] = n]
        /\ UNCHANGED <<file, ofile, alive, size, addrs, ptr, data, used, lock, n1, tot, wrong>>
    BY DEF Write, Call, At, Goto, files, blocks
  <1>2. TypeOK'
    <2>1. n \in Nat /\ ofile[p][d] \in Files \union {0} /\ "write" \in InWrite
      BY <1>i, FileAssumption DEF TypeOK, InWrite
    <2>2. /\ pc' \in [Procs -> {"user", "pipe", "exit"} \union InWrite]
          /\ fp' \in [Procs -> Files \union {0}] /\ left' \in [Procs -> Nat]
      BY <1>i, <1>1, <2>1 DEF TypeOK
    <2> QED
      BY <1>i, <1>1, <2>2 DEF TypeOK
  <1>3. FileRefsExact' /\ DeadClosed' /\ CallFile'
    BY <1>i, WriteFiles
  <1>4. LockHeld' /\ BlocksInv' /\ SizesInv' /\ Writing'
    <2>0. /\ pc'[p] = "write"
          /\ \A q \in Procs : q # p => pc'[q] = pc[q] /\ fp'[q] = fp[q]
      BY <1>i, <1>1 DEF TypeOK
    <2>1. \A q \in Procs : pc[q] \in InWritei => Stays(q)
      BY <1>1, <2>0 DEF Stays, InWritei
    <2>2. \A q \in Procs : pc'[q] \in InWritei => pc[q] \in InWritei
      BY <2>0 DEF InWritei
    <2> QED
      BY <1>i, <1>1, <2>1, <2>2, Undisturbed
  <1> QED
    BY <1>i, <1>1, <1>2, <1>3, <1>4 DEF FileInv, FilesInv

LEMMA ReturnStep ==
    ASSUME FileInv, NEW p \in Procs, WriteReturn(p)
    PROVE  FileInv'
  <1>i. TypeOK /\ FilesInv /\ LockHeld /\ BlocksInv /\ SizesInv /\ Writing /\ ~wrong
    BY DEF FileInv, FilesInv
  <1>1. /\ pc[p] = "write" /\ pc' = [pc EXCEPT ![p] = "user"] /\ fp' = [fp EXCEPT ![p] = 0]
        /\ UNCHANGED <<file, ofile, alive, size, addrs, ptr, data, used, lock, left, n1, tot, wrong>>
    BY DEF WriteReturn, At, Goto, files, blocks
  <1>2. TypeOK'
    <2>1. /\ pc' \in [Procs -> {"user", "pipe", "exit"} \union InWrite]
          /\ fp' \in [Procs -> Files \union {0}]
      BY <1>i, <1>1 DEF TypeOK
    <2> QED
      BY <1>i, <1>1, <2>1 DEF TypeOK
  <1>3. FileRefsExact' /\ DeadClosed' /\ CallFile'
    BY <1>i, WriteFiles
  <1>4. LockHeld' /\ BlocksInv' /\ SizesInv' /\ Writing'
    <2>0. /\ pc'[p] = "user"
          /\ \A q \in Procs : q # p => pc'[q] = pc[q] /\ fp'[q] = fp[q]
      BY <1>i, <1>1 DEF TypeOK
    <2>1. \A q \in Procs : pc[q] \in InWritei => Stays(q)
      BY <1>1, <2>0 DEF Stays, InWritei
    <2>2. \A q \in Procs : pc'[q] \in InWritei => pc[q] \in InWritei
      BY <2>0 DEF InWritei
    <2> QED
      BY <1>i, <1>1, <2>1, <2>2, Undisturbed
  <1> QED
    BY <1>i, <1>1, <1>2, <1>3, <1>4 DEF FileInv, FilesInv

LEMMA ChunkStep ==
    ASSUME FileInv, NEW p \in Procs, WriteChunk(p)
    PROVE  FileInv'
  <1>i. TypeOK /\ FilesInv /\ ~wrong
    BY DEF FileInv, FilesInv
  <1>1. UNCHANGED <<file, ofile, alive, size, addrs, ptr, data, used, fp, wrong>>
    BY DEF WriteChunk, files, blocks
  <1>2. /\ LockHeld' /\ BlocksInv' /\ SizesInv' /\ Writing'
        /\ n1' \in [Procs -> Nat] /\ tot' \in [Procs -> Nat]
    BY ChunkKeeps
  <1>3. FileRefsExact' /\ DeadClosed' /\ CallFile'
    BY <1>i, WriteFiles
  <1>4. /\ UNCHANGED lock \/ lock' = [lock EXCEPT ![Ip(p)] = p]
        /\ UNCHANGED pc \/ pc' = [pc EXCEPT ![p] = "writei"]
        /\ UNCHANGED left \/ left' = [left EXCEPT ![p] = 0]
    BY DEF WriteChunk, Goto
  <1>5. /\ lock' \in [Inodes -> Procs \union {None}] /\ left' \in [Procs -> Nat]
        /\ pc' \in [Procs -> {"user", "pipe", "exit"} \union InWrite]
    <2>1. "writei" \in InWrite
      BY DEF InWrite
    <2>2. lock' \in [Inodes -> Procs \union {None}]
      BY <1>i, <1>4 DEF TypeOK
    <2>3. left' \in [Procs -> Nat]
      BY <1>i, <1>4 DEF TypeOK
    <2>4. pc' \in [Procs -> {"user", "pipe", "exit"} \union InWrite]
      BY <1>i, <1>4, <2>1 DEF TypeOK
    <2> QED
      BY <2>2, <2>3, <2>4
  <1>6. TypeOK'
    BY <1>i, <1>1, <1>2, <1>5 DEF TypeOK
  <1> QED
    BY <1>i, <1>1, <1>2, <1>3, <1>6 DEF FileInv, FilesInv

LEMMA PassStep ==
    ASSUME FileInv, NEW p \in Procs, NEW got \in 0..BSIZE, WriteBlock(p, got)
    PROVE  FileInv'
  <1>i. TypeOK /\ FilesInv /\ ~wrong
    BY DEF FileInv, FilesInv
  <1>1. FileRefsExact' /\ DeadClosed' /\ CallFile'
    BY <1>i, WriteFiles
  <1>2. wrong' = wrong
    BY DEF WriteBlock
  <1> QED
    BY <1>i, <1>1, <1>2, PassType, PassKeeps DEF FileInv, FilesInv

LEMMA EndStep ==
    ASSUME FileInv, NEW p \in Procs, WriteEnd(p)
    PROVE  FileInv'
  <1>i. TypeOK /\ FilesInv /\ Writing /\ ~wrong
    BY DEF FileInv, FilesInv
  <1>0. pc[p] \in InWritei
    BY DEF WriteEnd, At, InWritei
  <1>1. FileRefsExact' /\ DeadClosed' /\ CallFile' /\ file' \in [Files -> FileEntry]
    BY <1>i, WriteEndFiles
  <1>2. LockHeld' /\ BlocksInv' /\ SizesInv' /\ Writing' /\ size' \in [Inodes -> Nat]
    BY EndKeeps
  <1>3. /\ left' = [left EXCEPT ![p] = IF tot[p] = n1[p] THEN left[p] - tot[p] ELSE 0]
        /\ n1' = [n1 EXCEPT ![p] = 0] /\ tot' = [tot EXCEPT ![p] = 0]
        /\ lock' = [lock EXCEPT ![Ip(p)] = None] /\ pc' = [pc EXCEPT ![p] = "write"]
        /\ UNCHANGED <<ofile, alive, addrs, ptr, data, used, fp, wrong>>
    BY DEF WriteEnd, Goto
  <1>4. left' \in [Procs -> Nat]
    <2>1. tot[p] = n1[p] => left[p] - tot[p] \in Nat
      BY <1>i, <1>0 DEF TypeOK, Writing
    <2> QED
      BY <1>i, <1>3, <2>1 DEF TypeOK
  <1>5. /\ n1' \in [Procs -> Nat] /\ tot' \in [Procs -> Nat]
        /\ lock' \in [Inodes -> Procs \union {None}]
        /\ pc' \in [Procs -> {"user", "pipe", "exit"} \union InWrite]
    <2>1. "write" \in InWrite
      BY DEF InWrite
    <2> QED
      BY <1>i, <1>3, <2>1 DEF TypeOK
  <1>6. TypeOK'
    BY <1>i, <1>1, <1>2, <1>3, <1>4, <1>5 DEF TypeOK
  <1> QED
    BY <1>i, <1>1, <1>2, <1>3, <1>6 DEF FileInv, FilesInv

LEMMA FileInit == ASSUME Init PROVE FileInv
  <1>1. TypeOK
    <2>1. FD_NONE \in FileEntry /\ Zeros \in [0..BSIZE - 1 -> Procs \union {None}]
          /\ NoAddrs \in [0..NDIRECT -> Blocks \union {0}]
          /\ NoPtrs \in [0..NINDIRECT - 1 -> Blocks \union {0}]
      BY DEF FD_NONE, FileEntry, Zeros, NoAddrs, NoPtrs
    <2> QED
      BY <2>1, FileAssumption DEF Init, TypeOK
  <1>2. FileRefsExact
    <2> SUFFICES ASSUME NEW f \in Files
                 PROVE  file[f].ref = Cardinality(Descs(f)) + Cardinality(Piping(f))
      BY ExactIs
    <2>1. Descs(f) = {}
      BY NoZero DEF Init, Descs
    <2>2. Piping(f) = {}
      BY DEF Init, Piping, At
    <2>3. Cardinality(Descs(f)) = 0 /\ Cardinality(Piping(f)) = 0
      BY <2>1, <2>2, FS_EmptySet
    <2>4. file[f].ref = 0
      BY DEF Init, FD_NONE
    <2> QED
      BY <2>3, <2>4
  <1>3. DeadClosed
    BY DEF Init, DeadClosed
  <1>4. CallFile
    <2>1. \A f \in Files : file[f].type = "none"
      BY DEF Init, FD_NONE
    <2>2. \A p \in Procs : pc[p] = "user"
      BY DEF Init
    <2> QED
      BY <2>1, <2>2 DEF CallFile, InWrite
  <1>5. LockHeld /\ Writing
    BY NoZero DEF Init, LockHeld, Writing, InWritei
  <1>6. BlocksInv
    <2>1. \A i \in Inodes : addrs[i] = NoAddrs
      BY DEF Init
    <2>2. \A x \in 0..NDIRECT : NoAddrs[x] = 0
      BY DEF NoAddrs
    <2>3. \A i \in Inodes : \A b : ~Holds(addrs[i], ptr, b)
      BY <2>1, <2>2, Sizes DEF Holds
    <2>4. \A i \in Inodes : \A b : b \notin BlocksOf(i)
      BY <1>1, <2>3, HoldsIs
    <2>5. used = {} /\ \A b \in Blocks : ptr[b] = NoPtrs
      BY DEF Init
    <2> QED
      BY <2>4, <2>5 DEF BlocksInv
  <1>7. SizesInv
    <2> SUFFICES ASSUME NEW i \in Inodes PROVE size[i] <= MAXFILE * BSIZE /\ Covered(i, size[i])
      BY DEF SizesInv
    <2>1. size[i] = 0
      BY DEF Init
    <2>2. Covered(i, 0)
      BY NothingCovered DEF Covered
    <2> QED
      BY <2>1, <2>2, MaxFileIs
  <1>8. ~wrong
    BY DEF Init
  <1> QED
    BY <1>1, <1>2, <1>3, <1>4, <1>5, <1>6, <1>7, <1>8 DEF FileInv, FilesInv

LEMMA FileStutter == ASSUME FileInv, UNCHANGED vars PROVE FileInv'
  <1>i. TypeOK /\ FilesInv /\ FileRefsExact /\ DeadClosed /\ CallFile
        /\ LockHeld /\ BlocksInv /\ SizesInv /\ Writing /\ ~wrong
    BY DEF FileInv, FilesInv
  <1>1. /\ UNCHANGED <<file, ofile, alive, size, addrs, ptr, data, used, lock, pc>>
        /\ UNCHANGED <<fp, left, n1, tot, wrong>>
    BY DEF vars, files, blocks, regs
  <1>2. TypeOK'
    BY <1>i, <1>1 DEF TypeOK
  <1>3. FileRefsExact'
    BY <1>i, <1>1, SamePiping, SameFiles
  <1>4. DeadClosed' /\ CallFile'
    BY <1>i, <1>1 DEF DeadClosed, CallFile
  <1>5. LockHeld' /\ BlocksInv' /\ SizesInv' /\ Writing'
    <2>1. \A q \in Procs : pc[q] \in InWritei => Stays(q)
      BY <1>1 DEF Stays
    <2> QED
      BY <1>i, <1>1, <2>1, Undisturbed
  <1> QED
    BY <1>i, <1>1, <1>2, <1>3, <1>4, <1>5 DEF FileInv, FilesInv

LEMMA FileNext == ASSUME FileInv, [Next]_vars PROVE FileInv'
  <1>1. CASE \E p \in Procs, i \in Inodes, mode \in Modes : Open(p, i, mode)
    BY <1>1, OpenStep
  <1>2. CASE \E p \in Procs, d \in FDs : Dup(p, d)
    BY <1>2, DupStep
  <1>3. CASE \/ \E p \in Procs : PipeRead(p)
             \/ \E p \in Procs, copied \in BOOLEAN : PipeWrite(p, copied)
    BY <1>3, PipeStep
  <1>4. CASE \E p \in Procs, d \in FDs : Close(p, d)
    BY <1>4, CloseStep
  <1>5. CASE \E p, q \in Procs : Fork(p, q)
    BY <1>5, ForkStep
  <1>6. CASE \E p \in Procs : Exit(p) \/ Exited(p)
    BY <1>6, ExitStep
  <1>7. CASE \E p \in Procs, d \in FDs, n \in Counts, copied \in BOOLEAN : Read(p, d, n, copied)
    BY <1>7, ReadStep
  <1>8. CASE \E p \in Procs, d \in FDs, n \in Counts : Write(p, d, n)
    BY <1>8, WriteStep
  <1>9. CASE \E p \in Procs : WriteChunk(p)
    BY <1>9, ChunkStep
  <1>10. CASE \E p \in Procs, got \in 0..BSIZE : WriteBlock(p, got)
    BY <1>10, PassStep
  <1>11. CASE \E p \in Procs : WriteEnd(p)
    BY <1>11, EndStep
  <1>12. CASE \E p \in Procs : WriteReturn(p)
    BY <1>12, ReturnStep
  <1>13. CASE UNCHANGED vars
    BY <1>13, FileStutter
  <1> QED
    BY <1>1, <1>2, <1>3, <1>4, <1>5, <1>6, <1>7, <1>8, <1>9, <1>10, <1>11, <1>12, <1>13, Zenon
       DEF Next

\* The invariant of the file table, of the blocks and of the writes under way
\* (file.c, sysfile.c, and balloc() to writei() of fs.c).
THEOREM FileInvariant == Spec => []FileInv
  <1> QED
    BY FileInit, FileNext, PTL DEF Spec

\* The reference counts of the file table are exact (filealloc(), filedup(),
\* fileclose() of file.c, and the calls of sysfile.c and kfork()).
THEOREM FileRefs == Spec => []FileRefsExact
  <1>1. FileInv => FileRefsExact
    BY DEF FileInv, FilesInv
  <1> QED
    BY <1>1, FileInvariant, PTL

----------------------------------------------------------------------------
(* The size of a transaction *)

LogItems == ({"bitmap"} \X Int) \union ({"block"} \X Blocks) \union ({"inode"} \X Inodes)

\* The indirect block, as logged, of an inode with addresses a, and their number.
Table(a) == IF a[NDIRECT] = 0 THEN {} ELSE {<<"block", a[NDIRECT]>>}
Has(a) == IF a[NDIRECT] = 0 THEN 0 ELSE 1

Unaligned(p) == IF Off(p) % BSIZE = 0 THEN 0 ELSE 1

\* What a writei() that has got to byte x may have logged: for each block from
\* the one that it began in, the block and its bitmap block, except that a
\* first block that it began inside of existed, and the bitmap block of the
\* indirect block; and the indirect block, which is not counted.
LogCost(p, x) ==
    Cardinality(logged[p] \ Table(addrs[Ip(p)]))
       <= 2 * (Ceil(x) - (Off(p) \div BSIZE)) - Unaligned(p) + Has(addrs[Ip(p)])

LogBound(p) ==
    \/ pc[p] = "writei" /\ tot[p] = 0 /\ logged[p] = {}
    \/ \E x \in Nat :
        /\ Off(p) < x /\ x <= Off(p) + n1[p]
        /\ pc[p] = "writei" => /\ x = Off(p) + tot[p]
                               /\ tot[p] = n1[p] \/ \E z \in Nat : x = BSIZE * z
        /\ LogCost(p, x)

LogInv ==
    /\ logged \in [Procs -> SUBSET LogItems]
    /\ \A p \in Procs : IsFiniteSet(logged[p]) /\ Cardinality(logged[p]) <= MAXOPBLOCKS
    /\ \A p \in Procs : pc[p] \in InWritei => LogBound(p)

LEMMA AtMostTwo ==
    ASSUME NEW x, NEW y
    PROVE  IsFiniteSet({x, y}) /\ Cardinality({x, y}) \in Nat /\ Cardinality({x, y}) <= 2
  <1>1. IsFiniteSet({x}) /\ Cardinality({x}) = 1
    BY FS_Singleton
  <1>2. /\ IsFiniteSet({x} \union {y})
        /\ Cardinality({x} \union {y}) = IF y \in {x} THEN Cardinality({x}) ELSE Cardinality({x}) + 1
    BY <1>1, FS_AddElement
  <1>3. {x} \union {y} = {x, y}
    OBVIOUS
  <1> QED
    BY <1>1, <1>2, <1>3

LEMMA AtMostThree ==
    ASSUME NEW x, NEW y, NEW z
    PROVE  IsFiniteSet({x, y, z}) /\ Cardinality({x, y, z}) \in Nat /\ Cardinality({x, y, z}) <= 3
  <1>1. IsFiniteSet({x, y}) /\ Cardinality({x, y}) \in Nat /\ Cardinality({x, y}) <= 2
    BY AtMostTwo
  <1>2. /\ IsFiniteSet({x, y} \union {z})
        /\ Cardinality({x, y} \union {z}) =
              IF z \in {x, y} THEN Cardinality({x, y}) ELSE Cardinality({x, y}) + 1
    BY <1>1, FS_AddElement
  <1>3. {x, y} \union {z} = {x, y, z}
    OBVIOUS
  <1> QED
    BY <1>1, <1>2, <1>3

LEMMA BitmapItem ==
    ASSUME NEW b \in Blocks
    PROVE  BitmapBlocks({b}) = {<<"bitmap", b \div BPB>>} /\ <<"bitmap", b \div BPB>> \in LogItems
  <1>1. b \in Int
    BY Sizes DEF Blocks
  <1>2. b \div BPB \in Int
    BY <1>1, DivMod, Sizes
  <1> QED
    BY <1>2 DEF BitmapBlocks, LogItems

\* A holds what a call of bmap(), which changed addresses a to k.a, and the
\* log_write() of the block that it returns, logged besides the indirect block.
BmapCost(A, i, bn, k, D, a) ==
    /\ IsFiniteSet(A) /\ Cardinality(A) \in Nat
    /\ Cardinality(A) <= 2 + (Has(k.a) - Has(a))
    /\ BlockOf(i, bn) # 0 => Cardinality(A) <= 1 /\ k.a = a
    /\ (k.log \union D) \ Table(k.a) \subseteq A
    /\ Table(a) \subseteq Table(k.a)
    /\ k.log \union D \in SUBSET LogItems

LEMMA BmapLog ==
    ASSUME TypeOK, NEW i \in Inodes, NEW bn \in 0..MAXFILE - 1, NEW k, k = bmap(i, bn),
           NEW D, D \subseteq {<<"block", k.addr>>}, k.addr = 0 => D = {},
           NEW a, a = addrs[i]
    PROVE  \E A : BmapCost(A, i, bn, k, D, a)
  <1>0. addrs[i] \in Addrs /\ ptr \in Tables /\ NDIRECT \in 0..NDIRECT /\ NDIRECT \in Int /\ bn \in Int
    BY Sizes DEF TypeOK, Addrs, Tables
  <1>h. Has(a) \in {0, 1}
    BY DEF Has
  <1>1. CASE Found(k, i, bn)
    <2>1. /\ BlockOf(i, bn) # 0 /\ k.addr = BlockOf(i, bn) /\ k.a = addrs[i] /\ k.log = {}
      BY <1>1 DEF Found
    <2>2. k.addr \in Blocks
      BY <1>0, <2>1, PlaceIs, PlaceHolds
    <2> DEFINE A == {<<"block", k.addr>>}
    <2>3. IsFiniteSet(A) /\ Cardinality(A) = 1
      BY FS_Singleton
    <2>4. A \in SUBSET LogItems
      BY <2>2 DEF LogItems
    <2>5. k.log \union D \subseteq A
      BY <2>1
    <2> HIDE DEF A
    <2>6. Cardinality(A) <= 2 + (Has(k.a) - Has(a))
      BY <1>h, <2>1, <2>3
    <2> WITNESS A
    <2> QED
      BY <2>1, <2>3, <2>4, <2>5, <2>6 DEF BmapCost
  <1>2. CASE Full(k, i, bn)
    <2>1. /\ BlockOf(i, bn) = 0 /\ k.addr = 0 /\ k.a = addrs[i] /\ k.log = {} /\ D = {}
      BY <1>2 DEF Full
    <2>3. IsFiniteSet({}) /\ Cardinality({}) = 0
      BY FS_EmptySet
    <2>6. 0 <= 2 + (Has(k.a) - Has(a))
      BY <1>h, <2>1
    <2> WITNESS {}
    <2> QED
      BY <2>1, <2>3, <2>6 DEF BmapCost
  <1>3. CASE NewDirect(k, i, bn)
    <2>b. PICK b \in Blocks \ used :
            /\ BlockOf(i, bn) = 0 /\ bn < NDIRECT
            /\ k = [addr |-> b, a |-> [addrs[i] EXCEPT ![bn] = b], q |-> ptr,
                    u |-> used \union {b}, log |-> BitmapBlocks({b}) \union {<<"block", b>>}]
      BY <1>3, Zenon DEF NewDirect
    <2>1. /\ BlockOf(i, bn) = 0 /\ bn < NDIRECT /\ k.addr = b
          /\ k.a = [addrs[i] EXCEPT ![bn] = b]
          /\ k.log = BitmapBlocks({b}) \union {<<"block", b>>}
      BY <2>b
    <2> DEFINE A == {<<"bitmap", b \div BPB>>, <<"block", b>>}
    <2>2. k.log \union D = A /\ A \in SUBSET LogItems
      BY <2>1, BitmapItem DEF LogItems
    <2>3. IsFiniteSet(A) /\ Cardinality(A) \in Nat /\ Cardinality(A) <= 2
      BY AtMostTwo
    <2>4. k.a[NDIRECT] = a[NDIRECT]
      BY <1>0, <2>1 DEF Addrs
    <2>5. Has(k.a) = Has(a) /\ Table(k.a) = Table(a)
      BY <2>4 DEF Has, Table
    <2> HIDE DEF A
    <2>6. Cardinality(A) <= 2 + (Has(k.a) - Has(a))
      BY <1>h, <2>3, <2>5
    <2> WITNESS A
    <2> QED
      BY <2>1, <2>2, <2>3, <2>5, <2>6 DEF BmapCost
  <1>4. CASE NewIndirect(k, i, bn)
    <2>b. PICK b \in Blocks \ used :
            /\ BlockOf(i, bn) = 0 /\ bn >= NDIRECT /\ addrs[i][NDIRECT] # 0
            /\ k = [addr |-> b, a |-> addrs[i],
                    q |-> [ptr EXCEPT ![addrs[i][NDIRECT]][bn - NDIRECT] = b],
                    u |-> used \union {b},
                    log |-> BitmapBlocks({b}) \union {<<"block", b>>, <<"block", addrs[i][NDIRECT]>>}]
      BY <1>4, Zenon DEF NewIndirect
    <2>t. PICK t : t = addrs[i][NDIRECT]
      OBVIOUS
    <2>1. /\ BlockOf(i, bn) = 0 /\ t # 0 /\ k.addr = b /\ k.a = addrs[i]
          /\ k.log = BitmapBlocks({b}) \union {<<"block", b>>, <<"block", t>>}
      BY <2>b, <2>t
    <2>b2. t \in Blocks /\ b \in Blocks
      BY <1>0, <2>1, <2>t DEF Addrs
    <2> DEFINE A == {<<"bitmap", b \div BPB>>, <<"block", b>>}
    <2>2. k.log \union D = A \union {<<"block", t>>} /\ A \union {<<"block", t>>} \in SUBSET LogItems
      BY <2>1, <2>b2, BitmapItem DEF LogItems
    <2>3. IsFiniteSet(A) /\ Cardinality(A) \in Nat /\ Cardinality(A) <= 2
      BY AtMostTwo
    <2>4. Table(k.a) = {<<"block", t>>} /\ Table(a) = Table(k.a) /\ Has(k.a) = Has(a)
      BY <2>1, <2>t DEF Table
    <2> HIDE DEF A
    <2>6. Cardinality(A) <= 2 + (Has(k.a) - Has(a))
      BY <1>h, <2>3, <2>4
    <2> WITNESS A
    <2> QED
      BY <2>1, <2>2, <2>3, <2>4, <2>6 DEF BmapCost
  <1>5. CASE NewTable(k, i, bn)
    <2>c. PICK c \in Blocks \ used :
            /\ BlockOf(i, bn) = 0 /\ bn >= NDIRECT /\ addrs[i][NDIRECT] = 0
            /\ \/ k = [addr |-> 0, a |-> [addrs[i] EXCEPT ![NDIRECT] = c], q |-> ptr,
                       u |-> used \union {c}, log |-> BitmapBlocks({c}) \union {<<"block", c>>}]
               \/ \E b \in Blocks \ (used \union {c}) :
                    k = [addr |-> b, a |-> [addrs[i] EXCEPT ![NDIRECT] = c],
                         q |-> [ptr EXCEPT ![c][bn - NDIRECT] = b],
                         u |-> (used \union {c}) \union {b},
                         log |-> (BitmapBlocks({c}) \union {<<"block", c>>})
                                 \union BitmapBlocks({b}) \union {<<"block", b>>, <<"block", c>>}]
      BY <1>5, Zenon DEF NewTable
    <2>a. PICK a2 : a2 = [addrs[i] EXCEPT ![NDIRECT] = c]
      OBVIOUS
    <2>1. a2[NDIRECT] = c /\ c # 0 /\ a[NDIRECT] = 0
      BY <1>0, <2>a, <2>c, NoZero DEF Addrs
    <2>2. Table(a2) = {<<"block", c>>} /\ Table(a) = {} /\ Has(a2) = 1 /\ Has(a) = 0
      BY <2>1 DEF Table, Has
    <2>3. CASE k = [addr |-> 0, a |-> [addrs[i] EXCEPT ![NDIRECT] = c], q |-> ptr,
                    u |-> used \union {c}, log |-> BitmapBlocks({c}) \union {<<"block", c>>}]
      <3>1. k.addr = 0 /\ k.a = a2 /\ k.log = BitmapBlocks({c}) \union {<<"block", c>>} /\ D = {}
        BY <2>3, <2>a
      <3> DEFINE A == {<<"bitmap", c \div BPB>>}
      <3>2. /\ k.log \union D = A \union {<<"block", c>>}
            /\ A \union {<<"block", c>>} \in SUBSET LogItems
        BY <3>1, BitmapItem DEF LogItems
      <3>3. IsFiniteSet(A) /\ Cardinality(A) = 1
        BY FS_Singleton
      <3> HIDE DEF A
      <3>4. Cardinality(A) <= 2 + (Has(k.a) - Has(a)) /\ Cardinality(A) \in Nat
        BY <2>2, <3>1, <3>3
      <3>5. BlockOf(i, bn) = 0
        BY <2>c, Zenon
      <3>6. (k.log \union D) \ Table(k.a) \subseteq A /\ Table(a) \subseteq Table(k.a)
        BY <2>2, <3>1, <3>2
      <3> WITNESS A
      <3> QED
        BY <3>2, <3>3, <3>4, <3>5, <3>6 DEF BmapCost
    <2>4. ASSUME NEW b \in Blocks \ (used \union {c}),
                 k = [addr |-> b, a |-> [addrs[i] EXCEPT ![NDIRECT] = c],
                      q |-> [ptr EXCEPT ![c][bn - NDIRECT] = b],
                      u |-> (used \union {c}) \union {b},
                      log |-> (BitmapBlocks({c}) \union {<<"block", c>>})
                              \union BitmapBlocks({b}) \union {<<"block", b>>, <<"block", c>>}]
          PROVE  \E A : BmapCost(A, i, bn, k, D, a)
      <3>1. /\ k.addr = b /\ k.a = a2
            /\ k.log = (BitmapBlocks({c}) \union {<<"block", c>>})
                         \union BitmapBlocks({b}) \union {<<"block", b>>, <<"block", c>>}
        BY <2>4, <2>a
      <3> DEFINE A == {<<"bitmap", c \div BPB>>, <<"bitmap", b \div BPB>>, <<"block", b>>}
      <3>2. /\ k.log \union D = A \union {<<"block", c>>}
            /\ A \union {<<"block", c>>} \in SUBSET LogItems
        BY <3>1, BitmapItem DEF LogItems
      <3>3. IsFiniteSet(A) /\ Cardinality(A) \in Nat /\ Cardinality(A) <= 3
        BY AtMostThree
      <3> HIDE DEF A
      <3>4. Cardinality(A) <= 2 + (Has(k.a) - Has(a)) /\ Cardinality(A) \in Nat
        BY <2>2, <3>1, <3>3
      <3>5. BlockOf(i, bn) = 0
        BY <2>c, Zenon
      <3>6. (k.log \union D) \ Table(k.a) \subseteq A /\ Table(a) \subseteq Table(k.a)
        BY <2>2, <3>1, <3>2
      <3> WITNESS A
      <3> QED
        BY <3>2, <3>3, <3>4, <3>5, <3>6 DEF BmapCost
    <2> QED
      BY <2>c, <2>3, <2>4
  <1> QED
    BY <1>1, <1>2, <1>3, <1>4, <1>5, BmapIs

LEMMA CeilAtMost ==
    ASSUME NEW x \in Nat, NEW n \in Int, x <= BSIZE * n
    PROVE  Ceil(x) \in Nat /\ Ceil(x) <= n
  <1>p. PICK c : c = Ceil(x)
    OBVIOUS
  <1>1. c \in Nat /\ BSIZE * c \in Nat /\ BSIZE * c < x + BSIZE
    BY <1>p, CeilIs
  <1>2. BSIZE * (n + 1) = BSIZE * n + BSIZE /\ BSIZE * n \in Int
    BY Next1, Times, Sizes
  <1>3. BSIZE * c < BSIZE * (n + 1)
    BY <1>1, <1>2, Sizes
  <1>4. c < n + 1
    BY <1>1, <1>3, Between, Sizes
  <1> QED
    BY <1>1, <1>4, <1>p

LEMMA CeilAbove ==
    ASSUME NEW x \in Nat, NEW n \in Int, BSIZE * n < x
    PROVE  Ceil(x) \in Nat /\ n < Ceil(x)
  <1>p. PICK c : c = Ceil(x)
    OBVIOUS
  <1>1. c \in Nat /\ BSIZE * c \in Nat /\ x <= BSIZE * c
    BY <1>p, CeilIs
  <1>2. BSIZE * n \in Int
    BY Times, Sizes
  <1>3. n < c
    BY <1>1, <1>2, Between, Sizes
  <1> QED
    BY <1>1, <1>3, <1>p

LEMMA HasIs == ASSUME NEW a PROVE Has(a) \in {0, 1}
  BY DEF Has

LEMMA UnalignedIs == ASSUME NEW p PROVE Unaligned(p) \in {0, 1}
  BY DEF Unaligned

LEMMA TableIs ==
    ASSUME NEW a
    PROVE  IsFiniteSet(Table(a)) /\ Cardinality(Table(a)) \in Nat /\ Cardinality(Table(a)) <= 1
  <1>1. Table(a) = {} \/ Table(a) = {<<"block", a[NDIRECT]>>}
    BY DEF Table
  <1>2. CASE Table(a) = {}
    BY <1>2, FS_EmptySet
  <1>3. PICK x : x = <<"block", a[NDIRECT]>>
    OBVIOUS
  <1>4. CASE Table(a) = {x}
    <2>1. IsFiniteSet({x}) /\ Cardinality({x}) = 1
      BY FS_Singleton
    <2> QED
      BY <1>4, <2>1
  <1> QED
    BY <1>1, <1>2, <1>3, <1>4

LEMMA UnionAtMost ==
    ASSUME NEW S, NEW T, IsFiniteSet(S), IsFiniteSet(T), NEW R \in SUBSET (S \union T)
    PROVE  /\ IsFiniteSet(R) /\ Cardinality(R) \in Nat
           /\ Cardinality(S) \in Nat /\ Cardinality(T) \in Nat
           /\ Cardinality(R) <= Cardinality(S) + Cardinality(T)
  <1>1. /\ IsFiniteSet(S \union T)
        /\ Cardinality(S \union T) = Cardinality(S) + Cardinality(T) - Cardinality(S \intersect T)
    BY FS_Union
  <1>2. IsFiniteSet(R) /\ Cardinality(R) <= Cardinality(S \union T)
    BY <1>1, FS_Subset
  <1>3. S \intersect T \in SUBSET S
    OBVIOUS
  <1>4. IsFiniteSet(S \intersect T)
    BY <1>3, FS_Subset
  <1>5. /\ Cardinality(R) \in Nat /\ Cardinality(S) \in Nat /\ Cardinality(T) \in Nat
        /\ Cardinality(S \intersect T) \in Nat
    BY <1>2, <1>4, FS_CardinalityType
  <1> QED
    BY <1>1, <1>2, <1>5

\* Half of what a transaction has left for the blocks of a write.
LEMMA HalfIs ==
    \E h \in Nat : MaxWrite = BSIZE * h /\ 2 * h + 4 <= MAXOPBLOCKS
  <1>p. PICK h : h = (MAXOPBLOCKS - 1 - 1 - 2) \div 2
    OBVIOUS
  <1>1. h \in Nat /\ 2 * h + 4 <= MAXOPBLOCKS
    BY <1>p, FileAssumption
  <1>2. MaxWrite = h * BSIZE
    BY <1>p DEF MaxWrite
  <1>3. h * BSIZE = BSIZE * h
    BY <1>1, Sizes
  <1> QED
    BY <1>1, <1>2, <1>3

\* A writei() of n bytes at w, with L logged, leaves room for the inode in the
\* transaction, wherever it begins: this is why filewrite() writes so little.
LEMMA LogRoom ==
    ASSUME NEW L, IsFiniteSet(L), NEW a, NEW w \in Nat, NEW n \in Nat, n <= MaxWrite,
           NEW x \in Nat, x <= w + n, NEW un, un = (IF w % BSIZE = 0 THEN 0 ELSE 1),
           Cardinality(L \ Table(a)) <= 2 * (Ceil(x) - (w \div BSIZE)) - un + Has(a)
    PROVE  Cardinality(L) \in Nat /\ Cardinality(L) + 1 <= MAXOPBLOCKS
  <1>m. MAXOPBLOCKS \in Nat
    BY FileAssumption
  <1>p. PICK s, t, c : s = w \div BSIZE /\ t = w % BSIZE /\ c = Ceil(x)
    OBVIOUS
  <1>h. PICK h \in Nat : MaxWrite = BSIZE * h /\ 2 * h + 4 <= MAXOPBLOCKS
    BY HalfIs
  <1>v. PICK u, v : u = BSIZE * s /\ v = BSIZE * h
    OBVIOUS
  <1>1. s \in Nat /\ t \in 0..BSIZE - 1 /\ u \in Nat /\ w = u + t
    BY <1>p, <1>v, PlaceOf, Zenon
  <1>2. un = IF t = 0 THEN 0 ELSE 1
    BY <1>p
  <1>3. v \in Nat /\ n <= v /\ h \in Nat
    BY <1>h, <1>v, Sizes
  <1>4. BSIZE * (s + h) = u + v /\ BSIZE * ((s + h) + 1) = u + v + BSIZE
    <2>1. BSIZE * (s + h) = u + v
      BY <1>1, <1>3, <1>v, Sizes
    <2>2. BSIZE * ((s + h) + 1) = BSIZE * (s + h) + BSIZE
      BY <1>1, <1>3, Next1, Sizes
    <2> QED
      BY <2>1, <2>2
  <1>5. c \in Nat /\ 2 * (c - s) - un <= 2 * h + 1
    <2>1. CASE t = 0
      <3>1. x <= BSIZE * (s + h)
        BY <1>1, <1>3, <1>4, <2>1
      <3>2. c \in Nat /\ c <= s + h
        BY <1>1, <1>3, <1>p, <3>1, CeilAtMost
      <3> QED
        BY <1>1, <1>2, <1>3, <2>1, <3>2
    <2>2. CASE t # 0
      <3>0. x <= u + v + BSIZE
        BY <1>1, <1>3, Sizes
      <3>1. x <= BSIZE * ((s + h) + 1)
        BY <1>4, <3>0
      <3>2. c \in Nat /\ c <= (s + h) + 1
        BY <1>1, <1>3, <1>p, <3>1, CeilAtMost
      <3> QED
        BY <1>1, <1>2, <1>3, <2>2, <3>2
    <2> QED
      BY <2>1, <2>2
  <1>6. Cardinality(L \ Table(a)) <= 2 * (c - s) - un + Has(a)
    BY <1>p
  <1>7. /\ IsFiniteSet(Table(a)) /\ Cardinality(Table(a)) \in Nat /\ Cardinality(Table(a)) <= 1
        /\ IsFiniteSet(L \ Table(a))
    <2>1. L \ Table(a) \in SUBSET L
      OBVIOUS
    <2> QED
      BY <2>1, TableIs, FS_Subset
  <1>8. L \in SUBSET ((L \ Table(a)) \union Table(a))
    OBVIOUS
  <1>9. /\ Cardinality(L) \in Nat /\ Cardinality(L \ Table(a)) \in Nat
        /\ Cardinality(L) <= Cardinality(L \ Table(a)) + Cardinality(Table(a))
    BY <1>7, <1>8, UnionAtMost
  <1>10. Has(a) \in {0, 1} /\ un \in {0, 1}
    BY HasIs
  <1> QED
    BY <1>m, <1>h, <1>1, <1>3, <1>5, <1>6, <1>7, <1>9, <1>10

LEMMA LogWithin ==
    ASSUME FileInv, NEW p \in Procs, pc[p] \in InWritei, LogBound(p), IsFiniteSet(logged[p])
    PROVE  Cardinality(logged[p]) \in Nat /\ Cardinality(logged[p]) + 1 <= MAXOPBLOCKS
  <1>1. CASE logged[p] = {}
    BY <1>1, FileAssumption, FS_EmptySet
  <1>2. ASSUME NEW x \in Nat, x <= Off(p) + n1[p], LogCost(p, x)
        PROVE  Cardinality(logged[p]) \in Nat /\ Cardinality(logged[p]) + 1 <= MAXOPBLOCKS
    <2>1. Off(p) \in Nat /\ n1[p] \in Nat /\ n1[p] <= MaxWrite
      BY InWriteiIs, InCall DEF FileInv, FilesInv, TypeOK, Writing
    <2> QED
      BY <1>2, <2>1, LogRoom DEF LogCost, Unaligned
  <1> QED
    BY <1>1, <1>2 DEF LogBound

\* The calls of the other processes are not concerned.
LEMMA LogOther ==
    ASSUME NEW q, LogBound(q), Stays(q), pc'[q] = pc[q], logged'[q] = logged[q],
           addrs'[Ip(q)] = addrs[Ip(q)]
    PROVE  LogBound(q)'
  <1>1. Ip(q)' = Ip(q) /\ Off(q)' = Off(q) /\ tot'[q] = tot[q] /\ n1'[q] = n1[q]
    BY StaysIs
  <1>2. Unaligned(q)' = Unaligned(q)
    BY <1>1 DEF Unaligned
  <1>3. Table(addrs[Ip(q)])' = Table(addrs[Ip(q)]) /\ Has(addrs[Ip(q)])' = Has(addrs[Ip(q)])
    BY <1>1 DEF Table, Has
  <1>4. ASSUME NEW x \in Nat PROVE LogCost(q, x)' <=> LogCost(q, x)
    BY <1>1, <1>2, <1>3 DEF LogCost, Ceil
  <1> QED
    BY <1>1, <1>4 DEF LogBound

\* The step of process p.
LEMMA LogNext ==
    ASSUME LogInv, NEW p \in Procs, logged' \in [Procs -> SUBSET LogItems],
           \A q \in Procs : q # p => pc'[q] = pc[q] /\ logged'[q] = logged[q],
           \A q \in Procs : q # p /\ pc[q] \in InWritei =>
              Stays(q) /\ addrs'[Ip(q)] = addrs[Ip(q)],
           IsFiniteSet(logged'[p]), Cardinality(logged'[p]) <= MAXOPBLOCKS,
           pc'[p] \in InWritei => LogBound(p)'
    PROVE  LogInv'
  <1>1. \A q \in Procs : IsFiniteSet(logged'[q]) /\ Cardinality(logged'[q]) <= MAXOPBLOCKS
    BY DEF LogInv
  <1>2. ASSUME NEW q \in Procs, pc'[q] \in InWritei PROVE LogBound(q)'
    <2>1. CASE q = p
      BY <1>2, <2>1
    <2>2. CASE q # p
      <3>1. LogBound(q)
        BY <1>2, <2>2 DEF LogInv
      <3> QED
        BY <1>2, <2>2, <3>1, LogOther
    <2> QED
      BY <2>1, <2>2
  <1> QED
    BY <1>1, <1>2 DEF LogInv

\* Steps that log nothing.
LEMMA QuietLog ==
    ASSUME LogInv, NEW p \in Procs, UNCHANGED <<logged, addrs>>, pc'[p] \notin InWritei,
           \A q \in Procs : q # p => pc'[q] = pc[q],
           \A q \in Procs : q # p /\ pc[q] \in InWritei => Stays(q)
    PROVE  LogInv'
  <1>1. /\ logged' \in [Procs -> SUBSET LogItems]
        /\ IsFiniteSet(logged'[p]) /\ Cardinality(logged'[p]) <= MAXOPBLOCKS
    BY DEF LogInv
  <1> QED
    BY <1>1, LogNext

LEMMA LogInit == ASSUME Init PROVE LogInv
  <1>1. logged = [p \in Procs |-> {}] /\ pc = [p \in Procs |-> "user"]
    BY DEF Init
  <1>2. \A p \in Procs : IsFiniteSet(logged[p]) /\ Cardinality(logged[p]) = 0
    BY <1>1, FS_EmptySet
  <1>3. MAXOPBLOCKS \in Nat
    BY FileAssumption
  <1> QED
    BY <1>1, <1>2, <1>3 DEF LogInv, InWritei

LEMMA BitmapFinite == IsFiniteSet(BitmapBlocks(Blocks)) /\ Cardinality(BitmapBlocks(Blocks)) \in Nat
  <1>1. IsFiniteSet(Blocks)
    BY FS_Interval, Sizes DEF Blocks
  <1> DEFINE f == [b \in Blocks |-> <<"bitmap", b \div BPB>>]
  <1>2. f \in Surjection(Blocks, BitmapBlocks(Blocks))
    BY DEF Surjection, BitmapBlocks
  <1> HIDE DEF f
  <1>3. IsFiniteSet(BitmapBlocks(Blocks))
    BY <1>1, <1>2, FS_Surjection
  <1> QED
    BY <1>3, FS_CardinalityType

\* What itrunc() logs: bitmap blocks, and the inode.
LEMMA TruncFits ==
    ASSUME NEW freed \in SUBSET Blocks, NEW i \in Inodes,
           NEW L, L = BitmapBlocks(freed) \union {<<"inode", i>>}
    PROVE  L \in SUBSET LogItems /\ IsFiniteSet(L) /\ Cardinality(L) <= MAXOPBLOCKS
  <1>1. BitmapBlocks(freed) \subseteq BitmapBlocks(Blocks)
    BY DEF BitmapBlocks
  <1>2. BitmapBlocks(Blocks) \subseteq LogItems
    <2>1. \A b \in Blocks : b \div BPB \in Int
      BY DivMod, Sizes DEF Blocks
    <2> QED
      BY <2>1 DEF BitmapBlocks, LogItems
  <1>p. PICK S, T : S = BitmapBlocks(Blocks) /\ T = {<<"inode", i>>}
    OBVIOUS
  <1>3. IsFiniteSet(S) /\ Cardinality(S) \in Nat /\ Cardinality(S) < MAXOPBLOCKS /\ MAXOPBLOCKS \in Nat
    BY <1>p, BitmapFinite, FileAssumption
  <1>4. IsFiniteSet(T) /\ Cardinality(T) = 1
    BY <1>p, FS_Singleton
  <1>5. L \in SUBSET (S \union T) /\ L \in SUBSET LogItems
    BY <1>1, <1>2, <1>p DEF LogItems
  <1>6. IsFiniteSet(L) /\ Cardinality(L) \in Nat /\ Cardinality(L) <= Cardinality(S) + Cardinality(T)
    BY <1>3, <1>4, <1>5, UnionAtMost
  <1> QED
    BY <1>3, <1>4, <1>5, <1>6

LEMMA OpenLog ==
    ASSUME FileInv, LogInv, NEW p \in Procs, NEW i \in Inodes, NEW mode \in Modes, Open(p, i, mode)
    PROVE  LogInv'
  <1>i. TypeOK /\ FilesInv /\ LockHeld /\ BlocksInv
    BY DEF FileInv, FilesInv
  <1>1. UNCHANGED pc /\ lock[i] = None /\ pc[p] = "user"
    BY DEF Open, Call, At
  <1>2. pc'[p] \notin InWritei
    BY <1>1 DEF InWritei
  <1>3. \A q \in Procs : pc[q] \in InWritei => Stays(q)
    BY <1>i, OpenStays
  <1>4. CASE ~mode.trunc
    <2>1. UNCHANGED <<logged, addrs>>
      BY <1>4 DEF Open, blocks
    <2> QED
      BY <1>1, <1>2, <1>3, <2>1, QuietLog
  <1>5. CASE mode.trunc
    <2>1. itrunc(p, i)
      BY <1>5 DEF Open
    <2>p. PICK freed : freed = BlocksOf(i)
      OBVIOUS
    <2>l. PICK L : L = BitmapBlocks(freed) \union {<<"inode", i>>}
      OBVIOUS
    <2>2. logged' = [logged EXCEPT ![p] = L] /\ addrs' = [addrs EXCEPT ![i] = NoAddrs]
      BY <2>1, <2>p, <2>l, Zenon DEF itrunc
    <2>3. freed \in SUBSET Blocks
      BY <1>i, <2>p, HoldsIs, HoldsUsed
    <2>4. L \in SUBSET LogItems /\ IsFiniteSet(L) /\ Cardinality(L) <= MAXOPBLOCKS
      BY <2>3, <2>l, TruncFits
    <2>5. logged \in [Procs -> SUBSET LogItems]
      BY DEF LogInv
    <2>6. /\ logged' \in [Procs -> SUBSET LogItems] /\ logged'[p] = L
          /\ \A q \in Procs : q # p => logged'[q] = logged[q]
      BY <2>2, <2>4, <2>5
    <2>7. ASSUME NEW q \in Procs, pc[q] \in InWritei PROVE addrs'[Ip(q)] = addrs[Ip(q)]
      <3>1. Ip(q) \in Inodes
        BY <1>i, <2>7, InWriteiIs, InCall
      <3>2. lock[Ip(q)] = q
        BY <2>7, <1>i, <3>1 DEF LockHeld
      <3>3. Ip(q) # i
        BY <1>1, <3>2, NoZero
      <3> QED
        BY <1>i, <2>2, <3>1, <3>3 DEF TypeOK
    <2> QED
      BY <1>1, <1>2, <1>3, <2>4, <2>6, <2>7, LogNext
  <1> QED
    BY <1>4, <1>5

\* The calls that leave the inodes and the calls inside writei() alone.
LEMMA QuietStep ==
    ASSUME FileInv, NEW p \in Procs,
           \/ \E d \in FDs : Dup(p, d) \/ Close(p, d)
           \/ PipeRead(p) \/ \E copied \in BOOLEAN : PipeWrite(p, copied)
           \/ \E q \in Procs : Fork(p, q)
           \/ Exit(p) \/ Exited(p)
           \/ \E d \in FDs, n \in Counts, copied \in BOOLEAN : Read(p, d, n, copied)
           \/ \E d \in FDs, n \in Counts : Write(p, d, n)
    PROVE  /\ UNCHANGED <<logged, size, addrs, ptr, data>> /\ pc'[p] \notin InWritei
           /\ \A q \in Procs : q # p => pc'[q] = pc[q]
           /\ \A q \in Procs : q # p /\ pc[q] \in InWritei => Stays(q)
  <1>i. TypeOK /\ FilesInv /\ LockHeld /\ pc \in [Procs -> {"user", "pipe", "exit"} \union InWrite]
    BY DEF FileInv, FilesInv, TypeOK
  <1>1. CASE \E d \in FDs : Dup(p, d)
    <2>1. UNCHANGED <<logged, size, addrs, ptr, data, pc>> /\ pc[p] \notin InWritei
      BY <1>1 DEF Dup, blocks, Call, At, InWritei
    <2>2. \A q \in Procs : pc[q] \in InWritei => Stays(q)
      BY <1>1, <1>i, DupStays
    <2> QED
      BY <2>1, <2>2
  <1>2. CASE \E d \in FDs : Close(p, d)
    <2>1. UNCHANGED <<logged, size, addrs, ptr, data, pc>> /\ pc[p] \notin InWritei
      BY <1>2 DEF Close, blocks, Call, At, InWritei
    <2>2. \A q \in Procs : pc[q] \in InWritei => Stays(q)
      BY <1>2, <1>i, CloseStays
    <2> QED
      BY <2>1, <2>2
  <1>3. CASE PipeRead(p) \/ \E copied \in BOOLEAN : PipeWrite(p, copied)
    <2>1. UNCHANGED <<logged, size, addrs, ptr, data>> /\ \E l \in {"pipe", "user"} : pc' = [pc EXCEPT ![p] = l]
      BY <1>3 DEF PipeRead, PipeWrite, blocks, Goto
    <2>2. pc'[p] \notin InWritei /\ \A q \in Procs : q # p => pc'[q] = pc[q]
      BY <1>i, <2>1 DEF InWritei
    <2>3. \A q \in Procs : pc[q] \in InWritei => Stays(q)
      BY <1>3, <1>i, PipeStays
    <2> QED
      BY <2>1, <2>2, <2>3
  <1>4. CASE \E q \in Procs : Fork(p, q)
    <2>1. UNCHANGED <<logged, size, addrs, ptr, data, pc>> /\ pc[p] \notin InWritei
      BY <1>4 DEF Fork, blocks, Call, At, InWritei
    <2>2. \A q \in Procs : pc[q] \in InWritei => Stays(q)
      BY <1>4, <1>i, ForkStays
    <2> QED
      BY <2>1, <2>2
  <1>5. CASE Exit(p) \/ Exited(p)
    <2>1. /\ UNCHANGED <<logged, size, addrs, ptr, data, file, fp, left, n1, tot>>
          /\ \E l \in {"exit", "user"} : pc' = [pc EXCEPT ![p] = l]
      BY <1>5 DEF Exit, Exited, files, blocks, regs, Goto
    <2>2. pc'[p] \notin InWritei /\ \A q \in Procs : q # p => pc'[q] = pc[q]
      BY <1>i, <2>1 DEF InWritei
    <2>3. \A q \in Procs : q # p /\ pc[q] \in InWritei => Stays(q)
      BY <2>1, <2>2 DEF Stays
    <2> QED
      BY <2>1, <2>2, <2>3
  <1>6. CASE \E d \in FDs, n \in Counts, copied \in BOOLEAN : Read(p, d, n, copied)
    <2>1. UNCHANGED <<logged, size, addrs, ptr, data, pc>> /\ pc[p] \notin InWritei
      <3>1. PICK d \in FDs, n \in Counts, copied \in BOOLEAN : Read(p, d, n, copied)
        BY <1>6
      <3>2. UNCHANGED <<logged, blocks, pc>> /\ pc[p] = "user"
        BY <3>1, Zenon DEF Read, Call, At
      <3> QED
        BY <3>2 DEF blocks, InWritei
    <2>2. \A q \in Procs : pc[q] \in InWritei => Stays(q)
      BY <1>6, <1>i, ReadStays
    <2> QED
      BY <2>1, <2>2
  <1>7. CASE \E d \in FDs, n \in Counts : Write(p, d, n)
    <2>1. /\ UNCHANGED <<logged, size, addrs, ptr, data, file, n1, tot>> /\ pc' = [pc EXCEPT ![p] = "write"]
          /\ \E f : fp' = [fp EXCEPT ![p] = f]
          /\ \E n : left' = [left EXCEPT ![p] = n]
      BY <1>7 DEF Write, files, blocks, Goto
    <2>2. /\ pc'[p] \notin InWritei
          /\ \A q \in Procs : q # p => pc'[q] = pc[q] /\ fp'[q] = fp[q] /\ left'[q] = left[q]
      BY <1>i, <2>1 DEF InWritei, TypeOK
    <2>3. \A q \in Procs : q # p /\ pc[q] \in InWritei => Stays(q)
      BY <2>1, <2>2 DEF Stays
    <2> QED
      BY <2>1, <2>2, <2>3
  <1> QED
    BY <1>1, <1>2, <1>3, <1>4, <1>5, <1>6, <1>7

LEMMA OtherLog ==
    ASSUME FileInv, LogInv, NEW p \in Procs,
           \/ \E d \in FDs : Dup(p, d) \/ Close(p, d)
           \/ PipeRead(p) \/ \E copied \in BOOLEAN : PipeWrite(p, copied)
           \/ \E q \in Procs : Fork(p, q)
           \/ Exit(p) \/ Exited(p)
           \/ \E d \in FDs, n \in Counts, copied \in BOOLEAN : Read(p, d, n, copied)
           \/ \E d \in FDs, n \in Counts : Write(p, d, n)
    PROVE  LogInv'
  BY QuietStep, QuietLog

LEMMA EmptyFits ==
    {} \in SUBSET LogItems /\ IsFiniteSet({}) /\ Cardinality({}) <= MAXOPBLOCKS
  BY FS_EmptySet, FileAssumption

LEMMA ReturnLog ==
    ASSUME FileInv, LogInv, NEW p \in Procs, WriteReturn(p)
    PROVE  LogInv'
  <1>i. TypeOK
    BY DEF FileInv, FilesInv
  <1>1. /\ UNCHANGED <<addrs, file, left, n1, tot>> /\ pc' = [pc EXCEPT ![p] = "user"]
        /\ fp' = [fp EXCEPT ![p] = 0] /\ logged' = [logged EXCEPT ![p] = {}]
    BY DEF WriteReturn, files, blocks, Goto
  <1>2. /\ pc'[p] \notin InWritei
        /\ \A q \in Procs : q # p => pc'[q] = pc[q] /\ fp'[q] = fp[q]
    BY <1>i, <1>1 DEF InWritei, TypeOK
  <1>3. \A q \in Procs : q # p /\ pc[q] \in InWritei => Stays(q)
    BY <1>1, <1>2 DEF Stays
  <1>4. logged \in [Procs -> SUBSET LogItems]
    BY DEF LogInv
  <1>5. /\ logged' \in [Procs -> SUBSET LogItems] /\ logged'[p] = {}
        /\ \A q \in Procs : q # p => logged'[q] = logged[q]
    BY <1>1, <1>4
  <1> QED
    BY <1>1, <1>2, <1>3, <1>5, EmptyFits, LogNext

LEMMA ChunkLog ==
    ASSUME FileInv, LogInv, NEW p \in Procs, WriteChunk(p)
    PROVE  LogInv'
  <1>i. TypeOK
    BY DEF FileInv, FilesInv
  <1>0. pc[p] = "write" /\ UNCHANGED <<addrs, file, fp>> /\ logged' = [logged EXCEPT ![p] = {}]
    BY DEF WriteChunk, files, blocks, At
  <1>1. \/ \E x : left' = [left EXCEPT ![p] = x] /\ UNCHANGED <<pc, n1, tot>>
        \/ /\ \E x : n1' = [n1 EXCEPT ![p] = x]
           /\ tot' = [tot EXCEPT ![p] = 0] /\ pc' = [pc EXCEPT ![p] = "writei"]
           /\ UNCHANGED left
    BY DEF WriteChunk, Goto
  <1>2. /\ \A q \in Procs : q # p => /\ pc'[q] = pc[q] /\ left'[q] = left[q]
                                     /\ n1'[q] = n1[q] /\ tot'[q] = tot[q]
        /\ pc'[p] \in InWritei => pc'[p] = "writei" /\ tot'[p] = 0
    BY <1>i, <1>0, <1>1 DEF InWritei, TypeOK
  <1>3. \A q \in Procs : q # p /\ pc[q] \in InWritei => Stays(q)
    BY <1>0, <1>2 DEF Stays
  <1>4. logged \in [Procs -> SUBSET LogItems]
    BY DEF LogInv
  <1>5. /\ logged' \in [Procs -> SUBSET LogItems] /\ logged'[p] = {}
        /\ \A q \in Procs : q # p => logged'[q] = logged[q]
    BY <1>0, <1>4
  <1>6. pc'[p] \in InWritei => LogBound(p)'
    BY <1>2, <1>5 DEF LogBound
  <1> QED
    BY <1>0, <1>2, <1>3, <1>5, <1>6, EmptyFits, LogNext

LEMMA EndLog ==
    ASSUME FileInv, LogInv, NEW p \in Procs, WriteEnd(p)
    PROVE  LogInv'
  <1>i. TypeOK /\ FilesInv /\ LockHeld
    BY DEF FileInv, FilesInv
  <1>0. pc[p] \in InWritei
    BY DEF WriteEnd, At, InWritei
  <1>p. PICK i : i = Ip(p)
    OBVIOUS
  <1>1. i \in Inodes /\ fp[p] \in Files /\ tot[p] \in Nat /\ lock[i] = p
    BY <1>i, <1>0, <1>p, InWriteiIs, InCall DEF TypeOK, LockHeld
  <1>2. /\ UNCHANGED <<addrs, fp>> /\ pc' = [pc EXCEPT ![p] = "write"]
        /\ file' = [file EXCEPT ![fp[p]].off = @ + tot[p]]
        /\ \E x : left' = [left EXCEPT ![p] = x]
        /\ n1' = [n1 EXCEPT ![p] = 0] /\ tot' = [tot EXCEPT ![p] = 0]
        /\ logged' = [logged EXCEPT ![p] = logged[p] \union {<<"inode", i>>}]
    BY <1>p DEF WriteEnd, Goto
  <1>3. /\ pc'[p] \notin InWritei
        /\ \A q \in Procs : q # p => /\ pc'[q] = pc[q] /\ left'[q] = left[q]
                                     /\ n1'[q] = n1[q] /\ tot'[q] = tot[q]
    BY <1>i, <1>2 DEF InWritei, TypeOK
  <1>4. ASSUME NEW q \in Procs, q # p, pc[q] \in InWritei PROVE Stays(q)
    <2>1. fp[q] # fp[p] /\ fp[q] \in Files
      BY <1>i, <1>0, <1>1, <1>4, <1>p, OtherInode, InWriteiIs, InCall
    <2>2. file'[fp[q]] = file[fp[q]]
      BY <1>i, <1>1, <1>2, <2>1, MovedIs
    <2> QED
      BY <1>2, <1>3, <1>4, <2>2 DEF Stays
  <1>5. logged \in [Procs -> SUBSET LogItems] /\ IsFiniteSet(logged[p]) /\ LogBound(p)
    BY <1>0 DEF LogInv
  <1>6. Cardinality(logged[p]) \in Nat /\ Cardinality(logged[p]) + 1 <= MAXOPBLOCKS
    BY <1>0, <1>5, LogWithin
  <1>x. PICK x : x = <<"inode", i>>
    OBVIOUS
  <1>7. x \in LogItems
    BY <1>1, <1>x DEF LogItems
  <1>8. /\ logged' \in [Procs -> SUBSET LogItems] /\ logged'[p] = logged[p] \union {x}
        /\ \A q \in Procs : q # p => logged'[q] = logged[q]
    BY <1>2, <1>5, <1>7, <1>x
  <1>9. IsFiniteSet(logged'[p]) /\ Cardinality(logged'[p]) <= MAXOPBLOCKS
    <2>1. /\ IsFiniteSet(logged[p] \union {x})
          /\ Cardinality(logged[p] \union {x}) =
               IF x \in logged[p] THEN Cardinality(logged[p]) ELSE Cardinality(logged[p]) + 1
      BY <1>5, FS_AddElement
    <2>2. MAXOPBLOCKS \in Nat
      BY FileAssumption
    <2> QED
      BY <1>6, <1>8, <2>1, <2>2
  <1> QED
    BY <1>2, <1>3, <1>4, <1>8, <1>9, LogNext

\* The bytes that a pass of writei() writes: they start in block s at byte off,
\* and end in a block beyond it, on a boundary of blocks or where the write ends.
LEMMA PassEnds ==
    ASSUME NEW o \in Nat, NEW m \in Nat, m > 0, m <= BSIZE - (o % BSIZE)
    PROVE  /\ Ceil(o + m) \in Nat /\ o \div BSIZE \in Nat /\ o \div BSIZE < Ceil(o + m)
           /\ m = BSIZE - (o % BSIZE) => \E z \in Nat : o + m = BSIZE * z
  <1>p. PICK s, t, u : s = o \div BSIZE /\ t = o % BSIZE /\ u = BSIZE * s
    OBVIOUS
  <1>1. s \in Nat /\ t \in 0..BSIZE - 1 /\ u \in Nat /\ o = u + t
    BY <1>p, PlaceOf, Zenon
  <1>2. BSIZE * s < o + m
    BY <1>1, <1>p
  <1>3. Ceil(o + m) \in Nat /\ s < Ceil(o + m)
    BY <1>1, <1>2, CeilAbove
  <1>4. ASSUME m = BSIZE - t PROVE \E z \in Nat : o + m = BSIZE * z
    <2>1. BSIZE * (s + 1) = u + BSIZE
      BY <1>1, <1>p, Next1, Sizes
    <2>2. o + m = u + BSIZE
      BY <1>1, <1>4, Sizes
    <2>3. s + 1 \in Nat
      BY <1>1
    <2> QED
      BY <2>1, <2>2, <2>3
  <1> QED
    BY <1>1, <1>3, <1>4, <1>p

\* The cost of a pass: the block and its bitmap block, or one less when the
\* write begins inside of a block.
LEMMA PassCost ==
    ASSUME FileInv, LogInv, NEW p \in Procs, NEW got \in 0..BSIZE,
           NEW i, NEW o, NEW m, NEW k, Pass(p, got, i, o, m, k)
    PROVE  /\ logged' \in [Procs -> SUBSET LogItems] /\ IsFiniteSet(logged'[p])
           /\ \A q \in Procs : q # p => logged'[q] = logged[q]
           /\ Cardinality(logged'[p] \ Table(k.a))
                <= 2 * (Ceil(o + m) - (Off(p) \div BSIZE)) - Unaligned(p) + Has(k.a)
  <1>i. TypeOK /\ FilesInv /\ Writing
    BY DEF FileInv, FilesInv
  <1>0. /\ i \in Inodes /\ o \in Nat /\ m \in Nat
        /\ i = Ip(p) /\ o = Off(p) + tot[p] /\ m <= BSIZE - (o % BSIZE) /\ m > 0
        /\ o \div BSIZE \in 0..MAXFILE - 1 /\ k = bmap(i, o \div BSIZE)
        /\ pc[p] = "writei"
        /\ logged' = [logged EXCEPT ![p] = @ \union k.log \union
                         IF k.addr # 0 /\ got = m THEN {<<"block", k.addr>>} ELSE {}]
    BY Zenon DEF Pass
  <1>d. i \in Inodes /\ o \in Nat /\ m \in Nat
    BY <1>0
  <1>p. PICK D, a, b, w, s, c : 
          /\ D = (IF k.addr # 0 /\ got = m THEN {<<"block", k.addr>>} ELSE {})
          /\ a = addrs[i] /\ b = o \div BSIZE /\ w = Off(p) /\ s = w \div BSIZE /\ c = Ceil(o + m)
    OBVIOUS
  <1>1. b \in 0..MAXFILE - 1 /\ k = bmap(i, b) /\ D \subseteq {<<"block", k.addr>>} /\ (k.addr = 0 => D = {})
    BY <1>0, <1>p
  <1>q. a = addrs[i]
    BY <1>p
  <1>r. PICK A : BmapCost(A, i, b, k, D, a)
    BY <1>i, <1>d, <1>1, <1>q, BmapLog
  <1>2. /\ IsFiniteSet(A) /\ Cardinality(A) \in Nat
        /\ Cardinality(A) <= 2 + (Has(k.a) - Has(a))
        /\ BlockOf(i, b) # 0 => Cardinality(A) <= 1 /\ k.a = a
        /\ (k.log \union D) \ Table(k.a) \subseteq A
        /\ Table(a) \subseteq Table(k.a)
        /\ k.log \union D \in SUBSET LogItems
    BY <1>r, Zenon DEF BmapCost
  <1>3. logged \in [Procs -> SUBSET LogItems] /\ IsFiniteSet(logged[p]) /\ LogBound(p)
    BY <1>0 DEF LogInv, InWritei
  <1>4. logged' = [logged EXCEPT ![p] = (logged[p] \union k.log) \union D]
    BY <1>0, <1>p
  <1>5. /\ logged' \in [Procs -> SUBSET LogItems] /\ logged'[p] = logged[p] \union (k.log \union D)
        /\ \A q \in Procs : q # p => logged'[q] = logged[q]
    BY <1>2, <1>3, <1>4
  <1>u. PICK L : L = logged[p] \ Table(a)
    OBVIOUS
  <1>6. IsFiniteSet(L) /\ Cardinality(L) \in Nat
    <2>1. L \in SUBSET logged[p]
      BY <1>u
    <2> QED
      BY <1>3, <2>1, FS_Subset, FS_CardinalityType
  <1>7. logged'[p] \ Table(k.a) \in SUBSET (L \union A)
    BY <1>2, <1>5, <1>u
  <1>8. /\ Cardinality(logged'[p] \ Table(k.a)) \in Nat
        /\ Cardinality(logged'[p] \ Table(k.a)) <= Cardinality(L) + Cardinality(A)
    BY <1>2, <1>6, <1>7, UnionAtMost
  <1>9. IsFiniteSet(logged'[p])
    <2>1. IsFiniteSet(logged'[p] \ Table(k.a))
      BY <1>2, <1>6, <1>7, UnionAtMost
    <2>2. IsFiniteSet(Table(k.a))
      BY TableIs
    <2>3. logged'[p] \in SUBSET ((logged'[p] \ Table(k.a)) \union Table(k.a))
      OBVIOUS
    <2> QED
      BY <2>1, <2>2, <2>3, UnionAtMost
  <1>10. c \in Nat /\ b \in Nat /\ b < c
    BY <1>d, <1>0, <1>p, PassEnds
  <1>11. w \in Nat /\ tot[p] \in Nat
    BY <1>i, <1>0, <1>p, InCall DEF TypeOK, InWrite
  <1>12. s \in Nat
    BY <1>11, <1>p, PlaceOf
  <1>13. Has(a) \in {0, 1} /\ Has(k.a) \in {0, 1} /\ Unaligned(p) \in {0, 1}
    BY HasIs, UnalignedIs
  <1>14. Cardinality(L) + Cardinality(A) <= 2 * (c - s) - Unaligned(p) + Has(k.a)
    <2>1. CASE tot[p] = 0 /\ logged[p] = {}
      <3>1. o = w /\ b = s
        BY <1>0, <1>11, <1>p, <2>1
      <3>2. Cardinality(L) = 0
        BY <1>u, <2>1, FS_EmptySet
      <3>3. CASE Unaligned(p) = 0
        BY <1>2, <1>10, <1>12, <1>13, <3>1, <3>2, <3>3
      <3>4. CASE Unaligned(p) = 1
        <4>1. w % BSIZE # 0
          BY <1>p, <3>4 DEF Unaligned
        <4>2. BSIZE * s < w
          BY <1>11, <1>p, <4>1, PlaceOf
        <4>3. Ceil(w) \in Nat /\ s < Ceil(w)
          BY <1>11, <1>12, <4>2, CeilAbove
        <4>4. Covered(i, w)
          BY <1>i, <1>0, <1>11, <1>p, <2>1 DEF Writing, InWritei
        <4>5. BlockOf(i, b) # 0
          BY <1>12, <3>1, <4>3, <4>4 DEF Covered
        <4>6. Cardinality(A) <= 1 /\ Cardinality(A) \in Nat
          BY <1>2, <4>5
        <4> QED
          BY <1>10, <1>12, <1>13, <3>1, <3>2, <3>4, <4>6
      <3> QED
        BY <1>13, <3>3, <3>4
    <2>2. ASSUME NEW x \in Nat, x = w + tot[p], tot[p] = n1[p] \/ \E z \in Nat : x = BSIZE * z,
                 LogCost(p, x)
          PROVE  Cardinality(L) + Cardinality(A) <= 2 * (c - s) - Unaligned(p) + Has(k.a)
      <3>1. x = o /\ tot[p] # n1[p]
        <4>1. tot[p] + m <= n1[p]
          BY Zenon DEF Pass
        <4>2. n1[p] \in Nat
          BY <1>i DEF TypeOK
        <4> QED
          BY <1>0, <1>11, <1>p, <2>2, <4>1, <4>2
      <3>2. PICK z \in Nat : o = BSIZE * z
        BY <2>2, <3>1
      <3>3. Ceil(o) \in Nat /\ Ceil(o) <= z
        BY <1>d, <3>2, CeilAtMost
      <3>4. z < c
        <4>1. BSIZE * z < o + m
          BY <1>0, <3>2
        <4> QED
          BY <1>0, <1>p, <3>2, <4>1, CeilAbove
      <3>5. Cardinality(L) <= 2 * (Ceil(o) - s) - Unaligned(p) + Has(a)
        BY <1>0, <1>p, <1>u, <2>2, <3>1 DEF LogCost
      <3> QED
        BY <1>2, <1>6, <1>10, <1>12, <1>13, <3>2, <3>3, <3>4, <3>5
    <2> QED
      BY <1>0, <1>3, <1>p, <2>1, <2>2 DEF LogBound
  <1> QED
    BY <1>2, <1>5, <1>6, <1>8, <1>9, <1>10, <1>12, <1>13, <1>14, <1>p

LEMMA PassLog ==
    ASSUME FileInv, LogInv, NEW p \in Procs, NEW got \in 0..BSIZE, WriteBlock(p, got)
    PROVE  LogInv'
  <1>i. TypeOK /\ FilesInv /\ LockHeld
    BY DEF FileInv, FilesInv
  <1>P. PICK i, o, m, k : Pass(p, got, i, o, m, k)
    BY PassIs
  <1>0. /\ i \in Inodes /\ o \in Nat /\ m \in Nat
        /\ i = Ip(p) /\ o = Off(p) + tot[p] /\ m <= BSIZE - (o % BSIZE) /\ tot[p] + m <= n1[p]
        /\ m > 0 /\ (tot[p] + m = n1[p] \/ m = BSIZE - (o % BSIZE))
        /\ pc[p] = "writei" /\ addrs' = [addrs EXCEPT ![i] = k.a]
        /\ \/ tot' = [tot EXCEPT ![p] = @ + m] /\ UNCHANGED pc
           \/ pc' = [pc EXCEPT ![p] = "writei_end"] /\ UNCHANGED tot
        /\ UNCHANGED <<files, fp, left, n1>>
    BY <1>P, Zenon DEF Pass
  <1>d. i \in Inodes /\ o \in Nat /\ m \in Nat
    BY <1>0
  <1>1. /\ logged' \in [Procs -> SUBSET LogItems] /\ IsFiniteSet(logged'[p])
        /\ \A q \in Procs : q # p => logged'[q] = logged[q]
        /\ Cardinality(logged'[p] \ Table(k.a))
             <= 2 * (Ceil(o + m) - (Off(p) \div BSIZE)) - Unaligned(p) + Has(k.a)
    BY <1>P, PassCost
  <1>2. UNCHANGED <<file, fp, left, n1>>
    BY <1>0 DEF files
  <1>3. /\ \A q \in Procs : q # p => pc'[q] = pc[q] /\ tot'[q] = tot[q]
        /\ \/ pc'[p] = "writei" /\ tot'[p] = tot[p] + m
           \/ pc'[p] = "writei_end" /\ tot'[p] = tot[p]
    BY <1>i, <1>0 DEF TypeOK
  <1>4. addrs'[i] = k.a /\ \A j \in Inodes : j # i => addrs'[j] = addrs[j]
    BY <1>i, <1>d, <1>0 DEF TypeOK
  <1>5. ASSUME NEW q \in Procs, q # p, pc[q] \in InWritei
        PROVE  Stays(q) /\ addrs'[Ip(q)] = addrs[Ip(q)]
    <2>1. lock[Ip(p)] = p /\ pc[p] \in InWrite
      BY <1>i, <1>d, <1>0 DEF LockHeld, InWritei, InWrite
    <2>2. Ip(q) # i /\ Ip(q) \in Inodes
      BY <1>i, <1>0, <1>5, <2>1, OtherInode, InWriteiIs, InCall
    <2>3. Stays(q)
      BY <1>2, <1>3, <1>5 DEF Stays
    <2> QED
      BY <1>4, <2>2, <2>3
  <1>6. Off(p)' = Off(p) /\ Ip(p)' = i /\ Unaligned(p)' = Unaligned(p)
    BY <1>0, <1>2 DEF Off, Ip, Unaligned
  <1>x. PICK x : x = o + m
    OBVIOUS
  <1>7. /\ Table(addrs[Ip(p)])' = Table(k.a) /\ Has(addrs[Ip(p)])' = Has(k.a)
    BY <1>4, <1>6 DEF Table, Has
  <1>8. LogCost(p, x)'
    <2>1. Cardinality(logged'[p] \ Table(k.a))
             <= 2 * (Ceil(x) - (Off(p) \div BSIZE)) - Unaligned(p) + Has(k.a)
      BY <1>1, <1>x
    <2> QED
      BY <1>6, <1>7, <2>1 DEF LogCost, Ceil
  <1>9. Off(p) \in Nat /\ tot[p] \in Nat /\ n1[p] \in Nat
    BY <1>i, <1>0, InCall DEF TypeOK, InWrite
  <1>10. x \in Nat /\ Off(p) < x /\ x <= Off(p) + n1[p] /\ x = Off(p) + (tot[p] + m)
    BY <1>d, <1>0, <1>9, <1>x
  <1>11. tot[p] + m = n1[p] \/ \E z \in Nat : x = BSIZE * z
    BY <1>d, <1>0, <1>x, PassEnds
  <1>12. LogBound(p)'
    <2>1. \E x1 \in Nat :
            /\ Off(p)' < x1 /\ x1 <= Off(p)' + n1'[p]
            /\ pc'[p] = "writei" => /\ x1 = Off(p)' + tot'[p]
                                    /\ tot'[p] = n1'[p] \/ \E z \in Nat : x1 = BSIZE * z
            /\ LogCost(p, x1)'
      <3> x \in Nat
        BY <1>10
      <3> WITNESS x \in Nat
      <3> QED
        BY <1>2, <1>3, <1>6, <1>8, <1>10, <1>11
    <2> QED
      BY <2>1 DEF LogBound
  <1>13. Cardinality(logged'[p]) <= MAXOPBLOCKS
    <2>1. n1[p] <= MaxWrite
      BY <1>0 DEF FileInv, Writing, InWritei
    <2>2. Cardinality(logged'[p] \ Table(k.a))
             <= 2 * (Ceil(x) - (Off(p) \div BSIZE)) - Unaligned(p) + Has(k.a)
      BY <1>1, <1>x
    <2>3. Cardinality(logged'[p]) \in Nat /\ Cardinality(logged'[p]) + 1 <= MAXOPBLOCKS
      BY <1>1, <1>9, <1>10, <2>1, <2>2, LogRoom DEF Unaligned
    <2>4. MAXOPBLOCKS \in Nat
      BY FileAssumption
    <2> QED
      BY <2>3, <2>4
  <1> QED
    BY <1>1, <1>3, <1>5, <1>12, <1>13, LogNext

LEMMA LogStutter == ASSUME LogInv, UNCHANGED vars PROVE LogInv'
  <1>1. UNCHANGED <<file, addrs, pc, fp, left, n1, tot, logged>>
    BY DEF vars, files, blocks, regs
  <1>2. \A q \in Procs : pc[q] \in InWritei => Stays(q)
    BY <1>1 DEF Stays
  <1>3. ASSUME NEW q \in Procs, pc[q] \in InWritei PROVE LogBound(q)'
    <2>1. LogBound(q)
      BY <1>3 DEF LogInv
    <2>2. addrs'[Ip(q)] = addrs[Ip(q)]
      BY <1>1
    <2> QED
      BY <1>1, <1>2, <1>3, <2>1, <2>2, LogOther
  <1> QED
    BY <1>1, <1>3 DEF LogInv

LEMMA LogStep == ASSUME FileInv, LogInv, [Next]_vars PROVE LogInv'
  <1>1. CASE \E p \in Procs, i \in Inodes, mode \in Modes : Open(p, i, mode)
    BY <1>1, OpenLog
  <1>2. CASE \E p \in Procs : \/ \E d \in FDs : Dup(p, d) \/ Close(p, d)
                              \/ PipeRead(p) \/ \E copied \in BOOLEAN : PipeWrite(p, copied)
                              \/ \E q \in Procs : Fork(p, q)
                              \/ Exit(p) \/ Exited(p)
                              \/ \E d \in FDs, n \in Counts, copied \in BOOLEAN : Read(p, d, n, copied)
                              \/ \E d \in FDs, n \in Counts : Write(p, d, n)
    BY <1>2, OtherLog
  <1>3. CASE \E p \in Procs : WriteChunk(p)
    BY <1>3, ChunkLog
  <1>4. CASE \E p \in Procs, got \in 0..BSIZE : WriteBlock(p, got)
    BY <1>4, PassLog
  <1>5. CASE \E p \in Procs : WriteEnd(p)
    BY <1>5, EndLog
  <1>6. CASE \E p \in Procs : WriteReturn(p)
    BY <1>6, ReturnLog
  <1>7. CASE UNCHANGED vars
    BY <1>7, LogStutter
  <1> QED
    BY <1>1, <1>2, <1>3, <1>4, <1>5, <1>6, <1>7, Zenon DEF Next

\* No transaction logs more blocks than begin_op() of log.c reserves, whatever
\* filewrite(), writei(), bmap(), balloc() and itrunc() do (file.c, fs.c).
THEOREM TransactionsFit == Spec => []TransactionFits
  <1>1. Init => FileInv /\ LogInv
    BY FileInit, LogInit
  <1>2. FileInv /\ LogInv /\ [Next]_vars => (FileInv /\ LogInv)'
    BY FileNext, LogStep
  <1>3. LogInv => TransactionFits
    BY DEF LogInv, TransactionFits
  <1> QED
    BY <1>1, <1>2, <1>3, PTL DEF Spec

----------------------------------------------------------------------------
(* No block is in two places of an inode *)

Once(a, q) ==
    \A c, d \in 0..MAXFILE - 1 :
        Place(a, q, c) # 0 => /\ c # d => Place(a, q, c) # Place(a, q, d)
                              /\ Place(a, q, c) # a[NDIRECT]

OnePlace == \A i \in Inodes : Once(addrs[i], ptr)

\* What a call of bmap() changes: the place that it was asked for, and the
\* indirect block, which become blocks that were free.
Grown(k, i, bn) ==
    /\ \A c \in 0..MAXFILE - 1 :
          \/ Place(k.a, k.q, c) = Place(addrs[i], ptr, c)
          \/ c = bn /\ Place(k.a, k.q, c) \in k.u \ used
    /\ \/ k.a[NDIRECT] = addrs[i][NDIRECT]
       \/ k.a[NDIRECT] \in k.u \ used /\ k.a[NDIRECT] # Place(k.a, k.q, bn)
    /\ Place(addrs[i], ptr, bn) # 0 => k.addr = Place(addrs[i], ptr, bn)

\* Entry n of a table of k + 1 entries becomes b.
Entered(t2, t, k, n, b) == \A x \in 0..k : t2[x] = IF x = n THEN b ELSE t[x]

PtrEntered(a, q2, q, n, b) ==
    a[NDIRECT] # 0 /\ Entered(q2[a[NDIRECT]], q[a[NDIRECT]], NINDIRECT - 1, n, b)

LEMMA PlaceAddr ==
    ASSUME NEW a \in Addrs, NEW q, NEW n \in 0..NDIRECT, n # NDIRECT, NEW b, NEW a2,
           Entered(a2, a, NDIRECT, n, b), NEW c \in 0..MAXFILE - 1
    PROVE  Place(a2, q, c) = IF c = n THEN b ELSE Place(a, q, c)
  <1>1. NDIRECT \in 0..NDIRECT /\ NDIRECT \in Nat
    BY Sizes
  <1>2. a2[NDIRECT] = a[NDIRECT]
    BY <1>1 DEF Entered
  <1>3. (c < NDIRECT => c \in 0..NDIRECT) /\ (c = n => c < NDIRECT)
    BY <1>1
  <1> QED
    BY <1>2, <1>3 DEF Place, Entered

LEMMA PlacePtr ==
    ASSUME NEW a, NEW q, NEW q2, NEW n \in 0..NINDIRECT - 1, NEW b,
           PtrEntered(a, q2, q, n, b), NEW c \in 0..MAXFILE - 1
    PROVE  Place(a, q2, c) = IF c = NDIRECT + n THEN b ELSE Place(a, q, c)
  <1>1. NDIRECT \in Nat /\ NINDIRECT \in Nat /\ c < NDIRECT + NINDIRECT
    BY Sizes DEF MAXFILE
  <1>2. CASE c < NDIRECT
    BY <1>1, <1>2 DEF Place
  <1>3. CASE ~(c < NDIRECT)
    <2>1. c - NDIRECT \in 0..NINDIRECT - 1 /\ (c = NDIRECT + n <=> c - NDIRECT = n)
      BY <1>1, <1>3
    <2> QED
      BY <1>3, <2>1 DEF Place, Entered, PtrEntered
  <1> QED
    BY <1>2, <1>3

LEMMA PlaceTable ==
    ASSUME NEW a \in Addrs, NEW q, NEW t, a[NDIRECT] = 0, q[t] = NoPtrs, NEW a2,
           Entered(a2, a, NDIRECT, NDIRECT, t), NEW c \in 0..MAXFILE - 1
    PROVE  Place(a2, q, c) = Place(a, q, c)
  <1>1. NDIRECT \in 0..NDIRECT /\ NDIRECT \in Nat /\ NINDIRECT \in Nat
    BY Sizes
  <1>2. a2[NDIRECT] = t
    BY <1>1 DEF Entered
  <1>3. c < NDIRECT => c \in 0..NDIRECT /\ c # NDIRECT
    BY <1>1
  <1>4. ~(c < NDIRECT) => c - NDIRECT \in 0..NINDIRECT - 1
    BY <1>1 DEF MAXFILE
  <1>5. \A y \in 0..NINDIRECT - 1 : q[t][y] = 0
    BY DEF NoPtrs
  <1> QED
    BY <1>2, <1>3, <1>4, <1>5 DEF Place, Entered

LEMMA SameGrown ==
    ASSUME NEW i \in Inodes, NEW bn \in 0..MAXFILE - 1, NEW k, Found(k, i, bn) \/ Full(k, i, bn)
    PROVE  Grown(k, i, bn)
  <1>1. k.a = addrs[i] /\ k.q = ptr
    BY DEF Found, Full
  <1>2. Place(addrs[i], ptr, bn) # 0 => k.addr = Place(addrs[i], ptr, bn)
    BY PlaceIs DEF Found, Full
  <1> QED
    BY <1>1, <1>2 DEF Grown

LEMMA DirectGrown ==
    ASSUME TypeOK, NEW i \in Inodes, NEW bn \in 0..MAXFILE - 1, NEW k, NewDirect(k, i, bn)
    PROVE  Grown(k, i, bn)
  <1>p. PICK b \in Blocks \ used :
          /\ BlockOf(i, bn) = 0 /\ bn < NDIRECT /\ k.addr = b
          /\ k.a = [addrs[i] EXCEPT ![bn] = b] /\ k.q = ptr /\ k.u = used \union {b}
    BY DEF NewDirect
  <1>a. PICK a, a2 : a = addrs[i] /\ a2 = k.a
    OBVIOUS
  <1>q. PICK q : q = ptr
    OBVIOUS
  <1>1. /\ bn \in 0..NDIRECT /\ bn # NDIRECT /\ a \in Addrs /\ a2 = [a EXCEPT ![bn] = b]
        /\ q \in Tables /\ b \in Blocks /\ b \in k.u \ used
    BY <1>p, <1>a, <1>q, Sizes DEF TypeOK, Addrs, Tables
  <1>x. Entered(a2, a, NDIRECT, bn, b)
    BY <1>1 DEF Addrs, Entered
  <1>2. \A c \in 0..MAXFILE - 1 : Place(a2, q, c) = IF c = bn THEN b ELSE Place(a, q, c)
    BY <1>1, <1>x, PlaceAddr
  <1>y. a2[NDIRECT] = a[NDIRECT]
    BY <1>1, <1>x, Sizes DEF Entered
  <1>3. Place(a, q, bn) = 0
    BY <1>p, <1>a, <1>q, PlaceIs
  <1> QED
    BY <1>p, <1>a, <1>q, <1>1, <1>2, <1>y, <1>3 DEF Grown

LEMMA IndirectGrown ==
    ASSUME TypeOK, NEW i \in Inodes, NEW bn \in 0..MAXFILE - 1, NEW k, NewIndirect(k, i, bn)
    PROVE  Grown(k, i, bn)
  <1>b. PICK b \in Blocks \ used :
          /\ BlockOf(i, bn) = 0 /\ bn >= NDIRECT /\ addrs[i][NDIRECT] # 0
          /\ k = [addr |-> b, a |-> addrs[i],
                  q |-> [ptr EXCEPT ![addrs[i][NDIRECT]][bn - NDIRECT] = b],
                  u |-> used \union {b},
                  log |-> BitmapBlocks({b}) \union {<<"block", b>>, <<"block", addrs[i][NDIRECT]>>}]
    BY Zenon DEF NewIndirect
  <1>p. /\ BlockOf(i, bn) = 0 /\ bn >= NDIRECT /\ addrs[i][NDIRECT] # 0
        /\ k.addr = b /\ k.a = addrs[i] /\ k.u = used \union {b}
        /\ k.q = [ptr EXCEPT ![addrs[i][NDIRECT]][bn - NDIRECT] = b]
    BY <1>b
  <1>a. PICK a, q, q2, n, t : a = addrs[i] /\ q = ptr /\ q2 = k.q /\ n = bn - NDIRECT /\ t = addrs[i][NDIRECT]
    OBVIOUS
  <1>1. n \in 0..NINDIRECT - 1 /\ bn = NDIRECT + n
    BY <1>p, <1>a, Sizes DEF MAXFILE
  <1>2. t \in Blocks /\ q \in Tables /\ q2 = [q EXCEPT ![t][n] = b] /\ b \in k.u \ used
    BY <1>b, <1>p, <1>a, TableHeld DEF TypeOK, Tables
  <1>3. Entered(q2[t], q[t], NINDIRECT - 1, n, b)
    BY <1>1, <1>2 DEF Tables, Entered
  <1>4. a \in Addrs /\ a[NDIRECT] = t /\ t # 0 /\ b \in Blocks
    BY <1>a, <1>b, <1>p DEF TypeOK, Addrs
  <1>5. \A c \in 0..MAXFILE - 1 : Place(a, q2, c) = IF c = NDIRECT + n THEN b ELSE Place(a, q, c)
    <2>1. PtrEntered(a, q2, q, n, b)
      BY <1>3, <1>4 DEF PtrEntered
    <2> QED
      BY <1>1, <2>1, PlacePtr
  <1>6. Place(a, q, bn) = 0
    BY <1>p, <1>a, PlaceIs
  <1> QED
    BY <1>p, <1>a, <1>1, <1>2, <1>5, <1>6 DEF Grown

LEMMA TableGrown ==
    ASSUME TypeOK, BlocksInv, NEW i \in Inodes, NEW bn \in 0..MAXFILE - 1, NEW k, NewTable(k, i, bn)
    PROVE  Grown(k, i, bn)
  <1>c. PICK t \in Blocks \ used :
          /\ BlockOf(i, bn) = 0 /\ bn >= NDIRECT /\ addrs[i][NDIRECT] = 0
          /\ \/ k = [addr |-> 0, a |-> [addrs[i] EXCEPT ![NDIRECT] = t], q |-> ptr,
                     u |-> used \union {t}, log |-> BitmapBlocks({t}) \union {<<"block", t>>}]
             \/ \E b \in Blocks \ (used \union {t}) :
                  k = [addr |-> b, a |-> [addrs[i] EXCEPT ![NDIRECT] = t],
                       q |-> [ptr EXCEPT ![t][bn - NDIRECT] = b],
                       u |-> (used \union {t}) \union {b},
                       log |-> (BitmapBlocks({t}) \union {<<"block", t>>})
                               \union BitmapBlocks({b}) \union {<<"block", b>>, <<"block", t>>}]
    BY Zenon DEF NewTable
  <1>a. PICK a, q, n, a2 : a = addrs[i] /\ q = ptr /\ n = bn - NDIRECT
                           /\ a2 = [addrs[i] EXCEPT ![NDIRECT] = t]
    OBVIOUS
  <1>0. t \in Blocks /\ t \notin used /\ t # 0 /\ n \in 0..NINDIRECT - 1 /\ bn = NDIRECT + n
    BY <1>c, <1>a, NoZero, Sizes DEF MAXFILE
  <1>1. a \in Addrs /\ q \in Tables /\ a[NDIRECT] = 0 /\ q[t] = NoPtrs /\ a2 = [a EXCEPT ![NDIRECT] = t]
    BY <1>c, <1>a, <1>0 DEF TypeOK, Addrs, Tables, BlocksInv
  <1>x. Entered(a2, a, NDIRECT, NDIRECT, t)
    BY <1>1 DEF Addrs, Entered
  <1>y. \A c \in 0..MAXFILE - 1 : Place(a2, q, c) = Place(a, q, c)
    BY <1>1, <1>x, PlaceTable
  <1>2. /\ \A c \in 0..MAXFILE - 1 : Place(a2, q, c) = Place(a, q, c)
        /\ a2[NDIRECT] = t
    BY <1>x, <1>y, Sizes DEF Entered
  <1>3. Place(a, q, bn) = 0
    BY <1>c, <1>a, PlaceIs
  <1>4. CASE k = [addr |-> 0, a |-> [addrs[i] EXCEPT ![NDIRECT] = t], q |-> ptr,
                  u |-> used \union {t}, log |-> BitmapBlocks({t}) \union {<<"block", t>>}]
    <2>1. k.a = a2 /\ k.q = q /\ k.u = used \union {t}
      BY <1>4, <1>a
    <2>2. t \in k.u \ used
      BY <1>0, <2>1
    <2> QED
      BY <1>a, <1>0, <1>2, <1>3, <2>1, <2>2 DEF Grown
  <1>5. ASSUME NEW b \in Blocks \ (used \union {t}),
               k = [addr |-> b, a |-> [addrs[i] EXCEPT ![NDIRECT] = t],
                    q |-> [ptr EXCEPT ![t][bn - NDIRECT] = b],
                    u |-> (used \union {t}) \union {b},
                    log |-> (BitmapBlocks({t}) \union {<<"block", t>>})
                            \union BitmapBlocks({b}) \union {<<"block", b>>, <<"block", t>>}]
        PROVE  Grown(k, i, bn)
    <2>q. PICK q2 : q2 = [q EXCEPT ![t][n] = b]
      OBVIOUS
    <2>1. k.a = a2 /\ k.q = q2 /\ k.u = (used \union {t}) \union {b}
      BY <1>5, <1>a, <2>q
    <2>2. Entered(q2[t], q[t], NINDIRECT - 1, n, b)
      BY <1>0, <1>1, <2>q DEF Tables, Entered
    <2>3. \A c \in 0..MAXFILE - 1 : Place(a2, q2, c) = IF c = NDIRECT + n THEN b ELSE Place(a2, q, c)
      <3>1. PtrEntered(a2, q2, q, n, b)
        BY <1>0, <1>2, <2>2 DEF PtrEntered
      <3> QED
        BY <1>0, <3>1, PlacePtr
    <2>4. t \in k.u \ used /\ b \in k.u \ used /\ b # t
      BY <1>0, <1>5, <2>1
    <2> QED
      BY <1>a, <1>0, <1>2, <1>3, <2>1, <2>3, <2>4 DEF Grown
  <1> QED
    BY <1>c, <1>4, <1>5

LEMMA BmapGrows ==
    ASSUME TypeOK, BlocksInv, NEW i \in Inodes, NEW bn \in 0..MAXFILE - 1, NEW k, k = bmap(i, bn)
    PROVE  Grown(k, i, bn)
  BY BmapIs, SameGrown, DirectGrown, IndirectGrown, TableGrown

\* A block that was free is in no place yet.
LEMMA GrownOnce ==
    ASSUME TypeOK, BlocksInv, NEW i \in Inodes, NEW bn \in 0..MAXFILE - 1, NEW k,
           Grown(k, i, bn), Once(addrs[i], ptr)
    PROVE  Once(k.a, k.q)
  <1>a. PICK a, q, a2, q2, N, t, t2 :
          /\ a = addrs[i] /\ q = ptr /\ a2 = k.a /\ q2 = k.q /\ N = k.u \ used
          /\ t = a[NDIRECT] /\ t2 = a2[NDIRECT]
    OBVIOUS
  <1>1. /\ \A c \in 0..MAXFILE - 1 : \/ Place(a2, q2, c) = Place(a, q, c)
                                     \/ c = bn /\ Place(a2, q2, c) \in N
        /\ t2 = t \/ (t2 \in N /\ t2 # Place(a2, q2, bn))
    BY <1>a, Zenon DEF Grown
  <1>2. a \in Addrs /\ q \in Tables
    BY <1>a DEF TypeOK, Addrs, Tables
  <1>3. ASSUME NEW c \in 0..MAXFILE - 1, Place(a, q, c) # 0 PROVE Place(a, q, c) \notin N
    <2>1. Holds(a, q, Place(a, q, c))
      BY <1>2, <1>3, PlaceHolds
    <2> QED
      BY <1>a, <2>1, HoldsUsed
  <1>4. t # 0 => t \notin N
    BY <1>a, TableHeld, HoldsUsed
  <1>5. \A c, d \in 0..MAXFILE - 1 :
           Place(a, q, c) # 0 => /\ c # d => Place(a, q, c) # Place(a, q, d)
                                 /\ Place(a, q, c) # t
    BY <1>a DEF Once
  <1>7. \A c, d \in 0..MAXFILE - 1 :
           Place(a2, q2, c) # 0 => /\ c # d => Place(a2, q2, c) # Place(a2, q2, d)
                                   /\ Place(a2, q2, c) # t2
    BY <1>1, <1>3, <1>4, <1>5
  <1> QED
    BY <1>a, <1>7 DEF Once

----------------------------------------------------------------------------
(* The bytes of a file *)

\* Byte x of the inode with addresses a, when the blocks' contents are dt.
ByteAt(a, q, dt, x) == dt[Place(a, q, x \div BSIZE)][x % BSIZE]

Byte(i, x) == data[BlockOf(i, x \div BSIZE)][x % BSIZE]

\* What a writei() has written is in the file, although size may not count it yet.
Written ==
    \A p \in Procs : pc[p] \in InWritei =>
        \A x \in Off(p)..Off(p) + tot[p] - 1 : Byte(Ip(p), x) = p

ContentInv == OnePlace /\ Written

LEMMA ByteIs ==
    ASSUME NEW i, NEW x
    PROVE  /\ Byte(i, x) = ByteAt(addrs[i], ptr, data, x)
           /\ Byte(i, x)' = ByteAt(addrs'[i], ptr', data', x)
  BY PlaceIs DEF Byte, ByteAt

\* The bytes that fit into the block of byte o are in that block.
LEMMA SameBlock ==
    ASSUME NEW o \in Nat, NEW x \in Nat, NEW g \in Nat, g <= BSIZE - (o % BSIZE)
    PROVE  /\ x \in o..o + g - 1 => x \div BSIZE = o \div BSIZE
           /\ x \div BSIZE = o \div BSIZE =>
                (x \in o..o + g - 1 <=> x % BSIZE \in (o % BSIZE)..(o % BSIZE) + g - 1)
  <1>p. PICK so, ro, sx, rx : so = o \div BSIZE /\ ro = o % BSIZE /\ sx = x \div BSIZE /\ rx = x % BSIZE
    OBVIOUS
  <1>1. /\ so \in Nat /\ ro \in 0..BSIZE - 1 /\ o = BSIZE * so + ro /\ BSIZE * so \in Nat
        /\ sx \in Nat /\ rx \in 0..BSIZE - 1 /\ x = BSIZE * sx + rx /\ BSIZE * sx \in Nat
        /\ g <= BSIZE - ro
    BY <1>p, PlaceOf, Zenon
  <1>2. ASSUME x \in o..o + g - 1 PROVE sx = so
    <2>1. BSIZE * (sx + 1) = BSIZE * sx + BSIZE /\ BSIZE * (so + 1) = BSIZE * so + BSIZE
      BY <1>1, Next1, Sizes
    <2>2. BSIZE * so < BSIZE * (sx + 1)
      BY <1>1, <1>2, <2>1, Sizes
    <2>3. BSIZE * sx < BSIZE * (so + 1)
      BY <1>1, <1>2, <2>1, Sizes
    <2>4. so < sx + 1 /\ sx < so + 1
      BY <1>1, <2>2, <2>3, Between, Sizes
    <2> QED
      BY <1>1, <2>4
  <1>3. ASSUME sx = so PROVE x \in o..o + g - 1 <=> rx \in ro..ro + g - 1
    BY <1>1, <1>3, Sizes
  <1> QED
    BY <1>p, <1>2, <1>3

\* A block that an inode has is not one that bmap() takes for another.
LEMMA OtherBlock ==
    ASSUME TypeOK, BlocksInv, NEW i \in Inodes, NEW j \in Inodes, i # j, NEW s \in 0..MAXFILE - 1,
           NEW k, Extended(k, i, s), Grown(k, i, s), NEW c \in 0..MAXFILE - 1,
           Place(addrs[j], ptr, c) # 0
    PROVE  Place(addrs[j], ptr, c) # k.addr
  <1>p. PICK b, d : b = Place(addrs[j], ptr, c) /\ d = Place(addrs[i], ptr, s)
    OBVIOUS
  <1>0. \A l \in Inodes : addrs[l] \in Addrs /\ ptr \in Tables
    BY DEF TypeOK, Addrs, Tables
  <1>1. Holds(addrs[j], ptr, b) /\ b # 0
    BY <1>0, <1>p, PlaceHolds
  <1>2. b \in used /\ ~Holds(addrs[i], ptr, b)
    BY <1>1, HoldsUsed
  <1>3. d # 0 => Holds(addrs[i], ptr, d)
    BY <1>0, <1>p, PlaceHolds
  <1>4. k.addr # 0 => k.addr = d \/ k.addr \in k.u \ used
    <2>1. k.addr # 0 => Place(k.a, k.q, s) = k.addr
      BY DEF Extended
    <2>2. Place(k.a, k.q, s) = d \/ Place(k.a, k.q, s) \in k.u \ used
      BY <1>p DEF Grown
    <2> QED
      BY <2>1, <2>2
  <1> QED
    BY <1>1, <1>2, <1>3, <1>4, <1>p

\* A pass in terms of the block s that it writes, from byte at on.
PassBlock(p, got, i, o, k, s, at) ==
    /\ i \in Inodes /\ o \in Nat /\ s \in 0..MAXFILE - 1
    /\ Extended(k, i, s) /\ Grown(k, i, s) /\ Once(k.a, k.q)
    /\ addrs'[i] = k.a /\ ptr' = k.q /\ \A j \in Inodes : j # i => addrs'[j] = addrs[j]
    /\ got \in Nat /\ got <= BSIZE - at
    /\ \A b \in Blocks : b # k.addr => data'[b] = data[b]
    /\ \A b \in Blocks : b = k.addr => \A x \in 0..BSIZE - 1 :
         data'[b][x] = IF x \in at..at + got - 1 THEN p ELSE data[b][x]

LEMMA PassGrown ==
    ASSUME FileInv, OnePlace, NEW p \in Procs, NEW got \in 0..BSIZE,
           NEW i, NEW o, NEW m, NEW k, Pass(p, got, i, o, m, k),
           NEW s, NEW at, s = o \div BSIZE, at = o % BSIZE
    PROVE  PassBlock(p, got, i, o, k, s, at)
  <1>i. TypeOK /\ BlocksInv
    BY DEF FileInv, FilesInv
  <1>0. /\ i \in Inodes /\ o \in Nat /\ m \in Nat /\ m <= BSIZE - (o % BSIZE) /\ got <= m
        /\ o \div BSIZE \in 0..MAXFILE - 1 /\ k = bmap(i, o \div BSIZE)
        /\ Extended(k, i, o \div BSIZE)
        /\ addrs' = [addrs EXCEPT ![i] = k.a] /\ ptr' = k.q
        /\ data' = [b \in Blocks |-> IF b # k.addr THEN data[b] ELSE
                      [x \in DOMAIN data[b] |->
                         IF x \in (o % BSIZE)..(o % BSIZE) + got - 1 THEN p ELSE data[b][x]]]
    BY Zenon DEF Pass
  <1>p. s = o \div BSIZE /\ at = o % BSIZE
    OBVIOUS
  <1>1. i \in Inodes /\ s \in 0..MAXFILE - 1 /\ k = bmap(i, s)
    BY <1>0, <1>p
  <1>2. Grown(k, i, s)
    BY <1>i, <1>1, BmapGrows
  <1>3. Once(addrs[i], ptr)
    BY <1>0 DEF OnePlace
  <1>4. Once(k.a, k.q)
    BY <1>i, <1>1, <1>2, <1>3, GrownOnce
  <1>5. addrs'[i] = k.a /\ \A j \in Inodes : j # i => addrs'[j] = addrs[j]
    BY <1>i, <1>0 DEF TypeOK
  <1>6. at \in 0..BSIZE - 1
    BY <1>0, <1>p, PlaceOf
  <1>7. got \in Nat /\ got <= BSIZE - at
    <2>1. m \in Nat /\ m <= BSIZE - at
      BY <1>0, <1>p
    <2> QED
      BY <1>0, <1>6, <2>1, Sizes
  <1>8. data' = [b \in Blocks |-> IF b # k.addr THEN data[b] ELSE
                   [x \in DOMAIN data[b] |-> IF x \in at..at + got - 1 THEN p ELSE data[b][x]]]
    BY <1>0, <1>p, Zenon
  <1>9. /\ \A b \in Blocks : b # k.addr => data'[b] = data[b]
        /\ \A b \in Blocks : b = k.addr => \A x \in 0..BSIZE - 1 :
                data'[b][x] = IF x \in at..at + got - 1 THEN p ELSE data[b][x]
    <2>1. \A b \in Blocks : DOMAIN data[b] = 0..BSIZE - 1
      BY <1>i DEF TypeOK
    <2> QED
      BY <1>8, <2>1
  <1> QED
    BY <1>0, <1>1, <1>2, <1>4, <1>5, <1>7, <1>9 DEF PassBlock

\* A pass of writei() changes the bytes that it writes and no others, in this
\* file or in another.
LEMMA PassBytes ==
    ASSUME FileInv, OnePlace, NEW p \in Procs, NEW got \in 0..BSIZE,
           NEW i, NEW o, NEW m, NEW k, Pass(p, got, i, o, m, k),
           NEW j \in Inodes, NEW x \in Nat, x \div BSIZE \in 0..MAXFILE - 1,
           Place(addrs[j], ptr, x \div BSIZE) # 0
    PROVE  ByteAt(addrs'[j], ptr', data', x)
             = IF j = i /\ x \in o..o + got - 1 THEN p ELSE ByteAt(addrs[j], ptr, data, x)
  <1>i. TypeOK /\ BlocksInv
    BY DEF FileInv, FilesInv
  <1>p. PICK s, at, c, r, b : /\ s = o \div BSIZE /\ at = o % BSIZE /\ c = x \div BSIZE /\ r = x % BSIZE
                              /\ b = Place(addrs[j], ptr, c)
    OBVIOUS
  <1>b. PassBlock(p, got, i, o, k, s, at)
    BY <1>p, PassGrown
  <1>0. /\ i \in Inodes /\ o \in Nat /\ s \in 0..MAXFILE - 1
        /\ Extended(k, i, s) /\ Grown(k, i, s) /\ Once(k.a, k.q)
        /\ addrs'[i] = k.a /\ ptr' = k.q /\ (j # i => addrs'[j] = addrs[j])
        /\ \A d \in Blocks : d # k.addr => data'[d] = data[d]
        /\ \A d \in Blocks : d = k.addr => \A y \in 0..BSIZE - 1 :
             data'[d][y] = IF y \in at..at + got - 1 THEN p ELSE data[d][y]
    BY <1>b, Zenon DEF PassBlock
  <1>1. c \in 0..MAXFILE - 1 /\ b # 0 /\ r \in 0..BSIZE - 1
    BY <1>p, PlaceOf
  <1>2. b \in Blocks
    <2>1. addrs[j] \in Addrs /\ ptr \in Tables
      BY <1>i DEF TypeOK, Addrs, Tables
    <2> QED
      BY <1>1, <1>p, <2>1, PlaceHolds
  <1>3. Place(addrs'[j], ptr', c) = b
    BY <1>0, <1>1, <1>p DEF Extended
  <1>4. ByteAt(addrs'[j], ptr', data', x) = data'[b][r] /\ ByteAt(addrs[j], ptr, data, x) = data[b][r]
    BY <1>3, <1>p DEF ByteAt
  <1>5. /\ x \in o..o + got - 1 => c = s
        /\ c = s => (x \in o..o + got - 1 <=> r \in at..at + got - 1)
    <2>1. got \in Nat /\ got <= BSIZE - (o % BSIZE)
      BY <1>b, <1>p DEF PassBlock
    <2> QED
      BY <1>0, <1>p, <2>1, SameBlock
  <1>6. CASE b # k.addr
    <2>1. ~(j = i /\ x \in o..o + got - 1)
      <3> SUFFICES ASSUME j = i, c = s PROVE FALSE
        BY <1>5
      <3> QED
        BY <1>0, <1>1, <1>6, <1>p DEF Grown
    <2> QED
      BY <1>0, <1>2, <1>4, <1>6, <2>1
  <1>7. CASE b = k.addr
    <2>1. j = i
      <3> SUFFICES ASSUME j # i PROVE FALSE
        OBVIOUS
      <3>1. Place(addrs[j], ptr, c) # k.addr
        BY <1>i, <1>0, <1>1, <1>p, OtherBlock
      <3> QED
        BY <1>7, <1>p, <3>1
    <2>2. Place(k.a, k.q, c) = b /\ Place(k.a, k.q, s) = b
      BY <1>0, <1>1, <1>3, <1>7, <2>1 DEF Extended
    <2>3. c = s
      BY <1>0, <1>1, <2>2 DEF Once
    <2> QED
      BY <1>0, <1>1, <1>2, <1>4, <1>5, <1>7, <2>1, <2>3
  <1> QED
    BY <1>6, <1>7

\* What a pass has copied is in the file.
LEMMA PassCopies ==
    ASSUME FileInv, OnePlace, NEW p \in Procs, NEW got \in 0..BSIZE,
           NEW i, NEW o, NEW m, NEW k, Pass(p, got, i, o, m, k), k.addr # 0,
           NEW x \in o..o + got - 1
    PROVE  ByteAt(addrs'[i], ptr', data', x) = p
  <1>p. PICK s, at, r : s = o \div BSIZE /\ at = o % BSIZE /\ r = x % BSIZE
    OBVIOUS
  <1>b. PassBlock(p, got, i, o, k, s, at)
    BY <1>p, PassGrown
  <1>0. /\ i \in Inodes /\ o \in Nat /\ s \in 0..MAXFILE - 1 /\ Extended(k, i, s)
        /\ addrs'[i] = k.a /\ ptr' = k.q /\ got \in Nat /\ got <= BSIZE - at
        /\ \A d \in Blocks : d = k.addr => \A y \in 0..BSIZE - 1 :
             data'[d][y] = IF y \in at..at + got - 1 THEN p ELSE data[d][y]
    BY <1>b, Zenon DEF PassBlock
  <1>1. x \in Nat
    BY <1>0
  <1>2. x \div BSIZE = s /\ r \in at..at + got - 1 /\ r \in 0..BSIZE - 1
    BY <1>0, <1>1, <1>p, SameBlock, PlaceOf
  <1>3. Place(addrs'[i], ptr', s) = k.addr /\ k.addr \in Blocks
    BY <1>0 DEF Extended
  <1> QED
    BY <1>0, <1>2, <1>3, <1>p DEF ByteAt

\* The blocks of what a writei() has written, and of what a file has.
LEMMA WrittenPlace ==
    ASSUME FileInv, NEW q \in Procs, pc[q] \in InWritei, NEW x \in Off(q)..Off(q) + tot[q] - 1
    PROVE  /\ x \in Nat /\ Ip(q) \in Inodes /\ x \div BSIZE \in 0..MAXFILE - 1
           /\ Place(addrs[Ip(q)], ptr, x \div BSIZE) # 0
  <1>i. TypeOK /\ FilesInv /\ Writing
    BY DEF FileInv, FilesInv
  <1>1. Ip(q) \in Inodes /\ Off(q) \in Nat /\ tot[q] \in Nat /\ n1[q] \in Nat /\ MAXFILE * BSIZE \in Nat
    BY <1>i, InWriteiIs, InCall, MaxFileIs DEF TypeOK
  <1>p. PICK j, y : j = Ip(q) /\ y = Off(q) + tot[q]
    OBVIOUS
  <1>2. Covered(j, y) /\ tot[q] <= n1[q] /\ Off(q) + n1[q] <= MAXFILE * BSIZE
    BY <1>i, <1>p DEF Writing
  <1>3. x \in Nat /\ x < y /\ y \in Nat /\ x < MAXFILE * BSIZE
    BY <1>1, <1>2, <1>p
  <1>4. x \div BSIZE \in 0..MAXFILE - 1 /\ x \div BSIZE \in 0..Ceil(y) - 1
    BY <1>3, BlockBound, ByteCovered, MaxFileIs
  <1>5. Place(addrs[j], ptr, x \div BSIZE) # 0
    BY <1>2, <1>4, CoveredIs
  <1> QED
    BY <1>1, <1>3, <1>4, <1>5, <1>p

LEMMA SizePlace ==
    ASSUME FileInv, NEW i \in Inodes, NEW x \in Nat, x < size[i]
    PROVE  /\ x \div BSIZE \in 0..MAXFILE - 1
           /\ Place(addrs[i], ptr, x \div BSIZE) # 0
  <1>1. /\ size[i] \in Nat /\ size[i] <= MAXFILE * BSIZE /\ MAXFILE * BSIZE \in Nat
        /\ Covered(i, size[i])
    BY MaxFileIs DEF FileInv, FilesInv, TypeOK, SizesInv
  <1>p. PICK y : y = size[i]
    OBVIOUS
  <1>2. y \in Nat /\ x < y /\ x < MAXFILE * BSIZE /\ Covered(i, y)
    BY <1>1, <1>p
  <1>3. x \div BSIZE \in 0..MAXFILE - 1 /\ x \div BSIZE \in 0..Ceil(y) - 1
    BY <1>2, BlockBound, ByteCovered, MaxFileIs
  <1> QED
    BY <1>2, <1>3, CoveredIs

\* Steps that change no inode and no byte.
LEMMA QuietContent ==
    ASSUME ContentInv, UNCHANGED <<addrs, ptr, data>>,
           \A q \in Procs : pc'[q] \in InWritei =>
              \/ pc[q] \in InWritei /\ Stays(q)
              \/ Off(q)' \in Nat /\ tot'[q] = 0
    PROVE  ContentInv'
  <1>1. OnePlace'
    BY DEF ContentInv, OnePlace, Once, Place
  <1>2. ASSUME NEW q \in Procs, pc'[q] \in InWritei, NEW x \in Off(q)'..Off(q)' + tot'[q] - 1
        PROVE  Byte(Ip(q), x)' = q
    <2>1. CASE Off(q)' \in Nat /\ tot'[q] = 0
      BY <1>2, <2>1
    <2>2. CASE pc[q] \in InWritei /\ Stays(q)
      <3>p. PICK j : j = Ip(q)
        OBVIOUS
      <3>1. Ip(q)' = j /\ Off(q)' = Off(q) /\ tot'[q] = tot[q]
        BY <2>2, <3>p, StaysIs
      <3>2. Byte(j, x) = q
        BY <1>2, <2>2, <3>1, <3>p DEF ContentInv, Written
      <3>3. Byte(j, x)' = Byte(j, x)
        BY DEF Byte, BlockOf
      <3> QED
        BY <3>1, <3>2, <3>3 DEF Byte
    <2> QED
      BY <1>2, <2>1, <2>2
  <1>3. Written'
    BY <1>2 DEF Written
  <1> QED
    BY <1>1, <1>3 DEF ContentInv

\* itrunc() leaves the bytes of the other files alone.
LEMMA TruncBytes ==
    ASSUME FileInv, OnePlace, NEW p \in Procs, NEW i \in Inodes, itrunc(p, i)
    PROVE  /\ OnePlace'
           /\ \A j \in Inodes : j # i => \A x \in Nat :
                x \div BSIZE \in 0..MAXFILE - 1 /\ Place(addrs[j], ptr, x \div BSIZE) # 0
                  => ByteAt(addrs'[j], ptr', data', x) = ByteAt(addrs[j], ptr, data, x)
  <1>i. TypeOK /\ BlocksInv
    BY DEF FileInv, FilesInv
  <1>p. PICK freed : freed = BlocksOf(i)
    OBVIOUS
  <1>1. /\ addrs' = [addrs EXCEPT ![i] = NoAddrs]
        /\ data' = [b \in Blocks |-> IF b \in freed THEN Zeros ELSE data[b]]
    BY <1>p DEF itrunc
  <1>2. \A j \in Inodes : j # i => /\ addrs'[j] = addrs[j]
                                   /\ \A c : Place(addrs[j], ptr', c) = Place(addrs[j], ptr, c)
    BY <1>i, TruncIs
  <1>3. addrs'[i] = NoAddrs
    BY <1>i, <1>1 DEF TypeOK
  <1>4. OnePlace'
    <2> SUFFICES ASSUME NEW j \in Inodes PROVE Once(addrs'[j], ptr')
      BY DEF OnePlace, Once, Place
    <2>1. CASE j = i
      <3>1. \A x \in 0..NDIRECT : NoAddrs[x] = 0
        BY DEF NoAddrs
      <3>2. ASSUME NEW c \in 0..MAXFILE - 1 PROVE Place(NoAddrs, ptr', c) = 0
        <4>1. NDIRECT \in 0..NDIRECT /\ (c < NDIRECT => c \in 0..NDIRECT)
          BY Sizes
        <4> QED
          BY <3>1, <4>1 DEF Place
      <3> QED
        BY <1>3, <2>1, <3>2 DEF Once
    <2>2. CASE j # i
      BY <1>2, <2>2 DEF OnePlace, Once
    <2> QED
      BY <2>1, <2>2
  <1>5. ASSUME NEW j \in Inodes, j # i, NEW x \in Nat, x \div BSIZE \in 0..MAXFILE - 1,
               Place(addrs[j], ptr, x \div BSIZE) # 0
        PROVE  ByteAt(addrs'[j], ptr', data', x) = ByteAt(addrs[j], ptr, data, x)
    <2>p. PICK c, b : c = x \div BSIZE /\ b = Place(addrs[j], ptr, c)
      OBVIOUS
    <2>1. addrs[j] \in Addrs /\ ptr \in Tables
      BY <1>i DEF TypeOK, Addrs, Tables
    <2>2. b \in Blocks /\ Holds(addrs[j], ptr, b)
      BY <1>5, <2>1, <2>p, PlaceHolds
    <2>3. b \notin freed
      BY <1>i, <1>5, <1>p, <2>2, HoldsUsed, HoldsIs
    <2>4. data'[b] = data[b] /\ Place(addrs'[j], ptr', c) = b
      BY <1>1, <1>2, <1>5, <2>2, <2>3, <2>p
    <2> QED
      BY <2>4, <2>p DEF ByteAt
  <1> QED
    BY <1>4, <1>5

LEMMA OpenContent ==
    ASSUME FileInv, ContentInv, NEW p \in Procs, NEW i \in Inodes, NEW mode \in Modes, Open(p, i, mode)
    PROVE  ContentInv'
  <1>i. TypeOK /\ FilesInv /\ LockHeld
    BY DEF FileInv, FilesInv
  <1>1. UNCHANGED pc /\ lock[i] = None
    BY DEF Open
  <1>2. \A q \in Procs : pc[q] \in InWritei => Stays(q)
    BY <1>i, OpenStays
  <1>3. CASE ~mode.trunc
    <2>1. UNCHANGED <<addrs, ptr, data>>
      BY <1>3 DEF Open, blocks
    <2> QED
      BY <1>1, <1>2, <2>1, QuietContent
  <1>4. CASE mode.trunc
    <2>1. itrunc(p, i)
      BY <1>4 DEF Open
    <2>2. /\ OnePlace'
          /\ \A j \in Inodes : j # i => \A x \in Nat :
               x \div BSIZE \in 0..MAXFILE - 1 /\ Place(addrs[j], ptr, x \div BSIZE) # 0
                 => ByteAt(addrs'[j], ptr', data', x) = ByteAt(addrs[j], ptr, data, x)
      BY <2>1, TruncBytes DEF ContentInv
    <2>3. ASSUME NEW q \in Procs, pc'[q] \in InWritei, NEW x \in Off(q)'..Off(q)' + tot'[q] - 1
          PROVE  Byte(Ip(q), x)' = q
      <3>p. PICK j : j = Ip(q)
        OBVIOUS
      <3>0. pc[q] \in InWritei
        BY <1>1, <2>3
      <3>1. Ip(q)' = j /\ Off(q)' = Off(q) /\ tot'[q] = tot[q]
        BY <1>2, <3>0, <3>p, StaysIs
      <3>2. x \in Off(q)..Off(q) + tot[q] - 1
        BY <2>3, <3>1
      <3>3. /\ x \in Nat /\ j \in Inodes /\ x \div BSIZE \in 0..MAXFILE - 1
            /\ Place(addrs[j], ptr, x \div BSIZE) # 0
        BY <3>0, <3>2, <3>p, WrittenPlace
      <3>4. j # i
        BY <1>i, <1>1, <3>0, <3>3, <3>p, NoZero DEF LockHeld
      <3>5. Byte(j, x) = q
        BY <3>0, <3>2, <3>p DEF ContentInv, Written
      <3>6. Byte(j, x)' = q
        BY <2>2, <3>3, <3>4, <3>5, ByteIs
      <3> QED
        BY <3>1, <3>6 DEF Byte
    <2>4. Written'
      BY <2>3 DEF Written
    <2> QED
      BY <2>2, <2>4 DEF ContentInv
  <1> QED
    BY <1>3, <1>4

LEMMA OtherContent ==
    ASSUME FileInv, ContentInv, NEW p \in Procs,
           \/ \E d \in FDs : Dup(p, d) \/ Close(p, d)
           \/ PipeRead(p) \/ \E copied \in BOOLEAN : PipeWrite(p, copied)
           \/ \E q \in Procs : Fork(p, q)
           \/ Exit(p) \/ Exited(p)
           \/ \E d \in FDs, n \in Counts, copied \in BOOLEAN : Read(p, d, n, copied)
           \/ \E d \in FDs, n \in Counts : Write(p, d, n)
    PROVE  ContentInv'
  <1>1. /\ UNCHANGED <<addrs, ptr, data>> /\ pc'[p] \notin InWritei
        /\ \A q \in Procs : q # p => pc'[q] = pc[q]
        /\ \A q \in Procs : q # p /\ pc[q] \in InWritei => Stays(q)
    BY QuietStep
  <1> QED
    BY <1>1, QuietContent

LEMMA ReturnContent ==
    ASSUME FileInv, ContentInv, NEW p \in Procs, WriteReturn(p)
    PROVE  ContentInv'
  <1>1. /\ UNCHANGED <<addrs, ptr, data, file, left, n1, tot>> /\ pc' = [pc EXCEPT ![p] = "user"]
        /\ fp' = [fp EXCEPT ![p] = 0]
    BY DEF WriteReturn, files, blocks, Goto
  <1>2. /\ pc'[p] \notin InWritei
        /\ \A q \in Procs : q # p => pc'[q] = pc[q] /\ fp'[q] = fp[q]
    BY <1>1 DEF InWritei, FileInv, FilesInv, TypeOK
  <1>3. \A q \in Procs : q # p /\ pc[q] \in InWritei => Stays(q)
    BY <1>1, <1>2 DEF Stays
  <1> QED
    BY <1>1, <1>2, <1>3, QuietContent

LEMMA ChunkContent ==
    ASSUME FileInv, ContentInv, NEW p \in Procs, WriteChunk(p)
    PROVE  ContentInv'
  <1>i. TypeOK /\ FilesInv
    BY DEF FileInv, FilesInv
  <1>1. /\ UNCHANGED <<addrs, ptr, data, file, fp>> /\ pc[p] = "write"
        /\ \/ UNCHANGED <<pc, n1, tot>> /\ left' = [left EXCEPT ![p] = 0]
           \/ /\ pc' = [pc EXCEPT ![p] = "writei"] /\ tot' = [tot EXCEPT ![p] = 0]
              /\ UNCHANGED left /\ \E n : n1' = [n1 EXCEPT ![p] = n]
    BY DEF WriteChunk, files, blocks, Goto, At
  <1>2. \A q \in Procs : q # p => /\ pc'[q] = pc[q] /\ left'[q] = left[q]
                                  /\ n1'[q] = n1[q] /\ tot'[q] = tot[q]
    BY <1>i, <1>1 DEF TypeOK
  <1>3. \A q \in Procs : q # p /\ pc[q] \in InWritei => Stays(q)
    BY <1>1, <1>2 DEF Stays
  <1>4. Off(p)' \in Nat
    <2>1. Off(p) \in Nat
      BY <1>i, <1>1, InCall DEF InWrite
    <2> QED
      BY <1>1, <2>1 DEF Off
  <1>5. pc'[p] \in InWritei => tot'[p] = 0
    BY <1>i, <1>1 DEF TypeOK, InWritei
  <1> QED
    BY <1>1, <1>2, <1>3, <1>4, <1>5, QuietContent

LEMMA EndContent ==
    ASSUME FileInv, ContentInv, NEW p \in Procs, WriteEnd(p)
    PROVE  ContentInv'
  <1>i. TypeOK /\ FilesInv /\ LockHeld
    BY DEF FileInv, FilesInv
  <1>0. pc[p] \in InWritei
    BY DEF WriteEnd, At, InWritei
  <1>p. PICK i : i = Ip(p)
    OBVIOUS
  <1>1. i \in Inodes /\ fp[p] \in Files /\ tot[p] \in Nat /\ lock[i] = p
    BY <1>i, <1>0, <1>p, InWriteiIs, InCall DEF TypeOK, LockHeld
  <1>2. /\ UNCHANGED <<addrs, ptr, data, fp>> /\ pc' = [pc EXCEPT ![p] = "write"]
        /\ file' = [file EXCEPT ![fp[p]].off = @ + tot[p]]
        /\ \E x : left' = [left EXCEPT ![p] = x]
        /\ n1' = [n1 EXCEPT ![p] = 0] /\ tot' = [tot EXCEPT ![p] = 0]
    BY DEF WriteEnd, Goto
  <1>3. /\ pc'[p] \notin InWritei
        /\ \A q \in Procs : q # p => /\ pc'[q] = pc[q] /\ left'[q] = left[q]
                                     /\ n1'[q] = n1[q] /\ tot'[q] = tot[q]
    BY <1>i, <1>2 DEF InWritei, TypeOK
  <1>4. ASSUME NEW q \in Procs, q # p, pc[q] \in InWritei PROVE Stays(q)
    <2>1. fp[q] # fp[p] /\ fp[q] \in Files
      BY <1>i, <1>0, <1>1, <1>4, <1>p, OtherInode, InWriteiIs, InCall
    <2>2. file'[fp[q]] = file[fp[q]]
      BY <1>i, <1>1, <1>2, <2>1, MovedIs
    <2> QED
      BY <1>2, <1>3, <1>4, <2>2 DEF Stays
  <1> QED
    BY <1>2, <1>3, <1>4, QuietContent

LEMMA PassContent ==
    ASSUME FileInv, ContentInv, NEW p \in Procs, NEW got \in 0..BSIZE, WriteBlock(p, got)
    PROVE  ContentInv'
  <1>i. TypeOK /\ FilesInv /\ LockHeld /\ OnePlace
    BY DEF FileInv, FilesInv, ContentInv
  <1>P. PICK i, o, m, k : Pass(p, got, i, o, m, k)
    BY PassIs
  <1>p. PICK s, at : s = o \div BSIZE /\ at = o % BSIZE
    OBVIOUS
  <1>b. PassBlock(p, got, i, o, k, s, at)
    BY <1>i, <1>P, <1>p, PassGrown
  <1>0. /\ i \in Inodes /\ o \in Nat /\ m \in Nat
        /\ i = Ip(p) /\ o = Off(p) + tot[p] /\ pc[p] = "writei"
        /\ \/ k.addr # 0 /\ got = m /\ tot' = [tot EXCEPT ![p] = @ + m] /\ UNCHANGED pc
           \/ pc' = [pc EXCEPT ![p] = "writei_end"] /\ UNCHANGED tot
        /\ UNCHANGED <<files, fp, left, n1>>
    BY <1>P, Zenon DEF Pass
  <1>1. UNCHANGED <<file, fp, left, n1>>
    BY <1>0 DEF files
  <1>2. /\ pc[p] \in InWritei
        /\ \A q \in Procs : q # p => pc'[q] = pc[q] /\ tot'[q] = tot[q]
        /\ \/ k.addr # 0 /\ got = m /\ tot'[p] = tot[p] + m
           \/ tot'[p] = tot[p]
    BY <1>i, <1>0 DEF TypeOK, InWritei
  <1>3. \A q : Ip(q)' = Ip(q) /\ Off(q)' = Off(q)
    BY <1>1 DEF Ip, Off
  <1>4. OnePlace'
    <2> SUFFICES ASSUME NEW j \in Inodes PROVE Once(addrs'[j], ptr')
      BY DEF OnePlace, Once, Place
    <2>1. /\ Once(k.a, k.q) /\ addrs'[i] = k.a /\ ptr' = k.q
          /\ j # i => addrs'[j] = addrs[j]
          /\ Extended(k, i, s)
      BY <1>b DEF PassBlock
    <2>2. CASE j = i
      BY <2>1, <2>2
    <2>3. CASE j # i
      <3>1. \A c : Place(addrs[j], k.q, c) = Place(addrs[j], ptr, c)
        BY <2>1, <2>3 DEF Extended
      <3> QED
        BY <1>i, <2>1, <2>3, <3>1 DEF OnePlace, Once
    <2> QED
      BY <2>2, <2>3
  <1>5. ASSUME NEW q \in Procs, pc[q] \in InWritei, NEW x \in Off(q)..Off(q) + tot[q] - 1
        PROVE  ByteAt(addrs'[Ip(q)], ptr', data', x) = q
    <2>p. PICK j : j = Ip(q)
      OBVIOUS
    <2>1. /\ x \in Nat /\ j \in Inodes /\ x \div BSIZE \in 0..MAXFILE - 1
          /\ Place(addrs[j], ptr, x \div BSIZE) # 0
      BY <1>5, <2>p, WrittenPlace
    <2>2. ByteAt(addrs[j], ptr, data, x) = q
      BY <1>5, <2>p, ByteIs DEF ContentInv, Written
    <2>3. ByteAt(addrs'[j], ptr', data', x)
            = IF j = i /\ x \in o..o + got - 1 THEN p ELSE ByteAt(addrs[j], ptr, data, x)
      BY <1>i, <1>P, <2>1, PassBytes
    <2>4. j = i => q = p
      <3>1. lock[i] = p
        BY <1>i, <1>0, <1>2 DEF LockHeld
      <3> QED
        BY <1>i, <1>5, <2>1, <2>p, <3>1 DEF LockHeld
    <2> QED
      BY <2>2, <2>3, <2>4, <2>p
  <1>6. ASSUME NEW q \in Procs, pc'[q] \in InWritei, NEW x \in Off(q)..Off(q) + tot'[q] - 1
        PROVE  ByteAt(addrs'[Ip(q)], ptr', data', x) = q
    <2>0. pc[q] \in InWritei
      BY <1>2, <1>6
    <2>1. CASE tot'[q] = tot[q]
      BY <1>5, <1>6, <2>0, <2>1
    <2>2. CASE tot'[q] # tot[q]
      <3>1. q = p /\ k.addr # 0 /\ got = m /\ tot'[p] = tot[p] + m
        BY <1>2, <2>2
      <3>2. Off(p) \in Nat /\ tot[p] \in Nat
        BY <1>i, <1>2, InWriteiIs, InCall DEF TypeOK
      <3>3. x \in Off(p)..Off(p) + tot[p] - 1 \/ x \in o..o + got - 1
        BY <1>0, <1>6, <3>1, <3>2
      <3>4. CASE x \in Off(p)..Off(p) + tot[p] - 1
        BY <1>5, <2>0, <3>1, <3>4
      <3>5. CASE x \in o..o + got - 1
        BY <1>i, <1>P, <1>0, <3>1, <3>5, PassCopies
      <3> QED
        BY <3>3, <3>4, <3>5
    <2> QED
      BY <2>1, <2>2
  <1>7. Written'
    <2> SUFFICES ASSUME NEW q \in Procs, pc'[q] \in InWritei, NEW x \in Off(q)'..Off(q)' + tot'[q] - 1
                 PROVE  Byte(Ip(q), x)' = q
      BY DEF Written
    <2>p. PICK j : j = Ip(q)
      OBVIOUS
    <2>1. Byte(j, x)' = q
      BY <1>3, <1>6, <2>p, ByteIs
    <2> QED
      BY <1>3, <2>1, <2>p DEF Byte
  <1> QED
    BY <1>4, <1>7 DEF ContentInv

LEMMA ContentInit == ASSUME Init PROVE ContentInv
  <1>1. addrs = [i \in Inodes |-> NoAddrs] /\ pc = [p \in Procs |-> "user"]
    BY DEF Init
  <1>2. \A x \in 0..NDIRECT : NoAddrs[x] = 0
    BY DEF NoAddrs
  <1>3. ASSUME NEW c \in 0..MAXFILE - 1 PROVE Place(NoAddrs, ptr, c) = 0
    <2>1. NDIRECT \in 0..NDIRECT /\ (c < NDIRECT => c \in 0..NDIRECT)
      BY Sizes
    <2> QED
      BY <1>2, <2>1 DEF Place
  <1>4. OnePlace
    BY <1>1, <1>3 DEF OnePlace, Once
  <1>5. Written
    BY <1>1 DEF Written, InWritei
  <1> QED
    BY <1>4, <1>5 DEF ContentInv

LEMMA ContentStutter == ASSUME ContentInv, UNCHANGED vars PROVE ContentInv'
  <1>1. UNCHANGED <<file, addrs, ptr, data, pc, fp, left, n1, tot>>
    BY DEF vars, files, blocks, regs
  <1>2. \A q \in Procs : pc'[q] \in InWritei => pc[q] \in InWritei /\ Stays(q)
    BY <1>1 DEF Stays
  <1> QED
    BY <1>1, <1>2, QuietContent

LEMMA ContentNext == ASSUME FileInv, ContentInv, [Next]_vars PROVE ContentInv'
  <1>1. CASE \E p \in Procs, i \in Inodes, mode \in Modes : Open(p, i, mode)
    BY <1>1, OpenContent
  <1>2. CASE \E p \in Procs : \/ \E d \in FDs : Dup(p, d) \/ Close(p, d)
                              \/ PipeRead(p) \/ \E copied \in BOOLEAN : PipeWrite(p, copied)
                              \/ \E q \in Procs : Fork(p, q)
                              \/ Exit(p) \/ Exited(p)
                              \/ \E d \in FDs, n \in Counts, copied \in BOOLEAN : Read(p, d, n, copied)
                              \/ \E d \in FDs, n \in Counts : Write(p, d, n)
    BY <1>2, OtherContent
  <1>3. CASE \E p \in Procs : WriteChunk(p)
    BY <1>3, ChunkContent
  <1>4. CASE \E p \in Procs, got \in 0..BSIZE : WriteBlock(p, got)
    BY <1>4, PassContent
  <1>5. CASE \E p \in Procs : WriteEnd(p)
    BY <1>5, EndContent
  <1>6. CASE \E p \in Procs : WriteReturn(p)
    BY <1>6, ReturnContent
  <1>7. CASE UNCHANGED vars
    BY <1>7, ContentStutter
  <1> QED
    BY <1>1, <1>2, <1>3, <1>4, <1>5, <1>6, <1>7, Zenon DEF Next

\* No block is in two places of a file, and what writei() has written so far is
\* in the file (bmap() and writei() of fs.c).
THEOREM ContentInvariant == Spec => [](FileInv /\ ContentInv)
  <1>1. Init => FileInv /\ ContentInv
    BY FileInit, ContentInit
  <1>2. FileInv /\ ContentInv /\ [Next]_vars => (FileInv /\ ContentInv)'
    BY FileNext, ContentNext
  <1> QED
    BY <1>1, <1>2, PTL DEF Spec

\* Every block is free or has one owner, in one place, every file has the blocks
\* of its size, and no call panics (balloc(), bmap(), itrunc(), readi() and
\* writei() of fs.c).
THEOREM BlocksOwned == Spec => []BlocksAccounted
  <1>1. ASSUME FileInv, ContentInv PROVE BlocksAccounted
    <2>i. TypeOK /\ BlocksInv /\ SizesInv /\ ~wrong
      BY <1>1 DEF FileInv, FilesInv
    <2>1. used = UNION {BlocksOf(i) : i \in Inodes}
      <3>1. \A i \in Inodes : \A b \in BlocksOf(i) : b \in Blocks
        BY <2>i, HoldsIs, HoldsUsed
      <3>2. \A b : b \in used <=> \E i \in Inodes : b \in BlocksOf(i)
        BY <2>i, <3>1 DEF BlocksInv, TypeOK
      <3>3. \A b : b \in UNION {BlocksOf(i) : i \in Inodes} <=> \E i \in Inodes : b \in BlocksOf(i)
        OBVIOUS
      <3> QED
        BY <3>2, <3>3
    <2>2. \A i, j \in Inodes : i # j => BlocksOf(i) \intersect BlocksOf(j) = {}
      BY <2>i DEF BlocksInv
    <2>3. \A i \in Inodes : \A bn \in 0..(size[i] + BSIZE - 1) \div BSIZE - 1 : BlockOf(i, bn) # 0
      BY <2>i DEF SizesInv, Covered, Ceil
    <2>4. \A i \in Inodes : \A x, y \in 0..MAXFILE - 1 :
             BlockOf(i, x) # 0 => /\ x # y => BlockOf(i, x) # BlockOf(i, y)
                                  /\ BlockOf(i, x) # addrs[i][NDIRECT]
      BY <1>1, PlaceIs DEF ContentInv, OnePlace, Once
    <2> QED
      BY <2>i, <2>1, <2>2, <2>3, <2>4 DEF BlocksAccounted
  <1> QED
    BY <1>1, ContentInvariant, PTL

----------------------------------------------------------------------------
(* The contents of files *)

\* The first n bytes of the inode with addresses a.
BytesOf(n, a, q, dt) == [k \in 1..n |-> ByteAt(a, q, dt, k - 1)]

LEMMA BytesIs ==
    ASSUME NEW i
    PROVE  /\ Bytes(i) = BytesOf(size[i], addrs[i], ptr, data)
           /\ Bytes(i)' = BytesOf(size'[i], addrs'[i], ptr', data')
  <1>1. \A x : BlockOf(i, x) = Place(addrs[i], ptr, x) /\ BlockOf(i, x)' = Place(addrs'[i], ptr', x)
    BY PlaceIs
  <1> QED
    BY <1>1 DEF Bytes, BytesOf, ByteAt

\* A file of the same size and the same bytes is the same.
LEMMA SameBytes ==
    ASSUME NEW i, NEW n \in Nat, size[i] = n, size'[i] = n,
           \A x \in Nat : x < n => ByteAt(addrs'[i], ptr', data', x) = ByteAt(addrs[i], ptr, data, x)
    PROVE  Bytes(i)' = Bytes(i)
  <1>p. PICK a, q, d, a2, q2, d2 : /\ a = addrs[i] /\ q = ptr /\ d = data
                                   /\ a2 = addrs'[i] /\ q2 = ptr' /\ d2 = data'
    OBVIOUS
  <1>1. ASSUME NEW k \in 1..n PROVE ByteAt(a2, q2, d2, k - 1) = ByteAt(a, q, d, k - 1)
    <2>1. k - 1 \in Nat /\ k - 1 < n
      OBVIOUS
    <2> QED
      BY <1>p, <2>1
  <1>2. BytesOf(n, a2, q2, d2) = BytesOf(n, a, q, d)
    BY <1>1 DEF BytesOf
  <1> QED
    BY <1>2, <1>p, BytesIs

LEMMA AbstractKept ==
    ASSUME \A i \in Inodes : Bytes(i)' = Bytes(i)
    PROVE  UNCHANGED [i \in Inodes |-> Bytes(i)]
  OBVIOUS

LEMMA QuietBytes ==
    ASSUME UNCHANGED <<size, addrs, ptr, data>>
    PROVE  UNCHANGED [i \in Inodes |-> Bytes(i)]
  BY DEF Bytes, BlockOf

LEMMA TruncEmpties ==
    ASSUME FileInv, ContentInv, NEW p \in Procs, NEW i \in Inodes, itrunc(p, i)
    PROVE  Abstract!Empty(i)
  <1>i. TypeOK /\ BlocksInv
    BY DEF FileInv, FilesInv
  <1>1. size' = [size EXCEPT ![i] = 0]
    BY DEF itrunc
  <1>2. size'[i] = 0 /\ \A j \in Inodes : size[j] \in Nat /\ (j # i => size'[j] = size[j])
    BY <1>i, <1>1 DEF TypeOK
  <1>3. Bytes(i)' = <<>>
    BY <1>2 DEF Bytes
  <1>4. ASSUME NEW j \in Inodes, j # i PROVE Bytes(j)' = Bytes(j)
    <2>1. ASSUME NEW x \in Nat, x < size[j]
          PROVE  ByteAt(addrs'[j], ptr', data', x) = ByteAt(addrs[j], ptr, data, x)
      <3>1. x \div BSIZE \in 0..MAXFILE - 1 /\ Place(addrs[j], ptr, x \div BSIZE) # 0
        BY <2>1, SizePlace
      <3> QED
        BY <1>4, <3>1, TruncBytes DEF ContentInv
    <2> QED
      BY <1>2, <1>4, <2>1, SameBytes
  <1>p. PICK c : c = [j \in Inodes |-> Bytes(j)]
    OBVIOUS
  <1>q. PICK c2 : c2 = [j \in Inodes |-> Bytes(j)']
    OBVIOUS
  <1>5. c2 = [c EXCEPT ![i] = <<>>]
    BY <1>3, <1>4, <1>p, <1>q
  <1> QED
    BY <1>5, <1>p, <1>q DEF Abstract!Empty

\* A pass of writei() replaces the bytes below size that it writes; those beyond
\* it are not in the file yet.
LEMMA PassReplaces ==
    ASSUME FileInv, ContentInv, NEW p \in Procs, NEW got \in 0..BSIZE, WriteBlock(p, got)
    PROVE  [Abstract!Next]_[i \in Inodes |-> Bytes(i)]
  <1>i. TypeOK /\ OnePlace
    BY DEF FileInv, FilesInv, ContentInv
  <1>P. PICK i, o, m, k : Pass(p, got, i, o, m, k)
    BY PassIs
  <1>0. i \in Inodes /\ o \in Nat /\ size' = size
    BY <1>P, Zenon DEF Pass
  <1>1. \A j \in Inodes : size[j] \in Nat /\ size'[j] = size[j]
    BY <1>i, <1>0 DEF TypeOK
  <1>2. ASSUME NEW j \in Inodes, NEW x \in Nat, x < size[j]
        PROVE  ByteAt(addrs'[j], ptr', data', x)
                 = IF j = i /\ x \in o..o + got - 1 THEN p ELSE ByteAt(addrs[j], ptr, data, x)
    <2>1. x \div BSIZE \in 0..MAXFILE - 1 /\ Place(addrs[j], ptr, x \div BSIZE) # 0
      BY <1>2, SizePlace
    <2> QED
      BY <1>i, <1>P, <2>1, PassBytes
  <1>3. ASSUME NEW j \in Inodes, j # i PROVE Bytes(j)' = Bytes(j)
    <2>1. \A x \in Nat : x < size[j] =>
             ByteAt(addrs'[j], ptr', data', x) = ByteAt(addrs[j], ptr, data, x)
      BY <1>2, <1>3
    <2> QED
      BY <1>1, <2>1, SameBytes
  <1>4. CASE got = 0 \/ o >= size[i]
    <2>1. \A x \in Nat : x < size[i] =>
             ByteAt(addrs'[i], ptr', data', x) = ByteAt(addrs[i], ptr, data, x)
      BY <1>0, <1>1, <1>2, <1>4
    <2>2. Bytes(i)' = Bytes(i)
      BY <1>0, <1>1, <2>1, SameBytes
    <2>3. UNCHANGED [j \in Inodes |-> Bytes(j)]
      BY <1>3, <2>2, AbstractKept
    <2> QED
      BY <2>3
  <1>5. CASE ~(got = 0 \/ o >= size[i])
    <2>n. PICK n : n = size[i]
      OBVIOUS
    <2>p. PICK a, b : a = o + 1 /\ b = IF o + got <= n THEN o + got ELSE n
      OBVIOUS
    <2>1. n \in Nat /\ a \in 1..n /\ b \in 1..n /\ o + got \in Nat
      BY <1>0, <1>1, <1>5, <2>n, <2>p
    <2>s. PICK s, t : s = BytesOf(n, addrs[i], ptr, data) /\ t = BytesOf(n, addrs'[i], ptr', data')
      OBVIOUS
    <2>2. s = Bytes(i) /\ DOMAIN s = 1..n
      BY <2>n, <2>s, BytesIs DEF BytesOf
    <2>3. t = Bytes(i)'
      BY <1>0, <1>1, <2>n, <2>s, BytesIs
    <2>4. ASSUME NEW y \in 1..n PROVE t[y] = IF y \in a..b THEN p ELSE s[y]
      <3>1. y - 1 \in Nat /\ y - 1 < size[i] /\ (y - 1 \in o..o + got - 1 <=> y \in a..b)
        BY <1>0, <1>5, <2>1, <2>n, <2>p
      <3>2. t[y] = ByteAt(addrs'[i], ptr', data', y - 1) /\ s[y] = ByteAt(addrs[i], ptr, data, y - 1)
        BY <2>s DEF BytesOf
      <3> QED
        BY <1>0, <1>2, <3>1, <3>2
    <2>5. t = [y \in DOMAIN s |-> IF y \in a..b THEN p ELSE s[y]]
      <3>1. t = [y \in 1..n |-> ByteAt(addrs'[i], ptr', data', y - 1)]
        BY <2>s DEF BytesOf
      <3> QED
        BY <2>2, <2>4, <3>1
    <2>c. PICK c : c = [j \in Inodes |-> Bytes(j)]
      OBVIOUS
    <2>d. PICK c2 : c2 = [j \in Inodes |-> Bytes(j)']
      OBVIOUS
    <2>6. c[i] = s /\ c2[i] = t /\ \A j \in Inodes : j # i => c2[j] = c[j]
      BY <1>0, <1>3, <2>2, <2>3, <2>c, <2>d
    <2>7. c2 = [c EXCEPT ![i] = [y \in DOMAIN c[i] |-> IF y \in a..b THEN p ELSE c[i][y]]]
      <3>1. c2 = [c EXCEPT ![i] = t]
        BY <1>0, <2>6, <2>c, <2>d
      <3> QED
        BY <2>5, <2>6, <3>1
    <2>8. Abstract!Replace(i, p, a, b)
      BY <2>7, <2>c, <2>d DEF Abstract!Replace
    <2>9. a \in DOMAIN [j \in Inodes |-> Bytes(j)][i] /\ b \in DOMAIN [j \in Inodes |-> Bytes(j)][i]
      BY <1>0, <2>1, <2>2
    <2>10. Abstract!Next
      BY <1>0, <2>8, <2>9, Zenon DEF Abstract!Next
    <2> QED
      BY <2>10
  <1> QED
    BY <1>4, <1>5

LEMMA Appended ==
    ASSUME NEW S, NEW s \in Seq(S), NEW w \in S, NEW n \in Nat, NEW u \in Seq(S),
           Len(u) = Len(s) + n,
           \A k \in 1..Len(s) + n : u[k] = IF k <= Len(s) THEN s[k] ELSE w
    PROVE  u = s \o [k \in 1..n |-> w]
  <1>p. PICK t : t = [k \in 1..n |-> w]
    OBVIOUS
  <1>0. t \in [1..n -> S]
    BY <1>p
  <1>1. t \in Seq(S) /\ Len(t) = n /\ \A k \in 1..n : t[k] = w
    <2>1. t \in Seq(S) /\ Len(t) = n
      <3>1. t \in Seq(S)
        BY <1>0
      <3> QED
        BY <1>0, <3>1
    <2> QED
      BY <1>p, <2>1
  <1>2. /\ s \o t \in Seq(S) /\ Len(s \o t) = Len(s) + n
        /\ \A k \in 1..Len(s) + n : (s \o t)[k] = IF k <= Len(s) THEN s[k] ELSE t[k - Len(s)]
    BY <1>1, ConcatProperties
  <1>3. ASSUME NEW k \in 1..Len(s) + n PROVE u[k] = (s \o t)[k]
    BY <1>1, <1>2
  <1>4. u = s \o t
    BY <1>2, <1>3, SeqEqual
  <1> QED
    BY <1>4, <1>p

LEMMA BytesSeq ==
    ASSUME NEW n \in Nat, NEW a, NEW q, NEW d, NEW S, NEW s, s = BytesOf(n, a, q, d),
           \A x \in Nat : x < n => ByteAt(a, q, d, x) \in S
    PROVE  s \in Seq(S) /\ Len(s) = n /\ \A k \in 1..n : s[k] = ByteAt(a, q, d, k - 1)
  <1>1. s = [k \in 1..n |-> ByteAt(a, q, d, k - 1)]
    BY DEF BytesOf
  <1>2. ASSUME NEW k \in 1..n PROVE ByteAt(a, q, d, k - 1) \in S
    <2>1. k - 1 \in Nat /\ k - 1 < n
      OBVIOUS
    <2> QED
      BY <2>1
  <1>3. s \in [1..n -> S]
    BY <1>1, <1>2
  <1>4. s \in Seq(S) /\ Len(s) = n
    BY <1>3
  <1> QED
    BY <1>1, <1>4

\* The end of writei() appends what it wrote beyond the end of the file.
LEMMA EndExtends ==
    ASSUME FileInv, ContentInv, NEW p \in Procs, WriteEnd(p)
    PROVE  [Abstract!Next]_[i \in Inodes |-> Bytes(i)]
  <1>i. TypeOK /\ FilesInv /\ SizesInv /\ Writing
    BY DEF FileInv, FilesInv
  <1>p. PICK i, x, t : i = Ip(p) /\ x = Off(p) /\ t = tot[p]
    OBVIOUS
  <1>0. /\ pc[p] \in InWritei /\ UNCHANGED <<addrs, ptr, data>>
        /\ size' = [size EXCEPT ![i] = Max({size[i], x + t})]
    BY <1>p DEF WriteEnd, At, InWritei
  <1>1. i \in Inodes /\ x \in Nat /\ t \in Nat /\ n1[p] \in Nat /\ MAXFILE * BSIZE \in Nat
    BY <1>i, <1>p, <1>0, InWriteiIs, InCall, MaxFileIs DEF TypeOK
  <1>n. PICK n, n2 : n = size[i] /\ n2 = Max({size[i], x + t})
    OBVIOUS
  <1>2. n \in Nat /\ n2 = (IF n >= x + t THEN n ELSE x + t) /\ n2 \in Nat
    <2>1. n \in Nat /\ x + t \in Nat
      BY <1>i, <1>1, <1>n DEF TypeOK
    <2>2. n2 = IF n >= x + t THEN n ELSE x + t
      BY <1>n, <2>1, MaxTwo
    <2> QED
      BY <2>1, <2>2
  <1>3. size'[i] = n2 /\ \A j \in Inodes : size[j] \in Nat /\ (j # i => size'[j] = size[j])
    BY <1>i, <1>0, <1>1, <1>n DEF TypeOK
  <1>4. ASSUME NEW j \in Inodes, j # i PROVE Bytes(j)' = Bytes(j)
    BY <1>0, <1>3, <1>4, SameBytes
  <1>5. CASE n >= x + t
    <2>1. Bytes(i)' = Bytes(i)
      BY <1>0, <1>1, <1>2, <1>3, <1>5, <1>n, SameBytes
    <2>2. UNCHANGED [j \in Inodes |-> Bytes(j)]
      BY <1>4, <2>1, AbstractKept
    <2> QED
      BY <2>2
  <1>6. CASE ~(n >= x + t)
    <2>p. PICK l : l = x + t - n
      OBVIOUS
    <2>1. /\ n2 = n + l /\ l \in Nat /\ l > 0 /\ n2 = x + t
          /\ n2 <= MAXFILE * BSIZE /\ x <= n
      <3>1. t <= n1[p] /\ x + n1[p] <= MAXFILE * BSIZE /\ x <= n
        BY <1>i, <1>0, <1>n, <1>p DEF Writing
      <3> QED
        BY <1>1, <1>2, <1>6, <2>p, <3>1
    <2>2. \A y \in x..x + t - 1 : ByteAt(addrs[i], ptr, data, y) = p
      BY <1>0, <1>p, ByteIs DEF ContentInv, Written
    <2>a. PICK a, q, d : a = addrs[i] /\ q = ptr /\ d = data
      OBVIOUS
    <2>s. PICK s, u : s = BytesOf(n, a, q, d) /\ u = BytesOf(n2, a, q, d)
      OBVIOUS
    <2>S. PICK S : S = {ByteAt(a, q, d, y) : y \in Nat} \union {p}
      OBVIOUS
    <2>3. \A y \in Nat : ByteAt(a, q, d, y) \in S
      BY <2>S
    <2>4. s \in Seq(S) /\ Len(s) = n /\ \A k \in 1..n : s[k] = ByteAt(a, q, d, k - 1)
      BY <1>2, <2>3, <2>s, BytesSeq
    <2>5. u \in Seq(S) /\ Len(u) = n2 /\ \A k \in 1..n2 : u[k] = ByteAt(a, q, d, k - 1)
      BY <1>2, <2>3, <2>s, BytesSeq
    <2>6. ASSUME NEW k \in 1..Len(s) + l PROVE u[k] = IF k <= Len(s) THEN s[k] ELSE p
      <3>1. k \in 1..n2 /\ u[k] = ByteAt(a, q, d, k - 1)
        BY <2>1, <2>4, <2>5
      <3>2. CASE k <= Len(s)
        <4>1. k \in 1..n
          BY <1>2, <2>4, <3>1, <3>2
        <4> QED
          BY <2>4, <3>1, <3>2, <4>1
      <3>3. CASE ~(k <= Len(s))
        <4>1. k - 1 \in x..x + t - 1
          BY <1>1, <1>2, <2>1, <2>4, <3>1, <3>3
        <4> QED
          BY <2>2, <2>a, <3>1, <3>3, <4>1
      <3> QED
        BY <3>2, <3>3
    <2>7. u = s \o [k \in 1..l |-> p]
      <3>1. p \in S
        BY <2>S
      <3> QED
        BY <2>1, <2>4, <2>5, <2>6, <3>1, Appended
    <2>8. Bytes(i) = s /\ Bytes(i)' = u
      BY <1>0, <1>3, <1>n, <2>a, <2>s, BytesIs
    <2>c. PICK c : c = [j \in Inodes |-> Bytes(j)]
      OBVIOUS
    <2>d. PICK c2 : c2 = [j \in Inodes |-> Bytes(j)']
      OBVIOUS
    <2>9. c[i] = s /\ c2[i] = u /\ \A j \in Inodes : j # i => c2[j] = c[j]
      BY <1>1, <1>4, <2>8, <2>c, <2>d
    <2>10. c2 = [c EXCEPT ![i] = c[i] \o [k \in 1..l |-> p]]
      <3>1. c2 = [c EXCEPT ![i] = u]
        BY <1>1, <2>9, <2>c, <2>d
      <3> QED
        BY <2>7, <2>9, <3>1
    <2>11. Abstract!Extend(i, p, l)
      BY <2>10, <2>c, <2>d DEF Abstract!Extend
    <2>12. l \in 1..MAXFILE * BSIZE - Len([j \in Inodes |-> Bytes(j)][i])
      <3>1. Len(c[i]) = n
        BY <2>4, <2>9
      <3>2. l \in 1..MAXFILE * BSIZE - n
        BY <1>1, <1>2, <2>1
      <3> QED
        BY <2>c, <3>1, <3>2
    <2>13. Abstract!Next
      BY <1>1, <2>11, <2>12, Zenon DEF Abstract!Next
    <2> QED
      BY <2>13
  <1> QED
    BY <1>5, <1>6

\* Each step writes one file's bytes as one process asked, or changes no file.
LEMMA StepRefines ==
    ASSUME FileInv, ContentInv, [Next]_vars
    PROVE  [Abstract!Next]_[i \in Inodes |-> Bytes(i)]
  <1>1. ASSUME NEW p \in Procs, NEW i \in Inodes, NEW mode \in Modes, Open(p, i, mode)
        PROVE  [Abstract!Next]_[j \in Inodes |-> Bytes(j)]
    <2>1. CASE mode.trunc
      <3>1. itrunc(p, i)
        BY <1>1, <2>1 DEF Open
      <3>2. Abstract!Empty(i)
        BY <3>1, TruncEmpties
      <3>3. Abstract!Next
        BY <3>2, Zenon DEF Abstract!Next
      <3> QED
        BY <3>3
    <2>2. CASE ~mode.trunc
      <3>1. UNCHANGED <<size, addrs, ptr, data>>
        BY <1>1, <2>2 DEF Open, blocks
      <3> QED
        BY <3>1, QuietBytes
    <2> QED
      BY <2>1, <2>2
  <1>2. CASE \E p \in Procs : \/ \E d \in FDs : Dup(p, d) \/ Close(p, d)
                              \/ PipeRead(p) \/ \E copied \in BOOLEAN : PipeWrite(p, copied)
                              \/ \E q \in Procs : Fork(p, q)
                              \/ Exit(p) \/ Exited(p)
                              \/ \E d \in FDs, n \in Counts, copied \in BOOLEAN : Read(p, d, n, copied)
                              \/ \E d \in FDs, n \in Counts : Write(p, d, n)
    <2>1. UNCHANGED <<size, addrs, ptr, data>>
      BY <1>2, QuietStep
    <2> QED
      BY <2>1, QuietBytes
  <1>3. CASE \E p \in Procs : WriteChunk(p) \/ WriteReturn(p)
    <2>1. UNCHANGED <<size, addrs, ptr, data>>
      BY <1>3 DEF WriteChunk, WriteReturn, blocks
    <2> QED
      BY <2>1, QuietBytes
  <1>4. CASE \E p \in Procs, got \in 0..BSIZE : WriteBlock(p, got)
    BY <1>4, PassReplaces
  <1>5. CASE \E p \in Procs : WriteEnd(p)
    BY <1>5, EndExtends
  <1>6. CASE UNCHANGED vars
    <2>1. UNCHANGED <<size, addrs, ptr, data>>
      BY <1>6 DEF vars, blocks
    <2> QED
      BY <2>1, QuietBytes
  <1> QED
    BY <1>1, <1>2, <1>3, <1>4, <1>5, <1>6, Zenon DEF Next

LEMMA InitRefines == ASSUME Init PROVE Abstract!Init
  <1>1. \A i \in Inodes : size[i] = 0
    BY DEF Init
  <1>2. \A i \in Inodes : Bytes(i) = <<>>
    BY <1>1 DEF Bytes
  <1> QED
    BY <1>2 DEF Abstract!Init

\* Through bmap()'s direct and indirect blocks, a file holds the bytes that the
\* calls of write() on it put there: writei() replaces or appends, only O_TRUNC
\* empties, and no byte of another file or of a freed block ever shows (fs.c,
\* filewrite() of file.c).
THEOREM FilesAreContents == Spec => FilesHoldWrites
  <1>1. Init => Abstract!Init
    BY InitRefines
  <1>2. FileInv /\ ContentInv /\ [Next]_vars => [Abstract!Next]_[i \in Inodes |-> Bytes(i)]
    BY StepRefines
  <1> QED
    BY <1>1, <1>2, ContentInvariant, PTL DEF Spec, FilesHoldWrites, Abstract!Spec
=============================================================================
