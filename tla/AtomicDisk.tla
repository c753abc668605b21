----------------------------- MODULE AtomicDisk -----------------------------
(***************************************************************************)
(* What kernel/log.c promises the file system: operations bracketed by     *)
(* begin_op() and end_op() are atomic with respect to crashes.             *)
(***************************************************************************)
CONSTANTS Procs, Blocks, Values

VARIABLES
    cur,     \* the contents of the file system's blocks, as bread() returns them
    stable,  \* the contents that recovery restores after a crash
    open     \* the processes inside an operation

absvars == <<cur, stable, open>>

AbsTypeOK ==
    /\ cur \in [Blocks -> Values]
    /\ stable \in [Blocks -> Values]
    /\ open \subseteq Procs

AbsInit ==
    /\ stable \in [Blocks -> Values]
    /\ cur = stable
    /\ open = {}

Begin(p) ==
    /\ p \notin open
    /\ open' = open \union {p}
    /\ UNCHANGED <<cur, stable>>

Write(p, b, v) ==
    /\ p \in open
    /\ cur' = [cur EXCEPT ![b] = v]
    /\ UNCHANGED <<stable, open>>

End(p) ==
    /\ p \in open
    /\ open' = open \ {p}
    /\ UNCHANGED <<cur, stable>>

\* The contents become permanent only between operations, all at once.
Commit ==
    /\ open = {}
    /\ stable' = cur
    /\ UNCHANGED <<cur, open>>

\* A crash undoes everything since the last commit, and nothing else.
CrashAndRecover ==
    /\ cur' = stable
    /\ open' = {}
    /\ UNCHANGED stable

AbsNext ==
    \/ \E p \in Procs :
        \/ Begin(p) \/ End(p)
        \/ \E b \in Blocks, v \in Values : Write(p, b, v)
    \/ Commit
    \/ CrashAndRecover

AbsSpec == AbsInit /\ [][AbsNext]_absvars

=============================================================================
