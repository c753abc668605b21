-------------------------------- MODULE Ptv --------------------------------
(***************************************************************************)
(* The process-tree viewer user/ptv.c on top of the process table: ptv      *)
(* calls getprocs(procs, NPROC) once and prints the array it got back as a *)
(* tree, while the rest of the system goes on.  The printed lines are       *)
(* abstracted to the array indices in the order in which they are printed. *)
(***************************************************************************)
EXTENDS ProcTable, SequencesExt

\* A line that stands for a recursion of dfs() deeper than the array is long.
TooDeep == 0

\* Mutant: a child that is not looked at for children of its own.
dfs_OneLevel(procs) ==
    [q \in Int, depth \in Nat |->
        SetToSortSeq({k \in DOMAIN procs : procs[k].ppid = q}, <)]

\* dfs(parent_pid, depth, procs, n, &count): the lines it prints.
dfs(procs) ==
    LET lines[q \in Int, depth \in Nat] ==
            IF depth > Len(procs) THEN <<TooDeep>>
            ELSE FlattenSeq([k \in DOMAIN procs |->
                    IF procs[k].ppid = q
                    THEN <<k>> \o lines[procs[k].pid, depth + 1]
                    ELSE <<>>])
    IN  lines

\* main() on the result of getprocs(): the first entry with pid 1 is the root,
\* and total_count counts the root and every line of dfs().  Without such an
\* entry ptv prints an error and nothing else.
main(procs) ==
    LET roots == {k \in DOMAIN procs : procs[k].pid = 1}
    IN  IF roots = {} THEN [lines |-> <<>>, total |-> 0]
        ELSE LET tree == dfs(procs)[1, 1]
             IN [lines |-> <<Min(roots)>> \o tree, total |-> 1 + Len(tree)]

----------------------------------------------------------------------------
\* The processes that ptv ought to show: everything getprocs() listed except a
\* child whose fork() has not set np->parent yet.
Linked(procs) == {k \in DOMAIN procs : procs[k].ppid # -1 \/ procs[k].pid = 1}

\* ptv's output on every array getprocs() can return: its recursion ends, each
\* linked process is printed exactly once, and "Total" is their number, even
\* though the array was collected while processes forked, exited and changed
\* parents.
PtvShowsTree ==
    SnapshotComplete =>
        LET out == main(snap)
        IN  /\ Range(out.lines) = Linked(snap)
            /\ out.total = Cardinality(Linked(snap))
            /\ Len(out.lines) = out.total

=============================================================================
