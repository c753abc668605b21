------------------------------ MODULE MCInode ------------------------------
(***************************************************************************)
(* Inode for TLC: the processes are interchangeable, and programs make the *)
(* calls that concern a directory or file /a, a file /a/b and a name b.    *)
(***************************************************************************)
EXTENDS Inode, TLC

One(c, q) == <<c, q, <<>>>>
A == <<"a">>
B == <<"b">>
AB == <<"/", "a", "b">>
Root == <<"/">>

\* Files that are made, linked and removed, and directories that are made, entered, filled and removed.
TreeCalls ==
    {One("create", A), One("create", B), One("create", AB), One("mkdir", A),
     One("chdir", A), One("open_write", A), One("unlink", A), One("unlink", B),
     One("unlink", AB), <<"link", A, B>>, <<"link", AB, B>>, <<"link", AB, Root>>}

ProcSymmetry == Permutations(Procs)

=============================================================================
