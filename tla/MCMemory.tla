------------------------------ MODULE MCMemory ------------------------------
(***************************************************************************)
(* Memory for TLC: programs with one segment, with a second one that       *)
(* starts in the middle of the address space, and with none.               *)
(***************************************************************************)
EXTENDS Memory

Segs(v, m, f, w) == [vaddr |-> v, memsz |-> m, filesz |-> f, w |-> w]

MCPrograms ==
    {<<>>,
     <<Segs(0, 1, 1, 0)>>,
     <<Segs(0, 2, 1, 0), Segs(2, 1, 1, 1)>>}

MCSbrks == {-3, 3}

=============================================================================
