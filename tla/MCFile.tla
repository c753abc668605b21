------------------------------- MODULE MCFile -------------------------------
(***************************************************************************)
(* File for TLC: files are opened for reading and writing, or truncated    *)
(* for writing.                                                            *)
(***************************************************************************)
EXTENDS File

MCModes ==
    {[r |-> TRUE, w |-> TRUE, trunc |-> FALSE],
     [r |-> FALSE, w |-> TRUE, trunc |-> TRUE]}

=============================================================================
