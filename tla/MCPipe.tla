------------------------------- MODULE MCPipe -------------------------------
(***************************************************************************)
(* Pipe for TLC: the processes are interchangeable.                        *)
(***************************************************************************)
EXTENDS Pipe, TLC

ProcSymmetry == Permutations(PipeProcs)

=============================================================================
