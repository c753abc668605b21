------------------------------ MODULE MCVirtio ------------------------------
EXTENDS Virtio, TLC

\* Processes, blocks and contents are interchangeable: the code never orders
\* or names them.
Interchangeable ==
    Permutations(Procs) \union Permutations(Blocks) \union Permutations(Values)

=============================================================================
