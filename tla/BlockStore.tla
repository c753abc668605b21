---------------------------- MODULE BlockStore ----------------------------
(***************************************************************************)
(* What the buffer cache promises its callers: one copy of every block,     *)
(* which a process may use between bread() and brelse() and nobody else     *)
(* meanwhile.                                                              *)
(***************************************************************************)
CONSTANTS Procs, NoProc, Blocks, Values

VARIABLES
    contents,  \* the contents of the blocks
    owner      \* the process between bread() and brelse() of the block

StoreInit ==
    /\ contents \in [Blocks -> Values]
    /\ owner = [k \in Blocks |-> NoProc]

Get(p, k) ==
    /\ owner[k] = NoProc
    /\ owner' = [owner EXCEPT ![k] = p]
    /\ UNCHANGED contents

Put(p, k) ==
    /\ owner[k] = p
    /\ owner' = [owner EXCEPT ![k] = NoProc]
    /\ UNCHANGED contents

Change(p, k, v) ==
    /\ owner[k] = p
    /\ contents' = [contents EXCEPT ![k] = v]
    /\ UNCHANGED owner

StoreNext ==
    \E p \in Procs, k \in Blocks :
        Get(p, k) \/ Put(p, k) \/ \E v \in Values : Change(p, k, v)

StoreSpec == StoreInit /\ [][StoreNext]_<<contents, owner>>

=============================================================================
