---------------------------- MODULE BlockDevice ----------------------------
(***************************************************************************)
(* What the disk driver promises the buffer cache: virtio_disk_rw() moves  *)
(* the whole block once, at one moment between its call and its return.    *)
(***************************************************************************)
CONSTANTS Procs, Blocks, NoBlock, Values

VARIABLES
    sectors,  \* the contents of the disk
    blk,      \* the block that p's call is about, NoBlock outside a call
    wr,       \* is it a write? (0 outside a call)
    data,     \* the contents of p's buffer, NoBlock if p has none
    moved     \* the processes whose block has been transferred

DeviceInit ==
    /\ sectors \in [Blocks -> Values]
    /\ blk = [p \in Procs |-> NoBlock]
    /\ wr = [p \in Procs |-> 0]
    /\ data = [p \in Procs |-> NoBlock]
    /\ moved = {}

Request(p) ==
    /\ blk[p] = NoBlock
    /\ \E k \in Blocks, w \in {0, 1} :
        /\ blk' = [blk EXCEPT ![p] = k]
        /\ wr' = [wr EXCEPT ![p] = w]
        /\ \E v \in IF w = 1 THEN Values ELSE {NoBlock} :
            data' = [data EXCEPT ![p] = v]
    /\ UNCHANGED <<sectors, moved>>

Move(p) ==
    /\ blk[p] # NoBlock /\ p \notin moved
    /\ IF wr[p] = 1
       THEN sectors' = [sectors EXCEPT ![blk[p]] = data[p]] /\ UNCHANGED data
       ELSE data' = [data EXCEPT ![p] = sectors[blk[p]]] /\ UNCHANGED sectors
    /\ moved' = moved \union {p}
    /\ UNCHANGED <<blk, wr>>

Return(p) ==
    /\ p \in moved
    /\ moved' = moved \ {p}
    /\ blk' = [blk EXCEPT ![p] = NoBlock]
    /\ wr' = [wr EXCEPT ![p] = 0]
    /\ data' = [data EXCEPT ![p] = NoBlock]
    /\ UNCHANGED sectors

DeviceNext == \E p \in Procs : Request(p) \/ Move(p) \/ Return(p)

DeviceSpec == DeviceInit /\ [][DeviceNext]_<<sectors, blk, wr, data, moved>>

=============================================================================
