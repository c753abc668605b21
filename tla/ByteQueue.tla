----------------------------- MODULE ByteQueue -----------------------------
(***************************************************************************)
(* What a pipe promises its readers and writers: a bounded first-in        *)
(* first-out queue of bytes.                                               *)
(***************************************************************************)
EXTENDS Naturals, Sequences

CONSTANTS
    Bytes,
    Capacity

VARIABLES
    queue,  \* the bytes written and not yet read
    last    \* the byte that the most recent read of one delivered

QueueInit == queue = <<>> /\ last \in Bytes

Put(b) ==
    /\ Len(queue) < Capacity
    /\ queue' = Append(queue, b)
    /\ UNCHANGED last

Take ==
    /\ queue # <<>>
    /\ last' = Head(queue)
    /\ queue' = Tail(queue)

QueueNext == Take \/ \E b \in Bytes : Put(b)

QueueSpec == QueueInit /\ [][QueueNext]_<<queue, last>>

=============================================================================
