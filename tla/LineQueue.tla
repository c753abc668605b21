----------------------------- MODULE LineQueue -----------------------------
(***************************************************************************)
(* What the console promises to the programs that read it: characters are  *)
(* delivered in the order they were typed, exactly once, and only after    *)
(* the line they belong to is over; what has been erased is never          *)
(* delivered; and a line that was delivered cannot be edited any more.     *)
(***************************************************************************)
EXTENDS Integers, Sequences

CONSTANTS
    Chars,     \* what can be stored
    Enders,    \* the characters that end a line
    Capacity   \* characters stored, of ended lines and of the edited one

VARIABLES
    ready,     \* the characters of ended lines not delivered yet
    line       \* the line being edited

Init == ready = <<>> /\ line = <<>>

Stored == Len(ready) + Len(line)

Type(c) ==
    LET typed == Append(line, c)
        over == c \in Enders \/ Stored + 1 = Capacity
    IN  /\ Stored < Capacity
        /\ ready' = IF over THEN ready \o typed ELSE ready
        /\ line' = IF over THEN <<>> ELSE typed

Erase ==
    /\ line # <<>>
    /\ line' = SubSeq(line, 1, Len(line) - 1)
    /\ UNCHANGED ready

KillLine == line' = <<>> /\ UNCHANGED ready

Deliver ==
    /\ ready # <<>>
    /\ ready' = Tail(ready)
    /\ UNCHANGED line

Next == (\E c \in Chars : Type(c)) \/ Erase \/ KillLine \/ Deliver

Spec == Init /\ [][Next]_<<ready, line>>

=============================================================================
