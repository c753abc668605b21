---------------------------- MODULE FileContent ----------------------------
(***************************************************************************)
(* What the file system promises about the contents of files: a file is a  *)
(* sequence of bytes that write() replaces in place or extends at its end, *)
(* with bytes of one writer, and that only O_TRUNC empties.  No other byte *)
(* ever appears in it: not of another file, not of a file that is gone.    *)
(***************************************************************************)
EXTENDS Integers, Sequences

CONSTANTS
    Inodes,    \* the files
    Writers,   \* a byte is the name of the process that wrote it
    MaxSize    \* bytes of the longest file

VARIABLE content

Init == content = [i \in Inodes |-> <<>>]

\* Bytes a to b of i are written by w.
Replace(i, w, a, b) ==
    content' = [content EXCEPT ![i] =
                   [k \in DOMAIN @ |-> IF k \in a..b THEN w ELSE @[k]]]

\* w appends n bytes to i.
Extend(i, w, n) ==
    content' = [content EXCEPT ![i] = @ \o [k \in 1..n |-> w]]

Empty(i) == content' = [content EXCEPT ![i] = <<>>]

Next ==
    \E i \in Inodes :
        \/ Empty(i)
        \/ \E w \in Writers :
            \/ \E a, b \in DOMAIN content[i] : Replace(i, w, a, b)
            \/ \E n \in 1..MaxSize - Len(content[i]) : Extend(i, w, n)

Spec == Init /\ [][Next]_content

=============================================================================
