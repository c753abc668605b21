------------------------------ MODULE MCShell ------------------------------
(***************************************************************************)
(* Shell for TLC: a program in the background, and then any line of at     *)
(* most three characters, of four that are not all of them, or one of some *)
(* longer ones.                                                            *)
(***************************************************************************)
EXTENDS Shell

Chars == {"a", " ", "<", ">", "|", "&", ";", "(", ")"}

Short == UNION {[1..n -> Chars] : n \in 0..3} \union [1..4 -> {"a", ">", "|", ";"}]

Long ==
    {<<"a", "|", "a", "|", "a">>,
     <<"(", "a", "|", "a", ")", "|", "a">>,
     <<"a", "|", "(", "a", ";", "a", ")">>,
     <<"(", "a", ";", "a", ")", "|", "a", ">", "a">>,
     <<"a", "|", "a", "&", ";", "a">>,
     <<"(", "a", "&", ")", "|", "a">>,
     <<"(", "a", "<", "a", ";", "a", ")", ">", ">", "a">>,
     <<"a", " ", "a", " ", "a">>,
     <<"c", "d", " ", "a">>}

MCScript ==
    <<{<<"a", "&", "\n">>}, {Append(l, "\n") : l \in Short \union Long}>>

=============================================================================
