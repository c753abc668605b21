------------------------------ MODULE ShParse ------------------------------
(***************************************************************************)
(* The shell's parser (user/sh.c): a recursive descent over the characters *)
(* of a line, and the grammar that it implements.                          *)
(*                                                                         *)
(* A buffer b is a function: b[1] to b[es - 1] are the line and b[es] is   *)
(* the NUL after it.  An operator of the parser takes an index s, the *ps  *)
(* of the code, and returns the one that follows what it has read.  After  *)
(* a panic() that index is 0; b[0] is NUL too, so that every loop ends and *)
(* parsecmd() finds that it is not at es.                                  *)
(*                                                                         *)
(* A word is the pair of indices that the code keeps: q, its first letter, *)
(* and eq, the character after its last.                                   *)
(***************************************************************************)
EXTENDS Integers, Sequences, FiniteSets, FiniteSetsExt, SequencesExt

CONSTANT MAXARGS   \* the length of argv, with its 0

ASSUME ShParseAssumption == MAXARGS \in Nat \ {0}

NUL == "0"
Whitespace == {" ", "\n"}
Symbols == {"<", "|", ">", "&", ";", "(", ")"}

\* The buffer that holds a line.
Buffer(line) ==
    [k \in 0..Len(line) + 1 |-> IF k \in DOMAIN line THEN line[k] ELSE NUL]
End(b) == Cardinality(DOMAIN b) - 1

execcmd(argv) == [type |-> "EXEC", argv |-> argv]
redircmd(cmd, r) == [type |-> "REDIR", cmd |-> cmd, file |-> r.file, mode |-> r.mode, fd |-> r.fd]
pipecmd(l, r) == [type |-> "PIPE", left |-> l, right |-> r]
listcmd(l, r) == [type |-> "LIST", left |-> l, right |-> r]
backcmd(cmd) == [type |-> "BACK", cmd |-> cmd]

\* What "<", ">" and ">>" (gettoken() returns "+") mean, with their file.
Redirection(tok, file) ==
    [file |-> file, mode |-> tok, fd |-> IF tok = "<" THEN 0 ELSE 1]

\* cmd inside redirections rs, the first innermost.
Redirected(cmd, rs) == FoldLeft(redircmd, cmd, rs)

----------------------------------------------------------------------------
(* The parser *)

Skip(b, s) == Min({k \in s..End(b) : b[k] \notin Whitespace})

peek(b, s, toks) == b[Skip(b, s)] \in toks

gettoken(b, s) ==
    LET word(q) == b[q] \notin Symbols \union {NUL}
        append(q) == b[q] = ">" /\ b[q + 1] = ">"
        end(q) == IF word(q)
                  THEN Min({k \in q..End(b) : b[k] \in Whitespace \union Symbols \union {NUL}})
                  ELSE IF append(q) THEN q + 2
                  ELSE IF b[q] = NUL THEN q ELSE q + 1
        token(q, eq) == [tok |-> IF word(q) THEN "a" ELSE IF append(q) THEN "+" ELSE b[q],
                         word |-> <<q, eq>>,
                         s |-> Skip(b, eq)]
        at(q) == token(q, end(q))
    IN  at(Skip(b, s))

RECURSIVE parseredirs(_, _, _)
RECURSIVE parseline(_, _)
RECURSIVE parsepipe(_, _)
RECURSIVE parseargs(_, _, _, _)
RECURSIVE parsebacks(_, _, _)

\* The redirections at s, after those in rs.
parseredirs(rs, b, s) ==
    LET named(t, f) ==
            IF f.tok # "a" THEN [rs |-> rs, s |-> 0]
            ELSE parseredirs(Append(rs, Redirection(t.tok, f.word)), b, f.s)
        redir(t) == named(t, gettoken(b, t.s))
    IN  IF peek(b, s, {"<", ">"}) THEN redir(gettoken(b, s)) ELSE [rs |-> rs, s |-> s]

\* "(" a line ")" redirections.
parseblock(b, s) ==
    LET redirected(l, r) == [cmd |-> Redirected(l.cmd, r.rs), s |-> r.s]
        closed(l) ==
            IF peek(b, l.s, {")"})
            THEN redirected(l, parseredirs(<<>>, b, gettoken(b, l.s).s))
            ELSE [cmd |-> l.cmd, s |-> 0]
    IN  closed(parseline(b, gettoken(b, s).s))

\* The loop of parseexec(): the words and redirections at s, after argv and rs.
parseargs(argv, rs, b, s) ==
    LET done == [cmd |-> Redirected(execcmd(argv), rs), s |-> s]
        more(t, r) == parseargs(Append(argv, t.word), r.rs, b, r.s)
        arg(t) ==
            IF t.tok = NUL THEN done
            ELSE IF t.tok # "a" \/ Len(argv) + 1 >= MAXARGS THEN [done EXCEPT !.s = 0]
            ELSE more(t, parseredirs(rs, b, t.s))
    IN  IF peek(b, s, {"|", ")", "&", ";"}) THEN done ELSE arg(gettoken(b, s))

parseexec(b, s) ==
    LET args(r) == parseargs(<<>>, r.rs, b, r.s)
    IN  IF peek(b, s, {"("}) THEN parseblock(b, s) ELSE args(parseredirs(<<>>, b, s))

\* Mutant: a pipe's right side takes the rest of the line.
parsepipe_ToTheEnd(b, s) ==
    LET joined(l, r) == [cmd |-> pipecmd(l.cmd, r.cmd), s |-> r.s]
        rest(l) == IF peek(b, l.s, {"|"}) THEN joined(l, parseline(b, gettoken(b, l.s).s)) ELSE l
    IN  rest(parseexec(b, s))

parsepipe(b, s) ==
    LET joined(l, r) == [cmd |-> pipecmd(l.cmd, r.cmd), s |-> r.s]
        rest(l) == IF peek(b, l.s, {"|"}) THEN joined(l, parsepipe(b, gettoken(b, l.s).s)) ELSE l
    IN  rest(parseexec(b, s))

parsebacks(cmd, b, s) ==
    IF peek(b, s, {"&"}) THEN parsebacks(backcmd(cmd), b, gettoken(b, s).s)
    ELSE [cmd |-> cmd, s |-> s]

parseline(b, s) ==
    LET joined(l, r) == [cmd |-> listcmd(l.cmd, r.cmd), s |-> r.s]
        rest(l) == IF peek(b, l.s, {";"}) THEN joined(l, parseline(b, gettoken(b, l.s).s)) ELSE l
        backs(p) == rest(parsebacks(p.cmd, b, p.s))
    IN  backs(parsepipe(b, s))

\* The words of a command.
RECURSIVE Words(_)
Words(cmd) ==
    CASE cmd.type = "EXEC" -> Range(cmd.argv)
      [] cmd.type = "REDIR" -> {cmd.file} \union Words(cmd.cmd)
      [] cmd.type = "BACK" -> Words(cmd.cmd)
      [] OTHER -> Words(cmd.left) \union Words(cmd.right)

\* nulterminate(): the buffer, with a NUL after every word.
nulterminate(cmd, b) ==
    [k \in DOMAIN b |-> IF \E w \in Words(cmd) : w[2] = k THEN NUL ELSE b[k]]

\* parsecmd(): the command and the buffer, or a panic.
parsecmd(b, s) ==
    LET whole(l) ==
            IF Skip(b, l.s) # End(b) THEN [ok |-> FALSE]
            ELSE [ok |-> TRUE, cmd |-> l.cmd, buf |-> nulterminate(l.cmd, b)]
    IN  whole(parseline(b, s))

\* The word that a C string at q of b is.
Str(b, q) == <<q, Min({k \in q..End(b) : b[k] = NUL})>>

----------------------------------------------------------------------------
(* The grammar, for the characters i..j - 1 of b: the set of commands that *)
(* they may be read as.                                                    *)

Letters(b, i, j) == {k \in i..j - 1 : b[k] \notin Whitespace \union Symbols}
Blank(b, i, j) == \A k \in i..j - 1 : b[k] \in Whitespace

\* The maximal runs of letters, and the non-blank character before one.
WordsIn(b, i, j) ==
    {<<q, e>> \in (i..j) \X (i..j) :
        /\ q < e /\ q..e - 1 \subseteq Letters(b, i, j)
        /\ {q - 1, e} \intersect Letters(b, i, j) = {}}
Before(b, i, k) == Max({i - 1} \union {x \in i..k - 1 : b[x] \notin Whitespace})

\* Words in any order with redirections, each of which has a word after it:
\* the arguments and the redirections, if that is what the characters are.
Parts(b, i, j) ==
    LET sorted(ws) == SetToSortSeq(ws, LAMBDA v, w : v[1] < w[1])
        pre(w) == Before(b, i, w[1])
        op(w) == IF pre(w) < i THEN NUL
                 ELSE IF b[pre(w)] = ">" /\ pre(w) > i /\ b[pre(w) - 1] = ">" THEN "+"
                 ELSE b[pre(w)]
        files == {w \in WordsIn(b, i, j) : op(w) \in {"<", ">", "+"}}
        argv == sorted(WordsIn(b, i, j) \ files)
        redirs == [n \in 1..Cardinality(files) |->
                       [file |-> sorted(files)[n], op |-> op(sorted(files)[n])]]
        angles == {k \in i..j - 1 : b[k] \in {"<", ">"}}
        taken == UNION {IF op(w) = "+" THEN {pre(w) - 1, pre(w)} ELSE {pre(w)} : w \in files}
    IN  {x \in {[argv |-> argv, redirs |-> redirs]} :
            /\ \A k \in i..j - 1 : b[k] \notin {"|", "&", ";", "(", ")"}
            /\ angles = taken
            /\ Len(argv) < MAXARGS}

\* A command with its redirections, the last of which is applied first: "<" is for
\* the standard input, ">" and ">>" are for the standard output.
RECURSIVE Under(_, _)
Under(redirs, cmd) ==
    IF redirs = <<>> THEN cmd
    ELSE [type |-> "REDIR", cmd |-> Under(Front(redirs), cmd),
          file |-> Last(redirs).file, mode |-> Last(redirs).op,
          fd |-> CASE Last(redirs).op = "<" -> 0 [] Last(redirs).op \in {">", "+"} -> 1]

Simple(b, i, j) == {Under(x.redirs, execcmd(x.argv)) : x \in Parts(b, i, j)}

RECURSIVE Line(_, _, _)
RECURSIVE Jobs(_, _, _)
RECURSIVE Pipeline(_, _, _)

\* The places of a character.
Places(b, i, j, c) == {k \in i..j - 1 : b[k] = c}

\* A line in parentheses, with the redirections that follow it.
Block(b, i, j) ==
    UNION {{Under(x.redirs, l) :
               l \in Line(b, p[1] + 1, p[2]), x \in {y \in Parts(b, p[2] + 1, j) : y.argv = <<>>}}
           : p \in {p \in Places(b, i, j, "(") \X Places(b, i, j, ")") : p[1] < p[2] /\ Blank(b, i, p[1])}}

Pipeline(b, i, j) ==
    Simple(b, i, j) \union Block(b, i, j) \union
    UNION {{pipecmd(l, r) : l \in Simple(b, i, k) \union Block(b, i, k),
                            r \in Pipeline(b, k + 1, j)} : k \in Places(b, i, j, "|")}

Jobs(b, i, j) ==
    Pipeline(b, i, j) \union
    UNION {{backcmd(c) : c \in Jobs(b, i, k)} : k \in {k \in Places(b, i, j, "&") : Blank(b, k + 1, j)}}

Line(b, i, j) ==
    Jobs(b, i, j) \union
    UNION {{listcmd(l, r) : l \in Jobs(b, i, k), r \in Line(b, k + 1, j)} : k \in Places(b, i, j, ";")}

=============================================================================
