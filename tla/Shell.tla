------------------------------- MODULE Shell -------------------------------
(***************************************************************************)
(* The shell (user/sh.c) running what it has parsed (module ShParse): its  *)
(* main loop, and runcmd() in the processes that it forks.                 *)
(*                                                                         *)
(* Grain of atomicity.  A process runs from one fork() or wait() to the    *)
(* next in one step: in between it changes only its own descriptors, and   *)
(* the children of a pipe set theirs up in a step of their own.            *)
(*                                                                         *)
(* The kernel and the programs are external: a descriptor names what it is *)
(* open on; a fork(), pipe(), open() or exec() may fail; orphans are       *)
(* init's, which reaps them; a program reads its input to the end and      *)
(* writes its output, or stops early.                                      *)
(***************************************************************************)
EXTENDS ShParse

CONSTANTS
    NPROC,    \* processes
    NOFILE,   \* descriptors of a process
    Script    \* bound: the lines that may be typed first, second...

ASSUME ShellAssumption ==
    /\ NPROC \in Nat /\ NPROC >= 2
    /\ NOFILE \in Nat /\ NOFILE >= 5

VARIABLES
    proc,    \* the processes
    typed    \* the number of lines read

vars == <<proc, typed>>

Procs == 1..NPROC
FDs == 0..NOFILE - 1
Sh == 1      \* the shell that reads the lines
Orphan == 0  \* the parent is init
Console == <<"console">>
Closed == <<"closed">>
NoCmd == execcmd(<<>>)

Free == [pc |-> "free", parent |-> Orphan, fd |-> [d \in FDs |-> Closed],
         buf |-> Buffer(<<>>), cmd |-> NoCmd, line |-> NoCmd]

Stdio == [d \in FDs |-> IF d \in 0..2 THEN Console ELSE Closed]

\* init has opened the console on 0, 1 and 2, so that the loop at the start of
\* main() opens it on 3 and closes that.
Init ==
    /\ proc = [p \in Procs |->
                  IF p = Sh THEN [Free EXCEPT !.pc = "prompt", !.fd = Stdio] ELSE Free]
    /\ typed = 0

At(p, l) == proc[p].pc = l

----------------------------------------------------------------------------
(* System calls *)

Slots == {p \in Procs : proc[p].pc = "free"}
Children(p) == {q \in Procs : proc[q].parent = p}
Lowest(fd) == Min({d \in FDs : fd[d] = Closed})
close(fd, d) == [fd EXCEPT ![d] = Closed]
dup(fd, d) == [fd EXCEPT ![Lowest(fd)] = fd[d]]

\* p exits: its children are init's, and a zombie that is init's is gone.
Exit(p) ==
    proc' = [q \in Procs |->
        IF q = p THEN (IF proc[p].parent = Orphan THEN Free
                       ELSE [Free EXCEPT !.pc = "zombie", !.parent = proc[p].parent])
        ELSE IF q \notin Children(p) THEN proc[q]
        ELSE IF At(q, "zombie") THEN Free
        ELSE [proc[q] EXCEPT !.parent = Orphan]]

\* fork1(): the parent becomes me, and the child, me with another pc and
\* command; or it fails, and p exits.
fork1(p, me, pc, cmd) ==
    \/ /\ Slots # {}
       /\ proc' = [proc EXCEPT ![p] = me,
                               ![Min(Slots)] = [me EXCEPT !.parent = p, !.pc = pc, !.cmd = cmd]]
    \/ Exit(p)

\* wait(0), when p's child q has exited; p becomes me.
wait(p, q, me) ==
    /\ q \in Children(p) /\ At(q, "zombie")
    /\ proc' = [proc EXCEPT ![p] = me, ![q] = Free]

----------------------------------------------------------------------------
(* main() *)

\* getcmd(): a blank line and "cd", a chdir() in the shell itself, are
\* followed by the next prompt.
Getcmd(line) ==
    LET b == Buffer(line)
        s == Min({k \in 1..End(b) : b[k] # " "})
        blank == b[s] = "\n"
        cd == b[s] = "c" /\ b[s + 1] = "d" /\ b[s + 2] = " "
    IN  /\ At(Sh, "prompt") /\ typed < Len(Script)
        /\ typed' = typed + 1
        /\ proc' = IF blank \/ cd THEN proc
                   ELSE [proc EXCEPT ![Sh].pc = "main", ![Sh].buf = b]

GetcmdEof ==
    /\ At(Sh, "prompt")
    /\ Exit(Sh)
    /\ UNCHANGED typed

Main ==
    /\ At(Sh, "main")
    /\ fork1(Sh, [proc[Sh] EXCEPT !.pc = "mainwait"], "parse", NoCmd)
    /\ UNCHANGED typed

MainWait(q) ==
    /\ At(Sh, "mainwait")
    /\ wait(Sh, q, [proc[Sh] EXCEPT !.pc = "prompt", !.buf = Buffer(<<>>)])
    /\ UNCHANGED typed

\* What parsecmd() makes of the lines, after the blanks that main() skips.
Parsed ==
    [b \in {Buffer(l) : l \in UNION Range(Script)} |->
        parsecmd(b, Min({k \in 1..End(b) : b[k] # " "}))]

Parse(p) ==
    LET r == Parsed[proc[p].buf]
    IN  /\ At(p, "parse")
        /\ IF r.ok THEN proc' = [proc EXCEPT ![p].pc = "runcmd", ![p].cmd = r.cmd,
                                             ![p].line = r.cmd, ![p].buf = r.buf]
           ELSE Exit(p)
        /\ UNCHANGED typed

----------------------------------------------------------------------------
(* runcmd() *)

Runcmd(p, type) == At(p, "runcmd") /\ proc[p].cmd.type = type

Exec(p, found) ==
    /\ Runcmd(p, "EXEC")
    /\ IF proc[p].cmd.argv = <<>> \/ ~found THEN Exit(p)
       ELSE proc' = [proc EXCEPT ![p].pc = "program"]
    /\ UNCHANGED typed

\* Mutant: the file is opened before the descriptor is closed.
Redir_OpenFirst(p, opened) ==
    LET c == proc[p].cmd
        fd == proc[p].fd
        f == <<"file", Str(proc[p].buf, c.file[1]), c.mode>>
    IN  /\ Runcmd(p, "REDIR")
        /\ IF opened THEN proc' = [proc EXCEPT ![p].cmd = c.cmd,
                                     ![p].fd = close([fd EXCEPT ![Lowest(fd)] = f], c.fd)]
           ELSE Exit(p)
        /\ UNCHANGED typed

Redir(p, opened) ==
    LET c == proc[p].cmd
        fd == close(proc[p].fd, c.fd)
        f == <<"file", Str(proc[p].buf, c.file[1]), c.mode>>
    IN  /\ Runcmd(p, "REDIR")
        /\ IF opened THEN proc' = [proc EXCEPT ![p].cmd = c.cmd,
                                            ![p].fd = [fd EXCEPT ![Lowest(fd)] = f]]
           ELSE Exit(p)
        /\ UNCHANGED typed

List(p) ==
    /\ Runcmd(p, "LIST")
    /\ fork1(p, [proc[p] EXCEPT !.pc = "listwait"], "runcmd", proc[p].cmd.left)
    /\ UNCHANGED typed

\* Mutant: the right side does not wait for the left one.
ListWait_Not(p, q) ==
    /\ At(p, "listwait") /\ q \in Children(p)
    /\ proc' = [proc EXCEPT ![p].pc = "runcmd", ![p].cmd = @.right]
    /\ UNCHANGED typed

ListWait(p, q) ==
    /\ At(p, "listwait")
    /\ wait(p, q, [proc[p] EXCEPT !.pc = "runcmd", !.cmd = @.right])
    /\ UNCHANGED typed

\* pipe(): its ends are named after the command that they are for.
Pipe(p, made) ==
    LET c == proc[p].cmd
        p0 == Lowest(proc[p].fd)
        fd == [proc[p].fd EXCEPT ![p0] = <<"read", c>>]
        me == [proc[p] EXCEPT !.pc = "pipe", !.fd = [fd EXCEPT ![Lowest(fd)] = <<"write", c>>]]
    IN  /\ Runcmd(p, "PIPE")
        /\ IF made THEN fork1(p, me, "left", c) ELSE Exit(p)
        /\ UNCHANGED typed

\* The descriptors of the pipe for p's command.
End0(p) == CHOOSE d \in FDs : d > 2 /\ proc[p].fd[d] = <<"read", proc[p].cmd>>
End1(p) == CHOOSE d \in FDs : d > 2 /\ proc[p].fd[d] = <<"write", proc[p].cmd>>

PipeLeft(p) ==
    LET fd == dup(close(proc[p].fd, 1), End1(p))
    IN  /\ At(p, "left")
        /\ proc' = [proc EXCEPT ![p].pc = "runcmd", ![p].cmd = @.left,
                                ![p].fd = close(close(fd, End0(p)), End1(p))]
        /\ UNCHANGED typed

PipeFork(p) ==
    /\ At(p, "pipe")
    /\ fork1(p, [proc[p] EXCEPT !.pc = "pipeclose"], "right", proc[p].cmd)
    /\ UNCHANGED typed

PipeRight(p) ==
    LET fd == dup(close(proc[p].fd, 0), End0(p))
    IN  /\ At(p, "right")
        /\ proc' = [proc EXCEPT ![p].pc = "runcmd", ![p].cmd = @.right,
                                ![p].fd = close(close(fd, End0(p)), End1(p))]
        /\ UNCHANGED typed

\* Mutant: the process that waits for both sides keeps the write end.
PipeClose_KeepsEnd(p) ==
    /\ At(p, "pipeclose")
    /\ proc' = [proc EXCEPT ![p].pc = "pipewait", ![p].fd = close(@, End0(p))]
    /\ UNCHANGED typed

PipeClose(p) ==
    /\ At(p, "pipeclose")
    /\ proc' = [proc EXCEPT ![p].pc = "pipewait",
                            ![p].fd = close(close(@, End0(p)), End1(p))]
    /\ UNCHANGED typed

PipeWait(p, q) ==
    /\ At(p, "pipewait")
    /\ wait(p, q, [proc[p] EXCEPT !.pc = "pipewait2"])
    /\ UNCHANGED typed

PipeWait2(p, q) ==
    /\ At(p, "pipewait2")
    /\ wait(p, q, [proc[p] EXCEPT !.pc = "exit"])
    /\ UNCHANGED typed

Back(p) ==
    /\ Runcmd(p, "BACK")
    /\ fork1(p, [proc[p] EXCEPT !.pc = "exit"], "runcmd", proc[p].cmd.cmd)
    /\ UNCHANGED typed

RuncmdExit(p) ==
    /\ At(p, "exit")
    /\ Exit(p)
    /\ UNCHANGED typed

----------------------------------------------------------------------------
(* Programs *)

Holders(end) == {p \in Procs : end \in Range(proc[p].fd)}

\* A program ends when its input has ended, which a pipe's has when nobody can
\* write to it, and its output has been taken, which a pipe's has when it is
\* read by a program, or when nobody can read it.
ProgramEnds(p) ==
    LET in == proc[p].fd[0]
        out == proc[p].fd[1]
    IN  /\ At(p, "program")
        /\ in[1] = "read" => Holders(<<"write", in[2]>>) = {}
        /\ out[1] = "write" =>
               \/ Holders(<<"read", out[2]>>) = {}
               \/ \E q \in Procs : At(q, "program") /\ proc[q].fd[0] = <<"read", out[2]>>
        /\ Exit(p)
        /\ UNCHANGED typed

\* It may stop before that.
ProgramStops(p) ==
    /\ At(p, "program")
    /\ Exit(p)
    /\ UNCHANGED typed

Step(p) ==
    \/ Parse(p)
    \/ \E found \in BOOLEAN : Exec(p, found)
    \/ \E opened \in BOOLEAN : Redir(p, opened)
    \/ List(p) \/ (\E q \in Procs : ListWait(p, q))
    \/ (\E made \in BOOLEAN : Pipe(p, made))
    \/ PipeLeft(p) \/ PipeFork(p) \/ PipeRight(p) \/ PipeClose(p)
    \/ (\E q \in Procs : PipeWait(p, q)) \/ (\E q \in Procs : PipeWait2(p, q))
    \/ Back(p) \/ RuncmdExit(p)
    \/ ProgramEnds(p)

MainStep == Main \/ (\E q \in Procs : MainWait(q))

Next ==
    \/ \E n \in DOMAIN Script : typed = n - 1 /\ \E line \in Script[n] : Getcmd(line)
    \/ GetcmdEof
    \/ MainStep
    \/ \E p \in Procs : Step(p) \/ ProgramStops(p)

\* The scheduler runs a process that can run, and a program reads and writes;
\* nobody has to type.
Spec == Init /\ [][Next]_vars /\ WF_vars(MainStep \/ \E p \in Procs : Step(p))

----------------------------------------------------------------------------
\* The command that parsecmd() makes of a line is the only one that the
\* grammar allows, and a line that it rejects is in no way a command; the
\* NULs that nulterminate() writes end every word where it ended, and none
\* falls into another word.
ParsedAsWritten ==
    [][\A p \in Procs : At(p, "parse") /\ ~At(p, "parse")' =>
          LET b == proc[p].buf
              c == proc'[p].cmd
          IN  IF At(p, "runcmd")'
              THEN /\ Line(b, 1, End(b)) = {c}
                   /\ \A w \in Words(c) : Str(proc'[p].buf, w[1]) = w
              ELSE Line(b, 1, End(b)) = {}]_vars

\* The programs of a command: what each has as its arguments, its input and
\* its output.
RECURSIVE Streams(_, _, _)
Streams(cmd, in, out) ==
    CASE cmd.type = "EXEC" -> {[argv |-> cmd.argv, in |-> in, out |-> out]}
      [] cmd.type = "REDIR" ->
            LET f == <<"file", cmd.file, cmd.mode>>
            IN  IF cmd.fd = 0 THEN Streams(cmd.cmd, f, out) ELSE Streams(cmd.cmd, in, f)
      [] cmd.type = "PIPE" ->
            Streams(cmd.left, in, <<"write", cmd>>) \union Streams(cmd.right, <<"read", cmd>>, out)
      [] cmd.type = "LIST" -> Streams(cmd.left, in, out) \union Streams(cmd.right, in, out)
      [] cmd.type = "BACK" -> Streams(cmd.cmd, in, out)

\* A program starts with the arguments that were typed for it, with its input
\* and output open on what its line says, and with nothing else open: open()
\* and dup() return the descriptor that was closed for them, and no end of a
\* pipe is left behind.
RightStreams ==
    \A p \in Procs : At(p, "program") =>
        \E x \in Streams(proc[p].line, Console, Console) :
            /\ x.argv = proc[p].cmd.argv
            /\ proc[p].fd = [Stdio EXCEPT ![0] = x.in, ![1] = x.out]

\* The arguments of the programs of a command.
Programs(cmd) == {x.argv : x \in Streams(cmd, Console, Console)}

\* Is program v left of a ";" in the command, and w right of it?
RECURSIVE Ordered(_, _, _)
Ordered(cmd, v, w) ==
    CASE cmd.type = "EXEC" -> FALSE
      [] cmd.type \in {"REDIR", "BACK"} -> Ordered(cmd.cmd, v, w)
      [] OTHER -> \/ cmd.type = "LIST" /\ v \in Programs(cmd.left) /\ w \in Programs(cmd.right)
                  \/ Ordered(cmd.left, v, w) \/ Ordered(cmd.right, v, w)

\* The processes that the shell waits for.
RECURSIVE Waited(_)
Waited(p) == p = Sh \/ (p # Orphan /\ Waited(proc[p].parent))

\* In "a ; b", no program of b runs as long as the shell has one of a to wait
\* for: the child that a wait() returns is never another one's.
ListsInOrder ==
    \A p, q \in Procs :
        At(p, "program") /\ At(q, "program") /\ Waited(p) /\ Waited(q) =>
            ~Ordered(proc[p].line, proc[p].cmd.argv, proc[q].cmd.argv)

\* When no more is typed, all processes end but the shell, which prompts or has
\* exited: every wait() returns, although each reader of a pipe waits until no
\* process has its other end open, and although a fork() may fail half-way
\* through a pipeline.
CommandsEnd ==
    <>[](\A p \in Procs : At(p, "free") \/ (p = Sh /\ At(p, "prompt")))

=============================================================================
