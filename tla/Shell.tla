-------------------------------- MODULE Shell --------------------------------
(***************************************************************************)
(* user/sh.c: the parser, runcmd with its processes and pipes, and the     *)
(* prompt, on the file descriptors of kernel/sysfile.c and kernel/file.c.  *)
(* A line is a sequence of tokens: words, and the symbols of sh.c.         *)
(*                                                                         *)
(* What the shell uses is abstract here: a pipe is the bounded byte stream *)
(* that Pipe implements, fork, exit and wait are those of Proc, and init   *)
(* reaps orphans at once.  The programs are "gen" (an echo of g and h) and *)
(* cat; another word is not found.  Standard error and the built-in cd are *)
(* left out, and a program that reads the console is told end-of-file.     *)
(*                                                                         *)
(* A definition named X_Fault, before X, is X with one plausible mistake   *)
(* in it; no specification uses it.                                        *)
(***************************************************************************)
EXTENDS Integers, Sequences, FiniteSets, SequencesExt

CONSTANTS
  NPROC,      \* processes, the shell included; fork fails when all are used
  NOFILE,     \* descriptors per process (param.h)
  NFILE,      \* struct files besides the console's; open and pipe fail when
              \* all are used
  PIPESIZE,
  MAXARGS,    \* words of a command (sh.c:14)
  Lines,      \* what may be typed: the tokens and the command meant by them
  Files,      \* names of files
  MaxLines    \* bound: lines typed in a behaviour

ASSUME ShellAssumption == NOFILE > 4 /\ NPROC > 1 /\ PIPESIZE > 0 /\ MaxLines \in Nat

Procs == 1 .. NPROC
sh    == 1
FDs   == 0 .. (NOFILE - 1)
Fids  == 1 .. NFILE
Console == -1      \* as a struct file; 0 is none

----------------------------------------------------------------------------
(* The parser: a command, and the tokens it leaves; or Syntax.             *)

Symbols == {"<", "|", ">", ">>", "&", ";", "(", ")"}
Syntax  == [type |-> "SYNTAX"]
Word(t) == t \notin Symbols
peek(s, toks) == s # <<>> /\ Head(s) \in toks

execcmd(argv)            == [type |-> "EXEC", argv |-> argv]
redircmd(cmd, file, fd)  == [type |-> "REDIR", cmd |-> cmd, file |-> file, fd |-> fd]
pipecmd(l, r)            == [type |-> "PIPE", left |-> l, right |-> r]
listcmd(l, r)            == [type |-> "LIST", left |-> l, right |-> r]
backcmd(cmd)             == [type |-> "BACK", cmd |-> cmd]

Parsed(cmd, s) == [cmd |-> cmd, rest |-> s]
Failed         == Parsed(Syntax, <<>>)
Bad(r)         == r.cmd = Syntax

RECURSIVE parseredirs(_, _), args(_, _, _), backs(_, _)
RECURSIVE parseline(_), parsepipe(_), parseexec(_)

parseredirs(cmd, s) ==
  IF ~peek(s, {"<", ">", ">>"}) THEN Parsed(cmd, s)
  ELSE IF Len(s) < 2 \/ ~Word(s[2]) THEN Failed      \* missing file for redirection
  ELSE parseredirs(redircmd(cmd, s[2], IF s[1] = "<" THEN 0 ELSE 1), SubSeq(s, 3, Len(s)))

\* The words of a command and, among them, its redirections: execcmd() has
\* been wrapped by parseredirs when its later words are added to it.
SetArgv(cmd, argv) ==
  LET RECURSIVE Set(_)
      Set(c) == IF c.type = "EXEC" THEN execcmd(argv) ELSE [c EXCEPT !.cmd = Set(c.cmd)]
  IN  Set(cmd)

args(cmd, argv, s) ==
  IF s = <<>> \/ peek(s, {"|", ")", "&", ";"}) THEN Parsed(SetArgv(cmd, argv), s)
  ELSE IF ~Word(Head(s)) \/ Len(argv) + 1 >= MAXARGS THEN Failed
  ELSE LET r == parseredirs(cmd, Tail(s))
       IN  IF Bad(r) THEN Failed ELSE args(r.cmd, Append(argv, Head(s)), r.rest)

parseblock(s) ==
  LET r == parseline(Tail(s))
  IN  IF Bad(r) \/ ~peek(r.rest, {")"}) THEN Failed
      ELSE parseredirs(r.cmd, Tail(r.rest))

parseexec(s) ==
  IF peek(s, {"("}) THEN parseblock(s)
  ELSE LET r == parseredirs(execcmd(<<>>), s)
       IN  IF Bad(r) THEN Failed ELSE args(r.cmd, <<>>, r.rest)

parsepipe(s) ==
  LET l == parseexec(s)
  IN  IF Bad(l) \/ ~peek(l.rest, {"|"}) THEN l
      ELSE LET r == parsepipe(Tail(l.rest))
           IN  IF Bad(r) THEN Failed ELSE Parsed(pipecmd(l.cmd, r.cmd), r.rest)

backs(cmd, s) == IF peek(s, {"&"}) THEN backs(backcmd(cmd), Tail(s)) ELSE Parsed(cmd, s)

parseline(s) ==
  LET p == parsepipe(s)
      l == IF Bad(p) THEN p ELSE backs(p.cmd, p.rest)
  IN  IF Bad(l) \/ ~peek(l.rest, {";"}) THEN l
      ELSE LET r == parseline(Tail(l.rest))
           IN  IF Bad(r) THEN Failed ELSE Parsed(listcmd(l.cmd, r.cmd), r.rest)

\* Leftovers are an error.
parsecmd(s) ==
  LET r == parseline(s) IN IF r.rest # <<>> THEN Syntax ELSE r.cmd
ParsedLine == [s \in {line.toks : line \in Lines} |-> parsecmd(s)]

----------------------------------------------------------------------------
VARIABLES
  proc,       \* process -> what it does and its descriptors
  ftable,     \* struct files
  data,       \* pipe -> the bytes in it
  disk,       \* file name -> contents
  screen,     \* what has been written to the console since the prompt
  left,       \* lines that may still be typed
  \* for the properties only:
  meant       \* the last line, and the disk when it was typed

vars == <<proc, ftable, data, disk, screen, left, meant>>

NoProc == [state |-> "UNUSED"]
NoFile == [kind |-> "none"]
Absent == <<"absent">>                 \* the contents of a file that is not there

Live(p)     == proc[p].state \notin {"UNUSED", "ZOMBIE"}
At(p, c)    == proc[p].state = c
fd(p, n)    == proc[p].fds[n]
Free        == {p \in Procs : proc[p] = NoProc}
Lowest(S)   == CHOOSE x \in S : \A y \in S : x <= y
ChildrenOf(p) == {q \in Procs : proc[q] # NoProc /\ proc[q].parent = p}

\* The struct files with f->ref > 0 when the processes are ps, and fileclose:
\* one without references is free again.
Open(ps)     == UNION {Range(ps[p].fds) : p \in {q \in Procs : ps[q].state \notin {"UNUSED", "ZOMBIE"}}}
Kept(ft, ps) == LET used == Open(ps) IN [f \in Fids |-> IF f \in used THEN ft[f] ELSE NoFile]
Piped(ft, i) == {f \in Fids : ft[f].kind \in {"r", "w"} /\ ft[f].pipe = i}
Become(ps) ==
  /\ proc' = ps
  /\ ftable' = Kept(ftable, ps)
  /\ data' = [i \in Fids |-> IF Piped(ftable', i) = {} THEN <<>> ELSE data[i]]

----------------------------------------------------------------------------
(* System calls                                                            *)

\* fdalloc: the lowest free descriptor (there is always one: NOFILE > 4).
fdalloc(fds) == Lowest({n \in FDs : fds[n] = 0})
dup(fds, n)  == [fds EXCEPT ![fdalloc(fds)] = fds[n]]

exit(p) ==
  Become([q \in Procs |->
            IF q = p THEN IF proc[p].parent = 0 THEN NoProc ELSE [state |-> "ZOMBIE", parent |-> proc[p].parent]
            ELSE IF q \in ChildrenOf(p)
            THEN IF proc[q].state = "ZOMBIE" THEN NoProc ELSE [proc[q] EXCEPT !.parent = 0]
            ELSE proc[q]])

Then(p, c) == [proc[p] EXCEPT !.state = c]

\* fork: the child, in state c with command cmd; fork1 panics when it fails.
Child(p, c, cmd, todo) == [proc[p] EXCEPT !.state = c, !.cmd = cmd, !.parent = p, !.todo = todo]
fork1(p, child, then) ==
  \/ /\ Free # {}
     /\ proc' = [proc EXCEPT ![Lowest(Free)] = child, ![p] = then]
     /\ UNCHANGED <<ftable, data, meant>>
  \/ /\ Free = {}
     /\ exit(p)
     /\ meant' = [meant EXCEPT !.failed = TRUE]

\* wait: a zombie child is reaped; without children it returns at once.
wait(p, then) ==
  LET zs == {q \in ChildrenOf(p) : proc[q].state = "ZOMBIE"}
  IN  /\ ChildrenOf(p) = {} \/ zs # {}
      /\ proc' = [q \in Procs |-> IF q = p THEN then
                                  ELSE IF zs # {} /\ q = Lowest(zs) THEN NoProc ELSE proc[q]]
      /\ UNCHANGED <<ftable, data>>
quiet == <<disk, screen, left>>

----------------------------------------------------------------------------
(* runcmd                                                                  *)

Run(p, type)  == At(p, "run") /\ proc[p].todo = <<>> /\ proc[p].cmd.type = type
Goto(p, c)    == proc' = [proc EXCEPT ![p].state = c]
exec(p, c)    == proc' = [proc EXCEPT ![p].state = c, ![p].cmd = execcmd(<<>>)]
Close(n)      == [op |-> "close", n |-> n]
Dup(n)        == [op |-> "dup", n |-> n]

\* The next close or dup of the straight-line code that comes before state.
fdcall(p) ==
  LET c   == Head(proc[p].todo)
      fds == proc[p].fds
  IN  /\ Live(p) /\ proc[p].todo # <<>>
      /\ Become([proc EXCEPT ![p].todo = Tail(@),
                             ![p].fds = IF c.op = "dup" THEN dup(fds, c.n)
                                        ELSE [fds EXCEPT ![c.n] = 0]])
      /\ UNCHANGED <<quiet, meant>>

\* exec succeeds for the two programs there are.
EXEC(p) ==
  LET argv == proc[p].cmd.argv
  IN  /\ Run(p, "EXEC")
      /\ IF argv # <<>> /\ argv[1] = "gen" THEN exec(p, "gen") /\ UNCHANGED <<ftable, data>>
         ELSE IF argv # <<>> /\ argv[1] = "cat" THEN exec(p, "read") /\ UNCHANGED <<ftable, data>>
         ELSE exit(p)
      /\ UNCHANGED <<quiet, meant>>

REDIR(p) ==
  /\ Run(p, "REDIR")
  /\ Become([proc EXCEPT ![p].state = "open", ![p].fds[proc[p].cmd.fd] = 0])
  /\ UNCHANGED <<quiet, meant>>

\* open: a file to write is created when it is missing, before filealloc may
\* fail, and never truncated.
open(p) ==
  LET cmd == proc[p].cmd
      new == {f \in Fids : ftable[f] = NoFile}
      f   == Lowest(new)
  IN  /\ At(p, "open")
      /\ disk' = [disk EXCEPT ![cmd.file] = IF @ = Absent /\ cmd.fd # 0 THEN <<>> ELSE @]
      /\ IF new = {} \/ disk'[cmd.file] = Absent
         THEN /\ exit(p)
              /\ meant' = [meant EXCEPT !.failed = @ \/ new = {}]
         ELSE /\ ftable' = [ftable EXCEPT ![f] = [kind |-> "file", name |-> cmd.file, off |-> 0]]
              /\ proc' = [proc EXCEPT ![p].state = "run", ![p].cmd = cmd.cmd,
                                      ![p].fds[fdalloc(proc[p].fds)] = f]
              /\ UNCHANGED <<data, meant>>
      /\ UNCHANGED <<screen, left>>

LIST(p) ==
  /\ Run(p, "LIST")
  /\ fork1(p, Child(p, "run", proc[p].cmd.left, <<>>), Then(p, "listwait"))
  /\ UNCHANGED quiet

LIST_right(p) ==
  /\ At(p, "listwait")
  /\ wait(p, [proc[p] EXCEPT !.state = "run", !.cmd = @.right])
  /\ UNCHANGED <<quiet, meant>>

\* sys_pipe: two struct files, two descriptors.
PIPE(p) ==
  LET new == {f \in Fids : ftable[f] = NoFile}
      r   == Lowest(new)
      w   == Lowest(new \ {r})
      i   == Lowest({j \in Fids : Piped(ftable, j) = {}})
      p0  == fdalloc(proc[p].fds)
      p1  == Lowest({n \in FDs : fd(p, n) = 0 /\ n # p0})
  IN  /\ Run(p, "PIPE")
      /\ IF Cardinality(new) < 2
         THEN exit(p) /\ meant' = [meant EXCEPT !.failed = TRUE]
         ELSE /\ ftable' = [ftable EXCEPT ![r] = [kind |-> "r", pipe |-> i],
                                          ![w] = [kind |-> "w", pipe |-> i]]
              /\ proc' = [proc EXCEPT ![p].state = "left", ![p].p = <<p0, p1>>,
                                      ![p].fds[p0] = r, ![p].fds[p1] = w]
              /\ UNCHANGED <<data, meant>>
      /\ UNCHANGED quiet

PIPE_left(p) ==
  LET e == proc[p].p
  IN  /\ At(p, "left")
      /\ fork1(p, Child(p, "run", proc[p].cmd.left,
                        <<Close(1), Dup(e[2]), Close(e[1]), Close(e[2])>>), Then(p, "right"))
      /\ UNCHANGED quiet

RightCalls_KeepWriteEnd(e) == <<Close(0), Dup(e[1]), Close(e[1])>>
RightCalls(e) == <<Close(0), Dup(e[1]), Close(e[1]), Close(e[2])>>
PIPE_right(p) ==
  /\ At(p, "right")
  /\ fork1(p, Child(p, "run", proc[p].cmd.right, RightCalls(proc[p].p)),
           [Then(p, "wait1") EXCEPT !.todo = <<Close(proc[p].p[1]), Close(proc[p].p[2])>>])
  /\ UNCHANGED quiet

PIPE_wait_Once(p) ==
  /\ At(p, "wait1") /\ proc[p].todo = <<>> /\ wait(p, Then(p, "done"))
  /\ UNCHANGED <<quiet, meant>>

PIPE_wait(p) ==
  /\ \/ At(p, "wait1") /\ proc[p].todo = <<>> /\ wait(p, Then(p, "wait2"))
     \/ At(p, "wait2") /\ wait(p, Then(p, "done"))
  /\ UNCHANGED <<quiet, meant>>

BACK(p) ==
  /\ Run(p, "BACK")
  /\ fork1(p, Child(p, "run", proc[p].cmd.cmd, <<>>), Then(p, "done"))
  /\ UNCHANGED quiet

\* The end of runcmd, and of a program.
runcmd_exit(p) ==
  /\ At(p, "done")
  /\ exit(p)
  /\ UNCHANGED <<quiet, meant>>

----------------------------------------------------------------------------
(* main                                                                    *)

\* getcmd: somebody types a line.
getcmd(line) ==
  /\ At(sh, "prompt") /\ left > 0
  /\ left' = left - 1
  /\ screen' = <<>>
  /\ proc' = [proc EXCEPT ![sh].state = "fork", ![sh].line = line.toks]
  /\ meant' = [cmd |-> line.cmd, disk |-> disk, failed |-> FALSE,
               alone |-> \A p \in Procs \ {sh} : ~Live(p)]
  /\ UNCHANGED <<ftable, data, disk>>

\* ... or the end of the file.
getcmd_eof ==
  /\ At(sh, "prompt")
  /\ exit(sh)
  /\ UNCHANGED <<quiet, meant>>

main_fork ==
  /\ At(sh, "fork")
  /\ fork1(sh, Child(sh, "parse", proc[sh].cmd, <<>>), Then(sh, "wait"))
  /\ UNCHANGED quiet

main_wait ==
  /\ At(sh, "wait")
  /\ wait(sh, Then(sh, "prompt"))
  /\ UNCHANGED <<quiet, meant>>

child_parse(p) ==
  LET cmd == ParsedLine[proc[p].line]
  IN  /\ At(p, "parse")
      /\ IF cmd = Syntax THEN exit(p)
         ELSE proc' = [proc EXCEPT ![p].state = "run", ![p].cmd = cmd, ![p].line = <<>>] /\ UNCHANGED <<ftable, data>>
      /\ UNCHANGED <<quiet, meant>>

----------------------------------------------------------------------------
(* The programs                                                            *)

In  == 0
Std == 1

\* filewrite of one byte; without a reader pipewrite fails, and neither program
\* looks at what write returns.
WriteAt(s, off, b) == [i \in 1 .. (IF off = Len(s) THEN off + 1 ELSE Len(s)) |->
                         IF i = off + 1 THEN b ELSE s[i]]
write(p, b, then) ==
  LET f == fd(p, Std)
      o == ftable[f]
  IN  \/ /\ f = Console
         /\ screen' = Append(screen, b) /\ Goto(p, then)
         /\ UNCHANGED <<ftable, data, disk>>
      \/ /\ f # Console /\ o.kind = "file"
         /\ disk' = [disk EXCEPT ![o.name] = WriteAt(@, o.off, b)]
         /\ ftable' = [ftable EXCEPT ![f].off = @ + 1] /\ Goto(p, then)
         /\ UNCHANGED <<data, screen>>
      \/ /\ f # Console /\ o.kind = "w"
         /\ IF \A g \in Piped(ftable, o.pipe) : ftable[g].kind = "w"
            THEN UNCHANGED data
            ELSE Len(data[o.pipe]) < PIPESIZE /\ data' = [data EXCEPT ![o.pipe] = Append(@, b)]
         /\ Goto(p, then)
         /\ UNCHANGED <<ftable, disk, screen>>

Got(p, b) == proc' = [proc EXCEPT ![p].state = "write", ![p].byte = b]
read(p) ==
  LET f == fd(p, In)
      o == ftable[f]
  IN  \/ f = Console /\ exit(p)
      \/ /\ f # Console /\ o.kind = "file"
         /\ IF o.off >= Len(disk[o.name]) THEN exit(p)
            ELSE /\ Got(p, disk[o.name][o.off + 1])
                 /\ ftable' = [ftable EXCEPT ![f].off = @ + 1] /\ UNCHANGED data
      \/ /\ f # Console /\ o.kind = "r"
         /\ IF data[o.pipe] # <<>>
            THEN /\ Got(p, Head(data[o.pipe])) /\ data' = [data EXCEPT ![o.pipe] = Tail(@)]
                 /\ UNCHANGED ftable
            ELSE /\ \A g \in Piped(ftable, o.pipe) : ftable[g].kind = "r"
                 /\ exit(p)

Program(p) ==
  /\ \/ At(p, "gen") /\ write(p, "g", "gen2")
     \/ At(p, "gen2") /\ write(p, "h", "done")
     \/ At(p, "write") /\ write(p, proc[p].byte, "read")
     \/ At(p, "read") /\ read(p) /\ UNCHANGED <<disk, screen>>
  /\ UNCHANGED <<left, meant>>

----------------------------------------------------------------------------
Init ==
  /\ proc = [p \in Procs |->
               IF p = sh THEN [state |-> "prompt", parent |-> 0, line |-> <<>>,
                               cmd |-> execcmd(<<>>), todo |-> <<>>,
                               fds |-> [n \in FDs |-> IF n < 3 THEN Console ELSE 0],
                               p |-> <<0, 0>>, byte |-> ""]
               ELSE NoProc]
  /\ ftable = [f \in Fids |-> NoFile]
  /\ data = [i \in Fids |-> <<>>]
  /\ disk = [n \in Files |-> Absent]
  /\ screen = <<>> /\ left = MaxLines
  /\ meant = [cmd |-> execcmd(<<>>), disk |-> disk, failed |-> FALSE, alone |-> TRUE]

Step(p) ==
  \/ fdcall(p) \/ EXEC(p) \/ REDIR(p) \/ open(p)
  \/ LIST(p) \/ LIST_right(p)
  \/ PIPE(p) \/ PIPE_left(p) \/ PIPE_right(p) \/ PIPE_wait(p)
  \/ BACK(p) \/ runcmd_exit(p) \/ child_parse(p) \/ Program(p)
Main == (\E line \in Lines : getcmd(line)) \/ getcmd_eof \/ main_fork \/ main_wait

Next == Main \/ \E p \in Procs : Step(p)

\* While a process can run the scheduler runs one (Proc), and whoever sits at
\* the console goes on typing.  No more is needed: a process takes finitely
\* many steps.
Spec == Init /\ [][Next]_vars /\ WF_vars(Next)

----------------------------------------------------------------------------
(* Properties.                                                             *)

\* What a command line means: the output of a command, what it leaves of its
\* input, and the files, for commands that run in the foreground.
RECURSIVE Eval(_, _, _), Foreground(_)

Foreground(c) ==
  CASE c.type \in {"EXEC", "SYNTAX"} -> TRUE
    [] c.type = "REDIR" -> Foreground(c.cmd)
    [] c.type \in {"PIPE", "LIST"} -> Foreground(c.left) /\ Foreground(c.right)
    [] c.type = "BACK" -> FALSE

Result(out, in, d) == [out |-> out, in |-> in, disk |-> d]
Over(old, new) == IF old = Absent THEN new ELSE new \o SubSeq(old, Len(new) + 1, Len(old))

Eval(c, in, d) ==
  CASE c.type = "SYNTAX" -> Result(<<>>, in, d)
    [] c.type = "EXEC" ->
         IF c.argv # <<>> /\ c.argv[1] = "gen" THEN Result(<<"g", "h">>, in, d)
         ELSE IF c.argv # <<>> /\ c.argv[1] = "cat" THEN Result(in, <<>>, d)
         ELSE Result(<<>>, in, d)
    [] c.type = "LIST" ->
         LET l == Eval(c.left, in, d)
             r == Eval(c.right, l.in, l.disk)
         IN  Result(l.out \o r.out, r.in, r.disk)
    [] c.type = "PIPE" ->
         LET l == Eval(c.left, in, d)
             r == Eval(c.right, l.out, l.disk)
         IN  Result(r.out, l.in, r.disk)
    [] c.type = "REDIR" /\ c.fd = 0 ->
         IF d[c.file] = Absent THEN Result(<<>>, in, d)
         ELSE LET r == Eval(c.cmd, d[c.file], d) IN Result(r.out, in, r.disk)
    [] c.type = "REDIR" /\ c.fd = 1 ->
         LET made == [d EXCEPT ![c.file] = IF @ = Absent THEN <<>> ELSE @]
             r    == Eval(c.cmd, in, made)
         IN  Result(<<>>, r.in, [r.disk EXCEPT ![c.file] = Over(@, r.out)])

\* When the prompt is back after a line without "&" that nothing else ran
\* beside, the console and the files are as the command meant by the line
\* says, however the processes of its pipes were interleaved.
LineDoesWhatItSays ==
  At(sh, "prompt") /\ meant.alone /\ ~meant.failed /\ Foreground(meant.cmd) =>
    LET r == Eval(meant.cmd, <<>>, meant.disk)
    IN  screen = r.out /\ disk = r.disk

\* Nobody waits for ever: every line ends, also with too few processes or
\* struct files, every pipe comes to its end, and at end-of-file the shell
\* and all that it started are gone.
Terminates == <>(\A p \in Procs : proc[p] = NoProc)
=============================================================================
