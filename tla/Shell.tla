------------------------------- MODULE Shell --------------------------------
(***************************************************************************)
(* The shell, user/sh.c, and init, user/init.c: init keeps a shell         *)
(* running, the shell forks a child for each line, and runcmd() in the     *)
(* child walks the command tree, forking and rearranging descriptors.      *)
(* The kernel's fork, wait, exit, pipe, dup, close and open are taken at   *)
(* their word (Proc, Pipe and SysFile model them).  A program that reads a *)
(* pipe ends when the pipe has ended; other programs end by themselves.    *)
(***************************************************************************)
EXTENDS ShellSyntax, FiniteSetsExt

CONSTANTS NPROC, NOFILE,
          Lines,             \* what may be typed: a set for the first line, for the second, ...
          MaxFaults          \* bound on system calls that fail

VARIABLES
  proc,     \* the processes: a function on 1..NPROC
  typed,    \* the lines typed so far
  faults

vars == <<proc, typed, faults>>

Console == <<"console">>
Closed == <<"closed">>

\* pc: where it is; kid: init's shell; line: the number of the line it works on;
\* cmd: runcmd()'s argument; fd: descriptors; p: runcmd()'s pipe; path: for the
\* properties, the way to cmd in the tree, a sequence of commands with the part
\* taken (0: left or only part, 1: right).
Unused == [pc |-> "unused", parent |-> 0, kid |-> 0, line |-> 0, cmd |-> Panic, path |-> <<>>,
           fd |-> [k \in 0..(NOFILE - 1) |-> Closed], p |-> <<0, 0>>]
StdFds == [k \in 0..(NOFILE - 1) |-> IF k < 3 THEN Console ELSE Closed]

Init ==
  /\ proc = [k \in 1..NPROC |-> IF k = 1 THEN [Unused EXCEPT !.pc = "init", !.fd = StdFds] ELSE Unused]
  /\ typed = <<>> /\ faults = 0

-----------------------------------------------------------------------------
(* The system calls.                                                       *)

Free == {k \in 1..NPROC : proc[k].pc = "unused"}
Fork(k, child, pc) ==
  /\ Free # {}
  /\ LET c == Min(Free) IN
       proc' = [proc EXCEPT ![c] = [child EXCEPT !.parent = k], ![k].pc = pc, ![k].kid = c]

\* The children of a process that exits become init's.
Exit(k) ==
  proc' = [j \in 1..NPROC |->
             IF j = k THEN [Unused EXCEPT !.pc = "zombie", !.parent = proc[k].parent]
             ELSE IF proc[j].parent = k THEN [proc[j] EXCEPT !.parent = 1] ELSE proc[j]]

Wait(k, c, after) ==
  /\ proc[c].pc = "zombie" /\ proc[c].parent = k
  /\ proc' = [proc EXCEPT ![c] = Unused, ![k] = after]

To(k, pc) == [proc[k] EXCEPT !.pc = pc]

Lowest(fd) == Min({i \in DOMAIN fd : fd[i] = Closed})
Open(fd, file) == [fd EXCEPT ![Lowest(fd)] = file]
Dup(fd, i) == Open(fd, fd[i])
Close(fd, i) == [fd EXCEPT ![i] = Closed]

-----------------------------------------------------------------------------
(* init                                                                    *)

StartSh ==
  /\ proc[1].pc = "init" /\ Fork(1, To(1, "exec sh"), "init wait")
  /\ UNCHANGED <<typed, faults>>

AfterWait(c) == IF c = proc[1].kid THEN "init" ELSE "init wait"

InitWait(c) ==
  /\ proc[1].pc = "init wait" /\ Wait(1, c, To(1, AfterWait(c)))
  /\ UNCHANGED <<typed, faults>>

-----------------------------------------------------------------------------
(* main() of the shell                                                     *)

\* exec("sh"); the loop that ensures three descriptors finds them open, and
\* closes the fourth.
Main(k) ==
  /\ proc[k].pc = "exec sh"
  /\ proc' = [proc EXCEPT ![k].pc = "prompt", ![k].fd = Close(Open(@, Console), Lowest(@))]
  /\ UNCHANGED <<typed, faults>>

\* A line is read, and a child forked for it.  What the child finds when it
\* parses the line depends on the line alone, and is put down here.
GetCmd(k) ==
  /\ proc[k].pc = "prompt" /\ Len(typed) < Len(Lines)
  /\ \E s \in Lines[Len(typed) + 1] : \E cmd \in {parsecmd(s)} :
       /\ typed' = Append(typed, s)
       /\ Fork(k, [To(k, "parse") EXCEPT !.line = Len(typed) + 1, !.cmd = cmd], "sh wait")
  /\ UNCHANGED faults

\* The end of the input.
GetEof(k) == proc[k].pc = "prompt" /\ Exit(k) /\ UNCHANGED <<typed, faults>>

ShWait(k, c) ==
  /\ proc[k].pc = "sh wait" /\ Wait(k, c, To(k, "prompt"))
  /\ UNCHANGED <<typed, faults>>

\* Mutant: panic() returns, and the parser never gets past the error.
ParseCmdLoops(k) ==
  /\ proc[k].pc = "parse"
  /\ IF proc[k].cmd = Panic THEN UNCHANGED proc ELSE proc' = [proc EXCEPT ![k].pc = "runcmd"]
  /\ UNCHANGED <<typed, faults>>

\* The child: a panic() of the parser is its exit.
ParseCmd(k) ==
  /\ proc[k].pc = "parse"
  /\ IF proc[k].cmd = Panic THEN Exit(k) ELSE proc' = [proc EXCEPT ![k].pc = "runcmd"]
  /\ UNCHANGED <<typed, faults>>

-----------------------------------------------------------------------------
(* runcmd()                                                                *)

Runs(k, type) == proc[k].pc = "runcmd" /\ proc[k].cmd.type = type

\* The call of runcmd() on a part of the command.
Part(cmd, d) == IF cmd.type \in {"LIST", "PIPE"} THEN (IF d = 0 THEN cmd.left ELSE cmd.right) ELSE cmd.cmd
Down(q, d) == [q EXCEPT !.pc = "runcmd", !.cmd = Part(@, d), !.path = Append(@, [cmd |-> q.cmd, part |-> d])]

Exec(k) ==
  /\ Runs(k, "EXEC")
  /\ IF proc[k].cmd.argv = <<>> THEN Exit(k) ELSE proc' = [proc EXCEPT ![k].pc = "program"]
  /\ UNCHANGED <<typed, faults>>

Redir(k) ==
  /\ Runs(k, "REDIR")
  /\ LET cmd == proc[k].cmd
         fd == Open(Close(proc[k].fd, cmd.fd), <<"file", cmd.file, cmd.mode>>) IN
       proc' = [proc EXCEPT ![k] = [Down(@, 0) EXCEPT !.fd = fd]]
  /\ UNCHANGED <<typed, faults>>

\* Mutant: the shell does not wait for what is left of the ";".
ListNoWait(k) ==
  /\ Runs(k, "LIST") /\ Free # {}
  /\ proc' = [proc EXCEPT ![Min(Free)] = [Down(proc[k], 0) EXCEPT !.parent = k], ![k] = Down(@, 1)]
  /\ UNCHANGED <<typed, faults>>

List(k) ==
  /\ Runs(k, "LIST") /\ Fork(k, Down(proc[k], 0), "list wait")
  /\ UNCHANGED <<typed, faults>>

ListWait(k, c) ==
  /\ proc[k].pc = "list wait" /\ Wait(k, c, Down(proc[k], 1))
  /\ UNCHANGED <<typed, faults>>

Back(k) ==
  /\ Runs(k, "BACK") /\ Fork(k, Down(proc[k], 0), "exit")
  /\ UNCHANGED <<typed, faults>>

\* The name of a pipe.
PipeId(line, path) == <<line, [d \in DOMAIN path |-> path[d].part]>>

\* pipe(p): the two ends get the two lowest free descriptors.
Pipe(k) ==
  /\ Runs(k, "PIPE")
  /\ LET fd == proc[k].fd
         r == Lowest(fd)
         w == Lowest(Open(fd, Console))
         id == PipeId(proc[k].line, proc[k].path) IN
       proc' = [proc EXCEPT ![k].fd = [fd EXCEPT ![r] = <<"pipe", id, "r">>, ![w] = <<"pipe", id, "w">>],
                            ![k].p = <<r, w>>, ![k].pc = "fork left"]
  /\ UNCHANGED <<typed, faults>>

ForkLeft(k) ==
  /\ proc[k].pc = "fork left" /\ Fork(k, To(k, "left"), "fork right")
  /\ UNCHANGED <<typed, faults>>

ForkRight(k) ==
  /\ proc[k].pc = "fork right" /\ Fork(k, To(k, "right"), "close")
  /\ UNCHANGED <<typed, faults>>

ClosePipe(fd, p) == Close(Close(fd, p[1]), p[2])

\* A side of the pipeline puts its end of the pipe in place.
Side(k, pc, i) ==
  /\ proc[k].pc = pc
  /\ LET fd == ClosePipe(Dup(Close(proc[k].fd, i), proc[k].p[i + 1]), proc[k].p) IN
       proc' = [proc EXCEPT ![k] = [Down(@, 1 - i) EXCEPT !.fd = fd]]
  /\ UNCHANGED <<typed, faults>>

CloseBoth(k) ==
  /\ proc[k].pc = "close"
  /\ proc' = [proc EXCEPT ![k].fd = ClosePipe(@, proc[k].p), ![k].pc = "wait 1"]
  /\ UNCHANGED <<typed, faults>>

PipeWait(k, c) ==
  /\ \/ proc[k].pc = "wait 1" /\ Wait(k, c, To(k, "wait 2"))
     \/ proc[k].pc = "wait 2" /\ Wait(k, c, To(k, "exit"))
  /\ UNCHANGED <<typed, faults>>

ExitCmd(k) == proc[k].pc = "exit" /\ Exit(k) /\ UNCHANGED <<typed, faults>>

-----------------------------------------------------------------------------
(* Programs, and system calls that fail.                                   *)

\* A pipe has ended when nobody holds its other end.
Ended(f) ==
  \A j \in 1..NPROC : \A i \in DOMAIN proc[j].fd : proc[j].fd[i] # <<"pipe", f[2], "w">>

Program(k) ==
  /\ proc[k].pc = "program"
  /\ proc[k].fd[0][1] = "pipe" => Ended(proc[k].fd[0])
  /\ Exit(k) /\ UNCHANGED <<typed, faults>>

\* exec, open, pipe and fork may fail: the message, and exit.
Fails(k) ==
  /\ faults < MaxFaults /\ faults' = faults + 1
  /\ proc[k].pc \in {"exec sh", "prompt", "runcmd", "fork left", "fork right"}
  /\ Exit(k) /\ UNCHANGED typed

\* What process k does next, when it does not wait for input.
Step(k) ==
  \/ Main(k) \/ ParseCmd(k)
  \/ Exec(k) \/ Redir(k) \/ List(k) \/ Back(k) \/ Pipe(k) \/ ForkLeft(k) \/ ForkRight(k)
  \/ Side(k, "left", 1) \/ Side(k, "right", 0) \/ CloseBoth(k) \/ ExitCmd(k) \/ Program(k)
  \/ \E c \in 1..NPROC : ShWait(k, c) \/ ListWait(k, c) \/ PipeWait(k, c)

InitStep == StartSh \/ \E c \in 1..NPROC : InitWait(c)

Next ==
  \/ InitStep
  \/ \E k \in 2..NPROC : Step(k) \/ GetCmd(k) \/ GetEof(k) \/ Fails(k)

\* The processors do not stop while some process can run.
Fairness == WF_vars(InitStep \/ \E k \in 2..NPROC : Step(k))

Spec == Init /\ [][Next]_vars /\ Fairness

-----------------------------------------------------------------------------
(* Properties.                                                             *)

\* The enclosing constructs that say where descriptor i of a command goes.
Setters(path, i) ==
  {d \in DOMAIN path :
     \/ path[d].cmd.type = "REDIR" /\ path[d].cmd.fd = i
     \/ path[d].cmd.type = "PIPE" /\ path[d].part = 1 - i}

Wired(line, path, i) ==
  IF Setters(path, i) = {} THEN Console
  ELSE LET d == Max(Setters(path, i))
           cmd == path[d].cmd IN
       IF cmd.type = "REDIR" THEN <<"file", cmd.file, cmd.mode>>
       ELSE <<"pipe", PipeId(line, SubSeq(path, 1, d - 1)), IF i = 0 THEN "r" ELSE "w">>

\* Process p belongs to the foreground on the left of a ";" and q to the right.
Before(p, q) ==
  \E d \in DOMAIN p.path \cap DOMAIN q.path :
    /\ p.path[d].cmd.type = "LIST" /\ p.path[d].part = 0 /\ q.path[d].part = 1
    /\ p.line = q.line /\ SubSeq(p.path, 1, d - 1) = SubSeq(q.path, 1, d - 1)
    /\ \A e \in (d + 1)..Len(p.path) : p.path[e].cmd.type # "BACK"

\* However fork, dup and close interleave, a program starts with its input and
\* output where the innermost "<", ">" or "|" around it says and with no other
\* descriptor than 0, 1 and 2; and what stands to the right of a ";" starts
\* when the foreground to its left is done (unless a system call failed).
RunsAsWritten ==
  /\ \A k \in 2..NPROC : proc[k].pc = "program" =>
       proc[k].fd = [i \in DOMAIN proc[k].fd |->
                       IF i < 2 THEN Wired(proc[k].line, proc[k].path, i) ELSE IF i = 2 THEN Console ELSE Closed]
  /\ faults = 0 => ~ \E j, k \in 2..NPROC : Before(proc[j], proc[k])

\* Only one shell at a time reads the console: init tells the shell's exit from
\* that of an orphan.
OneShell ==
  \A j, k \in 2..NPROC :
    {proc[j].pc, proc[k].pc} \subseteq {"exec sh", "prompt", "sh wait"} => j = k

\* The prompt comes back: a pipeline ends because every process that does not
\* use an end of the pipe has closed it, no wait() is left without a child, and
\* init replaces a shell that has exited.
ShellPc == IF proc[1].kid = 0 THEN "none" ELSE proc[proc[1].kid].pc
PromptReturns == ShellPc = "sh wait" ~> ShellPc = "prompt"
=============================================================================
