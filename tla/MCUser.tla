------------------------------- MODULE MCUser -------------------------------
(***************************************************************************)
(* What programs see and do, for TLC: traps and the clock, the shell and   *)
(* init, the shell's parser, the heap, grep.  In a behaviour one of these  *)
(* units moves, and the others stay in their initial states.               *)
(***************************************************************************)
EXTENDS Integers, Sequences

CONSTANTS Tokens, MaxTokens     \* of the lines that the parser is given

VARIABLES unit, text,
          ticks, tickslock, pc, killed, arg, passed, late,
          proc, typed, faults,
          header, freep, brk, op, used, core, gaps,
          pattern, file, pos, buf, out, state

Lines == <<
  {<<>>, <<"(">>, <<"w", "&">>, <<"w", "&", ";", "w">>, <<"w", "|", "w">>, <<"w", "|", "w", ";", "w">>,
   <<"(", "w", ";", "w", ")", "|", "w">>, <<"w", ">", "w", ">>", "w">>, <<"(", "w", "&", ")", ">", "w">>,
   <<"w", "<", "w", "|", "w", ">", "w">>},
  {<<"w", "|", "w">>} >>

T == INSTANCE Trap WITH Procs <- {1, 2}, UINT <- 4, SleepArgs <- {-1, 0, 1}, MaxLate <- 1
S == INSTANCE Shell WITH MAXARGS <- 3, NPROC <- 8, NOFILE <- 5, MaxFaults <- 1
H == INSTANCE Malloc WITH HEADER <- 2, MINUNITS <- 3, START <- 2, LIMIT <- 9, Requests <- {0, 1, 4}, MaxGaps <- 1

Patterns == UNION {[1..k -> {"a", ".", "*", "^", "$"}] : k \in 0..3}
G == INSTANCE Grep WITH BUFSIZE <- 5, Newline <- "n",
       Files <- {<<"a", "b", "n", "n", "a", "a", "b", "n", "b">>, <<"b", "n", "a", "a", "a", "a", "n", "a", "n">>}

trapVars == <<ticks, tickslock, pc, killed, arg, passed, late>>
shellVars == <<proc, typed, faults>>
heapVars == <<header, freep, brk, op, used, core, gaps>>
grepVars == <<pattern, file, pos, buf, out, state>>
vars == <<unit, text, trapVars, shellVars, heapVars, grepVars>>

Init ==
  /\ unit \in {"trap", "shell", "parser", "heap", "grep"} /\ text = <<>>
  /\ T!Init /\ S!Init /\ H!Init /\ G!Init
  /\ unit # "grep" => pattern = <<>> /\ file[1] = "a"   \* what is given to grep matters to grep

OnTrap(A) == unit = "trap" /\ A /\ UNCHANGED <<unit, text, shellVars, heapVars, grepVars>>
OnShell(A) == unit = "shell" /\ A /\ UNCHANGED <<unit, text, trapVars, heapVars, grepVars>>
OnHeap(A) == unit = "heap" /\ A /\ UNCHANGED <<unit, text, trapVars, shellVars, grepVars>>
OnGrep(A) == unit = "grep" /\ A /\ UNCHANGED <<unit, text, trapVars, shellVars, heapVars>>

\* Every line of up to MaxTokens tokens is typed.
Type ==
  /\ unit = "parser" /\ UNCHANGED <<unit, trapVars, shellVars, heapVars, grepVars>>
  /\ text' \in IF Len(text) = MaxTokens THEN {<<>>} ELSE {Append(text, t) : t \in Tokens}

Next == OnTrap(T!Next) \/ OnShell(S!Next) \/ Type \/ OnHeap(H!Next) \/ OnGrep(G!Next)

\* The fairness of Trap and of Shell, for the behaviours in which they move.
Fairness ==
  /\ SF_vars(OnTrap(T!clockintr))
  /\ \A p \in {1, 2} : /\ WF_vars(OnTrap(T!Runs(p))) /\ WF_vars(OnTrap(T!TimerInterrupt(p)))
                       /\ SF_vars(OnTrap(T!Wake(p))) /\ SF_vars(OnTrap(T!Uptime(p)))
  /\ WF_vars(OnShell(S!InitStep \/ \E k \in 2..8 : S!Step(k)))

Spec == Init /\ [][Next]_vars /\ Fairness

-----------------------------------------------------------------------------
(* Properties.                                                             *)

\* sys_sleep() waits for its n ticks, though the counter wraps.
SleepExact == T!SleepExact

\* A process that is killed exits.
KilledExits == T!KilledExits

\* parsecmd() reads every line as the grammar does, and nulterminate() ends
\* every word.
ParsesBack == unit = "parser" => S!ReadsAsWritten(text)

\* runcmd() wires programs as written, and in the order that is written.
RunsAsWritten == S!RunsAsWritten

\* init runs one shell at a time, and the shell comes back to its prompt.
PromptReturns == []S!OneShell /\ S!PromptReturns

\* malloc() and free() divide the heap into blocks without overlap or loss.
HeapIsSound == unit = "heap" => H!HeapIsSound

\* grep writes the matching lines, however read() cuts the file into pieces.
GrepExact == unit = "grep" => G!GrepExact
=============================================================================
