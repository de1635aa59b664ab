---------------------------- MODULE ShellSyntax -----------------------------
(***************************************************************************)
(* The parser of user/sh.c.  A command line is the sequence of the tokens  *)
(* that gettoken() finds in it: "w" for a word, ">>" for the '+' that it   *)
(* returns for two '>', the other symbols for themselves.  The parser      *)
(* keeps pointers into the line, which are here the positions of the       *)
(* words; each parsing function takes the position *ps and returns it with *)
(* the command, and a panic() of the parser is Panic.                      *)
(***************************************************************************)
EXTENDS Naturals, Sequences

LOCAL INSTANCE SequencesExt

CONSTANT MAXARGS

Panic == [type |-> "PANIC"]
execcmd(argv) == [type |-> "EXEC", argv |-> argv]
redircmd(cmd, file, mode, fd) == [type |-> "REDIR", cmd |-> cmd, file |-> file, mode |-> mode, fd |-> fd]
pipecmd(left, right) == [type |-> "PIPE", left |-> left, right |-> right]
listcmd(left, right) == [type |-> "LIST", left |-> left, right |-> right]
backcmd(cmd) == [type |-> "BACK", cmd |-> cmd]

gettoken(s, i) == IF i <= Len(s) THEN s[i] ELSE "0"
peek(s, i, toks) == gettoken(s, i) \in toks

\* What a parsing function returns.
At(cmd, i) == [cmd |-> cmd, i |-> i]
Failed(r) == r.cmd = Panic

\* The redirections from position i on, innermost first.
RECURSIVE Redirs(_, _)
Redirs(s, i) ==
  IF ~peek(s, i, {"<", ">", ">>"}) THEN [list |-> <<>>, i |-> i, ok |-> TRUE]
  ELSE IF gettoken(s, i + 1) # "w" THEN [list |-> <<>>, i |-> i, ok |-> FALSE]
  ELSE LET r == Redirs(s, i + 2) IN
         [r EXCEPT !.list = <<i>> \o @]

redirection(s, cmd, i) ==
  CASE s[i] = "<"  -> redircmd(cmd, i + 1, "read", 0)
    [] s[i] = ">"  -> redircmd(cmd, i + 1, "trunc", 1)
    [] s[i] = ">>" -> redircmd(cmd, i + 1, "append", 1)

\* parseredirs() wraps each redirection around those before it.
Wrap(s, cmd, list) == FoldLeft(LAMBDA c, i : redirection(s, c, i), cmd, list)

\* The loop of parseexec(): words and redirections up to a symbol or the end.
RECURSIVE Words(_, _, _, _)
Words(s, i, argv, list) ==
  IF peek(s, i, {"|", ")", "&", ";", "0"}) THEN At(Wrap(s, execcmd(argv), list), i)
  ELSE IF gettoken(s, i) # "w" \/ Len(argv) + 1 >= MAXARGS THEN At(Panic, i)
  ELSE LET r == Redirs(s, i + 1) IN
         IF r.ok THEN Words(s, r.i, Append(argv, i), list \o r.list) ELSE At(Panic, i)

RECURSIVE parseline(_, _), parsepipe(_, _), parseexec(_, _), Backs(_, _)

parseexec(s, i) ==
  IF peek(s, i, {"("})
  THEN LET b == parseline(s, i + 1) IN      \* parseblock()
       IF Failed(b) \/ ~peek(s, b.i, {")"}) THEN At(Panic, i)
       ELSE LET r == Redirs(s, b.i + 1) IN
              At(IF r.ok THEN Wrap(s, b.cmd, r.list) ELSE Panic, r.i)
  ELSE LET r == Redirs(s, i) IN
         IF r.ok THEN Words(s, r.i, <<>>, r.list) ELSE At(Panic, i)

parsepipe(s, i) ==
  LET l == parseexec(s, i) IN
  IF Failed(l) \/ ~peek(s, l.i, {"|"}) THEN l
  ELSE LET r == parsepipe(s, l.i + 1) IN
         At(IF Failed(r) THEN Panic ELSE pipecmd(l.cmd, r.cmd), r.i)

\* The "&" after a pipeline.
Backs(s, r) ==
  IF Failed(r) \/ ~peek(s, r.i, {"&"}) THEN r ELSE Backs(s, At(backcmd(r.cmd), r.i + 1))

\* Mutant: "&" also ends a command, as ";" does.
EndsCommandAmp(s, i) == peek(s, i, {";"}) \/ (peek(s, i, {"w"}) /\ i > 1 /\ s[i - 1] = "&")

EndsCommand(s, i) == peek(s, i, {";"})

parseline(s, i) ==
  LET l == Backs(s, parsepipe(s, i)) IN
  IF Failed(l) \/ ~EndsCommand(s, l.i) THEN l
  ELSE LET r == parseline(s, l.i + 1) IN
         At(IF Failed(r) THEN Panic ELSE listcmd(l.cmd, r.cmd), r.i)

parsecmd(s) ==
  LET r == parseline(s, 1) IN IF r.i <= Len(s) THEN Panic ELSE r.cmd

\* The words that nulterminate() ends with a NUL.
RECURSIVE nulterminate(_)
nulterminate(cmd) ==
  CASE cmd.type = "EXEC"  -> {cmd.argv[k] : k \in DOMAIN cmd.argv}
    [] cmd.type = "REDIR" -> nulterminate(cmd.cmd) \cup {cmd.file}
    [] cmd.type = "BACK"  -> nulterminate(cmd.cmd)
    [] cmd.type \in {"LIST", "PIPE"} -> nulterminate(cmd.left) \cup nulterminate(cmd.right)

-----------------------------------------------------------------------------
(* The grammar: all the ways to read the tokens lo to hi as a command.     *)

RedirsIn(s, lo, hi) == {k \in lo..hi : s[k] \in {"<", ">", ">>"}}
Redirected(s, cmd, lo, hi) == Wrap(s, cmd, SetToSortSeq(RedirsIn(s, lo, hi), <))
WordsIn(s, lo, hi) == {k \in lo..hi : s[k] = "w" /\ k - 1 \notin RedirsIn(s, lo, hi)}

\* Words and redirections, each redirection followed by the name of its file.
Plain(s, lo, hi) ==
  /\ \A k \in lo..hi : s[k] \in {"w", "<", ">", ">>"}
  /\ \A k \in RedirsIn(s, lo, hi) : k < hi /\ s[k + 1] = "w"

Simple(s, lo, hi) ==
  LET argv == SetToSortSeq(WordsIn(s, lo, hi), <) IN
  IF Plain(s, lo, hi) /\ Len(argv) < MAXARGS
  THEN {Redirected(s, execcmd(argv), lo, hi)} ELSE {}

RECURSIVE CommandLine(_, _, _), Background(_, _, _), Pipeline(_, _, _)

Block(s, lo, hi) ==
  UNION {{Redirected(s, c, k + 1, hi) : c \in CommandLine(s, lo + 1, k - 1)} :
           k \in {j \in (lo + 1)..hi : /\ s[lo] = "(" /\ s[j] = ")"
                                       /\ Plain(s, j + 1, hi) /\ WordsIn(s, j + 1, hi) = {}}}

Command(s, lo, hi) == Simple(s, lo, hi) \cup Block(s, lo, hi)

Pipeline(s, lo, hi) ==
  Command(s, lo, hi) \cup
  UNION {{pipecmd(p[1], p[2]) : p \in Command(s, lo, k - 1) \X Pipeline(s, k + 1, hi)} :
           k \in {j \in lo..hi : s[j] = "|"}}

Background(s, lo, hi) ==
  Pipeline(s, lo, hi) \cup
  IF lo <= hi /\ s[hi] = "&" THEN {backcmd(c) : c \in Background(s, lo, hi - 1)} ELSE {}

CommandLine(s, lo, hi) ==
  Background(s, lo, hi) \cup
  UNION {{listcmd(p[1], p[2]) : p \in Background(s, lo, k - 1) \X CommandLine(s, k + 1, hi)} :
           k \in {j \in lo..hi : s[j] = ";"}}

\* parsecmd() accepts exactly the lines of the grammar, each has one reading
\* and that is the tree it builds, and nulterminate() reaches every word of it.
ReadsAsWritten(s) ==
  \A cmd \in {parsecmd(s)} :
    /\ CommandLine(s, 1, Len(s)) = IF cmd = Panic THEN {} ELSE {cmd}
    /\ cmd # Panic => nulterminate(cmd) = {k \in DOMAIN s : s[k] = "w"}
=============================================================================
