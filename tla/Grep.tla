-------------------------------- MODULE Grep --------------------------------
(***************************************************************************)
(* user/grep.c: the loop that cuts what read() returns into lines, and the *)
(* matcher of patterns with ^ . * and $.  A pattern and a text are         *)
(* sequences of characters; the end of a sequence is the final '\0'.       *)
(***************************************************************************)
EXTENDS Integers, Sequences, SequencesExt

CONSTANTS BUFSIZE,          \* sizeof(buf)
          Patterns, Files,  \* what grep may be given
          Newline

VARIABLES pattern, file,
          pos,     \* how much of the file has been read
          buf,     \* buf[0..m-1]
          out,     \* the lines of this file written to descriptor 1
          state    \* "reading", "end" after a read() of 0 bytes, "error"

vars == <<pattern, file, pos, buf, out, state>>

-----------------------------------------------------------------------------
(* match(), matchhere() and matchstar(): re[1] is re[0] of the code.       *)

RECURSIVE matchhere(_, _), matchstar(_, _, _)

matchhere(re, text) ==
  IF re = <<>> THEN TRUE
  ELSE IF Len(re) > 1 /\ re[2] = "*" THEN matchstar(re[1], SubSeq(re, 3, Len(re)), text)
  ELSE IF re = <<"$">> THEN text = <<>>
  ELSE text # <<>> /\ re[1] \in {".", text[1]} /\ matchhere(Tail(re), Tail(text))

\* Mutant: a star takes all it can.
matchstarGreedy(c, re, text) ==
  IF text # <<>> /\ c \in {".", text[1]} THEN matchstar(c, re, Tail(text)) ELSE matchhere(re, text)

matchstar(c, re, text) ==
  \/ matchhere(re, text)
  \/ text # <<>> /\ c \in {".", text[1]} /\ matchstar(c, re, Tail(text))

match(re, text) ==
  IF re # <<>> /\ re[1] = "^" THEN matchhere(Tail(re), text)
  ELSE \E i \in 0..Len(text) : matchhere(re, SubSeq(text, i + 1, Len(text)))

-----------------------------------------------------------------------------
(* grep().                                                                 *)

\* The complete lines of a text, and what follows the last of them.
Ends(text) == SelectSeq([i \in DOMAIN text |-> i], LAMBDA i : text[i] = Newline)
Lines(text) ==
  LET e == Ends(text)
  IN [k \in DOMAIN e |-> SubSeq(text, (IF k = 1 THEN 0 ELSE e[k - 1]) + 1, e[k] - 1)]
Unfinished(text) == LET e == Ends(text) IN SubSeq(text, (IF e = <<>> THEN 0 ELSE Last(e)) + 1, Len(text))

Init ==
  /\ pattern \in Patterns /\ file \in Files
  /\ pos = 0 /\ buf = <<>> /\ out = <<>> /\ state = "reading"

Room == BUFSIZE - Len(buf) - 1

\* read() returns n bytes, fewer than there is room for if it likes; the lines
\* that are complete are matched and leave the buffer.
Read(n) ==
  /\ state = "reading" /\ n <= Room /\ pos + n <= Len(file)
  /\ \E text \in {buf \o SubSeq(file, pos + 1, pos + n)} :
       /\ out' = out \o SelectSeq(Lines(text), LAMBDA l : match(pattern, l))
       /\ buf' = Unfinished(text)
  /\ pos' = pos + n
  /\ UNCHANGED <<pattern, file, state>>

\* read() returns 0: the file ends, or a line fills the buffer.
ReadNone ==
  /\ state = "reading" /\ (pos = Len(file) \/ Room = 0)
  /\ state' = "end"
  /\ UNCHANGED <<pattern, file, pos, buf, out>>

ReadFails ==
  /\ state = "reading" /\ Room > 0
  /\ state' = "error"
  /\ UNCHANGED <<pattern, file, pos, buf, out>>

\* main() goes on with another file: grep() starts with m = 0, whatever the last
\* file left in buf.
NextFile ==
  /\ state \in {"end", "error"}
  /\ file' \in Files /\ pos' = 0 /\ buf' = <<>> /\ out' = <<>> /\ state' = "reading"
  /\ UNCHANGED pattern

Next == (\E n \in 1..(BUFSIZE - 1) : Read(n)) \/ ReadNone \/ ReadFails \/ NextFile

Spec == Init /\ [][Next]_vars

-----------------------------------------------------------------------------
(* Properties.                                                             *)

\* A pattern as a sequence of items, each a character with or without a star;
\* an unstarred $ at the end is no item.
Anchored(re) == re # <<>> /\ re[1] = "^"
Body(re) == IF Anchored(re) THEN Tail(re) ELSE re
Items(re) ==
  LET from[k \in 1..(Len(re) + 2)] ==
        IF k > Len(re) THEN <<>>
        ELSE LET star == k < Len(re) /\ re[k + 1] = "*"
             IN <<[c |-> re[k], star |-> star]>> \o from[IF star THEN k + 2 ELSE k + 1]
  IN from[1]
ToEnd(items) == items # <<>> /\ Last(items) = [c |-> "$", star |-> FALSE]

\* What a pattern means: the text has a part that can be cut into consecutive
\* pieces, one for each item.
Means(re, text) ==
  \E its \in {Items(Body(re))} :
    LET items == IF ToEnd(its) THEN Front(its) ELSE its
        n == Len(items)
    IN \E cut \in [0..n -> 0..Len(text)] :
         /\ Anchored(re) => cut[0] = 0
         /\ ToEnd(its) => cut[n] = Len(text)
         /\ \A k \in 1..n :
              /\ cut[k - 1] <= cut[k] /\ (items[k].star \/ cut[k] = cut[k - 1] + 1)
              /\ \A i \in (cut[k - 1] + 1)..cut[k] : items[k].c \in {".", text[i]}

\* The lines of the file before the first that does not fit in the buffer.
Seen ==
  LET lines == Lines(file)
      long == {k \in DOMAIN lines : Len(lines[k]) + 1 > BUFSIZE - 1}
  IN IF long = {} THEN lines
     ELSE SubSeq(lines, 1, (CHOOSE k \in long : \A j \in long : k <= j) - 1)

\* However read() divides the file, grep writes the lines that the pattern
\* describes, once and in their order, up to a line that is too long or not
\* finished; and all of them unless a read() failed.
GrepExact ==
  LET want == SelectSeq(Seen, LAMBDA l : Means(pattern, l)) IN
  /\ IsPrefix(out, want)
  /\ state = "end" => out = want
=============================================================================
