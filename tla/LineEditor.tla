----------------------------- MODULE LineEditor -----------------------------
(***************************************************************************)
(* What the console is to those who type and read: the line that is being  *)
(* typed can still be edited; what has been entered is read in order, once *)
(* each, a line to a read at most, and an end of file ends one read with   *)
(* nothing in it.                                                          *)
(***************************************************************************)
EXTENDS Naturals, Sequences

CONSTANTS Readers, INPUT_BUF_SIZE, Letters, Newline, EOF, MaxRead

VARIABLES entered, line,
          read      \* read[p]: how many bytes p still wants, and what it has got

NoRead == [want |-> 0, got |-> <<>>]

Init == entered = <<>> /\ line = <<>> /\ read = [p \in Readers |-> NoRead]

\* A full buffer takes nothing more; a line that fills it is entered as it is.
Type(c) ==
  LET l == Append(line, c) IN
  /\ Len(entered) + Len(line) < INPUT_BUF_SIZE
  /\ IF c \in {Newline, EOF} \/ Len(entered) + Len(l) = INPUT_BUF_SIZE
     THEN entered' = entered \o l /\ line' = <<>>
     ELSE line' = l /\ UNCHANGED entered
  /\ UNCHANGED read

Erase == line # <<>> /\ line' = SubSeq(line, 1, Len(line) - 1) /\ UNCHANGED <<entered, read>>
KillLine == line' = <<>> /\ UNCHANGED <<entered, read>>

Read(p, n) ==
  /\ read[p] = NoRead /\ read' = [read EXCEPT ![p] = [want |-> n, got |-> <<>>]]
  /\ UNCHANGED <<entered, line>>

\* A read goes on until it has what it wants, or the end of a line.
GoesOn(p) == read[p].want > 0 /\ \A k \in DOMAIN read[p].got : read[p].got[k] # Newline

Take(p) ==
  /\ GoesOn(p) /\ entered # <<>> /\ Head(entered) # EOF
  /\ read' = [read EXCEPT ![p] = [want |-> read[p].want - 1, got |-> Append(read[p].got, Head(entered))]]
  /\ entered' = Tail(entered) /\ UNCHANGED line

Return(p) == read' = [read EXCEPT ![p] = NoRead] /\ UNCHANGED line

Finish(p) == ~GoesOn(p) /\ Return(p) /\ UNCHANGED entered

\* An end of file ends a read; one that has nothing uses it up.
TakeEof(p) ==
  /\ GoesOn(p) /\ entered # <<>> /\ Head(entered) = EOF
  /\ entered' = IF read[p].got = <<>> THEN Tail(entered) ELSE entered
  /\ Return(p)

\* A byte that cannot be stored for its reader is lost, and ends the read.
Lose(p) ==
  /\ GoesOn(p) /\ entered # <<>> /\ Head(entered) # EOF
  /\ entered' = Tail(entered) /\ Return(p)

\* A reader that is killed gives up, but not while there is something to read.
GiveUp(p) == GoesOn(p) /\ entered = <<>> /\ Return(p) /\ UNCHANGED entered

Next ==
  \/ \E c \in Letters \cup {Newline, EOF} : Type(c)
  \/ Erase \/ KillLine
  \/ \E p \in Readers : \/ \E n \in 1..MaxRead : Read(p, n)
                        \/ Take(p) \/ Finish(p) \/ TakeEof(p) \/ Lose(p) \/ GiveUp(p)

Spec == Init /\ [][Next]_<<entered, line, read>>
=============================================================================
