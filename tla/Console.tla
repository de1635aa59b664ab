------------------------------ MODULE Console -------------------------------
(***************************************************************************)
(* Console input, kernel/console.c: consoleintr() edits the line at the    *)
(* end of a circular buffer, consoleread() takes what has been entered     *)
(* from its front, one critical section of cons.lock after another.  The   *)
(* indices are unsigned ints and wrap.  The echo goes to Uart.             *)
(***************************************************************************)
EXTENDS Naturals, Sequences

CONSTANTS Readers,
          INPUT_BUF_SIZE, UINT,   \* UINT: values of an unsigned int (2^32)
          Letters, Newline, EOF,  \* keys: letters, '\n' or '\r', control-D
          MaxRead                 \* bound on the size of a read

\* The buffer divides the range of its indices (128 and 2^32 in the code), so
\* that the slots go on in order where the indices wrap.
ConsoleConstants ==
  /\ INPUT_BUF_SIZE \in Nat \ {0} /\ UINT \in Nat /\ MaxRead \in Nat
  /\ \E m \in 2..UINT : UINT = m * INPUT_BUF_SIZE

ASSUME ConsoleAssumption == ConsoleConstants

VARIABLES
  cons,     \* buf, r, w, e
  lock,     \* the set with the reader that holds cons.lock, or empty
  rd        \* rd[p]: a call of consoleread()

vars == <<cons, lock, rd>>

Idle == [pc |-> "idle", n |-> 0, target |-> 0, got |-> <<>>]

Init ==
  /\ cons = [buf |-> [k \in 0..(INPUT_BUF_SIZE - 1) |-> Newline], r |-> 0, w |-> 0, e |-> 0]
  /\ lock = {} /\ rd = [p \in Readers |-> Idle]

Sub(a, b) == (a + UINT - b) % UINT
Inc(a) == (a + 1) % UINT
Slot(a) == a % INPUT_BUF_SIZE

-----------------------------------------------------------------------------
(* consoleintr()                                                           *)

\* Mutant: the buffer takes one character more than it has room for.
HasRoomLoose == Sub(cons.e, cons.r) <= INPUT_BUF_SIZE

HasRoom == Sub(cons.e, cons.r) < INPUT_BUF_SIZE

wakeup(p) == IF rd[p].pc = "asleep" THEN "woken" ELSE rd[p].pc

\* A letter, a newline or an end of file.  A line that is complete, or that
\* fills the buffer, is handed over to the readers.
Type(c) ==
  /\ lock = {} /\ HasRoom
  /\ LET e == Inc(cons.e)
         enter == c \in {Newline, EOF} \/ Sub(e, cons.r) = INPUT_BUF_SIZE IN
       /\ cons' = [cons EXCEPT !.buf[Slot(cons.e)] = c, !.e = e, !.w = IF enter THEN e ELSE @]
       /\ rd' = IF enter THEN [p \in Readers |-> [rd[p] EXCEPT !.pc = wakeup(p)]] ELSE rd
  /\ UNCHANGED lock

Backspace ==
  /\ lock = {} /\ cons.e # cons.w
  /\ cons' = [cons EXCEPT !.e = Sub(@, 1)]
  /\ UNCHANGED <<lock, rd>>

\* Control-U: back to the last newline that is not handed over yet, or to w.
KillLine ==
  /\ lock = {} /\ cons.e # cons.w
  /\ LET back == {k \in 0..Sub(cons.e, cons.w) :
                    \A j \in 1..k : cons.buf[Slot(Sub(cons.e, j))] # Newline} IN
       cons' = [cons EXCEPT !.e = Sub(@, CHOOSE k \in back : \A j \in back : j <= k)]
  /\ UNCHANGED <<lock, rd>>

-----------------------------------------------------------------------------
(* consoleread()                                                           *)

Read(p, n) ==
  /\ rd[p].pc = "idle" /\ lock = {} /\ lock' = {p}
  /\ rd' = [rd EXCEPT ![p] = [pc |-> "loop", n |-> n, target |-> n, got |-> <<>>]]
  /\ UNCHANGED cons

Return(p) == lock' = {} /\ rd' = [rd EXCEPT ![p] = Idle]

\* Nothing to read: sleep, or give up when killed.
Wait(p) ==
  /\ rd[p].pc = "loop" /\ rd[p].n > 0 /\ cons.r = cons.w
  /\ \/ lock' = {} /\ rd' = [rd EXCEPT ![p].pc = "asleep"]
     \/ Return(p)
  /\ UNCHANGED cons

\* kill() makes a process that sleeps here runnable.
Kill(p) == rd[p].pc = "asleep" /\ rd' = [rd EXCEPT ![p].pc = "woken"] /\ UNCHANGED <<cons, lock>>

Wake(p) ==
  /\ rd[p].pc = "woken" /\ lock = {} /\ lock' = {p}
  /\ rd' = [rd EXCEPT ![p].pc = "loop"]
  /\ UNCHANGED cons

\* One character: an end of file is put back when the read has something; the
\* copyout may fail; a newline ends the read.
Take(p) ==
  /\ rd[p].pc = "loop" /\ rd[p].n > 0 /\ cons.r # cons.w
  /\ LET c == cons.buf[Slot(cons.r)] IN
       \/ /\ c = EOF
          /\ cons' = IF rd[p].n < rd[p].target THEN cons ELSE [cons EXCEPT !.r = Inc(@)]
          /\ Return(p)
       \/ /\ c # EOF /\ cons' = [cons EXCEPT !.r = Inc(@)]
          /\ Return(p)
       \/ /\ c # EOF /\ cons' = [cons EXCEPT !.r = Inc(@)]
          /\ rd' = [rd EXCEPT ![p].got = Append(@, c), ![p].n = @ - 1, ![p].pc = IF c = Newline THEN "done" ELSE "loop"]
          /\ UNCHANGED lock

Done(p) ==
  /\ rd[p].pc = "done" \/ (rd[p].pc = "loop" /\ rd[p].n = 0)
  /\ Return(p) /\ UNCHANGED cons

Next ==
  \/ \E c \in Letters \cup {Newline, EOF} : Type(c)
  \/ Backspace \/ KillLine
  \/ \E p \in Readers :
       \/ \E n \in 1..MaxRead : Read(p, n)
       \/ Wait(p) \/ Kill(p) \/ Wake(p) \/ Take(p) \/ Done(p)

Spec == Init /\ [][Next]_vars

-----------------------------------------------------------------------------
(* Properties.                                                             *)

\* The characters from index a up to b.
Between(a, b) == [k \in 1..Sub(b, a) |-> cons.buf[Slot(a + k - 1)]]

Editor == INSTANCE LineEditor WITH
  entered <- Between(cons.r, cons.w), line <- Between(cons.w, cons.e),
  read <- [p \in Readers |-> [want |-> rd[p].n, got |-> rd[p].got]]

\* The circular buffer with its three wrapping indices, shared by the
\* interrupt handler and several readers, is a line editor: nothing that is
\* entered is lost, repeated or changed by editing, a read ends where its line
\* ends or it has what it wants and not before, unless it is killed with nothing
\* to read or its buffer is bad, and control-D ends exactly one read.
ConsoleIsLines == Editor!Spec

\* Nobody sleeps in consoleread() beside input that has been entered.
NoLostInputWakeup == \A p \in Readers : rd[p].pc = "asleep" => cons.r = cons.w
=============================================================================
