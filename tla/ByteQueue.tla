----------------------------- MODULE ByteQueue -----------------------------
(***************************************************************************)
(* What a pipe promises: a bounded queue of bytes with two ends.  Nothing  *)
(* goes in when either end is closed, and an end once closed stays closed. *)
(***************************************************************************)
EXTENDS Naturals, Sequences

CONSTANTS Bytes, Capacity

VARIABLES q, readEnd, writeEnd

qvars == <<q, readEnd, writeEnd>>

QInit == q = <<>> /\ readEnd = TRUE /\ writeEnd = TRUE

QPut(c) ==
  /\ readEnd /\ writeEnd
  /\ Len(q) < Capacity
  /\ q' = Append(q, c)
  /\ UNCHANGED <<readEnd, writeEnd>>

QGet ==
  /\ readEnd /\ q # <<>>
  /\ q' = Tail(q)
  /\ UNCHANGED <<readEnd, writeEnd>>

QCloseRead == readEnd /\ readEnd' = FALSE /\ UNCHANGED <<q, writeEnd>>
QCloseWrite == writeEnd /\ writeEnd' = FALSE /\ UNCHANGED <<q, readEnd>>

QNext == (\E c \in Bytes : QPut(c)) \/ QGet \/ QCloseRead \/ QCloseWrite

QSpec == QInit /\ [][QNext]_qvars
=============================================================================
