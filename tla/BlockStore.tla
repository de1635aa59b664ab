----------------------------- MODULE BlockStore -----------------------------
(***************************************************************************)
(* What the buffer cache of kernel/bio.c promises: each block of the disk  *)
(* is a memory cell behind a lock of its own, however few buffers there    *)
(* are.                                                                    *)
(***************************************************************************)
CONSTANTS Threads, Blocks, Vals, NoThread

VARIABLES val,      \* what each block holds
          owner     \* the thread that has it locked

bvars == <<val, owner>>

BInit == val \in [Blocks -> Vals] /\ owner = [k \in Blocks |-> NoThread]

BLock(t, k) ==
  /\ owner[k] = NoThread
  /\ owner' = [owner EXCEPT ![k] = t]
  /\ UNCHANGED val

BWrite(t, k, v) ==
  /\ owner[k] = t
  /\ val' = [val EXCEPT ![k] = v]
  /\ UNCHANGED owner

BUnlock(t, k) ==
  /\ owner[k] = t
  /\ owner' = [owner EXCEPT ![k] = NoThread]
  /\ UNCHANGED val

BNext ==
  \E t \in Threads, k \in Blocks :
    \/ BLock(t, k) \/ BUnlock(t, k)
    \/ \E v \in Vals : BWrite(t, k, v)

BSpec == BInit /\ [][BNext]_bvars
=============================================================================
