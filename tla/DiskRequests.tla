---------------------------- MODULE DiskRequests ----------------------------
(***************************************************************************)
(* What virtio_disk_rw() promises its callers: between the call and the    *)
(* return the block moves once, between the caller's buffer and the place  *)
(* of that buffer on the disk, in the direction asked for.                 *)
(***************************************************************************)
CONSTANTS Threads, Vals, None

VARIABLES platter,   \* the block on the disk of each thread's buffer
          mem,       \* b->data of each thread's buffer, during the call
          req,       \* "none", "read" or "write"
          moved

dvars == <<platter, mem, req, moved>>

DInit ==
  /\ platter \in [Threads -> Vals] /\ mem = [t \in Threads |-> None]
  /\ req = [t \in Threads |-> "none"] /\ moved = [t \in Threads |-> FALSE]

DCall(t, op, v) ==
  /\ req[t] = "none"
  /\ req' = [req EXCEPT ![t] = op]
  /\ mem' = [mem EXCEPT ![t] = v]
  /\ UNCHANGED <<platter, moved>>

DMove(t) ==
  /\ req[t] # "none" /\ ~moved[t]
  /\ moved' = [moved EXCEPT ![t] = TRUE]
  /\ \/ req[t] = "read" /\ mem' = [mem EXCEPT ![t] = platter[t]] /\ UNCHANGED platter
     \/ req[t] = "write" /\ platter' = [platter EXCEPT ![t] = mem[t]] /\ UNCHANGED mem
  /\ UNCHANGED req

DReturn(t) ==
  /\ moved[t]
  /\ req' = [req EXCEPT ![t] = "none"] /\ moved' = [moved EXCEPT ![t] = FALSE]
  /\ mem' = [mem EXCEPT ![t] = None]
  /\ UNCHANGED platter

DNext ==
  \E t \in Threads :
    \/ \E op \in {"read", "write"}, v \in Vals \cup {None} : DCall(t, op, v)
    \/ DMove(t) \/ DReturn(t)

DSpec == DInit /\ [][DNext]_dvars
=============================================================================
