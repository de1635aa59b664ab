----------------------------- MODULE AtomicDisk -----------------------------
(***************************************************************************)
(* What the log of kernel/log.c promises to the file system above it: the  *)
(* writes of file system operations take effect in memory one by one, and  *)
(* on disk all together, at a moment at which no operation is half done.   *)
(* A crash takes memory back to what is on disk.                           *)
(***************************************************************************)
CONSTANTS Threads,   \* the processes that execute file system calls
          Blocks,    \* block numbers
          Vals       \* what a block can hold

VARIABLES view,      \* what a running file system reads
          durable,   \* what it would read after a crash
          active     \* the threads between begin_op() and end_op()

dvars == <<view, durable, active>>

DInit ==
  /\ view \in [Blocks -> Vals]
  /\ durable = view
  /\ active = {}

DBegin(p) ==
  /\ p \notin active
  /\ active' = active \cup {p}
  /\ UNCHANGED <<view, durable>>

DWrite(p, b, v) ==
  /\ p \in active
  /\ view' = [view EXCEPT ![b] = v]
  /\ UNCHANGED <<durable, active>>

DEnd(p) ==
  /\ p \in active
  /\ active' = active \ {p}
  /\ UNCHANGED <<view, durable>>

DCommit ==
  /\ active = {}
  /\ durable' = view
  /\ UNCHANGED <<view, active>>

DCrash ==
  /\ view' = durable
  /\ active' = {}
  /\ UNCHANGED durable

DNext ==
  \/ \E p \in Threads :
       \/ DBegin(p) \/ DEnd(p)
       \/ \E b \in Blocks, v \in Vals : DWrite(p, b, v)
  \/ DCommit
  \/ DCrash

DSpec == DInit /\ [][DNext]_dvars
=============================================================================
