-------------------------------- MODULE Pipe --------------------------------
(***************************************************************************)
(* A pipe of kernel/pipe.c from pipealloc() to kfree(), and the processes  *)
(* that hold its ends.                                                     *)
(*                                                                         *)
(* A step is one turn of a loop with pi->lock held: kill() needs only the  *)
(* p->lock of its victim and may come between any two of them.  So may it  *)
(* between the look at killed() and the sleep().                           *)
(***************************************************************************)
EXTENDS Naturals, Sequences, FiniteSets

CONSTANTS Procs, NoProc,
          PIPESIZE,
          UINT,         \* uints count modulo UINT, 2^32 in the program
          Bytes,
          MaxN,         \* bound: the most bytes a call asks for
          FirstEnds,    \* who holds which ends of the new pipe
          Killable      \* who may be killed

ASSUME PipeAssumption ==
  /\ NoProc \notin Procs
  /\ PIPESIZE \in Nat \ {0} /\ UINT \in Nat /\ MaxN \in Nat
  /\ \E m \in 2..UINT : UINT = m * PIPESIZE
  /\ FirstEnds \in [Procs -> SUBSET {"r", "w"}]
  /\ \A e \in {"r", "w"} : \E p \in Procs : e \in FirstEnds[p]
  /\ Killable \subseteq Procs

VARIABLES
  data, nread, nwrite, readopen, writeopen,   \* struct pipe
  lock,        \* who holds pi->lock
  frees,       \* how often kfree(pi) was called
  ends,        \* the ends each process has open files for
  killed,
  pc, n, i     \* each process: label, bytes asked for, bytes moved

pipe == <<data, nread, nwrite, readopen, writeopen>>
vars == <<pipe, lock, frees, ends, killed, pc, n, i>>

-----------------------------------------------------------------------------
Empty == nread = nwrite
Full == nwrite = (nread + PIPESIZE) % UINT

Goto(p, l) == pc' = [pc EXCEPT ![p] = l]

\* p goes to l, and all who sleep at channel s are runnable again and will
\* take pi->lock before they go on.
GotoAndWake(p, l, s, again) ==
  pc' = [x \in Procs |-> IF x = p THEN l ELSE IF pc[x] = s THEN again ELSE pc[x]]

wakeup_nread(p, l) == GotoAndWake(p, l, "rsleep", "rlock")
wakeup_nwrite(p, l) == GotoAndWake(p, l, "wsleep", "wlock")

Reset(p) == n' = [n EXCEPT ![p] = 0] /\ i' = [i EXCEPT ![p] = 0]

\* A process that knows it was killed makes no more calls.
Call(p, e, l) ==
  /\ pc[p] = "idle" /\ ~killed[p] /\ e \in ends[p]
  /\ \E k \in 0..MaxN : n' = [n EXCEPT ![p] = k]
  /\ Goto(p, l)
  /\ UNCHANGED <<pipe, lock, frees, ends, killed, i>>

pipewrite(p) == Call(p, "w", "wlock")
piperead(p) == Call(p, "r", "rlock")

\* acquire(&pi->lock), at the start of a call or at the end of sleep().
Acquire(p) ==
  /\ lock = NoProc
  /\ \/ pc[p] = "wlock" /\ Goto(p, "write")
     \/ pc[p] = "rlock" /\ Goto(p, "rwait")
  /\ lock' = p
  /\ UNCHANGED <<pipe, frees, ends, killed, n, i>>

\* sleep() makes the process SLEEPING before it lets go of pi->lock.
Sleep(p) ==
  /\ \/ pc[p] = "wfull" /\ Goto(p, "wsleep")
     \/ pc[p] = "rempty" /\ Goto(p, "rsleep")
  /\ lock' = NoProc
  /\ UNCHANGED <<pipe, frees, ends, killed, n, i>>

-----------------------------------------------------------------------------
(* pipewrite()                                                             *)

\* Nobody will read it, or the process was killed.
WriteGivesUp(p) ==
  /\ pc[p] = "write" /\ i[p] < n[p]
  /\ ~readopen \/ killed[p]
  /\ Goto(p, "idle") /\ lock' = NoProc /\ Reset(p)
  /\ UNCHANGED <<pipe, frees, ends, killed>>

\* Mutant: no wakeup before the sleep.
WriteFullSilent(p) ==
  /\ pc[p] = "write" /\ i[p] < n[p]
  /\ readopen /\ ~killed[p]
  /\ Full
  /\ Goto(p, "wfull")
  /\ UNCHANGED <<pipe, lock, frees, ends, killed, n, i>>

WriteFull(p) ==
  /\ pc[p] = "write" /\ i[p] < n[p]
  /\ readopen /\ ~killed[p]
  /\ Full
  /\ wakeup_nread(p, "wfull")
  /\ UNCHANGED <<pipe, lock, frees, ends, killed, n, i>>

\* Mutant: nobody looks whether the pipe is full.
WriteByteOver(p, c) ==
  /\ pc[p] = "write" /\ i[p] < n[p]
  /\ readopen /\ ~killed[p]
  /\ data' = [data EXCEPT ![nwrite % PIPESIZE] = c]
  /\ nwrite' = (nwrite + 1) % UINT
  /\ i' = [i EXCEPT ![p] = @ + 1]
  /\ UNCHANGED <<nread, readopen, writeopen, lock, frees, ends, killed, pc, n>>

WriteByte(p, c) ==
  /\ pc[p] = "write" /\ i[p] < n[p]
  /\ readopen /\ ~killed[p]
  /\ ~Full
  /\ data' = [data EXCEPT ![nwrite % PIPESIZE] = c]
  /\ nwrite' = (nwrite + 1) % UINT
  /\ i' = [i EXCEPT ![p] = @ + 1]
  /\ UNCHANGED <<nread, readopen, writeopen, lock, frees, ends, killed, pc, n>>

\* All is written, or copyin() fails.
WriteEnd(p) ==
  /\ pc[p] = "write"
  /\ i[p] < n[p] => readopen /\ ~killed[p] /\ ~Full
  /\ wakeup_nread(p, "idle")
  /\ lock' = NoProc /\ Reset(p)
  /\ UNCHANGED <<pipe, frees, ends, killed>>

-----------------------------------------------------------------------------
(* piperead()                                                              *)

ReadWait(p) ==
  /\ pc[p] = "rwait"
  /\ Empty /\ writeopen
  /\ \/ killed[p] /\ Goto(p, "idle") /\ lock' = NoProc /\ Reset(p)
     \/ ~killed[p] /\ Goto(p, "rempty") /\ UNCHANGED <<lock, n, i>>
  /\ UNCHANGED <<pipe, frees, ends, killed>>

\* Mutant: one look at the pipe after a sleep is thought enough.
ReadStartBlind(p) ==
  /\ pc[p] = "rwait"
  /\ Goto(p, "read")
  /\ UNCHANGED <<pipe, lock, frees, ends, killed, n, i>>

ReadStart(p) ==
  /\ pc[p] = "rwait"
  /\ ~Empty \/ ~writeopen
  /\ Goto(p, "read")
  /\ UNCHANGED <<pipe, lock, frees, ends, killed, n, i>>

\* One byte.  When copyout() fails the byte is gone and the loop ends.
ReadByte(p) ==
  /\ pc[p] = "read" /\ i[p] < n[p] /\ ~Empty
  /\ nread' = (nread + 1) % UINT
  /\ \/ i' = [i EXCEPT ![p] = @ + 1] /\ UNCHANGED <<pc, lock, n>>
     \/ wakeup_nwrite(p, "idle") /\ lock' = NoProc /\ Reset(p)
  /\ UNCHANGED <<data, nwrite, readopen, writeopen, frees, ends, killed>>

ReadEnd(p) ==
  /\ pc[p] = "read"
  /\ i[p] = n[p] \/ Empty
  /\ wakeup_nwrite(p, "idle")
  /\ lock' = NoProc /\ Reset(p)
  /\ UNCHANGED <<pipe, frees, ends, killed>>

-----------------------------------------------------------------------------
(* Closing, and kill()                                                     *)

\* fileclose(): only the last reference to the file closes the end.
fileclose(p, e) ==
  /\ pc[p] = "idle" /\ e \in ends[p]
  /\ ends' = [ends EXCEPT ![p] = @ \ {e}]
  /\ Goto(p, IF \E x \in Procs \ {p} : e \in ends[x] THEN "idle"
             ELSE IF e = "r" THEN "rclose" ELSE "wclose")
  /\ UNCHANGED <<pipe, lock, frees, killed, n, i>>

\* Mutant: the close of either end frees the pipe.
pipecloseEither(p) ==
  /\ lock = NoProc
  /\ \/ /\ pc[p] = "wclose"
        /\ writeopen' = FALSE /\ UNCHANGED readopen
        /\ wakeup_nread(p, "free")
     \/ /\ pc[p] = "rclose"
        /\ readopen' = FALSE /\ UNCHANGED writeopen
        /\ wakeup_nwrite(p, "free")
  /\ UNCHANGED <<data, nread, nwrite, lock, frees, ends, killed, n, i>>

pipeclose(p) ==
  /\ lock = NoProc
  /\ \/ /\ pc[p] = "wclose"
        /\ writeopen' = FALSE /\ UNCHANGED readopen
        /\ wakeup_nread(p, IF readopen THEN "idle" ELSE "free")
     \/ /\ pc[p] = "rclose"
        /\ readopen' = FALSE /\ UNCHANGED writeopen
        /\ wakeup_nwrite(p, IF writeopen THEN "idle" ELSE "free")
  /\ UNCHANGED <<data, nread, nwrite, lock, frees, ends, killed, n, i>>

\* kfree(pi), after the lock was released.
Free(p) ==
  /\ pc[p] = "free"
  /\ frees' = frees + 1
  /\ Goto(p, "idle")
  /\ UNCHANGED <<pipe, lock, ends, killed, n, i>>

\* kill() makes its victim runnable again, if it sleeps.
kill(p) ==
  /\ p \in Killable /\ ~killed[p]
  /\ killed' = [killed EXCEPT ![p] = TRUE]
  /\ Goto(p, CASE pc[p] = "rsleep" -> "rlock" [] pc[p] = "wsleep" -> "wlock" [] OTHER -> pc[p])
  /\ UNCHANGED <<pipe, lock, frees, ends, n, i>>

-----------------------------------------------------------------------------
\* pipealloc(), and the fork()s and close()s that hand out the ends.
Init ==
  /\ \E c \in Bytes : data = [k \in 0..PIPESIZE-1 |-> c]
  /\ nread = 0 /\ nwrite = 0
  /\ readopen = TRUE /\ writeopen = TRUE
  /\ lock = NoProc /\ frees = 0
  /\ ends = FirstEnds
  /\ killed = [p \in Procs |-> FALSE]
  /\ pc = [p \in Procs |-> "idle"]
  /\ n = [p \in Procs |-> 0] /\ i = [p \in Procs |-> 0]

Next ==
  \E p \in Procs :
    \/ pipewrite(p) \/ piperead(p) \/ Acquire(p) \/ Sleep(p)
    \/ WriteGivesUp(p) \/ WriteFull(p) \/ (\E c \in Bytes : WriteByte(p, c)) \/ WriteEnd(p)
    \/ ReadWait(p) \/ ReadStart(p) \/ ReadByte(p) \/ ReadEnd(p)
    \/ (\E e \in {"r", "w"} : fileclose(p, e)) \/ pipeclose(p) \/ Free(p)
    \/ kill(p)

Spec == Init /\ [][Next]_vars

-----------------------------------------------------------------------------
(* Properties.                                                             *)

Writing == {"wlock", "write", "wfull", "wsleep"}
Reading == {"rlock", "rwait", "rempty", "rsleep", "read"}
Locked == {"write", "wfull", "rwait", "rempty", "read"}

\* The types of the C declarations; the lock is held by the one process that is
\* where the code holds it.
TypeOK ==
  /\ data \in [0..PIPESIZE-1 -> Bytes]
  /\ nread \in 0..UINT-1 /\ nwrite \in 0..UINT-1
  /\ readopen \in BOOLEAN /\ writeopen \in BOOLEAN
  /\ lock \in Procs \cup {NoProc} /\ frees \in Nat
  /\ ends \in [Procs -> SUBSET {"r", "w"}] /\ killed \in [Procs -> BOOLEAN]
  /\ pc \in [Procs -> {"idle", "wclose", "rclose", "free"} \cup Writing \cup Reading]
  /\ n \in [Procs -> 0..MaxN] /\ i \in [Procs -> 0..MaxN]
  /\ \A p \in Procs : pc[p] \in Locked <=> lock = p

\* The bytes in the pipe, oldest first.
InPipe ==
  [k \in 1..((nwrite + UINT - nread) % UINT) |-> data[(nread + k - 1) % PIPESIZE]]

Q == INSTANCE ByteQueue WITH Capacity <- PIPESIZE, q <- InPipe,
                             readEnd <- readopen, writeEnd <- writeopen

\* The ring and its two wrapping counters are a bounded first-in first-out
\* queue, whatever readers, writers, closes and kills do.
PipeIsQueue == Q!QSpec

\* The page of the pipe is freed once at most, and when nobody is in pipe code or
\* may ever enter it.
FreedLast ==
  /\ frees <= 1
  /\ frees = 1 => \A p \in Procs : pc[p] = "idle" /\ ends[p] = {}

\* No wakeup is lost: with pi->lock free a reader sleeps only while the pipe is
\* empty and can still be written to, and a writer only while it is full and can
\* still be read.  (A killed writer is the exception: it returns
\* without waking the readers of what it wrote.)
NoLostPipeWakeup ==
  lock = NoProc =>
    \A p \in Procs :
      /\ pc[p] = "rsleep" => writeopen /\ (Empty \/ \E x \in Procs : killed[x])
      /\ pc[p] = "wsleep" => readopen /\ Full

\* A read of one byte or more returns 0, the end of the file, only when nobody can
\* write any more and all bytes have been read (or copyout() fails).
ZeroAtEof ==
  \A p \in Procs :
    pc[p] = "read" /\ pc'[p] = "idle" /\ n[p] > 0 /\ i[p] = 0 /\ nread' = nread
      => Empty /\ ~writeopen

\* The same as a property of all steps of a pipe.
ZeroMeansEof == [][ZeroAtEof]_vars
=============================================================================
