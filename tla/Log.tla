-------------------------------- MODULE Log ---------------------------------
(***************************************************************************)
(* The write-ahead log of kernel/log.c, with the part of the buffer cache  *)
(* (kernel/bio.c) it relies on, crashes, and recovery at the next boot.    *)
(*                                                                         *)
(* A critical section of log.lock is one step, and so is the write of one  *)
(* block to disk: bwrite() returns when the disk has the whole block, and  *)
(* a crash comes before or after it.  sleep() and wakeup() are atomic with *)
(* the section of log.lock they are in (module Proc shows why).            *)
(***************************************************************************)
EXTENDS Integers, Sequences, FiniteSets

CONSTANTS Threads,      \* the processes that execute file system calls
          Blocks,       \* block numbers outside the log
          Vals,         \* what a block can hold
          None,         \* no block
          MAXOPBLOCKS,  \* what begin_op() reserves for an operation
          LOGSIZE,      \* what the log holds, according to param.h
          size,         \* log.size: the blocks of the log on disk, header included
          OpBlocks,     \* the most blocks an operation of sysfile.c really writes
          MaxCrash      \* bound: the number of crashes

ASSUME LogAssumption ==
  /\ None \notin Blocks
  /\ IsFiniteSet(Threads)
  /\ MAXOPBLOCKS \in Nat \ {0} /\ LOGSIZE \in Nat /\ size \in Nat
  /\ OpBlocks \in Nat /\ MaxCrash \in Nat

VARIABLES
  home, dlog, dhead,       \* on disk: the blocks, the blocks of the log, the header
  cache, pin,              \* the buffers of bio.c: contents, references by bpin()
  lh, outstanding, committing,   \* struct log; lh.n is Len(lh)
  pc, buf, wrote,          \* each thread: where it is, the buffer it has locked,
                           \* and the blocks its operation has written
  tail,                    \* loop variable of write_log() and install_trans()
  up,                      \* "up", or what recover_from_log() is at
  crashes

disk == <<home, dlog, dhead>>
mem == <<cache, pin>>
log == <<lh, outstanding, committing>>
thread == <<pc, buf, wrote>>
vars == <<disk, mem, log, thread, tail, up, crashes>>

-----------------------------------------------------------------------------
BlocksOf(s) == {s[k] : k \in 1..Len(s)}
At(p, l) == up = "up" /\ pc[p] = l
Goto(p, l) == pc' = [pc EXCEPT ![p] = l]

\* wakeup(&log), by p, which goes on to l.
WakeAnd(p, l) == pc' = [q \in Threads |-> IF q = p THEN l
                                          ELSE IF pc[q] = "asleep" THEN "begin" ELSE pc[q]]

\* bget() may recycle the buffer of a block nobody refers to; the next bread()
\* takes the block from disk.
Evict(b) ==
  /\ up = "up"
  /\ pin[b] = 0 /\ \A p \in Threads : buf[p] # b
  /\ cache' = [cache EXCEPT ![b] = home[b]]
  /\ UNCHANGED <<disk, pin, log, thread, tail, up, crashes>>

-----------------------------------------------------------------------------
(* A file system operation.                                                *)

\* Mutant: begin_op() reserves nothing for the operation it admits.
begin_opNoReserve(p) ==
  /\ At(p, "begin")
  /\ \/ /\ committing \/ Len(lh) + outstanding * MAXOPBLOCKS > LOGSIZE
        /\ Goto(p, "asleep")
        /\ UNCHANGED <<outstanding, wrote>>
     \/ /\ ~committing /\ Len(lh) + outstanding * MAXOPBLOCKS <= LOGSIZE
        /\ outstanding' = outstanding + 1
        /\ Goto(p, "op")
        /\ wrote' = [wrote EXCEPT ![p] = {}]
  /\ UNCHANGED <<disk, mem, lh, committing, buf, tail, up, crashes>>

\* begin_op(), each time round its loop.
begin_op(p) ==
  /\ At(p, "begin")
  /\ \/ /\ committing \/ Len(lh) + (outstanding + 1) * MAXOPBLOCKS > LOGSIZE
        /\ Goto(p, "asleep")
        /\ UNCHANGED <<outstanding, wrote>>
     \/ /\ ~committing /\ Len(lh) + (outstanding + 1) * MAXOPBLOCKS <= LOGSIZE
        /\ outstanding' = outstanding + 1
        /\ Goto(p, "op")
        /\ wrote' = [wrote EXCEPT ![p] = {}]
  /\ UNCHANGED <<disk, mem, lh, committing, buf, tail, up, crashes>>

\* A system call that writes to the file system starts.
Start(p) ==
  /\ At(p, "idle")
  /\ Goto(p, "begin")
  /\ UNCHANGED <<disk, mem, log, buf, wrote, tail, up, crashes>>

\* bread() returns with the buffer locked; its contents are modified.
Modify(p, b, v) ==
  /\ At(p, "op")
  /\ \A q \in Threads : buf[q] # b
  /\ Cardinality(wrote[p] \cup {b}) <= OpBlocks
  /\ cache' = [cache EXCEPT ![b] = v]
  /\ buf' = [buf EXCEPT ![p] = b]
  /\ wrote' = [wrote EXCEPT ![p] = @ \cup {b}]
  /\ Goto(p, "logw")
  /\ UNCHANGED <<disk, pin, log, tail, up, crashes>>

\* The two checks of log_write() that panic.
LogPanics == Len(lh) >= LOGSIZE \/ Len(lh) >= size - 1 \/ outstanding < 1

\* Mutant: log_write() does not pin the buffer.
log_writeNoPin(p) ==
  LET b == buf[p] IN
  /\ At(p, "logw")
  /\ ~LogPanics
  /\ lh' = IF b \in BlocksOf(lh) THEN lh ELSE Append(lh, b)
  /\ buf' = [buf EXCEPT ![p] = None]
  /\ Goto(p, "op")
  /\ UNCHANGED <<disk, mem, outstanding, committing, wrote, tail, up, crashes>>

\* log_write(), then brelse().
log_write(p) ==
  LET b == buf[p] IN
  /\ At(p, "logw")
  /\ ~LogPanics
  /\ \/ /\ b \in BlocksOf(lh)               \* absorption
        /\ UNCHANGED <<lh, pin>>
     \/ /\ b \notin BlocksOf(lh)
        /\ lh' = Append(lh, b)
        /\ pin' = [pin EXCEPT ![b] = @ + 1]
  /\ buf' = [buf EXCEPT ![p] = None]
  /\ Goto(p, "op")
  /\ UNCHANGED <<disk, cache, outstanding, committing, wrote, tail, up, crashes>>

\* end_op() up to the release of log.lock.
end_op(p) ==
  /\ At(p, "op")
  /\ ~committing
  /\ outstanding' = outstanding - 1
  /\ \/ /\ outstanding = 1
        /\ committing' = TRUE
        /\ Goto(p, IF lh = <<>> THEN "done" ELSE "wlog")
     \/ /\ outstanding # 1
        /\ UNCHANGED committing
        /\ WakeAnd(p, "idle")
  /\ UNCHANGED <<disk, mem, lh, buf, wrote, tail, up, crashes>>

-----------------------------------------------------------------------------
(* commit(), by the thread that ended the last operation.                  *)

\* write_log(), one block.
write_log(p) ==
  /\ At(p, "wlog")
  /\ dlog' = [dlog EXCEPT ![tail] = cache[lh[tail]]]
  /\ tail' = IF tail = Len(lh) THEN 1 ELSE tail + 1
  /\ Goto(p, IF tail = Len(lh) THEN "whead" ELSE "wlog")
  /\ UNCHANGED <<home, dhead, mem, log, buf, wrote, up, crashes>>

\* write_head(): "the true point at which the current transaction commits".
write_head(p) ==
  /\ At(p, "whead")
  /\ dhead' = lh
  /\ Goto(p, "install")
  /\ UNCHANGED <<home, dlog, mem, log, buf, wrote, tail, up, crashes>>

\* install_trans(recovering), one block: copy it from the log to its place.
install_trans(recovering) ==
  LET b == lh[tail] IN
  /\ cache' = [cache EXCEPT ![b] = dlog[tail]]
  /\ home' = [home EXCEPT ![b] = dlog[tail]]
  /\ pin' = IF recovering THEN pin ELSE [pin EXCEPT ![b] = @ - 1]
  /\ tail' = IF tail = Len(lh) THEN 1 ELSE tail + 1

Install(p) ==
  /\ At(p, "install")
  /\ install_trans(FALSE)
  /\ Goto(p, IF tail = Len(lh) THEN "clear" ELSE "install")
  /\ UNCHANGED <<dlog, dhead, log, buf, wrote, up, crashes>>

\* log.lh.n = 0; write_head().
Clear(p) ==
  /\ At(p, "clear")
  /\ lh' = <<>>
  /\ dhead' = <<>>
  /\ Goto(p, "done")
  /\ UNCHANGED <<home, dlog, mem, outstanding, committing, buf, wrote, tail, up, crashes>>

\* Mutants: end_op() does not wake those who wait for the commit; it forgets to
\* say that the commit is over.
CommittedNoWakeup(p) ==
  /\ At(p, "done")
  /\ committing' = FALSE
  /\ Goto(p, "idle")
  /\ UNCHANGED <<disk, mem, lh, outstanding, buf, wrote, tail, up, crashes>>

\* The end of end_op(): log.committing = 0; wakeup(&log).
Committed(p) ==
  /\ At(p, "done")
  /\ committing' = FALSE
  /\ WakeAnd(p, "idle")
  /\ UNCHANGED <<disk, mem, lh, outstanding, buf, wrote, tail, up, crashes>>

-----------------------------------------------------------------------------
(* Crash and recovery.                                                     *)

\* Everything in memory is lost.  After the reboot no buffer is cached.
Crash ==
  /\ crashes < MaxCrash
  /\ crashes' = crashes + 1
  /\ up' = "read"
  /\ cache' = home
  /\ pin' = [b \in Blocks |-> 0]
  /\ lh' = <<>> /\ outstanding' = 0 /\ committing' = FALSE
  /\ pc' = [p \in Threads |-> "idle"]
  /\ buf' = [p \in Threads |-> None]
  /\ wrote' = [p \in Threads |-> {}]
  /\ tail' = 1
  /\ UNCHANGED disk

\* read_head() in recover_from_log().
read_head ==
  /\ up = "read"
  /\ lh' = dhead
  /\ up' = IF dhead = <<>> THEN "clear" ELSE "install"
  /\ UNCHANGED <<disk, mem, outstanding, committing, thread, tail, crashes>>

RecoverInstall ==
  /\ up = "install"
  /\ install_trans(TRUE)
  /\ up' = IF tail = Len(lh) THEN "clear" ELSE "install"
  /\ UNCHANGED <<dlog, dhead, log, thread, crashes>>

\* log.lh.n = 0; write_head(): recovery is over and system calls may start.
RecoverClear ==
  /\ up = "clear"
  /\ lh' = <<>>
  /\ dhead' = <<>>
  /\ up' = "up"
  /\ UNCHANGED <<home, dlog, mem, outstanding, committing, thread, tail, crashes>>

-----------------------------------------------------------------------------
\* A file system made by mkfs, at the first boot.
Init ==
  /\ home \in [Blocks -> Vals]
  /\ \E zero \in Vals : dlog = [k \in 1..LOGSIZE |-> zero]
  /\ dhead = <<>>
  /\ cache = home
  /\ pin = [b \in Blocks |-> 0]
  /\ lh = <<>> /\ outstanding = 0 /\ committing = FALSE
  /\ pc = [p \in Threads |-> "idle"]
  /\ buf = [p \in Threads |-> None]
  /\ wrote = [p \in Threads |-> {}]
  /\ tail = 1
  /\ up = "read"
  /\ crashes = 0

OpStep(p) ==
  \/ begin_op(p) \/ log_write(p) \/ end_op(p)

CommitStep(p) ==
  \/ write_log(p) \/ write_head(p) \/ Install(p) \/ Clear(p) \/ Committed(p)

Recover == read_head \/ RecoverInstall \/ RecoverClear

Next ==
  \/ \E p \in Threads :
       \/ Start(p) \/ OpStep(p) \/ CommitStep(p)
       \/ \E b \in Blocks, v \in Vals : Modify(p, b, v)
  \/ \E b \in Blocks : Evict(b)
  \/ Recover
  \/ Crash

Spec == Init /\ [][Next]_vars

\* A system call that has begun goes on and ends; so do a commit and recovery.
Fairness ==
  /\ \A p \in Threads : WF_vars(begin_op(p) \/ log_write(p) \/ CommitStep(p))
                        /\ SF_vars(end_op(p))
  /\ WF_vars(Recover)

FairSpec == Spec /\ Fairness

-----------------------------------------------------------------------------
(* Properties.                                                             *)

Labels == {"idle", "begin", "asleep", "op", "logw", "wlog", "whead", "install",
           "clear", "done"}
Committing == {"wlog", "whead", "install", "clear", "done"}

DiskTypes ==
  /\ home \in [Blocks -> Vals] /\ dlog \in [1..LOGSIZE -> Vals]
  /\ dhead \in Seq(Blocks) /\ Len(dhead) <= LOGSIZE
CacheTypes == cache \in [Blocks -> Vals] /\ pin \in [Blocks -> Nat]
LogTypes ==
  /\ lh \in Seq(Blocks) /\ Len(lh) <= LOGSIZE
  /\ outstanding \in Nat /\ committing \in BOOLEAN
  /\ tail \in Nat \ {0} /\ (lh # <<>> => tail <= Len(lh))
  /\ up \in {"up", "read", "install", "clear"} /\ crashes \in Nat
ThreadTypes ==
  /\ pc \in [Threads -> Labels] /\ buf \in [Threads -> Blocks \cup {None}]
  /\ wrote \in [Threads -> SUBSET Blocks]

\* The types of the C declarations; the loops of commit() stay inside the log.
TypeOK == DiskTypes /\ CacheTypes /\ LogTypes /\ ThreadTypes

\* What recovery would make of the disk: the header says which blocks of the
\* log replace the blocks at home.
Durable ==
  [b \in Blocks |-> IF b \in BlocksOf(dhead)
                    THEN dlog[CHOOSE k \in 1..Len(dhead) : dhead[k] = b]
                    ELSE home[b]]

\* The log keeps its promise: through every interleaving of operations, every
\* commit, and a crash at any moment, recovery included, the disk changes by
\* whole groups of finished operations, and buffers never lose an update.
AD == INSTANCE AtomicDisk WITH
        view <- IF up = "up" THEN cache ELSE Durable,
        durable <- Durable,
        active <- {p \in Threads : up = "up" /\ pc[p] \in {"op", "logw"}}

CrashAtomic == AD!DSpec

\* When the last end_op() has returned, its operations are on disk: with no
\* operation and no commit going on, a crash would lose nothing.
IdleIsDurable ==
  up = "up" /\ outstanding = 0 /\ ~committing => Durable = cache /\ home = cache

\* The panics of log_write() and end_op() cannot happen: begin_op() has
\* reserved enough space, and nobody is in an operation during a commit.
NoLogPanic ==
  \A p \in Threads :
    /\ At(p, "logw") => ~LogPanics
    /\ pc[p] \in {"op", "logw"} => ~committing

\* Every bpin() has its bunpin(): an empty log keeps no buffer from being
\* recycled.
PinsReturned == up = "up" /\ lh = <<>> => \A b \in Blocks : pin[b] = 0

\* A thread asleep in begin_op() is woken.
SleeperWakes == \A p \in Threads : pc[p] = "asleep" ~> pc[p] # "asleep"

=============================================================================
