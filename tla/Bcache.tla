------------------------------- MODULE Bcache -------------------------------
(***************************************************************************)
(* The buffer cache of kernel/bio.c with the sleep locks of                *)
(* kernel/sleeplock.c that guard its buffers.                              *)
(*                                                                         *)
(* A critical section of bcache.lock, or of the spinlock in a sleep lock,  *)
(* is one step.  The disk moves a whole block, some time after it is asked *)
(* to (module VirtioDisk has the details).                                 *)
(***************************************************************************)
EXTENDS Integers, Sequences, FiniteSets

CONSTANTS Threads, Blocks, Vals,
          NBUF,           \* the number of buffers
          MaxPins,        \* the most blocks the log pins at a time
          None            \* no thread, block or buffer

Bufs == 1..NBUF

ASSUME BcacheAssumption ==
  /\ None \notin Threads \cup Blocks \cup Bufs
  /\ IsFiniteSet(Threads)
  /\ NBUF \in Nat /\ MaxPins \in Nat

VARIABLES
  blockno, valid, refcnt, data,   \* struct buf
  lock,              \* b->lock: the thread that holds it
  lru,               \* the list from bcache.head.next on: recently used first
  disk,
  pc, blk, buf,      \* each thread: label, the block it wants, its buffer
  client,            \* what it has done to the buffer: none, dirty, written
  pins               \* blocks that the log has pinned

cache == <<blockno, valid, refcnt, data, lock, lru>>
thread == <<pc, blk, buf, client>>
vars == <<cache, disk, thread, pins>>

-----------------------------------------------------------------------------
Goto(t, l) == pc' = [pc EXCEPT ![t] = l]

\* b moves to the head of the list.
MoveToFront(b) == <<b>> \o SelectSeq(lru, LAMBDA x : x # b)

Cached(k) == {b \in Bufs : blockno[b] = k}
Unused == {b \in Bufs : refcnt[b] = 0}

\* bget(), the block is cached.
bgetHit(t, k, b) ==
  /\ pc[t] = "idle"
  /\ b \in Cached(k)
  /\ refcnt' = [refcnt EXCEPT ![b] = @ + 1]
  /\ blk' = [blk EXCEPT ![t] = k] /\ buf' = [buf EXCEPT ![t] = b]
  /\ Goto(t, "lock")
  /\ UNCHANGED <<blockno, valid, data, lock, lru, disk, client, pins>>

\* Buffer b is given to block k and thread t.
Recycle(t, k, b) ==
  /\ blockno' = [blockno EXCEPT ![b] = k]
  /\ valid' = [valid EXCEPT ![b] = FALSE]
  /\ refcnt' = [refcnt EXCEPT ![b] = 1]
  /\ blk' = [blk EXCEPT ![t] = k] /\ buf' = [buf EXCEPT ![t] = b]
  /\ Goto(t, "lock")
  /\ UNCHANGED <<data, lock, lru, disk, client, pins>>

\* Mutant: bget() does not clear valid.
bgetMissValid(t, k, b) ==
  /\ pc[t] = "idle"
  /\ Cached(k) = {}
  /\ \E i \in 1..Len(lru) : b = lru[i] /\ \A j \in i+1..Len(lru) : lru[j] \notin Unused
  /\ b \in Unused
  /\ blockno' = [blockno EXCEPT ![b] = k]
  /\ refcnt' = [refcnt EXCEPT ![b] = 1]
  /\ blk' = [blk EXCEPT ![t] = k] /\ buf' = [buf EXCEPT ![t] = b]
  /\ Goto(t, "lock")
  /\ UNCHANGED <<valid, data, lock, lru, disk, client, pins>>

\* bget(), not cached: recycle the least recently used unused buffer.
bgetMiss(t, k, b) ==
  /\ pc[t] = "idle"
  /\ Cached(k) = {}
  /\ b \in Unused
  /\ \E i \in 1..Len(lru) : b = lru[i] /\ \A j \in i+1..Len(lru) : lru[j] \notin Unused
  /\ Recycle(t, k, b)

\* acquiresleep(&b->lock), each time round its loop.
acquiresleep(t) ==
  /\ pc[t] = "lock"
  /\ \/ /\ lock[buf[t]] # None
        /\ Goto(t, "asleep")
        /\ UNCHANGED lock
     \/ /\ lock[buf[t]] = None
        /\ lock' = [lock EXCEPT ![buf[t]] = t]
        /\ Goto(t, IF valid[buf[t]] THEN "use" ELSE "read")
  /\ UNCHANGED <<blockno, valid, refcnt, data, lru, disk, blk, buf, client, pins>>

\* bread(), not valid: virtio_disk_rw(b, 0), then valid = 1.
bread(t) ==
  LET b == buf[t] IN
  /\ pc[t] = "read"
  /\ data' = [data EXCEPT ![b] = disk[blockno[b]]]
  /\ valid' = [valid EXCEPT ![b] = TRUE]
  /\ Goto(t, "use")
  /\ UNCHANGED <<blockno, refcnt, lock, lru, disk, blk, buf, client, pins>>

\* The holder changes the contents.  Before it lets the buffer go it writes it
\* to disk, or pins it for the log (log_write()).
Modify(t, v) ==
  /\ pc[t] = "use"
  /\ data' = [data EXCEPT ![buf[t]] = v]
  /\ client' = [client EXCEPT ![t] = IF blk[t] \in pins THEN "none" ELSE "dirty"]
  /\ UNCHANGED <<blockno, valid, refcnt, lock, lru, disk, pc, blk, buf, pins>>

\* bwrite(): virtio_disk_rw(b, 1).
bwrite(t) ==
  /\ pc[t] = "use"
  /\ disk' = [disk EXCEPT ![blockno[buf[t]]] = data[buf[t]]]
  /\ client' = [client EXCEPT ![t] = "written"]
  /\ UNCHANGED <<cache, pc, blk, buf, pins>>

\* bpin(), for a block that is not in the log yet.
bpin(t) ==
  /\ pc[t] = "use" /\ client[t] = "dirty"
  /\ Cardinality(pins) < MaxPins
  /\ refcnt' = [refcnt EXCEPT ![buf[t]] = @ + 1]
  /\ pins' = pins \cup {blk[t]}
  /\ client' = [client EXCEPT ![t] = "none"]
  /\ UNCHANGED <<blockno, valid, data, lock, lru, disk, pc, blk, buf>>

\* Mutant: bunpin() does nothing.
bunpinNot(t) ==
  /\ pc[t] = "use" /\ client[t] = "written"
  /\ blk[t] \in pins
  /\ pins' = pins \ {blk[t]}
  /\ UNCHANGED <<cache, disk, thread>>

\* bunpin(), when install_trans() has written the block.
bunpin(t) ==
  /\ pc[t] = "use" /\ client[t] = "written"
  /\ blk[t] \in pins
  /\ refcnt' = [refcnt EXCEPT ![buf[t]] = @ - 1]
  /\ pins' = pins \ {blk[t]}
  /\ UNCHANGED <<blockno, valid, data, lock, lru, disk, thread>>

\* Mutant: releasesleep() wakes nobody.
releasesleepNoWakeup(t) ==
  /\ pc[t] = "use" /\ client[t] # "dirty"
  /\ lock' = [lock EXCEPT ![buf[t]] = None]
  /\ Goto(t, "release")
  /\ client' = [client EXCEPT ![t] = "none"]
  /\ UNCHANGED <<blockno, valid, refcnt, data, lru, disk, blk, buf, pins>>

\* brelse(): releasesleep(&b->lock), which wakes all who sleep on it.
releasesleep(t) ==
  /\ pc[t] = "use" /\ client[t] # "dirty"
  /\ lock' = [lock EXCEPT ![buf[t]] = None]
  /\ pc' = [u \in Threads |-> IF u = t THEN "release"
                              ELSE IF pc[u] = "asleep" /\ buf[u] = buf[t] THEN "lock" ELSE pc[u]]
  /\ client' = [client EXCEPT ![t] = "none"]
  /\ UNCHANGED <<blockno, valid, refcnt, data, lru, disk, blk, buf, pins>>

\* The rest of brelse(), under bcache.lock.
brelse(t) ==
  LET b == buf[t] IN
  /\ pc[t] = "release"
  /\ refcnt' = [refcnt EXCEPT ![b] = @ - 1]
  /\ lru' = IF refcnt[b] = 1 THEN MoveToFront(b) ELSE lru
  /\ Goto(t, "idle")
  /\ blk' = [blk EXCEPT ![t] = None] /\ buf' = [buf EXCEPT ![t] = None]
  /\ UNCHANGED <<blockno, valid, data, lock, disk, client, pins>>

-----------------------------------------------------------------------------
\* binit(): the last buffer is the head of the list.
Init ==
  /\ blockno = [b \in Bufs |-> None] /\ valid = [b \in Bufs |-> FALSE]
  /\ refcnt = [b \in Bufs |-> 0]
  /\ \E v \in Vals : data = [b \in Bufs |-> v]
  /\ lock = [b \in Bufs |-> None]
  /\ lru = [i \in Bufs |-> NBUF + 1 - i]
  /\ disk \in [Blocks -> Vals]
  /\ pc = [t \in Threads |-> "idle"]
  /\ blk = [t \in Threads |-> None] /\ buf = [t \in Threads |-> None]
  /\ client = [t \in Threads |-> "none"]
  /\ pins = {}

Next ==
  \E t \in Threads :
    \/ \E k \in Blocks, b \in Bufs : bgetHit(t, k, b) \/ bgetMiss(t, k, b)
    \/ \E v \in Vals : Modify(t, v)
    \/ acquiresleep(t) \/ bread(t) \/ bwrite(t) \/ bpin(t) \/ bunpin(t)
    \/ releasesleep(t) \/ brelse(t)

Spec == Init /\ [][Next]_vars

-----------------------------------------------------------------------------
(* Properties.                                                             *)

HoldsRef == {"lock", "asleep", "read", "use", "release"}
HoldsLock == {"read", "use"}

\* The types of the C declarations; the list keeps all the buffers.
TypeOK ==
  /\ blockno \in [Bufs -> Blocks \cup {None}] /\ valid \in [Bufs -> BOOLEAN]
  /\ refcnt \in [Bufs -> Nat] /\ data \in [Bufs -> Vals]
  /\ lock \in [Bufs -> Threads \cup {None}]
  /\ lru \in Seq(Bufs) /\ Len(lru) = NBUF /\ {lru[i] : i \in 1..Len(lru)} = Bufs
  /\ disk \in [Blocks -> Vals]
  /\ pc \in [Threads -> {"idle"} \cup HoldsRef] /\ blk \in [Threads -> Blocks \cup {None}]
  /\ buf \in [Threads -> Bufs \cup {None}]
  /\ client \in [Threads -> {"none", "dirty", "written"}]
  /\ pins \subseteq Blocks

\* A buffer is free for recycling exactly when nobody refers to it.
RefcntExact ==
  \A b \in Bufs :
    refcnt[b] = Cardinality({t \in Threads : pc[t] \in HoldsRef /\ buf[t] = b})
                + Cardinality({k \in pins : blockno[b] = k})

\* The contents of a block: those of its buffer, if it has a valid one.
Contents ==
  [k \in Blocks |-> IF \E b \in Bufs : blockno[b] = k /\ valid[b]
                    THEN data[CHOOSE b \in Bufs : blockno[b] = k /\ valid[b]]
                    ELSE disk[k]]
Owner ==
  [k \in Blocks |-> IF \E t \in Threads : pc[t] \in HoldsLock /\ blk[t] = k
                    THEN CHOOSE t \in Threads : pc[t] \in HoldsLock /\ blk[t] = k
                    ELSE None]

BS == INSTANCE BlockStore WITH NoThread <- None, val <- Contents, owner <- Owner

\* The cache cannot be told from a memory of blocks, each behind a lock: reading
\* in, recycling, writing out and pinning change the contents of no block.
CacheIsMemory == BS!BSpec

\* No wakeup is lost on a buffer's lock: whoever sleeps on it sleeps for a holder,
\* who will wake all sleepers; and the lock is held exactly by the thread that is
\* between acquiresleep() and releasesleep().
SleepLockSound ==
  \A t \in Threads :
    /\ pc[t] = "asleep" => lock[buf[t]] \in Threads \ {t}
    /\ \A b \in Bufs : lock[b] = t <=> pc[t] \in HoldsLock /\ buf[t] = b
=============================================================================
