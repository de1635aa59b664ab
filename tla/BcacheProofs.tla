---------------------------- MODULE BcacheProofs ----------------------------
(***************************************************************************)
(* Proof that the buffer cache implements BlockStore, a memory of blocks   *)
(* each behind a lock, for any number of threads, blocks and buffers.      *)
(***************************************************************************)
EXTENDS Bcache, FiniteSetTheorems, TLAPS

-----------------------------------------------------------------------------
(* The inductive invariant.                                                *)

Users(b) == {t \in Threads : pc[t] \in HoldsRef /\ buf[t] = b}
PinsOf(b) == {k \in pins : blockno[b] = k}

BufTypes ==
  /\ blockno \in [Bufs -> Blocks \cup {None}] /\ valid \in [Bufs -> BOOLEAN]
  /\ refcnt \in [Bufs -> Nat] /\ data \in [Bufs -> Vals]
  /\ lock \in [Bufs -> Threads \cup {None}]
  /\ disk \in [Blocks -> Vals]

ThreadTypes ==
  /\ pc \in [Threads -> {"idle"} \cup HoldsRef] /\ blk \in [Threads -> Blocks \cup {None}]
  /\ buf \in [Threads -> Bufs \cup {None}]
  /\ client \in [Threads -> {"none", "dirty", "written"}]
  /\ pins \in SUBSET Blocks /\ IsFiniteSet(pins)

\* A buffer that somebody refers to stays with its block, though the lock is not
\* held yet, or not any more.
HeldInv ==
  \A t \in Threads : pc[t] \in HoldsRef =>
    buf[t] \in Bufs /\ blk[t] \in Blocks /\ blockno[buf[t]] = blk[t]

\* bget() never gives a block two buffers.
OneBuffer == \A a, b \in Bufs : blockno[a] = blockno[b] /\ blockno[a] # None => a = b

\* A pinned block has a buffer.
PinnedInv == \A k \in pins : \E b \in Bufs : blockno[b] = k /\ valid[b]

\* valid is looked at, and set, by the holder of the lock.
ValidInv ==
  /\ \A t \in Threads : pc[t] = "read" => ~valid[buf[t]]
  /\ \A t \in Threads : pc[t] = "use" => valid[buf[t]]
  /\ \A b \in Bufs : valid[b] => blockno[b] # None

\* Who has changed a block that is not pinned, or has written it, holds it; what
\* has been written is on the disk.
ClientInv ==
  /\ \A t \in Threads : client[t] = "dirty" => pc[t] = "use" /\ blk[t] \notin pins
  /\ \A t \in Threads : client[t] = "written" => pc[t] = "use" /\ data[buf[t]] = disk[blk[t]]

\* A buffer that differs from the disk is pinned, or its holder has still to
\* write or pin it.
CleanInv ==
  \A b \in Bufs : valid[b] /\ blockno[b] \notin pins /\ data[b] # disk[blockno[b]] =>
    \E t \in Threads : pc[t] = "use" /\ buf[t] = b /\ client[t] = "dirty"

Inv ==
  /\ BufTypes /\ ThreadTypes /\ RefcntExact /\ HeldInv /\ OneBuffer
  /\ PinnedInv /\ SleepLockSound /\ ValidInv /\ ClientInv /\ CleanInv

-----------------------------------------------------------------------------
(* Counting references.                                                    *)

\* Zenon proves what a step does not give to another prover.
USE Zenon

\* Users and pins of a buffer can be counted.
LEMMA Countable ==
  ASSUME NEW P, IsFiniteSet(P)
  PROVE  /\ \A S \in SUBSET P : IsFiniteSet(S) /\ Cardinality(S) \in Nat
         /\ \A S \in SUBSET P : Cardinality(S) = 0 <=> S = {}
         /\ \A S \in SUBSET P : \A x : x \notin S => Cardinality(S \cup {x}) = Cardinality(S) + 1
         /\ \A S \in SUBSET P : \A x : x \in S => Cardinality(S \ {x}) = Cardinality(S) - 1
<1>1. \A S \in SUBSET P : IsFiniteSet(S)
  BY FS_Subset
<1>2. QED
  BY <1>1, FS_CardinalityType, FS_EmptySet, FS_AddElement, FS_RemoveElement

\* The reference counts in terms of Users and PinsOf.
LEMMA RefcntDef == RefcntExact <=> \A b \in Bufs : refcnt[b] = Cardinality(Users(b)) + Cardinality(PinsOf(b))
  BY DEF RefcntExact, Users, PinsOf

\* A buffer with no references has no users and no pins.
LEMMA UnusedFacts ==
  ASSUME Inv, NEW b \in Bufs
  PROVE  /\ Users(b) \in SUBSET Threads /\ PinsOf(b) \in SUBSET pins
         /\ Cardinality(Users(b)) \in Nat /\ Cardinality(PinsOf(b)) \in Nat
         /\ refcnt[b] = Cardinality(Users(b)) + Cardinality(PinsOf(b))
         /\ refcnt[b] = 0 => Users(b) = {} /\ PinsOf(b) = {}
<1>1. Users(b) \in SUBSET Threads /\ PinsOf(b) \in SUBSET pins
  BY DEF Users, PinsOf
<1>2. IsFiniteSet(Threads) /\ IsFiniteSet(pins)
  BY BcacheAssumption DEF Inv, ThreadTypes
<1>3. refcnt[b] = Cardinality(Users(b)) + Cardinality(PinsOf(b))
  BY RefcntDef DEF Inv
<1>4. /\ Cardinality(Users(b)) \in Nat /\ Cardinality(PinsOf(b)) \in Nat
      /\ Cardinality(Users(b)) = 0 <=> Users(b) = {}
      /\ Cardinality(PinsOf(b)) = 0 <=> PinsOf(b) = {}
  BY <1>1, <1>2, Countable
<1>5. QED
  BY <1>1, <1>3, <1>4, SMT

-----------------------------------------------------------------------------
(* One step of a thread.                                                   *)

Step(t) ==
  \/ \E k \in Blocks, b \in Bufs : bgetHit(t, k, b) \/ bgetMiss(t, k, b)
  \/ \E v \in Vals : Modify(t, v)
  \/ acquiresleep(t) \/ bread(t) \/ bwrite(t) \/ bpin(t) \/ bunpin(t)
  \/ releasesleep(t) \/ brelse(t)

\* A thread that refers to a buffer knows which, and is one of its users; the
\* buffer has then a reference to give up.
LEMMA HolderFacts ==
  ASSUME Inv, NEW t \in Threads, pc[t] \in HoldsRef
  PROVE  /\ buf[t] \in Bufs /\ blk[t] \in Blocks /\ blockno[buf[t]] = blk[t]
         /\ t \in Users(buf[t]) /\ refcnt[buf[t]] \in Nat \ {0}
<1>1. buf[t] \in Bufs /\ blk[t] \in Blocks /\ blockno[buf[t]] = blk[t]
  BY DEF Inv, HeldInv
<1>2. t \in Users(buf[t])
  BY DEF Users
<1>3. refcnt[buf[t]] \in Nat
  BY <1>1 DEF Inv, BufTypes
<1>4. refcnt[buf[t]] # 0
  BY <1>1, <1>2, UnusedFacts
<1>5. QED
  BY <1>1, <1>2, <1>3, <1>4

\* A buffer that bget() may recycle is referred to by nobody, and its block is
\* not pinned.
LEMMA UnusedBuffer ==
  ASSUME Inv, NEW b \in Bufs, refcnt[b] = 0
  PROVE  /\ \A u \in Threads : pc[u] \in HoldsRef => buf[u] # b
         /\ blockno[b] \notin pins
<1>1. Users(b) = {} /\ PinsOf(b) = {}
  BY UnusedFacts
<1>2. QED
  BY <1>1 DEF Users, PinsOf

\* The fields of the buffers keep their types.
LEMMA BufTypesStep ==
  ASSUME Inv, NEW t \in Threads, Step(t)
  PROVE  BufTypes'
<1> USE DEF BufTypes
<1>0. BufTypes
  BY DEF Inv
<1>1. ASSUME NEW k \in Blocks, NEW b \in Bufs, bgetHit(t, k, b) \/ bgetMiss(t, k, b)
      PROVE  BufTypes'
  <2>1. CASE bgetHit(t, k, b)
    BY <1>0, <2>1, SMT DEF bgetHit
  <2>2. CASE bgetMiss(t, k, b)
    <3>1. Recycle(t, k, b)
      BY <2>2 DEF bgetMiss
    <3>2. QED
      BY <1>0, <3>1 DEF Recycle
  <2>3. QED
    BY <1>1, <2>1, <2>2
<1>2. ASSUME NEW v \in Vals, Modify(t, v)
      PROVE  BufTypes'
  BY <1>0, <1>2 DEF Modify
<1>3. CASE acquiresleep(t) \/ releasesleep(t)
  BY <1>0, <1>3 DEF acquiresleep, releasesleep
<1>4. CASE bread(t)
  <2>1. blockno[buf[t]] \in Blocks
    BY <1>4, HolderFacts DEF bread, HoldsRef
  <2>2. QED
    BY <1>0, <1>4, <2>1 DEF bread
<1>5. CASE bwrite(t)
  <2>1. buf[t] \in Bufs
    BY <1>5, HolderFacts DEF bwrite, HoldsRef
  <2>2. QED
    BY <1>0, <1>5, <2>1 DEF bwrite, cache
<1>6. CASE bpin(t) \/ bunpin(t) \/ brelse(t)
  <2>1. refcnt[buf[t]] \in Nat \ {0}
    BY <1>6, HolderFacts DEF bpin, bunpin, brelse, HoldsRef
  <2>2. refcnt[buf[t]] + 1 \in Nat /\ refcnt[buf[t]] - 1 \in Nat
    BY <2>1, SMT
  <2>3. refcnt' \in [Bufs -> Nat]
    BY <1>0, <1>6, <2>2 DEF bpin, bunpin, brelse
  <2>4. UNCHANGED <<blockno, valid, data, lock, disk>>
    BY <1>6 DEF bpin, bunpin, brelse
  <2>5. QED
    BY <1>0, <2>3, <2>4
<1>7. QED
  BY <1>1, <1>2, <1>3, <1>4, <1>5, <1>6 DEF Step

\* The locals of the threads keep their types.
LEMMA ThreadTypesStep ==
  ASSUME Inv, NEW t \in Threads, Step(t)
  PROVE  ThreadTypes'
<1> USE DEF ThreadTypes
<1>0. ThreadTypes
  BY DEF Inv
<1>1. ASSUME NEW k \in Blocks, NEW b \in Bufs, bgetHit(t, k, b) \/ bgetMiss(t, k, b)
      PROVE  ThreadTypes'
  BY <1>0, <1>1, SMT DEF bgetHit, bgetMiss, Recycle, Goto, HoldsRef
<1>2. ASSUME NEW v \in Vals, Modify(t, v)
      PROVE  ThreadTypes'
  BY <1>0, <1>2 DEF Modify
<1>3. CASE acquiresleep(t) \/ bread(t)
  BY <1>0, <1>3 DEF acquiresleep, bread, Goto, HoldsRef
<1>4. CASE bwrite(t) \/ brelse(t)
  BY <1>0, <1>4 DEF bwrite, brelse, Goto
<1>5. CASE releasesleep(t)
  BY <1>0, <1>5 DEF releasesleep, HoldsRef
<1>6. CASE bpin(t)
  <2>1. blk[t] \in Blocks
    BY <1>6, HolderFacts DEF bpin, HoldsRef
  <2>2. IsFiniteSet(pins \cup {blk[t]})
    BY <1>0, FS_AddElement
  <2>3. pins' \in SUBSET Blocks /\ IsFiniteSet(pins')
    BY <1>0, <1>6, <2>1, <2>2 DEF bpin
  <2>4. QED
    BY <1>0, <1>6, <2>3 DEF bpin
<1>7. CASE bunpin(t)
  <2>1. IsFiniteSet(pins \ {blk[t]})
    BY <1>0, FS_RemoveElement
  <2>2. QED
    BY <1>0, <1>7, <2>1 DEF bunpin, thread
<1>8. QED
  BY <1>1, <1>2, <1>3, <1>4, <1>5, <1>6, <1>7 DEF Step

\* A buffer stays with its block while somebody refers to it.
LEMMA HeldStep ==
  ASSUME Inv, NEW t \in Threads, Step(t)
  PROVE  HeldInv'
<1>0. HeldInv /\ BufTypes /\ ThreadTypes
  BY DEF Inv
<1> USE DEF HeldInv, BufTypes, ThreadTypes
<1>1. ASSUME NEW k \in Blocks, NEW b \in Bufs, bgetHit(t, k, b)
      PROVE  HeldInv'
  BY <1>0, <1>1 DEF bgetHit, Cached, Goto
<1>2. ASSUME NEW k \in Blocks, NEW b \in Bufs, bgetMiss(t, k, b)
      PROVE  HeldInv'
  <2>1. \A u \in Threads : pc[u] \in HoldsRef => buf[u] # b
    BY <1>2, UnusedBuffer DEF bgetMiss, Unused
  <2>2. QED
    BY <1>0, <1>2, <2>1 DEF bgetMiss, Recycle, Goto
<1>3. CASE \E v \in Vals : Modify(t, v)
  BY <1>0, <1>3 DEF Modify
<1>4. CASE acquiresleep(t) \/ bread(t)
  BY <1>0, <1>4 DEF acquiresleep, bread, Goto, HoldsRef
<1>5. CASE bwrite(t) \/ bpin(t) \/ bunpin(t)
  BY <1>0, <1>5 DEF bwrite, bpin, bunpin, cache, thread
<1>6. CASE releasesleep(t)
  BY <1>0, <1>6 DEF releasesleep, HoldsRef
<1>7. CASE brelse(t)
  BY <1>0, <1>7 DEF brelse, Goto, HoldsRef
<1>8. QED
  BY <1>1, <1>2, <1>3, <1>4, <1>5, <1>6, <1>7 DEF Step

\* A miss is for a block without a buffer, so no block gets a second one.
LEMMA OneBufferStep ==
  ASSUME Inv, NEW t \in Threads, Step(t)
  PROVE  OneBuffer'
<1>0. OneBuffer /\ BufTypes
  BY DEF Inv
<1> USE DEF OneBuffer
<1>1. ASSUME NEW k \in Blocks, NEW b \in Bufs, bgetMiss(t, k, b)
      PROVE  OneBuffer'
  BY <1>0, <1>1 DEF bgetMiss, Recycle, Cached, BufTypes
<1>2. CASE UNCHANGED blockno
  BY <1>0, <1>2
<1>3. QED
  BY <1>1, <1>2 DEF Step, bgetHit, Modify, acquiresleep, bread, bwrite, bpin, bunpin,
                    releasesleep, brelse, cache

\* A pinned block keeps a valid buffer: a buffer is recycled only when its block is
\* not pinned, and the block pinned last is in use.
LEMMA PinnedStep ==
  ASSUME Inv, NEW t \in Threads, Step(t)
  PROVE  PinnedInv'
<1>0. PinnedInv /\ BufTypes
  BY DEF Inv
<1> USE DEF PinnedInv, BufTypes
<1>1. ASSUME NEW k \in Blocks, NEW b \in Bufs, bgetMiss(t, k, b)
      PROVE  PinnedInv'
  <2>1. blockno[b] \notin pins
    BY <1>1, UnusedBuffer DEF bgetMiss, Unused
  <2>2. QED
    BY <1>0, <1>1, <2>1, SMT DEF bgetMiss, Recycle
<1>2. CASE bread(t)
  BY <1>0, <1>2 DEF bread
<1>3. CASE bpin(t)
  <2>1. buf[t] \in Bufs /\ blockno[buf[t]] = blk[t]
    BY <1>3, HolderFacts DEF bpin, HoldsRef
  <2>2. valid[buf[t]]
    BY <1>3 DEF Inv, ValidInv, bpin
  <2>3. QED
    BY <1>0, <1>3, <2>1, <2>2 DEF bpin
<1>4. CASE bunpin(t)
  BY <1>0, <1>4 DEF bunpin
<1>5. CASE UNCHANGED <<blockno, valid, pins>>
  BY <1>0, <1>5
<1>6. QED
  BY <1>1, <1>2, <1>3, <1>4, <1>5 DEF Step, bgetHit, Modify, acquiresleep, bwrite,
                                      releasesleep, brelse, cache

\* acquiresleep() and releasesleep() hand the lock over, and sleepers are woken.
LEMMA SleepLockStep ==
  ASSUME Inv, NEW t \in Threads, Step(t)
  PROVE  SleepLockSound'
<1>0. SleepLockSound /\ BufTypes /\ ThreadTypes /\ None \notin Threads
  BY BcacheAssumption DEF Inv
<1>h. HeldInv
  BY DEF Inv
<1> USE DEF SleepLockSound, BufTypes, ThreadTypes, HoldsLock
<1>1. ASSUME NEW k \in Blocks, NEW b \in Bufs, bgetHit(t, k, b) \/ bgetMiss(t, k, b)
      PROVE  SleepLockSound'
  <2>1. /\ lock' = lock /\ pc[t] = "idle" /\ pc'[t] = "lock"
        /\ \A u \in Threads \ {t} : pc'[u] = pc[u] /\ buf'[u] = buf[u]
    BY <1>0, <1>1, SMT DEF bgetHit, bgetMiss, Recycle, Goto
  <2>2. QED
    BY <1>0, <2>1, SMT
<1>2. CASE acquiresleep(t)
  <2>1. buf[t] \in Bufs
    BY <1>2, HolderFacts DEF acquiresleep, HoldsRef
  <2>2. CASE lock[buf[t]] # None
    BY <1>0, <1>2, <2>1, <2>2, SMT DEF acquiresleep, Goto
  <2>3. CASE lock[buf[t]] = None
    <3>1. /\ lock' = [lock EXCEPT ![buf[t]] = t] /\ buf' = buf
          /\ \A u \in Threads \ {t} : pc'[u] = pc[u]
          /\ pc'[t] \in HoldsLock
      BY <1>0, <1>2, <2>3 DEF acquiresleep, Goto
    <3>2. \A u \in Threads : pc[u] = "asleep" => buf[u] \in Bufs
      BY <1>h DEF HeldInv, HoldsRef
    <3>3. QED
      BY <1>0, <2>1, <2>3, <3>1, <3>2, SMT
  <2>4. QED
    BY <2>2, <2>3
<1>3. CASE bread(t)
  BY <1>0, <1>3, SMT DEF bread, Goto
<1>4. CASE releasesleep(t)
  <2>1. buf[t] \in Bufs
    BY <1>4, HolderFacts DEF releasesleep, HoldsRef
  <2>2. QED
    BY <1>0, <1>4, <1>h, <2>1, SMT DEF releasesleep, HeldInv, HoldsRef
<1>5. CASE brelse(t)
  BY <1>0, <1>5, SMT DEF brelse, Goto
<1>6. CASE UNCHANGED <<lock, pc, buf>>
  BY <1>0, <1>6
<1>7. QED
  BY <1>1, <1>2, <1>3, <1>4, <1>5, <1>6 DEF Step, Modify, bwrite, bpin, bunpin, cache, thread

\* Two threads never hold the lock of one buffer.
LEMMA OneHolder ==
  ASSUME Inv, NEW t \in Threads, NEW u \in Threads,
         pc[t] \in HoldsLock, pc[u] \in HoldsLock, buf[t] = buf[u] \/ blk[t] = blk[u]
  PROVE  t = u
<1>1. /\ buf[t] \in Bufs /\ blk[t] \in Blocks /\ blockno[buf[t]] = blk[t]
      /\ buf[u] \in Bufs /\ blk[u] \in Blocks /\ blockno[buf[u]] = blk[u]
  BY DEF Inv, HeldInv, HoldsRef, HoldsLock
<1>2. blk[t] # None
  BY <1>1, BcacheAssumption
<1>3. buf[t] = buf[u]
  BY <1>1, <1>2 DEF Inv, OneBuffer
<1>4. lock[buf[t]] = t /\ lock[buf[t]] = u
  BY <1>1, <1>3 DEF Inv, SleepLockSound
<1>5. QED
  BY <1>4

\* Only the holder of the lock looks at valid; bget() clears it in a buffer
\* that nobody refers to.
LEMMA ValidStep ==
  ASSUME Inv, NEW t \in Threads, Step(t)
  PROVE  ValidInv'
<1>0. ValidInv /\ BufTypes /\ ThreadTypes
  BY DEF Inv
<1>h. \A u \in Threads : pc[u] \in {"read", "use"} => buf[u] \in Bufs /\ pc[u] \in HoldsRef
  BY DEF Inv, HeldInv, HoldsRef
<1> USE DEF ValidInv, BufTypes, ThreadTypes
<1>1. ASSUME NEW k \in Blocks, NEW b \in Bufs, bgetHit(t, k, b)
      PROVE  ValidInv'
  BY <1>0, <1>1 DEF bgetHit, Goto
<1>2. ASSUME NEW k \in Blocks, NEW b \in Bufs, bgetMiss(t, k, b)
      PROVE  ValidInv'
  <2>1. \A u \in Threads : pc[u] \in HoldsRef => buf[u] # b
    BY <1>2, UnusedBuffer DEF bgetMiss, Unused
  <2>2. Recycle(t, k, b) /\ k # None
    BY <1>2, BcacheAssumption DEF bgetMiss
  <2>3. QED
    BY <1>0, <1>h, <2>1, <2>2 DEF Recycle, Goto
<1>3. CASE acquiresleep(t)
  BY <1>0, <1>3 DEF acquiresleep, Goto
<1>4. CASE bread(t)
  <2>1. buf[t] \in Bufs /\ blockno[buf[t]] # None
    BY <1>4, HolderFacts, BcacheAssumption DEF bread, HoldsRef
  <2>2. \A u \in Threads : u # t /\ pc[u] \in {"read", "use"} => buf[u] # buf[t]
    BY <1>4, OneHolder DEF bread, HoldsLock
  <2>3. QED
    BY <1>0, <1>4, <1>h, <2>1, <2>2 DEF bread, Goto
<1>5. CASE releasesleep(t)
  BY <1>0, <1>5 DEF releasesleep
<1>6. CASE brelse(t)
  BY <1>0, <1>6 DEF brelse, Goto
<1>7. CASE UNCHANGED <<blockno, valid, pc, buf>>
  BY <1>0, <1>7
<1>8. QED
  BY <1>1, <1>2, <1>3, <1>4, <1>5, <1>6, <1>7
     DEF Step, Modify, bwrite, bpin, bunpin, cache, thread

\* A holder's claims about its block survive the steps of the others.
LEMMA ClientStep ==
  ASSUME Inv, NEW t \in Threads, Step(t)
  PROVE  ClientInv'
<1>0. ClientInv /\ BufTypes /\ ThreadTypes
  BY DEF Inv
<1>h. \A u \in Threads : pc[u] = "use" =>
        buf[u] \in Bufs /\ blk[u] \in Blocks /\ blockno[buf[u]] = blk[u]
  BY DEF Inv, HeldInv, HoldsRef
<1>o. ASSUME pc[t] \in HoldsLock
      PROVE  \A u \in Threads : u # t /\ pc[u] = "use" => buf[u] # buf[t] /\ blk[u] # blk[t]
  BY <1>o, OneHolder DEF HoldsLock
<1>t. pc[t] # "use" => client[t] = "none"
  BY <1>0 DEF ClientInv, ThreadTypes
<1> USE DEF ClientInv, BufTypes, ThreadTypes
<1>1. ASSUME NEW k \in Blocks, NEW b \in Bufs, bgetHit(t, k, b) \/ bgetMiss(t, k, b)
      PROVE  ClientInv'
  <2>1. /\ UNCHANGED <<data, disk, client, pins>> /\ pc[t] = "idle"
        /\ \A u \in Threads \ {t} : pc'[u] = pc[u] /\ buf'[u] = buf[u] /\ blk'[u] = blk[u]
    BY <1>0, <1>1, SMT DEF bgetHit, bgetMiss, Recycle, Goto
  <2>2. QED
    BY <1>0, <1>t, <2>1
<1>2. ASSUME NEW v \in Vals, Modify(t, v)
      PROVE  ClientInv'
  <2>1. \A u \in Threads : u # t /\ pc[u] = "use" => buf[u] # buf[t]
    BY <1>2, <1>o DEF Modify, HoldsLock
  <2>2. QED
    BY <1>0, <1>2, <1>h, <2>1 DEF Modify
<1>3. CASE acquiresleep(t)
  BY <1>0, <1>3, <1>t DEF acquiresleep, Goto
<1>4. CASE bread(t)
  <2>1. \A u \in Threads : u # t /\ pc[u] = "use" => buf[u] # buf[t]
    BY <1>4, <1>o DEF bread, HoldsLock
  <2>2. client[t] = "none"
    BY <1>4, <1>t DEF bread
  <2>3. QED
    BY <1>0, <1>4, <1>h, <2>1, <2>2 DEF bread, Goto
<1>5. CASE bwrite(t)
  <2>1. \A u \in Threads : u # t /\ pc[u] = "use" => blk[u] # blk[t]
    BY <1>5, <1>o DEF bwrite, HoldsLock
  <2>2. QED
    BY <1>0, <1>5, <1>h, <2>1, SMT DEF bwrite, cache
<1>6. CASE bpin(t)
  <2>1. \A u \in Threads : u # t /\ pc[u] = "use" => blk[u] # blk[t]
    BY <1>6, <1>o DEF bpin, HoldsLock
  <2>2. QED
    BY <1>0, <1>6, <2>1 DEF bpin
<1>7. CASE bunpin(t)
  BY <1>0, <1>7 DEF bunpin, thread
<1>8. CASE releasesleep(t)
  BY <1>0, <1>8 DEF releasesleep
<1>9. CASE brelse(t)
  BY <1>0, <1>9, <1>t DEF brelse, Goto
<1>10. QED
  BY <1>1, <1>2, <1>3, <1>4, <1>5, <1>6, <1>7, <1>8, <1>9 DEF Step

\* Changed contents are never lost sight of: a buffer that is unpinned has been
\* written, and a buffer that is recycled or read in is not valid.
LEMMA CleanStep ==
  ASSUME Inv, NEW t \in Threads, Step(t)
  PROVE  CleanInv'
<1>0. CleanInv /\ BufTypes /\ ThreadTypes
  BY DEF Inv
<1> USE DEF CleanInv, BufTypes, ThreadTypes
<1>1. ASSUME NEW k \in Blocks, NEW b \in Bufs, bgetHit(t, k, b)
      PROVE  CleanInv'
  BY <1>0, <1>1, SMT DEF bgetHit, Goto
<1>2. ASSUME NEW k \in Blocks, NEW b \in Bufs, bgetMiss(t, k, b)
      PROVE  CleanInv'
  <2>1. pc[t] = "idle" /\ Recycle(t, k, b)
    BY <1>2 DEF bgetMiss
  <2>2. QED
    BY <1>0, <2>1, SMT DEF Recycle, Goto
<1>3. ASSUME NEW v \in Vals, Modify(t, v)
      PROVE  CleanInv'
  <2>1. buf[t] \in Bufs /\ blockno[buf[t]] = blk[t]
    BY <1>3, HolderFacts DEF Modify, HoldsRef
  <2>2. QED
    BY <1>0, <1>3, <2>1, SMT DEF Modify
<1>4. CASE acquiresleep(t)
  BY <1>0, <1>4, SMT DEF acquiresleep, Goto
<1>5. CASE bread(t)
  BY <1>0, <1>5, SMT DEF bread, Goto
<1>6. CASE bwrite(t)
  <2>1. buf[t] \in Bufs /\ blockno[buf[t]] \in Blocks /\ blockno[buf[t]] # None
    BY <1>6, HolderFacts, BcacheAssumption DEF bwrite, HoldsRef
  <2>2. \A b \in Bufs : blockno[b] = blockno[buf[t]] => b = buf[t]
    BY <2>1 DEF Inv, OneBuffer
  <2>3. \A u \in Threads : u # t => client'[u] = client[u]
    BY <1>0, <1>6 DEF bwrite
  <2>4. QED
    BY <1>0, <1>6, <2>1, <2>2, <2>3, SMT DEF bwrite, cache
<1>7. CASE bpin(t)
  <2>1. blockno[buf[t]] = blk[t]
    BY <1>7, HolderFacts DEF bpin, HoldsRef
  <2>2. QED
    BY <1>0, <1>7, <2>1, SMT DEF bpin
<1>8. CASE bunpin(t)
  <2>1. /\ buf[t] \in Bufs /\ blockno[buf[t]] = blk[t] /\ blk[t] # None
        /\ data[buf[t]] = disk[blk[t]]
    BY <1>8, HolderFacts, BcacheAssumption, SMT DEF bunpin, HoldsRef, Inv, ClientInv
  <2>2. \A b \in Bufs : blockno[b] = blk[t] => b = buf[t]
    BY <2>1, SMT DEF Inv, OneBuffer
  <2>3. QED
    BY <1>0, <1>8, <2>1, <2>2, SMT DEF bunpin, thread
<1>9. CASE releasesleep(t)
  BY <1>0, <1>9, SMT DEF releasesleep
<1>10. CASE brelse(t)
  BY <1>0, <1>10, SMT DEF brelse, Goto
<1>11. QED
  BY <1>1, <1>2, <1>3, <1>4, <1>5, <1>6, <1>7, <1>8, <1>9, <1>10 DEF Step

\* A step in which every buffer keeps its users and its pins.
LEMMA SameRefs ==
  ASSUME Inv, NEW t \in Threads, UNCHANGED <<refcnt, blockno, pins, buf>>,
         \A u \in Threads : pc'[u] \in HoldsRef <=> pc[u] \in HoldsRef
  PROVE  RefcntExact'
<1>1. ASSUME NEW b \in Bufs
      PROVE  refcnt'[b] = Cardinality(Users(b)') + Cardinality(PinsOf(b)')
  <2>1. Users(b)' = Users(b) /\ PinsOf(b)' = PinsOf(b)
    BY DEF Users, PinsOf
  <2>2. QED
    BY <2>1, UnusedFacts
<1>2. QED
  BY <1>1 DEF RefcntExact, Users, PinsOf

\* bget() adds a user; bpin() adds a pin; bunpin() and brelse() take one away.
LEMMA RefcntStep ==
  ASSUME Inv, NEW t \in Threads, Step(t)
  PROVE  RefcntExact'
<1>0. BufTypes /\ ThreadTypes /\ HeldInv
  BY DEF Inv
<1>f. IsFiniteSet(Threads) /\ IsFiniteSet(pins)
  BY <1>0, BcacheAssumption DEF ThreadTypes
<1> SUFFICES ASSUME NEW a \in Bufs
             PROVE  refcnt'[a] = Cardinality(Users(a)') + Cardinality(PinsOf(a)')
                    \/ RefcntExact'
  BY DEF RefcntExact, Users, PinsOf
<1>a. /\ Users(a) \in SUBSET Threads /\ PinsOf(a) \in SUBSET pins
      /\ refcnt[a] = Cardinality(Users(a)) + Cardinality(PinsOf(a))
      /\ Cardinality(Users(a)) \in Nat /\ Cardinality(PinsOf(a)) \in Nat
  BY UnusedFacts
<1>u. /\ t \notin Users(a) => Cardinality(Users(a) \cup {t}) = Cardinality(Users(a)) + 1
      /\ t \in Users(a) => Cardinality(Users(a) \ {t}) = Cardinality(Users(a)) - 1
  BY <1>a, <1>f, Countable
<1>p. /\ blk[t] \notin PinsOf(a) => Cardinality(PinsOf(a) \cup {blk[t]}) = Cardinality(PinsOf(a)) + 1
      /\ blk[t] \in PinsOf(a) => Cardinality(PinsOf(a) \ {blk[t]}) = Cardinality(PinsOf(a)) - 1
  BY <1>a, <1>f, Countable
<1>1. ASSUME NEW k \in Blocks, NEW b \in Bufs, bgetHit(t, k, b)
      PROVE  refcnt'[a] = Cardinality(Users(a)') + Cardinality(PinsOf(a)')
  <2>1. t \notin Users(a)
    BY <1>1 DEF bgetHit, Users, HoldsRef
  <2>2. /\ PinsOf(a)' = PinsOf(a)
        /\ Users(a)' = IF a = b THEN Users(a) \cup {t} ELSE Users(a)
    BY <1>0, <1>1 DEF bgetHit, Users, PinsOf, Goto, HoldsRef, ThreadTypes
  <2>3. refcnt'[a] = IF a = b THEN refcnt[a] + 1 ELSE refcnt[a]
    BY <1>0, <1>1 DEF bgetHit, BufTypes
  <2>4. QED
    BY <1>a, <1>u, <2>1, <2>2, <2>3, SMT
<1>2. ASSUME NEW k \in Blocks, NEW b \in Bufs, bgetMiss(t, k, b)
      PROVE  refcnt'[a] = Cardinality(Users(a)') + Cardinality(PinsOf(a)')
  <2>1. Recycle(t, k, b) /\ Cached(k) = {} /\ refcnt[b] = 0 /\ pc[t] = "idle"
    BY <1>2 DEF bgetMiss, Unused
  <2>2. k \notin pins
    BY <2>1 DEF Cached, Inv, PinnedInv
  <2>3. CASE a = b
    <3>1. Users(a) = {} /\ PinsOf(a) = {}
      BY <2>1, <2>3, UnusedFacts
    <3>2. Users(a)' = {t}
      BY <1>0, <2>1, <2>3, <3>1 DEF Recycle, Goto, Users, HoldsRef, ThreadTypes
    <3>3. PinsOf(a)' = {}
      BY <1>0, <2>1, <2>2, <2>3 DEF Recycle, PinsOf, BufTypes
    <3>4. refcnt'[a] = 1
      BY <1>0, <2>1, <2>3 DEF Recycle, BufTypes
    <3>5. Cardinality({t}) = 1
      BY FS_Singleton
    <3>6. Cardinality({}) = 0
      BY FS_EmptySet
    <3>7. QED
      BY <3>2, <3>3, <3>4, <3>5, <3>6, SMT
  <2>4. CASE a # b
    <3>1. t \notin Users(a)
      BY <2>1 DEF Users, HoldsRef
    <3>2. Users(a)' = Users(a)
      BY <1>0, <2>1, <2>4, <3>1 DEF Recycle, Goto, Users, ThreadTypes
    <3>3. PinsOf(a)' = PinsOf(a) /\ refcnt'[a] = refcnt[a]
      BY <1>0, <2>1, <2>4 DEF Recycle, PinsOf, BufTypes
    <3>4. QED
      BY <1>a, <3>2, <3>3
  <2>5. QED
    BY <2>3, <2>4
<1>3. CASE \E v \in Vals : Modify(t, v)
  BY <1>3, SameRefs DEF Modify
<1>4. CASE acquiresleep(t) \/ bread(t)
  <2>1. \A u \in Threads : pc'[u] \in HoldsRef <=> pc[u] \in HoldsRef
    BY <1>0, <1>4 DEF acquiresleep, bread, Goto, HoldsRef, ThreadTypes
  <2>2. QED
    BY <1>4, <2>1, SameRefs DEF acquiresleep, bread
<1>5. CASE bwrite(t)
  BY <1>5, SameRefs DEF bwrite, cache
<1>6. CASE bpin(t)
  <2>1. buf[t] \in Bufs /\ blockno[buf[t]] = blk[t] /\ blk[t] \in Blocks /\ blk[t] # None
    BY <1>6, HolderFacts, BcacheAssumption DEF bpin, HoldsRef
  <2>2. blk[t] \notin pins
    BY <1>6 DEF Inv, ClientInv, bpin
  <2>3. blockno[a] = blk[t] <=> a = buf[t]
    BY <2>1 DEF Inv, OneBuffer
  <2>4. Users(a)' = Users(a)
    BY <1>6 DEF bpin, Users
  <2>5. PinsOf(a)' = IF a = buf[t] THEN PinsOf(a) \cup {blk[t]} ELSE PinsOf(a)
    BY <1>6, <2>3 DEF bpin, PinsOf
  <2>6. refcnt'[a] = IF a = buf[t] THEN refcnt[a] + 1 ELSE refcnt[a]
    BY <1>0, <1>6 DEF bpin, BufTypes
  <2>7. blk[t] \notin PinsOf(a)
    BY <2>2 DEF PinsOf
  <2>8. QED
    BY <1>a, <1>p, <2>4, <2>5, <2>6, <2>7, SMT
<1>7. CASE bunpin(t)
  <2>1. buf[t] \in Bufs /\ blockno[buf[t]] = blk[t] /\ blk[t] \in Blocks /\ blk[t] # None
    BY <1>7, HolderFacts, BcacheAssumption DEF bunpin, HoldsRef
  <2>2. blockno[a] = blk[t] <=> a = buf[t]
    BY <2>1 DEF Inv, OneBuffer
  <2>3. Users(a)' = Users(a)
    BY <1>7 DEF bunpin, thread, Users
  <2>4. PinsOf(a)' = IF a = buf[t] THEN PinsOf(a) \ {blk[t]} ELSE PinsOf(a)
    BY <1>7, <2>2 DEF bunpin, PinsOf
  <2>5. refcnt'[a] = IF a = buf[t] THEN refcnt[a] - 1 ELSE refcnt[a]
    BY <1>0, <1>7 DEF bunpin, BufTypes
  <2>6. a = buf[t] => blk[t] \in PinsOf(a)
    BY <1>7, <2>1 DEF bunpin, PinsOf
  <2>7. QED
    BY <1>a, <1>p, <2>3, <2>4, <2>5, <2>6, SMT
<1>8. CASE releasesleep(t)
  <2>1. \A u \in Threads : pc'[u] \in HoldsRef <=> pc[u] \in HoldsRef
    BY <1>0, <1>8 DEF releasesleep, HoldsRef
  <2>2. QED
    BY <1>8, <2>1, SameRefs DEF releasesleep
<1>9. CASE brelse(t)
  <2>1. buf[t] \in Bufs /\ t \in Users(buf[t])
    BY <1>9, HolderFacts DEF brelse, HoldsRef
  <2>2. PinsOf(a)' = PinsOf(a)
    BY <1>9 DEF brelse, PinsOf
  <2>3. Users(a)' = IF a = buf[t] THEN Users(a) \ {t} ELSE Users(a)
    BY <1>0, <1>9, <2>1 DEF brelse, Users, Goto, HoldsRef, ThreadTypes
  <2>4. refcnt'[a] = IF a = buf[t] THEN refcnt[a] - 1 ELSE refcnt[a]
    BY <1>0, <1>9 DEF brelse, BufTypes
  <2>5. QED
    BY <1>a, <1>u, <2>1, <2>2, <2>3, <2>4, SMT
<1>10. QED
  BY <1>1, <1>2, <1>3, <1>4, <1>5, <1>6, <1>7, <1>8, <1>9 DEF Step

-----------------------------------------------------------------------------
(* The invariant holds.                                                    *)

\* binit() and a memory without users satisfy the invariant.
LEMMA InvInit == Init => Inv
<1> SUFFICES ASSUME Init
             PROVE  Inv
  OBVIOUS
<1> USE DEF Init
<1>1. BufTypes
  BY DEF BufTypes
<1>2. ThreadTypes
  BY FS_EmptySet DEF ThreadTypes
<1>3. RefcntExact
  <2>1. \A b \in Bufs : Users(b) = {} /\ PinsOf(b) = {}
    BY DEF Users, PinsOf, HoldsRef
  <2>2. Cardinality({}) = 0
    BY FS_EmptySet
  <2>3. \A b \in Bufs : refcnt[b] = 0
    OBVIOUS
  <2> HIDE DEF Init
  <2>4. \A b \in Bufs : refcnt[b] = Cardinality(Users(b)) + Cardinality(PinsOf(b))
    BY <2>1, <2>2, <2>3, SMT
  <2>5. QED
    BY <2>4, RefcntDef
<1>4. HeldInv /\ OneBuffer /\ PinnedInv /\ ValidInv /\ ClientInv /\ CleanInv
  BY DEF HeldInv, OneBuffer, PinnedInv, ValidInv, ClientInv, CleanInv, HoldsRef
<1>5. SleepLockSound
  BY BcacheAssumption DEF SleepLockSound, HoldsLock
<1>6. QED
  BY <1>1, <1>2, <1>3, <1>4, <1>5 DEF Inv

\* Every step of every thread preserves the invariant.
LEMMA InvStep == Inv /\ [Next]_vars => Inv'
<1>1. ASSUME Inv, Next
      PROVE  Inv'
  <2>1. PICK t \in Threads : Step(t)
    BY <1>1 DEF Next, Step
  <2>2. BufTypes' /\ ThreadTypes'
    BY <1>1, <2>1, BufTypesStep, ThreadTypesStep
  <2>3. RefcntExact' /\ SleepLockSound'
    BY <1>1, <2>1, RefcntStep, SleepLockStep
  <2>4. HeldInv' /\ OneBuffer' /\ PinnedInv'
    BY <1>1, <2>1, HeldStep, OneBufferStep, PinnedStep
  <2>5. ValidInv' /\ ClientInv' /\ CleanInv'
    BY <1>1, <2>1, ValidStep, ClientStep, CleanStep
  <2>6. QED
    BY <2>2, <2>3, <2>4, <2>5 DEF Inv
<1>2. ASSUME Inv, UNCHANGED vars
      PROVE  Inv'
  BY <1>2, SMT DEF vars, cache, thread, Inv, BufTypes, ThreadTypes, RefcntExact, HeldInv, OneBuffer,
              PinnedInv, SleepLockSound, ValidInv, ClientInv, CleanInv
<1>3. QED
  BY <1>1, <1>2

\* The invariant holds in every state the cache reaches.
LEMMA InvHolds == Spec => []Inv
  BY InvInit, InvStep, PTL DEF Spec

\* b->refcnt is the number of threads between bget() and the end of brelse(),
\* and of pins, for any number of threads, blocks and buffers: bget() recycles no
\* buffer in use, and a buffer that nobody uses can be recycled.
THEOREM RefcntsExact == Spec => []RefcntExact
<1>1. Inv => RefcntExact
  BY DEF Inv
<1>2. QED
  BY <1>1, InvHolds, PTL

\* acquiresleep() and releasesleep() lose no wakeup and let one thread in at a time.
THEOREM SleepLocksSound == Spec => []SleepLockSound
<1>1. Inv => SleepLockSound
  BY DEF Inv
<1>2. QED
  BY <1>1, InvHolds, PTL

\* bget() gives a block one buffer at most, however its two loops interleave
\* with those of other threads.
THEOREM OneBufferPerBlock == Spec => []OneBuffer
<1>1. Inv => OneBuffer
  BY DEF Inv
<1>2. QED
  BY <1>1, InvHolds, PTL

-----------------------------------------------------------------------------
(* The cache implements BlockStore.  Contents and Owner choose a buffer and  *)
(* a thread; the next operators are the same with the variables they read  *)
(* as parameters, so that what is proved of them holds before and after a  *)
(* step.                                                                   *)

ContentsIn(bn, va, da, di) ==
  [k \in Blocks |-> IF \E b \in Bufs : bn[b] = k /\ va[b]
                    THEN da[CHOOSE b \in Bufs : bn[b] = k /\ va[b]]
                    ELSE di[k]]
OwnerIn(p, bk) ==
  [k \in Blocks |-> IF \E t \in Threads : p[t] \in HoldsLock /\ bk[t] = k
                    THEN CHOOSE t \in Threads : p[t] \in HoldsLock /\ bk[t] = k
                    ELSE None]

\* The contents of a block are those of its valid buffer, if there is one.
LEMMA ContentsFacts ==
  ASSUME NEW bn, NEW va, NEW da, NEW di,
         \A a, b \in Bufs : bn[a] = bn[b] /\ bn[a] # None => a = b,
         NEW k \in Blocks
  PROVE  /\ \A b \in Bufs : bn[b] = k /\ va[b] => ContentsIn(bn, va, da, di)[k] = da[b]
         /\ (\A b \in Bufs : bn[b] = k => ~va[b]) => ContentsIn(bn, va, da, di)[k] = di[k]
<1>1. k # None
  BY BcacheAssumption
<1>2. ASSUME NEW b \in Bufs, bn[b] = k, va[b]
      PROVE  ContentsIn(bn, va, da, di)[k] = da[b]
  <2>1. \A c \in Bufs : bn[c] = k /\ va[c] => c = b
    BY <1>1, <1>2
  <2>2. (CHOOSE c \in Bufs : bn[c] = k /\ va[c]) = b
    BY <1>2, <2>1
  <2>3. QED
    BY <1>2, <2>2 DEF ContentsIn
<1>3. (\A b \in Bufs : bn[b] = k => ~va[b]) => ContentsIn(bn, va, da, di)[k] = di[k]
  BY DEF ContentsIn
<1>4. QED
  BY <1>2, <1>3

\* The owner of a block is the thread that holds its buffer's lock, if any.
LEMMA OwnerFacts ==
  ASSUME NEW p, NEW bk, NEW k \in Blocks,
         \A t, u \in Threads : p[t] \in HoldsLock /\ p[u] \in HoldsLock /\ bk[t] = bk[u] => t = u
  PROVE  /\ \A t \in Threads : p[t] \in HoldsLock /\ bk[t] = k => OwnerIn(p, bk)[k] = t
         /\ (\A t \in Threads : bk[t] = k => p[t] \notin HoldsLock) => OwnerIn(p, bk)[k] = None
<1>1. ASSUME NEW t \in Threads, p[t] \in HoldsLock, bk[t] = k
      PROVE  OwnerIn(p, bk)[k] = t
  <2>1. (CHOOSE u \in Threads : p[u] \in HoldsLock /\ bk[u] = k) = t
    BY <1>1
  <2>2. QED
    BY <1>1, <2>1 DEF OwnerIn
<1>2. (\A t \in Threads : bk[t] = k => p[t] \notin HoldsLock) => OwnerIn(p, bk)[k] = None
  BY DEF OwnerIn
<1>3. QED
  BY <1>1, <1>2

\* What Contents and Owner are, in one state.
MemoryView ==
  /\ Contents = [k \in Blocks |-> Contents[k]] /\ Owner = [k \in Blocks |-> Owner[k]]
  /\ \A k \in Blocks, b \in Bufs : blockno[b] = k /\ valid[b] => Contents[k] = data[b]
  /\ \A k \in Blocks : (\A b \in Bufs : blockno[b] = k => ~valid[b]) => Contents[k] = disk[k]
  /\ \A t \in Threads : pc[t] \in HoldsLock => Owner[blk[t]] = t
  /\ \A k \in Blocks : (\A t \in Threads : blk[t] = k => pc[t] \notin HoldsLock) => Owner[k] = None

\* In a state of the invariant no block has two buffers or two owners.
LEMMA Unambiguous ==
  ASSUME Inv
  PROVE  /\ \A a, b \in Bufs : blockno[a] = blockno[b] /\ blockno[a] # None => a = b
         /\ \A t, u \in Threads : pc[t] \in HoldsLock /\ pc[u] \in HoldsLock /\ blk[t] = blk[u] => t = u
         /\ \A t \in Threads : pc[t] \in HoldsLock => blk[t] \in Blocks
<1>1. \A a, b \in Bufs : blockno[a] = blockno[b] /\ blockno[a] # None => a = b
  BY DEF Inv, OneBuffer
<1>2. \A t, u \in Threads : pc[t] \in HoldsLock /\ pc[u] \in HoldsLock /\ blk[t] = blk[u] => t = u
  BY OneHolder
<1>3. \A t \in Threads : pc[t] \in HoldsLock => blk[t] \in Blocks
  BY DEF Inv, HeldInv, HoldsRef, HoldsLock
<1>4. QED
  BY <1>1, <1>2, <1>3

\* MemoryView for any values of the variables with one buffer and one owner per block.
LEMMA MemoryViewHolds ==
  ASSUME NEW bn, NEW va, NEW da, NEW di, NEW p, NEW bk,
         \A a, b \in Bufs : bn[a] = bn[b] /\ bn[a] # None => a = b,
         \A t, u \in Threads : p[t] \in HoldsLock /\ p[u] \in HoldsLock /\ bk[t] = bk[u] => t = u,
         \A t \in Threads : p[t] \in HoldsLock => bk[t] \in Blocks,
         NEW c, NEW o, c = ContentsIn(bn, va, da, di), o = OwnerIn(p, bk)
  PROVE  /\ c = [k \in Blocks |-> c[k]] /\ o = [k \in Blocks |-> o[k]]
         /\ \A k \in Blocks, b \in Bufs : bn[b] = k /\ va[b] => c[k] = da[b]
         /\ \A k \in Blocks : (\A b \in Bufs : bn[b] = k => ~va[b]) => c[k] = di[k]
         /\ \A t \in Threads : p[t] \in HoldsLock => o[bk[t]] = t
         /\ \A k \in Blocks : (\A t \in Threads : bk[t] = k => p[t] \notin HoldsLock) => o[k] = None
<1>1. c = [k \in Blocks |-> c[k]]
  BY DEF ContentsIn
<1>2. o = [k \in Blocks |-> o[k]]
  BY DEF OwnerIn
<1>3. /\ \A k \in Blocks, b \in Bufs : bn[b] = k /\ va[b] => c[k] = da[b]
      /\ \A k \in Blocks : (\A b \in Bufs : bn[b] = k => ~va[b]) => c[k] = di[k]
  BY ContentsFacts, SMT
<1>4. /\ \A t \in Threads : p[t] \in HoldsLock => o[bk[t]] = t
      /\ \A k \in Blocks : (\A t \in Threads : bk[t] = k => p[t] \notin HoldsLock) => o[k] = None
  BY OwnerFacts, SMT
<1>5. QED
  BY <1>1, <1>2, <1>3, <1>4

\* The view before and after a step.
LEMMA Views ==
  ASSUME Inv, Inv'
  PROVE  MemoryView /\ MemoryView'
<1>1. MemoryView
  <2>1. Contents = ContentsIn(blockno, valid, data, disk) /\ Owner = OwnerIn(pc, blk)
    BY DEF Contents, ContentsIn, Owner, OwnerIn
  <2>2. QED
    BY <2>1, Unambiguous, MemoryViewHolds, SMT DEF MemoryView
<1>2. MemoryView'
  <2>1. Contents' = ContentsIn(blockno', valid', data', disk') /\ Owner' = OwnerIn(pc', blk')
    BY DEF Contents, ContentsIn, Owner, OwnerIn
  <2>2. /\ \A a, b \in Bufs : blockno'[a] = blockno'[b] /\ blockno'[a] # None => a = b
        /\ \A t, u \in Threads : pc'[t] \in HoldsLock /\ pc'[u] \in HoldsLock /\ blk'[t] = blk'[u] => t = u
        /\ \A t \in Threads : pc'[t] \in HoldsLock => blk'[t] \in Blocks
    <3>1. OneBuffer' /\ HeldInv' /\ SleepLockSound'
      BY DEF Inv
    <3>2. \A t \in Threads : pc'[t] \in HoldsLock =>
            /\ buf'[t] \in Bufs /\ blk'[t] \in Blocks /\ blockno'[buf'[t]] = blk'[t]
            /\ lock'[buf'[t]] = t /\ blk'[t] # None
      BY <3>1, BcacheAssumption, SMT DEF HeldInv, SleepLockSound, HoldsRef, HoldsLock
    <3>3. QED
      BY <3>1, <3>2, SMT DEF OneBuffer
  <2>3. QED
    BY <2>1, <2>2, MemoryViewHolds, SMT DEF MemoryView
<1>3. QED
  BY <1>1, <1>2

\* The two views agree when no block changes hands or contents.
LEMMA SameMemory ==
  ASSUME MemoryView, MemoryView', \A k \in Blocks : Contents'[k] = Contents[k] /\ Owner'[k] = Owner[k]
  PROVE  UNCHANGED BS!bvars
<1>1. Contents' = Contents /\ Owner' = Owner
  BY DEF MemoryView
<1>2. QED
  BY <1>1 DEF BS!bvars

\* Who owns a block is the same after a step that leaves the holders of the
\* locks alone.
LEMMA SameOwners ==
  ASSUME MemoryView, MemoryView',
         \A t \in Threads : /\ pc'[t] \in HoldsLock <=> pc[t] \in HoldsLock
                            /\ pc[t] \in HoldsLock => blk'[t] = blk[t]
  PROVE  \A k \in Blocks : Owner'[k] = Owner[k]
<1> TAKE k \in Blocks
<1>1. CASE \E t \in Threads : pc[t] \in HoldsLock /\ blk[t] = k
  <2>1. PICK t \in Threads : pc[t] \in HoldsLock /\ blk[t] = k
    BY <1>1
  <2>2. Owner[k] = t
    BY <2>1 DEF MemoryView
  <2>3. pc'[t] \in HoldsLock /\ blk'[t] = k
    BY <2>1
  <2>4. Owner'[k] = t
    BY <2>3 DEF MemoryView
  <2>5. QED
    BY <2>2, <2>4
<1>2. CASE \A t \in Threads : blk[t] = k => pc[t] \notin HoldsLock
  BY <1>2, SMT DEF MemoryView
<1>3. QED
  BY <1>1, <1>2

\* A step that leaves the locks, and every valid buffer, alone.
LEMMA SameBuffers ==
  ASSUME Inv, Inv', UNCHANGED <<blockno, valid, data, disk>>,
         \A t \in Threads : /\ pc'[t] \in HoldsLock <=> pc[t] \in HoldsLock
                            /\ pc[t] \in HoldsLock => blk'[t] = blk[t]
  PROVE  UNCHANGED BS!bvars
<1>1. MemoryView /\ MemoryView'
  BY Views
<1>2. ASSUME NEW k \in Blocks
      PROVE  Contents'[k] = Contents[k] /\ Owner'[k] = Owner[k]
  <2>1. Contents'[k] = Contents[k]
    BY DEF Contents
  <2>2. Owner'[k] = Owner[k]
    BY <1>1, SameOwners
  <2>3. QED
    BY <2>1, <2>2
<1>3. QED
  BY <1>1, <1>2, SameMemory

\* Recycling a buffer: its block is not pinned and nobody uses it, so what the
\* buffer held is on the disk.
LEMMA MissStep ==
  ASSUME Inv, Inv', NEW t \in Threads, NEW k \in Blocks, NEW b \in Bufs, bgetMiss(t, k, b)
  PROVE  UNCHANGED BS!bvars
<1>0. MemoryView /\ MemoryView' /\ BufTypes /\ ThreadTypes
  BY Views DEF Inv
<1>1. Recycle(t, k, b) /\ Cached(k) = {} /\ refcnt[b] = 0 /\ pc[t] = "idle"
  BY DEF bgetMiss, Unused
<1>2. /\ \A c \in Bufs : blockno'[c] = (IF c = b THEN k ELSE blockno[c])
      /\ \A c \in Bufs : valid'[c] = (IF c = b THEN FALSE ELSE valid[c])
      /\ data' = data /\ disk' = disk
  BY <1>0, <1>1 DEF Recycle, BufTypes
<1>3. \A u \in Threads : /\ pc'[u] \in HoldsLock <=> pc[u] \in HoldsLock
                         /\ pc[u] \in HoldsLock => blk'[u] = blk[u]
  BY <1>0, <1>1 DEF Recycle, Goto, HoldsLock, ThreadTypes
<1>4. \A j \in Blocks : Owner'[j] = Owner[j]
  BY <1>0, <1>3, SameOwners
<1>5. valid[b] => data[b] = disk[blockno[b]]
  <2>1. \A u \in Threads : pc[u] = "use" => buf[u] # b
    BY <1>1, UnusedBuffer DEF HoldsRef
  <2>2. blockno[b] \notin pins
    BY <1>1, UnusedBuffer
  <2>3. QED
    BY <2>1, <2>2, SMT DEF Inv, CleanInv
<1>6. ASSUME NEW j \in Blocks
      PROVE  Contents'[j] = Contents[j]
  <2>1. CASE \E c \in Bufs \ {b} : blockno[c] = j /\ valid[c]
    <3>1. PICK c \in Bufs \ {b} : blockno[c] = j /\ valid[c]
      BY <2>1
    <3>2. Contents[j] = data[c]
      BY <1>0, <3>1 DEF MemoryView
    <3>3. blockno'[c] = j /\ valid'[c] /\ data'[c] = data[c]
      BY <1>2, <3>1
    <3>4. Contents'[j] = data[c]
      BY <1>0, <3>3 DEF MemoryView
    <3>5. QED
      BY <3>2, <3>4
  <2>2. CASE \A c \in Bufs \ {b} : blockno[c] = j => ~valid[c]
    <3>1. Contents'[j] = disk[j]
      BY <1>0, <1>2, <2>2 DEF MemoryView
    <3>2. Contents[j] = disk[j]
      <4>1. CASE blockno[b] = j /\ valid[b]
        BY <1>0, <1>5, <4>1 DEF MemoryView
      <4>2. CASE ~(blockno[b] = j /\ valid[b])
        BY <1>0, <2>2, <4>2 DEF MemoryView
      <4>3. QED
        BY <4>1, <4>2
    <3>3. QED
      BY <3>1, <3>2
  <2>3. QED
    BY <2>1, <2>2
<1>7. QED
  BY <1>0, <1>4, <1>6, SameMemory

\* Reading a block in: its contents were those of the disk.
LEMMA ReadStep ==
  ASSUME Inv, Inv', NEW t \in Threads, bread(t)
  PROVE  UNCHANGED BS!bvars
<1>0. MemoryView /\ MemoryView' /\ BufTypes /\ ThreadTypes
  BY Views DEF Inv
<1>1. buf[t] \in Bufs /\ blk[t] \in Blocks /\ blockno[buf[t]] = blk[t] /\ blk[t] # None
  BY HolderFacts, BcacheAssumption DEF bread, HoldsRef
<1>2. /\ \A c \in Bufs : blockno[c] = blk[t] => c = buf[t]
      /\ ~valid[buf[t]]
  BY <1>1, SMT DEF Inv, OneBuffer, ValidInv, bread
<1>3. /\ blockno' = blockno /\ disk' = disk
      /\ \A c \in Bufs \ {buf[t]} : valid'[c] = valid[c] /\ data'[c] = data[c]
      /\ valid'[buf[t]] = TRUE /\ data'[buf[t]] = disk[blk[t]]
  BY <1>0, <1>1 DEF bread, BufTypes
<1>4. \A u \in Threads : /\ pc'[u] \in HoldsLock <=> pc[u] \in HoldsLock
                         /\ pc[u] \in HoldsLock => blk'[u] = blk[u]
  BY <1>0 DEF bread, Goto, HoldsLock, ThreadTypes
<1>5. \A j \in Blocks : Owner'[j] = Owner[j]
  BY <1>0, <1>4, SameOwners
<1>6. ASSUME NEW j \in Blocks
      PROVE  Contents'[j] = Contents[j]
  <2>1. CASE j = blk[t]
    <3>1. Contents[j] = disk[j]
      BY <1>0, <1>2, <2>1 DEF MemoryView
    <3>2. Contents'[j] = disk[j]
      BY <1>0, <1>1, <1>3, <2>1 DEF MemoryView
    <3>3. QED
      BY <3>1, <3>2
  <2>2. CASE j # blk[t] /\ \E c \in Bufs : blockno[c] = j /\ valid[c]
    <3>1. PICK c \in Bufs : blockno[c] = j /\ valid[c]
      BY <2>2
    <3>2. c # buf[t]
      BY <1>1, <2>2, <3>1
    <3>3. QED
      BY <1>0, <1>3, <3>1, <3>2, SMT DEF MemoryView
  <2>3. CASE j # blk[t] /\ \A c \in Bufs : blockno[c] = j => ~valid[c]
    BY <1>0, <1>1, <1>3, <2>3, SMT DEF MemoryView
  <2>4. QED
    BY <2>1, <2>2, <2>3
<1>7. QED
  BY <1>0, <1>5, <1>6, SameMemory

\* Writing a block out: its contents are those of the buffer all along.
LEMMA WriteStep ==
  ASSUME Inv, Inv', NEW t \in Threads, bwrite(t)
  PROVE  UNCHANGED BS!bvars
<1>0. MemoryView /\ MemoryView' /\ BufTypes /\ ThreadTypes
  BY Views DEF Inv
<1>1. buf[t] \in Bufs /\ blk[t] \in Blocks /\ blockno[buf[t]] = blk[t]
  BY HolderFacts DEF bwrite, HoldsRef
<1>2. valid[buf[t]]
  BY DEF Inv, ValidInv, bwrite
<1>3. /\ UNCHANGED <<blockno, valid, data, pc, blk>>
      /\ \A j \in Blocks : j # blk[t] => disk'[j] = disk[j]
  BY <1>0, <1>1 DEF bwrite, cache, BufTypes
<1>4. \A j \in Blocks : Owner'[j] = Owner[j]
  BY <1>0, <1>3, SameOwners
<1>5. ASSUME NEW j \in Blocks
      PROVE  Contents'[j] = Contents[j]
  <2>1. CASE \E c \in Bufs : blockno[c] = j /\ valid[c]
    BY <1>0, <1>3, <2>1, SMT DEF MemoryView
  <2>2. CASE \A c \in Bufs : blockno[c] = j => ~valid[c]
    BY <1>0, <1>1, <1>2, <1>3, <2>2 DEF MemoryView
  <2>3. QED
    BY <2>1, <2>2
<1>6. QED
  BY <1>0, <1>4, <1>5, SameMemory

\* The holder changes the contents of its block.
LEMMA ModifyStep ==
  ASSUME Inv, Inv', NEW t \in Threads, NEW v \in Vals, Modify(t, v)
  PROVE  BS!BWrite(t, blk[t], v)
<1>0. MemoryView /\ MemoryView' /\ BufTypes /\ ThreadTypes
  BY Views DEF Inv
<1>1. buf[t] \in Bufs /\ blk[t] \in Blocks /\ blockno[buf[t]] = blk[t]
  BY HolderFacts DEF Modify, HoldsRef
<1>2. pc[t] \in HoldsLock /\ valid[buf[t]]
  BY DEF Inv, ValidInv, Modify, HoldsLock
<1>3. /\ UNCHANGED <<blockno, valid, disk, pc, blk>> /\ data'[buf[t]] = v
      /\ \A c \in Bufs \ {buf[t]} : data'[c] = data[c]
  BY <1>0, <1>1 DEF Modify, BufTypes
<1>4. \A j \in Blocks : Owner'[j] = Owner[j]
  BY <1>0, <1>3, SameOwners
<1>5. Owner' = Owner /\ Owner[blk[t]] = t
  BY <1>0, <1>2, <1>4, SMT DEF MemoryView
<1>6. ASSUME NEW j \in Blocks, j # blk[t]
      PROVE  Contents'[j] = Contents[j]
  <2>1. CASE \E c \in Bufs : blockno[c] = j /\ valid[c]
    <3>1. PICK c \in Bufs : blockno[c] = j /\ valid[c]
      BY <2>1
    <3>2. c # buf[t]
      BY <1>1, <1>6, <3>1
    <3>3. Contents[j] = data[c]
      BY <1>0, <3>1 DEF MemoryView
    <3>4. Contents'[j] = data'[c]
      BY <1>0, <1>3, <3>1 DEF MemoryView
    <3>5. QED
      BY <1>3, <3>2, <3>3, <3>4
  <2>2. CASE \A c \in Bufs : blockno[c] = j => ~valid[c]
    BY <1>0, <1>3, <2>2 DEF MemoryView
  <2>3. QED
    BY <2>1, <2>2
<1>7. Contents'[blk[t]] = v
  BY <1>0, <1>1, <1>2, <1>3, SMT DEF MemoryView
<1>8. Contents' = [Contents EXCEPT ![blk[t]] = v]
  BY <1>0, <1>1, <1>6, <1>7 DEF MemoryView
<1>9. QED
  BY <1>5, <1>8 DEF BS!BWrite

\* acquiresleep() that gets the lock takes the block; one that has to sleep does
\* nothing.
LEMMA LockStep ==
  ASSUME Inv, Inv', NEW t \in Threads, acquiresleep(t)
  PROVE  BS!BLock(t, blk[t]) \/ UNCHANGED BS!bvars
<1>0. MemoryView /\ MemoryView' /\ BufTypes /\ ThreadTypes
  BY Views DEF Inv
<1>1. buf[t] \in Bufs /\ blk[t] \in Blocks /\ blockno[buf[t]] = blk[t] /\ blk[t] # None
  BY HolderFacts, BcacheAssumption DEF acquiresleep, HoldsRef
<1>2. /\ UNCHANGED <<blockno, valid, data, disk, blk, buf>> /\ pc[t] = "lock"
      /\ \A u \in Threads \ {t} : pc'[u] = pc[u]
      /\ \/ pc'[t] = "asleep"
         \/ pc'[t] \in HoldsLock /\ lock[buf[t]] = None
  BY <1>0 DEF acquiresleep, Goto, HoldsLock, ThreadTypes
<1>3. CASE pc'[t] = "asleep"
  <2>1. \A u \in Threads : /\ pc'[u] \in HoldsLock <=> pc[u] \in HoldsLock
                           /\ pc[u] \in HoldsLock => blk'[u] = blk[u]
    BY <1>2, <1>3 DEF HoldsLock
  <2>2. QED
    BY <1>2, <2>1, SameBuffers
<1>4. CASE pc'[t] \in HoldsLock /\ lock[buf[t]] = None
  <2>1. \A u \in Threads : blk[u] = blk[t] => pc[u] \notin HoldsLock
    <3>1. SUFFICES ASSUME NEW u \in Threads, blk[u] = blk[t], pc[u] \in HoldsLock
                   PROVE  FALSE
      OBVIOUS
    <3>2. buf[u] \in Bufs /\ blockno[buf[u]] = blk[u] /\ lock[buf[u]] = u
      BY <3>1, SMT DEF Inv, HeldInv, SleepLockSound, HoldsRef, HoldsLock
    <3>3. buf[u] = buf[t]
      BY <1>1, <3>1, <3>2 DEF Inv, OneBuffer
    <3>4. QED
      BY <1>4, <3>2, <3>3, BcacheAssumption
  <2>2. Owner[blk[t]] = None
    BY <1>0, <1>1, <2>1 DEF MemoryView
  <2>3. Owner'[blk[t]] = t
    BY <1>0, <1>2, <1>4 DEF MemoryView
  <2>4. ASSUME NEW j \in Blocks, j # blk[t]
        PROVE  Owner'[j] = Owner[j]
    <3>1. CASE \E u \in Threads : pc[u] \in HoldsLock /\ blk[u] = j
      <4>1. PICK u \in Threads : pc[u] \in HoldsLock /\ blk[u] = j
        BY <3>1
      <4>2. u # t
        BY <2>4, <4>1
      <4>3. Owner[j] = u
        BY <1>0, <4>1 DEF MemoryView
      <4>4. pc'[u] \in HoldsLock /\ blk'[u] = j
        BY <1>2, <4>1, <4>2
      <4>5. Owner'[j] = u
        BY <1>0, <4>4 DEF MemoryView
      <4>6. QED
        BY <4>3, <4>5
    <3>2. CASE \A u \in Threads : blk[u] = j => pc[u] \notin HoldsLock
      <4>1. \A u \in Threads : blk'[u] = j => pc'[u] \notin HoldsLock
        BY <1>2, <2>4, <3>2
      <4>2. QED
        BY <1>0, <3>2, <4>1, SMT DEF MemoryView
    <3>3. QED
      BY <3>1, <3>2
  <2>5. Owner' = [Owner EXCEPT ![blk[t]] = t]
    BY <1>0, <1>1, <2>3, <2>4, SMT DEF MemoryView
  <2>6. Contents' = Contents
    BY <1>2 DEF Contents
  <2>7. QED
    BY <2>2, <2>5, <2>6 DEF BS!BLock
<1>5. QED
  BY <1>2, <1>3, <1>4

\* releasesleep() gives the block up.
LEMMA UnlockStep ==
  ASSUME Inv, Inv', NEW t \in Threads, releasesleep(t)
  PROVE  BS!BUnlock(t, blk[t])
<1>0. MemoryView /\ MemoryView' /\ ThreadTypes
  BY Views DEF Inv
<1>1. blk[t] \in Blocks
  BY HolderFacts DEF releasesleep, HoldsRef
<1>2. /\ UNCHANGED <<blockno, valid, data, disk, blk>> /\ pc[t] \in HoldsLock
      /\ \A u \in Threads \ {t} : pc'[u] \in HoldsLock <=> pc[u] \in HoldsLock
      /\ pc'[t] \notin HoldsLock
  BY <1>0 DEF releasesleep, HoldsLock, ThreadTypes
<1>3. Owner[blk[t]] = t
  BY <1>0, <1>2 DEF MemoryView
<1>4. Owner'[blk[t]] = None
  <2>1. \A u \in Threads : u # t /\ blk[u] = blk[t] => pc[u] \notin HoldsLock
    BY <1>2, OneHolder
  <2>2. \A u \in Threads : blk'[u] = blk[t] => pc'[u] \notin HoldsLock
    BY <1>2, <2>1
  <2>3. QED
    BY <1>0, <1>1, <2>2 DEF MemoryView
<1>5. ASSUME NEW j \in Blocks, j # blk[t]
      PROVE  Owner'[j] = Owner[j]
  <2>1. CASE \E u \in Threads : pc[u] \in HoldsLock /\ blk[u] = j
    <3>1. PICK u \in Threads : pc[u] \in HoldsLock /\ blk[u] = j
      BY <2>1
    <3>2. Owner[j] = u
      BY <1>0, <3>1 DEF MemoryView
    <3>3. pc'[u] \in HoldsLock /\ blk'[u] = j
      BY <1>2, <1>5, <3>1
    <3>4. Owner'[j] = u
      BY <1>0, <3>3 DEF MemoryView
    <3>5. QED
      BY <3>2, <3>4
  <2>2. CASE \A u \in Threads : blk[u] = j => pc[u] \notin HoldsLock
    <3>1. \A u \in Threads : blk'[u] = j => pc'[u] \notin HoldsLock
      BY <1>2, <2>2
    <3>2. QED
      BY <1>0, <2>2, <3>1, SMT DEF MemoryView
  <2>3. QED
    BY <2>1, <2>2
<1>6. Owner' = [Owner EXCEPT ![blk[t]] = None]
  BY <1>0, <1>1, <1>4, <1>5 DEF MemoryView
<1>7. Contents' = Contents
  BY <1>2 DEF Contents
<1>8. QED
  BY <1>3, <1>6, <1>7 DEF BS!BUnlock

\* The initial contents are those of the disk, and nobody owns a block.
LEMMA RefineInit == Init => BS!BInit
<1> SUFFICES ASSUME Init
             PROVE  BS!BInit
  OBVIOUS
<1>1. Contents = [k \in Blocks |-> disk[k]]
  BY DEF Init, Contents
<1>2. Owner = [k \in Blocks |-> None]
  BY DEF Init, Owner, HoldsLock
<1>3. disk \in [Blocks -> Vals]
  BY DEF Init
<1>4. QED
  BY <1>1, <1>2, <1>3 DEF BS!BInit

\* Every step of the cache is a step of the store or changes nothing in it.
LEMMA RefineStep ==
  ASSUME Inv, Inv', [Next]_vars
  PROVE  [BS!BNext]_(BS!bvars)
<1>1. ASSUME NEW t \in Threads, Step(t)
      PROVE  [BS!BNext]_(BS!bvars)
  <2>0. ThreadTypes
    BY DEF Inv
  <2>1. ASSUME NEW k \in Blocks, NEW b \in Bufs, bgetHit(t, k, b)
        PROVE  UNCHANGED BS!bvars
    <3>1. \A u \in Threads : /\ pc'[u] \in HoldsLock <=> pc[u] \in HoldsLock
                             /\ pc[u] \in HoldsLock => blk'[u] = blk[u]
      BY <2>0, <2>1 DEF bgetHit, Goto, HoldsLock, ThreadTypes
    <3>2. QED
      BY <2>1, <3>1, SameBuffers DEF bgetHit
  <2>2. ASSUME NEW k \in Blocks, NEW b \in Bufs, bgetMiss(t, k, b)
        PROVE  UNCHANGED BS!bvars
    BY <2>2, MissStep
  <2>3. ASSUME NEW v \in Vals, Modify(t, v)
        PROVE  BS!BNext
    <3>1. BS!BWrite(t, blk[t], v) /\ blk[t] \in Blocks
      BY <2>3, ModifyStep, HolderFacts DEF Modify, HoldsRef
    <3>2. QED
      BY <3>1 DEF BS!BNext
  <2>4. CASE acquiresleep(t)
    <3>1. /\ BS!BLock(t, blk[t]) \/ UNCHANGED BS!bvars
          /\ blk[t] \in Blocks
      BY <2>4, LockStep, HolderFacts DEF acquiresleep, HoldsRef
    <3>2. QED
      BY <3>1 DEF BS!BNext
  <2>5. CASE bread(t)
    BY <2>5, ReadStep
  <2>6. CASE bwrite(t)
    BY <2>6, WriteStep
  <2>7. CASE bpin(t) \/ bunpin(t)
    <3>1. UNCHANGED <<blockno, valid, data, disk, pc, blk>>
      BY <2>7 DEF bpin, bunpin, thread
    <3>2. QED
      BY <3>1, SameBuffers
  <2>8. CASE releasesleep(t)
    <3>1. BS!BUnlock(t, blk[t]) /\ blk[t] \in Blocks
      BY <2>8, UnlockStep, HolderFacts DEF releasesleep, HoldsRef
    <3>2. QED
      BY <3>1 DEF BS!BNext
  <2>9. CASE brelse(t)
    <3>1. \A u \in Threads : /\ pc'[u] \in HoldsLock <=> pc[u] \in HoldsLock
                             /\ pc[u] \in HoldsLock => blk'[u] = blk[u]
      BY <2>0, <2>9 DEF brelse, Goto, HoldsLock, ThreadTypes
    <3>2. QED
      BY <2>9, <3>1, SameBuffers DEF brelse
  <2>10. QED
    BY <1>1, <2>1, <2>2, <2>3, <2>4, <2>5, <2>6, <2>7, <2>8, <2>9 DEF Step
<1>2. CASE Next
  BY <1>1, <1>2 DEF Next, Step
<1>3. CASE UNCHANGED vars
  <2>1. UNCHANGED <<blockno, valid, data, disk, pc, blk>>
    BY <1>3 DEF vars, cache, thread
  <2>2. QED
    BY <2>1, SameBuffers
<1>4. QED
  BY <1>2, <1>3

\* The buffer cache implements the store of lockable blocks, however few buffers
\* it has: recycling, reading in, writing out and pinning change no block.
THEOREM CacheImplementsMemory == Spec => CacheIsMemory
<1>1. Inv /\ Inv' /\ [Next]_vars => [BS!BNext]_(BS!bvars)
  BY RefineStep
<1>2. QED
  BY <1>1, RefineInit, InvHolds, PTL DEF Spec, CacheIsMemory, BS!BSpec
=============================================================================
