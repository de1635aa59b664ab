----------------------------- MODULE LogProofs ------------------------------
(***************************************************************************)
(* Proof that the log implements AtomicDisk, for any number of threads,    *)
(* blocks and crashes, and that the space begin_op() reserves is enough.   *)
(***************************************************************************)
EXTENDS Log, FiniteSetTheorems, TLAPS

-----------------------------------------------------------------------------
(* The inductive invariant.                                                *)

Active == {p \in Threads : pc[p] \in {"op", "logw"}}

NoDup(s) == \A j, k \in 1..Len(s) : s[j] = s[k] => j = k

\* log.outstanding counts the operations in progress.
CountInv == IsFiniteSet(Active) /\ outstanding = Cardinality(Active)

\* A commit excludes operations and other commits; loops start at 1.
PhaseInv ==
  /\ up # "up" => ~committing /\ \A p \in Threads : pc[p] = "idle"
  /\ committing => Active = {}
  /\ \A p \in Threads : pc[p] \in Committing =>
       /\ committing
       /\ \A q \in Threads \ {p} : pc[q] \notin Committing
       /\ lh = <<>> <=> pc[p] = "done"
       /\ pc[p] \notin {"wlog", "install"} => tail = 1
  /\ ~committing /\ up # "install" => tail = 1

\* The header on disk is empty except from the commit to the end of the
\* installation, or of recovery; no block is in the log twice.
HeadInv ==
  /\ NoDup(lh) /\ NoDup(dhead)
  /\ up = "up" =>
       /\ dhead = <<>> \/ dhead = lh
       /\ dhead # <<>> => \E p \in Threads : pc[p] \in {"install", "clear"}
       /\ (\E p \in Threads : pc[p] \in {"install", "clear"}) => dhead = lh
  /\ up = "read" => lh = <<>>
  /\ up \in {"install", "clear"} => dhead = lh
  /\ up = "install" => lh # <<>>

\* A thread has a buffer locked exactly between bread() and brelse().
BufInv ==
  \A p \in Threads :
    /\ buf[p] # None <=> pc[p] = "logw"
    /\ buf[p] # None => \A q \in Threads \ {p} : buf[q] # buf[p]

\* Block k of the log has been copied to its place.
Installed(k) ==
  \/ up = "clear" \/ (up = "install" /\ k < tail)
  \/ \E p \in Threads : pc[p] = "clear" \/ (pc[p] = "install" /\ k < tail)

\* A buffer that differs from the disk is in the log and pinned, or locked.
CacheInv ==
  /\ up # "up" => cache = home
  /\ up = "up" => \A b \in Blocks : cache[b] # home[b] =>
       b \in BlocksOf(lh) \/ \E p \in Threads : buf[p] = b
  /\ up = "up" => \A k \in 1..Len(lh) : Installed(k) \/ pin[lh[k]] > 0

\* What is in the log on disk, and what has been copied from it.
LogInv ==
  \A k \in 1..Len(lh) :
    /\ \A p \in Threads :
         \/ pc[p] = "wlog" /\ k < tail
         \/ pc[p] \in {"whead", "install", "clear"}
         => dlog[k] = cache[lh[k]]
    /\ Installed(k) => home[lh[k]] = dlog[k]

\* Between commits, the blocks in the log belong to operations in progress.
PendInv == up = "up" /\ lh # <<>> /\ ~committing => Active # {}

\* A buffer is pinned, once, while its block is in the log and not installed.
PinInv ==
  \A b \in Blocks :
    pin[b] = IF up = "up" /\ \E k \in 1..Len(lh) : lh[k] = b /\ ~Installed(k) THEN 1 ELSE 0

IInv == TypeOK /\ CountInv /\ PhaseInv /\ HeadInv /\ BufInv /\ CacheInv /\ LogInv
        /\ PendInv /\ PinInv

-----------------------------------------------------------------------------
(* The steps.                                                              *)

\* The steps of one thread.
ThreadStep(p) ==
  \/ Start(p) \/ begin_op(p) \/ log_write(p) \/ end_op(p)
  \/ write_log(p) \/ write_head(p) \/ Install(p) \/ Clear(p) \/ Committed(p)
  \/ \E b \in Blocks, v \in Vals : Modify(p, b, v)

\* Zenon proves what a step does not give to another prover.
USE Zenon

\* Every step is that of a thread, of the cache, of recovery, or a crash.
LEMMA Steps ==
  ASSUME [Next]_vars
  PROVE  \/ \E p \in Threads : ThreadStep(p)
         \/ \E b \in Blocks : Evict(b)
         \/ read_head \/ RecoverInstall \/ RecoverClear \/ Crash
         \/ UNCHANGED vars
BY DEF Next, ThreadStep, OpStep, CommitStep, Recover

\* log.outstanding is not 0 while an operation is in progress.
LEMMA ActiveCount ==
  ASSUME CountInv, NEW p \in Active
  PROVE  outstanding # 0
BY FS_EmptySet DEF CountInv

\* TypeOK is preserved.
LEMMA TypeStep ==
  ASSUME TypeOK, CountInv, PhaseInv, HeadInv, BufInv, CacheInv, [Next]_vars
  PROVE  TypeOK'
<1> USE LogAssumption
<1>e. <<>> \in Seq(Blocks) /\ Len(<<>>) = 0
  BY SMT
<1>1. ASSUME NEW p \in Threads, Start(p) PROVE TypeOK'
  <2>10. DiskTypes' /\ CacheTypes' /\ LogTypes'
    BY <1>1 DEF TypeOK, Start, DiskTypes, CacheTypes, LogTypes, disk, mem, log
  <2>11. ThreadTypes'
    BY <1>1 DEF Start, TypeOK, ThreadTypes, At, Goto, Labels, thread
  <2> QED
    BY <2>10, <2>11 DEF TypeOK
<1>2. ASSUME NEW p \in Threads, begin_op(p) PROVE TypeOK'
  <2>10. DiskTypes' /\ CacheTypes'
    BY <1>2 DEF TypeOK, begin_op, DiskTypes, CacheTypes, disk, mem
  <2>11. LogTypes'
    BY <1>2, SMT DEF begin_op, TypeOK, LogTypes, log
  <2>12. ThreadTypes'
    BY <1>2 DEF begin_op, TypeOK, ThreadTypes, At, Goto, Labels, thread
  <2> QED
    BY <2>10, <2>11, <2>12 DEF TypeOK
<1>3. ASSUME NEW p \in Threads, log_write(p) PROVE TypeOK'
  <2>p. buf[p] \in Blocks
    BY <1>3 DEF TypeOK, ThreadTypes, BufInv, log_write, At
  <2>q. tail = 1 /\ Len(lh) < LOGSIZE
    BY <1>3, SMT DEF TypeOK, LogTypes, PhaseInv, Active, log_write, At, LogPanics
  <2>10. DiskTypes'
    BY <1>3 DEF TypeOK, log_write, DiskTypes, disk
  <2>r. \/ lh' = lh /\ pin' = pin
        \/ lh' = Append(lh, buf[p]) /\ pin' = [pin EXCEPT ![buf[p]] = @ + 1]
    BY <1>3 DEF log_write
  <2>s. UNCHANGED <<cache, outstanding, committing, tail, up, crashes>>
    BY <1>3 DEF log_write
  <2>11. CacheTypes'
    BY <2>p, <2>r, <2>s, SMT DEF TypeOK, CacheTypes
  <2>12. LogTypes'
    <3>1. CASE lh' = lh
      BY <2>s, <3>1 DEF TypeOK, LogTypes
    <3>2. CASE lh' = Append(lh, buf[p])
      <4>1. lh' \in Seq(Blocks) /\ Len(lh') = Len(lh) + 1
        BY <2>p, <3>2, SMT DEF TypeOK, LogTypes
      <4> QED
        BY <2>q, <2>s, <4>1, SMT DEF TypeOK, LogTypes
    <3> QED
      BY <2>r, <3>1, <3>2
  <2>13. ThreadTypes'
    BY <1>3, <2>p, <2>q DEF log_write, TypeOK, ThreadTypes, At, Goto, Labels, thread
  <2> QED
    BY <2>10, <2>11, <2>12, <2>13 DEF TypeOK
<1>4. ASSUME NEW p \in Threads, end_op(p) PROVE TypeOK'
  <2>p. outstanding - 1 \in Nat
    BY <1>4, ActiveCount, SMT DEF TypeOK, LogTypes, Active, end_op, At
  <2>10. DiskTypes' /\ CacheTypes'
    BY <1>4 DEF TypeOK, end_op, DiskTypes, CacheTypes, disk, mem
  <2>11. LogTypes'
    BY <1>4, <2>p DEF end_op, TypeOK, LogTypes, log
  <2>12. ThreadTypes'
    BY <1>4, <2>p DEF end_op, TypeOK, ThreadTypes, At, Goto, Labels, WakeAnd, thread
  <2> QED
    BY <2>10, <2>11, <2>12 DEF TypeOK
<1>5. ASSUME NEW p \in Threads, write_log(p) PROVE TypeOK'
  <2>p. lh # <<>> /\ tail \in 1..Len(lh) /\ lh[tail] \in Blocks
    BY <1>5, SMT DEF TypeOK, LogTypes, PhaseInv, write_log, At, Committing
  <2>10. CacheTypes'
    BY <1>5 DEF TypeOK, write_log, CacheTypes, mem
  <2>11. DiskTypes'
    BY <1>5, <2>p DEF write_log, TypeOK, DiskTypes, CacheTypes, LogTypes, disk
  <2>12. LogTypes'
    BY <1>5, <2>p, SMT DEF write_log, TypeOK, LogTypes, log
  <2>13. ThreadTypes'
    BY <1>5, <2>p DEF write_log, TypeOK, ThreadTypes, At, Goto, Labels, thread
  <2> QED
    BY <2>10, <2>11, <2>12, <2>13 DEF TypeOK
<1>6. ASSUME NEW p \in Threads, write_head(p) PROVE TypeOK'
  <2>10. CacheTypes' /\ LogTypes'
    BY <1>6 DEF TypeOK, write_head, CacheTypes, LogTypes, mem, log
  <2>11. DiskTypes'
    BY <1>6 DEF write_head, TypeOK, DiskTypes, LogTypes, disk
  <2>12. ThreadTypes'
    BY <1>6 DEF write_head, TypeOK, ThreadTypes, At, Goto, Labels, thread
  <2> QED
    BY <2>10, <2>11, <2>12 DEF TypeOK
<1>7. ASSUME NEW p \in Threads, Install(p) PROVE TypeOK'
  <2>1. lh # <<>> /\ up = "up" /\ pc[p] = "install"
    BY <1>7 DEF PhaseInv, Install, At, Committing
  <2>p. tail \in 1..Len(lh) /\ lh[tail] \in Blocks /\ dlog[tail] \in Vals
    BY <2>1, SMT DEF TypeOK, LogTypes, DiskTypes
  <2>3. ~Installed(tail)
    BY <2>1, <2>p, SMT DEF Installed, PhaseInv, Committing
  <2>q. pin[lh[tail]] - 1 \in Nat
    BY <2>1, <2>p, <2>3, SMT DEF CacheInv, TypeOK, CacheTypes
  <2>10. DiskTypes'
    BY <1>7, <2>p, <2>q DEF Install, TypeOK, DiskTypes, install_trans, LogTypes, disk
  <2>11. CacheTypes'
    BY <1>7, <2>p, <2>q DEF Install, TypeOK, CacheTypes, install_trans, LogTypes, mem
  <2>12. LogTypes'
    BY <1>7, <2>p, <2>q, SMT DEF Install, TypeOK, LogTypes, install_trans, log
  <2>13. ThreadTypes'
    BY <1>7, <2>p, <2>q DEF Install, TypeOK, ThreadTypes, At, Goto, Labels, thread
  <2> QED
    BY <2>10, <2>11, <2>12, <2>13 DEF TypeOK
<1>8. ASSUME NEW p \in Threads, Clear(p) PROVE TypeOK'
  <2>10. CacheTypes'
    BY <1>8 DEF TypeOK, Clear, CacheTypes, mem
  <2>11. DiskTypes'
    BY <1>8, <1>e, SMT DEF Clear, TypeOK, DiskTypes, disk
  <2>12. LogTypes'
    BY <1>8, <1>e, SMT DEF Clear, TypeOK, LogTypes, log
  <2>13. ThreadTypes'
    BY <1>8, <1>e DEF Clear, TypeOK, ThreadTypes, At, Goto, Labels, thread
  <2> QED
    BY <2>10, <2>11, <2>12, <2>13 DEF TypeOK
<1>9. ASSUME NEW p \in Threads, Committed(p) PROVE TypeOK'
  <2>10. DiskTypes' /\ CacheTypes'
    BY <1>9 DEF TypeOK, Committed, DiskTypes, CacheTypes, disk, mem
  <2>11. LogTypes'
    BY <1>9 DEF Committed, TypeOK, LogTypes, log
  <2>12. ThreadTypes'
    BY <1>9 DEF Committed, TypeOK, ThreadTypes, At, Labels, WakeAnd, thread
  <2> QED
    BY <2>10, <2>11, <2>12 DEF TypeOK
<1>10. ASSUME NEW p \in Threads, NEW b \in Blocks, NEW v \in Vals, Modify(p, b, v)
      PROVE  TypeOK'
  <2>10. DiskTypes' /\ LogTypes'
    BY <1>10 DEF TypeOK, Modify, DiskTypes, LogTypes, disk, log
  <2>11. CacheTypes'
    BY <1>10 DEF Modify, TypeOK, CacheTypes, mem
  <2>12. ThreadTypes'
    BY <1>10 DEF Modify, TypeOK, ThreadTypes, At, Goto, Labels, thread
  <2> QED
    BY <2>10, <2>11, <2>12 DEF TypeOK
<1>11. ASSUME NEW b \in Blocks, Evict(b) PROVE TypeOK'
  <2>10. DiskTypes' /\ LogTypes' /\ ThreadTypes'
    BY <1>11 DEF TypeOK, Evict, DiskTypes, LogTypes, ThreadTypes, disk, log, thread
  <2>11. CacheTypes'
    BY <1>11 DEF Evict, TypeOK, CacheTypes, DiskTypes, mem
  <2> QED
    BY <2>10, <2>11 DEF TypeOK
<1>12. CASE read_head
  <2>p. tail = 1
    BY <1>12 DEF PhaseInv, read_head
  <2>10. DiskTypes' /\ CacheTypes' /\ ThreadTypes'
    BY <1>12 DEF TypeOK, read_head, DiskTypes, CacheTypes, ThreadTypes, disk, mem, thread
  <2>11. LogTypes'
    BY <1>12, <2>p, SMT DEF read_head, TypeOK, LogTypes, DiskTypes, log
  <2> QED
    BY <2>10, <2>11 DEF TypeOK
<1>13. CASE RecoverInstall
  <2>1. lh # <<>>
    BY <1>13 DEF HeadInv, RecoverInstall
  <2>p. tail \in 1..Len(lh) /\ lh[tail] \in Blocks /\ dlog[tail] \in Vals
    BY <2>1, SMT DEF TypeOK, LogTypes, DiskTypes
  <2>10. ThreadTypes'
    BY <1>13 DEF TypeOK, RecoverInstall, ThreadTypes, thread
  <2>11. DiskTypes'
    BY <1>13, <2>p DEF RecoverInstall, TypeOK, DiskTypes, install_trans, LogTypes, disk
  <2>12. CacheTypes'
    BY <1>13, <2>p DEF RecoverInstall, TypeOK, CacheTypes, install_trans, LogTypes, mem
  <2>13. LogTypes'
    BY <1>13, <2>p, SMT DEF RecoverInstall, TypeOK, LogTypes, install_trans, log
  <2> QED
    BY <2>10, <2>11, <2>12, <2>13 DEF TypeOK
<1>14. CASE RecoverClear
  <2>10. CacheTypes' /\ ThreadTypes'
    BY <1>14 DEF TypeOK, RecoverClear, CacheTypes, ThreadTypes, mem, thread
  <2>11. DiskTypes'
    BY <1>14, <1>e, SMT DEF RecoverClear, TypeOK, DiskTypes, disk
  <2>12. LogTypes'
    BY <1>14, <1>e, SMT DEF RecoverClear, TypeOK, LogTypes, log
  <2> QED
    BY <2>10, <2>11, <2>12 DEF TypeOK
<1>15. CASE Crash
  <2>10. DiskTypes'
    BY <1>15 DEF TypeOK, Crash, DiskTypes, disk
  <2>11. CacheTypes'
    BY <1>15, <1>e DEF Crash, TypeOK, CacheTypes, DiskTypes, mem
  <2>12. LogTypes'
    <3>1. /\ lh' = <<>> /\ outstanding' = 0 /\ committing' = FALSE /\ tail' = 1
          /\ up' = "read" /\ crashes' = crashes + 1
      BY <1>15 DEF Crash
    <3>2. lh' \in Seq(Blocks) /\ Len(lh') = 0 /\ lh' = <<>>
      BY <3>1, <1>e
    <3>3. committing' \in BOOLEAN
      BY <3>1
    <3> QED
      BY <3>1, <3>2, <3>3, SMT DEF TypeOK, LogTypes
  <2>13. ThreadTypes'
    BY <1>15, <1>e DEF Crash, TypeOK, ThreadTypes, Labels, thread
  <2> QED
    BY <2>10, <2>11, <2>12, <2>13 DEF TypeOK
<1>16. CASE UNCHANGED vars
  <2>10. DiskTypes' /\ CacheTypes' /\ LogTypes' /\ ThreadTypes'
    BY <1>16 DEF TypeOK, DiskTypes, CacheTypes, LogTypes, ThreadTypes, vars, disk, mem, log, thread
  <2> QED
    BY <2>10 DEF TypeOK
<1> QED
  BY Steps, <1>1, <1>2, <1>3, <1>4, <1>5, <1>6, <1>7, <1>8, <1>9, <1>10, <1>11,
     <1>12, <1>13, <1>14, <1>15, <1>16 DEF ThreadStep

\* CountInv is preserved.
LEMMA CountStep ==
  ASSUME TypeOK, CountInv, PhaseInv, [Next]_vars
  PROVE  CountInv'
<1>0. ASSUME Active' = Active, outstanding' = outstanding PROVE CountInv'
  BY <1>0 DEF CountInv
<1>1. ASSUME NEW p \in Threads, Start(p) \/ log_write(p) \/ CommitStep(p) PROVE CountInv'
  <2>1. pc[p] \in {"op", "logw"} <=> pc'[p] \in {"op", "logw"}
    BY <1>1 DEF TypeOK, ThreadTypes, Start, log_write, CommitStep, write_log, write_head, Install,
                Clear, Committed, At, Goto, WakeAnd
  <2>2. \A q \in Threads \ {p} : pc[q] \in {"op", "logw"} <=> pc'[q] \in {"op", "logw"}
    BY <1>1 DEF TypeOK, ThreadTypes, Start, log_write, CommitStep, write_log, write_head, Install,
                Clear, Committed, At, Goto, WakeAnd
  <2>3. Active' = Active
    BY <2>1, <2>2 DEF Active
  <2>4. outstanding' = outstanding
    BY <1>1 DEF Start, log_write, CommitStep, write_log, write_head, Install, Clear, Committed, log
  <2> QED
    BY <1>0, <2>3, <2>4
<1>2. ASSUME NEW p \in Threads, NEW b \in Blocks, NEW v \in Vals, Modify(p, b, v) PROVE CountInv'
  <2>1. Active' = Active
    BY <1>2 DEF TypeOK, ThreadTypes, Modify, At, Goto, Active
  <2> QED
    BY <1>0, <1>2, <2>1 DEF Modify, log
<1>3. ASSUME NEW p \in Threads, begin_op(p) PROVE CountInv'
  <2>1. pc[p] = "begin"
    BY <1>3 DEF begin_op, At
  <2>2. \/ pc' = [pc EXCEPT ![p] = "asleep"] /\ outstanding' = outstanding
        \/ pc' = [pc EXCEPT ![p] = "op"] /\ outstanding' = outstanding + 1
    BY <1>3 DEF begin_op, Goto
  <2>3. CASE pc' = [pc EXCEPT ![p] = "asleep"] /\ outstanding' = outstanding
    <3>1. Active' = Active
      BY <2>1, <2>3 DEF TypeOK, ThreadTypes, Active
    <3> QED
      BY <1>0, <2>3, <3>1
  <2>4. CASE pc' = [pc EXCEPT ![p] = "op"] /\ outstanding' = outstanding + 1
    <3>1. Active' = Active \cup {p} /\ p \notin Active
      BY <2>1, <2>4 DEF TypeOK, ThreadTypes, Active
    <3>2. IsFiniteSet(Active \cup {p}) /\ Cardinality(Active \cup {p}) = Cardinality(Active) + 1
      BY <3>1, FS_AddElement DEF CountInv
    <3> QED
      BY <2>4, <3>1, <3>2 DEF CountInv
  <2> QED
    BY <2>2, <2>3, <2>4
<1>4. ASSUME NEW p \in Threads, end_op(p) PROVE CountInv'
  <2>1. pc[p] = "op"
    BY <1>4 DEF end_op, At
  <2>2. pc'[p] \notin {"op", "logw"}
    BY <1>4 DEF end_op, Goto, WakeAnd, TypeOK, ThreadTypes
  <2>3. \A q \in Threads \ {p} : pc[q] \in {"op", "logw"} <=> pc'[q] \in {"op", "logw"}
    BY <1>4 DEF end_op, Goto, WakeAnd, TypeOK, ThreadTypes
  <2>4. Active' = Active \ {p} /\ p \in Active
    BY <2>1, <2>2, <2>3 DEF Active
  <2>5. IsFiniteSet(Active \ {p}) /\ Cardinality(Active \ {p}) = Cardinality(Active) - 1
    BY <2>4, FS_RemoveElement DEF CountInv
  <2> QED
    BY <1>4, <2>4, <2>5 DEF CountInv, end_op
<1>5. CASE Crash
  <2>1. Active' = {} /\ outstanding' = 0
    BY <1>5 DEF Active, Crash
  <2> QED
    BY <2>1, FS_EmptySet DEF CountInv
<1>6. CASE Recover \/ (\E b \in Blocks : Evict(b)) \/ UNCHANGED vars
  <2>1. pc' = pc /\ outstanding' = outstanding
    BY <1>6 DEF Recover, read_head, RecoverInstall, RecoverClear, Evict, vars, log, thread
  <2> QED
    BY <1>0, <2>1 DEF Active
<1> QED
  BY Steps, <1>1, <1>2, <1>3, <1>4, <1>5, <1>6 DEF ThreadStep, CommitStep, Recover

\* BufInv is preserved.
LEMMA BufStep ==
  ASSUME TypeOK, BufInv, PhaseInv, [Next]_vars
  PROVE  BufInv'
<1>1. ASSUME NEW p \in Threads, Start(p) \/ begin_op(p) \/ end_op(p) \/ CommitStep(p) PROVE BufInv'
  <2>1. buf' = buf
    BY <1>1 DEF Start, begin_op, end_op, CommitStep, write_log, write_head, Install, Clear, Committed
  <2>2. pc[p] # "logw" /\ pc'[p] # "logw"
    BY <1>1 DEF TypeOK, ThreadTypes, Start, begin_op, end_op, CommitStep, write_log, write_head,
                Install, Clear, Committed, At, Goto, WakeAnd
  <2>3. \A q \in Threads \ {p} : pc[q] = "logw" <=> pc'[q] = "logw"
    BY <1>1 DEF TypeOK, ThreadTypes, Start, begin_op, end_op, CommitStep, write_log, write_head,
                Install, Clear, Committed, At, Goto, WakeAnd
  <2> QED
    BY <2>1, <2>2, <2>3 DEF BufInv
<1>2. ASSUME NEW p \in Threads, NEW b \in Blocks, NEW v \in Vals, Modify(p, b, v) PROVE BufInv'
  BY <1>2, LogAssumption DEF TypeOK, ThreadTypes, BufInv, Modify, At, Goto
<1>3. ASSUME NEW p \in Threads, log_write(p) PROVE BufInv'
  BY <1>3 DEF TypeOK, ThreadTypes, BufInv, log_write, At, Goto
<1>4. CASE Crash
  BY <1>4 DEF BufInv, Crash
<1>5. CASE Recover \/ (\E b \in Blocks : Evict(b)) \/ UNCHANGED vars
  <2>1. pc' = pc /\ buf' = buf
    BY <1>5 DEF Recover, read_head, RecoverInstall, RecoverClear, Evict, vars, thread
  <2> QED
    BY <2>1 DEF BufInv
<1> QED
  BY Steps, <1>1, <1>2, <1>3, <1>4, <1>5 DEF ThreadStep, CommitStep, Recover

\* PhaseInv is preserved.
LEMMA PhaseStep ==
  ASSUME TypeOK, CountInv, PhaseInv, HeadInv, [Next]_vars
  PROVE  PhaseInv'
<1>1. ASSUME NEW p \in Threads, Start(p) PROVE PhaseInv'
  BY <1>1 DEF TypeOK, ThreadTypes, PhaseInv, Active, Committing, Start, At, Goto, log
<1>2. ASSUME NEW p \in Threads, begin_op(p) PROVE PhaseInv'
  <2>1. pc[p] = "begin" /\ up = "up" /\ UNCHANGED <<lh, committing, tail, up>>
    BY <1>2 DEF begin_op, At
  <2>2. pc' = [pc EXCEPT ![p] = "asleep"] \/ (pc' = [pc EXCEPT ![p] = "op"] /\ ~committing)
    BY <1>2 DEF begin_op, Goto
  <2> QED
    BY <2>1, <2>2, SMT DEF TypeOK, ThreadTypes, PhaseInv, Active, Committing
<1>3. ASSUME NEW p \in Threads, NEW b \in Blocks, NEW v \in Vals, Modify(p, b, v) PROVE PhaseInv'
  BY <1>3 DEF TypeOK, ThreadTypes, PhaseInv, Active, Committing, Modify, At, Goto, log
<1>4. ASSUME NEW p \in Threads, log_write(p) PROVE PhaseInv'
  <2>1. ~committing
    BY <1>4 DEF PhaseInv, Active, log_write, At
  <2> QED
    BY <1>4, <2>1 DEF TypeOK, ThreadTypes, PhaseInv, Active, Committing, log_write, At, Goto
<1>5. ASSUME NEW p \in Threads, end_op(p) PROVE PhaseInv'
  <2>1. /\ pc[p] = "op" /\ up = "up" /\ ~committing /\ tail = 1 /\ UNCHANGED <<lh, tail, up>>
        /\ \A q \in Threads : pc[q] \notin Committing
    BY <1>5 DEF end_op, At, PhaseInv
  <2>2. CASE outstanding = 1
    <3>1. Active = {p}
      <4>1. \E x : Active = {x}
        BY <2>2, FS_Singleton DEF CountInv
      <4>2. p \in Active
        BY <2>1 DEF Active
      <4> QED
        BY <4>1, <4>2
    <3>2. committing' = TRUE /\ pc' = [pc EXCEPT ![p] = IF lh = <<>> THEN "done" ELSE "wlog"]
      BY <1>5, <2>2 DEF end_op, Goto
    <3>3. Active' = {}
      BY <3>1, <3>2 DEF TypeOK, ThreadTypes, Active
    <3> QED
      BY <2>1, <3>2, <3>3 DEF TypeOK, ThreadTypes, PhaseInv, Committing
  <2>3. CASE outstanding # 1
    <3>1. committing' = committing
      BY <1>5, <2>3 DEF end_op
    <3>2. \A q \in Threads : pc'[q] \notin Committing
      BY <1>5, <2>1, <2>3 DEF end_op, WakeAnd, Committing
    <3> QED
      BY <2>1, <3>1, <3>2 DEF PhaseInv
  <2> QED
    BY <2>2, <2>3
<1>6. ASSUME NEW p \in Threads, write_log(p) \/ write_head(p) \/ Install(p) \/ Clear(p) PROVE PhaseInv'
  <2>1. /\ up = "up" /\ committing /\ UNCHANGED <<up, committing>>
        /\ pc[p] \in Committing /\ pc[p] # "done"
    BY <1>6 DEF PhaseInv, Committing, write_log, write_head, Install, Clear, At, log
  <2>2. pc' = [pc EXCEPT ![p] = pc'[p]] /\ pc'[p] \in Committing
    BY <1>6 DEF TypeOK, ThreadTypes, Committing, write_log, write_head, Install, Clear, Goto
  <2>3. Active' = {}
    BY <2>1, <2>2 DEF TypeOK, ThreadTypes, PhaseInv, Active, Committing
  <2>4. \A q \in Threads \ {p} : pc'[q] \notin Committing
    BY <2>1, <2>2 DEF TypeOK, ThreadTypes, PhaseInv
  <2>5. lh' = <<>> <=> pc'[p] = "done"
    BY <1>6, <2>1 DEF TypeOK, ThreadTypes, PhaseInv, Committing, write_log, write_head, Install,
                      Clear, Goto, log
  <2>6. pc'[p] \notin {"wlog", "install"} => tail' = 1
    BY <1>6, <2>1 DEF TypeOK, ThreadTypes, PhaseInv, write_log, write_head, Install,
                      install_trans, Clear, At, Goto
  <2>7. \A q \in Threads : pc'[q] \in Committing => q = p
    BY <2>4
  <2> QED
    BY <2>1, <2>2, <2>3, <2>4, <2>5, <2>6, <2>7 DEF PhaseInv
<1>7. ASSUME NEW p \in Threads, Committed(p) PROVE PhaseInv'
  <2>1. /\ up = "up" /\ tail = 1 /\ UNCHANGED <<up, tail>> /\ committing' = FALSE
        /\ \A q \in Threads \ {p} : pc[q] \notin Committing
    BY <1>7 DEF PhaseInv, Committing, Committed, At
  <2>2. \A q \in Threads : pc'[q] \notin Committing
    BY <1>7, <2>1 DEF Committed, WakeAnd, Committing
  <2> QED
    BY <2>1, <2>2 DEF PhaseInv
<1>8. CASE Recover
  <2>1. /\ \A q \in Threads : pc'[q] = "idle"
        /\ ~committing /\ committing' = committing
    BY <1>8 DEF Recover, read_head, RecoverInstall, RecoverClear, PhaseInv, thread, log
  <2>2. up' # "install" => tail' = 1
    BY <1>8, <2>1 DEF Recover, read_head, RecoverInstall, RecoverClear, PhaseInv, install_trans
  <2> QED
    BY <2>1, <2>2 DEF PhaseInv, Committing
<1>9. CASE Crash
  BY <1>9 DEF PhaseInv, Crash, Active, Committing
<1>10. CASE (\E b \in Blocks : Evict(b)) \/ UNCHANGED vars
  <2>1. UNCHANGED <<pc, lh, committing, tail, up>>
    BY <1>10 DEF Evict, vars, log, thread
  <2> QED
    BY <2>1 DEF PhaseInv, Active
<1> QED
  BY Steps, <1>1, <1>2, <1>3, <1>4, <1>5, <1>6, <1>7, <1>8, <1>9, <1>10 DEF ThreadStep, Recover

\* HeadInv is preserved.
LEMMA HeadStep ==
  ASSUME TypeOK, PhaseInv, HeadInv, BufInv, [Next]_vars
  PROVE  HeadInv'
<1>e. NoDup(<<>>)
  BY SMT DEF NoDup
<1>1. ASSUME NEW p \in Threads, Start(p) \/ begin_op(p) \/ end_op(p) \/ write_log(p) \/ Committed(p)
      PROVE  HeadInv'
  <2>1. UNCHANGED <<lh, dhead, up>> /\ up = "up"
    BY <1>1 DEF Start, begin_op, end_op, write_log, Committed, At, log, disk
  <2>2. \A q \in Threads : pc'[q] \in {"install", "clear"} <=> pc[q] \in {"install", "clear"}
    BY <1>1 DEF TypeOK, ThreadTypes, Start, begin_op, end_op, write_log, Committed, At, Goto, WakeAnd
  <2> QED
    BY <2>1, <2>2 DEF HeadInv
<1>2. ASSUME NEW p \in Threads, NEW b \in Blocks, NEW v \in Vals, Modify(p, b, v) PROVE HeadInv'
  <2>1. UNCHANGED <<lh, dhead, up>> /\ up = "up"
    BY <1>2 DEF Modify, At, log, disk
  <2>2. \A q \in Threads : pc'[q] \in {"install", "clear"} <=> pc[q] \in {"install", "clear"}
    BY <1>2 DEF TypeOK, ThreadTypes, Modify, At, Goto
  <2> QED
    BY <2>1, <2>2 DEF HeadInv
<1>3. ASSUME NEW p \in Threads, log_write(p) PROVE HeadInv'
  <2>1. /\ up = "up" /\ UNCHANGED <<dhead, up>> /\ ~committing
        /\ lh' = lh \/ (buf[p] \notin BlocksOf(lh) /\ lh' = Append(lh, buf[p]))
    BY <1>3 DEF PhaseInv, Active, log_write, At, disk
  <2>2. \A q \in Threads : pc[q] \notin Committing /\ pc'[q] \notin Committing
    BY <1>3, <2>1 DEF PhaseInv, TypeOK, ThreadTypes, log_write, Goto, Committing
  <2>3. dhead = <<>>
    BY <2>1, <2>2 DEF HeadInv, Committing
  <2>4. NoDup(lh')
    <3>1. lh \in Seq(Blocks) /\ NoDup(lh)
      BY DEF TypeOK, LogTypes, HeadInv
    <3>2. CASE buf[p] \notin BlocksOf(lh) /\ lh' = Append(lh, buf[p])
      <4>1. /\ Len(lh') = Len(lh) + 1 /\ lh'[Len(lh) + 1] = buf[p]
            /\ \A k \in 1..Len(lh) : lh'[k] = lh[k]
        BY <3>1, <3>2, SMT
      <4>2. \A k \in 1..Len(lh) : lh[k] # buf[p]
        BY <3>2 DEF BlocksOf
      <4>3. Len(lh) \in Nat /\ 1..Len(lh') = 1..Len(lh) \cup {Len(lh) + 1}
        BY <3>1, <4>1, SMT
      <4> QED
        BY <3>1, <4>1, <4>2, <4>3 DEF NoDup
    <3> QED
      BY <2>1, <3>1, <3>2
  <2> QED
    BY <1>e, <2>1, <2>2, <2>3, <2>4 DEF HeadInv, Committing
<1>4. ASSUME NEW p \in Threads, write_head(p) \/ Install(p) PROVE HeadInv'
  <2>1. /\ up = "up" /\ UNCHANGED <<up, lh>> /\ pc[p] \in {"whead", "install"}
        /\ pc'[p] \in {"install", "clear"} /\ dhead' = lh
    BY <1>4 DEF TypeOK, ThreadTypes, HeadInv, write_head, Install, At, Goto, log
  <2> QED
    BY <2>1 DEF HeadInv
<1>5. ASSUME NEW p \in Threads, Clear(p) PROVE HeadInv'
  <2>1. /\ up = "up" /\ up' = up /\ lh' = <<>> /\ dhead' = <<>> /\ pc'[p] = "done"
        /\ pc' = [pc EXCEPT ![p] = "done"] /\ pc[p] = "clear"
    BY <1>5 DEF TypeOK, ThreadTypes, Clear, At, Goto
  <2>2. \A q \in Threads : pc'[q] \notin {"install", "clear"}
    BY <2>1 DEF TypeOK, ThreadTypes, PhaseInv, Committing
  <2> QED
    BY <1>e, <2>1, <2>2 DEF HeadInv
<1>6. CASE read_head
  BY <1>6 DEF HeadInv, read_head, disk
<1>7. CASE RecoverInstall
  BY <1>7 DEF HeadInv, RecoverInstall, log
<1>8. CASE RecoverClear
  BY <1>8, <1>e DEF HeadInv, RecoverClear, PhaseInv, thread
<1>9. CASE Crash
  BY <1>9, <1>e DEF HeadInv, Crash, disk
<1>10. CASE (\E b \in Blocks : Evict(b)) \/ UNCHANGED vars
  <2>1. UNCHANGED <<pc, lh, dhead, up>>
    BY <1>10 DEF Evict, vars, log, thread, disk
  <2> QED
    BY <2>1 DEF HeadInv
<1> QED
  BY Steps, <1>1, <1>2, <1>3, <1>4, <1>5, <1>6, <1>7, <1>8, <1>9, <1>10 DEF ThreadStep

-----------------------------------------------------------------------------
(* The contents of buffers and disk.                                       *)

\* Recycling a buffer loses nothing: its contents are on disk.
LEMMA EvictKeeps ==
  ASSUME TypeOK, CacheInv, LogInv, NEW b \in Blocks, Evict(b)
  PROVE  cache' = cache
<1>1. up = "up" /\ pin[b] = 0 /\ (\A p \in Threads : buf[p] # b)
  BY DEF Evict
<1>2. cache' = [cache EXCEPT ![b] = home[b]]
  BY DEF Evict
<1>3. cache[b] = home[b]
  <2>1. SUFFICES ASSUME cache[b] # home[b] PROVE FALSE
    OBVIOUS
  <2>2. PICK k \in 1..Len(lh) : lh[k] = b
    BY <1>1, <2>1 DEF CacheInv, BlocksOf
  <2>3. Installed(k)
    BY <1>1, <2>2, SMT DEF CacheInv
  <2>4. \E p \in Threads : pc[p] \in {"install", "clear"}
    BY <1>1, <2>3 DEF Installed
  <2> QED
    BY <2>1, <2>2, <2>3, <2>4 DEF LogInv
<1> QED
  BY <1>2, <1>3 DEF TypeOK, CacheTypes

\* Installing a block of a commit does not change the buffer it is copied to.
LEMMA InstallKeeps ==
  ASSUME TypeOK, PhaseInv, LogInv, NEW p \in Threads, Install(p)
  PROVE  /\ tail \in 1..Len(lh) /\ lh[tail] \in Blocks
         /\ cache' = cache /\ cache[lh[tail]] = dlog[tail]
<1>1. pc[p] = "install" /\ lh # <<>>
  BY DEF Install, At, PhaseInv, Committing
<1>2. tail \in 1..Len(lh) /\ lh[tail] \in Blocks
  BY <1>1, SMT DEF TypeOK, LogTypes
<1>3. cache[lh[tail]] = dlog[tail]
  BY <1>1, <1>2 DEF LogInv
<1>4. cache' = [cache EXCEPT ![lh[tail]] = dlog[tail]]
  BY DEF Install, install_trans
<1> QED
  BY <1>2, <1>3, <1>4 DEF TypeOK, CacheTypes

\* In the installation of a commit.
LEMMA InstalledUp ==
  ASSUME PhaseInv, up = "up", NEW k
  PROVE  /\ (\A p \in Threads : pc[p] \notin {"install", "clear"}) => ~Installed(k)
         /\ \A p \in Threads : pc[p] = "install" => (Installed(k) <=> k < tail)
         /\ \A p \in Threads : pc[p] = "clear" => Installed(k)
BY DEF Installed, PhaseInv, Committing

\* CacheInv is preserved.
LEMMA CacheStep ==
  ASSUME TypeOK, PhaseInv, PhaseInv', HeadInv, BufInv, CacheInv, LogInv, [Next]_vars
  PROVE  CacheInv'
<1>0. ASSUME UNCHANGED <<cache, home, pin, lh, buf, up>>, up = "up",
             \A k \in 1..Len(lh) : Installed(k) => Installed(k)'
      PROVE  CacheInv'
  BY <1>0 DEF CacheInv, BlocksOf
<1>1. ASSUME NEW p \in Threads,
             Start(p) \/ begin_op(p) \/ end_op(p) \/ write_log(p) \/ write_head(p) \/ Committed(p)
      PROVE  CacheInv'
  <2>1. up = "up" /\ UNCHANGED <<cache, home, pin, lh, buf, up>>
    BY <1>1 DEF Start, begin_op, end_op, write_log, write_head, Committed, At, disk, mem, log
  <2>2. pc[p] \notin {"install", "clear"}
    BY <1>1 DEF Start, begin_op, end_op, write_log, write_head, Committed, At
  <2>3. \A q \in Threads \ {p} : pc[q] \in {"install", "clear"} => pc'[q] = pc[q]
    BY <1>1 DEF TypeOK, ThreadTypes, Start, begin_op, end_op, write_log, write_head, Committed, Goto, WakeAnd
  <2>4. (\E q \in Threads : pc[q] \in {"install", "clear"}) => tail' = tail
    BY <1>1, <2>2 DEF Start, begin_op, end_op, write_log, write_head, Committed, At, PhaseInv, Committing
  <2>5. \A k \in 1..Len(lh) : Installed(k) => Installed(k)'
    BY <2>1, <2>2, <2>3, <2>4 DEF Installed
  <2> QED
    BY <1>0, <2>1, <2>5
<1>2. ASSUME NEW p \in Threads, NEW b \in Blocks, NEW v \in Vals, Modify(p, b, v) PROVE CacheInv'
  <2>1. /\ up = "up" /\ UNCHANGED <<home, pin, lh, up, tail>> /\ buf[p] = None
        /\ cache' = [cache EXCEPT ![b] = v] /\ buf' = [buf EXCEPT ![p] = b]
    BY <1>2 DEF Modify, At, disk, log, BufInv
  <2>2. \A k \in 1..Len(lh) : Installed(k) => Installed(k)'
    BY <1>2 DEF Modify, At, Goto, Installed, TypeOK, ThreadTypes
  <2>3. \A q \in Threads, x \in Blocks : buf[q] = x => buf'[q] = x
    BY <2>1, LogAssumption DEF TypeOK, ThreadTypes
  <2>4. buf'[p] = b
    BY <2>1 DEF TypeOK, ThreadTypes
  <2>5. \A x \in Blocks \ {b} : cache'[x] = cache[x]
    BY <2>1 DEF TypeOK, CacheTypes
  <2> QED
    BY <2>1, <2>2, <2>3, <2>4, <2>5, SMT DEF CacheInv, BlocksOf
<1>3. ASSUME NEW p \in Threads, log_write(p) PROVE CacheInv'
  <2> DEFINE b == buf[p]
  <2>1. /\ up = "up" /\ UNCHANGED <<home, cache, up, tail>> /\ b \in Blocks /\ ~committing
        /\ buf' = [buf EXCEPT ![p] = None]
    BY <1>3 DEF log_write, At, disk, BufInv, TypeOK, ThreadTypes, PhaseInv, Active
  <2>2. \/ b \in BlocksOf(lh) /\ lh' = lh /\ pin' = pin
        \/ b \notin BlocksOf(lh) /\ lh' = Append(lh, b) /\ pin' = [pin EXCEPT ![b] = @ + 1]
    BY <1>3 DEF log_write
  <2>3. \A k \in 1..Len(lh) : pin[lh[k]] > 0
    BY <2>1, InstalledUp DEF CacheInv, PhaseInv, Committing
  <2>4. lh \in Seq(Blocks) /\ lh' \in Seq(Blocks) /\ pin \in [Blocks -> Nat]
    <3>1. lh \in Seq(Blocks) /\ pin \in [Blocks -> Nat]
      BY DEF TypeOK, LogTypes, CacheTypes
    <3>2. Append(lh, b) \in Seq(Blocks)
      BY <2>1, <3>1, SMT
    <3> QED
      BY <2>2, <3>1, <3>2
  <2>5. BlocksOf(lh') = BlocksOf(lh) \cup {b} /\ \A k \in 1..Len(lh') : pin'[lh'[k]] > 0
    <3>1. CASE b \in BlocksOf(lh) /\ lh' = lh /\ pin' = pin
      BY <2>3, <3>1
    <3>2. CASE b \notin BlocksOf(lh) /\ lh' = Append(lh, b) /\ pin' = [pin EXCEPT ![b] = @ + 1]
      <4>1. /\ Len(lh) \in Nat /\ 1..Len(lh') = 1..Len(lh) \cup {Len(lh) + 1} /\ lh'[Len(lh) + 1] = b
            /\ \A k \in 1..Len(lh) : lh'[k] = lh[k] /\ lh[k] \in Blocks
        BY <2>1, <2>4, <3>2, SMT
      <4>2. BlocksOf(lh') = BlocksOf(lh) \cup {b}
        BY <4>1 DEF BlocksOf
      <4>3. pin'[b] > 0 /\ \A k \in 1..Len(lh) : pin'[lh[k]] > 0
        BY <2>1, <2>3, <2>4, <3>2, <4>1, SMT
      <4> QED
        BY <4>1, <4>2, <4>3
    <3> QED
      BY <2>2, <3>1, <3>2
  <2>6. \A q \in Threads, x \in Blocks : buf[q] = x => buf'[q] = x \/ x = b
    BY <2>1 DEF TypeOK, ThreadTypes
  <2> QED
    BY <2>1, <2>5, <2>6 DEF CacheInv
<1>4. ASSUME NEW p \in Threads, Install(p) PROVE CacheInv'
  <2>1. up = "up" /\ pc[p] = "install" /\ UNCHANGED <<lh, buf, up>> /\ cache' = cache
    BY <1>4, InstallKeeps DEF Install, At, log
  <2>2. tail \in 1..Len(lh) /\ lh[tail] \in Blocks /\ cache[lh[tail]] = dlog[tail]
    BY <1>4, InstallKeeps
  <2>3. home' = [home EXCEPT ![lh[tail]] = dlog[tail]] /\ pin' = [pin EXCEPT ![lh[tail]] = @ - 1]
    BY <1>4 DEF Install, install_trans
  <2>4. \A x \in Blocks : cache'[x] # home'[x] => cache[x] # home[x]
    BY <2>1, <2>2, <2>3 DEF TypeOK, DiskTypes
  <2>5. ASSUME NEW k \in 1..Len(lh) PROVE Installed(k)' \/ pin'[lh[k]] > 0
    <3>1. CASE tail = Len(lh)
      <4>1. pc'[p] = "clear"
        BY <1>4, <3>1 DEF Install, Goto, TypeOK, ThreadTypes
      <4> QED
        BY <4>1 DEF Installed
    <3>2. CASE tail # Len(lh) /\ k <= tail
      <4>1. pc'[p] = "install" /\ tail' = tail + 1
        BY <1>4, <3>2 DEF Install, install_trans, Goto, TypeOK, ThreadTypes
      <4>2. k < tail'
        BY <2>2, <3>2, <4>1, SMT
      <4> QED
        BY <4>1, <4>2 DEF Installed
    <3>3. CASE k > tail
      <4>1. ~Installed(k)
        BY <2>1, <2>2, <3>3, InstalledUp, SMT
      <4>2. pin[lh[k]] > 0 /\ lh[k] # lh[tail]
        BY <2>1, <2>2, <3>3, <4>1, SMT DEF CacheInv, HeadInv, NoDup
      <4>3. lh[k] \in Blocks
        BY SMT DEF TypeOK, LogTypes
      <4> QED
        BY <2>2, <2>3, <4>2, <4>3 DEF TypeOK, CacheTypes
    <3> QED
      BY <2>2, <3>1, <3>2, <3>3, SMT
  <2> QED
    BY <2>1, <2>4, <2>5 DEF CacheInv
<1>5. ASSUME NEW p \in Threads, Clear(p) PROVE CacheInv'
  <2>1. /\ up = "up" /\ pc[p] = "clear" /\ UNCHANGED <<cache, home, buf, up>>
        /\ lh' = <<>> /\ Len(lh') = 0
    BY <1>5 DEF Clear, At, mem
  <2>2. \A k \in 1..Len(lh) : home[lh[k]] = cache[lh[k]]
    BY <2>1, InstalledUp DEF LogInv
  <2>3. \A x \in Blocks : cache[x] # home[x] => \E q \in Threads : buf[q] = x
    BY <2>1, <2>2, SMT DEF CacheInv, BlocksOf
  <2> QED
    BY <2>1, <2>3, SMT DEF CacheInv
<1>6. ASSUME NEW b \in Blocks, Evict(b) PROVE CacheInv'
  <2>1. cache' = cache
    BY <1>6, EvictKeeps
  <2>2. up = "up" /\ UNCHANGED <<home, pin, lh, buf, up, tail, pc>>
    BY <1>6 DEF Evict, disk, log, thread
  <2> QED
    BY <1>0, <2>1, <2>2 DEF Installed
<1>7. CASE read_head
  BY <1>7 DEF CacheInv, read_head, disk, mem
<1>8. CASE RecoverInstall
  <2>1. cache = home /\ up = "install"
    BY <1>8 DEF CacheInv, RecoverInstall
  <2>2. cache' = home' /\ up' # "up"
    BY <1>8, <2>1 DEF RecoverInstall, install_trans
  <2> QED
    BY <2>2 DEF CacheInv
<1>9. CASE RecoverClear
  <2>1. cache' = home' /\ lh' = <<>> /\ Len(lh') = 0
    BY <1>9 DEF CacheInv, RecoverClear, mem
  <2> QED
    BY <2>1, SMT DEF CacheInv
<1>10. CASE Crash
  BY <1>10 DEF CacheInv, Crash, disk
<1>11. CASE UNCHANGED vars
  BY <1>11 DEF CacheInv, Installed, vars, disk, mem, log, thread
<1> QED
  BY Steps, <1>1, <1>2, <1>3, <1>4, <1>5, <1>6, <1>7, <1>8, <1>9, <1>10, <1>11 DEF ThreadStep

\* LogInv is preserved.
LEMMA LogStep ==
  ASSUME TypeOK, PhaseInv, PhaseInv', HeadInv, CacheInv, LogInv, [Next]_vars
  PROVE  LogInv'
<1>0. ASSUME UNCHANGED <<cache, home, dlog, lh, up, tail>>,
             \A q \in Threads : pc'[q] \in Committing => pc'[q] = pc[q]
      PROVE  LogInv'
  BY <1>0, SMT DEF LogInv, Installed, Committing
<1>n. ASSUME up' = "up", \A q \in Threads : pc'[q] \notin Committing PROVE LogInv'
  BY <1>n DEF LogInv, Installed, Committing
<1>1. ASSUME NEW p \in Threads, Start(p) \/ begin_op(p) \/ Committed(p) PROVE LogInv'
  <2>1. UNCHANGED <<cache, home, dlog, lh, up, tail>>
    BY <1>1 DEF Start, begin_op, Committed, disk, mem, log
  <2>2. \A q \in Threads : pc'[q] \in Committing => pc'[q] = pc[q]
    BY <1>1 DEF TypeOK, ThreadTypes, Committing, Start, begin_op, Committed, Goto, WakeAnd
  <2> QED
    BY <1>0, <2>1, <2>2
<1>2. ASSUME NEW p \in Threads, log_write(p) \/ \E b \in Blocks, v \in Vals : Modify(p, b, v)
      PROVE  LogInv'
  <2>1. up' = "up" /\ ~committing
    BY <1>2 DEF log_write, Modify, At, PhaseInv, Active
  <2>2. pc'[p] \notin Committing /\ \A q \in Threads \ {p} : pc'[q] = pc[q]
    BY <1>2 DEF TypeOK, ThreadTypes, log_write, Modify, Goto, Committing
  <2> QED
    BY <1>n, <2>1, <2>2 DEF PhaseInv
<1>3. ASSUME NEW p \in Threads, end_op(p) PROVE LogInv'
  <2>1. up' = "up" /\ tail' = 1 /\ ~committing
    BY <1>3 DEF end_op, At, PhaseInv
  <2>2. \A q \in Threads : pc'[q] \notin {"whead", "install", "clear"}
    BY <1>3, <2>1 DEF TypeOK, ThreadTypes, end_op, Goto, WakeAnd, PhaseInv, Committing
  <2>3. \A k \in 1..Len(lh)' : ~(k < tail') /\ ~Installed(k)'
    BY <2>1, <2>2, SMT DEF Installed
  <2> QED
    BY <2>2, <2>3 DEF LogInv
<1>4. ASSUME NEW p \in Threads, write_log(p) PROVE LogInv'
  <2>1. /\ up = "up" /\ pc[p] = "wlog" /\ lh # <<>> /\ UNCHANGED <<home, cache, lh, up>>
        /\ dlog' = [dlog EXCEPT ![tail] = cache[lh[tail]]]
    BY <1>4 DEF write_log, At, mem, log, PhaseInv, Committing
  <2>2. tail \in 1..Len(lh) /\ tail \in 1..LOGSIZE /\ Len(lh) \in Nat
    BY <2>1, LogAssumption, SMT DEF TypeOK, LogTypes
  <2>3. \A q \in Threads : pc'[q] \notin {"install", "clear"}
    BY <1>4, <2>1 DEF write_log, Goto, PhaseInv, Committing, TypeOK, ThreadTypes
  <2>4. \A k \in 1..Len(lh) : k <= tail => dlog'[k] = cache[lh[k]]
    BY <2>1, <2>2, SMT DEF LogInv, TypeOK, DiskTypes
  <2>5. \A q \in Threads, k \in 1..Len(lh) :
          (pc'[q] = "wlog" /\ k < tail') \/ pc'[q] = "whead" => k <= tail
    <3>1. \A q \in Threads \ {p} : pc'[q] \notin Committing
      BY <1>4, <2>1 DEF write_log, Goto, PhaseInv, Committing, TypeOK, ThreadTypes
    <3>2. \/ tail = Len(lh)
          \/ pc'[p] = "wlog" /\ tail' = tail + 1
      BY <1>4 DEF write_log, Goto, TypeOK, ThreadTypes
    <3> QED
      BY <2>2, <3>1, <3>2, SMT DEF Committing
  <2>6. \A k \in 1..Len(lh) : ~Installed(k)'
    BY <2>1, <2>3 DEF Installed
  <2> QED
    BY <2>1, <2>3, <2>4, <2>5, <2>6 DEF LogInv
<1>5. ASSUME NEW p \in Threads, write_head(p) PROVE LogInv'
  <2>1. /\ up = "up" /\ pc[p] = "whead" /\ UNCHANGED <<home, cache, dlog, lh, up, tail>>
        /\ tail = 1
    BY <1>5 DEF write_head, At, mem, log, PhaseInv, Committing
  <2>2. pc'[p] = "install" /\ \A q \in Threads \ {p} : pc'[q] \notin Committing
    BY <1>5, <2>1 DEF write_head, Goto, PhaseInv, Committing, TypeOK, ThreadTypes
  <2>3. \A k \in 1..Len(lh) : dlog[k] = cache[lh[k]]
    BY <2>1 DEF LogInv
  <2>4. ASSUME NEW k \in 1..Len(lh) PROVE ~Installed(k)'
    <3>1. up' = "up" /\ tail' = 1 /\ k >= 1
      BY <2>1, SMT
    <3>2. \A q \in Threads : pc'[q] # "clear" /\ ~(pc'[q] = "install" /\ k < tail')
      BY <2>2, <3>1, SMT DEF Committing
    <3> QED
      BY <3>1, <3>2 DEF Installed
  <2> QED
    BY <2>1, <2>2, <2>3, <2>4 DEF LogInv
<1>6. ASSUME NEW p \in Threads, Install(p) PROVE LogInv'
  <2>1. /\ up = "up" /\ pc[p] = "install" /\ cache' = cache /\ UNCHANGED <<dlog, lh, up>>
    BY <1>6, InstallKeeps DEF Install, At, log
  <2>2. tail \in 1..Len(lh) /\ lh[tail] \in Blocks /\ Len(lh) \in Nat
    BY <1>6, InstallKeeps, SMT DEF TypeOK, LogTypes
  <2>3. home' = [home EXCEPT ![lh[tail]] = dlog[tail]]
    BY <1>6 DEF Install, install_trans
  <2>4. \A q \in Threads \ {p} : pc'[q] \notin Committing
    BY <1>6, <2>1 DEF Install, Goto, PhaseInv, Committing, TypeOK, ThreadTypes
  <2>5. \A k \in 1..Len(lh) : dlog[k] = cache[lh[k]] /\ lh[k] \in Blocks
    BY <2>1, SMT DEF LogInv, TypeOK, LogTypes
  <2>6. \A k \in 1..Len(lh) : k < tail => home[lh[k]] = dlog[k]
    BY <2>1, InstalledUp DEF LogInv
  <2>7. \A k \in 1..Len(lh) : k <= tail => home'[lh[k]] = dlog[k]
    BY <2>2, <2>3, <2>5, <2>6, SMT DEF TypeOK, DiskTypes, HeadInv, NoDup
  <2>8. \A k \in 1..Len(lh) : Installed(k)' => k <= tail
    <3>1. tail = Len(lh) \/ (pc'[p] = "install" /\ tail' = tail + 1)
      BY <1>6 DEF Install, install_trans, Goto, TypeOK, ThreadTypes
    <3> QED
      BY <2>1, <2>2, <2>4, <3>1, SMT DEF Installed, Committing
  <2> QED
    BY <2>1, <2>5, <2>7, <2>8 DEF LogInv
<1>7. ASSUME NEW p \in Threads, Clear(p) PROVE LogInv'
  BY <1>7, SMT DEF Clear, LogInv
<1>8. ASSUME NEW b \in Blocks, Evict(b) PROVE LogInv'
  BY <1>0, <1>8, EvictKeeps DEF Evict, disk, log, thread
<1>9. CASE read_head
  <2>1. tail' = 1 /\ (\A q \in Threads : pc'[q] = "idle") /\ up' # "up"
    BY <1>9 DEF read_head, PhaseInv, thread
  <2>2. up' = "clear" => lh' = <<>>
    BY <1>9 DEF read_head
  <2>3. \A k \in 1..Len(lh)' : ~Installed(k)'
    BY <1>9, <2>1, <2>2, SMT DEF Installed, read_head
  <2> QED
    BY <2>1, <2>3 DEF LogInv
<1>10. CASE RecoverInstall
  <2>1. /\ up = "install" /\ lh # <<>> /\ UNCHANGED <<dlog, lh, pc>>
        /\ \A q \in Threads : pc[q] = "idle"
    BY <1>10 DEF RecoverInstall, HeadInv, PhaseInv, log, thread
  <2>2. tail \in 1..Len(lh) /\ lh[tail] \in Blocks /\ Len(lh) \in Nat
    BY <2>1, SMT DEF TypeOK, LogTypes
  <2>3. home' = [home EXCEPT ![lh[tail]] = dlog[tail]]
    BY <1>10 DEF RecoverInstall, install_trans
  <2>4. \A k \in 1..Len(lh) : lh[k] \in Blocks /\ (k < tail => home[lh[k]] = dlog[k])
    BY <2>1, SMT DEF LogInv, Installed, TypeOK, LogTypes
  <2>5. \A k \in 1..Len(lh) : k <= tail => home'[lh[k]] = dlog[k]
    BY <2>2, <2>3, <2>4, SMT DEF TypeOK, DiskTypes, HeadInv, NoDup
  <2>6. \A k \in 1..Len(lh) : Installed(k)' => k <= tail
    <3>1. tail = Len(lh) \/ (up' = "install" /\ tail' = tail + 1)
      BY <1>10 DEF RecoverInstall, install_trans
    <3> QED
      BY <2>1, <2>2, <3>1, SMT DEF Installed
  <2> QED
    BY <2>1, <2>5, <2>6 DEF LogInv
<1>11. CASE RecoverClear \/ Crash
  BY <1>11, SMT DEF RecoverClear, Crash, LogInv
<1>12. CASE UNCHANGED vars
  BY <1>0, <1>12 DEF vars, disk, mem, log, thread
<1> QED
  BY Steps, <1>1, <1>2, <1>3, <1>4, <1>5, <1>6, <1>7, <1>8, <1>9, <1>10, <1>11, <1>12 DEF ThreadStep

\* PendInv is preserved.
LEMMA PendStep ==
  ASSUME TypeOK, CountInv, CountInv', PhaseInv, PendInv, [Next]_vars
  PROVE  PendInv'
<1>0. ASSUME Active \subseteq Active', UNCHANGED <<up, lh, committing>> PROVE PendInv'
  BY <1>0 DEF PendInv
<1>1. ASSUME NEW p \in Threads, Start(p) \/ begin_op(p) \/ \E b \in Blocks, v \in Vals : Modify(p, b, v)
      PROVE  PendInv'
  <2>1. UNCHANGED <<up, lh, committing>>
    BY <1>1 DEF Start, begin_op, Modify, log
  <2>2. Active \subseteq Active'
    BY <1>1 DEF Start, begin_op, Modify, At, Goto, Active, TypeOK, ThreadTypes
  <2> QED
    BY <1>0, <2>1, <2>2
<1>2. ASSUME NEW p \in Threads, log_write(p) PROVE PendInv'
  <2>1. p \in Active'
    BY <1>2 DEF log_write, Goto, Active, TypeOK, ThreadTypes
  <2> QED
    BY <2>1 DEF PendInv
<1>3. ASSUME NEW p \in Threads, end_op(p) PROVE PendInv'
  <2>1. CASE outstanding = 1
    BY <1>3, <2>1 DEF end_op, PendInv
  <2>2. CASE outstanding # 1
    <3>1. outstanding' # 0
      BY <1>3, <2>2, SMT DEF end_op, TypeOK, LogTypes
    <3>2. Active' # {}
      BY <3>1, FS_EmptySet DEF CountInv
    <3> QED
      BY <3>2 DEF PendInv
  <2> QED
    BY <2>1, <2>2
<1>4. ASSUME NEW p \in Threads, write_log(p) \/ write_head(p) \/ Install(p) \/ Clear(p) PROVE PendInv'
  BY <1>4 DEF write_log, write_head, Install, Clear, At, log, PhaseInv, Committing, PendInv
<1>5. ASSUME NEW p \in Threads, Committed(p) PROVE PendInv'
  BY <1>5 DEF Committed, At, PhaseInv, Committing, PendInv
<1>6. CASE Recover \/ Crash
  BY <1>6 DEF Recover, read_head, RecoverInstall, RecoverClear, Crash, PendInv
<1>7. CASE (\E b \in Blocks : Evict(b)) \/ UNCHANGED vars
  BY <1>0, <1>7 DEF Evict, vars, log, thread, Active
<1> QED
  BY Steps, <1>1, <1>2, <1>3, <1>4, <1>5, <1>6, <1>7 DEF ThreadStep, Recover

\* PinInv is preserved.
LEMMA PinStep ==
  ASSUME TypeOK, PhaseInv, PhaseInv', HeadInv, BufInv, LogInv, PinInv, [Next]_vars
  PROVE  PinInv'
<1>0. ASSUME UNCHANGED <<pin, lh, up>>, \A k \in 1..Len(lh) : Installed(k)' <=> Installed(k)
      PROVE  PinInv'
  BY <1>0 DEF PinInv
<1>1. ASSUME NEW p \in Threads,
             \/ Start(p) \/ begin_op(p) \/ end_op(p) \/ write_log(p) \/ write_head(p) \/ Committed(p)
             \/ \E b \in Blocks, v \in Vals : Modify(p, b, v)
      PROVE  PinInv'
  <2>1. up = "up" /\ UNCHANGED <<pin, lh, up>>
    BY <1>1 DEF Start, begin_op, end_op, write_log, write_head, Committed, Modify, At, mem, log
  <2>2. pc[p] \notin {"install", "clear"} /\ (pc'[p] \in {"install", "clear"} => pc'[p] = "install" /\ tail' = 1)
    BY <1>1 DEF TypeOK, ThreadTypes, PhaseInv, Committing, Start, begin_op, end_op, write_log, write_head,
                Committed, Modify, At, Goto, WakeAnd
  <2>3. \A q \in Threads \ {p} : (pc[q] \in {"install", "clear"} \/ pc'[q] \in {"install", "clear"})
                                  => pc'[q] = pc[q]
    BY <1>1 DEF TypeOK, ThreadTypes, Start, begin_op, end_op, write_log, write_head, Committed, Modify,
                Goto, WakeAnd
  <2>4. (\E q \in Threads : pc[q] \in {"install", "clear"}) => tail' = tail
    BY <1>1, <2>2 DEF Start, begin_op, end_op, write_log, write_head, Committed, Modify, At, PhaseInv, Committing
  <2>5. \A k \in 1..Len(lh) : Installed(k)' <=> Installed(k)
    BY <2>1, <2>2, <2>3, <2>4, SMT DEF Installed
  <2> QED
    BY <1>0, <2>1, <2>5
<1>2. ASSUME NEW p \in Threads, log_write(p) PROVE PinInv'
  <2> DEFINE b == buf[p]
  <2>1. up = "up" /\ up' = "up" /\ ~committing /\ committing' = committing /\ b \in Blocks
    BY <1>2 DEF log_write, At, BufInv, TypeOK, ThreadTypes, PhaseInv, Active
  <2>2. \A k : ~Installed(k) /\ ~Installed(k)'
    BY <2>1 DEF Installed, PhaseInv, Committing
  <2>3. \A x \in Blocks : pin[x] = IF x \in BlocksOf(lh) THEN 1 ELSE 0
    BY <2>1, <2>2 DEF PinInv, BlocksOf
  <2>4. \A x \in Blocks : pin'[x] = IF x \in BlocksOf(lh') THEN 1 ELSE 0
    <3>1. CASE b \in BlocksOf(lh)
      BY <1>2, <2>3, <3>1 DEF log_write
    <3>2. CASE b \notin BlocksOf(lh)
      <4>1. lh' = Append(lh, b) /\ pin' = [pin EXCEPT ![b] = @ + 1]
        BY <1>2, <3>2 DEF log_write
      <4>2. lh \in Seq(Blocks) /\ pin \in [Blocks -> Nat]
        BY DEF TypeOK, LogTypes, CacheTypes
      <4>a. Len(lh) \in Nat /\ Len(lh') = Len(lh) + 1
        BY <2>1, <4>1, <4>2, SMT
      <4>b. lh'[Len(lh) + 1] = b /\ \A k \in 1..Len(lh) : lh'[k] = lh[k]
        BY <2>1, <4>1, <4>2, SMT
      <4>3. /\ Len(lh) \in Nat /\ 1..Len(lh') = 1..Len(lh) \cup {Len(lh) + 1} /\ lh'[Len(lh) + 1] = b
            /\ \A k \in 1..Len(lh) : lh'[k] = lh[k]
        BY <4>a, <4>b, SMT
      <4>4. BlocksOf(lh') = BlocksOf(lh) \cup {b}
        BY <4>3 DEF BlocksOf
      <4> QED
        BY <2>1, <2>3, <3>2, <4>1, <4>2, <4>4, SMT
    <3> QED
      BY <3>1, <3>2
  <2> QED
    BY <2>1, <2>2, <2>4, SMT DEF PinInv, BlocksOf
<1>3. ASSUME NEW p \in Threads, Install(p) PROVE PinInv'
  <2>1. up = "up" /\ up' = "up" /\ pc[p] = "install" /\ lh' = lh
    BY <1>3 DEF Install, At, log
  <2>2. tail \in 1..Len(lh) /\ lh[tail] \in Blocks /\ Len(lh) \in Nat
    BY <1>3, InstallKeeps, SMT DEF TypeOK, LogTypes
  <2>3. pin' = [pin EXCEPT ![lh[tail]] = @ - 1] /\ pin \in [Blocks -> Nat]
    BY <1>3 DEF Install, install_trans, TypeOK, CacheTypes
  <2>4. \A k \in 1..Len(lh) : Installed(k) <=> k < tail
    BY <2>1, InstalledUp
  <2>5. \A q \in Threads \ {p} : pc'[q] \notin Committing
    BY <1>3, <2>1 DEF Install, Goto, PhaseInv, Committing, TypeOK, ThreadTypes
  <2>6. \A k \in 1..Len(lh) : Installed(k)' <=> k <= tail
    <3>1. \/ tail = Len(lh) /\ pc'[p] = "clear"
          \/ tail # Len(lh) /\ pc'[p] = "install" /\ tail' = tail + 1
      BY <1>3 DEF Install, install_trans, Goto, TypeOK, ThreadTypes
    <3> QED
      BY <2>1, <2>2, <2>5, <3>1, SMT DEF Installed, Committing
  <2>7. \A k \in 1..Len(lh) : lh[k] = lh[tail] => k = tail
    BY <2>2 DEF HeadInv, NoDup
  <2>8. pin[lh[tail]] = 1 /\ pin'[lh[tail]] = 0
    BY <2>1, <2>2, <2>3, <2>4, SMT DEF PinInv
  <2>9. ASSUME NEW x \in Blocks
        PROVE  pin'[x] = IF \E k \in 1..Len(lh) : lh[k] = x /\ ~Installed(k)' THEN 1 ELSE 0
    <3>1. CASE x = lh[tail]
      BY <2>6, <2>7, <2>8, <2>2, <3>1, SMT
    <3>2. CASE x # lh[tail]
      <4>1. pin'[x] = pin[x]
        BY <2>2, <2>3, <3>2
      <4>2. \A k \in 1..Len(lh) : lh[k] = x => (Installed(k)' <=> Installed(k))
        BY <2>2, <2>4, <2>6, <3>2, SMT
      <4>3. pin[x] = IF \E k \in 1..Len(lh) : lh[k] = x /\ ~Installed(k) THEN 1 ELSE 0
        BY <2>1 DEF PinInv
      <4> QED
        BY <4>1, <4>2, <4>3
    <3> QED
      BY <3>1, <3>2
  <2> QED
    BY <2>1, <2>9 DEF PinInv
<1>4. ASSUME NEW p \in Threads, Clear(p) PROVE PinInv'
  <2>1. up = "up" /\ pc[p] = "clear" /\ pin' = pin /\ lh' = <<>> /\ Len(lh') = 0
    BY <1>4 DEF Clear, At, mem
  <2>2. \A x \in Blocks : pin[x] = 0
    BY <2>1, InstalledUp DEF PinInv
  <2> QED
    BY <2>1, <2>2, SMT DEF PinInv
<1>5. CASE Recover
  <2>1. up # "up" /\ pin' = pin /\ (up' = "up" => Len(lh') = 0)
    BY <1>5 DEF Recover, read_head, RecoverInstall, install_trans, RecoverClear, mem
  <2> QED
    BY <2>1, SMT DEF PinInv
<1>6. CASE Crash
  BY <1>6 DEF Crash, PinInv
<1>7. CASE (\E b \in Blocks : Evict(b)) \/ UNCHANGED vars
  BY <1>0, <1>7 DEF Evict, Installed, vars, mem, log, thread
<1> QED
  BY Steps, <1>1, <1>2, <1>3, <1>4, <1>5, <1>6, <1>7 DEF ThreadStep, Recover

\* The invariant is inductive.
THEOREM LogInvariance == Spec => []IInv
<1>1. Init => IInv
  <2> SUFFICES ASSUME Init PROVE IInv
    OBVIOUS
  <2>1. TypeOK
    <3>1. <<>> \in Seq(Blocks) /\ Len(<<>>) = 0
      BY SMT
    <3>2. DiskTypes
      BY <3>1, LogAssumption, SMT DEF Init, DiskTypes
    <3>3. LogTypes
      <4>1. lh \in Seq(Blocks) /\ Len(lh) = 0 /\ lh = <<>>
        BY <3>1 DEF Init
      <4>2. outstanding = 0 /\ tail = 1 /\ up = "read" /\ crashes = 0
        BY DEF Init
      <4>3. committing \in BOOLEAN
        BY DEF Init
      <4> QED
        BY <4>1, <4>2, <4>3, LogAssumption, SMT DEF LogTypes
    <3>4. CacheTypes /\ ThreadTypes
      BY DEF Init, CacheTypes, ThreadTypes, Labels
    <3> QED
      BY <3>2, <3>3, <3>4 DEF TypeOK
  <2>2. Active = {}
    BY DEF Init, Active
  <2>3. CountInv
    BY <2>2, FS_EmptySet DEF CountInv, Init
  <2>4. PhaseInv /\ BufInv /\ CacheInv /\ LogInv
    BY SMT DEF Init, PhaseInv, BufInv, CacheInv, LogInv, Committing
  <2>5. HeadInv
    BY SMT DEF Init, HeadInv, NoDup
  <2>6. PendInv /\ PinInv
    BY DEF Init, PendInv, PinInv
  <2> QED
    BY <2>1, <2>3, <2>4, <2>5, <2>6 DEF IInv
<1>2. IInv /\ [Next]_vars => IInv'
  <2> SUFFICES ASSUME IInv, [Next]_vars PROVE IInv'
    OBVIOUS
  <2>1. /\ TypeOK /\ CountInv /\ PhaseInv /\ HeadInv /\ BufInv /\ CacheInv /\ LogInv
        /\ PendInv /\ PinInv
    BY DEF IInv
  <2>2. TypeOK' /\ CountInv' /\ PhaseInv' /\ HeadInv' /\ BufInv'
    BY <2>1, TypeStep, CountStep, PhaseStep, HeadStep, BufStep
  <2>3. CacheInv' /\ LogInv' /\ PendInv' /\ PinInv'
    BY <2>1, <2>2, CacheStep, LogStep, PendStep, PinStep
  <2> QED
    BY <2>2, <2>3 DEF IInv
<1> QED
  BY <1>1, <1>2, PTL DEF Spec

-----------------------------------------------------------------------------
(* The log implements AtomicDisk.                                          *)

\* Durable, as a function of the disk.
Redo(h, l, d) ==
  [b \in Blocks |-> IF b \in BlocksOf(d) THEN l[CHOOSE k \in 1..Len(d) : d[k] = b] ELSE h[b]]

\* It has block k of the log for the k-th block of the header, and for the
\* others what is at home.
LEMMA RedoFacts ==
  ASSUME NEW h \in [Blocks -> Vals], NEW l, NEW d \in Seq(Blocks), NoDup(d)
  PROVE  /\ \A k \in 1..Len(d) : d[k] \in Blocks /\ Redo(h, l, d)[d[k]] = l[k]
         /\ \A b \in Blocks \ BlocksOf(d) : Redo(h, l, d)[b] = h[b]
<1>1. ASSUME NEW k \in 1..Len(d) PROVE d[k] \in Blocks /\ Redo(h, l, d)[d[k]] = l[k]
  <2>1. d[k] \in Blocks /\ d[k] \in BlocksOf(d)
    BY SMT DEF BlocksOf
  <2>2. (CHOOSE j \in 1..Len(d) : d[j] = d[k]) = k
    BY DEF NoDup
  <2> QED
    BY <2>1, <2>2 DEF Redo
<1> QED
  BY <1>1 DEF Redo

\* With an empty header it is what is at home.
LEMMA EmptyHead ==
  ASSUME NEW h \in [Blocks -> Vals], NEW l
  PROVE  Redo(h, l, <<>>) = h
<1>1. BlocksOf(<<>>) = {}
  BY SMT DEF BlocksOf
<1> QED
  BY <1>1 DEF Redo

\* Durable is the redo of the log on disk, before and after a step.
LEMMA DurableIsRedo ==
  Durable = Redo(home, dlog, dhead) /\ Durable' = Redo(home', dlog', dhead')
BY DEF Durable, Redo

\* While the disk stays as it is, so does what recovery makes of it.
LEMMA DurableSame ==
  ASSUME UNCHANGED disk
  PROVE  Durable' = Durable
<1>1. home' = home /\ dlog' = dlog /\ dhead' = dhead
  BY DEF disk
<1> QED
  BY <1>1, DurableIsRedo

\* Steps that leave Durable alone.
LEMMA DurableKept ==
  ASSUME IInv, IInv', Next, ~(\E p \in Threads : write_head(p))
  PROVE  Durable' = Durable
<1> DEFINE same == Durable' = Durable
<1>t. home \in [Blocks -> Vals] /\ home' \in [Blocks -> Vals] /\ dhead \in Seq(Blocks) /\ NoDup(dhead)
  BY DEF IInv, TypeOK, DiskTypes, HeadInv
<1>1. CASE UNCHANGED disk
  BY <1>1, DurableSame
<1>2. ASSUME NEW p \in Threads, write_log(p) PROVE same
  <2>1. dhead = <<>> /\ UNCHANGED <<home, dhead>>
    BY <1>2 DEF IInv, HeadInv, PhaseInv, Committing, write_log, At
  <2>2. Durable = home
    BY <1>t, <2>1, EmptyHead, DurableIsRedo
  <2>3. Durable' = home'
    BY <1>t, <2>1, EmptyHead, DurableIsRedo
  <2> QED
    BY <2>1, <2>2, <2>3
<1>3. ASSUME tail \in 1..Len(lh), dhead = lh, home' = [home EXCEPT ![lh[tail]] = dlog[tail]],
             UNCHANGED <<dlog, dhead>>
      PROVE  same
  <2>1. lh[tail] \in BlocksOf(dhead) /\ \A b \in Blocks \ BlocksOf(dhead) : home'[b] = home[b]
    BY <1>t, <1>3 DEF BlocksOf
  <2> QED
    BY <1>3, <2>1, SMT DEF Durable
<1>4. ASSUME NEW p \in Threads, Install(p) PROVE same
  <2>1. TypeOK /\ PhaseInv /\ LogInv
    BY DEF IInv
  <2>2. tail \in 1..Len(lh)
    BY <1>4, <2>1, InstallKeeps
  <2>3. dhead = lh
    BY <1>4 DEF IInv, HeadInv, Install, At
  <2> QED
    BY <1>3, <1>4, <2>2, <2>3 DEF Install, install_trans
<1>5. CASE RecoverInstall
  <2>1. dhead = lh /\ lh # <<>>
    BY <1>5 DEF IInv, HeadInv, RecoverInstall
  <2>2. tail \in 1..Len(lh)
    BY <2>1, SMT DEF IInv, TypeOK, LogTypes
  <2> QED
    BY <1>3, <1>5, <2>1, <2>2 DEF RecoverInstall, install_trans
<1>6. ASSUME dhead = lh, \A k \in 1..Len(lh) : home[lh[k]] = dlog[k], home' = home, dhead' = <<>>
      PROVE  same
  <2>1. Durable' = home
    BY <1>t, <1>6, EmptyHead, DurableIsRedo
  <2>2. ASSUME NEW b \in Blocks PROVE Durable[b] = home[b]
    <3>1. CASE b \in BlocksOf(dhead)
      <4>1. PICK k \in 1..Len(dhead) : dhead[k] = b
        BY <3>1 DEF BlocksOf
      <4>2. Durable[dhead[k]] = dlog[k]
        BY <1>t, RedoFacts, DurableIsRedo, SMT
      <4> QED
        BY <1>6, <4>1, <4>2
    <3>2. CASE b \notin BlocksOf(dhead)
      BY <3>2 DEF Durable
    <3> QED
      BY <3>1, <3>2
  <2>3. Durable = [b \in Blocks |-> Durable[b]]
    BY SMT DEF Durable
  <2> QED
    BY <1>t, <2>1, <2>2, <2>3
<1>7. ASSUME NEW p \in Threads, Clear(p) PROVE same
  <2>1. up = "up" /\ pc[p] = "clear" /\ dhead = lh
    BY <1>7 DEF Clear, At, IInv, HeadInv
  <2>2. \A k \in 1..Len(lh) : home[lh[k]] = dlog[k]
    BY <2>1 DEF IInv, LogInv, Installed
  <2> QED
    BY <1>6, <1>7, <2>1, <2>2 DEF Clear
<1>8. CASE RecoverClear
  <2>1. dhead = lh /\ \A k \in 1..Len(lh) : home[lh[k]] = dlog[k]
    BY <1>8 DEF RecoverClear, IInv, HeadInv, LogInv, Installed
  <2> QED
    BY <1>6, <1>8, <2>1 DEF RecoverClear
<1>9. UNCHANGED disk \/ RecoverInstall \/ RecoverClear
      \/ \E p \in Threads : write_log(p) \/ Install(p) \/ Clear(p)
  BY DEF Next, OpStep, CommitStep, Recover, Start, begin_op, log_write, end_op, Committed, Modify,
         Evict, read_head, Crash
<1> QED
  BY <1>1, <1>2, <1>4, <1>5, <1>7, <1>8, <1>9

\* write_head() makes the contents of the cache durable.
LEMMA CommitPoint ==
  ASSUME IInv, NEW p \in Threads, write_head(p)
  PROVE  Durable' = cache /\ cache' = cache /\ up = "up" /\ up' = up /\ Active = {}
<1>1. /\ up = "up" /\ up' = up /\ pc[p] = "whead" /\ cache' = cache /\ dhead' = lh
      /\ UNCHANGED <<home, dlog>>
  BY DEF write_head, At, mem
<1>2. Active = {} /\ (\A q \in Threads : pc[q] # "logw")
  BY <1>1 DEF IInv, PhaseInv, Committing, Active
<1>3. home \in [Blocks -> Vals] /\ cache \in [Blocks -> Vals] /\ lh \in Seq(Blocks) /\ NoDup(lh)
  BY DEF IInv, TypeOK, DiskTypes, CacheTypes, LogTypes, HeadInv
<1>4. \A k \in 1..Len(lh) : dlog[k] = cache[lh[k]]
  BY <1>1 DEF IInv, LogInv
<1>5. \A b \in Blocks \ BlocksOf(lh) : home[b] = cache[b]
  BY <1>1, <1>2, LogAssumption, SMT DEF IInv, CacheInv, BufInv
<1>r. Durable' = Redo(home, dlog, lh)
  BY <1>1, DurableIsRedo
<1>f. Durable' = [b \in Blocks |-> Durable'[b]]
  BY SMT DEF Durable
<1>6. Durable' = Redo(home, dlog, lh) /\ Durable' = [b \in Blocks |-> Durable'[b]]
  BY <1>r, <1>f
<1>7. ASSUME NEW b \in Blocks PROVE Durable'[b] = cache[b]
  <2>1. CASE b \in BlocksOf(lh)
    <3>1. PICK k \in 1..Len(lh) : lh[k] = b
      BY <2>1 DEF BlocksOf
    <3>2. Durable'[lh[k]] = dlog[k]
      BY <1>3, <1>6, RedoFacts, SMT
    <3> QED
      BY <1>4, <3>1, <3>2
  <2>2. CASE b \notin BlocksOf(lh)
    BY <1>3, <1>5, <1>6, <2>2, RedoFacts, SMT
  <2> QED
    BY <2>1, <2>2
<1> QED
  BY <1>1, <1>2, <1>3, <1>6, <1>7

\* The view, and the active operations, in the words of AtomicDisk.
View == IF up = "up" THEN cache ELSE Durable
Ops == {p \in Threads : up = "up" /\ pc[p] \in {"op", "logw"}}

\* Every step of the log is a step of AtomicDisk, or invisible there.
LEMMA LogRefines ==
  ASSUME IInv, IInv', [Next]_vars
  PROVE  [AD!DNext]_(AD!dvars)
<1>s. ASSUME View' = View, Durable' = Durable, Ops' = Ops PROVE [AD!DNext]_(AD!dvars)
  BY <1>s DEF AD!dvars, View, Ops
<1>1. ASSUME NEW p \in Threads, begin_op(p) PROVE [AD!DNext]_(AD!dvars)
  <2>0. UNCHANGED disk
    BY <1>1 DEF begin_op
  <2>1. up = "up" /\ up' = "up" /\ cache' = cache /\ Durable' = Durable /\ pc[p] = "begin"
    BY <1>1, <2>0, DurableSame DEF begin_op, At, mem
  <2>2. pc' = [pc EXCEPT ![p] = "asleep"] \/ pc' = [pc EXCEPT ![p] = "op"]
    BY <1>1 DEF begin_op, Goto
  <2>3. View' = View /\ (Ops' = Ops \/ (p \notin Ops /\ Ops' = Ops \cup {p}))
    BY <2>1, <2>2 DEF View, Ops, IInv, TypeOK, ThreadTypes
  <2>4. CASE p \notin Ops /\ Ops' = Ops \cup {p}
    <3>1. AD!DBegin(p)
      BY <2>1, <2>3, <2>4 DEF AD!DBegin, View, Ops
    <3> QED
      BY <3>1 DEF AD!DNext
  <2> QED
    BY <1>s, <2>1, <2>3, <2>4
<1>2. ASSUME NEW p \in Threads, end_op(p) PROVE [AD!DNext]_(AD!dvars)
  <2>0. UNCHANGED disk
    BY <1>2 DEF end_op
  <2>1. up = "up" /\ up' = "up" /\ cache' = cache /\ Durable' = Durable /\ pc[p] = "op"
    BY <1>2, <2>0, DurableSame DEF end_op, At, mem
  <2>2. pc'[p] \notin {"op", "logw"}
    BY <1>2 DEF end_op, Goto, WakeAnd, IInv, TypeOK, ThreadTypes
  <2>3. \A q \in Threads \ {p} : pc[q] \in {"op", "logw"} <=> pc'[q] \in {"op", "logw"}
    BY <1>2 DEF end_op, Goto, WakeAnd, IInv, TypeOK, ThreadTypes
  <2>4. View' = View /\ p \in Ops /\ Ops' = Ops \ {p}
    BY <2>1, <2>2, <2>3 DEF View, Ops
  <2>5. AD!DEnd(p)
    BY <2>1, <2>4 DEF AD!DEnd, View, Ops
  <2> QED
    BY <2>5 DEF AD!DNext
<1>3. ASSUME NEW p \in Threads, NEW b \in Blocks, NEW v \in Vals, Modify(p, b, v)
      PROVE  [AD!DNext]_(AD!dvars)
  <2>1. /\ up = "up" /\ up' = "up" /\ Durable' = Durable /\ pc[p] = "op"
        /\ cache' = [cache EXCEPT ![b] = v] /\ pc' = [pc EXCEPT ![p] = "logw"]
    BY <1>3, DurableSame DEF Modify, At, Goto
  <2>2. View' = [View EXCEPT ![b] = v] /\ p \in Ops /\ Ops' = Ops
    BY <2>1 DEF View, Ops, IInv, TypeOK, ThreadTypes
  <2>3. AD!DWrite(p, b, v)
    BY <2>1, <2>2 DEF AD!DWrite, View, Ops
  <2> QED
    BY <2>3 DEF AD!DNext
<1>4. ASSUME NEW p \in Threads, write_head(p) PROVE [AD!DNext]_(AD!dvars)
  <2>1. Durable' = cache /\ cache' = cache /\ up = "up" /\ up' = up /\ Active = {}
    BY <1>4, CommitPoint
  <2>2. Ops = {} /\ Ops' = {}
    BY <1>4, <2>1 DEF Ops, Active, write_head, Goto, IInv, TypeOK, ThreadTypes
  <2>3. View = cache /\ View' = cache
    BY <2>1 DEF View
  <2>4. AD!DCommit
    BY <2>1, <2>2, <2>3 DEF AD!DCommit, View, Ops
  <2> QED
    BY <2>4 DEF AD!DNext
<1>5. CASE Crash
  <2>1. Durable' = Durable /\ up' = "read"
    BY <1>5, DurableSame DEF Crash
  <2>2. View' = Durable /\ Ops' = {}
    BY <2>1 DEF View, Ops
  <2>3. AD!DCrash
    BY <2>1, <2>2 DEF AD!DCrash, View, Ops
  <2> QED
    BY <2>3 DEF AD!DNext
<1>6. ASSUME NEW p \in Threads,
             Start(p) \/ log_write(p) \/ write_log(p) \/ Install(p) \/ Clear(p) \/ Committed(p)
      PROVE  [AD!DNext]_(AD!dvars)
  <2>1. up = "up" /\ up' = "up"
    BY <1>6 DEF Start, log_write, write_log, Install, Clear, Committed, At
  <2>2. cache' = cache
    BY <1>6, InstallKeeps DEF IInv, Start, log_write, write_log, Clear, Committed, mem
  <2>3. pc[p] \in {"op", "logw"} <=> pc'[p] \in {"op", "logw"}
    BY <1>6 DEF IInv, TypeOK, ThreadTypes, Start, log_write, write_log, Install, Clear, Committed,
                At, Goto, WakeAnd
  <2>4. \A q \in Threads \ {p} : pc[q] \in {"op", "logw"} <=> pc'[q] \in {"op", "logw"}
    BY <1>6 DEF IInv, TypeOK, ThreadTypes, Start, log_write, write_log, Install, Clear, Committed,
                At, Goto, WakeAnd
  <2>5. Ops' = Ops
    BY <2>1, <2>3, <2>4 DEF Ops
  <2>6. Next /\ ~(\E q \in Threads : write_head(q))
    <3>1. Next
      BY <1>6 DEF Next, OpStep, CommitStep
    <3>2. CASE pc[p] = "clear"
      BY <3>1, <3>2 DEF write_head, At, IInv, PhaseInv, Committing
    <3>3. CASE pc[p] # "clear"
      <4>1. dhead' = dhead
        BY <1>6, <3>3 DEF Start, log_write, write_log, Install, Clear, Committed, At, disk
      <4>2. ASSUME NEW q \in Threads, write_head(q) PROVE FALSE
        <5>1. dhead' = lh /\ up = "up" /\ pc[q] = "whead"
          BY <4>2 DEF write_head, At
        <5>2. lh # <<>> /\ dhead = <<>>
          BY <5>1 DEF IInv, PhaseInv, HeadInv, Committing
        <5> QED
          BY <4>1, <5>1, <5>2
      <4> QED
        BY <3>1, <4>2
    <3> QED
      BY <3>1, <3>2, <3>3
  <2>7. Durable' = Durable
    BY <2>6, DurableKept
  <2> QED
    BY <1>s, <2>1, <2>2, <2>5, <2>7 DEF View
<1>7. ASSUME NEW b \in Blocks, Evict(b) PROVE [AD!DNext]_(AD!dvars)
  <2>1. cache' = cache
    BY <1>7, EvictKeeps DEF IInv
  <2>2. UNCHANGED <<up, pc>> /\ Durable' = Durable
    BY <1>7, DurableSame DEF Evict, thread
  <2> QED
    BY <1>s, <2>1, <2>2 DEF View, Ops
<1>8. CASE Recover
  <2>1. up # "up" /\ pc' = pc /\ \A q \in Threads : pc[q] = "idle"
    BY <1>8 DEF Recover, read_head, RecoverInstall, RecoverClear, thread, IInv, PhaseInv
  <2>2. Ops' = Ops
    BY <2>1 DEF Ops
  <2>3. Durable' = Durable
    BY <1>8, <2>1, DurableKept DEF Next, write_head, At
  <2>4. View' = View
    <3>1. CASE RecoverClear
      <4>1. dhead' = <<>> /\ cache' = cache /\ home' = home
        BY <3>1 DEF RecoverClear, mem
      <4>2. cache = home /\ home \in [Blocks -> Vals]
        BY <2>1 DEF IInv, CacheInv, TypeOK, DiskTypes
      <4>3. Durable' = home
        BY <4>1, <4>2, EmptyHead, DurableIsRedo
      <4> QED
        BY <2>1, <2>3, <4>1, <4>2, <4>3 DEF View
    <3>2. CASE up' # "up"
      BY <2>1, <2>3, <3>2 DEF View
    <3> QED
      BY <1>8, <3>1, <3>2 DEF Recover, read_head, RecoverInstall
  <2> QED
    BY <1>s, <2>2, <2>3, <2>4
<1>9. CASE UNCHANGED vars
  <2>0. UNCHANGED disk /\ up' = up /\ cache' = cache /\ pc' = pc
    BY <1>9 DEF vars, mem, log, thread
  <2>1. View' = View /\ Durable' = Durable /\ Ops' = Ops
    BY <2>0, DurableSame DEF View, Ops
  <2> QED
    BY <1>s, <2>1
<1> QED
  BY Steps, <1>1, <1>2, <1>3, <1>4, <1>5, <1>6, <1>7, <1>8, <1>9 DEF ThreadStep, Recover

\* For any threads, blocks and number of crashes, what begin_op(), log_write(),
\* end_op(), commit() and recover_from_log() do together is what AtomicDisk
\* says: operations are atomic with respect to crashes.
THEOREM LogImplementsAtomicDisk == Spec => CrashAtomic
<1>1. Init => AD!DInit
  <2> SUFFICES ASSUME Init PROVE AD!DInit
    OBVIOUS
  <2>1. home \in [Blocks -> Vals] /\ dhead = <<>> /\ up = "read"
    BY DEF Init
  <2>2. Durable = home
    BY <2>1, EmptyHead, DurableIsRedo
  <2> QED
    BY <2>1, <2>2 DEF AD!DInit
<1>2. IInv /\ IInv' /\ [Next]_vars => [AD!DNext]_(AD!dvars)
  BY LogRefines
<1> QED
  BY <1>1, <1>2, LogInvariance, PTL DEF Spec, CrashAtomic, AD!DSpec

\* The type invariant.
THEOREM LogTypeCorrect == Spec => []TypeOK
BY LogInvariance, PTL DEF IInv

\* When end_op() has returned and no operation is in progress, everything is
\* on disk.
THEOREM IdleDurable == Spec => []IdleIsDurable
<1>1. IInv => IdleIsDurable
  <2> SUFFICES ASSUME IInv, up = "up", outstanding = 0, ~committing
               PROVE  Durable = cache /\ home = cache
    BY DEF IdleIsDurable
  <2>1. \A p \in Threads : pc[p] \notin Committing
    BY DEF IInv, PhaseInv
  <2>2. dhead = <<>> /\ home \in [Blocks -> Vals] /\ cache \in [Blocks -> Vals]
    BY <2>1 DEF IInv, HeadInv, Committing, TypeOK, DiskTypes, CacheTypes
  <2>3. Durable = home
    BY <2>2, EmptyHead, DurableIsRedo
  <2>4. Active = {} /\ lh = <<>>
    BY FS_EmptySet DEF IInv, CountInv, PendInv
  <2>5. BlocksOf(lh) = {} /\ \A p \in Threads : buf[p] = None
    BY <2>4, SMT DEF BlocksOf, IInv, BufInv, Active
  <2>6. \A b \in Blocks : cache[b] = home[b]
    BY <2>5, LogAssumption DEF IInv, CacheInv
  <2> QED
    BY <2>2, <2>3, <2>6, SMT
<1> QED
  BY <1>1, LogInvariance, PTL

\* Every bpin() of log_write() has its bunpin() in install_trans().
THEOREM LogUnpins == Spec => []PinsReturned
<1>1. IInv => PinsReturned
  BY SMT DEF IInv, PinInv, PinsReturned
<1> QED
  BY <1>1, LogInvariance, PTL

\* Nobody is in an operation while its transaction is being committed.
THEOREM CommitExcludesOps ==
  Spec => [](\A p \in Threads : pc[p] \in {"op", "logw"} => ~committing)
<1>1. IInv => \A p \in Threads : pc[p] \in {"op", "logw"} => ~committing
  BY DEF IInv, PhaseInv, Active
<1> QED
  BY <1>1, LogInvariance, PTL

-----------------------------------------------------------------------------
(* The space begin_op() reserves.                                          *)

\* What is left of the reservations of the operations in progress: an
\* operation has used its reservation for the blocks of its own in the log.
InLog(p) == wrote[p] \cap BlocksOf(lh)
Reserve ==
  {x \in Active \X (1..MAXOPBLOCKS) : x[2] + Cardinality(InLog(x[1])) <= MAXOPBLOCKS}

\* The buffer an operation is about to log is among the blocks it has written.
WroteInv ==
  \A p \in Active :
    /\ IsFiniteSet(wrote[p]) /\ Cardinality(wrote[p]) <= OpBlocks
    /\ pc[p] = "logw" => buf[p] \in wrote[p]

\* The log has room for what it holds and for what is reserved.
SpaceInv == Active # {} => Len(lh) + Cardinality(Reserve) <= LOGSIZE

\* The reservations are at most MAXOPBLOCKS for each operation.
LEMMA ReserveBound ==
  ASSUME CountInv
  PROVE  /\ IsFiniteSet(Reserve) /\ Cardinality(Reserve) \in Nat
         /\ Cardinality(Reserve) <= outstanding * MAXOPBLOCKS
<1>1. IsFiniteSet(1..MAXOPBLOCKS) /\ Cardinality(1..MAXOPBLOCKS) = MAXOPBLOCKS
  <2>1. MAXOPBLOCKS \in Nat \ {0}
    BY LogAssumption
  <2>2. 1 \in Int /\ MAXOPBLOCKS \in Int /\ 1 <= MAXOPBLOCKS /\ MAXOPBLOCKS - 1 + 1 = MAXOPBLOCKS
    BY <2>1, SMT
  <2>3. QED
    BY <2>1, <2>2, FS_Interval, SMT
<1>2. PICK S : S = Active \X (1..MAXOPBLOCKS)
  OBVIOUS
<1>3. IsFiniteSet(S) /\ Cardinality(S) = outstanding * MAXOPBLOCKS
  BY <1>1, <1>2, FS_Product DEF CountInv
<1>4. Reserve \subseteq S
  BY <1>2 DEF Reserve
<1>5. IsFiniteSet(Reserve) /\ Cardinality(Reserve) <= Cardinality(S)
  BY <1>3, <1>4, FS_Subset
<1>6. QED
  BY <1>3, <1>5, FS_CardinalityType

\* What an operation has in the log is part of what it has written.
LEMMA InLogBound ==
  ASSUME WroteInv, OpBlocks < MAXOPBLOCKS, NEW p \in Active
  PROVE  /\ IsFiniteSet(InLog(p)) /\ Cardinality(InLog(p)) \in Nat
         /\ Cardinality(InLog(p)) <= OpBlocks
<1>1. IsFiniteSet(wrote[p]) /\ Cardinality(wrote[p]) <= OpBlocks /\ Cardinality(wrote[p]) \in Nat
  BY FS_CardinalityType DEF WroteInv
<1>2. InLog(p) \subseteq wrote[p]
  BY DEF InLog
<1>3. IsFiniteSet(InLog(p)) /\ Cardinality(InLog(p)) <= Cardinality(wrote[p])
  BY <1>1, <1>2, FS_Subset
<1>4. Cardinality(InLog(p)) \in Nat
  BY <1>3, FS_CardinalityType
<1>5. QED
  BY <1>1, <1>3, <1>4, LogAssumption, SMT

\* A step after which no operation has more left of its reservation.
LEMMA LessReserved ==
  ASSUME TypeOK, CountInv, WroteInv, WroteInv', OpBlocks < MAXOPBLOCKS, SpaceInv,
         Active' \subseteq Active, Len(lh)' = Len(lh),
         \A p \in Active' : InLog(p) \subseteq InLog(p)'
  PROVE  SpaceInv'
<1>1. SUFFICES ASSUME Active' # {} PROVE (Len(lh) + Cardinality(Reserve) <= LOGSIZE)'
  BY DEF SpaceInv
<1>2. Len(lh) + Cardinality(Reserve) <= LOGSIZE
  BY <1>1 DEF SpaceInv
<1>3. ASSUME NEW x \in Reserve' PROVE x \in Reserve
  <2>1. x \in Active' \X (1..MAXOPBLOCKS) /\ x[2] + Cardinality(InLog(x[1]))' <= MAXOPBLOCKS
    BY <1>3 DEF Reserve
  <2>2. x[1] \in Active' /\ x[1] \in Active /\ x[2] \in 1..MAXOPBLOCKS
    BY <2>1
  <2>3. IsFiniteSet(InLog(x[1])') /\ Cardinality(InLog(x[1]))' \in Nat
    <3>1. IsFiniteSet(wrote'[x[1]]) /\ InLog(x[1])' \subseteq wrote'[x[1]]
      BY <2>2 DEF WroteInv, InLog
    <3>2. QED
      BY <3>1, FS_Subset, FS_CardinalityType
  <2>4. Cardinality(InLog(x[1])) \in Nat /\ Cardinality(InLog(x[1])) <= Cardinality(InLog(x[1]))'
    BY <2>2, <2>3, FS_Subset, FS_CardinalityType
  <2>5. x[2] + Cardinality(InLog(x[1])) <= MAXOPBLOCKS
    BY <2>1, <2>2, <2>3, <2>4, LogAssumption, SMT
  <2>6. QED
    BY <2>1, <2>2, <2>5 DEF Reserve
<1>4. IsFiniteSet(Reserve) /\ Cardinality(Reserve) \in Nat
  BY ReserveBound
<1>5. Cardinality(Reserve') <= Cardinality(Reserve) /\ Cardinality(Reserve') \in Nat
  BY <1>3, <1>4, FS_Subset, FS_CardinalityType
<1>6. Len(lh) \in Nat
  BY SMT DEF TypeOK, LogTypes
<1>7. QED
  BY <1>2, <1>4, <1>5, <1>6, LogAssumption, SMT

\* WroteInv is preserved.
LEMMA WroteStep ==
  ASSUME TypeOK, WroteInv, [Next]_vars
  PROVE  WroteInv'
<1>1. ASSUME NEW p \in Threads, NEW b \in Blocks, NEW v \in Vals, Modify(p, b, v) PROVE WroteInv'
  <2>1. /\ pc[p] = "op" /\ pc' = [pc EXCEPT ![p] = "logw"] /\ buf' = [buf EXCEPT ![p] = b]
        /\ wrote' = [wrote EXCEPT ![p] = wrote[p] \cup {b}]
        /\ Cardinality(wrote[p] \cup {b}) <= OpBlocks
    BY <1>1 DEF Modify, At, Goto
  <2>2. p \in Active /\ IsFiniteSet(wrote[p])
    BY <2>1 DEF Active, WroteInv
  <2>3. IsFiniteSet(wrote[p] \cup {b})
    BY <2>2, FS_AddElement
  <2>4. wrote'[p] = wrote[p] \cup {b} /\ buf'[p] = b
    BY <2>1 DEF TypeOK, ThreadTypes
  <2>5. \A q \in Threads \ {p} : wrote'[q] = wrote[q] /\ buf'[q] = buf[q] /\ pc'[q] = pc[q]
    BY <2>1 DEF TypeOK, ThreadTypes
  <2>6. QED
    BY <2>1, <2>3, <2>4, <2>5 DEF WroteInv, Active
<1>2. ASSUME NEW p \in Threads, begin_op(p) PROVE WroteInv'
  <2>1. CASE pc' = [pc EXCEPT ![p] = "asleep"] /\ wrote' = wrote /\ buf' = buf
    BY <2>1 DEF WroteInv, Active, TypeOK, ThreadTypes
  <2>2. CASE pc' = [pc EXCEPT ![p] = "op"] /\ wrote' = [wrote EXCEPT ![p] = {}] /\ buf' = buf
    <3>1. wrote'[p] = {} /\ pc'[p] = "op"
      BY <2>2 DEF TypeOK, ThreadTypes
    <3>2. IsFiniteSet({}) /\ Cardinality({}) <= OpBlocks
      BY FS_EmptySet, LogAssumption, SMT
    <3>3. \A q \in Threads \ {p} : wrote'[q] = wrote[q] /\ buf'[q] = buf[q] /\ pc'[q] = pc[q]
      BY <2>2 DEF TypeOK, ThreadTypes
    <3>4. QED
      BY <3>1, <3>2, <3>3 DEF WroteInv, Active
  <2>3. QED
    BY <1>2, <2>1, <2>2 DEF begin_op, Goto
<1>3. ASSUME NEW p \in Threads, log_write(p) PROVE WroteInv'
  <2>1. /\ pc[p] = "logw" /\ pc' = [pc EXCEPT ![p] = "op"]
        /\ buf' = [buf EXCEPT ![p] = None] /\ wrote' = wrote
    BY <1>3 DEF log_write, At, Goto
  <2>2. pc'[p] = "op" /\ \A q \in Threads \ {p} : buf'[q] = buf[q] /\ pc'[q] = pc[q]
    BY <2>1 DEF TypeOK, ThreadTypes
  <2>3. QED
    BY <2>1, <2>2 DEF WroteInv, Active
<1>4. ASSUME wrote' = wrote, buf' = buf,
             \A q \in Threads : pc'[q] \in {"op", "logw"} => pc'[q] = pc[q]
      PROVE  WroteInv'
  BY <1>4 DEF WroteInv, Active
<1>5. ASSUME NEW p \in Threads, Start(p) \/ end_op(p) \/ CommitStep(p) PROVE WroteInv'
  <2>1. wrote' = wrote /\ buf' = buf
    BY <1>5 DEF Start, end_op, CommitStep, write_log, write_head, Install, Clear, Committed
  <2>2. \A q \in Threads : pc'[q] \in {"op", "logw"} => pc'[q] = pc[q]
    BY <1>5 DEF Start, end_op, CommitStep, write_log, write_head, Install, Clear, Committed, At, Goto,
                WakeAnd, TypeOK, ThreadTypes
  <2>3. QED
    BY <1>4, <2>1, <2>2
<1>6. CASE Crash
  BY <1>6 DEF WroteInv, Active, Crash
<1>7. CASE Recover \/ (\E b \in Blocks : Evict(b)) \/ UNCHANGED vars
  <2>1. wrote' = wrote /\ buf' = buf /\ pc' = pc
    BY <1>7 DEF Recover, read_head, RecoverInstall, RecoverClear, Evict, vars, thread
  <2>2. QED
    BY <1>4, <2>1
<1>8. QED
  BY Steps, <1>1, <1>2, <1>3, <1>5, <1>6, <1>7 DEF ThreadStep, CommitStep, Recover

\* log_write() takes one block of what its operation has reserved.
LEMMA LogWriteSpace ==
  ASSUME TypeOK, CountInv, WroteInv, OpBlocks < MAXOPBLOCKS, SpaceInv,
         NEW p \in Threads, pc[p] = "logw", buf[p] \notin BlocksOf(lh),
         lh' = Append(lh, buf[p]), wrote' = wrote, Active' = Active, buf[p] \in Blocks
  PROVE  SpaceInv'
<1>1. p \in Active /\ buf[p] \in wrote[p]
  BY DEF Active, WroteInv
<1>2. Len(lh)' = Len(lh) + 1 /\ BlocksOf(lh)' = BlocksOf(lh) \cup {buf[p]} /\ Len(lh) \in Nat
  <2>1. lh \in Seq(Blocks)
    BY DEF TypeOK, LogTypes
  <2>2. QED
    BY <2>1, SMT DEF BlocksOf
<1>3. \A q \in Active : IsFiniteSet(InLog(q)) /\ Cardinality(InLog(q)) \in Nat
                        /\ Cardinality(InLog(q)) <= OpBlocks
  BY InLogBound
<1>4. \A q \in Active : InLog(q)' = InLog(q) \/ InLog(q)' = InLog(q) \cup {buf[p]}
  BY <1>2 DEF InLog
<1>5. InLog(p)' = InLog(p) \cup {buf[p]} /\ buf[p] \notin InLog(p)
  BY <1>1, <1>2 DEF InLog
<1>6. PICK n : n = Cardinality(InLog(p))
  OBVIOUS
<1>7. Cardinality(InLog(p)') = n + 1 /\ n \in Nat /\ n <= OpBlocks
  BY <1>1, <1>3, <1>5, <1>6, FS_AddElement
<1>8. \A q \in Active : Cardinality(InLog(q)') \in Nat /\ Cardinality(InLog(q)) <= Cardinality(InLog(q)')
  <2>1. SUFFICES ASSUME NEW q \in Active
                 PROVE  Cardinality(InLog(q)') \in Nat /\ Cardinality(InLog(q)) <= Cardinality(InLog(q)')
    OBVIOUS
  <2>2. IsFiniteSet(InLog(q) \cup {buf[p]})
    BY <1>3, FS_AddElement
  <2>3. IsFiniteSet(InLog(q)') /\ InLog(q) \subseteq InLog(q)'
    BY <1>3, <1>4, <2>2
  <2>4. QED
    BY <2>3, FS_Subset, FS_CardinalityType
<1>9. PICK e : e = <<p, MAXOPBLOCKS - n>>
  OBVIOUS
<1>10. MAXOPBLOCKS - n \in 1..MAXOPBLOCKS /\ (MAXOPBLOCKS - n) + n <= MAXOPBLOCKS
       /\ ~((MAXOPBLOCKS - n) + (n + 1) <= MAXOPBLOCKS)
  BY <1>7, LogAssumption, SMT
<1>11. e[1] = p /\ e[2] = MAXOPBLOCKS - n /\ e \in Active \X (1..MAXOPBLOCKS)
  BY <1>1, <1>9, <1>10
<1>12. e \in Reserve
  BY <1>6, <1>10, <1>11 DEF Reserve
<1>13. e \notin Reserve'
  <2>1. ~(e[2] + Cardinality(InLog(e[1]))' <= MAXOPBLOCKS)
    BY <1>7, <1>10, <1>11
  <2>2. QED
    BY <2>1 DEF Reserve
<1>14. ASSUME NEW x \in Reserve' PROVE x \in Reserve \ {e}
  <2>1. x \in Active \X (1..MAXOPBLOCKS) /\ x[2] + Cardinality(InLog(x[1]))' <= MAXOPBLOCKS
    BY <1>14 DEF Reserve
  <2>2. x[1] \in Active /\ x[2] \in 1..MAXOPBLOCKS
    BY <2>1
  <2>3. x[2] + Cardinality(InLog(x[1])) <= MAXOPBLOCKS
    <3>1. /\ Cardinality(InLog(x[1])) \in Nat /\ Cardinality(InLog(x[1]))' \in Nat
          /\ Cardinality(InLog(x[1])) <= Cardinality(InLog(x[1]))'
      BY <1>3, <1>8, <2>2
    <3>2. QED
      BY <2>1, <2>2, <3>1, LogAssumption, SMT
  <2>4. QED
    BY <1>13, <1>14, <2>1, <2>3 DEF Reserve
<1>15. IsFiniteSet(Reserve) /\ Cardinality(Reserve) \in Nat
  BY ReserveBound
<1>16. IsFiniteSet(Reserve \ {e}) /\ Cardinality(Reserve \ {e}) = Cardinality(Reserve) - 1
  BY <1>12, <1>15, FS_RemoveElement
<1>17. Cardinality(Reserve') <= Cardinality(Reserve) - 1 /\ Cardinality(Reserve') \in Nat
  <2>1. PICK R : R = Reserve \ {e}
    OBVIOUS
  <2>2. Reserve' \subseteq R /\ IsFiniteSet(R) /\ Cardinality(R) = Cardinality(Reserve) - 1
    BY <1>14, <1>16, <2>1
  <2>3. QED
    BY <2>2, FS_Subset, FS_CardinalityType
<1>18. Len(lh) + Cardinality(Reserve) <= LOGSIZE
  BY <1>1 DEF SpaceInv
<1>19. (Len(lh) + Cardinality(Reserve) <= LOGSIZE)'
  BY <1>2, <1>15, <1>17, <1>18, LogAssumption, SMT
<1>20. QED
  BY <1>19 DEF SpaceInv

\* SpaceInv is preserved.
LEMMA SpaceStep ==
  ASSUME TypeOK, CountInv, PhaseInv, BufInv, WroteInv, SpaceInv, [Next]_vars,
         OpBlocks < MAXOPBLOCKS, CountInv', WroteInv'
  PROVE  SpaceInv'
<1>1. ASSUME NEW p \in Threads, begin_op(p) PROVE SpaceInv'
  <2>1. CASE pc' = [pc EXCEPT ![p] = "asleep"] /\ UNCHANGED <<lh, wrote>>
    <3>1. Active' \subseteq Active /\ \A q \in Active' : InLog(q)' = InLog(q)
      BY <2>1 DEF Active, InLog, BlocksOf, TypeOK, ThreadTypes
    <3>2. QED
      BY <2>1, <3>1, LessReserved
  <2>2. CASE lh' = lh /\ outstanding' = outstanding + 1
             /\ Len(lh) + (outstanding + 1) * MAXOPBLOCKS <= LOGSIZE
    <3>1. Cardinality(Reserve)' \in Nat /\ Cardinality(Reserve)' <= outstanding' * MAXOPBLOCKS
      <4>1. CountInv => Cardinality(Reserve) \in Nat /\ Cardinality(Reserve) <= outstanding * MAXOPBLOCKS
        BY ReserveBound
      <4>2. (CountInv => Cardinality(Reserve) \in Nat /\ Cardinality(Reserve) <= outstanding * MAXOPBLOCKS)'
        BY ReserveBound, PTL
      <4>3. QED
        BY <4>2
    <3>2. Len(lh) \in Nat /\ outstanding \in Nat
      BY SMT DEF TypeOK, LogTypes
    <3>3. (Len(lh) + Cardinality(Reserve) <= LOGSIZE)'
      BY <2>2, <3>1, <3>2, LogAssumption, SMT
    <3>4. QED
      BY <3>3 DEF SpaceInv
  <2>3. QED
    BY <1>1, <2>1, <2>2 DEF begin_op, Goto
<1>2. ASSUME NEW p \in Threads, NEW b \in Blocks, NEW v \in Vals, Modify(p, b, v) PROVE SpaceInv'
  <2>1. /\ pc[p] = "op" /\ pc' = [pc EXCEPT ![p] = "logw"] /\ lh' = lh
        /\ wrote' = [wrote EXCEPT ![p] = wrote[p] \cup {b}]
    BY <1>2 DEF Modify, At, Goto, log
  <2>2. Active' = Active /\ BlocksOf(lh)' = BlocksOf(lh)
    BY <2>1 DEF Active, BlocksOf, TypeOK, ThreadTypes
  <2>3. \A q \in Active' : wrote[q] \subseteq wrote'[q]
    BY <2>1 DEF Active, TypeOK, ThreadTypes
  <2>4. \A q \in Active' : InLog(q) \subseteq InLog(q)'
    BY <2>2, <2>3 DEF InLog
  <2>5. QED
    BY <2>1, <2>2, <2>4, LessReserved
<1>3. ASSUME NEW p \in Threads, log_write(p) PROVE SpaceInv'
  <2>1. pc[p] = "logw" /\ pc' = [pc EXCEPT ![p] = "op"] /\ wrote' = wrote
    BY <1>3 DEF log_write, At, Goto
  <2>2. Active' = Active /\ buf[p] \in Blocks
    BY <2>1 DEF Active, TypeOK, ThreadTypes, BufInv
  <2>3. CASE lh' = lh
    <3>1. \A q \in Active' : InLog(q) \subseteq InLog(q)'
      BY <2>1, <2>3 DEF InLog, BlocksOf
    <3>2. QED
      BY <2>2, <2>3, <3>1, LessReserved
  <2>4. CASE buf[p] \notin BlocksOf(lh) /\ lh' = Append(lh, buf[p])
    BY <2>1, <2>2, <2>4, LogWriteSpace
  <2>5. QED
    BY <1>3, <2>3, <2>4 DEF log_write
<1>4. ASSUME lh' = lh, wrote' = wrote, Active' \subseteq Active PROVE SpaceInv'
  <2>1. \A q \in Active' : InLog(q) \subseteq InLog(q)'
    BY <1>4 DEF InLog, BlocksOf
  <2>2. QED
    BY <1>4, <2>1, LessReserved
<1>5. ASSUME NEW p \in Threads,
             Start(p) \/ end_op(p) \/ write_log(p) \/ write_head(p) \/ Install(p) \/ Committed(p)
      PROVE  SpaceInv'
  <2>1. lh' = lh /\ wrote' = wrote
    BY <1>5 DEF Start, end_op, write_log, write_head, Install, Committed, log
  <2>2. Active' \subseteq Active
    BY <1>5 DEF Start, end_op, write_log, write_head, Install, Committed, At, Goto, WakeAnd, Active,
                TypeOK, ThreadTypes
  <2>3. QED
    BY <1>4, <2>1, <2>2
<1>6. ASSUME NEW p \in Threads, Clear(p) PROVE SpaceInv'
  <2>1. pc[p] = "clear" /\ pc' = [pc EXCEPT ![p] = "done"]
    BY <1>6 DEF Clear, At, Goto
  <2>2. Active = {}
    BY <2>1 DEF PhaseInv, Committing
  <2>3. Active' = {}
    BY <2>1, <2>2 DEF Active, TypeOK, ThreadTypes
  <2>4. QED
    BY <2>3 DEF SpaceInv
<1>7. CASE Crash
  BY <1>7 DEF SpaceInv, Active, Crash
<1>8. CASE read_head \/ RecoverClear
  <2>1. pc' = pc /\ \A p \in Threads : pc[p] = "idle"
    BY <1>8 DEF read_head, RecoverClear, thread, PhaseInv
  <2>2. QED
    BY <2>1 DEF SpaceInv, Active
<1>9. CASE RecoverInstall \/ (\E b \in Blocks : Evict(b)) \/ UNCHANGED vars
  <2>1. lh' = lh /\ wrote' = wrote /\ pc' = pc
    BY <1>9 DEF RecoverInstall, Evict, vars, log, thread
  <2>2. QED
    BY <1>4, <2>1 DEF Active
<1>10. QED
  BY Steps, <1>1, <1>2, <1>3, <1>5, <1>6, <1>7, <1>8, <1>9 DEF ThreadStep

\* begin_op() reserves enough: the log never overflows, log_write() and
\* end_op() never panic, for an operation that keeps two blocks below its
\* reservation when mkfs makes the log as large as param.h says (size =
\* LOGSIZE).  One of the two is the header's block, which begin_op() does not
\* count; the other is there because log_write() looks at the limit before it
\* looks for the block in the log.
THEOREM LogSpaceSuffices ==
  ASSUME OpBlocks < MAXOPBLOCKS, LOGSIZE + OpBlocks + 1 < size + MAXOPBLOCKS
  PROVE  Spec => []NoLogPanic
<1>1. Init => WroteInv /\ SpaceInv
  BY DEF Init, WroteInv, SpaceInv, Active
<1>2. IInv /\ IInv' /\ WroteInv /\ SpaceInv /\ [Next]_vars => WroteInv' /\ SpaceInv'
  BY WroteStep, SpaceStep DEF IInv
<1>3. IInv /\ WroteInv /\ SpaceInv => NoLogPanic
  <2>1. SUFFICES ASSUME IInv, WroteInv, SpaceInv, NEW p \in Threads, pc[p] \in {"op", "logw"}
                 PROVE  ~committing /\ ~LogPanics
    BY DEF NoLogPanic, At
  <2>2. p \in Active /\ ~committing
    BY <2>1 DEF Active, IInv, PhaseInv
  <2>3. outstanding \in Nat /\ outstanding # 0 /\ Len(lh) \in Nat
    BY <2>1, <2>2, ActiveCount, SMT DEF IInv, TypeOK, LogTypes
  <2>4. Len(lh) + Cardinality(Reserve) <= LOGSIZE
    BY <2>1, <2>2 DEF SpaceInv
  <2>5. Cardinality(InLog(p)) \in Nat /\ Cardinality(InLog(p)) <= OpBlocks
    BY <2>1, <2>2, InLogBound
  <2>6. PICK S : S = {p} \X (1..(MAXOPBLOCKS - OpBlocks))
    OBVIOUS
  <2>7. IsFiniteSet(S) /\ Cardinality(S) = MAXOPBLOCKS - OpBlocks
    <3>1. PICK T : T = 1..(MAXOPBLOCKS - OpBlocks)
      OBVIOUS
    <3>2. MAXOPBLOCKS - OpBlocks \in Nat /\ MAXOPBLOCKS - OpBlocks >= 1
      BY LogAssumption, SMT
    <3>3. IsFiniteSet(T) /\ Cardinality(T) = MAXOPBLOCKS - OpBlocks
      BY <3>1, <3>2, FS_Interval, SMT
    <3>4. IsFiniteSet({p}) /\ Cardinality({p}) = 1
      BY FS_Singleton
    <3>5. IsFiniteSet(S) /\ Cardinality(S) = Cardinality({p}) * Cardinality(T)
      BY <2>6, <3>1, <3>3, <3>4, FS_Product
    <3>6. QED
      BY <3>2, <3>3, <3>4, <3>5, SMT
  <2>8. ASSUME NEW x \in S PROVE x \in Reserve
    <3>1. x \in {p} \X (1..(MAXOPBLOCKS - OpBlocks))
      BY <2>6, <2>8
    <3>2. x[1] = p /\ x[2] \in 1..(MAXOPBLOCKS - OpBlocks) /\ x = <<x[1], x[2]>>
      BY <3>1, SMT
    <3>3. x[2] \in 1..MAXOPBLOCKS /\ x[2] + Cardinality(InLog(p)) <= MAXOPBLOCKS
      BY <2>5, <3>2, LogAssumption, SMT
    <3>4. x \in Active \X (1..MAXOPBLOCKS)
      BY <2>2, <3>2, <3>3
    <3>5. QED
      BY <3>2, <3>3, <3>4 DEF Reserve
  <2>9. IsFiniteSet(Reserve) /\ Cardinality(Reserve) \in Nat
    BY <2>1, ReserveBound DEF IInv
  <2>10. MAXOPBLOCKS - OpBlocks <= Cardinality(Reserve)
    <3>1. S \subseteq Reserve
      BY <2>8
    <3>2. Cardinality(S) <= Cardinality(Reserve)
      BY <2>9, <3>1, FS_Subset
    <3>3. QED
      BY <2>7, <3>2
  <2>11. ~LogPanics
    BY <2>3, <2>4, <2>9, <2>10, LogAssumption, SMT DEF LogPanics
  <2>12. QED
    BY <2>2, <2>11
<1>4. QED
  BY <1>1, <1>2, <1>3, LogInvariance, PTL DEF Spec

=============================================================================
