----------------------------- MODULE ProcProofs -----------------------------
(***************************************************************************)
(* Proofs about module Proc, for any number of slots and CPUs: the         *)
(* invariant of the processes, of the CPUs and of the locks that swtch()   *)
(* hands over, and the theorems that follow from it.                       *)
(***************************************************************************)
EXTENDS Proc, TLAPS

-----------------------------------------------------------------------------
(* The inductive invariant.                                                *)

\* p switched away with its own lock held, and releases it when it resumes.
HasOwnLock(p) == yielding[p] \/ pc[p] \in {"forkret", "slept"}

\* The labels at which wait_lock is held, and those of fork() past allocproc().
WaitLocked == {"reparent", "rwake", "pwake", "zombie", "wscan", "wkilled", "wsleep"}
Forking == {"fork_parent", "fork_run"}

\* The labels inside a loop over proc[].
Loops == {"alloc", "kill", "reparent", "rwake", "pwake", "wscan"}

\* Local variables: a loop starts at the first slot; the child slot of a fork()
\* in progress is USED and belongs to that fork().
ArgInv ==
  \A p \in Procs :
    /\ pc[p] \notin Loops => i[p] = 1
    /\ pc[p] = "rwake" => arg[p] \in Procs
    /\ pc[p] \in Forking =>
         /\ arg[p] \in Procs
         /\ state[arg[p]] = "USED"
         /\ \A r \in Procs \ {p} : pc[r] \in Forking => arg[r] # arg[p]

\* What the state of a process says about where its kernel thread is.
PcInv ==
  \A p \in Procs :
    /\ yielding[p] => pc[p] \in Interruptible \cup {"user"}
    /\ state[p] \in {"UNUSED", "ZOMBIE"} => pc[p] = "dead"
    /\ state[p] = "USED" => pc[p] = "forkret"
    /\ state[p] = "SLEEPING" => pc[p] = "slept"
    /\ state[p] = "RUNNABLE" => HasOwnLock(p)
    /\ state[p] = "RUNNING" => pc[p] # "dead"

\* c->proc, and the process on the stack of each CPU.
CpuInv ==
  /\ \A c \in CPUS :
       /\ stack[c] # Nil => cproc[c] = stack[c] /\ state[stack[c]] = "RUNNING"
       /\ stack[c] = Nil /\ cproc[c] # Nil =>
            state[cproc[c]] \in {"RUNNABLE", "SLEEPING", "ZOMBIE"}
       /\ cproc[c] # Nil => \A d \in CPUS \ {c} : cproc[d] # cproc[c]
  /\ \A p \in Procs : state[p] = "RUNNING" => \E c \in CPUS : stack[c] = p

\* Who holds p->lock from one step to the next: the CPU that switches to or
\* from p, until the other side of the switch releases it.
LockInv ==
  \A q \in Procs, c \in CPUS :
    plock[q] = c <=> cproc[c] = q /\ (stack[c] = Nil \/ HasOwnLock(q))

\* Who holds wait_lock.
WaitLockInv ==
  \A c \in CPUS :
    wait_lock = c <=> stack[c] # Nil /\ pc[stack[c]] \in WaitLocked

\* Pids in use are distinct and were given out by allocpid().
PidInv ==
  /\ nextpid >= 1
  /\ DistinctPids

CoreInv == TypeOK /\ ArgInv /\ PcInv /\ CpuInv /\ LockInv /\ WaitLockInv /\ PidInv

-----------------------------------------------------------------------------
(* Lemmas about the helpers of Proc.                                       *)

\* Zenon proves what a step does not give to another prover.
USE Zenon

\* 0 is no slot, and NoCpu is no CPU.
LEMMA SlotFacts ==
  Nil \notin Procs /\ initproc \in Procs /\ NoCpu \notin CPUS
  BY ProcAssumption, SMT DEF Procs, Nil, initproc

\* The loops over proc[] stay inside it.
LEMMA LoopFacts ==
  /\ Procs \subseteq Nat /\ Procs \subseteq Int /\ 1 \in Procs
  /\ \A k \in Procs : (IF k = NPROC THEN 1 ELSE k + 1) \in Procs
  /\ \A k \in Procs : k # NPROC => k + 1 \in Procs
  BY ProcAssumption, SMT DEF Procs

\* Slots are numbered 1..NPROC.
LEMMA OrderFacts ==
  /\ Procs \subseteq Int /\ NPROC \in Int
  /\ \A k \in Procs : 1 <= k /\ k <= NPROC
  BY ProcAssumption, SMT DEF Procs

\* wakeup() only makes sleepers RUNNABLE, and does so for the one it is for.
LEMMA WakeupEffect ==
  ASSUME state \in [Procs -> States],
         NEW p \in Procs, NEW q \in Procs, NEW ch, wakeup(p, q, ch)
  PROVE  /\ state' \in [Procs -> States]
         /\ \A r \in Procs : state'[r] = state[r]
                              \/ (state[r] = "SLEEPING" /\ state'[r] = "RUNNABLE")
         /\ q # p /\ chan[q] = ch => state'[q] # "SLEEPING"
<1>1. CASE q = p /\ UNCHANGED state
  BY <1>1
<1>2. CASE q # p /\ Free(q) /\ state[q] = "SLEEPING" /\ chan[q] = ch
           /\ state' = Set(state, q, "RUNNABLE")
  BY <1>2 DEF States, Set
<1>3. CASE q # p /\ Free(q) /\ ~(state[q] = "SLEEPING" /\ chan[q] = ch) /\ state' = state
  BY <1>3
<1> QED
  BY <1>1, <1>2, <1>3 DEF wakeup, Set

-----------------------------------------------------------------------------
(* Each conjunct of the invariant is preserved.                            *)

\* Types are preserved; the slot reparent() returns to is one, by ArgInv.
LEMMA TypeStep ==
  ASSUME TypeOK, ArgInv, [Next]_vars
  PROVE  TypeOK'
<1>1. ASSUME UNCHANGED <<state, chan, killed, pid, parent, nextpid, plock, wait_lock, cproc, stack, scan, pc, yielding, i, arg>>
      PROVE  TypeOK'
  BY <1>1 DEF TypeOK, FieldTypes, LockTypes, CpuTypes, ThreadTypes, States, Labels, ArgInv, Forking, Loops
<1>2. CASE UNCHANGED vars
  BY <1>1, <1>2 DEF vars, fields, locks, cpu, thread
<1> USE SlotFacts, LoopFacts DEF Set, Goto, Free, On, NextSlot, Return,
      Acquire, Release, sched, fields, locks, cpu, thread, TypeOK, FieldTypes,
      LockTypes, CpuTypes, ThreadTypes, States, Labels, ArgInv, Forking, Loops
<1>3. ASSUME NEW c \in CPUS, NEW p \in Procs, UserKilled(c, p) PROVE TypeOK'
  BY <1>3 DEF UserKilled
<1>4. ASSUME NEW c \in CPUS, NEW p \in Procs, SysCall(c, p) PROVE TypeOK'
  <2>1. PICK l \in {"alloc", "wait", "exit", "kill"} : pc' = Set(pc, p, l)
    BY <1>4 DEF SysCall
  <2>2. arg' \in [Procs -> Int]
    BY <1>4, ProcAssumption, SMT DEF SysCall
  <2> QED
    BY <1>4, <2>1, <2>2 DEF SysCall
<1>5. ASSUME NEW c \in CPUS, NEW p \in Procs, UserFault(c, p) PROVE TypeOK'
  BY <1>5 DEF UserFault
<1>6. ASSUME NEW c \in CPUS, NEW p \in Procs, UserTimer(c, p) PROVE TypeOK'
  BY <1>6 DEF UserTimer, yield
<1>7. ASSUME NEW c \in CPUS, NEW p \in Procs, KernelTimer(c, p) PROVE TypeOK'
  BY <1>7 DEF KernelTimer, yield
<1>8. ASSUME NEW c \in CPUS, NEW p \in Procs, YieldReturn(c, p) PROVE TypeOK'
  BY <1>8 DEF YieldReturn
<1>9. ASSUME NEW c \in CPUS, NEW p \in Procs, TrapRet(c, p) PROVE TypeOK'
  BY <1>9, SMT DEF TrapRet
<1>10. ASSUME NEW c \in CPUS, NEW p \in Procs, ForkRet(c, p) PROVE TypeOK'
  BY <1>10 DEF ForkRet
<1>11. ASSUME NEW c \in CPUS, NEW p \in Procs, AllocSkip(c, p) PROVE TypeOK'
  BY <1>11 DEF AllocSkip
<1>12. ASSUME NEW c \in CPUS, NEW p \in Procs, AllocFound(c, p) PROVE TypeOK'
  <2>1. pc' \in [Procs -> Labels]
    BY <1>12 DEF AllocFound
  <2>2. state' \in [Procs -> States] /\ pid' \in [Procs -> Nat] /\ nextpid' \in Nat
    BY <1>12, SMT DEF AllocFound
  <2>3. i' \in [Procs -> Procs] /\ arg' \in [Procs -> Int]
    BY <1>12 DEF AllocFound
  <2> QED
    BY <1>12, <2>1, <2>2, <2>3 DEF AllocFound
<1>13. ASSUME NEW c \in CPUS, NEW p \in Procs, AllocFail(c, p) PROVE TypeOK'
  BY <1>13, SMT DEF AllocFail, freeproc
<1>14. ASSUME NEW c \in CPUS, NEW p \in Procs, ForkParent(c, p) PROVE TypeOK'
  BY <1>14 DEF ForkParent
<1>15. ASSUME NEW c \in CPUS, NEW p \in Procs, ForkRun(c, p) PROVE TypeOK'
  BY <1>15 DEF ForkRun
<1>16. ASSUME NEW c \in CPUS, NEW p \in Procs, ExitLock(c, p) PROVE TypeOK'
  BY <1>16 DEF ExitLock
<1>17. ASSUME NEW c \in CPUS, NEW p \in Procs, ReparentSkip(c, p) PROVE TypeOK'
  BY <1>17 DEF ReparentSkip
<1>18. ASSUME NEW c \in CPUS, NEW p \in Procs, ReparentChild(c, p) PROVE TypeOK'
  BY <1>18 DEF ReparentChild
<1>19. ASSUME NEW c \in CPUS, NEW p \in Procs, ReparentWake(c, p) PROVE TypeOK'
  <2>1. state' \in [Procs -> States]
    BY <1>19, WakeupEffect DEF ReparentWake
  <2>2. i' \in [Procs -> Procs]
    <3>1. arg[p] \in Procs /\ (i[p] # NPROC => i[p] + 1 \in Procs)
      BY <1>19 DEF ReparentWake
    <3> QED
      BY <1>19, <3>1 DEF ReparentWake
  <2>3. pc' \in [Procs -> Labels]
    BY <1>19 DEF ReparentWake
  <2>4. arg' \in [Procs -> Int]
    BY <1>19, SMT DEF ReparentWake
  <2> QED
    BY <1>19, <2>1, <2>2, <2>3, <2>4 DEF ReparentWake
<1>20. ASSUME NEW c \in CPUS, NEW p \in Procs, ExitWakeParent(c, p) PROVE TypeOK'
  <2>1. state' \in [Procs -> States]
    BY <1>20, WakeupEffect DEF ExitWakeParent
  <2>2. i' \in [Procs -> Procs] /\ pc' \in [Procs -> Labels]
    BY <1>20 DEF ExitWakeParent
  <2> QED
    BY <1>20, <2>1, <2>2 DEF ExitWakeParent
<1>21. ASSUME NEW c \in CPUS, NEW p \in Procs, ExitZombie(c, p) PROVE TypeOK'
  BY <1>21 DEF ExitZombie
<1>22. ASSUME NEW c \in CPUS, NEW p \in Procs, WaitLock(c, p) PROVE TypeOK'
  BY <1>22 DEF WaitLock
<1>23. ASSUME NEW c \in CPUS, NEW p \in Procs, WaitSkip(c, p) PROVE TypeOK'
  BY <1>23 DEF WaitSkip
<1>24. ASSUME NEW c \in CPUS, NEW p \in Procs, WaitReap(c, p) PROVE TypeOK'
  BY <1>24 DEF WaitReap, freeproc
<1>25. ASSUME NEW c \in CPUS, NEW p \in Procs, WaitBadAddr(c, p) PROVE TypeOK'
  BY <1>25 DEF WaitBadAddr
<1>26. ASSUME NEW c \in CPUS, NEW p \in Procs, WaitCheck(c, p) PROVE TypeOK'
  BY <1>26, SMT DEF WaitCheck
<1>27. ASSUME NEW c \in CPUS, NEW p \in Procs, WaitSleep(c, p) PROVE TypeOK'
  BY <1>27 DEF WaitSleep
<1>28. ASSUME NEW c \in CPUS, NEW p \in Procs, WaitWoken(c, p) PROVE TypeOK'
  BY <1>28 DEF WaitWoken
<1>29. ASSUME NEW c \in CPUS, NEW p \in Procs, KillSkip(c, p) PROVE TypeOK'
  BY <1>29 DEF KillSkip
<1>30. ASSUME NEW c \in CPUS, NEW p \in Procs, KillFound(c, p) PROVE TypeOK'
  BY <1>30, SMT DEF KillFound
<1>31. ASSUME NEW c \in CPUS, SchedSkip(c) PROVE TypeOK'
  BY <1>31 DEF SchedSkip, ScanNext
<1>32. ASSUME NEW c \in CPUS, SchedRun(c) PROVE TypeOK'
  BY <1>32 DEF SchedRun
<1>33. ASSUME NEW c \in CPUS, SchedBack(c) PROVE TypeOK'
  BY <1>33 DEF SchedBack, ScanNext
<1> HIDE DEF Set, Goto, Free, On, NextSlot, Return, Acquire, Release, sched,
      fields, locks, cpu, thread, TypeOK, FieldTypes, LockTypes, CpuTypes,
      ThreadTypes, States, Labels, ArgInv, Forking, Loops
<1> QED
  BY <1>2, <1>3, <1>4, <1>5, <1>6, <1>7, <1>8, <1>9, <1>10, <1>11, <1>12,
     <1>13, <1>14, <1>15, <1>16, <1>17, <1>18, <1>19, <1>20, <1>21, <1>22,
     <1>23, <1>24, <1>25, <1>26, <1>27, <1>28, <1>29, <1>30, <1>31, <1>32,
     <1>33
  DEF Next, UserStep, TimerStep, KernelStep, SchedStep

\* The child slot of a fork() stays its own.
LEMMA ArgStep ==
  ASSUME TypeOK, ArgInv, PcInv, CpuInv, [Next]_vars
  PROVE  ArgInv'
<1>r. \A c \in CPUS, p \in Procs : stack[c] = p => cproc[c] = p /\ state[p] = "RUNNING"
  BY SlotFacts DEF CpuInv
<1>1. ASSUME UNCHANGED <<state, pc, i, arg>>
      PROVE  ArgInv'
  BY <1>1 DEF TypeOK, FieldTypes, CpuTypes, ThreadTypes, ArgInv, Forking, Loops
<1>2. CASE UNCHANGED vars
  BY <1>1, <1>2 DEF vars, fields, locks, cpu, thread
<1>3. ASSUME NEW c \in CPUS, NEW p \in Procs,
             YieldReturn(c, p)
      PROVE  ArgInv'
  BY <1>1, <1>3 DEF YieldReturn, Set, Goto, Free, On, NextSlot, Return,
         Acquire, Release, sched, fields, locks, cpu, thread
<1>4. ASSUME NEW c \in CPUS, SchedSkip(c) \/ SchedBack(c) PROVE ArgInv'
  BY <1>1, <1>4 DEF SchedSkip, ScanNext, SchedBack, Goto, Free, On, NextSlot, Return, Acquire, Release, sched, fields, locks, cpu, thread
<1> USE SlotFacts DEF Set, Goto, Free, On, NextSlot, Return, Acquire, Release,
      sched, fields, locks, cpu, thread, TypeOK, FieldTypes, CpuTypes,
      ThreadTypes, ArgInv, Forking, Loops
<1>5. ASSUME NEW c \in CPUS, NEW p \in Procs, UserKilled(c, p) PROVE ArgInv'
  BY <1>5, <1>r, SMT DEF UserKilled
<1>6. ASSUME NEW c \in CPUS, NEW p \in Procs, SysCall(c, p) PROVE ArgInv'
  BY <1>6, <1>r, SMT DEF SysCall
<1>7. ASSUME NEW c \in CPUS, NEW p \in Procs, UserFault(c, p) PROVE ArgInv'
  BY <1>7, <1>r, SMT DEF UserFault
<1>8. ASSUME NEW c \in CPUS, NEW p \in Procs, UserTimer(c, p) PROVE ArgInv'
  BY <1>8, <1>r, SMT DEF UserTimer, yield
<1>9. ASSUME NEW c \in CPUS, NEW p \in Procs, KernelTimer(c, p) PROVE ArgInv'
  BY <1>9, <1>r, SMT DEF KernelTimer, yield
<1>10. ASSUME NEW c \in CPUS, NEW p \in Procs, TrapRet(c, p) PROVE ArgInv'
  BY <1>10, <1>r, SMT DEF TrapRet
<1>11. ASSUME NEW c \in CPUS, NEW p \in Procs, ForkRet(c, p) PROVE ArgInv'
  BY <1>11, <1>r, SMT DEF ForkRet
<1>12. ASSUME NEW c \in CPUS, NEW p \in Procs, AllocSkip(c, p) PROVE ArgInv'
  BY <1>12, <1>r, SMT DEF AllocSkip
<1>13. ASSUME NEW c \in CPUS, NEW p \in Procs, AllocFound(c, p) PROVE ArgInv'
  BY <1>13, <1>r, SMT DEF AllocFound, PcInv
<1>14. ASSUME NEW c \in CPUS, NEW p \in Procs, AllocFail(c, p) PROVE ArgInv'
  BY <1>14, <1>r, SMT DEF AllocFail, freeproc
<1>15. ASSUME NEW c \in CPUS, NEW p \in Procs, ForkParent(c, p) PROVE ArgInv'
  BY <1>15, <1>r, SMT DEF ForkParent
<1>16. ASSUME NEW c \in CPUS, NEW p \in Procs, ForkRun(c, p) PROVE ArgInv'
  BY <1>16, <1>r, SMT DEF ForkRun
<1>17. ASSUME NEW c \in CPUS, NEW p \in Procs, ExitLock(c, p) PROVE ArgInv'
  BY <1>17, <1>r, SMT DEF ExitLock
<1>18. ASSUME NEW c \in CPUS, NEW p \in Procs, ReparentSkip(c, p) PROVE ArgInv'
  BY <1>18, <1>r, SMT DEF ReparentSkip
<1>19. ASSUME NEW c \in CPUS, NEW p \in Procs, ReparentChild(c, p) PROVE ArgInv'
  BY <1>19, <1>r, SMT DEF ReparentChild
<1>20. ASSUME NEW c \in CPUS, NEW p \in Procs, ReparentWake(c, p) PROVE ArgInv'
  <2>1. /\ state' \in [Procs -> States]
        /\ \A r \in Procs : state'[r] = state[r]
                             \/ (state[r] = "SLEEPING" /\ state'[r] = "RUNNABLE")
    BY <1>20, WakeupEffect DEF ReparentWake, TypeOK, FieldTypes, ThreadTypes
  <2> QED
    BY <1>20, <2>1, <1>r, SMT DEF ReparentWake
<1>21. ASSUME NEW c \in CPUS, NEW p \in Procs, ExitWakeParent(c, p) PROVE ArgInv'
  <2>1. /\ state' \in [Procs -> States]
        /\ \A r \in Procs : state'[r] = state[r]
                             \/ (state[r] = "SLEEPING" /\ state'[r] = "RUNNABLE")
    BY <1>21, WakeupEffect DEF ExitWakeParent, TypeOK, FieldTypes, ThreadTypes
  <2> QED
    BY <1>21, <2>1, <1>r, SMT DEF ExitWakeParent
<1>22. ASSUME NEW c \in CPUS, NEW p \in Procs, ExitZombie(c, p) PROVE ArgInv'
  BY <1>22, <1>r, SMT DEF ExitZombie
<1>23. ASSUME NEW c \in CPUS, NEW p \in Procs, WaitLock(c, p) PROVE ArgInv'
  BY <1>23, <1>r, SMT DEF WaitLock
<1>24. ASSUME NEW c \in CPUS, NEW p \in Procs, WaitSkip(c, p) PROVE ArgInv'
  BY <1>24, <1>r, SMT DEF WaitSkip
<1>25. ASSUME NEW c \in CPUS, NEW p \in Procs, WaitReap(c, p) PROVE ArgInv'
  BY <1>25, <1>r, SMT DEF WaitReap, freeproc
<1>26. ASSUME NEW c \in CPUS, NEW p \in Procs, WaitBadAddr(c, p) PROVE ArgInv'
  BY <1>26, <1>r, SMT DEF WaitBadAddr
<1>27. ASSUME NEW c \in CPUS, NEW p \in Procs, WaitCheck(c, p) PROVE ArgInv'
  BY <1>27, <1>r, SMT DEF WaitCheck
<1>28. ASSUME NEW c \in CPUS, NEW p \in Procs, WaitSleep(c, p) PROVE ArgInv'
  BY <1>28, <1>r, SMT DEF WaitSleep
<1>29. ASSUME NEW c \in CPUS, NEW p \in Procs, WaitWoken(c, p) PROVE ArgInv'
  BY <1>29, <1>r, SMT DEF WaitWoken
<1>30. ASSUME NEW c \in CPUS, NEW p \in Procs, KillSkip(c, p) PROVE ArgInv'
  BY <1>30, <1>r, SMT DEF KillSkip
<1>31. ASSUME NEW c \in CPUS, NEW p \in Procs, KillFound(c, p) PROVE ArgInv'
  BY <1>31, <1>r, SMT DEF KillFound
<1>32. ASSUME NEW c \in CPUS, SchedRun(c) PROVE ArgInv'
  BY <1>32, <1>r, SMT DEF SchedRun
<1> HIDE DEF Set, Goto, Free, On, NextSlot, Return, Acquire, Release, sched,
      fields, locks, cpu, thread, TypeOK, FieldTypes, CpuTypes, ThreadTypes,
      ArgInv, Forking, Loops
<1> QED
  BY <1>2, <1>3, <1>4, <1>5, <1>6, <1>7, <1>8, <1>9, <1>10, <1>11, <1>12,
     <1>13, <1>14, <1>15, <1>16, <1>17, <1>18, <1>19, <1>20, <1>21, <1>22,
     <1>23, <1>24, <1>25, <1>26, <1>27, <1>28, <1>29, <1>30, <1>31, <1>32
  DEF Next, UserStep, TimerStep, KernelStep, SchedStep

\* State and label of a process stay in agreement.
LEMMA PcStep ==
  ASSUME TypeOK, ArgInv, PcInv, CpuInv, [Next]_vars
  PROVE  PcInv'
<1>r. \A c \in CPUS, p \in Procs : stack[c] = p => cproc[c] = p /\ state[p] = "RUNNING"
  BY SlotFacts DEF CpuInv
<1>1. ASSUME UNCHANGED <<state, pc, yielding>>
      PROVE  PcInv'
  BY <1>1 DEF TypeOK, FieldTypes, CpuTypes, ThreadTypes, ArgInv, PcInv, Forking, Interruptible, HasOwnLock
<1>2. CASE UNCHANGED vars
  BY <1>1, <1>2 DEF vars, fields, locks, cpu, thread
<1>3. ASSUME NEW c \in CPUS, SchedSkip(c) \/ SchedBack(c) PROVE PcInv'
  BY <1>1, <1>3 DEF SchedSkip, ScanNext, SchedBack, Goto, Free, On, NextSlot, Return, Acquire, Release, sched, fields, locks, cpu, thread
<1> USE SlotFacts DEF Set, Goto, Free, On, NextSlot, Return, Acquire, Release,
      sched, fields, locks, cpu, thread, TypeOK, FieldTypes, CpuTypes,
      ThreadTypes, ArgInv, PcInv, Forking, Interruptible, HasOwnLock
<1>4. ASSUME NEW c \in CPUS, NEW p \in Procs, UserKilled(c, p) PROVE PcInv'
  BY <1>4, <1>r, SMT DEF UserKilled
<1>5. ASSUME NEW c \in CPUS, NEW p \in Procs, SysCall(c, p) PROVE PcInv'
  BY <1>5, <1>r, SMT DEF SysCall
<1>6. ASSUME NEW c \in CPUS, NEW p \in Procs, UserFault(c, p) PROVE PcInv'
  BY <1>6, <1>r, SMT DEF UserFault
<1>7. ASSUME NEW c \in CPUS, NEW p \in Procs, UserTimer(c, p) PROVE PcInv'
  BY <1>7, <1>r, SMT DEF UserTimer, yield
<1>8. ASSUME NEW c \in CPUS, NEW p \in Procs, KernelTimer(c, p) PROVE PcInv'
  BY <1>8, <1>r, SMT DEF KernelTimer, yield
<1>9. ASSUME NEW c \in CPUS, NEW p \in Procs, YieldReturn(c, p) PROVE PcInv'
  BY <1>9, <1>r, SMT DEF YieldReturn
<1>10. ASSUME NEW c \in CPUS, NEW p \in Procs, TrapRet(c, p) PROVE PcInv'
  BY <1>10, <1>r, SMT DEF TrapRet
<1>11. ASSUME NEW c \in CPUS, NEW p \in Procs, ForkRet(c, p) PROVE PcInv'
  BY <1>11, <1>r, SMT DEF ForkRet
<1>12. ASSUME NEW c \in CPUS, NEW p \in Procs, AllocSkip(c, p) PROVE PcInv'
  BY <1>12, <1>r, SMT DEF AllocSkip
<1>13. ASSUME NEW c \in CPUS, NEW p \in Procs, AllocFound(c, p) PROVE PcInv'
  BY <1>13, <1>r, SMT DEF AllocFound
<1>14. ASSUME NEW c \in CPUS, NEW p \in Procs, AllocFail(c, p) PROVE PcInv'
  BY <1>14, <1>r, SMT DEF AllocFail, freeproc
<1>15. ASSUME NEW c \in CPUS, NEW p \in Procs, ForkParent(c, p) PROVE PcInv'
  BY <1>15, <1>r, SMT DEF ForkParent
<1>16. ASSUME NEW c \in CPUS, NEW p \in Procs, ForkRun(c, p) PROVE PcInv'
  BY <1>16, <1>r, SMT DEF ForkRun
<1>17. ASSUME NEW c \in CPUS, NEW p \in Procs, ExitLock(c, p) PROVE PcInv'
  BY <1>17, <1>r, SMT DEF ExitLock
<1>18. ASSUME NEW c \in CPUS, NEW p \in Procs, ReparentSkip(c, p) PROVE PcInv'
  BY <1>18, <1>r, SMT DEF ReparentSkip
<1>19. ASSUME NEW c \in CPUS, NEW p \in Procs, ReparentChild(c, p) PROVE PcInv'
  BY <1>19, <1>r, SMT DEF ReparentChild
<1>20. ASSUME NEW c \in CPUS, NEW p \in Procs, ReparentWake(c, p) PROVE PcInv'
  <2>1. /\ state' \in [Procs -> States]
        /\ \A r \in Procs : state'[r] = state[r]
                             \/ (state[r] = "SLEEPING" /\ state'[r] = "RUNNABLE")
    BY <1>20, WakeupEffect DEF ReparentWake, TypeOK, FieldTypes, ThreadTypes
  <2> QED
    BY <1>20, <2>1, <1>r, SMT DEF ReparentWake
<1>21. ASSUME NEW c \in CPUS, NEW p \in Procs, ExitWakeParent(c, p) PROVE PcInv'
  <2>1. /\ state' \in [Procs -> States]
        /\ \A r \in Procs : state'[r] = state[r]
                             \/ (state[r] = "SLEEPING" /\ state'[r] = "RUNNABLE")
    BY <1>21, WakeupEffect DEF ExitWakeParent, TypeOK, FieldTypes, ThreadTypes
  <2> QED
    BY <1>21, <2>1, <1>r, SMT DEF ExitWakeParent
<1>22. ASSUME NEW c \in CPUS, NEW p \in Procs, ExitZombie(c, p) PROVE PcInv'
  BY <1>22, <1>r, SMT DEF ExitZombie
<1>23. ASSUME NEW c \in CPUS, NEW p \in Procs, WaitLock(c, p) PROVE PcInv'
  BY <1>23, <1>r, SMT DEF WaitLock
<1>24. ASSUME NEW c \in CPUS, NEW p \in Procs, WaitSkip(c, p) PROVE PcInv'
  BY <1>24, <1>r, SMT DEF WaitSkip
<1>25. ASSUME NEW c \in CPUS, NEW p \in Procs, WaitReap(c, p) PROVE PcInv'
  BY <1>25, <1>r, SMT DEF WaitReap, freeproc
<1>26. ASSUME NEW c \in CPUS, NEW p \in Procs, WaitBadAddr(c, p) PROVE PcInv'
  BY <1>26, <1>r, SMT DEF WaitBadAddr
<1>27. ASSUME NEW c \in CPUS, NEW p \in Procs, WaitCheck(c, p) PROVE PcInv'
  BY <1>27, <1>r, SMT DEF WaitCheck
<1>28. ASSUME NEW c \in CPUS, NEW p \in Procs, WaitSleep(c, p) PROVE PcInv'
  BY <1>28, <1>r, SMT DEF WaitSleep
<1>29. ASSUME NEW c \in CPUS, NEW p \in Procs, WaitWoken(c, p) PROVE PcInv'
  BY <1>29, <1>r, SMT DEF WaitWoken
<1>30. ASSUME NEW c \in CPUS, NEW p \in Procs, KillSkip(c, p) PROVE PcInv'
  BY <1>30, <1>r, SMT DEF KillSkip
<1>31. ASSUME NEW c \in CPUS, NEW p \in Procs, KillFound(c, p) PROVE PcInv'
  BY <1>31, <1>r, SMT DEF KillFound
<1>32. ASSUME NEW c \in CPUS, SchedRun(c) PROVE PcInv'
  BY <1>32, <1>r, SMT DEF SchedRun
<1> HIDE DEF Set, Goto, Free, On, NextSlot, Return, Acquire, Release, sched,
      fields, locks, cpu, thread, TypeOK, FieldTypes, CpuTypes, ThreadTypes,
      ArgInv, PcInv, Forking, Interruptible, HasOwnLock
<1> QED
  BY <1>2, <1>3, <1>4, <1>5, <1>6, <1>7, <1>8, <1>9, <1>10, <1>11, <1>12,
     <1>13, <1>14, <1>15, <1>16, <1>17, <1>18, <1>19, <1>20, <1>21, <1>22,
     <1>23, <1>24, <1>25, <1>26, <1>27, <1>28, <1>29, <1>30, <1>31, <1>32
  DEF Next, UserStep, TimerStep, KernelStep, SchedStep

-----------------------------------------------------------------------------
(* The CPUs and the locks that swtch() hands over.                         *)

\* A process that is not running and whose lock is free is on no CPU.
LEMMA FreeNotOnCpu ==
  ASSUME CpuInv, LockInv, NEW q \in Procs, Free(q), state[q] # "RUNNING"
  PROVE  \A d \in CPUS : cproc[d] # q /\ stack[d] # q
<1> SUFFICES ASSUME NEW d \in CPUS PROVE cproc[d] # q /\ stack[d] # q
  OBVIOUS
<1>1. stack[d] # q
  BY SlotFacts, SMT DEF CpuInv
<1>2. cproc[d] = q => stack[d] = Nil
  BY <1>1, SlotFacts DEF CpuInv
<1>3. cproc[d] = q /\ stack[d] = Nil => plock[q] = d
  BY DEF LockInv
<1> QED
  BY <1>1, <1>2, <1>3, SlotFacts DEF Free

\* wait_lock excludes: one process at a time is at a label of WaitLocked.
LEMMA OneWaiter ==
  ASSUME TypeOK, PcInv, CpuInv, WaitLockInv,
         NEW p \in Procs, pc[p] \in WaitLocked, NEW q \in Procs, pc[q] \in WaitLocked
  PROVE  p = q
<1>1. \A r \in Procs : pc[r] \in WaitLocked => \E c \in CPUS : stack[c] = r /\ wait_lock = c
  <2> SUFFICES ASSUME NEW r \in Procs, pc[r] \in WaitLocked
               PROVE  \E c \in CPUS : stack[c] = r /\ wait_lock = c
    OBVIOUS
  <2>1. state[r] = "RUNNING"
    BY DEF TypeOK, FieldTypes, States, PcInv, HasOwnLock, WaitLocked, Interruptible
  <2>2. PICK c \in CPUS : stack[c] = r
    BY <2>1 DEF CpuInv
  <2> QED
    BY <2>2, SlotFacts DEF WaitLockInv
<1> QED
  BY <1>1

-----------------------------------------------------------------------------
(* Each conjunct of the invariant is preserved.                            *)

\* A CPU only takes a process no other CPU has.
LEMMA CpuStep ==
  ASSUME TypeOK, ArgInv, PcInv, CpuInv, LockInv, [Next]_vars
  PROVE  CpuInv'
<1>a. \A q \in Procs : plock[q] = NoCpu /\ state[q] # "RUNNING" =>
             \A d \in CPUS : cproc[d] # q /\ stack[d] # q
  BY FreeNotOnCpu DEF Free
<1>1. ASSUME UNCHANGED <<state, cproc, stack>>
      PROVE  CpuInv'
  BY <1>1 DEF TypeOK, FieldTypes, CpuTypes, ThreadTypes, ArgInv, CpuInv, Forking
<1>2. CASE UNCHANGED vars
  BY <1>1, <1>2 DEF vars, fields, locks, cpu, thread
<1>3. ASSUME NEW c \in CPUS, NEW p \in Procs,
             UserKilled(c, p) \/ SysCall(c, p) \/ UserFault(c, p) \/ YieldReturn(c, p) \/
             TrapRet(c, p) \/ ForkRet(c, p) \/ AllocSkip(c, p) \/
             ForkParent(c, p) \/ ExitLock(c, p) \/ ReparentSkip(c, p) \/
             ReparentChild(c, p) \/ WaitLock(c, p) \/ WaitSkip(c, p) \/
             WaitBadAddr(c, p) \/ WaitCheck(c, p) \/ WaitWoken(c, p) \/
             KillSkip(c, p)
      PROVE  CpuInv'
  BY <1>1, <1>3 DEF UserKilled, SysCall, UserFault, YieldReturn, TrapRet,
         ForkRet, AllocSkip, ForkParent, ExitLock, ReparentSkip,
         ReparentChild, WaitLock, WaitSkip, WaitBadAddr, WaitCheck, WaitWoken,
         KillSkip, Set, Goto, Free, On, NextSlot, Return, Acquire, Release,
         sched, fields, locks, cpu, thread
<1>4. ASSUME NEW c \in CPUS, SchedSkip(c) PROVE CpuInv'
  BY <1>1, <1>4 DEF SchedSkip, ScanNext, Goto, Free, On, NextSlot, Return, Acquire, Release, sched, fields, locks, cpu, thread
<1> USE SlotFacts DEF Set, Goto, Free, On, NextSlot, Return, Acquire, Release,
      sched, fields, locks, cpu, thread, TypeOK, FieldTypes, CpuTypes,
      ThreadTypes, ArgInv, CpuInv, Forking
<1>5. ASSUME NEW c \in CPUS, NEW p \in Procs, UserTimer(c, p) PROVE CpuInv'
  BY <1>5, SMT DEF UserTimer, yield
<1>6. ASSUME NEW c \in CPUS, NEW p \in Procs, KernelTimer(c, p) PROVE CpuInv'
  BY <1>6, SMT DEF KernelTimer, yield
<1>7. ASSUME NEW c \in CPUS, NEW p \in Procs, AllocFound(c, p) PROVE CpuInv'
  BY <1>7, SMT DEF AllocFound
<1>8. ASSUME NEW c \in CPUS, NEW p \in Procs, AllocFail(c, p) PROVE CpuInv'
  <2>1. /\ state[i[p]] = "UNUSED" /\ UNCHANGED <<cproc, stack>>
        /\ state' = [state EXCEPT ![i[p]] = "UNUSED"]
    BY <1>8 DEF AllocFail, freeproc
  <2> QED
    BY <1>8, <2>1, SMT DEF AllocFail
<1>9. ASSUME NEW c \in CPUS, NEW p \in Procs, ForkRun(c, p) PROVE CpuInv'
  BY <1>9, SMT DEF ForkRun
<1>10. ASSUME NEW c \in CPUS, NEW p \in Procs, ReparentWake(c, p) PROVE CpuInv'
  <2>1. \A r \in Procs : state'[r] = state[r]
                         \/ (state[r] = "SLEEPING" /\ state'[r] = "RUNNABLE")
    BY <1>10, WakeupEffect DEF ReparentWake
  <2>2. \A r \in Procs :
          /\ state'[r] = "RUNNING" <=> state[r] = "RUNNING"
          /\ state[r] \in {"RUNNABLE", "SLEEPING", "ZOMBIE"} =>
               state'[r] \in {"RUNNABLE", "SLEEPING", "ZOMBIE"}
    BY <2>1
  <2>3. UNCHANGED <<cproc, stack>>
    BY <1>10 DEF ReparentWake
  <2> QED
    BY <2>2, <2>3, SMT
<1>11. ASSUME NEW c \in CPUS, NEW p \in Procs, ExitWakeParent(c, p) PROVE CpuInv'
  <2>1. \A r \in Procs : state'[r] = state[r]
                         \/ (state[r] = "SLEEPING" /\ state'[r] = "RUNNABLE")
    BY <1>11, WakeupEffect DEF ExitWakeParent
  <2>2. \A r \in Procs :
          /\ state'[r] = "RUNNING" <=> state[r] = "RUNNING"
          /\ state[r] \in {"RUNNABLE", "SLEEPING", "ZOMBIE"} =>
               state'[r] \in {"RUNNABLE", "SLEEPING", "ZOMBIE"}
    BY <2>1
  <2>3. UNCHANGED <<cproc, stack>>
    BY <1>11 DEF ExitWakeParent
  <2> QED
    BY <2>2, <2>3, SMT
<1>12. ASSUME NEW c \in CPUS, NEW p \in Procs, ExitZombie(c, p) PROVE CpuInv'
  BY <1>12, SMT DEF ExitZombie
<1>13. ASSUME NEW c \in CPUS, NEW p \in Procs, WaitReap(c, p) PROVE CpuInv'
  <2>1. \A d \in CPUS : cproc[d] # i[p]
    BY <1>13, <1>a, SMT DEF WaitReap
  <2>2. /\ state[i[p]] = "ZOMBIE" /\ UNCHANGED <<cproc, stack>>
        /\ state' = [state EXCEPT ![i[p]] = "UNUSED"]
    BY <1>13 DEF WaitReap, freeproc
  <2> QED
    BY <2>1, <2>2, SMT
<1>14. ASSUME NEW c \in CPUS, NEW p \in Procs, WaitSleep(c, p) PROVE CpuInv'
  BY <1>14, SMT DEF WaitSleep
<1>15. ASSUME NEW c \in CPUS, NEW p \in Procs, KillFound(c, p) PROVE CpuInv'
  BY <1>15, SMT DEF KillFound
<1>16. ASSUME NEW c \in CPUS, SchedRun(c) PROVE CpuInv'
  <2>1. \A d \in CPUS : cproc[d] # scan[c] /\ stack[d] # scan[c]
    BY <1>16, <1>a DEF SchedRun
  <2>2. \A d \in CPUS \ {c} : cproc'[d] = cproc[d] /\ stack'[d] = stack[d]
    BY <1>16, SMT DEF SchedRun
  <2>3. cproc'[c] = scan[c] /\ stack'[c] = scan[c] /\ state'[scan[c]] = "RUNNING"
    BY <1>16 DEF SchedRun
  <2>4. \A q \in Procs \ {scan[c]} : state'[q] = state[q]
    BY <1>16 DEF SchedRun
  <2>5. ASSUME NEW q \in Procs, state'[q] = "RUNNING" PROVE \E d \in CPUS : stack'[d] = q
    <3>1. CASE q = scan[c]
      BY <2>3, <3>1
    <3>2. CASE q # scan[c]
      <4>1. PICK d \in CPUS : stack[d] = q
        BY <2>4, <2>5, <3>2
      <4> QED
        BY <1>16, <2>2, <4>1, SMT DEF SchedRun
    <3> QED
      BY <3>1, <3>2
  <2>6. ASSUME NEW d \in CPUS
        PROVE  /\ stack'[d] # Nil => cproc'[d] = stack'[d] /\ state'[stack'[d]] = "RUNNING"
               /\ stack'[d] = Nil /\ cproc'[d] # Nil =>
                    state'[cproc'[d]] \in {"RUNNABLE", "SLEEPING", "ZOMBIE"}
               /\ cproc'[d] # Nil => \A e \in CPUS \ {d} : cproc'[e] # cproc'[d]
    BY <2>1, <2>2, <2>3, <2>4, SMT
  <2> QED
    BY <2>5, <2>6
<1>17. ASSUME NEW c \in CPUS, SchedBack(c) PROVE CpuInv'
  BY <1>17, SMT DEF SchedBack, ScanNext
<1> HIDE DEF Set, Goto, Free, On, NextSlot, Return, Acquire, Release, sched,
      fields, locks, cpu, thread, TypeOK, FieldTypes, CpuTypes, ThreadTypes,
      ArgInv, CpuInv, Forking
<1> QED
  BY <1>2, <1>3, <1>4, <1>5, <1>6, <1>7, <1>8, <1>9, <1>10, <1>11, <1>12,
     <1>13, <1>14, <1>15, <1>16, <1>17, SMT
  DEF Next, UserStep, TimerStep, KernelStep, SchedStep

\* p->lock is handed over by swtch() and released on the other side.
LEMMA LockStep ==
  ASSUME TypeOK, PcInv, CpuInv, LockInv, [Next]_vars
  PROVE  LockInv'
<1>a. \A q \in Procs : plock[q] = NoCpu /\ state[q] # "RUNNING" =>
             \A d \in CPUS : cproc[d] # q /\ stack[d] # q
  BY FreeNotOnCpu DEF Free
<1>1. ASSUME UNCHANGED <<plock, cproc, stack, pc, yielding>>
      PROVE  LockInv'
  BY <1>1, SMT DEF TypeOK, LockTypes, CpuTypes, ThreadTypes, CpuInv, LockInv, HasOwnLock
<1>2. CASE UNCHANGED vars
  BY <1>1, <1>2 DEF vars, fields, locks, cpu, thread
<1>3. ASSUME NEW c \in CPUS, SchedSkip(c) PROVE LockInv'
  BY <1>1, <1>3 DEF SchedSkip, ScanNext, Goto, Free, On, NextSlot, Return, Acquire, Release, sched, fields, locks, cpu, thread
<1> USE SlotFacts DEF Set, Goto, Free, On, NextSlot, Return, Acquire, Release,
      sched, fields, locks, cpu, thread, TypeOK, LockTypes, CpuTypes,
      ThreadTypes, CpuInv, LockInv, HasOwnLock
<1>4. ASSUME NEW c \in CPUS, NEW p \in Procs, UserKilled(c, p) PROVE LockInv'
  BY <1>4, SMT DEF UserKilled
<1>5. ASSUME NEW c \in CPUS, NEW p \in Procs, SysCall(c, p) PROVE LockInv'
  BY <1>5, SMT DEF SysCall
<1>6. ASSUME NEW c \in CPUS, NEW p \in Procs, UserFault(c, p) PROVE LockInv'
  BY <1>6, SMT DEF UserFault
<1>7. ASSUME NEW c \in CPUS, NEW p \in Procs, UserTimer(c, p) PROVE LockInv'
  BY <1>7, SMT DEF UserTimer, yield, FieldTypes
<1>8. ASSUME NEW c \in CPUS, NEW p \in Procs, KernelTimer(c, p) PROVE LockInv'
  BY <1>8, SMT DEF KernelTimer, yield
<1>9. ASSUME NEW c \in CPUS, NEW p \in Procs, YieldReturn(c, p) PROVE LockInv'
  <2>1. /\ stack[c] = p /\ cproc[c] = p /\ UNCHANGED <<cproc, stack, pc>>
        /\ \A d \in CPUS \ {c} : cproc[d] # p
    BY <1>9, SMT DEF YieldReturn
  <2>2. \A q \in Procs \ {p} : plock'[q] = plock[q] /\ HasOwnLock(q)' = HasOwnLock(q)
    BY <1>9 DEF YieldReturn
  <2>3. plock'[p] = NoCpu /\ ~yielding'[p] /\ pc[p] \notin {"forkret", "slept"}
    BY <1>9 DEF YieldReturn, PcInv, Interruptible
  <2> QED
    BY <2>1, <2>2, <2>3, SMT
<1>10. ASSUME NEW c \in CPUS, NEW p \in Procs, TrapRet(c, p) PROVE LockInv'
  BY <1>10, SMT DEF TrapRet
<1>11. ASSUME NEW c \in CPUS, NEW p \in Procs, ForkRet(c, p) PROVE LockInv'
  BY <1>11, SMT DEF ForkRet
<1>12. ASSUME NEW c \in CPUS, NEW p \in Procs, AllocSkip(c, p) PROVE LockInv'
  BY <1>12, SMT DEF AllocSkip
<1>13. ASSUME NEW c \in CPUS, NEW p \in Procs, AllocFound(c, p) PROVE LockInv'
  BY <1>13, <1>a, SMT DEF AllocFound
<1>14. ASSUME NEW c \in CPUS, NEW p \in Procs, AllocFail(c, p) PROVE LockInv'
  BY <1>14, SMT DEF AllocFail, freeproc
<1>15. ASSUME NEW c \in CPUS, NEW p \in Procs, ForkParent(c, p) PROVE LockInv'
  BY <1>15, SMT DEF ForkParent
<1>16. ASSUME NEW c \in CPUS, NEW p \in Procs, ForkRun(c, p) PROVE LockInv'
  BY <1>16, SMT DEF ForkRun
<1>17. ASSUME NEW c \in CPUS, NEW p \in Procs, ExitLock(c, p) PROVE LockInv'
  BY <1>17, SMT DEF ExitLock
<1>18. ASSUME NEW c \in CPUS, NEW p \in Procs, ReparentSkip(c, p) PROVE LockInv'
  BY <1>18, SMT DEF ReparentSkip
<1>19. ASSUME NEW c \in CPUS, NEW p \in Procs, ReparentChild(c, p) PROVE LockInv'
  BY <1>19, SMT DEF ReparentChild
<1>20. ASSUME NEW c \in CPUS, NEW p \in Procs, ReparentWake(c, p) PROVE LockInv'
  BY <1>20, SMT DEF ReparentWake
<1>21. ASSUME NEW c \in CPUS, NEW p \in Procs, ExitWakeParent(c, p) PROVE LockInv'
  BY <1>21, SMT DEF ExitWakeParent
<1>22. ASSUME NEW c \in CPUS, NEW p \in Procs, ExitZombie(c, p) PROVE LockInv'
  BY <1>22, SMT DEF ExitZombie
<1>23. ASSUME NEW c \in CPUS, NEW p \in Procs, WaitLock(c, p) PROVE LockInv'
  BY <1>23, SMT DEF WaitLock
<1>24. ASSUME NEW c \in CPUS, NEW p \in Procs, WaitSkip(c, p) PROVE LockInv'
  BY <1>24, SMT DEF WaitSkip
<1>25. ASSUME NEW c \in CPUS, NEW p \in Procs, WaitReap(c, p) PROVE LockInv'
  BY <1>25, SMT DEF WaitReap, freeproc
<1>26. ASSUME NEW c \in CPUS, NEW p \in Procs, WaitBadAddr(c, p) PROVE LockInv'
  BY <1>26, SMT DEF WaitBadAddr
<1>27. ASSUME NEW c \in CPUS, NEW p \in Procs, WaitCheck(c, p) PROVE LockInv'
  BY <1>27, SMT DEF WaitCheck
<1>28. ASSUME NEW c \in CPUS, NEW p \in Procs, WaitSleep(c, p) PROVE LockInv'
  BY <1>28, SMT DEF WaitSleep
<1>29. ASSUME NEW c \in CPUS, NEW p \in Procs, WaitWoken(c, p) PROVE LockInv'
  BY <1>29, SMT DEF WaitWoken
<1>30. ASSUME NEW c \in CPUS, NEW p \in Procs, KillSkip(c, p) PROVE LockInv'
  BY <1>30, SMT DEF KillSkip
<1>31. ASSUME NEW c \in CPUS, NEW p \in Procs, KillFound(c, p) PROVE LockInv'
  BY <1>31, SMT DEF KillFound
<1>32. ASSUME NEW c \in CPUS, SchedRun(c) PROVE LockInv'
  BY <1>32, <1>a, SMT DEF SchedRun, PcInv
<1>33. ASSUME NEW c \in CPUS, SchedBack(c) PROVE LockInv'
  BY <1>33, SMT DEF SchedBack, ScanNext
<1> HIDE DEF Set, Goto, Free, On, NextSlot, Return, Acquire, Release, sched,
      fields, locks, cpu, thread, TypeOK, LockTypes, CpuTypes, ThreadTypes,
      CpuInv, LockInv, HasOwnLock
<1> QED
  BY <1>2, <1>3, <1>4, <1>5, <1>6, <1>7, <1>8, <1>9, <1>10, <1>11, <1>12,
     <1>13, <1>14, <1>15, <1>16, <1>17, <1>18, <1>19, <1>20, <1>21, <1>22,
     <1>23, <1>24, <1>25, <1>26, <1>27, <1>28, <1>29, <1>30, <1>31, <1>32,
     <1>33
  DEF Next, UserStep, TimerStep, KernelStep, SchedStep

\* wait_lock is held exactly at the labels of WaitLocked.
LEMMA WaitLockStep ==
  ASSUME TypeOK, ArgInv, PcInv, CpuInv, LockInv, WaitLockInv, [Next]_vars
  PROVE  WaitLockInv'
<1>a. \A q \in Procs : plock[q] = NoCpu /\ state[q] # "RUNNING" =>
             \A d \in CPUS : cproc[d] # q /\ stack[d] # q
  BY FreeNotOnCpu DEF Free
<1>1. ASSUME UNCHANGED <<wait_lock, stack, pc>>
      PROVE  WaitLockInv'
  BY <1>1 DEF TypeOK, LockTypes, CpuTypes, ThreadTypes, CpuInv, WaitLockInv, WaitLocked
<1>2. CASE UNCHANGED vars
  BY <1>1, <1>2 DEF vars, fields, locks, cpu, thread
<1>3. ASSUME NEW c \in CPUS, NEW p \in Procs,
             YieldReturn(c, p)
      PROVE  WaitLockInv'
  BY <1>1, <1>3 DEF YieldReturn, Set, Goto, Free, On, NextSlot, Return,
         Acquire, Release, sched, fields, locks, cpu, thread
<1>4. ASSUME NEW c \in CPUS, SchedSkip(c) \/ SchedBack(c) PROVE WaitLockInv'
  BY <1>1, <1>4 DEF SchedSkip, ScanNext, SchedBack, Goto, Free, On, NextSlot, Return, Acquire, Release, sched, fields, locks, cpu, thread
<1> USE SlotFacts DEF Set, Goto, Free, On, NextSlot, Return, Acquire, Release,
      sched, fields, locks, cpu, thread, TypeOK, LockTypes, CpuTypes,
      ThreadTypes, CpuInv, WaitLockInv, WaitLocked
<1>5. ASSUME NEW c \in CPUS, NEW p \in Procs, UserKilled(c, p) PROVE WaitLockInv'
  BY <1>5, SMT DEF UserKilled
<1>6. ASSUME NEW c \in CPUS, NEW p \in Procs, SysCall(c, p) PROVE WaitLockInv'
  <2>1. PICK l \in {"alloc", "wait", "exit", "kill"} : pc' = Set(pc, p, l)
    BY <1>6 DEF SysCall
  <2> QED
    BY <1>6, <2>1, SMT DEF SysCall
<1>7. ASSUME NEW c \in CPUS, NEW p \in Procs, UserFault(c, p) PROVE WaitLockInv'
  BY <1>7, SMT DEF UserFault
<1>8. ASSUME NEW c \in CPUS, NEW p \in Procs, UserTimer(c, p) PROVE WaitLockInv'
  BY <1>8, SMT DEF UserTimer, yield, FieldTypes
<1>9. ASSUME NEW c \in CPUS, NEW p \in Procs, KernelTimer(c, p) PROVE WaitLockInv'
  BY <1>9, SMT DEF KernelTimer, yield, Interruptible
<1>10. ASSUME NEW c \in CPUS, NEW p \in Procs, TrapRet(c, p) PROVE WaitLockInv'
  BY <1>10, SMT DEF TrapRet
<1>11. ASSUME NEW c \in CPUS, NEW p \in Procs, ForkRet(c, p) PROVE WaitLockInv'
  BY <1>11, SMT DEF ForkRet
<1>12. ASSUME NEW c \in CPUS, NEW p \in Procs, AllocSkip(c, p) PROVE WaitLockInv'
  BY <1>12, SMT DEF AllocSkip
<1>13. ASSUME NEW c \in CPUS, NEW p \in Procs, AllocFound(c, p) PROVE WaitLockInv'
  <2>1. i[p] # p /\ \A d \in CPUS : stack[d] # i[p]
    BY <1>13, <1>a, SMT DEF AllocFound
  <2>2. pc'[p] = "fork_parent" /\ \A q \in Procs \ {p, i[p]} : pc'[q] = pc[q]
    BY <1>13, <2>1, SMT DEF AllocFound
  <2>3. UNCHANGED <<stack, wait_lock>> /\ pc[p] = "alloc"
    BY <1>13 DEF AllocFound
  <2>4. \A d \in CPUS : stack[d] # Nil =>
          (pc'[stack[d]] \in WaitLocked <=> pc[stack[d]] \in WaitLocked)
    <3> SUFFICES ASSUME NEW d \in CPUS, stack[d] # Nil
                 PROVE  pc'[stack[d]] \in WaitLocked <=> pc[stack[d]] \in WaitLocked
      OBVIOUS
    <3>1. stack[d] \in Procs /\ stack[d] # i[p]
      BY <2>1, SMT
    <3> QED
      BY <3>1, <2>2, <2>3
  <2> QED
    BY <2>3, <2>4
<1>14. ASSUME NEW c \in CPUS, NEW p \in Procs, AllocFail(c, p) PROVE WaitLockInv'
  BY <1>14, SMT DEF AllocFail, freeproc
<1>15. ASSUME NEW c \in CPUS, NEW p \in Procs, ForkParent(c, p) PROVE WaitLockInv'
  BY <1>15, SMT DEF ForkParent
<1>16. ASSUME NEW c \in CPUS, NEW p \in Procs, ForkRun(c, p) PROVE WaitLockInv'
  BY <1>16, SMT DEF ForkRun
<1>17. ASSUME NEW c \in CPUS, NEW p \in Procs, ExitLock(c, p) PROVE WaitLockInv'
  BY <1>17, SMT DEF ExitLock
<1>18. ASSUME NEW c \in CPUS, NEW p \in Procs, ReparentSkip(c, p) PROVE WaitLockInv'
  BY <1>18, SMT DEF ReparentSkip
<1>19. ASSUME NEW c \in CPUS, NEW p \in Procs, ReparentChild(c, p) PROVE WaitLockInv'
  BY <1>19, SMT DEF ReparentChild
<1>20. ASSUME NEW c \in CPUS, NEW p \in Procs, ReparentWake(c, p) PROVE WaitLockInv'
  BY <1>20, SMT DEF ReparentWake
<1>21. ASSUME NEW c \in CPUS, NEW p \in Procs, ExitWakeParent(c, p) PROVE WaitLockInv'
  BY <1>21, SMT DEF ExitWakeParent
<1>22. ASSUME NEW c \in CPUS, NEW p \in Procs, ExitZombie(c, p) PROVE WaitLockInv'
  BY <1>22, SMT DEF ExitZombie
<1>23. ASSUME NEW c \in CPUS, NEW p \in Procs, WaitLock(c, p) PROVE WaitLockInv'
  BY <1>23, SMT DEF WaitLock
<1>24. ASSUME NEW c \in CPUS, NEW p \in Procs, WaitSkip(c, p) PROVE WaitLockInv'
  BY <1>24, SMT DEF WaitSkip
<1>25. ASSUME NEW c \in CPUS, NEW p \in Procs, WaitReap(c, p) PROVE WaitLockInv'
  BY <1>25, SMT DEF WaitReap, freeproc
<1>26. ASSUME NEW c \in CPUS, NEW p \in Procs, WaitBadAddr(c, p) PROVE WaitLockInv'
  BY <1>26, SMT DEF WaitBadAddr
<1>27. ASSUME NEW c \in CPUS, NEW p \in Procs, WaitCheck(c, p) PROVE WaitLockInv'
  <2>1. CASE wait_lock' = NoCpu /\ Return(p)
    BY <1>27, <2>1, SMT DEF WaitCheck
  <2>2. CASE UNCHANGED wait_lock /\ Goto(p, "wsleep")
    BY <1>27, <2>2, SMT DEF WaitCheck
  <2> QED
    BY <1>27, <2>1, <2>2 DEF WaitCheck
<1>28. ASSUME NEW c \in CPUS, NEW p \in Procs, WaitSleep(c, p) PROVE WaitLockInv'
  BY <1>28, SMT DEF WaitSleep
<1>29. ASSUME NEW c \in CPUS, NEW p \in Procs, WaitWoken(c, p) PROVE WaitLockInv'
  BY <1>29, SMT DEF WaitWoken
<1>30. ASSUME NEW c \in CPUS, NEW p \in Procs, KillSkip(c, p) PROVE WaitLockInv'
  BY <1>30, SMT DEF KillSkip
<1>31. ASSUME NEW c \in CPUS, NEW p \in Procs, KillFound(c, p) PROVE WaitLockInv'
  BY <1>31, SMT DEF KillFound
<1>32. ASSUME NEW c \in CPUS, SchedRun(c) PROVE WaitLockInv'
  <2>1. pc[scan[c]] \notin WaitLocked
    BY <1>32 DEF SchedRun, PcInv, HasOwnLock, Interruptible
  <2>2. stack'[c] = scan[c] /\ \A d \in CPUS \ {c} : stack'[d] = stack[d]
    BY <1>32, SMT DEF SchedRun
  <2> QED
    BY <1>32, <2>1, <2>2, SMT DEF SchedRun
<1> HIDE DEF Set, Goto, Free, On, NextSlot, Return, Acquire, Release, sched,
      fields, locks, cpu, thread, TypeOK, LockTypes, CpuTypes, ThreadTypes,
      CpuInv, WaitLockInv, WaitLocked
<1> QED
  BY <1>2, <1>3, <1>4, <1>5, <1>6, <1>7, <1>8, <1>9, <1>10, <1>11, <1>12,
     <1>13, <1>14, <1>15, <1>16, <1>17, <1>18, <1>19, <1>20, <1>21, <1>22,
     <1>23, <1>24, <1>25, <1>26, <1>27, <1>28, <1>29, <1>30, <1>31, <1>32
  DEF Next, UserStep, TimerStep, KernelStep, SchedStep

\* Pids stay distinct.
LEMMA PidStep ==
  ASSUME TypeOK, ArgInv, PidInv, CpuInv, [Next]_vars
  PROVE  PidInv'
<1>r. \A c \in CPUS, p \in Procs : stack[c] = p => cproc[c] = p /\ state[p] = "RUNNING"
  BY SlotFacts DEF CpuInv
<1>1. ASSUME UNCHANGED <<state, pid, nextpid>>
      PROVE  PidInv'
  BY <1>1 DEF TypeOK, FieldTypes, CpuTypes, ThreadTypes, ArgInv, Forking, PidInv, DistinctPids
<1>2. CASE UNCHANGED vars
  BY <1>1, <1>2 DEF vars, fields, locks, cpu, thread
<1>3. ASSUME NEW c \in CPUS, NEW p \in Procs,
             UserKilled(c, p) \/ SysCall(c, p) \/ UserFault(c, p) \/ YieldReturn(c, p) \/
             TrapRet(c, p) \/ ForkRet(c, p) \/ AllocSkip(c, p) \/
             ForkParent(c, p) \/ ExitLock(c, p) \/ ReparentSkip(c, p) \/
             ReparentChild(c, p) \/ WaitLock(c, p) \/ WaitSkip(c, p) \/
             WaitBadAddr(c, p) \/ WaitCheck(c, p) \/ WaitWoken(c, p) \/
             KillSkip(c, p)
      PROVE  PidInv'
  BY <1>1, <1>3 DEF UserKilled, SysCall, UserFault, YieldReturn, TrapRet,
         ForkRet, AllocSkip, ForkParent, ExitLock, ReparentSkip,
         ReparentChild, WaitLock, WaitSkip, WaitBadAddr, WaitCheck, WaitWoken,
         KillSkip, Set, Goto, Free, On, NextSlot, Return, Acquire, Release,
         sched, fields, locks, cpu, thread
<1>4. ASSUME NEW c \in CPUS, SchedSkip(c) \/ SchedBack(c) PROVE PidInv'
  BY <1>1, <1>4 DEF SchedSkip, ScanNext, SchedBack, Goto, Free, On, NextSlot, Return, Acquire, Release, sched, fields, locks, cpu, thread
<1> USE SlotFacts DEF Set, Goto, Free, On, NextSlot, Return, Acquire, Release,
      sched, fields, locks, cpu, thread, TypeOK, FieldTypes, CpuTypes,
      ThreadTypes, ArgInv, Forking, PidInv, DistinctPids
<1>5. ASSUME NEW c \in CPUS, NEW p \in Procs, UserTimer(c, p) PROVE PidInv'
  BY <1>5, <1>r, SMT DEF UserTimer, yield
<1>6. ASSUME NEW c \in CPUS, NEW p \in Procs, KernelTimer(c, p) PROVE PidInv'
  BY <1>6, <1>r, SMT DEF KernelTimer, yield
<1>7. ASSUME NEW c \in CPUS, NEW p \in Procs, AllocFound(c, p) PROVE PidInv'
  BY <1>7, <1>r, SMT DEF AllocFound
<1>8. ASSUME NEW c \in CPUS, NEW p \in Procs, AllocFail(c, p) PROVE PidInv'
  BY <1>8, <1>r, SMT DEF AllocFail, freeproc
<1>9. ASSUME NEW c \in CPUS, NEW p \in Procs, ForkRun(c, p) PROVE PidInv'
  BY <1>9, <1>r, SMT DEF ForkRun
<1>10. ASSUME NEW c \in CPUS, NEW p \in Procs, ReparentWake(c, p) PROVE PidInv'
  <2>1. /\ state' \in [Procs -> States]
        /\ \A r \in Procs : state'[r] = state[r]
                             \/ (state[r] = "SLEEPING" /\ state'[r] = "RUNNABLE")
    BY <1>10, WakeupEffect DEF ReparentWake, TypeOK, FieldTypes, ThreadTypes
  <2> QED
    BY <1>10, <2>1, <1>r, SMT DEF ReparentWake
<1>11. ASSUME NEW c \in CPUS, NEW p \in Procs, ExitWakeParent(c, p) PROVE PidInv'
  <2>1. /\ state' \in [Procs -> States]
        /\ \A r \in Procs : state'[r] = state[r]
                             \/ (state[r] = "SLEEPING" /\ state'[r] = "RUNNABLE")
    BY <1>11, WakeupEffect DEF ExitWakeParent, TypeOK, FieldTypes, ThreadTypes
  <2> QED
    BY <1>11, <2>1, <1>r, SMT DEF ExitWakeParent
<1>12. ASSUME NEW c \in CPUS, NEW p \in Procs, ExitZombie(c, p) PROVE PidInv'
  BY <1>12, <1>r, SMT DEF ExitZombie
<1>13. ASSUME NEW c \in CPUS, NEW p \in Procs, WaitReap(c, p) PROVE PidInv'
  BY <1>13, <1>r, SMT DEF WaitReap, freeproc
<1>14. ASSUME NEW c \in CPUS, NEW p \in Procs, WaitSleep(c, p) PROVE PidInv'
  BY <1>14, <1>r, SMT DEF WaitSleep
<1>15. ASSUME NEW c \in CPUS, NEW p \in Procs, KillFound(c, p) PROVE PidInv'
  BY <1>15, <1>r, SMT DEF KillFound
<1>16. ASSUME NEW c \in CPUS, SchedRun(c) PROVE PidInv'
  BY <1>16, <1>r, SMT DEF SchedRun
<1> HIDE DEF Set, Goto, Free, On, NextSlot, Return, Acquire, Release, sched,
      fields, locks, cpu, thread, TypeOK, FieldTypes, CpuTypes, ThreadTypes,
      ArgInv, Forking, PidInv, DistinctPids
<1> QED
  BY <1>2, <1>3, <1>4, <1>5, <1>6, <1>7, <1>8, <1>9, <1>10, <1>11, <1>12,
     <1>13, <1>14, <1>15, <1>16, SMT
  DEF Next, UserStep, TimerStep, KernelStep, SchedStep

\* The invariant holds initially.
LEMMA InitCore == Init => CoreInv
<1> SUFFICES ASSUME Init PROVE CoreInv
  OBVIOUS
<1> USE SlotFacts, LoopFacts DEF Init
<1>1. TypeOK
  BY SMT DEF TypeOK, FieldTypes, LockTypes, CpuTypes, ThreadTypes, States, Labels
<1>2. ArgInv /\ PcInv
  BY DEF ArgInv, PcInv, Forking, Loops, HasOwnLock
<1>3. CpuInv /\ LockInv /\ WaitLockInv
  BY DEF CpuInv, LockInv, WaitLockInv, HasOwnLock
<1>4. PidInv
  BY SMT DEF PidInv, DistinctPids
<1> QED
  BY <1>1, <1>2, <1>3, <1>4 DEF CoreInv

-----------------------------------------------------------------------------
(* The theorems.                                                           *)

\* The inductive invariant of the process table and of the locks that swtch()
\* hands over holds in every reachable state.
THEOREM CoreInvariance == Spec => []CoreInv
<1>1. ASSUME CoreInv, [Next]_vars PROVE CoreInv'
  <2> USE <1>1 DEF CoreInv
  <2>1. TypeOK'
    BY TypeStep
  <2>2. ArgInv' /\ PcInv' /\ CpuInv'
    BY <2>1, ArgStep, PcStep, CpuStep
  <2>3. LockInv' /\ WaitLockInv' /\ PidInv'
    BY <2>1, LockStep, WaitLockStep, PidStep
  <2> QED
    BY <2>1, <2>2, <2>3
<1> QED
  BY <1>1, InitCore, PTL DEF Spec

\* Type correctness: no loop of proc.c leaves proc[], and every pointer is null
\* or points to a slot.
THEOREM TypeCorrect == Spec => []TypeOK
<1>1. CoreInv => TypeOK
  BY DEF CoreInv
<1> QED
  BY <1>1, CoreInvariance, PTL

\* swtch() and p->lock: no kernel stack is ever used by two CPUs, and no slot
\* is freed by wait() or run by scheduler() while a CPU is still on its stack.
THEOREM StackExclusion == Spec => []KernelStackExclusive
<1>1. CoreInv => KernelStackExclusive
  BY SlotFacts, SMT DEF CoreInv, TypeOK, CpuTypes, CpuInv, KernelStackExclusive
<1> QED
  BY <1>1, CoreInvariance, PTL

\* sched() never panics: at every switch the CPU holds p->lock and no other.
THEOREM SchedLocks == Spec => []SchedHoldsOneLock
<1>1. ASSUME CoreInv PROVE SchedHoldsOneLock
  <2> USE <1>1, SlotFacts DEF CoreInv
  <2>1. ASSUME NEW c \in CPUS, stack[c] = Nil PROVE Held(c) = {cproc[c]} \ {Nil}
    <3>1. wait_lock # c
      BY <2>1 DEF WaitLockInv
    <3>2. \A q \in Procs : plock[q] = c <=> cproc[c] = q
      BY <2>1 DEF LockInv
    <3>3. cproc[c] \in Procs \cup {Nil}
      BY DEF TypeOK, CpuTypes
    <3> QED
      BY <3>1, <3>2, <3>3 DEF Held
  <2>2. ASSUME NEW c \in CPUS, NEW p \in Procs, On(c, p, "user") PROVE Held(c) = {}
    <3>1. wait_lock # c
      BY <2>2 DEF WaitLockInv, WaitLocked, On
    <3>2. \A q \in Procs : plock[q] # c
      BY <2>2, SMT DEF LockInv, CpuInv, HasOwnLock, On
    <3> QED
      BY <3>1, <3>2 DEF Held
  <2> QED
    BY <2>1, <2>2 DEF SchedHoldsOneLock
<1> QED
  BY <1>1, CoreInvariance, PTL

\* allocpid(): the pid identifies a process, for any number of forks.
THEOREM PidsDistinct == Spec => []DistinctPids
<1>1. CoreInv => DistinctPids
  BY DEF CoreInv, PidInv
<1> QED
  BY <1>1, CoreInvariance, PTL
=============================================================================
