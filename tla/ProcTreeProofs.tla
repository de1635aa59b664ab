--------------------------- MODULE ProcTreeProofs ---------------------------
(***************************************************************************)
(* Proofs about exit(), reparent() and wait() in module Proc: no process   *)
(* loses its parent and no parent misses an exit.                          *)
(***************************************************************************)
EXTENDS ProcProofs

-----------------------------------------------------------------------------
(* The family tree and the wakeups between exit() and wait().              *)

Exiting == {"reparent", "rwake", "pwake", "zombie"}

\* q holds a process that may still have children.
Alive(q) == state[q] \in {"RUNNABLE", "RUNNING", "SLEEPING"}

\* Parents are alive; only /init and slots without a process have none.
TreeInv ==
  /\ Alive(initproc) /\ parent[initproc] = Nil
  /\ pc[initproc] \notin Exiting
  /\ \A q \in Procs :
       /\ parent[q] # Nil => parent[q] # q /\ Alive(parent[q])
       /\ state[q] = "UNUSED" => parent[q] = Nil
       /\ q # initproc /\ state[q] \notin {"UNUSED", "USED"} => parent[q] # Nil
       /\ pc[q] = "fork_run" => parent[arg[q]] # Nil

\* An exiting process has no children in the slots reparent() has passed.
ReparentInv ==
  \A q, k \in Procs :
    /\ pc[q] = "reparent" /\ k < i[q] => parent[k] # q
    /\ pc[q] = "rwake" /\ k <= arg[q] => parent[k] # q
    /\ pc[q] \in {"pwake", "zombie"} => parent[k] # q

\* A process in wait() has no ZOMBIE child in the slots it has scanned.
ScanInv ==
  \A p, q \in Procs :
    parent[q] = p =>
      /\ pc[p] = "wscan" /\ q < i[p] => state[q] # "ZOMBIE"
      /\ pc[p] \in {"wkilled", "wsleep"} => state[q] # "ZOMBIE"

\* p sleeps in wait().
AsleepInWait(p) == state[p] = "SLEEPING" /\ chan[p] = p

\* The wakeup(initproc) of a reparent() in progress has not reached /init.
InitToBeWoken == \E e \in Procs : pc[e] = "rwake" /\ i[e] = 1

\* An exiting process has woken its parent once wakeup(p->parent) has passed
\* it, and the parent of a ZOMBIE is awake, or is /init about to be woken.
WakeInv ==
  \A q, p \in Procs :
    parent[q] = p /\ AsleepInWait(p) =>
      /\ pc[q] # "zombie"
      /\ pc[q] = "pwake" => i[q] <= p
      /\ state[q] = "ZOMBIE" => p = initproc /\ InitToBeWoken


FamilyInv == TreeInv /\ ReparentInv /\ ScanInv /\ WakeInv

-----------------------------------------------------------------------------
(* Each conjunct of the invariant is preserved.                            *)

\* Zenon proves what a step does not give to another prover.
USE Zenon

\* Nobody dies before its children have another parent.
LEMMA TreeStep ==
  ASSUME TypeOK, ArgInv, PcInv, CpuInv, TreeInv, ReparentInv, [Next]_vars
  PROVE  TreeInv'
<1>r. \A c \in CPUS, p \in Procs : stack[c] = p => cproc[c] = p /\ state[p] = "RUNNING"
  BY SlotFacts DEF CpuInv
<1>t. TypeOK'
  BY TypeStep
<1>1. ASSUME UNCHANGED <<state, parent, pc, arg>>
      PROVE  TreeInv'
  BY <1>1 DEF TypeOK, FieldTypes, CpuTypes, ThreadTypes, TreeInv, Alive, Exiting
<1>2. CASE UNCHANGED vars
  BY <1>1, <1>2 DEF vars, fields, locks, cpu, thread
<1>w. ASSUME NEW p \in Procs, wakeup(p, i[p], parent[p]) \/ wakeup(p, i[p], initproc),
             UNCHANGED parent, pc[p] \in Exiting, pc'[p] \in Exiting,
             \A q \in Procs \ {p} : pc'[q] = pc[q] /\ arg'[q] = arg[q]
      PROVE  TreeInv'
  <2> USE SlotFacts DEF TypeOK, FieldTypes, ThreadTypes, TreeInv, Alive, Exiting
  <2>1. \A r \in Procs :
          /\ state'[r] \in {"RUNNABLE", "RUNNING", "SLEEPING"} <=>
               state[r] \in {"RUNNABLE", "RUNNING", "SLEEPING"}
          /\ state'[r] = "UNUSED" <=> state[r] = "UNUSED"
          /\ state'[r] = "USED" <=> state[r] = "USED"
    BY <1>w, WakeupEffect
  <2>2. TreeInv /\ p # initproc
    BY <1>w
  <2>3. (Alive(initproc) /\ parent[initproc] = Nil /\ pc[initproc] \notin Exiting)'
    BY <1>t, <1>w, <2>1, <2>2
  <2>4. ASSUME NEW q \in Procs
        PROVE  /\ parent'[q] # Nil => parent'[q] # q /\ Alive(parent[q])'
               /\ state'[q] = "UNUSED" => parent'[q] = Nil
    BY <1>t, <1>w, <2>1, <2>2, SMT
  <2>5. ASSUME NEW q \in Procs, q # initproc, state'[q] \notin {"UNUSED", "USED"}
        PROVE  parent'[q] # Nil
    BY <1>t, <1>w, <2>1, <2>2, <2>5
  <2>6. ASSUME NEW q \in Procs, pc'[q] = "fork_run" PROVE parent'[arg'[q]] # Nil
    <3>1. q # p
      BY <1>w, <2>6
    <3> QED
      BY <1>w, <2>2, <2>6, <3>1, SMT
  <2> QED
    BY <2>3, <2>4, <2>5, <2>6
<1>3. ASSUME NEW c \in CPUS, NEW p \in Procs,
             YieldReturn(c, p)
      PROVE  TreeInv'
  BY <1>1, <1>3 DEF YieldReturn, Set, Goto, Free, On, NextSlot, Return,
         Acquire, Release, sched, fields, locks, cpu, thread
<1>4. ASSUME NEW c \in CPUS, SchedSkip(c) \/ SchedBack(c) PROVE TreeInv'
  BY <1>1, <1>4 DEF SchedSkip, ScanNext, SchedBack, Goto, Free, On, NextSlot, Return, Acquire, Release, sched, fields, locks, cpu, thread
<1> USE SlotFacts DEF Set, Goto, Free, On, NextSlot, Return, Acquire, Release,
      sched, fields, locks, cpu, thread, TypeOK, FieldTypes, CpuTypes,
      ThreadTypes, TreeInv, Alive, Exiting
<1>5. ASSUME NEW c \in CPUS, NEW p \in Procs, UserKilled(c, p) PROVE TreeInv'
  BY <1>5, <1>r, SMT DEF UserKilled
<1>6. ASSUME NEW c \in CPUS, NEW p \in Procs, SysCall(c, p) PROVE TreeInv'
  BY <1>6, <1>r, SMT DEF SysCall
<1>7. ASSUME NEW c \in CPUS, NEW p \in Procs, UserFault(c, p) PROVE TreeInv'
  BY <1>7, <1>r, SMT DEF UserFault
<1>8. ASSUME NEW c \in CPUS, NEW p \in Procs, UserTimer(c, p) PROVE TreeInv'
  BY <1>8, <1>r, SMT DEF UserTimer, yield
<1>9. ASSUME NEW c \in CPUS, NEW p \in Procs, KernelTimer(c, p) PROVE TreeInv'
  BY <1>9, <1>r, SMT DEF KernelTimer, yield
<1>10. ASSUME NEW c \in CPUS, NEW p \in Procs, TrapRet(c, p) PROVE TreeInv'
  BY <1>10, <1>r, SMT DEF TrapRet
<1>11. ASSUME NEW c \in CPUS, NEW p \in Procs, ForkRet(c, p) PROVE TreeInv'
  BY <1>11, <1>r, SMT DEF ForkRet
<1>12. ASSUME NEW c \in CPUS, NEW p \in Procs, AllocSkip(c, p) PROVE TreeInv'
  BY <1>12, <1>r, SMT DEF AllocSkip
<1>13. ASSUME NEW c \in CPUS, NEW p \in Procs, AllocFound(c, p) PROVE TreeInv'
  BY <1>13, <1>r, SMT DEF AllocFound, ArgInv, Forking, PcInv
<1>14. ASSUME NEW c \in CPUS, NEW p \in Procs, AllocFail(c, p) PROVE TreeInv'
  BY <1>14, <1>r, SMT DEF AllocFail, freeproc, ArgInv, Forking
<1>15. ASSUME NEW c \in CPUS, NEW p \in Procs, ForkParent(c, p) PROVE TreeInv'
  BY <1>15, <1>r, SMT DEF ForkParent, ArgInv, Forking
<1>16. ASSUME NEW c \in CPUS, NEW p \in Procs, ForkRun(c, p) PROVE TreeInv'
  BY <1>16, <1>r, SMT DEF ForkRun, ArgInv, Forking
<1>17. ASSUME NEW c \in CPUS, NEW p \in Procs, ExitLock(c, p) PROVE TreeInv'
  BY <1>17, <1>r, SMT DEF ExitLock
<1>18. ASSUME NEW c \in CPUS, NEW p \in Procs, ReparentSkip(c, p) PROVE TreeInv'
  BY <1>18, <1>r, SMT DEF ReparentSkip
<1>19. ASSUME NEW c \in CPUS, NEW p \in Procs, ReparentChild(c, p) PROVE TreeInv'
  BY <1>19, <1>r, SMT DEF ReparentChild, ArgInv, Forking
<1>20. ASSUME NEW c \in CPUS, NEW p \in Procs, ReparentWake(c, p) PROVE TreeInv'
  <2>1. /\ UNCHANGED parent /\ pc[p] \in Exiting /\ pc'[p] \in Exiting
        /\ \A q \in Procs \ {p} : pc'[q] = pc[q] /\ arg'[q] = arg[q]
    BY <1>20, SMT DEF ReparentWake
  <2> QED
    BY <1>20, <1>w, <2>1 DEF ReparentWake
<1>21. ASSUME NEW c \in CPUS, NEW p \in Procs, ExitWakeParent(c, p) PROVE TreeInv'
  <2>1. /\ UNCHANGED parent /\ pc[p] \in Exiting /\ pc'[p] \in Exiting
        /\ \A q \in Procs \ {p} : pc'[q] = pc[q] /\ arg'[q] = arg[q]
    BY <1>21, SMT DEF ExitWakeParent
  <2> QED
    BY <1>21, <1>w, <2>1 DEF ExitWakeParent
<1>22. ASSUME NEW c \in CPUS, NEW p \in Procs, ExitZombie(c, p) PROVE TreeInv'
  BY <1>22, <1>r, SMT DEF ExitZombie, ReparentInv
<1>23. ASSUME NEW c \in CPUS, NEW p \in Procs, WaitLock(c, p) PROVE TreeInv'
  BY <1>23, <1>r, SMT DEF WaitLock
<1>24. ASSUME NEW c \in CPUS, NEW p \in Procs, WaitSkip(c, p) PROVE TreeInv'
  BY <1>24, <1>r, SMT DEF WaitSkip
<1>25. ASSUME NEW c \in CPUS, NEW p \in Procs, WaitReap(c, p) PROVE TreeInv'
  BY <1>25, <1>r, SMT DEF WaitReap, freeproc, ArgInv, Forking
<1>26. ASSUME NEW c \in CPUS, NEW p \in Procs, WaitBadAddr(c, p) PROVE TreeInv'
  BY <1>26, <1>r, SMT DEF WaitBadAddr
<1>27. ASSUME NEW c \in CPUS, NEW p \in Procs, WaitCheck(c, p) PROVE TreeInv'
  BY <1>27, <1>r, SMT DEF WaitCheck
<1>28. ASSUME NEW c \in CPUS, NEW p \in Procs, WaitSleep(c, p) PROVE TreeInv'
  BY <1>28, <1>r, SMT DEF WaitSleep
<1>29. ASSUME NEW c \in CPUS, NEW p \in Procs, WaitWoken(c, p) PROVE TreeInv'
  BY <1>29, <1>r, SMT DEF WaitWoken
<1>30. ASSUME NEW c \in CPUS, NEW p \in Procs, KillSkip(c, p) PROVE TreeInv'
  BY <1>30, <1>r, SMT DEF KillSkip
<1>31. ASSUME NEW c \in CPUS, NEW p \in Procs, KillFound(c, p) PROVE TreeInv'
  BY <1>31, <1>r, SMT DEF KillFound
<1>32. ASSUME NEW c \in CPUS, SchedRun(c) PROVE TreeInv'
  BY <1>32, <1>r, SMT DEF SchedRun, ArgInv, Forking
<1> HIDE DEF Set, Goto, Free, On, NextSlot, Return, Acquire, Release, sched,
      fields, locks, cpu, thread, TypeOK, FieldTypes, CpuTypes, ThreadTypes,
      TreeInv, Alive, Exiting
<1> QED
  BY <1>2, <1>3, <1>4, <1>5, <1>6, <1>7, <1>8, <1>9, <1>10, <1>11, <1>12,
     <1>13, <1>14, <1>15, <1>16, <1>17, <1>18, <1>19, <1>20, <1>21, <1>22,
     <1>23, <1>24, <1>25, <1>26, <1>27, <1>28, <1>29, <1>30, <1>31, <1>32
  DEF Next, UserStep, TimerStep, KernelStep, SchedStep

\* reparent() leaves no child behind.
LEMMA ReparentStep ==
  ASSUME TypeOK, ArgInv, PcInv, CpuInv, TreeInv, ReparentInv, [Next]_vars
  PROVE  ReparentInv'
<1>t. TypeOK'
  BY TypeStep
<1>1. ASSUME UNCHANGED <<parent, pc, i, arg>>
      PROVE  ReparentInv'
  BY <1>1 DEF TypeOK, FieldTypes, CpuTypes, ThreadTypes, ArgInv, Forking, Loops, TreeInv, Exiting, ReparentInv
<1>2. CASE UNCHANGED vars
  BY <1>1, <1>2 DEF vars, fields, locks, cpu, thread
<1>3. ASSUME NEW c \in CPUS, NEW p \in Procs,
             UserTimer(c, p) \/ KernelTimer(c, p) \/ YieldReturn(c, p)
      PROVE  ReparentInv'
  BY <1>1, <1>3 DEF UserTimer, yield, KernelTimer, YieldReturn, Set, Goto,
         Free, On, NextSlot, Return, Acquire, Release, sched, fields, locks,
         cpu, thread
<1>4. ASSUME NEW c \in CPUS, SchedSkip(c) \/ SchedRun(c) \/ SchedBack(c) PROVE ReparentInv'
  BY <1>1, <1>4 DEF SchedSkip, ScanNext, SchedRun, SchedBack, Goto, Free, On, NextSlot, Return, Acquire, Release, sched, fields, locks, cpu, thread
<1> USE SlotFacts, OrderFacts DEF Set, Goto, Free, On, NextSlot, Return,
      Acquire, Release, sched, fields, locks, cpu, thread, TypeOK, FieldTypes,
      CpuTypes, ThreadTypes, ArgInv, Forking, Loops, TreeInv, Exiting,
      ReparentInv
<1>5. ASSUME NEW c \in CPUS, NEW p \in Procs, UserKilled(c, p) PROVE ReparentInv'
  BY <1>5, SMT DEF UserKilled
<1>6. ASSUME NEW c \in CPUS, NEW p \in Procs, SysCall(c, p) PROVE ReparentInv'
  BY <1>6, SMT DEF SysCall
<1>7. ASSUME NEW c \in CPUS, NEW p \in Procs, UserFault(c, p) PROVE ReparentInv'
  BY <1>7, SMT DEF UserFault
<1>8. ASSUME NEW c \in CPUS, NEW p \in Procs, TrapRet(c, p) PROVE ReparentInv'
  BY <1>8, SMT DEF TrapRet
<1>9. ASSUME NEW c \in CPUS, NEW p \in Procs, ForkRet(c, p) PROVE ReparentInv'
  BY <1>9, SMT DEF ForkRet
<1>10. ASSUME NEW c \in CPUS, NEW p \in Procs, AllocSkip(c, p) PROVE ReparentInv'
  BY <1>10, SMT DEF AllocSkip
<1>11. ASSUME NEW c \in CPUS, NEW p \in Procs, AllocFound(c, p) PROVE ReparentInv'
  BY <1>11, SMT DEF AllocFound
<1>12. ASSUME NEW c \in CPUS, NEW p \in Procs, AllocFail(c, p) PROVE ReparentInv'
  BY <1>12, SMT DEF AllocFail, freeproc
<1>13. ASSUME NEW c \in CPUS, NEW p \in Procs, ForkParent(c, p) PROVE ReparentInv'
  BY <1>13, SMT DEF ForkParent
<1>14. ASSUME NEW c \in CPUS, NEW p \in Procs, ForkRun(c, p) PROVE ReparentInv'
  BY <1>14, SMT DEF ForkRun
<1>15. ASSUME NEW c \in CPUS, NEW p \in Procs, ExitLock(c, p) PROVE ReparentInv'
  BY <1>15, SMT DEF ExitLock
<1>16. ASSUME NEW c \in CPUS, NEW p \in Procs, ReparentSkip(c, p) PROVE ReparentInv'
  <2>1. pc[p] = "reparent" /\ parent[i[p]] # p /\ UNCHANGED <<parent, arg>>
    BY <1>16 DEF ReparentSkip
  <2>2. \A k \in Procs : k <= i[p] => parent[k] # p
    <3>1. i[p] \in Procs /\ \A k \in Procs : k < i[p] => parent[k] # p
      BY <2>1
    <3> QED
      BY <2>1, <3>1, ProcAssumption, SMT DEF Procs
  <2>3. \A q \in Procs \ {p} : pc'[q] = pc[q] /\ i'[q] = i[q]
    BY <1>16 DEF ReparentSkip
  <2>4. CASE i[p] = NPROC
    <3>1. pc'[p] = "pwake" /\ \A k \in Procs : parent[k] # p
      BY <1>16, <2>2, <2>4 DEF ReparentSkip
    <3> QED
      BY <2>1, <2>3, <3>1, SMT
  <2>5. CASE i[p] # NPROC
    <3>1. pc'[p] = "reparent" /\ i'[p] = i[p] + 1
      BY <1>16, <2>5 DEF ReparentSkip
    <3>2. i[p] \in Procs
      OBVIOUS
    <3>3. \A k \in Procs : k < i'[p] => parent[k] # p
      BY <2>2, <3>1, <3>2, ProcAssumption, SMT DEF Procs
    <3> QED
      BY <2>1, <2>3, <3>1, <3>3, SMT
  <2> QED
    BY <2>4, <2>5
<1>17. ASSUME NEW c \in CPUS, NEW p \in Procs, ReparentChild(c, p) PROVE ReparentInv'
  <2>1. pc[p] = "reparent" /\ p # initproc
    BY <1>17 DEF ReparentChild
  <2>2. \A k \in Procs : parent'[k] = IF k = i[p] THEN initproc ELSE parent[k]
    BY <1>17 DEF ReparentChild
  <2>3. pc'[p] = "rwake" /\ arg'[p] = i[p]
    BY <1>17 DEF ReparentChild
  <2>4. \A q \in Procs \ {p} : pc'[q] = pc[q] /\ i'[q] = i[q] /\ arg'[q] = arg[q]
    BY <1>17 DEF ReparentChild
  <2>5. \A k \in Procs : k <= i[p] => parent'[k] # p
    <3>1. i[p] \in Procs /\ \A k \in Procs : k < i[p] => parent[k] # p
      BY <2>1
    <3>2. \A k \in Procs : k <= i[p] => k < i[p] \/ k = i[p]
      BY <3>1, ProcAssumption, SMT DEF Procs
    <3> QED
      BY <2>1, <2>2, <3>1, <3>2
  <2> QED
    BY <2>1, <2>2, <2>3, <2>4, <2>5, SMT
<1>18. ASSUME NEW c \in CPUS, NEW p \in Procs, ReparentWake(c, p) PROVE ReparentInv'
  BY <1>18, SMT DEF ReparentWake
<1>19. ASSUME NEW c \in CPUS, NEW p \in Procs, ExitWakeParent(c, p) PROVE ReparentInv'
  BY <1>19, SMT DEF ExitWakeParent
<1>20. ASSUME NEW c \in CPUS, NEW p \in Procs, ExitZombie(c, p) PROVE ReparentInv'
  BY <1>20, SMT DEF ExitZombie
<1>21. ASSUME NEW c \in CPUS, NEW p \in Procs, WaitLock(c, p) PROVE ReparentInv'
  BY <1>21, SMT DEF WaitLock
<1>22. ASSUME NEW c \in CPUS, NEW p \in Procs, WaitSkip(c, p) PROVE ReparentInv'
  BY <1>22, SMT DEF WaitSkip
<1>23. ASSUME NEW c \in CPUS, NEW p \in Procs, WaitReap(c, p) PROVE ReparentInv'
  BY <1>23, SMT DEF WaitReap, freeproc
<1>24. ASSUME NEW c \in CPUS, NEW p \in Procs, WaitBadAddr(c, p) PROVE ReparentInv'
  BY <1>24, SMT DEF WaitBadAddr
<1>25. ASSUME NEW c \in CPUS, NEW p \in Procs, WaitCheck(c, p) PROVE ReparentInv'
  BY <1>25, SMT DEF WaitCheck
<1>26. ASSUME NEW c \in CPUS, NEW p \in Procs, WaitSleep(c, p) PROVE ReparentInv'
  BY <1>26, SMT DEF WaitSleep
<1>27. ASSUME NEW c \in CPUS, NEW p \in Procs, WaitWoken(c, p) PROVE ReparentInv'
  BY <1>27, SMT DEF WaitWoken
<1>28. ASSUME NEW c \in CPUS, NEW p \in Procs, KillSkip(c, p) PROVE ReparentInv'
  BY <1>28, SMT DEF KillSkip
<1>29. ASSUME NEW c \in CPUS, NEW p \in Procs, KillFound(c, p) PROVE ReparentInv'
  BY <1>29, SMT DEF KillFound
<1> HIDE DEF Set, Goto, Free, On, NextSlot, Return, Acquire, Release, sched,
      fields, locks, cpu, thread, TypeOK, FieldTypes, CpuTypes, ThreadTypes,
      ArgInv, Forking, Loops, TreeInv, Exiting, ReparentInv
<1> QED
  BY <1>2, <1>3, <1>4, <1>5, <1>6, <1>7, <1>8, <1>9, <1>10, <1>11, <1>12,
     <1>13, <1>14, <1>15, <1>16, <1>17, <1>18, <1>19, <1>20, <1>21, <1>22,
     <1>23, <1>24, <1>25, <1>26, <1>27, <1>28, <1>29
  DEF Next, UserStep, TimerStep, KernelStep, SchedStep

\* While wait() scans proc[], no child becomes a ZOMBIE.
LEMMA ScanStep ==
  ASSUME TypeOK, ArgInv, PcInv, CpuInv, WaitLockInv, TreeInv, ScanInv,
         [Next]_vars
  PROVE  ScanInv'
<1>r. \A c \in CPUS, p \in Procs : stack[c] = p => cproc[c] = p /\ state[p] = "RUNNING"
  BY SlotFacts, SMT DEF CpuInv
<1>c. \A p, q \in Procs : pc[p] \in WaitLocked /\ pc[q] \in WaitLocked => p = q
  BY OneWaiter
<1>t. TypeOK'
  BY TypeStep
<1>1. ASSUME UNCHANGED <<state, parent, pc, i>>
      PROVE  ScanInv'
  BY <1>1 DEF TypeOK, FieldTypes, CpuTypes, ThreadTypes, ArgInv, Loops, WaitLocked, ScanInv
<1>2. CASE UNCHANGED vars
  BY <1>1, <1>2 DEF vars, fields, locks, cpu, thread
<1>3. ASSUME NEW c \in CPUS, NEW p \in Procs,
             YieldReturn(c, p)
      PROVE  ScanInv'
  BY <1>1, <1>3 DEF YieldReturn, Set, Goto, Free, On, NextSlot, Return,
         Acquire, Release, sched, fields, locks, cpu, thread
<1>4. ASSUME NEW c \in CPUS, SchedSkip(c) \/ SchedBack(c) PROVE ScanInv'
  BY <1>1, <1>4 DEF SchedSkip, ScanNext, SchedBack, Goto, Free, On, NextSlot, Return, Acquire, Release, sched, fields, locks, cpu, thread
<1> USE SlotFacts, OrderFacts DEF Set, Goto, Free, On, NextSlot, Return,
      Acquire, Release, sched, fields, locks, cpu, thread, TypeOK, FieldTypes,
      CpuTypes, ThreadTypes, ArgInv, Loops, WaitLocked, ScanInv
<1>5. ASSUME NEW c \in CPUS, NEW p \in Procs, UserKilled(c, p) PROVE ScanInv'
  BY <1>5, <1>r, SMT DEF UserKilled
<1>6. ASSUME NEW c \in CPUS, NEW p \in Procs, SysCall(c, p) PROVE ScanInv'
  BY <1>6, <1>r, SMT DEF SysCall
<1>7. ASSUME NEW c \in CPUS, NEW p \in Procs, UserFault(c, p) PROVE ScanInv'
  BY <1>7, <1>r, SMT DEF UserFault
<1>8. ASSUME NEW c \in CPUS, NEW p \in Procs, UserTimer(c, p) PROVE ScanInv'
  BY <1>8, <1>r, SMT DEF UserTimer, yield
<1>9. ASSUME NEW c \in CPUS, NEW p \in Procs, KernelTimer(c, p) PROVE ScanInv'
  BY <1>9, <1>r, SMT DEF KernelTimer, yield
<1>10. ASSUME NEW c \in CPUS, NEW p \in Procs, TrapRet(c, p) PROVE ScanInv'
  BY <1>10, <1>r, SMT DEF TrapRet
<1>11. ASSUME NEW c \in CPUS, NEW p \in Procs, ForkRet(c, p) PROVE ScanInv'
  BY <1>11, <1>r, SMT DEF ForkRet
<1>12. ASSUME NEW c \in CPUS, NEW p \in Procs, AllocSkip(c, p) PROVE ScanInv'
  BY <1>12, <1>r, SMT DEF AllocSkip
<1>13. ASSUME NEW c \in CPUS, NEW p \in Procs, AllocFound(c, p) PROVE ScanInv'
  BY <1>13, <1>r, SMT DEF AllocFound, TreeInv, Alive
<1>14. ASSUME NEW c \in CPUS, NEW p \in Procs, AllocFail(c, p) PROVE ScanInv'
  BY <1>14, <1>r, SMT DEF AllocFail, freeproc
<1>15. ASSUME NEW c \in CPUS, NEW p \in Procs, ForkParent(c, p) PROVE ScanInv'
  BY <1>15, <1>r, SMT DEF ForkParent
<1>16. ASSUME NEW c \in CPUS, NEW p \in Procs, ForkRun(c, p) PROVE ScanInv'
  BY <1>16, <1>r, SMT DEF ForkRun
<1>17. ASSUME NEW c \in CPUS, NEW p \in Procs, ExitLock(c, p) PROVE ScanInv'
  BY <1>17, <1>r, SMT DEF ExitLock
<1>18. ASSUME NEW c \in CPUS, NEW p \in Procs, ReparentSkip(c, p) PROVE ScanInv'
  BY <1>18, <1>r, SMT DEF ReparentSkip
<1>19. ASSUME NEW c \in CPUS, NEW p \in Procs, ReparentChild(c, p) PROVE ScanInv'
  <2>1. pc[p] = "reparent" /\ pc'[p] = "rwake" /\ UNCHANGED state
    BY <1>19 DEF ReparentChild
  <2>2. \A q \in Procs \ {p} : pc'[q] = pc[q] /\ pc[q] \notin {"wscan", "wkilled", "wsleep"}
    BY <1>19, <1>c DEF ReparentChild
  <2> QED
    BY <2>1, <2>2, SMT
<1>20. ASSUME NEW c \in CPUS, NEW p \in Procs, ReparentWake(c, p) PROVE ScanInv'
  <2>1. /\ state' \in [Procs -> States]
        /\ \A r \in Procs : state'[r] = state[r]
                             \/ (state[r] = "SLEEPING" /\ state'[r] = "RUNNABLE")
    BY <1>20, WakeupEffect DEF ReparentWake, TypeOK, FieldTypes, ThreadTypes
  <2> QED
    BY <1>20, <2>1, <1>r, SMT DEF ReparentWake
<1>21. ASSUME NEW c \in CPUS, NEW p \in Procs, ExitWakeParent(c, p) PROVE ScanInv'
  <2>1. /\ state' \in [Procs -> States]
        /\ \A r \in Procs : state'[r] = state[r]
                             \/ (state[r] = "SLEEPING" /\ state'[r] = "RUNNABLE")
    BY <1>21, WakeupEffect DEF ExitWakeParent, TypeOK, FieldTypes, ThreadTypes
  <2> QED
    BY <1>21, <2>1, <1>r, SMT DEF ExitWakeParent
<1>22. ASSUME NEW c \in CPUS, NEW p \in Procs, ExitZombie(c, p) PROVE ScanInv'
  <2>1. pc[p] = "zombie" /\ pc'[p] = "dead" /\ UNCHANGED parent
    BY <1>22 DEF ExitZombie
  <2>2. \A q \in Procs \ {p} : pc'[q] = pc[q] /\ pc[q] \notin {"wscan", "wkilled", "wsleep"}
    BY <1>22, <1>c DEF ExitZombie
  <2> QED
    BY <2>1, <2>2, SMT
<1>23. ASSUME NEW c \in CPUS, NEW p \in Procs, WaitLock(c, p) PROVE ScanInv'
  BY <1>23, <1>r, SMT DEF WaitLock
<1>24. ASSUME NEW c \in CPUS, NEW p \in Procs, WaitSkip(c, p) PROVE ScanInv'
  <2>1. UNCHANGED <<parent, state>> /\ pc[p] = "wscan"
    BY <1>24 DEF WaitSkip
  <2>2. \A q \in Procs : parent[q] = p /\ q <= i[p] => state[q] # "ZOMBIE"
    <3>1. /\ i[p] \in Procs
          /\ \A q \in Procs : parent[q] = p /\ q < i[p] => state[q] # "ZOMBIE"
      BY <2>1
    <3>2. parent[i[p]] = p => state[i[p]] # "ZOMBIE"
      BY <1>24 DEF WaitSkip
    <3> QED
      BY <3>1, <3>2, ProcAssumption, SMT DEF Procs
  <2>3. \A q \in Procs \ {p} : pc'[q] = pc[q] /\ i'[q] = i[q]
    BY <1>24 DEF WaitSkip
  <2>4. CASE i[p] = NPROC
    BY <1>24, <2>1, <2>2, <2>3, <2>4, SMT DEF WaitSkip
  <2>5. CASE i[p] # NPROC
    <3>1. pc'[p] = "wscan" /\ i'[p] = i[p] + 1
      BY <1>24, <2>5 DEF WaitSkip
    <3>2. i[p] \in Procs
      OBVIOUS
    <3>3. \A q \in Procs : parent[q] = p /\ q < i'[p] => state[q] # "ZOMBIE"
      BY <2>2, <3>1, <3>2, ProcAssumption, SMT DEF Procs
    <3> QED
      BY <2>1, <2>3, <3>1, <3>3, SMT
  <2> QED
    BY <2>4, <2>5
<1>25. ASSUME NEW c \in CPUS, NEW p \in Procs, WaitReap(c, p) PROVE ScanInv'
  BY <1>25, <1>r, SMT DEF WaitReap, freeproc
<1>26. ASSUME NEW c \in CPUS, NEW p \in Procs, WaitBadAddr(c, p) PROVE ScanInv'
  BY <1>26, <1>r, SMT DEF WaitBadAddr
<1>27. ASSUME NEW c \in CPUS, NEW p \in Procs, WaitCheck(c, p) PROVE ScanInv'
  BY <1>27, <1>r, SMT DEF WaitCheck
<1>28. ASSUME NEW c \in CPUS, NEW p \in Procs, WaitSleep(c, p) PROVE ScanInv'
  BY <1>28, <1>r, SMT DEF WaitSleep
<1>29. ASSUME NEW c \in CPUS, NEW p \in Procs, WaitWoken(c, p) PROVE ScanInv'
  BY <1>29, <1>r, SMT DEF WaitWoken
<1>30. ASSUME NEW c \in CPUS, NEW p \in Procs, KillSkip(c, p) PROVE ScanInv'
  BY <1>30, <1>r, SMT DEF KillSkip
<1>31. ASSUME NEW c \in CPUS, NEW p \in Procs, KillFound(c, p) PROVE ScanInv'
  BY <1>31, <1>r, SMT DEF KillFound
<1>32. ASSUME NEW c \in CPUS, SchedRun(c) PROVE ScanInv'
  BY <1>32, <1>r, SMT DEF SchedRun
<1> HIDE DEF Set, Goto, Free, On, NextSlot, Return, Acquire, Release, sched,
      fields, locks, cpu, thread, TypeOK, FieldTypes, CpuTypes, ThreadTypes,
      ArgInv, Loops, WaitLocked, ScanInv
<1> QED
  BY <1>2, <1>3, <1>4, <1>5, <1>6, <1>7, <1>8, <1>9, <1>10, <1>11, <1>12,
     <1>13, <1>14, <1>15, <1>16, <1>17, <1>18, <1>19, <1>20, <1>21, <1>22,
     <1>23, <1>24, <1>25, <1>26, <1>27, <1>28, <1>29, <1>30, <1>31, <1>32
  DEF Next, UserStep, TimerStep, KernelStep, SchedStep

\* No exit() goes unnoticed by a parent in wait().
LEMMA WakeStep ==
  ASSUME TypeOK, ArgInv, PcInv, CpuInv, WaitLockInv, TreeInv, ScanInv,
         WakeInv, [Next]_vars
  PROVE  WakeInv'
<1>r. \A c \in CPUS, p \in Procs : stack[c] = p => cproc[c] = p /\ state[p] = "RUNNING"
  BY SlotFacts DEF CpuInv
<1>c. \A p, q \in Procs : pc[p] \in WaitLocked /\ pc[q] \in WaitLocked => p = q
  BY OneWaiter
<1>t. TypeOK'
  BY TypeStep
<1>b. ASSUME NEW p \in Procs, NEW ch, wakeup(p, i[p], ch)
      PROVE  /\ \A r \in Procs : state'[r] = state[r]
                                  \/ (state[r] = "SLEEPING" /\ state'[r] = "RUNNABLE")
             /\ i[p] # p /\ chan[i[p]] = ch => state'[i[p]] # "SLEEPING"
  BY <1>b, WakeupEffect DEF TypeOK, FieldTypes, ThreadTypes
<1>1. ASSUME UNCHANGED <<state, chan, parent, pc, i>>
      PROVE  WakeInv'
  BY <1>1, SMT DEF TypeOK, FieldTypes, CpuTypes, ThreadTypes, ArgInv, Loops, PcInv, WaitLocked, ScanInv, TreeInv, Alive, WakeInv, AsleepInWait, InitToBeWoken
<1>2. CASE UNCHANGED vars
  BY <1>1, <1>2 DEF vars, fields, locks, cpu, thread
<1>3. ASSUME NEW c \in CPUS, NEW p \in Procs,
             YieldReturn(c, p)
      PROVE  WakeInv'
  BY <1>1, <1>3 DEF YieldReturn, Set, Goto, Free, On, NextSlot, Return,
         Acquire, Release, sched, fields, locks, cpu, thread
<1>4. ASSUME NEW c \in CPUS, SchedSkip(c) \/ SchedBack(c) PROVE WakeInv'
  BY <1>1, <1>4 DEF SchedSkip, ScanNext, SchedBack, Goto, Free, On, NextSlot, Return, Acquire, Release, sched, fields, locks, cpu, thread
<1> USE SlotFacts, OrderFacts DEF Set, Goto, Free, On, NextSlot, Return,
      Acquire, Release, sched, fields, locks, cpu, thread, TypeOK, FieldTypes,
      CpuTypes, ThreadTypes, ArgInv, Loops, PcInv, WaitLocked, ScanInv,
      TreeInv, Alive, WakeInv, AsleepInWait, InitToBeWoken
<1>5. ASSUME NEW c \in CPUS, NEW p \in Procs, UserKilled(c, p) PROVE WakeInv'
  BY <1>5, <1>r, SMT DEF UserKilled
<1>6. ASSUME NEW c \in CPUS, NEW p \in Procs, SysCall(c, p) PROVE WakeInv'
  BY <1>6, <1>r, SMT DEF SysCall
<1>7. ASSUME NEW c \in CPUS, NEW p \in Procs, UserFault(c, p) PROVE WakeInv'
  BY <1>7, <1>r, SMT DEF UserFault
<1>8. ASSUME NEW c \in CPUS, NEW p \in Procs, UserTimer(c, p) PROVE WakeInv'
  BY <1>8, <1>r, SMT DEF UserTimer, yield
<1>9. ASSUME NEW c \in CPUS, NEW p \in Procs, KernelTimer(c, p) PROVE WakeInv'
  BY <1>9, <1>r, SMT DEF KernelTimer, yield
<1>10. ASSUME NEW c \in CPUS, NEW p \in Procs, TrapRet(c, p) PROVE WakeInv'
  BY <1>10, <1>r, SMT DEF TrapRet
<1>11. ASSUME NEW c \in CPUS, NEW p \in Procs, ForkRet(c, p) PROVE WakeInv'
  BY <1>11, <1>r, SMT DEF ForkRet
<1>12. ASSUME NEW c \in CPUS, NEW p \in Procs, AllocSkip(c, p) PROVE WakeInv'
  BY <1>12, <1>r, SMT DEF AllocSkip
<1>13. ASSUME NEW c \in CPUS, NEW p \in Procs, AllocFound(c, p) PROVE WakeInv'
  BY <1>13, <1>r, SMT DEF AllocFound
<1>14. ASSUME NEW c \in CPUS, NEW p \in Procs, AllocFail(c, p) PROVE WakeInv'
  BY <1>14, <1>r, SMT DEF AllocFail, freeproc
<1>15. ASSUME NEW c \in CPUS, NEW p \in Procs, ForkParent(c, p) PROVE WakeInv'
  BY <1>15, <1>r, SMT DEF ForkParent
<1>16. ASSUME NEW c \in CPUS, NEW p \in Procs, ForkRun(c, p) PROVE WakeInv'
  BY <1>16, <1>r, SMT DEF ForkRun
<1>17. ASSUME NEW c \in CPUS, NEW p \in Procs, ExitLock(c, p) PROVE WakeInv'
  BY <1>17, <1>r, SMT DEF ExitLock
<1>18. ASSUME NEW c \in CPUS, NEW p \in Procs, ReparentSkip(c, p) PROVE WakeInv'
  BY <1>18, <1>r, SMT DEF ReparentSkip
<1>19. ASSUME NEW c \in CPUS, NEW p \in Procs, ReparentChild(c, p) PROVE WakeInv'
  <2>1. pc[p] = "reparent" /\ UNCHANGED <<state, chan>>
    BY <1>19 DEF ReparentChild
  <2>2. InitToBeWoken' /\ pc'[p] = "rwake"
    BY <1>19 DEF ReparentChild
  <2>3. \A q \in Procs \ {p} : pc'[q] = pc[q] /\ pc[q] \notin WaitLocked
    BY <1>19, <1>c DEF ReparentChild
  <2>4. \A k \in Procs : parent'[k] = parent[k] \/ parent'[k] = initproc
    BY <1>19, SMT DEF ReparentChild
  <2> HIDE DEF InitToBeWoken
  <2> QED
    BY <2>1, <2>2, <2>3, <2>4, SMT
<1>20. ASSUME NEW c \in CPUS, NEW p \in Procs, ReparentWake(c, p) PROVE WakeInv'
  <2>0. /\ \A r \in Procs : state'[r] = state[r]
                             \/ (state[r] = "SLEEPING" /\ state'[r] = "RUNNABLE")
        /\ i[p] # p /\ chan[i[p]] = initproc => state'[i[p]] # "SLEEPING"
    BY <1>20, <1>b, SMT DEF ReparentWake
  <2>1. pc[p] = "rwake" /\ p # initproc /\ UNCHANGED <<chan, parent>>
    BY <1>20 DEF ReparentWake, Exiting
  <2>2. \A r \in Procs :
          /\ AsleepInWait(r)' => AsleepInWait(r)
          /\ state'[r] = "ZOMBIE" => state[r] = "ZOMBIE"
    BY <2>0, <2>1
  <2>3. pc'[p] \in {"rwake", "reparent"}
    BY <1>20 DEF ReparentWake
  <2>4. \A q \in Procs \ {p} : pc'[q] = pc[q] /\ pc[q] \notin WaitLocked
    BY <1>20, <1>c DEF ReparentWake
  <2>5. InitToBeWoken => ~AsleepInWait(initproc)'
    <3>1. InitToBeWoken => i[p] = initproc
      BY <2>1, <2>4 DEF initproc
    <3> QED
      BY <2>0, <2>1, <3>1
  <2> HIDE DEF AsleepInWait, InitToBeWoken
  <2> QED
    BY <2>1, <2>2, <2>3, <2>4, <2>5, SMT
<1>21. ASSUME NEW c \in CPUS, NEW p \in Procs, ExitWakeParent(c, p) PROVE WakeInv'
  <2>0. /\ \A r \in Procs : state'[r] = state[r]
                             \/ (state[r] = "SLEEPING" /\ state'[r] = "RUNNABLE")
        /\ i[p] # p /\ chan[i[p]] = parent[p] => state'[i[p]] # "SLEEPING"
    BY <1>21, <1>b DEF ExitWakeParent
  <2>1. pc[p] = "pwake" /\ UNCHANGED <<chan, parent>>
    BY <1>21 DEF ExitWakeParent
  <2>2. \A r \in Procs :
          /\ AsleepInWait(r)' => AsleepInWait(r)
          /\ state'[r] = "ZOMBIE" => state[r] = "ZOMBIE"
    BY <2>0, <2>1
  <2>3. \A q \in Procs \ {p} : pc'[q] = pc[q] /\ pc[q] \notin WaitLocked
    BY <1>21, <1>c DEF ExitWakeParent
  <2>4. ~InitToBeWoken
    BY <2>1, <2>3
  <2>5. parent[p] = i[p] => ~AsleepInWait(parent[p])'
    <3>1. i[p] # p /\ chan[i[p]] = parent[p] => state'[i[p]] # "SLEEPING"
      BY <2>0
    <3>2. parent[p] = i[p] => i[p] # p
      BY SMT
    <3> QED
      BY <2>1, <3>1, <3>2
  <2>6. \A r \in Procs : parent[p] = r /\ AsleepInWait(r)' => i[p] + 1 <= r
    <3>1. i[p] \in Procs /\ \A r \in Procs : parent[p] = r /\ AsleepInWait(r) => i[p] <= r
      BY <2>1, SMT
    <3>2. SUFFICES ASSUME NEW r \in Procs, parent[p] = r, AsleepInWait(r)'
                 PROVE  i[p] + 1 <= r
      OBVIOUS
    <3>3. r # i[p] /\ i[p] <= r
      BY <1>t, <2>1, <2>2, <2>5, <3>1, <3>2
    <3> HIDE DEF AsleepInWait, InitToBeWoken, WakeInv, ScanInv, TreeInv
    <3> QED
      BY <3>1, <3>3, ProcAssumption, SMTT(30) DEF Procs
  <2>7. CASE i[p] = NPROC
    <3>1. pc'[p] = "zombie" /\ \A r \in Procs : parent[p] = r => ~AsleepInWait(r)'
      BY <1>21, <2>6, <2>7, OrderFacts, SMT DEF ExitWakeParent
    <3> HIDE DEF AsleepInWait, InitToBeWoken
    <3> QED
      BY <2>1, <2>2, <2>3, <2>4, <3>1, SMT
  <2>8. CASE i[p] # NPROC
    <3>1. pc'[p] = "pwake" /\ i'[p] = i[p] + 1
      BY <1>21, <2>8 DEF ExitWakeParent
    <3> HIDE DEF AsleepInWait, InitToBeWoken
    <3> QED
      BY <2>1, <2>2, <2>3, <2>4, <2>6, <3>1, SMT
  <2> QED
    BY <2>7, <2>8
<1>22. ASSUME NEW c \in CPUS, NEW p \in Procs, ExitZombie(c, p) PROVE WakeInv'
  BY <1>22, <1>r, SMT DEF ExitZombie
<1>23. ASSUME NEW c \in CPUS, NEW p \in Procs, WaitLock(c, p) PROVE WakeInv'
  BY <1>23, <1>r, SMT DEF WaitLock
<1>24. ASSUME NEW c \in CPUS, NEW p \in Procs, WaitSkip(c, p) PROVE WakeInv'
  BY <1>24, <1>r, SMT DEF WaitSkip
<1>25. ASSUME NEW c \in CPUS, NEW p \in Procs, WaitReap(c, p) PROVE WakeInv'
  BY <1>25, <1>r, SMT DEF WaitReap, freeproc
<1>26. ASSUME NEW c \in CPUS, NEW p \in Procs, WaitBadAddr(c, p) PROVE WakeInv'
  BY <1>26, <1>r, SMT DEF WaitBadAddr
<1>27. ASSUME NEW c \in CPUS, NEW p \in Procs, WaitCheck(c, p) PROVE WakeInv'
  BY <1>27, <1>r, SMT DEF WaitCheck
<1>28. ASSUME NEW c \in CPUS, NEW p \in Procs, WaitSleep(c, p) PROVE WakeInv'
  <2>1. pc[p] = "wsleep" /\ pc'[p] = "slept" /\ UNCHANGED <<parent, i>>
    BY <1>28 DEF WaitSleep
  <2>2. \A q \in Procs \ {p} :
          /\ pc'[q] = pc[q] /\ pc[q] \notin WaitLocked
          /\ state'[q] = state[q] /\ chan'[q] = chan[q]
    BY <1>28, <1>c DEF WaitSleep
  <2>3. ~InitToBeWoken
    BY <2>1, <2>2
  <2>4. state'[p] = "SLEEPING"
    BY <1>28 DEF WaitSleep
  <2> QED
    BY <2>1, <2>2, <2>3, <2>4, SMT
<1>29. ASSUME NEW c \in CPUS, NEW p \in Procs, WaitWoken(c, p) PROVE WakeInv'
  BY <1>29, <1>r, SMT DEF WaitWoken
<1>30. ASSUME NEW c \in CPUS, NEW p \in Procs, KillSkip(c, p) PROVE WakeInv'
  BY <1>30, <1>r, SMT DEF KillSkip
<1>31. ASSUME NEW c \in CPUS, NEW p \in Procs, KillFound(c, p) PROVE WakeInv'
  BY <1>31, <1>r, SMT DEF KillFound
<1>32. ASSUME NEW c \in CPUS, SchedRun(c) PROVE WakeInv'
  BY <1>32, <1>r, SMT DEF SchedRun
<1> HIDE DEF Set, Goto, Free, On, NextSlot, Return, Acquire, Release, sched,
      fields, locks, cpu, thread, TypeOK, FieldTypes, CpuTypes, ThreadTypes,
      ArgInv, Loops, PcInv, WaitLocked, ScanInv, TreeInv, Alive, WakeInv,
      AsleepInWait, InitToBeWoken
<1> QED
  BY <1>2, <1>3, <1>4, <1>5, <1>6, <1>7, <1>8, <1>9, <1>10, <1>11, <1>12,
     <1>13, <1>14, <1>15, <1>16, <1>17, <1>18, <1>19, <1>20, <1>21, <1>22,
     <1>23, <1>24, <1>25, <1>26, <1>27, <1>28, <1>29, <1>30, <1>31, <1>32
  DEF Next, UserStep, TimerStep, KernelStep, SchedStep

\* The invariant holds initially.
LEMMA InitFamily == Init => FamilyInv
<1> SUFFICES ASSUME Init PROVE FamilyInv
  OBVIOUS
<1> USE SlotFacts, OrderFacts DEF Init
<1>1. TreeInv /\ ReparentInv
  BY DEF TreeInv, ReparentInv, Alive, Exiting
<1>2. ScanInv /\ WakeInv
  BY DEF ScanInv, WakeInv, AsleepInWait
<1> QED
  BY <1>1, <1>2 DEF FamilyInv

-----------------------------------------------------------------------------
(* The theorems.                                                           *)

\* The inductive invariant of fork(), exit(), reparent() and wait() holds in
\* every reachable state.
THEOREM FamilyInvariance == Spec => [](CoreInv /\ FamilyInv)
<1>1. ASSUME CoreInv, FamilyInv, [Next]_vars PROVE FamilyInv'
  <2> USE <1>1 DEF CoreInv, FamilyInv
  <2>1. TreeInv' /\ ReparentInv'
    BY TreeStep, ReparentStep
  <2>2. ScanInv' /\ WakeInv'
    BY ScanStep, WakeStep
  <2> QED
    BY <2>1, <2>2
<1> QED
  BY <1>1, InitFamily, CoreInvariance, PTL DEF Spec

\* exit() and wait(): no parent sleeps on while one of its children is a
\* ZOMBIE, for any number of processes.
THEOREM WakeupNotLost == Spec => []NoLostExitWakeup
<1>1. ASSUME CoreInv, FamilyInv PROVE NoLostExitWakeup
  <2> SUFFICES ASSUME wait_lock = NoCpu, NEW q \in Procs, state[q] = "ZOMBIE",
                      NEW p \in Procs, parent[q] = p, AsleepInWait(p)
               PROVE  FALSE
    BY DEF NoLostExitWakeup, AsleepInWait
  <2>1. PICK e \in Procs : pc[e] = "rwake"
    BY <1>1 DEF FamilyInv, WakeInv, InitToBeWoken
  <2>2. state[e] = "RUNNING"
    BY <1>1, <2>1 DEF CoreInv, TypeOK, FieldTypes, States, PcInv, HasOwnLock, Interruptible
  <2>3. PICK c \in CPUS : stack[c] = e
    BY <1>1, <2>2 DEF CoreInv, CpuInv
  <2>4. wait_lock = c
    BY <1>1, <2>1, <2>3, SlotFacts DEF CoreInv, WaitLockInv, WaitLocked
  <2> QED
    BY <2>4, SlotFacts
<1> QED
  BY <1>1, FamilyInvariance, PTL

\* reparent(): every process that ran has a parent alive to wait() for it.
THEOREM LiveParent == Spec => []ChildHasLiveParent
<1>1. FamilyInv => ChildHasLiveParent
  BY SlotFacts DEF FamilyInv, TreeInv, Alive, ChildHasLiveParent
<1> QED
  BY <1>1, FamilyInvariance, PTL
=============================================================================
