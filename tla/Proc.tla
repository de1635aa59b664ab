-------------------------------- MODULE Proc --------------------------------
(***************************************************************************)
(* The process table of kernel/proc.c: allocproc, fork, exit, reparent,    *)
(* wait, kill, yield, sleep, wakeup, sched and the per-CPU scheduler, at   *)
(* the granularity of the spinlocks that protect it.                       *)
(*                                                                         *)
(* A process slot is a number; 0 is the null pointer.  A CPU runs either   *)
(* its scheduler() or the kernel thread of one process; swtch() moves it   *)
(* from one to the other with p->lock held, and the lock is released on    *)
(* the other side.  A critical section that opens and closes one lock and  *)
(* takes no other long-held lock is one step, enabled when the lock is     *)
(* free; a lock that stays held from one step to another (p->lock across   *)
(* swtch(), wait_lock across the scans of exit() and wait()) is state.     *)
(*                                                                         *)
(* Files, the working directory and user memory are outside this module:   *)
(* here fork() may fail for want of memory, and exit() closes nothing.     *)
(***************************************************************************)
EXTENDS Integers, FiniteSets

CONSTANTS NPROC,     \* number of slots in proc[]
          CPUS,      \* the harts
          NoCpu,     \* lk->cpu of a lock nobody holds
          MaxPid,    \* bound: no fork() is started once nextpid exceeds it
          KillPids   \* the pids user programs pass to kill()

ASSUME ProcAssumption ==
  /\ NPROC \in Nat \ {0}
  /\ NoCpu \notin CPUS
  /\ MaxPid \in Nat
  /\ KillPids \subseteq Int

Procs == 1..NPROC
Nil == 0
initproc == 1      \* userinit() runs first, so it gets the first slot

VARIABLES
  state, chan, killed, pid, parent,   \* the fields of struct proc
  nextpid,
  plock,       \* plock[q]: the CPU holding q->lock
  wait_lock,   \* the CPU holding wait_lock
  cproc,       \* cproc[c]: c->proc
  stack,       \* stack[c]: the process whose kernel stack c runs on, Nil in scheduler()
  scan,        \* scan[c]: scheduler()'s loop variable
  pc,          \* pc[p]: where p's kernel thread is (was, if p is not running)
  yielding,    \* yielding[p]: p gave up the CPU in yield(), on top of pc[p]
  i, arg       \* local variables: the slot a loop is at; a child slot or a pid

fields == <<state, chan, killed, pid, parent, nextpid>>
locks == <<plock, wait_lock>>
cpu == <<cproc, stack, scan>>
thread == <<pc, yielding, i, arg>>
vars == <<fields, locks, cpu, thread>>

-----------------------------------------------------------------------------
Free(q) == plock[q] = NoCpu

\* The kernel thread of p is at label l and runs on CPU c.
On(c, p, l) == stack[c] = p /\ ~yielding[p] /\ pc[p] = l

Set(f, q, v) == [f EXCEPT ![q] = v]

Goto(p, l) == pc' = Set(pc, p, l)

\* The loop of p over proc[] moves to the next slot; after the last one it
\* leaves for label l, and the next loop will start at slot 1.
NextSlot(p, l) ==
  /\ i' = Set(i, p, IF i[p] = NPROC THEN 1 ELSE i[p] + 1)
  /\ pc' = IF i[p] = NPROC THEN Set(pc, p, l) ELSE pc

\* The end of a system call, from inside a loop.
Return(p) ==
  /\ Goto(p, "trapret")
  /\ i' = Set(i, p, 1)

\* acquire(&q->lock) by c, kept beyond this step; release(&q->lock).
Acquire(c, q) == Free(q) /\ plock' = Set(plock, q, c)
Release(q) == plock' = Set(plock, q, NoCpu)

\* sched(): c leaves p's stack for its scheduler's, p->lock still held.
sched(c) == stack' = Set(stack, c, Nil)

-----------------------------------------------------------------------------
(* Traps from user space: usertrap() and syscall().                        *)

\* What user programs do: /init forks and waits for ever (user/init.c).
Calls(p) == IF p = initproc THEN {"fork", "wait"} ELSE {"fork", "wait", "exit", "kill"}

\* A trap finds p killed before it does anything else: exit(-1).
UserKilled(c, p) ==
  /\ On(c, p, "user")
  /\ Free(p)
  /\ killed[p]
  /\ Goto(p, "exit")
  /\ UNCHANGED <<fields, locks, cpu, yielding, i, arg>>

\* A system call.
SysCall(c, p) ==
  /\ On(c, p, "user")
  /\ Free(p)
  /\ ~killed[p]
  /\ \/ "fork" \in Calls(p) /\ nextpid <= MaxPid /\ Goto(p, "alloc") /\ UNCHANGED arg
     \/ "wait" \in Calls(p) /\ Goto(p, "wait") /\ UNCHANGED arg
     \/ "exit" \in Calls(p) /\ Goto(p, "exit") /\ UNCHANGED arg
     \/ "kill" \in Calls(p) /\ Goto(p, "kill") /\ \E k \in KillPids : arg' = Set(arg, p, k)
  /\ UNCHANGED <<fields, locks, cpu, yielding, i>>

\* An exception: setkilled(p), and the check after it sends p to exit().
UserFault(c, p) ==
  /\ On(c, p, "user")
  /\ p # initproc
  /\ Free(p)
  /\ killed' = Set(killed, p, TRUE)
  /\ Goto(p, "exit")
  /\ UNCHANGED <<state, chan, pid, parent, nextpid, locks, cpu, yielding, i, arg>>

\* The end of usertrap() after a system call: killed(p), then usertrapret().
TrapRet(c, p) ==
  /\ On(c, p, "trapret")
  /\ Free(p)
  /\ Goto(p, IF killed[p] THEN "exit" ELSE "user")
  /\ arg' = Set(arg, p, 0)      \* the system call's variables are gone
  /\ UNCHANGED <<fields, locks, cpu, yielding, i>>

-----------------------------------------------------------------------------
(* Giving up the CPU.                                                      *)

\* yield(): p becomes RUNNABLE and c goes back to its scheduler.
yield(c, p) ==
  /\ Acquire(c, p)
  /\ state' = Set(state, p, "RUNNABLE")
  /\ sched(c)
  /\ yielding' = Set(yielding, p, TRUE)
  /\ UNCHANGED <<chan, killed, pid, parent, nextpid, wait_lock, cproc, scan, i, arg>>

\* The labels at which p holds no lock, so that interrupts are on.
Interruptible == {"trapret", "alloc", "fork_parent", "fork_run", "exit", "wait", "kill"}

\* A timer interrupt in user space, of a process that is not killed.
UserTimer(c, p) ==
  /\ On(c, p, "user")
  /\ ~killed[p]
  /\ yield(c, p)
  /\ UNCHANGED pc

\* A timer interrupt in the kernel: kerneltrap() yields if p is RUNNING.
KernelTimer(c, p) ==
  /\ \E l \in Interruptible : On(c, p, l)
  /\ cproc[c] # Nil /\ state[p] = "RUNNING"
  /\ yield(c, p)
  /\ UNCHANGED pc

\* yield() resumes: the scheduler handed over p->lock.
YieldReturn(c, p) ==
  /\ stack[c] = p /\ yielding[p]
  /\ Release(p)
  /\ yielding' = Set(yielding, p, FALSE)
  /\ UNCHANGED <<fields, wait_lock, cpu, pc, i, arg>>

\* The first time a process runs, its context is at forkret().
ForkRet(c, p) ==
  /\ On(c, p, "forkret")
  /\ Release(p)
  /\ Goto(p, "user")
  /\ UNCHANGED <<fields, wait_lock, cpu, yielding, i, arg>>

-----------------------------------------------------------------------------
(* fork() and allocproc().                                                 *)

\* freeproc(q), except for memory: the slot's fields as they were at boot.
freeproc(q) ==
  /\ state' = Set(state, q, "UNUSED")
  /\ chan' = Set(chan, q, Nil)
  /\ killed' = Set(killed, q, FALSE)
  /\ pid' = Set(pid, q, 0)
  /\ parent' = Set(parent, q, Nil)

\* allocproc() looks at slot i; a slot in use is passed over.
AllocSkip(c, p) ==
  /\ On(c, p, "alloc")
  /\ Free(i[p])
  /\ state[i[p]] # "UNUSED"
  /\ NextSlot(p, "trapret")      \* no free slot: fork() returns -1
  /\ UNCHANGED <<fields, locks, cpu, yielding, arg>>

\* allocproc() takes slot i and fork() fills it in, under the slot's lock.
AllocFound(c, p) ==
  LET np == i[p] IN
  /\ On(c, p, "alloc")
  /\ Free(np)
  /\ state[np] = "UNUSED"
  /\ nextpid' = nextpid + 1
  /\ pid' = Set(pid, np, nextpid)
  /\ state' = Set(state, np, "USED")
  /\ pc' = [pc EXCEPT ![p] = "fork_parent", ![np] = "forkret"]
  /\ i' = Set(i, p, 1)
  /\ arg' = Set(arg, p, np)
  /\ UNCHANGED <<chan, killed, parent, locks, cpu, yielding>>

\* kalloc(), proc_pagetable() or uvmcopy() fails: freeproc(np) and return -1.
AllocFail(c, p) ==
  LET np == i[p] IN
  /\ On(c, p, "alloc")
  /\ Free(np)
  /\ state[np] = "UNUSED"
  /\ nextpid' = nextpid + 1
  /\ freeproc(np)
  /\ Return(p)
  /\ UNCHANGED <<locks, cpu, yielding, arg>>

\* acquire(&wait_lock); np->parent = p; release(&wait_lock).
ForkParent(c, p) ==
  /\ On(c, p, "fork_parent")
  /\ wait_lock = NoCpu
  /\ parent' = Set(parent, arg[p], p)
  /\ Goto(p, "fork_run")
  /\ UNCHANGED <<state, chan, killed, pid, nextpid, locks, cpu, yielding, i, arg>>

\* acquire(&np->lock); np->state = RUNNABLE; release(&np->lock).
ForkRun(c, p) ==
  /\ On(c, p, "fork_run")
  /\ Free(arg[p])
  /\ state' = Set(state, arg[p], "RUNNABLE")
  /\ Return(p)
  /\ UNCHANGED <<chan, killed, pid, parent, nextpid, locks, cpu, yielding, arg>>

-----------------------------------------------------------------------------
(* exit(): an exiting /init panics, and its CPU stays at label "exit".     *)

\* wakeup(ch) at slot i: q is myproc(), or q's lock is taken for a moment.
wakeup(p, q, ch) ==
  \/ q = p /\ UNCHANGED state
  \/ /\ q # p
     /\ Free(q)
     /\ state' = IF state[q] = "SLEEPING" /\ chan[q] = ch
                 THEN Set(state, q, "RUNNABLE")
                 ELSE state

ExitLock(c, p) ==
  /\ On(c, p, "exit")
  /\ p # initproc
  /\ wait_lock = NoCpu
  /\ wait_lock' = c
  /\ Goto(p, "reparent")
  /\ UNCHANGED <<fields, plock, cpu, yielding, i, arg>>

\* Mutant: reparent() passes over the children in the last slot.
ReparentSkipLast(c, p) ==
  /\ On(c, p, "reparent")
  /\ parent[i[p]] # p \/ i[p] = NPROC
  /\ NextSlot(p, "pwake")
  /\ UNCHANGED <<fields, locks, cpu, yielding, arg>>

\* reparent(p) at slot i: not a child of p ...
ReparentSkip(c, p) ==
  /\ On(c, p, "reparent")
  /\ parent[i[p]] # p
  /\ NextSlot(p, "pwake")
  /\ UNCHANGED <<fields, locks, cpu, yielding, arg>>

\* ... or a child, which goes to init; wakeup(initproc) then runs over proc[].
ReparentChild(c, p) ==
  /\ On(c, p, "reparent")
  /\ parent[i[p]] = p
  /\ parent' = Set(parent, i[p], initproc)
  /\ arg' = Set(arg, p, i[p])
  /\ i' = Set(i, p, 1)
  /\ Goto(p, "rwake")
  /\ UNCHANGED <<state, chan, killed, pid, nextpid, locks, cpu, yielding>>

\* wakeup(initproc) in reparent(); after its last slot reparent() goes on
\* where it was, at the slot arg.
ReparentWake(c, p) ==
  /\ On(c, p, "rwake")
  /\ wakeup(p, i[p], initproc)
  /\ i' = Set(i, p, IF i[p] = NPROC THEN arg[p] ELSE i[p] + 1)
  /\ arg' = IF i[p] = NPROC THEN Set(arg, p, 0) ELSE arg
  /\ Goto(p, IF i[p] = NPROC THEN "reparent" ELSE "rwake")
  /\ UNCHANGED <<chan, killed, pid, parent, nextpid, locks, cpu, yielding>>

\* Mutant: exit() wakes those who wait for p, not p's parent.
ExitWakeSelf(c, p) ==
  /\ On(c, p, "pwake")
  /\ wakeup(p, i[p], p)
  /\ NextSlot(p, "zombie")
  /\ UNCHANGED <<chan, killed, pid, parent, nextpid, locks, cpu, yielding, arg>>

\* wakeup(p->parent): the parent may be sleeping in wait().
ExitWakeParent(c, p) ==
  /\ On(c, p, "pwake")
  /\ wakeup(p, i[p], parent[p])
  /\ NextSlot(p, "zombie")
  /\ UNCHANGED <<chan, killed, pid, parent, nextpid, locks, cpu, yielding, arg>>

\* Mutant: exit() becomes a ZOMBIE without holding p->lock across sched().
ExitZombieUnlocked(c, p) ==
  /\ On(c, p, "zombie")
  /\ Free(p)
  /\ state' = Set(state, p, "ZOMBIE")
  /\ wait_lock' = NoCpu
  /\ sched(c)
  /\ Goto(p, "dead")
  /\ UNCHANGED <<chan, killed, pid, parent, nextpid, plock, cproc, scan, yielding, i, arg>>

\* acquire(&p->lock); ZOMBIE; release(&wait_lock); sched(), never to return.
ExitZombie(c, p) ==
  /\ On(c, p, "zombie")
  /\ Acquire(c, p)
  /\ state' = Set(state, p, "ZOMBIE")
  /\ wait_lock' = NoCpu
  /\ sched(c)
  /\ Goto(p, "dead")
  /\ UNCHANGED <<chan, killed, pid, parent, nextpid, cproc, scan, yielding, i, arg>>

-----------------------------------------------------------------------------
(* wait(), with the sleep(p, &wait_lock) in it.                            *)

WaitLock(c, p) ==
  /\ On(c, p, "wait")
  /\ wait_lock = NoCpu
  /\ wait_lock' = c
  /\ Goto(p, "wscan")
  /\ UNCHANGED <<fields, plock, cpu, yielding, i, arg>>

\* Slot i is not a child, or is one that has not exited.
WaitSkip(c, p) ==
  /\ On(c, p, "wscan")
  /\ \/ parent[i[p]] # p
     \/ parent[i[p]] = p /\ Free(i[p]) /\ state[i[p]] # "ZOMBIE"
  /\ NextSlot(p, "wkilled")
  /\ UNCHANGED <<fields, locks, cpu, yielding, arg>>

\* Slot i is an exited child: free it and return its pid ...
WaitReap(c, p) ==
  /\ On(c, p, "wscan")
  /\ parent[i[p]] = p /\ Free(i[p]) /\ state[i[p]] = "ZOMBIE"
  /\ freeproc(i[p])
  /\ wait_lock' = NoCpu
  /\ Return(p)
  /\ UNCHANGED <<nextpid, plock, cpu, yielding, arg>>

\* ... unless copyout() of its status fails: return -1, the child stays.
WaitBadAddr(c, p) ==
  /\ On(c, p, "wscan")
  /\ p # initproc               \* /init passes a null address
  /\ parent[i[p]] = p /\ Free(i[p]) /\ state[i[p]] = "ZOMBIE"
  /\ wait_lock' = NoCpu
  /\ Return(p)
  /\ UNCHANGED <<fields, plock, cpu, yielding, arg>>

\* Mutant: wait() releases wait_lock before it calls sleep().
WaitCheckEarly(c, p) ==
  /\ On(c, p, "wkilled")
  /\ LET havekids == \E q \in Procs : parent[q] = p IN
     \/ /\ ~havekids \/ (Free(p) /\ killed[p])
        /\ Return(p)
     \/ /\ havekids /\ Free(p) /\ ~killed[p]
        /\ Goto(p, "wsleep")
        /\ UNCHANGED i
  /\ wait_lock' = NoCpu
  /\ UNCHANGED <<fields, plock, cpu, yielding, arg>>

\* if(!havekids || killed(p)) return -1.  The local havekids is the
\* quantifier: wait_lock, which protects parent, was held during the scan.
WaitCheck(c, p) ==
  /\ On(c, p, "wkilled")
  /\ LET havekids == \E q \in Procs : parent[q] = p IN
     \/ /\ ~havekids \/ (Free(p) /\ killed[p])
        /\ wait_lock' = NoCpu
        /\ Return(p)
     \/ /\ havekids /\ Free(p) /\ ~killed[p]
        /\ Goto(p, "wsleep")
        /\ UNCHANGED <<wait_lock, i>>
  /\ UNCHANGED <<fields, plock, cpu, yielding, arg>>

\* sleep(p, &wait_lock) up to the switch.
WaitSleep(c, p) ==
  /\ On(c, p, "wsleep")
  /\ Acquire(c, p)
  /\ wait_lock' = NoCpu
  /\ chan' = Set(chan, p, p)
  /\ state' = Set(state, p, "SLEEPING")
  /\ sched(c)
  /\ Goto(p, "slept")
  /\ UNCHANGED <<killed, pid, parent, nextpid, cproc, scan, yielding, i, arg>>

\* sleep() resumes: tidy up, release p->lock, then acquire wait_lock again.
WaitWoken(c, p) ==
  /\ On(c, p, "slept")
  /\ chan' = Set(chan, p, Nil)
  /\ Release(p)
  /\ Goto(p, "wait")
  /\ UNCHANGED <<state, killed, pid, parent, nextpid, wait_lock, cpu, yielding, i, arg>>

-----------------------------------------------------------------------------
(* kill().                                                                 *)

KillSkip(c, p) ==
  /\ On(c, p, "kill")
  /\ Free(i[p])
  /\ pid[i[p]] # arg[p]
  /\ NextSlot(p, "trapret")     \* no such pid: return -1
  /\ UNCHANGED <<fields, locks, cpu, yielding, arg>>

KillFound(c, p) ==
  LET q == i[p] IN
  /\ On(c, p, "kill")
  /\ Free(q)
  /\ pid[q] = arg[p]
  /\ killed' = Set(killed, q, TRUE)
  /\ state' = IF state[q] = "SLEEPING" THEN Set(state, q, "RUNNABLE") ELSE state
  /\ Return(p) /\ arg' = Set(arg, p, 0)
  /\ UNCHANGED <<chan, pid, parent, nextpid, locks, cpu, yielding>>

-----------------------------------------------------------------------------
(* scheduler().                                                            *)

ScanNext(c) == scan' = Set(scan, c, IF scan[c] = NPROC THEN 1 ELSE scan[c] + 1)

\* The slot is not RUNNABLE: release its lock and look at the next one.
SchedSkip(c) ==
  /\ stack[c] = Nil /\ cproc[c] = Nil
  /\ Free(scan[c])
  /\ state[scan[c]] # "RUNNABLE"
  /\ ScanNext(c)
  /\ UNCHANGED <<fields, locks, cproc, stack, thread>>

\* The slot is RUNNABLE: switch to it with its lock held.
SchedRun(c) ==
  LET p == scan[c] IN
  /\ stack[c] = Nil /\ cproc[c] = Nil
  /\ Acquire(c, p)
  /\ state[p] = "RUNNABLE"
  /\ state' = Set(state, p, "RUNNING")
  /\ cproc' = Set(cproc, c, p)
  /\ stack' = Set(stack, c, p)
  /\ UNCHANGED <<chan, killed, pid, parent, nextpid, wait_lock, scan, thread>>

\* Mutant: scheduler() starts over at the first slot after each process.
SchedBackFirst(c) ==
  /\ stack[c] = Nil /\ cproc[c] # Nil
  /\ Release(cproc[c])
  /\ cproc' = Set(cproc, c, Nil)
  /\ scan' = Set(scan, c, 1)
  /\ UNCHANGED <<fields, wait_lock, stack, thread>>

\* The process switched back: c->proc = 0; release(&p->lock).
SchedBack(c) ==
  /\ stack[c] = Nil /\ cproc[c] # Nil
  /\ Release(cproc[c])
  /\ cproc' = Set(cproc, c, Nil)
  /\ ScanNext(c)
  /\ UNCHANGED <<fields, wait_lock, stack, thread>>

-----------------------------------------------------------------------------
\* After userinit(): /init is RUNNABLE, every CPU is in scheduler().
Init ==
  /\ state = [q \in Procs |-> IF q = initproc THEN "RUNNABLE" ELSE "UNUSED"]
  /\ chan = [q \in Procs |-> Nil]
  /\ killed = [q \in Procs |-> FALSE]
  /\ pid = [q \in Procs |-> IF q = initproc THEN 1 ELSE 0]
  /\ parent = [q \in Procs |-> Nil]
  /\ nextpid = 2
  /\ plock = [q \in Procs |-> NoCpu]
  /\ wait_lock = NoCpu
  /\ cproc = [c \in CPUS |-> Nil]
  /\ stack = [c \in CPUS |-> Nil]
  /\ scan = [c \in CPUS |-> 1]
  /\ pc = [q \in Procs |-> IF q = initproc THEN "forkret" ELSE "dead"]
  /\ yielding = [q \in Procs |-> FALSE]
  /\ i = [q \in Procs |-> 1]
  /\ arg = [q \in Procs |-> 0]

\* What a user program decides to do, and what a device does to it.
UserStep(c, p) == SysCall(c, p) \/ UserFault(c, p)
TimerStep(c, p) == UserTimer(c, p) \/ KernelTimer(c, p) \/ UserKilled(c, p)

\* What the kernel does for p once p is in it.
KernelStep(c, p) ==
  \/ TrapRet(c, p) \/ ForkRet(c, p)
  \/ AllocSkip(c, p) \/ AllocFound(c, p) \/ AllocFail(c, p)
  \/ ForkParent(c, p) \/ ForkRun(c, p)
  \/ ExitLock(c, p) \/ ReparentSkip(c, p) \/ ReparentChild(c, p)
  \/ ReparentWake(c, p) \/ ExitWakeParent(c, p) \/ ExitZombie(c, p)
  \/ WaitLock(c, p) \/ WaitSkip(c, p) \/ WaitReap(c, p) \/ WaitBadAddr(c, p)
  \/ WaitCheck(c, p) \/ WaitSleep(c, p) \/ WaitWoken(c, p)
  \/ KillSkip(c, p) \/ KillFound(c, p)

SchedStep(c) == SchedSkip(c) \/ SchedRun(c) \/ SchedBack(c)

Next ==
  \E c \in CPUS :
    \/ SchedStep(c)
    \/ \E p \in Procs : \/ UserStep(c, p) \/ TimerStep(c, p)
                         \/ YieldReturn(c, p) \/ KernelStep(c, p)

Spec == Init /\ [][Next]_vars

(***************************************************************************)
(* Fairness.  A CPU in scheduler() keeps looping and one that resumed a    *)
(* yield() goes on.  The timer interrupts every CPU for ever               *)
(* (kernel/start.c: timerinit), and a tick that comes while interrupts are *)
(* off stays pending.  A spinlock is not fair, so a step that needs one is *)
(* only assumed to happen if it is possible again and again.               *)
(***************************************************************************)
Fairness ==
  /\ \A c \in CPUS :
       /\ SF_vars(SchedStep(c))
       /\ SF_vars(\E p \in Procs : TimerStep(c, p))
       /\ WF_vars(\E p \in Procs : YieldReturn(c, p))
  /\ \A p \in Procs : SF_vars(\E c \in CPUS : KernelStep(c, p))

FairSpec == Spec /\ Fairness

-----------------------------------------------------------------------------
(* Properties.                                                             *)

States == {"UNUSED", "USED", "SLEEPING", "RUNNABLE", "RUNNING", "ZOMBIE"}

Labels == {"user", "trapret", "forkret", "alloc", "fork_parent", "fork_run",
           "exit", "reparent", "rwake", "pwake", "zombie", "dead",
           "wait", "wscan", "wkilled", "wsleep", "slept", "kill"}

FieldTypes ==
  /\ state \in [Procs -> States]
  /\ chan \in [Procs -> Procs \cup {Nil}]
  /\ killed \in [Procs -> BOOLEAN]
  /\ pid \in [Procs -> Nat]
  /\ parent \in [Procs -> Procs \cup {Nil}]
  /\ nextpid \in Nat

LockTypes ==
  /\ plock \in [Procs -> CPUS \cup {NoCpu}]
  /\ wait_lock \in CPUS \cup {NoCpu}

CpuTypes ==
  /\ cproc \in [CPUS -> Procs \cup {Nil}]
  /\ stack \in [CPUS -> Procs \cup {Nil}]
  /\ scan \in [CPUS -> Procs]

ThreadTypes ==
  /\ pc \in [Procs -> Labels]
  /\ yielding \in [Procs -> BOOLEAN]
  /\ i \in [Procs -> Procs]
  /\ arg \in [Procs -> Int]

\* Every variable has the type the C declarations give it; in particular the
\* loops over proc[] stay inside it.
TypeOK == FieldTypes /\ LockTypes /\ CpuTypes /\ ThreadTypes

\* A kernel stack has one user: a process that a CPU runs is RUNNING, and no
\* other CPU runs it or is still switching away from it.  So the scheduler
\* never starts a process another CPU is leaving, and wait() never frees one
\* ("make sure the child isn't still in exit() or swtch()").
KernelStackExclusive ==
  \A c \in CPUS, p \in Procs :
    cproc[c] = p =>
      /\ \A d \in CPUS \ {c} : cproc[d] # p /\ stack[d] # p
      /\ state[p] # "UNUSED"
      /\ stack[c] = p => state[p] = "RUNNING"

\* The locks CPU c holds: slot numbers, and 0 for wait_lock.
Held(c) == {q \in Procs : plock[q] = c} \cup {q \in {0} : wait_lock = c}

\* The checks of sched() never panic: a CPU that went through sched() holds
\* the lock of the process it left and no other.  A CPU looking for work in
\* scheduler(), or in user space, holds none.
SchedHoldsOneLock ==
  \A c \in CPUS :
    /\ stack[c] = Nil => Held(c) = {cproc[c]} \ {Nil}
    /\ \A p \in Procs : On(c, p, "user") => Held(c) = {}

\* No wakeup is lost between wait() and exit(): with wait_lock free, no process
\* sleeps in wait() while it has a child that already is a ZOMBIE.
NoLostExitWakeup ==
  wait_lock = NoCpu =>
    \A q \in Procs : state[q] = "ZOMBIE" =>
      \A p \in Procs : parent[q] = p => ~(state[p] = "SLEEPING" /\ chan[p] = p)

\* Nobody is lost: with wait_lock free, every process that ever ran, except
\* /init, has a parent that has not exited and so can still wait() for it.
ChildHasLiveParent ==
  wait_lock = NoCpu =>
    \A q \in Procs \ {initproc} :
      state[q] \notin {"UNUSED", "USED"} =>
        /\ parent[q] # Nil
        /\ state[parent[q]] \notin {"UNUSED", "USED", "ZOMBIE"}

\* The pid identifies a process: two slots in use never have the same one,
\* and none has a pid still to be given out by allocpid().
DistinctPids ==
  \A q, r \in Procs :
    state[q] # "UNUSED" =>
      /\ pid[q] \in 1..(nextpid - 1)
      /\ (q # r /\ state[r] # "UNUSED") => pid[q] # pid[r]

\* A parent in wait() with a child that has exited returns from wait().
WaitReturns ==
  \A p \in Procs :
    (/\ pc[p] \in {"wait", "wscan", "wkilled", "wsleep", "slept"}
     /\ \E q \in Procs : parent[q] = p /\ state[q] = "ZOMBIE")
      ~> pc[p] = "trapret"

\* The scheduler starves nobody: a RUNNABLE process gets a CPU.
RunnableRuns == \A p \in Procs : state[p] = "RUNNABLE" ~> state[p] = "RUNNING"

=============================================================================
