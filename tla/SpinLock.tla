------------------------------ MODULE SpinLock ------------------------------
(***************************************************************************)
(* The spinlocks of kernel/spinlock.c: acquire() and release() by their    *)
(* memory accesses, push_off() and pop_off(), and what must stay true of   *)
(* them across interrupts (kerneltrap() in trap.c) and across the switch   *)
(* from a kernel thread to a scheduler, perhaps to resume on another CPU   *)
(* (sched(), scheduler(), sleep(), yield() in proc.c).                     *)
(*                                                                         *)
(* An activity is a kernel thread or the scheduler of a CPU.  It has two   *)
(* frames: 0 is its own code, 1 the code of an interrupt that has trapped  *)
(* on top of it.                                                           *)
(***************************************************************************)
EXTENDS Integers, FiniteSets

CONSTANTS CPUs, NoCpu,
          Threads,        \* kernel threads; t also names its p->lock
          Devs            \* the other locks, numbered in the order they nest

ASSUME LockAssumption ==
  /\ Devs \subseteq Nat
  /\ NoCpu \notin CPUs
  /\ CPUs \cap Threads = {} /\ Devs \cap Threads = {}

Locks == Threads \cup Devs
Frames == (Threads \cup CPUs) \X {0, 1}

VARIABLES
  locked, lcpu,        \* struct spinlock: locked, cpu
  noff, intena,        \* struct cpu
  intr,                \* SIE: interrupts enabled on the CPU
  cur,                 \* what each CPU executes: c->proc, or c for scheduler()
  state,               \* p->state: RUNNING, or else it may be scheduled
  trap,                \* the frame each activity is in
  pc, lk, ret,         \* each frame: label, lock of acquire/release, where it returns
  saved,               \* variable intena of sched()
  slk,                 \* parameter lk of sleep()
  held, want           \* auxiliary: the locks a frame is in, and whether its
                       \* code, locks apart, has interrupts enabled

lockvars == <<locked, lcpu>>
cpuvars == <<noff, intena, intr>>
flow == <<pc, lk, ret>>
vars == <<lockvars, cpuvars, cur, state, trap, flow, saved, slk, held, want>>

-----------------------------------------------------------------------------
frame(c) == <<cur[c], trap[cur[c]]>>
holding(c, l) == locked[l] /\ lcpu[l] = c

push_off(c) ==
  /\ intr' = [intr EXCEPT ![c] = FALSE]
  /\ intena' = IF noff[c] = 0 THEN [intena EXCEPT ![c] = intr[c]] ELSE intena
  /\ noff' = [noff EXCEPT ![c] = @ + 1]

pop_off(c) ==
  /\ noff' = [noff EXCEPT ![c] = @ - 1]
  /\ intr' = [intr EXCEPT ![c] = noff[c] = 1 /\ intena[c]]
  /\ UNCHANGED intena

\* acquire() and release(), and their return.
Call(f, l, label, next) ==
  /\ pc' = [pc EXCEPT ![f] = label]
  /\ lk' = [lk EXCEPT ![f] = l]
  /\ ret' = [ret EXCEPT ![f] = next]

Return(f) ==
  /\ pc' = [pc EXCEPT ![f] = ret[f]]
  /\ lk' = [lk EXCEPT ![f] = NoCpu]
  /\ ret' = [ret EXCEPT ![f] = "run"]

\* Mutant: acquire() records the CPU before it has the lock.
acquireEarly(c, l, next) ==
  /\ push_off(c)
  /\ lcpu' = [lcpu EXCEPT ![l] = c]
  /\ Call(frame(c), l, "swap", next)
  /\ UNCHANGED locked

\* The frame c executes calls acquire(l), and will go on at next.
acquire(c, l, next) ==
  /\ push_off(c)
  /\ Call(frame(c), l, "swap", next)
  /\ UNCHANGED lockvars

\* __sync_lock_test_and_set() finds the lock free.
Swap(c) ==
  LET f == frame(c) IN
  /\ pc[f] = "swap"
  /\ ~locked[lk[f]]
  /\ locked' = [locked EXCEPT ![lk[f]] = TRUE]
  /\ held' = [held EXCEPT ![f] = @ \cup {lk[f]}]
  /\ pc' = [pc EXCEPT ![f] = "own"]
  /\ UNCHANGED <<lcpu, cpuvars, cur, state, trap, lk, ret, saved, slk, want>>

\* lk->cpu = mycpu().
Own(c) ==
  LET f == frame(c) IN
  /\ pc[f] = "own"
  /\ lcpu' = [lcpu EXCEPT ![lk[f]] = c]
  /\ Return(f)
  /\ UNCHANGED <<locked, cpuvars, cur, state, trap, saved, slk, held, want>>

\* The frame c executes calls release(l), and will go on at next.
release(c, l, next) ==
  /\ lcpu' = [lcpu EXCEPT ![l] = NoCpu]
  /\ Call(frame(c), l, "unlock", next)
  /\ UNCHANGED <<locked, cpuvars>>

\* __sync_lock_release().
Unlock(c) ==
  LET f == frame(c) IN
  /\ pc[f] = "unlock"
  /\ locked' = [locked EXCEPT ![lk[f]] = FALSE]
  /\ held' = [held EXCEPT ![f] = @ \ {lk[f]}]
  /\ pc' = [pc EXCEPT ![f] = "pop"]
  /\ UNCHANGED <<lcpu, cpuvars, cur, state, trap, lk, ret, saved, slk, want>>

Pop(c) ==
  LET f == frame(c) IN
  /\ pc[f] = "pop"
  /\ pop_off(c)
  /\ Return(f)
  /\ UNCHANGED <<lockvars, cur, state, trap, saved, slk, held, want>>

-----------------------------------------------------------------------------
(* Kernel code, in a system call or an interrupt handler.                  *)

InRun(c) == pc[frame(c)] = "run" /\ (cur[c] \in Threads \/ trap[cur[c]] = 1)
Rest == <<cur, state, trap, saved, held, want>>

\* It takes a lock: in the order they nest, or that of another process, which
\* comes last (wakeup(), kill(), wait()).
Take(c, l) ==
  LET H == held[frame(c)] IN
  /\ InRun(c)
  /\ H \subseteq Devs
  /\ l \in Devs => \A m \in H : m < l
  /\ l # cur[c]
  /\ acquire(c, l, "run")
  /\ UNCHANGED <<Rest, slk>>

Release(c, l) ==
  /\ InRun(c)
  /\ l \in held[frame(c)]
  /\ release(c, l, "run")
  /\ UNCHANGED <<Rest, slk>>

\* intr_on() in usertrap(), intr_off() in usertrapret().
SetIntr(c, on) ==
  /\ InRun(c)
  /\ trap[cur[c]] = 0
  /\ held[frame(c)] = {}
  /\ intr' = [intr EXCEPT ![c] = on]
  /\ want' = [want EXCEPT ![frame(c)] = on]
  /\ UNCHANGED <<lockvars, noff, intena, cur, state, trap, flow, saved, slk, held>>

\* yield(), in kerneltrap() too.
yield(c) ==
  /\ InRun(c)
  /\ cur[c] \in Threads
  /\ held[frame(c)] = {}
  /\ acquire(c, cur[c], "sched")
  /\ slk' = [slk EXCEPT ![frame(c)] = NoCpu]
  /\ UNCHANGED Rest

\* sleep(chan, l): acquire(&p->lock), then release(l).
sleep(c, l) ==
  /\ InRun(c)
  /\ trap[cur[c]] = 0
  /\ l \in Devs /\ held[frame(c)] = {l}
  /\ acquire(c, cur[c], "sleep")
  /\ slk' = [slk EXCEPT ![frame(c)] = l]
  /\ UNCHANGED Rest

SleepRelease(c) ==
  /\ pc[frame(c)] = "sleep"
  /\ release(c, slk[frame(c)], "sched")
  /\ UNCHANGED <<Rest, slk>>

\* sched(), up to the scheduler's side of swtch(); p->lock changes hands.
sched(c) ==
  LET p == cur[c] IN
  /\ pc[frame(c)] = "sched"
  /\ state' = [state EXCEPT ![p] = "RUNNABLE"]
  /\ saved' = [saved EXCEPT ![p] = intena[c]]
  /\ cur' = [cur EXCEPT ![c] = c]
  /\ held' = [held EXCEPT ![frame(c)] = @ \ {p}, ![<<c, 0>>] = @ \cup {p}]
  /\ pc' = [pc EXCEPT ![frame(c)] = "back"]
  /\ UNCHANGED <<lockvars, cpuvars, trap, lk, ret, slk, want>>

\* Back from sched(), in yield() or sleep().
Resume(c) ==
  /\ pc[frame(c)] = "back" /\ cur[c] \in Threads
  /\ release(c, cur[c], IF slk[frame(c)] = NoCpu THEN "run" ELSE "again")
  /\ UNCHANGED <<Rest, slk>>

SleepAcquire(c) ==
  /\ pc[frame(c)] = "again"
  /\ acquire(c, slk[frame(c)], "run")
  /\ UNCHANGED <<Rest, slk>>

\* forkret(): release(&p->lock), then intr_off() in usertrapret().
forkret(c) ==
  /\ pc[frame(c)] = "new"
  /\ release(c, cur[c], "first")
  /\ UNCHANGED <<Rest, slk>>

FirstReturn(c) ==
  /\ pc[frame(c)] = "first"
  /\ intr' = [intr EXCEPT ![c] = FALSE]
  /\ want' = [want EXCEPT ![frame(c)] = FALSE]
  /\ pc' = [pc EXCEPT ![frame(c)] = "run"]
  /\ UNCHANGED <<lockvars, noff, intena, cur, state, trap, lk, ret, saved, slk, held>>

-----------------------------------------------------------------------------
(* scheduler(), and interrupts.                                            *)

\* The head of the outer loop: intr_on().
SchedTop(c) ==
  /\ cur[c] = c /\ trap[c] = 0
  /\ pc[<<c, 0>>] = "run"
  /\ intr' = [intr EXCEPT ![c] = TRUE]
  /\ UNCHANGED <<lockvars, noff, intena, flow, slk, Rest>>

SchedAcquire(c, p) ==
  /\ cur[c] = c /\ trap[c] = 0
  /\ pc[<<c, 0>>] = "run"
  /\ acquire(c, p, "pick")
  /\ UNCHANGED <<slk, Rest>>

\* Mutant: sched() does not give the thread its intena back.
SwitchNoRestore(c, p) ==
  LET f == <<p, trap[p]>> IN
  /\ cur[c] = c /\ trap[c] = 0
  /\ p \in held[<<c, 0>>]
  /\ pc[<<c, 0>>] = "pick" /\ state[p] = "RUNNABLE"
  /\ state' = [state EXCEPT ![p] = "RUNNING"]
  /\ cur' = [cur EXCEPT ![c] = p]
  /\ held' = [held EXCEPT ![<<c, 0>>] = @ \ {p}, ![f] = @ \cup {p}]
  /\ pc' = [pc EXCEPT ![<<c, 0>>] = "back"]
  /\ UNCHANGED <<lockvars, cpuvars, trap, lk, ret, saved, slk, want>>

\* swtch() to p, and in p the end of sched(): mycpu()->intena = intena.
Switch(c, p) ==
  LET f == <<p, trap[p]>> IN
  /\ cur[c] = c /\ trap[c] = 0
  /\ p \in held[<<c, 0>>]
  /\ pc[<<c, 0>>] = "pick" /\ state[p] = "RUNNABLE"
  /\ state' = [state EXCEPT ![p] = "RUNNING"]
  /\ cur' = [cur EXCEPT ![c] = p]
  /\ held' = [held EXCEPT ![<<c, 0>>] = @ \ {p}, ![f] = @ \cup {p}]
  /\ pc' = [pc EXCEPT ![<<c, 0>>] = "back"]
  /\ intena' = IF pc[f] = "new" THEN intena ELSE [intena EXCEPT ![c] = saved[p]]
  /\ saved' = [saved EXCEPT ![p] = FALSE]
  /\ UNCHANGED <<lockvars, noff, intr, trap, lk, ret, slk, want>>

\* release(&p->lock): p was not RUNNABLE, or has come back.
SchedRelease(c, p) ==
  /\ cur[c] = c /\ trap[c] = 0
  /\ p \in held[<<c, 0>>]
  /\ \/ pc[<<c, 0>>] = "pick" /\ state[p] # "RUNNABLE"
     \/ pc[<<c, 0>>] = "back"
  /\ release(c, p, "run")
  /\ UNCHANGED <<slk, Rest>>

\* An interrupt: kerneltrap() runs with interrupts off.
Trap(c) ==
  /\ intr[c]
  /\ trap[cur[c]] = 0
  /\ trap' = [trap EXCEPT ![cur[c]] = 1]
  /\ intr' = [intr EXCEPT ![c] = FALSE]
  /\ UNCHANGED <<lockvars, noff, intena, cur, state, flow, saved, slk, held, want>>

\* kerneltrap() returns: sret restores SIE.
TrapRet(c) ==
  /\ trap[cur[c]] = 1
  /\ pc[frame(c)] = "run" /\ held[frame(c)] = {}
  /\ trap' = [trap EXCEPT ![cur[c]] = 0]
  /\ intr' = [intr EXCEPT ![c] = TRUE]
  /\ UNCHANGED <<lockvars, noff, intena, cur, state, flow, saved, slk, held, want>>

-----------------------------------------------------------------------------
\* Schedulers start with interrupts off (main()); every thread is new.
Init ==
  /\ locked = [l \in Locks |-> FALSE] /\ lcpu = [l \in Locks |-> NoCpu]
  /\ noff = [c \in CPUs |-> 0] /\ intena = [c \in CPUs |-> FALSE]
  /\ intr = [c \in CPUs |-> FALSE]
  /\ cur = [c \in CPUs |-> c]
  /\ state = [p \in Threads |-> "RUNNABLE"]
  /\ trap = [a \in Threads \cup CPUs |-> 0]
  /\ pc = [f \in Frames |-> IF f \in Threads \X {0} THEN "new" ELSE "run"]
  /\ lk = [f \in Frames |-> NoCpu] /\ ret = [f \in Frames |-> "run"]
  /\ saved = [p \in Threads |-> FALSE]
  /\ slk = [f \in Frames |-> NoCpu]
  /\ held = [f \in Frames |-> {}] /\ want = [f \in Frames |-> FALSE]

\* Steps inside acquire(), release() and the switch, which the code just goes on with.
Go(c) ==
  \/ Own(c) \/ Unlock(c) \/ Pop(c) \/ SleepRelease(c) \/ sched(c) \/ Resume(c) \/ SleepAcquire(c)
  \/ forkret(c) \/ FirstReturn(c)
  \/ \E p \in Threads : Switch(c, p) \/ SchedRelease(c, p)

Next ==
  \E c \in CPUs :
    \/ Swap(c) \/ Go(c) \/ yield(c) \/ SchedTop(c) \/ Trap(c) \/ TrapRet(c)
    \/ \E l \in Locks : Take(c, l) \/ Release(c, l) \/ sleep(c, l)
    \/ \E on \in BOOLEAN : SetIntr(c, on)
    \/ \E p \in Threads : SchedAcquire(c, p)

Spec == Init /\ [][Next]_vars

-----------------------------------------------------------------------------
(* Properties.                                                             *)

Labels == {"run", "swap", "own", "unlock", "pop", "sleep", "sched", "back", "again",
           "new", "first", "pick"}

\* The types of the C declarations; noff does not go below 0.
TypeOK ==
  /\ locked \in [Locks -> BOOLEAN] /\ lcpu \in [Locks -> CPUs \cup {NoCpu}]
  /\ noff \in [CPUs -> Nat] /\ intena \in [CPUs -> BOOLEAN] /\ intr \in [CPUs -> BOOLEAN]
  /\ cur \in [CPUs -> Threads \cup CPUs]
  /\ state \in [Threads -> {"RUNNING", "RUNNABLE"}]
  /\ trap \in [Threads \cup CPUs -> {0, 1}]
  /\ pc \in [Frames -> Labels] /\ lk \in [Frames -> Locks \cup {NoCpu}]
  /\ ret \in [Frames -> Labels]
  /\ saved \in [Threads -> BOOLEAN] /\ slk \in [Frames -> Devs \cup {NoCpu}]
  /\ held \in [Frames -> SUBSET Locks] /\ want \in [Frames -> BOOLEAN]

\* Between the calls of acquire() and release() for l, by the code of frame f.
Inside(f, l) == l \in held[f] /\ ~(pc[f] \in {"own", "unlock"} /\ lk[f] = l)

\* Mutual exclusion, and holding() can be trusted: it is true of the CPU that
\* executes the critical section, wherever the thread was when it began, and
\* of no other.
HoldingIsExact ==
  \A l \in Locks :
    /\ \A f, g \in Frames : l \in held[f] \cap held[g] => f = g
    /\ \A c \in CPUs : holding(c, l) <=> \E k \in {0, 1} : Inside(<<cur[c], k>>, l)

\* push_off() and pop_off() nest: with any lock held interrupts are off on that
\* CPU, so that an interrupt handler cannot find a lock held by the code it
\* interrupted; and a thread that is back outside all critical sections has
\* them as it had set them, though it may have slept, been preempted and
\* changed CPU.
IntrRestored ==
  \A c \in CPUs :
    /\ (\E k \in {0, 1} : held[<<cur[c], k>>] # {}) => ~intr[c]
    /\ cur[c] \in Threads /\ pc[frame(c)] = "run" /\ held[frame(c)] = {}
       => noff[c] = 0 /\ intr[c] = want[frame(c)]
=============================================================================
