------------------------------- MODULE Trap ---------------------------------
(***************************************************************************)
(* Traps and time: usertrap(), usertrapret(), clockintr() and devintr() of *)
(* kernel/trap.c, sys_sleep(), sys_uptime() and sys_kill() of              *)
(* kernel/sysproc.c with kill(), killed() and setkilled() as they meet.    *)
(*                                                                         *)
(* A process goes from user space into the kernel by a system call, a      *)
(* timer interrupt or a fault, and back.  The tick counter wraps, as the   *)
(* unsigned int that it is.  Another process may be killed between any two *)
(* steps.                                                                  *)
(***************************************************************************)
EXTENDS Integers

CONSTANTS Procs,
          UINT,         \* values of an unsigned int (2^32)
          SleepArgs,    \* arguments of sleep(), ints
          MaxLate       \* ticks before a process that was woken runs again

VARIABLES
  ticks,     \* the tick counter
  tickslock, \* the set with the holder of tickslock, or empty
  pc,        \* pc[p]: where process p is
  killed,    \* killed[p]: p->killed
  arg,       \* arg[p]: n and ticks0 of sys_sleep()
  passed,    \* passed[p]: ticks since sys_sleep() read ticks0, for the properties
  late       \* late[p]: ticks since p was woken

vars == <<ticks, tickslock, pc, killed, arg, passed, late>>

NoArg == [n |-> 0, ticks0 |-> 0]

Init ==
  /\ ticks = 0 /\ tickslock = {}
  /\ pc = [p \in Procs |-> "user"]
  /\ killed = [p \in Procs |-> FALSE]
  /\ arg = [p \in Procs |-> NoArg]
  /\ passed = [p \in Procs |-> 0]
  /\ late = [p \in Procs |-> 0]

Goto(p, from, to) == pc[p] = from /\ pc' = [pc EXCEPT ![p] = to]
Time == <<ticks, tickslock, arg, passed, late>>

-----------------------------------------------------------------------------
(* usertrap()                                                              *)

\* A system call; a process that is killed already does not start it.
Ecall(p) ==
  /\ Goto(p, "user", IF killed[p] THEN "zombie" ELSE "syscall")
  /\ UNCHANGED <<Time, killed>>

\* A timer interrupt in user space: yield(), and back.
TimerInterrupt(p) ==
  /\ Goto(p, "user", "post")
  /\ UNCHANGED <<Time, killed>>

\* An exception: setkilled().
Fault(p) ==
  /\ Goto(p, "user", "post")
  /\ killed' = [killed EXCEPT ![p] = TRUE]
  /\ UNCHANGED Time

\* Mutant: usertrap() looks at p->killed only before a system call.
AfterTrapUnchecked(p) == "ret"

\* The end of usertrap().
AfterTrap(p) == IF killed[p] THEN "zombie" ELSE "ret"

Post(p) == Goto(p, "post", AfterTrap(p)) /\ UNCHANGED <<Time, killed>>

\* usertrapret().
Return(p) == Goto(p, "ret", "user") /\ UNCHANGED <<Time, killed>>

-----------------------------------------------------------------------------
(* System calls.                                                           *)

\* kill(): a process asleep is woken.
Kill(p, q) ==
  /\ pc[p] = "syscall"
  /\ killed' = [killed EXCEPT ![q] = TRUE]
  /\ pc' = [r \in Procs |-> IF r = p THEN "post" ELSE IF r = q /\ pc[q] = "asleep" THEN "woken" ELSE pc[r]]
  /\ UNCHANGED Time

\* sys_uptime(), and any other call that does not wait.
Uptime(p) == tickslock = {} /\ Goto(p, "syscall", "post") /\ UNCHANGED <<Time, killed>>

Sleep(p, n) ==
  /\ tickslock = {} /\ tickslock' = {p}
  /\ Goto(p, "syscall", "loop")
  /\ arg' = [arg EXCEPT ![p] = [n |-> n, ticks0 |-> ticks]]
  /\ passed' = [passed EXCEPT ![p] = 0]
  /\ UNCHANGED <<ticks, killed, late>>

\* Mutant: the difference is taken in a wider type, where it does not wrap.
TooEarlyWide(p) == ticks - arg[p].ticks0 < arg[p].n

\* ticks - ticks0 < n, all of them unsigned.
TooEarly(p) == (ticks - arg[p].ticks0) % UINT < arg[p].n % UINT

\* One round of the loop of sys_sleep(), with tickslock.
Loop(p) ==
  \/ /\ TooEarly(p) /\ ~killed[p]
     /\ Goto(p, "loop", "sleep")
     /\ UNCHANGED <<Time, killed>>
  \/ /\ ~TooEarly(p) \/ killed[p]
     /\ Goto(p, "loop", "post") /\ tickslock' = {}
     /\ arg' = [arg EXCEPT ![p] = NoArg] /\ passed' = [passed EXCEPT ![p] = 0]
     /\ UNCHANGED <<ticks, killed, late>>

\* sleep() gives tickslock up with p->lock held; a kill() between the check
\* and this step finds the process still running.
GoToSleep(p) ==
  /\ Goto(p, "sleep", "asleep") /\ tickslock' = {}
  /\ UNCHANGED <<ticks, killed, arg, passed, late>>

\* A process that was woken takes tickslock again.
Wake(p) ==
  /\ tickslock = {} /\ tickslock' = {p}
  /\ Goto(p, "woken", "loop")
  /\ late' = [late EXCEPT ![p] = 0]
  /\ UNCHANGED <<ticks, killed, arg, passed>>

\* clockintr(), on one CPU.  The scheduler runs every process that is woken
\* before MaxLate more ticks.
clockintr ==
  /\ tickslock = {} /\ \A p \in Procs : late[p] < MaxLate
  /\ ticks' = (ticks + 1) % UINT
  /\ pc' = [p \in Procs |-> IF pc[p] = "asleep" THEN "woken" ELSE pc[p]]
  /\ late' = [p \in Procs |-> IF pc[p] = "woken" THEN late[p] + 1 ELSE late[p]]
  /\ passed' = [p \in Procs |-> IF pc[p] \in {"asleep", "woken"} /\ passed[p] < UINT THEN passed[p] + 1 ELSE passed[p]]
  /\ UNCHANGED <<tickslock, killed, arg>>

\* A process runs again and again, and its time slice ends.  A CPU that spins
\* for tickslock is assumed to get it when it is free again and again.
Runs(p) == Post(p) \/ Return(p) \/ Uptime(p) \/ Loop(p) \/ GoToSleep(p) \/ Wake(p)

Next ==
  \/ clockintr
  \/ \E p \in Procs :
       \/ Ecall(p) \/ TimerInterrupt(p) \/ Fault(p) \/ Runs(p)
       \/ \E q \in Procs : Kill(p, q)
       \/ \E n \in SleepArgs : Sleep(p, n)

Fairness ==
  /\ SF_vars(clockintr)
  /\ \A p \in Procs : WF_vars(Runs(p)) /\ WF_vars(TimerInterrupt(p)) /\ SF_vars(Wake(p)) /\ SF_vars(Uptime(p))

Spec == Init /\ [][Next]_vars /\ Fairness

-----------------------------------------------------------------------------
(* Properties.                                                             *)

\* sleep(n) with n >= 0: whoever is asleep has waited less than n ticks, though
\* the counter wraps, and whoever goes on without having been killed has waited
\* for n ticks at least and MaxLate more at most.
SleepExact ==
  \A p \in Procs : arg[p].n >= 0 =>
    /\ pc[p] \in {"sleep", "asleep"} => passed[p] < arg[p].n
    /\ pc[p] = "loop" /\ ~killed[p] /\ ~TooEarly(p) => passed[p] >= arg[p].n
    /\ passed[p] <= arg[p].n + MaxLate

\* A process that is killed dies, in user space or in sys_sleep(): also when
\* kill() comes between the check in sys_sleep() and sleep(), and after the last
\* check of usertrap().
KilledExits == \A p \in Procs : killed[p] ~> pc[p] = "zombie"
=============================================================================
