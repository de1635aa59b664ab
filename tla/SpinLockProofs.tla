--------------------------- MODULE SpinLockProofs ---------------------------
(***************************************************************************)
(* Proofs about SpinLock, for any number of CPUs, threads and locks: that  *)
(* holding() is exact and that interrupts are off inside critical sections *)
(* and restored after them.                                                *)
(***************************************************************************)
EXTENDS SpinLock, FiniteSetTheorems, TLAPS

-----------------------------------------------------------------------------
(* The inductive invariant.                                                *)

Acts == Threads \cup CPUs
Low(a) == <<a, 0>>
High(a) == <<a, 1>>
Top(a) == <<a, trap[a]>>

\* In acquire() or release(): where the frame goes on, and the locks it has then.
Inner == {"swap", "own", "unlock", "pop"}
Label(f) == IF pc[f] \in Inner THEN ret[f] ELSE pc[f]
After(f) ==
  IF pc[f] \in {"swap", "own"} THEN held[f] \cup {lk[f]}
  ELSE IF pc[f] \in {"unlock", "pop"} THEN held[f] \ {lk[f]} ELSE held[f]

\* An activity is on one CPU at most, and a scheduler on its own; RUNNING says so.
CurInv ==
  /\ \A c \in CPUs : cur[c] \in Threads \cup {c}
  /\ \A c, d \in CPUs : cur[c] = cur[d] => c = d
  /\ \A p \in Threads : state[p] = "RUNNING" <=> \E c \in CPUs : cur[c] = p
  /\ \A c \in CPUs : cur[c] # c => trap[c] = 0

\* The frame of an interrupt handler that is not there, and the frame below one.
TrapInv ==
  \A a \in Acts :
    /\ ~want[High(a)] /\ slk[High(a)] = NoCpu
    /\ trap[a] = 0 => pc[High(a)] = "run" /\ held[High(a)] = {}
    /\ trap[a] = 1 =>
         /\ held[Low(a)] = {}
         /\ pc[Low(a)] = "run" \/ (a \in Threads /\ pc[Low(a)] \in {"again", "first"})
         /\ pc[Low(a)] = "again" => slk[Low(a)] \in Devs
         /\ pc[Low(a)] # "first" /\ a \in Threads => want[Low(a)]

\* What has been switched away from holds no lock; sched() has its intena.
OffInv ==
  \A a \in Acts :
    (\A c \in CPUs : cur[c] # a) =>
      /\ held[Top(a)] = {}
      /\ pc[Top(a)] = "back" \/ (pc[Top(a)] = "new" /\ a \in Threads /\ trap[a] = 0)
      /\ pc[Top(a)] = "back" /\ a \in Threads => saved[a] = want[Top(a)]

\* The locks that the code a executes has at label l are those of H.
At(a, l, H) ==
  \/ l = "run" /\ (a \in CPUs /\ trap[a] = 0 => H = {})
  \/ l = "sleep" /\ a \in Threads /\ trap[a] = 0 /\ slk[Top(a)] \in Devs /\ H = {a, slk[Top(a)]}
  \/ l = "sched" /\ a \in Threads /\ H = {a}
  \/ l = "back" /\ a \in Threads /\ H = {a}
  \/ l \in {"back", "pick"} /\ a \in CPUs /\ trap[a] = 0 /\ \E p \in Threads : H = {p}
  \/ l = "again" /\ a \in Threads /\ trap[a] = 0 /\ slk[Top(a)] \in Devs /\ H = {}
  \/ l = "new" /\ a \in Threads /\ trap[a] = 0 /\ H = {a}
  \/ l = "first" /\ a \in Threads /\ trap[a] = 0 /\ H = {}

TopOK(c) ==
  LET f == frame(c) IN
  /\ At(cur[c], Label(f), After(f))
  /\ pc[f] \in Inner => lk[f] \in Locks /\ ret[f] \notin Inner \cup {"back", "new"}
  /\ pc[f] \in {"swap", "pop"} => lk[f] \notin held[f]
  /\ pc[f] \in {"own", "unlock"} => lk[f] \in held[f]

\* noff counts the locks, and the one that acquire() or release() is about.
NoffOK(c) ==
  noff[c] = Cardinality(held[frame(c)]) + (IF pc[frame(c)] \in {"swap", "pop"} THEN 1 ELSE 0)

\* Interrupts, and what they will be when noff is 0 again.
IntrOK(c) ==
  /\ noff[c] > 0 => ~intr[c]
  /\ cur[c] \in Threads /\ Label(frame(c)) \notin {"new", "first"} =>
       IF noff[c] = 0 THEN intr[c] = want[frame(c)] ELSE intena[c] = want[frame(c)]

\* A lock has one holder at most.
LockInv ==
  /\ \A l \in Locks : locked[l] <=> \E f \in Frames : l \in held[f]
  /\ \A l \in Locks : \A f, g \in Frames : l \in held[f] /\ l \in held[g] => f = g

\* lk->cpu.
OwnInv == \A l \in Locks : \A c \in CPUs : lcpu[l] = c <=> Inside(frame(c), l)

FiniteInv == \A f \in Frames : IsFiniteSet(held[f])

Inv ==
  /\ TypeOK /\ FiniteInv /\ CurInv /\ TrapInv /\ OffInv
  /\ \A c \in CPUs : TopOK(c) /\ NoffOK(c) /\ IntrOK(c)
  /\ LockInv /\ OwnInv

\* Zenon proves what a step does not give to another prover.
USE Zenon

-----------------------------------------------------------------------------
(* Frames.                                                                 *)

\* The frames of a CPU and of an activity, and which are distinct.
LEMMA FrameFacts ==
  ASSUME TypeOK, CurInv, NEW c \in CPUs
  PROVE  /\ cur[c] \in Acts /\ frame(c) \in Frames /\ frame(c) = Top(cur[c])
         /\ frame(c) = IF trap[cur[c]] = 0 THEN Low(cur[c]) ELSE High(cur[c])
         /\ \A d \in CPUs \ {c} : cur[d] # cur[c] /\ frame(d) # frame(c) /\ frame(d) \in Frames
         /\ \A a \in Acts : /\ trap[a] \in {0, 1} /\ Low(a) \in Frames /\ High(a) \in Frames
                            /\ Top(a) \in Frames /\ Low(a) # High(a)
                            /\ Top(a) = IF trap[a] = 0 THEN Low(a) ELSE High(a)
         /\ \A a \in Acts \ {cur[c]} : Low(a) # frame(c) /\ High(a) # frame(c) /\ Top(a) # frame(c)
<1>1. /\ \A d \in CPUs : cur[d] \in Acts
      /\ \A a \in Acts : trap[a] \in {0, 1}
  BY DEF TypeOK, Acts
<1>2. \A d \in CPUs \ {c} : cur[d] # cur[c]
  BY DEF CurInv
<1>3. QED
  BY <1>1, <1>2, SMT DEF frame, Top, Low, High, Frames, Acts

\* What a CPU does that neither switches nor traps: only its frame changes.
Local(c) ==
  /\ UNCHANGED <<cur, trap, state, saved>>
  /\ \A g \in Frames \ {frame(c)} :
       /\ pc'[g] = pc[g] /\ lk'[g] = lk[g] /\ ret'[g] = ret[g]
       /\ held'[g] = held[g] /\ slk'[g] = slk[g] /\ want'[g] = want[g]
  /\ \A d \in CPUs \ {c} : noff'[d] = noff[d] /\ intena'[d] = intena[d] /\ intr'[d] = intr[d]
  /\ trap[cur[c]] = 1 => ~want'[frame(c)] /\ slk'[frame(c)] = NoCpu

\* Such a step leaves the frames of others as they were.
LEMMA LocalOthers ==
  ASSUME Inv, TypeOK', NEW c \in CPUs, Local(c)
  PROVE  /\ CurInv' /\ TrapInv' /\ OffInv'
         /\ frame(c)' = frame(c)
         /\ \A d \in CPUs \ {c} : /\ (TopOK(d) /\ NoffOK(d) /\ IntrOK(d))'
                                  /\ frame(d)' = frame(d)
                                  /\ \A l \in Locks : Inside(frame(d), l)' <=> Inside(frame(d), l)
<1>0. TypeOK /\ CurInv /\ TrapInv /\ OffInv
  BY DEF Inv
<1>1. /\ cur[c] \in Acts /\ frame(c) \in Frames /\ frame(c) = Top(cur[c])
      /\ frame(c) = IF trap[cur[c]] = 0 THEN Low(cur[c]) ELSE High(cur[c])
      /\ \A d \in CPUs \ {c} : cur[d] # cur[c] /\ frame(d) # frame(c) /\ frame(d) \in Frames
      /\ \A a \in Acts : /\ trap[a] \in {0, 1} /\ Low(a) \in Frames /\ High(a) \in Frames
                         /\ Top(a) \in Frames /\ Low(a) # High(a)
      /\ \A a \in Acts \ {cur[c]} : Low(a) # frame(c) /\ High(a) # frame(c) /\ Top(a) # frame(c)
  BY <1>0, FrameFacts
<1>2. /\ \A d \in CPUs : frame(d)' = frame(d)
      /\ \A a \in Acts : Top(a)' = Top(a)
      /\ \A a \in Acts : Low(a)' = Low(a) /\ High(a)' = High(a)
  BY DEF Local, frame, Top, Low, High
<1>3. CurInv'
  BY <1>0 DEF Local, CurInv
<1>4. TrapInv'
  <2> SUFFICES ASSUME NEW a \in Acts
               PROVE  /\ ~want'[High(a)] /\ slk'[High(a)] = NoCpu
                      /\ trap'[a] = 0 => pc'[High(a)] = "run" /\ held'[High(a)] = {}
                      /\ trap'[a] = 1 =>
                           /\ held'[Low(a)] = {}
                           /\ \/ pc'[Low(a)] = "run"
                              \/ (a \in Threads /\ pc'[Low(a)] \in {"again", "first"})
                           /\ pc'[Low(a)] = "again" => slk'[Low(a)] \in Devs
                           /\ pc'[Low(a)] # "first" /\ a \in Threads => want'[Low(a)]
    BY <1>2 DEF TrapInv
  <2>1. /\ ~want[High(a)] /\ slk[High(a)] = NoCpu
        /\ trap[a] = 0 => pc[High(a)] = "run" /\ held[High(a)] = {}
        /\ trap[a] = 1 =>
             /\ held[Low(a)] = {}
             /\ \/ pc[Low(a)] = "run"
                \/ (a \in Threads /\ pc[Low(a)] \in {"again", "first"})
             /\ pc[Low(a)] = "again" => slk[Low(a)] \in Devs
             /\ pc[Low(a)] # "first" /\ a \in Threads => want[Low(a)]
    BY <1>0 DEF TrapInv
  <2>2. CASE a # cur[c]
    BY <1>1, <2>1, <2>2 DEF Local
  <2>3. CASE a = cur[c] /\ trap[a] = 0
    BY <1>1, <2>1, <2>3, SMT DEF Local
  <2>4. CASE a = cur[c] /\ trap[a] = 1
    BY <1>1, <2>1, <2>4, SMT DEF Local
  <2>5. QED
    BY <1>1, <2>2, <2>3, <2>4
<1>5. OffInv'
  BY <1>0, <1>1, <1>2, SMT DEF Local, OffInv
<1>6. ASSUME NEW d \in CPUs \ {c}
      PROVE  /\ (TopOK(d) /\ NoffOK(d) /\ IntrOK(d))'
             /\ \A l \in Locks : Inside(frame(d), l)' <=> Inside(frame(d), l)
  <2>1. TopOK(d) /\ NoffOK(d) /\ IntrOK(d)
    BY DEF Inv
  <2> DEFINE g == frame(d)
  <2>2. /\ g \in Frames /\ g # frame(c) /\ g' = g /\ frame(d) = g /\ frame(d)' = g
        /\ Top(cur[d]) = g /\ Top(cur[d])' = g
    BY <1>1, <1>2 DEF frame, Top, Local
  <2>3. /\ pc'[g] = pc[g] /\ lk'[g] = lk[g] /\ ret'[g] = ret[g]
        /\ held'[g] = held[g] /\ slk'[g] = slk[g] /\ want'[g] = want[g]
        /\ noff'[d] = noff[d] /\ intena'[d] = intena[d] /\ intr'[d] = intr[d]
        /\ cur' = cur /\ trap' = trap
    BY <2>2 DEF Local
  <2> HIDE DEF g
  <2>4. Label(g)' = Label(g) /\ After(g)' = After(g)
    BY <2>2, <2>3 DEF Label, After
  <2>5. TopOK(d)'
    BY <2>1, <2>2, <2>3, <2>4 DEF TopOK, At
  <2>6. NoffOK(d)'
    BY <2>1, <2>2, <2>3 DEF NoffOK
  <2>7. IntrOK(d)'
    BY <2>1, <2>2, <2>3, <2>4 DEF IntrOK
  <2>8. \A l \in Locks : Inside(frame(d), l)' <=> Inside(frame(d), l)
    BY <2>2, <2>3 DEF Inside
  <2>9. QED
    BY <2>5, <2>6, <2>7, <2>8
<1>7. QED
  BY <1>2, <1>3, <1>4, <1>5, <1>6

-----------------------------------------------------------------------------
(* Types.                                                                  *)

\* What the invariant says of the frame a CPU executes.
LEMMA TopFacts ==
  ASSUME Inv, NEW c \in CPUs
  PROVE  /\ frame(c) \in Frames /\ cur[c] \in Acts /\ frame(c) = Top(cur[c])
         /\ pc[frame(c)] \in Inner => lk[frame(c)] \in Locks
         /\ pc[frame(c)] \in {"swap", "pop"} => noff[c] > 0 /\ lk[frame(c)] \notin held[frame(c)]
         /\ pc[frame(c)] \in {"own", "unlock"} => lk[frame(c)] \in held[frame(c)]
         /\ pc[frame(c)] \notin Inner => At(cur[c], pc[frame(c)], held[frame(c)])
         /\ noff[c] \in Nat /\ Cardinality(held[frame(c)]) \in Nat
         /\ Cardinality(held[frame(c)]) = 0 <=> held[frame(c)] = {}
<1>1. TypeOK /\ CurInv /\ FiniteInv /\ TopOK(c) /\ NoffOK(c)
  BY DEF Inv
<1>2. frame(c) \in Frames /\ cur[c] \in Acts /\ frame(c) = Top(cur[c])
  BY <1>1, FrameFacts
<1>3. /\ Cardinality(held[frame(c)]) \in Nat
      /\ Cardinality(held[frame(c)]) = 0 <=> held[frame(c)] = {}
  BY <1>1, <1>2, FS_CardinalityType, FS_EmptySet DEF FiniteInv
<1>4. /\ pc[frame(c)] \in Inner => lk[frame(c)] \in Locks
      /\ pc[frame(c)] \in {"swap", "pop"} => lk[frame(c)] \notin held[frame(c)]
      /\ pc[frame(c)] \in {"own", "unlock"} => lk[frame(c)] \in held[frame(c)]
      /\ pc[frame(c)] \notin Inner => At(cur[c], pc[frame(c)], held[frame(c)])
  BY <1>1 DEF TopOK, Label, After, Inner
<1>5. noff[c] \in Nat /\ (pc[frame(c)] \in {"swap", "pop"} => noff[c] > 0)
  BY <1>1, <1>3, SMT DEF NoffOK, TypeOK
<1>6. QED
  BY <1>2, <1>3, <1>4, <1>5

\* noff is 0 where there is neither a lock nor a call that is about one.
LEMMA NoffZero ==
  ASSUME Inv, NEW c \in CPUs
  PROVE  noff[c] = 0 <=> held[frame(c)] = {} /\ pc[frame(c)] \notin {"swap", "pop"}
<1>1. NoffOK(c)
  BY DEF Inv
<1>2. /\ Cardinality(held[frame(c)]) \in Nat
      /\ Cardinality(held[frame(c)]) = 0 <=> held[frame(c)] = {}
  BY TopFacts
<1>3. QED
  BY <1>1, <1>2, SMT DEF NoffOK

\* The steps that end or go on with acquire() and release() keep the types.
LEMMA TypeInner ==
  ASSUME Inv, NEW c \in CPUs, Swap(c) \/ Own(c) \/ Unlock(c) \/ Pop(c)
  PROVE  TypeOK'
<1>0. TypeOK /\ frame(c) \in Frames
  BY TopFacts DEF Inv
<1>1. pc[frame(c)] \in Inner => lk[frame(c)] \in Locks
  BY TopFacts
<1>2. pc[frame(c)] = "pop" => noff[c] \in Nat \ {0}
  BY TopFacts, SMT
<1>3. CASE Swap(c)
  BY <1>0, <1>1, <1>3 DEF TypeOK, Swap, cpuvars, Labels, Inner
<1>4. CASE Own(c)
  BY <1>0, <1>1, <1>4 DEF TypeOK, Own, Return, cpuvars, Labels, Inner
<1>5. CASE Unlock(c)
  BY <1>0, <1>1, <1>5 DEF TypeOK, Unlock, cpuvars, Labels, Inner
<1>6. CASE Pop(c)
  BY <1>0, <1>1, <1>2, <1>6, SMTT(30) DEF TypeOK, Pop, pop_off, Return, lockvars, Labels, Inner
<1>7. QED
  BY <1>3, <1>4, <1>5, <1>6

\* So do the steps that call acquire(),
LEMMA TypeAcquire ==
  ASSUME Inv, NEW c \in CPUs, NEW l \in Locks, NEW next \in Labels, acquire(c, l, next),
         UNCHANGED Rest, slk' \in [Frames -> Devs \cup {NoCpu}]
  PROVE  TypeOK'
<1>0. TypeOK /\ frame(c) \in Frames
  BY TopFacts DEF Inv
<1>1. QED
  BY <1>0, SMT DEF TypeOK, acquire, push_off, Call, lockvars, Labels, Rest

\* and those that call release().
LEMMA TypeRelease ==
  ASSUME Inv, NEW c \in CPUs, NEW l \in Locks, NEW next \in Labels, release(c, l, next),
         UNCHANGED <<Rest, slk>>
  PROVE  TypeOK'
<1>0. TypeOK /\ frame(c) \in Frames
  BY TopFacts DEF Inv
<1>1. QED
  BY <1>0 DEF TypeOK, release, Call, cpuvars, Labels, Rest

\* The others.
LEMMA TypeOthers ==
  ASSUME Inv, NEW c \in CPUs,
         \/ sched(c) \/ FirstReturn(c) \/ SchedTop(c) \/ Trap(c) \/ TrapRet(c)
         \/ \E p \in Threads : Switch(c, p)
         \/ \E on \in BOOLEAN : SetIntr(c, on)
  PROVE  TypeOK'
<1>0. TypeOK /\ frame(c) \in Frames /\ cur[c] \in Acts /\ <<c, 0>> \in Frames
  BY TopFacts DEF Inv, Frames
<1>1. CASE sched(c)
  <2>1. cur[c] \in Threads
    BY <1>1, TopFacts DEF sched, At, Inner
  <2>2. QED
    BY <1>0, <1>1, <2>1 DEF TypeOK, sched, lockvars, cpuvars, Labels, Locks
<1>2. CASE FirstReturn(c)
  BY <1>0, <1>2 DEF TypeOK, FirstReturn, lockvars, Labels
<1>3. CASE SchedTop(c)
  BY <1>0, <1>3 DEF TypeOK, SchedTop, lockvars, flow, Rest
<1>4. CASE Trap(c)
  BY <1>0, <1>4 DEF TypeOK, Trap, lockvars, flow, Acts
<1>5. CASE TrapRet(c)
  BY <1>0, <1>5 DEF TypeOK, TrapRet, lockvars, flow, Acts
<1>6. ASSUME NEW p \in Threads, Switch(c, p) PROVE TypeOK'
  <2>1. <<p, trap[p]>> \in Frames
    BY <1>0 DEF TypeOK, Frames
  <2>2. QED
    BY <1>0, <1>6, <2>1, ZenonT(60) DEF TypeOK, Switch, lockvars, Labels, Locks
<1>7. ASSUME NEW on \in BOOLEAN, SetIntr(c, on) PROVE TypeOK'
  BY <1>0, <1>7 DEF TypeOK, SetIntr, lockvars, flow
<1>8. QED
  BY <1>1, <1>2, <1>3, <1>4, <1>5, <1>6, <1>7

-----------------------------------------------------------------------------
(* acquire() and release().                                                *)

\* A call of acquire() for a lock the frame does not have keeps the invariant.
LEMMA AcquireStep ==
  ASSUME Inv, NEW c \in CPUs, NEW l \in Locks, NEW next \in Labels \ (Inner \cup {"back", "new", "first"}),
         acquire(c, l, next), UNCHANGED Rest, pc[frame(c)] \notin Inner \cup {"new", "first"},
         l \notin held[frame(c)],
         NEW s, s \in Devs \cup {NoCpu}, slk' = [slk EXCEPT ![frame(c)] = s],
         trap[cur[c]] = 1 => s = NoCpu,
         NEW a, a = cur[c], NEW H, H = held[frame(c)] \cup {l}, At(a, next, H)'
  PROVE  Inv'
<1>f. PICK f : f = frame(c)
  OBVIOUS
<1>0. TypeOK /\ FiniteInv /\ CurInv /\ LockInv /\ OwnInv /\ TrapInv /\ TopOK(c) /\ NoffOK(c) /\ IntrOK(c)
  BY DEF Inv
<1>1. f \in Frames /\ cur[c] \in Acts /\ noff[c] \in Nat
  BY <1>f, TopFacts
<1>2. TypeOK'
  <2>1. slk' \in [Frames -> Devs \cup {NoCpu}]
    BY <1>0 DEF TypeOK
  <2>2. QED
    BY <2>1, TypeAcquire
<1>3. Local(c)
  <2>1. trap[cur[c]] = 1 => ~want[f] /\ f = High(cur[c])
    BY <1>f, <1>0, <1>1 DEF TrapInv, frame, High
  <2>2. QED
    BY <1>f, <1>0, <1>1, <2>1 DEF Local, acquire, push_off, Call, Rest, TypeOK
<1>4. /\ CurInv' /\ TrapInv' /\ OffInv' /\ frame(c)' = frame(c)
      /\ \A d \in CPUs \ {c} : /\ (TopOK(d) /\ NoffOK(d) /\ IntrOK(d))'
                               /\ frame(d)' = frame(d)
                               /\ \A m \in Locks : Inside(frame(d), m)' <=> Inside(frame(d), m)
  BY <1>2, <1>3, LocalOthers
<1>5. /\ pc'[f] = "swap" /\ lk'[f] = l /\ ret'[f] = next /\ held' = held /\ want' = want
      /\ noff'[c] = noff[c] + 1 /\ intr'[c] = FALSE
      /\ intena'[c] = IF noff[c] = 0 THEN intr[c] ELSE intena[c]
      /\ UNCHANGED <<locked, lcpu, cur, trap>>
  BY <1>f, <1>0, <1>1 DEF acquire, push_off, Call, Rest, lockvars, TypeOK
<1>6. frame(c) = f /\ frame(c)' = f
  BY <1>f, <1>4
<1>7. TopOK(c)'
  <2>1. Label(f)' = next /\ After(f)' = H
    BY <1>5, <1>6 DEF Label, After, Inner
  <2>2. QED
    BY <1>5, <1>6, <2>1 DEF TopOK, At, Inner
<1>8. NoffOK(c)'
  <2>1. Cardinality(held[f]) = noff[c]
    BY <1>0, <1>1, <1>6, TopFacts, SMT DEF NoffOK, Inner
  <2>2. QED
    BY <1>1, <1>5, <1>6, <2>1 DEF NoffOK
<1>9. IntrOK(c)'
  <2>1. Label(f) = pc[f]
    BY <1>6 DEF Label
  <2>2. QED
    BY <1>0, <1>1, <1>5, <1>6, <2>1, SMT DEF IntrOK
<1>10. FiniteInv' /\ LockInv'
  BY <1>0, <1>5 DEF FiniteInv, LockInv
<1>11. OwnInv'
  <2>1. \A m \in Locks : Inside(f, m)' <=> Inside(f, m)
    BY <1>5, <1>6 DEF Inside, Inner
  <2>2. \A d \in CPUs, m \in Locks : Inside(frame(d), m)' <=> Inside(frame(d), m)
    BY <1>4, <1>6, <2>1
  <2>3. QED
    BY <1>0, <1>5, <2>2 DEF OwnInv
<1>12. QED
  BY <1>2, <1>4, <1>7, <1>8, <1>9, <1>10, <1>11 DEF Inv

\* A call of release() for a lock the frame has keeps the invariant.
LEMMA ReleaseStep ==
  ASSUME Inv, NEW c \in CPUs, NEW l \in Locks, NEW next \in Labels \ (Inner \cup {"back", "new"}),
         release(c, l, next), UNCHANGED <<Rest, slk>>, pc[frame(c)] \notin Inner,
         l \in held[frame(c)],
         cur[c] \in Threads /\ pc[frame(c)] \in {"new", "first"} => next = "first",
         NEW a, a = cur[c], NEW H, H = held[frame(c)] \ {l}, At(a, next, H)
  PROVE  Inv'
<1>f. PICK f : f = frame(c)
  OBVIOUS
<1>0. TypeOK /\ FiniteInv /\ CurInv /\ LockInv /\ OwnInv /\ TrapInv /\ TopOK(c) /\ NoffOK(c) /\ IntrOK(c)
  BY DEF Inv
<1>1. f \in Frames /\ cur[c] \in Acts /\ noff[c] \in Nat
  BY <1>f, TopFacts
<1>2. TypeOK'
  BY TypeRelease
<1>3. Local(c)
  <2>1. trap[cur[c]] = 1 => ~want[f] /\ slk[f] = NoCpu
    BY <1>f, <1>0, <1>1 DEF TrapInv, frame, High
  <2>2. QED
    BY <1>f, <1>0, <1>1, <2>1 DEF Local, release, Call, Rest, cpuvars, TypeOK
<1>4. /\ CurInv' /\ TrapInv' /\ OffInv' /\ frame(c)' = frame(c)
      /\ \A d \in CPUs \ {c} : /\ (TopOK(d) /\ NoffOK(d) /\ IntrOK(d))'
                               /\ frame(d)' = frame(d)
                               /\ \A m \in Locks : Inside(frame(d), m)' <=> Inside(frame(d), m)
  BY <1>2, <1>3, LocalOthers
<1>5. /\ pc'[f] = "unlock" /\ lk'[f] = l /\ ret'[f] = next /\ held' = held /\ want' = want
      /\ lcpu' = [lcpu EXCEPT ![l] = NoCpu]
      /\ UNCHANGED <<noff, intena, intr, locked, cur, trap, slk>>
  BY <1>f, <1>0, <1>1 DEF release, Call, Rest, cpuvars, TypeOK
<1>6. frame(c) = f /\ frame(c)' = f
  BY <1>f, <1>4
<1>7. TopOK(c)'
  <2>1. Label(f)' = next /\ After(f)' = H
    BY <1>5, <1>6 DEF Label, After, Inner
  <2>2. At(cur[c], next, H)'
    BY <1>5 DEF At, Top
  <2>3. QED
    BY <1>5, <1>6, <2>1, <2>2 DEF TopOK, Inner
<1>8. NoffOK(c)'
  BY <1>0, <1>1, <1>5, <1>6 DEF NoffOK, Inner
<1>9. IntrOK(c)'
  <2>1. Label(f) = pc[f] /\ Label(f)' = next
    BY <1>5, <1>6 DEF Label, Inner
  <2>2. QED
    BY <1>0, <1>1, <1>5, <1>6, <2>1 DEF IntrOK
<1>10. FiniteInv' /\ LockInv'
  BY <1>0, <1>5 DEF FiniteInv, LockInv
<1>11. OwnInv'
  <2>1. \A m \in Locks : Inside(f, m)' <=> Inside(f, m) /\ m # l
    BY <1>5, <1>6 DEF Inside, Inner
  <2>2. \A d \in CPUs \ {c} : ~Inside(frame(d), l)
    <3>1. \A d \in CPUs \ {c} : frame(d) # f /\ frame(d) \in Frames
      BY <1>0, <1>6, FrameFacts
    <3>2. QED
      BY <1>0, <1>1, <1>6, <3>1 DEF Inside, LockInv
  <2>3. \A d \in CPUs, m \in Locks : Inside(frame(d), m)' <=> Inside(frame(d), m) /\ m # l
    BY <1>4, <1>6, <2>1, <2>2
  <2>4. \A d \in CPUs, m \in Locks : lcpu'[m] = d <=> lcpu[m] = d /\ m # l
    BY <1>0, <1>5, LockAssumption DEF TypeOK
  <2>5. QED
    BY <1>0, <2>3, <2>4 DEF OwnInv
<1>12. QED
  BY <1>2, <1>4, <1>7, <1>8, <1>9, <1>10, <1>11 DEF Inv

\* The test-and-set that finds the lock free.
LEMMA SwapStep ==
  ASSUME Inv, NEW c \in CPUs, Swap(c)
  PROVE  Inv'
<1>f. PICK f : f = frame(c)
  OBVIOUS
<1>0. TypeOK /\ FiniteInv /\ CurInv /\ LockInv /\ OwnInv /\ TrapInv /\ TopOK(c) /\ NoffOK(c) /\ IntrOK(c)
  BY DEF Inv
<1>1. /\ f \in Frames /\ cur[c] \in Acts /\ noff[c] \in Nat
      /\ pc[f] = "swap" /\ lk[f] \in Locks /\ lk[f] \notin held[f] /\ ~locked[lk[f]]
  BY <1>f, TopFacts DEF Swap, Inner
<1>2. TypeOK'
  BY TypeInner
<1>3. Local(c)
  <2>1. trap[cur[c]] = 1 => ~want[f] /\ slk[f] = NoCpu
    BY <1>f, <1>0, <1>1 DEF TrapInv, frame, High
  <2>2. QED
    BY <1>f, <1>0, <1>1, <2>1 DEF Local, Swap, cpuvars, TypeOK
<1>4. /\ CurInv' /\ TrapInv' /\ OffInv' /\ frame(c)' = frame(c)
      /\ \A d \in CPUs \ {c} : /\ (TopOK(d) /\ NoffOK(d) /\ IntrOK(d))'
                               /\ frame(d)' = frame(d)
                               /\ \A m \in Locks : Inside(frame(d), m)' <=> Inside(frame(d), m)
  BY <1>2, <1>3, LocalOthers
<1>5. /\ pc'[f] = "own" /\ held' = [held EXCEPT ![f] = @ \cup {lk[f]}]
      /\ locked' = [locked EXCEPT ![lk[f]] = TRUE]
      /\ UNCHANGED <<lcpu, noff, intena, intr, cur, trap, lk, ret, slk, want>>
  BY <1>f, <1>0, <1>1 DEF Swap, cpuvars, TypeOK
<1>6. frame(c) = f /\ frame(c)' = f
  BY <1>f, <1>4
<1>7. held'[f] = held[f] \cup {lk[f]} /\ \A g \in Frames \ {f} : held'[g] = held[g]
  BY <1>0, <1>1, <1>5 DEF TypeOK
<1>8. Label(f)' = Label(f) /\ After(f)' = After(f)
  BY <1>1, <1>5, <1>7 DEF Label, After, Inner
<1>9. TopOK(c)'
  BY <1>0, <1>1, <1>5, <1>6, <1>7, <1>8, SMTT(20) DEF TopOK, At, Top, Inner
<1>10. Cardinality(held'[f]) = Cardinality(held[f]) + 1 /\ IsFiniteSet(held'[f])
  <2>1. IsFiniteSet(held[f]) /\ lk[f] \notin held[f] /\ held'[f] = held[f] \cup {lk[f]}
    BY <1>0, <1>1, <1>7 DEF FiniteInv
  <2>2. QED
    BY <2>1, FS_AddElement, SMT
<1>11. NoffOK(c)'
  <2>1. noff[c] = Cardinality(held[f]) + 1 /\ Cardinality(held[f]) \in Nat
    BY <1>0, <1>1, <1>6, TopFacts DEF NoffOK
  <2>2. QED
    BY <1>5, <1>6, <1>10, <2>1, SMT DEF NoffOK
<1>12. IntrOK(c)'
  BY <1>0, <1>5, <1>6, <1>8 DEF IntrOK
<1>13. FiniteInv'
  BY <1>0, <1>7, <1>10 DEF FiniteInv
<1>14. LockInv'
  <2>1. \A g \in Frames : lk[f] \notin held[g]
    BY <1>0, <1>1 DEF LockInv
  <2>2. \A l \in Locks : locked'[l] <=> (locked[l] \/ l = lk[f])
    BY <1>0, <1>1, <1>5 DEF TypeOK
  <2>3. \A g \in Frames, l \in Locks : l \in held'[g] <=> (l \in held[g] \/ (l = lk[f] /\ g = f))
    BY <1>7
  <2>4. QED
    BY <1>0, <1>1, <2>1, <2>2, <2>3, SMT DEF LockInv
<1>15. OwnInv'
  <2>1. \A m \in Locks : Inside(f, m)' <=> Inside(f, m)
    BY <1>1, <1>5, <1>7 DEF Inside
  <2>2. \A d \in CPUs, m \in Locks : Inside(frame(d), m)' <=> Inside(frame(d), m)
    BY <1>4, <1>6, <2>1
  <2>3. QED
    BY <1>0, <1>5, <2>2 DEF OwnInv
<1>16. QED
  BY <1>2, <1>4, <1>9, <1>11, <1>12, <1>13, <1>14, <1>15 DEF Inv

\* lk->cpu = mycpu().
LEMMA OwnStep ==
  ASSUME Inv, NEW c \in CPUs, Own(c)
  PROVE  Inv'
<1>f. PICK f : f = frame(c)
  OBVIOUS
<1>0. TypeOK /\ FiniteInv /\ CurInv /\ LockInv /\ OwnInv /\ TrapInv /\ TopOK(c) /\ NoffOK(c) /\ IntrOK(c)
  BY DEF Inv
<1>1. /\ f \in Frames /\ cur[c] \in Acts /\ noff[c] \in Nat
      /\ pc[f] = "own" /\ lk[f] \in Locks /\ lk[f] \in held[f]
      /\ ret[f] \notin Inner \cup {"back", "new"}
  BY <1>f, <1>0, TopFacts DEF Own, Inner, TopOK
<1>2. TypeOK'
  BY TypeInner
<1>3. Local(c)
  <2>1. trap[cur[c]] = 1 => ~want[f] /\ slk[f] = NoCpu
    BY <1>f, <1>0, <1>1 DEF TrapInv, frame, High
  <2>2. QED
    BY <1>f, <1>0, <1>1, <2>1 DEF Local, Own, Return, cpuvars, TypeOK
<1>4. /\ CurInv' /\ TrapInv' /\ OffInv' /\ frame(c)' = frame(c)
      /\ \A d \in CPUs \ {c} : /\ (TopOK(d) /\ NoffOK(d) /\ IntrOK(d))'
                               /\ frame(d)' = frame(d)
                               /\ \A m \in Locks : Inside(frame(d), m)' <=> Inside(frame(d), m)
  BY <1>2, <1>3, LocalOthers
<1>5. /\ pc'[f] = ret[f] /\ lcpu' = [lcpu EXCEPT ![lk[f]] = c]
      /\ UNCHANGED <<locked, noff, intena, intr, cur, trap, slk, want, held>>
  BY <1>f, <1>0, <1>1 DEF Own, Return, cpuvars, TypeOK
<1>6. frame(c) = f /\ frame(c)' = f
  BY <1>f, <1>4
<1>7. Label(f)' = Label(f) /\ After(f)' = After(f)
  BY <1>1, <1>5 DEF Label, After, Inner
<1>8. TopOK(c)'
  BY <1>0, <1>1, <1>5, <1>6, <1>7 DEF TopOK, At, Top, Inner
<1>9. NoffOK(c)'
  BY <1>0, <1>1, <1>5, <1>6 DEF NoffOK, Inner
<1>10. IntrOK(c)'
  BY <1>0, <1>5, <1>6, <1>7 DEF IntrOK
<1>11. FiniteInv' /\ LockInv'
  BY <1>0, <1>5 DEF FiniteInv, LockInv
<1>12. OwnInv'
  <2>1. \A m \in Locks : Inside(f, m)' <=> Inside(f, m) \/ m = lk[f]
    BY <1>1, <1>5 DEF Inside, Inner
  <2>2. \A d \in CPUs \ {c} : ~Inside(frame(d), lk[f])
    <3>1. \A d \in CPUs \ {c} : frame(d) # f /\ frame(d) \in Frames
      BY <1>0, <1>6, FrameFacts
    <3>2. QED
      BY <1>0, <1>1, <3>1 DEF Inside, LockInv
  <2>3. \A d \in CPUs, m \in Locks : lcpu'[m] = d <=> IF m = lk[f] THEN d = c ELSE lcpu[m] = d
    BY <1>0, <1>1, <1>5 DEF TypeOK
  <2>4. \A d \in CPUs, m \in Locks :
          Inside(frame(d), m)' <=> IF m = lk[f] THEN d = c ELSE Inside(frame(d), m)
    BY <1>4, <1>6, <2>1, <2>2
  <2>5. QED
    BY <1>0, <2>3, <2>4, SMT DEF OwnInv
<1>13. QED
  BY <1>2, <1>4, <1>8, <1>9, <1>10, <1>11, <1>12 DEF Inv

\* The store that frees the lock.
LEMMA UnlockStep ==
  ASSUME Inv, NEW c \in CPUs, Unlock(c)
  PROVE  Inv'
<1>f. PICK f : f = frame(c)
  OBVIOUS
<1>0. TypeOK /\ FiniteInv /\ CurInv /\ LockInv /\ OwnInv /\ TrapInv /\ TopOK(c) /\ NoffOK(c) /\ IntrOK(c)
  BY DEF Inv
<1>1. /\ f \in Frames /\ cur[c] \in Acts /\ noff[c] \in Nat
      /\ pc[f] = "unlock" /\ lk[f] \in Locks /\ lk[f] \in held[f]
  BY <1>f, TopFacts DEF Unlock, Inner
<1>2. TypeOK'
  BY TypeInner
<1>3. Local(c)
  <2>1. trap[cur[c]] = 1 => ~want[f] /\ slk[f] = NoCpu
    BY <1>f, <1>0, <1>1 DEF TrapInv, frame, High
  <2>2. QED
    BY <1>f, <1>0, <1>1, <2>1 DEF Local, Unlock, cpuvars, TypeOK
<1>4. /\ CurInv' /\ TrapInv' /\ OffInv' /\ frame(c)' = frame(c)
      /\ \A d \in CPUs \ {c} : /\ (TopOK(d) /\ NoffOK(d) /\ IntrOK(d))'
                               /\ frame(d)' = frame(d)
                               /\ \A m \in Locks : Inside(frame(d), m)' <=> Inside(frame(d), m)
  BY <1>2, <1>3, LocalOthers
<1>5. /\ pc'[f] = "pop" /\ held' = [held EXCEPT ![f] = @ \ {lk[f]}]
      /\ locked' = [locked EXCEPT ![lk[f]] = FALSE]
      /\ UNCHANGED <<lcpu, noff, intena, intr, cur, trap, lk, ret, slk, want>>
  BY <1>f, <1>0, <1>1 DEF Unlock, cpuvars, TypeOK
<1>6. frame(c) = f /\ frame(c)' = f
  BY <1>f, <1>4
<1>7. held'[f] = held[f] \ {lk[f]} /\ \A g \in Frames \ {f} : held'[g] = held[g]
  BY <1>0, <1>1, <1>5 DEF TypeOK
<1>8. Label(f)' = Label(f) /\ After(f)' = After(f)
  BY <1>1, <1>5, <1>7 DEF Label, After, Inner
<1>9. TopOK(c)'
  BY <1>0, <1>1, <1>5, <1>6, <1>7, <1>8 DEF TopOK, At, Top, Inner
<1>10. Cardinality(held'[f]) = Cardinality(held[f]) - 1 /\ IsFiniteSet(held'[f])
  <2>1. IsFiniteSet(held[f]) /\ lk[f] \in held[f] /\ held'[f] = held[f] \ {lk[f]}
    BY <1>0, <1>1, <1>7 DEF FiniteInv
  <2>2. QED
    BY <2>1, FS_RemoveElement
<1>11. NoffOK(c)'
  <2>1. noff[c] = Cardinality(held[f]) /\ Cardinality(held[f]) \in Nat
    BY <1>0, <1>1, <1>6, TopFacts, SMT DEF NoffOK
  <2>2. QED
    BY <1>5, <1>6, <1>10, <2>1, SMT DEF NoffOK
<1>12. IntrOK(c)'
  BY <1>0, <1>5, <1>6, <1>8 DEF IntrOK
<1>13. FiniteInv'
  BY <1>0, <1>7, <1>10 DEF FiniteInv
<1>14. LockInv'
  <2>1. \A l \in Locks : locked'[l] <=> (locked[l] /\ l # lk[f])
    BY <1>0, <1>1, <1>5 DEF TypeOK
  <2>2. \A g \in Frames, l \in Locks : l \in held'[g] <=> (l \in held[g] /\ l # lk[f])
    BY <1>0, <1>1, <1>7, SMT DEF LockInv
  <2>3. QED
    BY <1>0, <1>1, <2>1, <2>2 DEF LockInv
<1>15. OwnInv'
  <2>1. \A m \in Locks : Inside(f, m)' <=> Inside(f, m)
    BY <1>1, <1>5, <1>7 DEF Inside
  <2>2. \A d \in CPUs, m \in Locks : Inside(frame(d), m)' <=> Inside(frame(d), m)
    BY <1>4, <1>6, <2>1
  <2>3. QED
    BY <1>0, <1>5, <2>2 DEF OwnInv
<1>16. QED
  BY <1>2, <1>4, <1>9, <1>11, <1>12, <1>13, <1>14, <1>15 DEF Inv

\* pop_off() at the end of release().
LEMMA PopStep ==
  ASSUME Inv, NEW c \in CPUs, Pop(c)
  PROVE  Inv'
<1>f. PICK f : f = frame(c)
  OBVIOUS
<1>0. TypeOK /\ FiniteInv /\ CurInv /\ LockInv /\ OwnInv /\ TrapInv /\ TopOK(c) /\ NoffOK(c) /\ IntrOK(c)
  BY DEF Inv
<1>1. /\ f \in Frames /\ cur[c] \in Acts /\ noff[c] \in Nat /\ noff[c] > 0
      /\ pc[f] = "pop" /\ lk[f] \in Locks /\ lk[f] \notin held[f]
      /\ ret[f] \notin Inner \cup {"back", "new"}
  BY <1>f, <1>0, TopFacts DEF Pop, Inner, TopOK
<1>2. TypeOK'
  BY TypeInner
<1>3. Local(c)
  <2>1. trap[cur[c]] = 1 => ~want[f] /\ slk[f] = NoCpu
    BY <1>f, <1>0, <1>1 DEF TrapInv, frame, High
  <2>2. QED
    BY <1>f, <1>0, <1>1, <2>1 DEF Local, Pop, pop_off, Return, lockvars, TypeOK
<1>4. /\ CurInv' /\ TrapInv' /\ OffInv' /\ frame(c)' = frame(c)
      /\ \A d \in CPUs \ {c} : /\ (TopOK(d) /\ NoffOK(d) /\ IntrOK(d))'
                               /\ frame(d)' = frame(d)
                               /\ \A m \in Locks : Inside(frame(d), m)' <=> Inside(frame(d), m)
  BY <1>2, <1>3, LocalOthers
<1>5. /\ pc'[f] = ret[f] /\ noff'[c] = noff[c] - 1 /\ (intr'[c] <=> noff[c] = 1 /\ intena[c])
      /\ UNCHANGED <<locked, lcpu, intena, cur, trap, slk, want, held>>
  BY <1>f, <1>0, <1>1 DEF Pop, pop_off, Return, lockvars, TypeOK
<1>6. frame(c) = f /\ frame(c)' = f
  BY <1>f, <1>4
<1>7. Label(f)' = Label(f) /\ After(f)' = After(f)
  BY <1>1, <1>5 DEF Label, After, Inner
<1>8. TopOK(c)'
  BY <1>0, <1>1, <1>5, <1>6, <1>7 DEF TopOK, At, Top, Inner
<1>9. NoffOK(c)'
  <2>1. noff[c] = Cardinality(held[f]) + 1 /\ Cardinality(held[f]) \in Nat
    BY <1>0, <1>1, <1>6, TopFacts DEF NoffOK
  <2>2. QED
    BY <1>1, <1>5, <1>6, <2>1, SMT DEF NoffOK, Inner
<1>10. IntrOK(c)'
  <2>1. intr'[c] \in BOOLEAN /\ intena[c] \in BOOLEAN /\ want[f] \in BOOLEAN
    BY <1>0, <1>1, <1>2 DEF TypeOK
  <2>2. QED
    BY <1>0, <1>1, <1>5, <1>6, <1>7, <2>1, SMT DEF IntrOK
<1>11. FiniteInv' /\ LockInv'
  BY <1>0, <1>5 DEF FiniteInv, LockInv
<1>12. OwnInv'
  <2>1. \A m \in Locks : Inside(f, m)' <=> Inside(f, m)
    BY <1>1, <1>5 DEF Inside, Inner
  <2>2. \A d \in CPUs, m \in Locks : Inside(frame(d), m)' <=> Inside(frame(d), m)
    BY <1>4, <1>6, <2>1
  <2>3. QED
    BY <1>0, <1>5, <2>2 DEF OwnInv
<1>13. QED
  BY <1>2, <1>4, <1>8, <1>9, <1>10, <1>11, <1>12 DEF Inv

-----------------------------------------------------------------------------
(* The callers of acquire() and release().                                 *)

\* What is known of a frame where the code calls.
LEMMA CallFacts ==
  ASSUME Inv, NEW c \in CPUs
  PROVE  /\ cur[c] \in Threads \cup {c} /\ cur[c] \in Acts /\ frame(c) \in Frames
         /\ frame(c) = Top(cur[c])
         /\ slk \in [Frames -> Devs \cup {NoCpu}] /\ held[frame(c)] \subseteq Locks
         /\ trap[cur[c]] = 1 => slk[frame(c)] = NoCpu
         /\ pc[frame(c)] \notin Inner => At(cur[c], pc[frame(c)], held[frame(c)])
         /\ c \notin Threads /\ trap[cur[c]] \in {0, 1}
<1>1. TypeOK /\ CurInv /\ TrapInv
  BY DEF Inv
<1>2. /\ frame(c) \in Frames /\ cur[c] \in Acts /\ frame(c) = Top(cur[c])
      /\ pc[frame(c)] \notin Inner => At(cur[c], pc[frame(c)], held[frame(c)])
  BY TopFacts
<1>3. trap[cur[c]] = 1 => slk[frame(c)] = NoCpu
  BY <1>1, <1>2 DEF TrapInv, frame, High
<1>4. QED
  BY <1>1, <1>2, <1>3, LockAssumption DEF TypeOK, CurInv, Acts, Top, Low

\* Taking a lock, as kernel code does, or the scheduler, or sleep() at its end.
LEMMA TakeStep ==
  ASSUME Inv, NEW c \in CPUs,
         \/ \E l \in Locks : Take(c, l)
         \/ \E p \in Threads : SchedAcquire(c, p)
         \/ SleepAcquire(c)
  PROVE  Inv'
<1>1. /\ cur[c] \in Threads \cup {c} /\ cur[c] \in Acts /\ frame(c) \in Frames
      /\ frame(c) = Top(cur[c])
      /\ slk \in [Frames -> Devs \cup {NoCpu}] /\ held[frame(c)] \subseteq Locks
      /\ trap[cur[c]] = 1 => slk[frame(c)] = NoCpu
      /\ pc[frame(c)] \notin Inner => At(cur[c], pc[frame(c)], held[frame(c)])
      /\ c \notin Threads /\ trap[cur[c]] \in {0, 1}
  BY CallFacts
<1>2. ASSUME UNCHANGED slk
      PROVE  /\ slk[frame(c)] \in Devs \cup {NoCpu}
             /\ slk' = [slk EXCEPT ![frame(c)] = slk[frame(c)]]
  BY <1>1, <1>2
<1>3. ASSUME NEW l \in Locks, Take(c, l) PROVE Inv'
  <2>1. /\ acquire(c, l, "run") /\ UNCHANGED Rest /\ UNCHANGED slk
        /\ pc[frame(c)] = "run" /\ (cur[c] \in Threads \/ trap[cur[c]] = 1)
    BY <1>3 DEF Take, InRun
  <2>2. l \notin held[frame(c)]
    <3>1. held[frame(c)] \subseteq Devs /\ (l \in Devs => \A m \in held[frame(c)] : m < l)
      BY <1>3 DEF Take
    <3>2. l \in Devs => l \in Nat /\ ~(l < l)
      BY LockAssumption, SMT
    <3>3. QED
      BY <3>1, <3>2
  <2>4. PICK a, H : a = cur[c] /\ H = held[frame(c)] \cup {l}
    OBVIOUS
  <2>5. At(a, "run", H)'
    <3>1. trap' = trap /\ cur' = cur
      BY <2>1 DEF Rest
    <3>2. QED
      BY <1>1, <2>1, <2>4, <3>1, LockAssumption, SMT DEF At
  <2>6. /\ "run" \in Labels \ (Inner \cup {"back", "new", "first"})
        /\ pc[frame(c)] \notin Inner \cup {"new", "first"}
    BY <2>1 DEF Labels, Inner
  <2>7. QED
    BY <1>1, <1>2, <2>1, <2>2, <2>4, <2>5, <2>6, AcquireStep
<1>4. ASSUME NEW p \in Threads, SchedAcquire(c, p) PROVE Inv'
  <2>1. /\ acquire(c, p, "pick") /\ UNCHANGED Rest /\ UNCHANGED slk /\ p \in Locks
        /\ cur[c] = c /\ trap[c] = 0 /\ pc[frame(c)] = "run"
    BY <1>4 DEF SchedAcquire, frame, Locks
  <2>2. held[frame(c)] = {}
    BY <1>1, <2>1 DEF At, Inner
  <2>4. PICK a, H : a = cur[c] /\ H = held[frame(c)] \cup {p}
    OBVIOUS
  <2>5. At(a, "pick", H)'
    <3>1. trap' = trap /\ cur' = cur
      BY <2>1 DEF Rest
    <3>2. QED
      BY <2>1, <2>2, <2>4, <3>1 DEF At
  <2>6. /\ "pick" \in Labels \ (Inner \cup {"back", "new", "first"})
        /\ pc[frame(c)] \notin Inner \cup {"new", "first"}
    BY <2>1 DEF Labels, Inner
  <2>7. QED
    BY <1>1, <1>2, <2>1, <2>2, <2>4, <2>5, <2>6, AcquireStep
<1>5. CASE SleepAcquire(c)
  <2>1. /\ UNCHANGED Rest /\ UNCHANGED slk /\ pc[frame(c)] = "again"
        /\ acquire(c, slk[frame(c)], "run")
    BY <1>5 DEF SleepAcquire
  <2>2. held[frame(c)] = {} /\ slk[frame(c)] \in Locks /\ cur[c] \in Threads
    BY <1>1, <2>1 DEF At, Inner, Locks
  <2>3. PICK l \in Locks : l = slk[frame(c)]
    BY <2>2
  <2>4. PICK a, H : a = cur[c] /\ H = held[frame(c)] \cup {l}
    OBVIOUS
  <2>5. At(a, "run", H)'
    BY <2>2, <2>4, LockAssumption DEF At
  <2>6. /\ "run" \in Labels \ (Inner \cup {"back", "new", "first"})
        /\ pc[frame(c)] \notin Inner \cup {"new", "first"}
    <3>1. "again" \notin Inner \cup {"new", "first"} /\ "run" \in Labels \ (Inner \cup {"back", "new", "first"})
      BY DEF Labels, Inner
    <3>2. QED
      BY <2>1, <3>1
  <2>7. QED
    BY <1>1, <1>2, <2>1, <2>2, <2>3, <2>4, <2>5, <2>6, AcquireStep
<1>6. QED
  BY <1>3, <1>4, <1>5

\* yield() and sleep() take the lock of their own process.
LEMMA OwnLockStep ==
  ASSUME Inv, NEW c \in CPUs, yield(c) \/ \E l \in Locks : sleep(c, l)
  PROVE  Inv'
<1>1. /\ cur[c] \in Threads \cup {c} /\ frame(c) \in Frames /\ frame(c) = Top(cur[c])
      /\ slk \in [Frames -> Devs \cup {NoCpu}]
  BY CallFacts
<1>2. CASE yield(c)
  <2>1. /\ acquire(c, cur[c], "sched") /\ UNCHANGED Rest /\ pc[frame(c)] = "run"
        /\ cur[c] \in Threads /\ held[frame(c)] = {} /\ slk' = [slk EXCEPT ![frame(c)] = NoCpu]
    BY <1>2 DEF yield, InRun
  <2>2. PICK l \in Locks : l = cur[c]
    BY <2>1 DEF Locks
  <2>3. PICK a, H : a = cur[c] /\ H = held[frame(c)] \cup {l}
    OBVIOUS
  <2>4. At(a, "sched", H)'
    BY <2>1, <2>2, <2>3 DEF At
  <2>5. /\ "sched" \in Labels \ (Inner \cup {"back", "new", "first"})
        /\ pc[frame(c)] \notin Inner \cup {"new", "first"}
    BY <2>1 DEF Labels, Inner
  <2>6. l \notin held[frame(c)] /\ NoCpu \in Devs \cup {NoCpu}
    BY <2>1
  <2>7. QED
    BY <2>1, <2>2, <2>3, <2>4, <2>5, <2>6, AcquireStep
<1>3. ASSUME NEW l \in Locks, sleep(c, l) PROVE Inv'
  <2>1. /\ acquire(c, cur[c], "sleep") /\ UNCHANGED Rest /\ pc[frame(c)] = "run" /\ trap[cur[c]] = 0
        /\ l \in Devs /\ held[frame(c)] = {l} /\ slk' = [slk EXCEPT ![frame(c)] = l]
    BY <1>3 DEF sleep, InRun
  <2>2. cur[c] \in Threads
    BY <1>1, <1>3, LockAssumption, SMT DEF sleep, InRun
  <2>3. PICK m \in Locks : m = cur[c]
    BY <2>2 DEF Locks
  <2>4. PICK a, H : a = cur[c] /\ H = held[frame(c)] \cup {m}
    OBVIOUS
  <2>5. At(a, "sleep", H)'
    <3>1. trap' = trap
      BY <2>1 DEF Rest
    <3>2. slk'[Top(a)] = l /\ Top(a)' = Top(a)
      BY <1>1, <2>1, <2>4, <3>1 DEF Top
    <3>3. QED
      BY <2>1, <2>2, <2>3, <2>4, <3>1, <3>2 DEF At
  <2>6. /\ "sleep" \in Labels \ (Inner \cup {"back", "new", "first"})
        /\ pc[frame(c)] \notin Inner \cup {"new", "first"}
    BY <2>1 DEF Labels, Inner
  <2>7. m \notin held[frame(c)] /\ l \in Devs \cup {NoCpu} /\ (trap[cur[c]] = 1 => l = NoCpu)
    BY <2>1, <2>2, <2>3, LockAssumption, SMT
  <2>8. QED
    BY <2>1, <2>3, <2>4, <2>5, <2>6, <2>7, AcquireStep
<1>4. QED
  BY <1>2, <1>3

\* The calls of release().
LEMMA GiveStep ==
  ASSUME Inv, NEW c \in CPUs,
         \/ \E l \in Locks : Release(c, l)
         \/ SleepRelease(c) \/ Resume(c) \/ forkret(c)
         \/ \E p \in Threads : SchedRelease(c, p)
  PROVE  Inv'
<1>1. /\ cur[c] \in Threads \cup {c} /\ cur[c] \in Acts /\ frame(c) \in Frames
      /\ frame(c) = Top(cur[c])
      /\ slk \in [Frames -> Devs \cup {NoCpu}] /\ held[frame(c)] \subseteq Locks
      /\ trap[cur[c]] = 1 => slk[frame(c)] = NoCpu
      /\ pc[frame(c)] \notin Inner => At(cur[c], pc[frame(c)], held[frame(c)])
      /\ c \notin Threads /\ trap[cur[c]] \in {0, 1}
  BY CallFacts
<1>2. {"run", "sched", "again", "first"} \subseteq Labels \ (Inner \cup {"back", "new"})
  BY DEF Labels, Inner
<1>3. ASSUME NEW l \in Locks, Release(c, l) PROVE Inv'
  <2>1. /\ release(c, l, "run") /\ UNCHANGED <<Rest, slk>> /\ l \in held[frame(c)]
        /\ pc[frame(c)] = "run" /\ (cur[c] \in Threads \/ trap[cur[c]] = 1)
    BY <1>3 DEF Release, InRun
  <2>2. PICK a, H : a = cur[c] /\ H = held[frame(c)] \ {l}
    OBVIOUS
  <2>3. At(a, "run", H) /\ pc[frame(c)] \notin Inner \cup {"new", "first"}
    BY <2>1, <2>2, LockAssumption, SMT DEF At, Inner
  <2>4. QED
    BY <1>2, <2>1, <2>2, <2>3, ReleaseStep
<1>4. CASE SleepRelease(c)
  <2>1. /\ pc[frame(c)] = "sleep" /\ release(c, slk[frame(c)], "sched") /\ UNCHANGED <<Rest, slk>>
    BY <1>4 DEF SleepRelease
  <2>2. cur[c] \in Threads /\ slk[frame(c)] \in Devs /\ held[frame(c)] = {cur[c], slk[frame(c)]}
    BY <1>1, <2>1 DEF At, Inner
  <2>3. PICK l \in Locks : l = slk[frame(c)]
    BY <2>2 DEF Locks
  <2>4. PICK a, H : a = cur[c] /\ H = held[frame(c)] \ {l}
    OBVIOUS
  <2>5. At(a, "sched", H) /\ pc[frame(c)] \notin Inner \cup {"new", "first"}
    BY <2>1, <2>2, <2>3, <2>4, LockAssumption DEF At, Inner
  <2>6. QED
    BY <1>2, <2>1, <2>2, <2>3, <2>4, <2>5, ReleaseStep
<1>5. CASE Resume(c)
  <2>1. PICK next \in {"run", "again"} : next = IF slk[frame(c)] = NoCpu THEN "run" ELSE "again"
    OBVIOUS
  <2>2. /\ pc[frame(c)] = "back" /\ release(c, cur[c], next) /\ UNCHANGED <<Rest, slk>>
        /\ cur[c] \in Threads
    BY <1>5, <2>1 DEF Resume
  <2>3. held[frame(c)] = {cur[c]}
    BY <1>1, <2>2, LockAssumption DEF At, Inner
  <2>4. PICK l \in Locks : l = cur[c]
    BY <2>2 DEF Locks
  <2>5. PICK a, H : a = cur[c] /\ H = held[frame(c)] \ {l}
    OBVIOUS
  <2>6. H = {} /\ (next = "again" => slk[frame(c)] \in Devs /\ trap[cur[c]] = 0)
    BY <1>1, <2>1, <2>3, <2>4, <2>5
  <2>7. At(a, next, H)
    BY <1>1, <2>1, <2>2, <2>5, <2>6 DEF At
  <2>8. pc[frame(c)] \notin Inner \cup {"new", "first"}
    BY <2>2 DEF Inner
  <2>9. QED
    BY <1>2, <2>1, <2>2, <2>3, <2>4, <2>5, <2>7, <2>8, ReleaseStep
<1>6. CASE forkret(c)
  <2>1. pc[frame(c)] = "new" /\ release(c, cur[c], "first") /\ UNCHANGED <<Rest, slk>>
    BY <1>6 DEF forkret
  <2>2. cur[c] \in Threads /\ trap[cur[c]] = 0 /\ held[frame(c)] = {cur[c]}
    BY <1>1, <2>1 DEF At, Inner
  <2>3. PICK l \in Locks : l = cur[c]
    BY <2>2 DEF Locks
  <2>4. PICK a, H : a = cur[c] /\ H = held[frame(c)] \ {l}
    OBVIOUS
  <2>5. At(a, "first", H) /\ pc[frame(c)] \notin Inner
    BY <2>1, <2>2, <2>3, <2>4 DEF At, Inner
  <2>6. QED
    BY <1>2, <2>1, <2>2, <2>3, <2>4, <2>5, ReleaseStep
<1>7. ASSUME NEW p \in Threads, SchedRelease(c, p) PROVE Inv'
  <2>1. /\ release(c, p, "run") /\ UNCHANGED <<Rest, slk>> /\ p \in held[frame(c)]
        /\ cur[c] = c /\ trap[c] = 0 /\ pc[frame(c)] \in {"pick", "back"} /\ p \in Locks
    BY <1>7 DEF SchedRelease, frame, Locks
  <2>2. PICK q \in Threads : held[frame(c)] = {q}
    BY <1>1, <2>1 DEF At, Inner
  <2>3. PICK a, H : a = cur[c] /\ H = held[frame(c)] \ {p}
    OBVIOUS
  <2>4. At(a, "run", H) /\ pc[frame(c)] \notin Inner \cup {"new", "first"}
    BY <2>1, <2>2, <2>3 DEF At, Inner
  <2>5. QED
    BY <1>2, <2>1, <2>3, <2>4, ReleaseStep
<1>8. QED
  BY <1>3, <1>4, <1>5, <1>6, <1>7


-----------------------------------------------------------------------------
(* Interrupts and the switch.                                              *)

\* intr_on() and intr_off(), where no lock is held.
LEMMA SetIntrStep ==
  ASSUME Inv, NEW c \in CPUs,
         (\E on \in BOOLEAN : SetIntr(c, on)) \/ FirstReturn(c) \/ SchedTop(c)
  PROVE  Inv'
<1>f. PICK f : f = frame(c)
  OBVIOUS
<1>0. TypeOK /\ FiniteInv /\ CurInv /\ LockInv /\ OwnInv /\ TrapInv /\ NoffOK(c)
  BY DEF Inv
<1>1. /\ f \in Frames /\ cur[c] \in Acts /\ cur[c] \in Threads \cup {c} /\ c \notin Threads
      /\ slk[f] \in Devs \cup {NoCpu} /\ (trap[cur[c]] = 1 => slk[f] = NoCpu)
      /\ pc[f] \notin Inner => At(cur[c], pc[f], held[f])
  BY <1>f, CallFacts
<1>2. TypeOK'
  BY TypeOthers
<1>3. /\ trap[cur[c]] = 0 /\ pc[f] \in {"run", "first"} /\ pc'[f] = "run" /\ held[f] = {}
      /\ cur[c] \in Threads => intr'[c] = want'[f]
      /\ \A g \in Frames \ {f} : pc'[g] = pc[g] /\ want'[g] = want[g]
      /\ \A d \in CPUs \ {c} : intr'[d] = intr[d]
      /\ UNCHANGED <<locked, lcpu, noff, intena, cur, state, trap, lk, ret, saved, slk, held>>
  <2>1. ASSUME NEW on \in BOOLEAN, SetIntr(c, on) PROVE <1>3!:
    BY <1>f, <1>0, <1>1, <2>1 DEF SetIntr, InRun, TypeOK, lockvars, flow
  <2>2. CASE FirstReturn(c)
    <3>1. trap[cur[c]] = 0 /\ held[f] = {}
      BY <1>f, <1>1, <2>2 DEF FirstReturn, At, Inner
    <3>2. QED
      BY <1>f, <1>0, <1>1, <2>2, <3>1 DEF FirstReturn, TypeOK, lockvars
  <2>3. CASE SchedTop(c)
    <3>1. trap[cur[c]] = 0 /\ held[f] = {} /\ f = <<c, 0>> /\ pc[f] = "run" /\ cur[c] = c
      BY <1>f, <1>1, <2>3 DEF SchedTop, At, Inner, frame
    <3>2. QED
      BY <1>f, <1>0, <1>1, <2>3, <3>1 DEF SchedTop, TypeOK, lockvars, flow, Rest
  <2>4. QED
    BY <2>1, <2>2, <2>3
<1>4. Local(c)
  BY <1>f, <1>3, SMT DEF Local
<1>5. /\ CurInv' /\ TrapInv' /\ OffInv' /\ frame(c)' = frame(c)
      /\ \A d \in CPUs \ {c} : /\ (TopOK(d) /\ NoffOK(d) /\ IntrOK(d))'
                               /\ frame(d)' = frame(d)
                               /\ \A m \in Locks : Inside(frame(d), m)' <=> Inside(frame(d), m)
  BY <1>2, <1>4, LocalOthers
<1>6. frame(c) = f /\ frame(c)' = f
  BY <1>f, <1>5
<1>7. Label(f)' = "run" /\ After(f)' = {}
  BY <1>3 DEF Label, After, Inner
<1>8. TopOK(c)'
  BY <1>3, <1>6, <1>7 DEF TopOK, At, Inner
<1>9. noff[c] = 0
  BY <1>3, <1>6, NoffZero
<1>10. NoffOK(c)'
  BY <1>0, <1>3, <1>6 DEF NoffOK
<1>11. IntrOK(c)'
  BY <1>3, <1>6, <1>9, SMT DEF IntrOK
<1>12. FiniteInv' /\ LockInv'
  BY <1>0, <1>3 DEF FiniteInv, LockInv
<1>13. OwnInv'
  <2>1. \A m \in Locks : Inside(f, m)' <=> Inside(f, m)
    BY <1>3 DEF Inside
  <2>2. \A d \in CPUs, m \in Locks : Inside(frame(d), m)' <=> Inside(frame(d), m)
    BY <1>5, <1>6, <2>1
  <2>3. QED
    BY <1>0, <1>3, <2>2 DEF OwnInv
<1>14. QED
  BY <1>2, <1>5, <1>8, <1>10, <1>11, <1>12, <1>13 DEF Inv

\* An interrupt begins or ends on c, at activity a: only trap[a] and intr[c] change,
\* and neither frame of a has a lock.
Trapped(c, a) ==
  /\ a = cur[c] /\ held[Low(a)] = {} /\ held[High(a)] = {}
  /\ trap' = [trap EXCEPT ![a] = 1 - trap[a]]
  /\ \A d \in CPUs \ {c} : intr'[d] = intr[d]
  /\ UNCHANGED <<locked, lcpu, noff, intena, cur, state, pc, lk, ret, saved, slk, held, want>>

\* What that keeps of the invariant.
TrapKeeps(c, a) ==
  /\ FiniteInv' /\ CurInv' /\ OffInv' /\ LockInv' /\ OwnInv'
  /\ \A d \in CPUs \ {c} : (TopOK(d) /\ NoffOK(d) /\ IntrOK(d))'
  /\ frame(c)' = IF trap[a] = 0 THEN High(a) ELSE Low(a)

\* Everything else is as it was.
LEMMA TrappedKeeps ==
  ASSUME Inv, NEW c \in CPUs, NEW a, Trapped(c, a)
  PROVE  TrapKeeps(c, a)
<1>0. TypeOK /\ FiniteInv /\ CurInv /\ LockInv /\ OwnInv /\ OffInv
  BY DEF Inv
<1>1. /\ a \in Acts /\ a \in Threads \cup {c} /\ trap[a] \in {0, 1} /\ a = cur[c]
      /\ frame(c) \in {Low(a), High(a)}
      /\ trap'[a] = 1 - trap[a] /\ \A b \in Acts \ {a} : trap'[b] = trap[b]
      /\ \A d \in CPUs \ {c} : intr'[d] = intr[d] /\ cur[d] # a /\ cur[d] \in Acts
      /\ held[Low(a)] = {} /\ held[High(a)] = {}
      /\ UNCHANGED <<locked, lcpu, noff, intena, cur, state, pc, lk, ret, saved, slk, held, want>>
  BY <1>0, FrameFacts DEF Trapped, TypeOK, Acts, CurInv
<1>2. FiniteInv' /\ LockInv'
  BY <1>0, <1>1 DEF FiniteInv, LockInv
<1>3. CurInv'
  BY <1>0, <1>1, LockAssumption, SMT DEF CurInv, Acts
<1>4. OffInv'
  <2>1. \A b \in Acts \ {a} : Top(b)' = Top(b)
    BY <1>1 DEF Top
  <2>2. \A b \in Acts : (\A d \in CPUs : cur'[d] # b) => b # a /\ (\A d \in CPUs : cur[d] # b)
    BY <1>1
  <2>3. QED
    BY <1>0, <1>1, <2>1, <2>2, SMTT(20) DEF OffInv
<1>5. frame(c)' = IF trap[a] = 0 THEN High(a) ELSE Low(a)
  BY <1>1, SMT DEF frame, High, Low
<1>6. \A d \in CPUs \ {c} : frame(d)' = frame(d) /\ trap'[cur[d]] = trap[cur[d]]
  BY <1>1 DEF frame
<1>7. ASSUME NEW d \in CPUs \ {c} PROVE (TopOK(d) /\ NoffOK(d) /\ IntrOK(d))'
  <2>1. TopOK(d) /\ NoffOK(d) /\ IntrOK(d)
    BY DEF Inv
  <2>2. PICK g : g = frame(d)
    OBVIOUS
  <2>3. /\ frame(d) = g /\ frame(d)' = g /\ Label(g)' = Label(g) /\ After(g)' = After(g)
        /\ Top(cur[d])' = Top(cur[d])
    BY <1>1, <1>6, <2>2 DEF Top, Label, After
  <2>4. TopOK(d)'
    BY <1>1, <1>6, <2>1, <2>3, ZenonT(60) DEF TopOK, At
  <2>5. NoffOK(d)' /\ IntrOK(d)'
    BY <1>1, <2>1, <2>3 DEF NoffOK, IntrOK
  <2>6. QED
    BY <2>4, <2>5
<1>8. OwnInv'
  <2>1. \A m \in Locks : ~Inside(frame(c), m) /\ ~Inside(frame(c), m)'
    BY <1>1, <1>5 DEF Inside
  <2>2. \A d \in CPUs, m \in Locks : Inside(frame(d), m)' <=> Inside(frame(d), m)
    BY <1>1, <1>6, <2>1, ZenonT(60) DEF Inside
  <2>3. QED
    BY <1>0, <1>1, <2>2 DEF OwnInv
<1>9. QED
  BY <1>2, <1>3, <1>4, <1>5, <1>7, <1>8 DEF TrapKeeps

\* The entry to an interrupt handler.
LEMMA TrapStep ==
  ASSUME Inv, NEW c \in CPUs, Trap(c)
  PROVE  Inv'
<1>a. PICK a : a = cur[c]
  OBVIOUS
<1>0. TypeOK /\ FiniteInv /\ CurInv /\ LockInv /\ OwnInv /\ TrapInv /\ OffInv /\ TopOK(c) /\ NoffOK(c) /\ IntrOK(c)
  BY DEF Inv
<1>1. /\ a \in Acts /\ a \in Threads \cup {c} /\ c \notin Threads /\ trap[a] = 0 /\ intr[c]
      /\ frame(c) = Low(a) /\ Low(a) \in Frames /\ High(a) \in Frames /\ Low(a) # High(a)
      /\ trap' = [trap EXCEPT ![a] = 1] /\ trap'[a] = 1 /\ \A b \in Acts \ {a} : trap'[b] = trap[b]
      /\ intr'[c] = FALSE /\ \A d \in CPUs \ {c} : intr'[d] = intr[d] /\ cur[d] # a
      /\ UNCHANGED <<locked, lcpu, noff, intena, cur, state, pc, lk, ret, saved, slk, held, want>>
  BY <1>a, <1>0, CallFacts, FrameFacts, SMTT(20) DEF Trap, TypeOK, lockvars, flow, Acts, CurInv
<1>2. TypeOK'
  BY TypeOthers
<1>3. noff[c] = 0 /\ held[Low(a)] = {} /\ pc[Low(a)] \notin Inner
  <2>1. noff[c] = 0
    <3>1. noff[c] \in Nat /\ ~(noff[c] > 0)
      BY <1>0, <1>1, TopFacts DEF IntrOK
    <3>2. QED
      BY <3>1, SMT
  <2>2. held[Low(a)] = {} /\ pc[Low(a)] \notin {"swap", "pop"}
    BY <1>1, <2>1, NoffZero
  <2>3. QED
    BY <1>1, <2>1, <2>2, TopFacts DEF Inner
<1>4. /\ pc[Low(a)] \in {"run", "again", "first"}
      /\ pc[Low(a)] \in {"again", "first"} => a \in Threads
      /\ pc[Low(a)] = "again" => slk[Low(a)] \in Devs
      /\ a \in Threads /\ pc[Low(a)] # "first" => want[Low(a)]
  <2>1. At(a, pc[Low(a)], {})
    BY <1>a, <1>1, <1>3, TopFacts
  <2>2. Top(a) = Low(a)
    BY <1>1 DEF Top, Low
  <2>3. /\ pc[Low(a)] \in {"run", "again", "first"}
        /\ pc[Low(a)] \in {"again", "first"} => a \in Threads
        /\ pc[Low(a)] = "again" => slk[Low(a)] \in Devs
    BY <2>1, <2>2 DEF At
  <2>4. Label(Low(a)) = pc[Low(a)]
    BY <1>3 DEF Label
  <2>5. a \in Threads /\ pc[Low(a)] # "first" => want[Low(a)]
    BY <1>a, <1>0, <1>1, <1>3, <2>3, <2>4 DEF IntrOK
  <2>6. QED
    BY <2>3, <2>5
<1>5. /\ pc[High(a)] = "run" /\ held[High(a)] = {} /\ ~want[High(a)] /\ slk[High(a)] = NoCpu
  BY <1>0, <1>1 DEF TrapInv
<1>6. Trapped(c, a)
  BY <1>a, <1>1, <1>3, <1>5, SMT DEF Trapped
<1>7. TrapInv'
  <2> SUFFICES ASSUME NEW b \in Acts
               PROVE  /\ ~want[High(b)] /\ slk[High(b)] = NoCpu
                      /\ trap'[b] = 0 => pc[High(b)] = "run" /\ held[High(b)] = {}
                      /\ trap'[b] = 1 =>
                           /\ held[Low(b)] = {}
                           /\ \/ pc[Low(b)] = "run"
                              \/ (b \in Threads /\ pc[Low(b)] \in {"again", "first"})
                           /\ pc[Low(b)] = "again" => slk[Low(b)] \in Devs
                           /\ pc[Low(b)] # "first" /\ b \in Threads => want[Low(b)]
    BY <1>1 DEF TrapInv, High, Low
  <2>1. CASE b = a
    BY <1>1, <1>3, <1>4, <1>5, <2>1
  <2>2. CASE b # a
    BY <1>0, <1>1, <2>2 DEF TrapInv
  <2>3. QED
    BY <2>1, <2>2
<1>8. TrapKeeps(c, a)
  BY <1>6, TrappedKeeps
<1>9. frame(c)' = High(a)
  BY <1>1, <1>8 DEF TrapKeeps
<1>10. (TopOK(c) /\ NoffOK(c) /\ IntrOK(c))'
  <2>1. Label(High(a)) = "run" /\ After(High(a)) = {}
    BY <1>5 DEF Label, After, Inner
  <2>2. Label(High(a))' = "run" /\ After(High(a))' = {}
    BY <1>1, <1>5 DEF Label, After, Inner, High
  <2>3. TopOK(c)'
    BY <1>1, <1>5, <1>9, <2>2 DEF TopOK, At, Inner
  <2>4. Cardinality(held'[High(a)]) = 0
    BY <1>1, <1>5, FS_EmptySet
  <2>5. NoffOK(c)'
    <3>1. pc'[High(a)] = "run" /\ noff'[c] = 0
      BY <1>1, <1>3, <1>5
    <3>2. QED
      BY <1>9, <2>4, <3>1, SMT DEF NoffOK
  <2>6. want[High(a)] = FALSE
    BY <1>0, <1>1, <1>5 DEF TypeOK
  <2>7. IntrOK(c)'
    BY <1>1, <1>3, <1>9, <2>6 DEF IntrOK
  <2>8. QED
    BY <2>3, <2>5, <2>7
<1>11. QED
  BY <1>2, <1>7, <1>8, <1>10 DEF Inv, TrapKeeps

\* The return from one.
LEMMA TrapRetStep ==
  ASSUME Inv, NEW c \in CPUs, TrapRet(c)
  PROVE  Inv'
<1>a. PICK a : a = cur[c]
  OBVIOUS
<1>0. TypeOK /\ FiniteInv /\ CurInv /\ LockInv /\ OwnInv /\ TrapInv /\ OffInv /\ TopOK(c) /\ NoffOK(c) /\ IntrOK(c)
  BY DEF Inv
<1>1. /\ a \in Acts /\ a \in Threads \cup {c} /\ c \notin Threads /\ trap[a] = 1
      /\ frame(c) = High(a) /\ Low(a) \in Frames /\ High(a) \in Frames /\ Low(a) # High(a)
      /\ trap' = [trap EXCEPT ![a] = 0] /\ trap'[a] = 0 /\ \A b \in Acts \ {a} : trap'[b] = trap[b]
      /\ intr'[c] = TRUE /\ \A d \in CPUs \ {c} : intr'[d] = intr[d] /\ cur[d] # a
      /\ pc[High(a)] = "run" /\ held[High(a)] = {}
      /\ UNCHANGED <<locked, lcpu, noff, intena, cur, state, pc, lk, ret, saved, slk, held, want>>
  BY <1>a, <1>0, CallFacts, FrameFacts, SMTT(20) DEF TrapRet, TypeOK, lockvars, flow, Acts, CurInv
<1>2. TypeOK'
  BY TypeOthers
<1>3. noff[c] = 0
  BY <1>1, NoffZero
<1>4. /\ held[Low(a)] = {}
      /\ pc[Low(a)] = "run" \/ (a \in Threads /\ pc[Low(a)] \in {"again", "first"})
      /\ pc[Low(a)] = "again" => slk[Low(a)] \in Devs
      /\ pc[Low(a)] # "first" /\ a \in Threads => want[Low(a)]
  BY <1>0, <1>1 DEF TrapInv
<1>5. Trapped(c, a)
  <2>1. 1 - trap[a] = 0
    BY <1>1, SMTT(20)
  <2>2. QED
    BY <1>a, <1>1, <1>4, <2>1 DEF Trapped
<1>6. TrapInv'
  <2> SUFFICES ASSUME NEW b \in Acts
               PROVE  /\ ~want[High(b)] /\ slk[High(b)] = NoCpu
                      /\ trap'[b] = 0 => pc[High(b)] = "run" /\ held[High(b)] = {}
                      /\ trap'[b] = 1 =>
                           /\ held[Low(b)] = {}
                           /\ \/ pc[Low(b)] = "run"
                              \/ (b \in Threads /\ pc[Low(b)] \in {"again", "first"})
                           /\ pc[Low(b)] = "again" => slk[Low(b)] \in Devs
                           /\ pc[Low(b)] # "first" /\ b \in Threads => want[Low(b)]
    BY <1>1 DEF TrapInv, High, Low
  <2>1. CASE b = a
    BY <1>0, <1>1, <2>1 DEF TrapInv
  <2>2. CASE b # a
    BY <1>0, <1>1, <2>2 DEF TrapInv
  <2>3. QED
    BY <2>1, <2>2
<1>7. TrapKeeps(c, a)
  BY <1>5, TrappedKeeps
<1>8. frame(c)' = Low(a)
  BY <1>1, <1>7, SMT DEF TrapKeeps
<1>9. (TopOK(c) /\ NoffOK(c) /\ IntrOK(c))'
  <2>1. PICK g : g = Low(a)
    OBVIOUS
  <2>2. pc[g] \notin Inner /\ held[g] = {}
    BY <1>4, <2>1 DEF Inner
  <2>3. /\ Label(g)' = pc[g] /\ After(g)' = {} /\ frame(c)' = g /\ Top(a)' = g
    BY <1>1, <1>8, <2>1, <2>2 DEF Label, After, Inner, Top, Low
  <2>4. At(a, pc[g], {})'
    BY <1>1, <1>4, <2>1, <2>3 DEF At
  <2>5. TopOK(c)'
    BY <1>a, <1>1, <2>2, <2>3, <2>4 DEF TopOK, At, Inner
  <2>6. Cardinality(held'[g]) = 0
    <3>1. held'[g] = {}
      BY <1>1, <2>2
    <3>2. QED
      BY <3>1, FS_EmptySet
  <2>7. NoffOK(c)'
    <3>1. pc'[g] \notin {"swap", "pop"} /\ noff'[c] = 0
      BY <1>1, <1>3, <2>2 DEF Inner
    <3>2. QED
      BY <2>3, <2>6, <3>1, SMT DEF NoffOK
  <2>8. a \in Threads /\ pc[g] # "first" => want[g] = TRUE
    BY <1>0, <1>1, <1>4, <2>1 DEF TypeOK
  <2>9. IntrOK(c)'
    <3>1. noff'[c] = 0 /\ intr'[c] = TRUE /\ cur'[c] = a /\ want' = want
      BY <1>a, <1>1, <1>3
    <3>2. cur'[c] \in Threads /\ Label(frame(c))' \notin {"new", "first"} => want'[g] = TRUE
      BY <2>3, <2>8, <3>1
    <3>3. ~(noff'[c] > 0) /\ frame(c)' = g
      BY <2>3, <3>1, SMT
    <3>4. cur'[c] \in Threads /\ Label(frame(c))' \notin {"new", "first"} => intr'[c] = want'[g]
      BY <3>1, <3>2
    <3>5. QED
      BY <3>1, <3>3, <3>4 DEF IntrOK
  <2>10. QED
    BY <2>5, <2>7, <2>9
<1>10. QED
  BY <1>2, <1>6, <1>7, <1>9 DEF Inv, TrapKeeps

\* A switch, either way, on c: what ran was a at frame f, which held p alone, and
\* what runs is b at frame g, which held nothing.
Switched(c, a, f, b, g, p) ==
  /\ f \in Frames /\ g \in Frames /\ f # g /\ a # b
  /\ held[f] = {p} /\ held[g] = {}
  /\ held' = [held EXCEPT ![f] = {}, ![g] = {p}]
  /\ pc[f] \notin Inner /\ pc'[f] \notin Inner /\ pc[g] \notin Inner
  /\ pc' = [pc EXCEPT ![f] = "back"]
  /\ cur[c] = a /\ cur' = [cur EXCEPT ![c] = b] /\ a \in Acts /\ b \in Acts
  /\ frame(c) = f /\ f = Top(a) /\ g = Top(b)
  /\ \A d \in CPUs : cur[d] # b
  /\ UNCHANGED <<locked, lcpu, noff, intr, trap, lk, ret, slk, want>>
  /\ \A d \in CPUs \ {c} : intena'[d] = intena[d]
  /\ p \in Threads

\* What it keeps of the invariant.
SwitchKeeps(c, f, g, p) ==
  /\ FiniteInv' /\ LockInv' /\ OwnInv' /\ TrapInv' /\ NoffOK(c)'
  /\ frame(c)' = g /\ noff[c] = 1 /\ ~intr'[c]
  /\ \A d \in CPUs \ {c} : (TopOK(d) /\ NoffOK(d) /\ IntrOK(d))'
  /\ held'[f] = {} /\ held'[g] = {p} /\ pc'[f] = "back" /\ pc'[g] = pc[g]
  /\ \A h \in Frames \ {f, g} : held'[h] = held[h] /\ pc'[h] = pc[h]

\* The locks are then in other hands, and on the same CPU.
LEMMA SwitchedKeeps ==
  ASSUME Inv, TypeOK', NEW c \in CPUs, NEW a, NEW f, NEW b, NEW g, NEW p,
         Switched(c, a, f, b, g, p)
  PROVE  SwitchKeeps(c, f, g, p)
<1>0. TypeOK /\ FiniteInv /\ CurInv /\ LockInv /\ OwnInv /\ TrapInv /\ NoffOK(c) /\ IntrOK(c)
  BY DEF Inv
<1>1. /\ held'[f] = {} /\ held'[g] = {p} /\ pc'[f] = "back" /\ pc'[g] = pc[g]
      /\ \A h \in Frames \ {f, g} : held'[h] = held[h] /\ pc'[h] = pc[h]
  BY <1>0, SMT DEF Switched, TypeOK
<1>2. frame(c)' = g /\ \A d \in CPUs \ {c} : frame(d)' = frame(d) /\ cur'[d] = cur[d]
  BY <1>0, SMTT(20) DEF Switched, TypeOK, frame, Top
<1>3. \A d \in CPUs \ {c} : frame(d) \notin {f, g} /\ frame(d) \in Frames
  <2>1. \A d \in CPUs \ {c} : cur[d] # cur[c] /\ frame(d) # frame(c) /\ frame(d) \in Frames
    BY <1>0, FrameFacts
  <2>2. \A d \in CPUs : frame(d) # g
    BY DEF Switched, frame, Top
  <2>3. QED
    BY <2>1, <2>2 DEF Switched
<1>4. Cardinality({p}) = 1 /\ IsFiniteSet({p}) /\ IsFiniteSet({})
  BY FS_Singleton, FS_EmptySet
<1>5. FiniteInv'
  BY <1>0, <1>1, <1>4 DEF FiniteInv
<1>6. LockInv'
  <2>1. \A l \in Locks : \A h \in Frames : l \in held'[h] <=> IF l = p THEN h = g ELSE l \in held[h]
    BY <1>0, <1>1 DEF Switched, LockInv, Locks
  <2>2. f \in Frames /\ g \in Frames /\ p \in Locks /\ p \in held[f] /\ locked' = locked
    BY DEF Switched, Locks
  <2>3. QED
    BY <1>0, <2>1, <2>2, SMT DEF LockInv
<1>7. OwnInv'
  <2>1. \A m \in Locks : Inside(f, m) <=> m = p
    BY DEF Switched, Inside, Inner
  <2>2. \A m \in Locks : Inside(g, m)' <=> m = p
    BY <1>1 DEF Switched, Inside, Inner
  <2>3. \A d \in CPUs \ {c}, m \in Locks : Inside(frame(d), m)' <=> Inside(frame(d), m)
    <3> TAKE d \in CPUs \ {c}, m \in Locks
    <3>1. PICK h : h = frame(d)
      OBVIOUS
    <3>2. frame(d) = h /\ frame(d)' = h /\ held'[h] = held[h] /\ pc'[h] = pc[h] /\ lk' = lk
      BY <1>1, <1>2, <1>3, <3>1 DEF Switched
    <3>3. QED
      BY <3>2 DEF Inside
  <2>4. \A d \in CPUs, m \in Locks : Inside(frame(d), m)' <=> Inside(frame(d), m)
    <3>1. \A m \in Locks : Inside(frame(c), m)' <=> Inside(frame(c), m)
      BY <1>1, <1>2 DEF Inside, Inner, Switched
    <3>2. QED
      BY <2>3, <3>1
  <2>5. QED
    BY <1>0, <2>4 DEF OwnInv, Switched
<1>8. noff[c] = 1 /\ ~intr'[c] /\ NoffOK(c)'
  <2>1. Cardinality(held[f]) = 1 /\ Cardinality(held'[g]) = 1
    <3>1. held[f] = {p} /\ held'[g] = {p}
      BY <1>1 DEF Switched
    <3>2. QED
      BY <1>4, <3>1
  <2>2. pc[f] \notin {"swap", "pop"} /\ pc'[g] \notin {"swap", "pop"} /\ frame(c) = f
    BY <1>1 DEF Switched, Inner
  <2>3. noff[c] = 1
    BY <1>0, <2>1, <2>2, SMT DEF NoffOK
  <2>4. noff' = noff /\ intr' = intr
    BY DEF Switched
  <2>5. ~intr'[c]
    BY <1>0, <2>3, <2>4, SMT DEF IntrOK
  <2>6. NoffOK(c)'
    BY <1>2, <2>1, <2>2, <2>3, <2>4, SMT DEF NoffOK
  <2>7. QED
    BY <2>3, <2>5, <2>6
<1>9. TrapInv'
  <2> SUFFICES ASSUME NEW x \in Acts
               PROVE  /\ ~want[High(x)] /\ slk[High(x)] = NoCpu
                      /\ trap[x] = 0 => pc'[High(x)] = "run" /\ held'[High(x)] = {}
                      /\ trap[x] = 1 =>
                           /\ held'[Low(x)] = {}
                           /\ \/ pc'[Low(x)] = "run"
                              \/ (x \in Threads /\ pc'[Low(x)] \in {"again", "first"})
                           /\ pc'[Low(x)] = "again" => slk[Low(x)] \in Devs
                           /\ pc'[Low(x)] # "first" /\ x \in Threads => want[Low(x)]
    BY DEF TrapInv, High, Low, Switched
  <2>1. trap[x] = 0 => High(x) \in Frames \ {f, g}
    BY <1>0, SMT DEF Switched, Top, High, Frames, Acts
  <2>2. trap[x] = 1 => Low(x) \in Frames \ {f, g}
    BY <1>0, SMT DEF Switched, Top, Low, Frames, Acts
  <2>3. QED
    BY <1>0, <1>1, <2>1, <2>2 DEF TrapInv
<1>10. ASSUME NEW d \in CPUs \ {c} PROVE (TopOK(d) /\ NoffOK(d) /\ IntrOK(d))'
  <2>1. TopOK(d) /\ NoffOK(d) /\ IntrOK(d)
    BY DEF Inv
  <2>2. PICK h : h = frame(d)
    OBVIOUS
  <2>3. /\ frame(d) = h /\ frame(d)' = h /\ cur'[d] = cur[d]
        /\ pc'[h] = pc[h] /\ held'[h] = held[h]
        /\ UNCHANGED <<noff, intr, trap, lk, ret, slk, want>> /\ intena'[d] = intena[d]
    BY <1>1, <1>2, <1>3, <2>2 DEF Switched
  <2>4. Label(h)' = Label(h) /\ After(h)' = After(h) /\ \A x : Top(x)' = Top(x)
    BY <2>3 DEF Label, After, Top
  <2>5. TopOK(d)'
    BY <2>1, <2>3, <2>4 DEF TopOK, At
  <2>6. NoffOK(d)' /\ IntrOK(d)'
    BY <2>1, <2>3, <2>4 DEF NoffOK, IntrOK
  <2>7. QED
    BY <2>5, <2>6
<1>11. QED
  BY <1>1, <1>2, <1>5, <1>6, <1>7, <1>8, <1>9, <1>10 DEF SwitchKeeps

\* sched() switches to the scheduler of its CPU.
LEMMA SchedStep ==
  ASSUME Inv, NEW c \in CPUs, sched(c)
  PROVE  Inv'
<1>f. PICK p, f, g : p = cur[c] /\ f = frame(c) /\ g = Top(c)
  OBVIOUS
<1>0. TypeOK /\ CurInv /\ OffInv /\ TopOK(c) /\ IntrOK(c)
  BY DEF Inv
<1>1. pc[f] = "sched" /\ p \in Threads /\ held[f] = {p} /\ f \in Frames /\ f = Top(p)
  BY <1>f, CallFacts DEF sched, At, Inner
<1>2. p # c /\ trap[c] = 0 /\ g = <<c, 0>> /\ g \in Frames /\ f # g /\ c \in Acts
  BY <1>f, <1>0, <1>1, LockAssumption, SMT DEF CurInv, Top, Frames, Acts
<1>3. \A d \in CPUs : cur[d] # c
  BY <1>f, <1>0, <1>2, LockAssumption DEF CurInv
<1>4. held[g] = {} /\ pc[g] = "back"
  BY <1>f, <1>0, <1>2, <1>3, LockAssumption DEF OffInv, Acts
<1>5. /\ held' = [held EXCEPT ![f] = {}, ![g] = {p}] /\ pc' = [pc EXCEPT ![f] = "back"]
      /\ cur' = [cur EXCEPT ![c] = c]
      /\ state' = [state EXCEPT ![p] = "RUNNABLE"] /\ saved' = [saved EXCEPT ![p] = intena[c]]
      /\ UNCHANGED <<locked, lcpu, noff, intena, intr, trap, lk, ret, slk, want>>
  <2>1. held' = [held EXCEPT ![f] = @ \ {p}, ![g] = @ \cup {p}]
    BY <1>f, <1>2 DEF sched
  <2>2. held' = [held EXCEPT ![f] = {}, ![g] = {p}]
    BY <1>0, <1>1, <1>2, <1>4, <2>1 DEF TypeOK
  <2>3. QED
    BY <1>f, <2>2 DEF sched, lockvars, cpuvars
<1>6. Switched(c, p, f, c, g, p)
  <2>1. pc'[f] = "back"
    BY <1>0, <1>1, <1>5 DEF TypeOK
  <2>2. QED
    BY <1>f, <1>1, <1>2, <1>3, <1>4, <1>5, <2>1 DEF Switched, Inner, Acts
<1>7. TypeOK'
  BY TypeOthers
<1>8. /\ FiniteInv' /\ LockInv' /\ OwnInv' /\ TrapInv' /\ NoffOK(c)'
      /\ frame(c)' = g /\ noff[c] = 1 /\ ~intr'[c]
      /\ \A d \in CPUs \ {c} : (TopOK(d) /\ NoffOK(d) /\ IntrOK(d))'
      /\ held'[f] = {} /\ held'[g] = {p} /\ pc'[f] = "back" /\ pc'[g] = pc[g]
      /\ \A h \in Frames \ {f, g} : held'[h] = held[h] /\ pc'[h] = pc[h]
  <2>1. SwitchKeeps(c, f, g, p)
    BY <1>6, <1>7, SwitchedKeeps
  <2>2. QED
    BY <2>1 DEF SwitchKeeps
<1>9. cur'[c] = c /\ \A d \in CPUs \ {c} : cur'[d] = cur[d]
  BY <1>0, <1>5 DEF TypeOK
<1>10. CurInv'
  <2>1. \A d \in CPUs : cur'[d] # p
    BY <1>f, <1>0, <1>1, <1>2, <1>9, SMTT(20) DEF CurInv
  <2>2. \A q \in Threads : state'[q] = IF q = p THEN "RUNNABLE" ELSE state[q]
    BY <1>0, <1>5 DEF TypeOK
  <2>3. \A q \in Threads \ {p} : (\E d \in CPUs : cur'[d] = q) <=> (\E d \in CPUs : cur[d] = q)
    BY <1>f, <1>9, LockAssumption
  <2>4. QED
    BY <1>0, <1>3, <1>5, <1>9, <2>1, <2>2, <2>3, SMT DEF CurInv
<1>11. OffInv'
  <2> SUFFICES ASSUME NEW x \in Acts, \A d \in CPUs : cur'[d] # x
               PROVE  /\ held'[Top(x)] = {}
                      /\ \/ pc'[Top(x)] = "back"
                         \/ (pc'[Top(x)] = "new" /\ x \in Threads /\ trap[x] = 0)
                      /\ pc'[Top(x)] = "back" /\ x \in Threads => saved'[x] = want[Top(x)]
    <3>1. \A x : Top(x)' = Top(x)
      BY <1>5 DEF Top
    <3>2. QED
      BY <1>5, <3>1 DEF OffInv
  <2>1. CASE x = p
    <3>1. saved'[p] = intena[c]
      BY <1>0, <1>1, <1>5 DEF TypeOK
    <3>2. Label(f) = "sched"
      BY <1>1 DEF Label, Inner
    <3>3. intena[c] = want[f]
      <4>1. noff[c] # 0
        BY <1>8, SMTT(20)
      <4>2. cur[c] \in Threads /\ Label(frame(c)) \notin {"new", "first"}
        BY <1>f, <1>1, <3>2
      <4>3. QED
        BY <1>f, <1>0, <4>1, <4>2 DEF IntrOK
    <3>4. QED
      BY <1>1, <1>8, <2>1, <3>1, <3>3
  <2>2. CASE x # p
    <3>1. x # c /\ \A d \in CPUs : cur[d] # x
      BY <1>f, <1>9, <2>2
    <3>2. Top(x) \in Frames \ {f, g}
      BY <1>0, <1>1, <1>2, <2>2, <3>1 DEF Top, Frames, Acts, TypeOK
    <3>3. x \in Threads => saved'[x] = saved[x]
      BY <1>0, <1>5, <2>2 DEF TypeOK
    <3>4. /\ held[Top(x)] = {}
          /\ pc[Top(x)] = "back" \/ (pc[Top(x)] = "new" /\ x \in Threads /\ trap[x] = 0)
          /\ pc[Top(x)] = "back" /\ x \in Threads => saved[x] = want[Top(x)]
      BY <1>0, <3>1 DEF OffInv
    <3>5. held'[Top(x)] = held[Top(x)] /\ pc'[Top(x)] = pc[Top(x)]
      BY <1>8, <3>2
    <3>6. QED
      BY <3>3, <3>4, <3>5
  <2>3. QED
    BY <2>1, <2>2
<1>12. TopOK(c)'
  <2>1. Label(g)' = "back" /\ After(g)' = {p}
    BY <1>4, <1>8 DEF Label, After, Inner
  <2>2. QED
    BY <1>1, <1>2, <1>4, <1>5, <1>8, <1>9, <2>1 DEF TopOK, At, Inner
<1>13. IntrOK(c)'
  BY <1>8, <1>9, LockAssumption DEF IntrOK
<1>14. QED
  BY <1>7, <1>8, <1>10, <1>11, <1>12, <1>13 DEF Inv

\* scheduler() switches to a process, which gets its intena back.
LEMMA SwitchStep ==
  ASSUME Inv, NEW c \in CPUs, NEW p \in Threads, Switch(c, p)
  PROVE  Inv'
<1>f. PICK f, g : f = frame(c) /\ g = Top(p)
  OBVIOUS
<1>0. TypeOK /\ CurInv /\ OffInv /\ TopOK(c) /\ IntrOK(c)
  BY DEF Inv
<1>1. /\ cur[c] = c /\ trap[c] = 0 /\ f = <<c, 0>> /\ f \in Frames /\ c \in Acts /\ f = Top(c)
      /\ pc[f] = "pick" /\ state[p] = "RUNNABLE" /\ held[f] = {p} /\ p # c /\ p \in Acts
  <2>1. /\ cur[c] = c /\ trap[c] = 0 /\ f = <<c, 0>> /\ pc[f] = "pick" /\ state[p] = "RUNNABLE"
        /\ p \in held[f]
    BY <1>f DEF Switch, frame
  <2>2. \E q \in Threads : held[f] = {q}
    <3>1. pc[f] \notin Inner => At(c, pc[f], held[f])
      BY <1>f, <2>1, CallFacts
    <3>2. QED
      BY <2>1, <3>1, LockAssumption DEF At, Inner
  <2>3. QED
    BY <2>1, <2>2, LockAssumption DEF Frames, Acts, Top
<1>2. /\ \A d \in CPUs : cur[d] # p
  BY <1>0, <1>1 DEF CurInv
<1>3. /\ held[g] = {} /\ g \in Frames /\ f # g
      /\ pc[g] = "back" \/ (pc[g] = "new" /\ trap[p] = 0)
      /\ pc[g] = "back" => saved[p] = want[g]
  BY <1>f, <1>0, <1>1, <1>2 DEF OffInv, Top, Frames, TypeOK
<1>4. /\ held' = [held EXCEPT ![f] = {}, ![g] = {p}] /\ pc' = [pc EXCEPT ![f] = "back"]
      /\ cur' = [cur EXCEPT ![c] = p]
      /\ state' = [state EXCEPT ![p] = "RUNNING"] /\ saved' = [saved EXCEPT ![p] = FALSE]
      /\ intena' = IF pc[g] = "new" THEN intena ELSE [intena EXCEPT ![c] = saved[p]]
      /\ UNCHANGED <<locked, lcpu, noff, intr, trap, lk, ret, slk, want>>
  <2>1. held' = [held EXCEPT ![f] = @ \ {p}, ![g] = @ \cup {p}]
    BY <1>f, <1>1 DEF Switch, Top
  <2>2. held' = [held EXCEPT ![f] = {}, ![g] = {p}]
    BY <1>0, <1>1, <1>3, <2>1 DEF TypeOK
  <2>3. QED
    BY <1>f, <1>1, <2>2 DEF Switch, Top, lockvars
<1>5. Switched(c, c, f, p, g, p)
  <2>1. pc'[f] = "back" /\ \A d \in CPUs \ {c} : intena'[d] = intena[d]
    BY <1>0, <1>1, <1>4 DEF TypeOK
  <2>2. QED
    BY <1>f, <1>1, <1>2, <1>3, <1>4, <2>1 DEF Switched, Inner
<1>6. TypeOK'
  BY TypeOthers
<1>7. /\ FiniteInv' /\ LockInv' /\ OwnInv' /\ TrapInv' /\ NoffOK(c)'
      /\ frame(c)' = g /\ noff[c] = 1 /\ ~intr'[c]
      /\ \A d \in CPUs \ {c} : (TopOK(d) /\ NoffOK(d) /\ IntrOK(d))'
      /\ held'[f] = {} /\ held'[g] = {p} /\ pc'[f] = "back" /\ pc'[g] = pc[g]
      /\ \A h \in Frames \ {f, g} : held'[h] = held[h] /\ pc'[h] = pc[h]
  <2>1. SwitchKeeps(c, f, g, p)
    BY <1>5, <1>6, SwitchedKeeps
  <2>2. QED
    BY <2>1 DEF SwitchKeeps
<1>8. cur'[c] = p /\ \A d \in CPUs \ {c} : cur'[d] = cur[d]
  BY <1>0, <1>4 DEF TypeOK
<1>9. CurInv'
  <2>1. \A q \in Threads : state'[q] = IF q = p THEN "RUNNING" ELSE state[q]
    BY <1>0, <1>4 DEF TypeOK
  <2>2. \A q \in Threads \ {p} : (\E d \in CPUs : cur'[d] = q) <=> (\E d \in CPUs : cur[d] = q)
    BY <1>1, <1>8, LockAssumption
  <2>3. QED
    BY <1>0, <1>1, <1>2, <1>4, <1>8, <2>1, <2>2, SMT DEF CurInv
<1>10. OffInv'
  <2> SUFFICES ASSUME NEW x \in Acts, \A d \in CPUs : cur'[d] # x
               PROVE  /\ held'[Top(x)] = {}
                      /\ \/ pc'[Top(x)] = "back"
                         \/ (pc'[Top(x)] = "new" /\ x \in Threads /\ trap[x] = 0)
                      /\ pc'[Top(x)] = "back" /\ x \in Threads => saved'[x] = want[Top(x)]
    <3>1. \A x : Top(x)' = Top(x)
      BY <1>4 DEF Top
    <3>2. QED
      BY <1>4, <3>1 DEF OffInv
  <2>1. CASE x = c
    BY <1>1, <1>7, <2>1, LockAssumption
  <2>2. CASE x # c
    <3>1. x # p /\ \A d \in CPUs : cur[d] # x
      BY <1>1, <1>8, <2>2
    <3>2. Top(x) \in Frames \ {f, g}
      BY <1>f, <1>0, <1>1, <2>2, <3>1, SMT DEF Top, Frames, Acts, TypeOK
    <3>3. x \in Threads => saved'[x] = saved[x]
      BY <1>0, <1>4, <3>1 DEF TypeOK
    <3>4. /\ held[Top(x)] = {}
          /\ pc[Top(x)] = "back" \/ (pc[Top(x)] = "new" /\ x \in Threads /\ trap[x] = 0)
          /\ pc[Top(x)] = "back" /\ x \in Threads => saved[x] = want[Top(x)]
      BY <1>0, <3>1 DEF OffInv
    <3>5. held'[Top(x)] = held[Top(x)] /\ pc'[Top(x)] = pc[Top(x)]
      BY <1>7, <3>2
    <3>6. QED
      BY <3>3, <3>4, <3>5
  <2>3. QED
    BY <2>1, <2>2
<1>11. Label(g)' = pc[g] /\ After(g)' = {p}
  BY <1>3, <1>7 DEF Label, After, Inner
<1>12. TopOK(c)'
  BY <1>3, <1>4, <1>7, <1>8, <1>11 DEF TopOK, At, Inner
<1>13. IntrOK(c)'
  <2>1. pc[g] = "back" => intena'[c] = want'[g]
    BY <1>0, <1>3, <1>4 DEF TypeOK
  <2>2. noff'[c] = 1
    BY <1>4, <1>7
  <2>3. frame(c)' = g /\ (Label(g)' \notin {"new", "first"} => intena'[c] = want'[g]) /\ ~intr'[c]
    BY <1>3, <1>7, <1>11, <2>1
  <2>4. QED
    BY <2>2, <2>3, SMT DEF IntrOK
<1>14. QED
  BY <1>6, <1>7, <1>9, <1>10, <1>12, <1>13 DEF Inv

-----------------------------------------------------------------------------
(* Every step keeps the invariant, and what follows from it.               *)

\* The invariant holds when the schedulers start.
LEMMA InvInit == Init => Inv
<1> SUFFICES ASSUME Init PROVE Inv
  OBVIOUS
<1>1. IsFiniteSet({}) /\ Cardinality({}) = 0
  BY FS_EmptySet
<1>2. TypeOK
  BY DEF Init, TypeOK, Labels
<1>3. /\ \A f \in Frames : held[f] = {} /\ want[f] = FALSE /\ slk[f] = NoCpu
      /\ \A a \in Acts : trap[a] = 0 /\ Low(a) \in Frames /\ High(a) \in Frames /\ Top(a) = Low(a)
      /\ \A a \in Acts : pc[High(a)] = "run"
      /\ \A p \in Threads : pc[Low(p)] = "new" /\ state[p] = "RUNNABLE"
      /\ \A c \in CPUs : /\ pc[Low(c)] = "run" /\ frame(c) = Low(c) /\ cur[c] = c /\ c \notin Threads
                         /\ noff[c] = 0 /\ intr[c] = FALSE
  BY LockAssumption, SMT DEF Init, Frames, Acts, Low, High, Top, frame
<1>4. FiniteInv
  BY <1>1, <1>3 DEF FiniteInv
<1>5. CurInv
  BY <1>3, SMT DEF CurInv, Acts
<1>6. TrapInv
  BY <1>3, SMT DEF TrapInv
<1>7. OffInv
  BY <1>3, SMT DEF OffInv, Acts
<1>8. ASSUME NEW c \in CPUs PROVE TopOK(c) /\ NoffOK(c) /\ IntrOK(c)
  <2>1. held[frame(c)] = {} /\ pc[frame(c)] = "run" /\ Cardinality(held[frame(c)]) = 0
    <3>1. held[frame(c)] = {} /\ pc[frame(c)] = "run"
      BY <1>3, SMTT(20) DEF Acts
    <3>2. QED
      BY <1>1, <3>1
  <2>2. Label(frame(c)) = "run" /\ After(frame(c)) = {}
    BY <2>1 DEF Label, After, Inner
  <2>3. QED
    BY <1>3, <2>1, <2>2, SMTT(20) DEF TopOK, NoffOK, IntrOK, At, Inner
<1>9. LockInv
  BY <1>3 DEF LockInv, Init
<1>10. OwnInv
  <2>1. \A l \in Locks : lcpu[l] = NoCpu
    BY DEF Init
  <2>2. \A c \in CPUs : held[frame(c)] = {}
    BY <1>3, SMT DEF Acts
  <2>3. QED
    BY <2>1, <2>2, LockAssumption DEF OwnInv, Inside
<1>11. QED
  BY <1>2, <1>4, <1>5, <1>6, <1>7, <1>8, <1>9, <1>10 DEF Inv

\* A step that changes nothing keeps it.
LEMMA InvStutter ==
  ASSUME Inv, UNCHANGED vars
  PROVE  Inv'
<1>1. UNCHANGED <<locked, lcpu, noff, intena, intr, cur, state, trap, pc, lk, ret, saved, slk, held, want>>
  BY DEF vars, lockvars, cpuvars, flow
<1>2. (TypeOK /\ FiniteInv /\ CurInv /\ LockInv)'
  BY <1>1 DEF Inv, TypeOK, FiniteInv, CurInv, LockInv
<1>3. \A f, a : Label(f)' = Label(f) /\ After(f)' = After(f) /\ Top(a)' = Top(a)
  BY <1>1 DEF Label, After, Top
<1>4. (TrapInv /\ OffInv)'
  BY <1>1 DEF Inv, TrapInv, OffInv, Top, Low, High
<1>5. \A c \in CPUs : frame(c)' = frame(c)
  BY <1>1 DEF frame
<1>6. ASSUME NEW c \in CPUs PROVE (TopOK(c) /\ NoffOK(c) /\ IntrOK(c))'
  <2>1. TopOK(c) /\ NoffOK(c) /\ IntrOK(c)
    BY DEF Inv
  <2>2. PICK f : f = frame(c)
    OBVIOUS
  <2>3. frame(c) = f /\ frame(c)' = f /\ Label(f)' = Label(f) /\ After(f)' = After(f)
    BY <1>3, <1>5, <2>2
  <2>4. TopOK(c)'
    BY <1>1, <2>1, <2>3 DEF TopOK, At, Top
  <2>5. QED
    BY <1>1, <2>1, <2>3, <2>4 DEF NoffOK, IntrOK
<1>7. OwnInv'
  BY <1>1, <1>5, SMT DEF Inv, OwnInv, Inside
<1>8. QED
  BY <1>2, <1>4, <1>6, <1>7 DEF Inv

\* Every step keeps the invariant.
LEMMA InvStep ==
  ASSUME Inv, [Next]_vars
  PROVE  Inv'
<1>1. CASE UNCHANGED vars
  BY <1>1, InvStutter
<1>2. CASE Next
  <2>1. PICK c \in CPUs :
          \/ Swap(c) \/ Go(c) \/ yield(c) \/ SchedTop(c) \/ Trap(c) \/ TrapRet(c)
          \/ \E l \in Locks : Take(c, l) \/ Release(c, l) \/ sleep(c, l)
          \/ \E on \in BOOLEAN : SetIntr(c, on)
          \/ \E p \in Threads : SchedAcquire(c, p)
    BY <1>2 DEF Next
  <2>2. CASE Swap(c) \/ Own(c) \/ Unlock(c) \/ Pop(c)
    BY <2>2, SwapStep, OwnStep, UnlockStep, PopStep
  <2>3. CASE (\E l \in Locks : Take(c, l)) \/ (\E p \in Threads : SchedAcquire(c, p)) \/ SleepAcquire(c)
    BY <2>3, TakeStep
  <2>4. CASE yield(c) \/ \E l \in Locks : sleep(c, l)
    BY <2>4, OwnLockStep
  <2>5. CASE \/ \E l \in Locks : Release(c, l)
             \/ SleepRelease(c) \/ Resume(c) \/ forkret(c)
             \/ \E p \in Threads : SchedRelease(c, p)
    BY <2>5, GiveStep
  <2>6. CASE (\E on \in BOOLEAN : SetIntr(c, on)) \/ FirstReturn(c) \/ SchedTop(c)
    BY <2>6, SetIntrStep
  <2>7. CASE Trap(c) \/ TrapRet(c)
    BY <2>7, TrapStep, TrapRetStep
  <2>8. CASE sched(c) \/ \E p \in Threads : Switch(c, p)
    BY <2>8, SchedStep, SwitchStep
  <2>9. QED
    BY <2>1, <2>2, <2>3, <2>4, <2>5, <2>6, <2>7, <2>8 DEF Go
<1>3. QED
  BY <1>1, <1>2

\* The invariant holds at all times.
LEMMA InvHolds == Spec => []Inv
<1>1. Inv /\ [Next]_vars => Inv'
  BY InvStep
<1>2. QED
  BY <1>1, InvInit, PTL DEF Spec

\* Only the top frame of an activity can hold a lock.
LEMMA NotBelow ==
  ASSUME Inv, NEW c \in CPUs, NEW k \in {0, 1}
  PROVE  <<cur[c], k>> = frame(c) \/ held[<<cur[c], k>>] = {}
<1>1. cur[c] \in Acts /\ trap[cur[c]] \in {0, 1}
  BY CallFacts
<1>2. QED
  BY <1>1 DEF Inv, TrapInv, frame, Low, High

\* holding() is exact, for any number of CPUs, threads and locks, whatever is
\* interrupted, preempted and moved to another CPU.
THEOREM HoldingExact == Spec => []HoldingIsExact
<1>1. Inv => HoldingIsExact
  <2> SUFFICES ASSUME Inv PROVE HoldingIsExact
    OBVIOUS
  <2>1. LockInv /\ OwnInv /\ TypeOK
    BY DEF Inv
  <2>2. ASSUME NEW l \in Locks, NEW c \in CPUs
        PROVE  holding(c, l) <=> \E k \in {0, 1} : Inside(<<cur[c], k>>, l)
    <3>1. frame(c) \in Frames /\ trap[cur[c]] \in {0, 1}
      BY CallFacts
    <3>2. (\E k \in {0, 1} : Inside(<<cur[c], k>>, l)) <=> Inside(frame(c), l)
      BY <3>1, NotBelow DEF Inside, frame
    <3>3. Inside(frame(c), l) => locked[l]
      BY <2>1, <3>1 DEF Inside, LockInv
    <3>4. QED
      BY <2>1, <3>2, <3>3 DEF OwnInv, holding
  <2>3. \A l \in Locks : \A f, g \in Frames : l \in held[f] \cap held[g] => f = g
    BY <2>1 DEF LockInv
  <2>4. QED
    BY <2>2, <2>3 DEF HoldingIsExact
<1>2. QED
  BY <1>1, InvHolds, PTL

\* Interrupts are off inside critical sections, and afterwards as the thread had
\* set them, for any nesting of locks.
THEOREM InterruptsRestored == Spec => []IntrRestored
<1>1. Inv => IntrRestored
  <2> SUFFICES ASSUME Inv, NEW c \in CPUs
               PROVE  /\ (\E k \in {0, 1} : held[<<cur[c], k>>] # {}) => ~intr[c]
                      /\ cur[c] \in Threads /\ pc[frame(c)] = "run" /\ held[frame(c)] = {}
                         => noff[c] = 0 /\ intr[c] = want[frame(c)]
    BY DEF IntrRestored
  <2>1. NoffOK(c) /\ IntrOK(c)
    BY DEF Inv
  <2>2. ASSUME held[frame(c)] # {} PROVE ~intr[c]
    <3>1. noff[c] > 0
      BY <2>1, <2>2, TopFacts, SMT DEF NoffOK
    <3>2. QED
      BY <2>1, <3>1 DEF IntrOK
  <2>3. (\E k \in {0, 1} : held[<<cur[c], k>>] # {}) => ~intr[c]
    BY <2>2, NotBelow
  <2>4. ASSUME cur[c] \in Threads, pc[frame(c)] = "run", held[frame(c)] = {}
        PROVE  noff[c] = 0 /\ intr[c] = want[frame(c)]
    <3>1. noff[c] = 0
      <4>1. Cardinality(held[frame(c)]) = 0
        BY <2>4, FS_EmptySet
      <4>2. QED
        BY <2>1, <2>4, <4>1, SMT DEF NoffOK
    <3>2. Label(frame(c)) = "run"
      BY <2>4 DEF Label, Inner
    <3>3. QED
      BY <2>1, <2>4, <3>1, <3>2 DEF IntrOK
  <2>5. QED
    BY <2>3, <2>4
<1>2. QED
  BY <1>1, InvHolds, PTL
=============================================================================
