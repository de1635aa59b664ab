----------------------------- MODULE PipeProofs -----------------------------
(***************************************************************************)
(* Proofs about pipes, for any number of processes, any size of the ring,  *)
(* any width of its counters that is a multiple of it, and any history of  *)
(* reads, writes, closes and kills.                                        *)
(***************************************************************************)
EXTENDS Pipe, Integers, SequenceTheorems, TLAPS

-----------------------------------------------------------------------------
(* The inductive invariant.                                                *)

Labels == {"idle", "wclose", "rclose", "free"} \cup Writing \cup Reading

\* The counters are uints, and the ring holds no more than it can.
Used == (nwrite + UINT - nread) % UINT

RingInv ==
  /\ nread \in 0..UINT-1 /\ nwrite \in 0..UINT-1
  /\ Used <= PIPESIZE
  /\ data \in [0..PIPESIZE-1 -> Bytes]

ProcTypes ==
  /\ pc \in [Procs -> Labels] /\ ends \in [Procs -> SUBSET {"r", "w"}]
  /\ killed \in [Procs -> BOOLEAN]
  /\ n \in [Procs -> Nat] /\ i \in [Procs -> Nat]

\* pi->lock.
LockInv ==
  /\ lock \in Procs \cup {NoProc}
  /\ \A p \in Procs : pc[p] \in Locked <=> lock = p

\* An end is open while somebody has a file for it, or is about to close it;
\* and whoever reads or writes has a file for that end.
EndInv ==
  /\ readopen \in BOOLEAN /\ writeopen \in BOOLEAN
  /\ \A p \in Procs : (pc[p] \in Reading => "r" \in ends[p]) /\ (pc[p] \in Writing => "w" \in ends[p])
  /\ \A p \in Procs : "r" \in ends[p] \/ pc[p] = "rclose" => readopen
  /\ \A p \in Procs : "w" \in ends[p] \/ pc[p] = "wclose" => writeopen
  /\ \A p, x \in Procs : pc[p] = "rclose" => "r" \notin ends[x] /\ (pc[x] = "rclose" => x = p)
  /\ \A p, x \in Procs : pc[p] = "wclose" => "w" \notin ends[x] /\ (pc[x] = "wclose" => x = p)

\* The last close, and nobody else, frees the page.
FreeInv ==
  /\ frees \in {0, 1}
  /\ frees = 1 => ~readopen /\ ~writeopen
  /\ \A p \in Procs : pc[p] = "free" => ~readopen /\ ~writeopen /\ frees = 0
  /\ \A p, x \in Procs : pc[p] = "free" /\ pc[x] = "free" => p = x

\* What a process has seen under the lock stays so until it sleeps or reads; a
\* sleeper waits for a change, or for a process that has made one and will
\* call wakeup() before it lets the lock go.
SleepInv ==
  /\ \A p \in Procs : pc[p] = "rempty" => Empty /\ writeopen
  /\ \A p \in Procs : pc[p] = "wfull" => Full /\ readopen
  /\ \A p \in Procs : pc[p] = "rsleep" =>
       writeopen /\ (Empty \/ (\E x \in Procs : killed[x]) \/ \E x \in Procs : pc[x] = "write")
  /\ \A p \in Procs : pc[p] = "wsleep" => readopen /\ (Full \/ \E x \in Procs : pc[x] = "read")

\* A reader that has not read yet got past the wait for a reason.
ReadInv == \A p \in Procs : pc[p] = "read" /\ i[p] = 0 => ~Empty \/ ~writeopen

Inv == RingInv /\ ProcTypes /\ LockInv /\ EndInv /\ FreeInv /\ SleepInv /\ ReadInv

-----------------------------------------------------------------------------
(* Arithmetic of the counters.                                             *)

\* Zenon proves what a step does not give to another prover.
USE Zenon

\* Division with remainder.
LEMMA DivMod ==
  ASSUME NEW a \in Nat, NEW b \in Nat \ {0}
  PROVE  \E q \in Nat, r \in 0..b-1 : a = b * q + r
<1>1. PICK q \in Int, r \in Int : q = a \div b /\ r = a % b
  BY SMT
<1>2. r \in 0..b-1
  BY <1>1, SMT
<1>3. a = b * q + r
  BY <1>1, SMT
<1>4. ASSUME q < 0 PROVE FALSE
  <2>1. b * q <= b * (-1)
    BY <1>4, SMT
  <2>2. QED
    BY <1>2, <1>3, <2>1, SMT
<1>5. QED
  BY <1>2, <1>3, <1>4, SMT

\* The remainder is the only one.
LEMMA ModUnique ==
  ASSUME NEW b \in Nat \ {0}, NEW q \in Nat, NEW r \in 0..b-1
  PROVE  (b * q + r) % b = r
BY SMT

\* Multiples of the modulus do not matter.
LEMMA ModAdd ==
  ASSUME NEW b \in Nat \ {0}, NEW a \in Nat, NEW m \in Nat
  PROVE  (a + m * b) % b = a % b
<1>1. PICK q \in Nat, r \in 0..b-1 : a = b * q + r
  BY DivMod
<1>2. a + m * b = b * (q + m) + r /\ q + m \in Nat
  BY <1>1, SMT
<1>3. QED
  BY <1>1, <1>2, ModUnique

\* Numbers closer than the modulus have different remainders.
LEMMA ModDistinct ==
  ASSUME NEW b \in Nat \ {0}, NEW x \in Nat, NEW d \in 1..b-1
  PROVE  (x + d) % b # x % b
<1>1. PICK q \in Nat, r \in 0..b-1 : x = b * q + r
  BY DivMod
<1>2. \/ r + d \in 0..b-1 /\ x + d = b * q + (r + d)
      \/ r + d - b \in 0..b-1 /\ q + 1 \in Nat /\ x + d = b * (q + 1) + (r + d - b)
  BY <1>1, SMT
<1>3. x % b = r /\ (x + d) % b \in {r + d, r + d - b}
  BY <1>1, <1>2, ModUnique
<1>4. QED
  BY <1>3, SMT

\* The counters wrap at a multiple of the ring's size, at least twice it.
LEMMA UintFacts ==
  /\ UINT \in Nat /\ PIPESIZE \in Nat \ {0} /\ PIPESIZE < UINT
  /\ \E m \in Nat : UINT = m * PIPESIZE
<1>1. PICK m \in 2..UINT : UINT = m * PIPESIZE
  BY PipeAssumption
<1>2. UINT \in Nat /\ PIPESIZE \in Nat \ {0} /\ m \in Nat /\ m >= 2
  BY PipeAssumption, SMT
<1>3. (m - 1) * PIPESIZE >= PIPESIZE
  BY <1>2, SMT
<1>4. m * PIPESIZE = (m - 1) * PIPESIZE + PIPESIZE
  BY <1>2, SMT
<1>5. QED
  BY <1>1, <1>2, <1>3, <1>4, SMT

\* nwrite - nread, nread + PIPESIZE and an increment, as uints.
LEMMA Wraps ==
  ASSUME NEW r \in 0..UINT-1, NEW w \in 0..UINT-1
  PROVE  /\ (w + UINT - r) % UINT = IF w >= r THEN w - r ELSE w + UINT - r
         /\ (r + PIPESIZE) % UINT = IF r + PIPESIZE < UINT THEN r + PIPESIZE ELSE r + PIPESIZE - UINT
         /\ (r + 1) % UINT = IF r + 1 < UINT THEN r + 1 ELSE 0
<1>0. UINT \in Nat \ {0} /\ PIPESIZE \in Nat \ {0} /\ PIPESIZE < UINT
  BY UintFacts, SMT
<1>1. \A x \in 0..UINT-1 : x % UINT = x /\ (x + UINT) % UINT = x
  <2>1. TAKE x \in 0..UINT-1
  <2>2. (UINT * 0 + x) % UINT = x /\ (UINT * 1 + x) % UINT = x
    BY <1>0, ModUnique
  <2>3. UINT * 0 + x = x /\ UINT * 1 + x = x + UINT
    BY <1>0, SMT
  <2>4. QED
    BY <2>2, <2>3
<1>2. (w + UINT - r) % UINT = IF w >= r THEN w - r ELSE w + UINT - r
  <2>1. CASE w >= r
    <3>1. w - r \in 0..UINT-1 /\ w + UINT - r = (w - r) + UINT
      BY <1>0, <2>1, SMT
    <3>2. QED
      BY <1>1, <2>1, <3>1
  <2>2. CASE ~(w >= r)
    <3>1. w + UINT - r \in 0..UINT-1
      BY <1>0, <2>2, SMT
    <3>2. QED
      BY <1>1, <2>2, <3>1
  <2>3. QED
    BY <2>1, <2>2
<1>3. \A k \in 1..UINT-1 : (r + k) % UINT = IF r + k < UINT THEN r + k ELSE r + k - UINT
  <2>1. TAKE k \in 1..UINT-1
  <2>2. CASE r + k < UINT
    <3>1. r + k \in 0..UINT-1
      BY <1>0, <2>2, SMT
    <3>2. QED
      BY <1>1, <2>2, <3>1
  <2>3. CASE ~(r + k < UINT)
    <3>1. r + k - UINT \in 0..UINT-1 /\ r + k = (r + k - UINT) + UINT
      BY <1>0, <2>3, SMT
    <3>2. QED
      BY <1>1, <2>3, <3>1
  <2>4. QED
    BY <2>2, <2>3
<1>4. QED
  BY <1>0, <1>2, <1>3, SMT

\* How full the ring is, before and after a byte goes in or out.
LEMMA UsedFacts ==
  ASSUME RingInv
  PROVE  /\ Used \in 0..PIPESIZE
         /\ Empty <=> Used = 0
         /\ Full <=> Used = PIPESIZE
         /\ ~Full => /\ (nwrite + 1) % UINT \in 0..UINT-1
                     /\ (((nwrite + 1) % UINT) + UINT - nread) % UINT = Used + 1
         /\ ~Empty => /\ (nread + 1) % UINT \in 0..UINT-1
                      /\ (nwrite + UINT - ((nread + 1) % UINT)) % UINT = Used - 1
<1>0. UINT \in Nat /\ PIPESIZE \in Nat \ {0} /\ PIPESIZE < UINT
  BY UintFacts
<1>1. nread \in 0..UINT-1 /\ nwrite \in 0..UINT-1 /\ Used <= PIPESIZE
  BY DEF RingInv
<1>2. Used = IF nwrite >= nread THEN nwrite - nread ELSE nwrite + UINT - nread
  BY <1>1, Wraps DEF Used
<1>3. (nread + PIPESIZE) % UINT = IF nread + PIPESIZE < UINT THEN nread + PIPESIZE
                                  ELSE nread + PIPESIZE - UINT
  BY <1>1, Wraps
<1>4. /\ Used \in 0..PIPESIZE /\ (Empty <=> Used = 0) /\ (Full <=> Used = PIPESIZE)
  BY <1>0, <1>1, <1>2, <1>3, SMT DEF Empty, Full
<1>5. ASSUME ~Full
      PROVE  /\ (nwrite + 1) % UINT \in 0..UINT-1
             /\ (((nwrite + 1) % UINT) + UINT - nread) % UINT = Used + 1
  <2>1. Used < PIPESIZE
    BY <1>0, <1>4, <1>5, SMT
  <2>2. (nwrite + 1) % UINT = IF nwrite + 1 < UINT THEN nwrite + 1 ELSE 0
    BY <1>1, Wraps
  <2>3. (nwrite + 1) % UINT \in 0..UINT-1
    BY <1>0, <1>1, <2>2, SMT
  <2> DEFINE w == (nwrite + 1) % UINT
  <2>4. (w + UINT - nread) % UINT = IF w >= nread THEN w - nread ELSE w + UINT - nread
    BY <1>1, <2>3, Wraps
  <2>5. w = IF nwrite + 1 < UINT THEN nwrite + 1 ELSE 0
    BY <2>2
  <2> HIDE DEF w
  <2>6. (w + UINT - nread) % UINT = Used + 1
    BY <1>0, <1>1, <1>2, <2>1, <2>4, <2>5, SMT
  <2>7. QED
    BY <2>3, <2>6 DEF w
<1>6. ASSUME ~Empty
      PROVE  /\ (nread + 1) % UINT \in 0..UINT-1
             /\ (nwrite + UINT - ((nread + 1) % UINT)) % UINT = Used - 1
  <2>1. Used > 0
    BY <1>0, <1>4, <1>6, SMT
  <2>2. (nread + 1) % UINT = IF nread + 1 < UINT THEN nread + 1 ELSE 0
    BY <1>1, Wraps
  <2>3. (nread + 1) % UINT \in 0..UINT-1
    BY <1>0, <1>1, <2>2, SMT
  <2> DEFINE r == (nread + 1) % UINT
  <2>4. (nwrite + UINT - r) % UINT = IF nwrite >= r THEN nwrite - r ELSE nwrite + UINT - r
    BY <1>1, <2>3, Wraps
  <2>5. r = IF nread + 1 < UINT THEN nread + 1 ELSE 0
    BY <2>2
  <2> HIDE DEF r
  <2>6. (nwrite + UINT - r) % UINT = Used - 1
    BY <1>0, <1>1, <1>2, <2>1, <2>4, <2>5, SMT
  <2>7. QED
    BY <2>3, <2>6 DEF r
<1>7. QED
  BY <1>4, <1>5, <1>6

-----------------------------------------------------------------------------
(* One step of a process, by what it may touch.                            *)

Step(p) ==
  \/ pipewrite(p) \/ piperead(p) \/ Acquire(p) \/ Sleep(p)
  \/ WriteGivesUp(p) \/ WriteFull(p) \/ (\E c \in Bytes : WriteByte(p, c)) \/ WriteEnd(p)
  \/ ReadWait(p) \/ ReadStart(p) \/ ReadByte(p) \/ ReadEnd(p)
  \/ (\E e \in {"r", "w"} : fileclose(p, e)) \/ pipeclose(p) \/ Free(p)
  \/ kill(p)

\* Only two steps move bytes.
LEMMA RingStep ==
  ASSUME Inv, NEW p \in Procs, Step(p)
  PROVE  RingInv'
<1>0. RingInv /\ PIPESIZE \in Nat \ {0} /\ UINT \in Nat
  BY UintFacts DEF Inv
<1>1. ASSUME NEW c \in Bytes, WriteByte(p, c)
      PROVE  RingInv'
  <2>1. nread' = nread /\ nwrite' = (nwrite + 1) % UINT /\ ~Full
    BY <1>1 DEF WriteByte
  <2>2. nwrite' \in 0..UINT-1 /\ Used' = Used + 1 /\ Used \in 0..PIPESIZE /\ Used # PIPESIZE
    BY <1>0, <2>1, UsedFacts DEF Used
  <2>3. Used' <= PIPESIZE
    BY <1>0, <2>2, SMT
  <2>4. data' \in [0..PIPESIZE-1 -> Bytes]
    BY <1>0, <1>1 DEF WriteByte, RingInv
  <2>5. QED
    BY <1>0, <2>1, <2>2, <2>3, <2>4 DEF RingInv
<1>2. CASE ReadByte(p)
  <2>1. nwrite' = nwrite /\ nread' = (nread + 1) % UINT /\ ~Empty /\ data' = data
    BY <1>2 DEF ReadByte
  <2>2. nread' \in 0..UINT-1 /\ Used' = Used - 1 /\ Used \in 0..PIPESIZE
    BY <1>0, <2>1, UsedFacts DEF Used
  <2>3. Used' <= PIPESIZE
    BY <1>0, <2>2, SMT
  <2>4. QED
    BY <1>0, <2>1, <2>2, <2>3 DEF RingInv
<1>3. CASE UNCHANGED <<data, nread, nwrite>>
  BY <1>0, <1>3 DEF RingInv, Used
<1>4. QED
  BY <1>1, <1>2, <1>3 DEF Step, pipe, pipewrite, piperead, Call, Acquire, Sleep, WriteGivesUp,
     WriteFull, WriteEnd, ReadWait, ReadStart, ReadEnd, fileclose, pipeclose, Free, kill

\* The locals keep their types.
LEMMA ProcTypesStep ==
  ASSUME Inv, NEW p \in Procs, Step(p)
  PROVE  ProcTypes'
<1>0. ProcTypes /\ MaxN \in Nat
  BY PipeAssumption DEF Inv
<1> USE DEF ProcTypes, Labels, Writing, Reading
<1>1. CASE pipewrite(p) \/ piperead(p)
  <2>1. PICK k \in 0..MaxN : n' = [n EXCEPT ![p] = k]
    BY <1>1 DEF pipewrite, piperead, Call
  <2>2. k \in Nat
    BY <1>0, SMT
  <2>3. n' \in [Procs -> Nat]
    BY <1>0, <2>1, <2>2
  <2>4. QED
    BY <1>0, <1>1, <2>3 DEF pipewrite, piperead, Call, Goto
<1>2. CASE Acquire(p) \/ Sleep(p) \/ ReadStart(p) \/ Free(p)
  BY <1>0, <1>2 DEF Acquire, Sleep, ReadStart, Free, Goto
<1>3. CASE WriteGivesUp(p) \/ ReadWait(p)
  BY <1>0, <1>3, SMT DEF WriteGivesUp, ReadWait, Goto, Reset
<1>4. CASE WriteFull(p) \/ pipeclose(p)
  BY <1>0, <1>4 DEF WriteFull, pipeclose, wakeup_nread, wakeup_nwrite, GotoAndWake
<1>5. CASE WriteEnd(p) \/ ReadEnd(p)
  BY <1>0, <1>5, SMT DEF WriteEnd, ReadEnd, wakeup_nread, wakeup_nwrite, GotoAndWake, Reset
<1>6. CASE \E c \in Bytes : WriteByte(p, c)
  BY <1>0, <1>6, SMT DEF WriteByte
<1>7. CASE ReadByte(p)
  BY <1>0, <1>7, SMT DEF ReadByte, wakeup_nwrite, GotoAndWake, Reset
<1>8. CASE \E e \in {"r", "w"} : fileclose(p, e)
  BY <1>0, <1>8, SMT DEF fileclose, Goto
<1>9. CASE kill(p)
  BY <1>0, <1>9 DEF kill, Goto
<1>10. QED
  BY <1>1, <1>2, <1>3, <1>4, <1>5, <1>6, <1>7, <1>8, <1>9 DEF Step

\* The lock changes hands as the labels say.
LEMMA LockStep ==
  ASSUME Inv, NEW p \in Procs, Step(p)
  PROVE  LockInv'
<1>0. LockInv /\ ProcTypes /\ NoProc \notin Procs
  BY PipeAssumption DEF Inv
<1> USE DEF LockInv, ProcTypes, Locked
<1>1. CASE pipewrite(p) \/ piperead(p)
  BY <1>0, <1>1 DEF pipewrite, piperead, Call, Goto
<1>2. CASE Acquire(p)
  BY <1>0, <1>2 DEF Acquire, Goto
<1>3. CASE Sleep(p)
  BY <1>0, <1>3 DEF Sleep, Goto
<1>4. CASE WriteGivesUp(p) \/ ReadWait(p)
  BY <1>0, <1>4 DEF WriteGivesUp, ReadWait, Goto
<1>5. CASE WriteFull(p) \/ WriteEnd(p)
  BY <1>0, <1>5 DEF WriteFull, WriteEnd, wakeup_nread, GotoAndWake
<1>6. CASE \E c \in Bytes : WriteByte(p, c)
  BY <1>0, <1>6 DEF WriteByte
<1>7. CASE ReadByte(p) \/ ReadEnd(p)
  BY <1>0, <1>7 DEF ReadByte, ReadEnd, wakeup_nwrite, GotoAndWake
<1>8. CASE ReadStart(p) \/ Free(p)
  BY <1>0, <1>8 DEF ReadStart, Free, Goto
<1>9. CASE \E e \in {"r", "w"} : fileclose(p, e)
  BY <1>0, <1>9 DEF fileclose, Goto
<1>10. CASE pipeclose(p)
  BY <1>0, <1>10 DEF pipeclose, wakeup_nread, wakeup_nwrite, GotoAndWake
<1>11. CASE kill(p)
  BY <1>0, <1>11 DEF kill, Goto
<1>12. QED
  BY <1>1, <1>2, <1>3, <1>4, <1>5, <1>6, <1>7, <1>8, <1>9, <1>10, <1>11 DEF Step

\* Steps inside pipewrite() and piperead(), and kill(), leave the ends alone; a
\* process stays on its side of the pipe until it is idle.
LEMMA SideStep ==
  ASSUME Inv, NEW p \in Procs, Step(p),
         ~(pipeclose(p) \/ Free(p)), \A e \in {"r", "w"} : ~fileclose(p, e)
  PROVE  /\ UNCHANGED <<readopen, writeopen, ends, frees>>
         /\ \A x \in Procs : /\ pc'[x] \in Reading => "r" \in ends[x]
                             /\ pc'[x] \in Writing => "w" \in ends[x]
                             /\ pc'[x] = "rclose" <=> pc[x] = "rclose"
                             /\ pc'[x] = "wclose" <=> pc[x] = "wclose"
                             /\ pc'[x] = "free" <=> pc[x] = "free"
<1>0. ProcTypes /\ \A x \in Procs : /\ pc[x] \in Reading => "r" \in ends[x]
                                    /\ pc[x] \in Writing => "w" \in ends[x]
  BY DEF Inv, EndInv
<1> USE DEF ProcTypes, Reading, Writing
<1>1. CASE pipewrite(p) \/ piperead(p)
  BY <1>0, <1>1 DEF pipewrite, piperead, Call, Goto, pipe
<1>2. CASE Acquire(p) \/ Sleep(p)
  BY <1>0, <1>2 DEF Acquire, Sleep, Goto, pipe
<1>3. CASE WriteGivesUp(p) \/ ReadWait(p) \/ ReadStart(p)
  BY <1>0, <1>3 DEF WriteGivesUp, ReadWait, ReadStart, Goto, pipe
<1>4. CASE WriteFull(p) \/ WriteEnd(p)
  BY <1>0, <1>4 DEF WriteFull, WriteEnd, wakeup_nread, GotoAndWake, pipe
<1>5. CASE \E c \in Bytes : WriteByte(p, c)
  BY <1>0, <1>5 DEF WriteByte
<1>6. CASE ReadByte(p) \/ ReadEnd(p)
  BY <1>0, <1>6 DEF ReadByte, ReadEnd, wakeup_nwrite, GotoAndWake, pipe
<1>7. CASE kill(p)
  BY <1>0, <1>7 DEF kill, Goto, pipe
<1>8. QED
  BY <1>1, <1>2, <1>3, <1>4, <1>5, <1>6, <1>7 DEF Step

\* The last file of an end is closed by one process, which then closes the end.
LEMMA EndStep ==
  ASSUME Inv, NEW p \in Procs, Step(p)
  PROVE  EndInv'
<1>0. EndInv /\ ProcTypes
  BY DEF Inv
<1>1. CASE ~(pipeclose(p) \/ Free(p)) /\ \A e \in {"r", "w"} : ~fileclose(p, e)
  BY <1>0, <1>1, SideStep DEF EndInv
<1>2. ASSUME NEW e \in {"r", "w"}, fileclose(p, e)
      PROVE  EndInv'
  <2>1. /\ pc[p] = "idle" /\ e \in ends[p] /\ UNCHANGED <<readopen, writeopen>>
        /\ ends'[p] = ends[p] \ {e} /\ \A x \in Procs \ {p} : ends'[x] = ends[x] /\ pc'[x] = pc[x]
        /\ pc'[p] \in {"idle", "rclose", "wclose"}
        /\ pc'[p] = "rclose" => e = "r" /\ \A x \in Procs \ {p} : "r" \notin ends[x]
        /\ pc'[p] = "wclose" => e = "w" /\ \A x \in Procs \ {p} : "w" \notin ends[x]
    BY <1>0, <1>2 DEF fileclose, Goto, pipe, ProcTypes
  <2>2. \A x \in Procs : "r" \in ends'[x] => "r" \in ends[x]
    BY <2>1
  <2>3. \A x \in Procs : "w" \in ends'[x] => "w" \in ends[x]
    BY <2>1
  <2>4. \A x \in Procs : (pc'[x] \in Reading => "r" \in ends'[x]) /\ (pc'[x] \in Writing => "w" \in ends'[x])
    BY <1>0, <2>1 DEF EndInv, Reading, Writing
  <2>5. /\ \A x \in Procs : "r" \in ends'[x] \/ pc'[x] = "rclose" => readopen
        /\ \A x \in Procs : "w" \in ends'[x] \/ pc'[x] = "wclose" => writeopen
    BY <1>0, <2>1, <2>2, <2>3, SMT DEF EndInv
  <2>6. \A y, x \in Procs : pc'[y] = "rclose" => "r" \notin ends'[x] /\ (pc'[x] = "rclose" => x = y)
    BY <1>0, <2>1, <2>2, SMT DEF EndInv
  <2>7. \A y, x \in Procs : pc'[y] = "wclose" => "w" \notin ends'[x] /\ (pc'[x] = "wclose" => x = y)
    BY <1>0, <2>1, <2>3, SMT DEF EndInv
  <2>8. QED
    BY <1>0, <2>1, <2>4, <2>5, <2>6, <2>7 DEF EndInv
<1>3. CASE pipeclose(p)
  <2>1. CASE pc[p] = "wclose"
    <3>1. /\ UNCHANGED <<readopen, ends>> /\ writeopen' = FALSE /\ pc'[p] \in {"idle", "free"}
          /\ \A x \in Procs \ {p} : pc'[x] = pc[x] \/ (pc[x] = "rsleep" /\ pc'[x] = "rlock")
      BY <1>0, <1>3, <2>1 DEF pipeclose, wakeup_nread, GotoAndWake, ProcTypes
    <3>2. \A x \in Procs : /\ pc'[x] \in Reading => pc[x] \in Reading
                           /\ pc'[x] \in Writing => pc[x] \in Writing
                           /\ pc'[x] = "rclose" => pc[x] = "rclose"
                           /\ pc'[x] = "wclose" => pc[x] = "wclose" /\ x # p
      BY <2>1, <3>1 DEF Reading, Writing
    <3>3. \A x \in Procs : "w" \notin ends[x] /\ (pc[x] = "wclose" => x = p)
      BY <1>0, <2>1 DEF EndInv
    <3>4. QED
      BY <1>0, <3>1, <3>2, <3>3 DEF EndInv
  <2>2. CASE pc[p] = "rclose"
    <3>1. /\ UNCHANGED <<writeopen, ends>> /\ readopen' = FALSE /\ pc'[p] \in {"idle", "free"}
          /\ \A x \in Procs \ {p} : pc'[x] = pc[x] \/ (pc[x] = "wsleep" /\ pc'[x] = "wlock")
      BY <1>0, <1>3, <2>2 DEF pipeclose, wakeup_nwrite, GotoAndWake, ProcTypes
    <3>2. \A x \in Procs : /\ pc'[x] \in Reading => pc[x] \in Reading
                           /\ pc'[x] \in Writing => pc[x] \in Writing
                           /\ pc'[x] = "wclose" => pc[x] = "wclose"
                           /\ pc'[x] = "rclose" => pc[x] = "rclose" /\ x # p
      BY <2>2, <3>1 DEF Reading, Writing
    <3>3. \A x \in Procs : "r" \notin ends[x] /\ (pc[x] = "rclose" => x = p)
      BY <1>0, <2>2 DEF EndInv
    <3>4. QED
      BY <1>0, <3>1, <3>2, <3>3 DEF EndInv
  <2>3. QED
    BY <1>3, <2>1, <2>2 DEF pipeclose
<1>4. CASE Free(p)
  BY <1>0, <1>4 DEF Free, Goto, EndInv, ProcTypes, pipe, Reading, Writing
<1>5. QED
  BY <1>1, <1>2, <1>3, <1>4

\* The process that closes the second end frees the page; there is no other.
LEMMA FreeStep ==
  ASSUME Inv, NEW p \in Procs, Step(p)
  PROVE  FreeInv'
<1>0. FreeInv /\ EndInv /\ ProcTypes
  BY DEF Inv
<1>1. CASE ~(pipeclose(p) \/ Free(p)) /\ \A e \in {"r", "w"} : ~fileclose(p, e)
  BY <1>0, <1>1, SideStep DEF FreeInv
<1>2. CASE \E e \in {"r", "w"} : fileclose(p, e)
  BY <1>0, <1>2, SMT DEF fileclose, Goto, pipe, ProcTypes, FreeInv
<1>3. CASE pipeclose(p)
  <2>1. CASE pc[p] = "wclose"
    <3>1. writeopen
      BY <1>0, <2>1 DEF EndInv
    <3>2. /\ UNCHANGED <<readopen, frees>> /\ writeopen' = FALSE
          /\ pc'[p] = (IF readopen THEN "idle" ELSE "free")
          /\ \A x \in Procs \ {p} : pc'[x] = "free" <=> pc[x] = "free"
      BY <1>0, <1>3, <2>1 DEF pipeclose, wakeup_nread, GotoAndWake, ProcTypes
    <3>3. QED
      BY <1>0, <3>1, <3>2 DEF FreeInv
  <2>2. CASE pc[p] = "rclose"
    <3>1. readopen
      BY <1>0, <2>2 DEF EndInv
    <3>2. /\ UNCHANGED <<writeopen, frees>> /\ readopen' = FALSE
          /\ pc'[p] = (IF writeopen THEN "idle" ELSE "free")
          /\ \A x \in Procs \ {p} : pc'[x] = "free" <=> pc[x] = "free"
      BY <1>0, <1>3, <2>2 DEF pipeclose, wakeup_nwrite, GotoAndWake, ProcTypes
    <3>3. QED
      BY <1>0, <3>1, <3>2 DEF FreeInv
  <2>3. QED
    BY <1>3, <2>1, <2>2 DEF pipeclose
<1>4. CASE Free(p)
  <2>1. /\ frees = 0 /\ ~readopen /\ ~writeopen /\ UNCHANGED <<readopen, writeopen>>
        /\ frees' = 1 /\ pc'[p] = "idle" /\ \A x \in Procs \ {p} : pc'[x] = pc[x]
    BY <1>0, <1>4, SMT DEF Free, Goto, pipe, FreeInv, ProcTypes
  <2>2. \A x \in Procs : pc'[x] # "free"
    BY <1>0, <1>4, <2>1 DEF Free, FreeInv
  <2>3. QED
    BY <2>1, <2>2 DEF FreeInv
<1>5. QED
  BY <1>1, <1>2, <1>3, <1>4

\* Steps that need pi->lock to be free find nobody at a label of its holder.
LEMMA LockFree ==
  ASSUME Inv, lock = NoProc, NEW x \in Procs
  PROVE  pc[x] \notin Locked
  BY PipeAssumption DEF Inv, LockInv

\* Only one process is at a label of the lock's holder.
LEMMA OneInside ==
  ASSUME Inv, NEW p \in Procs, NEW x \in Procs, pc[p] \in Locked, pc[x] \in Locked
  PROVE  x = p
  BY DEF Inv, LockInv

\* Readers on their way to sleep: the pipe stays empty, or a wakeup is due.
LEMMA ReadersSleep ==
  ASSUME Inv, NEW p \in Procs, Step(p), NEW x \in Procs
  PROVE  /\ pc'[x] = "rempty" => Empty' /\ writeopen'
         /\ pc'[x] = "rsleep" => /\ writeopen'
                                 /\ \/ Empty' \/ (\E y \in Procs : killed'[y])
                                    \/ \E y \in Procs : pc'[y] = "write"
<1>0. ProcTypes
  BY DEF Inv
<1>s. /\ pc[x] = "rempty" => Empty /\ writeopen
      /\ pc[x] = "rsleep" => writeopen /\ (Empty \/ (\E y \in Procs : killed[y]) \/ \E y \in Procs : pc[y] = "write")
  BY DEF Inv, SleepInv
<1>o. pc[p] \in Locked => pc[x] # "rempty" \/ x = p
  BY OneInside DEF Locked
<1> USE DEF ProcTypes
<1>1. CASE pipewrite(p) \/ piperead(p)
  BY <1>0, <1>s, <1>1 DEF pipewrite, piperead, Call, Goto, pipe, Empty
<1>2. CASE Acquire(p)
  BY <1>0, <1>s, <1>2 DEF Acquire, Goto, pipe, Empty
<1>3. CASE Sleep(p)
  BY <1>0, <1>s, <1>3 DEF Sleep, Goto, pipe, Empty
<1>4. CASE WriteGivesUp(p)
  <2>1. pc[x] = "rsleep" => readopen
    BY DEF Inv, EndInv, Reading
  <2>2. pc[x] = "rsleep" => killed[p]
    BY <1>4, <2>1 DEF WriteGivesUp
  <2>3. QED
    BY <1>0, <1>s, <1>4, <2>2 DEF WriteGivesUp, Goto, pipe, Empty
<1>5. CASE WriteFull(p) \/ WriteEnd(p)
  BY <1>0, <1>s, <1>5 DEF WriteFull, WriteEnd, wakeup_nread, GotoAndWake, pipe, Empty
<1>6. CASE \E c \in Bytes : WriteByte(p, c)
  <2>1. pc[p] = "write" /\ UNCHANGED <<pc, writeopen>>
    BY <1>6 DEF WriteByte
  <2>2. pc[x] # "rempty"
    BY <1>o, <2>1 DEF Locked
  <2>3. QED
    BY <1>s, <2>1, <2>2
<1>7. CASE ReadWait(p) \/ ReadStart(p)
  BY <1>0, <1>s, <1>7 DEF ReadWait, ReadStart, Goto, pipe, Empty
<1>8. CASE ReadByte(p) \/ ReadEnd(p)
  <2>1. pc[p] = "read" /\ UNCHANGED <<writeopen, killed>>
    BY <1>8 DEF ReadByte, ReadEnd, pipe
  <2>2. /\ pc'[x] = "rempty" => pc[x] = "rempty"
        /\ pc'[x] = "rsleep" => pc[x] = "rsleep"
    BY <1>0, <1>8 DEF ReadByte, ReadEnd, wakeup_nwrite, GotoAndWake
  <2>3. pc[x] # "rempty" /\ \A y \in Procs : pc[y] # "write"
    BY <1>o, <2>1, OneInside DEF Locked
  <2>4. Empty => Empty'
    BY <1>8 DEF ReadByte, ReadEnd, pipe, Empty
  <2>5. QED
    BY <1>s, <2>1, <2>2, <2>3, <2>4
<1>9. CASE (\E e \in {"r", "w"} : fileclose(p, e)) \/ Free(p)
  BY <1>0, <1>s, <1>9 DEF fileclose, Free, Goto, pipe, Empty
<1>10. CASE pipeclose(p)
  <2>1. pc[x] # "rempty" /\ \A y \in Procs : pc[y] # "write"
    BY <1>10, LockFree DEF pipeclose, Locked
  <2>2. QED
    BY <1>0, <1>s, <1>10, <2>1 DEF pipeclose, wakeup_nread, wakeup_nwrite, GotoAndWake, Empty
<1>11. CASE kill(p)
  <2>1. killed'[p] = TRUE /\ UNCHANGED <<nread, nwrite, writeopen>>
    BY <1>0, <1>11 DEF kill, pipe
  <2>2. /\ pc'[x] = "rempty" => pc[x] = "rempty"
        /\ pc'[x] = "rsleep" => pc[x] = "rsleep"
    BY <1>0, <1>11 DEF kill, Goto
  <2>3. QED
    BY <1>s, <2>1, <2>2 DEF Empty
<1>12. QED
  BY <1>1, <1>2, <1>3, <1>4, <1>5, <1>6, <1>7, <1>8, <1>9, <1>10, <1>11 DEF Step

\* Writers on their way to sleep: the pipe stays full, or a wakeup is due.
LEMMA WritersSleep ==
  ASSUME Inv, NEW p \in Procs, Step(p), NEW x \in Procs
  PROVE  /\ pc'[x] = "wfull" => Full' /\ readopen'
         /\ pc'[x] = "wsleep" => readopen' /\ (Full' \/ \E y \in Procs : pc'[y] = "read")
<1>0. ProcTypes
  BY DEF Inv
<1>s. /\ pc[x] = "wfull" => Full /\ readopen
      /\ pc[x] = "wsleep" => readopen /\ (Full \/ \E y \in Procs : pc[y] = "read")
  BY DEF Inv, SleepInv
<1>o. pc[p] \in Locked => pc[x] # "wfull" \/ x = p
  BY OneInside DEF Locked
<1> USE DEF ProcTypes
<1>1. CASE pipewrite(p) \/ piperead(p)
  BY <1>0, <1>s, <1>1 DEF pipewrite, piperead, Call, Goto, pipe, Full
<1>2. CASE Acquire(p)
  BY <1>0, <1>s, <1>2 DEF Acquire, Goto, pipe, Full
<1>3. CASE Sleep(p)
  BY <1>0, <1>s, <1>3 DEF Sleep, Goto, pipe, Full
<1>4. CASE WriteGivesUp(p) \/ ReadWait(p) \/ ReadStart(p)
  BY <1>0, <1>s, <1>4 DEF WriteGivesUp, ReadWait, ReadStart, Goto, pipe, Full
<1>5. CASE WriteFull(p) \/ WriteEnd(p)
  BY <1>0, <1>s, <1>5 DEF WriteFull, WriteEnd, wakeup_nread, GotoAndWake, pipe, Full
<1>6. CASE \E c \in Bytes : WriteByte(p, c)
  <2>1. pc[p] = "write" /\ UNCHANGED <<pc, readopen>> /\ ~Full
    BY <1>6 DEF WriteByte
  <2>2. pc[x] # "wfull"
    BY <1>o, <2>1 DEF Locked
  <2>3. QED
    BY <1>s, <2>1, <2>2
<1>7. CASE ReadByte(p)
  <2>1. pc[p] = "read" /\ UNCHANGED readopen
    BY <1>7 DEF ReadByte
  <2>2. pc[x] # "wfull"
    BY <1>o, <2>1 DEF Locked
  <2>3. /\ pc'[x] # "wfull"
        /\ pc'[x] = "wsleep" => pc[x] = "wsleep" /\ pc'[p] = "read"
    BY <1>0, <1>7, <2>1, <2>2 DEF ReadByte, wakeup_nwrite, GotoAndWake
  <2>4. QED
    BY <1>s, <2>1, <2>3
<1>8. CASE ReadEnd(p)
  BY <1>0, <1>s, <1>8 DEF ReadEnd, wakeup_nwrite, GotoAndWake, pipe, Full
<1>9. CASE (\E e \in {"r", "w"} : fileclose(p, e)) \/ Free(p)
  BY <1>0, <1>s, <1>9 DEF fileclose, Free, Goto, pipe, Full
<1>10. CASE pipeclose(p)
  <2>1. pc[x] # "wfull" /\ \A y \in Procs : pc[y] # "read"
    BY <1>10, LockFree DEF pipeclose, Locked
  <2>2. QED
    BY <1>0, <1>s, <1>10, <2>1 DEF pipeclose, wakeup_nread, wakeup_nwrite, GotoAndWake, Full
<1>11. CASE kill(p)
  <2>1. UNCHANGED <<nread, nwrite, readopen>>
    BY <1>11 DEF kill, pipe
  <2>2. /\ pc'[x] = "wfull" => pc[x] = "wfull"
        /\ pc'[x] = "wsleep" => pc[x] = "wsleep"
        /\ \A y \in Procs : pc[y] = "read" => pc'[y] = "read"
    BY <1>0, <1>11 DEF kill, Goto
  <2>3. QED
    BY <1>s, <2>1, <2>2 DEF Full
<1>12. QED
  BY <1>1, <1>2, <1>3, <1>4, <1>5, <1>6, <1>7, <1>8, <1>9, <1>10, <1>11 DEF Step

\* A reader past its wait has bytes to read, or nobody can write any more.
LEMMA ReadInvStep ==
  ASSUME Inv, NEW p \in Procs, Step(p)
  PROVE  ReadInv'
<1>0. ProcTypes /\ ReadInv
  BY DEF Inv
<1>o. ASSUME NEW x \in Procs, pc[p] \in Locked, pc[x] = "read"
      PROVE  x = p
  BY <1>o, OneInside DEF Locked
<1> USE DEF ProcTypes, ReadInv
<1>1. CASE pipewrite(p) \/ piperead(p)
  BY <1>0, <1>1 DEF pipewrite, piperead, Call, Goto, pipe, Empty
<1>2. CASE Acquire(p) \/ Sleep(p) \/ Free(p)
  BY <1>0, <1>2 DEF Acquire, Sleep, Free, Goto, pipe, Empty
<1>3. CASE WriteGivesUp(p) \/ ReadWait(p)
  BY <1>0, <1>3 DEF WriteGivesUp, ReadWait, Goto, pipe, Empty, Reset
<1>4. CASE WriteFull(p) \/ WriteEnd(p)
  BY <1>0, <1>4 DEF WriteFull, WriteEnd, wakeup_nread, GotoAndWake, pipe, Empty, Reset
<1>5. CASE \E c \in Bytes : WriteByte(p, c)
  <2>1. pc[p] = "write" /\ UNCHANGED pc
    BY <1>5 DEF WriteByte
  <2>2. \A x \in Procs : pc'[x] # "read"
    BY <1>o, <2>1 DEF Locked
  <2>3. QED
    BY <2>2
<1>6. CASE ReadStart(p)
  <2>1. /\ pc[p] = "rwait" /\ UNCHANGED <<nread, nwrite, writeopen>> /\ (~Empty \/ ~writeopen)
        /\ \A x \in Procs : pc'[x] = "read" => pc[x] = "read" \/ x = p
    BY <1>0, <1>6 DEF ReadStart, Goto, pipe
  <2>2. QED
    BY <1>o, <2>1 DEF Locked, Empty
<1>7. CASE ReadByte(p)
  <2>1. pc[p] = "read" /\ \A x \in Procs : pc'[x] = "read" => pc[x] = "read" /\ (x = p => i'[x] = i[p] + 1)
    BY <1>0, <1>7 DEF ReadByte, wakeup_nwrite, GotoAndWake
  <2>2. \A x \in Procs : pc'[x] = "read" => i'[x] # 0
    BY <1>0, <1>o, <2>1, SMT DEF Locked
  <2>3. QED
    BY <2>2
<1>8. CASE ReadEnd(p)
  BY <1>0, <1>8 DEF ReadEnd, wakeup_nwrite, GotoAndWake, pipe, Empty, Reset
<1>9. CASE \E e \in {"r", "w"} : fileclose(p, e)
  BY <1>0, <1>9, SMT DEF fileclose, Goto, pipe, Empty
<1>10. CASE pipeclose(p)
  <2>1. \A x \in Procs : pc[x] # "read"
    BY <1>10, LockFree DEF pipeclose, Locked
  <2>2. \A x \in Procs : pc'[x] # "read"
    BY <1>0, <1>10, <2>1 DEF pipeclose, wakeup_nread, wakeup_nwrite, GotoAndWake
  <2>3. QED
    BY <2>2
<1>11. CASE kill(p)
  BY <1>0, <1>11 DEF kill, Goto, pipe, Empty
<1>12. QED
  BY <1>1, <1>2, <1>3, <1>4, <1>5, <1>6, <1>7, <1>8, <1>9, <1>10, <1>11 DEF Step

-----------------------------------------------------------------------------
(* The invariant holds, and what follows.                                  *)

\* The state that pipealloc() sets up satisfies the invariant.
LEMMA InvInit == Init => Inv
<1> SUFFICES ASSUME Init
             PROVE  Inv
  OBVIOUS
<1> USE DEF Init
<1>1. RingInv
  <2>1. UINT \in Nat \ {0} /\ PIPESIZE \in Nat \ {0}
    BY UintFacts, SMT
  <2>2. 0 \in 0..UINT-1
    BY <2>1, SMT
  <2>3. (0 + UINT - 0) % UINT = 0
    BY <2>1, <2>2, Wraps, SMT
  <2>4. Used <= PIPESIZE
    BY <2>1, <2>3, SMT DEF Used
  <2>5. QED
    BY <2>2, <2>4 DEF RingInv
<1>2. ProcTypes
  BY PipeAssumption DEF ProcTypes, Labels
<1>3. LockInv /\ FreeInv /\ SleepInv /\ ReadInv
  BY PipeAssumption, SMT DEF LockInv, FreeInv, SleepInv, ReadInv, Locked
<1>4. EndInv
  BY DEF EndInv, Reading, Writing
<1>5. QED
  BY <1>1, <1>2, <1>3, <1>4 DEF Inv

\* Every step of every process preserves the invariant.
LEMMA InvStep == Inv /\ [Next]_vars => Inv'
<1>1. ASSUME Inv, Next
      PROVE  Inv'
  <2>1. PICK p \in Procs : Step(p)
    BY <1>1 DEF Next, Step
  <2>2. RingInv' /\ ProcTypes' /\ LockInv'
    BY <1>1, <2>1, RingStep, ProcTypesStep, LockStep
  <2>3. EndInv' /\ FreeInv' /\ ReadInv'
    BY <1>1, <2>1, EndStep, FreeStep, ReadInvStep
  <2>4. SleepInv'
    BY <1>1, <2>1, ReadersSleep, WritersSleep DEF SleepInv
  <2>5. QED
    BY <2>2, <2>3, <2>4 DEF Inv
<1>2. ASSUME Inv, UNCHANGED vars
      PROVE  Inv'
  <2>1. UNCHANGED <<data, nread, nwrite, readopen, writeopen, lock, frees, ends, killed, pc, n, i>>
    BY <1>2 DEF vars, pipe
  <2>2. RingInv' /\ ProcTypes' /\ LockInv'
    BY <1>2, <2>1 DEF Inv, RingInv, Used, ProcTypes, LockInv
  <2>3. EndInv' /\ FreeInv' /\ ReadInv'
    BY <1>2, <2>1 DEF Inv, EndInv, FreeInv, ReadInv, Empty
  <2>4. SleepInv'
    BY <1>2, <2>1 DEF Inv, SleepInv, Empty, Full
  <2>5. QED
    BY <2>2, <2>3, <2>4 DEF Inv
<1>3. QED
  BY <1>1, <1>2

\* The invariant holds in every state of a pipe.
LEMMA InvHolds == Spec => []Inv
  BY InvInit, InvStep, PTL DEF Spec

\* pipeclose() frees the page once, and nobody is in pipe code, or can get there,
\* when it is gone.
THEOREM PipeFreedLast == Spec => []FreedLast
<1>1. ASSUME Inv
      PROVE  FreedLast
  <2>1. EndInv /\ FreeInv /\ ProcTypes
    BY <1>1 DEF Inv
  <2>2. ASSUME frees = 1, NEW p \in Procs
        PROVE  pc[p] = "idle" /\ ends[p] = {}
    <3>1. ~readopen /\ ~writeopen /\ pc[p] # "free"
      BY <2>1, <2>2, SMT DEF FreeInv
    <3>2. "r" \notin ends[p] /\ "w" \notin ends[p] /\ pc[p] \notin {"rclose", "wclose"}
      BY <2>1, <3>1 DEF EndInv
    <3>3. pc[p] \notin Reading /\ pc[p] \notin Writing
      BY <2>1, <3>2 DEF EndInv
    <3>4. QED
      BY <2>1, <3>1, <3>2, <3>3 DEF ProcTypes, Labels
  <2>3. QED
    BY <2>1, <2>2, SMT DEF FreedLast, FreeInv
<1>2. QED
  BY <1>1, InvHolds, PTL

\* sleep() and wakeup() on &pi->nread and &pi->nwrite: nobody sleeps through what
\* it waits for.
THEOREM PipeWakeups == Spec => []NoLostPipeWakeup
<1>1. ASSUME Inv
      PROVE  NoLostPipeWakeup
  <2>1. SleepInv
    BY <1>1 DEF Inv
  <2>2. ASSUME lock = NoProc
        PROVE  \A x \in Procs : pc[x] # "write" /\ pc[x] # "read"
    BY <1>1, <2>2, LockFree DEF Locked
  <2>3. QED
    BY <2>1, <2>2 DEF NoLostPipeWakeup, SleepInv
<1>2. QED
  BY <1>1, InvHolds, PTL

\* piperead() returns 0 only at the end of the file.
THEOREM ReadZeroIsEof == Spec => ZeroMeansEof
<1>1. ASSUME Inv, Next
      PROVE  ZeroAtEof
  <2>1. PICK p \in Procs : Step(p)
    BY <1>1 DEF Next, Step
  <2>2. SUFFICES ASSUME NEW x \in Procs, pc[x] = "read", pc'[x] = "idle", n[x] > 0, i[x] = 0,
                        nread' = nread
                 PROVE  Empty /\ ~writeopen
    BY DEF ZeroAtEof
  <2>3. ProcTypes /\ RingInv /\ ReadInv
    BY <1>1 DEF Inv
  <2>4. CASE ReadEnd(p)
    <3>1. x = p
      BY <2>2, <2>3, <2>4 DEF ReadEnd, wakeup_nwrite, GotoAndWake, ProcTypes
    <3>2. Empty
      BY <2>2, <2>3, <2>4, <3>1, SMT DEF ReadEnd, ProcTypes
    <3>3. QED
      BY <2>2, <2>3, <3>2 DEF ReadInv
  <2>5. CASE ReadByte(p)
    <3>1. nread' = (nread + 1) % UINT
      BY <2>5 DEF ReadByte
    <3>2. nread \in 0..UINT-1 /\ UINT \in Nat /\ UINT > 1
      BY <2>3, UintFacts, SMT DEF RingInv
    <3>3. (nread + 1) % UINT = IF nread + 1 < UINT THEN nread + 1 ELSE 0
      BY <3>2, Wraps
    <3>4. QED
      BY <2>2, <3>1, <3>2, <3>3, SMT
  <2>6. CASE pipewrite(p) \/ piperead(p) \/ Acquire(p) \/ Sleep(p)
    BY <2>2, <2>3, <2>6 DEF pipewrite, piperead, Call, Acquire, Sleep, Goto, ProcTypes
  <2>7. CASE WriteGivesUp(p) \/ ReadWait(p) \/ ReadStart(p) \/ Free(p) \/ kill(p)
    BY <2>2, <2>3, <2>7 DEF WriteGivesUp, ReadWait, ReadStart, Free, kill, Goto, ProcTypes
  <2>8. CASE WriteFull(p) \/ WriteEnd(p) \/ pipeclose(p)
    BY <2>2, <2>3, <2>8 DEF WriteFull, WriteEnd, pipeclose, wakeup_nread, wakeup_nwrite, GotoAndWake, ProcTypes
  <2>9. CASE \E c \in Bytes : WriteByte(p, c)
    BY <2>2, <2>9 DEF WriteByte
  <2>10. CASE \E e \in {"r", "w"} : fileclose(p, e)
    BY <2>2, <2>3, <2>10 DEF fileclose, Goto, ProcTypes
  <2>11. QED
    BY <2>1, <2>4, <2>5, <2>6, <2>7, <2>8, <2>9, <2>10 DEF Step
<1>2. Inv /\ [Next]_vars => [ZeroAtEof]_vars
  BY <1>1
<1>3. QED
  BY <1>2, InvHolds, PTL DEF Spec, ZeroMeansEof

-----------------------------------------------------------------------------
(* The ring implements ByteQueue.                                          *)

\* Where in the ring the k-th byte from x on is.
Slot(x, k) == (x + k - 1) % PIPESIZE

\* The bytes of the ring as a sequence.
LEMMA InPipeSeq ==
  ASSUME RingInv
  PROVE  /\ InPipe \in Seq(Bytes) /\ Len(InPipe) = Used
         /\ \A k \in 1..Used : Slot(nread, k) \in 0..PIPESIZE-1 /\ InPipe[k] = data[Slot(nread, k)]
<1>0. PIPESIZE \in Nat \ {0} /\ UINT \in Nat /\ nread \in Nat /\ Used \in Nat
  BY UintFacts, UsedFacts, SMT DEF RingInv
<1>1. \A k \in 1..Used : Slot(nread, k) \in 0..PIPESIZE-1
  BY <1>0, SMT DEF Slot
<1>2. InPipe = [k \in 1..Used |-> data[Slot(nread, k)]]
  BY DEF InPipe, Used, Slot
<1>3. InPipe \in [1..Used -> Bytes]
  BY <1>1, <1>2 DEF RingInv
<1>4. InPipe \in Seq(Bytes)
  BY <1>0, <1>3, SMT
<1>5. Len(InPipe) = Used
  BY <1>0, <1>3, SMT
<1>6. QED
  BY <1>1, <1>2, <1>4, <1>5

\* The slot after the last byte is the one pipewrite() fills, and it is free while
\* the ring is not full; the first slot is the one piperead() takes.
LEMMA Slots ==
  ASSUME RingInv
  PROVE  /\ Slot(nread, Used + 1) = nwrite % PIPESIZE
         /\ ~Full => \A k \in 1..Used : Slot(nread, k) # nwrite % PIPESIZE
         /\ \A k \in 1..Used : Slot((nread + 1) % UINT, k) = Slot(nread, k + 1)
<1>0. PIPESIZE \in Nat \ {0} /\ UINT \in Nat /\ nread \in 0..UINT-1 /\ nwrite \in 0..UINT-1
  BY UintFacts DEF RingInv
<1>1. PICK m \in Nat : UINT = m * PIPESIZE
  BY UintFacts
<1>2. Used \in 0..PIPESIZE /\ (Full <=> Used = PIPESIZE)
  BY UsedFacts
<1>3. nread + Used = nwrite \/ nread + Used = nwrite + m * PIPESIZE
  <2>1. Used = IF nwrite >= nread THEN nwrite - nread ELSE nwrite + UINT - nread
    BY <1>0, Wraps DEF Used
  <2>2. QED
    BY <1>0, <1>1, <2>1, SMT
<1>4. (nread + Used) % PIPESIZE = nwrite % PIPESIZE
  <2>0. nwrite \in Nat /\ PIPESIZE \in Nat \ {0}
    BY <1>0, SMT
  <2>1. (nwrite + m * PIPESIZE) % PIPESIZE = nwrite % PIPESIZE
    BY <2>0, ModAdd
  <2>2. QED
    BY <1>3, <2>1
<1>5. Slot(nread, Used + 1) = nwrite % PIPESIZE
  <2>1. nread + (Used + 1) - 1 = nread + Used
    BY <1>0, <1>2, SMT
  <2>2. QED
    BY <1>4, <2>1 DEF Slot
<1>6. ASSUME ~Full, NEW k \in 1..Used
      PROVE  Slot(nread, k) # nwrite % PIPESIZE
  <2> DEFINE x == nread + k - 1
             d == Used - (k - 1)
  <2>1. x \in Nat /\ d \in 1..PIPESIZE-1 /\ x + d = nread + Used
    BY <1>0, <1>2, <1>6, SMT
  <2> HIDE DEF d
  <2>2. (x + d) % PIPESIZE # x % PIPESIZE
    <3> HIDE DEF x
    <3>1. QED
      BY <1>0, <2>1, ModDistinct
  <2>3. QED
    BY <1>4, <2>1, <2>2 DEF Slot
<1>7. ASSUME NEW k \in 1..Used
      PROVE  Slot((nread + 1) % UINT, k) = Slot(nread, k + 1)
  <2>1. (nread + 1) % UINT = IF nread + 1 < UINT THEN nread + 1 ELSE 0
    BY <1>0, Wraps
  <2>2. CASE nread + 1 < UINT
    <3>1. (nread + 1) + k - 1 = nread + (k + 1) - 1
      BY <1>0, <1>2, SMT
    <3>2. QED
      BY <2>1, <2>2, <3>1 DEF Slot
  <2>3. CASE ~(nread + 1 < UINT)
    <3>1. k - 1 \in Nat /\ nread + (k + 1) - 1 = (k - 1) + m * PIPESIZE /\ 0 + k - 1 = k - 1
      BY <1>0, <1>1, <1>2, <2>3, SMT
    <3>2. ((k - 1) + m * PIPESIZE) % PIPESIZE = (k - 1) % PIPESIZE
      BY <1>0, <3>1, ModAdd
    <3>3. QED
      BY <2>1, <2>3, <3>1, <3>2 DEF Slot
  <2>4. QED
    BY <2>2, <2>3
<1>8. QED
  BY <1>5, <1>6, <1>7

\* pipewrite() puts a byte at the end of the queue.
LEMMA PutStep ==
  ASSUME Inv, RingInv', NEW p \in Procs, NEW c \in Bytes, WriteByte(p, c)
  PROVE  Q!QPut(c)
<1>0. RingInv /\ PIPESIZE \in Nat \ {0}
  BY UintFacts DEF Inv
<1>1. /\ nread' = nread /\ ~Full /\ nwrite' = (nwrite + 1) % UINT
      /\ data' = [data EXCEPT ![nwrite % PIPESIZE] = c] /\ UNCHANGED <<readopen, writeopen>>
  BY DEF WriteByte
<1>2. readopen /\ writeopen
  <2>1. readopen /\ pc[p] \in Writing
    BY DEF WriteByte, Writing
  <2>2. QED
    BY <2>1 DEF Inv, EndInv
<1>3. Used \in 0..PIPESIZE /\ Used # PIPESIZE /\ Used' = Used + 1
  BY <1>0, <1>1, UsedFacts DEF Used
<1>4. /\ InPipe \in Seq(Bytes) /\ Len(InPipe) = Used
      /\ \A k \in 1..Used : Slot(nread, k) \in 0..PIPESIZE-1 /\ InPipe[k] = data[Slot(nread, k)]
  BY <1>0, InPipeSeq
<1>5. /\ Slot(nread, Used + 1) = nwrite % PIPESIZE
      /\ \A k \in 1..Used : Slot(nread, k) # nwrite % PIPESIZE
  BY <1>0, <1>1, Slots
<1>6. InPipe' = [k \in 1..(Used + 1) |-> data'[Slot(nread, k)]]
  <2>1. InPipe' = [k \in 1..(Used') |-> data'[Slot(nread, k)]]
    BY <1>1, SMT DEF InPipe, Used, Slot
  <2>2. QED
    BY <1>3, <2>1
<1>7. \A k \in 1..Used : data'[Slot(nread, k)] = InPipe[k]
  BY <1>0, <1>1, <1>4, <1>5 DEF RingInv
<1>8. data'[Slot(nread, Used + 1)] = c
  <2>1. nwrite % PIPESIZE \in 0..PIPESIZE-1
    BY <1>0, UintFacts, SMT DEF RingInv
  <2>2. QED
    BY <1>0, <1>1, <1>5, <2>1 DEF RingInv
<1> DEFINE t == Append(InPipe, c)
<1>9. /\ t \in Seq(Bytes) /\ Len(t) = Used + 1
      /\ \A k \in 1..Used : t[k] = InPipe[k]
      /\ t[Used + 1] = c
  BY <1>4, AppendProperties, SMT
<1>10. InPipe' = t
  <2>1. \A k \in 1..(Used + 1) : k \in 1..Used \/ k = Used + 1
    BY <1>3, SMT
  <2> HIDE DEF t
  <2>2. t = [k \in 1..(Used + 1) |-> t[k]]
    <3>1. t \in [1..Len(t) -> Bytes]
      BY <1>9, LenProperties
    <3>2. QED
      BY <1>9, <3>1
  <2>3. \A k \in 1..(Used + 1) : data'[Slot(nread, k)] = t[k]
    BY <1>7, <1>8, <1>9, <2>1
  <2>4. QED
    BY <1>6, <2>2, <2>3
<1>11. Len(InPipe) < PIPESIZE
  BY <1>0, <1>3, <1>4, SMT
<1>12. UNCHANGED <<readopen, writeopen>>
  BY <1>1
<1>13. QED
  BY <1>2, <1>10, <1>11, <1>12 DEF Q!QPut

\* piperead() takes the byte at the front of the queue.
LEMMA GetStep ==
  ASSUME Inv, RingInv', NEW p \in Procs, ReadByte(p)
  PROVE  Q!QGet
<1>0. RingInv /\ PIPESIZE \in Nat \ {0}
  BY UintFacts DEF Inv
<1>1. /\ nwrite' = nwrite /\ ~Empty /\ nread' = (nread + 1) % UINT
      /\ data' = data /\ UNCHANGED <<readopen, writeopen>>
  BY DEF ReadByte
<1>2. readopen
  <2>1. pc[p] \in Reading
    BY DEF ReadByte, Reading
  <2>2. QED
    BY <2>1 DEF Inv, EndInv
<1>3. Used \in 0..PIPESIZE /\ Used # 0 /\ Used' = Used - 1
  BY <1>0, <1>1, UsedFacts DEF Used
<1>4. /\ InPipe \in Seq(Bytes) /\ Len(InPipe) = Used
      /\ \A k \in 1..Used : InPipe[k] = data[Slot(nread, k)]
  BY <1>0, InPipeSeq
<1>5. \A k \in 1..Used : Slot((nread + 1) % UINT, k) = Slot(nread, k + 1)
  BY <1>0, Slots
<1>6. InPipe' = [k \in 1..(Used - 1) |-> data[Slot((nread + 1) % UINT, k)]]
  <2>1. InPipe' = [k \in 1..(Used') |-> data'[Slot(nread', k)]]
    BY DEF InPipe, Used, Slot
  <2>2. QED
    BY <1>1, <1>3, <2>1
<1> DEFINE t == Tail(InPipe)
<1>7. InPipe # <<>>
  BY <1>3, <1>4, SMT
<1>8. /\ t \in Seq(Bytes) /\ Len(t) = Used - 1
      /\ \A k \in 1..(Used - 1) : t[k] = InPipe[k + 1]
  BY <1>3, <1>4, <1>7, HeadTailProperties
<1>9. InPipe' = t
  <2>1. \A k \in 1..(Used - 1) : k \in 1..Used /\ k + 1 \in 1..Used
    BY <1>3, SMT
  <2> HIDE DEF t
  <2>2. t = [k \in 1..(Used - 1) |-> t[k]]
    <3>1. t \in [1..Len(t) -> Bytes]
      BY <1>8, LenProperties
    <3>2. QED
      BY <1>8, <3>1
  <2>3. \A k \in 1..(Used - 1) : data[Slot((nread + 1) % UINT, k)] = t[k]
    BY <1>4, <1>5, <1>8, <2>1
  <2>4. QED
    BY <1>6, <2>2, <2>3
<1>10. UNCHANGED <<readopen, writeopen>>
  BY <1>1
<1>11. QED
  BY <1>2, <1>7, <1>9, <1>10 DEF Q!QGet

\* pipeclose() closes an end of the queue that was open, and leaves its bytes.
LEMMA CloseStep ==
  ASSUME Inv, NEW p \in Procs, pipeclose(p)
  PROVE  Q!QCloseRead \/ Q!QCloseWrite
<1>1. InPipe' = InPipe
  BY DEF pipeclose, InPipe
<1>2. CASE pc[p] = "wclose"
  <2>1. writeopen
    BY <1>2 DEF Inv, EndInv
  <2>2. writeopen' = FALSE /\ UNCHANGED readopen
    BY <1>2 DEF pipeclose
  <2>3. QED
    BY <1>1, <2>1, <2>2 DEF Q!QCloseWrite
<1>3. CASE pc[p] = "rclose"
  <2>1. readopen
    BY <1>3 DEF Inv, EndInv
  <2>2. readopen' = FALSE /\ UNCHANGED writeopen
    BY <1>3 DEF pipeclose
  <2>3. QED
    BY <1>1, <2>1, <2>2 DEF Q!QCloseRead
<1>4. QED
  BY <1>2, <1>3 DEF pipeclose

\* Every step of a pipe is a step of the queue, or none.
LEMMA QueueStep ==
  ASSUME Inv, Inv', [Next]_vars
  PROVE  [Q!QNext]_(Q!qvars)
<1>0. RingInv'
  BY DEF Inv
<1>1. ASSUME UNCHANGED <<pipe>> PROVE UNCHANGED Q!qvars
  BY <1>1 DEF pipe, Q!qvars, InPipe
<1>2. CASE UNCHANGED vars
  BY <1>1, <1>2 DEF vars, pipe
<1>3. CASE Next
  <2>1. PICK p \in Procs :
          \/ pipewrite(p) \/ piperead(p) \/ Acquire(p) \/ Sleep(p)
          \/ WriteGivesUp(p) \/ WriteFull(p) \/ (\E c \in Bytes : WriteByte(p, c)) \/ WriteEnd(p)
          \/ ReadWait(p) \/ ReadStart(p) \/ ReadByte(p) \/ ReadEnd(p)
          \/ (\E e \in {"r", "w"} : fileclose(p, e)) \/ pipeclose(p) \/ Free(p)
          \/ kill(p)
    BY <1>3 DEF Next
  <2>2. CASE \E c \in Bytes : WriteByte(p, c)
    <3>1. PICK c \in Bytes : WriteByte(p, c)
      BY <2>2
    <3>2. Q!QPut(c)
      BY <1>0, <3>1, PutStep
    <3>3. QED
      BY <3>2 DEF Q!QNext
  <2>3. CASE ReadByte(p)
    BY <1>0, <2>3, GetStep DEF Q!QNext
  <2>4. CASE pipeclose(p)
    BY <2>4, CloseStep DEF Q!QNext
  <2>5. CASE \E e \in {"r", "w"} : fileclose(p, e)
    BY <1>1, <2>5 DEF fileclose
  <2>6. CASE pipewrite(p) \/ piperead(p) \/ Acquire(p) \/ Sleep(p)
    BY <1>1, <2>6 DEF pipewrite, piperead, Call, Acquire, Sleep
  <2>7. CASE WriteGivesUp(p) \/ WriteFull(p) \/ WriteEnd(p)
    BY <1>1, <2>7 DEF WriteGivesUp, WriteFull, WriteEnd
  <2>8. CASE ReadWait(p) \/ ReadStart(p) \/ ReadEnd(p)
    BY <1>1, <2>8 DEF ReadWait, ReadStart, ReadEnd
  <2>9. CASE Free(p) \/ kill(p)
    BY <1>1, <2>9 DEF Free, kill
  <2>10. QED
    BY <2>1, <2>2, <2>3, <2>4, <2>5, <2>6, <2>7, <2>8, <2>9
<1>4. QED
  BY <1>2, <1>3

\* A pipe of any size, between any readers and writers, is a bounded first-in
\* first-out queue of bytes, across the wrap of its counters: no byte is lost,
\* repeated or reordered, and none goes in once the read end is closed.
THEOREM PipeImplementsQueue == Spec => PipeIsQueue
<1>1. Init => Q!QInit
  <2> SUFFICES ASSUME Init PROVE Q!QInit
    OBVIOUS
  <2>1. RingInv
    BY InvInit DEF Inv
  <2>2. Used = 0 /\ readopen = TRUE /\ writeopen = TRUE
    BY <2>1, UsedFacts DEF Init, Empty
  <2>3. InPipe \in Seq(Bytes) /\ Len(InPipe) = 0
    BY <2>1, <2>2, InPipeSeq
  <2>4. InPipe = <<>>
    BY <2>3, EmptySeq
  <2>5. QED
    BY <2>2, <2>4 DEF Q!QInit
<1>2. Inv /\ Inv' /\ [Next]_vars => [Q!QNext]_(Q!qvars)
  BY QueueStep
<1>3. QED
  BY <1>1, <1>2, InvHolds, PTL DEF Spec, PipeIsQueue, Q!QSpec
=============================================================================
