------------------------------- MODULE Malloc -------------------------------
(***************************************************************************)
(* The allocator of user programs (user/umalloc.c): a ring of free blocks  *)
(* in the order of their addresses, which starts at base, and freep, where *)
(* the next search starts.  Addresses and sizes count headers.  A step is  *)
(* one round of a loop.                                                    *)
(***************************************************************************)
EXTENDS Integers, FiniteSets

CONSTANTS HEADER,        \* sizeof(Header)
          MINUNITS,      \* the least that morecore() asks for: 4096
          START, LIMIT,  \* where the heap starts, and where sbrk() fails at the latest
          Requests,      \* arguments of malloc()
          MaxGaps        \* bound on the program's own calls of sbrk()

VARIABLES header,  \* at each address, what a header there would say: [ptr, size]
          freep,
          brk,     \* the end of the heap, as sbrk() knows it
          op,      \* the call under way, with its local variables
          used,    \* the blocks that malloc() returned and free() has not got back
          core,    \* the memory that morecore() got
          gaps

vars == <<header, freep, brk, op, used, core, gaps>>

base == 0
Null == -1
Blank == [ptr |-> Null, size |-> 0]  \* where no block starts, and nobody looks
Idle == [f |-> "idle", n |-> 0, p |-> Null, prevp |-> Null, bp |-> Null]

Init ==
  /\ header = [a \in 0..LIMIT |-> Blank]
  /\ freep = Null /\ brk = START /\ op = Idle
  /\ used = {} /\ core = {} /\ gaps = 0

Units(nbytes) == (nbytes + HEADER - 1) \div HEADER + 1

-----------------------------------------------------------------------------
(* malloc() and morecore().                                                *)

Malloc(nbytes) ==
  /\ op.f \in {"idle", "failed"}
  /\ \E h \in {IF freep = Null THEN [header EXCEPT ![base] = [ptr |-> base, size |-> 0]] ELSE header},
        prevp \in {IF freep = Null THEN base ELSE freep} :
       /\ header' = h /\ freep' = prevp
       /\ op' = [Idle EXCEPT !.f = "malloc", !.n = Units(nbytes), !.p = h[prevp].ptr, !.prevp = prevp]
  /\ UNCHANGED <<brk, used, core, gaps>>

Fits == op.f = "malloc" /\ header[op.p].size >= op.n

\* Mutant: the block stays in the ring.
TakeAllLinked ==
  /\ Fits /\ header[op.p].size = op.n
  /\ freep' = op.prevp /\ op' = Idle /\ used' = used \cup {[at |-> op.p, n |-> op.n]}
  /\ UNCHANGED <<header, brk, core, gaps>>

\* The block has the size asked for and leaves the ring.
TakeAll ==
  /\ Fits /\ header[op.p].size = op.n
  /\ header' = [header EXCEPT ![op.prevp].ptr = header[op.p].ptr, ![op.p].ptr = Null]
  /\ freep' = op.prevp /\ op' = Idle /\ used' = used \cup {[at |-> op.p, n |-> op.n]}
  /\ UNCHANGED <<brk, core, gaps>>

\* The tail of a larger block.
TakeTail ==
  /\ Fits /\ header[op.p].size > op.n
  /\ \E rest \in {header[op.p].size - op.n} :
       /\ header' = [header EXCEPT ![op.p].size = rest, ![op.p + rest].size = op.n]
       /\ used' = used \cup {[at |-> op.p + rest, n |-> op.n]}
  /\ freep' = op.prevp /\ op' = Idle
  /\ UNCHANGED <<brk, core, gaps>>

LookOn ==
  /\ op.f = "malloc" /\ ~Fits /\ op.p # freep
  /\ op' = [op EXCEPT !.prevp = op.p, !.p = header[op.p].ptr]
  /\ UNCHANGED <<header, freep, brk, used, core, gaps>>

\* All of the ring has been seen: morecore(), which hands its memory to free().
MoreCore ==
  /\ op.f = "malloc" /\ ~Fits /\ op.p = freep
  /\ \E nu \in {IF op.n < MINUNITS THEN MINUNITS ELSE op.n} :
       /\ brk + nu <= LIMIT
       /\ header' = [header EXCEPT ![brk].size = nu]
       /\ core' = core \cup brk..(brk + nu - 1) /\ brk' = brk + nu
       /\ op' = [op EXCEPT !.f = "morecore", !.bp = brk, !.p = freep]
  /\ UNCHANGED <<freep, used, gaps>>

\* sbrk() fails; malloc() returns 0.
NoCore ==
  /\ op.f = "malloc" /\ ~Fits /\ op.p = freep
  /\ op' = [Idle EXCEPT !.f = "failed", !.n = op.n]
  /\ UNCHANGED <<header, freep, brk, used, core, gaps>>

-----------------------------------------------------------------------------
(* free().                                                                 *)

Free(b) ==
  /\ op.f \in {"idle", "failed"} /\ b \in used
  /\ used' = used \ {b} /\ op' = [Idle EXCEPT !.f = "free", !.bp = b.at, !.p = freep]
  /\ UNCHANGED <<header, freep, brk, core, gaps>>

\* bp belongs after p: between p and the next block, or at the end of the ring.
Found ==
  LET next == header[op.p].ptr IN
  \/ op.bp > op.p /\ op.bp < next
  \/ op.p >= next /\ (op.bp > op.p \/ op.bp < next)

Seek ==
  /\ op.f \in {"free", "morecore"} /\ ~Found
  /\ op' = [op EXCEPT !.p = header[op.p].ptr]
  /\ UNCHANGED <<header, freep, brk, used, core, gaps>>

\* bp joins the next block, then the one before, where they touch.
JoinUp(h, p, bp) ==
  LET next == h[p].ptr IN
  IF bp + h[bp].size = next
  THEN [h EXCEPT ![bp] = [ptr |-> h[next].ptr, size |-> h[bp].size + h[next].size], ![next] = Blank]
  ELSE [h EXCEPT ![bp].ptr = next]

JoinDown(h, p, bp) ==
  IF p + h[p].size = bp
  THEN [h EXCEPT ![p] = [ptr |-> h[bp].ptr, size |-> h[p].size + h[bp].size], ![bp] = Blank]
  ELSE [h EXCEPT ![p].ptr = bp]

\* In morecore() the search of malloc() goes on after freep.
Insert ==
  /\ op.f \in {"free", "morecore"} /\ Found
  /\ \E h \in {JoinDown(JoinUp(header, op.p, op.bp), op.p, op.bp)} :
       /\ header' = h /\ freep' = op.p
       /\ op' = IF op.f = "free" THEN Idle
                ELSE [Idle EXCEPT !.f = "malloc", !.n = op.n, !.prevp = op.p, !.p = h[op.p].ptr]
  /\ UNCHANGED <<brk, used, core, gaps>>

\* The program grows its memory itself: the next morecore() is not adjacent.
Sbrk ==
  /\ op.f \in {"idle", "failed"} /\ gaps < MaxGaps /\ brk < LIMIT
  /\ brk' = brk + 1 /\ gaps' = gaps + 1
  /\ UNCHANGED <<header, freep, op, used, core>>

Next ==
  \/ \E n \in Requests : Malloc(n)
  \/ \E b \in used : Free(b)
  \/ TakeAll \/ TakeTail \/ LookOn \/ MoreCore \/ NoCore \/ Seek \/ Insert \/ Sbrk

Spec == Init /\ [][Next]_vars

-----------------------------------------------------------------------------
(* Properties.                                                             *)

\* The free blocks, along the ring from base.
Ring == LET at[k \in 0..LIMIT] == IF k = 0 THEN base ELSE header[at[k - 1]].ptr
        IN {at[k] : k \in 0..LIMIT}
Block(a) == a..(a + header[a].size - 1)

\* Between calls the memory from morecore() is divided, without overlap and
\* without loss, into the free blocks and those that the program has, each as
\* large as it asked; the ring is sorted, has freep in it, and no two blocks
\* of it touch; and malloc() gave up only when no free block was large enough.
HeapIsSound ==
  op.f \in {"idle", "failed"} /\ freep # Null =>
    \A ring \in {Ring} : \A blocks \in {(ring \ {base}) \cup {b.at : b \in used}} :
      /\ freep \in ring /\ base = header[CHOOSE a \in ring : \A b \in ring : b <= a].ptr
      /\ \A a \in ring : header[a].ptr > a \/ \A b \in ring : b <= a
      /\ core = UNION {Block(a) : a \in blocks}
      /\ \A a, b \in blocks : a < b => a + header[a].size <= b
      /\ \A a, b \in ring \ {base} : a + header[a].size # b
      /\ \A b \in used : b.at \notin ring /\ header[b.at].size = b.n
      /\ op.f = "failed" => \A a \in ring : header[a].size < op.n
=============================================================================
