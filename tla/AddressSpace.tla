---------------------------- MODULE AddressSpace ----------------------------
(***************************************************************************)
(* What memory is to processes: each has an image of its own, a sequence   *)
(* of pages that the program may use or may not.  A call that fails leaves *)
(* every image as it was.                                                  *)
(***************************************************************************)
EXTENDS Integers, Sequences

CONSTANTS Procs, PGSIZE, WRAP, Bytes, SbrkArgs, WriteAddrs,
          ExecImages    \* the images that exec() may install

VARIABLE image      \* image[p]: size in bytes and pages; size 0 is no image

NoImage == [sz |-> 0, pages |-> <<>>]
NPages(sz) == (sz + PGSIZE - 1) \div PGSIZE
ZeroPage == [bytes |-> [c \in 0..(PGSIZE - 1) |-> 0], u |-> TRUE]

Init == \E p \in Procs : image[p].sz = PGSIZE /\ \A q \in Procs \ {p} : image[q] = NoImage

\* The operations, from images i to images j.
Fork(i, j, p, q) == i[q] = NoImage /\ j = [i EXCEPT ![q] = i[p]]

Exit(i, j, p) == j = [i EXCEPT ![p] = NoImage]

\* A page that stays keeps its bytes; a new page is zero.
Sbrk(i, j, p, n) ==
  /\ i[p].sz + n \in 0..WRAP
  /\ j = [i EXCEPT ![p] =
       [sz |-> @.sz + n,
        pages |-> [k \in 1..NPages(@.sz + n) |-> IF k <= Len(@.pages) THEN @.pages[k] ELSE ZeroPage]]]

Exec(i, j, p) == j[p] \in ExecImages /\ j = [i EXCEPT ![p] = j[p]]

\* Bytes are stored at va and after, in pages the program may use.
Store(i, j, p, va, bytes) ==
  /\ \A k \in 1..Len(bytes) : LET pg == (va + k - 1) \div PGSIZE + 1 IN
       pg <= Len(i[p].pages) /\ i[p].pages[pg].u
  /\ j = [i EXCEPT ![p].pages = [x \in DOMAIN @ |-> [@[x] EXCEPT !.bytes =
       [c \in DOMAIN @ |-> LET k == (x - 1) * PGSIZE + c - va + 1 IN
                           IF k \in 1..Len(bytes) THEN bytes[k] ELSE @[c]]]]]

Next == \E i \in {image}, j \in {image'} : \E p \in Procs :
  \/ \E q \in Procs : Fork(i, j, p, q)
  \/ Exit(i, j, p) \/ Exec(i, j, p)
  \/ \E n \in SbrkArgs : Sbrk(i, j, p, n)
  \/ \E va \in WriteAddrs, b \in Bytes : Store(i, j, p, va, b)

Step == [Next]_image

Spec == Init /\ [][Next]_image
=============================================================================
