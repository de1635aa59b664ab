----------------------------- MODULE FileStore ------------------------------
(***************************************************************************)
(* What files are to programs: sequences of bytes, and for each open file  *)
(* a position in one.  A write replaces bytes at the position, which is    *)
(* not past the end, and may extend the file; it may stop early, and then  *)
(* report fewer bytes than it replaced.                                    *)
(***************************************************************************)
EXTENDS Naturals, Sequences

CONSTANTS Inums, Directory, Handles, Initial, MaxWrite,
          Data(_)     \* the byte sequences that handle h may write at once

VARIABLES content, pos

max(a, b) == IF a > b THEN a ELSE b

Overlay(c, off, data) ==
  [k \in 1..max(Len(c), off + Len(data)) |-> IF k > off /\ k <= off + Len(data) THEN data[k - off] ELSE c[k]]

Init == content = Initial /\ pos = [h \in Handles |-> [ip |-> 0, off |-> 0]]

Open(h, i) ==
  /\ pos' = [pos EXCEPT ![h] = [ip |-> i, off |-> 0]]
  /\ \/ UNCHANGED content
     \/ i # Directory /\ content' = [content EXCEPT ![i] = <<>>]

\* A read moves the position, to the end of the file at most.
Read(h, n) ==
  /\ pos[h].ip # 0
  /\ pos' = [pos EXCEPT ![h].off = max(@, IF @ + n > Len(content[pos[h].ip]) THEN Len(content[pos[h].ip]) ELSE @ + n)]
  /\ UNCHANGED content

\* count bytes are reported; data holds the bytes replaced.
Write(h, data, count) ==
  LET i == pos[h].ip
      off == pos[h].off IN
  /\ i \notin {0, Directory} /\ off <= Len(content[i]) /\ count <= Len(data)
  /\ content' = [content EXCEPT ![i] = SubSeq(Overlay(@, off, data), 1, max(Len(@), off + count))]
  /\ pos' = [pos EXCEPT ![h].off = off + count]

\* Where the entries of directory d hold x.
EntriesOf(d, x) == {k \in DOMAIN content[d] : content[d][k] = x}

\* A name for inode i takes the first empty entry of the directory, or a new one.
Enter(i) ==
  /\ LET empty == EntriesOf(Directory, 0)
         at == IF empty = {} THEN Len(content[Directory]) + 1 ELSE CHOOSE k \in empty : \A j \in empty : k <= j IN
       content' = [content EXCEPT ![Directory] = Overlay(@, at - 1, <<i>>)]
  /\ UNCHANGED pos

\* A name of inode i goes, and leaves an empty entry.
Erase(i) ==
  /\ \E k \in EntriesOf(Directory, i) : content' = [content EXCEPT ![Directory][k] = 0]
  /\ UNCHANGED pos

Next ==
  \/ \E h \in Handles, i \in Inums : Open(h, i)
  \/ \E h \in Handles, n \in 1..MaxWrite : Read(h, n)
  \/ \E h \in Handles : \E data \in Data(h) : \E count \in 0..Len(data) : Write(h, data, count)
  \/ \E i \in Inums \ {Directory} : Enter(i) \/ Erase(i)

Step == [Next]_<<content, pos>>

Spec == Init /\ [][Next]_<<content, pos>>
=============================================================================
