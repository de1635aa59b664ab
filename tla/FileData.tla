----------------------------- MODULE FileData -------------------------------
(***************************************************************************)
(* Where the bytes of files are: the bitmap and the allocation of blocks   *)
(* (balloc, bfree, bzero), the block lists of inodes (bmap, itrunc),       *)
(* readi() and writei(), the entries of a directory (dirlookup, dirlink),  *)
(* read and write through a struct file, and the image that mkfs makes.    *)
(*                                                                         *)
(* A call holds the lock of its inode while it reads or writes block after *)
(* block, one to a step; calls on other inodes go on in between, and take  *)
(* blocks from the same bitmap.  A byte of the model is a byte, a          *)
(* directory entry (its inode number) or a block number in an indirect     *)
(* block.  The disk may fill up, and a copy from or to user memory may     *)
(* fail at any byte.                                                       *)
(***************************************************************************)
EXTENDS Naturals, Sequences, FiniteSets, FiniteSetsExt, SequencesExt

CONSTANTS BSIZE, NDIRECT, NINDIRECT, BPB, MAXOPBLOCKS,
          FSSIZE, nmeta,    \* blocks on the disk; the first nmeta hold no data
          MkFiles,          \* contents of the files mkfs is given
          Handles,          \* open files (struct file)
          MaxWrite,         \* bound on the size of one write()
          MaxCalls          \* bound on the number of system calls

VARIABLES
  fs,      \* the bitmap, the blocks and the inodes, as the buffer cache shows them
  file,    \* file[h]: inode and offset of a struct file
  op,      \* op[h]: the call that is under way on it
  calls    \* number of system calls made

vars == <<fs, file, op, calls>>

MAXFILE == NDIRECT + NINDIRECT
Inums == 1..(1 + Len(MkFiles))
ROOTINO == 1
Zero == [k \in 0..(BSIZE - 1) |-> 0]
NoAddrs == [k \in 0..NDIRECT |-> 0]
min(a, b) == IF a < b THEN a ELSE b

-----------------------------------------------------------------------------
(* Blocks.  An allocation yields the disk afterwards, a block number, 0    *)
(* for none, and the blocks it has passed to log_write().                  *)

Result(d, addr, log) == [d |-> d, addr |-> addr, log |-> log]
DATA(b) == <<"data", b>>
BBLOCK(b) == <<"bitmap", b \div BPB>>
IBLOCK(i) == <<"inode", i>>

FreeBlocks(d) == (0..(FSSIZE - 1)) \ d.used

\* Mutant: balloc() does not zero the block.
ballocDirty(d) ==
  IF FreeBlocks(d) = {} THEN Result(d, 0, {})
  ELSE LET b == Min(FreeBlocks(d)) IN
       Result([d EXCEPT !.used = @ \cup {b}], b, {BBLOCK(b), DATA(b)})

\* balloc() takes the first free block and zeroes it.
balloc(d) ==
  IF FreeBlocks(d) = {} THEN Result(d, 0, {})
  ELSE LET b == Min(FreeBlocks(d)) IN
       Result([d EXCEPT !.used = @ \cup {b}, !.blk[b] = Zero], b, {BBLOCK(b), DATA(b)})

\* The block in slot k of ip->addrs, allocated when there is none.
DirectBlock(d, i, k) ==
  IF d.ino[i].addrs[k] # 0 THEN Result(d, d.ino[i].addrs[k], {})
  ELSE LET r == balloc(d) IN
       IF r.addr = 0 THEN r ELSE Result([r.d EXCEPT !.ino[i].addrs[k] = r.addr], r.addr, r.log)

\* The block in entry k of the indirect block, which ind has found or allocated.
IndirectBlock(ind, k) ==
  IF ind.addr = 0 THEN ind
  ELSE IF ind.d.blk[ind.addr][k] # 0 THEN Result(ind.d, ind.d.blk[ind.addr][k], ind.log)
  ELSE LET r == balloc(ind.d) IN
       IF r.addr = 0 THEN Result(r.d, 0, ind.log)
       ELSE Result([r.d EXCEPT !.blk[ind.addr][k] = r.addr], r.addr, ind.log \cup r.log \cup {DATA(ind.addr)})

bmap(d, i, bn) ==
  IF bn < NDIRECT THEN DirectBlock(d, i, bn) ELSE IndirectBlock(DirectBlock(d, i, NDIRECT), bn - NDIRECT)

\* The block numbers an inode refers to, with the indirect block.
Direct(d, i) == {d.ino[i].addrs[k] : k \in 0..NDIRECT} \ {0}
Indirect(d, i) ==
  LET a == d.ino[i].addrs[NDIRECT] IN
  IF a = 0 THEN {} ELSE {d.blk[a][k] : k \in 0..(NINDIRECT - 1)} \ {0}

\* It panics when one of the blocks is free already: see BlocksOwnedOnce.
bfree(d, bs) == [d EXCEPT !.used = @ \ bs]

itrunc(d, i) ==
  [bfree(d, Direct(d, i) \cup Indirect(d, i)) EXCEPT !.ino[i] = [addrs |-> NoAddrs, size |-> 0]]

-----------------------------------------------------------------------------
(* mkfs.                                                                   *)

\* iappend() adds one byte to inode i; st.freeblock is the next free block.
Append1(i, st, x) ==
  LET off == st.d.ino[i].size
      fbn == off \div BSIZE
      addrs == st.d.ino[i].addrs
      \* the indirect block, then the block of the byte
      ind == IF fbn < NDIRECT THEN 0 ELSE IF addrs[NDIRECT] = 0 THEN st.freeblock ELSE addrs[NDIRECT]
      f1 == IF fbn >= NDIRECT /\ addrs[NDIRECT] = 0 THEN st.freeblock + 1 ELSE st.freeblock
      old == IF fbn < NDIRECT THEN addrs[fbn] ELSE st.d.blk[ind][fbn - NDIRECT]
      b == IF old = 0 THEN f1 ELSE old
      d1 == IF fbn < NDIRECT THEN [st.d EXCEPT !.ino[i].addrs[fbn] = b]
            ELSE [st.d EXCEPT !.ino[i].addrs[NDIRECT] = ind, !.blk[ind][fbn - NDIRECT] = b] IN
  [d |-> [d1 EXCEPT !.blk[b][off % BSIZE] = x, !.ino[i].size = off + 1],
   freeblock |-> IF old = 0 THEN f1 + 1 ELSE f1]

iappend(i, st, xs) == FoldLeft(LAMBDA s, x : Append1(i, s, x), st, xs)

\* A disk of zeroes, the root with "." and "..", then each file and its entry.
BlankDisk == [used |-> {}, blk |-> [b \in 0..(FSSIZE - 1) |-> Zero],
              ino |-> [i \in Inums |-> [addrs |-> NoAddrs, size |-> 0]]]
MkRoot == iappend(ROOTINO, [d |-> BlankDisk, freeblock |-> nmeta], <<ROOTINO, ROOTINO>>)
MkAll == FoldLeft(LAMBDA st, k : iappend(k + 1, iappend(ROOTINO, st, <<k + 1>>), MkFiles[k]),
                  MkRoot, [k \in 1..Len(MkFiles) |-> k])

\* The root's size is rounded up to the end of a block, and the blocks before
\* freeblock are marked in the bitmap.
RootSize(off) == ((off \div BSIZE) + 1) * BSIZE
Bitmap(used) == 0..(used - 1)
mkfs == [MkAll.d EXCEPT !.ino[ROOTINO].size = RootSize(@), !.used = Bitmap(MkAll.freeblock)]

-----------------------------------------------------------------------------
(* Calls.                                                                  *)

\* f: "write" between the transactions of filewrite(), "read" in readi(),
\* "chunk" in the loop of writei(), "end" after a loop that broke off; i, off
\* and len: arguments of readi(); src: bytes for writei(); got, tot: what is
\* read or written so far; user: called by filewrite(), for n bytes, of which
\* done are written; logged: blocks of the transaction.  before: the contents
\* of the inode when writei() began, for the properties.
Idle == [f |-> "none", i |-> 0, off |-> 0, len |-> 0, src |-> <<>>, got |-> <<>>, tot |-> 0,
         user |-> TRUE, n |-> 0, done |-> 0, logged |-> {}, before |-> <<>>]

Init ==
  /\ fs = mkfs /\ calls = 0
  /\ file = [h \in Handles |-> [ip |-> 0, off |-> 0]]
  /\ op = [h \in Handles |-> Idle]

Locked(i) == \E h \in Handles : op[h].f \in {"read", "chunk", "end"} /\ op[h].i = i
Call(h) == calls < MaxCalls /\ calls' = calls + 1 /\ op[h] = Idle
Set(h, o) == op' = [op EXCEPT ![h] = o]

\* The contents of inode i, by the layout that struct dinode describes.
BlockAt(d, i, bn) ==
  LET a == d.ino[i].addrs IN
  IF bn < NDIRECT THEN a[bn] ELSE IF a[NDIRECT] = 0 THEN 0 ELSE d.blk[a[NDIRECT]][bn - NDIRECT]
ByteAt(d, i, k) ==
  IF BlockAt(d, i, k \div BSIZE) = 0 THEN 0 ELSE d.blk[BlockAt(d, i, k \div BSIZE)][k % BSIZE]
Contents(d, i) == [k \in 1..d.ino[i].size |-> ByteAt(d, i, k - 1)]

\* What handle h writes: bytes that tell who wrote them.
Src(h, n) == [k \in 1..n |-> 10 * h]

\* sys_open(), with O_TRUNC or without.
Open(h, i) ==
  /\ Call(h) /\ ~Locked(i)
  /\ file' = [file EXCEPT ![h] = [ip |-> i, off |-> 0]]
  /\ \/ UNCHANGED fs
     \/ i # ROOTINO /\ fs' = itrunc(fs, i)
  /\ UNCHANGED op

\* fileread(): readi() reads no further than the end of the file.
Read(h, n) ==
  /\ Call(h) /\ file[h].ip # 0 /\ ~Locked(file[h].ip)
  /\ LET size == fs.ino[file[h].ip].size
         off == file[h].off IN
       Set(h, [Idle EXCEPT !.f = "read", !.i = file[h].ip, !.off = off,
                           !.len = IF off > size THEN 0 ELSE min(n, size - off)])
  /\ UNCHANGED <<fs, file>>

\* One round of the loop of readi().  bmap() may find no block, and a copyout
\* may fail, which makes readi() return -1.
ReadBlock(h) ==
  /\ op[h].f = "read" /\ Len(op[h].got) < op[h].len
  /\ LET o == op[h]
         at == o.off + Len(o.got)
         m == min(o.len - Len(o.got), BSIZE - (at % BSIZE)) IN
     \E r \in {bmap(fs, o.i, at \div BSIZE)} :
       /\ fs' = r.d
       /\ \/ Set(h, IF r.addr = 0 THEN [o EXCEPT !.len = Len(o.got)]
                    ELSE [o EXCEPT !.got = @ \o [k \in 1..m |-> r.d.blk[r.addr][(at % BSIZE) + k - 1]]])
          \/ r.addr # 0 /\ Set(h, [o EXCEPT !.got = <<>>, !.len = 0])
  /\ UNCHANGED <<file, calls>>

ReadEnd(h) ==
  /\ op[h].f = "read" /\ Len(op[h].got) = op[h].len
  /\ file' = [file EXCEPT ![h].off = @ + Len(op[h].got)]
  /\ Set(h, Idle)
  /\ UNCHANGED <<fs, calls>>

\* filewrite()
Write(h, n) ==
  /\ Call(h) /\ file[h].ip \notin {0, ROOTINO}
  /\ Set(h, [Idle EXCEPT !.f = "write", !.n = n])
  /\ UNCHANGED <<fs, file>>

\* Mutant: the limit leaves no room for a write that is not aligned.
maxLoose == ((MAXOPBLOCKS - 1 - 1) \div 2) * BSIZE

max == ((MAXOPBLOCKS - 1 - 1 - 2) \div 2) * BSIZE

\* writei() refuses to start past the end, or to go past MAXFILE.
Refused(i, off, len) == off > fs.ino[i].size \/ off + len > MAXFILE * BSIZE

\* One transaction for each `max` bytes at most.
Chunk(h) ==
  /\ op[h].f = "write" /\ ~Locked(file[h].ip)
  /\ LET i == file[h].ip
         n1 == min(op[h].n - op[h].done, max) IN
     IF Refused(i, file[h].off, n1) THEN Set(h, Idle)
     ELSE Set(h, [op[h] EXCEPT !.f = "chunk", !.i = i, !.off = file[h].off, !.src = Src(h, n1), !.before = Contents(fs, i)])
  /\ UNCHANGED <<fs, file, calls>>

\* One round of the loop of writei(): c bytes of the m for this block are
\* copied; when a copyin fails, the buffer is changed and not logged.
WriteBlock(h) ==
  /\ op[h].f = "chunk" /\ op[h].tot < Len(op[h].src)
  /\ LET o == op[h]
         at == o.off + o.tot
         p == at % BSIZE
         m == min(Len(o.src) - o.tot, BSIZE - p) IN
     \E r \in {bmap(fs, o.i, at \div BSIZE)} :
       \/ /\ r.addr = 0
          /\ fs' = r.d
          /\ Set(h, [o EXCEPT !.f = "end", !.logged = @ \cup r.log])
       \/ /\ r.addr # 0
          /\ \E c \in IF o.user THEN 0..m ELSE {m} :
               /\ fs' = [r.d EXCEPT !.blk[r.addr] = [k \in DOMAIN @ |->
                            IF k >= p /\ k < p + c THEN o.src[o.tot + 1 + k - p] ELSE @[k]]]
               /\ IF c = m THEN Set(h, [o EXCEPT !.tot = @ + m, !.logged = @ \cup r.log \cup {DATA(r.addr)}])
                           ELSE Set(h, [o EXCEPT !.f = "end", !.logged = @ \cup r.log])
  /\ UNCHANGED <<file, calls>>

\* Mutant: a write that ends inside the file cuts it.
NewSizeCut(size, off) == off

NewSize(size, off) == IF off > size THEN off ELSE size

\* The end of writei(): the inode is written back in any case.  filewrite()
\* goes on when there is more to write and nothing went wrong.
WriteEnd(h) ==
  /\ op[h].f = "end" \/ (op[h].f = "chunk" /\ op[h].tot = Len(op[h].src))
  /\ LET o == op[h] IN
       /\ fs' = [fs EXCEPT !.ino[o.i].size = NewSize(@, o.off + o.tot)]
       /\ file' = IF o.user THEN [file EXCEPT ![h].off = @ + o.tot] ELSE file
       /\ Set(h, IF o.f = "chunk" /\ o.user /\ o.done + o.tot < o.n
                 THEN [Idle EXCEPT !.f = "write", !.n = o.n, !.done = o.done + o.tot] ELSE Idle)
  /\ UNCHANGED calls

\* The entry of inode i in the root directory: its offset, or the size.
EntryOffset(i) ==
  LET c == Contents(fs, ROOTINO)
      at == {k \in DOMAIN c : c[k] = i} IN
  IF at = {} THEN Len(c) ELSE Min(at) - 1

\* A writei() of one entry of the root directory.
SetEntry(h, off, inum) ==
  /\ Call(h) /\ ~Locked(ROOTINO)
  /\ Set(h, [Idle EXCEPT !.f = "chunk", !.user = FALSE, !.i = ROOTINO, !.off = off, !.src = <<inum>>,
                         !.before = Contents(fs, ROOTINO)])
  /\ UNCHANGED <<fs, file>>

\* dirlink(), with a new name for inode i, takes the first empty entry or adds
\* one, which writei() refuses when the directory is as large as a file can be.
Enter(h, i) ==
  \E off \in {EntryOffset(0)} :
    \/ ~Refused(ROOTINO, off, 1) /\ SetEntry(h, off, i)
    \/ Refused(ROOTINO, off, 1) /\ Call(h) /\ ~Locked(ROOTINO) /\ UNCHANGED <<fs, file, op>>

\* sys_unlink() clears an entry.
Erase(h, i) == EntryOffset(i) < fs.ino[ROOTINO].size /\ SetEntry(h, EntryOffset(i), 0)

Next == \E h \in Handles :
  \/ \E i \in Inums : Open(h, i)
  \/ \E n \in 1..MaxWrite : Read(h, n) \/ Write(h, n)
  \/ ReadBlock(h) \/ ReadEnd(h)
  \/ Chunk(h) \/ WriteBlock(h) \/ WriteEnd(h)
  \/ \E i \in Inums \ {ROOTINO} : Enter(h, i) \/ Erase(h, i)

Spec == Init /\ [][Next]_vars

-----------------------------------------------------------------------------
(* Properties.                                                             *)

\* While a writei() is under way nobody else can see the inode.
Visible(i) ==
  LET w == {h \in Handles : op[h].f \in {"chunk", "end"} /\ op[h].i = i} IN
  IF w = {} THEN Contents(fs, i) ELSE op[CHOOSE h \in w : TRUE].before

\* The pieces filewrite() may cut a write of handle h into.
Pieces(h) == {Src(h, n) : n \in 0..max}
Pad(s) == s \o [k \in 1..(BSIZE - (Len(s) % BSIZE)) |-> 0]

Store == INSTANCE FileStore WITH
  content <- [i \in Inums |-> Visible(i)], pos <- file, Data <- Pieces, Directory <- ROOTINO,
  Initial <- [i \in Inums |-> IF i = ROOTINO
                THEN Pad(<<ROOTINO, ROOTINO>> \o [k \in 1..Len(MkFiles) |-> k + 1])
                ELSE MkFiles[i - 1]]

\* What balloc(), bmap(), readi(), writei(), itrunc() and mkfs do to files is
\* what a store of byte sequences does, with calls on several files under way
\* at once, when the disk is full and when a copy fails half way.
FilesAreBytes == Store!Spec

\* The bitmap is exact: a block past the metadata is marked if and only if an
\* inode refers to it, and no block is referred to twice, so that bfree()
\* never meets a free block and two files never share one.
References(i) == [k \in 0..MAXFILE |-> IF k = MAXFILE THEN fs.ino[i].addrs[NDIRECT] ELSE BlockAt(fs, i, k)]
BlocksOwnedOnce ==
  /\ fs.used \ (0..(nmeta - 1)) = UNION {Direct(fs, i) \cup Indirect(fs, i) : i \in Inums}
  /\ \A x, y \in Inums \X (0..MAXFILE) :
       x # y /\ References(x[1])[x[2]] # 0 => References(x[1])[x[2]] # References(y[1])[y[2]]

\* A read returns the bytes at its offset, and finds every block below the
\* size in place: bmap() never allocates for a reader, which has no
\* transaction to log it in.
ReadsAreExact ==
  /\ \A i \in Inums : \A k \in 1..fs.ino[i].size : BlockAt(fs, i, (k - 1) \div BSIZE) # 0
  /\ \A h \in Handles : op[h].f = "read" =>
       op[h].got = SubSeq(Contents(fs, op[h].i), op[h].off + 1, op[h].off + Len(op[h].got))

\* filewrite() cuts a write so that each part logs at most MAXOPBLOCKS blocks
\* (data, bitmap, indirect, inode), whatever the alignment of the offset.
WritesFitLog ==
  \A h \in Handles : op[h].f \in {"chunk", "end"} =>
    Cardinality(op[h].logged \cup {IBLOCK(op[h].i)}) <= MAXOPBLOCKS
=============================================================================
