------------------------------- MODULE Inode --------------------------------
(***************************************************************************)
(* The inodes of kernel/fs.c: the inode table in memory (iget, idup,       *)
(* ilock, iupdate, iput), the inodes and the directories on disk (ialloc,  *)
(* itrunc, dirlookup, dirlink), as functions of the table and of the disk. *)
(* SysFile makes steps of them.                                            *)
(*                                                                         *)
(* The disk is what the buffer cache shows.  A directory is the function   *)
(* from names to inode numbers that its entries stand for, 0 for no entry; *)
(* the blocks that hold entries and data are in FileData.                  *)
(***************************************************************************)
EXTENDS Naturals, Sequences, FiniteSets, FiniteSetsExt

CONSTANTS Procs, None,
          Names,      \* names of files, "." and ".." apart
          ninodes,    \* sb.ninodes: inode numbers are below it
          NINODE      \* entries of the inode table

ASSUME InodeAssumption ==
  /\ None \notin Procs
  /\ ninodes \in Nat \ {0, 1} /\ NINODE \in Nat \ {0}

VARIABLES
  disk,   \* disk[i]: inode i on disk, and the directory it holds
  itab    \* itable.inode[]

Inums == 1..(ninodes - 1)
Slots == 1..NINODE
ROOTINO == 1

AllNames == Names \cup {".", ".."}
NoEntries == [n \in AllNames |-> 0]

\* An inode that ialloc() may take; an entry of the table nobody refers to.
\* What such an entry still holds is never read, so it is not kept.
FreeInode == [type |-> "none", nlink |-> 0, ents |-> NoEntries]
FreeSlot == [inum |-> 0, ref |-> 0, valid |-> FALSE, type |-> "none", nlink |-> 0, lock |-> None]

-----------------------------------------------------------------------------
(* The table.                                                              *)

InTable(t, inum) == {s \in Slots : t[s].ref > 0 /\ t[s].inum = inum}

\* Mutant: iget() takes the first entry that is unused or has the number.
igetSlotFirst(t, inum) == Min({s \in Slots : t[s].ref = 0 \/ t[s].inum = inum})

\* The entry iget() returns: the one of that inode, or the first unused one.
igetSlot(t, inum) ==
  IF InTable(t, inum) # {} THEN Min(InTable(t, inum)) ELSE Min({s \in Slots : t[s].ref = 0})

iget(t, inum) ==
  LET s == igetSlot(t, inum) IN
  IF t[s].ref > 0 THEN [t EXCEPT ![s].ref = @ + 1]
                  ELSE [t EXCEPT ![s] = [FreeSlot EXCEPT !.inum = inum, !.ref = 1]]

\* Mutant: idup() forgets to count.
idupNoCount(t, s) == t

idup(t, s) == [t EXCEPT ![s].ref = @ + 1]

\* What ilock() does once it has the lock: read the inode if that was not done.
Loaded(t, s) ==
  IF t[s].valid THEN t
  ELSE [t EXCEPT ![s].valid = TRUE, ![s].type = disk[t[s].inum].type, ![s].nlink = disk[t[s].inum].nlink]

\* ilock() of a free inode panics: "ilock: no type".
NoType(s) == ~itab[s].valid /\ disk[itab[s].inum].type = "none"

iupdate(d, t, s) == [d EXCEPT ![t[s].inum].type = t[s].type, ![t[s].inum].nlink = t[s].nlink]

Unlocked(s) == itab[s].lock = None
Lock(t, s, p) == [t EXCEPT ![s].lock = p]
iunlock(t, s) == [t EXCEPT ![s].lock = None]

\* Mutants: iput() forgets to look at the other references, or at the links.
IsLastAnyRef(s) == itab[s].valid /\ itab[s].nlink = 0
IsLastLinked(s) == itab[s].ref = 1 /\ itab[s].valid

\* The last reference to an inode without links: iput() will free it.
IsLast(s) == itab[s].ref = 1 /\ itab[s].valid /\ itab[s].nlink = 0

\* itrunc(ip); ip->type = 0; iupdate(ip).
FreeOnDisk(d, s) == [d EXCEPT ![itab[s].inum] = FreeInode]

\* ip->ref--.
DropRef(t, s) == IF t[s].ref = 1 THEN [t EXCEPT ![s] = FreeSlot] ELSE [t EXCEPT ![s].ref = @ - 1]

-----------------------------------------------------------------------------
(* Allocation and directories.                                             *)

FreeInums == {i \in Inums : disk[i].type = "none"}

\* ialloc() takes the first free inode; it writes it whole.
ialloc(type) == [disk EXCEPT ![Min(FreeInums)] = [FreeInode EXCEPT !.type = type]]

\* dirlookup() in the directory in entry s: an inode number, or 0.
dirlookup(s, name) == disk[itab[s].inum].ents[name]

dirlink(d, dir, name, inum) == [d EXCEPT ![dir].ents[name] = inum]

isdirempty(s) == \A n \in Names : dirlookup(s, n) = 0
=============================================================================
