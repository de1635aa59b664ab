------------------------------ MODULE SysFile -------------------------------
(***************************************************************************)
(* The file system calls of kernel/sysfile.c, path lookup (namex) and iput *)
(* of kernel/fs.c, the file table of kernel/file.c, and what fork() and    *)
(* exit() of kernel/proc.c do to files and directories.                    *)
(*                                                                         *)
(* Processes run concurrently.  A step is what a process does while it     *)
(* holds one inode lock, or itable.lock, or ftable.lock; a lock that the   *)
(* code keeps while it takes another one stays in the state.  The iput()s  *)
(* a process has still to make before it goes on at pc are in puts, since  *)
(* each of them may be the last one and free the inode.  A process at      *)
(* label "user" with no iput() to make has closed its transaction.         *)
(***************************************************************************)
EXTENDS Inode, SequencesExt, TLC

CONSTANTS Calls,      \* Calls[p]: the calls process p makes
          NOFILE,     \* descriptors per process
          NFILE,      \* entries of the file table
          init        \* the first process, which never exits

VARIABLES
  ftab,     \* ftable.file[]: reference count and inode
  ofile,    \* ofile[p][fd]: index into ftab, 0 for a free descriptor
  cwd,      \* cwd[p]: entry of the inode table, 0 when it is given up
  th        \* where each process is, and its local variables

vars == <<disk, itab, ftab, ofile, cwd, th>>

Fds == 1..NOFILE
Files == 1..NFILE
NoFile == [ref |-> 0, ip |-> 0]

\* cur: the inode namex() is at, later dp; ip: the other inode of the call;
\* freeing: how far iput() of Head(puts) has come; orphan: for the properties,
\* whether namex() came to cur by the ".." of a directory that was removed.
NoCall == [f |-> "none", path |-> <<>>, new |-> <<>>, write |-> FALSE]
Idle == [pc |-> "user", call |-> NoCall, path |-> <<>>, name |-> ".",
         cur |-> 0, ip |-> 0, puts |-> <<>>, freeing |-> 0, orphan |-> FALSE]
Absent == [Idle EXCEPT !.pc = "none"]

\* The table after boot: userinit() has looked up "/" for the first process.
BootTable == iget([s \in Slots |-> FreeSlot], ROOTINO)
BootCwd == [p \in Procs |-> IF p = init THEN 1 ELSE 0]
BootThreads == [p \in Procs |-> IF p = init THEN Idle ELSE Absent]

\* mkfs writes the root directory, its own parent.
Init ==
  /\ disk = [i \in Inums |-> IF i = ROOTINO
               THEN [type |-> "dir", nlink |-> 1,
                     ents |-> [NoEntries EXCEPT !["."] = ROOTINO, ![".."] = ROOTINO]]
               ELSE FreeInode]
  /\ itab = BootTable /\ cwd = BootCwd /\ th = BootThreads
  /\ ftab = [f \in Files |-> NoFile]
  /\ ofile = [p \in Procs |-> [fd \in Fds |-> 0]]

-----------------------------------------------------------------------------

\* p is at label l and has no iput() to finish first.
At(p, l) == th[p].pc = l /\ th[p].puts = <<>>

\* p's locals become r, the others stay.
Set(p, r) == th' = [th EXCEPT ![p] = r @@ @]

\* Go on at label l after releasing the references in puts; the other
\* locals are not needed any more.
Leave(p, l, puts) == th' = [th EXCEPT ![p] = [Idle EXCEPT !.pc = l, !.puts = puts]]

\* The same, with ip still in use.
Keep(p, l, ip, puts) == th' = [th EXCEPT ![p] = [Idle EXCEPT !.pc = l, !.ip = ip, !.puts = puts]]

\* iunlockput(ip); iunlockput(dp): the parent is still locked when ip is put.
DpBadNext(p) ==
  th' = [th EXCEPT ![p] = [Idle EXCEPT !.pc = "dpbad", !.cur = th[p].cur, !.puts = <<th[p].ip>>]]

FilesSame == UNCHANGED <<ftab, ofile, cwd>>

-----------------------------------------------------------------------------
(* ilock()                                                                 *)

\* The entry whose lock p waits for, 0 when it waits for none.
LockWanted(p) ==
  CASE th[p].puts # <<>> -> 0
    [] th[p].pc = "namex" -> IF th[p].path = <<>> THEN 0 ELSE th[p].cur
    [] th[p].pc \in {"link", "linkname", "unlink", "create", "open", "chdir", "exec"} -> th[p].cur
    [] th[p].pc \in {"linkbad", "unlink2", "exists", "create2"} -> th[p].ip
    [] OTHER -> 0

\* ilock() gets the lock of an inode that is in use.
CanLock(s) == Unlocked(s) /\ ~NoType(s)

\* It panics on one that is free, with the lock held; the CPU stops there.
IlockPanic(p) ==
  /\ LockWanted(p) # 0 /\ Unlocked(LockWanted(p)) /\ NoType(LockWanted(p))
  /\ itab' = Lock(Loaded(itab, LockWanted(p)), LockWanted(p), p)
  /\ Set(p, [pc |-> "panic"])
  /\ UNCHANGED disk /\ FilesSame

\* for(;;) at the end of panic().
Spin(p) == th[p].pc = "panic" /\ UNCHANGED vars

-----------------------------------------------------------------------------
(* iput(), in the critical sections of itable.lock.                        *)

\* Another reference remains, or the inode has links.
IputDrop(p) ==
  /\ th[p].puts # <<>> /\ th[p].freeing = 0
  /\ LET s == Head(th[p].puts) IN
       /\ ~IsLast(s)
       /\ itab' = DropRef(itab, s)
  /\ Set(p, [puts |-> Tail(th[p].puts)])
  /\ UNCHANGED disk /\ FilesSame

\* The last reference: take the lock, free the inode and its contents.
IputFree(p) ==
  /\ th[p].puts # <<>> /\ th[p].freeing = 0
  /\ LET s == Head(th[p].puts) IN
       /\ IsLast(s) /\ Unlocked(s)
       /\ disk' = FreeOnDisk(disk, s)
       /\ itab' = Lock(itab, s, p)
  /\ Set(p, [freeing |-> 1])
  /\ FilesSame

\* valid = 0; releasesleep().
IputUnlock(p) ==
  /\ th[p].freeing = 1
  /\ LET s == Head(th[p].puts) IN
       itab' = [itab EXCEPT ![s] = [FreeSlot EXCEPT !.inum = itab[s].inum, !.ref = itab[s].ref]]
  /\ Set(p, [freeing |-> 2])
  /\ UNCHANGED disk /\ FilesSame

\* ip->ref--, after itable.lock was taken again.
IputRef(p) ==
  /\ th[p].freeing = 2
  /\ itab' = DropRef(itab, Head(th[p].puts))
  /\ Set(p, [freeing |-> 0, puts |-> Tail(th[p].puts)])
  /\ UNCHANGED disk /\ FilesSame

-----------------------------------------------------------------------------
(* Path lookup.                                                            *)

\* The inode namex() starts from and the table after its iget() or idup().
Absolute(path) == path # <<>> /\ Head(path) = "/"
StartTable(t, p, path) == IF Absolute(path) THEN iget(t, ROOTINO) ELSE idup(t, cwd[p])
StartSlot(t, p, path) == IF Absolute(path) THEN igetSlot(t, ROOTINO) ELSE cwd[p]
Elements(path) == IF Absolute(path) THEN Tail(path) ELSE path

\* nameiparent() or namei() of the call, and where the call goes on.
IsParent(p) == th[p].call.f \in {"unlink", "creat", "mkdir", "mknod"} \/ (th[p].call.f = "link" /\ th[p].ip # 0)
Found(p) == CASE th[p].call.f = "link" -> (IF th[p].ip = 0 THEN "link" ELSE "linkname")
              [] th[p].call.f \in {"creat", "mkdir", "mknod"} -> "create"
              [] OTHER -> th[p].call.f
NotFound(p) == IF th[p].ip # 0 THEN "linkbad" ELSE "user"

\* A system call that names a file: begin_op() and the start of its lookup.
Begin(p) == \E c \in Calls[p] :
  /\ At(p, "user")
  /\ itab' = StartTable(itab, p, c.path)
  /\ Set(p, [pc |-> "namex", call |-> c, path |-> Elements(c.path), cur |-> StartSlot(itab, p, c.path)])
  /\ UNCHANGED disk /\ FilesSame

\* One path element: ilock(ip), dirlookup(ip), iunlockput(ip).
NamexStep(p) ==
  /\ At(p, "namex") /\ th[p].path # <<>> /\ CanLock(th[p].cur)
  /\ LET s == th[p].cur
         t == Loaded(itab, s)
         e == Head(th[p].path)
         rest == Tail(th[p].path)
         next == dirlookup(s, e) IN
       \/ /\ t[s].type # "dir" \/ (~(IsParent(p) /\ rest = <<>>) /\ next = 0)
          /\ itab' = t
          /\ Keep(p, NotFound(p), th[p].ip, <<s>>)
       \/ /\ t[s].type = "dir" /\ IsParent(p) /\ rest = <<>>   \* stop one level early
          /\ itab' = t
          /\ Set(p, [pc |-> Found(p), path |-> <<>>, name |-> e])
       \/ /\ t[s].type = "dir" /\ ~(IsParent(p) /\ rest = <<>>) /\ next # 0
          /\ itab' = iget(t, next)
          /\ Set(p, [path |-> rest, cur |-> igetSlot(t, next), puts |-> <<s>>,
                     orphan |-> e = ".." /\ t[s].nlink = 0])
  /\ UNCHANGED disk /\ FilesSame

\* No element left: namei() is done, nameiparent() fails.
NamexEnd(p) ==
  /\ At(p, "namex") /\ th[p].path = <<>>
  /\ IF IsParent(p) THEN Keep(p, NotFound(p), th[p].ip, <<th[p].cur>>)
                    ELSE Set(p, [pc |-> Found(p)])
  /\ UNCHANGED <<disk, itab>> /\ FilesSame

-----------------------------------------------------------------------------
(* link                                                                    *)

\* sys_link(): the old file gains a link before it gains a name.
Link(p) ==
  /\ At(p, "link") /\ CanLock(th[p].cur)
  /\ LET s == th[p].cur
         t == Loaded(itab, s)
         u == [t EXCEPT ![s].nlink = @ + 1] IN
       \/ /\ t[s].type = "dir"
          /\ itab' = t /\ UNCHANGED disk
          /\ Leave(p, "user", <<s>>)
       \/ /\ t[s].type # "dir"
          /\ disk' = iupdate(disk, u, s)
          /\ itab' = StartTable(u, p, th[p].call.new)
          /\ Set(p, [pc |-> "namex", path |-> Elements(th[p].call.new), ip |-> s,
                     cur |-> StartSlot(u, p, th[p].call.new), orphan |-> FALSE])
  /\ FilesSame

\* dirlink() in the new parent.  It fails when the name is there, or when
\* the directory cannot grow.
LinkName(p) ==
  /\ At(p, "linkname") /\ CanLock(th[p].cur)
  /\ LET dp == th[p].cur IN
       /\ itab' = Loaded(itab, dp)
       /\ \/ /\ dirlookup(dp, th[p].name) = 0
             /\ disk' = dirlink(disk, itab[dp].inum, th[p].name, itab[th[p].ip].inum)
             /\ Leave(p, "user", <<dp, th[p].ip>>)
          \/ /\ UNCHANGED disk
             /\ Keep(p, "linkbad", th[p].ip, <<dp>>)
  /\ FilesSame

\* bad: take the link back.
LinkBad(p) ==
  /\ At(p, "linkbad") /\ CanLock(th[p].ip)
  /\ LET t == [Loaded(itab, th[p].ip) EXCEPT ![th[p].ip].nlink = @ - 1] IN
       /\ itab' = t
       /\ disk' = iupdate(disk, t, th[p].ip)
  /\ Leave(p, "user", <<th[p].ip>>)
  /\ FilesSame

-----------------------------------------------------------------------------
(* unlink                                                                  *)

\* Mutant: "." and ".." can be unlinked.
CanUnlinkAny(name) == TRUE

\* sys_unlink() refuses "." and "..".
CanUnlink(name) == name \in Names

\* sys_unlink(): lock the parent and find the file.
Unlink(p) ==
  /\ At(p, "unlink") /\ CanLock(th[p].cur)
  /\ LET dp == th[p].cur
         t == Loaded(itab, dp)
         inum == dirlookup(dp, th[p].name)
         found == CanUnlink(th[p].name) /\ inum # 0 IN
       \/ /\ ~found
          /\ itab' = t
          /\ Leave(p, "user", <<dp>>)
       \/ /\ found
          /\ itab' = iget(Lock(t, dp, p), inum)
          /\ Set(p, [pc |-> "unlink2", ip |-> igetSlot(t, inum)])
  /\ UNCHANGED disk /\ FilesSame

\* Lock the file.  A directory must be empty; then the name is erased, with
\* the parent's link for "..", and the parent is given up.
Unlink2(p) ==
  /\ At(p, "unlink2") /\ CanLock(th[p].ip)
  /\ LET dp == th[p].cur
         ip == th[p].ip
         t == Loaded(itab, ip)
         isDir == t[ip].type = "dir"
         u == IF isDir THEN [t EXCEPT ![dp].nlink = @ - 1] ELSE t IN
       \/ /\ isDir /\ ~isdirempty(ip)
          /\ itab' = t /\ UNCHANGED disk
          /\ DpBadNext(p)
       \/ /\ ~isDir \/ isdirempty(ip)
          /\ disk' = iupdate(dirlink(disk, itab[dp].inum, th[p].name, 0), u, dp)
          /\ itab' = iunlock(Lock(u, ip, p), dp)
          /\ Keep(p, "unlink3", ip, <<dp>>)
  /\ FilesSame

\* ip->nlink--; iupdate(ip); iunlockput(ip).
Unlink3(p) ==
  /\ At(p, "unlink3")
  /\ LET t == [itab EXCEPT ![th[p].ip].nlink = @ - 1] IN
       /\ disk' = iupdate(disk, t, th[p].ip)
       /\ itab' = iunlock(t, th[p].ip)
  /\ Leave(p, "user", <<th[p].ip>>)
  /\ FilesSame

\* iunlockput(dp) on the failure paths of sys_unlink() and create().
DpBad(p) ==
  /\ At(p, "dpbad")
  /\ itab' = iunlock(itab, th[p].cur)
  /\ Leave(p, "user", <<th[p].cur>>)
  /\ UNCHANGED disk /\ FilesSame

-----------------------------------------------------------------------------
(* create(), for open(O_CREATE), mkdir and mknod                           *)

CreateType(p) == CASE th[p].call.f = "mkdir" -> "dir" [] th[p].call.f = "mknod" -> "dev" [] OTHER -> "file"

\* Lock the parent.  The name may exist; otherwise an inode is allocated.
Create(p) ==
  /\ At(p, "create") /\ CanLock(th[p].cur)
  /\ LET dp == th[p].cur
         t == Loaded(itab, dp)
         inum == dirlookup(dp, th[p].name) IN
       \/ /\ inum # 0
          /\ itab' = iget(t, inum) /\ UNCHANGED disk
          /\ Set(p, [pc |-> "exists", cur |-> 0, ip |-> igetSlot(t, inum), puts |-> <<dp>>])
       \/ /\ inum = 0 /\ FreeInums = {}
          /\ itab' = t /\ UNCHANGED disk
          /\ Leave(p, "user", <<dp>>)
       \/ /\ inum = 0 /\ FreeInums # {}
          /\ disk' = ialloc(CreateType(p))
          /\ itab' = iget(Lock(t, dp, p), Min(FreeInums))
          /\ Set(p, [pc |-> "create2", ip |-> igetSlot(t, Min(FreeInums))])
  /\ FilesSame

\* open(O_CREATE) takes an existing file or device, locked.
Exists(p) ==
  /\ At(p, "exists") /\ CanLock(th[p].ip)
  /\ LET ip == th[p].ip
         t == Loaded(itab, ip) IN
       \/ /\ th[p].call.f = "creat" /\ t[ip].type \in {"file", "dev"}
          /\ itab' = Lock(t, ip, p)
          /\ Keep(p, "opened", ip, <<>>)
       \/ /\ ~(th[p].call.f = "creat" /\ t[ip].type \in {"file", "dev"})
          /\ itab' = t
          /\ Leave(p, "user", <<ip>>)
  /\ UNCHANGED disk /\ FilesSame

\* The entries create() makes in a new directory, as far as it gets.
Dots(p) == IF CreateType(p) = "dir" THEN {{}, {"."}, {".", ".."}} ELSE {{}}
WithDots(d, dots, i, parent) ==
  [d EXCEPT ![i].ents = [n \in AllNames |-> IF n \notin dots THEN @[n] ELSE IF n = "." THEN i ELSE parent]]

\* The new inode gets one link, a new directory its entries, the parent the
\* name (and a link for ".."); when a dirlink() fails, nlink = 0 and the
\* iput() frees the inode.
Create2(p) ==
  /\ At(p, "create2") /\ CanLock(th[p].ip)
  /\ LET dp == th[p].cur
         ip == th[p].ip
         i == itab[ip].inum
         t == [Loaded(itab, ip) EXCEPT ![ip].nlink = 1]
         u == IF CreateType(p) = "dir" THEN [t EXCEPT ![dp].nlink = @ + 1] ELSE t
         bad == [t EXCEPT ![ip].nlink = 0] IN
       \/ LET d == dirlink(WithDots(iupdate(disk, u, ip), UNION Dots(p), i, itab[dp].inum),
                           itab[dp].inum, th[p].name, i) IN
          /\ disk' = iupdate(d, u, dp)
          /\ itab' = iunlock(Lock(u, ip, p), dp)
          /\ Keep(p, IF th[p].call.f = "creat" THEN "opened" ELSE "made", ip, <<dp>>)
       \/ \E dots \in Dots(p) :
          /\ disk' = WithDots(iupdate(disk, bad, ip), dots, i, itab[dp].inum)
          /\ itab' = bad
          /\ DpBadNext(p)
  /\ FilesSame

\* mkdir and mknod: iunlockput(ip).
Made(p) ==
  /\ At(p, "made")
  /\ itab' = iunlock(itab, th[p].ip)
  /\ Leave(p, "user", <<th[p].ip>>)
  /\ UNCHANGED disk /\ FilesSame

-----------------------------------------------------------------------------
(* open, chdir, exec                                                       *)

\* sys_open() without O_CREATE: a directory can only be read.
Open(p) ==
  /\ At(p, "open") /\ CanLock(th[p].cur)
  /\ LET s == th[p].cur
         t == Loaded(itab, s) IN
       \/ /\ t[s].type = "dir" /\ th[p].call.write
          /\ itab' = t
          /\ Leave(p, "user", <<s>>)
       \/ /\ t[s].type # "dir" \/ ~th[p].call.write
          /\ itab' = Lock(t, s, p)
          /\ Keep(p, "opened", s, <<>>)
  /\ UNCHANGED disk /\ FilesSame

FreeFiles == {f \in Files : ftab[f].ref = 0}
FreeFds(p) == {fd \in Fds : ofile[p][fd] = 0}

\* The rest of sys_open(), with the inode locked: the file takes over the
\* reference.  There may be no file or no descriptor left, or the major
\* number of a device may be bad.
Opened(p) ==
  /\ At(p, "opened")
  /\ LET ip == th[p].ip IN
       /\ itab' = iunlock(itab, ip)
       /\ \/ /\ FreeFiles # {} /\ FreeFds(p) # {}
             /\ ftab' = [ftab EXCEPT ![Min(FreeFiles)] = [ref |-> 1, ip |-> ip]]
             /\ ofile' = [ofile EXCEPT ![p][Min(FreeFds(p))] = Min(FreeFiles)]
             /\ Leave(p, "user", <<>>)
          \/ /\ FreeFiles = {} \/ FreeFds(p) = {} \/ itab[ip].type = "dev"
             /\ UNCHANGED <<ftab, ofile>>
             /\ Leave(p, "user", <<ip>>)
  /\ UNCHANGED <<disk, cwd>>

\* sys_chdir(): give up the old directory, then enter the new one.
Chdir(p) ==
  /\ At(p, "chdir") /\ CanLock(th[p].cur)
  /\ LET s == th[p].cur
         t == Loaded(itab, s) IN
       /\ itab' = t
       /\ \/ /\ t[s].type # "dir"
             /\ Leave(p, "user", <<s>>)
             /\ UNCHANGED cwd
          \/ /\ t[s].type = "dir"
             /\ cwd' = [cwd EXCEPT ![p] = 0]
             /\ Keep(p, "chdir2", s, <<cwd[p]>>)
  /\ UNCHANGED <<disk, ftab, ofile>>

Chdir2(p) ==
  /\ At(p, "chdir2")
  /\ cwd' = [cwd EXCEPT ![p] = th[p].ip]
  /\ Leave(p, "user", <<>>)
  /\ UNCHANGED <<disk, itab, ftab, ofile>>

\* exec(): the program is read under its lock, then given up.
Exec(p) ==
  /\ At(p, "exec") /\ CanLock(th[p].cur)
  /\ itab' = Loaded(itab, th[p].cur)
  /\ Leave(p, "user", <<th[p].cur>>)
  /\ UNCHANGED disk /\ FilesSame

-----------------------------------------------------------------------------
(* Descriptors, fork and exit.                                             *)

filedup(t, f) == [t EXCEPT ![f].ref = @ + 1]

Dup(p) == \E fd \in Fds :
  /\ At(p, "user") /\ ofile[p][fd] # 0 /\ FreeFds(p) # {}
  /\ ofile' = [ofile EXCEPT ![p][Min(FreeFds(p))] = ofile[p][fd]]
  /\ ftab' = filedup(ftab, ofile[p][fd])
  /\ UNCHANGED <<disk, itab, cwd, th>>

\* filestat(), fileread() and filewrite() lock the inode of the file.
Stat(p) == \E fd \in Fds :
  /\ At(p, "user") /\ ofile[p][fd] # 0
  /\ LET s == ftab[ofile[p][fd]].ip IN CanLock(s) /\ itab' = Loaded(itab, s)
  /\ UNCHANGED <<disk, th>> /\ FilesSame

\* fileclose() of a descriptor; the last one gives up the inode, in a
\* transaction of its own.
fileclose(p, fd, l, last) ==
  LET f == ofile[p][fd] IN
  /\ ofile' = [ofile EXCEPT ![p][fd] = 0]
  /\ IF ftab[f].ref > 1
     THEN /\ ftab' = [ftab EXCEPT ![f].ref = @ - 1]
          /\ Leave(p, l, <<>>)
     ELSE /\ ftab' = [ftab EXCEPT ![f] = NoFile]
          /\ Leave(p, last, <<ftab[f].ip>>)
  /\ UNCHANGED <<disk, itab, cwd>>

Close(p) == \E fd \in Fds : At(p, "user") /\ ofile[p][fd] # 0 /\ fileclose(p, fd, "user", "user")

\* fork(): the child shares the open files and the current directory.
Fork(p, q) ==
  /\ At(p, "user") /\ At(q, "none")
  /\ ofile' = [ofile EXCEPT ![q] = ofile[p]]
  /\ ftab' = [f \in Files |-> [ftab[f] EXCEPT !.ref = @ + Cardinality({fd \in Fds : ofile[p][fd] = f})]]
  /\ cwd' = [cwd EXCEPT ![q] = cwd[p]]
  /\ itab' = idup(itab, cwd[p])
  /\ th' = [th EXCEPT ![q] = Idle]
  /\ UNCHANGED <<disk>>

\* exit(): close the descriptors in order, then give up the directory.  The
\* slot of the process can be used again once its parent has waited.
OpenFds(p) == {fd \in Fds : ofile[p][fd] # 0}

Exit(p) ==
  /\ At(p, "user") /\ p # init
  /\ Leave(p, "exit", <<>>)
  /\ UNCHANGED <<disk, itab>> /\ FilesSame

ExitClose(p) == At(p, "exit") /\ OpenFds(p) # {} /\ fileclose(p, Min(OpenFds(p)), "exit", "exit")

ExitCwd(p) ==
  /\ At(p, "exit") /\ OpenFds(p) = {}
  /\ cwd' = [cwd EXCEPT ![p] = 0]
  /\ Leave(p, "none", <<cwd[p]>>)
  /\ UNCHANGED <<disk, itab, ftab, ofile>>

\* No transaction is open.
Quiescent == \A p \in Procs : th[p].puts = <<>> /\ th[p].pc \in {"user", "none", "exit"}

-----------------------------------------------------------------------------

Next ==
  \/ \E p \in Procs :
       \/ IlockPanic(p) \/ Spin(p)
       \/ Begin(p) \/ NamexStep(p) \/ NamexEnd(p)
       \/ IputDrop(p) \/ IputFree(p) \/ IputUnlock(p) \/ IputRef(p)
       \/ Link(p) \/ LinkName(p) \/ LinkBad(p)
       \/ Unlink(p) \/ Unlink2(p) \/ Unlink3(p) \/ DpBad(p)
       \/ Create(p) \/ Exists(p) \/ Create2(p) \/ Made(p)
       \/ Open(p) \/ Opened(p) \/ Chdir(p) \/ Chdir2(p) \/ Exec(p)
       \/ Dup(p) \/ Stat(p) \/ Close(p)
       \/ Exit(p) \/ ExitClose(p) \/ ExitCwd(p)
  \/ \E p, q \in Procs : Fork(p, q)

Spec == Init /\ [][Next]_vars

-----------------------------------------------------------------------------
(* Properties.                                                             *)

Puts == UNION {{p} \X DOMAIN th[p].puts : p \in Procs}

\* The number of C pointers that hold entry s of the inode table.
Pointers(s) ==
    Cardinality({p \in Procs : cwd[p] = s}) + Cardinality({p \in Procs : th[p].cur = s})
  + Cardinality({p \in Procs : th[p].ip = s}) + Cardinality({f \in Files : ftab[f].ip = s})
  + Cardinality({x \in Puts : th[x[1]].puts[x[2]] = s})

\* ip->ref counts the pointers to an entry of the inode table (current
\* directories, open files, local variables of calls under way) and f->ref
\* the descriptors of a file, whatever iget(), idup(), iput(), filedup(),
\* fileclose(), fork(), exit() and the failure paths of the calls do.
RefsExact ==
  /\ \A s \in Slots : itab[s].ref = Pointers(s)
  /\ \A f \in Files : ftab[f].ref = Cardinality({x \in Procs \X Fds : ofile[x[1]][x[2]] = f})

\* iget() gives an inode one entry at most, and a valid entry that nobody has
\* locked agrees with the disk: every change is followed by iupdate() before
\* the lock is released, and iput() clears valid before an inode is reused.
TableCoherent ==
  \A s \in Slots : itab[s].ref > 0 =>
    /\ InTable(itab, itab[s].inum) = {s}
    /\ itab[s].valid /\ Unlocked(s) =>
         itab[s].type = disk[itab[s].inum].type /\ itab[s].nlink = disk[itab[s].inum].nlink

\* The names that lead to inode i and, in a directory, its subdirectories.
NamesOf(i) == {x \in Inums \X Names : disk[x[1]].ents[x[2]] = i}
Subdirs(i) == {n \in Names : disk[i].ents[n] # 0 /\ disk[disk[i].ents[n]].type = "dir"}

\* nlink never falls below the number of names of an inode (and, for a
\* directory, of its subdirectories), at no point of link, unlink and create:
\* no name is left that leads to an inode that iput() frees or create() takes.
NamesCounted ==
  \A i \in Inums :
    disk[i].nlink >= Cardinality(NamesOf(i)) + (IF disk[i].type = "dir" THEN Cardinality(Subdirs(i)) ELSE 0)

\* "iput() frees if the reference and link counts have fallen to zero": outside
\* transactions, an allocated inode without links is in use.
UnlinkedFreed ==
  Quiescent =>
    \A i \in Inums : disk[i].type # "none" /\ disk[i].nlink = 0 => InTable(itab, i) # {}

WaitsFor(p, q) == LET s == LockWanted(p) IN s # 0 /\ itab[s].lock = q

\* Processes never wait for inode locks in a circle: namex() holds one lock
\* at a time, unlink and create lock a parent before its child.
NoLockCycle == \A p, q \in Procs : ~(WaitsFor(p, q) /\ WaitsFor(q, p))

\* The conditions on which the code panics: ilock() of a free inode,
\* dirlookup() in a file, unlink() of a file without links, and an iput() that
\* would sleep for the lock of an inode with one reference while it holds
\* itable.lock ("so this acquiresleep() won't block").
FsPanics(p) ==
  \/ /\ LockWanted(p) # 0 /\ Unlocked(LockWanted(p)) /\ NoType(LockWanted(p))
     /\ ~th[p].orphan
  \/ /\ th[p].pc \in {"linkname", "unlink", "create"} /\ th[p].puts = <<>>
     /\ itab[th[p].cur].type # "dir"
  \/ At(p, "unlink2") /\ Unlocked(th[p].ip) /\ Loaded(itab, th[p].ip)[th[p].ip].nlink < 1
  \/ /\ th[p].puts # <<>> /\ th[p].freeing = 0
     /\ IsLast(Head(th[p].puts)) /\ ~Unlocked(Head(th[p].puts))

\* These four panics of fs.c and sysfile.c are not reached, with one exception:
\* the ".." of a directory that was removed while in use leads to an inode that
\* may be free by then, and ilock() panics ("ilock: no type").
NoFsPanic == \A p \in Procs : ~FsPanics(p)
=============================================================================
