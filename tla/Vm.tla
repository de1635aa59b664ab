-------------------------------- MODULE Vm ----------------------------------
(***************************************************************************)
(* Physical pages and page tables: kernel/kalloc.c, the user part of       *)
(* kernel/vm.c, exec() of kernel/exec.c, and what proc.c and sysfile.c do  *)
(* to memory in allocproc(), freeproc(), growproc(), fork() and            *)
(* sys_exec().                                                             *)
(*                                                                         *)
(* Processes share the list of free pages.  An operation takes pages one   *)
(* round of its loop after the other, so that any of its calls of kalloc() *)
(* may find the list empty; what it holds until then is in op[p].          *)
(*                                                                         *)
(* A page table is the pages it is made of and the pages it maps; a page   *)
(* that it maps has PGSIZE bytes.  Page numbers stand for the addresses of *)
(* pages.                                                                  *)
(***************************************************************************)
EXTENDS Integers, Sequences, FiniteSets, FiniteSetsExt, SequencesExt

CONSTANTS Procs, init,
          PGSIZE, NPTE, LEVELS, \* bytes of a page; entries (512) and levels (3) of a page table
          Pages, MemorySizes,   \* pages after end[]; how many of them a machine may have
          WRAP,                 \* sizes are counted modulo WRAP (2^64)
          STACKALIGN,           \* alignment of the stack pointer (16)
          MAXARG,               \* bound on the arguments of exec()
          SbrkArgs,             \* arguments of sbrk()
          Programs,             \* segments of the programs that exec() loads
          Args,                 \* argument lists: the length of each string
          WriteAddrs,           \* addresses that programs store to
          MaxSize,              \* bound on the size of a process
          MaxCalls              \* bound on the number of operations

VARIABLES
  free,   \* kmem.freelist
  bytes,  \* bytes[pa]: contents of a page of user memory
  panic,  \* whether the kernel panicked
  proc,   \* proc[p]: page table, trapframe and size; trapframe 0 for no process
  op,     \* op[p]: the operation that p is in
  calls   \* number of operations so far

vars == <<free, bytes, panic, proc, op, calls>>

Cells == 0..(PGSIZE - 1)
MAXVA == PGSIZE * NPTE ^ LEVELS
TRAMPOLINE == NPTE ^ LEVELS - 1    \* page numbers of the virtual addresses
TRAPFRAME == TRAMPOLINE - 1
trampoline == 0                    \* the page of trampoline.S is not in the free list

PGROUNDUP(sz) == ((sz + PGSIZE - 1) \div PGSIZE) * PGSIZE
Fill(x) == [c \in Cells |-> x]
Junk == Fill(99)

\* The virtual pages from address a up to address b, as loops over pages count.
Vpns(a, b) == (PGROUNDUP(a) \div PGSIZE)..(PGROUNDUP(b) \div PGSIZE - 1)

-----------------------------------------------------------------------------
(* Page tables.  dir[<<l, n>>] is the table of level l for the virtual      *)
(* pages v with v \div NPTE^l = n; leaf[v] is what v maps to.               *)

NoTable == [root |-> 0, dir |-> <<>>, leaf |-> <<>>]
NoLeaf == [pa |-> 0, u |-> FALSE]
Leaf(pt, v) == IF v \in DOMAIN pt.leaf THEN pt.leaf[v] ELSE NoLeaf

Tables(pt) == {pt.root} \cup {pt.dir[x] : x \in DOMAIN pt.dir}
UserPages(pt, vs) == {pt.leaf[v].pa : v \in vs \cap DOMAIN pt.leaf}

\* The page that kalloc() takes from a list that is not empty.
kalloc(fr) == Min(fr)

\* walk(): the tables of each level for v, allocated when they are missing.
WalkLevel(w, x) ==
  IF ~w.ok \/ x \in DOMAIN w.pt.dir THEN w
  ELSE IF w.free = {} THEN [w EXCEPT !.ok = FALSE]
  ELSE [w EXCEPT !.pt.dir = [y \in DOMAIN @ \cup {x} |-> IF y = x THEN kalloc(w.free) ELSE @[y]],
                 !.free = @ \ {kalloc(@)}]
walk(pt, fr, v) ==
  FoldLeft(WalkLevel, [pt |-> pt, free |-> fr, ok |-> TRUE],
           [k \in 1..(LEVELS - 1) |-> <<LEVELS - k, v \div NPTE ^ (LEVELS - k)>>])

\* mappages() of one page, as every caller but kvmmap() uses it, in a table
\* that walk() has been through.
mappages(w, v, pa, u) ==
  IF ~w.ok THEN w
  ELSE [w EXCEPT !.pt.leaf = [y \in DOMAIN @ \cup {v} |-> IF y = v THEN [pa |-> pa, u |-> u] ELSE @[y]]]

Unmap(pt, vs) == [pt EXCEPT !.leaf = [v \in DOMAIN @ \ vs |-> @[v]]]

\* walkaddr(): the page of a user address, or 0.
walkaddr(pt, va) ==
  IF va >= MAXVA \/ ~Leaf(pt, va \div PGSIZE).u THEN 0 ELSE Leaf(pt, va \div PGSIZE).pa

\* A new page mapped at v, as a round of uvmalloc() and of uvmcopy() does it;
\* when there is no table for it the page is freed again.
MapNew(pt, v, u) ==
  IF free = {} THEN [pt |-> pt, free |-> free, ok |-> FALSE, pa |-> 0]
  ELSE LET pa == kalloc(free)
           w == mappages(walk(pt, free \ {pa}, v), v, pa, u) IN
       [pt |-> w.pt, ok |-> w.ok, pa |-> pa, free |-> IF w.ok THEN w.free ELSE w.free \cup {pa}]

\* uvmfree() of a table without memory: freewalk() panics when it has a leaf.
uvmfree(pt, fr) == [pt |-> NoTable, free |-> fr \cup Tables(pt), sound |-> DOMAIN pt.leaf = {}]

\* proc_pagetable(): the trampoline and the trapframe.  When memory runs out
\* for the second, the first is unmapped before the tables are freed.
proc_pagetable(fr, tf) ==
  IF fr = {} THEN [pt |-> NoTable, free |-> fr, sound |-> TRUE]
  ELSE LET w == walk([NoTable EXCEPT !.root = kalloc(fr)], fr \ {kalloc(fr)}, TRAMPOLINE)
           x == mappages(w, TRAMPOLINE, trampoline, FALSE)
           y == mappages(walk(x.pt, x.free, TRAPFRAME), TRAPFRAME, tf, FALSE) IN
       IF ~w.ok THEN uvmfree(w.pt, w.free)
       ELSE IF ~y.ok THEN uvmfree(Unmap(y.pt, {TRAMPOLINE}), y.free)
       ELSE [pt |-> y.pt, free |-> y.free, sound |-> TRUE]

\* proc_freepagetable() for a size: the pages it frees, and whether
\* uvmunmap() and freewalk() find the leaves they expect.
FreedBy(pt, sz) == IF pt = NoTable THEN {} ELSE Tables(pt) \cup UserPages(pt, Vpns(0, sz))
Sound(pt, sz) == pt = NoTable \/ DOMAIN pt.leaf = Vpns(0, sz) \cup {TRAMPOLINE, TRAPFRAME}

Freed(fr, pages) ==
  /\ free' = fr \cup pages
  /\ bytes' = [pa \in Pages |-> IF pa \in pages THEN Junk ELSE bytes[pa]]
PanicUnless(b) == panic' = ~b

-----------------------------------------------------------------------------
(* Copies between the kernel and a user address space, a page at a time.   *)

\* The part of a copy of `left` bytes that is in the page of va.
InPage(va, left) == LET n == PGSIZE - (va % PGSIZE) IN IF n > left THEN left ELSE n
CopyRounds(n) == [k \in 1..(n \div PGSIZE + 2) |-> k]

\* st.done bytes of src are copied, into st.bytes.
CopyOutPage(pt, va, src, st) ==
  LET a == va + st.done
      n == InPage(a, Len(src) - st.done)
      pa == walkaddr(pt, a) IN
  IF st.done = Len(src) \/ ~st.ok THEN st
  ELSE IF pa = 0 THEN [st EXCEPT !.ok = FALSE]
  ELSE [bytes |-> [st.bytes EXCEPT ![pa] = [c \in Cells |->
                     LET k == c - (a % PGSIZE) IN IF k >= 0 /\ k < n THEN src[st.done + 1 + k] ELSE @[c]]],
        done |-> st.done + n, ok |-> TRUE]

copyout(bs, pt, va, src) ==
  FoldLeft(LAMBDA st, k : CopyOutPage(pt, va, src, st), [bytes |-> bs, done |-> 0, ok |-> TRUE], CopyRounds(Len(src)))

\* The bytes of a page from va on, n of them.
PageBytes(pt, va, n) == [k \in 1..n |-> bytes[walkaddr(pt, va)][(va % PGSIZE) + k - 1]]

CopyInPage(pt, va, len, st) ==
  LET a == va + Len(st.got) IN
  IF Len(st.got) = len \/ ~st.ok THEN st
  ELSE IF walkaddr(pt, a) = 0 THEN [st EXCEPT !.ok = FALSE]
  ELSE [st EXCEPT !.got = @ \o PageBytes(pt, a, InPage(a, len - Len(@)))]

copyin(pt, va, len) ==
  FoldLeft(LAMBDA st, k : CopyInPage(pt, va, len, st), [got |-> <<>>, ok |-> TRUE], CopyRounds(len))

\* copyinstr(): up to a zero byte or max bytes; the zero is the last of got.
UpToZero(s) == LET zeros == {k \in DOMAIN s : s[k] = 0} IN IF zeros = {} THEN s ELSE SubSeq(s, 1, Min(zeros))
Ended(s) == s # <<>> /\ Last(s) = 0
CopyInStrPage(pt, va, max, st) ==
  LET a == va + Len(st.got) IN
  IF Len(st.got) = max \/ ~st.ok \/ Ended(st.got) THEN st
  ELSE IF walkaddr(pt, a) = 0 THEN [st EXCEPT !.ok = FALSE]
  ELSE [st EXCEPT !.got = @ \o UpToZero(PageBytes(pt, a, InPage(a, max - Len(@))))]

copyinstr(pt, va, max) ==
  FoldLeft(LAMBDA s, k : CopyInStrPage(pt, va, max, s), [got |-> <<>>, ok |-> TRUE], CopyRounds(max))

-----------------------------------------------------------------------------
(* Processes.                                                              *)

Unused == [pt |-> NoTable, tf |-> 0, sz |-> 0]

\* f: the loop the operation is in; q, tf: the process that fork() makes and
\* its trapframe; pt: the page table it builds; i: the next virtual page, base
\* and end: where uvmalloc() began and the size it is asked for; sz: `sz` of
\* exec(), k: the next segment; argv: the pages sys_exec() holds.
Idle == [f |-> "none", q |-> {}, tf |-> 0, pt |-> NoTable, base |-> 0, i |-> 0, end |-> 0,
         sz |-> 0, k |-> 1, prog |-> <<>>, args |-> <<>>, argv |-> {}]
Set(p, o) == op' = [op EXCEPT ![p] = o]

\* allocproc(): a trapframe and a page table.  Without the table, freeproc()
\* frees the trapframe.
allocproc(fr) ==
  IF fr = {} THEN [pt |-> NoTable, tf |-> 0, free |-> fr, sound |-> TRUE]
  ELSE LET tf == kalloc(fr)
           t == proc_pagetable(fr \ {tf}, tf) IN
       IF t.pt = NoTable THEN [pt |-> NoTable, tf |-> 0, free |-> t.free \cup {tf}, sound |-> t.sound]
       ELSE [pt |-> t.pt, tf |-> tf, free |-> t.free, sound |-> t.sound]

\* userinit() and uvmfirst(): one page, with the code at 0.
Init == \E n \in MemorySizes : \E a \in {allocproc(1..n)} :
  \E w \in {mappages(walk(a.pt, a.free \ {kalloc(a.free)}, 0), 0, kalloc(a.free), TRUE)} :
    /\ free = w.free /\ panic = FALSE /\ calls = 0
    /\ bytes = [pa \in Pages |-> IF pa = kalloc(a.free) THEN Fill(1) ELSE Junk]
    /\ proc = [p \in Procs |-> IF p = init THEN [pt |-> w.pt, tf |-> a.tf, sz |-> PGSIZE] ELSE Unused]
    /\ op = [p \in Procs |-> Idle]

\* A process without memory cannot return to user space: it is killed.
Used(p) == proc[p].tf # 0
Count == calls < MaxCalls /\ calls' = calls + 1
Call(p) == Count /\ proc[p].sz # 0 /\ op[p] = Idle

\* fork(): allocproc(), then uvmcopy() round by round.
Fork(p, q) ==
  /\ Call(p) /\ ~Used(q) /\ \A r \in Procs : q \notin op[r].q
  /\ \E a \in {allocproc(free)} :
       /\ free' = a.free /\ PanicUnless(a.sound)
       /\ Set(p, IF a.pt = NoTable THEN Idle ELSE [Idle EXCEPT !.f = "copy", !.q = {q}, !.tf = a.tf, !.pt = a.pt])
  /\ UNCHANGED <<bytes, proc>>

\* When memory runs out, uvmcopy() unmaps what it has copied and freeproc()
\* frees the rest.
CopyPage(p) ==
  /\ op[p].f = "copy" /\ op[p].i * PGSIZE < proc[p].sz
  /\ LET i == op[p].i
         old == Leaf(proc[p].pt, i) IN
     \E g \in {MapNew(op[p].pt, i, old.u)} :
       \/ /\ g.ok /\ free' = g.free
          /\ bytes' = [bytes EXCEPT ![g.pa] = bytes[old.pa]]
          /\ Set(p, [op[p] EXCEPT !.pt = g.pt, !.i = i + 1])
          /\ PanicUnless(old # NoLeaf /\ i \notin DOMAIN op[p].pt.leaf)
       \/ /\ ~g.ok /\ Freed(g.free, FreedBy(g.pt, i * PGSIZE) \cup {op[p].tf})
          /\ Set(p, Idle) /\ PanicUnless(Sound(g.pt, i * PGSIZE))
  /\ UNCHANGED <<proc, calls>>

ForkEnd(p) ==
  /\ op[p].f = "copy" /\ op[p].i * PGSIZE >= proc[p].sz
  /\ proc' = [q \in Procs |-> IF q \in op[p].q THEN [pt |-> op[p].pt, tf |-> op[p].tf, sz |-> proc[p].sz] ELSE proc[q]]
  /\ Set(p, Idle)
  /\ UNCHANGED <<free, bytes, panic, calls>>

\* wait() frees a process that has exited.
Reap(q) ==
  /\ Count /\ Used(q) /\ op[q] = Idle /\ q # init
  /\ Freed(free, FreedBy(proc[q].pt, proc[q].sz) \cup {proc[q].tf})
  /\ PanicUnless(Sound(proc[q].pt, proc[q].sz))
  /\ proc' = [proc EXCEPT ![q] = Unused]
  /\ UNCHANGED op

\* growproc() with n > 0: uvmalloc() for the new size.
Grow(p, n) ==
  /\ Call(p) /\ n > 0 /\ proc[p].sz + n <= MaxSize
  /\ LET i == PGROUNDUP(proc[p].sz) \div PGSIZE IN
       Set(p, [Idle EXCEPT !.f = "sbrk", !.base = i, !.i = i, !.end = proc[p].sz + n])
  /\ UNCHANGED <<free, bytes, panic, proc>>

\* growproc() with n < 0: uvmdealloc().  A size below zero wraps, is not
\* smaller, and nothing is done.
Shrink(p, n) ==
  /\ Call(p) /\ n < 0
  /\ LET newsz == (proc[p].sz + n) % WRAP
         vs == Vpns(newsz, proc[p].sz) IN
       \/ newsz >= proc[p].sz /\ UNCHANGED <<free, bytes, panic, proc>>
       \/ /\ newsz < proc[p].sz
          /\ Freed(free, UserPages(proc[p].pt, vs))
          /\ PanicUnless(vs \subseteq DOMAIN proc[p].pt.leaf)
          /\ proc' = [proc EXCEPT ![p].pt = Unmap(@, vs), ![p].sz = newsz]
  /\ UNCHANGED op

Install(p, pt) == proc' = IF op[p].f = "sbrk" THEN [proc EXCEPT ![p].pt = pt] ELSE proc

\* One round of uvmalloc(), for sbrk() or for exec().  When memory runs out it
\* gives back the pages since `base`.
GrowPage(p) ==
  /\ op[p].f \in {"sbrk", "load", "stack"} /\ op[p].i * PGSIZE < op[p].end
  /\ LET o == op[p]
         t == IF o.f = "sbrk" THEN proc[p].pt ELSE o.pt IN
     \E g \in {MapNew(t, o.i, TRUE)} :
       \/ /\ g.ok /\ free' = g.free
          /\ bytes' = [bytes EXCEPT ![g.pa] = Fill(0)]
          /\ Install(p, g.pt) /\ Set(p, [o EXCEPT !.i = @ + 1, !.pt = IF o.f = "sbrk" THEN @ ELSE g.pt])
          /\ PanicUnless(o.i \notin DOMAIN t.leaf)
       \/ /\ ~g.ok /\ Freed(g.free, UserPages(g.pt, o.base..(o.i - 1)))
          /\ PanicUnless((o.base)..(o.i - 1) \subseteq DOMAIN g.pt.leaf)
          /\ \E pt \in {Unmap(g.pt, o.base..(o.i - 1))} :
               Install(p, pt) /\ Set(p, IF o.f = "sbrk" THEN Idle ELSE [o EXCEPT !.f = "bad", !.pt = pt])
  /\ UNCHANGED calls

GrowEnd(p) ==
  /\ op[p].f = "sbrk" /\ op[p].i * PGSIZE >= op[p].end
  /\ proc' = [proc EXCEPT ![p].sz = op[p].end]
  /\ Set(p, Idle)
  /\ UNCHANGED <<free, bytes, panic, calls>>

\* The program stores bytes, or the kernel copies some out for it.
Write(p, va, src) ==
  /\ Call(p)
  /\ bytes' = copyout(bytes, proc[p].pt, va, src).bytes
  /\ UNCHANGED <<free, panic, proc, op>>

-----------------------------------------------------------------------------
(* exec.  A program is a sequence of segments; every byte of its file is    *)
(* FileByte, and of an argument ArgByte.                                   *)

FileByte == 7
ArgByte == 3

\* Mutant: sys_exec() forgets the pages of the arguments.
FreeArgsNot(argv) == {}

FreeArgs(argv) == argv

Exec(p, prog, args) ==
  /\ Call(p) /\ Set(p, [Idle EXCEPT !.f = "args", !.prog = prog, !.args = args])
  /\ UNCHANGED <<free, bytes, panic, proc>>

\* A round of sys_exec()'s loop: an argument is copied into a page of its own.
ExecArg(p) ==
  /\ op[p].f = "args" /\ free # {}
  /\ Cardinality(op[p].argv) < Min({Len(op[p].args), MAXARG})
  /\ free' = free \ {kalloc(free)}
  /\ Set(p, [op[p] EXCEPT !.argv = @ \cup {kalloc(free)}])
  /\ UNCHANGED <<bytes, panic, proc, calls>>

\* bad: there are too many, memory runs out, or fetchaddr() or fetchstr() finds
\* the array or the string outside the process, the latter with its page
\* allocated, or exec() does not find the program.  So it may be in any round.
ExecArgsBad(p) ==
  /\ op[p].f = "args"
  /\ Freed(free, FreeArgs(op[p].argv)) /\ Set(p, Idle)
  /\ UNCHANGED <<panic, proc, calls>>

\* The null pointer at the end; exec() begins with a page table.
ExecTable(p) ==
  /\ op[p].f = "args" /\ Cardinality(op[p].argv) = Len(op[p].args) /\ Len(op[p].args) < MAXARG
  /\ \E t \in {proc_pagetable(free, proc[p].tf)} :
       /\ free' = t.free /\ PanicUnless(t.sound)
       /\ Set(p, [op[p] EXCEPT !.pt = t.pt, !.f = IF t.pt = NoTable THEN "bad" ELSE "seg"])
  /\ UNCHANGED <<bytes, proc, calls>>

\* One program header: its checks, and the size it asks of uvmalloc(), which
\* returns the size there is when that is larger.
LoadHeader(p) ==
  /\ op[p].f = "seg" /\ op[p].k <= Len(op[p].prog)
  /\ LET o == op[p]
         ph == o.prog[o.k]
         newsz == (ph.vaddr + ph.memsz) % WRAP
         i == PGROUNDUP(o.sz) \div PGSIZE
         bad == ph.memsz < ph.filesz \/ newsz < ph.vaddr \/ ph.vaddr % PGSIZE # 0 \/ newsz + o.sz = 0 IN
       Set(p, IF bad THEN [o EXCEPT !.f = "bad"]
              ELSE [o EXCEPT !.f = "load", !.base = i, !.i = i, !.end = IF newsz < o.sz THEN o.sz ELSE newsz])
  /\ UNCHANGED <<free, bytes, panic, proc, calls>>

\* loadseg(): the pages are there, or it panics.  The file may end early.
LoadSegment(p) ==
  /\ op[p].f = "load" /\ op[p].i * PGSIZE >= op[p].end
  /\ LET o == op[p]
         ph == o.prog[o.k]
         Page(j) == walkaddr(o.pt, ph.vaddr + j * PGSIZE)
         js == Vpns(0, ph.filesz) IN
       /\ PanicUnless(\A j \in js : Page(j) # 0)
       /\ bytes' = [pa \in Pages |-> [c \in Cells |->
             IF \E j \in js : Page(j) = pa /\ j * PGSIZE + c < ph.filesz THEN FileByte ELSE bytes[pa][c]]]
       /\ Set(p, [o EXCEPT !.sz = o.end, !.k = @ + 1, !.f = IF ph.short THEN "bad" ELSE "seg"])
  /\ UNCHANGED <<free, proc, calls>>

\* Two pages after the program, for the guard and the stack.
ExecStack(p) ==
  /\ op[p].f = "seg" /\ op[p].k > Len(op[p].prog)
  /\ LET sz == PGROUNDUP(op[p].sz) IN
       Set(p, [op[p] EXCEPT !.f = "stack", !.sz = sz, !.base = sz \div PGSIZE, !.i = sz \div PGSIZE, !.end = sz + 2 * PGSIZE])
  /\ UNCHANGED <<free, bytes, panic, proc, calls>>

\* Mutant: the page below the stack stays a user page.
uvmclearNot(pt, v) == pt

uvmclear(pt, v) == [pt EXCEPT !.leaf[v].u = FALSE]

\* n bytes and a zero below st.sp, aligned; they must fit in the stack page.
Push(pt, stackbase, st, n) ==
  LET sp1 == (st.sp - n - 1) % WRAP
      sp2 == sp1 - (sp1 % STACKALIGN) IN
  IF ~st.ok \/ sp2 < stackbase THEN [st EXCEPT !.ok = FALSE]
  ELSE LET c == copyout(st.bytes, pt, sp2, [k \in 1..(n + 1) |-> IF k <= n THEN ArgByte ELSE 0]) IN
       [bytes |-> c.bytes, ok |-> c.ok, sp |-> sp2]

\* The argument strings, then the array of pointers to them (as many bytes).
PushArgs(pt, sz, args) ==
  FoldLeft(LAMBDA st, n : Push(pt, sz - PGSIZE, st, n),
           [bytes |-> bytes, ok |-> Len(args) <= MAXARG, sp |-> sz], Append(args, Len(args)))

\* The new image takes the place of the old one, which is freed.
ExecEnd(p) ==
  /\ op[p].f = "stack" /\ op[p].i * PGSIZE >= op[p].end
  /\ LET o == op[p] IN
     \E pt \in {uvmclear(o.pt, o.base)} : \E st \in {PushArgs(pt, o.end, o.args)} :
       \/ /\ ~st.ok /\ bytes' = st.bytes
          /\ Set(p, [o EXCEPT !.f = "bad", !.pt = pt, !.sz = o.end])
          /\ UNCHANGED <<free, panic, proc>>
       \/ /\ st.ok
          /\ \E gone \in {FreedBy(proc[p].pt, proc[p].sz) \cup FreeArgs(o.argv)} :
               /\ free' = free \cup gone
               /\ bytes' = [pa \in Pages |-> IF pa \in gone THEN Junk ELSE st.bytes[pa]]
          /\ PanicUnless(Sound(proc[p].pt, proc[p].sz))
          /\ proc' = [proc EXCEPT ![p].pt = pt, ![p].sz = o.end]
          /\ Set(p, Idle)
  /\ UNCHANGED calls

\* bad: frees the new page table for the size it has reached.
ExecBad(p) == op[p].sz

Bad(p) ==
  /\ op[p].f = "bad"
  /\ Freed(free, FreedBy(op[p].pt, ExecBad(p)) \cup FreeArgs(op[p].argv))
  /\ PanicUnless(Sound(op[p].pt, ExecBad(p)))
  /\ Set(p, Idle)
  /\ UNCHANGED <<proc, calls>>

Next == ~panic /\ \E p \in Procs :
  \/ \E q \in Procs : Fork(p, q)
  \/ CopyPage(p) \/ ForkEnd(p) \/ Reap(p)
  \/ \E n \in SbrkArgs : Grow(p, n) \/ Shrink(p, n)
  \/ GrowPage(p) \/ GrowEnd(p)
  \/ \E prog \in Programs, args \in Args : Exec(p, prog, args)
  \/ ExecArg(p) \/ ExecArgsBad(p)
  \/ ExecTable(p) \/ LoadHeader(p) \/ LoadSegment(p) \/ ExecStack(p) \/ ExecEnd(p) \/ Bad(p)
  \/ \E va \in WriteAddrs : Write(p, va, <<5, 6>>)

Spec == Init /\ [][Next]_vars

-----------------------------------------------------------------------------
(* Properties.                                                             *)

\* What process p uses pages for: trapframes, arguments, page tables, memory;
\* page 0 is no page.
Uses(pt) == {<<"table", 0, a>> : a \in Tables(pt)}
            \cup {<<"memory", v, pt.leaf[v].pa>> : v \in DOMAIN pt.leaf \ {TRAMPOLINE, TRAPFRAME}}
Held(p) == {<<"old", u>> : u \in {<<"trapframe", 0, proc[p].tf>>} \cup Uses(proc[p].pt)}
           \cup {<<"new", u>> : u \in {<<"trapframe", 0, op[p].tf>>} \cup Uses(op[p].pt) \cup {<<"arg", 0, a>> : a \in op[p].argv}}
Holds(p) == {x \in Held(p) : x[2][3] # 0}

\* Every page is free, or it is held once, by one process, for one purpose: no
\* path of fork(), exec(), sbrk(), wait() loses a page or frees one that is in
\* use, also when kalloc() fails half way while others take pages too; and no
\* panic of mappages(), uvmunmap(), freewalk(), uvmcopy() or loadseg() is
\* reached.
PagesAccounted ==
  /\ ~panic
  /\ \E n \in MemorySizes :
       /\ 1..n = free \cup UNION {{x[2][3] : x \in Holds(p)} : p \in Procs}
       /\ n = Cardinality(free) + MapThenSumSet(LAMBDA p : Cardinality(Holds(p)), Procs)

\* The memory of p, page by page, as the page table shows it.
Image(p) ==
  [sz |-> proc[p].sz,
   pages |-> [k \in 1..(PGROUNDUP(proc[p].sz) \div PGSIZE) |->
                LET e == Leaf(proc[p].pt, k - 1) IN
                [bytes |-> IF e = NoLeaf THEN Junk ELSE bytes[e.pa], u |-> e.u]]]

\* The image of a program: its segments, zeroes, a page that the program may
\* not use, and the stack.
ProgramByte(prog, a) ==
  IF \E k \in DOMAIN prog : a >= prog[k].vaddr /\ a < prog[k].vaddr + prog[k].filesz THEN FileByte ELSE 0
ProgramEnd(prog) == Max({0} \cup {prog[k].vaddr + prog[k].memsz : k \in DOMAIN prog})
ProgramImage(prog, args) ==
  LET end == PGROUNDUP(ProgramEnd(prog))
      strings == FoldLeft(LAMBDA acc, len : LET t == acc.sp - len - 1 IN
                   [sp |-> t - (t % STACKALIGN), at |-> acc.at \cup {t - (t % STACKALIGN) + k : k \in 0..(len - 1)}],
                   [sp |-> end + 2 * PGSIZE, at |-> {}], args)
      t2 == strings.sp - Len(args) - 1
      at == strings.at \cup {t2 - (t2 % STACKALIGN) + k : k \in 0..(Len(args) - 1)} IN
  [sz |-> end + 2 * PGSIZE,
   pages |-> [k \in 1..(end \div PGSIZE + 2) |->
     [bytes |-> [c \in Cells |-> LET a == (k - 1) * PGSIZE + c IN
                   IF a \in at THEN ArgByte ELSE IF a < end THEN ProgramByte(prog, a) ELSE 0],
      u |-> k # end \div PGSIZE + 1]]]

ExecImages == {ProgramImage(prog, args) : prog \in Programs, args \in Args}

Space == INSTANCE AddressSpace WITH
  image <- [p \in Procs |-> Image(p)], Bytes <- {<<5, 6>>, <<5>>}

\* Page tables give each process an image of its own: fork() copies it, sbrk()
\* extends it by zeroes or cuts it, exec() replaces it by the program's with a
\* guard page below the stack, copyout() changes the bytes it is asked to, in
\* user pages only; a call that fails changes no image at all.
MemoryIsImages == Space!Spec

\* Between operations copyin() and copyinstr() return the bytes of the image, and succeed exactly
\* when every byte they need is in a user page.
UserByte(pages, a) == LET k == a \div PGSIZE + 1 IN
  IF k > Len(pages) THEN -1 ELSE IF ~pages[k].u THEN -1 ELSE pages[k].bytes[a % PGSIZE]
CopiesExact ==
  \A p \in {q \in Procs : op[q] = Idle} : \A pages \in {Image(p).pages} : \A va \in 0..MaxSize, n \in {1, PGSIZE + 1} :
    \A in \in {copyin(proc[p].pt, va, n)}, str \in {copyinstr(proc[p].pt, va, n)},
       want \in {[k \in 1..n |-> UserByte(pages, va + k - 1)]} :
      LET stop == {k \in 1..n : want[k] \in {0, -1}}
          ended == str.ok /\ Ended(str.got) IN
      /\ in.ok <=> \A k \in 1..n : want[k] # -1
      /\ in.ok => in.got = want
      /\ ended <=> (stop # {} /\ want[Min(stop)] = 0)
      /\ ended => str.got = SubSeq(want, 1, Min(stop))
=============================================================================
