# A verification of xv6

TLA+ specifications of the xv6 kernel in `src/` (RISC-V, multiprocessor) and of
the user programs with state worth checking, TLC models that check them on small
instances, and proofs, checked by TLAPS, that hold for any number of processes,
CPUs, buffers, blocks or descriptors.

The specifications are written from the C code, at the granularity of its locks:
a critical section of a spinlock is one step; a lock that stays held from one
step to another (across `swtch()`, or across a loop that takes other locks) is
part of the state. Data that no property looks at (names, register contents,
file contents where only identity matters) is left out. Definitions keep the names
of the C functions; `PROJECT.json` maps each to its lines.

## 1. The system and its parts

| part | code | modules |
|---|---|---|
| processes, scheduling, sleep/wakeup | `proc.c`, traps in `trap.c` | `Proc` |
| spinlocks, interrupt masking | `spinlock.c`, `push_off` across `sched()` and traps | `SpinLock` |
| log (crash recovery) | `log.c` | `Log`, implements `AtomicDisk` |
| buffer cache, sleep locks | `bio.c`, `sleeplock.c` | `Bcache`, implements `BlockStore` |
| disk driver | `virtio_disk.c` | `VirtioDisk`, implements `DiskRequests` |
| inode table, file table, file system calls | `fs.c`, `file.c`, `sysfile.c` | `Inode`, `SysFile` |
| file contents, directories, bitmap, mkfs's image | `fs.c`, `file.c`, `mkfs.c` | `FileData`, implements `FileStore` |
| pipes | `pipe.c` | `Pipe`, implements `ByteQueue` |
| traps, clock, `sys_sleep`, kill | `trap.c`, `sysproc.c`, `proc.c` | `Trap` |
| console input | `console.c` | `Console`, implements `LineEditor` |
| console output | `uart.c`, `printf.c` | `Uart` |
| pages, page tables, fork, exec, sbrk | `kalloc.c`, `vm.c`, `exec.c`, `proc.c` | `Vm`, implements `AddressSpace` |
| shell and init | `sh.c`, `init.c` | `ShellSyntax`, `Shell` |
| malloc, grep | `umalloc.c`, `grep.c` | `Malloc`, `Grep` |
| boot, trap entry, dispatch, strings | `*.S`, `main.c`, `plic.c`, `syscall.c`, ... | not modelled |

How they interact: system calls run on the kernel stack of a process, which one
CPU at a time executes; they block with `sleep()` on a channel, with the lock of
whatever they wait for, and are woken by `wakeup()` from another process or an
interrupt handler. The file system stacks `sysfile.c` on inodes, inodes on the
log, the log on the buffer cache, the cache on the disk driver; all of them block
through sleep locks and `sleep()`. Each layer is specified on top of what the one
below promises: `Log` uses a cache that behaves as `BlockStore` says, with buffers
that are recycled when nobody pins them; `SysFile` and `FileData` see the disk
through the cache, inside transactions that `Log` makes atomic; `VirtioDisk` serves
threads that each have a buffer of their own, as the cache guarantees.

The modules named `MC...` instantiate the others for TLC. `MCBuffers` and `MCUser`
are sums: a behaviour moves one unit (files, memory, UART, console; or traps, shell,
parser, heap, grep) and leaves the others as they start, so that one run checks
several small components side by side. `MCBuffers` extends `Console` and instantiates
the others: the `ConsoleIsLines` it checks is the definition that `ConsoleProofs` proves.

## 2. The process table (`Proc`)

State: the fields of `struct proc` that more than one party uses (`state`,
`chan`, `killed`, `pid`, `parent`), `nextpid`, the holder of every `p->lock` and
of `wait_lock`, `c->proc` of each CPU, the kernel stack each CPU is on (`stack`),
and for each kernel thread the label it is at (`pc`), whether it gave up the CPU
in `yield()` on top of that (`yielding`), and the two local variables of the
loops (`i`, `arg`).

Actions: one for each critical section, named after the function it is in. Loops
over `proc[]` are one step per slot, because other CPUs interleave between two
slots: `Alloc*` (allocproc and the part of fork under the child's lock), `Fork*`,
`Exit*`, `Reparent*`, `Wait*`, `Kill*`, `Sched*`. `wakeup()` inside exit and
reparent is a loop too. `sleep()` is modelled where wait() calls it: the switch
(`WaitSleep`) and the return (`WaitWoken`). Timer interrupts preempt a process in
user space and at every point of the kernel where it holds no lock.

Two critical sections are merged into one step where the second only follows the
first without anything to observe in between: allocproc() and the part of fork()
under the same lock; killed(p) followed by yield().

Runs (module `MCProc`):

* `proc`: three slots, two CPUs, pids up to 3, kill of pid 2 and of pid 3. Enough
  for a grandchild to be orphaned, for a slot to be reused, for /init to be asleep
  or scanning when an orphan arrives, and for the two schedulers to compete. The
  CPUs are symmetric. Checks `KernelStackExclusive` (no two CPUs on one kernel
  stack, no stack freed under a CPU), `NoLostExitWakeup` (no parent asleep in
  wait() beside a ZOMBIE child) and `ChildHasLiveParent`.
* `proc_live`: the liveness properties `WaitReturns` (wait() returns once a child has
  exited) and `RunnableRuns`, with three slots on one CPU, so that orphans are handed
  to /init. Liveness with several CPUs is not checked; what is shown of their
  competition is safety.

Fairness: the timer interrupts each CPU for ever (`timerinit()`), a scheduler
keeps looping, and a kernel thread whose step is possible again and again takes
it. The last is strong fairness, because a spinlock is not a queue: a CPU may
lose it to another one, but not for ever. Nothing is assumed of user programs,
which need not make another system call.

## 3. The log (`Log`)

State: the disk (`home`, `dlog`, `dhead`: the blocks, the log blocks, the header),
the contents and pins of the buffers (`cache`, `pin`), `struct log` (`lh`,
`outstanding`, `committing`), and for each thread its label, the buffer it has
locked and the blocks its operation has written. `up` says whether the system
runs or which step of `recover_from_log()` it is at.

Actions: one for each critical section of `log.lock` and one for each block
written to disk, since a crash may come between any two of those: `begin_op`,
`Modify`, `log_write`, `end_op`, `write_log`, `write_head`, `Install`, `Clear`,
`Committed`, the recovery steps, `Evict` (bget() recycles a buffer nobody refers
to) and `Crash`, which leaves only the disk. The disk writes whole blocks.
A thread has at most one modified buffer locked, because the file system
calls log_write() for each buffer before it modifies another.

`AtomicDisk` is the promise: operations change a memory of blocks; a crash takes
it back to a state in which no operation was half way. The mapping takes the
cache as the memory and `Durable`, what recovery would make of the disk, as the
state a crash goes back to.

Bounds. `log` (property `CrashAtomic`): three threads, two blocks of two values, two
crashes, so that recovery itself is interrupted by a crash and absorption happens.
`log_space` (`NoLogPanic`, `SleeperWakes`): three threads that need more room than the
log has, so that begin_op() sleeps. There operations write at most `OpBlocks` blocks,
one fewer than MAXOPBLOCKS; what the calls in `sysfile.c` write is smaller than what
they reserve (filewrite() splits its writes so that they fit, which `WritesFitLog` of
run `buffers` checks).
Fairness: threads in begin_op(), log_write() and commit() go on, recovery goes on,
and an operation that can end again and again ends.

## 4. Spinlocks and interrupts (`SpinLock`)

`acquire()` and `release()` are broken into their memory accesses: push_off(), the
atomic swap, the write of `lk->cpu`, and back. Each CPU executes an activity, a
kernel thread or its scheduler; an interrupt pushes a second frame on it. Threads
sleep, yield (from a handler too) and come back on another CPU with `intena`
saved in sched(). The auxiliary variables `held` and `want` record the critical
sections a frame is in and whether its code wants interrupts on.

Run `spinlock`: two CPUs, two threads (their `p->lock`s are two of the locks), one
more lock that threads and handlers share. Nesting reaches depth 2, and every
migration between two CPUs occurs. `HoldingIsExact` is mutual exclusion and says that
holding() can be trusted; `IntrRestored` says that interrupts are off inside critical
sections and as the thread had set them outside.

## 5. The buffer cache, sleep locks and the disk driver (`Bcache`, `VirtioDisk`)

`Bcache`: `struct buf` without its links, the LRU list as a sequence, the sleep lock of
each buffer, the disk, and for each thread the block it wants, the buffer it has
and what it has done to it. Each critical section of `bcache.lock` is a step
(`bgetHit`, `bgetMiss`, `bpin`, `bunpin`, `brelse`), and so is each of the sleep lock
(`acquiresleep` for each turn of its loop, `releasesleep`). As in the kernel, a client
that changed a buffer writes or pins it before it lets it go.

`BlockStore` is the promise: one memory cell with one lock for each block. Reading
in, recycling, writing out and pinning are stutters of it.

Run `bcache` (`RefcntExact`, `SleepLockSound`, `CacheIsMemory`) has more blocks than
buffers, so that valid buffers are recycled (with as many buffers as blocks that never
happens), and exactly as many buffers as two threads and one pin may hold, the bound at
which bget() must still not panic. A thread holds one buffer at a time: the kernel
holds two at a few places, always in one order (log block before home block, indirect
block before bitmap).

`VirtioDisk`: the fields of `struct disk`, both rings with their wrapping indices, and
the device's view of them. The device is external: it takes chains from the avail ring,
moves the data and writes the status in any order, adds to the used ring and
interrupts. What the device can see is ordered as in the code (the ring slot before
the index; the acknowledgement before the used ring). kill() wakes sleepers at any
time. Each thread has its own buffer and block.

`DiskRequests` is the promise: between call and return the block moves once, in the
direction asked for. Run `virtio` (`DescsAccounted`, `NoLostDiskWakeup`,
`RequestsServed`) has three threads and seven descriptors, so that two requests are at
work and a third caller gets one descriptor, gives it back and sleeps (with eight, as in
the code, it would get two and give them back in the same way); the indices wrap at 7.
Threads and values are symmetric. That no request hangs is stated as an invariant: an
entry in the used ring has an interrupt or the handler to come, who waits for a request
waits for one that is not finished, and nobody waits for descriptors while there are
three.

## 6. Files (`Inode`, `SysFile`, `FileData`) and pipes (`Pipe`)

The file system calls are modelled twice, because their two difficulties have little to
do with each other.

`SysFile`, on the functions of `Inode`, has the concurrency: link, unlink, open, creat,
mkdir, mknod, chdir, the lookup of exec, dup, close, fstat, fork and exit, at the
granularity of inode locks. A step is what a process does under one inode lock, or
under itable.lock or ftable.lock; locks kept while another is taken are in the
state. namex() is one step per path element. iput() is broken into the steps between
which other processes get in: the check of ref and nlink, the freeing, the unlock,
the decrement. Directories are functions from names to inode numbers. Tables are
finite, so that iget()'s panic is a question and filealloc(), fdalloc() and ialloc()
fail; a dirlink() fails at times, as on a full disk.

Run `sysfile`: two processes, two names, three inodes, a table of three, one open file,
two descriptors each. One process makes, enters and links; the other unlinks, opens,
makes in the same places; either order of every pair of locks occurs.
`RefsExact` (ip->ref and f->ref are the numbers of pointers), `TableCoherent` (one entry
per inode, which agrees with the disk when unlocked), `NamesCounted` (nlink never falls
below the number of names), `NoLockCycle`, and `NoFsPanic`: ilock() meets no free inode,
dirlookup() no file, unlink() no file without links, and iput() no locked inode that it
wants to free. The first has an exception, which the run reaches: one of the paths is
`/a/b/..`, and when the other process removes b and a on the way, ".." leads to a free
inode and ilock() panics (section 9). In the model the process then stops with the lock
held (`IlockPanic`, `Spin`), while the other goes on; `NoFsPanic` excepts the inodes
found by the ".." of a directory without links, and no others. Run `sysfile_iput` shows
a finding (section 9).

`FileData` has the bytes: the bitmap, balloc() and bfree(), bmap() with its indirect
block, itrunc(), readi() and writei() block after block, dirlookup() and dirlink(), file
offsets, and the image that mkfs makes as the initial state. A call keeps its inode
locked while it goes through blocks one at a time; calls on other inodes interleave. A
disk of eight blocks of two bytes fills up, files reach their maximum of three blocks, and
copies from user memory fail at any byte. `FileStore` (files as byte sequences) is the
promise: `FilesAreBytes`. `BlocksOwnedOnce` says the bitmap is exact; `WritesFitLog`
that filewrite()'s pieces log at most MAXOPBLOCKS blocks.

`Pipe`: `struct pipe`, the holder of `pi->lock`, the ends each process has open, and
each call's label and counters. A step is one turn of a loop, as kill() may come
between two turns, and between the look at killed() and sleep(). Failing copyin() and
copyout() are included. `ByteQueue`, a bounded FIFO queue with two ends, is the
promise; the ring with its wrapping counters is mapped to it. Run `pipe` (`FreedLast`,
`NoLostPipeWakeup`, `PipeIsQueue`, `ZeroMeansEof`): a ring of two bytes, counters
modulo 4, calls of up to three bytes, a writer, a reader and a process that holds both
ends and may be killed. The system may stop (all ends closed, or a process reads a pipe
that only itself could write), so deadlock is not an error there.

## 7. Memory, the console, traps and user programs

Run `buffers` (module `MCBuffers`) checks, beside `FileData`:

* `Vm`: the free list, user page tables of three levels, fork's copy, sbrk, exec with its
  segments, guard page, stack and arguments, and wait's release. An operation takes its
  pages one round of a loop at a time, so that any kalloc() may fail while another process
  takes pages too; machines of 9, 12, 15 and 19 pages put the failure everywhere.
  What a failing call gives back is computed from what it holds at that point.
  `PagesAccounted`: every page is free or held once, and no panic of `vm.c` is reached.
  `MemoryIsImages`: `Vm` implements `AddressSpace`, one private image for each process.
  Two processes, four calls.
* `Uart`: the transmit buffer and its lock, and the echo, printf() and panic(), which write
  to the device without it. The device is external: a FIFO that reports when it is empty
  and loses what is written to it when full. `OutputInOrder`: each source's bytes leave
  once, in order. `TtyNeverStuck`: nobody sleeps beside room, or beside input, and
  buffered output is on its way.
* `Console`: consoleintr() and consoleread() on the circular buffer of three characters
  with indices modulo 6, two readers, which kill() may wake. It implements `LineEditor`:
  `ConsoleIsLines`.

In all of them the number of calls is bounded, so they may stop.

Run `user` (module `MCUser`):

* `Trap`: usertrap() with its two looks at killed(), sys_sleep() on a tick counter modulo
  4, kill() at every point. `SleepExact`: a sleeper waits n ticks, not fewer, and no more
  than the scheduler's delay longer, although the counter wraps. `KilledExits`: a killed
  process exits, from user space or from sys_sleep(), the only call that blocks here.
  Fairness: the clock ticks for ever, a process runs again and again and is
  interrupted, and one that spins for tickslock gets it when it is free again and again
  (which test-and-set does not promise by itself).
* `ShellSyntax`: the parser on every line of up to four tokens, against a grammar:
  `ParsesBack`.
* `Shell`: init and the shell with their forks, pipes, dups and closes, on ten lines that
  have every construct, with one system call failing anywhere. `RunsAsWritten`: a program
  starts with the descriptors that the line says, and no other. `PromptReturns`: the
  shell comes back to its prompt and init runs one shell at a time. Fairness: some
  process makes a step; a program ends by itself, or when the pipe it reads has ended.
* `Malloc`: the ring of free blocks on a heap of seven units; sbrk() may fail, and
  programs may call it too. `HeapIsSound`: no overlap, no loss, no two touching free blocks.
* `Grep`: every pattern of up to three characters on two files, read in pieces of any
  size through a buffer of five: `GrepExact`.

The bounds are small, but each is above the point where its kind of difficulty starts:
rings wrap, tables and disks fill up, two processes meet in every pair of steps, an
operation is interrupted at each of its steps. Where a property is also proved (section
8), the bound does not matter.

## 8. What is proved

TLAPS checks the theorems of the modules `*Proofs` for every value of the constants that
satisfies the named assumption of the component (`ProcAssumption`, `LogAssumption`,
`ConsoleAssumption`, ...; TLC evaluates each in the runs). None of the properties is
inductive by itself; each module defines the invariant it needs and proves that Init
implies it, that each action preserves it, and that it implies the properties.

**Processes** (`ProcProofs`, `ProcTreeProofs`): every `NPROC`, set of CPUs, `MaxPid` and
`KillPids`. The invariant is in two layers. `CoreInv` is about CPUs and locks: what the
state of a process says about the label of its thread (`PcInv`), which process each CPU
is on (`CpuInv`), and, exactly, who holds each `p->lock` (`LockInv`: the CPU that is
switching to or from it, until the other side releases it) and `wait_lock`
(`WaitLockInv`). `ArgInv` says that the child slot of a fork in progress is USED and is
nobody else's child. From it follow `StackExclusion` (`KernelStackExclusive`),
`SchedLocks` (sched()'s panics are unreachable), `TypeCorrect` and `PidsDistinct`.
`FamilyInv` is about parents: nobody who still has children stops being alive
(`TreeInv`), reparent() leaves no child behind in the slots it passed
(`ReparentInv`), the children wait() has scanned did not become ZOMBIEs
(`ScanInv`), and an exiting process that has passed its parent's slot in wakeup()
has woken it; the one case in which a sleeping parent has a ZOMBIE child is /init,
between being given the child and the end of the wakeup(initproc) that follows
(`WakeInv`). From it follow `WakeupNotLost` (`NoLostExitWakeup`) and `LiveParent`
(`ChildHasLiveParent`).

**The log** (`LogProofs`): any finite number of threads, any blocks, values, log size and
number of crashes. `LogImplementsAtomicDisk` (`CrashAtomic`), `IdleDurable`,
`LogUnpins`, `LogTypeCorrect`, `CommitExcludesOps`. The invariant
says: `outstanding` counts the operations in progress (`CountInv`); a commit excludes
operations and other commits (`PhaseInv`); the header on disk is empty except from the
commit to the end of the installation, when it is `lh` (`HeadInv`); a buffer that
differs from its block on disk is in the log and pinned, or locked (`CacheInv`,
`PinInv`); what is in the log on disk is what the cache held at the commit, and what is
installed is what is in the log (`LogInv`). With it the refinement comes down to two
facts: only write_head() changes `Durable`, and it does so from the state before all
the operations of the group to the state after (`DurableKept`, `CommitPoint`).

`LogSpaceSuffices` proves `NoLogPanic` from one more hypothesis, on how much an operation
writes: with size = LOGSIZE, as mkfs makes it, two blocks fewer than it reserves (8 of 10).
One is for the header block, which begin_op() counts as room for data; the other because
log_write() looks at the limit before it looks whether the block is in the log already.
The argument counts what is left of all reservations as a set of pairs (`Reserve`: an
operation and a number up to MAXOPBLOCKS less its blocks in the log); with what the log
holds it never exceeds LOGSIZE (`SpaceInv`): begin_op() checks the bound for everybody's
full reservation, and an append removes one pair. (Run `log_space` checks an instance
on the boundary of this hypothesis, which is sufficient, not necessary.)

**Spinlocks** (`SpinLockProofs`): any CPUs, threads and locks. `HoldingExact`
(`HoldingIsExact`) and `InterruptsRestored` (`IntrRestored`). The invariant says which
activity is where (`CurInv`), what an interrupted frame and one that was switched away
from may be at (`TrapInv`, `OffInv`), which locks the code at each label holds
(`TopOK`), that `noff` is their number (`NoffOK`), and that `intena`, or SIE when noff is
0, is what the running thread wants (`IntrOK`): the saved copy in sched() carries that to
another CPU.

**The buffer cache** (`BcacheProofs`): any finite set of threads, any blocks and NBUF.
`RefcntsExact`, `SleepLocksSound`, `OneBufferPerBlock`, `CacheImplementsMemory`
(`CacheIsMemory`). The invariant adds to the properties: who has a reference to a
buffer has it for its block (`HeldInv`), a pinned block has a valid buffer (`PinnedInv`),
only the holder of the lock sees an invalid buffer (`ValidInv`), and a buffer that differs
from the disk is pinned or its holder has still to write or pin it (`CleanInv`). The last
is what makes recycling harmless.

**Pipes** (`PipeProofs`): any processes, any PIPESIZE and
any counter width that is a proper multiple of it. `PipeFreedLast`, `PipeWakeups`,
`ReadZeroIsEof`, `PipeImplementsQueue` (`PipeIsQueue`). The invariant says that the ring
never holds more than PIPESIZE (`RingInv`), that an end is open while somebody has a file
for it (`EndInv`), that one process frees (`FreeInv`), and that a sleeper waits for a
change, or for a process which has made one and will call wakeup() before it lets go of
the lock (`SleepInv`). That PIPESIZE divides the counters' range is used where a counter
wraps: the slot of a byte does not change.

**The disk driver** (`VirtioDiskProofs`): any threads, any number of
descriptors, any index width that is a multiple of it. `DescriptorsAccounted`
(`DescsAccounted`), `CompletionsSeen` (`NoLostDiskWakeup`), `RingsNotOverrun`,
`DriverServesRequests` (`RequestsServed`), `VirtioTypeCorrect`. The invariant says that the
chain of a request is as it was formatted and shares no descriptor with another
(`ChainInv`, `CountInv`), that the head of an unfinished request is in one place only,
the avail ring, the device or the used ring, and what its status is there (`PlaceInv`),
and that the entries of each ring are those between its two indices (`RingInv`), with
the avail ring one ahead while virtio_disk_rw() is between writing the slot and the
index. Since a request takes three descriptors, a ring never holds as many heads as it has
slots, so equal indices mean an empty ring: `RingsNotOverrun`.

**Console input** (`ConsoleProofs`): any readers, any size of the buffer,
any index width that is a multiple of it, at least twice. `ConsoleImplementsEditor`
(`ConsoleIsLines`) and `InputWakeups` (`NoLostInputWakeup`, the console's half of
`TtyNeverStuck`). The invariant says that r, w and e are in that order around the range of
a uint and at most a buffer apart, that the line being edited has no newline in it
(`RingInv`; so control-U, which looks for one, always takes the whole line), and that a
read is done when it has a newline and knows how much it has (`ReadInv`; so an end of
file is used up by a read with nothing, and put back by any other, and a read ends early
only for an end of file, a bad buffer, or kill() with nothing to read). What is entered and
what is being edited are windows of the buffer; the lemmas `Window...` say what a
character at either end does to them, wherever the indices wrap.

**With TLC only.** Liveness (`WaitReturns`, `RunnableRuns`, `SleeperWakes`, `KilledExits`,
`PromptReturns`): the prover has no fairness. What recursive definitions compute
(`ParsesBack`, `GrepExact`): it has no induction over data. That the LRU list of `Bcache`
stays a permutation (part of its `TypeOK`), since the list is filtered with `SelectSeq`,
which is recursive. The properties of `SysFile`, `FileData`, `Vm`, `Uart`, `Trap`,
`Shell` and `Malloc` have no proof; `FileData`, `Vm` and `Shell` are also built on
folds over sequences and minima of sets, about which the provers know nothing.

## 9. Disagreements found

* iput() (fs.c:337-362) frees an inode and drops its own reference only later, without
  looking again. In between another process may allocate the same inode, get the same
  table entry, and give it up without links: neither iput() frees it. Run `sysfile_iput`
  shows the inode that stays allocated without name or reference, against "iput() frees
  if the reference and link counts have fallen to zero" (fs.c:129-130).

The following were met while modelling. The models have these behaviours, and the
properties are stated so as to leave them out, or they lie outside the bounds; no run is
about them.

* `kill()` can fall between the killed() check of wait() (proc.c:427) and its
  sleep() (proc.c:433): the victim sleeps although it has been killed, which the
  "Wake process from sleep()" in kill() (proc.c:595) was to prevent. It stays so
  until a child exits. The same window in sys_sleep() lasts until the next tick.
* `kill(0)` matches a free slot, because free slots have pid 0 and kill() does not
  look at the state (proc.c:592). It returns success, and since allocproc() does
  not clear `killed`, the next process in that slot is killed at birth.
* begin_op() admits operations as if the log held LOGSIZE blocks, but log_write()
  panics one block earlier (log.c:220), as mkfs counts the header in LOGSIZE. The
  calls in `sysfile.c` write fewer blocks than they reserve, so it does not happen
  today (theorem `LogSpaceSuffices` says how many are allowed). itrunc() needs no more
  than its share because one bitmap block covers the whole disk of param.h.
* A writer that is killed after it has put some bytes into a pipe returns without the
  wakeup of the readers (pipe.c:84-87): a reader stays asleep beside bytes it could
  read, until somebody else writes or closes the last write end. `NoLostPipeWakeup`
  excepts it.
* create() and link() look a parent directory up and lock it afterwards: it may have been
  removed in between, and then gets an entry.
* The ".." of a directory that was removed while a process uses it leads to an inode that
  may be free by then, whose ilock() panics ("ilock: no type"). `NoFsPanic` excepts it.
* A copyin() that fails inside writei() has changed part of a buffer that is then
  released without log_write(): a reader may see the bytes until the buffer is recycled.
* mkfs rounds the size of the root directory up (mkfs.c, at the end of main): when its
  entries end at a block boundary, the last block is a hole.
* sbrk() by a negative amount larger than the process wraps to a huge size; sleep() of a
  negative number is one of a large unsigned number. Sums of offset and length that
  overflow in readi() and writei() are outside the bounds.
* The shell lets the first of several redirections of one descriptor win, and refuses a
  command after `&` without `;`. grep stops at a line longer than its buffer and drops a
  last line without newline.

## 10. What is not modelled

Boot and trap entry in assembly, the register handshakes of devices, the kernel's own page
table, formatting in printf, the byte loops of `string.c`, the system call table, the RAM
disk (not linked), the test programs. sys_pipe() and the failures inside pipealloc();
errors reported by the disk, on which virtio_disk_intr() panics; init's own fork
failing; the shell's cd, the splitting of lines into tokens and lines longer than its
buffer; malloc() of sizes that do not fit sbrk()'s int. In `Shell` programs are assumed to
end. Page permissions other than valid and user. Memory ordering other than what
`__sync_synchronize()` keeps is not modelled: steps are sequentially consistent.
