----------------------------- MODULE MCBuffers ------------------------------
(***************************************************************************)
(* Where the kernel keeps bytes, for TLC: the blocks of files, the pages   *)
(* of processes, the buffers of the console and of the UART.  In a         *)
(* behaviour one of these units moves, and the others stay as they start.  *)
(* The console is extended, not instantiated, so that what is checked of   *)
(* it here is what ConsoleProofs proves.                                   *)
(***************************************************************************)
EXTENDS Integers, Sequences, Console

CONSTANTS p1, p2,            \* processes
          MemorySizes,       \* numbers of pages of the machine
          FileCalls, VmCalls \* bounds on the number of calls

VARIABLES unit,
          fs, file, fop, fcalls,
          free, bytes, panic, proc, op, calls,
          tx, txlock, panicked, pc, left, hand, dev, seq, out

fileVars == <<fs, file, fop, fcalls>>
vmVars == <<free, bytes, panic, proc, op, calls>>
uartVars == <<tx, txlock, panicked, pc, left, hand, dev, seq, out>>
consoleVars == vars
bufferVars == <<unit, fileVars, vmVars, uartVars, consoleVars>>

F == INSTANCE FileData WITH op <- fop, calls <- fcalls, MaxCalls <- FileCalls,
       BSIZE <- 2, NDIRECT <- 1, NINDIRECT <- 2, BPB <- 1, MAXOPBLOCKS <- 6, FSSIZE <- 8, nmeta <- 1,
       MkFiles <- <<<<7, 8, 9>>>>, Handles <- {1, 2}, MaxWrite <- 3

Seg(vaddr, memsz, filesz) == [vaddr |-> vaddr, memsz |-> memsz, filesz |-> filesz, short |-> FALSE]
V == INSTANCE Vm WITH MaxCalls <- VmCalls,
       Procs <- {p1, p2}, init <- p1, PGSIZE <- 4, NPTE <- 2, LEVELS <- 3, Pages <- 1..19,
       WRAP <- 256, STACKALIGN <- 2, MAXARG <- 3, MaxSize <- 12, SbrkArgs <- {-5, -2, 3},
       Programs <- {<<Seg(0, 3, 2)>>, <<Seg(0, 2, 2), [Seg(4, 1, 1) EXCEPT !.short = TRUE]>>},
       Args <- {<<1>>, <<1, 0>>, <<1, 0, 0>>}, WriteAddrs <- {3}

U == INSTANCE Uart WITH lock <- txlock,
       Writers <- {"sh", "cat"}, UART_TX_BUF_SIZE <- 2, UINT64 <- 4, DEPTH <- 4, Echoes <- {0, 2}, MaxKeys <- 1,
       MaxBytes <- [s \in {"sh", "cat", "intr", "printf", "panic"} |-> IF s = "sh" THEN 2 ELSE 1]

BuffersInit ==
  /\ unit \in {"files", "memory", "uart", "console"}
  /\ F!Init /\ V!Init /\ U!Init /\ Init
  /\ unit # "memory" => \A n \in MemorySizes : free \subseteq 1..n   \* one size of the machine is enough

BuffersNext ==
  \/ unit = "files" /\ F!Next /\ UNCHANGED <<unit, vmVars, uartVars, consoleVars>>
  \/ unit = "memory" /\ V!Next /\ UNCHANGED <<unit, fileVars, uartVars, consoleVars>>
  \/ unit = "uart" /\ U!Next /\ UNCHANGED <<unit, fileVars, vmVars, consoleVars>>
  \/ unit = "console" /\ Next /\ UNCHANGED <<unit, fileVars, vmVars, uartVars>>

BuffersSpec == BuffersInit /\ [][BuffersNext]_bufferVars

-----------------------------------------------------------------------------
(* Properties.                                                             *)

\* The bitmap is exact, and no block is referred to twice.
BlocksOwnedOnce == unit = "files" => F!BlocksOwnedOnce

\* filewrite() cuts a write so that each part fits in its share of the log.
WritesFitLog == unit = "files" => F!WritesFitLog

\* Files, through bmap() and the bitmap, are sequences of bytes: writes change
\* what they should, and reads return it and allocate nothing.
FilesAreBytes ==
  /\ unit = "files" => F!Store!Init
  /\ [][unit = "files" => F!Store!Step]_bufferVars
  /\ [](unit = "files" => F!ReadsAreExact)

\* Every page of memory is free or held once, and no panic is reached.
PagesAccounted == unit = "memory" => V!PagesAccounted

\* Page tables give each process an image of its own, of which copyin() and
\* copyinstr() return the bytes, those of user pages only.
MemoryIsImages ==
  /\ unit = "memory" => V!Space!Init
  /\ [][unit = "memory" => V!Space!Step]_bufferVars
  /\ [](unit = "memory" => V!CopiesExact)

\* Echo, printf() and panic(), which take no lock, leave the order of bytes alone.
OutputInOrder == unit = "uart" => U!OutputInOrder

\* Nobody sleeps in consoleread() beside input, nor in uartputc() beside room,
\* and buffered output is on its way.
TtyNeverStuck ==
  /\ unit = "uart" => U!OutputProceeds
  /\ NoLostInputWakeup
=============================================================================
