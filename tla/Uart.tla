------------------------------- MODULE Uart ---------------------------------
(***************************************************************************)
(* Console output, kernel/uart.c: write()s go through a circular buffer    *)
(* that uartstart() empties into the device, under uart_tx_lock; the echo  *)
(* of input, printf() and panic() write to the device directly, without    *)
(* that lock.  The device itself, a 16550, is modelled as the driver uses  *)
(* it: a transmit FIFO that reports when it is empty, and a byte written   *)
(* to a full FIFO is lost.                                                 *)
(*                                                                         *)
(* Who writes: the processes of Writers, the one interrupt handler that    *)
(* the interrupt controller lets run at a time, the one printf() that      *)
(* pr.lock admits, and a panic(), which ignores pr.lock.                   *)
(***************************************************************************)
EXTENDS Naturals, Sequences

CONSTANTS Writers,
          UART_TX_BUF_SIZE, UINT64,  \* UINT64: values of the indices (2^64)
          DEPTH,                     \* of the device's FIFO, when enabled (16)
          Echoes,                    \* bytes that consoleintr() may echo for a key
          MaxBytes, MaxKeys          \* bounds: bytes of each source, keys typed

VARIABLES
  tx,        \* uart_tx_buf, uart_tx_r, uart_tx_w
  lock,      \* the set with the holder of uart_tx_lock, or empty
  panicked,
  pc, left,  \* pc[s], left[s]: where source s is; bytes it has still to write
  hand,      \* hand[s]: the byte on its way to THR, in a sequence
  dev,       \* fcr, ier: what uartinit() set; fifo; rx: input; irq: pending; keys
  seq, out   \* how many bytes of each source were written; have left

vars == <<tx, lock, panicked, pc, left, hand, dev, seq, out>>

Sources == Writers \cup {"intr", "printf", "panic"}

\* Mutant: the FIFO is left disabled.
uartinitNoFifo ==
  [fcr |-> {}, ier |-> {"tx", "rx"}, fifo |-> <<>>, rx |-> FALSE, irq |-> FALSE, keys |-> 0]

uartinit ==
  [fcr |-> {"enable"}, ier |-> {"tx", "rx"}, fifo |-> <<>>, rx |-> FALSE, irq |-> FALSE, keys |-> 0]

Init ==
  /\ tx = [buf |-> [k \in 0..(UART_TX_BUF_SIZE - 1) |-> <<>>], r |-> 0, w |-> 0]
  /\ lock = {} /\ panicked = FALSE
  /\ pc = [s \in Sources |-> "idle"] /\ left = [s \in Sources |-> 0]
  /\ hand = [s \in Sources |-> <<>>]
  /\ dev = uartinit
  /\ seq = [s \in Sources |-> 0] /\ out = [s \in Sources |-> 0]

-----------------------------------------------------------------------------
(* The device.                                                             *)

TxIdle == dev.fifo = <<>>

\* Writing THR also withdraws a transmit interrupt that is still pending.
WriteThr(b) ==
  LET room == IF "enable" \in dev.fcr THEN DEPTH ELSE 1 IN
  dev' = [dev EXCEPT !.fifo = IF Len(@) < room THEN Append(@, b) ELSE @, !.irq = FALSE]

\* A byte leaves; the device interrupts when the last one has left.
Transmit ==
  /\ ~TxIdle
  /\ dev' = [dev EXCEPT !.fifo = Tail(@), !.irq = Len(dev.fifo) = 1 /\ "tx" \in dev.ier]
  /\ LET b == Head(dev.fifo) IN out' = [out EXCEPT ![b[1]] = b[2] + 1]
  /\ UNCHANGED <<tx, lock, panicked, pc, left, hand, seq>>

Receive ==
  /\ ~dev.rx /\ "rx" \in dev.ier
  /\ dev.keys < MaxKeys /\ dev' = [dev EXCEPT !.rx = TRUE, !.keys = @ + 1]
  /\ UNCHANGED <<tx, lock, panicked, pc, left, hand, seq, out>>

-----------------------------------------------------------------------------
(* uartputc() and uartstart()                                              *)

Mod(k) == k % UINT64
Full == tx.w = Mod(tx.r + UART_TX_BUF_SIZE)

\* The next byte of write(): into the buffer, or to sleep when it is full.
uartputc(s) ==
  /\ pc[s] \in {"idle", "woken"} /\ lock = {} /\ seq[s] < MaxBytes[s]
  /\ \/ /\ panicked /\ pc[s] = "idle"
        /\ pc' = [pc EXCEPT ![s] = "spin"] /\ lock' = {s}
        /\ UNCHANGED <<tx, seq>>
     \/ /\ ~(panicked /\ pc[s] = "idle") /\ Full
        /\ pc' = [pc EXCEPT ![s] = "asleep"]
        /\ UNCHANGED <<tx, lock, seq>>
     \/ /\ ~(panicked /\ pc[s] = "idle") /\ ~Full
        /\ tx' = [tx EXCEPT !.buf[tx.w % UART_TX_BUF_SIZE] = <<s, seq[s]>>, !.w = Mod(@ + 1)]
        /\ seq' = [seq EXCEPT ![s] = @ + 1]
        /\ pc' = [pc EXCEPT ![s] = "start"] /\ lock' = {s}
  /\ UNCHANGED <<panicked, left, hand, dev, out>>

\* Mutant: uartstart() does not wake those who wait for room.
wakeupNot == pc

wakeup == [s \in Sources |-> IF pc[s] = "asleep" THEN "woken" ELSE pc[s]]

\* One round of uartstart(): return, or take a byte from the buffer ...
uartstart(s) ==
  /\ pc[s] = "start"
  /\ IF tx.w = tx.r \/ ~TxIdle
     THEN /\ pc' = [pc EXCEPT ![s] = "idle"] /\ lock' = {}
          /\ UNCHANGED <<tx, hand>>
     ELSE /\ hand' = [hand EXCEPT ![s] = <<tx.buf[tx.r % UART_TX_BUF_SIZE]>>]
          /\ tx' = [tx EXCEPT !.r = Mod(@ + 1)]
          /\ pc' = [wakeup EXCEPT ![s] = "thr"]
          /\ UNCHANGED lock
  /\ UNCHANGED <<panicked, left, dev, seq, out>>

\* ... and give it to the device.
Thr(s) ==
  /\ pc[s] = "thr" /\ WriteThr(hand[s][1])
  /\ hand' = [hand EXCEPT ![s] = <<>>] /\ pc' = [pc EXCEPT ![s] = "start"]
  /\ UNCHANGED <<tx, lock, panicked, left, seq, out>>

-----------------------------------------------------------------------------
(* uartputc_sync(), and its callers.                                       *)

\* Once the device is seen idle ...
uartputc_sync(s) ==
  /\ pc[s] = "sync"
  /\ \/ panicked /\ pc' = [pc EXCEPT ![s] = "spin"] /\ UNCHANGED <<hand, seq>>
     \/ /\ ~panicked /\ TxIdle
        /\ hand' = [hand EXCEPT ![s] = <<<<s, seq[s]>>>>]
        /\ seq' = [seq EXCEPT ![s] = @ + 1]
        /\ pc' = [pc EXCEPT ![s] = "syncthr"]
  /\ UNCHANGED <<tx, lock, panicked, left, dev, out>>

\* ... the byte is written, whatever others have written since.
SyncThr(s) ==
  /\ pc[s] = "syncthr" /\ WriteThr(hand[s][1])
  /\ hand' = [hand EXCEPT ![s] = <<>>]
  /\ left' = [left EXCEPT ![s] = @ - 1]
  /\ pc' = [pc EXCEPT ![s] = IF left[s] = 1 THEN "printed" ELSE "sync"]
  /\ UNCHANGED <<tx, lock, panicked, seq, out>>

Goto(s, from, to) == pc[s] = from /\ pc' = [pc EXCEPT ![s] = to]

printf == seq["printf"] < MaxBytes["printf"]
          /\ Goto("printf", "idle", "sync") /\ left' = [left EXCEPT !["printf"] = 1]
          /\ UNCHANGED <<tx, lock, panicked, hand, dev, seq, out>>

printfReturn == Goto("printf", "printed", "idle") /\ UNCHANGED <<tx, lock, panicked, left, hand, dev, seq, out>>

panic == seq["panic"] < MaxBytes["panic"]
         /\ Goto("panic", "idle", "sync") /\ left' = [left EXCEPT !["panic"] = 1]
         /\ UNCHANGED <<tx, lock, panicked, hand, dev, seq, out>>

panicEnd == Goto("panic", "printed", "spin") /\ panicked' = TRUE
            /\ UNCHANGED <<tx, lock, left, hand, dev, seq, out>>

Spin(s) == pc[s] = "spin" /\ UNCHANGED vars

-----------------------------------------------------------------------------
(* uartintr()                                                              *)

\* devintr() claims the interrupt.
Interrupt ==
  /\ dev.irq \/ dev.rx
  /\ Goto("intr", "idle", "getc") /\ dev' = [dev EXCEPT !.irq = FALSE]
  /\ UNCHANGED <<tx, lock, panicked, left, hand, seq, out>>

\* A byte of input: consoleintr() echoes it with uartputc_sync().
uartgetc ==
  /\ dev.rx /\ pc["intr"] \in {"getc", "printed"}
  /\ dev' = [dev EXCEPT !.rx = FALSE]
  /\ \E n \in Echoes : /\ left' = [left EXCEPT !["intr"] = n]
                       /\ pc' = [pc EXCEPT !["intr"] = IF n = 0 THEN "getc" ELSE "sync"]
  /\ UNCHANGED <<tx, lock, panicked, hand, seq, out>>

\* No more input: send what is buffered.
uartintr ==
  /\ ~dev.rx /\ pc["intr"] \in {"getc", "printed"} /\ lock = {}
  /\ lock' = {"intr"} /\ pc' = [pc EXCEPT !["intr"] = "start"]
  /\ UNCHANGED <<tx, panicked, left, hand, dev, seq, out>>

Next ==
  \/ Transmit \/ Receive \/ Interrupt \/ uartgetc \/ uartintr
  \/ printf \/ printfReturn \/ panic \/ panicEnd
  \/ \E s \in Writers : uartputc(s)
  \/ \E s \in Sources : uartstart(s) \/ Thr(s) \/ uartputc_sync(s) \/ SyncThr(s) \/ Spin(s)

Spec == Init /\ [][Next]_vars

-----------------------------------------------------------------------------
(* Properties.                                                             *)

Ring == [k \in 1..Mod(tx.w + UINT64 - tx.r) |-> tx.buf[Mod(tx.r + k - 1) % UART_TX_BUF_SIZE]]
InHand(s) == IF s \in Writers /\ lock # {} THEN hand[CHOOSE h \in lock : TRUE] ELSE hand[s]

\* Whatever the interleaving with echo, printf() and panic(), which take no
\* lock, every byte of a source reaches the line once and in order: what is on
\* its way continues what has left, without a gap.
OutputInOrder ==
  \A s \in Sources :
    LET way == SelectSeq(dev.fifo \o InHand(s) \o Ring, LAMBDA b : b[1] = s) IN
      /\ \A k \in DOMAIN way : way[k][2] = out[s] + k - 1
      /\ seq[s] = out[s] + Len(way)

\* Output does not get stuck: nobody sleeps in uartputc() beside a free slot,
\* and while something is buffered and uart_tx_lock is free, the device has
\* something to send, its interrupt is pending or the handler has still to call
\* uartstart().
OutputProceeds ==
  /\ \A s \in Writers : pc[s] = "asleep" => Full
  /\ ~panicked /\ tx.r # tx.w /\ lock = {} =>
       ~TxIdle \/ dev.irq \/ pc["intr"] # "idle"
=============================================================================
