----------------------------- MODULE VirtioDisk -----------------------------
(***************************************************************************)
(* The disk driver of kernel/virtio_disk.c and the device it shares the    *)
(* descriptors, the avail ring and the used ring with.                     *)
(*                                                                         *)
(* What the device cannot see is one step per critical section of          *)
(* vdisk_lock.  A thread has a buffer of its own, locked, and so a block   *)
(* of its own: both go by the thread's name.  A command header is kept     *)
(* with the descriptor that points to it.  A ring slot that was read is    *)
(* forgotten (None), as nothing may depend on it.                          *)
(***************************************************************************)
EXTENDS Naturals, FiniteSets

CONSTANTS Threads, Vals,
          NUM,          \* descriptors, and slots of each ring
          U16,          \* uint16 indices count modulo U16, 2^16 in the program
          None

Descs == 0..NUM-1

ASSUME VirtioAssumption ==
  /\ NUM \in Nat \ {0} /\ U16 \in Nat
  /\ \E m \in 1..U16 : U16 = m * NUM
  /\ None \notin Threads \cup Descs \cup Vals /\ None # "intr" /\ "intr" \notin Threads

VARIABLES
  free, desc,            \* struct disk: free[] as a set; the descriptors
  infob, status,         \* info[].b and info[].status
  availring, availidx, usedring, usedidx,
  used_idx,              \* as far as the driver has looked
  bdisk,                 \* b->disk of each thread's buffer
  lock,                  \* vdisk_lock: a thread, "intr" or None
  taken, lastavail,      \* device: chains at work; as far as it has looked
  irq,                   \* device: is interrupting
  platter, mem,          \* contents of the disk and of the buffers
  pc, op, head           \* each thread: label, request, idx[0]

rings == <<availring, availidx, usedring, usedidx, used_idx>>
device == <<taken, lastavail, irq>>
driver == <<free, desc, infob, bdisk>>
contents == <<platter, mem>>
thread == <<pc, op, head>>
vars == <<driver, status, rings, lock, device, contents, thread>>

-----------------------------------------------------------------------------
Goto(t, l) == pc' = [pc EXCEPT ![t] = l]

\* wakeup(&disk.free[0]), by t on its way to l.
GotoAndWakeFree(t, l) ==
  pc' = [u \in Threads |-> IF u = t THEN l ELSE IF pc[u] = "nofree" THEN "alloc" ELSE pc[u]]

NoDesc == [addr |-> None, next |-> FALSE, to |-> 0]

\* The descriptors of the chain from i on, as free_chain() walks it.
Chain(i) ==
  LET j == desc[i].to IN
  {i} \cup (IF desc[i].next THEN {j} \cup (IF desc[j].next THEN {desc[j].to} ELSE {}) ELSE {})

\* Where the chain from i on ends: its third descriptor.
Last(i) == desc[desc[i].to].to

-----------------------------------------------------------------------------
\* virtio_disk_rw() is called.  The buffer is the driver's until it returns; what
\* it holds matters if it is to be written.
virtio_disk_rw(t, o, v) ==
  /\ pc[t] = "idle"
  /\ o = "read" <=> v = None
  /\ op' = [op EXCEPT ![t] = o]
  /\ mem' = [mem EXCEPT ![t] = v]
  /\ Goto(t, "alloc")
  /\ UNCHANGED <<driver, status, rings, lock, device, platter, head>>

\* alloc3_desc() succeeds with the three lowest free descriptors.
alloc3_desc(a, b, c) ==
  /\ a < b /\ b < c
  /\ \A d \in free : d <= c => d \in {a, b, c}

\* It fails: what it got it frees again, and every free_desc() is a wakeup().
AllocFails(t) ==
  /\ pc[t] = "alloc" /\ lock = None
  /\ Cardinality(free) < 3
  /\ IF free = {} THEN Goto(t, "nofree") ELSE GotoAndWakeFree(t, "nofree")
  /\ UNCHANGED <<driver, status, rings, lock, device, contents, op, head>>

\* Format the descriptors, note the buffer, and put the head into the ring.
Format(t, a, b, c) ==
  /\ desc' = [desc EXCEPT ![a] = [addr |-> <<op[t], t>>, next |-> TRUE, to |-> b],
                          ![b] = [addr |-> <<"data", t>>, next |-> TRUE, to |-> c],
                          ![c] = [addr |-> <<"status", a>>, next |-> FALSE, to |-> 0]]
  /\ bdisk' = [bdisk EXCEPT ![t] = TRUE]
  /\ infob' = [infob EXCEPT ![a] = t]
  /\ head' = [head EXCEPT ![t] = a]

\* Mutants: the status byte is left as it was; the next slot is filled.
AllocStaleStatus(t) ==
  /\ pc[t] = "alloc" /\ lock = None
  /\ \E a, b, c \in free :
       /\ alloc3_desc(a, b, c)
       /\ free' = free \ {a, b, c}
       /\ Format(t, a, b, c)
       /\ availring' = [availring EXCEPT ![availidx % NUM] = a]
  /\ lock' = t /\ Goto(t, "publish")
  /\ UNCHANGED <<status, availidx, usedring, usedidx, used_idx, device, contents, op>>

Alloc(t) ==
  /\ pc[t] = "alloc" /\ lock = None
  /\ \E a, b, c \in free :
       /\ alloc3_desc(a, b, c)
       /\ free' = free \ {a, b, c}
       /\ Format(t, a, b, c)
       /\ status' = [status EXCEPT ![a] = 255]
       /\ availring' = [availring EXCEPT ![availidx % NUM] = a]
  /\ lock' = t /\ Goto(t, "publish")
  /\ UNCHANGED <<availidx, usedring, usedidx, used_idx, device, contents, op>>

\* The index tells the device of it; then sleep(b), which lets the lock go.
Publish(t) ==
  /\ pc[t] = "publish"
  /\ availidx' = (availidx + 1) % U16
  /\ lock' = None /\ Goto(t, "wait")
  /\ UNCHANGED <<driver, status, availring, usedring, usedidx, used_idx, device, contents, op, head>>

\* Awake, but b->disk is still 1.
WaitAgain(t) ==
  /\ pc[t] = "awake" /\ lock = None
  /\ bdisk[t]
  /\ Goto(t, "wait")
  /\ UNCHANGED <<driver, status, rings, lock, device, contents, op, head>>

\* Mutant: the last descriptor of the chain is lost.
FinishLosesOne(t) ==
  LET C == Chain(head[t]) \ {Last(head[t])} IN
  /\ pc[t] = "awake" /\ lock = None
  /\ ~bdisk[t]
  /\ free' = free \cup C
  /\ desc' = [i \in Descs |-> IF i \in C THEN NoDesc ELSE desc[i]]
  /\ infob' = [infob EXCEPT ![head[t]] = None]
  /\ head' = [head EXCEPT ![t] = None]
  /\ op' = [op EXCEPT ![t] = "none"]
  /\ mem' = [mem EXCEPT ![t] = None]
  /\ GotoAndWakeFree(t, "idle")
  /\ UNCHANGED <<bdisk, status, rings, lock, device, platter>>

\* The request has finished: free_chain(idx[0]).
Finish(t) ==
  /\ pc[t] = "awake" /\ lock = None
  /\ ~bdisk[t]
  /\ free' = free \cup Chain(head[t])
  /\ desc' = [i \in Descs |-> IF i \in Chain(head[t]) THEN NoDesc ELSE desc[i]]
  /\ infob' = [infob EXCEPT ![head[t]] = None]
  /\ head' = [head EXCEPT ![t] = None]
  /\ op' = [op EXCEPT ![t] = "none"]
  /\ mem' = [mem EXCEPT ![t] = None]
  /\ GotoAndWakeFree(t, "idle")
  /\ UNCHANGED <<bdisk, status, rings, lock, device, platter>>

\* kill() makes a sleeper runnable, whatever it sleeps for.
kill(t) ==
  /\ \/ pc[t] = "nofree" /\ Goto(t, "alloc")
     \/ pc[t] = "wait" /\ Goto(t, "awake")
  /\ UNCHANGED <<driver, status, rings, lock, device, contents, op, head>>

-----------------------------------------------------------------------------
(* virtio_disk_intr()                                                      *)

\* Acknowledge the interrupt, before the used ring is looked at.
IntrAck ==
  /\ irq /\ lock = None
  /\ irq' = FALSE /\ lock' = "intr"
  /\ UNCHANGED <<driver, status, rings, taken, lastavail, contents, thread>>

\* Mutant: one entry for one interrupt.
IntrEntryOne ==
  /\ lock = "intr" /\ used_idx # usedidx
  /\ LET t == infob[usedring[used_idx % NUM]] IN
       /\ bdisk' = [bdisk EXCEPT ![t] = FALSE]
       /\ pc' = [pc EXCEPT ![t] = IF @ = "wait" THEN "awake" ELSE @]
  /\ usedring' = [usedring EXCEPT ![used_idx % NUM] = None]
  /\ lock' = None
  /\ used_idx' = (used_idx + 1) % U16
  /\ UNCHANGED <<free, desc, infob, status, availring, availidx, usedidx, device, contents, op, head>>

\* One entry of the used ring.
IntrEntry ==
  /\ lock = "intr" /\ used_idx # usedidx
  /\ LET t == infob[usedring[used_idx % NUM]] IN
       /\ bdisk' = [bdisk EXCEPT ![t] = FALSE]
       /\ pc' = [pc EXCEPT ![t] = IF @ = "wait" THEN "awake" ELSE @]
  /\ usedring' = [usedring EXCEPT ![used_idx % NUM] = None]
  /\ used_idx' = (used_idx + 1) % U16
  /\ UNCHANGED <<free, desc, infob, status, availring, availidx, usedidx, lock, device, contents, op, head>>

IntrEnd ==
  /\ lock = "intr" /\ used_idx = usedidx
  /\ lock' = None
  /\ UNCHANGED <<driver, status, rings, device, contents, thread>>

-----------------------------------------------------------------------------
(* The device (external: what the driver's comments and the virtio         *)
(* specification it quotes say of it).                                     *)

DevTake ==
  /\ lastavail # availidx
  /\ taken' = taken \cup {availring[lastavail % NUM]}
  /\ availring' = [availring EXCEPT ![lastavail % NUM] = None]
  /\ lastavail' = (lastavail + 1) % U16
  /\ UNCHANGED <<driver, status, availidx, usedring, usedidx, used_idx, lock, irq, contents, thread>>

\* It does what the chain from i on says, in any order, and then the status byte.
DevMove(i) ==
  LET o == desc[i].addr[1]               \* the header: the operation,
      s == desc[i].addr[2]               \* and the sector
      m == desc[desc[i].to].addr[2]      \* the data
      b == desc[Last(i)].addr[2] IN      \* the status byte
  /\ i \in taken /\ status[i] # 0 /\ desc[i].next
  /\ \/ o = "read" /\ mem' = [mem EXCEPT ![m] = platter[s]] /\ UNCHANGED platter
     \/ o = "write" /\ platter' = [platter EXCEPT ![s] = mem[m]] /\ UNCHANGED mem
  /\ status' = [status EXCEPT ![b] = 0]
  /\ UNCHANGED <<driver, rings, lock, device, thread>>

\* Then the used ring, and the interrupt.
DevUsed(i) ==
  /\ i \in taken /\ status[i] = 0
  /\ taken' = taken \ {i}
  /\ usedring' = [usedring EXCEPT ![usedidx % NUM] = i]
  /\ usedidx' = (usedidx + 1) % U16
  /\ irq' = TRUE
  /\ UNCHANGED <<driver, status, availring, availidx, used_idx, lock, lastavail, contents, thread>>

-----------------------------------------------------------------------------
\* After virtio_disk_init().
Init ==
  /\ free = Descs /\ desc = [i \in Descs |-> NoDesc]
  /\ infob = [i \in Descs |-> None] /\ status = [i \in Descs |-> 0]
  /\ availring = [i \in Descs |-> None] /\ availidx = 0
  /\ usedring = [i \in Descs |-> None] /\ usedidx = 0 /\ used_idx = 0
  /\ bdisk = [t \in Threads |-> FALSE] /\ lock = None
  /\ taken = {} /\ lastavail = 0 /\ irq = FALSE
  /\ platter \in [Threads -> Vals] /\ mem = [t \in Threads |-> None]
  /\ pc = [t \in Threads |-> "idle"] /\ op = [t \in Threads |-> "none"]
  /\ head = [t \in Threads |-> None]

Intr == IntrAck \/ IntrEntry \/ IntrEnd
Device == DevTake \/ (\E i \in Descs : DevMove(i) \/ DevUsed(i))

Next ==
  \/ \E t \in Threads :
       \/ \E o \in {"read", "write"}, v \in Vals \cup {None} : virtio_disk_rw(t, o, v)
       \/ AllocFails(t) \/ Alloc(t)
       \/ Publish(t) \/ WaitAgain(t) \/ Finish(t) \/ kill(t)
  \/ Intr \/ Device

Spec == Init /\ [][Next]_vars

-----------------------------------------------------------------------------
(* Properties.                                                             *)

InDriver == {"publish", "wait", "awake"}

Entries == Descs \cup {None}

\* The types of the C declarations.
TypeOK ==
  /\ free \subseteq Descs /\ infob \in [Descs -> Threads \cup {None}]
  /\ \A i \in Descs : desc[i].next \in BOOLEAN /\ desc[i].to \in Descs
  /\ status \in [Descs -> {0, 255}]
  /\ availring \in [Descs -> Entries] /\ usedring \in [Descs -> Entries]
  /\ {availidx, usedidx, used_idx, lastavail} \subseteq 0..U16-1
  /\ bdisk \in [Threads -> BOOLEAN] /\ lock \in Threads \cup {"intr", None}
  /\ taken \subseteq Descs /\ irq \in BOOLEAN
  /\ platter \in [Threads -> Vals] /\ mem \in [Threads -> Vals \cup {None}]
  /\ pc \in [Threads -> {"idle", "alloc", "nofree"} \cup InDriver]
  /\ op \in [Threads -> {"none", "read", "write"}] /\ head \in [Threads -> Entries]

\* The descriptors in use are exactly those of the requests in the driver, three
\* for each and no two requests share one: free_desc() never panics, and none is
\* lost for good.
DescsAccounted ==
  LET R == {t \in Threads : pc[t] \in InDriver} IN
  /\ Descs \ free = UNION {Chain(head[t]) : t \in R}
  /\ Cardinality(Descs \ free) = 3 * Cardinality(R)

\* No completion is forgotten: while the used ring holds an entry that the driver
\* has not seen, its handler is at work or an interrupt is pending.  And who
\* waits for a request that the handler has seen finished is awake, and nobody
\* sleeps for descriptors while there are three of them.
NoLostDiskWakeup ==
  /\ used_idx # usedidx => irq \/ lock = "intr"
  /\ \A t \in Threads : pc[t] = "wait" => bdisk[t]
  /\ \A t \in Threads : pc[t] = "nofree" => Cardinality(free) < 3

Moved == [t \in Threads |-> pc[t] \in InDriver /\ status[head[t]] = 0]

D == INSTANCE DiskRequests WITH req <- op, moved <- Moved

\* For its callers, virtio_disk_rw() moves their block once, in the direction
\* asked for and before it returns, however the device orders its work.
RequestsServed == D!DSpec
=============================================================================
