-------------------------- MODULE VirtioDiskProofs --------------------------
(***************************************************************************)
(* Proofs about VirtioDisk, for any number of threads and of descriptors:  *)
(* no descriptor is lost or freed twice, no completion is forgotten, and   *)
(* the driver with its two rings serves the requests of DiskRequests.      *)
(***************************************************************************)
EXTENDS VirtioDisk, Integers, FiniteSetTheorems, TLAPS

-----------------------------------------------------------------------------
(* The inductive invariant.                                                *)

Addrs == {None} \cup ({"read", "write", "data"} \X Threads) \cup ({"status"} \X Descs)
Recs == [addr : Addrs, next : BOOLEAN, to : Descs]

\* Who has a request with the driver, and the descriptors of the request.
Requests == {t \in Threads : pc[t] \in InDriver}
Mid(t) == desc[head[t]].to
End(t) == desc[Mid(t)].to
Own(t) == {head[t], Mid(t), End(t)}

\* The chain of t's request is as Format() left it.
ChainOK(t) ==
  /\ Own(t) \subseteq Descs \ free
  /\ head[t] # Mid(t) /\ head[t] # End(t) /\ Mid(t) # End(t)
  /\ desc[head[t]].next = TRUE /\ desc[Mid(t)].next = TRUE /\ desc[End(t)].next = FALSE
  /\ desc[head[t]].addr = <<op[t], t>>
  /\ desc[Mid(t)].addr = <<"data", t>> /\ desc[End(t)].addr = <<"status", head[t]>>
  /\ infob[head[t]] = t /\ op[t] \in {"read", "write"}

\* Requests share no descriptor, and one that is not free belongs to one.
ChainInv ==
  /\ \A t \in Requests : ChainOK(t)
  /\ \A t, u \in Requests : t # u => Own(t) \cap Own(u) = {}
  /\ \A i \in Descs \ free : \E t \in Requests : i \in Own(t)

CountInv ==
  IsFiniteSet(Requests) /\ Cardinality(Descs \ free) = 3 * Cardinality(Requests)

LockInv == \A t \in Threads : pc[t] = "publish" <=> lock = t

WakeInv ==
  /\ used_idx # usedidx => irq \/ lock = "intr"
  /\ \A t \in Threads : pc[t] \in {"publish", "wait"} => bdisk[t] = TRUE
  /\ \A t \in Threads : pc[t] = "nofree" => Cardinality(free) < 3

CallInv ==
  \A t \in Threads : (op[t] = "none" <=> pc[t] = "idle") /\ (op[t] = "write" => mem[t] \in Vals)

\* What a ring holds, and where: n slots from index i on.
Slots(ring) == {s \in Descs : ring[s] # None}
Held(ring) == {ring[s] : s \in Slots(ring)}
Window(i, n) == {(i + j) % NUM : j \in 0..n-1}

\* A ring whose oldest entry is at index i.
RingFrom(ring, i) ==
  /\ ring \in [Descs -> Entries]
  /\ \A s, r \in Slots(ring) : ring[s] = ring[r] => s = r
  /\ Slots(ring) = Window(i, Cardinality(Held(ring)))

\* i is the head of a request that the handler has not seen finished.
Pending(i) ==
  infob[i] \in Requests /\ head[infob[i]] = i /\ bdisk[infob[i]] = TRUE

\* A head is in one place: the avail ring, the device's hands, or the used ring.
PlaceInv ==
  /\ \A i \in Held(availring) : i \in Descs /\ Pending(i) /\ status[i] = 255
  /\ \A i \in taken : Pending(i)
  /\ \A i \in Held(usedring) : i \in Descs /\ Pending(i) /\ status[i] = 0
  /\ Held(availring) \cap taken = {} /\ Held(availring) \cap Held(usedring) = {}
  /\ taken \cap Held(usedring) = {}
  /\ \A t \in Requests : bdisk[t] = FALSE => status[head[t]] = 0

\* The indices delimit what the rings hold.  One is put into the avail ring before
\* its index says so.
RingInv ==
  /\ RingFrom(availring, lastavail) /\ RingFrom(usedring, used_idx)
  /\ usedidx = (used_idx + Cardinality(Held(usedring))) % U16
  /\ lock \in Threads =>
       /\ Cardinality(Held(availring)) > 0
       /\ availidx = (lastavail + (Cardinality(Held(availring)) - 1)) % U16
  /\ lock \notin Threads =>
       availidx = (lastavail + Cardinality(Held(availring))) % U16

\* TypeOK, with the descriptors' contents.
Types ==
  /\ free \subseteq Descs /\ infob \in [Descs -> Threads \cup {None}]
  /\ desc \in [Descs -> Recs] /\ status \in [Descs -> {0, 255}]
  /\ availring \in [Descs -> Entries] /\ usedring \in [Descs -> Entries]
  /\ availidx \in 0..U16-1 /\ usedidx \in 0..U16-1
  /\ used_idx \in 0..U16-1 /\ lastavail \in 0..U16-1
  /\ bdisk \in [Threads -> BOOLEAN] /\ lock \in Threads \cup {"intr", None}
  /\ taken \subseteq Descs /\ irq \in BOOLEAN
  /\ platter \in [Threads -> Vals] /\ mem \in [Threads -> Vals \cup {None}]
  /\ pc \in [Threads -> {"idle", "alloc", "nofree"} \cup InDriver]
  /\ op \in [Threads -> {"none", "read", "write"}] /\ head \in [Threads -> Entries]

Inv ==
  /\ Types
  /\ ChainInv /\ CountInv /\ LockInv /\ WakeInv /\ CallInv /\ PlaceInv /\ RingInv

\* Zenon proves what a step does not give to another prover.
USE Zenon

-----------------------------------------------------------------------------
(* Remainders, which the indices of a ring are.                           *)

\* Division with remainder.
LEMMA DivMod ==
  ASSUME NEW a \in Nat, NEW b \in Nat \ {0}
  PROVE  \E q \in Nat, r \in 0..b-1 : a = b * q + r
<1>1. PICK q \in Int, r \in Int : q = a \div b /\ r = a % b
  BY SMT
<1>2. r \in 0..b-1
  BY <1>1, SMT
<1>3. a = b * q + r
  BY <1>1, SMT
<1>4. ASSUME q < 0 PROVE FALSE
  <2>1. b * q <= b * (-1)
    BY <1>4, SMT
  <2>2. QED
    BY <1>2, <1>3, <2>1, SMT
<1>5. QED
  BY <1>2, <1>3, <1>4, SMT

\* The remainder is the only one.
LEMMA ModUnique ==
  ASSUME NEW b \in Nat \ {0}, NEW q \in Nat, NEW r \in 0..b-1
  PROVE  (b * q + r) % b = r
BY SMT

\* Multiples of the modulus do not matter.
LEMMA ModAdd ==
  ASSUME NEW b \in Nat \ {0}, NEW a \in Nat, NEW m \in Nat
  PROVE  (a + m * b) % b = a % b
<1>1. PICK q \in Nat, r \in 0..b-1 : a = b * q + r
  BY DivMod
<1>2. a + m * b = b * (q + m) + r /\ q + m \in Nat
  BY <1>1, SMT
<1>3. QED
  BY <1>1, <1>2, ModUnique

\* Numbers closer than the modulus have different remainders.
LEMMA ModDistinct ==
  ASSUME NEW b \in Nat \ {0}, NEW x \in Nat, NEW d \in 1..b-1
  PROVE  (x + d) % b # x % b
<1>1. PICK q \in Nat, r \in 0..b-1 : x = b * q + r
  BY DivMod
<1>2. \/ r + d \in 0..b-1 /\ x + d = b * q + (r + d)
      \/ r + d - b \in 0..b-1 /\ q + 1 \in Nat /\ x + d = b * (q + 1) + (r + d - b)
  BY <1>1, SMT
<1>3. x % b = r /\ (x + d) % b \in {r + d, r + d - b}
  BY <1>1, <1>2, ModUnique
<1>4. QED
  BY <1>3, SMT

\* A remainder may be taken before or after an addition.
LEMMA ModPlus ==
  ASSUME NEW b \in Nat \ {0}, NEW a \in Nat, NEW d \in Nat
  PROVE  ((a % b) + d) % b = (a + d) % b
<1>1. PICK q \in Nat, r \in 0..b-1 : a = b * q + r
  BY DivMod
<1>2. a % b = r
  BY <1>1, ModUnique
<1>3. a + d = (r + d) + q * b /\ r + d \in Nat
  BY <1>1, SMT
<1>4. ((r + d) + q * b) % b = (r + d) % b
  BY <1>3, ModAdd
<1>5. QED
  BY <1>2, <1>3, <1>4

\* A remainder is in range, and a number in range is its own.
LEMMA ModRange ==
  ASSUME NEW b \in Nat \ {0}, NEW a \in Nat
  PROVE  a % b \in 0..b-1 /\ (a \in 0..b-1 => a % b = a)
BY SMT

-----------------------------------------------------------------------------
(* The rings.                                                              *)

\* The sizes, and that the indices wrap at a multiple of the rings' size.
LEMMA Sizes ==
  /\ NUM \in Nat \ {0} /\ U16 \in Nat \ {0} /\ NUM <= U16
  /\ \E m \in Nat : U16 = m * NUM
  /\ IsFiniteSet(Descs) /\ Cardinality(Descs) = NUM
<1>1. PICK m \in 1..U16 : U16 = m * NUM
  BY VirtioAssumption
<1>2. NUM \in Nat \ {0} /\ U16 \in Nat /\ m \in Nat /\ m >= 1
  BY VirtioAssumption, SMT
<1>3. m * NUM = (m - 1) * NUM + NUM /\ (m - 1) * NUM >= 0
  BY <1>2, SMT
<1>4. NUM <= U16 /\ U16 \in Nat \ {0}
  BY <1>1, <1>2, <1>3, SMT
<1>5. IsFiniteSet(Descs) /\ Cardinality(Descs) = NUM
  <2>1. 0 \in Int /\ NUM - 1 \in Int /\ ~(0 > NUM - 1) /\ NUM - 1 - 0 + 1 = NUM
    BY <1>2, SMT
  <2>2. QED
    BY <2>1, FS_Interval DEF Descs
<1>6. QED
  BY <1>1, <1>2, <1>4, <1>5

\* A slot's number is that of a descriptor.
LEMMA SlotIsDesc ==
  ASSUME NEW k \in Nat
  PROVE  k % NUM \in Descs
BY Sizes, ModRange DEF Descs

\* The slot of an index does not depend on where the index wraps.
LEMMA IndexMod ==
  ASSUME NEW a \in Nat, NEW d \in Nat
  PROVE  ((a % U16) + d) % NUM = (a + d) % NUM
<1>1. PICK m \in Nat : U16 = m * NUM
  BY Sizes
<1>2. PICK q \in Nat, r \in 0..U16-1 : a = U16 * q + r
  BY Sizes, DivMod
<1>3. a % U16 = r
  BY <1>2, Sizes, ModUnique
<1>4. U16 * q = (m * q) * NUM /\ m * q \in Nat
  BY <1>1, Sizes, SMT
<1>5. a + d = (r + d) + (m * q) * NUM /\ r + d \in Nat
  BY <1>2, <1>4, Sizes, SMT
<1>6. ((r + d) + (m * q) * NUM) % NUM = (r + d) % NUM
  BY <1>4, <1>5, Sizes, ModAdd
<1>7. QED
  BY <1>3, <1>5, <1>6

\* Neither do sums of indices.
LEMMA IndexPlus ==
  ASSUME NEW a \in Nat, NEW d \in Nat
  PROVE  ((a % U16) + d) % U16 = (a + d) % U16
BY Sizes, ModPlus

\* One more entry takes the slot after the last, which is not of the window.
LEMMA WindowGrows ==
  ASSUME NEW i \in Nat, NEW n \in Nat
  PROVE  /\ Window(i, n + 1) = Window(i, n) \cup {(i + n) % NUM}
         /\ n < NUM => (i + n) % NUM \notin Window(i, n)
<1>1. 0..(n + 1) - 1 = (0..n-1) \cup {n}
  BY SMT
<1>2. Window(i, n + 1) = Window(i, n) \cup {(i + n) % NUM}
  BY <1>1 DEF Window
<1>3. ASSUME n < NUM, NEW j \in 0..n-1 PROVE (i + j) % NUM # (i + n) % NUM
  <2>1. i + j \in Nat /\ n - j \in 1..NUM-1 /\ (i + j) + (n - j) = i + n
    BY <1>3, Sizes, SMT
  <2>2. ((i + j) + (n - j)) % NUM # (i + j) % NUM
    BY <2>1, Sizes, ModDistinct
  <2>3. QED
    BY <2>1, <2>2
<1>4. QED
  BY <1>2, <1>3 DEF Window

\* An entry less: the window starts at the next index, though that may wrap.
LEMMA WindowShifts ==
  ASSUME NEW i \in Nat, NEW n \in 1..NUM
  PROVE  /\ i % NUM \in Window(i, n)
         /\ Window((i + 1) % U16, n - 1) = Window(i, n) \ {i % NUM}
<1>1. i % NUM \in Window(i, n)
  <2>1. 0 \in 0..n-1 /\ i + 0 = i
    BY SMT
  <2>2. QED
    BY <2>1 DEF Window
<1>2. ASSUME NEW j \in Nat PROVE (((i + 1) % U16) + j) % NUM = (i + (j + 1)) % NUM
  <2>1. i + 1 \in Nat /\ (i + 1) + j = i + (j + 1)
    BY SMT
  <2>2. (((i + 1) % U16) + j) % NUM = ((i + 1) + j) % NUM
    BY <2>1, IndexMod
  <2>3. QED
    BY <2>1, <2>2
<1>3. ASSUME NEW j \in 1..n-1 PROVE (i + j) % NUM # i % NUM
  <2>1. j \in 1..NUM-1
    BY Sizes, SMT
  <2>2. QED
    BY <2>1, Sizes, ModDistinct
<1>4. ASSUME NEW x \in Window((i + 1) % U16, n - 1) PROVE x \in Window(i, n) \ {i % NUM}
  <2>1. PICK j \in 0..(n - 1) - 1 : x = (((i + 1) % U16) + j) % NUM
    BY <1>4 DEF Window
  <2>2. j \in Nat /\ j + 1 \in 1..n-1 /\ j + 1 \in 0..n-1
    BY SMT
  <2>3. QED
    BY <1>2, <1>3, <2>1, <2>2 DEF Window
<1>5. ASSUME NEW x \in Window(i, n), x # i % NUM PROVE x \in Window((i + 1) % U16, n - 1)
  <2>1. PICK j \in 0..n-1 : x = (i + j) % NUM
    BY <1>5 DEF Window
  <2>2. j # 0
    <3>1. i + 0 = i
      BY SMT
    <3>2. QED
      BY <1>5, <2>1, <3>1
  <2>3. j - 1 \in Nat /\ j - 1 \in 0..(n - 1) - 1 /\ (j - 1) + 1 = j
    BY <2>2, SMT
  <2>4. QED
    BY <1>2, <2>1, <2>3 DEF Window
<1>6. QED
  BY <1>1, <1>4, <1>5

\* What a ring holds is finite, no more than there are descriptors, and none of
\* it is in a slot outside the window.
LEMMA HeldFinite ==
  ASSUME NEW ring \in [Descs -> Entries]
  PROVE  /\ Held(ring) \subseteq Descs /\ IsFiniteSet(Held(ring))
         /\ Cardinality(Held(ring)) \in Nat /\ Cardinality(Held(ring)) <= NUM
<1>1. Held(ring) \subseteq Descs
  BY DEF Held, Slots, Entries
<1>2. IsFiniteSet(Held(ring)) /\ Cardinality(Held(ring)) <= NUM
  BY <1>1, Sizes, FS_Subset
<1>3. QED
  BY <1>1, <1>2, FS_CardinalityType

\* The slot of the index that counts the entries made so far gets an entry.
Put(ring, i, a) == [ring EXCEPT ![((i + Cardinality(Held(ring))) % U16) % NUM] = a]

\* An entry is added to the avail ring by virtio_disk_rw(), or to the used ring by
\* the device: it overwrites nothing.
LEMMA RingPut ==
  ASSUME NEW ring, NEW i \in 0..U16-1, RingFrom(ring, i), NEW a \in Descs, a \notin Held(ring)
  PROVE  /\ RingFrom(Put(ring, i, a), i) /\ Held(Put(ring, i, a)) = Held(ring) \cup {a}
         /\ Cardinality(Held(Put(ring, i, a))) = Cardinality(Held(ring)) + 1
<1>a. PICK n, s, new :
        n = Cardinality(Held(ring)) /\ s = ((i + n) % U16) % NUM /\ new = Put(ring, i, a)
  OBVIOUS
<1>0. ring \in [Descs -> Entries] /\ n \in Nat /\ IsFiniteSet(Held(ring)) /\ Held(ring) \subseteq Descs
  BY <1>a, HeldFinite DEF RingFrom
<1>1. n < NUM
  <2>1. IsFiniteSet(Descs \ {a}) /\ Cardinality(Descs \ {a}) = NUM - 1
    BY <1>a, Sizes, FS_RemoveElement
  <2>2. n <= NUM - 1
    BY <1>a, <1>0, <2>1, FS_Subset
  <2>3. QED
    BY <1>a, <1>0, <2>2, Sizes, SMT
<1>2. i \in Nat /\ i + n \in Nat
  BY <1>a, <1>0, Sizes, SMT
<1>3. s = (i + n) % NUM
  <2>1. (((i + n) % U16) + 0) % NUM = ((i + n) + 0) % NUM
    BY <1>a, <1>2, IndexMod
  <2>2. i + n + 0 = i + n /\ ((i + n) % U16) + 0 = (i + n) % U16
    BY <1>a, <1>2, Sizes, SMT
  <2>3. QED
    BY <1>a, <2>1, <2>2
<1>4. s \in Descs
  BY <1>a, <1>2, <1>3, SlotIsDesc
<1>5. s \notin Slots(ring) /\ Window(i, n + 1) = Slots(ring) \cup {s}
  <2>1. Slots(ring) = Window(i, n)
    BY <1>a DEF RingFrom
  <2>2. Window(i, n + 1) = Window(i, n) \cup {(i + n) % NUM} /\ (i + n) % NUM \notin Window(i, n)
    BY <1>0, <1>1, <1>2, WindowGrows
  <2>3. QED
    BY <1>3, <2>1, <2>2
<1>6. /\ new \in [Descs -> Entries] /\ new[s] = a
      /\ \A r \in Descs \ {s} : new[r] = ring[r]
  BY <1>a, <1>0, <1>4 DEF Entries, Put
<1>7. Slots(new) = Slots(ring) \cup {s}
  BY <1>a, <1>4, <1>6, VirtioAssumption DEF Slots
<1>8. Held(new) = Held(ring) \cup {a}
  <2>1. \A r \in Slots(ring) : r \in Descs \ {s}
    BY <1>a, <1>5 DEF Slots
  <2>2. ASSUME NEW x \in Held(new) PROVE x \in Held(ring) \cup {a}
    BY <1>6, <1>7, <2>1 DEF Held
  <2>3. \A r \in Slots(ring) : new[r] = ring[r] /\ r \in Slots(new)
    BY <1>a, <1>6, <1>7, <2>1
  <2>4. Held(ring) \subseteq Held(new)
    BY <2>3 DEF Held
  <2>5. a \in Held(new)
    BY <1>6, <1>7 DEF Held
  <2>6. QED
    BY <2>2, <2>4, <2>5
<1>9. Cardinality(Held(new)) = n + 1
  BY <1>a, <1>0, <1>8, FS_AddElement
<1>10. \A x, y \in Slots(new) : new[x] = new[y] => x = y
  <2>1. \A x \in Slots(ring) : new[x] = ring[x] /\ new[x] # a
    BY <1>a, <1>5, <1>6 DEF Slots, Held
  <2>2. \A x, y \in Slots(ring) : new[x] = new[y] => x = y
    BY <2>1 DEF RingFrom
  <2>3. QED
    BY <1>6, <1>7, <2>1, <2>2, SMT
<1>11. QED
  BY <1>a, <1>5, <1>6, <1>7, <1>8, <1>9, <1>10 DEF RingFrom

\* The oldest entry is taken: from the avail ring by the device and from the used
\* ring by virtio_disk_intr().
LEMMA RingGet ==
  ASSUME NEW ring, NEW i \in 0..U16-1, RingFrom(ring, i), Held(ring) # {},
         NEW new, new = [ring EXCEPT ![i % NUM] = None]
  PROVE  /\ RingFrom(new, (i + 1) % U16)
         /\ ring[i % NUM] \in Held(ring) /\ Held(new) = Held(ring) \ {ring[i % NUM]}
         /\ Cardinality(Held(new)) = Cardinality(Held(ring)) - 1
<1>a. PICK n, s : n = Cardinality(Held(ring)) /\ s = i % NUM
  OBVIOUS
<1>0. ring \in [Descs -> Entries] /\ n \in Nat /\ IsFiniteSet(Held(ring)) /\ n <= NUM
  BY <1>a, HeldFinite DEF RingFrom
<1>1. n \in 1..NUM /\ i \in Nat
  <2>1. n # 0
    BY <1>a, <1>0, FS_EmptySet
  <2>2. QED
    BY <1>a, <1>0, <2>1, Sizes, SMT
<1>2. s \in Slots(ring) /\ Window((i + 1) % U16, n - 1) = Slots(ring) \ {s}
  BY <1>a, <1>1, WindowShifts DEF RingFrom
<1>3. s \in Descs /\ ring[s] # None /\ ring[s] \in Held(ring)
  BY <1>a, <1>2 DEF Slots, Held
<1>4. /\ new \in [Descs -> Entries] /\ new[s] = None
      /\ \A r \in Descs \ {s} : new[r] = ring[r]
  BY <1>a, <1>0, <1>3 DEF Entries
<1>5. Slots(new) = Slots(ring) \ {s}
  BY <1>a, <1>3, <1>4 DEF Slots
<1>6. \A x \in Slots(new) : new[x] = ring[x] /\ x \in Slots(ring) /\ ring[x] # ring[s]
  BY <1>a, <1>2, <1>4, <1>5 DEF RingFrom, Slots
<1>7. Held(new) = Held(ring) \ {ring[s]}
  BY <1>a, <1>5, <1>6 DEF Held
<1>8. Cardinality(Held(new)) = n - 1
  <2>1. PICK e : e = ring[s]
    OBVIOUS
  <2>2. Cardinality(Held(ring) \ {e}) = Cardinality(Held(ring)) - 1
    BY <1>0, <1>3, <2>1, FS_RemoveElement
  <2>3. QED
    BY <1>a, <1>7, <2>1, <2>2
<1>9. \A x, y \in Slots(new) : new[x] = new[y] => x = y
  BY <1>a, <1>6 DEF RingFrom
<1>10. QED
  BY <1>a, <1>2, <1>3, <1>4, <1>5, <1>7, <1>8, <1>9 DEF RingFrom

-----------------------------------------------------------------------------
(* The chains.                                                             *)

\* What free_chain() walks over is the request's three descriptors.
LEMMA ChainIsOwn ==
  ASSUME NEW t \in Threads, ChainOK(t)
  PROVE  Chain(head[t]) = Own(t) /\ Last(head[t]) = End(t)
<1>1. Last(head[t]) = End(t)
  BY DEF Last, End, Mid
<1>2. desc[head[t]].next /\ desc[desc[head[t]].to].next
  BY DEF ChainOK, Mid
<1>3. QED
  BY <1>1, <1>2 DEF Chain, Own, End, Mid

\* While nobody enters or leaves the driver, the chains stay as they are.
LEMMA ChainsKept ==
  ASSUME ChainInv, Requests' = Requests, UNCHANGED <<free, desc, infob, head>>,
         \A t \in Requests : op'[t] = op[t]
  PROVE  ChainInv'
<1>1. ASSUME NEW t \in Requests PROVE Mid(t)' = Mid(t) /\ End(t)' = End(t) /\ Own(t)' = Own(t)
  BY DEF Mid, End, Own
<1>2. ASSUME NEW t \in Requests PROVE ChainOK(t)'
  <2>1. ChainOK(t) /\ op'[t] = op[t]
    BY DEF ChainInv
  <2>2. Mid(t)' = Mid(t) /\ End(t)' = End(t) /\ Own(t)' = Own(t)
    BY <1>1
  <2>3. QED
    BY <2>1, <2>2 DEF ChainOK
<1>3. \A t, u \in Requests' : t # u => Own(t)' \cap Own(u)' = {}
  BY <1>1 DEF ChainInv
<1>4. ASSUME NEW i \in Descs \ free' PROVE \E t \in Requests' : i \in Own(t)'
  <2>1. PICK t \in Requests : i \in Own(t)
    BY DEF ChainInv
  <2>2. Own(t)' = Own(t)
    BY <1>1
  <2>3. QED
    BY <2>1, <2>2
<1>5. QED
  BY <1>2, <1>3, <1>4 DEF ChainInv

\* And so does their number.
LEMMA CountKept ==
  ASSUME CountInv, Requests' = Requests, UNCHANGED free
  PROVE  CountInv'
BY DEF CountInv

\* Requests in the driver stay in the driver when only labels inside it change.
LEMMA RequestsKept ==
  ASSUME \A t \in Threads : pc'[t] \in InDriver <=> pc[t] \in InDriver
  PROVE  Requests' = Requests
BY DEF Requests

\* What PlaceInv says of a head in the avail ring.
LEMMA InAvail ==
  ASSUME PlaceInv, NEW i \in Held(availring)
  PROVE  i \in Descs /\ Pending(i) /\ status[i] = 255 /\ i \notin taken /\ i \notin Held(usedring)
BY DEF PlaceInv

\* And in the used ring.
LEMMA InUsed ==
  ASSUME PlaceInv, NEW i \in Held(usedring)
  PROVE  i \in Descs /\ Pending(i) /\ status[i] = 0 /\ i \notin taken /\ i \notin Held(availring)
BY DEF PlaceInv

\* And of a request that the handler has seen.
LEMMA SeenMoved ==
  ASSUME PlaceInv, NEW t \in Requests, bdisk[t] = FALSE
  PROVE  status[head[t]] = 0
BY DEF PlaceInv

\* Where the heads are does not depend on who waits for what.
LEMMA PlacesKept ==
  ASSUME PlaceInv, Requests' = Requests, UNCHANGED <<infob, head, bdisk, status, availring, usedring, taken>>
  PROVE  PlaceInv'
<1>1. \A i : Pending(i) => Pending(i)'
  BY DEF Pending
<1>2. Held(availring)' = Held(availring) /\ Held(usedring)' = Held(usedring)
  BY DEF Held, Slots
<1>3. \A i \in Held(availring)' : i \in Descs /\ Pending(i)' /\ status'[i] = 255
  BY <1>1, <1>2, InAvail, SMT
<1>4. \A i \in taken' : Pending(i)'
  BY <1>1 DEF PlaceInv
<1>5. \A i \in Held(usedring)' : i \in Descs /\ Pending(i)' /\ status'[i] = 0
  BY <1>1, <1>2, InUsed
<1>6. /\ Held(availring)' \cap taken' = {} /\ Held(availring)' \cap Held(usedring)' = {}
      /\ taken' \cap Held(usedring)' = {}
  BY <1>2 DEF PlaceInv
<1>7. \A t \in Requests' : bdisk'[t] = FALSE => status'[head'[t]] = 0
  BY SeenMoved
<1>8. QED
  BY <1>3, <1>4, <1>5, <1>6, <1>7 DEF PlaceInv

\* The rings while neither end moves and nobody is about to publish.
LEMMA RingsKept ==
  ASSUME RingInv, UNCHANGED <<rings, lastavail>>, lock' \in Threads <=> lock \in Threads
  PROVE  RingInv'
<1>1. UNCHANGED <<availring, availidx, usedring, usedidx, used_idx, lastavail>>
  BY DEF rings
<1>2. QED
  BY <1>1 DEF RingInv

-----------------------------------------------------------------------------
(* The steps.                                                              *)

Labels == {"idle", "alloc", "nofree"} \cup InDriver

\* What Goto() does to the labels.
LEMMA GotoFacts ==
  ASSUME Types, NEW t \in Threads, NEW l \in Labels, Goto(t, l)
  PROVE  pc' \in [Threads -> Labels] /\ pc'[t] = l /\ \A u \in Threads \ {t} : pc'[u] = pc[u]
<1>1. pc \in [Threads -> Labels]
  BY DEF Types, Labels
<1>2. QED
  BY <1>1 DEF Goto

\* What wakeup(&disk.free[0]) does to them.
LEMMA WakeFacts ==
  ASSUME Types, NEW t \in Threads, NEW l \in Labels, GotoAndWakeFree(t, l)
  PROVE  /\ pc' \in [Threads -> Labels] /\ pc'[t] = l
         /\ \A u \in Threads \ {t} : pc'[u] = IF pc[u] = "nofree" THEN "alloc" ELSE pc[u]
<1>1. pc \in [Threads -> Labels] /\ "alloc" \in Labels
  BY DEF Types, Labels
<1>2. QED
  BY <1>1 DEF GotoAndWakeFree

\* virtio_disk_rw() is called.
LEMMA CallKeeps ==
  ASSUME Inv, NEW t \in Threads, NEW o \in {"read", "write"}, NEW v \in Vals \cup {None},
         virtio_disk_rw(t, o, v)
  PROVE  Inv'
<1>0. Types /\ ChainInv /\ CountInv /\ LockInv /\ WakeInv /\ CallInv /\ PlaceInv /\ RingInv
  BY DEF Inv
<1>1. /\ pc[t] = "idle" /\ Goto(t, "alloc") /\ op' = [op EXCEPT ![t] = o]
      /\ mem' = [mem EXCEPT ![t] = v]
      /\ UNCHANGED <<free, desc, infob, bdisk, status, rings, lock, taken, lastavail, irq, platter, head>>
  BY DEF virtio_disk_rw, driver, device
<1>a. UNCHANGED <<availring, availidx, usedring, usedidx, used_idx>>
  BY <1>1 DEF rings
<1>2. pc' \in [Threads -> Labels] /\ pc'[t] = "alloc" /\ \A u \in Threads \ {t} : pc'[u] = pc[u]
  BY <1>0, <1>1, GotoFacts DEF Labels
<1>3. Requests' = Requests
  BY <1>1, <1>2, RequestsKept DEF InDriver
<1>4. op'[t] = o /\ \A u \in Threads \ {t} : op'[u] = op[u]
  <2>1. op \in [Threads -> {"none", "read", "write"}]
    BY <1>0 DEF Types
  <2>2. QED
    BY <1>1, <2>1
<1>5. Types'
  BY <1>0, <1>1, <1>a, <1>2 DEF Types, Labels
<1>6. ChainInv'
  <2>1. \A u \in Requests : u \in Threads \ {t}
    BY <1>1 DEF Requests, InDriver
  <2>2. QED
    BY <1>0, <1>1, <1>3, <1>4, <2>1, ChainsKept
<1>7. CountInv' /\ PlaceInv' /\ RingInv'
  BY <1>0, <1>1, <1>a, <1>3, CountKept, PlacesKept, RingsKept
<1>8. LockInv'
  BY <1>0, <1>1, <1>2 DEF LockInv
<1>9. WakeInv'
  BY <1>0, <1>1, <1>a, <1>2 DEF WakeInv
<1>10. CallInv'
  <2>1. mem'[t] = v /\ (o = "write" => v \in Vals) /\ \A u \in Threads \ {t} : mem'[u] = mem[u]
    BY <1>0, <1>1 DEF Types, virtio_disk_rw
  <2>2. QED
    BY <1>0, <1>1, <1>2, <1>4, <2>1 DEF CallInv
<1>11. QED
  BY <1>5, <1>6, <1>7, <1>8, <1>9, <1>10 DEF Inv

\* A step that changes labels only.
LEMMA LabelsKeep ==
  ASSUME Inv, UNCHANGED <<driver, status, rings, lock, device, contents, op, head>>,
         pc' \in [Threads -> Labels],
         \A u \in Threads : pc'[u] \in InDriver <=> pc[u] \in InDriver,
         \A u \in Threads : pc'[u] = "publish" <=> pc[u] = "publish",
         \A u \in Threads : pc'[u] = "idle" <=> pc[u] = "idle",
         \A u \in Threads : pc'[u] = "wait" => bdisk[u] = TRUE,
         \A u \in Threads : pc'[u] = "nofree" => Cardinality(free) < 3
  PROVE  Inv'
<1>0. Types /\ ChainInv /\ CountInv /\ LockInv /\ WakeInv /\ CallInv /\ PlaceInv /\ RingInv
  BY DEF Inv
<1>1. /\ UNCHANGED <<free, desc, infob, bdisk, status, rings, lock, taken, lastavail, irq, platter, mem, op, head>>
      /\ UNCHANGED <<availring, availidx, usedring, usedidx, used_idx>>
  BY DEF driver, device, contents, rings
<1>2. Requests' = Requests
  BY RequestsKept
<1>3. Types'
  BY <1>0, <1>1, ZenonT(40) DEF Types, Labels
<1>4. ChainInv' /\ CountInv' /\ PlaceInv' /\ RingInv'
  BY <1>0, <1>1, <1>2, ChainsKept, CountKept, PlacesKept, RingsKept
<1>5. LockInv' /\ CallInv'
  BY <1>0, <1>1 DEF LockInv, CallInv
<1>6. WakeInv'
  BY <1>0, <1>1 DEF WakeInv
<1>7. QED
  BY <1>3, <1>4, <1>5, <1>6 DEF Inv

\* alloc3_desc() fails, WaitAgain and kill().
LEMMA SleepKeeps ==
  ASSUME Inv, NEW t \in Threads, AllocFails(t) \/ WaitAgain(t) \/ kill(t)
  PROVE  Inv'
<1>0. Types /\ WakeInv /\ \A u \in Threads : bdisk[u] \in BOOLEAN
  BY DEF Inv, Types
<1>1. CASE AllocFails(t)
  <2>1. /\ pc[t] = "alloc" /\ Cardinality(free) < 3
        /\ Goto(t, "nofree") \/ GotoAndWakeFree(t, "nofree")
        /\ UNCHANGED <<driver, status, rings, lock, device, contents, op, head>>
    BY <1>1 DEF AllocFails
  <2>2. /\ pc' \in [Threads -> Labels] /\ pc'[t] = "nofree"
        /\ \A u \in Threads \ {t} : pc'[u] = pc[u] \/ (pc[u] = "nofree" /\ pc'[u] = "alloc")
    BY <1>0, <2>1, GotoFacts, WakeFacts DEF Labels
  <2>3. \A u \in Threads : pc'[u] \in InDriver <=> pc[u] \in InDriver
    BY <2>1, <2>2 DEF InDriver
  <2>4. \A u \in Threads : pc'[u] = "publish" <=> pc[u] = "publish"
    BY <2>1, <2>2
  <2>5. \A u \in Threads : pc'[u] = "idle" <=> pc[u] = "idle"
    BY <2>1, <2>2
  <2>6. \A u \in Threads : pc'[u] = "wait" => bdisk[u] = TRUE
    BY <1>0, <2>2 DEF WakeInv
  <2>7. QED
    BY <2>1, <2>2, <2>3, <2>4, <2>5, <2>6, LabelsKeep
<1>2. CASE WaitAgain(t)
  <2>1. /\ pc[t] = "awake" /\ bdisk[t] = TRUE /\ Goto(t, "wait")
        /\ UNCHANGED <<driver, status, rings, lock, device, contents, op, head>>
    BY <1>0, <1>2 DEF WaitAgain
  <2>2. pc' \in [Threads -> Labels] /\ pc'[t] = "wait" /\ \A u \in Threads \ {t} : pc'[u] = pc[u]
    BY <1>0, <2>1, GotoFacts DEF Labels, InDriver
  <2>3. \A u \in Threads : pc'[u] \in InDriver <=> pc[u] \in InDriver
    BY <2>1, <2>2 DEF InDriver
  <2>4. \A u \in Threads : pc'[u] = "publish" <=> pc[u] = "publish"
    BY <2>1, <2>2
  <2>5. \A u \in Threads : pc'[u] = "idle" <=> pc[u] = "idle"
    BY <2>1, <2>2
  <2>6. \A u \in Threads : pc'[u] = "wait" => bdisk[u] = TRUE
    BY <1>0, <2>1, <2>2 DEF WakeInv
  <2>7. \A u \in Threads : pc'[u] = "nofree" => Cardinality(free) < 3
    BY <1>0, <2>2 DEF WakeInv
  <2>8. QED
    BY <2>1, <2>2, <2>3, <2>4, <2>5, <2>6, <2>7, LabelsKeep
<1>3. CASE kill(t)
  <2>1. /\ \/ pc[t] = "nofree" /\ Goto(t, "alloc")
           \/ pc[t] = "wait" /\ Goto(t, "awake")
        /\ UNCHANGED <<driver, status, rings, lock, device, contents, op, head>>
    BY <1>3 DEF kill
  <2>2. /\ pc' \in [Threads -> Labels] /\ \A u \in Threads \ {t} : pc'[u] = pc[u]
        /\ (pc[t] = "nofree" /\ pc'[t] = "alloc") \/ (pc[t] = "wait" /\ pc'[t] = "awake")
    <3>1. "alloc" \in Labels /\ "awake" \in Labels
      BY DEF Labels, InDriver
    <3>2. QED
      BY <1>0, <2>1, <3>1, GotoFacts
  <2>3. \A u \in Threads : pc'[u] \in InDriver <=> pc[u] \in InDriver
    BY <2>2 DEF InDriver
  <2>4. \A u \in Threads : pc'[u] = "publish" <=> pc[u] = "publish"
    BY <2>2
  <2>5. \A u \in Threads : pc'[u] = "idle" <=> pc[u] = "idle"
    BY <2>2
  <2>6. \A u \in Threads : pc'[u] = "wait" => bdisk[u] = TRUE
    BY <1>0, <2>2 DEF WakeInv
  <2>7. \A u \in Threads : pc'[u] = "nofree" => Cardinality(free) < 3
    BY <1>0, <2>2 DEF WakeInv
  <2>8. QED
    BY <2>1, <2>2, <2>3, <2>4, <2>5, <2>6, <2>7, LabelsKeep
<1>4. QED
  BY <1>1, <1>2, <1>3

\* The index is raised, and the thread sleeps.
LEMMA PublishKeeps ==
  ASSUME Inv, NEW t \in Threads, Publish(t)
  PROVE  Inv'
<1>0. Types /\ ChainInv /\ CountInv /\ LockInv /\ WakeInv /\ CallInv /\ PlaceInv /\ RingInv
  BY DEF Inv
<1>1. /\ pc[t] = "publish" /\ Goto(t, "wait") /\ availidx' = (availidx + 1) % U16 /\ lock' = None
      /\ UNCHANGED <<free, desc, infob, bdisk, status, availring, usedring, usedidx, used_idx>>
      /\ UNCHANGED <<taken, lastavail, irq, platter, mem, op, head>>
  BY DEF Publish, driver, device, contents
<1>2. pc' \in [Threads -> Labels] /\ pc'[t] = "wait" /\ \A u \in Threads \ {t} : pc'[u] = pc[u]
  BY <1>0, <1>1, GotoFacts DEF Labels, InDriver
<1>3. lock = t /\ \A u \in Threads \ {t} : pc[u] # "publish"
  BY <1>0, <1>1 DEF LockInv
<1>4. Requests' = Requests
  <2>1. \A u \in Threads : pc'[u] \in InDriver <=> pc[u] \in InDriver
    BY <1>1, <1>2 DEF InDriver
  <2>2. QED
    BY <2>1, RequestsKept
<1>5. availidx \in Nat /\ availidx' \in 0..U16-1
  <2>1. availidx \in Nat /\ availidx + 1 \in Nat
    BY <1>0, Sizes, SMT DEF Types
  <2>2. QED
    BY <1>1, <2>1, Sizes, ModRange
<1>6. Types'
  BY <1>0, <1>1, <1>2, <1>5 DEF Types, Labels
<1>7. ChainInv' /\ CountInv' /\ PlaceInv'
  BY <1>0, <1>1, <1>4, ChainsKept, CountKept, PlacesKept
<1>8. RingInv'
  <2>1. PICK n : n = Cardinality(Held(availring))
    OBVIOUS
  <2>2. RingFrom(availring, lastavail) /\ n > 0 /\ availidx = (lastavail + (n - 1)) % U16
    BY <1>0, <1>3, <2>1 DEF RingInv
  <2>3. n \in Nat /\ lastavail \in Nat
    <3>1. n \in Nat
      BY <2>1, <2>2, HeldFinite DEF RingFrom
    <3>2. lastavail \in Nat
      BY <1>0, Sizes, SMT DEF Types
    <3>3. QED
      BY <3>1, <3>2
  <2>4. lastavail + (n - 1) \in Nat /\ (lastavail + (n - 1)) + 1 = lastavail + n
    BY <2>2, <2>3, SMT
  <2>5. (((lastavail + (n - 1)) % U16) + 1) % U16 = ((lastavail + (n - 1)) + 1) % U16
    <3>1. 1 \in Nat
      BY SMT
    <3>2. QED
      BY <2>4, <3>1, IndexPlus
  <2>6. availidx' = (lastavail + n) % U16
    BY <1>1, <2>2, <2>4, <2>5
  <2>7. None \notin Threads
    BY VirtioAssumption
  <2>8. QED
    BY <1>0, <1>1, <2>1, <2>6, <2>7 DEF RingInv
<1>9. LockInv'
  <2>1. \A u \in Threads : None # u
    BY VirtioAssumption
  <2>2. QED
    BY <1>1, <1>2, <1>3, <2>1 DEF LockInv
<1>10. WakeInv'
  <2>1. lock # "intr"
    BY <1>3, VirtioAssumption
  <2>2. QED
    BY <1>0, <1>1, <1>2, <2>1 DEF WakeInv
<1>11. CallInv'
  BY <1>0, <1>1, <1>2 DEF CallInv
<1>12. QED
  BY <1>6, <1>7, <1>8, <1>9, <1>10, <1>11 DEF Inv

\* The handler starts and ends.
LEMMA HandlerKeeps ==
  ASSUME Inv, IntrAck \/ IntrEnd
  PROVE  Inv'
<1>0. Types /\ ChainInv /\ CountInv /\ LockInv /\ WakeInv /\ CallInv /\ PlaceInv /\ RingInv
  BY DEF Inv
<1>1. /\ UNCHANGED <<free, desc, infob, bdisk, status, rings, taken, lastavail, platter, mem, pc, op, head>>
      /\ lock \in {None, "intr"} /\ lock' \in {None, "intr"} /\ irq' \in BOOLEAN
      /\ lock' = "intr" \/ (lock' = None /\ used_idx = usedidx)
  BY <1>0 DEF IntrAck, IntrEnd, driver, device, contents, thread, Types
<1>2. UNCHANGED <<availring, availidx, usedring, usedidx, used_idx>>
  BY <1>1 DEF rings
<1>3. lock \notin Threads /\ lock' \notin Threads
  BY <1>1, VirtioAssumption
<1>4. Requests' = Requests
  BY <1>1, RequestsKept
<1>5. Types'
  BY <1>0, <1>1, <1>2 DEF Types
<1>6. ChainInv' /\ CountInv' /\ PlaceInv' /\ RingInv'
  BY <1>0, <1>1, <1>2, <1>3, <1>4, ChainsKept, CountKept, PlacesKept, RingsKept
<1>7. LockInv' /\ CallInv'
  BY <1>0, <1>1, <1>3 DEF LockInv, CallInv
<1>8. WakeInv'
  BY <1>0, <1>1, <1>2 DEF WakeInv
<1>9. QED
  BY <1>5, <1>6, <1>7, <1>8 DEF Inv

-----------------------------------------------------------------------------
(* The device and the handler on the rings.                                *)

\* The device takes the oldest entry of the avail ring: there is one, though a
\* thread may have put one more there than the index says.
LEMMA DevTakeKeeps ==
  ASSUME Inv, DevTake
  PROVE  Inv'
<1>0. Types /\ ChainInv /\ CountInv /\ LockInv /\ WakeInv /\ CallInv /\ PlaceInv /\ RingInv
  BY DEF Inv
<1>1. PICK n, i : n = Cardinality(Held(availring)) /\ i = availring[lastavail % NUM]
  OBVIOUS
<1>2. /\ lastavail # availidx /\ taken' = taken \cup {i}
      /\ availring' = [availring EXCEPT ![lastavail % NUM] = None]
      /\ lastavail' = (lastavail + 1) % U16
      /\ UNCHANGED <<free, desc, infob, bdisk, status, availidx, usedring, usedidx, used_idx>>
      /\ UNCHANGED <<lock, irq, platter, mem, pc, op, head>>
  BY <1>1 DEF DevTake, driver, contents, thread
<1>3. /\ RingFrom(availring, lastavail) /\ lastavail \in 0..U16-1
      /\ lock \in Threads => n > 0 /\ availidx = (lastavail + (n - 1)) % U16
      /\ lock \notin Threads => availidx = (lastavail + n) % U16
  BY <1>0, <1>1 DEF RingInv, Types
<1>4. n \in Nat /\ IsFiniteSet(Held(availring)) /\ lastavail \in Nat /\ lastavail % U16 = lastavail
  <2>1. n \in Nat /\ IsFiniteSet(Held(availring))
    BY <1>1, <1>3, HeldFinite DEF RingFrom
  <2>2. lastavail \in Nat
    BY <1>3, Sizes, SMT
  <2>3. QED
    BY <1>3, <2>1, <2>2, Sizes, ModRange
<1>5. n >= 1 /\ (lock \in Threads => n >= 2)
  <2>1. lastavail + 0 = lastavail /\ (n = 1 => n - 1 = 0)
    BY <1>4, SMT
  <2>2. (lock \notin Threads => n # 0) /\ (lock \in Threads => n # 1)
    BY <1>2, <1>3, <1>4, <2>1
  <2>3. QED
    BY <1>3, <1>4, <2>2, SMT
<1>6. Held(availring) # {}
  <2>1. n # 0
    BY <1>4, <1>5, SMT
  <2>2. QED
    BY <1>1, <2>1, FS_EmptySet
<1>7. /\ RingFrom(availring', lastavail') /\ i \in Held(availring)
      /\ Held(availring') = Held(availring) \ {i} /\ Cardinality(Held(availring')) = n - 1
  BY <1>1, <1>2, <1>3, <1>6, RingGet
<1>8. lastavail' \in 0..U16-1 /\ i \in Descs /\ Pending(i)
  <2>1. lastavail + 1 \in Nat
    BY <1>4, SMT
  <2>2. lastavail' \in 0..U16-1
    BY <1>2, <2>1, Sizes, ModRange
  <2>3. QED
    BY <1>0, <1>7, <2>2 DEF PlaceInv
<1>9. Types'
  BY <1>0, <1>2, <1>7, <1>8 DEF Types, RingFrom
<1>10. Requests' = Requests
  BY <1>2, RequestsKept
<1>11. ChainInv' /\ CountInv'
  BY <1>0, <1>2, <1>10, ChainsKept, CountKept
<1>12. LockInv' /\ WakeInv' /\ CallInv'
  BY <1>0, <1>2 DEF LockInv, WakeInv, CallInv
<1>13. PlaceInv'
  <2>1. \A j : Pending(j) => Pending(j)'
    BY <1>2, <1>10 DEF Pending
  <2>2. Held(availring)' = Held(availring) \ {i} /\ Held(usedring)' = Held(usedring)
    BY <1>2, <1>7 DEF Held, Slots
  <2>3. \A j \in Held(availring)' : j \in Descs /\ Pending(j)' /\ status'[j] = 255
    BY <1>0, <1>2, <2>1, <2>2, InAvail, SMT
  <2>4. \A j \in taken' : Pending(j)'
    BY <1>0, <1>2, <1>8, <2>1 DEF PlaceInv
  <2>5. \A j \in Held(usedring)' : j \in Descs /\ Pending(j)' /\ status'[j] = 0
    BY <1>0, <1>2, <2>1, <2>2, InUsed
  <2>6. /\ Held(availring)' \cap taken' = {} /\ Held(availring)' \cap Held(usedring)' = {}
        /\ taken' \cap Held(usedring)' = {}
    <3>1. /\ Held(availring) \cap taken = {} /\ Held(availring) \cap Held(usedring) = {}
          /\ taken \cap Held(usedring) = {} /\ taken' = taken \cup {i}
      BY <1>0, <1>2 DEF PlaceInv
    <3>2. QED
      BY <1>7, <2>2, <3>1
  <2>7. \A t \in Requests' : bdisk'[t] = FALSE => status'[head'[t]] = 0
    BY <1>0, <1>2, <1>10 DEF PlaceInv
  <2>8. QED
    BY <2>3, <2>4, <2>5, <2>6, <2>7 DEF PlaceInv
<1>14. RingInv'
  <2>1. lastavail + 1 \in Nat /\ n - 1 \in Nat /\ (lastavail + 1) + (n - 1) = lastavail + n
    BY <1>4, <1>5, SMT
  <2>2. (lastavail' + (n - 1)) % U16 = (lastavail + n) % U16
    BY <1>2, <2>1, IndexPlus
  <2>3. ASSUME lock \in Threads
        PROVE  n - 1 > 0 /\ (lastavail' + ((n - 1) - 1)) % U16 = (lastavail + (n - 1)) % U16
    <3>1. /\ n - 1 > 0 /\ (n - 1) - 1 \in Nat
          /\ (lastavail + 1) + ((n - 1) - 1) = lastavail + (n - 1)
      BY <1>4, <1>5, <2>3, SMT
    <3>2. QED
      BY <1>2, <2>1, <3>1, IndexPlus
  <2>4. QED
    BY <1>0, <1>2, <1>3, <1>7, <2>2, <2>3 DEF RingInv
<1>15. QED
  BY <1>9, <1>11, <1>12, <1>13, <1>14 DEF Inv

\* What the device finds in a chain it has taken.
LEMMA TakenChain ==
  ASSUME Inv, NEW i \in taken
  PROVE  \E t \in Requests :
           /\ t = infob[i] /\ head[t] = i /\ bdisk[t] = TRUE /\ i \in Descs
           /\ desc[i].addr = <<op[t], t>> /\ desc[desc[i].to].addr = <<"data", t>>
           /\ desc[Last(i)].addr = <<"status", i>>
<1>1. PICK t \in Requests : t = infob[i] /\ head[t] = i /\ bdisk[t] = TRUE
  <2>1. Pending(i)
    BY DEF Inv, PlaceInv
  <2>2. QED
    BY <2>1 DEF Pending
<1>2. ChainOK(t) /\ t \in Threads
  BY DEF Inv, ChainInv, Requests
<1>3. Last(i) = End(t) /\ desc[i].to = Mid(t)
  BY <1>1, <1>2, ChainIsOwn DEF Mid
<1>4. i \in Descs
  BY DEF Inv, Types
<1>5. QED
  BY <1>1, <1>2, <1>3, <1>4 DEF ChainOK

\* The device moves the data and sets the status byte, which is the request's own.
LEMMA DevMoveKeeps ==
  ASSUME Inv, NEW i \in Descs, DevMove(i)
  PROVE  Inv'
<1>0. Types /\ ChainInv /\ CountInv /\ LockInv /\ WakeInv /\ CallInv /\ PlaceInv /\ RingInv
  BY DEF Inv
<1>1. i \in taken /\ UNCHANGED <<driver, rings, lock, device, thread>>
  BY DEF DevMove
<1>2. PICK t \in Requests :
        /\ t = infob[i] /\ head[t] = i /\ bdisk[t] = TRUE /\ i \in Descs
        /\ desc[i].addr = <<op[t], t>> /\ desc[desc[i].to].addr = <<"data", t>>
        /\ desc[Last(i)].addr = <<"status", i>>
  BY <1>1, TakenChain
<1>3. desc[Last(i)].addr[2] = i /\ desc[i].addr[2] = t /\ desc[desc[i].to].addr[2] = t
  BY <1>2, SMT
<1>4. /\ status' = [status EXCEPT ![i] = 0]
      /\ \/ mem' = [mem EXCEPT ![t] = platter[t]] /\ platter' = platter
         \/ platter' = [platter EXCEPT ![t] = mem[t]] /\ mem' = mem /\ op[t] = "write"
  <2>1. desc[i].addr[1] = op[t]
    BY <1>2, SMT
  <2>2. QED
    BY <1>3, <2>1 DEF DevMove
<1>5. /\ UNCHANGED <<free, desc, infob, bdisk, lock, taken, lastavail, irq, pc, op, head>>
      /\ UNCHANGED <<availring, availidx, usedring, usedidx, used_idx, rings>>
  BY <1>1 DEF driver, device, thread, rings
<1>6. status'[i] = 0 /\ \A j \in Descs \ {i} : status'[j] = status[j]
  <2>1. status \in [Descs -> {0, 255}] /\ status' = [status EXCEPT ![i] = 0]
    BY <1>0, <1>4 DEF Types
  <2>2. QED
    BY <2>1, SMT
<1>7. Types' /\ CallInv'
  <2>1. t \in Threads /\ (op[t] = "write" => mem[t] \in Vals)
    BY <1>0 DEF Requests, CallInv
  <2>2. status' \in [Descs -> {0, 255}]
    BY <1>0, <1>4 DEF Types
  <2>3. CASE mem' = [mem EXCEPT ![t] = platter[t]] /\ platter' = platter
    <3>1. platter[t] \in Vals
      BY <1>0, <2>1 DEF Types
    <3>2. mem' \in [Threads -> Vals \cup {None}] /\ mem'[t] \in Vals /\ \A u \in Threads \ {t} : mem'[u] = mem[u]
      <4>1. mem \in [Threads -> Vals \cup {None}]
        BY <1>0 DEF Types
      <4>2. QED
        BY <2>1, <2>3, <3>1, <4>1
    <3>3. QED
      BY <1>0, <1>5, <2>2, <2>3, <3>2 DEF Types, CallInv
  <2>4. CASE platter' = [platter EXCEPT ![t] = mem[t]] /\ mem' = mem /\ op[t] = "write"
    <3>1. platter' \in [Threads -> Vals]
      BY <1>0, <2>1, <2>4 DEF Types
    <3>2. QED
      BY <1>0, <1>5, <2>2, <2>4, <3>1 DEF Types, CallInv
  <2>5. QED
    BY <1>4, <2>3, <2>4
<1>8. Requests' = Requests
  BY <1>5, RequestsKept
<1>9. ChainInv' /\ CountInv' /\ RingInv'
  BY <1>0, <1>5, <1>8, ChainsKept, CountKept, RingsKept
<1>10. LockInv' /\ WakeInv'
  BY <1>0, <1>5 DEF LockInv, WakeInv
<1>11. PlaceInv'
  <2>1. \A j : Pending(j) => Pending(j)'
    BY <1>5, <1>8 DEF Pending
  <2>2. Held(availring)' = Held(availring) /\ Held(usedring)' = Held(usedring)
    BY <1>5 DEF Held, Slots
  <2>3. \A j \in Held(availring) : j \in Descs \ {i}
    BY <1>0, <1>1 DEF PlaceInv
  <2>4. ASSUME NEW j \in Held(availring)' PROVE j \in Descs /\ Pending(j)' /\ status'[j] = 255
    <3>1. j \in Descs \ {i} /\ Pending(j) /\ status[j] = 255
      BY <1>0, <2>2, <2>3 DEF PlaceInv
    <3>2. QED
      BY <1>6, <2>1, <3>1, SMT
  <2>5. ASSUME NEW j \in Held(usedring)' PROVE j \in Descs /\ Pending(j)' /\ status'[j] = 0
    <3>1. j \in Descs /\ Pending(j) /\ status[j] = 0
      BY <1>0, <2>2 DEF PlaceInv
    <3>2. QED
      BY <1>6, <2>1, <3>1
  <2>6. \A u \in Requests' : bdisk'[u] = FALSE => status'[head'[u]] = 0
    <3>1. ASSUME NEW u \in Requests, bdisk[u] = FALSE PROVE status'[head[u]] = 0
      <4>1. status[head[u]] = 0 /\ head[u] \in Descs
        BY <1>0, <3>1 DEF PlaceInv, ChainInv, ChainOK, Own
      <4>2. QED
        BY <1>6, <4>1
    <3>2. QED
      BY <1>5, <1>8, <3>1
  <2>7. QED
    BY <1>0, <1>5, <2>1, <2>2, <2>4, <2>5, <2>6 DEF PlaceInv
<1>12. QED
  BY <1>7, <1>9, <1>10, <1>11 DEF Inv

\* The device puts a chain it is done with into the used ring, and interrupts.
LEMMA DevUsedKeeps ==
  ASSUME Inv, NEW i \in Descs, DevUsed(i)
  PROVE  Inv'
<1>0. Types /\ ChainInv /\ CountInv /\ LockInv /\ WakeInv /\ CallInv /\ PlaceInv /\ RingInv
  BY DEF Inv
<1>1. PICK n : n = Cardinality(Held(usedring))
  OBVIOUS
<1>2. /\ i \in taken /\ status[i] = 0 /\ taken' = taken \ {i}
      /\ usedring' = [usedring EXCEPT ![usedidx % NUM] = i]
      /\ usedidx' = (usedidx + 1) % U16 /\ irq' = TRUE
      /\ UNCHANGED <<free, desc, infob, bdisk, status, availring, availidx, used_idx>>
      /\ UNCHANGED <<lock, lastavail, platter, mem, pc, op, head>>
  BY DEF DevUsed, driver, contents, thread
<1>3. i \notin Held(usedring) /\ i \notin Held(availring) /\ Pending(i)
  BY <1>0, <1>2 DEF PlaceInv
<1>4. RingFrom(usedring, used_idx) /\ used_idx \in 0..U16-1 /\ usedidx = (used_idx + n) % U16
  BY <1>0, <1>1 DEF RingInv, Types
<1>5. /\ RingFrom(usedring', used_idx) /\ Held(usedring') = Held(usedring) \cup {i}
      /\ Cardinality(Held(usedring')) = n + 1
  <2>1. usedring' = Put(usedring, used_idx, i)
    BY <1>1, <1>2, <1>4 DEF Put
  <2>2. /\ RingFrom(usedring', used_idx) /\ Held(usedring') = Held(usedring) \cup {i}
        /\ Cardinality(Held(usedring')) = Cardinality(Held(usedring)) + 1
    BY <1>3, <1>4, <2>1, RingPut
  <2>3. QED
    BY <1>1, <2>2
<1>6. usedidx' = (used_idx + (n + 1)) % U16 /\ usedidx' \in 0..U16-1
  <2>1. n \in Nat
    BY <1>1, <1>4, HeldFinite DEF RingFrom
  <2>2. used_idx + n \in Nat /\ 1 \in Nat /\ (used_idx + n) + 1 = used_idx + (n + 1) /\ used_idx + (n + 1) \in Nat
    BY <1>4, <2>1, Sizes, SMT
  <2>3. usedidx' = (used_idx + (n + 1)) % U16
    <3>1. (((used_idx + n) % U16) + 1) % U16 = ((used_idx + n) + 1) % U16
      BY <2>2, IndexPlus
    <3>2. QED
      BY <1>2, <1>4, <2>2, <3>1
  <2>4. QED
    BY <2>2, <2>3, Sizes, ModRange
<1>7. Types'
  BY <1>0, <1>2, <1>5, <1>6 DEF Types, RingFrom
<1>8. Requests' = Requests
  BY <1>2, RequestsKept
<1>9. ChainInv' /\ CountInv'
  BY <1>0, <1>2, <1>8, ChainsKept, CountKept
<1>10. LockInv' /\ WakeInv' /\ CallInv'
  BY <1>0, <1>2 DEF LockInv, WakeInv, CallInv
<1>11. PlaceInv'
  <2>1. \A j : Pending(j) => Pending(j)'
    BY <1>2, <1>8 DEF Pending
  <2>2. Held(availring)' = Held(availring) /\ Held(usedring)' = Held(usedring) \cup {i}
    BY <1>2, <1>5 DEF Held, Slots
  <2>3. \A j \in Held(availring)' : j \in Descs /\ Pending(j)' /\ status'[j] = 255
    BY <1>0, <1>2, <2>1, <2>2, InAvail
  <2>4. \A j \in taken' : Pending(j)'
    BY <1>0, <1>2, <2>1 DEF PlaceInv
  <2>5. ASSUME NEW j \in Held(usedring)' PROVE j \in Descs /\ Pending(j)' /\ status'[j] = 0
    <3>1. j \in Descs /\ Pending(j) /\ status[j] = 0
      BY <1>0, <1>2, <1>3, <2>2, InUsed
    <3>2. QED
      BY <1>2, <2>1, <3>1
  <2>6. /\ Held(availring)' \cap taken' = {} /\ Held(availring)' \cap Held(usedring)' = {}
        /\ taken' \cap Held(usedring)' = {}
    <3>1. /\ Held(availring) \cap taken = {} /\ Held(availring) \cap Held(usedring) = {}
          /\ taken \cap Held(usedring) = {} /\ taken' = taken \ {i}
      BY <1>0, <1>2 DEF PlaceInv
    <3>2. QED
      BY <1>3, <2>2, <3>1
  <2>7. \A t \in Requests' : bdisk'[t] = FALSE => status'[head'[t]] = 0
    BY <1>0, <1>2, <1>8 DEF PlaceInv
  <2>8. QED
    BY <2>3, <2>4, <2>5, <2>6, <2>7 DEF PlaceInv
<1>12. RingInv'
  BY <1>0, <1>2, <1>5, <1>6 DEF RingInv
<1>13. QED
  BY <1>7, <1>9, <1>10, <1>11, <1>12 DEF Inv

\* The handler takes the oldest entry of the used ring: the request is finished.
LEMMA IntrEntryKeeps ==
  ASSUME Inv, IntrEntry
  PROVE  Inv'
<1>0. Types /\ ChainInv /\ CountInv /\ LockInv /\ WakeInv /\ CallInv /\ PlaceInv /\ RingInv
  BY DEF Inv
<1>1. PICK n, i, t : n = Cardinality(Held(usedring)) /\ i = usedring[used_idx % NUM] /\ t = infob[i]
  OBVIOUS
<1>2. /\ lock = "intr" /\ used_idx # usedidx /\ bdisk' = [bdisk EXCEPT ![t] = FALSE]
      /\ pc' = [pc EXCEPT ![t] = IF pc[t] = "wait" THEN "awake" ELSE pc[t]]
      /\ usedring' = [usedring EXCEPT ![used_idx % NUM] = None]
      /\ used_idx' = (used_idx + 1) % U16
      /\ UNCHANGED <<free, desc, infob, status, availring, availidx, usedidx, lock>>
      /\ UNCHANGED <<taken, lastavail, irq, platter, mem, op, head>>
  BY <1>1 DEF IntrEntry, device, contents
<1>3. RingFrom(usedring, used_idx) /\ used_idx \in 0..U16-1 /\ usedidx = (used_idx + n) % U16
  BY <1>0, <1>1 DEF RingInv, Types
<1>4. n \in Nat /\ used_idx \in Nat /\ used_idx % U16 = used_idx
  <2>1. n \in Nat
    BY <1>1, <1>3, HeldFinite DEF RingFrom
  <2>2. used_idx \in Nat
    BY <1>3, Sizes, SMT
  <2>3. QED
    BY <1>3, <2>1, <2>2, Sizes, ModRange
<1>5. n >= 1 /\ Held(usedring) # {}
  <2>1. used_idx + 0 = used_idx
    BY <1>4, SMT
  <2>2. n # 0
    BY <1>2, <1>3, <1>4, <2>1
  <2>3. n >= 1
    BY <1>4, <2>2, SMT
  <2>4. QED
    BY <1>1, <2>2, <2>3, FS_EmptySet
<1>6. /\ RingFrom(usedring', used_idx') /\ i \in Held(usedring)
      /\ Held(usedring') = Held(usedring) \ {i} /\ Cardinality(Held(usedring')) = n - 1
  BY <1>1, <1>2, <1>3, <1>5, RingGet
<1>7. /\ i \in Descs /\ t \in Requests /\ t \in Threads /\ head[t] = i /\ status[i] = 0
      /\ i \notin Held(availring) /\ i \notin taken
  <2>1. i \in Descs /\ Pending(i) /\ status[i] = 0
    BY <1>0, <1>6 DEF PlaceInv
  <2>2. i \notin Held(availring) /\ i \notin taken
    BY <1>0, <1>6 DEF PlaceInv
  <2>3. QED
    BY <1>1, <2>1, <2>2 DEF Pending, Requests
<1>8. /\ bdisk' \in [Threads -> BOOLEAN] /\ bdisk'[t] = FALSE
      /\ \A u \in Threads \ {t} : bdisk'[u] = bdisk[u]
  <2>1. bdisk \in [Threads -> BOOLEAN]
    BY <1>0 DEF Types
  <2>2. QED
    BY <1>2, <1>7, <2>1
<1>9. /\ pc' \in [Threads -> Labels] /\ \A u \in Threads \ {t} : pc'[u] = pc[u]
      /\ pc'[t] = IF pc[t] = "wait" THEN "awake" ELSE pc[t]
  <2>1. pc \in [Threads -> Labels] /\ "awake" \in Labels
    BY <1>0 DEF Types, Labels, InDriver
  <2>2. QED
    BY <1>2, <1>7, <2>1
<1>10. Requests' = Requests
  <2>1. \A u \in Threads : pc'[u] \in InDriver <=> pc[u] \in InDriver
    BY <1>9 DEF InDriver
  <2>2. QED
    BY <2>1, RequestsKept
<1>11. used_idx' \in 0..U16-1 /\ usedidx = (used_idx' + (n - 1)) % U16
  <2>1. used_idx + 1 \in Nat /\ n - 1 \in Nat /\ (used_idx + 1) + (n - 1) = used_idx + n
    BY <1>4, <1>5, SMT
  <2>2. used_idx' \in 0..U16-1
    BY <1>2, <2>1, Sizes, ModRange
  <2>3. QED
    BY <1>2, <1>3, <2>1, <2>2, IndexPlus
<1>12. Types'
  BY <1>0, <1>2, <1>6, <1>8, <1>9, <1>11 DEF Types, RingFrom, Labels
<1>13. ChainInv' /\ CountInv'
  BY <1>0, <1>2, <1>10, ChainsKept, CountKept
<1>14. LockInv' /\ CallInv'
  <2>1. \A u \in Threads : (pc'[u] = "publish" <=> pc[u] = "publish") /\ (pc'[u] = "idle" <=> pc[u] = "idle")
    BY <1>9
  <2>2. QED
    BY <1>0, <1>2, <2>1 DEF LockInv, CallInv
<1>15. WakeInv'
  <2>1. pc[t] # "publish"
    BY <1>0, <1>2, <1>7, VirtioAssumption DEF LockInv
  <2>2. \A u \in Threads : pc'[u] \in {"publish", "wait"} => bdisk'[u] = TRUE
    BY <1>0, <1>8, <1>9, <2>1 DEF WakeInv
  <2>3. \A u \in Threads : pc'[u] = "nofree" => Cardinality(free) < 3
    BY <1>0, <1>9 DEF WakeInv
  <2>4. QED
    BY <1>2, <2>2, <2>3 DEF WakeInv
<1>16. PlaceInv'
  <2>1. \A j : Pending(j) /\ j # i => Pending(j)'
    <3>1. SUFFICES ASSUME NEW j, Pending(j), j # i PROVE Pending(j)'
      OBVIOUS
    <3>2. infob[j] \in Threads \ {t}
      BY <1>7, <3>1 DEF Pending, Requests
    <3>3. QED
      BY <1>2, <1>8, <1>10, <3>1, <3>2 DEF Pending
  <2>2. Held(availring)' = Held(availring) /\ Held(usedring)' = Held(usedring) \ {i}
    BY <1>2, <1>6 DEF Held, Slots
  <2>3. ASSUME NEW j \in Held(availring)' PROVE j \in Descs /\ Pending(j)' /\ status'[j] = 255
    <3>1. j \in Descs /\ Pending(j) /\ status[j] = 255 /\ j # i
      BY <1>0, <1>7, <2>2, InAvail, SMT
    <3>2. QED
      BY <1>2, <2>1, <3>1
  <2>4. ASSUME NEW j \in taken' PROVE Pending(j)'
    <3>1. Pending(j) /\ j # i
      <4>1. j \in taken
        BY <1>2
      <4>2. QED
        BY <1>0, <1>7, <4>1, SMT DEF PlaceInv
    <3>2. QED
      BY <2>1, <3>1
  <2>5. \A j \in Held(usedring)' : j \in Descs /\ Pending(j)' /\ status'[j] = 0
    BY <1>0, <1>2, <2>1, <2>2, InUsed
  <2>6. /\ Held(availring)' \cap taken' = {} /\ Held(availring)' \cap Held(usedring)' = {}
        /\ taken' \cap Held(usedring)' = {}
    <3>1. /\ Held(availring) \cap taken = {} /\ Held(availring) \cap Held(usedring) = {}
          /\ taken \cap Held(usedring) = {} /\ taken' = taken
      BY <1>0, <1>2 DEF PlaceInv
    <3>2. QED
      BY <2>2, <3>1
  <2>7. \A u \in Requests' : bdisk'[u] = FALSE => status'[head'[u]] = 0
    <3>1. ASSUME NEW u \in Requests, bdisk'[u] = FALSE PROVE status[head[u]] = 0
      <4>1. u \in Threads
        BY DEF Requests
      <4>2. QED
        BY <1>0, <1>7, <1>8, <3>1, <4>1, SeenMoved
    <3>2. QED
      BY <1>2, <1>10, <3>1
  <2>8. QED
    BY <2>3, <2>4, <2>5, <2>6, <2>7 DEF PlaceInv
<1>17. RingInv'
  BY <1>0, <1>2, <1>6, <1>11 DEF RingInv
<1>18. QED
  BY <1>12, <1>13, <1>14, <1>15, <1>16, <1>17 DEF Inv

-----------------------------------------------------------------------------
(* A request enters the driver and leaves it.                              *)

\* The descriptors of a request are not free, and no two are the same.
LEMMA OwnFacts ==
  ASSUME ChainInv, NEW t \in Requests
  PROVE  /\ ChainOK(t) /\ t \in Threads
         /\ head[t] \in Descs \ free /\ Mid(t) \in Descs \ free /\ End(t) \in Descs \ free
BY DEF ChainInv, ChainOK, Own, Requests

\* alloc3_desc() succeeds: three descriptors that no request has become t's.
LEMMA AllocKeeps ==
  ASSUME Inv, NEW t \in Threads, Alloc(t)
  PROVE  Inv'
<1>0. Types /\ ChainInv /\ CountInv /\ LockInv /\ WakeInv /\ CallInv /\ PlaceInv /\ RingInv
  BY DEF Inv
<1>1. PICK a \in free, b \in free, c \in free :
        /\ a < b /\ b < c /\ free' = free \ {a, b, c}
        /\ Format(t, a, b, c)
        /\ status' = [status EXCEPT ![a] = 255]
        /\ availring' = [availring EXCEPT ![availidx % NUM] = a]
  BY DEF Alloc, alloc3_desc
<1>2. /\ pc[t] = "alloc" /\ lock = None /\ lock' = t /\ Goto(t, "publish")
      /\ UNCHANGED <<availidx, usedring, usedidx, used_idx, taken, lastavail, irq, platter, mem, op>>
  BY DEF Alloc, device, contents
<1>3. a \in Descs /\ b \in Descs /\ c \in Descs /\ a # b /\ a # c /\ b # c
  <2>1. a \in Descs /\ b \in Descs /\ c \in Descs
    BY <1>0 DEF Types
  <2>2. a \in Int /\ b \in Int /\ c \in Int
    BY <2>1, SMT DEF Descs
  <2>3. a # b /\ a # c /\ b # c
    BY <1>1, <2>2, SMT
  <2>4. QED
    BY <2>1, <2>3
<1>4. pc' \in [Threads -> Labels] /\ pc'[t] = "publish" /\ \A u \in Threads \ {t} : pc'[u] = pc[u]
  BY <1>0, <1>2, GotoFacts DEF Labels, InDriver
<1>5. /\ t \notin Requests /\ Requests' = Requests \cup {t}
      /\ op[t] \in {"read", "write"}
  <2>1. t \notin Requests /\ Requests' = Requests \cup {t}
    BY <1>2, <1>4 DEF Requests, InDriver
  <2>2. op[t] # "none" /\ op[t] \in {"none", "read", "write"}
    BY <1>0, <1>2 DEF CallInv, Types
  <2>3. QED
    BY <2>1, <2>2
<1>6. /\ desc' \in [Descs -> Recs]
      /\ desc'[a] = [addr |-> <<op[t], t>>, next |-> TRUE, to |-> b]
      /\ desc'[b] = [addr |-> <<"data", t>>, next |-> TRUE, to |-> c]
      /\ desc'[c] = [addr |-> <<"status", a>>, next |-> FALSE, to |-> 0]
      /\ \A i \in Descs \ {a, b, c} : desc'[i] = desc[i]
  <2>1. PICK ra, rb, rc :
          /\ ra = [addr |-> <<op[t], t>>, next |-> TRUE, to |-> b]
          /\ rb = [addr |-> <<"data", t>>, next |-> TRUE, to |-> c]
          /\ rc = [addr |-> <<"status", a>>, next |-> FALSE, to |-> 0]
    OBVIOUS
  <2>2. 0 \in Descs
    BY Sizes, SMT DEF Descs
  <2>3. <<op[t], t>> \in Addrs /\ <<"data", t>> \in Addrs /\ <<"status", a>> \in Addrs
    BY <1>3, <1>5 DEF Addrs
  <2>4. ra \in Recs /\ rb \in Recs /\ rc \in Recs
    BY <1>3, <2>1, <2>2, <2>3 DEF Recs
  <2>5. desc' = [desc EXCEPT ![a] = ra, ![b] = rb, ![c] = rc] /\ desc \in [Descs -> Recs]
    BY <1>0, <1>1, <2>1 DEF Format, Types
  <2>6. /\ desc' \in [Descs -> Recs] /\ desc'[a] = ra /\ desc'[b] = rb /\ desc'[c] = rc
        /\ \A i \in Descs \ {a, b, c} : desc'[i] = desc[i]
    BY <1>3, <2>4, <2>5
  <2>7. QED
    BY <2>1, <2>6
<1>7. /\ bdisk' \in [Threads -> BOOLEAN] /\ bdisk'[t] = TRUE
      /\ \A u \in Threads \ {t} : bdisk'[u] = bdisk[u]
  <2>1. bdisk \in [Threads -> BOOLEAN] /\ bdisk' = [bdisk EXCEPT ![t] = TRUE]
    BY <1>0, <1>1 DEF Types, Format
  <2>2. QED
    BY <2>1
<1>8. /\ infob' \in [Descs -> Threads \cup {None}] /\ infob'[a] = t
      /\ \A i \in Descs \ {a} : infob'[i] = infob[i]
  <2>1. infob \in [Descs -> Threads \cup {None}] /\ infob' = [infob EXCEPT ![a] = t]
    BY <1>0, <1>1 DEF Types, Format
  <2>2. QED
    BY <1>3, <2>1
<1>9. /\ head' \in [Threads -> Entries] /\ head'[t] = a
      /\ \A u \in Threads \ {t} : head'[u] = head[u]
  <2>1. head \in [Threads -> Entries] /\ head' = [head EXCEPT ![t] = a] /\ a \in Entries
    BY <1>0, <1>1, <1>3 DEF Types, Format, Entries
  <2>2. QED
    BY <2>1
<1>10. /\ status' \in [Descs -> {0, 255}] /\ status'[a] = 255
       /\ \A i \in Descs \ {a} : status'[i] = status[i]
  <2>1. status \in [Descs -> {0, 255}] /\ status' = [status EXCEPT ![a] = 255]
    BY <1>0, <1>1 DEF Types
  <2>2. QED
    BY <1>3, <2>1, SMT
<1>11. free' \subseteq Descs /\ Descs \ free' = (Descs \ free) \cup {a, b, c}
  BY <1>0, <1>1, <1>3 DEF Types
<1>12. /\ RingFrom(availring', lastavail) /\ Held(availring') = Held(availring) \cup {a}
       /\ Cardinality(Held(availring')) = Cardinality(Held(availring)) + 1
       /\ a \notin Held(availring) /\ a \notin taken /\ a \notin Held(usedring)
  <2>1. ASSUME NEW i, Pending(i) PROVE i # a
    <3>1. infob[i] \in Requests /\ head[infob[i]] = i
      BY <2>1 DEF Pending
    <3>2. i \notin free
      BY <1>0, <3>1, OwnFacts
    <3>3. QED
      BY <3>2
  <2>2. a \notin Held(availring) /\ a \notin taken /\ a \notin Held(usedring)
    BY <1>0, <2>1 DEF PlaceInv
  <2>3. /\ RingFrom(availring, lastavail) /\ lastavail \in 0..U16-1
        /\ availidx = (lastavail + Cardinality(Held(availring))) % U16
    BY <1>0, <1>2, VirtioAssumption DEF RingInv, Types
  <2>4. availring' = Put(availring, lastavail, a)
    BY <1>1, <2>3 DEF Put
  <2>5. QED
    BY <1>3, <2>2, <2>3, <2>4, RingPut
<1>13. Types'
  <2>1. lock' \in Threads \cup {"intr", None}
    BY <1>2
  <2>2. QED
    BY <1>0, <1>2, <1>4, <1>6, <1>7, <1>8, <1>9, <1>10, <1>11, <1>12, <2>1 DEF Types, RingFrom, Labels
<1>14. /\ Mid(t)' = b /\ End(t)' = c /\ Own(t)' = {a, b, c}
       /\ desc'[a].next = TRUE /\ desc'[b].next = TRUE /\ desc'[c].next = FALSE
       /\ desc'[a].addr = <<op[t], t>> /\ desc'[b].addr = <<"data", t>> /\ desc'[c].addr = <<"status", a>>
  <2>1. /\ desc'[a].next = TRUE /\ desc'[b].next = TRUE /\ desc'[c].next = FALSE
        /\ desc'[a].addr = <<op[t], t>> /\ desc'[b].addr = <<"data", t>> /\ desc'[c].addr = <<"status", a>>
        /\ desc'[a].to = b /\ desc'[b].to = c
    BY <1>6, SMT
  <2>2. Mid(t)' = b
    BY <1>9, <2>1 DEF Mid
  <2>3. End(t)' = c
    BY <2>1, <2>2 DEF End
  <2>4. QED
    BY <1>9, <2>1, <2>2, <2>3 DEF Own
<1>15. ASSUME NEW u \in Requests
       PROVE  /\ u \in Threads \ {t} /\ head'[u] = head[u] /\ head[u] \in Descs \ {a, b, c}
              /\ Mid(u)' = Mid(u) /\ End(u)' = End(u) /\ Own(u)' = Own(u)
              /\ desc'[head[u]] = desc[head[u]] /\ desc'[Mid(u)] = desc[Mid(u)] /\ desc'[End(u)] = desc[End(u)]
  <2>1. u \in Threads \ {t} /\ head[u] \in Descs \ {a, b, c} /\ Mid(u) \in Descs \ {a, b, c} /\ End(u) \in Descs \ {a, b, c}
    BY <1>0, <1>5, OwnFacts
  <2>2. head'[u] = head[u] /\ desc'[head[u]] = desc[head[u]]
    BY <1>6, <1>9, <2>1
  <2>3. Mid(u)' = Mid(u) /\ desc'[Mid(u)] = desc[Mid(u)]
    BY <1>6, <2>1, <2>2 DEF Mid
  <2>4. End(u)' = End(u) /\ desc'[End(u)] = desc[End(u)]
    BY <1>6, <2>1, <2>3 DEF End
  <2>5. Own(u)' = Own(u)
    BY <2>2, <2>3, <2>4 DEF Own
  <2>6. QED
    BY <2>1, <2>2, <2>3, <2>4, <2>5
<1>16. ChainInv'
  <2>1. ChainOK(t)'
    <3>1. Own(t)' \subseteq Descs \ free'
      BY <1>3, <1>11, <1>14
    <3>2. QED
      BY <1>2, <1>3, <1>5, <1>8, <1>9, <1>14, <3>1 DEF ChainOK
  <2>2. ASSUME NEW u \in Requests PROVE ChainOK(u)'
    <3>1. ChainOK(u) /\ op' = op
      BY <1>0, <1>2 DEF ChainInv
    <3>2. Own(u)' \subseteq Descs \ free'
      BY <1>11, <1>15, <3>1 DEF ChainOK
    <3>3. infob'[head[u]] = infob[head[u]]
      BY <1>8, <1>15
    <3>4. /\ head'[u] = head[u] /\ Mid(u)' = Mid(u) /\ End(u)' = End(u)
          /\ desc'[head[u]] = desc[head[u]] /\ desc'[Mid(u)] = desc[Mid(u)] /\ desc'[End(u)] = desc[End(u)]
      BY <1>15
    <3>5. QED
      BY <3>1, <3>2, <3>3, <3>4 DEF ChainOK
  <2>3. ASSUME NEW u \in Requests PROVE Own(u)' \cap {a, b, c} = {}
    <3>1. Own(u) \subseteq Descs \ free
      BY <1>0, OwnFacts DEF ChainOK
    <3>2. Own(u)' = Own(u)
      BY <1>15
    <3>3. QED
      BY <3>1, <3>2
  <2>4. \A u, w \in Requests' : u # w => Own(u)' \cap Own(w)' = {}
    <3>1. SUFFICES ASSUME NEW u \in Requests', NEW w \in Requests', u # w PROVE Own(u)' \cap Own(w)' = {}
      OBVIOUS
    <3>2. CASE u = t
      BY <1>5, <1>14, <2>3, <3>1, <3>2
    <3>3. CASE w = t
      BY <1>5, <1>14, <2>3, <3>1, <3>3
    <3>4. CASE u \in Requests /\ w \in Requests
      <4>1. Own(u) \cap Own(w) = {}
        BY <1>0, <3>1, <3>4 DEF ChainInv
      <4>2. QED
        BY <1>15, <3>4, <4>1
    <3>5. QED
      BY <1>5, <3>2, <3>3, <3>4
  <2>5. ASSUME NEW i \in Descs \ free' PROVE \E u \in Requests' : i \in Own(u)'
    <3>1. CASE i \in {a, b, c}
      BY <1>5, <1>14, <3>1
    <3>2. CASE i \notin {a, b, c}
      <4>1. PICK u \in Requests : i \in Own(u)
        BY <1>0, <1>11, <3>2 DEF ChainInv
      <4>2. i \in Own(u)' /\ u \in Requests'
        BY <1>5, <1>15, <4>1
      <4>3. QED
        BY <4>2
    <3>3. QED
      BY <3>1, <3>2
  <2>6. QED
    BY <1>5, <2>1, <2>2, <2>4, <2>5 DEF ChainInv
<1>17. CountInv'
  <2>1. IsFiniteSet(Descs \ free) /\ IsFiniteSet(Requests)
    BY <1>0, Sizes, FS_Subset DEF CountInv
  <2>2. IsFiniteSet(Requests') /\ Cardinality(Requests') = Cardinality(Requests) + 1
    BY <1>5, <2>1, FS_AddElement
  <2>3. PICK S1, S2, S3 : S1 = (Descs \ free) \cup {a} /\ S2 = S1 \cup {b} /\ S3 = S2 \cup {c}
    OBVIOUS
  <2>4. IsFiniteSet(S1) /\ Cardinality(S1) = Cardinality(Descs \ free) + 1
    BY <2>1, <2>3, FS_AddElement
  <2>5. IsFiniteSet(S2) /\ Cardinality(S2) = Cardinality(S1) + 1
    <3>1. b \notin S1
      BY <1>3, <2>3
    <3>2. QED
      BY <2>3, <2>4, <3>1, FS_AddElement
  <2>6. Cardinality(S3) = Cardinality(S2) + 1
    <3>1. c \notin S2
      BY <1>3, <2>3
    <3>2. QED
      BY <2>3, <2>5, <3>1, FS_AddElement
  <2>7. Descs \ free' = S3
    BY <1>11, <2>3
  <2>8. Cardinality(Requests) \in Nat /\ Cardinality(Descs \ free) = 3 * Cardinality(Requests)
    BY <1>0, <2>1, FS_CardinalityType DEF CountInv
  <2>9. Cardinality(Descs \ free') = 3 * Cardinality(Requests')
    <3>1. PICK r \in Nat : r = Cardinality(Requests)
      BY <2>8
    <3>2. Cardinality(S3) = ((3 * r + 1) + 1) + 1
      BY <2>4, <2>5, <2>6, <2>8, <3>1
    <3>3. ((3 * r + 1) + 1) + 1 = 3 * (r + 1)
      BY SMT
    <3>4. QED
      BY <2>2, <2>7, <3>1, <3>2, <3>3
  <2>10. QED
    BY <2>2, <2>9 DEF CountInv
<1>18. LockInv'
  <2>1. \A u \in Threads : pc[u] # "publish"
    BY <1>0, <1>2, VirtioAssumption DEF LockInv
  <2>2. QED
    BY <1>2, <1>4, <2>1 DEF LockInv
<1>19. WakeInv'
  <2>1. lock # "intr"
    BY <1>2, VirtioAssumption
  <2>2. \A u \in Threads : pc'[u] \in {"publish", "wait"} => bdisk'[u] = TRUE
    BY <1>0, <1>4, <1>7 DEF WakeInv
  <2>3. ASSUME NEW u \in Threads, pc'[u] = "nofree" PROVE Cardinality(free') < 3
    <3>1. Cardinality(free) < 3
      BY <1>0, <1>4, <2>3 DEF WakeInv
    <3>2. IsFiniteSet(free) /\ free' \subseteq free
      BY <1>0, <1>1, Sizes, FS_Subset DEF Types
    <3>3. IsFiniteSet(free') /\ Cardinality(free') <= Cardinality(free)
      BY <3>2, FS_Subset
    <3>4. Cardinality(free) \in Nat /\ Cardinality(free') \in Nat
      BY <3>2, <3>3, FS_CardinalityType
    <3>5. QED
      BY <3>1, <3>3, <3>4, SMT
  <2>4. QED
    BY <1>0, <1>2, <2>1, <2>2, <2>3 DEF WakeInv
<1>20. CallInv'
  BY <1>0, <1>2, <1>4 DEF CallInv
<1>21. PlaceInv'
  <2>1. ASSUME NEW i \in Descs, Pending(i), i # a PROVE Pending(i)' /\ status'[i] = status[i]
    <3>1. infob'[i] = infob[i] /\ status'[i] = status[i]
      BY <1>8, <1>10, <2>1
    <3>2. infob[i] \in Requests /\ infob[i] \in Threads \ {t}
      BY <1>15, <2>1 DEF Pending
    <3>3. QED
      BY <1>5, <1>7, <1>9, <2>1, <3>1, <3>2 DEF Pending
  <2>2. Pending(a)'
    BY <1>5, <1>7, <1>8, <1>9 DEF Pending
  <2>3. Held(availring)' = Held(availring) \cup {a} /\ Held(usedring)' = Held(usedring)
    BY <1>2, <1>12 DEF Held, Slots
  <2>4. ASSUME NEW i \in Held(availring)' PROVE i \in Descs /\ Pending(i)' /\ status'[i] = 255
    <3>1. CASE i = a
      BY <1>3, <1>10, <2>2, <3>1
    <3>2. CASE i # a
      <4>1. i \in Descs /\ Pending(i) /\ status[i] = 255
        BY <1>0, <2>3, <3>2 DEF PlaceInv
      <4>2. Pending(i)' /\ status'[i] = status[i]
        BY <2>1, <3>2, <4>1
      <4>3. QED
        BY <4>1, <4>2
    <3>3. QED
      BY <3>1, <3>2
  <2>5. ASSUME NEW i \in taken' PROVE Pending(i)'
    <3>1. i \in taken /\ i # a
      BY <1>2, <1>12
    <3>2. i \in Descs /\ Pending(i)
      BY <1>0, <3>1 DEF PlaceInv, Types
    <3>3. QED
      BY <2>1, <3>1, <3>2
  <2>6. ASSUME NEW i \in Held(usedring)' PROVE i \in Descs /\ Pending(i)' /\ status'[i] = 0
    <3>1. i \in Held(usedring) /\ i # a
      BY <1>12, <2>3
    <3>2. i \in Descs /\ Pending(i) /\ status[i] = 0
      BY <1>0, <3>1 DEF PlaceInv
    <3>3. Pending(i)' /\ status'[i] = status[i]
      BY <2>1, <3>1, <3>2
    <3>4. QED
      BY <3>2, <3>3
  <2>7. /\ Held(availring)' \cap taken' = {} /\ Held(availring)' \cap Held(usedring)' = {}
        /\ taken' \cap Held(usedring)' = {}
    <3>1. /\ Held(availring) \cap taken = {} /\ Held(availring) \cap Held(usedring) = {}
          /\ taken \cap Held(usedring) = {} /\ taken' = taken
      BY <1>0, <1>2 DEF PlaceInv
    <3>2. QED
      BY <1>12, <2>3, <3>1
  <2>8. ASSUME NEW u \in Requests', bdisk'[u] = FALSE PROVE status'[head'[u]] = 0
    <3>1. u \in Requests
      BY <1>5, <1>7, <2>8
    <3>2. head'[u] = head[u] /\ head[u] \in Descs \ {a} /\ bdisk[u] = FALSE
      BY <1>7, <1>15, <2>8, <3>1
    <3>3. status[head[u]] = 0
      BY <1>0, <3>1, <3>2 DEF PlaceInv
    <3>4. QED
      BY <1>10, <3>2, <3>3, SMT
  <2>9. QED
    BY <2>4, <2>5, <2>6, <2>7, <2>8 DEF PlaceInv
<1>22. RingInv'
  <2>1. PICK n : n = Cardinality(Held(availring))
    OBVIOUS
  <2>2. n \in Nat /\ availidx = (lastavail + n) % U16
    <3>1. RingFrom(availring, lastavail) /\ availidx = (lastavail + n) % U16
      BY <1>0, <1>2, <2>1, VirtioAssumption DEF RingInv
    <3>2. QED
      BY <2>1, <3>1, HeldFinite DEF RingFrom
  <2>3. n + 1 > 0 /\ (n + 1) - 1 = n
    BY <2>2, SMT
  <2>4. QED
    BY <1>0, <1>2, <1>12, <2>1, <2>2, <2>3 DEF RingInv
<1>23. QED
  BY <1>13, <1>16, <1>17, <1>18, <1>19, <1>20, <1>21, <1>22 DEF Inv

\* The request has finished: free_chain() frees what was t's, and no more.
LEMMA FinishKeeps ==
  ASSUME Inv, NEW t \in Threads, Finish(t)
  PROVE  Inv'
<1>0. Types /\ ChainInv /\ CountInv /\ LockInv /\ WakeInv /\ CallInv /\ PlaceInv /\ RingInv
  BY DEF Inv
<1>1. t \in Requests /\ bdisk[t] = FALSE /\ ChainOK(t) /\ Own(t) \subseteq Descs \ free
  <2>1. pc[t] = "awake" /\ ~bdisk[t] /\ bdisk[t] \in BOOLEAN
    BY <1>0 DEF Finish, Types
  <2>2. t \in Requests
    BY <2>1 DEF Requests, InDriver
  <2>3. QED
    BY <1>0, <2>1, <2>2, OwnFacts DEF ChainOK
<1>2. /\ pc[t] = "awake" /\ lock = None
      /\ free' = free \cup Own(t)
      /\ desc' = [i \in Descs |-> IF i \in Own(t) THEN NoDesc ELSE desc[i]]
      /\ infob' = [infob EXCEPT ![head[t]] = None]
      /\ head' = [head EXCEPT ![t] = None] /\ op' = [op EXCEPT ![t] = "none"]
      /\ mem' = [mem EXCEPT ![t] = None] /\ GotoAndWakeFree(t, "idle")
      /\ UNCHANGED <<bdisk, status, rings, lock, taken, lastavail, irq, platter>>
  <2>1. Chain(head[t]) = Own(t)
    BY <1>1, ChainIsOwn
  <2>2. QED
    BY <2>1 DEF Finish, device
<1>3. UNCHANGED <<availring, availidx, usedring, usedidx, used_idx>>
  BY <1>2 DEF rings
<1>4. /\ pc' \in [Threads -> Labels] /\ pc'[t] = "idle"
      /\ \A u \in Threads \ {t} : pc'[u] = IF pc[u] = "nofree" THEN "alloc" ELSE pc[u]
  BY <1>0, <1>2, WakeFacts DEF Labels
<1>5. Requests' = Requests \ {t}
  BY <1>4 DEF Requests, InDriver
<1>6. /\ head[t] \in Own(t) /\ Mid(t) \in Own(t) /\ End(t) \in Own(t)
      /\ head[t] \in Descs /\ Mid(t) \in Descs /\ End(t) \in Descs
  BY <1>1 DEF Own
<1>7. desc' \in [Descs -> Recs] /\ \A i \in Descs \ Own(t) : desc'[i] = desc[i]
  <2>1. 0 \in Descs /\ None \in Addrs
    BY Sizes, SMT DEF Descs, Addrs
  <2>2. NoDesc \in Recs
    BY <2>1 DEF NoDesc, Recs
  <2>3. desc \in [Descs -> Recs]
    BY <1>0 DEF Types
  <2>4. QED
    BY <1>2, <2>2, <2>3
<1>8. /\ infob' \in [Descs -> Threads \cup {None}]
      /\ \A i \in Descs \ {head[t]} : infob'[i] = infob[i]
  <2>1. infob \in [Descs -> Threads \cup {None}]
    BY <1>0 DEF Types
  <2>2. QED
    BY <1>2, <1>6, <2>1
<1>9. /\ head' \in [Threads -> Entries] /\ \A u \in Threads \ {t} : head'[u] = head[u]
  <2>1. head \in [Threads -> Entries] /\ None \in Entries
    BY <1>0 DEF Types, Entries
  <2>2. QED
    BY <1>2, <2>1
<1>10. /\ op' \in [Threads -> {"none", "read", "write"}] /\ op'[t] = "none"
       /\ \A u \in Threads \ {t} : op'[u] = op[u]
  <2>1. op \in [Threads -> {"none", "read", "write"}]
    BY <1>0 DEF Types
  <2>2. QED
    BY <1>2, <2>1
<1>11. /\ mem' \in [Threads -> Vals \cup {None}]
       /\ \A u \in Threads \ {t} : mem'[u] = mem[u]
  <2>1. mem \in [Threads -> Vals \cup {None}]
    BY <1>0 DEF Types
  <2>2. QED
    BY <1>2, <2>1
<1>12. free' \subseteq Descs /\ Descs \ free' = (Descs \ free) \ Own(t)
  BY <1>0, <1>1, <1>2 DEF Types
<1>13. Types'
  BY <1>0, <1>2, <1>3, <1>4, <1>7, <1>8, <1>9, <1>10, <1>11, <1>12 DEF Types, Labels
<1>14. ASSUME NEW u \in Requests'
       PROVE  /\ u \in Requests /\ u \in Threads \ {t} /\ ChainOK(u) /\ Own(u) \cap Own(t) = {}
              /\ head'[u] = head[u] /\ head[u] \in Descs \ {head[t]}
              /\ Mid(u)' = Mid(u) /\ End(u)' = End(u) /\ Own(u)' = Own(u)
              /\ desc'[head[u]] = desc[head[u]] /\ desc'[Mid(u)] = desc[Mid(u)] /\ desc'[End(u)] = desc[End(u)]
  <2>1. u \in Requests /\ u \in Threads \ {t} /\ ChainOK(u) /\ u # t
    BY <1>0, <1>5, OwnFacts
  <2>2. Own(u) \cap Own(t) = {} /\ Own(u) \subseteq Descs
    BY <1>0, <1>1, <2>1 DEF ChainInv, ChainOK
  <2>3. head[u] \in Descs \ Own(t) /\ Mid(u) \in Descs \ Own(t) /\ End(u) \in Descs \ Own(t)
    BY <2>2 DEF Own
  <2>4. head'[u] = head[u] /\ desc'[head[u]] = desc[head[u]]
    BY <1>7, <1>9, <2>1, <2>3
  <2>5. Mid(u)' = Mid(u) /\ desc'[Mid(u)] = desc[Mid(u)]
    BY <1>7, <2>3, <2>4 DEF Mid
  <2>6. End(u)' = End(u) /\ desc'[End(u)] = desc[End(u)]
    BY <1>7, <2>3, <2>5 DEF End
  <2>7. Own(u)' = Own(u)
    BY <2>4, <2>5, <2>6 DEF Own
  <2>8. QED
    BY <1>6, <2>1, <2>2, <2>3, <2>4, <2>5, <2>6, <2>7
<1>15. ChainInv'
  <2>1. ASSUME NEW u \in Requests' PROVE ChainOK(u)'
    <3>1. ChainOK(u) /\ op'[u] = op[u] /\ infob'[head[u]] = infob[head[u]]
      BY <1>8, <1>10, <1>14
    <3>2. Own(u)' \subseteq Descs \ free'
      <4>1. Own(u) \subseteq Descs \ free /\ Own(u) \cap Own(t) = {} /\ Own(u)' = Own(u)
        BY <1>14 DEF ChainOK
      <4>2. QED
        BY <1>12, <4>1
    <3>3. /\ head'[u] = head[u] /\ Mid(u)' = Mid(u) /\ End(u)' = End(u)
          /\ desc'[head[u]] = desc[head[u]] /\ desc'[Mid(u)] = desc[Mid(u)] /\ desc'[End(u)] = desc[End(u)]
      BY <1>14
    <3>4. QED
      BY <3>1, <3>2, <3>3 DEF ChainOK
  <2>2. \A u, w \in Requests' : u # w => Own(u)' \cap Own(w)' = {}
    <3>1. SUFFICES ASSUME NEW u \in Requests', NEW w \in Requests', u # w PROVE Own(u)' \cap Own(w)' = {}
      OBVIOUS
    <3>2. u \in Requests /\ w \in Requests /\ Own(u)' = Own(u) /\ Own(w)' = Own(w)
      BY <1>14
    <3>3. Own(u) \cap Own(w) = {}
      BY <1>0, <3>1, <3>2 DEF ChainInv
    <3>4. QED
      BY <3>2, <3>3
  <2>3. ASSUME NEW i \in Descs \ free' PROVE \E u \in Requests' : i \in Own(u)'
    <3>1. i \in Descs \ free /\ i \notin Own(t)
      BY <1>12
    <3>2. PICK u \in Requests : i \in Own(u)
      BY <1>0, <3>1 DEF ChainInv
    <3>3. u \in Requests'
      BY <1>5, <3>1, <3>2
    <3>4. Own(u)' = Own(u)
      BY <1>14, <3>3
    <3>5. QED
      BY <3>2, <3>3, <3>4
  <2>4. QED
    BY <2>1, <2>2, <2>3 DEF ChainInv
<1>16. CountInv'
  <2>1. IsFiniteSet(Descs \ free) /\ IsFiniteSet(Requests)
    BY <1>0, Sizes, FS_Subset DEF CountInv
  <2>2. IsFiniteSet(Requests') /\ Cardinality(Requests') = Cardinality(Requests) - 1
    BY <1>1, <1>5, <2>1, FS_RemoveElement
  <2>3. PICK S1, S2, S3 :
          S1 = (Descs \ free) \ {head[t]} /\ S2 = S1 \ {Mid(t)} /\ S3 = S2 \ {End(t)}
    OBVIOUS
  <2>4. IsFiniteSet(S1) /\ Cardinality(S1) = Cardinality(Descs \ free) - 1
    <3>1. head[t] \in Descs \ free
      BY <1>1, <1>6
    <3>2. QED
      BY <2>1, <2>3, <3>1, FS_RemoveElement
  <2>5. IsFiniteSet(S2) /\ Cardinality(S2) = Cardinality(S1) - 1
    <3>1. Mid(t) \in S1
      BY <1>1, <1>6, <2>3 DEF ChainOK
    <3>2. QED
      BY <2>3, <2>4, <3>1, FS_RemoveElement
  <2>6. Cardinality(S3) = Cardinality(S2) - 1
    <3>1. End(t) \in S2
      BY <1>1, <1>6, <2>3 DEF ChainOK
    <3>2. QED
      BY <2>3, <2>5, <3>1, FS_RemoveElement
  <2>7. Descs \ free' = S3
    BY <1>12, <2>3 DEF Own
  <2>8. Cardinality(Requests) \in Nat /\ Cardinality(Descs \ free) = 3 * Cardinality(Requests)
    BY <1>0, <2>1, FS_CardinalityType DEF CountInv
  <2>9. Cardinality(Descs \ free') = 3 * Cardinality(Requests')
    <3>1. PICK r \in Nat : r = Cardinality(Requests)
      BY <2>8
    <3>2. Cardinality(S3) = ((3 * r - 1) - 1) - 1
      BY <2>4, <2>5, <2>6, <2>8, <3>1
    <3>3. ((3 * r - 1) - 1) - 1 = 3 * (r - 1)
      BY SMT
    <3>4. QED
      BY <2>2, <2>7, <3>1, <3>2, <3>3
  <2>10. QED
    BY <2>2, <2>9 DEF CountInv
<1>17. LockInv'
  <2>1. \A u \in Threads : pc'[u] = "publish" <=> pc[u] = "publish"
    BY <1>2, <1>4
  <2>2. QED
    BY <1>0, <1>2, <2>1 DEF LockInv
<1>18. WakeInv'
  <2>1. \A u \in Threads : pc'[u] # "nofree"
    BY <1>4
  <2>2. \A u \in Threads : pc'[u] \in {"publish", "wait"} => bdisk[u] = TRUE
    BY <1>0, <1>4 DEF WakeInv
  <2>3. QED
    BY <1>0, <1>2, <1>3, <2>1, <2>2 DEF WakeInv
<1>19. CallInv'
  <2>1. \A u \in Threads \ {t} : pc'[u] = "idle" <=> pc[u] = "idle"
    BY <1>4
  <2>2. QED
    BY <1>0, <1>4, <1>10, <1>11, <2>1 DEF CallInv
<1>20. PlaceInv'
  <2>1. ASSUME NEW i \in Descs, Pending(i) PROVE Pending(i)'
    <3>1. infob[i] \in Requests /\ infob[i] # t /\ head[infob[i]] = i
      BY <1>1, <2>1 DEF Pending
    <3>2. infob[i] \in Threads \ {t} /\ infob[i] \in Requests'
      BY <1>5, <3>1 DEF Requests
    <3>3. i # head[t]
      BY <1>1, <3>1 DEF ChainOK
    <3>4. infob'[i] = infob[i] /\ head'[infob[i]] = i
      BY <1>8, <1>9, <3>1, <3>2, <3>3
    <3>5. QED
      BY <1>2, <2>1, <3>2, <3>4 DEF Pending
  <2>2. Held(availring)' = Held(availring) /\ Held(usedring)' = Held(usedring)
    BY <1>3 DEF Held, Slots
  <2>3. \A i \in Held(availring)' : i \in Descs /\ Pending(i)' /\ status'[i] = 255
    BY <1>0, <1>2, <2>1, <2>2 DEF PlaceInv
  <2>4. \A i \in taken' : Pending(i)'
    BY <1>0, <1>2, <2>1 DEF PlaceInv, Types
  <2>5. \A i \in Held(usedring)' : i \in Descs /\ Pending(i)' /\ status'[i] = 0
    BY <1>0, <1>2, <2>1, <2>2 DEF PlaceInv
  <2>6. /\ Held(availring)' \cap taken' = {} /\ Held(availring)' \cap Held(usedring)' = {}
        /\ taken' \cap Held(usedring)' = {}
    BY <1>0, <1>2, <2>2 DEF PlaceInv
  <2>7. ASSUME NEW u \in Requests', bdisk'[u] = FALSE PROVE status'[head'[u]] = 0
    <3>1. u \in Requests /\ head'[u] = head[u] /\ bdisk[u] = FALSE
      BY <1>2, <1>14, <2>7
    <3>2. QED
      BY <1>0, <1>2, <3>1, SeenMoved
  <2>8. QED
    BY <2>3, <2>4, <2>5, <2>6, <2>7 DEF PlaceInv
<1>21. RingInv'
  BY <1>0, <1>2, RingsKept
<1>22. QED
  BY <1>13, <1>15, <1>16, <1>17, <1>18, <1>19, <1>20, <1>21 DEF Inv

-----------------------------------------------------------------------------
(* The invariant, and what follows from it.                                *)

\* It holds when virtio_disk_init() is done.
LEMMA InitInv == Init => Inv
<1> SUFFICES ASSUME Init PROVE Inv
  OBVIOUS
<1>1. Requests = {} /\ Descs \ free = {} /\ Slots(availring) = {} /\ Slots(usedring) = {}
  BY DEF Init, Requests, InDriver, Slots
<1>2. Held(availring) = {} /\ Held(usedring) = {}
  BY <1>1 DEF Held
<1>3. Cardinality({}) = 0 /\ IsFiniteSet({})
  BY FS_EmptySet
<1>4. 0 \in 0..U16-1 /\ 0 \in Descs /\ 0 \in {0, 255} /\ (0 + 0) % U16 = 0
  <2>1. 0 \in 0..U16-1 /\ 0 \in Descs /\ 0 + 0 = 0 /\ 0 \in Nat
    BY Sizes, SMT DEF Descs
  <2>2. QED
    BY <2>1, Sizes, ModRange
<1>5. Types
  <2>1. NoDesc \in Recs
    BY <1>4 DEF NoDesc, Recs, Addrs
  <2>2. QED
    BY <1>4, <2>1 DEF Init, Types, Entries
<1>6. ChainInv
  BY <1>1 DEF ChainInv
<1>7. CountInv
  BY <1>1, <1>3, SMT DEF CountInv
<1>8. LockInv
  BY VirtioAssumption DEF Init, LockInv
<1>9. WakeInv /\ CallInv
  BY DEF Init, WakeInv, CallInv
<1>10. PlaceInv
  BY <1>1, <1>2 DEF Init, PlaceInv
<1>11. RingInv
  <2>1. Window(0, 0) = {}
    BY SMT DEF Window
  <2>2. RingFrom(availring, 0) /\ RingFrom(usedring, 0)
    BY <1>1, <1>2, <1>3, <1>5, <2>1 DEF RingFrom, Types
  <2>3. lock \notin Threads
    BY VirtioAssumption DEF Init
  <2>4. QED
    BY <1>2, <1>3, <1>4, <2>2, <2>3 DEF Init, RingInv
<1>12. QED
  BY <1>5, <1>6, <1>7, <1>8, <1>9, <1>10, <1>11 DEF Inv

\* Every step of the threads, the handler and the device keeps it.
LEMMA NextInv == Inv /\ [Next]_vars => Inv'
<1> SUFFICES ASSUME Inv, [Next]_vars PROVE Inv'
  OBVIOUS
<1>1. ASSUME NEW t \in Threads, NEW o \in {"read", "write"}, NEW v \in Vals \cup {None}, virtio_disk_rw(t, o, v)
      PROVE  Inv'
  BY <1>1, CallKeeps
<1>2. ASSUME NEW t \in Threads, AllocFails(t) \/ WaitAgain(t) \/ kill(t) PROVE Inv'
  BY <1>2, SleepKeeps
<1>3. ASSUME NEW t \in Threads, Alloc(t) PROVE Inv'
  BY <1>3, AllocKeeps
<1>4. ASSUME NEW t \in Threads, Publish(t) PROVE Inv'
  BY <1>4, PublishKeeps
<1>5. ASSUME NEW t \in Threads, Finish(t) PROVE Inv'
  BY <1>5, FinishKeeps
<1>6. CASE Intr
  BY <1>6, HandlerKeeps, IntrEntryKeeps DEF Intr
<1>7. CASE Device
  BY <1>7, DevTakeKeeps, DevMoveKeeps, DevUsedKeeps DEF Device
<1>8. CASE UNCHANGED vars
  <2>1. UNCHANGED <<driver, status, rings, lock, device, contents, op, head>> /\ UNCHANGED pc
    BY <1>8 DEF vars, thread
  <2>2. pc' \in [Threads -> Labels]
    BY <2>1 DEF Inv, Types, Labels
  <2>3. /\ \A u \in Threads : pc'[u] = "wait" => bdisk[u] = TRUE
        /\ \A u \in Threads : pc'[u] = "nofree" => Cardinality(free) < 3
    BY <2>1 DEF Inv, WakeInv
  <2>4. QED
    BY <2>1, <2>2, <2>3, LabelsKeep
<1>9. QED
  BY <1>1, <1>2, <1>3, <1>4, <1>5, <1>6, <1>7, <1>8 DEF Next

\* The invariant holds in every state of the driver and the device.
LEMMA InvAlways == Spec => []Inv
BY InitInv, NextInv, PTL DEF Spec

\* The variables keep the types of their C declarations.
THEOREM VirtioTypeCorrect == Spec => []TypeOK
<1>1. ASSUME Inv PROVE TypeOK
  <2>1. ASSUME NEW i \in Descs PROVE desc[i].next \in BOOLEAN /\ desc[i].to \in Descs
    <3>1. desc[i] \in Recs
      BY <1>1 DEF Inv, Types
    <3>2. QED
      BY <3>1 DEF Recs
  <2>2. QED
    BY <1>1, <2>1 DEF Inv, Types, TypeOK
<1>2. QED
  BY <1>1, InvAlways, PTL

\* The descriptors in use are those of the requests in the driver, three for each,
\* however many threads call it: free_desc() finds none freed already, and
\* free_chain() leaves none behind.
THEOREM DescriptorsAccounted == Spec => []DescsAccounted
<1>1. ASSUME Inv PROVE DescsAccounted
  <2>1. ChainInv /\ CountInv
    BY <1>1 DEF Inv
  <2>2. ASSUME NEW t \in Requests
        PROVE  Chain(head[t]) = Own(t) /\ Own(t) \subseteq Descs \ free
    BY <2>1, OwnFacts, ChainIsOwn DEF ChainOK
  <2>3. Descs \ free = UNION {Chain(head[t]) : t \in Requests}
    <3>1. ASSUME NEW i \in Descs \ free PROVE i \in UNION {Chain(head[t]) : t \in Requests}
      <4>1. PICK t \in Requests : i \in Own(t)
        BY <2>1 DEF ChainInv
      <4>2. i \in Chain(head[t])
        BY <2>2, <4>1
      <4>3. QED
        BY <4>2
    <3>2. ASSUME NEW i \in UNION {Chain(head[t]) : t \in Requests} PROVE i \in Descs \ free
      <4>1. PICK t \in Requests : i \in Chain(head[t])
        OBVIOUS
      <4>2. QED
        BY <2>2, <4>1
    <3>3. QED
      BY <3>1, <3>2
  <2>4. QED
    BY <2>1, <2>3 DEF DescsAccounted, CountInv, Requests
<1>2. QED
  BY <1>1, InvAlways, PTL

\* No completion is forgotten, who waits for a finished request is awake, and
\* nobody sleeps in virtio_disk_rw() while three descriptors are free.
THEOREM CompletionsSeen == Spec => []NoLostDiskWakeup
<1>1. ASSUME Inv PROVE NoLostDiskWakeup
  BY <1>1 DEF Inv, WakeInv, NoLostDiskWakeup
<1>2. QED
  BY <1>1, InvAlways, PTL

\* A ring is empty for the one that reads it exactly when its two indices are the
\* same, though they wrap: no entry is ever overwritten or passed over.
RingsExact ==
  /\ used_idx = usedidx <=> Held(usedring) = {}
  /\ lock \notin Threads => (lastavail = availidx <=> Held(availring) = {})

\* The indices tell an empty ring from a full one: a request needs three
\* descriptors, so that a ring of NUM slots never holds NUM heads.
THEOREM RingsNotOverrun == Spec => []RingsExact
<1>1. ASSUME Inv, NEW ring \in [Descs -> Entries], \A i \in Held(ring) : i \in Descs /\ Pending(i)
      PROVE  Cardinality(Held(ring)) \in Nat /\ Cardinality(Held(ring)) < U16
  <2>1. Cardinality(Held(ring)) \in Nat
    BY <1>1, HeldFinite
  <2>2. CASE Held(ring) = {}
    <3>1. Cardinality(Held(ring)) = 0
      BY <2>2, FS_EmptySet
    <3>2. QED
      BY <2>1, <3>1, Sizes, SMT
  <2>3. CASE Held(ring) # {}
    <3>1. PICK i \in Held(ring) : i \in Descs /\ Pending(i)
      BY <1>1, <2>3
    <3>2. PICK t \in Requests : t = infob[i]
      BY <3>1 DEF Pending
    <3>3. ChainInv /\ ChainOK(t) /\ Mid(t) \in Descs
      BY <1>1, <3>2, OwnFacts DEF Inv
    <3>4. Mid(t) \notin Held(ring)
      <4>1. SUFFICES ASSUME Mid(t) \in Held(ring) PROVE FALSE
        OBVIOUS
      <4>2. PICK u \in Requests : head[u] = Mid(t)
        BY <1>1, <4>1 DEF Pending
      <4>3. u # t
        BY <3>3, <4>2 DEF ChainOK
      <4>4. QED
        BY <3>3, <4>2, <4>3 DEF ChainInv, Own
    <3>5. IsFiniteSet(Descs \ {Mid(t)}) /\ Cardinality(Descs \ {Mid(t)}) = NUM - 1
      BY <3>3, Sizes, FS_RemoveElement
    <3>6. Held(ring) \subseteq Descs \ {Mid(t)}
      BY <1>1, <3>4
    <3>7. Cardinality(Held(ring)) <= NUM - 1
      BY <3>5, <3>6, FS_Subset
    <3>8. QED
      BY <2>1, <3>7, Sizes, SMT
  <2>4. QED
    BY <2>2, <2>3
<1>2. ASSUME NEW i \in 0..U16-1, NEW n \in Nat, n < U16
      PROVE  (i + n) % U16 = i <=> n = 0
  <2>1. i \in Nat /\ i + 0 = i
    BY Sizes, SMT
  <2>2. i % U16 = i
    BY <2>1, Sizes, ModRange
  <2>3. ASSUME n # 0 PROVE (i + n) % U16 # i
    <3>1. n \in 1..U16-1
      BY <1>2, <2>3, Sizes, SMT
    <3>2. QED
      BY <2>1, <2>2, <3>1, Sizes, ModDistinct
  <2>4. QED
    BY <2>1, <2>2, <2>3
<1>3. ASSUME NEW ring \in [Descs -> Entries] PROVE Held(ring) = {} <=> Cardinality(Held(ring)) = 0
  BY HeldFinite, FS_EmptySet
<1>4. ASSUME Inv PROVE RingsExact
  <2>1. /\ Types /\ RingInv
        /\ Cardinality(Held(availring)) \in Nat /\ Cardinality(Held(availring)) < U16
        /\ Cardinality(Held(usedring)) \in Nat /\ Cardinality(Held(usedring)) < U16
    <3>1. Types /\ RingInv /\ PlaceInv
      BY <1>4 DEF Inv
    <3>2. QED
      BY <1>1, <1>4, <3>1 DEF Types, PlaceInv
  <2>2. used_idx = usedidx <=> Cardinality(Held(usedring)) = 0
    <3>1. usedidx = (used_idx + Cardinality(Held(usedring))) % U16 /\ used_idx \in 0..U16-1
      BY <2>1 DEF RingInv, Types
    <3>2. QED
      BY <1>2, <2>1, <3>1
  <2>3. ASSUME lock \notin Threads PROVE lastavail = availidx <=> Cardinality(Held(availring)) = 0
    <3>1. availidx = (lastavail + Cardinality(Held(availring))) % U16 /\ lastavail \in 0..U16-1
      BY <2>1, <2>3 DEF RingInv, Types
    <3>2. QED
      BY <1>2, <2>1, <3>1
  <2>4. QED
    BY <1>3, <2>1, <2>2, <2>3 DEF RingsExact, Types
<1>5. QED
  BY <1>4, InvAlways, PTL

-----------------------------------------------------------------------------
(* The driver implements DiskRequests.                                     *)

\* Moved, for one thread and after a step.
LEMMA MovedFacts ==
  ASSUME NEW t \in Threads
  PROVE  /\ Moved[t] = (t \in Requests /\ status[head[t]] = 0)
         /\ Moved'[t] = (t \in Requests' /\ status'[head'[t]] = 0)
BY DEF Moved, Requests

\* A step after which every request has moved what it had moved.
LEMMA MovedKept ==
  ASSUME \A t \in Threads : (t \in Requests' /\ status'[head'[t]] = 0) <=> (t \in Requests /\ status[head[t]] = 0)
  PROVE  Moved' = Moved
BY DEF Moved, Requests

\* Steps that the callers do not see.
LEMMA SilentSteps ==
  ASSUME UNCHANGED <<status, head, op, platter, mem>>, Requests' = Requests
  PROVE  UNCHANGED D!dvars
<1>1. Moved' = Moved
  BY MovedKept
<1>2. QED
  BY <1>1 DEF D!dvars

\* The call is the call.
LEMMA CallRefines ==
  ASSUME Inv, NEW t \in Threads, NEW o \in {"read", "write"}, NEW v \in Vals \cup {None},
         virtio_disk_rw(t, o, v)
  PROVE  D!DCall(t, o, v)
<1>1. /\ Types /\ CallInv /\ pc[t] = "idle" /\ Goto(t, "alloc") /\ UNCHANGED <<status, platter, head>>
      /\ op' = [op EXCEPT ![t] = o] /\ mem' = [mem EXCEPT ![t] = v]
  BY DEF Inv, virtio_disk_rw
<1>2. pc'[t] = "alloc" /\ \A u \in Threads \ {t} : pc'[u] = pc[u]
  BY <1>1, GotoFacts DEF Labels
<1>3. Requests' = Requests
  BY <1>1, <1>2, RequestsKept DEF InDriver
<1>4. Moved' = Moved
  BY <1>1, <1>3, MovedKept
<1>5. op[t] = "none"
  BY <1>1 DEF CallInv
<1>6. QED
  BY <1>1, <1>4, <1>5 DEF D!DCall

\* Neither sleeping nor waking is seen, nor is what the driver tells the device.
LEMMA ThreadSilent ==
  ASSUME Inv, NEW t \in Threads, AllocFails(t) \/ Publish(t) \/ WaitAgain(t) \/ kill(t)
  PROVE  UNCHANGED D!dvars
<1>1. UNCHANGED <<status, head, op, platter, mem>>
  BY DEF AllocFails, Publish, WaitAgain, kill, contents
<1>2. Types /\ {"alloc", "nofree", "wait", "awake"} \subseteq Labels
  BY DEF Inv, Labels, InDriver
<1>3. \/ pc[t] = "alloc" /\ (Goto(t, "nofree") \/ GotoAndWakeFree(t, "nofree"))
      \/ pc[t] \in {"publish", "awake"} /\ Goto(t, "wait")
      \/ pc[t] = "nofree" /\ Goto(t, "alloc")
      \/ pc[t] = "wait" /\ Goto(t, "awake")
  BY DEF AllocFails, Publish, WaitAgain, kill
<1>4. /\ \A u \in Threads \ {t} : pc'[u] = pc[u] \/ (pc[u] = "nofree" /\ pc'[u] = "alloc")
      /\ \/ pc[t] = "alloc" /\ pc'[t] = "nofree"
         \/ pc[t] \in {"publish", "awake"} /\ pc'[t] = "wait"
         \/ pc[t] = "nofree" /\ pc'[t] = "alloc"
         \/ pc[t] = "wait" /\ pc'[t] = "awake"
  <2>1. ASSUME NEW l \in Labels, Goto(t, l) PROVE pc'[t] = l /\ \A u \in Threads \ {t} : pc'[u] = pc[u]
    BY <1>2, <2>1, GotoFacts
  <2>2. ASSUME GotoAndWakeFree(t, "nofree")
        PROVE  /\ pc'[t] = "nofree"
               /\ \A u \in Threads \ {t} : pc'[u] = pc[u] \/ (pc[u] = "nofree" /\ pc'[u] = "alloc")
    BY <1>2, <2>2, WakeFacts
  <2>3. QED
    BY <1>2, <1>3, <2>1, <2>2
<1>5. \A u \in Threads : pc'[u] \in InDriver <=> pc[u] \in InDriver
  BY <1>4 DEF InDriver
<1>6. QED
  BY <1>1, <1>5, RequestsKept, SilentSteps

\* Nor is that a request has been formatted: its block has not moved yet.
LEMMA AllocSilent ==
  ASSUME Inv, NEW t \in Threads, Alloc(t)
  PROVE  UNCHANGED D!dvars
<1>1. PICK a \in free :
        /\ head' = [head EXCEPT ![t] = a] /\ status' = [status EXCEPT ![a] = 255]
  BY DEF Alloc, Format
<1>2. pc[t] = "alloc" /\ Goto(t, "publish") /\ UNCHANGED <<platter, mem, op>>
  BY DEF Alloc, contents
<1>3. Types /\ ChainInv /\ a \in Descs
  BY DEF Inv, Types
<1>4. pc'[t] = "publish" /\ \A u \in Threads \ {t} : pc'[u] = pc[u]
  BY <1>2, <1>3, GotoFacts DEF Labels, InDriver
<1>5. Requests' = Requests \cup {t} /\ t \notin Requests
  BY <1>2, <1>4 DEF Requests, InDriver
<1>6. /\ head'[t] = a /\ \A u \in Threads \ {t} : head'[u] = head[u]
      /\ status'[a] = 255 /\ \A i \in Descs \ {a} : status'[i] = status[i]
  <2>1. head \in [Threads -> Entries] /\ status \in [Descs -> {0, 255}]
    BY <1>3 DEF Types
  <2>2. QED
    BY <1>1, <1>3, <2>1, SMT
<1>7. ASSUME NEW u \in Threads
      PROVE  (u \in Requests' /\ status'[head'[u]] = 0) <=> (u \in Requests /\ status[head[u]] = 0)
  <2>1. CASE u = t
    <3>1. status'[head'[t]] # 0
      BY <1>6, SMT
    <3>2. QED
      BY <1>5, <2>1, <3>1
  <2>2. CASE u # t /\ u \in Requests
    <3>1. head[u] \in Descs \ {a}
      BY <1>3, <2>2, OwnFacts
    <3>2. head'[u] = head[u] /\ status'[head[u]] = status[head[u]]
      BY <1>6, <2>2, <3>1
    <3>3. QED
      BY <1>5, <2>2, <3>2
  <2>3. CASE u # t /\ u \notin Requests
    BY <1>5, <2>3
  <2>4. QED
    BY <2>1, <2>2, <2>3
<1>8. Moved' = Moved
  BY <1>7, MovedKept
<1>9. QED
  BY <1>2, <1>8 DEF D!dvars

\* The device moves the block of the request whose chain it works on, in the
\* direction asked for, once.
LEMMA MoveRefines ==
  ASSUME Inv, NEW i \in Descs, DevMove(i)
  PROVE  \E t \in Threads : D!DMove(t)
<1>1. i \in taken /\ status[i] # 0 /\ UNCHANGED <<driver, thread>>
  BY DEF DevMove
<1>2. PICK t \in Requests :
        /\ t = infob[i] /\ head[t] = i /\ bdisk[t] = TRUE /\ i \in Descs
        /\ desc[i].addr = <<op[t], t>> /\ desc[desc[i].to].addr = <<"data", t>>
        /\ desc[Last(i)].addr = <<"status", i>>
  BY <1>1, TakenChain
<1>3. /\ desc[Last(i)].addr[2] = i /\ desc[i].addr[2] = t /\ desc[desc[i].to].addr[2] = t
      /\ desc[i].addr[1] = op[t]
  BY <1>2, SMT
<1>4. /\ status' = [status EXCEPT ![i] = 0]
      /\ \/ op[t] = "read" /\ mem' = [mem EXCEPT ![t] = platter[t]] /\ UNCHANGED platter
         \/ op[t] = "write" /\ platter' = [platter EXCEPT ![t] = mem[t]] /\ UNCHANGED mem
  BY <1>3 DEF DevMove
<1>5. UNCHANGED <<head, op, pc>> /\ Requests' = Requests
  <2>1. UNCHANGED <<head, op, pc>>
    BY <1>1 DEF thread
  <2>2. QED
    BY <2>1, RequestsKept
<1>6. t \in Threads /\ status \in [Descs -> {0, 255}] /\ ChainInv
  BY DEF Inv, Types, Requests
<1>7. status'[i] = 0 /\ \A j \in Descs \ {i} : status'[j] = status[j]
  BY <1>4, <1>6, SMT
<1>8. ASSUME NEW u \in Threads \ {t} PROVE Moved'[u] = Moved[u]
  <2>1. CASE u \in Requests
    <3>1. head[u] \in Descs /\ head[u] # i
      <4>1. Own(u) \cap Own(t) = {} /\ head[u] \in Descs
        BY <1>6, <2>1, OwnFacts DEF ChainInv
      <4>2. QED
        BY <1>2, <4>1 DEF Own
    <3>2. status'[head'[u]] = status[head[u]]
      BY <1>5, <1>7, <3>1
    <3>3. QED
      BY <1>5, <3>2, MovedFacts
  <2>2. CASE u \notin Requests
    <3>1. Moved[u] = FALSE /\ Moved'[u] = FALSE
      BY <1>5, <2>2, MovedFacts
    <3>2. QED
      BY <3>1
  <2>3. QED
    BY <2>1, <2>2
<1>9. Moved[t] = FALSE /\ Moved'[t] = TRUE
  <2>1. status[head[t]] # 0 /\ status'[head'[t]] = 0 /\ t \in Requests'
    BY <1>1, <1>2, <1>5, <1>7
  <2>2. QED
    BY <1>6, <2>1, MovedFacts
<1>10. Moved' = [Moved EXCEPT ![t] = TRUE]
  BY <1>6, <1>8, <1>9 DEF Moved
<1>11. D!DMove(t)
  BY <1>4, <1>5, <1>9, <1>10 DEF D!DMove
<1>12. QED
  BY <1>6, <1>11

\* virtio_disk_rw() returns when the block has moved.
LEMMA FinishRefines ==
  ASSUME Inv, NEW t \in Threads, Finish(t)
  PROVE  D!DReturn(t)
<1>1. Types /\ ChainInv /\ PlaceInv
  BY DEF Inv
<1>2. /\ pc[t] = "awake" /\ ~bdisk[t] /\ GotoAndWakeFree(t, "idle")
      /\ head' = [head EXCEPT ![t] = None] /\ op' = [op EXCEPT ![t] = "none"]
      /\ mem' = [mem EXCEPT ![t] = None] /\ UNCHANGED <<status, platter>>
  BY DEF Finish
<1>3. t \in Requests /\ bdisk[t] = FALSE
  BY <1>1, <1>2 DEF Types, Requests, InDriver
<1>4. pc'[t] = "idle" /\ \A u \in Threads \ {t} : pc'[u] = IF pc[u] = "nofree" THEN "alloc" ELSE pc[u]
  BY <1>1, <1>2, WakeFacts DEF Labels
<1>5. Requests' = Requests \ {t}
  BY <1>4 DEF Requests, InDriver
<1>6. \A u \in Threads \ {t} : head'[u] = head[u]
  BY <1>1, <1>2 DEF Types
<1>7. Moved[t] = TRUE /\ Moved'[t] = FALSE
  <2>1. status[head[t]] = 0
    BY <1>1, <1>3 DEF PlaceInv
  <2>2. QED
    BY <1>3, <1>5, <2>1, MovedFacts
<1>8. ASSUME NEW u \in Threads \ {t} PROVE Moved'[u] = Moved[u]
  <2>1. (u \in Requests' <=> u \in Requests) /\ status'[head'[u]] = status[head[u]]
    BY <1>2, <1>5, <1>6
  <2>2. QED
    BY <2>1, MovedFacts
<1>9. Moved' = [Moved EXCEPT ![t] = FALSE]
  BY <1>7, <1>8 DEF Moved
<1>10. QED
  BY <1>2, <1>7, <1>9 DEF D!DReturn

\* For its callers, virtio_disk_rw() moves their block once, in the direction
\* asked for and before it returns: the driver, the rings and the device together
\* implement DiskRequests.
THEOREM DriverServesRequests == Spec => RequestsServed
<1>1. Init => D!DInit
  <2>1. SUFFICES ASSUME Init PROVE D!DInit
    OBVIOUS
  <2>2. Moved = [t \in Threads |-> FALSE]
    BY <2>1 DEF Init, Moved, InDriver
  <2>3. QED
    BY <2>1, <2>2 DEF Init, D!DInit
<1>2. Inv /\ [Next]_vars => [D!DNext]_(D!dvars)
  <2> SUFFICES ASSUME Inv, [Next]_vars PROVE [D!DNext]_(D!dvars)
    OBVIOUS
  <2>1. ASSUME NEW t \in Threads, NEW o \in {"read", "write"}, NEW v \in Vals \cup {None}, virtio_disk_rw(t, o, v)
        PROVE  D!DNext
    BY <2>1, CallRefines DEF D!DNext
  <2>2. ASSUME NEW t \in Threads, AllocFails(t) \/ Publish(t) \/ WaitAgain(t) \/ kill(t)
        PROVE  UNCHANGED D!dvars
    BY <2>2, ThreadSilent
  <2>3. ASSUME NEW t \in Threads, Alloc(t) PROVE UNCHANGED D!dvars
    BY <2>3, AllocSilent
  <2>4. ASSUME NEW t \in Threads, Finish(t) PROVE D!DNext
    BY <2>4, FinishRefines DEF D!DNext
  <2>5. CASE Intr
    <3>1. UNCHANGED <<status, head, op, platter, mem>>
      BY <2>5 DEF Intr, IntrAck, IntrEntry, IntrEnd, contents, thread
    <3>2. Requests' = Requests
      <4>1. CASE IntrAck \/ IntrEnd
        <5>1. pc' = pc
          BY <4>1 DEF IntrAck, IntrEnd, thread
        <5>2. QED
          BY <5>1, RequestsKept
      <4>2. CASE IntrEntry
        <5>1. PICK t : pc' = [pc EXCEPT ![t] = IF pc[t] = "wait" THEN "awake" ELSE pc[t]]
          BY <4>2 DEF IntrEntry
        <5>2. pc \in [Threads -> Labels]
          BY DEF Inv, Types, Labels
        <5>3. \A u \in Threads : pc'[u] = pc[u] \/ (pc[u] = "wait" /\ pc'[u] = "awake")
          BY <5>1, <5>2
        <5>4. \A u \in Threads : pc'[u] \in InDriver <=> pc[u] \in InDriver
          BY <5>3 DEF InDriver
        <5>5. QED
          BY <5>4, RequestsKept
      <4>3. QED
        BY <2>5, <4>1, <4>2 DEF Intr
    <3>3. QED
      BY <3>1, <3>2, SilentSteps
  <2>6. ASSUME DevTake \/ \E i \in Descs : DevUsed(i) PROVE UNCHANGED D!dvars
    <3>1. UNCHANGED <<status, head, op, platter, mem, pc>>
      BY <2>6 DEF DevTake, DevUsed, contents, thread
    <3>2. QED
      BY <3>1, RequestsKept, SilentSteps
  <2>7. ASSUME NEW i \in Descs, DevMove(i) PROVE D!DNext
    BY <2>7, MoveRefines DEF D!DNext
  <2>8. CASE UNCHANGED vars
    <3>1. UNCHANGED <<status, head, op, platter, mem, pc>>
      BY <2>8 DEF vars, contents, thread
    <3>2. QED
      BY <3>1, RequestsKept, SilentSteps
  <2>9. QED
    BY <2>1, <2>2, <2>3, <2>4, <2>5, <2>6, <2>7, <2>8 DEF Next, Device
<1>3. QED
  BY <1>1, <1>2, InvAlways, PTL DEF Spec, RequestsServed, D!DSpec

=============================================================================
