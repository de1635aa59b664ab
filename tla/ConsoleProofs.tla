--------------------------- MODULE ConsoleProofs ----------------------------
(***************************************************************************)
(* Proofs about console input, for any number of readers, any size of the  *)
(* buffer and any width of its indices that is a multiple of it.           *)
(***************************************************************************)
EXTENDS Console, Integers, SequenceTheorems, TLAPS

-----------------------------------------------------------------------------
(* The inductive invariant.                                                *)

Keys == Letters \cup {Newline, EOF}
Indices == 0..UINT-1
Slots == 0..INPUT_BUF_SIZE-1

\* n characters of the buffer b, from index a on.
Window(b, a, n) == [k \in 1..n |-> b[Slot(a + k - 1)]]

NoNewline(b, a, n) == \A k \in 1..n : b[Slot(a + k - 1)] # Newline

\* The indices are in order and at most a buffer apart.
InOrder(r, w, e) == Sub(w, r) + Sub(e, w) = Sub(e, r) /\ Sub(e, r) <= INPUT_BUF_SIZE

\* No newline is in the line that is being edited.
RingInv ==
  /\ cons \in [buf : [Slots -> Keys], r : Indices, w : Indices, e : Indices]
  /\ InOrder(cons.r, cons.w, cons.e)
  /\ NoNewline(cons.buf, cons.w, Sub(cons.e, cons.w))

Calls == [pc : {"idle", "loop", "asleep", "woken", "done"}, n : Nat, target : Nat, got : Seq(Keys)]

\* A read is done when it has a newline, and knows how much it has.
CallInv(c) ==
  /\ c.pc = "idle" => c.got = <<>> /\ c.n = 0
  /\ c.n + Len(c.got) = c.target
  /\ c.pc # "done" => \A k \in DOMAIN c.got : c.got[k] # Newline
  /\ c.pc = "done" => \E k \in DOMAIN c.got : c.got[k] = Newline

ReadInv == rd \in [Readers -> Calls] /\ \A p \in Readers : CallInv(rd[p])

Inv == RingInv /\ ReadInv /\ NoLostInputWakeup

-----------------------------------------------------------------------------
(* Arithmetic of the indices.                                              *)

\* Zenon proves what a step does not give to another prover.
USE Zenon

\* Division with remainder.
LEMMA DivMod ==
  ASSUME NEW a \in Nat, NEW b \in Nat \ {0}
  PROVE  \E q \in Nat, r \in 0..b-1 : a = b * q + r
<1>1. PICK q \in Int, r \in Int : q = a \div b /\ r = a % b
  BY SMT
<1>2. r \in 0..b-1
  BY <1>1, SMT
<1>3. a = b * q + r
  BY <1>1, SMT
<1>4. ASSUME q < 0 PROVE FALSE
  <2>1. b * q <= b * (-1)
    BY <1>4, SMT
  <2>2. QED
    BY <1>2, <1>3, <2>1, SMT
<1>5. QED
  BY <1>2, <1>3, <1>4, SMT

\* The remainder is the only one.
LEMMA ModUnique ==
  ASSUME NEW b \in Nat \ {0}, NEW q \in Nat, NEW r \in 0..b-1
  PROVE  (b * q + r) % b = r
BY SMT

\* Multiples of the modulus do not matter.
LEMMA ModAdd ==
  ASSUME NEW b \in Nat \ {0}, NEW a \in Nat, NEW m \in Nat
  PROVE  (a + m * b) % b = a % b
<1>1. PICK q \in Nat, r \in 0..b-1 : a = b * q + r
  BY DivMod
<1>2. a + m * b = b * (q + m) + r /\ q + m \in Nat
  BY <1>1, SMT
<1>3. QED
  BY <1>1, <1>2, ModUnique

\* Numbers closer than the modulus have different remainders.
LEMMA ModDistinct ==
  ASSUME NEW b \in Nat \ {0}, NEW x \in Nat, NEW d \in 1..b-1
  PROVE  (x + d) % b # x % b
<1>1. PICK q \in Nat, r \in 0..b-1 : x = b * q + r
  BY DivMod
<1>2. \/ r + d \in 0..b-1 /\ x + d = b * q + (r + d)
      \/ r + d - b \in 0..b-1 /\ q + 1 \in Nat /\ x + d = b * (q + 1) + (r + d - b)
  BY <1>1, SMT
<1>3. x % b = r /\ (x + d) % b \in {r + d, r + d - b}
  BY <1>1, <1>2, ModUnique
<1>4. QED
  BY <1>3, SMT

\* A remainder is in range, and a number in range is its own.
LEMMA ModRange ==
  ASSUME NEW b \in Nat \ {0}, NEW a \in Nat
  PROVE  a % b \in 0..b-1 /\ (a \in 0..b-1 => a % b = a)
BY SMT

\* The indices wrap at a multiple of the buffer's size, at least twice it.
LEMMA UintFacts ==
  ASSUME ConsoleConstants
  PROVE  /\ UINT \in Nat \ {0} /\ INPUT_BUF_SIZE \in Nat \ {0} /\ INPUT_BUF_SIZE < UINT /\ MaxRead \in Nat
         /\ \E m \in Nat : UINT = m * INPUT_BUF_SIZE
<1>1. PICK m \in 2..UINT : UINT = m * INPUT_BUF_SIZE
  BY DEF ConsoleConstants
<1>2. UINT \in Nat /\ INPUT_BUF_SIZE \in Nat \ {0} /\ MaxRead \in Nat /\ m \in Nat /\ m >= 2
  BY SMT DEF ConsoleConstants
<1>3. (m - 1) * INPUT_BUF_SIZE >= INPUT_BUF_SIZE
  BY <1>2, SMT
<1>4. m * INPUT_BUF_SIZE = (m - 1) * INPUT_BUF_SIZE + INPUT_BUF_SIZE
  BY <1>2, SMT
<1>5. QED
  BY <1>1, <1>2, <1>3, <1>4, SMT

\* Differences and successors of uints.
LEMMA Wraps ==
  ASSUME ConsoleConstants, NEW a \in Indices, NEW b \in Indices
  PROVE  /\ Sub(a, b) = (IF a >= b THEN a - b ELSE a + UINT - b) /\ Sub(a, b) \in Indices
         /\ Inc(a) = (IF a + 1 < UINT THEN a + 1 ELSE 0) /\ Inc(a) \in Indices
         /\ a \in Nat
<1>0. UINT \in Nat \ {0} /\ INPUT_BUF_SIZE \in Nat \ {0} /\ INPUT_BUF_SIZE < UINT
  BY UintFacts
<1>1. \A x \in Indices : x % UINT = x /\ (x + UINT) % UINT = x
  <2>1. TAKE x \in Indices
  <2>2. (UINT * 0 + x) % UINT = x /\ (UINT * 1 + x) % UINT = x
    BY <1>0, ModUnique DEF Indices
  <2>3. UINT * 0 + x = x /\ UINT * 1 + x = x + UINT
    BY <1>0, SMT DEF Indices
  <2>4. QED
    BY <2>2, <2>3
<1>2. Sub(a, b) = IF a >= b THEN a - b ELSE a + UINT - b
  <2>1. CASE a >= b
    <3>1. a - b \in Indices /\ a + UINT - b = (a - b) + UINT
      BY <1>0, <2>1, SMT DEF Indices
    <3>2. QED
      BY <1>1, <2>1, <3>1 DEF Sub
  <2>2. CASE ~(a >= b)
    <3>1. a + UINT - b \in Indices
      BY <1>0, <2>2, SMT DEF Indices
    <3>2. QED
      BY <1>1, <2>2, <3>1 DEF Sub
  <2>3. QED
    BY <2>1, <2>2
<1>3. Inc(a) = IF a + 1 < UINT THEN a + 1 ELSE 0
  <2>1. CASE a + 1 < UINT
    <3>1. a + 1 \in Indices
      BY <1>0, <2>1, SMT DEF Indices
    <3>2. QED
      BY <1>1, <2>1, <3>1 DEF Inc
  <2>2. CASE ~(a + 1 < UINT)
    <3>1. 0 \in Indices /\ a + 1 = 0 + UINT
      BY <1>0, <2>2, SMT DEF Indices
    <3>2. QED
      BY <1>1, <2>2, <3>1 DEF Inc
  <2>3. QED
    BY <2>1, <2>2
<1>4. QED
  BY <1>0, <1>2, <1>3, SMT DEF Indices

\* What one character in or out, or a line given up, does to the differences.
LEMMA Distances ==
  ASSUME ConsoleConstants, NEW r \in Indices, NEW w \in Indices, NEW e \in Indices, InOrder(r, w, e)
  PROVE  /\ Sub(w, r) \in Nat /\ Sub(e, w) \in Nat /\ Sub(e, r) \in Nat
         /\ Sub(w, w) = 0 /\ Sub(e, e) = 0
         /\ w # r <=> Sub(w, r) # 0
         /\ e # w <=> Sub(e, w) # 0
         /\ Sub(e, r) < INPUT_BUF_SIZE => /\ Sub(Inc(e), r) = Sub(e, r) + 1
                                          /\ Sub(Inc(e), w) = Sub(e, w) + 1
                                          /\ Sub(Inc(e), Inc(e)) = 0
         /\ e # w => Sub(Sub(e, 1), w) = Sub(e, w) - 1 /\ Sub(Sub(e, 1), r) = Sub(e, r) - 1
         /\ w # r => Sub(w, Inc(r)) = Sub(w, r) - 1 /\ Sub(e, Inc(r)) = Sub(e, r) - 1
         /\ Sub(e, Sub(e, w)) = w
<1>0. UINT \in Nat /\ INPUT_BUF_SIZE \in Nat \ {0} /\ INPUT_BUF_SIZE < UINT /\ 1 \in Indices
  BY UintFacts, SMT DEF Indices
<1>1. PICK A \in Indices, L \in Indices, D \in Indices :
        /\ A = Sub(w, r) /\ A = IF w >= r THEN w - r ELSE w + UINT - r
        /\ L = Sub(e, w) /\ L = IF e >= w THEN e - w ELSE e + UINT - w
        /\ D = Sub(e, r) /\ D = IF e >= r THEN e - r ELSE e + UINT - r
  BY Wraps
<1>2. A + L = D /\ D <= INPUT_BUF_SIZE
  BY <1>1 DEF InOrder
<1>3. /\ A \in Nat /\ L \in Nat /\ D \in Nat
      /\ w # r <=> A # 0
      /\ e # w <=> L # 0
  BY <1>0, <1>1, SMT DEF Indices
<1>4. ASSUME NEW a \in Indices PROVE Sub(a, a) = 0
  <2>1. Sub(a, a) = IF a >= a THEN a - a ELSE a + UINT - a
    BY Wraps
  <2>2. QED
    BY <1>0, <2>1, SMT DEF Indices
<1>5. ASSUME D < INPUT_BUF_SIZE
      PROVE  Sub(Inc(e), r) = D + 1 /\ Sub(Inc(e), w) = L + 1 /\ Sub(Inc(e), Inc(e)) = 0
  <2>1. PICK x \in Indices : x = Inc(e) /\ x = IF e + 1 < UINT THEN e + 1 ELSE 0
    BY Wraps
  <2>2. /\ Sub(x, r) = IF x >= r THEN x - r ELSE x + UINT - r
        /\ Sub(x, w) = IF x >= w THEN x - w ELSE x + UINT - w
    BY Wraps
  <2>3. Sub(x, r) = D + 1
    BY <1>0, <1>1, <1>2, <1>5, <2>1, <2>2, SMT DEF Indices
  <2>4. Sub(x, w) = L + 1
    BY <1>0, <1>1, <1>2, <1>3, <1>5, <2>1, <2>2, SMT DEF Indices
  <2>5. QED
    BY <1>4, <2>1, <2>3, <2>4
<1>6. ASSUME e # w
      PROVE  Sub(Sub(e, 1), w) = L - 1 /\ Sub(Sub(e, 1), r) = D - 1
  <2>1. PICK x \in Indices : x = Sub(e, 1) /\ x = IF e >= 1 THEN e - 1 ELSE e + UINT - 1
    <3>1. Sub(e, 1) = (IF e >= 1 THEN e - 1 ELSE e + UINT - 1) /\ Sub(e, 1) \in Indices
      BY <1>0, Wraps, SMT
    <3>2. QED
      BY <3>1
  <2>2. /\ Sub(x, r) = IF x >= r THEN x - r ELSE x + UINT - r
        /\ Sub(x, w) = IF x >= w THEN x - w ELSE x + UINT - w
    BY Wraps
  <2>3. Sub(x, r) = D - 1
    BY <1>0, <1>1, <1>2, <1>3, <1>6, <2>1, <2>2, SMT DEF Indices
  <2>4. Sub(x, w) = L - 1
    BY <1>0, <1>1, <1>3, <1>6, <2>1, <2>2, SMT DEF Indices
  <2>5. QED
    BY <2>1, <2>3, <2>4
<1>7. ASSUME w # r
      PROVE  Sub(w, Inc(r)) = A - 1 /\ Sub(e, Inc(r)) = D - 1
  <2>1. PICK x \in Indices : x = Inc(r) /\ x = IF r + 1 < UINT THEN r + 1 ELSE 0
    BY Wraps
  <2>2. /\ Sub(w, x) = IF w >= x THEN w - x ELSE w + UINT - x
        /\ Sub(e, x) = IF e >= x THEN e - x ELSE e + UINT - x
    BY Wraps
  <2>3. Sub(w, x) = A - 1
    BY <1>0, <1>1, <1>3, <1>7, <2>1, <2>2, SMT DEF Indices
  <2>4. Sub(e, x) = D - 1
    BY <1>0, <1>1, <1>2, <1>3, <1>7, <2>1, <2>2, SMT DEF Indices
  <2>5. QED
    BY <2>1, <2>3, <2>4
<1>8. Sub(e, L) = w
  <2>1. Sub(e, L) = IF e >= L THEN e - L ELSE e + UINT - L
    BY Wraps
  <2>2. QED
    BY <1>0, <1>1, <2>1, SMT DEF Indices
<1>9. QED
  BY <1>1, <1>3, <1>4, <1>5, <1>6, <1>7, <1>8

\* The slots do not see the wrap.
LEMMA SlotFacts ==
  ASSUME ConsoleConstants
  PROVE  /\ \A x \in Nat : Slot(x) \in Slots /\ Slot(x + UINT) = Slot(x)
         /\ \A x \in Nat, d \in 1..INPUT_BUF_SIZE-1 : Slot(x + d) # Slot(x)
<1>0. INPUT_BUF_SIZE \in Nat \ {0}
  BY UintFacts
<1>1. PICK m \in Nat : UINT = m * INPUT_BUF_SIZE
  BY UintFacts
<1>2. QED
  BY <1>0, <1>1, ModAdd, ModRange, ModDistinct DEF Slot, Slots

\* The k-th character from index a on, counted from another index b.
LEMMA SlotMoves ==
  ASSUME ConsoleConstants, NEW a \in Indices, NEW b \in Indices, NEW k \in Nat
  PROVE  /\ Slot(a + Sub(b, a)) = Slot(b) /\ Slot(a + Sub(b, a) + k) = Slot(b + k)
         /\ Slot(Inc(a) + k) = Slot(a + 1 + k)
         /\ k <= Sub(b, a) => Slot(Sub(b, k)) = Slot(a + Sub(b, a) - k)
<1>0. UINT \in Nat \ {0} /\ INPUT_BUF_SIZE < UINT /\ INPUT_BUF_SIZE \in Nat \ {0}
  BY UintFacts
<1>1. Sub(b, a) = (IF b >= a THEN b - a ELSE b + UINT - a) /\ Sub(b, a) \in Indices
  BY Wraps
<1>2. Inc(a) = IF a + 1 < UINT THEN a + 1 ELSE 0
  BY Wraps
<1>3. Slot(a + Sub(b, a)) = Slot(b) /\ Slot(a + Sub(b, a) + k) = Slot(b + k)
  <2>1. /\ b + k \in Nat /\ (a + Sub(b, a) + k = b + k \/ a + Sub(b, a) + k = (b + k) + UINT)
        /\ b \in Nat /\ (a + Sub(b, a) = b \/ a + Sub(b, a) = b + UINT)
    BY <1>0, <1>1, SMT DEF Indices
  <2>2. QED
    BY <2>1, SlotFacts
<1>4. Slot(Inc(a) + k) = Slot(a + 1 + k)
  <2>1. Inc(a) + k \in Nat /\ (a + 1 + k = Inc(a) + k \/ a + 1 + k = (Inc(a) + k) + UINT)
    BY <1>0, <1>2, SMT DEF Indices
  <2>2. QED
    BY <2>1, SlotFacts
<1>5. ASSUME k <= Sub(b, a)
      PROVE  Slot(Sub(b, k)) = Slot(a + Sub(b, a) - k)
  <2>1. k \in Indices
    BY <1>0, <1>1, <1>5, SMT DEF Indices
  <2>2. Sub(b, k) = IF b >= k THEN b - k ELSE b + UINT - k
    BY <2>1, Wraps
  <2>3. /\ Sub(b, k) \in Nat /\ a + Sub(b, a) - k \in Nat
        /\ \/ a + Sub(b, a) - k = Sub(b, k)
           \/ a + Sub(b, a) - k = Sub(b, k) + UINT
           \/ Sub(b, k) = (a + Sub(b, a) - k) + UINT
    BY <1>0, <1>1, <1>5, <2>2, SMT DEF Indices
  <2>4. QED
    BY <2>3, SlotFacts
<1>6. QED
  BY <1>3, <1>4, <1>5

-----------------------------------------------------------------------------
(* Windows of the buffer.                                                  *)

\* A window is a sequence of keys.
LEMMA WindowSeq ==
  ASSUME ConsoleConstants, NEW b \in [Slots -> Keys], NEW a \in Nat, NEW n \in Nat
  PROVE  /\ Window(b, a, n) \in Seq(Keys) /\ Len(Window(b, a, n)) = n
         /\ \A k \in 1..n : Window(b, a, n)[k] = b[Slot(a + k - 1)]
         /\ Window(b, a, 0) = <<>>
<1>1. \A k \in 1..n : a + k - 1 \in Nat
  BY SMT
<1>2. \A k \in 1..n : b[Slot(a + k - 1)] \in Keys
  BY <1>1, SlotFacts
<1>3. Window(b, a, n) \in [1..n -> Keys]
  BY <1>2 DEF Window
<1>4. Window(b, a, n) \in Seq(Keys) /\ Len(Window(b, a, n)) = n
  BY <1>3, SMT
<1>5. Window(b, a, 0) = <<>>
  BY SMT DEF Window
<1>6. QED
  BY <1>4, <1>5 DEF Window

\* Two windows with the same characters are the same.
LEMMA WindowIs ==
  ASSUME ConsoleConstants, NEW b \in [Slots -> Keys], NEW a \in Nat, NEW n \in Nat,
         NEW s \in Seq(Keys), Len(s) = n, \A k \in 1..n : b[Slot(a + k - 1)] = s[k]
  PROVE  Window(b, a, n) = s
<1>1. /\ Window(b, a, n) \in Seq(Keys) /\ Len(Window(b, a, n)) = n
      /\ \A k \in 1..n : Window(b, a, n)[k] = b[Slot(a + k - 1)]
  BY WindowSeq
<1>2. PICK t \in Seq(Keys) : t = Window(b, a, n)
  BY <1>1
<1>3. Len(t) = Len(s) /\ \A k \in 1..Len(t) : t[k] = s[k]
  BY <1>1, <1>2
<1>4. t = s
  BY <1>3, SeqEqual
<1>5. QED
  BY <1>2, <1>4

\* b2 is b with c at x.
Puts(b, b2, x, c) == b2[x] = c /\ \A y \in Slots \ {x} : b2[y] = b[y]

\* b2 is b with c after the n characters from index a on, which leave room for it.
Adds(b, b2, a, n, c) == n < INPUT_BUF_SIZE /\ Puts(b, b2, Slot(a + n), c)

\* A character goes in at the end of a window that does not fill the buffer.
LEMMA WindowAppend ==
  ASSUME ConsoleConstants, NEW b \in [Slots -> Keys], NEW a \in Nat, NEW n \in Nat,
         NEW b2 \in [Slots -> Keys], NEW c \in Keys, Adds(b, b2, a, n, c)
  PROVE  Window(b2, a, n + 1) = Append(Window(b, a, n), c)
<1>0. n + 1 \in Nat /\ INPUT_BUF_SIZE \in Nat /\ n < INPUT_BUF_SIZE
  BY UintFacts, SMT DEF Adds
<1>1. PICK s \in Seq(Keys) : s = Window(b, a, n) /\ Len(s) = n /\ \A k \in 1..n : s[k] = b[Slot(a + k - 1)]
  BY WindowSeq
<1>2. ASSUME NEW k \in 1..n
      PROVE  b2[Slot(a + k - 1)] = s[k]
  <2>1. PICK y \in Nat, d \in 1..INPUT_BUF_SIZE-1 : y = a + k - 1 /\ d = n - k + 1 /\ y + d = a + n
    BY <1>0, SMT
  <2>2. Slot(y) # Slot(y + d) /\ Slot(y) \in Slots
    BY SlotFacts
  <2>3. QED
    BY <1>1, <2>1, <2>2 DEF Adds, Puts
<1>3. PICK t \in Seq(Keys) : /\ t = Append(s, c) /\ Len(t) = n + 1
                             /\ \A k \in 1..n : t[k] = s[k]
                             /\ t[n + 1] = c
  <2>1. /\ Append(s, c) \in Seq(Keys) /\ Len(Append(s, c)) = n + 1
        /\ \A k \in 1..n : Append(s, c)[k] = s[k]
        /\ Append(s, c)[n + 1] = c
    BY <1>1, AppendProperties, SMT
  <2>2. QED
    BY <2>1
<1>4. ASSUME NEW k \in 1..(n + 1)
      PROVE  b2[Slot(a + k - 1)] = t[k]
  <2>1. CASE k \in 1..n
    BY <1>2, <1>3, <2>1
  <2>2. CASE k = n + 1
    <3>1. a + k - 1 = a + n
      BY <2>2, SMT
    <3>2. QED
      BY <1>3, <2>2, <3>1 DEF Adds, Puts
  <2>3. QED
    BY <2>1, <2>2, SMT
<1>5. Window(b2, a, n + 1) = t
  <2>1. PICK l \in Nat : l = n + 1
    BY <1>0
  <2>2. Len(t) = l /\ \A k \in 1..l : b2[Slot(a + k - 1)] = t[k]
    BY <1>3, <1>4, <2>1
  <2>3. Window(b2, a, l) = t
    BY <2>2, WindowIs
  <2>4. QED
    BY <2>1, <2>3
<1>6. QED
  BY <1>1, <1>3, <1>5

\* A character that goes in after the end of a window does not change it.
LEMMA WindowSame ==
  ASSUME ConsoleConstants, NEW b \in [Slots -> Keys], NEW a \in Nat, NEW m \in Nat,
         NEW b2 \in [Slots -> Keys], NEW c \in Keys, Adds(b, b2, a, m, c), NEW n \in 0..m
  PROVE  Window(b2, a, n) = Window(b, a, n)
<1>0. INPUT_BUF_SIZE \in Nat /\ m < INPUT_BUF_SIZE /\ n \in Nat
  BY UintFacts, SMT DEF Adds
<1>1. PICK s \in Seq(Keys) : s = Window(b, a, n) /\ Len(s) = n /\ \A k \in 1..n : s[k] = b[Slot(a + k - 1)]
  BY <1>0, WindowSeq
<1>2. ASSUME NEW k \in 1..n
      PROVE  b2[Slot(a + k - 1)] = s[k]
  <2>1. PICK y \in Nat, d \in 1..INPUT_BUF_SIZE-1 : y = a + k - 1 /\ d = m - k + 1 /\ y + d = a + m
    <3>1. a + k - 1 \in Nat /\ m - k + 1 \in 1..INPUT_BUF_SIZE-1 /\ (a + k - 1) + (m - k + 1) = a + m
      BY <1>0, SMT
    <3>2. QED
      BY <3>1
  <2>2. Slot(y) # Slot(y + d) /\ Slot(y) \in Slots
    BY SlotFacts
  <2>3. QED
    BY <1>1, <2>1, <2>2 DEF Adds, Puts
<1>3. Window(b2, a, n) = s
  BY <1>0, <1>1, <1>2, WindowIs
<1>4. QED
  BY <1>1, <1>3

\* Two windows that meet are one.
LEMMA WindowConcat ==
  ASSUME ConsoleConstants, NEW b \in [Slots -> Keys], NEW r \in Indices, NEW w \in Indices, NEW m \in Nat
  PROVE  Window(b, r, Sub(w, r) + m) = Window(b, r, Sub(w, r)) \o Window(b, w, m)
<1>0. PICK n \in Nat : n = Sub(w, r) /\ r \in Nat /\ w \in Nat
  BY Wraps DEF Indices
<1>1. PICK s \in Seq(Keys) : s = Window(b, r, n) /\ Len(s) = n /\ \A k \in 1..n : s[k] = b[Slot(r + k - 1)]
  BY <1>0, WindowSeq
<1>2. PICK t \in Seq(Keys) : t = Window(b, w, m) /\ Len(t) = m /\ \A k \in 1..m : t[k] = b[Slot(w + k - 1)]
  BY <1>0, WindowSeq
<1>3. PICK u \in Seq(Keys) : /\ u = s \o t /\ Len(u) = n + m
                             /\ \A k \in 1..(n + m) : u[k] = IF k <= n THEN s[k] ELSE t[k - n]
  <2>1. /\ s \o t \in Seq(Keys) /\ Len(s \o t) = Len(s) + Len(t)
        /\ \A k \in 1..Len(s) + Len(t) : (s \o t)[k] = IF k <= Len(s) THEN s[k] ELSE t[k - Len(s)]
    BY ConcatProperties
  <2>2. Len(s) = n /\ Len(t) = m
    BY <1>1, <1>2
  <2>3. /\ s \o t \in Seq(Keys) /\ Len(s \o t) = n + m
        /\ \A k \in 1..(n + m) : (s \o t)[k] = IF k <= n THEN s[k] ELSE t[k - n]
    BY <2>1, <2>2
  <2>4. QED
    BY <2>3
<1>4. ASSUME NEW k \in 1..(n + m)
      PROVE  b[Slot(r + k - 1)] = u[k]
  <2>1. CASE k <= n
    <3>1. k \in 1..n
      BY <2>1, SMT
    <3>2. QED
      BY <1>1, <1>3, <2>1, <3>1
  <2>2. CASE ~(k <= n)
    <3>1. PICK j \in Nat : j = k - n - 1
      <4>1. k - n - 1 \in Nat
        BY <2>2, SMT
      <4>2. QED
        BY <4>1
    <3>2. k - n \in 1..m /\ r + n + j = r + k - 1 /\ w + j = w + (k - n) - 1
      <4>1. r \in Nat /\ w \in Nat
        BY <1>0
      <4>2. k \in Int /\ k <= n + m
        BY SMT
      <4>3. k - n \in 1..m
        BY <2>2, <4>2, SMT
      <4>4. r + n + j = r + k - 1 /\ w + j = w + (k - n) - 1
        BY <3>1, <4>1, <4>2, SMT
      <4>5. QED
        BY <4>3, <4>4
    <3>3. Slot(r + n + j) = Slot(w + j)
      BY <1>0, SlotMoves
    <3>4. QED
      BY <1>2, <1>3, <2>2, <3>2, <3>3
  <2>3. QED
    BY <2>1, <2>2
<1>5. n + m \in Nat
  BY SMT
<1>6. Window(b, r, n + m) = u
  <2>1. PICK l \in Nat : l = n + m
    BY <1>5
  <2>2. Len(u) = l /\ \A k \in 1..l : b[Slot(r + k - 1)] = u[k]
    BY <1>3, <1>4, <2>1
  <2>3. Window(b, r, l) = u
    BY <1>0, <2>2, WindowIs
  <2>4. QED
    BY <2>1, <2>3
<1>7. QED
  BY <1>0, <1>1, <1>2, <1>3, <1>6

\* The window without its first character, and without its last.
LEMMA WindowEnds ==
  ASSUME ConsoleConstants, NEW b \in [Slots -> Keys], NEW a \in Indices, NEW n \in Nat, n # 0
  PROVE  /\ Window(b, a, n) # <<>> /\ Head(Window(b, a, n)) = b[Slot(a)]
         /\ Window(b, Inc(a), n - 1) = Tail(Window(b, a, n))
         /\ Window(b, a, n - 1) = SubSeq(Window(b, a, n), 1, n - 1)
<1>0. a \in Nat /\ Inc(a) \in Nat /\ n - 1 \in Nat
  BY Wraps, SMT DEF Indices
<1>1. PICK s \in Seq(Keys) : s = Window(b, a, n) /\ Len(s) = n /\ \A k \in 1..n : s[k] = b[Slot(a + k - 1)]
  BY <1>0, WindowSeq
<1>2. s # <<>>
  BY <1>1, SMT
<1>3. Head(s) = b[Slot(a)]
  <2>1. Head(s) = s[1] /\ 1 \in 1..n /\ a + 1 - 1 = a
    BY <1>0, <1>1, <1>2, SMT
  <2>2. s[1] = b[Slot(a + 1 - 1)]
    BY <1>1, <2>1
  <2>3. QED
    BY <2>1, <2>2
<1>4. PICK t \in Seq(Keys) : t = Tail(s) /\ Len(t) = n - 1 /\ \A k \in 1..(n - 1) : t[k] = s[k + 1]
  <2>1. /\ Tail(s) \in Seq(Keys) /\ Len(Tail(s)) = n - 1
        /\ \A k \in 1..(n - 1) : Tail(s)[k] = s[k + 1]
    BY <1>1, <1>2, HeadTailProperties, SMT
  <2>2. QED
    BY <2>1
<1>5. ASSUME NEW k \in 1..(n - 1)
      PROVE  b[Slot(Inc(a) + k - 1)] = t[k]
  <2>1. PICK j \in Nat : /\ j = k - 1 /\ Inc(a) + j = Inc(a) + k - 1
                         /\ a + 1 + j = a + (k + 1) - 1 /\ k + 1 \in 1..n
    BY <1>0, SMT
  <2>2. Slot(Inc(a) + j) = Slot(a + 1 + j)
    BY SlotMoves
  <2>3. QED
    BY <1>1, <1>4, <2>1, <2>2
<1>6. Window(b, Inc(a), n - 1) = t
  BY <1>0, <1>4, <1>5, WindowIs
<1>7. PICK u \in Seq(Keys) : u = SubSeq(s, 1, n - 1) /\ Len(u) = n - 1 /\ \A k \in 1..(n - 1) : u[k] = s[k]
  <2>1. /\ SubSeq(s, 1, n - 1) \in Seq(Keys) /\ Len(SubSeq(s, 1, n - 1)) = n - 1
        /\ \A k \in 1..(n - 1) : SubSeq(s, 1, n - 1)[k] = s[k]
    BY <1>0, <1>1, SMT
  <2>2. QED
    BY <2>1
<1>8. ASSUME NEW k \in 1..(n - 1)
      PROVE  b[Slot(a + k - 1)] = u[k]
  <2>1. k \in 1..n
    BY SMT
  <2>2. QED
    BY <1>1, <1>7, <2>1
<1>9. Window(b, a, n - 1) = u
  BY <1>0, <1>7, <1>8, WindowIs
<1>10. QED
  BY <1>1, <1>2, <1>3, <1>4, <1>6, <1>7, <1>9

-----------------------------------------------------------------------------
(* Steps that change the buffer, and what they are to the line editor.     *)

Ring(b, r, w, e) == [buf |-> b, r |-> r, w |-> w, e |-> e]

\* The parts of the buffer's state.
HasParts(b, r, w, e) ==
  /\ cons = Ring(b, r, w, e) /\ cons.buf = b /\ cons.r = r /\ cons.w = w /\ cons.e = e
  /\ Between(cons.r, cons.w) = Window(b, r, Sub(w, r)) /\ Between(cons.w, cons.e) = Window(b, w, Sub(e, w))

Becomes(b, r, w, e) == cons' = Ring(b, r, w, e)

\* The invariant and the abstract state, by the parts.
LEMMA Parts ==
  ASSUME ConsoleConstants, RingInv
  PROVE  \E b \in [Slots -> Keys], r \in Indices, w \in Indices, e \in Indices :
           /\ HasParts(b, r, w, e) /\ InOrder(r, w, e) /\ NoNewline(b, w, Sub(e, w))
           /\ r \in Nat /\ w \in Nat /\ e \in Nat
<1>1. PICK b \in [Slots -> Keys], r \in Indices, w \in Indices, e \in Indices :
        cons.buf = b /\ cons.r = r /\ cons.w = w /\ cons.e = e
  BY SMT DEF RingInv
<1>2. cons = Ring(b, r, w, e)
  BY <1>1, SMT DEF RingInv, Ring
<1>3. InOrder(r, w, e) /\ NoNewline(b, w, Sub(e, w))
  BY <1>1 DEF RingInv
<1>4. r \in Nat /\ w \in Nat /\ e \in Nat
  BY Wraps
<1>5. HasParts(b, r, w, e)
  BY <1>1, <1>2 DEF HasParts, Between, Window
<1>6. QED
  BY <1>3, <1>4, <1>5

\* The same after a step.
LEMMA PartsAfter ==
  ASSUME NEW b \in [Slots -> Keys], NEW r \in Indices, NEW w \in Indices, NEW e \in Indices,
         Becomes(b, r, w, e), InOrder(r, w, e), NoNewline(b, w, Sub(e, w))
  PROVE  /\ RingInv'
         /\ Between(cons.r, cons.w)' = Window(b, r, Sub(w, r))
         /\ Between(cons.w, cons.e)' = Window(b, w, Sub(e, w))
<1>1. cons'.buf = b /\ cons'.r = r /\ cons'.w = w /\ cons'.e = e
  BY SMT DEF Ring, Becomes
<1>2. cons' \in [buf : [Slots -> Keys], r : Indices, w : Indices, e : Indices]
  BY SMT DEF Ring, Becomes
<1>3. RingInv'
  BY <1>1, <1>2 DEF RingInv
<1>4. QED
  BY <1>1, <1>3 DEF Between, Window

\* What a read still wants and what it has, for the line editor.
Shown(c) == [want |-> c.n, got |-> c.got]
Reads == [p \in Readers |-> Shown(rd[p])]

\* consoleintr(), a character: it is put at the end of the line, and the line is
\* entered when it is complete or fills the buffer.
LEMMA TypeStep ==
  ASSUME ConsoleConstants, Inv, NEW c \in Keys, Type(c)
  PROVE  RingInv' /\ Editor!Type(c)
<1>0. RingInv /\ INPUT_BUF_SIZE \in Nat \ {0}
  BY UintFacts DEF Inv
<1>1. PICK b \in [Slots -> Keys], r \in Indices, w \in Indices, e \in Indices :
        /\ HasParts(b, r, w, e) /\ InOrder(r, w, e) /\ NoNewline(b, w, Sub(e, w))
        /\ r \in Nat /\ w \in Nat /\ e \in Nat
  BY <1>0, Parts
<1>2. PICK A \in Nat, L \in Nat : A = Sub(w, r) /\ L = Sub(e, w)
  BY <1>1, Distances
<1>3. PICK x \in Slots : x = Slot(e)
  BY <1>1, SlotFacts
<1>4. PICK b2 \in [Slots -> Keys] : b2 = [b EXCEPT ![x] = c]
  OBVIOUS
<1>5. PICK e2 \in Indices : e2 = Inc(e)
  BY Wraps
<1>6. A + L = Sub(e, r) /\ A + L < INPUT_BUF_SIZE /\ L < INPUT_BUF_SIZE
  <2>1. A + L = Sub(e, r)
    BY <1>1, <1>2 DEF InOrder
  <2>2. Sub(e, r) < INPUT_BUF_SIZE
    BY <1>1 DEF Type, HasRoom, HasParts
  <2>3. QED
    BY <1>0, <2>1, <2>2, SMT
<1>7. PICK l \in Nat : l = L + 1 /\ A + l = A + L + 1
  <2>1. L + 1 \in Nat /\ A + (L + 1) = A + L + 1
    BY SMT
  <2>2. QED
    BY <2>1
<1>8. Sub(e2, r) = A + l /\ Sub(e2, w) = l /\ Sub(e2, e2) = 0
  <2>1. Sub(e, r) < INPUT_BUF_SIZE
    BY <1>6
  <2>2. Sub(Inc(e), r) = Sub(e, r) + 1 /\ Sub(Inc(e), w) = Sub(e, w) + 1 /\ Sub(Inc(e), Inc(e)) = 0
    BY <1>1, <2>1, Distances, SMT
  <2>3. QED
    BY <1>2, <1>5, <1>6, <1>7, <2>2
<1>9. Window(b2, r, A) = Window(b, r, A) /\ Window(b2, w, l) = Append(Window(b, w, L), c)
  <2>1. Slot(w + Sub(e, w)) = Slot(e) /\ Slot(r + Sub(w, r) + L) = Slot(w + L)
    BY SlotMoves
  <2>2. Puts(b, b2, x, c)
    BY <1>4 DEF Puts
  <2>3. Adds(b, b2, w, L, c)
    BY <1>2, <1>3, <1>6, <2>1, <2>2 DEF Adds
  <2>4. PICK D \in Nat : D = A + L /\ A \in 0..D
    <3>1. A + L \in Nat /\ A \in 0..(A + L)
      BY SMT
    <3>2. QED
      BY <3>1
  <2>5. r + D = r + A + L
    BY <1>1, <2>4, SMT
  <2>6. Adds(b, b2, r, D, c)
    BY <1>2, <1>3, <1>6, <2>1, <2>2, <2>4, <2>5 DEF Adds
  <2>7. w \in Nat /\ r \in Nat
    BY <1>1
  <2>8. Window(b2, w, L + 1) = Append(Window(b, w, L), c)
    BY <2>3, <2>7, WindowAppend, SMT
  <2>9. Window(b2, r, A) = Window(b, r, A)
    BY <2>4, <2>6, <2>7, WindowSame, SMT
  <2>10. QED
    BY <1>7, <2>8, <2>9
<1>10. Window(b, w, L) \in Seq(Keys) /\ Len(Window(b, w, L)) = L /\ Len(Window(b, r, A)) = A
  BY <1>1, WindowSeq
<1>11. Len(Append(Window(b, w, L), c)) = l
  <2>1. Len(Append(Window(b, w, L), c)) = Len(Window(b, w, L)) + 1
    BY <1>10, AppendProperties
  <2>2. QED
    BY <1>7, <1>10, <2>1
<1>12. Reads' = Reads
  BY DEF Type, Inv, ReadInv, Calls, Reads, Shown
<1>13. PICK enter \in BOOLEAN : enter <=> c \in {Newline, EOF} \/ A + l = INPUT_BUF_SIZE
  OBVIOUS
<1>14. Becomes(b2, r, IF enter THEN e2 ELSE w, e2)
  <2>1. PICK w2 \in Indices : w2 = IF enter THEN e2 ELSE w
    OBVIOUS
  <2>2. cons' = [cons EXCEPT !.buf[x] = c, !.e = e2, !.w = IF enter THEN e2 ELSE @] /\ cons.w = w
    BY <1>1, <1>3, <1>5, <1>8, <1>13 DEF Type, HasParts
  <2>3. cons' = [[[cons EXCEPT !.buf[x] = c] EXCEPT !.e = e2] EXCEPT !.w = w2]
    BY <1>0, <2>1, <2>2, SMT DEF RingInv
  <2>4. [cons EXCEPT !.buf[x] = c] = Ring(b2, r, w, e)
    <3>1. cons = Ring(b, r, w, e)
      BY <1>1 DEF HasParts
    <3>2. QED
      BY <1>4, <3>1, SMT DEF Ring
  <2>5. [Ring(b2, r, w, e) EXCEPT !.e = e2] = Ring(b2, r, w, e2)
    BY SMT DEF Ring
  <2>6. [Ring(b2, r, w, e2) EXCEPT !.w = w2] = Ring(b2, r, w2, e2)
    BY SMT DEF Ring
  <2>7. QED
    BY <2>1, <2>3, <2>4, <2>5, <2>6 DEF Becomes
<1>15. A + l <= INPUT_BUF_SIZE /\ A + l \in Nat /\ A + l + 0 = A + l
  BY <1>0, <1>6, <1>7, SMT
<1>16. Between(cons.r, cons.w) = Window(b, r, A) /\ Between(cons.w, cons.e) = Window(b, w, L)
  BY <1>1, <1>2 DEF HasParts
<1>17. CASE enter
  <2>1. Becomes(b2, r, e2, e2)
    BY <1>14, <1>17
  <2>2. InOrder(r, e2, e2)
    BY <1>8, <1>15 DEF InOrder
  <2>3. NoNewline(b2, e2, Sub(e2, e2))
    BY <1>8, SMT DEF NoNewline
  <2>4. /\ RingInv'
        /\ Between(cons.r, cons.w)' = Window(b2, r, Sub(e2, r))
        /\ Between(cons.w, cons.e)' = Window(b2, e2, Sub(e2, e2))
    BY <2>1, <2>2, <2>3, PartsAfter, SMT
  <2>5. Window(b2, e2, Sub(e2, e2)) = <<>>
    BY <1>8, SMT DEF Window
  <2>6. Window(b2, r, Sub(e2, r)) = Window(b, r, A) \o Append(Window(b, w, L), c)
    <3>1. Window(b2, r, Sub(w, r) + l) = Window(b2, r, Sub(w, r)) \o Window(b2, w, l)
      BY WindowConcat
    <3>2. QED
      BY <1>2, <1>8, <1>9, <3>1
  <2>7. QED
    BY <1>6, <1>10, <1>11, <1>12, <1>13, <1>16, <1>17, <2>4, <2>5, <2>6 DEF Editor!Type, Reads, Shown
<1>18. CASE ~enter
  <2>1. Becomes(b2, r, w, e2)
    BY <1>14, <1>18
  <2>2. ASSUME NEW k \in 1..l
        PROVE  b2[Slot(w + k - 1)] # Newline
    <3>1. PICK s \in Seq(Keys) : s = Window(b, w, L) /\ Len(s) = L
      BY <1>10
    <3>2. \A j \in 1..L : s[j] # Newline
      <4>1. \A j \in 1..L : Window(b, w, L)[j] = b[Slot(w + j - 1)]
        BY <1>1, WindowSeq
      <4>2. NoNewline(b, w, L)
        BY <1>1, <1>2
      <4>3. QED
        BY <3>1, <4>1, <4>2 DEF NoNewline
    <3>3. (\A j \in 1..Len(s) : Append(s, c)[j] = s[j]) /\ Append(s, c)[Len(s) + 1] = c
      BY AppendProperties, SMT
    <3>4. Window(b2, w, l)[k] = b2[Slot(w + k - 1)]
      BY <1>1, WindowSeq
    <3>5. k \in 1..L \/ k = L + 1
      BY <1>7, SMT
    <3>6. c # Newline
      BY <1>13, <1>18
    <3>7. QED
      BY <1>9, <3>1, <3>2, <3>3, <3>4, <3>5, <3>6
  <2>3. InOrder(r, w, e2) /\ NoNewline(b2, w, Sub(e2, w))
    BY <1>2, <1>8, <1>15, <2>2 DEF InOrder, NoNewline
  <2>4. /\ RingInv'
        /\ Between(cons.r, cons.w)' = Window(b2, r, Sub(w, r))
        /\ Between(cons.w, cons.e)' = Window(b2, w, Sub(e2, w))
    BY <2>1, <2>3, PartsAfter, SMT
  <2>5. Window(b2, r, Sub(w, r)) = Window(b, r, A) /\ Window(b2, w, Sub(e2, w)) = Append(Window(b, w, L), c)
    BY <1>2, <1>8, <1>9
  <2>6. QED
    BY <1>6, <1>10, <1>11, <1>12, <1>13, <1>16, <1>18, <2>4, <2>5 DEF Editor!Type, Reads, Shown
<1>19. QED
  BY <1>17, <1>18

\* Backspace takes the last character of the line.
LEMMA BackspaceStep ==
  ASSUME ConsoleConstants, Inv, Backspace
  PROVE  RingInv' /\ Editor!Erase
<1>0. RingInv /\ INPUT_BUF_SIZE \in Nat \ {0}
  BY UintFacts DEF Inv
<1>1. PICK b \in [Slots -> Keys], r \in Indices, w \in Indices, e \in Indices :
        /\ HasParts(b, r, w, e) /\ InOrder(r, w, e) /\ NoNewline(b, w, Sub(e, w))
        /\ r \in Nat /\ w \in Nat /\ e \in Nat
  BY <1>0, Parts
<1>2. PICK L \in Nat : L = Sub(e, w) /\ L # 0 /\ L - 1 \in Nat
  <2>1. e # w
    BY <1>1 DEF Backspace, HasParts
  <2>2. Sub(e, w) \in Nat /\ Sub(e, w) # 0
    BY <1>1, <2>1, Distances, SMT
  <2>3. Sub(e, w) - 1 \in Nat
    BY <2>2, SMT
  <2>4. QED
    BY <2>2, <2>3
<1>3. PICK e2 \in Indices : e2 = Sub(e, 1)
  <2>1. UINT \in Nat /\ INPUT_BUF_SIZE \in Nat \ {0} /\ INPUT_BUF_SIZE < UINT /\ 1 \in Indices
    BY UintFacts, SMT DEF Indices
  <2>2. Sub(e, 1) = (IF e >= 1 THEN e - 1 ELSE e + UINT - 1) /\ Sub(e, 1) \in Indices
    BY <2>1, Wraps, SMT
  <2>3. QED
    BY <2>2
<1>4. Sub(e2, w) = L - 1 /\ Sub(e2, r) = Sub(e, r) - 1
  <2>1. e # w
    BY <1>1 DEF Backspace, HasParts
  <2>2. QED
    BY <1>1, <1>2, <1>3, <2>1, Distances, SMT
<1>5. Becomes(b, r, w, e2)
  <2>1. cons' = [Ring(b, r, w, e) EXCEPT !.e = e2]
    <3>1. cons' = [cons EXCEPT !.e = Sub(@, 1)] /\ cons.e = e /\ cons = Ring(b, r, w, e)
      BY <1>1 DEF Backspace, HasParts
    <3>2. QED
      BY <1>3, <3>1
  <2>2. [Ring(b, r, w, e) EXCEPT !.e = e2] = Ring(b, r, w, e2)
    BY SMT DEF Ring
  <2>3. QED
    BY <2>1, <2>2 DEF Becomes
<1>6. InOrder(r, w, e2)
  <2>1. Sub(w, r) \in Nat /\ Sub(e, r) \in Nat
    BY <1>1, Distances
  <2>2. QED
    BY <1>0, <1>1, <1>2, <1>4, <2>1, SMT DEF InOrder
<1>7. NoNewline(b, w, Sub(e2, w))
  <2>1. \A k \in 1..(L - 1) : k \in 1..L
    BY <1>2, SMT
  <2>2. QED
    BY <1>1, <1>2, <1>4, <2>1 DEF NoNewline
<1>8. /\ RingInv'
      /\ Between(cons.r, cons.w)' = Window(b, r, Sub(w, r))
      /\ Between(cons.w, cons.e)' = Window(b, w, Sub(e2, w))
  BY <1>5, <1>6, <1>7, PartsAfter, SMT
<1>9. Between(cons.r, cons.w) = Window(b, r, Sub(w, r)) /\ Between(cons.w, cons.e) = Window(b, w, L)
  BY <1>1, <1>2 DEF HasParts
<1>10. /\ Window(b, w, L) # <<>> /\ Len(Window(b, w, L)) = L
       /\ Window(b, w, L - 1) = SubSeq(Window(b, w, L), 1, L - 1)
  <2>1. Len(Window(b, w, L)) = L
    BY <1>1, WindowSeq
  <2>2. QED
    BY <1>2, <2>1, WindowEnds
<1>11. Reads' = Reads
  BY DEF Backspace, Reads
<1>12. QED
  BY <1>4, <1>8, <1>9, <1>10, <1>11 DEF Editor!Erase, Reads, Shown

\* Control-U takes the whole line: the newline it may stop at is never there.
LEMMA KillLineStep ==
  ASSUME ConsoleConstants, Inv, KillLine
  PROVE  RingInv' /\ Editor!KillLine
<1>0. RingInv /\ INPUT_BUF_SIZE \in Nat \ {0}
  BY UintFacts DEF Inv
<1>1. PICK b \in [Slots -> Keys], r \in Indices, w \in Indices, e \in Indices :
        /\ HasParts(b, r, w, e) /\ InOrder(r, w, e) /\ NoNewline(b, w, Sub(e, w))
        /\ r \in Nat /\ w \in Nat /\ e \in Nat
  BY <1>0, Parts
<1>2. PICK L \in Nat : L = Sub(e, w)
  BY <1>1, Distances
<1>3. \A j \in 1..L : b[Slot(Sub(e, j))] # Newline
  <2>1. TAKE j \in 1..L
  <2>2. PICK i \in 1..L : i = L - j + 1 /\ w + i - 1 = w + L - j
    <3>1. L - j + 1 \in 1..L /\ w + (L - j + 1) - 1 = w + L - j
      BY <1>1, SMT
    <3>2. QED
      BY <3>1
  <2>3. j \in Nat /\ j <= L
    BY SMT
  <2>4. Slot(Sub(e, j)) = Slot(w + L - j)
    BY <1>2, <2>3, SlotMoves
  <2>5. NoNewline(b, w, L)
    BY <1>1, <1>2
  <2>6. QED
    BY <2>2, <2>4, <2>5 DEF NoNewline
<1>4. PICK back : back = {k \in 0..L : \A j \in 1..k : b[Slot(Sub(e, j))] # Newline}
  OBVIOUS
<1>5. back = 0..L
  <2>1. \A k \in 0..L : \A j \in 1..k : j \in 1..L
    BY SMT
  <2>2. QED
    BY <1>3, <1>4, <2>1
<1>6. (CHOOSE k \in back : \A j \in back : j <= k) = L
  <2>1. L \in back /\ \A j \in back : j <= L
    BY <1>5, SMT
  <2>2. PICK k : k = CHOOSE i \in back : \A j \in back : j <= i
    OBVIOUS
  <2>3. k \in back /\ \A j \in back : j <= k
    BY <2>1, <2>2
  <2>4. k <= L /\ L <= k /\ k \in Int
    BY <1>5, <2>1, <2>3, SMT
  <2>5. k = L
    BY <2>4, SMT
  <2>6. QED
    BY <2>2, <2>5
<1>7. Becomes(b, r, w, w)
  <2>1. cons.buf = b /\ cons.w = w /\ cons.e = e /\ cons = Ring(b, r, w, e)
    BY <1>1 DEF HasParts
  <2>2. cons' = [cons EXCEPT !.e = Sub(e, L)]
    <3>1. cons' = [cons EXCEPT !.e = Sub(cons.e, CHOOSE k \in back : \A j \in back : j <= k)]
      BY <1>2, <1>4, <2>1 DEF KillLine
    <3>2. QED
      BY <1>6, <2>1, <3>1
  <2>3. Sub(e, L) = w
    BY <1>1, <1>2, Distances, SMT
  <2>4. [Ring(b, r, w, e) EXCEPT !.e = w] = Ring(b, r, w, w)
    BY SMT DEF Ring
  <2>5. QED
    BY <2>1, <2>2, <2>3, <2>4 DEF Becomes
<1>8. Sub(w, w) = 0 /\ InOrder(r, w, w)
  <2>1. Sub(w, w) = 0 /\ Sub(w, r) \in Nat /\ Sub(e, r) \in Nat
    BY <1>1, Distances, SMT
  <2>2. QED
    BY <1>0, <1>1, <1>2, <2>1, SMT DEF InOrder
<1>9. NoNewline(b, w, Sub(w, w)) /\ Window(b, w, Sub(w, w)) = <<>>
  BY <1>8, SMT DEF NoNewline, Window
<1>10. /\ RingInv'
       /\ Between(cons.r, cons.w)' = Window(b, r, Sub(w, r))
       /\ Between(cons.w, cons.e)' = Window(b, w, Sub(w, w))
  BY <1>7, <1>8, <1>9, PartsAfter, SMT
<1>11. Between(cons.r, cons.w) = Window(b, r, Sub(w, r))
  BY <1>1 DEF HasParts
<1>12. Reads' = Reads
  BY DEF KillLine, Reads
<1>13. QED
  BY <1>9, <1>10, <1>11, <1>12 DEF Editor!KillLine, Reads, Shown

\* The character at r is the first that is entered, and consoleread() takes it.
LEMMA ConsumeStep ==
  ASSUME ConsoleConstants, RingInv, cons.r # cons.w, cons' = [cons EXCEPT !.r = Inc(@)]
  PROVE  /\ RingInv'
         /\ Between(cons.r, cons.w) # <<>> /\ Head(Between(cons.r, cons.w)) = cons.buf[Slot(cons.r)]
         /\ Between(cons.r, cons.w)' = Tail(Between(cons.r, cons.w))
         /\ Between(cons.w, cons.e)' = Between(cons.w, cons.e)
<1>0. INPUT_BUF_SIZE \in Nat \ {0}
  BY UintFacts
<1>1. PICK b \in [Slots -> Keys], r \in Indices, w \in Indices, e \in Indices :
        /\ HasParts(b, r, w, e) /\ InOrder(r, w, e) /\ NoNewline(b, w, Sub(e, w))
        /\ r \in Nat /\ w \in Nat /\ e \in Nat
  BY Parts
<1>2. w # r
  BY <1>1 DEF HasParts
<1>3. PICK A \in Nat : A = Sub(w, r) /\ A # 0
  <2>1. Sub(w, r) \in Nat /\ Sub(w, r) # 0
    BY <1>1, <1>2, Distances, SMT
  <2>2. QED
    BY <2>1
<1>4. PICK r2 \in Indices : r2 = Inc(r)
  BY Wraps
<1>5. Sub(w, r2) = A - 1 /\ Sub(e, r2) = Sub(e, r) - 1
  BY <1>1, <1>2, <1>3, <1>4, Distances, SMT
<1>6. Becomes(b, r2, w, e)
  <2>1. cons = Ring(b, r, w, e) /\ cons.r = r
    BY <1>1 DEF HasParts
  <2>2. [Ring(b, r, w, e) EXCEPT !.r = r2] = Ring(b, r2, w, e)
    BY SMT DEF Ring
  <2>3. QED
    BY <1>4, <2>1, <2>2 DEF Becomes
<1>7. InOrder(r2, w, e)
  <2>1. Sub(e, w) \in Nat /\ Sub(e, r) \in Nat
    BY <1>1, Distances
  <2>2. QED
    BY <1>0, <1>1, <1>3, <1>5, <2>1, SMT DEF InOrder
<1>8. /\ RingInv'
      /\ Between(cons.r, cons.w)' = Window(b, r2, Sub(w, r2))
      /\ Between(cons.w, cons.e)' = Window(b, w, Sub(e, w))
  BY <1>1, <1>6, <1>7, PartsAfter, SMT
<1>9. /\ Between(cons.r, cons.w) = Window(b, r, A) /\ Between(cons.w, cons.e) = Window(b, w, Sub(e, w))
      /\ cons.buf = b /\ cons.r = r
  BY <1>1, <1>3 DEF HasParts
<1>10. /\ Window(b, r, A) # <<>> /\ Head(Window(b, r, A)) = b[Slot(r)]
       /\ Window(b, Inc(r), A - 1) = Tail(Window(b, r, A))
  BY <1>3, WindowEnds
<1>11. QED
  BY <1>4, <1>5, <1>8, <1>9, <1>10

-----------------------------------------------------------------------------
(* Steps of the readers.                                                   *)

\* One call changes.
LEMMA CallStep ==
  ASSUME ReadInv, NEW p \in Readers, NEW v \in Calls, CallInv(v), rd' = [rd EXCEPT ![p] = v]
  PROVE  /\ ReadInv' /\ Reads' = [Reads EXCEPT ![p] = Shown(v)]
         /\ \A q \in Readers : rd'[q].pc = "asleep" => rd[q].pc = "asleep" \/ v.pc = "asleep"
<1>1. rd \in [Readers -> Calls]
  BY DEF ReadInv
<1>2. rd' \in [Readers -> Calls] /\ rd'[p] = v /\ \A q \in Readers \ {p} : rd'[q] = rd[q]
  BY <1>1
<1>3. ReadInv'
  BY <1>2 DEF ReadInv
<1>4. Reads' = [Reads EXCEPT ![p] = Shown(v)]
  BY <1>2 DEF Reads
<1>5. QED
  BY <1>2, <1>3, <1>4

\* One call goes on with another label, and what it has so far.
LEMMA LabelStep ==
  ASSUME ReadInv, NEW p \in Readers, NEW l \in {"loop", "asleep", "woken"}, rd[p].pc \in {"loop", "asleep", "woken"},
         rd' = [rd EXCEPT ![p].pc = l]
  PROVE  /\ ReadInv' /\ Reads' = Reads
         /\ \A q \in Readers : rd'[q].pc = "asleep" => rd[q].pc = "asleep" \/ l = "asleep"
<1>1. rd \in [Readers -> Calls] /\ rd[p] \in Calls /\ CallInv(rd[p])
  BY DEF ReadInv
<1>2. PICK v : v = [rd[p] EXCEPT !.pc = l]
  OBVIOUS
<1>3. v \in Calls /\ v.pc = l /\ v.got = rd[p].got /\ v.n = rd[p].n /\ v.target = rd[p].target
  BY <1>1, <1>2, SMT DEF Calls
<1>4. CallInv(v)
  BY <1>1, <1>3 DEF CallInv
<1>5. rd' = [rd EXCEPT ![p] = v]
  BY <1>2
<1>6. ReadInv' /\ Reads' = [Reads EXCEPT ![p] = Shown(v)]
  BY <1>3, <1>4, <1>5, CallStep
<1>7. \A q \in Readers : rd'[q].pc = "asleep" => rd[q].pc = "asleep" \/ v.pc = "asleep"
  BY <1>3, <1>4, <1>5, CallStep
<1>8. [Reads EXCEPT ![p] = Shown(v)] = Reads
  BY <1>3 DEF Reads, Shown
<1>9. QED
  BY <1>3, <1>6, <1>7, <1>8

\* consoleread() returns.
LEMMA ReturnStep ==
  ASSUME ReadInv, NEW p \in Readers, Return(p)
  PROVE  /\ ReadInv' /\ Reads' = [Reads EXCEPT ![p] = Editor!NoRead]
         /\ \A q \in Readers : rd'[q].pc = "asleep" => rd[q].pc = "asleep"
<1>1. PICK v : v = Idle
  OBVIOUS
<1>2. v \in Calls /\ v.pc = "idle" /\ v.got = <<>> /\ v.n = 0 /\ v.target = 0
  BY <1>1, SMT DEF Idle, Calls
<1>3. CallInv(v)
  BY <1>2, SMT DEF CallInv
<1>4. rd' = [rd EXCEPT ![p] = v]
  BY <1>1 DEF Return
<1>5. /\ ReadInv' /\ Reads' = [Reads EXCEPT ![p] = Shown(v)]
      /\ \A q \in Readers : rd'[q].pc = "asleep" => rd[q].pc = "asleep" \/ v.pc = "asleep"
  BY <1>2, <1>3, <1>4, CallStep
<1>6. Shown(v) = Editor!NoRead
  BY <1>2 DEF Editor!NoRead, Shown
<1>7. QED
  BY <1>2, <1>5, <1>6

\* wakeup(&cons.r) leaves what the reads have, and wakes all that sleep.
LEMMA TypeWakes ==
  ASSUME Inv, NEW c \in Keys, Type(c)
  PROVE  ReadInv' /\ NoLostInputWakeup'
<1>0. rd \in [Readers -> Calls] /\ (\A p \in Readers : CallInv(rd[p])) /\ NoLostInputWakeup /\ RingInv
  BY DEF Inv, ReadInv
<1>1. CASE rd' = [p \in Readers |-> [rd[p] EXCEPT !.pc = wakeup(p)]]
  <2>1. ASSUME NEW p \in Readers
        PROVE  rd'[p] \in Calls /\ CallInv(rd'[p]) /\ rd'[p].pc # "asleep"
    <3>1. rd[p] \in Calls /\ CallInv(rd[p])
      BY <1>0
    <3>2. rd'[p] = [rd[p] EXCEPT !.pc = wakeup(p)]
      BY <1>1
    <3>3. /\ rd'[p] \in Calls /\ rd'[p].pc = wakeup(p) /\ rd'[p].got = rd[p].got
          /\ rd'[p].n = rd[p].n /\ rd'[p].target = rd[p].target
      BY <3>1, <3>2, SMT DEF Calls, wakeup
    <3>4. QED
      BY <3>1, <3>3 DEF CallInv, wakeup
  <2>2. rd' \in [Readers -> Calls]
    BY <1>1, <2>1
  <2>3. QED
    BY <2>1, <2>2 DEF ReadInv, NoLostInputWakeup
<1>2. CASE rd' = rd /\ cons'.r = cons.r /\ cons'.w = cons.w
  BY <1>0, <1>2 DEF ReadInv, NoLostInputWakeup
<1>3. QED
  <2>1. CASE c \in {Newline, EOF} \/ Sub(Inc(cons.e), cons.r) = INPUT_BUF_SIZE
    BY <1>1, <2>1 DEF Type
  <2>2. CASE ~(c \in {Newline, EOF} \/ Sub(Inc(cons.e), cons.r) = INPUT_BUF_SIZE)
    <3>1. /\ rd' = rd
          /\ cons' = [cons EXCEPT !.buf[Slot(cons.e)] = c, !.e = Inc(cons.e), !.w = cons.w]
      BY <2>2 DEF Type
    <3>2. cons'.r = cons.r /\ cons'.w = cons.w
      BY <1>0, <3>1, SMT DEF RingInv
    <3>3. QED
      BY <1>2, <3>1, <3>2
  <2>3. QED
    BY <2>1, <2>2

\* What the line editor sees.
EditorVars == <<Between(cons.r, cons.w), Between(cons.w, cons.e), Reads>>

\* The read of p, for the line editor, and whether it goes on.
LEMMA ShownRead ==
  ASSUME ReadInv, NEW p \in Readers
  PROVE  /\ Reads[p].want = rd[p].n /\ Reads[p].got = rd[p].got
         /\ Editor!GoesOn(p) <=> rd[p].n > 0 /\ rd[p].pc # "done"
<1>1. Reads[p].want = rd[p].n /\ Reads[p].got = rd[p].got
  BY DEF Reads, Shown
<1>2. CallInv(rd[p])
  BY DEF ReadInv
<1>3. Editor!GoesOn(p) <=> Reads[p].want > 0 /\ \A k \in DOMAIN Reads[p].got : Reads[p].got[k] # Newline
  BY DEF Editor!GoesOn, Reads, Shown
<1>4. QED
  BY <1>1, <1>2, <1>3 DEF CallInv

\* The editor's read of p ends.
LEMMA EditorReturns ==
  ASSUME NEW p \in Readers, Reads' = [Reads EXCEPT ![p] = Editor!NoRead],
         UNCHANGED Between(cons.w, cons.e)
  PROVE  Editor!Return(p)
BY DEF Editor!Return, Reads, Shown

\* What has been entered is what is between r and w.
LEMMA Front ==
  ASSUME ConsoleConstants, RingInv
  PROVE  /\ cons.r = cons.w => Between(cons.r, cons.w) = <<>>
         /\ cons.r # cons.w => /\ Between(cons.r, cons.w) # <<>>
                               /\ Head(Between(cons.r, cons.w)) = cons.buf[Slot(cons.r)]
<1>1. PICK b \in [Slots -> Keys], r \in Indices, w \in Indices, e \in Indices :
        /\ HasParts(b, r, w, e) /\ InOrder(r, w, e) /\ NoNewline(b, w, Sub(e, w))
        /\ r \in Nat /\ w \in Nat /\ e \in Nat
  BY Parts
<1>2. PICK A \in Nat : A = Sub(w, r)
  BY <1>1, Distances
<1>3. /\ Between(cons.r, cons.w) = Window(b, r, A)
      /\ cons.buf = b /\ cons.r = r /\ cons.w = w
  BY <1>1, <1>2 DEF HasParts
<1>4. CASE r = w
  <2>1. Sub(w, w) = IF w >= w THEN w - w ELSE w + UINT - w
    BY Wraps
  <2>2. A = 0
    BY <1>1, <1>2, <1>4, <2>1, SMT
  <2>3. Window(b, r, A) = <<>>
    BY <2>2, SMT DEF Window
  <2>4. QED
    BY <1>3, <1>4, <2>3
<1>5. CASE r # w
  <2>1. A # 0
    BY <1>1, <1>2, <1>5, Distances, SMT
  <2>2. Window(b, r, A) # <<>> /\ Head(Window(b, r, A)) = b[Slot(r)]
    BY <2>1, WindowEnds
  <2>3. QED
    BY <1>3, <1>5, <2>2
<1>6. QED
  BY <1>4, <1>5

\* consoleread() starts.
LEMMA ReadStarts ==
  ASSUME ConsoleConstants, Inv, NEW p \in Readers, NEW n \in 1..MaxRead, Read(p, n)
  PROVE  Inv' /\ Editor!Next
<1>0. RingInv /\ ReadInv /\ NoLostInputWakeup /\ n \in Nat
  BY UintFacts, SMT DEF Inv
<1>1. PICK v : v = [pc |-> "loop", n |-> n, target |-> n, got |-> <<>>]
  OBVIOUS
<1>2. v \in Calls /\ v.pc = "loop" /\ v.got = <<>> /\ v.n = n /\ v.target = n
  BY <1>0, <1>1, SMT DEF Calls
<1>3. CallInv(v)
  BY <1>0, <1>2, SMT DEF CallInv
<1>4. rd' = [rd EXCEPT ![p] = v] /\ cons' = cons
  BY <1>1 DEF Read
<1>5. /\ ReadInv' /\ Reads' = [Reads EXCEPT ![p] = Shown(v)]
      /\ \A q \in Readers : rd'[q].pc = "asleep" => rd[q].pc = "asleep" \/ v.pc = "asleep"
  BY <1>0, <1>2, <1>3, <1>4, CallStep
<1>6. Reads[p] = Editor!NoRead
  <2>1. rd[p].got = <<>> /\ rd[p].n = 0
    BY <1>0 DEF Read, ReadInv, CallInv
  <2>2. QED
    BY <2>1 DEF Reads, Shown, Editor!NoRead
<1>7. RingInv' /\ NoLostInputWakeup'
  BY <1>0, <1>2, <1>4, <1>5 DEF RingInv, NoLostInputWakeup
<1>8. Shown(v) = [want |-> n, got |-> <<>>]
  BY <1>2 DEF Shown
<1>9. UNCHANGED <<Between(cons.r, cons.w), Between(cons.w, cons.e)>>
  BY <1>4 DEF Between
<1>10. Editor!Read(p, n)
  BY <1>5, <1>6, <1>8, <1>9 DEF Editor!Read, Reads, Shown
<1>11. QED
  BY <1>5, <1>7, <1>10 DEF Inv, Editor!Next

\* consoleread() sleeps, wakes up, or returns, and takes nothing.
LEMMA OtherSteps ==
  ASSUME ConsoleConstants, Inv, NEW p \in Readers, Wait(p) \/ Kill(p) \/ Wake(p) \/ Done(p)
  PROVE  Inv' /\ (UNCHANGED EditorVars \/ Editor!Next)
<1>0. RingInv /\ ReadInv /\ NoLostInputWakeup /\ cons' = cons
  BY DEF Inv, Wait, Kill, Wake, Done
<1>1. RingInv' /\ UNCHANGED <<Between(cons.r, cons.w), Between(cons.w, cons.e)>>
  BY <1>0 DEF RingInv, Between
<1>2. CASE Return(p) /\ (Wait(p) \/ Done(p))
  <2>1. /\ ReadInv' /\ Reads' = [Reads EXCEPT ![p] = Editor!NoRead]
        /\ \A q \in Readers : rd'[q].pc = "asleep" => rd[q].pc = "asleep"
    BY <1>0, <1>2, ReturnStep
  <2>2. NoLostInputWakeup'
    BY <1>0, <2>1 DEF NoLostInputWakeup
  <2>3. Editor!Return(p)
    BY <1>1, <2>1, EditorReturns
  <2>4. ASSUME Done(p) PROVE Editor!Next
    <3>1. rd[p].pc = "done" \/ rd[p].n = 0
      BY <2>4 DEF Done
    <3>2. ~(0 > 0)
      BY SMT
    <3>3. ~Editor!GoesOn(p)
      BY <1>0, <3>1, <3>2, ShownRead
    <3>4. QED
      BY <1>1, <2>3, <3>3 DEF Editor!Next, Editor!Finish
  <2>5. ASSUME Wait(p) PROVE Editor!Next
    <3>1. rd[p].pc = "loop" /\ rd[p].n > 0 /\ cons.r = cons.w
      BY <2>5 DEF Wait
    <3>2. Editor!GoesOn(p) /\ Between(cons.r, cons.w) = <<>>
      BY <1>0, <3>1, ShownRead, Front
    <3>3. QED
      BY <1>1, <2>3, <3>2 DEF Editor!Next, Editor!GiveUp
  <2>6. Editor!Next
    BY <1>2, <2>4, <2>5
  <2>7. QED
    BY <1>1, <2>1, <2>2, <2>6 DEF Inv
<1>3. CASE Wait(p) /\ rd' = [rd EXCEPT ![p].pc = "asleep"]
  <2>1. rd[p].pc = "loop" /\ cons.r = cons.w
    BY <1>3 DEF Wait
  <2>2. ReadInv' /\ Reads' = Reads
    BY <1>0, <1>3, <2>1, LabelStep
  <2>3. NoLostInputWakeup'
    BY <1>0, <2>1 DEF NoLostInputWakeup
  <2>4. QED
    BY <1>1, <2>2, <2>3 DEF Inv, EditorVars
<1>4. CASE Kill(p) \/ Wake(p)
  <2>1. PICK l \in {"loop", "woken"} : rd[p].pc \in {"asleep", "woken"} /\ rd' = [rd EXCEPT ![p].pc = l]
    BY <1>4 DEF Kill, Wake
  <2>2. ReadInv' /\ Reads' = Reads /\ \A q \in Readers : rd'[q].pc = "asleep" => rd[q].pc = "asleep"
    BY <1>0, <2>1, LabelStep
  <2>3. NoLostInputWakeup'
    BY <1>0, <2>2 DEF NoLostInputWakeup
  <2>4. QED
    BY <1>1, <2>2, <2>3 DEF Inv, EditorVars
<1>5. QED
  BY <1>2, <1>3, <1>4 DEF Wait, Done

\* consoleread() takes a character, stores or loses it, or meets an end of file.
LEMMA TakeStep ==
  ASSUME ConsoleConstants, Inv, NEW p \in Readers, Take(p)
  PROVE  Inv' /\ Editor!Next
<1>0. /\ RingInv /\ ReadInv /\ NoLostInputWakeup /\ cons.r # cons.w /\ rd[p].pc = "loop" /\ rd[p].n > 0
      /\ rd[p] \in Calls /\ CallInv(rd[p])
  BY DEF Inv, Take, ReadInv
<1>1. \A q \in Readers : rd[q].pc # "asleep"
  BY <1>0 DEF NoLostInputWakeup
<1>2. ASSUME cons' = [cons EXCEPT !.r = Inc(@)]
      PROVE  /\ RingInv'
             /\ Between(cons.r, cons.w) # <<>> /\ Head(Between(cons.r, cons.w)) = cons.buf[Slot(cons.r)]
             /\ Between(cons.r, cons.w)' = Tail(Between(cons.r, cons.w))
             /\ Between(cons.w, cons.e)' = Between(cons.w, cons.e)
  BY <1>0, <1>2, ConsumeStep
<1>3. ASSUME Return(p)
      PROVE  ReadInv' /\ NoLostInputWakeup' /\ Reads' = [Reads EXCEPT ![p] = Editor!NoRead]
  <2>1. /\ ReadInv' /\ Reads' = [Reads EXCEPT ![p] = Editor!NoRead]
        /\ \A q \in Readers : rd'[q].pc = "asleep" => rd[q].pc = "asleep"
    BY <1>0, <1>3, ReturnStep
  <2>2. QED
    BY <1>1, <2>1 DEF NoLostInputWakeup
<1>4. PICK c : c = cons.buf[Slot(cons.r)]
  OBVIOUS
<1>5. /\ Between(cons.r, cons.w) # <<>> /\ Head(Between(cons.r, cons.w)) = c
       /\ Editor!GoesOn(p) /\ Reads[p].got = rd[p].got
  BY <1>0, <1>4, Front, ShownRead
<1>6. rd[p].got = <<>> <=> ~(rd[p].n < rd[p].target)
  <2>1. rd[p].got \in Seq(Keys) /\ rd[p].n \in Nat /\ rd[p].target \in Nat
    BY <1>0, SMT DEF Calls
  <2>2. Len(rd[p].got) \in Nat /\ rd[p].n + Len(rd[p].got) = rd[p].target
    BY <1>0, <2>1, LenProperties DEF CallInv
  <2>3. Len(rd[p].got) = 0 <=> ~(rd[p].n < rd[p].target)
    BY <2>1, <2>2, SMT
  <2>4. Len(rd[p].got) = 0 <=> rd[p].got = <<>>
    BY <2>1, EmptySeq, SMT
  <2>5. QED
    BY <2>3, <2>4
<1>7. CASE c = EOF /\ rd[p].n < rd[p].target
  <2>1. cons' = cons /\ Return(p)
    BY <1>4, <1>7 DEF Take
  <2>2. RingInv' /\ UNCHANGED <<Between(cons.r, cons.w), Between(cons.w, cons.e)>>
    BY <1>0, <2>1 DEF RingInv, Between
  <2>3. Editor!Return(p)
    BY <1>3, <2>1, <2>2, EditorReturns
  <2>4. Editor!TakeEof(p)
    BY <1>5, <1>6, <1>7, <2>2, <2>3 DEF Editor!TakeEof, Reads, Shown
  <2>5. QED
    BY <1>3, <2>1, <2>2, <2>4 DEF Inv, Editor!Next
<1>8. CASE c = EOF /\ ~(rd[p].n < rd[p].target)
  <2>1. cons' = [cons EXCEPT !.r = Inc(@)] /\ Return(p)
    BY <1>4, <1>8 DEF Take
  <2>2. Editor!Return(p)
    BY <1>2, <1>3, <2>1, EditorReturns
  <2>3. Editor!TakeEof(p)
    BY <1>2, <1>5, <1>6, <1>8, <2>1, <2>2 DEF Editor!TakeEof, Reads, Shown
  <2>4. QED
    BY <1>2, <1>3, <2>1, <2>3 DEF Inv, Editor!Next
<1>9. CASE c # EOF /\ cons' = [cons EXCEPT !.r = Inc(@)] /\ Return(p)
  <2>1. Editor!Return(p)
    BY <1>2, <1>3, <1>9, EditorReturns
  <2>2. Editor!Lose(p)
    BY <1>2, <1>5, <1>9, <2>1 DEF Editor!Lose
  <2>3. QED
    BY <1>2, <1>3, <1>9, <2>2 DEF Inv, Editor!Next
<1>10. CASE /\ c # EOF /\ cons' = [cons EXCEPT !.r = Inc(@)]
           /\ rd' = [rd EXCEPT ![p].got = Append(@, c), ![p].n = @ - 1, ![p].pc = IF c = Newline THEN "done" ELSE "loop"]
  <2>1. c \in Keys
    <3>1. cons.buf \in [Slots -> Keys] /\ cons.r \in Indices
      BY <1>0, SMT DEF RingInv
    <3>2. Slot(cons.r) \in Slots
      BY <3>1, Wraps, SlotFacts
    <3>3. QED
      BY <1>4, <3>1, <3>2
  <2>2. PICK g \in Seq(Keys) : g = rd[p].got
    BY <1>0, SMT DEF Calls
  <2>3. PICK h \in Seq(Keys) : /\ h = Append(g, c) /\ Len(h) = Len(g) + 1
                               /\ (\A k \in 1..Len(g) : h[k] = g[k]) /\ h[Len(g) + 1] = c
    <3>1. /\ Append(g, c) \in Seq(Keys) /\ Len(Append(g, c)) = Len(g) + 1
          /\ (\A k \in 1..Len(g) : Append(g, c)[k] = g[k]) /\ Append(g, c)[Len(g) + 1] = c
      BY <2>1, AppendProperties, SMT
    <3>2. QED
      BY <3>1
  <2>4. PICK l \in {"done", "loop"} : l = IF c = Newline THEN "done" ELSE "loop"
    OBVIOUS
  <2>5. PICK v : v = [rd[p] EXCEPT !.got = h, !.n = @ - 1, !.pc = l]
    OBVIOUS
  <2>6. /\ v \in Calls /\ v.got = h /\ v.pc = l
        /\ v.n = rd[p].n - 1 /\ v.target = rd[p].target
    <3>1. PICK u \in Calls : u = rd[p]
      BY <1>0
    <3>2. u.n \in Nat /\ u.n > 0
      BY <1>0, <3>1, SMT DEF Calls
    <3>3. PICK m \in Nat : m = u.n - 1
      <4>1. u.n - 1 \in Nat
        BY <3>2, SMT
      <4>2. QED
        BY <4>1
    <3>4. v = [u EXCEPT !.got = h, !.n = m, !.pc = l]
      BY <2>5, <3>1, <3>3
    <3>5. v \in Calls /\ v.got = h /\ v.pc = l /\ v.n = m /\ v.target = u.target
      BY <3>4 DEF Calls
    <3>6. QED
      BY <3>1, <3>3, <3>5
  <2>7. \A k \in DOMAIN g : g[k] # Newline
    BY <1>0, <2>2 DEF CallInv
  <2>8. CallInv(v)
    <3>1. rd[p].n \in Nat /\ rd[p].target \in Nat /\ rd[p].n + Len(g) = rd[p].target /\ Len(g) \in Nat
      BY <1>0, <2>2, LenProperties, SMT DEF Calls, CallInv
    <3>2. v.n + Len(v.got) = v.target
      <4>1. Len(v.got) = Len(g) + 1
        BY <2>3, <2>6
      <4>2. QED
        BY <2>6, <3>1, <4>1, SMT
    <3>3. DOMAIN h = 1..Len(h) /\ DOMAIN g = 1..Len(g)
      BY LenProperties
    <3>4. \A k \in 1..Len(h) : k \in 1..Len(g) \/ k = Len(g) + 1
      BY <2>3, <3>1, SMT
    <3>5. v.pc # "done" => \A k \in DOMAIN v.got : v.got[k] # Newline
      BY <2>3, <2>4, <2>6, <2>7, <3>3, <3>4
    <3>6. v.pc = "done" => \E k \in DOMAIN v.got : v.got[k] = Newline
      <4>1. Len(g) + 1 \in 1..Len(h)
        BY <2>3, <3>1, SMT
      <4>2. QED
        BY <2>3, <2>4, <2>6, <3>3, <4>1
    <3>7. QED
      BY <2>4, <2>6, <3>2, <3>5, <3>6 DEF CallInv
  <2>9. rd' = [rd EXCEPT ![p] = v]
    BY <1>10, <2>2, <2>3, <2>4, <2>5
  <2>10. /\ ReadInv' /\ Reads' = [Reads EXCEPT ![p] = Shown(v)]
         /\ \A q \in Readers : rd'[q].pc = "asleep" => rd[q].pc = "asleep" \/ v.pc = "asleep"
    BY <1>0, <2>6, <2>8, <2>9, CallStep
  <2>11. NoLostInputWakeup'
    BY <1>1, <2>6, <2>10 DEF NoLostInputWakeup
  <2>12. Shown(v) = [want |-> Reads[p].want - 1, got |-> Append(Reads[p].got, c)]
    BY <1>0, <2>2, <2>3, <2>6, ShownRead DEF Shown
  <2>13. Editor!Take(p)
    BY <1>2, <1>5, <1>10, <2>10, <2>12 DEF Editor!Take, Reads, Shown
  <2>14. QED
    BY <1>2, <1>10, <2>10, <2>11, <2>13 DEF Inv, Editor!Next
<1>11. QED
  BY <1>4, <1>7, <1>8, <1>9, <1>10 DEF Take

-----------------------------------------------------------------------------
(* The invariant holds, and what follows.                                  *)

\* consoleinit() leaves the buffer empty.
LEMMA InvInit ==
  ASSUME ConsoleConstants, Init
  PROVE  Inv /\ Editor!Init
<1>1. UINT \in Nat \ {0} /\ INPUT_BUF_SIZE \in Nat \ {0} /\ 0 \in Indices
  BY UintFacts, SMT DEF Indices
<1>2. PICK b : b = [k \in Slots |-> Newline]
  OBVIOUS
<1>3. b \in [Slots -> Keys] /\ cons = Ring(b, 0, 0, 0)
  BY <1>2 DEF Init, Slots, Keys, Ring
<1>4. cons.buf = b /\ cons.r = 0 /\ cons.w = 0 /\ cons.e = 0
  BY <1>3, SMT DEF Ring
<1>5. cons \in [buf : [Slots -> Keys], r : Indices, w : Indices, e : Indices]
  BY <1>1, <1>3, SMT DEF Ring
<1>6. Sub(0, 0) = 0
  <2>1. PICK z \in Indices : z = 0
    BY <1>1
  <2>2. Sub(z, z) = IF z >= z THEN z - z ELSE z + UINT - z
    BY Wraps
  <2>3. QED
    BY <1>1, <2>1, <2>2, SMT
<1>7. InOrder(0, 0, 0) /\ NoNewline(b, 0, Sub(0, 0))
  BY <1>1, <1>6, SMT DEF InOrder, NoNewline
<1>8. RingInv
  BY <1>4, <1>5, <1>7 DEF RingInv
<1>9. Idle \in Calls /\ CallInv(Idle) /\ Idle.pc = "idle" /\ Idle.got = <<>> /\ Idle.n = 0
  <2>1. Idle \in Calls /\ Idle.pc = "idle" /\ Idle.got = <<>> /\ Idle.n = 0 /\ Idle.target = 0
    BY SMT DEF Idle, Calls
  <2>2. QED
    BY <2>1, SMT DEF CallInv
<1>10. ReadInv /\ NoLostInputWakeup
  BY <1>9 DEF Init, ReadInv, NoLostInputWakeup
<1>11. Between(cons.r, cons.w) = <<>> /\ Between(cons.w, cons.e) = <<>>
  BY <1>4, <1>6, SMT DEF Between
<1>12. [p \in Readers |-> [want |-> rd[p].n, got |-> rd[p].got]] = [p \in Readers |-> Editor!NoRead]
  BY <1>9 DEF Init, Editor!NoRead
<1>13. QED
  BY <1>8, <1>10, <1>11, <1>12 DEF Inv, Editor!Init

\* Every step preserves the invariant, and is a step of the line editor or none.
LEMMA InvStep ==
  ASSUME ConsoleConstants, Inv, [Next]_vars
  PROVE  Inv' /\ [Editor!Next]_EditorVars
<1>1. CASE UNCHANGED vars
  <2>1. cons' = cons /\ rd' = rd
    BY <1>1 DEF vars
  <2>2. QED
    BY <2>1 DEF Inv, RingInv, ReadInv, NoLostInputWakeup, EditorVars, Between, Reads
<1>2. ASSUME NEW c \in Keys, Type(c)
      PROVE  Inv' /\ Editor!Next
  BY <1>2, TypeStep, TypeWakes DEF Inv, Editor!Next, Keys
<1>3. CASE Backspace \/ KillLine
  <2>1. RingInv' /\ (Editor!Erase \/ Editor!KillLine)
    BY <1>3, BackspaceStep, KillLineStep
  <2>2. rd' = rd /\ cons'.r = cons.r /\ cons'.w = cons.w
    BY <1>3, SMT DEF Backspace, KillLine, Inv, RingInv
  <2>3. QED
    BY <2>1, <2>2 DEF Inv, ReadInv, NoLostInputWakeup, Editor!Next
<1>4. ASSUME NEW p \in Readers, NEW n \in 1..MaxRead, Read(p, n)
      PROVE  Inv' /\ Editor!Next
  BY <1>4, ReadStarts
<1>5. ASSUME NEW p \in Readers, Wait(p) \/ Kill(p) \/ Wake(p) \/ Done(p)
      PROVE  Inv' /\ (UNCHANGED EditorVars \/ Editor!Next)
  BY <1>5, OtherSteps
<1>6. ASSUME NEW p \in Readers, Take(p)
      PROVE  Inv' /\ Editor!Next
  BY <1>6, TakeStep
<1>7. QED
  BY <1>1, <1>2, <1>3, <1>4, <1>5, <1>6 DEF Next, Keys

\* The invariant holds in every state of the console.
LEMMA InvHolds ==
  ASSUME ConsoleConstants
  PROVE  Spec => []Inv
<1>1. Init => Inv
  BY InvInit
<1>2. Inv /\ [Next]_vars => Inv'
  BY InvStep
<1>3. QED
  BY <1>1, <1>2, PTL DEF Spec

\* consoleread() and the wakeup in consoleintr(): nobody sleeps beside input that
\* has been entered.
THEOREM InputWakeups == Spec => []NoLostInputWakeup
<1>1. Inv => NoLostInputWakeup
  BY DEF Inv
<1>2. QED
  BY <1>1, ConsoleAssumption, InvHolds, PTL

\* consoleintr() and consoleread() on a buffer of any size, with any readers, are
\* a line editor, across the wrap of the indices: nothing that is entered is
\* lost, repeated or changed by editing, a read ends where its line ends or it
\* has what it wants, and control-D ends exactly one read.
THEOREM ConsoleImplementsEditor == Spec => ConsoleIsLines
<1>1. Init => Editor!Init
  BY ConsoleAssumption, InvInit
<1>2. Inv /\ [Next]_vars =>
        [Editor!Next]_<<Between(cons.r, cons.w), Between(cons.w, cons.e),
                        [p \in Readers |-> [want |-> rd[p].n, got |-> rd[p].got]]>>
  BY ConsoleAssumption, InvStep DEF EditorVars, Reads, Shown
<1>3. QED
  BY <1>1, <1>2, ConsoleAssumption, InvHolds, PTL DEF Spec, ConsoleIsLines, Editor!Spec
=============================================================================
