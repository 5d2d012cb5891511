------------------------ MODULE CircularIndexProofs ------------------------
(***************************************************************************)
(* Facts about the index arithmetic of CircularIndex, for every capacity,  *)
(* index width and strategy.                                               *)
(***************************************************************************)
EXTENDS CircularIndex, TLAPS

(* Division with remainder.                                                *)
LEMMA DivMod ==
  ASSUME NEW m \in Nat \ {0}, NEW x \in Nat
  PROVE  /\ x \div m \in Nat
         /\ x % m \in 0 .. m - 1
         /\ x = m * (x \div m) + (x % m)
  OBVIOUS

(* The remainder is the only one there is.                                 *)
LEMMA ModUnique ==
  ASSUME NEW m \in Nat \ {0}, NEW q \in Nat, NEW r \in 0 .. m - 1
  PROVE  (m * q + r) % m = r
  OBVIOUS

(* The remainder of x + n is that of x plus n, less one turn at most.      *)
LEMMA ModStep ==
  ASSUME NEW m \in Nat \ {0}, NEW x \in Nat, NEW n \in 0 .. m
  PROVE  (x + n) % m = IF (x % m) + n < m THEN (x % m) + n ELSE (x % m) + n - m
<1> DEFINE q == x \div m
           r == x % m
<1>1. q \in Nat /\ r \in 0 .. m - 1 /\ x = m * q + r
  BY DivMod
<1> HIDE DEF q, r
<1>2. CASE r + n < m
  <2>1. r + n \in 0 .. m - 1
    BY <1>1, <1>2
  <2>2. x + n = m * q + (r + n)
    BY <1>1
  <2>3. (m * q + (r + n)) % m = r + n
    BY <1>1, <2>1, ModUnique
  <2>4. QED
    BY <1>2, <2>2, <2>3 DEF r
<1>3. CASE ~(r + n < m)
  <2>1. r + n - m \in 0 .. m - 1
    BY <1>1, <1>3
  <2>2. x + n = m * (q + 1) + (r + n - m)
    <3>1. m * (q + 1) = m * q + m
      BY <1>1
    <3>2. QED
      BY <1>1, <3>1
  <2>3. q + 1 \in Nat
    BY <1>1
  <2>4. (m * (q + 1) + (r + n - m)) % m = r + n - m
    BY <2>1, <2>3, ModUnique
  <2>5. QED
    BY <1>3, <2>2, <2>4 DEF r
<1>4. QED
  BY <1>2, <1>3

(* Reducing before adding changes nothing.                                 *)
LEMMA ModAdd ==
  ASSUME NEW m \in Nat \ {0}, NEW x \in Nat, NEW n \in 0 .. m
  PROVE  ((x % m) + n) % m = (x + n) % m
<1>1. x % m \in Nat /\ x % m \in 0 .. m - 1
  BY DivMod
<1>2. (x % m) % m = x % m
  BY <1>1
<1>3. ((x % m) + n) % m
        = IF (x % m) + n < m THEN (x % m) + n ELSE (x % m) + n - m
  BY <1>1, <1>2, ModStep
<1>4. QED
  BY <1>3, ModStep

(* Numbers less than m apart have different remainders.                    *)
LEMMA ModInjective ==
  ASSUME NEW m \in Nat \ {0}, NEW x \in Nat, NEW y \in Nat,
         x <= y, y - x < m, x % m = y % m
  PROVE  x = y
<1>1. y - x \in 0 .. m /\ x + (y - x) = y
  OBVIOUS
<1>2. y % m = IF (x % m) + (y - x) < m THEN (x % m) + (y - x) ELSE (x % m) + (y - x) - m
  BY <1>1, ModStep
<1>3. x % m \in 0 .. m - 1
  BY DivMod
<1>4. QED
  BY <1>1, <1>2, <1>3

(* Reducing by a multiple of m first changes nothing.                      *)
LEMMA ModMod ==
  ASSUME NEW m \in Nat \ {0}, NEW k \in Nat \ {0}, NEW x \in Nat
  PROVE  (x % (k * m)) % m = x % m
<1> DEFINE M == k * m
           a == x \div M
           s == x % M
           q == s \div m
           r == s % m
<1>0. M \in Nat \ {0} /\ M = k * m
  OBVIOUS
<1> HIDE DEF M
<1> HIDE DEF a, s, q, r
<1>1. a \in Nat /\ s \in Nat /\ x = M * a + s
  <2>1. x \div M \in Nat /\ x % M \in 0 .. M - 1 /\ x = M * (x \div M) + (x % M)
    BY <1>0, DivMod, Zenon
  <2>2. a \in Nat /\ s \in 0 .. M - 1 /\ x = M * a + s
    BY <2>1 DEF a, s
  <2>3. QED
    BY <2>2, <1>0
<1>2. q \in Nat /\ r \in 0 .. m - 1 /\ s = m * q + r
  BY <1>1, DivMod DEF q, r
<1>3. x = m * (k * a + q) + r
  <2>1. (k * m) * a = m * (k * a)
    BY <1>1
  <2>2. m * (k * a + q) = m * (k * a) + m * q
    BY <1>1, <1>2
  <2>3. QED
    BY <1>0, <1>1, <1>2, <2>1, <2>2
<1>4. k * a + q \in Nat
  BY <1>1, <1>2
<1>5. (m * (k * a + q) + r) % m = r
  BY <1>2, <1>4, ModUnique
<1>6. QED
  BY <1>3, <1>5 DEF r, s, M

-----------------------------------------------------------------------------
(* The constants are what their names say.                                 *)
LEMMA Spans ==
  /\ MaxSize \in Nat \ {0} /\ IndexSpan \in Nat \ {0}
  /\ N \in Nat \ {0} /\ N <= MaxSize /\ N < IndexSpan /\ MaxSize <= IndexSpan
  /\ ~Overflow => N < MaxSize
  /\ IndexModulus \in Nat \ {0} /\ N < IndexModulus
  BY CapacityAssumption, WidthAssumption, StrategyAssumption DEF MaxSize, IndexSpan

(* The index that was reached by x insertions or removals stays in range   *)
(* and selects the slot x modulo the size of the storage.                  *)
LEMMA SlotOfCount ==
  ASSUME NEW x \in Nat
  PROVE  /\ x % IndexSpan \in Indices
         /\ Slot(x % IndexSpan) = x % MaxSize
         /\ Slot(x % IndexSpan) \in Slots
<1>1. x % IndexSpan \in Indices
  BY DivMod, Spans DEF Indices
<1>2. Slot(x % IndexSpan) = x % MaxSize
  <2>1. CASE Overflow
    <3>1. PICK k \in 1 .. IndexModulus : IndexModulus = k * N
      BY <2>1, StrategyAssumption
    <3>2. k \in Nat \ {0}
      BY <3>1, Spans
    <3>3. (x % (k * N)) % N = x % N
      BY <3>2, ModMod, Spans
    <3>4. QED
      BY <2>1, <3>1, <3>3 DEF Slot, MaxSize, IndexSpan
  <2>2. CASE ~Overflow
    BY <2>2 DEF Slot, MaxSize, IndexSpan
  <2>3. QED
    BY <2>1, <2>2
<1>3. QED
  BY <1>1, <1>2, DivMod, Spans DEF Slots

(* Advancing an index counts on.                                           *)
LEMMA AdvanceCounts ==
  ASSUME NEW x \in Nat, NEW n \in 0 .. N
  PROVE  Advance(x % IndexSpan, n) = (x + n) % IndexSpan
<1>1. IndexSpan \in Nat \ {0} /\ n \in 0 .. IndexSpan
  BY Spans
<1>2. ((x % IndexSpan) + n) % IndexSpan = (x + n) % IndexSpan
  BY <1>1, ModAdd
<1>3. QED
  BY <1>2 DEF Advance

(* size() is the number of elements between two counts, however often the  *)
(* indices have wrapped.                                                   *)
LEMMA SizeCounts ==
  ASSUME NEW x \in Nat, NEW y \in Nat, x <= y, y - x <= N
  PROVE  Size(x % IndexSpan, y % IndexSpan) = y - x
<1> DEFINE d == y - x
           r == x % IndexSpan
<1>1. d \in 0 .. N /\ d \in 0 .. IndexSpan /\ x + d = y
  BY Spans
<1>2. r \in 0 .. IndexSpan - 1
  BY DivMod, Spans
<1> HIDE DEF d
<1>3. (x + d) % IndexSpan = IF r + d < IndexSpan THEN r + d ELSE r + d - IndexSpan
  BY <1>1, ModStep, Spans
<1> HIDE DEF r
<1>4. CASE Overflow
  <2>0. IndexSpan = IndexModulus
    BY <1>4 DEF IndexSpan
  <2>1. (y % IndexSpan) - r = d \/ (y % IndexSpan) - r = d - IndexModulus
    BY <1>1, <1>2, <1>3, <2>0, Spans
  <2>2. d % IndexModulus = d
    BY <1>1, Spans
  <2>3. (d - IndexModulus) % IndexModulus = d
    BY <1>1, Spans
  <2>4. Size(r, y % IndexSpan) = ((y % IndexSpan) - r) % IndexModulus
    BY <1>4 DEF Size, Narrow
  <2>5. QED
    BY <2>1, <2>2, <2>3, <2>4 DEF d, r
<1>5. CASE ~Overflow
  <2>0. IndexSpan = MaxSize
    BY <1>5 DEF IndexSpan
  <2>1. d % IndexModulus = d
    BY <1>1, Spans
  <2>2. CASE r + d < IndexSpan
    <3>1. y % IndexSpan >= r /\ (y % IndexSpan) - r = d
      BY <1>1, <1>2, <1>3, <2>2, Spans
    <3>2. QED
      BY <3>1, <2>1 DEF Size, Narrow, d, r
  <2>3. CASE ~(r + d < IndexSpan)
    <3>1. ~(y % IndexSpan >= r) /\ (y % IndexSpan) + (MaxSize - r) = d
      BY <1>1, <1>2, <1>3, <1>5, <2>0, <2>3, Spans
    <3>2. QED
      BY <3>1, <2>1, <1>5 DEF Size, Narrow, d, r
  <2>4. QED
    BY <2>2, <2>3
<1>6. QED
  BY <1>4, <1>5

=============================================================================
