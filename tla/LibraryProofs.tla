----------------------------- MODULE LibraryProofs -----------------------------
(***************************************************************************)
(* Proofs about the parts of MCLibrary that stand alone: stack_resource    *)
(* gives private memory, static_vector is a stack, static_vector and       *)
(* static_function own their items, rotations of bounded numbers add up    *)
(* and the output of pid is within its limits; and all parts together,     *)
(* with those of CoroutineProofs, keep their types.                        *)
(***************************************************************************)
EXTENDS MCLibrary, CoroutineProofs

-----------------------------------------------------------------------------
(* bounded numbers and pid, for every range of every type, and for any     *)
(* limits.                                                                 *)

(* Division with remainder, of integers.                                   *)
LEMMA IntDivMod ==
  ASSUME NEW m \in Nat \ {0}, NEW x \in Int
  PROVE  /\ x \div m \in Int
         /\ x % m \in 0 .. m - 1
         /\ x = m * (x \div m) + (x % m)
  OBVIOUS

(* The remainder is the only one there is.                                 *)
LEMMA IntModUnique ==
  ASSUME NEW m \in Nat \ {0}, NEW q \in Int, NEW r \in 0 .. m - 1
  PROVE  (m * q + r) % m = r
  OBVIOUS

(* What is small is its own remainder, also one range further.             *)
LEMMA SmallRemainder ==
  ASSUME NEW m \in Nat \ {0}, NEW r \in 0 .. m - 1
  PROVE  r % m = r /\ (m + r) % m = r
<1>1. (m * 0 + r) % m = r
  BY IntModUnique
<1>2. (m * 1 + r) % m = r
  BY IntModUnique
<1>3. m * 0 + r = r /\ m * 1 + r = m + r
  OBVIOUS
<1> QED
  BY <1>1, <1>2, <1>3

(* Numbers a multiple of m apart have the same remainder.                  *)
LEMMA Congruent ==
  ASSUME NEW m \in Nat \ {0}, NEW x \in Int, NEW q \in Int
  PROVE  (m * q + x) % m = x % m
<1> DEFINE a == x \div m
           r == x % m
<1>1. a \in Int /\ r \in 0 .. m - 1 /\ x = m * a + r
  BY IntDivMod
<1> HIDE DEF a, r
<1>2. m * q + x = m * (q + a) + r
  <2>1. m * (q + a) = m * q + m * a
    BY <1>1
  <2> QED
    BY <1>1, <2>1
<1>3. (m * (q + a) + r) % m = r
  BY <1>1, IntModUnique
<1> QED
  BY <1>2, <1>3 DEF r

(* Reducing by a multiple of m first changes nothing.                      *)
LEMMA IntModMod ==
  ASSUME NEW m \in Nat \ {0}, NEW M \in Nat \ {0}, M % m = 0, NEW x \in Int
  PROVE  (x % M) % m = x % m
<1> DEFINE k == M \div m
           a == x \div M
           s == x % M
<1>1. k \in Int /\ M = m * k
  BY IntDivMod
<1>2. a \in Int /\ s \in Int /\ x = M * a + s
  <2>1. x \div M \in Int /\ x % M \in 0 .. M - 1 /\ x = M * (x \div M) + (x % M)
    BY IntDivMod, Zenon
  <2> QED
    BY <2>1
<1> HIDE DEF k, a, s
<1>3. x = m * (k * a) + s
  <2>1. (m * k) * a = m * (k * a)
    BY <1>1, <1>2
  <2> QED
    BY <1>1, <1>2, <2>1
<1>4. (m * (k * a) + s) % m = s % m
  <2> DEFINE b == k * a
  <2>1. b \in Int
    BY <1>1, <1>2
  <2> HIDE DEF b
  <2>2. (m * b + s) % m = s % m
    BY <1>2, <2>1, Congruent, Zenon
  <2> QED
    BY <2>2 DEF b
<1> QED
  BY <1>3, <1>4 DEF s

(* Remainders as C++ has them, taken twice with a whole range in between,  *)
(* are those of mathematics.                                               *)
LEMMA RemainderTwice ==
  ASSUME NEW m \in Nat \ {0}, NEW y \in Int
  PROVE  Remainder(m + Remainder(y, m), m) = y % m
<1>1. CASE y >= 0
  <2>1. y % m \in 0 .. m - 1
    BY IntDivMod
  <2>2. Remainder(m + Remainder(y, m), m) = (m + (y % m)) % m
    BY <1>1, <2>1 DEF Remainder, Abs
  <2>3. (m * 1 + (y % m)) % m = y % m
    BY <2>1, IntModUnique
  <2> QED
    BY <2>1, <2>2, <2>3
<1>2. CASE ~(y >= 0)
  <2> DEFINE q == (-y) \div m
             r == (-y) % m
  <2>1. q \in Int /\ r \in 0 .. m - 1 /\ -y = m * q + r
    BY IntDivMod
  <2>2. Remainder(m + Remainder(y, m), m) = (m + (-r)) % m
    BY <1>2, <2>1 DEF Remainder, Abs
  <2> HIDE DEF q, r
  <2> DEFINE nq == -q
             nr == -r
  <2>3. nq \in Int /\ nr \in Int /\ 1 \in Int /\ y = m * nq + nr
    BY <2>1
  <2>4. Remainder(m + Remainder(y, m), m) = (m * 1 + nr) % m
    BY <2>1, <2>2
  <2> HIDE DEF nq, nr
  <2>5. (m * nq + nr) % m = nr % m
    BY <2>3, Congruent, Zenon
  <2>6. (m * 1 + nr) % m = nr % m
    BY <2>3, Congruent, Zenon
  <2> QED
    BY <2>3, <2>4, <2>5, <2>6
<1> QED
  BY <1>1, <1>2

-----------------------------------------------------------------------------
(* bounded.                                                                *)

(* Rotations add up as long as they are exact, and the value is a number   *)
(* of the range if that can be counted.                                    *)
BoundedInv ==
  /\ type \in BoundedTypes /\ exact \in BOOLEAN
  /\ val \in ValuesOf(type)
  /\ ValueInRange
  /\ turned \in 0 .. Width(type) - 1
  /\ RotationsAddUp

LEMMA RangesAreWhole ==
  ASSUME NumbersAssumption, NEW t \in BoundedTypes
  PROVE  /\ t.min \in Int /\ t.max \in Int /\ t.low \in Int /\ t.size \in Nat \ {0}
         /\ Width(t) \in Nat \ {0} /\ Width(t) = 1 + t.max - t.min
         /\ t.min .. t.max \subseteq ValuesOf(t) /\ ValuesOf(t) \subseteq Int
         /\ t.steps \subseteq Int /\ Width(t) <= t.size
         /\ t.arith = "unsigned" => t.low = 0
  BY DEF NumbersAssumption, Width, ValuesOf

(* A conversion gives a value of the type, and keeps one.                  *)
LEMMA Conversions ==
  ASSUME NumbersAssumption, NEW t \in BoundedTypes, NEW x \in Int
  PROVE  /\ ToT(t, x) \in ValuesOf(t) /\ ToT(t, x) \in Int
         /\ x \in ValuesOf(t) => ToT(t, x) = x
<1>1. t.low \in Int /\ t.size \in Nat \ {0}
  BY RangesAreWhole
<1> DEFINE y == x - t.low
<1>2. y \in Int /\ y % t.size \in 0 .. t.size - 1
  <2>1. y \in Int
    BY <1>1
  <2> QED
    BY <1>1, <2>1, IntDivMod
<1>3. x \in ValuesOf(t) => y % t.size = y
  <2>1. x \in ValuesOf(t) => y \in 0 .. t.size - 1
    BY <1>1 DEF ValuesOf
  <2>2. y \in 0 .. t.size - 1 => y % t.size = y
    BY <1>1, SmallRemainder, Zenon
  <2> QED
    BY <2>1, <2>2
<1> QED
  BY <1>1, <1>2, <1>3 DEF ToT, ValuesOf

(* A remainder keeps the sign of what is divided.                          *)
LEMMA RemainderIsSmall ==
  ASSUME NEW m \in Nat \ {0}, NEW y \in Nat
  PROVE  Remainder(y, m) = y % m /\ y % m \in 0 .. m - 1
<1>1. y % m \in 0 .. m - 1
  BY IntDivMod
<1> QED
  BY <1>1 DEF Remainder, Abs

(* Arithmetic that does not wrap goes round the range.                     *)
LEMMA ExactRotation ==
  ASSUME NumbersAssumption, NEW t \in BoundedTypes, NEW x \in Int,
         t.arith # "unsigned", IntervalRange(t) = Width(t)
  PROVE  Rotated(t, x) = t.min + ((x - t.min) % Width(t))
<1> DEFINE R == Width(t)
           y == x - t.min
           v == t.min + (y % R)
<1>1. t.min \in Int /\ R \in Nat \ {0} /\ y \in Int /\ t.max \in Int /\ R = 1 + t.max - t.min
  BY RangesAreWhole
<1>2. Offset(t, x) = Remainder(y, R)
  BY DEF Offset, Arith
<1>3. Rotated(t, x) = ToT(t, t.min + Remainder(R + Remainder(y, R), R))
  BY <1>2 DEF Rotated, Arith
<1>4. Remainder(R + Remainder(y, R), R) = y % R
  BY <1>1, RemainderTwice, Zenon
<1>5. v \in t.min .. t.max /\ v \in Int
  <2>1. y % R \in 0 .. R - 1
    BY <1>1, IntDivMod, Zenon
  <2> HIDE DEF R, y
  <2> QED
    BY <1>1, <2>1
<1>6. v \in ValuesOf(t)
  <2>1. t.min .. t.max \subseteq ValuesOf(t)
    BY RangesAreWhole, Zenon
  <2> QED
    BY <1>5, <2>1, Zenon
<1>7. ToT(t, v) = v
  BY <1>5, <1>6, Conversions, Zenon
<1> QED
  BY <1>3, <1>4, <1>7

(* Arithmetic that wraps goes round the values of the type first.          *)
LEMMA WrappedRotation ==
  ASSUME NumbersAssumption, NEW t \in BoundedTypes, NEW x \in Int,
         t.arith = "unsigned", IntervalRange(t) = Width(t)
  PROVE  LET z == (x - t.min) % t.size
             w == (Width(t) + (z % Width(t))) % t.size
         IN  /\ z \in Nat /\ z % Width(t) \in 0 .. Width(t) - 1
             /\ w % Width(t) \in 0 .. Width(t) - 1
             /\ Rotated(t, x) = t.min + (w % Width(t))
<1> DEFINE R == Width(t)
           S == t.size
           y == x - t.min
           z == y % S
           r == z % R
           w == (R + r) % S
<1>1. /\ t.min \in Int /\ R \in Nat \ {0} /\ S \in Nat \ {0} /\ y \in Int /\ t.low = 0
      /\ t.max \in Int /\ R = 1 + t.max - t.min
  BY RangesAreWhole
<1>2. \A a \in Int : Arith(t, a) = a % S
  BY <1>1 DEF Arith, ToT
<1>3. z \in Nat /\ ((x % S) - t.min) % S = z
  <2> DEFINE q == x \div S
             u == x % S
  <2>1. q \in Int /\ u \in 0 .. S - 1 /\ x = S * q + u
    BY <1>1, IntDivMod, Zenon
  <2>2. y % S \in 0 .. S - 1
    BY <1>1, IntDivMod, Zenon
  <2> HIDE DEF q, u
  <2> DEFINE d == u - t.min
  <2>3. d \in Int /\ y = S * q + d
    <3>1. S * q \in Int
      BY <1>1, <2>1
    <3> QED
      BY <1>1, <2>1, <3>1
  <2> HIDE DEF d, y
  <2>4. (S * q + d) % S = d % S
    BY <1>1, <2>1, <2>3, Congruent, Zenon
  <2> QED
    BY <1>1, <2>2, <2>3, <2>4 DEF d, u
<1>4. Offset(t, x) = r /\ r \in 0 .. R - 1
  <2>1. x % S \in Int
    <3>1. x % S \in 0 .. S - 1
      BY <1>1, IntDivMod, Zenon
    <3> QED
      BY <1>1, <3>1
  <2>2. Arith(t, Arith(t, x) - t.min) = z
    <3>1. Arith(t, x) = x % S /\ (x % S) - t.min \in Int
      BY <1>1, <1>2, <2>1
    <3>2. Arith(t, (x % S) - t.min) = ((x % S) - t.min) % S
      BY <1>2, <3>1
    <3> QED
      BY <1>3, <3>1, <3>2
  <2>3. Offset(t, x) = Remainder(z, R)
    BY <2>2 DEF Offset
  <2> HIDE DEF z, R
  <2> QED
    BY <1>1, <1>3, <2>3, RemainderIsSmall
<1>5. Arith(t, R + r) = w /\ w \in Nat
  <2> HIDE DEF r
  <2>1. R + r \in Int
    BY <1>1, <1>4
  <2>2. (R + r) % S \in 0 .. S - 1
    BY <1>1, <2>1, IntDivMod, Zenon
  <2> QED
    BY <1>1, <1>2, <2>1, <2>2
<1>6. w % R \in 0 .. R - 1 /\ Remainder(w, R) = w % R
  <2> HIDE DEF w, R
  <2> QED
    BY <1>1, <1>5, RemainderIsSmall
<1>7. Rotated(t, x) = ToT(t, t.min + (w % R))
  <2>1. Rotated(t, x) = ToT(t, t.min + Remainder(Arith(t, R + r), R))
    BY <1>4 DEF Rotated
  <2> QED
    BY <1>5, <1>6, <2>1
<1>8. ToT(t, t.min + (w % R)) = t.min + (w % R)
  <2> DEFINE v == t.min + (w % R)
  <2>1. v \in t.min .. t.max /\ v \in Int
    <3> HIDE DEF w, R
    <3> QED
      BY <1>1, <1>6
  <2>2. v \in ValuesOf(t)
    <3>1. t.min .. t.max \subseteq ValuesOf(t)
      BY RangesAreWhole, Zenon
    <3> QED
      BY <2>1, <3>1, Zenon
  <2> QED
    BY <2>1, <2>2, Conversions, Zenon
<1> QED
  BY <1>3, <1>4, <1>6, <1>7, <1>8

(* A safe step ends where its distance from the begin of the range leads,  *)
(* modulo the range.                                                       *)
LEMMA SafeRotation ==
  ASSUME NumbersAssumption, NEW t \in BoundedTypes, NEW x \in Int, Safe(t, x)
  PROVE  Rotated(t, x) = t.min + ((x - t.min) % Width(t))
<1>1. CASE t.arith # "unsigned"
  BY <1>1, ExactRotation DEF Safe
<1>2. CASE t.arith = "unsigned"
  <2> DEFINE R == Width(t)
             S == t.size
             y == x - t.min
             z == y % S
             r == z % R
             w == (R + r) % S
  <2>1. R \in Nat \ {0} /\ S \in Nat \ {0} /\ y \in Int /\ t.min \in Int
    BY RangesAreWhole
  <2>2. /\ z \in Nat /\ r \in 0 .. R - 1
        /\ Rotated(t, x) = t.min + (w % R)
    BY <1>2, WrappedRotation DEF Safe
  <2>3. (R + r) % R = r
    BY <2>1, <2>2, SmallRemainder, Zenon
  <2>4. w % R = y % R
    <3>1. CASE S % R = 0
      <4>1. r = y % R
        BY <2>1, <3>1, IntModMod, Zenon
      <4>2. ((R + r) % S) % R = (R + r) % R
        <5> HIDE DEF r, R
        <5>1. R + r \in Int
          BY <2>1, <2>2
        <5> QED
          BY <2>1, <3>1, <5>1, IntModMod, Zenon
      <4> QED
        BY <2>3, <4>1, <4>2
    <3>2. CASE y \in 0 .. S - 1 /\ R + (y % R) < S
      <4>1. z = y
        BY <2>1, <3>2, SmallRemainder, Zenon
      <4>2. r = y % R /\ R + r \in 0 .. S - 1
        <5>1. r = y % R
          BY <4>1
        <5> HIDE DEF r, y, R
        <5> QED
          BY <2>1, <2>2, <3>2, <5>1
      <4>3. (R + r) % S = R + r
        BY <2>1, <4>2, SmallRemainder, Zenon
      <4> QED
        BY <2>3, <4>2, <4>3
    <3> QED
      BY <1>2, <3>1, <3>2 DEF Safe
  <2> QED
    BY <2>2, <2>4
<1> QED
  BY <1>1, <1>2

(* Every rotation ends in the type, and in the range if that is counted.   *)
LEMMA RotationStays ==
  ASSUME NumbersAssumption, NEW t \in BoundedTypes, NEW x \in Int, IntervalRange(t) # 0
  PROVE  /\ Rotated(t, x) \in ValuesOf(t)
         /\ RangeIsCounted(t) => Rotated(t, x) \in t.min .. t.max
<1>1. /\ t.min \in Int /\ t.max \in Int /\ Width(t) \in Nat \ {0} /\ Width(t) = 1 + t.max - t.min
      /\ t.low \in Int /\ t.size \in Nat \ {0}
  BY RangesAreWhole
<1>2. RangeIsCounted(t) => Rotated(t, x) \in t.min .. t.max
  <2> SUFFICES ASSUME IntervalRange(t) = Width(t)
               PROVE  Rotated(t, x) \in t.min .. t.max
    BY DEF RangeIsCounted
  <2>1. CASE t.arith # "unsigned"
    <3>1. x - t.min \in Int
      BY <1>1
    <3>2. (x - t.min) % Width(t) \in 0 .. Width(t) - 1
      BY <1>1, <3>1, IntDivMod, Zenon
    <3> QED
      BY <1>1, <2>1, <3>2, ExactRotation
  <2>2. CASE t.arith = "unsigned"
    <3> DEFINE w == (Width(t) + (((x - t.min) % t.size) % Width(t))) % t.size
    <3>1. w % Width(t) \in 0 .. Width(t) - 1 /\ Rotated(t, x) = t.min + (w % Width(t))
      BY <2>2, WrappedRotation
    <3> HIDE DEF w
    <3> QED
      BY <1>1, <3>1
  <2> QED
    BY <2>1, <2>2
<1>3. Rotated(t, x) \in ValuesOf(t)
  <2>1. \A a, b \in Int : Remainder(a, b) \in Int \/ b = 0
    <3> SUFFICES ASSUME NEW a \in Int, NEW b \in Int, b # 0
                 PROVE  Remainder(a, b) \in Int
      OBVIOUS
    <3>1. Abs(b) \in Nat \ {0}
      BY DEF Abs
    <3>2. a % Abs(b) \in 0 .. Abs(b) - 1 /\ (-a) % Abs(b) \in 0 .. Abs(b) - 1
      <4>1. -a \in Int
        OBVIOUS
      <4> QED
        BY <3>1, <4>1, IntDivMod, Zenon
    <3> QED
      BY <3>1, <3>2 DEF Remainder
  <2>2. \A a \in Int : Arith(t, a) \in Int
    BY Conversions DEF Arith
  <2>3. IntervalRange(t) \in Int
    BY <1>1, Conversions DEF IntervalRange
  <2>4. Offset(t, x) \in Int
    <3>1. Arith(t, Arith(t, x) - t.min) \in Int
      BY <1>1, <2>2
    <3> QED
      BY <2>1, <2>3, <3>1 DEF Offset
  <2>5. Remainder(Arith(t, IntervalRange(t) + Offset(t, x)), IntervalRange(t)) \in Int
    <3>1. Arith(t, IntervalRange(t) + Offset(t, x)) \in Int
      BY <2>2, <2>3, <2>4
    <3> QED
      BY <2>1, <2>3, <3>1
  <2> DEFINE rem == Remainder(Arith(t, IntervalRange(t) + Offset(t, x)), IntervalRange(t))
  <2>6. Rotated(t, x) = ToT(t, t.min + rem)
    BY DEF Rotated
  <2> HIDE DEF rem
  <2>7. t.min + rem \in Int
    BY <1>1, <2>5 DEF rem
  <2> QED
    BY <2>6, <2>7, Conversions
<1> QED
  BY <1>2, <1>3

(* Rotation adds to what the number was rotated by before.                 *)
LEMMA TurnKeeps ==
  ASSUME NumbersAssumption, BoundedInv, NEW x \in Int, NEW step \in Int,
         x = val + step, Turn(x, step)
  PROVE  BoundedInv'
<1>1. /\ type \in BoundedTypes /\ type.min \in Int /\ Width(type) \in Nat \ {0}
      /\ turned \in Int /\ exact \in BOOLEAN
  BY RangesAreWhole DEF BoundedInv
<1>2. /\ val' = Rotated(type, x) /\ turned' = (turned + step) % Width(type)
      /\ exact' = (exact /\ Safe(type, x)) /\ type' = type /\ IntervalRange(type) # 0
  BY DEF Turn, IsDefined
<1>3. val' \in ValuesOf(type) /\ (RangeIsCounted(type) => val' \in type.min .. type.max)
  BY <1>1, <1>2, RotationStays
<1>4. turned' \in 0 .. Width(type) - 1
  <2>1. turned + step \in Int
    BY <1>1
  <2> QED
    BY <1>1, <1>2, <2>1, IntDivMod, Zenon
<1>5. exact' => val' = type.min + turned'
  <2> SUFFICES ASSUME exact, Safe(type, x)
               PROVE  val' = type.min + turned'
    BY <1>2
  <2>1. x - type.min = turned + step
    BY <1>1 DEF BoundedInv, ValueInRange, RotationsAddUp
  <2> QED
    BY <1>1, <1>2, <2>1, SafeRotation
<1>6. exact' \in BOOLEAN
  BY <1>2
<1> QED
  BY <1>1, <1>2, <1>3, <1>4, <1>5, <1>6 DEF BoundedInv, ValueInRange, RotationsAddUp

LEMMA MakeKeeps ==
  ASSUME NumbersAssumption, BoundedInv, NEW x \in Int, Make(x)
  PROVE  BoundedInv'
<1>1. /\ type \in BoundedTypes /\ type.min \in Int /\ type.max \in Int /\ Width(type) = 1 + type.max - type.min
      /\ type.min .. type.max \subseteq ValuesOf(type)
  BY RangesAreWhole DEF BoundedInv
<1>2. /\ ToT(type, x) \in type.min .. type.max /\ val' = ToT(type, x)
      /\ turned' = ToT(type, x) - type.min /\ exact' = TRUE /\ type' = type
  BY DEF Make, Makes
<1>3. val' \in ValuesOf(type) /\ turned' \in 0 .. Width(type) - 1 /\ val' = type.min + turned'
  BY <1>1, <1>2
<1> QED
  BY <1>1, <1>2, <1>3 DEF BoundedInv, ValueInRange, RotationsAddUp

LEMMA BoundedStepKeeps ==
  ASSUME NumbersAssumption, BoundedInv, [BoundedNext]_boundedVars
  PROVE  BoundedInv'
<1>1. type.steps \subseteq Int /\ val \in Int /\ type.low \in Int /\ type.size \in Nat
  BY RangesAreWhole DEF BoundedInv
<1>2. ASSUME NEW step \in type.steps, RotateRight(step)
      PROVE  BoundedInv'
  BY <1>1, <1>2, TurnKeeps DEF RotateRight
<1>3. ASSUME NEW step \in type.steps, RotateLeft(step)
      PROVE  BoundedInv'
  <2>1. -step \in Int /\ val - step = val + (-step) /\ val - step \in Int
    BY <1>1
  <2> QED
    BY <1>3, <2>1, TurnKeeps DEF RotateLeft
<1>4. ASSUME NEW x \in type.low - 1 .. type.low + type.size, Make(x)
      PROVE  BoundedInv'
  BY <1>1, <1>4, MakeKeeps
<1>5. CASE UNCHANGED boundedVars
  BY <1>5 DEF boundedVars, BoundedInv, ValueInRange, RotationsAddUp
<1> QED
  BY <1>2, <1>3, <1>4, <1>5 DEF BoundedNext

LEMMA BoundedBegins ==
  ASSUME NumbersAssumption, BoundedInit
  PROVE  BoundedInv
<1>1. /\ type \in BoundedTypes /\ type.min \in Int /\ type.max \in Int /\ Width(type) \in Nat \ {0}
      /\ type.min \in type.min .. type.max /\ type.min .. type.max \subseteq ValuesOf(type)
  <2>1. type \in BoundedTypes
    BY DEF BoundedInit
  <2> QED
    BY <2>1, RangesAreWhole DEF NumbersAssumption
<1> QED
  BY <1>1 DEF BoundedInit, BoundedInv, ValueInRange, RotationsAddUp

(* A bounded of bounded.hpp, of any type and any range: make() and both    *)
(* rotations leave it in its range whenever the size of that is a number   *)
(* of the type, and rotations add up as long as their arithmetic does not  *)
(* wrap, or wraps by a multiple of the range.                              *)
THEOREM Rotations ==
  NumbersAssumption =>
    (BoundedSpec => [](ValueInRange /\ RotationsAddUp))
<1> SUFFICES ASSUME NumbersAssumption
             PROVE  BoundedSpec => [](ValueInRange /\ RotationsAddUp)
  OBVIOUS
<1>1. BoundedInit => BoundedInv
  BY BoundedBegins
<1>2. BoundedInv /\ [BoundedNext]_boundedVars => BoundedInv'
  BY BoundedStepKeeps
<1>3. BoundedInv => ValueInRange /\ RotationsAddUp
  BY DEF BoundedInv
<1> QED
  BY <1>1, <1>2, <1>3, PTL DEF BoundedSpec

-----------------------------------------------------------------------------
(* pid.                                                                    *)

(* The members of a regulator, with the time reduced to its clock.         *)
Regulator ==
  [lim : Limits, i_sum : Int, last_measured : Measures, last_time : 0 .. Clock - 1, output : Int]

PidInv == coeff \in Coefficients /\ pid \in Regulator /\ OutputWithinLimits

(* clamp() of min_max.hpp ends within the limits.                          *)
LEMMA ClampIsWithin ==
  ASSUME NumbersAssumption, NEW lim \in Limits, NEW x \in Int
  PROVE  Clamp(x, lim) \in Int /\ Clamp(x, lim) \in lim[1] .. lim[2]
  BY DEF NumbersAssumption, Clamp

(* Time that passed between different readings is not zero.                *)
LEMMA TimePasses ==
  ASSUME NumbersAssumption, NEW a \in 0 .. Clock - 1, NEW b \in 0 .. Clock - 1, a # b
  PROVE  (a + Clock - b) % Clock \in Nat \ {0}
<1>1. Clock \in Nat \ {0}
  BY DEF NumbersAssumption
<1>2. CASE a > b
  <2>1. (Clock * 1 + (a - b)) % Clock = a - b
    BY <1>1, <1>2, IntModUnique
  <2> QED
    BY <1>1, <1>2, <2>1
<1>3. CASE a < b
  <2>1. (Clock * 0 + (a + Clock - b)) % Clock = a + Clock - b
    BY <1>1, <1>3, IntModUnique
  <2> QED
    BY <1>1, <1>3, <2>1
<1> QED
  BY <1>2, <1>3

LEMMA UpdateKeeps ==
  ASSUME NumbersAssumption, PidInv, NEW now \in 0 .. Clock - 1,
         NEW measured \in Measures, NEW desired \in Measures, Update(now, measured, desired)
  PROVE  PidInv'
<1> DEFINE t_diff == (now + Clock - pid.last_time) % Clock
           error == desired - measured
           i_sum == Clamp(pid.i_sum + coeff.i * error * t_diff, pid.lim)
           slope == (coeff.d * (measured - pid.last_measured)) \div t_diff
           out == coeff.p * error + i_sum - slope
<1>1. /\ pid.lim \in Limits /\ pid.i_sum \in Int /\ pid.last_measured \in Int
      /\ pid.last_time \in 0 .. Clock - 1
      /\ coeff.p \in Int /\ coeff.i \in Int /\ coeff.d \in Int
      /\ measured \in Int /\ desired \in Int
  BY DEF PidInv, Regulator, NumbersAssumption
<1>2. t_diff \in Nat \ {0}
  BY <1>1, TimePasses DEF Update
<1>3. error \in Int
  BY <1>1
<1> HIDE DEF t_diff, error
<1>4. i_sum \in Int /\ i_sum \in pid.lim[1] .. pid.lim[2]
  <2>1. pid.i_sum + coeff.i * error * t_diff \in Int
    BY <1>1, <1>2, <1>3
  <2> QED
    BY <1>1, <2>1, ClampIsWithin
<1>5. slope \in Int
  <2>1. coeff.d * (measured - pid.last_measured) \in Int
    BY <1>1
  <2> QED
    BY <1>2, <2>1
<1> HIDE DEF i_sum, slope
<1>6. out \in Int
  BY <1>1, <1>3, <1>4, <1>5
<1> HIDE DEF out
<1>7. Clamp(out, pid.lim) \in Int /\ Clamp(out, pid.lim) \in pid.lim[1] .. pid.lim[2]
  BY <1>1, <1>6, ClampIsWithin
<1>8. /\ pid' = [pid EXCEPT !.i_sum = i_sum, !.output = Clamp(out, pid.lim),
                            !.last_measured = measured, !.last_time = now]
      /\ coeff' = coeff
  BY DEF Update, t_diff, error, i_sum, slope, out
<1> QED
  BY <1>4, <1>7, <1>8 DEF PidInv, Regulator, OutputWithinLimits

LEMMA PidStepKeeps ==
  ASSUME NumbersAssumption, PidInv, [PidNext]_pidVars
  PROVE  PidInv'
<1>1. ASSUME NEW lim \in Limits, UpdateLimits(lim)
      PROVE  PidInv'
  <2>1. pid.output \in Int /\ pid.i_sum \in Int
    BY DEF PidInv, Regulator
  <2>2. Clamp(pid.output, lim) \in Int /\ Clamp(pid.output, lim) \in lim[1] .. lim[2]
    BY <2>1, ClampIsWithin
  <2>3. Clamp(pid.i_sum, lim) \in Int /\ Clamp(pid.i_sum, lim) \in lim[1] .. lim[2]
    BY <2>1, ClampIsWithin
  <2> QED
    BY <1>1, <2>2, <2>3 DEF UpdateLimits, PidInv, Regulator, OutputWithinLimits
<1>2. ASSUME NEW x \in Measures, UpdateOutput(x)
      PROVE  PidInv'
  <2>1. Clamp(x, pid.lim) \in Int /\ Clamp(x, pid.lim) \in pid.lim[1] .. pid.lim[2]
    BY ClampIsWithin DEF PidInv, Regulator, NumbersAssumption
  <2> QED
    BY <1>2, <2>1 DEF UpdateOutput, PidInv, Regulator, OutputWithinLimits
<1>3. ASSUME NEW now \in 0 .. Clock - 1, NEW measured \in Measures, NEW desired \in Measures,
             Update(now, measured, desired)
      PROVE  PidInv'
  BY <1>3, UpdateKeeps
<1>4. ASSUME NEW now \in 0 .. Clock - 1, NEW measured \in Measures, Reset(now, measured)
      PROVE  PidInv'
  <2> DEFINE out == Clamp(0, pid.lim)
  <2>1. out \in Int /\ out \in pid.lim[1] .. pid.lim[2]
    BY ClampIsWithin DEF PidInv, Regulator
  <2>2. /\ pid' = [pid EXCEPT !.i_sum = 0, !.output = out, !.last_time = now, !.last_measured = measured]
        /\ coeff' = coeff
    BY <1>4 DEF Reset
  <2> HIDE DEF out
  <2>3. /\ pid' = [lim |-> pid.lim, i_sum |-> 0, last_measured |-> measured,
                   last_time |-> now, output |-> out]
        /\ pid.lim \in Limits
    BY <2>2 DEF PidInv, Regulator
  <2> QED
    BY <2>1, <2>2, <2>3 DEF PidInv, Regulator, OutputWithinLimits
<1>5. CASE UNCHANGED pidVars
  BY <1>5 DEF pidVars, PidInv, Regulator, OutputWithinLimits
<1> QED
  BY <1>1, <1>2, <1>3, <1>4, <1>5 DEF PidNext

LEMMA PidBegins ==
  ASSUME NumbersAssumption, PidInit
  PROVE  PidInv
<1>1. PICK lim \in Limits :
        pid = [lim |-> lim, i_sum |-> 0, last_measured |-> 0, last_time |-> 0, output |-> Clamp(0, lim)]
  BY DEF PidInit
<1>2. Clamp(0, lim) \in Int /\ Clamp(0, lim) \in lim[1] .. lim[2]
  BY ClampIsWithin
<1>3. 0 \in 0 .. Clock - 1 /\ 0 \in Measures
  BY DEF NumbersAssumption
<1> QED
  BY <1>1, <1>2, <1>3 DEF PidInit, PidInv, Regulator, OutputWithinLimits

(* The output of pid.hpp is within the limits, which may change at any     *)
(* time, for every coefficient and every course of what is measured.       *)
THEOREM Regulation == NumbersAssumption => (PidSpec => []OutputWithinLimits)
<1> SUFFICES ASSUME NumbersAssumption
             PROVE  PidSpec => []OutputWithinLimits
  OBVIOUS
<1>1. PidInit => PidInv
  BY PidBegins
<1>2. PidInv /\ [PidNext]_pidVars => PidInv'
  BY PidStepKeeps
<1>3. PidInv => OutputWithinLimits
  BY DEF PidInv
<1> QED
  BY <1>1, <1>2, <1>3, PTL DEF PidSpec

(* Both together, for every type and range that bounded.hpp accepts and    *)
(* every limits of pid.hpp: what the run checks of them.                   *)
THEOREM NumbersStay ==
  NumbersAssumption => (BoundedSpec /\ PidSpec => []NumbersStayInRange)
<1> SUFFICES ASSUME NumbersAssumption
             PROVE  BoundedSpec /\ PidSpec => []NumbersStayInRange
  OBVIOUS
<1>1. BoundedSpec => [](ValueInRange /\ RotationsAddUp)
  BY Rotations
<1>2. PidSpec => []OutputWithinLimits
  BY Regulation
<1>3. (ValueInRange /\ RotationsAddUp) /\ OutputWithinLimits => NumbersStayInRange
  BY DEF NumbersStayInRange
<1> QED
  BY <1>1, <1>2, <1>3, PTL

-----------------------------------------------------------------------------
(* stack_resource.                                                         *)

(* Blocks lie above the root and below the top, each below its own node,   *)
(* and no two of them, or their nodes, overlap.                            *)
BlocksApart ==
  /\ \A c \in Stack!Holders : Stack!Root <= given[c].ptr /\ Stack!NodeOf(c) <= top
  /\ \A c, d \in Stack!Holders :
       c # d => Stack!NodeOf(c) <= given[d].ptr \/ Stack!NodeOf(d) <= given[c].ptr

(* What a client wrote to its block is there.                              *)
BlocksKept ==
  \A c \in Stack!Holders : \A a \in given[c].ptr .. given[c].ptr + given[c].bytes - 1 : buff[a] = c

(* What a cell may hold.                                                   *)
StackCells == {Stack!Null} \cup Stack!Addresses \cup {Stack!Limit} \cup Users

StackInv == Stack!TypeOK /\ BlocksApart /\ BlocksKept /\ Stack!ListIsLiveBlocks

(* A doubly linked list of the nodes ns in mem that ends at t.             *)
Follows(ns, n, m) ==
  n \in ns /\ m \in ns /\ n < m /\ \A other \in ns : other <= n \/ m <= other

Chained(mem, t, ns) ==
  /\ t \in ns /\ \A n \in ns : n <= t
  /\ \A n \in ns : /\ IF n = Base + 2 THEN mem[n - 1] = 0 ELSE Follows(ns, mem[n - 1], n)
                   /\ IF n = t THEN mem[n - 2] = 0 ELSE Follows(ns, n, mem[n - 2])

(* The numbers of the instance.                                            *)
LEMMA StackConstants ==
  /\ Base \in Nat \ {0} /\ StackSize \in Nat /\ StackSize >= 2
  /\ Sizes \subseteq Nat /\ Alignments \subseteq Nat \ {0}
  /\ Stack!Root = Base + 2 /\ Stack!Limit = Base + StackSize
  /\ Stack!Addresses = Base .. Base + StackSize - 1
  /\ Stack!NodeSize = 2 /\ Stack!Null = 0
<1>1. Stack!StackAssumption
  BY PartsAssumption
<1> QED
  BY <1>1 DEF Stack!StackAssumption, Stack!Root, Stack!Limit, Stack!Addresses, Stack!NodeSize, Stack!Null

(* Rounding up does not go down.                                           *)
LEMMA StackAlignsUp ==
  ASSUME NEW addr \in Nat, NEW alignment \in Nat \ {0}
  PROVE  Stack!AlignAddr(addr, alignment) \in Nat /\ Stack!AlignAddr(addr, alignment) >= addr
<1> DEFINE x == addr + alignment - 1
<1> DEFINE q == x \div alignment
<1>1. x \in Nat
  OBVIOUS
<1>2. q \in Nat /\ x = alignment * q + (x % alignment) /\ x % alignment \in 0 .. alignment - 1
  BY <1>1
<1>3. q * alignment \in Nat /\ alignment * q = q * alignment
  BY <1>2
<1> HIDE DEF q
<1>4. q * alignment >= addr
  BY <1>2, <1>3
<1> QED
  BY <1>3, <1>4 DEF Stack!AlignAddr, q

(* What is known of a block.                                               *)
LEMMA BlockParts ==
  ASSUME Stack!TypeOK, NEW c \in Stack!Holders
  PROVE  /\ given[c].ptr \in Nat /\ given[c].bytes \in Nat /\ given[c].bytes \in Sizes
         /\ Stack!NodeOf(c) = given[c].ptr + given[c].bytes + 2
         /\ c \in Users
<1>1. given[c] \in Stack!Block /\ c \in Users
  BY DEF Stack!TypeOK, Stack!Holders
<1>2. given[c].ptr \in Stack!Addresses \cup {Stack!Limit} /\ given[c].bytes \in Sizes
  BY <1>1 DEF Stack!Block
<1>3. given[c].ptr \in Nat
  <2>1. given[c].ptr \in Stack!Addresses => given[c].ptr \in Nat
    BY StackConstants
  <2>2. Stack!Limit \in Nat
    BY StackConstants
  <2> QED
    BY <1>2, <2>1, <2>2
<1>4. given[c].bytes \in Nat
  BY <1>2, StackConstants
<1> QED
  BY <1>1, <1>2, <1>3, <1>4, StackConstants DEF Stack!NodeOf

LEMMA ListIsChain ==
  /\ Stack!ListIsLiveBlocks <=> Chained(buff, top, Stack!Nodes)
  /\ Stack!ListIsLiveBlocks' <=> Chained(buff', top', Stack!Nodes')
<1>1. Stack!Root = Base + 2 /\ Stack!Root' = Base + 2 /\ Stack!Null = 0 /\ Stack!Null' = 0
  BY StackConstants DEF Stack!Root, Stack!Null
<1>2. /\ \A n : Stack!GetNode(n).prev = buff[n - 1] /\ Stack!GetNode(n).next = buff[n - 2]
      /\ \A n : Stack!GetNode(n)'.prev = buff'[n - 1] /\ Stack!GetNode(n)'.next = buff'[n - 2]
  BY DEF Stack!GetNode
<1>3. /\ \A n, m : Stack!Consecutive(n, m) <=> Follows(Stack!Nodes, n, m)
  BY DEF Stack!Consecutive, Follows
<1>4. Stack!ListIsLiveBlocks <=> Chained(buff, top, Stack!Nodes)
  BY <1>1, <1>2, <1>3 DEF Stack!ListIsLiveBlocks, Chained
<1>5. Stack!ListIsLiveBlocks' <=> Chained(buff', top', Stack!Nodes')
  BY <1>1, <1>2 DEF Stack!ListIsLiveBlocks, Stack!Consecutive, Chained, Follows
<1> QED
  BY <1>4, <1>5

(* A node that is put behind the last one is the last one.                 *)
LEMMA ChainGrows ==
  ASSUME NEW mem, NEW t, NEW ns, Chained(mem, t, ns), \A n \in ns : n \in Nat /\ Base + 2 <= n,
         Base \in Nat,
         NEW new, NEW u \in Nat, t + 2 <= u,
         \A n \in ns : n # t => new[n - 1] = mem[n - 1] /\ new[n - 2] = mem[n - 2],
         new[t - 1] = mem[t - 1], new[t - 2] = u, new[u - 1] = t, new[u - 2] = 0
  PROVE  Chained(new, u, ns \cup {u})
<1> DEFINE nu == ns \cup {u}
<1>1. t \in ns /\ t \in Nat /\ \A n \in ns : n \in Nat /\ Base + 2 <= n /\ n <= t
  BY DEF Chained
<1>2. u \notin ns /\ u # Base + 2 /\ \A n \in ns : n < u
  BY <1>1
<1>3. u \in nu /\ \A n \in nu : n <= u
  BY <1>1, <1>2
<1>4. \A n, m : Follows(ns, n, m) => Follows(nu, n, m)
  BY <1>1, <1>2 DEF Follows
<1>5. Follows(nu, t, u)
  BY <1>1, <1>2 DEF Follows
<1>6. ASSUME NEW n \in ns
      PROVE  /\ IF n = Base + 2 THEN new[n - 1] = 0 ELSE Follows(nu, new[n - 1], n)
             /\ Follows(nu, n, new[n - 2])
  <2>1. /\ IF n = Base + 2 THEN mem[n - 1] = 0 ELSE Follows(ns, mem[n - 1], n)
        /\ n # t => Follows(ns, n, mem[n - 2])
    BY DEF Chained
  <2> QED
    BY <1>4, <1>5, <2>1
<1> QED
  BY <1>2, <1>3, <1>5, <1>6 DEF Chained

(* A list is a list again when the neighbours of a node point past it.     *)
LEMMA ChainShrinks ==
  ASSUME NEW mem, NEW t, NEW ns, Chained(mem, t, ns), \A m \in ns : m \in Nat /\ Base + 2 <= m,
         Base \in Nat,
         NEW n \in ns, n # Base + 2, NEW new,
         \A m \in ns \ {n} : /\ new[m - 1] = IF m = mem[n - 2] THEN mem[n - 1] ELSE mem[m - 1]
                             /\ new[m - 2] = IF m = mem[n - 1] THEN mem[n - 2] ELSE mem[m - 2]
  PROVE  /\ Follows(ns, mem[n - 1], n)
         /\ IF n = t THEN mem[n - 2] = 0 ELSE Follows(ns, n, mem[n - 2])
         /\ Chained(new, IF n = t THEN mem[n - 1] ELSE t, ns \ {n})
<1> DEFINE q == mem[n - 1]
           r == mem[n - 2]
           rest == ns \ {n}
           u == IF n = t THEN q ELSE t
<1>1. t \in ns /\ t \in Nat /\ \A m \in ns : m \in Nat /\ Base + 2 <= m /\ m <= t
  BY DEF Chained
<1>2. Follows(ns, q, n) /\ IF n = t THEN r = 0 ELSE Follows(ns, n, r)
  BY DEF Chained
<1>3. \A m \in rest : /\ IF m = Base + 2 THEN mem[m - 1] = 0 ELSE Follows(ns, mem[m - 1], m)
                      /\ IF m = t THEN mem[m - 2] = 0 ELSE Follows(ns, m, mem[m - 2])
                      /\ new[m - 1] = IF m = r THEN q ELSE mem[m - 1]
                      /\ new[m - 2] = IF m = q THEN r ELSE mem[m - 2]
  BY DEF Chained
<1> HIDE DEF q, r
<1>4. q \in rest /\ q < n /\ (n # t => r \in rest /\ n < r) /\ (n = t => r \notin ns)
  BY <1>1, <1>2 DEF Follows
<1>5. \A x, y : Follows(ns, x, y) /\ x # n /\ y # n => Follows(rest, x, y)
  BY DEF Follows
<1>6. ASSUME n # t
      PROVE  Follows(rest, q, r)
  <2>1. q \in Nat /\ n \in Nat /\ r \in Nat /\ q \in rest /\ r \in rest /\ q < r
    <3>1. q \in rest /\ r \in rest /\ q < n /\ n < r
      BY <1>4, <1>6
    <3>2. q \in Nat /\ n \in Nat /\ r \in Nat
      BY <1>1, <3>1
    <3> QED
      BY <3>1, <3>2
  <2>2. ASSUME NEW other \in rest
        PROVE  other <= q \/ r <= other
    <3>1. other \in Nat /\ other # n /\ other \in ns
      BY <1>1
    <3>2. (other <= q \/ n <= other) /\ (other <= n \/ r <= other)
      BY <1>2, <1>6, <3>1 DEF Follows
    <3> QED
      BY <2>1, <3>1, <3>2
  <2> QED
    BY <2>1, <2>2 DEF Follows
<1>7. u \in rest /\ \A m \in rest : m <= u
  BY <1>1, <1>2, <1>4 DEF Follows
<1>8. ASSUME NEW m \in rest
      PROVE  IF m = Base + 2 THEN new[m - 1] = 0 ELSE Follows(rest, new[m - 1], m)
  <2>1. CASE m = r
    <3>1. n # t /\ m # Base + 2
      BY <1>1, <1>4, <2>1
    <3> QED
      BY <1>3, <1>6, <2>1, <3>1
  <2>2. CASE m # r
    <3>1. ASSUME m # Base + 2
          PROVE  mem[m - 1] # n
      <4>1. SUFFICES ASSUME Follows(ns, n, m)
                     PROVE  FALSE
        BY <1>3, <3>1
      <4>2. n < m /\ m \in ns /\ \A other \in ns : other <= n \/ m <= other
        BY <4>1 DEF Follows
      <4>3. n # t
        BY <1>1, <4>2
      <4>4. r \in ns /\ n < r /\ (m <= n \/ r <= m)
        BY <1>2, <4>2, <4>3 DEF Follows
      <4> QED
        BY <1>1, <2>2, <4>2, <4>4
    <3> QED
      BY <1>3, <1>5, <2>2, <3>1
  <2> QED
    BY <2>1, <2>2
<1>9. ASSUME NEW m \in rest
      PROVE  IF m = u THEN new[m - 2] = 0 ELSE Follows(rest, m, new[m - 2])
  <2>1. CASE m = q
    <3>1. CASE n = t
      BY <1>2, <1>3, <2>1, <3>1
    <3>2. CASE n # t
      <4>1. m # t
        BY <1>1, <1>4, <2>1
      <4> QED
        BY <1>3, <1>6, <2>1, <3>2, <4>1
    <3> QED
      BY <3>1, <3>2
  <2>2. CASE m # q
    <3>1. ASSUME m # t
          PROVE  mem[m - 2] # n
      <4>1. SUFFICES ASSUME Follows(ns, m, n)
                     PROVE  FALSE
        BY <1>3, <3>1
      <4> QED
        BY <1>1, <1>2, <2>2, <4>1 DEF Follows
    <3>2. m = u <=> m = t
      BY <2>2
    <3> QED
      BY <1>3, <1>5, <2>2, <3>1, <3>2
  <2> QED
    BY <2>1, <2>2
<1>10. Chained(new, u, rest)
  BY <1>7, <1>8, <1>9 DEF Chained
<1> QED
  BY <1>2, <1>10 DEF q, r

(* The cells of different nodes are different, and none is in a block.     *)
LEMMA NodesAreApart ==
  ASSUME Stack!TypeOK, BlocksApart
  PROVE  /\ \A n \in Stack!Nodes : /\ n \in Nat /\ Base + 2 <= n
                                   /\ n - 1 \in Stack!Addresses /\ n - 2 \in Stack!Addresses
         /\ \A n, m \in Stack!Nodes : n # m => n + 2 <= m \/ m + 2 <= n
         /\ \A c \in Stack!Holders : \A n \in Stack!Nodes :
              n <= given[c].ptr \/ given[c].ptr + given[c].bytes <= n - 2
<1>1. /\ Stack!Root = Base + 2 /\ Base \in Nat /\ StackSize \in Nat
      /\ top \in Nat /\ top <= Base + StackSize /\ Base + 2 <= top
  BY StackConstants DEF Stack!TypeOK
<1>2. ASSUME NEW n \in Stack!Nodes
      PROVE  n = Base + 2 \/ \E c \in Stack!Holders : n = Stack!NodeOf(c)
  BY <1>1 DEF Stack!Nodes
<1>3. ASSUME NEW c \in Stack!Holders
      PROVE  /\ Base + 2 <= given[c].ptr /\ given[c].ptr \in Nat /\ Stack!NodeOf(c) <= top
             /\ given[c].bytes \in Nat /\ Stack!NodeOf(c) = given[c].ptr + given[c].bytes + 2
             /\ Stack!NodeOf(c) \in Nat
  <2>1. given[c].ptr \in Nat /\ given[c].bytes \in Nat /\ Stack!NodeOf(c) = given[c].ptr + given[c].bytes + 2
    BY BlockParts
  <2> QED
    BY <1>1, <2>1 DEF BlocksApart
<1>4. ASSUME NEW c \in Stack!Holders, NEW d \in Stack!Holders, c # d
      PROVE  Stack!NodeOf(c) <= given[d].ptr \/ Stack!NodeOf(d) <= given[c].ptr
  BY <1>4 DEF BlocksApart
<1>5. ASSUME NEW n \in Stack!Nodes
      PROVE  n \in Nat /\ Base + 2 <= n /\ n <= top
  BY <1>1, <1>2, <1>3
<1>6. ASSUME NEW n \in Stack!Nodes
      PROVE  n - 1 \in Stack!Addresses /\ n - 2 \in Stack!Addresses
  <2>1. Stack!Addresses = Base .. Base + StackSize - 1
    BY StackConstants
  <2> QED
    BY <1>1, <1>5, <2>1
<1>7. ASSUME NEW n \in Stack!Nodes, NEW m \in Stack!Nodes, n # m
      PROVE  n + 2 <= m \/ m + 2 <= n
  <2>1. CASE n = Base + 2
    <3>1. PICK d \in Stack!Holders : m = Stack!NodeOf(d)
      BY <1>2, <1>7, <2>1
    <3> QED
      BY <1>1, <1>3, <2>1, <3>1
  <2>2. CASE m = Base + 2
    <3>1. PICK d \in Stack!Holders : n = Stack!NodeOf(d)
      BY <1>2, <1>7, <2>2
    <3> QED
      BY <1>1, <1>3, <2>2, <3>1
  <2>3. ASSUME NEW c \in Stack!Holders, NEW d \in Stack!Holders, n = Stack!NodeOf(c), m = Stack!NodeOf(d)
        PROVE  n + 2 <= m \/ m + 2 <= n
    BY <1>3, <1>4, <1>7, <2>3
  <2> QED
    BY <1>2, <2>1, <2>2, <2>3
<1>8. ASSUME NEW c \in Stack!Holders, NEW n \in Stack!Nodes
      PROVE  n <= given[c].ptr \/ given[c].ptr + given[c].bytes <= n - 2
  <2>1. CASE n = Base + 2
    BY <1>3, <2>1
  <2>2. ASSUME NEW d \in Stack!Holders, n = Stack!NodeOf(d)
        PROVE  n <= given[c].ptr \/ given[c].ptr + given[c].bytes <= n - 2
    BY <1>3, <1>4, <2>2
  <2> QED
    BY <1>2, <2>1, <2>2
<1> QED
  BY <1>5, <1>6, <1>7, <1>8

LEMMA StackInit ==
  ASSUME Stack!Init
  PROVE  StackInv
<1> USE StackConstants
<1>1. Stack!Holders = {}
  BY DEF Stack!Init, Stack!Holders
<1>2. Stack!Nodes = {Base + 2} /\ Stack!Root = Base + 2
  BY <1>1 DEF Stack!Nodes, Stack!Root, Stack!NodeSize
<1>3. Stack!TypeOK
  BY DEF Stack!Init, Stack!TypeOK, Stack!Root, Stack!NodeSize, Stack!Limit
<1>4. Stack!ListIsLiveBlocks
  <2>1. buff[Base + 1] = 0 /\ buff[Base] = 0
    BY DEF Stack!Init, Stack!Addresses, Stack!NodeSize, Stack!Null
  <2>2. top = Base + 2
    BY <1>2 DEF Stack!Init
  <2> QED
    BY <1>2, <2>1, <2>2 DEF Stack!ListIsLiveBlocks, Stack!GetNode, Stack!Null
<1> QED
  BY <1>1, <1>3, <1>4 DEF StackInv, BlocksApart, BlocksKept

(* What an allocation does to each cell.                                   *)
LEMMA AllocatedCells ==
  ASSUME StackInv, NEW c \in Users, NEW bytes \in Sizes, NEW alignment \in Alignments,
         Stack!Allocate(c, bytes, alignment)
  PROVE  \E p \in Nat :
           /\ top <= p /\ p + bytes + 2 <= Stack!Limit /\ top' = p + bytes + 2
           /\ given[c] = NoBlock /\ given' = [given EXCEPT ![c] = [ptr |-> p, bytes |-> bytes]]
           /\ buff' \in [Stack!Addresses -> StackCells]
           /\ \A a \in p .. p + bytes - 1 : buff'[a] = c
           /\ buff'[top' - 1] = top /\ buff'[top' - 2] = 0
           /\ buff'[top - 1] = buff[top - 1] /\ buff'[top - 2] = top'
           /\ \A a \in Stack!Addresses :
                a < top - 2 => buff'[a] = buff[a]
<1> DEFINE p == Stack!AlignAddr(top, alignment)
           nt == p + bytes + 2
<1>1. /\ Base \in Nat /\ StackSize \in Nat /\ Stack!Limit = Base + StackSize
      /\ top \in Nat /\ Base + 2 <= top /\ top <= Stack!Limit /\ bytes \in Nat
      /\ Stack!Limit \in Nat
  BY StackConstants DEF StackInv, Stack!TypeOK
<1>2. p \in Nat /\ p >= top
  BY <1>1, StackConstants, StackAlignsUp
<1>3. /\ given[c] = NoBlock /\ Stack!Fits(bytes, p - top)
      /\ top' = (top + (p - top)) + bytes + 2
      /\ buff' = Stack!Written(Stack!SetNode(Stack!SetNode(buff, top', top, 0), top, Stack!GetNode(top).prev, top'),
                               c, top + (p - top), bytes)
      /\ given' = [given EXCEPT ![c] = [ptr |-> top + (p - top), bytes |-> bytes]]
  BY StackConstants DEF Stack!Allocate
<1> HIDE DEF p
<1>4. top + (p - top) = p /\ top' = p + bytes + 2
  BY <1>1, <1>2, <1>3
<1>5. p + bytes + 2 <= Stack!Limit
  <2>1. bytes <= Stack!Limit - top /\ (p - top) + 2 <= (Stack!Limit - top) - bytes
    BY <1>1, <1>2, <1>3, StackConstants DEF Stack!Fits, Stack!FreeSpace
  <2> QED
    BY <1>1, <1>2, <2>1
<1> DEFINE m == [[buff EXCEPT ![top' - 1] = top, ![top' - 2] = 0] EXCEPT ![top - 1] = buff[top - 1], ![top - 2] = top']
<1>6. buff' = [a \in Stack!Addresses |-> IF a \in p .. p + bytes - 1 THEN c ELSE m[a]]
  BY <1>3, <1>4 DEF Stack!Written, Stack!SetNode, Stack!GetNode
<1>7. /\ top' - 1 \in Stack!Addresses /\ top' - 2 \in Stack!Addresses
      /\ top - 1 \in Stack!Addresses /\ top - 2 \in Stack!Addresses
      /\ \A a \in p .. p + bytes - 1 : a \in Stack!Addresses
      /\ top' \in Nat /\ top' - 2 >= top
      /\ Stack!Addresses \subseteq Nat
  BY <1>1, <1>2, <1>4, <1>5, StackConstants
<1>8. buff = [a \in Stack!Addresses |-> buff[a]]
  BY DEF StackInv, Stack!TypeOK
<1>9. /\ m[top' - 1] = top /\ m[top' - 2] = 0
      /\ m[top - 1] = buff[top - 1] /\ m[top - 2] = top'
      /\ \A a \in Stack!Addresses : a < top - 2 => m[a] = buff[a]
  BY <1>1, <1>7, <1>8
<1>10. m \in [Stack!Addresses -> StackCells]
  <2>1. buff \in [Stack!Addresses -> StackCells]
    BY DEF StackInv, Stack!TypeOK, StackCells
  <2>2. top \in StackCells /\ top' \in StackCells /\ 0 \in StackCells /\ buff[top - 1] \in StackCells
    <3>1. top' \in Stack!Addresses \cup {Stack!Limit} /\ top \in Stack!Addresses \cup {Stack!Limit}
      BY <1>1, <1>4, <1>5, <1>7, StackConstants
    <3> QED
      BY <1>7, <2>1, <3>1, StackConstants DEF StackCells
  <2> QED
    BY <2>1, <2>2
<1> HIDE DEF m
<1>11. /\ top' - 1 \notin p .. p + bytes - 1 /\ top' - 2 \notin p .. p + bytes - 1
       /\ top - 1 \notin p .. p + bytes - 1 /\ top - 2 \notin p .. p + bytes - 1
       /\ \A a \in Stack!Addresses : a < top - 2 => a \notin p .. p + bytes - 1
  BY <1>1, <1>2, <1>4, <1>7
<1>12. /\ buff' \in [Stack!Addresses -> StackCells]
       /\ \A a \in p .. p + bytes - 1 : buff'[a] = c
       /\ buff'[top' - 1] = top /\ buff'[top' - 2] = 0
       /\ buff'[top - 1] = buff[top - 1] /\ buff'[top - 2] = top'
       /\ \A a \in Stack!Addresses : a < top - 2 => buff'[a] = buff[a]
  <2>1. buff' \in [Stack!Addresses -> StackCells]
    BY <1>6, <1>10 DEF StackCells
  <2>2. \A a \in p .. p + bytes - 1 : buff'[a] = c
    BY <1>6, <1>7
  <2>3. \A a \in Stack!Addresses : a \notin p .. p + bytes - 1 => buff'[a] = m[a]
    BY <1>6
  <2> QED
    BY <1>7, <1>9, <1>11, <2>1, <2>2, <2>3
<1>13. given' = [given EXCEPT ![c] = [ptr |-> p, bytes |-> bytes]]
  BY <1>3, <1>4
<1> QED
  BY <1>2, <1>3, <1>4, <1>5, <1>12, <1>13

(* The list is a list again with a node at its end.                        *)
LEMMA AllocateKeeps ==
  ASSUME StackInv, NEW c \in Users, NEW bytes \in Sizes, NEW alignment \in Alignments,
         Stack!Allocate(c, bytes, alignment)
  PROVE  StackInv' /\ c \notin Stack!Holders /\ Stack!Holders' = Stack!Holders \cup {c}
         /\ \A d \in Stack!Holders : given'[d] = given[d]
<1>1. PICK p \in Nat :
        /\ top <= p /\ p + bytes + 2 <= Stack!Limit /\ top' = p + bytes + 2
        /\ given[c] = NoBlock /\ given' = [given EXCEPT ![c] = [ptr |-> p, bytes |-> bytes]]
        /\ buff' \in [Stack!Addresses -> StackCells]
        /\ \A a \in p .. p + bytes - 1 : buff'[a] = c
        /\ buff'[top' - 1] = top /\ buff'[top' - 2] = 0
        /\ buff'[top - 1] = buff[top - 1] /\ buff'[top - 2] = top'
        /\ \A a \in Stack!Addresses :
             a < top - 2 => buff'[a] = buff[a]
  BY AllocatedCells
<1>2. /\ Base \in Nat \ {0} /\ StackSize \in Nat /\ Stack!Limit = Base + StackSize
      /\ top \in Nat /\ Base + 2 <= top /\ top <= Stack!Limit /\ bytes \in Nat
      /\ Stack!Limit \in Nat /\ Stack!Root = Base + 2 /\ Stack!Root' = Base + 2
  BY StackConstants DEF StackInv, Stack!TypeOK, Stack!Root
<1>3. given \in [Users -> Stack!Block \cup {NoBlock}]
  BY DEF StackInv, Stack!TypeOK
<1>4. given'[c] = [ptr |-> p, bytes |-> bytes] /\ \A d \in Users : d # c => given'[d] = given[d]
  BY <1>1, <1>3
<1>5. given'[c] # NoBlock
  <2>1. NoBlock \notin [ptr : Nat, bytes : {bytes}]
    BY PartsAssumption DEF Stack!StackAssumption
  <2> QED
    BY <1>4, <2>1
<1>6. c \notin Stack!Holders /\ Stack!Holders' = Stack!Holders \cup {c}
  BY <1>1, <1>4, <1>5 DEF Stack!Holders
<1>7. \A d \in Stack!Holders : given'[d] = given[d] /\ d \in Users /\ d # c
  BY <1>4, <1>6 DEF Stack!Holders
<1>8. /\ Stack!NodeOf(c)' = top' /\ \A d \in Stack!Holders : Stack!NodeOf(d)' = Stack!NodeOf(d)
      /\ given'[c].ptr = p /\ given'[c].bytes = bytes
  <2>1. given'[c].ptr = p /\ given'[c].bytes = bytes
    BY <1>4
  <2>2. Stack!NodeOf(c)' = top'
    BY <1>1, <2>1, StackConstants DEF Stack!NodeOf
  <2> QED
    BY <1>7, <2>1, <2>2 DEF Stack!NodeOf
<1>9. Stack!Nodes' = Stack!Nodes \cup {top'}
  <2>1. Stack!Nodes' = {Base + 2} \cup {Stack!NodeOf(d)' : d \in Stack!Holders'}
    BY <1>2 DEF Stack!Nodes
  <2> QED
    BY <1>2, <1>6, <1>8, <2>1 DEF Stack!Nodes
<1>10. Stack!TypeOK'
  <2>1. p \in Stack!Addresses \cup {Stack!Limit}
    BY <1>1, <1>2, StackConstants
  <2>2. [ptr |-> p, bytes |-> bytes] \in Stack!Block
    BY <2>1 DEF Stack!Block
  <2>3. given' \in [Users -> Stack!Block \cup {NoBlock}]
    BY <1>1, <1>3, <2>2
  <2>4. top' \in Base + 2 .. Stack!Limit
    BY <1>1, <1>2
  <2> QED
    BY <1>1, <1>2, <2>3, <2>4 DEF Stack!TypeOK, StackCells
<1>11. BlocksApart'
  <2>1. \A d \in Stack!Holders : Base + 2 <= given[d].ptr /\ Stack!NodeOf(d) <= top
    BY <1>2 DEF StackInv, BlocksApart
  <2>2. \A d \in Stack!Holders : Stack!NodeOf(d) \in Nat
    BY BlockParts DEF StackInv
  <2>3. \A d \in Stack!Holders' : Base + 2 <= given'[d].ptr /\ Stack!NodeOf(d)' <= top'
    BY <1>1, <1>2, <1>6, <1>7, <1>8, <2>1, <2>2
  <2>4. ASSUME NEW d \in Stack!Holders', NEW e \in Stack!Holders', d # e
        PROVE  Stack!NodeOf(d)' <= given'[e].ptr \/ Stack!NodeOf(e)' <= given'[d].ptr
    <3>1. CASE d = c
      BY <1>1, <1>2, <1>6, <1>7, <1>8, <2>1, <2>2, <2>4, <3>1
    <3>2. CASE e = c
      BY <1>1, <1>2, <1>6, <1>7, <1>8, <2>1, <2>2, <2>4, <3>2
    <3>3. CASE d \in Stack!Holders /\ e \in Stack!Holders
      BY <1>7, <1>8, <2>4, <3>3 DEF StackInv, BlocksApart
    <3> QED
      BY <1>6, <3>1, <3>2, <3>3
  <2> QED
    BY <1>2, <2>3, <2>4 DEF BlocksApart
<1>12. BlocksKept'
  <2>1. ASSUME NEW d \in Stack!Holders, NEW a \in given[d].ptr .. given[d].ptr + given[d].bytes - 1
        PROVE  buff'[a] = d
    <3>1. /\ given[d].ptr \in Nat /\ given[d].bytes \in Nat /\ Base + 2 <= given[d].ptr
          /\ given[d].ptr + given[d].bytes + 2 <= top
      BY <1>2, BlockParts DEF StackInv, BlocksApart
    <3>2. a \in Nat /\ Base <= a /\ a < top - 2 /\ a <= Base + StackSize - 1
      BY <1>2, <3>1
    <3>3. buff[a] = d
      BY DEF StackInv, BlocksKept
    <3>4. a \in Stack!Addresses
      BY <1>2, <3>2, StackConstants
    <3> QED
      BY <1>1, <3>2, <3>3, <3>4
  <2> QED
    BY <1>1, <1>6, <1>7, <1>8, <2>1 DEF BlocksKept
<1>13. Stack!ListIsLiveBlocks'
  <2>1. Chained(buff, top, Stack!Nodes)
    BY ListIsChain DEF StackInv
  <2>2. \A n \in Stack!Nodes : n \in Nat /\ Base + 2 <= n
    BY NodesAreApart DEF StackInv
  <2>3. \A n, m \in Stack!Nodes : n # m => n + 2 <= m \/ m + 2 <= n
    BY NodesAreApart DEF StackInv
  <2>4. \A n \in Stack!Nodes : n - 1 \in Stack!Addresses /\ n - 2 \in Stack!Addresses
    BY NodesAreApart DEF StackInv
  <2>5. top' \in Nat /\ top + 2 <= top'
    BY <1>1, <1>2
  <2>6. \A n \in Stack!Nodes : n # top => n + 2 <= top
    BY <2>1, <2>2, <2>3 DEF Chained
  <2>7. ASSUME NEW n \in Stack!Nodes, n # top
        PROVE  buff'[n - 1] = buff[n - 1] /\ buff'[n - 2] = buff[n - 2]
    <3>1. n - 1 < top - 2 /\ n - 2 < top - 2
      BY <1>2, <2>2, <2>6, <2>7
    <3> QED
      BY <1>1, <2>4, <3>1
  <2>8. Chained(buff', top', Stack!Nodes \cup {top'})
    BY <1>1, <1>2, <2>1, <2>2, <2>5, <2>7, ChainGrows
  <2> QED
    BY <1>2, <1>9, <2>8, ListIsChain
<1> QED
  BY <1>6, <1>7, <1>10, <1>11, <1>12, <1>13 DEF StackInv

(* The list is a list again without the node of the block, and the top     *)
(* falls when that was the last one.                                       *)
LEMMA DeallocateKeeps ==
  ASSUME StackInv, NEW c \in Users, Stack!Deallocate(c)
  PROVE  StackInv' /\ c \in Stack!Holders /\ Stack!Holders' = Stack!Holders \ {c}
         /\ \A d \in Stack!Holders \ {c} : given'[d] = given[d]
<1> DEFINE n == Stack!NodeOf(c)
           q == buff[n - 1]
           r == buff[n - 2]
<1>1. /\ Base \in Nat \ {0} /\ StackSize \in Nat /\ Stack!Limit = Base + StackSize
      /\ top \in Nat /\ Base + 2 <= top /\ top <= Stack!Limit
      /\ Stack!Root = Base + 2 /\ Stack!Root' = Base + 2
      /\ Stack!Addresses = Base .. Base + StackSize - 1
  BY StackConstants DEF StackInv, Stack!TypeOK, Stack!Root
<1>2. given \in [Users -> Stack!Block \cup {NoBlock}] /\ buff \in [Stack!Addresses -> StackCells]
  BY DEF StackInv, Stack!TypeOK, StackCells
<1>3. given[c] # NoBlock /\ given' = [given EXCEPT ![c] = NoBlock]
  BY DEF Stack!Deallocate
<1>4. c \in Stack!Holders /\ Stack!Holders' = Stack!Holders \ {c}
  BY <1>2, <1>3 DEF Stack!Holders
<1>5. \A d \in Stack!Holders \ {c} : given'[d] = given[d]
  BY <1>2, <1>3 DEF Stack!Holders
<1>6. \A d \in Stack!Holders' : given'[d] = given[d] /\ Stack!NodeOf(d)' = Stack!NodeOf(d) /\ d \in Stack!Holders /\ d # c
  BY <1>4, <1>5 DEF Stack!NodeOf
<1>7. /\ \A m \in Stack!Nodes : m \in Nat /\ Base + 2 <= m
                                /\ m - 1 \in Stack!Addresses /\ m - 2 \in Stack!Addresses
      /\ \A m, o \in Stack!Nodes : m # o => m + 2 <= o \/ o + 2 <= m
      /\ \A d \in Stack!Holders : \A m \in Stack!Nodes :
           m <= given[d].ptr \/ given[d].ptr + given[d].bytes <= m - 2
  BY NodesAreApart DEF StackInv
<1>8. n \in Stack!Nodes /\ n # Base + 2 /\ \A d \in Stack!Holders \ {c} : Stack!NodeOf(d) # n
  <2>1. /\ given[c].ptr \in Nat /\ given[c].bytes \in Nat /\ n = given[c].ptr + given[c].bytes + 2
        /\ Base + 2 <= given[c].ptr
    BY <1>1, <1>4, BlockParts DEF StackInv, BlocksApart
  <2>2. ASSUME NEW d \in Stack!Holders, d # c
        PROVE  Stack!NodeOf(d) # n
    <3>1. n <= given[d].ptr \/ Stack!NodeOf(d) <= given[c].ptr
      BY <1>4, <2>2 DEF StackInv, BlocksApart
    <3>2. given[d].ptr \in Nat /\ given[d].bytes \in Nat /\ Stack!NodeOf(d) = given[d].ptr + given[d].bytes + 2
      BY BlockParts DEF StackInv
    <3> QED
      BY <2>1, <3>1, <3>2
  <2>3. n \in Stack!Nodes
    BY <1>4 DEF Stack!Nodes
  <2> QED
    BY <1>1, <2>1, <2>2, <2>3
<1>9. Stack!Nodes' = Stack!Nodes \ {n}
  <2>1. Stack!Nodes' = {Base + 2} \cup {Stack!NodeOf(d)' : d \in Stack!Holders'}
    BY <1>1 DEF Stack!Nodes
  <2>2. Stack!Nodes' = {Base + 2} \cup {Stack!NodeOf(d) : d \in Stack!Holders \ {c}}
    BY <1>4, <1>6, <2>1
  <2>3. Stack!Nodes = {Base + 2} \cup {Stack!NodeOf(d) : d \in Stack!Holders}
    BY <1>1 DEF Stack!Nodes
  <2> QED
    BY <1>8, <2>2, <2>3
<1>10. Chained(buff, top, Stack!Nodes)
  BY ListIsChain DEF StackInv
<1> HIDE DEF n
<1>11. /\ q \in Stack!Nodes /\ q < n
       /\ IF n = top THEN r = 0 ELSE r \in Stack!Nodes /\ n < r /\ r # 0
  <2>1. Follows(Stack!Nodes, q, n) /\ IF n = top THEN r = 0 ELSE Follows(Stack!Nodes, n, r)
    BY <1>8, <1>10 DEF Chained
  <2>2. q \in Stack!Nodes /\ q < n
    BY <2>1 DEF Follows
  <2>3. n # top => r \in Stack!Nodes /\ n < r
    BY <2>1 DEF Follows
  <2>4. \A m \in Stack!Nodes : m # 0
    BY <1>1, <1>7
  <2> QED
    BY <2>1, <2>2, <2>3, <2>4
<1> DEFINE below == [buff EXCEPT ![q - 1] = buff[q - 1], ![q - 2] = r]
<1>12. IF r = 0 THEN buff' = below /\ top' = q
       ELSE buff' = [below EXCEPT ![r - 1] = q, ![r - 2] = buff[r - 2]] /\ top' = top
  BY StackConstants DEF Stack!Deallocate, Stack!GetNode, Stack!SetNode, n
<1> HIDE DEF q, r
<1>13. /\ q - 1 \in Stack!Addresses /\ q - 2 \in Stack!Addresses /\ q \in StackCells /\ r \in StackCells
       /\ r # 0 => r - 1 \in Stack!Addresses /\ r - 2 \in Stack!Addresses
  <2>1. n - 1 \in Stack!Addresses /\ n - 2 \in Stack!Addresses
    BY <1>7, <1>8
  <2> QED
    BY <1>2, <1>7, <1>11, <2>1 DEF q, r
<1>14. /\ below \in [Stack!Addresses -> StackCells]
       /\ \A a \in Stack!Addresses : below[a] = IF a = q - 2 THEN r ELSE buff[a]
  BY <1>2, <1>7, <1>11, <1>13
<1> HIDE DEF below
<1>15. /\ buff' \in [Stack!Addresses -> StackCells]
       /\ \A a \in Stack!Addresses :
            buff'[a] = IF a = q - 2 THEN r ELSE IF r # 0 /\ a = r - 1 THEN q ELSE buff[a]
  <2>1. CASE r = 0
    BY <1>12, <1>14, <2>1
  <2>2. CASE r # 0
    <3>1. buff' = [below EXCEPT ![r - 1] = q, ![r - 2] = buff[r - 2]]
      BY <1>12, <2>2
    <3>2. buff[r - 2] \in StackCells
      BY <1>2, <1>13, <2>2
    <3>3. buff' \in [Stack!Addresses -> StackCells]
      BY <1>13, <1>14, <3>1, <3>2
    <3>4. q \in Nat /\ r \in Nat /\ q + 4 <= r
      BY <1>7, <1>8, <1>11, <2>2
    <3>5. \A a \in Stack!Addresses : a \in Nat
      BY <1>1
    <3>6. \A a \in Stack!Addresses :
            buff'[a] = IF a = r - 2 THEN buff[r - 2] ELSE IF a = r - 1 THEN q ELSE below[a]
      BY <1>14, <3>1, <3>4, <3>5
    <3> QED
      BY <1>14, <2>2, <3>3, <3>4, <3>5, <3>6
  <2> QED
    BY <2>1, <2>2
<1>16. top' = (IF n = top THEN q ELSE top) /\ top' \in Base + 2 .. Stack!Limit
  BY <1>1, <1>7, <1>10, <1>11, <1>12 DEF Chained
<1>17. Chained(buff', top', Stack!Nodes \ {n})
  <2>1. ASSUME NEW m \in Stack!Nodes \ {n}
        PROVE  /\ buff'[m - 1] = IF m = r THEN q ELSE buff[m - 1]
               /\ buff'[m - 2] = IF m = q THEN r ELSE buff[m - 2]
    <3>1. m \in Nat /\ m - 1 \in Stack!Addresses /\ m - 2 \in Stack!Addresses /\ q \in Nat
      BY <1>7, <1>11
    <3>2. m - 1 # q - 2 /\ (m - 2 = q - 2 <=> m = q)
      BY <1>7, <1>11, <3>1
    <3>3. ASSUME r # 0
          PROVE  r \in Nat /\ m - 2 # r - 1 /\ (m - 1 = r - 1 <=> m = r)
      <4>1. r \in Stack!Nodes /\ r \in Nat
        BY <1>7, <1>11, <3>3
      <4>2. m = r \/ m + 2 <= r \/ r + 2 <= m
        BY <1>7, <4>1
      <4> QED
        BY <3>1, <4>1, <4>2
    <3>4. r = 0 => m # r
      BY <1>1, <1>7
    <3> QED
      BY <1>15, <3>1, <3>2, <3>3, <3>4
  <2> QED
    BY <1>1, <1>7, <1>8, <1>10, <1>16, <2>1, ChainShrinks DEF q, r
<1>18. Stack!ListIsLiveBlocks'
  BY <1>9, <1>17, ListIsChain
<1>19. Stack!TypeOK'
  <2>1. given' \in [Users -> Stack!Block \cup {NoBlock}]
    BY <1>2, <1>3
  <2> QED
    BY <1>1, <1>15, <1>16, <2>1 DEF Stack!TypeOK, StackCells
<1>20. BlocksApart'
  <2>1. ASSUME NEW d \in Stack!Holders'
        PROVE  Base + 2 <= given'[d].ptr /\ Stack!NodeOf(d)' <= top'
    <3>1. Base + 2 <= given[d].ptr
      BY <1>1, <1>6 DEF StackInv, BlocksApart
    <3>2. Stack!NodeOf(d) \in Stack!Nodes \ {n}
      BY <1>6, <1>8 DEF Stack!Nodes
    <3>3. Stack!NodeOf(d) <= top'
      BY <1>17, <3>2 DEF Chained
    <3> QED
      BY <1>6, <3>1, <3>3
  <2>2. ASSUME NEW d \in Stack!Holders', NEW e \in Stack!Holders', d # e
        PROVE  Stack!NodeOf(d)' <= given'[e].ptr \/ Stack!NodeOf(e)' <= given'[d].ptr
    BY <1>6, <2>2 DEF StackInv, BlocksApart
  <2> QED
    BY <1>1, <2>1, <2>2 DEF BlocksApart
<1>21. BlocksKept'
  <2>1. ASSUME NEW d \in Stack!Holders', NEW a \in given[d].ptr .. given[d].ptr + given[d].bytes - 1
        PROVE  buff'[a] = d
    <3>1. given[d].ptr \in Nat /\ given[d].bytes \in Nat /\ d \in Stack!Holders
      BY <1>6, BlockParts DEF StackInv
    <3>2. buff[a] = d
      BY <3>1 DEF StackInv, BlocksKept
    <3>3. /\ Base + 2 <= given[d].ptr /\ given[d].ptr + given[d].bytes + 2 <= top
      BY <1>1, <3>1, BlockParts DEF StackInv, BlocksApart
    <3>4. a \in Nat /\ Base <= a /\ a <= Base + StackSize - 1
      <4>1. a \in Nat /\ given[d].ptr <= a /\ a < given[d].ptr + given[d].bytes
        BY <3>1
      <4>2. top <= Base + StackSize /\ top \in Nat /\ Base \in Nat /\ StackSize \in Nat
        BY <1>1
      <4> QED
        BY <3>1, <3>3, <4>1, <4>2
    <3>5. q \in Nat /\ a # q - 2
      BY <1>7, <1>11, <3>1, <3>4
    <3>6. r # 0 => r \in Nat /\ a # r - 1
      BY <1>7, <1>11, <3>1, <3>4
    <3>7. a \in Stack!Addresses
      BY <1>1, <3>4
    <3> QED
      BY <1>15, <3>2, <3>5, <3>6, <3>7
  <2> QED
    BY <1>6, <2>1 DEF BlocksKept
<1> QED
  BY <1>4, <1>5, <1>18, <1>19, <1>20, <1>21 DEF StackInv

LEMMA StackKeeps ==
  ASSUME StackInv, [Stack!Next]_stackVars
  PROVE  StackInv'
<1>1. ASSUME NEW c \in Users, NEW bytes \in Sizes, NEW alignment \in Alignments,
             Stack!Allocate(c, bytes, alignment)
      PROVE  StackInv'
  BY <1>1, AllocateKeeps
<1>2. ASSUME NEW c \in Users, Stack!Deallocate(c)
      PROVE  StackInv'
  BY <1>2, DeallocateKeeps
<1>3. CASE UNCHANGED stackVars
  <2>1. given' = given /\ buff' = buff /\ top' = top
    BY <1>3 DEF stackVars
  <2>2. Stack!Holders' = Stack!Holders /\ \A c : Stack!NodeOf(c)' = Stack!NodeOf(c)
    BY <2>1 DEF Stack!Holders, Stack!NodeOf
  <2>3. Stack!Nodes' = Stack!Nodes
    BY <2>2 DEF Stack!Nodes, Stack!Root
  <2>4. Stack!ListIsLiveBlocks'
    BY <2>1, <2>3, ListIsChain DEF StackInv
  <2>5. Stack!TypeOK'
    BY <2>1 DEF StackInv, Stack!TypeOK
  <2>6. BlocksApart' /\ BlocksKept'
    BY <2>1, <2>2 DEF StackInv, BlocksApart, BlocksKept, Stack!Root
  <2> QED
    BY <2>4, <2>5, <2>6 DEF StackInv
<1> QED
  BY <1>1, <1>2, <1>3 DEF Stack!Next

(* What the resource says of itself is true in every state of the          *)
(* invariant.                                                              *)
LEMMA StackAccounts ==
  ASSUME StackInv
  PROVE  Stack!BlocksAreAccounted
<1>1. /\ Base \in Nat \ {0} /\ StackSize \in Nat /\ Stack!Limit = Base + StackSize
      /\ top \in Nat /\ Base + 2 <= top /\ top <= Stack!Limit /\ Stack!NodeSize = 2
      /\ Sizes \subseteq Nat /\ Alignments \subseteq Nat \ {0}
  BY StackConstants DEF StackInv, Stack!TypeOK
<1>2. Stack!FreeSpace \in Nat
  BY <1>1 DEF Stack!FreeSpace
<1>3. Stack!FullIsHonest
  <2>1. ASSUME NEW bytes \in Sizes \ {0}, NEW alignment \in Alignments, Stack!IsFull
        PROVE  ~Stack!Fits(bytes, Stack!AlignAddr(top, alignment) - top)
    <3> DEFINE padding == Stack!AlignAddr(top, alignment) - top
    <3>1. padding \in Nat
      BY <1>1, StackAlignsUp
    <3>2. bytes \in Nat /\ bytes # 0
      BY <1>1
    <3>3. Stack!FreeSpace <= 2
      BY <1>1, <2>1 DEF Stack!IsFull
    <3> HIDE DEF padding
    <3>4. ~Stack!Fits(bytes, padding)
      BY <1>1, <1>2, <3>1, <3>2, <3>3 DEF Stack!Fits
    <3> QED
      BY <3>4 DEF padding
  <2>2. ASSUME ~Stack!IsFull
        PROVE  Stack!Fits(1, 0)
    BY <1>1, <1>2, <2>2 DEF Stack!Fits, Stack!IsFull
  <2> QED
    BY <2>1, <2>2 DEF Stack!FullIsHonest
<1>4. Stack!AcceptsOwnBlocks
  <2>1. ASSUME NEW c \in Stack!Holders
        PROVE  Stack!Accepts(given[c].ptr, given[c].bytes)
    <3>1. /\ given[c].ptr \in Nat /\ given[c].bytes \in Nat /\ Base + 2 <= given[c].ptr
          /\ given[c].ptr + given[c].bytes + 2 <= top
      BY <1>1, StackConstants, BlockParts DEF StackInv, BlocksApart
    <3> QED
      BY <1>1, <3>1 DEF Stack!Accepts
  <2>2. ASSUME NEW bytes \in Sizes, NEW distance \in 0 .. StackSize
        PROVE  /\ ~Stack!Accepts(Stack!Limit + distance, bytes)
               /\ distance \in 1 .. Base => ~Stack!Accepts(Base - distance, bytes)
    <3>1. bytes \in Nat /\ distance \in Nat
      BY <1>1
    <3> QED
      BY <1>1, <3>1 DEF Stack!Accepts
  <2> QED
    BY <2>1, <2>2 DEF Stack!AcceptsOwnBlocks
<1> QED
  BY <1>3, <1>4 DEF StackInv, Stack!BlocksAreAccounted

(* Every step of the instance is one of stack_resource or leaves it alone. *)
LEMMA StackAlone ==
  ASSUME [MCNext]_allVars
  PROVE  [Stack!Next]_stackVars
<1>1. CASE StackStep
  BY <1>1 DEF StackStep
<1>2. CASE RoundRobinStep \/ RecursiveStep \/ VectorStep \/ FunctionStep \/ NumbersStep
  BY <1>2 DEF RoundRobinStep, RecursiveStep, RecursiveRest, VectorStep, FunctionStep, NumbersStep,
              roundRobinRest, stackVars
<1>3. CASE UNCHANGED allVars
  BY <1>3 DEF allVars, roundRobinRest, stackVars
<1> QED
  BY <1>1, <1>2, <1>3 DEF MCNext

(* stack_resource accounts for its blocks: the nodes in the buffer are a   *)
(* doubly linked list of the live blocks, is_full() tells what can be had, *)
(* and every block is taken back and nothing outside of the buffer.        *)
THEOREM StackAccounted == MCSpec => []BlocksAreAccounted
<1>1. MCInit => StackInv
  BY StackInit DEF MCInit
<1>2. StackInv /\ [MCNext]_allVars => StackInv'
  BY StackAlone, StackKeeps
<1>3. StackInv => BlocksAreAccounted
  BY StackAccounts DEF BlocksAreAccounted
<1> QED
  BY <1>1, <1>2, <1>3, PTL DEF MCSpec

(* A block is full of the name of its client, before and after a step.     *)
LEMMA BlocksAreNamed ==
  /\ StackInv => \A c \in Users :
       Stack!blockOf[c] = IF given[c] = NoBlock THEN NoBlock ELSE [i \in 1 .. given[c].bytes |-> c]
  /\ StackInv' => \A c \in Users :
       Stack!blockOf'[c] = IF given'[c] = NoBlock THEN NoBlock ELSE [i \in 1 .. given'[c].bytes |-> c]
<1>1. ASSUME NEW held, NEW ptr \in Nat, NEW bytes \in Nat, NEW cells, NEW c,
             \A a \in ptr .. ptr + bytes - 1 : cells[a] = c
      PROVE  [i \in 1 .. bytes |-> cells[ptr + i - 1]] = [i \in 1 .. bytes |-> c]
  <2>1. ASSUME NEW i \in 1 .. bytes
        PROVE  cells[ptr + i - 1] = c
    <3>1. ptr + i - 1 \in ptr .. ptr + bytes - 1
      OBVIOUS
    <3> QED
      BY <1>1, <3>1
  <2> QED
    BY <2>1
<1>2. ASSUME StackInv, NEW c \in Users, given[c] # NoBlock
      PROVE  [i \in 1 .. given[c].bytes |-> buff[given[c].ptr + i - 1]] = [i \in 1 .. given[c].bytes |-> c]
  <2>1. c \in Stack!Holders
    BY <1>2 DEF Stack!Holders
  <2> QED
    BY <1>1, <1>2, <2>1, BlockParts DEF StackInv, BlocksKept
<1>3. StackInv => \A c \in Users :
       Stack!blockOf[c] = IF given[c] = NoBlock THEN NoBlock ELSE [i \in 1 .. given[c].bytes |-> c]
  BY <1>2 DEF Stack!blockOf
<1>4. ASSUME StackInv', NEW c \in Users, given'[c] # NoBlock
      PROVE  [i \in 1 .. given'[c].bytes |-> buff'[given'[c].ptr + i - 1]] = [i \in 1 .. given'[c].bytes |-> c]
  <2>1. c \in Stack!Holders'
    BY <1>4 DEF Stack!Holders
  <2>2. given'[c].ptr \in Nat /\ given'[c].bytes \in Nat
    <3>1. given'[c] \in Stack!Block'
      BY <1>4 DEF StackInv, Stack!TypeOK
    <3>2. Stack!Block' = Stack!Block
      BY DEF Stack!Block, Stack!Addresses, Stack!Limit
    <3>3. given'[c].ptr \in Stack!Addresses \cup {Stack!Limit} /\ given'[c].bytes \in Sizes
      BY <3>1, <3>2 DEF Stack!Block
    <3>4. given'[c].bytes \in Nat
      BY <3>3, StackConstants
    <3>5. given'[c].ptr \in Nat
      <4>1. given'[c].ptr \in Stack!Addresses => given'[c].ptr \in Nat
        BY StackConstants
      <4>2. Stack!Limit \in Nat
        BY StackConstants
      <4> QED
        BY <3>3, <4>1, <4>2
    <3> QED
      BY <3>4, <3>5
  <2>3. \A a \in given'[c].ptr .. given'[c].ptr + given'[c].bytes - 1 : buff'[a] = c
    BY <1>4, <2>1 DEF StackInv, BlocksKept
  <2> QED
    BY <1>1, <2>2, <2>3
<1>5. StackInv' => \A c \in Users :
       Stack!blockOf'[c] = IF given'[c] = NoBlock THEN NoBlock ELSE [i \in 1 .. given'[c].bytes |-> c]
  BY <1>4 DEF Stack!blockOf
<1> QED
  BY <1>3, <1>5

LEMMA StackRefines ==
  ASSUME StackInv, StackInv', [Stack!Next]_stackVars
  PROVE  [Stack!Private!Next]_Stack!blockOf
<1>1. \A c \in Users :
        Stack!blockOf[c] = IF given[c] = NoBlock THEN NoBlock ELSE [i \in 1 .. given[c].bytes |-> c]
  BY BlocksAreNamed
<1>2. \A c \in Users :
        Stack!blockOf'[c] = IF given'[c] = NoBlock THEN NoBlock ELSE [i \in 1 .. given'[c].bytes |-> c]
  BY BlocksAreNamed
<1>3. ASSUME NEW n \in Sizes, NEW c \in Users
      PROVE  [i \in 1 .. n |-> c] # NoBlock
  BY PartsAssumption DEF Stack!StackAssumption
<1>4. given \in [Users -> Stack!Block \cup {NoBlock}]
  BY DEF StackInv, Stack!TypeOK
<1>5. ASSUME NEW c \in Users, NEW bytes \in Sizes, NEW alignment \in Alignments,
             Stack!Allocate(c, bytes, alignment)
      PROVE  Stack!Private!Allocate(c)
  <2>1. PICK p \in Nat : given[c] = NoBlock /\ given' = [given EXCEPT ![c] = [ptr |-> p, bytes |-> bytes]]
    BY <1>5, AllocatedCells
  <2>2. given'[c] = [ptr |-> p, bytes |-> bytes] /\ \A d \in Users \ {c} : given'[d] = given[d]
    BY <1>4, <2>1
  <2>3. NoBlock \notin [ptr : Nat, bytes : {bytes}]
    BY PartsAssumption DEF Stack!StackAssumption
  <2>4. given'[c] # NoBlock /\ given'[c].bytes = bytes
    BY <2>2, <2>3
  <2>5. Stack!blockOf[c] = NoBlock /\ Stack!blockOf'[c] = [i \in 1 .. bytes |-> c]
    BY <1>1, <1>2, <2>1, <2>4
  <2>6. ASSUME NEW d \in Users \ {c}
        PROVE  Stack!blockOf'[d] = Stack!blockOf[d]
    <3>1. given'[d] = given[d]
      BY <2>2
    <3> QED
      BY <1>1, <1>2, <3>1
  <2> QED
    BY <1>3, <2>5, <2>6 DEF Stack!Private!Allocate, Stack!Private!OthersKeep
<1>6. ASSUME NEW c \in Users, Stack!Deallocate(c)
      PROVE  Stack!Private!Deallocate(c)
  <2>1. given[c] # NoBlock /\ given' = [given EXCEPT ![c] = NoBlock]
    BY <1>6 DEF Stack!Deallocate
  <2>2. given'[c] = NoBlock /\ \A d \in Users \ {c} : given'[d] = given[d]
    BY <1>4, <2>1
  <2>3. given[c].bytes \in Sizes
    BY <2>1, BlockParts DEF StackInv, Stack!Holders
  <2>4. Stack!blockOf[c] # NoBlock /\ Stack!blockOf'[c] = NoBlock
    <3>1. Stack!blockOf[c] = [i \in 1 .. given[c].bytes |-> c]
      BY <1>1, <2>1
    <3>2. Stack!blockOf'[c] = NoBlock
      BY <1>2, <2>2
    <3> QED
      BY <1>3, <2>3, <3>1, <3>2
  <2>5. ASSUME NEW d \in Users \ {c}
        PROVE  Stack!blockOf'[d] = Stack!blockOf[d]
    <3>1. given'[d] = given[d]
      BY <2>2
    <3> QED
      BY <1>1, <1>2, <3>1
  <2> QED
    BY <2>4, <2>5 DEF Stack!Private!Deallocate, Stack!Private!OthersKeep
<1>7. CASE UNCHANGED stackVars
  BY <1>7 DEF stackVars, Stack!blockOf
<1> QED
  BY <1>5, <1>6, <1>7 DEF Stack!Next, Stack!Private!Next

(* stack_resource gives every client memory of its own: it implements      *)
(* PrivateMemory, where a block keeps what its client wrote whatever the   *)
(* others allocate, write and return.                                      *)
THEOREM StackIsPrivate == MCSpec => BlocksArePrivate
<1>1. MCInit => StackInv
  BY StackInit DEF MCInit
<1>2. StackInv /\ [MCNext]_allVars => StackInv'
  BY StackAlone, StackKeeps
<1>3. MCInit => Stack!Private!Init
  BY DEF MCInit, Stack!Init, Stack!blockOf, Stack!Private!Init
<1>4. StackInv /\ StackInv' /\ [MCNext]_allVars => [Stack!Private!Next]_Stack!blockOf
  BY StackAlone, StackRefines
<1> QED
  BY <1>1, <1>2, <1>3, <1>4, PTL DEF MCSpec, BlocksArePrivate, Stack!BlocksArePrivate, Stack!Private!Spec

-----------------------------------------------------------------------------
(* static_vector.                                                          *)

VectorInv ==
  /\ slots \in [Objects -> [Vector!Slots -> Vector!Items \cup {Raw}]]
  /\ sizes \in [Objects -> 0 .. VectorSize]
  /\ taken \in UNION {[1 .. n -> Vector!Items] : n \in 0 .. 1}
  /\ Vector!SizeCountsItems

(* What is known of a vector that no step has misused.                     *)
Fine == FALSE

(* A vector whose items are the ones below its size.                       *)
Sound(v) ==
  /\ v = [slots |-> v.slots, size |-> v.size, bad |-> Fine]
  /\ v.size \in 0 .. VectorSize
  /\ v.slots \in [Vector!Slots -> Values \cup {Raw}]
  /\ \A i \in Vector!Slots : IF i < v.size THEN v.slots[i] \in Values ELSE v.slots[i] = Raw

LEMMA VectorConstants ==
  /\ VectorSize \in Nat \ {0} /\ Values \subseteq Nat /\ Raw \notin Values /\ Raw # Moved
  /\ Vector!Slots = 0 .. VectorSize - 1 /\ Vector!Items = Values \cup {Moved}
<1>1. Vector!VectorAssumption
  BY PartsAssumption
<1> QED
  BY <1>1 DEF Vector!VectorAssumption, Vector!Slots, Vector!Items

LEMMA VectorsAreSound ==
  ASSUME VectorInv, NEW b \in Objects
  PROVE  /\ Sound(Vector!Vector(b)) /\ misused = FALSE
         /\ Vector!Vector(b).slots = slots[b] /\ Vector!Vector(b).size = sizes[b]
<1>1. sizes[b] \in 0 .. VectorSize
  BY DEF VectorInv
<1>2. slots[b] \in [Vector!Slots -> Vector!Items \cup {Raw}]
  BY DEF VectorInv
<1>3. \A i \in Vector!Slots : IF i < sizes[b] THEN slots[b][i] \in Values ELSE slots[b][i] = Raw
  BY DEF VectorInv, Vector!SizeCountsItems
<1>4. slots[b] \in [Vector!Slots -> Values \cup {Raw}]
  BY <1>2, <1>3
<1>5. misused = FALSE
  BY DEF VectorInv, Vector!SizeCountsItems
<1> QED
  BY <1>1, <1>3, <1>4, <1>5 DEF Sound, Vector!Vector, Fine

(* The contents of a sound vector are a sequence that fits.                *)
LEMMA ContentsFit ==
  ASSUME NEW v, Sound(v)
  PROVE  /\ Vector!Contents(v) \in [1 .. v.size -> Values]
         /\ Vector!Contents(v) \in Seq(Values) /\ Len(Vector!Contents(v)) = v.size
         /\ DOMAIN Vector!Contents(v) = 1 .. v.size
         /\ \A i \in 1 .. v.size : Vector!Contents(v)[i] = v.slots[i - 1]
<1>1. v.size \in Nat /\ v.size <= VectorSize
  BY VectorConstants DEF Sound
<1>2. \A i \in 1 .. v.size : v.slots[i - 1] \in Values
  <2> TAKE i \in 1 .. v.size
  <2>1. i - 1 \in Vector!Slots /\ i - 1 < v.size
    BY <1>1, VectorConstants
  <2> QED
    BY <2>1 DEF Sound
<1>3. Vector!Contents(v) \in [1 .. v.size -> Values]
  BY <1>2 DEF Vector!Contents
<1>4. Vector!Contents(v) \in Seq(Values)
  BY <1>1, <1>3, SeqDef
<1>5. Len(Vector!Contents(v)) = v.size
  BY <1>1, <1>3, <1>4, LenProperties
<1> QED
  BY <1>3, <1>4, <1>5 DEF Vector!Contents

(* A vector with an item, perhaps a moved one, in each slot below its size.*)
Kept(v) ==
  /\ v = [slots |-> v.slots, size |-> v.size, bad |-> Fine]
  /\ v.size \in 0 .. VectorSize
  /\ v.slots = [i \in Vector!Slots |-> v.slots[i]]
  /\ \A i \in Vector!Slots : v.slots[i] = Raw <=> i >= v.size

LEMMA SoundIsKept ==
  ASSUME NEW v, Sound(v)
  PROVE  Kept(v)
<1>1. v.slots = [i \in Vector!Slots |-> v.slots[i]]
  BY DEF Sound
<1>2. \A i \in Vector!Slots : v.slots[i] = Raw <=> i >= v.size
  <2> TAKE i \in Vector!Slots
  <2>1. i \in Nat /\ v.size \in Nat
    BY VectorConstants DEF Sound
  <2>2. IF i < v.size THEN v.slots[i] \in Values ELSE v.slots[i] = Raw
    BY DEF Sound
  <2> QED
    BY <2>1, <2>2, VectorConstants
<1> QED
  BY <1>1, <1>2 DEF Sound, Kept

(* Vectors with another size or other slots.                               *)
LEMMA Updates ==
  ASSUME NEW v, NEW t, NEW n, NEW bad, v = [slots |-> t, size |-> n, bad |-> bad], NEW u, NEW m
  PROVE  /\ [v EXCEPT !.size = m] = [slots |-> t, size |-> m, bad |-> bad]
         /\ [v EXCEPT !.slots = u] = [slots |-> u, size |-> n, bad |-> bad]
  OBVIOUS

LEMMA Destroys ==
  ASSUME NEW v, Kept(v), NEW first \in 0 .. v.size
  PROVE  Vector!DestroyFrom(v, first) =
           [slots |-> [i \in Vector!Slots |-> IF i < first THEN v.slots[i] ELSE Raw],
            size |-> v.size, bad |-> Fine]
<1> DEFINE bad == v.bad \/ \E i \in first .. v.size - 1 : v.slots[i] = Raw
           destroyed == [i \in Vector!Slots |-> IF i \in first .. v.size - 1 THEN Raw ELSE v.slots[i]]
<1>1. v.size \in Nat /\ v.size <= VectorSize /\ v.bad = Fine /\ first \in Nat /\ first <= v.size
  BY VectorConstants DEF Kept
<1>2. \A i \in first .. v.size - 1 : v.slots[i] # Raw
  <2> TAKE i \in first .. v.size - 1
  <2>1. i \in Vector!Slots /\ ~(i >= v.size)
    BY <1>1, VectorConstants
  <2> QED
    BY <2>1 DEF Kept
<1>3. bad = Fine
  BY <1>1, <1>2 DEF Fine
<1>4. Vector!DestroyFrom(v, first) = [v EXCEPT !.slots = destroyed, !.bad = bad]
  BY DEF Vector!DestroyFrom
<1>5. v = [slots |-> v.slots, size |-> v.size, bad |-> v.bad]
  BY <1>1 DEF Kept
<1>6. destroyed = [i \in Vector!Slots |-> IF i < first THEN v.slots[i] ELSE Raw]
  <2>1. ASSUME NEW i \in Vector!Slots
        PROVE  (IF i \in first .. v.size - 1 THEN Raw ELSE v.slots[i])
               = (IF i < first THEN v.slots[i] ELSE Raw)
    <3>1. i \in Nat /\ (v.slots[i] = Raw <=> i >= v.size)
      BY VectorConstants DEF Kept
    <3> QED
      BY <1>1, <3>1
  <2> QED
    BY <2>1
<1> HIDE DEF bad, destroyed
<1>7. Vector!DestroyFrom(v, first) = [slots |-> destroyed, size |-> v.size, bad |-> bad]
  BY <1>4, <1>5
<1> QED
  BY <1>3, <1>6, <1>7

LEMMA MovesOut ==
  ASSUME NEW v, Kept(v), NEW first \in 0 .. v.size
  PROVE  /\ Kept(Vector!MovedOut(v, first)) /\ Vector!MovedOut(v, first).size = v.size
         /\ \A i \in Vector!Slots : i < first => Vector!MovedOut(v, first).slots[i] = v.slots[i]
<1> DEFINE moved == [i \in Vector!Slots |-> IF i \in first .. v.size - 1 THEN Moved ELSE v.slots[i]]
           m == [slots |-> moved, size |-> v.size, bad |-> Fine]
<1>1. v.size \in Nat /\ v.size \in 0 .. VectorSize /\ first \in Nat /\ first <= v.size
      /\ v = [slots |-> v.slots, size |-> v.size, bad |-> Fine]
  BY VectorConstants DEF Kept
<1>2. Vector!MovedOut(v, first) = [v EXCEPT !.slots = moved]
  BY DEF Vector!MovedOut
<1>3. \A i \in Vector!Slots : i \in Nat /\ (v.slots[i] = Raw <=> i >= v.size)
  BY VectorConstants DEF Kept
<1>4. \A i \in Vector!Slots : (moved[i] = Raw <=> i >= v.size) /\ (i < first => moved[i] = v.slots[i])
  BY <1>1, <1>3, VectorConstants
<1>5. moved = [i \in Vector!Slots |-> moved[i]]
  OBVIOUS
<1> HIDE DEF moved
<1>6. Vector!MovedOut(v, first) = m
  BY <1>1, <1>2, Updates
<1>7. Kept(m)
  BY <1>1, <1>4, <1>5 DEF Kept
<1> QED
  BY <1>4, <1>6, <1>7

LEMMA Purges ==
  ASSUME NEW v, Kept(v)
  PROVE  Vector!Purge(v) = Vector!Empty
<1>1. v.size \in Nat
  BY VectorConstants DEF Kept
<1>2. Vector!DestroyFrom(v, 0) =
        [slots |-> [i \in Vector!Slots |-> IF i < 0 THEN v.slots[i] ELSE Raw], size |-> v.size, bad |-> Fine]
  BY <1>1, Destroys
<1>3. \A i \in Vector!Slots : ~(i < 0)
  BY VectorConstants
<1>4. Vector!Purge(v) = [slots |-> [i \in Vector!Slots |-> Raw], size |-> 0, bad |-> Fine]
  <2>1. Vector!Purge(v) = [Vector!DestroyFrom(v, 0) EXCEPT !.size = 0]
    BY DEF Vector!Purge
  <2>2. Vector!DestroyFrom(v, 0) = [slots |-> [i \in Vector!Slots |-> Raw], size |-> v.size, bad |-> Fine]
    BY <1>2, <1>3
  <2> QED
    BY <2>1, <2>2, Updates
<1> QED
  BY <1>4 DEF Vector!Empty, Fine

LEMMA EmptyIsSound ==
  Sound(Vector!Empty) /\ Vector!Contents(Vector!Empty) = <<>>
<1>1. Sound(Vector!Empty)
  BY VectorConstants DEF Vector!Empty, Sound, Fine
<1>2. Vector!Contents(Vector!Empty) = <<>>
  BY DEF Vector!Empty, Vector!Contents
<1> QED
  BY <1>1, <1>2

(* An empty vector is filled with a sequence that fits.                    *)
LEMMA Fills ==
  ASSUME NEW n \in 0 .. VectorSize, NEW s \in [1 .. n -> Values]
  PROVE  Sound(Vector!Filled(Vector!Empty, s)) /\ Vector!Contents(Vector!Filled(Vector!Empty, s)) = s
<1> DEFINE e == [Vector!Empty EXCEPT !.size = n]
           filled == [i \in Vector!Slots |-> IF i < n THEN s[i + 1] ELSE e.slots[i]]
           bad == e.bad \/ \E i \in 1 .. n : e.slots[i - 1] # Raw \/ s[i] = Raw
           f == [slots |-> filled, size |-> n, bad |-> Fine]
<1>1. n \in Nat /\ n <= VectorSize /\ Len(s) = n
  <2>1. n \in Nat /\ n <= VectorSize
    BY VectorConstants
  <2>2. s \in Seq(Values)
    BY <2>1, SeqDef
  <2> QED
    BY <2>1, <2>2, LenProperties
<1>2. e = [slots |-> [i \in Vector!Slots |-> Raw], size |-> n, bad |-> Fine]
  <2>1. Vector!Empty = [slots |-> [i \in Vector!Slots |-> Raw], size |-> 0, bad |-> Fine]
    BY DEF Vector!Empty, Fine
  <2> QED
    BY <2>1, Updates
<1>3. Vector!Filled(Vector!Empty, s) = [e EXCEPT !.slots = filled, !.bad = bad]
  BY <1>1 DEF Vector!Filled, Vector!Uninitialized
<1> HIDE DEF e
<1>4. bad = Fine
  <2>1. ASSUME NEW i \in 1 .. n
        PROVE  e.slots[i - 1] = Raw /\ s[i] # Raw
    <3>1. i - 1 \in Vector!Slots
      BY <1>1, VectorConstants
    <3> QED
      BY <1>2, <3>1, VectorConstants
  <2> QED
    BY <1>2, <2>1 DEF Fine
<1> HIDE DEF bad
<1>5. filled = [i \in Vector!Slots |-> IF i < n THEN s[i + 1] ELSE Raw]
  BY <1>2
<1> HIDE DEF filled
<1>6. Vector!Filled(Vector!Empty, s) = f
  BY <1>2, <1>3, <1>4
<1>7. \A i \in Vector!Slots : i < n => s[i + 1] \in Values
  BY <1>1, VectorConstants
<1>8. filled \in [Vector!Slots -> Values \cup {Raw}]
      /\ \A i \in Vector!Slots : IF i < n THEN filled[i] = s[i + 1] /\ filled[i] \in Values ELSE filled[i] = Raw
  BY <1>5, <1>7
<1>9. Sound(f)
  BY <1>8 DEF Sound
<1>10. Vector!Contents(f) = s
  <2>1. ASSUME NEW i \in 1 .. n
        PROVE  filled[i - 1] = s[i]
    <3>1. i - 1 \in Vector!Slots /\ i - 1 < n /\ (i - 1) + 1 = i
      BY <1>1, VectorConstants
    <3> QED
      BY <1>8, <3>1
  <2>2. Vector!Contents(f) = [i \in 1 .. n |-> filled[i - 1]]
    BY DEF Vector!Contents
  <2>3. s = [i \in 1 .. n |-> s[i]]
    OBVIOUS
  <2> QED
    BY <2>1, <2>2, <2>3
<1> QED
  BY <1>6, <1>9, <1>10

LEMMA Emplaces ==
  ASSUME NEW v, Sound(v), NEW x \in Values, v.size # VectorSize
  PROVE  /\ Sound(Vector!EmplaceBack(v, x))
         /\ Vector!Contents(Vector!EmplaceBack(v, x)) = Append(Vector!Contents(v), x)
<1> DEFINE placed == [v.slots EXCEPT ![v.size] = x]
           bad == v.bad \/ v.slots[v.size] # Raw \/ x = Raw
           w == [slots |-> placed, size |-> v.size + 1, bad |-> Fine]
<1>1. v.size \in Nat /\ v.size < VectorSize /\ v.size \in Vector!Slots /\ v.bad = Fine
      /\ v = [slots |-> v.slots, size |-> v.size, bad |-> v.bad]
      /\ v.slots \in [Vector!Slots -> Values \cup {Raw}]
  BY VectorConstants DEF Sound
<1>2. bad = Fine
  BY <1>1, VectorConstants DEF Sound, Fine
<1>3. Vector!EmplaceItem(v, v.size, x) = [v EXCEPT !.slots[v.size] = x, !.bad = bad]
  BY DEF Vector!EmplaceItem
<1> HIDE DEF bad
<1>4. Vector!EmplaceItem(v, v.size, x) = [slots |-> placed, size |-> v.size, bad |-> bad]
  BY <1>1, <1>3
<1> HIDE DEF placed
<1>5. Vector!EmplaceBack(v, x) = w
  BY <1>2, <1>4, Updates DEF Vector!EmplaceBack
<1>6. /\ placed \in [Vector!Slots -> Values \cup {Raw}]
      /\ placed[v.size] = x
      /\ \A i \in Vector!Slots : i # v.size => placed[i] = v.slots[i]
  BY <1>1 DEF placed
<1>7. Sound(w)
  <2>1. \A i \in Vector!Slots : IF i < v.size + 1 THEN placed[i] \in Values ELSE placed[i] = Raw
    <3> TAKE i \in Vector!Slots
    <3>1. i \in Nat /\ (IF i < v.size THEN v.slots[i] \in Values ELSE v.slots[i] = Raw)
      BY VectorConstants DEF Sound
    <3> QED
      BY <1>1, <1>6, <3>1
  <2>2. v.size + 1 \in 0 .. VectorSize
    BY <1>1, VectorConstants
  <2> QED
    BY <1>6, <2>1, <2>2 DEF Sound
<1>8. Vector!Contents(w) = Append(Vector!Contents(v), x)
  <2> DEFINE s == Vector!Contents(v)
  <2>1. s \in Seq(Values) /\ Len(s) = v.size /\ \A i \in 1 .. v.size : s[i] = v.slots[i - 1]
    BY ContentsFit
  <2> HIDE DEF s
  <2>2. Vector!Contents(w) = [i \in 1 .. v.size + 1 |-> placed[i - 1]]
    BY DEF Vector!Contents
  <2>3. /\ Append(s, x) \in Seq(Values) /\ Len(Append(s, x)) = v.size + 1
        /\ \A i \in 1 .. v.size : Append(s, x)[i] = s[i]
        /\ Append(s, x)[v.size + 1] = x
    BY <2>1, AppendProperties
  <2>4. Append(s, x) = [i \in 1 .. v.size + 1 |-> Append(s, x)[i]]
    BY <2>3, LenProperties
  <2>5. ASSUME NEW i \in 1 .. v.size + 1
        PROVE  placed[i - 1] = Append(s, x)[i]
    <3>1. CASE i = v.size + 1
      BY <1>1, <1>6, <2>3, <3>1
    <3>2. CASE i \in 1 .. v.size
      <4>1. i - 1 \in Vector!Slots /\ i - 1 # v.size
        BY <1>1, <3>2, VectorConstants
      <4> QED
        BY <1>6, <2>1, <2>3, <3>2, <4>1
    <3>3. i = v.size + 1 \/ i \in 1 .. v.size
      BY <1>1
    <3> QED
      BY <3>1, <3>2, <3>3
  <2> QED
    BY <2>2, <2>4, <2>5 DEF s
<1> QED
  BY <1>5, <1>7, <1>8

(* pop_back() of a vector whose last item may have been moved out of.      *)
LEMMA Pops ==
  ASSUME NEW v, Sound(v), v.size # 0, NEW t, t = [i \in Vector!Slots |-> t[i]],
         t[v.size - 1] # Raw, \A i \in Vector!Slots : i # v.size - 1 => t[i] = v.slots[i],
         NEW x, x = [slots |-> t, size |-> v.size, bad |-> Fine]
  PROVE  /\ Sound(Vector!PopBack(x))
         /\ Vector!Contents(Vector!PopBack(x)) = SubSeq(Vector!Contents(v), 1, Len(Vector!Contents(v)) - 1)
<1> DEFINE last == v.size - 1
           popped == [t EXCEPT ![last] = Raw]
           bad == x.bad \/ x.slots[last] = Raw
           w == [slots |-> popped, size |-> last, bad |-> Fine]
<1>1. v.size \in Nat /\ v.size <= VectorSize /\ last \in Nat /\ last \in Vector!Slots
      /\ v.slots \in [Vector!Slots -> Values \cup {Raw}] /\ last + 1 = v.size
  BY VectorConstants DEF Sound
<1>2. bad = Fine
  BY DEF Fine
<1>3. Vector!DeleteItem(x, last) = [x EXCEPT !.slots[last] = Raw, !.bad = bad]
  BY DEF Vector!DeleteItem
<1> HIDE DEF bad
<1>4. Vector!DeleteItem(x, last) = [slots |-> popped, size |-> v.size, bad |-> bad]
  BY <1>3
<1>5. Vector!PopBack(x) = [Vector!DeleteItem(x, last) EXCEPT !.size = @ - 1]
  BY DEF Vector!PopBack
<1>6. popped = [i \in Vector!Slots |-> IF i = last THEN Raw ELSE v.slots[i]]
  BY <1>1
<1> HIDE DEF popped
<1>7. Vector!PopBack(x) = w
  BY <1>2, <1>4, <1>5, Updates
<1>8. Sound(w)
  <2>1. \A i \in Vector!Slots : IF i < last THEN popped[i] \in Values ELSE popped[i] = Raw
    <3> TAKE i \in Vector!Slots
    <3>1. i \in Nat /\ (IF i < v.size THEN v.slots[i] \in Values ELSE v.slots[i] = Raw)
      BY VectorConstants DEF Sound
    <3> QED
      BY <1>1, <1>6, <3>1
  <2>2. last \in 0 .. VectorSize /\ popped \in [Vector!Slots -> Values \cup {Raw}]
    BY <1>1, <1>6, VectorConstants
  <2> QED
    BY <2>1, <2>2 DEF Sound
<1>9. Vector!Contents(w) = SubSeq(Vector!Contents(v), 1, Len(Vector!Contents(v)) - 1)
  <2> DEFINE s == Vector!Contents(v)
  <2>1. s \in Seq(Values) /\ Len(s) = v.size /\ \A i \in 1 .. v.size : s[i] = v.slots[i - 1]
    BY ContentsFit
  <2> HIDE DEF s
  <2>2. Vector!Contents(w) = [i \in 1 .. last |-> popped[i - 1]]
    BY DEF Vector!Contents
  <2>3. SubSeq(s, 1, Len(s) - 1) = [i \in 1 .. last |-> s[i]]
    BY <1>1, <2>1
  <2>4. ASSUME NEW i \in 1 .. last
        PROVE  popped[i - 1] = s[i]
    <3>1. i - 1 \in Vector!Slots /\ i - 1 # last /\ i \in 1 .. v.size
      BY <1>1, VectorConstants
    <3> QED
      BY <1>6, <2>1, <3>1
  <2> QED
    BY <2>2, <2>3, <2>4 DEF s
<1> QED
  BY <1>7, <1>8, <1>9

(* The longer vector becomes the shorter one.                              *)
LEMMA Drains ==
  ASSUME NEW v, Sound(v), NEW w, Sound(w), w.size <= v.size
  PROVE  [Vector!DestroyFrom(Vector!MovedOut(Vector!WithPrefix(v, w, w.size), w.size), w.size)
            EXCEPT !.size = w.size] = w
<1> DEFINE n == w.size
           prefixed == [i \in Vector!Slots |-> IF i < n THEN w.slots[i] ELSE v.slots[i]]
           x == [slots |-> prefixed, size |-> v.size, bad |-> Fine]
           y == Vector!MovedOut(x, n)
           kept == [i \in Vector!Slots |-> IF i < n THEN y.slots[i] ELSE Raw]
<1>1. /\ v.size \in Nat /\ v.size \in 0 .. VectorSize /\ n \in Nat /\ n \in 0 .. v.size
      /\ v = [slots |-> v.slots, size |-> v.size, bad |-> Fine]
      /\ w = [slots |-> w.slots, size |-> n, bad |-> Fine]
      /\ w.slots = [i \in Vector!Slots |-> w.slots[i]]
  BY VectorConstants DEF Sound
<1>2. \A i \in Vector!Slots : /\ i \in Nat
                              /\ v.slots[i] = Raw <=> i >= v.size
                              /\ w.slots[i] = Raw <=> i >= n
  <2>1. Kept(v) /\ Kept(w)
    BY SoundIsKept
  <2>2. \A i \in Vector!Slots : i \in Nat
    BY VectorConstants
  <2> QED
    BY <2>1, <2>2 DEF Kept
<1>3. Vector!WithPrefix(v, w, n) = x
  BY <1>1, Updates DEF Vector!WithPrefix
<1>4. prefixed = [i \in Vector!Slots |-> prefixed[i]]
      /\ \A i \in Vector!Slots : (prefixed[i] = Raw <=> i >= v.size) /\ (i < n => prefixed[i] = w.slots[i])
  BY <1>1, <1>2
<1> HIDE DEF prefixed
<1>5. Kept(x)
  BY <1>1, <1>4 DEF Kept
<1>6. /\ Kept(y) /\ y.size = v.size
      /\ \A i \in Vector!Slots : i < n => y.slots[i] = w.slots[i]
  BY <1>1, <1>4, <1>5, MovesOut
<1> HIDE DEF y
<1>7. Vector!DestroyFrom(y, n) = [slots |-> kept, size |-> v.size, bad |-> Fine]
  BY <1>1, <1>6, Destroys
<1>8. kept = w.slots
  <2>1. \A i \in Vector!Slots : kept[i] = w.slots[i]
    BY <1>1, <1>2, <1>6
  <2> QED
    BY <1>1, <2>1
<1> HIDE DEF kept
<1>9. [Vector!DestroyFrom(y, n) EXCEPT !.size = n] = [slots |-> w.slots, size |-> n, bad |-> Fine]
  BY <1>7, <1>8, Updates
<1> QED
  BY <1>1, <1>3, <1>9 DEF y

(* The shorter vector becomes the longer one.                              *)
LEMMA Grows ==
  ASSUME NEW v, Sound(v), NEW w, Sound(w), v.size <= w.size
  PROVE  Vector!EmplaceRest(Vector!WithPrefix(v, w, v.size), w) = w
<1> DEFINE n == v.size
           prefixed == [i \in Vector!Slots |-> IF i < n THEN w.slots[i] ELSE v.slots[i]]
           x == [slots |-> prefixed, size |-> n, bad |-> Fine]
           grown == [i \in Vector!Slots |-> IF i \in x.size .. w.size - 1 THEN w.slots[i] ELSE x.slots[i]]
           bad == x.bad \/ \E i \in x.size .. w.size - 1 : x.slots[i] # Raw \/ w.slots[i] = Raw
<1>1. /\ n \in Nat /\ w.size \in Nat /\ w.size <= VectorSize
      /\ v = [slots |-> v.slots, size |-> n, bad |-> Fine]
      /\ w = [slots |-> w.slots, size |-> w.size, bad |-> Fine]
      /\ w.slots = [i \in Vector!Slots |-> w.slots[i]]
  BY VectorConstants DEF Sound
<1>2. \A i \in Vector!Slots : /\ i \in Nat
                              /\ v.slots[i] = Raw <=> i >= n
                              /\ w.slots[i] = Raw <=> i >= w.size
  <2>1. Kept(v) /\ Kept(w)
    BY SoundIsKept
  <2>2. \A i \in Vector!Slots : i \in Nat
    BY VectorConstants
  <2> QED
    BY <2>1, <2>2 DEF Kept
<1>3. Vector!WithPrefix(v, w, n) = x
  BY <1>1, Updates DEF Vector!WithPrefix
<1>4. bad = Fine
  <2>1. ASSUME NEW i \in n .. w.size - 1
        PROVE  prefixed[i] = Raw /\ w.slots[i] # Raw
    <3>1. i \in Vector!Slots /\ ~(i < n) /\ i >= n /\ ~(i >= w.size)
      BY <1>1, VectorConstants
    <3> QED
      BY <1>2, <3>1
  <2> QED
    BY <2>1 DEF Fine
<1>5. grown = w.slots
  <2>1. ASSUME NEW i \in Vector!Slots
        PROVE  grown[i] = w.slots[i]
    <3>1. i \in Nat /\ (i \in n .. w.size - 1 \/ i < n \/ i >= w.size)
      BY <1>1, <1>2
    <3>2. i >= w.size => v.slots[i] = Raw /\ w.slots[i] = Raw
      BY <1>1, <1>2
    <3> QED
      BY <1>1, <1>2, <3>1, <3>2
  <2> QED
    BY <1>1, <2>1
<1>6. Vector!EmplaceRest(x, w) = [x EXCEPT !.slots = grown, !.size = w.size, !.bad = bad]
  BY DEF Vector!EmplaceRest
<1> HIDE DEF grown, bad, prefixed
<1>7. Vector!EmplaceRest(x, w) = [slots |-> grown, size |-> w.size, bad |-> bad]
  BY <1>6
<1> QED
  BY <1>1, <1>3, <1>4, <1>5, <1>7

LEMMA Swaps ==
  ASSUME NEW v, Sound(v), NEW w, Sound(w)
  PROVE  Vector!Swapped(v, w) = <<w, v>>
<1>1. v.size \in Nat /\ w.size \in Nat
  BY VectorConstants DEF Sound
<1>2. CASE v.size > w.size
  <2>1. Vector!Shorter(v, w) = w.size
    BY <1>1, <1>2 DEF Vector!Shorter
  <2> QED
    BY <1>1, <1>2, <2>1, Drains, Grows DEF Vector!Swapped
<1>3. CASE ~(v.size > w.size)
  <2>1. Vector!Shorter(v, w) = v.size
    BY <1>1, <1>3 DEF Vector!Shorter
  <2> QED
    BY <1>1, <1>3, <2>1, Drains, Grows DEF Vector!Swapped
<1> QED
  BY <1>2, <1>3

LEMMA VectorBegins ==
  ASSUME Vector!VectorInit
  PROVE  VectorInv /\ Vector!Stacks!Init
<1>1. Sound(Vector!Empty)
  BY EmptyIsSound
<1>2. VectorInv
  <2>1. \A b \in Objects : sizes[b] = 0 /\ slots[b] = [i \in Vector!Slots |-> Raw]
    BY DEF Vector!VectorInit, Vector!Empty
  <2>2. Vector!SizeCountsItems
    <3>1. \A i \in Vector!Slots : ~(i < 0)
      BY VectorConstants
    <3> QED
      BY <2>1, <3>1 DEF Vector!VectorInit, Vector!SizeCountsItems
  <2>3. slots \in [Objects -> [Vector!Slots -> Vector!Items \cup {Raw}]] /\ sizes \in [Objects -> 0 .. VectorSize]
    BY <2>1, VectorConstants DEF Vector!VectorInit, Vector!Empty
  <2>4. taken \in [1 .. 0 -> Vector!Items]
    BY DEF Vector!VectorInit
  <2> QED
    BY <2>2, <2>3, <2>4 DEF VectorInv
<1>3. \A b \in Objects : Vector!Contents(Vector!Vector(b)) = <<>>
  BY DEF Vector!VectorInit, Vector!Contents, Vector!Vector, Vector!Empty
<1> QED
  BY <1>2, <1>3 DEF Vector!VectorInit, Vector!stacks, Vector!Stacks!Init

(* What a step does that leaves b as v and c as w.                         *)
LEMMA BecomesTwo ==
  ASSUME VectorInv, NEW b \in Objects, NEW c \in Objects, b # c, NEW v, Sound(v), NEW w, Sound(w),
         Vector!Become(b, v, c, w), taken' = <<>>
  PROVE  /\ VectorInv'
         /\ Vector!stacks' = [Vector!stacks EXCEPT ![b] = Vector!Contents(v), ![c] = Vector!Contents(w)]
<1>1. /\ slots' = [slots EXCEPT ![b] = v.slots, ![c] = w.slots]
      /\ sizes' = [sizes EXCEPT ![b] = v.size, ![c] = w.size]
      /\ misused' = (misused \/ v.bad \/ w.bad)
  BY DEF Vector!Become
<1>2. /\ slots \in [Objects -> [Vector!Slots -> Vector!Items \cup {Raw}]]
      /\ sizes \in [Objects -> 0 .. VectorSize]
      /\ misused = FALSE
  BY DEF VectorInv, Vector!SizeCountsItems
<1>3. /\ v.slots \in [Vector!Slots -> Vector!Items \cup {Raw}] /\ v.size \in 0 .. VectorSize /\ v.bad = Fine
      /\ w.slots \in [Vector!Slots -> Vector!Items \cup {Raw}] /\ w.size \in 0 .. VectorSize /\ w.bad = Fine
  BY VectorConstants DEF Sound
<1>4. /\ slots'[b] = v.slots /\ sizes'[b] = v.size /\ slots'[c] = w.slots /\ sizes'[c] = w.size
      /\ \A d \in Objects : d # b /\ d # c => slots'[d] = slots[d] /\ sizes'[d] = sizes[d]
  BY <1>1, <1>2
<1>5. misused' = FALSE
  BY <1>1, <1>2, <1>3 DEF Fine
<1>6. Vector!SizeCountsItems'
  <2>1. ASSUME NEW d \in Objects, NEW i \in Vector!Slots
        PROVE  IF i < sizes'[d] THEN slots'[d][i] \in Values ELSE slots'[d][i] = Raw
    <3>1. CASE d = b
      BY <1>4, <3>1 DEF Sound
    <3>2. CASE d = c
      BY <1>4, <3>2 DEF Sound
    <3>3. CASE d # b /\ d # c
      BY <1>4, <3>3 DEF VectorInv, Vector!SizeCountsItems
    <3> QED
      BY <3>1, <3>2, <3>3
  <2> QED
    BY <1>5, <2>1 DEF Vector!SizeCountsItems, Vector!Slots
<1>7. slots' \in [Objects -> [Vector!Slots -> Vector!Items \cup {Raw}]] /\ sizes' \in [Objects -> 0 .. VectorSize]
  BY <1>1, <1>2, <1>3
<1>8. taken' \in [1 .. 0 -> Vector!Items]
  OBVIOUS
<1>9. VectorInv'
  BY <1>6, <1>7, <1>8 DEF VectorInv, Vector!Slots, Vector!Items
<1>10. Vector!stacks' = [d \in Objects |-> [i \in 1 .. sizes'[d] |-> slots'[d][i - 1]]]
  BY DEF Vector!stacks, Vector!Contents, Vector!Vector
<1>11. Vector!stacks = [d \in Objects |-> [i \in 1 .. sizes[d] |-> slots[d][i - 1]]]
  BY DEF Vector!stacks, Vector!Contents, Vector!Vector
<1>12. /\ Vector!stacks'[b] = Vector!Contents(v) /\ Vector!stacks'[c] = Vector!Contents(w)
       /\ \A d \in Objects : d # b /\ d # c => Vector!stacks'[d] = Vector!stacks[d]
  <2>1. Vector!stacks'[b] = Vector!Contents(v)
    BY <1>4, <1>10 DEF Vector!Contents
  <2>2. Vector!stacks'[c] = Vector!Contents(w)
    BY <1>4, <1>10 DEF Vector!Contents
  <2>3. ASSUME NEW d \in Objects, d # b, d # c
        PROVE  Vector!stacks'[d] = Vector!stacks[d]
    <3>1. slots'[d] = slots[d] /\ sizes'[d] = sizes[d]
      BY <1>4, <2>3
    <3> QED
      BY <1>10, <1>11, <3>1
  <2> QED
    BY <2>1, <2>2, <2>3
<1>13. /\ Vector!stacks = [d \in Objects |-> Vector!stacks[d]]
       /\ Vector!stacks' = [d \in Objects |-> Vector!stacks'[d]]
  BY DEF Vector!stacks
<1> QED
  BY <1>9, <1>12, <1>13

LEMMA BecomesOne ==
  ASSUME VectorInv, NEW b \in Objects, NEW v, Sound(v), Vector!Becomes(b, v),
         taken' = <<>> \/ \E x \in Vector!Items : taken' = <<x>>
  PROVE  /\ VectorInv'
         /\ Vector!stacks' = [Vector!stacks EXCEPT ![b] = Vector!Contents(v)]
<1>1. /\ slots' = [slots EXCEPT ![b] = v.slots]
      /\ sizes' = [sizes EXCEPT ![b] = v.size]
      /\ misused' = (misused \/ v.bad)
  BY DEF Vector!Becomes
<1>2. /\ slots \in [Objects -> [Vector!Slots -> Vector!Items \cup {Raw}]]
      /\ sizes \in [Objects -> 0 .. VectorSize]
      /\ misused = FALSE
  BY DEF VectorInv, Vector!SizeCountsItems
<1>3. v.slots \in [Vector!Slots -> Vector!Items \cup {Raw}] /\ v.size \in 0 .. VectorSize /\ v.bad = Fine
  BY VectorConstants DEF Sound
<1>4. /\ slots'[b] = v.slots /\ sizes'[b] = v.size
      /\ \A d \in Objects : d # b => slots'[d] = slots[d] /\ sizes'[d] = sizes[d]
  BY <1>1, <1>2
<1>5. misused' = FALSE
  BY <1>1, <1>2, <1>3 DEF Fine
<1>6. Vector!SizeCountsItems'
  <2>1. ASSUME NEW d \in Objects, NEW i \in Vector!Slots
        PROVE  IF i < sizes'[d] THEN slots'[d][i] \in Values ELSE slots'[d][i] = Raw
    <3>1. CASE d = b
      BY <1>4, <3>1 DEF Sound
    <3>2. CASE d # b
      BY <1>4, <3>2 DEF VectorInv, Vector!SizeCountsItems
    <3> QED
      BY <3>1, <3>2
  <2> QED
    BY <1>5, <2>1 DEF Vector!SizeCountsItems, Vector!Slots
<1>7. slots' \in [Objects -> [Vector!Slots -> Vector!Items \cup {Raw}]] /\ sizes' \in [Objects -> 0 .. VectorSize]
  BY <1>1, <1>2, <1>3
<1>8. taken' \in [1 .. 0 -> Vector!Items] \/ taken' \in [1 .. 1 -> Vector!Items]
  <2>1. ASSUME taken' = <<>>
        PROVE  taken' \in [1 .. 0 -> Vector!Items]
    BY <2>1
  <2>2. ASSUME NEW x \in Vector!Items
        PROVE  <<x>> \in [1 .. 1 -> Vector!Items]
    OBVIOUS
  <2> QED
    BY <2>1, <2>2
<1>9. VectorInv'
  BY <1>6, <1>7, <1>8 DEF VectorInv, Vector!Slots, Vector!Items
<1>10. Vector!stacks' = [d \in Objects |-> [i \in 1 .. sizes'[d] |-> slots'[d][i - 1]]]
  BY DEF Vector!stacks, Vector!Contents, Vector!Vector
<1>11. Vector!stacks = [d \in Objects |-> [i \in 1 .. sizes[d] |-> slots[d][i - 1]]]
  BY DEF Vector!stacks, Vector!Contents, Vector!Vector
<1>12. /\ Vector!stacks'[b] = Vector!Contents(v)
       /\ \A d \in Objects : d # b => Vector!stacks'[d] = Vector!stacks[d]
  <2>1. Vector!stacks'[b] = Vector!Contents(v)
    BY <1>4, <1>10 DEF Vector!Contents
  <2>2. ASSUME NEW d \in Objects, d # b
        PROVE  Vector!stacks'[d] = Vector!stacks[d]
    <3>1. slots'[d] = slots[d] /\ sizes'[d] = sizes[d]
      BY <1>4, <2>2
    <3> QED
      BY <1>10, <1>11, <3>1
  <2> QED
    BY <2>1, <2>2
<1>13. /\ Vector!stacks = [d \in Objects |-> Vector!stacks[d]]
       /\ Vector!stacks' = [d \in Objects |-> Vector!stacks'[d]]
  BY DEF Vector!stacks
<1> QED
  BY <1>9, <1>12, <1>13

LEMMA StackOf ==
  ASSUME VectorInv, NEW b \in Objects
  PROVE  /\ Vector!stacks[b] = Vector!Contents(Vector!Vector(b))
         /\ Vector!stacks[b] \in [1 .. sizes[b] -> Values]
         /\ sizes[b] \in 0 .. VectorSize /\ Len(Vector!stacks[b]) = sizes[b]
<1>1. Vector!stacks[b] = Vector!Contents(Vector!Vector(b))
  BY DEF Vector!stacks
<1>2. Sound(Vector!Vector(b)) /\ Vector!Vector(b).size = sizes[b]
  BY VectorsAreSound
<1>3. sizes[b] \in 0 .. VectorSize
  BY DEF VectorInv
<1> QED
  BY <1>1, <1>2, <1>3, ContentsFit

(* A new content in the place of that of b.                                *)
LEMMA Assigns ==
  ASSUME VectorInv, NEW b \in Objects, NEW n \in 0 .. VectorSize, NEW s \in [1 .. n -> Values],
         Vector!Becomes(b, Vector!Filled(Vector!Purge(Vector!Vector(b)), s)), taken' = <<>>
  PROVE  VectorInv' /\ Vector!stacks' = [Vector!stacks EXCEPT ![b] = s] /\ Vector!Stacks!Assign(b)
<1> DEFINE f == Vector!Filled(Vector!Empty, s)
<1>1. Vector!Purge(Vector!Vector(b)) = Vector!Empty
  BY VectorsAreSound, SoundIsKept, Purges
<1>2. Sound(f) /\ Vector!Contents(f) = s
  BY Fills
<1>3. Vector!Becomes(b, f)
  BY <1>1
<1> HIDE DEF f
<1>4. VectorInv' /\ Vector!stacks' = [Vector!stacks EXCEPT ![b] = s]
  BY <1>2, <1>3, BecomesOne
<1>5. Vector!stacks'[b] = s
  BY <1>4 DEF Vector!stacks
<1> QED
  BY <1>4, <1>5 DEF Vector!Stacks!Assign

LEMMA VectorSteps ==
  ASSUME VectorInv, Vector!VectorNext
  PROVE  VectorInv' /\ Vector!Stacks!Next
<1>1. ASSUME NEW b \in Objects, NEW x \in Values, Vector!PushBack(b, x)
      PROVE  VectorInv' /\ Vector!Stacks!Push(b)
  <2> DEFINE v == Vector!Vector(b)
             w == Vector!EmplaceBack(v, x)
  <2>1. sizes[b] # VectorSize /\ Vector!Becomes(b, w) /\ taken' = <<>>
    BY <1>1 DEF Vector!PushBack
  <2>2. Sound(v) /\ v.size = sizes[b]
    BY VectorsAreSound
  <2> HIDE DEF v
  <2>3. Sound(w) /\ Vector!Contents(w) = Append(Vector!Contents(v), x)
    BY <2>1, <2>2, Emplaces
  <2> HIDE DEF w
  <2>4. VectorInv' /\ Vector!stacks' = [Vector!stacks EXCEPT ![b] = Vector!Contents(w)]
    BY <2>1, <2>3, BecomesOne
  <2>5. Len(Vector!stacks[b]) < VectorSize /\ Vector!stacks[b] = Vector!Contents(v)
    BY <2>1, StackOf, VectorConstants DEF v
  <2> QED
    BY <2>1, <2>3, <2>4, <2>5 DEF Vector!Stacks!Push
<1>2. ASSUME NEW b \in Objects, NEW n \in 0 .. VectorSize + 1, NEW x \in Values, Vector!Fill(b, n, x)
      PROVE  VectorInv' /\ Vector!Stacks!Assign(b)
  <2> DEFINE count == IF n < VectorSize THEN n ELSE VectorSize
             s == [i \in 1 .. count |-> x]
  <2>1. count \in 0 .. VectorSize /\ s \in [1 .. count -> Values]
    BY VectorConstants
  <2>2. Vector!Becomes(b, Vector!Filled(Vector!Purge(Vector!Vector(b)), s)) /\ taken' = <<>>
    BY <1>2 DEF Vector!Fill
  <2> HIDE DEF count, s
  <2> QED
    BY <2>1, <2>2, Assigns
<1>3. ASSUME NEW b \in Objects, Vector!Pop(b)
      PROVE  VectorInv' /\ Vector!Stacks!Pop(b)
  <2> DEFINE v == Vector!Vector(b)
             w == Vector!PopBack(v)
  <2>1. sizes[b] # 0 /\ Vector!Becomes(b, w) /\ taken' = <<>>
    BY <1>3 DEF Vector!Pop
  <2>2. Sound(v) /\ Kept(v) /\ v.size = sizes[b] /\ v.size \in Nat
    <3>1. Sound(v) /\ v.size = sizes[b]
      BY VectorsAreSound
    <3> HIDE DEF v
    <3>2. v.size \in Nat
      BY <3>1, VectorConstants DEF Sound
    <3> QED
      BY <3>1, <3>2, SoundIsKept
  <2>3. v.slots[v.size - 1] # Raw
    <3>1. v.size - 1 \in Vector!Slots /\ ~(v.size - 1 >= v.size)
      BY <2>1, <2>2, VectorConstants DEF Kept
    <3> QED
      BY <2>2, <3>1 DEF Kept
  <2> HIDE DEF v
  <2>4. v = [slots |-> v.slots, size |-> v.size, bad |-> Fine] /\ v.slots = [i \in Vector!Slots |-> v.slots[i]]
    BY <2>2 DEF Kept
  <2>5. /\ Sound(w)
        /\ Vector!Contents(w) = SubSeq(Vector!Contents(v), 1, Len(Vector!Contents(v)) - 1)
    BY <2>1, <2>2, <2>3, <2>4, Pops
  <2> HIDE DEF w
  <2>6. VectorInv' /\ Vector!stacks' = [Vector!stacks EXCEPT ![b] = Vector!Contents(w)]
    BY <2>1, <2>5, BecomesOne
  <2>7. Vector!stacks[b] = Vector!Contents(v) /\ Vector!stacks[b] # <<>>
    BY <2>1, StackOf, VectorConstants DEF v
  <2> QED
    BY <2>1, <2>5, <2>6, <2>7 DEF Vector!Stacks!Pop
<1>4. ASSUME NEW b \in Objects, Vector!TakeBack(b)
      PROVE  VectorInv' /\ Vector!Stacks!Pop(b)
  <2> DEFINE v == Vector!Vector(b)
             t == [v.slots EXCEPT ![v.size - 1] = Moved]
             x == [slots |-> t, size |-> v.size, bad |-> Fine]
             w == Vector!PopBack(x)
  <2>1. Sound(v) /\ Kept(v) /\ v.size = sizes[b] /\ v.size \in Nat /\ v.slots = slots[b]
    <3>1. Sound(v) /\ v.size = sizes[b] /\ v.slots = slots[b]
      BY VectorsAreSound
    <3> HIDE DEF v
    <3>2. v.size \in Nat
      BY <3>1, VectorConstants DEF Sound
    <3> QED
      BY <3>1, <3>2, SoundIsKept
  <2>2. sizes[b] # 0 /\ Vector!Becomes(b, w) /\ taken' = <<slots[b][sizes[b] - 1]>>
    <3>1. /\ sizes[b] # 0 /\ taken' = <<slots[b][sizes[b] - 1]>>
          /\ Vector!Becomes(b, Vector!PopBack([v EXCEPT !.slots[sizes[b] - 1] = Moved]))
      BY <1>4 DEF Vector!TakeBack
    <3>2. v = [slots |-> v.slots, size |-> v.size, bad |-> Fine]
      BY <2>1 DEF Kept
    <3>3. [v EXCEPT !.slots[sizes[b] - 1] = Moved] = [v EXCEPT !.slots = [v.slots EXCEPT ![sizes[b] - 1] = Moved]]
      OBVIOUS
    <3> HIDE DEF v
    <3>4. [v EXCEPT !.slots = t] = x
      BY <3>2, Updates
    <3> QED
      BY <2>1, <3>1, <3>3, <3>4
  <2>3. v.size - 1 \in Vector!Slots /\ v.slots[v.size - 1] \in Values
    <3>1. v.size - 1 \in Vector!Slots /\ v.size - 1 < v.size
      BY <2>1, <2>2, VectorConstants DEF Kept
    <3> QED
      BY <2>1, <3>1 DEF Sound
  <2> HIDE DEF v
  <2>4. t = [i \in Vector!Slots |-> t[i]] /\ t[v.size - 1] = Moved
        /\ \A i \in Vector!Slots : i # v.size - 1 => t[i] = v.slots[i]
    BY <2>1, <2>3 DEF Kept
  <2> HIDE DEF t
  <2>5. /\ Sound(w)
        /\ Vector!Contents(w) = SubSeq(Vector!Contents(v), 1, Len(Vector!Contents(v)) - 1)
    BY <2>1, <2>2, <2>4, Pops, VectorConstants
  <2> HIDE DEF w
  <2>6. slots[b][sizes[b] - 1] \in Vector!Items
    BY <2>1, <2>3, VectorConstants
  <2>7. VectorInv' /\ Vector!stacks' = [Vector!stacks EXCEPT ![b] = Vector!Contents(w)]
    BY <2>2, <2>5, <2>6, BecomesOne
  <2>8. Vector!stacks[b] = Vector!Contents(v) /\ Len(Vector!stacks[b]) = sizes[b] /\ Vector!stacks[b] # <<>>
    BY <2>2, StackOf, VectorConstants DEF v
  <2>9. Vector!Contents(v)[sizes[b]] = slots[b][sizes[b] - 1]
    <3>1. sizes[b] \in 1 .. v.size
      BY <2>1, <2>2
    <3> QED
      BY <2>1, <3>1, ContentsFit
  <2> QED
    BY <2>2, <2>5, <2>7, <2>8, <2>9 DEF Vector!Stacks!Pop
<1>5. ASSUME NEW b \in Objects, Vector!Clear(b)
      PROVE  VectorInv' /\ Vector!Stacks!Assign(b)
  <2>1. Vector!Becomes(b, Vector!Empty) /\ taken' = <<>>
    BY <1>5, VectorsAreSound, SoundIsKept, Purges DEF Vector!Clear
  <2>2. VectorInv' /\ Vector!stacks' = [Vector!stacks EXCEPT ![b] = <<>>]
    BY <2>1, BecomesOne, EmptyIsSound
  <2>3. Vector!stacks'[b] = <<>>
    BY <2>2 DEF Vector!stacks
  <2>4. <<>> \in [1 .. 0 -> Values] /\ 0 \in 0 .. VectorSize
    BY VectorConstants
  <2> QED
    BY <2>1, <2>2, <2>3, <2>4 DEF Vector!Stacks!Assign
<1>6. ASSUME NEW b \in Objects, NEW s \in Vector!BoundedSeq(Values, VectorSize), Vector!AssignArray(b, s)
      PROVE  VectorInv' /\ Vector!Stacks!Assign(b)
  <2>1. PICK n \in 0 .. VectorSize : s \in [1 .. n -> Values]
    BY DEF Vector!BoundedSeq, Vector!SeqOf
  <2> QED
    BY <1>6, <2>1, Assigns DEF Vector!AssignArray
<1>7. ASSUME NEW b \in Objects, NEW c \in Objects, Vector!CopyAssign(b, c)
      PROVE  VectorInv' /\ Vector!Stacks!Copy(b, c)
  <2>1. Vector!stacks[c] \in [1 .. sizes[c] -> Values] /\ sizes[c] \in 0 .. VectorSize
        /\ Vector!stacks[c] = Vector!Contents(Vector!Vector(c))
    BY StackOf
  <2>2. Vector!Becomes(b, Vector!Filled(Vector!Purge(Vector!Vector(b)), Vector!stacks[c])) /\ taken' = <<>>
    BY <1>7, <2>1 DEF Vector!CopyAssign
  <2>3. VectorInv' /\ Vector!stacks' = [Vector!stacks EXCEPT ![b] = Vector!stacks[c]]
    BY <2>1, <2>2, Assigns
  <2> QED
    BY <2>2, <2>3 DEF Vector!Stacks!Copy
<1>8. ASSUME NEW b \in Objects, NEW c \in Objects, Vector!MoveAssign(b, c)
      PROVE  VectorInv' /\ Vector!Stacks!Move(b, c)
  <2> DEFINE s == Vector!stacks[c]
             f == Vector!Filled(Vector!Empty, s)
  <2>1. s \in [1 .. sizes[c] -> Values] /\ sizes[c] \in 0 .. VectorSize
        /\ s = Vector!Contents(Vector!Vector(c))
    BY StackOf
  <2>2. Vector!Purge(Vector!Vector(b)) = Vector!Empty
    BY VectorsAreSound, SoundIsKept, Purges
  <2>3. Vector!Purge(Vector!MovedOut(Vector!Vector(c), 0)) = Vector!Empty
    <3>1. Kept(Vector!Vector(c))
      BY VectorsAreSound, SoundIsKept
    <3>2. 0 \in 0 .. Vector!Vector(c).size
      BY <3>1, VectorConstants DEF Kept
    <3> QED
      BY <3>1, <3>2, MovesOut, Purges
  <2>4. b # c /\ Vector!Become(b, f, c, Vector!Empty) /\ taken' = <<>>
    BY <1>8, <2>1, <2>2, <2>3 DEF Vector!MoveAssign
  <2>5. Sound(f) /\ Vector!Contents(f) = s
    BY <2>1, Fills
  <2> HIDE DEF f
  <2>6. VectorInv' /\ Vector!stacks' = [Vector!stacks EXCEPT ![b] = s, ![c] = <<>>]
    BY <2>4, <2>5, BecomesTwo, EmptyIsSound
  <2> QED
    BY <2>4, <2>6 DEF Vector!Stacks!Move
<1>9. ASSUME NEW b \in Objects, NEW c \in Objects, Vector!Swap(b, c)
      PROVE  VectorInv' /\ Vector!Stacks!Swap(b, c)
  <2> DEFINE v == Vector!Vector(b)
             w == Vector!Vector(c)
  <2>1. Sound(v) /\ Sound(w) /\ Vector!stacks[b] = Vector!Contents(v) /\ Vector!stacks[c] = Vector!Contents(w)
    BY VectorsAreSound, StackOf
  <2>2. /\ b # c /\ taken' = <<>>
        /\ Vector!Become(b, Vector!Swapped(v, w)[1], c, Vector!Swapped(v, w)[2])
    BY <1>9 DEF Vector!Swap
  <2> HIDE DEF v, w
  <2>3. Vector!Become(b, w, c, v)
    BY <2>1, <2>2, Swaps
  <2>4. VectorInv' /\ Vector!stacks' = [Vector!stacks EXCEPT ![b] = Vector!Contents(w), ![c] = Vector!Contents(v)]
    BY <2>1, <2>2, <2>3, BecomesTwo
  <2> QED
    BY <2>1, <2>2, <2>4 DEF Vector!Stacks!Swap
<1> QED
  BY <1>1, <1>2, <1>3, <1>4, <1>5, <1>6, <1>7, <1>8, <1>9 DEF Vector!VectorNext, Vector!Stacks!Next

(* Every step of the instance is one of the vectors or leaves them alone,  *)
(* and then their items too.                                               *)
LEMMA VectorAlone ==
  ASSUME [MCNext]_allVars
  PROVE  Vector!VectorNext \/ UNCHANGED vectorVars
<1>1. CASE VectorStep
  BY <1>1 DEF VectorStep
<1>2. CASE RoundRobinStep \/ RecursiveStep \/ StackStep \/ FunctionStep \/ NumbersStep
  BY <1>2 DEF RoundRobinStep, RecursiveStep, RecursiveRest, StackStep, FunctionStep, NumbersStep,
              roundRobinRest, vectorVars
<1>3. CASE UNCHANGED allVars
  BY <1>3 DEF allVars, roundRobinRest, vectorVars
<1> QED
  BY <1>1, <1>2, <1>3 DEF MCNext

LEMMA VectorsKeep ==
  ASSUME VectorInv, [MCNext]_allVars
  PROVE  VectorInv' /\ [Vector!Stacks!Next]_Vector!Stacks!vars
<1>1. CASE Vector!VectorNext
  BY <1>1, VectorSteps
<1>2. CASE UNCHANGED vectorVars
  <2>1. slots' = slots /\ sizes' = sizes /\ misused' = misused /\ taken' = taken
    BY <1>2 DEF vectorVars
  <2>2. VectorInv'
    BY <2>1 DEF VectorInv, Vector!SizeCountsItems
  <2>3. Vector!stacks' = Vector!stacks
    BY <2>1 DEF Vector!stacks, Vector!Contents, Vector!Vector
  <2> QED
    BY <2>1, <2>2, <2>3 DEF Vector!Stacks!vars
<1> QED
  BY <1>1, <1>2, VectorAlone

(* static_vector implements bounded stacks: whatever sequence of pushes,   *)
(* pops, assignments, moves and swaps the client makes, its contents are   *)
(* those of BoundedStack.                                                  *)
THEOREM VectorsImplementStacks == MCSpec => VectorsAreStacks
<1>1. MCInit => VectorInv /\ Vector!Stacks!Init
  BY VectorBegins DEF MCInit
<1>2. VectorInv /\ [MCNext]_allVars => VectorInv' /\ [Vector!Stacks!Next]_Vector!Stacks!vars
  BY VectorsKeep
<1> QED
  BY <1>1, <1>2, PTL DEF MCSpec, VectorsAreStacks, Vector!Stacks!Spec

(* The first position at which two vectors differ.                         *)
LEMMA LeastExists ==
  ASSUME NEW S \in SUBSET Nat, S # {}
  PROVE  \E i \in S : \A j \in S : i <= j
<1>1. \E i \in S : \A j \in S : ~(<<j, i>> \in OpToRel(<, Nat))
  BY WFMin, NatLessThanWellFounded, Zenon
<1>2. PICK i \in S : \A j \in S : ~(<<j, i>> \in OpToRel(<, Nat))
  BY <1>1
<1>3. ASSUME NEW j \in S
      PROVE  i <= j
  <2>1. i \in Nat /\ j \in Nat
    OBVIOUS
  <2>2. ~(j < i)
    BY <1>2, <1>3, <2>1 DEF OpToRel
  <2> QED
    BY <2>1, <2>2
<1> QED
  BY <1>3

(* Where two vectors differ, and which of them is less.                    *)
Differing(v, w) == {i \in 0 .. Vector!Shorter(v, w) - 1 : v.slots[i] # w.slots[i]}

LEMMA LessAtTheFirst ==
  ASSUME NEW v, NEW w, Sound(v), Sound(w), Differing(v, w) # {}
  PROVE  \E i \in Differing(v, w) :
           /\ v.slots[i] \in Nat /\ w.slots[i] \in Nat /\ v.slots[i] # w.slots[i]
           /\ Vector!Less(v, w) <=> v.slots[i] < w.slots[i]
           /\ Vector!Less(w, v) <=> w.slots[i] < v.slots[i]
<1> DEFINE D == Differing(v, w)
           first == CHOOSE i \in D : \A j \in D : i <= j
<1>1. v.size \in Nat /\ w.size \in Nat /\ v.size <= VectorSize /\ w.size <= VectorSize
  BY VectorConstants DEF Sound
<1>2. Vector!Shorter(v, w) = Vector!Shorter(w, v) /\ Vector!Shorter(v, w) \in Nat
      /\ Vector!Shorter(v, w) <= v.size /\ Vector!Shorter(v, w) <= w.size
  BY <1>1 DEF Vector!Shorter
<1>3. D \in SUBSET Nat
  BY <1>2 DEF Differing
<1>4. \E i \in D : \A j \in D : i <= j
  BY <1>3, LeastExists
<1>5. first \in D
  BY <1>4
<1>6. D = {i \in 0 .. Vector!Shorter(w, v) - 1 : w.slots[i] # v.slots[i]}
  BY <1>2 DEF Differing
<1>7. Vector!Less(v, w) <=> v.slots[first] < w.slots[first]
  BY DEF Vector!Less, Differing
<1>8. Vector!Less(w, v) <=> w.slots[first] < v.slots[first]
  BY <1>6 DEF Vector!Less
<1> HIDE DEF first
<1>9. v.slots[first] \in Values /\ w.slots[first] \in Values /\ v.slots[first] # w.slots[first]
  <2>1. first \in 0 .. Vector!Shorter(v, w) - 1 /\ v.slots[first] # w.slots[first]
    BY <1>5 DEF Differing
  <2>2. first \in Vector!Slots /\ first < v.size /\ first < w.size
    BY <1>1, <1>2, <2>1, VectorConstants
  <2> QED
    BY <2>1, <2>2 DEF Sound
<1>10. v.slots[first] \in Nat /\ w.slots[first] \in Nat
  BY <1>9, VectorConstants
<1> QED
  BY <1>5, <1>7, <1>8, <1>9, <1>10

(* Two vectors that agree as far as the shorter goes.                      *)
LEMMA LessBySize ==
  ASSUME NEW v, NEW w, Sound(v), Sound(w), Differing(v, w) = {}
  PROVE  /\ Vector!Less(v, w) <=> v.size < w.size
         /\ Vector!Less(w, v) <=> w.size < v.size
         /\ Vector!EqualVectors(v, w) <=> v.size = w.size
<1>1. v.size \in Nat /\ w.size \in Nat
  BY VectorConstants DEF Sound
<1>2. Vector!Shorter(v, w) = Vector!Shorter(w, v)
  BY <1>1 DEF Vector!Shorter
<1>3. {i \in 0 .. Vector!Shorter(w, v) - 1 : w.slots[i] # v.slots[i]} = {}
  BY <1>2 DEF Differing
<1>4. Vector!Less(v, w) <=> v.size < w.size
  BY DEF Vector!Less, Differing
<1>5. Vector!Less(w, v) <=> w.size < v.size
  BY <1>3 DEF Vector!Less
<1>6. ASSUME v.size = w.size
      PROVE  Vector!EqualVectors(v, w)
  <2>1. Vector!Shorter(v, w) = v.size
    BY <1>1, <1>6 DEF Vector!Shorter
  <2>2. \A i \in 0 .. v.size - 1 : v.slots[i] = w.slots[i]
    BY <2>1 DEF Differing
  <2> QED
    BY <1>6, <2>2 DEF Vector!EqualVectors
<1> QED
  BY <1>4, <1>5, <1>6 DEF Vector!EqualVectors

LEMMA EqualAsSequences ==
  ASSUME NEW v, NEW w, Sound(v), Sound(w)
  PROVE  /\ Vector!EqualVectors(v, w) <=> Vector!Contents(v) = Vector!Contents(w)
         /\ Vector!EqualVectors(v, w) => Differing(v, w) = {}
<1>1. v.size \in Nat /\ w.size \in Nat
  BY VectorConstants DEF Sound
<1>2. ASSUME Vector!EqualVectors(v, w)
      PROVE  Vector!Contents(v) = Vector!Contents(w) /\ Differing(v, w) = {}
  <2>1. v.size = w.size /\ \A i \in 0 .. v.size - 1 : v.slots[i] = w.slots[i]
    BY <1>2 DEF Vector!EqualVectors
  <2>2. \A i \in 1 .. v.size : v.slots[i - 1] = w.slots[i - 1]
    <3> TAKE i \in 1 .. v.size
    <3>1. i - 1 \in 0 .. v.size - 1
      BY <1>1
    <3> QED
      BY <2>1, <3>1
  <2>3. Vector!Shorter(v, w) = v.size
    BY <1>1, <2>1 DEF Vector!Shorter
  <2> QED
    BY <2>1, <2>2, <2>3 DEF Vector!Contents, Differing
<1>3. ASSUME Vector!Contents(v) = Vector!Contents(w)
      PROVE  Vector!EqualVectors(v, w)
  <2>1. v.size = w.size
    BY <1>3, ContentsFit
  <2>2. ASSUME NEW i \in 0 .. v.size - 1
        PROVE  v.slots[i] = w.slots[i]
    <3>1. i + 1 \in 1 .. v.size /\ (i + 1) - 1 = i
      BY <1>1, <2>2
    <3>2. Vector!Contents(v)[i + 1] = v.slots[(i + 1) - 1]
      BY <3>1, ContentsFit
    <3>3. Vector!Contents(w)[i + 1] = w.slots[(i + 1) - 1]
      BY <2>1, <3>1, ContentsFit
    <3> QED
      BY <1>3, <3>1, <3>2, <3>3
  <2> QED
    BY <2>1, <2>2 DEF Vector!EqualVectors
<1> QED
  BY <1>2, <1>3

(* A proper prefix agrees as far as it goes and is shorter.                *)
LEMMA PrefixIsShorter ==
  ASSUME NEW v, NEW w, Sound(v), Sound(w),
         Vector!IsStrictPrefix(Vector!Contents(v), Vector!Contents(w))
  PROVE  Differing(v, w) = {} /\ v.size < w.size
<1> DEFINE s == Vector!Contents(v)
           t == Vector!Contents(w)
<1>1. v.size \in Nat /\ w.size \in Nat
  BY VectorConstants DEF Sound
<1>2. s \in Seq(Values) /\ Len(s) = v.size /\ t \in Seq(Values) /\ Len(t) = w.size
  BY ContentsFit
<1>3. Len(s) <= Len(t) /\ SubSeq(s, 1, Len(s)) = SubSeq(t, 1, Len(s)) /\ s # t
  BY DEF Vector!IsStrictPrefix, Vector!IsPrefix
<1>4. \A i \in 1 .. v.size : s[i] = v.slots[i - 1] /\ t[i] = w.slots[i - 1]
  <2>1. \A i \in 1 .. v.size : s[i] = v.slots[i - 1]
    BY ContentsFit
  <2>2. \A i \in 1 .. w.size : t[i] = w.slots[i - 1]
    BY ContentsFit
  <2>3. \A i \in 1 .. v.size : i \in 1 .. w.size
    BY <1>1, <1>2, <1>3
  <2> QED
    BY <2>1, <2>2, <2>3
<1> HIDE DEF s, t
<1>5. \A i \in 1 .. v.size : s[i] = t[i]
  <2> TAKE i \in 1 .. v.size
  <2>1. SubSeq(s, 1, Len(s))[i] = s[i] /\ SubSeq(t, 1, Len(s))[i] = t[i]
    BY <1>1, <1>2, <1>3
  <2> QED
    BY <1>3, <2>1
<1>6. v.size # w.size
  <2>1. SUFFICES ASSUME v.size = w.size
                 PROVE  s = t
    BY <1>3
  <2> QED
    BY <1>2, <1>5, <2>1, SeqEqual
<1>7. ASSUME NEW i \in 0 .. Vector!Shorter(v, w) - 1
      PROVE  v.slots[i] = w.slots[i]
  <2>1. i + 1 \in 1 .. v.size /\ (i + 1) - 1 = i
    BY <1>1, <1>7 DEF Vector!Shorter
  <2>2. s[i + 1] = v.slots[(i + 1) - 1] /\ t[i + 1] = w.slots[(i + 1) - 1]
    BY <1>4, <2>1
  <2> QED
    BY <1>5, <2>1, <2>2
<1> QED
  BY <1>1, <1>2, <1>3, <1>6, <1>7 DEF Differing

LEMMA VectorsAreOrdered ==
  ASSUME VectorInv
  PROVE  Vector!OrderIsTotal
<1>1. ASSUME NEW v, NEW w, Sound(v), Sound(w)
      PROVE  /\ Vector!EqualVectors(v, w) <=> ~Vector!Less(v, w) /\ ~Vector!Less(w, v)
             /\ ~(Vector!Less(v, w) /\ Vector!Less(w, v))
  <2>1. CASE Differing(v, w) = {}
    <3>1. v.size \in Nat /\ w.size \in Nat
      BY <1>1, VectorConstants DEF Sound
    <3>2. /\ Vector!Less(v, w) <=> v.size < w.size
          /\ Vector!Less(w, v) <=> w.size < v.size
          /\ Vector!EqualVectors(v, w) <=> v.size = w.size
      BY <1>1, <2>1, LessBySize
    <3> QED
      BY <3>1, <3>2
  <2>2. CASE Differing(v, w) # {}
    <3>1. ~Vector!EqualVectors(v, w)
      BY <1>1, <2>2, EqualAsSequences
    <3>2. PICK i \in Differing(v, w) :
             /\ v.slots[i] \in Nat /\ w.slots[i] \in Nat /\ v.slots[i] # w.slots[i]
             /\ Vector!Less(v, w) <=> v.slots[i] < w.slots[i]
             /\ Vector!Less(w, v) <=> w.slots[i] < v.slots[i]
      BY <1>1, <2>2, LessAtTheFirst
    <3> QED
      BY <3>1, <3>2
  <2> QED
    BY <2>1, <2>2
<1>2. ASSUME NEW v, NEW w, Sound(v), Sound(w),
             Vector!IsStrictPrefix(Vector!Contents(v), Vector!Contents(w))
      PROVE  Vector!Less(v, w)
  BY <1>2, PrefixIsShorter, LessBySize
<1>3. \A b \in Objects : Sound(Vector!Vector(b))
  BY VectorsAreSound
<1> QED
  BY <1>1, <1>2, <1>3, EqualAsSequences DEF Vector!OrderIsTotal

-----------------------------------------------------------------------------
(* static_function.                                                        *)

LEMMA FunctionConstants ==
  /\ Align \in Nat \ {0} /\ BufferSize \in Nat
  /\ \A f \in Functions : BufferOf[f] \in Nat /\ BufferOf[f] % Align = 0
  /\ \A f, g \in Functions :
       f # g => BufferOf[f] + BufferSize <= BufferOf[g] \/ BufferOf[g] + BufferSize <= BufferOf[f]
  /\ NullPointer \notin Nat /\ NullPointer \notin Types
  /\ \A form \in Types : /\ Function!Size(form) \in Nat \ {0} /\ Function!Alignment(form) \in Nat \ {0}
                         /\ Align % Function!Alignment(form) = 0 \/ Function!Alignment(form) % Align = 0
<1>1. Function!FunctionAssumption
  BY PartsAssumption
<1> HIDE DEF BufferOf
<1>2. \A form \in Types : form[1] \in Nat \ {0} /\ form[2] \in Nat \ {0}
  BY <1>1 DEF Function!FunctionAssumption
<1> QED
  BY <1>1, <1>2 DEF Function!FunctionAssumption, Function!Size, Function!Alignment

(* Products of naturals grow with their factors.                           *)
LEMMA ProductGrows ==
  ASSUME NEW a \in Nat, NEW b \in Nat, NEW c \in Nat, a < b
  PROVE  a * c + c <= b * c
<1>1. PICK d \in Nat : b = a + 1 + d
  <2>1. b - a - 1 \in Nat /\ b = a + 1 + (b - a - 1)
    OBVIOUS
  <2> QED
    BY <2>1
<1>2. b * c = (a + 1 + d) * c
  BY <1>1
<1>3. (a + 1 + d) * c = a * c + c + d * c
  OBVIOUS
<1>4. d * c \in Nat /\ a * c \in Nat
  OBVIOUS
<1> QED
  BY <1>2, <1>3, <1>4

(* What divides evenly is a multiple.                                      *)
LEMMA Multiple ==
  ASSUME NEW a \in Nat, NEW b \in Nat \ {0}, a % b = 0
  PROVE  \E k \in Nat : a = k * b
<1> DEFINE k == a \div b
           r == a % b
<1>1. k \in Nat /\ a = b * k + r /\ r = 0
  OBVIOUS
<1> HIDE DEF k, r
<1>2. b * k = k * b /\ b * k \in Nat
  BY <1>1
<1> QED
  BY <1>1, <1>2

LEMMA MultipleDivides ==
  ASSUME NEW q \in Nat, NEW b \in Nat \ {0}
  PROVE  (q * b) % b = 0
<1> DEFINE a == q * b
           r == a % b
           p == a \div b
<1>1. a \in Nat
  OBVIOUS
<1>2. p \in Nat /\ r \in 0 .. b - 1 /\ a = b * p + r
  BY <1>1
<1>3. b * p = p * b
  BY <1>2
<1> HIDE DEF r, p
<1>4. CASE q = p
  BY <1>2, <1>3, <1>4
<1>5. CASE q < p
  <2>1. q * b + b <= p * b
    BY <1>2, <1>5, ProductGrows
  <2> QED
    BY <1>2, <1>3, <2>1
<1>6. CASE p < q
  <2>1. p * b + b <= q * b
    BY <1>2, <1>6, ProductGrows
  <2> QED
    BY <1>2, <1>3, <2>1
<1>7. r = 0
  BY <1>2, <1>4, <1>5, <1>6
<1> QED
  BY <1>7 DEF r

(* AlignAddr() is the lowest multiple of the alignment at or above.        *)
LEMMA AlignsTo ==
  ASSUME NEW addr \in Nat, NEW alignment \in Nat \ {0}
  PROVE  \E q \in Nat : /\ Function!AlignAddr(addr, alignment) = q * alignment
                        /\ addr <= q * alignment /\ q * alignment < addr + alignment
<1> DEFINE x == addr + alignment - 1
           q == x \div alignment
<1>1. x \in Nat
  OBVIOUS
<1>2. q \in Nat /\ x = alignment * q + (x % alignment) /\ x % alignment \in 0 .. alignment - 1
  BY <1>1
<1>3. alignment * q = q * alignment /\ q * alignment \in Nat
  BY <1>2
<1>4. Function!AlignAddr(addr, alignment) = q * alignment
  BY DEF Function!AlignAddr
<1> HIDE DEF q
<1>5. addr <= q * alignment /\ q * alignment < addr + alignment
  BY <1>2, <1>3
<1> QED
  BY <1>2, <1>4, <1>5

(* A multiple is its own.                                                  *)
LEMMA AlignedStays ==
  ASSUME NEW addr \in Nat, NEW alignment \in Nat \ {0}, NEW k \in Nat, addr = k * alignment
  PROVE  Function!AlignAddr(addr, alignment) = addr
<1>1. PICK q \in Nat : /\ Function!AlignAddr(addr, alignment) = q * alignment
                       /\ addr <= q * alignment /\ q * alignment < addr + alignment
  BY AlignsTo
<1>2. CASE q = k
  BY <1>1, <1>2
<1>3. CASE q < k
  <2>1. q * alignment + alignment <= k * alignment
    BY <1>3, ProductGrows
  <2> QED
    BY <1>1, <2>1
<1>4. CASE k < q
  <2>1. k * alignment + alignment <= q * alignment
    BY <1>4, ProductGrows
  <2> QED
    BY <1>1, <2>1
<1> QED
  BY <1>2, <1>3, <1>4

(* A callable that the static_assert lets through lies aligned inside of   *)
(* the buffer.                                                             *)
LEMMA PlacedInside ==
  ASSUME NEW f \in Functions, NEW form \in Function!Storable
  PROVE  LET at == Function!AlignAddr(BufferOf[f], Function!Alignment(form))
         IN  /\ at \in Nat /\ at % Function!Alignment(form) = 0
             /\ BufferOf[f] <= at /\ at + Function!Size(form) <= BufferOf[f] + BufferSize
             /\ at < BufferOf[f] + BufferSize
<1> HIDE DEF BufferOf
<1> DEFINE base == BufferOf[f]
           al == Function!Alignment(form)
           sz == Function!Size(form)
           at == Function!AlignAddr(base, al)
<1>1. form \in Types /\ sz + (IF al > Align THEN al - Align ELSE 0) <= BufferSize
  BY DEF Function!Storable, Function!RequiredSpace
<1>2. /\ base \in Nat /\ base % Align = 0 /\ al \in Nat \ {0} /\ sz \in Nat \ {0}
      /\ Align \in Nat \ {0} /\ BufferSize \in Nat
      /\ Align % al = 0 \/ al % Align = 0
  BY <1>1, FunctionConstants
<1> HIDE DEF base, al, sz
<1>3. PICK q \in Nat : at = q * al /\ base <= q * al /\ q * al < base + al
  BY <1>2, AlignsTo
<1>4. PICK m \in Nat : base = m * Align
  BY <1>2, Multiple
<1> HIDE DEF at
<1>5. at \in Nat /\ at % al = 0 /\ base <= at /\ at < base + al
  <2>1. (q * al) % al = 0
    BY <1>2, MultipleDivides
  <2>2. q * al \in Nat
    BY <1>2
  <2> QED
    BY <1>3, <2>1, <2>2
<1>6. ASSUME Align % al = 0
      PROVE  at + sz <= base + BufferSize
  <2>1. PICK k \in Nat : Align = k * al
    BY <1>2, <1>6, Multiple
  <2>2. base = (m * k) * al /\ m * k \in Nat
    <3>1. m * (k * al) = (m * k) * al /\ m * k \in Nat
      BY <1>2
    <3> QED
      BY <1>4, <2>1, <3>1
  <2>3. at = base
    BY <1>2, <2>2, AlignedStays DEF at
  <2>4. sz <= BufferSize
    BY <1>1, <1>2
  <2> QED
    BY <1>2, <2>3, <2>4
<1>7. ASSUME al % Align = 0
      PROVE  at + sz <= base + BufferSize
  <2>1. PICK k \in Nat : al = k * Align
    BY <1>2, <1>7, Multiple
  <2>2. at = (q * k) * Align /\ q * k \in Nat
    <3>1. q * (k * Align) = (q * k) * Align /\ q * k \in Nat
      BY <1>2
    <3> QED
      BY <1>3, <2>1, <3>1
  <2>3. base + al = (m + k) * Align /\ m + k \in Nat
    <3>1. m * Align + k * Align = (m + k) * Align
      BY <1>2
    <3> QED
      BY <1>4, <2>1, <3>1
  <2>4. q * k < m + k
    <3>1. SUFFICES ASSUME m + k <= q * k
                   PROVE  FALSE
      BY <2>2, <2>3
    <3>2. CASE m + k = q * k
      BY <1>2, <1>5, <2>2, <2>3, <3>2
    <3>3. CASE m + k < q * k
      <4>1. (m + k) * Align + Align <= (q * k) * Align
        BY <1>2, <2>2, <2>3, <3>3, ProductGrows
      <4> QED
        BY <1>2, <1>5, <2>2, <2>3, <4>1
    <3> QED
      BY <2>2, <2>3, <3>1, <3>2, <3>3
  <2>5. at + Align <= base + al
    <3>1. (q * k) * Align + Align <= (m + k) * Align
      BY <1>2, <2>2, <2>3, <2>4, ProductGrows
    <3> QED
      BY <2>2, <2>3, <3>1
  <2>6. CASE al > Align
    <3>1. sz + (al - Align) <= BufferSize
      BY <1>1, <2>6
    <3> QED
      BY <1>2, <1>5, <2>5, <2>6, <3>1
  <2>7. CASE ~(al > Align)
    <3>1. sz <= BufferSize /\ at <= base
      BY <1>1, <1>2, <1>5, <2>5, <2>7
    <3> QED
      BY <1>2, <1>5, <3>1
  <2> QED
    BY <2>6, <2>7
<1>8. at + sz <= base + BufferSize
  BY <1>2, <1>6, <1>7
<1>9. at < base + BufferSize
  BY <1>2, <1>5, <1>8
<1> QED
  BY <1>5, <1>8, <1>9 DEF base, al, sz, at

Callable == [at : Nat, type : Types, captured : Captures \cup {Moved}]
PlaceOf(f, form) == Function!AlignAddr(BufferOf[f], Function!Alignment(form))

(* The callables in `rest` are those that the functions in `fs` hold, one  *)
(* for each.                                                               *)
Owned(rest, fs) ==
  /\ rest \subseteq Callable
  /\ \A o \in rest : \E f \in fs : obj[f] = o.at /\ vtable[f] = o.type
  /\ \A f \in fs : obj[f] # NullPointer => \E o \in rest : o.at = obj[f] /\ o.type = vtable[f]
  /\ \A o, p \in rest : o.at = p.at => o = p

FunctionInv ==
  /\ obj \in [Functions -> Nat \cup {NullPointer}]
  /\ vtable \in [Functions -> Types \cup {NullPointer}]
  /\ \A f \in Functions : IF obj[f] = NullPointer THEN vtable[f] = NullPointer
                          ELSE vtable[f] \in Function!Storable /\ obj[f] = PlaceOf(f, vtable[f])
  /\ Owned(objects, Functions)
  /\ answer \in Captures \cup {Moved, NullPointer}

(* The callables of two functions lie at different addresses.              *)
LEMMA PlacesDiffer ==
  ASSUME NEW f \in Functions, NEW g \in Functions, f # g,
         NEW form \in Function!Storable, NEW other \in Function!Storable
  PROVE  PlaceOf(f, form) # PlaceOf(g, other)
<1> HIDE DEF BufferOf
<1>1. /\ PlaceOf(f, form) \in Nat /\ BufferOf[f] <= PlaceOf(f, form)
      /\ PlaceOf(f, form) < BufferOf[f] + BufferSize
  BY PlacedInside DEF PlaceOf
<1>2. /\ PlaceOf(g, other) \in Nat /\ BufferOf[g] <= PlaceOf(g, other)
      /\ PlaceOf(g, other) < BufferOf[g] + BufferSize
  BY PlacedInside DEF PlaceOf
<1>3. /\ BufferOf[f] \in Nat /\ BufferOf[g] \in Nat /\ BufferSize \in Nat
      /\ BufferOf[f] + BufferSize <= BufferOf[g] \/ BufferOf[g] + BufferSize <= BufferOf[f]
  BY FunctionConstants
<1> QED
  BY <1>1, <1>2, <1>3

LEMMA HeldApart ==
  ASSUME FunctionInv, NEW f \in Functions, NEW g \in Functions, f # g, obj[f] # NullPointer
  PROVE  obj[f] # obj[g]
<1>1. CASE obj[g] = NullPointer
  BY <1>1
<1>2. CASE obj[g] # NullPointer
  <2>1. vtable[f] \in Function!Storable /\ obj[f] = PlaceOf(f, vtable[f])
    BY DEF FunctionInv
  <2>2. vtable[g] \in Function!Storable /\ obj[g] = PlaceOf(g, vtable[g])
    BY <1>2 DEF FunctionInv
  <2> QED
    BY <2>1, <2>2, PlacesDiffer
<1> QED
  BY <1>1, <1>2

(* What vtable_ sees is the callable at obj_.                              *)
LEMMA SeenIsHeld ==
  ASSUME FunctionInv, NEW f \in Functions, obj[f] # NullPointer
  PROVE  /\ Function!Seen(f) \in objects /\ Function!Seen(f) \in Callable
         /\ Function!Seen(f).at = obj[f] /\ Function!Seen(f).type = vtable[f]
         /\ vtable[f] \in Function!Storable
<1>1. \E o \in objects : o.at = obj[f] /\ o.type = vtable[f]
  BY DEF FunctionInv, Owned
<1>2. /\ Function!Seen(f) \in objects
      /\ Function!Seen(f).at = obj[f] /\ Function!Seen(f).type = vtable[f]
  BY <1>1 DEF Function!Seen
<1>3. vtable[f] \in Function!Storable
  BY DEF FunctionInv
<1> QED
  BY <1>2, <1>3 DEF FunctionInv, Owned

(* clear() leaves the callables of the others.                             *)
LEMMA ClearLeavesOthers ==
  ASSUME FunctionInv, NEW f \in Functions
  PROVE  Owned(Function!AfterClear(f), Functions \ {f})
<1> DEFINE rest == Function!AfterClear(f)
<1>1. Owned(objects, Functions)
  BY DEF FunctionInv
<1>2. CASE obj[f] = NullPointer
  <2>1. rest = objects
    BY <1>2 DEF Function!AfterClear
  <2>2. ASSUME NEW o \in objects
        PROVE  \E g \in Functions \ {f} : obj[g] = o.at /\ vtable[g] = o.type
    <3>1. PICK g \in Functions : obj[g] = o.at /\ vtable[g] = o.type
      BY <1>1 DEF Owned
    <3>2. o.at \in Nat
      BY <1>1 DEF Owned, Callable
    <3> QED
      BY <1>2, <3>1, <3>2, FunctionConstants
  <2> QED
    BY <1>1, <2>1, <2>2 DEF Owned
<1>3. CASE obj[f] # NullPointer
  <2>1. rest = objects \ {Function!Seen(f)} /\ Function!Seen(f).at = obj[f] /\ Function!Seen(f) \in objects
    BY <1>3, SeenIsHeld DEF Function!AfterClear
  <2>2. ASSUME NEW o \in rest
        PROVE  \E g \in Functions \ {f} : obj[g] = o.at /\ vtable[g] = o.type
    <3>1. PICK g \in Functions : obj[g] = o.at /\ vtable[g] = o.type
      BY <1>1, <2>1 DEF Owned
    <3>2. o.at # obj[f]
      BY <1>1, <2>1 DEF Owned
    <3> QED
      BY <3>1, <3>2
  <2>3. ASSUME NEW g \in Functions \ {f}, obj[g] # NullPointer
        PROVE  \E o \in rest : o.at = obj[g] /\ o.type = vtable[g]
    <3>1. PICK o \in objects : o.at = obj[g] /\ o.type = vtable[g]
      BY <1>1, <2>3 DEF Owned
    <3>2. obj[g] # obj[f]
      BY <2>3, HeldApart
    <3> QED
      BY <2>1, <3>1, <3>2
  <2> QED
    BY <1>1, <2>1, <2>2, <2>3 DEF Owned
<1> QED
  BY <1>2, <1>3

(* So does a move, which leaves a moved callable to the other function.    *)
LEMMA MoveLeavesOthers ==
  ASSUME FunctionInv, NEW f \in Functions, NEW g \in Functions, f # g, obj[g] # NullPointer
  PROVE  Owned((Function!AfterClear(f) \ {Function!Seen(g)})
                 \cup {[Function!Seen(g) EXCEPT !.captured = Moved]}, Functions \ {f})
<1> DEFINE rest == Function!AfterClear(f)
           seen == Function!Seen(g)
           left == [seen EXCEPT !.captured = Moved]
           both == (rest \ {seen}) \cup {left}
<1>1. Owned(rest, Functions \ {f})
  BY ClearLeavesOthers
<1>2. /\ seen \in objects /\ seen \in Callable /\ seen.at = obj[g] /\ seen.type = vtable[g]
  BY SeenIsHeld
<1>3. left \in Callable /\ left.at = obj[g] /\ left.type = vtable[g]
  BY <1>2 DEF Callable
<1>4. seen \in rest
  <2>1. PICK o \in rest : o.at = obj[g]
    BY <1>1 DEF Owned
  <2>2. o \in objects
    BY <2>1 DEF Function!AfterClear
  <2>3. o = seen
    BY <1>2, <2>1, <2>2 DEF FunctionInv, Owned
  <2> QED
    BY <2>1, <2>3
<1> HIDE DEF rest, seen, left
<1>5. both \subseteq Callable
  BY <1>1, <1>3 DEF Owned
<1>6. ASSUME NEW o \in both
      PROVE  \E h \in Functions \ {f} : obj[h] = o.at /\ vtable[h] = o.type
  BY <1>1, <1>3 DEF Owned
<1>7. ASSUME NEW h \in Functions \ {f}, obj[h] # NullPointer
      PROVE  \E o \in both : o.at = obj[h] /\ o.type = vtable[h]
  <2>1. CASE h = g
    BY <1>3, <2>1
  <2>2. CASE h # g
    <3>1. PICK o \in rest : o.at = obj[h] /\ o.type = vtable[h]
      BY <1>1, <1>7 DEF Owned
    <3>2. obj[h] # obj[g]
      BY <1>7, <2>2, HeldApart
    <3> QED
      BY <1>2, <3>1, <3>2
  <2> QED
    BY <2>1, <2>2
<1>8. ASSUME NEW o \in both, NEW p \in both, o.at = p.at
      PROVE  o = p
  <2>1. \A q \in rest \ {seen} : q.at # obj[g]
    BY <1>1, <1>2, <1>4 DEF Owned
  <2> QED
    BY <1>1, <1>3, <1>8, <2>1 DEF Owned
<1>9. Owned(both, Functions \ {f})
  BY <1>5, <1>6, <1>7, <1>8 DEF Owned
<1> QED
  BY <1>9 DEF rest, seen, left

(* A function takes a callable in, the others keep theirs.                 *)
LEMMA HoldsKeeps ==
  ASSUME FunctionInv, NEW f \in Functions, NEW rest, Owned(rest, Functions \ {f}),
         NEW form \in Function!Storable, NEW captured \in Captures \cup {Moved},
         Function!Holds(f, Function!Placed(f, form, captured), rest)
  PROVE  FunctionInv'
<1> HIDE DEF BufferOf
<1> DEFINE o == Function!Placed(f, form, captured)
<1>1. o.at = PlaceOf(f, form) /\ o.type = form /\ o \in Callable /\ PlaceOf(f, form) \in Nat
  <2>1. PlaceOf(f, form) \in Nat /\ form \in Types
    BY PlacedInside DEF PlaceOf, Function!Storable
  <2> QED
    BY <2>1 DEF Function!Placed, PlaceOf, Callable
<1>2. /\ obj' = [obj EXCEPT ![f] = o.at] /\ vtable' = [vtable EXCEPT ![f] = o.type]
      /\ objects' = rest \cup {o} /\ answer' = NullPointer
  BY DEF Function!Holds
<1> HIDE DEF o
<1>3. /\ obj' \in [Functions -> Nat \cup {NullPointer}]
      /\ vtable' \in [Functions -> Types \cup {NullPointer}]
  BY <1>1, <1>2 DEF FunctionInv, Function!Storable
<1>4. /\ obj'[f] = o.at /\ vtable'[f] = form /\ obj'[f] # NullPointer
      /\ \A g \in Functions \ {f} : obj'[g] = obj[g] /\ vtable'[g] = vtable[g]
  BY <1>1, <1>2, FunctionConstants DEF FunctionInv
<1>5. \A g \in Functions : IF obj'[g] = NullPointer THEN vtable'[g] = NullPointer
                           ELSE vtable'[g] \in Function!Storable /\ obj'[g] = PlaceOf(g, vtable'[g])
  BY <1>1, <1>4 DEF FunctionInv
<1>6. ASSUME NEW p \in rest
      PROVE  p.at # o.at
  <2>1. PICK g \in Functions \ {f} : obj[g] = p.at
    BY DEF Owned
  <2>2. p.at \in Nat
    BY DEF Owned, Callable
  <2>3. vtable[g] \in Function!Storable /\ obj[g] = PlaceOf(g, vtable[g])
    BY <2>1, <2>2, FunctionConstants DEF FunctionInv
  <2> QED
    BY <1>1, <2>1, <2>3, PlacesDiffer
<1>7. /\ \A p \in objects' : \E g \in Functions : obj'[g] = p.at /\ vtable'[g] = p.type
      /\ \A g \in Functions : obj'[g] # NullPointer => \E p \in objects' : p.at = obj'[g] /\ p.type = vtable'[g]
  <2>1. \A p \in rest : \E g \in Functions \ {f} : obj'[g] = p.at /\ vtable'[g] = p.type
    BY <1>4 DEF Owned
  <2>2. \A g \in Functions \ {f} : obj'[g] # NullPointer => \E p \in rest : p.at = obj'[g] /\ p.type = vtable'[g]
    BY <1>4 DEF Owned
  <2> QED
    BY <1>1, <1>2, <1>4, <2>1, <2>2
<1>8. objects' \subseteq Callable /\ \A p, q \in objects' : p.at = q.at => p = q
  BY <1>1, <1>2, <1>6 DEF Owned
<1>9. Owned(objects, Functions)'
  BY <1>7, <1>8 DEF Owned, Callable
<1> QED
  BY <1>2, <1>3, <1>5, <1>9 DEF FunctionInv, Function!Storable, Function!RequiredSpace,
                                  Function!Size, Function!Alignment, PlaceOf, Function!AlignAddr

LEMMA NothingKeeps ==
  ASSUME FunctionInv, NEW f \in Functions, Function!HoldsNothing(f)
  PROVE  FunctionInv'
<1> HIDE DEF BufferOf
<1> DEFINE rest == Function!AfterClear(f)
<1>1. Owned(rest, Functions \ {f})
  BY ClearLeavesOthers
<1>2. /\ obj' = [obj EXCEPT ![f] = NullPointer] /\ vtable' = [vtable EXCEPT ![f] = NullPointer]
      /\ objects' = rest /\ answer' = NullPointer
  BY DEF Function!HoldsNothing
<1> HIDE DEF rest
<1>3. /\ obj' \in [Functions -> Nat \cup {NullPointer}]
      /\ vtable' \in [Functions -> Types \cup {NullPointer}]
  BY <1>2 DEF FunctionInv
<1>4. /\ obj'[f] = NullPointer /\ vtable'[f] = NullPointer
      /\ \A g \in Functions \ {f} : obj'[g] = obj[g] /\ vtable'[g] = vtable[g]
  BY <1>2 DEF FunctionInv
<1>5. \A g \in Functions : IF obj'[g] = NullPointer THEN vtable'[g] = NullPointer
                           ELSE vtable'[g] \in Function!Storable /\ obj'[g] = PlaceOf(g, vtable'[g])
  BY <1>4 DEF FunctionInv
<1>6. Owned(objects, Functions)'
  BY <1>1, <1>2, <1>4 DEF Owned, Callable
<1> QED
  BY <1>2, <1>3, <1>5, <1>6 DEF FunctionInv

LEMMA FunctionBegins ==
  ASSUME Function!FunctionInit
  PROVE  FunctionInv
  BY DEF Function!FunctionInit, FunctionInv, Owned

LEMMA FunctionKeeps ==
  ASSUME FunctionInv, Function!FunctionNext \/ UNCHANGED functionVars
  PROVE  FunctionInv'
<1> HIDE DEF BufferOf
<1>1. ASSUME NEW f \in Functions, NEW form \in Types, NEW captured \in Captures,
             Function!AssignCallable(f, form, captured)
      PROVE  FunctionInv'
  BY <1>1, ClearLeavesOthers, HoldsKeeps DEF Function!AssignCallable
<1>2. ASSUME NEW f \in Functions, Function!Reset(f)
      PROVE  FunctionInv'
  BY <1>2, NothingKeeps DEF Function!Reset
<1>3. ASSUME NEW f \in Functions, Function!Call(f)
      PROVE  FunctionInv'
  <2>1. answer' = Function!Seen(f).captured /\ obj' = obj /\ vtable' = vtable /\ objects' = objects
        /\ obj[f] # NullPointer
    BY <1>3 DEF Function!Call
  <2>2. answer' \in Captures \cup {Moved}
    BY <2>1, SeenIsHeld DEF Callable
  <2> QED
    BY <2>1, <2>2 DEF FunctionInv, Owned
<1>4. ASSUME NEW f \in Functions, NEW g \in Functions, Function!Copy(f, g)
      PROVE  FunctionInv'
  <2>1. CASE obj[g] = NullPointer \/ Function!Seen(g).captured \in Fragile
    BY <1>4, <2>1, NothingKeeps DEF Function!Copy
  <2>2. CASE ~(obj[g] = NullPointer \/ Function!Seen(g).captured \in Fragile)
    <3>1. Function!Holds(f, Function!Placed(f, vtable[g], Function!Seen(g).captured), Function!AfterClear(f))
      BY <1>4, <2>2 DEF Function!Copy
    <3>2. vtable[g] \in Function!Storable /\ Function!Seen(g).captured \in Captures \cup {Moved}
      BY <2>2, SeenIsHeld DEF Callable
    <3> QED
      BY <3>1, <3>2, ClearLeavesOthers, HoldsKeeps
  <2> QED
    BY <2>1, <2>2
<1>5. ASSUME NEW f \in Functions, NEW g \in Functions, Function!Move(f, g)
      PROVE  FunctionInv'
  <2>1. CASE obj[g] = NullPointer
    BY <1>5, <2>1, NothingKeeps DEF Function!Move
  <2>2. CASE obj[g] # NullPointer
    <3> DEFINE rest == (Function!AfterClear(f) \ {Function!Seen(g)})
                         \cup {[Function!Seen(g) EXCEPT !.captured = Moved]}
    <3>1. f # g /\ Function!Holds(f, Function!Placed(f, vtable[g], Function!Seen(g).captured), rest)
      BY <1>5, <2>2 DEF Function!Move
    <3>2. vtable[g] \in Function!Storable /\ Function!Seen(g).captured \in Captures \cup {Moved}
      BY <2>2, SeenIsHeld DEF Callable
    <3>3. Owned(rest, Functions \ {f})
      BY <2>2, <3>1, MoveLeavesOthers
    <3> HIDE DEF rest
    <3> QED
      BY <3>1, <3>2, <3>3, HoldsKeeps
  <2> QED
    BY <2>1, <2>2
<1>6. CASE UNCHANGED functionVars
  BY <1>6 DEF functionVars, FunctionInv, Owned
<1> QED
  BY <1>1, <1>2, <1>3, <1>4, <1>5, <1>6 DEF Function!FunctionNext

LEMMA CallablesOwned ==
  ASSUME FunctionInv
  PROVE  Function!CallablesAreOwned /\ Function!FunctionTypeOK
<1> HIDE DEF BufferOf
<1>1. ASSUME NEW o \in objects
      PROVE  \E f \in Functions :
               /\ obj[f] = o.at /\ vtable[f] = o.type
               /\ o.at % Function!Alignment(o.type) = 0
               /\ o.at >= BufferOf[f] /\ o.at + Function!Size(o.type) <= BufferOf[f] + BufferSize
  <2>1. PICK f \in Functions : obj[f] = o.at /\ vtable[f] = o.type
    BY DEF FunctionInv, Owned
  <2>2. o.at \in Nat /\ o.at # NullPointer
    BY FunctionConstants DEF FunctionInv, Owned, Callable
  <2>3. vtable[f] \in Function!Storable /\ obj[f] = PlaceOf(f, vtable[f])
    BY <2>1, <2>2 DEF FunctionInv
  <2>4. /\ o.at % Function!Alignment(o.type) = 0
        /\ BufferOf[f] <= o.at /\ o.at + Function!Size(o.type) <= BufferOf[f] + BufferSize
    BY <2>1, <2>3, PlacedInside DEF PlaceOf
  <2> QED
    BY <2>1, <2>2, <2>4, FunctionConstants
<1>2. Function!CallablesAreOwned
  BY <1>1 DEF FunctionInv, Owned, Function!CallablesAreOwned
<1>3. \A f \in Functions : obj[f] = NullPointer <=> vtable[f] = NullPointer
  BY FunctionConstants DEF FunctionInv, Function!Storable
<1> QED
  BY <1>2, <1>3 DEF FunctionInv, Owned, Callable, Function!FunctionTypeOK

LEMMA FunctionAlone ==
  ASSUME [MCNext]_allVars
  PROVE  Function!FunctionNext \/ UNCHANGED functionVars
<1>1. CASE FunctionStep
  BY <1>1 DEF FunctionStep
<1>2. CASE RoundRobinStep \/ RecursiveStep \/ StackStep \/ VectorStep \/ NumbersStep
  BY <1>2 DEF RoundRobinStep, RecursiveStep, RecursiveRest, StackStep, VectorStep, NumbersStep,
              roundRobinRest, functionVars
<1>3. CASE UNCHANGED allVars
  BY <1>3 DEF allVars, roundRobinRest, functionVars
<1> QED
  BY <1>1, <1>2, <1>3 DEF MCNext

(* The containers own their items: size_ counts the live items of a        *)
(* static_vector and no step uses a slot in the wrong state, == and < of   *)
(* vectors are those of sequences, and every callable of a static_function *)
(* is destroyed once and lies aligned inside the buffer of its function.   *)
THEOREM ContainersOwn == MCSpec => []ContainersOwnTheirItems
<1>1. MCInit => VectorInv /\ FunctionInv
  BY VectorBegins, FunctionBegins DEF MCInit
<1>2. VectorInv /\ [MCNext]_allVars => VectorInv'
  BY VectorsKeep
<1>3. FunctionInv /\ [MCNext]_allVars => FunctionInv'
  BY FunctionAlone, FunctionKeeps
<1>4. VectorInv /\ FunctionInv => ContainersOwnTheirItems
  BY VectorsAreOrdered, CallablesOwned DEF VectorInv, ContainersOwnTheirItems
<1> QED
  BY <1>1, <1>2, <1>3, <1>4, PTL DEF MCSpec

-----------------------------------------------------------------------------
(* All of them.                                                            *)

(* The invariants of the parts.                                            *)
PartsInv == Inv /\ StackInv /\ RecursiveInv /\ VectorInv /\ FunctionInv /\ BoundedInv /\ PidInv

LEMMA PartsBegin ==
  ASSUME MCInit
  PROVE  PartsInv
<1>1. DepthAssumption /\ NumbersAssumption
  BY PartsAssumption
<1>2. /\ Init /\ Stack!Init /\ RecursiveInit /\ Vector!VectorInit /\ Function!FunctionInit
      /\ BoundedInit /\ PidInit
  BY DEF MCInit
<1>3. Inv /\ RecursiveInv
  BY <1>1, <1>2, SessionInit, InitHolds
<1>4. BoundedInv /\ PidInv
  BY <1>1, <1>2, BoundedBegins, PidBegins
<1>5. StackInv /\ VectorInv /\ FunctionInv
  BY <1>2, StackInit, VectorBegins, FunctionBegins
<1> QED
  BY <1>3, <1>4, <1>5 DEF PartsInv

(* A step is one of the coroutines or the numbers or leaves them alone.    *)
LEMMA CoroutinesAlone ==
  ASSUME [MCNext]_allVars
  PROVE  /\ [Next]_vars /\ [RecursiveNext]_recursiveVars
         /\ [BoundedNext]_boundedVars /\ [PidNext]_pidVars
<1>1. CASE RoundRobinStep
  BY <1>1 DEF RoundRobinStep, roundRobinRest, numberVars, boundedVars, pidVars
<1>2. CASE RecursiveStep
  BY <1>2 DEF RecursiveStep, RecursiveRest, numberVars, boundedVars, pidVars
<1>3. CASE NumbersStep
  BY <1>3 DEF NumbersStep, boundedVars, pidVars
<1>4. CASE StackStep \/ VectorStep \/ FunctionStep
  BY <1>4 DEF StackStep, VectorStep, FunctionStep, numberVars, boundedVars, pidVars
<1>5. CASE UNCHANGED allVars
  BY <1>5 DEF allVars, roundRobinRest, numberVars, boundedVars, pidVars
<1> QED
  BY <1>1, <1>2, <1>3, <1>4, <1>5 DEF MCNext

LEMMA PartsKeep ==
  ASSUME PartsInv, [MCNext]_allVars
  PROVE  PartsInv'
<1>1. DepthAssumption /\ NumbersAssumption
  BY PartsAssumption
<1>2. Inv /\ StackInv /\ RecursiveInv /\ VectorInv /\ FunctionInv /\ BoundedInv /\ PidInv
  BY DEF PartsInv
<1>3. Inv' /\ RecursiveInv'
  BY <1>1, <1>2, CoroutinesAlone, SessionStep, StepKeeps
<1>4. BoundedInv' /\ PidInv'
  BY <1>1, <1>2, CoroutinesAlone, BoundedStepKeeps, PidStepKeeps
<1>5. StackInv' /\ VectorInv' /\ FunctionInv'
  BY <1>2, StackAlone, StackKeeps, VectorsKeep, FunctionAlone, FunctionKeeps
<1> QED
  BY <1>3, <1>4, <1>5 DEF PartsInv

LEMMA PartsHaveTypes ==
  ASSUME PartsInv
  PROVE  LibraryTypeOK
<1>1. Inv /\ StackInv /\ RecursiveInv /\ VectorInv /\ FunctionInv /\ BoundedInv /\ PidInv
  BY DEF PartsInv
<1>2. TypeOK /\ SessionInv
  BY <1>1, TypesFollow DEF Inv
<1>3. Function!FunctionTypeOK
  BY <1>1, CallablesOwned
<1>4. Vector!VectorTypeOK
  <2>1. taken \in Vector!BoundedSeq(Vector!Items, 1)
    BY <1>1 DEF VectorInv, Vector!BoundedSeq, Vector!SeqOf
  <2>2. misused = FALSE
    BY <1>1 DEF VectorInv, Vector!SizeCountsItems
  <2> QED
    BY <1>1, <2>1, <2>2 DEF VectorInv, Vector!VectorTypeOK
<1>5. NumbersTypeOK
  <2>1. val \in ValuesOf(type) /\ ValueInRange
    BY <1>1 DEF BoundedInv
  <2>2. pid \in Regulator
    BY <1>1 DEF PidInv
  <2>3. pid.lim \in Limits /\ pid.last_time \in 0 .. Clock - 1 /\ pid.last_measured \in Measures
    BY <2>2 DEF Regulator
  <2> QED
    BY <2>1, <2>3 DEF NumbersTypeOK
<1> QED
  BY <1>1, <1>2, <1>3, <1>4, <1>5 DEF StackInv, LibraryTypeOK

(* Every variable of every part keeps its type: replies and frames of a    *)
(* session, blocks and nodes of stack_resource, bodies of recursive        *)
(* coroutines, slots, callables and numbers.                               *)
THEOREM LibraryTypes == MCSpec => []LibraryTypeOK
  BY PartsBegin, PartsKeep, PartsHaveTypes, PTL DEF MCSpec

=============================================================================
