----------------------------- MODULE EndpointProofs -----------------------------
(***************************************************************************)
(* What comes out of an endpoint, for every prefix, every largest size of  *)
(* a payload, every checksum that detects the change of one byte, and      *)
(* streams of any length.  Frames is a recursive function: the lemmas      *)
(* derive the recursion it is meant by, then that bytes are dropped only   *)
(* in front of a prefix, then that a packet is one message of any stream   *)
(* that begins with it.                                                    *)
(***************************************************************************)
EXTENDS Endpoint, SequenceTheorems, WellFoundedInduction, TLAPS

Bytes == Seq(Byte)

-----------------------------------------------------------------------------
(* Sequences of bytes.                                                     *)

(* What is behind the first k bytes.                                       *)
LEMMA AfterIs ==
  ASSUME NEW s \in Bytes, NEW k \in 0 .. Len(s)
  PROVE  /\ After(s, k) \in Bytes
         /\ Len(After(s, k)) = Len(s) - k
         /\ \A i \in 1 .. Len(s) - k : After(s, k)[i] = s[k + i]
<1>1. Len(s) \in Nat /\ \A i \in 1 .. Len(s) : s[i] \in Byte
  BY LenProperties, ElementOfSeq DEF Bytes
<1>2. \A i \in k + 1 .. Len(s) : s[i] \in Byte
  BY <1>1
<1>3. /\ SubSeq(s, k + 1, Len(s)) \in Seq(Byte)
      /\ Len(SubSeq(s, k + 1, Len(s))) = IF k + 1 <= Len(s) THEN Len(s) - (k + 1) + 1 ELSE 0
      /\ \A i \in 1 .. Len(s) - (k + 1) + 1 : SubSeq(s, k + 1, Len(s))[i] = s[k + 1 + i - 1]
  <2>1. k + 1 \in Int /\ Len(s) \in Int
    BY <1>1
  <2> QED
    BY <1>2, <2>1, SubSeqProperties
<1>4. Len(After(s, k)) = Len(s) - k
  BY <1>1, <1>3 DEF After
<1>5. ASSUME NEW i \in 1 .. Len(s) - k
      PROVE  After(s, k)[i] = s[k + i]
  <2>1. i \in 1 .. Len(s) - (k + 1) + 1 /\ k + 1 + i - 1 = k + i
    BY <1>1
  <2> QED
    BY <1>3, <2>1 DEF After
<1> QED
  BY <1>3, <1>4, <1>5 DEF After, Bytes

(* Nothing and everything dropped.                                        *)
LEMMA AfterNothing ==
  ASSUME NEW s \in Bytes
  PROVE  After(s, 0) = s /\ After(s, Len(s)) = <<>>
<1>1. Len(s) \in Nat
  BY LenProperties DEF Bytes
<1>2. After(s, 0) = s
  BY SubSeqFull DEF After, Bytes
<1>3. Len(s) + 1 \in Int /\ Len(s) \in Int /\ Len(s) < Len(s) + 1
  BY <1>1
<1>4. After(s, Len(s)) = <<>>
  BY <1>3, SubSeqEmpty DEF After
<1> QED
  BY <1>2, <1>4

(* Dropping twice.                                                         *)
LEMMA AfterAfter ==
  ASSUME NEW s \in Bytes, NEW j \in Nat, NEW k \in Nat, j + k <= Len(s)
  PROVE  After(After(s, j), k) = After(s, j + k)
<1>1. Len(s) \in Nat
  BY LenProperties DEF Bytes
<1>2. j \in 0 .. Len(s) /\ j + k \in 0 .. Len(s) /\ k \in 0 .. Len(s) - j
  BY <1>1
<1> DEFINE t == After(s, j)
           u == After(t, k)
           v == After(s, j + k)
<1>3. t \in Bytes /\ Len(t) = Len(s) - j /\ \A i \in 1 .. Len(s) - j : t[i] = s[j + i]
  BY <1>2, AfterIs
<1> HIDE DEF t
<1>4. u \in Bytes /\ Len(u) = Len(s) - j - k /\ \A i \in 1 .. Len(s) - j - k : u[i] = t[k + i]
  BY <1>2, <1>3, AfterIs
<1>5. v \in Bytes /\ Len(v) = Len(s) - (j + k) /\ \A i \in 1 .. Len(s) - (j + k) : v[i] = s[(j + k) + i]
  BY <1>2, AfterIs
<1> HIDE DEF u, v
<1>6. ASSUME NEW i \in 1 .. Len(u)
      PROVE  u[i] = v[i]
  <2>1. i \in 1 .. Len(s) - j - k /\ i \in 1 .. Len(s) - (j + k) /\ k + i \in 1 .. Len(s) - j
    BY <1>1, <1>2, <1>4
  <2>2. u[i] = s[j + (k + i)] /\ v[i] = s[(j + k) + i]
    BY <1>3, <1>4, <1>5, <2>1
  <2> QED
    BY <2>1, <2>2
<1>7. Len(u) = Len(v)
  BY <1>1, <1>2, <1>4, <1>5
<1>8. u = v
  BY <1>4, <1>5, <1>6, <1>7, SeqEqual DEF Bytes
<1> QED
  BY <1>8 DEF t, u, v

(* Dropping from the first of two parts.                                   *)
LEMMA AfterConcat ==
  ASSUME NEW s \in Bytes, NEW t \in Bytes, NEW k \in 0 .. Len(s)
  PROVE  After(s \o t, k) = After(s, k) \o t
<1>1. Len(s) \in Nat /\ Len(t) \in Nat
  BY LenProperties DEF Bytes
<1> DEFINE c == s \o t
           u == After(c, k)
           a == After(s, k)
           v == a \o t
<1>2. c \in Bytes /\ Len(c) = Len(s) + Len(t)
  BY ConcatProperties DEF Bytes
<1>3. \A i \in 1 .. Len(s) + Len(t) : c[i] = IF i <= Len(s) THEN s[i] ELSE t[i - Len(s)]
  BY ConcatProperties DEF Bytes
<1> HIDE DEF c
<1>4. k \in 0 .. Len(c)
  BY <1>1, <1>2
<1>5. u \in Bytes /\ Len(u) = Len(c) - k /\ \A i \in 1 .. Len(c) - k : u[i] = c[k + i]
  BY <1>2, <1>4, AfterIs
<1>6. a \in Bytes /\ Len(a) = Len(s) - k /\ \A i \in 1 .. Len(s) - k : a[i] = s[k + i]
  BY AfterIs
<1> HIDE DEF u, a
<1>7. v \in Bytes /\ Len(v) = Len(a) + Len(t)
  BY <1>6, ConcatProperties DEF Bytes
<1>8. \A i \in 1 .. Len(a) + Len(t) : v[i] = IF i <= Len(a) THEN a[i] ELSE t[i - Len(a)]
  BY <1>6, ConcatProperties DEF Bytes
<1> HIDE DEF v
<1>9. ASSUME NEW i \in 1 .. Len(u)
      PROVE  u[i] = v[i]
  <2>1. i \in 1 .. Len(c) - k /\ k + i \in 1 .. Len(s) + Len(t) /\ i \in 1 .. Len(a) + Len(t)
    BY <1>1, <1>2, <1>5, <1>6
  <2>2. u[i] = IF k + i <= Len(s) THEN s[k + i] ELSE t[k + i - Len(s)]
    BY <1>3, <1>5, <2>1
  <2>3. v[i] = IF i <= Len(a) THEN a[i] ELSE t[i - Len(a)]
    BY <1>8, <2>1
  <2>4. CASE i <= Len(a)
    <3>1. k + i <= Len(s) /\ i \in 1 .. Len(s) - k
      BY <1>1, <1>6, <2>1, <2>4
    <3> QED
      BY <1>6, <2>2, <2>3, <2>4, <3>1
  <2>5. CASE ~(i <= Len(a))
    <3>1. ~(k + i <= Len(s)) /\ k + i - Len(s) = i - Len(a)
      BY <1>1, <1>6, <2>1, <2>5
    <3> QED
      BY <2>2, <2>3, <2>5, <3>1
  <2> QED
    BY <2>4, <2>5
<1>10. Len(u) = Len(v)
  BY <1>1, <1>2, <1>5, <1>6, <1>7
<1>11. u = v
  BY <1>5, <1>7, <1>9, <1>10, SeqEqual DEF Bytes
<1> QED
  BY <1>11 DEF u, v, a, c

(* Concatenation, byte by byte.                                            *)
LEMMA ConcatIs ==
  ASSUME NEW s \in Bytes, NEW t \in Bytes
  PROVE  /\ s \o t \in Bytes /\ Len(s \o t) = Len(s) + Len(t)
         /\ \A i \in 1 .. Len(s) : (s \o t)[i] = s[i]
         /\ \A i \in 1 .. Len(t) : (s \o t)[Len(s) + i] = t[i]
<1> DEFINE c == s \o t
<1>1. Len(s) \in Nat /\ Len(t) \in Nat
  BY LenProperties DEF Bytes
<1>2. c \in Bytes /\ Len(c) = Len(s) + Len(t)
  BY ConcatProperties DEF Bytes
<1>3. \A i \in 1 .. Len(s) + Len(t) : c[i] = IF i <= Len(s) THEN s[i] ELSE t[i - Len(s)]
  BY ConcatProperties DEF Bytes
<1> HIDE DEF c
<1>4. \A i \in 1 .. Len(s) : c[i] = s[i]
  BY <1>1, <1>3
<1>5. ASSUME NEW i \in 1 .. Len(t)
      PROVE  c[Len(s) + i] = t[i]
  <2>1. Len(s) + i \in 1 .. Len(s) + Len(t) /\ ~(Len(s) + i <= Len(s)) /\ Len(s) + i - Len(s) = i
    BY <1>1
  <2> QED
    BY <1>3, <2>1
<1> QED
  BY <1>2, <1>4, <1>5 DEF c

LEMMA ConcatOfThree ==
  ASSUME NEW s \in Bytes, NEW t \in Bytes, NEW u \in Bytes
  PROVE  s \o (t \o u) = (s \o t) \o u
<1>1. (s \o t) \o u = s \o (t \o u)
  BY ConcatAssociative DEF Bytes
<1> QED
  BY <1>1

(* IsPrefix, byte by byte.                                                 *)
LEMMA PrefixIs ==
  ASSUME NEW s \in Bytes, NEW t \in Bytes
  PROVE  IsPrefix(s, t) <=> Len(s) <= Len(t) /\ \A i \in 1 .. Len(s) : s[i] = t[i]
<1>1. Len(s) \in Nat /\ Len(t) \in Nat
  BY LenProperties DEF Bytes
<1>2. SubSeq(s, 1, Len(s)) = s
  BY SubSeqFull DEF Bytes
<1>3. ASSUME Len(s) <= Len(t)
      PROVE  (SubSeq(t, 1, Len(s)) = s) <=> \A i \in 1 .. Len(s) : s[i] = t[i]
  <2> DEFINE u == SubSeq(t, 1, Len(s))
  <2>1. \A i \in 1 .. Len(s) : t[i] \in Byte
    BY <1>1, <1>3, ElementOfSeq DEF Bytes
  <2>2. u \in Seq(Byte) /\ Len(u) = IF 1 <= Len(s) THEN Len(s) - 1 + 1 ELSE 0
    BY <1>1, <2>1, SubSeqProperties
  <2>3. \A i \in 1 .. Len(s) - 1 + 1 : u[i] = t[1 + i - 1]
    BY <1>1, <2>1, SubSeqProperties
  <2> HIDE DEF u
  <2>4. Len(u) = Len(s) /\ \A i \in 1 .. Len(s) : u[i] = t[i]
    BY <1>1, <2>2, <2>3
  <2>5. ASSUME \A i \in 1 .. Len(s) : s[i] = t[i]
        PROVE  u = s
    BY <2>2, <2>4, <2>5, SeqEqual DEF Bytes
  <2> QED
    BY <2>4, <2>5 DEF u
<1> QED
  BY <1>2, <1>3 DEF IsPrefix

-----------------------------------------------------------------------------
(* Frames.                                                                 *)

(* What is known of the constants.                                         *)
LEMMA ConstantsHold ==
  /\ MaxPayload \in Nat /\ Len(Prefix) \in Nat /\ Len(Prefix) >= 1 /\ Prefix \in Bytes
  /\ FixedSize = Len(Prefix) + 1 /\ FixedSize \in Nat
  /\ MessageCapacity = FixedSize + MaxPayload + 1 /\ MessageCapacity \in Nat
  /\ BufferCapacity = 2 * MessageCapacity
  /\ \A b \in Byte : b \in Nat
  /\ \A n \in 0 .. MaxPayload : n \in Byte
<1>1. /\ MaxPayload \in Nat /\ Prefix \in Bytes /\ Prefix # <<>>
      /\ \A b \in Byte : b \in Nat
      /\ \A n \in 0 .. MaxPayload : n \in Byte
  BY PrefixAssumption, ByteAssumption DEF Bytes
<1>2. Len(Prefix) \in Nat /\ Len(Prefix) # 0
  BY <1>1, EmptySeq DEF Bytes
<1> QED
  BY <1>1, <1>2 DEF FixedSize, MessageCapacity, BufferCapacity, ChecksumSize

(* A size is at least that of an empty payload; it is at most the capacity *)
(* exactly when its byte is the size of a payload.                         *)
LEMMA MessageSizeIs ==
  ASSUME NEW s \in Bytes, Len(s) >= FixedSize
  PROVE  /\ s[FixedSize] \in Byte
         /\ MessageSize(s) = s[FixedSize] + FixedSize + 1
         /\ MessageSize(s) \in Nat
         /\ FixedSize < MessageSize(s)
         /\ MessageSize(s) <= MessageCapacity <=> ~Oversized(s)
<1>1. Len(s) \in Nat
  BY LenProperties DEF Bytes
<1>2. FixedSize \in 1 .. Len(s)
  BY <1>1, ConstantsHold
<1>3. s[FixedSize] \in Byte
  BY <1>2, ElementOfSeq DEF Bytes
<1> QED
  BY <1>3, ConstantsHold DEF MessageSize, ChecksumSize, Oversized

(* What the last n bytes hold, when f is what fewer bytes hold.            *)
Scan(s, f, n) ==
  LET rest == After(s, Len(s) - n)
  IN  IF n = 0 THEN <<>>
      ELSE IF ~IsPrefix(Prefix, rest) THEN f[n - 1]
      ELSE IF ~Complete(rest) THEN <<>>
      ELSE <<SubSeq(rest, 1, MessageSize(rest))>> \o f[n - MessageSize(rest)]

Scanned(s) == CHOOSE f : f = [n \in 0 .. Len(s) |-> Scan(s, f, n)]

LEMMA FramesAreScanned ==
  \A s : Frames(s) = Scanned(s)[Len(s)]
  BY DEF Frames, Scanned, Scan

LEMMA ScanDependsOnLess ==
  ASSUME NEW s \in Bytes, NEW f, NEW g, NEW n \in 0 .. Len(s),
         \A m \in 0 .. n - 1 : f[m] = g[m]
  PROVE  Scan(s, f, n) = Scan(s, g, n)
<1>1. Len(s) \in Nat
  BY LenProperties DEF Bytes
<1>2. CASE n = 0
  BY <1>2 DEF Scan
<1>3. CASE n # 0
  <2> DEFINE rest == After(s, Len(s) - n)
  <2>1. Len(s) - n \in 0 .. Len(s) /\ n - 1 \in 0 .. n - 1
    BY <1>1, <1>3
  <2>2. rest \in Bytes /\ Len(rest) = Len(s) - (Len(s) - n)
    BY <2>1, AfterIs
  <2> HIDE DEF rest
  <2>2a. Len(rest) = n
    BY <1>1, <2>2
  <2>3. f[n - 1] = g[n - 1]
    BY <2>1
  <2>4. ASSUME Complete(rest)
        PROVE  f[n - MessageSize(rest)] = g[n - MessageSize(rest)]
    <3>1. Len(rest) >= FixedSize /\ Len(rest) >= MessageSize(rest)
      BY <2>4 DEF Complete
    <3>2. n - MessageSize(rest) \in 0 .. n - 1
      BY <2>2, <2>2a, <3>1, MessageSizeIs, ConstantsHold
    <3> QED
      BY <3>2
  <2>5. Scan(s, f, n) = IF ~IsPrefix(Prefix, rest) THEN f[n - 1]
                        ELSE IF ~Complete(rest) THEN <<>>
                        ELSE <<SubSeq(rest, 1, MessageSize(rest))>> \o f[n - MessageSize(rest)]
    BY <1>3 DEF Scan, rest
  <2>6. Scan(s, g, n) = IF ~IsPrefix(Prefix, rest) THEN g[n - 1]
                        ELSE IF ~Complete(rest) THEN <<>>
                        ELSE <<SubSeq(rest, 1, MessageSize(rest))>> \o g[n - MessageSize(rest)]
    BY <1>3 DEF Scan, rest
  <2> QED
    <3>1. CASE IsPrefix(Prefix, rest) /\ Complete(rest)
      BY <2>4, <2>5, <2>6, <3>1
    <3>2. CASE IsPrefix(Prefix, rest) /\ ~Complete(rest)
      BY <2>5, <2>6, <3>2
    <3>3. CASE ~IsPrefix(Prefix, rest)
      BY <2>3, <2>5, <2>6, <3>3
    <3> QED
      BY <3>1, <3>2, <3>3
<1> QED
  BY <1>2, <1>3

(* A set of numbers has a least one: induction by least counterexample.    *)
LEMMA LeastExists ==
  ASSUME NEW S \in SUBSET Nat, S # {}
  PROVE  \E i \in S : \A j \in S : i <= j
<1>1. \E i \in S : \A j \in S : ~(<<j, i>> \in OpToRel(<, Nat))
  BY WFMin, NatLessThanWellFounded, Zenon
<1>2. PICK i \in S : \A j \in S : ~(<<j, i>> \in OpToRel(<, Nat))
  BY <1>1
<1>3. ASSUME NEW j \in S
      PROVE  i <= j
  <2>1. i \in Nat /\ j \in Nat
    OBVIOUS
  <2>2. ~(j < i)
    BY <1>2, <1>3, <2>1 DEF OpToRel
  <2> QED
    BY <2>1, <2>2
<1> QED
  BY <1>3

(* The function that Frames chooses exists: it is built from the end of    *)
(* the stream on, one byte at a time.                                      *)
LEMMA ScanExists ==
  ASSUME NEW s \in Bytes
  PROVE  \A k \in 0 .. Len(s) : \E f : f = [n \in 0 .. k |-> Scan(s, f, n)]
<1> DEFINE Bad == {k \in 0 .. Len(s) : ~\E f : f = [n \in 0 .. k |-> Scan(s, f, n)]}
<1>0. Len(s) \in Nat
  BY LenProperties DEF Bytes
<1>1. SUFFICES ASSUME Bad # {} PROVE FALSE
  OBVIOUS
<1>2. Bad \in SUBSET Nat
  BY <1>0
<1>3. PICK k \in Bad : \A j \in Bad : k <= j
  <2> HIDE DEF Bad
  <2> QED
    BY <1>1, <1>2, LeastExists
<1>4. k \in 0 .. Len(s) /\ ~\E f : f = [n \in 0 .. k |-> Scan(s, f, n)]
  BY <1>3
<1>5. CASE k = 0
  <2> DEFINE f == [n \in 0 .. 0 |-> <<>>]
  <2>1. \A n \in 0 .. 0 : Scan(s, f, n) = <<>>
    BY DEF Scan
  <2>2. f = [n \in 0 .. 0 |-> Scan(s, f, n)]
    BY <2>1
  <2> QED
    BY <1>4, <1>5, <2>2
<1>6. CASE k # 0
  <2>1. k - 1 \in 0 .. Len(s) /\ k - 1 \in Nat /\ ~(k <= k - 1)
    BY <1>0, <1>4, <1>6
  <2>2. k - 1 \notin Bad
    <3> HIDE DEF Bad
    <3> QED
      BY <1>3, <2>1
  <2>3. PICK f : f = [n \in 0 .. k - 1 |-> Scan(s, f, n)]
    BY <2>1, <2>2
  <2> DEFINE g == [n \in 0 .. k |-> IF n = k THEN Scan(s, f, k) ELSE f[n]]
  <2>4. \A n \in 0 .. k - 1 : g[n] = f[n]
    BY <1>0, <1>4
  <2>5. g[k] = Scan(s, f, k)
    BY <1>0, <1>4
  <2>6. DOMAIN g = 0 .. k /\ g = [n \in DOMAIN g |-> g[n]]
    OBVIOUS
  <2> HIDE DEF g
  <2>7. ASSUME NEW n \in 0 .. k
        PROVE  g[n] = Scan(s, g, n)
    <3>1. n \in 0 .. Len(s) /\ \A m \in 0 .. n - 1 : m \in 0 .. k - 1
      BY <1>0, <1>4
    <3>2. Scan(s, g, n) = Scan(s, f, n)
      BY <2>4, <3>1, ScanDependsOnLess
    <3>3. CASE n = k
      BY <2>5, <3>2, <3>3
    <3>4. CASE n # k
      <4>1. n \in 0 .. k - 1
        BY <1>0, <1>4, <3>4
      <4>2. f[n] = Scan(s, f, n)
        BY <2>3, <4>1, Zenon
      <4> QED
        BY <2>4, <3>2, <4>1, <4>2
    <3> QED
      BY <3>3, <3>4
  <2>8. g = [n \in 0 .. k |-> Scan(s, g, n)]
    BY <2>6, <2>7, Zenon
  <2> QED
    BY <1>4, <2>8
<1> QED
  BY <1>5, <1>6

LEMMA ScannedIs ==
  ASSUME NEW s \in Bytes, NEW n \in 0 .. Len(s)
  PROVE  Scanned(s)[n] = Scan(s, Scanned(s), n)
<1>1. Len(s) \in 0 .. Len(s)
  BY LenProperties DEF Bytes
<1>2. \E f : f = [m \in 0 .. Len(s) |-> Scan(s, f, m)]
  BY <1>1, ScanExists
<1>3. Scanned(s) = [m \in 0 .. Len(s) |-> Scan(s, Scanned(s), m)]
  BY <1>2, Zenon DEF Scanned
<1> QED
  BY <1>3, Zenon

(* What a stream holds from some byte on does not depend on what is before *)
(* that byte.                                                              *)
LEMMA ScannedOfAfter ==
  ASSUME NEW s \in Bytes, NEW j \in 0 .. Len(s)
  PROVE  \A n \in 0 .. Len(s) - j : Scanned(s)[n] = Scanned(After(s, j))[n]
<1> DEFINE t == After(s, j)
           f == Scanned(s)
           g == Scanned(t)
           Bad == {n \in 0 .. Len(s) - j : f[n] # g[n]}
<1>1. Len(s) \in Nat
  BY LenProperties DEF Bytes
<1>2. t \in Bytes /\ Len(t) = Len(s) - j
  BY AfterIs
<1>3. SUFFICES ASSUME Bad # {} PROVE FALSE
  <2> HIDE DEF f, g
  <2> QED
    BY <1>3 DEF f, g
<1>4. Bad \in SUBSET Nat
  BY <1>1
<1>5. PICK n \in Bad : \A m \in Bad : n <= m
  <2> HIDE DEF Bad
  <2> QED
    BY <1>3, <1>4, LeastExists
<1>6. n \in 0 .. Len(s) - j /\ f[n] # g[n]
  BY <1>5
<1>7. ASSUME NEW m \in 0 .. n - 1
      PROVE  f[m] = g[m]
  <2>1. m \in 0 .. Len(s) - j /\ ~(n <= m)
    BY <1>1, <1>6
  <2>2. m \notin Bad
    <3> HIDE DEF Bad
    <3> QED
      BY <1>5, <2>1
  <2> QED
    BY <2>1, <2>2
<1>8. f[n] = Scan(s, f, n)
  BY <1>1, <1>6, ScannedIs
<1>9. g[n] = Scan(t, g, n)
  BY <1>2, <1>6, ScannedIs
<1>10. n \in 0 .. Len(s)
  BY <1>1, <1>6
<1> HIDE DEF f, g, Bad
<1>11. Scan(s, f, n) = Scan(s, g, n)
  BY <1>7, <1>10, ScanDependsOnLess
<1>12. After(t, Len(t) - n) = After(s, Len(s) - n)
  <2> DEFINE k == Len(t) - n
  <2>1. k \in Nat /\ j \in Nat /\ j + k <= Len(s) /\ j + k = Len(s) - n
    BY <1>1, <1>2, <1>6
  <2> HIDE DEF k
  <2>2. After(After(s, j), k) = After(s, j + k)
    BY <2>1, AfterAfter
  <2> QED
    BY <2>1, <2>2 DEF k, t
<1>13. Scan(t, g, n) = Scan(s, g, n)
  BY <1>12 DEF Scan
<1> QED
  BY <1>6, <1>8, <1>9, <1>11, <1>13

LEMMA FramesOfAfter ==
  ASSUME NEW s \in Bytes, NEW j \in 0 .. Len(s)
  PROVE  Scanned(s)[Len(s) - j] = Frames(After(s, j))
<1>1. Len(s) \in Nat
  BY LenProperties DEF Bytes
<1>2. Len(After(s, j)) = Len(s) - j /\ Len(s) - j \in 0 .. Len(s) - j
  BY <1>1, AfterIs
<1>3. Scanned(s)[Len(s) - j] = Scanned(After(s, j))[Len(s) - j]
  BY <1>2, ScannedOfAfter
<1> QED
  BY <1>2, <1>3, FramesAreScanned

(* The recursion that Frames is meant by.                                  *)
LEMMA FramesOfNothing == Frames(<<>>) = <<>>
<1>1. <<>> \in Bytes /\ Len(<<>>) = 0 /\ 0 \in 0 .. 0
  BY EmptySeq DEF Bytes
<1>2. Frames(<<>>) = Scan(<<>>, Scanned(<<>>), 0)
  BY <1>1, ScannedIs, FramesAreScanned
<1> QED
  BY <1>2 DEF Scan

LEMMA FramesUnfold ==
  ASSUME NEW s \in Bytes, s # <<>>
  PROVE  /\ ~IsPrefix(Prefix, s) => Frames(s) = Frames(After(s, 1))
         /\ IsPrefix(Prefix, s) /\ ~Complete(s) => Frames(s) = <<>>
         /\ IsPrefix(Prefix, s) /\ Complete(s) =>
              Frames(s) = <<SubSeq(s, 1, MessageSize(s))>> \o Frames(After(s, MessageSize(s)))
<1> DEFINE n == Len(s)
           f == Scanned(s)
<1>1. n \in Nat /\ n # 0
  BY LenProperties, EmptySeq DEF Bytes
<1>2. Frames(s) = Scan(s, f, n)
  BY <1>1, FramesAreScanned, ScannedIs
<1>3. After(s, n - n) = s
  <2>1. n - n = 0
    BY <1>1
  <2> QED
    BY <2>1, AfterNothing
<1>4. f[n - 1] = Frames(After(s, 1))
  BY <1>1, FramesOfAfter
<1>5. ASSUME Complete(s)
      PROVE  f[n - MessageSize(s)] = Frames(After(s, MessageSize(s)))
  <2>1. n >= FixedSize /\ n >= MessageSize(s)
    BY <1>5 DEF Complete
  <2>2. MessageSize(s) \in 0 .. n
    BY <1>1, <2>1, MessageSizeIs
  <2> QED
    BY <2>2, FramesOfAfter
<1> HIDE DEF n, f
<1>6. Scan(s, f, n) = IF ~IsPrefix(Prefix, s) THEN f[n - 1]
                      ELSE IF ~Complete(s) THEN <<>>
                      ELSE <<SubSeq(s, 1, MessageSize(s))>> \o f[n - MessageSize(s)]
  BY <1>1, <1>3 DEF Scan, n
<1> QED
  BY <1>2, <1>4, <1>5, <1>6

-----------------------------------------------------------------------------
(* Messages and what is extracted of them.                                 *)

Messages == {m \in Bytes : Complete(m) /\ Len(m) = MessageSize(m)}

Result == [ok : BOOLEAN, bytes : Bytes]

(* Values and errors that can be returned.                                 *)
Fitting == [ok : BOOLEAN, bytes : Payload]

(* n bytes behind the first k.                                             *)
LEMMA MiddleBytes ==
  ASSUME NEW s \in Bytes, NEW k \in Nat, NEW n \in Nat, k + n <= Len(s)
  PROVE  /\ SubSeq(s, k + 1, k + n) \in Bytes
         /\ Len(SubSeq(s, k + 1, k + n)) = n
         /\ \A i \in 1 .. n : SubSeq(s, k + 1, k + n)[i] = s[k + i]
<1> DEFINE a == k + 1
           b == k + n
<1>1. Len(s) \in Nat
  BY LenProperties DEF Bytes
<1>2. a \in Int /\ b \in Int /\ b - a + 1 = n /\ (a <= b <=> n # 0)
  OBVIOUS
<1>3. \A i \in a .. b : i \in 1 .. Len(s)
  BY <1>1
<1>4. \A i \in a .. b : s[i] \in Byte
  BY <1>3, ElementOfSeq DEF Bytes
<1>5. \A i \in 1 .. n : a + i - 1 = k + i
  OBVIOUS
<1> HIDE DEF a, b
<1>6. /\ SubSeq(s, a, b) \in Seq(Byte)
      /\ Len(SubSeq(s, a, b)) = IF a <= b THEN b - a + 1 ELSE 0
      /\ \A i \in 1 .. b - a + 1 : SubSeq(s, a, b)[i] = s[a + i - 1]
  BY <1>2, <1>4, SubSeqProperties
<1> DEFINE t == SubSeq(s, a, b)
<1>7. t \in Bytes /\ Len(t) = n /\ \A i \in 1 .. n : t[i] = s[k + i]
  <2>1. Len(t) = n
    BY <1>2, <1>6
  <2> QED
    BY <1>2, <1>5, <1>6, <2>1 DEF Bytes
<1>8. t = SubSeq(s, k + 1, k + n)
  BY DEF a, b
<1> HIDE DEF t
<1> QED
  BY <1>7, <1>8

(* The first bytes of a sequence.                                          *)
LEMMA FirstBytes ==
  ASSUME NEW s \in Bytes, NEW n \in 0 .. Len(s)
  PROVE  /\ SubSeq(s, 1, n) \in Bytes
         /\ Len(SubSeq(s, 1, n)) = n
         /\ \A i \in 1 .. n : SubSeq(s, 1, n)[i] = s[i]
<1>1. Len(s) \in Nat
  BY LenProperties DEF Bytes
<1>2. \A i \in 1 .. n : s[i] \in Byte
  BY <1>1, ElementOfSeq DEF Bytes
<1>3. n \in Int /\ 1 \in Int
  BY <1>1
<1>4. /\ SubSeq(s, 1, n) \in Seq(Byte)
      /\ Len(SubSeq(s, 1, n)) = IF 1 <= n THEN n - 1 + 1 ELSE 0
      /\ \A i \in 1 .. n - 1 + 1 : SubSeq(s, 1, n)[i] = s[1 + i - 1]
  BY <1>2, <1>3, SubSeqProperties
<1>5. Len(SubSeq(s, 1, n)) = n
  BY <1>1, <1>4
<1>6. ASSUME NEW i \in 1 .. n
      PROVE  SubSeq(s, 1, n)[i] = s[i]
  <2>1. i \in 1 .. n - 1 + 1 /\ 1 + i - 1 = i
    BY <1>1
  <2> QED
    BY <1>4, <2>1
<1> QED
  BY <1>4, <1>5, <1>6 DEF Bytes

(* A complete message is a message of its size.                            *)
LEMMA FirstMessage ==
  ASSUME NEW s \in Bytes, Complete(s)
  PROVE  /\ MessageSize(s) \in 1 .. Len(s)
         /\ SubSeq(s, 1, MessageSize(s)) \in Messages
<1>1. Len(s) \in Nat /\ Len(s) >= FixedSize /\ Len(s) >= MessageSize(s)
  BY LenProperties DEF Complete, Bytes
<1> DEFINE n == MessageSize(s)
           m == SubSeq(s, 1, n)
<1>2. n \in Nat /\ FixedSize < n /\ n \in 0 .. Len(s)
  BY <1>1, MessageSizeIs
<1>3. m \in Bytes /\ Len(m) = n /\ \A i \in 1 .. n : m[i] = s[i]
  BY <1>2, FirstBytes
<1>4. FixedSize \in 1 .. n
  BY <1>2, ConstantsHold
<1>5. MessageSize(m) = n
  BY <1>3, <1>4 DEF MessageSize
<1>6. Complete(m)
  BY <1>2, <1>3, <1>5, ConstantsHold DEF Complete
<1>7. n \in 1 .. Len(s)
  BY <1>1, <1>2, ConstantsHold
<1> QED
  BY <1>3, <1>5, <1>6, <1>7 DEF Messages

(* Induction over the length of a stream.                                  *)
LEMMA FramesAreMessages ==
  \A s \in Bytes : Frames(s) \in Seq(Messages)
<1> DEFINE Bad == {n \in Nat : \E s \in Bytes : Len(s) = n /\ Frames(s) \notin Seq(Messages)}
<1>1. SUFFICES ASSUME Bad # {} PROVE FALSE
  <2>1. Bad = {}
    BY <1>1
  <2>2. \A s \in Bytes : Len(s) \in Nat
    BY LenProperties DEF Bytes
  <2> QED
    BY <2>1, <2>2
<1>2. PICK n \in Bad : \A m \in Bad : n <= m
  <2>1. Bad \in SUBSET Nat
    OBVIOUS
  <2> HIDE DEF Bad
  <2> QED
    BY <1>1, <2>1, LeastExists
<1>3. n \in Nat
  BY <1>2
<1>4. PICK s \in Bytes : Len(s) = n /\ Frames(s) \notin Seq(Messages)
  BY <1>2
<1>5. ASSUME NEW k \in 1 .. n
      PROVE  Frames(After(s, k)) \in Seq(Messages)
  <2>0. k \in 0 .. Len(s)
    BY <1>3, <1>4
  <2>1. After(s, k) \in Bytes /\ Len(After(s, k)) = n - k
    <3> HIDE DEF Bad
    <3> QED
      BY <1>4, <2>0, AfterIs
  <2>2. n - k \in Nat /\ ~(n <= n - k)
    BY <1>3
  <2>3. n - k \notin Bad
    <3> HIDE DEF Bad
    <3> QED
      BY <1>2, <2>2
  <2> QED
    BY <2>1, <2>2, <2>3
<1> HIDE DEF Bad
<1>6. <<>> \in Seq(Messages)
  BY EmptySeq
<1>7. s # <<>>
  BY <1>4, <1>6, FramesOfNothing
<1>8. n # 0
  BY <1>4, <1>7, EmptySeq DEF Bytes
<1>9. CASE ~IsPrefix(Prefix, s)
  <2>1. 1 \in 1 .. n
    BY <1>3, <1>8
  <2> QED
    BY <1>4, <1>5, <1>7, <1>9, <2>1, FramesUnfold
<1>10. CASE IsPrefix(Prefix, s) /\ ~Complete(s)
  BY <1>4, <1>6, <1>7, <1>10, FramesUnfold
<1>11. CASE IsPrefix(Prefix, s) /\ Complete(s)
  <2> DEFINE m == SubSeq(s, 1, MessageSize(s))
             r == Frames(After(s, MessageSize(s)))
  <2>1. MessageSize(s) \in 1 .. n /\ m \in Messages
    BY <1>4, <1>11, FirstMessage
  <2>2. r \in Seq(Messages)
    BY <1>5, <2>1
  <2>3. Frames(s) = <<m>> \o r
    BY <1>7, <1>11, FramesUnfold
  <2> HIDE DEF m, r
  <2>4. <<m>> \in Seq(Messages)
    BY <2>1
  <2>5. Frames(s) \in Seq(Messages)
    BY <2>2, <2>3, <2>4, ConcatProperties
  <2> QED
    BY <1>4, <2>5
<1> QED
  BY <1>9, <1>10, <1>11

(* Less than a prefix and a size holds no message.                         *)
LEMMA ShortHoldsNothing ==
  \A s \in Bytes : Len(s) < FixedSize => Frames(s) = <<>>
<1> DEFINE Bad == {n \in Nat : \E s \in Bytes : Len(s) = n /\ n < FixedSize /\ Frames(s) # <<>>}
<1>1. SUFFICES ASSUME Bad # {} PROVE FALSE
  <2>1. Bad = {}
    BY <1>1
  <2>2. \A s \in Bytes : Len(s) \in Nat
    BY LenProperties DEF Bytes
  <2> QED
    BY <2>1, <2>2
<1>2. PICK n \in Bad : \A m \in Bad : n <= m
  <2>1. Bad \in SUBSET Nat
    OBVIOUS
  <2> HIDE DEF Bad
  <2> QED
    BY <1>1, <2>1, LeastExists
<1>3. n \in Nat
  BY <1>2
<1>4. PICK s \in Bytes : Len(s) = n /\ n < FixedSize /\ Frames(s) # <<>>
  BY <1>2
<1>5. s # <<>>
  BY <1>4, FramesOfNothing
<1>6. n # 0
  BY <1>4, <1>5, EmptySeq DEF Bytes
<1>7. After(s, 1) \in Bytes /\ Len(After(s, 1)) = n - 1
  BY <1>3, <1>4, <1>6, AfterIs
<1>8. Frames(After(s, 1)) = <<>>
  <2>1. n - 1 \in Nat /\ ~(n <= n - 1) /\ n - 1 < FixedSize
    BY <1>3, <1>4, <1>6, ConstantsHold
  <2>2. n - 1 \notin Bad
    <3> HIDE DEF Bad
    <3> QED
      BY <1>2, <2>1
  <2> QED
    BY <1>7, <2>1, <2>2
<1>9. ~Complete(s)
  BY <1>3, <1>4, ConstantsHold DEF Complete
<1> HIDE DEF Bad
<1> QED
  BY <1>4, <1>5, <1>8, <1>9, FramesUnfold

LEMMA PayloadIs ==
  ASSUME NEW p
  PROVE  p \in Payload <=> p \in Bytes /\ Len(p) <= MaxPayload
<1>1. MaxPayload \in Nat
  BY ConstantsHold
<1>2. ASSUME p \in Payload
      PROVE  p \in Bytes /\ Len(p) <= MaxPayload
  <2>1. PICK m \in 0 .. MaxPayload : p \in [1 .. m -> Byte]
    BY <1>2 DEF Payload, BoundedSeq, SeqOf
  <2>2. p \in Seq(Byte)
    BY <1>1, <2>1
  <2>3. Len(p) = m
    BY <1>1, <2>1, <2>2
  <2> QED
    BY <1>1, <2>2, <2>3 DEF Bytes
<1>3. ASSUME p \in Bytes, Len(p) <= MaxPayload
      PROVE  p \in Payload
  <2>1. p \in [1 .. Len(p) -> Byte] /\ Len(p) \in Nat
    BY <1>3, LenProperties DEF Bytes
  <2>2. Len(p) \in 0 .. MaxPayload
    BY <1>1, <1>3, <2>1
  <2> QED
    BY <2>1, <2>2 DEF Payload, BoundedSeq, SeqOf
<1> QED
  BY <1>2, <1>3

(* What a message holds is a payload if its size is the size of one.       *)
LEMMA PayloadOfMessage ==
  ASSUME NEW m \in Messages
  PROVE  /\ PayloadOf(m) \in Bytes
         /\ MessageSize(m) <= MessageCapacity => PayloadOf(m) \in Payload
         /\ Len(PayloadOf(m)) = m[FixedSize]
         /\ \A i \in 1 .. m[FixedSize] : PayloadOf(m)[i] = m[FixedSize + i]
<1> DEFINE n == m[FixedSize]
<1>1. m \in Bytes /\ Len(m) \in Nat /\ Len(m) >= FixedSize /\ Len(m) = MessageSize(m)
  BY LenProperties DEF Messages, Complete, Bytes
<1>2. /\ n \in Nat /\ Len(m) = n + FixedSize + 1
      /\ MessageSize(m) <= MessageCapacity => n <= MaxPayload
  BY <1>1, MessageSizeIs, ConstantsHold
<1> HIDE DEF n
<1> DEFINE p == SubSeq(m, FixedSize + 1, FixedSize + n)
<1>3. p \in Bytes /\ Len(p) = n /\ \A i \in 1 .. n : p[i] = m[FixedSize + i]
  <2>1. FixedSize \in Nat /\ FixedSize + n <= Len(m)
    BY <1>2, ConstantsHold
  <2> QED
    BY <1>1, <1>2, <2>1, MiddleBytes
<1> HIDE DEF p
<1>7. MessageSize(m) <= MessageCapacity => p \in Payload
  BY <1>2, <1>3, PayloadIs
<1>8. PayloadOf(m) = p
  BY DEF PayloadOf, p, n
<1> QED
  BY <1>3, <1>7, <1>8 DEF n

LEMMA ResultsAreTyped ==
  /\ \A p \in Bytes : Value(p) \in Result
  /\ \A p \in Payload : Value(p) \in Fitting
  /\ ChecksumError \in Fitting
  /\ Fitting \subseteq Result
<1>1. <<>> \in Payload
  <2>1. <<>> \in Bytes /\ Len(<<>>) <= MaxPayload
    BY EmptySeq, ConstantsHold DEF Bytes
  <2> QED
    BY <2>1, PayloadIs
<1> QED
  BY <1>1, PayloadIs DEF Value, ChecksumError, Result, Fitting

(* Sequences of results that fit are sequences of results.                 *)
LEMMA FittingSeq ==
  ASSUME NEW r \in Seq(Fitting)
  PROVE  r \in Seq(Result)
<1>1. r \in [1 .. Len(r) -> Fitting] /\ Len(r) \in Nat
  BY LenProperties
<1>2. \A i \in 1 .. Len(r) : r[i] \in Result
  BY <1>1, ResultsAreTyped
<1>3. r \in [1 .. Len(r) -> Result]
  BY <1>1, <1>2
<1> QED
  BY <1>1, <1>3

LEMMA ExtractIsResult ==
  ASSUME NEW m \in Messages
  PROVE  /\ Extract(m) \in Result
         /\ MessageSize(m) <= MessageCapacity => Extract(m) \in Fitting
  BY PayloadOfMessage, ResultsAreTyped DEF Extract

LEMMA ExtractedIs ==
  ASSUME NEW ms \in Seq(Messages)
  PROVE  /\ Extracted(ms) \in Seq(Result)
         /\ Len(Extracted(ms)) = Len(ms)
         /\ \A i \in 1 .. Len(ms) : Extracted(ms)[i] = Extract(ms[i])
<1>1. Len(ms) \in Nat /\ DOMAIN ms = 1 .. Len(ms)
  BY LenProperties
<1>2. Extracted(ms) = [i \in 1 .. Len(ms) |-> Extract(ms[i])]
  BY <1>1 DEF Extracted
<1>3. \A i \in 1 .. Len(ms) : Extract(ms[i]) \in Result
  BY ElementOfSeq, ExtractIsResult
<1>4. Extracted(ms) \in [1 .. Len(ms) -> Result]
  BY <1>2, <1>3
<1>5. Extracted(ms) \in Seq(Result)
  BY <1>1, <1>4
<1>6. Len(Extracted(ms)) = Len(ms)
  BY <1>1, <1>2, <1>5
<1> QED
  BY <1>2, <1>5, <1>6

LEMMA ExtractedOfNothing == Extracted(<<>>) = <<>>
<1>1. <<>> \in Seq(Messages) /\ Len(<<>>) = 0
  BY EmptySeq
<1>2. Extracted(<<>>) \in Seq(Result) /\ Len(Extracted(<<>>)) = 0
  BY <1>1, ExtractedIs
<1> QED
  BY <1>2, EmptySeq

LEMMA ExtractedOfFirst ==
  ASSUME NEW m \in Messages, NEW ms \in Seq(Messages)
  PROVE  Extracted(<<m>> \o ms) = <<Extract(m)>> \o Extracted(ms)
<1> DEFINE all == <<m>> \o ms
           u == Extracted(all)
           w == Extracted(ms)
           v == <<Extract(m)>> \o w
<1>1. <<m>> \in Seq(Messages) /\ Len(<<m>>) = 1 /\ Len(ms) \in Nat /\ <<m>>[1] = m
  BY LenProperties
<1>2. all \in Seq(Messages) /\ Len(all) = 1 + Len(ms)
  BY <1>1, ConcatProperties
<1>3. \A i \in 1 .. 1 + Len(ms) : all[i] = IF i <= 1 THEN m ELSE ms[i - 1]
  <2>1. \A i \in 1 .. 1 + Len(ms) : all[i] = IF i <= 1 THEN <<m>>[i] ELSE ms[i - 1]
    BY <1>1, ConcatProperties
  <2> HIDE DEF all
  <2> QED
    BY <1>1, <2>1
<1> HIDE DEF all
<1>4. u \in Seq(Result) /\ Len(u) = 1 + Len(ms) /\ \A i \in 1 .. 1 + Len(ms) : u[i] = Extract(all[i])
  BY <1>2, ExtractedIs
<1>5. w \in Seq(Result) /\ Len(w) = Len(ms) /\ \A i \in 1 .. Len(ms) : w[i] = Extract(ms[i])
  BY ExtractedIs
<1> HIDE DEF u, w
<1>6. Extract(m) \in Result /\ <<Extract(m)>> \in Seq(Result) /\ Len(<<Extract(m)>>) = 1 /\ <<Extract(m)>>[1] = Extract(m)
  BY ExtractIsResult
<1>7. v \in Seq(Result) /\ Len(v) = 1 + Len(w)
  BY <1>5, <1>6, ConcatProperties
<1>8. \A i \in 1 .. 1 + Len(w) : v[i] = IF i <= 1 THEN Extract(m) ELSE w[i - 1]
  <2>1. \A i \in 1 .. 1 + Len(w) : v[i] = IF i <= 1 THEN <<Extract(m)>>[i] ELSE w[i - 1]
    BY <1>5, <1>6, ConcatProperties
  <2> HIDE DEF v
  <2> QED
    BY <1>5, <1>6, <2>1, <1>1
<1> HIDE DEF v
<1>9. ASSUME NEW i \in 1 .. Len(u)
      PROVE  u[i] = v[i]
  <2>1. i \in 1 .. 1 + Len(ms) /\ i \in 1 .. 1 + Len(w)
    BY <1>4, <1>5
  <2>2. CASE i <= 1
    BY <1>3, <1>4, <1>8, <2>1, <2>2
  <2>3. CASE ~(i <= 1)
    <3>1. i - 1 \in 1 .. Len(ms)
      BY <1>1, <2>1, <2>3
    <3> QED
      BY <1>3, <1>4, <1>5, <1>8, <2>1, <2>3, <3>1
  <2> QED
    BY <2>2, <2>3
<1>10. u = v
  BY <1>4, <1>5, <1>7, <1>9, SeqEqual
<1> QED
  BY <1>10 DEF u, v, w, all

-----------------------------------------------------------------------------
(* What the sequencer drops and what it hands out.                         *)

LEMMA PrefixOfLonger ==
  ASSUME NEW s \in Bytes, NEW x \in Bytes
  PROVE  /\ IsPrefix(Prefix, s \o x) => IsPrefix(Prefix, s) \/ IsPrefix(s, Prefix)
         /\ IsPrefix(Prefix, s) => IsPrefix(Prefix, s \o x)
<1> DEFINE c == s \o x
<1>1. Prefix \in Bytes /\ Len(Prefix) \in Nat /\ Len(s) \in Nat /\ Len(x) \in Nat
  BY ConstantsHold, LenProperties DEF Bytes
<1>2. c \in Bytes /\ Len(c) = Len(s) + Len(x)
  BY ConcatProperties DEF Bytes
<1>3. \A i \in 1 .. Len(s) + Len(x) : c[i] = IF i <= Len(s) THEN s[i] ELSE x[i - Len(s)]
  BY ConcatProperties DEF Bytes
<1> HIDE DEF c
<1>4. \A i \in 1 .. Len(s) : c[i] = s[i]
  BY <1>1, <1>3
<1>5. IsPrefix(Prefix, c) <=> Len(Prefix) <= Len(c) /\ \A i \in 1 .. Len(Prefix) : Prefix[i] = c[i]
  BY <1>1, <1>2, PrefixIs
<1>6. IsPrefix(Prefix, s) <=> Len(Prefix) <= Len(s) /\ \A i \in 1 .. Len(Prefix) : Prefix[i] = s[i]
  BY <1>1, PrefixIs
<1>7. IsPrefix(s, Prefix) <=> Len(s) <= Len(Prefix) /\ \A i \in 1 .. Len(s) : s[i] = Prefix[i]
  BY <1>1, PrefixIs
<1>8. CASE Len(Prefix) <= Len(s)
  <2>1. \A i \in 1 .. Len(Prefix) : c[i] = s[i]
    BY <1>1, <1>4, <1>8
  <2>2. Len(Prefix) <= Len(c)
    BY <1>1, <1>2, <1>8
  <2> QED
    BY <1>5, <1>6, <1>8, <2>1, <2>2 DEF c
<1>9. CASE ~(Len(Prefix) <= Len(s))
  <2>1. Len(s) <= Len(Prefix) /\ \A i \in 1 .. Len(s) : i \in 1 .. Len(Prefix)
    BY <1>1, <1>9
  <2> QED
    BY <1>4, <1>5, <1>6, <1>7, <1>9, <2>1 DEF c
<1> QED
  BY <1>8, <1>9

(* What arrives later does not change a message that is there, nor the     *)
(* size of one whose size is there.                                        *)
LEMMA SizeStays ==
  ASSUME NEW s \in Bytes, NEW x \in Bytes, Len(s) >= FixedSize
  PROVE  MessageSize(s \o x) = MessageSize(s)
<1>1. FixedSize \in 1 .. Len(s) /\ FixedSize \in 1 .. Len(s) + Len(x) /\ FixedSize <= Len(s)
  BY LenProperties, ConstantsHold DEF Bytes
<1>2. (s \o x)[FixedSize] = s[FixedSize]
  BY <1>1, ConcatProperties DEF Bytes
<1> QED
  BY <1>2 DEF MessageSize

LEMMA MessageStays ==
  ASSUME NEW s \in Bytes, NEW x \in Bytes, Complete(s)
  PROVE  /\ Complete(s \o x)
         /\ MessageSize(s \o x) = MessageSize(s)
         /\ SubSeq(s \o x, 1, MessageSize(s)) = SubSeq(s, 1, MessageSize(s))
         /\ After(s \o x, MessageSize(s)) = After(s, MessageSize(s)) \o x
<1>1. Len(s) \in Nat /\ Len(x) \in Nat /\ Len(s) >= FixedSize /\ Len(s) >= MessageSize(s)
  BY LenProperties DEF Bytes, Complete
<1>2. s \o x \in Bytes /\ Len(s \o x) = Len(s) + Len(x)
  BY ConcatProperties DEF Bytes
<1>3. MessageSize(s \o x) = MessageSize(s)
  BY <1>1, SizeStays
<1>4. MessageSize(s) \in 1 .. Len(s)
  BY FirstMessage
<1>5. Complete(s \o x)
  BY <1>1, <1>2, <1>3, <1>4, ConstantsHold DEF Complete
<1>6. SubSeq(s \o x, 1, MessageSize(s)) = SubSeq(s, 1, MessageSize(s))
  <2>1. 1 \in 1 .. Len(s)
    BY <1>1, <1>4
  <2> QED
    BY <1>4, <2>1, SubSeqOfConcat1 DEF Bytes
<1>7. MessageSize(s) \in 0 .. Len(s)
  BY <1>1, <1>4
<1> QED
  BY <1>3, <1>5, <1>6, <1>7, AfterConcat

(* get_message() drops up to the first place where a message may start.    *)
LEMMA AlignedIs ==
  ASSUME NEW b \in Bytes
  PROVE  \E k \in 0 .. Len(b) :
           /\ Aligned(b) = After(b, k)
           /\ MayStart(b, k)
           /\ \A j \in 0 .. k - 1 : ~MayStart(b, j)
<1> DEFINE Starts == {k \in 0 .. Len(b) : MayStart(b, k)}
<1>1. Len(b) \in Nat
  BY LenProperties DEF Bytes
<1>2. Len(b) \in Starts
  <2>1. IsPrefix(<<>>, Prefix)
    <3>1. <<>> \in Bytes /\ Len(<<>>) = 0
      BY EmptySeq DEF Bytes
    <3> QED
      BY <3>1, PrefixIs, ConstantsHold
  <2>2. Len(b) = 0 => b = <<>>
    BY EmptySeq DEF Bytes
  <2> QED
    BY <1>1, <2>1, <2>2, AfterNothing DEF MayStart
<1>3. PICK k \in Starts : \A j \in Starts : k <= j
  <2>1. Starts \in SUBSET Nat
    BY <1>1
  <2> HIDE DEF Starts
  <2> QED
    BY <1>2, <2>1, LeastExists
<1>4. k \in 0 .. Len(b) /\ MayStart(b, k)
  BY <1>3
<1>5. ASSUME NEW j \in 0 .. k - 1
      PROVE  ~MayStart(b, j)
  <2>1. j \in 0 .. Len(b) /\ ~(k <= j)
    BY <1>1, <1>4
  <2>2. j \notin Starts
    <3> HIDE DEF Starts
    <3> QED
      BY <1>3, <2>1
  <2> QED
    BY <2>1, <2>2
<1> HIDE DEF Starts
<1> QED
  BY <1>4, <1>5, Zenon DEF Aligned

(* No message begins with a byte that is dropped, unless a full buffer     *)
(* iterates as an empty one.                                               *)
LEMMA DroppingKeepsFrames ==
  ASSUME ~PowerOfTwo(BufferCapacity), NEW b \in Bytes, NEW x \in Bytes
  PROVE  Frames(Aligned(b) \o x) = Frames(b \o x)
<1>1. Len(b) \in Nat
  BY LenProperties DEF Bytes
<1>2. PICK k \in 0 .. Len(b) :
        Aligned(b) = After(b, k) /\ \A j \in 0 .. k - 1 : ~MayStart(b, j)
  BY AlignedIs
<1> DEFINE Bad == {j \in 0 .. k : Frames(After(b, j) \o x) # Frames(b \o x)}
<1>3. SUFFICES ASSUME Bad # {} PROVE FALSE
  BY <1>1, <1>2
<1>4. PICK j \in Bad : \A i \in Bad : j <= i
  <2>1. Bad \in SUBSET Nat
    BY <1>1
  <2> HIDE DEF Bad
  <2> QED
    BY <1>3, <2>1, LeastExists
<1>5. j \in 0 .. k /\ Frames(After(b, j) \o x) # Frames(b \o x)
  BY <1>4
<1>6. j # 0
  BY <1>5, AfterNothing
<1> DEFINE i == j - 1
           s == After(b, i)
<1>7. i \in 0 .. k /\ i \in 0 .. k - 1 /\ i \in 0 .. Len(b) /\ i + 1 = j /\ ~(j <= i) /\ i < Len(b)
  BY <1>1, <1>5, <1>6
<1> HIDE DEF i
<1>8. Frames(s \o x) = Frames(b \o x)
  <2>1. i \notin Bad
    <3> HIDE DEF Bad
    <3> QED
      BY <1>4, <1>7
  <2> QED
    BY <1>7, <2>1
<1> HIDE DEF Bad
<1>9. s \in Bytes /\ Len(s) = Len(b) - i
  BY <1>7, AfterIs
<1>10. After(s, 1) = After(b, j)
  <2>1. i \in Nat /\ i + 1 <= Len(b)
    BY <1>1, <1>7
  <2> QED
    BY <1>7, <2>1, AfterAfter
<1>11. ~IsPrefix(Prefix, s) /\ ~IsPrefix(s, Prefix)
  <2>1. ~MayStart(b, i)
    BY <1>2, <1>7
  <2>2. i = 0 => b = <<>> \/ ~IteratesAsEmpty(b)
    BY DEF IteratesAsEmpty
  <2> QED
    BY <2>1, <2>2 DEF MayStart
<1> HIDE DEF s
<1>12. 1 \in 0 .. Len(s)
  BY <1>1, <1>7, <1>9
<1>13. s \o x \in Bytes /\ s \o x # <<>>
  <2>1. s \o x \in Bytes /\ Len(s \o x) = Len(s) + Len(x) /\ Len(s) \in Nat /\ Len(x) \in Nat
    BY <1>9, LenProperties, ConcatProperties DEF Bytes
  <2>2. Len(s \o x) # 0
    BY <1>12, <2>1
  <2> QED
    BY <2>1, <2>2
<1>14. Frames(s \o x) = Frames(After(s \o x, 1))
  BY <1>9, <1>11, <1>13, PrefixOfLonger, FramesUnfold
<1>15. After(s \o x, 1) = After(s, 1) \o x
  BY <1>9, <1>12, AfterConcat
<1> QED
  BY <1>5, <1>8, <1>10, <1>14, <1>15

(* get_message() finds what an aligned stream begins with.                 *)
LEMMA AlignedMessage ==
  ASSUME NEW b \in Bytes, Request(Aligned(b)) = 0
  PROVE  Complete(Aligned(b)) /\ IsPrefix(Prefix, Aligned(b)) /\ Aligned(b) \in Bytes
<1> DEFINE s == Aligned(b)
<1>1. PICK k \in 0 .. Len(b) : s = After(b, k) /\ MayStart(b, k)
  BY AlignedIs
<1>2. s \in Bytes /\ (IsPrefix(Prefix, s) \/ IsPrefix(s, Prefix))
  BY <1>1, AfterIs DEF MayStart
<1> HIDE DEF s
<1>3. Len(s) \in Nat
  BY <1>2, LenProperties DEF Bytes
<1>4. Request(s) = 0
  BY DEF s
<1>5. Len(s) >= FixedSize
  BY <1>3, <1>4, ConstantsHold DEF Request
<1>6. ~(Len(s) < MessageSize(s))
  BY <1>2, <1>3, <1>4, <1>5, MessageSizeIs, ConstantsHold DEF Request
<1>7. Complete(s)
  BY <1>2, <1>3, <1>5, <1>6, MessageSizeIs DEF Complete
<1>8. ~IsPrefix(s, Prefix)
  BY <1>2, <1>3, <1>5, ConstantsHold, PrefixIs
<1> QED
  BY <1>2, <1>7, <1>8 DEF s

(* A message at the begin of a stream is the first value of it.            *)
LEMMA FramesOfMessage ==
  ASSUME NEW s \in Bytes, NEW x \in Bytes, IsPrefix(Prefix, s), Complete(s)
  PROVE  /\ SubSeq(s, 1, MessageSize(s)) \in Messages
         /\ After(s, MessageSize(s)) \in Bytes
         /\ Extracted(Frames(s \o x)) =
              <<Extract(SubSeq(s, 1, MessageSize(s)))>>
                \o Extracted(Frames(After(s, MessageSize(s)) \o x))
<1> DEFINE m == SubSeq(s, 1, MessageSize(s))
           r == After(s, MessageSize(s))
<1>1. MessageSize(s) \in 1 .. Len(s) /\ m \in Messages /\ Len(s) \in Nat
  BY FirstMessage, LenProperties DEF Bytes
<1>2. MessageSize(s) \in 0 .. Len(s)
  BY <1>1
<1>3. r \in Bytes
  BY <1>2, AfterIs
<1>4. s \o x \in Bytes /\ s \o x # <<>>
  <2>1. s \o x \in Bytes /\ Len(s \o x) = Len(s) + Len(x) /\ Len(x) \in Nat
    BY LenProperties, ConcatProperties DEF Bytes
  <2>2. Len(s \o x) # 0
    BY <1>1, <2>1
  <2> QED
    BY <2>1, <2>2
<1>5. Frames(s \o x) = <<m>> \o Frames(r \o x)
  <2>1. IsPrefix(Prefix, s \o x)
    BY PrefixOfLonger
  <2>2. Frames(s \o x) = <<SubSeq(s \o x, 1, MessageSize(s \o x))>> \o Frames(After(s \o x, MessageSize(s \o x)))
    BY <1>4, <2>1, MessageStays, FramesUnfold
  <2> QED
    BY <2>2, MessageStays
<1>6. r \o x \in Bytes
  BY <1>3, ConcatProperties DEF Bytes
<1>7. Frames(r \o x) \in Seq(Messages)
  BY <1>6, FramesAreMessages
<1> HIDE DEF m, r
<1>8. Extracted(Frames(s \o x)) = <<Extract(m)>> \o Extracted(Frames(r \o x))
  BY <1>1, <1>5, <1>7, ExtractedOfFirst
<1> QED
  BY <1>1, <1>3, <1>8 DEF m, r

-----------------------------------------------------------------------------
(* What is sent.                                                           *)

LEMMA AreaIs ==
  ASSUME NEW p \in Payload
  PROVE  /\ Area(p) \in Bytes /\ Len(Area(p)) = FixedSize + Len(p) /\ Len(p) \in Nat
         /\ Area(p)[FixedSize] = Len(p)
         /\ \A i \in 1 .. Len(Prefix) : Area(p)[i] = Prefix[i]
         /\ \A i \in 1 .. Len(p) : Area(p)[FixedSize + i] = p[i]
<1>1. p \in Bytes /\ Len(p) \in Nat /\ Len(p) <= MaxPayload
  BY PayloadIs, LenProperties DEF Bytes
<1>2. Prefix \in Bytes /\ Len(Prefix) \in Nat /\ FixedSize = Len(Prefix) + 1
  BY ConstantsHold
<1> DEFINE h == <<Len(p)>>
           z == h \o p
           a == Prefix \o z
<1>3. h \in Bytes /\ Len(h) = 1 /\ h[1] = Len(p)
  <2>1. Len(p) \in Byte
    BY <1>1, ConstantsHold
  <2> QED
    BY <2>1 DEF Bytes
<1> HIDE DEF h
<1>4. /\ z \in Bytes /\ Len(z) = Len(h) + Len(p)
      /\ \A i \in 1 .. Len(h) : z[i] = h[i]
      /\ \A i \in 1 .. Len(p) : z[Len(h) + i] = p[i]
  BY <1>1, <1>3, ConcatIs
<1> HIDE DEF z
<1>5. /\ a \in Bytes /\ Len(a) = Len(Prefix) + Len(z)
      /\ \A i \in 1 .. Len(Prefix) : a[i] = Prefix[i]
      /\ \A i \in 1 .. Len(z) : a[Len(Prefix) + i] = z[i]
  BY <1>2, <1>4, ConcatIs
<1>6. Area(p) = a
  BY DEF Area, SizedBuffer, a, z, h
<1> HIDE DEF a
<1>7. Len(z) = 1 + Len(p)
  BY <1>1, <1>3, <1>4
<1>8. a[FixedSize] = Len(p)
  <2>1. 1 \in 1 .. Len(h) /\ 1 \in 1 .. Len(z)
    BY <1>1, <1>3, <1>7
  <2> QED
    BY <1>2, <1>3, <1>4, <1>5, <2>1
<1>9. ASSUME NEW i \in 1 .. Len(p)
      PROVE  a[FixedSize + i] = p[i]
  <2>1. 1 + i \in 1 .. Len(z) /\ FixedSize + i = Len(Prefix) + (1 + i)
    BY <1>1, <1>2, <1>7
  <2>2. z[1 + i] = p[i]
    BY <1>3, <1>4
  <2> QED
    BY <1>5, <2>1, <2>2
<1>10. Len(a) = FixedSize + Len(p)
  BY <1>1, <1>2, <1>5, <1>7
<1> QED
  BY <1>1, <1>5, <1>6, <1>8, <1>9, <1>10

LEMMA SerializedIs ==
  ASSUME NEW p \in Payload
  PROVE  /\ Serialized(p) \in Bytes
         /\ Len(Serialized(p)) = FixedSize + Len(p) + 1
         /\ \A i \in 1 .. FixedSize + Len(p) : Serialized(p)[i] = Area(p)[i]
         /\ Serialized(p)[FixedSize + Len(p) + 1] = Checksum(Area(p))
<1>1. Area(p) \in Bytes /\ Len(Area(p)) = FixedSize + Len(p)
  BY AreaIs
<1>2. Checksum(Area(p)) \in Byte
  BY ChecksumAssumption
<1>3. Serialized(p) = Append(Area(p), Checksum(Area(p)))
  BY DEF Serialized
<1> QED
  BY <1>1, <1>2, <1>3, AppendProperties DEF Bytes

(* A packet whose prefix and size are right, whatever the rest.            *)
LEMMA PacketIsMessage ==
  ASSUME NEW p \in Payload, NEW q \in Bytes, NEW x \in Bytes,
         Len(q) = FixedSize + Len(p) + 1,
         \A i \in 1 .. FixedSize : q[i] = Serialized(p)[i]
  PROVE  /\ q \in Messages
         /\ Extracted(Frames(q \o x)) = <<Extract(q)>> \o Extracted(Frames(x))
<1>1. Len(p) \in Nat /\ FixedSize \in Nat /\ FixedSize = Len(Prefix) + 1 /\ Len(Prefix) \in Nat
        /\ Prefix \in Bytes
  BY AreaIs, ConstantsHold
<1>2. \A i \in 1 .. FixedSize : q[i] = Area(p)[i]
  BY <1>1, SerializedIs
<1>3. q[FixedSize] = Len(p)
  <2>1. FixedSize \in 1 .. FixedSize
    BY <1>1
  <2> QED
    BY <1>2, <2>1, AreaIs
<1>4. IsPrefix(Prefix, q)
  <2>1. ASSUME NEW i \in 1 .. Len(Prefix)
        PROVE  Prefix[i] = q[i]
    <3>1. i \in 1 .. FixedSize
      BY <1>1
    <3> QED
      BY <1>2, <3>1, AreaIs
  <2>2. Len(Prefix) <= Len(q)
    BY <1>1
  <2> QED
    BY <1>1, <2>1, <2>2, PrefixIs
<1>5. MessageSize(q) = Len(q)
  BY <1>1, <1>3 DEF MessageSize, ChecksumSize
<1>6. Complete(q)
  BY <1>1, <1>5 DEF Complete
<1>7. SubSeq(q, 1, Len(q)) = q /\ After(q, Len(q)) = <<>>
  BY SubSeqFull, AfterNothing DEF Bytes
<1>8. <<>> \o x = x
  BY ConcatEmptySeq DEF Bytes
<1>9. q \in Messages
  BY <1>5, <1>6 DEF Messages
<1>10. SubSeq(q, 1, MessageSize(q)) = q /\ After(q, MessageSize(q)) = <<>>
  BY <1>5, <1>7
<1>11. Extracted(Frames(q \o x)) = <<Extract(SubSeq(q, 1, MessageSize(q)))>>
                \o Extracted(Frames(After(q, MessageSize(q)) \o x))
  BY <1>4, <1>6, FramesOfMessage
<1> QED
  BY <1>8, <1>9, <1>10, <1>11

LEMMA FrontAndLast ==
  ASSUME NEW q \in Bytes, NEW a \in Bytes, Len(q) = Len(a) + 1,
         \A i \in 1 .. Len(a) : q[i] = a[i]
  PROVE  Front(q) = a /\ Last(q) = q[Len(a) + 1]
<1>1. Len(a) \in Nat /\ Len(q) - 1 = Len(a) /\ Len(a) \in 0 .. Len(q)
  BY LenProperties DEF Bytes
<1> DEFINE f == SubSeq(q, 1, Len(a))
<1>2. f \in Bytes /\ Len(f) = Len(a) /\ \A i \in 1 .. Len(a) : f[i] = q[i]
  BY <1>1, FirstBytes
<1>3. Front(q) = f
  BY <1>1 DEF Front
<1> HIDE DEF f
<1>4. f = a
  BY <1>2, SeqEqual DEF Bytes
<1> QED
  BY <1>3, <1>4 DEF Last

(* An undamaged packet gives the value sent.                               *)
LEMMA PacketGivesValue ==
  ASSUME NEW p \in Payload, NEW x \in Bytes
  PROVE  /\ Serialized(p) \in Bytes
         /\ Extracted(Frames(Serialized(p) \o x)) = <<Value(p)>> \o Extracted(Frames(x))
<1> DEFINE q == Serialized(p)
           a == Area(p)
<1>1. q \in Bytes /\ Len(q) = FixedSize + Len(p) + 1
  BY SerializedIs
<1>2. a \in Bytes /\ Len(a) = FixedSize + Len(p) /\ Len(p) \in Nat
  BY AreaIs
<1>3. FixedSize \in Nat
  BY ConstantsHold
<1>4. \A i \in 1 .. Len(a) : q[i] = a[i]
  BY <1>2, SerializedIs
<1>5. q[Len(a) + 1] = Checksum(a)
  BY <1>2, SerializedIs
<1>6. q \in Messages /\ Extracted(Frames(q \o x)) = <<Extract(q)>> \o Extracted(Frames(x))
  BY <1>1, PacketIsMessage
<1>7. Front(q) = a /\ Last(q) = Checksum(a)
  <2> HIDE DEF q, a
  <2> QED
    BY <1>1, <1>2, <1>4, <1>5, FrontAndLast
<1>8. Extract(q) = Value(PayloadOf(q))
  BY <1>7 DEF Extract
<1>9. PayloadOf(q) = p
  <2>1. p \in Bytes
    BY PayloadIs
  <2>2. q[FixedSize] = Len(p)
    <3>1. FixedSize \in 1 .. Len(a)
      BY <1>2, <1>3, ConstantsHold
    <3> QED
      BY <1>4, <3>1, AreaIs
  <2>3. /\ PayloadOf(q) \in Bytes /\ Len(PayloadOf(q)) = Len(p)
        /\ \A i \in 1 .. Len(p) : PayloadOf(q)[i] = q[FixedSize + i]
    <3> HIDE DEF q
    <3> QED
      BY <1>6, <2>2, PayloadOfMessage, PayloadIs
  <2>4. ASSUME NEW i \in 1 .. Len(p)
        PROVE  PayloadOf(q)[i] = p[i]
    <3>1. FixedSize + i \in 1 .. Len(a)
      BY <1>2, <1>3
    <3> QED
      BY <1>4, <2>3, <3>1, AreaIs
  <2> HIDE DEF q
  <2> QED
    BY <2>1, <2>3, <2>4, SeqEqual DEF Bytes
<1> QED
  BY <1>1, <1>6, <1>8, <1>9

(* A damaged packet gives an error.                                        *)
LEMMA DamagedGivesError ==
  ASSUME NEW p \in Payload, NEW b \in Byte, NEW x \in Bytes,
         NEW i \in FixedSize + 1 .. Len(Serialized(p)),
         Serialized(p)[i] # b
  PROVE  /\ [Serialized(p) EXCEPT ![i] = b] \in Bytes
         /\ Extracted(Frames([Serialized(p) EXCEPT ![i] = b] \o x))
              = <<ChecksumError>> \o Extracted(Frames(x))
<1> DEFINE s == Serialized(p)
           q == [s EXCEPT ![i] = b]
           a == Area(p)
<1>1. s \in Bytes /\ Len(s) = FixedSize + Len(p) + 1
  BY SerializedIs
<1>2. a \in Bytes /\ Len(a) = FixedSize + Len(p) /\ Len(p) \in Nat
  BY AreaIs
<1>3. FixedSize \in Nat
  BY ConstantsHold
<1>4. \A j \in 1 .. Len(a) : s[j] = a[j]
  BY <1>2, SerializedIs
<1>5. s[Len(a) + 1] = Checksum(a)
  BY <1>2, SerializedIs
<1>6. i \in 1 .. Len(s) /\ i \in FixedSize + 1 .. Len(s)
  BY <1>1, <1>2, <1>3
<1>7. s[i] # b
  OBVIOUS
<1>8. \A j \in 1 .. FixedSize : s[j] = Serialized(p)[j]
  OBVIOUS
<1>14. ASSUME i \in FixedSize + 1 .. Len(a)
       PROVE  a[i] # b => Checksum([a EXCEPT ![i] = b]) # Checksum(a)
  BY <1>14, ChecksumAssumption
<1> HIDE DEF s, a
<1>9. q \in Bytes /\ Len(q) = Len(s) /\ \A j \in 1 .. Len(s) : q[j] = IF j = i THEN b ELSE s[j]
  BY <1>1, <1>6, ExceptSeq DEF Bytes
<1> HIDE DEF q
<1>10. q \in Messages /\ Extracted(Frames(q \o x)) = <<Extract(q)>> \o Extracted(Frames(x))
  <2>1. \A j \in 1 .. FixedSize : q[j] = Serialized(p)[j]
    <3>1. \A j \in 1 .. FixedSize : j \in 1 .. Len(s) /\ j # i
      BY <1>1, <1>2, <1>3, <1>6
    <3> QED
      BY <1>8, <1>9, <3>1
  <2> QED
    BY <1>1, <1>9, <2>1, PacketIsMessage
<1>11. Last(q) # Checksum(Front(q))
  <2>1. CASE i = Len(s)
    <3>1. \A j \in 1 .. Len(a) : j \in 1 .. Len(s) /\ j # i
      BY <1>1, <1>2, <1>3, <2>1
    <3>2. \A j \in 1 .. Len(a) : q[j] = a[j]
      BY <1>4, <1>9, <3>1
    <3>3. Len(q) = Len(a) + 1
      BY <1>1, <1>2, <1>3, <1>9
    <3>4. Front(q) = a /\ Last(q) = q[Len(a) + 1]
      BY <1>2, <1>9, <3>2, <3>3, FrontAndLast
    <3>5. q[Len(a) + 1] = b /\ b # Checksum(a)
      BY <1>5, <1>6, <1>7, <1>9, <2>1, <3>3
    <3> QED
      BY <3>4, <3>5
  <2>2. CASE i # Len(s)
    <3> DEFINE c == [a EXCEPT ![i] = b]
    <3>1. i \in 1 .. Len(a) /\ i \in FixedSize + 1 .. Len(a)
      BY <1>1, <1>2, <1>3, <1>6, <2>2
    <3>2. c \in Bytes /\ Len(c) = Len(a) /\ \A j \in 1 .. Len(a) : c[j] = IF j = i THEN b ELSE a[j]
      BY <1>2, <3>1, ExceptSeq DEF Bytes
    <3>6. Checksum(c) # Checksum(a)
      BY <1>4, <1>7, <1>14, <3>1
    <3> HIDE DEF c
    <3>3. \A j \in 1 .. Len(a) : j \in 1 .. Len(s)
      BY <1>1, <1>2, <1>3
    <3>4. \A j \in 1 .. Len(c) : q[j] = c[j]
      BY <1>4, <1>9, <3>2, <3>3
    <3>5. Len(q) = Len(c) + 1 /\ Len(a) + 1 \in 1 .. Len(s) /\ Len(a) + 1 # i
      BY <1>1, <1>2, <1>3, <1>9, <3>1, <3>2
    <3>7. Front(q) = c /\ Last(q) = q[Len(c) + 1]
      BY <1>9, <3>2, <3>4, <3>5, FrontAndLast
    <3>8. q[Len(a) + 1] = Checksum(a)
      BY <1>5, <1>9, <3>5
    <3> QED
      BY <3>2, <3>6, <3>7, <3>8
  <2> QED
    BY <2>1, <2>2
<1>12. Extract(q) = ChecksumError
  BY <1>11 DEF Extract
<1>13. q = [Serialized(p) EXCEPT ![i] = b]
  BY DEF q, s
<1> QED
  BY <1>9, <1>10, <1>12, <1>13

-----------------------------------------------------------------------------
(* Types.                                                                  *)

LEMMA SendTypes ==
  ASSUME TypeOK, NEW bytes \in Bytes, Send(bytes)
  PROVE  /\ stream' \in Bytes /\ received' \in 0 .. Len(stream')
         /\ After(stream', received) = After(stream, received) \o bytes
<1>1. stream \in Bytes /\ Len(stream) \in Nat /\ received \in 0 .. Len(stream) /\ Len(bytes) \in Nat
  BY LenProperties DEF TypeOK, Bytes
<1>2. stream' = stream \o bytes /\ received' = received
  BY DEF Send
<1>3. stream' \in Bytes /\ Len(stream') = Len(stream) + Len(bytes)
  BY <1>1, <1>2, ConcatIs
<1>4. received' \in 0 .. Len(stream')
  BY <1>1, <1>2, <1>3
<1> QED
  BY <1>1, <1>2, <1>3, <1>4, AfterConcat

(* Every Send is one of a sequence of bytes.                               *)
LEMMA WhatIsSent ==
  /\ SendPacket => \E p \in Payload : /\ Serialized(p) \in Bytes /\ Send(Serialized(p))
                                      /\ clean /\ clean' = clean /\ sent' = Append(sent, Value(p))
  /\ SendDamaged => \E p \in Payload, b \in Byte :
       \E i \in FixedSize + 1 .. Len(Serialized(p)) :
         /\ Serialized(p)[i] # b
         /\ [Serialized(p) EXCEPT ![i] = b] \in Bytes
         /\ Send([Serialized(p) EXCEPT ![i] = b])
         /\ clean /\ clean' = clean /\ sent' = Append(sent, ChecksumError)
  /\ SendNoise => \E b \in Byte :
       /\ <<b>> \in Bytes /\ Send(<<b>>)
       /\ clean' = (clean /\ b # Head(Prefix))
       /\ sent' = IF clean' THEN sent ELSE <<>>
<1>1. ASSUME SendPacket
      PROVE  \E p \in Payload : /\ Serialized(p) \in Bytes /\ Send(Serialized(p))
                                /\ clean /\ clean' = clean /\ sent' = Append(sent, Value(p))
  BY <1>1, SerializedIs DEF SendPacket
<1>2. ASSUME SendDamaged
      PROVE  \E p \in Payload, b \in Byte :
               \E i \in FixedSize + 1 .. Len(Serialized(p)) :
                 /\ Serialized(p)[i] # b
                 /\ [Serialized(p) EXCEPT ![i] = b] \in Bytes
                 /\ Send([Serialized(p) EXCEPT ![i] = b])
                 /\ clean /\ clean' = clean /\ sent' = Append(sent, ChecksumError)
  <2>0. PICK p \in Payload, b \in Byte : \E j \in FixedSize + 1 .. Len(Serialized(p)) :
          Serialized(p)[j] # b /\ Send([Serialized(p) EXCEPT ![j] = b])
    BY <1>2 DEF SendDamaged
  <2>1. PICK i \in FixedSize + 1 .. Len(Serialized(p)) :
          Serialized(p)[i] # b /\ Send([Serialized(p) EXCEPT ![i] = b])
    BY <2>0
  <2>2. Serialized(p) \in Bytes /\ Len(Serialized(p)) \in Nat
    BY SerializedIs, LenProperties DEF Bytes
  <2>3. i \in 1 .. Len(Serialized(p))
    BY <2>2, ConstantsHold
  <2>4. [Serialized(p) EXCEPT ![i] = b] \in Bytes
    BY <2>2, <2>3, ExceptSeq DEF Bytes
  <2>5. clean /\ clean' = clean /\ sent' = Append(sent, ChecksumError)
    BY <1>2 DEF SendDamaged
  <2> QED
    BY <2>1, <2>4, <2>5
<1>3. ASSUME SendNoise
      PROVE  \E b \in Byte :
               /\ <<b>> \in Bytes /\ Send(<<b>>)
               /\ clean' = (clean /\ b # Head(Prefix))
               /\ sent' = IF clean' THEN sent ELSE <<>>
  <2>1. \A b \in Byte : <<b>> \in Bytes
    BY DEF Bytes
  <2> QED
    BY <1>3, <2>1 DEF SendNoise
<1> QED
  BY <1>1, <1>2, <1>3

LEMMA InsertTypes ==
  ASSUME TypeOK, NEW n \in Nat, Insert(n)
  PROVE  /\ buffer' \in Bytes /\ received' \in 0 .. Len(stream)
         /\ buffer' \o After(stream, received') = buffer \o After(stream, received)
<1>1. /\ stream \in Bytes /\ Len(stream) \in Nat /\ received \in 0 .. Len(stream)
      /\ buffer \in Bytes
  BY LenProperties DEF TypeOK, Bytes
<1>2. /\ buffer' = buffer \o SubSeq(stream, received + 1, received + n)
      /\ received' = received + n /\ received + n <= Len(stream)
  BY DEF Insert
<1> DEFINE new == SubSeq(stream, received + 1, received + n)
           rest == After(stream, received + n)
<1>3. new \in Bytes
  <2>1. received \in Nat
    BY <1>1
  <2> QED
    BY <1>1, <1>2, <2>1, MiddleBytes
<1>4. received + n \in 0 .. Len(stream)
  BY <1>1, <1>2
<1>5. rest \in Bytes
  BY <1>1, <1>4, AfterIs
<1>6. new \o rest = After(stream, received)
  <2> DEFINE m == received + 1
             k == received + n
  <2>1. m \in 1 .. Len(stream) + 1 /\ k \in m - 1 .. Len(stream) /\ Len(stream) \in k .. Len(stream)
    BY <1>1, <1>2
  <2> HIDE DEF m, k
  <2>2. SubSeq(stream, m, k) \o SubSeq(stream, k + 1, Len(stream)) = SubSeq(stream, m, Len(stream))
    BY <1>1, <2>1, ConcatAdjacentSubSeq DEF Bytes
  <2> QED
    BY <2>2 DEF m, k, After
<1> HIDE DEF new, rest
<1>7. buffer \o new \in Bytes /\ (buffer \o new) \o rest = buffer \o (new \o rest)
  <2>1. buffer \o new \in Bytes
    BY <1>1, <1>3, ConcatIs
  <2>2. (buffer \o new) \o rest = buffer \o (new \o rest)
    <3>1. buffer \in Seq(Byte) /\ new \in Seq(Byte) /\ rest \in Seq(Byte)
      BY <1>1, <1>3, <1>5 DEF Bytes
    <3> QED
      BY <3>1, ConcatAssociative
  <2> QED
    BY <2>1, <2>2
<1> QED
  BY <1>2, <1>4, <1>6, <1>7 DEF new, rest

LEMMA InsertTakesSome ==
  /\ ReadRequested /\ TypeOK => \E n \in Nat : Insert(n)
  /\ ReceiveSome => \E n \in Nat : Insert(n)
<1>1. MessageCapacity \in Nat /\ MaxStream \in Nat
  BY ConstantsHold, ChecksumAssumption
<1> QED
  BY <1>1 DEF ReadRequested, ReceiveSome, TypeOK

(* What get_value() asks for, and what it is asked for.                    *)
RequestIsOf(b, n) ==
  n > 0 => \/ Len(b) + n = FixedSize
           \/ /\ IsPrefix(Prefix, b) /\ Len(b) >= FixedSize
              /\ Len(b) + n = MessageSize(b)

LEMMA GetValueTypes ==
  ASSUME TypeOK, GetValue
  PROVE  /\ Aligned(buffer) \in Bytes /\ Len(Aligned(buffer)) <= Len(buffer)
         /\ request' \in Nat
         /\ \/ /\ request' > 0 /\ buffer' = Aligned(buffer)
               /\ results' = results /\ overrun' = overrun
            \/ /\ request' = 0 /\ Complete(Aligned(buffer)) /\ IsPrefix(Prefix, Aligned(buffer))
               /\ Oversized(Aligned(buffer)) /\ buffer' = Aligned(buffer)
               /\ results' = results /\ overrun' = TRUE
            \/ /\ request' = 0 /\ Complete(Aligned(buffer)) /\ IsPrefix(Prefix, Aligned(buffer))
               /\ MessageSize(Aligned(buffer)) <= MessageCapacity /\ overrun' = overrun
               /\ results' = Append(results, Extract(SubSeq(Aligned(buffer), 1, MessageSize(Aligned(buffer)))))
               /\ buffer' = After(Aligned(buffer), MessageSize(Aligned(buffer)))
         /\ RequestIsOf(buffer', request')
<1> DEFINE s == Aligned(buffer)
<1>1. buffer \in Bytes /\ Len(buffer) \in Nat
  BY LenProperties DEF TypeOK, Bytes
<1>2. /\ request' = Request(s)
      /\ \/ Request(s) > 0 /\ buffer' = s /\ results' = results /\ overrun' = overrun
         \/ /\ Request(s) = 0 /\ MessageSize(s) <= MessageCapacity
            /\ results' = Append(results, Extract(SubSeq(s, 1, MessageSize(s))))
            /\ buffer' = After(s, MessageSize(s)) /\ overrun' = overrun
         \/ /\ Request(s) = 0 /\ MessageSize(s) > MessageCapacity
            /\ buffer' = s /\ results' = results /\ overrun' = TRUE
  BY DEF GetValue
<1>3. PICK k \in 0 .. Len(buffer) : s = After(buffer, k) /\ MayStart(buffer, k)
  BY <1>1, AlignedIs
<1>4. s \in Bytes /\ Len(s) <= Len(buffer) /\ Len(s) \in Nat
  <2>1. s \in Bytes /\ Len(s) = Len(buffer) - k
    BY <1>1, <1>3, AfterIs
  <2> HIDE DEF s
  <2> QED
    BY <1>1, <2>1
<1>5. IsPrefix(Prefix, s) \/ IsPrefix(s, Prefix)
  BY <1>3 DEF MayStart
<1>6. Request(s) = 0 => Complete(s) /\ IsPrefix(Prefix, s)
  BY <1>1, AlignedMessage
<1> HIDE DEF s
<1>7. Request(s) \in Nat /\ RequestIsOf(s, Request(s))
  <2>1. CASE Len(s) < FixedSize
    <3>1. Request(s) = FixedSize - Len(s)
      BY <1>4, <2>1, ConstantsHold DEF Request
    <3> QED
      BY <1>4, <2>1, <3>1, ConstantsHold DEF RequestIsOf
  <2>2. CASE Len(s) >= FixedSize
    <3>1. MessageSize(s) \in Nat
      BY <1>4, <2>2, MessageSizeIs
    <3>2. ~IsPrefix(s, Prefix)
      BY <1>4, <2>2, ConstantsHold, PrefixIs
    <3>3. CASE Len(s) < MessageSize(s)
      <4>1. Request(s) = MessageSize(s) - Len(s)
        BY <1>4, <2>2, <3>3, ConstantsHold DEF Request
      <4> QED
        BY <1>4, <1>5, <2>2, <3>1, <3>2, <3>3, <4>1, ConstantsHold DEF RequestIsOf
    <3>4. CASE ~(Len(s) < MessageSize(s))
      <4>1. Request(s) = 0
        BY <1>4, <2>2, <3>4, ConstantsHold DEF Request
      <4> QED
        BY <4>1, ConstantsHold DEF RequestIsOf
    <3> QED
      BY <3>3, <3>4
  <2> QED
    BY <1>4, <2>1, <2>2, ConstantsHold
<1>8. CASE Request(s) > 0
  BY <1>2, <1>4, <1>7, <1>8 DEF s
<1>9. CASE Request(s) = 0
  <2>1. RequestIsOf(buffer', 0)
    BY DEF RequestIsOf
  <2>2. ~(Request(s) > 0)
    BY <1>9
  <2>3. /\ MessageSize(s) \in Nat /\ MessageCapacity \in Nat
        /\ MessageSize(s) <= MessageCapacity <=> ~Oversized(s)
    BY <1>4, <1>6, <1>9, MessageSizeIs, ConstantsHold DEF Complete
  <2>4. MessageSize(s) > MessageCapacity => Oversized(s)
    BY <2>3
  <2> QED
    BY <1>2, <1>4, <1>6, <1>7, <1>9, <2>1, <2>2, <2>4 DEF s
<1>10. Request(s) > 0 \/ Request(s) = 0
  BY <1>7
<1> QED
  BY <1>8, <1>9, <1>10, Zenon

LEMMA TypesStep == TypeOK /\ [Next]_vars => TypeOK'
<1> SUFFICES ASSUME TypeOK, [Next]_vars
             PROVE  TypeOK'
  OBVIOUS
<1>1. /\ stream \in Bytes /\ received \in 0 .. Len(stream)
      /\ buffer \in Bytes /\ Len(buffer) <= BufferCapacity
      /\ request \in Nat
      /\ request > 0 /\ ~Oversized(buffer) => Len(buffer) + request <= MessageCapacity
      /\ results \in Seq(Fitting)
      /\ sent \in Seq(Fitting)
      /\ clean \in BOOLEAN /\ overrun \in BOOLEAN
  BY DEF TypeOK, Bytes, Fitting
<1>2. SUFFICES /\ stream' \in Bytes /\ received' \in 0 .. Len(stream')
               /\ buffer' \in Bytes /\ Len(buffer') <= BufferCapacity
               /\ request' \in Nat
               /\ request' > 0 /\ ~Oversized(buffer') => Len(buffer') + request' <= MessageCapacity
               /\ results' \in Seq(Fitting)
               /\ sent' \in Seq(Fitting)
               /\ clean' \in BOOLEAN /\ overrun' \in BOOLEAN
  BY DEF TypeOK, Bytes, Fitting
<1>3. ASSUME NEW bytes \in Bytes, Send(bytes), sent' \in Seq(Fitting), clean' \in BOOLEAN
      PROVE  TypeOK'
  <2>1. stream' \in Bytes /\ received' \in 0 .. Len(stream')
    BY <1>3, SendTypes
  <2>2. UNCHANGED <<buffer, request, results, overrun>>
    BY <1>3 DEF Send
  <2> QED
    BY <1>1, <1>3, <2>1, <2>2 DEF TypeOK, Bytes, Fitting
<1>4. CASE SendPacket
  <2>1. PICK p \in Payload : /\ Serialized(p) \in Bytes /\ Send(Serialized(p))
                             /\ clean' = clean /\ sent' = Append(sent, Value(p))
    BY <1>4, WhatIsSent
  <2>2. sent' \in Seq(Fitting)
    BY <1>1, <2>1, ResultsAreTyped, AppendProperties
  <2> QED
    BY <1>1, <1>3, <2>1, <2>2 DEF TypeOK, Bytes, Fitting
<1>5. CASE SendDamaged
  <2>1. PICK p \in Payload, b \in Byte : \E i \in FixedSize + 1 .. Len(Serialized(p)) :
          /\ [Serialized(p) EXCEPT ![i] = b] \in Bytes
          /\ Send([Serialized(p) EXCEPT ![i] = b])
          /\ clean' = clean /\ sent' = Append(sent, ChecksumError)
    BY <1>5, WhatIsSent
  <2>2. sent' \in Seq(Fitting) /\ clean' = clean
    BY <1>1, <2>1, ResultsAreTyped, AppendProperties
  <2> QED
    BY <1>1, <1>3, <2>1, <2>2 DEF TypeOK, Bytes, Fitting
<1>6. CASE SendNoise
  <2>1. PICK b \in Byte : /\ <<b>> \in Bytes /\ Send(<<b>>)
                          /\ clean' = (clean /\ b # Head(Prefix))
                          /\ sent' = IF clean' THEN sent ELSE <<>>
    BY <1>6, WhatIsSent
  <2>2. sent' \in Seq(Fitting) /\ clean' \in BOOLEAN
    BY <1>1, <2>1, EmptySeq
  <2> QED
    BY <1>3, <2>1, <2>2 DEF TypeOK, Bytes, Fitting
<1>7. ASSUME NEW n \in Nat, Insert(n)
      PROVE  TypeOK'
  <2>1. buffer' \in Bytes /\ received' \in 0 .. Len(stream)
    BY <1>7, InsertTypes
  <2>2. request' = 0 /\ UNCHANGED <<stream, results, sent, clean, overrun>>
    BY <1>7 DEF Insert
  <2>3. Len(buffer') <= BufferCapacity
    <3> DEFINE new == SubSeq(stream, received + 1, received + n)
    <3>1. received \in Nat /\ received + n <= Len(stream) /\ Len(buffer) + n <= BufferCapacity
      BY <1>1, <1>7 DEF Insert
    <3>2. new \in Bytes /\ Len(new) = n
      BY <1>1, <3>1, MiddleBytes
    <3>3. buffer' = buffer \o new
      BY <1>7 DEF Insert
    <3> HIDE DEF new
    <3>4. Len(buffer') = Len(buffer) + Len(new)
      BY <1>1, <3>2, <3>3, ConcatIs
    <3> QED
      BY <3>1, <3>2, <3>4
  <2> QED
    BY <1>1, <2>1, <2>2, <2>3, ConstantsHold DEF TypeOK, Bytes, Fitting
<1>8. CASE ReadRequested \/ ReceiveSome
  BY <1>7, <1>8, InsertTakesSome DEF TypeOK, Bytes, Fitting
<1>9. CASE ReadTooMuch
  BY <1>1, <1>9 DEF ReadTooMuch
<1>10. CASE GetValue
  <2> DEFINE s == Aligned(buffer)
  <2>1. /\ s \in Bytes /\ Len(s) <= Len(buffer) /\ request' \in Nat
        /\ RequestIsOf(buffer', request')
    BY <1>10, GetValueTypes
  <2>2. \/ request' > 0 /\ buffer' = s /\ results' = results /\ overrun' = overrun
        \/ request' = 0 /\ buffer' = s /\ results' = results /\ overrun' = TRUE
        \/ /\ request' = 0 /\ Complete(s)
           /\ MessageSize(s) <= MessageCapacity /\ overrun' = overrun
           /\ results' = Append(results, Extract(SubSeq(s, 1, MessageSize(s))))
           /\ buffer' = After(s, MessageSize(s))
    BY <1>10, GetValueTypes
  <2>3. UNCHANGED <<stream, received, sent, clean>>
    BY <1>10 DEF GetValue
  <2> HIDE DEF s
  <2>4. Len(s) \in Nat /\ Len(buffer) \in Nat /\ Len(s) <= BufferCapacity
    BY <1>1, <2>1, LenProperties, ConstantsHold DEF Bytes
  <2>5. CASE request' > 0 /\ buffer' = s /\ results' = results /\ overrun' = overrun
    <3>1. ~Oversized(s) => Len(s) + request' <= MessageCapacity
      <4>1. CASE Len(s) >= FixedSize
        BY <2>1, <2>4, <2>5, <4>1, MessageSizeIs, ConstantsHold DEF RequestIsOf
      <4>2. CASE Len(s) < FixedSize
        BY <2>1, <2>4, <2>5, <4>2, ConstantsHold DEF RequestIsOf
      <4> QED
        BY <2>4, <4>1, <4>2, ConstantsHold
    <3> QED
      BY <1>1, <2>1, <2>3, <2>4, <2>5, <3>1
  <2>6. CASE request' = 0 /\ buffer' = s /\ results' = results /\ overrun' = TRUE
    BY <1>1, <2>1, <2>3, <2>4, <2>6
  <2>7. CASE /\ request' = 0 /\ Complete(s)
             /\ MessageSize(s) <= MessageCapacity /\ overrun' = overrun
             /\ results' = Append(results, Extract(SubSeq(s, 1, MessageSize(s))))
             /\ buffer' = After(s, MessageSize(s))
    <3>1. MessageSize(s) \in 1 .. Len(s) /\ SubSeq(s, 1, MessageSize(s)) \in Messages
      BY <2>1, <2>7, FirstMessage
    <3>2. MessageSize(SubSeq(s, 1, MessageSize(s))) = MessageSize(s)
      <4>1. Len(SubSeq(s, 1, MessageSize(s))) = MessageSize(s)
        BY <2>1, <2>4, <3>1, FirstBytes
      <4> QED
        BY <3>1, <4>1 DEF Messages
    <3>3. results' \in Seq(Fitting)
      BY <1>1, <2>7, <3>1, <3>2, ExtractIsResult, AppendProperties
    <3>4. MessageSize(s) \in 0 .. Len(s)
      BY <2>4, <3>1
    <3>5. buffer' \in Bytes /\ Len(buffer') = Len(s) - MessageSize(s)
      BY <2>1, <2>7, <3>4, AfterIs
    <3>6. Len(buffer') <= BufferCapacity
      BY <2>4, <3>4, <3>5, ConstantsHold
    <3>7. 0 \in Nat /\ ~(0 > 0)
      OBVIOUS
    <3> QED
      BY <1>1, <2>3, <2>7, <3>3, <3>5, <3>6, <3>7
  <2> QED
    BY <2>2, <2>5, <2>6, <2>7
<1>11. CASE UNCHANGED vars
  BY <1>1, <1>11 DEF vars
<1> QED
  BY <1>2, <1>4, <1>5, <1>6, <1>8, <1>9, <1>10, <1>11 DEF Next, TypeOK, Bytes, Fitting

LEMMA TypesInit == Init => TypeOK
<1> SUFFICES ASSUME Init
             PROVE  TypeOK
  OBVIOUS
<1>1. <<>> \in Seq(Byte) /\ Len(<<>>) = 0 /\ <<>> \in Seq([ok : BOOLEAN, bytes : Payload])
  BY EmptySeq
<1>2. 0 \in 0 .. 0 /\ 0 <= BufferCapacity /\ 0 \in Nat /\ ~(0 > 0)
  BY ConstantsHold
<1> QED
  BY <1>1, <1>2 DEF Init, TypeOK

(* Whatever bytes arrive, sizes of no payload among them: a request asks   *)
(* for more bytes than complete the longest message only if the buffer     *)
(* begins with such a size, and what get_value() returns before something  *)
(* is overrun is a payload that fits or an error (endpoint::get_value,     *)
(* sequencer::get_message).                                                *)
THEOREM EndpointTypes == Spec => []TypeOK
  BY TypesInit, TypesStep, PTL DEF Spec

-----------------------------------------------------------------------------
(* Requests.                                                               *)

RequestInv == RequestIsOf(buffer, request)

LEMMA RequestStep == TypeOK /\ RequestInv /\ [Next]_vars => RequestInv'
<1> SUFFICES ASSUME TypeOK, RequestInv, [Next]_vars
             PROVE  RequestInv'
  OBVIOUS
<1>1. CASE UNCHANGED <<buffer, request>>
  BY <1>1 DEF RequestInv, RequestIsOf
<1>2. CASE SendPacket \/ SendDamaged \/ SendNoise \/ ReadTooMuch
  BY <1>1, <1>2 DEF SendPacket, SendDamaged, SendNoise, Send, ReadTooMuch
<1>3. CASE ReadRequested \/ ReceiveSome
  <2>1. request' = 0
    BY <1>3 DEF ReadRequested, ReceiveSome, Insert
  <2> QED
    BY <2>1 DEF RequestInv, RequestIsOf
<1>4. CASE GetValue
  BY <1>4, GetValueTypes DEF RequestInv
<1>5. CASE UNCHANGED vars
  BY <1>1, <1>5 DEF vars
<1> QED
  BY <1>2, <1>3, <1>4, <1>5 DEF Next

LEMMA RequestIsModest == TypeOK /\ RequestInv => NeverAsksTooMuch
<1> SUFFICES ASSUME TypeOK, RequestInv,
                    NEW n \in 0 .. request - 1, NEW more \in [1 .. n -> Byte]
             PROVE  Frames(buffer \o more) = <<>>
  BY DEF NeverAsksTooMuch
<1>1. buffer \in Bytes /\ Len(buffer) \in Nat /\ request \in Nat
  BY LenProperties, ConstantsHold DEF TypeOK, Bytes
<1>2. n \in Nat /\ n < request /\ request > 0
  BY <1>1
<1>3. more \in Bytes
  BY <1>2 DEF Bytes
<1>4. Len(more) = n
  BY <1>2, <1>3 DEF Bytes
<1> DEFINE s == buffer \o more
<1>5. s \in Bytes /\ Len(s) = Len(buffer) + n
  BY <1>1, <1>3, <1>4, ConcatIs
<1>6. CASE Len(buffer) + request = FixedSize
  <2>1. Len(s) < FixedSize
    BY <1>1, <1>2, <1>5, <1>6, ConstantsHold
  <2> QED
    BY <1>5, <2>1, ShortHoldsNothing
<1>7. CASE /\ IsPrefix(Prefix, buffer) /\ Len(buffer) >= FixedSize
           /\ Len(buffer) + request = MessageSize(buffer)
  <2>1. IsPrefix(Prefix, s)
    BY <1>1, <1>3, <1>7, PrefixOfLonger
  <2>2. MessageSize(s) = Len(buffer) + request
    BY <1>1, <1>3, <1>7, SizeStays
  <2> HIDE DEF s
  <2>3. ~Complete(s)
    BY <1>1, <1>2, <1>5, <2>2 DEF Complete
  <2>4. Frames(s) = <<>>
    BY <1>5, <2>1, <2>3, FramesUnfold, FramesOfNothing
  <2> QED
    BY <2>4 DEF s
<1> QED
  BY <1>2, <1>6, <1>7 DEF RequestInv, RequestIsOf

(* With fewer bytes than get_value() asked for, whatever they are, what is *)
(* buffered holds no message: for every prefix, size and content           *)
(* (sequencer::get_message).                                               *)
THEOREM RequestsAreModest == Spec => []NeverAsksTooMuch
<1>1. Init => RequestInv
  BY DEF Init, RequestInv, RequestIsOf
<1> QED
  BY <1>1, TypesInit, TypesStep, RequestStep, RequestIsModest, PTL DEF Spec

-----------------------------------------------------------------------------
(* Overruns.                                                               *)

LEMMA OverrunStep ==
  TypeOK /\ RequestInv /\ OnlyOversizeOverruns /\ [Next]_vars => OnlyOversizeOverruns'
<1> SUFFICES ASSUME TypeOK, RequestInv, OnlyOversizeOverruns, [Next]_vars
             PROVE  OnlyOversizeOverruns'
  OBVIOUS
<1>1. CASE UNCHANGED vars
  BY <1>1 DEF vars, OnlyOversizeOverruns
<1>2. CASE ~overrun /\ overrun' = overrun
  BY <1>2 DEF OnlyOversizeOverruns
<1>3. CASE ~overrun /\ (SendPacket \/ SendDamaged \/ SendNoise \/ ReadRequested \/ ReceiveSome)
  BY <1>2, <1>3 DEF SendPacket, SendDamaged, SendNoise, Send, ReadRequested, ReceiveSome, Insert
<1>4. CASE ~overrun /\ ReadTooMuch
  <2>1. buffer' = buffer /\ Len(buffer) + request > BufferCapacity
    BY <1>4 DEF ReadTooMuch
  <2>2. buffer \in Bytes /\ Len(buffer) \in Nat /\ request \in Nat /\ Len(buffer) <= BufferCapacity
    BY LenProperties DEF TypeOK, Bytes
  <2>3. request > 0 /\ Len(buffer) + request > MessageCapacity
    BY <2>1, <2>2, ConstantsHold
  <2>4. Oversized(buffer)
    BY <2>2, <2>3, ConstantsHold DEF TypeOK
  <2>5. IsPrefix(Prefix, buffer)
    BY <2>2, <2>3, ConstantsHold DEF RequestInv, RequestIsOf
  <2> QED
    BY <2>1, <2>4, <2>5 DEF OnlyOversizeOverruns
<1>5. CASE ~overrun /\ GetValue
  BY <1>2, <1>5, GetValueTypes DEF OnlyOversizeOverruns
<1> QED
  BY <1>1, <1>3, <1>4, <1>5 DEF Next

(* Neither the buffer nor the message is overrun, by whatever bytes and in *)
(* whatever pieces, unless the prefix is followed by a size larger than    *)
(* that of every payload (sequencer::get_message, sequencer::insert).      *)
THEOREM EndpointOverruns == Spec => []OnlyOversizeOverruns
<1> DEFINE I == TypeOK /\ RequestInv /\ OnlyOversizeOverruns
<1>1. Init => I
  BY TypesInit DEF Init, RequestInv, RequestIsOf, OnlyOversizeOverruns
<1>2. I /\ [Next]_vars => I'
  BY TypesStep, RequestStep, OverrunStep
<1> QED
  BY <1>1, <1>2, PTL DEF Spec

(* Both together: what the run checks of the storage of the sequencer.     *)
THEOREM EndpointStorage == Spec => []StorageHolds
<1>1. TypeOK /\ OnlyOversizeOverruns => StorageHolds
  BY DEF StorageHolds
<1> QED
  BY <1>1, EndpointTypes, EndpointOverruns, PTL


-----------------------------------------------------------------------------
(* What comes out.                                                         *)

(* What is returned and what the buffered, the outstanding and any bytes   *)
(* sent later hold are what the stream and those bytes hold.               *)
FramingInv ==
  /\ held = Extracted(Frames(stream))
  /\ \A more \in Bytes :
       results \o Extracted(Frames(buffer \o (After(stream, received) \o more)))
         = Extracted(Frames(stream \o more))

(* An undamaged line ends between two packets: what is sent later does not *)
(* change the values of what was sent.                                     *)
DeliveryInv ==
  clean => \A more \in Bytes :
             Extracted(Frames(stream \o more)) = sent \o Extracted(Frames(more))

LEMMA FramingOfSend ==
  ASSUME TypeOK, FramingInv, NEW bytes \in Bytes, Send(bytes)
  PROVE  FramingInv'
<1> DEFINE rest == After(stream, received)
<1>1. /\ stream \in Bytes /\ rest \in Bytes
      /\ UNCHANGED <<received, buffer, results>>
      /\ stream' = stream \o bytes /\ held' = Extracted(Frames(stream'))
  BY AfterIs DEF TypeOK, Bytes, Send
<1>2. After(stream', received') = rest \o bytes
  BY <1>1, SendTypes
<1> HIDE DEF rest
<1>3. ASSUME NEW more \in Bytes
      PROVE  results' \o Extracted(Frames(buffer' \o (After(stream', received') \o more)))
               = Extracted(Frames(stream' \o more))
  <2>1. bytes \o more \in Bytes
    BY ConcatIs
  <2>2. (rest \o bytes) \o more = rest \o (bytes \o more)
    <3>1. rest \in Seq(Byte) /\ bytes \in Seq(Byte) /\ more \in Seq(Byte)
      BY <1>1 DEF Bytes
    <3> QED
      BY <3>1, ConcatAssociative
  <2>3. (stream \o bytes) \o more = stream \o (bytes \o more)
    <3>1. stream \in Seq(Byte) /\ bytes \in Seq(Byte) /\ more \in Seq(Byte)
      BY <1>1 DEF Bytes
    <3> QED
      BY <3>1, ConcatAssociative
  <2>4. results \o Extracted(Frames(buffer \o (rest \o (bytes \o more))))
          = Extracted(Frames(stream \o (bytes \o more)))
    BY <2>1 DEF FramingInv, rest
  <2> QED
    BY <1>1, <1>2, <2>2, <2>3, <2>4
<1> QED
  BY <1>1, <1>3 DEF FramingInv

LEMMA FramingOfInsert ==
  ASSUME TypeOK, FramingInv, NEW n \in Nat, Insert(n)
  PROVE  FramingInv'
<1>1. /\ stream \in Bytes /\ buffer \in Bytes /\ received \in 0 .. Len(stream)
      /\ UNCHANGED <<stream, results, held>>
  BY DEF TypeOK, Bytes, Insert
<1> DEFINE rest == After(stream, received)
           left == After(stream, received')
<1>2. buffer' \in Bytes /\ received' \in 0 .. Len(stream) /\ buffer' \o left = buffer \o rest
  BY InsertTypes
<1>3. rest \in Bytes /\ left \in Bytes
  BY <1>1, <1>2, AfterIs
<1> HIDE DEF rest, left
<1>4. ASSUME NEW more \in Bytes
      PROVE  results' \o Extracted(Frames(buffer' \o (left \o more)))
               = Extracted(Frames(stream' \o more))
  <2>1. buffer' \o (left \o more) = buffer \o (rest \o more)
    <3>1. buffer' \o (left \o more) = (buffer' \o left) \o more
      BY <1>2, <1>3, ConcatOfThree
    <3>2. buffer \o (rest \o more) = (buffer \o rest) \o more
      BY <1>1, <1>3, ConcatOfThree
    <3> QED
      BY <1>2, <3>1, <3>2
  <2> QED
    BY <1>1, <2>1 DEF FramingInv, rest
<1>5. After(stream', received') = left
  BY <1>1 DEF left
<1> QED
  BY <1>1, <1>4, <1>5 DEF FramingInv

LEMMA FramingOfGetValue ==
  ASSUME ~PowerOfTwo(BufferCapacity), TypeOK, FramingInv, GetValue
  PROVE  FramingInv'
<1> DEFINE rest == After(stream, received)
           s == Aligned(buffer)
<1>1. /\ stream \in Bytes /\ buffer \in Bytes /\ rest \in Bytes
      /\ results \in Seq(Result)
      /\ UNCHANGED <<stream, received, held>>
  BY AfterIs, FittingSeq DEF TypeOK, Bytes, Fitting, GetValue
<1>2. /\ s \in Bytes
      /\ \/ buffer' = s /\ results' = results
         \/ /\ Complete(s) /\ IsPrefix(Prefix, s)
            /\ results' = Append(results, Extract(SubSeq(s, 1, MessageSize(s))))
            /\ buffer' = After(s, MessageSize(s))
  BY GetValueTypes
<1>3. ASSUME NEW x \in Bytes
      PROVE  Frames(s \o x) = Frames(buffer \o x)
  BY <1>1, DroppingKeepsFrames
<1> HIDE DEF rest, s
<1>4. ASSUME NEW more \in Bytes
      PROVE  results' \o Extracted(Frames(buffer' \o (rest \o more)))
               = Extracted(Frames(stream \o more))
  <2> DEFINE x == rest \o more
  <2>1. x \in Bytes
    BY <1>1, ConcatIs
  <2>2. results \o Extracted(Frames(s \o x)) = Extracted(Frames(stream \o more))
    <3>1. results \o Extracted(Frames(buffer \o x)) = Extracted(Frames(stream \o more))
      BY DEF FramingInv, rest
    <3> QED
      BY <1>3, <2>1, <3>1
  <2> HIDE DEF x
  <2>3. CASE buffer' = s /\ results' = results
    BY <2>2, <2>3 DEF x
  <2>4. CASE /\ Complete(s) /\ IsPrefix(Prefix, s)
             /\ results' = Append(results, Extract(SubSeq(s, 1, MessageSize(s))))
             /\ buffer' = After(s, MessageSize(s))
    <3> DEFINE m == SubSeq(s, 1, MessageSize(s))
               e == Extract(m)
               r == Extracted(Frames(buffer' \o x))
    <3>1. m \in Messages /\ buffer' \in Bytes /\ Extracted(Frames(s \o x)) = <<e>> \o r
      BY <1>2, <2>1, <2>4, FramesOfMessage
    <3>2. e \in Result
      BY <3>1, ExtractIsResult
    <3>3. r \in Seq(Result)
      <4>1. buffer' \o x \in Bytes
        BY <2>1, <3>1, ConcatIs
      <4> QED
        BY <4>1, FramesAreMessages, ExtractedIs
    <3>4. results' = Append(results, e)
      BY <2>4
    <3> HIDE DEF m, e, r
    <3>5. results' = results \o <<e>>
      BY <1>1, <3>2, <3>4, AppendIsConcat
    <3>6. <<e>> \in Seq(Result)
      BY <3>2
    <3>7. (results \o <<e>>) \o r = results \o (<<e>> \o r)
      BY <1>1, <3>3, <3>6, ConcatAssociative
    <3>8. results' \o r = Extracted(Frames(stream \o more))
      BY <2>2, <3>1, <3>5, <3>7
    <3> QED
      BY <3>8 DEF r, x
  <2> QED
    BY <1>2, <2>3, <2>4
<1>5. After(stream', received') = rest
  BY <1>1 DEF rest
<1> QED
  BY <1>1, <1>4, <1>5 DEF FramingInv

LEMMA FramingStep ==
  ASSUME ~PowerOfTwo(BufferCapacity)
  PROVE  TypeOK /\ FramingInv /\ [Next]_vars => FramingInv'
<1> SUFFICES ASSUME TypeOK, FramingInv, [Next]_vars
             PROVE  FramingInv'
  OBVIOUS
<1>1. CASE SendPacket \/ SendDamaged \/ SendNoise
  <2>1. \E bytes \in Bytes : Send(bytes)
    BY <1>1, WhatIsSent
  <2> QED
    BY <2>1, FramingOfSend
<1>2. CASE ReadRequested \/ ReceiveSome
  BY <1>2, InsertTakesSome, FramingOfInsert
<1>3. CASE GetValue
  BY <1>3, FramingOfGetValue
<1>4. CASE ReadTooMuch \/ UNCHANGED vars
  BY <1>4 DEF vars, FramingInv, ReadTooMuch
<1> QED
  BY <1>1, <1>2, <1>3, <1>4 DEF Next

LEMMA FramingInit == Init => FramingInv
<1> SUFFICES ASSUME Init
             PROVE  FramingInv
  OBVIOUS
<1>1. /\ stream = <<>> /\ received = 0 /\ held = <<>>
      /\ buffer = <<>> /\ results = <<>>
  BY DEF Init
<1>2. <<>> \in Bytes /\ After(<<>>, 0) = <<>>
  BY EmptySeq, AfterNothing DEF Bytes
<1>3. held = Extracted(Frames(stream))
  BY <1>1, FramesOfNothing, ExtractedOfNothing
<1>4. ASSUME NEW more \in Bytes
      PROVE  results \o Extracted(Frames(buffer \o (After(stream, received) \o more)))
               = Extracted(Frames(stream \o more))
  <2>1. <<>> \o more = more
    BY ConcatEmptySeq DEF Bytes
  <2>2. Extracted(Frames(more)) \in Seq(Result)
    BY FramesAreMessages, ExtractedIs
  <2>3. <<>> \o Extracted(Frames(more)) = Extracted(Frames(more))
    BY <2>2, ConcatEmptySeq
  <2> QED
    BY <1>1, <1>2, <2>1, <2>3
<1> QED
  BY <1>3, <1>4 DEF FramingInv

(* Without bytes to come.                                                  *)
LEMMA FramingNow ==
  ASSUME TypeOK, FramingInv
  PROVE  StreamIsFramed
<1>1. stream \in Bytes /\ After(stream, received) \in Bytes /\ <<>> \in Bytes
  BY AfterIs, EmptySeq DEF TypeOK, Bytes
<1>2. After(stream, received) \o <<>> = After(stream, received) /\ stream \o <<>> = stream
  BY <1>1, ConcatEmptySeq DEF Bytes
<1>3. results \o Extracted(Frames(buffer \o (After(stream, received) \o <<>>)))
        = Extracted(Frames(stream \o <<>>))
  BY <1>1 DEF FramingInv
<1> QED
  BY <1>2, <1>3 DEF FramingInv, StreamIsFramed

(* Nothing the stream holds is lost, repeated, reordered or made up,       *)
(* whatever the prefix, the noise, the pieces in which the bytes are       *)
(* inserted and the moments at which get_value() is called, for every      *)
(* buffer whose capacity is not a power of two (sequencer::get_message;    *)
(* for the others the run endpoint_full shows what is lost).               *)
THEOREM EndpointFrames ==
  ASSUME ~PowerOfTwo(BufferCapacity)
  PROVE  Spec => []StreamIsFramed
<1>1. TypeOK /\ FramingInv /\ [Next]_vars => TypeOK' /\ FramingInv'
  BY TypesStep, FramingStep
<1>2. TypeOK /\ FramingInv => StreamIsFramed
  BY FramingNow
<1> QED
  BY <1>1, <1>2, TypesInit, FramingInit, PTL DEF Spec

(* Sending what gives one value.                                           *)
LEMMA DeliveryOfPacket ==
  ASSUME TypeOK, DeliveryInv, clean, NEW bytes \in Bytes, Send(bytes),
         NEW value \in Result, sent' = Append(sent, value),
         \A more \in Bytes : Extracted(Frames(bytes \o more)) = <<value>> \o Extracted(Frames(more))
  PROVE  DeliveryInv'
<1>1. stream \in Bytes /\ stream' = stream \o bytes /\ sent \in Seq(Result)
  BY FittingSeq DEF TypeOK, Bytes, Fitting, Send
<1>2. ASSUME NEW more \in Bytes
      PROVE  Extracted(Frames(stream' \o more)) = sent' \o Extracted(Frames(more))
  <2> DEFINE r == Extracted(Frames(more))
  <2>1. bytes \o more \in Bytes
    BY ConcatIs
  <2>2. stream \o (bytes \o more) = (stream \o bytes) \o more
    BY <1>1, ConcatOfThree
  <2>3. Extracted(Frames(stream \o (bytes \o more))) = sent \o (<<value>> \o r)
    BY <2>1 DEF DeliveryInv
  <2>4. r \in Seq(Result)
    BY FramesAreMessages, ExtractedIs
  <2> HIDE DEF r
  <2>5. <<value>> \in Seq(Result)
    OBVIOUS
  <2>6. (sent \o <<value>>) \o r = sent \o (<<value>> \o r)
    BY <1>1, <2>4, <2>5, ConcatAssociative
  <2>7. sent' = sent \o <<value>>
    BY <1>1, AppendIsConcat
  <2>8. Extracted(Frames(stream' \o more)) = sent' \o r
    BY <1>1, <2>2, <2>3, <2>6, <2>7
  <2> QED
    BY <2>8 DEF r
<1> QED
  BY <1>2 DEF DeliveryInv

LEMMA DeliveryOfNoise ==
  ASSUME TypeOK, DeliveryInv, SendNoise
  PROVE  DeliveryInv'
<1>1. PICK b \in Byte : /\ <<b>> \in Bytes /\ Send(<<b>>)
                        /\ clean' = (clean /\ b # Head(Prefix))
                        /\ sent' = IF clean' THEN sent ELSE <<>>
  BY WhatIsSent
<1>2. stream \in Bytes /\ stream' = stream \o <<b>>
  BY <1>1 DEF TypeOK, Bytes, Send
<1>3. ASSUME clean', NEW more \in Bytes
      PROVE  Extracted(Frames(stream' \o more)) = sent' \o Extracted(Frames(more))
  <2> DEFINE s == <<b>> \o more
  <2>1. clean /\ b # Head(Prefix) /\ sent' = sent
    BY <1>1, <1>3
  <2>2. Len(<<b>>) = 1 /\ <<b>>[1] = b /\ 1 \in 1 .. 1 /\ 1 \in 0 .. 1
    OBVIOUS
  <2>3. s \in Bytes /\ Len(s) = 1 + Len(more) /\ s[1] = b /\ Len(more) \in Nat
    BY <1>1, <2>2, ConcatIs, LenProperties DEF Bytes
  <2>4. ~IsPrefix(Prefix, s)
    <3>1. 1 \in 1 .. Len(Prefix) /\ Prefix[1] = Head(Prefix)
      BY ConstantsHold DEF Bytes
    <3> HIDE DEF s
    <3> QED
      BY <2>1, <2>3, <3>1, PrefixIs, ConstantsHold
  <2>5. After(s, 1) = more
    <3>1. After(<<b>>, 1) = <<>>
      BY <1>1, <2>2, AfterNothing
    <3>2. After(s, 1) = After(<<b>>, 1) \o more
      BY <1>1, <2>2, AfterConcat
    <3> QED
      BY <3>1, <3>2, ConcatEmptySeq DEF Bytes
  <2>6. s # <<>>
    <3> HIDE DEF s
    <3>1. Len(s) # 0
      BY <2>3
    <3> QED
      BY <3>1
  <2>7. Frames(s) = Frames(more)
    BY <2>3, <2>4, <2>5, <2>6, FramesUnfold
  <2>8. stream \o s = stream' \o more
    BY <1>1, <1>2, ConcatOfThree
  <2> HIDE DEF s
  <2>9. Extracted(Frames(stream \o s)) = sent \o Extracted(Frames(s))
    BY <2>1, <2>3 DEF DeliveryInv
  <2> QED
    BY <2>1, <2>7, <2>8, <2>9
<1> QED
  BY <1>3 DEF DeliveryInv

LEMMA DeliveryStep == TypeOK /\ DeliveryInv /\ [Next]_vars => DeliveryInv'
<1> SUFFICES ASSUME TypeOK, DeliveryInv, [Next]_vars
             PROVE  DeliveryInv'
  OBVIOUS
<1>1. CASE SendPacket
  <2>1. PICK p \in Payload : /\ Serialized(p) \in Bytes /\ Send(Serialized(p))
                             /\ clean /\ sent' = Append(sent, Value(p))
    BY <1>1, WhatIsSent
  <2>2. \A more \in Bytes : Extracted(Frames(Serialized(p) \o more)) = <<Value(p)>> \o Extracted(Frames(more))
    BY PacketGivesValue
  <2>3. Value(p) \in Result
    BY PayloadIs, ResultsAreTyped
  <2> QED
    BY <2>1, <2>2, <2>3, DeliveryOfPacket
<1>2. CASE SendDamaged
  <2>1. PICK p \in Payload, b \in Byte : \E j \in FixedSize + 1 .. Len(Serialized(p)) :
          /\ Serialized(p)[j] # b
          /\ [Serialized(p) EXCEPT ![j] = b] \in Bytes
          /\ Send([Serialized(p) EXCEPT ![j] = b])
          /\ clean /\ sent' = Append(sent, ChecksumError)
    BY <1>2, WhatIsSent
  <2>2. PICK i \in FixedSize + 1 .. Len(Serialized(p)) :
          /\ Serialized(p)[i] # b
          /\ [Serialized(p) EXCEPT ![i] = b] \in Bytes
          /\ Send([Serialized(p) EXCEPT ![i] = b])
          /\ clean /\ sent' = Append(sent, ChecksumError)
    BY <2>1
  <2> DEFINE q == [Serialized(p) EXCEPT ![i] = b]
  <2>3. \A more \in Bytes : Extracted(Frames(q \o more)) = <<ChecksumError>> \o Extracted(Frames(more))
    BY <2>2, DamagedGivesError
  <2>4. q \in Bytes /\ Send(q) /\ clean /\ sent' = Append(sent, ChecksumError)
    BY <2>2
  <2> HIDE DEF q
  <2> QED
    BY <2>3, <2>4, ResultsAreTyped, DeliveryOfPacket
<1>3. CASE SendNoise
  BY <1>3, DeliveryOfNoise
<1>4. CASE UNCHANGED <<stream, sent, clean>>
  BY <1>4 DEF DeliveryInv
<1>5. CASE ReadRequested \/ ReadTooMuch \/ ReceiveSome \/ GetValue
  BY <1>4, <1>5 DEF ReadRequested, ReadTooMuch, ReceiveSome, Insert, GetValue
<1>6. CASE UNCHANGED vars
  BY <1>4, <1>6 DEF vars
<1> QED
  BY <1>1, <1>2, <1>3, <1>5, <1>6 DEF Next

LEMMA DeliveryInit == Init => DeliveryInv
<1> SUFFICES ASSUME Init, NEW more \in Bytes
             PROVE  Extracted(Frames(stream \o more)) = sent \o Extracted(Frames(more))
  BY DEF DeliveryInv
<1>1. stream = <<>> /\ sent = <<>>
  BY DEF Init
<1>2. <<>> \o more = more
  BY ConcatEmptySeq DEF Bytes
<1>3. Extracted(Frames(more)) \in Seq(Result)
  BY FramesAreMessages, ExtractedIs
<1>4. <<>> \o Extracted(Frames(more)) = Extracted(Frames(more))
  BY <1>3, ConcatEmptySeq
<1> QED
  BY <1>1, <1>2, <1>4

LEMMA DeliveryNow ==
  ASSUME TypeOK, FramingInv, DeliveryInv
  PROVE  ValuesArriveInOrder
<1> SUFFICES ASSUME clean
             PROVE  IsPrefix(results, sent)
  BY DEF ValuesArriveInOrder
<1>1. /\ stream \in Bytes /\ buffer \in Bytes /\ After(stream, received) \in Bytes
      /\ <<>> \in Bytes /\ results \in Seq(Result) /\ sent \in Seq(Result)
  BY AfterIs, EmptySeq, FittingSeq DEF TypeOK, Bytes, Fitting
<1>2. Extracted(Frames(stream \o <<>>)) = sent
  <2>1. Extracted(Frames(stream \o <<>>)) = sent \o Extracted(Frames(<<>>))
    BY <1>1 DEF DeliveryInv
  <2> QED
    BY <1>1, <2>1, FramesOfNothing, ExtractedOfNothing, ConcatEmptySeq
<1> DEFINE r == Extracted(Frames(buffer \o (After(stream, received) \o <<>>)))
<1>3. results \o r = sent
  BY <1>1, <1>2 DEF FramingInv
<1>4. r \in Seq(Result)
  <2>1. buffer \o (After(stream, received) \o <<>>) \in Bytes
    BY <1>1, ConcatIs
  <2> QED
    BY <2>1, FramesAreMessages, ExtractedIs
<1> HIDE DEF r
<1>5. Len(results) \in Nat /\ Len(r) \in Nat /\ Len(sent) = Len(results) + Len(r)
  BY <1>1, <1>3, <1>4, LenProperties, ConcatProperties
<1>6. SubSeq(sent, 1, Len(results)) = SubSeq(results, 1, Len(results))
  <2>1. CASE Len(results) = 0
    <3>1. \A z : SubSeq(z, 1, 0) = <<>>
      BY SubSeqEmpty
    <3> QED
      BY <2>1, <3>1
  <2>2. CASE Len(results) # 0
    <3>1. 1 \in 1 .. Len(results) /\ Len(results) \in 1 .. Len(results)
      BY <1>5, <2>2
    <3> QED
      BY <1>1, <1>3, <1>4, <3>1, SubSeqOfConcat1
  <2> QED
    BY <2>1, <2>2
<1> QED
  BY <1>5, <1>6 DEF IsPrefix

(* With noise that begins no prefix, every value sent comes out once and   *)
(* in order, and a packet with one damaged byte behind its size comes out  *)
(* as an error and takes no other with it, for every checksum that detects *)
(* the change of one byte (endpoint::get_value, packet_handler::extract).  *)
THEOREM EndpointDelivers ==
  ASSUME ~PowerOfTwo(BufferCapacity)
  PROVE  Spec => []ValuesArriveInOrder
<1> DEFINE I == TypeOK /\ FramingInv /\ DeliveryInv
<1>1. Init => I
  BY TypesInit, FramingInit, DeliveryInit
<1>2. I /\ [Next]_vars => I'
  BY TypesStep, FramingStep, DeliveryStep
<1>3. I => ValuesArriveInOrder
  BY DeliveryNow
<1> QED
  BY <1>1, <1>2, <1>3, PTL DEF Spec

=============================================================================
