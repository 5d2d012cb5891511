---------------------------- MODULE ProtocolProofs ----------------------------
(***************************************************************************)
(* What the protocol library keeps up over a line.  COBS: whatever bytes   *)
(* are encoded into a target of whatever size, with blocks of whatever     *)
(* length, what is committed can be told from its neighbours and both      *)
(* decoders make of it what was encoded.  Registers and Rpc, with any      *)
(* converters that return what they were given and see when a message is   *)
(* cut: a mirror follows its map, and answers are those of their calls.    *)
(***************************************************************************)
EXTENDS Cobs, Registers, Rpc, SequenceTheorems, WellFoundedInduction, TLAPS

-----------------------------------------------------------------------------
(* COBS.                                                                   *)

Encoders == [target : [Target -> 0 .. Full], last : Nat, p : Nat, count : Nat]

(* A decoder in front of a byte, and how many of the bytes that were       *)
(* encoded it has shown.                                                   *)
Readings == [offset : Nat, nonzero : BOOLEAN, len : Nat]

(* It begins as if a full block had ended: nothing is shown for its end.   *)
Begin == [offset |-> 1, nonzero |-> TRUE, len |-> 0]

(* Reading b shows the next byte of s, or none.                            *)
Reads(m, b, next, s) ==
  /\ IF m.offset = 1 THEN next.offset = b /\ next.nonzero = (b = Full)
     ELSE next.offset = m.offset - 1 /\ next.nonzero = m.nonzero
  /\ IF m.offset = 1 /\ m.nonzero THEN next.len = m.len
     ELSE /\ next.len = m.len + 1 /\ next.len <= Len(s)
          /\ s[next.len] = IF m.offset = 1 THEN 0 ELSE b

(* The decoder reads the first k bytes of the target.                      *)
Trace(tr, target, k, s) ==
  /\ tr \in [0 .. k -> Readings]
  /\ tr[0] = Begin
  /\ \A i \in 0 .. k - 1 : Reads(tr[i], target[i], tr[i + 1], s)
  /\ \A i \in 0 .. k : tr[i].len <= i /\ tr[i].len <= Len(s)

(* The next byte is a code, and once it is read n bytes are shown.         *)
AtCode(m, n, s) ==
  /\ m.offset = 1
  /\ IF m.nonzero THEN m.len = n ELSE m.len + 1 = n /\ s[n] = 0

(* What the encoder has written of s: in front of the code of its block a  *)
(* decoder comes to that code with all but the bytes of the block shown,   *)
(* behind it are those.  f blocks of it are full.                          *)
Encodes(e, s) ==
  /\ e \in Encoders /\ s \in Seq(Data)
  /\ e.p = e.last + e.count /\ e.p <= Room
  /\ e.count \in 1 .. Full /\ e.count - 1 <= Len(s)
  /\ \A i \in 0 .. e.p - 1 : i # e.last => e.target[i] # 0
  /\ \A j \in 1 .. e.count - 1 : e.target[e.last + j] = s[Len(s) - (e.count - 1) + j]
  /\ \E tr : Trace(tr, e.target, e.last, s) /\ AtCode(tr[e.last], Len(s) - (e.count - 1), s)
  /\ \E f \in Nat : e.p <= Len(s) + 1 + f /\ f * (Full - 1) + (e.count - 1) <= Len(s)

(* With the code of its block in place.                                    *)
Coded(e) == [e.target EXCEPT ![e.last] = e.count]

-----------------------------------------------------------------------------
LEMMA Sizes ==
  Full \in Nat /\ Full > 1 /\ Room \in Nat /\ Room > 1 /\ Data \subseteq 0 .. Full
  BY CobsAssumption

LEMMA EncoderParts ==
  ASSUME NEW e \in Encoders
  PROVE  /\ e.target \in [Target -> 0 .. Full] /\ e.last \in Nat /\ e.p \in Nat /\ e.count \in Nat
         /\ e = [target |-> e.target, last |-> e.last, p |-> e.p, count |-> e.count]
  BY DEF Encoders

(* Appending to s and writing behind k keeps a trace of k bytes.           *)
LEMMA TraceStays ==
  ASSUME NEW tr, NEW t, NEW u, NEW k \in Nat, NEW s, NEW x,
         Trace(tr, t, k, s),
         \A i \in 0 .. k - 1 : u[i] = t[i],
         Len(s) \in Nat, Len(x) \in Nat, Len(s) <= Len(x),
         \A i \in 1 .. Len(s) : x[i] = s[i]
  PROVE  Trace(tr, u, k, x)
<1>1. ASSUME NEW i \in 0 .. k - 1
      PROVE  Reads(tr[i], u[i], tr[i + 1], x)
  <2>1. /\ tr[i] \in Readings /\ tr[i + 1] \in Readings /\ u[i] = t[i]
        /\ Reads(tr[i], t[i], tr[i + 1], s)
    <3>1. i \in 0 .. k /\ i + 1 \in 0 .. k
      OBVIOUS
    <3>2. tr \in [0 .. k -> Readings]
      BY DEF Trace
    <3>3. Reads(tr[i], t[i], tr[i + 1], s)
      BY DEF Trace
    <3> QED
      BY <3>1, <3>2, <3>3
  <2> DEFINE m == tr[i]
             next == tr[i + 1]
  <2> HIDE DEF m, next
  <2>2. Reads(m, t[i], next, s) /\ m.len \in Nat
    BY <2>1 DEF m, next, Readings
  <2>3. Reads(m, t[i], next, x)
    <3>1. CASE m.offset = 1 /\ m.nonzero
      BY <2>2, <3>1 DEF Reads
    <3>2. CASE ~(m.offset = 1 /\ m.nonzero)
      <4>1. next.len \in 1 .. Len(s)
        BY <2>2, <3>2 DEF Reads
      <4>2. x[next.len] = s[next.len] /\ next.len <= Len(x)
        BY <4>1
      <4> QED
        BY <2>2, <3>2, <4>2 DEF Reads
    <3> QED
      BY <3>1, <3>2
  <2> QED
    BY <2>1, <2>3 DEF m, next
<1>2. ASSUME NEW i \in 0 .. k
      PROVE  tr[i].len <= i /\ tr[i].len <= Len(x)
  <2>1. tr[i].len \in Nat /\ tr[i].len <= i /\ tr[i].len <= Len(s)
    BY DEF Trace, Readings
  <2> QED
    BY <2>1
<1> QED
  BY <1>1, <1>2 DEF Trace

(* Whatever the encoder commits is read to its end, with all of s shown.   *)
LEMMA CodedIsRead ==
  ASSUME NEW e, NEW s, Encodes(e, s)
  PROVE  \E tr : /\ Trace(tr, Coded(e), e.p, s)
                 /\ tr[e.p] = [offset |-> 1, nonzero |-> e.count = Full, len |-> Len(s)]
<1> DEFINE l == e.last
           p == e.p
           c == e.count
           n == Len(s)
           T == e.target
           C == Coded(e)
<1>1. /\ T \in [Target -> 0 .. Full] /\ l \in Nat /\ p \in Nat /\ c \in Nat /\ n \in Nat
      /\ p = l + c /\ p <= Room /\ c >= 1 /\ c - 1 <= n
  BY EncoderParts, LenProperties, Sizes DEF Encodes
<1>2. \A j \in 1 .. c - 1 : T[l + j] = s[n - (c - 1) + j]
  BY DEF Encodes
<1>3. PICK tr : Trace(tr, T, l, s) /\ AtCode(tr[l], n - (c - 1), s)
  BY DEF Encodes
<1>4. C[l] = c /\ \A i \in 0 .. p - 1 : i # l => C[i] = T[i]
  <2>1. C = [T EXCEPT ![l] = c]
    BY DEF Coded
  <2> HIDE DEF l, p, c, n, T, C
  <2>2. l \in Target /\ \A i \in 0 .. p - 1 : i \in Target
    BY <1>1, Sizes DEF Target
  <2> QED
    BY <1>1, <2>1, <2>2
<1> HIDE DEF l, p, c, n, T, C
<1> DEFINE full == c = Full
           ext == [k \in 0 .. p |-> IF k <= l THEN tr[k]
                                    ELSE [offset |-> p - k + 1, nonzero |-> full, len |-> n - (p - k)]]
<1>5. tr \in [0 .. l -> Readings] /\ tr[0] = Begin
  BY <1>3 DEF Trace
<1>6. ext \in [0 .. p -> Readings]
  <2>1. ASSUME NEW k \in 0 .. p, k > l
        PROVE  [offset |-> p - k + 1, nonzero |-> full, len |-> n - (p - k)] \in Readings
    <3>1. p - k + 1 \in Nat /\ n - (p - k) \in Nat
      BY <1>1, <2>1
    <3>2. full \in BOOLEAN
      OBVIOUS
    <3> QED
      BY <3>1, <3>2 DEF Readings
  <2>2. \A k \in 0 .. p : k <= l => tr[k] \in Readings
    BY <1>1, <1>5
  <2> HIDE DEF full
  <2>3. \A k \in 0 .. p : k \in Int /\ (k <= l \/ k > l)
    BY <1>1
  <2> QED
    BY <2>1, <2>2, <2>3
<1>7. ext[0] = Begin
  BY <1>1, <1>5
<1>8. ASSUME NEW i \in 0 .. p - 1
      PROVE  Reads(ext[i], C[i], ext[i + 1], s)
  <2>1. CASE i < l
    <3>1. Reads(tr[i], T[i], tr[i + 1], s)
      <4>1. i \in 0 .. l - 1
        BY <1>1, <2>1
      <4> QED
        BY <1>3, <4>1 DEF Trace
    <3>2. ext[i] = tr[i] /\ ext[i + 1] = tr[i + 1] /\ C[i] = T[i]
      <4>1. i \in 0 .. p /\ i + 1 \in 0 .. p /\ i <= l /\ i + 1 <= l /\ i # l
        BY <1>1, <2>1
      <4> QED
        BY <1>4, <4>1
    <3> QED
      BY <3>1, <3>2
  <2>2. CASE i = l
    <3>1. /\ ext[i] = tr[l] /\ C[i] = c
          /\ ext[i + 1] = [offset |-> p - (l + 1) + 1, nonzero |-> full, len |-> n - (p - (l + 1))]
      BY <1>1, <1>4, <2>2
    <3>2. p - (l + 1) + 1 = c /\ n - (p - (l + 1)) = n - (c - 1) /\ n - (c - 1) <= n
      BY <1>1
    <3> DEFINE r == n - (c - 1)
    <3>3. ext[i + 1] = [offset |-> c, nonzero |-> full, len |-> r] /\ r <= n /\ AtCode(tr[l], r, s)
      BY <1>3, <3>1, <3>2
    <3> HIDE DEF r, ext
    <3> QED
      BY <3>1, <3>3 DEF Reads, AtCode, n
  <2>3. CASE i > l
    <3>1. /\ ext[i] = [offset |-> p - i + 1, nonzero |-> full, len |-> n - (p - i)]
          /\ ext[i + 1] = [offset |-> p - (i + 1) + 1, nonzero |-> full, len |-> n - (p - (i + 1))]
      BY <1>1, <2>3
    <3>2. /\ p - i + 1 # 1 /\ p - (i + 1) + 1 = (p - i + 1) - 1
          /\ n - (p - (i + 1)) = n - (p - i) + 1 /\ n - (p - i) + 1 <= n
      BY <1>1
    <3>3. s[n - (p - i) + 1] = C[i]
      <4> DEFINE j == i - l
      <4>1. j \in 1 .. c - 1 /\ l + j = i /\ n - (c - 1) + j = n - (p - i) + 1
        BY <1>1, <2>3
      <4> HIDE DEF j
      <4>2. T[i] = s[n - (p - i) + 1]
        BY <1>2, <4>1
      <4> QED
        BY <1>1, <1>4, <2>3, <4>2
    <3> DEFINE a == p - i + 1
               r == n - (p - i)
    <3>4. /\ ext[i] = [offset |-> a, nonzero |-> full, len |-> r] /\ a # 1
          /\ ext[i + 1] = [offset |-> a - 1, nonzero |-> full, len |-> r + 1]
          /\ r + 1 <= n /\ s[r + 1] = C[i]
      BY <3>1, <3>2, <3>3
    <3> HIDE DEF a, r, ext
    <3> QED
      BY <3>4 DEF Reads, n
  <2> QED
    BY <1>1, <2>1, <2>2, <2>3
<1>9. ext[p] = [offset |-> 1, nonzero |-> full, len |-> n]
  BY <1>1
<1>10. ASSUME NEW k \in 0 .. p
       PROVE  ext[k].len <= k /\ ext[k].len <= n
  <2>1. tr[l] \in Readings /\ tr[l].len <= l /\ AtCode(tr[l], n - (c - 1), s)
    BY <1>1, <1>3 DEF Trace
  <2>2. n <= p
    BY <1>1, <2>1 DEF AtCode, Readings
  <2>3. CASE k <= l
    <3>1. ext[k] = tr[k] /\ k \in 0 .. l
      BY <1>1, <2>3
    <3> HIDE DEF ext
    <3> QED
      BY <1>3, <3>1 DEF Trace, n
  <2>4. CASE k > l
    <3>1. ext[k].len = n - (p - k)
      BY <1>1, <2>4
    <3> HIDE DEF ext
    <3> QED
      BY <1>1, <2>2, <3>1
  <2> QED
    BY <1>1, <2>3, <2>4
<1> HIDE DEF ext
<1>11. Trace(ext, C, p, s)
  BY <1>6, <1>7, <1>8, <1>10 DEF Trace, n
<1> QED
  BY <1>9, <1>11 DEF p, c, n, C

-----------------------------------------------------------------------------
(* insert(): a byte is put into the block ...                              *)
Put(e, b) == [e EXCEPT !.target[e.p] = b, !.p = @ + 1, !.count = @ + 1]

LEMMA PutIs ==
  ASSUME NEW e \in Encoders, NEW b
  PROVE  Put(e, b) = [target |-> [e.target EXCEPT ![e.p] = b],
                      last |-> e.last, p |-> e.p + 1, count |-> e.count + 1]
<1>1. e = [target |-> e.target, last |-> e.last, p |-> e.p, count |-> e.count]
  BY EncoderParts
<1> DEFINE l == e.last
           p == e.p
           c == e.count
           T == e.target
<1>2. Put(e, b) = [[[e EXCEPT !.target[e.p] = b] EXCEPT !.p = @ + 1] EXCEPT !.count = @ + 1]
  BY DEF Put
<1>3. Put(e, b) = [[[e EXCEPT !.target = [T EXCEPT ![p] = b]] EXCEPT !.p = p + 1] EXCEPT !.count = c + 1]
  BY <1>1, <1>2
<1> HIDE DEF l, p, c, T
<1>4. e = [target |-> T, last |-> l, p |-> p, count |-> c]
  BY <1>1 DEF T, l, p, c
<1>5. Put(e, b) = [target |-> [T EXCEPT ![p] = b], last |-> l, p |-> p + 1, count |-> c + 1]
  BY <1>3, <1>4
<1> QED
  BY <1>5 DEF T, l, p, c

LEMMA PutEncodes ==
  ASSUME NEW e, NEW s, Encodes(e, s), e.p < Room, e.count < Full,
         NEW b \in Data, b # 0
  PROVE  Encodes(Put(e, b), Append(s, b))
<1> DEFINE l == e.last
           p == e.p
           c == e.count
           n == Len(s)
           T == e.target
           U == [T EXCEPT ![p] = b]
           x == Append(s, b)
           q == Put(e, b)
<1>1. /\ T \in [Target -> 0 .. Full] /\ l \in Nat /\ p \in Nat /\ c \in Nat /\ n \in Nat
      /\ p = l + c /\ p < Room /\ c >= 1 /\ c - 1 <= n /\ c < Full /\ b \in 0 .. Full
  BY EncoderParts, LenProperties, Sizes DEF Encodes
<1>2. s \in Seq(Data) /\ x \in Seq(Data) /\ Len(x) = n + 1 /\ x[n + 1] = b
      /\ \A i \in 1 .. n : x[i] = s[i]
  BY AppendProperties DEF Encodes
<1>3. q.target = U /\ q.last = l /\ q.p = p + 1 /\ q.count = c + 1 /\ q \in Encoders
  <2>1. q = [target |-> U, last |-> l, p |-> p + 1, count |-> c + 1]
    BY PutIs DEF Encodes
  <2> HIDE DEF U, l, p, c, q, T
  <2>2. U \in [Target -> 0 .. Full]
    BY <1>1 DEF U
  <2> QED
    BY <1>1, <2>1, <2>2 DEF Encoders
<1>4. \A j \in 1 .. c - 1 : T[l + j] = s[n - (c - 1) + j]
  BY DEF Encodes
<1>5. PICK tr : Trace(tr, T, l, s) /\ AtCode(tr[l], n - (c - 1), s)
  BY DEF Encodes
<1>6. PICK f \in Nat : p <= n + 1 + f /\ f * (Full - 1) + (c - 1) <= n
  BY DEF Encodes
<1>7. \A i \in 0 .. p - 1 : i # l => T[i] # 0
  BY DEF Encodes
<1> HIDE DEF l, p, c, n, T, x, q
<1>8. p \in Target /\ U[p] = b /\ \A i \in 0 .. p - 1 : U[i] = T[i]
  <2>1. p \in Target /\ \A i \in 0 .. p - 1 : i \in Target /\ i # p
    BY <1>1, Sizes DEF Target
  <2> QED
    BY <1>1, <2>1
<1> HIDE DEF U
<1>9. \A i \in 0 .. p : i # l => U[i] # 0
  BY <1>1, <1>7, <1>8
<1>10. ASSUME NEW j \in 1 .. c
       PROVE  U[l + j] = x[n + 1 - c + j]
  <2>1. CASE j = c
    <3>1. l + j = p /\ n + 1 - c + j = n + 1
      BY <1>1, <2>1
    <3> QED
      BY <1>2, <1>8, <3>1
  <2>2. CASE j # c
    <3>1. j \in 1 .. c - 1 /\ l + j \in 0 .. p - 1
      BY <1>1, <2>2
    <3>2. n - (c - 1) + j = n + 1 - c + j /\ n + 1 - c + j \in 1 .. n
      BY <1>1, <3>1
    <3>3. T[l + j] = s[n + 1 - c + j]
      BY <1>4, <3>1, <3>2
    <3> QED
      BY <1>2, <1>8, <3>1, <3>2, <3>3
  <2> QED
    BY <2>1, <2>2
<1>11. Trace(tr, U, l, x)
  <2>1. \A i \in 0 .. l - 1 : U[i] = T[i]
    BY <1>1, <1>8
  <2>2. Len(s) \in Nat /\ Len(x) \in Nat /\ Len(s) <= Len(x) /\ \A i \in 1 .. Len(s) : x[i] = s[i]
    BY <1>1, <1>2 DEF n
  <2> QED
    BY <1>1, <1>5, <2>1, <2>2, TraceStays
<1>12. AtCode(tr[l], n + 1 - c, x)
  <2> DEFINE r == n - (c - 1)
  <2>1. r = n + 1 - c /\ r <= n /\ r \in Nat
    BY <1>1
  <2>2. AtCode(tr[l], r, s) /\ tr[l].len \in Nat
    BY <1>1, <1>5 DEF Trace, Readings
  <2> HIDE DEF r
  <2>3. AtCode(tr[l], r, x)
    <3>1. CASE tr[l].nonzero
      BY <2>2, <3>1 DEF AtCode
    <3>2. CASE ~tr[l].nonzero
      <4>1. r \in 1 .. n
        BY <1>1, <2>1, <2>2, <3>2 DEF AtCode
      <4> QED
        BY <1>2, <2>2, <3>2, <4>1 DEF AtCode
    <3> QED
      BY <3>1, <3>2
  <2> QED
    BY <2>1, <2>3
<1>13. (c + 1) - 1 = c /\ (n + 1) - ((c + 1) - 1) = n + 1 - c /\ (p + 1) - 1 = p
  BY <1>1
<1>14. p + 1 <= (n + 1) + 1 + f /\ f * (Full - 1) + c <= n + 1
  <2> DEFINE g == f * (Full - 1)
  <2>1. g \in Int
    BY Sizes
  <2> HIDE DEF g
  <2>2. g + (c - 1) <= n
    BY <1>6 DEF g
  <2>3. g + c <= n + 1
    BY <1>1, <2>1, <2>2
  <2> QED
    BY <1>1, <1>6, <2>3 DEF g
<1>15. /\ p + 1 = l + (c + 1) /\ p + 1 <= Room /\ c + 1 \in 1 .. Full
       /\ c <= n + 1
  BY <1>1, Sizes
<1> QED
  <2>1. q \in Encoders /\ x \in Seq(Data) /\ Len(x) = n + 1
    BY <1>2, <1>3
  <2>2. /\ q.p = q.last + q.count /\ q.p <= Room /\ q.count \in 1 .. Full /\ q.count - 1 <= Len(x)
    BY <1>3, <1>13, <1>15, <2>1
  <2>3. \A i \in 0 .. q.p - 1 : i # q.last => q.target[i] # 0
    BY <1>3, <1>9, <1>13
  <2>4. \A j \in 1 .. q.count - 1 : q.target[q.last + j] = x[Len(x) - (q.count - 1) + j]
    BY <1>3, <1>10, <1>13, <2>1
  <2>5. Trace(tr, q.target, q.last, x) /\ AtCode(tr[q.last], Len(x) - (q.count - 1), x)
    BY <1>3, <1>11, <1>12, <1>13, <2>1
  <2>6. q.p <= Len(x) + 1 + f /\ f * (Full - 1) + (q.count - 1) <= Len(x)
    BY <1>3, <1>13, <1>14, <2>1
  <2>7. Encodes(q, x)
    BY <2>1, <2>2, <2>3, <2>4, <2>5, <2>6 DEF Encodes
  <2> QED
    BY <2>7 DEF q, x

(* ... and the block is closed: behind a zero, or when it is full.         *)
Closed(e) == [target |-> Coded(e), last |-> e.p, p |-> e.p + 1, count |-> 1]

LEMMA ClosedEncodes ==
  ASSUME NEW e, NEW s, Encodes(e, s), e.p < Room,
         NEW x, \/ e.count = Full /\ x = s
                \/ e.count < Full /\ 0 \in Data /\ x = Append(s, 0)
  PROVE  Encodes(Closed(e), x)
<1> DEFINE l == e.last
           p == e.p
           c == e.count
           n == Len(s)
           T == e.target
           C == Coded(e)
           q == Closed(e)
<1>1. /\ T \in [Target -> 0 .. Full] /\ l \in Nat /\ p \in Nat /\ c \in Nat /\ n \in Nat
      /\ p = l + c /\ p < Room /\ c >= 1 /\ c - 1 <= n /\ c <= Full
  BY EncoderParts, LenProperties, Sizes DEF Encodes
<1>2. PICK tr : Trace(tr, C, p, s) /\ tr[p] = [offset |-> 1, nonzero |-> c = Full, len |-> n]
  BY CodedIsRead
<1>3. PICK f \in Nat : p <= n + 1 + f /\ f * (Full - 1) + (c - 1) <= n
  BY DEF Encodes
<1>4. \A i \in 0 .. p - 1 : i # l => T[i] # 0
  BY DEF Encodes
<1>5. C = [T EXCEPT ![l] = c]
  BY DEF Coded
<1>6. q = [target |-> C, last |-> p, p |-> p + 1, count |-> 1]
  BY DEF Closed
<1>7. /\ s \in Seq(Data) /\ x \in Seq(Data) /\ Len(x) \in Nat
      /\ n <= Len(x) /\ \A i \in 1 .. n : x[i] = s[i]
      /\ c = Full => Len(x) = n
      /\ c # Full => Len(x) = n + 1 /\ x[n + 1] = 0
  <2>1. s \in Seq(Data)
    BY DEF Encodes
  <2>2. CASE c = Full /\ x = s
    BY <1>1, <2>1, <2>2
  <2>3. CASE c < Full /\ 0 \in Data /\ x = Append(s, 0)
    BY <1>1, <2>1, <2>3, AppendProperties
  <2> QED
    BY <2>2, <2>3
<1> HIDE DEF l, p, c, n, T, q, C
<1>8. /\ C \in [Target -> 0 .. Full] /\ \A i \in 0 .. p - 1 : C[i] # 0
  <2>1. l \in Target /\ c \in 0 .. Full /\ \A i \in 0 .. p - 1 : i \in Target
    BY <1>1, Sizes DEF Target
  <2> QED
    BY <1>1, <1>4, <1>5, <2>1
<1>9. q.target = C /\ q.last = p /\ q.p = p + 1 /\ q.count = 1
  BY <1>6
<1>10. Trace(tr, C, p, x)
  <2>1. Len(s) \in Nat /\ Len(s) <= Len(x) /\ \A i \in 1 .. Len(s) : x[i] = s[i]
    BY <1>1, <1>7 DEF n
  <2> QED
    BY <1>1, <1>2, <1>7, <2>1, TraceStays
<1>11. AtCode(tr[p], Len(x), x)
  <2>1. tr[p].offset = 1 /\ tr[p].nonzero = (c = Full) /\ tr[p].len = n
    BY <1>2
  <2>2. CASE c = Full
    BY <1>7, <2>1, <2>2 DEF AtCode
  <2>3. CASE c # Full
    BY <1>7, <2>1, <2>3 DEF AtCode
  <2> QED
    BY <2>2, <2>3
<1>12. \E g \in Nat : p + 1 <= Len(x) + 1 + g /\ g * (Full - 1) <= Len(x)
  <2> DEFINE h == f * (Full - 1)
  <2>1. h \in Int /\ (f + 1) * (Full - 1) = h + (Full - 1)
    BY Sizes
  <2>2. h + (c - 1) <= n
    BY <1>3
  <2> HIDE DEF h
  <2>3. CASE c = Full
    <3>1. h + (Full - 1) <= Len(x)
      BY <1>7, <2>2, <2>3
    <3>2. p + 1 <= Len(x) + 1 + (f + 1)
      BY <1>1, <1>3, <1>7, <2>3
    <3> QED
      BY <2>1, <3>1, <3>2
  <2>4. CASE c # Full
    <3>1. h <= Len(x)
      BY <1>1, <1>7, <2>1, <2>2
    <3>2. p + 1 <= Len(x) + 1 + f
      BY <1>1, <1>3, <1>7, <2>4
    <3> QED
      BY <3>1, <3>2 DEF h
  <2> QED
    BY <2>3, <2>4
<1> QED
  <2>0. q \in Encoders
    BY <1>1, <1>6, <1>8 DEF Encoders
  <2>1. /\ q.p = q.last + q.count /\ q.p <= Room /\ q.count \in 1 .. Full /\ q.count - 1 = 0
        /\ Len(x) - (q.count - 1) = Len(x) /\ q.p - 1 = p
    BY <1>1, <1>7, <1>9, Sizes
  <2>2. ASSUME NEW i \in 0 .. q.p - 1, i # q.last
        PROVE  q.target[i] # 0
    <3>1. i \in 0 .. p - 1
      <4>1. i \in 0 .. p
        BY <2>1
      <4>2. i # p
        BY <1>9, <2>2
      <4> QED
        BY <1>1, <4>1, <4>2
    <3> QED
      BY <1>8, <1>9, <3>1
  <2>3. \A j \in 1 .. q.count - 1 : q.target[q.last + j] = x[Len(x) - (q.count - 1) + j]
    BY <2>1
  <2>4. Trace(tr, q.target, q.last, x) /\ AtCode(tr[q.last], Len(x) - (q.count - 1), x)
    BY <1>9, <1>10, <1>11, <2>1
  <2>5. PICK g \in Nat : p + 1 <= Len(x) + 1 + g /\ g * (Full - 1) <= Len(x)
    BY <1>12
  <2>6. g * (Full - 1) + (q.count - 1) <= Len(x)
    <3> DEFINE h == g * (Full - 1)
    <3>1. h \in Int
      BY Sizes
    <3> HIDE DEF h
    <3>2. h + 0 <= Len(x)
      BY <2>5, <3>1 DEF h
    <3> QED
      BY <2>1, <3>2 DEF h
  <2>7. q.count - 1 <= Len(x) /\ q.p <= Len(x) + 1 + g
    <3>1. q.p <= Len(x) + 1 + g
      BY <1>9, <2>5
    <3>2. 0 <= Len(x)
      BY <1>7
    <3> QED
      BY <2>1, <3>1, <3>2
  <2>8. Encodes(q, x)
    BY <1>7, <2>0, <2>1, <2>2, <2>3, <2>4, <2>6, <2>7 DEF Encodes
  <2> QED
    BY <2>8 DEF q

LEMMA ClosedIs ==
  ASSUME NEW e \in Encoders, NEW c
  PROVE  [e EXCEPT !.target[e.last] = c, !.p = @ + 1, !.count = 1, !.last = e.p]
           = [target |-> [e.target EXCEPT ![e.last] = c], last |-> e.p, p |-> e.p + 1, count |-> 1]
<1>1. e = [target |-> e.target, last |-> e.last, p |-> e.p, count |-> e.count]
  BY EncoderParts
<1> DEFINE l == e.last
           p == e.p
           T == e.target
           q == [e EXCEPT !.target[e.last] = c, !.p = @ + 1, !.count = 1, !.last = e.p]
<1>2. q = [[[[e EXCEPT !.target = [T EXCEPT ![l] = c]] EXCEPT !.p = p + 1] EXCEPT !.count = 1] EXCEPT !.last = p]
  BY <1>1
<1> HIDE DEF l, p, T, q
<1>3. q = [target |-> [T EXCEPT ![l] = c], last |-> p, p |-> p + 1, count |-> 1]
  BY <1>1, <1>2 DEF T, l, p
<1> QED
  BY <1>3 DEF T, l, p, q

LEMMA ClosedInAnyOrder ==
  ASSUME NEW e \in Encoders, NEW c
  PROVE  [e EXCEPT !.target[e.last] = c, !.count = 1, !.last = e.p, !.p = @ + 1]
           = [target |-> [e.target EXCEPT ![e.last] = c], last |-> e.p, p |-> e.p + 1, count |-> 1]
<1>1. e = [target |-> e.target, last |-> e.last, p |-> e.p, count |-> e.count]
  BY EncoderParts
<1> DEFINE l == e.last
           p == e.p
           T == e.target
           q == [e EXCEPT !.target[e.last] = c, !.count = 1, !.last = e.p, !.p = @ + 1]
<1>2. q = [[[[e EXCEPT !.target = [T EXCEPT ![l] = c]] EXCEPT !.count = 1] EXCEPT !.last = p] EXCEPT !.p = p + 1]
  BY <1>1
<1> HIDE DEF l, p, T, q
<1>3. q = [target |-> [T EXCEPT ![l] = c], last |-> p, p |-> p + 1, count |-> 1]
  BY <1>1, <1>2 DEF T, l, p
<1> QED
  BY <1>3 DEF T, l, p, q

(* The whole of insert().  It leaves no full block open that it could have *)
(* closed.                                                                 *)
LEMMA InsertEncodes ==
  ASSUME NEW e, NEW s, Encodes(e, s), e.p < Room, e.count < Full, NEW b \in Data
  PROVE  /\ Encodes(WithByte(e, b), Append(s, b))
         /\ WithByte(e, b).p # Room => WithByte(e, b).count < Full
<1> DEFINE code == [e EXCEPT !.target[e.last] = e.count, !.p = @ + 1, !.count = 1, !.last = e.p]
           next == IF b # 0 THEN Put(e, b) ELSE code
           end == [next EXCEPT !.target[next.last] = Full, !.count = 1, !.last = next.p, !.p = @ + 1]
           x == Append(s, b)
<1>1. WithByte(e, b) = IF next.p # Room /\ next.count = Full THEN end ELSE next
  BY DEF WithByte, Put
<1>2. Encodes(next, x)
  <2>1. CASE b # 0
    BY <2>1, PutEncodes
  <2>2. CASE b = 0
    <3>1. code = Closed(e)
      BY ClosedIs DEF Encodes, Closed, Coded
    <3> HIDE DEF code
    <3>2. next = Closed(e) /\ x = Append(s, 0) /\ 0 \in Data
      BY <2>2, <3>1
    <3> HIDE DEF next, x
    <3> QED
      BY <3>2, ClosedEncodes
  <2> QED
    BY <2>1, <2>2
<1> HIDE DEF next, x, code
<1>3. next \in Encoders /\ next.p <= Room /\ next.p \in Nat /\ next.count \in 1 .. Full
  BY <1>2, EncoderParts DEF Encodes
<1>4. CASE next.p # Room /\ next.count = Full
  <2>1. end = Closed(next)
    BY <1>3, <1>4, ClosedInAnyOrder DEF Closed, Coded
  <2> HIDE DEF end
  <2>2. next.p < Room
    BY <1>3, <1>4, Sizes
  <2>3. Encodes(end, x)
    BY <1>2, <1>4, <2>1, <2>2, ClosedEncodes
  <2>4. end.count < Full
    BY <2>1, Sizes DEF Closed
  <2> QED
    BY <1>1, <1>4, <2>3, <2>4 DEF x
<1>5. CASE ~(next.p # Room /\ next.count = Full)
  <2>1. next.p # Room => next.count < Full
    BY <1>3, <1>5, Sizes
  <2> QED
    BY <1>1, <1>2, <1>5, <2>1 DEF x
<1> QED
  BY <1>4, <1>5

-----------------------------------------------------------------------------
(* The decoders.                                                           *)
LEMMA Beginnings ==
  ASSUME NEW S, NEW s \in Seq(S)
  PROVE  /\ SubSeq(s, 1, 0) = <<>> /\ SubSeq(s, 1, Len(s)) = s
         /\ \A k \in 0 .. Len(s) : Len(SubSeq(s, 1, k)) = k
         /\ \A k \in 0 .. Len(s) - 1 : Append(SubSeq(s, 1, k), s[k + 1]) = SubSeq(s, 1, k + 1)
<1>1. Len(s) \in Nat /\ \A i \in 1 .. Len(s) : s[i] \in S
  BY LenProperties, ElementOfSeq
<1>2. ASSUME NEW k \in 0 .. Len(s)
      PROVE  /\ SubSeq(s, 1, k) \in Seq(S) /\ Len(SubSeq(s, 1, k)) = k
             /\ \A i \in 1 .. k : SubSeq(s, 1, k)[i] = s[i]
  <2>1. \A i \in 1 .. k : s[i] \in S
    BY <1>1
  <2>2. k \in Int /\ 1 \in Int
    BY <1>1
  <2>3. /\ SubSeq(s, 1, k) \in Seq(S)
        /\ Len(SubSeq(s, 1, k)) = IF 1 <= k THEN k - 1 + 1 ELSE 0
        /\ \A i \in 1 .. k - 1 + 1 : SubSeq(s, 1, k)[i] = s[1 + i - 1]
    BY <2>1, <2>2, SubSeqProperties
  <2>4. k - 1 + 1 = k /\ (1 <= k \/ k = 0) /\ \A i \in 1 .. k : 1 + i - 1 = i
    BY <1>1
  <2> QED
    BY <2>3, <2>4
<1>3. ASSUME NEW k \in 0 .. Len(s) - 1
      PROVE  Append(SubSeq(s, 1, k), s[k + 1]) = SubSeq(s, 1, k + 1)
  <2>1. k + 1 \in 1 .. Len(s) /\ k + 1 \in (1 .. Len(s)) /\ 1 \in 1 .. Len(s) /\ k + 1 - 1 = k
    BY <1>1
  <2>2. SubSeq(s, 1, k + 1) = SubSeq(s, 1, k + 1 - 1) \o <<s[k + 1]>>
    BY <2>1, SubSeqRecursiveSecond
  <2>3. SubSeq(s, 1, k) \in Seq(S) /\ s[k + 1] \in S
    BY <1>1, <1>2, <2>1
  <2>4. Append(SubSeq(s, 1, k), s[k + 1]) = SubSeq(s, 1, k) \o <<s[k + 1]>>
    BY <2>3, AppendIsConcat
  <2> QED
    BY <2>1, <2>2, <2>4
<1> QED
  BY <1>2, <1>3, SubSeqEmpty, SubSeqFull

(* The state of a decoder.                                                 *)
StateOf(m) == [offset |-> m.offset, nonzero |-> m.nonzero]
ShownOf(m, s) == SubSeq(s, 1, m.len)

LEMMA ReadingAdvances ==
  ASSUME NEW m \in Readings, NEW next \in Readings, NEW b, NEW s \in Seq(Data),
         m.len <= Len(s), Reads(m, b, next, s)
  PROVE  /\ Advanced(StateOf(m), b) = StateOf(next)
         /\ ShownOf(next, s) = IF NonValueByte(StateOf(m)) THEN ShownOf(m, s)
                               ELSE Append(ShownOf(m, s), ValueOf(StateOf(m), b))
         /\ Len(ShownOf(m, s)) = m.len
<1>1. /\ m.len \in Nat /\ m.offset \in Nat /\ m.nonzero \in BOOLEAN /\ next.offset \in Nat
      /\ next.nonzero \in BOOLEAN /\ Len(s) \in Nat
  BY LenProperties DEF Readings
<1>2. Advanced(StateOf(m), b) = StateOf(next)
  <2>1. CASE m.offset = 1
    BY <2>1 DEF Advanced, StateOf, Reads, Decoder
  <2>2. CASE m.offset # 1
    <3>1. next.offset = m.offset - 1 /\ next.nonzero = m.nonzero
      BY <2>2 DEF Reads
    <3>2. Advanced(StateOf(m), b) = [StateOf(m) EXCEPT !.offset = @ - 1]
      BY <2>2 DEF Advanced, StateOf
    <3> QED
      BY <3>1, <3>2 DEF StateOf
  <2> QED
    BY <2>1, <2>2
<1>3. ShownOf(next, s) = IF NonValueByte(StateOf(m)) THEN ShownOf(m, s)
                         ELSE Append(ShownOf(m, s), ValueOf(StateOf(m), b))
  <2>1. NonValueByte(StateOf(m)) = (m.offset = 1 /\ m.nonzero)
    BY <1>1 DEF NonValueByte, StateOf
  <2>2. CASE m.offset = 1 /\ m.nonzero
    BY <2>1, <2>2 DEF Reads, ShownOf
  <2>3. CASE ~(m.offset = 1 /\ m.nonzero)
    <3>1. next.len = m.len + 1 /\ next.len <= Len(s) /\ s[next.len] = IF m.offset = 1 THEN 0 ELSE b
      BY <2>3 DEF Reads
    <3>2. ValueOf(StateOf(m), b) = s[m.len + 1]
      BY <3>1 DEF ValueOf, StateOf
    <3>3. m.len \in 0 .. Len(s) - 1
      BY <1>1, <3>1
    <3>4. Append(SubSeq(s, 1, m.len), s[m.len + 1]) = SubSeq(s, 1, m.len + 1)
      BY <3>3, Beginnings
    <3> QED
      BY <2>1, <2>3, <3>1, <3>2, <3>4 DEF ShownOf
  <2> QED
    BY <2>2, <2>3
<1>4. Len(ShownOf(m, s)) = m.len
  BY <1>1, Beginnings DEF ShownOf
<1> QED
  BY <1>2, <1>3, <1>4

(* A set of numbers has a least one: induction by least counterexample.    *)
LEMMA LeastExists ==
  ASSUME NEW S \in SUBSET Nat, S # {}
  PROVE  \E i \in S : \A j \in S : i <= j
<1>1. \E i \in S : \A j \in S : ~(<<j, i>> \in OpToRel(<, Nat))
  BY WFMin, NatLessThanWellFounded, Zenon
<1>2. PICK i \in S : \A j \in S : ~(<<j, i>> \in OpToRel(<, Nat))
  BY <1>1
<1>3. ASSUME NEW j \in S
      PROVE  i <= j
  <2>1. i \in Nat /\ j \in Nat
    OBVIOUS
  <2>2. ~(j < i)
    BY <1>2, <1>3, <2>1 DEF OpToRel
  <2> QED
    BY <2>1, <2>2
<1> QED
  BY <1>3

(* The first p bytes of the target, as a frame.                            *)
Frame(C, p) == [i \in 1 .. p |-> C[i - 1]]

LEMMA FrameIs ==
  ASSUME NEW p \in Nat, NEW C, \A i \in 0 .. p - 1 : C[i] \in Nat
  PROVE  /\ Len(Frame(C, p)) = p /\ DOMAIN Frame(C, p) = 1 .. p
         /\ \A i \in 1 .. p : Frame(C, p)[i] = C[i - 1]
<1> DEFINE F == Frame(C, p)
<1>1. F = [i \in 1 .. p |-> C[i - 1]]
  BY DEF Frame
<1>2. \A i \in 1 .. p : C[i - 1] \in Nat
  OBVIOUS
<1> HIDE DEF F
<1>3. F \in Seq(Nat)
  BY <1>1, <1>2, IsASeq
<1>4. DOMAIN F = 1 .. p /\ DOMAIN F = 1 .. Len(F) /\ Len(F) \in Nat
  BY <1>1, <1>3, LenProperties
<1>5. Len(F) = p
  BY <1>4
<1> QED
  BY <1>1, <1>4, <1>5 DEF F

(* decode_cobs() shows all of s, in a target that has a place more.        *)
After(F, n, h, k) ==
  IF k = 1 THEN [dec |-> Decoder(F[1]), out |-> <<>>] ELSE Iterated(h[k - 1], F[k], n)

LEMMA DecodesAll ==
  ASSUME NEW p \in Nat \ {0}, p < Room, NEW C, \A i \in 0 .. p - 1 : C[i] \in Nat,
         NEW s \in Seq(Data), NEW tr, Trace(tr, C, p, s), tr[p].len = Len(s)
  PROVE  DecodeCobs(Frame(C, p), Room) = [ok |-> TRUE, out |-> s]
<1> DEFINE F == Frame(C, p)
           g == [k \in 1 .. p |-> [dec |-> StateOf(tr[k]), out |-> ShownOf(tr[k], s)]]
           after == CHOOSE h : h = [k \in 1 .. p |-> After(F, Room, h, k)]
<1>1. Len(F) = p /\ \A i \in 1 .. p : F[i] = C[i - 1]
  BY FrameIs
<1>2. \A k \in 0 .. p : tr[k] \in Readings /\ tr[k].len <= k /\ tr[k].len <= Len(s)
  BY DEF Trace
<1> HIDE DEF F
<1>3. ASSUME NEW k \in 1 .. p
      PROVE  g[k] = After(F, Room, g, k)
  <2>1. Reads(tr[k - 1], F[k], tr[k], s)
    <3>1. k - 1 \in 0 .. p - 1 /\ (k - 1) + 1 = k
      OBVIOUS
    <3>2. Reads(tr[k - 1], C[k - 1], tr[(k - 1) + 1], s)
      BY <3>1 DEF Trace
    <3> QED
      BY <1>1, <3>1, <3>2
  <2>2. tr[k - 1] \in Readings /\ tr[k] \in Readings /\ tr[k - 1].len <= k - 1 /\ tr[k - 1].len <= Len(s)
    BY <1>2
  <2>3. CASE k = 1
    <3>1. tr[k - 1] = Begin
      BY <2>3 DEF Trace
    <3>2. StateOf(tr[1]) = Decoder(F[1]) /\ tr[1].len = 0
      BY <2>1, <2>3, <3>1 DEF Reads, Begin, StateOf, Decoder
    <3>3. ShownOf(tr[1], s) = <<>>
      BY <3>2, Beginnings DEF ShownOf
    <3> QED
      BY <2>3, <3>2, <3>3 DEF After
  <2>4. CASE k # 1
    <3>1. g[k - 1] = [dec |-> StateOf(tr[k - 1]), out |-> ShownOf(tr[k - 1], s)] /\ k \in 1 .. p
      BY <2>4
    <3>2. tr[k - 1].len # Room
      BY <2>2, Sizes DEF Readings
    <3>3. /\ Advanced(StateOf(tr[k - 1]), F[k]) = StateOf(tr[k])
          /\ ShownOf(tr[k], s) = IF NonValueByte(StateOf(tr[k - 1])) THEN ShownOf(tr[k - 1], s)
                                 ELSE Append(ShownOf(tr[k - 1], s), ValueOf(StateOf(tr[k - 1]), F[k]))
          /\ Len(ShownOf(tr[k - 1], s)) = tr[k - 1].len
      BY <2>1, <2>2, ReadingAdvances
    <3>4. Iterated(g[k - 1], F[k], Room) = [dec |-> StateOf(tr[k]), out |-> ShownOf(tr[k], s)]
      <4> DEFINE v == g[k - 1]
                 m == tr[k - 1]
      <4>1. v.dec = StateOf(m) /\ v.out = ShownOf(m, s)
        BY <3>1
      <4> HIDE DEF v, m
      <4>2. Iterated(v, F[k], Room)
              = [dec |-> Advanced(StateOf(m), F[k]),
                 out |-> IF NonValueByte(StateOf(m)) \/ Len(ShownOf(m, s)) = Room THEN ShownOf(m, s)
                         ELSE Append(ShownOf(m, s), ValueOf(StateOf(m), F[k]))]
        BY <4>1 DEF Iterated
      <4>3. Len(ShownOf(m, s)) # Room
        BY <3>2, <3>3 DEF m
      <4> QED
        BY <3>3, <4>2, <4>3 DEF v, m
    <3> QED
      BY <2>4, <3>4 DEF After
  <2> QED
    BY <2>3, <2>4
<1>4. after = [k \in 1 .. p |-> After(F, Room, after, k)]
  <2>1. g = [k \in 1 .. p |-> After(F, Room, g, k)]
    BY <1>3
  <2> HIDE DEF g
  <2> QED
    BY <2>1
<1>5. DecodeCobs(F, Room) = [ok |-> Len(after[p].out) < Room, out |-> after[p].out]
  BY <1>1 DEF DecodeCobs, After
<1> HIDE DEF after, g
<1>6. \A k \in 1 .. p : after[k] = g[k]
  <2> DEFINE Amiss == {k \in 1 .. p : after[k] # g[k]}
  <2>1. SUFFICES ASSUME Amiss # {} PROVE FALSE
    OBVIOUS
  <2>2. PICK k \in Amiss : \A j \in Amiss : k <= j
    <3>1. Amiss \in SUBSET Nat
      OBVIOUS
    <3> HIDE DEF Amiss
    <3> QED
      BY <2>1, <3>1, LeastExists
  <2>3. k \in 1 .. p /\ after[k] # g[k]
    BY <2>2
  <2>4. k # 1 => after[k - 1] = g[k - 1]
    <3>1. ASSUME k # 1
          PROVE  k - 1 \in 1 .. p /\ ~(k <= k - 1)
      BY <2>3, <3>1
    <3> QED
      BY <2>2, <3>1
  <2> HIDE DEF Amiss
  <2>5. after[k] = After(F, Room, after, k) /\ g[k] = After(F, Room, g, k)
    BY <1>3, <1>4, <2>3
  <2> QED
    BY <2>3, <2>4, <2>5 DEF After
<1>7. g[p].out = s
  BY Beginnings DEF g, ShownOf
<1>8. Len(s) < Room
  BY <1>2, LenProperties, Sizes
<1>9. after[p] = g[p]
  BY <1>6
<1> QED
  BY <1>5, <1>7, <1>8, <1>9 DEF F

(* cobs_decode_view(): what is done again and again.                       *)
Repeats(h, S, x, step, n) ==
  h \in [0 .. n -> S] /\ h[0] = x /\ \A i \in 1 .. n : h[i] = step[h[i - 1]]

LEMMA Repeated ==
  ASSUME NEW S, NEW x \in S, NEW step \in [S -> S], NEW n \in Nat
  PROVE  \E h : Repeats(h, S, x, step, n)
<1> USE DEF Repeats
<1> DEFINE Chain(h, k) == Repeats(h, S, x, step, k)
           Amiss == {k \in Nat : ~\E h : Chain(h, k)}
<1>1. ASSUME Amiss # {}
      PROVE  FALSE
  <2>1. PICK k \in Amiss : \A j \in Amiss : k <= j
    <3>1. Amiss \in SUBSET Nat
      OBVIOUS
    <3> HIDE DEF Amiss
    <3> QED
      BY <1>1, <3>1, LeastExists
  <2>2. k \in Nat /\ ~\E h : Chain(h, k)
    BY <2>1
  <2>3. k # 0
    <3>1. Chain([i \in 0 .. 0 |-> x], 0)
      OBVIOUS
    <3> HIDE DEF Chain
    <3> QED
      BY <2>2, <3>1
  <2>4. PICK h : Chain(h, k - 1)
    <3>1. k - 1 \in Nat /\ ~(k <= k - 1)
      BY <2>2, <2>3
    <3> QED
      BY <2>1, <3>1
  <2> DEFINE g == [i \in 0 .. k |-> IF i = k THEN step[h[k - 1]] ELSE h[i]]
  <2>5. Chain(g, k)
    <3>1. h \in [0 .. k - 1 -> S] /\ h[0] = x /\ \A i \in 1 .. k - 1 : h[i] = step[h[i - 1]]
      BY <2>4
    <3>2. k - 1 \in 0 .. k - 1
      BY <2>2, <2>3
    <3>3. step[h[k - 1]] \in S
      BY <3>1, <3>2
    <3>4. g \in [0 .. k -> S]
      BY <2>2, <3>1, <3>3
    <3>5. g[0] = x
      BY <2>2, <2>3, <3>1
    <3>6. ASSUME NEW i \in 1 .. k
          PROVE  g[i] = step[g[i - 1]]
      <4>1. g[i - 1] = h[i - 1]
        BY <2>2
      <4>2. CASE i = k
        BY <4>1, <4>2
      <4>3. CASE i # k
        BY <2>2, <3>1, <4>1, <4>3
      <4> QED
        BY <4>2, <4>3
    <3> QED
      BY <3>4, <3>5, <3>6
  <2> HIDE DEF Chain
  <2> QED
    BY <2>2, <2>5
<1> QED
  <2>1. n \notin Amiss
    BY <1>1
  <2>2. \E h : Chain(h, n)
    BY <2>1
  <2> QED
    BY <2>2

(* The view in front of byte j of the frame.                               *)
Standing(tr, s, j) ==
  [it |-> [dec |-> StateOf(tr[j - 1]), at |-> j], out |-> ShownOf(tr[j - 1], s)]

Shows(tr, j) == ~NonValueByte(StateOf(tr[j - 1]))

Then(tr, p, j) == IF j = p + 1 THEN j ELSE IF Shows(tr, j + 1) THEN j + 1 ELSE j + 2

(* Behind a byte that is not shown is one that is.                         *)
LEMMA ShowsAgain ==
  ASSUME NEW p \in Nat, NEW C, NEW s, NEW tr, Trace(tr, C, p, s), NEW k \in 0 .. p - 1,
         NonValueByte(StateOf(tr[k]))
  PROVE  ~NonValueByte(StateOf(tr[k + 1]))
<1>1. Reads(tr[k], C[k], tr[k + 1], s) /\ tr[k].offset = 1
  BY DEF Trace, NonValueByte, StateOf
<1>2. tr[k + 1].offset = C[k] /\ tr[k + 1].nonzero = (C[k] = Full)
  BY <1>1 DEF Reads
<1>3. tr[k + 1].offset = 1 => tr[k + 1].nonzero = FALSE
  <2>1. C[k] = 1 => (C[k] = Full) = FALSE
    BY Sizes
  <2> QED
    BY <1>2, <2>1
<1>4. StateOf(tr[k + 1]).offset = tr[k + 1].offset /\ StateOf(tr[k + 1]).nonzero = tr[k + 1].nonzero
  BY DEF StateOf
<1> QED
  BY <1>3, <1>4, Zenon DEF NonValueByte

LEMMA ViewSteps ==
  ASSUME NEW p \in Nat \ {0}, NEW C, \A i \in 0 .. p - 1 : C[i] \in Nat,
         NEW s \in Seq(Data), NEW tr, Trace(tr, C, p, s), Shows(tr, p + 1),
         NEW j \in 2 .. p + 1, Shows(tr, j)
  PROVE  /\ Then(tr, p, j) \in 2 .. p + 1 /\ Shows(tr, Then(tr, p, j))
         /\ Shown(Standing(tr, s, j), Frame(C, p)) = Standing(tr, s, Then(tr, p, j))
<1> DEFINE F == Frame(C, p)
           v == Standing(tr, s, j)
<1>1. DOMAIN F = 1 .. p /\ \A i \in 1 .. p : F[i] = C[i - 1]
  BY FrameIs
<1>2. /\ v.it = [dec |-> StateOf(tr[j - 1]), at |-> j] /\ v.out = ShownOf(tr[j - 1], s)
      /\ v.it.at = j /\ v.it.dec = StateOf(tr[j - 1])
  BY DEF Standing
<1>3. ASSUME NEW k \in 1 .. p
      PROVE  /\ Advanced(StateOf(tr[k - 1]), F[k]) = StateOf(tr[k])
             /\ ShownOf(tr[k], s) = IF NonValueByte(StateOf(tr[k - 1])) THEN ShownOf(tr[k - 1], s)
                                    ELSE Append(ShownOf(tr[k - 1], s), ValueOf(StateOf(tr[k - 1]), F[k]))
  <2>1. k - 1 \in 0 .. p - 1 /\ (k - 1) + 1 = k /\ k - 1 \in 0 .. p /\ k \in 0 .. p
    OBVIOUS
  <2>2. Reads(tr[k - 1], F[k], tr[k], s)
    <3>1. Reads(tr[k - 1], C[k - 1], tr[(k - 1) + 1], s)
      BY <2>1 DEF Trace
    <3> QED
      BY <1>1, <2>1, <3>1
  <2>3. tr[k - 1] \in Readings /\ tr[k] \in Readings /\ tr[k - 1].len <= Len(s)
    BY <2>1 DEF Trace
  <2> QED
    BY <2>2, <2>3, ReadingAdvances
<1> HIDE DEF F, v
<1>4. CASE j = p + 1
  <2>1. Then(tr, p, j) = j /\ j \notin DOMAIN F
    BY <1>1, <1>4 DEF Then
  <2>2. Shown(v, F) = v
    BY <1>2, <2>1 DEF Shown
  <2> QED
    BY <2>1, <2>2 DEF F, v
<1>5. CASE j # p + 1
  <2>1. j \in DOMAIN F /\ j \in 1 .. p /\ j + 1 - 1 = j /\ j + 2 - 1 = j + 1
    BY <1>1, <1>5
  <2> DEFINE a == [dec |-> StateOf(tr[j]), at |-> j + 1]
  <2>2. Shown(v, F) = [it |-> Stepped(v.it, F), out |-> ShownOf(tr[j], s)]
    <3>1. Shown(v, F) = [it |-> Stepped(v.it, F), out |-> Append(v.out, ValueOf(v.it.dec, F[v.it.at]))]
      BY <1>2, <2>1 DEF Shown
    <3>2. ShownOf(tr[j], s) = Append(ShownOf(tr[j - 1], s), ValueOf(StateOf(tr[j - 1]), F[j]))
      BY <1>3, <2>1 DEF Shows
    <3> QED
      BY <1>2, <3>1, <3>2
  <2>3. Stepped(v.it, F) = IF NonValueByte(a.dec)
                           THEN [dec |-> IF a.at \in DOMAIN F THEN Advanced(a.dec, F[a.at]) ELSE a.dec,
                                 at  |-> a.at + 1]
                           ELSE a
    <3>1. [dec |-> Advanced(v.it.dec, F[v.it.at]), at |-> v.it.at + 1] = a
      BY <1>2, <1>3, <2>1
    <3> HIDE DEF a
    <3> QED
      BY <3>1 DEF Stepped
  <2>4. CASE Shows(tr, j + 1)
    <3>1. Then(tr, p, j) = j + 1 /\ ~NonValueByte(StateOf(tr[j]))
      BY <1>5, <2>1, <2>4 DEF Then, Shows
    <3>2. Stepped(v.it, F) = [dec |-> StateOf(tr[j]), at |-> j + 1]
      BY <2>3, <3>1
    <3>3. Standing(tr, s, j + 1) = [it |-> [dec |-> StateOf(tr[j]), at |-> j + 1], out |-> ShownOf(tr[j], s)]
      BY <2>1 DEF Standing
    <3> QED
      BY <2>1, <2>2, <2>4, <3>1, <3>2, <3>3 DEF F, v
  <2>5. CASE ~Shows(tr, j + 1)
    <3>1. Then(tr, p, j) = j + 2 /\ NonValueByte(StateOf(tr[j]))
      BY <1>5, <2>1, <2>5 DEF Then, Shows
    <3>2. j # p
      BY <2>5
    <3>3. j + 1 \in 1 .. p /\ j \in 0 .. p - 1 /\ j + 2 \in 2 .. p + 1 /\ (j + 1) - 1 = j
      BY <2>1, <3>2
    <3>4. Advanced(StateOf(tr[j]), F[j + 1]) = StateOf(tr[j + 1]) /\ ShownOf(tr[j + 1], s) = ShownOf(tr[j], s)
      BY <1>3, <3>1, <3>3
    <3>5. Stepped(v.it, F) = [dec |-> StateOf(tr[j + 1]), at |-> j + 2]
      <4>1. a.dec = StateOf(tr[j]) /\ a.at = j + 1 /\ a.at \in DOMAIN F /\ a.at + 1 = j + 2
        BY <1>1, <3>3
      <4> HIDE DEF a
      <4> QED
        BY <2>3, <3>1, <3>4, <4>1
    <3>6. Standing(tr, s, j + 2) = [it |-> [dec |-> StateOf(tr[j + 1]), at |-> j + 2], out |-> ShownOf(tr[j + 1], s)]
      BY <2>1 DEF Standing
    <3>7. Shows(tr, j + 2)
      <4>1. ~NonValueByte(StateOf(tr[j + 1]))
        BY <3>1, <3>3, ShowsAgain
      <4> QED
        BY <2>1, <4>1 DEF Shows
    <3> QED
      BY <2>2, <3>1, <3>3, <3>4, <3>5, <3>6, <3>7 DEF F, v
  <2> QED
    BY <2>4, <2>5
<1> QED
  BY <1>4, <1>5

(* It shows all of s and ends with the frame.                              *)
Further(F, h, k) ==
  IF k = 0 THEN [it |-> ViewBegin(F), out |-> <<>>] ELSE Shown(h[k - 1], F)

LEMMA ViewShowsAll ==
  ASSUME NEW p \in Nat \ {0}, NEW C, \A i \in 0 .. p - 1 : C[i] \in Nat,
         NEW s \in Seq(Data), NEW tr, Trace(tr, C, p, s), tr[p].len = Len(s), Shows(tr, p + 1)
  PROVE  DecodeView(Frame(C, p)) = [at |-> p + 1, out |-> s]
<1> DEFINE F == Frame(C, p)
           Places == {j \in 2 .. p + 1 : Shows(tr, j)}
           step == [j \in Places |-> Then(tr, p, j)]
           after == CHOOSE h : h = [k \in 0 .. p |-> Further(F, h, k)]
<1>1. Len(F) = p /\ DOMAIN F = 1 .. p /\ \A i \in 1 .. p : F[i] = C[i - 1]
  BY FrameIs
<1>2. ASSUME NEW j \in Places
      PROVE  /\ j \in 2 .. p + 1 /\ Then(tr, p, j) \in Places
             /\ Shown(Standing(tr, s, j), F) = Standing(tr, s, Then(tr, p, j))
  <2>1. j \in 2 .. p + 1 /\ Shows(tr, j)
    OBVIOUS
  <2>2. /\ Then(tr, p, j) \in 2 .. p + 1 /\ Shows(tr, Then(tr, p, j))
        /\ Shown(Standing(tr, s, j), F) = Standing(tr, s, Then(tr, p, j))
    BY <2>1, ViewSteps
  <2> QED
    BY <2>1, <2>2
<1>3. ViewBegin(F) = [dec |-> StateOf(tr[1]), at |-> 2] /\ tr[1].len = 0 /\ 2 \in Places
  <2>1. Reads(tr[0], C[0], tr[1], s) /\ tr[0] = Begin
    <3>1. 0 \in 0 .. p - 1 /\ 0 + 1 = 1
      OBVIOUS
    <3>2. Reads(tr[0], C[0], tr[0 + 1], s)
      BY <3>1 DEF Trace
    <3> QED
      BY <3>1, <3>2 DEF Trace
  <2>2. tr[1].len = 0 /\ StateOf(tr[1]) = Decoder(F[1])
    BY <1>1, <2>1 DEF Reads, Begin, StateOf, Decoder
  <2>3. NonValueByte(StateOf(tr[0]))
    BY <2>1 DEF NonValueByte, StateOf, Begin
  <2>4. ~NonValueByte(StateOf(tr[1]))
    <3>1. 0 \in 0 .. p - 1 /\ 0 + 1 = 1
      OBVIOUS
    <3>2. ~NonValueByte(StateOf(tr[0 + 1]))
      BY <2>3, <3>1, ShowsAgain
    <3> QED
      BY <3>1, <3>2
  <2> DEFINE begin == [dec |-> [offset |-> 1, nonzero |-> FALSE], at |-> 1]
             a == [dec |-> Advanced(begin.dec, F[begin.at]), at |-> begin.at + 1]
  <2>5. a = [dec |-> StateOf(tr[1]), at |-> 2]
    BY <2>2 DEF Advanced
  <2>6. ViewBegin(F) = IF NonValueByte(a.dec)
                       THEN [dec |-> IF a.at \in DOMAIN F THEN Advanced(a.dec, F[a.at]) ELSE a.dec,
                             at  |-> a.at + 1]
                       ELSE a
    BY DEF ViewBegin, Stepped
  <2>7. ~NonValueByte(a.dec)
    BY <2>4, <2>5
  <2>8. 2 \in Places
    BY <2>4 DEF Shows
  <2> QED
    BY <2>2, <2>5, <2>6, <2>7, <2>8
<1>4. p + 1 \in Places
  OBVIOUS
<1>5. Places \subseteq Nat
  OBVIOUS
<1> HIDE DEF F, Places
<1>6. step \in [Places -> Places] /\ \A j \in Places : step[j] = Then(tr, p, j)
  BY <1>2
<1> HIDE DEF step
<1>7. PICK h \in [0 .. p -> Places] : h[0] = 2 /\ \A k \in 1 .. p : h[k] = step[h[k - 1]]
  <2>1. p \in Nat /\ 2 \in Places /\ step \in [Places -> Places]
    BY <1>3, <1>6
  <2>2. PICK h : Repeats(h, Places, 2, step, p)
    BY <2>1, Repeated
  <2> QED
    BY <2>2 DEF Repeats
<1> DEFINE g == [k \in 0 .. p |-> Standing(tr, s, h[k])]
<1>8. ASSUME NEW k \in 0 .. p
      PROVE  g[k] = Further(F, g, k)
  <2>1. CASE k = 0
    <3>1. g[0] = Standing(tr, s, 2)
      BY <1>7
    <3>2. ShownOf(tr[1], s) = <<>>
      BY <1>3, Beginnings DEF ShownOf
    <3>3. Standing(tr, s, 2) = [it |-> ViewBegin(F), out |-> <<>>]
      BY <1>3, <3>2 DEF Standing
    <3> HIDE DEF g
    <3> QED
      BY <2>1, <3>1, <3>3 DEF Further
  <2>2. CASE k # 0
    <3>1. k \in 1 .. p /\ k - 1 \in 0 .. p
      BY <2>2
    <3>2. g[k] = Standing(tr, s, h[k]) /\ g[k - 1] = Standing(tr, s, h[k - 1])
      BY <3>1
    <3> HIDE DEF g
    <3>3. h[k - 1] \in Places /\ h[k] = Then(tr, p, h[k - 1])
      BY <1>6, <1>7, <3>1
    <3>4. Shown(g[k - 1], F) = g[k]
      BY <1>2, <3>2, <3>3
    <3> QED
      BY <2>2, <3>4 DEF Further
  <2> QED
    BY <2>1, <2>2
<1>9. after = [k \in 0 .. p |-> Further(F, after, k)]
  <2>1. g = [k \in 0 .. p |-> Further(F, g, k)]
    BY <1>8
  <2> HIDE DEF g
  <2> QED
    BY <2>1
<1>10. DecodeView(F) = [at |-> after[p].it.at, out |-> after[p].out]
  BY <1>1 DEF DecodeView, Further
<1> HIDE DEF after
<1>11. g \in [0 .. p -> {Standing(tr, s, j) : j \in Places}] /\ g[p] = Standing(tr, s, h[p])
  BY <1>7
<1> HIDE DEF g
<1>12. \A k \in 0 .. p : after[k] = g[k]
  <2> DEFINE Amiss == {k \in 0 .. p : after[k] # g[k]}
  <2>1. SUFFICES ASSUME Amiss # {} PROVE FALSE
    OBVIOUS
  <2>2. PICK k \in Amiss : \A j \in Amiss : k <= j
    <3>1. Amiss \in SUBSET Nat
      OBVIOUS
    <3> HIDE DEF Amiss
    <3> QED
      BY <2>1, <3>1, LeastExists
  <2>3. k \in 0 .. p /\ after[k] # g[k]
    BY <2>2
  <2>4. k # 0 => after[k - 1] = g[k - 1]
    <3>1. ASSUME k # 0
          PROVE  k - 1 \in 0 .. p /\ ~(k <= k - 1)
      BY <2>3, <3>1
    <3> QED
      BY <2>2, <3>1
  <2> HIDE DEF Amiss
  <2>5. after[k] = Further(F, after, k) /\ g[k] = Further(F, g, k)
    BY <1>8, <1>9, <2>3
  <2> QED
    BY <2>3, <2>4, <2>5 DEF Further
<1>13. \A k \in 0 .. p : h[k] >= k + 2 \/ h[k] = p + 1
  <2> DEFINE Amiss == {k \in 0 .. p : ~(h[k] >= k + 2 \/ h[k] = p + 1)}
  <2>1. SUFFICES ASSUME Amiss # {} PROVE FALSE
    OBVIOUS
  <2>2. PICK k \in Amiss : \A j \in Amiss : k <= j
    <3>1. Amiss \in SUBSET Nat
      OBVIOUS
    <3> HIDE DEF Amiss
    <3> QED
      BY <2>1, <3>1, LeastExists
  <2>3. k \in 0 .. p /\ ~(h[k] >= k + 2 \/ h[k] = p + 1)
    BY <2>2
  <2>4. k # 0
    BY <1>7, <2>3
  <2>5. k \in 1 .. p /\ k - 1 \in 0 .. p /\ ~(k <= k - 1)
    BY <2>3, <2>4
  <2>6. h[k - 1] >= (k - 1) + 2 \/ h[k - 1] = p + 1
    BY <2>2, <2>5
  <2> HIDE DEF Amiss
  <2>7. h[k - 1] \in Nat /\ h[k] = Then(tr, p, h[k - 1])
    BY <1>5, <1>6, <1>7, <2>5
  <2> QED
    BY <2>3, <2>6, <2>7 DEF Then
<1>14. h[p] = p + 1
  <2>1. p \in 0 .. p /\ h[p] \in Places
    BY <1>7
  <2>2. h[p] \in 2 .. p + 1
    BY <1>2, <2>1
  <2> QED
    BY <1>13, <2>1, <2>2
<1>15. after[p] = Standing(tr, s, p + 1)
  BY <1>11, <1>12, <1>14
<1>16. after[p].it.at = p + 1 /\ after[p].out = s
  <2>1. (p + 1) - 1 = p /\ ShownOf(tr[p], s) = s
    BY Beginnings DEF ShownOf
  <2> QED
    BY <1>15, <2>1 DEF Standing
<1> QED
  BY <1>10, <1>16 DEF F

-----------------------------------------------------------------------------
(* The inductive invariant: as long as insert() accepts there is a place   *)
(* for the next byte, and the block is not full.                           *)
CobsInv ==
  /\ Encodes(encoder, fed)
  /\ accepted => encoder.p < Room /\ encoder.count < Full

LEMMA CobsInvInit == CobsInit => CobsInv
<1> SUFFICES ASSUME CobsInit
             PROVE  CobsInv
  OBVIOUS
<1> DEFINE e == encoder
           tr == [i \in 0 .. 0 |-> Begin]
<1>1. e.target = [i \in Target |-> 0] /\ e.last = 0 /\ e.p = 1 /\ e.count = 1 /\ e \in Encoders
  BY Sizes DEF CobsInit, Encoders, Target
<1>2. fed = <<>> /\ fed \in Seq(Data) /\ Len(fed) = 0
  BY EmptySeq DEF CobsInit
<1>3. Trace(tr, e.target, 0, fed)
  <2>1. Begin \in Readings /\ Begin.len = 0
    BY DEF Begin, Readings
  <2> QED
    BY <1>2, <2>1 DEF Trace
<1>4. AtCode(tr[0], 0, fed)
  BY DEF AtCode, Begin
<1> HIDE DEF e, tr
<1>5. e.p = e.last + e.count /\ e.p <= Room /\ e.count \in 1 .. Full /\ e.count - 1 = 0 /\ e.p - 1 = 0
  BY <1>1, Sizes
<1>6. 0 \in Nat /\ e.p <= Len(fed) + 1 + 0 /\ 0 * (Full - 1) + (e.count - 1) <= Len(fed)
  BY <1>1, <1>2, <1>5, Sizes
<1>7. Trace(tr, e.target, e.last, fed) /\ AtCode(tr[e.last], Len(fed) - (e.count - 1), fed)
  BY <1>1, <1>2, <1>3, <1>4, <1>5
<1>8. \A i \in 0 .. e.p - 1 : i # e.last => e.target[i] # 0
  BY <1>1, <1>5
<1>9. \A j \in 1 .. e.count - 1 : e.target[e.last + j] = fed[Len(fed) - (e.count - 1) + j]
  BY <1>5
<1>10. e.count - 1 <= Len(fed)
  BY <1>2, <1>5
<1>11. Encodes(e, fed)
  BY <1>1, <1>2, <1>5, <1>6, <1>7, <1>8, <1>9, <1>10 DEF Encodes
<1> QED
  BY <1>1, <1>11, Sizes DEF CobsInv, e

LEMMA CobsInvNext == CobsInv /\ [CobsNext]_cobsVars => CobsInv'
<1> SUFFICES ASSUME CobsInv, [CobsNext]_cobsVars
             PROVE  CobsInv'
  OBVIOUS
<1>1. ASSUME NEW b \in Data, InsertByte(b)
      PROVE  CobsInv'
  <2>1. /\ accepted /\ fed' = Append(fed, b) /\ encoder' = WithByte(encoder, b)
        /\ accepted' = (encoder'.p # Room)
    BY <1>1 DEF InsertByte
  <2>2. /\ Encodes(WithByte(encoder, b), Append(fed, b))
        /\ WithByte(encoder, b).p # Room => WithByte(encoder, b).count < Full
    BY <2>1, InsertEncodes DEF CobsInv
  <2>3. Encodes(encoder', fed') /\ (encoder'.p # Room => encoder'.count < Full)
    BY <2>1, <2>2
  <2>4. encoder'.p # Room => encoder'.p < Room
    <3>1. encoder'.p \in Nat /\ encoder'.p <= Room
      BY <2>3, EncoderParts DEF Encodes
    <3> QED
      BY <3>1, Sizes
  <2> QED
    BY <2>1, <2>3, <2>4 DEF CobsInv
<1>2. CASE UNCHANGED cobsVars
  BY <1>2 DEF cobsVars, CobsInv
<1> QED
  BY <1>1, <1>2 DEF CobsNext

LEMMA CobsInvHolds == CobsSpec => []CobsInv
  BY CobsInvInit, CobsInvNext, PTL DEF CobsSpec

-----------------------------------------------------------------------------
(* The encoder stays inside of its target, and insert() says in time that  *)
(* it is full: cobs_encoder::insert() for every sequence of bytes.         *)
THEOREM CobsTypes == CobsSpec => []CobsTypeOK
<1>1. CobsInv => CobsTypeOK
  <2> SUFFICES ASSUME CobsInv
               PROVE  CobsTypeOK
    OBVIOUS
  <2>1. /\ encoder.target \in [Target -> 0 .. Full] /\ encoder.last \in Nat /\ encoder.p \in Nat
        /\ encoder.p = encoder.last + encoder.count /\ encoder.p <= Room
        /\ encoder.count \in 1 .. Full /\ fed \in Seq(Data)
    BY EncoderParts DEF CobsInv, Encodes
  <2>2. encoder.last \in Target /\ encoder.last < encoder.p
    BY <2>1, Sizes DEF Target
  <2> QED
    BY <2>1, <2>2 DEF CobsTypeOK, CobsInv
<1> QED
  BY <1>1, CobsInvHolds, PTL

LEMMA CommittedIs ==
  ASSUME Encodes(encoder, fed)
  PROVE  /\ Committed = Frame(Coded(encoder), encoder.p)
         /\ encoder.p \in Nat \ {0}
         /\ \A i \in 0 .. encoder.p - 1 : Coded(encoder)[i] \in Nat \ {0}
<1> DEFINE l == encoder.last
           p == encoder.p
           c == encoder.count
           T == encoder.target
           C == Coded(encoder)
<1>1. /\ T \in [Target -> 0 .. Full] /\ l \in Nat /\ p \in Nat /\ p = l + c /\ p <= Room
      /\ c \in 1 .. Full
  BY EncoderParts DEF Encodes
<1>2. \A i \in 0 .. p - 1 : i # l => T[i] # 0
  BY DEF Encodes
<1>3. C = [T EXCEPT ![l] = c]
  BY DEF Coded
<1>4. Committed = Frame(C, p)
  BY DEF Committed, Coded, Frame
<1> HIDE DEF l, p, c, T, C
<1>5. l \in Target /\ \A i \in 0 .. p - 1 : i \in Target
  BY <1>1, Sizes DEF Target
<1>6. \A i \in 0 .. p - 1 : C[i] \in Nat \ {0}
  BY <1>1, <1>2, <1>3, <1>5, Sizes
<1>7. p \in Nat \ {0}
  BY <1>1, Sizes
<1> QED
  BY <1>4, <1>6, <1>7 DEF p, C

(* So many blocks of m are at most in n.                                   *)
LEMMA FullBlocks ==
  ASSUME NEW m \in Nat \ {0}, NEW n \in Nat, NEW f \in Nat, f * m <= n
  PROVE  f <= n \div m
<1> DEFINE q == n \div m
           r == n % m
<1>1. q \in Nat /\ r \in 0 .. m - 1 /\ n = m * q + r
  OBVIOUS
<1> HIDE DEF q, r
<1>2. ~(f >= q + 1)
  <2>1. SUFFICES ASSUME f >= q + 1
                 PROVE  FALSE
    OBVIOUS
  <2> DEFINE d == f - (q + 1)
  <2>2. d \in Nat /\ f = d + q + 1
    BY <1>1, <2>1
  <2> HIDE DEF d
  <2>3. f * m = d * m + m * q + m /\ d * m \in Nat /\ m * q \in Nat
    BY <1>1, <2>2
  <2> QED
    BY <1>1, <2>3
<1> QED
  BY <1>1, <1>2 DEF q

(* What encode_cobs() returns has no zero in it and at most one code more  *)
(* than it needs, and decode_cobs() and cobs_decode_view() make of it what *)
(* was encoded: for all bytes, also at the end of a full block.            *)
THEOREM EverythingDecodes == CobsSpec => []FramesDecode
<1>1. CobsInv => FramesDecode
  <2> SUFFICES ASSUME CobsInv
               PROVE  FramesDecode
    OBVIOUS
  <2> DEFINE p == encoder.p
             C == Coded(encoder)
  <2>1. Encodes(encoder, fed) /\ fed \in Seq(Data) /\ Len(fed) \in Nat
    BY LenProperties DEF CobsInv, Encodes
  <2>2. Committed = Frame(C, p) /\ p \in Nat \ {0} /\ \A i \in 0 .. p - 1 : C[i] \in Nat \ {0}
    BY <2>1, CommittedIs
  <2>3. PICK tr : /\ Trace(tr, C, p, fed)
                  /\ tr[p] = [offset |-> 1, nonzero |-> encoder.count = Full, len |-> Len(fed)]
    BY <2>1, CodedIsRead
  <2>4. PICK f \in Nat : p <= Len(fed) + 1 + f /\ f * (Full - 1) + (encoder.count - 1) <= Len(fed)
    BY <2>1 DEF Encodes
  <2>5. encoder.count \in 1 .. Full /\ (accepted => p < Room /\ encoder.count < Full)
    BY <2>1 DEF Encodes, CobsInv
  <2> HIDE DEF p, C
  <2>6. Len(Committed) = p /\ DOMAIN Committed = 1 .. p /\ \A i \in 1 .. p : Committed[i] = C[i - 1]
    BY <2>2, FrameIs
  <2>7. FramesAreDelimited
    <3>1. 0 \notin {Committed[i] : i \in DOMAIN Committed}
      <4>1. ASSUME NEW i \in 1 .. p
            PROVE  Committed[i] # 0
        <5>1. i - 1 \in 0 .. p - 1
          BY <2>2
        <5> QED
          BY <2>2, <2>6, <5>1
      <4> QED
        BY <2>6, <4>1
    <3>2. f <= Len(fed) \div (Full - 1)
      <4> DEFINE g == f * (Full - 1)
      <4>1. g \in Int
        BY Sizes
      <4>2. g + (encoder.count - 1) <= Len(fed)
        BY <2>4
      <4> HIDE DEF g
      <4>3. g <= Len(fed)
        BY <2>1, <2>5, <4>1, <4>2
      <4>4. Full - 1 \in Nat \ {0}
        BY Sizes
      <4> QED
        BY <2>1, <4>3, <4>4, FullBlocks DEF g
    <3>3. Len(fed) \div (Full - 1) \in Nat
      BY <2>1, Sizes
    <3>4. p <= Len(fed) + 1 + Len(fed) \div (Full - 1)
      <4> DEFINE d == Len(fed) \div (Full - 1)
      <4>1. f <= d /\ d \in Nat
        BY <3>2, <3>3
      <4> HIDE DEF d
      <4>2. p <= Len(fed) + 1 + d
        BY <2>1, <2>2, <2>4, <4>1
      <4> QED
        BY <4>2 DEF d
    <3> QED
      BY <2>6, <3>1, <3>4 DEF FramesAreDelimited
  <2>8. ASSUME accepted
        PROVE  /\ DecodeCobs(Committed, Room) = [ok |-> TRUE, out |-> fed]
               /\ DecodeView(Committed) = [at |-> Len(Committed) + 1, out |-> fed]
    <3>1. p < Room /\ \A i \in 0 .. p - 1 : C[i] \in Nat
      BY <2>2, <2>5, <2>8
    <3>2. tr[p].len = Len(fed)
      BY <2>3
    <3>3. Shows(tr, p + 1)
      <4>1. (p + 1) - 1 = p /\ (encoder.count = Full) = FALSE
        BY <2>2, <2>5, <2>8, Sizes
      <4>2. tr[p].nonzero = (encoder.count = Full)
        BY <2>3
      <4> QED
        BY <4>1, <4>2 DEF Shows, NonValueByte, StateOf
    <3>4. DecodeCobs(Frame(C, p), Room) = [ok |-> TRUE, out |-> fed]
      BY <2>1, <2>2, <2>3, <3>1, <3>2, DecodesAll
    <3>5. DecodeView(Frame(C, p)) = [at |-> p + 1, out |-> fed]
      BY <2>1, <2>2, <2>3, <3>1, <3>2, <3>3, ViewShowsAll
    <3> QED
      BY <2>2, <2>6, <3>4, <3>5
  <2> QED
    BY <2>7, <2>8 DEF FramesDecode, DecodersAgree
<1> QED
  BY <1>1, CobsInvHolds, PTL

-----------------------------------------------------------------------------
(* Messages that are cut.                                                  *)

(* A message cut twice is one that was cut once.                           *)
LEMMA CutsOfCuts ==
  ASSUME NEW s \in Seq(Nat), NEW m \in 0 .. Len(s), NEW n \in 0 .. m
  PROVE  /\ SubSeq(s, 1, m) \in Seq(Nat) /\ Len(SubSeq(s, 1, m)) = m
         /\ SubSeq(SubSeq(s, 1, m), 1, n) = SubSeq(s, 1, n)
  OBVIOUS

LEMMA WholeIsUncut ==
  ASSUME NEW s \in Seq(Nat)
  PROVE  SubSeq(s, 1, Len(s)) = s /\ Len(s) \in Nat
  OBVIOUS

-----------------------------------------------------------------------------
(* Registers.                                                              *)

AnyValue == UNION {Entries[k].type : k \in Keys}

(* A part of the bytes of a value, from their beginning.                   *)
PartOf(bytes, k, v) ==
  \E n \in 0 .. Len(EncodeValue(k, v)) : bytes = SubSeq(EncodeValue(k, v), 1, n)

(* A message on the way is a part of a value its register has had.         *)
MirrorInv ==
  /\ device \in [Keys -> AnyValue] /\ mirror \in [Keys -> AnyValue]
  /\ held \in [Keys -> SUBSET AnyValue]
  /\ \A k \in Keys : held[k] \subseteq Entries[k].type /\ device[k] \in held[k] /\ mirror[k] \in held[k]
  /\ \A m \in flight :
       /\ m \in [key : Keys \cup {UnknownKey}, bytes : Seq(Nat)]
       /\ m.key \in Keys => \E v \in held[m.key] : PartOf(m.bytes, m.key, v)

LEMMA ValueEncoded ==
  ASSUME NEW k \in Keys, NEW v \in Entries[k].type
  PROVE  /\ EncodeValue(k, v) \in Seq(Nat)
         /\ Len(EncodeValue(k, v)) \in Entries[k].min_size .. Entries[k].max_size
         /\ Entries[k].min_size \in Nat /\ Entries[k].max_size \in Nat
         /\ DecodeValue(k, EncodeValue(k, v), Entries[k].init) = Good(Len(EncodeValue(k, v)), v)
         /\ \A n \in Entries[k].min_size .. Len(EncodeValue(k, v)) - 1 :
              HasError(DecodeValue(k, SubSeq(EncodeValue(k, v), 1, n), Entries[k].init))
  BY RegisterAssumption

(* A part of a value is taken for the value or for an error.               *)
LEMMA PartIsExtracted ==
  ASSUME NEW k \in Keys, NEW v \in Entries[k].type, NEW b, PartOf(b, k, v)
  PROVE  b \in Seq(Nat) /\ (HasError(ExtractRegister(k, b)) \/ ExtractRegister(k, b).val = v)
<1> DEFINE s == EncodeValue(k, v)
           d == Entries[k]
<1>1. /\ s \in Seq(Nat) /\ Len(s) \in d.min_size .. d.max_size
      /\ d.min_size \in Nat /\ d.max_size \in Nat
      /\ DecodeValue(k, s, d.init) = Good(Len(s), v)
      /\ \A n \in d.min_size .. Len(s) - 1 : HasError(DecodeValue(k, SubSeq(s, 1, n), d.init))
  BY ValueEncoded
<1>2. PICK n \in 0 .. Len(s) : b = SubSeq(s, 1, n)
  BY DEF PartOf
<1>3. b \in Seq(Nat) /\ Len(b) = n /\ n \in Nat /\ n <= d.max_size
  BY <1>1, <1>2, CutsOfCuts
<1>4. Min({Len(b), d.max_size}) = n
  <2>1. \A x \in {n, d.max_size} : n <= x
    BY <1>1, <1>3
  <2>2. \A x \in {n, d.max_size} : (\A y \in {n, d.max_size} : x <= y) => x = n
    BY <1>1, <1>3
  <2> QED
    BY <1>3, <2>1, <2>2 DEF Min
<1>5. SubSeq(b, 1, Min({Len(b), d.max_size})) = b
  BY <1>3, <1>4, WholeIsUncut
<1>6. ExtractRegister(k, b) = IF n < d.min_size THEN Bad(0, "size", d.init) ELSE DecodeValue(k, b, d.init)
  BY <1>3, <1>5 DEF ExtractRegister
<1>7. CASE n < d.min_size
  BY <1>3, <1>6, <1>7 DEF Bad, HasError
<1>8. CASE ~(n < d.min_size) /\ n < Len(s)
  <2>1. n \in d.min_size .. Len(s) - 1
    BY <1>1, <1>3, <1>8
  <2> QED
    BY <1>1, <1>2, <1>3, <1>6, <1>8, <2>1
<1>9. CASE ~(n < d.min_size) /\ ~(n < Len(s))
  <2>1. n = Len(s) /\ b = s
    BY <1>1, <1>2, <1>3, <1>9, WholeIsUncut
  <2> QED
    BY <1>1, <1>3, <1>6, <1>9, <2>1 DEF Good
<1> QED
  BY <1>7, <1>8, <1>9

LEMMA MirrorInit == RegisterInit => MirrorInv
<1> SUFFICES ASSUME RegisterInit
             PROVE  MirrorInv
  OBVIOUS
<1>1. \A k \in Keys : Entries[k].init \in Entries[k].type /\ Entries[k].init \in AnyValue
  BY RegisterAssumption DEF AnyValue
<1> QED
  BY <1>1 DEF RegisterInit, Initial, MirrorInv

LEMMA MirrorStep == MirrorInv /\ [RegisterNext]_registerVars => MirrorInv' /\ ErrorsChangeNothing
<1> SUFFICES ASSUME MirrorInv, [RegisterNext]_registerVars
             PROVE  MirrorInv' /\ ErrorsChangeNothing
  OBVIOUS
<1>1. /\ device \in [Keys -> AnyValue] /\ mirror \in [Keys -> AnyValue]
      /\ held \in [Keys -> SUBSET AnyValue]
      /\ \A k \in Keys : held[k] \subseteq Entries[k].type /\ device[k] \in held[k] /\ mirror[k] \in held[k]
      /\ \A m \in flight :
           /\ m \in [key : Keys \cup {UnknownKey}, bytes : Seq(Nat)]
           /\ m.key \in Keys => \E v \in held[m.key] : PartOf(m.bytes, m.key, v)
  BY DEF MirrorInv
<1>2. ASSUME NEW k \in Keys, NEW v \in Entries[k].type, SetVal(k, v)
      PROVE  MirrorInv' /\ ErrorsChangeNothing
  <2>1. /\ device' = [device EXCEPT ![k] = v] /\ held' = [held EXCEPT ![k] = held[k] \cup {v}]
        /\ mirror' = mirror /\ flight' = flight
    BY <1>2 DEF SetVal
  <2>2. v \in AnyValue
    BY DEF AnyValue
  <2>3. /\ device' \in [Keys -> AnyValue] /\ mirror' \in [Keys -> AnyValue]
        /\ held' \in [Keys -> SUBSET AnyValue]
    BY <1>1, <2>1, <2>2
  <2>4. ASSUME NEW j \in Keys
        PROVE  /\ held[j] \subseteq held'[j] /\ held'[j] \subseteq Entries[j].type
               /\ device'[j] \in held'[j] /\ mirror'[j] \in held'[j]
    BY <1>1, <2>1
  <2> QED
    BY <1>1, <2>1, <2>3, <2>4 DEF MirrorInv, ErrorsChangeNothing
<1>3. ASSUME NEW k \in Keys \cup {UnknownKey}, Select(k)
      PROVE  MirrorInv' /\ ErrorsChangeNothing
  <2>1. /\ flight' = flight \cup {[key |-> k, bytes |-> Selected(k)]}
        /\ UNCHANGED <<device, mirror, answer, held>>
    BY <1>3 DEF Select
  <2>2. Selected(k) \in Seq(Nat) /\ (k \in Keys => PartOf(Selected(k), k, device[k]))
    <3>1. CASE k \in Keys
      <4> DEFINE s == EncodeValue(k, device[k])
      <4>1. s \in Seq(Nat)
        BY <1>1, <3>1, ValueEncoded
      <4>2. Selected(k) = s
        BY <3>1 DEF Selected, ContainsKey, SerializeRegister
      <4>3. s = SubSeq(s, 1, Len(s)) /\ Len(s) \in 0 .. Len(s)
        BY <4>1, WholeIsUncut
      <4> QED
        BY <4>1, <4>2, <4>3 DEF PartOf
    <3>2. CASE k \notin Keys
      BY <3>2 DEF Selected, ContainsKey
    <3> QED
      BY <3>1, <3>2
  <2> QED
    BY <1>1, <2>1, <2>2 DEF MirrorInv, ErrorsChangeNothing
<1>4. ASSUME NEW m \in flight, LoseMessage(m)
      PROVE  MirrorInv' /\ ErrorsChangeNothing
  BY <1>1, <1>4 DEF LoseMessage, MirrorInv, ErrorsChangeNothing
<1>5. ASSUME NEW m \in flight, NEW n \in 0 .. MaxValueSize, CutMessage(m, n)
      PROVE  MirrorInv' /\ ErrorsChangeNothing
  <2> DEFINE c == [m EXCEPT !.bytes = SubSeq(m.bytes, 1, n)]
  <2>1. /\ n < Len(m.bytes) /\ flight' = (flight \ {m}) \cup {c}
        /\ UNCHANGED <<device, mirror, answer, held>>
    BY <1>5 DEF CutMessage
  <2>2. m \in [key : Keys \cup {UnknownKey}, bytes : Seq(Nat)]
    BY <1>1
  <2>3. n \in Nat
    <3>1. n >= 0 /\ n \in Int
      OBVIOUS
    <3> QED
      BY <3>1
  <2>4. n \in 0 .. Len(m.bytes) /\ Len(m.bytes) \in Nat
    BY <2>1, <2>2, <2>3
  <2>5. c \in [key : Keys \cup {UnknownKey}, bytes : Seq(Nat)] /\ c.key = m.key
        /\ c.bytes = SubSeq(m.bytes, 1, n)
    <3>1. SubSeq(m.bytes, 1, n) \in Seq(Nat)
      BY <2>2, <2>4, CutsOfCuts
    <3> QED
      BY <2>2, <3>1
  <2>6. ASSUME NEW v \in held[m.key], m.key \in Keys, PartOf(m.bytes, m.key, v)
        PROVE  PartOf(c.bytes, c.key, v)
    <3> DEFINE s == EncodeValue(m.key, v)
    <3>1. s \in Seq(Nat)
      BY <1>1, <2>6, ValueEncoded
    <3>2. PICK l \in 0 .. Len(s) : m.bytes = SubSeq(s, 1, l)
      BY <2>6 DEF PartOf
    <3>3. Len(m.bytes) = l
      BY <3>1, <3>2, CutsOfCuts
    <3>4. n \in 0 .. l /\ n \in 0 .. Len(s)
      BY <2>4, <3>1, <3>2, <3>3
    <3>5. c.bytes = SubSeq(s, 1, n)
      BY <2>5, <3>1, <3>2, <3>4, CutsOfCuts
    <3> QED
      BY <2>5, <3>4, <3>5 DEF PartOf
  <2> HIDE DEF c
  <2>7. c.key \in Keys => \E v \in held[c.key] : PartOf(c.bytes, c.key, v)
    BY <1>1, <2>5, <2>6
  <2> QED
    BY <1>1, <2>1, <2>5, <2>7 DEF MirrorInv, ErrorsChangeNothing
<1>6. ASSUME NEW m \in flight, NEW stays \in BOOLEAN, Insert(m, stays)
      PROVE  MirrorInv' /\ ErrorsChangeNothing
  <2>1. UNCHANGED <<device, held>> /\ flight' \subseteq flight
    BY <1>6 DEF Insert
  <2>2. mirror' = mirror \/ (answer' = "none" /\ m.key \in Keys /\ \E v \in held[m.key] : mirror' = [mirror EXCEPT ![m.key] = v])
    <3>1. CASE m.key \in Keys
      <4>1. PICK v \in held[m.key] : PartOf(m.bytes, m.key, v)
        BY <1>1, <3>1
      <4> DEFINE r == ExtractRegister(m.key, m.bytes)
      <4>2. HasError(r) \/ r.val = v
        BY <1>1, <3>1, <4>1, PartIsExtracted
      <4>3. mirror' = Inserted(m.key, m.bytes).map /\ answer' = Inserted(m.key, m.bytes).answer
        BY <1>6, <3>1 DEF Insert, ContainsKey
      <4>4. CASE HasError(r)
        BY <4>3, <4>4 DEF Inserted
      <4>5. CASE ~HasError(r)
        BY <3>1, <4>1, <4>2, <4>3, <4>5 DEF Inserted
      <4> QED
        BY <4>4, <4>5
    <3>2. CASE m.key \notin Keys
      BY <1>6, <3>2 DEF Insert, ContainsKey
    <3> QED
      BY <3>1, <3>2
  <2>3. mirror' \in [Keys -> AnyValue] /\ \A k \in Keys : mirror'[k] \in held[k]
    BY <1>1, <2>2
  <2> QED
    BY <1>1, <2>1, <2>2, <2>3 DEF MirrorInv, ErrorsChangeNothing
<1>7. CASE UNCHANGED registerVars
  BY <1>1, <1>7 DEF registerVars, MirrorInv, ErrorsChangeNothing
<1> QED
  BY <1>2, <1>3, <1>4, <1>5, <1>6, <1>7 DEF RegisterNext

(* Whatever the converters of the registers are, as long as they see when  *)
(* a message is cut: what the mirror has the device has had, and an insert *)
(* that returns an error changes nothing.                                  *)
THEOREM MirrorsFollow == RegisterSpec => RegistersFollow
<1>1. MirrorInv /\ [RegisterNext]_registerVars => MirrorInv'
  BY MirrorStep
<1>2. MirrorInv' => MirrorFollows'
  BY DEF MirrorInv, MirrorFollows
<1>3. MirrorInv /\ [RegisterNext]_registerVars => [MirrorFollows' /\ ErrorsChangeNothing]_registerVars
  BY <1>1, <1>2, MirrorStep
<1> QED
  BY <1>1, <1>3, MirrorInit, PTL DEF RegisterSpec, RegistersFollow

-----------------------------------------------------------------------------
(* Calls.                                                                  *)

MadeCalls == UNION {{<<i, args>> : args \in Procedures[i].args} : i \in CallIds}

(* What the request of the call c may be on its way, its tag not lost.     *)
RequestOf(b, c) ==
  LET s == CallMessage(c[1], c[2]) IN \E n \in 1 .. Len(s) : b = SubSeq(s, 1, n)

(* The reply of the handler, and that to a request that was cut.           *)
AnswerOf(b, c) == b = EncodeReply(<<0, <<c[1] - 1, Result(c[1], c[2])>>>>)
ErrorOf(b, c) ==
  LET s == CallMessage(c[1], c[2])
  IN  \E n \in 1 .. Len(s) - 1 : b = ReplyTo(DecodeRequest(SubSeq(s, 1, n)))

(* Everything on the way is about a call that was made, the pending one if *)
(* nothing was on the way when it started.                                 *)
Own(c) == quiet /\ pending # Nothing => c = pending

CallsInv ==
  /\ asked \in Seq(MadeCalls)
  /\ ran \subseteq Range(asked)
  /\ pending # Nothing => pending \in Range(asked)
  /\ \A b \in requests : \E c \in Range(asked) : RequestOf(b, c) /\ Own(c)
  /\ \A b \in replies : \E c \in Range(asked) :
       (ErrorOf(b, c) \/ (AnswerOf(b, c) /\ c \in ran)) /\ Own(c)
  /\ AnswersMatch

LEMMA CallMade ==
  ASSUME NEW c \in MadeCalls
  PROVE  /\ c = <<c[1], c[2]>> /\ c[1] \in CallIds /\ c[1] \in Nat /\ c[2] \in Procedures[c[1]].args
         /\ CallMessage(c[1], c[2]) \in Seq(Nat) /\ CallMessage(c[1], c[2]) # <<>>
         /\ DecodeRequest(CallMessage(c[1], c[2])) = Good(Len(CallMessage(c[1], c[2])), <<c[1] - 1, c[2]>>)
         /\ \A n \in 1 .. Len(CallMessage(c[1], c[2])) - 1 :
              HasError(DecodeRequest(SubSeq(CallMessage(c[1], c[2]), 1, n)))
<1>1. PICK i \in CallIds : \E args \in Procedures[i].args : c = <<i, args>>
  BY DEF MadeCalls
<1>2. c = <<c[1], c[2]>> /\ c[1] = i /\ c[2] \in Procedures[i].args /\ i \in Nat
  BY <1>1, RequestAssumption
<1> QED
  BY <1>1, <1>2, RequestAssumption

LEMMA AskedGrows ==
  ASSUME NEW s \in Seq(MadeCalls), NEW c \in MadeCalls
  PROVE  Append(s, c) \in Seq(MadeCalls) /\ Range(Append(s, c)) = Range(s) \cup {c}
<1>1. /\ Append(s, c) \in Seq(MadeCalls) /\ Len(Append(s, c)) = Len(s) + 1 /\ Len(s) \in Nat
      /\ \A i \in 1 .. Len(s) : Append(s, c)[i] = s[i]
      /\ Append(s, c)[Len(s) + 1] = c
  OBVIOUS
<1>2. DOMAIN s = 1 .. Len(s) /\ DOMAIN Append(s, c) = 1 .. Len(s) + 1
  BY <1>1
<1>3. \A x : x \in Range(Append(s, c)) <=> x \in Range(s) \/ x = c
  <2>1. \A i : i \in 1 .. Len(s) + 1 <=> i \in 1 .. Len(s) \/ i = Len(s) + 1
    BY <1>1
  <2> QED
    BY <1>1, <1>2, <2>1, Zenon DEF Range
<1> QED
  BY <1>1, <1>3

(* What the reactor makes of a request.                                    *)
LEMMA RequestAnswered ==
  ASSUME NEW c \in MadeCalls, NEW b, RequestOf(b, c)
  PROVE  LET r == DecodeRequest(b)
         IN  \/ HasError(r) /\ ErrorOf(ReplyTo(r), c)
             \/ ~HasError(r) /\ AnswerOf(ReplyTo(r), c) /\ <<r.val[1] + 1, r.val[2]>> = c
<1> DEFINE s == CallMessage(c[1], c[2])
           r == DecodeRequest(b)
<1>1. /\ c = <<c[1], c[2]>> /\ c[1] \in Nat /\ s \in Seq(Nat) /\ Len(s) \in Nat
      /\ DecodeRequest(s) = Good(Len(s), <<c[1] - 1, c[2]>>)
      /\ \A n \in 1 .. Len(s) - 1 : HasError(DecodeRequest(SubSeq(s, 1, n)))
  BY CallMade, WholeIsUncut
<1>2. PICK n \in 1 .. Len(s) : b = SubSeq(s, 1, n)
  BY DEF RequestOf
<1>3. CASE n # Len(s)
  <2>1. n \in 1 .. Len(s) - 1
    BY <1>1, <1>3
  <2> QED
    BY <1>1, <1>2, <2>1 DEF ErrorOf
<1>4. CASE n = Len(s)
  <2>1. b = s
    BY <1>1, <1>2, <1>4, WholeIsUncut
  <2>2. r.err = "none" /\ r.val = <<c[1] - 1, c[2]>>
    BY <1>1, <2>1 DEF Good
  <2>3. r.val[1] = c[1] - 1 /\ r.val[2] = c[2]
    BY <2>2
  <2>4. c[1] - 1 + 1 = c[1]
    BY <1>1
  <2>5. ~HasError(r)
    BY <2>2 DEF HasError
  <2>6. ReplyTo(r) = EncodeReply(<<0, <<c[1] - 1, Result(c[1], c[2])>>>>)
    BY <2>3, <2>4, <2>5 DEF ReplyTo, Handle
  <2> QED
    BY <1>1, <2>3, <2>4, <2>5, <2>6 DEF AnswerOf
<1> QED
  BY <1>3, <1>4

(* What the controller makes of a reply.                                   *)
LEMMA ReplyTaken ==
  ASSUME NEW c \in MadeCalls, NEW b, NEW i \in CallIds
  PROVE  /\ ErrorOf(b, c) => OnReply(i, b).kind \in {"error_record", "reactor_error"}
         /\ AnswerOf(b, c) => OnReply(i, b) = IF i = c[1] THEN [kind |-> "value", is |-> Result(c[1], c[2])]
                                              ELSE [kind |-> "reply_error", is |-> c[1] - 1]
<1> DEFINE s == CallMessage(c[1], c[2])
           r == DecodeReply(b)
<1>1. c[1] \in CallIds /\ c[1] \in Nat /\ i \in Nat /\ c[2] \in Procedures[c[1]].args
  BY CallMade, RequestAssumption
<1>2. ASSUME ErrorOf(b, c)
      PROVE  OnReply(i, b).kind \in {"error_record", "reactor_error"}
  <2>1. HasError(r) \/ r.val[1] = 1
    BY <1>1, <1>2, ReplyAssumption DEF ErrorOf
  <2> QED
    BY <2>1 DEF OnReply
<1>3. ASSUME AnswerOf(b, c)
      PROVE  OnReply(i, b) = IF i = c[1] THEN [kind |-> "value", is |-> Result(c[1], c[2])]
                             ELSE [kind |-> "reply_error", is |-> c[1] - 1]
  <2>1. r = Good(Len(b), <<0, <<c[1] - 1, Result(c[1], c[2])>>>>)
    BY <1>1, <1>3, ReplyAssumption DEF AnswerOf
  <2>2. r.err = "none" /\ r.val = <<0, <<c[1] - 1, Result(c[1], c[2])>>>>
    BY <2>1 DEF Good
  <2>3. ~HasError(r) /\ r.val[1] = 0 /\ r.val[2][1] = c[1] - 1 /\ r.val[2][2] = Result(c[1], c[2])
    BY <2>2 DEF HasError
  <2>4. (c[1] - 1 # i - 1) <=> i # c[1]
    BY <1>1
  <2> QED
    BY <2>3, <2>4 DEF OnReply
<1> QED
  BY <1>2, <1>3

LEMMA CallsInit == RpcInit => CallsInv
  BY DEF RpcInit, CallsInv, Range, AnswersMatch

LEMMA CallsStep ==
  ASSUME ~CutsTags, CallsInv, [RpcNext]_rpcVars
  PROVE  CallsInv'
<1>1. /\ asked \in Seq(MadeCalls)
      /\ ran \subseteq Range(asked)
      /\ pending # Nothing => pending \in Range(asked)
      /\ \A b \in requests : \E c \in Range(asked) : RequestOf(b, c) /\ Own(c)
      /\ \A b \in replies : \E c \in Range(asked) :
           (ErrorOf(b, c) \/ (AnswerOf(b, c) /\ c \in ran)) /\ Own(c)
      /\ AnswersMatch
  BY DEF CallsInv
<1>2. \A c \in Range(asked) : c \in MadeCalls
  <2>1. DOMAIN asked = 1 .. Len(asked) /\ \A i \in 1 .. Len(asked) : asked[i] \in MadeCalls
    BY <1>1
  <2> QED
    BY <2>1 DEF Range
<1>3. ASSUME NEW k \in CallIds, NEW args \in Procedures[k].args, Call(Procedures[k].id, args)
      PROVE  CallsInv'
  <2> DEFINE c == <<k, args>>
  <2>1. GetCallIndex(Procedures[k].id) = k
    BY RequestAssumption DEF GetCallIndex
  <2>2. /\ pending' = c /\ outcome' = Nothing /\ asked' = Append(asked, c)
        /\ quiet' = (requests = {} /\ replies = {})
        /\ requests' = requests \cup {CallMessage(k, args)}
        /\ UNCHANGED <<replies, ran>>
    BY <1>3, <2>1 DEF Call
  <2>3. c \in MadeCalls /\ c[1] = k /\ c[2] = args
    BY DEF MadeCalls
  <2>4. asked' \in Seq(MadeCalls) /\ Range(asked') = Range(asked) \cup {c}
    BY <1>1, <2>2, <2>3, AskedGrows
  <2>5. RequestOf(CallMessage(k, args), c)
    <3> DEFINE s == CallMessage(k, args)
    <3>1. s \in Seq(Nat) /\ DecodeRequest(s) = Good(Len(s), <<k - 1, args>>)
      BY RequestAssumption
    <3>2. s = SubSeq(s, 1, Len(s)) /\ Len(s) \in Nat
      BY <3>1, WholeIsUncut
    <3>3. s # <<>>
      BY <3>1, RequestAssumption
    <3>4. Len(s) \in 1 .. Len(s)
      BY <3>1, <3>2, <3>3
    <3>5. CallMessage(c[1], c[2]) = s
      BY <2>3
    <3> HIDE DEF s
    <3> QED
      BY <3>2, <3>4, <3>5 DEF RequestOf
  <2>6. Own(c)'
    BY <2>2 DEF Own
  <2>7. ASSUME quiet', NEW x
        PROVE  x \notin requests /\ x \notin replies
    BY <2>2, <2>7
  <2>8. \A b \in requests' : \E d \in Range(asked)' : RequestOf(b, d) /\ Own(d)'
    <3>1. ASSUME NEW b \in requests
          PROVE  \E d \in Range(asked)' : RequestOf(b, d) /\ Own(d)'
      BY <1>1, <2>4, <2>7, <3>1 DEF Own
    <3> QED
      BY <2>2, <2>4, <2>5, <2>6, <3>1
  <2>9. \A b \in replies' : \E d \in Range(asked)' :
           (ErrorOf(b, d) \/ (AnswerOf(b, d) /\ d \in ran')) /\ Own(d)'
    BY <1>1, <2>2, <2>4, <2>7 DEF Own
  <2> QED
    BY <1>1, <2>2, <2>4, <2>8, <2>9 DEF CallsInv, AnswersMatch
<1>4. ASSUME NEW r, requests' = r, r \subseteq requests,
             UNCHANGED <<pending, replies, outcome, asked, ran, quiet>>
      PROVE  CallsInv'
  BY <1>1, <1>4 DEF CallsInv, Own, AnswersMatch
<1>5. ASSUME NEW b \in requests, NEW n \in 0 .. Len(b), CutRequest(b, n)
      PROVE  CallsInv'
  <2>1. /\ n < Len(b) /\ n > 0 /\ requests' = (requests \ {b}) \cup {SubSeq(b, 1, n)}
        /\ UNCHANGED <<pending, replies, outcome, asked, ran, quiet>>
    BY <1>5 DEF CutRequest
  <2>2. PICK c \in Range(asked) : RequestOf(b, c) /\ Own(c)
    BY <1>1
  <2>3. RequestOf(SubSeq(b, 1, n), c)
    <3> DEFINE s == CallMessage(c[1], c[2])
    <3>1. s \in Seq(Nat) /\ Len(s) \in Nat
      BY <1>2, CallMade, WholeIsUncut
    <3>2. PICK l \in 1 .. Len(s) : b = SubSeq(s, 1, l)
      BY <2>2 DEF RequestOf
    <3>3. l \in 0 .. Len(s) /\ Len(b) = l
      BY <3>1, <3>2, CutsOfCuts
    <3>4. n \in 0 .. l /\ n \in 1 .. Len(s)
      BY <2>1, <3>1, <3>2, <3>3
    <3>5. SubSeq(b, 1, n) = SubSeq(s, 1, n)
      BY <3>1, <3>2, <3>3, <3>4, CutsOfCuts
    <3> QED
      BY <3>4, <3>5 DEF RequestOf
  <2> QED
    BY <1>1, <2>1, <2>2, <2>3 DEF CallsInv, Own, AnswersMatch
<1>6. ASSUME NEW b \in requests, NEW stays \in BOOLEAN, OnMessage(b, stays)
      PROVE  CallsInv'
  <2> DEFINE r == DecodeRequest(b)
  <2>1. /\ replies' = replies \cup {ReplyTo(r)}
        /\ ran' = IF HasError(r) THEN ran ELSE ran \cup {<<r.val[1] + 1, r.val[2]>>}
        /\ requests' \subseteq requests
        /\ UNCHANGED <<pending, outcome, asked, quiet>>
    BY <1>6 DEF OnMessage
  <2>2. PICK c \in Range(asked) : RequestOf(b, c) /\ Own(c)
    BY <1>1
  <2>3. \/ HasError(r) /\ ErrorOf(ReplyTo(r), c)
        \/ ~HasError(r) /\ AnswerOf(ReplyTo(r), c) /\ <<r.val[1] + 1, r.val[2]>> = c
    BY <1>2, <2>2, RequestAnswered
  <2> HIDE DEF r
  <2>4. ran \subseteq ran' /\ ran' \subseteq Range(asked)
        /\ (ErrorOf(ReplyTo(r), c) \/ (AnswerOf(ReplyTo(r), c) /\ c \in ran'))
    BY <1>1, <2>1, <2>2, <2>3
  <2>5. Range(asked)' = Range(asked) /\ \A d : Own(d)' = Own(d)
    BY <2>1 DEF Own
  <2>6. \A x \in replies' : \E d \in Range(asked)' :
           (ErrorOf(x, d) \/ (AnswerOf(x, d) /\ d \in ran')) /\ Own(d)'
    <3>1. ASSUME NEW x \in replies
          PROVE  \E d \in Range(asked)' :
                   (ErrorOf(x, d) \/ (AnswerOf(x, d) /\ d \in ran')) /\ Own(d)'
      BY <1>1, <2>4, <2>5
    <3> QED
      BY <2>1, <2>2, <2>4, <2>5, <3>1
  <2>7. AnswersMatch'
    BY <1>1, <2>1, <2>4, <2>5 DEF AnswersMatch
  <2>8. \A x \in requests' : \E d \in Range(asked)' : RequestOf(x, d) /\ Own(d)'
    BY <1>1, <2>1, <2>5
  <2> QED
    BY <1>1, <2>1, <2>4, <2>5, <2>6, <2>7, <2>8 DEF CallsInv
<1>7. ASSUME NEW b \in replies \cup {<<>>}, Return(b)
      PROVE  CallsInv'
  <2>1. /\ pending # Nothing /\ pending' = Nothing /\ replies' \subseteq replies
        /\ outcome' = [to |-> pending, result |-> OnReply(pending[1], b)]
        /\ UNCHANGED <<requests, asked, ran, quiet>>
    BY <1>7 DEF Return
  <2> DEFINE result == OnReply(pending[1], b)
  <2>2. pending \in Range(asked) /\ pending[1] \in CallIds /\ pending = <<pending[1], pending[2]>>
    BY <1>1, <1>2, <2>1, CallMade
  <2>3. /\ result.kind = "value" =>
              \E c \in ran \cap Range(asked) : c[1] = pending[1] /\ result.is = Result(c[1], c[2])
        /\ quiet => result.kind # "reply_error"
        /\ quiet /\ result.kind = "value" => result.is = Result(pending[1], pending[2])
    <3>1. CASE b = <<>>
      <4>1. result.kind = "error_record"
        BY <3>1, ReplyAssumption DEF OnReply
      <4> QED
        BY <4>1
    <3>2. CASE b \in replies
      <4>1. PICK c \in Range(asked) : (ErrorOf(b, c) \/ (AnswerOf(b, c) /\ c \in ran)) /\ Own(c)
        BY <1>1, <3>2
      <4>2. c \in MadeCalls /\ (quiet => c = pending)
        BY <1>2, <2>1, <4>1 DEF Own
      <4>3. CASE ErrorOf(b, c)
        <5>1. result.kind \in {"error_record", "reactor_error"}
          BY <2>2, <4>2, <4>3, ReplyTaken
        <5> QED
          BY <5>1
      <4>4. CASE AnswerOf(b, c) /\ c \in ran
        <5>1. result = IF pending[1] = c[1] THEN [kind |-> "value", is |-> Result(c[1], c[2])]
                       ELSE [kind |-> "reply_error", is |-> c[1] - 1]
          BY <2>2, <4>2, <4>4, ReplyTaken
        <5> HIDE DEF result
        <5>2. CASE pending[1] = c[1]
          <6>1. result.kind = "value" /\ result.is = Result(c[1], c[2])
            BY <5>1, <5>2
          <6> QED
            BY <4>1, <4>2, <4>4, <5>2, <6>1
        <5>3. CASE pending[1] # c[1]
          <6>1. result.kind = "reply_error" /\ ~quiet
            BY <4>2, <5>1, <5>3
          <6> QED
            BY <6>1
        <5> QED
          BY <5>2, <5>3
      <4> QED
        BY <4>1, <4>3, <4>4
    <3> QED
      BY <3>1, <3>2
  <2>4. outcome'.to = pending /\ outcome'.result = result
    BY <2>1
  <2> HIDE DEF result
  <2>5. AnswersMatch'
    BY <2>1, <2>3, <2>4 DEF AnswersMatch
  <2> QED
    BY <1>1, <2>1, <2>5 DEF CallsInv, Own
<1>8. CASE UNCHANGED rpcVars
  BY <1>1, <1>8 DEF rpcVars, CallsInv, Own, AnswersMatch
<1>9. ASSUME NEW b \in requests, LoseRequest(b)
      PROVE  CallsInv'
  <2>1. requests' = requests \ {b} /\ UNCHANGED <<pending, replies, outcome, asked, ran, quiet>>
    BY <1>9 DEF LoseRequest
  <2> QED
    BY <1>4, <2>1
<1> QED
  BY <1>3, <1>5, <1>6, <1>7, <1>8, <1>9 DEF RpcNext

(* Whatever the calls, their handlers and converters: the reactor runs     *)
(* only what was asked for and a call returns the answer of its handler,   *)
(* or an error, as long as no request loses its tag.                       *)
THEOREM AnswersOfTheCall ==
  ASSUME ~CutsTags
  PROVE  RpcSpec => []AnswersAreOfTheCall
<1>1. CallsInv => AnswersAreOfTheCall
  BY DEF CallsInv, AnswersAreOfTheCall, OnlyAskedRuns
<1>2. CallsInv /\ [RpcNext]_rpcVars => CallsInv'
  BY CallsStep
<1> QED
  BY <1>1, <1>2, CallsInit, PTL DEF RpcSpec

=============================================================================
