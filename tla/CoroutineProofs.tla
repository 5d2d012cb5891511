---------------------------- MODULE CoroutineProofs -----------------------------
(***************************************************************************)
(* The frames of request_reply coroutines and the pools they lie in, and   *)
(* the requests and replies of the sessions of round_robin_run, for any    *)
(* number of pools of any size, sessions of any length and any frame; and  *)
(* recursive coroutines of any depth, whatever their bodies await and      *)
(* however often.                                                          *)
(***************************************************************************)
EXTENDS RoundRobin, RecursiveCoroutine, FiniteSetTheorems, SequenceTheorems, WellFoundedInduction, TLAPS

FrameBlock == [ptr : Nat, bytes : Nat]

(* While a session is started, the first k coroutines of the array have a  *)
(* frame; once the executor runs, the whole array and the executor do.     *)
StartedSoFar ==
  \/ /\ holder # None /\ size # 0
     /\ Holders = InSession \cup {Executor}
     /\ Len(free) + size + 1 = PoolCount
  \/ /\ holder = None
     /\ \E k \in 0 .. size : Holders = 0 .. k - 1 /\ Len(free) + k = PoolCount

(* The inductive invariant.                                                *)
FrameInv ==
  /\ free \in Seq(Pools)
  /\ live \in [Clients -> FrameBlock \cup {NoBlock}]
  /\ size \in 0 .. N
  /\ PoolsArePartitioned
  /\ StartedSoFar

-----------------------------------------------------------------------------
(* Addresses.                                                              *)

(* Division with remainder.                                                *)
LEMMA Divides ==
  ASSUME NEW m \in Nat \ {0}, NEW x \in Nat
  PROVE  x \div m \in Nat /\ x - m < m * (x \div m) /\ m * (x \div m) <= x
  OBVIOUS

(* The quotient is the only one there is.                                  *)
LEMMA Quotient ==
  ASSUME NEW m \in Nat \ {0}, NEW q \in Nat, NEW r \in 0 .. m - 1
  PROVE  (m * q + r) \div m = q
  OBVIOUS

(* Aligning goes up.                                                       *)
LEMMA AlignsUp ==
  ASSUME NEW addr \in Nat, NEW alignment \in Nat \ {0}
  PROVE  AlignAddr(addr, alignment) \in Nat /\ AlignAddr(addr, alignment) >= addr
<1> DEFINE q == (addr + alignment - 1) \div alignment
<1>1. addr + alignment - 1 \in Nat
  OBVIOUS
<1>2. q \in Nat /\ (addr + alignment - 1) - alignment < alignment * q
  BY <1>1, Divides
<1> HIDE DEF q
<1>3. q * alignment = alignment * q /\ q * alignment \in Nat
  BY <1>2
<1>4. AlignAddr(addr, alignment) = q * alignment
  BY DEF AlignAddr, q
<1> QED
  BY <1>2, <1>3, <1>4

(* A block is found in the pool it was taken from.                         *)
LEMMA CandidateIsInPool ==
  ASSUME free \in Seq(Pools), Fits(FrameBytes, FrameAlign)
  PROVE  /\ Last(free) \in Pools /\ Len(free) \in Nat \ {0}
         /\ Candidate(FrameAlign) \in Nat
         /\ Spot(Candidate(FrameAlign)) = Last(free)
         /\ Candidate(FrameAlign) + FrameBytes <= Start(Last(free) + 1)
<1> DEFINE i == Last(free)
           p == Candidate(FrameAlign)
<1>1. Len(free) \in Nat \ {0} /\ i \in Pools
  BY DEF Fits, IsFull, Last
<1>2. /\ PoolsBase \in Nat /\ PoolSize \in Nat \ {0} /\ i \in Nat
      /\ FrameBytes \in Nat \ {0} /\ FrameAlign \in Nat \ {0}
  BY <1>1, PoolAssumption, SessionAssumption DEF Pools
<1> DEFINE s == PoolSize * i
<1>3. s \in Nat /\ Start(i) = PoolsBase + s /\ Start(i + 1) = PoolsBase + s + PoolSize
  <2> DEFINE z == PoolSize
  <2>1. z \in Nat /\ i \in Nat
    BY <1>2
  <2>2. z * i \in Nat /\ i * z = z * i /\ (i + 1) * z = z * i + z
    <3> HIDE DEF z, i
    <3> QED
      BY <2>1
  <2> QED
    BY <1>2, <2>2 DEF Start
<1> HIDE DEF i
<1>4. p = AlignAddr(Start(i), FrameAlign) /\ Start(i) \in Nat
  BY <1>2, <1>3 DEF Candidate, i
<1>5. p \in Nat /\ p >= Start(i)
  BY <1>2, <1>4, AlignsUp
<1>6. FrameBytes + (p - Start(i)) <= PoolSize
  BY DEF Fits, i
<1> HIDE DEF p, s
<1>7. p + FrameBytes <= Start(i + 1) /\ p - Start(i) \in 0 .. PoolSize - 1
  BY <1>2, <1>3, <1>5, <1>6
<1>8. (PoolSize * i + (p - Start(i))) \div PoolSize = i
  BY <1>2, <1>7, Quotient
<1>9. p - PoolsBase = PoolSize * i + (p - Start(i))
  BY <1>2, <1>3, <1>5 DEF s
<1> QED
  BY <1>1, <1>5, <1>7, <1>8, <1>9 DEF Spot, i, p

-----------------------------------------------------------------------------
(* A coroutine without a frame gets one.                                   *)
LEMMA AllocationKeeps ==
  ASSUME FrameInv, NEW c \in Clients, PoolAllocate(c, FrameBytes, FrameAlign)
  PROVE  /\ free' \in Seq(Pools) /\ Len(free') = Len(free) - 1 /\ Len(free) \in Nat
         /\ live' \in [Clients -> FrameBlock \cup {NoBlock}]
         /\ Holders' = Holders \cup {c}
         /\ PoolsArePartitioned'
<1> DEFINE i == Last(free)
           n == Len(free)
           p == Candidate(FrameAlign)
           b == [ptr |-> p, bytes |-> FrameBytes]
<1>1. /\ i \in Pools /\ n \in Nat \ {0} /\ p \in Nat /\ Spot(p) = i
      /\ p + FrameBytes <= Start(i + 1)
  BY CandidateIsInPool DEF FrameInv, PoolAllocate
<1>2. b \in FrameBlock /\ b # NoBlock /\ b.ptr = p /\ b.bytes = FrameBytes
  BY <1>1, PoolAssumption, SessionAssumption DEF FrameBlock
<1>3. live[c] = NoBlock /\ live' = [live EXCEPT ![c] = b] /\ free' = Front(free)
  BY DEF PoolAllocate
<1>4. free \in Seq(Pools) /\ live \in [Clients -> FrameBlock \cup {NoBlock}] /\ PoolsArePartitioned
  BY DEF FrameInv
<1>5. i = free[n] /\ DOMAIN free = 1 .. n
  BY <1>4 DEF Last
<1> HIDE DEF i, p, b
<1>6. /\ free' \in Seq(Pools) /\ Len(free') = n - 1 /\ DOMAIN free' = 1 .. n - 1
      /\ \A j \in 1 .. n - 1 : free'[j] = free[j]
  <2> HIDE DEF n
  <2>1. n \in Nat /\ n >= 1 /\ n - 1 \in Int /\ (1 <= n - 1 \/ n - 1 = 0)
    BY <1>1
  <2>2. \A j \in 1 .. n - 1 : free[j] \in Pools
    BY <1>4, <1>5, <2>1
  <2>3. free' = SubSeq(free, 1, n - 1)
    BY <1>3 DEF Front, n
  <2>4. /\ SubSeq(free, 1, n - 1) \in Seq(Pools)
        /\ Len(SubSeq(free, 1, n - 1)) = n - 1
        /\ \A j \in 1 .. n - 1 : SubSeq(free, 1, n - 1)[j] = free[j]
    <3>1. /\ SubSeq(free, 1, n - 1) \in Seq(Pools)
          /\ Len(SubSeq(free, 1, n - 1)) = IF 1 <= n - 1 THEN (n - 1) - 1 + 1 ELSE 0
          /\ \A j \in 1 .. (n - 1) - 1 + 1 : SubSeq(free, 1, n - 1)[j] = free[1 + j - 1]
      BY <2>1, <2>2, SubSeqProperties
    <3>2. (n - 1) - 1 + 1 = n - 1 /\ \A j \in 1 .. n - 1 : 1 + j - 1 = j
      BY <2>1
    <3> QED
      BY <2>1, <3>1, <3>2
  <2> QED
    BY <2>3, <2>4, LenProperties
<1> HIDE DEF n
<1>7. \A d \in Clients : live'[d] = IF d = c THEN b ELSE live[d]
  BY <1>3, <1>4
<1>8. live' \in [Clients -> FrameBlock \cup {NoBlock}] /\ Holders' = Holders \cup {c} /\ c \notin Holders
  <2>1. live' \in [Clients -> FrameBlock \cup {NoBlock}]
    BY <1>2, <1>3, <1>4
  <2>2. \A d \in Clients : (live'[d] # NoBlock) <=> (live[d] # NoBlock \/ d = c)
    BY <1>2, <1>7
  <2> QED
    BY <1>3, <2>1, <2>2 DEF Holders
<1>9. IsInjective(free) /\ IsInjective(free')
  <2>1. IsInjective(free)
    BY <1>4 DEF PoolsArePartitioned
  <2>2. 1 .. n - 1 \subseteq 1 .. n
    BY <1>1
  <2> QED
    BY <1>5, <1>6, <2>1, <2>2 DEF IsInjective
<1>10. Range(free') = Range(free) \ {i}
  <2>1. \A j \in 1 .. n - 1 : free[j] # free[n]
    BY <1>1, <1>5, <1>9 DEF IsInjective
  <2>2. 1 .. n = (1 .. n - 1) \cup {n}
    BY <1>1
  <2> QED
    BY <1>5, <1>6, <2>1, <2>2 DEF Range
<1>11. i \in Range(free)
  BY <1>1, <1>5 DEF Range
<1>12. \A d \in Holders : live'[d] = live[d] /\ Spot(live[d].ptr) # i
  <2>1. ASSUME NEW d \in Holders
        PROVE  live'[d] = live[d]
    BY <1>3, <1>7 DEF Holders
  <2>2. ASSUME NEW d \in Holders
        PROVE  Spot(live[d].ptr) \notin Range(free)
    BY <1>4 DEF PoolsArePartitioned
  <2> QED
    BY <1>11, <2>1, <2>2
<1>13. live'[c] = b /\ Spot(live'[c].ptr) = i
  BY <1>1, <1>2, <1>7
<1>14. PoolsArePartitioned'
  <2>1. ASSUME NEW d \in Holders'
        PROVE  /\ Spot(live'[d].ptr) \in Pools \ Range(free')
               /\ live'[d].ptr + live'[d].bytes <= Start(Spot(live'[d].ptr) + 1)
               /\ \A e \in Holders' \ {d} : Spot(live'[e].ptr) # Spot(live'[d].ptr)
    <3>1. CASE d = c
      <4>1. \A e \in Holders' \ {d} : e \in Holders
        BY <1>8, <3>1
      <4> QED
        BY <1>1, <1>2, <1>10, <1>12, <1>13, <3>1, <4>1
    <3>2. CASE d # c
      <4>1. d \in Holders
        BY <1>8, <3>2
      <4> QED
        BY <1>4, <1>8, <1>10, <1>12, <1>13, <4>1 DEF PoolsArePartitioned
    <3> QED
      BY <3>1, <3>2
  <2>2. ASSUME NEW j \in Pools \ Range(free')
        PROVE  \E d \in Holders' : Spot(live'[d].ptr) = j
    <3>1. CASE j = i
      BY <1>8, <1>13, <3>1
    <3>2. CASE j # i
      <4>1. j \in Pools \ Range(free)
        BY <1>10, <3>2
      <4> QED
        BY <1>4, <1>8, <1>12, <4>1 DEF PoolsArePartitioned
    <3> QED
      BY <3>1, <3>2
  <2> QED
    BY <1>9, <2>1, <2>2 DEF PoolsArePartitioned
<1> QED
  BY <1>1, <1>6, <1>8, <1>14 DEF n

-----------------------------------------------------------------------------
(* All that have a block return it.                                        *)
LEMMA DeallocationKeeps ==
  ASSUME FrameInv, NEW n \in Nat, NEW cs \in [1 .. n -> Clients], IsInjective(cs),
         Range(cs) = Holders, PoolDeallocate(cs)
  PROVE  /\ free' \in Seq(Pools) /\ Len(free') = Len(free) + n
         /\ live' \in [Clients -> FrameBlock \cup {NoBlock}]
         /\ Holders' = {}
         /\ PoolsArePartitioned'
<1> DEFINE Place(k) == Spot(live[cs[k]].ptr)
           g == [k \in 1 .. n |-> Place(k)]
           l == Len(free)
<1>1. free \in Seq(Pools) /\ PoolsArePartitioned /\ l \in Nat /\ DOMAIN free = 1 .. l
  BY LenProperties DEF FrameInv
<1>2. DOMAIN cs = 1 .. n /\ \A k \in 1 .. n : cs[k] \in Holders
  BY DEF Range
<1>3. free' = free \o g /\ live' = [c \in Clients |-> NoBlock]
  BY <1>2 DEF PoolDeallocate, Holders
<1>4. \A c \in Holders : Spot(live[c].ptr) \in Pools \ Range(free)
  BY <1>1 DEF PoolsArePartitioned
<1>5. \A c, d \in Holders : Spot(live[c].ptr) = Spot(live[d].ptr) => c = d
  BY <1>1 DEF PoolsArePartitioned
<1>6. \A k \in 1 .. n : Place(k) \in Pools /\ Place(k) \notin Range(free)
  BY <1>2, <1>4
<1>7. \A j, k \in 1 .. n : Place(j) = Place(k) => j = k
  BY <1>2, <1>5 DEF IsInjective
<1>8. \A i \in Pools \ Range(free) : \E k \in 1 .. n : Place(k) = i
  <2> TAKE i \in Pools \ Range(free)
  <2>1. PICK c \in Holders : Spot(live[c].ptr) = i
    BY <1>1 DEF PoolsArePartitioned
  <2>2. PICK k \in 1 .. n : cs[k] = c
    BY <1>2, <2>1 DEF Range
  <2> QED
    BY <2>1, <2>2
<1> HIDE DEF Place
<1>9. g \in Seq(Pools) /\ Len(g) = n /\ \A k \in 1 .. n : g[k] = Place(k)
  BY <1>6, IsASeq, LenProperties
<1> HIDE DEF g, l
<1>10. /\ free' \in Seq(Pools) /\ Len(free') = l + n /\ DOMAIN free' = 1 .. l + n
       /\ \A k \in 1 .. l + n : free'[k] = IF k <= l THEN free[k] ELSE Place(k - l)
  <2>1. /\ free \o g \in Seq(Pools) /\ Len(free \o g) = l + n
        /\ \A k \in 1 .. l + n : (free \o g)[k] = IF k <= l THEN free[k] ELSE g[k - l]
    BY <1>1, <1>9, ConcatProperties DEF l
  <2>2. \A k \in 1 .. l + n : k <= l \/ k - l \in 1 .. n
    BY <1>1
  <2>3. DOMAIN (free \o g) = 1 .. l + n
    BY <2>1, LenProperties
  <2> QED
    BY <1>3, <1>9, <2>1, <2>2, <2>3
<1>11. Holders' = {} /\ live' \in [Clients -> FrameBlock \cup {NoBlock}]
  BY <1>3 DEF Holders
<1>12. \A k \in 1 .. l : free[k] \in Range(free)
  BY <1>1 DEF Range
<1>13. IsInjective(free')
  <2>1. \A j, k \in 1 .. l : free[j] = free[k] => j = k
    BY <1>1 DEF PoolsArePartitioned, IsInjective
  <2> SUFFICES ASSUME NEW j \in 1 .. l + n, NEW k \in 1 .. l + n, free'[j] = free'[k]
               PROVE  j = k
    BY <1>10 DEF IsInjective
  <2>2. CASE j <= l /\ k <= l
    BY <1>1, <1>10, <2>1, <2>2
  <2>3. CASE j <= l /\ k > l
    <3>1. k - l \in 1 .. n /\ j \in 1 .. l /\ ~(k <= l)
      BY <1>1, <2>3
    <3> QED
      BY <1>6, <1>10, <1>12, <2>3, <3>1
  <2>4. CASE j > l /\ k <= l
    <3>1. j - l \in 1 .. n /\ k \in 1 .. l /\ ~(j <= l)
      BY <1>1, <2>4
    <3> QED
      BY <1>6, <1>10, <1>12, <2>4, <3>1
  <2>5. CASE j > l /\ k > l
    <3>1. j - l \in 1 .. n /\ k - l \in 1 .. n /\ ~(j <= l) /\ ~(k <= l)
      BY <1>1, <2>5
    <3>2. j - l = k - l
      BY <1>7, <1>10, <3>1
    <3> QED
      BY <1>1, <3>2
  <2> QED
    BY <1>1, <2>2, <2>3, <2>4, <2>5
<1>14. Pools \ Range(free') = {}
  <2> SUFFICES ASSUME NEW i \in Pools
               PROVE  i \in Range(free')
    OBVIOUS
  <2>1. CASE i \in Range(free)
    <3>1. PICK k \in 1 .. l : free[k] = i
      BY <1>1, <2>1 DEF Range
    <3>2. k \in 1 .. l + n /\ k <= l
      BY <1>1
    <3> QED
      BY <1>10, <3>1, <3>2 DEF Range
  <2>2. CASE i \notin Range(free)
    <3>1. PICK k \in 1 .. n : Place(k) = i
      BY <1>8, <2>2
    <3>2. k + l \in 1 .. l + n /\ ~(k + l <= l) /\ (k + l) - l = k
      BY <1>1
    <3> QED
      BY <1>10, <3>1, <3>2 DEF Range
  <2> QED
    BY <2>1, <2>2
<1>15. PoolsArePartitioned'
  BY <1>11, <1>13, <1>14 DEF PoolsArePartitioned
<1> QED
  BY <1>10, <1>11, <1>15 DEF l

(* The order in which a session returns its frames names each of them once.*)
LEMMA ReturnOrder ==
  ASSUME size \in 0 .. N, NEW cs, cs = Append(Reverse([k \in 1 .. size |-> k - 1]), Executor)
  PROVE  /\ cs \in [1 .. size + 1 -> Clients]
         /\ IsInjective(cs)
         /\ Range(cs) = InSession \cup {Executor}
<1> DEFINE s == [k \in 1 .. size |-> k - 1]
           r == Reverse(s)
<1>1. size \in Nat /\ N \in Nat /\ size <= N /\ Clients = 0 .. N /\ Executor = N
  BY SessionAssumption DEF Executor
<1>2. s \in Seq(Int) /\ Len(s) = size /\ \A k \in 1 .. size : s[k] = k - 1
  <2>1. \A k \in 1 .. size : k - 1 \in Int
    BY <1>1
  <2> QED
    BY <1>1, <2>1, IsASeq, LenProperties
<1> HIDE DEF s
<1>3. r = [k \in 1 .. size |-> s[size - k + 1]]
  BY <1>2 DEF Reverse
<1>4. \A k \in 1 .. size : r[k] = size - k
  <2> TAKE k \in 1 .. size
  <2>1. size - k + 1 \in 1 .. size /\ (size - k + 1) - 1 = size - k
    BY <1>1
  <2> QED
    BY <1>2, <1>3, <2>1
<1>5. r \in Seq(Int) /\ Len(r) = size
  <2>1. \A k \in 1 .. size : s[size - k + 1] \in Int
    BY <1>1, <1>2, <1>3, <1>4
  <2> QED
    BY <1>1, <1>3, <2>1, IsASeq, LenProperties
<1> HIDE DEF r
<1>6. /\ cs \in Seq(Int) /\ Len(cs) = size + 1
      /\ \A k \in 1 .. size : cs[k] = size - k
      /\ cs[size + 1] = N
  <2>1. cs = Append(r, N) /\ N \in Int
    BY <1>1 DEF r, s
  <2>2. /\ Append(r, N) \in Seq(Int) /\ Len(Append(r, N)) = Len(r) + 1
        /\ \A k \in 1 .. Len(r) : Append(r, N)[k] = r[k]
        /\ Append(r, N)[Len(r) + 1] = N
    BY <1>5, <2>1, AppendProperties
  <2> QED
    BY <1>4, <1>5, <2>1, <2>2
<1>7. DOMAIN cs = 1 .. size + 1 /\ \A k \in 1 .. size + 1 : k \in 1 .. size \/ k = size + 1
  BY <1>1, <1>6, LenProperties
<1>8. \A k \in 1 .. size : size - k \in InSession /\ size - k < N /\ size - k \in 0 .. N
  BY <1>1 DEF InSession
<1>9. cs = [k \in 1 .. size + 1 |-> cs[k]] /\ \A k \in 1 .. size + 1 : cs[k] \in Clients
  <2>1. \A k \in 1 .. size + 1 : cs[k] \in Clients
    BY <1>1, <1>6, <1>7, <1>8
  <2>2. cs \in [1 .. size + 1 -> Int]
    BY <1>6, LenProperties
  <2> QED
    BY <2>1, <2>2
<1>10. IsInjective(cs)
  <2> SUFFICES ASSUME NEW j \in 1 .. size + 1, NEW k \in 1 .. size + 1, cs[j] = cs[k]
               PROVE  j = k
    BY <1>7 DEF IsInjective
  <2>1. CASE j \in 1 .. size /\ k \in 1 .. size
    <3>1. size - j = size - k
      BY <1>6, <2>1
    <3> QED
      BY <1>1, <2>1, <3>1
  <2>2. ASSUME NEW i \in 1 .. size
        PROVE  cs[i] # cs[size + 1]
    <3>1. cs[i] = size - i /\ size - i < N /\ size - i \in 0 .. N /\ cs[size + 1] = N
      BY <1>6, <1>8
    <3>2. N \in Nat /\ size - i # N
      BY <1>1, <3>1
    <3> QED
      BY <3>1, <3>2
  <2> QED
    BY <1>7, <2>1, <2>2
<1>11. Range(cs) = InSession \cup {Executor}
  <2>1. ASSUME NEW c \in InSession
        PROVE  c \in Range(cs)
    <3>1. size - c \in 1 .. size /\ size - (size - c) = c /\ size - c \in 1 .. size + 1
      BY <1>1 DEF InSession
    <3> QED
      BY <1>6, <1>7, <3>1 DEF Range
  <2>2. N \in Range(cs)
    <3>1. size + 1 \in 1 .. size + 1
      BY <1>1
    <3> QED
      BY <1>6, <1>7, <3>1 DEF Range
  <2>3. ASSUME NEW k \in 1 .. size + 1
        PROVE  cs[k] \in InSession \cup {N}
    BY <1>6, <1>7, <1>8
  <2> QED
    BY <1>1, <1>7, <2>1, <2>2, <2>3 DEF Range
<1> QED
  BY <1>9, <1>10, <1>11

-----------------------------------------------------------------------------
(* A session that is not running yet has its first k frames.               *)
LEMMA StartingOne ==
  ASSUME FrameInv, NEW c, CanStart(c), PoolAllocate(c, FrameBytes, FrameAlign)
  PROVE  /\ c \in Clients /\ size \in 1 .. N
         /\ \E k \in 0 .. size :
               /\ Holders = 0 .. k - 1 /\ Len(free) + k = PoolCount
               /\ c = IF k = size THEN Executor ELSE k
<1>1. size \in 1 .. N /\ holder = None /\ c = Starting /\ N \in Nat
  BY SessionAssumption DEF CanStart, FrameInv
<1>2. PICK k \in 0 .. size : Holders = 0 .. k - 1 /\ Len(free) + k = PoolCount
  BY <1>1 DEF FrameInv, StartedSoFar
<1>3. k \in Nat /\ k <= size
  BY <1>1, <1>2
<1>4. Cardinality(Holders) = k
  BY <1>2, <1>3, FS_Interval
<1>5. c = IF k = size THEN Executor ELSE k
  BY <1>1, <1>4 DEF Starting, Started
<1>6. c \in Clients
  BY <1>1, <1>3, <1>5, SessionAssumption DEF Executor
<1> QED
  BY <1>1, <1>2, <1>5, <1>6

(* What a step leaves alone.                                               *)
LEMMA Untouched ==
  ASSUME FrameInv, UNCHANGED <<free, live, size>>, StartedSoFar'
  PROVE  FrameInv'
BY DEF FrameInv, PoolsArePartitioned, Holders

(* The invariant is inductive.                                             *)
LEMMA FramesStep ==
  ASSUME FrameInv, [Next]_vars
  PROVE  FrameInv'
<1>0. N \in Nat /\ PoolCount \in Nat /\ size \in 0 .. N /\ Len(free) \in Nat /\ None \notin Handles
  BY SessionAssumption, PoolAssumption, LenProperties DEF FrameInv
<1>1. ASSUME UNCHANGED <<free, live, size>>,
             holder' = holder \/ (holder # None /\ holder' # None)
      PROVE  FrameInv'
  <2>1. Holders' = Holders /\ InSession' = InSession
    BY <1>1 DEF Holders, InSession
  <2>2. StartedSoFar'
    BY <1>1, <2>1 DEF FrameInv, StartedSoFar
  <2> QED
    BY <1>1, <2>2, Untouched
<1>2. ASSUME NEW n \in 1 .. N, Begin(n)
      PROVE  FrameInv'
  <2>1. /\ size = 0 /\ size' = n /\ free' = free /\ live' = live /\ holder' = holder
        /\ Holders' = Holders /\ size' \in 0 .. N
    BY <1>0, <1>2 DEF Begin, poolVars, Holders
  <2>2. holder = None /\ Holders = 0 .. 0 - 1 /\ Len(free) + 0 = PoolCount
    <3>1. PICK k \in 0 .. 0 : holder = None /\ Holders = 0 .. k - 1 /\ Len(free) + k = PoolCount
      BY <2>1 DEF FrameInv, StartedSoFar
    <3>2. k = 0
      BY <3>1
    <3> QED
      BY <3>1, <3>2
  <2>3. 0 \in 0 .. size' /\ StartedSoFar'
    BY <2>1, <2>2 DEF StartedSoFar
  <2> QED
    BY <2>1, <2>3 DEF FrameInv, PoolsArePartitioned
<1>3. ASSUME NEW c \in Inner, NEW yields \in 0 .. MaxYields, StartInner(c, yields)
      PROVE  FrameInv'
  <2>1. CanStart(c) /\ PoolAllocate(c, FrameBytes, FrameAlign) /\ size' = size /\ holder' = holder
    BY <1>3 DEF StartInner
  <2>2. PICK k \in 0 .. size : /\ Holders = 0 .. k - 1 /\ Len(free) + k = PoolCount
                              /\ c = IF k = size THEN Executor ELSE k
    BY <2>1, StartingOne
  <2>3. c = k /\ k \in Nat /\ k < size /\ c \in Clients
    <3>1. c # Executor
      BY <1>0 DEF Inner, Executor
    <3> QED
      BY <1>0, <2>2, <3>1, SessionAssumption
  <2>4. /\ free' \in Seq(Pools) /\ Len(free') = Len(free) - 1
        /\ live' \in [Clients -> FrameBlock \cup {NoBlock}]
        /\ Holders' = Holders \cup {c} /\ PoolsArePartitioned'
    BY <2>1, <2>3, AllocationKeeps
  <2>5. k + 1 \in 0 .. size /\ Holders' = 0 .. (k + 1) - 1 /\ Len(free') + (k + 1) = PoolCount
    BY <1>0, <2>2, <2>3, <2>4
  <2>6. holder = None
    BY <2>1 DEF CanStart
  <2>7. StartedSoFar'
    BY <2>1, <2>5, <2>6 DEF StartedSoFar
  <2> QED
    BY <1>0, <2>1, <2>4, <2>7 DEF FrameInv
<1>4. ASSUME NEW h \in Handles, StartExecutor(h)
      PROVE  FrameInv'
  <2>1. /\ CanStart(Executor) /\ PoolAllocate(Executor, FrameBytes, FrameAlign)
        /\ size' = size /\ holder' = h
    BY <1>4 DEF StartExecutor
  <2>2. /\ Executor \in Clients /\ size \in 1 .. N
        /\ \E k \in 0 .. size : /\ Holders = 0 .. k - 1 /\ Len(free) + k = PoolCount
                               /\ Executor = IF k = size THEN Executor ELSE k
    BY <2>1, StartingOne
  <2>3. PICK k \in 0 .. size : /\ Holders = 0 .. k - 1 /\ Len(free) + k = PoolCount
                              /\ Executor = IF k = size THEN Executor ELSE k
    BY <2>2
  <2>4. k = size
    BY <1>0, <2>2, <2>3 DEF Executor
  <2>5. /\ free' \in Seq(Pools) /\ Len(free') = Len(free) - 1
        /\ live' \in [Clients -> FrameBlock \cup {NoBlock}]
        /\ Holders' = Holders \cup {Executor} /\ PoolsArePartitioned'
    BY <2>1, <2>2, AllocationKeeps
  <2>6. Len(free') + size + 1 = PoolCount /\ holder' # None /\ size # 0
    BY <1>0, <2>1, <2>2, <2>3, <2>4, <2>5
  <2>7. InSession' = InSession /\ Executor' = Executor /\ Holders' = InSession \cup {Executor}
    BY <2>1, <2>3, <2>4, <2>5 DEF InSession, Executor
  <2>8. StartedSoFar'
    BY <2>1, <2>6, <2>7 DEF StartedSoFar
  <2> QED
    BY <1>0, <2>1, <2>5, <2>8 DEF FrameInv
<1>5. ASSUME Destroy
      PROVE  FrameInv'
  <2> DEFINE cs == Append(Reverse([k \in 1 .. size |-> k - 1]), Executor)
  <2>1. holder # None /\ PoolDeallocate(cs) /\ size' = 0 /\ holder' = None
    BY <1>5 DEF Destroy
  <2>2. Holders = InSession \cup {Executor} /\ Len(free) + size + 1 = PoolCount
    BY <2>1 DEF FrameInv, StartedSoFar
  <2> HIDE DEF cs
  <2>3. cs \in [1 .. size + 1 -> Clients] /\ IsInjective(cs) /\ Range(cs) = Holders
    BY <1>0, <2>2, ReturnOrder DEF cs
  <2>4. /\ free' \in Seq(Pools) /\ Len(free') = Len(free) + (size + 1)
        /\ live' \in [Clients -> FrameBlock \cup {NoBlock}]
        /\ Holders' = {} /\ PoolsArePartitioned'
    <3>1. size + 1 \in Nat
      BY <1>0
    <3> HIDE DEF cs
    <3> QED
      BY <2>1, <2>3, <3>1, DeallocationKeeps
  <2>5. Len(free') + 0 = PoolCount /\ Holders' = 0 .. 0 - 1 /\ 0 \in 0 .. size' /\ size' \in 0 .. N
    BY <1>0, <2>1, <2>2, <2>4
  <2>6. StartedSoFar'
    BY <2>1, <2>5 DEF StartedSoFar
  <2> QED
    BY <2>4, <2>5, <2>6 DEF FrameInv
<1>6. ASSUME NEW h \in Handles, Move(h)
      PROVE  FrameInv'
  BY <1>0, <1>1, <1>6 DEF Move, poolVars
<1>7. CASE Answer
  BY <1>1, <1>7 DEF Answer, poolVars
<1>8. CASE Tick
  BY <1>1, <1>8 DEF Tick, poolVars
<1>9. CASE StartWithoutMemory
  BY <1>1, <1>9 DEF StartWithoutMemory, poolVars
<1>10. CASE UNCHANGED vars
  BY <1>1, <1>10 DEF vars, poolVars, sessionVars
<1> QED
  BY <1>2, <1>3, <1>4, <1>5, <1>6, <1>7, <1>8, <1>9, <1>10 DEF Next

(* All pools are free at first.                                            *)
LEMMA FramesInit == Init => FrameInv
<1> SUFFICES ASSUME Init
             PROVE  FrameInv
  OBVIOUS
<1> DEFINE g == [i \in 1 .. PoolCount |-> i - 1]
<1>1. PoolCount \in Nat /\ free = g /\ live = [c \in Clients |-> NoBlock] /\ size = 0 /\ holder = None
  BY PoolAssumption DEF Init, PoolInit
<1>2. \A i \in 1 .. PoolCount : i - 1 \in Pools
  BY <1>1 DEF Pools
<1>3. g \in Seq(Pools) /\ Len(g) = PoolCount /\ DOMAIN g = 1 .. PoolCount
  BY <1>1, <1>2, IsASeq, LenProperties
<1>4. IsInjective(g)
  BY <1>1 DEF IsInjective
<1>5. Holders = {} /\ live \in [Clients -> FrameBlock \cup {NoBlock}]
  BY <1>1 DEF Holders
<1>6. Pools \ Range(free) = {}
  <2>1. ASSUME NEW i \in Pools
        PROVE  i \in Range(g)
    <3>1. i + 1 \in 1 .. PoolCount /\ (i + 1) - 1 = i
      BY <1>1 DEF Pools
    <3>2. g[i + 1] = i
      BY <3>1
    <3> QED
      BY <1>3, <3>1, <3>2 DEF Range
  <2> QED
    BY <1>1, <2>1
<1>7. PoolsArePartitioned
  BY <1>1, <1>4, <1>5, <1>6 DEF PoolsArePartitioned
<1>8. 0 \in 0 .. size /\ Holders = 0 .. 0 - 1 /\ Len(free) + 0 = PoolCount /\ size \in 0 .. N
  BY <1>1, <1>3, <1>5, SessionAssumption
<1>9. StartedSoFar
  BY <1>1, <1>8 DEF StartedSoFar
<1> QED
  BY <1>1, <1>3, <1>5, <1>7, <1>8, <1>9 DEF FrameInv

(* Wherever the owner destroys a session, exactly the frames of coroutines *)
(* that exist are out of the pool, however the sessions before it ended.   *)
THEOREM FramesOwned == Spec => []FramesAreOwned
<1>1. FrameInv => FramesAreOwned
  <2> SUFFICES ASSUME FrameInv
               PROVE  FramesAreOwned
    OBVIOUS
  <2>1. PoolsArePartitioned /\ (holder # None => Started = InSession \cup {Executor})
    BY DEF FrameInv, StartedSoFar, Started
  <2>2. ASSUME size = 0
        PROVE  Len(free) = PoolCount
    <3>1. PICK k \in 0 .. 0 : Len(free) + k = PoolCount
      BY <2>2 DEF FrameInv, StartedSoFar
    <3>2. k = 0 /\ Len(free) \in Nat
      BY <3>1, LenProperties DEF FrameInv
    <3> QED
      BY <3>1, <3>2
  <2> QED
    BY <2>1, <2>2 DEF FramesAreOwned
<1>2. FrameInv /\ [Next]_vars => FrameInv'
  BY FramesStep
<1> QED
  BY <1>1, <1>2, FramesInit, PTL DEF Spec

-----------------------------------------------------------------------------
(* Turns.                                                                  *)

(* Min picks the least of a set of natural numbers.                        *)
LEMMA LeastIsMin ==
  ASSUME NEW S, S \subseteq Nat, S # {}
  PROVE  Min(S) \in S /\ \A x \in S : Min(S) <= x
<1>1. PICK m \in S : \A x \in S : ~(<<x, m>> \in OpToRel(<, Nat))
  BY WFMin, NatLessThanWellFounded
<1>2. \A x \in S : ~(x < m)
  BY <1>1 DEF OpToRel
<1>3. \A x \in S : m <= x
  BY <1>2
<1> QED
  BY <1>1, <1>3 DEF Min

(* Where a turn of n that begins with c leads after k steps.               *)
LEMMA TurnPlace ==
  ASSUME NEW n \in Nat \ {0}, NEW c \in 0 .. n - 1, NEW k \in 1 .. n
  PROVE  (c + k - 1) % n = IF c + k - 1 < n THEN c + k - 1 ELSE c + k - 1 - n
OBVIOUS

(* NextLive finds the first coroutine from c on, in turns, that is not     *)
(* done.                                                                   *)
LEMMA NextLiveIsFirst ==
  ASSUME size \in Nat \ {0}, NEW c \in InSession, NEW finished,
         NEW d, d = NextLive(c, finished)
  PROVE  \/ d = size /\ \A e \in InSession : finished[e]
         \/ /\ d \in InSession /\ ~finished[d]
            /\ \/ c <= d /\ \A e \in c .. d - 1 : finished[e]
               \/ d < c /\ \A e \in InSession : c <= e \/ e < d => finished[e]
<1> DEFINE At(k) == (c + k - 1) % size
           turn == [k \in 1 .. size |-> At(k)]
           Live == {k \in 1 .. Len(turn) : ~finished[turn[k]]}
<1>1. size \in Nat \ {0} /\ c \in 0 .. size - 1 /\ Len(turn) = size
  BY DEF InSession
<1>2. \A k \in 1 .. size : At(k) = IF c + k - 1 < size THEN c + k - 1 ELSE c + k - 1 - size
  BY <1>1, TurnPlace
<1>3. \A k \in 1 .. size : turn[k] = At(k)
  OBVIOUS
<1>4. Live = {k \in 1 .. size : ~finished[At(k)]}
  BY <1>1, <1>3
<1>5. d = LET k == IF Live # {} THEN Min(Live) ELSE 0 IN IF k = 0 THEN size ELSE turn[k]
  BY DEF NextLive, SelectInSeq
<1> HIDE DEF At, turn, Live
<1>6. \A e \in InSession : LET k == IF e >= c THEN e - c + 1 ELSE e + size - c + 1
                           IN  k \in 1 .. size /\ At(k) = e
  BY <1>1, <1>2 DEF InSession
<1>7. CASE Live = {}
  <2>1. d = size
    BY <1>5, <1>7
  <2>2. \A k \in 1 .. size : finished[At(k)]
    BY <1>4, <1>7
  <2> QED
    BY <2>1, <2>2, <1>6
<1>8. CASE Live # {}
  <2> DEFINE m == Min(Live)
  <2>1. m \in Live /\ \A k \in Live : m <= k
    BY <1>4, <1>8, LeastIsMin
  <2>2. m \in 1 .. size /\ ~finished[At(m)]
    BY <1>4, <2>1
  <2>3. \A k \in 1 .. m - 1 : finished[At(k)]
    BY <1>1, <1>4, <2>1, <2>2
  <2>4. d = At(m)
    BY <1>3, <1>5, <1>8, <2>2
  <2> HIDE DEF m
  <2>5. d \in InSession
    BY <1>1, <1>2, <2>2, <2>4 DEF InSession
  <2>6. CASE c + m - 1 < size
    <3>1. d = c + m - 1
      BY <1>2, <2>2, <2>4, <2>6
    <3>2. ASSUME NEW e \in c .. d - 1
          PROVE  finished[e]
      <4>1. e - c + 1 \in 1 .. m - 1 /\ e \in InSession /\ e >= c
        BY <1>1, <2>2, <2>6, <3>1 DEF InSession
      <4> QED
        BY <1>6, <2>3, <4>1
    <3> QED
      BY <1>1, <2>2, <2>4, <2>5, <3>1, <3>2
  <2>7. CASE ~(c + m - 1 < size)
    <3>1. d = c + m - 1 - size /\ d < c
      BY <1>1, <1>2, <2>2, <2>4, <2>7
    <3>2. ASSUME NEW e \in InSession, c <= e \/ e < d
          PROVE  finished[e]
      <4>1. (IF e >= c THEN e - c + 1 ELSE e + size - c + 1) \in 1 .. m - 1
        BY <1>1, <2>2, <2>7, <3>1, <3>2 DEF InSession
      <4> QED
        BY <1>6, <2>3, <4>1
    <3> QED
      BY <2>2, <2>4, <2>5, <3>1, <3>2
  <2> QED
    BY <2>6, <2>7
<1> QED
  BY <1>7, <1>8

-----------------------------------------------------------------------------
(* Sessions.                                                               *)

SessionTypes ==
  /\ script \in [Inner -> 0 .. MaxYields] /\ asked \in [Inner -> 0 .. MaxYields]
  /\ request \in [Coroutines -> Requests \cup {None}]
  /\ reply \in [Coroutines -> Requests \cup {None}]
  /\ done \in [Coroutines -> BOOLEAN]
  /\ cor \in Inner /\ holder \in Handles \cup {None}
  /\ got \in [Inner -> Seq(Requests)]
  /\ undefined \in BOOLEAN

(* The inductive invariant.                                                *)
Inv == FrameInv /\ SessionTypes /\ SessionInv

(* The names that the proofs rely on.                                      *)
LEMMA Names ==
  ASSUME FrameInv
  PROVE  /\ N \in Nat \ {0} /\ Inner = 0 .. N - 1 /\ Executor = N
         /\ Coroutines = 0 .. N /\ Executor \notin Inner /\ Executor \in Coroutines
         /\ Inner \subseteq Coroutines /\ MaxYields \in Nat /\ size \in 0 .. N
         /\ InSession \subseteq Inner /\ None \notin Requests
         /\ \A c \in Inner, k \in Nat : <<c, k>> # None
<1>1. N \in Nat \ {0} /\ MaxYields \in Nat /\ None \notin Inner \X Nat /\ size \in 0 .. N
  BY SessionAssumption DEF FrameInv
<1>2. Requests \subseteq Inner \X Nat
  BY <1>1 DEF Requests
<1>3. Inner = 0 .. N - 1 /\ Executor = N
  BY DEF Inner, Executor
<1>4. Coroutines = 0 .. N
  BY <1>1, <1>3 DEF Coroutines
<1> QED
  BY <1>1, <1>2, <1>3, <1>4 DEF InSession

(* While a session runs, the coroutines of its array are those with a      *)
(* frame.                                                                  *)
LEMMA RunningHolders ==
  ASSUME FrameInv, holder # None
  PROVE  size \in 1 .. N /\ Holders = InSession \cup {Executor}
BY Names DEF FrameInv, StartedSoFar

(* The coroutine the executor goes on to, if there is one, waits with a    *)
(* request to forward.                                                     *)
LEMMA GoesTo ==
  ASSUME FrameInv, size # 0,
         NEW requests, requests \in [Coroutines -> Requests \cup {None}],
         NEW finished, finished \in [Coroutines -> BOOLEAN],
         cor \in Inner,
         NEW d, d \in InSession \/ d = size,
         d \in InSession => requests[d] # None,
         ExecutorGoesTo(d, requests, finished)
  PROVE  /\ cor' = IF d = size THEN cor ELSE d
         /\ request' \in [Coroutines -> Requests \cup {None}]
         /\ \A c \in Inner : request'[c] = requests[c]
         /\ request'[Executor] = IF d = size THEN None ELSE requests[d]
         /\ done' \in [Coroutines -> BOOLEAN]
         /\ \A c \in Inner : done'[c] = finished[c]
         /\ (done'[Executor] <=> d = size)
         /\ cor' \in Inner
<1>1. /\ size \in 1 .. N /\ Executor \in Coroutines /\ Executor \notin Inner
      /\ Inner \subseteq Coroutines /\ InSession \subseteq Inner /\ InSession = 0 .. size - 1
  BY Names DEF InSession
<1>2. (d < size) <=> (d # size)
  BY <1>1
<1> DEFINE forwards == d < size /\ requests[d] # None
<1>3. forwards <=> d # size
  BY <1>1, <1>2
<1>4. /\ cor' = IF d < size THEN d ELSE cor
      /\ request' = [requests EXCEPT ![Executor] = IF forwards THEN requests[d] ELSE None]
      /\ done' = [finished EXCEPT ![Executor] = ~forwards]
  BY DEF ExecutorGoesTo
<1> HIDE DEF forwards
<1>5. cor' = (IF d = size THEN cor ELSE d) /\ cor' \in Inner
  BY <1>1, <1>2, <1>4
<1>6. /\ request' \in [Coroutines -> Requests \cup {None}]
      /\ \A c \in Inner : request'[c] = requests[c]
      /\ request'[Executor] = IF d = size THEN None ELSE requests[d]
  BY <1>1, <1>3, <1>4
<1>7. /\ done' \in [Coroutines -> BOOLEAN]
      /\ \A c \in Inner : done'[c] = finished[c]
      /\ done'[Executor] = ~forwards
  BY <1>1, <1>4
<1> QED
  BY <1>3, <1>5, <1>6, <1>7

(* No coroutine exists at first, or after the owner destroyed them.        *)
LEMMA NoSession ==
  ASSUME FrameInv, Holders = {}, holder = None, undefined \in BOOLEAN,
         script = [c \in Inner |-> 0], asked = [c \in Inner |-> 0],
         request = [c \in Coroutines |-> None], reply = [c \in Coroutines |-> None],
         done = [c \in Coroutines |-> FALSE], cor = 0, got = [c \in Inner |-> <<>>]
  PROVE  SessionTypes /\ SessionInv
<1>1. /\ MaxYields \in Nat /\ 0 \in Inner /\ Executor \in Coroutines /\ Inner \subseteq Coroutines
  BY Names
<1>2. <<>> \in Seq(Requests) /\ Len(<<>>) = 0
  OBVIOUS
<1>3. SessionTypes
  <2>1. script \in [Inner -> 0 .. MaxYields] /\ asked \in [Inner -> 0 .. MaxYields]
    BY <1>1
  <2>2. got \in [Inner -> Seq(Requests)]
    BY <1>2
  <2> QED
    BY <1>1, <2>1, <2>2 DEF SessionTypes
<1>4. RepliesAreOwn
  BY <1>2 DEF RepliesAreOwn
<1>5. ASSUME NEW c \in Inner
      PROVE  CoroutineState(c)
  BY <1>1 DEF CoroutineState
<1>6. ExecutorState
  BY <1>1 DEF ExecutorState
<1> QED
  BY <1>3, <1>4, <1>5, <1>6 DEF SessionInv

LEMMA SessionInit == Init => Inv
<1> SUFFICES ASSUME Init
             PROVE  Inv
  OBVIOUS
<1>1. FrameInv
  BY FramesInit
<1>2. Holders = {}
  BY DEF Init, PoolInit, Holders
<1> QED
  BY <1>1, <1>2, NoSession DEF Inv, Init

(* What does not touch the session, its executor or the replies received   *)
(* and who has a frame keeps the invariant.                                *)
LEMMA SameSession ==
  ASSUME Inv, FrameInv', Holders' = Holders,
         UNCHANGED <<script, asked, request, reply, done, cor, got>>,
         holder' \in Handles \cup {None}, undefined' \in BOOLEAN,
         (holder = None) <=> (holder' = None),
         size' = size \/ holder = None
  PROVE  Inv'
<1>1. SessionTypes'
  BY DEF Inv, SessionTypes, Inner, Coroutines, Requests
<1>2. Inner' = Inner /\ Executor' = Executor
  BY DEF Inner, Executor
<1>3. RepliesAreOwn'
  BY DEF Inv, SessionInv, RepliesAreOwn
<1>4. ASSUME NEW c \in Inner
      PROVE  CoroutineState(c)'
  BY DEF Inv, SessionInv, CoroutineState
<1>5. ExecutorState'
  <2>1. CASE holder = None
    BY <2>1 DEF Inv, SessionInv, ExecutorState
  <2>2. CASE holder # None
    <3>1. size' = size /\ InSession' = InSession
      BY <2>2 DEF InSession
    <3> QED
      BY <2>2, <3>1 DEF Inv, SessionInv, ExecutorState
  <2> QED
    BY <2>1, <2>2
<1> QED
  BY <1>1, <1>2, <1>3, <1>4, <1>5 DEF Inv, SessionInv

(* A coroutine of the array starts.                                        *)
LEMMA StartInnerKeeps ==
  ASSUME Inv, FrameInv', NEW c \in Inner, NEW yields \in 0 .. MaxYields, StartInner(c, yields)
  PROVE  Inv'
<1>1. /\ FrameInv /\ SessionTypes /\ RepliesAreOwn /\ ExecutorState
      /\ \A d \in Inner : CoroutineState(d)
  BY DEF Inv, SessionInv
<1>2. /\ MaxYields \in Nat /\ Executor \notin Inner /\ Inner \subseteq Coroutines
      /\ Executor \in Coroutines /\ \A d \in Inner, k \in Nat : <<d, k>> # None
  BY <1>1, Names
<1>3. /\ CanStart(c) /\ PoolAllocate(c, FrameBytes, FrameAlign) /\ holder = None
      /\ UNCHANGED <<size, reply, cor, holder, got, undefined>>
  BY DEF StartInner, CanStart
<1>4. c \in Clients /\ live[c] = NoBlock /\ c \notin Holders /\ Holders' = Holders \cup {c}
  BY <1>1, <1>3, StartingOne, AllocationKeeps DEF PoolAllocate, Holders
<1> DEFINE first == IF yields > 0 THEN <<c, 1>> ELSE None
<1>5. /\ script' = [script EXCEPT ![c] = yields]
      /\ asked' = [asked EXCEPT ![c] = IF yields > 0 THEN 1 ELSE 0]
      /\ request' = [request EXCEPT ![c] = first]
      /\ done' = [done EXCEPT ![c] = yields = 0]
  BY DEF StartInner
<1>6. first \in Requests \cup {None}
  BY <1>2 DEF Requests
<1>7. /\ script' \in [Inner -> 0 .. MaxYields] /\ asked' \in [Inner -> 0 .. MaxYields]
      /\ request' \in [Coroutines -> Requests \cup {None}] /\ done' \in [Coroutines -> BOOLEAN]
  <2> HIDE DEF first
  <2>1. (IF yields > 0 THEN 1 ELSE 0) \in 0 .. MaxYields
    BY <1>2
  <2> QED
    BY <1>1, <1>5, <1>6, <2>1 DEF SessionTypes
<1>8. SessionTypes'
  BY <1>1, <1>3, <1>7 DEF SessionTypes, Inner, Coroutines, Requests
<1>9. RepliesAreOwn'
  BY <1>1, <1>3 DEF RepliesAreOwn
<1>10. ASSUME NEW d \in Inner
       PROVE  CoroutineState(d)'
  <2>1. CASE d # c
    <3>1. /\ script'[d] = script[d] /\ asked'[d] = asked[d] /\ got'[d] = got[d]
          /\ request'[d] = request[d] /\ (d \in Holders' <=> d \in Holders)
      BY <1>1, <1>2, <1>3, <1>4, <1>5, <2>1 DEF SessionTypes
    <3>2. done'[d] = done[d]
      BY <1>1, <1>2, <1>5, <2>1 DEF SessionTypes
    <3> QED
      BY <1>1, <3>1, <3>2 DEF CoroutineState
  <2>2. CASE d = c
    <3>1. got[c] = <<>> /\ Len(got'[c]) = 0
      BY <1>1, <1>3, <1>4 DEF CoroutineState
    <3>2. script'[c] = yields /\ asked'[c] = (IF yields > 0 THEN 1 ELSE 0) /\ request'[c] = first
      BY <1>1, <1>2, <1>5 DEF SessionTypes
    <3>3. done'[c] <=> yields = 0
      BY <1>1, <1>2, <1>5 DEF SessionTypes
    <3>4. CASE yields = 0
      BY <1>4, <2>2, <3>1, <3>2, <3>3, <3>4 DEF CoroutineState
    <3>5. CASE yields > 0
      <4>1. asked'[c] = 1 /\ request'[c] = <<c, asked'[c]>> /\ asked'[c] <= script'[c] /\ ~done'[c]
        BY <3>2, <3>3, <3>5
      <4> QED
        BY <1>4, <2>2, <3>1, <4>1 DEF CoroutineState
    <3> QED
      BY <1>2, <3>4, <3>5
  <2> QED
    BY <2>1, <2>2
<1>11. ExecutorState'
  <2>1. request'[Executor] = request[Executor] /\ done'[Executor] = done[Executor] /\ Executor' = Executor
    BY <1>1, <1>2, <1>5 DEF SessionTypes, Executor
  <2>2. /\ ~done[Executor] /\ request[Executor] = None /\ reply[Executor] = None
        /\ \A d \in Inner : got[d] = <<>>
    BY <1>1, <1>3 DEF ExecutorState
  <2> QED
    BY <1>3, <2>1, <2>2 DEF ExecutorState
<1> QED
  BY <1>8, <1>9, <1>10, <1>11 DEF Inv, SessionInv

(* The executor starts and shows the request of the first coroutine that   *)
(* is not done.                                                            *)
LEMMA StartExecutorKeeps ==
  ASSUME Inv, FrameInv', NEW h \in Handles, StartExecutor(h)
  PROVE  Inv'
<1>1. /\ FrameInv /\ SessionTypes /\ RepliesAreOwn /\ ExecutorState
      /\ \A d \in Inner : CoroutineState(d)
  BY DEF Inv, SessionInv
<1>2. /\ N \in Nat \ {0} /\ Inner = 0 .. N - 1 /\ size \in 0 .. N /\ InSession \subseteq Inner
      /\ Executor \notin Inner /\ Inner \subseteq Coroutines /\ Executor \in Coroutines
      /\ \A d \in Inner, k \in Nat : <<d, k>> # None
  BY <1>1, Names
<1>3. /\ CanStart(Executor) /\ PoolAllocate(Executor, FrameBytes, FrameAlign)
      /\ holder = None /\ size # 0 /\ holder' = h /\ h # None
      /\ UNCHANGED <<size, script, asked, reply, got, undefined>>
  BY <1>2, SessionAssumption DEF StartExecutor, CanStart
<1>4. Executor \in Clients /\ Holders' = Holders \cup {Executor}
  BY <1>1, <1>3, StartingOne, AllocationKeeps
<1>5. Holders' = InSession \cup {Executor} /\ InSession' = InSession
  BY <1>3 DEF FrameInv, StartedSoFar, InSession, Executor
<1> DEFINE d == NextLive(0, done)
<1>6. \/ d = size /\ \A e \in InSession : done[e]
      \/ /\ d \in InSession /\ ~done[d]
         /\ \A e \in 0 .. d - 1 : done[e]
  <2>1. 0 \in InSession /\ size \in Nat \ {0}
    BY <1>2, <1>3 DEF InSession
  <2>2. \A e \in InSession : ~(e < 0)
    BY DEF InSession
  <2> QED
    BY <2>1, <2>2, NextLiveIsFirst
<1>7. /\ request \in [Coroutines -> Requests \cup {None}] /\ done \in [Coroutines -> BOOLEAN]
      /\ cor \in Inner /\ ExecutorGoesTo(d, request, done)
  BY <1>1 DEF SessionTypes, StartExecutor
<1> HIDE DEF d
<1>8. \A e \in InSession : e \in Inner /\ e \in Holders /\ e # Executor
  BY <1>2, <1>4, <1>5
<1>9. d \in InSession => request[d] # None /\ d # size
  <2>1. SUFFICES ASSUME d \in InSession
                 PROVE  request[d] # None /\ d # size
    OBVIOUS
  <2>2. d # size /\ CoroutineState(d) /\ ~done[d] /\ d \in Holders /\ d \in Inner
    BY <1>1, <1>2, <1>6, <1>8, <2>1 DEF InSession
  <2>3. request[d] = <<d, asked[d]>> /\ asked[d] \in Nat
    BY <1>1, <2>2 DEF CoroutineState, SessionTypes
  <2> QED
    BY <1>2, <2>2, <2>3
<1>10. /\ cor' = (IF d = size THEN cor ELSE d) /\ cor' \in Inner
       /\ request' \in [Coroutines -> Requests \cup {None}] /\ done' \in [Coroutines -> BOOLEAN]
       /\ \A c \in Inner : request'[c] = request[c]
       /\ request'[Executor] = IF d = size THEN None ELSE request[d]
  BY <1>1, <1>3, <1>6, <1>7, <1>9, GoesTo
<1>11. (\A c \in Inner : done'[c] = done[c]) /\ (done'[Executor] <=> d = size)
  BY <1>1, <1>3, <1>6, <1>7, <1>9, GoesTo
<1>12. SessionTypes'
  BY <1>1, <1>3, <1>10, <1>11 DEF SessionTypes, Inner, Coroutines, Requests
<1>13. RepliesAreOwn'
  BY <1>1, <1>3 DEF RepliesAreOwn
<1>14. ASSUME NEW c \in Inner
       PROVE  CoroutineState(c)'
  <2>1. c \in Holders' <=> c \in Holders
    BY <1>2, <1>4
  <2>2. CoroutineState(c) /\ request'[c] = request[c] /\ done'[c] = done[c]
    BY <1>1, <1>10, <1>11
  <2> QED
    BY <1>3, <2>1, <2>2 DEF CoroutineState
<1>15. ExecutorState'
  <2>1. reply'[Executor] = None /\ \A c \in Inner : got[c] = <<>> /\ got'[c] = <<>>
    BY <1>1, <1>3 DEF ExecutorState
  <2>2. Executor' = Executor /\ holder' # None
    BY <1>3 DEF Executor
  <2>3. CASE d = size
    <3>1. request'[Executor] = None
      BY <1>10, <2>3
    <3>2. done'[Executor] /\ \A c \in InSession : done'[c]
      BY <1>2, <1>6, <1>9, <1>11, <2>3
    <3> QED
      BY <1>5, <2>1, <2>2, <3>1, <3>2 DEF ExecutorState
  <2>4. CASE d # size
    <3>1. cor' = d /\ d \in InSession /\ request'[Executor] = request'[d]
      BY <1>2, <1>6, <1>10, <2>4
    <3>2. ~done'[Executor] /\ ~done'[d]
      BY <1>2, <1>6, <1>11, <2>4, <3>1
    <3>3. ASSUME NEW c \in InSession, ~done'[c]
          PROVE  Len(got'[c]) = Len(got'[d]) + (IF c < d THEN 1 ELSE 0)
      <4>1. ~(c \in 0 .. d - 1)
        BY <1>2, <1>6, <1>11, <2>4, <3>3
      <4>2. ~(c < d)
        BY <1>2, <3>1, <4>1 DEF InSession
      <4>3. Len(got'[c]) = 0 /\ Len(got'[d]) = 0
        BY <1>2, <2>1, <3>1
      <4> QED
        BY <4>2, <4>3
    <3> QED
      BY <1>5, <2>1, <2>2, <3>1, <3>2, <3>3 DEF ExecutorState
  <2> QED
    BY <2>3, <2>4
<1> QED
  BY <1>12, <1>13, <1>14, <1>15 DEF Inv, SessionInv

(* The owner stores its reply to the request it was shown.                 *)
LEMMA AnswerKeeps ==
  ASSUME Inv, FrameInv', Answer
  PROVE  Inv'
<1>1. FrameInv /\ SessionTypes /\ RepliesAreOwn /\ ExecutorState /\ \A d \in Inner : CoroutineState(d)
  BY DEF Inv, SessionInv
<1>2. Executor \in Coroutines /\ Inner' = Inner /\ Executor' = Executor
  BY <1>1, Names DEF Inner, Executor
<1>3. /\ holder # None /\ request[Executor] # None
      /\ reply' = [reply EXCEPT ![Executor] = request[Executor]]
      /\ UNCHANGED <<free, live, size, script, asked, request, done, cor, holder, got, undefined>>
  BY DEF Answer, poolVars
<1>4. /\ reply' \in [Coroutines -> Requests \cup {None}] /\ reply'[Executor] = request[Executor]
  BY <1>1, <1>2, <1>3 DEF SessionTypes
<1>5. SessionTypes'
  BY <1>1, <1>3, <1>4 DEF SessionTypes, Inner, Coroutines, Requests
<1>6. RepliesAreOwn'
  BY <1>1, <1>3 DEF RepliesAreOwn
<1>7. ASSUME NEW c \in Inner
      PROVE  CoroutineState(c)'
  BY <1>1, <1>3 DEF CoroutineState, Holders
<1>8. ExecutorState'
  <2>1. ~done[Executor]
    BY <1>1, <1>3 DEF ExecutorState
  <2> QED
    BY <1>1, <1>2, <1>3, <1>4, <2>1 DEF ExecutorState, InSession
<1> QED
  BY <1>5, <1>6, <1>7, <1>8, <1>2 DEF Inv, SessionInv

(* The executor hands the reply on and goes to the next coroutine, in      *)
(* turns, that is not done.                                                *)
LEMMA TickKeeps ==
  ASSUME Inv, FrameInv', Tick
  PROVE  Inv'
<1>1. FrameInv /\ SessionTypes /\ RepliesAreOwn /\ ExecutorState /\ \A d \in Inner : CoroutineState(d)
  BY DEF Inv, SessionInv
<1>2. /\ N \in Nat \ {0} /\ Inner = 0 .. N - 1 /\ size \in 0 .. N /\ InSession \subseteq Inner
      /\ Executor \notin Inner /\ Inner \subseteq Coroutines /\ Executor \in Coroutines
      /\ MaxYields \in Nat /\ None \notin Requests
      /\ \A d \in Inner, k \in Nat : <<d, k>> # None
  BY <1>1, Names
<1> DEFINE r == reply[Executor]
           after == Resumed(cor, r)
           d == NextLive((cor + 1) % size, after.done)
<1>3. /\ holder # None /\ r # None /\ ~done[Executor]
      /\ UNCHANGED <<free, live, size, script, holder, undefined>>
      /\ asked' = after.asked /\ got' = after.got
      /\ ExecutorGoesTo(d, after.request, after.done)
      /\ reply' = [reply EXCEPT ![Executor] = None]
  BY DEF Tick, poolVars
<1>4. /\ size \in 1 .. N /\ Holders = InSession \cup {Executor}
      /\ Holders' = Holders /\ InSession' = InSession /\ Executor' = Executor
  BY <1>1, <1>3, RunningHolders DEF Holders, InSession, Executor
<1>5. cor \in InSession /\ ~done[cor] /\ r = request[cor] /\ cor \in Inner /\ cor \in Holders
  BY <1>1, <1>2, <1>3, <1>4 DEF ExecutorState
<1> DEFINE n == asked[cor]
<1>6. /\ n \in Nat /\ n <= script[cor] /\ n = Len(got[cor]) + 1 /\ r = <<cor, n>>
      /\ script[cor] \in 0 .. MaxYields /\ r \in Requests /\ got[cor] \in Seq(Requests)
  <2>1. CoroutineState(cor) /\ n \in Nat /\ got[cor] \in Seq(Requests)
    BY <1>1, <1>5 DEF SessionTypes
  <2>2. n <= script[cor] /\ n = Len(got[cor]) + 1 /\ r = <<cor, n>>
    BY <1>5, <2>1 DEF CoroutineState
  <2>3. script[cor] \in 0 .. MaxYields /\ r \in Requests \cup {None}
    BY <1>1, <1>2, <1>5 DEF SessionTypes
  <2> QED
    BY <1>3, <2>1, <2>2, <2>3
<1> HIDE DEF r
<1> DEFINE more == n < script[cor]
<1>7. /\ after.asked \in [Inner -> 0 .. MaxYields]
      /\ after.request \in [Coroutines -> Requests \cup {None}]
      /\ after.done \in [Coroutines -> BOOLEAN]
      /\ after.got \in [Inner -> Seq(Requests)]
  <2>1. /\ after.asked = [asked EXCEPT ![cor] = IF more THEN asked[cor] + 1 ELSE asked[cor]]
        /\ after.request = [request EXCEPT ![cor] = IF more THEN <<cor, n + 1>> ELSE None]
        /\ after.done = [done EXCEPT ![cor] = n = script[cor]]
        /\ after.got = [got EXCEPT ![cor] = Append(got[cor], r)]
    BY DEF Resumed
  <2>2. /\ (IF more THEN asked[cor] + 1 ELSE asked[cor]) \in 0 .. MaxYields
        /\ (IF more THEN <<cor, n + 1>> ELSE None) \in Requests \cup {None}
        /\ Append(got[cor], r) \in Seq(Requests)
    BY <1>2, <1>5, <1>6 DEF Requests
  <2>3. after.done \in [Coroutines -> BOOLEAN]
    BY <1>1, <2>1 DEF SessionTypes
  <2> HIDE DEF after, more, n
  <2> QED
    BY <1>1, <2>1, <2>2, <2>3 DEF SessionTypes
<1>8. /\ after.asked[cor] = (IF more THEN n + 1 ELSE n)
      /\ after.request[cor] = (IF more THEN <<cor, n + 1>> ELSE None)
      /\ after.got[cor] = Append(got[cor], r)
      /\ \A c \in Inner \ {cor} : /\ after.asked[c] = asked[c] /\ after.request[c] = request[c]
                                  /\ after.got[c] = got[c]
  BY <1>1, <1>2, <1>5 DEF SessionTypes, Resumed
<1>9. /\ after.done[cor] <=> ~more
      /\ \A c \in Inner \ {cor} : after.done[c] = done[c]
  <2>1. after.done = [done EXCEPT ![cor] = n = script[cor]]
    BY DEF Resumed
  <2>2. more <=> ~(n = script[cor])
    BY <1>6
  <2> HIDE DEF after, more
  <2>3. after.done[cor] <=> n = script[cor]
    BY <1>1, <1>2, <1>5, <2>1 DEF SessionTypes
  <2> QED
    BY <1>1, <1>2, <1>5, <2>1, <2>2, <2>3 DEF SessionTypes
<1> DEFINE s == (cor + 1) % size
<1>10. /\ s \in InSession /\ s = IF cor + 1 = size THEN 0 ELSE cor + 1
       /\ cor \in 0 .. size - 1 /\ size \in Nat \ {0}
  BY <1>2, <1>4, <1>5 DEF InSession
<1> HIDE DEF after, more, s
<1>11. \/ d = size /\ \A e \in InSession : after.done[e]
       \/ /\ d \in InSession /\ ~after.done[d]
          /\ \/ s <= d /\ \A e \in s .. d - 1 : after.done[e]
             \/ d < s /\ \A e \in InSession : s <= e \/ e < d => after.done[e]
  BY <1>10, NextLiveIsFirst DEF s
<1> HIDE DEF d
<1>12. \A c \in Inner : ~after.done[c] /\ c \in Holders
                        => after.request[c] = <<c, after.asked[c]>> /\ after.asked[c] \in Nat
  <2> SUFFICES ASSUME NEW c \in Inner, ~after.done[c], c \in Holders
               PROVE  after.request[c] = <<c, after.asked[c]>> /\ after.asked[c] \in Nat
    OBVIOUS
  <2>1. CASE c = cor
    BY <1>6, <1>8, <1>9, <2>1
  <2>2. CASE c # cor
    <3>1. CoroutineState(c) /\ ~done[c] /\ asked[c] \in Nat
      BY <1>1, <1>9, <2>2 DEF SessionTypes
    <3> QED
      BY <1>8, <2>2, <3>1 DEF CoroutineState
  <2> QED
    BY <2>1, <2>2
<1>13. d \in InSession => after.request[d] # None /\ d # size
  <2>1. SUFFICES ASSUME d \in InSession
                 PROVE  after.request[d] # None /\ d # size
    OBVIOUS
  <2>2. d # size /\ ~after.done[d] /\ d \in Inner /\ d \in Holders
    BY <1>2, <1>4, <1>10, <1>11, <2>1 DEF InSession
  <2> QED
    BY <1>2, <1>12, <2>2
<1>14. /\ cor' = (IF d = size THEN cor ELSE d) /\ cor' \in Inner
       /\ request' \in [Coroutines -> Requests \cup {None}] /\ done' \in [Coroutines -> BOOLEAN]
       /\ \A c \in Inner : request'[c] = after.request[c]
       /\ request'[Executor] = IF d = size THEN None ELSE after.request[d]
  BY <1>1, <1>3, <1>5, <1>7, <1>10, <1>11, <1>13, GoesTo
<1>15. (\A c \in Inner : done'[c] = after.done[c]) /\ (done'[Executor] <=> d = size)
  <2> DEFINE q == after.request
             f == after.done
  <2>1. /\ q \in [Coroutines -> Requests \cup {None}] /\ f \in [Coroutines -> BOOLEAN]
        /\ d \in InSession \/ d = size
        /\ d \in InSession => q[d] # None
        /\ ExecutorGoesTo(d, q, f)
    BY <1>3, <1>7, <1>11, <1>13
  <2> HIDE DEF q, f
  <2>2. (\A c \in Inner : done'[c] = f[c]) /\ (done'[Executor] <=> d = size)
    BY <1>1, <1>5, <1>10, <2>1, GoesTo
  <2> QED
    BY <2>2 DEF f
<1>16. SessionTypes'
  <2>1. reply' \in [Coroutines -> Requests \cup {None}] /\ reply'[Executor] = None
    BY <1>1, <1>2, <1>3 DEF SessionTypes
  <2> QED
    BY <1>1, <1>3, <1>7, <1>14, <1>15, <2>1 DEF SessionTypes, Inner, Coroutines, Requests
<1>17. /\ Len(got'[cor]) = Len(got[cor]) + 1 /\ got'[cor][n] = r
       /\ \A k \in 1 .. Len(got[cor]) : got'[cor][k] = got[cor][k]
       /\ \A c \in Inner \ {cor} : got'[c] = got[c]
  BY <1>3, <1>6, <1>8
<1>18. RepliesAreOwn'
  <2> SUFFICES ASSUME NEW c \in Inner, NEW k \in 1 .. Len(got'[c])
               PROVE  got'[c][k] = <<c, k>>
    BY DEF RepliesAreOwn, Inner
  <2>1. CASE c # cor
    BY <1>1, <1>17, <2>1 DEF RepliesAreOwn
  <2>2. CASE c = cor /\ k = n
    BY <1>6, <1>17, <2>2
  <2>3. CASE c = cor /\ k # n
    <3>1. k \in 1 .. Len(got[cor])
      BY <1>6, <1>17, <2>3
    <3> QED
      BY <1>1, <1>5, <1>17, <2>3, <3>1 DEF RepliesAreOwn
  <2> QED
    BY <2>1, <2>2, <2>3
<1>19. ASSUME NEW c \in Inner
       PROVE  CoroutineState(c)'
  <2>1. CASE c # cor
    <3>1. asked'[c] = asked[c] /\ got'[c] = got[c] /\ request'[c] = request[c] /\ script' = script
      BY <1>3, <1>8, <1>14, <2>1
    <3>2. done'[c] = done[c]
      BY <1>9, <1>15, <2>1
    <3> QED
      BY <1>1, <1>4, <3>1, <3>2 DEF CoroutineState
  <2>2. CASE c = cor
    <3>1. /\ asked'[c] = (IF more THEN n + 1 ELSE n) /\ script'[c] = script[cor]
          /\ request'[c] = (IF more THEN <<cor, n + 1>> ELSE None) /\ Len(got'[c]) = n
      BY <1>3, <1>5, <1>6, <1>8, <1>14, <1>17, <2>2
    <3>2. done'[c] <=> ~more
      BY <1>5, <1>9, <1>15, <2>2
    <3>3. c \in Holders'
      BY <1>4, <1>5, <2>2
    <3>4. CASE more
      BY <1>6, <2>2, <3>1, <3>2, <3>3, <3>4 DEF CoroutineState, more
    <3>5. CASE ~more
      BY <1>6, <2>2, <3>1, <3>2, <3>3, <3>5 DEF CoroutineState, more
    <3> QED
      BY <3>4, <3>5
  <2> QED
    BY <2>1, <2>2
<1>20. ExecutorState'
  <2>1. reply'[Executor] = None /\ holder' # None
    BY <1>1, <1>2, <1>3 DEF SessionTypes
  <2>2. CASE d = size
    <3>1. request'[Executor] = None
      BY <1>14, <2>2
    <3>2. done'[Executor] /\ \A c \in InSession : done'[c]
      BY <1>2, <1>11, <1>13, <1>15, <2>2
    <3> QED
      BY <1>4, <2>1, <3>1, <3>2 DEF ExecutorState
  <2>3. CASE d # size
    <3>1. cor' = d /\ d \in InSession /\ request'[Executor] = request'[d]
      BY <1>2, <1>11, <1>14, <2>3
    <3>2. ~done'[Executor] /\ ~done'[d] /\ ~after.done[d]
      BY <1>2, <1>11, <1>15, <2>3, <3>1
    <3>3. ASSUME NEW c \in InSession, ~after.done[c]
          PROVE  Len(got'[c]) = Len(got[cor]) + (IF c <= cor THEN 1 ELSE 0)
      <4>1. CASE c = cor
        <5>1. cor \in Int /\ c <= cor
          BY <1>10, <4>1
        <5> QED
          BY <1>17, <4>1, <5>1
      <4>2. CASE c # cor
        <5>1. ~done[c] /\ got'[c] = got[c]
          BY <1>2, <1>9, <1>17, <3>3, <4>2
        <5>2. Len(got[c]) = Len(got[cor]) + (IF c < cor THEN 1 ELSE 0)
          BY <1>1, <1>3, <5>1 DEF ExecutorState
        <5>3. (c <= cor) <=> (c < cor)
          BY <1>10, <4>2 DEF InSession
        <5> QED
          BY <5>1, <5>2, <5>3
      <4> QED
        BY <4>1, <4>2
    <3>4. ASSUME NEW c \in InSession, ~done'[c]
          PROVE  Len(got'[c]) = Len(got'[d]) + (IF c < d THEN 1 ELSE 0)
      <4>1. ~after.done[c]
        BY <1>2, <1>15, <3>4
      <4>2. /\ Len(got'[c]) = Len(got[cor]) + (IF c <= cor THEN 1 ELSE 0)
            /\ Len(got'[d]) = Len(got[cor]) + (IF d <= cor THEN 1 ELSE 0)
        BY <3>1, <3>2, <3>3, <4>1
      <4>3. Len(got[cor]) \in Nat /\ c \in 0 .. size - 1 /\ d \in 0 .. size - 1
        BY <1>6, <3>1 DEF InSession
      <4>4. CASE s <= d /\ \A e \in s .. d - 1 : after.done[e]
        <5>1. ~(c \in s .. d - 1)
          BY <4>1, <4>4
        <5>2. CASE cor + 1 = size
          <6>1. d <= cor /\ c <= cor /\ ~(c < d)
            BY <1>10, <4>3, <4>4, <5>1, <5>2
          <6> QED
            BY <4>2, <4>3, <6>1
        <5>3. CASE cor + 1 # size
          <6>1. ~(d <= cor)
            BY <1>10, <4>3, <4>4, <5>3
          <6>2. CASE c < d
            <7>1. c <= cor
              BY <1>10, <4>3, <5>1, <5>3, <6>2
            <7> QED
              BY <4>2, <4>3, <6>1, <6>2, <7>1
          <6>3. CASE ~(c < d)
            <7>1. ~(c <= cor)
              BY <1>10, <4>3, <6>1, <6>3
            <7> QED
              BY <4>2, <4>3, <6>1, <6>3, <7>1
          <6> QED
            BY <6>2, <6>3
        <5> QED
          BY <5>2, <5>3
      <4>5. CASE d < s /\ \A e \in InSession : s <= e \/ e < d => after.done[e]
        <5>1. ~(s <= c) /\ ~(c < d)
          BY <4>1, <4>5
        <5>2. d <= cor /\ c <= cor
          BY <1>10, <4>3, <4>5, <5>1
        <5> QED
          BY <4>2, <4>3, <5>1, <5>2
      <4> QED
        BY <1>11, <2>3, <4>4, <4>5
    <3> QED
      BY <1>4, <2>1, <3>1, <3>2, <3>4 DEF ExecutorState
  <2> QED
    BY <2>2, <2>3
<1> QED
  BY <1>16, <1>18, <1>19, <1>20 DEF Inv, SessionInv, Inner

(* The invariant is inductive.                                             *)
LEMMA SessionStep ==
  ASSUME Inv, [Next]_vars
  PROVE  Inv'
<1>1. FrameInv /\ FrameInv' /\ SessionTypes
  BY FramesStep DEF Inv
<1>2. None \notin Handles
  BY SessionAssumption
<1>3. ASSUME NEW n \in 1 .. N, Begin(n)
      PROVE  Inv'
  <2>1. holder = None
    BY <1>1, <1>3 DEF Begin, FrameInv, StartedSoFar
  <2> QED
    BY <1>1, <1>3, <2>1, SameSession DEF Begin, poolVars, SessionTypes, Holders
<1>4. ASSUME NEW c \in Inner, NEW yields \in 0 .. MaxYields, StartInner(c, yields)
      PROVE  Inv'
  BY <1>1, <1>4, StartInnerKeeps
<1>5. ASSUME NEW h \in Handles, StartExecutor(h)
      PROVE  Inv'
  BY <1>1, <1>5, StartExecutorKeeps
<1>6. ASSUME NEW h \in Handles, Move(h)
      PROVE  Inv'
  BY <1>1, <1>2, <1>6, SameSession DEF Move, poolVars, SessionTypes, Holders
<1>7. CASE StartWithoutMemory
  BY <1>1, <1>7, SameSession DEF StartWithoutMemory, poolVars, SessionTypes, Holders
<1>8. CASE Answer
  BY <1>1, <1>8, AnswerKeeps
<1>9. CASE Tick
  BY <1>1, <1>9, TickKeeps
<1>10. CASE Destroy
  <2>1. holder # None /\ holder' = None /\ size' = 0
    BY <1>10 DEF Destroy
  <2>2. Holders' = {}
    <3>1. PICK k \in 0 .. 0 : Holders' = 0 .. k - 1
      BY <1>1, <2>1 DEF FrameInv, StartedSoFar
    <3> QED
      BY <3>1
  <2>3. /\ undefined' \in BOOLEAN
        /\ script' = [c \in Inner |-> 0] /\ asked' = [c \in Inner |-> 0]
        /\ request' = [c \in Coroutines |-> None] /\ reply' = [c \in Coroutines |-> None]
        /\ done' = [c \in Coroutines |-> FALSE] /\ cor' = 0 /\ got' = [c \in Inner |-> <<>>]
    BY <1>1, <1>10 DEF Destroy, SessionTypes
  <2>4. Inner' = Inner /\ Coroutines' = Coroutines
    BY DEF Inner, Coroutines, Executor
  <2>5. (FrameInv /\ Holders = {} /\ holder = None /\ undefined \in BOOLEAN
           /\ script = [c \in Inner |-> 0] /\ asked = [c \in Inner |-> 0]
           /\ request = [c \in Coroutines |-> None] /\ reply = [c \in Coroutines |-> None]
           /\ done = [c \in Coroutines |-> FALSE] /\ cor = 0 /\ got = [c \in Inner |-> <<>>]
         => SessionTypes /\ SessionInv)'
    BY NoSession, PTL
  <2> QED
    BY <1>1, <2>1, <2>2, <2>3, <2>4, <2>5 DEF Inv
<1>11. CASE UNCHANGED vars
  BY <1>1, <1>11, SameSession DEF vars, poolVars, sessionVars, SessionTypes, Holders
<1> QED
  BY <1>3, <1>4, <1>5, <1>6, <1>7, <1>8, <1>9, <1>10, <1>11 DEF Next

(* The coroutines of a session get the owner's replies to their own        *)
(* requests, in order, in fair turns, and the executor ends after the last *)
(* of them, for any number of coroutines, requests and pools.              *)
THEOREM Sessions == Spec => []SessionsAreSound
<1>1. Inv => SessionsAreSound
  <2> SUFFICES ASSUME Inv
               PROVE  SessionsAreSound
    OBVIOUS
  <2>1. FrameInv /\ SessionTypes /\ RepliesAreOwn /\ ExecutorState /\ \A d \in Inner : CoroutineState(d)
    BY DEF Inv, SessionInv
  <2>2. InSession \subseteq Inner
    BY <2>1, Names
  <2>3. TurnsAreFair
    <3> SUFFICES ASSUME NEW c \in InSession, NEW d \in InSession,
                        holder # None, c < d, ~done[c], ~done[d]
                 PROVE  Len(got[c]) - Len(got[d]) \in {0, 1}
      BY DEF TurnsAreFair
    <3>1. /\ ~done[Executor] /\ cor \in InSession
          /\ Len(got[c]) = Len(got[cor]) + (IF c < cor THEN 1 ELSE 0)
          /\ Len(got[d]) = Len(got[cor]) + (IF d < cor THEN 1 ELSE 0)
      BY <2>1 DEF ExecutorState
    <3>2. Len(got[cor]) \in Nat /\ cor \in Int /\ c \in Int /\ d \in Int
      BY <2>1, <2>2, <3>1, LenProperties DEF SessionTypes, InSession
    <3> QED
      BY <3>1, <3>2
  <2>4. ExecutorEndsLast
    BY <2>1 DEF ExecutorEndsLast, ExecutorState
  <2> QED
    BY <2>1, <2>3, <2>4 DEF SessionsAreSound
<1>2. Inv /\ [Next]_vars => Inv'
  BY SessionStep
<1> QED
  BY <1>1, <1>2, SessionInit, PTL DEF Spec

(* A sequence that is short enough is a bounded one.                       *)
LEMMA IsBounded ==
  ASSUME NEW S, NEW n \in Nat, NEW s \in Seq(S), Len(s) <= n
  PROVE  s \in BoundedSeq(S, n)
<1>1. s \in [1 .. Len(s) -> S] /\ Len(s) \in 0 .. n
  BY LenProperties, ElementOfSeq
<1> QED
  BY <1>1 DEF BoundedSeq, SeqOf

(* A block with a place among the pools is an address of theirs.           *)
LEMMA BlockIsInPools ==
  ASSUME NEW b \in FrameBlock, Spot(b.ptr) \in Pools,
         b.ptr + b.bytes <= Start(Spot(b.ptr) + 1)
  PROVE  b \in Blocks
<1> DEFINE i == Spot(b.ptr)
           z == PoolSize
           x == b.ptr - PoolsBase
<1>1. PoolsBase \in Nat /\ z \in Nat \ {0} /\ PoolCount \in Nat /\ b.ptr \in Nat /\ b.bytes \in Nat
  BY PoolAssumption DEF FrameBlock
<1>2. i \in 0 .. PoolCount - 1 /\ i = x \div z /\ x \in Int
  BY <1>1 DEF Spot, Pools
<1>3. b.ptr + b.bytes <= PoolsBase + (i + 1) * z
  BY DEF Start
<1> HIDE DEF i, z, x
<1>4. z * i <= x
  BY <1>1, <1>2
<1>5. 0 <= z * i
  BY <1>1, <1>2
<1>6. (i + 1) * z = z * i + z
  BY <1>1, <1>2
<1>7. (i + 1) * z <= PoolCount * z
  <2> DEFINE k == PoolCount - (i + 1)
  <2>1. k \in Nat /\ PoolCount = k + (i + 1)
    BY <1>1, <1>2
  <2> HIDE DEF k
  <2>2. (k + (i + 1)) * z = k * z + (i + 1) * z /\ k * z \in Nat /\ (i + 1) * z \in Nat
    BY <1>1, <1>2, <2>1
  <2> QED
    BY <2>1, <2>2
<1>8. PoolCount * z \in Nat /\ z * i \in Nat /\ (i + 1) * z \in Nat
  BY <1>1, <1>2
<1>9. b.ptr = PoolsBase + x
  BY <1>1 DEF x
<1>10. b.ptr \in PoolsBase .. PoolsBase + PoolCount * z /\ b.bytes \in 0 .. z
  <2> DEFINE lo == z * i
             hi == (i + 1) * z
             all == PoolCount * z
  <2> HIDE DEF lo, hi, all
  <2>1. lo \in Nat /\ hi = lo + z /\ hi <= all /\ all \in Nat /\ lo <= x
    BY <1>4, <1>6, <1>7, <1>8 DEF lo, hi, all
  <2>2. b.ptr + b.bytes <= PoolsBase + hi
    BY <1>3 DEF hi
  <2>3. b.ptr \in PoolsBase .. PoolsBase + all /\ b.bytes \in 0 .. z
    BY <1>1, <1>2, <1>9, <2>1, <2>2
  <2> QED
    BY <2>3 DEF all
<1> QED
  BY <1>10 DEF FrameBlock, Blocks, z

LEMMA TypesFollow ==
  ASSUME Inv
  PROVE  TypeOK
<1>1. FrameInv /\ SessionTypes /\ \A c \in Inner : CoroutineState(c)
  BY DEF Inv, SessionInv
<1>2. PoolCount \in Nat /\ size \in 0 .. N /\ MaxYields \in Nat
  BY <1>1, Names, PoolAssumption DEF FrameInv
<1>3. free \in BoundedSeq(Pools, PoolCount)
  <2>1. Len(free) \in Nat /\ Len(free) <= PoolCount
    BY <1>1, <1>2, LenProperties DEF FrameInv, StartedSoFar
  <2> QED
    BY <1>1, <1>2, <2>1, IsBounded DEF FrameInv
<1>4. live \in [Clients -> Blocks \cup {NoBlock}]
  <2>1. ASSUME NEW c \in Clients, live[c] # NoBlock
        PROVE  live[c] \in Blocks
    <3>1. c \in Holders /\ live[c] \in FrameBlock
      BY <1>1, <2>1 DEF FrameInv, Holders
    <3> QED
      BY <1>1, <3>1, BlockIsInPools DEF FrameInv, PoolsArePartitioned
  <2> QED
    BY <1>1, <2>1 DEF FrameInv
<1>5. ASSUME NEW c \in Inner
      PROVE  got[c] \in BoundedSeq(Requests, MaxYields)
  <2>1. CoroutineState(c) /\ got[c] \in Seq(Requests) /\ script[c] \in 0 .. MaxYields /\ asked[c] \in Nat
    BY <1>1 DEF SessionTypes
  <2>2. Len(got[c]) <= MaxYields
    BY <1>2, <2>1, LenProperties DEF CoroutineState
  <2> QED
    BY <1>2, <2>1, <2>2, IsBounded
<1> QED
  BY <1>1, <1>2, <1>3, <1>4, <1>5 DEF TypeOK, PoolTypeOK, SessionTypes

(* Every variable keeps its type: blocks stay in the pools, no coroutine   *)
(* asks or receives more than its script has requests.                     *)
THEOREM SessionTypesHold == Spec => []TypeOK
  BY SessionInit, SessionStep, TypesFollow, PTL DEF Spec

-----------------------------------------------------------------------------
(* Recursive coroutines.                                                   *)

(* The chain of coroutines that wait for each other ends: the one a tick   *)
(* gets to exists.                                                         *)
LEMMA InnermostExists ==
  ASSUME DepthAssumption, RecursiveInv
  PROVE  /\ Innermost \in Levels
         /\ \A k \in 0 .. Innermost - 1 : iface[k] = "child" /\ StateOf(k) = "waiting"
         /\ ~(iface[Innermost] = "child" /\ StateOf(Innermost) = "waiting")
<1> DEFINE Waits(l) == iface[l] = "child" /\ StateOf(l) = "waiting"
           Ends == {l \in Levels : ~Waits(l)}
<1>1. Ends \subseteq Nat /\ Ends # {}
  <2>1. Depth \in Levels /\ Levels \subseteq Nat
    BY DEF DepthAssumption, Levels
  <2>2. ~Waits(Depth)
    BY DEF RecursiveInv, ChainEndsAbove
  <2> QED
    BY <2>1, <2>2
<1>2. PICK l \in Ends : \A m \in Ends : ~(<<m, l>> \in OpToRel(<, Nat))
  BY <1>1, WFMin, NatLessThanWellFounded
<1>3. \A m \in Ends : ~(m < l)
  BY <1>1, <1>2 DEF OpToRel
<1>4. \A k \in 0 .. l - 1 : Waits(k)
  <2> SUFFICES ASSUME NEW k \in 0 .. l - 1
               PROVE  Waits(k)
    OBVIOUS
  <2>1. k \in Levels /\ k < l
    BY DEF Levels, DepthAssumption
  <2> QED
    BY <2>1, <1>3
<1>5. l \in Levels /\ ~Waits(l)
  OBVIOUS
<1> QED
  BY <1>4, <1>5 DEF Innermost

(* A tick gets to a coroutine that exists and is suspended, unless the     *)
(* outermost one has ended.                                                *)
LEMMA InnermostIsSuspended ==
  ASSUME DepthAssumption, RecursiveInv
  PROVE  body[Innermost] = "suspended" \/ (Innermost = 0 /\ Done(0))
<1> SUFFICES ASSUME ~(Innermost = 0 /\ Done(0))
             PROVE  body[Innermost] = "suspended"
  OBVIOUS
<1>1. /\ Innermost \in Levels
      /\ \A k \in 0 .. Innermost - 1 : iface[k] = "child" /\ ~Done(k + 1)
  BY InnermostExists DEF StateOf
<1>2. ~Done(Innermost)
  <2>1. CASE Innermost = 0
    BY <2>1
  <2>2. CASE Innermost # 0
    <3>1. Innermost - 1 \in 0 .. Innermost - 1 /\ (Innermost - 1) + 1 = Innermost
      BY <1>1, <2>2 DEF Levels
    <3> QED
      BY <1>1, <3>1
  <2> QED
    BY <2>1, <2>2
<1>3. body[Innermost] # "none"
  <2> SUFFICES ASSUME body[Innermost] = "none"
               PROVE  FALSE
    OBVIOUS
  <2>1. PICK k \in Levels : k < Innermost /\ (iface[k] # "child" \/ Done(k + 1))
    BY <1>1 DEF RecursiveInv, ChainEndsAbove
  <2>2. k \in 0 .. Innermost - 1
    BY <1>1, <2>1 DEF Levels, DepthAssumption
  <2> QED
    BY <1>1, <2>1, <2>2
<1>4. body[Innermost] \in {"none", "suspended", "done", "empty"}
  BY <1>1 DEF RecursiveInv, RecursiveTypeOK
<1> QED
  BY <1>2, <1>3, <1>4 DEF Done

(* The initial states.                                                     *)
LEMMA InitHolds ==
  ASSUME DepthAssumption, RecursiveInit
  PROVE  RecursiveInv
<1>1. Depth \in Levels /\ 0 \in Levels /\ Levels \subseteq Nat
  BY DEF DepthAssumption, Levels
<1>2. RecursiveTypeOK
  <2>1. /\ body \in [Levels -> {"none", "suspended", "done", "empty"}]
        /\ iface \in [Levels -> {"null", "child", "device", "dangling"}]
        /\ silent \in [Levels -> BOOLEAN]
    BY DEF RecursiveInit
  <2>2. awaits \in [Levels -> 0 .. MaxAwaits]
    BY DEF RecursiveInit, DepthAssumption
  <2>3. device \in {"waiting", "ready", "errored"} /\ ran \subseteq Levels /\ lost \in BOOLEAN
    BY DEF RecursiveInit
  <2> QED
    BY <2>1, <2>2, <2>3 DEF RecursiveTypeOK
<1>3. SuspendedIsAwaited
  BY DEF RecursiveInit, SuspendedIsAwaited, DepthAssumption, Levels
<1>4. ChainEndsAbove
  <2>1. iface[Depth] # "child"
    BY <1>1 DEF RecursiveInit
  <2>2. ASSUME NEW l \in Levels, body[l] = "none"
        PROVE  \E k \in Levels : k < l /\ (iface[k] # "child" \/ Done(k + 1))
    <3>1. 0 < l /\ iface[0] # "child"
      BY <1>1, <2>2 DEF RecursiveInit, Levels
    <3> QED
      BY <1>1, <3>1
  <2> QED
    BY <2>1, <2>2 DEF ChainEndsAbove
<1>5. DanglingOnlyAfterSilentAwait
  BY DEF RecursiveInit, DanglingOnlyAfterSilentAwait
<1> QED
  BY <1>2, <1>3, <1>4, <1>5 DEF RecursiveInv

LEMMA AwaitChildKeeps ==
  ASSUME DepthAssumption, RecursiveInv, NEW l \in Levels, AwaitChild(l)
  PROVE  RecursiveInv'
<1> USE DEF AwaitChild, Resume, WithoutChild
<1>1. /\ Levels \subseteq Nat /\ l + 1 \in Levels /\ Depth \in Nat /\ l < Depth
      /\ \A k \in Levels : k <= Depth /\ (k < Depth => k + 1 \in Levels)
  BY DEF DepthAssumption, Levels
<1>2. RecursiveTypeOK'
  <2> USE DEF RecursiveInv, RecursiveTypeOK
  <2>1. /\ body' \in [Levels -> {"none", "suspended", "done", "empty"}]
        /\ iface' \in [Levels -> {"null", "child", "device", "dangling"}]
        /\ silent' \in [Levels -> BOOLEAN]
    BY <1>1
  <2>2. awaits' \in [Levels -> 0 .. MaxAwaits]
    BY <1>1 DEF DepthAssumption
  <2>3. /\ device' \in {"waiting", "ready", "errored"}
        /\ ran' \subseteq Levels /\ lost' \in BOOLEAN
    BY <1>1
  <2> QED
    BY <2>1, <2>2, <2>3
<1>3. SuspendedIsAwaited'
  <2> SUFFICES ASSUME NEW k \in 1 .. Depth, body'[k] = "suspended"
               PROVE  iface'[k - 1] = "child"
    BY DEF SuspendedIsAwaited
  <2>1. k \in Levels /\ k - 1 \in Levels /\ k <= l + 1
    BY <1>1 DEF Levels, RecursiveInv, RecursiveTypeOK
  <2>2. k <= l => body[k] = "suspended"
    BY <1>1, <2>1 DEF RecursiveInv, RecursiveTypeOK
  <2>3. k <= l => iface[k - 1] = "child"
    BY <2>2 DEF RecursiveInv, SuspendedIsAwaited
  <2> QED
    BY <1>1, <2>1, <2>3 DEF RecursiveInv, RecursiveTypeOK
<1>4. ChainEndsAbove'
  <2>1. iface'[Depth] # "child"
    BY <1>1 DEF RecursiveInv, RecursiveTypeOK, ChainEndsAbove, Levels
  <2>2. ASSUME NEW m \in Levels, body'[m] = "none"
        PROVE  \E k \in Levels : k < m /\ (iface'[k] # "child" \/ Done(k + 1)')
    <3>1. CASE m > l
      <4>1. l + 1 < m /\ iface'[l + 1] # "child"
        BY <1>1, <2>2, <3>1 DEF RecursiveInv, RecursiveTypeOK
      <4> QED
        BY <1>1, <4>1
    <3>2. CASE m <= l
      <4>1. body[m] = "none"
        BY <1>1, <2>2, <3>2 DEF RecursiveInv, RecursiveTypeOK
      <4>2. PICK k \in Levels : k < m /\ (iface[k] # "child" \/ Done(k + 1))
        BY <4>1 DEF RecursiveInv, ChainEndsAbove
      <4>3. iface'[k] = iface[k] /\ body'[k + 1] = body[k + 1]
        BY <1>1, <3>2, <4>2 DEF RecursiveInv, RecursiveTypeOK
      <4> QED
        BY <4>2, <4>3 DEF Done
    <3>3. m > l \/ m <= l
      BY <1>1
    <3> QED
      BY <3>1, <3>2, <3>3
  <2> QED
    BY <2>1, <2>2 DEF ChainEndsAbove
<1>5. DanglingOnlyAfterSilentAwait'
  BY <1>1 DEF RecursiveInv, RecursiveTypeOK, DanglingOnlyAfterSilentAwait, CanTick
<1> QED
  BY <1>2, <1>3, <1>4, <1>5 DEF RecursiveInv

(* A coroutine that leaves what it waited for, and does not wait for       *)
(* another coroutine after it, keeps the chain above it and ends the one   *)
(* below.                                                                  *)
LEMMA LeavingKeepsChain ==
  ASSUME DepthAssumption, RecursiveInv, NEW l \in Levels,
         \A k \in Levels \ {l} : body'[k] = body[k] \/ (l < k /\ body'[k] = "none"),
         body'[l] \in {body[l], "done", "empty"},
         Done(l) => body'[l] \in {"done", "empty"},
         iface[l] = "child" /\ l + 1 \in Levels => body'[l + 1] = "none",
         \A k \in Levels \ {l} : iface'[k] = iface[k],
         iface'[l] # "child"
  PROVE  SuspendedIsAwaited' /\ ChainEndsAbove'
<1>1. Levels \subseteq Nat /\ Depth \in Levels /\ \A k \in Levels : k <= Depth
  BY DEF DepthAssumption, Levels
<1>2. SuspendedIsAwaited'
  <2> SUFFICES ASSUME NEW k \in 1 .. Depth, body'[k] = "suspended"
               PROVE  iface'[k - 1] = "child"
    BY DEF SuspendedIsAwaited
  <2>1. k \in Levels /\ k - 1 \in Levels /\ (k - 1) + 1 = k
    BY <1>1 DEF Levels
  <2>2. body[k] = "suspended"
    BY <2>1
  <2>3. iface[k - 1] = "child"
    BY <2>2 DEF RecursiveInv, SuspendedIsAwaited
  <2>4. k - 1 # l
    BY <2>1, <2>3
  <2> QED
    BY <2>1, <2>3, <2>4
<1>3. ChainEndsAbove'
  <2>1. iface'[Depth] # "child"
    BY <1>1 DEF RecursiveInv, ChainEndsAbove
  <2>2. ASSUME NEW m \in Levels, body'[m] = "none"
        PROVE  \E k \in Levels : k < m /\ (iface'[k] # "child" \/ Done(k + 1)')
    <3>1. CASE m > l
      BY <3>1
    <3>2. CASE m <= l
      <4>1. body[m] = "none"
        BY <1>1, <2>2, <3>2
      <4>2. PICK k \in Levels : k < m /\ (iface[k] # "child" \/ Done(k + 1))
        BY <4>1 DEF RecursiveInv, ChainEndsAbove
      <4>3. k \in Levels \ {l} /\ k + 1 \in Levels /\ k + 1 <= l
        BY <1>1, <3>2, <4>2 DEF Levels
      <4>4. iface'[k] = iface[k]
        BY <4>3
      <4>5. Done(k + 1) => Done(k + 1)'
        BY <1>1, <4>3 DEF Done
      <4> QED
        BY <4>2, <4>4, <4>5
    <3>3. m > l \/ m <= l
      BY <1>1
    <3> QED
      BY <3>1, <3>2, <3>3
  <2> QED
    BY <2>1, <2>2 DEF ChainEndsAbove
<1> QED
  BY <1>2, <1>3

(* A tick that resumes coroutine l and makes it wait for no coroutine.     *)
LEMMA LeavingKeeps ==
  ASSUME DepthAssumption, RecursiveInv, NEW l \in Levels,
         AwaitDevice(l) \/ AwaitSilently(l) \/ Return(l)
  PROVE  RecursiveInv'
<1> USE DEF AwaitDevice, AwaitSilently, Return, Resume
<1>1. l \in Nat /\ Levels \subseteq Nat
  BY DEF DepthAssumption, Levels
<1>2. /\ body' \in [Levels -> {"none", "suspended", "done", "empty"}]
      /\ \A k \in Levels : k < l => body'[k] = body[k]
      /\ \A k \in Levels : l < k => body'[k] = "none"
      /\ body'[l] \in {body[l], "done"}
  <2>1. body \in [Levels -> {"none", "suspended", "done", "empty"}]
    BY DEF RecursiveInv, RecursiveTypeOK
  <2>2. CASE AwaitDevice(l) \/ AwaitSilently(l)
    <3>1. body' = WithoutChild(l)
      BY <2>2
    <3> QED
      BY <1>1, <2>1, <3>1 DEF WithoutChild
  <2>3. CASE Return(l)
    <3>1. body' = [WithoutChild(l) EXCEPT ![l] = "done"]
      BY <2>3
    <3> QED
      BY <1>1, <2>1, <3>1 DEF WithoutChild
  <2> QED
    BY <2>2, <2>3
<1>3. /\ iface' \in [Levels -> {"null", "child", "device", "dangling"}]
      /\ \A k \in Levels \ {l} : iface'[k] = iface[k]
      /\ iface'[l] \in {"null", "device", "dangling"}
  BY DEF Left, RecursiveInv, RecursiveTypeOK
<1>4. SuspendedIsAwaited' /\ ChainEndsAbove'
  <2>1. \A k \in Levels \ {l} : body'[k] = body[k] \/ (l < k /\ body'[k] = "none")
    BY <1>1, <1>2
  <2>2. body'[l] \in {body[l], "done", "empty"} /\ (Done(l) => body'[l] \in {"done", "empty"})
    BY <1>2 DEF Done
  <2>3. l + 1 \in Levels => body'[l + 1] = "none"
    BY <1>1, <1>2
  <2> QED
    BY <1>3, <2>1, <2>2, <2>3, LeavingKeepsChain
<1>5. RecursiveTypeOK'
  <2> USE DEF RecursiveInv, RecursiveTypeOK
  <2>1. awaits' \in [Levels -> 0 .. MaxAwaits]
    BY DEF DepthAssumption
  <2>2. silent' \in [Levels -> BOOLEAN]
    OBVIOUS
  <2>3. /\ device' \in {"waiting", "ready", "errored"}
        /\ ran' \subseteq Levels /\ lost' \in BOOLEAN
    OBVIOUS
  <2> QED
    BY <1>2, <1>3, <2>1, <2>2, <2>3
<1>6. DanglingOnlyAfterSilentAwait'
  <2>1. ASSUME NEW k \in Levels, body'[k] = "suspended", iface'[k] = "dangling"
        PROVE  silent'[k]
    <3>1. CASE k = l
      BY <1>2, <2>1, <3>1 DEF RecursiveInv, RecursiveTypeOK
    <3>2. CASE k # l
      <4>1. body[k] = "suspended" /\ iface[k] = "dangling"
        BY <1>1, <1>2, <1>3, <2>1, <3>2
      <4> QED
        BY <3>2, <4>1 DEF RecursiveInv, RecursiveTypeOK, DanglingOnlyAfterSilentAwait
    <3> QED
      BY <3>1, <3>2
  <2>2. ~lost'
    BY DEF CanTick
  <2> QED
    BY <2>1, <2>2 DEF DanglingOnlyAfterSilentAwait
<1> QED
  BY <1>4, <1>5, <1>6 DEF RecursiveInv

(* A device that failed ends the coroutine that waits for it.              *)
LEMMA AbandonKeeps ==
  ASSUME DepthAssumption, RecursiveInv, NEW l \in Levels, Abandon(l)
  PROVE  RecursiveInv'
<1> USE DEF Abandon
<1>1. RecursiveTypeOK'
  BY DEF RecursiveInv, RecursiveTypeOK
<1>2. /\ body'[l] = "empty" /\ iface'[l] = "null"
      /\ \A k \in Levels \ {l} : body'[k] = body[k] /\ iface'[k] = iface[k]
  BY DEF RecursiveInv, RecursiveTypeOK
<1>3. iface[l] # "child"
  BY DEF StateOf
<1>4. SuspendedIsAwaited' /\ ChainEndsAbove'
  BY <1>2, <1>3, LeavingKeepsChain
<1>5. DanglingOnlyAfterSilentAwait'
  BY <1>2 DEF RecursiveInv, CanTick, DanglingOnlyAfterSilentAwait
<1> QED
  BY <1>1, <1>4, <1>5 DEF RecursiveInv

(* A tick that reads a dangling pointer does so in a coroutine that is     *)
(* suspended, or in the outermost one after it has returned.               *)
LEMMA ReadDanglingKeeps ==
  ASSUME DepthAssumption, RecursiveInv, NEW l \in Levels, ReadDangling(l)
  PROVE  RecursiveInv'
<1> USE DEF ReadDangling
<1>1. RecursiveTypeOK'
  BY DEF RecursiveInv, RecursiveTypeOK
<1>2. SuspendedIsAwaited' /\ ChainEndsAbove'
  BY DEF RecursiveInv, SuspendedIsAwaited, ChainEndsAbove, Done
<1>3. body[l] = "suspended" \/ (l = 0 /\ body[l] = "done")
  BY InnermostIsSuspended DEF Done
<1>4. iface[l] = "dangling" /\ (silent[l] \/ (l = 0 /\ body[l] = "done"))
  BY <1>3 DEF RecursiveInv, DanglingOnlyAfterSilentAwait
<1>5. DanglingOnlyAfterSilentAwait'
  BY <1>4 DEF RecursiveInv, DanglingOnlyAfterSilentAwait
<1> QED
  BY <1>1, <1>2, <1>5 DEF RecursiveInv

LEMMA DeviceKeeps ==
  ASSUME RecursiveInv,
         (\E l \in Levels : TickFinished(l)) \/ AnswerDevice \/ UNCHANGED recursiveVars
  PROVE  RecursiveInv'
<1> USE DEF TickFinished, AnswerDevice, DeviceAnswers, recursiveVars
<1>1. RecursiveTypeOK'
  BY DEF RecursiveInv, RecursiveTypeOK
<1>2. UNCHANGED <<body, iface, silent, lost>>
  OBVIOUS
<1> QED
  BY <1>1, <1>2 DEF RecursiveInv, SuspendedIsAwaited, ChainEndsAbove, DanglingOnlyAfterSilentAwait, Done

(* No coroutine goes on while the one it created is suspended.             *)
LEMMA StepKeepsNesting ==
  ASSUME DepthAssumption, RecursiveInv, [RecursiveNext]_recursiveVars
  PROVE  ChildEndsFirstStep
<1> SUFFICES ASSUME NEW l \in Levels \ {Depth}, ran' = {l},
                    <<body, awaits>>' # <<body, awaits>>
             PROVE  body[l + 1] # "suspended"
  BY DEF ChildEndsFirstStep
<1>1. ~(AnswerDevice \/ UNCHANGED recursiveVars)
  BY DEF AnswerDevice, DeviceAnswers, recursiveVars
<1>2. PICK k \in Levels : AwaitChild(k) \/ AwaitDevice(k) \/ AwaitSilently(k) \/ Return(k)
                            \/ Abandon(k) \/ TickFinished(k) \/ ReadDangling(k)
  BY <1>1 DEF RecursiveNext, TickRecursive
<1>3. Resume(k) /\ k = l
  BY <1>2 DEF AwaitChild, AwaitDevice, AwaitSilently, Return, Abandon, TickFinished, ReadDangling, Resume
<1>4. iface[l] = "child" => Done(l + 1)
  BY <1>3 DEF Resume, StateOf
<1>5. l + 1 \in 1 .. Depth /\ (l + 1) - 1 = l
  BY DEF Levels, DepthAssumption
<1> QED
  BY <1>4, <1>5 DEF RecursiveInv, SuspendedIsAwaited, Done

(* Every step of recursive coroutines keeps the invariant.                 *)
LEMMA StepKeeps ==
  ASSUME DepthAssumption, RecursiveInv, [RecursiveNext]_recursiveVars
  PROVE  RecursiveInv'
<1>1. CASE (\E l \in Levels : TickFinished(l)) \/ AnswerDevice \/ UNCHANGED recursiveVars
  BY <1>1, DeviceKeeps
<1>2. ASSUME NEW l \in Levels, AwaitChild(l)
      PROVE  RecursiveInv'
  BY <1>2, AwaitChildKeeps
<1>3. ASSUME NEW l \in Levels, AwaitDevice(l) \/ AwaitSilently(l) \/ Return(l)
      PROVE  RecursiveInv'
  BY <1>3, LeavingKeeps
<1>4. ASSUME NEW l \in Levels, Abandon(l)
      PROVE  RecursiveInv'
  BY <1>4, AbandonKeeps
<1>5. ASSUME NEW l \in Levels, ReadDangling(l)
      PROVE  RecursiveInv'
  BY <1>5, ReadDanglingKeeps
<1> QED
  BY <1>1, <1>2, <1>3, <1>4, <1>5 DEF RecursiveNext, TickRecursive

(* Recursive coroutines of any depth are nested: tick() in                 *)
(* coro/recursive.hpp resumes a coroutine whose child has ended, and reads *)
(* a dangling pointer only after an awaiter that stored nothing or, in the *)
(* outermost coroutine, after its end.                                     *)
THEOREM Nesting == DepthAssumption => (RecursiveSpec => RecursionIsNested)
<1> SUFFICES ASSUME DepthAssumption
             PROVE  RecursiveSpec => RecursionIsNested
  OBVIOUS
<1>1. RecursiveInit => RecursiveInv
  BY InitHolds
<1>2. RecursiveInv /\ [RecursiveNext]_recursiveVars => RecursiveInv'
  BY StepKeeps
<1>3. RecursiveInv /\ [RecursiveNext]_recursiveVars => [ChildEndsFirstStep]_recursiveVars
  BY StepKeepsNesting
<1>4. RecursiveInv' => DanglingOnlyAfterSilentAwait'
  BY DEF RecursiveInv
<1>5. RecursiveInv /\ [RecursiveNext]_recursiveVars
        => [DanglingOnlyAfterSilentAwait' /\ ChildEndsFirstStep]_recursiveVars
  BY <1>2, <1>3, <1>4
<1> QED
  BY <1>1, <1>2, <1>5, PTL DEF RecursiveSpec, RecursionIsNested

=============================================================================
