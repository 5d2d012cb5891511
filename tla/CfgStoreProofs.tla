----------------------------- MODULE CfgStoreProofs -----------------------------
(***************************************************************************)
(* The memory of the configuration store, for any number of pages and      *)
(* cells, any keys and values and any crashes and failures that are        *)
(* allowed: its types, that no cell is written twice, that the headers     *)
(* tell the newest page, and that a load finds in it what was stored.      *)
(***************************************************************************)
EXTENDS CfgStore, SequenceTheorems, WellFoundedInduction, TLAPS

Addresses == 0 .. MemCells - 1
PageNumbers == 0 .. Pages - 1
Codes == States \cup {"none"}

Runs == [page : PageNumbers, rotated : BOOLEAN, addr : 0 .. MemCells, free : 0 .. MemCells,
         pending : Seq(Cell), stamp : States]

(* TypeOK, with what it rests on: what is pending has its place in the     *)
(* memory, and only keys of the configuration are looked for.              *)
Typed ==
  /\ mem \in [Addresses -> Cell]
  /\ config = [k \in Keys |-> config[k]]
  /\ \A k \in Keys : config[k] \in Values[k] \cup {NoValue}
  /\ unseen \subseteq Present /\ (pc = "idle" => unseen = {})
  /\ pc \in {"idle", "scan", "write", "locate", "clear", "header"}
  /\ run \in Runs
  /\ pc = "write" => run.pending # <<>> /\ run.free + Len(run.pending) <= MemCells
  /\ newest \in 0 .. Pages

-----------------------------------------------------------------------------
(* Least and greatest elements.                                            *)

LEMMA LeastIsMin ==
  ASSUME NEW S, S \subseteq Nat, S # {}
  PROVE  Min(S) \in S /\ \A x \in S : Min(S) <= x
<1>1. PICK m \in S : \A x \in S : ~(<<x, m>> \in OpToRel(<, Nat))
  BY WFMin, NatLessThanWellFounded
<1>2. \A x \in S : ~(x < m)
  BY <1>1 DEF OpToRel
<1>3. \A x \in S : m <= x
  BY <1>2
<1> QED
  BY <1>1, <1>3 DEF Min

LEMMA GreatestIsMax ==
  ASSUME NEW n \in Nat, NEW S, S \subseteq 0 .. n, S # {}
  PROVE  Max(S) \in S /\ \A x \in S : x <= Max(S)
<1> DEFINE T == {n - x : x \in S}
<1>1. T \subseteq Nat /\ T # {}
  <2>1. \A x \in S : n - x \in Nat
    OBVIOUS
  <2>2. PICK x : x \in S
    OBVIOUS
  <2>3. n - x \in T
    BY <2>2
  <2> QED
    BY <2>1, <2>3
<1>2. PICK x \in S : n - x = Min(T)
  BY <1>1, LeastIsMin
<1>3. ASSUME NEW y \in S
      PROVE  n - x <= n - y
  <2>1. n - y \in T
    OBVIOUS
  <2> HIDE DEF T
  <2> QED
    BY <1>1, <1>2, <2>1, LeastIsMin
<1>4. \A y \in S : x >= y
  BY <1>3
<1> QED
  BY <1>2, <1>4 DEF Max

-----------------------------------------------------------------------------
(* Addresses.                                                              *)

LEMMA Sizes == Pages \in Nat \ {0} /\ PageCells \in Nat \ {0, 1} /\ MemCells \in Nat
<1> DEFINE m == PageCells
           n == Pages
<1>1. n \in Nat \ {0} /\ m \in Nat \ {0, 1}
  BY MemoryAssumption
<1> HIDE DEF m, n
<1>2. n * m \in Nat
  BY <1>1
<1> QED
  BY <1>1, <1>2 DEF MemCells, m, n

(* The cells of a page.                                                    *)
LEMMA PageOf ==
  ASSUME NEW p \in PageNumbers
  PROVE  /\ p * PageCells \in Nat /\ p * PageCells + PageCells <= MemCells
         /\ (p + 1) * PageCells = p * PageCells + PageCells
         /\ \A r \in 0 .. PageCells - 1 :
              p * PageCells + r \in Addresses /\ (p * PageCells + r) \div PageCells = p
         /\ \A a \in Addresses : a \div PageCells = p <=>
              a \in p * PageCells .. p * PageCells + PageCells - 1
<1> DEFINE m == PageCells
           n == Pages
           s == p * m
<1>1. n \in Nat \ {0} /\ m \in Nat \ {0} /\ p \in 0 .. n - 1 /\ MemCells = n * m
  BY Sizes DEF PageNumbers, MemCells
<1> HIDE DEF m, n
<1>2. s \in Nat /\ (p + 1) * m = s + m
  BY <1>1
<1>3. s + m <= n * m /\ n * m \in Nat
  <2> DEFINE k == n - (p + 1)
  <2>1. k \in Nat /\ n = k + (p + 1)
    BY <1>1
  <2> HIDE DEF k
  <2>2. (k + (p + 1)) * m = k * m + (p + 1) * m /\ k * m \in Nat /\ n * m \in Nat
    BY <1>1, <2>1
  <2> DEFINE km == k * m
             nm == n * m
  <2>3. nm = km + (s + m) /\ km \in Nat /\ nm \in Nat
    BY <1>2, <2>1, <2>2
  <2> HIDE DEF km, nm, s
  <2>4. s + m <= nm
    BY <1>1, <1>2, <2>3
  <2> QED
    BY <2>3, <2>4 DEF nm
<1>4. \A r \in 0 .. m - 1 : (m * p + r) \div m = p
  BY <1>1
<1>5. m * p = s
  BY <1>1
<1>6. ASSUME NEW a \in Nat
      PROVE  a \div m = p <=> a \in s .. s + m - 1
  <2>1. ASSUME a \div m = p
        PROVE  a \in s .. s + m - 1
    <3>1. m * (a \div m) <= a /\ a - m < m * (a \div m)
      BY <1>1
    <3> QED
      BY <1>1, <1>2, <1>5, <2>1, <3>1
  <2>2. ASSUME a \in s .. s + m - 1
        PROVE  a \div m = p
    <3>1. a - s \in 0 .. m - 1 /\ a = s + (a - s)
      BY <1>1, <1>2, <2>2
    <3> QED
      BY <1>4, <1>5, <3>1
  <2> QED
    BY <2>1, <2>2
<1> HIDE DEF s
<1>7. \A r \in 0 .. m - 1 : s + r \in 0 .. MemCells - 1 /\ (s + r) \div m = p
  BY <1>1, <1>2, <1>3, <1>4, <1>5
<1>8. s + m <= MemCells
  BY <1>1, <1>3
<1>9. \A a \in Addresses : a \div m = p <=> a \in s .. s + m - 1
  BY <1>6 DEF Addresses
<1> QED
  BY <1>2, <1>7, <1>8, <1>9 DEF m, s, Addresses

-----------------------------------------------------------------------------
(* Pages.                                                                  *)

LEMMA HeaderCodes ==
  ASSUME NEW p \in PageNumbers
  PROVE  HeaderOf(p) \in Codes
BY DEF HeaderOf, Codes

LEMMA HeadersTyped == Headers \in [PageNumbers -> Codes]
BY HeaderCodes DEF Headers, PageNumbers

(* What CurrentPage and NextPage give.                                     *)
LEMMA CurrentPageIs ==
  ASSUME NEW h \in [PageNumbers -> Codes]
  PROVE  \/ CurrentPage(h) = Pages /\ \A q \in PageNumbers : h[q] = "none"
         \/ \E p, f \in PageNumbers :
              /\ CurrentPage(h) = p /\ f <= p
              /\ h[f] # "none" /\ \A q \in PageNumbers : h[q] # "none" => f <= q
              /\ \A q \in f .. p : h[q] = h[f]
              /\ \A q \in PageNumbers : q > p => \E r \in f .. q : h[r] # h[f]
<1> DEFINE stamped == {p \in PageNumbers : h[p] # "none"}
           f == Min(stamped)
           leading == {p \in stamped : \A q \in f .. p : h[q] = h[f]}
<1>1. CurrentPage(h) = IF stamped = {} THEN Pages ELSE Max(leading)
  BY DEF CurrentPage
<1>2. Pages \in Nat \ {0} /\ PageNumbers \subseteq 0 .. Pages - 1 /\ PageNumbers \subseteq Nat
  BY Sizes DEF PageNumbers
<1>3. CASE stamped = {}
  BY <1>1, <1>3
<1>4. CASE stamped # {}
  <2>1. f \in stamped /\ \A q \in stamped : f <= q
    BY <1>2, <1>4, LeastIsMin
  <2> HIDE DEF f
  <2>2. f \in leading
    BY <1>2, <2>1
  <2> DEFINE p == Max(leading)
  <2>3. Pages - 1 \in Nat /\ leading \subseteq 0 .. Pages - 1 /\ leading # {}
    <3>1. leading \subseteq PageNumbers
      OBVIOUS
    <3> HIDE DEF leading
    <3> QED
      BY <1>2, <2>2, <3>1
  <2>4. p \in leading /\ \A q \in leading : q <= p
    BY <2>3, GreatestIsMax
  <2>5. CurrentPage(h) = p
    BY <1>1, <1>4 DEF f
  <2> HIDE DEF p
  <2>6. ASSUME NEW q \in PageNumbers, q > p
        PROVE  \E r \in f .. q : h[r] # h[f]
    <3>1. q \notin leading
      BY <1>2, <2>4, <2>6
    <3>2. CASE q \in stamped
      BY <3>1, <3>2
    <3>3. CASE q \notin stamped
      <4>1. h[q] # h[f] /\ f <= p
        BY <2>1, <2>2, <2>4, <3>3
      <4>2. q \in f .. q
        BY <1>2, <2>1, <2>4, <2>6, <4>1
      <4> QED
        BY <4>1, <4>2
    <3> QED
      BY <3>2, <3>3
  <2> QED
    BY <2>1, <2>2, <2>4, <2>5, <2>6
<1> QED
  BY <1>3, <1>4

LEMMA NextPageIs ==
  ASSUME NEW h \in [PageNumbers -> Codes]
  PROVE  \/ /\ \A q \in PageNumbers : h[q] = h[0] /\ h[q] # "none"
            /\ NextPage(h) = [page |-> 0, stamp |-> Following(h[0])]
         \/ \E p \in PageNumbers :
              /\ h[p] = "none" \/ h[p] # h[0]
              /\ \A q \in PageNumbers : q < p => h[q] = h[0] /\ h[q] # "none"
              /\ NextPage(h) = [page |-> p, stamp |-> IF h[p] = "none" THEN "A" ELSE h[0]]
<1> DEFINE others == {p \in PageNumbers : h[p] = "none" \/ h[p] # h[0]}
<1>1. NextPage(h) = IF others = {} THEN [page |-> 0, stamp |-> Following(h[0])]
                    ELSE [page |-> Min(others),
                          stamp |-> IF h[Min(others)] = "none" THEN "A" ELSE h[0]]
  BY DEF NextPage
<1>2. PageNumbers \subseteq Nat
  BY Sizes DEF PageNumbers
<1>3. CASE others = {}
  BY <1>1, <1>3
<1>4. CASE others # {}
  <2>1. Min(others) \in others /\ \A q \in others : Min(others) <= q
    BY <1>2, <1>4, LeastIsMin
  <2> DEFINE p == Min(others)
  <2>2. p \in PageNumbers /\ \A q \in others : p <= q
    BY <2>1
  <2> HIDE DEF p
  <2>3. \A q \in PageNumbers : q < p => q \notin others
    <3> HIDE DEF others
    <3> QED
      BY <1>2, <2>2
  <2> QED
    BY <1>1, <1>4, <2>1, <2>2, <2>3 DEF p
<1> QED
  BY <1>3, <1>4

LEMMA PagesTyped ==
  ASSUME NEW h \in [PageNumbers -> Codes]
  PROVE  /\ CurrentPage(h) \in PageNumbers \cup {Pages}
         /\ NextPage(h).page \in PageNumbers /\ NextPage(h).stamp \in States
<1>1. Pages \in Nat \ {0} /\ 0 \in PageNumbers
  BY Sizes DEF PageNumbers
<1>2. \A q \in PageNumbers : h[q] \in Codes
  OBVIOUS
<1>3. CurrentPage(h) \in PageNumbers \cup {Pages}
  BY CurrentPageIs
<1>4. CASE /\ \A q \in PageNumbers : h[q] = h[0] /\ h[q] # "none"
           /\ NextPage(h) = [page |-> 0, stamp |-> Following(h[0])]
  <2>1. h[0] \in States
    BY <1>1, <1>2, <1>4 DEF Codes
  <2>2. Following(h[0]) \in States
    BY <2>1 DEF Following, States
  <2> QED
    BY <1>1, <1>3, <1>4, <2>2
<1>5. CASE \E p \in PageNumbers :
             /\ h[p] = "none" \/ h[p] # h[0]
             /\ \A q \in PageNumbers : q < p => h[q] = h[0] /\ h[q] # "none"
             /\ NextPage(h) = [page |-> p, stamp |-> IF h[p] = "none" THEN "A" ELSE h[0]]
  <2>1. PICK p \in PageNumbers :
             /\ h[p] = "none" \/ h[p] # h[0]
             /\ \A q \in PageNumbers : q < p => h[q] = h[0] /\ h[q] # "none"
             /\ NextPage(h) = [page |-> p, stamp |-> IF h[p] = "none" THEN "A" ELSE h[0]]
    BY <1>5
  <2>2. p = 0 \/ (0 \in PageNumbers /\ 0 < p)
    BY <1>1 DEF PageNumbers
  <2>3. h[p] # "none" => h[0] # "none"
    BY <2>1, <2>2
  <2>4. (IF h[p] = "none" THEN "A" ELSE h[0]) \in States
    BY <1>1, <1>2, <2>3 DEF Codes, States
  <2> QED
    BY <1>3, <2>1, <2>4
<1> QED
  BY <1>4, <1>5, NextPageIs

-----------------------------------------------------------------------------
(* Types.                                                                  *)

LEMMA CellsTyped ==
  /\ Free \in Cell
  /\ \A s \in States : Header(s) \in Cell
  /\ \A k \in Keys : \A v \in Values[k] : Stored(k, v) \in Seq(Cell) /\ Len(Stored(k, v)) \in Nat \ {0}
<1>1. Free \in Cell
  BY DEF Free, Cell
<1>2. ASSUME NEW s \in States
      PROVE  Header(s) \in Cell
  BY DEF Header, HeaderBits, States, Cell
<1>3. ASSUME NEW k \in Keys, NEW v \in Values[k]
      PROVE  Stored(k, v) \in Seq(Cell) /\ Len(Stored(k, v)) \in Nat \ {0}
  <2>1. /\ k \in Nat /\ v.wide \in BOOLEAN /\ v.cells \in Seq(Cell) /\ (v.wide \/ v.cells # <<>>)
    BY MemoryAssumption
  <2>2. CASE v.wide
    <3>1. Len(v.cells) \in Nat
      BY <2>1, LenProperties
    <3>2. [seq |-> TRUE, key |-> k, val |-> Len(v.cells)] \in Cell
      BY <2>1, <3>1 DEF Cell
    <3>3. Stored(k, v) = Append(v.cells, [seq |-> TRUE, key |-> k, val |-> Len(v.cells)])
      BY <2>2 DEF Stored
    <3> QED
      BY <2>1, <3>1, <3>2, <3>3, AppendProperties
  <2>3. CASE ~v.wide
    <3>1. v.cells[1] \in Cell
      <4>1. Len(v.cells) \in Nat \ {0}
        BY <2>1, <2>3, EmptySeq, LenProperties
      <4> QED
        BY <2>1, <4>1, ElementOfSeq
    <3>2. [seq |-> FALSE, key |-> k, val |-> v.cells[1].val] \in Cell
      BY <2>1, <3>1 DEF Cell
    <3>3. Stored(k, v) = <<[seq |-> FALSE, key |-> k, val |-> v.cells[1].val]>>
      BY <2>3 DEF Stored
    <3> HIDE DEF Stored
    <3> QED
      BY <3>2, <3>3
  <2> QED
    BY <2>1, <2>2, <2>3
<1> QED
  BY <1>1, <1>2, <1>3

LEMMA NoRunTyped == NoRun \in Runs
<1>1. 0 \in PageNumbers /\ 0 \in 0 .. MemCells
  BY Sizes DEF PageNumbers
<1>2. <<>> \in Seq(Cell)
  OBVIOUS
<1> QED
  BY <1>1, <1>2 DEF NoRun, Runs, States

(* Where update() is.                                                      *)
LEMMA Bounds ==
  ASSUME Typed
  PROVE  /\ run.page \in PageNumbers /\ run.rotated \in BOOLEAN /\ run.stamp \in States
         /\ run.addr \in 0 .. MemCells /\ run.free \in 0 .. MemCells /\ run.pending \in Seq(Cell)
         /\ Start = run.page * PageCells + 1 /\ Start \in Nat \ {0} /\ Start <= MemCells
         /\ Start - 1 + PageCells <= MemCells
         /\ End = Start - 1 + PageCells + (IF run.rotated THEN 1 ELSE 0) /\ End \in Nat
<1>1. run \in Runs
  BY DEF Typed
<1>2. /\ run.page \in PageNumbers /\ run.rotated \in BOOLEAN /\ run.stamp \in States
      /\ run.addr \in 0 .. MemCells /\ run.free \in 0 .. MemCells /\ run.pending \in Seq(Cell)
  BY <1>1 DEF Runs
<1> DEFINE s == run.page * PageCells
<1>3. s \in Nat /\ s + PageCells <= MemCells /\ PageCells \in Nat \ {0, 1} /\ MemCells \in Nat
  BY <1>2, PageOf, Sizes
<1>4. Start = s + 1 /\ End = Start - 1 + PageCells + (IF run.rotated THEN 1 ELSE 0)
  BY DEF Start, End
<1> HIDE DEF s
<1>5. Start \in Nat \ {0} /\ Start <= MemCells /\ Start - 1 + PageCells <= MemCells
  BY <1>3, <1>4
<1>6. End \in Nat
  BY <1>2, <1>3, <1>4, <1>5
<1> QED
  BY <1>2, <1>4, <1>5, <1>6 DEF s

(* Values of keys that are looked for.                                     *)
LEMMA UnseenHaveValues ==
  ASSUME Typed, NEW k \in unseen
  PROVE  k \in Keys /\ config[k] \in Values[k] /\ config[k] # NoValue
BY DEF Typed, Present

(* A step that returns.                                                    *)
LEMMA ReturnKeeps ==
  ASSUME Typed, NEW st, Return(st)
  PROVE  Typed'
<1>1. /\ pc' = "idle" /\ run' = NoRun /\ unseen' = {} /\ mem' = mem /\ config' = config
      /\ newest' = newest
  BY DEF Return
<1> QED
  BY <1>1, NoRunTyped DEF Typed, Addresses, Runs, PageNumbers

(* What storing a key comes to.                                            *)
LEMMA StoreIs ==
  ASSUME Typed, NEW k \in unseen, NEW addr, Store(k, addr)
  PROVE  LET cells == Stored(k, config[k])
         IN  \/ \E st \in {"FULL", "WRITE_ERROR"} : Return(st)
             \/ /\ ~run.rotated /\ run.free + Len(cells) > Start - 1 + PageCells
                /\ pc' = "locate" /\ run' = NoRun /\ unseen' = unseen \ {k}
                /\ UNCHANGED <<mem, config, status, promised, newest>>
             \/ /\ run.free + Len(cells) <= End /\ run.free + Len(cells) <= MemCells
                /\ pc' = "write" /\ run' = [run EXCEPT !.addr = addr, !.pending = cells]
                /\ unseen' = unseen \ {k}
                /\ UNCHANGED <<mem, config, status, promised, newest>>
<1> DEFINE cells == Stored(k, config[k])
           above == run.free + Len(cells)
<1>1. k \in Keys /\ config[k] \in Values[k]
  BY UnseenHaveValues
<1>2. Len(cells) \in Nat /\ run.free \in Nat /\ above \in Nat /\ End \in Nat /\ MemCells \in Nat
  BY <1>1, CellsTyped, Bounds, Sizes
<1>3. run.rotated \in BOOLEAN /\ (~run.rotated => End = Start - 1 + PageCells)
  BY Bounds, Sizes
<1> HIDE DEF cells, above
<1>4. CASE above > End /\ run.rotated
  <2>1. ~(above <= End)
    BY <1>2, <1>4
  <2> QED
    BY <1>4, <2>1 DEF Store, above, cells
<1>5. CASE above > End /\ ~run.rotated
  <2>1. ~(above <= End) /\ above > Start - 1 + PageCells
    BY <1>2, <1>3, <1>5
  <2> QED
    BY <1>5, <2>1 DEF Store, above, cells
<1>6. CASE above <= End /\ above > MemCells
  <2>1. ~(above > End) /\ ~(above <= MemCells)
    BY <1>2, <1>6
  <2> QED
    BY <1>6, <2>1 DEF Store, above, cells
<1>7. CASE above <= End /\ above <= MemCells
  <2>1. ~(above > End) /\ ~(above > MemCells)
    BY <1>2, <1>7
  <2> QED
    BY <1>7, <2>1 DEF Store, above, cells
<1> QED
  BY <1>2, <1>3, <1>4, <1>5, <1>6, <1>7

LEMMA StoreKeeps ==
  ASSUME Typed, NEW k \in unseen, NEW addr \in 0 .. MemCells, Store(k, addr)
  PROVE  Typed'
<1> DEFINE cells == Stored(k, config[k])
<1>1. cells \in Seq(Cell) /\ cells # <<>>
  BY UnseenHaveValues, CellsTyped
<1> HIDE DEF cells
<1>2. CASE \E st \in {"FULL", "WRITE_ERROR"} : Return(st)
  BY <1>2, ReturnKeeps
<1>3. CASE /\ pc' = "locate" /\ run' = NoRun /\ unseen' = unseen \ {k}
           /\ UNCHANGED <<mem, config, status, promised, newest>>
  BY <1>3, NoRunTyped DEF Typed, Present, Addresses, Runs, PageNumbers
<1>4. CASE /\ run.free + Len(cells) <= MemCells
           /\ pc' = "write" /\ run' = [run EXCEPT !.addr = addr, !.pending = cells]
           /\ unseen' = unseen \ {k}
           /\ UNCHANGED <<mem, config, status, promised, newest>>
  <2>1. run \in Runs
    BY DEF Typed
  <2>2. run' \in Runs /\ run'.free = run.free /\ run'.pending = cells
    BY <1>1, <1>4, <2>1 DEF Runs
  <2> QED
    BY <1>1, <1>4, <2>2 DEF Typed, Present, Addresses, Runs, PageNumbers
<1> QED
  BY <1>2, <1>3, <1>4, StoreIs DEF cells

(* The scan stays above the header of the page.                            *)
LEMMA ScanStaysAbove ==
  ASSUME Typed, run.addr > Start, NEW at, at = run.addr - 1
  PROVE  at \in Addresses /\ Skip(mem, at) \in 0 .. MemCells /\ Below(mem, Start, at) \in 0 .. MemCells
<1>1. /\ run.addr \in 0 .. MemCells /\ Start \in Nat \ {0} /\ MemCells \in Nat
  BY Bounds, Sizes
<1>2. at \in Addresses /\ at >= Start /\ at \in Nat /\ at < MemCells
  BY <1>1 DEF Addresses
<1>3. mem[at] \in Cell
  BY <1>2 DEF Typed
<1> DEFINE v == mem[at].val
<1>4. v \in Nat
  BY <1>3 DEF Cell
<1> HIDE DEF v
<1>5. Decr(at, v) \in 0 .. MemCells
  BY <1>1, <1>2, <1>4 DEF Decr
<1>6. Skip(mem, at) \in 0 .. MemCells
  BY <1>1, <1>2, <1>5 DEF Skip, v
<1>7. BufferCells \in Nat
  BY MemoryAssumption
<1>8. /\ at - 1 \in 0 .. MemCells /\ Start - 1 \in 0 .. MemCells /\ at \in 0 .. MemCells
      /\ ~(at - v < Start) => at - v \in 0 .. MemCells
  BY <1>1, <1>2, <1>4
<1>9. Below(mem, Start, at) \in 0 .. MemCells
  <2>1. Below(mem, Start, at) = IF ~mem[at].seq THEN at
                           ELSE IF v > BufferCells THEN at - 1
                           ELSE IF at - v < Start THEN Start - 1 ELSE at - v
    BY DEF Below, v
  <2> QED
    BY <1>8, <2>1
<1> QED
  BY <1>2, <1>6, <1>9

(* The part of the memory that is free at the end of a page.               *)
LEMMA FreeEnd ==
  ASSUME Typed, NEW p \in PageNumbers,
         NEW frees,
         frees = {a \in p * PageCells + 1 .. (p + 1) * PageCells :
                    \A b \in a .. (p + 1) * PageCells - 1 : mem[b] = Free}
  PROVE  /\ Min(frees) \in p * PageCells + 1 .. p * PageCells + PageCells
         /\ Min(frees) \in 0 .. MemCells
         /\ \A b \in Min(frees) .. p * PageCells + PageCells - 1 : mem[b] = Free
<1> DEFINE s == p * PageCells
           e == (p + 1) * PageCells
<1>1. s \in Nat /\ e = s + PageCells /\ e <= MemCells /\ PageCells \in Nat \ {0, 1} /\ MemCells \in Nat
  BY PageOf, Sizes
<1>2. frees = {a \in s + 1 .. e : \A b \in a .. e - 1 : mem[b] = Free}
  OBVIOUS
<1> HIDE DEF s, e
<1>3. e \in frees
  <2>1. e \in s + 1 .. e /\ e .. e - 1 = {}
    BY <1>1
  <2> QED
    BY <1>2, <2>1
<1>4. frees \subseteq Nat
  BY <1>1, <1>2
<1>5. Min(frees) \in frees
  BY <1>3, <1>4, LeastIsMin
<1>6. Min(frees) \in s + 1 .. e /\ \A b \in Min(frees) .. e - 1 : mem[b] = Free
  BY <1>2, <1>5
<1>7. Min(frees) \in 0 .. MemCells
  BY <1>1, <1>6
<1> QED
  BY <1>1, <1>6, <1>7 DEF s, e

LEMMA TypedInit == Init => Typed
<1> SUFFICES ASSUME Init
             PROVE  Typed
  OBVIOUS
<1>1. mem \in [Addresses -> Cell]
  BY CellsTyped DEF Init, Addresses
<1>2. config = [k \in Keys |-> config[k]] /\ \A k \in Keys : config[k] = NoValue
  BY DEF Init, NoConfig
<1>3. newest \in 0 .. Pages
  BY Sizes DEF Init
<1> QED
  BY <1>1, <1>2, <1>3, NoRunTyped DEF Init, Typed

LEMMA TypedStep ==
  ASSUME Typed, [Next]_vars
  PROVE  Typed'
<1>1. /\ mem \in [Addresses -> Cell] /\ config = [k \in Keys |-> config[k]]
      /\ \A k \in Keys : config[k] \in Values[k] \cup {NoValue}
      /\ unseen \subseteq Present /\ Present \subseteq Keys /\ run \in Runs
      /\ newest \in 0 .. Pages
  BY DEF Typed, Present
<1> USE DEF PageNumbers
<1>2. ASSUME NEW k \in Keys, Change(k)
      PROVE  Typed'
  <2>1. PICK v \in Values[k] \cup {NoValue} : config' = [config EXCEPT ![k] = v]
    BY <1>2 DEF Change
  <2>2. pc = "idle" /\ UNCHANGED <<mem, unseen, pc, run, newest>>
    BY <1>2 DEF Change
  <2>4. config' = [j \in Keys |-> config'[j]] /\ \A j \in Keys : config'[j] \in Values[j] \cup {NoValue}
    BY <1>1, <2>1
  <2>5. unseen' \subseteq Present'
    BY <2>2 DEF Typed
  <2> QED
    BY <1>1, <2>2, <2>4, <2>5 DEF Typed, Addresses, Runs
<1>3. CASE Crash
  <2>1. config' = [j \in Keys |-> config'[j]] /\ \A j \in Keys : config'[j] \in Values[j] \cup {NoValue}
    <3>1. config' = [k \in Keys |-> IF Loaded[k] \in Values[k] THEN Loaded[k] ELSE NoValue]
      BY <1>3 DEF Crash
    <3>2. ASSUME NEW j \in Keys
          PROVE  config'[j] \in Values[j] \cup {NoValue}
      BY <3>1
    <3> QED
      BY <3>1, <3>2
  <2>2. /\ mem' = mem /\ pc' = "idle" /\ run' = NoRun /\ unseen' = {} /\ newest' = newest
    BY <1>3 DEF Crash
  <2> QED
    BY <1>1, <2>1, <2>2, NoRunTyped DEF Typed, Addresses, Runs
<1>4. CASE StartUpdate
  <2> DEFINE p == CurrentPage(Headers)
             frees == {a \in p * PageCells + 1 .. (p + 1) * PageCells :
                         \A b \in a .. (p + 1) * PageCells - 1 : mem[b] = Free}
  <2>1. /\ unseen' = Present
        /\ IF p = Pages THEN pc' = "locate" /\ run' = NoRun
           ELSE /\ pc' = "scan"
                /\ run' = [NoRun EXCEPT !.page = p, !.addr = Min(frees), !.free = Min(frees)]
        /\ UNCHANGED <<mem, config, newest>>
    BY <1>4 DEF StartUpdate
  <2>2. p \in PageNumbers \cup {Pages}
    BY HeadersTyped, PagesTyped
  <2> HIDE DEF p
  <2>3. run' \in Runs
    <3>1. CASE p = Pages
      BY <2>1, <3>1, NoRunTyped
    <3>2. CASE p # Pages
      <4>1. p \in PageNumbers
        BY <2>2, <3>2
      <4>2. Min(frees) \in 0 .. MemCells
        BY <4>1, FreeEnd
      <4> HIDE DEF frees
      <4> QED
        BY <2>1, <3>2, <4>1, <4>2, NoRunTyped DEF Runs
    <3> QED
      BY <3>1, <3>2
  <2>4. pc' \in {"scan", "locate"}
    BY <2>1
  <2>5. UNCHANGED <<mem, config, newest>> /\ unseen' = Present /\ Present' = Present
    BY <2>1 DEF Present
  <2> HIDE DEF frees
  <2> QED
    BY <1>1, <2>3, <2>4, <2>5 DEF Typed, Addresses, Runs
<1>5. ASSUME ScanGarbage \/ DumpDone \/ Fail
      PROVE  Typed'
  BY <1>5, ReturnKeeps DEF ScanGarbage, DumpDone, Fail
<1>6. CASE ScanSeen
  <2>1. /\ run.addr > Start /\ run' = [run EXCEPT !.addr = Skip(mem, run.addr - 1)]
        /\ UNCHANGED <<mem, config, unseen, pc, newest>> /\ pc = "scan"
    BY <1>6 DEF ScanSeen, Scanning
  <2>2. run' \in Runs
    BY <1>1, <2>1, ScanStaysAbove DEF Runs
  <2> QED
    BY <1>1, <2>1, <2>2 DEF Typed, Present, Addresses, Runs
<1>7. CASE ScanKey
  <2> DEFINE at == run.addr - 1
             key == mem[at].key
  <2>1. /\ run.addr > Start /\ pc = "scan" /\ key \in unseen
        /\ \/ Store(key, Below(mem, Start, at))
           \/ /\ run' = [run EXCEPT !.addr = Below(mem, Start, at)] /\ unseen' = unseen \ {key}
              /\ UNCHANGED <<mem, config, pc, newest>>
    BY <1>7 DEF ScanKey, Scanning
  <2>2. Below(mem, Start, at) \in 0 .. MemCells
    BY <2>1, ScanStaysAbove
  <2> HIDE DEF at, key
  <2>3. CASE Store(key, Below(mem, Start, at))
    BY <2>1, <2>2, <2>3, StoreKeeps
  <2>4. CASE /\ run' = [run EXCEPT !.addr = Below(mem, Start, at)] /\ unseen' = unseen \ {key}
             /\ UNCHANGED <<mem, config, pc, newest>>
    <3>1. run' \in Runs
      BY <1>1, <2>2, <2>4 DEF Runs
    <3> QED
      BY <1>1, <2>1, <2>4, <3>1 DEF Typed, Present, Addresses, Runs
  <2> QED
    BY <2>1, <2>3, <2>4
<1>8. CASE DumpKey
  <2>1. PICK k \in unseen : Store(k, run.addr)
    BY <1>8 DEF DumpKey
  <2> QED
    BY <2>1, Bounds, StoreKeeps
<1>9. CASE WriteCell
  <2>1. /\ pc = "write" /\ run.pending # <<>> /\ run.free + Len(run.pending) <= MemCells
        /\ run.pending \in Seq(Cell) /\ run.free \in 0 .. MemCells
    BY <1>9, Bounds DEF Typed, WriteCell
  <2>2. /\ mem' = [mem EXCEPT ![run.free] = Head(run.pending)]
        /\ run' = [run EXCEPT !.free = run.free + 1, !.pending = Tail(run.pending)]
        /\ pc' = IF Len(run.pending) = 1 THEN "scan" ELSE "write"
        /\ UNCHANGED <<config, unseen, newest>>
    BY <1>9 DEF WriteCell
  <2>3. /\ Head(run.pending) \in Cell /\ Tail(run.pending) \in Seq(Cell)
        /\ Len(run.pending) \in Nat \ {0} /\ Len(Tail(run.pending)) = Len(run.pending) - 1
    BY <2>1, EmptySeq, LenProperties, HeadTailProperties
  <2>4. mem' \in [Addresses -> Cell]
    BY <1>1, <2>2, <2>3
  <2>5. /\ run.free + 1 \in 0 .. MemCells
        /\ (run.free + 1) + Len(Tail(run.pending)) <= MemCells
    BY <2>1, <2>3, Sizes
  <2>6. /\ run' \in Runs /\ run'.free = run.free + 1 /\ run'.pending = Tail(run.pending)
    BY <1>1, <2>2, <2>3, <2>5 DEF Runs
  <2>7. pc' = "write" => run'.pending # <<>>
    <3>1. pc' = "write" => Len(Tail(run.pending)) # 0
      BY <2>2, <2>3
    <3>2. Len(<<>>) = 0
      OBVIOUS
    <3> QED
      BY <2>6, <3>1, <3>2
  <2> QED
    BY <1>1, <2>2, <2>4, <2>5, <2>6, <2>7 DEF Typed, Present, Addresses, Runs
<1>10. CASE Locate
  <2> DEFINE next == NextPage(Headers)
  <2>1. /\ run' = [NoRun EXCEPT !.page = next.page, !.rotated = TRUE, !.stamp = next.stamp]
        /\ unseen' = Present /\ pc' = "clear" /\ UNCHANGED <<mem, config, newest>>
    BY <1>10 DEF Locate
  <2>2. next.page \in PageNumbers /\ next.stamp \in States
    BY HeadersTyped, PagesTyped
  <2> HIDE DEF next
  <2>3. run' \in Runs
    BY <2>1, <2>2, NoRunTyped DEF Runs
  <2> QED
    BY <1>1, <2>1, <2>3 DEF Typed, Present, Addresses, Runs
<1>11. CASE ClearPage
  <2>1. /\ mem' = [a \in Addresses |-> IF a \div PageCells = run.page THEN Free ELSE mem[a]]
        /\ pc' = "header" /\ UNCHANGED <<config, unseen, run, newest>>
    BY <1>1, <1>11 DEF ClearPage
  <2>2. mem' \in [Addresses -> Cell]
    BY <1>1, <2>1, CellsTyped
  <2> QED
    BY <1>1, <2>1, <2>2 DEF Typed, Present, Addresses, Runs
<1>12. CASE WriteHeader
  <2>1. /\ mem' = [mem EXCEPT ![run.page * PageCells] = Header(run.stamp)]
        /\ run' = [run EXCEPT !.addr = Start, !.free = Start] /\ pc' = "scan"
        /\ newest' = run.page /\ UNCHANGED <<config, unseen>>
    BY <1>12 DEF WriteHeader
  <2>2. mem' \in [Addresses -> Cell]
    BY <1>1, <2>1, Bounds, CellsTyped
  <2>3. run' \in Runs
    <3>1. Start \in 0 .. MemCells
      BY Bounds, Sizes
    <3> QED
      BY <1>1, <2>1, <3>1 DEF Runs
  <2>4. newest' \in 0 .. Pages
    BY <2>1, Bounds, Sizes
  <2> QED
    BY <1>1, <2>1, <2>2, <2>3, <2>4 DEF Typed, Present, Addresses, Runs
<1>13. CASE UNCHANGED vars
  BY <1>13 DEF vars, Typed, Present, Addresses, Runs
<1> QED
  BY <1>2, <1>3, <1>4, <1>5, <1>6, <1>7, <1>8, <1>9, <1>10, <1>11, <1>12, <1>13 DEF Next, Update

(* Every variable keeps its type: no address of update() leaves the        *)
(* memory, whatever the memory holds and wherever power is lost.           *)
THEOREM Typing == Spec => []TypeOK
<1>1. Typed => TypeOK
  <2> SUFFICES ASSUME Typed
               PROVE  TypeOK
    OBVIOUS
  <2> QED
    BY Bounds DEF Typed, TypeOK, Addresses, Present, PageNumbers
<1>2. Typed /\ [Next]_vars => Typed'
  BY TypedStep
<1> QED
  BY <1>1, <1>2, TypedInit, PTL DEF Spec

-----------------------------------------------------------------------------
(* Room.                                                                   *)

(* cells[S] cells are room for values of the keys S.                       *)
RoomForAll(cells) ==
  /\ cells \in [SUBSET Keys -> 0 .. PageCells - 1]
  /\ \A S \in SUBSET Keys : \A k \in Keys \ S : \A v \in Values[k] :
       cells[S] + Len(Stored(k, v)) <= cells[S \union {k}]

PageEnd == Start - 1 + PageCells

(* While update() works on a page, the rest of the page is free and has    *)
(* room for what is pending; after a rotation what was dumped so far is no *)
(* more than the keys that were seen need.                                 *)
Room(cells) ==
  /\ pc \in {"scan", "write"} =>
       /\ run.free >= Start /\ run.free + Len(run.pending) <= PageEnd
       /\ \A a \in run.free .. PageEnd - 1 : mem[a] = Free
       /\ run.rotated => run.free + Len(run.pending) <= Start + cells[Keys \ unseen]
  /\ pc = "header" => \A a \in Start - 1 .. PageEnd - 1 : mem[a] = Free
  /\ pc \in {"scan", "clear", "header"} => run.pending = <<>>

(* A cell that is written was free.                                        *)
WrittenOnce == \A a \in DOMAIN mem : mem[a] # Free => mem'[a] \in {mem[a], Free}

(* A key that was seen leaves room for its value.                          *)
LEMMA SeeingGrows ==
  ASSUME Typed, NEW cells, RoomForAll(cells), NEW k \in unseen
  PROVE  /\ cells[Keys \ unseen] \in Nat /\ cells[Keys \ (unseen \ {k})] \in 0 .. PageCells - 1
         /\ cells[Keys \ unseen] <= cells[Keys \ (unseen \ {k})]
         /\ cells[Keys \ unseen] + Len(Stored(k, config[k])) <= cells[Keys \ (unseen \ {k})]
         /\ Len(Stored(k, config[k])) \in Nat \ {0}
<1> DEFINE S == Keys \ unseen
<1>1. k \in Keys /\ config[k] \in Values[k] /\ S \in SUBSET Keys /\ k \in Keys \ S
  BY UnseenHaveValues
<1>2. Keys \ (unseen \ {k}) = S \union {k}
  BY <1>1
<1>3. S \union {k} \in SUBSET Keys
  BY <1>1
<1> HIDE DEF S
<1>4. cells[S] + Len(Stored(k, config[k])) <= cells[S \union {k}]
  BY <1>1 DEF RoomForAll
<1>5. cells[S] \in 0 .. PageCells - 1 /\ cells[S \union {k}] \in 0 .. PageCells - 1
  BY <1>1, <1>3 DEF RoomForAll
<1>6. Len(Stored(k, config[k])) \in Nat \ {0}
  BY <1>1, CellsTyped
<1>7. cells[S] \in Nat /\ cells[S] <= cells[S \union {k}]
  BY <1>4, <1>5, <1>6, Sizes
<1> QED
  BY <1>2, <1>4, <1>5, <1>6, <1>7 DEF S

LEMMA StoreKeepsRoom ==
  ASSUME Typed, NEW cells, RoomForAll(cells), Room(cells), pc = "scan",
         NEW k \in unseen, NEW addr, Store(k, addr)
  PROVE  Room(cells)' /\ mem' = mem
<1> DEFINE new == Stored(k, config[k])
           S == Keys \ unseen
           T == Keys \ (unseen \ {k})
<1>1. /\ cells[S] \in Nat /\ cells[T] \in 0 .. PageCells - 1 /\ cells[S] + Len(new) <= cells[T]
      /\ Len(new) \in Nat \ {0}
  BY SeeingGrows
<1>2. /\ run \in Runs /\ run.free \in Nat /\ Start \in Nat /\ run.rotated \in BOOLEAN
      /\ PageCells \in Nat /\ End = PageEnd + (IF run.rotated THEN 1 ELSE 0) /\ PageEnd \in Nat
      /\ PageEnd = Start - 1 + PageCells
  BY Bounds, Sizes DEF Typed, PageEnd
<1>3. /\ run.free >= Start /\ \A a \in run.free .. PageEnd - 1 : mem[a] = Free
      /\ run.rotated => run.free <= Start + cells[S]
  <2>1. run.pending = <<>> /\ Len(run.pending) = 0
    BY DEF Room
  <2>2. run.rotated => run.free + Len(run.pending) <= Start + cells[S]
    BY DEF Room
  <2>3. run.rotated => run.free <= Start + cells[S]
    BY <1>2, <2>1, <2>2
  <2> QED
    BY <2>3 DEF Room
<1> HIDE DEF new
<1>4. CASE \E st \in {"FULL", "WRITE_ERROR"} : Return(st)
  BY <1>4 DEF Return, Room
<1>5. CASE pc' = "locate" /\ mem' = mem
  BY <1>5 DEF Room
<1>6. CASE /\ run.free + Len(new) <= End
           /\ pc' = "write" /\ run' = [run EXCEPT !.addr = addr, !.pending = new]
           /\ unseen' = unseen \ {k}
           /\ UNCHANGED <<mem, config, status, promised, newest>>
  <2>1. /\ run'.free = run.free /\ run'.pending = new /\ run'.page = run.page
        /\ run'.rotated = run.rotated
    BY <1>2, <1>6 DEF Runs
  <2>2. Start' = Start /\ PageEnd' = PageEnd
    BY <2>1 DEF Start, PageEnd
  <2>3. CASE run.rotated
    <3>1. run.free + Len(new) <= Start + cells[T]
      BY <1>1, <1>2, <1>3, <2>3
    <3>2. run.free + Len(new) <= PageEnd
      BY <1>1, <1>2, <3>1
    <3> QED
      BY <1>3, <1>6, <2>1, <2>2, <2>3, <3>1, <3>2 DEF Room
  <2>4. CASE ~run.rotated
    <3>1. run.free + Len(new) <= PageEnd
      BY <1>2, <1>6, <2>4
    <3> QED
      BY <1>3, <1>6, <2>1, <2>2, <2>4, <3>1 DEF Room
  <2> QED
    BY <1>2, <2>3, <2>4
<1> QED
  BY <1>4, <1>5, <1>6, StoreIs DEF new

LEMMA RoomStep ==
  ASSUME Typed, NEW cells, RoomForAll(cells), Room(cells), [Next]_vars
  PROVE  Room(cells)' /\ WrittenOnce
<1>1. /\ run \in Runs /\ run.page \in PageNumbers /\ run.free \in Nat /\ Start \in Nat \ {0}
      /\ Start = run.page * PageCells + 1
      /\ PageEnd = Start - 1 + PageCells /\ PageEnd \in Nat /\ PageEnd <= MemCells
      /\ PageCells \in Nat \ {0, 1} /\ MemCells \in Nat
      /\ mem \in [Addresses -> Cell] /\ run.pending \in Seq(Cell) /\ unseen \subseteq Keys
  <2>1. run \in Runs /\ mem \in [Addresses -> Cell] /\ unseen \subseteq Keys
    BY DEF Typed, Present
  <2>2. /\ run.page \in PageNumbers /\ run.free \in Nat /\ Start \in Nat \ {0}
        /\ Start = run.page * PageCells + 1 /\ run.pending \in Seq(Cell)
        /\ Start - 1 + PageCells <= MemCells
    BY Bounds, Sizes
  <2>3. PageEnd = Start - 1 + PageCells /\ PageEnd \in Nat
    BY <2>2, Sizes DEF PageEnd
  <2> QED
    BY <2>1, <2>2, <2>3, Sizes
<1>2. ASSUME mem' = mem
      PROVE  WrittenOnce
  BY <1>2 DEF WrittenOnce
<1>3. ASSUME mem' = mem, pc' \in {"idle", "locate"}
      PROVE  Room(cells)' /\ WrittenOnce
  BY <1>2, <1>3 DEF Room
<1>4. ASSUME NEW k \in Keys, Change(k)
      PROVE  Room(cells)' /\ WrittenOnce
  BY <1>3, <1>4 DEF Change
<1>5. CASE Crash
  BY <1>3, <1>5 DEF Crash
<1>6. CASE StartUpdate
  <2> DEFINE p == CurrentPage(Headers)
             frees == {a \in p * PageCells + 1 .. (p + 1) * PageCells :
                         \A b \in a .. (p + 1) * PageCells - 1 : mem[b] = Free}
  <2>1. /\ IF p = Pages THEN pc' = "locate" /\ run' = NoRun
           ELSE /\ pc' = "scan"
                /\ run' = [NoRun EXCEPT !.page = p, !.addr = Min(frees), !.free = Min(frees)]
        /\ mem' = mem
    BY <1>6 DEF StartUpdate
  <2>2. p \in PageNumbers \cup {Pages}
    BY HeadersTyped, PagesTyped
  <2> HIDE DEF p
  <2>3. CASE p = Pages
    BY <1>3, <2>1, <2>3
  <2>4. CASE p # Pages
    <3>1. p \in PageNumbers /\ p * PageCells \in Nat
      BY <2>2, <2>4, PageOf
    <3>2. /\ Min(frees) \in p * PageCells + 1 .. p * PageCells + PageCells
          /\ \A b \in Min(frees) .. p * PageCells + PageCells - 1 : mem[b] = Free
      BY <3>1, FreeEnd
    <3> DEFINE m == Min(frees)
    <3> HIDE DEF frees, m
    <3>3. /\ run'.page = p /\ run'.free = m /\ run'.pending = <<>> /\ ~run'.rotated
          /\ pc' = "scan"
      BY <2>1, <2>4 DEF NoRun, m
    <3>4. Start' = p * PageCells + 1 /\ PageEnd' = (p * PageCells + 1) - 1 + PageCells
      BY <3>3 DEF Start, PageEnd
    <3>5. /\ m >= Start' /\ m + Len(run'.pending) <= PageEnd'
          /\ \A b \in m .. PageEnd' - 1 : mem'[b] = Free
      <4> DEFINE s == p * PageCells
      <4>1. m \in s + 1 .. s + PageCells /\ \A b \in m .. s + PageCells - 1 : mem[b] = Free
        BY <3>2 DEF m
      <4>2. s \in Nat /\ Start' = s + 1 /\ PageEnd' = s + PageCells /\ Len(run'.pending) = 0
        BY <1>1, <3>1, <3>3, <3>4
      <4> HIDE DEF s
      <4> QED
        BY <1>1, <2>1, <4>1, <4>2
    <3> QED
      BY <1>2, <2>1, <3>3, <3>5 DEF Room
  <2> QED
    BY <2>3, <2>4
<1>7. ASSUME ScanGarbage \/ DumpDone \/ Fail
      PROVE  Room(cells)' /\ WrittenOnce
  BY <1>3, <1>7 DEF ScanGarbage, DumpDone, Fail, Return
<1>8. ASSUME NEW addr, run' = [run EXCEPT !.addr = addr], mem' = mem, pc = "scan", pc' = pc,
             unseen' = unseen \/ \E k \in unseen : unseen' = unseen \ {k}
      PROVE  Room(cells)' /\ WrittenOnce
  <2>1. /\ run'.free = run.free /\ run'.pending = run.pending /\ run'.page = run.page
        /\ run'.rotated = run.rotated
    BY <1>1, <1>8 DEF Runs
  <2>2. Start' = Start /\ PageEnd' = PageEnd
    BY <2>1 DEF Start, PageEnd
  <2>3. run.rotated => run.free + Len(run.pending) <= Start + cells[Keys \ unseen']
    <3>1. CASE unseen' = unseen
      BY <1>8, <3>1 DEF Room
    <3>2. ASSUME NEW k \in unseen, unseen' = unseen \ {k}, run.rotated
          PROVE  run.free + Len(run.pending) <= Start + cells[Keys \ unseen']
      <4>1. /\ cells[Keys \ unseen] \in Nat /\ cells[Keys \ unseen'] \in 0 .. PageCells - 1
            /\ cells[Keys \ unseen] <= cells[Keys \ unseen']
        BY <3>2, SeeingGrows
      <4>2. run.free + Len(run.pending) <= Start + cells[Keys \ unseen] /\ Len(run.pending) \in Nat
        BY <1>1, <1>8, <3>2, LenProperties DEF Room
      <4> DEFINE x == cells[Keys \ unseen]
                 y == cells[Keys \ unseen']
                 z == run.free + Len(run.pending)
      <4>3. x \in Nat /\ y \in Nat /\ x <= y /\ z <= Start + x /\ z \in Nat
        BY <1>1, <4>1, <4>2
      <4> HIDE DEF x, y, z
      <4>4. z <= Start + y
        BY <1>1, <4>3
      <4> QED
        BY <4>4 DEF y, z
    <3> QED
      BY <1>8, <3>1, <3>2
  <2> QED
    BY <1>2, <1>8, <2>1, <2>2, <2>3 DEF Room
<1>9. CASE ScanSeen
  BY <1>8, <1>9 DEF ScanSeen, Scanning
<1>10. CASE ScanKey
  <2> DEFINE at == run.addr - 1
             key == mem[at].key
  <2>1. /\ pc = "scan" /\ key \in unseen
        /\ \/ Store(key, Below(mem, Start, at))
           \/ /\ run' = [run EXCEPT !.addr = Below(mem, Start, at)] /\ unseen' = unseen \ {key}
              /\ mem' = mem /\ pc' = pc
    BY <1>10 DEF ScanKey, Scanning
  <2> HIDE DEF at, key
  <2> QED
    BY <1>2, <1>8, <2>1, StoreKeepsRoom
<1>11. CASE DumpKey
  <2>1. PICK k \in unseen : Store(k, run.addr)
    BY <1>11 DEF DumpKey
  <2>2. pc = "scan"
    BY <1>11 DEF DumpKey
  <2> QED
    BY <1>2, <2>1, <2>2, StoreKeepsRoom
<1>12. CASE WriteCell
  <2>1. /\ pc = "write" /\ mem' = [mem EXCEPT ![run.free] = Head(run.pending)]
        /\ run' = [run EXCEPT !.free = run.free + 1, !.pending = Tail(run.pending)]
        /\ pc' = IF Len(run.pending) = 1 THEN "scan" ELSE "write"
        /\ unseen' = unseen
    BY <1>12 DEF WriteCell
  <2>2. /\ Len(run.pending) \in Nat \ {0} /\ Len(Tail(run.pending)) = Len(run.pending) - 1
        /\ Tail(run.pending) \in Seq(Cell)
    BY <1>1, <2>1, EmptySeq, LenProperties, HeadTailProperties DEF Typed
  <2>3. /\ run'.free = run.free + 1 /\ run'.pending = Tail(run.pending) /\ run'.page = run.page
        /\ run'.rotated = run.rotated
    BY <1>1, <2>1 DEF Runs
  <2>4. Start' = Start /\ PageEnd' = PageEnd
    BY <2>3 DEF Start, PageEnd
  <2>5. /\ run.free >= Start /\ run.free + Len(run.pending) <= PageEnd
        /\ \A a \in run.free .. PageEnd - 1 : mem[a] = Free
        /\ run.rotated => run.free + Len(run.pending) <= Start + cells[Keys \ unseen]
    BY <2>1 DEF Room
  <2>6. run.free \in run.free .. PageEnd - 1 /\ mem[run.free] = Free
    BY <1>1, <2>2, <2>5
  <2>7. WrittenOnce
    BY <1>1, <2>1, <2>6 DEF WrittenOnce
  <2>8. /\ run'.free >= Start /\ run'.free + Len(run'.pending) = run.free + Len(run.pending)
        /\ \A a \in run'.free .. PageEnd - 1 : a \in run.free .. PageEnd - 1 /\ a # run.free
    <3>1. run.free \in Nat /\ Start \in Nat /\ PageEnd \in Nat
      BY <1>1
    <3>2. run.free + 1 >= Start
      BY <2>5, <3>1
    <3>3. (run.free + 1) + (Len(run.pending) - 1) = run.free + Len(run.pending)
      BY <2>2, <3>1
    <3>4. \A a \in run.free + 1 .. PageEnd - 1 : a \in run.free .. PageEnd - 1 /\ a # run.free
      BY <3>1
    <3> QED
      BY <2>2, <2>3, <3>2, <3>3, <3>4
  <2>9. \A a \in run'.free .. PageEnd - 1 : mem'[a] = Free
    BY <1>1, <2>1, <2>5, <2>8
  <2>10. pc' = "scan" => run'.pending = <<>>
    <3>1. pc' = "scan" => Len(Tail(run.pending)) = 0
      BY <2>1, <2>2
    <3> QED
      BY <2>2, <2>3, <3>1, EmptySeq
  <2>11. pc' \in {"scan", "write"}
    BY <2>1
  <2> QED
    BY <2>1, <2>3, <2>4, <2>5, <2>7, <2>8, <2>9, <2>10, <2>11 DEF Room
<1>13. CASE Locate
  <2>1. /\ mem' = mem /\ pc' = "clear"
        /\ run' = [NoRun EXCEPT !.page = NextPage(Headers).page, !.rotated = TRUE,
                                !.stamp = NextPage(Headers).stamp]
    BY <1>13 DEF Locate
  <2>2. run'.pending = <<>>
    BY <2>1 DEF NoRun
  <2> QED
    BY <1>2, <2>1, <2>2 DEF Room
<1>14. CASE ClearPage
  <2>1. /\ mem' = [a \in Addresses |-> IF a \div PageCells = run.page THEN Free ELSE mem[a]]
        /\ pc' = "header" /\ run' = run /\ pc = "clear"
    BY <1>1, <1>14 DEF ClearPage
  <2>2. WrittenOnce
    BY <1>1, <2>1 DEF WrittenOnce
  <2>3. ASSUME NEW a \in Start - 1 .. PageEnd - 1
        PROVE  mem'[a] = Free
    <3> DEFINE s == run.page * PageCells
    <3>1. s \in Nat /\ s + PageCells <= MemCells
      BY <1>1, PageOf
    <3>2. \A b \in Addresses : b \in s .. s + PageCells - 1 => b \div PageCells = run.page
      BY <1>1, PageOf
    <3>3. Start - 1 = s /\ PageEnd - 1 = s + PageCells - 1
      <4>1. Start = s + 1
        BY <1>1
      <4>2. PageEnd = Start - 1 + PageCells /\ PageCells \in Nat
        BY Sizes DEF PageEnd
      <4> HIDE DEF s
      <4> QED
        BY <3>1, <4>1, <4>2
    <3> HIDE DEF s
    <3>4. a \in Addresses /\ a \in s .. s + PageCells - 1
      <4>1. a \in s .. s + PageCells - 1
        BY <2>3, <3>3
      <4>2. PageCells \in Nat /\ MemCells \in Nat
        BY Sizes
      <4> QED
        BY <3>1, <4>1, <4>2 DEF Addresses
    <3> QED
      BY <2>1, <3>2, <3>4
  <2>4. Start' = Start /\ PageEnd' = PageEnd
    BY <2>1 DEF Start, PageEnd
  <2> QED
    BY <2>1, <2>2, <2>3, <2>4 DEF Room
<1>15. CASE WriteHeader
  <2>1. /\ pc = "header" /\ mem' = [mem EXCEPT ![run.page * PageCells] = Header(run.stamp)]
        /\ run' = [run EXCEPT !.addr = Start, !.free = Start] /\ pc' = "scan"
        /\ unseen' = unseen
    BY <1>15 DEF WriteHeader
  <2>2. /\ run'.free = Start /\ run'.pending = run.pending /\ run'.page = run.page
        /\ run'.rotated = run.rotated
    BY <1>1, <2>1 DEF Runs
  <2>3. Start' = Start /\ PageEnd' = PageEnd
    BY <2>2 DEF Start, PageEnd
  <2>4. run.pending = <<>> /\ Len(run.pending) = 0 /\ \A a \in Start - 1 .. PageEnd - 1 : mem[a] = Free
    BY <2>1 DEF Room
  <2> DEFINE s == run.page * PageCells
  <2>5. s \in Nat /\ Start = s + 1
    BY <1>1, PageOf
  <2> HIDE DEF s
  <2>6. s \in Start - 1 .. PageEnd - 1 /\ mem[s] = Free
    BY <1>1, <2>4, <2>5
  <2>7. WrittenOnce
    BY <1>1, <2>1, <2>6 DEF WrittenOnce, s
  <2>8. \A a \in Start .. PageEnd - 1 : a \in Start - 1 .. PageEnd - 1 /\ a # s
    BY <1>1, <2>5
  <2>9. \A a \in Start .. PageEnd - 1 : mem'[a] = Free
    BY <1>1, <2>1, <2>4, <2>8 DEF s
  <2>10. cells[Keys \ unseen] \in Nat
    BY <1>1 DEF RoomForAll
  <2>11. Start + 0 <= PageEnd /\ Start + 0 <= Start + cells[Keys \ unseen]
    BY <1>1, <2>10
  <2> QED
    BY <2>1, <2>2, <2>3, <2>4, <2>7, <2>9, <2>11, <1>1 DEF Room
<1>16. CASE UNCHANGED vars
  BY <1>2, <1>16 DEF vars, Room, Start, PageEnd
<1> QED
  BY <1>4, <1>5, <1>6, <1>7, <1>9, <1>10, <1>11, <1>12, <1>13, <1>14, <1>15, <1>16 DEF Next, Update

(* No cell is written that was not free, as flash memory requires,         *)
(* whatever is stored, lost and stored again, if the configuration never   *)
(* needs more than a page.                                                 *)
THEOREM CellsWrittenOnce ==
  ASSUME ConfigurationFits
  PROVE  Spec => WriteOnce
<1>1. PICK cells : RoomForAll(cells)
  BY DEF ConfigurationFits, RoomForAll
<1> DEFINE I == Typed /\ Room(cells)
<1>2. Init => I
  BY TypedInit DEF Init, Room
<1>3. I /\ [Next]_vars => I' /\ WrittenOnce
  BY <1>1, TypedStep, RoomStep
<1>4. I /\ [Next]_vars => [WrittenOnce]_vars
  BY <1>3
<1> HIDE DEF I
<1>5. Spec => [][WrittenOnce]_vars
  BY <1>2, <1>3, <1>4, PTL DEF Spec
<1> QED
  BY <1>5 DEF WriteOnce, WrittenOnce

-----------------------------------------------------------------------------
(* Headers.                                                                *)

(* Round after round the pages get the next header: up to the newest page  *)
(* they have the header of this round, above it that of the round before,  *)
(* or none in the first round.                                             *)
Ring(h, n) ==
  \/ n = Pages /\ \A q \in PageNumbers : h[q] = "none"
  \/ /\ n \in PageNumbers /\ h[n] \in States
     /\ \A q \in PageNumbers : q <= n => h[q] = h[n]
     /\ \/ h[n] = "A" /\ \A q \in PageNumbers : q > n => h[q] = "none"
        \/ \A q \in PageNumbers : q > n => h[q] \in States /\ Following(h[q]) = h[n]

LEMMA FollowingIsAnother ==
  ASSUME NEW s \in States
  PROVE  Following(s) \in States /\ Following(s) # s
BY DEF Following, States

LEMMA NoneIsNoState == "none" \notin States
BY DEF States

(* The header above the newest page is another one.                        *)
LEMMA RingEnds ==
  ASSUME NEW h \in [PageNumbers -> Codes], NEW n \in PageNumbers, Ring(h, n)
  PROVE  /\ n \in Nat /\ n < Pages /\ h[n] \in States /\ h[n] # "none" /\ n # Pages
         /\ \A q \in PageNumbers : q \in Nat /\ q < Pages
         /\ \A q \in PageNumbers : q <= n => h[q] = h[n]
         /\ \A q \in PageNumbers : q > n => h[q] # h[n]
<1>1. Pages \in Nat /\ n \in Nat /\ n < Pages /\ \A q \in PageNumbers : q \in Nat /\ q < Pages
  BY Sizes DEF PageNumbers
<1>2. /\ h[n] \in States /\ \A q \in PageNumbers : q <= n => h[q] = h[n]
      /\ \/ h[n] = "A" /\ \A q \in PageNumbers : q > n => h[q] = "none"
         \/ \A q \in PageNumbers : q > n => h[q] \in States /\ Following(h[q]) = h[n]
  BY <1>1 DEF Ring
<1>3. \A q \in PageNumbers : q > n => h[q] # h[n]
  BY <1>2, FollowingIsAnother, NoneIsNoState
<1> QED
  BY <1>1, <1>2, <1>3, NoneIsNoState

LEMMA RingCurrent ==
  ASSUME NEW h \in [PageNumbers -> Codes], NEW n, Ring(h, n)
  PROVE  CurrentPage(h) = n
<1>1. CASE n = Pages /\ \A q \in PageNumbers : h[q] = "none"
  BY <1>1, CurrentPageIs
<1>2. CASE n \in PageNumbers
  <2>1. /\ n \in Nat /\ h[n] # "none"
        /\ \A q \in PageNumbers : q \in Nat /\ q < Pages
        /\ \A q \in PageNumbers : q <= n => h[q] = h[n]
        /\ \A q \in PageNumbers : q > n => h[q] # h[n]
    BY <1>2, RingEnds
  <2>2. PICK p, f \in PageNumbers :
              /\ CurrentPage(h) = p /\ f <= p
              /\ h[f] # "none" /\ \A q \in PageNumbers : h[q] # "none" => f <= q
              /\ \A q \in f .. p : h[q] = h[f]
              /\ \A q \in PageNumbers : q > p => \E r \in f .. q : h[r] # h[f]
    BY <1>2, <2>1, CurrentPageIs
  <2>3. f <= n /\ h[f] = h[n] /\ p \in Nat /\ f \in Nat
    BY <1>2, <2>1, <2>2
  <2>4. ~(p > n)
    <3>1. p \in f .. p
      BY <2>2, <2>3
    <3> QED
      BY <2>1, <2>2, <2>3, <3>1
  <2>5. ~(n > p)
    <3> SUFFICES ASSUME n > p
                 PROVE  FALSE
      OBVIOUS
    <3>1. PICK r \in f .. n : h[r] # h[f]
      BY <1>2, <2>2
    <3>2. r \in PageNumbers /\ r <= n
      BY <1>2, <2>1, <2>3, Sizes DEF PageNumbers
    <3> QED
      BY <2>1, <2>3, <3>1, <3>2
  <2> QED
    BY <2>1, <2>2, <2>3, <2>4, <2>5
<1> QED
  BY <1>1, <1>2 DEF Ring

(* A rotation takes the page above the newest one, or the first page in a  *)
(* new round.                                                              *)
LEMMA RingNext ==
  ASSUME NEW h \in [PageNumbers -> Codes], NEW n \in PageNumbers, Ring(h, n)
  PROVE  \/ /\ n = Pages - 1 /\ \A q \in PageNumbers : h[q] = h[n]
            /\ NextPage(h) = [page |-> 0, stamp |-> Following(h[n])]
         \/ /\ n + 1 \in PageNumbers
            /\ NextPage(h) = [page |-> n + 1, stamp |-> h[n]]
<1>1. /\ n \in Nat /\ n < Pages /\ h[n] # "none"
      /\ \A q \in PageNumbers : q \in Nat /\ q < Pages
      /\ \A q \in PageNumbers : q <= n => h[q] = h[n]
      /\ \A q \in PageNumbers : q > n => h[q] # h[n]
  BY RingEnds
<1>2. Pages \in Nat /\ 0 \in PageNumbers /\ h[0] = h[n]
      /\ (n + 1 \in PageNumbers \/ n = Pages - 1)
  <2>1. Pages \in Nat /\ 0 \in PageNumbers /\ (n + 1 \in PageNumbers \/ n = Pages - 1)
    BY <1>1, Sizes DEF PageNumbers
  <2> QED
    BY <1>1, <2>1
<1>3. CASE /\ \A q \in PageNumbers : h[q] = h[0] /\ h[q] # "none"
           /\ NextPage(h) = [page |-> 0, stamp |-> Following(h[0])]
  <2>1. n + 1 \notin PageNumbers
    BY <1>1, <1>2, <1>3
  <2> QED
    BY <1>2, <1>3, <2>1
<1>4. CASE \E p \in PageNumbers :
             /\ h[p] = "none" \/ h[p] # h[0]
             /\ \A q \in PageNumbers : q < p => h[q] = h[0] /\ h[q] # "none"
             /\ NextPage(h) = [page |-> p, stamp |-> IF h[p] = "none" THEN "A" ELSE h[0]]
  <2>1. PICK p \in PageNumbers :
             /\ h[p] = "none" \/ h[p] # h[0]
             /\ \A q \in PageNumbers : q < p => h[q] = h[0] /\ h[q] # "none"
             /\ NextPage(h) = [page |-> p, stamp |-> IF h[p] = "none" THEN "A" ELSE h[0]]
    BY <1>4
  <2>2. p > n /\ p \in Nat
    BY <1>1, <1>2, <2>1
  <2>3. n + 1 \in PageNumbers
    BY <1>1, <1>2, <2>1, <2>2
  <2>4. ~(n + 1 < p)
    BY <1>1, <1>2, <2>1, <2>3
  <2>5. p = n + 1
    BY <1>1, <2>2, <2>4
  <2>6. h[p] = "none" => h[n] = "A"
    <3>1. h[p] \notin States => h[n] = "A"
      BY <1>1, <2>1, <2>2 DEF Ring
    <3> QED
      BY <3>1, NoneIsNoState
  <2> QED
    BY <1>2, <2>1, <2>3, <2>5, <2>6
<1> QED
  BY <1>3, <1>4, NextPageIs

LEMMA FirstNext ==
  ASSUME NEW h \in [PageNumbers -> Codes], \A q \in PageNumbers : h[q] = "none"
  PROVE  NextPage(h) = [page |-> 0, stamp |-> "A"] /\ 0 \in PageNumbers
<1>1. 0 \in PageNumbers /\ \A q \in PageNumbers : q \in Nat
  BY Sizes DEF PageNumbers
<1>2. PICK p \in PageNumbers :
        /\ \A q \in PageNumbers : q < p => h[q] = h[0] /\ h[q] # "none"
        /\ NextPage(h) = [page |-> p, stamp |-> IF h[p] = "none" THEN "A" ELSE h[0]]
  BY <1>1, NextPageIs
<1>3. p = 0
  BY <1>1, <1>2
<1> QED
  BY <1>1, <1>2, <1>3

(* Nothing else is taken for the newest page while the next one is cleared *)
(* if there is more than one page.                                         *)
LEMMA ClearedCurrent ==
  ASSUME Pages > 1, NEW h \in [PageNumbers -> Codes], NEW n, Ring(h, n),
         NEW m, m = NextPage(h).page
  PROVE  CurrentPage([h EXCEPT ![m] = "none"]) = n
<1> DEFINE g == [h EXCEPT ![m] = "none"]
<1>1. g \in [PageNumbers -> Codes] /\ m \in PageNumbers
  BY PagesTyped DEF Codes
<1>2. \A q \in PageNumbers : g[q] = IF q = m THEN "none" ELSE h[q]
  OBVIOUS
<1> HIDE DEF g
<1>3. CASE n = Pages /\ \A q \in PageNumbers : h[q] = "none"
  <2>1. \A q \in PageNumbers : g[q] = "none"
    BY <1>2, <1>3
  <2> QED
    BY <1>1, <1>3, <2>1, CurrentPageIs DEF g
<1>4. CASE n \in PageNumbers
  <2>1. /\ n \in Nat /\ n < Pages /\ h[n] # "none" /\ Pages \in Nat
        /\ \A q \in PageNumbers : q \in Nat /\ q < Pages
        /\ \A q \in PageNumbers : q <= n => h[q] = h[n]
        /\ \A q \in PageNumbers : q > n => h[q] # h[n]
    BY <1>4, RingEnds, Sizes
  <2>2. \/ m = 0 /\ n = Pages - 1 /\ \A q \in PageNumbers : h[q] = h[n]
        \/ m = n + 1
    BY <1>4, RingNext
  <2>3. n # m /\ g[n] = h[n]
    BY <1>2, <1>4, <2>1, <2>2
  <2>4. PICK p, f \in PageNumbers :
              /\ CurrentPage(g) = p /\ f <= p
              /\ g[f] # "none" /\ \A q \in PageNumbers : g[q] # "none" => f <= q
              /\ \A q \in f .. p : g[q] = g[f]
              /\ \A q \in PageNumbers : q > p => \E r \in f .. q : g[r] # g[f]
    BY <1>1, <1>4, <2>1, <2>3, CurrentPageIs
  <2>5. f <= n /\ f # m /\ g[f] = h[n] /\ p \in Nat /\ f \in Nat
    BY <1>2, <1>4, <2>1, <2>3, <2>4
  <2>6. ~(p > n)
    <3> SUFFICES ASSUME p > n
                 PROVE  FALSE
      OBVIOUS
    <3>1. m = n + 1
      BY <2>1, <2>2, <2>4
    <3>2. m \in f .. p
      BY <2>1, <2>5, <3>1
    <3> QED
      BY <1>1, <1>2, <2>4, <3>2
  <2>7. ~(n > p)
    <3> SUFFICES ASSUME n > p
                 PROVE  FALSE
      OBVIOUS
    <3>1. PICK r \in f .. n : g[r] # g[f]
      BY <1>4, <2>4
    <3>2. r \in PageNumbers /\ r <= n /\ f <= r
      BY <1>4, <2>1, <2>5 DEF PageNumbers
    <3>3. r # m
      BY <2>1, <2>2, <2>5, <3>2
    <3> QED
      BY <1>2, <2>1, <2>5, <3>1, <3>2, <3>3
  <2> QED
    BY <2>1, <2>4, <2>5, <2>6, <2>7 DEF g
<1> QED
  BY <1>3, <1>4 DEF Ring

(* The header that a rotation writes continues the ring.                   *)
LEMMA RingGrows ==
  ASSUME NEW h \in [PageNumbers -> Codes], NEW n, Ring(h, n),
         NEW m, NEW s, NextPage(h) = [page |-> m, stamp |-> s]
  PROVE  Ring([h EXCEPT ![m] = s], m)
<1> DEFINE g == [h EXCEPT ![m] = s]
<1>1. m \in PageNumbers /\ s \in States
  BY PagesTyped
<1>2. g[m] = s /\ \A q \in PageNumbers : q # m => g[q] = h[q]
  BY <1>1
<1> HIDE DEF g
<1>3. CASE n = Pages /\ \A q \in PageNumbers : h[q] = "none"
  <2>1. m = 0 /\ s = "A" /\ \A q \in PageNumbers : q \in Nat
    <3>1. [page |-> m, stamp |-> s] = [page |-> 0, stamp |-> "A"]
      BY <1>3, FirstNext
    <3>2. \A q \in PageNumbers : q \in Nat
      BY DEF PageNumbers
    <3> QED
      BY <3>1, <3>2
  <2>2. \A q \in PageNumbers : (q <= m => q = m) /\ (q > m => g[q] = "none")
    BY <1>2, <1>3, <2>1
  <2> QED
    BY <1>1, <1>2, <2>1, <2>2 DEF Ring, g
<1>4. CASE n \in PageNumbers
  <2>1. /\ n \in Nat /\ n < Pages /\ h[n] \in States /\ Pages \in Nat
        /\ \A q \in PageNumbers : q \in Nat /\ q < Pages
        /\ \A q \in PageNumbers : q <= n => h[q] = h[n]
    BY <1>4, RingEnds, Sizes
  <2>2. CASE m = 0 /\ s = Following(h[n]) /\ \A q \in PageNumbers : h[q] = h[n]
    <3>1. \A q \in PageNumbers : (q <= m => q = m) /\ (q > m => q # m)
      BY <2>1, <2>2
    <3>2. \A q \in PageNumbers : q > m => g[q] \in States /\ Following(g[q]) = g[m]
      BY <1>2, <2>1, <2>2, <3>1
    <3> QED
      BY <1>1, <1>2, <3>1, <3>2 DEF Ring, g
  <2>3. CASE m = n + 1 /\ s = h[n]
    <3>1. \A q \in PageNumbers : q <= m => q = m \/ q <= n
      BY <2>1, <2>3
    <3>2. \A q \in PageNumbers : q <= m => g[q] = g[m]
      BY <1>2, <2>1, <2>3, <3>1
    <3>3. \A q \in PageNumbers : q > m => q > n /\ g[q] = h[q]
      BY <1>2, <2>1, <2>3
    <3>4. \/ h[n] = "A" /\ \A q \in PageNumbers : q > n => h[q] = "none"
          \/ \A q \in PageNumbers : q > n => h[q] \in States /\ Following(h[q]) = h[n]
      BY <1>4, <2>1 DEF Ring
    <3>5. \/ g[m] = "A" /\ \A q \in PageNumbers : q > m => g[q] = "none"
          \/ \A q \in PageNumbers : q > m => g[q] \in States /\ Following(g[q]) = g[m]
      BY <1>2, <2>3, <3>3, <3>4
    <3> QED
      BY <1>1, <1>2, <3>2, <3>5 DEF Ring, g
  <2> QED
    BY <1>4, <2>2, <2>3, RingNext
<1> QED
  BY <1>3, <1>4 DEF Ring

(* The page that was chosen for the rotation.                              *)
Chosen(h) == NextPage(h) = [page |-> run.page, stamp |-> run.stamp]

(* The headers form a ring, but for that of the page being rewritten.      *)
InRing ==
  /\ pc # "header" => Ring(Headers, newest)
  /\ pc = "clear" => Chosen(Headers)
  /\ pc = "header" =>
       \E h \in [PageNumbers -> Codes] :
         Ring(h, newest) /\ Chosen(h) /\ Headers = [h EXCEPT ![run.page] = "none"]

(* The header in the value of a cell.                                      *)
CodeOf(x) ==
  LET matching == {s \in States : x % 65536 = HeaderBits[s]}
  IN IF matching = {} THEN "none" ELSE CHOOSE s \in matching : TRUE

LEMMA CodesOfValues == CodeOf(Free.val) = "none" /\ \A s \in States : CodeOf(Header(s).val) = s
<1>1. /\ HeaderBits["A"] = 48960 /\ HeaderBits["B"] = 32640 /\ HeaderBits["C"] = 16320
      /\ States = {"A", "B", "C"}
  BY DEF HeaderBits, States
<1>2. Free.val = 0 /\ \A s \in States : Header(s).val = HeaderBits[s]
  BY DEF Free, Header
<1>3. {s \in States : 0 % 65536 = HeaderBits[s]} = {}
  BY <1>1
<1>4. ASSUME NEW s \in States
      PROVE  {t \in States : HeaderBits[s] % 65536 = HeaderBits[t]} = {s}
  BY <1>1
<1>5. ASSUME NEW s \in States
      PROVE  CodeOf(HeaderBits[s]) = s
  <2> DEFINE matching == {t \in States : HeaderBits[s] % 65536 = HeaderBits[t]}
  <2>1. matching = {s}
    BY <1>4
  <2>2. CodeOf(HeaderBits[s]) = IF matching = {} THEN "none" ELSE CHOOSE t \in matching : TRUE
    BY DEF CodeOf
  <2> HIDE DEF matching
  <2> QED
    BY <2>1, <2>2
<1> QED
  BY <1>2, <1>3, <1>5 DEF CodeOf

(* Headers are read from the first cells of the pages.                     *)
LEMMA HeadersRead ==
  /\ Headers = [p \in PageNumbers |-> CodeOf(mem[p * PageCells].val)]
  /\ Headers' = [p \in PageNumbers |-> CodeOf(mem'[p * PageCells].val)]
BY DEF Headers, HeaderOf, CodeOf, PageNumbers

(* The first cells of pages.                                               *)
LEMMA FirstCells ==
  ASSUME NEW p \in PageNumbers, NEW q \in PageNumbers
  PROVE  /\ p * PageCells \in Addresses /\ (p * PageCells) \div PageCells = p
         /\ p * PageCells = q * PageCells => p = q
<1> DEFINE s == p * PageCells
           t == q * PageCells
<1>1. s \in Nat /\ t \in Nat /\ 0 \in 0 .. PageCells - 1
  BY PageOf, Sizes
<1>2. /\ \A r \in 0 .. PageCells - 1 : s + r \in Addresses /\ (s + r) \div PageCells = p
      /\ \A r \in 0 .. PageCells - 1 : t + r \in Addresses /\ (t + r) \div PageCells = q
  BY PageOf
<1> HIDE DEF s, t
<1>3. s + 0 = s /\ t + 0 = t
  BY <1>1
<1>4. s \in Addresses /\ s \div PageCells = p /\ t \div PageCells = q
  BY <1>1, <1>2, <1>3
<1> QED
  BY <1>4 DEF s, t

LEMMA SameHeaders ==
  ASSUME \A p \in PageNumbers : mem'[p * PageCells] = mem[p * PageCells]
  PROVE  Headers' = Headers
BY HeadersRead

LEMMA RingStep ==
  ASSUME Typed, NEW cells, RoomForAll(cells), Room(cells), InRing,
         "header" \notin CrashAt \cup FailAt, [Next]_vars
  PROVE  InRing'
<1>1. /\ run \in Runs /\ run.page \in PageNumbers /\ run.stamp \in States
      /\ mem \in [Addresses -> Cell] /\ Headers \in [PageNumbers -> Codes]
  BY Bounds, HeadersTyped DEF Typed
<1>2. ASSUME mem' = mem, newest' = newest, pc # "header", pc' \notin {"clear", "header"}
      PROVE  InRing'
  BY <1>2, SameHeaders DEF InRing
<1>3. ASSUME NEW k \in Keys, Change(k)
      PROVE  InRing'
  BY <1>2, <1>3 DEF Change
<1>4. CASE Crash
  BY <1>2, <1>4 DEF Crash
<1>5. CASE StartUpdate
  <2>1. mem' = mem /\ newest' = newest /\ pc = "idle" /\ pc' \in {"locate", "scan"}
    BY <1>5 DEF StartUpdate
  <2> QED
    BY <1>2, <2>1
<1>6. ASSUME ScanGarbage \/ DumpDone \/ Fail
      PROVE  InRing'
  BY <1>2, <1>6 DEF ScanGarbage, DumpDone, Fail, Return, Scanning
<1>7. CASE ScanSeen
  BY <1>2, <1>7 DEF ScanSeen, Scanning
<1>8. ASSUME NEW k \in unseen, NEW addr, pc = "scan", Store(k, addr)
      PROVE  InRing'
  <2>1. mem' = mem /\ newest' = newest /\ pc' \in {"idle", "locate", "write"}
    BY <1>8, StoreIs DEF Return
  <2> QED
    BY <1>2, <1>8, <2>1
<1>9. CASE ScanKey
  <2> DEFINE at == run.addr - 1
             key == mem[at].key
  <2>1. /\ pc = "scan" /\ key \in unseen
        /\ \/ Store(key, Below(mem, Start, at))
           \/ mem' = mem /\ pc' = pc /\ newest' = newest
    BY <1>9 DEF ScanKey, Scanning
  <2> HIDE DEF at, key
  <2> QED
    BY <1>2, <1>8, <2>1
<1>10. CASE DumpKey
  BY <1>8, <1>10 DEF DumpKey
<1>11. CASE WriteCell
  <2>1. /\ pc = "write" /\ mem' = [mem EXCEPT ![run.free] = Head(run.pending)]
        /\ newest' = newest /\ pc' \in {"scan", "write"}
    BY <1>11 DEF WriteCell
  <2>2. run.free \in Start .. PageEnd - 1
    <3>1. run.free >= Start /\ run.free + Len(run.pending) <= PageEnd
      BY <2>1 DEF Room
    <3>2. Len(run.pending) \in Nat \ {0} /\ run.free \in Nat /\ Start \in Nat
      BY <2>1, Bounds, EmptySeq, LenProperties DEF Typed
    <3>3. PageEnd = Start - 1 + PageCells /\ PageCells \in Nat
      BY Sizes DEF PageEnd
    <3> QED
      BY <3>1, <3>2, <3>3
  <2>3. ASSUME NEW p \in PageNumbers
        PROVE  mem'[p * PageCells] = mem[p * PageCells]
    <3> DEFINE s == run.page * PageCells
               t == p * PageCells
    <3>1. /\ t \in Addresses /\ t \div PageCells = p /\ s \in Nat /\ t \in Nat
          /\ (s = t \/ p # run.page)
      BY <1>1, FirstCells, PageOf
    <3>2. run.free \in s + 1 .. s + PageCells - 1
      <4>1. /\ s \in Nat /\ PageCells \in Nat
            /\ run.free \in s + 1 .. PageEnd - 1 /\ PageEnd = s + PageCells
        <5>1. Start = s + 1
          BY Bounds
        <5> HIDE DEF s
        <5>2. PageEnd = s + PageCells
          BY <3>1, <5>1, Sizes DEF PageEnd
        <5> QED
          BY <2>2, <3>1, <5>1, <5>2, Sizes
      <4> HIDE DEF s, t
      <4> QED
        BY <4>1
    <3>3. \A a \in Addresses : a \in s .. s + PageCells - 1 => a \div PageCells = run.page
      BY <1>1, PageOf
    <3> HIDE DEF s, t
    <3>4. t # run.free
      <4>1. SUFFICES ASSUME t = run.free
                     PROVE  FALSE
        OBVIOUS
      <4>2. t \in s .. s + PageCells - 1 /\ t # s
        BY <3>1, <3>2, <4>1, Sizes
      <4> QED
        BY <3>1, <3>3, <4>2
    <3> QED
      BY <1>1, <2>1, <3>1, <3>4 DEF t
  <2>4. Headers' = Headers
    BY <2>3, SameHeaders
  <2> QED
    BY <2>1, <2>4 DEF InRing
<1>12. CASE Locate
  <2> DEFINE next == NextPage(Headers)
  <2>1. /\ run' = [NoRun EXCEPT !.page = next.page, !.rotated = TRUE, !.stamp = next.stamp]
        /\ pc = "locate" /\ pc' = "clear" /\ mem' = mem /\ newest' = newest
    BY <1>12 DEF Locate
  <2>2. Headers' = Headers
    BY <2>1, SameHeaders
  <2>3. next = [page |-> next.page, stamp |-> next.stamp]
    BY <1>1, NextPageIs
  <2> HIDE DEF next
  <2>4. run'.page = next.page /\ run'.stamp = next.stamp
    BY <2>1 DEF NoRun
  <2>5. Chosen(Headers)'
    BY <2>2, <2>3, <2>4 DEF Chosen, next
  <2> QED
    BY <2>1, <2>2, <2>5 DEF InRing
<1>13. CASE ClearPage
  <2>1. /\ mem' = [a \in Addresses |-> IF a \div PageCells = run.page THEN Free ELSE mem[a]]
        /\ pc = "clear" /\ pc' = "header" /\ run' = run /\ newest' = newest
    BY <1>1, <1>13 DEF ClearPage
  <2>2. \A p \in PageNumbers : mem'[p * PageCells] = IF p = run.page THEN Free ELSE mem[p * PageCells]
    BY <2>1, FirstCells
  <2>3. Headers' = [Headers EXCEPT ![run.page] = "none"]
    BY <1>1, <2>2, HeadersRead, CodesOfValues
  <2>4. Ring(Headers, newest) /\ Chosen(Headers)
    BY <2>1 DEF InRing
  <2> DEFINE h == Headers
  <2>5. h \in [PageNumbers -> Codes] /\ Ring(h, newest) /\ Headers' = [h EXCEPT ![run.page] = "none"]
        /\ NextPage(h) = [page |-> run.page, stamp |-> run.stamp]
    BY <1>1, <2>3, <2>4 DEF Chosen
  <2> HIDE DEF h
  <2>6. \E g \in [PageNumbers -> Codes] :
          /\ Ring(g, newest') /\ NextPage(g) = [page |-> run'.page, stamp |-> run'.stamp]
          /\ Headers' = [g EXCEPT ![run'.page] = "none"]
    BY <2>1, <2>5
  <2> QED
    BY <2>1, <2>6 DEF InRing, Chosen
<1>14. CASE WriteHeader
  <2>1. /\ pc = "header" /\ mem' = [mem EXCEPT ![run.page * PageCells] = Header(run.stamp)]
        /\ pc' = "scan" /\ newest' = run.page
    BY <1>14 DEF WriteHeader
  <2>2. PICK h \in [PageNumbers -> Codes] :
          Ring(h, newest) /\ Chosen(h) /\ Headers = [h EXCEPT ![run.page] = "none"]
    BY <2>1 DEF InRing
  <2>3. \A p \in PageNumbers : mem'[p * PageCells] =
          IF p = run.page THEN Header(run.stamp) ELSE mem[p * PageCells]
    BY <1>1, <2>1, FirstCells
  <2>4. Headers' = [Headers EXCEPT ![run.page] = run.stamp]
    BY <1>1, <2>3, HeadersRead, CodesOfValues
  <2>5. Headers' = [h EXCEPT ![run.page] = run.stamp]
    BY <1>1, <2>2, <2>4
  <2>6. Ring([h EXCEPT ![run.page] = run.stamp], run.page)
    BY <2>2, RingGrows DEF Chosen
  <2> QED
    BY <2>1, <2>5, <2>6 DEF InRing
<1>15. CASE UNCHANGED vars
  BY <1>15, SameHeaders DEF vars, InRing, Chosen
<1> QED
  BY <1>3, <1>4, <1>5, <1>6, <1>7, <1>9, <1>10, <1>11, <1>12, <1>13, <1>14, <1>15 DEF Next, Update

(* The page headers tell which page was started last, also while the next  *)
(* one is cleared and wherever power is lost or a step fails, except       *)
(* between clearing a page and writing its header.                         *)
THEOREM NewestIsFound ==
  ASSUME ConfigurationFits, Pages > 1, "header" \notin CrashAt \cup FailAt
  PROVE  Spec => []CurrentIsNewest
<1>1. PICK cells : RoomForAll(cells)
  BY DEF ConfigurationFits, RoomForAll
<1> DEFINE I == Typed /\ Room(cells) /\ InRing
<1>2. Init => I
  <2> SUFFICES ASSUME Init
               PROVE  I
    OBVIOUS
  <2>1. Typed /\ Room(cells)
    BY TypedInit DEF Init, Room
  <2>2. \A p \in PageNumbers : mem[p * PageCells] = Free
    BY FirstCells DEF Init, Addresses
  <2>3. \A p \in PageNumbers : Headers[p] = "none"
    BY <2>2, HeadersRead, CodesOfValues
  <2>4. InRing
    BY <2>3 DEF Init, InRing, Ring
  <2> QED
    BY <2>1, <2>4
<1>3. I /\ [Next]_vars => I'
  BY <1>1, TypedStep, RoomStep, RingStep
<1>4. I => CurrentIsNewest
  <2> SUFFICES ASSUME I
               PROVE  CurrentIsNewest
    OBVIOUS
  <2>1. CASE pc # "header"
    BY <2>1, HeadersTyped, RingCurrent DEF InRing, CurrentIsNewest
  <2>2. CASE pc = "header"
    <3>1. PICK h \in [PageNumbers -> Codes] :
            Ring(h, newest) /\ Chosen(h) /\ Headers = [h EXCEPT ![run.page] = "none"]
      BY <2>2 DEF InRing
    <3>2. run.page = NextPage(h).page
      BY <3>1 DEF Chosen
    <3> QED
      BY <3>1, <3>2, ClearedCurrent DEF CurrentIsNewest
  <2> QED
    BY <2>1, <2>2
<1> HIDE DEF I
<1> QED
  BY <1>2, <1>3, <1>4, PTL DEF Spec

-----------------------------------------------------------------------------
(* What a load reads.                                                      *)

Memories == [Addresses -> Cell]

(* One step of the recursion of Load, below addr, by a function f.         *)
LoadStep(m, start, f, addr) ==
  [wanted \in SUBSET Keys |->
     LET at == addr - 1
         key == m[at].key
     IN IF addr <= start THEN NoConfig
        ELSE IF ~Parses(m[at]) THEN f[at][wanted]
        ELSE IF key \notin wanted THEN f[Skip(m, at)][wanted]
        ELSE IF Manifest(m, start, at) = Unreadable THEN NoConfig
        ELSE [f[Below(m, start, at)][wanted \ {key}]
                EXCEPT ![key] = Manifest(m, start, at)]]

(* A number with a property: there is a least one.                         *)
LEMMA LeastExists ==
  ASSUME NEW S \in SUBSET Nat, S # {}
  PROVE  \E i \in S : \A j \in S : i <= j
BY LeastIsMin

(* A scan goes down.                                                       *)
LEMMA ScanGoesDown ==
  ASSUME NEW m \in Memories, NEW start \in Nat \ {0}, NEW addr \in 0 .. MemCells, addr > start
  PROVE  /\ addr - 1 \in Addresses /\ addr - 1 \in 0 .. addr - 1 /\ m[addr - 1] \in Cell
         /\ Skip(m, addr - 1) \in 0 .. addr - 1 /\ Below(m, start, addr - 1) \in 0 .. addr - 1
<1> DEFINE at == addr - 1
           v == m[at].val
<1>1. addr \in Nat /\ MemCells \in Nat /\ BufferCells \in Nat
  BY Sizes, MemoryAssumption
<1>2. at \in Addresses /\ at \in Nat /\ at >= start /\ at \in 0 .. addr - 1
  BY <1>1 DEF Addresses
<1>3. m[at] \in Cell
  BY <1>2 DEF Memories
<1>4. v \in Nat
  BY <1>3 DEF Cell
<1> HIDE DEF v
<1>5. Decr(at, v) \in 0 .. at
  BY <1>2, <1>4 DEF Decr
<1>6. Skip(m, at) = IF m[at].seq THEN Decr(at, v) ELSE at
  BY DEF Skip, v
<1>7. Below(m, start, at) = IF ~m[at].seq THEN at
                            ELSE IF v > BufferCells THEN at - 1
                            ELSE IF at - v < start THEN start - 1 ELSE at - v
  BY DEF Below, v
<1> HIDE DEF at
<1>8. Skip(m, at) \in 0 .. at /\ Below(m, start, at) \in 0 .. at
  BY <1>1, <1>2, <1>4, <1>5, <1>6, <1>7
<1> QED
  BY <1>2, <1>3, <1>8 DEF at

LEMMA LoadDependsOnLess ==
  ASSUME NEW m \in Memories, NEW start \in Nat \ {0}, NEW addr \in 0 .. MemCells,
         NEW f, NEW g, \A b \in 0 .. addr - 1 : f[b] = g[b]
  PROVE  LoadStep(m, start, f, addr) = LoadStep(m, start, g, addr)
<1>1. CASE addr <= start
  BY <1>1 DEF LoadStep
<1>2. CASE ~(addr <= start)
  <2> DEFINE at == addr - 1
  <2>1. addr > start
    BY <1>2
  <2>2. f[at] = g[at] /\ f[Skip(m, at)] = g[Skip(m, at)] /\ f[Below(m, start, at)] = g[Below(m, start, at)]
    BY <2>1, ScanGoesDown
  <2> QED
    BY <2>2, Zenon DEF LoadStep
<1> QED
  BY <1>1, <1>2

(* The function that Load chooses exists: it is built upwards.             *)
LEMMA LoadExists ==
  ASSUME NEW m \in Memories, NEW start \in Nat \ {0}
  PROVE  \A k \in 0 .. MemCells : \E f : f = [n \in 0 .. k |-> LoadStep(m, start, f, n)]
<1> DEFINE Bad == {k \in 0 .. MemCells : ~\E f : f = [n \in 0 .. k |-> LoadStep(m, start, f, n)]}
<1>0. MemCells \in Nat
  BY Sizes
<1>1. SUFFICES ASSUME Bad # {} PROVE FALSE
  OBVIOUS
<1>2. Bad \in SUBSET Nat
  BY <1>0
<1>3. PICK k \in Bad : \A j \in Bad : k <= j
  <2> HIDE DEF Bad
  <2> QED
    BY <1>1, <1>2, LeastExists
<1>4. k \in 0 .. MemCells /\ ~\E f : f = [n \in 0 .. k |-> LoadStep(m, start, f, n)]
  BY <1>3
<1>5. CASE k = 0
  <2> DEFINE f == [n \in 0 .. 0 |-> [wanted \in SUBSET Keys |-> NoConfig]]
  <2>1. \A n \in 0 .. 0 : LoadStep(m, start, f, n) = [wanted \in SUBSET Keys |-> NoConfig]
    BY DEF LoadStep
  <2>2. f = [n \in 0 .. 0 |-> LoadStep(m, start, f, n)]
    BY <2>1
  <2> QED
    BY <1>4, <1>5, <2>2
<1>6. CASE k # 0
  <2>1. k - 1 \in 0 .. MemCells /\ k - 1 \in Nat /\ ~(k <= k - 1)
    BY <1>0, <1>4, <1>6
  <2>2. k - 1 \notin Bad
    <3> HIDE DEF Bad
    <3> QED
      BY <1>3, <2>1
  <2>3. PICK f : f = [n \in 0 .. k - 1 |-> LoadStep(m, start, f, n)]
    BY <2>1, <2>2
  <2> DEFINE g == [n \in 0 .. k |-> IF n = k THEN LoadStep(m, start, f, k) ELSE f[n]]
  <2>4. \A n \in 0 .. k - 1 : g[n] = f[n]
    BY <1>0, <1>4
  <2>5. g[k] = LoadStep(m, start, f, k)
    BY <1>0, <1>4
  <2>6. DOMAIN g = 0 .. k /\ g = [n \in DOMAIN g |-> g[n]]
    OBVIOUS
  <2> HIDE DEF g
  <2>7. ASSUME NEW n \in 0 .. k
        PROVE  g[n] = LoadStep(m, start, g, n)
    <3>1. n \in 0 .. MemCells /\ \A b \in 0 .. n - 1 : b \in 0 .. k - 1
      BY <1>0, <1>4
    <3>2. \A b \in 0 .. n - 1 : g[b] = f[b]
      BY <2>4, <3>1
    <3>3. LoadStep(m, start, g, n) = LoadStep(m, start, f, n)
      BY <3>1, <3>2, LoadDependsOnLess
    <3>4. CASE n = k
      BY <2>5, <3>3, <3>4
    <3>5. CASE n # k
      <4>1. n \in 0 .. k - 1
        BY <1>0, <1>4, <3>5
      <4>2. f[n] = LoadStep(m, start, f, n)
        BY <2>3, <4>1, Zenon
      <4> QED
        BY <2>4, <3>3, <4>1, <4>2
    <3> QED
      BY <3>4, <3>5
  <2>8. g = [n \in 0 .. k |-> LoadStep(m, start, g, n)]
    BY <2>6, <2>7, Zenon
  <2> QED
    BY <1>4, <2>8
<1> QED
  BY <1>5, <1>6

LEMMA LoadIs ==
  ASSUME NEW m \in Memories, NEW start \in Nat \ {0}, NEW addr \in 0 .. MemCells
  PROVE  Load(m, start)[addr] = LoadStep(m, start, Load(m, start), addr)
<1> DEFINE R(f) == f = [n \in 0 .. MemCells |-> LoadStep(m, start, f, n)]
<1>1. MemCells \in 0 .. MemCells
  BY Sizes
<1>2. \E f : R(f)
  BY <1>1, LoadExists
<1>3. Load(m, start) = CHOOSE f : R(f)
  BY DEF Load, LoadStep
<1>4. R(Load(m, start))
  <2> HIDE DEF R
  <2> QED
    BY <1>2, <1>3
<1> QED
  BY <1>4, Zenon

-----------------------------------------------------------------------------
(* Pages that can be read.                                                 *)

(* Below the cell in front of c, and below its data, a scan goes on at     *)
(* Reach(m, c); Content(m, c) is the value it finds.                       *)
Reach(m, c) == IF m[c - 1].seq THEN c - 1 - m[c - 1].val ELSE c - 1

Content(m, c) ==
  IF m[c - 1].seq THEN Wide([i \in 1 .. m[c - 1].val |-> m[c - 1 - m[c - 1].val + i - 1]])
                  ELSE Narrow(m[c - 1].val)

(* From any address of D down to start, a scan of the memory m finds       *)
(* nothing it cannot read, and comes to addresses of D only.               *)
Readable(m, start, e, D) ==
  /\ m \in Memories /\ start \in Nat \ {0} /\ e \in 0 .. MemCells
  /\ D \subseteq start .. e /\ start \in D
  /\ \A c \in D \ {start} : Reach(m, c) \in D /\ (m[c - 1].seq => m[c - 1].val <= BufferCells)

(* What is loaded from the page below an address.                          *)
Latest(m, start, c) == Load(m, start)[c][Keys]

LEMMA ReachIsBelow ==
  ASSUME NEW m, NEW start, NEW e, NEW D, Readable(m, start, e, D), NEW c \in D, c # start
  PROVE  /\ c \in 0 .. MemCells /\ c > start /\ c - 1 \in Addresses /\ m[c - 1] \in Cell
         /\ Reach(m, c) \in D /\ Reach(m, c) \in start .. c - 1
         /\ m[c - 1].seq => m[c - 1].val <= BufferCells
<1>0. m \in Memories /\ start \in Nat \ {0} /\ e \in 0 .. MemCells /\ D \subseteq start .. e
  BY DEF Readable
<1>1. MemCells \in Nat /\ c \in start .. e /\ c \in Nat /\ c > start
  BY <1>0, Sizes
<1>2. c \in 0 .. MemCells
  BY <1>0, <1>1
<1>3. c - 1 \in Addresses /\ m[c - 1] \in Cell
  BY <1>0, <1>1, <1>2, ScanGoesDown
<1>4. Reach(m, c) \in D /\ (m[c - 1].seq => m[c - 1].val <= BufferCells)
  BY <1>1 DEF Readable
<1>5. Reach(m, c) <= c - 1 /\ Reach(m, c) \in start .. e
  <2>1. m[c - 1].val \in Nat
    BY <1>3 DEF Cell
  <2> QED
    BY <1>0, <1>1, <1>4, <2>1 DEF Reach
<1> QED
  BY <1>0, <1>1, <1>2, <1>3, <1>4, <1>5

(* What the scans find in front of an address of such a page.              *)
LEMMA CellRead ==
  ASSUME NEW m, NEW start, NEW e, NEW D, Readable(m, start, e, D), NEW c \in D, c # start
  PROVE  /\ ~Parses(m[c - 1]) => Reach(m, c) = c - 1
         /\ Parses(m[c - 1]) => /\ Skip(m, c - 1) = Reach(m, c) /\ Below(m, start, c - 1) = Reach(m, c)
                               /\ Manifest(m, start, c - 1) = Content(m, c)
                               /\ Manifest(m, start, c - 1) # Unreadable
<1> DEFINE at == c - 1
           x == m[at]
<1>0. start \in Nat \ {0} /\ BufferCells \in Nat
  BY MemoryAssumption DEF Readable
<1>1. /\ c \in 0 .. MemCells /\ c > start /\ x \in Cell /\ Reach(m, c) \in start .. at
      /\ x.seq => x.val <= BufferCells
  BY ReachIsBelow
<1>2. x.val \in Nat /\ x.seq \in BOOLEAN /\ at \in Nat /\ MemCells \in Nat
  BY <1>0, <1>1, Sizes DEF Cell
<1>3. ~Parses(x) => Reach(m, c) = at
  BY <1>2 DEF Parses, Reach
<1>4. Parses(x) => Skip(m, at) = Reach(m, c)
  <2>1. CASE ~x.seq
    BY <2>1 DEF Skip, Reach
  <2>2. CASE x.seq
    <3>1. Reach(m, c) = at - x.val /\ Skip(m, at) = Decr(at, x.val)
      BY <2>2 DEF Skip, Reach
    <3>2. ~(x.val > at)
      BY <1>0, <1>1, <1>2, <3>1
    <3> QED
      BY <3>1, <3>2 DEF Decr
  <2> QED
    BY <2>1, <2>2
<1>5. Parses(x) => /\ Below(m, start, at) = Reach(m, c) /\ Manifest(m, start, at) = Content(m, c)
                   /\ Manifest(m, start, at) # Unreadable
  <2>1. CASE ~x.seq
    <3>1. Below(m, start, at) = Reach(m, c) /\ Manifest(m, start, at) = Narrow(x.val)
          /\ Content(m, c) = Narrow(x.val)
      BY <2>1 DEF Below, Reach, Manifest, Content
    <3>2. Narrow(x.val) # Unreadable
      <4>1. Narrow(x.val).wide = FALSE /\ Unreadable.wide = TRUE
        BY DEF Narrow, Wide, Unreadable
      <4> QED
        BY <4>1
    <3> QED
      BY <3>1, <3>2
  <2>2. CASE x.seq /\ Parses(x)
    <3>1. x.val # 0 /\ ~(x.val > BufferCells) /\ ~(at - x.val < start) /\ Reach(m, c) = at - x.val
      BY <1>0, <1>1, <1>2, <2>2 DEF Parses, Reach
    <3> DEFINE data == [i \in 1 .. x.val |-> m[at - x.val + i - 1]]
    <3>2. /\ Below(m, start, at) = Reach(m, c)
          /\ Manifest(m, start, at) = Wide(data) /\ Content(m, c) = Wide(data)
      BY <2>2, <3>1 DEF Below, Manifest, Content
    <3>3. data # <<>>
      <4>1. 1 \in DOMAIN data /\ DOMAIN <<>> = {}
        BY <1>2, <3>1
      <4> QED
        BY <4>1
    <3> HIDE DEF data
    <3>4. Wide(data) # Unreadable
      <4>1. Wide(data).cells = data /\ Unreadable.cells = <<>>
        BY DEF Wide, Unreadable
      <4> QED
        BY <3>3, <4>1
    <3> QED
      BY <3>2, <3>4
  <2> QED
    BY <1>2, <2>1, <2>2
<1> QED
  BY <1>3, <1>4, <1>5

(* One step of the recursion on such a page.                               *)
LEMMA LoadAt ==
  ASSUME NEW m, NEW start, NEW e, NEW D, Readable(m, start, e, D), NEW c \in D
  PROVE  \A W \in SUBSET Keys :
           Load(m, start)[c][W] =
             IF c = start THEN NoConfig
             ELSE IF ~Parses(m[c - 1]) \/ m[c - 1].key \notin W
             THEN Load(m, start)[Reach(m, c)][W]
             ELSE [Load(m, start)[Reach(m, c)][W \ {m[c - 1].key}]
                     EXCEPT ![m[c - 1].key] = Content(m, c)]
<1> DEFINE f == Load(m, start)
           at == c - 1
           x == m[at]
           r == Reach(m, c)
<1> SUFFICES ASSUME NEW W \in SUBSET Keys
             PROVE  f[c][W] = IF c = start THEN NoConfig
                              ELSE IF ~Parses(x) \/ x.key \notin W THEN f[r][W]
                              ELSE [f[r][W \ {x.key}] EXCEPT ![x.key] = Content(m, c)]
  OBVIOUS
<1>0. m \in Memories /\ start \in Nat \ {0} /\ e \in 0 .. MemCells /\ D \subseteq start .. e
  BY DEF Readable
<1>1. c \in 0 .. MemCells /\ c \in Nat /\ c >= start
  BY <1>0, Sizes
<1>2. f[c] = LoadStep(m, start, f, c)
  BY <1>0, <1>1, LoadIs
<1> HIDE DEF f
<1>3. f[c][W] = IF c <= start THEN NoConfig
                ELSE IF ~Parses(x) THEN f[at][W]
                ELSE IF x.key \notin W THEN f[Skip(m, at)][W]
                ELSE IF Manifest(m, start, at) = Unreadable THEN NoConfig
                ELSE [f[Below(m, start, at)][W \ {x.key}] EXCEPT ![x.key] = Manifest(m, start, at)]
  BY <1>2 DEF LoadStep
<1>4. CASE c = start
  BY <1>0, <1>1, <1>3, <1>4
<1>5. CASE c # start
  <2>1. /\ ~Parses(x) => r = at
        /\ Parses(x) => /\ Skip(m, at) = r /\ Below(m, start, at) = r
                        /\ Manifest(m, start, at) = Content(m, c)
                        /\ Manifest(m, start, at) # Unreadable
    BY <1>5, CellRead
  <2>2. ~(c <= start)
    BY <1>0, <1>1, <1>5
  <2> HIDE DEF x, at, r
  <2>3. CASE ~Parses(x)
    BY <1>3, <1>5, <2>1, <2>2, <2>3
  <2>4. CASE Parses(x) /\ x.key \notin W
    BY <1>3, <1>5, <2>1, <2>2, <2>4
  <2>5. CASE Parses(x) /\ x.key \in W
    <3>1. f[c][W] = [f[Below(m, start, at)][W \ {x.key}] EXCEPT ![x.key] = Manifest(m, start, at)]
      BY <1>3, <2>1, <2>2, <2>5
    <3>2. f[c][W] = [f[r][W \ {x.key}] EXCEPT ![x.key] = Content(m, c)]
      BY <2>1, <2>5, <3>1, Zenon
    <3> QED
      BY <1>5, <2>5, <3>2
  <2> QED
    BY <2>3, <2>4, <2>5
<1> QED
  BY <1>4, <1>5

(* Which keys are wanted makes no difference to what is found for them.    *)
LEMMA WantedAlike ==
  ASSUME NEW m, NEW start, NEW e, NEW D, Readable(m, start, e, D), NEW c \in D
  PROVE  \A W \in SUBSET Keys :
           Load(m, start)[c][W] = [k \in Keys |-> IF k \in W THEN Latest(m, start, c)[k] ELSE NoValue]
<1> DEFINE f == Load(m, start)
           Alike(a) == \A W \in SUBSET Keys :
                         f[a][W] = [k \in Keys |-> IF k \in W THEN f[a][Keys][k] ELSE NoValue]
           Bad == {a \in D : ~Alike(a)}
<1>0. \A a \in D : \A W \in SUBSET Keys :
         f[a][W] = IF a = start THEN NoConfig
                   ELSE IF ~Parses(m[a - 1]) \/ m[a - 1].key \notin W THEN f[Reach(m, a)][W]
                   ELSE [f[Reach(m, a)][W \ {m[a - 1].key}] EXCEPT ![m[a - 1].key] = Content(m, a)]
  <2>1. ASSUME NEW a \in D
        PROVE  \A W \in SUBSET Keys :
                 f[a][W] = IF a = start THEN NoConfig
                           ELSE IF ~Parses(m[a - 1]) \/ m[a - 1].key \notin W
                           THEN f[Reach(m, a)][W]
                           ELSE [f[Reach(m, a)][W \ {m[a - 1].key}]
                                   EXCEPT ![m[a - 1].key] = Content(m, a)]
    BY LoadAt, Zenon
  <2> QED
    BY <2>1, Zenon
<1>1. SUFFICES ASSUME Bad # {}
               PROVE  FALSE
  BY DEF Latest
<1>2. Bad \in SUBSET Nat
  <2> HIDE DEF Alike
  <2>1. \A a \in D : a \in Nat
    BY DEF Readable
  <2> QED
    BY <2>1
<1>3. PICK a \in Bad : \A b \in Bad : a <= b
  <2> HIDE DEF Bad
  <2> QED
    BY <1>1, <1>2, LeastExists
<1>4. a \in D /\ ~Alike(a)
  BY <1>3
<1> DEFINE r == Reach(m, a)
           key == m[a - 1].key
<1>5. ASSUME NEW W \in SUBSET Keys
      PROVE  f[a][W] = IF a = start THEN NoConfig
                       ELSE IF ~Parses(m[a - 1]) \/ key \notin W THEN f[r][W]
                       ELSE [f[r][W \ {key}] EXCEPT ![key] = Content(m, a)]
  BY <1>0, <1>4
<1>6. CASE a = start
  <2>1. \A W \in SUBSET Keys : f[a][W] = NoConfig
    BY <1>5, <1>6
  <2> HIDE DEF f
  <2>2. Alike(a)
    BY <2>1 DEF NoConfig
  <2> QED
    BY <1>4, <2>2
<1>7. CASE a # start
  <2>1. r \in D /\ r \in start .. a - 1 /\ a \in Nat
    BY <1>4, <1>7, ReachIsBelow
  <2>2. Alike(r)
    <3>1. r \notin Bad
      <4> HIDE DEF Bad, r
      <4>1. ~(a <= r)
        BY <2>1
      <4> QED
        BY <1>3, <4>1
    <3> QED
      BY <2>1, <3>1
  <2> HIDE DEF f, r
  <2>3. ASSUME NEW W \in SUBSET Keys
        PROVE  f[a][W] = [k \in Keys |-> IF k \in W THEN f[a][Keys][k] ELSE NoValue]
    <3>1. CASE ~Parses(m[a - 1])
      <4>1. f[a][W] = f[r][W] /\ f[a][Keys] = f[r][Keys]
        BY <1>5, <1>7, <3>1
      <4> QED
        BY <2>2, <4>1
    <3>2. CASE Parses(m[a - 1]) /\ key \notin Keys
      <4>1. f[a][W] = f[r][W] /\ f[a][Keys] = f[r][Keys]
        BY <1>5, <1>7, <3>2
      <4> QED
        BY <2>2, <4>1
    <3>3. CASE Parses(m[a - 1]) /\ key \in Keys
      <4> HIDE DEF key
      <4>1. f[a][Keys] = [f[r][Keys \ {key}] EXCEPT ![key] = Content(m, a)]
        BY <1>5, <1>7, <3>3
      <4>2. /\ f[r][Keys \ {key}] = [k \in Keys |-> IF k \in Keys \ {key} THEN f[r][Keys][k] ELSE NoValue]
            /\ f[r][W] = [k \in Keys |-> IF k \in W THEN f[r][Keys][k] ELSE NoValue]
            /\ f[r][W \ {key}] = [k \in Keys |-> IF k \in W \ {key} THEN f[r][Keys][k] ELSE NoValue]
        <5>1. Keys \ {key} \in SUBSET Keys /\ W \ {key} \in SUBSET Keys
          OBVIOUS
        <5> QED
          BY <2>2, <5>1
      <4>3. \A k \in Keys : f[a][Keys][k] = IF k = key THEN Content(m, a) ELSE f[r][Keys][k]
        BY <3>3, <4>1, <4>2
      <4>4. CASE key \notin W
        <5>1. f[a][W] = f[r][W]
          BY <1>5, <1>7, <3>3, <4>4
        <5> QED
          BY <4>2, <4>3, <4>4, <5>1
      <4>5. CASE key \in W
        <5>1. f[a][W] = [f[r][W \ {key}] EXCEPT ![key] = Content(m, a)]
          BY <1>5, <1>7, <3>3, <4>5
        <5> QED
          BY <3>3, <4>2, <4>3, <4>5, <5>1
      <4> QED
        BY <4>4, <4>5
    <3> QED
      BY <3>1, <3>2, <3>3
  <2>4. Alike(a)
    BY <2>3
  <2> QED
    BY <1>4, <2>4
<1> QED
  BY <1>6, <1>7

(* What is loaded below an address, from what is loaded below the one the  *)
(* scan comes to next.                                                     *)
LEMMA LatestIs ==
  ASSUME NEW m, NEW start, NEW e, NEW D, Readable(m, start, e, D), NEW c \in D, NEW k \in Keys
  PROVE  Latest(m, start, c)[k] =
           IF c = start THEN NoValue
           ELSE IF Parses(m[c - 1]) /\ m[c - 1].key = k THEN Content(m, c)
           ELSE Latest(m, start, Reach(m, c))[k]
<1> DEFINE below == Load(m, start)[Reach(m, c)]
           key == m[c - 1].key
<1>1. Keys \in SUBSET Keys /\ Keys \ {key} \in SUBSET Keys
  OBVIOUS
<1>2. Latest(m, start, c) = IF c = start THEN NoConfig
                            ELSE IF ~Parses(m[c - 1]) \/ key \notin Keys THEN below[Keys]
                            ELSE [below[Keys \ {key}] EXCEPT ![key] = Content(m, c)]
  BY <1>1, LoadAt DEF Latest
<1>3. CASE c = start
  BY <1>2, <1>3 DEF NoConfig
<1>4. CASE c # start
  <2>1. Reach(m, c) \in D
    BY <1>4, ReachIsBelow
  <2>2. below[Keys \ {key}] =
          [j \in Keys |-> IF j \in Keys \ {key} THEN Latest(m, start, Reach(m, c))[j] ELSE NoValue]
    BY <1>1, <2>1, WantedAlike
  <2>3. below[Keys] = Latest(m, start, Reach(m, c))
    BY DEF Latest
  <2> HIDE DEF below, key
  <2>4. CASE ~Parses(m[c - 1]) \/ key \notin Keys
    BY <1>2, <1>4, <2>3, <2>4 DEF key
  <2>5. CASE Parses(m[c - 1]) /\ key \in Keys
    <3>1. Latest(m, start, c) = [below[Keys \ {key}] EXCEPT ![key] = Content(m, c)]
      BY <1>2, <1>4, <2>5
    <3>2. Latest(m, start, c)[k] = IF k = key THEN Content(m, c) ELSE Latest(m, start, Reach(m, c))[k]
      BY <2>2, <2>5, <3>1
    <3> QED
      BY <1>4, <2>5, <3>2 DEF key
  <2> QED
    BY <2>4, <2>5
<1> QED
  BY <1>3, <1>4

(* What is loaded below an address of the page does not depend on what is  *)
(* written above it.                                                       *)
LEMMA WritesAboveUnseen ==
  ASSUME NEW m, NEW start, NEW e, NEW D, Readable(m, start, e, D),
         NEW n \in Memories, \A a \in start .. e - 1 : n[a] = m[a]
  PROVE  /\ Readable(n, start, e, D)
         /\ \A c \in D : \A k \in Keys : Latest(n, start, c)[k] = Latest(m, start, c)[k]
<1>0. m \in Memories /\ start \in Nat \ {0} /\ e \in 0 .. MemCells /\ D \subseteq start .. e
      /\ start \in D /\ MemCells \in Nat
  BY Sizes DEF Readable
<1>1. ASSUME NEW c \in D, c # start
      PROVE  /\ n[c - 1] = m[c - 1] /\ Reach(n, c) = Reach(m, c) /\ Content(n, c) = Content(m, c)
  <2>1. /\ c \in start .. e /\ c > start /\ m[c - 1] \in Cell /\ Reach(m, c) \in start .. c - 1
    BY <1>0, <1>1, ReachIsBelow
  <2>2. c - 1 \in start .. e - 1
    BY <1>0, <2>1
  <2>3. n[c - 1] = m[c - 1]
    BY <2>2
  <2>4. Reach(n, c) = Reach(m, c)
    BY <2>3 DEF Reach
  <2> DEFINE x == m[c - 1]
  <2>5. x.val \in Nat
    BY <2>1 DEF Cell
  <2>6. CASE x.seq
    <3>1. c - 1 - x.val \in start .. c - 1
      BY <2>1, <2>6 DEF Reach
    <3> HIDE DEF x
    <3>2. \A i \in 1 .. x.val : c - 1 - x.val + i - 1 \in start .. e - 1
      BY <1>0, <2>1, <2>5, <3>1
    <3>3. \A i \in 1 .. x.val : n[c - 1 - x.val + i - 1] = m[c - 1 - x.val + i - 1]
      BY <3>2
    <3>4. [i \in 1 .. x.val |-> n[c - 1 - x.val + i - 1]] = [i \in 1 .. x.val |-> m[c - 1 - x.val + i - 1]]
      BY <3>3
    <3> QED
      BY <2>3, <2>4, <2>6, <3>4 DEF Content, x
  <2>7. CASE ~x.seq
    BY <2>3, <2>4, <2>7 DEF Content
  <2> QED
    BY <2>6, <2>7
<1>2. Readable(n, start, e, D)
  BY <1>0, <1>1 DEF Readable
<1> DEFINE Bad == {c \in D : \E k \in Keys : Latest(n, start, c)[k] # Latest(m, start, c)[k]}
<1>3. SUFFICES ASSUME Bad # {}
               PROVE  FALSE
  BY <1>2
<1>4. Bad \in SUBSET Nat
  <2>1. Bad \subseteq D
    OBVIOUS
  <2> HIDE DEF Bad
  <2>2. D \subseteq Nat
    BY <1>0
  <2> QED
    BY <2>1, <2>2
<1>5. PICK c \in Bad : \A b \in Bad : c <= b
  <2> HIDE DEF Bad
  <2> QED
    BY <1>3, <1>4, LeastExists
<1>6. PICK k \in Keys : Latest(n, start, c)[k] # Latest(m, start, c)[k]
  BY <1>5
<1>7. c \in D
  OBVIOUS
<1>8. Latest(m, start, c)[k] =
        IF c = start THEN NoValue
        ELSE IF Parses(m[c - 1]) /\ m[c - 1].key = k THEN Content(m, c)
        ELSE Latest(m, start, Reach(m, c))[k]
  BY <1>7, LatestIs
<1>9. Latest(n, start, c)[k] =
        IF c = start THEN NoValue
        ELSE IF Parses(n[c - 1]) /\ n[c - 1].key = k THEN Content(n, c)
        ELSE Latest(n, start, Reach(n, c))[k]
  BY <1>2, <1>7, LatestIs
<1>10. c # start
  BY <1>6, <1>8, <1>9
<1>11. Reach(m, c) \in D /\ Reach(m, c) \in start .. c - 1
  BY <1>7, <1>10, ReachIsBelow
<1>12. Reach(m, c) \notin Bad
  <2>1. ~(c <= Reach(m, c))
    BY <1>0, <1>7, <1>11
  <2> HIDE DEF Bad
  <2> QED
    BY <1>5, <2>1
<1>13. Latest(n, start, Reach(m, c))[k] = Latest(m, start, Reach(m, c))[k]
  BY <1>11, <1>12
<1> QED
  BY <1>1, <1>6, <1>7, <1>8, <1>9, <1>10, <1>13

(* Above t there are only cells without a known key.                       *)
Silent(m, t, D) ==
  \A c \in D : c > t => Reach(m, c) >= t /\ (m[c - 1].key \in Keys => ~Parses(m[c - 1]))

LEMMA SilentCells ==
  ASSUME NEW m, NEW start, NEW e, NEW D, Readable(m, start, e, D), NEW t \in D, Silent(m, t, D)
  PROVE  \A c \in D : c >= t => \A k \in Keys : Latest(m, start, c)[k] = Latest(m, start, t)[k]
<1>0. m \in Memories /\ start \in Nat \ {0} /\ e \in 0 .. MemCells /\ D \subseteq start .. e
      /\ start \in D /\ MemCells \in Nat /\ t \in Nat /\ t >= start
  BY Sizes DEF Readable
<1> DEFINE Bad == {c \in D : c >= t /\ \E k \in Keys : Latest(m, start, c)[k] # Latest(m, start, t)[k]}
<1>1. SUFFICES ASSUME Bad # {}
               PROVE  FALSE
  OBVIOUS
<1>2. Bad \in SUBSET Nat
  <2>1. Bad \subseteq D
    OBVIOUS
  <2> HIDE DEF Bad
  <2>2. D \subseteq Nat
    BY <1>0
  <2> QED
    BY <2>1, <2>2
<1>3. PICK c \in Bad : \A b \in Bad : c <= b
  <2> HIDE DEF Bad
  <2> QED
    BY <1>1, <1>2, LeastExists
<1>4. PICK k \in Keys : Latest(m, start, c)[k] # Latest(m, start, t)[k]
  BY <1>3
<1>5. c \in D /\ c \in Nat /\ c > t /\ c # start
  <2>1. c \in D /\ c \in Nat /\ c >= t
    BY <1>0
  <2>2. c # t
    BY <1>4
  <2> QED
    BY <1>0, <2>1, <2>2
<1>6. Latest(m, start, c)[k] =
        IF c = start THEN NoValue
        ELSE IF Parses(m[c - 1]) /\ m[c - 1].key = k THEN Content(m, c)
        ELSE Latest(m, start, Reach(m, c))[k]
  BY <1>5, LatestIs
<1>7. Latest(m, start, c)[k] = Latest(m, start, Reach(m, c))[k]
  BY <1>5, <1>6 DEF Silent
<1>8. Reach(m, c) \in D /\ Reach(m, c) \in start .. c - 1 /\ Reach(m, c) >= t
  BY <1>5, ReachIsBelow DEF Silent
<1>9. Reach(m, c) \notin Bad
  <2>1. ~(c <= Reach(m, c))
    BY <1>0, <1>5, <1>8
  <2> HIDE DEF Bad
  <2> QED
    BY <1>3, <2>1
<1> QED
  BY <1>4, <1>7, <1>8, <1>9

(* Cells behind t whose data does not lead below t can be read as well.    *)
LEMMA ReadableGrows ==
  ASSUME NEW m, NEW start, NEW t, NEW D, Readable(m, start, t, D), t \in D,
         NEW e \in t .. MemCells,
         \A c \in t + 1 .. e : Reach(m, c) >= t /\ (m[c - 1].seq => m[c - 1].val <= BufferCells)
  PROVE  Readable(m, start, e, D \cup (t .. e))
<1>0. m \in Memories /\ start \in Nat \ {0} /\ t \in 0 .. MemCells /\ D \subseteq start .. t
      /\ start \in D /\ MemCells \in Nat /\ e \in 0 .. MemCells /\ t >= start
  BY Sizes DEF Readable
<1>1. ASSUME NEW c \in t + 1 .. e
      PROVE  Reach(m, c) \in t .. e
  <2>1. c \in 0 .. MemCells /\ c > start /\ c \in Nat
    BY <1>0
  <2>2. m[c - 1] \in Cell
    BY <1>0, <2>1, ScanGoesDown
  <2>3. m[c - 1].val \in Nat
    BY <2>2 DEF Cell
  <2>4. Reach(m, c) \in Int /\ Reach(m, c) <= c - 1
    BY <2>1, <2>3 DEF Reach
  <2> QED
    BY <1>0, <2>4
<1>2. ASSUME NEW c \in D \cup (t .. e), c # start
      PROVE  Reach(m, c) \in D \cup (t .. e) /\ (m[c - 1].seq => m[c - 1].val <= BufferCells)
  <2>1. c \in D \/ c \in t + 1 .. e
    BY <1>0
  <2> QED
    BY <1>1, <1>2, <2>1 DEF Readable
<1>3. D \cup (t .. e) \subseteq start .. e
  BY <1>0
<1> QED
  BY <1>0, <1>2, <1>3 DEF Readable

(* Free cells at the end of the page are passed over.                      *)
LEMMA FreeCellsPassed ==
  ASSUME NEW m, NEW start, NEW e, NEW D, Readable(m, start, e, D), e \in D,
         NEW b \in start .. e, \A a \in b .. e - 1 : m[a] = Free
  PROVE  /\ b .. e \subseteq D
         /\ \A k \in Keys : Latest(m, start, e)[k] = Latest(m, start, b)[k]
<1>0. m \in Memories /\ start \in Nat \ {0} /\ e \in 0 .. MemCells /\ D \subseteq start .. e
      /\ start \in D /\ MemCells \in Nat /\ e \in Nat /\ b \in Nat
  BY Sizes DEF Readable
<1>1. ASSUME NEW c \in b + 1 .. e
      PROVE  m[c - 1] = Free /\ ~Parses(m[c - 1]) /\ Reach(m, c) = c - 1
  <2>1. m[c - 1] = Free
    BY <1>0
  <2>2. Free.seq = TRUE /\ Free.val = 0 /\ c \in Nat
    BY <1>0 DEF Free
  <2> QED
    BY <2>1, <2>2 DEF Parses, Reach
<1> DEFINE Bad == {x \in 0 .. e - b : e - x \notin D}
<1>2. Bad = {}
  <2>1. SUFFICES ASSUME Bad # {}
                 PROVE  FALSE
    OBVIOUS
  <2>2. Bad \in SUBSET Nat
    BY <1>0
  <2>3. PICK x \in Bad : \A y \in Bad : x <= y
    <3> HIDE DEF Bad
    <3> QED
      BY <2>1, <2>2, LeastExists
  <2>4. x \in 0 .. e - b /\ e - x \notin D /\ x # 0
    BY <1>0
  <2>5. x - 1 \in 0 .. e - b /\ ~(x <= x - 1) /\ e - (x - 1) \in b + 1 .. e
    BY <1>0, <2>4
  <2>6. x - 1 \notin Bad
    <3> HIDE DEF Bad
    <3> QED
      BY <2>3, <2>5
  <2> DEFINE c == e - (x - 1)
  <2>7. c \in D /\ c - 1 = e - x
    BY <1>0, <2>4, <2>5, <2>6
  <2>8. c \in b + 1 .. e /\ c # start
    BY <1>0, <2>5
  <2> HIDE DEF c
  <2>9. Reach(m, c) \in D /\ Reach(m, c) = c - 1
    BY <1>1, <2>7, <2>8, ReachIsBelow
  <2> QED
    BY <2>4, <2>7, <2>9
<1>3. ASSUME NEW c \in b .. e
      PROVE  c \in D
  <2>1. e - c \in 0 .. e - b /\ e - (e - c) = c
    BY <1>0
  <2> QED
    BY <1>2, <2>1
<1> HIDE DEF Bad
<1>4. b \in D
  BY <1>0, <1>3
<1>5. ASSUME NEW c \in D, c > b
      PROVE  Reach(m, c) >= b /\ ~Parses(m[c - 1])
  <2>1. c \in b + 1 .. e
    BY <1>0, <1>5
  <2>2. Reach(m, c) = c - 1 /\ ~Parses(m[c - 1])
    BY <1>1, <2>1
  <2> QED
    BY <1>0, <2>1, <2>2
<1>6. \A k \in Keys : Latest(m, start, e)[k] = Latest(m, start, b)[k]
  <2>1. e >= b
    BY <1>0
  <2>2. Silent(m, b, D)
    BY <1>5 DEF Silent
  <2>3. \A c \in D : c >= b => \A k \in Keys : Latest(m, start, c)[k] = Latest(m, start, b)[k]
    BY <1>4, <2>2, SilentCells
  <2> QED
    BY <2>1, <2>3
<1> QED
  BY <1>3, <1>6

-----------------------------------------------------------------------------
(* Values in a page.                                                       *)

(* The cells that are written for a value.                                 *)
LEMMA StoredCells ==
  ASSUME ValuesReadBack, NEW k \in Keys, NEW v \in Values[k]
  PROVE  LET new == Stored(k, v)
             n   == Len(new)
         IN  /\ new \in Seq(Cell) /\ n \in Nat \ {0}
             /\ new[n].key = k /\ Parses(new[n]) /\ new[n].seq \in BOOLEAN
             /\ new[n].seq => /\ new[n].val = n - 1 /\ n - 1 <= BufferCells
                              /\ v = Wide(v.cells) /\ v.cells \in Seq(Cell) /\ Len(v.cells) = n - 1
                              /\ \A i \in 1 .. n - 1 : new[i] = v.cells[i]
             /\ ~new[n].seq => n = 1 /\ v = Narrow(new[n].val)
             /\ \A i \in 1 .. n - 1 : new[i] \in Cell /\ v.wide /\ i \in DOMAIN v.cells
                                      /\ new[i] = v.cells[i] /\ n - 1 <= BufferCells
<1> DEFINE new == Stored(k, v)
           n == Len(new)
<1>1. /\ v.wide \in BOOLEAN /\ v.cells \in Seq(Cell) /\ k \in Nat
      /\ new \in Seq(Cell) /\ n \in Nat \ {0}
  BY MemoryAssumption, CellsTyped
<1>2. CASE v.wide
  <2> DEFINE l == Len(v.cells)
             h == [seq |-> TRUE, key |-> k, val |-> l]
  <2>1. new = Append(v.cells, h)
    BY <1>2 DEF Stored
  <2>2. v = Wide(v.cells) /\ l \in 1 .. BufferCells
    BY <1>2 DEF ValuesReadBack
  <2>3. BufferCells \in Nat /\ l \in Nat /\ l # 0 /\ l <= BufferCells
    BY <2>2, MemoryAssumption
  <2>4. h \in Cell /\ h.key = k /\ h.val = l /\ h.seq = TRUE /\ Parses(h)
    BY <1>1, <2>3 DEF Cell, Parses
  <2> HIDE DEF h, new
  <2>5. n = l + 1 /\ new[l + 1] = h /\ \A i \in 1 .. l : new[i] = v.cells[i]
    BY <1>1, <2>1, <2>4, AppendProperties
  <2>6. DOMAIN v.cells = 1 .. l /\ \A i \in 1 .. l : v.cells[i] \in Cell
    BY <1>1, LenProperties, ElementOfSeq
  <2> HIDE DEF l, n
  <2>7. n - 1 = l /\ new[n] = h
    BY <2>3, <2>5
  <2> QED
    BY <1>1, <1>2, <2>2, <2>3, <2>4, <2>5, <2>6, <2>7 DEF new, n, l
<1>3. CASE ~v.wide
  <2>1. new = <<[seq |-> FALSE, key |-> k, val |-> v.cells[1].val]>>
    BY <1>3 DEF Stored
  <2>2. n = 1 /\ new[1] = [seq |-> FALSE, key |-> k, val |-> v.cells[1].val]
    BY <2>1
  <2>3. v = Narrow(v.cells[1].val)
    BY <1>3 DEF ValuesReadBack
  <2> HIDE DEF new, n
  <2>4. new[n].key = k /\ new[n].seq = FALSE /\ new[n].val = v.cells[1].val
    BY <2>2
  <2>5. Parses(new[n])
    BY <2>4 DEF Parses
  <2>6. 1 .. n - 1 = {}
    BY <2>2
  <2> QED
    BY <1>1, <2>2, <2>3, <2>4, <2>5, <2>6 DEF new, n
<1> QED
  BY <1>1, <1>2, <1>3

(* The page can be read up to t. From there on it has the first n of the   *)
(* cells for the value v of k, and is free then, up to e.                  *)
Begun(m, start, D, t, k, v, n, e) ==
  /\ Readable(m, start, t, D) /\ t \in D
  /\ k \in Keys /\ v \in Values[k]
  /\ n \in 0 .. Len(Stored(k, v)) /\ e \in t + n .. MemCells
  /\ \A i \in 1 .. n : m[t + i - 1] = Stored(k, v)[i]
  /\ \A a \in t + n .. e - 1 : m[a] = Free

(* A value that was written completely is loaded, above what was loaded    *)
(* before.                                                                 *)
LEMMA WholeValue ==
  ASSUME ValuesReadBack, NEW m, NEW start, NEW D, NEW t, NEW k, NEW v, NEW n, NEW e,
         Begun(m, start, D, t, k, v, n, e), n = Len(Stored(k, v))
  PROVE  \E E : /\ Readable(m, start, e, E) /\ D \subseteq E /\ e \in E
                /\ \A j \in Keys : Latest(m, start, e)[j] =
                                     IF j = k THEN v ELSE Latest(m, start, t)[j]
<1> SUFFICES ASSUME Readable(m, start, t, D), t \in D, k \in Keys, v \in Values[k],
                    e \in t + n .. MemCells,
                    \A i \in 1 .. n : m[t + i - 1] = Stored(k, v)[i],
                    \A a \in t + n .. e - 1 : m[a] = Free
             PROVE  \E E : /\ Readable(m, start, e, E) /\ D \subseteq E /\ e \in E
                           /\ \A j \in Keys : Latest(m, start, e)[j] =
                                                IF j = k THEN v ELSE Latest(m, start, t)[j]
  <2>1. k \in Keys /\ v \in Values[k] /\ n \in 0 .. Len(Stored(k, v))
    BY DEF Begun
  <2>2. Len(Stored(k, v)) \in Nat
    BY <2>1, CellsTyped
  <2>3. n \in 0 .. Len(Stored(k, v)) - 1 \/ n = Len(Stored(k, v))
    BY <2>1, <2>2
  <2> QED
    BY <2>2, <2>3 DEF Begun
<1> DEFINE new == Stored(k, v)
           c == t + n
           C == D \cup {c}
           E == C \cup (c .. e)
<1>0. /\ m \in Memories /\ start \in Nat \ {0} /\ t \in 0 .. MemCells /\ D \subseteq start .. t
      /\ start \in D /\ MemCells \in Nat /\ t \in Nat /\ t >= start /\ BufferCells \in Nat
  BY Sizes, MemoryAssumption DEF Readable
<1>1. /\ n \in Nat \ {0}
      /\ new[n].key = k /\ Parses(new[n]) /\ new[n].seq \in BOOLEAN
      /\ new[n].seq => /\ new[n].val = n - 1 /\ n - 1 <= BufferCells
                       /\ v = Wide(v.cells) /\ v.cells \in Seq(Cell) /\ Len(v.cells) = n - 1
                       /\ \A i \in 1 .. n - 1 : new[i] = v.cells[i]
      /\ ~new[n].seq => n = 1 /\ v = Narrow(new[n].val)
  BY StoredCells
<1>2. \A i \in 1 .. n : m[t + i - 1] = new[i]
  OBVIOUS
<1> HIDE DEF new
<1>3. m[c - 1] = new[n] /\ c \in Nat /\ c > t /\ c <= e /\ e \in 0 .. MemCells /\ e \in Nat
  <2>1. n \in 1 .. n /\ t + n - 1 = c - 1
    BY <1>0, <1>1
  <2> QED
    BY <1>0, <1>1, <1>2, <2>1
<1>4. Reach(m, c) = t /\ (m[c - 1].seq => m[c - 1].val <= BufferCells)
  <2>1. CASE new[n].seq
    <3>1. Reach(m, c) = c - 1 - (n - 1)
      BY <1>1, <1>3, <2>1 DEF Reach
    <3> QED
      BY <1>0, <1>1, <1>3, <2>1, <3>1
  <2>2. CASE ~new[n].seq
    <3>1. Reach(m, c) = c - 1
      BY <1>3, <2>2 DEF Reach
    <3> QED
      BY <1>0, <1>1, <1>3, <2>2, <3>1
  <2> QED
    BY <2>1, <2>2
<1>5. Content(m, c) = v
  <2>1. CASE new[n].seq
    <3>1. Content(m, c) = Wide([i \in 1 .. n - 1 |-> m[c - 1 - (n - 1) + i - 1]])
      <4>1. m[c - 1].seq /\ m[c - 1].val = n - 1
        BY <1>1, <1>3, <2>1
      <4> QED
        BY <4>1, Zenon DEF Content
    <3>2. ASSUME NEW i \in 1 .. n - 1
          PROVE  m[c - 1 - (n - 1) + i - 1] = v.cells[i]
      <4>1. t \in Nat /\ n \in Nat \ {0}
        BY <1>0, <1>1
      <4>2. c - 1 - (n - 1) + i - 1 = t + i - 1
        BY <4>1
      <4>3. i \in 1 .. n
        BY <4>1
      <4> QED
        BY <1>1, <1>2, <2>1, <4>2, <4>3
    <3>3. v.cells = [i \in 1 .. n - 1 |-> v.cells[i]]
      <4>1. v.cells = [i \in DOMAIN v.cells |-> v.cells[i]] /\ DOMAIN v.cells = 1 .. Len(v.cells)
        BY <1>1, <2>1, LenProperties
      <4>2. Len(v.cells) = n - 1
        BY <1>1, <2>1
      <4> QED
        BY <4>1, <4>2, Zenon
    <3>4. [i \in 1 .. n - 1 |-> m[c - 1 - (n - 1) + i - 1]] = v.cells
      BY <3>2, <3>3
    <3> QED
      BY <1>1, <2>1, <3>1, <3>4
  <2>2. CASE ~new[n].seq
    BY <1>1, <1>3, <2>2 DEF Content
  <2> QED
    BY <2>1, <2>2
<1> HIDE DEF c
<1>6. Readable(m, start, c, C)
  <2>1. c \in 0 .. MemCells /\ C \subseteq start .. c
    <3>1. c \in 0 .. MemCells /\ c \in start .. c
      BY <1>0, <1>3
    <3>2. D \subseteq start .. c
      BY <1>0, <1>3
    <3> QED
      BY <3>1, <3>2
  <2>2. ASSUME NEW b \in C \ {start}
        PROVE  Reach(m, b) \in C /\ (m[b - 1].seq => m[b - 1].val <= BufferCells)
    <3>1. CASE b = c
      BY <1>4, <3>1
    <3>2. CASE b \in D
      BY <3>2 DEF Readable
    <3> QED
      BY <3>1, <3>2
  <2> HIDE DEF C
  <2>3. start \in C
    BY <1>0 DEF C
  <2> QED
    BY <1>0, <2>1, <2>2, <2>3 DEF Readable
<1>7. \A a \in c .. e - 1 : m[a] = Free
  BY DEF c
<1>8. ASSUME NEW b \in c + 1 .. e
      PROVE  Reach(m, b) >= c /\ (m[b - 1].seq => m[b - 1].val <= BufferCells)
  <2>1. m[b - 1] = Free
    BY <1>3, <1>7
  <2>2. Free.seq = TRUE /\ Free.val = 0 /\ b \in Nat
    BY <1>3 DEF Free
  <2> QED
    BY <1>0, <1>3, <2>1, <2>2 DEF Reach
<1>9. c \in C /\ e \in c .. MemCells
  BY <1>0, <1>3
<1> HIDE DEF C
<1>10. Readable(m, start, e, E)
  BY <1>6, <1>8, <1>9, ReadableGrows
<1>11. e \in E /\ c \in E /\ t \in E /\ D \subseteq E
  BY <1>3, <1>9 DEF C
<1> HIDE DEF E
<1>12. ASSUME NEW j \in Keys
       PROVE  Latest(m, start, e)[j] = IF j = k THEN v ELSE Latest(m, start, t)[j]
  <2>1. c \in start .. e /\ c # start
    BY <1>0, <1>3
  <2>2. \A i \in Keys : Latest(m, start, e)[i] = Latest(m, start, c)[i]
    BY <1>7, <1>10, <1>11, <2>1, FreeCellsPassed
  <2>3. Latest(m, start, c)[j] = IF c = start THEN NoValue
                                 ELSE IF Parses(m[c - 1]) /\ m[c - 1].key = j THEN Content(m, c)
                                 ELSE Latest(m, start, Reach(m, c))[j]
    BY <1>10, <1>11, LatestIs
  <2> QED
    BY <1>1, <1>3, <1>4, <1>5, <2>1, <2>2, <2>3
<1> QED
  BY <1>10, <1>11, <1>12

(* A value that was written in part leaves a page that can be read, if its *)
(* data does not lead out of itself, and nothing else to be loaded, if its *)
(* data looks like no cell of a key.                                       *)
LEMMA TornValue ==
  ASSUME ValuesReadBack, NEW m, NEW start, NEW D, NEW t, NEW k, NEW v, NEW n, NEW e,
         Begun(m, start, D, t, k, v, n, e), n < Len(Stored(k, v)), n = 0 \/ DataIsContained
  PROVE  \E E : /\ Readable(m, start, e, E) /\ e \in E
                /\ n = 0 \/ DataIsSilent =>
                     \A j \in Keys : Latest(m, start, e)[j] = Latest(m, start, t)[j]
<1> SUFFICES ASSUME Readable(m, start, t, D), t \in D, k \in Keys, v \in Values[k],
                    n \in 0 .. Len(Stored(k, v)) - 1, e \in t + n .. MemCells,
                    \A i \in 1 .. n : m[t + i - 1] = Stored(k, v)[i],
                    \A a \in t + n .. e - 1 : m[a] = Free
             PROVE  \E E : /\ Readable(m, start, e, E) /\ e \in E
                           /\ n = 0 \/ DataIsSilent =>
                                \A j \in Keys : Latest(m, start, e)[j] = Latest(m, start, t)[j]
  <2>1. k \in Keys /\ v \in Values[k] /\ n \in 0 .. Len(Stored(k, v))
    BY DEF Begun
  <2>2. Len(Stored(k, v)) \in Nat
    BY <2>1, CellsTyped
  <2>3. n \in 0 .. Len(Stored(k, v)) - 1 \/ n = Len(Stored(k, v))
    BY <2>1, <2>2
  <2> QED
    BY <2>2, <2>3 DEF Begun
<1> DEFINE new == Stored(k, v)
           E == D \cup (t .. e)
<1>0. /\ m \in Memories /\ start \in Nat \ {0} /\ t \in 0 .. MemCells /\ D \subseteq start .. t
      /\ start \in D /\ MemCells \in Nat /\ t \in Nat /\ t >= start /\ BufferCells \in Nat
  BY Sizes, MemoryAssumption DEF Readable
<1>1. /\ Len(new) \in Nat \ {0}
      /\ \A i \in 1 .. Len(new) - 1 : new[i] \in Cell /\ v.wide /\ i \in DOMAIN v.cells
                                      /\ new[i] = v.cells[i] /\ Len(new) - 1 <= BufferCells
  BY StoredCells
<1>2. \A i \in 1 .. n : m[t + i - 1] = new[i]
  OBVIOUS
<1> HIDE DEF new
<1>3. n \in Nat /\ n <= Len(new) - 1 /\ e \in Nat /\ e >= t + n /\ e \in t .. MemCells
  BY <1>0, <1>1 DEF new
<1>4. ASSUME NEW c \in t + 1 .. e
      PROVE  /\ Reach(m, c) >= t /\ (m[c - 1].seq => m[c - 1].val <= BufferCells)
             /\ n = 0 \/ DataIsSilent => (m[c - 1].key \in Keys => ~Parses(m[c - 1]))
  <2>1. CASE c > t + n
    <3>1. m[c - 1] = Free
      BY <1>0, <1>3, <2>1
    <3>2. Free.seq = TRUE /\ Free.val = 0 /\ c \in Nat
      BY <1>0, <1>3 DEF Free
    <3> QED
      BY <1>0, <3>1, <3>2 DEF Reach, Parses
  <2>2. CASE ~(c > t + n)
    <3> DEFINE i == c - t
    <3>1. i \in 1 .. n /\ i \in 1 .. Len(new) - 1 /\ c - 1 = t + i - 1 /\ c = t + i /\ n # 0 /\ i \in Nat
      BY <1>0, <1>1, <1>3, <2>2
    <3> HIDE DEF i
    <3>2. m[c - 1] = v.cells[i] /\ v.cells[i] \in Cell /\ v.wide /\ i \in DOMAIN v.cells
          /\ Len(new) - 1 <= BufferCells
      BY <1>1, <1>2, <3>1
    <3>3. v.cells[i].seq => v.cells[i].val < i
      BY <3>1, <3>2 DEF DataIsContained
    <3>4. v.cells[i].val \in Nat
      BY <3>2 DEF Cell
    <3>5. Reach(m, c) >= t
      <4> DEFINE x == v.cells[i].val
      <4>1. CASE v.cells[i].seq
        <5>1. Reach(m, c) = c - 1 - x
          BY <3>2, <4>1 DEF Reach
        <5>2. x < i /\ x \in Nat
          BY <3>3, <3>4, <4>1
        <5> HIDE DEF x
        <5> QED
          BY <1>0, <3>1, <5>1, <5>2
      <4>2. CASE ~v.cells[i].seq
        <5>1. Reach(m, c) = c - 1
          BY <3>2, <4>2 DEF Reach
        <5> QED
          BY <1>0, <3>1, <5>1
      <4> QED
        BY <4>1, <4>2
    <3>6. v.cells[i].seq => v.cells[i].val <= BufferCells
      <4>1. i <= Len(new) - 1 /\ Len(new) - 1 \in Nat /\ i \in Nat /\ BufferCells \in Nat
        BY <1>0, <1>1, <3>1
      <4>2. Len(new) - 1 <= BufferCells
        BY <3>2
      <4> QED
        BY <3>3, <3>4, <4>1, <4>2
    <3>7. DataIsSilent => (v.cells[i].key \in Keys => ~Parses(v.cells[i]))
      BY <3>2 DEF DataIsSilent
    <3> QED
      BY <3>1, <3>2, <3>5, <3>6, <3>7
  <2> QED
    BY <2>1, <2>2
<1>5. Readable(m, start, e, E)
  BY <1>3, <1>4, ReadableGrows
<1>6. t \in E /\ e \in E /\ e >= t /\ e \in t .. e
  BY <1>0, <1>3
<1>7. ASSUME n = 0 \/ DataIsSilent
      PROVE  \A j \in Keys : Latest(m, start, e)[j] = Latest(m, start, t)[j]
  <2>1. ASSUME NEW c \in E, c > t
        PROVE  Reach(m, c) >= t /\ (m[c - 1].key \in Keys => ~Parses(m[c - 1]))
    <3>1. c \in t + 1 .. e
      <4>1. c \in D \/ c \in t .. e
        BY <2>1
      <4>2. c \notin D
        BY <1>0, <2>1
      <4>3. c \in t .. e /\ c > t
        BY <2>1, <4>1, <4>2
      <4> QED
        BY <1>0, <1>3, <4>3
    <3> QED
      BY <1>4, <1>7, <3>1
  <2> HIDE DEF E
  <2>2. Silent(m, t, E)
    BY <2>1 DEF Silent
  <2>3. \A c \in E : c >= t => \A j \in Keys : Latest(m, start, c)[j] = Latest(m, start, t)[j]
    BY <1>5, <1>6, <2>2, SilentCells
  <2> QED
    BY <1>6, <2>3
<1> QED
  BY <1>5, <1>6, <1>7

-----------------------------------------------------------------------------
(* The log.                                                                *)

(* The cells of the newest page, without its header.                       *)
First == newest * PageCells + 1
Last == newest * PageCells + PageCells

(* What a failed write leaves behind does not look like other values.      *)
Kept == "write" \in FailAt => DataIsSilent

(* The value of k is written from t on, up to the first free cell.         *)
Writing(k, t) ==
  LET new == Stored(k, config[k])
      n   == run.free - t
  IN /\ n \in 0 .. Len(new) - 1 /\ Len(run.pending) = Len(new) - n
     /\ \A i \in 1 .. Len(run.pending) : run.pending[i] = new[n + i]
     /\ \A i \in 1 .. n : mem[t + i - 1] = new[i]

(* update() comes across what a load finds: from its address downwards     *)
(* there is what the page has for the keys it has still to see, and for    *)
(* those it saw the page has what the configuration has.                   *)
Scanned(D, t, k) ==
  /\ run.page = newest /\ run.addr \in D /\ run.addr <= run.free
  /\ \A j \in unseen : Latest(mem, First, run.addr)[j] = Latest(mem, First, t)[j]
  /\ \A j \in Present \ unseen :
       Latest(mem, First, t)[j] = config[j] \/ (pc = "write" /\ j = k)

(* The newest page can be read by way of the addresses D up to t, where    *)
(* the page ends or where the value of k is being written.                 *)
LogAt(D, t, k) ==
  /\ Readable(mem, First, t, D) /\ t \in D /\ t <= Last
  /\ pc = "write" => k \in Present \ unseen /\ Writing(k, t)
  /\ pc # "write" => t = Last
  /\ pc \in {"scan", "write"} => Scanned(D, t, k)
  /\ pc = "idle" /\ status = "SUCCESS" =>
       \A j \in Present : Latest(mem, First, t)[j] = config[j]
  /\ Kept => \A j \in Keys : Latest(mem, First, t)[j] \in promised[j]

LogInv ==
  /\ newest = Pages =>
       /\ status # "SUCCESS" /\ pc \notin {"scan", "write"}
       /\ \A j \in Keys : NoValue \in promised[j]
  /\ newest \in PageNumbers => \E D, t, k : LogAt(D, t, k)
  /\ pc # "idle" => \A j \in Keys : config[j] \in promised[j]
  /\ pc \in {"clear", "header"} => unseen = Present
  /\ Kept => NoNeedlessWrite

(* The cells of a page.                                                    *)
LEMMA PageCellsOf ==
  ASSUME NEW p \in PageNumbers, NEW f, NEW l, f = p * PageCells + 1, l = p * PageCells + PageCells
  PROVE  /\ f \in Nat \ {0} /\ l \in 0 .. MemCells /\ l \in Nat /\ f <= l /\ l = f - 1 + PageCells
         /\ MemCells \in Nat /\ f - 1 = p * PageCells
         /\ \A a \in f .. l - 1 : a \in Addresses /\ a \div PageCells = p /\ a # p * PageCells
<1> DEFINE s == p * PageCells
<1>1. /\ s \in Nat /\ s + PageCells <= MemCells /\ PageCells \in Nat \ {0, 1} /\ MemCells \in Nat
      /\ \A a \in Addresses : a \div PageCells = p <=> a \in s .. s + PageCells - 1
  BY PageOf, Sizes
<1>2. f = s + 1 /\ l = s + PageCells
  OBVIOUS
<1> HIDE DEF s
<1>3. ASSUME NEW a \in f .. l - 1
      PROVE  a \in Addresses /\ a \div PageCells = p /\ a # s
  <2>1. a \in Addresses /\ a \in s .. s + PageCells - 1 /\ a # s
    BY <1>1, <1>2 DEF Addresses
  <2> QED
    BY <1>1, <2>1
<1>4. /\ f \in Nat \ {0} /\ l \in 0 .. MemCells /\ l \in Nat /\ f <= l /\ l = f - 1 + PageCells
      /\ f - 1 = s
  BY <1>1, <1>2
<1> QED
  BY <1>1, <1>3, <1>4 DEF s

(* A load looks at the newest page, and a rotation at another one.         *)
LEMMA Current ==
  ASSUME Typed, InRing, Pages > 1
  PROVE  /\ CurrentPage(Headers) = newest
         /\ pc \in {"clear", "header"} => run.page # newest
<1>1. ASSUME NEW h \in [PageNumbers -> Codes], Ring(h, newest), Chosen(h)
      PROVE  run.page # newest
  <2>1. NextPage(h).page = run.page
    BY <1>1 DEF Chosen
  <2>2. run.page \in PageNumbers /\ Pages \notin PageNumbers
    BY Bounds, Sizes DEF PageNumbers
  <2>3. CASE newest \in PageNumbers
    <3>1. newest \in Nat /\ newest < Pages /\ Pages \in Nat
      BY <2>3, Sizes DEF PageNumbers
    <3>2. (newest = Pages - 1 /\ run.page = 0) \/ run.page = newest + 1
      BY <1>1, <2>1, <2>3, RingNext
    <3> QED
      BY <3>1, <3>2
  <2>4. CASE newest \notin PageNumbers
    BY <2>2, <2>4
  <2> QED
    BY <2>3, <2>4
<1>2. CASE pc # "header"
  BY <1>1, <1>2, HeadersTyped, RingCurrent DEF InRing
<1>3. CASE pc = "header"
  <2>1. PICK h \in [PageNumbers -> Codes] :
          Ring(h, newest) /\ Chosen(h) /\ Headers = [h EXCEPT ![run.page] = "none"]
    BY <1>3 DEF InRing
  <2>2. run.page = NextPage(h).page
    BY <2>1 DEF Chosen
  <2>3. CurrentPage(Headers) = newest
    BY <2>1, <2>2, ClearedCurrent
  <2> QED
    BY <1>1, <2>1, <2>3
<1> QED
  BY <1>2, <1>3

LEMMA LoadedIs ==
  ASSUME Typed, InRing, Pages > 1
  PROVE  /\ newest = Pages => Loaded = NoConfig
         /\ newest \in PageNumbers => Loaded = Latest(mem, First, Last)
<1>1. CurrentPage(Headers) = newest
  BY Current
<1>2. Loaded = IF newest = Pages THEN NoConfig
               ELSE Load(mem, First)[First - 1 + PageCells][Keys]
  BY <1>1 DEF Loaded, First
<1>3. ASSUME newest \in PageNumbers
      PROVE  newest # Pages /\ First - 1 + PageCells = Last
  <2>1. newest # Pages
    BY <1>3, Sizes DEF PageNumbers
  <2> QED
    BY <1>3, <2>1, PageCellsOf DEF First, Last
<1> QED
  BY <1>2, <1>3 DEF Latest

(* A part of a page can be read if all of it can.                          *)
LEMMA ReadableBelow ==
  ASSUME NEW m, NEW start, NEW e, NEW D, Readable(m, start, e, D), NEW b \in D
  PROVE  LET B == D \cap (start .. b)
         IN  Readable(m, start, b, B) /\ b \in B /\ \A c \in D : c <= b => c \in B
<1> DEFINE B == D \cap (start .. b)
<1>0. m \in Memories /\ start \in Nat \ {0} /\ e \in 0 .. MemCells /\ D \subseteq start .. e
      /\ start \in D /\ MemCells \in Nat
  BY Sizes DEF Readable
<1>1. b \in start .. e /\ b \in 0 .. MemCells /\ b \in Nat /\ b >= start
  BY <1>0
<1>2. start \in B /\ b \in B /\ B \subseteq start .. b /\ \A c \in D : c <= b => c \in B
  BY <1>0, <1>1
<1>3. ASSUME NEW c \in B \ {start}
      PROVE  Reach(m, c) \in B /\ (m[c - 1].seq => m[c - 1].val <= BufferCells)
  <2>1. c \in D /\ c # start /\ c \in start .. b
    OBVIOUS
  <2>2. Reach(m, c) \in D /\ Reach(m, c) \in start .. c - 1 /\ (m[c - 1].seq => m[c - 1].val <= BufferCells)
    BY <2>1, ReachIsBelow
  <2> QED
    BY <1>0, <1>1, <2>1, <2>2
<1> HIDE DEF B
<1>4. Readable(m, start, b, B)
  BY <1>0, <1>1, <1>2, <1>3 DEF Readable
<1> QED
  BY <1>2, <1>4 DEF B

(* The rest of the page that update() works on.                            *)
LEMMA RestOfPage ==
  ASSUME Typed, NEW cells, Room(cells), pc \in {"scan", "write"}, run.page = newest
  PROVE  /\ Start = First /\ PageEnd = Last /\ newest \in PageNumbers
         /\ First \in Nat \ {0} /\ Last \in 0 .. MemCells
         /\ run.free \in First .. Last /\ run.free + Len(run.pending) <= Last
         /\ Len(run.pending) \in Nat /\ (pc = "write" => Len(run.pending) # 0)
         /\ \A a \in run.free .. Last - 1 : mem[a] = Free
<1>1. newest \in PageNumbers /\ run.free \in Nat /\ run.pending \in Seq(Cell) /\ Start = run.page * PageCells + 1
  BY Bounds
<1>2. First \in Nat \ {0} /\ Last \in 0 .. MemCells /\ Last \in Nat /\ Last = First - 1 + PageCells
  BY <1>1, PageCellsOf DEF First, Last
<1>3. Start = First /\ PageEnd = Last
  BY <1>1, <1>2 DEF First, PageEnd
<1>4. Len(run.pending) \in Nat /\ (pc = "write" => Len(run.pending) # 0)
  BY <1>1, LenProperties, EmptySeq DEF Typed
<1>5. /\ run.free >= First /\ run.free + Len(run.pending) <= Last
      /\ \A a \in run.free .. Last - 1 : mem[a] = Free
  BY <1>3 DEF Room
<1>6. run.free \in First .. Last
  BY <1>1, <1>2, <1>4, <1>5
<1> QED
  BY <1>1, <1>2, <1>3, <1>4, <1>5, <1>6

(* What a load finds if nothing more is written.                           *)
LEMMA Settled ==
  ASSUME Typed, NEW cells, Room(cells), newest \in PageNumbers, ValuesReadBack,
         NEW D, NEW t, NEW k, LogAt(D, t, k), pc = "write" => DataIsContained
  PROVE  \E E : /\ Readable(mem, First, Last, E) /\ Last \in E
                /\ pc # "write" \/ DataIsSilent =>
                     \A j \in Keys : Latest(mem, First, Last)[j] = Latest(mem, First, t)[j]
<1>1. CASE pc # "write"
  <2>1. t = Last /\ Readable(mem, First, t, D) /\ t \in D
    BY <1>1 DEF LogAt
  <2> QED
    BY <2>1
<1>2. CASE pc = "write"
  <2> DEFINE new == Stored(k, config[k])
             n == run.free - t
  <2>1. /\ Readable(mem, First, t, D) /\ t \in D /\ t <= Last
        /\ k \in Present \ unseen /\ run.page = newest
        /\ Writing(k, t)
    BY <1>2 DEF LogAt, Scanned
  <2>2. k \in Keys /\ config[k] \in Values[k]
    BY <2>1 DEF Typed, Present
  <2>3. /\ run.free \in First .. Last /\ run.free + Len(run.pending) <= Last
        /\ Last \in 0 .. MemCells /\ First \in Nat \ {0} /\ Len(run.pending) \in Nat
        /\ \A a \in run.free .. Last - 1 : mem[a] = Free
    BY <1>2, <2>1, RestOfPage
  <2>4. t \in Nat
    <3>1. D \subseteq First .. t /\ t \in 0 .. MemCells
      BY <2>1 DEF Readable
    <3> QED
      BY <3>1, Sizes
  <2>5. n \in 0 .. Len(new) - 1 /\ \A i \in 1 .. n : mem[t + i - 1] = new[i]
    BY <2>1 DEF Writing
  <2>6. t + n = run.free
    BY <2>3, <2>4
  <2> HIDE DEF n
  <2>7. n < Len(new) /\ Begun(mem, First, D, t, k, config[k], n, Last)
    <3>1. Len(new) \in Nat \ {0}
      BY <2>2, CellsTyped
    <3>2. n \in 0 .. Len(new) /\ n < Len(new) /\ Last \in t + n .. MemCells
      BY <2>3, <2>5, <2>6, <3>1, Sizes
    <3> QED
      BY <2>1, <2>2, <2>3, <2>5, <2>6, <3>2 DEF Begun
  <2> QED
    BY <1>2, <2>7, TornValue
<1> QED
  BY <1>1, <1>2

(* update() returns.                                                       *)
LEMMA LogReturn ==
  ASSUME Typed, NEW cells, Room(cells), LogInv, ValuesReadBack, NEW st, Return(st),
         pc = "write" => DataIsContained /\ "write" \in FailAt,
         st = "SUCCESS" => pc = "scan" /\ unseen = {}
  PROVE  LogInv'
<1>1. /\ status' = st /\ pc' = "idle" /\ unseen' = {} /\ mem' = mem /\ config' = config
      /\ newest' = newest
      /\ promised' = IF st = "SUCCESS"
                     THEN [j \in Keys |-> IF j \in Present THEN {config[j]} ELSE promised[j]]
                     ELSE promised
  BY DEF Return
<1>2. First' = First /\ Last' = Last /\ Present' = Present
  BY <1>1 DEF First, Last, Present
<1>3. CASE newest = Pages
  <2>1. newest \notin PageNumbers /\ st # "SUCCESS" /\ \A j \in Keys : NoValue \in promised[j]
    BY <1>3, Sizes DEF LogInv, PageNumbers
  <2> QED
    BY <1>1, <1>3, <2>1 DEF LogInv, NoNeedlessWrite
<1>4. CASE newest \in PageNumbers
  <2>1. PICK D, t, k : LogAt(D, t, k)
    BY <1>4 DEF LogInv
  <2>2. PICK E : /\ Readable(mem, First, Last, E) /\ Last \in E
                 /\ pc # "write" \/ DataIsSilent =>
                      \A j \in Keys : Latest(mem, First, Last)[j] = Latest(mem, First, t)[j]
    BY <1>4, <2>1, Settled
  <2>3. Kept => \A j \in Keys : Latest(mem, First, Last)[j] = Latest(mem, First, t)[j]
    BY <2>2 DEF Kept
  <2>4. ASSUME st = "SUCCESS"
        PROVE  \A j \in Present : Latest(mem, First, Last)[j] = config[j]
    BY <2>1, <2>4 DEF LogAt, Scanned
  <2>5. Kept => \A j \in Keys : Latest(mem, First, Last)[j] \in promised'[j]
    <3> SUFFICES ASSUME Kept, NEW j \in Keys
                 PROVE  Latest(mem, First, Last)[j] \in promised'[j]
      OBVIOUS
    <3>1. Latest(mem, First, Last)[j] \in promised[j]
      BY <2>1, <2>3 DEF LogAt
    <3> QED
      BY <1>1, <2>4, <3>1
  <2>6. newest # Pages /\ Last <= Last
    BY <1>4, Sizes, PageCellsOf DEF PageNumbers, First, Last
  <2>7. LogAt(E, Last, k)'
    BY <1>1, <1>2, <2>2, <2>4, <2>5, <2>6 DEF LogAt
  <2> QED
    BY <1>1, <2>6, <2>7 DEF LogInv, NoNeedlessWrite
<1> QED
  BY <1>3, <1>4, Sizes DEF Typed, PageNumbers

(* A key whose value is another one than a load finds is to be stored.     *)
LEMMA LogStore ==
  ASSUME Typed, NEW cells, Room(cells), LogInv, ValuesReadBack, pc = "scan",
         NEW D, NEW t, NEW l, LogAt(D, t, l),
         NEW k \in unseen, NEW addr \in D, addr <= run.free,
         \A j \in unseen \ {k} : Latest(mem, First, addr)[j] = Latest(mem, First, t)[j],
         Latest(mem, First, t)[k] # config[k], Store(k, addr)
  PROVE  LogInv'
<1> DEFINE new == Stored(k, config[k])
<1>1. /\ k \in Keys /\ k \in Present /\ config[k] \in Values[k]
      /\ new \in Seq(Cell) /\ Len(new) \in Nat \ {0}
  <2>1. k \in Keys /\ config[k] \in Values[k] /\ config[k] # NoValue
    BY UnseenHaveValues
  <2> QED
    BY <2>1, CellsTyped DEF Present
<1>2. /\ Readable(mem, First, Last, D) /\ Last \in D /\ t = Last /\ Last <= Last
      /\ run.page = newest /\ Scanned(D, t, l)
      /\ Kept => \A j \in Keys : Latest(mem, First, Last)[j] \in promised[j]
  BY DEF LogAt, Scanned
<1>3. /\ Start = First /\ PageEnd = Last /\ newest \in PageNumbers /\ newest # Pages
      /\ First \in Nat \ {0} /\ Last \in 0 .. MemCells /\ MemCells \in Nat
      /\ run.free \in First .. Last /\ \A a \in run.free .. Last - 1 : mem[a] = Free
  <2>1. newest \in PageNumbers => newest # Pages
    BY Sizes DEF PageNumbers
  <2> QED
    BY <1>2, <2>1, RestOfPage, Sizes
<1>4. ASSUME newest' = newest, UNCHANGED <<mem, config, promised>>
      PROVE  /\ First' = First /\ Last' = Last /\ Present' = Present
             /\ newest' # Pages /\ newest' \in PageNumbers
             /\ Kept => NoNeedlessWrite'
  <2>1. First' = First /\ Last' = Last /\ Present' = Present
    BY <1>4 DEF First, Last, Present
  <2>2. Kept => promised[k] # {config[k]}
    BY <1>1, <1>2
  <2> QED
    BY <1>1, <1>3, <1>4, <2>1, <2>2 DEF NoNeedlessWrite
<1>5. \A j \in Keys : config[j] \in promised[j]
  BY DEF LogInv
<1>6. CASE \E st \in {"FULL", "WRITE_ERROR"} : Return(st)
  BY <1>6, LogReturn
<1>7. CASE /\ pc' = "locate" /\ run' = NoRun /\ unseen' = unseen \ {k}
           /\ UNCHANGED <<mem, config, status, promised, newest>>
  <2>1. LogAt(D, t, l)'
    BY <1>2, <1>4, <1>7 DEF LogAt
  <2> QED
    BY <1>4, <1>5, <1>7, <2>1 DEF LogInv
<1>8. CASE /\ pc' = "write" /\ run' = [run EXCEPT !.addr = addr, !.pending = new]
           /\ unseen' = unseen \ {k}
           /\ UNCHANGED <<mem, config, status, promised, newest>>
  <2>0. PICK b, B : b = run.free /\ B = D \cap (First .. b)
    OBVIOUS
  <2>1. /\ run'.page = run.page /\ run'.addr = addr /\ run'.free = b /\ run'.pending = new
    BY <1>8, <2>0 DEF Typed, Runs
  <2>2. /\ b .. Last \subseteq D
        /\ \A j \in Keys : Latest(mem, First, Last)[j] = Latest(mem, First, b)[j]
    BY <1>2, <1>3, <2>0, FreeCellsPassed
  <2>3. b \in D /\ b <= Last /\ b \in Nat
    BY <1>3, <2>0, <2>2
  <2>4. Readable(mem, First, b, B) /\ b \in B /\ \A c \in D : c <= b => c \in B
    BY <1>2, <2>0, <2>3, ReadableBelow
  <2>5. Writing(k, b)'
    <3>1. b - b = 0 /\ 0 \in 0 .. Len(new) - 1 /\ Len(new) = Len(new) - 0 /\ 1 .. 0 = {}
          /\ \A i \in 1 .. Len(new) : new[i] = new[0 + i]
      BY <1>1, <2>3
    <3>2. Stored(k, config'[k]) = new
      BY <1>8
    <3> HIDE DEF new
    <3> QED
      BY <2>1, <3>1, <3>2 DEF Writing
  <2>6. addr \in B
    BY <2>0, <2>4
  <2>7. unseen \subseteq Keys /\ unseen' \subseteq Keys /\ Present \subseteq Keys
    BY <1>8 DEF Typed, Present
  <2>8. \A j \in unseen' : Latest(mem, First, addr)[j] = Latest(mem, First, b)[j]
    BY <1>2, <1>8, <2>2, <2>7
  <2>9. ASSUME NEW j \in Present \ unseen'
        PROVE  Latest(mem, First, b)[j] = config[j] \/ j = k
    <3>1. j = k \/ j \in Present \ unseen
      BY <1>8
    <3>2. j \in Present \ unseen => Latest(mem, First, Last)[j] = config[j]
      BY <1>2 DEF Scanned
    <3> QED
      BY <2>2, <2>7, <3>1, <3>2
  <2>10. Scanned(B, b, k)'
    BY <1>2, <1>4, <1>8, <2>1, <2>6, <2>8, <2>9 DEF Scanned
  <2>11. Kept => \A j \in Keys : Latest(mem, First, b)[j] \in promised[j]
    BY <1>2, <2>2
  <2>12. k \in Present \ unseen'
    BY <1>1, <1>8
  <2>13. LogAt(B, b, k)'
    BY <1>4, <1>8, <2>3, <2>4, <2>5, <2>10, <2>11, <2>12 DEF LogAt
  <2> QED
    BY <1>4, <1>5, <1>8, <2>13 DEF LogInv
<1> QED
  BY <1>6, <1>7, <1>8, StoreIs

(* update() scans or writes only in the newest page.                       *)
LEMMA LogFound ==
  ASSUME Typed, LogInv, pc \in {"scan", "write"}
  PROVE  /\ newest \in PageNumbers /\ newest # Pages /\ First \in Nat \ {0}
         /\ \E D, t, k : LogAt(D, t, k) /\ Scanned(D, t, k) /\ Readable(mem, First, t, D) /\ t \in D
<1>1. newest # Pages
  BY DEF LogInv
<1>2. newest \in PageNumbers
  BY <1>1, Sizes DEF Typed, PageNumbers
<1>3. PICK D, t, k : LogAt(D, t, k)
  BY <1>2 DEF LogInv
<1>4. Scanned(D, t, k) /\ Readable(mem, First, t, D) /\ t \in D
  BY <1>3 DEF LogAt
<1> QED
  BY <1>1, <1>2, <1>3, <1>4, PageCellsOf DEF First

(* A step of the scan that stores nothing.                                 *)
LEMMA LogScan ==
  ASSUME Typed, LogInv, pc = "scan", NEW D, NEW t, NEW l, LogAt(D, t, l),
         NEW addr \in D, addr <= run.free, run' = [run EXCEPT !.addr = addr],
         UNCHANGED <<mem, config, pc, status, promised, newest>>,
         \A j \in unseen' : Latest(mem, First, addr)[j] = Latest(mem, First, t)[j],
         \A j \in Present \ unseen' : Latest(mem, First, t)[j] = config[j]
  PROVE  LogInv'
<1>1. /\ Readable(mem, First, t, D) /\ t \in D /\ t <= Last /\ t = Last /\ run.page = newest
      /\ Kept => \A j \in Keys : Latest(mem, First, t)[j] \in promised[j]
      /\ newest \in PageNumbers /\ newest # Pages
  BY LogFound DEF LogAt, Scanned
<1>2. First' = First /\ Last' = Last /\ Present' = Present
  BY DEF First, Last, Present
<1>3. run'.page = run.page /\ run'.addr = addr /\ run'.free = run.free
  BY DEF Typed, Runs
<1>4. Scanned(D, t, l)'
  BY <1>1, <1>2, <1>3 DEF Scanned
<1>5. LogAt(D, t, l)'
  BY <1>1, <1>2, <1>4 DEF LogAt
<1> QED
  BY <1>1, <1>2, <1>5 DEF LogInv, NoNeedlessWrite

LEMMA LogScanSeen ==
  ASSUME Typed, LogInv, ScanSeen
  PROVE  LogInv'
<1> DEFINE c == run.addr
           at == c - 1
<1>1. /\ pc = "scan" /\ c > Start /\ Parses(mem[at]) /\ mem[at].key \notin unseen
      /\ run' = [run EXCEPT !.addr = Skip(mem, at)]
      /\ UNCHANGED <<mem, config, unseen, pc, status, promised, newest>>
  BY DEF ScanSeen, Scanning
<1>2. newest \in PageNumbers /\ First \in Nat \ {0}
  BY <1>1, LogFound
<1>3. PICK D, t, l : LogAt(D, t, l) /\ Scanned(D, t, l) /\ Readable(mem, First, t, D) /\ t \in D
  BY <1>1, LogFound
<1>4. /\ run.page = newest /\ c \in D /\ c <= run.free /\ run.free \in Nat
      /\ \A j \in unseen : Latest(mem, First, c)[j] = Latest(mem, First, t)[j]
      /\ \A j \in Present \ unseen : Latest(mem, First, t)[j] = config[j]
  BY <1>1, <1>3, Bounds DEF Scanned
<1>5. Start = First /\ c # First
  <2>1. Start = First
    BY <1>4 DEF Start, First
  <2> QED
    BY <1>1, <1>2, <2>1
<1> HIDE DEF c
<1>6. /\ Reach(mem, c) \in D /\ Reach(mem, c) \in First .. c - 1 /\ c \in 0 .. MemCells
      /\ Skip(mem, at) = Reach(mem, c)
  BY <1>1, <1>3, <1>4, <1>5, ReachIsBelow, CellRead
<1>7. Reach(mem, c) <= run.free
  BY <1>2, <1>4, <1>6, Sizes
<1>8. ASSUME NEW j \in unseen
      PROVE  Latest(mem, First, Reach(mem, c))[j] = Latest(mem, First, t)[j]
  <2>1. j \in Keys
    BY DEF Typed, Present
  <2>2. Latest(mem, First, c)[j] = Latest(mem, First, Reach(mem, c))[j]
    <3>1. Latest(mem, First, c)[j] =
            IF c = First THEN NoValue
            ELSE IF Parses(mem[c - 1]) /\ mem[c - 1].key = j THEN Content(mem, c)
            ELSE Latest(mem, First, Reach(mem, c))[j]
      BY <1>3, <1>4, <2>1, LatestIs
    <3> QED
      BY <1>1, <1>5, <3>1
  <2> QED
    BY <1>4, <2>2
<1>9. run' = [run EXCEPT !.addr = Reach(mem, c)] /\ unseen' = unseen
  BY <1>1, <1>6
<1> QED
  BY <1>1, <1>3, <1>4, <1>6, <1>7, <1>8, <1>9, LogScan

LEMMA LogScanKey ==
  ASSUME Typed, NEW cells, Room(cells), LogInv, ValuesReadBack, ScanKey
  PROVE  LogInv'
<1> DEFINE c == run.addr
           at == c - 1
           key == mem[at].key
<1>1. /\ pc = "scan" /\ c > Start /\ Parses(mem[at]) /\ key \in unseen
      /\ IF Manifest(mem, Start, at) # config[key]
         THEN Store(key, Below(mem, Start, at))
         ELSE /\ run' = [run EXCEPT !.addr = Below(mem, Start, at)]
              /\ unseen' = unseen \ {key}
              /\ UNCHANGED <<mem, config, pc, status, promised, newest>>
  BY DEF ScanKey, Scanning
<1>2. newest \in PageNumbers /\ First \in Nat \ {0}
  BY <1>1, LogFound
<1>3. PICK D, t, l : LogAt(D, t, l) /\ Scanned(D, t, l) /\ Readable(mem, First, t, D) /\ t \in D
  BY <1>1, LogFound
<1>4. /\ run.page = newest /\ c \in D /\ c <= run.free /\ run.free \in Nat
      /\ \A j \in unseen : Latest(mem, First, c)[j] = Latest(mem, First, t)[j]
      /\ \A j \in Present \ unseen : Latest(mem, First, t)[j] = config[j]
  BY <1>1, <1>3, Bounds DEF Scanned
<1>5. Start = First /\ c # First
  <2>1. Start = First
    BY <1>4 DEF Start, First
  <2> QED
    BY <1>1, <1>2, <2>1
<1> DEFINE r == Reach(mem, c)
<1> HIDE DEF c
<1>6. /\ r \in D /\ r \in First .. c - 1 /\ c \in 0 .. MemCells
      /\ Below(mem, First, at) = r /\ Manifest(mem, First, at) = Content(mem, c)
  BY <1>1, <1>3, <1>4, <1>5, ReachIsBelow, CellRead
<1>7. r <= run.free
  BY <1>2, <1>4, <1>6, Sizes
<1>8. /\ Latest(mem, First, t)[key] = Content(mem, c)
      /\ \A j \in unseen \ {key} : Latest(mem, First, r)[j] = Latest(mem, First, t)[j]
  <2>1. \A j \in unseen : j \in Keys
    BY DEF Typed, Present
  <2>2. \A j \in Keys : Latest(mem, First, c)[j] =
            IF c = First THEN NoValue
            ELSE IF Parses(mem[c - 1]) /\ mem[c - 1].key = j THEN Content(mem, c)
            ELSE Latest(mem, First, Reach(mem, c))[j]
      BY <1>3, <1>4, LatestIs
  <2> HIDE DEF r
  <2>3. Latest(mem, First, c)[key] = Content(mem, c)
    BY <1>1, <1>5, <2>1, <2>2
  <2>4. \A j \in unseen \ {key} : Latest(mem, First, c)[j] = Latest(mem, First, r)[j]
    BY <1>5, <2>1, <2>2 DEF r
  <2> QED
    BY <1>1, <1>4, <2>3, <2>4
<1> HIDE DEF at, key, r
<1>9. CASE Manifest(mem, Start, at) # config[key]
  <2>1. Store(key, r) /\ Latest(mem, First, t)[key] # config[key]
    BY <1>1, <1>5, <1>6, <1>8, <1>9
  <2> QED
    BY <1>1, <1>3, <1>6, <1>7, <1>8, <2>1, LogStore
<1>10. CASE Manifest(mem, Start, at) = config[key]
  <2>1. /\ run' = [run EXCEPT !.addr = r] /\ unseen' = unseen \ {key}
        /\ UNCHANGED <<mem, config, pc, status, promised, newest>>
    BY <1>1, <1>5, <1>6, <1>10
  <2>2. ASSUME NEW j \in Present \ unseen'
        PROVE  Latest(mem, First, t)[j] = config[j]
    <3>1. j = key \/ j \in Present \ unseen
      BY <2>1
    <3>2. Latest(mem, First, t)[key] = config[key]
      BY <1>5, <1>6, <1>8, <1>10
    <3> QED
      BY <1>4, <3>1, <3>2
  <2>3. \A j \in unseen' : Latest(mem, First, r)[j] = Latest(mem, First, t)[j]
    BY <1>8, <2>1
  <2> QED
    BY <1>1, <1>3, <1>6, <1>7, <2>1, <2>2, <2>3, LogScan
<1> QED
  BY <1>9, <1>10

LEMMA LogDumpKey ==
  ASSUME Typed, NEW cells, Room(cells), LogInv, ValuesReadBack, DumpKey
  PROVE  LogInv'
<1>1. pc = "scan" /\ run.addr <= Start
  BY DEF DumpKey
<1>2. PICK k \in unseen : Store(k, run.addr)
  BY DEF DumpKey
<1>3. newest \in PageNumbers /\ First \in Nat \ {0}
  BY <1>1, LogFound
<1>4. PICK D, t, l : LogAt(D, t, l) /\ Scanned(D, t, l) /\ Readable(mem, First, t, D) /\ t \in D
  BY <1>1, LogFound
<1>5. /\ run.page = newest /\ run.addr \in D /\ run.addr <= run.free
      /\ \A j \in unseen : Latest(mem, First, run.addr)[j] = Latest(mem, First, t)[j]
  BY <1>4 DEF Scanned
<1>6. run.addr = First
  <2>1. Start = First
    BY <1>5 DEF Start, First
  <2>2. run.addr \in First .. t /\ t \in 0 .. MemCells
    BY <1>4, <1>5 DEF Readable
  <2> QED
    BY <1>1, <1>3, <2>1, <2>2, Sizes
<1>7. k \in Keys /\ config[k] # NoValue
  BY UnseenHaveValues
<1>8. Latest(mem, First, run.addr)[k] = NoValue
  BY <1>4, <1>5, <1>6, <1>7, LatestIs
<1>9. Latest(mem, First, t)[k] # config[k]
  BY <1>5, <1>7, <1>8
<1> QED
  BY <1>1, <1>2, <1>4, <1>5, <1>9, LogStore

LEMMA LogStart ==
  ASSUME Typed, InRing, Pages > 1, LogInv, StartUpdate
  PROVE  LogInv'
<1> DEFINE p == CurrentPage(Headers)
           frees == {a \in p * PageCells + 1 .. (p + 1) * PageCells :
                       \A b \in a .. (p + 1) * PageCells - 1 : mem[b] = Free}
<1>1. /\ pc = "idle" /\ unseen' = Present
      /\ promised' = [j \in Keys |-> promised[j] \union {config[j]}]
      /\ IF p = Pages THEN pc' = "locate" /\ run' = NoRun
         ELSE /\ pc' = "scan"
              /\ run' = [NoRun EXCEPT !.page = p, !.addr = Min(frees), !.free = Min(frees)]
      /\ UNCHANGED <<mem, config, status, newest>>
  BY DEF StartUpdate
<1>2. p = newest
  BY Current
<1>3. First' = First /\ Last' = Last /\ Present' = Present
  BY <1>1 DEF First, Last, Present
<1>4. \A j \in Keys : config'[j] \in promised'[j] /\ \A v \in promised[j] : v \in promised'[j]
  BY <1>1
<1>5. CASE newest = Pages
  <2>1. newest \notin PageNumbers
    BY <1>5, Sizes DEF PageNumbers
  <2>2. pc' = "locate"
    BY <1>1, <1>2, <1>5
  <2> HIDE DEF p, frees
  <2> QED
    BY <1>1, <1>4, <1>5, <2>1, <2>2 DEF LogInv, NoNeedlessWrite
<1>6. CASE newest # Pages
  <2>1. newest \in PageNumbers
    BY <1>6, Sizes DEF Typed, PageNumbers
  <2> DEFINE b == Min(frees)
  <2>2. /\ b \in p * PageCells + 1 .. p * PageCells + PageCells
        /\ \A a \in b .. p * PageCells + PageCells - 1 : mem[a] = Free
    BY <1>2, <2>1, FreeEnd
  <2>3. /\ pc' = "scan" /\ run'.page = p /\ run'.addr = b /\ run'.free = b
    BY <1>1, <1>2, <1>6 DEF NoRun
  <2> HIDE DEF b
  <2>4. b \in First .. Last /\ \A a \in b .. Last - 1 : mem[a] = Free
    <3> DEFINE s == p * PageCells
    <3>1. First = s + 1 /\ Last = s + PageCells
      BY <1>2 DEF First, Last
    <3>2. b \in s + 1 .. s + PageCells /\ \A a \in b .. s + PageCells - 1 : mem[a] = Free
      BY <2>2
    <3>3. s \in Nat /\ PageCells \in Nat
      BY <1>2, <2>1, PageOf, Sizes
    <3> HIDE DEF s
    <3> QED
      BY <3>1, <3>2, <3>3
  <2>5. run'.page = newest' /\ run'.addr <= run'.free
    <3>1. b \in Nat
      BY <2>1, <2>4, PageCellsOf DEF First, Last
    <3> QED
      BY <1>1, <1>2, <2>3, <3>1
  <2> HIDE DEF p
  <2>6. PICK D, t, l : LogAt(D, t, l)
    BY <2>1 DEF LogInv
  <2>7. /\ Readable(mem, First, Last, D) /\ Last \in D /\ t = Last /\ Last <= Last
        /\ Kept => \A j \in Keys : Latest(mem, First, Last)[j] \in promised[j]
    BY <1>1, <2>6 DEF LogAt
  <2>8. /\ b .. Last \subseteq D
        /\ \A j \in Keys : Latest(mem, First, Last)[j] = Latest(mem, First, b)[j]
    BY <2>4, <2>7, FreeCellsPassed
  <2>9. b \in D
    <3>1. b \in b .. Last
      BY <2>1, <2>4, PageCellsOf DEF First, Last
    <3> QED
      BY <2>8, <3>1
  <2>10. Present \subseteq Keys
    BY DEF Present
  <2>11. Scanned(D, Last, l)'
    BY <1>1, <1>3, <2>3, <2>5, <2>8, <2>9, <2>10 DEF Scanned
  <2>12. Kept => \A j \in Keys : Latest(mem, First, Last)[j] \in promised'[j]
    BY <1>4, <2>7
  <2>13. LogAt(D, t, l)'
    BY <1>1, <1>3, <2>3, <2>7, <2>11, <2>12 DEF LogAt
  <2> QED
    BY <1>1, <1>4, <1>6, <2>3, <2>13 DEF LogInv, NoNeedlessWrite
<1> QED
  BY <1>5, <1>6

LEMMA LogCrash ==
  ASSUME Typed, NEW cells, Room(cells), InRing, Pages > 1, LogInv, ValuesReadBack,
         "write" \in CrashAt => DataIsContained, Crash
  PROVE  LogInv'
<1>1. /\ pc \in CrashAt /\ pc' = "idle" /\ status' = "none" /\ unseen' = {}
      /\ promised' = [j \in Keys |-> {Loaded[j]}] /\ mem' = mem /\ newest' = newest
  BY DEF Crash
<1>2. First' = First /\ Last' = Last
  BY <1>1 DEF First, Last
<1>3. CASE newest = Pages
  <2>1. Loaded = NoConfig /\ newest \notin PageNumbers
    BY <1>3, LoadedIs, Sizes DEF PageNumbers
  <2>2. \A j \in Keys : NoValue \in promised'[j]
    BY <1>1, <2>1 DEF NoConfig
  <2> QED
    BY <1>1, <1>3, <2>1, <2>2 DEF LogInv, NoNeedlessWrite
<1>4. CASE newest # Pages
  <2>1. newest \in PageNumbers
    BY <1>4, Sizes DEF Typed, PageNumbers
  <2>2. PICK D, t, l : LogAt(D, t, l)
    BY <2>1 DEF LogInv
  <2>3. pc = "write" => DataIsContained
    BY <1>1
  <2>4. PICK E : Readable(mem, First, Last, E) /\ Last \in E
    BY <2>1, <2>2, <2>3, Settled
  <2>5. Last <= Last
    BY <2>1, PageCellsOf DEF First, Last
  <2>6. Loaded = Latest(mem, First, Last)
    BY <2>1, LoadedIs
  <2>7. \A j \in Keys : Latest(mem, First, Last)[j] \in promised'[j]
    BY <1>1, <2>6
  <2>8. PICK e : e = Last
    OBVIOUS
  <2>9. LogAt(E, e, l)'
    BY <1>1, <1>2, <2>4, <2>5, <2>7, <2>8 DEF LogAt
  <2> QED
    BY <1>1, <1>4, <2>9 DEF LogInv, NoNeedlessWrite
<1> QED
  BY <1>3, <1>4

LEMMA LogWrite ==
  ASSUME Typed, NEW cells, Room(cells), LogInv, ValuesReadBack, WriteCell, mem' \in Memories
  PROVE  LogInv'
<1> DEFINE a == run.free
           x == Head(run.pending)
<1>1. /\ pc = "write" /\ mem' = [mem EXCEPT ![a] = x]
      /\ run' = [run EXCEPT !.free = a + 1, !.pending = Tail(run.pending)]
      /\ pc' = IF Len(run.pending) = 1 THEN "scan" ELSE "write"
      /\ UNCHANGED <<config, unseen, status, promised, newest>>
  BY DEF WriteCell
<1>2. newest \in PageNumbers /\ newest # Pages /\ First \in Nat \ {0}
  BY <1>1, LogFound
<1>3. PICK D, t, k : LogAt(D, t, k)
  BY <1>1, LogFound
<1>4. /\ Readable(mem, First, t, D) /\ t \in D /\ t <= Last /\ k \in Present \ unseen
      /\ Writing(k, t)
      /\ run.page = newest /\ run.addr \in D /\ run.addr <= a
      /\ \A j \in unseen : Latest(mem, First, run.addr)[j] = Latest(mem, First, t)[j]
      /\ \A j \in Present \ unseen : Latest(mem, First, t)[j] = config[j] \/ j = k
      /\ Kept => \A j \in Keys : Latest(mem, First, t)[j] \in promised[j]
  BY <1>1, <1>3 DEF LogAt, Scanned
<1>5. /\ Last \in 0 .. MemCells /\ Last \in Nat /\ MemCells \in Nat
      /\ a \in First .. Last /\ a + Len(run.pending) <= Last
      /\ Len(run.pending) \in Nat \ {0} /\ a \in Nat /\ run.pending \in Seq(Cell)
      /\ \A b \in a .. Last - 1 : mem[b] = Free
  BY <1>1, <1>2, <1>4, Bounds, RestOfPage, Sizes
<1>6. /\ Tail(run.pending) \in Seq(Cell) /\ Len(Tail(run.pending)) = Len(run.pending) - 1
      /\ x = run.pending[1]
      /\ \A i \in 1 .. Len(run.pending) - 1 : Tail(run.pending)[i] = run.pending[i + 1]
  <2>1. run.pending # <<>>
    BY <1>5, EmptySeq
  <2> QED
    BY <1>5, <2>1, HeadTailProperties
<1>7. /\ First' = First /\ Last' = Last /\ Present' = Present
      /\ run'.page = run.page /\ run'.addr = run.addr /\ run'.free = a + 1
      /\ run'.pending = Tail(run.pending)
  BY <1>1 DEF First, Last, Present, Typed, Runs
<1>8. /\ k \in Keys /\ config[k] \in Values[k] /\ unseen \subseteq Keys /\ Present \subseteq Keys
  BY <1>4 DEF Typed, Present
<1>9. mem \in [Addresses -> Cell] /\ t \in Nat /\ t \in 0 .. MemCells
  <2>1. t \in 0 .. MemCells
    BY <1>4 DEF Readable
  <2> QED
    BY <1>5, <2>1 DEF Typed
<1> DEFINE new == Stored(k, config[k])
<1>10. PICK n : n = a - t
  OBVIOUS
<1>11. /\ n \in 0 .. Len(new) - 1 /\ Len(run.pending) = Len(new) - n
       /\ \A i \in 1 .. Len(run.pending) : run.pending[i] = new[n + i]
       /\ \A i \in 1 .. n : mem[t + i - 1] = new[i]
  BY <1>4, <1>10 DEF Writing
<1>12. Len(new) \in Nat \ {0}
  BY <1>8, CellsTyped
<1> HIDE DEF new
<1>13. /\ n \in Nat /\ a = t + n /\ x = new[n + 1] /\ t <= a
  <2>1. n \in Nat
    BY <1>11, <1>12
  <2> HIDE DEF x, a
  <2>2. a = t + n /\ t <= a
    BY <1>5, <1>9, <1>10, <2>1
  <2>3. 1 \in 1 .. Len(run.pending)
    BY <1>5
  <2>4. x = new[n + 1]
    BY <1>6, <1>11, <2>3
  <2> QED
    BY <2>1, <2>2, <2>4
<1> HIDE DEF x, a
<1>14. a \in Addresses
  BY <1>5, <1>13, <1>2 DEF Addresses
<1>15. mem'[a] = x /\ \A b \in Addresses : b # a => mem'[b] = mem[b]
  BY <1>1, <1>9, <1>14
<1>16. \A i \in 1 .. n + 1 : mem'[t + i - 1] = new[i]
  <2>1. ASSUME NEW i \in 1 .. n
        PROVE  mem'[t + i - 1] = new[i]
    <3>1. t + i - 1 \in Addresses /\ t + i - 1 # a
      BY <1>5, <1>9, <1>13, <1>14 DEF Addresses
    <3> QED
      BY <1>11, <1>15, <3>1
  <2>2. t + (n + 1) - 1 = a
    BY <1>9, <1>13
  <2>3. \A i \in 1 .. n + 1 : i \in 1 .. n \/ i = n + 1
    BY <1>13
  <2> QED
    BY <1>13, <1>15, <2>1, <2>2, <2>3
<1>17. \A b \in First .. t - 1 : mem'[b] = mem[b]
  <2>1. \A b \in First .. t - 1 : b \in Addresses /\ b # a
    BY <1>2, <1>5, <1>9, <1>13 DEF Addresses
  <2> QED
    BY <1>15, <2>1
<1>18. /\ Readable(mem', First, t, D)
       /\ \A c \in D : \A j \in Keys : Latest(mem', First, c)[j] = Latest(mem, First, c)[j]
  BY <1>4, <1>17, WritesAboveUnseen
<1>19. /\ \A j \in unseen : Latest(mem', First, run.addr)[j] = Latest(mem', First, t)[j]
       /\ \A j \in Present \ unseen : Latest(mem', First, t)[j] = config[j] \/ j = k
       /\ Kept => \A j \in Keys : Latest(mem', First, t)[j] \in promised[j]
  BY <1>4, <1>8, <1>18
<1>20. run'.addr <= run'.free
  <2>1. run.addr \in Nat
    BY Bounds, Sizes
  <2> QED
    BY <1>4, <1>5, <1>7, <2>1
<1>21. Kept => NoNeedlessWrite'
  BY <1>1, <1>2, <1>7 DEF LogInv, NoNeedlessWrite
<1>22. \A j \in Keys : config[j] \in promised[j]
  BY <1>1 DEF LogInv
<1>23. pc' # "idle" /\ pc' \notin {"clear", "header"} /\ newest' = newest
  BY <1>1
<1>24. CASE Len(run.pending) # 1
  <2>1. pc' = "write"
    BY <1>1, <1>24
  <2>2. Writing(k, t)'
    <3>1. (a + 1) - t = n + 1 /\ n + 1 \in 0 .. Len(new) - 1
          /\ Len(run.pending) - 1 = Len(new) - (n + 1)
      <4>1. /\ a \in Nat /\ t \in Nat /\ n \in Nat /\ a = t + n
            /\ Len(run.pending) \in Nat \ {0} /\ Len(new) \in Nat
        BY <1>5, <1>9, <1>12, <1>13
      <4>2. Len(run.pending) = Len(new) - n /\ Len(run.pending) # 1
        BY <1>11, <1>24
      <4>3. (a + 1) - t = n + 1
        BY <4>1
      <4> QED
        BY <4>1, <4>2, <4>3
    <3>2. \A i \in 1 .. Len(run.pending) - 1 : Tail(run.pending)[i] = new[(n + 1) + i]
      <4>1. ASSUME NEW i \in 1 .. Len(run.pending) - 1
            PROVE  Tail(run.pending)[i] = new[(n + 1) + i]
        <5>1. i + 1 \in 1 .. Len(run.pending) /\ n + (i + 1) = (n + 1) + i
          BY <1>5, <1>13
        <5> QED
          BY <1>6, <1>11, <5>1
      <4> QED
        BY <4>1
    <3>3. Stored(k, config'[k]) = new
      BY <1>1 DEF new
    <3>4. run'.free - t = n + 1 /\ Len(run'.pending) = Len(run.pending) - 1
      BY <1>6, <1>7, <3>1
    <3>5. \A i \in 1 .. Len(run'.pending) : run'.pending[i] = new[(n + 1) + i]
      BY <1>7, <3>2, <3>4, Zenon
    <3>6. Len(run'.pending) = Len(new) - (n + 1) /\ n + 1 \in 0 .. Len(new) - 1
      BY <3>1, <3>4
    <3> QED
      BY <1>16, <3>3, <3>4, <3>5, <3>6, Zenon DEF Writing
  <2>3. Scanned(D, t, k)'
    BY <1>1, <1>4, <1>7, <1>19, <1>20, <2>1 DEF Scanned
  <2>4. LogAt(D, t, k)'
    BY <1>1, <1>4, <1>7, <1>18, <1>19, <2>1, <2>2, <2>3 DEF LogAt
  <2> QED
    BY <1>1, <1>2, <1>21, <1>22, <1>23, <2>4 DEF LogInv
<1>25. CASE Len(run.pending) = 1
  <2>1. pc' = "scan"
    BY <1>1, <1>25
  <2>2. n + 1 = Len(new) /\ n + 1 \in 0 .. Len(new) /\ Last \in t + (n + 1) .. MemCells
    <3>1. Len(new) - n = 1
      BY <1>11, <1>25
    <3>2. n + 1 = Len(new) /\ n + 1 \in 0 .. Len(new)
      BY <1>12, <1>13, <3>1
    <3>3. a + 1 <= Last
      BY <1>5, <1>25
    <3> QED
      BY <1>5, <1>9, <1>13, <3>2, <3>3
  <2>3. \A b \in t + (n + 1) .. Last - 1 : mem'[b] = Free
    <3>1. \A b \in t + (n + 1) .. Last - 1 : b \in a .. Last - 1 /\ b # a /\ b \in Addresses
      BY <1>5, <1>9, <1>13 DEF Addresses
    <3> QED
      BY <1>5, <1>15, <3>1
  <2>4. Begun(mem', First, D, t, k, config[k], n + 1, Last)
    BY <1>4, <1>8, <1>16, <1>18, <2>2, <2>3 DEF Begun, new
  <2>5. n + 1 = Len(Stored(k, config[k]))
    BY <2>2 DEF new
  <2>6. PICK E : /\ Readable(mem', First, Last, E) /\ D \subseteq E /\ Last \in E
                 /\ \A j \in Keys : Latest(mem', First, Last)[j] =
                                      IF j = k THEN config[k] ELSE Latest(mem', First, t)[j]
    BY <2>4, <2>5, WholeValue
  <2>7. PICK e : e = Last
    OBVIOUS
  <2>8. Scanned(E, e, k)'
    <3>1. \A j \in unseen : Latest(mem', First, run.addr)[j] = Latest(mem', First, e)[j]
      BY <1>4, <1>8, <1>19, <2>6, <2>7
    <3>2. \A j \in Present \ unseen : Latest(mem', First, e)[j] = config[j]
      BY <1>8, <1>19, <2>6, <2>7
    <3> QED
      BY <1>1, <1>4, <1>7, <1>20, <2>6, <3>1, <3>2 DEF Scanned
  <2>9. Kept => \A j \in Keys : Latest(mem', First, e)[j] \in promised[j]
    BY <1>19, <1>22, <2>6, <2>7
  <2>10. e <= Last
    BY <1>5, <2>7
  <2>11. LogAt(E, e, k)'
    BY <1>1, <1>7, <2>1, <2>6, <2>7, <2>8, <2>9, <2>10 DEF LogAt
  <2> QED
    BY <1>1, <1>2, <1>21, <1>22, <1>23, <2>11 DEF LogInv
<1> QED
  BY <1>24, <1>25

(* The page that is cleared is not the one a load looks at.                *)
LEMMA LogClear ==
  ASSUME Typed, InRing, Pages > 1, LogInv, ClearPage, mem' \in Memories
  PROVE  LogInv'
<1>1. /\ pc = "clear" /\ pc' = "header"
      /\ mem' = [a \in Addresses |-> IF a \div PageCells = run.page THEN Free ELSE mem[a]]
      /\ UNCHANGED <<config, unseen, run, status, promised, newest>>
  BY DEF ClearPage, Typed
<1>2. First' = First /\ Last' = Last /\ Present' = Present /\ run.page # newest
  BY <1>1, Current DEF First, Last, Present
<1>3. ASSUME newest \in PageNumbers
      PROVE  \E D, t, k : LogAt(D, t, k)'
  <2>1. PICK D, t, k : LogAt(D, t, k)
    BY <1>3 DEF LogInv
  <2>2. /\ Readable(mem, First, t, D) /\ t \in D /\ t <= Last /\ t = Last
        /\ Kept => \A j \in Keys : Latest(mem, First, t)[j] \in promised[j]
    BY <1>1, <2>1 DEF LogAt
  <2>3. \A a \in First .. t - 1 : mem'[a] = mem[a]
    <3>1. \A a \in First .. Last - 1 : a \in Addresses /\ a \div PageCells = newest
      BY <1>3, PageCellsOf DEF First, Last
    <3> QED
      BY <1>1, <1>2, <2>2, <3>1
  <2>4. /\ Readable(mem', First, t, D)
        /\ \A c \in D : \A j \in Keys : Latest(mem', First, c)[j] = Latest(mem, First, c)[j]
    BY <2>2, <2>3, WritesAboveUnseen
  <2>5. Kept => \A j \in Keys : Latest(mem', First, t)[j] \in promised[j]
    BY <2>2, <2>4
  <2>6. LogAt(D, t, k)'
    BY <1>1, <1>2, <2>2, <2>4, <2>5 DEF LogAt
  <2> QED
    BY <2>6
<1> QED
  BY <1>1, <1>2, <1>3 DEF LogInv, NoNeedlessWrite

(* A new page has nothing that a load could find.                          *)
LEMMA LogHeader ==
  ASSUME Typed, NEW cells, Room(cells), LogInv, WriteHeader, mem' \in Memories
  PROVE  LogInv'
<1> DEFINE p == run.page
<1>1. /\ pc = "header" /\ pc' = "scan" /\ mem' = [mem EXCEPT ![p * PageCells] = Header(run.stamp)]
      /\ run' = [run EXCEPT !.addr = Start, !.free = Start]
      /\ promised' = [j \in Keys |-> {NoValue, config[j]}]
      /\ newest' = p /\ UNCHANGED <<config, unseen, status>>
  BY DEF WriteHeader
<1>2. /\ run'.page = p /\ run'.addr = Start /\ run'.free = Start
      /\ p \in PageNumbers /\ Start \in Nat \ {0} /\ p # Pages
  <2>1. p \in PageNumbers /\ Start \in Nat \ {0}
    BY Bounds
  <2>2. run'.page = p /\ run'.addr = Start /\ run'.free = Start
    BY <1>1 DEF Typed, Runs
  <2> QED
    BY <2>1, <2>2, Sizes DEF PageNumbers
<1>3. PICK f, l : f = Start /\ l = Start - 1 + PageCells
  OBVIOUS
<1>4. f = p * PageCells + 1 /\ l = p * PageCells + PageCells /\ PageEnd = l
  <2>1. f = p * PageCells + 1 /\ PageEnd = l
    BY <1>3 DEF Start, PageEnd
  <2> DEFINE s == p * PageCells
  <2>2. s \in Nat
    BY <1>2, PageOf
  <2>3. f = s + 1 /\ l = f - 1 + PageCells /\ PageCells \in Nat
    BY <1>3, <2>1, Sizes
  <2> HIDE DEF s
  <2>4. l = s + PageCells
    BY <2>2, <2>3
  <2> QED
    BY <2>1, <2>4 DEF s
<1>5. /\ f \in Nat \ {0} /\ l \in 0 .. MemCells /\ l \in Nat /\ f <= l
      /\ f - 1 = p * PageCells /\ MemCells \in Nat
      /\ \A a \in f .. l - 1 : a \in Addresses /\ a # p * PageCells
  BY <1>2, <1>4, PageCellsOf
<1>6. First' = f /\ Last' = l /\ Present' = Present
  BY <1>1, <1>4 DEF First, Last, Present
<1>7. unseen = Present /\ \A j \in Keys : config[j] \in promised'[j] /\ NoValue \in promised'[j]
  BY <1>1 DEF LogInv
<1> HIDE DEF p
<1>8. \A a \in f .. l - 1 : mem'[a] = Free
  <2>1. \A a \in Start - 1 .. PageEnd - 1 : mem[a] = Free
    BY <1>1 DEF Room
  <2>2. \A a \in f .. l - 1 : a \in Start - 1 .. PageEnd - 1
    BY <1>3, <1>4, <1>5
  <2> QED
    BY <1>1, <1>5, <2>1, <2>2 DEF Typed
<1> DEFINE E == {f} \cup (f .. l)
<1>9. Readable(mem', f, l, E) /\ f \in E /\ l \in E
  <2>1. Readable(mem', f, f, {f})
    <3>1. f \in 0 .. MemCells /\ {f} \subseteq f .. f /\ {f} \ {f} = {}
      BY <1>5
    <3> QED
      BY <1>5, <3>1 DEF Readable
  <2>2. ASSUME NEW c \in f + 1 .. l
        PROVE  Reach(mem', c) >= f /\ (mem'[c - 1].seq => mem'[c - 1].val <= BufferCells)
    <3>1. mem'[c - 1] = Free
      BY <1>5, <1>8
    <3>2. Free.seq = TRUE /\ Free.val = 0 /\ c \in Nat /\ BufferCells \in Nat
      BY <1>5, MemoryAssumption DEF Free
    <3> QED
      BY <1>5, <3>1, <3>2 DEF Reach
  <2>3. l \in f .. MemCells /\ f \in E /\ l \in E
    BY <1>5
  <2> QED
    BY <2>1, <2>2, <2>3, ReadableGrows
<1> HIDE DEF E
<1>10. PICK D : D = E
  OBVIOUS
<1>11. \A j \in Keys : Latest(mem', f, f)[j] = NoValue /\ Latest(mem', f, l)[j] = NoValue
  <2>1. \A j \in Keys : Latest(mem', f, l)[j] = Latest(mem', f, f)[j]
    <3>1. f \in f .. l
      BY <1>5
    <3> QED
      BY <1>8, <1>9, <3>1, FreeCellsPassed
  <2>2. \A j \in Keys : Latest(mem', f, f)[j] = NoValue
    BY <1>9, LatestIs
  <2> QED
    BY <2>1, <2>2
<1>12. Present \subseteq Keys /\ f <= f /\ l <= l
  BY <1>5 DEF Present
<1>13. Scanned(D, l, f)'
  <2>1. run'.page = newest' /\ run'.addr = f /\ run'.addr \in D /\ run'.addr <= run'.free
    BY <1>1, <1>2, <1>3, <1>9, <1>10, <1>12
  <2>2. \A j \in unseen' : Latest(mem', First', run'.addr)[j] = Latest(mem', First', l)[j]
    BY <1>1, <1>6, <1>7, <1>11, <1>12, <2>1
  <2>3. Present' \ unseen' = {}
    BY <1>1, <1>6, <1>7
  <2> QED
    BY <2>1, <2>2, <2>3 DEF Scanned
<1>14. LogAt(D, l, f)'
  BY <1>1, <1>6, <1>7, <1>9, <1>10, <1>11, <1>12, <1>13 DEF LogAt
<1> QED
  BY <1>1, <1>2, <1>7, <1>14 DEF LogInv, NoNeedlessWrite

LEMMA LogStep ==
  ASSUME Typed, NEW cells, RoomForAll(cells), Room(cells), InRing, LogInv,
         Pages > 1, "header" \notin CrashAt \cup FailAt, ValuesReadBack,
         "write" \in CrashAt \cup FailAt => DataIsContained, [Next]_vars
  PROVE  LogInv'
<1>0. mem' \in Memories
  BY TypedStep DEF Typed, Memories, Addresses
<1>1. ASSUME newest' = newest, mem' = mem, config' = config, promised' = promised, status' = status,
             run' = run, unseen' = unseen, pc' = pc
      PROVE  LogInv'
  <2>1. First' = First /\ Last' = Last /\ Present' = Present
    BY <1>1 DEF First, Last, Present
  <2>2. ASSUME NEW D, NEW t, NEW k, LogAt(D, t, k)
        PROVE  LogAt(D, t, k)'
    <3>1. Writing(k, t) => Writing(k, t)'
      BY <1>1 DEF Writing
    <3>2. Scanned(D, t, k) => Scanned(D, t, k)'
      BY <1>1, <2>1 DEF Scanned
    <3> QED
      BY <1>1, <2>1, <2>2, <3>1, <3>2 DEF LogAt
  <2> QED
    BY <1>1, <2>1, <2>2 DEF LogInv, NoNeedlessWrite
<1>2. ASSUME NEW k \in Keys, Change(k)
      PROVE  LogInv'
  <2>1. pc = "idle" /\ pc' = pc /\ status' = "none" /\ UNCHANGED <<mem, promised, newest>>
    BY <1>2 DEF Change
  <2>2. First' = First /\ Last' = Last
    BY <2>1 DEF First, Last
  <2>3. ASSUME NEW D, NEW t, NEW l, LogAt(D, t, l)
        PROVE  LogAt(D, t, l)'
    BY <2>1, <2>2, <2>3 DEF LogAt
  <2> QED
    BY <2>1, <2>2, <2>3 DEF LogInv, NoNeedlessWrite
<1>3. CASE Crash
  BY <1>3, LogCrash
<1>4. CASE StartUpdate
  BY <1>4, LogStart
<1>5. CASE ScanGarbage
  BY <1>5, LogReturn DEF ScanGarbage, Scanning
<1>6. CASE ScanSeen
  BY <1>6, LogScanSeen
<1>7. CASE ScanKey
  BY <1>7, LogScanKey
<1>8. CASE DumpKey
  BY <1>8, LogDumpKey
<1>9. CASE DumpDone
  BY <1>9, LogReturn DEF DumpDone
<1>10. CASE WriteCell
  BY <1>0, <1>10, LogWrite
<1>11. CASE Locate
  <2>1. /\ pc = "locate" /\ pc' = "clear" /\ unseen' = Present
        /\ UNCHANGED <<mem, config, status, promised, newest>>
    BY <1>11 DEF Locate
  <2>2. First' = First /\ Last' = Last /\ Present' = Present
    BY <2>1 DEF First, Last, Present
  <2>3. ASSUME NEW D, NEW t, NEW l, LogAt(D, t, l)
        PROVE  LogAt(D, t, l)'
    BY <2>1, <2>2, <2>3 DEF LogAt
  <2> QED
    BY <2>1, <2>2, <2>3 DEF LogInv, NoNeedlessWrite
<1>12. CASE ClearPage
  BY <1>0, <1>12, LogClear
<1>13. CASE WriteHeader
  BY <1>0, <1>13, LogHeader
<1>14. CASE Fail
  <2>1. pc \in FailAt /\ Return("error")
    BY <1>14 DEF Fail
  <2> QED
    BY <2>1, LogReturn
<1>15. CASE UNCHANGED vars
  BY <1>1, <1>15 DEF vars
<1> QED
  BY <1>2, <1>3, <1>4, <1>5, <1>6, <1>7, <1>8, <1>9, <1>10, <1>11, <1>12, <1>13, <1>14, <1>15
     DEF Next, Update

(* What is assumed where values matter: the configuration fits a page,     *)
(* there is more than one, the header is written at once, a load can read  *)
(* the values, and, where a value may be written in part, its data does    *)
(* not lead a scan out of it.                                              *)
ReadableStore ==
  /\ ConfigurationFits /\ Pages > 1 /\ "header" \notin CrashAt \cup FailAt
  /\ ValuesReadBack /\ ("write" \in CrashAt \cup FailAt => DataIsContained)

Stable(cells) == Typed /\ Room(cells) /\ InRing /\ LogInv

LEMMA StableInit ==
  ASSUME NEW cells, Init
  PROVE  Stable(cells)
<1>1. Typed /\ Room(cells)
  BY TypedInit DEF Init, Room
<1>2. \A p \in PageNumbers : mem[p * PageCells] = Free
  BY FirstCells DEF Init, Addresses
<1>3. \A p \in PageNumbers : Headers[p] = "none"
  BY <1>2, HeadersRead, CodesOfValues
<1>4. InRing
  BY <1>3 DEF Init, InRing, Ring
<1>5. newest = Pages /\ newest \notin PageNumbers
  BY Sizes DEF Init, PageNumbers
<1>6. LogInv
  BY <1>5 DEF Init, LogInv, NoNeedlessWrite
<1> QED
  BY <1>1, <1>4, <1>6 DEF Stable

LEMMA StableStep ==
  ASSUME ReadableStore, NEW cells, RoomForAll(cells), Stable(cells), [Next]_vars
  PROVE  Stable(cells)'
<1>1. Typed /\ Room(cells) /\ InRing /\ LogInv
  BY DEF Stable
<1>2. Typed' /\ Room(cells)'
  BY <1>1, TypedStep, RoomStep
<1>3. InRing'
  BY <1>1, RingStep DEF ReadableStore
<1>4. LogInv'
  BY <1>1, LogStep DEF ReadableStore
<1> QED
  BY <1>2, <1>3, <1>4 DEF Stable

(* What a load finds when nothing is being written.                        *)
LEMMA StableLoad ==
  ASSUME ReadableStore, NEW cells, Stable(cells), pc = "write" => DataIsContained
  PROVE  /\ newest \in PageNumbers =>
              \E D, t, k : LogAt(D, t, k) /\ (pc # "write" \/ DataIsSilent =>
                             \A j \in Keys : Loaded[j] = Latest(mem, First, t)[j])
         /\ newest = Pages => Loaded = NoConfig
<1>1. Typed /\ Room(cells) /\ InRing /\ LogInv
  BY DEF Stable
<1>2. ASSUME newest \in PageNumbers
      PROVE  \E D, t, k : LogAt(D, t, k) /\ (pc # "write" \/ DataIsSilent =>
                             \A j \in Keys : Loaded[j] = Latest(mem, First, t)[j])
  <2>1. PICK D, t, k : LogAt(D, t, k)
    BY <1>1, <1>2 DEF LogInv
  <2>2. pc # "write" \/ DataIsSilent =>
          \A j \in Keys : Latest(mem, First, Last)[j] = Latest(mem, First, t)[j]
    BY <1>1, <1>2, <2>1, Settled DEF ReadableStore
  <2>3. Loaded = Latest(mem, First, Last)
    BY <1>1, <1>2, LoadedIs DEF ReadableStore
  <2> QED
    BY <2>1, <2>2, <2>3
<1>3. newest = Pages => Loaded = NoConfig
  BY <1>1, LoadedIs DEF ReadableStore
<1> QED
  BY <1>2, <1>3

(* After update() returned success, a load finds the configuration,        *)
(* whatever was lost, failed or torn before.                               *)
THEOREM SuccessIsStored ==
  ASSUME ConfigurationFits, Pages > 1, "header" \notin CrashAt \cup FailAt,
         ValuesReadBack, "write" \in CrashAt \cup FailAt => DataIsContained
  PROVE  Spec => []SuccessMeansStored
<1>0. ReadableStore
  BY DEF ReadableStore
<1>1. PICK cells : RoomForAll(cells)
  BY DEF ConfigurationFits, RoomForAll
<1>2. Init => Stable(cells)
  BY StableInit
<1>3. Stable(cells) /\ [Next]_vars => Stable(cells)'
  BY <1>0, <1>1, StableStep
<1>4. Stable(cells) => SuccessMeansStored
  <2> SUFFICES ASSUME Stable(cells), pc = "idle", status = "SUCCESS"
               PROVE  \A j \in Present : Loaded[j] = config[j]
    BY DEF SuccessMeansStored
  <2>1. Typed /\ LogInv
    BY DEF Stable
  <2>2. newest \in PageNumbers
    BY <2>1, Sizes DEF LogInv, Typed, PageNumbers
  <2>3. PICK D, t, k : LogAt(D, t, k) /\ \A j \in Keys : Loaded[j] = Latest(mem, First, t)[j]
    BY <1>0, <2>2, StableLoad
  <2>4. \A j \in Present : j \in Keys /\ Latest(mem, First, t)[j] = config[j]
    BY <2>3 DEF LogAt, Present
  <2> QED
    BY <2>3, <2>4
<1> QED
  BY <1>2, <1>3, <1>4, PTL DEF Spec

(* An update of what is stored already writes and clears nothing, if what  *)
(* a failed write left behind is not taken for a value.                    *)
THEOREM NothingWrittenTwice ==
  ASSUME ConfigurationFits, Pages > 1, "header" \notin CrashAt \cup FailAt,
         ValuesReadBack, "write" \in CrashAt \cup FailAt => DataIsContained,
         "write" \in FailAt => DataIsSilent
  PROVE  Spec => []NoNeedlessWrite
<1>0. ReadableStore /\ Kept
  BY DEF ReadableStore, Kept
<1>1. PICK cells : RoomForAll(cells)
  BY DEF ConfigurationFits, RoomForAll
<1>2. Init => Stable(cells)
  BY StableInit
<1>3. Stable(cells) /\ [Next]_vars => Stable(cells)'
  BY <1>0, <1>1, StableStep
<1>4. Stable(cells) => NoNeedlessWrite
  BY <1>0 DEF Stable, LogInv
<1> QED
  BY <1>2, <1>3, <1>4, PTL DEF Spec

(* Wherever power is lost, also between two cells of a value, a load finds *)
(* for each key a value of the last successful update or a later one.      *)
THEOREM LoadsAreKept ==
  ASSUME ConfigurationFits, Pages > 1, "header" \notin CrashAt \cup FailAt,
         ValuesReadBack, DataIsContained, DataIsSilent
  PROVE  Spec => []LoadsWhatWasPromised
<1>0. ReadableStore /\ Kept
  BY DEF ReadableStore, Kept
<1>1. PICK cells : RoomForAll(cells)
  BY DEF ConfigurationFits, RoomForAll
<1>2. Init => Stable(cells)
  BY StableInit
<1>3. Stable(cells) /\ [Next]_vars => Stable(cells)'
  BY <1>0, <1>1, StableStep
<1>4. Stable(cells) => LoadsWhatWasPromised
  <2> SUFFICES ASSUME Stable(cells), NEW j \in Keys
               PROVE  Loaded[j] \in promised[j]
    BY DEF LoadsWhatWasPromised
  <2>1. Typed /\ LogInv
    BY DEF Stable
  <2>2. CASE newest = Pages
    <3>1. Loaded = NoConfig
      BY <1>0, <2>2, StableLoad
    <3> QED
      BY <2>1, <2>2, <3>1 DEF LogInv, NoConfig
  <2>3. CASE newest # Pages
    <3>1. newest \in PageNumbers
      BY <2>1, <2>3, Sizes DEF Typed, PageNumbers
    <3>2. PICK D, t, k : LogAt(D, t, k) /\ \A i \in Keys : Loaded[i] = Latest(mem, First, t)[i]
      BY <1>0, <3>1, StableLoad
    <3> QED
      BY <1>0, <3>2 DEF LogAt
  <2> QED
    BY <2>2, <2>3
<1> QED
  BY <1>2, <1>3, <1>4, PTL DEF Spec

=============================================================================
