------------------------------ MODULE CfgStore ------------------------------
(***************************************************************************)
(* The configuration store of experimental/cfg: key-value pairs logged     *)
(* into the pages of a memory that is written cell by cell and cleared     *)
(* page by page.  update() appends what changed to the current page and,   *)
(* when that is full, rotates: it picks the next page by the page headers, *)
(* clears it, writes its header and dumps the whole configuration.  load() *)
(* reads the current page from its end.  Steps end where memory changes,   *)
(* so that a crash or a failing callback can come between any two.         *)
(*                                                                         *)
(* Addresses count cells.  A cell is its 64 bits as deser_cell splits      *)
(* them: the sequence flag, 31 bits of key, 32 bits of value.              *)
(***************************************************************************)
EXTENDS Integers, Sequences, FiniteSetsExt

CONSTANTS
  Keys,        (* The keys of the configuration.                           *)
  Values,      (* Values[k]: the values the key k may have.                *)
  NoValue,     (* Marks a key that is not in the configuration.            *)
  Pages,       (* The number of pages,                                     *)
  PageCells,   (* and of cells in each, its header included.               *)
  BufferCells, (* Cells in the buffer of the interface.                    *)
  CrashAt,     (* Steps of update() before which a crash may come.         *)
  FailAt       (* Steps of update() whose callback may return an error.    *)

MemCells == Pages * PageCells

Cell == [seq : BOOLEAN, key : Nat, val : Nat]

Free == [seq |-> TRUE, key |-> 0, val |-> 0]

(* Values of more than half a cell are whole cells, padded by the client;  *)
(* shorter ones are the number in the value half of one cell.              *)
Narrow(x) == [wide |-> FALSE, cells |-> <<[seq |-> FALSE, key |-> 0, val |-> x]>>]
Wide(cells) == [wide |-> TRUE, cells |-> cells]

ASSUME MemoryAssumption ==
  /\ Keys \subseteq Nat
  /\ Pages \in Nat \ {0} /\ PageCells \in Nat \ {0, 1} /\ BufferCells \in Nat
  /\ \A k \in Keys : \A v \in Values[k] :
       v.wide \in BOOLEAN /\ v.cells \in Seq(Cell) /\ (v.wide \/ v.cells # <<>>)

VARIABLES
  mem,       (* The memory.                                                *)
  config,    (* The configuration of the program.                          *)
  unseen,    (* keys_seen: the keys update() has still to come across.     *)
  pc,        (* The next step of update().                                 *)
  run,       (* The local variables of update().                           *)
  status,    (* What the latest update() returned.                         *)
  promised,  (* History: the values a load may find for each key.          *)
  newest     (* History: the page whose header was written last.           *)

vars == <<mem, config, unseen, pc, run, status, promised, newest>>

(* page and rotated give the bounds of the page update() works on, addr is *)
(* the cell above the one to scan next, free the first free cell, pending  *)
(* what write() has still to write, stamp the header of the new page.      *)
NoRun == [page |-> 0, rotated |-> FALSE, addr |-> 0, free |-> 0,
          pending |-> <<>>, stamp |-> "A"]

NoConfig == [k \in Keys |-> NoValue]

Init ==
  /\ mem = [a \in 0 .. MemCells - 1 |-> Free]
  /\ config = NoConfig
  /\ unseen = {} /\ pc = "idle" /\ run = NoRun
  /\ status = "none"
  /\ promised = [k \in Keys |-> {NoValue}]
  /\ newest = Pages

Present == {k \in Keys : config[k] # NoValue}

-----------------------------------------------------------------------------
(* Page headers.                                                           *)

States == {"A", "B", "C"}

(* The first two bytes of the page, the second the first's complement.     *)
HeaderBits == [A |-> 48960, B |-> 32640, C |-> 16320]

Header(s) == [seq |-> TRUE, key |-> 0, val |-> HeaderBits[s]]

HeaderOf(p) ==
  LET matching == {s \in States : mem[p * PageCells].val % 65536 = HeaderBits[s]}
  IN IF matching = {} THEN "none" ELSE CHOOSE s \in matching : TRUE

Headers == [p \in 0 .. Pages - 1 |-> HeaderOf(p)]

(* Wrong variant: counts on instead of around.                             *)
FollowingUnwrapped(s) == CASE s = "A" -> "B" [] s = "B" -> "C" [] s = "C" -> "D"

Following(s) == CASE s = "A" -> "B" [] s = "B" -> "C" [] s = "C" -> "A"

(* The last page of the first run of equal headers; Pages if there is none.*)
CurrentPage(headers) ==
  LET stamped == {p \in DOMAIN headers : headers[p] # "none"}
      leading == {p \in stamped : \A q \in Min(stamped) .. p :
                                    headers[q] = headers[Min(stamped)]}
  IN IF stamped = {} THEN Pages ELSE Max(leading)

(* Wrong variant: starts the next round with the header of the last one.   *)
NextPageSameRound(headers) ==
  LET others == {p \in DOMAIN headers : headers[p] = "none" \/ headers[p] # headers[0]}
  IN IF others = {} THEN [page |-> 0, stamp |-> headers[0]]
     ELSE [page |-> Min(others),
           stamp |-> IF headers[Min(others)] = "none" THEN "A" ELSE headers[0]]

(* The first page without a header or with another one than the first      *)
(* page's, or else the first page, in a new round.                         *)
NextPage(headers) ==
  LET others == {p \in DOMAIN headers : headers[p] = "none" \/ headers[p] # headers[0]}
  IN IF others = {} THEN [page |-> 0, stamp |-> Following(headers[0])]
     ELSE [page |-> Min(others),
           stamp |-> IF headers[Min(others)] = "none" THEN "A" ELSE headers[0]]

-----------------------------------------------------------------------------
(* Cells.                                                                  *)

(* ser_cell and store_kval_impl: the cells written for a key; the header   *)
(* of a sequence comes after its data.                                     *)
Stored(k, v) ==
  IF v.wide THEN Append(v.cells, [seq |-> TRUE, key |-> k, val |-> Len(v.cells)])
            ELSE <<[seq |-> FALSE, key |-> k, val |-> v.cells[1].val]>>

(* Whatever values the keys have, the cells written for all of them have a *)
(* page below its header: cells[S] is room enough for the keys S.          *)
ConfigurationFits ==
  \E cells \in [SUBSET Keys -> 0 .. PageCells - 1] :
    \A S \in SUBSET Keys : \A k \in Keys \ S : \A v \in Values[k] :
      cells[S] + Len(Stored(k, v)) <= cells[S \union {k}]

(* deser_cell.                                                             *)
Parses(c) == ~(c.seq /\ c.val = 0)

(* What is assumed where the values themselves matter.  That a cell or a   *)
(* sequence that fits the buffer is all there is to a value:               *)
ValuesReadBack ==
  \A k \in Keys : \A v \in Values[k] :
    IF v.wide THEN v = Wide(v.cells) /\ Len(v.cells) \in 1 .. BufferCells
              ELSE v = Narrow(v.cells[1].val)

(* that counts in the data of a sequence do not lead out of it, if it is   *)
(* taken for cells:                                                        *)
DataIsContained ==
  \A k \in Keys : \A v \in Values[k] :
    v.wide => \A i \in DOMAIN v.cells : v.cells[i].seq => v.cells[i].val < i

(* that none of the data looks like a cell of a key.                       *)
DataIsSilent ==
  \A k \in Keys : \A v \in Values[k] :
    v.wide => \A i \in DOMAIN v.cells : v.cells[i].key \in Keys => ~Parses(v.cells[i])

(* decr_addr, which leaves the address alone when it would wrap.           *)
Decr(addr, n) == IF n > addr THEN addr ELSE addr - n

(* Wrong variant: takes the data of a seen sequence for cells.             *)
SkipHeaderOnly(m, at) == at

(* Where a scan of the memory m goes on below a cell whose key was seen.   *)
Skip(m, at) == IF m[at].seq THEN Decr(at, m[at].val) ELSE at

Unreadable == Wide(<<>>)

(* manifest_value: the value of the cell, nothing if the data reaches      *)
(* below the page or does not fit the buffer.                              *)
Manifest(m, start, at) ==
  LET c == m[at]
  IN IF ~c.seq THEN Narrow(c.val)
     ELSE IF c.val > BufferCells \/ at - c.val < start THEN Unreadable
     ELSE Wide([i \in 1 .. c.val |-> m[at - c.val + i - 1]])

(* Where the scan goes on below that value.                                *)
Below(m, start, at) ==
  LET c == m[at]
  IN IF ~c.seq THEN at
     ELSE IF c.val > BufferCells THEN at - 1
     ELSE IF at - c.val < start THEN start - 1
     ELSE at - c.val

(* load_stored_config, into an empty configuration: the latest cell of a   *)
(* key counts, and cells that do not parse are passed over.  What is found *)
(* for the wanted keys below an address of the page that begins at start.  *)
Load(m, start) ==
  LET load[addr \in 0 .. MemCells] ==
        [wanted \in SUBSET Keys |->
           LET at == addr - 1
               key == m[at].key
           IN IF addr <= start THEN NoConfig
              ELSE IF ~Parses(m[at]) THEN load[at][wanted]
              ELSE IF key \notin wanted THEN load[Skip(m, at)][wanted]
              ELSE IF Manifest(m, start, at) = Unreadable THEN NoConfig
              ELSE [load[Below(m, start, at)][wanted \ {key}]
                      EXCEPT ![key] = Manifest(m, start, at)]]
  IN load

(* load.                                                                   *)
Loaded ==
  LET page == CurrentPage(Headers)
      start == page * PageCells + 1
  IN IF page = Pages THEN NoConfig ELSE Load(mem, start)[start - 1 + PageCells][Keys]

-----------------------------------------------------------------------------
(* The program around the store.                                           *)

Change(k) ==
  /\ pc = "idle"
  /\ \E v \in Values[k] \union {NoValue} :
       v # config[k] /\ config' = [config EXCEPT ![k] = v]
  /\ status' = "none"
  /\ UNCHANGED <<mem, unseen, pc, run, promised, newest>>

(* Power is lost between two writes; what boots next loads the memory and  *)
(* has no value for a key whose bytes are none of its values.              *)
Crash ==
  /\ pc \in CrashAt
  /\ config' = [k \in Keys |-> IF Loaded[k] \in Values[k] THEN Loaded[k] ELSE NoValue]
  /\ promised' = [k \in Keys |-> {Loaded[k]}]
  /\ status' = "none" /\ pc' = "idle" /\ run' = NoRun /\ unseen' = {}
  /\ UNCHANGED <<mem, newest>>

-----------------------------------------------------------------------------
(* update().                                                               *)

Start == run.page * PageCells + 1

(* The bounds of the dump after a rotation are one cell up (:486).         *)
End == Start - 1 + PageCells + (IF run.rotated THEN 1 ELSE 0)

Return(st) ==
  /\ status' = st /\ pc' = "idle" /\ run' = NoRun /\ unseen' = {}
  /\ promised' = IF st = "SUCCESS"
                 THEN [k \in Keys |-> IF k \in Present THEN {config[k]} ELSE promised[k]]
                 ELSE promised
  /\ UNCHANGED <<mem, config, newest>>

(* A callback that only reads or clears nothing reports an error.          *)
Fail ==
  /\ pc \in FailAt
  /\ Return("error")

(* Scanning starts below the free cells at the end of the page.            *)
StartUpdate ==
  LET page == CurrentPage(Headers)
      start == page * PageCells + 1
      end == (page + 1) * PageCells
      frees == {a \in start .. end : \A b \in a .. end - 1 : mem[b] = Free}
  IN /\ pc = "idle"
     /\ unseen' = Present
     /\ promised' = [k \in Keys |-> promised[k] \union {config[k]}]
     /\ IF page = Pages
        THEN pc' = "locate" /\ run' = NoRun
        ELSE /\ pc' = "scan"
             /\ run' = [NoRun EXCEPT !.page = page, !.addr = Min(frees),
                                      !.free = Min(frees)]
     /\ UNCHANGED <<mem, config, status, newest>>

(* store_key and what its callers make of a full page, in a step that      *)
(* leaves addr at the given address and unseen without the key k.          *)
Store(k, addr) ==
  LET cells == Stored(k, config[k])
      above == run.free + Len(cells)
  IN CASE above > End /\ run.rotated -> Return("FULL")
       [] above > End /\ ~run.rotated ->
            /\ pc' = "locate" /\ run' = NoRun /\ unseen' = unseen \ {k}
            /\ UNCHANGED <<mem, config, status, promised, newest>>
       [] above <= End /\ above > MemCells -> Return("WRITE_ERROR")
       [] above <= End /\ above <= MemCells ->
            /\ pc' = "write"
            /\ run' = [run EXCEPT !.addr = addr, !.pending = cells]
            /\ unseen' = unseen \ {k}
            /\ UNCHANGED <<mem, config, status, promised, newest>>

Scanning == pc = "scan" /\ run.addr > Start

ScanGarbage ==
  /\ Scanning
  /\ ~Parses(mem[run.addr - 1])
  /\ Return("DESER_ERROR")

(* Wrong variant: stays on the cell.                                       *)
ScanSeenStuck ==
  /\ Scanning
  /\ Parses(mem[run.addr - 1]) /\ mem[run.addr - 1].key \notin unseen
  /\ UNCHANGED vars

(* A key that was seen already, or that the program does not know.         *)
ScanSeen ==
  /\ Scanning
  /\ Parses(mem[run.addr - 1]) /\ mem[run.addr - 1].key \notin unseen
  /\ run' = [run EXCEPT !.addr = Skip(mem, run.addr - 1)]
  /\ UNCHANGED <<mem, config, unseen, pc, status, promised, newest>>

ScanKey ==
  LET at == run.addr - 1
      key == mem[at].key
  IN /\ Scanning
     /\ Parses(mem[at]) /\ key \in unseen
     /\ IF Manifest(mem, Start, at) # config[key]
        THEN Store(key, Below(mem, Start, at))
        ELSE /\ run' = [run EXCEPT !.addr = Below(mem, Start, at)]
             /\ unseen' = unseen \ {key}
             /\ UNCHANGED <<mem, config, pc, status, promised, newest>>

(* dump_unseen_keys: what the page does not have, in any order.            *)
DumpKey ==
  /\ pc = "scan" /\ run.addr <= Start
  /\ \E k \in unseen : Store(k, run.addr)

DumpDone ==
  /\ pc = "scan" /\ run.addr <= Start /\ unseen = {}
  /\ Return("SUCCESS")

(* Wrong variant: the next write goes over this one.                       *)
WriteCellInPlace ==
  /\ pc = "write"
  /\ mem' = [mem EXCEPT ![run.free] = Head(run.pending)]
  /\ run' = [run EXCEPT !.pending = Tail(@)]
  /\ pc' = IF Len(run.pending) = 1 THEN "scan" ELSE "write"
  /\ UNCHANGED <<config, unseen, status, promised, newest>>

(* write() of a value, one cell after the other.                           *)
WriteCell ==
  /\ pc = "write"
  /\ mem' = [mem EXCEPT ![run.free] = Head(run.pending)]
  /\ run' = [run EXCEPT !.free = @ + 1, !.pending = Tail(@)]
  /\ pc' = IF Len(run.pending) = 1 THEN "scan" ELSE "write"
  /\ UNCHANGED <<config, unseen, status, promised, newest>>

(* Wrong variant: dumps only what the scan of the old page did not see.    *)
LocateKeepingKeys ==
  LET next == NextPage(Headers)
  IN /\ pc = "locate"
     /\ run' = [NoRun EXCEPT !.page = next.page, !.rotated = TRUE, !.stamp = next.stamp]
     /\ pc' = "clear"
     /\ UNCHANGED <<mem, config, unseen, status, promised, newest>>

(* locate_next_page and reset_keys.                                        *)
Locate ==
  LET next == NextPage(Headers)
  IN /\ pc = "locate"
     /\ run' = [NoRun EXCEPT !.page = next.page, !.rotated = TRUE, !.stamp = next.stamp]
     /\ unseen' = Present
     /\ pc' = "clear"
     /\ UNCHANGED <<mem, config, status, promised, newest>>

ClearPage ==
  /\ pc = "clear"
  /\ mem' = [a \in DOMAIN mem |-> IF a \div PageCells = run.page THEN Free ELSE mem[a]]
  /\ pc' = "header"
  /\ UNCHANGED <<config, unseen, run, status, promised, newest>>

(* From here on a load finds the new page, as far as it is written.        *)
WriteHeader ==
  /\ pc = "header"
  /\ mem' = [mem EXCEPT ![run.page * PageCells] = Header(run.stamp)]
  /\ run' = [run EXCEPT !.addr = Start, !.free = Start]
  /\ pc' = "scan"
  /\ promised' = [k \in Keys |-> {NoValue, config[k]}]
  /\ newest' = run.page
  /\ UNCHANGED <<config, unseen, status>>

Update ==
  \/ ScanGarbage \/ ScanSeen \/ ScanKey \/ DumpKey \/ DumpDone
  \/ WriteCell \/ Locate \/ ClearPage \/ WriteHeader \/ Fail

Next == (\E k \in Keys : Change(k)) \/ Crash \/ StartUpdate \/ Update

Spec == Init /\ [][Next]_vars

(* A call of update() runs on until it returns.                            *)
FairSpec == Spec /\ WF_vars(Update)

-----------------------------------------------------------------------------
(* Properties.                                                             *)

(* Memory holds cells, the local variables of update() are addresses of    *)
(* the memory and cells to be written, program counters are those above.   *)
TypeOK ==
  /\ mem \in [0 .. MemCells - 1 -> Cell]
  /\ \A k \in Keys : config[k] \in Values[k] \union {NoValue}
  /\ unseen \subseteq Keys
  /\ pc \in {"idle", "scan", "write", "locate", "clear", "header"}
  /\ run.page \in 0 .. Pages - 1 /\ run.rotated \in BOOLEAN /\ run.stamp \in States
  /\ run.addr \in 0 .. MemCells /\ run.free \in 0 .. MemCells
  /\ run.pending \in Seq(Cell)
  /\ newest \in 0 .. Pages

(* After update() returned success, a load finds the configuration         *)
(* (cfg2_test.cpp, integration).                                           *)
SuccessMeansStored ==
  pc = "idle" /\ status = "SUCCESS" => \A k \in Present : Loaded[k] = config[k]

(* Wherever the power is lost, a load finds for each key a value of the    *)
(* last successful update or one that an update tried to store since; only *)
(* while a new page is being filled may it find none.                      *)
LoadsWhatWasPromised == \A k \in Keys : Loaded[k] \in promised[k]

(* The page headers alone tell which page was started last, and go on      *)
(* doing so while the next one is cleared.                                 *)
CurrentIsNewest == CurrentPage(Headers) = newest

(* A cell is written once after its page was cleared, as flash memory      *)
(* requires.                                                               *)
WriteOnce ==
  [][\A a \in DOMAIN mem : mem[a] # Free => mem'[a] \in {mem[a], Free}]_vars

(* An update of a configuration that is already stored writes and clears   *)
(* nothing, it does not wear the memory out; only the very first one       *)
(* starts a page in any case.                                              *)
NoNeedlessWrite ==
  newest # Pages /\ pc \in {"write", "locate", "clear", "header"} =>
    \E k \in Present : promised[k] # {config[k]}

(* update() returns.                                                       *)
UpdateReturns == pc # "idle" ~> pc = "idle"

=============================================================================
