# Verification of emlabcpp

emlabcpp is a header-only C++ library for embedded systems: containers without
dynamic memory, memory resources, a binary protocol library, coroutines for
cooperative scheduling, a configuration store for flash memory and a number of
utilities. This directory holds TLA+ models of those parts of it that keep
state and of its converters and algorithms, the TLC configurations that check them and proofs about them.

## 1. Inventory

Paths are below `src/include/emlabcpp/`. "Hard" names what tests hardly reach.

| Part | State | Operations | Hard | Correct when |
|---|---|---|---|---|
| `static_circular_buffer.hpp`, `static_storage.hpp` | slots, two atomic indices, one of two index strategies | insert one or a range, remove one or many, take, clear, copy, move, iterate | producer and consumer in interrupt and main loop; wrap of indices and of runs of slots; full buffer; lifetime of elements | it is a bounded FIFO queue; both sides are never in one slot; every object is constructed and destroyed once |
| `experimental/cfg/` | pages of a memory, page headers, the caller's list of keys not seen | `update`, `load`, through callbacks of the client | power loss between writes, failing callbacks, rotation of pages, data that looks like cells | a load finds what the last successful update stored; headers tell the newest page; cells are written once |
| `protocol/sequencer.hpp`, `packet.hpp`, `packet_handler.hpp`, `endpoint.hpp`, `handler.hpp` | a circular buffer of received bytes | insert bytes, get a message or a number of bytes to read | noise, partial prefixes, lengths beyond the buffer, a full buffer | every whole message after noise is delivered once, requests never ask beyond the message |
| `protocol/message.hpp` | bytes and their number | insert, resize, assign | limits | size within capacity |
| `protocol/register_map.hpp`, `register_handler.hpp` | one value per register | select, insert, extract by key | message too short or long for the register | a register holds the last value inserted under its key |
| `protocol/converter.hpp`, `serializer.hpp`, `command_group.hpp`, ... | none | serialise, deserialise | ranges, variants, sizes, endianness | deserialising what was serialised gives the value, a message that was cut is noticed, nothing is read beyond the end |
| `pmr/pool_resource.hpp` | pools, free list | allocate, deallocate | double deallocation, alignment at the limit | a pool has one owner |
| `pmr/stack_resource.hpp` | a buffer with nodes between the blocks, top | allocate, deallocate in any order | relinking, padding, sizes at the limit | blocks and nodes never overlap, freed space at the top comes back |
| other `pmr/` | none | adapters to the standard allocators | | |
| `experimental/coro/request_reply.hpp`, `round_robin_executor.hpp` | a request, a reply, a coroutine handle, the position of the executor | get request, store reply, tick | order of the public calls, a coroutine without a request | each reply reaches the coroutine that asked |
| `experimental/coro/recursive.hpp` | handle, pointer to what is awaited | tick, run, await | dangling pointer, errors in the chain | a tick advances the innermost coroutine, the value travels up |
| `experimental/coro/owning_coroutine_handle.hpp`, `memory_promise.hpp` | handle, resource pointer | move, destroy, allocate | double destruction | a frame is destroyed once |
| `static_vector.hpp` | slots, size | as a vector, swap | swap of different sizes | slots below the size hold values, others none |
| `static_function.hpp` | a stored callable, a table of its type | assign, copy, move, reset, call | lifetime, a copy that throws, alignment inside the buffer | constructed and destroyed once, whole inside the buffer |
| `experimental/function_view.hpp`, `experimental/derived_storage.hpp` | a pointer to a callable; a stored object | call, copy | | |
| `experimental/cobs.hpp` | encoder and decoder positions and counters | insert, commit, advance | runs of 254, end of the target | decoding what was encoded gives the data |
| `experimental/rpc.hpp` | none beyond the call | call, react | errors | the reply answers the call |
| `pid.hpp` | integral, last error, last time, limits | update, reset, update_limits | limits that change, a clock that wraps | output within limits |
| `bounded.hpp` | a number of a range that its type names | make, rotate | arithmetic of the underlying type | rotations stay in the range and add up |
| `algorithm.hpp`, `view.hpp`, `iterators/`, `zip.hpp`, `enumerate.hpp`, `experimental/string_buffer.hpp` | none | searches, folds, views, expansions over indices | tuples against ranges, partial blocks of indices, ends of zipped ranges | equal questions get equal answers |
| `quantity.hpp`, `types.hpp`, `experimental/geom/`, ... | none | pure functions | | |

The parts interact by plain calls: the sequencer, the round-robin executor and
the packet handler hold circular buffers, the circular buffer holds a static
storage, the pool resource a static vector; coroutine frames come from a memory
resource; the configuration store calls back into its client for every read,
write and clear. Concurrency exists in one place: the circular buffer "is safe
in single consumer single producer scenario between main loop and interrupts".
Persistence exists in one place: the configuration store.

## 2. Modules

| Module | Models | EXTENDS / uses |
|---|---|---|
| `CircularIndex` | the two index strategies as functions of indices | |
| `BoundedFifo` | the abstract queues a family of circular buffers is | |
| `StaticCircularBuffer` | `static_circular_buffer` and `static_storage`, one step per public operation | `CircularIndex`; instance of `BoundedFifo` |
| `SpscBuffer` | one buffer between an interrupt and the main loop, one step per load and store | `CircularIndex` |
| `CfgStore` | `experimental/cfg` with its callbacks, crashes and failures | |
| `Sequencer` | what `get_message` does to the bytes of its buffer, and what a stream of bytes holds | |
| `Endpoint` | sequencer, packets and `endpoint` between a line and a client | `Sequencer` |
| `ConversionResult` | `conversion_result` | |
| `Converters` | the definitions of `protocol/`, their traits and their converters | `ConversionResult` |
| `Line` | a sender and a receiver of one definition over a line that cuts, extends and damages | `Converters` |
| `Registers` | `register_map`, `register_handler`: a map and its mirror over a line that loses, cuts, repeats and reorders | `ConversionResult`; converters are constants |
| `Rpc` | controller and reactor of `experimental/rpc.hpp` over an unreliable transport | `ConversionResult`; converters are constants |
| `ProtocolMessages` | the converters of these two: the groups of requests and replies, the registers | `Converters`, `Registers`, `Rpc` |
| `Cobs` | the encoder and the decoders of `experimental/cobs.hpp` | |
| `Alignment` | the alignment arithmetic of `pmr/util.hpp` | |
| `PrivateMemory` | the abstract promise of a memory resource | |
| `StackResource` | `pmr/stack_resource.hpp`: the bytes of the buffer with blocks and nodes | `Alignment`; instance of `PrivateMemory` |
| `PoolResource` | `pmr/pool_resource.hpp`: the free list and the blocks | `Alignment` |
| `RoundRobin` | `request_reply` coroutines under `round_robin_run`, their handles, and their frames in a pool | `PoolResource` |
| `RecursiveCoroutine` | a chain of `recursive_coroutine`s and a device the innermost waits for | |
| `BoundedStack` | the abstract stacks a family of vectors is | |
| `StaticVector` | `static_vector` over `static_storage` | instance of `BoundedStack` |
| `StaticFunction` | `static_function`: the callable, its place and its lifetime | `Alignment` |
| `Numbers` | `bounded` and its rotations, `pid` | |
| `Algorithms` | algorithms, views, zip, index functions, `string_buffer` | |
| `CircularIndexProofs`, `SpscBufferProofs`, `StaticCircularBufferProofs`, `CfgStoreProofs`, `EndpointProofs` | section 5 | the module of the same name |
| `ProtocolProofs` | section 5 | `Cobs`, `Registers`, `Rpc` |
| `CoroutineProofs` | section 5 | `RoundRobin`, `RecursiveCoroutine` |
| `LibraryProofs` | section 5 | `MCLibrary`, `CoroutineProofs` |
| `MCStaticCircularBuffer`, `MCSpscBuffer`, `MCCfgStore`, `MCEndpoint` | the instances TLC checks | the module of the same name |
| `MCProtocol` | the instance of what the protocol library does with values | `Line`, `ProtocolMessages`, `Cobs` |
| `MCLibrary` | the instance of the parts that stand alone | `RoundRobin`, `RecursiveCoroutine`, `Numbers`; instances of the other five |

`RoundRobin` composes with `PoolResource`: starting a coroutine is an allocation
of the pool and destroying the executor is the deallocation of all frames, in
the same step. `Line`, `Registers` and `Rpc` compose the converters with a line,
the latter two through `ProtocolMessages`, which the configurations put in the
place of their constants (`EncodeRequest <- RequestBytes` and so on).
The parts in `MCProtocol` and `MCLibrary` share nothing else: the variable
`subject` says which part a behaviour is about, and the others stay in one of
their initial states, so that one run has the sum and not the product of their
states.

### CircularIndex and StaticCircularBuffer

`Advance`, `Slot`, `Size`, `IsEmpty`, `IsFull`, `LastSlot` are `incr_*`,
`front_idx`/`back_idx`, `size`, `empty`, `full`, `last_idx` of
`_spacer_strategy` and `_overflow_strategy`; `IndexModulus` is 2^w for the
chosen index type, and the overflow strategy wraps there, so 8 or 16 instead of
256 make the wrap happen in a few steps. `buf[b]` has the indices and the slots
of the buffer `b`. A slot holds a value, `Moved` or `Raw`; for trivial types,
which are never destroyed, `Raw` stands for bytes nobody may read.

A slot outside of the window and a `Moved` one are told apart, so that lifetime
errors show. Each public operation is an action: `PushBack` (`push_back`, `emplace_back`),
`CopyRangeBack` (`copy_range_back`, `move_range_back`), `PopFront`, `ClearAll`,
`TakeFront`, `TakeFrontInto` (`take_front( buffer )`), `CopyAssign`,
`MoveAssign`, `CopyConstruct`, `MoveConstruct`, `Reconstruct` (destructor and
default constructor). `ReadFrom` is what `copy_n` reads of another buffer:
element by element, or by one `memcpy` per run of the target for trivial types.
The code checks no bounds, its callers have to (`MayInsert`): insertion into a
full buffer and removal from an empty one are not modelled. Two tests do insert
into a full buffer (`tests/static_circular_buffer_test.cpp:201` and `:234` push
eight strings into a capacity of 7): the indices become equal, and the copies
they go on to compare are copies of an empty buffer.

### SpscBuffer

The producer calls `full()` and `push_back`, the consumer `empty()` and
`take_front()`, or `size()` and a removal of that many. Loads of an index the
other side writes are steps of their own: one in the overflow strategy, two in
`size()` of the spacer strategy (`LoadFull`/`LoadFullAgain`,
`LoadSize`/`LoadSizeAgain`), where `TornSize` computes what comes out when the
branch saw one pair of indices and the subtraction another. Construction, move,
destruction and index stores are separate steps too. A batch is removed item by
item: `TakeBatch` is `take_front( buffer )`, which moves items out and destroys
none of them, so that the slot keeps a moved-from object (`Left`), and
`PopBatch` is `pop_front( n )`, which destroys them; `Batches` says which of the
two the consumer uses. `push_back` then constructs over what is left
(`ConstructInRaw` allows that where the function is used, and nothing
else). `Interrupt` says which
side is an interrupt handler, whose calls are not interleaved with steps of the
main loop; `"none"` allows every interleaving, more than one core with an
interrupt has. `pushed` and `removed` record the history.

### CfgStore

`mem` is the memory, a cell is its 64 bits split as `deser_cell` splits them,
so that data, headers of sequences and page headers are all patterns of the
same kind and may be mistaken for each other. `run` has the local variables of
`update()` and `update_stored_config()`. One action per iteration of the scan
(`ScanGarbage`, `ScanSeen`, `ScanKey`), per dumped key (`DumpKey`, in any
order), per cell written (`WriteCell`) and per callback of the rotation
(`Locate`, `ClearPage`, `WriteHeader`). `Store` is `store_key` with what its
two callers make of `FULL`. `Crash` replaces the configuration by what `Loaded`,
the whole of `load()`, finds; `Load` is its scan of a page, as a recursive
function of the address and of the keys still wanted, and `Skip`, `Manifest` and
`Below` are what both scans make of a cell. `Fail` is a callback that returns an error.
`CrashAt` and `FailAt` are the steps before which these may come. Values of
several cells are multiples of a cell, as the tests pad them
(`tests/cfg2_test.cpp`, "we always have to padd this to multiple"). Two values
of a key differ by more than trailing zeros, which `is_prefix_of_with_zeros`
would take for equal.

`promised` and `newest` are history: the values a load may find for each key,
and the page whose header was written last.

Four assumptions about the values are named, for the theorems that need them;
`MCCfgStore` assumes those its instances satisfy, so that TLC evaluates them.
`ConfigurationFits`: all keys with their values fit a page. `ValuesReadBack`: a
value is one cell, or whole cells that fit the buffer of the interface.
`DataIsContained`: a count in the data of a value, if the data is taken for
cells, does not lead below the value. `DataIsSilent`: no data looks like a cell
of a key. The values of `cfg_torn` satisfy the first three and not the last one.

### Sequencer and Endpoint

`Sequencer` has the operators: `MayStart` and `Aligned` are the loop of
`get_message()`, `Request` its read requests, `MessageSize` the `get_size` that
`packet.hpp` defines. The buffer is a sequence of bytes, which is what
`StaticCircularBuffer` shows of it, but for `IteratesAsEmpty`. `Frames` says
what a stream of bytes holds, without a buffer: the first prefix begins a
message, what follows the message is a stream again. A byte stands for
itself where it is part of a prefix, a size or a checksum. `Byte` has all sizes
of a payload and may have others (`Oversized`), which the code compares with
nothing.

In `Endpoint`, one action for each thing the line may bring (`SendPacket`,
`SendDamaged`, `SendNoise`), two kinds of clients that insert bytes
(`ReadRequested` as much as was asked for, `ReceiveSome` anything up to the room
in the buffer, freely mixed), and `GetValue`, the whole of `get_value()` with
`get_message()` and `extract()`. A message of such a size is requested, inserted
and copied as any other: a copy into a message that is too small for it
(`GetValue`) and an insertion into a buffer without room (`ReadTooMuch`) set
`overrun`, after which the behaviour ends, as what the program does then is
undefined. `Serialized` and `Extract` are
`packet_handler`, for a payload of `sizeless_message`. `held` and `sent` record
what should come out.

### Memory resources

`StackResource` keeps `buff`, the cells of the buffer. A client's block holds
the client's name and a node is two cells, so an overlap destroys one of them.
`Allocate` and `Deallocate` are `do_allocate` and `do_deallocate` with the
relinking of nodes; the asserted precondition is `Accepts`. Memory is counted
in cells of the size of a pointer, two of which are a node; sizes and alignments
that are no multiples of it are left out, as the code copies nodes byte by byte
and treats all positions alike. `blockOf` shows that clients have private
memory. In `PoolResource`, `free` is the list of free pools, and `Spot` is the
pool an address belongs to. A block of zero bytes whose alignment pushes it to
the end of its pool would be taken for one of the next pool; frames are never
empty (`SessionAssumption`), so it cannot come up here.

### Coroutines

`RoundRobin`: a session starts coroutines one by one (`StartInner`), then the
executor over them (`StartExecutor`), which runs to its first request at once.
`Answer` is `get_request()` and `store_reply()` of the owner, `Tick` is `tick()`
of the executor with everything it causes: the reply is handed to the coroutine,
that runs to its next request or its end, and the executor goes on to the next
that is not done. `Move` and `Destroy` may come at any point. A request is a
pair of its coroutine and its number, so a reply that reaches the wrong one is
seen. A frame that finds no pool is `StartWithoutMemory`: `memory_promise.hpp:63`
writes through the null pointer, and the behaviour ends.

`RecursiveCoroutine`: level `l + 1` is the coroutine that level `l` awaits, a
temporary in the `co_await` expression. `iface` is the pointer in the promise,
which `await_suspend` sets and nothing resets; the bodies are arbitrary, so each
tick of the innermost coroutine may await a coroutine, a device or an awaiter
that stores nothing, or return. The program may tick the outermost coroutine at
any time. `Abandon` is the error branch of `tick()`, `TickFinished` a tick that
finds an empty handle or, behind a null pointer, a coroutine that is done;
`ReadDangling` is a tick that follows a pointer to an object that is gone, after
which the behaviour ends. A device is a temporary of the `co_await` expression
like a coroutine: a pointer to one that lives on does not dangle. The
coroutines return nothing; the null handle that `await_resume` of a coroutine
with a value reads after its child was abandoned (`recursive.hpp:168`) is not
in the model.

### Containers

`StaticVector` has a slot for every element of the storage and a flag `misused`
for operations on the wrong kind of slot: construction over an item,
destruction, move or copy of a raw one. `Swapped` is `swap()` with its two
loops. `SizeCountsItems` says that the items are the first `size_` slots. `StaticFunction`
keeps for each function where its callable is (`obj`), its type (`vtable`) and
the callables alive at all; copying a fragile one throws, in the middle of an
assignment. `Call` answers with what is at the place `obj` points to.

### Protocol values

`Converters` has the traits of a definition (`max_size`, `min_size`), the bytes of a value in an endianness, and what deserialisation
makes of bytes, given what the object held. Results carry the bytes used and the
error. A byte has `Bits` bits. `Line` sends values of every definition and changes the
message in between. `Extract` is `protocol::handler`. `Loose` names definitions
for which a cut message may be a shorter one; `Unchecked` those whose converter
reads before it looks at the size, or knows no error (see below).

`Registers`: `SetVal`, `Select` (`serialize`/`select`), `Insert` into a mirror
with the error path. `Rpc`: `Call` is the controller up to its callback,
`OnMessage` the whole of `reactor::on_message`, `Return` the rest of the
controller's call, with any reply that was ever on the way. `CutsTags` says
whether a request may be cut in front of the arguments, in its id. Both
know converters only by what `RegisterAssumption`, `RequestAssumption` and
`ReplyAssumption` say of them: a value is returned as it was given, and a message
that is cut is seen to be. In the runs the converters are those of
`ProtocolMessages`, for which TLC evaluates the assumptions. `Cobs`: the
encoder with `InsertByte` and `Committed`, and the two decoders;
`FramesAreDelimited` and `DecodersAgree` compare them with the data.

### Numbers and Algorithms

A type of `Numbers` has its values and the arithmetic on them: `"unsigned"`
wraps, the overflow of `"signed"` is undefined, and a type narrower than `int` is
`"promoted"` to one that is wide enough; `ToT` is the conversion back.
`IntervalRange` is computed in the type as the code does: 0 for the full range of
an unsigned one, by which a rotation divides (`IsDefined` excludes that step),
and negative for `bounded< int8_t, -100, 100 >`, whose 201 values are no
`int8_t`. `Remainder` is that of C++. `turned` counts the rotations modulo the
range, `exact` says that no arithmetic on the way wrapped, or only by a multiple
of the range (`Safe`). What holds is therefore in two parts: the value stays in
the range if its size is a number of the type (`ValueInRange`), and it is where
the rotations lead as long as they are exact (`RotationsAddUp`). The floats of
`pid` are integers. `Algorithms` has no steps: its initial states are
all pairs of short containers, and the invariant compares the algorithms with
each other, the one for tuples with the one for ranges, a search with a count,
an expansion with what it expands. The properties there leave out the cases
where the comments of the code say something else; section 3, "Disagreements",
lists them.

## 3. Runs

| Run | Bounds | Question |
|---|---|---|
| `buffer_spacer` | 2 buffers, capacity 3, ranges up to 2, 2 values | types, queue (`FifoSpec`), lifetime (`ValuesFillWindow`), observers and iteration (`ObserversAgree`), with the spacer strategy |
| `spsc_spacer` | capacity 3, 9 items, the consumer is the interrupt, uses `size()` and both removals of a batch | races, order, capacity, honest `size()` with loads that are torn; every item is removed |
| `spsc_overflow` | capacity 4, indices modulo 8, 12 items, batches that are popped, every interleaving | the inductive invariant of the proofs, which implies all of these |
| `endpoint_noise` | prefix of 2 bytes, payloads up to 1 byte, sizes 0, 1, 2 and 7 on the line, 11 bytes sent | resynchronisation in any noise and any division into pieces; requests; only a size above that of every payload makes something written behind its storage (`StorageHolds`), and until then every message is returned |
| `cfg_crash` | 3 pages of 3 cells, 2 keys, 1-cell values, crashes and failures | promises across crashes, page headers |
| `cfg_torn` | 2 pages of 5 cells, 2 keys, values of 2 cells that look like cells, crashes before and within a value | success means stored, no needless write, no cell written twice; every update returns |
| `protocol` | bytes of 2 bits; 16 definitions; 3 registers, 2 changes, 2 messages on the way; 3 procedures, 2 calls; COBS blocks of at most 3 bytes in a target of 9 | round trips in both orders, sizes, reuse of an object, cut and damaged messages; registers follow; answers belong to their call; frames decode |
| `library` | 3 clients of a stack of 9 cells; sessions of up to 4 coroutines with 2 requests each in 4 pools; recursion of 3 levels with 2 awaits each; 2 vectors of 3; 2 functions with buffers of 4 cells; six types of 4-bit numbers, narrow, signed and unsigned, with ranges that divide 16, that do not, of more than half and of all values; a clock modulo 3; containers of up to 3 items, index blocks of 2 | private memory and its list; replies, turns, frames; nesting of coroutines and their end; lifetime, stacks, comparisons; ranges; agreement of the algorithms |

Capacities of three make a wrapped run with elements on both sides; two buffers
are what the copying operations need, and their values are only moved around,
so two values tell every mix-up; the sets of buffers and values are symmetric.
Indices modulo 8 wrap within the 12 items of `spsc_overflow`. Three pages
show every arrangement of page headers: the current round, the last one and a
cleared page between them. Two data cells per page make every third change
rotate. Ten of eleven bytes are two messages of the largest size, which fill the
sequencer's buffer; the prefix `1 0` may begin again within a failed match. A
message object has room for 5 bytes and the buffer for 10: a size of 2 makes a
message that fits the buffer and no object, one of 7 makes one that does not fit
the buffer. Such a byte arrives at any of the first places, up to that of the
size behind an empty message, and only zeros behind it (`BoundedOversize`);
streams without one are all there.
A stack of nine cells holds three blocks with their nodes in every order of
return, or two with padding, and is full in some of them. Four pools are one
less than the frames of the largest session, so that memory runs out; four
coroutines tell turns from pairs. Three levels have one coroutine that both
waits and is waited for. Definitions nest once or twice, which is what
recursion over them needs, with counters and tags of one byte that reach their
largest value. Index blocks of 2 instead of 32 make three items a full and a
partial block. In the runs of `CfgStore` and `StaticCircularBuffer`, and for the
memory resources and containers of `library`, no number of steps is bounded:
TLC exhausts every behaviour of the instance.

Four more runs, expected to fail, show where the code does not do what its
documentation or its tests say:

| Run | What it shows |
|---|---|
| `buffer_wrapped_copy` | copying a wrapped buffer of trivial elements reads past the storage |
| `endpoint_full` | a full sequencer buffer of a power-of-two capacity loses the message at its begin |
| `cfg_retry` | an update repeated after a failed header write returns success for a configuration that is not loaded |
| `rpc_unmatched` | a request with an id no call has runs the first call, with the arguments of a default message |

The cause of `endpoint_full` is in the circular buffer: with the overflow
strategy `begin()` and `end()` of a full buffer are the same slot, and its
iterators compare nothing else (`static_circular_buffer.hpp:615`), so that
`ObserversAgree` does not hold there. The first byte of the message
does not match "nothing" and is dropped.

### Disagreements without a run

Met while modelling; the models do what the code does, or leave the case out
where its outcome is undefined.

Circular buffer and configuration:

- `size()` of the spacer strategy loads the index of the other side twice
  (`static_circular_buffer.hpp:98`), against "is safe in SPSC scenario" (:204):
  torn by an interrupt that inserts, it is too large by the range of the index
  type. This is why the proofs assume `SizeIsWhole`.
- `take_front( buffer )` moves items out and does not destroy them, against
  "on removal, item is removed and than index is advanced" (:207): their slots
  count as free, the next insertion constructs over the moved-from objects, and
  their destructors never run. TLC finds it in a few steps if `ConstructInRaw`
  is asked for without its exception.
- A configuration one cell too large for a page overwrites the header of the
  next one instead of returning `FULL` (`experimental/cfg/handler.hpp:486`, :208).
- A value of several cells is written data first, so power lost in between leaves
  data without a header. If such a cell reads as the header of a long sequence of
  a key the program has no value for, `update()` passes over it (:441), finds
  below it what is stored already, writes nothing and returns success; `load()`
  wants the key, gets an empty value for it (:358), and ends there with
  `ON_KVAL_ERROR` (:523) without the values below. TLC finds this in nineteen
  states once `DataIsContained` is dropped (2 pages of 6 cells, a value whose
  first cell is such a header); a program whose `on_kval` returns success for
  values it cannot use is not exposed to it.
- The comment at `experimental/cfg/handler.hpp:41` says of the topmost bit "if
  `1b` is true, val represents number of cells"; `ser_cell` sets it for single
  cells and `deser_cell` reads it that way.

Protocol:

- `get_message()` does not look at the size it reads (`protocol/sequencer.hpp:100`):
  it asks for more bytes than the buffer has room for, or copies a message of any
  size into a message object (`OnlyOversizeOverruns`).
- A tag no alternative matches is no error (`protocol/converter.hpp:717`; the
  run `rpc_unmatched`). A group takes the first alternative that used a byte,
  also when it failed (`protocol/base.hpp:84`).
- The presence byte of an optional is read without a check of the size (:378),
  and an absent value leaves the object as it was (:382). An error record takes
  18 bytes without a check (:908) and counts its size without the mark.
- Deserialisation into a `static_vector` never shrinks it and drops what does not
  fit; into a `string_buffer` it copies the counted characters over the array and
  keeps the others (:840), and the size is where the first zero stands
  (`experimental/string_buffer.hpp:109`). So old characters can follow the new
  text at once, or come back later: over "ab" a damaged message of a zero and
  "b" leaves an empty text, an intact "y" then reads "yb". The model keeps the
  whole array; `HeldMore` in `ReuseIsHarmless` exempts an object that has more
  items, or any other character than zeros behind the new text.
- `find_if_index` answers with the last index when nothing was found, and so
  `register_map::contains` is true of every key
  (`protocol/register_map.hpp:90`, :123); inserting a register with an unknown
  key is ignored.
- `command_group` calls `find_index`, which does not exist (`protocol/command_group.hpp:81`).

COBS:

- `decode_cobs` reads the front of an empty source, and returns false for a
  frame that fills its target exactly; the view of decoded bytes reads past the
  end of a frame that ends with a full block (`experimental/cobs.hpp:204`); the
  postfix increment of its iterator calls itself (:214).

Memory and coroutines:

- `memory_promise.hpp:63` writes the prefix of a frame before it looks at the
  pointer.
- `tick()` of `request_reply` reads the promise before it looks at the handle
  (`request_reply.hpp:156`).
- A tick of `recursive_coroutine` reads the pointer to what was awaited before it
  asks whether the coroutine is done (`recursive.hpp:192`, :206). The pointer
  dangles after an awaiter that stores nothing, and after the end of an outermost
  coroutine that awaited a coroutine or a device: `run()` does not tick it again,
  a program that calls `tick()` in a loop of its own may.

Containers and algorithms:

- Copying into a `static_vector` sets `size_` before it constructs
  (`static_vector.hpp:249`): an item whose copy throws leaves a vector that
  destroys what was never there. The free `swap` takes constant references.
- Expansion over indices passes the block size on instead of the sum, so it
  repeats indices beyond two blocks (`algorithm/impl.hpp:214`), against "for i
  going from Off to N" (:208). `IndexesAgree` ends at two blocks.
- `zip_iterator`: `operator--` increments (`zip.hpp:83`); iterators are equal when
  any of their parts are (:127), against "equal if all of their iterators are
  equal" (:115) and "will never equal to the end iterator" (:149). `ViewsAgree`
  zips containers of one size.
- `trim_view` leaves the middle `r * size` items (`view.hpp:217`), against "we ignore
  first r*size/2 items" (:211). The two agree for `r` of 1/2; `ShapesAgree` asks
  for what both have in common there, that the ends are treated alike.
- `min_max_elem` of nothing gives the limits of the type in the wrong order,
  against "the default value" (`algorithm.hpp:179`). `FoldsAgree` is about
  containers that are not empty.
- `bounded`: against "decreases the internal value by step modulo the range"
  (`bounded.hpp:123`), `rotate_left` of an unsigned type takes the remainder of a
  difference that wrapped (:127): `bounded< unsigned, 3, 7 >` at 3 stays at 3
  after `rotate_left( 1 )`. `rotate_right` can wrap too, in a range of more than
  half of the values. A rotation over all values of an unsigned type divides by
  zero (:56). `bounded< int8_t, -100, 100 >`, whose size is -55, goes from -100 to
  102 by `rotate_right( 1 )`, against "always within the specified range" (:35).
  TLC finds the first and the last of these on types of four bits if
  `RotationsAddUp` and `ValueInRange` are asked for without their conditions.
  `make` narrows its argument before it compares (:83).
- The average of nothing divides by zero; `ceil_to` rounds negative numbers the
  other way; `extend` of a `string_buffer` without a terminating zero takes a room
  that wrapped below zero (`experimental/string_buffer.hpp:139`).

## 4. Fairness

`SpscBuffer!FairSpec` assumes that an insertion that began ends, that the
producer need not begin another, and strong fairness of the consumer's steps. In
`spsc_spacer` the consumer is the interrupt: it is enabled whenever it is
not running, keeps coming and returns; the assumption says no more. For a
consumer in the main loop, strong fairness is what an interrupt handler that
always returns leaves it. `CfgStore!FairSpec` assumes that `update()` runs on
until it returns, which a sequential call does. `Endpoint!ClientReads` assumes of
the client that it calls `get_value()` after it inserted or got something, and
that it reads what it was asked for once so many bytes are there, whether or not
the buffer has room for them; a client that reads more than that is possible and not assumed. In `library` the owner of a
session answers the request it is shown (`OwnerAnswers`) and ticks the
executor, which is the loop every user of `round_robin_run` writes; whoever has a recursive
coroutine ticks it, which is what `run()` does, and a device that was started
answers, with success or failure. Nothing else is assumed of the program around:
sessions may be destroyed at any time, or never begun.

## 5. Proofs

Everything here is proved for every value of the constants, under the named
assumptions of the modules.

### SpscBufferProofs

For every capacity, every index width, both strategies, any number of items and
each kind of interrupt:

- `Invariance`: `SizeIsWhole => (Spec => []Inv)`
- `Typing` (`TypeOK`), `RemovesInOrder` (`FifoOrder`), `RaceFree`
  (`NoSlotRace`), `ConstructsInRaw` (`ConstructInRaw`), `WithinCapacity`
  (`NeverOverfull`), `HonestSize` (`SizeIsHonest`) from it.

`SizeIsWhole` is the condition under which the consumer may use `size()`: the
overflow strategy, or a consumer that is the interrupt. It cannot be dropped:
see `size()` above. Without `size()` nothing is assumed beyond
`CapacityAssumption`, `WidthAssumption` and `StrategyAssumption` of
`CircularIndex`; of a power of two only that it divides the range of the
indices is used.

None of the properties is inductive: what makes `full()` safe is a relation
between indices reduced to their range and the history. `Inv` says that `from`
and `to` are the counts of items removed and inserted, reduced modulo the range
(`IndicesCount`), that what the producer loaded is the count of an earlier
removal and so errs towards full (`ProducerKnows`), what the consumer's position
says about its batch (`ConsumerKnows`), and that the slots between first and
last item hold these items and all others none, or what
`take_front( buffer )` left there (`SlotsHold`). `CircularIndexProofs`
has the arithmetic: remainders are unique, two counts less than the range apart
have different remainders (`ModInjective`), slots are counts modulo the storage
(`SlotOfCount`), `Size` of two reduced counts is their difference (`SizeCounts`).

### StaticCircularBufferProofs

For any number of buffers, any capacity, both strategies and every operation,
copies and moves between buffers included:

- `BufferTyping` (`TypeOK`), `Lifetime` (`ValuesFillWindow`),
- `Implementation`: the buffers implement the queues of `BoundedFifo`,
- `Observing` (`ObserversAgree`).

The inductive invariant `BuffersSound` has no history to count with: it says
that there are counts `x <= y`, at most the capacity apart, whose remainders are
the indices, and that the slots of the counts from `x` to `y - 1`, and no
others, hold values (`Counted`). Each operation names the counts after it; the
contents of the buffer are then the values of the slots of the counts in order,
and the refinement follows from what happens to that sequence. `~Trivial` is
assumed throughout, because for trivial types the code copies by `memcpy`, which
reads past the storage of a wrapped source (`buffer_wrapped_copy`); `Observing`
also assumes `~Overflow`, because iteration over a full buffer of that strategy
visits nothing (`endpoint_full`).

### CfgStoreProofs

For any number and size of pages, any keys and values, and power losses and
failures at the points the constants allow:

- `Typing` (`TypeOK`): no address that `update()` computes leaves the memory,
  whatever the memory holds. `Typed` is inductive with the types of the local
  variables in `run` (`Runs`).
- `CellsWrittenOnce` (`WriteOnce`): no cell is written that was not free.
  `Room` is the reason: the cells from the one `update()` found to be free up to
  the end of the page are free, and the pending cells fit before it. It takes
  `ConfigurationFits`, that all keys with their values fit a page, which
  `MCCfgStore` assumes and TLC evaluates; without it the dump of a rotation
  writes into the next page (section 3, "Disagreements").
- `NewestIsFound` (`CurrentIsNewest`): what `locate_current_page` finds is the
  page started last. `Ring` says how the headers lie: the pages up to the newest
  have its state, those behind it the state before that or, in the first round,
  none; while a rotation is between `clear_page` and the header, this holds of
  the headers before the page was cleared (`InRing`). Besides `ConfigurationFits` it assumes two pages or more and
  `"header" \notin CrashAt \cup FailAt`: between `clear_page` and the header that
  follows the state of the round is lost, which is what `cfg_retry` shows.
- `SuccessIsStored` (`SuccessMeansStored`), `LoadsAreKept`
  (`LoadsWhatWasPromised`) and `NothingWrittenTwice` (`NoNeedlessWrite`): what a
  load finds is what was stored, what was promised, and what keeps an update
  from writing again. They assume what `NewestIsFound` assumes, and
  `ValuesReadBack`.

The last three compare the memory with a recursion over the cells of a page.
Three groups of lemmas lead there.

*What a load reads* unfolds `Load` once (`LoadAt`) and never again: `Reach(m, c)`
is where a scan goes on below the cell at `c - 1`, `Content(m, c)` the value
there. `Readable(m, start, t, D)` says that the addresses `D` are closed under
`Reach` and that no cell on the way reads as more than it is, so that from any
of them a scan comes down to the start of the page. By least elements of `D`, in
place of an induction: which keys are wanted makes no difference to what is found
for them (`WantedAlike`), and what is written above an address is not seen from it
(`WritesAboveUnseen`).

*Values in a page*: a value written from `t` on, and free cells above it, leave
the page readable and make the value the latest one of its key (`WholeValue`). A
part of a value leaves it readable if `DataIsContained`, and changes nothing of
what a load finds if `DataIsSilent` (`TornValue`).

*The log*: `LogInv` is the invariant. There are addresses `D` by which the
newest page is readable up to some `t`, where the page ends or where a value is
being written (`Writing`: the cells from `t` on are the first ones of the value,
`pending` the others). While `update()` scans, what the page has for the keys it
has still to see is found below its address, and for the keys it saw the page has
what the configuration has (`Scanned`); at the end of the scan this is
`SuccessMeansStored`. It holds again after a crash within a value because what
was written is, with its free cells, a readable page; `LogWrite`, `LogCrash`,
`LogClear` and so on are one lemma for each kind of step. The part about
`promised` and about needless writes
is kept (`Kept`) if a failing `write` leaves silent data behind. TLC checked
`LogInv` on the instances of `cfg_crash` and `cfg_torn` before it was proved.

`DataIsContained` is needed by `SuccessIsStored` where a write can be cut short,
and is what a proof without it failed for: section 3, "Disagreements", has the
state TLC found. `DataIsSilent` is needed by `LoadsAreKept`, because a cell of
data without its header is then a value of its key.

### EndpointProofs

For any prefix, any largest payload, any bytes, sizes of no payload among them,
streams of any length, any division into insertions and any moments of
`get_value()`:

- `EndpointStorage` (`StorageHolds`), from `EndpointTypes` and `EndpointOverruns`:
  the buffer stays within its capacity, requests within that of a message unless
  the size in the buffer is that of no payload, and a returned value has the size
  of one; nothing but such a size behind the prefix makes the sequencer or its
  client write behind their storage.
- `RequestsAreModest` (`NeverAsksTooMuch`): fewer bytes than asked for complete
  no message, whatever they are. `RequestInv` says what a request was computed
  from.
- `EndpointFrames` (`StreamIsFramed`) and `EndpointDelivers`
  (`ValuesArriveInOrder`), for buffers whose capacity is no power of two; for the
  others `endpoint_full` shows the loss.

Both invariants quantify over the bytes still to come, which is what makes them
inductive. `FramingInv`: what was returned, followed by what the buffer, the
outstanding bytes and any bytes `more` hold, is what the stream with `more`
holds. `DeliveryInv`: while the line is clean, the stream with any `more` holds
what was sent, followed by what `more` holds. `Frames` is a recursive function;
that it exists and satisfies its recursion (`FramesUnfold`), that it yields
whole messages (`FramesAreMessages`) and that fewer bytes than a size field hold
none are inductions over lengths, done with the least counterexample
(`LeastExists`). `DroppingKeepsFrames` is the heart of resynchronisation: no
message begins where `get_message()` drops a byte. Of the checksum
`ChecksumAssumption` asks that it is a byte and detects the change of one byte
behind the size; TLC evaluates it for the sum that the runs use.

### ProtocolProofs

`EverythingDecodes` (`FramesDecode`), for every largest code, every size of the
target and every sequence of bytes: what is committed has no zero and few codes,
and both decoders make of it what was encoded; and `CobsTypes` (`CobsTypeOK`).

The encoder writes a block before its code, so the invariant (`Encodes`) says
what a decoder would see: a trace of decoder states (`Trace`) over the bytes in
front of the open block's code, which comes to that code with everything shown
but the bytes of the open block. With the code in place the trace goes on to the
end of the frame (`CodedIsRead`), and the same lemma lets a block be closed, by a
zero or because it is full (`ClosedEncodes`). That the block is not full when
`insert()` accepts is what keeps the frame from ending in a code that shows
nothing, which the view would step over. The decoders are recursive functions;
that the one `CHOOSE` takes follows the trace is induction over the frame by the
least counterexample (`DecodesAll`, `ViewShowsAll`).

`MirrorsFollow` (`RegistersFollow`) and `AnswersOfTheCall`
(`AnswersAreOfTheCall`) hold for any registers, calls, handlers and converters
under the three assumptions above, any number of calls and messages on the way,
and everything the line does to them. They say what `register_handler` and the
RPC library add to the converters; that converters satisfy the assumptions is
what `ConvertersAgree` and `CutsAreNoticed` check for many definitions, and TLC
for the messages of the instance. `MirrorInv`: whatever is on the way is a
beginning of the bytes of a value its register has had, which `PartIsExtracted`
shows to be taken for that value or for an error; a beginning of a beginning is
one (`CutsOfCuts`). `CallsInv`: every request on the way is a beginning, not
empty, of that of a call that was made; every reply is the handler's to such a
call, which was run, or an error to one that was cut; and if nothing was on the
way when the pending call started, it is about that call. `AnswersOfTheCall`
assumes `~CutsTags`: a request without a tag runs the first call
(`rpc_unmatched`).

### CoroutineProofs

For any number of coroutines and pools, any scripts of requests, any size and
alignment of a frame, and recursive coroutines of any depth with any bodies:

- `FramesOwned` (`FramesAreOwned`). `FrameInv` adds to `PoolsArePartitioned`
  which coroutines have a frame and how many pools are left at each point of a
  session (`StartedSoFar`). That a block is found in the pool it was taken from
  (`CandidateIsInPool`) is the arithmetic of alignment and division; that the
  frames go back in the order in which the array is destroyed, each once, is
  `ReturnOrder`.
- `Sessions` (`SessionsAreSound`) and `SessionTypesHold` (`TypeOK`). `SessionInv`, which
  the run checks as well, says of each coroutine what its request and reply may
  be at its point (`CoroutineState`), and that those alive before the
  position of the executor are one turn ahead of the others (`ExecutorState`).
  The executor skips coroutines that ended; that it arrives at the next one alive
  is `NextLiveIsFirst`.
- `Nesting` (`RecursionIsNested`). The run checks its invariant `RecursiveInv`
  too: a suspended coroutine is what the one above waits for
  (`SuspendedIsAwaited`), and where there is no coroutine no chain leads
  (`ChainEndsAbove`). The innermost coroutine of the chain exists because levels
  are well-founded. The outermost coroutine may be ticked after its end;
  that such a tick reads a dangling pointer, unless the coroutine never awaited
  anything or an error took its handle, is part of what is proved.

### LibraryProofs

The other parts of `library`, for every buffer, size, alignment and number of
clients, vectors and functions that `PartsAssumption` admits. TLC evaluates it;
what it asks of the code's objects is what the language gives: distinct
objects lie apart, sizes are at least one, alignments are powers of two, so that
one of two divides the other.

- `StackAccounted` (`BlocksAreAccounted`): `StackInv` says that blocks with their
  nodes lie apart (`BlocksApart`), hold what their clients wrote (`BlocksKept`),
  and that the nodes are a doubly linked list in the order of addresses that ends
  at `top_`. Allocation appends to the chain (`ChainGrows`); deallocation takes
  out a node, of which the last one is the special case.
- `StackIsPrivate` (`BlocksArePrivate`): with the same invariant every step of
  `stack_resource` is one of `PrivateMemory` or none.
- `VectorsImplementStacks` (`VectorsAreStacks`): a vector that is `Sound` - items
  below `size_`, raw slots above - maps to the sequence of its items, and every
  operation, `swap()` with its two loops too, to one of `BoundedStack`.
- `ContainersOwn` (`ContainersOwnTheirItems`): the same invariant for the items of
  vectors; `==` and `<` are those of sequences, by the least position at which two
  vectors differ; every callable alive is in the buffer of the function that
  points to it (`Owned`), where the alignment arithmetic places it
  (`PlacedInside`).
- `NumbersStay` (`NumbersStayInRange`): rotations stay in the range whenever its
  size is a number of the type, and add up as long as they are exact; output and
  integral of the regulator stay within limits that may change at any time; for
  all types, ranges, steps, limits, coefficients and measurements.
  `NumbersAssumption` asks of a range no more than the `static_assert` of the
  code, and that a signed constant did not overflow, with which it does not
  compile. `BoundedInv` adds the types and that `turned` is less than the range;
  `WrappedRotation` and `SafeRotation` are the arithmetic of a remainder that was
  taken after a wrap.
- `LibraryTypes` (`LibraryTypeOK`), from the invariants of all parts (`PartsInv`).

### Only model-checked

Liveness (`EveryItemArrives`, `UpdateReturns`, `EveryMessageArrives`,
`EveryoneEnds`), which TLAPS does not prove under fairness. `Converters`, and with it
`ConvertersAgree`, `CutsAreNoticed` and the parts of `TypesOK` about sizes and
values of messages, are recursive operators over the tree of a definition, which
the provers at hand do not take, nor the induction over it. `AlgorithmsAgree` has
no steps to prove anything about: it compares recursive functions on every
container of the instance.

## 6. Plan

Modelled and proved so far is what the tables above list. What comes next, most
important first:

1. Fault models that are not there yet: items of `StaticVector` whose copy
   throws; values returned by recursive coroutines; a header of a page that is
   written in part.
2. Converters: that composed definitions agree if their parts do, one lemma for
   each kind, stated of converters as constants as `Registers` and `Rpc` have them.

## Not modelled

- `memcpy_converter` and the converters of floats, bools and enums: their bytes
  are those of integers of the same size, or the object's own.
- `sequencer_simple_load`, which cannot be instantiated: it calls a member
  `match` of the `std::variant` that `get_message()` returns
  (`protocol/sequencer.hpp:129`); what the program does after it wrote behind its
  storage.
- `data_promise`: the value a coroutine returns.
- Items and callables that throw, except for copies of a callable.
- `function_view`, `derived_storage`, the adapters of `pmr/`, `quantity.hpp`: no
  state, or that of a part modelled already.
- Floating point (`experimental/geom/`, `experimental/matrix.hpp`, the precision
  of `pid.hpp`), JSON, hashing, printing, formatting of `string_buffer`,
  compile-time machinery: nothing in them steps, or their values are outside of
  what TLC computes with.
