------------------------------ MODULE Converters ------------------------------
(***************************************************************************)
(* The definitions of the protocol library and their converters: what      *)
(* converter< D, E >::serialize_at writes and what ::deserialize makes of  *)
(* any bytes, into an object that may already be in use.                   *)
(*                                                                         *)
(* A definition D is a record of its kind, the definitions it is made of   *)
(* (`of`), its parameter (`arg`) and its traits: max_size, min_size,       *)
(* value_type and the default value.  A byte has Bits bits; counters and   *)
(* ids have one byte as uint8_t has.  The operators are recursive over the *)
(* tree of a definition, for TLC only.                                     *)
(***************************************************************************)
EXTENDS ConversionResult, Naturals, Sequences, SequencesExt, FiniteSetsExt

CONSTANT Bits    (* of a byte: 8 in the code.                              *)

ASSUME BitsAssumption == Bits \in Nat \ {0}

Radix == 2 ^ Bits
Byte == 0 .. Radix - 1

Rest(b, n) == SubSeq(b, n + 1, Len(b))
Sum(s) == FoldLeft(LAMBDA a, x : a + x, 0, s)

-----------------------------------------------------------------------------
(* The definitions with their traits.                                      *)

Def(kind, of, arg, min, max, type, init) ==
  [kind |-> kind, of |-> of, arg |-> arg, min_size |-> min, max_size |-> max,
   type |-> type, init |-> init]

Base(n) == Def("base", <<>>, n, n, n, 0 .. Radix ^ n - 1, 0)

Array(d, n) ==
  Def("array", [i \in 1 .. n |-> d], n, d.min_size * n, d.max_size * n,
      [1 .. n -> d.type], [i \in 1 .. n |-> d.init])

Tuple(ds) ==
  Def("tuple", ds, Len(ds), Sum([i \in DOMAIN ds |-> ds[i].min_size]), Sum([i \in DOMAIN ds |-> ds[i].max_size]),
      FoldLeft(LAMBDA T, d : {Append(v, x) : v \in T, x \in d.type}, {<<>>}, ds),
      FoldLeft(LAMBDA v, d : Append(v, d.init), <<>>, ds))

(* A std::variant: the index of its alternative, from 0 on, and the value. *)
Alternatives(ds) == UNION {{i - 1} \X ds[i].type : i \in DOMAIN ds}
First(ds) == <<0, ds[1].init>>

Smallest(ds) == Min({ds[i].min_size : i \in DOMAIN ds})
Largest(ds) == Max({ds[i].max_size : i \in DOMAIN ds})

Variant(ds) ==
  Def("variant", ds, 0, 1 + Smallest(ds), 1 + Largest(ds), Alternatives(ds), First(ds))

Monostate == Def("monostate", <<>>, 0, 0, 0, {"monostate"}, "monostate")

Bitset(n) ==
  LET size == (n + Bits - 1) \div Bits
  IN  Def("bitset", <<>>, n, size, size, [1 .. n -> BOOLEAN], [i \in 1 .. n |-> FALSE])

(* Messages are the bytes below their size.                                *)
SizelessMessage(n) == Def("sizeless", <<>>, n, 0, n, BoundedSeq(Byte, n), <<>>)

Message(n) == Def("message", <<Base(1)>>, n, 1, 1 + n, BoundedSeq(Byte, n), <<>>)

ValueOffset(d, offset) == Def("offset", <<d>>, offset, d.min_size, d.max_size, d.type, d.init)

Quantity(d) == Def("quantity", <<d>>, 0, d.min_size, d.max_size, d.type, d.init)

Bounded(d, min, max) == Def("bounded", <<d>>, min .. max, d.min_size, d.max_size, min .. max, min)

SizedBuffer(c, d) ==
  Def("sized", <<d>>, c, c.min_size + d.min_size, c.max_size + d.max_size, d.type, d.init)

Tag(d, v) == Def("tag", <<d>>, v, d.min_size, d.max_size, {"tag"}, "tag")

Group(ds) == Def("group", ds, 0, Smallest(ds), Largest(ds), Alternatives(ds), First(ds))

(* Alternatives ds with tags, definitions made by Tag.                     *)
TagGroup(tags, ds) ==
  LET tuples == [i \in DOMAIN ds |-> Tuple(<<tags[i], ds[i]>>)]
  IN  Def("tag_group", ds, tags, Smallest(tuples), Largest(tuples), Alternatives(ds), First(ds))

EndianessWrapper(e, d) == Def("endianess", <<d>>, e, d.min_size, d.max_size, d.type, d.init)

(* A type with a def_type.                                                 *)
Wrapper(d) == Def("def_type", <<d>>, 0, d.min_size, d.max_size, d.type, d.init)

(* A string_buffer is an array whose last character is a zero; its text is *)
(* what stands in front of the first one: sv() with size().                *)
CharArrays(n) == {chars \in [1 .. n -> Byte] : chars[n] = 0}
StringBuffer(n) == Def("string", <<Base(1)>>, n, 1, 1 + n, CharArrays(n), [i \in 1 .. n |-> 0])
TextOf(chars) == SubSeq(chars, 1, Min({i \in DOMAIN chars : chars[i] = 0}) - 1)

Duration(d) == Def("duration", <<d>>, 0, d.min_size, d.max_size, d.type, d.init)

(* A mark and an offset; the mark is a string_buffer.                      *)
ErrorRecord(mark, offset) ==
  Def("error_record", <<mark, offset>>, 0, mark.min_size + offset.min_size, mark.max_size + offset.max_size,
      [error_mark : mark.type, offset : offset.type], [error_mark |-> mark.init, offset |-> offset.init])

StaticVector(d, n) ==
  Def("vector", [i \in 1 .. n |-> d], n, 1, 1 + d.max_size * n, BoundedSeq(d.type, n), <<>>)

Optional(d) ==
  Def("optional", <<Bounded(Base(1), 0, 1), d>>, 0, 1, 1 + d.max_size,
      {<<>>} \cup {<<v>> : v \in d.type}, <<>>)

(* An aggregate with the members of the tuple d.                           *)
Decomposed(d) == Def("decomposed", <<d>>, 0, d.min_size, d.max_size, d.type, d.init)

(* A tuple with its own endianess, a command with its id, and a group of   *)
(* commands.                                                               *)
ProtocolTuple(e, ds) == Wrapper(EndianessWrapper(e, Tuple(ds)))
Command(id, ds) == Tuple(<<Tag(Base(1), id)>> \o ds)
CommandGroup(e, commands) == Wrapper(EndianessWrapper(e, Group(commands)))
MakeVal(i, args) == <<i - 1, <<"tag">> \o args>>

-----------------------------------------------------------------------------
RECURSIVE Encode(_, _, _)
RECURSIVE Decode(_, _, _, _)

Ordered(b, e) == IF e = "big" THEN b ELSE Reverse(b)

(* The serializer of a base type.                                          *)
ToBytes(n, v, e) == Ordered([i \in 1 .. n |-> (v \div Radix ^ (n - i)) % Radix], e)
FromBytes(b, e) == FoldLeft(LAMBDA r, x : r * Radix + x, 0, Ordered(b, e))

EncodeBase(d, v, e) == ToBytes(d.max_size, v, e)

DecodeBase(d, b, old, e) ==
  IF Len(b) < d.max_size THEN Bad(0, "size", old)
  ELSE Good(d.max_size, FromBytes(SubSeq(b, 1, d.max_size), e))

(* serialize_range and deserialize_range: items one behind the other.      *)
EncodeRange(ds, v, e) == FlattenSeq([i \in 1 .. Len(v) |-> Encode(ds[i], v[i], e)])

DecodeRange(ds, b, old, e) ==
  LET Item(r, i) ==
        IF HasError(r) THEN r
        ELSE IF r.used > Len(b) THEN Bad(r.used, "size", r.val)
        ELSE LET s == Decode(ds[i], Rest(b, r.used), r.val[i], e)
             IN  [s EXCEPT !.used = @ + r.used, !.val = [r.val EXCEPT ![i] = s.val]]
  IN  FoldLeft(Item, Good(0, old), [i \in 1 .. Len(old) |-> i])

EncodeArray(d, v, e) == EncodeRange(d.of, v, e)
DecodeArray(d, b, old, e) == DecodeRange(d.of, b, old, e)

EncodeTuple(d, v, e) == EncodeRange(d.of, v, e)
DecodeTuple(d, b, old, e) == DecodeRange(d.of, b, old, e)

EncodeVariant(d, v, e) == <<v[1]>> \o Encode(d.of[v[1] + 1], v[2], e)

DecodeVariant(d, b, old, e) ==
  IF b = <<>> THEN Bad(0, "size", old)
  ELSE IF b[1] >= Len(d.of) THEN Bad(0, "undefvar", old)
  ELSE LET sub == d.of[b[1] + 1]
           s   == Decode(sub, Rest(b, 1), sub.init, e)
       IN  [s EXCEPT !.used = @ + 1, !.val = <<b[1], s.val>>]

DecodeMonostate(d, b, old, e) == Good(0, old)

EncodeOptional(d, v, e) ==
  IF v = <<>> THEN <<0>> ELSE <<1>> \o Encode(d.of[2], v[1], e)

(* The presence is read without a look at the size of the buffer; an       *)
(* absent value leaves the object alone.                                   *)
DecodeOptional(d, b, old, e) ==
  IF b = <<>> THEN Bad(0, "undefined", old)
  ELSE LET presence == Decode(d.of[1], b, 0, e)
           s        == Decode(d.of[2], Rest(b, 1), d.of[2].init, e)
       IN  IF HasError(presence) \/ presence.val = 0 THEN [presence EXCEPT !.val = old]
           ELSE [s EXCEPT !.used = @ + 1, !.val = <<s.val>>]

(* Bit j of byte i is item i * Bits + j; the bits beyond are zero.         *)
EncodeBitset(d, v, e) ==
  Ordered([i \in 1 .. d.max_size |->
             Sum([j \in 1 .. Bits |-> LET k == (i - 1) * Bits + j
                                      IN IF k <= d.arg /\ v[k] THEN 2 ^ (j - 1) ELSE 0])], e)

DecodeBitset(d, b, old, e) ==
  LET bytes == Ordered(SubSeq(b, 1, d.max_size), e)
  IN  IF Len(b) < d.max_size THEN Bad(0, "size", old)
      ELSE Good(d.max_size,
                [k \in 1 .. d.arg |-> (bytes[(k - 1) \div Bits + 1] \div 2 ^ ((k - 1) % Bits)) % 2 = 1])

EncodeMessage(d, v, e) == <<Len(v)>> \o v

(* Wrong variant: takes what is there.                                     *)
DecodeMessageCut(d, b, old, e) ==
  IF b = <<>> THEN Bad(0, "size", old)
  ELSE IF b[1] > d.arg THEN Bad(1, "bigsize", old)
  ELSE LET n == Min({Len(b), 1 + b[1]}) IN Good(n, SubSeq(b, 2, n))

DecodeMessage(d, b, old, e) ==
  IF b = <<>> THEN Bad(0, "size", old)
  ELSE IF Len(b) < 1 + b[1] THEN Bad(1, "size", old)
  ELSE IF b[1] > d.arg THEN Bad(1, "bigsize", old)
  ELSE Good(1 + b[1], SubSeq(b, 2, 1 + b[1]))

EncodeSizeless(d, v, e) == v

(* Takes all there is.                                                     *)
DecodeSizeless(d, b, old, e) ==
  IF Len(b) > d.arg THEN Bad(0, "bigsize", old) ELSE Good(Len(b), b)

(* The arithmetic wraps in the type of the value.                          *)
EncodeOffset(d, v, e) == Encode(d.of[1], (v + d.arg) % Radix ^ d.max_size, e)

DecodeOffset(d, b, old, e) ==
  LET s == Decode(d.of[1], b, old, e)
  IN  [s EXCEPT !.val = (@ + Radix ^ d.max_size - d.arg) % Radix ^ d.max_size]

EncodeQuantity(d, v, e) == Encode(d.of[1], v, e)

(* The value is taken from a fresh object, even after an error.            *)
DecodeQuantity(d, b, old, e) == Decode(d.of[1], b, d.of[1].init, e)

EncodeBounded(d, v, e) == Encode(d.of[1], v, e)

(* Wrong variant: the larger bound itself is not checked for.              *)
DecodeBoundedBelow(d, b, old, e) ==
  LET s == Decode(d.of[1], b, d.of[1].init, e)
  IN  IF HasError(s) THEN [s EXCEPT !.val = old]
      ELSE IF s.val < Min(d.arg) THEN Bad(0, "bounds", old) ELSE s

DecodeBounded(d, b, old, e) ==
  LET s == Decode(d.of[1], b, d.of[1].init, e)
  IN  IF HasError(s) THEN [s EXCEPT !.val = old]
      ELSE IF s.val \notin d.arg THEN Bad(0, "bounds", old) ELSE s

EncodeSized(d, v, e) ==
  LET sub == Encode(d.of[1], v, e)
  IN  Encode(d.arg, Len(sub) % Radix ^ d.arg.max_size, e) \o sub

(* Wrong variant: the bytes are not limited to the counted ones.           *)
DecodeSizedUnlimited(d, b, old, e) ==
  LET c == Decode(d.arg, b, 0, e)
      s == Decode(d.of[1], Rest(b, d.arg.max_size), old, e)
  IN  IF HasError(c) THEN [c EXCEPT !.val = old]
      ELSE [s EXCEPT !.used = @ + c.used]

DecodeSized(d, b, old, e) ==
  LET c == Decode(d.arg, b, 0, e)
      s == Decode(d.of[1], SubSeq(b, d.arg.max_size + 1, d.arg.max_size + c.val), old, e)
  IN  IF HasError(c) THEN [c EXCEPT !.val = old]
      ELSE IF Len(b) < c.used + c.val THEN Bad(c.used, "size", old)
      ELSE [s EXCEPT !.used = @ + c.used]

EncodeTag(d, v, e) == Encode(d.of[1], d.arg, e)

DecodeTag(d, b, old, e) ==
  LET s == Decode(d.of[1], b, d.of[1].init, e)
  IN  IF HasError(s) THEN [s EXCEPT !.val = old]
      ELSE IF s.val # d.arg THEN Bad(0, "badval", old) ELSE Good(s.used, old)

EncodeTagGroup(d, v, e) ==
  Encode(d.arg[v[1] + 1], "tag", e) \o Encode(d.of[v[1] + 1], v[2], e)

(* Without a match the result is the default one, which has no error.      *)
DecodeTagGroup(d, b, old, e) ==
  LET Matches == {i \in DOMAIN d.of : ~HasError(Decode(d.arg[i], b, "tag", e))}
      i       == Min(Matches)
      t       == Decode(d.arg[i], b, "tag", e)
      s       == Decode(d.of[i], Rest(b, t.used), d.of[i].init, e)
  IN  IF Matches = {} THEN Good(0, old)
      ELSE [s EXCEPT !.used = @ + t.used, !.val = <<i - 1, s.val>>]

EncodeGroup(d, v, e) == Encode(d.of[v[1] + 1], v[2], e)

(* The first alternative that uses a byte, whether it has an error or not. *)
DecodeGroup(d, b, old, e) ==
  LET Tried(i) == LET s == Decode(d.of[i], b, d.of[i].init, e)
                  IN  [s EXCEPT !.val = <<i - 1, s.val>>]
      Matches == {i \in DOMAIN d.of : Tried(i).used # 0}
  IN  IF Matches = {} THEN Bad(0, "group", Tried(Len(d.of)).val)
      ELSE Tried(Min(Matches))

EncodeString(d, v, e) == <<Len(TextOf(v))>> \o TextOf(v)

(* The array is written in place: characters behind the copied ones stay.  *)
DecodeString(d, b, old, e) ==
  IF b = <<>> THEN Bad(0, "size", old)
  ELSE IF Len(b) < 1 + b[1] THEN Bad(1, "size", old)
  ELSE IF b[1] >= d.arg THEN Bad(1, "bigsize", old)
  ELSE Good(1 + b[1], [i \in 1 .. d.arg |-> IF i <= b[1] THEN b[1 + i] ELSE old[i]])

EncodeDuration(d, v, e) == Encode(d.of[1], v, e)
DecodeDuration(d, b, old, e) == Decode(d.of[1], b, d.of[1].init, e)

(* The mark at the front and the offset at the end of the largest size.    *)
EncodeErrorRecord(d, v, e) ==
  LET mark == Encode(d.of[1], v.error_mark, e)
  IN  mark \o [i \in 1 .. d.of[1].max_size - Len(mark) |-> 0] \o Encode(d.of[2], v.offset, e)

(* The offset is looked for at a fixed place, its use alone is reported.   *)
DecodeErrorRecord(d, b, old, e) ==
  LET m == Decode(d.of[1], b, old.error_mark, e)
      o == Decode(d.of[2], Rest(b, d.of[1].max_size), old.offset, e)
  IN  IF HasError(m) THEN [m EXCEPT !.val = [old EXCEPT !.error_mark = m.val]]
      ELSE IF Len(b) < d.of[1].max_size THEN Bad(0, "undefined", old)
      ELSE [o EXCEPT !.val = [error_mark |-> m.val, offset |-> o.val]]

EncodeVector(d, v, e) == <<Len(v)>> \o EncodeRange(d.of, v, e)

(* Items are added until there are as many as counted, or the vector is    *)
(* full; it never gets shorter.                                            *)
DecodeVector(d, b, old, e) ==
  LET size  == IF Len(old) <= b[1] THEN Min({b[1], d.arg}) ELSE d.arg
      grown == [i \in 1 .. size |-> IF i <= Len(old) THEN old[i] ELSE d.of[1].init]
      s     == DecodeRange(d.of, Rest(b, 1), grown, e)
  IN  IF b = <<>> THEN Bad(0, "size", old) ELSE [s EXCEPT !.used = @ + 1]

EncodeDecomposed(d, v, e) == Encode(d.of[1], v, e)

DecodeDecomposed(d, b, old, e) ==
  LET s == Decode(d.of[1], b, d.of[1].init, e)
  IN  IF HasError(s) THEN [s EXCEPT !.val = old] ELSE s

-----------------------------------------------------------------------------
Encode(d, v, e) ==
  CASE d.kind = "base"         -> EncodeBase(d, v, e)
    [] d.kind = "array"        -> EncodeArray(d, v, e)
    [] d.kind = "tuple"        -> EncodeTuple(d, v, e)
    [] d.kind = "variant"      -> EncodeVariant(d, v, e)
    [] d.kind = "monostate"    -> <<>>
    [] d.kind = "optional"     -> EncodeOptional(d, v, e)
    [] d.kind = "bitset"       -> EncodeBitset(d, v, e)
    [] d.kind = "message"      -> EncodeMessage(d, v, e)
    [] d.kind = "sizeless"     -> EncodeSizeless(d, v, e)
    [] d.kind = "offset"       -> EncodeOffset(d, v, e)
    [] d.kind = "quantity"     -> EncodeQuantity(d, v, e)
    [] d.kind = "bounded"      -> EncodeBounded(d, v, e)
    [] d.kind = "sized"        -> EncodeSized(d, v, e)
    [] d.kind = "tag"          -> EncodeTag(d, v, e)
    [] d.kind = "tag_group"    -> EncodeTagGroup(d, v, e)
    [] d.kind = "group"        -> EncodeGroup(d, v, e)
    [] d.kind = "endianess"    -> Encode(d.of[1], v, d.arg)
    [] d.kind = "def_type"     -> Encode(d.of[1], v, e)
    [] d.kind = "string"       -> EncodeString(d, v, e)
    [] d.kind = "duration"     -> EncodeDuration(d, v, e)
    [] d.kind = "error_record" -> EncodeErrorRecord(d, v, e)
    [] d.kind = "vector"       -> EncodeVector(d, v, e)
    [] d.kind = "decomposed"   -> EncodeDecomposed(d, v, e)

Decode(d, b, old, e) ==
  CASE d.kind = "base"         -> DecodeBase(d, b, old, e)
    [] d.kind = "array"        -> DecodeArray(d, b, old, e)
    [] d.kind = "tuple"        -> DecodeTuple(d, b, old, e)
    [] d.kind = "variant"      -> DecodeVariant(d, b, old, e)
    [] d.kind = "monostate"    -> DecodeMonostate(d, b, old, e)
    [] d.kind = "optional"     -> DecodeOptional(d, b, old, e)
    [] d.kind = "bitset"       -> DecodeBitset(d, b, old, e)
    [] d.kind = "message"      -> DecodeMessage(d, b, old, e)
    [] d.kind = "sizeless"     -> DecodeSizeless(d, b, old, e)
    [] d.kind = "offset"       -> DecodeOffset(d, b, old, e)
    [] d.kind = "quantity"     -> DecodeQuantity(d, b, old, e)
    [] d.kind = "bounded"      -> DecodeBounded(d, b, old, e)
    [] d.kind = "sized"        -> DecodeSized(d, b, old, e)
    [] d.kind = "tag"          -> DecodeTag(d, b, old, e)
    [] d.kind = "tag_group"    -> DecodeTagGroup(d, b, old, e)
    [] d.kind = "group"        -> DecodeGroup(d, b, old, e)
    [] d.kind = "endianess"    -> Decode(d.of[1], b, old, d.arg)
    [] d.kind = "def_type"     -> Decode(d.of[1], b, old, e)
    [] d.kind = "string"       -> DecodeString(d, b, old, e)
    [] d.kind = "duration"     -> DecodeDuration(d, b, old, e)
    [] d.kind = "error_record" -> DecodeErrorRecord(d, b, old, e)
    [] d.kind = "vector"       -> DecodeVector(d, b, old, e)
    [] d.kind = "decomposed"   -> DecodeDecomposed(d, b, old, e)

=============================================================================
