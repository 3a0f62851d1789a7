-------------------------------- MODULE Values --------------------------------
(***************************************************************************)
(* From bytes to values: the dispatcher over dtypes (values.rs), the typed *)
(* accessors of an attribute (core lib.rs, attr_view.rs) and those of a    *)
(* dataset (core dataset_convert.rs).  The global heap is a function from  *)
(* the addresses of its collections to the objects in them.  A number is   *)
(* held in a field as its bits, in the byte order its dtype names.         *)
(***************************************************************************)
EXTENDS Messages

CONSTANT MaxDecode                  \* MAX_DECODE_DEPTH

Got(value) == [ok |-> TRUE, value |-> value]
GotAll(results) ==
    IF \A i \in DOMAIN results : results[i].ok THEN Got([i \in DOMAIN results |-> results[i].value]) ELSE Bad

\* Where an element has no fixed size, a reference to the heap takes its place.
Footprint(d) == IF dtype_size(d) = Unsized THEN 16 ELSE dtype_size(d)
Element(bytes, i, width) == Slice(bytes, (i - 1) * width, width)

\* Bits are told apart from their number only for as long as TLC can count them.
SignExtended(bits, size) == IF size <= 3 /\ Bit(bits, 8 * size - 1) THEN bits - 2 ^ (8 * size) ELSE bits
Number(bytes, size, signed) ==
    IF signed THEN SignExtended(Read(bytes, 0, size), size) ELSE Read(bytes, 0, size)

parse_vlen_ref(bytes) ==
    IF ~Fits(bytes, 0, 16) \/ Read(bytes, 12, 4) > 65535 THEN Bad
    ELSE [ok |-> TRUE, count |-> Read(bytes, 0, 4), heap |-> Read(bytes, 4, 8), index |-> Read(bytes, 12, 4)]

heap_object_bytes(heaps, address, index) ==
    IF address \in DOMAIN heaps /\ index \in DOMAIN heaps[address]
    THEN [ok |-> TRUE, bytes |-> heaps[address][index]]
    ELSE Bad


\* What a reference stands for; an empty one is not looked up.
Referenced(heaps, ref) ==
    IF ref.count = 0 THEN [ok |-> TRUE, bytes |-> <<>>] ELSE heap_object_bytes(heaps, ref.heap, ref.index)

Point(bytes, p, ndim) == [d \in 1..ndim |-> Read(bytes, 20 + ((p - 1) * ndim + d - 1) * 8, 8)]
Slab(bytes, b, ndim) ==
    [d \in 1..ndim |-> <<Read(bytes, 20 + ((b - 1) * 2 * ndim + d - 1) * 8, 8),
                         Read(bytes, 20 + ((b - 1) * 2 * ndim + ndim + d - 1) * 8, 8)>>]

\* The selection is the first object of a collection; for each block a start and a
\* count in every dimension, or for each point its coordinates.
parse_region_selection(heaps, address) ==
    LET object == heap_object_bytes(heaps, address, 1)
        type == Read(object.bytes, 2, 2)
        ndim == Read(object.bytes, 8, 4)
        n == Read(object.bytes, 16, 4)
    IN  IF ~object.ok THEN Bad
        ELSE IF ~Fits(object.bytes, 0, 20) \/ type \notin {1, 2}
                \/ ~Fits(object.bytes, 20, type * n * ndim * 8) THEN Bad
        ELSE IF type = 1 THEN Got([points |-> [p \in 1..n |-> Point(object.bytes, p, ndim)]])
        ELSE Got([slabs |-> Joined([b \in 1..n |-> Slab(object.bytes, b, ndim)])])

RECURSIVE decode_one_value(_, _, _, _)

\* n elements of one dtype, side by side.
DecodedAll(heaps, bytes, d, n, depth) ==
    IF ~Fits(bytes, 0, n * Footprint(d)) THEN Bad
    ELSE GotAll([i \in 1..n |-> decode_one_value(heaps, Element(bytes, i, Footprint(d)), d, depth)])

decode_compound_element(heaps, bytes, fields, depth) ==
    IF \E i \in DOMAIN fields : ~Fits(bytes, fields[i].offset, Footprint(fields[i].dtype)) THEN Bad
    ELSE GotAll([i \in DOMAIN fields |->
                    decode_one_value(heaps, Slice(bytes, fields[i].offset, Footprint(fields[i].dtype)),
                                     fields[i].dtype, depth)])

DecodedSequence(heaps, bytes, base, depth) ==
    LET ref == parse_vlen_ref(bytes)
        object == Referenced(heaps, ref)
    IN  IF ~ref.ok THEN Bad
        ELSE IF ~object.ok THEN Bad
        ELSE DecodedAll(heaps, object.bytes, base, ref.count, depth)

DecodedString(heaps, bytes) ==
    LET ref == parse_vlen_ref(bytes)
        object == Referenced(heaps, ref)
    IN  IF ~ref.ok THEN Bad ELSE IF ~object.ok THEN Bad ELSE Got(UntilNul(object.bytes))

decode_one_value(heaps, bytes, d, depth) ==
    LET Whole(width) == Fits(bytes, 0, width)
    IN  IF depth >= MaxDecode THEN Bad
        ELSE CASE d.class = "int" ->
                    IF Whole(d.size) /\ d.size \in 1..8 THEN Got(Number(bytes, d.size, d.signed)) ELSE Bad
               [] d.class = "float" ->
                    IF Whole(d.size) /\ d.size \in {2, 4, 8} THEN Got(Read(bytes, 0, d.size)) ELSE Bad
               [] d.class = "bitfield" ->
                    IF Whole(d.size) /\ d.size \in 1..8 THEN Got(Read(bytes, 0, d.size)) ELSE Bad
               [] d.class = "string" /\ d.len # VarLenString ->
                    IF Whole(d.len) THEN Got(UntilNul(Slice(bytes, 0, d.len))) ELSE Bad
               [] d.class = "string" /\ d.len = VarLenString -> DecodedString(heaps, bytes)
               [] d.class = "opaque" -> Got(Slice(bytes, 0, d.size))
               [] d.class = "reference" /\ d.to = "object" -> IF Whole(8) THEN Got(Read(bytes, 0, 8)) ELSE Bad
               [] d.class = "reference" /\ d.to = "region" ->
                    LET selection == parse_region_selection(heaps, Read(bytes, 8, 4))
                    IN  IF ~Whole(12) THEN Bad
                        ELSE IF ~selection.ok THEN Bad
                        ELSE Got([of |-> Read(bytes, 0, 8), selection |-> selection.value])
               [] d.class = "enum" ->
                    IF d.base.class = "int" THEN decode_one_value(heaps, bytes, d.base, depth + 1) ELSE Bad
               [] d.class = "array" -> DecodedAll(heaps, bytes, d.base, Product(d.dims), depth + 1)
               [] d.class = "varlen" -> DecodedSequence(heaps, bytes, d.base, depth + 1)
               [] d.class = "compound" -> decode_compound_element(heaps, bytes, d.fields, depth + 1)

-----------------------------------------------------------------------------
(* Whole attributes and datasets *)

decode_vlen_strings(heaps, data, n) ==
    IF ~Fits(data, 0, 16 * n) THEN Bad
    ELSE GotAll([i \in 1..n |-> DecodedString(heaps, Element(data, i, 16))])

decode_vlen_sequences(heaps, data, n, base) ==
    LET depth == IF dtype_size(base) = Unsized THEN 1 ELSE 0
    IN  IF ~Fits(data, 0, 16 * n) THEN Bad
        ELSE GotAll([i \in 1..n |-> DecodedSequence(heaps, Element(data, i, 16), base, depth)])

decode_object_refs(data, n) == IF Fits(data, 0, 8 * n) THEN Got(ReadVector(data, 0, 8, n)) ELSE Bad

\* Without a stride, elements are as long as their last member reaches.
decode_compound(heaps, data, fields, n) ==
    LET stride == Largest({fields[i].offset + Footprint(fields[i].dtype) : i \in DOMAIN fields})
    IN  IF n = 0 THEN Got(<<>>)
        ELSE IF stride = 0 \/ ~Fits(data, 0, n * stride) THEN Bad
        ELSE GotAll([i \in 1..n |-> decode_compound_element(heaps, Element(data, i, stride), fields, 0)])

FixedStrings(data, len, n) ==
    IF len = 0 THEN Got(<<>>)
    ELSE IF ~Fits(data, 0, n * len) THEN Bad
    ELSE Got([i \in 1..n |-> UntilNul(Element(data, i, len))])

as_strings(heaps, a) ==
    IF a.dtype.len = VarLenString THEN decode_vlen_strings(heaps, a.data, attr_elem_count(a.space))
    ELSE FixedStrings(a.data, a.dtype.len, attr_elem_count(a.space))

\* The one number of an attribute, whatever its dataspace: none of an odd size.
as_number(a) ==
    IF a.dtype.size \notin (IF a.dtype.class = "int" THEN {1, 2, 4, 8} ELSE {4, 8})
       \/ ~Fits(a.data, 0, a.dtype.size) THEN Bad
    ELSE Got(Number(a.data, a.dtype.size, a.dtype.class = "int" /\ a.dtype.signed))

\* What the accessor of its type makes of an attribute.
AttributeValue(heaps, a) ==
    CASE a.dtype.class \in {"int", "float"} -> as_number(a)
      [] a.dtype.class = "string" -> as_strings(heaps, a)
      [] a.dtype.class = "reference" /\ a.dtype.to = "object" ->
            decode_object_refs(a.data, attr_elem_count(a.space))
      [] a.dtype.class = "compound" -> decode_compound(heaps, a.data, a.dtype.fields, attr_elem_count(a.space))
      [] a.dtype.class = "varlen" -> decode_vlen_sequences(heaps, a.data, attr_elem_count(a.space), a.dtype.base)
      [] OTHER -> Bad

\* A dataset is converted as a whole, by the accessor of just its type.
HasAccessor(d) ==
    \/ d.class = "float" /\ d.size \in {2, 4, 8}
    \/ d.class = "int" /\ d.size \in {1, 2, 4, 8}

DatasetValues(heaps, d, data, n) ==
    CASE HasAccessor(d) ->
            IF Size(data) % d.size # 0 THEN Bad
            ELSE Got([i \in 1..(Size(data) \div d.size) |->
                        Number(Element(data, i, d.size), d.size, d.class = "int" /\ d.signed)])
      [] d.class = "string" /\ d.len # VarLenString ->
            IF d.len = 0 THEN Bad
            ELSE IF Size(data) % d.len # 0 THEN Bad
            ELSE FixedStrings(data, d.len, Size(data) \div d.len)
      [] d.class = "compound" -> decode_compound(heaps, data, d.fields, n)
      [] OTHER -> Bad
-----------------------------------------------------------------------------
(* Types and values as libhdf5 stores them, in files of its earliest format (1) or of *)
(* its latest (3).  A sequence or text of variable length is [of, at], `at` its         *)
(* collection and index; a region is [of, selection, at, by], and laid out by "libhdf5" *)
(* or as this "reader" expects it.                                                      *)

RECURSIVE HasArray(_), DiskSize(_), EncodingVersion(_, _), StoredType(_, _), Legible(_, _), AsRead(_)

HasArray(d) ==
    \/ d.class = "array"
    \/ d.class = "varlen" /\ HasArray(d.base)
    \/ d.class = "compound" /\ \E i \in DOMAIN d.fields : HasArray(d.fields[i].dtype)

DiskSize(d) ==
    CASE d.class = "compound" -> Largest({d.fields[i].offset + DiskSize(d.fields[i].dtype) : i \in DOMAIN d.fields})
      [] d.class = "array" -> DiskSize(d.base) * Product(d.dims)
      [] OTHER -> Footprint(d)

\* The version a type is encoded in, within one of the given version: an array needs
\* version 2, and so does everything around it.
EncodingVersion(d, version) ==
    CASE d.class \in {"compound", "array"} /\ HasArray(d) -> Largest({2, version})
      [] d.class \in {"compound", "enum"} -> version
      [] d.class = "varlen" -> EncodingVersion(d.base, version)
      [] OTHER -> 1

\* Names are padded up to version 2; a member's offset is as wide as the size needs in
\* version 3, one byte here.
StoredName(name, version) == IF version = 3 THEN name \o Zeros(1) ELSE PaddedName(name)
StoredMember(field, version) ==
    StoredName(field.name, version) \o <<F(IF version = 3 THEN 1 ELSE 4, field.offset)>>
        \o Zeros(IF version = 1 THEN 28 ELSE 0) \o StoredType(field.dtype, version)
StoredDims(dims, version) ==
    <<F(1, Len(dims))>>
        \o (IF version = 3 THEN Vector(4, dims)
            ELSE Zeros(3) \o Vector(4, dims) \o Vector(4, [i \in DOMAIN dims |-> i - 1]))

StoredType(d, version) ==
    LET v == EncodingVersion(d, version)
    IN  CASE d.class = "int" -> Slice(write_fixed_dtype(d.size, d.signed, d.order), 0, 12)
          [] d.class = "float" -> Slice(write_float_dtype(d.size, d.order), 0, 20)
          [] d.class = "string" ->
                IF d.len # VarLenString THEN write_string_dtype(d.len, NullPad, d.charset)
                ELSE ClassHeader(9, v, <<1, IF d.charset = "utf8" THEN 1 ELSE 0, 0>>, 16)
                        \o StoredType(IntType(1, FALSE, Little), version)
          [] d.class = "bitfield" -> bitfield(d.size, d.order).body
          [] d.class = "opaque" -> ClassHeader(5, v, <<pad8(Size(d.tag)), 0, 0>>, d.size) \o Padded(d.tag)
          [] d.class = "reference" -> ClassHeader(7, v, <<IF d.to = "region" THEN 1 ELSE 0, 0, 0>>, dtype_size(d))
          [] d.class = "enum" ->
                ClassHeader(8, v, <<Len(d.members), 0, 0>>, d.base.size) \o StoredType(d.base, v)
                    \o Joined([i \in DOMAIN d.members |-> StoredName(d.members[i][1], v)])
                    \o Vector(d.base.size, [i \in DOMAIN d.members |-> d.members[i][2]])
          [] d.class = "varlen" -> ClassHeader(9, v, <<0, 0, 0>>, 16) \o StoredType(d.base, version)
          [] d.class = "array" -> ClassHeader(10, v, <<0, 0, 0>>, DiskSize(d)) \o StoredDims(d.dims, v)
                                     \o StoredType(d.base, version)
          [] d.class = "compound" -> ClassHeader(6, v, <<Len(d.fields), 0, 0>>, DiskSize(d))
                                        \o Joined([i \in DOMAIN d.fields |-> StoredMember(d.fields[i], v)])

\* Whether the reader makes out such a type.  In version 2 it takes names to be unpadded,
\* so that each must end on a multiple of 8; in version 3 it takes offsets of members for
\* four bytes.
EndsOnEight(name) == Size(name) % 8 = 7
Legible(d, version) ==
    LET v == EncodingVersion(d, version)
    IN  CASE d.class = "compound" -> /\ v # 3
                                     /\ \A i \in DOMAIN d.fields : /\ v = 2 => EndsOnEight(d.fields[i].name)
                                                                   /\ Legible(d.fields[i].dtype, v)
          [] d.class = "enum" -> v = 2 => \A i \in DOMAIN d.members : EndsOnEight(d.members[i][1])
          [] d.class \in {"varlen", "array"} -> Legible(d.base, version)
          [] OTHER -> TRUE

\* What it makes of one: the characters of a text of variable length it takes to be those
\* of the base type, which for libhdf5 is a number.
AsRead(d) ==
    CASE d.class = "string" /\ d.len = VarLenString -> [d EXCEPT !.charset = "ascii"]
      [] d.class \in {"varlen", "array"} -> [d EXCEPT !.base = AsRead(@)]
      [] d.class = "compound" -> [d EXCEPT !.fields = [i \in DOMAIN @ |-> [@[i] EXCEPT !.dtype = AsRead(@)]]]
      [] OTHER -> d

RECURSIVE Stored(_, _), Meant(_, _), Lost(_, _), Objects(_, _)

Referred(count, v) == <<F(4, count), F(8, v.at[1]), F(4, v.at[2])>>
TwosComplement(v, size) == IF v < 0 THEN v + 2 ^ (8 * size) ELSE v

\* libhdf5: where the object in the heap is.
StoredRegion(v) == <<F(8, v.at[1]), F(4, v.at[2])>>
\* The reader: the dataset, and the collection that the selection is first in.
ExpectedRegion(v) == <<F(8, v.of), F(4, v.at[1])>>

Stored(d, v) ==
    CASE d.class = "string" -> IF d.len = VarLenString THEN Referred(Size(v.of), v) ELSE PadTo(v, d.len)
      [] d.class = "opaque" -> v
      [] d.class = "reference" -> IF d.to = "object" THEN <<F(8, v)>>
                                  ELSE IF v.by = "libhdf5" THEN StoredRegion(v) ELSE ExpectedRegion(v)
      [] d.class = "enum" -> Stored(d.base, v)
      [] d.class = "varlen" -> Referred(Len(v.of), v)
      [] d.class = "array" -> Joined([i \in DOMAIN v |-> Stored(d.base, v[i])])
      [] d.class = "compound" ->
            Joined([i \in DOMAIN v |->
                Stored(d.fields[i].dtype, v[i])
                \o Zeros(IF i = Len(v) THEN 0
                         ELSE d.fields[i + 1].offset - d.fields[i].offset - DiskSize(d.fields[i].dtype))])
      [] OTHER -> <<F(d.size, TwosComplement(v, d.size))>>

HasPoints(s) == "points" \in DOMAIN s
RowsOf(s) == IF HasPoints(s) THEN s.points ELSE s.slabs
SelectionType(s) == IF HasPoints(s) THEN 1 ELSE 2

\* libhdf5: the dataset, the selection's type, version, length, rank and number of
\* points or blocks, and of each its coordinates or the first and the last of them.
StoredSelection(of, s) ==
    LET rows == RowsOf(s)
        rank == Len(rows[1])
        Starts(row) == Vector(4, [k \in 1..rank |-> row[k][1]])
        Ends(row) == Vector(4, [k \in 1..rank |-> row[k][1] + row[k][2] - 1])
    IN  <<F(8, of), F(4, SelectionType(s)), F(4, 1), F(4, 0),
          F(4, 8 + 4 * SelectionType(s) * rank * Len(rows)), F(4, rank), F(4, Len(rows))>>
            \o Joined([i \in DOMAIN rows |-> IF HasPoints(s) THEN Vector(4, rows[i])
                                             ELSE Starts(rows[i]) \o Ends(rows[i])])

\* The reader: version and type, rank, number, and of each eight-byte coordinates or
\* starts and counts.
ExpectedSelection(s) ==
    LET rows == RowsOf(s)
    IN  <<F(2, 1), F(2, SelectionType(s)), F(4, 0), F(4, Len(rows[1])), F(4, 0), F(4, Len(rows))>>
            \o Joined([i \in DOMAIN rows |->
                        IF HasPoints(s) THEN Vector(8, rows[i])
                        ELSE Vector(8, [k \in DOMAIN rows[i] |-> rows[i][k][1]])
                             \o Vector(8, [k \in DOMAIN rows[i] |-> rows[i][k][2]])])

\* An attribute of libhdf5's: [name, dtype, format, space, value].
StoredAttribute(a, version) ==
    LET dtype == StoredType(a.dtype, a.format)
        dspace == IF a.space = Scalar THEN <<F(1, 1)>> \o Zeros(7) ELSE dataspace_body(a.space.dims, FALSE)
        name == IF version = 1 THEN PaddedName(a.name) ELSE a.name \o Zeros(1)
    IN  <<F(1, version), F(1, 0), F(2, Size(a.name) + 1), F(2, Size(dtype)), F(2, Size(dspace))>>
            \o (IF version = 3 THEN <<F(1, 0)>> ELSE <<>>) \o name
            \o (IF version = 1 THEN Padded(dtype) \o Padded(dspace) ELSE dtype \o dspace)
            \o Joined([i \in DOMAIN a.value |-> Stored(a.dtype, a.value[i])])

\* What a reader is to find in it.
Meant(d, v) ==
    CASE d.class = "string" /\ d.len = VarLenString -> v.of
      [] d.class = "reference" /\ d.to = "region" ->
            [of |-> v.of, selection |-> IF "points" \in DOMAIN v.selection THEN v.selection
                                        ELSE [slabs |-> Joined(v.selection.slabs)]]
      [] d.class = "varlen" -> [i \in DOMAIN v.of |-> Meant(d.base, v.of[i])]
      [] d.class = "array" -> [i \in DOMAIN v |-> Meant(d.base, v[i])]
      [] d.class = "compound" -> [i \in DOMAIN v |-> Meant(d.fields[i].dtype, v[i])]
      [] OTHER -> v

\* The objects in the heap that a value refers to: <<collection, index, bytes>>.
Objects(d, v) ==
    CASE d.class = "string" /\ d.len = VarLenString -> IF v.of = <<>> THEN {} ELSE {<<v.at[1], v.at[2], v.of>>}
      [] d.class = "reference" /\ d.to = "region" -> 
            {<<v.at[1], v.at[2], IF v.by = "libhdf5" THEN StoredSelection(v.of, v.selection)
                                 ELSE ExpectedSelection(v.selection)>>}
      [] d.class = "varlen" ->
            IF v.of = <<>> THEN {}
            ELSE {<<v.at[1], v.at[2], Joined([i \in DOMAIN v.of |-> Stored(d.base, v.of[i])])>>}
                    \cup UNION {Objects(d.base, v.of[i]) : i \in DOMAIN v.of}
      [] d.class = "array" -> UNION {Objects(d.base, v[i]) : i \in DOMAIN v}
      [] d.class = "compound" -> UNION {Objects(d.fields[i].dtype, v[i]) : i \in DOMAIN v}
      [] OTHER -> {}

\* Whether the reader cannot find a part of it in the heap, for a region of libhdf5's.
Lost(d, v) ==
    CASE d.class = "reference" /\ d.to = "region" -> v.by = "libhdf5"
      [] d.class = "varlen" -> \E i \in DOMAIN v.of : Lost(d.base, v.of[i])
      [] d.class = "array" -> \E i \in DOMAIN v : Lost(d.base, v[i])
      [] d.class = "compound" -> \E i \in DOMAIN v : Lost(d.fields[i].dtype, v[i])
      [] OTHER -> FALSE

HeapOf(objects) ==
    [address \in {o[1] : o \in objects} |->
        [index \in {o[2] : o \in {p \in objects : p[1] = address}} |->
            (CHOOSE o \in objects : o[1] = address /\ o[2] = index)[3]]]
=============================================================================
