------------------------------- MODULE Messages -------------------------------
(***************************************************************************)
(* The bodies of object header messages: as the writer lays them out       *)
(* (write/oh.rs, elem.rs, link.rs, pipeline.rs) and as the reader parses   *)
(* them (message.rs, link_msg.rs).  Addresses and values are numbers, data *)
(* and names are fields.  A parser's answer has `ok`, and what it read.    *)
(***************************************************************************)
EXTENDS Datatypes

Dataspace == 1
LinkInfo == 2
Datatype == 3
FillValue == 5
LinkMessage == 6
Layout == 8
GroupInfo == 10
Pipeline == 11
Attribute == 12
SharedTable == 15
Continuation == 16
SymbolTable == 17
BtreeK == 19
DriverInfo == 20
FileSpace == 24
NIL == 0

Message(type, flags, body) == [type |-> type, flags |-> flags, body |-> body]

-----------------------------------------------------------------------------
(* Bodies the writer lays out *)

dataspace_body(dims, unlimited_dim0) ==
    <<F(1, 1), F(1, Len(dims)), F(1, 1)>> \o Zeros(5) \o Vector(8, dims)
        \o Vector(8, [i \in DOMAIN dims |-> IF unlimited_dim0 /\ i = 1 THEN UNDEFINED ELSE dims[i]])

\* value: <<>> or the fields of one element.
fill_value_body(incremental, value) ==
    <<F(1, 2), F(1, IF incremental THEN 3 ELSE 2), F(1, 2), F(1, 1), F(4, Size(value))>> \o value

contiguous_body(address, size) ==
    <<F(1, 3), F(1, 1), F(8, IF size = 0 THEN UNDEFINED ELSE address), F(8, size)>> \o Zeros(6)

chunked_body(chunk_dims, btree) ==
    <<F(1, 3), F(1, 2), F(1, Len(chunk_dims)), F(8, btree)>> \o Vector(4, chunk_dims)

compact_body(data) == <<F(1, 3), F(1, 0), F(2, Size(data))>> \o data

symbol_table_body(btree, heap) == <<F(8, btree), F(8, heap)>>

\* Filters as they are applied; the names are those libhdf5 gives them.
descriptors(filter, elem_size) ==
    (IF filter.shuffle
     THEN <<[id |-> 2, flags |-> 1, name |-> <<F(7, 2), F(1, 0)>>, client |-> <<elem_size>>]>>
     ELSE <<>>) \o
    (IF filter.deflate
     THEN <<[id |-> 1, flags |-> 1, name |-> <<F(7, 1), F(1, 0)>>, client |-> <<filter.level>>]>>
     ELSE <<>>) \o
    (IF filter.fletcher32
     THEN <<[id |-> 3, flags |-> 0, name |-> <<F(10, 3), F(1, 0)>>, client |-> <<>>]>>
     ELSE <<>>)

FilterBody(d) ==
    <<F(2, d.id), F(2, pad8(Size(d.name))), F(2, d.flags), F(2, Len(d.client))>>
        \o Padded(d.name) \o Padded(Vector(4, d.client))

pipeline_body(filter, elem_size) ==
    LET descs == descriptors(filter, elem_size)
    IN  <<F(1, 1), F(1, Len(descs))>> \o Zeros(6)
            \o Joined([i \in DOMAIN descs |-> FilterBody(descs[i])])

\* creation order: <<>> if it is not tracked, or <<the next one>>.
link_info_body(order, fractal_heap, name_index) ==
    <<F(1, 0), F(1, Len(order))>> \o Vector(8, order) \o <<F(8, fractal_heap), F(8, name_index)>>

group_info_body == Zeros(2)

\* How many bytes the length of a name takes, and the flag bits that say so.
name_len_width(len) == IF len <= 255 THEN <<1, 0>> ELSE IF len <= 65535 THEN <<2, 1>> ELSE <<4, 2>>

TypeByte(value) ==
    CASE value.kind = "hard" -> <<>> [] value.kind = "soft" -> <<1>> [] value.kind = "external" -> <<64>>

LinkValue(value) ==
    CASE value.kind = "hard" -> <<F(8, value.address)>>
      [] value.kind = "soft" -> <<F(2, Size(value.path))>> \o value.path
      [] value.kind = "external" ->
            LET payload == Zeros(1) \o value.file \o Zeros(1) \o value.path \o Zeros(1)
            IN  <<F(2, Size(payload))>> \o payload

\* link: [name, value, order]
link_body(link) ==
    LET type == TypeByte(link.value)
        width == name_len_width(Size(link.name))
    IN  <<F(1, 1), F(1, width[2] + 8 * Len(type) + 4 * Len(link.order))>>
            \o Vector(1, type) \o Vector(8, link.order)
            \o <<F(width[1], Size(link.name))>> \o link.name \o LinkValue(link.value)

-----------------------------------------------------------------------------
(* Attributes: [name, kind, ...], resolved, with all addresses known *)

StrAttr(name, text) == [name |-> name, kind |-> "str", text |-> text]
NullTermAttr(name, text) == [name |-> name, kind |-> "nullterm", text |-> text]
StrsAttr(name, texts) == [name |-> name, kind |-> "strs", texts |-> texts]
NumAttr(name, elem, value) == [name |-> name, kind |-> "num", elem |-> elem, value |-> value]
NumsAttr(name, elem, values) == [name |-> name, kind |-> "nums", elem |-> elem, values |-> values]
RefsAttr(name, addrs) == [name |-> name, kind |-> "refs", addrs |-> addrs]
VlenRefsAttr(name, elems) == [name |-> name, kind |-> "vlen_refs", elems |-> elems]
RefIndexAttr(name, pairs) == [name |-> name, kind |-> "ref_index", pairs |-> pairs]

IsSentinel(attr) == attr.kind \in {"fill_value", "compact_layout"}
resolve_attrs(attrs) == SelectSeq(attrs, LAMBDA a : ~IsSentinel(a))

FirstOfKind(attrs, kind) ==
    LET found == SelectSeq(attrs, LAMBDA a : a.kind = kind)
    IN  IF found = <<>> THEN <<>> ELSE <<found[1].data>>
fill_value_bytes(attrs) == FirstOfKind(attrs, "fill_value")
compact_layout_data(attrs) == FirstOfKind(attrs, "compact_layout")

PadTo(text, width) == text \o Zeros(width - Size(text))
fixed_str_width(text) == Largest({1, Size(text)})
nullterm_str_width(text) == Size(text) + 1
str_array_width(texts) == Largest({1} \cup {Size(texts[i]) : i \in DOMAIN texts})

ref_index_dtype ==
    ClassHeader(6, 1, <<2, 0, 0>>, 12)
        \o Padded(<<F(7, 3), F(1, 0)>>) \o <<F(4, 0)>> \o MEMBER_DIM_BLOCK \o write_ref_dtype
        \o Padded(<<F(9, 4), F(1, 0)>>) \o <<F(4, 8)>> \o MEMBER_DIM_BLOCK
        \o Slice(write_fixed_dtype(4, FALSE, Little), 0, 12)

AttrDtype(a) ==
    CASE a.kind = "str" -> write_string_dtype(fixed_str_width(a.text), NullPad, "utf8")
      [] a.kind = "nullterm" -> write_string_dtype(nullterm_str_width(a.text), NullTerm, "ascii")
      [] a.kind = "strs" -> write_string_dtype(str_array_width(a.texts), NullPad, "utf8")
      [] a.kind \in {"num", "nums"} -> write_datatype_body(a.elem)
      [] a.kind = "refs" -> write_ref_dtype
      [] a.kind = "vlen_refs" -> write_vlen_ref_dtype
      [] a.kind = "ref_index" -> ref_index_dtype

AttrData(a) ==
    CASE a.kind = "str" -> PadTo(a.text, fixed_str_width(a.text))
      [] a.kind = "nullterm" -> PadTo(a.text, nullterm_str_width(a.text))
      [] a.kind = "strs" ->
            Joined([i \in DOMAIN a.texts |-> PadTo(a.texts[i], str_array_width(a.texts))])
      [] a.kind = "num" -> <<F(byte_size(a.elem), a.value)>>
      [] a.kind = "nums" -> Vector(byte_size(a.elem), a.values)
      [] a.kind = "refs" -> Vector(8, a.addrs)
      [] a.kind = "vlen_refs" ->
            Joined([i \in DOMAIN a.elems |->
                        <<F(4, a.elems[i].count), F(8, a.elems[i].heap), F(4, a.elems[i].index)>>])
      [] a.kind = "ref_index" ->
            Joined([i \in DOMAIN a.pairs |-> <<F(8, a.pairs[i][1]), F(4, a.pairs[i][2])>>])

\* The length of its one dimension, or <<>> of a scalar.
vector_len(a) ==
    CASE a.kind \in {"str", "nullterm", "num"} -> <<>>
      [] a.kind = "strs" -> <<Len(a.texts)>>
      [] a.kind = "nums" -> <<Len(a.values)>>
      [] a.kind = "refs" -> <<Len(a.addrs)>>
      [] a.kind = "vlen_refs" -> <<Len(a.elems)>>
      [] a.kind = "ref_index" -> <<Len(a.pairs)>>

AttrDataspace(a) ==
    IF vector_len(a) = <<>> THEN <<F(1, 1)>> \o Zeros(7) ELSE dataspace_body(vector_len(a), FALSE)

attribute_body(a) ==
    LET dtype == AttrDtype(a)
        dspace == AttrDataspace(a)
    IN  <<F(1, 1), F(1, 0), F(2, Size(a.name) + 1), F(2, Size(dtype)), F(2, Size(dspace))>>
            \o PaddedName(a.name) \o Padded(dtype) \o Padded(dspace) \o AttrData(a)

-----------------------------------------------------------------------------
(* The parsers *)

NoMax == <<>>

SimpleSpace(body, version, rank) ==
    LET dims == IF version = 1 THEN 8 ELSE 4
        maxs == dims + 8 * rank
    IN  IF body = <<>> \/ version \notin {1, 2} \/ ~Fits(body, 0, maxs) THEN Bad
        ELSE [ok |-> TRUE, dims |-> ReadVector(body, dims, 8, rank),
              max_dims |-> IF Bit(Read(body, 2, 1), 0) /\ Fits(body, maxs, 8 * rank)
                           THEN <<ReadVector(body, maxs, 8, rank)>> ELSE NoMax]
parse_dataspace(body) == SimpleSpace(body, Read(body, 0, 1), Read(body, 1, 1))

Scalar == [scalar |-> TRUE]

\* The dataspace of an attribute, where a rank of 0 is a scalar.
parse_dataspace_rich(body) ==
    LET version == Read(body, 0, 1)
    IN  IF body = <<>> \/ version \notin {1, 2} \/ ~Fits(body, 0, IF version = 1 THEN 8 ELSE 4)
        THEN Bad
        ELSE IF Read(body, 1, 1) = 0 THEN [ok |-> TRUE, space |-> Scalar]
        ELSE Then(parse_dataspace(body), LAMBDA simple :
                  [ok |-> TRUE, space |-> [dims |-> simple.dims, max_dims |-> simple.max_dims]])

ContiguousAt(address, size) ==
    IF address = UNDEFINED /\ size # 0 THEN Bad
    ELSE [ok |-> TRUE, class |-> "contiguous", address |-> address, size |-> size]

ChunkedAt(address, dims, index, single) ==
    IF \E i \in DOMAIN dims : dims[i] = 0 THEN Bad
    ELSE [ok |-> TRUE, class |-> "chunked", address |-> address, dims |-> dims, index |-> index,
          single |-> single]

\* The internal number of each indexing type, and the bytes of its parameters.
IndexTypes == <<[index |-> 4, info |-> 0], [index |-> 5, info |-> 0], [index |-> 1, info |-> 1],
                [index |-> 2, info |-> 5], [index |-> 3, info |-> 6]>>

parse_layout_v4_chunked(body) ==
    LET rank == Read(body, 3, 1)
        width == Read(body, 4, 1)
        dims_end == 5 + rank * width
        type == Read(body, dims_end, 1)
        filtered == type = 1 /\ Bit(Read(body, 2, 1), 1)
        at == dims_end + 1
        address_at == at + IF filtered THEN 12 ELSE IndexTypes[type].info
    IN  IF ~Fits(body, 0, 5) \/ rank = 0 \/ width \notin 1..8 \/ ~Fits(body, dims_end, 1) THEN Bad
        ELSE IF type \notin DOMAIN IndexTypes THEN Bad
        ELSE IF ~Fits(body, address_at, 8) THEN Bad
        ELSE ChunkedAt(Read(body, address_at, 8), ReadVector(body, 5, width, rank),
                       IndexTypes[type].index,
                       IF filtered THEN <<[size |-> Read(body, at, 8), mask |-> Read(body, at + 8, 4)]>>
                       ELSE <<>>)

parse_layout(body) ==
    LET version == Read(body, 0, 1)
        class == Read(body, 1, 1)
    IN  IF ~Fits(body, 0, 2) THEN Bad
        ELSE CASE version \in {3, 4} /\ class = 1 ->
                    IF Fits(body, 0, 18) THEN ContiguousAt(Read(body, 2, 8), Read(body, 10, 8)) ELSE Bad
               [] version \in {3, 4} /\ class = 0 ->
                    IF ~Fits(body, 0, 4) \/ ~Fits(body, 4, Read(body, 2, 2)) THEN Bad
                    ELSE [ok |-> TRUE, class |-> "compact", data |-> Slice(body, 4, Read(body, 2, 2))]
               [] version = 3 /\ class = 2 ->
                    IF ~Fits(body, 0, 11 + 4 * Read(body, 2, 1)) THEN Bad
                    ELSE ChunkedAt(Read(body, 3, 8), ReadVector(body, 11, 4, Read(body, 2, 1)), 0, <<>>)
               [] version = 1 /\ class = 1 ->
                    IF Fits(body, 0, 24) THEN ContiguousAt(Read(body, 8, 8), Read(body, 16, 8)) ELSE Bad
               [] version \in {4, 5} /\ class = 2 -> parse_layout_v4_chunked(body)
               [] version = 4 /\ class = 3 ->
                    IF ~Fits(body, 0, 14) THEN Bad
                    ELSE [ok |-> TRUE, class |-> "virtual", heap |-> Read(body, 2, 8),
                          index |-> Read(body, 10, 4)]
               [] OTHER -> Bad

parse_symbol_table(body) ==
    IF ~Fits(body, 0, 16) THEN Bad
    ELSE [ok |-> TRUE, btree |-> Read(body, 0, 8), heap |-> Read(body, 8, 8)]

NoFill == [ok |-> TRUE, value |-> <<>>]
FillAt(body, at) ==
    IF ~Fits(body, 0, at) \/ ~Fits(body, at, Read(body, at - 4, 4)) THEN Bad
    ELSE [ok |-> TRUE, value |-> <<Slice(body, at, Read(body, at - 4, 4))>>]

\* value: <<>>, or <<its fields>>
parse_fill_value(body) ==
    LET version == Read(body, 0, 1)
    IN  IF body = <<>> THEN NoFill
        ELSE IF version \in {1, 2}
        THEN IF Fits(body, 0, 4) /\ Read(body, 3, 1) # 0 THEN FillAt(body, 8) ELSE NoFill
        ELSE IF version = 3
        THEN IF Fits(body, 0, 2) /\ Bit(Read(body, 1, 1), 5) THEN FillAt(body, 6) ELSE NoFill
        ELSE NoFill

\* As many of n client values as there are.
RECURSIVE ClientData(_, _, _)
ClientData(body, pos, n) ==
    IF n = 0 \/ ~Fits(body, pos, 4) THEN <<>>
    ELSE <<Read(body, pos, 4)>> \o ClientData(body, pos + 4, n - 1)

FilterName(body, pos, len) ==
    IF len > 0 /\ Fits(body, pos, len) THEN <<UntilNul(Slice(body, pos, len))>> ELSE <<>>

RECURSIVE FiltersV1(_, _, _), FiltersV2(_, _, _)
FiltersV1(body, pos, left) ==
    LET name_len == Read(body, pos + 2, 2)
        count == Read(body, pos + 6, 2)
        client == pos + 8 + pad8(name_len)
    IN  IF left = 0 \/ ~Fits(body, pos, 8) THEN <<>>
        ELSE <<[id |-> Read(body, pos, 2), flags |-> Read(body, pos + 4, 2),
                name |-> FilterName(body, pos + 8, name_len),
                client |-> ClientData(body, client, count)]>>
             \o FiltersV1(body, client + 4 * (Len(ClientData(body, client, count)) + (count % 2)), left - 1)

FiltersV2(body, pos, left) ==
    LET named == Read(body, pos, 2) >= 256
        at == pos + IF named THEN 4 ELSE 2
        name_len == IF named THEN Read(body, pos + 2, 2) ELSE 0
        client == ClientData(body, at + 4 + name_len, Read(body, at + 2, 2))
    IN  IF left = 0 \/ ~Fits(body, at, 4) THEN <<>>
        ELSE <<[id |-> Read(body, pos, 2), flags |-> Read(body, at, 2),
                name |-> FilterName(body, at + 4, name_len), client |-> client]>>
             \o FiltersV2(body, at + 4 + name_len + 4 * Len(client), left - 1)

parse_filter_pipeline(body) ==
    LET version == Read(body, 0, 1)
    IN  IF ~Fits(body, 0, 2) THEN Bad
        ELSE [ok |-> TRUE,
              filters |-> IF version = 1 THEN FiltersV1(body, 8, Read(body, 1, 1))
                          ELSE IF version = 2 THEN FiltersV2(body, 2, Read(body, 1, 1)) ELSE <<>>]

attr_elem_footprint(dtype) == IF dtype_size(dtype) = Unsized THEN 16 ELSE dtype_size(dtype)
attr_elem_count(space) == IF space = Scalar THEN 1 ELSE Product(space.dims)

\* Mutant: what follows the value is taken with it.
payload_untrimmed(dtype, space, remaining) == remaining

attr_payload_len(dtype, space, remaining) ==
    LET len == attr_elem_count(space) * attr_elem_footprint(dtype)
    IN  IF len <= remaining THEN len ELSE remaining

\* A part of a version-1 attribute is padded to eight bytes.
PartOf(v1, size) == IF v1 THEN pad8(size) ELSE size

\* The value, from byte `at` on; version 1 takes of the rest no more than its length.
AttrOf(body, name, dtype, space, at, v1) ==
    LET remaining == Size(body) - at
    IN  [ok |-> TRUE, name |-> name, dtype |-> dtype, space |-> space,
         data |-> Slice(body, at, IF v1 THEN attr_payload_len(dtype, space, remaining) ELSE remaining)]

\* The parts from byte `pos` on, of the given sizes.
AttrParts(body, pos, v1, name, dtype, dspace) ==
    LET dtype_at == pos + PartOf(v1, name)
        dspace_at == dtype_at + PartOf(v1, dtype)
        data_at == dspace_at + PartOf(v1, dspace)
    IN  IF ~Fits(body, 0, 8) \/ ~Fits(body, 0, data_at) THEN Bad
        ELSE Then(parse_datatype(Slice(body, dtype_at, dtype)), LAMBDA d :
             Then(parse_dataspace_rich(Slice(body, dspace_at, dspace)), LAMBDA s :
                  AttrOf(body, UntilNul(Slice(body, pos, name)), d.dtype, s.space, data_at, v1)))

parse_attribute(body) ==
    LET version == Read(body, 0, 1)
    IN  IF version \notin 1..3 THEN Bad
        ELSE AttrParts(body, IF version = 3 THEN 9 ELSE 8, version = 1,
                       Read(body, 2, 2), Read(body, 4, 2), Read(body, 6, 2))

Defined(address) == IF address = UNDEFINED THEN <<>> ELSE <<address>>

parse_link_info(body) ==
    LET flags == Read(body, 1, 1)
        order_at == 2 + IF Bit(flags, 0) THEN 8 ELSE 0
        heap_at == order_at + IF Bit(flags, 1) THEN 8 ELSE 0
    IN  IF ~Fits(body, 0, 2) \/ ~Fits(body, heap_at, 16) THEN Bad
        ELSE [ok |-> TRUE, tracked |-> Bit(flags, 0),
              order_index |-> IF Bit(flags, 1) THEN Defined(Read(body, order_at, 8)) ELSE <<>>,
              heap |-> Defined(Read(body, heap_at, 8)), name_index |-> Defined(Read(body, heap_at + 8, 8))]

\* The value of an external link: a version, a file name, a NUL, a path, and a NUL or none.
parse_external(value) ==
    LET inner == From(value, 1)
        path == SubSeq(inner, Nul(inner) + 1, Len(inner))
    IN  IF value = <<>> \/ ~HasNul(inner) THEN Bad
        ELSE [ok |-> TRUE, kind |-> "external", file |-> UntilNul(inner),
              path |-> IF path # <<>> /\ path[Len(path)].v = 0 THEN SubSeq(path, 1, Len(path) - 1) ELSE path]

parse_link_value(body, type, pos) ==
    LET len == Read(body, pos, 2)
    IN  IF type = 0
        THEN IF Fits(body, pos, 8) THEN [ok |-> TRUE, kind |-> "hard", address |-> Read(body, pos, 8)] ELSE Bad
        ELSE IF type \notin {1, 64} \/ ~Fits(body, pos, 2) \/ ~Fits(body, pos + 2, len) THEN Bad
        ELSE IF type = 1 THEN [ok |-> TRUE, kind |-> "soft", path |-> Slice(body, pos + 2, len)]
        ELSE parse_external(Slice(body, pos + 2, len))

parse_link(body) ==
    LET flags == Read(body, 1, 1)
        typed == Bit(flags, 3)
        name_len_at == 2 + (IF typed THEN 1 ELSE 0) + (IF Bit(flags, 2) THEN 8 ELSE 0)
                         + (IF Bit(flags, 4) THEN 1 ELSE 0)
        width == 2 ^ (flags % 4)
        name_at == name_len_at + width
        name_len == Read(body, name_len_at, width)
        value == parse_link_value(body, IF typed THEN Read(body, 2, 1) ELSE 0, name_at + name_len)
    IN  IF ~Fits(body, 0, 2) \/ ~Fits(body, name_at, name_len) THEN Bad
        ELSE IF ~value.ok THEN Bad
        ELSE [ok |-> TRUE, name |-> Slice(body, name_at, name_len), value |-> value]
=============================================================================
