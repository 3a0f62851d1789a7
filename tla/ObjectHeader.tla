------------------------------ MODULE ObjectHeader ------------------------------
(***************************************************************************)
(* Superblocks and object headers.  The writer puts the messages of a      *)
(* group or dataset into a version-1 header (write/oh.rs, format.rs); the  *)
(* reader finds the header through the superblock (superblock.rs), walks   *)
(* its blocks, of version 1 or 2, message by message (header.rs), and      *)
(* makes a dataset, a group or a superblock extension of what it collected *)
(* (reader.rs, group.rs).  Headers of libhdf5, with continuation blocks,   *)
(* are described by their blocks and laid out by Rendered.                 *)
(***************************************************************************)
EXTENDS Values, FiniteSets

CONSTANTS
    Object,             \* what there may be in the file
    MaxMessage,         \* the longest body a message can declare: 65535
    MaxContinuations    \* 256

VARIABLES
    object,      \* what is in the file
    at,          \* "described", "written", "parsing", "parsed", "done"
    image,       \* the file
    todo,        \* blocks to walk, from .pos to .end: a queue (version 1) or a stack
    followed,    \* where the blocks were that were walked (1), or entered (2)
    messages,    \* collected: [type, data]
    answer

headerVars == <<object, at, image, todo, followed, messages, answer>>

HDF5_SIGNATURE == 700001
OHDR_SIGNATURE == 700002
OCHK_SIGNATURE == 700003
Checksum == 700004
ROOT_OH_ADDR == 96

-----------------------------------------------------------------------------
(* Writing *)

write_superblock(btree, heap, eof) ==
    <<F(8, HDF5_SIGNATURE)>> \o Zeros(5) \o <<F(1, 8), F(1, 8), F(1, 0), F(2, 4), F(2, 16), F(4, 0)>>
        \o <<F(8, 0), F(8, UNDEFINED), F(8, eof), F(8, UNDEFINED)>>
        \o <<F(8, 0), F(8, ROOT_OH_ADDR), F(4, 1), F(4, 0), F(8, btree), F(8, heap)>>

AttrMessages(attrs) ==
    LET resolved == resolve_attrs(attrs)
    IN  [i \in DOMAIN resolved |-> Message(Attribute, 0, attribute_body(resolved[i]))]

group_oh_msgs(g) == <<Message(SymbolTable, 0, symbol_table_body(g.btree, g.heap))>> \o AttrMessages(g.attrs)

\* g.dense: <<>>, or <<fractal heap, name index>> if the links are there.
link_group_oh_msgs(g) ==
    LET dense == IF g.dense = <<>> THEN <<UNDEFINED, UNDEFINED>> ELSE g.dense
        header_links == IF g.dense = <<>> THEN g.links ELSE <<>>
    IN  <<Message(LinkInfo, 0, link_info_body(g.order, dense[1], dense[2])),
          Message(GroupInfo, 1, group_info_body)>>
            \o [i \in DOMAIN header_links |-> Message(LinkMessage, 0, link_body(header_links[i]))]
            \o AttrMessages(g.attrs)

\* A dataset is declared with an element type, or with a type that is encoded then and there.
DatatypeOf(type) ==
    CASE type.spec = "compound" -> compound(type.fields, type.struct_size)
      [] type.spec = "sequence" -> vlen_sequence(type.base)
      [] type.spec = "array" -> array(type.base, type.dims)
      [] type.spec = "opaque" -> opaque(type.size, type.tag)
      [] type.spec = "bitfield" -> bitfield(type.size, type.order)
      [] OTHER -> Encoded(write_datatype_body(type), byte_size(type))

is_active(filter) == filter.shuffle \/ filter.deflate \/ filter.fletcher32

\* d.chunk: <<>>, or the shape of the chunks.
LayoutBody(d, elem_size) ==
    LET compact == compact_layout_data(d.attrs)
    IN  IF compact # <<>> THEN compact_body(compact[1])
        ELSE IF d.chunk # <<>> THEN chunked_body(d.chunk \o <<elem_size>>, d.address)
        ELSE contiguous_body(d.address, Product(d.shape) * elem_size)

dataset_oh_msgs(d) ==
    LET type == DatatypeOf(d.type)
    IN  <<Message(Dataspace, 0, dataspace_body(d.shape, d.unlimited)),
          Message(Datatype, 1, type.body),
          Message(FillValue, 1, fill_value_body(d.chunk # <<>>, Joined(fill_value_bytes(d.attrs))))>>
            \o (IF is_active(d.filter)
                THEN <<Message(Pipeline, 1, pipeline_body(d.filter, type.elem_size))>> ELSE <<>>)
            \o <<Message(Layout, 0, LayoutBody(d, type.elem_size))>>
            \o AttrMessages(d.attrs)

\* Mutant: a body is declared as long as it is, and not padded.
oh_unpadded(m) == <<F(2, m.type), F(2, Size(m.body)), F(1, m.flags)>> \o Zeros(3) \o m.body

oh_message(m) == <<F(2, m.type), F(2, pad8(Size(m.body))), F(1, m.flags)>> \o Zeros(3) \o Padded(m.body)

write_oh(msgs, refcount) ==
    LET body == Joined([i \in DOMAIN msgs |-> oh_message(msgs[i])])
    IN  <<F(1, 1), F(1, 0), F(2, Len(msgs)), F(4, refcount), F(4, Size(body)), F(4, 0)>> \o body

HeaderOf(o) ==
    IF o.kind = "dataset" THEN dataset_oh_msgs(o)
    ELSE IF o.style = "links" THEN link_group_oh_msgs(o) ELSE group_oh_msgs(o)

\* The first error there is: of the call that declares a type, or of build.
Refused(o) ==
    \/ o.kind = "dataset" /\ ~DatatypeOf(o.type).ok
    \/ \E i \in DOMAIN o.attrs : ~IsSentinel(o.attrs[i]) /\ o.attrs[i].name = <<>>
    \/ \E i \in DOMAIN HeaderOf(o) : pad8(Size(HeaderOf(o)[i].body)) > MaxMessage

\* A group is the root of its file, a dataset follows a root group without attributes.
RootOnly == [kind |-> "group", style |-> "table", btree |-> 1000, heap |-> 1100, attrs |-> <<>>, refcount |-> 1]
Emitted(o) ==
    write_superblock(1000, 1100, 9000)
        \o (IF o.kind = "dataset" THEN write_oh(HeaderOf(RootOnly), 1) ELSE <<>>)
        \o write_oh(HeaderOf(o), o.refcount)

-----------------------------------------------------------------------------
(* The superblock of a file *)

\* Up to the root group's entry versions 0 and 1 differ by four bytes.
OldSuperblock(data, shift) ==
    IF ~Fits(data, 0, 96 + shift) \/ Read(data, 13, 1) # 8 \/ Read(data, 14, 1) # 8 THEN Bad
    ELSE [ok |-> TRUE, soo |-> 8, base |-> Read(data, 24 + shift, 8), root |-> Read(data, 64 + shift, 8),
          extension |-> <<>>]

parse_v0(data) == OldSuperblock(data, 0)
parse_v1(data) == OldSuperblock(data, 4)

parse_v2(data) ==
    LET soo == Read(data, 9, 1)
    IN  IF ~Fits(data, 0, 13) \/ soo \notin {1, 2, 4, 8} \/ ~Fits(data, 12, 4 * soo) THEN Bad
        ELSE [ok |-> TRUE, soo |-> soo, base |-> Read(data, 12, soo), root |-> Read(data, 12 + 3 * soo, soo),
              extension |-> Defined(Read(data, 12 + soo, soo))]

parse(data) ==
    LET version == Read(data, 8, 1)
    IN  IF ~Fits(data, 0, 9) \/ Read(data, 0, 8) # HDF5_SIGNATURE THEN Bad
        ELSE CASE version = 0 -> parse_v0(data)
               [] version = 1 -> parse_v1(data)
               [] version \in {2, 3} -> parse_v2(data)
               [] OTHER -> Bad

\* Where the header is that is asked for: a dataset's address is its link's.
Address(o, superblock) ==
    IF o.kind = "extension" THEN superblock.extension[1]
    ELSE IF o.kind = "dataset" THEN ROOT_OH_ADDR + Size(write_oh(HeaderOf(RootOnly), 1))
    ELSE superblock.root

-----------------------------------------------------------------------------
(* Walking the blocks *)

BlockOf(pos, end, v, width) == [pos |-> pos, end |-> end, start |-> pos, v |-> v, header |-> width]

\* Of a header of version 2: how many bytes its times and thresholds take.
Optional(flags) == (IF Bit(flags, 5) THEN 16 ELSE 0) + (IF Bit(flags, 4) THEN 4 ELSE 0)

\* The first block, or none.
parse_messages(data, offset) ==
    LET flags == Read(data, offset + 5, 1)
        size_at == offset + 6 + Optional(flags)
        width == 2 ^ (flags % 4)
        body == size_at + width
    IN  IF Read(data, offset, 4) = OHDR_SIGNATURE
        THEN IF Read(data, offset + 4, 1) # 2 \/ ~Fits(data, size_at, width) THEN <<>>
             ELSE <<[BlockOf(body, body + Read(data, size_at, width), 2, IF Bit(flags, 2) THEN 6 ELSE 4)
                     EXCEPT !.start = offset]>>
        ELSE IF ~Fits(data, offset, 16) \/ Read(data, offset, 1) # 1
                \/ ~Fits(data, offset + 16, Read(data, offset + 8, 4)) THEN <<>>
        ELSE <<BlockOf(offset + 16, offset + 16 + Read(data, offset + 8, 4), 1, 8)>>

\* The continuation block that the body of a message names.
parse_v2_ochk_block(data, body, parent) ==
    LET start == Read(data, body, 8)
    IN  [BlockOf(start + 4, Lesser(start + Read(data, body + 8, 8) - 4, Size(data)), 3, parent.header)
         EXCEPT !.start = start]
parse_v1_continuation(data, body) ==
    BlockOf(Read(data, body, 8), Read(data, body, 8) + Read(data, body + 8, 8), 1, 8)

\* The message at the front of a block.
TypeAt(b) == Read(image, b.pos, IF b.v = 1 THEN 2 ELSE 1)
SizeAt(b) == Read(image, b.pos + IF b.v = 1 THEN 2 ELSE 1, 2)
BodyAt(b) == b.pos + b.header
After(b) == BodyAt(b) + IF b.v = 1 THEN pad8(SizeAt(b)) ELSE SizeAt(b)

\* Version 2 ends a block at the first message that is not all there; version 1 fails.
Truncated(b) == ~Fits(image, BodyAt(b), SizeAt(b))
HasMessage(b) ==
    CASE b.v = 1 -> b.pos + 8 <= b.end
      [] b.v = 2 -> b.pos + 4 <= b.end /\ Fits(image, b.pos, 4) /\ ~Truncated(b)
      [] b.v = 3 -> b.pos + 4 <= b.end /\ ~Truncated(b) /\ BodyAt(b) <= b.end

Fail ==
    /\ answer' = Bad /\ at' = "done" /\ todo' = <<>>
    /\ UNCHANGED <<object, image, followed, messages>>

Advanced == [todo EXCEPT ![1].pos = After(todo[1])]

\* Mutant: a NIL message ends its block.
NilEnds(blocks) == [blocks EXCEPT ![1].pos = blocks[1].end]

SkipNil(blocks) == [blocks EXCEPT ![1].pos = After(blocks[1])]

\* A block of version 2 is entered at once, so the depth is the stack's height.
Enter(block) ==
    IF \/ Len(todo) > MaxContinuations
       \/ \E i \in DOMAIN followed : followed[i] = block.start
       \/ Read(image, block.start, 4) # OCHK_SIGNATURE
    THEN Fail
    ELSE /\ todo' = <<block>> \o Advanced
         /\ followed' = Append(followed, block.start)
         /\ UNCHANGED <<object, at, image, messages, answer>>

Follow(b) ==
    IF SizeAt(b) < 16
    THEN todo' = Advanced /\ UNCHANGED <<object, at, image, followed, messages, answer>>
    ELSE IF b.v = 1
    THEN /\ todo' = Append(Advanced, parse_v1_continuation(image, BodyAt(b)))
         /\ UNCHANGED <<object, at, image, followed, messages, answer>>
    ELSE Enter(parse_v2_ochk_block(image, BodyAt(b), b))

ReadMessage ==
    /\ at = "parsing" /\ todo # <<>>
    /\ LET b == todo[1]
       IN  /\ HasMessage(b)
           /\ IF Truncated(b) THEN Fail
              ELSE CASE TypeAt(b) = NIL ->
                            /\ todo' = SkipNil(todo)
                            /\ UNCHANGED <<object, at, image, followed, messages, answer>>
                     [] TypeAt(b) = Continuation -> Follow(b)
                     [] OTHER ->
                            /\ messages' = Append(messages, [type |-> TypeAt(b),
                                                             data |-> Slice(image, BodyAt(b), SizeAt(b))])
                            /\ todo' = Advanced
                            /\ UNCHANGED <<object, at, image, followed, answer>>

\* Version 1 goes on with the next continuation, unless there were too many: the first
\* block it followed is the header's own.
EndBlock ==
    /\ at = "parsing" /\ todo # <<>> /\ ~HasMessage(todo[1])
    /\ IF todo[1].v # 1
       THEN todo' = Tail(todo) /\ UNCHANGED <<object, at, image, followed, messages, answer>>
       ELSE IF \/ Len(followed) > MaxContinuations
               \/ Len(todo) > 1 /\ todo[2].end > Size(image)
       THEN Fail
       ELSE /\ todo' = Tail(todo)
            /\ followed' = Append(followed, todo[1].start)
            /\ UNCHANGED <<object, at, image, messages, answer>>

EndHeader ==
    /\ at = "parsing" /\ todo = <<>>
    /\ at' = "parsed"
    /\ UNCHANGED <<object, image, todo, followed, messages, answer>>

-----------------------------------------------------------------------------
(* What is made of the messages *)

Bodies(type) ==
    LET found == SelectSeq(messages, LAMBDA m : m.type = type)
    IN  [i \in DOMAIN found |-> found[i].data]
IsOk(r) == r.ok
Each(type, Parse(_)) == [i \in DOMAIN Bodies(type) |-> Parse(Bodies(type)[i])]
GoodOf(type, Parse(_)) == SelectSeq(Each(type, Parse), IsOk)
AllGood(type, Parse(_)) == \A i \in DOMAIN Bodies(type) : Parse(Bodies(type)[i]).ok
LastOf(s) == s[Len(s)]

\* Attributes that cannot be parsed are left out.
read_attributes_from_header == GoodOf(Attribute, parse_attribute)

\* No filter may be between a reference to the heap and the reader, but for a checksum.
reject_vlen_incompatible_filters(filters) == \E i \in DOMAIN filters : filters[i].id \in {2, 5, 6}

\* Of each kind the last message counts; but for the fill value each must parse.
read_dataset_from_object_header ==
    LET Last(type, Parse(_)) == LastOf(Each(type, Parse))
        fills == GoodOf(FillValue, parse_fill_value)
        pipelines == Each(Pipeline, parse_filter_pipeline)
        filters == IF pipelines = <<>> THEN <<>> ELSE LastOf(pipelines).filters
    IN  IF \/ Bodies(Dataspace) = <<>> \/ ~AllGood(Dataspace, parse_dataspace)
           \/ Bodies(Datatype) = <<>> \/ ~AllGood(Datatype, parse_datatype)
           \/ Bodies(Layout) = <<>> \/ ~AllGood(Layout, parse_layout)
           \/ ~AllGood(Pipeline, parse_filter_pipeline)
        THEN Bad
        ELSE LET space == Last(Dataspace, parse_dataspace)
                 dtype == Last(Datatype, parse_datatype).dtype
                 layout == Last(Layout, parse_layout)
             IN  IF layout.class = "chunked" /\ is_vlen_dtype(dtype)
                    /\ reject_vlen_incompatible_filters(filters)
                 THEN Bad
                 ELSE [ok |-> TRUE, shape |-> space.dims, max_dims |-> space.max_dims, dtype |-> dtype,
                       layout |-> layout, filters |-> filters,
                       fill |-> IF fills = <<>> THEN <<>> ELSE LastOf(fills).value,
                       attributes |-> read_attributes_from_header]

\* The addresses of the first symbol table message that parses, or none.
find_symbol_table_addresses ==
    LET tables == GoodOf(SymbolTable, parse_symbol_table)
    IN  IF tables = <<>> THEN <<>> ELSE <<tables[1].btree, tables[1].heap>>

is_new_style_group == Bodies(SymbolTable) = <<>> /\ (Bodies(LinkMessage) # <<>> \/ Bodies(LinkInfo) # <<>>)

\* Links and link infos that cannot be parsed are left out.
list_new_style_links ==
    LET infos == GoodOf(LinkInfo, parse_link_info)
    IN  [links |-> GoodOf(LinkMessage, parse_link), info |-> IF infos = <<>> THEN <<>> ELSE <<LastOf(infos)>>]

group_answer ==
    [ok |-> TRUE, table |-> find_symbol_table_addresses,
     members |-> IF is_new_style_group THEN list_new_style_links ELSE <<>>,
     attributes |-> read_attributes_from_header]

decode_btree_k_values(body) ==
    IF ~Fits(body, 0, 7) \/ Read(body, 0, 1) # 0 THEN Bad
    ELSE [ok |-> TRUE, value |-> [chunk |-> Read(body, 1, 2), group |-> Read(body, 3, 2), leaf |-> Read(body, 5, 2)]]

decode_shared_message_table(body, soo) ==
    IF ~Fits(body, 0, soo + 2) \/ Read(body, 0, 1) # 0 THEN Bad
    ELSE [ok |-> TRUE, value |-> Read(body, 1, soo)]

Strategy(body) == IF Fits(body, 1, 1) THEN <<Read(body, 1, 1)>> ELSE <<>>

read_superblock_extension ==
    LET soo == parse(image).soo
        Shared(body) == decode_shared_message_table(body, soo)
        Value(s) == IF s = <<>> THEN <<>> ELSE <<LastOf(s).value>>
    IN  IF ~AllGood(BtreeK, decode_btree_k_values) \/ ~AllGood(SharedTable, Shared) THEN Bad
        ELSE [ok |-> TRUE, btree_k |-> Value(Each(BtreeK, decode_btree_k_values)),
              shared |-> Value(Each(SharedTable, Shared)),
              strategy |-> IF Bodies(FileSpace) = <<>> THEN <<>> ELSE LastOf(Each(FileSpace, Strategy)),
              space |-> Bodies(FileSpace) # <<>>, driver |-> Bodies(DriverInfo) # <<>>]

NoExtension == [ok |-> TRUE, none |-> TRUE]

Assemble ==
    /\ at = "parsed"
    /\ answer' = CASE object.kind = "dataset" -> read_dataset_from_object_header
                   [] object.kind = "group" -> group_answer
                   [] object.kind = "extension" -> read_superblock_extension
                   [] object.kind = "foreign" -> [ok |-> TRUE, attributes |-> read_attributes_from_header]
    /\ at' = "done"
    /\ UNCHANGED <<object, image, todo, followed, messages>>

-----------------------------------------------------------------------------
(* Headers of libhdf5: [version, soo, superblock, flags, blocks, cut, meant].  A      *)
(* block is a sequence of [to, type, body]; `to` is 0, or the block that a continuation *)
(* names, of which there may be none.  The last `cut` bytes of the file are missing.    *)
(* `meant` is what the extension says, or the header's attributes.                      *)

Foreign(o) == o.kind \in {"foreign", "extension"}

ForeignSuperblock(o, address) ==
    IF o.superblock <= 1
    THEN <<F(8, HDF5_SIGNATURE), F(1, o.superblock)>> \o Zeros(4)
            \o <<F(1, o.soo), F(1, 8), F(1, 0), F(2, 4), F(2, 16), F(4, 0)>>
            \o (IF o.superblock = 1 THEN <<F(2, 32), F(2, 0)>> ELSE <<>>)
            \o <<F(8, 0), F(8, UNDEFINED), F(8, 9000), F(8, UNDEFINED)>>
            \o <<F(8, 0), F(8, address), F(4, 1), F(4, 0), F(8, 1000), F(8, 1100)>>
    ELSE <<F(8, HDF5_SIGNATURE), F(1, o.superblock), F(1, o.soo), F(1, 8), F(1, 0), F(o.soo, 0),
           F(o.soo, IF o.kind = "extension" /\ o.blocks # <<>> THEN address ELSE UNDEFINED), F(o.soo, 9000),
           F(o.soo, IF o.kind = "foreign" THEN address ELSE 8000), F(4, Checksum)>>

ForeignHeader(o) == IF o.version = 1 THEN 8 ELSE IF Bit(o.flags, 2) THEN 6 ELSE 4
ItemSize(o, item) ==
    ForeignHeader(o) + LET size == IF item.to # 0 THEN 16 ELSE Size(item.body)
                       IN  IF o.version = 1 THEN pad8(size) ELSE size

RECURSIVE Summed(_)
Summed(sizes) == IF sizes = <<>> THEN 0 ELSE Head(sizes) + Summed(Tail(sizes))

\* What stands before and behind the messages of a block.
Leader(o, b, size) ==
    IF o.version = 1
    THEN IF b = 1 THEN <<F(1, 1), F(1, 0), F(2, Len(o.blocks[1])), F(4, 1), F(4, size), F(4, 0)>> ELSE <<>>
    ELSE IF b = 1 THEN <<F(4, OHDR_SIGNATURE), F(1, 2), F(1, o.flags)>> \o Zeros(Optional(o.flags))
                            \o <<F(2 ^ (o.flags % 4), size)>>
    ELSE <<F(4, OCHK_SIGNATURE)>>
Trailer(o) == IF o.version = 1 THEN <<>> ELSE <<F(4, Checksum)>>

BlockSize(o, b) == Summed([i \in DOMAIN o.blocks[b] |-> ItemSize(o, o.blocks[b][i])])
BlockLength(o, b) == IF b \in DOMAIN o.blocks THEN Size(Leader(o, b, 1)) + BlockSize(o, b) + Size(Trailer(o)) ELSE 24
BlockAt(o, first, b) == first + Summed([c \in 1..(b - 1) |-> BlockLength(o, c)])

ForeignMessage(o, first, item) ==
    LET body == IF item.to # 0 THEN <<F(8, BlockAt(o, first, item.to)), F(8, BlockLength(o, item.to))>>
                ELSE IF o.version = 1 THEN Padded(item.body) ELSE item.body
        type == IF item.to # 0 THEN Continuation ELSE item.type
    IN  IF o.version = 1 THEN <<F(2, type), F(2, Size(body)), F(1, 0)>> \o Zeros(3) \o body
        ELSE <<F(1, type), F(2, Size(body)), F(1, 0)>> \o (IF Bit(o.flags, 2) THEN <<F(2, 0)>> ELSE <<>>) \o body

Rendered(o) ==
    LET first == Size(ForeignSuperblock(o, 0))
        Items(b) == [i \in DOMAIN o.blocks[b] |-> ForeignMessage(o, first, o.blocks[b][i])]
        whole == ForeignSuperblock(o, first)
                     \o Joined([b \in DOMAIN o.blocks |->
                                    Leader(o, b, BlockSize(o, b)) \o Joined(Items(b)) \o Trailer(o)])
    IN  Slice(whole, 0, Size(whole) - o.cut)

-----------------------------------------------------------------------------
(* The run of one file *)

Write ==
    /\ at = "described"
    /\ IF ~Foreign(object) /\ Refused(object)
       THEN at' = "done" /\ answer' = [ok |-> FALSE, refused |-> TRUE] /\ UNCHANGED image
       ELSE /\ image' = IF Foreign(object) THEN Rendered(object) ELSE Emitted(object)
            /\ at' = "written" /\ UNCHANGED answer
    /\ UNCHANGED <<object, todo, followed, messages>>

Open ==
    /\ at = "written"
    /\ LET superblock == parse(image)
       IN  IF ~superblock.ok THEN Fail
           ELSE IF object.kind = "extension" /\ superblock.extension = <<>>
           THEN at' = "done" /\ answer' = NoExtension /\ UNCHANGED <<object, image, todo, followed, messages>>
           ELSE LET first == parse_messages(image, Address(object, superblock))
                IN  IF first = <<>> THEN Fail
                    ELSE /\ todo' = first /\ at' = "parsing"
                         /\ followed' = IF first[1].v = 1 THEN <<>> ELSE <<first[1].start>>
                         /\ UNCHANGED <<object, image, messages, answer>>

HeaderInit ==
    /\ object \in Object
    /\ at = "described" /\ image = <<>> /\ todo = <<>> /\ followed = <<>> /\ messages = <<>> /\ answer = <<>>

HeaderNext == Write \/ Open \/ ReadMessage \/ EndBlock \/ EndHeader \/ Assemble

HeaderSpec == HeaderInit /\ [][HeaderNext]_headerVars

-----------------------------------------------------------------------------
(* What is meant by what was written *)

RECURSIVE MeantType(_)
MeantType(type) ==
    CASE type.spec = "fixed" -> IntType(type.size, type.signed, type.order)
      [] type.spec = "float" -> FloatType(type.size, type.order)
      [] type.spec = "string" -> StringType(type.size, "ascii")
      [] type.spec = "vlen_str" -> StringType(VarLenString, "utf8")
      [] type.spec = "bool" -> EnumType(IntType(1, TRUE, Little), <<<<FALSE_NAME, 0>>, <<TRUE_NAME, 1>>>>)
      [] type.spec = "compound" -> CompoundType(type.fields)
      [] type.spec = "sequence" -> VarLenType(MeantType(type.base))
      [] type.spec = "array" -> ArrayType(MeantType(type.base), type.dims)
      [] type.spec = "opaque" -> OpaqueType(type.size, type.tag)
      [] type.spec = "bitfield" -> BitfieldType(type.size, type.order)

MeantValue(a) ==
    CASE a.kind \in {"str", "nullterm"} -> <<a.text>>
      [] a.kind = "strs" -> a.texts
      [] a.kind = "num" -> a.value
      [] a.kind = "nums" -> a.values[1]
      [] a.kind = "refs" -> a.addrs
      [] a.kind = "vlen_refs" -> [i \in DOMAIN a.elems |-> a.elems[i].addrs]
      [] a.kind = "ref_index" -> a.pairs

Referrers(attrs) == SelectSeq(attrs, LAMBDA a : a.kind = "vlen_refs")
HeapOfFile(attrs) ==
    HeapOf(UNION {{<<e.heap, e.index, Vector(8, e.addrs)>> :
                   e \in {x \in {a.elems[i] : i \in DOMAIN a.elems} : x.addrs # <<>>}} :
                  a \in {Referrers(attrs)[i] : i \in DOMAIN Referrers(attrs)}})

\* The attributes that were read are those that were written, to the byte.
AttributesReadBack(attrs) ==
    LET meant == resolve_attrs(attrs)
    IN  /\ Len(answer.attributes) = Len(meant)
        /\ \A i \in DOMAIN meant :
              LET got == answer.attributes[i]
              IN  /\ got.name = meant[i].name
                  /\ got.data = AttrData(meant[i])
                  /\ IF vector_len(meant[i]) = <<>> THEN got.space = Scalar ELSE got.space.dims = vector_len(meant[i])
                  /\ AttributeValue(HeapOfFile(attrs), got) = Got(MeantValue(meant[i]))

CompactValues(attrs) == LET c == SelectSeq(attrs, LAMBDA a : a.kind = "compact_layout") IN c[1].values

LayoutReadsBack(d) ==
    LET size == DatatypeOf(d.type).elem_size
        bytes == Product(d.shape) * size
        compact == compact_layout_data(d.attrs)
        l == answer.layout
    IN  IF compact # <<>>
        THEN /\ l.class = "compact" /\ l.data = compact[1]
             /\ DatasetValues(<<>>, answer.dtype, l.data, Product(answer.shape)) = Got(CompactValues(d.attrs))
        ELSE IF d.chunk # <<>>
        THEN /\ l.class = "chunked" /\ l.dims = d.chunk \o <<size>> /\ l.address = d.address
             /\ on_disk_elem_footprint(answer.dtype) = size
        ELSE /\ l.class = "contiguous" /\ l.size = bytes
             /\ l.address = IF bytes = 0 THEN UNDEFINED ELSE d.address

DatasetReadsBack(d) ==
    /\ answer.shape = d.shape
    /\ answer.max_dims = <<[i \in DOMAIN d.shape |-> IF d.unlimited /\ i = 1 THEN UNDEFINED ELSE d.shape[i]]>>
    /\ answer.dtype = MeantType(d.type)
    /\ LayoutReadsBack(d)
    /\ [i \in DOMAIN answer.filters |-> <<answer.filters[i].id, answer.filters[i].client>>]
         = LET set == descriptors(d.filter, DatatypeOf(d.type).elem_size)
           IN  [i \in DOMAIN set |-> <<set[i].id, set[i].client>>]
    /\ answer.fill = <<Joined(fill_value_bytes(d.attrs))>>

SameLink(read, link) ==
    /\ read.name = link.name
    /\ read.value = CASE link.value.kind = "hard" -> [ok |-> TRUE, kind |-> "hard", address |-> link.value.address]
                      [] link.value.kind = "soft" -> [ok |-> TRUE, kind |-> "soft", path |-> link.value.path]
                      [] OTHER -> [ok |-> TRUE, kind |-> "external", file |-> link.value.file,
                                   path |-> link.value.path]

GroupReadsBack(g) ==
    IF g.style = "table" THEN answer.table = <<g.btree, g.heap>> /\ answer.members = <<>>
    ELSE LET links == IF g.dense = <<>> THEN g.links ELSE <<>>
             info == answer.members.info[1]
         IN  /\ answer.table = <<>>
             /\ Len(answer.members.links) = Len(links)
             /\ \A i \in DOMAIN links : SameLink(answer.members.links[i], links[i])
             /\ info.heap \o info.name_index = g.dense
             /\ info.tracked <=> g.order # <<>>

\* A header that is written says what the calls that made the object said: its type, shape,
\* layout, filters and fill value, its links, and every attribute with its value; and what
\* cannot be put in a header, by its length or by its type, is refused and not written.
HeadersReadBack ==
    at = "done" /\ object.kind \in {"dataset", "group"} =>
        /\ answer.ok <=> ~Refused(object)
        /\ answer.ok => /\ AttributesReadBack(object.attrs)
                        /\ IF object.kind = "dataset" THEN DatasetReadsBack(object) ELSE GroupReadsBack(object)

-----------------------------------------------------------------------------
(* What is in the blocks of a foreign header *)

Named(o, b) == {o.blocks[b][i].to : i \in DOMAIN o.blocks[b]} \ {0}

RECURSIVE Reached(_, _)
Reached(o, from) ==
    LET next == from \cup UNION {Named(o, b) : b \in from \cap DOMAIN o.blocks}
    IN  IF next = from THEN from ELSE Reached(o, next)
Blocks(o) == Reached(o, {1})

Items(o) == {<<b, i>> : b \in Blocks(o) \cap DOMAIN o.blocks, i \in 1..5}
ItemsOf(o) == {p \in Items(o) : p[2] \in DOMAIN o.blocks[p[1]]}
Naming(o) == {p \in ItemsOf(o) : o.blocks[p[1]][p[2]].to # 0}
Said(o) == {p \in ItemsOf(o) \ Naming(o) : o.blocks[p[1]][p[2]].type # NIL}

\* How many blocks deep the deepest lies under block b.
RECURSIVE Height(_, _)
Height(o, b) == IF b \notin DOMAIN o.blocks THEN 0
                ELSE Largest({1 + Height(o, c) : c \in Named(o, b)})

IsTree(o) ==
    /\ Blocks(o) \subseteq DOMAIN o.blocks
    /\ Cardinality(Naming(o)) = Cardinality(Blocks(o)) - 1
    /\ \A p \in Naming(o) : o.blocks[p[1]][p[2]].to # 1

Readable(o) ==
    /\ o.superblock <= 1 => o.soo = 8
    /\ IsTree(o)
    /\ IF o.version = 1 THEN Cardinality(Naming(o)) <= MaxContinuations ELSE Height(o, 1) <= MaxContinuations

BodyOf(o, p) == IF o.version = 1 THEN Padded(o.blocks[p[1]][p[2]].body) ELSE o.blocks[p[1]][p[2]].body

MessageAt(o, p) == [type |-> o.blocks[p[1]][p[2]].type, data |-> BodyOf(o, p)]
IsMessage(o, m) == \E p \in Said(o) : MessageAt(o, p) = m

\* A header is read as a whole if its blocks are a tree, however its messages are spread
\* over them: each message once, and none that was not written.  A block that is not there,
\* a block reached again, and more blocks than are followed fail the read; of a file that is
\* cut short no message is read that is not in it.
HeadersReadInFull ==
    /\ object.kind = "foreign" => \A i \in DOMAIN messages : IsMessage(object, messages[i])
    /\ at = "done" /\ object.kind = "foreign" /\ object.cut = 0 =>
          /\ answer.ok <=> Readable(object)
          /\ answer.ok => /\ Len(messages) = Cardinality(Said(object))
                          /\ \A p \in Said(object) : \E i \in DOMAIN messages : MessageAt(object, p) = messages[i]

=============================================================================
