------------------------------ MODULE HeaderFiles ------------------------------
(***************************************************************************)
(* The objects that are written to a header and read from one in the runs: *)
(* every element type and structured type with the sizes at which padding  *)
(* and field widths change, every kind of attribute and link, and headers  *)
(* of libhdf5 with their messages over several blocks.                     *)
(***************************************************************************)
EXTENDS Values

Text(n, id) == IF n = 0 THEN <<>> ELSE <<F(n, id)>>
Numbers(S, order) == {Fixed(n, sign, order) : n \in S, sign \in BOOLEAN}

A == Text(1, 11)
SevenLong == Text(7, 12)
EightLong == Text(8, 13)

-----------------------------------------------------------------------------
(* What the writer is asked to write *)

Field(name, offset, dtype) == [name |-> name, offset |-> offset, dtype |-> dtype]
Int2 == IntType(2, TRUE, Big)
Int4 == IntType(4, FALSE, Little)
Real8 == FloatType(8, Little)
Compound(fields, size) == [spec |-> "compound", fields |-> fields, struct_size |-> size]

Compounds ==
    {Compound(<<Field(A, 0, Int2), Field(SevenLong, 2, Int4), Field(EightLong, 8, Real8)>>, 16),
     Compound(<<Field(A, 8, Real8), Field(SevenLong, 3, StringType(5, "ascii"))>>, 16),
     Compound(<<Field(A, 0, Int4)>>, 4),
     Compound(<<Field(A, 0, Int4), Field(SevenLong, 2, Int2)>>, 8),
     Compound(<<Field(A, 0, Int4), Field(A, 4, Int2)>>, 8),
     Compound(<<Field(A, 0, VarLenType(Int2))>>, 16),
     Compound(<<Field(A, 2, Int4)>>, 5),
     Compound(<<>>, 8)}

Structured ==
    Compounds
    \cup {[spec |-> "sequence", base |-> base] : base \in {Fixed(4, TRUE, Big), FloatIeee(4, Little), Bool, FixedStr(3), VlenStr}}
    \cup {[spec |-> "array", base |-> base, dims |-> dims] :
             base \in {FloatIeee(4, Big), Fixed(2, FALSE, Little), Bool}, dims \in {<<>>, <<3>>, <<2, 3>>, <<2, 0>>}}
    \cup {[spec |-> "opaque", size |-> n, tag |-> tag] : n \in {0, 5}, tag \in {<<>>, A, SevenLong, Text(250, 9)}}
    \cup {[spec |-> "bitfield", size |-> n, order |-> Big] : n \in {0, 1, 3, 8, 9}}

Simple ==
    Numbers({1, 2, 4, 8}, Little) \cup Numbers({2, 4, 8}, Big)
    \cup {FloatIeee(n, order) : n \in {2, 4, 8}, order \in ByteOrder}
    \cup {FixedStr(1), FixedStr(5), VlenStr, Bool}

NoFilter == [shuffle |-> FALSE, deflate |-> FALSE, level |-> 0, fletcher32 |-> FALSE]
AllFilters == [shuffle |-> TRUE, deflate |-> TRUE, level |-> 6, fletcher32 |-> TRUE]

Data(type, shape, chunk, filter, attrs) ==
    [kind |-> "dataset", shape |-> shape, unlimited |-> FALSE, type |-> type, chunk |-> chunk,
     filter |-> filter, attrs |-> attrs, address |-> 5000, refcount |-> 1]

Sequence(addrs, heap, index) == [count |-> Len(addrs), addrs |-> addrs, heap |-> heap, index |-> index]
FillAttr(data) == [name |-> <<>>, kind |-> "fill_value", data |-> data]
Compact(data, values) == [name |-> <<>>, kind |-> "compact_layout", data |-> data, values |-> values]

Attrs ==
    {<<StrAttr(name, text)>> : name \in {<<>>, A, SevenLong, EightLong}, text \in {<<>>, A, EightLong}}
    \cup {<<NullTermAttr(A, text), StrsAttr(SevenLong, texts)>> :
             text \in {<<>>, SevenLong}, texts \in {<<>>, <<A>>, <<A, <<>>, SevenLong>>, <<<<>>>>, <<Text(500, 8)>>}}
    \cup {<<NumAttr(A, elem, value), NumsAttr(EightLong, elem, values)>> :
             elem \in {Fixed(1, FALSE, Little), Fixed(2, FALSE, Big), FloatIeee(4, Little), FloatIeee(8, Big)},
             value \in {0, 200}, values \in {<<7>>, <<7, 8, 9>>}}
    \cup {<<RefsAttr(A, addrs), VlenRefsAttr(SevenLong, elems), RefIndexAttr(EightLong, pairs)>> :
             addrs \in {<<>>, <<3000>>, <<3000, 4000>>},
             elems \in {<<Sequence(<<>>, 0, 0)>>, <<Sequence(<<3000, 4000>>, 700, 1), Sequence(<<>>, 0, 0),
                                                    Sequence(<<4000>>, 700, 2)>>},
             pairs \in {<<<<3000, 0>>>>, <<<<3000, 0>>, <<4000, 1>>>>}}

Number4 == Fixed(4, TRUE, Little)
Datasets ==
    {Data(type, <<2>>, <<>>, NoFilter, <<>>) : type \in Simple \cup Structured}
    \cup {Data(Number4, <<2>>, <<>>, NoFilter, attrs) : attrs \in Attrs}
    \cup {[Data(type, shape, chunk, filter, fill) EXCEPT !.unlimited = unlimited] :
             type \in {Number4, Compound(<<Field(A, 0, Int4), Field(SevenLong, 4, Int2)>>, 6)},
             shape \in {<<0, 3>>, <<2, 3>>}, chunk \in {<<>>, <<2, 2>>}, filter \in {NoFilter, AllFilters},
             fill \in {<<>>, <<FillAttr(<<F(4, 77)>>), StrAttr(A, A)>>}, unlimited \in BOOLEAN}
    \cup {Data(Number4, <<n>>, <<>>, NoFilter, <<Compact(Vector(4, [i \in 1..n |-> i]), [i \in 1..n |-> i])>>) :
             n \in {1, 3, 120}}
    \cup {Data(FixedStr(3), <<3>>, <<>>, NoFilter, <<Compact(<<F(1, 11), F(2, 0), F(3, 9), F(3, 0)>>, <<A, Text(3, 9), <<>>>>)>>),
          Data(Compound(<<Field(A, 0, Int2), Field(SevenLong, 2, Int4)>>, 6), <<2>>, <<>>, NoFilter,
               <<Compact(<<F(2, 65535), F(4, 1), F(2, 2), F(4, 3)>>, <<<<-1, 1>>, <<2, 3>>>>)>>)}

Link(name, value, order) == [name |-> name, value |-> value, order |-> order]
Hard == [kind |-> "hard", address |-> 6000]
Soft == [kind |-> "soft", path |-> EightLong]
External == [kind |-> "external", file |-> SevenLong, path |-> EightLong]

Group(order, dense, links, attrs) ==
    [kind |-> "group", style |-> "links", order |-> order, dense |-> dense, links |-> links, attrs |-> attrs,
     refcount |-> 2]
Table(attrs) == [kind |-> "group", style |-> "table", btree |-> 1000, heap |-> 1100, attrs |-> attrs, refcount |-> 1]

SomeAttrs == {<<>>, <<StrAttr(SevenLong, A)>>, <<StrAttr(<<>>, A)>>}
Groups ==
    {Table(attrs) : attrs \in SomeAttrs}
    \cup {Group(order, <<>>, <<Link(Text(n, 5), value, order), Link(A, Hard, order)>>, attrs) :
             order \in {<<>>, <<3>>}, n \in {2, 255, 256, 500}, value \in {Hard, Soft, External}, attrs \in SomeAttrs}
    \cup {Group(order, <<2000, 2100>>, <<>>, attrs) : order \in {<<>>, <<9>>}, attrs \in SomeAttrs}

-----------------------------------------------------------------------------
(* Headers of libhdf5 *)

Comment(id) == [to |-> 0, type |-> 13, body |-> <<F(3, id), F(2, id + 1)>>]
Gap == [to |-> 0, type |-> NIL, body |-> Zeros(9)]
To(b) == [to |-> b, type |-> NIL, body |-> <<>>]

Shapes ==
    {<<<<Comment(31), Comment(33)>>>>,
     <<<<Gap, Comment(31), Gap, Comment(33)>>>>,
     <<<<Comment(31), To(2), Comment(33)>>, <<Comment(35), Gap, Comment(37)>>>>,
     <<<<To(2), To(3), Comment(33)>>, <<Comment(35)>>, <<Comment(37)>>>>,
     <<<<To(2), Comment(31)>>, <<Comment(33), To(3), Comment(35)>>, <<Comment(37)>>>>,
     <<<<To(2)>>, <<Comment(33), To(3)>>, <<To(4), Comment(35)>>, <<Comment(37)>>>>,
     <<<<To(2), To(3), Comment(31)>>, <<To(4), Comment(33)>>, <<Comment(35)>>, <<Comment(37)>>>>,
     <<<<Comment(31), To(2)>>, <<Comment(33), To(2), Comment(35)>>>>,
     <<<<Comment(31), To(2)>>, <<Comment(33), To(3)>>, <<To(2)>>>>,
     <<<<Comment(31), To(2)>>>>}

ForeignFile(version, superblock, soo, flags, blocks, cut, meant) ==
    [kind |-> "foreign", version |-> version, superblock |-> superblock, soo |-> soo, flags |-> flags,
     blocks |-> blocks, cut |-> cut, meant |-> meant]

Versions == {<<1, 0, 0>>, <<1, 1, 0>>, <<2, 2, 0>>, <<2, 3, 4>>, <<2, 2, 53>>, <<2, 0, 34>>}
Spread ==
    {ForeignFile(v[1], v[2], 8, v[3], blocks, 0, <<>>) : v \in Versions, blocks \in Shapes}
    \cup {ForeignFile(2, 2, 8, flags, <<<<To(2), Comment(31), To(1)>>, <<Comment(33)>>>>, 0, <<>>) : flags \in {0, 4}}
    \cup {ForeignFile(v[1], v[2], soo, v[3], <<<<Gap, Comment(31)>>>>, 0, <<>>) : v \in Versions, soo \in {4, 8}}
    \cup {ForeignFile(v[1], v[2], 8, v[3], <<<<Comment(31), To(2), Comment(33)>>, <<Comment(35), Comment(37)>>>>, cut, <<>>) :
             v \in Versions, cut \in {1, 4, 5, 10, 17, 30, 50, 90, 130}}

Given(name, dtype, space, value) ==
    [name |-> name, dtype |-> dtype, format |-> 1, space |-> space, value |-> value]
Of(dims) == [dims |-> dims, max_dims |-> <<dims>>]
VarText == StringType(VarLenString, "utf8")
InHeap(value, collection, index) == [of |-> value, at |-> <<collection, index>>]
Nowhere(value) == [of |-> value, at |-> <<0, 0>>]
Region(selection, at, by) == [of |-> 3000, selection |-> selection, at |-> <<at, 1>>, by |-> by]

Mixed == CompoundType(<<Field(A, 0, EnumType(IntType(1, TRUE, Little), <<<<A, 0>>, <<SevenLong, 1>>>>)),
                        Field(SevenLong, 1, FloatType(8, Big)),
                        Field(EightLong, 10, BitfieldType(3, Little)),
                        Field(Text(2, 14), 13, OpaqueType(4, SevenLong)),
                        Field(Text(2, 15), 17, ReferenceType("region")),
                        Field(Text(2, 16), 29, CompoundType(<<Field(A, 0, Int2), Field(SevenLong, 2, Real8)>>))>>)
MixedValue(n, region) == <<1, 7, 65, Text(4, n), region, <<-n, 3>>>>
Points == [points |-> <<<<1, 2>>, <<3, 4>>, <<5, 6>>>>]
Slabs == [slabs |-> <<<<<<0, 2>>, <<1, 1>>>>, <<<<4, 1>>, <<2, 3>>>>>>]

\* With an array among its members; in such a type only names of seven characters and the
\* like are read.
Arrayed(name, label) ==
    CompoundType(<<Field(SevenLong, 0, ArrayType(IntType(2, TRUE, Big), <<2, 2>>)),
                   Field(Text(7, 17), 8, EnumType(IntType(1, TRUE, Little), <<<<SevenLong, 0>>, <<label, 1>>>>)),
                   Field(name, 9, CompoundType(<<Field(Text(7, 19), 0, Int2), Field(Text(15, 20), 2, Real8)>>))>>)
ArrayedValue(n) == <<<<5, -6, n, -8>>, 1, <<-n, 3>>>>

\* With references to the heap among its members, so without a size.
Referring == CompoundType(<<Field(A, 0, Int2), Field(SevenLong, 2, VarLenType(IntType(2, FALSE, Little))),
                            Field(EightLong, 18, VarText), Field(Text(2, 14), 34, Int2)>>)

Attributes ==
    {<<Given(A, IntType(2, TRUE, order), Scalar, <<-3>>), Given(SevenLong, FloatType(4, order), Of(<<2>>), <<4, 5>>)>> :
        order \in ByteOrder}
    \cup {<<Given(A, VarText, Of(<<3>>), <<InHeap(SevenLong, 700, 1), Nowhere(<<>>), InHeap(A, 700, 2)>>)>>,
          <<Given(SevenLong, StringType(6, "utf8"), Of(<<2>>), <<A, Text(6, 8)>>),
            Given(A, ReferenceType("object"), Of(<<1, 2>>), <<3000, UNDEFINED>>)>>,
          <<Given(EightLong, VarLenType(VarLenType(IntType(1, FALSE, Little))), Scalar,
                  <<InHeap(<<InHeap(<<1, 2>>, 700, 2), Nowhere(<<>>), InHeap(<<3>>, 710, 1)>>, 700, 1)>>)>>,
          <<Given(Text(2, 23), VarLenType(EnumType(Int2, <<<<A, 0>>, <<SevenLong, 1>>>>)), Of(<<1>>), <<InHeap(<<1, 0>>, 700, 1)>>),
            Given(SevenLong, VarLenType(ArrayType(Int2, <<1, 2>>)), Scalar, <<InHeap(<<<<1, 2>>, <<3, 4>>>>, 700, 2)>>)>>}
    \cup {<<Given(Text(3, 24), Mixed, Of(<<2>>), <<MixedValue(3, Region(Points, 801, by)), MixedValue(4, Region(Slabs, 802, by))>>),
            Given(SevenLong, Arrayed(names[1], names[2]), Of(<<2>>), <<ArrayedValue(2), ArrayedValue(3)>>)>> :
              by \in {"libhdf5", "reader"}, names \in {<<Text(7, 21), Text(7, 18)>>, <<A, Text(7, 18)>>, <<Text(7, 21), A>>}}
Referrers ==
    {<<Given(A, Referring, Of(<<2>>), <<<<-1, InHeap(<<3, 900>>, 700, 1), InHeap(EightLong, 700, 2), -2>>,
                                        <<1, Nowhere(<<>>), Nowhere(<<>>), 2>>>>)>>}

\* Types are of the format that asks for attributes of the same version.
Formatted(attrs, stored) == [i \in DOMAIN attrs |-> [attrs[i] EXCEPT !.format = IF stored = 3 THEN 3 ELSE 1]]
AttributeOf(given, version) == [to |-> 0, type |-> 12, body |-> StoredAttribute(given, version)]
WithAll(v, attrs, stored) ==
    ForeignFile(v[1], v[2], 8, v[3], <<[i \in DOMAIN attrs |-> AttributeOf(attrs[i], stored)] \o <<Gap>>>>, 0, attrs)
WithAttributes ==
    {WithAll(v, Formatted(given, stored), stored) :
        v \in {<<1, 0, 0>>, <<2, 2, 6>>}, stored \in {1, 2, 3}, given \in Attributes}
    \cup {ForeignFile(2, 2, 8, 2, <<[i \in DOMAIN attrs |-> AttributeOf(attrs[i], 3)]>>, 0, attrs) : attrs \in Referrers}

Record(type, body) == [to |-> 0, type |-> type, body |-> body]
BtreeKRecord(version) == Record(BtreeK, <<F(1, version), F(2, 32), F(2, 16), F(2, 4)>>)
SharedRecord(soo) == Record(SharedTable, <<F(1, 0), F(soo, 4444), F(1, 2)>>)
\* libhdf5's file space information has a number the reader does not look for.
FileSpaceRecord == Record(23, <<F(1, 1), F(1, 3), F(1, 0), F(8, 1), F(8, 4096), F(2, 0), F(8, UNDEFINED)>>)
DriverRecord == Record(DriverInfo, <<F(1, 0)>> \o Zeros(7))

SuperblockSays(btree_k, shared, strategy, driver) ==
    [ok |-> TRUE, btree_k |-> btree_k, shared |-> shared, strategy |-> strategy, space |-> strategy # <<>>,
     driver |-> driver]
KValues == <<[chunk |-> 32, group |-> 16, leaf |-> 4]>>
Said(soo) ==
    {<<<<<<BtreeKRecord(0), SharedRecord(soo)>>>>, SuperblockSays(KValues, <<4444>>, <<>>, FALSE)>>,
     <<<<<<DriverRecord, FileSpaceRecord, BtreeKRecord(0)>>>>, SuperblockSays(KValues, <<>>, <<>>, TRUE)>>,
     <<<<<<DriverRecord, BtreeKRecord(1)>>>>, Bad>>,
     <<<<>>, [ok |-> TRUE, none |-> TRUE]>>}

Extensions ==
    {[ForeignFile(2, v[1], v[2], v[3], said[1], 0, said[2]) EXCEPT !.kind = "extension"] :
        v \in {<<2, 8, 0>>, <<3, 8, 4>>}, said \in Said(8)}
    \cup {[ForeignFile(2, 2, 4, 0, said[1], 0, said[2]) EXCEPT !.kind = "extension"] : said \in Said(4)}
    \cup {[ForeignFile(1, 0, 8, 0, <<<<BtreeKRecord(0)>>>>, 0, [ok |-> TRUE, none |-> TRUE]) EXCEPT !.kind = "extension"]}

Headers == Datasets \cup Groups \cup Spread \cup WithAttributes \cup Extensions
=============================================================================
