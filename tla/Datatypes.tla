------------------------------- MODULE Datatypes -------------------------------
(***************************************************************************)
(* The datatype message, as the writer encodes it (write/elem.rs,          *)
(* write/dtype.rs) and as the reader parses it (datatype.rs).  An element  *)
(* type is what a writable dataset is declared with; a structured type is  *)
(* encoded once, up front; a dtype is what the reader makes of the bytes.  *)
(***************************************************************************)
EXTENDS Fields

CONSTANT MaxNesting                \* MAX_NESTING_DEPTH

Little == "little"
Big == "big"
ByteOrder == {Little, Big}

Bad == [ok |-> FALSE]

\* Rust's `?`: the first failure is the answer.
Then(result, Rest(_)) == IF result.ok THEN Rest(result) ELSE Bad

-----------------------------------------------------------------------------
(* Dtypes *)

IntType(size, signed, order) == [class |-> "int", size |-> size, signed |-> signed, order |-> order]
FloatType(size, order) == [class |-> "float", size |-> size, order |-> order]
StringType(len, charset) == [class |-> "string", len |-> len, charset |-> charset]
BitfieldType(size, order) == [class |-> "bitfield", size |-> size, order |-> order]
OpaqueType(size, tag) == [class |-> "opaque", size |-> size, tag |-> tag]
ReferenceType(to) == [class |-> "reference", to |-> to]
CompoundType(fields) == [class |-> "compound", fields |-> fields]
EnumType(base, members) == [class |-> "enum", base |-> base, members |-> members]
VarLenType(base) == [class |-> "varlen", base |-> base]
ArrayType(base, dims) == [class |-> "array", base |-> base, dims |-> dims]

VarLenString == UNDEFINED           \* the `len` of a string without a fixed one
Unsized == UNDEFINED                \* no fixed size

RECURSIVE Product(_)
Product(dims) == IF dims = <<>> THEN 1 ELSE Head(dims) * Product(Tail(dims))
Largest(S) == CHOOSE n \in S \cup {0} : \A k \in S : k <= n

RECURSIVE dtype_size(_)
dtype_size(d) ==
    CASE d.class \in {"int", "float", "bitfield", "opaque"} -> d.size
      [] d.class = "string" -> d.len
      [] d.class = "reference" -> IF d.to = "object" THEN 8 ELSE 12
      [] d.class = "enum" -> dtype_size(d.base)
      [] d.class = "array" -> LET s == dtype_size(d.base)
                              IN  IF s = Unsized THEN Unsized ELSE s * Product(d.dims)
      [] d.class = "compound" ->
            LET sizes == [i \in DOMAIN d.fields |-> dtype_size(d.fields[i].dtype)]
            IN  IF \E i \in DOMAIN sizes : sizes[i] = Unsized THEN Unsized
                ELSE Largest({d.fields[i].offset + sizes[i] : i \in DOMAIN sizes})
      [] d.class = "varlen" -> Unsized

is_vlen_dtype(d) == d.class = "varlen" \/ (d.class = "string" /\ d.len = VarLenString)

\* What a reader takes an element of a chunk to occupy.
on_disk_elem_footprint(d) == IF is_vlen_dtype(d) THEN 16 ELSE dtype_size(d)

-----------------------------------------------------------------------------
(* Element types, and the bytes of their messages *)

Fixed(size, signed, order) == [spec |-> "fixed", size |-> size, signed |-> signed, order |-> order]
FloatIeee(size, order) == [spec |-> "float", size |-> size, order |-> order]
FixedStr(width) == [spec |-> "string", size |-> width]
VlenStr == [spec |-> "vlen_str"]
Bool == [spec |-> "bool"]

byte_size(elem) ==
    CASE elem.spec = "vlen_str" -> 16
      [] elem.spec = "bool" -> 1
      [] OTHER -> elem.size

\* The first eight bytes: class and version, 24 class bits, size.
ClassHeader(class, version, bits, size) ==
    <<F(1, version * 16 + class), F(1, bits[1]), F(1, bits[2]), F(1, bits[3]), F(4, size)>>

byte_order_bit(order) == IF order = Big THEN 1 ELSE 0
SignBit(signed) == IF signed THEN 8 ELSE 0

write_fixed_dtype(size, signed, order) ==
    ClassHeader(0, 1, <<byte_order_bit(order) + SignBit(signed), 0, 0>>, size)
        \o <<F(2, 0), F(2, size * 8)>> \o Zeros(4)

ieee_exp_bits(size) == CASE size = 2 -> 5 [] size = 4 -> 8 [] size = 8 -> 11

write_float_dtype(size, order) ==
    LET exp == ieee_exp_bits(size)
        mantissa == size * 8 - exp - 1
    IN  ClassHeader(1, 1, <<32 + byte_order_bit(order), size * 8 - 1, 0>>, size)
            \o <<F(2, 0), F(2, size * 8), F(1, mantissa), F(1, exp), F(1, 0), F(1, mantissa),
                 F(4, 2 ^ (exp - 1) - 1)>> \o Zeros(4)

NullTerm == 0
NullPad == 1
Charset == [ascii |-> 0, utf8 |-> 16]
write_string_dtype(len, pad, charset) == ClassHeader(3, 1, <<Charset[charset] + pad, 0, 0>>, len)

write_ref_dtype == ClassHeader(7, 1, <<0, 0, 0>>, 8)
write_vlen_str_dtype == ClassHeader(9, 1, <<1, 1, 0>>, 16) \o write_string_dtype(1, NullTerm, "utf8")
write_vlen_ref_dtype == ClassHeader(9, 1, <<0, 0, 0>>, 16) \o write_ref_dtype

\* Names in datatypes: some characters, a NUL, and zeros up to a multiple of 8.
PaddedName(name) == Padded(name \o Zeros(1))
FALSE_NAME == <<F(5, 1)>>
TRUE_NAME == <<F(4, 2)>>
write_bool_enum_dtype ==
    ClassHeader(8, 1, <<2, 0, 0>>, 1)
        \o Slice(write_fixed_dtype(1, TRUE, Little), 0, 12)
        \o PaddedName(FALSE_NAME) \o PaddedName(TRUE_NAME) \o <<F(1, 0), F(1, 1)>>

write_datatype_body(elem) ==
    CASE elem.spec = "fixed" -> write_fixed_dtype(elem.size, elem.signed, elem.order)
      [] elem.spec = "float" -> write_float_dtype(elem.size, elem.order)
      [] elem.spec = "vlen_str" -> write_vlen_str_dtype
      [] elem.spec = "string" -> write_string_dtype(elem.size, NullPad, "ascii")
      [] elem.spec = "bool" -> write_bool_enum_dtype

dt_body_size(elem) ==
    CASE elem.spec = "fixed" -> 16 [] elem.spec = "float" -> 24 [] elem.spec = "vlen_str" -> 16
      [] elem.spec = "string" -> 8 [] elem.spec = "bool" -> 38

\* Mutant: a nested type keeps the padding of a message of its own.
nested_padded(elem) == dt_body_size(elem)

nested_dt_body_size(elem) ==
    CASE elem.spec = "fixed" -> 12 [] elem.spec = "float" -> 20 [] OTHER -> dt_body_size(elem)

write_nested_datatype_body(elem) == Slice(write_datatype_body(elem), 0, nested_dt_body_size(elem))

-----------------------------------------------------------------------------
(* Structured types: [ok, body, elem_size], or refused *)

Encoded(body, elem_size) == [ok |-> TRUE, body |-> body, elem_size |-> elem_size]

\* A dtype a member may have, as an element type.
member_elem_type(d) ==
    CASE d.class = "int" /\ d.size \in {1, 2, 4, 8} ->
            [ok |-> TRUE, elem |-> Fixed(d.size, d.signed, d.order)]
      [] d.class = "float" /\ d.size \in {2, 4, 8} -> [ok |-> TRUE, elem |-> FloatIeee(d.size, d.order)]
      [] d.class = "string" /\ d.len \notin {0, VarLenString} -> [ok |-> TRUE, elem |-> FixedStr(d.len)]
      [] OTHER -> Bad

MEMBER_DIM_BLOCK == Zeros(28)

Member(name, offset, elem) ==
    PaddedName(name) \o <<F(4, offset)>> \o MEMBER_DIM_BLOCK \o write_nested_datatype_body(elem)

Occupied(field) == field.offset..(field.offset + byte_size(member_elem_type(field.dtype).elem) - 1)

\* fields: sequence of [name, offset, dtype].
compound(fields, struct_size) ==
    LET i == DOMAIN fields
        writable == \A k \in i : member_elem_type(fields[k].dtype).ok
    IN  IF /\ i # {} /\ struct_size > 0
           /\ \A k \in i : fields[k].name # <<>> /\ ~HasNul(fields[k].name)
           /\ \A k, l \in i : k # l => fields[k].name # fields[l].name
           /\ writable
           /\ \A k \in i : Occupied(fields[k]) \subseteq 0..(struct_size - 1)
           /\ \A k, l \in i : k # l => Occupied(fields[k]) \cap Occupied(fields[l]) = {}
        THEN Encoded(ClassHeader(6, 1, <<Len(fields), 0, 0>>, struct_size)
                     \o Joined([k \in i |-> Member(fields[k].name, fields[k].offset,
                                                   member_elem_type(fields[k].dtype).elem)]),
                     struct_size)
        ELSE Bad

vlen_sequence(base) ==
    IF base = VlenStr THEN Bad
    ELSE Encoded(ClassHeader(9, 1, <<0, 0, 0>>, 16) \o write_nested_datatype_body(base), 16)

MAX_ARRAY_DIMS == 32

array(base, dims) ==
    IF Len(dims) \in 1..MAX_ARRAY_DIMS /\ \A i \in DOMAIN dims : dims[i] > 0
    THEN Encoded(ClassHeader(10, 2, <<0, 0, 0>>, Product(dims) * byte_size(base))
                 \o <<F(1, Len(dims))>> \o Zeros(3) \o Vector(4, dims)
                 \o Vector(4, [i \in DOMAIN dims |-> i - 1]) \o write_nested_datatype_body(base),
                 Product(dims) * byte_size(base))
    ELSE Bad

opaque(size, tag) ==
    LET padded == PaddedName(tag)
    IN  IF size > 0 /\ ~HasNul(tag) /\ Size(padded) <= 255
        THEN Encoded(ClassHeader(5, 1, <<Size(padded), 0, 0>>, size) \o padded, size)
        ELSE Bad

bitfield(size, order) ==
    IF size \in 1..8
    THEN Encoded(ClassHeader(4, 1, <<byte_order_bit(order), 0, 0>>, size) \o <<F(2, 0), F(2, size * 8)>>, size)
    ELSE Bad

-----------------------------------------------------------------------------
(* The parser: [ok, dtype, used], the number of bytes that belong to the type *)

Parsed(dtype, used) == [ok |-> TRUE, dtype |-> dtype, used |-> used]

ReadOrder(bits) == IF Bit(bits, 0) THEN Big ELSE Little

\* A name up to its NUL, which versions 0 and 1 pad to a multiple of 8.
read_nul_string_padded(body, pos, version) ==
    LET rest == From(body, pos)
        raw == Size(UntilNul(rest)) + 1
    IN  IF rest = <<>> \/ ~HasNul(rest) THEN Bad
        ELSE [ok |-> TRUE, name |-> UntilNul(rest), used |-> IF version <= 1 THEN pad8(raw) ELSE raw]

CountBits(body) == Read(body, 1, 1) + 256 * Read(body, 2, 1) + 65536 * Read(body, 3, 1)

RECURSIVE parse_datatype_consuming(_, _), Members(_, _, _, _, _, _)

\* The rest of a compound's members, from byte pos on.
Members(body, version, depth, pos, left, fields) ==
    IF left = 0 THEN Parsed(CompoundType(fields), pos)
    ELSE Then(read_nul_string_padded(body, pos, version), LAMBDA name :
              LET offset == pos + name.used
                  type == offset + 4 + IF version = 1 THEN 28 ELSE 0
              IN  IF ~Fits(body, type, 1) THEN Bad
                  ELSE Then(parse_datatype_consuming(From(body, type), depth + 1), LAMBDA member :
                            Members(body, version, depth, type + member.used, left - 1,
                                    Append(fields, [name |-> name.name, offset |-> Read(body, offset, 4),
                                                    dtype |-> member.dtype]))))

RECURSIVE EnumNames(_, _, _, _)
EnumNames(body, version, pos, left) ==
    IF left = 0 THEN [ok |-> TRUE, names |-> <<>>, end |-> pos]
    ELSE Then(read_nul_string_padded(body, pos, version), LAMBDA name :
         Then(EnumNames(body, version, pos + name.used, left - 1), LAMBDA rest :
              [rest EXCEPT !.names = <<name.name>> \o @]))

\* The values, behind the names.
EnumOf(body, base, base_size, names, count) ==
    LET values == ReadVector(body, names.end, base_size, count)
        end == names.end + count * base_size
    IN  IF count > 0 /\ (base_size \notin {1, 2, 4, 8} \/ ~Fits(body, 0, end)) THEN Bad
        ELSE Parsed(EnumType(base.dtype, [i \in 1..count |-> <<names.names[i], values[i]>>]), end)

parse_enum(body, version, base_size, count, depth) ==
    Then(parse_datatype_consuming(From(body, 8), depth + 1), LAMBDA base :
    Then(EnumNames(body, version, 8 + base.used, count), LAMBDA names :
         EnumOf(body, base, base_size, names, count)))

parse_array(body, version, ndims, depth) ==
    LET dims == IF version = 2 THEN 12 ELSE 9
        props_end == dims + 4 * ndims + IF version = 2 THEN 4 * ndims ELSE 0
    IN  IF version < 2 \/ ~Fits(body, 8, 1) \/ ~Fits(body, 0, props_end) THEN Bad
        ELSE Then(parse_datatype_consuming(From(body, props_end), depth + 1), LAMBDA base :
                  Parsed(ArrayType(base.dtype, ReadVector(body, dims, 4, ndims)), props_end + base.used))

parse_vlen(body, is_string, depth) ==
    Then(parse_datatype_consuming(From(body, 8), depth + 1), LAMBDA base :
         Parsed(IF ~is_string THEN VarLenType(base.dtype)
                ELSE StringType(VarLenString,
                                IF base.dtype.class = "string" THEN base.dtype.charset ELSE "ascii"),
                8 + base.used))

parse_opaque(body, size) ==
    LET tag == Read(body, 1, 1)
    IN  IF ~Fits(body, 8, tag) THEN Bad
        ELSE Parsed(OpaqueType(size, UntilNul(Slice(body, 8, tag))), 8 + pad8(tag))

\* A datatype from its class and version, its first byte of bits and its size on.
TypeOf(body, class, version, bits, size, depth) ==
    LET Used(properties) == IF version = 1 THEN 8 + properties ELSE 8
    IN  CASE class = 0 -> Parsed(IntType(size, Bit(bits, 3), ReadOrder(bits)), Used(4))
          [] class = 1 -> Parsed(FloatType(size, ReadOrder(bits)), Used(12))
          [] class = 3 -> Parsed(StringType(size, IF bits \div 16 # 0 THEN "utf8" ELSE "ascii"), 8)
          [] class = 4 -> Parsed(BitfieldType(size, ReadOrder(bits)), Used(4))
          [] class = 5 -> parse_opaque(body, size)
          [] class = 6 -> Members(body, version, depth, 8, CountBits(body), <<>>)
          [] class = 7 -> Parsed(ReferenceType(IF bits % 16 # 0 THEN "region" ELSE "object"), 8)
          [] class = 8 -> parse_enum(body, version, size, CountBits(body), depth)
          [] class = 9 -> parse_vlen(body, bits % 16 = 1, depth)
          [] class = 10 -> parse_array(body, version, Read(body, 8, 1), depth)
          [] OTHER -> Bad

parse_datatype_consuming(body, depth) ==
    IF depth > MaxNesting \/ ~Fits(body, 0, 8) THEN Bad
    ELSE TypeOf(body, Read(body, 0, 1) % 16, (Read(body, 0, 1) \div 16) % 16,
                Read(body, 1, 1), Read(body, 4, 4), depth)

parse_datatype(body) == parse_datatype_consuming(body, 0)
=============================================================================
