----------------------------- MODULE FilterPipeline -----------------------------
(***************************************************************************)
(* The life of one filtered chunk: its elements go through the filters of   *)
(* the dataset's pipeline, the result is stored, where a byte may go bad,   *)
(* and a read undoes the filters one by one (filters.rs of oxih5-format,    *)
(* write/payload.rs and write/pipeline.rs of oxih5).                        *)
(*                                                                         *)
(* A byte has 2^Bits values.  A deflated or szipped stream stands for what  *)
(* it holds, behind a mark: the codecs are crates of their own.             *)
(***************************************************************************)
EXTENDS Fletcher, Sequences

CONSTANTS
    Bits,    \* of a byte: Base is 2 ^ Bits
    Szip,    \* whether the "szip" feature is built in
    Chunk    \* what is written: [raw, elem_size, by, filters, mask], "by" this writer,
             \* whose dataset's filter `filters` is, or as another has it: "libhdf5",
             \* or "documented", as filters.rs and its tests say that others do

VARIABLES
    chunk,     \* the chunk
    place,     \* filters applied so far, then those left to undo
    bytes,     \* what they made of it
    stage,     \* "write", "stored", "read", "done" or "failed"
    damaged    \* whether a stored byte has changed

chunkVars == <<chunk, place, bytes, stage, damaged>>

MAX_DEFLATE_LEVEL == 9
SZ_RAW == 128

Refused == [ok |-> FALSE, bytes |-> <<>>]
Gives(b) == [ok |-> TRUE, bytes |-> b]
If(allowed, b) == IF allowed THEN Gives(b) ELSE Refused

-----------------------------------------------------------------------------
(* Bytes and bits *)

Sum(n, f(_)) == LET s[i \in 0..n] == IF i = 0 THEN 0 ELSE s[i - 1] + f(i) IN s[n]

from_le_bytes(b) == LET Place(i) == b[i] * Base ^ (i - 1) IN Sum(Len(b), Place)
to_le_bytes(x, n) == [i \in 1..n |-> (x \div Base ^ (i - 1)) % Base]

\* The i-th bit of a stream, the most significant of every byte first.
Bit(b, i) == (b[i \div Bits + 1] \div 2 ^ (Bits - 1 - (i % Bits))) % 2

\* The number in `n` bits from the i-th on.
BitsAt(b, i, n) == LET Weight(k) == Bit(b, i + k - 1) * 2 ^ (n - k) IN Sum(n, Weight)

First(b, n) == SubSeq(b, 1, n)
Rest(b, n) == SubSeq(b, n + 1, Len(b))

-----------------------------------------------------------------------------
(* Shuffle *)

Whole(b, elem_size) == elem_size > 0 /\ Len(b) % elem_size = 0

shuffle(b, elem_size) ==
    LET n == Len(b) \div elem_size
    IN  [p \in DOMAIN b |-> b[((p - 1) % n) * elem_size + (p - 1) \div n + 1]]

unshuffle(b, elem_size) ==
    LET n == Len(b) \div elem_size
    IN  [p \in DOMAIN b |-> b[((p - 1) % elem_size) * n + (p - 1) \div elem_size + 1]]

-----------------------------------------------------------------------------
(* Fletcher-32, all of Fletcher's steps at once *)

fletcher32_compute(b) ==
    LET n == Len(b) \div 2
        Add(s, word) == <<Plus(s[1], word), Plus(s[2], Plus(s[1], word))>>
        Reduced(s) == <<Folded(s[1]), Folded(s[2])>>
        sums[i \in 0..n] ==
            IF i = 0 THEN <<0, 0>>
            ELSE LET s == Add(sums[i - 1], b[2 * i - 1] * Base + b[2 * i])
                 IN  IF i % Block = 0 \/ i = n THEN Reduced(s) ELSE s
        all == IF Len(b) % 2 = 1 THEN Reduced(Add(sums[n], b[Len(b)] * Base)) ELSE sums[n]
        s == Reduced(all)
    IN  to_le_bytes(s[1], 2) \o to_le_bytes(s[2], 2)

append_fletcher32(b) == b \o fletcher32_compute(b)

\* Mutant: only the first of the two sums is compared.
verify_first_sum(b) ==
    LET n == Len(b) - 4
    IN  If(n >= 0 /\ First(Rest(b, n), 2) = First(fletcher32_compute(First(b, n)), 2), First(b, n))

verify_fletcher32(b) ==
    LET n == Len(b) - 4
    IN  If(n >= 0 /\ Rest(b, n) = fletcher32_compute(First(b, n)), First(b, n))

-----------------------------------------------------------------------------
(* N-bit and scale-offset *)

FitsNbit(size, precision, offset) ==
    /\ size > 0
    /\ precision > 0
    /\ precision <= size * Bits
    /\ offset < size * Bits

\* Whatever fills a last byte counts as elements too.
unpack_nbit(b, size, precision, offset) ==
    [p \in 1..(((Len(b) * Bits) \div precision) * size) |->
        to_le_bytes(BitsAt(b, ((p - 1) \div size) * precision, precision) * 2 ^ offset,
                    size)[((p - 1) % size) + 1]]

\* Sums wrap in the element's width; other widths give zeros.
decode_scaleoffset_int(b, size, min_bits, min_val) ==
    LET unpacked == unpack_nbit(b, size, min_bits, 0)
        Element(e) == from_le_bytes(SubSeq(unpacked, e * size + 1, (e + 1) * size))
    IN  [p \in DOMAIN unpacked |->
            IF size \in {1, 2, 4, 8}
            THEN to_le_bytes(Element((p - 1) \div size) + from_le_bytes(min_val),
                             size)[((p - 1) % size) + 1]
            ELSE 0]

undo_scaleoffset(b, elem_size) ==
    IF b = <<>> THEN Gives(<<>>)
    ELSE IF elem_size = 0 \/ Len(b) < 1 + elem_size THEN Refused
    ELSE IF b[1] = 0 THEN Gives(Tail(b))
    ELSE If(FitsNbit(elem_size, b[1], 0),
            decode_scaleoffset_int(Rest(b, 1 + elem_size), elem_size, b[1],
                                   SubSeq(b, 2, 1 + elem_size)))

\* client_data: count, class, size, sign, byte order, precision, offset.
undo_nbit(b, client_data) ==
    IF Len(client_data) >= 7 /\ client_data[2] = 0
    THEN If(FitsNbit(client_data[3], client_data[6], client_data[7]),
            unpack_nbit(b, client_data[3], client_data[6], client_data[7]))
    ELSE Refused

-----------------------------------------------------------------------------
(* The codecs of other crates *)

Marked(stream) == <<1>> \o stream
HasMark(stream) == stream # <<>> /\ Head(stream) = 1

zlib_compress(b) == Marked(b)
inflate_deflate(b) == If(HasMark(b), Tail(b))
deflate_compress(b, level) == If(level <= MAX_DEFLATE_LEVEL, zlib_compress(b))

szip_encode(b) == Marked(b)
szip_decode(stream, n) == If(HasMark(stream) /\ Len(stream) - 1 >= n, SubSeq(stream, 2, n + 1))

\* client_data: options, bits per pixel, pixels per block and per scanline.
decode_szip(b, client_data, expected_out_len) ==
    LET raw_mode == (client_data[1] \div SZ_RAW) % 2 = 1
        sample == (client_data[2] + Bits - 1) \div Bits
        length == IF raw_mode THEN expected_out_len ELSE from_le_bytes(First(b, 4))
        stream == IF raw_mode THEN b ELSE Rest(b, 4)
        whole == (length \div sample) * sample
    IN  IF \/ Len(client_data) < 4
           \/ client_data[2] = 0
           \/ ~raw_mode /\ Len(b) < 4
        THEN Refused
        ELSE LET decoded == szip_decode(stream, whole)
             IN  If(decoded.ok /\ whole = length, decoded.bytes)

-----------------------------------------------------------------------------
(* One filter *)

\* The element size is the filter's own where it carries one.
shuffled_size(client_data, elem_size) ==
    IF client_data # <<>> /\ client_data[1] > 0 THEN client_data[1] ELSE elem_size

apply_one_inverse(b, filter, elem_size, expected_out_len) ==
    LET size == shuffled_size(filter.client_data, elem_size)
    IN  CASE filter.id = "deflate" -> inflate_deflate(b)
          [] filter.id = "shuffle" ->
                IF size = 0 THEN Gives(b) ELSE If(Whole(b, size), unshuffle(b, size))
          [] filter.id = "fletcher32" -> verify_fletcher32(b)
          [] filter.id = "nbit" -> undo_nbit(b, filter.client_data)
          [] filter.id = "scaleoffset" -> undo_scaleoffset(b, elem_size)
          [] filter.id = "szip" /\ Szip -> decode_szip(b, filter.client_data, expected_out_len)
          [] OTHER -> Refused

\* Bits written one after the other, the last byte filled up with zeros.
Packed(numbers, n) ==
    LET total == Len(numbers) * n
        At(i) == IF i >= total THEN 0
                 ELSE (numbers[i \div n + 1] \div 2 ^ (n - 1 - (i % n))) % 2
        Weight(p, k) == At((p - 1) * Bits + k - 1) * 2 ^ (Bits - k)
    IN  [p \in 1..((total + Bits - 1) \div Bits) |-> Sum(Bits, LAMBDA k : Weight(p, k))]

Elements(b, size, big_endian) ==
    LET At(e, k) == b[(e - 1) * size + (IF big_endian THEN size + 1 - k ELSE k)]
    IN  [e \in 1..(Len(b) \div size) |-> from_le_bytes([k \in 1..size |-> At(e, k)])]

\* Where the n-bit filter's size, byte order, precision and offset stand: libhdf5 counts
\* its parameters and the chunk's elements first, and says whether it packs at all.
NbitPlaces(by) ==
    IF by = "libhdf5" THEN [plain |-> 2, size |-> 5, order |-> 6, precision |-> 7, offset |-> 8]
    ELSE [plain |-> 2, size |-> 3, order |-> 5, precision |-> 6, offset |-> 7]

pack_nbit(b, client_data, by) ==
    LET at == NbitPlaces(by)
        elements == Elements(b, client_data[at.size], client_data[at.order] = 1)
    IN  IF by = "libhdf5" /\ client_data[at.plain] = 1 THEN b
        ELSE Packed([e \in DOMAIN elements |-> elements[e] \div 2 ^ client_data[at.offset]],
                    client_data[at.precision])

\* libhdf5: the bits in four bytes, the size of a minimum, the minimum, and padding.
scaleoffset_header(min_bits, min_val, size, by) ==
    IF by = "libhdf5"
    THEN to_le_bytes(min_bits, 4) \o to_le_bytes(8, 1) \o to_le_bytes(min_val, 8)
           \o to_le_bytes(0, 8)
    ELSE <<min_bits>> \o to_le_bytes(min_val, size)

pack_scaleoffset(b, size, min_bits, min_val, by) ==
    LET elements == Elements(b, size, FALSE)
    IN  scaleoffset_header(min_bits, min_val, size, by)
          \o (IF min_bits = 0 THEN <<>>
              ELSE Packed([e \in DOMAIN elements |-> (elements[e] - min_val) % Base ^ size],
                          min_bits))

\* libhdf5 has the length before every stream, and the raw mode in the options of all.
pack_szip(b, client_data, by) ==
    LET raw_mode == (client_data[1] \div SZ_RAW) % 2 = 1
    IN  (IF raw_mode /\ by # "libhdf5" THEN <<>> ELSE to_le_bytes(Len(b), 4)) \o szip_encode(b)

\* What a filter of this writer does to a chunk.
apply_one(b, filter, elem_size) ==
    CASE filter.id = "shuffle" -> If(Whole(b, elem_size), shuffle(b, elem_size))
      [] filter.id = "deflate" -> deflate_compress(b, filter.client_data[1])
      [] filter.id = "fletcher32" -> Gives(append_fletcher32(b))

\* What those of others do: bytes past the last whole element are not shuffled.
apply_other(b, filter, elem_size, by) ==
    LET size == shuffled_size(filter.client_data, elem_size)
        whole == (Len(b) \div size) * size
    IN  CASE filter.id = "shuffle" -> Gives(shuffle(First(b, whole), size) \o Rest(b, whole))
          [] filter.id = "nbit" -> Gives(pack_nbit(b, filter.client_data, by))
          [] filter.id = "scaleoffset" ->
                Gives(pack_scaleoffset(b, elem_size, filter.min_bits, filter.min_val, by))
          [] filter.id = "szip" -> Gives(pack_szip(b, filter.client_data, by))
          [] filter.id \in {"deflate", "fletcher32"} -> apply_one(b, filter, elem_size)
          [] OTHER -> Gives(b)

\* The filters a dataset of this writer has, in their order on disk.
descriptors(filter, elem_size) ==
    (IF filter.shuffle THEN <<[id |-> "shuffle", client_data |-> <<elem_size>>]>> ELSE <<>>)
      \o (IF filter.deflate = <<>> THEN <<>>
          ELSE <<[id |-> "deflate", client_data |-> filter.deflate]>>)
      \o (IF filter.fletcher32 THEN <<[id |-> "fletcher32", client_data |-> <<>>]>> ELSE <<>>)

-----------------------------------------------------------------------------

ChunkInit ==
    /\ \E c \in Chunk :
          chunk = IF c.by = "writer" THEN [c EXCEPT !.filters = descriptors(@, c.elem_size)] ELSE c
    /\ place = 0 /\ bytes = chunk.raw /\ stage = "write" /\ damaged = FALSE

\* A filter whose bit is set was skipped.
IsSkipped(i) == (chunk.mask \div 2 ^ (i - 1)) % 2 = 1

Becomes(result) ==
    /\ stage' = IF result.ok THEN stage ELSE "failed"
    /\ bytes' = result.bytes

\* apply_write_pipeline, and libhdf5, which may leave out an optional filter.
Apply ==
    /\ stage = "write"
    /\ place < Len(chunk.filters)
    /\ place' = place + 1
    /\ IF IsSkipped(place + 1) THEN UNCHANGED <<bytes, stage>>
       ELSE LET filter == chunk.filters[place + 1]
            IN  Becomes(IF chunk.by = "writer" THEN apply_one(bytes, filter, chunk.elem_size)
                        ELSE apply_other(bytes, filter, chunk.elem_size, chunk.by))
    /\ UNCHANGED <<chunk, damaged>>

Store ==
    /\ stage = "write"
    /\ place = Len(chunk.filters)
    /\ stage' = "stored"
    /\ UNCHANGED <<chunk, place, bytes, damaged>>

\* A byte of the stored chunk goes bad, or two neighbouring words change places.
Damage ==
    /\ stage = "stored" /\ ~damaged
    /\ \/ \E i \in DOMAIN bytes, b \in 0..Base - 1 :
            b # bytes[i] /\ bytes' = [bytes EXCEPT ![i] = b]
       \/ \E i \in 0..(Len(bytes) - 8) \div 2 :
            LET Word(w) == SubSeq(bytes, 2 * w + 1, 2 * w + 2)
            IN  /\ bytes' = First(bytes, 2 * i) \o Word(i + 1) \o Word(i) \o Rest(bytes, 2 * i + 4)
                /\ ~Congruent(from_le_bytes(Word(i)), from_le_bytes(Word(i + 1)))
    /\ damaged' = TRUE
    /\ UNCHANGED <<chunk, place, stage>>

\* Mutant: a read takes the filters in the order they were applied in.
same_order(left) == Len(chunk.filters) + 1 - left

\* apply_pipeline_sized takes them in reverse.
reverse_order(left) == left

StartRead ==
    /\ stage = "stored"
    /\ stage' = "read"
    /\ UNCHANGED <<chunk, place, bytes, damaged>>

Undo ==
    /\ stage = "read"
    /\ place > 0
    /\ place' = place - 1
    /\ LET i == reverse_order(place)
       IN  IF IsSkipped(i) THEN UNCHANGED <<bytes, stage>>
           ELSE Becomes(apply_one_inverse(bytes, chunk.filters[i], chunk.elem_size, Len(chunk.raw)))
    /\ UNCHANGED <<chunk, damaged>>

EndRead ==
    /\ stage = "read" /\ place = 0
    /\ stage' = "done"
    /\ UNCHANGED <<chunk, place, bytes, damaged>>

ChunkNext == Apply \/ Store \/ Damage \/ StartRead \/ Undo \/ EndRead

-----------------------------------------------------------------------------

Agreeing(b, c) == \A i \in DOMAIN b \cap DOMAIN c : b[i] = c[i]

\* A filter this reader takes for another than libhdf5 has: it looks for the bits of an
\* n-bit element where the byte order is, and finds none only if that is little-endian,
\* takes a scale-offset chunk's header for 1 + elem_size bytes, and the length before a
\* szip stream in raw mode for the stream (filters.rs:132-138, :154-180, :263).
IsMistaken(filter) ==
    /\ chunk.by = "libhdf5"
    /\ \/ filter.id \in {"scaleoffset", "szip"}
       \/ filter.id = "nbit" /\ filter.client_data[NbitPlaces("libhdf5").order] = 1

\* Reading undoes writing: whatever filters a chunk went through, in whatever order and
\* with whichever of them left out, the elements a read returns are those that were
\* written, unless one of the filters is mistaken, and a chunk of this writer comes back
\* whole (filters.rs:89-107, payload.rs:125-165).
FiltersUndone ==
    ~damaged =>
        /\ stage = "done" /\ (\A i \in DOMAIN chunk.filters : ~IsMistaken(chunk.filters[i]) \/ IsSkipped(i))
              => Agreeing(bytes, chunk.raw)
        /\ chunk.by = "writer" /\ stage = "done" => bytes = chunk.raw
        /\ chunk.by = "writer" => stage # "failed"

\* A chunk stored with a checksum over it is never read with a byte of it wrong
\* or words of it swapped (filters.rs:420-455).
DamageIsSeen ==
    damaged /\ stage = "done" =>
        LET n == Len(chunk.filters)
        IN  n = 0 \/ IsSkipped(n) \/ chunk.filters[n].id # "fletcher32"
=============================================================================
