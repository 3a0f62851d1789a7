------------------------------ MODULE FractalHeap ------------------------------
(***************************************************************************)
(* The address space of a fractal heap: what the writer makes of it        *)
(* (write/fractal_heap.rs, one direct block), how a reader finds an object *)
(* in it (oxih5-format/src/fractal_heap.rs, a doubling table of blocks),   *)
(* and how libhdf5, whose files are read too, lays one out.                *)
(*                                                                         *)
(* A heap's address space is cut into rows of TABLE_WIDTH blocks; the      *)
(* first two rows have blocks of the starting size, and every row after    *)
(* them blocks twice as large.  Up to the maximum direct block size a      *)
(* block holds objects, above it a table of its own.                       *)
(*                                                                         *)
(* A block is addressed by the entries that lead to it from the root.      *)
(* Filters on the heap are left out.                                       *)
(***************************************************************************)
EXTENDS Integers, FiniteSets, Sequences, SequencesExt, FiniteSetsExt

CONSTANTS
    TABLE_WIDTH,            \* 4 in the code
    MIN_BLOCK_SIZE,         \* 512 in the code
    MAX_DIRECT_BLOCK_SIZE,  \* 65536 in the code
    DIRECT_BLOCK_HEADER,    \* 21 in the code: counted in the heap's addresses
    MAX_OBJECT_SIZE,        \* 65535 in the code: two bytes of length
    MAX_ROWS                \* 256 in the code

Total(sizes) == FoldSeq(+, 0, sizes)

RootBlock == <<>>
NoBlock == <<0>>   \* the all-ones address

-----------------------------------------------------------------------------
(* FractalHeapWriter::plan *)

\* The objects are packed behind the block's header.
ObjectOffsets(sizes) ==
    [i \in DOMAIN sizes |-> DIRECT_BLOCK_HEADER + Total(SubSeq(sizes, 1, i - 1))]

\* The root block is doubled until it holds everything.
BlockSize(sizes) ==
    LET grown[size \in Nat] ==
            IF size < DIRECT_BLOCK_HEADER + Total(sizes) THEN grown[2 * size] ELSE size
    IN  grown[MIN_BLOCK_SIZE]

Plannable(sizes) ==
    /\ \A i \in DOMAIN sizes : sizes[i] <= MAX_OBJECT_SIZE
    /\ BlockSize(sizes) \in {MIN_BLOCK_SIZE} \cup 0..MAX_DIRECT_BLOCK_SIZE

\* heap_id: the length is cut off at its two bytes.
HeapId(offset, length) == [offset |-> offset, length |-> length % (MAX_OBJECT_SIZE + 1)]

\* write: the header names one direct block and no rows, starting where the root is.
DirectHeap(offsets, sizes, block_size) ==
    [start |-> block_size, max_direct |-> MAX_DIRECT_BLOCK_SIZE, current_rows |-> 0,
     blocks |-> [b \in {RootBlock} |->
        [entries |-> <<>>,
         objects |-> [o \in {offsets[i] : i \in DOMAIN offsets} |->
                        LET i == CHOOSE i \in DOMAIN offsets : offsets[i] = o
                        IN  [id |-> i, length |-> sizes[i]]]]]]

-----------------------------------------------------------------------------
(* The doubling table *)

\* block_size_for_row
RowSize(h, row) == IF row <= 1 THEN h.start ELSE h.start * 2^(row - 1)

\* num_direct_rows: sizes never shrink from row to row.
DirectRows(h) == Cardinality({row \in 0..(MAX_ROWS - 1) : RowSize(h, row) <= h.max_direct})

\* The heap addresses that lie before a row.
RowStart(h, row) == TABLE_WIDTH * Total([r \in 1..row |-> RowSize(h, r - 1)])
EntryStart(h, row, col) == RowStart(h, row) + col * RowSize(h, row)

\* The entry of a table of `rows` rows that covers an address, if one does.
Covering(h, rows, offset) ==
    {entry \in [row: 0..(rows - 1), col: 0..(TABLE_WIDTH - 1)] :
        LET first == EntryStart(h, entry.row, entry.col)
        IN  first <= offset /\ offset < first + RowSize(h, entry.row)}

EntryNumber(entry) == entry.row * TABLE_WIDTH + entry.col + 1

\* Mutant: one row too few.
RowsBelow(h, size) == Max({n \in 0..MAX_ROWS : RowStart(h, n) < size})

\* compute_indirect_nrows: the rows a table needs to cover `size` addresses.
SubRows(h, size) == Min({MAX_ROWS} \cup {n \in 1..MAX_ROWS : RowStart(h, n) >= size})

-----------------------------------------------------------------------------
(* libhdf5's heaps: H5HF__dtable_lookup finds an address without a search *)

Log2(n) == CHOOSE k \in 0..n : 2^k <= n /\ n < 2^(k + 1)

DtableLookup(h, offset) ==
    IF offset < TABLE_WIDTH * h.start
    THEN [row |-> 0, col |-> offset \div h.start]
    ELSE LET row == Log2(offset \div (TABLE_WIDTH * h.start)) + 1
         IN  [row |-> row, col |-> (offset - RowStart(h, row)) \div RowSize(h, row)]

\* The blocks on the way to an address, and where in the last of them it lies.
Located(h, offset) ==
    LET way[o \in Nat] ==
            LET entry == DtableLookup(h, o)
                rest == o - EntryStart(h, entry.row, entry.col)
                deeper == way[rest]
            IN  IF entry.row < DirectRows(h)
                THEN [path |-> <<EntryNumber(entry)>>, within |-> rest]
                ELSE [deeper EXCEPT !.path = <<EntryNumber(entry)>> \o @]
    IN  way[offset]

\* Where an address lies: in the root itself if that is a direct block.
PlaceOf(h, offset) ==
    IF h.current_rows = 0 THEN [path |-> RootBlock, within |-> offset] ELSE Located(h, offset)

\* No object lies in the header of its block.
ClearOfHeaders(h, offset) == PlaceOf(h, offset).within >= DIRECT_BLOCK_HEADER

\* A heap with the objects `placed` in it, the blocks that hold none unallocated.
LibHeap(h, placed) ==
    LET at == [i \in DOMAIN placed |-> PlaceOf(h, placed[i].offset)]
        blocks == {RootBlock} \cup UNION {{SubSeq(at[i].path, 1, n) : n \in 1..Len(at[i].path)} :
                                         i \in DOMAIN placed}
        in(b) == {i \in DOMAIN placed : at[i].path = b}
    IN  h @@ [blocks |-> [b \in blocks |->
            [entries |-> IF in(b) # {} THEN <<>>
                         ELSE [n \in 1..(MAX_ROWS * TABLE_WIDTH) |->
                                  IF Append(b, n) \in blocks THEN Append(b, n) ELSE NoBlock],
             objects |-> [o \in {at[i].within : i \in in(b)} |->
                            LET i == CHOOSE i \in in(b) : at[i].within = o
                            IN  [id |-> i, length |-> placed[i].length]]]]]
=============================================================================
