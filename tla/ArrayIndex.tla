------------------------------ MODULE ArrayIndex ------------------------------
(***************************************************************************)
(* The chunk indexes of the version-4 layout, which libhdf5 writes and     *)
(* oxih5 reads (chunk_records of oxih5-format/src/chunked/index.rs): no    *)
(* index, one chunk, all chunks back to back, a fixed array (fa_index.rs), *)
(* a version-2 B-tree, and an extensible array (ea_index/).                *)
(*                                                                         *)
(* Arrays do not say where a chunk belongs: the reader rebuilds libhdf5's  *)
(* numbering of chunks from the dataset's shape, and the blocks an         *)
(* extensible array is cut into from its creation parameters.              *)
(*                                                                         *)
(* The address of a chunk is its place in the grid, so that a record tells *)
(* which chunk it leads to; sizes and filter masks are left out.           *)
(***************************************************************************)
EXTENDS ChunkGeometry, Integers, FiniteSets

CONSTANTS
    Indexed,                \* datasets: [index, dims, max_dims, chunk_dims, written]
    UNLIMITED,
    IDX_BLK_ELMTS,          \* 4 in libhdf5's files: elements in the index block
    DATA_BLK_MIN_ELMTS,     \* 16
    SUP_BLK_MIN_DATA_PTRS,  \* 4
    MAX_NELMTS_BITS,        \* 32
    PAGE_NELMTS             \* 1024: elements of a data block's page

VARIABLES
    ds,        \* a member of Indexed
    phase,     \* "open", "walk", "runs", "read" or "failed"
    nodes,     \* of the version-2 B-tree
    visits,    \* its nodes still to visit
    supers,    \* super blocks of the extensible array still to parse
    runs,      \* its runs of elements still to decode
    records    \* the chunks found so far

Tree == INSTANCE BTreeV2

vars == <<ds, phase, nodes, visits, supers, runs, records>>

NoChunk == <<>>   \* the all-ones address
NoBlock == [written |-> FALSE]

Rank == DOMAIN ds.dims

-----------------------------------------------------------------------------
(* libhdf5: the number of a chunk.  Numbers run row-major over the grid of the *)
(* maximum dimensions; with one of them unlimited, that one comes first.       *)

Rotated(seq, d) == <<seq[d]>> \o SubSeq(seq, 1, d - 1) \o SubSeq(seq, d + 1, Len(seq))

UnlimitedDims(d) == {i \in DOMAIN d.max_dims : d.max_dims[i] = UNLIMITED}

ChunkNumber(d, coords) ==
    LET grid == ChunkCounts(d.max_dims, d.chunk_dims)
        first == CHOOSE i \in UnlimitedDims(d) : TRUE
    IN  IF UnlimitedDims(d) = {} THEN Flatten(coords, grid)
        ELSE Flatten(Rotated(coords, first), Rotated(grid, first))

\* The chunk a slot of an array leads to.
Slot(number) ==
    IF \E coords \in ds.written : ChunkNumber(ds, coords) = number
    THEN CHOOSE coords \in ds.written : ChunkNumber(ds, coords) = number
    ELSE NoChunk

-----------------------------------------------------------------------------
(* libhdf5: where an extensible array keeps an element (H5EA__lookup_elmt).    *)
(* Past the index block's, super block u has 2^(u/2) data blocks and starts    *)
(* behind 2^u - 1 times the elements of the smallest.                          *)

Log2(n) == CHOOSE k \in 0..n : 2^k <= n /\ n < 2^(k + 1)

Beyond(number) == number - IDX_BLK_ELMTS
SuperBlockOf(number) == Log2(Beyond(number) \div DATA_BLK_MIN_ELMTS + 1)
FirstOf(u) == (2^u - 1) * DATA_BLK_MIN_ELMTS
BlockLength(u) == 2^((u + 1) \div 2) * DATA_BLK_MIN_ELMTS
BlocksBefore(u) == FoldSeq(+, 0, [v \in 1..u |-> 2^((v - 1) \div 2)])

IndexBlockSupers == 2 * Log2(SUP_BLK_MIN_DATA_PTRS)
IsPaged(u) == BlockLength(u) > PAGE_NELMTS

\* Numbers of the elements in use, and the blocks and pages they lie in.
InUse == {number \in {ChunkNumber(ds, coords) : coords \in ds.written} : number >= IDX_BLK_ELMTS}
Within(number) == Beyond(number) - FirstOf(SuperBlockOf(number))
BlockOf(number) == Within(number) \div BlockLength(SuperBlockOf(number))
PageOf(number) == (Within(number) % BlockLength(SuperBlockOf(number))) \div PAGE_NELMTS

\* What was in the file where a page was never written.
Leftover(u) == <<-u>>

\* Data block k of super block u: its slots, if one of them is in use.
DataBlock(u, k) ==
    LET there == {number \in InUse : SuperBlockOf(number) = u /\ BlockOf(number) = k}
        number(i) == IDX_BLK_ELMTS + FirstOf(u) + k * BlockLength(u) + i - 1
        written(i) == \E used \in there : PageOf(used) = PageOf(number(i))
    IN  IF there = {} THEN NoBlock
        ELSE [written |-> TRUE,
              slots |-> [i \in 1..BlockLength(u) |->
                            IF IsPaged(u) /\ ~written(i) THEN Leftover(u) ELSE Slot(number(i))]]

\* The data block whose address is the n-th of the index block.
DirectBlock(n) ==
    LET u == CHOOSE u \in 0..n : BlocksBefore(u) < n /\ n <= BlocksBefore(u + 1)
    IN  DataBlock(u, n - 1 - BlocksBefore(u))

\* Super block u: the index of its first element, its data blocks, and the pages that
\* were written, numbered through all of them.
SuperBlock(u) ==
    LET there == {number \in InUse : SuperBlockOf(number) = u}
        pages == BlockLength(u) \div PAGE_NELMTS
    IN  IF there = {} THEN NoBlock
        ELSE [written |-> TRUE,
              offset |-> FirstOf(u),
              page_init |-> IF IsPaged(u) THEN {BlockOf(n) * pages + PageOf(n) : n \in there} ELSE {},
              blocks |-> [k \in 1..2^(u \div 2) |-> DataBlock(u, k - 1)]]

-----------------------------------------------------------------------------
(* libhdf5's version-2 B-tree: the chunks written, by place in the grid *)

\* A leaf of libhdf5's 2048 bytes holds 84 records of two dimensions; a leaf of 256 needs
\* a larger node, as another writer may choose.
LeafRecords == {84, 256}

TreesOf(d) ==
    LET list == SetToSortSeq(d.written, KeyLess)
    IN  {[addr \in {Tree!Root} |-> Tree!Leaf(list)]}
        \cup {Tree!SplitAt(list, k, n) : k \in 2..(Len(list) - 1), n \in LeafRecords}

-----------------------------------------------------------------------------

Init ==
    /\ ds \in Indexed
    /\ phase = "open"
    /\ nodes \in IF ds.index = "btree2" /\ ds.written # {} THEN TreesOf(ds) ELSE {<<>>}
    /\ visits = <<>> /\ supers = <<>> /\ runs = <<>> /\ records = <<>>

Record(chunk, coords) ==
    [address |-> chunk, offsets |-> [d \in Rank |-> coords[d] * ds.chunk_dims[d]]]

Opening(index) == phase = "open" /\ ds.index = index /\ ds.written # {}
Finish(list) == phase' = "read" /\ records' = list

\* The address of the index is undefined.
NothingWritten ==
    /\ phase = "open" /\ ds.written = {}
    /\ Finish(<<>>)
    /\ UNCHANGED <<ds, nodes, visits, supers, runs>>

\* single_chunk_records: one record at the origin.
ReadSingle ==
    /\ Opening("single")
    /\ Finish(<<Record(Slot(0), [d \in Rank |-> 0])>>)
    /\ UNCHANGED <<ds, nodes, visits, supers, runs>>

CurrentGrid == ChunkCounts(ds.dims, ds.chunk_dims)

\* implicit_records: chunk n is the n-th of the grid.
ReadImplicit ==
    /\ Opening("implicit")
    /\ Finish([n \in 1..Volume(CurrentGrid) |-> Record(Slot(n - 1), Unflatten(n - 1, CurrentGrid))])
    /\ UNCHANGED <<ds, nodes, visits, supers, runs>>

Allocated(list) == SelectSeq(list, LAMBDA record : record.address # NoChunk)

\* compute_grid_dims: of the current dimensions, although the elements are as many as
\* the maximum dimensions have chunks.
FixedStrides == Strides(CurrentGrid)

\* parse_fixed_array_inner: element i is divided down by the strides.
FixedCoords(i) ==
    LET Rest(d) == IF d = 1 THEN i ELSE i % FixedStrides[d - 1]
    IN  [d \in Rank |-> Rest(d) \div FixedStrides[d]]

FixedElements == Volume(ChunkCounts(ds.max_dims, ds.chunk_dims))

ReadFixed ==
    /\ Opening("fixed")
    /\ Finish(Allocated([n \in 1..FixedElements |-> Record(Slot(n - 1), FixedCoords(n - 1))]))
    /\ UNCHANGED <<ds, nodes, visits, supers, runs>>

OpenTree ==
    /\ Opening("btree2")
    /\ phase' = "walk"
    /\ Tree!StartWalk(Tree!Root)
    /\ UNCHANGED <<ds, nodes, supers, runs>>

WalkTree ==
    /\ phase = "walk"
    /\ Tree!VisitLeaf \/ Tree!VisitInternal
    /\ UNCHANGED <<ds, phase, nodes, supers, runs>>

FailTree ==
    /\ phase = "walk" /\ Tree!Misled
    /\ phase' = "failed"
    /\ UNCHANGED <<ds, nodes, visits, supers, runs, records>>

\* parse_chunk_record: a tree's records hold places in the grid, not offsets.
FinishTree ==
    /\ phase = "walk" /\ visits = <<>>
    /\ Finish([i \in DOMAIN records |-> Record(records[i], records[i])])
    /\ UNCHANGED <<ds, nodes, visits, supers, runs>>

-----------------------------------------------------------------------------
(* EaHeader: the blocks the creation parameters imply *)

Log2Of2(n) == CHOOSE k \in 0..n : 2^k = n

SupersTotal == 1 + MAX_NELMTS_BITS - Log2Of2(DATA_BLK_MIN_ELMTS)
LeadingSupers == Min({2 * Log2Of2(SUP_BLK_MIN_DATA_PTRS), SupersTotal})
BlockAddrs == 2 * (SUP_BLK_MIN_DATA_PTRS - 1)
SuperAddrs == SupersTotal - LeadingSupers

\* Mutant: the exponent of a block's length rounded down.
ShortBlocks ==
    LET sblks[u \in 0..(SupersTotal - 1)] ==
            LET before == sblks[u - 1]
            IN  [ndblks |-> 2^(u \div 2),
                 dblk_nelmts |-> 2^(u \div 2) * DATA_BLK_MIN_ELMTS,
                 start_idx |-> IF u = 0 THEN 0 ELSE before.start_idx + before.ndblks * before.dblk_nelmts]
    IN  sblks

\* super_block_table, by running totals; counting super blocks from 0.
SuperBlockTable ==
    LET sblks[u \in 0..(SupersTotal - 1)] ==
            LET before == sblks[u - 1]
            IN  [ndblks |-> 2^(u \div 2),
                 dblk_nelmts |-> 2^((u + 1) \div 2) * DATA_BLK_MIN_ELMTS,
                 start_idx |-> IF u = 0 THEN 0 ELSE before.start_idx + before.ndblks * before.dblk_nelmts]
    IN  sblks

\* Elements of a run, and the number of the first.
ElementRun(slots, first_index) == [slots |-> slots, first_index |-> first_index]

\* element_base
ElementBase(u, k) ==
    k * SuperBlockTable[u].dblk_nelmts + SuperBlockTable[u].start_idx + IDX_BLK_ELMTS

Pages(u) == IF SuperBlockTable[u].dblk_nelmts > PAGE_NELMTS
            THEN CeilDiv(SuperBlockTable[u].dblk_nelmts, PAGE_NELMTS) ELSE 0

\* push_data_block: the runs of one data block, a run per page that was written.  Bits
\* of the pages count through the blocks of the super block.
BlockRuns(block, u, k, page_init) ==
    LET nelmts == SuperBlockTable[u].dblk_nelmts
        Page(p) == ElementRun(SubSeq(block.slots, p * PAGE_NELMTS + 1, Min({nelmts, (p + 1) * PAGE_NELMTS})),
                              ElementBase(u, k) + p * PAGE_NELMTS)
        set == {p \in 0..(Pages(u) - 1) : k * Pages(u) + p \in page_init}
    IN  CASE block = NoBlock -> <<>>
          [] Pages(u) = 0 -> <<ElementRun(SubSeq(block.slots, 1, nelmts), ElementBase(u, k))>>
          [] OTHER -> LET pages == SetToSortSeq(set, <) IN [i \in DOMAIN pages |-> Page(pages[i])]

\* The leading super blocks' data blocks are the index block's, in turn, as far as it
\* has addresses; <<u, k>> is block k of super block u.  Under libhdf5's parameters none
\* of them is paged, which the reader would refuse.
LeadingBlocks ==
    LET all == FlattenSeq([i \in 1..LeadingSupers |->
                   [j \in 1..SuperBlockTable[i - 1].ndblks |-> <<i - 1, j - 1>>]])
    IN  SubSeq(all, 1, Min({Len(all), BlockAddrs}))

\* The inline elements, then the blocks the index block leads to.
OpenExtensible ==
    /\ Opening("extensible")
    /\ phase' = "runs"
    /\ runs' = <<ElementRun([i \in 1..IDX_BLK_ELMTS |-> Slot(i - 1)], 0)>>
               \o FlattenSeq([n \in DOMAIN LeadingBlocks |->
                      BlockRuns(DirectBlock(n), LeadingBlocks[n][1], LeadingBlocks[n][2], {})])
    /\ supers' = SelectSeq([j \in 1..SuperAddrs |-> LeadingSupers + j - 1],
                           LAMBDA u : SuperBlock(u) # NoBlock)
    /\ UNCHANGED <<ds, nodes, visits, records>>

ReadSuperBlock ==
    /\ phase = "runs" /\ supers # <<>>
    /\ LET u == Head(supers)
           block == SuperBlock(u)
       IN  IF block.offset = SuperBlockTable[u].start_idx
           THEN /\ runs' = runs \o FlattenSeq([k \in 1..SuperBlockTable[u].ndblks |->
                                       BlockRuns(block.blocks[k], u, k - 1, block.page_init)])
                /\ UNCHANGED phase
           ELSE phase' = "failed" /\ UNCHANGED runs
    /\ supers' = Tail(supers)
    /\ UNCHANGED <<ds, nodes, visits, records>>

\* ElementLocator: strides over the grid of the maximum dimensions, the unlimited one
\* in front; that one's extent is never needed.
UnlimitedDim == CHOOSE d \in Rank : Len(ds.dims) = 1 \/ ds.max_dims[d] = UNLIMITED

LocatorStrides ==
    IF Len(ds.dims) = 1 THEN <<1>>
    ELSE Strides(Rotated([d \in Rank |-> IF d = UnlimitedDim THEN 0
                                         ELSE CeilDiv(ds.max_dims[d], ds.chunk_dims[d])], UnlimitedDim))

\* offsets_for, up to the scaling: divided down, and the rotation undone.
Coordinates(index) ==
    LET Rest(d) == IF d = 1 THEN index ELSE index % LocatorStrides[d - 1]
        swizzled == [d \in Rank |-> Rest(d) \div LocatorStrides[d]]
    IN  SubSeq(swizzled, 2, UnlimitedDim) \o <<swizzled[1]>>
        \o SubSeq(swizzled, UnlimitedDim + 1, Len(swizzled))

\* A chunk outside the current shape is passed over.
InShape(coords) == \A d \in Rank : coords[d] * ds.chunk_dims[d] < ds.dims[d]

\* decode_element: nothing of a slot that was never allocated.
IsAllocated(slot) == slot # NoChunk

\* push_record, for a run.
DecodeRun ==
    /\ phase = "runs" /\ supers = <<>> /\ runs # <<>>
    /\ LET run == Head(runs)
           index(i) == run.first_index + i - 1
           kept == SelectSeq([i \in DOMAIN run.slots |-> i],
                             LAMBDA i : IsAllocated(run.slots[i]) /\ InShape(Coordinates(index(i))))
       IN  records' = records \o [n \in DOMAIN kept |->
                                     Record(run.slots[kept[n]], Coordinates(index(kept[n])))]
    /\ runs' = Tail(runs)
    /\ UNCHANGED <<ds, phase, nodes, visits, supers>>

FinishExtensible ==
    /\ phase = "runs" /\ supers = <<>> /\ runs = <<>>
    /\ phase' = "read"
    /\ UNCHANGED <<ds, nodes, visits, supers, runs, records>>

Next == \/ NothingWritten
        \/ ReadSingle
        \/ ReadImplicit
        \/ ReadFixed
        \/ OpenTree
        \/ WalkTree
        \/ FailTree
        \/ FinishTree
        \/ OpenExtensible
        \/ ReadSuperBlock
        \/ DecodeRun
        \/ FinishExtensible

Spec == Init /\ [][Next]_vars

-----------------------------------------------------------------------------
(* Properties *)

\* Whatever the index, every chunk that was written and lies in the current shape gives
\* one record, with its own address and offsets, and nothing else gives one: no slot of
\* a page that was never written, no chunk a shrunk dataset left behind ("Getting it
\* wrong silently mis-attributes elements to chunks", ea_index/header.rs).  Reading fails
\* on a tree alone, one whose inner nodes count records in one byte, as libhdf5's do; and
\* chunks whose records are in inner nodes are left out, as links are (DenseLinks).
ReadsWhatWasWritten ==
    /\ phase = "failed" => \E addr \in Tree!InnerNodes : ~Tree!IsWide(addr)
    /\ phase = "read" =>
           LET live == {coords \in ds.written : InShape(coords)} \ Tree!Inner
           IN  /\ Len(records) = Cardinality(live)
               /\ ToSet(records) = {Record(coords, coords) : coords \in live}

\* Of the maximum dimensions "only the extensible-array index needs them"
\* (chunked/index.rs:73-74): under every other index a dataset reads back without them.
NeedsNoMaxDims == ds.index # "extensible" => ReadsWhatWasWritten
=============================================================================
