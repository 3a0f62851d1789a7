------------------------------- MODULE ChunkRead -------------------------------
(***************************************************************************)
(* A read of a dataset of an open file: all of it, a slice, or a hyperslab  *)
(* (slicing.rs and reader.rs of oxih5; chunked/read.rs, chunked/slice.rs,  *)
(* chunked_hyperslab.rs and hyperslab.rs of oxih5-format).  A slice or     *)
(* hyperslab of a chunked dataset decodes only the chunks under it, any    *)
(* number at a time and in any order, and then scatters them into the      *)
(* buffer it returns; every other read loads all of the dataset first and  *)
(* takes its elements from there.                                          *)
(* Built without the "parallel" feature a read decodes and scatters one    *)
(* chunk after the other: the same, but for a buffer that a read which     *)
(* fails throws away.                                                      *)
(*                                                                         *)
(* An element of the dataset is known by its coordinates.  A chunk's       *)
(* record says where the chunk starts and whether it can be read and       *)
(* decoded.  A selection of another rank than the dataset's is refused by  *)
(* every read and left out.                                                *)
(***************************************************************************)
EXTENDS ChunkGeometry, FiniteSets

CONSTANTS
    Dataset,    \* [chunked, dims, chunk_dims, records], records in index order
    Ranges,     \* slices: [start, end] in every dimension
    Selection,  \* hyperslabs: [start, stride, count, block] in every dimension
    Fill,       \* the fill value
    Zero        \* bytes nothing was written to

\* Datasets of at least one dimension; chunks lie on the grid and within the extent.
ASSUME ReadAssumption ==
    /\ \A s \in Dataset :
           /\ s.chunked \in BOOLEAN /\ s.dims \in Seq(Nat) /\ Len(s.dims) > 0
           /\ s.records \in Seq([offsets : Seq(Nat), readable : BOOLEAN])
           /\ IF s.chunked
              THEN /\ s.chunk_dims \in Seq(Nat \ {0}) /\ Len(s.chunk_dims) = Len(s.dims)
                   /\ \A r \in DOMAIN s.records :
                          LET offsets == s.records[r].offsets
                          IN  /\ Len(offsets) = Len(s.dims)
                              /\ \A d \in DOMAIN s.dims :
                                    offsets[d] % s.chunk_dims[d] = 0 /\ offsets[d] < s.dims[d]
              ELSE s.records = <<>>
    /\ Ranges \subseteq Seq([start : Nat, end : Nat])
    /\ Selection \subseteq Seq([start : Nat, stride : Nat, count : Nat, block : Nat])

VARIABLES
    ds,       \* the dataset
    call,     \* the read made of it
    phase,    \* "idle", "load" or "returned"
    waiting,  \* the chunks still to decode
    tiles,    \* the decoded ones
    cells,    \* origins of the chunks left to scatter
    output,
    returned  \* its answer

readVars == <<ds, call, phase, waiting, tiles, cells, output, returned>>

Failure == [ok |-> FALSE, data |-> <<>>]
Success(data) == [ok |-> TRUE, data |-> data]

Dims == DOMAIN ds.dims
Elements(shape) == 1..Volume(shape)
\* The coordinates of a box from `start`, in row-major order.
At(start, shape, n) == [d \in DOMAIN shape |-> start[d] + Unflatten(n - 1, shape)[d]]
Origin0 == [d \in Dims |-> 0]

-----------------------------------------------------------------------------
(* Selections *)

Smaller(a, b) == IF a <= b THEN a ELSE b
Larger(a, b) == IF a <= b THEN b ELSE a

\* bounding_ranges, and a slice's own ranges.
IsEmpty(s) == s.count = 0 \/ s.block = 0
Bound(op, s) ==
    IF op = "slice" THEN s
    ELSE IF IsEmpty(s) THEN [start |-> 0, end |-> 0]
    ELSE [start |-> s.start, end |-> s.start + (s.count - 1) * s.stride + s.block]
Bounds(op, sel) == [d \in Dims |-> Bound(op, sel[d])]

\* n_elements
Extent(op, s) == IF op = "slice" THEN s.end - s.start ELSE s.count * s.block
OutShape(op, sel) == [d \in Dims |-> Extent(op, sel[d])]

InBounds(op, sel) == \A d \in Dims : Bound(op, sel[d]).end <= ds.dims[d]

\* A range must not be reversed, nor a stride that is used be 0.
Valid(op, s) == IF op = "slice" THEN s.start <= s.end ELSE IsEmpty(s) \/ s.stride > 0
Nothing(op, sel) ==
    \E d \in Dims : IF op = "slice" THEN sel[d].start = sel[d].end ELSE IsEmpty(sel[d])

\* contains
IsSelected(op, s, i) ==
    \/ op = "slice"
    \/ /\ i >= s.start
       /\ (i - s.start) \div s.stride < s.count
       /\ (i - s.start) % s.stride < s.block

\* Where the elements of a dimension come to lie in the output.
PlaceOf(op, s, i) ==
    IF op = "slice" THEN i - s.start
    ELSE ((i - s.start) \div s.stride) * s.block + ((i - s.start) % s.stride)

-----------------------------------------------------------------------------
(* Chunks *)

CellOf(i, d) == (i \div ds.chunk_dims[d]) * ds.chunk_dims[d]

\* The cells of the chunk grid that overlap the bounds, in row-major order.
CellsUnder(bounds) ==
    LET first == [d \in Dims |-> CellOf(bounds[d].start, d)]
        counts == [d \in Dims |-> (CellOf(bounds[d].end - 1, d) - first[d])
                                      \div ds.chunk_dims[d] + 1]
    IN  [n \in Elements(counts) |->
            [d \in Dims |-> first[d] + Unflatten(n - 1, counts)[d] * ds.chunk_dims[d]]]

\* Mutant: every chunk is decoded whatever is asked for.
AllRecords(origins) == Range(ds.records)

\* Only the chunks under the selection are decoded.
RecordsAt(origins) == {rec \in Range(ds.records) : rec.offsets \in Range(origins)}

DecodedTile(rec) ==
    [n \in Elements(ds.chunk_dims) |-> At(rec.offsets, ds.chunk_dims, n)]

\* Mutant: chunks nobody wrote read as zeros.
ZeroTile == [n \in Elements(ds.chunk_dims) |-> Zero]

SparseTile == [n \in Elements(ds.chunk_dims) |-> Fill]

Tile(origin) ==
    IF \E rec \in DOMAIN tiles : rec.offsets = origin
    THEN tiles[CHOOSE rec \in DOMAIN tiles : rec.offsets = origin]
    ELSE SparseTile

\* What a chunk has of the elements between `lo` and `hi`.
Overlap(origin, lo, hi) ==
    LET from == [d \in Dims |-> Larger(lo[d], origin[d])]
        to == [d \in Dims |-> Smaller(hi[d], origin[d] + ds.chunk_dims[d])]
        shape == [d \in Dims |-> to[d] - from[d]]
    IN  IF \E d \in Dims : from[d] >= to[d] THEN {}
        ELSE {At(from, shape, n) : n \in Elements(shape)}

\* Copy elements of the chunk at `origin` to the places they are given.
CopyInto(out, origin, places) ==
    LET tile == Tile(origin)
    IN  [i \in DOMAIN out |->
            IF \E g \in DOMAIN places : places[g] = i
            THEN LET g == CHOOSE g \in DOMAIN places : places[g] = i
                 IN  tile[Flatten([d \in Dims |-> g[d] - origin[d]], ds.chunk_dims) + 1]
            ELSE out[i]]

\* scatter_chunk
ScatterWhole(origin) ==
    CopyInto(output, origin,
             [g \in Overlap(origin, Origin0, ds.dims) |-> Flatten(g, ds.dims) + 1])

\* scatter_chunk_slice and scatter_chunk_hyperslab
ScatterSelected(origin) ==
    LET bounds == Bounds(call.op, call.sel)
        chosen == {g \in Overlap(origin, [d \in Dims |-> bounds[d].start],
                                 [d \in Dims |-> bounds[d].end]) :
                       \A d \in Dims : IsSelected(call.op, call.sel[d], g[d])}
    IN  CopyInto(output, origin,
                 [g \in chosen |-> Flatten([d \in Dims |-> PlaceOf(call.op, call.sel[d], g[d])],
                                           OutShape(call.op, call.sel)) + 1])

-----------------------------------------------------------------------------
(* A read *)

ReadInit ==
    /\ ds \in Dataset
    /\ call = [op |-> "none", sel |-> <<>>]
    /\ phase = "idle"
    /\ waiting = {}
    /\ tiles = [rec \in {} |-> <<>>]
    /\ cells = <<>>
    /\ output = <<>>
    /\ returned = Success(<<>>)

Lazy(op, sel) == ds.chunked /\ op # "all" /\ InBounds(op, sel)

Start(op, sel, records, origins, buffer) ==
    /\ call' = [op |-> op, sel |-> sel]
    /\ phase' = "load"
    /\ waiting' = records
    /\ tiles' = [rec \in {} |-> <<>>]
    /\ cells' = origins
    /\ output' = buffer
    /\ returned' = Success(<<>>)
    /\ UNCHANGED ds

Answer(outcome) ==
    /\ phase' = "returned"
    /\ waiting' = {}
    /\ tiles' = [rec \in {} |-> <<>>]
    /\ cells' = <<>>
    /\ output' = <<>>
    /\ returned' = outcome
    /\ UNCHANGED ds

\* read_chunked and a contiguous dataset's data, for every read that is not lazy.
ReadWhole(op, sel) ==
    /\ phase = "idle" /\ ~Lazy(op, sel)
    /\ IF ds.chunked
       THEN Start(op, sel, Range(ds.records),
                  [r \in DOMAIN ds.records |-> ds.records[r].offsets],
                  [i \in Elements(ds.dims) |-> Fill])
       ELSE Start(op, sel, {}, <<>>, [i \in Elements(ds.dims) |-> At(Origin0, ds.dims, i)])

\* read_chunked_slice and read_chunked_hyperslab
ReadLazily(op, sel) ==
    /\ phase = "idle" /\ Lazy(op, sel)
    /\ \/ /\ \E d \in Dims : ~Valid(op, sel[d])
          /\ Answer(Failure)
          /\ call' = [op |-> op, sel |-> sel]
       \/ /\ \A d \in Dims : Valid(op, sel[d])
          /\ Nothing(op, sel)
          /\ Answer(Success(<<>>))
          /\ call' = [op |-> op, sel |-> sel]
       \/ /\ \A d \in Dims : Valid(op, sel[d])
          /\ ~Nothing(op, sel)
          /\ LET origins == CellsUnder(Bounds(op, sel))
             IN  Start(op, sel, RecordsAt(origins), origins,
                       [i \in Elements(OutShape(op, sel)) |-> Zero])

\* Chunks are decoded by any threads in any order.
DecodeChunk(rec) ==
    /\ phase = "load" /\ rec \in waiting /\ rec.readable
    /\ waiting' = waiting \ {rec}
    /\ tiles' = [r \in DOMAIN tiles \cup {rec} |-> DecodedTile(r)]
    /\ UNCHANGED <<ds, call, phase, cells, output, returned>>

\* One chunk that cannot be read or decoded fails the read.
DecodeFails(rec) ==
    /\ phase = "load" /\ rec \in waiting /\ ~rec.readable
    /\ Answer(Failure)
    /\ UNCHANGED call

ScatterNext ==
    /\ phase = "load" /\ waiting = {} /\ cells # <<>>
    /\ output' = IF Lazy(call.op, call.sel)
                 THEN ScatterSelected(Head(cells)) ELSE ScatterWhole(Head(cells))
    /\ cells' = Tail(cells)
    /\ UNCHANGED <<ds, call, phase, waiting, tiles, returned>>

Loaded == phase = "load" /\ waiting = {} /\ cells = <<>>

\* The read was of all the dataset, or scattered just what it selects.
ReturnOutput ==
    /\ Loaded /\ (call.op = "all" \/ Lazy(call.op, call.sel))
    /\ Answer(Success(output))
    /\ UNCHANGED call

\* An element of the buffer; past its end the output keeps its zero.
Loading(g) == LET flat == Flatten(g, ds.dims)
              IN  IF flat < Len(output) THEN output[flat + 1] ELSE Zero

\* Dataset::slice, from everything.
SliceLoaded ==
    /\ Loaded /\ call.op = "slice" /\ ~Lazy("slice", call.sel)
    /\ IF (\A d \in Dims : Valid("slice", call.sel[d])) /\ InBounds("slice", call.sel)
       THEN LET shape == OutShape("slice", call.sel)
                start == [d \in Dims |-> call.sel[d].start]
            IN  Answer(Success([i \in Elements(shape) |-> Loading(At(start, shape, i))]))
       ELSE Answer(Failure)
    /\ UNCHANGED call

\* gather_hyperslab_contiguous, from everything: bounds are not looked at again.
Gathered(s, i) == s.start + (i \div s.block) * s.stride + (i % s.block)
GatherLoaded ==
    /\ Loaded /\ call.op = "hyperslab" /\ ~Lazy("hyperslab", call.sel)
    /\ IF \A d \in Dims : Valid("hyperslab", call.sel[d])
       THEN LET shape == OutShape("hyperslab", call.sel)
                From(i) == [d \in Dims |-> Gathered(call.sel[d], Unflatten(i - 1, shape)[d])]
            IN  Answer(Success([i \in Elements(shape) |-> Loading(From(i))]))
       ELSE Answer(Failure)
    /\ UNCHANGED call

Step ==
    \/ \E rec \in waiting : DecodeChunk(rec) \/ DecodeFails(rec)
    \/ ScatterNext
    \/ ReturnOutput
    \/ SliceLoaded
    \/ GatherLoaded

\* One read: it leaves nothing behind but what ChunkCache is about.
ReadNext ==
    \/ ReadWhole("all", <<>>)
    \/ \E sel \in Ranges :
           Len(sel) = Len(ds.dims) /\ (ReadWhole("slice", sel) \/ ReadLazily("slice", sel))
    \/ \E sel \in Selection :
           Len(sel) = Len(ds.dims)
               /\ (ReadWhole("hyperslab", sel) \/ ReadLazily("hyperslab", sel))
    \/ Step

ReadSpec == ReadInit /\ [][ReadNext]_readVars

-----------------------------------------------------------------------------
(* Properties *)

\* The indices a dimension selects: { start + k*stride + j : 0 <= k < count,
\* 0 <= j < block } (hyperslab.rs:10).
Selected(op, s) ==
    IF op = "slice" THEN s.start..(s.end - 1)
    ELSE {s.start + k * s.stride + j : k \in 0..(s.count - 1), j \in 0..(s.block - 1)}

SelectedBy(c) ==
    [d \in Dims |-> IF c.op = "all" THEN 0..(ds.dims[d] - 1) ELSE Selected(c.op, c.sel[d])]

\* Indices from the lowest to the highest.
Ascending(indices) ==
    [i \in 1..Cardinality(indices) |->
        CHOOSE x \in indices : Cardinality({y \in indices : y < x}) = i - 1]

\* The value an element of the dataset has.
ValueAt(g) ==
    IF ~ds.chunked \/ \E rec \in Range(ds.records) :
                          \A d \in Dims : CellOf(g[d], d) = rec.offsets[d]
    THEN g ELSE Fill

\* The selected elements in row-major order.
Meant(c) ==
    LET indices == [d \in Dims |-> Ascending(SelectedBy(c)[d])]
        shape == [d \in Dims |-> Len(indices[d])]
    IN  [i \in Elements(shape) |->
            ValueAt([d \in Dims |-> indices[d][Unflatten(i - 1, shape)[d] + 1]])]

\* A request for elements the dataset has, each once.
Disjoint(s) == s.count <= 1 \/ s.block <= s.stride
Sensible(c) ==
    \/ c.op = "all"
    \/ c.op = "slice" /\ InBounds("slice", c.sel) /\ \A d \in Dims : Valid("slice", c.sel[d])
    \/ /\ c.op = "hyperslab" /\ InBounds("hyperslab", c.sel)
       /\ \A d \in Dims : Valid("hyperslab", c.sel[d]) /\ Disjoint(c.sel[d])

Returned == phase = "returned"

\* A block that reaches past the start of the next.
OverlongBlocks(c) == c.op = "hyperslab" /\ \E d \in Dims : c.sel[d].block > c.sel[d].stride

\* Every read that succeeds returns exactly the elements it selects, in order,
\* whichever route it takes, however they straddle chunks, with the fill value for
\* what was never written: slices and hyperslabs agree with the full read.
\* Blocks longer than the stride are the subject of BlocksAreWhole.
AnswersAreExact ==
    Returned /\ returned.ok /\ Sensible(call) /\ ~OverlongBlocks(call) => returned.data = Meant(call)

\* The same for blocks longer than the stride, of which there can be only one:
\* "The resulting selected element indices in that dimension are ..." (hyperslab.rs:8).
BlocksAreWhole ==
    Returned /\ returned.ok /\ Sensible(call) => returned.data = Meant(call)

\* A read fails exactly if a chunk that cannot be read lies under what it selects:
\* damage elsewhere in the dataset is never met, and damage under it never yields
\* data, in whatever order the chunks are decoded.
UnderDamage(c) ==
    LET bounds == [d \in Dims |-> IF c.op = "all" THEN [start |-> 0, end |-> ds.dims[d]]
                                                  ELSE Bound(c.op, c.sel[d])]
    IN  /\ c.op = "all" \/ ~Nothing(c.op, c.sel)
        /\ \E rec \in Range(ds.records) :
               /\ ~rec.readable
               /\ Overlap(rec.offsets, [d \in Dims |-> bounds[d].start],
                          [d \in Dims |-> bounds[d].end]) # {}
FailsIffDamaged ==
    Returned /\ Sensible(call) => (returned.ok <=> ~UnderDamage(call))

\* Every read is right about the elements and about the damage.
ReadsAreExact == AnswersAreExact /\ FailsIffDamaged
=============================================================================
