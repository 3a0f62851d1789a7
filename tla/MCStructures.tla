----------------------------- MODULE MCStructures -----------------------------
(* How objects are stored and the structures they are found by, in one run: a   *)
(* behaviour is of the storage of a dataset, of the global heap, of the chunk   *)
(* index of a dataset, of the symbol table of a group, of a group with dense    *)
(* links, of a version-4 chunk index, or of a netCDF file written and read;     *)
(* they share nothing.                                                          *)
(*                                                                              *)
(* Chunk grids: one to three dimensions, divisible and ragged, empty, one       *)
(* chunk, and a tile wider than its growth dimension.  Groups of up to Long     *)
(* members: lookups and listings depend on how the creation order, the name     *)
(* order and the soft links fall, and on the number of members; the names left  *)
(* out are the ones a lookup must not find.  Dense links and version-4 indexes  *)
(* are described in DenseGroups and IndexedDatasets.                            *)
EXTENDS GlobalHeap, DatasetStorage, ChunkIndex, GroupIndex, NetcdfRoundTrip, Functions,
        DenseGroups, IndexedDatasets

CONSTANT Kinds  \* what is tried

CONSTANTS
    ShortName,  \* the names of the short lists
    Short,      \* members of a short list at most
    Long        \* members of a long list at most, one over MAX_GROUP_LINKS

\* Of dense links and version-4 indexes.
CONSTANTS
    MIN_BLOCK_SIZE, MAX_DIRECT_BLOCK_SIZE, DIRECT_BLOCK_HEADER, MAX_OBJECT_SIZE,
    NameHash, LinkList, LibGroup,
    MAX_COMPACT_LINKS, NODE_SIZE_UNIT, LEAF_PREFIX, RECORD_SIZE, CHECKSUM_SIZE,
    Indexed,
    IDX_BLK_ELMTS, DATA_BLK_MIN_ELMTS, SUP_BLK_MIN_DATA_PTRS, MAX_NELMTS_BITS, PAGE_NELMTS

\* Dense links share the variables of the version-1 trees and of groups as far as they
\* have them, and version-4 indexes those of chunk indexes.
VARIABLES
    kind,                      \* "dataset", "heap", "chunks", "group", "links", "array"
                               \* or "netcdf"
    compact, index, pending, listed,   \* of dense links only
    supers, runs                       \* of a version-4 index only

\* Of datasets: a scalar, an empty dimension, one to three dimensions; chunks that fit, are
\* short, hang over, are zero, are too large and have too many dimensions; and too many of
\* them, extents and bytes that are too large to write, and one dimension too many.
StoredShapes == {<<>>, <<0>>, <<3>>, <<2, 3>>, <<1, 1, 1>>}
ChunkRequests == {<<>>, <<0>>, <<2>>, <<4>>, <<18>>, <<1>>, <<1, 1>>, <<2, 2>>, <<1, 1, 1>>}
BytesOf == [elem \in ElemSort |-> IF elem = "numeric" THEN 2 ELSE 3]

\* DEFLATE gains on zeroes, and loses where there are none.
DeflatedBytes(tile) == IF Contains(tile, "zero") THEN 1 ELSE 2 * Len(tile) + 1

Links == INSTANCE DenseLinks WITH Name <- LinkName
Array == INSTANCE ArrayIndex WITH ds <- indexed

ofHeap == <<start, objects, packing, reading>>
ofIndexing == <<indexed, indexing>>
ofWalks == <<visits, records>>
ofMembers == <<members, heap>>
ofTables == <<tabling, entries, inSnod>>
ofLinks == <<compact, index, pending, listed>>
ofArrays == <<supers, runs>>
ofLevels == <<levels, level, below>>
ofStructures == <<phase, ofHeap, storageVars, ofIndexing, ofWalks, ofMembers, ofTables, ofLinks, ofArrays,
                  ofLevels, nodes, seeking>>
ofNetcdf == <<dims, ncvars, groups, calls, stage, file, pass, paths, visited, global_dims, tree>>

NoHeap == /\ start = 0 /\ objects = <<>> /\ collections = <<>> /\ filled = <<>>
          /\ current = <<>> /\ content_used = 0 /\ locations = <<>>
          /\ asked = 0 /\ pos = 0 /\ parsed = <<>> /\ answer = NoAnswer
NotIndexing == indexed = [origins |-> <<>>, end |-> <<>>] /\ indexing = "idle"
NoWalks == visits = <<>> /\ records = <<>>
NoMembers == members = <<>> /\ heap = <<>>
NoTable == tabling = "idle" /\ entries = <<>> /\ inSnod = FALSE
NoLinks == compact = <<>> /\ index = <<>> /\ pending = <<>> /\ listed = <<>>
NoArrays == supers = <<>> /\ runs = <<>>
NoLevels == levels = <<>> /\ level = 0 /\ below = <<>>
NoSearch == search = <<>> /\ wanted = <<>> /\ found = 0
NoStructure ==
    /\ phase = "idle" /\ NoHeap /\ StorageInit /\ NotIndexing /\ NoWalks /\ NoMembers /\ NoTable
    /\ NoLinks /\ NoArrays /\ NoLevels /\ nodes = <<>> /\ NoSearch

StructureInit ==
    /\ StorageInit
    /\ \/ /\ kind = "dataset" /\ phase = "idle"
          /\ NoHeap /\ NotIndexing /\ NoWalks /\ NoMembers /\ NoTable /\ NoLinks
          /\ NoArrays /\ NoLevels /\ nodes = <<>> /\ NoSearch
       \/ /\ kind = "heap" /\ Init
          /\ NotIndexing /\ NoWalks /\ NoMembers /\ NoTable /\ NoLinks
          /\ NoArrays /\ NoLevels /\ nodes = <<>> /\ NoSearch
       \/ /\ kind = "chunks" /\ IndexInit /\ phase = "idle"
          /\ NoHeap /\ NoMembers /\ NoTable /\ NoLinks /\ NoArrays
       \/ /\ kind = "group" /\ GroupInit /\ phase = "idle"
          /\ NoHeap /\ NotIndexing /\ NoWalks /\ NoLinks /\ NoArrays
       \/ /\ kind = "links" /\ Links!Init
          /\ NoHeap /\ NotIndexing /\ NoTable /\ NoArrays /\ NoLevels
       \/ /\ kind = "array" /\ Array!Init /\ indexing = "idle"
          /\ NoHeap /\ NoMembers /\ NoTable /\ NoLinks /\ NoLevels /\ NoSearch

StructureNext ==
    \/ /\ kind = "dataset" /\ StorageNext
       /\ UNCHANGED <<phase, ofHeap, ofIndexing, ofWalks, ofMembers, ofTables, ofLinks, ofArrays,
                      ofLevels, nodes, seeking>>
    \/ /\ UNCHANGED storageVars
       /\ \/ /\ kind = "heap" /\ Next
             /\ UNCHANGED <<ofIndexing, ofWalks, ofMembers, ofTables, ofLinks, ofArrays, ofLevels,
                            nodes, seeking>>
          \/ /\ kind = "chunks" /\ IndexNext
             /\ UNCHANGED <<phase, ofHeap, ofMembers, ofTables, ofLinks, ofArrays>>
          \/ /\ kind = "group" /\ GroupNext
             /\ UNCHANGED <<phase, ofHeap, ofIndexing, ofWalks, ofLinks, ofArrays>>
          \/ /\ kind = "links" /\ Links!Next
             /\ UNCHANGED <<ofHeap, ofIndexing, ofTables, ofArrays, ofLevels>>
          \/ /\ kind = "array" /\ Array!Next
             /\ UNCHANGED <<indexing, ofHeap, ofMembers, ofTables, ofLinks, ofLevels, seeking>>

AnyInit ==
    /\ kind \in Kinds
    /\ \/ StructureInit /\ NcInit /\ Reader!Idle
       \/ kind = "netcdf" /\ NoStructure /\ RoundTripInit

AnyNext ==
    /\ UNCHANGED kind
    /\ \/ StructureNext /\ UNCHANGED ofNetcdf
       \/ kind = "netcdf" /\ RoundTripNext /\ UNCHANGED ofStructures

AnySpec == AnyInit /\ [][AnyNext]_<<kind, ofStructures, ofNetcdf>>

-----------------------------------------------------------------------------
(* Grids *)

OneDimensional == [shape: {<<n>> : n \in 0..9}, chunk_shape: {<<1>>, <<2>>}]

TwoDimensional == [shape: {<<m, n>> : m \in 0..4, n \in 0..5},
                   chunk_shape: {<<1, 1>>, <<1, 2>>, <<2, 1>>, <<2, 2>>, <<5, 1>>}]

ThreeDimensional == [shape: {<<k, m, n>> : k \in 1..2, m \in 1..2, n \in 1..3},
                     chunk_shape: {<<1, 1, 1>>, <<1, 2, 2>>}]

MCGrid == OneDimensional \cup TwoDimensional \cup ThreeDimensional

-----------------------------------------------------------------------------
(* Groups: every order, choice and kind of a few names, and longer lists in *)
(* three orders.                                                            *)

ShortLists ==
    UNION {{[i \in 1..n |-> [name |-> order[i], soft |-> soft[i]]] :
                order \in {o \in [1..n -> ShortName] : IsInjective(o)}, soft \in [1..n -> BOOLEAN]} :
           n \in 0..Short}

LongLists ==
    UNION {{[i \in 1..n |-> [name |-> 2 * i - 1, soft |-> i % 3 = 0]],
            [i \in 1..n |-> [name |-> 2 * (n - i) + 1, soft |-> i % 2 = 0]],
            [i \in 1..n |-> [name |-> IF i % 2 = 0 THEN i ELSE 2 * n - i, soft |-> FALSE]]} :
           n \in (Short + 1)..Long}

MCMemberList == ShortLists \cup LongLists

-----------------------------------------------------------------------------
(* netCDF files: fixed and unlimited dimensions, variables that share them,     *)
(* coordinate variables, a variable that has a dimension's name but is on       *)
(* another, and every way of treating data: native, converted, strings, and a   *)
(* type that cannot be written.                                                 *)

Dim(name, size, unlimited) == [name |-> name, size |-> size, unlimited |-> unlimited]
Var(name, dim_ids, nc_type) == [name |-> name, dim_ids |-> dim_ids, nc_type |-> nc_type]

DimDefs == {Dim("x", 0, TRUE), Dim("x", 2, TRUE), Dim("x", 2, FALSE),
            Dim("y", 2, FALSE), Dim("y", 1, TRUE), Dim("y", 9, TRUE)}

VarDefs == {Var("x", <<1>>, "Float64"), Var("x", <<2, 1>>, "Int64"), Var("y", <<2>>, "String"),
            Var("v", <<1>>, "Float64"), Var("v", <<1, 2>>, "Float64"), Var("v", <<2, 2>>, "Int32"),
            Var("w", <<1>>, "Int32"), Var("w", <<1, 2>>, "String"), Var("w", <<1>>, "Int16"),
            Var("w", <<>>, "Float32"), Var("w", <<1, 2, 2>>, "Int32"),
            Var("w", <<1, 2, 2, 2>>, "Float32")}

\* Histories of three calls only of data that fits, appended along dimensions that
\* can grow, without groups, and written only.
ShortUnlessDocumented ==
    kind = "netcdf" =>
        /\ Len(calls) >= 2 => /\ groups = <<>>
                              /\ AppendsAreAlongUnlimited
                              /\ \A i \in DOMAIN ncvars : KindsFit(i)
        /\ Len(calls) >= 3 => pass = "idle"

-----------------------------------------------------------------------------
(* The properties of dense links and of version-4 indexes; those of the others  *)
(* hold of what is not there.                                                   *)

\* The heap and the leaf of a dense group fill what was reserved for them, a search by
\* hash finds a link exactly if there is one of that name, and all links are listed
\* wherever they are stored (build_link_storage, fractal_heap.rs).  An index of version 4
\* gives the chunks that were written, each where it belongs, and no other.
ModernIndexesReadBack ==
    /\ kind = "links" => Links!FitsReservation /\ Links!FoundIffMember /\ Links!ListsLeafLinks
    /\ kind = "array" => Array!ReadsWhatWasWritten

\* Where a chunk is depends on the dataset's dimensions as they are, and not on how far it
\* may grow (index_datasets, read_v4_chunked_element).
NeedsNoMaxDims == kind = "array" => Array!NeedsNoMaxDims

\* A dense group lists every link of it (enumerate_link_refs).
ListsEveryLink == kind = "links" => Links!ListsEveryLink
=============================================================================
