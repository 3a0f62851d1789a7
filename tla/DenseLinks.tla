------------------------------ MODULE DenseLinks ------------------------------
(***************************************************************************)
(* The links of one new-style group.  build_link_storage of write/plan.rs  *)
(* keeps them in the object header, or plans a fractal heap of them and a  *)
(* name index over it (write/btree_v2.rs); emit_dense_links of             *)
(* write/build.rs writes both.  Afterwards libhdf5 looks a name up by its  *)
(* hash, and oxih5 lists the group (list_new_style_links of                *)
(* oxih5-format/src/group.rs): it walks the name index for heap IDs, reads *)
(* the object each leads to, and adds the header's links.                  *)
(* The groups to be listed can be libhdf5's, too.                          *)
(*                                                                         *)
(* A link is its number among the members; its bytes are that number and   *)
(* their length.  Messages and blocks that do not parse are left out, but  *)
(* for a block of the other kind than the reader took it for.              *)
(***************************************************************************)
EXTENDS BTreeV1, FractalHeap

CONSTANTS
    Name,               \* names of links, ordered as the raw bytes are
    NameHash,           \* link_name_hash: a function of the names
    LinkList,           \* groups to write: sequences of [name, size], in emission order
    LibGroup,           \* groups of libhdf5: [start, max_direct, rows, placed, readable, strays,
                        \*   split, leaf_records]
    MAX_COMPACT_LINKS,  \* 8 in the code
    NODE_SIZE_UNIT,     \* 512 in the code
    LEAF_PREFIX,        \* 6 in the code
    RECORD_SIZE,        \* 11 in the code: hash and heap ID
    CHECKSUM_SIZE       \* 4 in the code

VARIABLES
    members,   \* the group's links
    phase,     \* "plan", "write", "written", "list", "merge", "listed" or "failed"
    compact,   \* the links in the object header
    index,     \* what the name index is planned with: its records and node size
    heap,      \* the fractal heap; NoHeap for a compact group
    nodes,     \* the nodes of the name index
    visits, records,       \* the walk over them
    pending,   \* the heap read in progress
    listed,    \* the links the heap has given up so far
    search, wanted, found  \* libhdf5's lookup

Tree == INSTANCE BTreeV2

storing == <<members, compact, index, heap, nodes>>
listing == <<visits, records, pending, listed>>
seeking == <<search, wanted, found>>
vars == <<phase, storing, listing, seeking>>

NoHeap == [start |-> 0]
IsDense == heap # NoHeap
NoIndex == [records |-> <<>>, node_size |-> 0]
Nothing == [block |-> NoBlock, rows |-> 0, id |-> HeapId(0, 0)]
Garbled == 0

Sizes == [i \in DOMAIN members |-> members[i].size]
NameRecord(name, id) == [hash |-> NameHash[name], name |-> name, id |-> id]
ByHash(a, b) == a.hash < b.hash \/ (a.hash = b.hash /\ a.name < b.name)

-----------------------------------------------------------------------------
(* A group of libhdf5's: links numbered in the order they are placed in the   *)
(* heap, the blocks of those that are not readable overwritten by tables, and *)
(* records that lead astray.                                                  *)

LibMembers(group) ==
    [i \in 1..group.readable |-> [name |-> i, size |-> group.placed[i].length]]

LibRecords(group) ==
    SortSeq([i \in DOMAIN group.placed |->
                NameRecord(i, HeapId(group.placed[i].offset, group.placed[i].length))]
            \o [i \in DOMAIN group.strays |->
                NameRecord(group.strays[i].name,
                           HeapId(group.strays[i].place.offset, group.strays[i].place.length))],
            ByHash)

LibNodes(group) ==
    IF group.split = 0 THEN [addr \in {Tree!Root} |-> Tree!Leaf(LibRecords(group))]
    ELSE Tree!SplitAt(LibRecords(group), group.split, group.leaf_records)

Overwritten(table, group) ==
    {PlaceOf(table, group.placed[i].offset).path : i \in (group.readable + 1)..Len(group.placed)}

LibFile(group) ==
    LET table == [start |-> group.start, max_direct |-> group.max_direct, current_rows |-> group.rows]
        built == LibHeap(table, group.placed)
    IN  [built EXCEPT !.blocks = [b \in DOMAIN @ |->
            IF b \in Overwritten(table, group) THEN [entries |-> <<NoBlock>>, objects |-> <<>>]
            ELSE @[b]]]

-----------------------------------------------------------------------------
(* Storing the links *)

Init ==
    /\ \/ /\ members \in LinkList
          /\ phase = "plan" /\ heap = NoHeap /\ nodes = <<>>
       \/ \E group \in LibGroup :
             /\ members = LibMembers(group)
             /\ phase = "written" /\ heap = LibFile(group) /\ nodes = LibNodes(group)
             /\ \A i \in DOMAIN group.placed : ClearOfHeaders(heap, group.placed[i].offset)
    /\ compact = <<>> /\ index = NoIndex
    /\ visits = <<>> /\ records = <<>> /\ pending = Nothing /\ listed = <<>>
    /\ search = Idle /\ wanted = 0 /\ found = 0

Few == Len(members) <= MAX_COMPACT_LINKS

StoreCompact ==
    /\ phase = "plan" /\ Few
    /\ phase' = "written"
    /\ compact' = [i \in DOMAIN members |-> i]
    /\ UNCHANGED <<members, index, heap, nodes, listing, seeking>>

LiveBytes(count) == LEAF_PREFIX + count * RECORD_SIZE + CHECKSUM_SIZE
NodeSize(count) == AtLeastOne(CeilingDiv(LiveBytes(count), NODE_SIZE_UNIT)) * NODE_SIZE_UNIT

PlanDense ==
    /\ phase = "plan" /\ ~Few /\ Plannable(Sizes)
    /\ phase' = "write"
    /\ index' = [records |-> SortSeq([i \in DOMAIN members |->
                                NameRecord(members[i].name, HeapId(ObjectOffsets(Sizes)[i], Sizes[i]))],
                                     ByHash),
                 node_size |-> NodeSize(Len(members))]
    /\ UNCHANGED <<members, compact, heap, nodes, listing, seeking>>

RefuseDense ==
    /\ phase = "plan" /\ ~Few /\ ~Plannable(Sizes)
    /\ phase' = "failed"
    /\ UNCHANGED <<storing, listing, seeking>>

WriteDense ==
    /\ phase = "write"
    /\ phase' = "written"
    /\ heap' = DirectHeap(ObjectOffsets(Sizes), Sizes, BlockSize(Sizes))
    /\ nodes' = [addr \in {Tree!Root} |-> Tree!Leaf(index.records)]
    /\ UNCHANGED <<members, compact, index, listing, seeking>>

-----------------------------------------------------------------------------
(* Listing them *)

StartListing ==
    /\ phase = "written"
    /\ phase' = IF IsDense THEN "list" ELSE "merge"
    /\ Tree!StartWalk(IF IsDense THEN Tree!Root ELSE Tree!Undefined)
    /\ UNCHANGED <<storing, pending, listed, seeking>>

WalkIndex ==
    /\ phase = "list"
    /\ Tree!VisitLeaf \/ Tree!VisitInternal
    /\ UNCHANGED <<phase, storing, pending, listed, seeking>>

\* An index that cannot be walked ends the listing, links of the header and all.
FailListing ==
    /\ phase = "list" /\ Tree!Misled
    /\ phase' = "failed"
    /\ UNCHANGED <<storing, listing, seeking>>

Resolving == phase = "list" /\ visits = <<>> /\ pending = Nothing /\ records # <<>>

\* An ID of no length is passed over.
SkipEmpty ==
    /\ Resolving /\ Head(records).id.length = 0
    /\ records' = Tail(records)
    /\ UNCHANGED <<phase, storing, visits, pending, listed, seeking>>

\* read_object: with no more rows than hold direct blocks, the root is taken for one.
RootRows == IF heap.current_rows <= DirectRows(heap) THEN 0 ELSE heap.current_rows

ReadObject ==
    /\ Resolving /\ Head(records).id.length > 0
    /\ pending' = [block |-> RootBlock, rows |-> RootRows, id |-> Head(records).id]
    /\ records' = Tail(records)
    /\ UNCHANGED <<phase, storing, visits, listed, seeking>>

Reading == phase = "list" /\ pending # Nothing
Block == heap.blocks[pending.block]
IsTable(block) == block.entries # <<>>

\* Errors end the reading of this link only: it is missing from the listing.
SkipObject ==
    /\ pending' = Nothing
    /\ UNCHANGED <<phase, storing, visits, records, listed, seeking>>

ObjectAt(block, id) ==
    IF id.offset \in DOMAIN block.objects /\ block.objects[id.offset].length = id.length
    THEN block.objects[id.offset].id ELSE Garbled

ReadDirectBlock ==
    /\ Reading /\ pending.rows = 0 /\ ~IsTable(Block)
    /\ listed' = Append(listed, ObjectAt(Block, pending.id))
    /\ pending' = Nothing
    /\ UNCHANGED <<phase, storing, visits, records, seeking>>

Entries == Covering(heap, pending.rows, pending.id.offset)
Child(entry) == Block.entries[EntryNumber(entry)]

Descend ==
    /\ Reading /\ pending.rows > 0 /\ IsTable(Block)
    /\ \E entry \in Entries :
          /\ Child(entry) # NoBlock
          /\ pending' = [block |-> Child(entry),
                         rows |-> IF entry.row < DirectRows(heap) THEN 0
                                  ELSE SubRows(heap, RowSize(heap, entry.row)),
                         id |-> [pending.id EXCEPT !.offset =
                                     @ - EntryStart(heap, entry.row, entry.col)]]
    /\ UNCHANGED <<phase, storing, visits, records, listed, seeking>>

\* The block is of the other kind, or nothing is allocated at the address.
FailObject ==
    /\ Reading
    /\ \/ (pending.rows = 0) = IsTable(Block)
       \/ pending.rows > 0 /\ IsTable(Block) /\ \A entry \in Entries : Child(entry) = NoBlock
    /\ SkipObject

EndOfIndex ==
    /\ phase = "list" /\ visits = <<>> /\ pending = Nothing /\ records = <<>>
    /\ phase' = "merge"
    /\ UNCHANGED <<storing, listing, seeking>>

\* Of the header's links, the ones whose names the heap has not given.
MergeHeader ==
    /\ phase = "merge"
    /\ phase' = "listed"
    /\ listed' = listed \o SelectSeq(compact, LAMBDA i : ~Contains(listed, i))
    /\ UNCHANGED <<storing, visits, records, pending, seeking>>

-----------------------------------------------------------------------------
(* A lookup by libhdf5 in the one leaf: by hash, then by name *)

StartSearch(name) ==
    /\ phase = "written" /\ search = Idle /\ index # NoIndex
    /\ search' = SearchFrom(Tree!Root, Len(nodes[Tree!Root].records))
    /\ wanted' = name
    /\ found' = 0
    /\ UNCHANGED <<phase, storing, listing>>

Sought == [hash |-> NameHash[wanted], name |-> wanted]
ProbedRecord == nodes[Tree!Root].records[Probed(search)]

Probe ==
    /\ search # Idle /\ ~Exhausted(search)
    /\ \/ /\ ByHash(Sought, ProbedRecord)
          /\ search' = GoLeft(search)
          /\ UNCHANGED found
       \/ /\ ByHash(ProbedRecord, Sought)
          /\ search' = GoRight(search)
          /\ UNCHANGED found
       \/ /\ ProbedRecord.name = wanted
          /\ search' = Idle
          /\ found' = ObjectAt(heap.blocks[RootBlock], ProbedRecord.id)
    /\ UNCHANGED <<phase, storing, listing, wanted>>

GiveUp ==
    /\ search # Idle /\ Exhausted(search)
    /\ search' = Idle
    /\ UNCHANGED <<phase, storing, listing, wanted, found>>

-----------------------------------------------------------------------------

Next == \/ StoreCompact
        \/ PlanDense
        \/ RefuseDense
        \/ WriteDense
        \/ search = Idle /\ StartListing
        \/ WalkIndex
        \/ FailListing
        \/ SkipEmpty
        \/ ReadObject
        \/ ReadDirectBlock
        \/ Descend
        \/ FailObject
        \/ EndOfIndex
        \/ MergeHeader
        \/ \E name \in Name : StartSearch(name)
        \/ Probe
        \/ GiveUp

Spec == Init /\ [][Next]_vars

-----------------------------------------------------------------------------
(* Properties *)

Listed(links) == Len(listed) = Cardinality(links) /\ ToSet(listed) = links

\* Every link is listed, and once: "all raw heap IDs ... (one per link in the group)"
\* (btree_v2.rs:14-21), through inner nodes, where counts of "2 bytes" cover "most
\* practical files" (btree_v2.rs:446-448), and through a root of any number of rows,
\* "0 = direct root" (fractal_heap.rs:57).
ListsEveryLink ==
    /\ phase = "listed" => Listed(DOMAIN members)
    /\ phase = "failed" => ~IsDense

\* Every link is listed once, whether it lies in the header, in the one block of a heap
\* of oxih5's, or in any block of a table of libhdf5's; a link that cannot be read
\* costs the group no other.  Only a name index whose inner nodes count their children's
\* records in one byte makes the listing fail, as those of libhdf5's do (ListsEveryLink),
\* and links whose records are in inner nodes are left out.
ListsLeafLinks ==
    /\ phase = "listed" =>
           Listed({i \in DOMAIN members : ~\E record \in Tree!Inner : record.name = members[i].name})
    /\ phase = "failed" /\ IsDense => \E addr \in Tree!InnerNodes : ~Tree!IsWide(addr)

\* libhdf5 finds exactly the names of the group, each with its own link: the leaf is
\* sorted the way H5B2__locate_record searches it, and the heap IDs lead to the links
\* ("libhdf5 simply fails to find some links", write/btree_v2.rs).
FoundIffMember ==
    search = Idle /\ wanted # 0 =>
        found = IF \E i \in DOMAIN members : members[i].name = wanted
                THEN CHOOSE i \in DOMAIN members : members[i].name = wanted
                ELSE 0

\* The heap and index of a group fit what was reserved for them before the links'
\* addresses were known: no object reaches into the block's header, the next object or
\* past the block, and the records and checksum fit the leaf.
FitsReservation ==
    phase = "written" /\ index # NoIndex =>
        LET objects == heap.blocks[RootBlock].objects
            End(o) == o + objects[o].length
        IN  /\ \A o \in DOMAIN objects :
                   /\ DIRECT_BLOCK_HEADER <= o /\ End(o) <= heap.start
                   /\ \A p \in DOMAIN objects : o < p => End(o) <= p
            /\ heap.start <= MAX_DIRECT_BLOCK_SIZE
            /\ LiveBytes(Len(nodes[Tree!Root].records)) <= index.node_size
=============================================================================
