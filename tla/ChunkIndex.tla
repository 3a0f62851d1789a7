------------------------------ MODULE ChunkIndex ------------------------------
(***************************************************************************)
(* The chunk index of one dataset: ChunkTree of write/chunked.rs plans and *)
(* places its nodes from the chunk count, then writes it level by level;   *)
(* afterwards a reader either collects every chunk (collect,               *)
(* oxih5-format/src/btree_v1_chunk.rs) or, like libhdf5, looks one up.     *)
(*                                                                         *)
(* Above level 0 and in the terminal key only the offsets of a key are     *)
(* ever read, so a key is its offsets and the element pseudo-dimension.    *)
(* collect's guard against nodes deeper than 64 is out of reach of a tree  *)
(* of MAX_CHUNK_LEVELS levels and left out.                                *)
(***************************************************************************)
EXTENDS ChunkGeometry, BTreeState

CONSTANTS
    Grid,                     \* the datasets: [shape, chunk_shape] records
    ElemSize,                 \* element size, the terminal key's last entry
    CHUNK_NODE_MAX_CHILDREN,  \* 64 in the code
    MAX_CHUNKS,               \* 2^24 in the code
    MAX_CHUNK_LEVELS          \* 8 in the code

\* What chunk_shape_of has let through, in a tree that branches.
ASSUME IndexAssumption ==
    /\ \A grid \in Grid :
           /\ grid.shape \in Seq(Nat) /\ grid.chunk_shape \in Seq(Nat \ {0})
           /\ Len(grid.chunk_shape) = Len(grid.shape) /\ Len(grid.shape) > 0
    /\ ElemSize \in Nat \ {0}
    /\ CHUNK_NODE_MAX_CHILDREN \in Nat \ {0, 1}

VARIABLES
    indexed,  \* the dataset: its chunks' origins, in file order, and its end offsets
    indexing, \* "plan", "write", "written", or "failed"
    visits,   \* the nodes collect has still to visit, nearest first
    records   \* what collect has gathered

\* Leaves are the lowest level; a lookup wants a chunk's origin and finds its address.
writing == <<indexing, levels, level, below, nodes>>
seeking == <<search, wanted, found>>
collecting == <<visits, records>>
indexVars == <<indexed, writing, seeking, collecting>>

Dataset(grid) == [origins |-> ChunkOrigins(grid.shape, grid.chunk_shape),
                  end |-> EndOffsets(grid.shape, grid.chunk_shape)]
Origins == indexed.origins

-----------------------------------------------------------------------------
(* Keys *)

ChunkKey(origin) == Append(origin, 0)

\* Mutant: the terminal key leaves the element pseudo-dimension at 0.
BoundWithoutElemSize == Append(indexed.end, 0)

\* The key that closes the rightmost node of every level.
Bound == Append(indexed.end, ElemSize)

-----------------------------------------------------------------------------
(* ChunkTree::plan, assign and write *)

IndexInit ==
    /\ indexed \in {Dataset(grid) : grid \in Grid}
    /\ indexing = "plan"
    /\ levels = <<>>
    /\ level = 0
    /\ below = [keys |-> <<>>, children |-> <<>>]
    /\ nodes = <<>>
    /\ search = Idle
    /\ wanted = <<>>
    /\ found = Undefined
    /\ visits = <<>>
    /\ records = <<>>

PlannedLevels == LevelCounts(Len(Origins), CHUNK_NODE_MAX_CHILDREN)

Accepted == /\ Len(Origins) <= MAX_CHUNKS
            /\ Len(PlannedLevels) <= MAX_CHUNK_LEVELS

\* The index comes first in the file, then the chunks in the order of their origins.
ChunkAddr(n) == NodeCount(PlannedLevels) + n - 1

Plan == /\ indexing = "plan" /\ Accepted
        /\ indexing' = "write"
        /\ levels' = PlannedLevels
        /\ below' = [keys |-> [n \in DOMAIN Origins |-> ChunkKey(Origins[n])],
                     children |-> [n \in DOMAIN Origins |-> ChunkAddr(n)]]
        /\ UNCHANGED <<indexed, level, nodes, seeking, collecting>>

RefuseGrid == /\ indexing = "plan" /\ ~Accepted
              /\ indexing' = "failed"
              /\ UNCHANGED <<indexed, levels, level, below, nodes, seeking, collecting>>

\* Mutant: only full runs are taken (chunks_exact).
ChildrenOfFullRuns(i) ==
    IF i * CHUNK_NODE_MAX_CHILDREN > Len(below.children)
    THEN <<>> ELSE Run(below.children, CHUNK_NODE_MAX_CHILDREN, i)

Children(i) == Run(below.children, CHUNK_NODE_MAX_CHILDREN, i)
Keys(i) == Run(below.keys, CHUNK_NODE_MAX_CHILDREN, i)

\* A node's exclusive upper bound: the next node's first key, if there is one.
Terminal(i) == LET next == i * CHUNK_NODE_MAX_CHILDREN + 1
               IN  IF next \in DOMAIN below.keys THEN below.keys[next] ELSE Bound

\* A node's lower bound is its first child's.
LowerBound(i) == IF Keys(i) = <<>> THEN ChunkKey(indexed.end) ELSE Head(Keys(i))

NodesOnLevel == AtLeastOne(CeilingDiv(Len(below.children), CHUNK_NODE_MAX_CHILDREN))

\* Mutant: the level starts at the last node of the level below it.
FirstAddrTooLow == LevelAddrs(levels, 0)[level + 1] - (IF level = 0 THEN 0 ELSE 1)

FirstAddr == LevelAddrs(levels, 0)[level + 1]

\* write_node: an empty node has no keys, not even the terminal one.
WriteNode(addr) ==
    LET i == addr - FirstAddr + 1
    IN  [level |-> level,
         left |-> LeftSibling(addr, i),
         right |-> RightSibling(addr, i, NodesOnLevel),
         children |-> Children(i),
         keys |-> IF Children(i) = <<>> THEN <<>> ELSE Append(Keys(i), Terminal(i))]

WriteLevel ==
    /\ indexing = "write"
    /\ LET slots == FirstAddr..(FirstAddr + NodesOnLevel - 1)
       IN  nodes' = [addr \in DOMAIN nodes \cup slots |->
                        IF addr \in slots THEN WriteNode(addr) ELSE nodes[addr]]
    /\ below' = [keys |-> [i \in 1..NodesOnLevel |-> LowerBound(i)],
                 children |-> [i \in 1..NodesOnLevel |-> FirstAddr + i - 1]]
    /\ level' = level + 1
    /\ indexing' = IF level' = Len(levels) THEN "written" ELSE "write"
    /\ UNCHANGED <<indexed, levels, seeking, collecting>>

Root == RootAddr(levels, 0)

-----------------------------------------------------------------------------
(* A lookup by libhdf5 *)

Enter(addr) == SearchFrom(addr, Len(nodes[addr].children))

\* Of a dataset without chunks the first chunk is asked for.
Askable == Range(Origins) \cup {[d \in DOMAIN indexed.end |-> 0]}

StartSearch(origin) ==
    /\ indexing = "written" /\ search = Idle
    /\ search' = Enter(Root)
    /\ wanted' = origin
    /\ found' = Undefined
    /\ UNCHANGED <<indexed, writing, collecting>>

\* H5D__btree_cmp3: left of the child's lower bound, right at or past its upper.
Key == ChunkKey(wanted)
LowerKey == nodes[search.at].keys[Probed(search)]
UpperKey == nodes[search.at].keys[Probed(search) + 1]
Child == nodes[search.at].children[Probed(search)]

Probe ==
    /\ search # Idle /\ ~Exhausted(search)
    /\ \/ /\ KeyLess(Key, LowerKey)
          /\ search' = GoLeft(search)
          /\ UNCHANGED found
       \/ /\ KeyLeq(UpperKey, Key)
          /\ search' = GoRight(search)
          /\ UNCHANGED found
       \/ /\ KeyLeq(LowerKey, Key) /\ KeyLess(Key, UpperKey)
          /\ nodes[search.at].level > 0
          /\ search' = Enter(Child)
          /\ UNCHANGED found
       \/ /\ KeyLeq(LowerKey, Key) /\ KeyLess(Key, UpperKey)
          /\ nodes[search.at].level = 0
          /\ search' = Idle
          /\ found' = Child
    /\ UNCHANGED <<indexed, writing, wanted, collecting>>

\* A search that runs dry: the chunk is taken for one that was never stored.
GiveUp == /\ search # Idle /\ Exhausted(search)
          /\ search' = Idle
          /\ UNCHANGED <<indexed, writing, wanted, found, collecting>>

-----------------------------------------------------------------------------
(* collect: oxih5's own reader takes every leaf entry, in tree order *)

StartCollect ==
    /\ indexing = "written" /\ visits = <<>> /\ records = <<>>
    /\ visits' = <<Root>>
    /\ UNCHANGED <<indexed, writing, seeking, records>>

CollectLeaf ==
    /\ visits # <<>>
    /\ LET node == nodes[Head(visits)]
       IN  /\ node.level = 0
           /\ records' = records \o [i \in DOMAIN node.children |->
                             [offsets |-> Front(node.keys[i]), address |-> node.children[i]]]
    /\ visits' = Tail(visits)
    /\ UNCHANGED <<indexed, writing, seeking>>

CollectInternal ==
    /\ visits # <<>>
    /\ nodes[Head(visits)].level > 0
    /\ visits' = nodes[Head(visits)].children \o Tail(visits)
    /\ UNCHANGED <<indexed, writing, seeking, records>>

-----------------------------------------------------------------------------

IndexNext ==
    \/ Plan
    \/ RefuseGrid
    \/ WriteLevel
    \/ \E origin \in Askable : StartSearch(origin)
    \/ Probe
    \/ GiveUp
    \/ StartCollect
    \/ CollectLeaf
    \/ CollectInternal

IndexSpec == IndexInit /\ [][IndexNext]_indexVars

-----------------------------------------------------------------------------
(* Properties *)

\* The layout message points at the root, and the nodes written are exactly the
\* ones space was reserved for: the levels a write derives from the entries are
\* the levels plan derived from their number (ChunkTree::write, "always bytes()"), and
\* every node fits its slot, with one key more than children.
NodesFillReservation ==
    indexing = "written" =>
        /\ DOMAIN nodes = 0..(NodeCount(levels) - 1)
        /\ \A addr \in DOMAIN nodes :
               /\ Len(nodes[addr].children) <= CHUNK_NODE_MAX_CHILDREN
               /\ nodes[addr].children # <<>> =>
                      Len(nodes[addr].keys) = Len(nodes[addr].children) + 1
        /\ nodes[Root].level = Len(levels) - 1
        /\ \A l \in DOMAIN levels : LevelIsChained(nodes, LevelAddrs(levels, 0)[l], levels[l])

\* Every chunk of the dataset is found by H5B_find under its own origin, for any
\* number of levels, and nothing else is: the bounds of write_node and end_offsets neither hide a chunk
\* ("it makes half the chunks unfindable") nor lead to another one.
EveryChunkFound ==
    indexing = "written" /\ search = Idle /\ wanted # <<>> =>
        found = IF \E n \in DOMAIN Origins : Origins[n] = wanted
                THEN ChunkAddr(CHOOSE n \in DOMAIN Origins : Origins[n] = wanted)
                ELSE Undefined

\* collect returns every chunk once, with its own origin and address, in the order
\* the chunks were cut.
CollectsEveryChunk ==
    indexing = "written" /\ visits = <<>> /\ records # <<>> =>
        records = [n \in DOMAIN Origins |->
                      [offsets |-> Origins[n], address |-> ChunkAddr(n)]]

\* A chunk index is what was planned, libhdf5 finds exactly the chunks in it, and oxih5
\* collects all of them (ChunkTree::write, H5B_find, collect).
ChunksAreIndexed == NodesFillReservation /\ EveryChunkFound /\ CollectsEveryChunk
=============================================================================
