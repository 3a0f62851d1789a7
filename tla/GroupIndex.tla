------------------------------ MODULE GroupIndex ------------------------------
(***************************************************************************)
(* The symbol table of one old-style group.  sorted_links,                 *)
(* build_local_heap and snod_entries of write/plan.rs settle the order of  *)
(* the entries and the text their offsets lead to; SymTable of             *)
(* write/btree_v1.rs cuts the entries into symbol table nodes and          *)
(* bulk-loads the B-tree over those.  A reader looks a name up: libhdf5 by *)
(* binary search down the tree and in the node it ends at (H5G__node_cmp3  *)
(* and H5G__node_found, described in the comments of btree_v1.rs), oxih5   *)
(* by reading every node (oxih5-format/src/group.rs).                      *)
(*                                                                         *)
(* A name is a positive number, ordered as the raw bytes are; 0 is the     *)
(* empty string at heap offset 0.  The path a soft link holds is text too, *)
(* and stands as minus the link's name.                                    *)
(***************************************************************************)
EXTENDS BTreeState

CONSTANTS
    Name,                     \* legal link names
    MemberList,               \* groups: sequences of [name, soft] in creation order
    SNOD_MAX_ENTRIES,         \* 8 in the code
    GROUP_NODE_MAX_CHILDREN,  \* 32 in the code
    MAX_GROUP_LINKS,          \* 2^24 in the code
    MAX_LEVELS                \* 8 in the code

\* No two members of a group have one name (see GroupTree), and a tree branches.
ASSUME GroupAssumption ==
    /\ Name \subseteq Nat \ {0}
    /\ \A links \in MemberList :
           /\ links \in Seq([name: Name, soft: BOOLEAN])
           /\ \A i, j \in DOMAIN links : links[i].name = links[j].name => i = j
    /\ SNOD_MAX_ENTRIES \in Nat \ {0}
    /\ GROUP_NODE_MAX_CHILDREN \in Nat \ {0, 1}

VARIABLES
    members,  \* the group's members, in creation order
    tabling,  \* "plan", "snods", "write", "written" or "failed"
    heap,     \* the local heap: the text at every offset in use
    entries,  \* the symbol table entries, in name order
    inSnod    \* whether the lookup has left the B-tree for a symbol table node

\* The lowest level is that of the parents of the SNODs; a lookup wants a name and
\* finds an entry.
planVars == <<heap, entries, levels>>
tableVars == <<level, below, nodes>>
lookupVars == <<search, inSnod, wanted, found>>
groupVars == <<members, tabling, planVars, tableVars, lookupVars>>

NoText == 0

-----------------------------------------------------------------------------
(* Order *)

\* Mutant: the entries stay in creation order.
UnsortedLinks(links) == links

\* The place of a link in name order.
Rank(links, i) == Cardinality({j \in DOMAIN links : links[j].name <= links[i].name})

SortedLinks(links) ==
    [r \in DOMAIN links |-> links[CHOOSE i \in DOMAIN links : Rank(links, i) = r]]

-----------------------------------------------------------------------------
(* Heap *)

SoftValue(link) == 0 - link.name

\* What a link interns, in this order: its name and, if soft, its value.
Interned(link) == IF link.soft THEN <<link.name, SoftValue(link)>> ELSE <<link.name>>

\* The heap after each link: offset 0 is the empty string, the texts follow in link order.
HeapAfter(links) ==
    LET after[i \in 0..Len(links)] ==
            IF i = 0 THEN <<NoText>> ELSE after[i - 1] \o Interned(links[i])
    IN  after

\* build_local_heap
LocalHeap(links) ==
    LET texts == HeapAfter(links)[Len(links)]
    IN  [offset \in 0..(Len(texts) - 1) |-> texts[offset + 1]]

NameOffset(links, i) == Len(HeapAfter(links)[i - 1])

-----------------------------------------------------------------------------
(* Entries *)

\* Mutant: a soft link's entry carries the offset of its name.
SnodEntriesNamingNames(links) ==
    [i \in DOMAIN links |->
        [name_offset |-> NameOffset(links, i),
         value |-> IF links[i].soft THEN NameOffset(links, i) ELSE 0]]

\* snod_entries: a soft link's entry carries the offset of its value, an object's
\* (whose address is left out) none.
SnodEntries(links) ==
    [i \in DOMAIN links |->
        [name_offset |-> NameOffset(links, i),
         value |-> IF links[i].soft THEN NameOffset(links, i) + 1 ELSE 0]]

-----------------------------------------------------------------------------

None == [name_offset |-> 0, value |-> 0]

-----------------------------------------------------------------------------
(* SymTable::plan, assign and write *)

GroupInit ==
    /\ members \in MemberList
    /\ tabling = "plan"
    /\ heap = <<>>
    /\ entries = <<>>
    /\ levels = <<>>
    /\ level = 0
    /\ below = [keys |-> <<>>, children |-> <<>>]
    /\ nodes = <<>>
    /\ search = Idle
    /\ inSnod = FALSE
    /\ wanted = 0
    /\ found = None

\* An empty group still owns one SNOD.
SnodCount == AtLeastOne(CeilingDiv(Len(members), SNOD_MAX_ENTRIES))
GroupLevels == LevelCounts(SnodCount, GROUP_NODE_MAX_CHILDREN)

GroupAccepted == Len(members) <= MAX_GROUP_LINKS /\ Len(GroupLevels) <= MAX_LEVELS

SnodBase == NodeCount(levels)
Snod(i) == Run(entries, SNOD_MAX_ENTRIES, i)

PlanGroup ==
    /\ tabling = "plan" /\ GroupAccepted
    /\ tabling' = "snods"
    /\ LET links == SortedLinks(members)
       IN  heap' = LocalHeap(links) /\ entries' = SnodEntries(links)
    /\ levels' = GroupLevels
    /\ UNCHANGED <<members, tableVars, lookupVars>>

RefuseGroup == /\ tabling = "plan" /\ ~GroupAccepted
               /\ tabling' = "failed"
               /\ UNCHANGED <<members, planVars, tableVars, lookupVars>>

\* The key that closes a child is the greatest name under it.
ClosingKey(run) == IF run = <<>> THEN 0 ELSE Last(run).name_offset

WriteSnods ==
    /\ tabling = "snods"
    /\ below' = [keys |-> [i \in 1..SnodCount |-> ClosingKey(Snod(i))],
                 children |-> [i \in 1..SnodCount |-> SnodBase + i - 1]]
    /\ tabling' = "write"
    /\ UNCHANGED <<members, planVars, level, nodes, lookupVars>>

NodesOnGroupLevel == CeilingDiv(Len(below.children), GROUP_NODE_MAX_CHILDREN)
FirstNode == LevelAddrs(levels, 0)[level + 1]
GroupKeys(i) == Run(below.keys, GROUP_NODE_MAX_CHILDREN, i)

\* write_node: the first key is the empty string, below every legal name.
WriteGroupNode(addr) ==
    LET i == addr - FirstNode + 1
    IN  [level |-> level,
         left |-> LeftSibling(addr, i),
         right |-> RightSibling(addr, i, NodesOnGroupLevel),
         children |-> Run(below.children, GROUP_NODE_MAX_CHILDREN, i),
         keys |-> <<0>> \o GroupKeys(i)]

\* write_levels: a node closes where its rightmost child closes.
WriteGroupLevel ==
    /\ tabling = "write"
    /\ LET slots == FirstNode..(FirstNode + NodesOnGroupLevel - 1)
       IN  nodes' = [addr \in DOMAIN nodes \cup slots |->
                        IF addr \in slots THEN WriteGroupNode(addr) ELSE nodes[addr]]
    /\ below' = [keys |-> [i \in 1..NodesOnGroupLevel |-> Last(GroupKeys(i))],
                 children |-> [i \in 1..NodesOnGroupLevel |-> FirstNode + i - 1]]
    /\ level' = level + 1
    /\ tabling' = IF level' = Len(levels) THEN "written" ELSE "write"
    /\ UNCHANGED <<members, planVars, lookupVars>>

GroupRoot == RootAddr(levels, 0)

-----------------------------------------------------------------------------
(* A lookup by libhdf5: names are compared through the local heap *)

SnodAt(addr) == Snod(addr - SnodBase + 1)

StartLookup(name) ==
    /\ tabling = "written" /\ search = Idle
    /\ search' = SearchFrom(GroupRoot, Len(nodes[GroupRoot].children))
    /\ inSnod' = FALSE
    /\ wanted' = name
    /\ found' = None
    /\ UNCHANGED <<members, tabling, planVars, tableVars>>

LeftName == heap[nodes[search.at].keys[Probed(search)]]
RightName == heap[nodes[search.at].keys[Probed(search) + 1]]
ProbedChild == nodes[search.at].children[Probed(search)]

\* H5G__node_cmp3: child i owns the names above keys[i], up to keys[i + 1].
ProbeNode ==
    /\ search # Idle /\ ~inSnod /\ ~Exhausted(search)
    /\ \/ /\ wanted <= LeftName
          /\ search' = GoLeft(search)
          /\ UNCHANGED inSnod
       \/ /\ wanted > RightName
          /\ search' = GoRight(search)
          /\ UNCHANGED inSnod
       \/ /\ LeftName < wanted /\ wanted <= RightName
          /\ nodes[search.at].level > 0
          /\ search' = SearchFrom(ProbedChild, Len(nodes[ProbedChild].children))
          /\ UNCHANGED inSnod
       \/ /\ LeftName < wanted /\ wanted <= RightName
          /\ nodes[search.at].level = 0
          /\ search' = SearchFrom(ProbedChild, Len(SnodAt(ProbedChild)))
          /\ inSnod' = TRUE
    /\ UNCHANGED <<members, tabling, planVars, tableVars, wanted, found>>

ProbedEntry == SnodAt(search.at)[Probed(search)]

\* H5G__node_found: a binary search of the symbol table node.
ProbeSnod ==
    /\ search # Idle /\ inSnod /\ ~Exhausted(search)
    /\ \/ /\ wanted < heap[ProbedEntry.name_offset]
          /\ search' = GoLeft(search)
          /\ UNCHANGED found
       \/ /\ wanted > heap[ProbedEntry.name_offset]
          /\ search' = GoRight(search)
          /\ UNCHANGED found
       \/ /\ wanted = heap[ProbedEntry.name_offset]
          /\ search' = Idle
          /\ found' = ProbedEntry
    /\ UNCHANGED <<members, tabling, planVars, tableVars, inSnod, wanted>>

GiveUpLookup ==
    /\ search # Idle /\ Exhausted(search)
    /\ search' = Idle
    /\ UNCHANGED <<members, tabling, planVars, tableVars, inSnod, wanted, found>>

-----------------------------------------------------------------------------

GroupNext ==
    \/ PlanGroup
    \/ RefuseGroup
    \/ WriteSnods
    \/ WriteGroupLevel
    \/ \E name \in Name : StartLookup(name)
    \/ ProbeNode
    \/ ProbeSnod
    \/ GiveUpLookup

GroupSpec == GroupInit /\ [][GroupNext]_groupVars

-----------------------------------------------------------------------------
(* What oxih5's own reader makes of the file *)

\* btree::parse: the SNODs under a node, in tree order.  Nodes are visited level by
\* level, which for a tree whose SNODs are all at one depth is the same order.
Leaves ==
    LET at_depth[d \in 0..Len(levels)] ==
            IF d = 0 THEN <<GroupRoot>>
            ELSE FlattenSeq([i \in DOMAIN at_depth[d - 1] |-> nodes[at_depth[d - 1][i]].children])
    IN  at_depth[Len(levels)]

AllEntries == LET leaves == Leaves
              IN  FlattenSeq([i \in DOMAIN leaves |-> SnodAt(leaves[i])])

\* entry_to_link: a soft link's text comes out of the heap.
EntryToLink(entry) ==
    [name |-> heap[entry.name_offset],
     target |-> IF entry.value = 0 THEN NoText ELSE heap[entry.value]]

\* list_entries: entries whose name is empty are skipped.
ListEntries ==
    LET all == AllEntries
        listed[i \in 0..Len(all)] ==
            IF i = 0 THEN <<>>
            ELSE IF EntryToLink(all[i]).name = NoText THEN listed[i - 1]
            ELSE Append(listed[i - 1], EntryToLink(all[i]))
    IN  listed[Len(all)]

-----------------------------------------------------------------------------
(* Properties.  Nothing changes the file once it is written, so what holds *)
(* of the file is stated of the moment it is complete.                     *)

Complete == tabling = "written" /\ wanted = 0

LinkOf(m) == [name |-> m.name, target |-> IF m.soft THEN SoftValue(m) ELSE NoText]

\* The B-tree nodes fill the block btree_bytes reserved, the SNODs follow it, the
\* root is the node the symbol table message points at, and the levels are chained;
\* every node fits its slot, with one key more than children.
TableFillsReservation ==
    Complete =>
        /\ DOMAIN nodes = 0..(NodeCount(levels) - 1)
        /\ \A addr \in DOMAIN nodes :
               /\ Len(nodes[addr].children) \in 1..GROUP_NODE_MAX_CHILDREN
               /\ Len(nodes[addr].keys) = Len(nodes[addr].children) + 1
        /\ nodes[GroupRoot].level = Len(levels) - 1
        /\ Leaves = [i \in 1..SnodCount |-> SnodBase + i - 1]
        /\ \A l \in DOMAIN levels : LevelIsChained(nodes, LevelAddrs(levels, 0)[l], levels[l])

\* A name is found by libhdf5's binary search exactly when the group has it, and
\* leads to that member: sorting, heap offsets and closing keys agree, for any
\* number of levels ("an unsorted node ... silently hides links").
FoundIffMember ==
    tabling = "written" /\ search = Idle /\ wanted # 0 =>
        IF \E i \in DOMAIN members : members[i].name = wanted
        THEN \E i \in DOMAIN members :
                 members[i].name = wanted /\ EntryToLink(found) = LinkOf(members[i])
        ELSE found = None

\* oxih5 lists every member once, with what it points at, by ascending name.
ListsMembersByName ==
    Complete => LET sorted == SortedLinks(members)
                IN  ListEntries = [i \in DOMAIN sorted |-> LinkOf(sorted[i])]

\* The symbol table does all of that (SymTable::write, H5G__node_cmp3, list_entries).
MembersAreIndexed == TableFillsReservation /\ FoundIffMember /\ ListsMembersByName
=============================================================================
