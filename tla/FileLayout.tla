------------------------------ MODULE FileLayout ------------------------------
(***************************************************************************)
(* Building the file image (build_bytes, plan_group, GroupPlan in oxih5's  *)
(* write/plan.rs and write/build.rs).  A first pass walks the object tree  *)
(* and reserves room for every structure at a cursor that only moves on;   *)
(* further passes over the finished plan fill in what depends on addresses *)
(* (object references, hard links, reference counts, heap references); the *)
(* last pass writes every structure where room was reserved for it.        *)
(*                                                                         *)
(* A path is the object that owns it, since paths are unique (Namespace);  *)
(* a path no object owns is Nowhere.                                       *)
(***************************************************************************)
EXTENDS Integers, Sequences, FiniteSets

CONSTANTS
    Object,             \* groups and datasets
    rootGroup,          \* the root group
    Nowhere,            \* a link or reference target that is no object's path
    Soft,               \* the target of a soft link: a path only the reader looks at
    Tree,               \* the object trees a FileWriter may hold
    Fixed, PerEntry,    \* bytes of a structure of each kind, and of one of its entries
    ROOT_OH_ADDR,       \* where planning starts (96 in the code)
    MAX_COMPACT_LINKS   \* links a group keeps in its object header (8 in the code)

Kind == {"header", "link heap", "link index", "btree", "local heap", "snods",
         "chunk index", "data", "vlen refs", "collection"}

\* What is found by its address takes room, whatever is in it, or as soon as anything is.
ASSUME SizeAssumption ==
    /\ Fixed \in [Kind -> Nat] /\ PerEntry \in [Kind -> Nat]
    /\ \A k \in {"header", "btree", "local heap", "collection"} : Fixed[k] > 0
    /\ \A k \in {"link heap", "snods", "vlen refs"} : PerEntry[k] > 0
ASSUME AddressAssumption == ROOT_OH_ADDR \in Nat \ {0}
ASSUME LinksAssumption == MAX_COMPACT_LINKS \in Nat

\* A tree: the datasets and the sub-groups each group owns, its other links, which
\* groups keep link messages, each object's sequences of object references, and each
\* dataset's data.
ASSUME TreeAssumption ==
    /\ rootGroup \in Object
    /\ \A t \in Tree :
         LET groups == DOMAIN t.groups
             all == groups \cup DOMAIN t.data
         IN  /\ rootGroup \in groups /\ all \subseteq Object
             /\ t.groups \in [groups -> Seq(groups)]
             /\ t.datasets \in [groups -> Seq(DOMAIN t.data)]
             /\ t.links \in [groups -> Seq(Object \cup {Nowhere, Soft})]
             /\ t.linkStyle \subseteq groups
             /\ t.refs \in [all -> Seq(Seq(Object \cup {Nowhere}))]
             /\ \A d \in DOMAIN t.data :
                  \/ t.data[d].kind = "raw" /\ t.data[d].bytes \in Nat
                  \/ t.data[d].kind = "vlen" /\ t.data[d].elements \in Seq(BOOLEAN)
                  \/ t.data[d].kind = "chunked" /\ t.data[d].chunks \in Seq(Nat)
                  \/ t.data[d].kind = "refused"

\* A group holds its datasets and sub-groups by value: every object but the root has
\* its place in one group, and the root leads to all of them.
Children(t, g) == t.datasets[g] \o t.groups[g]
ASSUME OwnershipAssumption ==
    \A t \in Tree :
        LET groups == DOMAIN t.groups
        IN  /\ \A g, h \in groups :
                 \A i \in 1..Len(Children(t, g)), j \in 1..Len(Children(t, h)) :
                    /\ Children(t, g)[i] # rootGroup
                    /\ Children(t, g)[i] = Children(t, h)[j] => g = h /\ i = j
            /\ \A S \in SUBSET (groups \cup DOMAIN t.data) :
                  /\ rootGroup \in S
                  /\ \A g \in S \cap groups : \A i \in 1..Len(Children(t, g)) : Children(t, g)[i] \in S
                  => groups \cup DOMAIN t.data \subseteq S

\* A structure still to be placed, or (kind "object") an object still to be planned.
Piece == [of: Object, kind: Kind \cup {"object"}, count: Nat]

VARIABLES
    tree,         \* the FileWriter's objects
    phase,        \* the pass being made
    todo,         \* what the first pass has still to plan, next first
    order,        \* the objects planned, in the order every later pass visits them
    cursor,       \* the next free address
    layout,       \* the structures placed: pieces with their addresses
    at,           \* the object a later pass has come to
    refs,         \* object references of each object's attributes, as addresses
    aliases,      \* addresses of each group's hard aliases
    counts,       \* hard aliases counted so far for each address
    refcount,     \* reference count of each object's header
    links,        \* targets of a link-style group's link messages
    heap,         \* values registered in the global heap, by ordinal
    ordinals,     \* heap ordinals of each dataset's variable-length elements
    refOrdinals,  \* heap ordinals of each object's reference sequences
    collections,  \* the heap's collections: the values in each
    collection_addrs,  \* where those placed so far are
    locations,    \* collection and index of each ordinal
    refLocs,      \* heap references of each object's reference sequences
    image         \* what has been written, by address

planning == <<todo, order, cursor, layout>>
resolving == <<refs, aliases, counts, refcount, links>>
packed == <<collections, collection_addrs, locations>>
heaping == <<heap, ordinals, refOrdinals, packed, refLocs>>
layoutVars == <<tree, phase, at, planning, resolving, heaping, image>>

Groups == DOMAIN tree.groups
Null == [addr |-> 0, index |-> 0]

-----------------------------------------------------------------------------
(* The objects of the tree and the structures they need *)

\* What a group's links name, each with its kind, owned objects first.
MembersOf(g) ==
    LET Owned(s) == [i \in 1..Len(s) |-> [kind |-> "owned", to |-> s[i], nth |-> i]]
        Desc(s) == [i \in 1..Len(s) |->
                       [kind |-> IF s[i] = Soft THEN "soft" ELSE "alias",
                        to |-> s[i], nth |-> i]]
    IN  Owned(tree.datasets[g]) \o Owned(tree.groups[g]) \o Desc(tree.links[g])

IsLinkStyle(g) == g \in tree.linkStyle
IsDense(g) == IsLinkStyle(g) /\ Len(MembersOf(g)) > MAX_COMPACT_LINKS

\* The links a link-style group has in its header; a dense group has none there.
HeaderLinks(g, all) == IF IsDense(g) \/ ~IsLinkStyle(g) THEN <<>> ELSE all

Structure(o, kind, count) == <<[of |-> o, kind |-> kind, count |-> count]>>
Objects(s) == [i \in 1..Len(s) |-> [of |-> s[i], kind |-> "object", count |-> 0]]

\* plan_group: header, dense link storage, and a symbol table, empty for a group
\* whose members are link messages.
GroupPieces(g) ==
    LET n == Len(MembersOf(g))
        listed == IF IsLinkStyle(g) THEN 0 ELSE n
    IN  Structure(g, "header", Len(tree.refs[g]) + Len(HeaderLinks(g, MembersOf(g))))
        \o (IF IsDense(g) THEN Structure(g, "link heap", n) \o Structure(g, "link index", n)
                          ELSE <<>>)
        \o Structure(g, "btree", 1)
        \o Structure(g, "local heap", listed)
        \o Structure(g, "snods", listed)

\* plan_dataset: header, chunk index, then the data area, which for variable-length
\* elements holds one heap reference each.
DatasetPieces(d) ==
    LET data == tree.data[d]
    IN  Structure(d, "header", Len(tree.refs[d]))
        \o (CASE data.kind = "raw" -> Structure(d, "data", data.bytes)
              [] data.kind = "vlen" -> Structure(d, "vlen refs", Len(data.elements))
              [] data.kind = "chunked" ->
                   Structure(d, "chunk index", Len(data.chunks))
                   \o [i \in 1..Len(data.chunks) |-> Structure(d, "data", data.chunks[i])[1]]
              [] OTHER -> <<>>)

Size(kind, count) == Fixed[kind] + count * PerEntry[kind]

-----------------------------------------------------------------------------
(* The first pass: every structure is given room *)

LayoutInit ==
    /\ tree \in Tree
    /\ phase = "plan"
    /\ todo = Objects(<<rootGroup>>)
    /\ order = <<>>
    /\ cursor = ROOT_OH_ADDR
    /\ layout = <<>>
    /\ at = 1
    /\ refs = [o \in DOMAIN tree.refs |->
                  [i \in 1..Len(tree.refs[o]) |-> [j \in 1..Len(tree.refs[o][i]) |-> 0]]]
    /\ aliases = [g \in Groups |-> [i \in 1..Len(tree.links[g]) |-> 0]]
    /\ counts = [addr \in {} |-> 0]
    /\ refcount = [o \in DOMAIN tree.refs |-> 1]
    /\ links = [g \in tree.linkStyle |-> [i \in 1..Len(MembersOf(g)) |-> 0]]
    /\ heap = <<>>
    /\ ordinals = [o \in DOMAIN tree.refs |-> <<>>]
    /\ refOrdinals = [o \in DOMAIN tree.refs |-> [i \in 1..Len(tree.refs[o]) |-> 0]]
    /\ collections = <<>>
    /\ collection_addrs = <<>>
    /\ locations = <<>>
    /\ refLocs = [o \in DOMAIN tree.refs |-> [i \in 1..Len(tree.refs[o]) |-> Null]]
    /\ image = [addr \in {} |-> 0]

\* A group comes before its datasets, they before its sub-groups.
PlanGroup ==
    /\ phase = "plan" /\ todo # <<>>
    /\ LET g == Head(todo).of
       IN  /\ Head(todo).kind = "object" /\ g \in Groups
           /\ todo' = GroupPieces(g) \o Objects(tree.datasets[g])
                      \o Objects(tree.groups[g]) \o Tail(todo)
           /\ order' = Append(order, g)
    /\ UNCHANGED <<tree, phase, cursor, layout, at, resolving, heaping, image>>

\* A dataset whose chunks or payload the writer refuses ends the build.
PlanDataset ==
    /\ phase = "plan" /\ todo # <<>>
    /\ LET d == Head(todo).of
       IN  /\ Head(todo).kind = "object" /\ d \notin Groups
           /\ \/ /\ tree.data[d].kind # "refused"
                 /\ todo' = DatasetPieces(d) \o Tail(todo)
                 /\ order' = Append(order, d)
                 /\ UNCHANGED phase
              \/ /\ tree.data[d].kind = "refused"
                 /\ phase' = "failed"
                 /\ UNCHANGED <<todo, order>>
    /\ UNCHANGED <<tree, cursor, layout, at, resolving, heaping, image>>

\* Mutant: the cursor moves on by the fixed part of a structure only.
PastFixedPart(piece) == cursor + Fixed[piece.kind]

Past(piece) == cursor + Size(piece.kind, piece.count)

Reserve ==
    /\ phase = "plan" /\ todo # <<>>
    /\ LET piece == Head(todo)
       IN  /\ piece.kind # "object"
           /\ layout' = Append(layout, [addr |-> cursor, piece |-> piece])
           /\ cursor' = Past(piece)
    /\ todo' = Tail(todo)
    /\ UNCHANGED <<tree, phase, order, at, resolving, heaping, image>>

FinishPlan ==
    /\ phase = "plan" /\ todo = <<>>
    /\ phase' = "refs"
    /\ UNCHANGED <<tree, at, planning, resolving, heaping, image>>

-----------------------------------------------------------------------------
(* The passes over the finished plan *)

PlacedAs(o, kind) == layout[CHOOSE i \in 1..Len(layout) :
                               layout[i].piece.of = o /\ layout[i].piece.kind = kind]
Addr(o) == PlacedAs(o, "header").addr

\* collect_addresses: the paths of the objects in the file, and no others.
Owned == {order[i] : i \in 1..Len(order)}

\* One more object visited; the next pass starts when all have been.
Advance(next) == IF at = Len(order) THEN phase' = next /\ at' = 1
                                    ELSE at' = at + 1 /\ UNCHANGED phase

\* fill_obj_refs: a reference to nothing in the file ends the build.
FillObjRefs ==
    /\ phase = "refs"
    /\ LET o == order[at]
           names == tree.refs[o]
       IN  IF \E i \in 1..Len(names) : \E j \in 1..Len(names[i]) : names[i][j] \notin Owned
           THEN phase' = "failed" /\ UNCHANGED <<at, refs>>
           ELSE /\ refs' = [refs EXCEPT ![o] =
                       [i \in 1..Len(names) |-> [j \in 1..Len(names[i]) |-> Addr(names[i][j])]]]
                /\ Advance("aliases")
    /\ UNCHANGED <<tree, planning, aliases, counts, refcount, links, heaping, image>>

\* The hard aliases of a group, as positions among its links.
HardAliases(g) == {i \in 1..Len(tree.links[g]) : tree.links[g][i] # Soft}

\* Mutant: an alias found leaves the count at one.
TallyOnce(addrs) ==
    [addr \in DOMAIN counts \cup {addrs[i] : i \in DOMAIN addrs} |->
        IF \E i \in DOMAIN addrs : addrs[i] = addr THEN 1 ELSE counts[addr]]

\* The counts when aliases of these addresses have been added to them.
Tally(addrs) ==
    [addr \in DOMAIN counts \cup {addrs[i] : i \in DOMAIN addrs} |->
        (IF addr \in DOMAIN counts THEN counts[addr] ELSE 0)
        + Cardinality({i \in DOMAIN addrs : addrs[i] = addr})]

\* resolve_link_targets: aliases resolve to addresses, and are counted.
ResolveLinkTargets ==
    /\ phase = "aliases"
    /\ LET g == order[at]
       IN  IF g \notin Groups THEN Advance("counts") /\ UNCHANGED <<aliases, counts>>
           ELSE IF \E i \in HardAliases(g) : tree.links[g][i] \notin Owned
           THEN phase' = "failed" /\ UNCHANGED <<at, aliases, counts>>
           ELSE LET addrs == [i \in HardAliases(g) |-> Addr(tree.links[g][i])]
                IN  /\ aliases' = [aliases EXCEPT ![g] =
                           [i \in 1..Len(@) |-> IF i \in DOMAIN addrs THEN addrs[i] ELSE @[i]]]
                    /\ counts' = Tally(addrs)
                    /\ Advance("counts")
    /\ UNCHANGED <<tree, planning, refs, refcount, links, heaping, image>>

ApplyRefcounts ==
    /\ phase = "counts"
    /\ LET o == order[at]
       IN  refcount' = [refcount EXCEPT ![o] =
               1 + (IF Addr(o) \in DOMAIN counts THEN counts[Addr(o)] ELSE 0)]
    /\ Advance("links")
    /\ UNCHANGED <<tree, planning, refs, aliases, counts, links, heaping, image>>

\* Mutant: an alias is looked up by its place among all of the group's members.
LinkAddrByPosition(g, i) ==
    LET m == MembersOf(g)[i]
    IN  CASE m.kind = "owned" -> Addr(m.to)
          [] m.kind = "alias" -> IF i <= Len(aliases[g]) THEN aliases[g][i] ELSE 0
          [] OTHER -> 0

\* The address link message i of a group gets; a soft link has none.
LinkAddr(g, i) ==
    LET m == MembersOf(g)[i]
    IN  CASE m.kind = "owned" -> Addr(m.to)
          [] m.kind = "alias" -> aliases[g][m.nth]
          [] OTHER -> 0

PatchLinks ==
    /\ phase = "links"
    /\ LET g == order[at]
       IN  links' = IF g \in tree.linkStyle
                    THEN [links EXCEPT ![g] = [i \in 1..Len(MembersOf(g)) |-> LinkAddr(g, i)]]
                    ELSE links
    /\ Advance("strings")
    /\ UNCHANGED <<tree, planning, refs, aliases, counts, refcount, heaping, image>>

-----------------------------------------------------------------------------
(* The global heap *)

\* How many of the first i of these are registered: those that are not empty.
Registered(present, i) == Cardinality({j \in 1..i : present[j]})

\* The ordinals they get after the values registered before, 0 for an empty one.
Numbered(present) ==
    [i \in 1..Len(present) |-> IF present[i] THEN Len(heap) + Registered(present, i) ELSE 0]

\* The values themselves, in order.
Chosen(values, present) ==
    [k \in 1..Registered(present, Len(present)) |->
        values[CHOOSE i \in 1..Len(present) : present[i] /\ Registered(present, i) = k]]

IsVlen(o) == o \notin Groups /\ tree.data[o].kind = "vlen"

\* register_vlen_strings: an empty sequence registers nothing.
RegisterVlenStrings ==
    /\ phase = "strings"
    /\ LET d == order[at]
           present == tree.data[d].elements
           values == [i \in 1..Len(present) |-> <<d, i>>]
       IN  IF IsVlen(d)
           THEN /\ ordinals' = [ordinals EXCEPT ![d] = Numbered(present)]
                /\ heap' = heap \o Chosen(values, present)
           ELSE UNCHANGED <<ordinals, heap>>
    /\ Advance("objrefs")
    /\ UNCHANGED <<tree, planning, resolving, refOrdinals, packed, refLocs, image>>

\* register_vlen_objref_attrs: the addresses of a sequence make one value.
RegisterVlenObjRefs ==
    /\ phase = "objrefs"
    /\ LET o == order[at]
           present == [i \in 1..Len(refs[o]) |-> refs[o][i] # <<>>]
       IN  /\ refOrdinals' = [refOrdinals EXCEPT ![o] = Numbered(present)]
           /\ heap' = heap \o Chosen(refs[o], present)
    /\ Advance("pack")
    /\ UNCHANGED <<tree, planning, resolving, ordinals, packed, refLocs, image>>

\* The collection, from 0, a value goes to when new ones begin at these ordinals.
CollectionOf(begins, ordinal) == Cardinality({b \in begins : b <= ordinal}) - 1
Starts(begins, ordinal) == CHOOSE b \in begins :
    b <= ordinal /\ \A other \in begins : other <= ordinal => other <= b

\* build_collections divides the values into runs: GlobalHeap says which, here any
\* division will do.
BuildCollections ==
    /\ phase = "pack"
    /\ \E later \in SUBSET (2..Len(heap)) :
         LET begins == IF heap = <<>> THEN {} ELSE {1} \cup later
             run(c) == {o \in 1..Len(heap) : CollectionOf(begins, o) = c - 1}
             first(c) == CHOOSE o \in run(c) : \A other \in run(c) : o <= other
         IN  /\ collections' = [c \in 1..Cardinality(begins) |->
                    [k \in 1..Cardinality(run(c)) |-> heap[first(c) + k - 1]]]
             /\ locations' = [o \in 1..Len(heap) |->
                    [collection |-> CollectionOf(begins, o),
                     index |-> o - Starts(begins, o) + 1]]
    /\ phase' = "place"
    /\ UNCHANGED <<tree, at, planning, resolving, heap, ordinals, refOrdinals,
                   collection_addrs, refLocs, image>>

\* Collections follow one another, behind everything else.
PlaceCollection ==
    /\ phase = "place" /\ Len(collection_addrs) < Len(collections)
    /\ LET values == collections[Len(collection_addrs) + 1]
           piece == [of |-> rootGroup, kind |-> "collection", count |-> Len(values)]
       IN  /\ layout' = Append(layout, [addr |-> cursor, piece |-> piece])
           /\ cursor' = Past(piece)
    /\ collection_addrs' = Append(collection_addrs, cursor)
    /\ UNCHANGED <<tree, phase, at, todo, order, resolving, heap, ordinals, refOrdinals,
                   collections, locations, refLocs, image>>

FinishPlacing ==
    /\ phase = "place" /\ Len(collection_addrs) = Len(collections)
    /\ phase' = "locs"
    /\ UNCHANGED <<tree, at, planning, resolving, heaping, image>>

\* Mutant: ordinals are used as if they began at 0.
HeapRefZeroBased(ordinal) ==
    IF ordinal = 0 \/ ordinal + 1 > Len(locations) THEN Null
    ELSE [addr |-> collection_addrs[locations[ordinal + 1].collection + 1],
          index |-> locations[ordinal + 1].index]

\* The reference to a registered value; the null reference for an empty one.
HeapRef(ordinal) ==
    IF ordinal = 0 THEN Null
    ELSE [addr |-> collection_addrs[locations[ordinal].collection + 1],
          index |-> locations[ordinal].index]

FillVlenObjRefLocs ==
    /\ phase = "locs"
    /\ LET o == order[at]
       IN  refLocs' = [refLocs EXCEPT ![o] =
               [i \in 1..Len(refOrdinals[o]) |-> HeapRef(refOrdinals[o][i])]]
    /\ Advance("emit")
    /\ UNCHANGED <<tree, planning, resolving, heap, ordinals, refOrdinals, packed, image>>

-----------------------------------------------------------------------------
(* The last pass: every structure is written where room was made for it *)

Table(g) == <<PlacedAs(g, "btree").addr, PlacedAs(g, "local heap").addr>>

\* snod_entries: an owned sub-group's entry caches the addresses of its table.
SnodEntries(g) ==
    IF IsLinkStyle(g) THEN <<>>
    ELSE [i \in 1..Len(MembersOf(g)) |->
             LET m == MembersOf(g)[i]
             IN  [addr |-> LinkAddr(g, i),
                  table |-> IF m.kind = "owned" /\ m.to \in Groups THEN Table(m.to) ELSE <<>>]]

\* Mutant: the header of a dense group is written with its links in it.
WrittenHeaderLinks(g) == IF IsLinkStyle(g) THEN links[g] ELSE <<>>

\* The link messages written into an object's header.
EmittedLinks(o) == IF IsLinkStyle(o) THEN HeaderLinks(o, links[o]) ELSE <<>>

\* What is written for a structure: a header, or the entries of anything else.
Content(p) ==
    LET o == p.of
    IN  CASE p.kind = "header" ->
               [kind |-> p.kind, of |-> o, refcount |-> refcount[o],
                entries |-> refLocs[o] \o EmittedLinks(o)]
          [] p.kind \in {"link heap", "link index"} ->
               [kind |-> p.kind, of |-> o, entries |-> links[o]]
          [] p.kind \in {"local heap", "snods"} ->
               [kind |-> p.kind, of |-> o, entries |-> SnodEntries(o)]
          [] p.kind = "vlen refs" ->
               [kind |-> p.kind, of |-> o,
                entries |-> [i \in 1..Len(ordinals[o]) |-> HeapRef(ordinals[o][i])]]
          [] OTHER ->   \* bytes that do not depend on addresses
               [kind |-> p.kind, of |-> o, entries |-> [i \in 1..p.count |-> 0]]

\* An image with these structures written over it; a structure of no bytes leaves
\* no trace.
Over(old, new) == [addr \in DOMAIN old \cup DOMAIN new |->
                      IF addr \in DOMAIN new THEN new[addr] ELSE old[addr]]

Written(o) ==
    LET mine == {i \in 1..Len(layout) :
                    LET p == layout[i].piece
                    IN  p.of = o /\ p.kind # "collection" /\ Size(p.kind, p.count) > 0}
    IN  [addr \in {layout[i].addr : i \in mine} |->
            Content(layout[CHOOSE i \in mine : layout[i].addr = addr].piece)]

\* check_size: nothing is written but what room was made for.
Fits(o) == \A i \in 1..Len(layout) :
    LET p == layout[i].piece
    IN  p.of = o /\ p.kind # "collection" => Len(Content(p).entries) = p.count

\* emit_group, emit_dataset.
Emit ==
    /\ phase = "emit"
    /\ LET o == order[at]
       IN  IF Fits(o) THEN image' = Over(image, Written(o)) /\ Advance("heap")
                      ELSE phase' = "failed" /\ UNCHANGED <<at, image>>
    /\ UNCHANGED <<tree, planning, resolving, heaping>>

EmitCollections ==
    /\ phase = "heap"
    /\ LET at_addr(addr) == CHOOSE c \in 1..Len(collections) : collection_addrs[c] = addr
       IN  image' = Over(image,
               [addr \in {collection_addrs[c] : c \in 1..Len(collections)} |->
                   [kind |-> "collection", of |-> rootGroup, entries |-> collections[at_addr(addr)]]])
    /\ phase' = "done"
    /\ UNCHANGED <<tree, at, planning, resolving, heaping>>

-----------------------------------------------------------------------------

LayoutNext == \/ PlanGroup \/ PlanDataset \/ Reserve \/ FinishPlan
              \/ FillObjRefs \/ ResolveLinkTargets \/ ApplyRefcounts \/ PatchLinks
              \/ RegisterVlenStrings \/ RegisterVlenObjRefs
              \/ BuildCollections \/ PlaceCollection \/ FinishPlacing
              \/ FillVlenObjRefLocs \/ Emit \/ EmitCollections

LayoutSpec == LayoutInit /\ [][LayoutNext]_layoutVars

-----------------------------------------------------------------------------
(* Properties *)

\* The types of what the layout pass works on.
LayoutTypeOK ==
    /\ todo \in Seq(Piece)
    /\ \A i \in 1..Len(todo) : todo[i].of \in DOMAIN tree.refs
    /\ cursor \in Nat
    /\ layout \in Seq([addr: Nat, piece: Piece])
    /\ \A i \in 1..Len(layout) : layout[i].piece.kind \in Kind

End(placed) == placed.addr + Size(placed.piece.kind, placed.piece.count)

\* No byte of the file is promised to two structures, none lies before the space
\* behind the superblock, and the file ends behind the last of them.
RegionsDisjoint ==
    \A i \in 1..Len(layout) :
        /\ ROOT_OH_ADDR <= layout[i].addr /\ End(layout[i]) <= cursor
        /\ \A j \in (i + 1)..Len(layout) : End(layout[i]) <= layout[j].addr

\* Some target that must be an object in this file is not, or some dataset cannot
\* be laid out at all.
Unbuildable ==
    LET all == DOMAIN tree.refs
    IN  \/ \E o \in all \ Groups : tree.data[o].kind = "refused"
        \/ \E o \in all : \E i \in 1..Len(tree.refs[o]) :
               \E j \in 1..Len(tree.refs[o][i]) : tree.refs[o][i][j] \notin all
        \/ \E g \in Groups : \E i \in HardAliases(g) : tree.links[g][i] \notin all

\* The build fails exactly when it must: no target that is no object is written,
\* and no structure turns out to need other room than was reserved for it.
FailsIffUnbuildable == /\ phase = "failed" => Unbuildable
                       /\ phase = "done" => ~Unbuildable

Hard(g) == {i \in 1..Len(MembersOf(g)) : MembersOf(g)[i].kind # "soft"}

\* The address the image holds for a member, wherever its group keeps its links.
LinkInImage(g, i) ==
    CASE IsDense(g) -> image[PlacedAs(g, "link heap").addr].entries[i]
      [] IsLinkStyle(g) /\ ~IsDense(g) ->
           image[Addr(g)].entries[Len(tree.refs[g]) + i]
      [] OTHER -> image[PlacedAs(g, "snods").addr].entries[i].addr

HeaderOf(o, addr) == /\ addr \in DOMAIN image
                     /\ image[addr].kind = "header" /\ image[addr].of = o

\* Every hard link in the finished image addresses the header of the object its path
\* names, and every cached table is the sub-group's own.
LinksReachTheirObjects ==
    phase = "done" => \A g \in Groups : \A i \in Hard(g) :
        LET m == MembersOf(g)[i]
        IN  /\ HeaderOf(m.to, LinkInImage(g, i))
            /\ ~IsLinkStyle(g) =>
                 LET table == image[PlacedAs(g, "snods").addr].entries[i].table
                 IN  table # <<>> =>
                        /\ image[table[1]].kind = "btree" /\ image[table[1]].of = m.to
                        /\ image[table[2]].kind = "local heap" /\ image[table[2]].of = m.to

\* A header's reference count is the number of hard links in the image that reach
\* it, the superblock's link to the root group among them.
RefcountsCountLinks ==
    phase = "done" => \A o \in DOMAIN tree.refs :
        LET reaching == UNION {{<<g, i>> : i \in {k \in Hard(g) : LinkInImage(g, k) = Addr(o)}}
                                  : g \in Groups}
        IN  image[Addr(o)].refcount = Cardinality(reaching) + (IF o = rootGroup THEN 1 ELSE 0)

\* The links of the finished image are the tree's: each reaches its object, and each
\* object counts exactly those that do (plan.rs:561, plan.rs:729).
LinksAreTrue == LinksReachTheirObjects /\ RefcountsCountLinks

InHeap(ref) == image[ref.addr].entries[ref.index]

\* Every heap reference in the image leads to the value it was written for: an
\* element of a variable-length dataset, or the addresses of the objects a
\* reference sequence names; an empty sequence is the null reference.
HeapRefsResolve ==
    phase = "done" => \A o \in DOMAIN tree.refs :
        /\ \A i \in 1..Len(tree.refs[o]) :
             LET ref == image[Addr(o)].entries[i]
                 names == tree.refs[o][i]
             IN  IF names = <<>> THEN ref = Null
                 ELSE /\ ref # Null /\ Len(InHeap(ref)) = Len(names)
                      /\ \A j \in 1..Len(names) : HeaderOf(names[j], InHeap(ref)[j])
        /\ IsVlen(o) =>
             \A i \in 1..Len(tree.data[o].elements) :
                LET ref == image[PlacedAs(o, "vlen refs").addr].entries[i]
                IN  IF tree.data[o].elements[i] THEN ref # Null /\ InHeap(ref) = <<o, i>>
                    ELSE ref = Null
=============================================================================
