--------------------------- MODULE FileLayoutProofs ---------------------------
(***************************************************************************)
(* Proofs about the layout of the file, for every tree, every size and any *)
(* division of the heap's values into collections.                         *)
(*                                                                         *)
(* First, the structures of the file do not overlap.  The argument is that *)
(* of the code, a cursor that starts behind the superblock and only ever   *)
(* moves past what it placed; what needs an invariant is that every size   *)
(* is a number, hence that the walk visits only objects of the tree and    *)
(* meets well-formed plans.                                                *)
(*                                                                         *)
(* Then what the build makes of them.  BuildInv adds, pass by pass, what a *)
(* pass establishes for the objects it has visited: PlanInv for the walk   *)
(* (every object once, every structure of a planned object listed or       *)
(* placed), ResolvedInv for addresses, counts and link messages, HeapInv   *)
(* for the values of the global heap, and the contents of the image for    *)
(* emission.  With it a finished image keeps its promises: its links reach *)
(* their objects, its counts count them, its references lead to their      *)
(* values, and only a tree that cannot be written makes a build fail.      *)
(***************************************************************************)
EXTENDS FileLayout, FiniteSetTheorems, TLAPS

\* A later pass stands at an object of the tree; the first has one still to come.
WalkOK ==
    /\ order \in Seq(DOMAIN tree.refs)
    /\ at \in Nat
    /\ phase = "plan" => /\ at = 1
                         /\ order = <<>> => todo # <<>> /\ Head(todo).kind = "object"
    /\ phase \notin {"plan", "failed"} => at \in 1..Len(order)

\* Sequences of whatever elements, as far as lengths go.
LengthsOK ==
    /\ DOMAIN refs = DOMAIN tree.refs
    /\ \A o \in DOMAIN tree.refs : Len(refs[o]) \in Nat
    /\ \E S : heap \in Seq(S)
    /\ Len(collections) \in Nat
    /\ \A c \in 1..Len(collections) : Len(collections[c]) \in Nat
    /\ collection_addrs \in Seq(Nat)

LayoutOK == tree \in Tree /\ ROOT_OH_ADDR <= cursor /\ LayoutTypeOK /\ RegionsDisjoint

IInv == LayoutOK /\ WalkOK /\ LengthsOK

-----------------------------------------------------------------------------
(* Sizes and sequences *)

LEMMA SizeIsNatural ==
    ASSUME NEW kind \in Kind, NEW count \in Nat
    PROVE  Size(kind, count) \in Nat
<1>1. Fixed[kind] \in Nat /\ PerEntry[kind] \in Nat
  BY SizeAssumption
<1>2. count * PerEntry[kind] \in Nat
  BY <1>1
<1> QED
  BY <1>1, <1>2 DEF Size

LEMMA AppendFacts ==
    ASSUME NEW T, NEW s \in Seq(T), NEW e \in T
    PROVE  /\ Append(s, e) \in Seq(T)
           /\ Len(Append(s, e)) = Len(s) + 1 /\ Len(s) \in Nat
           /\ Append(s, e)[Len(s) + 1] = e
           /\ \A i \in 1..Len(s) : Append(s, e)[i] = s[i]
  OBVIOUS

LEMMA ConcatFacts ==
    ASSUME NEW T, NEW s \in Seq(T), NEW t \in Seq(T)
    PROVE  /\ s \o t \in Seq(T)
           /\ \A i \in 1..Len(s \o t) :
                (s \o t)[i] \in {s[j] : j \in 1..Len(s)} \cup {t[j] : j \in 1..Len(t)}
<1>1. s \o t \in Seq(T) /\ Len(s \o t) = Len(s) + Len(t) /\ Len(s) \in Nat /\ Len(t) \in Nat
  OBVIOUS
<1>2. ASSUME NEW i \in 1..Len(s \o t)
      PROVE  (s \o t)[i] \in {s[j] : j \in 1..Len(s)} \cup {t[j] : j \in 1..Len(t)}
  <2>1. CASE i <= Len(s)
    BY <1>1, <2>1
  <2>2. CASE i > Len(s)
    <3>1. i - Len(s) \in 1..Len(t) /\ (s \o t)[i] = t[i - Len(s)]
      BY <1>1, <2>2
    <3> QED
      BY <3>1
  <2> QED
    BY <1>1, <2>1, <2>2
<1> QED
  BY <1>1, <1>2

LEMMA FunctionIsSequence ==
    ASSUME NEW T, NEW n \in Nat, NEW f \in [1..n -> T]
    PROVE  f \in Seq(T) /\ Len(f) = n
  OBVIOUS

LEMMA CountedIsNatural ==
    ASSUME NEW n \in Nat, NEW S \in SUBSET (1..n)
    PROVE  Cardinality(S) \in Nat
<1>1. IsFiniteSet(1..n)
  BY FS_Interval
<1> QED
  BY <1>1, FS_Subset, FS_CardinalityType

-----------------------------------------------------------------------------
(* The plans of groups and datasets are well-formed *)

LEMMA TreeFacts ==
    ASSUME tree \in Tree
    PROVE  /\ rootGroup \in Groups /\ rootGroup \in Object
           /\ DOMAIN tree.refs = Groups \cup DOMAIN tree.data
           /\ DOMAIN tree.refs \subseteq Object
           /\ \A g \in Groups : /\ tree.groups[g] \in Seq(Groups)
                                /\ tree.datasets[g] \in Seq(DOMAIN tree.data)
                                /\ tree.links[g] \in Seq(Object \cup {Nowhere, Soft})
           /\ \A o \in DOMAIN tree.refs : Len(tree.refs[o]) \in Nat
           /\ \A d \in DOMAIN tree.data :
                \/ tree.data[d].kind = "raw" /\ tree.data[d].bytes \in Nat
                \/ tree.data[d].kind = "vlen" /\ tree.data[d].elements \in Seq(BOOLEAN)
                \/ tree.data[d].kind = "chunked" /\ tree.data[d].chunks \in Seq(Nat)
                \/ tree.data[d].kind = "refused"
<1> DEFINE groups == DOMAIN tree.groups
           all == groups \cup DOMAIN tree.data
<1>1. /\ rootGroup \in groups /\ all \subseteq Object
      /\ tree.groups \in [groups -> Seq(groups)]
      /\ tree.datasets \in [groups -> Seq(DOMAIN tree.data)]
      /\ tree.links \in [groups -> Seq(Object \cup {Nowhere, Soft})]
      /\ tree.refs \in [all -> Seq(Seq(Object \cup {Nowhere}))]
      /\ \A d \in DOMAIN tree.data :
           \/ tree.data[d].kind = "raw" /\ tree.data[d].bytes \in Nat
           \/ tree.data[d].kind = "vlen" /\ tree.data[d].elements \in Seq(BOOLEAN)
           \/ tree.data[d].kind = "chunked" /\ tree.data[d].chunks \in Seq(Nat)
           \/ tree.data[d].kind = "refused"
  BY TreeAssumption
<1>2. \A o \in all : Len(tree.refs[o]) \in Nat
  BY <1>1
<1> QED
  BY <1>1, <1>2 DEF Groups

\* Every group has a number of members.
LEMMA MembersAreASequence ==
    ASSUME tree \in Tree, NEW g \in Groups
    PROVE  Len(MembersOf(g)) \in Nat
<1> DEFINE M == [kind: {"owned", "alias", "soft"}, to: Object \cup {Nowhere, Soft}, nth: Nat]
           Owning(s) == [i \in 1..Len(s) |-> [kind |-> "owned", to |-> s[i], nth |-> i]]
           Desc(s) == [i \in 1..Len(s) |->
                          [kind |-> IF s[i] = Soft THEN "soft" ELSE "alias",
                           to |-> s[i], nth |-> i]]
<1>1. ASSUME NEW s \in Seq(Object) PROVE Owning(s) \in Seq(M)
  <2>1. \A i \in 1..Len(s) : Owning(s)[i] \in M
    BY <1>1
  <2> QED
    BY <1>1, <2>1
<1>2. ASSUME NEW s \in Seq(Object \cup {Nowhere, Soft}) PROVE Desc(s) \in Seq(M)
  <2>1. \A i \in 1..Len(s) : Desc(s)[i] \in M
    BY <1>2
  <2> QED
    BY <1>2, <2>1
<1>3. /\ tree.datasets[g] \in Seq(Object) /\ tree.groups[g] \in Seq(Object)
      /\ tree.links[g] \in Seq(Object \cup {Nowhere, Soft})
  <2>1. Groups \subseteq Object /\ DOMAIN tree.data \subseteq Object
    BY TreeFacts
  <2>2. \A S, T : S \subseteq T => Seq(S) \subseteq Seq(T)
    OBVIOUS
  <2> QED
    BY <2>1, <2>2, TreeFacts
<1>4. MembersOf(g) = Owning(tree.datasets[g]) \o Owning(tree.groups[g]) \o Desc(tree.links[g])
  BY DEF MembersOf
<1>5. /\ Owning(tree.datasets[g]) \in Seq(M) /\ Owning(tree.groups[g]) \in Seq(M)
      /\ Desc(tree.links[g]) \in Seq(M)
  BY <1>1, <1>2, <1>3
<1> HIDE DEF M, Owning, Desc
<1>6. MembersOf(g) \in Seq(M)
  BY <1>4, <1>5
<1> QED
  BY <1>6

StructurePiece == [of: DOMAIN tree.refs, kind: Kind, count: Nat]
ObjectPiece == [of: DOMAIN tree.refs, kind: {"object"}, count: Nat]
Todo == StructurePiece \cup ObjectPiece

LEMMA StructureIsTyped ==
    ASSUME NEW o \in DOMAIN tree.refs, NEW kind \in Kind, NEW count \in Nat
    PROVE  Structure(o, kind, count) \in Seq(Todo)
<1>1. [of |-> o, kind |-> kind, count |-> count] \in Todo
  BY DEF Todo, StructurePiece
<1> QED
  BY <1>1 DEF Structure

LEMMA ObjectsAreTyped ==
    ASSUME NEW s \in Seq(DOMAIN tree.refs)
    PROVE  Objects(s) \in Seq(Todo)
<1>1. \A i \in 1..Len(s) : Objects(s)[i] \in Todo
  BY DEF Objects, Todo, ObjectPiece
<1> QED
  BY <1>1 DEF Objects

LEMMA GroupPiecesAreTyped ==
    ASSUME tree \in Tree, NEW g \in Groups
    PROVE  GroupPieces(g) \in Seq(Todo)
<1> DEFINE n == Len(MembersOf(g))
           listed == IF IsLinkStyle(g) THEN 0 ELSE n
           m == Len(tree.refs[g]) + Len(HeaderLinks(g, MembersOf(g)))
           dense == IF IsDense(g) THEN Structure(g, "link heap", n) \o Structure(g, "link index", n)
                                  ELSE <<>>
<1>1. n \in Nat /\ listed \in Nat /\ g \in DOMAIN tree.refs
  BY MembersAreASequence, TreeFacts
<1>2. m \in Nat
  <2>1. Len(HeaderLinks(g, MembersOf(g))) \in Nat
    BY <1>1 DEF HeaderLinks
  <2> QED
    BY <1>1, <2>1, TreeFacts
<1>3. GroupPieces(g) = Structure(g, "header", m) \o dense \o Structure(g, "btree", 1)
                       \o Structure(g, "local heap", listed) \o Structure(g, "snods", listed)
  BY DEF GroupPieces
<1> HIDE DEF n, listed, m
<1>4. dense \in Seq(Todo)
  <2>1. Structure(g, "link heap", n) \in Seq(Todo) /\ Structure(g, "link index", n) \in Seq(Todo)
    BY <1>1, StructureIsTyped DEF Kind
  <2>2. <<>> \in Seq(Todo)
    OBVIOUS
  <2>3. Structure(g, "link heap", n) \o Structure(g, "link index", n) \in Seq(Todo)
    BY <2>1, ConcatFacts
  <2> QED
    BY <2>2, <2>3
<1>5. /\ Structure(g, "header", m) \in Seq(Todo) /\ Structure(g, "btree", 1) \in Seq(Todo)
      /\ Structure(g, "local heap", listed) \in Seq(Todo)
      /\ Structure(g, "snods", listed) \in Seq(Todo)
  BY <1>1, <1>2, StructureIsTyped DEF Kind
<1> HIDE DEF dense
<1>6. \A s, t \in Seq(Todo) : s \o t \in Seq(Todo)
  BY ConcatFacts
<1> DEFINE s1 == Structure(g, "header", m) \o dense
           s2 == s1 \o Structure(g, "btree", 1)
           s3 == s2 \o Structure(g, "local heap", listed)
<1>7. s1 \in Seq(Todo)
  BY <1>4, <1>5, <1>6
<1>8. s2 \in Seq(Todo)
  <2> HIDE DEF s1
  <2> QED
    BY <1>5, <1>6, <1>7
<1>9. s3 \in Seq(Todo)
  <2> HIDE DEF s2
  <2> QED
    BY <1>5, <1>6, <1>8
<1> QED
  <2>1. GroupPieces(g) = s3 \o Structure(g, "snods", listed)
    BY <1>3
  <2> HIDE DEF s3
  <2> QED
    BY <1>5, <1>6, <1>9, <2>1

LEMMA DatasetPiecesAreTyped ==
    ASSUME tree \in Tree, NEW d \in DOMAIN tree.data
    PROVE  DatasetPieces(d) \in Seq(Todo)
<1> DEFINE data == tree.data[d]
           head == Structure(d, "header", Len(tree.refs[d]))
<1>1. d \in DOMAIN tree.refs /\ Len(tree.refs[d]) \in Nat
  BY TreeFacts
<1>2. head \in Seq(Todo)
  BY <1>1, StructureIsTyped DEF Kind
<1> HIDE DEF head
<1>7. \A s, t \in Seq(Todo) : s \o t \in Seq(Todo)
  BY ConcatFacts
<1>3. CASE data.kind = "raw" /\ data.bytes \in Nat
  <2>1. DatasetPieces(d) = head \o Structure(d, "data", data.bytes)
    BY <1>3 DEF DatasetPieces, head
  <2>2. Structure(d, "data", data.bytes) \in Seq(Todo)
    BY <1>1, <1>3, StructureIsTyped DEF Kind
  <2> QED
    BY <1>2, <1>7, <2>1, <2>2
<1>4. CASE data.kind = "vlen" /\ data.elements \in Seq(BOOLEAN)
  <2>1. DatasetPieces(d) = head \o Structure(d, "vlen refs", Len(data.elements))
    BY <1>4 DEF DatasetPieces, head
  <2>2. Structure(d, "vlen refs", Len(data.elements)) \in Seq(Todo)
    <3>1. Len(data.elements) \in Nat
      BY <1>4
    <3> QED
      BY <1>1, <3>1, StructureIsTyped DEF Kind
  <2> QED
    BY <1>2, <1>7, <2>1, <2>2
<1>5. CASE data.kind = "chunked" /\ data.chunks \in Seq(Nat)
  <2> DEFINE index == Structure(d, "chunk index", Len(data.chunks))
             chunks == [i \in 1..Len(data.chunks) |-> Structure(d, "data", data.chunks[i])[1]]
  <2>1. DatasetPieces(d) = head \o (index \o chunks)
    BY <1>5 DEF DatasetPieces, head
  <2>2. Len(data.chunks) \in Nat
    BY <1>5
  <2>3. index \in Seq(Todo)
    BY <1>1, <2>2, StructureIsTyped DEF Kind
  <2>4. ASSUME NEW i \in 1..Len(data.chunks)
        PROVE  Structure(d, "data", data.chunks[i])[1] \in Todo
    <3>1. data.chunks[i] \in Nat
      BY <1>5
    <3> HIDE DEF data
    <3>2. [of |-> d, kind |-> "data", count |-> data.chunks[i]] \in Todo
      BY <1>1, <3>1 DEF Todo, StructurePiece, Kind
    <3> QED
      BY <3>2 DEF Structure
  <2>5. chunks \in [1..Len(data.chunks) -> Todo]
    BY <2>4
  <2>6. chunks \in Seq(Todo)
    <3> HIDE DEF chunks
    <3> QED
      BY <2>2, <2>5, FunctionIsSequence
  <2> HIDE DEF index, chunks
  <2> QED
    BY <1>2, <1>7, <2>1, <2>3, <2>6
<1>6. CASE data.kind = "refused"
  <2>1. DatasetPieces(d) = head \o <<>>
    BY <1>6 DEF DatasetPieces, head
  <2> QED
    BY <1>2, <2>1
<1> QED
  BY <1>3, <1>4, <1>5, <1>6, TreeFacts

\* What the layout pass has to do, as LayoutTypeOK states it.
LEMMA TodoIsTyped ==
    ASSUME tree \in Tree, NEW s
    PROVE  s \in Seq(Todo) <=> /\ s \in Seq(Piece)
                               /\ \A i \in 1..Len(s) : s[i].of \in DOMAIN tree.refs
<1>1. DOMAIN tree.refs \subseteq Object
  BY TreeFacts
<1>2. Todo \subseteq Piece /\ \A p \in Todo : p.of \in DOMAIN tree.refs
  BY <1>1 DEF Todo, StructurePiece, ObjectPiece, Piece
<1>3. \A p \in Piece : p.of \in DOMAIN tree.refs => p \in Todo
  BY DEF Todo, StructurePiece, ObjectPiece, Piece
<1> HIDE DEF Todo, Piece
<1>4. s \in Seq(Todo) => s \in Seq(Piece) /\ \A i \in 1..Len(s) : s[i].of \in DOMAIN tree.refs
  BY <1>2
<1>5. ASSUME s \in Seq(Piece), \A i \in 1..Len(s) : s[i].of \in DOMAIN tree.refs
      PROVE  s \in Seq(Todo)
  <2>1. \A i \in 1..Len(s) : s[i] \in Piece
    BY <1>5
  <2>2. \A i \in 1..Len(s) : s[i] \in Todo
    BY <1>3, <1>5, <2>1
  <2> QED
    BY <1>5, <2>2
<1> QED
  BY <1>4, <1>5

-----------------------------------------------------------------------------
(* Nothing overlaps: what each step does to the layout *)

\* A structure placed at the cursor, which then moves past it.
LEMMA PlacingKeepsRegions ==
    ASSUME LayoutOK, NEW piece \in Piece, piece.kind \in Kind,
           layout' = Append(layout, [addr |-> cursor, piece |-> piece]),
           cursor' = Past(piece)
    PROVE  /\ cursor' \in Nat /\ ROOT_OH_ADDR <= cursor'
           /\ layout' \in Seq([addr: Nat, piece: Piece])
           /\ \A i \in 1..Len(layout') : layout'[i].piece.kind \in Kind
           /\ RegionsDisjoint'
<1> DEFINE T == [addr: Nat, piece: Piece]
           new == [addr |-> cursor, piece |-> piece]
<1>1. /\ cursor \in Nat /\ ROOT_OH_ADDR \in Nat /\ ROOT_OH_ADDR <= cursor
      /\ layout \in Seq(T) /\ new \in T
      /\ \A i \in 1..Len(layout) : layout[i].piece.kind \in Kind
  BY AddressAssumption DEF LayoutOK, LayoutTypeOK
<1>2. Size(piece.kind, piece.count) \in Nat
  BY SizeIsNatural DEF Piece
<1>3. cursor' \in Nat /\ cursor <= cursor' /\ End(new) = cursor'
  BY <1>1, <1>2 DEF Past, End
<1>4. /\ layout' \in Seq(T) /\ Len(layout') = Len(layout) + 1 /\ Len(layout) \in Nat
      /\ layout'[Len(layout) + 1] = new
      /\ \A i \in 1..Len(layout) : layout'[i] = layout[i]
  <2> HIDE DEF T
  <2> QED
    BY <1>1, AppendFacts
<1>5. \A i \in 1..Len(layout') : layout'[i].piece.kind \in Kind
  BY <1>1, <1>4
<1>6. \A i \in 1..Len(layout) :
        /\ ROOT_OH_ADDR <= layout[i].addr /\ End(layout[i]) <= cursor
        /\ End(layout[i]) \in Nat
        /\ \A j \in (i + 1)..Len(layout) : End(layout[i]) <= layout[j].addr
  <2> SUFFICES ASSUME NEW i \in 1..Len(layout) PROVE End(layout[i]) \in Nat
    BY DEF LayoutOK, RegionsDisjoint
  <2>1. layout[i].addr \in Nat /\ layout[i].piece \in Piece /\ layout[i].piece.kind \in Kind
    <3> HIDE DEF T
    <3>1. layout[i] \in T
      BY <1>1
    <3> USE DEF T
    <3> QED
      BY <1>1, <3>1
  <2>2. Size(layout[i].piece.kind, layout[i].piece.count) \in Nat
    BY <2>1, SizeIsNatural DEF Piece
  <2> QED
    BY <2>1, <2>2 DEF End
<1>7. ASSUME NEW i \in 1..Len(layout')
      PROVE  /\ ROOT_OH_ADDR <= layout'[i].addr /\ End(layout'[i]) <= cursor'
             /\ \A j \in (i + 1)..Len(layout') : End(layout'[i]) <= layout'[j].addr
  <2>1. CASE i = Len(layout) + 1
    BY <1>1, <1>3, <1>4, <2>1
  <2>2. CASE i # Len(layout) + 1
    <3>1. i \in 1..Len(layout) /\ layout'[i] = layout[i]
      BY <1>4, <2>2
    <3>2. ASSUME NEW j \in (i + 1)..Len(layout') PROVE End(layout[i]) <= layout'[j].addr
      <4>1. CASE j = Len(layout) + 1
        BY <1>4, <1>6, <3>1, <4>1
      <4>2. CASE j # Len(layout) + 1
        <5>1. j \in (i + 1)..Len(layout) /\ layout'[j] = layout[j]
          <6> DEFINE n == Len(layout)
          <6>1. n \in Nat /\ i \in 1..n /\ j \in (i + 1)..(n + 1) /\ j # n + 1
            BY <1>4, <3>1, <4>2
          <6> HIDE DEF n
          <6>2. j \in (i + 1)..n /\ j \in 1..n
            BY <6>1
          <6> QED
            BY <1>4, <6>2 DEF n
        <5> QED
          BY <1>6, <3>1, <5>1
      <4> QED
        BY <4>1, <4>2
    <3>3. End(layout[i]) <= cursor'
      BY <1>1, <1>3, <1>6, <3>1
    <3> QED
      BY <1>6, <3>1, <3>2, <3>3
  <2> QED
    BY <2>1, <2>2
<1>8. RegionsDisjoint'
  BY <1>7 DEF RegionsDisjoint, End
<1> QED
  BY <1>1, <1>3, <1>4, <1>5, <1>8

\* Planning an object replaces it, in what is to be done, by its pieces.
LEMMA PlanningKeepsLayout ==
    ASSUME LayoutOK, NEW pieces \in Seq(Todo), todo # <<>>,
           todo' = pieces \o Tail(todo), UNCHANGED <<tree, cursor, layout>>
    PROVE  LayoutOK'
<1>1. Tail(todo) \in Seq(Todo)
  <2>1. todo \in Seq(Todo)
    BY TodoIsTyped DEF LayoutOK, LayoutTypeOK
  <2> HIDE DEF Todo
  <2> QED
    BY <2>1
<1>2. todo' \in Seq(Todo)
  BY <1>1, ConcatFacts
<1>3. /\ todo' \in Seq(Piece)
      /\ \A i \in 1..Len(todo') : todo'[i].of \in DOMAIN tree.refs
  BY <1>2, TodoIsTyped DEF LayoutOK
<1>4. LayoutTypeOK' /\ RegionsDisjoint'
  BY <1>3 DEF LayoutOK, LayoutTypeOK, RegionsDisjoint
<1> QED
  BY <1>4 DEF LayoutOK

LEMMA LayoutUnchanged ==
    ASSUME LayoutOK, UNCHANGED <<tree, todo, cursor, layout>>
    PROVE  LayoutOK'
  BY DEF LayoutOK, LayoutTypeOK, RegionsDisjoint

LEMMA ReserveKeepsLayout ==
    ASSUME LayoutOK, Reserve
    PROVE  LayoutOK'
<1> DEFINE piece == Head(todo)
<1>1. todo \in Seq(Todo) /\ todo # <<>>
  BY TodoIsTyped DEF LayoutOK, LayoutTypeOK, Reserve
<1>2. piece \in Todo /\ Tail(todo) \in Seq(Todo)
  <2> HIDE DEF Todo
  <2> QED
    BY <1>1
<1>3. piece \in Piece /\ piece.kind \in Kind
  <2>1. DOMAIN tree.refs \subseteq Object
    BY TreeFacts DEF LayoutOK
  <2> QED
    BY <1>2, <2>1 DEF Reserve, Todo, StructurePiece, ObjectPiece, Piece
<1>4. layout' = Append(layout, [addr |-> cursor, piece |-> piece]) /\ cursor' = Past(piece)
  BY DEF Reserve
<1>5. /\ Tail(todo) \in Seq(Piece)
      /\ \A i \in 1..Len(Tail(todo)) : Tail(todo)[i].of \in DOMAIN tree.refs
  BY <1>2, TodoIsTyped DEF LayoutOK
<1> HIDE DEF piece
<1>6. /\ cursor' \in Nat /\ ROOT_OH_ADDR <= cursor'
      /\ layout' \in Seq([addr: Nat, piece: Piece])
      /\ \A i \in 1..Len(layout') : layout'[i].piece.kind \in Kind
      /\ RegionsDisjoint'
  BY <1>3, <1>4, PlacingKeepsRegions
<1> QED
  BY <1>5, <1>6 DEF LayoutOK, LayoutTypeOK, Reserve

-----------------------------------------------------------------------------
(* The walks of the later passes *)

LEMMA AdvanceKeepsWalk ==
    ASSUME WalkOK, phase \notin {"plan", "failed"}, NEW next, next # "plan",
           Advance(next), UNCHANGED <<tree, order>>
    PROVE  WalkOK'
<1>1. order \in Seq(DOMAIN tree.refs) /\ Len(order) \in Nat /\ at \in 1..Len(order)
  BY DEF WalkOK
<1>2. CASE at = Len(order)
  BY <1>1, <1>2 DEF WalkOK, Advance
<1>3. CASE at # Len(order)
  <2>1. at' = at + 1 /\ at' \in 1..Len(order) /\ phase' = phase
    BY <1>1, <1>3 DEF Advance
  <2> QED
    BY <1>1, <2>1 DEF WalkOK
<1> QED
  BY <1>2, <1>3

LEMMA FailureKeepsWalk ==
    ASSUME WalkOK, phase' = "failed", UNCHANGED <<tree, order, at>>
    PROVE  WalkOK'
  BY DEF WalkOK

\* The object a pass stands at is one of the tree's.
LEMMA StandsInTree ==
    ASSUME WalkOK, phase \notin {"plan", "failed"}
    PROVE  order[at] \in DOMAIN tree.refs
  BY DEF WalkOK

LEMMA PlanningKeepsWalk ==
    ASSUME WalkOK, phase = "plan", NEW o \in DOMAIN tree.refs, order' = Append(order, o),
           UNCHANGED <<tree, phase, at>>
    PROVE  WalkOK'
<1>1. order' \in Seq(DOMAIN tree.refs) /\ Len(order') = Len(order) + 1 /\ Len(order) \in Nat
  BY AppendFacts DEF WalkOK
<1>2. order' # <<>>
  BY <1>1
<1> QED
  BY <1>1, <1>2 DEF WalkOK

LEMMA LengthsUnchanged ==
    ASSUME LengthsOK, UNCHANGED <<tree, refs, heap, collections, collection_addrs>>
    PROVE  LengthsOK'
  BY DEF LengthsOK

\* Registering values leaves the heap a sequence.
LEMMA RegisteringKeepsLengths ==
    ASSUME LengthsOK, NEW values, NEW present, Len(present) \in Nat,
           heap' = heap \o Chosen(values, present),
           UNCHANGED <<tree, refs, collections, collection_addrs>>
    PROVE  LengthsOK'
<1>1. PICK S : heap \in Seq(S)
  BY DEF LengthsOK
<1> DEFINE n == Registered(present, Len(present))
           chosen(k) == values[CHOOSE i \in 1..Len(present) :
                                  present[i] /\ Registered(present, i) = k]
           T == {chosen(k) : k \in 1..n}
<1>2. n \in Nat
  <2>1. {j \in 1..Len(present) : present[j]} \in SUBSET (1..Len(present))
    OBVIOUS
  <2> QED
    BY <2>1, CountedIsNatural DEF Registered
<1>3. Chosen(values, present) = [k \in 1..n |-> chosen(k)]
  BY DEF Chosen
<1> HIDE DEF n, chosen
<1>4. Chosen(values, present) \in Seq(T)
  <2>1. \A k \in 1..n : chosen(k) \in T
    OBVIOUS
  <2> HIDE DEF T
  <2>2. Chosen(values, present) \in [1..n -> T]
    BY <1>3, <2>1
  <2> QED
    BY <1>2, <2>2
<1>5. heap \in Seq(S \cup T) /\ Chosen(values, present) \in Seq(S \cup T)
  <2>1. \A A, B : A \subseteq B => Seq(A) \subseteq Seq(B)
    OBVIOUS
  <2> HIDE DEF T
  <2> QED
    BY <1>1, <1>4, <2>1
<1>6. heap' \in Seq(S \cup T)
  <2> HIDE DEF T
  <2> QED
    BY <1>5, ConcatFacts
<1> QED
  BY <1>6 DEF LengthsOK

-----------------------------------------------------------------------------
(* Every step keeps the invariant *)

LEMMA PlanGroupKeeps ==
    ASSUME IInv, PlanGroup
    PROVE  IInv'
<1> DEFINE g == Head(todo).of
           pieces == GroupPieces(g) \o Objects(tree.datasets[g]) \o Objects(tree.groups[g])
<1>1. /\ phase = "plan" /\ todo # <<>> /\ g \in Groups
      /\ order' = Append(order, g) /\ UNCHANGED <<tree, phase, cursor, layout, at>>
  BY DEF PlanGroup
<1>2. tree \in Tree
  BY DEF IInv, LayoutOK
<1>3. /\ GroupPieces(g) \in Seq(Todo) /\ Objects(tree.datasets[g]) \in Seq(Todo)
      /\ Objects(tree.groups[g]) \in Seq(Todo) /\ g \in DOMAIN tree.refs
  <2>1. /\ tree.datasets[g] \in Seq(DOMAIN tree.refs)
        /\ tree.groups[g] \in Seq(DOMAIN tree.refs) /\ g \in DOMAIN tree.refs
    <3>1. \A A, B : A \subseteq B => Seq(A) \subseteq Seq(B)
      OBVIOUS
    <3>2. Groups \subseteq DOMAIN tree.refs /\ DOMAIN tree.data \subseteq DOMAIN tree.refs
      BY <1>2, TreeFacts
    <3> QED
      BY <1>1, <1>2, <3>1, <3>2, TreeFacts
  <2> QED
    BY <1>1, <1>2, <2>1, GroupPiecesAreTyped, ObjectsAreTyped
<1>4. pieces \in Seq(Todo)
  <2>1. GroupPieces(g) \o Objects(tree.datasets[g]) \in Seq(Todo)
    BY <1>3, ConcatFacts
  <2> QED
    BY <1>3, <2>1, ConcatFacts
<1>5. todo' = pieces \o Tail(todo)
  <2>1. todo' = GroupPieces(g) \o Objects(tree.datasets[g]) \o Objects(tree.groups[g])
                \o Tail(todo)
    BY DEF PlanGroup
  <2> QED
    BY <2>1
<1>6. LayoutOK'
  <2> HIDE DEF pieces
  <2> QED
    BY <1>1, <1>4, <1>5, PlanningKeepsLayout DEF IInv
<1>7. WalkOK'
  <2> HIDE DEF g
  <2> QED
    BY <1>1, <1>3, PlanningKeepsWalk DEF IInv
<1>8. LengthsOK'
  BY LengthsUnchanged DEF PlanGroup, IInv, resolving, heaping, packed
<1> QED
  BY <1>6, <1>7, <1>8 DEF IInv

LEMMA PlanDatasetKeeps ==
    ASSUME IInv, PlanDataset
    PROVE  IInv'
<1> DEFINE d == Head(todo).of
<1>1. tree \in Tree /\ phase = "plan" /\ todo # <<>> /\ d \notin Groups
  BY DEF IInv, LayoutOK, PlanDataset
<1>2. d \in DOMAIN tree.refs /\ d \in DOMAIN tree.data
  <2>1. todo \in Seq(Todo)
    BY TodoIsTyped DEF IInv, LayoutOK, LayoutTypeOK
  <2>2. Head(todo) \in Todo
    <3> HIDE DEF Todo
    <3> QED
      BY <1>1, <2>1
  <2>3. d \in DOMAIN tree.refs
    BY <2>2 DEF Todo, StructurePiece, ObjectPiece
  <2> QED
    BY <1>1, <2>3, TreeFacts
<1>3. LengthsOK'
  BY LengthsUnchanged DEF PlanDataset, IInv, resolving, heaping, packed
<1>4. CASE todo' = DatasetPieces(d) \o Tail(todo) /\ order' = Append(order, d) /\ phase' = phase
  <2>1. LayoutOK'
    <3>1. DatasetPieces(d) \in Seq(Todo)
      BY <1>1, <1>2, DatasetPiecesAreTyped
    <3> QED
      BY <1>1, <1>4, <3>1, PlanningKeepsLayout DEF IInv, PlanDataset
  <2>2. WalkOK'
    BY <1>1, <1>2, <1>4, PlanningKeepsWalk DEF IInv, PlanDataset
  <2> QED
    BY <1>3, <2>1, <2>2 DEF IInv
<1>5. CASE phase' = "failed" /\ UNCHANGED <<todo, order>>
  <2>1. LayoutOK'
    BY <1>5, LayoutUnchanged DEF IInv, PlanDataset
  <2>2. WalkOK'
    BY <1>5, FailureKeepsWalk DEF IInv, PlanDataset
  <2> QED
    BY <1>3, <2>1, <2>2 DEF IInv
<1> QED
  BY <1>4, <1>5 DEF PlanDataset

LEMMA ReserveKeeps ==
    ASSUME IInv, Reserve
    PROVE  IInv'
<1>1. LayoutOK'
  BY ReserveKeepsLayout DEF IInv
<1>2. LengthsOK'
  BY LengthsUnchanged DEF Reserve, IInv, resolving, heaping, packed
<1>3. WalkOK'
  <2>1. order # <<>>
    BY DEF Reserve, IInv, WalkOK
  <2> QED
    BY <2>1 DEF Reserve, IInv, WalkOK
<1> QED
  BY <1>1, <1>2, <1>3 DEF IInv

LEMMA FinishPlanKeeps ==
    ASSUME IInv, FinishPlan
    PROVE  IInv'
<1>1. LayoutOK'
  BY LayoutUnchanged DEF FinishPlan, IInv, planning
<1>2. LengthsOK'
  BY LengthsUnchanged DEF FinishPlan, IInv, resolving, heaping, packed
<1>3. WalkOK'
  <2>1. order # <<>> /\ order \in Seq(DOMAIN tree.refs) /\ at = 1
    BY DEF FinishPlan, IInv, WalkOK
  <2>2. 1 \in 1..Len(order)
    BY <2>1
  <2> QED
    BY <2>1, <2>2 DEF FinishPlan, WalkOK, planning
<1> QED
  BY <1>1, <1>2, <1>3 DEF IInv

LEMMA FillObjRefsKeeps ==
    ASSUME IInv, FillObjRefs
    PROVE  IInv'
<1> DEFINE o == order[at]
           names == tree.refs[o]
           addrs == [i \in 1..Len(names) |-> [j \in 1..Len(names[i]) |-> Addr(names[i][j])]]
<1>1. LayoutOK'
  BY LayoutUnchanged DEF FillObjRefs, IInv, planning
<1>2. tree \in Tree /\ phase = "refs" /\ UNCHANGED <<tree, order>>
  BY DEF FillObjRefs, IInv, LayoutOK, planning
<1>3. o \in DOMAIN tree.refs /\ Len(names) \in Nat
  BY <1>2, StandsInTree, TreeFacts DEF IInv
<1>4. CASE phase' = "failed" /\ UNCHANGED <<at, refs>>
  <2>1. WalkOK'
    BY <1>2, <1>4, FailureKeepsWalk DEF IInv
  <2>2. LengthsOK'
    BY <1>4, LengthsUnchanged DEF FillObjRefs, IInv, heaping, packed
  <2> QED
    BY <1>1, <2>1, <2>2 DEF IInv
<1>5. CASE refs' = [refs EXCEPT ![o] = addrs] /\ Advance("aliases")
  <2>1. WalkOK'
    BY <1>2, <1>5, AdvanceKeepsWalk DEF IInv
  <2>2. Len(addrs) \in Nat
    BY <1>3
  <2>3. DOMAIN refs' = DOMAIN tree.refs /\ \A x \in DOMAIN tree.refs : Len(refs'[x]) \in Nat
    <3> HIDE DEF addrs, o
    <3> QED
      BY <1>3, <1>5, <2>2 DEF IInv, LengthsOK
  <2>4. LengthsOK'
    BY <2>3 DEF FillObjRefs, IInv, LengthsOK, heaping, packed
  <2> QED
    BY <1>1, <2>1, <2>4 DEF IInv
<1> QED
  BY <1>4, <1>5 DEF FillObjRefs

\* A pass that changes neither the layout nor what LengthsOK speaks of.
LEMMA PassKeeps ==
    ASSUME IInv, phase \notin {"plan", "failed"}, NEW next, next # "plan",
           \/ Advance(next)
           \/ phase' = "failed" /\ UNCHANGED at,
           UNCHANGED <<tree, planning, refs, heap, collections, collection_addrs>>
    PROVE  IInv'
<1>1. LayoutOK'
  BY LayoutUnchanged DEF IInv, planning
<1>2. LengthsOK'
  BY LengthsUnchanged DEF IInv
<1>3. WalkOK'
  BY AdvanceKeepsWalk, FailureKeepsWalk DEF IInv, planning
<1> QED
  BY <1>1, <1>2, <1>3 DEF IInv

LEMMA RegisterVlenStringsKeeps ==
    ASSUME IInv, RegisterVlenStrings
    PROVE  IInv'
<1> DEFINE d == order[at]
           present == tree.data[d].elements
           values == [i \in 1..Len(present) |-> <<d, i>>]
<1>1. /\ phase = "strings" /\ Advance("objrefs")
      /\ UNCHANGED <<tree, planning, refs, collections, collection_addrs>>
  BY DEF RegisterVlenStrings, resolving, packed
<1>2. CASE UNCHANGED heap
  BY <1>1, <1>2, PassKeeps
<1>3. CASE IsVlen(d) /\ heap' = heap \o Chosen(values, present)
  <2>1. LayoutOK'
    BY <1>1, LayoutUnchanged DEF IInv, planning
  <2>2. WalkOK'
    BY <1>1, AdvanceKeepsWalk DEF IInv, planning
  <2>3. Len(present) \in Nat
    <3>1. d \in DOMAIN tree.refs /\ d \notin Groups /\ tree.data[d].kind = "vlen"
      BY <1>1, <1>3, StandsInTree DEF IInv, IsVlen
    <3>2. tree \in Tree
      BY DEF IInv, LayoutOK
    <3> HIDE DEF d
    <3>3. tree.data[d].elements \in Seq(BOOLEAN)
      BY <3>1, <3>2, TreeFacts
    <3> QED
      BY <3>3
  <2>4. LengthsOK'
    <3> HIDE DEF values, present
    <3> QED
      BY <1>1, <1>3, <2>3, RegisteringKeepsLengths DEF IInv
  <2> QED
    BY <2>1, <2>2, <2>4 DEF IInv
<1> QED
  BY <1>2, <1>3 DEF RegisterVlenStrings

LEMMA RegisterVlenObjRefsKeeps ==
    ASSUME IInv, RegisterVlenObjRefs
    PROVE  IInv'
<1> DEFINE o == order[at]
           present == [i \in 1..Len(refs[o]) |-> refs[o][i] # <<>>]
<1>1. /\ phase = "objrefs" /\ Advance("pack") /\ heap' = heap \o Chosen(refs[o], present)
      /\ UNCHANGED <<tree, planning, refs, collections, collection_addrs>>
  BY DEF RegisterVlenObjRefs, resolving, packed
<1>2. Len(present) \in Nat
  <2>1. o \in DOMAIN tree.refs
    BY <1>1, StandsInTree DEF IInv
  <2>2. Len(refs[o]) \in Nat
    BY <2>1 DEF IInv, LengthsOK
  <2> QED
    BY <2>2
<1>3. LengthsOK'
  <2> HIDE DEF present
  <2> QED
    BY <1>1, <1>2, RegisteringKeepsLengths DEF IInv
<1>4. LayoutOK'
  BY <1>1, LayoutUnchanged DEF IInv, planning
<1>5. WalkOK'
  BY <1>1, AdvanceKeepsWalk DEF IInv, planning
<1> QED
  BY <1>3, <1>4, <1>5 DEF IInv

LEMMA BuildCollectionsKeeps ==
    ASSUME IInv, BuildCollections
    PROVE  IInv'
<1>1. LayoutOK'
  BY LayoutUnchanged DEF BuildCollections, IInv, planning
<1>2. WalkOK'
  BY DEF BuildCollections, IInv, WalkOK, planning
<1>3. Len(heap) \in Nat
  BY DEF IInv, LengthsOK
<1>4. PICK later \in SUBSET (2..Len(heap)) :
        LET begins == IF heap = <<>> THEN {} ELSE {1} \cup later
            run(c) == {o \in 1..Len(heap) : CollectionOf(begins, o) = c - 1}
            first(c) == CHOOSE o \in run(c) : \A other \in run(c) : o <= other
        IN  collections' = [c \in 1..Cardinality(begins) |->
                [k \in 1..Cardinality(run(c)) |-> heap[first(c) + k - 1]]]
  BY DEF BuildCollections
<1> DEFINE begins == IF heap = <<>> THEN {} ELSE {1} \cup later
           run(c) == {o \in 1..Len(heap) : CollectionOf(begins, o) = c - 1}
           first(c) == CHOOSE o \in run(c) : \A other \in run(c) : o <= other
<1>5. Cardinality(begins) \in Nat
  <2>1. CASE heap = <<>>
    BY <1>3, <2>1, CountedIsNatural
  <2>2. CASE heap # <<>>
    <3>1. Len(heap) >= 1
      BY <2>2 DEF IInv, LengthsOK
    <3>2. begins \in SUBSET (1..Len(heap))
      BY <1>3, <3>1
    <3> HIDE DEF begins
    <3> QED
      BY <1>3, <3>2, CountedIsNatural
  <2> QED
    BY <2>1, <2>2
<1>6. \A c : Cardinality(run(c)) \in Nat
  <2>1. ASSUME NEW c PROVE Cardinality(run(c)) \in Nat
    <3>1. run(c) \in SUBSET (1..Len(heap))
      OBVIOUS
    <3> HIDE DEF run
    <3> QED
      BY <1>3, <3>1, CountedIsNatural
  <2> QED
    BY <2>1
<1>7. collections' = [c \in 1..Cardinality(begins) |->
                         [k \in 1..Cardinality(run(c)) |-> heap[first(c) + k - 1]]]
  BY <1>4
<1> HIDE DEF begins, run, first
<1>8. Len(collections') \in Nat /\ \A c \in 1..Len(collections') : Len(collections'[c]) \in Nat
  <2>1. Len(collections') = Cardinality(begins)
    BY <1>5, <1>7
  <2>2. ASSUME NEW c \in 1..Cardinality(begins) PROVE Len(collections'[c]) \in Nat
    <3>1. collections'[c] = [k \in 1..Cardinality(run(c)) |-> heap[first(c) + k - 1]]
      BY <1>7
    <3> QED
      BY <1>6, <3>1
  <2> QED
    BY <1>5, <2>1, <2>2
<1>9. LengthsOK'
  BY <1>8 DEF BuildCollections, IInv, LengthsOK, resolving
<1> QED
  BY <1>1, <1>2, <1>9 DEF IInv

LEMMA PlaceCollectionKeeps ==
    ASSUME IInv, PlaceCollection
    PROVE  IInv'
<1> DEFINE values == collections[Len(collection_addrs) + 1]
           piece == [of |-> rootGroup, kind |-> "collection", count |-> Len(values)]
<1>1. Len(values) \in Nat
  <2>1. Len(collection_addrs) + 1 \in 1..Len(collections)
    BY DEF PlaceCollection, IInv, LengthsOK
  <2> QED
    BY <2>1 DEF IInv, LengthsOK
<1>2. piece \in Piece /\ piece.kind \in Kind
  <2>1. rootGroup \in Object
    BY TreeFacts DEF IInv, LayoutOK
  <2> HIDE DEF values
  <2> QED
    BY <1>1, <2>1 DEF Piece, Kind
<1>3. layout' = Append(layout, [addr |-> cursor, piece |-> piece]) /\ cursor' = Past(piece)
  BY DEF PlaceCollection
<1> HIDE DEF piece
<1>4. /\ cursor' \in Nat /\ ROOT_OH_ADDR <= cursor'
      /\ layout' \in Seq([addr: Nat, piece: Piece])
      /\ \A i \in 1..Len(layout') : layout'[i].piece.kind \in Kind
      /\ RegionsDisjoint'
  BY <1>2, <1>3, PlacingKeepsRegions DEF IInv
<1>5. LayoutOK'
  BY <1>4 DEF IInv, LayoutOK, LayoutTypeOK, PlaceCollection
<1>6. WalkOK'
  BY DEF PlaceCollection, IInv, WalkOK
<1>7. LengthsOK'
  <2>1. collection_addrs' \in Seq(Nat)
    <3>1. cursor \in Nat /\ collection_addrs \in Seq(Nat)
      BY DEF IInv, LayoutOK, LayoutTypeOK, LengthsOK
    <3> QED
      BY <3>1, AppendFacts DEF PlaceCollection
  <2> QED
    BY <2>1 DEF PlaceCollection, IInv, LengthsOK, resolving
<1> QED
  BY <1>5, <1>6, <1>7 DEF IInv

\* The steps between passes, and the last one.
LEMMA PhaseChangeKeeps ==
    ASSUME IInv, phase \notin {"plan", "failed"}, phase' # "plan",
           UNCHANGED <<tree, at, planning, refs, heap, collections, collection_addrs>>
    PROVE  IInv'
<1>1. LayoutOK'
  BY LayoutUnchanged DEF IInv, planning
<1>2. LengthsOK'
  BY LengthsUnchanged DEF IInv
<1>3. WalkOK'
  BY DEF IInv, WalkOK, planning
<1> QED
  BY <1>1, <1>2, <1>3 DEF IInv

LEMMA NextKeeps == IInv /\ [LayoutNext]_layoutVars => IInv'
<1> SUFFICES ASSUME IInv, [LayoutNext]_layoutVars PROVE IInv'
  OBVIOUS
<1>1. CASE PlanGroup
  BY <1>1, PlanGroupKeeps
<1>2. CASE PlanDataset
  BY <1>2, PlanDatasetKeeps
<1>3. CASE Reserve
  BY <1>3, ReserveKeeps
<1>4. CASE FinishPlan
  BY <1>4, FinishPlanKeeps
<1>5. CASE FillObjRefs
  BY <1>5, FillObjRefsKeeps
<1>6. CASE ResolveLinkTargets
  <2>1. /\ phase = "aliases"
        /\ UNCHANGED <<tree, planning, refs, heap, collections, collection_addrs>>
        /\ Advance("counts") \/ (phase' = "failed" /\ UNCHANGED at)
    BY <1>6 DEF ResolveLinkTargets, heaping, packed
  <2> QED
    BY <2>1, PassKeeps
<1>7. CASE ApplyRefcounts
  <2>1. /\ phase = "counts" /\ Advance("links")
        /\ UNCHANGED <<tree, planning, refs, heap, collections, collection_addrs>>
    BY <1>7 DEF ApplyRefcounts, heaping, packed
  <2> QED
    BY <2>1, PassKeeps
<1>8. CASE PatchLinks
  <2>1. /\ phase = "links" /\ Advance("strings")
        /\ UNCHANGED <<tree, planning, refs, heap, collections, collection_addrs>>
    BY <1>8 DEF PatchLinks, heaping, packed
  <2> QED
    BY <2>1, PassKeeps
<1>9. CASE RegisterVlenStrings
  BY <1>9, RegisterVlenStringsKeeps
<1>10. CASE RegisterVlenObjRefs
  BY <1>10, RegisterVlenObjRefsKeeps
<1>11. CASE BuildCollections
  BY <1>11, BuildCollectionsKeeps
<1>12. CASE PlaceCollection
  BY <1>12, PlaceCollectionKeeps
<1>13. CASE FinishPlacing
  BY <1>13, PhaseChangeKeeps DEF FinishPlacing, resolving, heaping, packed
<1>14. CASE FillVlenObjRefLocs
  <2>1. /\ phase = "locs" /\ Advance("emit")
        /\ UNCHANGED <<tree, planning, refs, heap, collections, collection_addrs>>
    BY <1>14 DEF FillVlenObjRefLocs, resolving, packed
  <2> QED
    BY <2>1, PassKeeps
<1>15. CASE Emit
  <2>1. /\ phase = "emit"
        /\ UNCHANGED <<tree, planning, refs, heap, collections, collection_addrs>>
        /\ Advance("heap") \/ (phase' = "failed" /\ UNCHANGED at)
    BY <1>15 DEF Emit, resolving, heaping, packed
  <2> QED
    BY <2>1, PassKeeps
<1>16. CASE EmitCollections
  BY <1>16, PhaseChangeKeeps DEF EmitCollections, resolving, heaping, packed
<1>17. CASE UNCHANGED layoutVars
  <2>1. LayoutOK'
    BY <1>17, LayoutUnchanged DEF layoutVars, planning, IInv
  <2>2. WalkOK' /\ LengthsOK'
    BY <1>17, LengthsUnchanged DEF layoutVars, planning, resolving, heaping, packed, IInv, WalkOK
  <2> QED
    BY <2>1, <2>2 DEF IInv
<1> QED
  BY <1>1, <1>2, <1>3, <1>4, <1>5, <1>6, <1>7, <1>8, <1>9, <1>10, <1>11, <1>12, <1>13,
     <1>14, <1>15, <1>16, <1>17 DEF LayoutNext

LEMMA InitEstablishes == LayoutInit => IInv
<1> SUFFICES ASSUME LayoutInit PROVE IInv
  OBVIOUS
<1>1. tree \in Tree
  BY DEF LayoutInit
<1>2. todo = <<[of |-> rootGroup, kind |-> "object", count |-> 0]>>
  <2>1. Len(<<rootGroup>>) = 1 /\ <<rootGroup>>[1] = rootGroup
    OBVIOUS
  <2> QED
    BY <2>1 DEF LayoutInit, Objects
<1>3. LayoutOK
  <2>1. rootGroup \in Object /\ rootGroup \in DOMAIN tree.refs
    BY <1>1, TreeFacts
  <2>2. todo \in Seq(Piece) /\ \A i \in 1..Len(todo) : todo[i].of \in DOMAIN tree.refs
    BY <1>2, <2>1 DEF Piece
  <2>3. layout = <<>> /\ cursor = ROOT_OH_ADDR
    BY DEF LayoutInit
  <2>4. LayoutTypeOK /\ RegionsDisjoint
    BY <2>2, <2>3, AddressAssumption DEF LayoutTypeOK, RegionsDisjoint
  <2> QED
    BY <1>1, <2>3, <2>4, AddressAssumption DEF LayoutOK
<1>4. WalkOK
  BY <1>2 DEF LayoutInit, WalkOK
<1>5. LengthsOK
  <2>1. \A o \in DOMAIN tree.refs : Len(refs[o]) \in Nat
    <3> SUFFICES ASSUME NEW o \in DOMAIN tree.refs PROVE Len(refs[o]) \in Nat
      OBVIOUS
    <3>1. Len(tree.refs[o]) \in Nat
      BY <1>1, TreeFacts
    <3> QED
      BY <3>1 DEF LayoutInit
  <2>2. DOMAIN refs = DOMAIN tree.refs /\ heap = <<>> /\ collections = <<>> /\ collection_addrs = <<>>
    BY DEF LayoutInit
  <2>3. heap \in Seq(Nat)
    BY <2>2
  <2> QED
    BY <2>1, <2>2, <2>3 DEF LengthsOK
<1> QED
  BY <1>3, <1>4, <1>5 DEF IInv

-----------------------------------------------------------------------------

\* The inductive invariant of build_bytes: the layout's types and regions, and what
\* they rest on, the walks of the passes and the lengths of what they count.
THEOREM LayoutInvariant == LayoutSpec => []IInv
<1>1. LayoutInit => IInv
  BY InitEstablishes
<1>2. IInv /\ [LayoutNext]_layoutVars => IInv'
  BY NextKeeps
<1> QED
  BY <1>1, <1>2, PTL DEF LayoutSpec

\* plan_group and build_bytes never promise a byte of the file to two structures.
THEOREM RegionsAreDisjoint == LayoutSpec => []RegionsDisjoint
<1>1. IInv => RegionsDisjoint
  BY DEF IInv, LayoutOK
<1> QED
  BY <1>1, LayoutInvariant, PTL

\* Two object headers never share an address, so that a count kept by address
\* (resolve_link_targets, apply_refcounts) is a count kept by object.
HeadersApart ==
    \A i, j \in 1..Len(layout) :
        /\ layout[i].piece.kind = "header" /\ layout[j].piece.kind = "header"
        /\ layout[i].addr = layout[j].addr
        => i = j

\* Nothing rests on the size of headers but that it is not zero.
THEOREM HeadersAreApart == LayoutSpec => []HeadersApart
<1>1. IInv => HeadersApart
  <2> SUFFICES ASSUME IInv, NEW i \in 1..Len(layout), NEW j \in 1..Len(layout),
                      layout[i].piece.kind = "header", layout[j].piece.kind = "header",
                      layout[i].addr = layout[j].addr
               PROVE  i = j
    BY DEF HeadersApart
  <2>1. ASSUME NEW m \in 1..Len(layout), layout[m].piece.kind = "header"
        PROVE  /\ layout[m].addr \in Nat /\ End(layout[m]) \in Nat
               /\ layout[m].addr < End(layout[m])
    <3> DEFINE T == [addr: Nat, piece: Piece]
    <3>1. layout \in Seq(T)
      BY DEF IInv, LayoutOK, LayoutTypeOK
    <3>2. layout[m] \in T
      <4> HIDE DEF T
      <4> QED
        BY <3>1
    <3>3. layout[m].addr \in Nat /\ layout[m].piece.count \in Nat
      BY <3>2 DEF Piece
    <3>4. /\ Fixed["header"] \in Nat /\ Fixed["header"] > 0
          /\ PerEntry["header"] \in Nat
      BY SizeAssumption DEF Kind
    <3>5. layout[m].piece.count * PerEntry["header"] \in Nat
      BY <3>3, <3>4
    <3>6. Size("header", layout[m].piece.count) > 0
          /\ Size("header", layout[m].piece.count) \in Nat
      BY <3>4, <3>5 DEF Size
    <3> QED
      BY <2>1, <3>3, <3>6 DEF End
  <2>2. Len(layout) \in Nat
    BY DEF IInv, LayoutOK, LayoutTypeOK
  <2>3. ASSUME NEW a \in 1..Len(layout), NEW b \in 1..Len(layout), a < b
        PROVE  End(layout[a]) <= layout[b].addr
    <3>1. b \in (a + 1)..Len(layout)
      BY <2>2, <2>3
    <3> QED
      BY <3>1 DEF IInv, LayoutOK, RegionsDisjoint
  <2>4. ASSUME NEW a \in 1..Len(layout), NEW b \in 1..Len(layout), a < b,
               layout[a].piece.kind = "header", layout[b].piece.kind = "header"
        PROVE  layout[a].addr # layout[b].addr
    <3>1. End(layout[a]) <= layout[b].addr
      BY <2>3, <2>4
    <3>2. /\ layout[a].addr < End(layout[a]) /\ layout[a].addr \in Nat
          /\ End(layout[a]) \in Nat /\ layout[b].addr \in Nat
      BY <2>1, <2>4
    <3> QED
      BY <3>1, <3>2
  <2> QED
    BY <2>2, <2>4
<1> QED
  BY <1>1, LayoutInvariant, PTL

-----------------------------------------------------------------------------
(* The walk of the first pass *)

Rng(s) == {s[i] : i \in 1..Len(s)}

\* The structures of an object.
Pieces(o) == IF o \in Groups THEN GroupPieces(o) ELSE DatasetPieces(o)

\* The objects that are still to be planned, and that each is so once.
Pending(s) == {p.of : p \in {q \in Rng(s) : q.kind = "object"}}
Once(s) == \A i, j \in 1..Len(s) :
    s[i].kind = "object" /\ s[j].kind = "object" /\ s[i].of = s[j].of => i = j

Kids(g) == Children(tree, g)
Known == Owned \cup Pending(todo)

\* Every object is planned once, after the group that owns it.
WalkVisits ==
    /\ \A i, j \in 1..Len(order) : order[i] = order[j] => i = j
    /\ Once(todo) /\ Owned \cap Pending(todo) = {}
    /\ rootGroup \in Known
    /\ \A x \in Known : x = rootGroup \/ \E g \in Owned \cap Groups : x \in Rng(Kids(g))
    /\ \A g \in Owned \cap Groups : Rng(Kids(g)) \subseteq Known
    /\ \A d \in Owned \ Groups : tree.data[d].kind # "refused"
    /\ phase \notin {"plan", "failed"} => todo = <<>>

\* What is placed, or is still to be, are the structures of the objects planned.
WalkPlaces ==
    /\ \A p \in Rng(todo) : p.kind = "object" \/ \E o \in Owned : p \in Rng(Pieces(o))
    /\ \A i \in 1..Len(layout) :
          \/ layout[i].piece.kind = "collection"
          \/ \E o \in Owned : layout[i].piece \in Rng(Pieces(o))
    /\ \A o \in Owned : \A p \in Rng(Pieces(o)) :
          p \in Rng(todo) \/ \E i \in 1..Len(layout) : layout[i].piece = p

PlanInv == IInv /\ WalkVisits /\ WalkPlaces

\* The elements of two sequences put one behind the other.
LEMMA RngConcat ==
    ASSUME NEW T, NEW s \in Seq(T), NEW t \in Seq(T)
    PROVE  Rng(s \o t) = Rng(s) \cup Rng(t)
<1>1. /\ Len(s \o t) = Len(s) + Len(t) /\ Len(s) \in Nat /\ Len(t) \in Nat
      /\ \A i \in 1..Len(s) : (s \o t)[i] = s[i]
      /\ \A i \in 1..Len(t) : (s \o t)[Len(s) + i] = t[i]
  OBVIOUS
<1>2. \A i \in 1..Len(s) : s[i] \in Rng(s \o t)
  <2> SUFFICES ASSUME NEW i \in 1..Len(s) PROVE s[i] \in Rng(s \o t)
    OBVIOUS
  <2>1. i \in 1..Len(s \o t) /\ (s \o t)[i] = s[i]
    BY <1>1
  <2> QED
    BY <2>1 DEF Rng
<1>3. \A i \in 1..Len(t) : t[i] \in Rng(s \o t)
  <2> SUFFICES ASSUME NEW i \in 1..Len(t) PROVE t[i] \in Rng(s \o t)
    OBVIOUS
  <2>1. Len(s) + i \in 1..Len(s \o t) /\ (s \o t)[Len(s) + i] = t[i]
    BY <1>1
  <2> QED
    BY <2>1 DEF Rng
<1>4. \A x \in Rng(s \o t) : x \in Rng(s) \cup Rng(t)
  BY ConcatFacts DEF Rng
<1> QED
  BY <1>2, <1>3, <1>4 DEF Rng

\* A sequence is its head, then its tail.
LEMMA HeadTailFacts ==
    ASSUME NEW T, NEW s \in Seq(T), s # <<>>
    PROVE  /\ Len(s) \in Nat \ {0} /\ Len(Tail(s)) = Len(s) - 1
           /\ Tail(s) \in Seq(T) /\ Head(s) = s[1] /\ Head(s) \in T
           /\ \A i \in 1..Len(Tail(s)) : i + 1 \in 1..Len(s) /\ Tail(s)[i] = s[i + 1]
           /\ Rng(s) = {Head(s)} \cup Rng(Tail(s))
<1>1. /\ Len(s) \in Nat \ {0} /\ Len(Tail(s)) = Len(s) - 1
      /\ Tail(s) \in Seq(T) /\ Head(s) = s[1] /\ Head(s) \in T
      /\ \A i \in 1..Len(Tail(s)) : i + 1 \in 1..Len(s) /\ Tail(s)[i] = s[i + 1]
  OBVIOUS
<1>2. \A x \in Rng(s) : x = s[1] \/ x \in Rng(Tail(s))
  <2> SUFFICES ASSUME NEW i \in 1..Len(s), i # 1 PROVE s[i] \in Rng(Tail(s))
    BY DEF Rng
  <2>1. i - 1 \in 1..Len(Tail(s)) /\ (i - 1) + 1 = i
    BY <1>1
  <2>2. Tail(s)[i - 1] = s[i]
    BY <1>1, <2>1
  <2> QED
    BY <2>1, <2>2 DEF Rng
<1>3. \A x \in Rng(Tail(s)) : x \in Rng(s)
  BY <1>1 DEF Rng
<1>4. s[1] \in Rng(s)
  BY <1>1 DEF Rng
<1> QED
  BY <1>1, <1>2, <1>3, <1>4

\* An element appended joins the elements.
LEMMA RngAppend ==
    ASSUME NEW T, NEW s \in Seq(T), NEW e \in T
    PROVE  Rng(Append(s, e)) = Rng(s) \cup {e}
<1>1. /\ Len(Append(s, e)) = Len(s) + 1 /\ Len(s) \in Nat
      /\ Append(s, e)[Len(s) + 1] = e
      /\ \A i \in 1..Len(s) : Append(s, e)[i] = s[i]
  BY AppendFacts
<1>2. \A i \in 1..(Len(s) + 1) : Append(s, e)[i] \in Rng(s) \cup {e}
  <2> SUFFICES ASSUME NEW i \in 1..(Len(s) + 1) PROVE Append(s, e)[i] \in Rng(s) \cup {e}
    OBVIOUS
  <2>1. CASE i = Len(s) + 1
    BY <1>1, <2>1
  <2>2. CASE i \in 1..Len(s)
    BY <1>1, <2>2 DEF Rng
  <2> QED
    BY <1>1, <2>1, <2>2
<1>3. \A i \in 1..Len(s) : s[i] \in Rng(Append(s, e))
  <2> SUFFICES ASSUME NEW i \in 1..Len(s) PROVE s[i] \in Rng(Append(s, e))
    OBVIOUS
  <2>1. i \in 1..Len(Append(s, e)) /\ Append(s, e)[i] = s[i]
    BY <1>1
  <2> QED
    BY <2>1 DEF Rng
<1>4. e \in Rng(Append(s, e))
  <2>1. Len(s) + 1 \in 1..Len(Append(s, e))
    BY <1>1
  <2> QED
    BY <1>1, <2>1 DEF Rng
<1>5. Rng(Append(s, e)) = {Append(s, e)[i] : i \in 1..(Len(s) + 1)}
  BY <1>1 DEF Rng
<1> QED
  BY <1>2, <1>3, <1>4, <1>5 DEF Rng

\* Sequences of pieces that are put one behind the other.
LEMMA OnceConcat ==
    ASSUME NEW T, NEW s \in Seq(T), NEW t \in Seq(T), Once(s), Once(t),
           Pending(s) \cap Pending(t) = {}
    PROVE  Once(s \o t) /\ Pending(s \o t) = Pending(s) \cup Pending(t)
<1>1. Pending(s \o t) = Pending(s) \cup Pending(t)
  BY RngConcat DEF Pending
<1>2. ASSUME NEW i \in 1..Len(s \o t), NEW j \in 1..Len(s \o t),
             (s \o t)[i].kind = "object", (s \o t)[j].kind = "object",
             (s \o t)[i].of = (s \o t)[j].of
      PROVE  i = j
  <2>1. /\ Len(s \o t) = Len(s) + Len(t) /\ Len(s) \in Nat /\ Len(t) \in Nat
        /\ \A k \in 1..Len(s) : (s \o t)[k] = s[k]
        /\ \A k \in 1..Len(s \o t) : k > Len(s) => k - Len(s) \in 1..Len(t) /\ (s \o t)[k] = t[k - Len(s)]
    OBVIOUS
  <2> DEFINE u == s \o t  n == Len(s)
  <2>2. \A k \in 1..Len(u) : k <= n => k \in 1..n /\ u[k] = s[k]
    BY <2>1
  <2>3. \A k \in 1..Len(u) : k > n => k - n \in 1..Len(t) /\ u[k] = t[k - n]
    BY <2>1
  <2>4. i \in 1..Len(u) /\ j \in 1..Len(u) /\ u[i].kind = "object" /\ u[j].kind = "object" /\ u[i].of = u[j].of
    BY <1>2
  <2>5. n \in Nat /\ Len(u) \in Nat
    BY <2>1
  <2>6. \A k \in 1..n : s[k].kind = "object" => s[k].of \in Pending(s)
    BY DEF Pending, Rng
  <2>7. \A k \in 1..Len(t) : t[k].kind = "object" => t[k].of \in Pending(t)
    BY DEF Pending, Rng
  <2> HIDE DEF u, n
  <2>8. CASE i <= n /\ j <= n
    <3>1. i \in 1..n /\ j \in 1..n /\ u[i] = s[i] /\ u[j] = s[j]
      BY <2>2, <2>4, <2>8
    <3> QED
      BY <2>4, <3>1 DEF Once, n
  <2>9. CASE i > n /\ j > n
    <3>1. i - n \in 1..Len(t) /\ j - n \in 1..Len(t) /\ u[i] = t[i - n] /\ u[j] = t[j - n]
      BY <2>3, <2>4, <2>9
    <3>2. i - n = j - n
      BY <2>4, <3>1 DEF Once
    <3> QED
      BY <2>4, <2>5, <3>2
  <2>10. CASE i <= n /\ j > n
    BY <2>2, <2>3, <2>4, <2>6, <2>7, <2>10
  <2>11. CASE i > n /\ j <= n
    BY <2>2, <2>3, <2>4, <2>6, <2>7, <2>11
  <2> QED
    BY <2>4, <2>5, <2>8, <2>9, <2>10, <2>11
<1> QED
  BY <1>1, <1>2 DEF Once

\* Structures are no objects to be planned.
LEMMA NothingPending ==
    ASSUME NEW s, \A p \in Rng(s) : p.kind # "object"
    PROVE  Once(s) /\ Pending(s) = {}
  BY DEF Once, Pending, Rng

-----------------------------------------------------------------------------
(* The structures of an object *)

\* A list of pieces put before another is a list of pieces.
LEMMA TodoConcat ==
    ASSUME NEW s, NEW t, s \in Seq(Todo), t \in Seq(Todo)
    PROVE  s \o t \in Seq(Todo) /\ Rng(s \o t) = Rng(s) \cup Rng(t)
  BY ConcatFacts, RngConcat

PieceOf(o, kind, count) == [of |-> o, kind |-> kind, count |-> count]

\* A structure is one piece.
LEMMA RngStructure ==
    ASSUME NEW o, NEW kind, NEW count
    PROVE  Rng(Structure(o, kind, count)) = {PieceOf(o, kind, count)}
<1>1. Len(<<PieceOf(o, kind, count)>>) = 1 /\ <<PieceOf(o, kind, count)>>[1] = PieceOf(o, kind, count)
  OBVIOUS
<1>2. Structure(o, kind, count) = <<PieceOf(o, kind, count)>>
  BY DEF Structure, PieceOf
<1> HIDE DEF PieceOf
<1>3. 1..1 = {1}
  OBVIOUS
<1> QED
  BY <1>1, <1>2, <1>3 DEF Rng

\* How many entries a group's header and its symbol table have.
HeaderCount(g) == Len(tree.refs[g]) + Len(HeaderLinks(g, MembersOf(g)))
Listed(g) == IF IsLinkStyle(g) THEN 0 ELSE Len(MembersOf(g))

\* A group is a header, a symbol table and, if dense, a link heap with its index.
LEMMA RngGroupPieces ==
    ASSUME tree \in Tree, NEW g \in Groups
    PROVE  Rng(GroupPieces(g)) =
             {PieceOf(g, "header", HeaderCount(g)), PieceOf(g, "btree", 1),
              PieceOf(g, "local heap", Listed(g)), PieceOf(g, "snods", Listed(g))}
             \cup (IF IsDense(g) THEN {PieceOf(g, "link heap", Len(MembersOf(g))),
                                       PieceOf(g, "link index", Len(MembersOf(g)))}
                                 ELSE {})
<1> DEFINE n == Len(MembersOf(g))
           m == HeaderCount(g)
           listed == Listed(g)
           dense == IF IsDense(g) THEN Structure(g, "link heap", n) \o Structure(g, "link index", n)
                                  ELSE <<>>
<1>1. n \in Nat /\ listed \in Nat /\ g \in DOMAIN tree.refs
  BY MembersAreASequence, TreeFacts DEF Listed
<1>2. m \in Nat
  <2>1. Len(HeaderLinks(g, MembersOf(g))) \in Nat
    BY <1>1 DEF HeaderLinks
  <2> QED
    BY <1>1, <2>1, TreeFacts DEF HeaderCount
<1>3. GroupPieces(g) = Structure(g, "header", m) \o dense \o Structure(g, "btree", 1)
                       \o Structure(g, "local heap", listed) \o Structure(g, "snods", listed)
  BY DEF GroupPieces, HeaderCount, Listed
<1> HIDE DEF n, listed, m
<1> DEFINE h == Structure(g, "header", m)
           b == Structure(g, "btree", 1)
           l == Structure(g, "local heap", listed)
           s == Structure(g, "snods", listed)
           lh == Structure(g, "link heap", n)
           li == Structure(g, "link index", n)
<1>4. /\ h \in Seq(Todo) /\ b \in Seq(Todo) /\ l \in Seq(Todo) /\ s \in Seq(Todo)
      /\ lh \in Seq(Todo) /\ li \in Seq(Todo)
  BY <1>1, <1>2, StructureIsTyped DEF Kind
<1>5. /\ Rng(h) = {PieceOf(g, "header", m)} /\ Rng(b) = {PieceOf(g, "btree", 1)}
      /\ Rng(l) = {PieceOf(g, "local heap", listed)} /\ Rng(s) = {PieceOf(g, "snods", listed)}
      /\ Rng(lh) = {PieceOf(g, "link heap", n)} /\ Rng(li) = {PieceOf(g, "link index", n)}
  BY RngStructure
<1> HIDE DEF h, b, l, s, lh, li
<1>6. /\ dense \in Seq(Todo)
      /\ Rng(dense) = IF IsDense(g) THEN {PieceOf(g, "link heap", n), PieceOf(g, "link index", n)} ELSE {}
  <2>1. CASE IsDense(g)
    <3>1. dense = lh \o li
      BY <2>1 DEF lh, li
    <3>2. lh \o li \in Seq(Todo) /\ Rng(lh \o li) = Rng(lh) \cup Rng(li)
      BY <1>4, RngConcat
    <3> QED
      BY <1>5, <2>1, <3>1, <3>2
  <2>2. CASE ~IsDense(g)
    <3>1. dense = <<>>
      BY <2>2
    <3>2. <<>> \in Seq(Todo) /\ Len(<<>>) = 0
      OBVIOUS
    <3>3. Rng(<<>>) = {}
      BY <3>2 DEF Rng
    <3> QED
      BY <2>2, <3>1, <3>2, <3>3
  <2> QED
    BY <2>1, <2>2
<1>7. GroupPieces(g) = (((h \o dense) \o b) \o l) \o s
  BY <1>3 DEF h, b, l, s
<1> HIDE DEF dense
<1> DEFINE s1 == h \o dense
           s2 == s1 \o b
           s3 == s2 \o l
<1>8. s1 \in Seq(Todo) /\ Rng(s1) = Rng(h) \cup Rng(dense)
  <2>1. h \in Seq(Todo) /\ dense \in Seq(Todo)
    BY <1>4, <1>6
  <2> QED
    BY ONLY <2>1, TodoConcat
<1>9. s2 \in Seq(Todo) /\ Rng(s2) = Rng(s1) \cup Rng(b)
  <2> HIDE DEF s1
  <2> QED
    BY <1>4, <1>8, RngConcat
<1>10. s3 \in Seq(Todo) /\ Rng(s3) = Rng(s2) \cup Rng(l)
  <2> HIDE DEF s2
  <2> QED
    BY <1>4, <1>9, RngConcat
<1>11. Rng(s3 \o s) = Rng(s3) \cup Rng(s)
  <2> HIDE DEF s3
  <2> QED
    BY <1>4, <1>10, RngConcat
<1>12. Rng(GroupPieces(g)) = Rng(h) \cup Rng(dense) \cup Rng(b) \cup Rng(l) \cup Rng(s)
  BY <1>7, <1>8, <1>9, <1>10, <1>11
<1> QED
  BY <1>5, <1>6, <1>12 DEF n, m, listed

\* A dataset is a header and its storage; variable-length data are references.
LEMMA RngDatasetPieces ==
    ASSUME tree \in Tree, NEW d \in DOMAIN tree.data
    PROVE  /\ PieceOf(d, "header", Len(tree.refs[d])) \in Rng(DatasetPieces(d))
           /\ tree.data[d].kind = "vlen" =>
                PieceOf(d, "vlen refs", Len(tree.data[d].elements)) \in Rng(DatasetPieces(d))
           /\ \A p \in Rng(DatasetPieces(d)) :
                /\ p.of = d
                /\ \/ p = PieceOf(d, "header", Len(tree.refs[d]))
                   \/ /\ tree.data[d].kind = "vlen"
                      /\ p = PieceOf(d, "vlen refs", Len(tree.data[d].elements))
                   \/ p.kind \in {"data", "chunk index"} /\ p.count \in Nat
<1> DEFINE data == tree.data[d]
           head == Structure(d, "header", Len(tree.refs[d]))
           hp == PieceOf(d, "header", Len(tree.refs[d]))
<1>1. d \in DOMAIN tree.refs /\ Len(tree.refs[d]) \in Nat
  BY TreeFacts
<1>2. head \in Seq(Todo) /\ Rng(head) = {hp}
  BY <1>1, StructureIsTyped, RngStructure DEF Kind
<1> HIDE DEF head
<1>3. hp.of = d /\ \A k, c : PieceOf(d, k, c).of = d /\ PieceOf(d, k, c).kind = k /\ PieceOf(d, k, c).count = c
  BY DEF PieceOf
<1>4. CASE data.kind = "raw" /\ data.bytes \in Nat
  <2>1. DatasetPieces(d) = head \o Structure(d, "data", data.bytes)
    BY <1>4 DEF DatasetPieces, head
  <2>2. Structure(d, "data", data.bytes) \in Seq(Todo)
    BY <1>1, <1>4, StructureIsTyped DEF Kind
  <2>3. Rng(DatasetPieces(d)) = {hp} \cup {PieceOf(d, "data", data.bytes)}
    <3> DEFINE rest == Structure(d, "data", data.bytes)
    <3>1. Rng(rest) = {PieceOf(d, "data", data.bytes)}
      BY RngStructure
    <3>2. head \in Seq(Todo) /\ rest \in Seq(Todo) /\ DatasetPieces(d) = head \o rest
      BY <1>2, <2>1, <2>2
    <3> HIDE DEF rest
    <3>3. Rng(head \o rest) = Rng(head) \cup Rng(rest)
      BY ONLY <3>2, TodoConcat
    <3> QED
      BY <1>2, <3>1, <3>2, <3>3
  <2> HIDE DEF hp, data
  <2>4. \A p \in Rng(DatasetPieces(d)) : p = hp \/ (p.of = d /\ p.kind \in {"data", "chunk index"} /\ p.count \in Nat)
    <3> DEFINE n == data.bytes
    <3>1. Rng(DatasetPieces(d)) = {hp} \cup {PieceOf(d, "data", n)} /\ n \in Nat
      BY <1>4, <2>3
    <3> HIDE DEF n
    <3>2. \A p : p = PieceOf(d, "data", n) => p.of = d /\ p.kind \in {"data", "chunk index"} /\ p.count \in Nat
      BY <3>1 DEF PieceOf
    <3> HIDE DEF PieceOf
    <3> QED
      BY <3>1, <3>2
  <2>5. hp \in Rng(DatasetPieces(d)) /\ data.kind # "vlen"
    BY <1>4, <2>3
  <2> QED
    BY <1>3, <2>4, <2>5 DEF hp, data
<1>5. CASE data.kind = "vlen" /\ data.elements \in Seq(BOOLEAN)
  <2>1. DatasetPieces(d) = head \o Structure(d, "vlen refs", Len(data.elements))
    BY <1>5 DEF DatasetPieces, head
  <2>2. Structure(d, "vlen refs", Len(data.elements)) \in Seq(Todo)
    <3>1. Len(data.elements) \in Nat
      BY <1>5
    <3> QED
      BY <1>1, <3>1, StructureIsTyped DEF Kind
  <2>3. Rng(DatasetPieces(d)) = {hp} \cup {PieceOf(d, "vlen refs", Len(data.elements))}
    <3> DEFINE rest == Structure(d, "vlen refs", Len(data.elements))
    <3>1. Rng(rest) = {PieceOf(d, "vlen refs", Len(data.elements))}
      BY RngStructure
    <3>2. head \in Seq(Todo) /\ rest \in Seq(Todo) /\ DatasetPieces(d) = head \o rest
      BY <1>2, <2>1, <2>2
    <3> HIDE DEF rest
    <3>3. Rng(head \o rest) = Rng(head) \cup Rng(rest)
      BY ONLY <3>2, TodoConcat
    <3> QED
      BY <1>2, <3>1, <3>2, <3>3
  <2>4. hp.of = d /\ PieceOf(d, "vlen refs", Len(data.elements)).of = d
    BY DEF PieceOf
  <2> HIDE DEF hp, data
  <2>5. /\ hp \in Rng(DatasetPieces(d)) /\ PieceOf(d, "vlen refs", Len(data.elements)) \in Rng(DatasetPieces(d))
        /\ \A p \in Rng(DatasetPieces(d)) :
             p.of = d /\ (p = hp \/ p = PieceOf(d, "vlen refs", Len(data.elements)))
    BY <2>3, <2>4
  <2> QED
    BY <1>5, <2>5 DEF hp, data
<1>6. CASE data.kind = "chunked" /\ data.chunks \in Seq(Nat)
  <2> DEFINE index == Structure(d, "chunk index", Len(data.chunks))
             chunks == [i \in 1..Len(data.chunks) |-> Structure(d, "data", data.chunks[i])[1]]
  <2>1. DatasetPieces(d) = head \o (index \o chunks)
    BY <1>6 DEF DatasetPieces, head
  <2>2. Len(data.chunks) \in Nat
    BY <1>6
  <2>3. index \in Seq(Todo) /\ Rng(index) = {PieceOf(d, "chunk index", Len(data.chunks))}
    BY <1>1, <2>2, StructureIsTyped, RngStructure DEF Kind
  <2>4. ASSUME NEW i \in 1..Len(data.chunks)
        PROVE  /\ Structure(d, "data", data.chunks[i])[1] \in Todo
               /\ Structure(d, "data", data.chunks[i])[1] = PieceOf(d, "data", data.chunks[i])
               /\ data.chunks[i] \in Nat
    <3>1. data.chunks[i] \in Nat
      BY <1>6
    <3> HIDE DEF data
    <3>2. [of |-> d, kind |-> "data", count |-> data.chunks[i]] \in Todo
      BY <1>1, <3>1 DEF Todo, StructurePiece, Kind
    <3> QED
      BY <3>1, <3>2 DEF Structure, PieceOf
  <2>5. chunks \in [1..Len(data.chunks) -> Todo]
    BY <2>4
  <2>6. chunks \in Seq(Todo) /\ Len(chunks) = Len(data.chunks)
    <3> HIDE DEF chunks
    <3> QED
      BY <2>2, <2>5, FunctionIsSequence
  <2>7. \A p \in Rng(chunks) : p.of = d /\ p.kind = "data" /\ p.count \in Nat
    <3> SUFFICES ASSUME NEW i \in 1..Len(data.chunks)
                 PROVE  chunks[i].of = d /\ chunks[i].kind = "data" /\ chunks[i].count \in Nat
      BY <2>6 DEF Rng
    <3>1. chunks[i] = PieceOf(d, "data", data.chunks[i]) /\ data.chunks[i] \in Nat
      BY <2>4
    <3> HIDE DEF chunks, data
    <3> QED
      BY <3>1 DEF PieceOf
  <2> HIDE DEF index, chunks, data, hp
  <2>8. index \o chunks \in Seq(Todo) /\ Rng(index \o chunks) = Rng(index) \cup Rng(chunks)
    <3>1. index \in Seq(Todo) /\ chunks \in Seq(Todo)
      BY <2>3, <2>6
    <3> QED
      BY ONLY <3>1, TodoConcat
  <2> DEFINE rest == index \o chunks
  <2> HIDE DEF rest
  <2>9. Rng(DatasetPieces(d)) = {hp} \cup Rng(index) \cup Rng(chunks)
    <3>1. head \in Seq(Todo) /\ rest \in Seq(Todo) /\ DatasetPieces(d) = head \o rest
      BY <1>2, <2>1, <2>8 DEF rest
    <3>2. Rng(head \o rest) = Rng(head) \cup Rng(rest)
      BY ONLY <3>1, TodoConcat
    <3> QED
      BY <1>2, <2>8, <3>1, <3>2 DEF rest
  <2>10. \A p \in Rng(DatasetPieces(d)) : p = hp \/ (p.of = d /\ p.kind \in {"data", "chunk index"} /\ p.count \in Nat)
    <3>1. \A p \in Rng(index) : p.of = d /\ p.kind = "chunk index" /\ p.count \in Nat
      <4> DEFINE n == Len(data.chunks)
      <4>1. Rng(index) = {PieceOf(d, "chunk index", n)} /\ n \in Nat
        BY <2>2, <2>3
      <4> HIDE DEF n
      <4>2. n \in Nat
        BY <4>1
      <4> SUFFICES ASSUME NEW p \in Rng(index) PROVE p.of = d /\ p.kind = "chunk index" /\ p.count \in Nat
        OBVIOUS
      <4>3. p = PieceOf(d, "chunk index", n)
        BY <4>1
      <4> QED
        BY <4>2, <4>3 DEF PieceOf
    <3> QED
      BY <2>7, <2>9, <3>1
  <2>11. hp \in Rng(DatasetPieces(d)) /\ data.kind # "vlen"
    BY <1>6, <2>9
  <2> QED
    BY <1>3, <2>10, <2>11 DEF hp, data
<1>7. CASE data.kind = "refused"
  <2>1. DatasetPieces(d) = head \o <<>>
    BY <1>7 DEF DatasetPieces, head
  <2>2. DatasetPieces(d) = head
    BY <1>2, <2>1
  <2> QED
    BY <1>2, <1>3, <1>7, <2>2
<1> QED
  BY <1>4, <1>5, <1>6, <1>7, TreeFacts

\* Whatever an object is, its structures are its own and none is an object or a collection.
LEMMA PiecesAreOwn ==
    ASSUME tree \in Tree, NEW o \in DOMAIN tree.refs
    PROVE  /\ Pieces(o) \in Seq(Todo)
           /\ \A p \in Rng(Pieces(o)) :
                p.of = o /\ p.kind \in Kind \ {"collection"} /\ p.kind # "object" /\ p.count \in Nat
<1>1. CASE o \in Groups
  <2>1. Pieces(o) = GroupPieces(o) /\ GroupPieces(o) \in Seq(Todo)
    BY <1>1, GroupPiecesAreTyped DEF Pieces
  <2>2. \A k, c : PieceOf(o, k, c).of = o /\ PieceOf(o, k, c).kind = k /\ PieceOf(o, k, c).count = c
    BY DEF PieceOf
  <2>3. Len(MembersOf(o)) \in Nat /\ Listed(o) \in Nat /\ HeaderCount(o) \in Nat
    <3>1. Len(MembersOf(o)) \in Nat
      BY <1>1, MembersAreASequence
    <3>2. Len(HeaderLinks(o, MembersOf(o))) \in Nat
      BY <3>1 DEF HeaderLinks
    <3> QED
      BY <1>1, <3>1, <3>2, TreeFacts DEF Listed, HeaderCount
  <2>4. \A p \in Rng(GroupPieces(o)) : \E k \in Kind \ {"collection"}, c \in Nat : p = PieceOf(o, k, c)
    <3>1. {"header", "btree", "local heap", "snods", "link heap", "link index"}
            \subseteq Kind \ {"collection"}
      BY DEF Kind
    <3> QED
      BY <1>1, <2>3, <3>1, RngGroupPieces
  <2>5. "object" \notin Kind
    BY DEF Kind
  <2> HIDE DEF PieceOf
  <2> QED
    BY <2>1, <2>2, <2>4, <2>5
<1>2. CASE o \notin Groups
  <2>1. o \in DOMAIN tree.data /\ Pieces(o) = DatasetPieces(o)
    BY <1>2, TreeFacts DEF Pieces
  <2>2. \A k, c : PieceOf(o, k, c).of = o /\ PieceOf(o, k, c).kind = k /\ PieceOf(o, k, c).count = c
    BY DEF PieceOf
  <2>3. Len(tree.refs[o]) \in Nat /\ (tree.data[o].kind = "vlen" => Len(tree.data[o].elements) \in Nat)
    BY <2>1, TreeFacts
  <2>4. ASSUME NEW p \in Rng(DatasetPieces(o))
        PROVE  p.of = o /\ p.kind \in {"header", "vlen refs", "data", "chunk index"} /\ p.count \in Nat
    <3>1. CASE p = PieceOf(o, "header", Len(tree.refs[o]))
      BY <2>3, <3>1 DEF PieceOf
    <3>2. CASE tree.data[o].kind = "vlen" /\ p = PieceOf(o, "vlen refs", Len(tree.data[o].elements))
      BY <2>3, <3>2 DEF PieceOf
    <3>3. CASE p.of = o /\ p.kind \in {"data", "chunk index"} /\ p.count \in Nat
      BY <3>3
    <3> QED
      BY <2>1, <3>1, <3>2, <3>3, RngDatasetPieces
  <2> QED
    BY <2>1, <2>4, DatasetPiecesAreTyped DEF Kind
<1> QED
  BY <1>1, <1>2

-----------------------------------------------------------------------------
(* What the passes have established *)

\* The passes in their order; a build that failed has made none.
Rank(p) == CASE p = "plan" -> 1 [] p = "refs" -> 2 [] p = "aliases" -> 3 [] p = "counts" -> 4
             [] p = "links" -> 5 [] p = "strings" -> 6 [] p = "objrefs" -> 7 [] p = "pack" -> 8
             [] p = "place" -> 9 [] p = "locs" -> 10 [] p = "emit" -> 11 [] p = "heap" -> 12
             [] p = "done" -> 13 [] OTHER -> 0

\* The passes that visit every object.
Passes == {"refs", "aliases", "counts", "links", "strings", "objrefs", "locs", "emit"}

\* The objects pass p has visited.
Visited(p) == {i \in 1..Len(order) :
                  Rank(phase) > Rank(p) \/ (Rank(phase) = Rank(p) /\ i < at)}
Seen(p) == {order[i] : i \in Visited(p)}

\* A pass begins at the first object.
PassesBegin ==
    /\ phase \in Passes \cup {"plan", "pack", "place", "heap", "done", "failed"}
    /\ phase \in {"plan", "pack", "place", "heap", "done"} => at = 1

\* The addresses of the objects in the file.
AddrOf == [o \in Owned |-> Addr(o)]

\* Object references are the addresses of the objects they name.
RefsAreAddresses ==
    \A o \in Seen("refs") :
        /\ \A i \in 1..Len(tree.refs[o]) : \A j \in 1..Len(tree.refs[o][i]) :
              tree.refs[o][i][j] \in Owned
        /\ refs[o] = [i \in 1..Len(tree.refs[o]) |->
                         [j \in 1..Len(tree.refs[o][i]) |-> AddrOf[tree.refs[o][i][j]]]]

AliasesAreAddresses ==
    /\ DOMAIN aliases = Groups
    /\ \A g \in Groups : Len(aliases[g]) = Len(tree.links[g])
    /\ \A g \in Seen("aliases") \cap Groups : \A i \in HardAliases(g) :
          tree.links[g][i] \in Owned /\ aliases[g][i] = AddrOf[tree.links[g][i]]

\* The hard aliases of an object that were counted, by group and position.
AliasesTo(o) == UNION {{<<g, i>> : i \in {k \in HardAliases(g) : tree.links[g][k] = o}}
                          : g \in Seen("aliases") \cap Groups}

\* A count kept by address is a count kept by object.
CountsAreTrue ==
    /\ phase = "plan" => counts = [addr \in {} |-> 0]
    /\ Rank(phase) >= 2 => \A o \in Owned :
        /\ IsFiniteSet(AliasesTo(o))
        /\ (IF AddrOf[o] \in DOMAIN counts THEN counts[AddrOf[o]] ELSE 0) = Cardinality(AliasesTo(o))

RefcountsAreTrue ==
    /\ DOMAIN refcount = DOMAIN tree.refs
    /\ \A o \in Seen("counts") : refcount[o] = 1 + Cardinality(AliasesTo(o))

\* A link message has the address of the object it is for.
LinksArePatched ==
    /\ DOMAIN links = tree.linkStyle
    /\ \A g \in Seen("links") \cap tree.linkStyle :
          links[g] = [i \in 1..Len(MembersOf(g)) |->
                         IF i \in Hard(g) THEN AddrOf[MembersOf(g)[i].to] ELSE 0]

ResolvedInv == PassesBegin /\ RefsAreAddresses /\ AliasesAreAddresses /\ CountsAreTrue
               /\ RefcountsAreTrue /\ LinksArePatched

\* Every value of a sequence that is not empty was registered under its ordinal.
Stored(nums, present, values) ==
    /\ Len(nums) = Len(present)
    /\ \A i \in 1..Len(present) :
          IF present[i] THEN nums[i] \in 1..Len(heap) /\ heap[nums[i]] = values[i]
          ELSE nums[i] = 0

StringsAreStored ==
    /\ DOMAIN ordinals = DOMAIN tree.refs
    /\ \A d \in Seen("strings") : IsVlen(d) =>
          Stored(ordinals[d], tree.data[d].elements,
                 [i \in 1..Len(tree.data[d].elements) |-> <<d, i>>])

RefsAreStored ==
    /\ DOMAIN refOrdinals = DOMAIN tree.refs
    /\ \A o \in Seen("objrefs") :
          Stored(refOrdinals[o], [i \in 1..Len(refs[o]) |-> refs[o][i] # <<>>], refs[o])

\* Every value is in the collection and at the index its location says.
ValuesArePacked ==
    Rank(phase) >= 9 =>
        \A n \in 1..Len(heap) :
            LET loc == locations[n]
            IN  /\ loc.collection + 1 \in 1..Len(collections)
                /\ collections[loc.collection + 1][loc.index] = heap[n]

CollectionsArePlaced ==
    /\ Rank(phase) \in 1..8 => collection_addrs = <<>>
    /\ Rank(phase) > 9 => Len(collection_addrs) = Len(collections)
    /\ \A c \in 1..Len(collection_addrs) :
          /\ collection_addrs[c] < cursor
          /\ \E i \in 1..Len(layout) : /\ layout[i].addr = collection_addrs[c]
                                       /\ layout[i].piece.kind = "collection"
          /\ \A later \in (c + 1)..Len(collection_addrs) : collection_addrs[c] < collection_addrs[later]

RefsAreLocated ==
    /\ DOMAIN refLocs = DOMAIN tree.refs
    /\ \A o \in Seen("locs") :
          refLocs[o] = [i \in 1..Len(refOrdinals[o]) |-> HeapRef(refOrdinals[o][i])]

HeapInv == StringsAreStored /\ RefsAreStored /\ ValuesArePacked /\ CollectionsArePlaced /\ RefsAreLocated

\* What every structure of the layout says.
Contents == [i \in 1..Len(layout) |-> Content(layout[i].piece)]

TakesRoom(i) == Size(layout[i].piece.kind, layout[i].piece.count) > 0

StructuresAreWritten ==
    \A o \in Seen("emit") : \A i \in 1..Len(layout) :
        layout[i].piece.of = o /\ layout[i].piece.kind # "collection" /\ TakesRoom(i)
        => layout[i].addr \in DOMAIN image /\ image[layout[i].addr] = Contents[i]

CollectionsAreWritten ==
    phase = "done" => \A c \in 1..Len(collections) :
        /\ collection_addrs[c] \in DOMAIN image
        /\ image[collection_addrs[c]].entries = collections[c]

FailureIsJustified == phase = "failed" => Unbuildable

BuildInv == PlanInv /\ ResolvedInv /\ HeapInv /\ StructuresAreWritten /\ CollectionsAreWritten /\ FailureIsJustified

-----------------------------------------------------------------------------
(* The walk visits every object of the tree once *)

\* What is a function of the tree alone is so after a step that keeps the tree.
LEMMA TreeUnchanged ==
    ASSUME tree' = tree
    PROVE  /\ Groups' = Groups
           /\ \A o : Pieces(o)' = Pieces(o)
           /\ \A g : Kids(g)' = Kids(g)
  BY DEF Groups, Pieces, Kids, Children, GroupPieces, DatasetPieces, MembersOf, IsDense,
         IsLinkStyle, HeaderLinks, Structure

\* A group owns its datasets, then its sub-groups, all objects of the tree.
LEMMA KidsFacts ==
    ASSUME tree \in Tree, NEW g \in Groups
    PROVE  /\ Kids(g) = tree.datasets[g] \o tree.groups[g]
           /\ tree.datasets[g] \in Seq(DOMAIN tree.refs) /\ tree.groups[g] \in Seq(DOMAIN tree.refs)
           /\ Rng(Kids(g)) = Rng(tree.datasets[g]) \cup Rng(tree.groups[g])
           /\ Rng(Kids(g)) \subseteq DOMAIN tree.refs
<1>1. /\ tree.datasets[g] \in Seq(DOMAIN tree.data) /\ tree.groups[g] \in Seq(Groups)
      /\ DOMAIN tree.refs = Groups \cup DOMAIN tree.data
  BY TreeFacts
<1> DEFINE d == tree.datasets[g]  s == tree.groups[g]  T == DOMAIN tree.refs
<1>2. d \in Seq(T) /\ s \in Seq(T)
  BY <1>1
<1>3. Kids(g) = d \o s
  BY DEF Kids, Children
<1> HIDE DEF d, s, T
<1>4. Rng(d \o s) = Rng(d) \cup Rng(s)
  BY ONLY <1>2, RngConcat
<1>5. Rng(d) \subseteq T /\ Rng(s) \subseteq T
  BY <1>2 DEF Rng
<1> QED
  BY <1>2, <1>3, <1>4, <1>5 DEF d, s, T

\* No object has two owners, nor two places with one, and the root has none.
LEMMA OneOwner ==
    ASSUME tree \in Tree, NEW g \in Groups, NEW h \in Groups,
           NEW i \in 1..Len(Kids(g)), NEW j \in 1..Len(Kids(h))
    PROVE  /\ Kids(g)[i] # rootGroup
           /\ Kids(g)[i] = Kids(h)[j] => g = h /\ i = j
  BY OwnershipAssumption DEF Kids, Groups

\* The datasets of a group are none of its sub-groups, and both are listed once.
LEMMA KidsAreDistinct ==
    ASSUME tree \in Tree, NEW g \in Groups
    PROVE  /\ \A i, j \in 1..Len(tree.datasets[g]) : tree.datasets[g][i] = tree.datasets[g][j] => i = j
           /\ \A i, j \in 1..Len(tree.groups[g]) : tree.groups[g][i] = tree.groups[g][j] => i = j
           /\ Rng(tree.datasets[g]) \cap Rng(tree.groups[g]) = {}
<1> DEFINE d == tree.datasets[g]  s == tree.groups[g]
<1>1. d \in Seq(DOMAIN tree.refs) /\ s \in Seq(DOMAIN tree.refs) /\ Kids(g) = d \o s
  BY KidsFacts
<1> HIDE DEF d, s
<1>2. /\ Len(d \o s) = Len(d) + Len(s) /\ Len(d) \in Nat /\ Len(s) \in Nat
      /\ \A i \in 1..Len(d) : (d \o s)[i] = d[i]
      /\ \A i \in 1..Len(s) : (d \o s)[Len(d) + i] = s[i]
  BY <1>1
<1>3. \A i, j \in 1..Len(d \o s) : (d \o s)[i] = (d \o s)[j] => i = j
  BY <1>1, OneOwner
<1>4. ASSUME NEW i \in 1..Len(d), NEW j \in 1..Len(d), d[i] = d[j] PROVE i = j
  <2>1. i \in 1..Len(d \o s) /\ j \in 1..Len(d \o s)
    BY <1>2
  <2> QED
    BY <1>2, <1>3, <1>4, <2>1
<1>5. ASSUME NEW i \in 1..Len(s), NEW j \in 1..Len(s), s[i] = s[j] PROVE i = j
  <2>1. Len(d) + i \in 1..Len(d \o s) /\ Len(d) + j \in 1..Len(d \o s)
    BY <1>2
  <2>2. Len(d) + i = Len(d) + j
    BY <1>2, <1>3, <1>5, <2>1
  <2> QED
    BY <1>2, <2>2
<1>6. ASSUME NEW i \in 1..Len(d), NEW j \in 1..Len(s), d[i] = s[j] PROVE FALSE
  <2>1. i \in 1..Len(d \o s) /\ Len(d) + j \in 1..Len(d \o s)
    BY <1>2
  <2>2. i = Len(d) + j
    BY <1>2, <1>3, <1>6, <2>1
  <2> QED
    BY <1>2, <2>2
<1> QED
  BY <1>4, <1>5, <1>6 DEF d, s, Rng

\* What a group owns becomes a list of objects to be planned.
LEMMA ObjectsFacts ==
    ASSUME NEW s \in Seq(DOMAIN tree.refs)
    PROVE  /\ Objects(s) \in Seq(Todo)
           /\ Pending(Objects(s)) = Rng(s)
           /\ \A p \in Rng(Objects(s)) : p.kind = "object"
           /\ (\A i, j \in 1..Len(s) : s[i] = s[j] => i = j) => Once(Objects(s))
<1>1. Len(Objects(s)) = Len(s) /\ Len(s) \in Nat
  BY DEF Objects
<1>2. \A i \in 1..Len(s) : Objects(s)[i].of = s[i] /\ Objects(s)[i].kind = "object"
  BY DEF Objects
<1>3. Pending(Objects(s)) = Rng(s)
  BY <1>1, <1>2 DEF Pending, Rng
<1> QED
  BY <1>1, <1>2, <1>3, ObjectsAreTyped DEF Once, Rng

\* The next piece is none of those behind it, if it is an object.
LEMMA HeadIsTaken ==
    ASSUME NEW T, NEW s \in Seq(T), s # <<>>, Once(s)
    PROVE  /\ Once(Tail(s))
           /\ Pending(s) = Pending(Tail(s)) \cup (IF Head(s).kind = "object" THEN {Head(s).of} ELSE {})
           /\ Head(s).kind = "object" => Head(s).of \notin Pending(Tail(s))
<1>1. /\ Len(s) \in Nat \ {0} /\ Len(Tail(s)) = Len(s) - 1 /\ Head(s) = s[1]
      /\ \A i \in 1..Len(Tail(s)) : i + 1 \in 1..Len(s) /\ Tail(s)[i] = s[i + 1]
      /\ Rng(s) = {Head(s)} \cup Rng(Tail(s))
  BY HeadTailFacts
<1>2. Pending(s) = Pending(Tail(s)) \cup (IF Head(s).kind = "object" THEN {Head(s).of} ELSE {})
  BY <1>1 DEF Pending
<1>3. Once(Tail(s))
  <2> SUFFICES ASSUME NEW i \in 1..Len(Tail(s)), NEW j \in 1..Len(Tail(s)),
                      Tail(s)[i].kind = "object", Tail(s)[j].kind = "object",
                      Tail(s)[i].of = Tail(s)[j].of
               PROVE  i = j
    BY DEF Once
  <2>1. i + 1 \in 1..Len(s) /\ j + 1 \in 1..Len(s) /\ Tail(s)[i] = s[i + 1] /\ Tail(s)[j] = s[j + 1]
    BY <1>1
  <2>2. i + 1 = j + 1
    BY <2>1 DEF Once
  <2> QED
    BY <2>2
<1>4. ASSUME Head(s).kind = "object", Head(s).of \in Pending(Tail(s)) PROVE FALSE
  <2>1. PICK i \in 1..Len(Tail(s)) : Tail(s)[i].kind = "object" /\ Tail(s)[i].of = Head(s).of
    BY <1>4 DEF Pending, Rng
  <2>2. i + 1 \in 1..Len(s) /\ s[i + 1].kind = "object" /\ s[i + 1].of = s[1].of /\ s[1].kind = "object"
    BY <1>1, <1>4, <2>1
  <2>3. 1 \in 1..Len(s) /\ i + 1 # 1
    BY <1>1
  <2> QED
    BY <2>2, <2>3 DEF Once
<1> QED
  BY <1>2, <1>3, <1>4

\* Nothing knows the objects of a group before the group is planned.
LEMMA KidsAreNew ==
    ASSUME PlanInv, NEW g \in Groups \ Owned
    PROVE  Rng(Kids(g)) \cap Known = {}
<1>1. tree \in Tree
  BY DEF PlanInv, IInv, LayoutOK
<1> SUFFICES ASSUME NEW x \in Rng(Kids(g)), x \in Known PROVE FALSE
  OBVIOUS
<1>2. PICK i \in 1..Len(Kids(g)) : x = Kids(g)[i]
  BY DEF Rng
<1>3. x # rootGroup
  BY <1>1, <1>2, OneOwner
<1>4. PICK h \in Owned \cap Groups : x \in Rng(Kids(h))
  BY <1>3 DEF PlanInv, WalkVisits
<1>5. PICK j \in 1..Len(Kids(h)) : x = Kids(h)[j]
  BY <1>4 DEF Rng
<1>6. g = h
  BY <1>1, <1>2, <1>4, <1>5, OneOwner
<1> QED
  BY <1>4, <1>6

\* Planning an object puts its structures, and the objects it owns, in its place.
LEMMA PlanningAdvances ==
    ASSUME PlanInv, IInv', phase = "plan", todo # <<>>, Head(todo).kind = "object",
           NEW new \in Seq(Todo), todo' = new \o Tail(todo), order' = Append(order, Head(todo).of),
           UNCHANGED <<tree, phase, layout>>,
           Once(new),
           Pending(new) = IF Head(todo).of \in Groups THEN Rng(Kids(Head(todo).of)) ELSE {},
           Rng(Pieces(Head(todo).of)) \subseteq Rng(new),
           \A p \in Rng(new) : p.kind = "object" \/ p \in Rng(Pieces(Head(todo).of)),
           Head(todo).of \notin Groups => tree.data[Head(todo).of].kind # "refused"
    PROVE  (WalkVisits /\ WalkPlaces)'
<1> DEFINE o == Head(todo).of
           rest == Tail(todo)
           kids == Pending(new)
<1>1. tree \in Tree /\ todo \in Seq(Todo) /\ order \in Seq(DOMAIN tree.refs)
  <2>1. tree \in Tree
    BY DEF PlanInv, IInv, LayoutOK
  <2> QED
    BY <2>1, TodoIsTyped DEF PlanInv, IInv, LayoutOK, LayoutTypeOK, WalkOK
<1>2. /\ rest \in Seq(Todo) /\ Head(todo) \in Todo /\ Rng(todo) = {Head(todo)} \cup Rng(rest)
  <2> HIDE DEF Todo
  <2> QED
    BY <1>1, HeadTailFacts
<1>3. o \in DOMAIN tree.refs
  BY <1>2 DEF Todo, StructurePiece, ObjectPiece
<1>4. Once(rest) /\ Pending(todo) = Pending(rest) \cup {o} /\ o \notin Pending(rest)
  <2> HIDE DEF Todo
  <2> QED
    BY <1>1, HeadIsTaken DEF PlanInv, WalkVisits
<1>5. o \notin Owned /\ o \in Known
  BY <1>4 DEF PlanInv, WalkVisits, Known
<1>6. kids \cap Known = {}
  BY <1>5, KidsAreNew
<1>7. Once(todo') /\ Pending(todo') = kids \cup Pending(rest) /\ Rng(todo') = Rng(new) \cup Rng(rest)
  <2>1. Pending(new) \cap Pending(rest) = {}
    BY <1>4, <1>6 DEF Known
  <2> HIDE DEF Todo, rest
  <2>2. Rng(new \o rest) = Rng(new) \cup Rng(rest)
    BY ONLY <1>2, RngConcat, new \in Seq(Todo)
  <2>3. Once(new \o rest) /\ Pending(new \o rest) = Pending(new) \cup Pending(rest)
    BY <1>2, <1>4, <2>1, OnceConcat
  <2> QED
    BY <2>2, <2>3 DEF rest
<1>8. Owned' = Owned \cup {o}
  <2>1. Rng(Append(order, o)) = Rng(order) \cup {o}
    BY <1>1, <1>3, RngAppend
  <2> QED
    BY <2>1 DEF Owned, Rng
<1>9. /\ Groups' = Groups /\ (\A x : Pieces(x)' = Pieces(x)) /\ (\A x : Kids(x)' = Kids(x))
      /\ tree' = tree /\ layout' = layout /\ phase' = phase
  BY TreeUnchanged
<1>10. Known' = Known \cup kids
  BY <1>4, <1>7, <1>8 DEF Known, Pending, Rng
<1> HIDE DEF rest, o, kids
<1>11. \A i, j \in 1..Len(order') : order'[i] = order'[j] => i = j
  <2>1. /\ Len(order') = Len(order) + 1 /\ Len(order) \in Nat /\ order'[Len(order) + 1] = o
        /\ \A i \in 1..Len(order) : order'[i] = order[i]
    BY <1>1, <1>3, AppendFacts DEF o
  <2>2. \A i \in 1..Len(order) : order'[i] # o
    BY <1>5, <2>1 DEF Owned
  <2>3. \A i, j \in 1..Len(order) : order'[i] = order'[j] => i = j
    BY <2>1 DEF PlanInv, WalkVisits
  <2>4. \A i \in 1..Len(order') : i \in 1..Len(order) \/ i = Len(order) + 1
    BY <2>1
  <2> QED
    BY <2>1, <2>2, <2>3, <2>4
<1>12. Owned' \cap Pending(todo') = {}
  <2>1. Owned \cap Pending(todo) = {}
    BY DEF PlanInv, WalkVisits
  <2> QED
    BY <1>4, <1>5, <1>6, <1>7, <1>8, <2>1 DEF Known
<1>13. rootGroup \in Known'
  BY <1>10 DEF PlanInv, WalkVisits
<1>14. ASSUME NEW x \in Known', x # rootGroup
       PROVE  \E g \in Owned' \cap Groups' : x \in Rng(Kids(g)')
  <2>1. CASE x \in Known
    BY <1>8, <1>9, <1>14, <2>1 DEF PlanInv, WalkVisits
  <2>2. CASE x \in kids
    BY <1>8, <1>9, <2>2 DEF kids, o
  <2> QED
    BY <1>10, <1>14, <2>1, <2>2
<1>15. ASSUME NEW g \in Owned' \cap Groups'
       PROVE  Rng(Kids(g)') \subseteq Known'
  <2>1. CASE g \in Owned
    BY <1>9, <1>10, <1>15, <2>1 DEF PlanInv, WalkVisits
  <2>2. CASE g = o
    BY <1>9, <1>10, <1>15, <2>2 DEF kids, o
  <2> QED
    BY <1>8, <1>15, <2>1, <2>2
<1>16. \A d \in Owned' \ Groups' : tree'.data[d].kind # "refused"
  BY <1>8, <1>9 DEF PlanInv, WalkVisits, o
<1>17. WalkVisits'
  <2>1. Once(todo)' = Once(todo') /\ Pending(todo)' = Pending(todo')
    BY DEF Once, Pending, Rng
  <2> QED
    BY <1>7, <1>9, <1>11, <1>12, <1>13, <1>14, <1>15, <1>16, <2>1 DEF WalkVisits
<1>18. \A p \in Rng(todo') : p.kind = "object" \/ \E x \in Owned' : p \in Rng(Pieces(x))
  <2> SUFFICES ASSUME NEW p \in Rng(todo')
               PROVE  p.kind = "object" \/ \E x \in Owned' : p \in Rng(Pieces(x))
    OBVIOUS
  <2>1. CASE p \in Rng(new)
    BY <1>8, <2>1 DEF o
  <2>2. CASE p \in Rng(rest)
    <3>1. p \in Rng(todo)
      BY <1>2, <2>2
    <3> QED
      BY <1>8, <3>1 DEF PlanInv, WalkPlaces
  <2> QED
    BY <1>7, <2>1, <2>2
<1>19. \A i \in 1..Len(layout) : \/ layout[i].piece.kind = "collection"
                                 \/ \E x \in Owned' : layout[i].piece \in Rng(Pieces(x))
  BY <1>8 DEF PlanInv, WalkPlaces
<1>20. \A x \in Owned' : \A p \in Rng(Pieces(x)) :
         p \in Rng(todo') \/ \E i \in 1..Len(layout) : layout[i].piece = p
  <2> SUFFICES ASSUME NEW x \in Owned', NEW p \in Rng(Pieces(x))
               PROVE  p \in Rng(todo') \/ \E i \in 1..Len(layout) : layout[i].piece = p
    OBVIOUS
  <2>1. CASE x = o
    BY <1>7, <2>1 DEF o
  <2>2. CASE x \in Owned
    <3>1. x \in DOMAIN tree.refs
      BY <1>1, <2>2 DEF Owned
    <3>2. p.kind # "object"
      BY <1>1, <3>1, PiecesAreOwn
    <3>3. p \in Rng(todo) \/ \E i \in 1..Len(layout) : layout[i].piece = p
      BY <2>2 DEF PlanInv, WalkPlaces
    <3>4. p # Head(todo)
      BY <3>2
    <3> QED
      BY <1>2, <1>7, <3>3, <3>4
  <2> QED
    BY <1>8, <2>1, <2>2
<1>21. WalkPlaces'
  <2>1. Rng(todo)' = Rng(todo') /\ \A x : Rng(Pieces(x))' = Rng(Pieces(x))
    BY <1>9 DEF Rng
  <2>2. layout' = layout
    BY <1>9
  <2> QED
    BY <1>18, <1>19, <1>20, <2>1, <2>2 DEF WalkPlaces
<1> QED
  BY <1>17, <1>21

\* The next piece is of an object of the tree.
LEMMA HeadIsOfTree ==
    ASSUME IInv, todo # <<>>
    PROVE  tree \in Tree /\ todo \in Seq(Todo) /\ Head(todo).of \in DOMAIN tree.refs
<1>1. tree \in Tree
  BY DEF IInv, LayoutOK
<1>2. todo \in Seq(Todo)
  BY <1>1, TodoIsTyped DEF IInv, LayoutOK, LayoutTypeOK
<1>3. Head(todo) \in Todo
  <2> HIDE DEF Todo
  <2> QED
    BY <1>2, HeadTailFacts
<1> QED
  BY <1>1, <1>2, <1>3 DEF Todo, StructurePiece, ObjectPiece

\* Planning a group goes on with the objects it owns, none of them planned before.
LEMMA PlanGroupWalks ==
    ASSUME PlanInv, IInv', PlanGroup
    PROVE  (WalkVisits /\ WalkPlaces)'
<1> DEFINE g == Head(todo).of
           p == GroupPieces(g)
           d == Objects(tree.datasets[g])
           s == Objects(tree.groups[g])
<1>1. /\ phase = "plan" /\ todo # <<>> /\ Head(todo).kind = "object" /\ g \in Groups
      /\ order' = Append(order, g) /\ UNCHANGED <<tree, phase, layout>>
      /\ todo' = p \o d \o s \o Tail(todo)
  BY DEF PlanGroup
<1>2. tree \in Tree /\ g \in DOMAIN tree.refs
  BY <1>1, HeadIsOfTree DEF PlanInv
<1>3. /\ p \in Seq(Todo) /\ d \in Seq(Todo) /\ s \in Seq(Todo)
      /\ Pending(d) = Rng(tree.datasets[g]) /\ Pending(s) = Rng(tree.groups[g])
      /\ \A q \in Rng(d) \cup Rng(s) : q.kind = "object"
      /\ Once(d) /\ Once(s)
      /\ Rng(Kids(g)) = Pending(d) \cup Pending(s) /\ Pending(d) \cap Pending(s) = {}
  <2>1. /\ tree.datasets[g] \in Seq(DOMAIN tree.refs) /\ tree.groups[g] \in Seq(DOMAIN tree.refs)
        /\ Rng(Kids(g)) = Rng(tree.datasets[g]) \cup Rng(tree.groups[g])
    BY <1>1, <1>2, KidsFacts
  <2>2. p \in Seq(Todo)
    BY <1>1, <1>2, GroupPiecesAreTyped
  <2>3. /\ \A i, j \in 1..Len(tree.datasets[g]) : tree.datasets[g][i] = tree.datasets[g][j] => i = j
        /\ \A i, j \in 1..Len(tree.groups[g]) : tree.groups[g][i] = tree.groups[g][j] => i = j
        /\ Rng(tree.datasets[g]) \cap Rng(tree.groups[g]) = {}
    BY <1>1, <1>2, KidsAreDistinct
  <2>4. /\ d \in Seq(Todo) /\ Pending(d) = Rng(tree.datasets[g]) /\ Once(d)
        /\ \A q \in Rng(d) : q.kind = "object"
    BY <2>1, <2>3, ObjectsFacts
  <2>5. /\ s \in Seq(Todo) /\ Pending(s) = Rng(tree.groups[g]) /\ Once(s)
        /\ \A q \in Rng(s) : q.kind = "object"
    BY <2>1, <2>3, ObjectsFacts
  <2> QED
    BY <2>1, <2>2, <2>3, <2>4, <2>5
<1>4. Once(p) /\ Pending(p) = {} /\ p = Pieces(g)
  <2>1. p = Pieces(g)
    BY <1>1 DEF Pieces
  <2>2. \A q \in Rng(p) : q.kind # "object"
    BY <1>2, <2>1, PiecesAreOwn
  <2> HIDE DEF p
  <2> QED
    BY <2>1, <2>2, NothingPending
<1> HIDE DEF p, d, s
<1>5. /\ p \o d \in Seq(Todo) /\ Rng(p \o d) = Rng(p) \cup Rng(d)
      /\ Once(p \o d) /\ Pending(p \o d) = Pending(d)
  <2>1. p \o d \in Seq(Todo) /\ Rng(p \o d) = Rng(p) \cup Rng(d)
    BY ONLY <1>3, TodoConcat
  <2>2. Pending(p) \cap Pending(d) = {} /\ Once(p) /\ Once(d)
    BY <1>3, <1>4
  <2>3. Once(p \o d) /\ Pending(p \o d) = Pending(p) \cup Pending(d)
    BY ONLY <1>3, <2>2, OnceConcat
  <2> QED
    BY <1>4, <2>1, <2>3
<1> DEFINE pd == p \o d
<1>6. pd = p \o d
  OBVIOUS
<1> HIDE DEF pd
<1>7. /\ pd \o s \in Seq(Todo) /\ Rng(pd \o s) = Rng(pd) \cup Rng(s)
      /\ Once(pd \o s) /\ Pending(pd \o s) = Pending(d) \cup Pending(s)
  <2>1. pd \in Seq(Todo) /\ s \in Seq(Todo)
    BY <1>3, <1>5, <1>6
  <2>2. pd \o s \in Seq(Todo) /\ Rng(pd \o s) = Rng(pd) \cup Rng(s)
    BY ONLY <2>1, TodoConcat
  <2>3. Pending(pd) \cap Pending(s) = {} /\ Once(pd) /\ Once(s)
    BY <1>3, <1>5, <1>6
  <2>4. Once(pd \o s) /\ Pending(pd \o s) = Pending(pd) \cup Pending(s)
    BY ONLY <2>1, <2>3, OnceConcat
  <2> QED
    BY <1>5, <1>6, <2>2, <2>4
<1> DEFINE new == pd \o s
<1>8. todo' = new \o Tail(todo)
  BY <1>1, <1>6
<1>9. /\ Rng(Pieces(g)) \subseteq Rng(new) /\ Once(new) /\ Pending(new) = Rng(Kids(g))
      /\ \A q \in Rng(new) : q.kind = "object" \/ q \in Rng(Pieces(g))
      /\ new \in Seq(Todo)
  BY <1>3, <1>4, <1>5, <1>6, <1>7
<1> HIDE DEF new, g
<1>10. g = Head(todo).of
  BY DEF g
<1> QED
  BY <1>1, <1>8, <1>9, <1>10, PlanningAdvances

\* Planning a dataset goes on with its structures.
LEMMA PlanDatasetWalks ==
    ASSUME PlanInv, IInv', PlanDataset
    PROVE  (WalkVisits /\ WalkPlaces)'
<1> DEFINE d == Head(todo).of
           new == DatasetPieces(d)
<1>1. /\ phase = "plan" /\ todo # <<>> /\ Head(todo).kind = "object" /\ d \notin Groups
      /\ UNCHANGED <<tree, layout>>
  BY DEF PlanDataset
<1>2. tree \in Tree /\ d \in DOMAIN tree.refs
  BY <1>1, HeadIsOfTree DEF PlanInv
<1>3. CASE /\ todo' = new \o Tail(todo) /\ order' = Append(order, d) /\ UNCHANGED phase
           /\ tree.data[d].kind # "refused"
  <2>1. new = Pieces(d) /\ new \in Seq(Todo)
    BY <1>1, <1>2, PiecesAreOwn DEF Pieces
  <2>2. \A q \in Rng(new) : q.kind # "object"
    BY <1>2, <2>1, PiecesAreOwn
  <2> HIDE DEF new
  <2>3. Once(new) /\ Pending(new) = {}
    BY <2>2, NothingPending
  <2> HIDE DEF d
  <2>4. d = Head(todo).of
    BY DEF d
  <2> QED
    BY <1>1, <1>3, <2>1, <2>3, <2>4, PlanningAdvances
<1>4. CASE phase' = "failed" /\ UNCHANGED <<todo, order>>
  <2>1. Groups' = Groups /\ (\A x : Pieces(x)' = Pieces(x)) /\ (\A x : Kids(x)' = Kids(x)) /\ tree' = tree
    BY <1>1, TreeUnchanged
  <2> QED
    <3>1. /\ Once(todo)' = Once(todo) /\ Pending(todo)' = Pending(todo) /\ Rng(todo)' = Rng(todo)
          /\ Owned' = Owned /\ \A o : Rng(Pieces(o))' = Rng(Pieces(o))
      BY <1>4, <2>1 DEF Once, Pending, Rng, Owned
    <3>2. Known' = Known /\ layout' = layout
      BY <1>1, <3>1 DEF Known
    <3>3. WalkVisits'
      BY <1>4, <2>1, <3>1, <3>2 DEF PlanInv, WalkVisits
    <3>4. WalkPlaces'
      BY <3>1, <3>2 DEF PlanInv, WalkPlaces
    <3> QED
      BY <3>3, <3>4
<1> QED
  BY <1>3, <1>4 DEF PlanDataset

\* Reserving room moves a piece from the list to the layout.
LEMMA ReserveWalks ==
    ASSUME PlanInv, IInv', Reserve
    PROVE  (WalkVisits /\ WalkPlaces)'
<1> DEFINE piece == Head(todo)
           placed == [addr |-> cursor, piece |-> piece]
<1>1. /\ phase = "plan" /\ todo # <<>> /\ piece.kind # "object" /\ todo' = Tail(todo)
      /\ layout' = Append(layout, placed) /\ UNCHANGED <<tree, phase, order>>
  BY DEF Reserve
<1>2. todo \in Seq(Todo) /\ tree \in Tree
  BY <1>1, HeadIsOfTree DEF PlanInv
<1>3. Rng(todo) = {piece} \cup Rng(Tail(todo))
  <2> HIDE DEF Todo
  <2> QED
    BY <1>1, <1>2, HeadTailFacts
<1>4. Once(Tail(todo)) /\ Pending(todo) = Pending(Tail(todo))
  <2> HIDE DEF Todo
  <2>1. Once(todo)
    BY DEF PlanInv, WalkVisits
  <2>2. /\ Once(Tail(todo))
        /\ Pending(todo) = Pending(Tail(todo)) \cup (IF piece.kind = "object" THEN {piece.of} ELSE {})
    BY <1>1, <1>2, <2>1, HeadIsTaken
  <2> QED
    BY <1>1, <2>2
<1>5. Groups' = Groups /\ (\A x : Pieces(x)' = Pieces(x)) /\ (\A x : Kids(x)' = Kids(x)) /\ tree' = tree
  BY <1>1, TreeUnchanged
<1>6. /\ Once(todo)' = Once(todo') /\ Pending(todo)' = Pending(todo') /\ Rng(todo)' = Rng(todo')
      /\ Owned' = Owned
  BY <1>1 DEF Once, Pending, Rng, Owned
<1>7. WalkVisits'
  <2>1. Known' = Known
    BY <1>1, <1>4, <1>6 DEF Known
  <2> QED
    BY <1>1, <1>4, <1>5, <1>6, <2>1 DEF PlanInv, WalkVisits
<1>8. /\ Len(layout') = Len(layout) + 1 /\ Len(layout) \in Nat
      /\ layout'[Len(layout) + 1].piece = piece
      /\ \A i \in 1..Len(layout) : layout'[i] = layout[i]
  <2>1. layout \in Seq([addr: Nat, piece: Piece])
    BY DEF PlanInv, IInv, LayoutOK, LayoutTypeOK
  <2>2. layout' \in Seq([addr: Nat, piece: Piece])
    BY DEF IInv, LayoutOK, LayoutTypeOK
  <2> HIDE DEF placed
  <2>3. placed.piece = piece
    BY DEF placed
  <2> QED
    BY <1>1, <2>1, <2>2, <2>3
<1> HIDE DEF piece, placed
<1>9. piece \in Rng(todo) /\ \E o \in Owned : piece \in Rng(Pieces(o))
  BY <1>1, <1>3 DEF PlanInv, WalkPlaces
<1>10. \A i \in 1..Len(layout') : \/ layout'[i].piece.kind = "collection"
                                 \/ \E o \in Owned : layout'[i].piece \in Rng(Pieces(o))
  <2>1. \A i \in 1..Len(layout') : i \in 1..Len(layout) \/ i = Len(layout) + 1
    BY <1>8
  <2>2. \A i \in 1..Len(layout) : \/ layout[i].piece.kind = "collection"
                                  \/ \E o \in Owned : layout[i].piece \in Rng(Pieces(o))
    BY DEF PlanInv, WalkPlaces
  <2> QED
    BY <1>8, <1>9, <2>1, <2>2
<1>11. \A o \in Owned : \A p \in Rng(Pieces(o)) :
          p \in Rng(todo') \/ \E i \in 1..Len(layout') : layout'[i].piece = p
  <2> SUFFICES ASSUME NEW o \in Owned, NEW p \in Rng(Pieces(o)), p \notin Rng(todo')
               PROVE  \E i \in 1..Len(layout') : layout'[i].piece = p
    OBVIOUS
  <2>1. p \in Rng(todo) \/ \E i \in 1..Len(layout) : layout[i].piece = p
    BY DEF PlanInv, WalkPlaces
  <2>2. CASE p = piece
    <3>1. Len(layout) + 1 \in 1..Len(layout')
      BY <1>8
    <3> QED
      BY <1>8, <2>2, <3>1
  <2>3. CASE \E i \in 1..Len(layout) : layout[i].piece = p
    <3>1. PICK i \in 1..Len(layout) : layout[i].piece = p
      BY <2>3
    <3>2. i \in 1..Len(layout')
      BY <1>8
    <3> QED
      BY <1>8, <3>1, <3>2
  <2> QED
    BY <1>1, <1>3, <2>1, <2>2, <2>3
<1>12. \A p \in Rng(todo') : p.kind = "object" \/ \E o \in Owned : p \in Rng(Pieces(o))
  BY <1>1, <1>3 DEF PlanInv, WalkPlaces
<1>13. WalkPlaces'
  <2>1. \A o : Rng(Pieces(o))' = Rng(Pieces(o))
    BY <1>5 DEF Rng
  <2> QED
    BY <1>6, <1>10, <1>11, <1>12, <2>1 DEF WalkPlaces
<1> QED
  BY <1>7, <1>13

\* The later passes leave the plan alone, but that the heap's collections follow it.
LEMMA LaterStepsWalk ==
    ASSUME PlanInv, UNCHANGED <<tree, todo, order>>, phase \notin {"plan", "failed"} \/ todo = <<>>,
           \/ layout' = layout
           \/ layout \in Seq([addr: Nat, piece: Piece]) /\ \E e \in [addr: Nat, piece: Piece] :
                 e.piece.kind = "collection" /\ layout' = Append(layout, e)
    PROVE  (WalkVisits /\ WalkPlaces)'
<1>1. Groups' = Groups /\ (\A x : Pieces(x)' = Pieces(x)) /\ (\A x : Kids(x)' = Kids(x)) /\ tree' = tree
  BY TreeUnchanged
<1>2. todo = <<>>
  BY DEF PlanInv, WalkVisits
<1>3. /\ Once(todo)' = Once(todo) /\ Pending(todo)' = Pending(todo) /\ Rng(todo)' = Rng(todo)
      /\ Owned' = Owned /\ Known' = Known /\ \A o : Rng(Pieces(o))' = Rng(Pieces(o))
  BY <1>1 DEF Once, Pending, Rng, Owned, Known
<1>4. WalkVisits'
  BY <1>1, <1>2, <1>3 DEF PlanInv, WalkVisits
<1>5. /\ \A i \in 1..Len(layout') : layout'[i].piece.kind = "collection" \/ i \in 1..Len(layout)
      /\ \A i \in 1..Len(layout) : i \in 1..Len(layout') /\ layout'[i] = layout[i]
  <2>1. CASE layout' = layout
    BY <2>1
  <2>2. CASE layout \in Seq([addr: Nat, piece: Piece]) /\ \E e \in [addr: Nat, piece: Piece] :
                 e.piece.kind = "collection" /\ layout' = Append(layout, e)
    <3> DEFINE T == [addr: Nat, piece: Piece]
    <3>1. PICK e \in T : e.piece.kind = "collection" /\ layout' = Append(layout, e)
      BY <2>2
    <3>2. layout \in Seq(T)
      BY <2>2
    <3> HIDE DEF T
    <3>3. /\ Len(layout') = Len(layout) + 1 /\ Len(layout) \in Nat /\ layout'[Len(layout) + 1] = e
          /\ \A i \in 1..Len(layout) : layout'[i] = layout[i]
      BY <3>1, <3>2, AppendFacts
    <3>4. \A i \in 1..Len(layout') : i \in 1..Len(layout) \/ i = Len(layout) + 1
      BY <3>3
    <3>5. \A i \in 1..Len(layout) : i \in 1..Len(layout')
      BY <3>3
    <3> QED
      BY <3>1, <3>3, <3>4, <3>5
  <2> QED
    BY <2>1, <2>2
<1>6. WalkPlaces'
  <2>1. \A p \in Rng(todo)' : p.kind = "object" \/ \E o \in Owned' : p \in Rng(Pieces(o))'
    BY <1>3 DEF PlanInv, WalkPlaces
  <2>2. \A i \in 1..Len(layout') : \/ layout'[i].piece.kind = "collection"
                                  \/ \E o \in Owned' : layout'[i].piece \in Rng(Pieces(o))'
    BY <1>3, <1>5 DEF PlanInv, WalkPlaces
  <2>3. \A o \in Owned' : \A p \in Rng(Pieces(o))' :
          p \in Rng(todo)' \/ \E i \in 1..Len(layout') : layout'[i].piece = p
    BY <1>3, <1>5 DEF PlanInv, WalkPlaces
  <2> QED
    BY <2>1, <2>2, <2>3 DEF WalkPlaces
<1> QED
  BY <1>4, <1>6

\* The walk keeps its invariant in every step of the build.
LEMMA PlanKeeps == PlanInv /\ [LayoutNext]_layoutVars => PlanInv'
<1> SUFFICES ASSUME PlanInv, [LayoutNext]_layoutVars PROVE PlanInv'
  OBVIOUS
<1>1. IInv'
  BY NextKeeps DEF PlanInv
<1>2. CASE PlanGroup
  BY <1>1, <1>2, PlanGroupWalks DEF PlanInv
<1>3. CASE PlanDataset
  BY <1>1, <1>3, PlanDatasetWalks DEF PlanInv
<1>4. CASE Reserve
  BY <1>1, <1>4, ReserveWalks DEF PlanInv
<1>5. CASE /\ phase \notin {"plan", "failed"} \/ todo = <<>>
           /\ UNCHANGED <<tree, todo, order, layout>>
  BY <1>1, <1>5, LaterStepsWalk DEF PlanInv
<1>6. CASE PlaceCollection
  <2> DEFINE values == collections[Len(collection_addrs) + 1]
             e == [addr |-> cursor,
                   piece |-> [of |-> rootGroup, kind |-> "collection", count |-> Len(values)]]
             T == [addr: Nat, piece: Piece]
  <2>1. phase = "place" /\ UNCHANGED <<tree, todo, order>> /\ layout' = Append(layout, e)
    BY <1>6 DEF PlaceCollection
  <2>2. layout \in Seq(T) /\ layout' \in Seq(T)
    BY <1>1 DEF PlanInv, IInv, LayoutOK, LayoutTypeOK
  <2>3. e \in T /\ e.piece.kind = "collection"
    <3>1. Len(values) \in Nat
      <4>1. Len(collection_addrs) + 1 \in 1..Len(collections)
        BY <1>6 DEF PlaceCollection, PlanInv, IInv, LengthsOK
      <4> QED
        BY <4>1 DEF PlanInv, IInv, LengthsOK
    <3>2. cursor \in Nat /\ rootGroup \in Object
      BY TreeFacts DEF PlanInv, IInv, LayoutOK, LayoutTypeOK
    <3> HIDE DEF values
    <3> QED
      BY <3>1, <3>2 DEF Piece, Kind
  <2> HIDE DEF e
  <2> QED
    BY <1>1, <2>1, <2>2, <2>3, LaterStepsWalk DEF PlanInv
<1>7. CASE FinishPlan
  <2>1. todo = <<>> /\ UNCHANGED <<tree, todo, order, layout>>
    BY <1>7 DEF FinishPlan, planning
  <2> QED
    BY <1>5, <2>1
<1>8. CASE \/ FillObjRefs \/ ResolveLinkTargets \/ ApplyRefcounts \/ PatchLinks
           \/ RegisterVlenStrings \/ RegisterVlenObjRefs \/ BuildCollections \/ FinishPlacing
           \/ FillVlenObjRefLocs \/ Emit \/ EmitCollections
  <2>1. phase \notin {"plan", "failed"} /\ UNCHANGED <<tree, planning>>
    BY <1>8 DEF FillObjRefs, ResolveLinkTargets, ApplyRefcounts, PatchLinks, RegisterVlenStrings,
       RegisterVlenObjRefs, BuildCollections, FinishPlacing, FillVlenObjRefLocs, Emit, EmitCollections
  <2> QED
    BY <1>5, <2>1 DEF planning
<1>9. CASE UNCHANGED layoutVars
  <2>1. UNCHANGED <<tree, todo, order, layout, phase>>
    BY <1>9 DEF layoutVars, planning
  <2>2. Groups' = Groups /\ (\A x : Pieces(x)' = Pieces(x)) /\ (\A x : Kids(x)' = Kids(x))
    BY <2>1, TreeUnchanged
  <2>3. /\ Once(todo)' = Once(todo) /\ Pending(todo)' = Pending(todo) /\ Rng(todo)' = Rng(todo)
        /\ Owned' = Owned /\ \A o : Rng(Pieces(o))' = Rng(Pieces(o))
    BY <2>1, <2>2 DEF Once, Pending, Rng, Owned
  <2>4. Known' = Known
    BY <2>3 DEF Known
  <2>5. WalkVisits'
    BY <2>1, <2>2, <2>3, <2>4 DEF PlanInv, WalkVisits
  <2>6. WalkPlaces'
    BY <2>1, <2>3 DEF PlanInv, WalkPlaces
  <2> QED
    BY <1>1, <2>5, <2>6 DEF PlanInv
<1> QED
  BY <1>2, <1>3, <1>4, <1>6, <1>7, <1>8, <1>9 DEF LayoutNext

\* The walk begins at the root.
LEMMA PlanInit == LayoutInit => PlanInv
<1> SUFFICES ASSUME LayoutInit PROVE PlanInv
  OBVIOUS
<1>1. IInv
  BY InitEstablishes
<1> DEFINE piece == [of |-> rootGroup, kind |-> "object", count |-> 0]
<1>2. todo = <<piece>> /\ layout = <<>> /\ order = <<>> /\ phase = "plan"
  <2>1. Len(<<rootGroup>>) = 1 /\ <<rootGroup>>[1] = rootGroup
    OBVIOUS
  <2> QED
    BY <2>1 DEF LayoutInit, Objects
<1>3. piece.of = rootGroup /\ piece.kind = "object"
  OBVIOUS
<1> HIDE DEF piece
<1>4. Len(todo) = 1 /\ todo[1] = piece /\ Len(layout) = 0 /\ Len(order) = 0
  BY <1>2
<1>5. Rng(todo) = {piece} /\ Owned = {}
  BY <1>4 DEF Rng, Owned
<1>6. Pending(todo) = {rootGroup} /\ Known = {rootGroup}
  BY <1>3, <1>5 DEF Pending, Known
<1>7. Once(todo)
  BY <1>4 DEF Once
<1>8. WalkVisits
  BY <1>2, <1>4, <1>5, <1>6, <1>7 DEF WalkVisits
<1>9. WalkPlaces
  BY <1>3, <1>4, <1>5 DEF WalkPlaces
<1> QED
  BY <1>1, <1>8, <1>9 DEF PlanInv

\* When the first pass has ended, all of the tree is planned and all of the plan placed.
LEMMA PlanIsDone ==
    ASSUME PlanInv, phase \notin {"plan", "failed"}
    PROVE  /\ tree \in Tree /\ Owned = DOMAIN tree.refs
           /\ \A o \in Owned : \A p \in Rng(Pieces(o)) : \E i \in 1..Len(layout) : layout[i].piece = p
           /\ \A i \in 1..Len(layout) :
                 \/ layout[i].piece.kind = "collection"
                 \/ layout[i].piece.of \in Owned /\ layout[i].piece \in Rng(Pieces(layout[i].piece.of))
           /\ \A d \in DOMAIN tree.refs \ Groups : tree.data[d].kind # "refused"
<1>1. tree \in Tree /\ todo = <<>> /\ Owned \subseteq DOMAIN tree.refs
  BY DEF PlanInv, IInv, LayoutOK, WalkOK, WalkVisits, Owned
<1>2. Rng(todo) = {} /\ Pending(todo) = {} /\ Known = Owned
  <2>1. Len(todo) = 0
    BY <1>1
  <2>2. Rng(todo) = {}
    BY <2>1 DEF Rng
  <2> QED
    BY <2>2 DEF Pending, Known
<1>3. /\ rootGroup \in Owned
      /\ \A g \in Owned \cap Groups : \A i \in 1..Len(Kids(g)) : Kids(g)[i] \in Owned
  BY <1>2 DEF PlanInv, WalkVisits, Rng
<1>4. Owned = DOMAIN tree.refs
  <2>1. DOMAIN tree.refs = Groups \cup DOMAIN tree.data
    BY <1>1, TreeFacts
  <2>2. \A S \in SUBSET (Groups \cup DOMAIN tree.data) :
           /\ rootGroup \in S
           /\ \A g \in S \cap Groups : \A i \in 1..Len(Kids(g)) : Kids(g)[i] \in S
           => Groups \cup DOMAIN tree.data \subseteq S
    BY <1>1, OwnershipAssumption DEF Kids, Groups
  <2> QED
    BY <1>1, <1>3, <2>1, <2>2
<1>5. \A i \in 1..Len(layout) :
         \/ layout[i].piece.kind = "collection"
         \/ layout[i].piece.of \in Owned /\ layout[i].piece \in Rng(Pieces(layout[i].piece.of))
  <2> SUFFICES ASSUME NEW i \in 1..Len(layout), layout[i].piece.kind # "collection"
               PROVE  layout[i].piece.of \in Owned /\ layout[i].piece \in Rng(Pieces(layout[i].piece.of))
    OBVIOUS
  <2>1. PICK o \in Owned : layout[i].piece \in Rng(Pieces(o))
    BY DEF PlanInv, WalkPlaces
  <2>2. layout[i].piece.of = o
    BY <1>1, <2>1, PiecesAreOwn
  <2> QED
    BY <2>1, <2>2
<1>6. \A o \in Owned : \A p \in Rng(Pieces(o)) : \E i \in 1..Len(layout) : layout[i].piece = p
  BY <1>2 DEF PlanInv, WalkPlaces
<1>7. \A d \in Owned \ Groups : tree.data[d].kind # "refused"
  BY DEF PlanInv, WalkVisits
<1> QED
  BY <1>1, <1>4, <1>5, <1>6, <1>7

-----------------------------------------------------------------------------
(* Where the structures are *)

\* What is placed has an address, a size and an end before the cursor.
LEMMA PlacedTypes ==
    ASSUME IInv, NEW i \in 1..Len(layout)
    PROVE  /\ layout[i].addr \in Nat /\ ROOT_OH_ADDR <= layout[i].addr
           /\ layout[i].piece.count \in Nat /\ layout[i].piece.kind \in Kind
           /\ Size(layout[i].piece.kind, layout[i].piece.count) \in Nat
           /\ End(layout[i]) = layout[i].addr + Size(layout[i].piece.kind, layout[i].piece.count)
           /\ End(layout[i]) <= cursor /\ cursor \in Nat
<1> DEFINE T == [addr: Nat, piece: Piece]
<1>1. layout \in Seq(T) /\ layout[i].piece.kind \in Kind /\ cursor \in Nat
  BY DEF IInv, LayoutOK, LayoutTypeOK
<1>2. layout[i] \in T
  <2> HIDE DEF T
  <2> QED
    BY <1>1
<1>3. layout[i].addr \in Nat /\ layout[i].piece.count \in Nat
  BY <1>2 DEF Piece
<1>4. ROOT_OH_ADDR <= layout[i].addr /\ End(layout[i]) <= cursor
  BY DEF IInv, LayoutOK, RegionsDisjoint
<1> QED
  BY <1>1, <1>3, <1>4, SizeIsNatural DEF End

\* What takes room has its address to itself.
LEMMA Apart ==
    ASSUME IInv, NEW i \in 1..Len(layout), NEW j \in 1..Len(layout),
           Size(layout[i].piece.kind, layout[i].piece.count) > 0,
           Size(layout[j].piece.kind, layout[j].piece.count) > 0,
           layout[i].addr = layout[j].addr
    PROVE  i = j
<1>1. Len(layout) \in Nat
  BY DEF IInv, LayoutOK, LayoutTypeOK
<1>2. ASSUME NEW a \in 1..Len(layout), NEW b \in 1..Len(layout), a < b
      PROVE  End(layout[a]) <= layout[b].addr
  <2>1. b \in (a + 1)..Len(layout)
    BY <1>1, <1>2
  <2> QED
    BY <2>1 DEF IInv, LayoutOK, RegionsDisjoint
<1>3. ASSUME NEW a \in 1..Len(layout), NEW b \in 1..Len(layout), a < b,
             Size(layout[a].piece.kind, layout[a].piece.count) > 0
      PROVE  layout[a].addr # layout[b].addr
  <2>1. End(layout[a]) <= layout[b].addr
    BY <1>2, <1>3
  <2>2. /\ layout[a].addr \in Nat /\ layout[b].addr \in Nat
        /\ Size(layout[a].piece.kind, layout[a].piece.count) \in Nat
        /\ End(layout[a]) = layout[a].addr + Size(layout[a].piece.kind, layout[a].piece.count)
    BY PlacedTypes
  <2> QED
    BY <1>3, <2>1, <2>2
<1>4. i \in Nat /\ j \in Nat
  BY <1>1
<1> QED
  BY <1>3, <1>4

\* A structure an object has is found in the layout, and is that object's.
LEMMA PlacedFacts ==
    ASSUME PlanInv, phase \notin {"plan", "failed"}, NEW o \in Owned, NEW k,
           \E p \in Rng(Pieces(o)) : p.kind = k
    PROVE  \E i \in 1..Len(layout) :
              /\ PlacedAs(o, k) = layout[i] /\ layout[i].piece.of = o /\ layout[i].piece.kind = k
              /\ layout[i].piece \in Rng(Pieces(o))
<1>1. PICK p \in Rng(Pieces(o)) : p.kind = k
  OBVIOUS
<1>2. o \in DOMAIN tree.refs /\ tree \in Tree
  BY PlanIsDone
<1>3. p.of = o /\ p.kind # "collection"
  BY <1>2, PiecesAreOwn
<1>4. \E i \in 1..Len(layout) : layout[i].piece.of = o /\ layout[i].piece.kind = k
  BY <1>1, <1>3, PlanIsDone
<1> DEFINE i == CHOOSE j \in 1..Len(layout) : layout[j].piece.of = o /\ layout[j].piece.kind = k
<1>5. i \in 1..Len(layout) /\ layout[i].piece.of = o /\ layout[i].piece.kind = k
  BY <1>4
<1>6. PlacedAs(o, k) = layout[i]
  BY DEF PlacedAs
<1> HIDE DEF i
<1>7. layout[i].piece \in Rng(Pieces(o))
  BY <1>1, <1>3, <1>5, PlanIsDone
<1> QED
  BY <1>5, <1>6, <1>7

\* Every object has a header.
LEMMA HasHeader ==
    ASSUME tree \in Tree, NEW o \in DOMAIN tree.refs
    PROVE  \E p \in Rng(Pieces(o)) : p.kind = "header"
<1>1. \A c : PieceOf(o, "header", c).kind = "header"
  BY DEF PieceOf
<1>2. CASE o \in Groups
  <2>1. PieceOf(o, "header", HeaderCount(o)) \in Rng(GroupPieces(o))
    BY <1>2, RngGroupPieces
  <2> QED
    BY <1>1, <1>2, <2>1 DEF Pieces
<1>3. CASE o \notin Groups
  <2>1. o \in DOMAIN tree.data
    BY <1>3, TreeFacts
  <2>2. PieceOf(o, "header", Len(tree.refs[o])) \in Rng(DatasetPieces(o))
    BY <2>1, RngDatasetPieces
  <2> QED
    BY <1>1, <1>3, <2>2 DEF Pieces
<1> QED
  BY <1>2, <1>3

\* A size with a fixed part, or with entries that take some, is not zero.
LEMMA Room ==
    ASSUME NEW f \in Nat, NEW e \in Nat, NEW c \in Nat, f > 0 \/ (e > 0 /\ c > 0)
    PROVE  f + c * e > 0
<1>1. c * e \in Nat /\ (e > 0 /\ c > 0 => c * e > 0)
  OBVIOUS
<1> DEFINE x == c * e
<1> HIDE DEF x
<1> QED
  BY <1>1 DEF x

\* What is sought by its address takes room.
LEMMA HeadersTakeRoom ==
    ASSUME NEW k \in {"header", "btree", "local heap", "collection"}, NEW c \in Nat
    PROVE  Size(k, c) > 0
<1>1. k \in Kind
  BY DEF Kind
<1>2. Fixed[k] \in Nat /\ Fixed[k] > 0 /\ PerEntry[k] \in Nat
  BY <1>1, SizeAssumption
<1>3. Fixed[k] + c * PerEntry[k] > 0
  BY ONLY <1>2, c \in Nat, Room
<1> QED
  BY <1>3 DEF Size

\* Structures made of entries alone take room when they have one.
LEMMA EntriesTakeRoom ==
    ASSUME NEW k \in {"link heap", "snods", "vlen refs"}, NEW c \in Nat, c > 0
    PROVE  Size(k, c) > 0
<1>1. k \in Kind
  BY DEF Kind
<1>2. Fixed[k] \in Nat /\ PerEntry[k] > 0 /\ PerEntry[k] \in Nat
  BY <1>1, SizeAssumption
<1>3. c \in Nat /\ c > 0
  OBVIOUS
<1>4. Fixed[k] + c * PerEntry[k] > 0
  BY ONLY <1>2, <1>3, Room
<1> QED
  BY <1>4 DEF Size

\* An object's address is its own.
LEMMA AddrFacts ==
    ASSUME PlanInv, phase \notin {"plan", "failed"}, NEW o \in Owned
    PROVE  /\ \E i \in 1..Len(layout) : /\ PlacedAs(o, "header") = layout[i] /\ Addr(o) = layout[i].addr
                                        /\ layout[i].piece.of = o /\ layout[i].piece.kind = "header"
                                        /\ layout[i].piece \in Rng(Pieces(o))
           /\ Addr(o) \in Nat \ {0}
           /\ \A x \in Owned : Addr(x) = Addr(o) => x = o
<1>1. \A x \in Owned : \E i \in 1..Len(layout) :
         /\ PlacedAs(x, "header") = layout[i] /\ Addr(x) = layout[i].addr
         /\ layout[i].piece.of = x /\ layout[i].piece.kind = "header"
         /\ layout[i].piece \in Rng(Pieces(x))
  <2> SUFFICES ASSUME NEW x \in Owned
               PROVE  \E i \in 1..Len(layout) :
                         /\ PlacedAs(x, "header") = layout[i] /\ Addr(x) = layout[i].addr
                         /\ layout[i].piece.of = x /\ layout[i].piece.kind = "header"
                         /\ layout[i].piece \in Rng(Pieces(x))
    OBVIOUS
  <2>1. \E p \in Rng(Pieces(x)) : p.kind = "header"
    BY PlanIsDone, HasHeader
  <2>2. PICK i \in 1..Len(layout) : /\ PlacedAs(x, "header") = layout[i]
                                    /\ layout[i].piece.of = x /\ layout[i].piece.kind = "header"
                                    /\ layout[i].piece \in Rng(Pieces(x))
    BY <2>1, PlacedFacts
  <2>3. Addr(x) = layout[i].addr
    BY <2>2 DEF Addr
  <2> QED
    BY <2>2, <2>3
<1>2. PICK i \in 1..Len(layout) : /\ PlacedAs(o, "header") = layout[i] /\ Addr(o) = layout[i].addr
                                  /\ layout[i].piece.of = o /\ layout[i].piece.kind = "header"
                                  /\ layout[i].piece \in Rng(Pieces(o))
  BY <1>1
<1>3. IInv
  BY DEF PlanInv
<1>4. Addr(o) \in Nat \ {0}
  BY <1>2, <1>3, PlacedTypes, AddressAssumption
<1>5. ASSUME NEW x \in Owned, Addr(x) = Addr(o) PROVE x = o
  <2>1. PICK j \in 1..Len(layout) : /\ Addr(x) = layout[j].addr
                                    /\ layout[j].piece.of = x /\ layout[j].piece.kind = "header"
    BY <1>1
  <2>2. Size("header", layout[i].piece.count) > 0 /\ Size("header", layout[j].piece.count) > 0
    BY <1>3, PlacedTypes, HeadersTakeRoom
  <2>3. i = j
    BY <1>2, <1>3, <1>5, <2>1, <2>2, Apart
  <2> QED
    BY <1>2, <2>1, <2>3
<1> QED
  BY <1>2, <1>4, <1>5

\* The heap's collections are put behind all others: what was placed stays found.
LEMMA PlacedStays ==
    ASSUME PlanInv, phase \notin {"plan", "failed"}, NEW o \in Owned, NEW k,
           \E p \in Rng(Pieces(o)) : p.kind = k,
           \/ layout' = layout
           \/ /\ Len(layout') = Len(layout) + 1 /\ layout'[Len(layout) + 1].piece.kind = "collection"
              /\ \A i \in 1..Len(layout) : layout'[i] = layout[i]
    PROVE  PlacedAs(o, k)' = PlacedAs(o, k)
<1>1. CASE layout' = layout
  BY <1>1 DEF PlacedAs
<1>2. CASE /\ Len(layout') = Len(layout) + 1 /\ layout'[Len(layout) + 1].piece.kind = "collection"
           /\ \A i \in 1..Len(layout) : layout'[i] = layout[i]
  <2> DEFINE Old(i) == i \in 1..Len(layout) /\ layout[i].piece.of = o /\ layout[i].piece.kind = k
             New(i) == i \in 1..Len(layout') /\ layout'[i].piece.of = o /\ layout'[i].piece.kind = k
  <2>1. k # "collection"
    BY PlanIsDone, PiecesAreOwn
  <2>2. Len(layout) \in Nat
    BY DEF PlanInv, IInv, LayoutOK, LayoutTypeOK
  <2>3. \A i : Old(i) <=> New(i)
    <3>1. \A i \in 1..Len(layout') : i \in 1..Len(layout) \/ i = Len(layout) + 1
      BY <1>2, <2>2
    <3>2. \A i \in 1..Len(layout) : i \in 1..Len(layout')
      BY <1>2, <2>2
    <3> QED
      BY <1>2, <2>1, <3>1, <3>2
  <2>4. (CHOOSE i : Old(i)) = (CHOOSE i : New(i))
    <3> HIDE DEF Old, New
    <3> QED
      BY <2>3
  <2>5. (CHOOSE i : Old(i)) = (CHOOSE i \in 1..Len(layout) : layout[i].piece.of = o /\ layout[i].piece.kind = k)
    OBVIOUS
  <2>6. (CHOOSE i : New(i)) = (CHOOSE i \in 1..Len(layout') : layout'[i].piece.of = o /\ layout'[i].piece.kind = k)
    OBVIOUS
  <2>7. \E i \in 1..Len(layout) : layout[i].piece.of = o /\ layout[i].piece.kind = k
    BY PlacedFacts
  <2>8. (CHOOSE i : Old(i)) \in 1..Len(layout)
    BY <2>7
  <2> DEFINE c == CHOOSE i : Old(i)
  <2> HIDE DEF Old, New
  <2>9. PlacedAs(o, k) = layout[c]
    BY <2>5 DEF PlacedAs
  <2>10. PlacedAs(o, k)' = layout'[c]
    BY <2>4, <2>6 DEF PlacedAs
  <2> HIDE DEF c
  <2>11. c \in 1..Len(layout)
    BY <2>8 DEF c
  <2> QED
    BY <1>2, <2>9, <2>10, <2>11
<1> QED
  BY <1>1, <1>2

-----------------------------------------------------------------------------
(* What a pass has seen *)

\* The passes are numbered.
LEMMA RankFacts == \A p : Rank(p) \in Nat
  BY DEF Rank

\* Advancing sees the object the pass stands at.
LEMMA AdvanceSees ==
    ASSUME WalkOK, phase \in Passes, NEW next, Advance(next), Rank(next) = Rank(phase) + 1,
           UNCHANGED order
    PROVE  \A p \in Passes : Seen(p)' = Seen(p) \cup (IF p = phase THEN {order[at]} ELSE {})
<1> SUFFICES ASSUME NEW p \in Passes
             PROVE  Seen(p)' = Seen(p) \cup (IF p = phase THEN {order[at]} ELSE {})
  OBVIOUS
<1>1. /\ Len(order) \in Nat /\ at \in 1..Len(order)
  BY DEF WalkOK, Passes
<1>2. Rank(p) \in Nat /\ Rank(phase) \in Nat /\ Rank(next) \in Nat /\ Rank(phase') \in Nat
  BY RankFacts
<1>3. p = phase <=> Rank(p) = Rank(phase)
  BY DEF Passes, Rank
<1>4. Visited(p)' = Visited(p) \cup (IF p = phase THEN {at} ELSE {})
  <2>1. Visited(p)' = {i \in 1..Len(order) :
                         Rank(phase') > Rank(p) \/ (Rank(phase') = Rank(p) /\ i < at')}
    BY DEF Visited
  <2>2. CASE phase' = next /\ at' = 1 /\ at = Len(order)
    <3>1. Rank(phase') = Rank(phase) + 1
      BY <2>2
    <3>2. \A i \in 1..Len(order) :
             (Rank(phase') > Rank(p) \/ (Rank(phase') = Rank(p) /\ i < at'))
             <=> ((Rank(phase) > Rank(p) \/ (Rank(phase) = Rank(p) /\ i < at)) \/ (p = phase /\ i = at))
      BY <1>1, <1>2, <1>3, <2>2, <3>1
    <3> QED
      BY <1>1, <2>1, <3>2 DEF Visited
  <2>3. CASE phase' = phase /\ at' = at + 1
    <3>2. \A i \in 1..Len(order) :
             (Rank(phase') > Rank(p) \/ (Rank(phase') = Rank(p) /\ i < at'))
             <=> ((Rank(phase) > Rank(p) \/ (Rank(phase) = Rank(p) /\ i < at)) \/ (p = phase /\ i = at))
      BY <1>1, <1>2, <1>3, <2>3
    <3> QED
      BY <1>1, <2>1, <3>2 DEF Visited
  <2> QED
    BY <2>2, <2>3 DEF Advance
<1> HIDE DEF Passes
<1>5. Seen(p)' = {order[i] : i \in Visited(p)'}
  BY DEF Seen
<1> QED
  BY <1>4, <1>5 DEF Seen

\* The object a pass stands at is new to it.
LEMMA StandsAtNew ==
    ASSUME PlanInv, phase \in Passes
    PROVE  order[at] \in Owned /\ order[at] \notin Seen(phase)
<1>1. at \in 1..Len(order) /\ Len(order) \in Nat
  BY DEF PlanInv, IInv, WalkOK, Passes
<1>2. order[at] \in Owned
  BY <1>1 DEF Owned
<1>3. \A i \in Visited(phase) : i \in 1..Len(order) /\ i < at
  BY <1>1, RankFacts DEF Visited
<1>4. \A i \in 1..Len(order) : order[i] = order[at] => i = at
  BY <1>1 DEF PlanInv, WalkVisits
<1>5. \A i \in Visited(phase) : order[i] # order[at]
  BY <1>1, <1>3, <1>4
<1> QED
  BY <1>2, <1>5 DEF Seen

\* A step that is not of a pass, or that fails, sees nothing.
LEMMA ChangeSees ==
    ASSUME IInv, PassesBegin,
           \/ phase' = "failed"
           \/ phase = "plan" /\ phase' \in {"plan", "refs"} /\ UNCHANGED at
           \/ phase \in {"pack", "place", "heap"} /\ UNCHANGED <<at, order>>
              /\ (phase' = phase \/ Rank(phase') = Rank(phase) + 1)
           \/ UNCHANGED <<phase, at, order>>,
           NEW p \in Passes
    PROVE  IF phase' = "failed" THEN Seen(p)' = {} ELSE Seen(p)' = Seen(p)
<1>0. Rank(p) \in 2..11 /\ p \notin {"pack", "place", "heap", "plan", "failed"}
  BY DEF Passes, Rank
<1>1. Rank(phase) \in Nat /\ Rank(phase') \in Nat
  BY RankFacts
<1>2. CASE phase' = "failed"
  <2>1. Rank(phase') = 0
    BY <1>2 DEF Rank
  <2>2. Visited(p)' = {}
    BY <1>0, <2>1 DEF Visited
  <2> QED
    BY <1>2, <2>2 DEF Seen
<1>3. CASE phase = "plan" /\ phase' \in {"plan", "refs"} /\ UNCHANGED at
  <2>1. at = 1 /\ at' = 1
    BY <1>3 DEF PassesBegin
  <2>2. Rank(phase) = 1 /\ Rank(phase') \in {1, 2}
    BY <1>3 DEF Rank
  <2>3. Visited(p) = {}
    BY <1>0, <2>1, <2>2 DEF Visited
  <2>4. Visited(p)' = {}
    BY <1>0, <2>1, <2>2 DEF Visited
  <2> QED
    BY <1>3, <2>3, <2>4 DEF Seen
<1>4. CASE phase \in {"pack", "place", "heap"} /\ UNCHANGED <<at, order>>
           /\ (phase' = phase \/ Rank(phase') = Rank(phase) + 1)
  <2>1. at = 1 /\ at' = 1 /\ order' = order
    BY <1>4 DEF PassesBegin
  <2>2. Rank(phase) # Rank(p)
    BY <1>4 DEF Rank, Passes
  <2>3. \A i \in 1..Len(order) : (Rank(phase') > Rank(p) \/ (Rank(phase') = Rank(p) /\ i < at'))
             <=> (Rank(phase) > Rank(p) \/ (Rank(phase) = Rank(p) /\ i < at))
    BY <1>0, <1>1, <1>4, <2>1, <2>2
  <2>4. Visited(p)' = Visited(p)
    BY <2>1, <2>3 DEF Visited
  <2>5. phase' # "failed"
    BY <1>4 DEF Rank
  <2> QED
    BY <2>1, <2>4, <2>5 DEF Seen
<1>5. CASE UNCHANGED <<phase, at, order>> /\ phase' # "failed"
  BY <1>5 DEF Seen, Visited
<1> QED
  BY <1>2, <1>3, <1>4, <1>5

\* A pass visits planned objects only.
LEMMA SeenIsOwned ==
    ASSUME NEW p
    PROVE  Seen(p) \subseteq Owned
  BY DEF Seen, Visited, Owned

\* No pass has seen anything while the plan is made, or once the build failed.
LEMMA NothingSeenYet ==
    ASSUME NEW p \in Passes, phase \in {"plan", "failed"}
    PROVE  Seen(p) = {}
<1>1. Rank(phase) \in {0, 1} /\ Rank(p) \in 2..11
  BY DEF Rank, Passes
<1> QED
  BY <1>1 DEF Seen, Visited

\* When its pass is over, an object has been seen.
LEMMA AllSeen ==
    ASSUME NEW p, Rank(phase) > Rank(p)
    PROVE  Seen(p) = Owned
  BY DEF Seen, Visited, Owned

-----------------------------------------------------------------------------
(* What a step changes, by the pass it is of *)

\* Which variables a step may change, by the pass it is of.
LEMMA StepFrame ==
    ASSUME [LayoutNext]_layoutVars
    PROVE  /\ tree' = tree
           /\ phase = "refs" => FillObjRefs \/ UNCHANGED layoutVars
           /\ phase = "aliases" => ResolveLinkTargets \/ UNCHANGED layoutVars
           /\ phase = "counts" => ApplyRefcounts \/ UNCHANGED layoutVars
           /\ phase = "links" => PatchLinks \/ UNCHANGED layoutVars
           /\ phase = "strings" => RegisterVlenStrings \/ UNCHANGED layoutVars
           /\ phase = "objrefs" => RegisterVlenObjRefs \/ UNCHANGED layoutVars
           /\ phase = "pack" => BuildCollections \/ UNCHANGED layoutVars
           /\ phase = "place" => PlaceCollection \/ FinishPlacing \/ UNCHANGED layoutVars
           /\ phase = "locs" => FillVlenObjRefLocs \/ UNCHANGED layoutVars
           /\ phase = "emit" => Emit \/ UNCHANGED layoutVars
           /\ phase = "heap" => EmitCollections \/ UNCHANGED layoutVars
           /\ phase = "done" => UNCHANGED layoutVars
           /\ phase = "failed" => UNCHANGED layoutVars
           /\ phase = "plan" => PlanGroup \/ PlanDataset \/ Reserve \/ FinishPlan \/ UNCHANGED layoutVars
           /\ phase # "plan" => UNCHANGED <<todo, order>>
           /\ phase \notin {"plan", "place"} => UNCHANGED <<cursor, layout>>
           /\ phase # "refs" => refs' = refs
           /\ phase # "aliases" => UNCHANGED <<aliases, counts>>
           /\ phase # "counts" => refcount' = refcount
           /\ phase # "links" => links' = links
           /\ phase # "strings" => ordinals' = ordinals
           /\ phase # "objrefs" => refOrdinals' = refOrdinals
           /\ phase \notin {"strings", "objrefs"} => heap' = heap
           /\ phase # "pack" => UNCHANGED <<collections, locations>>
           /\ phase # "place" => collection_addrs' = collection_addrs
           /\ phase # "locs" => refLocs' = refLocs
           /\ phase \notin {"emit", "heap"} => image' = image
<1> USE DEF planning, resolving, packed, heaping
<1>1. CASE PlanGroup
  BY <1>1 DEF PlanGroup
<1>2. CASE PlanDataset
  BY <1>2 DEF PlanDataset
<1>3. CASE Reserve
  BY <1>3 DEF Reserve
<1>4. CASE FinishPlan
  BY <1>4 DEF FinishPlan
<1>5. CASE FillObjRefs
  BY <1>5 DEF FillObjRefs
<1>6. CASE ResolveLinkTargets
  BY <1>6 DEF ResolveLinkTargets
<1>7. CASE ApplyRefcounts
  BY <1>7 DEF ApplyRefcounts
<1>8. CASE PatchLinks
  BY <1>8 DEF PatchLinks
<1>9. CASE RegisterVlenStrings
  BY <1>9 DEF RegisterVlenStrings
<1>10. CASE RegisterVlenObjRefs
  BY <1>10 DEF RegisterVlenObjRefs
<1>11. CASE BuildCollections
  BY <1>11 DEF BuildCollections
<1>12. CASE PlaceCollection
  BY <1>12 DEF PlaceCollection
<1>13. CASE FinishPlacing
  BY <1>13 DEF FinishPlacing
<1>14. CASE FillVlenObjRefLocs
  BY <1>14 DEF FillVlenObjRefLocs
<1>15. CASE Emit
  BY <1>15 DEF Emit
<1>16. CASE EmitCollections
  BY <1>16 DEF EmitCollections
<1>17. CASE UNCHANGED layoutVars
  BY <1>17 DEF layoutVars
<1> QED
  BY <1>1, <1>2, <1>3, <1>4, <1>5, <1>6, <1>7, <1>8, <1>9, <1>10, <1>11, <1>12, <1>13,
     <1>14, <1>15, <1>16, <1>17 DEF LayoutNext

\* The pass that follows one.
NextPass(p) == CASE p = "refs" -> "aliases" [] p = "aliases" -> "counts" [] p = "counts" -> "links"
                 [] p = "links" -> "strings" [] p = "strings" -> "objrefs" [] p = "objrefs" -> "pack"
                 [] p = "locs" -> "emit" [] OTHER -> "heap"

\* How a step moves the build along.
LEMMA StepMoves ==
    ASSUME [LayoutNext]_layoutVars
    PROVE  \/ phase \in Passes /\ Advance(NextPass(phase)) /\ UNCHANGED order
           \/ phase' = "failed" /\ UNCHANGED at
           \/ phase = "plan" /\ phase' \in {"plan", "refs"} /\ UNCHANGED at
           \/ phase \in {"pack", "place", "heap"} /\ UNCHANGED <<at, order>>
              /\ (phase' = phase \/ Rank(phase') = Rank(phase) + 1)
              /\ phase' \in {"pack", "place", "locs", "heap", "done"}
           \/ UNCHANGED <<phase, at, order>>
<1>1. CASE PlanGroup \/ PlanDataset \/ Reserve \/ FinishPlan
  BY <1>1 DEF PlanGroup, PlanDataset, Reserve, FinishPlan
<1>2. CASE BuildCollections \/ PlaceCollection \/ FinishPlacing \/ EmitCollections
  BY <1>2 DEF BuildCollections, PlaceCollection, FinishPlacing, EmitCollections, Rank, planning
<1>3. CASE FillObjRefs
  BY <1>3 DEF FillObjRefs, Passes, NextPass, planning
<1>4. CASE ResolveLinkTargets
  BY <1>4 DEF ResolveLinkTargets, Passes, NextPass, planning
<1>5. CASE ApplyRefcounts
  BY <1>5 DEF ApplyRefcounts, Passes, NextPass, planning
<1>6. CASE PatchLinks
  BY <1>6 DEF PatchLinks, Passes, NextPass, planning
<1>7. CASE RegisterVlenStrings
  BY <1>7 DEF RegisterVlenStrings, Passes, NextPass, planning
<1>8. CASE RegisterVlenObjRefs
  BY <1>8 DEF RegisterVlenObjRefs, Passes, NextPass, planning
<1>9. CASE FillVlenObjRefLocs
  BY <1>9 DEF FillVlenObjRefLocs, Passes, NextPass, planning
<1>10. CASE Emit
  BY <1>10 DEF Emit, Passes, NextPass, planning
<1>11. CASE UNCHANGED layoutVars
  BY <1>11 DEF layoutVars, planning
<1> QED
  BY <1>1, <1>2, <1>3, <1>4, <1>5, <1>6, <1>7, <1>8, <1>9, <1>10, <1>11 DEF LayoutNext

\* The passes follow each other.
LEMMA NextPassRank ==
    ASSUME NEW p \in Passes
    PROVE  Rank(NextPass(p)) = Rank(p) + 1 /\ NextPass(p) \notin {"plan", "failed"}
  BY DEF Passes, NextPass, Rank

\* Every pass begins at the first object.
LEMMA PassesBeginKeeps ==
    ASSUME IInv, PassesBegin, [LayoutNext]_layoutVars
    PROVE  PassesBegin'
<1>1. CASE phase \in Passes /\ Advance(NextPass(phase))
  <2>1. NextPass(phase) \in Passes \cup {"pack", "heap"}
    BY <1>1 DEF NextPass, Passes
  <2>2. CASE phase' = NextPass(phase) /\ at' = 1
    BY <2>1, <2>2 DEF PassesBegin
  <2>3. CASE phase' = phase
    BY <1>1, <2>3 DEF PassesBegin, Passes
  <2> QED
    BY <1>1, <2>2, <2>3 DEF Advance
<1>2. CASE phase' = "failed"
  BY <1>2 DEF PassesBegin
<1>3. CASE phase \in {"plan", "pack", "place", "heap"} /\ UNCHANGED at
           /\ phase' \in {"plan", "refs", "pack", "place", "locs", "heap", "done"}
  BY <1>3 DEF PassesBegin, Passes
<1>4. CASE UNCHANGED <<phase, at>>
  BY <1>4 DEF PassesBegin
<1> QED
  BY <1>1, <1>2, <1>3, <1>4, StepMoves

\* A pass sees the object a step is at, unless the step fails, and nothing else.
LEMMA StepSees ==
    ASSUME PlanInv, PassesBegin, [LayoutNext]_layoutVars, NEW p \in Passes
    PROVE  \/ phase' = "failed" /\ Seen(p)' = {}
           \/ phase' # "failed" /\ p # phase /\ Seen(p)' = Seen(p)
           \/ phase' # "failed" /\ p = phase /\ UNCHANGED <<phase, at, order>> /\ Seen(p)' = Seen(p)
           \/ /\ phase' # "failed" /\ p = phase /\ Advance(NextPass(phase)) /\ UNCHANGED order
              /\ Seen(p)' = Seen(p) \cup {order[at]}
<1>1. CASE phase \in Passes /\ Advance(NextPass(phase)) /\ UNCHANGED order
  <2>1. phase' # "failed"
    BY <1>1, NextPassRank DEF Advance, Passes
  <2>2. Rank(NextPass(phase)) = Rank(phase) + 1
    BY <1>1, NextPassRank
  <2>3. Seen(p)' = Seen(p) \cup (IF p = phase THEN {order[at]} ELSE {})
    BY <1>1, <2>2, AdvanceSees DEF PlanInv, IInv
  <2> QED
    BY <1>1, <2>1, <2>3
<1>2. CASE phase' = "failed"
  <2>1. IF phase' = "failed" THEN Seen(p)' = {} ELSE Seen(p)' = Seen(p)
    BY <1>2, ChangeSees DEF PlanInv
  <2> QED
    BY <1>2, <2>1
<1>3. CASE phase = "plan" /\ phase' \in {"plan", "refs"} /\ UNCHANGED at
  <2>1. IF phase' = "failed" THEN Seen(p)' = {} ELSE Seen(p)' = Seen(p)
    BY <1>3, ChangeSees DEF PlanInv
  <2> QED
    BY <1>3, <2>1 DEF Passes
<1>4. CASE phase \in {"pack", "place", "heap"} /\ UNCHANGED <<at, order>>
           /\ (phase' = phase \/ Rank(phase') = Rank(phase) + 1)
           /\ phase' \in {"pack", "place", "locs", "heap", "done"}
  <2>1. IF phase' = "failed" THEN Seen(p)' = {} ELSE Seen(p)' = Seen(p)
    BY <1>4, ChangeSees DEF PlanInv
  <2> QED
    BY <1>4, <2>1 DEF Passes
<1>5. CASE UNCHANGED <<phase, at, order>> /\ phase' # "failed"
  <2>1. IF phase' = "failed" THEN Seen(p)' = {} ELSE Seen(p)' = Seen(p)
    BY <1>5, ChangeSees DEF PlanInv
  <2> QED
    BY <1>5, <2>1
<1> QED
  BY <1>1, <1>2, <1>3, <1>4, <1>5, StepMoves

\* Addresses and what was planned do not change any more.
LEMMA StepKeepsAddresses ==
    ASSUME PlanInv, [LayoutNext]_layoutVars, phase \notin {"plan", "failed"}
    PROVE  /\ Owned' = Owned /\ AddrOf' = AddrOf
           /\ \A o \in Owned : \A k : (\E p \in Rng(Pieces(o)) : p.kind = k)
                 => PlacedAs(o, k)' = PlacedAs(o, k)
           /\ \A i \in 1..Len(layout) : i \in 1..Len(layout') /\ layout'[i] = layout[i]
           /\ \A i \in 1..Len(layout') : i \in 1..Len(layout) \/ layout'[i].piece.kind = "collection"
<1>1. Owned' = Owned
  BY StepFrame DEF Owned
<1>2. \/ layout' = layout
      \/ /\ Len(layout') = Len(layout) + 1 /\ layout'[Len(layout) + 1].piece.kind = "collection"
         /\ \A i \in 1..Len(layout) : layout'[i] = layout[i]
  <2>1. CASE PlaceCollection
    <3> DEFINE values == collections[Len(collection_addrs) + 1]
               e == [addr |-> cursor,
                     piece |-> [of |-> rootGroup, kind |-> "collection", count |-> Len(values)]]
               T == [addr: Nat, piece: Piece]
    <3>1. layout' = Append(layout, e)
      BY <2>1 DEF PlaceCollection
    <3>2. layout \in Seq(T)
      BY DEF PlanInv, IInv, LayoutOK, LayoutTypeOK
    <3>3. e.piece.kind = "collection"
      OBVIOUS
    <3> HIDE DEF e, T
    <3>4. /\ Len(layout') = Len(layout) + 1 /\ layout'[Len(layout) + 1] = e
          /\ \A i \in 1..Len(layout) : layout'[i] = layout[i]
      BY <3>1, <3>2
    <3> QED
      BY <3>3, <3>4
  <2>2. CASE ~PlaceCollection
    <3>1. phase = "place" => layout' = layout
      BY <2>2, StepFrame DEF FinishPlacing, planning, layoutVars
    <3> QED
      BY <3>1, StepFrame
  <2> QED
    BY <2>1, <2>2
<1>3. ASSUME NEW o \in Owned, NEW k, \E p \in Rng(Pieces(o)) : p.kind = k
      PROVE  PlacedAs(o, k)' = PlacedAs(o, k)
  BY <1>2, <1>3, PlacedStays
<1>4. \A o \in Owned : Addr(o)' = Addr(o)
  <2> SUFFICES ASSUME NEW o \in Owned PROVE Addr(o)' = Addr(o)
    OBVIOUS
  <2>1. \E p \in Rng(Pieces(o)) : p.kind = "header"
    BY PlanIsDone, HasHeader
  <2>2. PlacedAs(o, "header")' = PlacedAs(o, "header")
    BY <1>3, <2>1
  <2> QED
    BY <2>2 DEF Addr
<1>5. AddrOf' = AddrOf
  BY <1>1, <1>4 DEF AddrOf
<1>6. Len(layout) \in Nat
  BY DEF PlanInv, IInv, LayoutOK, LayoutTypeOK
<1>7. \A i \in 1..Len(layout) : i \in 1..Len(layout') /\ layout'[i] = layout[i]
  BY <1>2, <1>6
<1>8. \A i \in 1..Len(layout') : i \in 1..Len(layout) \/ layout'[i].piece.kind = "collection"
  <2>1. CASE layout' = layout
    BY <2>1
  <2>2. CASE Len(layout') = Len(layout) + 1 /\ layout'[Len(layout) + 1].piece.kind = "collection"
    <3>1. \A i \in 1..Len(layout') : i \in 1..Len(layout) \/ i = Len(layout) + 1
      BY <1>6, <2>2
    <3> QED
      BY <2>2, <3>1
  <2> QED
    BY <1>2, <2>1, <2>2
<1> QED
  BY <1>1, <1>3, <1>5, <1>7, <1>8

-----------------------------------------------------------------------------
(* References, aliases and links are addresses *)

\* After the plan an object has one address, its own.
LEMMA AddrOfFacts ==
    ASSUME PlanInv, phase \notin {"plan", "failed"}, NEW o \in Owned
    PROVE  AddrOf[o] = Addr(o) /\ AddrOf[o] \in Nat \ {0} /\ \A x \in Owned : AddrOf[x] = AddrOf[o] => x = o
<1>1. \A x \in Owned : AddrOf[x] = Addr(x)
  BY DEF AddrOf
<1>2. Addr(o) \in Nat \ {0} /\ \A x \in Owned : Addr(x) = Addr(o) => x = o
  BY AddrFacts
<1> QED
  BY <1>1, <1>2

\* fill_objref_addrs turns the references of every object it visits into addresses.
LEMMA RefsKeep ==
    ASSUME PlanInv, PassesBegin, RefsAreAddresses, [LayoutNext]_layoutVars
    PROVE  RefsAreAddresses'
<1> SUFFICES ASSUME NEW o \in Seen("refs")'
             PROVE  /\ \A i \in 1..Len(tree'.refs[o]) : \A j \in 1..Len(tree'.refs[o][i]) :
                          tree'.refs[o][i][j] \in Owned'
                    /\ refs'[o] = [i \in 1..Len(tree'.refs[o]) |->
                          [j \in 1..Len(tree'.refs[o][i]) |-> AddrOf'[tree'.refs[o][i][j]]]]
  BY DEF RefsAreAddresses
<1>1. tree' = tree /\ "refs" \in Passes
  BY StepFrame DEF Passes
<1>2. phase \notin {"plan", "failed"}
  <2>1. CASE phase \in {"plan", "failed"}
    <3>1. Seen("refs") = {} /\ phase # "refs"
      BY <1>1, <2>1, NothingSeenYet
    <3> QED
      BY <1>1, <3>1, StepSees
  <2> QED
    BY <2>1
<1>3. Owned' = Owned /\ AddrOf' = AddrOf
  BY <1>2, StepKeepsAddresses
<1>4. CASE o \in Seen("refs") /\ refs'[o] = refs[o]
  BY <1>1, <1>3, <1>4 DEF RefsAreAddresses
<1>5. CASE phase = "refs" /\ Advance(NextPass(phase)) /\ FillObjRefs /\ phase' # "failed"
  <2> DEFINE x == order[at]
             names == tree.refs[x]
             addrs == [i \in 1..Len(names) |-> [j \in 1..Len(names[i]) |-> Addr(names[i][j])]]
  <2>1. /\ \A i \in 1..Len(names) : \A j \in 1..Len(names[i]) : names[i][j] \in Owned
        /\ refs' = [refs EXCEPT ![x] = addrs]
    BY <1>5 DEF FillObjRefs
  <2>2. x \in DOMAIN refs
    BY <1>5, StandsInTree DEF PlanInv, IInv, LengthsOK
  <2>3. CASE o = x
    <3>1. refs'[o] = addrs
      BY <2>1, <2>2, <2>3
    <3>2. addrs = [i \in 1..Len(names) |-> [j \in 1..Len(names[i]) |-> AddrOf[names[i][j]]]]
      BY <2>1 DEF AddrOf
    <3> QED
      BY <1>1, <1>3, <2>1, <2>3, <3>1, <3>2
  <2>4. CASE o # x
    <3>1. refs'[o] = refs[o]
      <4> HIDE DEF addrs, x
      <4> QED
        BY <2>1, <2>4
    <3>2. o \in Seen("refs")
      BY <1>1, <1>5, <2>4, StepSees
    <3> QED
      BY <1>4, <3>1, <3>2
  <2> QED
    BY <2>3, <2>4
<1>6. CASE phase # "refs" \/ UNCHANGED layoutVars
  <2>1. refs' = refs
    BY <1>6, StepFrame DEF layoutVars, resolving
  <2>2. o \in Seen("refs")
    <3>1. CASE phase # "refs"
      BY <1>1, <3>1, StepSees
    <3>2. CASE UNCHANGED layoutVars
      <4>1. phase' = phase /\ order' = order /\ at' = at
        BY <3>2 DEF layoutVars, planning
      <4> QED
        BY <4>1 DEF Seen, Visited
    <3> QED
      BY <1>6, <3>1, <3>2
  <2> QED
    BY <1>4, <2>1, <2>2
<1>7. phase = "refs" => FillObjRefs \/ UNCHANGED layoutVars
  BY StepFrame
<1>8. phase' # "failed"
  BY <1>1, StepSees
<1>9. FillObjRefs /\ phase' # "failed" => Advance(NextPass(phase))
  BY DEF FillObjRefs, NextPass
<1> QED
  BY <1>5, <1>6, <1>7, <1>8, <1>9

\* resolve_link_targets turns hard aliases into addresses.
LEMMA AliasesKeep ==
    ASSUME PlanInv, PassesBegin, AliasesAreAddresses, [LayoutNext]_layoutVars
    PROVE  AliasesAreAddresses'
<1>1. tree' = tree /\ "aliases" \in Passes /\ Groups' = Groups
  BY StepFrame DEF Passes, Groups
<1>2. \A g : HardAliases(g)' = HardAliases(g)
  BY <1>1 DEF HardAliases
<1>3. ASSUME NEW g \in Seen("aliases")', g \in Seen("aliases") \cap Groups, aliases'[g] = aliases[g],
             NEW i \in HardAliases(g)
      PROVE  tree.links[g][i] \in Owned' /\ aliases'[g][i] = AddrOf'[tree.links[g][i]]
  <2>1. phase \notin {"plan", "failed"}
    BY <1>1, <1>3, NothingSeenYet
  <2> QED
    BY <1>3, <2>1, StepKeepsAddresses DEF AliasesAreAddresses
<1>4. CASE phase # "aliases" \/ UNCHANGED layoutVars
  <2>1. aliases' = aliases
    BY <1>4, StepFrame DEF layoutVars, resolving
  <2>2. Seen("aliases")' \subseteq Seen("aliases")
    <3>1. CASE phase # "aliases"
      BY <1>1, <3>1, StepSees
    <3>2. CASE UNCHANGED layoutVars
      <4>1. phase' = phase /\ order' = order /\ at' = at
        BY <3>2 DEF layoutVars, planning
      <4> QED
        BY <4>1 DEF Seen, Visited
    <3> QED
      BY <1>4, <3>1, <3>2
  <2>3. \A g \in Seen("aliases")' \cap Groups : \A i \in HardAliases(g) :
           tree.links[g][i] \in Owned' /\ aliases'[g][i] = AddrOf'[tree.links[g][i]]
    BY <1>3, <2>1, <2>2
  <2> QED
    BY <1>1, <1>2, <2>1, <2>3 DEF AliasesAreAddresses
<1>5. CASE phase = "aliases" /\ ResolveLinkTargets
  <2> DEFINE x == order[at]
             addrs == [i \in HardAliases(x) |-> Addr(tree.links[x][i])]
             new == [i \in 1..Len(aliases[x]) |-> IF i \in DOMAIN addrs THEN addrs[i] ELSE aliases[x][i]]
  <2>1. CASE phase' = "failed" /\ UNCHANGED aliases
    <3>1. Seen("aliases")' = {}
      BY <1>1, <2>1, StepSees
    <3> QED
      BY <1>1, <1>2, <2>1, <3>1 DEF AliasesAreAddresses
  <2>2. CASE x \notin Groups /\ aliases' = aliases /\ phase' # "failed"
    <3>1. Seen("aliases")' \cap Groups \subseteq Seen("aliases")
      BY <1>1, <1>5, <2>2, StepSees
    <3>2. \A g \in Seen("aliases")' \cap Groups : \A i \in HardAliases(g) :
             tree.links[g][i] \in Owned' /\ aliases'[g][i] = AddrOf'[tree.links[g][i]]
      BY <1>3, <2>2, <3>1
    <3> QED
      BY <1>1, <1>2, <2>2, <3>2 DEF AliasesAreAddresses
  <2>3. CASE /\ x \in Groups /\ phase' # "failed" /\ aliases' = [aliases EXCEPT ![x] = new]
             /\ \A i \in HardAliases(x) : tree.links[x][i] \in Owned
    <3>1. Len(aliases[x]) = Len(tree.links[x]) /\ Len(tree.links[x]) \in Nat /\ DOMAIN aliases = Groups
      BY <2>3, TreeFacts DEF AliasesAreAddresses, PlanInv, IInv, LayoutOK
    <3>2. Len(new) = Len(tree.links[x])
      BY <3>1
    <3>3. \A i \in HardAliases(x) : new[i] = AddrOf[tree.links[x][i]]
      <4> SUFFICES ASSUME NEW i \in HardAliases(x) PROVE new[i] = AddrOf[tree.links[x][i]]
        OBVIOUS
      <4>1. i \in 1..Len(aliases[x])
        BY <3>1 DEF HardAliases
      <4>2. new[i] = Addr(tree.links[x][i])
        BY <4>1
      <4> QED
        BY <2>3, <4>2 DEF AddrOf
    <3>4. Owned' = Owned /\ AddrOf' = AddrOf
      BY <1>5, StepKeepsAddresses
    <3>5. Seen("aliases")' \subseteq Seen("aliases") \cup {x}
      BY <1>1, <1>5, StepSees
    <3> HIDE DEF new, x
    <3>6. DOMAIN aliases' = Groups /\ \A g \in Groups : Len(aliases'[g]) = Len(tree.links[g])
      <4>1. DOMAIN aliases' = Groups
        BY <2>3, <3>1
      <4>2. ASSUME NEW g \in Groups PROVE Len(aliases'[g]) = Len(tree.links[g])
        <5>1. CASE g = x
          BY <2>3, <3>1, <3>2, <5>1
        <5>2. CASE g # x
          BY <2>3, <3>1, <5>2 DEF AliasesAreAddresses
        <5> QED
          BY <5>1, <5>2
      <4> QED
        BY <4>1, <4>2
    <3>7. \A g \in Seen("aliases")' \cap Groups : \A i \in HardAliases(g) :
             tree.links[g][i] \in Owned' /\ aliases'[g][i] = AddrOf'[tree.links[g][i]]
      <4> SUFFICES ASSUME NEW g \in Seen("aliases")' \cap Groups, NEW i \in HardAliases(g)
                   PROVE  tree.links[g][i] \in Owned' /\ aliases'[g][i] = AddrOf'[tree.links[g][i]]
        OBVIOUS
      <4>1. CASE g = x
        <5>1. aliases'[g] = new
          BY <2>3, <3>1, <4>1
        <5> QED
          BY <2>3, <3>3, <3>4, <4>1, <5>1
      <4>2. CASE g # x
        <5>1. aliases'[g] = aliases[g] /\ g \in Seen("aliases")
          BY <2>3, <3>5, <4>2
        <5> QED
          BY <1>3, <5>1
      <4> QED
        BY <4>1, <4>2
    <3> QED
      BY <1>1, <1>2, <3>6, <3>7 DEF AliasesAreAddresses
  <2> QED
    BY <1>5, <2>1, <2>2, <2>3 DEF ResolveLinkTargets, Advance
<1> QED
  BY <1>4, <1>5, StepFrame

-----------------------------------------------------------------------------
(* Counts by address are counts by object *)

\* Two sets that correspond one to one have as many elements.
LEMMA SameCount ==
    ASSUME NEW S, NEW T, NEW f \in [S -> T], IsFiniteSet(S),
           \A x, y \in S : f[x] = f[y] => x = y,
           \A t \in T : \E s \in S : f[s] = t
    PROVE  IsFiniteSet(T) /\ Cardinality(T) = Cardinality(S)
<1>1. f \in Bijection(S, T)
  BY DEF Bijection, Injection, Surjection, IsInjective
<1>2. ExistsBijection(S, T)
  BY <1>1 DEF ExistsBijection
<1> QED
  BY <1>2, FS_Bijection

\* The hard aliases of one group that name an object.
AliasesIn(g, o) == {k \in HardAliases(g) : tree.links[g][k] = o}

\* The aliases of one group for an object are finitely many.
LEMMA AliasesInFacts ==
    ASSUME tree \in Tree, NEW g \in Groups, NEW o
    PROVE  /\ IsFiniteSet(AliasesIn(g, o)) /\ Cardinality(AliasesIn(g, o)) \in Nat
           /\ IsFiniteSet({<<g, i>> : i \in AliasesIn(g, o)})
           /\ Cardinality({<<g, i>> : i \in AliasesIn(g, o)}) = Cardinality(AliasesIn(g, o))
<1>1. Len(tree.links[g]) \in Nat
  BY TreeFacts
<1>2. AliasesIn(g, o) \in SUBSET (1..Len(tree.links[g]))
  BY DEF AliasesIn, HardAliases
<1>3. IsFiniteSet(AliasesIn(g, o)) /\ Cardinality(AliasesIn(g, o)) \in Nat
  <2>1. IsFiniteSet(1..Len(tree.links[g]))
    BY <1>1, FS_Interval
  <2> QED
    BY <1>2, <2>1, FS_Subset, FS_CardinalityType
<1> DEFINE S == AliasesIn(g, o)
           T == {<<g, i>> : i \in S}
           f == [i \in S |-> <<g, i>>]
<1>4. f \in [S -> T] /\ (\A x, y \in S : f[x] = f[y] => x = y) /\ (\A t \in T : \E s \in S : f[s] = t)
  OBVIOUS
<1>5. IsFiniteSet(T) /\ Cardinality(T) = Cardinality(S)
  <2> HIDE DEF S, T, f
  <2>1. IsFiniteSet(S)
    BY <1>3 DEF S
  <2> QED
    BY <1>4, <2>1, SameCount
<1> QED
  BY <1>3, <1>5

\* The aliases for an object, group by group.
LEMMA AliasesToFacts ==
    ASSUME NEW o
    PROVE  AliasesTo(o) = UNION {{<<g, i>> : i \in AliasesIn(g, o)} : g \in Seen("aliases") \cap Groups}
  BY DEF AliasesTo, AliasesIn

\* What resolving a group's aliases adds to them.
LEMMA AliasesCounted ==
    ASSUME PlanInv, NEW g \in Groups \ Seen("aliases"), NEW o, tree' = tree,
           Seen("aliases")' = Seen("aliases") \cup {g}, IsFiniteSet(AliasesTo(o))
    PROVE  /\ IsFiniteSet(AliasesTo(o)')
           /\ Cardinality(AliasesTo(o)') = Cardinality(AliasesTo(o)) + Cardinality(AliasesIn(g, o))
<1> DEFINE A == AliasesTo(o)
           N == {<<g, i>> : i \in AliasesIn(g, o)}
<1>1. Groups' = Groups /\ \A x : AliasesIn(x, o)' = AliasesIn(x, o)
  BY DEF Groups, AliasesIn, HardAliases
<1>2. AliasesTo(o)' = A \cup N
  <2>1. AliasesTo(o)' = UNION {{<<x, i>> : i \in AliasesIn(x, o)} : x \in (Seen("aliases") \cup {g}) \cap Groups}
    BY <1>1 DEF AliasesTo, AliasesIn
  <2>2. A = UNION {{<<x, i>> : i \in AliasesIn(x, o)} : x \in Seen("aliases") \cap Groups}
    BY AliasesToFacts
  <2> HIDE DEF A
  <2> QED
    BY <2>1, <2>2
<1>3. A \cap N = {}
  <2> SUFFICES ASSUME NEW x \in A, x \in N PROVE FALSE
    OBVIOUS
  <2>1. PICK i \in AliasesIn(g, o) : x = <<g, i>>
    OBVIOUS
  <2>2. PICK h \in Seen("aliases") \cap Groups : x \in {<<h, j>> : j \in AliasesIn(h, o)}
    BY AliasesToFacts
  <2>3. PICK j \in AliasesIn(h, o) : x = <<h, j>>
    BY <2>2
  <2> QED
    BY <2>1, <2>3
<1>4. tree \in Tree
  BY DEF PlanInv, IInv, LayoutOK
<1>5. IsFiniteSet(N) /\ Cardinality(N) = Cardinality(AliasesIn(g, o)) /\ Cardinality(N) \in Nat
  BY <1>4, AliasesInFacts
<1> HIDE DEF A, N
<1>6. IsFiniteSet(A) /\ Cardinality(A) \in Nat
  BY FS_CardinalityType DEF A
<1>7. Cardinality(A \cap N) = 0
  BY <1>3, FS_EmptySet
<1>8. IsFiniteSet(A \cup N) /\ Cardinality(A \cup N) = Cardinality(A) + Cardinality(N) - Cardinality(A \cap N)
  BY <1>5, <1>6, FS_Union
<1>9. Cardinality(A \cup N) = Cardinality(A) + Cardinality(N)
  BY <1>5, <1>6, <1>7, <1>8
<1> QED
  BY <1>2, <1>5, <1>8, <1>9 DEF A

\* Before any group was resolved, no alias was counted.
LEMMA CountsUnseen ==
    ASSUME Seen("aliases") \cap Groups = {}, NEW o
    PROVE  AliasesTo(o) = {} /\ IsFiniteSet(AliasesTo(o)) /\ Cardinality(AliasesTo(o)) = 0
<1>1. AliasesTo(o) = {}
  BY AliasesToFacts
<1> QED
  BY <1>1, FS_EmptySet

\* Counting by address counts by object, since no two objects share an address.
LEMMA CountsKeep ==
    ASSUME PlanInv, PassesBegin, CountsAreTrue, [LayoutNext]_layoutVars
    PROVE  CountsAreTrue'
<1>1. tree' = tree /\ "aliases" \in Passes /\ Groups' = Groups
  BY StepFrame DEF Passes, Groups
<1>0. phase' = "plan" => counts' = [addr \in {} |-> 0]
  <2>1. phase' = "plan" => phase = "plan"
    <3>1. phase \in Passes /\ Advance(NextPass(phase)) => phase' # "plan"
      BY NextPassRank DEF Advance, Passes
    <3> QED
      BY <3>1, StepMoves
  <2> QED
    BY <2>1, StepFrame DEF CountsAreTrue
<1> SUFFICES ASSUME Rank(phase') >= 2, NEW o \in Owned'
             PROVE  /\ IsFiniteSet(AliasesTo(o)')
                    /\ (IF AddrOf'[o] \in DOMAIN counts' THEN counts'[AddrOf'[o]] ELSE 0) = Cardinality(AliasesTo(o)')
  BY <1>0 DEF CountsAreTrue
<1>2. phase' # "failed"
  BY DEF Rank
<1>3. CASE phase = "plan"
  <2>1. counts' = [addr \in {} |-> 0] /\ DOMAIN counts' = {}
    BY <1>3, StepFrame DEF CountsAreTrue
  <2>2. Seen("aliases")' = {}
    BY <1>1, <1>2, <1>3, StepSees, NothingSeenYet
  <2>3. AliasesTo(o)' = {}
    BY <2>2 DEF AliasesTo
  <2> QED
    BY <2>1, <2>3, FS_EmptySet
<1>4. CASE phase # "plan"
  <2>1. phase \notin {"plan", "failed"} /\ Rank(phase) >= 2
    <3>1. phase # "failed"
      BY <1>2, StepFrame DEF layoutVars
    <3>2. \E x \in {"refs", "aliases", "counts", "links", "strings", "objrefs", "pack", "place", "locs", "emit", "heap", "done"} : phase = x
      <4>1. phase \in Passes \cup {"pack", "place", "heap", "done"}
        BY <1>4, <3>1 DEF PassesBegin
      <4> QED
        BY <4>1 DEF Passes
    <3> QED
      BY <1>4, <3>1, <3>2 DEF Rank
  <2>2. Owned' = Owned /\ AddrOf' = AddrOf
    BY <2>1, StepKeepsAddresses
  <2> DEFINE old == IF AddrOf[o] \in DOMAIN counts THEN counts[AddrOf[o]] ELSE 0
  <2>3. IsFiniteSet(AliasesTo(o)) /\ old = Cardinality(AliasesTo(o))
    BY <2>1, <2>2 DEF CountsAreTrue
  <2>4. CASE counts' = counts /\ Seen("aliases")' \cap Groups = Seen("aliases") \cap Groups
    <3>1. AliasesTo(o)' = AliasesTo(o)
      BY <1>1, <2>4 DEF AliasesTo, HardAliases
    <3> QED
      BY <2>2, <2>3, <2>4, <3>1
  <2>5. CASE phase # "aliases" \/ UNCHANGED layoutVars
    <3>1. counts' = counts
      BY <2>5, StepFrame DEF layoutVars, resolving
    <3>2. Seen("aliases")' = Seen("aliases")
      <4>1. CASE phase # "aliases"
        BY <1>1, <1>2, <4>1, StepSees
      <4>2. CASE UNCHANGED layoutVars
        <5>1. phase' = phase /\ order' = order /\ at' = at
          BY <4>2 DEF layoutVars, planning
        <5> QED
          BY <5>1 DEF Seen, Visited
      <4> QED
        BY <2>5, <4>1, <4>2
    <3> QED
      BY <2>4, <3>1, <3>2
  <2>6. CASE phase = "aliases" /\ ResolveLinkTargets
    <3> DEFINE g == order[at]
               addrs == [i \in HardAliases(g) |-> Addr(tree.links[g][i])]
    <3>1. g \notin Seen("aliases") /\ Seen("aliases")' = Seen("aliases") \cup {g}
      <4>1. at' # at \/ phase' # phase
        <5>1. at \in Nat
          BY DEF PlanInv, IInv, WalkOK
        <5> QED
          BY <1>2, <2>6, <5>1 DEF ResolveLinkTargets, Advance
      <4> QED
        BY <1>1, <1>2, <2>6, <4>1, StepSees, StandsAtNew
    <3>2. CASE g \notin Groups /\ counts' = counts
      BY <2>4, <3>1, <3>2
    <3>3. CASE /\ g \in Groups /\ counts' = Tally(addrs)
               /\ \A i \in HardAliases(g) : tree.links[g][i] \in Owned
      <4>1. /\ IsFiniteSet(AliasesTo(o)')
            /\ Cardinality(AliasesTo(o)') = Cardinality(AliasesTo(o)) + Cardinality(AliasesIn(g, o))
        <5> HIDE DEF g
        <5> QED
          BY <1>1, <2>3, <3>1, <3>3, AliasesCounted
      <4>2. {i \in DOMAIN addrs : addrs[i] = AddrOf[o]} = AliasesIn(g, o)
        <5>1. \A i \in HardAliases(g) : addrs[i] = AddrOf[tree.links[g][i]]
          BY <3>3 DEF AddrOf
        <5>2. \A x \in Owned : AddrOf[x] = AddrOf[o] => x = o
          BY <2>1, <2>2, AddrOfFacts
        <5> HIDE DEF g
        <5> QED
          BY <3>3, <5>1, <5>2 DEF AliasesIn
      <4>3. Cardinality(AliasesIn(g, o)) \in Nat /\ Cardinality(AliasesTo(o)) \in Nat
        <5>1. tree \in Tree
          BY DEF PlanInv, IInv, LayoutOK
        <5> QED
          BY <2>3, <3>3, <5>1, AliasesInFacts, FS_CardinalityType
      <4> DEFINE a == AddrOf[o]
      <4>4. a \in DOMAIN counts' <=> a \in DOMAIN counts \/ AliasesIn(g, o) # {}
        <5>1. DOMAIN counts' = DOMAIN counts \cup {addrs[i] : i \in DOMAIN addrs}
          BY <3>3 DEF Tally
        <5>2. a \in {addrs[i] : i \in DOMAIN addrs} <=> {i \in DOMAIN addrs : addrs[i] = a} # {}
          <6> HIDE DEF addrs, a
          <6> QED
            OBVIOUS
        <5> HIDE DEF addrs, g
        <5> QED
          BY <4>2, <5>1, <5>2
      <4>5. a \in DOMAIN counts' => counts'[a] = old + Cardinality({i \in DOMAIN addrs : addrs[i] = a})
        <5> HIDE DEF addrs, a
        <5>1. DOMAIN counts' = DOMAIN counts \cup {addrs[i] : i \in DOMAIN addrs}
          BY <3>3 DEF Tally
        <5>2. a \in DOMAIN counts' => counts'[a] = (IF a \in DOMAIN counts THEN counts[a] ELSE 0)
                                        + Cardinality({i \in DOMAIN addrs : addrs[i] = a})
          BY <3>3, <5>1 DEF Tally
        <5> QED
          BY <5>2 DEF a
      <4>6. AliasesIn(g, o) = {} => Cardinality(AliasesIn(g, o)) = 0
        BY FS_EmptySet
      <4>7. (IF a \in DOMAIN counts' THEN counts'[a] ELSE 0) = old + Cardinality(AliasesIn(g, o))
        <5>1. CASE a \in DOMAIN counts'
          BY <4>2, <4>5, <5>1
        <5>2. CASE a \notin DOMAIN counts'
          BY <4>3, <4>4, <4>6, <5>2
        <5> QED
          BY <5>1, <5>2
      <4> HIDE DEF old
      <4> QED
        BY <2>2, <2>3, <4>1, <4>7
    <3> QED
      BY <1>2, <2>6, <3>2, <3>3 DEF ResolveLinkTargets
  <2> QED
    BY <2>5, <2>6, StepFrame
<1> QED
  BY <1>3, <1>4

\* The elements of two sequences put one behind the other, by position.
LEMMA ConcatAt ==
    ASSUME NEW T, NEW s \in Seq(T), NEW t \in Seq(T)
    PROVE  /\ Len(s \o t) = Len(s) + Len(t) /\ Len(s) \in Nat /\ Len(t) \in Nat
           /\ \A i \in 1..Len(s) : (s \o t)[i] = s[i]
           /\ \A i \in 1..Len(s \o t) : i > Len(s) => i - Len(s) \in 1..Len(t) /\ (s \o t)[i] = t[i - Len(s)]
  OBVIOUS

\* The members of a group: what it owns, then its other links.
LEMMA MemberFacts ==
    ASSUME tree \in Tree, NEW g \in Groups
    PROVE  /\ Len(Kids(g)) \in Nat /\ Len(tree.links[g]) \in Nat
           /\ Len(MembersOf(g)) = Len(Kids(g)) + Len(tree.links[g])
           /\ \A i \in 1..Len(Kids(g)) :
                 MembersOf(g)[i].kind = "owned" /\ MembersOf(g)[i].to = Kids(g)[i]
           /\ \A i \in 1..Len(MembersOf(g)) : i > Len(Kids(g)) =>
                 /\ i - Len(Kids(g)) \in 1..Len(tree.links[g])
                 /\ MembersOf(g)[i].nth = i - Len(Kids(g))
                 /\ MembersOf(g)[i].to = tree.links[g][i - Len(Kids(g))]
                 /\ MembersOf(g)[i].kind = IF tree.links[g][i - Len(Kids(g))] = Soft THEN "soft" ELSE "alias"
<1> DEFINE Owning(s) == [i \in 1..Len(s) |-> [kind |-> "owned", to |-> s[i], nth |-> i]]
           Desc(s) == [i \in 1..Len(s) |-> [kind |-> IF s[i] = Soft THEN "soft" ELSE "alias",
                                            to |-> s[i], nth |-> i]]
           d == tree.datasets[g]  s == tree.groups[g]  l == tree.links[g]
           M == [kind: {"owned", "alias", "soft"}, to: Object \cup {Nowhere, Soft}, nth: Nat]
           Od == Owning(d)  Os == Owning(s)  Dl == Desc(l)
<1>1. MembersOf(g) = Od \o Os \o Dl
  BY DEF MembersOf
<1>2. /\ d \in Seq(DOMAIN tree.refs) /\ s \in Seq(DOMAIN tree.refs) /\ Kids(g) = d \o s
      /\ l \in Seq(Object \cup {Nowhere, Soft}) /\ DOMAIN tree.refs \subseteq Object
  BY KidsFacts, TreeFacts
<1>3. ASSUME NEW q \in Seq(DOMAIN tree.refs)
      PROVE  Owning(q) \in Seq(M) /\ Len(Owning(q)) = Len(q) /\ Len(q) \in Nat
  <2>1. Len(q) \in Nat /\ \A i \in 1..Len(q) : q[i] \in Object \cup {Nowhere, Soft}
    BY <1>2, <1>3
  <2>2. Owning(q) \in [1..Len(q) -> M]
    BY <2>1
  <2> DEFINE f == Owning(q)  n == Len(q)
  <2>3. f \in [1..n -> M] /\ n \in Nat
    BY <2>1, <2>2
  <2> HIDE DEF f, n, M
  <2>4. f \in Seq(M) /\ Len(f) = n
    BY <2>3, FunctionIsSequence
  <2> QED
    BY <2>1, <2>4 DEF f, n
<1>4. Dl \in Seq(M) /\ Len(Dl) = Len(l) /\ Len(l) \in Nat
  <2>1. Len(l) \in Nat /\ \A i \in 1..Len(l) : l[i] \in Object \cup {Nowhere, Soft}
    BY <1>2
  <2>2. Dl \in [1..Len(l) -> M]
    BY <2>1
  <2> DEFINE n == Len(l)
  <2>3. Dl \in [1..n -> M] /\ n \in Nat
    BY <2>1, <2>2
  <2> HIDE DEF Dl, n, M
  <2>4. Dl \in Seq(M) /\ Len(Dl) = n
    BY <2>3, FunctionIsSequence
  <2> QED
    BY <2>1, <2>4 DEF n
<1>5. /\ Od \in Seq(M) /\ Len(Od) = Len(d) /\ Len(d) \in Nat
      /\ Os \in Seq(M) /\ Len(Os) = Len(s) /\ Len(s) \in Nat
  BY <1>2, <1>3
<1>6. /\ \A i \in 1..Len(d) : Od[i].kind = "owned" /\ Od[i].to = d[i]
      /\ \A i \in 1..Len(s) : Os[i].kind = "owned" /\ Os[i].to = s[i]
      /\ \A i \in 1..Len(l) : /\ Dl[i].nth = i /\ Dl[i].to = l[i]
                              /\ Dl[i].kind = IF l[i] = Soft THEN "soft" ELSE "alias"
  OBVIOUS
<1> HIDE DEF Od, Os, Dl, M, d, s, l
<1>7. /\ Len(Kids(g)) = Len(d) + Len(s)
      /\ \A i \in 1..Len(d) : Kids(g)[i] = d[i]
      /\ \A i \in 1..Len(Kids(g)) : i > Len(d) => i - Len(d) \in 1..Len(s) /\ Kids(g)[i] = s[i - Len(d)]
  <2>1. d \in Seq(DOMAIN tree.refs) /\ s \in Seq(DOMAIN tree.refs)
    BY <1>2
  <2> QED
    BY ONLY <1>2, <2>1, ConcatAt
<1> DEFINE O == Od \o Os
<1>8. /\ O \in Seq(M) /\ Len(O) = Len(Kids(g)) /\ Len(O) \in Nat
      /\ \A i \in 1..Len(d) : O[i] = Od[i]
      /\ \A i \in 1..Len(O) : i > Len(d) => i - Len(d) \in 1..Len(s) /\ O[i] = Os[i - Len(d)]
  <2>1. /\ Len(Od \o Os) = Len(Od) + Len(Os)
        /\ \A i \in 1..Len(Od) : (Od \o Os)[i] = Od[i]
        /\ \A i \in 1..Len(Od \o Os) : i > Len(Od) => i - Len(Od) \in 1..Len(Os) /\ (Od \o Os)[i] = Os[i - Len(Od)]
    BY ONLY <1>5, ConcatAt
  <2>2. Od \o Os \in Seq(M)
    BY <1>5
  <2> QED
    BY <1>5, <1>7, <2>1, <2>2
<1>9. MembersOf(g) = O \o Dl
  BY <1>1
<1> HIDE DEF O
<1>10. /\ Len(O \o Dl) = Len(O) + Len(Dl)
       /\ \A i \in 1..Len(O) : (O \o Dl)[i] = O[i]
       /\ \A i \in 1..Len(O \o Dl) : i > Len(O) => i - Len(O) \in 1..Len(Dl) /\ (O \o Dl)[i] = Dl[i - Len(O)]
  BY ONLY <1>4, <1>8, ConcatAt
<1>11. ASSUME NEW i \in 1..Len(Kids(g))
       PROVE  MembersOf(g)[i].kind = "owned" /\ MembersOf(g)[i].to = Kids(g)[i]
  <2>1. MembersOf(g)[i] = O[i] /\ i \in 1..Len(O)
    BY <1>8, <1>9, <1>10
  <2>2. CASE i \in 1..Len(d)
    BY <1>6, <1>7, <1>8, <2>1, <2>2
  <2>3. CASE i > Len(d)
    BY <1>6, <1>7, <1>8, <2>1, <2>3
  <2>4. i \in 1..Len(d) \/ i > Len(d)
    BY <1>5, <2>1, <1>8
  <2> QED
    BY <2>2, <2>3, <2>4
<1>12. ASSUME NEW i \in 1..Len(MembersOf(g)), i > Len(Kids(g))
       PROVE  /\ i - Len(Kids(g)) \in 1..Len(l)
              /\ MembersOf(g)[i].nth = i - Len(Kids(g))
              /\ MembersOf(g)[i].to = l[i - Len(Kids(g))]
              /\ MembersOf(g)[i].kind = IF l[i - Len(Kids(g))] = Soft THEN "soft" ELSE "alias"
  <2>1. i - Len(O) \in 1..Len(l) /\ MembersOf(g)[i] = Dl[i - Len(O)]
    BY <1>4, <1>8, <1>9, <1>10, <1>12
  <2> QED
    BY <1>6, <1>8, <2>1
<1> QED
  BY <1>4, <1>7, <1>5, <1>8, <1>9, <1>10, <1>11, <1>12 DEF l

-----------------------------------------------------------------------------
(* Reference counts and link messages *)

\* A pass that is not moving sees nothing new.
LEMMA SeenKept ==
    ASSUME PlanInv, PassesBegin, [LayoutNext]_layoutVars, NEW p \in Passes,
           phase # p \/ UNCHANGED layoutVars
    PROVE  Seen(p)' \subseteq Seen(p)
<1>1. CASE phase # p
  BY <1>1, StepSees
<1>2. CASE UNCHANGED layoutVars
  <2>1. phase' = phase /\ order' = order /\ at' = at
    BY <1>2 DEF layoutVars, planning
  <2> QED
    BY <2>1 DEF Seen, Visited
<1> QED
  BY <1>1, <1>2

\* A pass that advances from an object has seen just that one more.
LEMMA PassAdvances ==
    ASSUME PlanInv, PassesBegin, [LayoutNext]_layoutVars, phase \in Passes,
           Advance(NextPass(phase))
    PROVE  /\ phase' # "failed" /\ order[at] \in Owned /\ order[at] \notin Seen(phase)
           /\ \A p \in Passes : p = phase => Seen(p)' = Seen(p) \cup {order[at]}
<1>1. NextPass(phase) # phase /\ phase' # "failed"
  BY NextPassRank DEF Advance, Passes, NextPass
<1>2. order[at] \in Owned /\ order[at] \notin Seen(phase)
  BY StandsAtNew
<1>3. at' # at \/ phase' # phase
  <2>1. at \in Nat
    BY DEF PlanInv, IInv, WalkOK
  <2> QED
    BY <1>1, <2>1 DEF Advance
<1> QED
  BY <1>1, <1>2, <1>3, StepSees

\* What is neither planning nor failed is a later pass.
LEMMA LaterPasses ==
    ASSUME PassesBegin, phase # "plan", phase # "failed"
    PROVE  Rank(phase) >= 2
<1>1. \E x \in {"refs", "aliases", "counts", "links", "strings", "objrefs", "pack", "place", "locs", "emit", "heap", "done"} : phase = x
  BY DEF PassesBegin, Passes
<1> QED
  BY <1>1 DEF Rank

\* apply_refcounts gives every object one for its owner and one for each alias.
LEMMA RefcountsKeep ==
    ASSUME PlanInv, PassesBegin, CountsAreTrue, RefcountsAreTrue, [LayoutNext]_layoutVars
    PROVE  RefcountsAreTrue'
<1>1. tree' = tree /\ Groups' = Groups /\ "counts" \in Passes /\ "aliases" \in Passes
  BY StepFrame DEF Passes, Groups
<1>2. ASSUME NEW o \in Seen("counts")', o \in Seen("counts") \/ phase = "counts"
      PROVE  AliasesTo(o)' = AliasesTo(o)
  <2>1. phase' # "failed"
    BY <1>1, StepSees
  <2>2. phase # "aliases"
    <3> SUFFICES ASSUME phase = "aliases" PROVE FALSE
      OBVIOUS
    <3>0. Rank(phase) = 3 /\ Rank("counts") = 4
      BY DEF Rank
    <3>1. Seen("counts") = {}
      BY <3>0 DEF Seen, Visited
    <3> QED
      BY <1>2, <3>1
  <2>3. Seen("aliases")' = Seen("aliases")
    BY <1>1, <2>1, <2>2, StepSees
  <2> QED
    BY <1>1, <2>3 DEF AliasesTo, HardAliases
<1>3. CASE phase # "counts" \/ UNCHANGED layoutVars
  <2>1. refcount' = refcount
    BY <1>3, StepFrame DEF layoutVars, resolving
  <2>2. Seen("counts")' \subseteq Seen("counts")
    BY <1>1, <1>3, SeenKept
  <2> QED
    BY <1>1, <1>2, <2>1, <2>2 DEF RefcountsAreTrue
<1>4. CASE phase = "counts" /\ ApplyRefcounts
  <2> DEFINE x == order[at]
             n == 1 + (IF Addr(x) \in DOMAIN counts THEN counts[Addr(x)] ELSE 0)
  <2>1. refcount' = [refcount EXCEPT ![x] = n]
    BY <1>4 DEF ApplyRefcounts
  <2>2. Advance(NextPass(phase))
    BY <1>4 DEF ApplyRefcounts, NextPass
  <2>3. x \in Owned /\ Seen("counts")' = Seen("counts") \cup {x}
    BY <1>1, <1>4, <2>2, PassAdvances
  <2>4. n = 1 + Cardinality(AliasesTo(x))
    <3>1. Rank(phase) >= 2 /\ AddrOf[x] = Addr(x)
      BY <1>4, <2>3 DEF Rank, AddrOf
    <3> HIDE DEF x
    <3> QED
      BY <2>3, <3>1 DEF CountsAreTrue
  <2>5. x \in DOMAIN tree.refs
    BY <1>4, StandsInTree DEF PlanInv, IInv
  <2> HIDE DEF n, x
  <2>6. ASSUME NEW o \in Seen("counts")' PROVE refcount'[o] = 1 + Cardinality(AliasesTo(o))
    <3>1. CASE o = x
      BY <2>1, <2>4, <2>5, <3>1 DEF RefcountsAreTrue
    <3>2. CASE o # x
      BY <2>1, <2>3, <2>5, <3>2 DEF RefcountsAreTrue
    <3> QED
      BY <3>1, <3>2
  <2> QED
    BY <1>1, <1>2, <1>4, <2>1, <2>6 DEF RefcountsAreTrue
<1> QED
  BY <1>3, <1>4, StepFrame

\* Whatever a group owns or links hard is an object with an address.
LEMMA LinkFacts ==
    ASSUME PlanInv, AliasesAreAddresses, NEW g \in Groups, g \in Seen("aliases"),
           phase \notin {"plan", "failed"}, NEW i \in Hard(g)
    PROVE  /\ MembersOf(g)[i].to \in Owned
           /\ LinkAddr(g, i) = AddrOf[MembersOf(g)[i].to]
<1>1. tree \in Tree /\ Owned = DOMAIN tree.refs
  BY PlanIsDone
<1>2. i \in 1..Len(MembersOf(g)) /\ MembersOf(g)[i].kind # "soft"
  BY DEF Hard
<1>3. CASE i <= Len(Kids(g))
  <2>1. i \in 1..Len(Kids(g))
    BY <1>1, <1>2, <1>3, MemberFacts
  <2>2. MembersOf(g)[i].kind = "owned" /\ MembersOf(g)[i].to = Kids(g)[i]
    BY <1>1, <2>1, MemberFacts
  <2>3. Kids(g)[i] \in Rng(Kids(g))
    BY <2>1 DEF Rng
  <2>4. MembersOf(g)[i].to \in Owned
    BY <1>1, <2>2, <2>3, KidsFacts
  <2>5. LinkAddr(g, i) = Addr(MembersOf(g)[i].to)
    BY <2>2 DEF LinkAddr
  <2> QED
    BY <2>4, <2>5 DEF AddrOf
<1>4. CASE i > Len(Kids(g))
  <2> DEFINE k == i - Len(Kids(g))
  <2>1. /\ k \in 1..Len(tree.links[g]) /\ MembersOf(g)[i].nth = k
        /\ MembersOf(g)[i].to = tree.links[g][k]
        /\ MembersOf(g)[i].kind = IF tree.links[g][k] = Soft THEN "soft" ELSE "alias"
    BY <1>1, <1>2, <1>4, MemberFacts
  <2> HIDE DEF k
  <2>2. k \in HardAliases(g) /\ MembersOf(g)[i].kind = "alias"
    BY <1>2, <2>1 DEF HardAliases
  <2>3. tree.links[g][k] \in Owned /\ aliases[g][k] = AddrOf[tree.links[g][k]]
    BY <2>2 DEF AliasesAreAddresses
  <2>4. LinkAddr(g, i) = aliases[g][k]
    BY <2>1, <2>2 DEF LinkAddr
  <2> QED
    BY <2>1, <2>3, <2>4
<1> QED
  BY <1>1, <1>2, <1>3, <1>4, MemberFacts

\* patch_link_addrs gives a link message the address of its object.
LEMMA LinksKeep ==
    ASSUME PlanInv, PassesBegin, AliasesAreAddresses, LinksArePatched, [LayoutNext]_layoutVars
    PROVE  LinksArePatched'
<1>1. tree' = tree /\ Groups' = Groups /\ "links" \in Passes /\ tree \in Tree
  BY StepFrame DEF Passes, Groups, PlanInv, IInv, LayoutOK
<1>2. \A g : MembersOf(g)' = MembersOf(g) /\ Hard(g)' = Hard(g)
  BY <1>1 DEF MembersOf, Hard
<1>3. ASSUME NEW g \in Seen("links")' \cap tree.linkStyle, g \in Seen("links"), links'[g] = links[g]
      PROVE  links'[g] = [i \in 1..Len(MembersOf(g)) |->
                             IF i \in Hard(g) THEN AddrOf'[MembersOf(g)[i].to] ELSE 0]
  <2>1. phase \notin {"plan", "failed"}
    BY <1>1, <1>3, NothingSeenYet
  <2>2. AddrOf' = AddrOf
    BY <2>1, StepKeepsAddresses
  <2> QED
    BY <1>3, <2>2 DEF LinksArePatched
<1>4. CASE phase # "links" \/ UNCHANGED layoutVars
  <2>1. links' = links
    BY <1>4, StepFrame DEF layoutVars, resolving
  <2>2. Seen("links")' \subseteq Seen("links")
    BY <1>1, <1>4, SeenKept
  <2>3. \A g \in Seen("links")' \cap tree.linkStyle :
           links'[g] = [i \in 1..Len(MembersOf(g)) |->
                           IF i \in Hard(g) THEN AddrOf'[MembersOf(g)[i].to] ELSE 0]
    BY <1>3, <2>1, <2>2
  <2> QED
    BY <1>1, <1>2, <2>1, <2>3 DEF LinksArePatched
<1>5. CASE phase = "links" /\ PatchLinks
  <2> DEFINE x == order[at]
             new == [i \in 1..Len(MembersOf(x)) |-> LinkAddr(x, i)]
  <2>1. Advance(NextPass(phase)) /\ phase \notin {"plan", "failed"}
    BY <1>5 DEF PatchLinks, NextPass
  <2>2. x \in Owned /\ Seen("links")' = Seen("links") \cup {x}
    BY <1>1, <1>5, <2>1, PassAdvances
  <2>3. links' = IF x \in tree.linkStyle THEN [links EXCEPT ![x] = new] ELSE links
    BY <1>5 DEF PatchLinks
  <2>4. Seen("aliases") = Owned
    BY <1>5, AllSeen DEF Rank
  <2>5. AddrOf' = AddrOf
    BY <2>1, StepKeepsAddresses
  <2>6. tree.linkStyle \subseteq Groups
    BY <1>1, TreeAssumption DEF Groups
  <2>7. x \in tree.linkStyle =>
          new = [i \in 1..Len(MembersOf(x)) |-> IF i \in Hard(x) THEN AddrOf[MembersOf(x)[i].to] ELSE 0]
    <3> SUFFICES ASSUME x \in tree.linkStyle, NEW i \in 1..Len(MembersOf(x))
                 PROVE  LinkAddr(x, i) = IF i \in Hard(x) THEN AddrOf[MembersOf(x)[i].to] ELSE 0
      OBVIOUS
    <3>1. x \in Groups /\ x \in Seen("aliases") /\ Len(MembersOf(x)) \in Nat
      BY <1>1, <2>2, <2>4, <2>6, MembersAreASequence
    <3> HIDE DEF x
    <3>2. CASE i \in Hard(x)
      BY <2>1, <3>1, <3>2, LinkFacts
    <3>3. CASE i \notin Hard(x)
      <4>1. MembersOf(x)[i].kind = "soft"
        BY <3>3 DEF Hard
      <4> QED
        BY <3>3, <4>1 DEF LinkAddr
    <3> QED
      BY <3>2, <3>3
  <2> HIDE DEF new, x
  <2>8. DOMAIN links' = DOMAIN links
    BY <2>3
  <2>9. ASSUME NEW g \in Seen("links")' \cap tree.linkStyle
        PROVE  links'[g] = [i \in 1..Len(MembersOf(g)) |->
                               IF i \in Hard(g) THEN AddrOf'[MembersOf(g)[i].to] ELSE 0]
    <3>1. CASE g = x
      <4>1. links'[g] = new
        BY <2>3, <3>1 DEF LinksArePatched
      <4> QED
        BY <2>5, <2>7, <3>1, <4>1
    <3>2. CASE g # x
      <4>1. links'[g] = links[g] /\ g \in Seen("links")
        BY <2>2, <2>3, <3>2
      <4> QED
        BY <1>3, <4>1
    <3> QED
      BY <3>1, <3>2
  <2> QED
    BY <1>1, <1>2, <2>8, <2>9 DEF LinksArePatched
<1> QED
  BY <1>4, <1>5, StepFrame

\* Nothing is resolved when the build begins.
LEMMA ResolvedInit == LayoutInit => ResolvedInv
<1> SUFFICES ASSUME LayoutInit PROVE ResolvedInv
  OBVIOUS
<1>1. phase = "plan" /\ tree \in Tree /\ at = 1
  BY DEF LayoutInit
<1>2. \A p \in Passes : Seen(p) = {}
  BY <1>1, NothingSeenYet
<1>3. Seen("refs") = {} /\ Seen("aliases") = {} /\ Seen("counts") = {} /\ Seen("links") = {}
  BY <1>2 DEF Passes
<1>4. AliasesAreAddresses
  <2>1. \A g \in Groups : Len(tree.links[g]) \in Nat
    BY <1>1, TreeFacts
  <2>2. aliases = [g \in Groups |-> [i \in 1..Len(tree.links[g]) |-> 0]]
    BY DEF LayoutInit
  <2>3. \A g \in Groups : Len(aliases[g]) = Len(tree.links[g])
    BY <2>1, <2>2
  <2> QED
    BY <1>3, <2>2, <2>3 DEF AliasesAreAddresses
<1>5. CountsAreTrue
  <2>1. counts = [addr \in {} |-> 0] /\ ~(Rank(phase) >= 2)
    BY <1>1 DEF LayoutInit, Rank
  <2> QED
    BY <1>1, <2>1 DEF CountsAreTrue
<1>6. RefcountsAreTrue /\ LinksArePatched
  BY <1>3 DEF LayoutInit, RefcountsAreTrue, LinksArePatched
<1> QED
  BY <1>1, <1>3, <1>4, <1>5, <1>6 DEF ResolvedInv, PassesBegin, RefsAreAddresses

\* What the passes have resolved stays resolved.
LEMMA ResolvedKeeps == PlanInv /\ ResolvedInv /\ [LayoutNext]_layoutVars => ResolvedInv'
  BY PassesBeginKeeps, RefsKeep, AliasesKeep, CountsKeep, RefcountsKeep, LinksKeep DEF ResolvedInv, PlanInv

-----------------------------------------------------------------------------
(* Registering values in the heap *)

\* Values that are there are numbered in their order, without gaps.
LEMMA RegisteredFacts ==
    ASSUME NEW present, NEW n \in Nat
    PROVE  /\ \A i \in 0..n : Registered(present, i) \in Nat
           /\ \A i, j \in 1..n : i < j /\ present[j] => Registered(present, i) < Registered(present, j)
           /\ \A i \in 1..n : present[i] => /\ Registered(present, i) \in 1..Registered(present, n)
<1> DEFINE P(i) == {j \in 1..i : present[j]}
<1>1. \A i \in 0..n : IsFiniteSet(P(i)) /\ Cardinality(P(i)) \in Nat
  <2> SUFFICES ASSUME NEW i \in 0..n PROVE IsFiniteSet(P(i)) /\ Cardinality(P(i)) \in Nat
    OBVIOUS
  <2>1. IsFiniteSet(1..i) /\ P(i) \subseteq 1..i
    BY FS_Interval
  <2> HIDE DEF P
  <2> QED
    BY <2>1, FS_Subset, FS_CardinalityType
<1>2. \A i : Registered(present, i) = Cardinality(P(i))
  BY DEF Registered
<1>3. ASSUME NEW i \in 1..n, NEW j \in 1..n, i < j, present[j]
      PROVE  Cardinality(P(i)) < Cardinality(P(j))
  <2>1. P(i) \subseteq P(j) /\ j \in P(j) /\ j \notin P(i)
    BY <1>3
  <2>2. P(i) # P(j) /\ i \in 0..n /\ j \in 0..n
    BY <2>1
  <2> HIDE DEF P
  <2>3. IsFiniteSet(P(j)) /\ Cardinality(P(i)) \in Nat /\ Cardinality(P(j)) \in Nat
    BY <1>1, <2>2
  <2>4. Cardinality(P(i)) <= Cardinality(P(j)) /\ Cardinality(P(i)) # Cardinality(P(j))
    BY <2>1, <2>2, <2>3, FS_Subset
  <2> QED
    BY <2>3, <2>4
<1>4. ASSUME NEW i \in 1..n, present[i]
      PROVE  Cardinality(P(i)) \in 1..Cardinality(P(n))
  <2>1. i \in P(i) /\ P(i) \subseteq P(n) /\ i \in 0..n /\ n \in 0..n
    BY <1>4
  <2>2. P(i) # {}
    BY <2>1
  <2> HIDE DEF P
  <2>3. IsFiniteSet(P(i)) /\ IsFiniteSet(P(n)) /\ Cardinality(P(i)) \in Nat /\ Cardinality(P(n)) \in Nat
    BY <1>1, <2>1
  <2>4. Cardinality(P(i)) # 0
    BY <2>2, <2>3, FS_EmptySet
  <2>5. Cardinality(P(i)) <= Cardinality(P(n))
    BY <2>1, <2>3, FS_Subset
  <2> QED
    BY <2>3, <2>4, <2>5
<1> HIDE DEF P
<1> QED
  BY <1>1, <1>2, <1>3, <1>4

\* What the heap is when the values that are there have been appended.
LEMMA HeapGrows ==
    ASSUME LengthsOK, NEW values, NEW present, Len(present) \in Nat,
           heap' = heap \o Chosen(values, present)
    PROVE  /\ Len(heap) \in Nat /\ Len(heap') \in Nat /\ Len(heap) <= Len(heap')
           /\ \A i \in 1..Len(heap) : i \in 1..Len(heap') /\ heap'[i] = heap[i]
           /\ \A i \in 1..Len(present) : present[i] =>
                 /\ Len(heap) + Registered(present, i) \in 1..Len(heap')
                 /\ heap'[Len(heap) + Registered(present, i)] = values[i]
<1>1. PICK S : heap \in Seq(S)
  BY DEF LengthsOK
<1> DEFINE m == Len(present)
           n == Registered(present, m)
           pick(k) == CHOOSE i \in 1..m : present[i] /\ Registered(present, i) = k
           T == {values[pick(k)] : k \in 1..n}
           C == [k \in 1..n |-> values[pick(k)]]
<1>2. n \in Nat /\ m \in Nat
  BY RegisteredFacts
<1>3. Chosen(values, present) = C
  BY DEF Chosen
<1>4. ASSUME NEW i \in 1..m, present[i]
      PROVE  pick(Registered(present, i)) = i /\ Registered(present, i) \in 1..n
  <2>1. Registered(present, i) \in 1..n
    BY <1>2, <1>4, RegisteredFacts
  <2>2. \A j \in 1..m : present[j] /\ Registered(present, j) = Registered(present, i) => j = i
    <3> SUFFICES ASSUME NEW j \in 1..m, present[j], Registered(present, j) = Registered(present, i)
                 PROVE  j = i
      OBVIOUS
    <3>1. ~(i < j) /\ ~(j < i)
      <4>1. i < j => Registered(present, i) < Registered(present, j)
        BY <1>2, <1>4, RegisteredFacts
      <4>2. j < i => Registered(present, j) < Registered(present, i)
        BY <1>2, <1>4, RegisteredFacts
      <4>3. Registered(present, i) \in Nat
        BY <1>2, <2>1
      <4> QED
        BY <4>1, <4>2, <4>3
    <3> QED
      BY <1>2, <3>1
  <2> QED
    BY <1>4, <2>1, <2>2
<1> HIDE DEF pick
<1>5. C \in [1..n -> T]
  OBVIOUS
<1> HIDE DEF C, T, n, m
<1>6. C \in Seq(T) /\ Len(C) = n
  BY <1>2, <1>5, FunctionIsSequence
<1>7. heap \in Seq(S \cup T) /\ C \in Seq(S \cup T)
  <2>1. \A A, B : A \subseteq B => Seq(A) \subseteq Seq(B)
    OBVIOUS
  <2> QED
    BY <1>1, <1>6, <2>1
<1>8. /\ Len(heap \o C) = Len(heap) + Len(C) /\ Len(heap) \in Nat /\ Len(C) \in Nat
      /\ \A i \in 1..Len(heap) : (heap \o C)[i] = heap[i]
      /\ \A i \in 1..Len(heap \o C) : i > Len(heap) => i - Len(heap) \in 1..Len(C) /\ (heap \o C)[i] = C[i - Len(heap)]
  BY ONLY <1>7, ConcatAt
<1>9. heap' = heap \o C
  BY <1>3
<1>10. \A i \in 1..Len(heap) : i \in 1..Len(heap') /\ heap'[i] = heap[i]
  BY <1>8, <1>9
<1>11. ASSUME NEW i \in 1..m, present[i]
       PROVE  /\ Len(heap) + Registered(present, i) \in 1..Len(heap')
              /\ heap'[Len(heap) + Registered(present, i)] = values[i]
  <2>1. Registered(present, i) \in 1..n /\ pick(Registered(present, i)) = i
    BY <1>4, <1>11
  <2>2. C[Registered(present, i)] = values[i]
    BY <2>1 DEF C
  <2> DEFINE r == Registered(present, i)  k == Len(heap) + r
  <2>3. r \in 1..n
    BY <2>1
  <2> HIDE DEF r
  <2>4. k \in 1..Len(heap') /\ k > Len(heap) /\ k - Len(heap) = r
    BY <1>2, <1>6, <1>8, <1>9, <2>3
  <2> HIDE DEF k
  <2>5. heap'[k] = C[r]
    BY <1>8, <1>9, <2>4
  <2> QED
    BY <2>2, <2>4, <2>5 DEF r, k
<1> QED
  BY <1>6, <1>8, <1>9, <1>10, <1>11 DEF m

\* What was stored stays stored.
LEMMA HeapOnlyGrows ==
    ASSUME IInv, [LayoutNext]_layoutVars
    PROVE  /\ Len(heap) \in Nat
           /\ \A i \in 1..Len(heap) : i \in 1..Len(heap') /\ heap'[i] = heap[i]
<1>1. LengthsOK /\ Len(heap) \in Nat
  BY DEF IInv, LengthsOK
<1>2. CASE heap' = heap
  BY <1>1, <1>2
<1>3. CASE phase = "strings" /\ RegisterVlenStrings /\ IsVlen(order[at])
  <2> DEFINE d == order[at]
             present == tree.data[d].elements
             values == [i \in 1..Len(present) |-> <<d, i>>]
  <2>1. heap' = heap \o Chosen(values, present)
    BY <1>3 DEF RegisterVlenStrings
  <2>2. Len(present) \in Nat
    <3>1. d \in DOMAIN tree.refs /\ d \notin Groups /\ tree.data[d].kind = "vlen"
      BY <1>3, StandsInTree DEF IInv, IsVlen
    <3>2. tree \in Tree
      BY DEF IInv, LayoutOK
    <3> HIDE DEF d
    <3>3. tree.data[d].elements \in Seq(BOOLEAN)
      BY <3>1, <3>2, TreeFacts
    <3> QED
      BY <3>3
  <2> HIDE DEF values, present
  <2> QED
    BY <1>1, <2>1, <2>2, HeapGrows
<1>4. CASE phase = "objrefs" /\ RegisterVlenObjRefs
  <2> DEFINE o == order[at]
             present == [i \in 1..Len(refs[o]) |-> refs[o][i] # <<>>]
  <2>1. heap' = heap \o Chosen(refs[o], present)
    BY <1>4 DEF RegisterVlenObjRefs
  <2>2. Len(present) \in Nat
    <3>1. o \in DOMAIN tree.refs
      BY <1>4, StandsInTree DEF IInv
    <3>2. Len(refs[o]) \in Nat
      BY <3>1 DEF IInv, LengthsOK
    <3> QED
      BY <3>2
  <2> HIDE DEF present
  <2> QED
    BY <1>1, <2>1, <2>2, HeapGrows
<1>5. RegisterVlenStrings /\ ~IsVlen(order[at]) => heap' = heap
  BY DEF RegisterVlenStrings
<1>6. UNCHANGED layoutVars => heap' = heap
  BY DEF layoutVars, heaping
<1> QED
  BY <1>2, <1>3, <1>4, <1>5, <1>6, StepFrame

\* A value stored under its ordinal stays there when the heap grows.
LEMMA StoredStays ==
    ASSUME IInv, [LayoutNext]_layoutVars, NEW nums, NEW present, NEW values, Stored(nums, present, values)
    PROVE  /\ Len(nums) = Len(present)
           /\ \A i \in 1..Len(present) :
                 IF present[i] THEN nums[i] \in 1..Len(heap') /\ heap'[nums[i]] = values[i]
                 ELSE nums[i] = 0
  BY HeapOnlyGrows DEF Stored

\* What has just been numbered is stored.
LEMMA NumberedIsStored ==
    ASSUME LengthsOK, NEW values, NEW present, Len(present) \in Nat,
           heap' = heap \o Chosen(values, present)
    PROVE  /\ Len(Numbered(present)) = Len(present)
           /\ \A i \in 1..Len(present) :
                 IF present[i] THEN /\ Numbered(present)[i] \in 1..Len(heap')
                                    /\ heap'[Numbered(present)[i]] = values[i]
                 ELSE Numbered(present)[i] = 0
<1> DEFINE m == Len(present)
           f == [i \in 1..m |-> IF present[i] THEN Len(heap) + Registered(present, i) ELSE 0]
<1>1. Numbered(present) = f /\ m \in Nat
  BY DEF Numbered
<1>2. Len(f) = m
  BY <1>1
<1>3. ASSUME NEW i \in 1..m
      PROVE  IF present[i] THEN f[i] \in 1..Len(heap') /\ heap'[f[i]] = values[i] ELSE f[i] = 0
  <2>1. CASE present[i]
    <3>1. f[i] = Len(heap) + Registered(present, i)
      BY <2>1
    <3>2. /\ Len(heap) + Registered(present, i) \in 1..Len(heap')
          /\ heap'[Len(heap) + Registered(present, i)] = values[i]
      BY <2>1, HeapGrows
    <3> QED
      BY <2>1, <3>1, <3>2
  <2>2. CASE ~present[i]
    BY <2>2
  <2> QED
    BY <2>1, <2>2
<1> HIDE DEF f
<1> QED
  BY <1>1, <1>2, <1>3

\* register_vlen_strings stores every string under its ordinal.
LEMMA StringsKeep ==
    ASSUME PlanInv, PassesBegin, StringsAreStored, [LayoutNext]_layoutVars
    PROVE  StringsAreStored'
<1> DEFINE Present(d) == tree.data[d].elements
           Values(d) == [i \in 1..Len(tree.data[d].elements) |-> <<d, i>>]
           Ok(nums, d) == /\ Len(nums) = Len(Present(d))
                          /\ \A i \in 1..Len(Present(d)) :
                                IF Present(d)[i] THEN nums[i] \in 1..Len(heap') /\ heap'[nums[i]] = Values(d)[i]
                                ELSE nums[i] = 0
<1>1. tree' = tree /\ Groups' = Groups /\ "strings" \in Passes /\ IInv
  BY StepFrame DEF Passes, Groups, PlanInv
<1>2. \A d : IsVlen(d)' <=> IsVlen(d)
  BY <1>1 DEF IsVlen
<1>3. ASSUME NEW d \in Seen("strings"), IsVlen(d) PROVE Ok(ordinals[d], d)
  <2>1. Stored(ordinals[d], Present(d), Values(d))
    BY <1>3 DEF StringsAreStored
  <2> HIDE DEF Present, Values
  <2> QED
    BY <1>1, <2>1, StoredStays
<1>4. DOMAIN ordinals' = DOMAIN ordinals /\ \A d \in Seen("strings")' : IsVlen(d) => Ok(ordinals'[d], d)
  <2>1. CASE phase # "strings" \/ UNCHANGED layoutVars
    <3>1. ordinals' = ordinals /\ Seen("strings")' \subseteq Seen("strings")
      BY <1>1, <2>1, SeenKept, StepFrame DEF layoutVars, heaping
    <3> HIDE DEF Ok
    <3> QED
      BY <1>3, <3>1
  <2>2. CASE phase = "strings" /\ RegisterVlenStrings
    <3> DEFINE x == order[at]
    <3>1. Advance(NextPass(phase))
      BY <2>2 DEF RegisterVlenStrings, NextPass
    <3>2. x \in Owned /\ Seen("strings")' = Seen("strings") \cup {x}
      BY <1>1, <2>2, <3>1, PassAdvances
    <3>3. CASE ~IsVlen(x) /\ ordinals' = ordinals
      <4> HIDE DEF Ok, x
      <4> QED
        BY <1>3, <3>2, <3>3
    <3>4. CASE /\ IsVlen(x) /\ ordinals' = [ordinals EXCEPT ![x] = Numbered(Present(x))]
               /\ heap' = heap \o Chosen(Values(x), Present(x))
      <4>1. Len(Present(x)) \in Nat /\ x \in DOMAIN ordinals
        <5>1. x \in DOMAIN tree.refs /\ tree \in Tree /\ x \notin Groups /\ tree.data[x].kind = "vlen"
          BY <2>2, <3>4, StandsInTree DEF PlanInv, IInv, LayoutOK, IsVlen
        <5> HIDE DEF x
        <5>2. tree.data[x].elements \in Seq(BOOLEAN)
          BY <5>1, TreeFacts
        <5> QED
          BY <5>1, <5>2 DEF StringsAreStored
      <4>2. Ok(Numbered(Present(x)), x)
        <5>1. LengthsOK
          BY <1>1 DEF IInv
        <5> HIDE DEF x, Present, Values
        <5> QED
          BY <3>4, <4>1, <5>1, NumberedIsStored
      <4> HIDE DEF Ok, x, Present, Values
      <4>3. ASSUME NEW d \in Seen("strings")', IsVlen(d) PROVE Ok(ordinals'[d], d)
        <5>1. CASE d = x
          <6>1. ordinals'[d] = Numbered(Present(x))
            BY <3>4, <4>1, <5>1
          <6> QED
            BY <4>2, <5>1, <6>1
        <5>2. CASE d # x
          <6>1. ordinals'[d] = ordinals[d] /\ d \in Seen("strings")
            BY <3>2, <3>4, <5>2
          <6> QED
            BY <1>3, <4>3, <6>1
        <5> QED
          BY <5>1, <5>2
      <4> QED
        BY <3>4, <4>3
    <3> QED
      BY <2>2, <3>3, <3>4 DEF RegisterVlenStrings
  <2> QED
    BY <2>1, <2>2, StepFrame
<1> QED
  BY <1>1, <1>2, <1>4 DEF StringsAreStored, Stored

\* register_vlen_objrefs stores every list of references under its ordinal.
LEMMA RefsStoredKeep ==
    ASSUME PlanInv, PassesBegin, RefsAreStored, [LayoutNext]_layoutVars
    PROVE  RefsAreStored'
<1> DEFINE Present(o) == [i \in 1..Len(refs[o]) |-> refs[o][i] # <<>>]
           Ok(nums, o) == /\ Len(nums) = Len(Present(o))
                          /\ \A i \in 1..Len(Present(o)) :
                                IF Present(o)[i] THEN nums[i] \in 1..Len(heap') /\ heap'[nums[i]] = refs[o][i]
                                ELSE nums[i] = 0
<1>1. tree' = tree /\ "objrefs" \in Passes /\ IInv
  BY StepFrame DEF Passes, PlanInv
<1>2. Seen("objrefs")' # {} => refs' = refs
  <2> SUFFICES ASSUME phase = "refs" PROVE Seen("objrefs")' = {}
    BY StepFrame
  <2>1. Rank(phase) = 2 /\ Rank("objrefs") = 7
    BY DEF Rank
  <2>2. Seen("objrefs") = {}
    BY <2>1 DEF Seen, Visited
  <2> QED
    BY <1>1, <2>2, StepSees
<1>3. ASSUME NEW o \in Seen("objrefs") PROVE Ok(refOrdinals[o], o)
  <2>1. Stored(refOrdinals[o], Present(o), refs[o])
    BY <1>3 DEF RefsAreStored
  <2> HIDE DEF Present
  <2> QED
    BY <1>1, <2>1, StoredStays
<1>4. DOMAIN refOrdinals' = DOMAIN refOrdinals /\ \A o \in Seen("objrefs")' : Ok(refOrdinals'[o], o)
  <2>1. CASE phase # "objrefs" \/ UNCHANGED layoutVars
    <3>1. refOrdinals' = refOrdinals /\ Seen("objrefs")' \subseteq Seen("objrefs")
      BY <1>1, <2>1, SeenKept, StepFrame DEF layoutVars, heaping
    <3> HIDE DEF Ok
    <3> QED
      BY <1>3, <3>1
  <2>2. CASE phase = "objrefs" /\ RegisterVlenObjRefs
    <3> DEFINE x == order[at]
    <3>1. Advance(NextPass(phase))
      BY <2>2 DEF RegisterVlenObjRefs, NextPass
    <3>2. x \in Owned /\ Seen("objrefs")' = Seen("objrefs") \cup {x}
      BY <1>1, <2>2, <3>1, PassAdvances
    <3>3. /\ refOrdinals' = [refOrdinals EXCEPT ![x] = Numbered(Present(x))]
          /\ heap' = heap \o Chosen(refs[x], Present(x))
      BY <2>2 DEF RegisterVlenObjRefs
    <3>4. Len(Present(x)) \in Nat /\ x \in DOMAIN refOrdinals
      <4>1. x \in DOMAIN tree.refs
        BY <2>2, StandsInTree DEF PlanInv, IInv
      <4>2. Len(refs[x]) \in Nat
        BY <1>1, <4>1 DEF IInv, LengthsOK
      <4> QED
        BY <4>1, <4>2 DEF RefsAreStored
    <3>5. Ok(Numbered(Present(x)), x)
      <4>1. LengthsOK
        BY <1>1 DEF IInv
      <4> HIDE DEF x, Present
      <4> QED
        BY <3>3, <3>4, <4>1, NumberedIsStored
    <3> HIDE DEF Ok, x, Present
    <3>6. ASSUME NEW o \in Seen("objrefs")' PROVE Ok(refOrdinals'[o], o)
      <4>1. CASE o = x
        <5>1. refOrdinals'[o] = Numbered(Present(x))
          BY <3>3, <3>4, <4>1
        <5> QED
          BY <3>5, <4>1, <5>1
      <4>2. CASE o # x
        <5>1. refOrdinals'[o] = refOrdinals[o] /\ o \in Seen("objrefs")
          BY <3>2, <3>3, <4>2
        <5> QED
          BY <1>3, <5>1
      <4> QED
        BY <4>1, <4>2
    <3> QED
      BY <3>3, <3>6
  <2> QED
    BY <2>1, <2>2, StepFrame
<1> QED
  BY <1>1, <1>2, <1>4 DEF RefsAreStored, Stored

-----------------------------------------------------------------------------
(* Dividing the heap into collections *)

\* A set of numbers that has any has a least: induction, as the library states it.
LEMMA LeastNumber ==
    ASSUME NEW S, S \subseteq Nat, S # {}
    PROVE  \E n \in S : \A m \in S : n <= m
<1> DEFINE R == OpToRel(<, Nat)
<1>1. IsWellFoundedOn(R, Nat)
  BY NatLessThanWellFounded
<1>2. \E n \in S : \A m \in S : <<m, n>> \notin R
  <2> HIDE DEF R
  <2> QED
    BY <1>1, WFMin
<1>3. PICK n \in S : \A m \in S : <<m, n>> \notin R
  BY <1>2
<1>4. \A m \in S : ~(m < n)
  BY <1>3 DEF OpToRel
<1> QED
  BY <1>4

\* The collection an ordinal falls into begins at the last beginning before it.
LEMMA StartsFacts ==
    ASSUME NEW n \in Nat \ {0}, NEW begins, begins \subseteq Nat, 1 \in begins
    PROVE  LET s == Starts(begins, n)
           IN  s \in begins /\ s <= n /\ \A b \in begins : b <= n => b <= s
<1> DEFINE Before == {k \in Nat : n - k \in begins /\ k <= n}
<1>1. n - 1 \in Before
  OBVIOUS
<1>2. PICK k \in Before : \A m \in Before : k <= m
  <2>1. Before \subseteq Nat /\ Before # {}
    BY <1>1
  <2> HIDE DEF Before
  <2> QED
    BY <2>1, LeastNumber
<1>3. \A b \in begins : b <= n => b <= n - k
  <2> SUFFICES ASSUME NEW b \in begins, b <= n PROVE b <= n - k
    OBVIOUS
  <2>1. n - b \in Nat /\ n - (n - b) = b
    OBVIOUS
  <2>2. n - b \in Before
    BY <2>1
  <2> QED
    BY <1>2, <2>2
<1>4. \E s \in begins : s <= n /\ \A b \in begins : b <= n => b <= s
  BY <1>2, <1>3
<1> QED
  BY <1>4 DEF Starts

\* An ordinal's place in its collection is its distance from the collection's first.
LEMMA CollectionFacts ==
    ASSUME NEW N \in Nat, NEW begins \in SUBSET (1..N), 1 \in begins, NEW n \in 1..N
    PROVE  LET run == {o \in 1..N : CollectionOf(begins, o) = CollectionOf(begins, n)}
               s == Starts(begins, n)
           IN  /\ CollectionOf(begins, n) \in Int
               /\ CollectionOf(begins, n) + 1 \in 1..Cardinality(begins)
               /\ (CHOOSE o \in run : \A other \in run : o <= other) = s
               /\ s \in 1..n /\ n - s + 1 \in 1..Cardinality(run)
<1> DEFINE B(o) == {b \in begins : b <= o}
           run == {o \in 1..N : CollectionOf(begins, o) = CollectionOf(begins, n)}
           s == Starts(begins, n)
<1>1. s \in begins /\ s <= n /\ (\A b \in begins : b <= n => b <= s) /\ s \in 1..n
  <2>1. n \in Nat \ {0} /\ begins \subseteq Nat
    OBVIOUS
  <2>2. s \in begins /\ s <= n /\ (\A b \in begins : b <= n => b <= s)
    BY <2>1, StartsFacts
  <2> HIDE DEF s
  <2> QED
    BY <2>2
<1> HIDE DEF s
<1>0. /\ \A b \in begins : b \in Int
      /\ s \in Int /\ n \in Int /\ N \in Int
  BY <1>1
<1>2. IsFiniteSet(1..N) /\ IsFiniteSet(begins) /\ Cardinality(begins) \in Nat
  <2>1. IsFiniteSet(1..N)
    BY <1>0, FS_Interval
  <2> QED
    BY <2>1, FS_Subset, FS_CardinalityType
<1>3. \A o \in 1..N : /\ IsFiniteSet(B(o)) /\ Cardinality(B(o)) \in Nat /\ B(o) \subseteq begins
                      /\ Cardinality(B(o)) <= Cardinality(begins)
                      /\ CollectionOf(begins, o) = Cardinality(B(o)) - 1
  <2> SUFFICES ASSUME NEW o \in 1..N
               PROVE  /\ IsFiniteSet(B(o)) /\ Cardinality(B(o)) \in Nat /\ B(o) \subseteq begins
                      /\ Cardinality(B(o)) <= Cardinality(begins)
                      /\ CollectionOf(begins, o) = Cardinality(B(o)) - 1
    OBVIOUS
  <2>1. B(o) \subseteq begins /\ CollectionOf(begins, o) = Cardinality(B(o)) - 1
    BY DEF CollectionOf
  <2> HIDE DEF B
  <2> QED
    BY <1>2, <2>1, FS_Subset, FS_CardinalityType
<1>4. \A o \in s..n : o \in run
  <2> SUFFICES ASSUME NEW o \in s..n PROVE o \in run
    OBVIOUS
  <2>0. \A b \in begins : b <= o <=> b <= n
    BY <1>0, <1>1
  <2>1. B(o) = B(n)
    <3> HIDE DEF run
    <3> QED
      BY <2>0
  <2>2. o \in 1..N
    BY <1>0, <1>1
  <2> HIDE DEF B
  <2> QED
    BY <1>3, <2>1, <2>2
<1>5. \A o \in run : s <= o
  <2> SUFFICES ASSUME NEW o \in run, o < s PROVE FALSE
    BY <1>1
  <2>0. o \in Int /\ o \in 1..N /\ \A b \in begins : b <= o => b <= n
    BY <1>0, <1>1
  <2>1. B(o) \subseteq B(n) /\ s \in B(n) /\ s \notin B(o) /\ o \in 1..N
    <3>1. ~(s <= o)
      BY <1>0, <2>0
    <3> HIDE DEF run
    <3> QED
      BY <1>1, <2>0, <3>1
  <2>2. Cardinality(B(o)) = Cardinality(B(n))
    <3> HIDE DEF B
    <3>1. CollectionOf(begins, o) = CollectionOf(begins, n)
      OBVIOUS
    <3>2. Cardinality(B(o)) - 1 = Cardinality(B(n)) - 1 /\ Cardinality(B(o)) \in Nat /\ Cardinality(B(n)) \in Nat
      BY <1>3, <2>1, <3>1
    <3> QED
      BY <3>2
  <2>3. B(o) # B(n)
    BY <2>1
  <2> HIDE DEF B
  <2> QED
    BY <1>3, <2>1, <2>2, <2>3, FS_Subset
<1>6. s \in run
  BY <1>1, <1>4
<1>7. (CHOOSE o \in run : \A other \in run : o <= other) = s
  <2>1. \A o \in run : (\A other \in run : o <= other) => o = s
    <3> SUFFICES ASSUME NEW o \in run, \A other \in run : o <= other PROVE o = s
      OBVIOUS
    <3>1. o <= s /\ s <= o /\ o \in Nat /\ s \in Nat
      BY <1>1, <1>5, <1>6
    <3> QED
      BY <3>1
  <2> HIDE DEF run
  <2> QED
    BY <1>5, <1>6, <2>1
<1>8. n - s + 1 \in 1..Cardinality(run)
  <2>1. IsFiniteSet(run)
    <3>1. run \subseteq 1..N
      OBVIOUS
    <3> HIDE DEF run
    <3> QED
      BY <1>2, <3>1, FS_Subset
  <2>2. s..n \subseteq run /\ s \in Int /\ n \in Int /\ s <= n
    BY <1>1, <1>4
  <2> HIDE DEF run
  <2>3. Cardinality(s..n) = n - s + 1
    BY <2>2, FS_Interval
  <2>4. Cardinality(s..n) <= Cardinality(run) /\ Cardinality(run) \in Nat
    BY <2>1, <2>2, FS_Subset, FS_CardinalityType
  <2> QED
    BY <2>2, <2>3, <2>4
<1>9. CollectionOf(begins, n) + 1 \in 1..Cardinality(begins)
  <2>1. 1 \in B(n)
    OBVIOUS
  <2>2. B(n) # {}
    BY <2>1
  <2> HIDE DEF B
  <2>3. Cardinality(B(n)) # 0
    BY <1>3, <2>2, FS_EmptySet
  <2> QED
    BY <1>2, <1>3, <2>3
<1>10. CollectionOf(begins, n) \in Int
  <2> HIDE DEF B
  <2> QED
    BY <1>3
<1> QED
  BY <1>1, <1>7, <1>8, <1>9, <1>10 DEF s

\* build_collections puts every value where its location says.
LEMMA PackedKeep ==
    ASSUME PlanInv, PassesBegin, ValuesArePacked, [LayoutNext]_layoutVars
    PROVE  ValuesArePacked'
<1> SUFFICES ASSUME Rank(phase') >= 9, NEW n \in 1..Len(heap')
             PROVE  /\ locations'[n].collection + 1 \in 1..Len(collections')
                    /\ collections'[locations'[n].collection + 1][locations'[n].index] = heap'[n]
  BY DEF ValuesArePacked
<1>1. Len(heap) \in Nat
  BY DEF PlanInv, IInv, LengthsOK
<1>2. CASE phase # "pack" /\ Rank(phase) >= 9
  <2>1. UNCHANGED <<heap, collections, locations>>
    BY <1>2, StepFrame DEF Rank
  <2> QED
    BY <1>2, <2>1 DEF ValuesArePacked
<1>3. CASE phase = "pack" /\ BuildCollections
  <2>1. PICK later \in SUBSET (2..Len(heap)) :
          LET begins == IF heap = <<>> THEN {} ELSE {1} \cup later
              run(c) == {o \in 1..Len(heap) : CollectionOf(begins, o) = c - 1}
              first(c) == CHOOSE o \in run(c) : \A other \in run(c) : o <= other
          IN  /\ collections' = [c \in 1..Cardinality(begins) |->
                     [k \in 1..Cardinality(run(c)) |-> heap[first(c) + k - 1]]]
              /\ locations' = [o \in 1..Len(heap) |->
                     [collection |-> CollectionOf(begins, o),
                      index |-> o - Starts(begins, o) + 1]]
    BY <1>3 DEF BuildCollections
  <2>2. heap' = heap
    BY <1>3 DEF BuildCollections
  <2> DEFINE begins == {1} \cup later
             run(c) == {o \in 1..Len(heap) : CollectionOf(begins, o) = c - 1}
             first(c) == CHOOSE o \in run(c) : \A other \in run(c) : o <= other
  <2>3. heap # <<>> /\ begins \in SUBSET (1..Len(heap)) /\ 1 \in begins /\ n \in 1..Len(heap)
    BY <1>1, <2>2
  <2>4. /\ collections' = [c \in 1..Cardinality(begins) |->
                     [k \in 1..Cardinality(run(c)) |-> heap[first(c) + k - 1]]]
        /\ locations' = [o \in 1..Len(heap) |->
                     [collection |-> CollectionOf(begins, o),
                      index |-> o - Starts(begins, o) + 1]]
    BY <2>1, <2>3
  <2> DEFINE c == CollectionOf(begins, n) + 1
             s == Starts(begins, n)
             R == {o \in 1..Len(heap) : CollectionOf(begins, o) = CollectionOf(begins, n)}
  <2>5. /\ CollectionOf(begins, n) \in Int
        /\ c \in 1..Cardinality(begins) /\ Cardinality(begins) \in Nat
        /\ (CHOOSE o \in R : \A other \in R : o <= other) = s
        /\ s \in 1..n /\ n - s + 1 \in 1..Cardinality(R)
    <3>1. Cardinality(begins) \in Nat
      <4> HIDE DEF begins
      <4> QED
        BY <1>1, <2>3, CountedIsNatural
    <3>2. /\ CollectionOf(begins, n) \in Int
          /\ c \in 1..Cardinality(begins)
          /\ (CHOOSE o \in R : \A other \in R : o <= other) = s
          /\ s \in 1..n /\ n - s + 1 \in 1..Cardinality(R)
      <4> HIDE DEF begins
      <4> QED
        BY <1>1, <2>3, CollectionFacts
    <3> QED
      BY <3>1, <3>2
  <2>6. run(c) = R
    <3> DEFINE v == CollectionOf(begins, n)
    <3> HIDE DEF begins, v
    <3>1. c - 1 = v
      BY <2>5 DEF v
    <3> QED
      BY <3>1 DEF v
  <2>7. first(c) = s
    <3> HIDE DEF R, run, s, c, begins
    <3> QED
      BY <2>5, <2>6
  <2>8. locations'[n].collection + 1 = c /\ locations'[n].index = n - s + 1
    <3> HIDE DEF begins
    <3> QED
      BY <2>3, <2>4
  <2> HIDE DEF begins, run, first, s, R, c
  <2>9. Len(collections') = Cardinality(begins)
    BY <2>4, <2>5
  <2>10. collections'[c] = [k \in 1..Cardinality(run(c)) |-> heap[first(c) + k - 1]]
    BY <2>4, <2>5
  <2>11. collections'[c][n - s + 1] = heap[s + (n - s + 1) - 1]
    BY <2>5, <2>6, <2>7, <2>10
  <2>12. s + (n - s + 1) - 1 = n
    BY <2>3, <2>5
  <2> QED
    BY <2>2, <2>5, <2>8, <2>9, <2>11, <2>12
<1>4. CASE Rank(phase) < 9 /\ phase # "pack"
  <2>1. CASE phase \in Passes /\ Advance(NextPass(phase))
    <3>1. phase \in {"refs", "aliases", "counts", "links", "strings", "objrefs"}
      BY <1>4, <2>1 DEF Passes, Rank
    <3> QED
      BY <2>1, <3>1 DEF Advance, NextPass, Rank
  <2>2. CASE phase' = "failed" \/ phase' \in {"plan", "refs"} \/ phase' = phase
    BY <1>4, <2>2 DEF Rank
  <2>3. ~(phase \in {"pack", "place", "heap"})
    BY <1>4 DEF Rank
  <2> QED
    BY <2>1, <2>2, <2>3, StepMoves
<1>5. CASE UNCHANGED layoutVars
  BY <1>5 DEF layoutVars, heaping, packed, ValuesArePacked
<1> QED
  BY <1>2, <1>3, <1>4, <1>5, StepFrame, RankFacts

\* Collections are placed behind all else, one after the other.
LEMMA CollectionsPlacedKeep ==
    ASSUME PlanInv, PassesBegin, CollectionsArePlaced, [LayoutNext]_layoutVars
    PROVE  CollectionsArePlaced'
<1>1. /\ cursor \in Nat /\ layout \in Seq([addr: Nat, piece: Piece]) /\ collection_addrs \in Seq(Nat)
      /\ Len(layout) \in Nat /\ Len(collection_addrs) \in Nat /\ Len(collections) \in Nat
  BY DEF PlanInv, IInv, LayoutOK, LayoutTypeOK, LengthsOK
<1>2. CASE PlaceCollection
  <2> DEFINE values == collections[Len(collection_addrs) + 1]
             piece == [of |-> rootGroup, kind |-> "collection", count |-> Len(values)]
             e == [addr |-> cursor, piece |-> piece]
             ca == collection_addrs
  <2>1. /\ layout' = Append(layout, e) /\ cursor' = Past(piece) /\ ca' = Append(ca, cursor)
        /\ phase = "place" /\ phase' = phase /\ collections' = collections
        /\ Len(ca) < Len(collections)
    BY <1>2 DEF PlaceCollection
  <2>2. Len(values) \in Nat
    <3>1. Len(collection_addrs) + 1 \in 1..Len(collections)
      BY <1>1, <2>1
    <3> QED
      BY <3>1 DEF PlanInv, IInv, LengthsOK
  <2>3. cursor' > cursor /\ cursor' \in Nat
    <3>1. Size("collection", Len(values)) > 0 /\ Size("collection", Len(values)) \in Nat
      <4>1. "collection" \in Kind
        BY DEF Kind
      <4> HIDE DEF values
      <4> QED
        BY <2>2, <4>1, HeadersTakeRoom, SizeIsNatural
    <3>2. Past(piece) = cursor + Size("collection", Len(values))
      BY DEF Past
    <3> HIDE DEF values, piece
    <3> QED
      BY <1>1, <2>1, <3>1, <3>2
  <2>4. e.addr = cursor /\ e.piece.kind = "collection"
    OBVIOUS
  <2>5. /\ Len(layout') = Len(layout) + 1 /\ layout'[Len(layout) + 1] = e
        /\ \A i \in 1..Len(layout) : layout'[i] = layout[i]
    <3>1. layout' = Append(layout, e)
      BY <2>1
    <3> HIDE DEF e
    <3> QED
      BY <1>1, <3>1
  <2>6. /\ Len(ca') = Len(ca) + 1 /\ ca'[Len(ca) + 1] = cursor
        /\ \A c \in 1..Len(ca) : ca'[c] = ca[c]
    BY <1>1, <2>1
  <2> HIDE DEF e, piece, values
  <2>7. ASSUME NEW c \in 1..Len(ca')
        PROVE  /\ ca'[c] < cursor'
               /\ \E i \in 1..Len(layout') : layout'[i].addr = ca'[c] /\ layout'[i].piece.kind = "collection"
               /\ \A later \in (c + 1)..Len(ca') : ca'[c] < ca'[later]
    <3>1. CASE c = Len(ca) + 1
      <4>1. Len(layout) + 1 \in 1..Len(layout')
        BY <1>1, <2>5
      <4>2. (c + 1)..Len(ca') = {}
        BY <1>1, <2>6, <3>1
      <4> QED
        BY <2>3, <2>4, <2>5, <2>6, <3>1, <4>1, <4>2
    <3>2. CASE c \in 1..Len(ca)
      <4>0. ca[c] \in Nat
        BY <1>1, <3>2
      <4>1. ca'[c] = ca[c] /\ ca[c] < cursor /\ ca[c] \in Nat
        BY <2>6, <3>2, <4>0 DEF CollectionsArePlaced
      <4>2. PICK i \in 1..Len(layout) : layout[i].addr = ca[c] /\ layout[i].piece.kind = "collection"
        BY <3>2 DEF CollectionsArePlaced
      <4>3. i \in 1..Len(layout') /\ layout'[i] = layout[i]
        BY <1>1, <2>5
      <4>4. ASSUME NEW later \in (c + 1)..Len(ca') PROVE ca'[c] < ca'[later]
        <5>1. CASE later = Len(ca) + 1
          BY <2>6, <4>1, <5>1
        <5>2. CASE later \in (c + 1)..Len(ca)
          <6>1. later \in 1..Len(ca)
            BY <3>2, <5>2
          <6>2. ca[c] < ca[later]
            BY <3>2, <5>2 DEF CollectionsArePlaced
          <6> QED
            BY <2>6, <4>1, <6>1, <6>2
        <5>3. later \in (c + 1)..(Len(ca) + 1)
          BY <2>6
        <5>4. later = Len(ca) + 1 \/ later \in (c + 1)..Len(ca)
          <6>1. Len(ca) \in Nat /\ c \in Nat
            BY <1>1, <3>2
          <6> HIDE DEF ca
          <6> QED
            BY ONLY <5>3, <6>1
        <5> QED
          BY <5>1, <5>2, <5>4
      <4>5. ca'[c] < cursor'
        BY <1>1, <2>3, <4>1
      <4> QED
        BY <4>1, <4>2, <4>3, <4>4, <4>5
    <3> QED
      BY <1>1, <2>6, <3>1, <3>2
  <2>8. ~(Rank(phase') \in 1..8) /\ ~(Rank(phase') > 9)
    BY <2>1 DEF Rank
  <2> QED
    BY <2>7, <2>8 DEF CollectionsArePlaced
<1>3. CASE ~PlaceCollection
  <2>1. collection_addrs' = collection_addrs
    BY <1>3, StepFrame DEF FinishPlacing, layoutVars, heaping, packed
  <2>2. CASE collection_addrs = <<>>
    <3>1. Rank(phase') > 9 => Len(collections') = 0
      <4>1. CASE phase = "place"
        <5>1. FinishPlacing \/ UNCHANGED layoutVars
          BY <1>3, <4>1, StepFrame
        <5>2. collections' = collections
          BY <4>1, StepFrame
        <5>3. FinishPlacing => Len(collections) = 0
          BY <2>2 DEF FinishPlacing
        <5>4. UNCHANGED layoutVars => Rank(phase') = 9
          BY <4>1 DEF layoutVars, Rank
        <5> QED
          BY <5>1, <5>2, <5>3, <5>4
      <4>2. CASE Rank(phase) > 9
        <5>1. collections' = collections
          BY <4>2, StepFrame DEF Rank
        <5> QED
          BY <2>2, <4>2, <5>1 DEF CollectionsArePlaced
      <4>3. CASE phase # "place" /\ ~(Rank(phase) > 9)
        <5>1. CASE phase \in Passes /\ Advance(NextPass(phase))
          <6>1. phase \in {"refs", "aliases", "counts", "links", "strings", "objrefs"}
            BY <4>3, <5>1 DEF Passes, Rank
          <6> QED
            BY <5>1, <6>1 DEF Advance, NextPass, Rank
        <5>2. CASE phase' = "failed" \/ phase' \in {"plan", "refs"} \/ phase' = phase
          BY <4>3, <5>2, RankFacts DEF Rank
        <5>3. CASE phase = "pack" /\ Rank(phase') = Rank(phase) + 1
          BY <5>3 DEF Rank
        <5>4. ~(phase \in {"place", "heap"})
          BY <4>3 DEF Rank
        <5> QED
          BY <5>1, <5>2, <5>3, <5>4, StepMoves
      <4> QED
        BY <4>1, <4>2, <4>3
    <3> QED
      BY <2>1, <2>2, <3>1 DEF CollectionsArePlaced
  <2>3. CASE ~(Rank(phase) \in 1..8)
    <3>1. UNCHANGED <<cursor, layout, collections>>
      BY <1>3, <2>3, StepFrame DEF Rank, FinishPlacing, layoutVars, planning
    <3>2. ~(Rank(phase') \in 1..8)
      <4>1. CASE phase \in Passes /\ Advance(NextPass(phase))
        <5>1. phase \in {"locs", "emit"}
          BY <2>3, <4>1 DEF Passes, Rank
        <5> QED
          BY <4>1, <5>1 DEF Advance, NextPass, Rank
      <4>2. CASE phase' = "failed"
        BY <4>2 DEF Rank
      <4>3. CASE phase' = phase
        BY <2>3, <4>3
      <4>4. CASE phase \in {"place", "heap"} /\ Rank(phase') = Rank(phase) + 1
        BY <4>4 DEF Rank
      <4>5. phase \notin {"plan", "pack"}
        BY <2>3 DEF Rank
      <4> QED
        BY <4>1, <4>2, <4>3, <4>4, <4>5, StepMoves
    <3>3. Rank(phase') > 9 => Len(collection_addrs) = Len(collections)
      <4>1. CASE Rank(phase) > 9
        BY <4>1 DEF CollectionsArePlaced
      <4>2. CASE phase = "place"
        <5>1. FinishPlacing \/ UNCHANGED layoutVars
          BY <1>3, <4>2, StepFrame
        <5>2. UNCHANGED layoutVars => Rank(phase') = 9
          BY <4>2 DEF layoutVars, Rank
        <5> QED
          BY <5>1, <5>2 DEF FinishPlacing
      <4>3. CASE phase = "failed"
        BY <4>3, StepFrame DEF layoutVars, Rank
      <4>4. phase \in Passes \cup {"plan", "pack", "place", "heap", "done", "failed"}
        BY DEF PassesBegin
      <4>5. Rank(phase) > 9 \/ phase = "place" \/ phase = "failed"
        BY <2>3, <4>4 DEF Rank, Passes
      <4> QED
        BY <4>1, <4>2, <4>3, <4>5
    <3> QED
      BY <2>1, <3>1, <3>2, <3>3 DEF CollectionsArePlaced
  <2> QED
    BY <2>2, <2>3 DEF CollectionsArePlaced
<1> QED
  BY <1>2, <1>3

\* fill_vlen_objref_locs turns ordinals into references into the heap.
LEMMA LocatedKeep ==
    ASSUME PlanInv, PassesBegin, RefsAreStored, RefsAreLocated, [LayoutNext]_layoutVars
    PROVE  RefsAreLocated'
<1>1. tree' = tree /\ "locs" \in Passes
  BY StepFrame DEF Passes
<1>2. Seen("locs")' # {} => UNCHANGED <<refOrdinals, locations, collection_addrs>>
  <2>1. CASE Rank(phase) < 10
    <3>1. Rank("locs") = 10 /\ phase # "locs" /\ Rank(phase) \in Nat
      BY <2>1, RankFacts DEF Rank
    <3>2. Seen("locs") = {}
      BY <2>1, <3>1 DEF Seen, Visited
    <3> QED
      BY <1>1, <3>1, <3>2, StepSees
  <2>2. CASE Rank(phase) >= 10
    BY <2>2, StepFrame DEF Rank
  <2> QED
    BY <2>1, <2>2, RankFacts
<1>3. Seen("locs")' # {} => \A n : HeapRef(n)' = HeapRef(n)
  BY <1>2 DEF HeapRef
<1> DEFINE Ok(locs, o) == locs = [i \in 1..Len(refOrdinals[o]) |-> HeapRef(refOrdinals[o][i])]
<1>4. DOMAIN refLocs' = DOMAIN refLocs /\ \A o \in Seen("locs")' : Ok(refLocs'[o], o)
  <2>1. CASE phase # "locs" \/ UNCHANGED layoutVars
    <3>1. refLocs' = refLocs /\ Seen("locs")' \subseteq Seen("locs")
      BY <1>1, <2>1, SeenKept, StepFrame DEF layoutVars, heaping
    <3> QED
      BY <3>1 DEF RefsAreLocated
  <2>2. CASE phase = "locs" /\ FillVlenObjRefLocs
    <3> DEFINE x == order[at]
               new == [i \in 1..Len(refOrdinals[x]) |-> HeapRef(refOrdinals[x][i])]
    <3>1. Advance(NextPass(phase))
      BY <2>2 DEF FillVlenObjRefLocs, NextPass
    <3>2. x \in Owned /\ Seen("locs")' = Seen("locs") \cup {x}
      BY <1>1, <2>2, <3>1, PassAdvances
    <3>3. refLocs' = [refLocs EXCEPT ![x] = new]
      BY <2>2 DEF FillVlenObjRefLocs
    <3>4. x \in DOMAIN refLocs /\ Len(refOrdinals[x]) \in Nat
      <4>1. x \in DOMAIN tree.refs
        BY <2>2, StandsInTree DEF PlanInv, IInv
      <4>2. Len(refs[x]) \in Nat
        BY <4>1 DEF PlanInv, IInv, LengthsOK
      <4>3. x \in Seen("objrefs")
        BY <2>2, <3>2, AllSeen DEF Rank
      <4>4. Len(refOrdinals[x]) = Len([i \in 1..Len(refs[x]) |-> refs[x][i] # <<>>])
        BY <4>3 DEF RefsAreStored, Stored
      <4> QED
        BY <4>1, <4>2, <4>4 DEF RefsAreLocated
    <3>5. Ok(new, x)
      BY <3>4
    <3> HIDE DEF Ok, x, new
    <3>6. ASSUME NEW o \in Seen("locs")' PROVE Ok(refLocs'[o], o)
      <4>1. CASE o = x
        BY <3>3, <3>4, <3>5, <4>1
      <4>2. CASE o # x
        <5>1. refLocs'[o] = refLocs[o] /\ o \in Seen("locs")
          BY <3>2, <3>3, <4>2
        <5> QED
          BY <5>1 DEF RefsAreLocated, Ok
      <4> QED
        BY <4>1, <4>2
    <3> QED
      BY <3>3, <3>6
  <2> QED
    BY <2>1, <2>2, StepFrame
<1> QED
  BY <1>1, <1>2, <1>3, <1>4 DEF RefsAreLocated

\* The heap is empty when the build begins.
LEMMA HeapInit == LayoutInit => HeapInv
<1> SUFFICES ASSUME LayoutInit PROVE HeapInv
  OBVIOUS
<1>1. phase = "plan" /\ collection_addrs = <<>>
  BY DEF LayoutInit
<1>2. \A p \in Passes : Seen(p) = {}
  BY <1>1, NothingSeenYet
<1>3. Seen("strings") = {} /\ Seen("objrefs") = {} /\ Seen("locs") = {} /\ Rank(phase) = 1
  BY <1>1, <1>2 DEF Passes, Rank
<1>4. /\ DOMAIN ordinals = DOMAIN tree.refs /\ DOMAIN refOrdinals = DOMAIN tree.refs
      /\ DOMAIN refLocs = DOMAIN tree.refs
  BY DEF LayoutInit
<1> QED
  BY <1>1, <1>3, <1>4 DEF HeapInv, StringsAreStored, RefsAreStored, ValuesArePacked, CollectionsArePlaced,
     RefsAreLocated

\* Values stay registered, packed, placed and located.
LEMMA HeapKeeps == PlanInv /\ PassesBegin /\ HeapInv /\ [LayoutNext]_layoutVars => HeapInv'
  BY StringsKeep, RefsStoredKeep, PackedKeep, CollectionsPlacedKeep, LocatedKeep DEF HeapInv

-----------------------------------------------------------------------------
(* Everything written has the length room was made for *)

\* The length of two lists, put one behind the other, given by what they map.
LEMMA LengthOfConcat ==
    ASSUME NEW f, NEW g, NEW m \in Nat, NEW n \in Nat, DOMAIN f = 1..m, DOMAIN g = 1..n,
           f = [i \in 1..m |-> f[i]], g = [i \in 1..n |-> g[i]]
    PROVE  /\ Len(f) = m /\ Len(g) = n /\ Len(f \o g) = m + n
           /\ \A i \in 1..m : (f \o g)[i] = f[i]
           /\ \A i \in 1..n : m + i \in 1..Len(f \o g) /\ (f \o g)[m + i] = g[i]
<1> DEFINE T == {f[i] : i \in 1..m} \cup {g[i] : i \in 1..n}
<1>1. f \in [1..m -> T] /\ g \in [1..n -> T]
  OBVIOUS
<1> HIDE DEF T
<1>2. f \in Seq(T) /\ Len(f) = m /\ g \in Seq(T) /\ Len(g) = n
  BY <1>1, FunctionIsSequence
<1>3. /\ Len(f \o g) = Len(f) + Len(g)
      /\ \A i \in 1..Len(f) : (f \o g)[i] = f[i]
      /\ \A i \in 1..Len(f \o g) : i > Len(f) => i - Len(f) \in 1..Len(g) /\ (f \o g)[i] = g[i - Len(f)]
  BY ONLY <1>2, ConcatAt
<1>4. ASSUME NEW i \in 1..n PROVE m + i \in 1..Len(f \o g) /\ (f \o g)[m + i] = g[i]
  <2>1. m + i \in 1..Len(f \o g) /\ m + i > Len(f) /\ (m + i) - Len(f) = i
    BY <1>2, <1>3
  <2> QED
    BY <1>3, <2>1
<1> QED
  BY <1>2, <1>3, <1>4

\* What the header of an object is made of when the image is written.
LEMMA HeaderFacts ==
    ASSUME PlanInv, ResolvedInv, HeapInv, Rank(phase) >= 11, NEW o \in Owned
    PROVE  /\ Len(tree.refs[o]) \in Nat /\ Len(refs[o]) = Len(tree.refs[o])
           /\ refLocs[o] = [i \in 1..Len(tree.refs[o]) |-> HeapRef(refOrdinals[o][i])]
           /\ refcount[o] = 1 + Cardinality(AliasesTo(o))
           /\ o \in tree.linkStyle =>
                /\ o \in Groups
                /\ links[o] = [i \in 1..Len(MembersOf(o)) |->
                                  IF i \in Hard(o) THEN AddrOf[MembersOf(o)[i].to] ELSE 0]
           /\ \A i \in 1..Len(tree.refs[o]) :
                IF refs[o][i] # <<>> THEN /\ refOrdinals[o][i] \in 1..Len(heap)
                                          /\ heap[refOrdinals[o][i]] = refs[o][i]
                ELSE refOrdinals[o][i] = 0
<1>1. phase \notin {"plan", "failed"}
  BY DEF Rank
<1>2. tree \in Tree /\ Owned = DOMAIN tree.refs
  BY <1>1, PlanIsDone
<1>3. \A p \in Passes \ {"emit"} : Rank(p) <= 10 /\ Rank(p) \in Nat
  BY DEF Passes, Rank
<1>4. \A p \in Passes \ {"emit"} : Seen(p) = Owned
  BY <1>3, AllSeen, RankFacts
<1>5. Seen("refs") = Owned /\ Seen("counts") = Owned /\ Seen("links") = Owned
      /\ Seen("objrefs") = Owned /\ Seen("locs") = Owned
  BY <1>4 DEF Passes
<1>6. Len(tree.refs[o]) \in Nat
  BY <1>2, TreeFacts
<1>7. Len(refs[o]) = Len(tree.refs[o])
  <2>1. refs[o] = [i \in 1..Len(tree.refs[o]) |->
                      [j \in 1..Len(tree.refs[o][i]) |-> AddrOf[tree.refs[o][i][j]]]]
    BY <1>5 DEF ResolvedInv, RefsAreAddresses
  <2> QED
    BY <1>6, <2>1
<1> DEFINE present == [i \in 1..Len(refs[o]) |-> refs[o][i] # <<>>]
<1>8. Stored(refOrdinals[o], present, refs[o])
  BY <1>5 DEF HeapInv, RefsAreStored
<1>9. Len(present) = Len(tree.refs[o]) /\ \A i \in 1..Len(tree.refs[o]) : present[i] <=> refs[o][i] # <<>>
  <2>1. Len(present) = Len(tree.refs[o])
    BY <1>6, <1>7
  <2>2. \A i \in 1..Len(refs[o]) : present[i] = (refs[o][i] # <<>>)
    OBVIOUS
  <2> HIDE DEF present
  <2> QED
    BY <1>7, <2>1, <2>2
<1>10. Len(refOrdinals[o]) = Len(tree.refs[o])
  <2> HIDE DEF present
  <2> QED
    BY <1>8, <1>9 DEF Stored
<1>11. \A i \in 1..Len(tree.refs[o]) :
          IF refs[o][i] # <<>> THEN refOrdinals[o][i] \in 1..Len(heap) /\ heap[refOrdinals[o][i]] = refs[o][i]
          ELSE refOrdinals[o][i] = 0
  <2> HIDE DEF present
  <2> QED
    BY <1>8, <1>9 DEF Stored
<1>12. refLocs[o] = [i \in 1..Len(tree.refs[o]) |-> HeapRef(refOrdinals[o][i])]
  BY <1>5, <1>10 DEF HeapInv, RefsAreLocated
<1>13. refcount[o] = 1 + Cardinality(AliasesTo(o))
  BY <1>5 DEF ResolvedInv, RefcountsAreTrue
<1>14. o \in tree.linkStyle =>
          /\ o \in Groups
          /\ links[o] = [i \in 1..Len(MembersOf(o)) |->
                            IF i \in Hard(o) THEN AddrOf[MembersOf(o)[i].to] ELSE 0]
  <2>1. tree.linkStyle \subseteq Groups
    BY <1>2, TreeAssumption DEF Groups
  <2> QED
    BY <1>5, <2>1 DEF ResolvedInv, LinksArePatched
<1> QED
  BY <1>6, <1>7, <1>11, <1>12, <1>13, <1>14

\* The entries of a header: heap references, then the links it keeps itself.
LEMMA HeaderEntries ==
    ASSUME PlanInv, ResolvedInv, HeapInv, Rank(phase) >= 11, NEW o \in Owned
    PROVE  LET own == o \in tree.linkStyle /\ ~IsDense(o)
               e == refLocs[o] \o EmittedLinks(o)
           IN  /\ Len(e) = Len(tree.refs[o]) + (IF own THEN Len(MembersOf(o)) ELSE 0)
               /\ \A i \in 1..Len(tree.refs[o]) : e[i] = HeapRef(refOrdinals[o][i])
               /\ own => \A i \in 1..Len(MembersOf(o)) : e[Len(tree.refs[o]) + i] = links[o][i]
<1> DEFINE own == o \in tree.linkStyle /\ ~IsDense(o)
           m == Len(tree.refs[o])
           f == refLocs[o]
           g == EmittedLinks(o)
           n == IF own THEN Len(MembersOf(o)) ELSE 0
<1>1. m \in Nat /\ f = [i \in 1..m |-> HeapRef(refOrdinals[o][i])]
  BY HeaderFacts
<1>2. tree \in Tree
  BY DEF PlanInv, IInv, LayoutOK
<1>3. CASE own
  <2>1. o \in Groups /\ links[o] = [i \in 1..Len(MembersOf(o)) |->
                            IF i \in Hard(o) THEN AddrOf[MembersOf(o)[i].to] ELSE 0]
    BY <1>3, HeaderFacts
  <2>2. n \in Nat /\ n = Len(MembersOf(o))
    BY <1>2, <1>3, <2>1, MembersAreASequence
  <2>3. g = links[o]
    BY <1>3 DEF EmittedLinks, HeaderLinks, IsLinkStyle
  <2>4. DOMAIN g = 1..n /\ g = [i \in 1..n |-> g[i]]
    BY <2>1, <2>2, <2>3
  <2>5. DOMAIN f = 1..m /\ f = [i \in 1..m |-> f[i]]
    BY <1>1
  <2> HIDE DEF f, g, m, n
  <2>6. /\ Len(f \o g) = m + n /\ \A i \in 1..m : (f \o g)[i] = f[i]
        /\ \A i \in 1..n : (f \o g)[m + i] = g[i]
    BY <1>1, <2>2, <2>4, <2>5, LengthOfConcat
  <2> QED
    BY <1>1, <1>3, <2>2, <2>3, <2>6 DEF m, f, g
<1>4. CASE ~own
  <2>1. g = <<>>
    BY <1>4 DEF EmittedLinks, HeaderLinks, IsLinkStyle
  <2>2. DOMAIN g = 1..0 /\ g = [i \in 1..0 |-> g[i]]
    BY <2>1
  <2>5. DOMAIN f = 1..m /\ f = [i \in 1..m |-> f[i]]
    BY <1>1
  <2>7. 0 \in Nat
    OBVIOUS
  <2> HIDE DEF f, g, m
  <2>6. Len(f \o g) = m + 0 /\ \A i \in 1..m : (f \o g)[i] = f[i]
    BY <1>1, <2>2, <2>5, <2>7, LengthOfConcat
  <2> QED
    BY <1>1, <1>4, <2>6 DEF m, f, g
<1> QED
  BY <1>3, <1>4

\* A variable-length dataset has a heap reference for each of its elements.
LEMMA VlenFacts ==
    ASSUME PlanInv, ResolvedInv, HeapInv, Rank(phase) >= 11, NEW d \in Owned, IsVlen(d)
    PROVE  LET n == Len(tree.data[d].elements)
           IN  /\ n \in Nat /\ Len(ordinals[d]) = n
               /\ \A i \in 1..n :
                    IF tree.data[d].elements[i]
                    THEN ordinals[d][i] \in 1..Len(heap) /\ heap[ordinals[d][i]] = <<d, i>>
                    ELSE ordinals[d][i] = 0
<1> DEFINE present == tree.data[d].elements
           values == [i \in 1..Len(present) |-> <<d, i>>]
<1>1. phase \notin {"plan", "failed"} /\ Rank("strings") = 6
  BY DEF Rank
<1>2. tree \in Tree /\ Owned = DOMAIN tree.refs /\ Seen("strings") = Owned
  BY <1>1, PlanIsDone, AllSeen, RankFacts
<1>3. Len(present) \in Nat
  <2>1. d \in DOMAIN tree.data /\ tree.data[d].kind = "vlen"
    BY <1>2, TreeFacts DEF IsVlen
  <2>2. present \in Seq(BOOLEAN)
    BY <1>2, <2>1, TreeFacts
  <2> QED
    BY <2>2
<1>4. Stored(ordinals[d], present, values)
  BY <1>2 DEF HeapInv, StringsAreStored
<1>5. \A i \in 1..Len(present) : values[i] = <<d, i>>
  OBVIOUS
<1> HIDE DEF values
<1> QED
  BY <1>3, <1>4, <1>5 DEF Stored

\* A structure is written with as many entries as were planned for it.
LEMMA ContentFits ==
    ASSUME PlanInv, ResolvedInv, HeapInv, Rank(phase) >= 11, NEW o \in Owned, NEW p \in Rng(Pieces(o))
    PROVE  Len(Content(p).entries) = p.count
<1>1. phase \notin {"plan", "failed"}
  BY DEF Rank
<1>2. tree \in Tree /\ Owned = DOMAIN tree.refs /\ tree.linkStyle \subseteq Groups
  BY <1>1, PlanIsDone, TreeAssumption DEF Groups
<1>3. CASE o \in Groups
  <2>1. p \in Rng(GroupPieces(o))
    BY <1>3 DEF Pieces
  <2> DEFINE n == Len(MembersOf(o))
  <2>2. n \in Nat
    BY <1>2, <1>3, MembersAreASequence
  <2>3. CASE p = PieceOf(o, "header", HeaderCount(o))
    <3>1. Content(p).entries = refLocs[o] \o EmittedLinks(o) /\ p.count = HeaderCount(o)
      BY <2>3 DEF Content, PieceOf
    <3>2. HeaderCount(o) = Len(tree.refs[o])
             + (IF o \in tree.linkStyle /\ ~IsDense(o) THEN Len(MembersOf(o)) ELSE 0)
      BY DEF HeaderCount, HeaderLinks, IsLinkStyle
    <3> QED
      BY <3>1, <3>2, HeaderEntries
  <2>4. CASE p = PieceOf(o, "btree", 1)
    <3>1. Content(p).entries = [i \in 1..1 |-> 0] /\ p.count = 1
      BY <2>4 DEF Content, PieceOf
    <3> QED
      BY <3>1
  <2>5. CASE p \in {PieceOf(o, "local heap", Listed(o)), PieceOf(o, "snods", Listed(o))}
    <3>0. p.of = o /\ p.kind \in {"local heap", "snods"} /\ p.count = Listed(o)
      <4>1. CASE p = PieceOf(o, "local heap", Listed(o))
        BY <4>1 DEF PieceOf
      <4>2. CASE p = PieceOf(o, "snods", Listed(o))
        BY <4>2 DEF PieceOf
      <4> QED
        BY <2>5, <4>1, <4>2
    <3>1. Content(p).entries = SnodEntries(o) /\ p.count = Listed(o)
      BY <3>0 DEF Content
    <3>2. Len(SnodEntries(o)) = Listed(o)
      BY <2>2 DEF SnodEntries, Listed
    <3> QED
      BY <3>1, <3>2
  <2>6. CASE IsDense(o) /\ p \in {PieceOf(o, "link heap", n), PieceOf(o, "link index", n)}
    <3>0. p.of = o /\ p.kind \in {"link heap", "link index"} /\ p.count = n
      <4> HIDE DEF n
      <4>1. CASE p = PieceOf(o, "link heap", n)
        BY <4>1 DEF PieceOf
      <4>2. CASE p = PieceOf(o, "link index", n)
        BY <4>2 DEF PieceOf
      <4> QED
        BY <2>6, <4>1, <4>2
    <3>1. Content(p).entries = links[o] /\ p.count = n
      <4> HIDE DEF n
      <4> QED
        BY <3>0 DEF Content
    <3>2. links[o] = [i \in 1..n |-> IF i \in Hard(o) THEN AddrOf[MembersOf(o)[i].to] ELSE 0]
      BY <2>6, HeaderFacts DEF IsDense, IsLinkStyle
    <3> QED
      BY <2>2, <3>1, <3>2
  <2> QED
    BY <1>2, <1>3, <2>1, <2>3, <2>4, <2>5, <2>6, RngGroupPieces
<1>4. CASE o \notin Groups
  <2>1. o \in DOMAIN tree.data /\ p \in Rng(DatasetPieces(o))
    BY <1>2, <1>4, TreeFacts DEF Pieces
  <2>2. p.of = o
    BY <1>2, <2>1, RngDatasetPieces
  <2>3. CASE p = PieceOf(o, "header", Len(tree.refs[o]))
    <3>1. Content(p).entries = refLocs[o] \o EmittedLinks(o) /\ p.count = Len(tree.refs[o])
      BY <2>3 DEF Content, PieceOf
    <3>2. Len(tree.refs[o]) \in Nat /\ o \notin tree.linkStyle
      BY <1>2, <1>4, TreeFacts
    <3> DEFINE e == refLocs[o] \o EmittedLinks(o)
    <3>3. Len(e) = Len(tree.refs[o]) + (IF o \in tree.linkStyle /\ ~IsDense(o) THEN Len(MembersOf(o)) ELSE 0)
      BY HeaderEntries
    <3> HIDE DEF e
    <3>4. Len(e) = Len(tree.refs[o])
      BY <3>2, <3>3
    <3> QED
      BY <3>1, <3>4 DEF e
  <2>4. CASE tree.data[o].kind = "vlen" /\ p = PieceOf(o, "vlen refs", Len(tree.data[o].elements))
    <3>1. /\ Content(p).entries = [i \in 1..Len(ordinals[o]) |-> HeapRef(ordinals[o][i])]
          /\ p.count = Len(tree.data[o].elements)
      BY <2>4 DEF Content, PieceOf
    <3>2. Len(tree.data[o].elements) \in Nat /\ Len(ordinals[o]) = Len(tree.data[o].elements)
      BY <1>4, <2>4, VlenFacts DEF IsVlen
    <3> QED
      BY <3>1, <3>2
  <2>5. CASE p.kind \in {"data", "chunk index"} /\ p.count \in Nat
    <3> DEFINE n == p.count
    <3>1. Content(p).entries = [i \in 1..n |-> 0]
      BY <2>5 DEF Content
    <3>2. n \in Nat
      BY <2>5
    <3> HIDE DEF n
    <3>3. Len([i \in 1..n |-> 0]) = n
      BY <3>2
    <3> QED
      BY <3>1, <3>3 DEF n
  <2> QED
    BY <1>2, <2>1, <2>3, <2>4, <2>5, RngDatasetPieces
<1> QED
  BY <1>3, <1>4

\* Emission never finds a plan its contents do not fit.
LEMMA EveryPlanFits ==
    ASSUME PlanInv, ResolvedInv, HeapInv, Rank(phase) >= 11, NEW o
    PROVE  Fits(o)
<1> SUFFICES ASSUME NEW i \in 1..Len(layout), layout[i].piece.kind # "collection"
             PROVE  Len(Content(layout[i].piece).entries) = layout[i].piece.count
  BY DEF Fits
<1>1. phase \notin {"plan", "failed"}
  BY DEF Rank
<1>2. layout[i].piece.of \in Owned /\ layout[i].piece \in Rng(Pieces(layout[i].piece.of))
  BY <1>1, PlanIsDone
<1> QED
  BY <1>2, ContentFits

-----------------------------------------------------------------------------
(* What has been written stays, where it was to be *)

\* The structures an object's turn writes.
Mine(o) == {i \in 1..Len(layout) : /\ layout[i].piece.of = o /\ layout[i].piece.kind # "collection"
                                   /\ TakesRoom(i)}

\* An object's turn writes its structures, each at its address.
LEMMA WrittenFacts ==
    ASSUME IInv, NEW o
    PROVE  /\ DOMAIN Written(o) = {layout[i].addr : i \in Mine(o)}
           /\ \A i \in Mine(o) : Written(o)[layout[i].addr] = Contents[i]
<1>1. Written(o) = [addr \in {layout[i].addr : i \in Mine(o)} |->
                       Content(layout[CHOOSE i \in Mine(o) : layout[i].addr = addr].piece)]
  BY DEF Written, Mine, TakesRoom
<1>2. \A i, j \in Mine(o) : layout[i].addr = layout[j].addr => i = j
  BY Apart DEF Mine, TakesRoom
<1>3. \A i \in Mine(o) : i \in 1..Len(layout)
  BY DEF Mine
<1>4. ASSUME NEW i \in Mine(o) PROVE Written(o)[layout[i].addr] = Contents[i]
  <2>1. (CHOOSE j \in Mine(o) : layout[j].addr = layout[i].addr) = i
    BY <1>2
  <2> DEFINE a == layout[i].addr
  <2>2. a \in {layout[j].addr : j \in Mine(o)}
    OBVIOUS
  <2> HIDE DEF a
  <2>3. Written(o)[a] = Content(layout[CHOOSE j \in Mine(o) : layout[j].addr = a].piece)
    BY <1>1, <2>2
  <2>4. Contents[i] = Content(layout[i].piece)
    BY <1>3 DEF Contents
  <2> QED
    BY <2>1, <2>3, <2>4 DEF a
<1> QED
  BY <1>1, <1>4

\* What goes into the image does not change any more once it is being written.
LEMMA ContentsStay ==
    ASSUME [LayoutNext]_layoutVars, phase \in {"emit", "heap", "done"}
    PROVE  UNCHANGED <<tree, layout, collections, collection_addrs>> /\ Contents' = Contents
<1>1. UNCHANGED <<tree, layout, refcount, refLocs, links, aliases, ordinals, locations,
                  collections, collection_addrs, refs>>
  BY StepFrame
<1>2. Groups' = Groups /\ (\A g : MembersOf(g)' = MembersOf(g)) /\ (\A g : IsLinkStyle(g)' = IsLinkStyle(g))
  BY <1>1 DEF Groups, MembersOf, IsLinkStyle
<1>3. \A o, k : PlacedAs(o, k)' = PlacedAs(o, k)
  BY <1>1 DEF PlacedAs
<1>4. \A g, i : LinkAddr(g, i)' = LinkAddr(g, i)
  BY <1>1, <1>2, <1>3 DEF LinkAddr, Addr
<1>5. \A g : SnodEntries(g)' = SnodEntries(g)
  BY <1>2, <1>3, <1>4 DEF SnodEntries, Table
<1>6. \A n : HeapRef(n)' = HeapRef(n)
  BY <1>1 DEF HeapRef
<1>7. \A o : EmittedLinks(o)' = EmittedLinks(o)
  BY <1>1, <1>2 DEF EmittedLinks, HeaderLinks, IsDense
<1>8. \A p : Content(p)' = Content(p)
  BY <1>1, <1>5, <1>6, <1>7 DEF Content
<1>9. Contents' = Contents
  BY <1>1, <1>8 DEF Contents
<1> QED
  BY <1>1, <1>9

\* What emission has written stays, and is what the structure says.
LEMMA StructuresKeep ==
    ASSUME PlanInv, PassesBegin, CollectionsArePlaced, StructuresAreWritten, [LayoutNext]_layoutVars
    PROVE  StructuresAreWritten'
<1>1. "emit" \in Passes /\ IInv
  BY DEF Passes, PlanInv
<1> SUFFICES ASSUME NEW o \in Seen("emit")', NEW i \in 1..Len(layout'), layout'[i].piece.of = o,
                    layout'[i].piece.kind # "collection",
                    Size(layout'[i].piece.kind, layout'[i].piece.count) > 0
             PROVE  layout'[i].addr \in DOMAIN image' /\ image'[layout'[i].addr] = Contents'[i]
  BY DEF StructuresAreWritten, TakesRoom
<1>2. phase \in {"emit", "heap", "done"}
  <2>1. CASE Rank(phase) < 11
    <3>1. Rank("emit") = 11 /\ phase # "emit" /\ Rank(phase) \in Nat
      BY <2>1, RankFacts DEF Rank
    <3>2. Seen("emit") = {}
      BY <2>1, <3>1 DEF Seen, Visited
    <3>3. Seen("emit")' = {}
      BY <1>1, <3>1, <3>2, StepSees
    <3> QED
      BY <3>3
  <2>2. CASE Rank(phase) >= 11
    BY <2>2 DEF Rank
  <2> QED
    BY <2>1, <2>2, RankFacts
<1>3. layout' = layout /\ Contents' = Contents
  BY <1>2, ContentsStay
<1>4. i \in 1..Len(layout) /\ TakesRoom(i)
  BY <1>3 DEF TakesRoom
<1> DEFINE a == layout[i].addr
<1>5. o \in Seen("emit") => a \in DOMAIN image /\ image[a] = Contents[i]
  BY <1>3, <1>4 DEF StructuresAreWritten
<1>6. CASE phase = "emit" /\ Emit
  <2> DEFINE x == order[at]
  <2>1. phase' # "failed"
    BY <1>1, StepSees
  <2>2. Advance(NextPass(phase)) /\ image' = Over(image, Written(x))
    BY <1>6, <2>1 DEF Emit, NextPass
  <2>3. Seen("emit")' = Seen("emit") \cup {x}
    BY <1>1, <1>6, <2>2, PassAdvances
  <2>4. /\ DOMAIN Written(x) = {layout[k].addr : k \in Mine(x)}
        /\ \A k \in Mine(x) : Written(x)[layout[k].addr] = Contents[k]
    BY <1>1, WrittenFacts
  <2>5. /\ DOMAIN image' = DOMAIN image \cup DOMAIN Written(x)
        /\ \A b \in DOMAIN image' : image'[b] = IF b \in DOMAIN Written(x) THEN Written(x)[b] ELSE image[b]
    BY <2>2 DEF Over
  <2> HIDE DEF x
  <2>6. CASE o = x
    <3>1. i \in Mine(x)
      BY <1>3, <1>4, <2>6 DEF Mine
    <3> QED
      BY <1>3, <2>4, <2>5, <3>1
  <2>7. CASE o # x
    <3>1. \A k \in Mine(x) : layout[k].addr # a
      <4> SUFFICES ASSUME NEW k \in Mine(x), layout[k].addr = a PROVE FALSE
        OBVIOUS
      <4>1. k = i
        BY <1>1, <1>4, Apart DEF Mine, TakesRoom
      <4> QED
        BY <1>3, <2>7, <4>1 DEF Mine
    <3>2. a \notin DOMAIN Written(x)
      BY <2>4, <3>1
    <3>3. a \in DOMAIN image /\ image[a] = Contents[i]
      BY <1>5, <2>3, <2>7
    <3> HIDE DEF a
    <3>4. a \in DOMAIN image' /\ image'[a] = Contents[i]
      BY <2>5, <3>2, <3>3
    <3> QED
      BY <1>3, <3>4 DEF a
  <2> QED
    BY <2>6, <2>7
<1>7. CASE phase = "heap" /\ EmitCollections
  <2>1. o \in Seen("emit")
    BY <1>1, <1>7, StepSees
  <2> DEFINE at_addr(addr) == CHOOSE c \in 1..Len(collections) : collection_addrs[c] = addr
             new == [addr \in {collection_addrs[c] : c \in 1..Len(collections)} |->
                       [kind |-> "collection", of |-> rootGroup, entries |-> collections[at_addr(addr)]]]
  <2>2. image' = Over(image, new)
    BY <1>7 DEF EmitCollections
  <2>3. a \notin DOMAIN new
    <3> SUFFICES ASSUME NEW c \in 1..Len(collections), collection_addrs[c] = a PROVE FALSE
      OBVIOUS
    <3>1. Len(collection_addrs) = Len(collections)
      BY <1>7 DEF CollectionsArePlaced, Rank
    <3>2. PICK k \in 1..Len(layout) : layout[k].addr = a /\ layout[k].piece.kind = "collection"
      BY <3>1 DEF CollectionsArePlaced
    <3>3. Size(layout[k].piece.kind, layout[k].piece.count) > 0
      BY <1>1, <3>2, PlacedTypes, HeadersTakeRoom
    <3>4. k = i
      BY <1>1, <1>4, <3>2, <3>3, Apart DEF TakesRoom
    <3> QED
      BY <1>3, <3>2, <3>4
  <2> HIDE DEF new, a
  <2>4. a \in DOMAIN image' /\ image'[a] = image[a]
    BY <1>5, <2>1, <2>2, <2>3 DEF Over
  <2> QED
    BY <1>3, <1>5, <2>1, <2>4 DEF a
<1>8. CASE UNCHANGED layoutVars
  <2>1. o \in Seen("emit") /\ image' = image
    BY <1>1, <1>8, SeenKept DEF layoutVars
  <2> QED
    BY <1>3, <1>5, <2>1
<1> QED
  BY <1>2, <1>6, <1>7, <1>8, StepFrame

\* emit_collections writes the collections beside what is there.
LEMMA CollectionsWrittenKeep ==
    ASSUME PlanInv, PassesBegin, CollectionsArePlaced, CollectionsAreWritten, [LayoutNext]_layoutVars
    PROVE  CollectionsAreWritten'
<1> SUFFICES ASSUME phase' = "done", NEW c \in 1..Len(collections')
             PROVE  /\ collection_addrs'[c] \in DOMAIN image'
                    /\ image'[collection_addrs'[c]].entries = collections'[c]
  BY DEF CollectionsAreWritten
<1>1. phase \in {"heap", "done"}
  <2>1. CASE phase \in Passes /\ Advance(NextPass(phase))
    BY <2>1 DEF Advance, Passes, NextPass
  <2>2. CASE phase \in {"pack", "place", "heap"} /\ (phase' = phase \/ Rank(phase') = Rank(phase) + 1)
    BY <2>2 DEF Rank
  <2> QED
    BY <2>1, <2>2, StepMoves
<1>2. CASE phase = "done"
  BY <1>2, StepFrame DEF CollectionsAreWritten, layoutVars, heaping, packed
<1>3. CASE phase = "heap"
  <2>1. EmitCollections
    BY <1>3, StepFrame DEF layoutVars
  <2> DEFINE at_addr(addr) == CHOOSE k \in 1..Len(collections) : collection_addrs[k] = addr
             new == [addr \in {collection_addrs[k] : k \in 1..Len(collections)} |->
                       [kind |-> "collection", of |-> rootGroup, entries |-> collections[at_addr(addr)]]]
             a == collection_addrs[c]
  <2>2. image' = Over(image, new) /\ UNCHANGED <<collections, collection_addrs>>
    BY <2>1 DEF EmitCollections, heaping, packed
  <2>3. Len(collection_addrs) = Len(collections) /\ Len(collections) \in Nat /\ c \in 1..Len(collections)
    BY <1>3, <2>2 DEF CollectionsArePlaced, Rank, PlanInv, IInv, LengthsOK
  <2>4. \A k \in 1..Len(collections) : collection_addrs[k] \in Nat
    BY <2>3 DEF PlanInv, IInv, LengthsOK
  <2>5. \A j, k \in 1..Len(collections) : j < k => collection_addrs[j] < collection_addrs[k]
    <3> SUFFICES ASSUME NEW j \in 1..Len(collections), NEW k \in 1..Len(collections), j < k
                 PROVE  collection_addrs[j] < collection_addrs[k]
      OBVIOUS
    <3>1. j \in 1..Len(collection_addrs) /\ k \in (j + 1)..Len(collection_addrs)
      BY <2>3
    <3> QED
      BY <3>1 DEF CollectionsArePlaced
  <2>6. \A k \in 1..Len(collections) : collection_addrs[k] = a => k = c
    <3> SUFFICES ASSUME NEW k \in 1..Len(collections), collection_addrs[k] = a PROVE k = c
      OBVIOUS
    <3>1. ~(k < c) /\ ~(c < k)
      BY <2>3, <2>4, <2>5
    <3> QED
      BY <2>3, <3>1
  <2>7. at_addr(a) = c
    BY <2>3, <2>6
  <2>8. a \in DOMAIN new
    BY <2>3
  <2>9. new[a] = [kind |-> "collection", of |-> rootGroup, entries |-> collections[at_addr(a)]]
    BY <2>8
  <2>10. new[a].entries = collections[c]
    <3> HIDE DEF at_addr, new
    <3>1. new[a] = [kind |-> "collection", of |-> rootGroup, entries |-> collections[c]]
      BY <2>7, <2>9
    <3> QED
      BY <3>1
  <2> HIDE DEF new, a
  <2>11. a \in DOMAIN image' /\ image'[a] = new[a]
    BY <2>2, <2>8 DEF Over
  <2> QED
    BY <2>2, <2>10, <2>11 DEF a
<1> QED
  BY <1>1, <1>2, <1>3

\* The build fails only on a tree it cannot write.
LEMMA FailureKeep ==
    ASSUME PlanInv, ResolvedInv, HeapInv, FailureIsJustified, [LayoutNext]_layoutVars
    PROVE  FailureIsJustified'
<1> SUFFICES ASSUME phase' = "failed" PROVE Unbuildable'
  BY DEF FailureIsJustified
<1>1. tree' = tree
  BY StepFrame
<1>2. Unbuildable' <=> Unbuildable
  BY <1>1 DEF Unbuildable, Groups, HardAliases
<1>3. CASE phase = "plan"
  <2>1. PlanDataset
    BY <1>3, StepFrame DEF PlanGroup, Reserve, FinishPlan, layoutVars
  <2> DEFINE d == Head(todo).of
  <2>2. d \notin Groups /\ tree.data[d].kind = "refused" /\ todo # <<>>
    BY <1>3, <2>1 DEF PlanDataset
  <2>3. d \in DOMAIN tree.refs
    <3>1. todo \in Seq(Piece) /\ \A i \in 1..Len(todo) : todo[i].of \in DOMAIN tree.refs
      BY DEF PlanInv, IInv, LayoutOK, LayoutTypeOK
    <3>2. 1 \in 1..Len(todo) /\ Head(todo) = todo[1]
      BY <2>2, <3>1, HeadTailFacts
    <3> QED
      BY <3>1, <3>2
  <2> QED
    BY <1>2, <2>2, <2>3 DEF Unbuildable
<1>4. CASE phase = "failed"
  BY <1>2, <1>4 DEF FailureIsJustified
<1>5. CASE phase \notin {"plan", "failed"}
  <2>1. tree \in Tree /\ Owned = DOMAIN tree.refs
    BY <1>5, PlanIsDone
  <2>2. order[at] \in DOMAIN tree.refs
    BY <1>5, StandsInTree DEF PlanInv, IInv
  <2>3. CASE FillObjRefs
    <3>1. \E i \in 1..Len(tree.refs[order[at]]) : \E j \in 1..Len(tree.refs[order[at]][i]) :
             tree.refs[order[at]][i][j] \notin Owned
      BY <2>3 DEF FillObjRefs, Advance
    <3> QED
      BY <1>2, <2>1, <2>2, <3>1 DEF Unbuildable
  <2>4. CASE ResolveLinkTargets
    <3>1. order[at] \in Groups /\ \E i \in HardAliases(order[at]) : tree.links[order[at]][i] \notin Owned
      BY <2>4 DEF ResolveLinkTargets, Advance
    <3> QED
      BY <1>2, <2>1, <3>1 DEF Unbuildable
  <2>5. CASE Emit
    <3>1. phase = "emit" /\ Rank(phase) >= 11
      BY <2>5 DEF Emit, Rank
    <3>2. Fits(order[at])
      BY <3>1, EveryPlanFits
    <3> QED
      BY <2>5, <3>1, <3>2 DEF Emit, Advance
  <2>6. phase' # phase
    BY <1>5
  <2>7. CASE \/ ApplyRefcounts \/ PatchLinks \/ RegisterVlenStrings \/ RegisterVlenObjRefs
             \/ BuildCollections \/ PlaceCollection \/ FinishPlacing \/ FillVlenObjRefLocs \/ EmitCollections
    BY <2>6, <2>7 DEF ApplyRefcounts, PatchLinks, RegisterVlenStrings, RegisterVlenObjRefs,
       BuildCollections, PlaceCollection, FinishPlacing, FillVlenObjRefLocs, EmitCollections, Advance
  <2>8. CASE PlanGroup \/ PlanDataset \/ Reserve \/ FinishPlan
    BY <1>5, <2>8 DEF PlanGroup, PlanDataset, Reserve, FinishPlan
  <2>9. ~UNCHANGED layoutVars
    BY <2>6 DEF layoutVars
  <2> QED
    BY <2>3, <2>4, <2>5, <2>7, <2>8, <2>9 DEF LayoutNext
<1> QED
  BY <1>3, <1>4, <1>5

\* The invariant of the build holds when it begins.
LEMMA BuildInit == LayoutInit => BuildInv
<1> SUFFICES ASSUME LayoutInit PROVE BuildInv
  OBVIOUS
<1>1. phase = "plan"
  BY DEF LayoutInit
<1>2. Seen("emit") = {}
  BY <1>1, NothingSeenYet DEF Passes
<1> QED
  BY <1>1, <1>2, PlanInit, ResolvedInit, HeapInit DEF BuildInv, StructuresAreWritten, CollectionsAreWritten,
     FailureIsJustified

\* Every step keeps the invariant of the build.
LEMMA BuildKeeps == BuildInv /\ [LayoutNext]_layoutVars => BuildInv'
<1> SUFFICES ASSUME BuildInv, [LayoutNext]_layoutVars PROVE BuildInv'
  OBVIOUS
<1>1. PlanInv /\ ResolvedInv /\ HeapInv /\ PassesBegin /\ CollectionsArePlaced
  BY DEF BuildInv, ResolvedInv, HeapInv
<1>2. PlanInv' /\ ResolvedInv' /\ HeapInv'
  BY <1>1, PlanKeeps, ResolvedKeeps, HeapKeeps
<1>3. StructuresAreWritten' /\ CollectionsAreWritten' /\ FailureIsJustified'
  BY <1>1, StructuresKeep, CollectionsWrittenKeep, FailureKeep DEF BuildInv
<1> QED
  BY <1>2, <1>3 DEF BuildInv

-----------------------------------------------------------------------------
(* What the finished image says *)

\* A finished build planned and visited every object of the tree, none of them refused.
LEMMA WhenDone ==
    ASSUME BuildInv, phase = "done"
    PROVE  /\ PlanInv /\ ResolvedInv /\ HeapInv /\ IInv /\ Rank(phase) >= 11
           /\ phase \notin {"plan", "failed"}
           /\ tree \in Tree /\ Owned = DOMAIN tree.refs /\ Groups \subseteq Owned
           /\ tree.linkStyle \subseteq Groups
           /\ \A p \in Passes : Seen(p) = Owned
           /\ \A d \in DOMAIN tree.refs \ Groups : tree.data[d].kind # "refused"
<1>1. PlanInv /\ ResolvedInv /\ HeapInv /\ IInv /\ Rank(phase) >= 11
  BY DEF BuildInv, PlanInv, Rank
<1>2. /\ tree \in Tree /\ Owned = DOMAIN tree.refs
      /\ \A d \in DOMAIN tree.refs \ Groups : tree.data[d].kind # "refused"
  BY <1>1, PlanIsDone
<1>3. Groups \subseteq Owned /\ tree.linkStyle \subseteq Groups
  BY <1>2, TreeFacts, TreeAssumption DEF Groups
<1>4. \A p \in Passes : Rank(phase) > Rank(p)
  BY DEF Passes, Rank
<1> QED
  BY <1>1, <1>2, <1>3, <1>4, AllSeen

\* A structure that takes room is in the image, at its address.
LEMMA InImage ==
    ASSUME BuildInv, phase = "done", NEW o \in Owned, NEW k,
           \E p \in Rng(Pieces(o)) : p.kind = k,
           \A p \in Rng(Pieces(o)) : p.kind = k => Size(p.kind, p.count) > 0
    PROVE  \E p \in Rng(Pieces(o)) : /\ p.kind = k /\ p.of = o
                                     /\ PlacedAs(o, k).addr \in DOMAIN image
                                     /\ image[PlacedAs(o, k).addr] = Content(p)
<1>1. PlanInv /\ phase \notin {"plan", "failed"} /\ Seen("emit") = Owned /\ tree \in Tree /\ Owned = DOMAIN tree.refs
  BY WhenDone DEF Passes
<1>2. PICK i \in 1..Len(layout) : /\ PlacedAs(o, k) = layout[i] /\ layout[i].piece.of = o
                                  /\ layout[i].piece.kind = k /\ layout[i].piece \in Rng(Pieces(o))
  BY <1>1, PlacedFacts
<1>3. layout[i].piece.kind # "collection" /\ TakesRoom(i)
  BY <1>1, <1>2, PiecesAreOwn DEF TakesRoom
<1>4. layout[i].addr \in DOMAIN image /\ image[layout[i].addr] = Contents[i]
  BY <1>1, <1>2, <1>3 DEF BuildInv, StructuresAreWritten
<1>5. Contents[i] = Content(layout[i].piece)
  BY DEF Contents
<1> QED
  BY <1>2, <1>4, <1>5

\* An object's header is in the image, with its count and its entries.
LEMMA HeaderInImage ==
    ASSUME BuildInv, phase = "done", NEW o \in Owned
    PROVE  /\ HeaderOf(o, Addr(o)) /\ AddrOf[o] = Addr(o)
           /\ image[Addr(o)].refcount = refcount[o]
           /\ image[Addr(o)].entries = refLocs[o] \o EmittedLinks(o)
<1>1. tree \in Tree /\ Owned = DOMAIN tree.refs
  BY WhenDone
<1>2. \E p \in Rng(Pieces(o)) : p.kind = "header"
  BY <1>1, HasHeader
<1>3. \A p \in Rng(Pieces(o)) : p.kind = "header" => Size(p.kind, p.count) > 0
  BY <1>1, PiecesAreOwn, HeadersTakeRoom
<1>4. PICK p \in Rng(Pieces(o)) : /\ p.kind = "header" /\ p.of = o
                                  /\ PlacedAs(o, "header").addr \in DOMAIN image
                                  /\ image[PlacedAs(o, "header").addr] = Content(p)
  BY <1>2, <1>3, InImage
<1>5. Addr(o) \in DOMAIN image /\ image[Addr(o)] = Content(p)
  BY <1>4 DEF Addr
<1>6. Content(p) = [kind |-> "header", of |-> o, refcount |-> refcount[o],
                    entries |-> refLocs[o] \o EmittedLinks(o)]
  BY <1>4 DEF Content
<1>7. /\ image[Addr(o)].kind = "header" /\ image[Addr(o)].of = o
      /\ image[Addr(o)].refcount = refcount[o]
      /\ image[Addr(o)].entries = refLocs[o] \o EmittedLinks(o)
  BY <1>5, <1>6
<1> QED
  BY <1>5, <1>7 DEF HeaderOf, AddrOf

\* A group's symbol table is in the image: the root of its nodes, and its names.
LEMMA TableInImage ==
    ASSUME BuildInv, phase = "done", NEW g \in Groups
    PROVE  /\ image[Table(g)[1]].kind = "btree" /\ image[Table(g)[1]].of = g
           /\ image[Table(g)[2]].kind = "local heap" /\ image[Table(g)[2]].of = g
<1>1. tree \in Tree /\ Owned = DOMAIN tree.refs /\ g \in Owned
  BY WhenDone
<1>2. Rng(Pieces(g)) = Rng(GroupPieces(g))
  BY DEF Pieces
<1>3. ASSUME NEW k \in {"btree", "local heap"}
      PROVE  image[PlacedAs(g, k).addr].kind = k /\ image[PlacedAs(g, k).addr].of = g
  <2>1. \E p \in Rng(Pieces(g)) : p.kind = k
    <3>1. PieceOf(g, "btree", 1).kind = "btree" /\ PieceOf(g, "local heap", Listed(g)).kind = "local heap"
      BY DEF PieceOf
    <3>2. /\ PieceOf(g, "btree", 1) \in Rng(GroupPieces(g))
          /\ PieceOf(g, "local heap", Listed(g)) \in Rng(GroupPieces(g))
      BY <1>1, RngGroupPieces
    <3> QED
      BY <1>2, <3>1, <3>2
  <2>2. \A p \in Rng(Pieces(g)) : p.kind = k => Size(p.kind, p.count) > 0
    BY <1>1, PiecesAreOwn, HeadersTakeRoom
  <2>3. PICK p \in Rng(Pieces(g)) : p.kind = k /\ p.of = g /\ image[PlacedAs(g, k).addr] = Content(p)
    BY <1>1, <2>1, <2>2, InImage
  <2>4. Content(p).kind = k /\ Content(p).of = g
    <3>1. CASE k = "btree"
      BY <2>3, <3>1 DEF Content
    <3>2. CASE k = "local heap"
      BY <2>3, <3>2 DEF Content
    <3> QED
      BY <3>1, <3>2
  <2> QED
    BY <2>3, <2>4
<1>4. Table(g)[1] = PlacedAs(g, "btree").addr /\ Table(g)[2] = PlacedAs(g, "local heap").addr
  BY DEF Table
<1> QED
  BY <1>3, <1>4

\* The members of a group that has any are in its nodes, or in its link heap.
LEMMA MembersInImage ==
    ASSUME BuildInv, phase = "done", NEW g \in Groups, NEW i \in 1..Len(MembersOf(g))
    PROVE  /\ IsDense(g) => image[PlacedAs(g, "link heap").addr].entries = links[g]
           /\ ~IsLinkStyle(g) => image[PlacedAs(g, "snods").addr].entries = SnodEntries(g)
<1>1. tree \in Tree /\ Owned = DOMAIN tree.refs /\ g \in Owned
  BY WhenDone
<1>2. Rng(Pieces(g)) = Rng(GroupPieces(g)) /\ Len(MembersOf(g)) \in Nat /\ Len(MembersOf(g)) > 0
  BY <1>1, MembersAreASequence DEF Pieces
<1> DEFINE n == Len(MembersOf(g))
<1>3. ASSUME NEW k \in {"link heap", "snods"}, PieceOf(g, k, n) \in Rng(GroupPieces(g)),
             \A p \in Rng(GroupPieces(g)) : p.kind = k => p = PieceOf(g, k, n)
      PROVE  image[PlacedAs(g, k).addr] = Content(PieceOf(g, k, n))
  <2>1. PieceOf(g, k, n).kind = k /\ PieceOf(g, k, n).count = n
    BY DEF PieceOf
  <2>2. \A p \in Rng(Pieces(g)) : p.kind = k => Size(p.kind, p.count) > 0
    <3>1. Size(k, n) > 0
      BY <1>2, EntriesTakeRoom
    <3> QED
      BY <1>2, <1>3, <2>1, <3>1
  <2> HIDE DEF n
  <2>0. \E p \in Rng(Pieces(g)) : p.kind = k
    BY <1>2, <1>3, <2>1
  <2>3. PICK p \in Rng(Pieces(g)) : p.kind = k /\ image[PlacedAs(g, k).addr] = Content(p)
    BY <1>1, <2>0, <2>2, InImage
  <2> QED
    BY <1>2, <1>3, <2>3
<1>4. ASSUME NEW k \in {"link heap", "snods"}, k = "link heap" => IsDense(g),
             k = "snods" => ~IsLinkStyle(g), NEW p \in Rng(GroupPieces(g)), p.kind = k
      PROVE  p = PieceOf(g, k, n)
  <2>1. /\ PieceOf(g, "header", HeaderCount(g)).kind = "header" /\ PieceOf(g, "btree", 1).kind = "btree"
        /\ PieceOf(g, "local heap", Listed(g)).kind = "local heap" /\ PieceOf(g, "snods", Listed(g)).kind = "snods"
        /\ PieceOf(g, "link heap", n).kind = "link heap" /\ PieceOf(g, "link index", n).kind = "link index"
    BY DEF PieceOf
  <2>2. ~IsLinkStyle(g) => Listed(g) = n
    BY DEF Listed
  <2> HIDE DEF n
  <2>3. \/ p \in {PieceOf(g, "header", HeaderCount(g)), PieceOf(g, "btree", 1),
                  PieceOf(g, "local heap", Listed(g)), PieceOf(g, "snods", Listed(g))}
        \/ p \in {PieceOf(g, "link heap", n), PieceOf(g, "link index", n)}
    BY <1>1, RngGroupPieces DEF n
  <2> QED
    BY <1>4, <2>1, <2>2, <2>3
<1>5. CASE IsDense(g)
  <2>1. PieceOf(g, "link heap", n) \in Rng(GroupPieces(g)) /\ IsLinkStyle(g)
    BY <1>1, <1>5, RngGroupPieces DEF IsDense
  <2>2. image[PlacedAs(g, "link heap").addr] = Content(PieceOf(g, "link heap", n))
    BY <1>3, <1>4, <1>5, <2>1
  <2>3. Content(PieceOf(g, "link heap", n)).entries = links[g]
    BY DEF Content, PieceOf
  <2> QED
    BY <2>1, <2>2, <2>3
<1>6. CASE ~IsLinkStyle(g)
  <2>1. PieceOf(g, "snods", n) \in Rng(GroupPieces(g)) /\ ~IsDense(g)
    BY <1>1, <1>6, RngGroupPieces DEF Listed, IsDense
  <2>2. image[PlacedAs(g, "snods").addr] = Content(PieceOf(g, "snods", n))
    BY <1>3, <1>4, <1>6, <2>1
  <2>3. Content(PieceOf(g, "snods", n)).entries = SnodEntries(g)
    BY DEF Content, PieceOf
  <2> QED
    BY <2>1, <2>2, <2>3
<1> QED
  BY <1>5, <1>6 DEF IsDense

\* Wherever a group keeps its links, a hard one is the address of its object.
LEMMA LinksInImage ==
    ASSUME BuildInv, phase = "done", NEW g \in Groups, NEW i \in Hard(g)
    PROVE  /\ MembersOf(g)[i].to \in Owned
           /\ LinkInImage(g, i) = Addr(MembersOf(g)[i].to)
<1> DEFINE to == MembersOf(g)[i].to
<1>1. /\ PlanInv /\ ResolvedInv /\ HeapInv /\ Rank(phase) >= 11 /\ phase \notin {"plan", "failed"}
      /\ tree \in Tree /\ g \in Owned /\ Seen("aliases") = Owned /\ i \in 1..Len(MembersOf(g))
  BY WhenDone DEF Passes, Hard
<1>2. to \in Owned /\ LinkAddr(g, i) = AddrOf[to]
  BY <1>1, LinkFacts DEF ResolvedInv
<1>3. AddrOf[to] = Addr(to)
  BY <1>2 DEF AddrOf
<1>4. g \in tree.linkStyle => links[g][i] = AddrOf[to]
  <2>1. g \in tree.linkStyle =>
          links[g] = [k \in 1..Len(MembersOf(g)) |-> IF k \in Hard(g) THEN AddrOf[MembersOf(g)[k].to] ELSE 0]
    BY <1>1, HeaderFacts
  <2> QED
    BY <1>1, <2>1
<1> HIDE DEF to
<1>5. CASE IsDense(g)
  <2>1. image[PlacedAs(g, "link heap").addr].entries = links[g] /\ g \in tree.linkStyle
    BY <1>1, <1>5, MembersInImage DEF IsDense, IsLinkStyle
  <2> QED
    BY <1>2, <1>3, <1>4, <1>5, <2>1 DEF LinkInImage, to
<1>6. CASE IsLinkStyle(g) /\ ~IsDense(g)
  <2> DEFINE e == refLocs[g] \o EmittedLinks(g)
  <2>1. e[Len(tree.refs[g]) + i] = links[g][i] /\ g \in tree.linkStyle
    BY <1>1, <1>6, HeaderEntries DEF IsLinkStyle
  <2>2. image[Addr(g)].entries = e
    BY <1>1, HeaderInImage
  <2> HIDE DEF e
  <2>3. LinkInImage(g, i) = image[Addr(g)].entries[Len(tree.refs[g]) + i]
    BY <1>6 DEF LinkInImage
  <2> QED
    BY <1>2, <1>3, <1>4, <2>1, <2>2, <2>3 DEF to
<1>7. CASE ~IsLinkStyle(g)
  <2>1. image[PlacedAs(g, "snods").addr].entries = SnodEntries(g)
    BY <1>1, <1>7, MembersInImage
  <2>2. SnodEntries(g)[i].addr = LinkAddr(g, i)
    BY <1>1, <1>7 DEF SnodEntries
  <2>3. LinkInImage(g, i) = image[PlacedAs(g, "snods").addr].entries[i].addr
    BY <1>7 DEF LinkInImage, IsDense
  <2> QED
    BY <1>2, <1>3, <2>1, <2>2, <2>3 DEF to
<1> QED
  BY <1>5, <1>6, <1>7

\* Every hard link of the finished image reaches the header of its object.
LEMMA LinksReach == BuildInv => LinksReachTheirObjects
<1> SUFFICES ASSUME BuildInv, phase = "done", NEW g \in Groups, NEW i \in Hard(g)
             PROVE  LET m == MembersOf(g)[i]
                    IN  /\ HeaderOf(m.to, LinkInImage(g, i))
                        /\ ~IsLinkStyle(g) =>
                             LET table == image[PlacedAs(g, "snods").addr].entries[i].table
                             IN  table # <<>> =>
                                    /\ image[table[1]].kind = "btree" /\ image[table[1]].of = m.to
                                    /\ image[table[2]].kind = "local heap" /\ image[table[2]].of = m.to
  BY DEF LinksReachTheirObjects
<1>1. MembersOf(g)[i].to \in Owned /\ LinkInImage(g, i) = Addr(MembersOf(g)[i].to)
  BY LinksInImage
<1>2. HeaderOf(MembersOf(g)[i].to, LinkInImage(g, i))
  BY <1>1, HeaderInImage
<1>3. i \in 1..Len(MembersOf(g))
  BY DEF Hard
<1>4. ASSUME ~IsLinkStyle(g)
      PROVE  LET m == MembersOf(g)[i]
                 table == image[PlacedAs(g, "snods").addr].entries[i].table
             IN  table # <<>> =>
                    /\ image[table[1]].kind = "btree" /\ image[table[1]].of = m.to
                    /\ image[table[2]].kind = "local heap" /\ image[table[2]].of = m.to
  <2>1. image[PlacedAs(g, "snods").addr].entries = SnodEntries(g)
    BY <1>3, <1>4, MembersInImage
  <2>2. SnodEntries(g)[i].table = IF MembersOf(g)[i].kind = "owned" /\ MembersOf(g)[i].to \in Groups
                                  THEN Table(MembersOf(g)[i].to) ELSE <<>>
    BY <1>3, <1>4 DEF SnodEntries
  <2> DEFINE t == image[PlacedAs(g, "snods").addr].entries[i].table
             to == MembersOf(g)[i].to
  <2>3. t # <<>> => to \in Groups /\ t = Table(to)
    BY <2>1, <2>2
  <2> HIDE DEF t, to
  <2>4. t # <<>> => /\ image[t[1]].kind = "btree" /\ image[t[1]].of = to
                    /\ image[t[2]].kind = "local heap" /\ image[t[2]].of = to
    <3> SUFFICES ASSUME t # <<>> PROVE /\ image[t[1]].kind = "btree" /\ image[t[1]].of = to
                                       /\ image[t[2]].kind = "local heap" /\ image[t[2]].of = to
      OBVIOUS
    <3>1. to \in Groups
      BY <2>3
    <3>2. /\ image[Table(to)[1]].kind = "btree" /\ image[Table(to)[1]].of = to
          /\ image[Table(to)[2]].kind = "local heap" /\ image[Table(to)[2]].of = to
      BY <3>1, TableInImage
    <3> QED
      BY <2>3, <3>2
  <2> QED
    BY <2>4 DEF t, to
<1> QED
  BY <1>2, <1>4

\* A build that ended failed just if its tree could not be written.
LEMMA FailureIsTrue == BuildInv => FailsIffUnbuildable
<1> SUFFICES ASSUME BuildInv, phase = "done" PROVE ~Unbuildable
  BY DEF BuildInv, FailureIsJustified, FailsIffUnbuildable
<1>1. /\ Owned = DOMAIN tree.refs /\ \A d \in DOMAIN tree.refs \ Groups : tree.data[d].kind # "refused"
      /\ Groups \subseteq Owned /\ Seen("refs") = Owned /\ Seen("aliases") = Owned
  BY WhenDone DEF Passes
<1>2. \A o \in Owned : \A i \in 1..Len(tree.refs[o]) : \A j \in 1..Len(tree.refs[o][i]) :
         tree.refs[o][i][j] \in Owned
  BY <1>1 DEF BuildInv, ResolvedInv, RefsAreAddresses
<1>3. \A g \in Groups : \A i \in HardAliases(g) : tree.links[g][i] \in Owned
  BY <1>1 DEF BuildInv, ResolvedInv, AliasesAreAddresses
<1> QED
  BY <1>1, <1>2, <1>3 DEF Unbuildable

\* The hard links of the tree that are for an object: its owner's, and the aliases.
LinksTo(o) == UNION {{<<g, i>> : i \in {k \in Hard(g) : MembersOf(g)[k].to = o}} : g \in Groups}
OwningLinks(o) == UNION {{<<g, i>> : i \in {k \in 1..Len(Kids(g)) : Kids(g)[k] = o}} : g \in Groups}

\* The hard links for an object are its owner's and the aliases.
LEMMA LinksToParts ==
    ASSUME tree \in Tree, NEW o, Groups \subseteq Seen("aliases")
    PROVE  LinksTo(o) = OwningLinks(o) \cup {<<p[1], Len(Kids(p[1])) + p[2]>> : p \in AliasesTo(o)}
<1> DEFINE Moved == {<<p[1], Len(Kids(p[1])) + p[2]>> : p \in AliasesTo(o)}
<1>1. ASSUME NEW g \in Groups, NEW k \in Hard(g), MembersOf(g)[k].to = o
      PROVE  <<g, k>> \in OwningLinks(o) \cup Moved
  <2>1. k \in 1..Len(MembersOf(g)) /\ MembersOf(g)[k].kind # "soft" /\ Len(Kids(g)) \in Nat
    BY MemberFacts DEF Hard
  <2>2. CASE k <= Len(Kids(g))
    <3>1. k \in 1..Len(Kids(g)) /\ Kids(g)[k] = o
      BY <1>1, <2>1, <2>2, MemberFacts
    <3> QED
      BY <3>1 DEF OwningLinks
  <2>3. CASE k > Len(Kids(g))
    <3> DEFINE j == k - Len(Kids(g))
    <3>1. /\ j \in 1..Len(tree.links[g]) /\ tree.links[g][j] = o
          /\ MembersOf(g)[k].kind = IF tree.links[g][j] = Soft THEN "soft" ELSE "alias"
      BY <1>1, <2>1, <2>3, MemberFacts
    <3>2. k = Len(Kids(g)) + j
      BY <2>1
    <3> HIDE DEF j
    <3>3. j \in HardAliases(g)
      BY <2>1, <3>1 DEF HardAliases
    <3>4. <<g, j>> \in AliasesTo(o)
      BY <3>1, <3>3 DEF AliasesTo
    <3>5. <<g, j>>[1] = g /\ <<g, j>>[2] = j
      OBVIOUS
    <3> QED
      BY <3>2, <3>4, <3>5
  <2> QED
    BY <2>1, <2>2, <2>3
<1>2. ASSUME NEW g \in Groups, NEW k \in 1..Len(Kids(g)), Kids(g)[k] = o
      PROVE  <<g, k>> \in LinksTo(o)
  <2>1. k \in 1..Len(MembersOf(g))
    BY MemberFacts
  <2>2. MembersOf(g)[k].kind = "owned" /\ MembersOf(g)[k].to = o
    BY <1>2, MemberFacts
  <2>3. k \in Hard(g)
    BY <2>1, <2>2 DEF Hard
  <2> QED
    BY <2>2, <2>3 DEF LinksTo
<1>3. ASSUME NEW g \in Groups, NEW j \in HardAliases(g), tree.links[g][j] = o
      PROVE  <<g, Len(Kids(g)) + j>> \in LinksTo(o)
  <2> DEFINE k == Len(Kids(g)) + j
  <2>1. j \in 1..Len(tree.links[g]) /\ tree.links[g][j] # Soft
    BY DEF HardAliases
  <2>2. k \in 1..Len(MembersOf(g)) /\ k > Len(Kids(g)) /\ k - Len(Kids(g)) = j
    BY <2>1, MemberFacts
  <2>3. MembersOf(g)[k].to = o /\ MembersOf(g)[k].kind = "alias"
    <3> HIDE DEF k
    <3> QED
      BY <1>3, <2>1, <2>2, MemberFacts
  <2> HIDE DEF k
  <2>4. k \in Hard(g)
    BY <2>2, <2>3 DEF Hard
  <2>5. <<g, k>> \in LinksTo(o)
    BY <2>3, <2>4 DEF LinksTo
  <2> QED
    BY <2>5 DEF k
<1>4. LinksTo(o) \subseteq OwningLinks(o) \cup Moved
  <2> HIDE DEF Moved
  <2> QED
    BY <1>1 DEF LinksTo
<1>5. OwningLinks(o) \subseteq LinksTo(o)
  BY <1>2 DEF OwningLinks
<1>6. Moved \subseteq LinksTo(o)
  <2> SUFFICES ASSUME NEW p \in AliasesTo(o) PROVE <<p[1], Len(Kids(p[1])) + p[2]>> \in LinksTo(o)
    OBVIOUS
  <2>1. PICK g \in Groups : \E j \in HardAliases(g) : tree.links[g][j] = o /\ p = <<g, j>>
    BY DEF AliasesTo
  <2>2. PICK j \in HardAliases(g) : tree.links[g][j] = o /\ p = <<g, j>>
    BY <2>1
  <2>3. p[1] = g /\ p[2] = j
    BY <2>2
  <2> QED
    BY <1>3, <2>2, <2>3
<1> QED
  BY <1>4, <1>5, <1>6

\* Every object but the root is owned, once.
LEMMA OwningLinksFacts ==
    ASSUME PlanInv, phase \notin {"plan", "failed"}, NEW o \in Owned
    PROVE  IF o = rootGroup THEN OwningLinks(o) = {} ELSE \E x : OwningLinks(o) = {x}
<1>1. tree \in Tree /\ Owned = DOMAIN tree.refs /\ todo = <<>>
  BY PlanIsDone DEF PlanInv, WalkVisits
<1>2. CASE o = rootGroup
  <2>1. \A g \in Groups : \A k \in 1..Len(Kids(g)) : Kids(g)[k] # rootGroup
    BY <1>1, OneOwner
  <2> QED
    BY <1>2, <2>1 DEF OwningLinks
<1>3. CASE o # rootGroup
  <2>1. o \in Known
    BY DEF Known
  <2>2. PICK g \in Owned \cap Groups : o \in Rng(Kids(g))
    BY <1>3, <2>1 DEF PlanInv, WalkVisits
  <2>3. PICK i \in 1..Len(Kids(g)) : Kids(g)[i] = o
    BY <2>2 DEF Rng
  <2>4. \A h \in Groups : \A k \in 1..Len(Kids(h)) : Kids(h)[k] = o => h = g /\ k = i
    BY <1>1, <2>3, OneOwner
  <2>5. OwningLinks(o) = {<<g, i>>}
    <3>1. <<g, i>> \in OwningLinks(o)
      BY <2>3 DEF OwningLinks
    <3>2. \A x \in OwningLinks(o) : x = <<g, i>>
      BY <2>4 DEF OwningLinks
    <3> QED
      BY <3>1, <3>2
  <2> QED
    BY <1>3, <2>5
<1> QED
  BY <1>2, <1>3

\* Every object but the root has one link more than aliases.
LEMMA LinksToCount ==
    ASSUME PlanInv, phase \notin {"plan", "failed"}, NEW o \in Owned, Groups \subseteq Seen("aliases"),
           IsFiniteSet(AliasesTo(o))
    PROVE  1 + Cardinality(AliasesTo(o)) = Cardinality(LinksTo(o)) + (IF o = rootGroup THEN 1 ELSE 0)
<1>1. tree \in Tree
  BY PlanIsDone
<1> DEFINE S == AliasesTo(o)
           f == [p \in S |-> <<p[1], Len(Kids(p[1])) + p[2]>>]
           T == {<<p[1], Len(Kids(p[1])) + p[2]>> : p \in S}
           W == OwningLinks(o)
<1>2. \A p \in S : \E g \in Groups : \E j \in HardAliases(g) : p = <<g, j>> /\ tree.links[g][j] = o
  BY DEF AliasesTo
<1>3. ASSUME NEW p \in S
      PROVE  /\ p = <<p[1], p[2]>> /\ p[1] \in Groups /\ p[2] \in Nat \ {0} /\ Len(Kids(p[1])) \in Nat
             /\ Len(Kids(p[1])) + p[2] > Len(Kids(p[1]))
  <2>1. PICK g \in Groups : \E j \in HardAliases(g) : p = <<g, j>>
    BY <1>2
  <2>2. PICK j \in HardAliases(g) : p = <<g, j>>
    BY <2>1
  <2>3. j \in Nat \ {0} /\ Len(Kids(g)) \in Nat
    BY <1>1, MemberFacts DEF HardAliases
  <2>4. p[1] = g /\ p[2] = j
    BY <2>2
  <2> QED
    BY <2>2, <2>3, <2>4
<1> HIDE DEF S
<1>4. \A x, y \in S : f[x] = f[y] => x = y
  <2> SUFFICES ASSUME NEW x \in S, NEW y \in S, f[x] = f[y] PROVE x = y
    OBVIOUS
  <2> DEFINE m == Len(Kids(x[1]))
  <2>1. x[1] = y[1] /\ m + x[2] = Len(Kids(y[1])) + y[2]
    OBVIOUS
  <2>2. m + x[2] = m + y[2] /\ m \in Nat /\ x[2] \in Nat /\ y[2] \in Nat
    BY <1>3, <2>1
  <2> HIDE DEF m
  <2>3. x[2] = y[2]
    BY <2>2
  <2>4. x = <<x[1], x[2]>> /\ y = <<y[1], y[2]>>
    BY <1>3
  <2> QED
    BY <2>1, <2>3, <2>4
<1>5. f \in [S -> T] /\ \A t \in T : \E s \in S : f[s] = t
  OBVIOUS
<1>6. IsFiniteSet(T) /\ Cardinality(T) = Cardinality(S) /\ Cardinality(S) \in Nat
  <2>1. IsFiniteSet(S)
    BY DEF S
  <2> HIDE DEF f, T
  <2> QED
    BY <1>4, <1>5, <2>1, SameCount, FS_CardinalityType
<1>7. LinksTo(o) = W \cup T
  BY <1>1, LinksToParts DEF S
<1>8. W \cap T = {}
  <2> SUFFICES ASSUME NEW p \in S, <<p[1], Len(Kids(p[1])) + p[2]>> \in W PROVE FALSE
    OBVIOUS
  <2> DEFINE k == Len(Kids(p[1])) + p[2]
  <2>1. k > Len(Kids(p[1])) /\ Len(Kids(p[1])) \in Nat
    BY <1>3
  <2> HIDE DEF k
  <2>2. <<p[1], k>> \in W
    BY DEF k
  <2>3. k \in 1..Len(Kids(p[1]))
    BY <2>2 DEF OwningLinks
  <2> QED
    BY <2>1, <2>3
<1> HIDE DEF T, W
<1>9. IF o = rootGroup THEN W = {} ELSE \E x : W = {x}
  BY OwningLinksFacts DEF W
<1>10. IsFiniteSet(W) /\ Cardinality(W) = IF o = rootGroup THEN 0 ELSE 1
  <2>1. CASE o = rootGroup
    BY <1>9, <2>1, FS_EmptySet
  <2>2. CASE o # rootGroup
    BY <1>9, <2>2, FS_Singleton
  <2> QED
    BY <2>1, <2>2
<1>11. Cardinality(W \cup T) = Cardinality(W) + Cardinality(T) - Cardinality(W \cap T) /\ Cardinality(W \cap T) = 0
  BY <1>6, <1>8, <1>10, FS_Union, FS_EmptySet
<1>12. 1 + Cardinality(S) = Cardinality(LinksTo(o)) + (IF o = rootGroup THEN 1 ELSE 0)
  BY <1>6, <1>7, <1>10, <1>11
<1> QED
  BY <1>12 DEF S

\* The counts in the headers are those of the links.
LEMMA RefcountsCount == BuildInv => RefcountsCountLinks
<1> SUFFICES ASSUME BuildInv, phase = "done", NEW o \in DOMAIN tree.refs
             PROVE  LET reaching == UNION {{<<g, i>> : i \in {k \in Hard(g) : LinkInImage(g, k) = Addr(o)}}
                                              : g \in Groups}
                    IN  image[Addr(o)].refcount = Cardinality(reaching) + (IF o = rootGroup THEN 1 ELSE 0)
  BY DEF RefcountsCountLinks
<1>1. /\ PlanInv /\ ResolvedInv /\ HeapInv /\ Rank(phase) >= 11 /\ phase \notin {"plan", "failed"}
      /\ o \in Owned /\ Groups \subseteq Seen("aliases")
  BY WhenDone DEF Passes
<1>2. ASSUME NEW g \in Groups, NEW k \in Hard(g)
      PROVE  LinkInImage(g, k) = Addr(o) <=> MembersOf(g)[k].to = o
  <2>1. MembersOf(g)[k].to \in Owned /\ LinkInImage(g, k) = Addr(MembersOf(g)[k].to)
    BY LinksInImage
  <2> QED
    BY <1>1, <2>1, AddrFacts
<1>3. UNION {{<<g, i>> : i \in {k \in Hard(g) : LinkInImage(g, k) = Addr(o)}} : g \in Groups} = LinksTo(o)
  <2>1. \A g \in Groups : {k \in Hard(g) : LinkInImage(g, k) = Addr(o)} = {k \in Hard(g) : MembersOf(g)[k].to = o}
    BY <1>2
  <2> QED
    BY <2>1 DEF LinksTo
<1>4. image[Addr(o)].refcount = 1 + Cardinality(AliasesTo(o))
  BY <1>1, HeaderInImage, HeaderFacts
<1>5. IsFiniteSet(AliasesTo(o))
  <2>1. Rank(phase) >= 2
    BY DEF Rank
  <2> QED
    BY <1>1, <2>1 DEF ResolvedInv, CountsAreTrue
<1>6. 1 + Cardinality(AliasesTo(o)) = Cardinality(LinksTo(o)) + (IF o = rootGroup THEN 1 ELSE 0)
  BY <1>1, <1>5, LinksToCount
<1> QED
  BY <1>3, <1>4, <1>6

-----------------------------------------------------------------------------
(* Heap references *)

\* The reference to a value leads to it.
LEMMA RefLeads ==
    ASSUME BuildInv, phase = "done", NEW n \in 1..Len(heap)
    PROVE  HeapRef(n) # Null /\ InHeap(HeapRef(n)) = heap[n]
<1>1. PlanInv /\ HeapInv /\ IInv /\ Rank(phase) = 13
  BY WhenDone DEF Rank
<1> DEFINE loc == locations[n]
           c == loc.collection + 1
<1>2. c \in 1..Len(collections) /\ collections[c][loc.index] = heap[n]
  BY <1>1 DEF HeapInv, ValuesArePacked
<1>3. Len(collection_addrs) = Len(collections) /\ c \in 1..Len(collection_addrs)
  BY <1>1, <1>2 DEF HeapInv, CollectionsArePlaced
<1>4. collection_addrs[c] \in Nat \ {0}
  <2>1. PICK i \in 1..Len(layout) : layout[i].addr = collection_addrs[c]
    BY <1>1, <1>3 DEF HeapInv, CollectionsArePlaced
  <2> QED
    BY <1>1, <2>1, PlacedTypes, AddressAssumption
<1>5. image[collection_addrs[c]].entries = collections[c]
  BY <1>2 DEF BuildInv, CollectionsAreWritten
<1>6. HeapRef(n) = [addr |-> collection_addrs[c], index |-> loc.index]
  <2>1. n # 0
    BY <1>1 DEF IInv, LengthsOK
  <2> QED
    BY <2>1 DEF HeapRef
<1> HIDE DEF c, loc
<1>7. HeapRef(n).addr = collection_addrs[c] /\ HeapRef(n).index = loc.index
  BY <1>6
<1>8. HeapRef(n) # Null
  <2>1. Null.addr = 0
    BY DEF Null
  <2> QED
    BY <1>4, <1>7, <2>1
<1>9. InHeap(HeapRef(n)) = heap[n]
  BY <1>2, <1>5, <1>7 DEF InHeap
<1> QED
  BY <1>8, <1>9

\* Every reference in the finished image leads to what it is for.
LEMMA RefsResolve == BuildInv => HeapRefsResolve
<1> SUFFICES ASSUME BuildInv, phase = "done", NEW o \in DOMAIN tree.refs
             PROVE  /\ \A i \in 1..Len(tree.refs[o]) :
                         LET ref == image[Addr(o)].entries[i]
                             names == tree.refs[o][i]
                         IN  IF names = <<>> THEN ref = Null
                             ELSE /\ ref # Null /\ Len(InHeap(ref)) = Len(names)
                                  /\ \A j \in 1..Len(names) : HeaderOf(names[j], InHeap(ref)[j])
                    /\ IsVlen(o) =>
                         \A i \in 1..Len(tree.data[o].elements) :
                            LET ref == image[PlacedAs(o, "vlen refs").addr].entries[i]
                            IN  IF tree.data[o].elements[i] THEN ref # Null /\ InHeap(ref) = <<o, i>>
                                ELSE ref = Null
  BY DEF HeapRefsResolve
<1>1. /\ PlanInv /\ ResolvedInv /\ HeapInv /\ Rank(phase) >= 11 /\ phase \notin {"plan", "failed"}
      /\ o \in Owned /\ Seen("refs") = Owned /\ tree \in Tree
  BY WhenDone DEF Passes
<1>2. HeapRef(0) = Null
  BY DEF HeapRef
<1>3. ASSUME NEW i \in 1..Len(tree.refs[o])
      PROVE  LET ref == image[Addr(o)].entries[i]
                 names == tree.refs[o][i]
             IN  IF names = <<>> THEN ref = Null
                 ELSE /\ ref # Null /\ Len(InHeap(ref)) = Len(names)
                      /\ \A j \in 1..Len(names) : HeaderOf(names[j], InHeap(ref)[j])
  <2> DEFINE ref == image[Addr(o)].entries[i]
             names == tree.refs[o][i]
             n == refOrdinals[o][i]
             e == refLocs[o] \o EmittedLinks(o)
  <2>1. ref = HeapRef(n)
    <3>1. e[i] = HeapRef(n)
      BY <1>1, HeaderEntries
    <3>2. image[Addr(o)].entries = e
      BY <1>1, HeaderInImage
    <3> HIDE DEF e, n
    <3> QED
      BY <3>1, <3>2
  <2>2. refs[o][i] = [j \in 1..Len(names) |-> AddrOf[names[j]]] /\ \A j \in 1..Len(names) : names[j] \in Owned
    <3>1. o \in Seen("refs") /\ RefsAreAddresses
      BY <1>1 DEF ResolvedInv
    <3>2. \A k \in 1..Len(tree.refs[o]) : \A j \in 1..Len(tree.refs[o][k]) : tree.refs[o][k][j] \in Owned
      BY <3>1 DEF RefsAreAddresses
    <3>3. refs[o] = [k \in 1..Len(tree.refs[o]) |->
                       [j \in 1..Len(tree.refs[o][k]) |-> AddrOf[tree.refs[o][k][j]]]]
      BY <3>1 DEF RefsAreAddresses
    <3>4. refs[o][i] = [j \in 1..Len(tree.refs[o][i]) |-> AddrOf[tree.refs[o][i][j]]]
      BY ONLY <3>3, i \in 1..Len(tree.refs[o])
    <3> QED
      BY <3>2, <3>4
  <2>3. IF refs[o][i] # <<>> THEN n \in 1..Len(heap) /\ heap[n] = refs[o][i] ELSE n = 0
    BY <1>1, HeaderFacts
  <2>4. names \in Seq(Object \cup {Nowhere}) /\ Len(names) \in Nat
    <3>1. tree.refs \in [DOMAIN tree.refs -> Seq(Seq(Object \cup {Nowhere}))]
      BY <1>1, TreeAssumption
    <3>2. tree.refs[o] \in Seq(Seq(Object \cup {Nowhere}))
      BY <3>1
    <3>3. names \in Seq(Object \cup {Nowhere})
      BY <3>2
    <3> QED
      BY <3>3
  <2> HIDE DEF ref, names, n
  <2>5. CASE names = <<>>
    <3>1. refs[o][i] = <<>>
      BY <2>2, <2>5
    <3> QED
      BY <1>2, <2>1, <2>3, <2>5, <3>1 DEF ref, names
  <2>6. CASE names # <<>>
    <3>1. Len(names) # 0 /\ Len(refs[o][i]) = Len(names)
      BY <2>2, <2>4, <2>6
    <3>2. refs[o][i] # <<>>
      BY <3>1
    <3>3. ref # Null /\ InHeap(ref) = refs[o][i]
      BY <2>1, <2>3, <3>2, RefLeads
    <3>4. \A j \in 1..Len(names) : HeaderOf(names[j], refs[o][i][j])
      <4> SUFFICES ASSUME NEW j \in 1..Len(names) PROVE HeaderOf(names[j], refs[o][i][j])
        OBVIOUS
      <4>1. names[j] \in Owned /\ refs[o][i][j] = AddrOf[names[j]]
        BY <2>2
      <4> QED
        BY <4>1, HeaderInImage
    <3> QED
      BY <2>6, <3>1, <3>3, <3>4 DEF ref, names
  <2> QED
    BY <2>5, <2>6
<1>4. ASSUME IsVlen(o), NEW i \in 1..Len(tree.data[o].elements)
      PROVE  LET ref == image[PlacedAs(o, "vlen refs").addr].entries[i]
             IN  IF tree.data[o].elements[i] THEN ref # Null /\ InHeap(ref) = <<o, i>> ELSE ref = Null
  <2> DEFINE m == Len(tree.data[o].elements)
             k == "vlen refs"
             ref == image[PlacedAs(o, k).addr].entries[i]
             n == ordinals[o][i]
  <2>1. /\ m \in Nat /\ m > 0 /\ Len(ordinals[o]) = m
        /\ IF tree.data[o].elements[i] THEN n \in 1..Len(heap) /\ heap[n] = <<o, i>> ELSE n = 0
    BY <1>1, <1>4, VlenFacts
  <2>2. o \in DOMAIN tree.data /\ tree.data[o].kind = "vlen" /\ Rng(Pieces(o)) = Rng(DatasetPieces(o))
    BY <1>1, <1>4, TreeFacts DEF IsVlen, Pieces
  <2>3. PieceOf(o, k, m) \in Rng(Pieces(o)) /\ PieceOf(o, k, m).kind = k /\ PieceOf(o, k, m).count = m
    <3>1. PieceOf(o, "vlen refs", Len(tree.data[o].elements)) \in Rng(DatasetPieces(o))
      BY <1>1, <2>2, RngDatasetPieces
    <3> QED
      BY <2>2, <3>1 DEF PieceOf
  <2>4. \A p \in Rng(Pieces(o)) : p.kind = k => p = PieceOf(o, k, m)
    <3>1. PieceOf(o, "header", Len(tree.refs[o])).kind = "header"
      BY DEF PieceOf
    <3>2. \A p \in Rng(DatasetPieces(o)) : \/ p = PieceOf(o, "header", Len(tree.refs[o]))
                                           \/ p = PieceOf(o, "vlen refs", Len(tree.data[o].elements))
                                           \/ p.kind \in {"data", "chunk index"}
      BY <1>1, <2>2, RngDatasetPieces
    <3> QED
      BY <2>2, <3>1, <3>2
  <2>5. Size(k, m) > 0
    BY <2>1, EntriesTakeRoom
  <2> HIDE DEF m
  <2>6. \E p \in Rng(Pieces(o)) : p.kind = k
    BY <2>3
  <2>7. \A p \in Rng(Pieces(o)) : p.kind = k => Size(p.kind, p.count) > 0
    BY <2>3, <2>4, <2>5
  <2> HIDE DEF k, ref, n
  <2>20. o \in Owned
    BY <1>1
  <2>21. \E p \in Rng(Pieces(o)) : /\ p.kind = k /\ p.of = o
                                   /\ PlacedAs(o, k).addr \in DOMAIN image
                                   /\ image[PlacedAs(o, k).addr] = Content(p)
    BY <2>20, <2>6, <2>7, InImage
  <2>8. PICK p \in Rng(Pieces(o)) : p.kind = k /\ p.of = o /\ image[PlacedAs(o, k).addr] = Content(p)
    BY <2>21
  <2>9. Content(p).entries = [j \in 1..Len(ordinals[o]) |-> HeapRef(ordinals[o][j])]
    BY <2>8 DEF Content, k
  <2>10. ref = HeapRef(n)
    <3>1. i \in 1..Len(ordinals[o])
      BY <2>1 DEF m
    <3> QED
      BY <2>8, <2>9, <3>1 DEF ref, n
  <2>11. IF tree.data[o].elements[i] THEN ref # Null /\ InHeap(ref) = <<o, i>> ELSE ref = Null
    <3>1. CASE tree.data[o].elements[i]
      <4>1. n \in 1..Len(heap) /\ heap[n] = <<o, i>>
        BY <2>1, <3>1
      <4> QED
        BY <2>10, <3>1, <4>1, RefLeads
    <3>2. CASE ~tree.data[o].elements[i]
      BY <1>2, <2>1, <2>10, <3>2
    <3> QED
      BY <3>1, <3>2
  <2> QED
    BY <2>11 DEF ref, k
<1> QED
  BY <1>3, <1>4

(***************************************************************************)
(* What the whole build maintains (build.rs): every object of the tree is  *)
(* planned once and its structures are placed; what a pass has visited is  *)
(* resolved, counted, registered and located; what was emitted says what   *)
(* its structure is for, at its address; and a failure had its reason.     *)
(***************************************************************************)
THEOREM BuildInvariant == LayoutSpec => []BuildInv
<1>1. LayoutInit => BuildInv
  BY BuildInit
<1>2. BuildInv /\ [LayoutNext]_layoutVars => BuildInv'
  BY BuildKeeps
<1> QED
  BY <1>1, <1>2, PTL DEF LayoutSpec

(***************************************************************************)
(* build_file (build.rs) fails for a tree that cannot be written, and for  *)
(* no other: none of the checks made on the way, on what was planned or on *)
(* what was emitted, ever refuses a tree that can.                         *)
(***************************************************************************)
THEOREM BuildFailsIffUnbuildable == LayoutSpec => []FailsIffUnbuildable
  BY FailureIsTrue, BuildInvariant, PTL

(***************************************************************************)
(* The links of the image (build.rs, plan.rs): every hard one, in a header,*)
(* a symbol table or a link heap, is the address of the header of the      *)
(* object it is for, and every header counts the links that reach it.      *)
(***************************************************************************)
THEOREM ImageLinksAreTrue == LayoutSpec => []LinksAreTrue
<1>1. BuildInv => LinksAreTrue
  BY LinksReach, RefcountsCount DEF LinksAreTrue
<1> QED
  BY <1>1, BuildInvariant, PTL

(***************************************************************************)
(* The heap references of the image (build.rs, global_heap.rs): each leads *)
(* through a collection's address and an index to the value it was made    *)
(* for, a list of header addresses or a string, and what is empty has none.*)
(***************************************************************************)
THEOREM ImageHeapRefsResolve == LayoutSpec => []HeapRefsResolve
  BY RefsResolve, BuildInvariant, PTL

===============================================================================
