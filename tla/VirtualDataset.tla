---------------------------- MODULE VirtualDataset ----------------------------
(***************************************************************************)
(* Datasets put together from other datasets, of the same file or of others *)
(* (read_virtual_dataset and resolve_external_link in oxih5's links.rs,    *)
(* vds.rs of oxih5-format).  Each mapping of a virtual dataset is scattered *)
(* into its elements, in the order of the mappings; the source of a mapping *)
(* is read as any dataset is, so it may be virtual itself, or an external  *)
(* link.  The stack of reads is explicit here.                             *)
(*                                                                         *)
(* A path is the sequence of its components; names are numbers, that Fields *)
(* can hold.  What a name means within one file is the subject of          *)
(* LinkResolution; here it is one of the file's objects.                   *)
(***************************************************************************)
EXTENDS ChunkGeometry, Fields

CONSTANTS
    Disk,    \* for each absolute path of a file, its objects
    Query,   \* the path a file is opened by, and the dataset read
    Cwd,     \* the working directory of the process
    Zero     \* an element nothing was mapped to

VARIABLES
    disk, query,
    frames,  \* the reads under way, innermost last
    loaded,  \* the source that was read last, if it is not scattered yet
    answer

vars == <<disk, query, frames, loaded, answer>>

Slash == 47
Dot == 46
Same == {<<>>, <<Dot>>}    \* "." or empty: this same file

Larger(m, n) == IF m >= n THEN m ELSE n

-----------------------------------------------------------------------------
(* The mapping block as libhdf5 writes it, for the mappings of a virtual       *)
(* dataset.  A selection is none, all, points, or a hyperslab: a list of       *)
(* blocks, a regular one, or an irregular one.                                 *)

Text(path) == Vector(1, path \o <<0>>)

SelectionBody(sel) ==
    CASE sel.kind = "none" -> Vector(4, <<0, 1, 0, 0>>)
      [] sel.kind = "all" -> Vector(4, <<3, 1, 0, 0>>)
      [] sel.kind = "points" -> Vector(4, <<1, 1, 0, 12, 1, 1, 0>>)
      [] sel.kind = "blocks" ->
            Vector(4, <<2, 1, 0, 24, sel.rank, Len(sel.blocks)>>)
                \o Joined([i \in DOMAIN sel.blocks |-> Vector(4, sel.blocks[i].start \o sel.blocks[i].end)])
      [] sel.kind = "regular" ->
            Vector(4, <<2, 3>>) \o <<F(1, 1), F(1, sel.width), F(4, Len(sel.dims))>>
                \o Joined([d \in DOMAIN sel.dims |->
                       Vector(sel.width, <<sel.dims[d].start, sel.dims[d].stride, sel.dims[d].count, sel.dims[d].block>>)])
      [] OTHER -> Vector(4, <<2, 3>>) \o <<F(1, 0), F(1, 8), F(4, 1), F(8, 1)>>

FileBody(version, mappings, n) ==
    LET earlier == {k \in 1..(n - 1) : mappings[k].file = mappings[n].file}
    IN  IF version = 0 THEN Text(mappings[n].file)
        ELSE IF earlier = {} THEN <<F(1, 0)>> \o Text(mappings[n].file)
        ELSE <<F(1, 1), F(8, Min(earlier) - 1)>>

\* All but the last `cut` bytes, of which four are a checksum.
MappingBlock(object) ==
    LET body == <<F(1, object.version), F(8, Len(object.mappings))>>
                \o Joined([n \in DOMAIN object.mappings |->
                       FileBody(object.version, object.mappings, n) \o Text(object.mappings[n].name)
                           \o SelectionBody(object.mappings[n].from) \o SelectionBody(object.mappings[n].to)])
                \o <<F(4, Garbage)>>
    IN  Slice(body, 0, Size(body) - object.cut)

-----------------------------------------------------------------------------
(* Parsing the block *)

Refused == [ok |-> FALSE]
Parsed(val, at) == [ok |-> TRUE, val |-> val, at |-> at]
When(condition, outcome) == IF condition THEN outcome ELSE Refused
Then(outcome, Use(_)) == IF outcome.ok THEN Use(outcome) ELSE Refused
Hyperslab(dims) == [kind |-> "hyperslab", dims |-> dims]

cstr(block, at) ==
    LET text == From(block, at)
    IN  IF HasNul(text)
        THEN Parsed([i \in 1..(Nul(text) - 1) |-> text[i].v], at + Size(UntilNul(text)) + 1)
        ELSE Refused

\* Mutant: the blocks are taken to come in order.
FirstStart(starts, first) == first

\* Where the first of the blocks is.
LeastStart(starts, first) == Min(starts)

\* Blocks of one size, evenly spaced along one dimension.
fold_regular_blocks(blocks, rank) ==
    LET first == blocks[1]
        Extent(b, d) == Larger(b.end[d] - b.start[d], 0) + 1
        varying == {d \in 1..rank : \E b \in Range(blocks) : b.start[d] # first.start[d]}
        vd == CHOOSE d \in varying : TRUE
        starts == {b.start[vd] : b \in Range(blocks)}
        stride == Min(starts \ {Min(starts)}) - Min(starts)
    IN  When(/\ \A b \in Range(blocks), d \in 1..rank : Extent(b, d) = Extent(first, d)
             /\ Cardinality(varying) = 1
             /\ Cardinality(starts) = Len(blocks)
             /\ \A s \in starts \ {Max(starts)} : Min({t \in starts : t > s}) = s + stride,
             [ok |-> TRUE,
              val |-> Hyperslab([d \in 1..rank |->
                  IF d = vd THEN [start |-> LeastStart(starts, first.start[d]), stride |-> stride,
                                  count |-> Len(blocks), block |-> Extent(first, d)]
                  ELSE [start |-> first.start[d], stride |-> 1, count |-> 1, block |-> Extent(first, d)]])])

BlocksAsOne(blocks, rank) ==
    IF Len(blocks) = 1
    THEN [ok |-> TRUE,
          val |-> Hyperslab([d \in 1..rank |->
                     [start |-> blocks[1].start[d], stride |-> 1,
                      count |-> Larger(blocks[1].end[d] - blocks[1].start[d], 0) + 1, block |-> 1]])]
    ELSE fold_regular_blocks(blocks, rank)

parse_hyperslab_v1_blocks(block, at, rank, num_blocks) ==
    CASE rank \notin 1..32 -> Refused
      [] rank \in 1..32 /\ num_blocks = 0 -> Parsed([kind |-> "none"], at)
      [] OTHER ->
            When(Fits(block, at, num_blocks * rank * 8),
                 Then(BlocksAsOne([n \in 1..num_blocks |->
                          [start |-> ReadVector(block, at + (n - 1) * rank * 8, 4, rank),
                           end |-> ReadVector(block, at + (n - 1) * rank * 8 + rank * 4, 4, rank)]], rank),
                      LAMBDA folded : Parsed(folded.val, at + num_blocks * rank * 8)))

HyperslabOf(values, rank) ==
    Hyperslab([d \in 1..rank |->
        [start |-> values[4 * d - 3], stride |-> Larger(values[4 * d - 2], 1),
         count |-> values[4 * d - 1], block |-> values[4 * d]]])

\* At `at`: the flags, the width of a value, the rank; then the values.
parse_hyperslab_v3(block, at, width, rank) ==
    When(/\ width \in {1, 2, 4, 8} /\ rank \in 1..32
         /\ Bit(Read(block, at, 1), 0)
         /\ Fits(block, at + 6, 4 * rank * width),
         Parsed(HyperslabOf(ReadVector(block, at + 6, width, 4 * rank), rank), at + 6 + 4 * rank * width))

SelectionOf(block, at, type, version) ==
    CASE Fits(block, at, 16) /\ type = 0 -> Parsed([kind |-> "none"], at + 16)
      [] Fits(block, at, 16) /\ type = 3 -> Parsed([kind |-> "all"], at + 16)
      [] Fits(block, at, 24) /\ type = 2 /\ version = 1 ->
            parse_hyperslab_v1_blocks(block, at + 24, Read(block, at + 16, 4), Read(block, at + 20, 4))
      [] Fits(block, at, 14) /\ type = 2 /\ version = 3 ->
            parse_hyperslab_v3(block, at + 8, Read(block, at + 9, 1), Read(block, at + 10, 4))
      [] OTHER -> Refused
parse_selection(block, at) == SelectionOf(block, at, Read(block, at, 4), Read(block, at + 4, 4))

source_file(block, version, at, entries) ==
    LET flag == Read(block, at, 1)
        idx == Read(block, at + 1, 8)
    IN  IF version = 0 THEN cstr(block, at)
        ELSE IF ~Fits(block, at, 1) THEN Refused
        ELSE IF flag = 0 THEN cstr(block, at + 1)
        ELSE When(flag = 1 /\ Fits(block, at + 1, 8) /\ idx < Len(entries),
                  Parsed(entries[idx + 1].file, at + 9))

parse_entry(block, version, at, entries) ==
    Then(source_file(block, version, at, entries), LAMBDA file :
        Then(cstr(block, file.at), LAMBDA name :
            Then(parse_selection(block, name.at), LAMBDA from :
                Then(parse_selection(block, from.at), LAMBDA to :
                    Parsed([file |-> file.val, name |-> name.val, from |-> from.val, to |-> to.val], to.at)))))

RECURSIVE ParseEntries(_, _, _, _, _)
ParseEntries(block, version, at, left, entries) ==
    IF left = 0 THEN Parsed(entries, at)
    ELSE Then(parse_entry(block, version, at, entries), LAMBDA entry :
             ParseEntries(block, version, entry.at, left - 1, Append(entries, entry.val)))

parse_vds_block(block) ==
    LET version == Read(block, 0, 1)
        num_entries == Read(block, 1, 8)
    IN  IF Fits(block, 0, 9) /\ version <= 1 /\ num_entries <= Size(block)
        THEN ParseEntries(block, version, 9, num_entries, <<>>)
        ELSE Refused

-----------------------------------------------------------------------------
(* The elements a selection gives of a dataspace, in row-major order *)

Coordinate(s, n) == s.start + (n \div s.block) * s.stride + (n % s.block)

selection_element_offsets(sel, shape) ==
    LET lengths == [d \in DOMAIN shape |-> sel.dims[d].count * sel.dims[d].block]
    IN  CASE sel.kind = "none" -> [ok |-> TRUE, val |-> <<>>]
          [] sel.kind = "all" -> [ok |-> TRUE, val |-> [i \in 1..Volume(shape) |-> i - 1]]
          [] OTHER ->
                When(/\ Len(sel.dims) = Len(shape)
                     /\ \A d \in DOMAIN shape : \A n \in 0..(lengths[d] - 1) :
                            Coordinate(sel.dims[d], n) < shape[d],
                     [ok |-> TRUE,
                      val |-> [i \in 1..Volume(lengths) |->
                          Flatten([d \in DOMAIN shape |->
                                      Coordinate(sel.dims[d], Unflatten(i - 1, lengths)[d])], shape)]])

-----------------------------------------------------------------------------
(* Reading *)

Pending == [ok |-> FALSE, pending |-> TRUE]
Failed == [ok |-> FALSE, pending |-> FALSE]
Answer(ds) == [ok |-> TRUE, pending |-> FALSE, dims |-> ds.dims, data |-> ds.data]

\* What the operating system makes of a path.
Place(path) == IF path # <<>> /\ Head(path) = Slash THEN path ELSE Cwd \o path

\* Mutant: a relative path is taken from the working directory.
FromCwd(path, source_dir) == path

resolve_external_path(path, source_dir) ==
    IF path # <<>> /\ Head(path) = Slash THEN path ELSE source_dir \o path

Reading(source_dir, file, name) ==
    [source_dir |-> source_dir, file |-> file, name |-> name, begun |-> FALSE, rest |-> <<>>, out |-> <<>>]
Opened(path, name) == Reading(Front(path), Place(path), name)

Init ==
    /\ disk \in Disk
    /\ query \in {q \in Query : Place(q.path) \in DOMAIN disk}
    /\ frames = <<Opened(query.path, query.name)>>
    /\ loaded = <<>>
    /\ answer = Pending

Top == Last(frames)
Object == disk[Top.file][Top.name]
LooksFor(kind) ==
    /\ answer = Pending /\ ~Top.begun /\ loaded = <<>>
    /\ Top.name \in DOMAIN disk[Top.file] /\ Object.kind = kind
Scatters == answer = Pending /\ Top.begun

\* Every error of a source is an error of the whole read.
Fail == answer' = Failed /\ frames' = <<>> /\ loaded' = <<>>

Return(ds) ==
    IF Len(frames) = 1
    THEN answer' = Answer(ds) /\ frames' = <<>> /\ loaded' = <<>>
    ELSE frames' = Front(frames) /\ loaded' = <<ds>> /\ UNCHANGED answer

NoSuchDataset ==
    /\ answer = Pending /\ ~Top.begun /\ loaded = <<>>
    /\ Top.name \notin DOMAIN disk[Top.file]
    /\ Fail
    /\ UNCHANGED <<disk, query>>

ReadStored ==
    /\ LooksFor("stored")
    /\ Return([dims |-> Object.dims, size |-> Object.size, data |-> Object.data])
    /\ UNCHANGED <<disk, query>>

\* resolve_external_link
FollowExternal ==
    /\ LooksFor("external")
    /\ LET path == resolve_external_path(Object.file, Top.source_dir)
       IN  IF Place(path) \in DOMAIN disk
           THEN /\ frames' = [frames EXCEPT ![Len(frames)] = Opened(path, Object.name)]
                /\ UNCHANGED <<loaded, answer>>
           ELSE Fail
    /\ UNCHANGED <<disk, query>>

\* read_virtual_dataset, up to its first mapping.
BeginVirtual ==
    /\ LooksFor("virtual")
    /\ LET mapping == parse_vds_block(MappingBlock(Object))
       IN  IF ~Object.vlen /\ mapping.ok
           THEN /\ frames' = [frames EXCEPT ![Len(frames)].begun = TRUE,
                                            ![Len(frames)].rest = mapping.val,
                                            ![Len(frames)].out = [i \in 1..Volume(Object.dims) |-> Zero]]
                /\ UNCHANGED <<loaded, answer>>
           ELSE Fail
    /\ UNCHANGED <<disk, query>>

\* This same file is opened again, from its bytes: it has no directory then but ".".
OpenSource ==
    /\ Scatters /\ loaded = <<>> /\ Top.rest # <<>>
    /\ LET entry == Head(Top.rest)
           path == resolve_external_path(entry.file, Top.source_dir)
       IN  IF entry.file \in Same
           THEN /\ frames' = Append(frames, Reading(<<>>, Top.file, entry.name))
                /\ UNCHANGED <<loaded, answer>>
           ELSE IF Place(path) \in DOMAIN disk
           THEN /\ frames' = Append(frames, Opened(path, entry.name))
                /\ UNCHANGED <<loaded, answer>>
           ELSE Fail
    /\ UNCHANGED <<disk, query>>

\* The elements of a source that go to the places of a virtual dataset.
Scattered(out, data, from, to) ==
    [i \in DOMAIN out |->
        LET hits == {n \in DOMAIN to : to[n] = i - 1}
        IN  IF hits = {} THEN out[i] ELSE data[from[Max(hits)] + 1]]

ScatterSource ==
    /\ Scatters /\ loaded # <<>>
    /\ LET source == loaded[1]
           entry == Head(Top.rest)
           from == selection_element_offsets(entry.from, source.dims)
           to == selection_element_offsets(entry.to, Object.dims)
       IN  IF /\ source.size = Object.size /\ from.ok /\ to.ok
              /\ Len(from.val) = Len(to.val)
              /\ \A n \in DOMAIN from.val : from.val[n] < Len(source.data)
           THEN /\ frames' = [frames EXCEPT ![Len(frames)].rest = Tail(@),
                                 ![Len(frames)].out = Scattered(@, source.data, from.val, to.val)]
                /\ loaded' = <<>>
                /\ UNCHANGED answer
           ELSE Fail
    /\ UNCHANGED <<disk, query>>

ReturnVirtual ==
    /\ Scatters /\ loaded = <<>> /\ Top.rest = <<>>
    /\ Return([dims |-> Object.dims, size |-> Object.size, data |-> Top.out])
    /\ UNCHANGED <<disk, query>>

Next ==
    \/ NoSuchDataset \/ ReadStored \/ FollowExternal
    \/ BeginVirtual \/ OpenSource \/ ScatterSource \/ ReturnVirtual

Spec == Init /\ [][Next]_vars

-----------------------------------------------------------------------------
(* What virtual datasets mean *)

\* The coordinates a selection selects.
Box(shape) == {Unflatten(i - 1, shape) : i \in 1..Volume(shape)}
Chosen(sel, shape) ==
    CASE sel.kind = "all" -> Box(shape)
      [] sel.kind = "none" -> {}
      [] sel.kind = "blocks" ->
            UNION {{[d \in DOMAIN b.start |-> b.start[d] + g[d]] :
                       g \in Box([d \in DOMAIN b.start |-> b.end[d] - b.start[d] + 1])} : b \in Range(sel.blocks)}
      [] sel.kind = "regular" ->
            {[d \in DOMAIN sel.dims |-> sel.dims[d].start + k[d] * sel.dims[d].stride + j[d]] :
                k \in Box([d \in DOMAIN sel.dims |-> sel.dims[d].count]),
                j \in Box([d \in DOMAIN sel.dims |-> sel.dims[d].block])}

InOrder(sel, shape) ==
    LET places == {Flatten(g, shape) : g \in Chosen(sel, shape)}
    IN  [k \in 1..Cardinality(places) |->
            CHOOSE i \in places : Cardinality({j \in places : j < i}) = k - 1]

\* A selection of this dataspace, of a kind that the reader documents: points, irregular
\* hyperslabs and blocks that are not evenly spaced along one dimension are not
\* (vds.rs:340).
Even(b, c, d, n) == c.start = [b.start EXCEPT ![d] = @ + n] /\ c.end = [b.end EXCEPT ![d] = @ + n]
EvenlySpaced(blocks) ==
    \E b \in Range(blocks), d \in DOMAIN blocks[1].start, stride \in 1..Max(Range(blocks[1].end) \cup {8}) :
        \A n \in 0..(Len(blocks) - 1) : \E c \in Range(blocks) : Even(b, c, d, n * stride)
Selects(sel, shape) ==
    /\ sel.kind \in {"all", "none", "blocks", "regular"}
    /\ sel.kind = "blocks" => sel.rank = Len(shape) /\ (sel.blocks = <<>> \/ EvenlySpaced(sel.blocks))
    /\ sel.kind = "regular" => Len(sel.dims) = Len(shape) /\ sel.width \in {1, 2, 4, 8}
    /\ Chosen(sel, shape) \subseteq Box(shape)

\* Where a path stands in a file means: beside that file.
Beside(file, path) ==
    IF path \in Same THEN file ELSE IF Head(path) = Slash THEN path ELSE Front(file) \o path

Nothing == [ok |-> FALSE]

\* The elements of a source and the places they go to, pair by pair.
PairedOff(from, to, data) ==
    IF Len(from) = Len(to) /\ \A i \in Range(from) : i < Len(data)
    THEN [ok |-> TRUE, at |-> [i \in Range(to) |-> data[from[CHOOSE k \in DOMAIN to : to[k] = i] + 1]]]
    ELSE Nothing
Moves(mapping, source, object) ==
    IF /\ source.ok /\ source.size = object.size
       /\ Selects(mapping.from, source.dims) /\ Selects(mapping.to, object.dims)
    THEN PairedOff(InOrder(mapping.from, source.dims), InOrder(mapping.to, object.dims), source.data)
    ELSE Nothing

\* The last mapping of a place is the one that counts.
Overlaid(moves, object) ==
    LET Covering(i) == {n \in DOMAIN moves : i - 1 \in DOMAIN moves[n].at}
    IN  IF \E n \in DOMAIN moves : ~moves[n].ok THEN Nothing
        ELSE [ok |-> TRUE, dims |-> object.dims, size |-> object.size,
              data |-> [i \in 1..Volume(object.dims) |->
                  IF Covering(i) = {} THEN Zero ELSE moves[Max(Covering(i))].at[i - 1]]]

\* A dataset as the files mean it; nothing where they do not.
RECURSIVE DatasetMeant(_, _)
DatasetMeant(file, name) ==
    LET object == disk[file][name]
    IN  IF file \notin DOMAIN disk THEN Nothing
        ELSE IF name \notin DOMAIN disk[file] THEN Nothing
        ELSE CASE object.kind = "external" -> DatasetMeant(Beside(file, object.file), object.name)
               [] object.kind = "stored" ->
                     [ok |-> TRUE, dims |-> object.dims, size |-> object.size, data |-> object.data]
               [] OTHER ->
                     IF object.vlen \/ object.version > 1 \/ object.cut > 4 THEN Nothing
                     ELSE Overlaid([n \in DOMAIN object.mappings |->
                                       Moves(object.mappings[n],
                                             DatasetMeant(Beside(file, object.mappings[n].file),
                                                          object.mappings[n].name), object)], object)

Agrees(meant) ==
    /\ answer.ok <=> meant.ok
    /\ answer.ok => answer.dims = meant.dims /\ answer.data = meant.data

\* A virtual dataset reads as the elements that its mappings mean, the last of them
\* where they overlap, through any chain of virtual datasets and external links, each
\* path taken from the file it stands in: "relative to `source_dir`", "the directory of
\* the file that contains the link" (links.rs:399, links.rs:328).  It fails to read
\* exactly if a mapping has no meaning.
VirtualReadsBack ==
    answer # Pending =>
        Agrees(DatasetMeant(Place(query.path), query.name))
=============================================================================
