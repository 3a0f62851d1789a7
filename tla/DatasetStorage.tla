---------------------------- MODULE DatasetStorage ----------------------------
(***************************************************************************)
(* How one dataset of a FileWriter is stored: the descriptor a creator     *)
(* leaves in the tree (DatasetDesc, write/tree.rs), the calls that change  *)
(* it before the file is built (api_filters.rs, api_attrs.rs, and the fill *)
(* value and compact layout of api_datasets.rs), and what a build makes of *)
(* it: its object header messages (dataset_oh_msgs, write/oh.rs) and its   *)
(* data area (build, write/payload.rs).                                    *)
(*                                                                         *)
(* Sizes are counted in elements, and an element's value is abstracted to  *)
(* "data" (the caller's), "zero" or "fill" (the custom fill value).        *)
(***************************************************************************)
EXTENDS ChunkGeometry

CONSTANTS
    Shape,        \* dataset shapes a creator may be given
    ChunkRequest, \* chunk shapes a caller may ask for: short, zero, too large ones too
    AttrName,     \* attribute names callers use, none of them a sentinel's
    CompactCap,   \* most elements the 64 KiB of a compact layout message hold
    ElemBytes,    \* bytes of an element of each sort
    Deflated(_),  \* bytes DEFLATE makes of a tile, more or fewer than it had
    MAX_RANK,     \* 255, the most a one-byte field of a header says
    MAX_FIELD,    \* 2^32 - 1, of the four-byte fields of a layout and of a chunk's key
    MAX_TILES     \* 2^24: MAX_CHUNKS, as chunk_count applies it

FillValueName == "fill value sentinel"
CompactName == "compact layout sentinel"

ElemSort == {"numeric", "structured", "vlen_strings", "vlen_seqs"}
FilterId == {"shuffle", "deflate", "fletcher32"}

\* The sentinels' names begin with a character that no caller's does.
ASSUME StorageAssumption ==
    /\ Shape \subseteq Seq(Nat) /\ ChunkRequest \subseteq Seq(Nat)
    /\ {FillValueName, CompactName} \cap AttrName = {}
    /\ CompactCap \in Nat
    /\ ElemBytes \in [ElemSort -> Nat \ {0}]
    /\ {MAX_RANK, MAX_FIELD, MAX_TILES} \subseteq Nat

VARIABLES
    ds,       \* the DatasetDesc; Undeclared before the dataset is created
    outcome   \* what the last call returned

storageVars == <<ds, outcome>>

-----------------------------------------------------------------------------
(* The descriptor *)

Contiguous == [chunked |-> FALSE, chunk_shape |-> <<>>, unlimited_dim0 |-> FALSE]
Chunked(request, unlimited) ==
    [chunked |-> TRUE, chunk_shape |-> request, unlimited_dim0 |-> unlimited]

Data(shape) == [n \in 1..Volume(shape) |-> "data"]

Undeclared == [elem |-> "none", shape |-> <<>>, raw |-> <<>>, attrs |-> <<>>,
               storage |-> Contiguous, filter |-> {}]

IsVlen(elem) == elem \in {"vlen_strings", "vlen_seqs"}

Declared == ds.elem # "none"

\* Attributes and sentinels share one list; `data` is the compact layout's own copy.
Attr(name, kind, data) == [name |-> name, kind |-> kind, data |-> data]

\* What a list has of a kind; the first of it; and what is left without it.
Has(attrs, kind) == \E i \in DOMAIN attrs : attrs[i].kind = kind
FirstOfKind(attrs, kind) == attrs[SelectInSeq(attrs, LAMBDA a : a.kind = kind)]
Without(attrs, kind) ==
    LET kept[n \in 0..Len(attrs)] ==
            IF n = 0 THEN <<>>
            ELSE IF attrs[n].kind = kind THEN kept[n - 1] ELSE Append(kept[n - 1], attrs[n])
    IN  kept[Len(attrs)]

HasFillValue == Has(ds.attrs, "FillValue")
IsCompact == Has(ds.attrs, "CompactLayout")
CompactData == FirstOfKind(ds.attrs, "CompactLayout").data

StorageInit == ds = Undeclared /\ outcome = "ok"

Succeed == outcome' = "ok"
Refuse == outcome' = "Format" /\ UNCHANGED ds

-----------------------------------------------------------------------------
(* Creators *)

\* write_dataset_*, the string, boolean and structured creators: contiguous.
CreateContiguous(elem, shape) ==
    /\ ~Declared
    /\ IsVlen(elem) => Len(shape) = 1
    /\ ds' = [Undeclared EXCEPT !.elem = elem, !.shape = shape,
                                !.raw = IF IsVlen(elem) THEN <<>> ELSE Data(shape)]
    /\ Succeed

\* create_dataset_unlimited keeps the chunk shape as given: it is judged at build.
CreateUnlimited(shape, request) ==
    /\ ~Declared
    /\ ds' = [Undeclared EXCEPT !.elem = "numeric", !.shape = shape,
                                !.raw = Data(shape),
                                !.storage = Chunked(request, TRUE)]
    /\ Succeed

-----------------------------------------------------------------------------
(* Filters and tiling *)

\* Mutant: scalars are let through.
EnsureFilterableScalarsToo == ~IsVlen(ds.elem)

EnsureFilterable == ~IsVlen(ds.elem) /\ ds.shape # <<>>

EnsureChunked(storage) == IF storage.chunked THEN storage ELSE Chunked(<<>>, FALSE)

\* set_deflate, set_shuffle, set_fletcher32.
SetFilter(id) ==
    /\ Declared
    /\ \/ /\ EnsureFilterable
          /\ ds' = [ds EXCEPT !.storage = EnsureChunked(@), !.filter = @ \cup {id}]
          /\ Succeed
       \/ ~EnsureFilterable /\ Refuse

\* set_deflate with a level above 9, refused before the dataset is looked up.
SetDeflateOverLevel == Declared /\ Refuse

\* Mutant: the old tiling is not restored.
SetChunkingNoRestore(request) ==
    /\ Declared
    /\ LET tiled == [ds EXCEPT !.storage = Chunked(request, FALSE)]
       IN  \/ ~EnsureFilterable /\ Refuse
           \/ /\ EnsureFilterable
              /\ ds' = tiled
              /\ outcome' = IF ChunkShapeOk(tiled.shape, request, FALSE)
                            THEN "ok" ELSE "Format"

\* set_chunking commits the new tiling, judges it, and restores the old one.
SetChunking(request) ==
    /\ Declared
    /\ LET previous == ds.storage
           tiled == [ds EXCEPT !.storage = Chunked(request, FALSE)]
       IN  \/ ~EnsureFilterable /\ Refuse
           \/ /\ EnsureFilterable
              /\ ChunkShapeOk(tiled.shape, request, FALSE)
              /\ ds' = tiled
              /\ Succeed
           \/ /\ EnsureFilterable
              /\ ~ChunkShapeOk(tiled.shape, request, FALSE)
              /\ ds' = [tiled EXCEPT !.storage = previous]
              /\ outcome' = "Format"

-----------------------------------------------------------------------------
(* Fill value, compact layout, attributes *)

\* set_fill_value_*: `matches` says the value has the dataset's element type.
SetFillValue(matches) ==
    /\ Declared
    /\ \/ /\ ds.elem = "numeric" /\ matches
          /\ ds' = [ds EXCEPT !.attrs =
                       Append(Without(@, "FillValue"),
                              Attr(FillValueName, "FillValue", <<>>))]
          /\ Succeed
       \/ ~(ds.elem = "numeric" /\ matches) /\ Refuse

\* Mutant: a repeated call replaces the sentinel.
SetCompactReplacing ==
    /\ Declared
    /\ ~ds.storage.chunked /\ ~IsVlen(ds.elem) /\ Len(ds.raw) <= CompactCap
    /\ ds' = [ds EXCEPT !.raw = <<>>,
                        !.attrs = Append(Without(@, "CompactLayout"),
                                         Attr(CompactName, "CompactLayout", ds.raw))]
    /\ Succeed

\* set_compact moves the data out of `raw` into the sentinel it leaves behind.
SetCompact ==
    /\ Declared
    /\ \/ IsCompact /\ Succeed /\ UNCHANGED ds
       \/ /\ ~IsCompact
          /\ ~ds.storage.chunked /\ ~IsVlen(ds.elem) /\ Len(ds.raw) <= CompactCap
          /\ ds' = [ds EXCEPT !.raw = <<>>,
                              !.attrs = Append(@, Attr(CompactName, "CompactLayout", ds.raw))]
          /\ Succeed
       \/ /\ ~IsCompact
          /\ ds.storage.chunked \/ IsVlen(ds.elem) \/ Len(ds.raw) > CompactCap
          /\ Refuse

\* attach_attr, the way in of every write_*_attr: a name that is there is overwritten.
AttachAttr(name) ==
    /\ Declared
    /\ IF \E i \in DOMAIN ds.attrs : ds.attrs[i].name = name
       THEN ds' = [ds EXCEPT !.attrs = [i \in DOMAIN @ |->
                       IF i = SelectInSeq(@, LAMBDA a : a.name = name)
                       THEN [@[i] EXCEPT !.kind = "Value"] ELSE @[i]]]
       ELSE ds' = [ds EXCEPT !.attrs = Append(@, Attr(name, "Value", <<>>))]
    /\ Succeed

-----------------------------------------------------------------------------

StorageNext ==
    \/ \E elem \in ElemSort, shape \in Shape : CreateContiguous(elem, shape)
    \/ \E shape \in Shape, request \in ChunkRequest : CreateUnlimited(shape, request)
    \/ \E id \in FilterId : SetFilter(id)
    \/ SetDeflateOverLevel
    \/ \E request \in ChunkRequest : SetChunking(request)
    \/ \E matches \in BOOLEAN : SetFillValue(matches)
    \/ SetCompact
    \/ \E name \in AttrName : AttachAttr(name)

StorageSpec == StorageInit /\ [][StorageNext]_storageVars

-----------------------------------------------------------------------------
(* What a build makes of the descriptor *)

ChunkShape == CompletedShape(ds.shape, ds.storage.chunk_shape)

\* The messages of the header that depend on how the dataset is stored.
LayoutMessage == IF IsCompact THEN "compact"
                 ELSE IF ds.storage.chunked THEN "chunked" ELSE "contiguous"
FillValueMessage == IF HasFillValue THEN "fill" ELSE "zero"
HasPipelineMessage == ds.filter # {}
AttrMessages == SelectSeq(ds.attrs, LAMBDA a : a.kind = "Value")

\* Mutant: any single chunk is taken for the dataset itself.
DataAreaOneChunkVerbatim ==
    IF IsVlen(ds.elem) THEN <<Data(ds.shape)>>
    ELSE IF ~ds.storage.chunked THEN <<ds.raw>>
    ELSE LET origins == ChunkOrigins(ds.shape, ChunkShape)
         IN  [n \in DOMAIN origins |->
                 IF Len(origins) = 1 THEN ds.raw
                 ELSE CutTile(ds.raw, ds.shape, ChunkShape, origins[n], "zero")]

\* payload::build: the data area, as the tiles a filter pipeline is applied to.
\* A single chunk that is exactly the dataset is the caller's bytes, verbatim.
DataArea ==
    IF IsVlen(ds.elem) THEN <<Data(ds.shape)>>
    ELSE IF ~ds.storage.chunked THEN <<ds.raw>>
    ELSE LET origins == ChunkOrigins(ds.shape, ChunkShape)
             verbatim == Len(origins) = 1 /\ ChunkShape = ds.shape
         IN  [n \in DOMAIN origins |->
                 IF verbatim THEN ds.raw
                 ELSE CutTile(ds.raw, ds.shape, ChunkShape, origins[n], "zero")]

-----------------------------------------------------------------------------
(* What a build refuses of how a dataset is stored: plan_dataset from the geometry     *)
(* and build_bytes from the bytes.  Attributes and names have limits of their own.     *)

\* apply_write_pipeline: what a chunk takes in the file.  Shuffling keeps the length,
\* and a checksum adds four bytes.
ImageBytes(tile) ==
    LET raw == Len(tile) * ElemBytes[ds.elem]
        packed == IF "deflate" \in ds.filter THEN Deflated(tile) ELSE raw
    IN  IF "fletcher32" \in ds.filter THEN packed + 4 ELSE packed

\* The dataspace's rank, and that of a chunked layout, one more for the element's size.
RankFits ==
    /\ Len(ds.shape) <= MAX_RANK
    /\ LayoutMessage = "chunked" => Len(ds.shape) < MAX_RANK

\* layout_chunk_dims
ExtentsFit ==
    /\ \A d \in DOMAIN ds.shape : ChunkShape[d] <= MAX_FIELD
    /\ ElemBytes[ds.elem] <= MAX_FIELD

\* Mutant: the limit itself is refused.
CountStaysBelow == ChunkCount(ds.shape, ChunkShape) < MAX_TILES

\* chunk_count
CountFits == ChunkCount(ds.shape, ChunkShape) <= MAX_TILES

\* The key of a chunk says how many bytes it has.
ImagesFit == \A n \in DOMAIN DataArea : ImageBytes(DataArea[n]) <= MAX_FIELD

BuildAccepts ==
    /\ RankFits
    /\ ds.storage.chunked =>
           /\ ChunkShapeOk(ds.shape, ds.storage.chunk_shape, ds.storage.unlimited_dim0)
           /\ ExtentsFit /\ CountFits /\ ImagesFit

-----------------------------------------------------------------------------
(* Properties *)

\* The caller's elements are kept in exactly one place: `raw`, or the compact
\* sentinel they were moved to (set_compact, attach_attr); no overwritten attribute and
\* no repeated call loses them.
DataKeptOnce ==
    Declared /\ ~IsVlen(ds.elem) =>
        ds.raw \o (IF IsCompact THEN CompactData ELSE <<>>) = Data(ds.shape)

\* A dataset that a build writes under any tiling: not empty, of no more elements than
\* there may be chunks, and of no more bytes than a chunk may have.  What DEFLATE makes
\* of a chunk nothing can foresee.
SmallEnough ==
    /\ Len(ds.shape) < MAX_RANK
    /\ Volume(ds.shape) \in 1..MAX_TILES
    /\ Volume(ds.shape) * ElemBytes[ds.elem] + 4 <= MAX_FIELD
    /\ "deflate" \in ds.filter => ImagesFit

\* set_chunking judges a tiling when it is set, the filters choose one that is sound, and
\* create_dataset_unlimited keeps one unjudged: but for the last, no order of calls
\* makes the build of a small dataset fail.
AcceptedTilingsBuild == Declared /\ ~ds.storage.unlimited_dim0 /\ SmallEnough => BuildAccepts

\* More elements than all chunks that may be have room for, or more bytes than a chunk may
\* have.
Oversized ==
    \/ Volume(ds.shape) > MAX_TILES * Volume(ChunkShape)
    \/ /\ Volume(ds.shape) > 0 /\ "deflate" \notin ds.filter
       /\ Volume(ChunkShape) * ElemBytes[ds.elem] > MAX_FIELD

\* A tiling is judged by its shape only.  One that is accepted and makes too many chunks, or
\* chunks that are too large, fails the build (api_datasets.rs:381-383), and is not
\* written wrong.
OversizedIsRefused == LayoutMessage = "chunked" /\ Oversized => ~BuildAccepts

\* A refused call leaves the dataset as it was, also where the code has already
\* committed the change it then takes back (set_chunking).
RefusalLeavesNoTrace == [][outcome' = "Format" => ds' = ds]_storageVars

\* A chunk of the file holds as many elements as the layout message says a chunk
\* has (cut_tile's "full declared volume"), for a dataset stored in chunks.
ChunksAreFullSize ==
    BuildAccepts /\ LayoutMessage = "chunked" =>
        \A n \in DOMAIN DataArea : Len(DataArea[n]) = Volume(ChunkShape)

\* A build fails over a tiling that a call accepted only if the dataset is too large for it,
\* and then it does fail; chunks are written as they were judged (set_chunking,
\* chunk_count, payload::build).
TilingsHold == AcceptedTilingsBuild /\ OversizedIsRefused /\ ChunksAreFullSize

\* "Compact and chunked are mutually exclusive (`set_compact` refuses a chunked
\* dataset)", dataset_oh_msgs, write/oh.rs.
CompactNeverChunked == ~(IsCompact /\ ds.storage.chunked)
=============================================================================
