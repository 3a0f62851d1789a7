------------------------------ MODULE MCOpenFile ------------------------------
(* What is done with one file, in one run: a behaviour is one of                *)
(*   lookup    an object looked for by its path,                                *)
(*   read      a dataset read, whole or in part,                                *)
(*   cache     threads that come for chunk indexes to the cache they share,     *)
(*   header    the header of an object written, or found, and read,             *)
(*   filter    a chunk put through a filter pipeline and back,                  *)
(*   checksum  its Fletcher checksum computed,                                  *)
(*   overwrite datasets written to in place,                                    *)
(*   virtual   a dataset put together from those of several files,              *)
(*   groups    the groups of a netCDF file resolved.                            *)
(* None of them keeps anything that another one uses: what a read asks of the   *)
(* cache is its dataset's records, what it asks of filters is whether a chunk   *)
(* decodes, and what headers say is the other parts' input.                     *)
EXTENDS MCLinkResolution, ChunkCache, ChunkRead, Fletcher, InPlace

CONSTANT Kinds                                                 \* what is tried
CONSTANTS short, long, none                                    \* chunk records
CONSTANTS MaxNesting, MaxDecode, MaxMessage, MaxContinuations  \* of headers
CONSTANTS Bits, Szip, Chunk                                    \* of filters
CONSTANTS Disk                                                 \* of virtual datasets
CONSTANTS MAX_GROUP_DEPTH                                      \* of groups

VARIABLES
    kind,                                                      \* what is done
    object, progress, image, todo, followed, messages, reply,  \* header
    chunk, place, bytes, stage, damaged,                       \* filter
    disk, wanted, reads, loaded, assembled,                    \* virtual
    ncfile, pass, paths, entered, global_dims, tree, defined   \* groups

-----------------------------------------------------------------------------
(* Reads: a line of five elements and a square of three by three, in chunks of *)
(* two, with every choice of chunks written, missing and damaged, and           *)
(* contiguous.                                                                  *)

RecordsOf(dims, chunk_dims) ==
    LET origins == ChunkOrigins(dims, chunk_dims)
        states == [DOMAIN origins -> {"readable", "damaged", "absent"}]
        Cells(state) == SelectSeq([n \in DOMAIN origins |-> n], LAMBDA n : state[n] # "absent")
    IN  {[r \in DOMAIN Cells(state) |-> [offsets |-> origins[Cells(state)[r]],
                                         readable |-> state[Cells(state)[r]] = "readable"]] :
            state \in states}

Chunked(dims, chunk_dims) ==
    {[chunked |-> TRUE, dims |-> dims, chunk_dims |-> chunk_dims, records |-> records] :
        records \in RecordsOf(dims, chunk_dims)}
Contiguous(dims) == [chunked |-> FALSE, dims |-> dims, chunk_dims |-> <<>>, records |-> <<>>]

ReadDatasets == Chunked(<<5>>, <<2>>) \cup Chunked(<<3, 3>>, <<2, 2>>)
            \cup {Contiguous(<<5>>), Contiguous(<<3, 3>>)}

Line == [start: 0..4, stride: 0..3, count: 0..2, block: 0..3]
Square == {[start |-> 0, stride |-> 2, count |-> 2, block |-> 1],
           [start |-> 1, stride |-> 1, count |-> 2, block |-> 1],
           [start |-> 1, stride |-> 1, count |-> 1, block |-> 2],
           [start |-> 0, stride |-> 2, count |-> 1, block |-> 2],
           [start |-> 2, stride |-> 1, count |-> 2, block |-> 1]}
Selections == {<<s>> : s \in Line} \cup {<<s, t>> : s, t \in Square}

Intervals == [start: 0..5, end: 0..6]
Sides == {[start |-> 0, end |-> 1], [start |-> 0, end |-> 3], [start |-> 1, end |-> 3],
          [start |-> 2, end |-> 2], [start |-> 2, end |-> 4]}
AllRanges == {<<r>> : r \in Intervals} \cup {<<r, s>> : r, s \in Sides}

-----------------------------------------------------------------------------
(* The cache: four datasets for the threads to read, two indexes kept apart     *)
(* only by their rank, one that does not decode, and one never allocated.       *)

ChunkIndexAt(address, ndims) == [index_address |-> address, ndims |-> ndims]

Indexes == {ChunkIndexAt(1, 1), ChunkIndexAt(1, 2), ChunkIndexAt(2, 1), ChunkIndexAt(UNDEFINED_ADDRESS, 1)}

DecodedIndexes ==
    [q \in Indexes |-> CASE q = ChunkIndexAt(1, 1) -> short
                         [] q = ChunkIndexAt(1, 2) -> long
                         [] q = ChunkIndexAt(2, 1) -> Corrupt
                         [] OTHER -> none]

-----------------------------------------------------------------------------
(* Headers *)

HeaderInputs == INSTANCE HeaderFiles
HeaderRead == INSTANCE ObjectHeader WITH Object <- HeaderInputs!Headers, at <- progress, answer <- reply

-----------------------------------------------------------------------------
(* Filters: this writer's pipelines, such as libhdf5 may have written, and such *)
(* as filters.rs says that there are.  A byte has two bits.                     *)

Written(raw, elem_size, by, filters, mask) ==
    [raw |-> raw, elem_size |-> elem_size, by |-> by, filters |-> filters, mask |-> mask]
Shuffle(client_data) == [id |-> "shuffle", client_data |-> client_data]
Deflate == [id |-> "deflate", client_data |-> <<6>>]
Checksum == [id |-> "fletcher32", client_data |-> <<>>]
Nbit(class, size, precision, offset) ==
    [id |-> "nbit", client_data |-> <<0, class, size, 0, 0, precision, offset>>]
NbitOf(plain, count, size, order, precision, offset) ==
    [id |-> "nbit", client_data |-> <<8, plain, count, 1, size, order, precision, offset>>]
ScaleOffset(min_bits, min_val) ==
    [id |-> "scaleoffset", client_data |-> <<>>, min_bits |-> min_bits, min_val |-> min_val]
SzipOf(options, pixel) == [id |-> "szip", client_data |-> <<options, pixel, 2, 2>>]

Pairs == {<<>>, <<1, 2, 3, 0>>, <<0, 0, 3, 3, 1, 2>>, <<3, 3, 3, 3, 3, 3, 3, 3, 3, 3, 2, 1>>}
Pipelines == [shuffle: BOOLEAN, deflate: {<<>>, <<6>>}, fletcher32: BOOLEAN]

OwnChunks ==
    {Written(raw, size, "writer", p, 0) :
        raw \in Pairs, size \in {1, 2}, p \in Pipelines}
    \cup {Written(<<1>>, 1, "writer", p, 0) : p \in Pipelines}

DocumentedChunks ==
    {Written(<<1, 2, 3, 0>>, 2, "documented", filters, mask) :
        filters \in {<<Checksum, Shuffle(<<>>), Deflate>>, <<Deflate, Shuffle(<<0>>), Checksum>>},
        mask \in 0..7}
    \cup {Written(<<1, 0, 3, 0, 2, 0>>, 2, "documented", <<Nbit(0, 2, 2, 0), Checksum>>, mask) : mask \in 0..1}
    \cup {Written(raw, 2, "documented", <<filter>>, 0) :
             raw \in {<<0, 2, 0, 1>>, <<0, 2>>}, filter \in {Nbit(0, 2, 3, 1), Nbit(1, 2, 3, 1)}}
    \cup {Written(<<3, 2, 3>>, 1, "documented", <<ScaleOffset(1, 2)>>, 0),
          Written(<<2, 2, 2>>, 1, "documented", <<ScaleOffset(0, 2), Checksum>>, 0),
          Written(<<3, 3, 0, 0, 1, 0>>, 2, "documented", <<ScaleOffset(2, 15)>>, 0)}
    \cup {Written(<<3, 2, 3, 1>>, 1, "documented", <<SzipOf(options, pixel)>>, 0) :
             options \in {0, 128}, pixel \in {0, 2, 3}}

ForeignChunks ==
    {Written(<<1, 2, 3, 0>>, 2, "libhdf5", filters, mask) :
        filters \in {<<Shuffle(<<2>>), Checksum, Deflate>>, <<Deflate, Shuffle(<<2>>), Checksum>>},
        mask \in 0..7}
    \cup {Written(raw, 2, "libhdf5", <<NbitOf(plain, Len(raw) \div 2, 2, order, 3, 1), Checksum>>, mask) :
             raw \in {<<0, 2, 0, 1>>, <<0, 2>>}, plain \in {0, 1}, order \in {0, 1}, mask \in 0..1}
    \cup {Written(<<3, 2, 3>>, 1, "libhdf5", <<ScaleOffset(min_bits, 2), Checksum>>, mask) :
             min_bits \in {0, 1}, mask \in 0..1}
    \cup {Written(<<3, 2, 3, 1>>, 1, "libhdf5", <<SzipOf(128, 2), Deflate>>, mask) : mask \in 0..1}
    \cup {Written(<<1>>, 1, "libhdf5", <<[id |-> "lzf", client_data |-> <<>>]>>, 0)}

Chunks == OwnChunks \cup DocumentedChunks \cup ForeignChunks
Filters == INSTANCE FilterPipeline

-----------------------------------------------------------------------------
(* Overwrites: a file with datasets of every kind a call may name, and one that *)
(* may come to be at its path, in which the same name means other bytes.        *)

Area(class, width, order, address, size) ==
    [kind |-> "dataset", class |-> class, width |-> width, order |-> order, layout |-> "contiguous",
     filtered |-> FALSE, address |-> address, size |-> size]
OneByte(address, size) == Area("int", 1, "little", address, size)
Beyond == 1000   \* an undefined address
Elsewhere(object_kind) == [OneByte(0, 0) EXCEPT !.kind = object_kind]

OldFile ==
    [length |-> 5,
     objects |-> [values |-> Area("float", 2, "big", 1, 2), next |-> OneByte(3, 1),
                  group |-> Elsewhere("group"), linked |-> Elsewhere("external"),
                  strings |-> Area("vlen", 2, "little", 1, 4),
                  chunked |-> [OneByte(4, 1) EXCEPT !.layout = "chunked"],
                  packed |-> [OneByte(4, 1) EXCEPT !.layout = "chunked", !.filtered = TRUE],
                  empty |-> OneByte(Beyond, 0), beyond |-> OneByte(4, 2)]]
NewFile == [length |-> 3, objects |-> [values |-> Area("float", 2, "little", 0, 2)]]

Raw == [class |-> "raw", width |-> 1]
Overwrites ==
    [path: {"values"}, want: {Raw}, count: {1, 2}]
    \cup [path: {"values"}, want: [class: {"float", "int"}, width: {2}], count: {1}]
    \cup [path: (DOMAIN OldFile.objects \ {"values", "beyond"}) \cup {"missing"}, want: {Raw}, count: {1}]
    \cup [path: {"beyond"}, want: {Raw}, count: {2}]

Images == <<OldFile, NewFile>>

-----------------------------------------------------------------------------
(* Virtual datasets *)

VirtualInputs == INSTANCE VirtualFiles
VirtualDisks == VirtualInputs!Disks
Detours == VirtualInputs!Detours

Virtual == INSTANCE VirtualDataset WITH
              Query <- VirtualInputs!ReadsOfThem, Cwd <- VirtualInputs!Home,
              query <- wanted, frames <- reads, answer <- assembled

-----------------------------------------------------------------------------
(* Groups of netCDF files *)

Groups == INSTANCE NetcdfFiles WITH file <- ncfile, visited <- entered

-----------------------------------------------------------------------------

ofHeader == <<object, progress, image, todo, followed, messages, reply>>
ofFilter == <<chunk, place, bytes, stage, damaged>>
ofVirtual == <<disk, wanted, reads, loaded, assembled>>
ofGroups == <<ncfile, pass, paths, entered, global_dims, tree, defined>>

NoLookup ==
    /\ file = <<>> /\ query = <<>> /\ frames = <<>> /\ visited = {}
    /\ result = [kind |-> "refused", at |-> Outside]
NoRead ==
    /\ ds = <<>> /\ call = <<>> /\ phase = "none" /\ waiting = {} /\ tiles = <<>>
    /\ cells = <<>> /\ output = <<>> /\ returned = Success(<<>>)
NoHeader ==
    /\ object = <<>> /\ progress = "none" /\ image = <<>> /\ todo = <<>> /\ followed = {}
    /\ messages = <<>> /\ reply = <<>>
NoFilter == chunk = <<>> /\ place = 0 /\ bytes = <<>> /\ stage = "none" /\ damaged = FALSE
NoOverwrite ==
    /\ named = 1 /\ cached = Originals /\ stored = Originals /\ pc = "none" /\ write = <<>> /\ target = <<>>
    /\ from = 1 /\ handle = 1 /\ done = 0 /\ outcome = "none" /\ calls = 0 /\ mistaken = {} /\ kept = <<>>
NoVirtual == disk = <<>> /\ wanted = <<>> /\ reads = <<>> /\ loaded = <<>> /\ assembled = <<>>
NoGroups == Groups!Idle /\ ncfile = <<>> /\ defined = <<>>

OpenInit ==
    /\ CacheInit
    /\ SumInit
    /\ kind \in Kinds
    /\ IF kind = "lookup" THEN Init ELSE NoLookup
    /\ IF kind = "read" THEN ReadInit ELSE NoRead
    /\ IF kind = "header" THEN HeaderRead!HeaderInit ELSE NoHeader
    /\ IF kind = "filter" THEN Filters!ChunkInit ELSE NoFilter
    /\ IF kind = "overwrite" THEN OverwriteInit ELSE NoOverwrite
    /\ IF kind = "virtual" THEN Virtual!Init ELSE NoVirtual
    /\ IF kind = "groups" THEN Groups!Init ELSE NoGroups

LookUp ==
    kind = "lookup" /\ Next
        /\ UNCHANGED <<readVars, cacheVars, ofHeader, ofFilter, sumVars, overwriteVars, ofVirtual, ofGroups>>
ReadOn ==
    kind = "read" /\ ReadNext
        /\ UNCHANGED <<vars, cacheVars, ofHeader, ofFilter, sumVars, overwriteVars, ofVirtual, ofGroups>>
UseCache ==
    kind = "cache" /\ CacheNext
        /\ UNCHANGED <<vars, readVars, ofHeader, ofFilter, sumVars, overwriteVars, ofVirtual, ofGroups>>
WalkHeader ==
    kind = "header" /\ HeaderRead!HeaderNext
        /\ UNCHANGED <<vars, readVars, cacheVars, ofFilter, sumVars, overwriteVars, ofVirtual, ofGroups>>
FilterChunk ==
    kind = "filter" /\ Filters!ChunkNext
        /\ UNCHANGED <<vars, readVars, cacheVars, ofHeader, sumVars, overwriteVars, ofVirtual, ofGroups>>
ComputeChecksum ==
    kind = "checksum" /\ SumNext
        /\ UNCHANGED <<vars, readVars, cacheVars, ofHeader, ofFilter, overwriteVars, ofVirtual, ofGroups>>
WriteInPlace ==
    kind = "overwrite" /\ OverwriteNext
        /\ UNCHANGED <<vars, readVars, cacheVars, ofHeader, ofFilter, sumVars, ofVirtual, ofGroups>>
AssembleVirtual ==
    kind = "virtual" /\ Virtual!Next
        /\ UNCHANGED <<vars, readVars, cacheVars, ofHeader, ofFilter, sumVars, overwriteVars, ofGroups>>
ResolveGroups ==
    kind = "groups" /\ Groups!Next
        /\ UNCHANGED <<vars, readVars, cacheVars, ofHeader, ofFilter, sumVars, overwriteVars, ofVirtual>>

OpenNext ==
    /\ \/ LookUp \/ ReadOn \/ UseCache \/ WalkHeader
       \/ FilterChunk \/ ComputeChecksum \/ WriteInPlace \/ AssembleVirtual \/ ResolveGroups
    /\ UNCHANGED kind

OpenSpec ==
    OpenInit /\ [][OpenNext]_<<kind, vars, readVars, cacheVars, ofHeader, ofFilter, sumVars,
                               overwriteVars, ofVirtual, ofGroups>>

\* A walk of groups that can go on; TLC takes long to find that ENABLED ResolveGroups
\* says the same.
Resolving == kind = "groups" /\ pass \notin {"done", "failed"}

\* The fairness of LinkResolution and of ChunkCache, and WF_ofGroups(ResolveGroups).
FairOpenSpec ==
    /\ OpenSpec
    /\ WF_vars(kind = "lookup" /\ Next)
    /\ \A t \in Thread : WF_cacheVars(kind = "cache" /\ GoOn(t))
    /\ []<>~Resolving \/ []<><<ResolveGroups>>_ofGroups

-----------------------------------------------------------------------------
(* The properties of each part; those of lookups, of reads, of the cache, of the *)
(* checksum and of overwrites hold as they are, also where nothing of the kind is done.  *)

\* Every lookup ends, whatever cycles the links form, no thread waits for the cache for
\* ever, and both walks of the groups end, also where a group links to one it is in
\* (links.rs, chunked/index.rs, resolver.rs).
EveryCallEnds == /\ Terminates
                 /\ EveryCallReturns
                 /\ Resolving ~> ~Resolving

\* A header reads back as what the calls that made the object said (oh.rs, header.rs).
HeadersReadBack == kind = "header" => HeaderRead!HeadersReadBack


\* What a read makes of a chunk is what was put into it (filters.rs, payload.rs).
FiltersUndone == kind = "filter" => Filters!FiltersUndone

\* Damage to a checksummed chunk never goes unnoticed (filters.rs).
DamageIsSeen == kind = "filter" => Filters!DamageIsSeen

\* A virtual dataset reads as the elements that its mappings mean, the last of them where
\* they overlap, through any chain of virtual datasets and external links, each path taken
\* from the file it stands in, and fails exactly if a mapping means nothing (links.rs, vds.rs).
VirtualReadsBack == kind = "virtual" => Virtual!VirtualReadsBack

\* Every group is read, and every variable on the dimensions it was written on, by
\* whatever attributes tell of them (resolver.rs); see NetcdfFiles.
GroupsReadBack == kind = "groups" => Groups!GroupsReadBack

\* The same where an id was made up for a dimension of another group and a variable
\* carries that number as an id of its own (resolver.rs); see NetcdfFiles.
IdsAreNeverMistaken == kind = "groups" => Groups!IdsAreNeverMistaken
=============================================================================
