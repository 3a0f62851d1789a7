SPECIFICATION AnySpec
CONSTANTS
    Kinds = {"dataset", "heap", "chunks", "group", "links", "array", "netcdf"}
    Length = {0, 1, 7, 22, 24, 29}
    MaxObjects = 4
    Start = {0, 1}
    ALIGN = 2
    COLLECTION_HEADER = 4
    OBJECT_HEADER = 4
    H5HG_MINSIZE = 8
    H5HG_MAXSIZE = 32
    MAX_OBJECTS_PER_COLLECTION = 3
    Shape <- StoredShapes
    ChunkRequest <- ChunkRequests
    AttrName = {"u", "v"}
    CompactCap = 3
    ElemBytes <- BytesOf
    Deflated <- DeflatedBytes
    MAX_RANK = 3
    MAX_FIELD = 16
    MAX_TILES = 3
    Grid <- MCGrid
    ElemSize = 8
    CHUNK_NODE_MAX_CHILDREN = 2
    MAX_CHUNKS = 17
    MAX_CHUNK_LEVELS = 4
    Name = {1, 2, 3, 4, 5, 6, 7, 8, 9, 10, 11, 12, 13, 14, 15, 16, 17, 18, 19, 20, 21}
    ShortName = {2, 5, 8}
    Short = 3
    Long = 11
    MemberList <- MCMemberList
    SNOD_MAX_ENTRIES = 2
    GROUP_NODE_MAX_CHILDREN = 2
    MAX_GROUP_LINKS = 10
    MAX_LEVELS = 3
    TABLE_WIDTH = 2
    MIN_BLOCK_SIZE = 8
    MAX_DIRECT_BLOCK_SIZE = 32
    DIRECT_BLOCK_HEADER = 3
    MAX_OBJECT_SIZE = 15
    MAX_ROWS = 6
    LinkName = {1, 2, 3, 4, 5}
    NameHash <- ParityHash
    LinkSize = {1, 7, 16}
    SomeOffset = {3, 20, 127}
    LinkList <- GroupsToWrite
    LibGroup <- GroupsToRead
    MAX_COMPACT_LINKS = 2
    NODE_SIZE_UNIT = 10
    LEAF_PREFIX = 4
    RECORD_SIZE = 5
    CHECKSUM_SIZE = 2
    Indexed <- Datasets
    UNLIMITED = 1000
    IDX_BLK_ELMTS = 2
    DATA_BLK_MIN_ELMTS = 1
    SUP_BLK_MIN_DATA_PTRS = 2
    MAX_NELMTS_BITS = 5
    PAGE_NELMTS = 2
    Fill = Fill
    VarDef <- VarDefs
    DimDef <- DimDefs
    GroupName = {"g", "v"}
    Amount = {1, 4}
    MAX_VAR_ELEMENTS = 9
    MAX_CHUNK_BYTES = 32
    MAX_AXES = 3
    MAX_REFERENCES = 2
    MAX_ROOT_LINKS = 4
    MAX_GROUP_DEPTH = 2
    MaxDims = 2
    MaxVars = 2
    MaxGroups = 1
    MaxCalls = 3
CONSTRAINT ShortUnlessDocumented
INVARIANTS
    LocationsExact
    CollectionsBounded
    CollectionsHoldTheirObjects
    ReferencesResolve
    ChunksAreIndexed
    MembersAreIndexed
    ModernIndexesReadBack
    DataKeptOnce
    TilingsHold
    CloseFailsIffUnwritable
    DataReadsBack
    DefinitionsReadBack
    ReferencesMirror
PROPERTY RefusalLeavesNoTrace
CHECK_DEADLOCK FALSE
