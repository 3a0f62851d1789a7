SPECIFICATION OpenSpec
CONSTANTS
    Kinds = {"groups"}
    root = root
    a = a
    d = d
    x = x
    y = y
    Outside = Outside
    Header = {root, a, d}
    Name = {x, y}
    Spelling <- Spellings
    File <- Files
    Query <- Queries
    Meaning <- Meanings
    Dataset <- ReadDatasets
    Ranges <- AllRanges
    Selection <- Selections
    Fill = Fill
    Zero = Zero
    Thread = {t1, t2, t3}
    short = short
    long = long
    none = none
    Index <- Indexes
    Records = {short, long, none}
    Empty = none
    Decoded <- DecodedIndexes
    Corrupt = Corrupt
    UNDEFINED_ADDRESS = UNDEFINED_ADDRESS
    None = None
    MaxNesting = 4
    MaxDecode = 4
    MaxMessage = 400
    MaxContinuations = 2
    Base = 4
    Block = 3
    Bits = 2
    Szip = TRUE
    Chunk <- Chunks
    Image <- Images
    Request <- Overwrites
    MaxCalls = 2
    Disk <- VirtualDisks
    MAX_GROUP_DEPTH = 3
INVARIANT IdsAreNeverMistaken
CHECK_DEADLOCK FALSE
