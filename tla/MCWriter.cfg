SPECIFICATION WriterSpec
CONSTANTS
    Name = {a, b}
    a = a
    b = b
    BadName = BadName
    MAX_PATH_DEPTH = 2
    LinkKind = {"soft", "external"}
    MaxMembers = 2
    top = top
    sub = sub
    nested = nested
    ds = ds
    NoGroup = NoGroup
    Object = {top, sub, nested, ds}
    rootGroup = top
    Nowhere = Nowhere
    Soft = Soft
    Tree <- Trees
    Fixed <- FixedBytes
    PerEntry <- EntryBytes
    ROOT_OH_ADDR = 6
    MAX_COMPACT_LINKS = 2
CONSTRAINT SmallTree
INVARIANTS
    TypeOK
    CreationOrderIsASequence
    NoOrphans
    StyleCanExpressMembers
    RegionsDisjoint
    FailsIffUnbuildable
    LinksAreTrue
    HeapRefsResolve
PROPERTIES
    FailureLeavesNoTrace
    ImplementsNamespace
