SPECIFICATION Spec
CONSTANTS
    root = root
    a = a
    d = d
    x = x
    y = y
    Outside = Outside
    Header = {root, a, d}
    Name = {x, y}
    Spelling <- Spellings
    File <- Files
    Query <- Queries
    Meaning <- Meanings
INVARIANT CyclesAreReal
CHECK_DEADLOCK FALSE
