------------------------------ MODULE BTreeState ------------------------------
(* A version-1 B-tree while it is bulk-loaded level by level, and a lookup in   *)
(* it by libhdf5: what chunk indexes and symbol tables keep of either.          *)
EXTENDS BTreeV1

VARIABLES
    levels,  \* node count of every level, the lowest first
    level,   \* the level to write next, counting from 0
    below,   \* what that level is made of: keys and children
    nodes,   \* the nodes written so far, by address
    search,  \* the lookup in progress
    wanted,  \* what it looks for
    found    \* what it came back with
=============================================================================
