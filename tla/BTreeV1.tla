------------------------------- MODULE BTreeV1 -------------------------------
(***************************************************************************)
(* What the two version-1 B-trees of a file share: the symbol table of a   *)
(* group (write/btree_v1.rs) and the chunk index of a dataset              *)
(* (write/chunked.rs).  Both are bulk-loaded bottom-up from a sorted list, *)
(* levels at fixed stride with the root last, and both are searched by     *)
(* libhdf5 with the same binary search (H5B_find, described in the         *)
(* comments of those files).                                               *)
(*                                                                         *)
(* Addresses count nodes.                                                  *)
(***************************************************************************)
EXTENDS Integers, Sequences, SequencesExt, FiniteSetsExt

Undefined == -1   \* the all-ones address

CeilingDiv(n, k) == (n + k - 1) \div k
AtLeastOne(n) == IF n = 0 THEN 1 ELSE n

\* Node counts of every level over n children, the children's parents first.
LevelCounts(n, arity) ==
    LET levels[nodes \in 1..AtLeastOne(n)] ==
            IF nodes = 1 THEN <<1>>
            ELSE <<nodes>> \o levels[CeilingDiv(nodes, arity)]
    IN  levels[AtLeastOne(CeilingDiv(n, arity))]

\* Nodes on the first levels, and on all.
NodesUpTo(levels) ==
    LET upTo[l \in 0..Len(levels)] == IF l = 0 THEN 0 ELSE upTo[l - 1] + levels[l]
    IN  upTo
NodeCount(levels) == NodesUpTo(levels)[Len(levels)]

\* assign: the first node of every level, levels laid out one after another.
LevelAddrs(levels, base) ==
    [l \in DOMAIN levels |-> base + NodesUpTo(levels)[l - 1]]

RootAddr(levels, base) == Last(LevelAddrs(levels, base))

\* The i-th of the runs a list is cut into, `size` entries each, counting from 1.
Run(list, size, i) ==
    SubSeq(list, (i - 1) * size + 1,
           IF i * size < Len(list) THEN i * size ELSE Len(list))

\* Siblings are linked within a level only; the ends are undefined.
LeftSibling(addr, i) == IF i = 1 THEN Undefined ELSE addr - 1
RightSibling(addr, i, n_nodes) == IF i = n_nodes THEN Undefined ELSE addr + 1

\* The sibling links run through the level from end to end.
LevelIsChained(nodes, first, count) ==
    \A i \in 1..count :
        /\ nodes[first + i - 1].left = IF i = 1 THEN Undefined ELSE first + i - 2
        /\ nodes[first + i - 1].right = IF i = count THEN Undefined ELSE first + i

-----------------------------------------------------------------------------
(* H5B_find: child i of a node is bounded by keys[i] and keys[i + 1]; the  *)
(* search keeps the children lt..rt-1 and probes the middle one.           *)

Idle == [at |-> 0, lt |-> 0, rt |-> 0]
SearchFrom(node, n_children) == [at |-> node, lt |-> 1, rt |-> n_children + 1]
Exhausted(search) == search.lt >= search.rt
Probed(search) == (search.lt + search.rt) \div 2

GoLeft(search) == [search EXCEPT !.rt = Probed(search)]
GoRight(search) == [search EXCEPT !.lt = Probed(search) + 1]
=============================================================================
