------------------------------ MODULE DenseGroups ------------------------------
(* Groups to write: up to four members in every order and of three sizes, and   *)
(* five of one size.  Groups of libhdf5's: one or two members anywhere in       *)
(* tables of four to six rows, in which direct blocks lie up to three tables    *)
(* deep, or up to three in one direct block; with a name index of one leaf, or   *)
(* of two under a root; and some that are damaged.                              *)
EXTENDS Integers, Sequences, FiniteSets

CONSTANTS
    LinkName,     \* the names of links
    LinkSize,     \* the sizes of links to write
    SomeOffset,   \* where one of two links may lie
    TABLE_WIDTH, MAX_ROWS

\* Hashes collide.
ParityHash == [n \in LinkName |-> n % 2]

Orders(n) == {order \in [1..n -> LinkName] : Cardinality({order[i] : i \in 1..n}) = n}

GroupsToWrite ==
    UNION {{[i \in 1..n |-> [name |-> order[i], size |-> size[i]]] :
                order \in Orders(n), size \in [1..n -> LinkSize]} : n \in 0..4}
    \cup {[i \in 1..5 |-> [name |-> order[i], size |-> size]] : order \in Orders(5), size \in LinkSize}

-----------------------------------------------------------------------------
(* libhdf5's *)

At(offset, length) == [offset |-> offset, length |-> length]

DirectTableRows == 3

\* A root of `rows` rows of blocks of 4, 4, 8, 16, ... bytes, the first three of them
\* direct blocks, or of one direct block; links at the places given.
Holding(rows, placed) ==
    [start |-> IF rows = 0 THEN 8 ELSE 4, max_direct |-> 8, rows |-> rows, placed |-> placed,
     readable |-> Len(placed), strays |-> <<>>, split |-> 0, leaf_records |-> 45]

Addresses(rows) == 0..(4 * TABLE_WIDTH * 2^(rows - 1) - 1)

OneOrTwoLinks(rows) ==
    {Holding(rows, <<At(o, 1)>>) : o \in Addresses(rows)}
    \cup {Holding(rows, <<At(o, 1), At(p, 1)>>) :
              o \in Addresses(rows) \cap SomeOffset, p \in Addresses(rows) \ SomeOffset}

\* A second record that leads nowhere, or a second link overwritten by a table.
Damaged(rows) ==
    {[Holding(rows, <<At(3, 1), At(7, 1)>>) EXCEPT !.readable = 1]}
    \cup {[Holding(rows, <<At(3, 1)>>) EXCEPT !.strays = <<[name |-> name, place |-> place]>>] :
              name \in {2, 3}, place \in {At(3, 0), At(11, 1), At(40, 1), At(300, 1)}}

\* Three links, the record of one of them in the root of the name index.  A leaf of
\* libhdf5's 512 bytes holds 45 records.
SplitIndex(leaf_records) ==
    {[Holding(0, <<At(3, 1), At(4, 1), At(5, 1)>>) EXCEPT !.split = 2, !.leaf_records = leaf_records]}
LibSplitIndex == SplitIndex(45)

\* A root of no more rows than hold direct blocks.
FewRows == UNION {OneOrTwoLinks(rows) : rows \in 1..DirectTableRows}

GroupsToRead ==
    UNION {OneOrTwoLinks(rows) \cup Damaged(rows) : rows \in (DirectTableRows + 1)..MAX_ROWS}
    \cup {Holding(0, <<At(o, 2)>>) : o \in 3..6} \cup LibSplitIndex \cup SplitIndex(256)

NoGroups == {}
=============================================================================
