------------------------------- MODULE BTreeV2 -------------------------------
(***************************************************************************)
(* A version-2 B-tree as oxih5 reads it (oxih5-format/src/btree_v2.rs):    *)
(* the name index of a dense group (parse_name_index_node) and the chunk   *)
(* index of a dataset (parse_node) are walked in the same way, children    *)
(* before later siblings, and only leaves give records.                    *)
(*                                                                         *)
(* A node knows its depth, 0 in a leaf, and an inner node how wide its     *)
(* children's record counts are; that the depth a parent expects and the   *)
(* node's signature agree is taken for granted, and MAX_DEPTH (64) is out  *)
(* of reach.                                                               *)
(***************************************************************************)
EXTENDS Integers, Sequences, SequencesExt

VARIABLES
    nodes,   \* by address
    visits,  \* the nodes still to visit, nearest first
    records  \* the records gathered so far

Undefined == -1   \* the all-ones address

Leaf(list) == [depth |-> 0, records |-> list, children |-> <<>>, count_bytes |-> 0]

\* Bytes of a count of up to n records.
CountBytes(n) == IF n < 256 THEN 1 ELSE 2

\* A tree libhdf5 split once: record k went up to the root, and stayed there.  The root
\* says of each child how many of the leaf_records that fit a leaf it has.
SplitAt(list, k, leaf_records) ==
    [addr \in 0..2 |->
        CASE addr = 0 -> [depth |-> 1, records |-> <<list[k]>>, children |-> <<1, 2>>,
                          count_bytes |-> CountBytes(leaf_records)]
          [] addr = 1 -> Leaf(SubSeq(list, 1, k - 1))
          [] addr = 2 -> Leaf(SubSeq(list, k + 1, Len(list)))]

Root == 0

InnerNodes == {addr \in DOMAIN nodes : nodes[addr].depth > 0}

\* The records that are not in leaves.
Inner == UNION {ToSet(nodes[addr].records) : addr \in InnerNodes}

\* Whether a node's counts are as wide as the reader takes all of them to be.
IsWide(addr) == nodes[addr].count_bytes = 2

\* The header: a tree without a root has no records.
StartWalk(root) ==
    /\ visits' = IF root = Undefined THEN <<>> ELSE <<root>>
    /\ records' = <<>>

VisitLeaf ==
    /\ visits # <<>> /\ nodes[Head(visits)].depth = 0
    /\ records' = records \o nodes[Head(visits)].records
    /\ visits' = Tail(visits)

VisitInternal ==
    /\ visits # <<>> /\ Head(visits) \in InnerNodes /\ IsWide(Head(visits))
    /\ visits' = SelectSeq(nodes[Head(visits)].children, LAMBDA addr : addr # Undefined)
                 \o Tail(visits)
    /\ UNCHANGED records

\* Of counts of one byte the second pointer is read a byte late, and its count becomes
\* the high byte of an address far past the end of the file: the walk is an error.
Misled == visits # <<>> /\ Head(visits) \in InnerNodes /\ ~IsWide(Head(visits))
=============================================================================
