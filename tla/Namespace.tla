------------------------------ MODULE Namespace ------------------------------
(***************************************************************************)
(* What the FileWriter promises the caller about names: a group is an      *)
(* append-only list of distinct names, each meaning one thing, and a       *)
(* successful creation adds the object together with exactly the missing   *)
(* groups above it, in one step.  A refused call is no step at all.        *)
(* GroupTree, which walks and creates component by component, implements   *)
(* this specification.                                                     *)
(***************************************************************************)
EXTENDS Naturals, Sequences

CONSTANTS Name, Kind, MaxDepth

VARIABLE listing   \* the members of every group, in order of creation

Path == UNION {[1..n -> Name] : n \in 0..MaxDepth}
Entry == [name: Name, kind: Kind]

Entries(q) == {listing[q][i] : i \in 1..Len(listing[q])}
Listed(q, name) == \E e \in Entries(q) : e.name = name
ProperPrefixes(p) == {SubSeq(p, 1, i) : i \in 0..(Len(p) - 1)}
NextOn(p, q) == p[Len(q) + 1]

Init == listing = [q \in Path |-> <<>>]

Create(p, kind) ==
    LET missing(q) == q \in ProperPrefixes(p) /\ ~Listed(q, NextOn(p, q))
    IN  /\ p # <<>>
        /\ missing(SubSeq(p, 1, Len(p) - 1))
        /\ \A q \in ProperPrefixes(p) :
               Len(q) < Len(p) - 1
                   => missing(q) \/ [name |-> NextOn(p, q), kind |-> "group"] \in Entries(q)
        /\ listing' = [q \in Path |->
               IF missing(q)
               THEN Append(listing[q],
                           [name |-> NextOn(p, q),
                            kind |-> IF Len(q) = Len(p) - 1 THEN kind ELSE "group"])
               ELSE listing[q]]

Next == \E p \in Path, kind \in Kind : Create(p, kind)

Spec == Init /\ [][Next]_listing
=============================================================================
