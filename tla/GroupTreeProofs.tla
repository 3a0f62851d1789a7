--------------------------- MODULE GroupTreeProofs ---------------------------
(***************************************************************************)
(* Proofs that the group tree keeps its invariants for any set of names,   *)
(* any path depth and any kinds of links, that a failing call leaves no    *)
(* trace, and that a FileWriter implements the append-only namespace.      *)
(***************************************************************************)
EXTENDS GroupTree, TLAPS, SequenceTheorems

-----------------------------------------------------------------------------
(* Paths and their prefixes *)

LEMMA PathFacts ==
    ASSUME NEW p \in Path
    PROVE  /\ p \in Seq(Name)
           /\ Len(p) \in 0..MAX_PATH_DEPTH
           /\ p \in [1..Len(p) -> Name]
<1>1. PICK n \in 0..MAX_PATH_DEPTH : p \in [1..n -> Name]
  BY DEF Path
<1>2. n \in Nat
  BY DepthAssumption
<1>3. p \in Seq(Name)
  BY <1>1, <1>2, SeqDef
<1>4. Len(p) = n
  BY <1>1, <1>2, <1>3, LenProperties
<1> QED
  BY <1>1, <1>3, <1>4

LEMMA PrefixFacts ==
    ASSUME NEW p \in Path, NEW n \in 0..Len(p)
    PROVE  /\ Prefix(p, n) \in Path
           /\ Len(Prefix(p, n)) = n
           /\ \A i \in 1..n : Prefix(p, n)[i] = p[i]
           /\ \A m \in 0..n : Prefix(Prefix(p, n), m) = Prefix(p, m)
<1>1. /\ Len(p) \in 0..MAX_PATH_DEPTH
      /\ p \in [1..Len(p) -> Name]
  BY PathFacts
<1>2. n \in 0..MAX_PATH_DEPTH /\ n \in Nat
  BY <1>1, DepthAssumption
<1>3. Prefix(p, n) \in [1..n -> Name]
  BY <1>1, <1>2 DEF Prefix
<1>4. Prefix(p, n) \in Path
  BY <1>2, <1>3 DEF Path
<1>5. Len(Prefix(p, n)) = n
  BY <1>2, <1>3, SeqDef, LenProperties
<1>6. \A i \in 1..n : Prefix(p, n)[i] = p[i]
  BY DEF Prefix
<1>7. \A m \in 0..n : Prefix(Prefix(p, n), m) = Prefix(p, m)
  BY <1>2 DEF Prefix
<1> QED
  BY <1>4, <1>5, <1>6, <1>7

LEMMA PrefixWhole ==
    ASSUME NEW p \in Path
    PROVE  Prefix(p, Len(p)) = p
BY PathFacts DEF Prefix

\* A path other than the root is its parent with one component added.
LEMMA ParentDetermines ==
    ASSUME NEW p \in Path, NEW q \in Path, p # <<>>, q # <<>>,
           Prefix(p, Len(p) - 1) = Prefix(q, Len(q) - 1),
           p[Len(p)] = q[Len(q)]
    PROVE  p = q
<1>1. /\ Len(p) \in Nat \ {0} /\ p \in Seq(Name)
      /\ Len(q) \in Nat \ {0} /\ q \in Seq(Name)
  BY PathFacts, EmptySeq, DepthAssumption
<1>2. Len(p) - 1 \in 0..Len(p) /\ Len(q) - 1 \in 0..Len(q)
  BY <1>1
<1>3. Len(p) = Len(q)
  BY <1>1, <1>2, PrefixFacts
<1>4. \A i \in 1..(Len(p) - 1) : p[i] = q[i]
  BY <1>2, <1>3, PrefixFacts
<1>5. \A i \in 1..Len(p) : p[i] = q[i]
  BY <1>1, <1>3, <1>4
<1> QED
  BY <1>1, <1>3, <1>5, SeqEqual

-----------------------------------------------------------------------------
(* One group node *)

NodeOK(n) ==
    /\ \A m, k \in Members(n) : m.name = k.name => m = k
    /\ {m.creation_order : m \in Members(n)} = 0..(n.next_creation_order - 1)
    /\ \A m, k \in Members(n) : m.creation_order = k.creation_order => m = k
    /\ (n.track_order \/ \E l \in n.links : l.kind = "external") => n.style = "LinkMessage"

LEMMA EmptyNodeOK == /\ EmptyNode \in GroupNode
                     /\ Members(EmptyNode) = {}
                     /\ NodeOK(EmptyNode)
BY DEF EmptyNode, GroupNode, GroupStyle, NodeOK, Members

\* n2 is n with the member m added under a fresh name and the next creation order.
Adds(n, n2, m) ==
    /\ n2 \in GroupNode
    /\ Members(n2) = Members(n) \cup {m}
    /\ m.name \in Name /\ m.name \notin Names(Members(n))
    /\ m.creation_order = n.next_creation_order
    /\ n2.next_creation_order = n.next_creation_order + 1
    /\ n.groups \subseteq n2.groups

LEMMA MemberFacts ==
    ASSUME NEW n \in GroupNode
    PROVE  /\ \A m \in Members(n) : m.name \in Name /\ m.creation_order \in Nat
           /\ n.next_creation_order \in Nat
           /\ \A name : NameTaken(n, name) <=> name \in Names(Members(n))
BY DEF GroupNode, Member, LinkDesc, Members, NameTaken, Names

LEMMA AddsKeepsOrder ==
    ASSUME NEW n \in GroupNode, NEW n2, NEW m, Adds(n, n2, m), NodeOK(n)
    PROVE  /\ \A j, k \in Members(n2) : j.name = k.name => j = k
           /\ {j.creation_order : j \in Members(n2)} = 0..(n2.next_creation_order - 1)
           /\ \A j, k \in Members(n2) : j.creation_order = k.creation_order => j = k
<1>1. \A j \in Members(n) : j.name # m.name
  BY DEF Adds, Names
<1>2. n.next_creation_order \in Nat
  BY MemberFacts
<1>3. \A j \in Members(n) : j.creation_order \in 0..(n.next_creation_order - 1)
  BY DEF NodeOK
<1>4. \A j \in Members(n) : j.creation_order # m.creation_order
  BY <1>2, <1>3 DEF Adds
<1>5. {j.creation_order : j \in Members(n2)}
        = {j.creation_order : j \in Members(n)} \cup {n.next_creation_order}
  BY DEF Adds
<1>6. 0..(n2.next_creation_order - 1)
        = 0..(n.next_creation_order - 1) \cup {n.next_creation_order}
  BY <1>2 DEF Adds
<1> QED
  BY <1>1, <1>4, <1>5, <1>6 DEF Adds, NodeOK

LEMMA TakeFacts ==
    ASSUME NEW n \in GroupNode
    PROVE  /\ TakeCreationOrder(n) \in GroupNode
           /\ TakeCreationOrder(n).datasets = n.datasets
           /\ TakeCreationOrder(n).groups = n.groups
           /\ TakeCreationOrder(n).links = n.links
           /\ TakeCreationOrder(n).style = n.style
           /\ TakeCreationOrder(n).track_order = n.track_order
           /\ TakeCreationOrder(n).next_creation_order = n.next_creation_order + 1
BY DEF TakeCreationOrder, GroupNode

LEMMA PushDatasetAdds ==
    ASSUME NEW n \in GroupNode, NEW name \in Name, ~NameTaken(n, name)
    PROVE  LET n2 == PushDataset(n, name)
           IN  /\ Adds(n, n2, Stamped(n, name))
               /\ n2.style = n.style /\ n2.track_order = n.track_order
               /\ n2.links = n.links
<1> DEFINE t == TakeCreationOrder(n)
           m == Stamped(n, name)
           n2 == [t EXCEPT !.datasets = t.datasets \cup {m}]
<1>1. m \in Member /\ m.name = name /\ m.creation_order = n.next_creation_order
  BY MemberFacts DEF Stamped, Member
<1>2. t \in GroupNode
  BY TakeFacts
<1> HIDE DEF t, m
<1>3. n2 \in GroupNode
  BY <1>1, <1>2 DEF GroupNode
<1>4. /\ n2.datasets = t.datasets \cup {m} /\ n2.groups = t.groups /\ n2.links = t.links
      /\ n2.style = t.style /\ n2.track_order = t.track_order
      /\ n2.next_creation_order = t.next_creation_order
  BY <1>2 DEF GroupNode
<1> HIDE DEF n2
<1>5. /\ n2.datasets = n.datasets \cup {m} /\ n2.groups = n.groups /\ n2.links = n.links
      /\ n2.style = n.style /\ n2.track_order = n.track_order
      /\ n2.next_creation_order = n.next_creation_order + 1
  BY <1>4, TakeFacts DEF t
<1>6. Members(n2) = Members(n) \cup {m}
  BY <1>5 DEF Members
<1>7. name \notin Names(Members(n))
  BY MemberFacts
<1>8. Adds(n, n2, m)
  BY <1>1, <1>3, <1>5, <1>6, <1>7 DEF Adds
<1>9. PushDataset(n, name) = n2
  BY DEF PushDataset, n2, t, m
<1> QED
  BY <1>5, <1>8, <1>9 DEF m

LEMMA PushGroupAdds ==
    ASSUME NEW n \in GroupNode, NEW name \in Name, ~NameTaken(n, name)
    PROVE  LET n2 == PushGroup(n, name)
           IN  /\ Adds(n, n2, Stamped(n, name))
               /\ n2.style = n.style /\ n2.track_order = n.track_order
               /\ n2.links = n.links
               /\ name \in Names(n2.groups)
<1> DEFINE t == TakeCreationOrder(n)
           m == Stamped(n, name)
           n2 == [t EXCEPT !.groups = t.groups \cup {m}]
<1>1. m \in Member /\ m.name = name /\ m.creation_order = n.next_creation_order
  BY MemberFacts DEF Stamped, Member
<1>2. t \in GroupNode
  BY TakeFacts
<1> HIDE DEF t, m
<1>3. n2 \in GroupNode
  BY <1>1, <1>2 DEF GroupNode
<1>4. /\ n2.datasets = t.datasets /\ n2.groups = t.groups \cup {m} /\ n2.links = t.links
      /\ n2.style = t.style /\ n2.track_order = t.track_order
      /\ n2.next_creation_order = t.next_creation_order
  BY <1>2 DEF GroupNode
<1> HIDE DEF n2
<1>5. /\ n2.datasets = n.datasets /\ n2.groups = n.groups \cup {m} /\ n2.links = n.links
      /\ n2.style = n.style /\ n2.track_order = n.track_order
      /\ n2.next_creation_order = n.next_creation_order + 1
  BY <1>4, TakeFacts DEF t
<1>6. Members(n2) = Members(n) \cup {m}
  BY <1>5 DEF Members
<1>7. name \notin Names(Members(n)) /\ name \in Names(n2.groups)
  BY <1>1, <1>5, MemberFacts DEF Names
<1>8. Adds(n, n2, m)
  BY <1>1, <1>3, <1>5, <1>6, <1>7 DEF Adds
<1>9. PushGroup(n, name) = n2
  BY DEF PushGroup, n2, t, m
<1> QED
  BY <1>5, <1>7, <1>8, <1>9 DEF m

LEMMA PushLinkAdds ==
    ASSUME NEW n \in GroupNode, NEW name \in Name, NEW kind \in LinkKind,
           ~NameTaken(n, name)
    PROVE  LET m == [name |-> name, creation_order |-> n.next_creation_order, kind |-> kind]
               n2 == PushLink(n, name, kind)
           IN  /\ Adds(n, n2, m)
               /\ n2.style = n.style /\ n2.track_order = n.track_order
               /\ n2.links = n.links \cup {m}
<1> DEFINE t == TakeCreationOrder(n)
           m == [name |-> name, creation_order |-> n.next_creation_order, kind |-> kind]
           n2 == [t EXCEPT !.links = t.links \cup {m}]
<1>1. m \in LinkDesc /\ m.name = name /\ m.creation_order = n.next_creation_order
  BY MemberFacts DEF LinkDesc
<1>2. t \in GroupNode
  BY TakeFacts
<1> HIDE DEF t, m
<1>3. n2 \in GroupNode
  BY <1>1, <1>2 DEF GroupNode
<1>4. /\ n2.datasets = t.datasets /\ n2.groups = t.groups /\ n2.links = t.links \cup {m}
      /\ n2.style = t.style /\ n2.track_order = t.track_order
      /\ n2.next_creation_order = t.next_creation_order
  BY <1>2 DEF GroupNode
<1> HIDE DEF n2
<1>5. /\ n2.datasets = n.datasets /\ n2.groups = n.groups /\ n2.links = n.links \cup {m}
      /\ n2.style = n.style /\ n2.track_order = n.track_order
      /\ n2.next_creation_order = n.next_creation_order + 1
  BY <1>4, TakeFacts DEF t
<1>6. Members(n2) = Members(n) \cup {m}
  BY <1>5 DEF Members
<1>7. name \notin Names(Members(n))
  BY MemberFacts
<1>8. Adds(n, n2, m)
  BY <1>1, <1>3, <1>5, <1>6, <1>7 DEF Adds
<1>9. PushLink(n, name, kind) = n2
  BY DEF PushLink, n2, t, m
<1> QED
  BY <1>5, <1>8, <1>9 DEF m

LEMMA RequireFacts ==
    ASSUME NEW n \in GroupNode
    PROVE  LET n2 == RequireLinkMessages(n)
           IN  /\ n2 \in GroupNode
               /\ n2.datasets = n.datasets /\ n2.groups = n.groups /\ n2.links = n.links
               /\ n2.next_creation_order = n.next_creation_order
               /\ n2.track_order = n.track_order
               /\ n2.style = "LinkMessage"
BY DEF RequireLinkMessages, GroupNode, GroupStyle

LEMMA TrackFacts ==
    ASSUME NEW n \in GroupNode
    PROVE  LET n2 == TrackOrder(n)
           IN  /\ n2 \in GroupNode
               /\ n2.datasets = n.datasets /\ n2.groups = n.groups /\ n2.links = n.links
               /\ n2.next_creation_order = n.next_creation_order
               /\ n2.style = n.style
BY DEF TrackOrder, GroupNode

\* What any step may do to a node: keep its own invariants, and lose no sub-group.
Grows(n, n2) == /\ n2 \in GroupNode
                /\ NodeOK(n) => NodeOK(n2)
                /\ Names(n.groups) \subseteq Names(n2.groups)
                /\ Members(n) \subseteq Members(n2)
                /\ n.style = "LinkMessage" => n2.style = "LinkMessage"

LEMMA PushDatasetGrows ==
    ASSUME NEW n \in GroupNode, NEW name \in Name, ~NameTaken(n, name)
    PROVE  Grows(n, PushDataset(n, name))
<1> DEFINE n2 == PushDataset(n, name)
<1>1. /\ Adds(n, n2, Stamped(n, name))
      /\ n2.style = n.style /\ n2.track_order = n.track_order /\ n2.links = n.links
  BY PushDatasetAdds
<1> HIDE DEF n2
<1>2. NodeOK(n) => NodeOK(n2)
  BY <1>1, AddsKeepsOrder DEF NodeOK
<1>3. Grows(n, n2)
  BY <1>1, <1>2 DEF Grows, Adds, Names
<1> QED
  BY <1>3 DEF n2

LEMMA PushGroupGrows ==
    ASSUME NEW n \in GroupNode, NEW name \in Name, ~NameTaken(n, name)
    PROVE  Grows(n, PushGroup(n, name))
<1> DEFINE n2 == PushGroup(n, name)
<1>1. /\ Adds(n, n2, Stamped(n, name))
      /\ n2.style = n.style /\ n2.track_order = n.track_order /\ n2.links = n.links
  BY PushGroupAdds
<1> HIDE DEF n2
<1>2. NodeOK(n) => NodeOK(n2)
  BY <1>1, AddsKeepsOrder DEF NodeOK
<1>3. Grows(n, n2)
  BY <1>1, <1>2 DEF Grows, Adds, Names
<1> QED
  BY <1>3 DEF n2

LEMMA PushLinkGrows ==
    ASSUME NEW n \in GroupNode, NEW name \in Name, NEW kind \in LinkKind,
           ~NameTaken(n, name)
    PROVE  Grows(n, IF kind = "external"
                    THEN RequireLinkMessages(PushLink(n, name, kind))
                    ELSE PushLink(n, name, kind))
<1> DEFINE m == [name |-> name, creation_order |-> n.next_creation_order, kind |-> kind]
           n1 == PushLink(n, name, kind)
           n2 == IF kind = "external" THEN RequireLinkMessages(n1) ELSE n1
<1>1. /\ Adds(n, n1, m)
      /\ n1.style = n.style /\ n1.track_order = n.track_order
      /\ n1.links = n.links \cup {m}
  BY PushLinkAdds
<1>2. m.kind = kind
  OBVIOUS
<1> HIDE DEF m, n1
<1>3. n1 \in GroupNode
  BY <1>1 DEF Adds
<1>4. /\ n2 \in GroupNode
      /\ n2.datasets = n1.datasets /\ n2.groups = n1.groups /\ n2.links = n1.links
      /\ n2.next_creation_order = n1.next_creation_order
      /\ n2.track_order = n1.track_order
      /\ kind = "external" => n2.style = "LinkMessage"
      /\ kind # "external" => n2.style = n1.style
  BY <1>3, RequireFacts
<1> HIDE DEF n2
<1>5. Adds(n, n2, m)
  BY <1>1, <1>4 DEF Adds, Members
<1>6. n.style = "LinkMessage" => n2.style = "LinkMessage"
  BY <1>1, <1>4
<1>7. NodeOK(n) => NodeOK(n2)
  BY <1>1, <1>2, <1>4, <1>5, AddsKeepsOrder DEF NodeOK
<1>8. Grows(n, n2)
  BY <1>5, <1>6, <1>7 DEF Grows, Adds, Names
<1> QED
  BY <1>8 DEF n2, n1

LEMMA StyleGrows ==
    ASSUME NEW n \in GroupNode
    PROVE  /\ Grows(n, RequireLinkMessages(n))
           /\ Grows(n, RequireLinkMessages(TrackOrder(n)))
<1>1. Grows(n, RequireLinkMessages(n))
  BY RequireFacts DEF Grows, NodeOK, Members, Names
<1> DEFINE n1 == TrackOrder(n)
           n2 == RequireLinkMessages(n1)
<1>2. n1 \in GroupNode
      /\ n1.datasets = n.datasets /\ n1.groups = n.groups /\ n1.links = n.links
      /\ n1.next_creation_order = n.next_creation_order
  BY TrackFacts
<1> HIDE DEF n1
<1>3. n2 \in GroupNode
      /\ n2.datasets = n1.datasets /\ n2.groups = n1.groups /\ n2.links = n1.links
      /\ n2.next_creation_order = n1.next_creation_order
      /\ n2.style = "LinkMessage"
  BY <1>2, RequireFacts
<1> HIDE DEF n2
<1>4. Members(n2) = Members(n)
  BY <1>2, <1>3 DEF Members
<1>5. Grows(n, n2)
  BY <1>2, <1>3, <1>4 DEF Grows, NodeOK, Names
<1> QED
  BY <1>1, <1>5 DEF n2, n1

-----------------------------------------------------------------------------
(* The inductive invariant *)

Listed(p) == p[Len(p)] \in Names(root[Prefix(p, Len(p) - 1)].groups)

\* Where the call in progress stands: at a group that is listed in its parent,
\* and, once it has created something, at a group that is still empty.
CallOK ==
    /\ op = "idle" => root = before
    /\ op # "idle" => outcome = "pending"
    /\ op # "idle" => depth \in 0..Goal
    /\ Creates(op) => path # <<>>
    /\ (op # "idle" /\ depth > 0) => Listed(At)
    /\ root # before => Creates(op) /\ root[At] = EmptyNode

NodesOK == \A p \in Path : NodeOK(root[p])

IInv == TypeOK /\ NodesOK /\ NoOrphans /\ CallOK

LEMMA PathLength ==
    ASSUME NEW p \in Path
    PROVE  /\ Len(p) \in Nat
           /\ p = <<>> => Len(p) = 0
           /\ p # <<>> => Len(p) \in Nat \ {0}
<1>1. p \in Seq(Name) /\ Len(p) \in Nat
  BY PathFacts, DepthAssumption
<1>2. p # <<>> => Len(p) \in Nat \ {0}
  BY <1>1, EmptySeq
<1>3. p = <<>> => Len(p) = 0
  BY EmptySeq
<1> QED
  BY <1>1, <1>2, <1>3

LEMMA GoalFacts ==
    ASSUME NEW p \in Path, NEW o
    PROVE  /\ GoalOf(o, p) \in 0..Len(p)
           /\ p # <<>> /\ ~WantsGroup(o) => GoalOf(o, p) = Len(p) - 1
<1> DEFINE n == Len(p)
<1>1. n \in Nat /\ (p # <<>> => n > 0)
  BY PathLength
<1>2. GoalOf(o, p) = IF WantsGroup(o) \/ p = <<>> THEN n ELSE n - 1
  BY DEF GoalOf
<1> HIDE DEF n
<1>3. GoalOf(o, p) \in 0..n
  BY <1>1, <1>2
<1>4. p # <<>> /\ ~WantsGroup(o) => GoalOf(o, p) = n - 1
  BY <1>2
<1> QED
  BY <1>3, <1>4 DEF n

LEMMA PathOfCall ==
    ASSUME TypeOK
    PROVE  /\ path \in Path /\ Len(path) \in Nat /\ depth \in Nat
           /\ Goal \in 0..Len(path)
           /\ path # <<>> => Len(path) > 0
           /\ path # <<>> /\ ~WantsGroup(op) => Goal = Len(path) - 1
           /\ \A i \in 1..Len(path) : path[i] \in Name
           /\ At \in Path /\ Len(At) = depth
           /\ root[At] \in GroupNode
<1>1. path \in Path /\ depth \in 0..Len(path) /\ root \in [Path -> GroupNode]
  BY DEF TypeOK
<1>2. /\ path \in Seq(Name) /\ Len(path) \in Nat
      /\ path \in [1..Len(path) -> Name]
  BY <1>1, PathFacts, DepthAssumption
<1>3. path # <<>> => Len(path) > 0
  BY <1>1, PathLength
<1>4. /\ Goal \in 0..Len(path)
      /\ path # <<>> /\ ~WantsGroup(op) => Goal = Len(path) - 1
  BY <1>1, GoalFacts DEF Goal
<1>5. At \in Path /\ Len(At) = depth /\ depth \in Nat
  BY <1>1, <1>2, PrefixFacts DEF At
<1> QED
  BY <1>1, <1>2, <1>3, <1>4, <1>5

\* A step that lets one group grow, the one the call has walked to.
LEMMA GrowStep ==
    ASSUME IInv, op # "idle", NEW n2, Grows(root[At], n2),
           root' = [root EXCEPT ![At] = n2]
    PROVE  /\ root' \in [Path -> GroupNode]
           /\ NodesOK' /\ NoOrphans'
           /\ \A p \in Path : Names(root[p].groups) \subseteq Names(root'[p].groups)
<1> USE DEF IInv
<1>1. At \in Path /\ root \in [Path -> GroupNode] /\ depth \in Nat /\ Len(At) = depth
  BY PathOfCall DEF TypeOK
<1>2. root' \in [Path -> GroupNode]
  BY <1>1 DEF Grows
<1>3. NodesOK'
  BY <1>1 DEF NodesOK, Grows
<1>4. \A p \in Path : Names(root[p].groups) \subseteq Names(root'[p].groups)
  BY <1>1 DEF Grows
<1>5. ASSUME NEW p \in Path, root'[p] # EmptyNode, p # <<>>
      PROVE  p[Len(p)] \in Names(root'[Prefix(p, Len(p) - 1)].groups)
  <2>1. Len(p) \in Nat /\ Len(p) > 0 /\ p \in Seq(Name)
    BY <1>5, PathFacts, PathLength
  <2>2. Prefix(p, Len(p) - 1) \in Path
    BY <2>1, PrefixFacts
  <2>3. CASE p = At
    BY <1>1, <1>4, <2>1, <2>2, <2>3 DEF CallOK, Listed
  <2>4. CASE p # At
    <3>1. root'[p] = root[p]
      BY <1>1, <2>4
    <3>2. p[Len(p)] \in Names(root[Prefix(p, Len(p) - 1)].groups)
      BY <1>5, <3>1 DEF NoOrphans
    <3> QED
      BY <1>4, <2>2, <3>2
  <2> QED
    BY <2>3, <2>4
<1>6. NoOrphans'
  BY <1>5 DEF NoOrphans
<1> QED
  BY <1>2, <1>3, <1>4, <1>6

LEMMA SameStep ==
    ASSUME IInv, UNCHANGED root
    PROVE  root' \in [Path -> GroupNode] /\ NodesOK' /\ NoOrphans'
BY DEF IInv, TypeOK, NodesOK, NoOrphans

LEMMA EmptyPath == <<>> \in Path /\ Len(<<>>) = 0
<1>1. <<>> \in [1..0 -> Name]
  OBVIOUS
<1> QED
  BY <1>1, EmptySeq, DepthAssumption DEF Path

\* A step that returns to the caller needs only the tree to be sound.
LEMMA ReturnStep ==
    ASSUME NEW result \in Outcome, Return(result),
           root' \in [Path -> GroupNode], NodesOK', NoOrphans'
    PROVE  IInv'
<1>1. /\ op' = "idle" /\ path' = <<>> /\ depth' = 0 /\ before' = root'
      /\ outcome' = result
  BY DEF Return
<1>2. TypeOK'
  BY <1>1, EmptyPath DEF TypeOK
<1>3. ~Creates("idle")
  BY LinkKindAssumption DEF Creates, Insertion
<1>4. CallOK'
  BY <1>1, <1>3 DEF CallOK, Creates
<1> QED
  BY <1>2, <1>4 DEF IInv

LEMMA Outcomes == {"ok", "Format", "NotFound", "pending"} \subseteq Outcome
BY DEF Outcome, Error

LEMMA InitIInv == Init => IInv
<1> SUFFICES ASSUME Init PROVE IInv
  OBVIOUS
<1>1. TypeOK
  BY EmptyPath, EmptyNodeOK DEF Init, TypeOK, Outcome
<1>2. NodesOK
  BY EmptyNodeOK DEF Init, NodesOK
<1>3. NoOrphans
  BY DEF Init, NoOrphans
<1>4. CallOK
  BY LinkKindAssumption DEF Init, CallOK, Creates, Insertion
<1> QED
  BY <1>1, <1>2, <1>3, <1>4 DEF IInv

LEMMA EnterStep ==
    ASSUME IInv, NEW o \in Op, NEW segments \in RawPath, Enter(o, segments)
    PROVE  IInv'
<1>1. /\ op = "idle" /\ segments \in Path /\ op' = o /\ path' = segments /\ depth' = 0
      /\ root' = root /\ before' = before /\ outcome' = "pending"
      /\ ~(segments = <<>> /\ Creates(o))
  BY DEF Enter, SplitPathOk
<1>2. root = before
  BY <1>1 DEF IInv, CallOK
<1>3. TypeOK'
  <2>1. Len(segments) \in Nat
    BY <1>1, PathFacts, DepthAssumption
  <2> QED
    BY <1>1, <2>1, Outcomes DEF IInv, TypeOK
<1>4. 0 \in 0..Goal'
  <2>1. GoalOf(o, segments) \in 0..Len(segments) /\ Len(segments) \in Nat
    BY <1>1, GoalFacts, PathLength
  <2>2. Goal' = GoalOf(o, segments)
    BY <1>1 DEF Goal
  <2> QED
    BY <2>1, <2>2
<1>5. CallOK'
  BY <1>1, <1>2, <1>4 DEF CallOK, Creates
<1> QED
  BY <1>1, <1>3, <1>5, SameStep DEF IInv

LEMMA RefuseStep == ASSUME IInv, Refuse PROVE IInv'
<1>1. UNCHANGED root /\ Return("Format")
  BY DEF Refuse
<1> QED
  BY <1>1, SameStep, ReturnStep, Outcomes

\* Every step of a call leaves the tree alone or lets the group it is at grow.
StepGrows(n2) == Grows(root[At], n2) /\ root' = [root EXCEPT ![At] = n2]

LEMMA CallStepGrows ==
    ASSUME IInv, Walk \/ Finish
    PROVE  op # "idle" /\ (UNCHANGED root \/ \E n2 : StepGrows(n2))
<1>1. TypeOK /\ CallOK
  BY DEF IInv
<1>2. /\ root[At] \in GroupNode /\ Len(path) \in Nat /\ depth \in Nat
      /\ Goal \in 0..Len(path)
      /\ \A i \in 1..Len(path) : path[i] \in Name
      /\ path # <<>> => Len(path) > 0
  BY <1>1, PathOfCall
<1>3. Creates(op) => path # <<>>
  BY <1>1 DEF CallOK
<1>4. op # "idle"
  BY DEF Walk, Descend, CreateIntermediate, GroupMissing, NotAGroup, Walking,
         Finish, AlreadyExists, InsertDataset, InsertGroup, InsertLink, SetTrackOrder,
         SetLinkStorage, FindAttrs, NoAttrs, FindDataset, NoDataset, Inserting, Arrived
<1>5. CASE CreateIntermediate
  <2>1. path[depth + 1] \in Name /\ ~NameTaken(root[At], path[depth + 1])
    BY <1>2, <1>5 DEF CreateIntermediate, Walking
  <2>2. StepGrows(PushGroup(root[At], path[depth + 1]))
    BY <1>2, <1>5, <2>1, PushGroupGrows DEF CreateIntermediate, StepGrows
  <2> QED
    BY <1>4, <2>2
<1>6. CASE InsertDataset
  <2>1. Leaf \in Name /\ ~NameTaken(root[At], Leaf)
    BY <1>2, <1>3, <1>6 DEF InsertDataset, Inserting, Leaf
  <2>2. StepGrows(PushDataset(root[At], Leaf))
    BY <1>2, <1>6, <2>1, PushDatasetGrows DEF InsertDataset, StepGrows
  <2> QED
    BY <1>4, <2>2
<1>7. CASE InsertGroup
  <2>1. Leaf \in Name /\ ~NameTaken(root[At], Leaf)
    BY <1>2, <1>3, <1>7 DEF InsertGroup, Inserting, Leaf
  <2>2. StepGrows(PushGroup(root[At], Leaf))
    BY <1>2, <1>7, <2>1, PushGroupGrows DEF InsertGroup, StepGrows
  <2> QED
    BY <1>4, <2>2
<1>8. CASE InsertLink
  <2>1. Leaf \in Name /\ ~NameTaken(root[At], Leaf) /\ op \in LinkKind
    BY <1>2, <1>3, <1>8 DEF InsertLink, Inserting, Leaf
  <2>2. StepGrows(IF op = "external"
                  THEN RequireLinkMessages(PushLink(root[At], Leaf, op))
                  ELSE PushLink(root[At], Leaf, op))
    BY <1>2, <1>8, <2>1, PushLinkGrows DEF InsertLink, StepGrows
  <2> QED
    BY <1>4, <2>2
<1>9. CASE SetTrackOrder
  <2>1. StepGrows(RequireLinkMessages(TrackOrder(root[At])))
    BY <1>2, <1>9, StyleGrows DEF SetTrackOrder, StepGrows
  <2> QED
    BY <1>4, <2>1
<1>10. CASE SetLinkStorage
  <2>1. StepGrows(RequireLinkMessages(root[At]))
    BY <1>2, <1>10, StyleGrows DEF SetLinkStorage, StepGrows
  <2> QED
    BY <1>4, <2>1
<1>11. CASE Descend \/ GroupMissing \/ NotAGroup \/ AlreadyExists
            \/ FindAttrs \/ NoAttrs \/ FindDataset \/ NoDataset
  BY <1>4, <1>11 DEF Descend, GroupMissing, NotAGroup, AlreadyExists,
                     FindAttrs, NoAttrs, FindDataset, NoDataset
<1> QED
  BY <1>5, <1>6, <1>7, <1>8, <1>9, <1>10, <1>11 DEF Walk, Finish

LEMMA CallStepTree ==
    ASSUME IInv, Walk \/ Finish
    PROVE  /\ root' \in [Path -> GroupNode] /\ NodesOK' /\ NoOrphans'
           /\ \A p \in Path : Names(root[p].groups) \subseteq Names(root'[p].groups)
<1>1. CASE UNCHANGED root
  BY <1>1, SameStep
<1>2. CASE \E n2 : StepGrows(n2)
  <2>1. PICK n2 : StepGrows(n2)
    BY <1>2
  <2> QED
    BY <2>1, CallStepGrows, GrowStep DEF StepGrows
<1> QED
  BY <1>1, <1>2, CallStepGrows

\* The name the walk resolves next, and the group it stands for.
LEMMA NextAt ==
    ASSUME IInv, Walking
    PROVE  LET next == Prefix(path, depth + 1)
           IN  /\ next \in Path /\ next # <<>> /\ next # At
               /\ Len(next) = depth + 1
               /\ Prefix(next, depth) = At
               /\ next[depth + 1] = path[depth + 1]
               /\ depth + 1 \in 0..Goal
               /\ depth + 1 \in 0..Len(path)
<1> DEFINE next == Prefix(path, depth + 1)
<1>1. /\ path \in Path /\ Len(path) \in Nat /\ depth \in Nat
      /\ Goal \in 0..Len(path) /\ Len(At) = depth
  BY PathOfCall DEF IInv
<1>2. depth < Goal
  BY DEF Walking
<1>3. depth + 1 \in 0..Goal /\ depth + 1 \in 0..Len(path)
      /\ depth \in 0..(depth + 1) /\ depth + 1 \in 1..(depth + 1)
  BY <1>1, <1>2
<1>4. next \in Path /\ Len(next) = depth + 1
      /\ Prefix(next, depth) = At /\ next[depth + 1] = path[depth + 1]
  BY <1>1, <1>3, PrefixFacts DEF At
<1>5. next # At
  BY <1>1, <1>4
<1>6. next # <<>>
  BY <1>1, <1>4, PathLength
<1> QED
  BY <1>3, <1>4, <1>5, <1>6

LEMMA DescendStep == ASSUME IInv, Descend PROVE IInv'
<1> DEFINE next == Prefix(path, depth + 1)
<1>1. /\ Walking /\ path[depth + 1] \in Names(root[At].groups)
      /\ depth' = depth + 1
      /\ root' = root /\ op' = op /\ path' = path /\ before' = before /\ outcome' = outcome
  BY DEF Descend
<1>2. /\ next \in Path /\ Len(next) = depth + 1 /\ Prefix(next, depth) = At
      /\ next[depth + 1] = path[depth + 1]
      /\ depth + 1 \in 0..Goal /\ depth + 1 \in 0..Len(path) /\ depth \in Nat
  BY <1>1, NextAt, PathOfCall DEF IInv
<1>3. At' = next
  BY <1>1 DEF At, Prefix
<1>4. root = before
  BY <1>1 DEF IInv, CallOK, EmptyNode, Names
<1>5. Listed(next)
  BY <1>1, <1>2 DEF Listed
<1>6. Goal' = Goal
  BY <1>1 DEF Goal, GoalOf, WantsGroup
<1>7. TypeOK'
  BY <1>1, <1>2 DEF IInv, TypeOK
<1>8. op # "idle" /\ outcome = "pending" /\ (Creates(op) => path # <<>>)
  BY <1>1 DEF IInv, CallOK, Walking
<1>9. Listed(At)'
  BY <1>1, <1>3, <1>5 DEF Listed
<1>10. CallOK'
  BY <1>1, <1>2, <1>4, <1>6, <1>8, <1>9 DEF CallOK, Creates
<1> QED
  BY <1>1, <1>7, <1>10, SameStep DEF IInv

LEMMA CreateIntermediateStep == ASSUME IInv, CreateIntermediate PROVE IInv'
<1> DEFINE next == Prefix(path, depth + 1)
           name == path[depth + 1]
<1>1. /\ Walking /\ Creates(op) /\ ~NameTaken(root[At], name)
      /\ root' = [root EXCEPT ![At] = PushGroup(root[At], name)]
      /\ depth' = depth + 1
      /\ op' = op /\ path' = path /\ before' = before /\ outcome' = outcome
  BY DEF CreateIntermediate
<1>2. /\ next \in Path /\ next # <<>> /\ next # At /\ Len(next) = depth + 1
      /\ Prefix(next, depth) = At /\ next[depth + 1] = name
      /\ depth + 1 \in 0..Goal /\ depth + 1 \in 0..Len(path)
  BY <1>1, NextAt
<1>3. /\ depth \in Nat /\ At \in Path /\ root[At] \in GroupNode
      /\ root \in [Path -> GroupNode] /\ name \in Name
  BY <1>1, <1>2, PathOfCall DEF IInv, TypeOK
<1>4. name \in Names(root'[At].groups)
  BY <1>1, <1>3, PushGroupAdds
<1>5. root[next] = EmptyNode
  <2>1. name \notin Names(root[At].groups)
    BY <1>1 DEF NameTaken
  <2> QED
    BY <1>2, <1>3, <2>1 DEF IInv, NoOrphans
<1>6. root'[next] = EmptyNode
  BY <1>1, <1>2, <1>3, <1>5
<1>7. At' = next
  BY <1>1 DEF At, Prefix
<1>8. Goal' = Goal
  BY <1>1 DEF Goal, GoalOf, WantsGroup
<1>9. Listed(At)'
  BY <1>1, <1>2, <1>3, <1>4, <1>7 DEF Listed
<1>10. /\ root' \in [Path -> GroupNode] /\ NodesOK' /\ NoOrphans'
  BY CallStepTree DEF Walk
<1>11. TypeOK'
  BY <1>1, <1>2, <1>10 DEF IInv, TypeOK
<1>12. op # "idle" /\ outcome = "pending" /\ path # <<>>
  BY <1>1 DEF IInv, CallOK, Walking
<1>13. CallOK'
  BY <1>1, <1>2, <1>6, <1>7, <1>8, <1>9, <1>12 DEF CallOK, Creates
<1> QED
  BY <1>10, <1>11, <1>13 DEF IInv

LEMMA CallStep == ASSUME IInv, Walk \/ Finish PROVE IInv'
<1>1. CASE Descend
  BY <1>1, DescendStep
<1>2. CASE CreateIntermediate
  BY <1>2, CreateIntermediateStep
<1>3. CASE GroupMissing \/ NotAGroup \/ Finish
  <2>1. \E result \in Outcome : Return(result)
    BY <1>3, Outcomes
       DEF GroupMissing, NotAGroup, Finish, AlreadyExists, InsertDataset, InsertGroup,
           InsertLink, SetTrackOrder, SetLinkStorage, FindAttrs, NoAttrs,
           FindDataset, NoDataset
  <2> QED
    BY <2>1, CallStepTree, ReturnStep
<1> QED
  BY <1>1, <1>2, <1>3 DEF Walk

LEMMA StutterStep == ASSUME IInv, UNCHANGED vars PROVE IInv'
<1> USE DEF vars
<1>1. TypeOK' /\ NodesOK' /\ NoOrphans'
  BY DEF IInv, TypeOK, NodesOK, NoOrphans
<1>2. At' = At /\ Goal' = Goal
  BY DEF At, Prefix, Goal, GoalOf, WantsGroup
<1>3. CallOK'
  BY <1>2 DEF IInv, CallOK, Creates, Listed
<1> QED
  BY <1>1, <1>3 DEF IInv

LEMMA NextIInv == IInv /\ [Next]_vars => IInv'
<1> SUFFICES ASSUME IInv, [Next]_vars PROVE IInv'
  OBVIOUS
<1>1. CASE \E o \in Op, segments \in RawPath : Enter(o, segments)
  BY <1>1, EnterStep
<1>2. CASE Refuse
  BY <1>2, RefuseStep
<1>3. CASE Walk \/ Finish
  BY <1>3, CallStep
<1>4. CASE UNCHANGED vars
  BY <1>4, StutterStep
<1> QED
  BY <1>1, <1>2, <1>3, <1>4 DEF Next

-----------------------------------------------------------------------------
(* The theorems *)

\* The inductive invariant holds in every reachable state, and with it the type
\* invariant of the walk and of the tree it grows.
THEOREM InvariantHolds == Spec => [](TypeOK /\ NodesOK /\ NoOrphans /\ CallOK)
<1>1. Init => IInv
  BY InitIInv
<1>2. IInv /\ [Next]_vars => IInv'
  BY NextIInv
<1>3. IInv => TypeOK /\ NodesOK /\ NoOrphans /\ CallOK
  BY DEF IInv
<1> QED
  BY <1>1, <1>2, <1>3, PTL DEF Spec

LEMMA SpecIInv == Spec => []IInv
<1> QED
  BY InitIInv, NextIInv, PTL DEF Spec

\* The three member lists of a group never share a name (name_taken).
THEOREM NamesAreUnique == Spec => []NamesUnique
<1>1. IInv => NamesUnique
  BY DEF IInv, NodesOK, NodeOK, NamesUnique
<1> QED
  BY <1>1, SpecIInv, PTL

\* Creation orders are one gapless sequence per group (take_creation_order).
THEOREM CreationOrderIsOneSequence == Spec => []CreationOrderIsASequence
<1>1. IInv => CreationOrderIsASequence
  BY DEF IInv, NodesOK, NodeOK, CreationOrderIsASequence
<1> QED
  BY <1>1, SpecIInv, PTL

\* Nothing is filed under a path that no walk from the root reaches (group_mut).
THEOREM NothingIsOrphaned == Spec => []NoOrphans
<1>1. IInv => NoOrphans
  BY DEF IInv
<1> QED
  BY <1>1, SpecIInv, PTL

\* A group's storage style can express every member it holds.
THEOREM StyleSuffices == Spec => []StyleCanExpressMembers
<1>1. IInv => StyleCanExpressMembers
  BY DEF IInv, NodesOK, NodeOK, StyleCanExpressMembers
<1> QED
  BY <1>1, SpecIInv, PTL

\* A call that fails has changed nothing by the time it returns.
LEMMA FailingStep ==
    ASSUME IInv, GroupMissing \/ NotAGroup \/ AlreadyExists \/ NoAttrs \/ NoDataset
    PROVE  root' = root /\ root = before
<1>1. root' = root /\ op # "idle"
  BY DEF GroupMissing, NotAGroup, AlreadyExists, NoAttrs, NoDataset, Walking, Arrived, Inserting
<1>2. CASE GroupMissing \/ NoAttrs \/ NoDataset
  <2>1. ~Creates(op)
    BY <1>2, LinkKindAssumption DEF GroupMissing, NoAttrs, NoDataset, Creates, Insertion
  <2> QED
    BY <1>1, <2>1 DEF IInv, CallOK
<1>3. CASE NotAGroup \/ AlreadyExists
  <2>1. root[At] # EmptyNode
    BY <1>3 DEF NotAGroup, AlreadyExists, NameTaken, Names, EmptyNode
  <2> QED
    BY <1>1, <2>1 DEF IInv, CallOK
<1> QED
  BY <1>2, <1>3

\* A call that returns an error returns the tree it found, wherever in its walk
\* it failed (insertion_point, group_mut, attrs_mut, dataset_mut).
THEOREM FailedCallsLeaveNoTrace == Spec => FailureLeavesNoTrace
<1>1. ASSUME IInv, [Next]_vars, op # "idle", outcome' \in Error, ~UNCHANGED vars
      PROVE  root' = before
  <2>1. Walk \/ Finish
    BY <1>1 DEF Next, Enter, Refuse
  <2>2. outcome' # "ok" /\ outcome' # "pending"
    BY <1>1 DEF Error
  <2>3. GroupMissing \/ NotAGroup \/ AlreadyExists \/ NoAttrs \/ NoDataset
    <3>1. ~Descend /\ ~CreateIntermediate
      BY <1>1, <2>2 DEF Descend, CreateIntermediate, IInv, CallOK
    <3> QED
      BY <2>1, <2>2, <3>1 DEF Walk, Finish, InsertDataset, InsertGroup, InsertLink,
            SetTrackOrder, SetLinkStorage, FindAttrs, FindDataset, Return
  <2> QED
    BY <1>1, <2>3, FailingStep
<1>2. IInv /\ [Next]_vars => [op # "idle" /\ outcome' \in Error => root' = before]_vars
  BY <1>1
<1> QED
  BY <1>2, SpecIInv, PTL DEF Spec, FailureLeavesNoTrace

\* Members, their creation orders and the move to link messages are for good.
THEOREM MembersAreForGood == Spec => MembersPersist
<1> DEFINE Kept == \A p \in Path :
               /\ Members(root[p]) \subseteq Members(root'[p])
               /\ root[p].style = "LinkMessage" => root'[p].style = "LinkMessage"
<1>1. ASSUME IInv, Next PROVE Kept
  <2>1. CASE UNCHANGED root
    BY <2>1
  <2>2. CASE ~UNCHANGED root
    <3>1. Walk \/ Finish
      BY <1>1, <2>2 DEF Next, Enter, Refuse
    <3>2. PICK n2 : StepGrows(n2)
      BY <1>1, <2>2, <3>1, CallStepGrows
    <3>3. root \in [Path -> GroupNode]
      BY <1>1 DEF IInv, TypeOK
    <3> QED
      BY <3>2, <3>3 DEF StepGrows, Grows
  <2> QED
    BY <2>1, <2>2
<1>2. IInv /\ [Next]_vars => [Kept]_vars
  BY <1>1
<1> QED
  BY <1>2, SpecIInv, PTL DEF Spec, MembersPersist

-----------------------------------------------------------------------------
(* The refinement: what is inserted, and how it is listed *)

\* A group files every member under one of its three lists.
Sorted(n) == /\ n.datasets \cap n.groups = {}
             /\ n.datasets \cap n.links = {} /\ n.groups \cap n.links = {}

\* n2 is n with m filed where an insertion of kind o files it.
Files(n, n2, m, o) ==
    /\ Adds(n, n2, m)
    /\ n2.datasets = IF o = "dataset" THEN n.datasets \cup {m} ELSE n.datasets
    /\ n2.groups = IF o = "group" THEN n.groups \cup {m} ELSE n.groups
    /\ n2.links = IF o \in LinkKind THEN n.links \cup {m} ELSE n.links
    /\ o \in LinkKind => m.kind = o

Inserted(n, name, o) == IF o = "dataset" THEN PushDataset(n, name)
                        ELSE IF o = "group" THEN PushGroup(n, name)
                        ELSE IF o = "external" THEN RequireLinkMessages(PushLink(n, name, o))
                        ELSE PushLink(n, name, o)

LEMMA PushedFields ==
    ASSUME NEW n \in GroupNode, NEW name \in Name
    PROVE  /\ LET n2 == PushDataset(n, name)
              IN  /\ n2.datasets = n.datasets \cup {Stamped(n, name)}
                  /\ n2.groups = n.groups /\ n2.links = n.links
           /\ LET n2 == PushGroup(n, name)
              IN  /\ n2.groups = n.groups \cup {Stamped(n, name)}
                  /\ n2.datasets = n.datasets /\ n2.links = n.links
<1> DEFINE t == TakeCreationOrder(n)
           m == Stamped(n, name)
           d == [t EXCEPT !.datasets = t.datasets \cup {m}]
           g == [t EXCEPT !.groups = t.groups \cup {m}]
<1>1. /\ t \in GroupNode
      /\ t.datasets = n.datasets /\ t.groups = n.groups /\ t.links = n.links
  BY TakeFacts
<1>2. PushDataset(n, name) = d /\ PushGroup(n, name) = g
  BY DEF PushDataset, PushGroup
<1> HIDE DEF t, m
<1>3. d.datasets = t.datasets \cup {m} /\ d.groups = t.groups /\ d.links = t.links
  BY <1>1 DEF GroupNode
<1>4. g.groups = t.groups \cup {m} /\ g.datasets = t.datasets /\ g.links = t.links
  BY <1>1 DEF GroupNode
<1> HIDE DEF d, g
<1>5. /\ d.datasets = n.datasets \cup {m} /\ d.groups = n.groups /\ d.links = n.links
      /\ g.groups = n.groups \cup {m} /\ g.datasets = n.datasets /\ g.links = n.links
  BY <1>1, <1>3, <1>4
<1> QED
  BY <1>2, <1>5 DEF m

LEMMA PushedLinkFields ==
    ASSUME NEW n \in GroupNode, NEW name \in Name, NEW kind \in LinkKind
    PROVE  LET n2 == PushLink(n, name, kind)
           IN  /\ n2.links = n.links \cup {[name |-> name, kind |-> kind,
                                            creation_order |-> n.next_creation_order]}
               /\ n2.datasets = n.datasets /\ n2.groups = n.groups
<1> DEFINE t == TakeCreationOrder(n)
           m == [name |-> name, creation_order |-> n.next_creation_order, kind |-> kind]
           l == [t EXCEPT !.links = t.links \cup {m}]
<1>1. /\ t \in GroupNode
      /\ t.datasets = n.datasets /\ t.groups = n.groups /\ t.links = n.links
  BY TakeFacts
<1>2. PushLink(n, name, kind) = l
  BY DEF PushLink
<1>3. m = [name |-> name, kind |-> kind, creation_order |-> n.next_creation_order]
  OBVIOUS
<1> HIDE DEF t, m
<1>4. l.links = t.links \cup {m} /\ l.groups = t.groups /\ l.datasets = t.datasets
  BY <1>1 DEF GroupNode
<1> HIDE DEF l
<1>5. l.links = n.links \cup {m} /\ l.groups = n.groups /\ l.datasets = n.datasets
  BY <1>1, <1>4
<1> QED
  BY <1>2, <1>3, <1>5

LEMMA InsertedFiles ==
    ASSUME NEW n \in GroupNode, NEW name \in Name, NEW o \in Insertion, ~NameTaken(n, name)
    PROVE  \E m : m.name = name /\ Files(n, Inserted(n, name, o), m, o)
<1>1. CASE o = "dataset"
  <2> DEFINE m == Stamped(n, name)
             n2 == PushDataset(n, name)
  <2>1. Adds(n, n2, m)
    BY PushDatasetAdds
  <2>2. n2.datasets = n.datasets \cup {m} /\ n2.groups = n.groups /\ n2.links = n.links
    BY PushedFields
  <2>3. m.name = name /\ Inserted(n, name, o) = n2 /\ o \notin LinkKind
    BY <1>1, LinkKindAssumption DEF Stamped, Inserted
  <2> HIDE DEF m, n2
  <2>4. Files(n, n2, m, o)
    BY <1>1, <2>1, <2>2, <2>3 DEF Files
  <2> QED
    BY <2>3, <2>4
<1>2. CASE o = "group"
  <2> DEFINE m == Stamped(n, name)
             n2 == PushGroup(n, name)
  <2>1. Adds(n, n2, m)
    BY PushGroupAdds
  <2>2. n2.groups = n.groups \cup {m} /\ n2.datasets = n.datasets /\ n2.links = n.links
    BY PushedFields
  <2>3. m.name = name /\ Inserted(n, name, o) = n2 /\ o \notin LinkKind
    BY <1>2, LinkKindAssumption DEF Stamped, Inserted
  <2> HIDE DEF m, n2
  <2>4. Files(n, n2, m, o)
    BY <1>2, <2>1, <2>2, <2>3 DEF Files
  <2> QED
    BY <2>3, <2>4
<1>3. CASE o \in LinkKind
  <2> DEFINE m == [name |-> name, creation_order |-> n.next_creation_order, kind |-> o]
             n1 == PushLink(n, name, o)
             n2 == IF o = "external" THEN RequireLinkMessages(n1) ELSE n1
  <2>1. Adds(n, n1, m)
    BY <1>3, PushLinkAdds
  <2>2. n1.links = n.links \cup {m} /\ n1.datasets = n.datasets /\ n1.groups = n.groups
    <3>1. m = [name |-> name, kind |-> o, creation_order |-> n.next_creation_order]
      OBVIOUS
    <3> HIDE DEF m
    <3> QED
      BY <1>3, <3>1, PushedLinkFields
  <2>3. m.name = name /\ m.kind = o
    OBVIOUS
  <2>4. o # "dataset" /\ o # "group"
    BY <1>3, LinkKindAssumption
  <2>5. Inserted(n, name, o) = n2
    BY <2>4 DEF Inserted
  <2> HIDE DEF m, n1
  <2>6. n1 \in GroupNode
    BY <2>1 DEF Adds
  <2>7. /\ n2 \in GroupNode
        /\ n2.datasets = n1.datasets /\ n2.groups = n1.groups /\ n2.links = n1.links
        /\ n2.next_creation_order = n1.next_creation_order
    BY <2>6, RequireFacts
  <2> HIDE DEF n2
  <2>8. Adds(n, n2, m)
    BY <2>1, <2>7 DEF Adds, Members
  <2>9. Files(n, n2, m, o)
    BY <1>3, <2>2, <2>3, <2>4, <2>7, <2>8 DEF Files
  <2> QED
    BY <2>3, <2>5, <2>9
<1> QED
  BY <1>1, <1>2, <1>3 DEF Insertion

-----------------------------------------------------------------------------

\* The member with a creation order is the one the listing has in its place.
LEMMA EntryIsMember ==
    ASSUME NEW n \in GroupNode, NodeOK(n)
    PROVE  /\ n.next_creation_order \in Nat
           /\ Len(Listing(n)) = n.next_creation_order
           /\ \A m \in Members(n) : /\ m.creation_order \in 0..(n.next_creation_order - 1)
                                    /\ EntryAt(n, m.creation_order)
                                          = [name |-> m.name, kind |-> KindOf(n, m)]
           /\ \A i \in 1..n.next_creation_order :
                 /\ Listing(n)[i] = EntryAt(n, i - 1)
                 /\ \E m \in Members(n) : m.creation_order = i - 1
<1>1. n.next_creation_order \in Nat
  BY MemberFacts
<1>2. Len(Listing(n)) = n.next_creation_order
        /\ \A i \in 1..n.next_creation_order : Listing(n)[i] = EntryAt(n, i - 1)
  BY <1>1 DEF Listing
<1>3. ASSUME NEW m \in Members(n)
      PROVE  /\ m.creation_order \in 0..(n.next_creation_order - 1)
             /\ EntryAt(n, m.creation_order) = [name |-> m.name, kind |-> KindOf(n, m)]
  <2>1. m.creation_order \in 0..(n.next_creation_order - 1)
    BY DEF NodeOK
  <2>2. (CHOOSE k \in Members(n) : k.creation_order = m.creation_order) = m
    BY DEF NodeOK
  <2> QED
    BY <2>1, <2>2 DEF EntryAt
<1>4. ASSUME NEW i \in 1..n.next_creation_order
      PROVE  \E m \in Members(n) : m.creation_order = i - 1
  <2>1. i - 1 \in 0..(n.next_creation_order - 1)
    BY <1>1
  <2>2. i - 1 \in {m.creation_order : m \in Members(n)}
    BY <2>1 DEF NodeOK
  <2> QED
    BY <2>2
<1> QED
  BY <1>1, <1>2, <1>3, <1>4

\* A name is listed when it is taken.
LEMMA ListedIsTaken ==
    ASSUME NEW n \in GroupNode, NodeOK(n), NEW name
    PROVE  (\E i \in 1..Len(Listing(n)) : Listing(n)[i].name = name) <=> NameTaken(n, name)
<1>1. ASSUME NEW i \in 1..Len(Listing(n)), Listing(n)[i].name = name
      PROVE  NameTaken(n, name)
  <2>1. PICK m \in Members(n) : m.creation_order = i - 1
    BY EntryIsMember
  <2>2. Listing(n)[i] = [name |-> m.name, kind |-> KindOf(n, m)]
    BY <2>1, EntryIsMember
  <2>3. m.name = name
    BY <1>1, <2>2
  <2> QED
    BY <2>1, <2>3, MemberFacts DEF Names
<1>2. ASSUME NameTaken(n, name)
      PROVE  \E i \in 1..Len(Listing(n)) : Listing(n)[i].name = name
  <2>1. PICK m \in Members(n) : m.name = name
    BY <1>2, MemberFacts DEF Names
  <2> DEFINE i == m.creation_order + 1
  <2>2. i \in 1..Len(Listing(n)) /\ i - 1 = m.creation_order
    <3>1. /\ m.creation_order \in 0..(n.next_creation_order - 1) /\ n.next_creation_order \in Nat
          /\ Len(Listing(n)) = n.next_creation_order
      BY EntryIsMember
    <3> QED
      BY <3>1
  <2>3. Listing(n)[i] = [name |-> m.name, kind |-> KindOf(n, m)]
    BY <2>2, EntryIsMember
  <2> QED
    BY <2>1, <2>2, <2>3
<1> QED
  BY <1>1, <1>2

\* A sub-group is listed as a group.
LEMMA SubgroupIsListed ==
    ASSUME NEW n \in GroupNode, NodeOK(n), Sorted(n), NEW name \in Names(n.groups)
    PROVE  \E i \in 1..Len(Listing(n)) : Listing(n)[i] = [name |-> name, kind |-> "group"]
<1>1. PICK m \in n.groups : m.name = name
  BY DEF Names
<1>2. m \in Members(n) /\ KindOf(n, m) = "group"
  BY DEF Members, KindOf, Sorted
<1> DEFINE i == m.creation_order + 1
<1>3. i \in 1..Len(Listing(n)) /\ i - 1 = m.creation_order
  <2>1. /\ m.creation_order \in 0..(n.next_creation_order - 1) /\ n.next_creation_order \in Nat
        /\ Len(Listing(n)) = n.next_creation_order
    BY <1>2, EntryIsMember
  <2> QED
    BY <2>1
<1>4. Listing(n)[i] = [name |-> m.name, kind |-> KindOf(n, m)]
  BY <1>2, <1>3, EntryIsMember
<1> QED
  BY <1>1, <1>2, <1>3, <1>4

\* What is filed is sorted, and listed behind the others as what it was filed as.
LEMMA FiledIsListed ==
    ASSUME NEW n \in GroupNode, NEW n2, NEW m, NEW o \in Insertion, NodeOK(n), Sorted(n),
           Files(n, n2, m, o)
    PROVE  /\ Sorted(n2)
           /\ Listing(n2) = Append(Listing(n), [name |-> m.name, kind |-> o])
<1>1. /\ Adds(n, n2, m) /\ n2 \in GroupNode
      /\ n2.next_creation_order = n.next_creation_order + 1
      /\ m.creation_order = n.next_creation_order
      /\ Members(n2) = Members(n) \cup {m}
  BY DEF Files, Adds
<1>2. m \notin Members(n)
  BY <1>1 DEF Adds, Names
<1>3. o # "dataset" => o = "group" \/ o \in LinkKind
  BY DEF Insertion
<1>4. "dataset" \notin LinkKind /\ "group" \notin LinkKind
  BY LinkKindAssumption
<1>5. Sorted(n2)
  BY <1>2, <1>3, <1>4 DEF Files, Sorted, Members
<1>6. /\ \A j, k \in Members(n2) : j.creation_order = k.creation_order => j = k
  BY <1>1, AddsKeepsOrder
<1>7. \A j \in Members(n2) : EntryAt(n2, j.creation_order) = [name |-> j.name, kind |-> KindOf(n2, j)]
  <2> SUFFICES ASSUME NEW j \in Members(n2)
               PROVE  EntryAt(n2, j.creation_order) = [name |-> j.name, kind |-> KindOf(n2, j)]
    OBVIOUS
  <2>1. (CHOOSE k \in Members(n2) : k.creation_order = j.creation_order) = j
    BY <1>6
  <2> QED
    BY <2>1 DEF EntryAt
<1>8. \A j \in Members(n) : KindOf(n2, j) = KindOf(n, j)
  BY <1>2 DEF Files, KindOf, Members
<1>9. KindOf(n2, m) = o
  BY <1>2, <1>3, <1>4 DEF Files, KindOf, Members
<1> DEFINE last == n.next_creation_order
<1>10. last \in Nat
  BY MemberFacts
<1>11. ASSUME NEW i \in 1..last PROVE EntryAt(n2, i - 1) = Listing(n)[i]
  <2>1. PICK j \in Members(n) : j.creation_order = i - 1
    BY EntryIsMember
  <2>2. Listing(n)[i] = [name |-> j.name, kind |-> KindOf(n, j)]
    BY <2>1, EntryIsMember
  <2>3. EntryAt(n2, i - 1) = [name |-> j.name, kind |-> KindOf(n2, j)]
    BY <1>1, <1>7, <2>1
  <2> QED
    BY <1>8, <2>2, <2>3
<1>12. EntryAt(n2, last) = [name |-> m.name, kind |-> o]
  BY <1>1, <1>7, <1>9
<1>13. Listing(n2) = [i \in 1..(last + 1) |-> EntryAt(n2, i - 1)]
  BY <1>1 DEF Listing
<1>14. Len(Listing(n)) = last /\ Listing(n) = [i \in 1..last |-> EntryAt(n, i - 1)]
  BY EntryIsMember DEF Listing
<1> HIDE DEF last
<1> DEFINE e == [name |-> m.name, kind |-> o]
           s == Listing(n)
<1>15. Listing(n2) = Append(s, e)
  <2>1. Append(s, e) = [i \in 1..(last + 1) |-> IF i = last + 1 THEN e ELSE s[i]]
    <3>1. Append(s, e) = [i \in 1..(Len(s) + 1) |-> IF i = Len(s) + 1 THEN e ELSE s[i]]
      OBVIOUS
    <3> QED
      BY <1>14, <3>1
  <2>2. \A i \in 1..(last + 1) : EntryAt(n2, i - 1) = IF i = last + 1 THEN e ELSE s[i]
    <3> HIDE DEF s, e
    <3> TAKE i \in 1..(last + 1)
    <3>1. CASE i = last + 1
      <4>1. i - 1 = last
        BY <1>10, <3>1
      <4> QED
        BY <1>12, <3>1, <4>1 DEF e
    <3>2. CASE i # last + 1
      <4>1. i \in 1..last
        BY <1>10, <3>2
      <4> QED
        BY <1>11, <3>2, <4>1 DEF s
    <3> QED
      BY <3>1, <3>2
  <2> HIDE DEF s, e
  <2> QED
    BY <1>13, <2>1, <2>2
<1> QED
  BY <1>5, <1>15

\* A change of style lists the same.
LEMMA StyleIsNotListed ==
    ASSUME NEW n \in GroupNode
    PROVE  /\ Sorted(n) => Sorted(RequireLinkMessages(n)) /\ Sorted(RequireLinkMessages(TrackOrder(n)))
           /\ Listing(RequireLinkMessages(n)) = Listing(n)
           /\ Listing(RequireLinkMessages(TrackOrder(n))) = Listing(n)
<1>1. ASSUME NEW n2, n2.datasets = n.datasets, n2.groups = n.groups, n2.links = n.links,
             n2.next_creation_order = n.next_creation_order
      PROVE  (Sorted(n) => Sorted(n2)) /\ Listing(n2) = Listing(n)
  <2>1. Members(n2) = Members(n) /\ \A m : KindOf(n2, m) = KindOf(n, m)
    BY <1>1 DEF Members, KindOf
  <2>2. \A k : EntryAt(n2, k) = EntryAt(n, k)
    BY <2>1 DEF EntryAt
  <2> QED
    BY <1>1, <2>2 DEF Sorted, Listing
<1> DEFINE n1 == RequireLinkMessages(n)
           t == TrackOrder(n)
           n2 == RequireLinkMessages(t)
<1>2. /\ n1.datasets = n.datasets /\ n1.groups = n.groups /\ n1.links = n.links
      /\ n1.next_creation_order = n.next_creation_order
  BY RequireFacts
<1>3. /\ t \in GroupNode
      /\ t.datasets = n.datasets /\ t.groups = n.groups /\ t.links = n.links
      /\ t.next_creation_order = n.next_creation_order
  BY TrackFacts
<1> HIDE DEF t
<1>4. /\ n2.datasets = n.datasets /\ n2.groups = n.groups /\ n2.links = n.links
      /\ n2.next_creation_order = n.next_creation_order
  BY <1>3, RequireFacts
<1> HIDE DEF n1, n2
<1>5. (Sorted(n) => Sorted(n1) /\ Sorted(n2)) /\ Listing(n1) = Listing(n) /\ Listing(n2) = Listing(n)
  BY <1>1, <1>2, <1>4
<1> QED
  BY <1>5 DEF n1, n2, t

-----------------------------------------------------------------------------
(* The refinement: what a call has changed so far *)

\* The i-th group of the path had not the next one when the call began.
Missing(q, i) == q = Prefix(path, i) /\ path[i + 1] \notin Names(before[q].groups)

\* A call that creates has changed the groups it found missing members in, by
\* those members, and no other group.
WalkSoFar ==
    op # "idle" /\ Creates(op) =>
        \A q \in Path :
            IF \E i \in 0..(depth - 1) : Missing(q, i)
            THEN /\ ~NameTaken(before[q], path[Len(q) + 1])
                 /\ root[q] = PushGroup(before[q], path[Len(q) + 1])
            ELSE root[q] = before[q]

SortedOK == \A q \in Path : Sorted(root[q]) /\ Sorted(before[q]) /\ NodeOK(before[q])

RefInv == IInv /\ SortedOK /\ WalkSoFar

\* The group the call has come to is as the call found it.
LEMMA HereAsBefore ==
    ASSUME IInv, WalkSoFar, op # "idle", Creates(op)
    PROVE  /\ root[At] = before[At] /\ At \in Path /\ Len(At) = depth /\ depth \in Nat
           /\ \A i \in 0..(depth - 1) : At # Prefix(path, i)
<1>1. /\ path \in Path /\ Len(path) \in Nat /\ depth \in Nat /\ At \in Path /\ Len(At) = depth
      /\ depth \in 0..Len(path)
  BY PathOfCall DEF IInv, TypeOK
<1>2. \A i \in 0..(depth - 1) : At # Prefix(path, i)
  <2> SUFFICES ASSUME NEW i \in 0..(depth - 1) PROVE At # Prefix(path, i)
    OBVIOUS
  <2>1. i \in 0..Len(path) /\ i # depth
    BY <1>1
  <2>2. Len(Prefix(path, i)) = i
    BY <1>1, <2>1, PrefixFacts
  <2> QED
    BY <1>1, <2>1, <2>2
<1>3. ~\E i \in 0..(depth - 1) : Missing(At, i)
  BY <1>2 DEF Missing
<1> QED
  BY <1>1, <1>2, <1>3 DEF WalkSoFar

LEMMA InitWalks == Init => RefInv
<1> SUFFICES ASSUME Init PROVE RefInv
  OBVIOUS
<1>1. IInv
  BY InitIInv
<1>2. Sorted(EmptyNode)
  BY DEF EmptyNode, Sorted
<1>3. SortedOK
  BY <1>2, EmptyNodeOK DEF Init, SortedOK
<1>4. WalkSoFar
  BY DEF Init, WalkSoFar
<1> QED
  BY <1>1, <1>3, <1>4 DEF RefInv

LEMMA EnterWalks ==
    ASSUME RefInv, NEW o \in Op, NEW segments \in RawPath, Enter(o, segments)
    PROVE  WalkSoFar' /\ SortedOK'
<1>1. /\ op = "idle" /\ depth' = 0 /\ root' = root /\ before' = before /\ root = before
  BY DEF Enter, RefInv, IInv, CallOK
<1>2. 0..(depth' - 1) = {}
  BY <1>1
<1> QED
  BY <1>1, <1>2 DEF WalkSoFar, SortedOK, RefInv

LEMMA DescendWalks ==
    ASSUME RefInv, Descend
    PROVE  WalkSoFar' /\ SortedOK'
<1>1. /\ op # "idle" /\ op' = op /\ path' = path /\ depth' = depth + 1
      /\ root' = root /\ before' = before /\ path[depth + 1] \in Names(root[At].groups)
  BY DEF Descend, Walking
<1>2. SortedOK'
  BY <1>1 DEF SortedOK, RefInv
<1>3. ASSUME Creates(op) PROVE WalkSoFar'
  <2>1. /\ root[At] = before[At] /\ Len(At) = depth /\ depth \in Nat
    BY <1>1, <1>3, HereAsBefore DEF RefInv
  <2>2. \A q : ~Missing(q, depth)
    BY <1>1, <2>1 DEF Missing, At
  <2>3. \A q, i : Missing(q, i)' <=> Missing(q, i)
    BY <1>1 DEF Missing, Prefix
  <2>4. \A i : i \in 0..(depth' - 1) <=> i \in 0..(depth - 1) \/ i = depth
    BY <1>1, <2>1
  <2>5. \A q : (\E i \in 0..(depth' - 1) : Missing(q, i)') <=> \E i \in 0..(depth - 1) : Missing(q, i)
    BY <2>2, <2>3, <2>4
  <2> QED
    BY <1>1, <1>3, <2>5 DEF WalkSoFar, RefInv
<1>4. ASSUME ~Creates(op) PROVE WalkSoFar'
  BY <1>1, <1>4 DEF WalkSoFar, Creates
<1> QED
  BY <1>2, <1>3, <1>4

LEMMA CreateWalks ==
    ASSUME RefInv, CreateIntermediate
    PROVE  WalkSoFar' /\ SortedOK'
<1> DEFINE name == path[depth + 1]
           new == PushGroup(root[At], name)
<1>1. /\ op # "idle" /\ Creates(op) /\ op' = op /\ path' = path /\ depth' = depth + 1
      /\ before' = before /\ ~NameTaken(root[At], name) /\ root' = [root EXCEPT ![At] = new]
  BY DEF CreateIntermediate, Walking
<1>2. /\ root[At] = before[At] /\ At \in Path /\ Len(At) = depth /\ depth \in Nat
      /\ \A i \in 0..(depth - 1) : At # Prefix(path, i)
  BY <1>1, HereAsBefore DEF RefInv
<1>3. root \in [Path -> GroupNode] /\ name \in Name
  <2>1. depth + 1 \in 1..Len(path) /\ \A i \in 1..Len(path) : path[i] \in Name
    BY <1>1, <1>2, PathOfCall DEF CreateIntermediate, Walking, RefInv, IInv
  <2> QED
    BY <2>1 DEF RefInv, IInv, TypeOK
<1>4. Sorted(new)
  <2>1. "group" \in Insertion /\ Inserted(root[At], name, "group") = new
    BY DEF Insertion, Inserted
  <2>2. PICK m : Files(root[At], new, m, "group")
    BY <1>1, <1>2, <1>3, <2>1, InsertedFiles
  <2> QED
    BY <1>2, <1>3, <2>1, <2>2, FiledIsListed DEF RefInv, IInv, NodesOK, SortedOK
<1> HIDE DEF new
<1>5. root'[At] = new /\ \A q \in Path : q # At => root'[q] = root[q]
  BY <1>1, <1>2, <1>3
<1>6. SortedOK'
  BY <1>1, <1>4, <1>5 DEF SortedOK, RefInv
<1>7. Missing(At, depth)
  BY <1>1, <1>2 DEF Missing, At, NameTaken
<1>8. \A q, i : Missing(q, i)' <=> Missing(q, i)
  BY <1>1 DEF Missing, Prefix
<1>9. \A i : i \in 0..(depth' - 1) <=> i \in 0..(depth - 1) \/ i = depth
  BY <1>1, <1>2
<1>10. ASSUME NEW q \in Path
       PROVE  IF \E i \in 0..(depth' - 1) : Missing(q, i)'
              THEN /\ ~NameTaken(before'[q], path'[Len(q) + 1])
                   /\ root'[q] = PushGroup(before'[q], path'[Len(q) + 1])
              ELSE root'[q] = before'[q]
  <2>1. CASE q = At
    <3>1. \E i \in 0..(depth' - 1) : Missing(q, i)'
      BY <1>7, <1>8, <1>9, <2>1
    <3> QED
      BY <1>1, <1>2, <1>5, <2>1, <3>1 DEF new
  <2>2. CASE q # At
    <3>1. ~Missing(q, depth)
      BY <2>2 DEF Missing, At
    <3>2. (\E i \in 0..(depth' - 1) : Missing(q, i)') <=> \E i \in 0..(depth - 1) : Missing(q, i)
      BY <1>8, <1>9, <3>1
    <3> QED
      BY <1>1, <1>5, <2>2, <3>2 DEF RefInv, WalkSoFar
  <2> QED
    BY <2>1, <2>2
<1>11. WalkSoFar'
  BY <1>10 DEF WalkSoFar
<1> QED
  BY <1>6, <1>11

\* What an insertion does to the group it has come to.
Insert == InsertDataset \/ InsertGroup \/ InsertLink

LEMMA InsertStep ==
    ASSUME IInv, Insert
    PROVE  /\ op \in Insertion /\ Creates(op) /\ op # "idle" /\ Return("ok")
           /\ path # <<>> /\ Len(path) \in Nat \ {0} /\ depth = Len(path) - 1
           /\ Leaf \in Name /\ ~NameTaken(root[At], Leaf)
           /\ root' = [root EXCEPT ![At] = Inserted(root[At], Leaf, op)]
<1>1. /\ Arrived /\ Creates(op) /\ ~NameTaken(root[At], Leaf) /\ Return("ok")
      /\ op \in Insertion /\ op # "idle"
  BY DEF Insert, InsertDataset, InsertGroup, InsertLink, Inserting, Arrived, Insertion
<1>2. path # <<>>
  BY <1>1 DEF IInv, CallOK
<1>3. /\ Len(path) \in Nat \ {0} /\ \A i \in 1..Len(path) : path[i] \in Name
      /\ (~WantsGroup(op) => Goal = Len(path) - 1)
  BY <1>2, PathOfCall DEF IInv
<1>4. ~WantsGroup(op)
  BY <1>1, LinkKindAssumption DEF WantsGroup, Insertion
<1>5. depth = Len(path) - 1
  BY <1>1, <1>3, <1>4 DEF Arrived
<1>6. Leaf \in Name
  BY <1>3 DEF Leaf
<1>7. root' = [root EXCEPT ![At] = Inserted(root[At], Leaf, op)]
  <2>1. "dataset" \notin LinkKind /\ "group" \notin LinkKind
    BY LinkKindAssumption
  <2>2. CASE InsertDataset
    BY <2>2 DEF InsertDataset, Inserted
  <2>3. CASE InsertGroup
    BY <2>3 DEF InsertGroup, Inserted
  <2>4. CASE InsertLink
    <3>1. op # "dataset" /\ op # "group"
      BY <2>1, <2>4 DEF InsertLink
    <3> QED
      BY <2>4, <3>1 DEF InsertLink, Inserted
  <2> QED
    BY <2>2, <2>3, <2>4 DEF Insert
<1> QED
  BY <1>1, <1>2, <1>3, <1>5, <1>6, <1>7

\* What is inserted is sorted, and listed last.
LEMMA InsertLists ==
    ASSUME RefInv, Insert
    PROVE  /\ root'[At] = Inserted(root[At], Leaf, op) /\ Sorted(root'[At])
           /\ \A q \in Path : q # At => root'[q] = root[q]
           /\ Listing(root'[At]) = Append(Listing(root[At]), [name |-> Leaf, kind |-> op])
<1>1. /\ op \in Insertion /\ Leaf \in Name /\ ~NameTaken(root[At], Leaf)
      /\ root' = [root EXCEPT ![At] = Inserted(root[At], Leaf, op)]
  BY InsertStep DEF RefInv
<1>2. At \in Path /\ root \in [Path -> GroupNode] /\ NodeOK(root[At]) /\ Sorted(root[At])
  BY PathOfCall DEF RefInv, IInv, TypeOK, NodesOK, SortedOK
<1> DEFINE new == Inserted(root[At], Leaf, op)
<1>3. PICK m : m.name = Leaf /\ Files(root[At], new, m, op)
  BY <1>1, <1>2, InsertedFiles
<1>4. root'[At] = new /\ \A q \in Path : q # At => root'[q] = root[q]
  BY <1>1, <1>2
<1> HIDE DEF new
<1>5. Sorted(new) /\ Listing(new) = Append(Listing(root[At]), [name |-> m.name, kind |-> op])
  BY <1>1, <1>2, <1>3, FiledIsListed
<1> QED
  BY <1>3, <1>4, <1>5 DEF new

\* Nor has one that looks something up, but for a style.
LEMMA LookupStep ==
    ASSUME IInv, SetTrackOrder \/ SetLinkStorage \/ FindAttrs \/ FindDataset
    PROVE  /\ root = before /\ At \in Path
           /\ \/ root' = root
              \/ root' = [root EXCEPT ![At] = RequireLinkMessages(TrackOrder(root[At]))]
              \/ root' = [root EXCEPT ![At] = RequireLinkMessages(root[At])]
<1>1. op # "idle" /\ ~Creates(op)
  BY LinkKindAssumption
     DEF SetTrackOrder, SetLinkStorage, FindAttrs, FindDataset, Arrived, Creates, Insertion
<1>2. root = before
  BY <1>1 DEF IInv, CallOK
<1>3. At \in Path
  BY PathOfCall DEF IInv
<1> QED
  BY <1>2, <1>3 DEF SetTrackOrder, SetLinkStorage, FindAttrs, FindDataset

\* A call that returns without having inserted tells nothing new.
LEMMA NothingTold ==
    ASSUME RefInv, [Next]_vars, ~Insert
    PROVE  Listings' = Listings
<1>1. /\ root \in [Path -> GroupNode] /\ before \in [Path -> GroupNode]
  BY DEF RefInv, IInv, TypeOK
<1>2. CASE UNCHANGED before
  BY <1>2 DEF Listings
<1>3. CASE Refuse
  <2>1. root = before /\ root' = root /\ before' = root'
    BY <1>3 DEF Refuse, Return, RefInv, IInv, CallOK
  <2> QED
    BY <1>2, <2>1
<1>4. CASE GroupMissing \/ NotAGroup \/ AlreadyExists \/ NoAttrs \/ NoDataset
  <2>1. root = before /\ root' = root
    BY <1>4, FailingStep DEF RefInv
  <2>2. before' = root'
    BY <1>4 DEF GroupMissing, NotAGroup, AlreadyExists, NoAttrs, NoDataset, Return
  <2> QED
    BY <1>2, <2>1, <2>2
<1>5. CASE SetTrackOrder \/ SetLinkStorage \/ FindAttrs \/ FindDataset
  <2>1. /\ root = before /\ At \in Path
        /\ \/ root' = root
           \/ root' = [root EXCEPT ![At] = RequireLinkMessages(TrackOrder(root[At]))]
           \/ root' = [root EXCEPT ![At] = RequireLinkMessages(root[At])]
    BY <1>5, LookupStep DEF RefInv
  <2>2. before' = root'
    BY <1>5 DEF SetTrackOrder, SetLinkStorage, FindAttrs, FindDataset, Return
  <2>3. ASSUME NEW q \in Path PROVE Listing(root'[q]) = Listing(root[q])
    <3>1. /\ Listing(RequireLinkMessages(TrackOrder(root[q]))) = Listing(root[q])
          /\ Listing(RequireLinkMessages(root[q])) = Listing(root[q])
      BY <1>1, StyleIsNotListed
    <3>2. \/ root'[q] = root[q]
          \/ root'[q] = RequireLinkMessages(TrackOrder(root[q]))
          \/ root'[q] = RequireLinkMessages(root[q])
      BY <1>1, <2>1
    <3> QED
      BY <3>1, <3>2
  <2>4. Listings' = [q \in Path |-> Listing(root'[q])] /\ Listings = [q \in Path |-> Listing(root[q])]
    BY <2>1, <2>2 DEF Listings
  <2> QED
    BY <2>3, <2>4
<1>6. CASE Descend \/ CreateIntermediate \/ \E o \in Op, segments \in RawPath : Enter(o, segments)
  BY <1>2, <1>6 DEF Descend, CreateIntermediate, Enter
<1>7. CASE UNCHANGED vars
  BY <1>2, <1>7 DEF vars
<1> QED
  BY <1>3, <1>4, <1>5, <1>6, <1>7 DEF Next, Walk, Finish, Insert

\* Groups keep their members sorted through every step.
LEMMA SortedStep ==
    ASSUME RefInv, [Next]_vars
    PROVE  SortedOK'
<1>1. /\ root \in [Path -> GroupNode] /\ IInv'
      /\ \A q \in Path : Sorted(root[q])
  BY NextIInv DEF RefInv, IInv, TypeOK, SortedOK
<1>2. CASE UNCHANGED <<root, before>>
  BY <1>2 DEF RefInv, SortedOK
<1>3. ASSUME before' = root', \A q \in Path : Sorted(root'[q]) PROVE SortedOK'
  BY <1>1, <1>3 DEF SortedOK, IInv, NodesOK
<1>4. CASE before' = root' /\ root' = root
  BY <1>1, <1>3, <1>4
<1>5. CASE Insert
  <2>1. before' = root'
    BY <1>5, InsertStep DEF RefInv, Return
  <2>2. \A q \in Path : Sorted(root'[q])
    BY <1>1, <1>5, InsertLists
  <2> QED
    BY <1>3, <2>1, <2>2
<1>6. CASE SetTrackOrder \/ SetLinkStorage \/ FindAttrs \/ FindDataset
  <2>1. /\ At \in Path
        /\ \/ root' = root
           \/ root' = [root EXCEPT ![At] = RequireLinkMessages(TrackOrder(root[At]))]
           \/ root' = [root EXCEPT ![At] = RequireLinkMessages(root[At])]
    BY <1>6, LookupStep DEF RefInv
  <2>2. before' = root'
    BY <1>6 DEF SetTrackOrder, SetLinkStorage, FindAttrs, FindDataset, Return
  <2>3. \A q \in Path : Sorted(root'[q])
    <3> TAKE q \in Path
    <3>1. /\ Sorted(RequireLinkMessages(TrackOrder(root[q])))
          /\ Sorted(RequireLinkMessages(root[q]))
      BY <1>1, StyleIsNotListed
    <3>2. \/ root'[q] = root[q]
          \/ root'[q] = RequireLinkMessages(TrackOrder(root[q]))
          \/ root'[q] = RequireLinkMessages(root[q])
      BY <1>1, <2>1
    <3> QED
      BY <1>1, <3>1, <3>2
  <2> QED
    BY <1>3, <2>2, <2>3
<1>7. CASE Refuse \/ GroupMissing \/ NotAGroup \/ AlreadyExists \/ NoAttrs \/ NoDataset
  BY <1>4, <1>7 DEF Refuse, GroupMissing, NotAGroup, AlreadyExists, NoAttrs, NoDataset, Return
<1>8. CASE CreateIntermediate
  BY <1>8, CreateWalks
<1>9. CASE Descend \/ UNCHANGED vars \/ \E o \in Op, segments \in RawPath : Enter(o, segments)
  BY <1>2, <1>9 DEF Descend, vars, Enter
<1> QED
  BY <1>5, <1>6, <1>7, <1>8, <1>9 DEF Next, Walk, Finish, Insert

LEMMA NextWalks == RefInv /\ [Next]_vars => RefInv'
<1> SUFFICES ASSUME RefInv, [Next]_vars PROVE RefInv'
  OBVIOUS
<1>1. IInv' /\ SortedOK'
  BY NextIInv, SortedStep DEF RefInv
<1>2. WalkSoFar'
  <2>1. CASE Descend \/ CreateIntermediate \/ \E o \in Op, segments \in RawPath : Enter(o, segments)
    BY <2>1, DescendWalks, CreateWalks, EnterWalks
  <2>2. CASE UNCHANGED vars
    BY <2>2 DEF vars, RefInv, WalkSoFar, Missing, Creates, Prefix
  <2>3. CASE Refuse \/ GroupMissing \/ NotAGroup \/ Finish
    <3>1. op' = "idle"
      BY <2>3 DEF Refuse, GroupMissing, NotAGroup, Finish, AlreadyExists, InsertDataset,
            InsertGroup, InsertLink, SetTrackOrder, SetLinkStorage, FindAttrs, NoAttrs,
            FindDataset, NoDataset, Return
    <3> QED
      BY <3>1 DEF WalkSoFar
  <2> QED
    BY <2>1, <2>2, <2>3 DEF Next, Walk
<1> QED
  BY <1>1, <1>2 DEF RefInv

-----------------------------------------------------------------------------
(* The namespace *)

LEMMA PathsAgree == N!Path = Path
  BY DEF N!Path, Path

\* A proper prefix of a path, by its length.
LEMMA PrefixesAgree ==
    ASSUME NEW p \in Path, NEW q
    PROVE  q \in N!ProperPrefixes(p)
              <=> \E i \in 0..(Len(p) - 1) : q = Prefix(p, i)
<1>1. p \in Seq(Name) /\ Len(p) \in Nat
  BY PathFacts, DepthAssumption
<1>2. \A i \in 0..(Len(p) - 1) : SubSeq(p, 1, i) = Prefix(p, i)
  <2> SUFFICES ASSUME NEW i \in 0..(Len(p) - 1) PROVE SubSeq(p, 1, i) = Prefix(p, i)
    OBVIOUS
  <2>1. i \in 0..Len(p)
    BY <1>1
  <2>2. SubSeq(p, 1, i) = Restrict(p, 1..i)
    BY <1>1, <2>1, SubSeqRestrict
  <2> QED
    BY <2>2 DEF Restrict, Prefix
<1> QED
  BY <1>2 DEF N!ProperPrefixes

\* What is listed of a group before the call.
LEMMA ListedAgrees ==
    ASSUME SortedOK, before \in [Path -> GroupNode], NEW q \in Path, NEW name
    PROVE  /\ N!Listed(q, name) <=> NameTaken(before[q], name)
           /\ name \in Names(before[q].groups)
                 => [name |-> name, kind |-> "group"] \in N!Entries(q)
<1>1. NodeOK(before[q]) /\ Sorted(before[q]) /\ before[q] \in GroupNode
  BY DEF SortedOK
<1>2. Listings[q] = Listing(before[q])
  BY DEF Listings
<1>3. N!Entries(q) = {Listings[q][i] : i \in 1..Len(Listings[q])}
  BY DEF N!Entries, Listings
<1>4. N!Entries(q) = {Listing(before[q])[i] : i \in 1..Len(Listing(before[q]))}
  BY <1>2, <1>3
<1>5. N!Listed(q, name)
        <=> \E i \in 1..Len(Listing(before[q])) : Listing(before[q])[i].name = name
  BY <1>4 DEF N!Listed
<1>6. N!Listed(q, name) <=> NameTaken(before[q], name)
  BY <1>1, <1>5, ListedIsTaken
<1>7. name \in Names(before[q].groups)
         => [name |-> name, kind |-> "group"] \in N!Entries(q)
  BY <1>1, <1>4, SubgroupIsListed
<1> QED
  BY <1>6, <1>7

\* A successful insertion is the creation of its path, with the groups missing above it.
LEMMA InsertionCreates ==
    ASSUME RefInv, Insert
    PROVE  N!Create(path, op)
<1>1. /\ op \in Insertion /\ Creates(op) /\ op # "idle" /\ Return("ok")
      /\ path # <<>> /\ Len(path) \in Nat \ {0} /\ depth = Len(path) - 1
      /\ Leaf \in Name /\ ~NameTaken(root[At], Leaf)
  BY InsertStep DEF RefInv
<1>2. /\ root[At] = before[At] /\ At \in Path /\ Len(At) = depth /\ depth \in Nat
      /\ path \in Path /\ before \in [Path -> GroupNode] /\ root \in [Path -> GroupNode]
  BY <1>1, HereAsBefore DEF RefInv, IInv, TypeOK
<1>3. /\ root'[At] = Inserted(root[At], Leaf, op)
      /\ \A q \in Path : q # At => root'[q] = root[q]
      /\ Listing(root'[At]) = Append(Listing(root[At]), [name |-> Leaf, kind |-> op])
  BY InsertLists
<1>4. before' = root'
  BY <1>1 DEF Return
<1> DEFINE missing(q) == q \in N!ProperPrefixes(path) /\ ~N!Listed(q, N!NextOn(path, q))
<1>5. \A i \in 0..depth : /\ Prefix(path, i) \in Path /\ Len(Prefix(path, i)) = i
                          /\ N!NextOn(path, Prefix(path, i)) = path[i + 1]
                          /\ path[i + 1] \in Name
  <2> SUFFICES ASSUME NEW i \in 0..depth
               PROVE  /\ Prefix(path, i) \in Path /\ Len(Prefix(path, i)) = i
                      /\ N!NextOn(path, Prefix(path, i)) = path[i + 1]
                      /\ path[i + 1] \in Name
    OBVIOUS
  <2>1. i \in 0..Len(path) /\ i + 1 \in 1..Len(path)
    BY <1>1
  <2>2. Prefix(path, i) \in Path /\ Len(Prefix(path, i)) = i
    BY <1>2, <2>1, PrefixFacts
  <2>3. path[i + 1] \in Name
    BY <2>1, PathOfCall DEF RefInv, IInv
  <2> QED
    BY <2>2, <2>3 DEF N!NextOn
<1>6. \A q : q \in N!ProperPrefixes(path) <=> \E i \in 0..depth : q = Prefix(path, i)
  BY <1>1, <1>2, PrefixesAgree
<1>7. At = Prefix(path, depth) /\ path[depth + 1] = Leaf
  BY <1>1 DEF At, Leaf
<1>8. SortedOK /\ WalkSoFar
  BY DEF RefInv
<1>9. \A q \in Path : \A name : N!Listed(q, name) <=> NameTaken(before[q], name)
  BY <1>2, <1>8, ListedAgrees
<1>10. \A i \in 0..depth : missing(Prefix(path, i)) <=> ~NameTaken(before[Prefix(path, i)], path[i + 1])
  BY <1>5, <1>6, <1>9
<1>11. \A q : missing(q) => \E i \in 0..depth : q = Prefix(path, i)
  BY <1>6
<1>12. missing(At)
  BY <1>1, <1>2, <1>7, <1>10
<1>13. SubSeq(path, 1, Len(path) - 1) = At
  <2>1. path \in Seq(Name) /\ Len(path) - 1 \in 0..Len(path)
    BY <1>1, <1>2, PathFacts
  <2>2. SubSeq(path, 1, Len(path) - 1) = Restrict(path, 1..(Len(path) - 1))
    BY <2>1, SubSeqRestrict
  <2> QED
    BY <1>1, <2>2 DEF Restrict, At, Prefix
\* Above the last group, a name that was not a group's was free.
<1>14. \A i \in 0..(depth - 1) :
          \/ missing(Prefix(path, i))
          \/ path[i + 1] \in Names(before[Prefix(path, i)].groups)
  <2> SUFFICES ASSUME NEW i \in 0..(depth - 1),
                      path[i + 1] \notin Names(before[Prefix(path, i)].groups)
               PROVE  missing(Prefix(path, i))
    OBVIOUS
  <2>1. i \in 0..depth
    BY <1>2
  <2>2. Missing(Prefix(path, i), i)
    BY DEF Missing
  <2>3. ~NameTaken(before[Prefix(path, i)], path[Len(Prefix(path, i)) + 1])
    BY <1>1, <1>5, <1>8, <2>1, <2>2 DEF WalkSoFar
  <2> HIDE DEF missing
  <2> QED
    BY <1>5, <1>10, <2>1, <2>3
<1>15. \A i \in 0..(depth - 1) :
          missing(Prefix(path, i)) <=> path[i + 1] \notin Names(before[Prefix(path, i)].groups)
  <2> SUFFICES ASSUME NEW i \in 0..(depth - 1), missing(Prefix(path, i))
               PROVE  path[i + 1] \notin Names(before[Prefix(path, i)].groups)
    BY <1>14
  <2>1. i \in 0..depth
    BY <1>2
  <2>2. ~NameTaken(before[Prefix(path, i)], path[i + 1])
    BY <1>10, <2>1
  <2> QED
    BY <2>2 DEF NameTaken
<1> DEFINE entry(q) == [name |-> N!NextOn(path, q),
                        kind |-> IF Len(q) = Len(path) - 1 THEN op ELSE "group"]
<1>16. ASSUME NEW q \in Path
       PROVE  Listing(root'[q]) = IF missing(q) THEN Append(Listing(before[q]), entry(q))
                                  ELSE Listing(before[q])
  <2>1. CASE q = At
    <3>1. entry(q) = [name |-> Leaf, kind |-> op]
      BY <1>1, <1>2, <1>5, <1>7, <2>1
    <3> HIDE DEF entry, missing
    <3> QED
      BY <1>2, <1>3, <1>12, <2>1, <3>1
  <2>2. CASE q # At
    <3>1. root'[q] = root[q]
      BY <1>3, <2>2
    <3>2. CASE \E i \in 0..(depth - 1) : Missing(q, i)
      <4>1. PICK i \in 0..(depth - 1) : Missing(q, i)
        BY <3>2
      <4>2. q = Prefix(path, i) /\ i \in 0..depth /\ Len(q) = i /\ i # Len(path) - 1
        BY <1>1, <1>2, <1>5, <4>1 DEF Missing
      <4>3. ~NameTaken(before[q], path[i + 1]) /\ root[q] = PushGroup(before[q], path[i + 1])
        BY <1>1, <1>8, <3>2, <4>2 DEF WalkSoFar
      <4>4. missing(q)
        <5> HIDE DEF missing
        <5> QED
          BY <1>10, <4>2, <4>3
      <4>5. entry(q) = [name |-> path[i + 1], kind |-> "group"]
        BY <1>5, <4>2
      <4>6. /\ "group" \in Insertion /\ path[i + 1] \in Name
            /\ Inserted(before[q], path[i + 1], "group") = PushGroup(before[q], path[i + 1])
        BY <1>5, <4>2 DEF Insertion, Inserted
      <4>7. /\ before[q] \in GroupNode /\ NodeOK(before[q]) /\ Sorted(before[q])
        BY <1>2, <1>8 DEF SortedOK
      <4>8. PICK m : m.name = path[i + 1] /\ Files(before[q], root[q], m, "group")
        BY <4>3, <4>6, <4>7, InsertedFiles
      <4>9. Listing(root[q]) = Append(Listing(before[q]), [name |-> m.name, kind |-> "group"])
        BY <4>6, <4>7, <4>8, FiledIsListed
      <4> HIDE DEF missing, entry
      <4> QED
        BY <3>1, <4>4, <4>5, <4>8, <4>9
    <3>3. CASE ~\E i \in 0..(depth - 1) : Missing(q, i)
      <4>1. root[q] = before[q]
        BY <1>1, <1>8, <3>3 DEF WalkSoFar
      <4>2. ~missing(q)
        <5> SUFFICES ASSUME missing(q) PROVE FALSE
          OBVIOUS
        <5>1. PICK i \in 0..depth : q = Prefix(path, i)
          BY <1>11
        <5>2. i # depth
          BY <1>7, <2>2, <5>1
        <5>3. i \in 0..(depth - 1)
          BY <1>2, <5>1, <5>2
        <5>4. path[i + 1] \notin Names(before[q].groups)
          <6> HIDE DEF missing
          <6> QED
            BY <1>15, <5>1, <5>3
        <5> QED
          BY <3>3, <5>1, <5>3, <5>4 DEF Missing
      <4> HIDE DEF missing
      <4> QED
        BY <3>1, <4>1, <4>2
    <3> QED
      BY <3>2, <3>3
  <2> QED
    BY <2>1, <2>2
<1>17. \A q \in N!ProperPrefixes(path) :
          Len(q) < Len(path) - 1
             => missing(q) \/ [name |-> N!NextOn(path, q), kind |-> "group"] \in N!Entries(q)
  <2> SUFFICES ASSUME NEW q \in N!ProperPrefixes(path), Len(q) < Len(path) - 1, ~missing(q)
               PROVE  [name |-> N!NextOn(path, q), kind |-> "group"] \in N!Entries(q)
    OBVIOUS
  <2>1. PICK i \in 0..depth : q = Prefix(path, i)
    BY <1>6
  <2>2. Len(q) = i /\ q \in Path /\ i \in 0..(depth - 1) /\ N!NextOn(path, q) = path[i + 1]
    BY <1>1, <1>2, <1>5, <2>1
  <2>3. path[i + 1] \in Names(before[q].groups)
    <3> HIDE DEF missing
    <3> QED
      BY <1>14, <2>1, <2>2
  <2>4. [name |-> path[i + 1], kind |-> "group"] \in N!Entries(q)
    BY <1>2, <1>8, <2>2, <2>3, ListedAgrees
  <2> QED
    BY <2>2, <2>4
<1>18. Listings' = [q \in N!Path |-> IF missing(q) THEN Append(Listings[q], entry(q)) ELSE Listings[q]]
  <2>1. Listings' = [q \in Path |-> Listing(root'[q])]
    BY <1>4 DEF Listings
  <2>2. \A q \in Path : Listings[q] = Listing(before[q])
    BY DEF Listings
  <2>3. \A q \in Path :
           Listing(root'[q]) = IF missing(q) THEN Append(Listings[q], entry(q)) ELSE Listings[q]
    <3> HIDE DEF missing, entry
    <3> QED
      BY <1>16, <2>2
  <2> HIDE DEF missing, entry
  <2> QED
    BY <2>1, <2>3, PathsAgree
<1> QED
  BY <1>1, <1>12, <1>13, <1>17, <1>18 DEF N!Create, Listings

\* A FileWriter implements the append-only namespace (write/tree.rs): however deep the
\* trees and whatever the names, a call that succeeds is one creation, and no other call
\* shows in what is listed.
THEOREM WriterImplementsNamespace == Spec => ImplementsNamespace
<1>1. Init => N!Init
  <2> SUFFICES ASSUME Init PROVE N!Init
    OBVIOUS
  <2>1. \A q \in Path : before[q] = EmptyNode
    BY DEF Init
  <2>2. Listing(EmptyNode) = <<>>
    <3>1. EmptyNode.next_creation_order = 0
      BY DEF EmptyNode
    <3> QED
      BY <3>1 DEF Listing
  <2>3. \A q \in Path : Listing(before[q]) = <<>>
    BY <2>1, <2>2
  <2> QED
    BY <2>3, PathsAgree DEF N!Init, Listings
<1>2. RefInv /\ [Next]_vars => [N!Next]_Listings
  <2> SUFFICES ASSUME RefInv, [Next]_vars PROVE N!Next \/ Listings' = Listings
    OBVIOUS
  <2>1. CASE Insert
    <3>1. path \in N!Path /\ op \in Insertion
      BY <2>1, InsertStep, PathsAgree DEF RefInv, IInv, TypeOK
    <3>2. N!Create(path, op)
      BY <2>1, InsertionCreates
    <3> QED
      BY <3>1, <3>2 DEF N!Next
  <2>2. CASE ~Insert
    BY <2>2, NothingTold
  <2> QED
    BY <2>1, <2>2
<1>3. Spec => []RefInv
  BY InitWalks, NextWalks, PTL DEF Spec
<1> QED
  BY <1>1, <1>2, <1>3, PTL DEF Spec, ImplementsNamespace, N!Spec
=============================================================================
