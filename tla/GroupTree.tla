------------------------------ MODULE GroupTree ------------------------------
(***************************************************************************)
(* The group tree a FileWriter builds up before anything is laid out       *)
(* (crates/oxih5/src/write/tree.rs) and the entry points that grow it.     *)
(*                                                                         *)
(* A call is not atomic here.  It validates its path (split_path), then    *)
(* walks the tree one component at a time (group_mut), creating missing    *)
(* groups on the way when it is an insertion, and only then inserts,       *)
(* changes or finds what it was asked for.  A call can be refused at every *)
(* one of these steps, after the steps before it have already changed the  *)
(* tree.  A path is the sequence of its components: the string form, with  *)
(* its optional leading separator, is not modelled.                        *)
(***************************************************************************)
EXTENDS Naturals, Sequences

CONSTANTS
    Name,            \* legal link names
    BadName,         \* stands for "", ".", ".." and a name with a NUL byte
    MAX_PATH_DEPTH,  \* deepest path split_path lets through (64 in the code)
    LinkKind         \* kinds of links that own no object

ASSUME NameAssumption == BadName \notin Name
ASSUME DepthAssumption == MAX_PATH_DEPTH \in Nat
ASSUME LinkKindAssumption == LinkKind \subseteq {"hard", "soft", "external"}

VARIABLES
    root,    \* the GroupNode every group path holds; EmptyNode where there is none
    op,      \* the entry point being executed, or "idle"
    path,    \* the components of the path it was given
    depth,   \* how many of them group_mut has consumed
    before,  \* the tree as the call in progress found it (a history variable)
    outcome  \* what the last call returned, or "pending"

vars == <<root, op, path, depth, before, outcome>>

-----------------------------------------------------------------------------
(* The tree *)

Path == UNION {[1..n -> Name] : n \in 0..MAX_PATH_DEPTH}

Member == [name: Name, creation_order: Nat]
LinkDesc == [name: Name, creation_order: Nat, kind: LinkKind]
GroupStyle == {"SymbolTable", "LinkMessage"}

GroupNode == [datasets: SUBSET Member,
              groups: SUBSET Member,
              links: SUBSET LinkDesc,
              style: GroupStyle,
              track_order: BOOLEAN,
              next_creation_order: Nat]

EmptyNode == [datasets |-> {}, groups |-> {}, links |-> {},
              style |-> "SymbolTable", track_order |-> FALSE,
              next_creation_order |-> 0]

Names(members) == {m.name : m \in members}

\* Mutant: links do not take names.
NameTakenIgnoringLinks(node, name) ==
    name \in Names(node.datasets) \cup Names(node.groups)

NameTaken(node, name) ==
    name \in Names(node.datasets) \cup Names(node.groups) \cup Names(node.links)

\* take_creation_order: the next value goes to the new member, one past it is kept.
TakeCreationOrder(node) == [node EXCEPT !.next_creation_order = @ + 1]

Stamped(node, name) == [name |-> name, creation_order |-> node.next_creation_order]

PushDataset(node, name) ==
    [TakeCreationOrder(node) EXCEPT !.datasets = @ \cup {Stamped(node, name)}]

\* Mutant: the creation order is read and not taken.
PushGroupUnstamped(node, name) ==
    [node EXCEPT !.groups = @ \cup {Stamped(node, name)}]

PushGroup(node, name) ==
    [TakeCreationOrder(node) EXCEPT !.groups = @ \cup {Stamped(node, name)}]

\* Mutant: the creation order is read and not taken.
PushLinkUnstamped(node, name, kind) ==
    [node EXCEPT !.links = @ \cup
        {[name |-> name, creation_order |-> node.next_creation_order, kind |-> kind]}]

PushLink(node, name, kind) ==
    [TakeCreationOrder(node) EXCEPT !.links = @ \cup
        {[name |-> name, creation_order |-> node.next_creation_order, kind |-> kind]}]

RequireLinkMessages(node) == [node EXCEPT !.style = "LinkMessage"]

-----------------------------------------------------------------------------
(* Calls *)

Insertion == {"dataset", "group"} \cup LinkKind
Lookup == {"attrs", "dataset_mut", "track_order", "link_storage"}
Op == Insertion \cup Lookup
Error == {"Format", "NotFound"}
Outcome == {"pending", "ok"} \cup Error

\* What a caller can pass: any components, one more than the limit at most.
RawPath == UNION {[1..n -> Name \cup {BadName}] : n \in 0..(MAX_PATH_DEPTH + 1)}

SplitPathOk(segments) == segments \in Path

Prefix(p, n) == [i \in 1..n |-> p[i]]
At == Prefix(path, depth)                    \* the group reached so far

\* How many components are walked as groups: all of them when the group itself
\* is wanted, all but the last when the last names a member of the group.
WantsGroup(o) == o \in {"track_order", "link_storage"}
GoalOf(o, p) == IF WantsGroup(o) \/ p = <<>> THEN Len(p) ELSE Len(p) - 1
Goal == GoalOf(op, path)
Leaf == path[Len(path)]

\* Mutant: attribute lookup creates what it does not find.
CreatesForAttrs(o) == o \in Insertion \cup {"attrs"}

\* The `create` argument of group_mut.
Creates(o) == o \in Insertion

Init == /\ root = [p \in Path |-> EmptyNode]
        /\ op = "idle"
        /\ path = <<>>
        /\ depth = 0
        /\ before = root
        /\ outcome = "ok"

\* The call gives control back: nothing of it is left but its effect.
Return(result) == /\ op' = "idle"
                  /\ path' = <<>>
                  /\ depth' = 0
                  /\ before' = root'
                  /\ outcome' = result

\* An entry point is entered with a path it accepts.
Enter(o, segments) == /\ op = "idle"
                      /\ SplitPathOk(segments)
                      /\ ~(segments = <<>> /\ Creates(o))
                      /\ ~(segments = <<>> /\ o = "dataset_mut")
                      /\ op' = o
                      /\ path' = segments
                      /\ depth' = 0
                      /\ outcome' = "pending"
                      /\ UNCHANGED <<root, before>>

\* An entry point refuses its arguments, its path included, before it walks:
\* a data length that does not match the shape, a link target with a NUL byte,
\* a malformed or too deep path, no name at all.
Refuse == /\ op = "idle"
          /\ UNCHANGED root
          /\ Return("Format")

-----------------------------------------------------------------------------
(* group_mut: one action per component *)

Walking == op # "idle" /\ depth < Goal

\* Mutant: a component is skipped.
DescendTwo == /\ Walking
              /\ path[depth + 1] \in Names(root[At].groups)
              /\ depth' = depth + 2
              /\ UNCHANGED <<root, op, path, before, outcome>>

Descend == /\ Walking
           /\ path[depth + 1] \in Names(root[At].groups)
           /\ depth' = depth + 1
           /\ UNCHANGED <<root, op, path, before, outcome>>

\* Mutant: the new group is walked into but not pushed onto its parent.
CreateIntermediateUnpushed ==
    /\ Walking
    /\ Creates(op)
    /\ ~NameTaken(root[At], path[depth + 1])
    /\ depth' = depth + 1
    /\ UNCHANGED <<root, op, path, before, outcome>>

CreateIntermediate ==
    /\ Walking
    /\ Creates(op)
    /\ ~NameTaken(root[At], path[depth + 1])
    /\ root' = [root EXCEPT ![At] = PushGroup(@, path[depth + 1])]
    /\ depth' = depth + 1
    /\ UNCHANGED <<op, path, before, outcome>>

GroupMissing == /\ Walking
                /\ ~Creates(op)
                /\ path[depth + 1] \notin Names(root[At].groups)
                /\ UNCHANGED root
                /\ Return("NotFound")

\* A dataset or a link is in the way of an intermediate group.
NotAGroup == /\ Walking
             /\ Creates(op)
             /\ path[depth + 1] \in Names(root[At].datasets) \cup Names(root[At].links)
             /\ path[depth + 1] \notin Names(root[At].groups)
             /\ UNCHANGED root
             /\ Return("Format")

-----------------------------------------------------------------------------
(* What each entry point does once the group is found *)

Arrived == op # "idle" /\ depth = Goal

Inserting == Arrived /\ Creates(op)

AlreadyExists == /\ Inserting
                 /\ NameTaken(root[At], Leaf)
                 /\ UNCHANGED root
                 /\ Return("Format")

InsertDataset == /\ Inserting
                 /\ op = "dataset"
                 /\ ~NameTaken(root[At], Leaf)
                 /\ root' = [root EXCEPT ![At] = PushDataset(@, Leaf)]
                 /\ Return("ok")

InsertGroup == /\ Inserting
               /\ op = "group"
               /\ ~NameTaken(root[At], Leaf)
               /\ root' = [root EXCEPT ![At] = PushGroup(@, Leaf)]
               /\ Return("ok")

\* Mutant: an external link leaves the group a symbol table.
InsertLinkKeepingStyle ==
    /\ Inserting
    /\ op \in LinkKind
    /\ ~NameTaken(root[At], Leaf)
    /\ root' = [root EXCEPT ![At] = PushLink(@, Leaf, op)]
    /\ Return("ok")

\* A symbol table entry cannot express an external link, so the group moves.
InsertLink ==
    /\ Inserting
    /\ op \in LinkKind
    /\ ~NameTaken(root[At], Leaf)
    /\ root' = [root EXCEPT ![At] = IF op = "external"
                                    THEN RequireLinkMessages(PushLink(@, Leaf, op))
                                    ELSE PushLink(@, Leaf, op)]
    /\ Return("ok")

TrackOrder(node) == [node EXCEPT !.track_order = TRUE]

SetTrackOrder ==
    /\ Arrived
    /\ op = "track_order"
    /\ root' = [root EXCEPT ![At] = RequireLinkMessages(TrackOrder(@))]
    /\ Return("ok")

SetLinkStorage ==
    /\ Arrived
    /\ op = "link_storage"
    /\ root' = [root EXCEPT ![At] = RequireLinkMessages(@)]
    /\ Return("ok")

\* attrs_mut: the root group, else a dataset, else a sub-group of that name.
FindAttrs == /\ Arrived
             /\ op = "attrs"
             /\ \/ path = <<>>
                \/ /\ path # <<>>
                   /\ Leaf \in Names(root[At].datasets) \cup Names(root[At].groups)
             /\ UNCHANGED root
             /\ Return("ok")

NoAttrs == /\ Arrived
           /\ op = "attrs"
           /\ path # <<>>
           /\ Leaf \notin Names(root[At].datasets) \cup Names(root[At].groups)
           /\ UNCHANGED root
           /\ Return(IF Leaf \in Names(root[At].links) THEN "Format" ELSE "NotFound")

FindDataset == /\ Arrived
               /\ op = "dataset_mut"
               /\ Leaf \in Names(root[At].datasets)
               /\ UNCHANGED root
               /\ Return("ok")

NoDataset == /\ Arrived
             /\ op = "dataset_mut"
             /\ Leaf \notin Names(root[At].datasets)
             /\ UNCHANGED root
             /\ Return(IF Leaf \in Names(root[At].groups) THEN "Format" ELSE "NotFound")

-----------------------------------------------------------------------------

Walk == Descend \/ CreateIntermediate \/ GroupMissing \/ NotAGroup

Finish == \/ AlreadyExists \/ InsertDataset \/ InsertGroup \/ InsertLink
          \/ SetTrackOrder \/ SetLinkStorage
          \/ FindAttrs \/ NoAttrs \/ FindDataset \/ NoDataset

Next == \/ \E o \in Op, segments \in RawPath : Enter(o, segments)
        \/ Refuse
        \/ Walk
        \/ Finish

\* A call runs to its end: the caller is one thread holding `&mut self`.
Spec == Init /\ [][Next]_vars

-----------------------------------------------------------------------------
(* Properties *)

TypeOK == /\ root \in [Path -> GroupNode]
          /\ before \in [Path -> GroupNode]
          /\ op \in Op \cup {"idle"}
          /\ path \in Path
          /\ depth \in 0..Len(path)
          /\ outcome \in Outcome

Members(node) == node.datasets \cup node.groups \cup node.links

\* One name means one thing: the three member lists of a group, which all become
\* links of the same group on disk, never hold the same name twice (name_taken).
NamesUnique ==
    \A p \in Path : \A m, n \in Members(root[p]) : m.name = n.name => m = n

\* Creation orders of a group form one sequence 0, 1, 2, ... over datasets,
\* groups and links together, with no value missing and none given out twice
\* (take_creation_order); "oldest first" listings rest on it.
CreationOrderIsASequence ==
    \A p \in Path :
        /\ {m.creation_order : m \in Members(root[p])}
               = 0..(root[p].next_creation_order - 1)
        /\ \A m, n \in Members(root[p]) : m.creation_order = n.creation_order => m = n

\* Nothing is ever filed where no reader can get to it: a path that holds
\* something is a group of the path above, and so on up to the root.
NoOrphans ==
    \A p \in Path : root[p] # EmptyNode /\ p # <<>> =>
        p[Len(p)] \in Names(root[Prefix(p, Len(p) - 1)].groups)

\* A group never ends up in the one storage style that cannot hold its members:
\* external links and creation order exist in link messages only.
StyleCanExpressMembers ==
    \A p \in Path :
        (root[p].track_order \/ \E l \in root[p].links : l.kind = "external")
            => root[p].style = "LinkMessage"

\* A call that reports an error leaves the tree exactly as it found it, however
\* far it had walked ("a refused dataset must leave no trace", api_datasets.rs).
FailureLeavesNoTrace ==
    [][op # "idle" /\ outcome' \in Error => root' = before]_vars

\* Nothing is ever renamed, removed or reordered: a member stays in its group,
\* with the creation order it was given, and a group never returns to the
\* symbol table.
MembersPersist ==
    [][\A p \in Path : /\ Members(root[p]) \subseteq Members(root'[p])
                       /\ root[p].style = "LinkMessage" => root'[p].style = "LinkMessage"]_vars

-----------------------------------------------------------------------------
(* The namespace a tree spells out: while a call runs it is the one the call *)
(* found, since a call takes effect, if it does, when it returns.            *)

KindOf(node, m) == IF m \in node.datasets THEN "dataset"
                   ELSE IF m \in node.groups THEN "group" ELSE m.kind

EntryAt(node, n) == LET m == CHOOSE m \in Members(node) : m.creation_order = n
                    IN  [name |-> m.name, kind |-> KindOf(node, m)]

Listing(node) == [i \in 1..node.next_creation_order |-> EntryAt(node, i - 1)]

Listings == [p \in Path |-> Listing(before[p])]

N == INSTANCE Namespace WITH
        Kind <- Insertion, MaxDepth <- MAX_PATH_DEPTH, listing <- Listings

\* Seen from its caller, a FileWriter is the append-only namespace: every call
\* either has no effect on names or creates one object and its missing parents.
ImplementsNamespace == N!Spec
=============================================================================
