------------------------------- MODULE MCWriter -------------------------------
(* A FileWriter, in one run: a behaviour is of the calls that make its tree, or *)
(* of the build that lays a tree out.                                           *)
(*                                                                              *)
(* Calls: the bound on the tree.                                                *)
(*                                                                              *)
(* Builds: of the trees of a root group top with a group sub, a group nested in *)
(* either of them or absent, and a dataset ds in either, in every mixture of    *)
(* link styles, with hard aliases (of the root, of a sibling, of one object     *)
(* twice, of nothing), soft links, object references and data.                  *)
EXTENDS GroupTree, FileLayout

CONSTANT MaxMembers   \* members of the whole tree from which on TLC makes no more calls
CONSTANTS top, sub, nested, ds, NoGroup

VARIABLE kind         \* "calls" or "build"

-----------------------------------------------------------------------------
(* Calls *)

SmallTree ==
    Cardinality(UNION {{<<p, m.name>> : m \in Members(root[p])} : p \in Path}) <= MaxMembers

-----------------------------------------------------------------------------
(* Builds *)

GroupLinks == {<<>>, <<top, ds>>, <<ds, Soft, ds>>, <<Nowhere>>}
RootLinks == {<<>>, <<sub, Soft>>, <<ds>>}
References == {<<>>, <<<<sub, ds>>, <<>>, <<top>>>>, <<<<top>>, <<Nowhere>>>>}
Data == {[kind |-> "raw", bytes |-> 0],
         [kind |-> "vlen", elements |-> <<TRUE, FALSE, TRUE>>],
         [kind |-> "chunked", chunks |-> <<2, 1>>],
         [kind |-> "refused"]}

\* The tree with nested and ds in these groups.
TreeWith(hIn, dIn, style, gLinks, rLinks, references, data) ==
    LET groups == IF hIn = NoGroup THEN {top, sub} ELSE {top, sub, nested}
    IN  [groups |-> [p \in groups |->
             CASE p = top -> IF hIn = top THEN <<sub, nested>> ELSE <<sub>>
               [] p = sub -> IF hIn = sub THEN <<nested>> ELSE <<>>
               [] OTHER -> <<>>],
         datasets |-> [p \in groups |-> IF p = dIn THEN <<ds>> ELSE <<>>],
         linkStyle |-> style,
         links |-> [p \in groups |->
             CASE p = top -> rLinks [] p = sub -> gLinks [] OTHER -> <<>>],
         refs |-> [o \in groups \cup {ds} |->
             CASE o = ds -> references [] o = sub -> <<<<ds>>>> [] OTHER -> <<>>],
         data |-> [o \in {ds} |-> data]]

Trees == {TreeWith(hIn, dIn, style, gLinks, rLinks, references, data) :
             hIn \in {NoGroup, top, sub}, dIn \in {top, sub}, style \in SUBSET {top, sub},
             gLinks \in GroupLinks, rLinks \in RootLinks,
             references \in References, data \in Data}

FixedBytes == [k \in Kind |->
    CASE k = "header" -> 4 [] k \in {"btree", "snods", "local heap"} -> 2
      [] k = "collection" -> 3 [] k \in {"data", "vlen refs"} -> 0 [] OTHER -> 1]
EntryBytes == [k \in Kind |-> IF k = "btree" THEN 0 ELSE IF k = "header" THEN 2 ELSE 1]

-----------------------------------------------------------------------------

\* While calls are made, no build is under way.
WriterInit ==
    /\ kind \in {"calls", "build"}
    /\ Init
    /\ LayoutInit
    /\ kind = "calls" => tree = TreeWith(NoGroup, top, {}, <<>>, <<>>, <<>>, [kind |-> "refused"])

Call == kind = "calls" /\ Next /\ UNCHANGED layoutVars
Build == kind = "build" /\ LayoutNext /\ UNCHANGED vars
Built == kind = "build" /\ phase \in {"done", "failed"} /\ UNCHANGED <<vars, layoutVars>>

WriterNext == (Call \/ Build \/ Built) /\ UNCHANGED kind
WriterSpec == WriterInit /\ [][WriterNext]_<<kind, vars, layoutVars>>
=============================================================================
