----------------------------- MODULE VirtualFiles -----------------------------
(***************************************************************************)
(* The files that are tried with VirtualDataset: a dataset made of another *)
(* by every pair of some selections, of a line or a square; a dataset made *)
(* of several sources, of its file, of files beside it, below it and       *)
(* elsewhere, that may be virtual or external links themselves.            *)
(***************************************************************************)
EXTENDS ChunkGeometry

AllOf == [kind |-> "all"]
RegularOf(dims, width) == [kind |-> "regular", dims |-> dims, width |-> width]
Step(start, stride, count, block) == [start |-> start, stride |-> stride, count |-> count, block |-> block]
Blocks(rank, blocks) == [kind |-> "blocks", rank |-> rank, blocks |-> blocks]
Between(start, end) == [start |-> start, end |-> end]

Lines == {AllOf, [kind |-> "none"], [kind |-> "points"], [kind |-> "irregular"]}
    \cup {RegularOf(<<Step(start, stride, count, block)>>, 2) :
             start \in 0..1, stride \in 2..3, count \in 1..2, block \in 1..2}
    \cup {RegularOf(<<Step(1, 0, 1, 3)>>, 8), RegularOf(<<Step(0, 1, 1, 1)>>, 3)}
    \cup {Blocks(1, [i \in DOMAIN starts |-> Between(<<starts[i]>>, <<starts[i] + 1>>)]) :
             starts \in {<<>>, <<1>>, <<0, 2>>, <<2, 0>>, <<4, 0, 2>>, <<0, 4>>, <<0, 2, 5>>}}
    \cup {Blocks(1, <<Between(<<0>>, <<0>>), Between(<<2>>, <<3>>)>>)}
Squares == {AllOf} \cup {RegularOf(<<s, t>>, 1) : s, t \in {Step(0, 2, 2, 1), Step(1, 1, 1, 2), Step(0, 3, 1, 1)}}
    \cup {Blocks(2, [i \in DOMAIN corners |-> Between(corners[i], [corners[i] EXCEPT ![2] = @ + 1])]) :
             corners \in {<<<<1, 1>>>>, <<<<0, 1>>, <<2, 1>>>>, <<<<2, 0>>, <<1, 0>>>>, <<<<0, 0>>, <<1, 1>>>>}}

\* The working directory of the process, and another one.
Home == <<47, 1>>
Away == <<47, 2>>

Stored(id, dims) == [kind |-> "stored", dims |-> dims, size |-> 4,
                     data |-> [i \in 1..Volume(dims) |-> <<id, i>>]]
Virtual(dims, version, mappings) ==
    [kind |-> "virtual", dims |-> dims, size |-> 4, vlen |-> FALSE, version |-> version,
     mappings |-> mappings, cut |-> 0]
Linked(path, name) == [kind |-> "external", file |-> path, name |-> name]
Map(path, name, source, target) == [file |-> path, name |-> name, from |-> source, to |-> target]
Whole(path, name) == Map(path, name, AllOf, AllOf)
Single(at, object) == at :> (<<1>> :> object @@ <<2>> :> Stored("line", <<4>>) @@ <<3>> :> Stored("square", <<3, 3>>))

Selected ==
    {Single(Away \o <<7>>, Virtual(<<6>>, 0, <<Map(<<46>>, <<2>>, from, to)>>)) : from, to \in Lines}
    \cup {Single(Away \o <<7>>, Virtual(<<6>>, 0, <<Map(<<>>, <<3>>, from, to)>>)) : from \in Squares, to \in Lines}
    \cup {Single(Away \o <<7>>, Virtual(<<3, 3>>, 1, <<Map(<<>>, <<3>>, from, to)>>)) : from, to \in Squares}
    \cup {Single(Away \o <<7>>, [Virtual(<<4>>, version, <<Whole(<<>>, <<2>>), Map(<<>>, <<2>>, f, t)>>)
                                   EXCEPT !.cut = cut, !.vlen = vlen]) :
             version \in 0..2, cut \in {0, 4, 5, 30, 100}, vlen \in BOOLEAN,
             f \in {RegularOf(<<Step(0, 1, 2, 1)>>, 1)}, t \in {RegularOf(<<Step(1, 1, 1, 2)>>, 1)}}

\* The file to read, files beside it, below it and in the working directory.
Tree(directory, made) ==
    (directory \o <<7>>) :>
        (<<1>> :> made @@ <<2>> :> Stored("own", <<2>>)
         @@ <<3>> :> Virtual(<<2>>, 0, <<Whole(<<8>>, <<1>>)>>) @@ <<4>> :> Linked(<<3, 8>>, <<2>>)
         @@ <<5>> :> [Stored("wide", <<2>>) EXCEPT !.size = 8]
         @@ <<6>> :> [Stored("empty", <<2>>) EXCEPT !.data = <<>>])
    @@ (directory \o <<8>>) :> (<<1>> :> Stored("beside", <<2>>) @@ <<2>> :> Linked(<<3, 8>>, <<1>>))
    @@ (directory \o <<3, 8>>) :> (<<1>> :> Stored("below", <<2>>) @@ <<2>> :> Linked(<<9>>, <<1>>))
    @@ (directory \o <<3, 9>>) :> (<<1>> :> Virtual(<<2>>, 1, <<Whole(Home \o <<8>>, <<1>>)>>))
    @@ (Home \o <<8>>) :> (<<1>> :> Stored("home", <<2>>) @@ <<2>> :> Stored("other", <<2>>))

LeftHalf == RegularOf(<<Step(0, 1, 1, 1)>>, 4)
PairsOf(sources) ==
    {Virtual(<<2>>, 1, <<Whole(s[1], s[2]), Map(t[1], t[2], LeftHalf, LeftHalf)>>) : s, t \in sources}
AnySource == {<<<<>>, <<2>>>>, <<<<46>>, <<5>>>>, <<<<>>, <<6>>>>, <<<<>>, <<9>>>>, <<<<8>>, <<1>>>>, <<<<8>>, <<2>>>>,
              <<<<3, 8>>, <<2>>>>, <<Home \o <<8>>, <<2>>>>, <<<<9>>, <<1>>>>}
\* Of this file, but beside it: virtual, or an external link.
Through == {<<<<>>, <<3>>>>, <<<<46>>, <<4>>>>}

\* A source of this file with relative paths of its own is read where the file is in the
\* working directory; elsewhere it is the subject of Detours.
Disks == Selected \cup {Tree(Away, made) : made \in PairsOf(AnySource)}
                  \cup {Tree(Home, made) : made \in PairsOf(Through \cup {<<<<8>>, <<1>>>>})}
Detours == {Tree(Away, made) : made \in PairsOf(Through)}

ReadsOfThem == [path: {Away \o <<7>>, <<7>>}, name: {<<1>>}]
===============================================================================
