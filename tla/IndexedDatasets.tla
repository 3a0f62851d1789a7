--------------------------- MODULE IndexedDatasets ---------------------------
(* Datasets of one to three dimensions under every index of the version-4       *)
(* layout, with all chunks written, some, and none.  Extensible arrays of up to  *)
(* 64 chunks reach super blocks with paged data blocks; some of the datasets     *)
(* were shrunk after their chunks were written, or have grown only in part.      *)
EXTENDS ChunkGeometry

CONSTANT UNLIMITED

Stored(index, dims, max_dims, chunk_dims, written) ==
    [index |-> index, dims |-> dims, max_dims |-> max_dims, chunk_dims |-> chunk_dims,
     written |-> written]

GridOf(dims, chunk_dims) ==
    LET counts == ChunkCounts(dims, chunk_dims)
    IN  {Unflatten(n, counts) : n \in 0..(Volume(counts) - 1)}

\* All, none, and every other chunk.
Written(chunks) ==
    {chunks, {}, {c \in chunks : FoldSeq(+, 0, c) % 2 = 0}, {c \in chunks : c[1] % 3 = 2}}

-----------------------------------------------------------------------------
(* One unlimited dimension: an extensible array *)

\* Any two of the first chunks of a line, or all up to some point; and shrunk lines.
Lines ==
    {Stored("extensible", <<2 * n - 1>>, <<UNLIMITED>>, <<2>>, GridOf(<<2 * n>>, <<2>>)) : n \in {1, 2, 3, 9, 33, 64}}
    \cup {Stored("extensible", <<100>>, <<UNLIMITED>>, <<2>>, {<<i>>, <<j>>}) : i \in 0..49, j \in {3, 17, 40}}
    \cup {Stored("extensible", <<n>>, <<UNLIMITED>>, <<2>>, GridOf(<<40>>, <<2>>)) : n \in 0..20}

\* The unlimited dimension first or second; dims at or below the maximum of the other.
Planes ==
    UNION {{Stored("extensible", <<m, n>>, <<UNLIMITED, 5>>, <<1, 2>>, w) : w \in Written(GridOf(<<m, n>>, <<1, 2>>))}
           \cup {Stored("extensible", <<n, m>>, <<5, UNLIMITED>>, <<2, 1>>, w) : w \in Written(GridOf(<<n, m>>, <<2, 1>>))} :
           m \in 1..5, n \in {2, 4, 5}}

Solids ==
    UNION {{Stored("extensible", <<2, 3, n>>, <<2, 4, UNLIMITED>>, <<1, 2, 1>>, w) : w \in Written(GridOf(<<2, 3, n>>, <<1, 2, 1>>))}
           \cup {Stored("extensible", <<2, n, 3>>, <<2, UNLIMITED, 3>>, <<1, 2, 2>>, w) : w \in Written(GridOf(<<2, 4, 3>>, <<1, 2, 2>>))} :
           n \in 1..4}

-----------------------------------------------------------------------------
(* The other indexes *)

Sized(index, dims, chunk_dims) ==
    {Stored(index, dims, dims, chunk_dims, w) : w \in Written(GridOf(dims, chunk_dims))}

Fixed == Sized("fixed", <<7>>, <<2>>) \cup Sized("fixed", <<3, 5>>, <<1, 2>>) \cup Sized("fixed", <<2, 3, 3>>, <<1, 2, 1>>)

Unindexed ==
    {Stored("implicit", dims, dims, <<2, 2>>, GridOf(dims, <<2, 2>>)) : dims \in {<<4, 4>>, <<3, 5>>, <<1, 2>>}}
    \cup {Stored("single", <<3, 2>>, <<3, 2>>, <<3, 2>>, w) : w \in {{}, {<<0, 0>>}}}

\* Two unlimited dimensions.
Trees == UNION {{Stored("btree2", <<m, 5>>, <<UNLIMITED, UNLIMITED>>, <<2, 2>>, w) : w \in Written(GridOf(<<m, 5>>, <<2, 2>>))} : m \in 1..4}

Datasets == Lines \cup Planes \cup Solids \cup Fixed \cup Unindexed \cup Trees

\* Of fixed size, and not as large as they may become.
Growable == {Stored(index, <<3, 3>>, <<3, 5>>, <<1, 2>>, GridOf(<<3, 3>>, <<1, 2>>)) : index \in {"fixed", "implicit"}}
=============================================================================
