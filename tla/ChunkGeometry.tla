---------------------------- MODULE ChunkGeometry ----------------------------
(***************************************************************************)
(* The arithmetic of chunked storage on the write side                     *)
(* (write/chunked.rs, write/payload.rs): which tiles a dataset is cut      *)
(* into, in which order, what each holds, and the key that closes its      *)
(* chunk index.  Shapes, grid coordinates and offsets are sequences of     *)
(* naturals, one entry per dimension, dimension 1 the slowest.             *)
(***************************************************************************)
EXTENDS Naturals, Sequences, SequencesExt, FiniteSetsExt

Volume(dims) ==
    LET upTo[d \in 0..Len(dims)] == IF d = 0 THEN 1 ELSE upTo[d - 1] * dims[d]
    IN  upTo[Len(dims)]

CeilDiv(n, k) == (n + k - 1) \div k

-----------------------------------------------------------------------------
(* chunk_shape_of: complete a caller's chunk shape, or refuse it *)

CompletedShape(shape, request) ==
    [d \in DOMAIN shape |-> IF d \in DOMAIN request
                            THEN request[d]
                            ELSE IF shape[d] = 0 THEN 1 ELSE shape[d]]

\* A chunk may outgrow only the growth dimension, or an empty one.
ChunkShapeOk(shape, request, unlimited_dim0) ==
    /\ shape # <<>>
    /\ Len(request) <= Len(shape)
    /\ \A d \in DOMAIN shape :
           LET chunk == CompletedShape(shape, request)[d]
           IN  /\ chunk # 0
               /\ (d = 1 /\ unlimited_dim0) \/ shape[d] = 0 \/ chunk <= shape[d]

-----------------------------------------------------------------------------
(* The chunk grid *)

ChunkCounts(shape, chunk_shape) ==
    [d \in DOMAIN shape |-> CeilDiv(shape[d], chunk_shape[d])]

ChunkCount(shape, chunk_shape) == Volume(ChunkCounts(shape, chunk_shape))

\* strides: elements from one index of a dimension to the next, row-major.
Strides(dims) ==
    LET stride[d \in DOMAIN dims] ==
            IF d = Len(dims) THEN 1 ELSE stride[d + 1] * dims[d + 1]
    IN  stride

\* The coordinates of flat index `flat` of a row-major grid.
Unflatten(flat, dims) ==
    [d \in DOMAIN dims |-> (flat \div Strides(dims)[d]) % dims[d]]

\* The flat index of coordinates in a row-major array.
Flatten(coords, dims) ==
    LET upTo[d \in 0..Len(dims)] ==
            IF d = 0 THEN 0 ELSE upTo[d - 1] + coords[d] * Strides(dims)[d]
    IN  upTo[Len(dims)]

\* chunk_origins: every chunk's offsets, in the order the chunk index files them.
ChunkOrigins(shape, chunk_shape) ==
    LET counts == ChunkCounts(shape, chunk_shape)
    IN  [n \in 1..ChunkCount(shape, chunk_shape) |->
            [d \in DOMAIN shape |-> Unflatten(n - 1, counts)[d] * chunk_shape[d]]]

-----------------------------------------------------------------------------
(* cut_tile: a full-size tile, `fill` where it hangs over the dataset *)

CutTile(raw, shape, chunk_shape, origin, fill) ==
    [n \in 1..Volume(chunk_shape) |->
        LET local == Unflatten(n - 1, chunk_shape)
            absolute == [d \in DOMAIN shape |-> origin[d] + local[d]]
            source == Flatten(absolute, shape)
        IN  IF (\A d \in DOMAIN shape : absolute[d] < shape[d]) /\ source < Len(raw)
            THEN raw[source + 1]
            ELSE fill]

-----------------------------------------------------------------------------
(* Keys of the chunk index, compared dimension by dimension *)

KeyLess(k, l) ==
    \E d \in DOMAIN k : k[d] < l[d] /\ \A e \in 1..(d - 1) : k[e] = l[e]

KeyLeq(k, l) == k = l \/ KeyLess(k, l)

\* end_offsets: the right key libhdf5 would have left behind, had it inserted the
\* chunks in row-major order.  It starts one past the first chunk in every
\* dimension, and each later chunk that sorts past it moves it one past itself.
EndOffsets(shape, chunk_shape) ==
    LET counts == ChunkCounts(shape, chunk_shape)
        total == Volume(counts)
        grid(n) == Unflatten(n - 1, counts)
        right[n \in 0..total] ==
            IF n = 0 THEN [d \in DOMAIN shape |-> 1]
            ELSE IF KeyLess(right[n - 1], grid(n)) THEN [d \in DOMAIN shape |-> grid(n)[d] + 1]
            ELSE right[n - 1]
    IN  IF \E d \in DOMAIN shape : counts[d] = 0
        THEN [d \in DOMAIN shape |-> counts[d] * chunk_shape[d]]
        ELSE [d \in DOMAIN shape |-> right[total][d] * chunk_shape[d]]
=============================================================================
