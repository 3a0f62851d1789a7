----------------------------- MODULE DatasetProofs -----------------------------
(***************************************************************************)
(* Proofs about one dataset, in two parts.                                 *)
(* Its storage, for every shape, tiling, attribute and order of calls: no  *)
(* call loses the caller's elements, a tiling that was judged fails a      *)
(* build only for a dataset that is too large, chunks are written at full  *)
(* size, and a refused call leaves no trace.                               *)
(* The index of its chunks, for every shape, chunk shape and node size:    *)
(* the writer's version-1 B-tree fills its reservation, and both readers   *)
(* find in it every chunk under its own origin, and nothing else.          *)
(***************************************************************************)
EXTENDS DatasetStorage, ChunkIndex, GeometryProofs

\* Every attribute and every sentinel, and what it holds.
Attrs == [name : AttrName \cup {FillValueName, CompactName},
          kind : {"Value", "FillValue", "CompactLayout"},
          data : Seq({"data"})]

Storage == [chunked : BOOLEAN, chunk_shape : Seq(Nat), unlimited_dim0 : BOOLEAN]

StorageTypeOK ==
    /\ ds \in [elem : ElemSort \cup {"none"}, shape : Seq(Nat), raw : Seq({"data"}),
               attrs : Seq(Attrs), storage : Storage, filter : SUBSET FilterId]
    /\ outcome \in {"ok", "Format"}

\* Before the dataset is created there is nothing of it.
NothingUndeclared == ~Declared => ds = Undeclared

\* A compact sentinel holds all of the data, under its own name.
CompactHoldsAll ==
    \A i \in 1..Len(ds.attrs) :
        ds.attrs[i].kind = "CompactLayout" =>
            /\ ds.attrs[i].name = CompactName
            /\ ~IsVlen(ds.elem) /\ ds.attrs[i].data = Data(ds.shape)

\* The data are in `raw` unless they were moved to the sentinel.
RawHoldsTheRest ==
    Declared /\ ~IsVlen(ds.elem) => ds.raw = IF IsCompact THEN <<>> ELSE Data(ds.shape)

\* A tiling was judged, but for that of an unlimited dataset.
TilingWasJudged ==
    ds.storage.chunked =>
        /\ ~IsVlen(ds.elem)
        /\ ds.storage.unlimited_dim0 \/ ChunkShapeOk(ds.shape, ds.storage.chunk_shape, FALSE)

StorageInv == /\ StorageTypeOK /\ NothingUndeclared /\ CompactHoldsAll
              /\ RawHoldsTheRest /\ TilingWasJudged

-----------------------------------------------------------------------------
(* Data *)

\* The data of a dataset are as many as its shape has room for.
LEMMA DataFills ==
    ASSUME NEW shape \in Seq(Nat)
    PROVE  /\ Volume(shape) \in Nat /\ Data(shape) \in Seq({"data"})
           /\ Len(Data(shape)) = Volume(shape)
<1>1. Len(shape) \in Nat /\ \A d \in 1..Len(shape) : shape[d] \in Nat
  OBVIOUS
<1>2. Volume(shape) \in Nat
  BY <1>1, VolumeIsNatural
<1> QED
  BY <1>2 DEF Data

-----------------------------------------------------------------------------
(* The list of attributes *)

Elements(s) == {s[i] : i \in 1..Len(s)}

\* Appending adds one element.
LEMMA AppendAdds ==
    ASSUME NEW T, NEW s \in Seq(T), NEW e \in T
    PROVE  /\ Append(s, e) \in Seq(T) /\ Len(Append(s, e)) = Len(s) + 1
           /\ Append(s, e)[Len(s) + 1] = e
           /\ \A i \in 1..Len(s) : Append(s, e)[i] = s[i]
           /\ Elements(Append(s, e)) = Elements(s) \cup {e}
<1>1. /\ Append(s, e) \in Seq(T) /\ Len(Append(s, e)) = Len(s) + 1 /\ Len(s) \in Nat
      /\ Append(s, e)[Len(s) + 1] = e
      /\ \A i \in 1..Len(s) : Append(s, e)[i] = s[i]
  OBVIOUS
<1>2. ASSUME NEW i \in 1..(Len(s) + 1) PROVE Append(s, e)[i] \in Elements(s) \cup {e}
  BY <1>1 DEF Elements
<1>3. ASSUME NEW i \in 1..Len(s) PROVE s[i] \in Elements(Append(s, e))
  <2>1. i \in 1..Len(Append(s, e)) /\ Append(s, e)[i] = s[i]
    BY <1>1
  <2> QED
    BY <2>1 DEF Elements
<1>4. e \in Elements(Append(s, e))
  <2>1. Len(s) + 1 \in 1..Len(Append(s, e))
    BY <1>1
  <2> QED
    BY <1>1, <2>1 DEF Elements
<1>5. Elements(Append(s, e)) \subseteq Elements(s) \cup {e}
  BY <1>1, <1>2 DEF Elements
<1>6. Elements(s) \subseteq Elements(Append(s, e))
  BY <1>3 DEF Elements
<1> QED
  BY <1>1, <1>4, <1>5, <1>6

\* Keeping the elements of a list that are of another kind, one after the other.
Keeps(f, s, kind, n) ==
    f = [k \in 0..n |-> IF k = 0 THEN <<>>
                        ELSE IF s[k].kind = kind THEN f[k - 1] ELSE Append(f[k - 1], s[k])]

\* What has been kept of the first elements.
Kept(f, T, s, kind, n) ==
    \A k \in 0..n :
        /\ f[k] \in Seq(T)
        /\ Elements(f[k]) = {s[i] : i \in {j \in 1..k : s[j].kind # kind}}

\* That is possible for a list of any length.
LEMMA KeepsExist ==
    ASSUME NEW T, NEW s \in Seq(T), NEW kind, NEW n \in Nat, n <= Len(s)
    PROVE  \E f : Keeps(f, s, kind, n)
<1> DEFINE Missing == {m \in 0..n : ~\E f : Keeps(f, s, kind, m)}
<1>0. n \in 0..n
  OBVIOUS
<1> SUFFICES ASSUME Missing # {} PROVE FALSE
  BY <1>0
<1>1. PICK m \in Missing : \A k \in Missing : m <= k
  <2>1. Missing \subseteq Nat
    OBVIOUS
  <2> HIDE DEF Missing
  <2> QED
    BY <2>1, LeastNumber
<1>2. CASE m = 0
  <2> DEFINE f == [k \in 0..0 |-> <<>>]
  <2>1. f = [k \in 0..0 |-> IF k = 0 THEN <<>>
                            ELSE IF s[k].kind = kind THEN f[k - 1] ELSE Append(f[k - 1], s[k])]
    OBVIOUS
  <2>2. Keeps(f, s, kind, 0)
    BY <2>1 DEF Keeps
  <2> QED
    BY <1>1, <1>2, <2>2
<1>3. CASE m # 0
  <2>1. m - 1 \in 0..n /\ m - 1 \notin Missing /\ m \in 1..n
    BY <1>1, <1>3
  <2>2. PICK f : Keeps(f, s, kind, m - 1)
    BY <2>1
  <2> DEFINE last == IF s[m].kind = kind THEN f[m - 1] ELSE Append(f[m - 1], s[m])
             h == [k \in 0..m |-> IF k = m THEN last ELSE f[k]]
             next(g, k) == IF k = 0 THEN <<>>
                           ELSE IF s[k].kind = kind THEN g[k - 1] ELSE Append(g[k - 1], s[k])
  <2>3. ASSUME NEW k \in 0..m PROVE h[k] = next(h, k)
    <3>1. CASE k = m
      <4>1. h[m - 1] = f[m - 1] /\ h[m] = last
        <5> HIDE DEF last
        <5> QED
          BY <1>3, <2>1
      <4> QED
        BY <1>3, <3>1, <4>1
    <3>2. CASE k # m
      <4>1. k \in 0..(m - 1) /\ (k # 0 => k - 1 \in 0..m /\ k - 1 # m)
        BY <2>1, <3>2
      <4>2. f[k] = next(f, k)
        BY <2>2, <4>1 DEF Keeps
      <4>3. h[k] = f[k] /\ (k # 0 => h[k - 1] = f[k - 1])
        <5> HIDE DEF last
        <5> QED
          BY <3>2, <4>1
      <4> HIDE DEF h
      <4> QED
        BY <4>2, <4>3
    <3> QED
      BY <3>1, <3>2
  <2>4. h = [k \in 0..m |-> h[k]]
    <3> HIDE DEF last
    <3> QED
      OBVIOUS
  <2> HIDE DEF h
  <2>5. Keeps(h, s, kind, m)
    BY <2>3, <2>4 DEF Keeps
  <2> QED
    BY <1>1, <2>5
<1> QED
  BY <1>2, <1>3

\* What is kept are the elements of another kind.
LEMMA KeepsAreKept ==
    ASSUME NEW T, NEW s \in Seq(T), NEW kind, NEW n \in Nat, n <= Len(s),
           NEW f, Keeps(f, s, kind, n)
    PROVE  Kept(f, T, s, kind, n)
<1> DEFINE These(k) == {s[i] : i \in {j \in 1..k : s[j].kind # kind}}
           Wrong == {k \in 0..n : ~(f[k] \in Seq(T) /\ Elements(f[k]) = These(k))}
<1> SUFFICES ASSUME Wrong # {} PROVE FALSE
  BY DEF Kept
<1>1. PICK k \in Wrong : \A j \in Wrong : k <= j
  <2>1. Wrong \subseteq Nat
    OBVIOUS
  <2> HIDE DEF Wrong
  <2> QED
    BY <2>1, LeastNumber
<1>2. f[k] = IF k = 0 THEN <<>> ELSE IF s[k].kind = kind THEN f[k - 1] ELSE Append(f[k - 1], s[k])
  BY DEF Keeps
<1>3. CASE k = 0
  <2>1. f[k] = <<>> /\ These(k) = {}
    BY <1>2, <1>3
  <2>2. <<>> \in Seq(T) /\ Elements(<<>>) = {}
    BY DEF Elements
  <2> QED
    BY <1>1, <2>1, <2>2
<1>4. CASE k # 0
  <2>1. k - 1 \in 0..n /\ k - 1 \notin Wrong /\ k \in 1..Len(s)
    <3>1. k \in 0..n /\ Len(s) \in Nat
      BY <1>1
    <3> HIDE DEF Wrong
    <3> QED
      BY <1>1, <1>4, <3>1
  <2>2. f[k - 1] \in Seq(T) /\ Elements(f[k - 1]) = These(k - 1)
    <3> HIDE DEF These
    <3>1. \A j \in 0..n : j \notin Wrong => f[j] \in Seq(T) /\ Elements(f[j]) = These(j)
      OBVIOUS
    <3> HIDE DEF Wrong
    <3> QED
      BY <2>1, <3>1
  <2>3. s[k] \in T
    BY <2>1
  <2>4. CASE s[k].kind = kind
    <3>1. f[k] = f[k - 1]
      BY <1>2, <1>4, <2>4
    <3>2. \A i \in 1..k : s[i].kind # kind => i \in 1..(k - 1)
      BY <2>1, <2>4
    <3>3. \A i \in 1..(k - 1) : i \in 1..k
      BY <2>1
    <3>4. These(k) = These(k - 1)
      BY <3>2, <3>3
    <3> QED
      BY <1>1, <2>2, <3>1, <3>4
  <2>5. CASE s[k].kind # kind
    <3>1. f[k] = Append(f[k - 1], s[k])
      BY <1>2, <1>4, <2>5
    <3>2. Elements(f[k]) = These(k - 1) \cup {s[k]} /\ f[k] \in Seq(T)
      BY <2>2, <2>3, <3>1, AppendAdds
    <3>3. \A i \in 1..k : i \in 1..(k - 1) \/ i = k
      BY <2>1
    <3>4. k \in 1..k /\ \A i \in 1..(k - 1) : i \in 1..k
      BY <2>1
    <3>5. These(k) \subseteq These(k - 1) \cup {s[k]}
      BY <3>3
    <3>6. These(k - 1) \subseteq These(k) /\ s[k] \in These(k)
      BY <2>5, <3>4
    <3> QED
      BY <1>1, <3>2, <3>5, <3>6
  <2> QED
    BY <2>4, <2>5
<1> QED
  BY <1>3, <1>4

\* What remains of a list without a kind are its elements of the others.
LEMMA WithoutKeepsOthers ==
    ASSUME NEW T, NEW s \in Seq(T), NEW kind
    PROVE  /\ Without(s, kind) \in Seq(T)
           /\ Elements(Without(s, kind)) = {a \in Elements(s) : a.kind # kind}
<1> DEFINE n == Len(s)
           Is(f) == f = [k \in 0..n |-> IF k = 0 THEN <<>>
                             ELSE IF s[k].kind = kind THEN f[k - 1] ELSE Append(f[k - 1], s[k])]
           chosen == CHOOSE f : Is(f)
<1>1. n \in Nat /\ n <= Len(s)
  OBVIOUS
<1>2. \E f : Is(f)
  <2>1. PICK f : Keeps(f, s, kind, n)
    BY <1>1, KeepsExist
  <2> QED
    BY <2>1 DEF Keeps
<1>3. Is(chosen)
  <2> HIDE DEF Is
  <2> QED
    BY <1>2
<1>4. Without(s, kind) = chosen[n]
  BY DEF Without
<1> HIDE DEF chosen
<1>5. Keeps(chosen, s, kind, n)
  BY <1>3 DEF Keeps
<1>6. Kept(chosen, T, s, kind, n)
  <2> HIDE DEF n
  <2> QED
    BY <1>1, <1>5, KeepsAreKept
<1>7. n \in 0..n
  BY <1>1
<1>8. chosen[n] \in Seq(T) /\ Elements(chosen[n]) = {s[i] : i \in {j \in 1..n : s[j].kind # kind}}
  BY <1>6, <1>7 DEF Kept
<1>9. {s[i] : i \in {j \in 1..n : s[j].kind # kind}} = {a \in Elements(s) : a.kind # kind}
  BY DEF Elements
<1> QED
  BY <1>4, <1>8, <1>9

\* The first attribute of a name has that name.
LEMMA FirstHasName ==
    ASSUME NEW T, NEW s \in Seq(T), NEW name, \E i \in 1..Len(s) : s[i].name = name
    PROVE  /\ SelectInSeq(s, LAMBDA a : a.name = name) \in 1..Len(s)
           /\ s[SelectInSeq(s, LAMBDA a : a.name = name)].name = name
<1> DEFINE I == {i \in 1..Len(s) : s[i].name = name}
<1>1. I # {} /\ I \subseteq Nat
  OBVIOUS
<1>2. SelectInSeq(s, LAMBDA a : a.name = name) = Min(I)
  BY <1>1 DEF SelectInSeq
<1>3. \E i \in I : \A j \in I : i <= j
  <2> HIDE DEF I
  <2> QED
    BY <1>1, LeastNumber
<1>4. Min(I) \in I
  <2> HIDE DEF I
  <2> QED
    BY <1>3 DEF Min
<1> QED
  BY <1>2, <1>4

\* The first attribute of a kind is of that kind.
LEMMA FirstIsOfKind ==
    ASSUME NEW T, NEW s \in Seq(T), NEW kind, Has(s, kind)
    PROVE  \E i \in 1..Len(s) : FirstOfKind(s, kind) = s[i] /\ s[i].kind = kind
<1> DEFINE I == {i \in 1..Len(s) : s[i].kind = kind}
<1>1. I # {} /\ I \subseteq Nat
  BY DEF Has
<1>2. SelectInSeq(s, LAMBDA a : a.kind = kind) = Min(I)
  BY <1>1 DEF SelectInSeq
<1>3. \E i \in I : \A j \in I : i <= j
  <2> HIDE DEF I
  <2> QED
    BY <1>1, LeastNumber
<1>4. Min(I) \in I
  <2> HIDE DEF I
  <2> QED
    BY <1>3 DEF Min
<1>5. FirstOfKind(s, kind) = s[Min(I)]
  BY <1>2 DEF FirstOfKind
<1> QED
  BY <1>4, <1>5

-----------------------------------------------------------------------------
(* What the calls keep *)

\* A list has a kind if one of its elements is of it.
LEMMA HasElement ==
    ASSUME NEW T, NEW s \in Seq(T), NEW kind
    PROVE  Has(s, kind) <=> \E a \in Elements(s) : a.kind = kind
  BY DEF Has, Elements

\* The two ways of saying what the sentinels hold.
CompactElementsHold(attrs, elem, shape) ==
    \A a \in Elements(attrs) :
        a.kind = "CompactLayout" => a.name = CompactName /\ ~IsVlen(elem) /\ a.data = Data(shape)

LEMMA CompactByElements == CompactHoldsAll <=> CompactElementsHold(ds.attrs, ds.elem, ds.shape)
  BY DEF CompactHoldsAll, CompactElementsHold, Elements

LEMMA CompactByElementsNext ==
    CompactHoldsAll' <=> CompactElementsHold(ds'.attrs, ds'.elem, ds'.shape)
  BY DEF CompactHoldsAll, CompactElementsHold, Elements

\* A dataset that is created is contiguous, or chunked and unlimited.
LEMMA CreatingKeeps ==
    ASSUME StorageInv, NEW shape \in Shape,
           \/ \E elem \in ElemSort : CreateContiguous(elem, shape)
           \/ \E request \in ChunkRequest : CreateUnlimited(shape, request)
    PROVE  StorageInv'
<1>1. /\ shape \in Seq(Nat) /\ <<>> \in Seq({"data"}) /\ <<>> \in Seq(Attrs)
      /\ {} \in SUBSET FilterId
  BY StorageAssumption
<1>2. Data(shape) \in Seq({"data"})
  BY <1>1, DataFills
<1>3. CASE \E elem \in ElemSort : CreateContiguous(elem, shape)
  <2>1. PICK elem \in ElemSort : CreateContiguous(elem, shape)
    BY <1>3
  <2>2. ds' = [elem |-> elem, shape |-> shape, raw |-> IF IsVlen(elem) THEN <<>> ELSE Data(shape),
               attrs |-> <<>>, storage |-> Contiguous, filter |-> {}] /\ outcome' = "ok"
    BY <2>1 DEF CreateContiguous, Undeclared, Succeed
  <2>3. Contiguous \in Storage /\ ~Contiguous.chunked
    BY DEF Contiguous, Storage
  <2>4. StorageTypeOK'
    BY <1>1, <1>2, <2>2, <2>3 DEF StorageTypeOK
  <2>5. Declared' /\ ~IsCompact' /\ CompactHoldsAll'
    BY <2>2 DEF Declared, IsCompact, Has, CompactHoldsAll, ElemSort
  <2>6. RawHoldsTheRest' /\ TilingWasJudged' /\ NothingUndeclared'
    BY <2>2, <2>3, <2>5 DEF RawHoldsTheRest, TilingWasJudged, NothingUndeclared
  <2> QED
    BY <2>4, <2>5, <2>6 DEF StorageInv
<1>4. CASE \E request \in ChunkRequest : CreateUnlimited(shape, request)
  <2>1. PICK request \in ChunkRequest : CreateUnlimited(shape, request)
    BY <1>4
  <2>2. ds' = [elem |-> "numeric", shape |-> shape, raw |-> Data(shape),
               attrs |-> <<>>, storage |-> Chunked(request, TRUE), filter |-> {}] /\ outcome' = "ok"
    BY <2>1 DEF CreateUnlimited, Undeclared, Succeed
  <2>3. Chunked(request, TRUE) \in Storage /\ Chunked(request, TRUE).unlimited_dim0
    BY StorageAssumption DEF Chunked, Storage
  <2>4. StorageTypeOK'
    BY <1>1, <1>2, <2>2, <2>3 DEF StorageTypeOK, ElemSort
  <2>5. Declared' /\ ~IsCompact' /\ CompactHoldsAll'
    BY <2>2 DEF Declared, IsCompact, Has, CompactHoldsAll
  <2>6. RawHoldsTheRest' /\ TilingWasJudged' /\ NothingUndeclared'
    BY <2>2, <2>3, <2>5 DEF RawHoldsTheRest, TilingWasJudged, NothingUndeclared, IsVlen
  <2> QED
    BY <2>4, <2>5, <2>6 DEF StorageInv
<1> QED
  BY <1>3, <1>4

\* A call that only sets another tiling, or another filter, keeps the rest.
LEMMA RetilingKeeps ==
    ASSUME StorageInv, Declared, NEW storage \in Storage, NEW filter \in SUBSET FilterId,
           ds' = [ds EXCEPT !.storage = storage, !.filter = filter], outcome' \in {"ok", "Format"},
           storage = ds.storage \/ ( /\ ~IsVlen(ds.elem)
                                     /\ storage.unlimited_dim0
                                        \/ ChunkShapeOk(ds.shape, storage.chunk_shape, FALSE))
    PROVE  StorageInv'
<1>1. /\ ds'.elem = ds.elem /\ ds'.shape = ds.shape /\ ds'.raw = ds.raw /\ ds'.attrs = ds.attrs
      /\ ds'.storage = storage /\ ds'.filter = filter
      /\ StorageTypeOK'
  BY DEF StorageInv, StorageTypeOK
<1>2. Declared' /\ (IsCompact <=> IsCompact') /\ CompactHoldsAll' /\ RawHoldsTheRest'
  BY <1>1 DEF StorageInv, Declared, IsCompact, CompactHoldsAll, RawHoldsTheRest
<1>3. TilingWasJudged'
  BY <1>1 DEF StorageInv, TilingWasJudged
<1> QED
  BY <1>1, <1>2, <1>3 DEF StorageInv, NothingUndeclared

\* The whole dataset in one chunk is a tiling for any shape.
LEMMA OneChunkFits ==
    ASSUME NEW shape \in Seq(Nat), shape # <<>>
    PROVE  ChunkShapeOk(shape, <<>>, FALSE)
<1>1. DOMAIN shape = 1..Len(shape) /\ DOMAIN <<>> = {} /\ Len(<<>>) <= Len(shape)
  OBVIOUS
<1>2. ASSUME NEW d \in DOMAIN shape
      PROVE  CompletedShape(shape, <<>>)[d] = IF shape[d] = 0 THEN 1 ELSE shape[d]
  BY <1>1 DEF CompletedShape
<1>3. ASSUME NEW d \in DOMAIN shape PROVE shape[d] \in Nat
  OBVIOUS
<1> QED
  BY <1>1, <1>2, <1>3 DEF ChunkShapeOk

\* set_deflate, set_shuffle, set_fletcher32: a dataset that is filtered is chunked.
LEMMA SetFilterKeeps ==
    ASSUME StorageInv, NEW id \in FilterId, SetFilter(id)
    PROVE  StorageInv'
<1>1. CASE EnsureFilterable /\ Succeed
            /\ ds' = [ds EXCEPT !.storage = EnsureChunked(@), !.filter = @ \cup {id}]
  <2> DEFINE storage == EnsureChunked(ds.storage)
             filter == ds.filter \cup {id}
  <2>1. ds.storage \in Storage /\ ds.shape \in Seq(Nat) /\ ds.filter \in SUBSET FilterId
    BY DEF StorageInv, StorageTypeOK
  <2>2. filter \in SUBSET FilterId /\ ds' = [ds EXCEPT !.storage = storage, !.filter = filter]
    BY <1>1, <2>1
  <2>3. ~IsVlen(ds.elem) /\ ds.shape # <<>>
    BY <1>1 DEF EnsureFilterable
  <2>4. CASE ds.storage.chunked
    <3>1. storage = ds.storage
      BY <2>4 DEF EnsureChunked
    <3> HIDE DEF storage, filter
    <3> QED
      BY <1>1, <2>1, <2>2, <3>1, RetilingKeeps DEF SetFilter, Succeed
  <2>5. CASE ~ds.storage.chunked
    <3>1. storage = Chunked(<<>>, FALSE)
      BY <2>5 DEF EnsureChunked
    <3>2. storage \in Storage /\ storage.chunk_shape = <<>>
      BY <3>1 DEF Chunked, Storage
    <3>3. ChunkShapeOk(ds.shape, storage.chunk_shape, FALSE)
      BY <2>1, <2>3, <3>2, OneChunkFits
    <3> HIDE DEF storage, filter
    <3> QED
      BY <1>1, <2>2, <2>3, <3>2, <3>3, RetilingKeeps DEF SetFilter, Succeed
  <2> QED
    BY <2>4, <2>5
<1>2. CASE Refuse
  <2>1. ds' = ds /\ outcome' \in {"ok", "Format"}
    BY <1>2 DEF Refuse
  <2> QED
    BY <2>1 DEF StorageInv, StorageTypeOK, NothingUndeclared, CompactHoldsAll, RawHoldsTheRest,
                TilingWasJudged, Declared, IsCompact
<1> QED
  BY <1>1, <1>2 DEF SetFilter

\* What changes nothing keeps everything.
LEMMA NothingChangesKeeps ==
    ASSUME StorageInv, ds' = ds, outcome' \in {"ok", "Format"}
    PROVE  StorageInv'
  BY DEF StorageInv, StorageTypeOK, NothingUndeclared, CompactHoldsAll, RawHoldsTheRest,
         TilingWasJudged, Declared, IsCompact

\* set_chunking keeps a tiling it has judged, and takes one back that it refuses.
LEMMA SetChunkingTakesBack ==
    ASSUME StorageInv, NEW request \in ChunkRequest, SetChunking(request), outcome' # "ok"
    PROVE  ds' = ds /\ outcome' = "Format"
<1>1. CASE Refuse
  BY <1>1 DEF Refuse
<1>2. CASE outcome' = "Format" /\ ds' = [[ds EXCEPT !.storage = Chunked(request, FALSE)]
                                            EXCEPT !.storage = ds.storage]
  <2>1. [[ds EXCEPT !.storage = Chunked(request, FALSE)] EXCEPT !.storage = ds.storage] = ds
    BY DEF StorageInv, StorageTypeOK
  <2> QED
    BY <1>2, <2>1
<1> QED
  BY <1>1, <1>2 DEF SetChunking, Succeed

LEMMA SetChunkingKeeps ==
    ASSUME StorageInv, NEW request \in ChunkRequest, SetChunking(request)
    PROVE  StorageInv'
<1>1. CASE outcome' # "ok"
  <2>1. ds' = ds /\ outcome' = "Format"
    BY <1>1, SetChunkingTakesBack
  <2> QED
    BY <2>1, NothingChangesKeeps
<1>2. CASE outcome' = "ok"
  <2> DEFINE storage == Chunked(request, FALSE)
             filter == ds.filter
  <2>1. /\ EnsureFilterable /\ Declared /\ ds' = [ds EXCEPT !.storage = storage]
        /\ ChunkShapeOk(ds.shape, request, FALSE)
    <3>1. [ds EXCEPT !.storage = storage].shape = ds.shape
      BY DEF StorageInv, StorageTypeOK
    <3> QED
      BY <1>2, <3>1 DEF SetChunking, Refuse
  <2>2. filter \in SUBSET FilterId /\ ds' = [ds EXCEPT !.storage = storage, !.filter = filter]
    BY <2>1 DEF StorageInv, StorageTypeOK
  <2>3. storage \in Storage /\ storage.chunk_shape = request
    BY StorageAssumption DEF Chunked, Storage
  <2>4. ~IsVlen(ds.elem) /\ ChunkShapeOk(ds.shape, storage.chunk_shape, FALSE)
    BY <2>1, <2>3 DEF EnsureFilterable
  <2> HIDE DEF storage, filter
  <2> QED
    BY <1>2, <2>1, <2>2, <2>3, <2>4, RetilingKeeps
<1> QED
  BY <1>1, <1>2

\* A call that only changes the list of attributes keeps the rest.
LEMMA AttachingKeeps ==
    ASSUME StorageInv, Declared, NEW raw \in Seq({"data"}), NEW attrs \in Seq(Attrs),
           ds' = [ds EXCEPT !.raw = raw, !.attrs = attrs], outcome' \in {"ok", "Format"},
           CompactElementsHold(attrs, ds.elem, ds.shape),
           ~IsVlen(ds.elem) => raw = IF Has(attrs, "CompactLayout") THEN <<>> ELSE Data(ds.shape)
    PROVE  StorageInv'
<1>1. /\ ds'.elem = ds.elem /\ ds'.shape = ds.shape /\ ds'.raw = raw /\ ds'.attrs = attrs
      /\ ds'.storage = ds.storage /\ ds'.filter = ds.filter
      /\ StorageTypeOK'
  BY DEF StorageInv, StorageTypeOK
<1>2. Declared' /\ (Has(attrs, "CompactLayout") <=> IsCompact')
  BY <1>1 DEF Declared, IsCompact
<1>3. CompactHoldsAll' /\ RawHoldsTheRest'
  BY <1>1, <1>2, CompactByElementsNext DEF RawHoldsTheRest
<1>4. TilingWasJudged'
  BY <1>1 DEF StorageInv, TilingWasJudged
<1> QED
  BY <1>1, <1>2, <1>3, <1>4 DEF StorageInv, NothingUndeclared

\* set_fill_value replaces its own sentinel only.
LEMMA SetFillValueKeeps ==
    ASSUME StorageInv, NEW matches \in BOOLEAN, SetFillValue(matches)
    PROVE  StorageInv'
<1> DEFINE e == Attr(FillValueName, "FillValue", <<>>)
           others == Without(ds.attrs, "FillValue")
           attrs == Append(others, e)
<1>1. CASE Refuse
  BY <1>1, NothingChangesKeeps DEF Refuse
<1>2. CASE Declared /\ ds.elem = "numeric" /\ ds' = [ds EXCEPT !.attrs = attrs] /\ outcome' = "ok"
  <2>1. ds.attrs \in Seq(Attrs) /\ ds.raw \in Seq({"data"})
    BY DEF StorageInv, StorageTypeOK
  <2>2. /\ others \in Seq(Attrs)
        /\ Elements(others) = {a \in Elements(ds.attrs) : a.kind # "FillValue"}
    BY <2>1, WithoutKeepsOthers
  <2>3. e \in Attrs /\ e.kind = "FillValue"
    BY DEF Attr, Attrs
  <2>4. attrs \in Seq(Attrs) /\ Elements(attrs) = Elements(others) \cup {e}
    <3> HIDE DEF others, e
    <3> QED
      BY <2>2, <2>3, AppendAdds
  <2> HIDE DEF attrs, others, e
  <2>5. \A a : a.kind = "CompactLayout" => (a \in Elements(attrs) <=> a \in Elements(ds.attrs))
    BY <2>2, <2>3, <2>4
  <2>6. Has(attrs, "CompactLayout") <=> Has(ds.attrs, "CompactLayout")
    BY <2>1, <2>4, <2>5, HasElement
  <2>7. CompactElementsHold(attrs, ds.elem, ds.shape)
    BY <2>5, CompactByElements DEF StorageInv, CompactElementsHold
  <2>8. ds' = [ds EXCEPT !.raw = ds.raw, !.attrs = attrs]
    BY <1>2 DEF StorageInv, StorageTypeOK
  <2>9. ~IsVlen(ds.elem) => ds.raw = IF Has(attrs, "CompactLayout") THEN <<>> ELSE Data(ds.shape)
    BY <1>2, <2>6 DEF StorageInv, RawHoldsTheRest, IsCompact
  <2> QED
    BY <1>2, <2>1, <2>4, <2>7, <2>8, <2>9, AttachingKeeps
<1> QED
  BY <1>1, <1>2 DEF SetFillValue, Succeed

\* set_compact moves all of the data to its sentinel.
LEMMA SetCompactKeeps ==
    ASSUME StorageInv, SetCompact
    PROVE  StorageInv'
<1> DEFINE e == Attr(CompactName, "CompactLayout", ds.raw)
           attrs == Append(ds.attrs, e)
<1>1. CASE outcome' \in {"ok", "Format"} /\ ds' = ds
  BY <1>1, NothingChangesKeeps
<1>2. CASE /\ Declared /\ ~IsCompact /\ ~IsVlen(ds.elem) /\ outcome' = "ok"
           /\ ds' = [ds EXCEPT !.raw = <<>>, !.attrs = attrs]
  <2>1. ds.attrs \in Seq(Attrs) /\ ds.raw \in Seq({"data"}) /\ <<>> \in Seq({"data"})
    BY DEF StorageInv, StorageTypeOK
  <2>2. ds.raw = Data(ds.shape)
    BY <1>2 DEF StorageInv, RawHoldsTheRest
  <2>3. e \in Attrs /\ e.kind = "CompactLayout" /\ e.name = CompactName /\ e.data = ds.raw
    BY <2>1 DEF Attr, Attrs
  <2>4. attrs \in Seq(Attrs) /\ Elements(attrs) = Elements(ds.attrs) \cup {e}
    <3> HIDE DEF e
    <3> QED
      BY <2>1, <2>3, AppendAdds
  <2> HIDE DEF attrs, e
  <2>5. Has(attrs, "CompactLayout")
    BY <2>3, <2>4, HasElement
  <2>6. CompactElementsHold(attrs, ds.elem, ds.shape)
    BY <1>2, <2>2, <2>3, <2>4, CompactByElements DEF StorageInv, CompactElementsHold
  <2> QED
    BY <1>2, <2>1, <2>4, <2>5, <2>6, AttachingKeeps
<1> QED
  BY <1>1, <1>2 DEF SetCompact, Succeed, Refuse

\* attach_attr overwrites an attribute of its name, never a sentinel.
LEMMA AttachAttrKeeps ==
    ASSUME StorageInv, NEW name \in AttrName, AttachAttr(name)
    PROVE  StorageInv'
<1>1. ds.attrs \in Seq(Attrs) /\ ds.raw \in Seq({"data"})
  BY DEF StorageInv, StorageTypeOK
<1>2. name # CompactName
  BY StorageAssumption
<1>3. ASSUME NEW attrs \in Seq(Attrs), ds' = [ds EXCEPT !.attrs = attrs],
             \A a : a.kind = "CompactLayout" => (a \in Elements(attrs) <=> a \in Elements(ds.attrs))
      PROVE  StorageInv'
  <2>1. Has(attrs, "CompactLayout") <=> Has(ds.attrs, "CompactLayout")
    BY <1>1, <1>3, HasElement
  <2>2. CompactElementsHold(attrs, ds.elem, ds.shape)
    BY <1>3, CompactByElements DEF StorageInv, CompactElementsHold
  <2>3. ds' = [ds EXCEPT !.raw = ds.raw, !.attrs = attrs]
    BY <1>3 DEF StorageInv, StorageTypeOK
  <2>4. Declared /\ outcome' \in {"ok", "Format"}
    BY DEF AttachAttr, Succeed
  <2>5. ~IsVlen(ds.elem) => ds.raw = IF Has(attrs, "CompactLayout") THEN <<>> ELSE Data(ds.shape)
    BY <2>1, <2>4 DEF StorageInv, RawHoldsTheRest, IsCompact
  <2> QED
    BY <1>1, <2>2, <2>3, <2>4, <2>5, AttachingKeeps
<1>4. CASE \E i \in DOMAIN ds.attrs : ds.attrs[i].name = name
  <2>0. \E i \in 1..Len(ds.attrs) : ds.attrs[i].name = name
    BY <1>1, <1>4
  <2>r. /\ SelectInSeq(ds.attrs, LAMBDA a : a.name = name) \in 1..Len(ds.attrs)
        /\ ds.attrs[SelectInSeq(ds.attrs, LAMBDA a : a.name = name)].name = name
    BY <1>1, <2>0, FirstHasName
  <2> DEFINE k == SelectInSeq(ds.attrs, LAMBDA a : a.name = name)
             attrs == [i \in DOMAIN ds.attrs |->
                          IF i = k THEN [ds.attrs[i] EXCEPT !.kind = "Value"] ELSE ds.attrs[i]]
  <2>1. k \in 1..Len(ds.attrs) /\ ds.attrs[k].name = name
    BY <2>r
  <2>2. ds' = [ds EXCEPT !.attrs = attrs]
    BY <1>4 DEF AttachAttr
  <2> HIDE DEF k
  <2>3. ASSUME NEW i \in 1..Len(ds.attrs)
        PROVE  /\ attrs[i] \in Attrs
               /\ i # k => attrs[i] = ds.attrs[i]
               /\ i = k => attrs[i].kind = "Value"
    <3>1. ds.attrs[i] \in Attrs /\ i \in DOMAIN ds.attrs
      BY <1>1
    <3>2. /\ [ds.attrs[i] EXCEPT !.kind = "Value"] \in Attrs
          /\ [ds.attrs[i] EXCEPT !.kind = "Value"].kind = "Value"
      BY <3>1 DEF Attrs
    <3> QED
      BY <3>1, <3>2
  <2>4. DOMAIN ds.attrs = 1..Len(ds.attrs) /\ Len(ds.attrs) \in Nat
    BY <1>1
  <2>5. attrs \in Seq(Attrs) /\ Len(attrs) = Len(ds.attrs)
    <3>1. attrs \in [1..Len(ds.attrs) -> Attrs]
      BY <2>3, <2>4
    <3> HIDE DEF attrs
    <3> QED
      BY <2>4, <3>1
  <2> HIDE DEF attrs
  <2>6. ds.attrs[k].kind # "CompactLayout"
    BY <1>2, <2>1 DEF StorageInv, CompactHoldsAll
  <2>7. ASSUME NEW a, a.kind = "CompactLayout"
        PROVE  a \in Elements(attrs) <=> a \in Elements(ds.attrs)
    BY <2>3, <2>5, <2>6, <2>7 DEF Elements
  <2> QED
    BY <1>3, <2>2, <2>5, <2>7
<1>5. CASE ~\E i \in DOMAIN ds.attrs : ds.attrs[i].name = name
  <2> DEFINE e == Attr(name, "Value", <<>>)
             attrs == Append(ds.attrs, e)
  <2>1. e \in Attrs /\ e.kind = "Value"
    BY DEF Attr, Attrs
  <2>2. ds' = [ds EXCEPT !.attrs = attrs]
    BY <1>5 DEF AttachAttr
  <2>3. attrs \in Seq(Attrs) /\ Elements(attrs) = Elements(ds.attrs) \cup {e}
    <3> HIDE DEF e
    <3> QED
      BY <1>1, <2>1, AppendAdds
  <2> HIDE DEF attrs, e
  <2> QED
    BY <1>3, <2>1, <2>2, <2>3
<1> QED
  BY <1>4, <1>5

-----------------------------------------------------------------------------
(* The invariant *)

LEMMA InitStorageInv == StorageInit => StorageInv
<1> SUFFICES ASSUME StorageInit PROVE StorageInv
  OBVIOUS
<1>1. ds = [elem |-> "none", shape |-> <<>>, raw |-> <<>>, attrs |-> <<>>,
            storage |-> Contiguous, filter |-> {}] /\ outcome = "ok"
  BY DEF StorageInit, Undeclared
<1>2. Contiguous \in Storage /\ ~Contiguous.chunked
  BY DEF Contiguous, Storage
<1>3. StorageTypeOK
  <2>1. <<>> \in Seq(Nat) /\ <<>> \in Seq({"data"}) /\ <<>> \in Seq(Attrs)
    OBVIOUS
  <2> QED
    BY <1>1, <1>2, <2>1 DEF StorageTypeOK
<1>4. ~Declared /\ NothingUndeclared /\ CompactHoldsAll
  BY <1>1 DEF Declared, NothingUndeclared, CompactHoldsAll, StorageInit
<1>5. RawHoldsTheRest /\ TilingWasJudged
  BY <1>1, <1>2, <1>4 DEF RawHoldsTheRest, TilingWasJudged
<1> QED
  BY <1>3, <1>4, <1>5 DEF StorageInv

\* No call breaks it.
LEMMA NextStorageInv == StorageInv /\ [StorageNext]_storageVars => StorageInv'
<1> SUFFICES ASSUME StorageInv, [StorageNext]_storageVars PROVE StorageInv'
  OBVIOUS
<1>1. CASE \E elem \in ElemSort, shape \in Shape : CreateContiguous(elem, shape)
  BY <1>1, CreatingKeeps
<1>2. CASE \E shape \in Shape, request \in ChunkRequest : CreateUnlimited(shape, request)
  BY <1>2, CreatingKeeps
<1>3. CASE \E id \in FilterId : SetFilter(id)
  BY <1>3, SetFilterKeeps
<1>4. CASE SetDeflateOverLevel
  BY <1>4, NothingChangesKeeps DEF SetDeflateOverLevel, Refuse
<1>5. CASE \E request \in ChunkRequest : SetChunking(request)
  BY <1>5, SetChunkingKeeps
<1>6. CASE \E matches \in BOOLEAN : SetFillValue(matches)
  BY <1>6, SetFillValueKeeps
<1>7. CASE SetCompact
  BY <1>7, SetCompactKeeps
<1>8. CASE \E name \in AttrName : AttachAttr(name)
  BY <1>8, AttachAttrKeeps
<1>9. CASE UNCHANGED storageVars
  <2>1. ds' = ds /\ outcome' \in {"ok", "Format"}
    BY <1>9 DEF storageVars, StorageInv, StorageTypeOK
  <2> QED
    BY <2>1, NothingChangesKeeps
<1> QED
  BY <1>1, <1>2, <1>3, <1>4, <1>5, <1>6, <1>7, <1>8, <1>9 DEF StorageNext

\* The descriptor, its sentinels and its data agree after every sequence of calls.
THEOREM StorageInvariant == StorageSpec => []StorageInv
<1> QED
  BY InitStorageInv, NextStorageInv, PTL DEF StorageSpec

\* What a compact sentinel gives back is all of the data.
LEMMA CompactGivesAll ==
    ASSUME StorageInv, IsCompact
    PROVE  CompactData = Data(ds.shape)
<1>1. ds.attrs \in Seq(Attrs) /\ Has(ds.attrs, "CompactLayout")
  BY DEF StorageInv, StorageTypeOK, IsCompact
<1>2. PICK i \in 1..Len(ds.attrs) :
        FirstOfKind(ds.attrs, "CompactLayout") = ds.attrs[i] /\ ds.attrs[i].kind = "CompactLayout"
  BY <1>1, FirstIsOfKind
<1> QED
  BY <1>2 DEF CompactData, StorageInv, CompactHoldsAll

\* The caller's elements are kept in exactly one place, whatever the calls and
\* whatever attributes they attach (set_compact, attach_attr).
THEOREM DataIsKeptOnce == StorageSpec => []DataKeptOnce
<1>1. StorageInv => DataKeptOnce
  <2> SUFFICES ASSUME StorageInv, Declared, ~IsVlen(ds.elem)
               PROVE  ds.raw \o (IF IsCompact THEN CompactData ELSE <<>>) = Data(ds.shape)
    BY DEF DataKeptOnce
  <2>1. Data(ds.shape) \in Seq({"data"})
    BY DataFills DEF StorageInv, StorageTypeOK
  <2>2. ds.raw = IF IsCompact THEN <<>> ELSE Data(ds.shape)
    BY DEF StorageInv, RawHoldsTheRest
  <2>3. IsCompact => CompactData = Data(ds.shape)
    BY CompactGivesAll
  <2>4. <<>> \o Data(ds.shape) = Data(ds.shape) /\ Data(ds.shape) \o <<>> = Data(ds.shape)
    BY <2>1
  <2> QED
    BY <2>2, <2>3, <2>4
<1> QED
  BY <1>1, StorageInvariant, PTL

-----------------------------------------------------------------------------
(* Tilings *)

\* A completed chunk shape is a shape.
LEMMA ChunkShapeIsShape ==
    ASSUME NEW shape \in Seq(Nat), NEW request \in Seq(Nat)
    PROVE  CompletedShape(shape, request) \in Seq(Nat)
<1>1. ASSUME NEW d \in DOMAIN shape PROVE CompletedShape(shape, request)[d] \in Nat
  BY DEF CompletedShape
<1>2. DOMAIN shape = 1..Len(shape) /\ Len(shape) \in Nat
  OBVIOUS
<1>3. CompletedShape(shape, request) \in [1..Len(shape) -> Nat]
  BY <1>1, <1>2 DEF CompletedShape
<1> QED
  BY <1>2, <1>3

\* Cut or taken verbatim, a chunk of a build has room for its whole shape.
LEMMA ChunksAreFull == StorageInv => ChunksAreFullSize
<1> SUFFICES ASSUME StorageInv, LayoutMessage = "chunked", NEW n \in DOMAIN DataArea
             PROVE  Len(DataArea[n]) = Volume(ChunkShape)
  BY DEF ChunksAreFullSize
<1>1. ~IsCompact /\ ds.storage.chunked
  BY DEF LayoutMessage
<1>2. ~IsVlen(ds.elem) /\ Declared
  <2>1. ~IsVlen(ds.elem)
    BY <1>1 DEF StorageInv, TilingWasJudged
  <2>2. Declared
    BY <1>1 DEF StorageInv, NothingUndeclared, Undeclared, Contiguous
  <2> QED
    BY <2>1, <2>2
<1>3. ds.raw = Data(ds.shape)
  BY <1>1, <1>2 DEF StorageInv, RawHoldsTheRest
<1>4. ds.shape \in Seq(Nat) /\ ds.storage.chunk_shape \in Seq(Nat)
  BY DEF StorageInv, StorageTypeOK, Storage
<1>5. ChunkShape \in Seq(Nat)
  BY <1>4, ChunkShapeIsShape DEF ChunkShape
<1> DEFINE origins == ChunkOrigins(ds.shape, ChunkShape)
           verbatim == Len(origins) = 1 /\ ChunkShape = ds.shape
           tile(k) == CutTile(ds.raw, ds.shape, ChunkShape, origins[k], "zero")
<1>6. DataArea = [k \in DOMAIN origins |-> IF verbatim THEN ds.raw ELSE tile(k)]
  BY <1>1, <1>2 DEF DataArea
<1>7. DataArea[n] = IF verbatim THEN ds.raw ELSE tile(n)
  <2> HIDE DEF origins, verbatim, tile
  <2> QED
    BY <1>6
<1>8. CASE verbatim
  <2>1. Len(Data(ds.shape)) = Volume(ds.shape)
    BY <1>4, DataFills
  <2> QED
    BY <1>3, <1>7, <1>8, <2>1
<1>9. CASE ~verbatim
  <2>1. DataArea[n] = tile(n)
    BY <1>7, <1>9
  <2>2. Volume(ChunkShape) \in Nat
    BY <1>5, DataFills
  <2> HIDE DEF origins
  <2>3. DOMAIN tile(n) = 1..Volume(ChunkShape)
    BY DEF CutTile
  <2>4. Len(tile(n)) = Volume(ChunkShape)
    BY <2>2 DEF CutTile
  <2> QED
    BY <2>1, <2>4
<1> QED
  BY <1>8, <1>9

\* What is chunked has the geometry of naturals that CompletedShape gives it.
LEMMA GeometryIs ==
    ASSUME StorageInv
    PROVE  /\ ds.shape \in Seq(Nat) /\ ChunkShape \in Seq(Nat)
           /\ Len(ChunkShape) = Len(ds.shape) /\ Len(ds.shape) \in Nat
           /\ DOMAIN ds.shape = 1..Len(ds.shape)
           /\ \A d \in 1..Len(ds.shape) : ds.shape[d] \in Nat /\ ChunkShape[d] \in Nat
           /\ Volume(ds.shape) \in Nat /\ Volume(ChunkShape) \in Nat
<1>1. ds.shape \in Seq(Nat) /\ ds.storage.chunk_shape \in Seq(Nat)
  BY DEF StorageInv, StorageTypeOK, Storage
<1>2. ChunkShape \in Seq(Nat)
  BY <1>1, ChunkShapeIsShape DEF ChunkShape
<1>3. DOMAIN ChunkShape = DOMAIN ds.shape
  BY DEF ChunkShape, CompletedShape
<1>4. DOMAIN ds.shape = 1..Len(ds.shape) /\ DOMAIN ChunkShape = 1..Len(ChunkShape)
      /\ Len(ds.shape) \in Nat /\ Len(ChunkShape) \in Nat
  BY <1>1, <1>2
<1>5. Len(ChunkShape) = Len(ds.shape)
  BY ONLY <1>3, <1>4
<1>6. Volume(ds.shape) \in Nat /\ Volume(ChunkShape) \in Nat
  BY <1>1, <1>2, DataFills
<1> QED
  BY <1>1, <1>2, <1>4, <1>5, <1>6

\* The elements of a chunk, cut or verbatim.
LEMMA ChunksHold ==
    ASSUME StorageInv, ds.storage.chunked, NEW n \in DOMAIN DataArea
    PROVE  Len(DataArea[n]) \in {0, Volume(ds.shape), Volume(ChunkShape)}
<1>1. ~IsVlen(ds.elem) /\ Declared
  <2>1. ~IsVlen(ds.elem)
    BY DEF StorageInv, TilingWasJudged
  <2>2. Declared
    BY DEF StorageInv, NothingUndeclared, Undeclared, Contiguous
  <2> QED
    BY <2>1, <2>2
<1>2. ds.raw = <<>> \/ ds.raw = Data(ds.shape)
  BY <1>1 DEF StorageInv, RawHoldsTheRest
<1> DEFINE origins == ChunkOrigins(ds.shape, ChunkShape)
           verbatim == Len(origins) = 1 /\ ChunkShape = ds.shape
           tile(k) == CutTile(ds.raw, ds.shape, ChunkShape, origins[k], "zero")
<1>3. DataArea = [k \in DOMAIN origins |-> IF verbatim THEN ds.raw ELSE tile(k)]
  BY <1>1 DEF DataArea
<1>4. DataArea[n] = ds.raw \/ DataArea[n] = tile(n)
  <2> HIDE DEF origins, verbatim, tile
  <2> QED
    BY <1>3
<1>5. Len(ds.raw) \in {0, Volume(ds.shape)}
  BY <1>2, GeometryIs, DataFills
<1>6. Len(tile(n)) = Volume(ChunkShape)
  <2>1. Volume(ChunkShape) \in Nat
    BY GeometryIs
  <2> HIDE DEF origins
  <2>2. DOMAIN tile(n) = 1..Volume(ChunkShape)
    BY DEF CutTile
  <2> QED
    BY <2>1 DEF CutTile
<1> HIDE DEF tile
<1> QED
  BY <1>4, <1>5, <1>6

\* There are no more chunks along a dimension than it has elements, and with their
\* extent they cover it.
LEMMA CeilingIs ==
    ASSUME NEW n \in Nat, NEW k \in Nat \ {0}
    PROVE  /\ CeilDiv(n, k) \in Nat /\ n <= CeilDiv(n, k) * k
           /\ n # 0 => CeilDiv(n, k) # 0 /\ CeilDiv(n, k) <= n
<1> DEFINE q == (n + k - 1) \div k
           r == (n + k - 1) % k
<1>1. n + k - 1 \in Nat
  OBVIOUS
<1>2. q \in Nat /\ r \in Nat /\ r < k /\ n + k - 1 = k * q + r
  BY <1>1, Dividing
<1>3. CeilDiv(n, k) = q
  BY DEF CeilDiv
<1> HIDE DEF q, r
<1>4. q * k = k * q /\ k * q \in Nat
  BY <1>2
<1>5. n <= q * k
  BY ONLY <1>2, <1>4, n \in Nat, k \in Nat \ {0}
<1>6. ASSUME n # 0 PROVE q # 0 /\ q <= n
  <2>1. q # 0
    BY <1>2, <1>6
  <2>2. CASE q > n
    <3>1. n + 1 <= q /\ k * (n + 1) <= k * q
      BY <1>2, <2>2, ProductsGrow
    <3>2. k * (n + 1) = k * n + k /\ k * n \in Nat
      OBVIOUS
    <3>3. 1 * n <= k * n
      BY ProductsGrow
    <3> QED
      BY <1>2, <1>4, <3>1, <3>2, <3>3
  <2> QED
    BY <1>2, <2>1, <2>2
<1> QED
  BY <1>2, <1>3, <1>5, <1>6

\* The chunks along each dimension.
LEMMA CountsAre ==
    ASSUME StorageInv, \A d \in DOMAIN ds.shape : ChunkShape[d] # 0
    PROVE  LET counts == ChunkCounts(ds.shape, ChunkShape)
           IN  /\ Len(counts) = Len(ds.shape)
               /\ \A d \in 1..Len(ds.shape) : counts[d] = CeilDiv(ds.shape[d], ChunkShape[d])
               /\ \A d \in 1..Len(ds.shape) : counts[d] \in Nat
               /\ Volume(counts) \in Nat
<1> DEFINE counts == ChunkCounts(ds.shape, ChunkShape)
<1>1. counts = [d \in 1..Len(ds.shape) |-> CeilDiv(ds.shape[d], ChunkShape[d])]
  BY GeometryIs DEF ChunkCounts
<1> HIDE DEF counts
<1>2. ASSUME NEW d \in 1..Len(ds.shape) PROVE CeilDiv(ds.shape[d], ChunkShape[d]) \in Nat
  BY GeometryIs, CeilingIs
<1>3. /\ Len(counts) = Len(ds.shape)
      /\ \A d \in 1..Len(ds.shape) : counts[d] = CeilDiv(ds.shape[d], ChunkShape[d])
  BY <1>1, GeometryIs
<1>4. Volume(counts) \in Nat
  BY <1>2, <1>3, GeometryIs, VolumeIsNatural
<1> QED
  BY <1>2, <1>3, <1>4 DEF counts

\* A dataset that is small enough is built under any tiling that was judged.
LEMMA SmallOnesBuild == StorageInv => AcceptedTilingsBuild
<1> SUFFICES ASSUME StorageInv, Declared, ~ds.storage.unlimited_dim0, SmallEnough
             PROVE  BuildAccepts
  BY DEF AcceptedTilingsBuild
<1> DEFINE bytes == ElemBytes[ds.elem]
           n == Len(ds.shape)
           counts == ChunkCounts(ds.shape, ChunkShape)
<1>1. bytes \in Nat \ {0} /\ MAX_RANK \in Nat /\ MAX_FIELD \in Nat /\ MAX_TILES \in Nat
  <2>1. ds.elem \in ElemSort
    BY DEF Declared, StorageInv, StorageTypeOK
  <2> QED
    BY <2>1, StorageAssumption
<1>2. n < MAX_RANK /\ n \in Nat /\ Volume(ds.shape) \in Nat \ {0} /\ Volume(ds.shape) <= MAX_TILES
  BY <1>1, GeometryIs DEF SmallEnough
<1>3. RankFits
  BY <1>1, <1>2 DEF RankFits
<1> SUFFICES ASSUME ds.storage.chunked
             PROVE  /\ ChunkShapeOk(ds.shape, ds.storage.chunk_shape, ds.storage.unlimited_dim0)
                    /\ ExtentsFit /\ CountFits /\ ImagesFit
  BY <1>3 DEF BuildAccepts
<1>4. ChunkShapeOk(ds.shape, ds.storage.chunk_shape, ds.storage.unlimited_dim0)
      /\ ds.storage.unlimited_dim0 = FALSE
  BY DEF StorageInv, TilingWasJudged, StorageTypeOK, Storage
<1>5. ASSUME NEW d \in 1..n
      PROVE  ds.shape[d] \in Nat \ {0} /\ ds.shape[d] <= Volume(ds.shape)
  <2>1. \A e \in 1..n : ds.shape[e] # 0
    BY <1>2, GeometryIs, EmptyVolume
  <2> QED
    BY <1>2, <2>1, GeometryIs, ExtentsWithin
<1>6. ASSUME NEW d \in 1..n
      PROVE  ChunkShape[d] \in Nat \ {0} /\ ChunkShape[d] <= ds.shape[d]
  BY <1>4, <1>5, GeometryIs DEF ChunkShapeOk, ChunkShape
<1>7. 1 * bytes <= Volume(ds.shape) * bytes /\ Volume(ds.shape) * 1 <= Volume(ds.shape) * bytes
      /\ Volume(ds.shape) * bytes \in Nat
  BY <1>1, <1>2, ProductsGrow, ProductsAreNatural
<1>8. Volume(ds.shape) * bytes + 4 <= MAX_FIELD
  BY DEF SmallEnough
<1> HIDE DEF bytes
<1>9. bytes <= MAX_FIELD /\ Volume(ds.shape) <= MAX_FIELD
  BY <1>1, <1>2, <1>7, <1>8
<1>10. ExtentsFit
  <2>1. ASSUME NEW d \in 1..n PROVE ChunkShape[d] <= MAX_FIELD
    BY <1>1, <1>2, <1>5, <1>6, <1>9
  <2> QED
    BY <1>9, <2>1, GeometryIs DEF ExtentsFit, bytes
<1>11. CountFits
  <2>1. \A d \in DOMAIN ds.shape : ChunkShape[d] # 0
    BY <1>6, GeometryIs
  <2>2. /\ Len(counts) = n /\ Volume(counts) \in Nat
        /\ \A d \in 1..n : counts[d] = CeilDiv(ds.shape[d], ChunkShape[d]) /\ counts[d] \in Nat
    BY <2>1, CountsAre
  <2>3. ASSUME NEW d \in 1..n PROVE counts[d] <= ds.shape[d]
    <3>1. CeilDiv(ds.shape[d], ChunkShape[d]) <= ds.shape[d]
      BY <1>5, <1>6, CeilingIs
    <3> QED
      BY <2>2, <3>1
  <2> HIDE DEF counts
  <2>4. Volume(counts) <= Volume(ds.shape)
    BY <1>2, <1>5, <2>2, <2>3, VolumesCompare
  <2> QED
    BY <1>1, <1>2, <2>2, <2>4 DEF CountFits, ChunkCount, counts
<1>12. ImagesFit
  <2>1. CASE "deflate" \in ds.filter
    BY <2>1 DEF SmallEnough
  <2>2. CASE "deflate" \notin ds.filter
    <3>1. Volume(ChunkShape) <= Volume(ds.shape) /\ Volume(ChunkShape) \in Nat
      BY <1>2, <1>5, <1>6, GeometryIs, VolumesCompare
    <3> SUFFICES ASSUME NEW k \in DOMAIN DataArea
                 PROVE  ImageBytes(DataArea[k]) <= MAX_FIELD
      BY DEF ImagesFit
    <3> DEFINE len == Len(DataArea[k])
    <3>2. len \in Nat /\ len <= Volume(ds.shape)
      BY <1>2, <3>1, ChunksHold
    <3>3. len * bytes <= Volume(ds.shape) * bytes /\ len * bytes \in Nat
      BY <1>1, <1>2, <3>2, ProductsGrow, ProductsAreNatural
    <3>4. ImageBytes(DataArea[k]) \in {len * bytes, len * bytes + 4}
      BY <2>2 DEF ImageBytes, bytes
    <3> HIDE DEF len
    <3> QED
      BY <1>1, <1>7, <1>8, <3>3, <3>4
  <2> QED
    BY <2>1, <2>2
<1> QED
  BY <1>4, <1>10, <1>11, <1>12

\* One that has no room under its tiling is not built.
LEMMA LargeOnesFail == StorageInv => OversizedIsRefused
<1> SUFFICES ASSUME StorageInv, LayoutMessage = "chunked", Oversized, BuildAccepts
             PROVE  FALSE
  BY DEF OversizedIsRefused
<1> DEFINE bytes == ElemBytes[ds.elem]
           n == Len(ds.shape)
           counts == ChunkCounts(ds.shape, ChunkShape)
<1>1. ds.storage.chunked /\ Declared
  BY DEF LayoutMessage, StorageInv, NothingUndeclared, Undeclared, Contiguous
<1>2. bytes \in Nat \ {0} /\ MAX_FIELD \in Nat /\ MAX_TILES \in Nat
  <2>1. ds.elem \in ElemSort
    BY <1>1 DEF Declared, StorageInv, StorageTypeOK
  <2> QED
    BY <2>1, StorageAssumption
<1>3. \A d \in 1..n : ChunkShape[d] \in Nat \ {0}
  BY <1>1, GeometryIs DEF BuildAccepts, ChunkShapeOk, ChunkShape
<1>4. CountFits /\ ImagesFit
  BY <1>1 DEF BuildAccepts
<1>5. /\ Len(counts) = n /\ Volume(counts) \in Nat
      /\ \A d \in 1..n : counts[d] = CeilDiv(ds.shape[d], ChunkShape[d]) /\ counts[d] \in Nat
  BY <1>3, GeometryIs, CountsAre
<1>6. Volume(counts) <= MAX_TILES
  BY <1>4 DEF CountFits, ChunkCount
<1> HIDE DEF counts
<1>7. ASSUME NEW d \in 1..n
      PROVE  /\ ds.shape[d] \in Nat /\ ds.shape[d] <= counts[d] * ChunkShape[d]
             /\ ds.shape[d] # 0 => counts[d] # 0
  <2>1. /\ ds.shape[d] <= CeilDiv(ds.shape[d], ChunkShape[d]) * ChunkShape[d]
        /\ ds.shape[d] # 0 => CeilDiv(ds.shape[d], ChunkShape[d]) # 0
    BY <1>3, GeometryIs, CeilingIs
  <2> QED
    BY <1>5, <2>1, GeometryIs
<1>8. CASE Volume(ds.shape) > MAX_TILES * Volume(ChunkShape)
  <2>1. Volume(ds.shape) <= Volume(counts) * Volume(ChunkShape)
    BY <1>3, <1>5, <1>7, GeometryIs, VolumeOfProducts
  <2>2. Volume(counts) * Volume(ChunkShape) <= MAX_TILES * Volume(ChunkShape)
    BY <1>2, <1>5, <1>6, GeometryIs, ProductsGrow
  <2>3. /\ Volume(counts) * Volume(ChunkShape) \in Nat
        /\ MAX_TILES * Volume(ChunkShape) \in Nat /\ Volume(ds.shape) \in Nat
    BY <1>2, <1>5, GeometryIs, ProductsAreNatural
  <2> QED
    BY ONLY <1>8, <2>1, <2>2, <2>3
<1>9. CASE /\ Volume(ds.shape) > 0 /\ "deflate" \notin ds.filter
           /\ Volume(ChunkShape) * bytes > MAX_FIELD
  <2>1. \A d \in 1..n : ds.shape[d] # 0
    <3>1. Volume(ds.shape) # 0
      BY <1>9
    <3> QED
      BY <3>1, GeometryIs, EmptyVolume
  <2>2. \A d \in 1..n : counts[d] \in Nat \ {0}
    BY <1>5, <1>7, <2>1
  <2>3. Volume(counts) # 0
    BY <1>5, <2>2, GeometryIs, ExtentsWithin
  <2>4. 1 \in 1..Volume(counts)
    BY <1>5, <2>3
  <2>5. ~IsVlen(ds.elem)
    BY <1>1 DEF StorageInv, TilingWasJudged
  <2>6. DOMAIN DataArea = DOMAIN ChunkOrigins(ds.shape, ChunkShape)
    BY <1>1, <2>5 DEF DataArea
  <2>7. DOMAIN ChunkOrigins(ds.shape, ChunkShape) = 1..Volume(counts)
    BY DEF ChunkOrigins, ChunkCount, counts
  <2>8. 1 \in DOMAIN DataArea
    BY <2>4, <2>6, <2>7
  <2> DEFINE len == Len(DataArea[1])
  <2>9. len = Volume(ChunkShape)
    BY <2>8, ChunksAreFull DEF ChunksAreFullSize
  <2>10. ImageBytes(DataArea[1]) \in {len * bytes, len * bytes + 4}
    BY <1>9 DEF ImageBytes
  <2>11. ImageBytes(DataArea[1]) <= MAX_FIELD
    BY <1>4, <2>8 DEF ImagesFit
  <2>12. len * bytes > MAX_FIELD
    BY <1>9, <2>9
  <2>13. len * bytes \in Nat
    BY <1>2, <2>9, GeometryIs, ProductsAreNatural
  <2> HIDE DEF len, bytes
  <2> QED
    BY <1>2, <2>10, <2>11, <2>12, <2>13
<1> QED
  BY <1>8, <1>9 DEF Oversized

\* Whatever the calls, a tiling that one of them judged fails a build only if the dataset
\* is large, one that leaves too much to a chunk or to their number does fail it, and
\* the chunks of a build that succeeds are all of the size that the layout message gives
\* (set_chunking, chunk_count, layout_chunk_dims, payload::build).
THEOREM TilingsAreJudged == StorageSpec => []TilingsHold
<1>1. StorageInv => TilingsHold
  BY SmallOnesBuild, LargeOnesFail, ChunksAreFull DEF TilingsHold
<1> QED
  BY <1>1, StorageInvariant, PTL

-----------------------------------------------------------------------------
(* Refusals *)

\* A call that is refused leaves the dataset as it was.
LEMMA RefusingChangesNothing ==
    ASSUME StorageInv, StorageNext, outcome' = "Format"
    PROVE  ds' = ds
<1>0. outcome' # "ok"
  OBVIOUS
<1>1. CASE \E request \in ChunkRequest : SetChunking(request)
  BY <1>0, <1>1, SetChunkingTakesBack
<1>2. CASE ~\E request \in ChunkRequest : SetChunking(request)
  BY <1>0, <1>2 DEF StorageNext, CreateContiguous, CreateUnlimited, SetFilter, SetDeflateOverLevel,
                    SetFillValue, SetCompact, AttachAttr, Succeed, Refuse
<1> QED
  BY <1>1, <1>2

\* So does every refusal of every behaviour, set_chunking's after it had committed the
\* tiling it takes back included.
THEOREM RefusalsLeaveNoTrace == StorageSpec => RefusalLeavesNoTrace
<1>1. StorageInv /\ [StorageNext]_storageVars => [outcome' = "Format" => ds' = ds]_storageVars
  BY RefusingChangesNothing
<1> QED
  BY <1>1, StorageInvariant, PTL DEF StorageSpec, RefusalLeavesNoTrace

-----------------------------------------------------------------------------
(* The end of an index *)

\* The right key after each chunk of the grid.
RightKeys(f, counts, shape, total) ==
    f = [n \in 0..total |->
            IF n = 0 THEN [d \in DOMAIN shape |-> 1]
            ELSE IF KeyLess(f[n - 1], Unflatten(n - 1, counts))
                 THEN [d \in DOMAIN shape |-> Unflatten(n - 1, counts)[d] + 1]
                 ELSE f[n - 1]]

LEMMA RightKeysExist ==
    ASSUME NEW counts, NEW n, IsGrid(counts, n), NEW shape, DOMAIN shape = 1..n, NEW total \in Nat
    PROVE  \E f : RightKeys(f, counts, shape, total)
<1> DEFINE X == [1..n -> Nat]
           first == [d \in DOMAIN shape |-> 1]
           at(k) == Unflatten(k - 1, counts)
           step == [k \in 1..total |-> [x \in X |->
                       IF KeyLess(x, at(k)) THEN [d \in DOMAIN shape |-> at(k)[d] + 1] ELSE x]]
<1>1. first \in X
  OBVIOUS
<1>2. \A k \in 1..total : at(k) \in X
  <2> SUFFICES ASSUME NEW k \in 1..total PROVE at(k) \in X
    OBVIOUS
  <2>1. k - 1 \in Nat
    OBVIOUS
  <2> QED
    BY <2>1, UnflattenWithin
<1> HIDE DEF at
<1>3. step \in [1..total -> [X -> X]]
  <2> SUFFICES ASSUME NEW k \in 1..total, NEW x \in X
               PROVE  (IF KeyLess(x, at(k)) THEN [d \in DOMAIN shape |-> at(k)[d] + 1] ELSE x) \in X
    OBVIOUS
  <2>0. at(k) \in [1..n -> Nat]
    BY <1>2
  <2>1. \A d \in 1..n : at(k)[d] + 1 \in Nat
    BY <2>0
  <2>2. [d \in DOMAIN shape |-> at(k)[d] + 1] \in X
    BY <2>1
  <2> QED
    BY <2>2
<1>4. PICK f \in [0..total -> X] : Iterates(f, first, step, total)
  <2> HIDE DEF step, first, X
  <2> QED
    BY <1>1, <1>3, IteratesExist
<1> DEFINE Next(k) == IF k = 0 THEN [d \in DOMAIN shape |-> 1]
                      ELSE IF KeyLess(f[k - 1], at(k)) THEN [d \in DOMAIN shape |-> at(k)[d] + 1]
                      ELSE f[k - 1]
<1>5. ASSUME NEW k \in 0..total PROVE f[k] = Next(k)
  <2>1. f[k] = IF k = 0 THEN first ELSE step[k][f[k - 1]]
    <3> HIDE DEF first, step
    <3> QED
      BY <1>4 DEF Iterates
  <2>2. CASE k = 0
    BY <2>1, <2>2
  <2>3. CASE k # 0
    <3>1. k \in 1..total /\ k - 1 \in 0..total /\ f[k - 1] \in X
      BY <2>3
    <3>2. step[k] = [x \in X |->
              IF KeyLess(x, at(k)) THEN [d \in DOMAIN shape |-> at(k)[d] + 1] ELSE x]
      BY <3>1
    <3> HIDE DEF step, X
    <3>3. step[k][f[k - 1]] =
              IF KeyLess(f[k - 1], at(k)) THEN [d \in DOMAIN shape |-> at(k)[d] + 1] ELSE f[k - 1]
      BY <3>1, <3>2
    <3> QED
      BY <2>1, <2>3, <3>3
  <2> QED
    BY <2>2, <2>3
<1>6. f = [k \in 0..total |-> f[k]]
  BY <1>4
<1>7. f = [k \in 0..total |-> Next(k)]
  <2> HIDE DEF Next
  <2> QED
    BY <1>5, <1>6
<1> QED
  BY <1>7 DEF RightKeys, at

\* The right key lies at or past every cell it has been moved over.
LEMMA RightKeysBound ==
    ASSUME NEW counts, NEW n, IsGrid(counts, n), NEW shape, DOMAIN shape = 1..n,
           NEW f, RightKeys(f, counts, shape, Volume(counts))
    PROVE  /\ f[Volume(counts)] \in [1..n -> Nat]
           /\ \A k \in 1..Volume(counts) : KeyLeq(Unflatten(k - 1, counts), f[Volume(counts)])
<1> DEFINE total == Volume(counts)
           at(k) == Unflatten(k - 1, counts)
           X == [1..n -> Nat]
           Past(m) == f[m] \in X /\ \A k \in 1..m : KeyLeq(at(k), f[m])
           Wrong == {m \in 0..total : ~Past(m)}
<1>0. total \in Nat /\ n \in Nat \ {0}
  BY VolumeIsNatural DEF IsGrid
<1>1. \A k \in 1..total : at(k) \in X
  <2> SUFFICES ASSUME NEW k \in 1..total PROVE at(k) \in X
    OBVIOUS
  <2>1. k - 1 \in Nat
    OBVIOUS
  <2> QED
    BY <2>1, UnflattenWithin
<1>2. \A k \in 1..total : \A j \in 1..total : j < k => KeyLess(at(j), at(k))
  <2> SUFFICES ASSUME NEW k \in 1..total, NEW j \in 1..total, j < k PROVE KeyLess(at(j), at(k))
    OBVIOUS
  <2>1. j - 1 \in Nat /\ k - 1 \in Nat /\ j - 1 < k - 1 /\ k - 1 < total
    BY <1>0
  <2> HIDE DEF total
  <2> QED
    BY <2>1, RowMajorOrder DEF total
<1>3. \A m \in 0..total : f[m] = IF m = 0 THEN [d \in 1..n |-> 1]
                                 ELSE IF KeyLess(f[m - 1], at(m))
                                      THEN [d \in 1..n |-> at(m)[d] + 1] ELSE f[m - 1]
  BY DEF RightKeys
<1> HIDE DEF at, total
<1>4. ASSUME Wrong # {} PROVE FALSE
  <2>1. PICK m \in Wrong : \A k \in Wrong : m <= k
    <3>1. Wrong \subseteq Nat
      OBVIOUS
    <3> HIDE DEF Wrong
    <3> QED
      BY <1>4, <3>1, LeastNumber
  <2>2. CASE m = 0
    <3>1. 0 \in 0..total
      BY <1>0
    <3>2. f[0] = [d \in 1..n |-> 1]
      BY <1>3, <3>1
    <3>3. Past(0)
      BY <3>2
    <3> QED
      BY <2>1, <2>2, <3>3
  <2>3. CASE m # 0
    <3>1. m \in 1..total /\ m - 1 \in 0..total
      BY <1>0, <2>1, <2>3
    <3>2. Past(m - 1)
      <4>1. m - 1 \notin Wrong
        <5> HIDE DEF Wrong
        <5> QED
          BY <2>1, <3>1
      <4> QED
        BY <3>1, <4>1
    <3>3. f[m - 1] \in X /\ \A k \in 1..(m - 1) : KeyLeq(at(k), f[m - 1])
      BY <3>2
    <3>4. at(m) \in X
      BY <1>1, <3>1
    <3>5. CASE KeyLess(f[m - 1], at(m))
      <4>1. f[m] = [d \in 1..n |-> at(m)[d] + 1]
        BY <1>3, <2>3, <3>1, <3>5
      <4>2. f[m] \in X
        BY <3>4, <4>1
      <4>3. KeyLess(at(m), f[m])
        <5>1. 1 \in 1..n /\ DOMAIN at(m) = 1..n /\ at(m)[1] < f[m][1] /\ 1..(1 - 1) = {}
          BY <1>0, <3>4, <4>1
        <5> QED
          BY <5>1 DEF KeyLess
      <4>4. ASSUME NEW k \in 1..m PROVE KeyLeq(at(k), f[m])
        <5>1. CASE k = m
          BY <4>3, <5>1 DEF KeyLeq
        <5>2. CASE k # m
          <6>1. k \in 1..total /\ k < m
            <7> HIDE DEF Wrong
            <7> QED
              BY <1>0, <3>1, <5>2
          <6>2. KeyLess(at(k), at(m)) /\ at(k) \in X
            BY <1>1, <1>2, <3>1, <6>1
          <6> QED
            BY <1>0, <3>4, <4>2, <4>3, <6>2, KeyLessIsTransitive DEF KeyLeq
        <5> QED
          BY <5>1, <5>2
      <4> QED
        BY <2>1, <4>2, <4>4
    <3>6. CASE ~KeyLess(f[m - 1], at(m))
      <4>1. f[m] = f[m - 1]
        BY <1>3, <2>3, <3>1, <3>6
      <4>2. KeyLeq(at(m), f[m - 1])
        BY <1>0, <3>3, <3>4, <3>6, KeyLessIsTotal
      <4>3. \A k \in 1..m : k = m \/ k \in 1..(m - 1)
        BY <3>1
      <4> QED
        BY <2>1, <3>3, <4>1, <4>2, <4>3
    <3> QED
      BY <3>5, <3>6
  <2> QED
    BY <2>2, <2>3
<1>5. total \in 0..total /\ total \notin Wrong
  BY <1>0, <1>4
<1>6. Past(total)
  BY <1>5
<1> QED
  BY <1>6 DEF total, at
-----------------------------------------------------------------------------
(* The keys of an index *)

\* The key of the s-th chunk, and the key after the last one.
KeyAt(tree, s) ==
    IF s <= Len(tree.origins) THEN ChunkKey(tree.origins[s]) ELSE Append(tree.end, ElemSize)

\* Origins and end are of one dimensionality, and keys ascend from the origin to the end.
KeysAscend(tree) ==
    \E n \in Nat \ {0} :
        /\ tree.end \in [1..n -> Nat] /\ tree.origins \in Seq([1..n -> Nat])
        /\ tree.origins # <<>> => tree.origins[1] = [d \in 1..n |-> 0]
        /\ \A s \in 1..(Len(tree.origins) + 1) : KeyAt(tree, s) \in [1..(n + 1) -> Nat]
        /\ \A s, t \in 1..(Len(tree.origins) + 1) : s < t => KeyLess(KeyAt(tree, s), KeyAt(tree, t))

\* A coordinate with its element pseudo-dimension, scaled to elements.
ScaledKey(g, chunk, n, e) == Append([d \in 1..n |-> g[d] * chunk[d]], e)

IsChunk(chunk, n) == \A d \in 1..n : chunk[d] \in Nat \ {0}

IsScaled(key, g, chunk, n, e) ==
    /\ [d \in 1..n |-> g[d] * chunk[d]] \in [1..n -> Nat]
    /\ key \in [1..(n + 1) -> Nat]
    /\ key[n + 1] = e
    /\ \A d \in 1..n : key[d] = g[d] * chunk[d]

LEMMA ScaledKeys ==
    ASSUME NEW n \in Nat, NEW g \in [1..n -> Nat], NEW chunk, IsChunk(chunk, n), NEW e \in Nat
    PROVE  IsScaled(ScaledKey(g, chunk, n, e), g, chunk, n, e)
<1> DEFINE k == [d \in 1..n |-> g[d] * chunk[d]]
<1>1. \A d \in 1..n : g[d] * chunk[d] \in Nat
  BY DEF IsChunk
<1>2. k \in [1..n -> Nat] /\ \A d \in 1..n : k[d] = g[d] * chunk[d]
  BY <1>1
<1> HIDE DEF k
<1>3. k \in Seq(Nat) /\ Len(k) = n
  BY <1>2
<1>4. Append(k, e) \in Seq(Nat) /\ Len(Append(k, e)) = n + 1 /\ Append(k, e)[n + 1] = e
      /\ \A d \in 1..n : Append(k, e)[d] = k[d]
  BY <1>3
<1>5. Append(k, e) \in [1..(n + 1) -> Nat]
  <2> DEFINE a == Append(k, e)
  <2>1. a \in Seq(Nat) /\ Len(a) = n + 1
    BY <1>4
  <2> HIDE DEF a
  <2>2. a \in [1..(n + 1) -> Nat]
    BY <2>1
  <2> QED
    BY <2>2 DEF a
<1> QED
  BY <1>2, <1>4, <1>5 DEF ScaledKey, IsScaled, k

\* Scaling keeps the order, and the pseudo-dimension decides between equals.
LEMMA ScalingKeepsOrder ==
    ASSUME NEW n \in Nat, NEW g \in [1..n -> Nat], NEW h \in [1..n -> Nat], NEW chunk,
           IsChunk(chunk, n), NEW x \in Nat, NEW y \in Nat,
           KeyLess(g, h) \/ (g = h /\ x < y)
    PROVE  KeyLess(ScaledKey(g, chunk, n, x), ScaledKey(h, chunk, n, y))
<1> DEFINE k == ScaledKey(g, chunk, n, x)
           l == ScaledKey(h, chunk, n, y)
<1>1. /\ k \in [1..(n + 1) -> Nat] /\ k[n + 1] = x /\ \A d \in 1..n : k[d] = g[d] * chunk[d]
      /\ l \in [1..(n + 1) -> Nat] /\ l[n + 1] = y /\ \A d \in 1..n : l[d] = h[d] * chunk[d]
  <2>1. IsScaled(k, g, chunk, n, x) /\ IsScaled(l, h, chunk, n, y)
    BY ScaledKeys
  <2> HIDE DEF k, l
  <2> QED
    BY <2>1 DEF IsScaled
<1> HIDE DEF k, l
<1>2. CASE KeyLess(g, h)
  <2>1. PICK d \in 1..n : g[d] < h[d] /\ \A e \in 1..(d - 1) : g[e] = h[e]
    BY <1>2 DEF KeyLess
  <2>2. g[d] * chunk[d] < h[d] * chunk[d]
    <3> DEFINE a == g[d]
               b == h[d]
               c == chunk[d]
    <3>1. a \in Nat /\ b \in Nat /\ c \in Nat \ {0} /\ a < b
      BY <2>1 DEF IsChunk
    <3> HIDE DEF a, b, c
    <3>2. (a + 1) * c <= b * c
      BY <3>1, ProductsGrow
    <3>3. (a + 1) * c = a * c + c /\ a * c \in Nat /\ b * c \in Nat
      BY <3>1
    <3>4. a * c < b * c
      BY <3>1, <3>2, <3>3
    <3> QED
      BY <3>4 DEF a, b, c
  <2>3. \A e \in 1..(d - 1) : e \in 1..n
    BY <2>1
  <2>4. k[d] < l[d] /\ \A e \in 1..(d - 1) : k[e] = l[e]
    BY <1>1, <2>1, <2>2, <2>3
  <2>5. d \in DOMAIN k
    BY <1>1, <2>1
  <2> QED
    BY <2>4, <2>5 DEF KeyLess, k, l
<1>3. CASE g = h /\ x < y
  <2>1. n + 1 \in DOMAIN k /\ k[n + 1] < l[n + 1] /\ \A e \in 1..(n + 1 - 1) : k[e] = l[e]
    BY <1>1, <1>3
  <2> QED
    BY <2>1 DEF KeyLess, k, l
<1> QED
  BY <1>2, <1>3

\* chunk_origins and end_offsets give ascending keys, for any shape and chunk shape.
LEMMA DatasetsAscend ==
    ASSUME NEW grid \in Grid
    PROVE  KeysAscend(Dataset(grid))
<1> DEFINE tree == Dataset(grid)
           shape == grid.shape
           chunk == grid.chunk_shape
           n == Len(shape)
           counts == ChunkCounts(shape, chunk)
           total == Volume(counts)
           at(i) == Unflatten(i - 1, counts)
<1>1. /\ n \in Nat \ {0} /\ DOMAIN shape = 1..n /\ \A d \in 1..n : shape[d] \in Nat
      /\ \A d \in 1..n : chunk[d] \in Nat \ {0}
  BY IndexAssumption
<1>2. /\ DOMAIN counts = 1..n /\ \A d \in 1..n : counts[d] \in Nat
      /\ counts \in Seq(Nat) /\ Len(counts) = n
  <2>1. \A d \in 1..n : CeilDiv(shape[d], chunk[d]) = CeilingDiv(shape[d], chunk[d])
    BY DEF CeilDiv, CeilingDiv
  <2>2. \A d \in 1..n : CeilingDiv(shape[d], chunk[d]) \in Nat
    BY <1>1, CeilingDivides
  <2>3. counts = [d \in 1..n |-> CeilDiv(shape[d], chunk[d])]
    BY <1>1 DEF ChunkCounts
  <2> HIDE DEF counts
  <2>4. counts \in [1..n -> Nat]
    BY <2>1, <2>2, <2>3
  <2>5. counts \in Seq(Nat) /\ Len(counts) = n
    BY <1>1, <2>4
  <2> QED
    BY <2>4, <2>5
<1>3. total \in Nat
  BY <1>1, <1>2, VolumeIsNatural
<1>4. tree.end = EndOffsets(shape, chunk) /\ tree.origins = ChunkOrigins(shape, chunk)
  BY DEF Dataset
<1>5. tree.origins = [i \in 1..total |-> [d \in 1..n |-> at(i)[d] * chunk[d]]]
  BY <1>1, <1>4 DEF ChunkOrigins, ChunkCount
<1> SUFFICES KeysAscend(tree)
  OBVIOUS
<1> HIDE DEF tree, total, at, counts, n, shape, chunk
<1>e. ElemSize \in Nat /\ 0 < ElemSize
  BY IndexAssumption
<1>i. IsChunk(chunk, n)
  BY <1>1 DEF IsChunk
<1>s. \A g \in [1..n -> Nat], e \in Nat :
        /\ [d \in 1..n |-> g[d] * chunk[d]] \in [1..n -> Nat]
        /\ ScaledKey(g, chunk, n, e) \in [1..(n + 1) -> Nat]
  <2>1. \A g \in [1..n -> Nat], e \in Nat : IsScaled(ScaledKey(g, chunk, n, e), g, chunk, n, e)
    BY <1>1, <1>i, ScaledKeys
  <2> QED
    BY <2>1 DEF IsScaled
<1>o. \A g, h \in [1..n -> Nat], x, y \in Nat :
        KeyLess(g, h) \/ (g = h /\ x < y) =>
            KeyLess(ScaledKey(g, chunk, n, x), ScaledKey(h, chunk, n, y))
  BY <1>1, <1>i, ScalingKeepsOrder
<1>6. CASE \E d \in 1..n : counts[d] = 0
  <2>1. total = 0
    BY <1>1, <1>2, <1>6, EmptyVolume DEF total
  <2>2. tree.origins = <<>> /\ Len(tree.origins) = 0 /\ tree.origins \in Seq([1..n -> Nat])
    <3>1. 1..total = {}
      BY <2>1
    <3>2. tree.origins = <<>>
      BY <1>5, <3>1
    <3> QED
      BY <3>2
  <2>3. tree.end = [d \in 1..n |-> counts[d] * chunk[d]]
    BY <1>1, <1>4, <1>6 DEF EndOffsets, counts
  <2>4. counts \in [1..n -> Nat]
    BY <1>2
  <2>5. /\ tree.end \in [1..n -> Nat]
        /\ ScaledKey(counts, chunk, n, ElemSize) \in [1..(n + 1) -> Nat]
    BY <1>s, <1>e, <2>3, <2>4
  <2>6. Append(tree.end, ElemSize) = ScaledKey(counts, chunk, n, ElemSize)
    BY <2>3 DEF ScaledKey
  <2>7. \A s \in 1..(Len(tree.origins) + 1) : s = 1 /\ KeyAt(tree, s) = Append(tree.end, ElemSize)
    BY <2>2 DEF KeyAt
  <2>8. \A s \in 1..(Len(tree.origins) + 1) : KeyAt(tree, s) \in [1..(n + 1) -> Nat]
    BY <2>5, <2>6, <2>7
  <2>9. \A s, t \in 1..(Len(tree.origins) + 1) : s < t => KeyLess(KeyAt(tree, s), KeyAt(tree, t))
    BY <2>7
  <2> QED
    BY <1>1, <2>2, <2>5, <2>8, <2>9 DEF KeysAscend
<1>7. CASE ~\E d \in 1..n : counts[d] = 0
  <2>1. IsGrid(counts, n)
    BY <1>1, <1>2, <1>7 DEF IsGrid
  <2> DEFINE f == CHOOSE g : RightKeys(g, counts, shape, total)
             right == f[total]
  <2>2. RightKeys(f, counts, shape, total)
    BY <1>1, <1>3, <2>1, RightKeysExist
  <2>3. tree.end = [d \in 1..n |-> right[d] * chunk[d]]
    BY <1>1, <1>4, <1>7 DEF EndOffsets, counts, total, RightKeys
  <2> HIDE DEF f
  <2>4. right \in [1..n -> Nat] /\ \A i \in 1..total : KeyLeq(at(i), right)
    BY <1>1, <2>1, <2>2, RightKeysBound DEF total, at
  <2> HIDE DEF right
  <2>5. \A i \in 1..total : at(i) \in [1..n -> Nat]
    <3> SUFFICES ASSUME NEW i \in 1..total PROVE at(i) \in [1..n -> Nat]
      OBVIOUS
    <3>1. i - 1 \in Nat
      OBVIOUS
    <3> QED
      BY <2>1, <3>1, UnflattenWithin DEF at
  <2>6. \A i, j \in 1..total : i < j => KeyLess(at(i), at(j))
    <3> SUFFICES ASSUME NEW i \in 1..total, NEW j \in 1..total, i < j PROVE KeyLess(at(i), at(j))
      OBVIOUS
    <3>1. i - 1 \in Nat /\ j - 1 \in Nat /\ i - 1 < j - 1 /\ j - 1 < total
      BY <1>3
    <3> QED
      BY <2>1, <3>1, RowMajorOrder DEF total, at
  <2>7. Len(tree.origins) = total /\ tree.origins \in Seq([1..n -> Nat])
        /\ \A i \in 1..total : tree.origins[i] = [d \in 1..n |-> at(i)[d] * chunk[d]]
    <3>1. \A i \in 1..total : [d \in 1..n |-> at(i)[d] * chunk[d]] \in [1..n -> Nat]
      BY <1>s, <2>5, 0 \in Nat
    <3>2. tree.origins \in [1..total -> [1..n -> Nat]]
      BY <1>5, <3>1
    <3> QED
      BY <1>3, <1>5, <3>2
  <2>8. \A s \in 1..total : KeyAt(tree, s) = ScaledKey(at(s), chunk, n, 0)
    <3> SUFFICES ASSUME NEW s \in 1..total PROVE KeyAt(tree, s) = ScaledKey(at(s), chunk, n, 0)
      OBVIOUS
    <3>1. s <= Len(tree.origins) /\ tree.origins[s] = [d \in 1..n |-> at(s)[d] * chunk[d]]
      BY <1>3, <2>7
    <3>2. KeyAt(tree, s) = Append(tree.origins[s], 0)
      BY <3>1 DEF KeyAt, ChunkKey
    <3> QED
      BY <3>1, <3>2 DEF ScaledKey
  <2>9. KeyAt(tree, total + 1) = ScaledKey(right, chunk, n, ElemSize)
    <3>1. ~(total + 1 <= Len(tree.origins))
      BY <1>3, <2>7
    <3>2. KeyAt(tree, total + 1) = Append(tree.end, ElemSize)
      BY <3>1 DEF KeyAt
    <3> QED
      BY <2>3, <3>2 DEF ScaledKey
  <2>10. \A s \in 1..(total + 1) : s \in 1..total \/ s = total + 1
    BY <1>3
  <2>12. \A s \in 1..(total + 1) : KeyAt(tree, s) \in [1..(n + 1) -> Nat]
    <3>1. \A s \in 1..total : KeyAt(tree, s) \in [1..(n + 1) -> Nat]
      BY <1>s, <2>5, <2>8, 0 \in Nat
    <3>2. KeyAt(tree, total + 1) \in [1..(n + 1) -> Nat]
      BY <1>s, <1>e, <2>4, <2>9
    <3> QED
      BY <2>10, <3>1, <3>2
  <2>13. ASSUME NEW s \in 1..(total + 1), NEW t \in 1..(total + 1), s < t
         PROVE  KeyLess(KeyAt(tree, s), KeyAt(tree, t))
    <3>1. s \in 1..total
      BY <1>3, <2>13
    <3>2. CASE t \in 1..total
      <4>1. KeyLess(at(s), at(t))
        BY <2>6, <2>13, <3>1, <3>2
      <4> QED
        BY <1>o, <2>5, <2>8, <3>1, <3>2, <4>1, 0 \in Nat
    <3>3. CASE t = total + 1
      <4>1. KeyLess(at(s), right) \/ (at(s) = right /\ 0 < ElemSize)
        BY <1>e, <2>4, <3>1 DEF KeyLeq
      <4> QED
        BY <1>o, <1>e, <2>4, <2>5, <2>8, <2>9, <3>1, <3>3, <4>1, 0 \in Nat
    <3> QED
      BY <2>10, <3>2, <3>3
  <2>14. ASSUME tree.origins # <<>> PROVE tree.origins[1] = [d \in 1..n |-> 0]
    <3>1. total # 0
      <4>1. Len(tree.origins) # 0
        BY <2>7, <2>14
      <4> QED
        BY <2>7, <4>1
    <3>2. 1 \in 1..total /\ 1 - 1 = 0
      BY <1>3, <3>1
    <3>3. \A d \in 1..n : at(1)[d] = 0
      BY <2>1, <3>2, UnflattenZero DEF at
    <3>4. \A d \in 1..n : at(1)[d] * chunk[d] = 0
      BY <1>1, <3>3
    <3> QED
      BY <2>7, <3>2, <3>4
  <2>15. tree.end \in [1..n -> Nat]
    BY <1>s, <1>e, <2>3, <2>4
  <2> QED
    BY <1>1, <2>7, <2>12, <2>13, <2>14, <2>15 DEF KeysAscend
<1> QED
  BY <1>6, <1>7
-----------------------------------------------------------------------------
(* The shape of an index: the tree over the chunks of its dataset. *)

Arity == CHUNK_NODE_MAX_CHILDREN
Total(tree) == Len(tree.origins)
Planned(tree) == LevelCounts(Total(tree), Arity)
Height(tree) == TreeHeight(Total(tree), Arity)
Entries(tree, k) == TreeEntries(Total(tree), Arity, k)
Base(tree, k) == TreeBase(Total(tree), Arity, k)
Start(tree, k, m) == TreeStart(Total(tree), Arity, k, m)
Fanout(tree, k, i) == TreeFanout(Total(tree), Arity, k, i)

LEMMA EntriesAre ==
    ASSUME NEW tree, Total(tree) \in Nat
    PROVE  /\ Arity \in Nat \ {0, 1} /\ Height(tree) \in Nat \ {0}
           /\ Height(tree) = Len(Planned(tree)) /\ Planned(tree) \in Seq(Nat)
           /\ \A k \in 0..Height(tree) : Entries(tree, k) \in Nat
           /\ \A k \in 1..Height(tree) :
                  /\ Entries(tree, k) # 0
                  /\ Entries(tree, k) = AtLeastOne(CeilingDiv(Entries(tree, k - 1), Arity))
           /\ Entries(tree, Height(tree)) = 1
           /\ Total(tree) = 0 => Height(tree) = 1
           /\ Base(tree, 0) = 0 /\ \A k \in 0..Height(tree) : Base(tree, k) \in Nat
           /\ \A k \in 1..Height(tree) : Base(tree, k) = Base(tree, k - 1) + Entries(tree, k)
<1>1. Arity \in Nat \ {0, 1}
  BY IndexAssumption DEF Arity
<1> DEFINE n == Total(tree)
           a == Arity
<1>2. n \in Nat /\ a \in Nat \ {0, 1}
  BY <1>1
<1> HIDE DEF n, a
<1>3. /\ a \in Nat \ {0, 1} /\ TreeHeight(n, a) \in Nat \ {0}
      /\ LevelCounts(n, a) \in Seq(Nat)
      /\ \A k \in 0..TreeHeight(n, a) : TreeEntries(n, a, k) \in Nat
      /\ \A k \in 1..TreeHeight(n, a) :
             /\ TreeEntries(n, a, k) # 0
             /\ TreeEntries(n, a, k) = AtLeastOne(CeilingDiv(TreeEntries(n, a, k - 1), a))
      /\ TreeEntries(n, a, TreeHeight(n, a)) = 1
      /\ n = 0 => TreeHeight(n, a) = 1
      /\ TreeBase(n, a, 0) = 0 /\ \A k \in 0..TreeHeight(n, a) : TreeBase(n, a, k) \in Nat
      /\ \A k \in 1..TreeHeight(n, a) : TreeBase(n, a, k) = TreeBase(n, a, k - 1) + TreeEntries(n, a, k)
  BY <1>2, TreeEntriesAre
<1>4. TreeHeight(n, a) = Len(LevelCounts(n, a))
  BY DEF TreeHeight
<1> QED
  BY <1>3, <1>4 DEF Height, Planned, Entries, Base, n, a

LEMMA StartsAre ==
    ASSUME NEW tree, Total(tree) \in Nat
    PROVE  /\ \A k \in 0..Height(tree) : \A m \in Nat \ {0} : Start(tree, k, m) \in 1..(Total(tree) + 1)
           /\ \A k \in 0..Height(tree) :
                  Start(tree, k, 1) = 1 /\ Start(tree, k, Entries(tree, k) + 1) = Total(tree) + 1
           /\ \A m \in 1..(Total(tree) + 1) : Start(tree, 0, m) = m
           /\ \A k \in 1..Height(tree) : \A i \in Nat \ {0} :
                  Start(tree, k, i) = Start(tree, k - 1, (i - 1) * Arity + 1)
<1>1. Arity \in Nat \ {0, 1}
  BY IndexAssumption DEF Arity
<1> QED
  BY <1>1, TreeStartsAre DEF Height, Entries, Start

LEMMA StartsAscend ==
    ASSUME NEW tree, Total(tree) \in Nat \ {0}, NEW k \in 0..Height(tree),
           NEW m \in 1..(Entries(tree, k) + 1), NEW t \in 1..(Entries(tree, k) + 1), m < t
    PROVE  Start(tree, k, m) < Start(tree, k, t)
<1>1. Arity \in Nat \ {0, 1}
  BY IndexAssumption DEF Arity
<1> QED
  BY <1>1, TreeStartsAscend DEF Height, Entries, Start

LEMMA FanoutIs ==
    ASSUME NEW tree, Total(tree) \in Nat, NEW k \in 0..(Height(tree) - 1),
           NEW i \in 1..Entries(tree, k + 1)
    PROVE  /\ Fanout(tree, k, i) \in 0..Arity
           /\ (i - 1) * Arity \in Nat
           /\ (i - 1) * Arity + Fanout(tree, k, i) <= Entries(tree, k)
           /\ Fanout(tree, k, i) = 0 <=> Total(tree) = 0
           /\ Total(tree) = 0 => Entries(tree, k) = 0 /\ k = 0 /\ Height(tree) = 1 /\ i = 1
           /\ Start(tree, k, (i - 1) * Arity + 1) = Start(tree, k + 1, i)
           /\ Start(tree, k, (i - 1) * Arity + Fanout(tree, k, i) + 1) = Start(tree, k + 1, i + 1)
<1>1. Arity \in Nat \ {0, 1}
  BY IndexAssumption DEF Arity
<1> QED
  BY <1>1, TreeFanoutIs DEF Height, Entries, Start, Fanout

-----------------------------------------------------------------------------
(* The nodes of an index *)

NodeAddr(tree, k, i) == Base(tree, k) + i - 1
EntryKey(tree, k, m) == KeyAt(tree, Start(tree, k, m))
EntryAddr(tree, k, m) ==
    IF k = 0 THEN NodeCount(Planned(tree)) + m - 1 ELSE NodeAddr(tree, k - 1, m)

\* Keys are in the order of the chunks they are the keys of.
LEMMA KeysInOrder ==
    ASSUME NEW tree, KeysAscend(tree), NEW s \in 1..(Total(tree) + 1), NEW t \in 1..(Total(tree) + 1)
    PROVE  /\ KeyLess(KeyAt(tree, s), KeyAt(tree, t)) <=> s < t
           /\ KeyLeq(KeyAt(tree, s), KeyAt(tree, t)) <=> s <= t
<1>1. PICK n \in Nat \ {0} :
        /\ tree.origins \in Seq([1..n -> Nat])
        /\ \A u \in 1..(Total(tree) + 1) : KeyAt(tree, u) \in [1..(n + 1) -> Nat]
        /\ \A u, v \in 1..(Total(tree) + 1) : u < v => KeyLess(KeyAt(tree, u), KeyAt(tree, v))
  BY DEF KeysAscend, Total
<1>2. Total(tree) \in Nat
  BY <1>1 DEF Total
<1> DEFINE k == KeyAt(tree, s)
           l == KeyAt(tree, t)
<1>3. n + 1 \in Nat /\ k \in [1..(n + 1) -> Nat] /\ l \in [1..(n + 1) -> Nat]
  BY <1>1
<1>4. s < t => KeyLess(k, l)
  BY <1>1
<1>5. t < s => KeyLess(l, k)
  BY <1>1
<1>6. ~KeyLess(k, k)
  BY <1>3, KeyLessIsStrict
<1>7. s = t => k = l
  OBVIOUS
<1>8. ~(KeyLess(k, l) /\ KeyLess(l, k))
  BY <1>3, <1>6, KeyLessIsTransitive
<1>9. s < t \/ s = t \/ t < s
  BY <1>2
<1> HIDE DEF k, l
<1>10. KeyLess(k, l) <=> s < t
  <2>1. s < t => ~(t < s) /\ s # t
    BY <1>2
  <2> QED
    BY <1>4, <1>5, <1>6, <1>7, <1>8, <1>9, <2>1
<1>11. k = l => s = t
  BY <1>4, <1>5, <1>6, <1>9
<1>12. KeyLeq(k, l) <=> s <= t
  <2>1. s <= t <=> (s < t \/ s = t)
    BY <1>2
  <2> QED
    BY <1>7, <1>10, <1>11, <2>1 DEF KeyLeq
<1> QED
  BY <1>10, <1>12 DEF k, l
-----------------------------------------------------------------------------
(* Building the index *)

\* The i-th node of level k, with the entries it is to have.
IsNode(tree, node, k, i) ==
    /\ node.level = k
    /\ node.left = IF i = 1 THEN Undefined ELSE NodeAddr(tree, k, i) - 1
    /\ node.right = IF i = Entries(tree, k + 1) THEN Undefined ELSE NodeAddr(tree, k, i) + 1
    /\ node.children \in Seq(Nat) /\ Len(node.children) = Fanout(tree, k, i)
    /\ \A j \in 1..Fanout(tree, k, i) : node.children[j] = EntryAddr(tree, k, (i - 1) * Arity + j)
    /\ Fanout(tree, k, i) # 0 =>
           /\ Len(node.keys) = Fanout(tree, k, i) + 1
           /\ \A j \in 1..(Fanout(tree, k, i) + 1) :
                  node.keys[j] = EntryKey(tree, k, (i - 1) * Arity + j)

\* The first levels are written, and nothing else.
LevelsWritten(tree, file, l) ==
    /\ DOMAIN file = 0..(Base(tree, l) - 1)
    /\ \A k \in 0..(l - 1) : \A i \in 1..Entries(tree, k + 1) :
           /\ NodeAddr(tree, k, i) \in DOMAIN file
           /\ IsNode(tree, file[NodeAddr(tree, k, i)], k, i)
    /\ \A addr \in DOMAIN file :
           \E k \in 0..(l - 1) : \E i \in 1..Entries(tree, k + 1) : addr = NodeAddr(tree, k, i)

\* What level k is made of.
MadeOf(tree, k) ==
    [keys |-> [m \in 1..Entries(tree, k) |-> EntryKey(tree, k, m)],
     children |-> [m \in 1..Entries(tree, k) |-> EntryAddr(tree, k, m)]]

Building ==
    /\ indexed \in {Dataset(grid) : grid \in Grid}
    /\ indexing \in {"plan", "write", "written", "failed"}
    /\ indexing = "plan" => level = 0 /\ nodes = <<>>
    /\ indexing \in {"write", "written"} =>
           /\ levels = Planned(indexed)
           /\ level \in 0..Height(indexed)
           /\ indexing = "written" <=> level = Height(indexed)
           /\ LevelsWritten(indexed, nodes, level)
    /\ indexing = "write" => below = MadeOf(indexed, level)

LEMMA DatasetFacts ==
    ASSUME Building
    PROVE  KeysAscend(indexed) /\ Total(indexed) \in Nat
<1>1. KeysAscend(indexed)
  BY DatasetsAscend DEF Building
<1>2. Total(indexed) \in Nat
  BY <1>1 DEF KeysAscend, Total
<1> QED
  BY <1>1, <1>2

LEMMA EntriesAreTyped ==
    ASSUME NEW tree, KeysAscend(tree), NEW k \in 0..Height(tree), NEW m \in Nat \ {0}
    PROVE  EntryKey(tree, k, m) \in Seq(Nat) /\ EntryAddr(tree, k, m) \in Nat
<1>1. PICK n \in Nat \ {0} :
        /\ tree.origins \in Seq([1..n -> Nat])
        /\ \A u \in 1..(Total(tree) + 1) : KeyAt(tree, u) \in [1..(n + 1) -> Nat]
  BY DEF KeysAscend, Total
<1>2. Total(tree) \in Nat
  BY <1>1 DEF Total
<1>3. Start(tree, k, m) \in 1..(Total(tree) + 1)
  BY <1>2, StartsAre
<1>4. EntryKey(tree, k, m) \in Seq(Nat)
  <2>1. KeyAt(tree, Start(tree, k, m)) \in [1..(n + 1) -> Nat] /\ n + 1 \in Nat
    BY <1>1, <1>3
  <2> QED
    BY <2>1 DEF EntryKey
<1>5. EntryAddr(tree, k, m) \in Nat
  <2>1. Height(tree) \in Nat /\ \A l \in 0..Height(tree) : Base(tree, l) \in Nat
    BY <1>2, EntriesAre
  <2>2. NodeCount(Planned(tree)) \in Nat
    BY <2>1 DEF Base, Height, NodeCount, TreeBase, TreeHeight, Planned
  <2>3. k # 0 => Base(tree, k - 1) \in Nat
    BY <2>1
  <2> QED
    BY <2>2, <2>3 DEF EntryAddr, NodeAddr
<1> QED
  BY <1>4, <1>5

LEMMA MadeOfIs ==
    ASSUME NEW tree, KeysAscend(tree), NEW k \in 0..Height(tree)
    PROVE  /\ MadeOf(tree, k).keys \in Seq(Seq(Nat))
           /\ Len(MadeOf(tree, k).keys) = Entries(tree, k)
           /\ \A m \in 1..Entries(tree, k) : MadeOf(tree, k).keys[m] = EntryKey(tree, k, m)
           /\ MadeOf(tree, k).children \in Seq(Nat)
           /\ Len(MadeOf(tree, k).children) = Entries(tree, k)
           /\ \A m \in 1..Entries(tree, k) : MadeOf(tree, k).children[m] = EntryAddr(tree, k, m)
<1> DEFINE e == Entries(tree, k)
           keys == [m \in 1..e |-> EntryKey(tree, k, m)]
           children == [m \in 1..e |-> EntryAddr(tree, k, m)]
<1>1. e \in Nat
  <2>1. Total(tree) \in Nat
    BY DEF KeysAscend, Total
  <2> QED
    BY <2>1, EntriesAre
<1>2. \A m \in 1..e : EntryKey(tree, k, m) \in Seq(Nat) /\ EntryAddr(tree, k, m) \in Nat
  <2> SUFFICES ASSUME NEW m \in 1..e
               PROVE EntryKey(tree, k, m) \in Seq(Nat) /\ EntryAddr(tree, k, m) \in Nat
    OBVIOUS
  <2>1. m \in Nat \ {0}
    BY <1>1
  <2> QED
    BY <2>1, EntriesAreTyped
<1> HIDE DEF e
<1> DEFINE K == Seq(Nat)
<1>3. keys \in [1..e -> K] /\ children \in [1..e -> Nat]
  BY <1>2
<1> HIDE DEF K
<1>4. keys \in Seq(K) /\ Len(keys) = e /\ children \in Seq(Nat) /\ Len(children) = e
  BY <1>1, <1>3
<1>5. /\ \A m \in 1..e : keys[m] = EntryKey(tree, k, m)
      /\ \A m \in 1..e : children[m] = EntryAddr(tree, k, m)
  OBVIOUS
<1>6. MadeOf(tree, k).keys = keys /\ MadeOf(tree, k).children = children
  BY DEF MadeOf, e
<1> HIDE DEF keys, children
<1> QED
  BY <1>4, <1>5, <1>6 DEF e, K

\* Where the next level goes, and how many nodes it takes.
LEMMA NextLevel ==
    ASSUME Building, indexing = "write"
    PROVE  /\ level \in 0..(Height(indexed) - 1)
           /\ FirstAddr = Base(indexed, level)
           /\ NodesOnLevel = Entries(indexed, level + 1)
<1>1. /\ levels = Planned(indexed) /\ level \in 0..Height(indexed) /\ level # Height(indexed)
      /\ below = MadeOf(indexed, level)
  BY DEF Building
<1>2. Total(indexed) \in Nat /\ KeysAscend(indexed)
  BY DatasetFacts
<1>3. Height(indexed) \in Nat /\ Planned(indexed) \in Seq(Nat)
  BY <1>2, EntriesAre
<1>4. /\ level \in 0..(Height(indexed) - 1) /\ level + 1 \in 1..Height(indexed)
      /\ level + 1 - 1 = level
  BY <1>1, <1>3
<1>5. FirstAddr = Base(indexed, level)
  <2>1. DOMAIN levels = 1..Height(indexed)
    BY <1>1, <1>3 DEF Height, TreeHeight, Planned
  <2>2. LevelAddrs(levels, 0)[level + 1] = 0 + NodesUpTo(levels)[level + 1 - 1]
    BY <1>4, <2>1 DEF LevelAddrs
  <2>3. NodesUpTo(levels)[level] = Base(indexed, level) /\ Base(indexed, level) \in Nat
    BY <1>1, <1>2, EntriesAre DEF Base, TreeBase, Planned
  <2> QED
    BY <1>4, <2>2, <2>3 DEF FirstAddr
<1>6. NodesOnLevel = Entries(indexed, level + 1)
  <2>1. Len(below.children) = Entries(indexed, level)
    BY <1>1, <1>2, MadeOfIs
  <2>2. Entries(indexed, level + 1) = AtLeastOne(CeilingDiv(Entries(indexed, level + 1 - 1), Arity))
    BY <1>2, <1>4, EntriesAre
  <2> QED
    BY <1>4, <2>1, <2>2 DEF NodesOnLevel, Arity
<1> QED
  BY <1>4, <1>5, <1>6

\* A node is written with the entries it is to have, and bounded by the next one's first.
LEMMA NodeIsWritten ==
    ASSUME Building, indexing = "write", NEW i \in 1..Entries(indexed, level + 1)
    PROVE  /\ IsNode(indexed, WriteNode(NodeAddr(indexed, level, i)), level, i)
           /\ level + 1 # Height(indexed) => LowerBound(i) = EntryKey(indexed, level + 1, i)
<1> DEFINE k == level
           n == Fanout(indexed, k, i)
           f == (i - 1) * Arity
           e == Entries(indexed, k)
           addr == NodeAddr(indexed, k, i)
           node == WriteNode(addr)
<1>1. /\ KeysAscend(indexed) /\ Total(indexed) \in Nat
      /\ k \in 0..(Height(indexed) - 1) /\ FirstAddr = Base(indexed, k)
      /\ NodesOnLevel = Entries(indexed, k + 1)
      /\ below = MadeOf(indexed, k)
  BY DatasetFacts, NextLevel DEF Building
<1>2. /\ Height(indexed) \in Nat \ {0} /\ Arity \in Nat \ {0} /\ e \in Nat
      /\ Base(indexed, k) \in Nat
      /\ k \in 0..Height(indexed) /\ Entries(indexed, k + 1) \in Nat
  <2>1. Height(indexed) \in Nat \ {0}
    BY <1>1, EntriesAre
  <2>2. k \in 0..Height(indexed) /\ k + 1 \in 0..Height(indexed)
    BY <1>1, <2>1
  <2> QED
    BY <1>1, <2>1, <2>2, EntriesAre
<1>3. /\ n \in 0..Arity /\ f \in Nat /\ f + n <= e
      /\ n = 0 <=> Total(indexed) = 0
      /\ Total(indexed) = 0 => Height(indexed) = 1 /\ k = 0 /\ e = 0
      /\ Start(indexed, k, f + 1) = Start(indexed, k + 1, i)
      /\ Start(indexed, k, f + n + 1) = Start(indexed, k + 1, i + 1)
  BY <1>1, FanoutIs
<1>4. i \in Nat \ {0} /\ i * Arity \in Nat /\ i * Arity = f + Arity
  BY <1>2
<1>5. n = IF f + Arity <= e THEN Arity ELSE e - f
  BY <1>4 DEF Fanout, TreeFanout, Entries
<1>6. /\ below.keys \in Seq(Seq(Nat)) /\ Len(below.keys) = e
      /\ \A m \in 1..e : below.keys[m] = EntryKey(indexed, k, m)
      /\ below.children \in Seq(Nat) /\ Len(below.children) = e
      /\ \A m \in 1..e : below.children[m] = EntryAddr(indexed, k, m)
  BY <1>1, <1>2, MadeOfIs
<1>7. addr - FirstAddr + 1 = i
  BY <1>1, <1>2 DEF NodeAddr
<1>8. /\ node.level = k
      /\ node.left = LeftSibling(addr, i)
      /\ node.right = RightSibling(addr, i, NodesOnLevel)
      /\ node.children = Children(i)
      /\ node.keys = IF Children(i) = <<>> THEN <<>> ELSE Append(Keys(i), Terminal(i))
  BY <1>7 DEF WriteNode
<1> HIDE DEF k, n, f, e, addr, node
<1>9. /\ Children(i) \in Seq(Nat) /\ Len(Children(i)) = n
      /\ \A j \in 1..n : Children(i)[j] = EntryAddr(indexed, k, f + j)
  <2>1. (i - 1) * Arity <= Len(below.children)
    BY <1>2, <1>3, <1>6 DEF f
  <2>2. /\ Children(i) \in Seq(Nat)
        /\ Len(Children(i)) = IF i * Arity <= Len(below.children) THEN Arity
                              ELSE Len(below.children) - (i - 1) * Arity
        /\ \A j \in 1..Len(Children(i)) : Children(i)[j] = below.children[(i - 1) * Arity + j]
    BY <1>2, <1>4, <1>6, <2>1, RunIs DEF Children, Arity
  <2>3. Len(Children(i)) = n
    BY <1>4, <1>5, <1>6, <2>2 DEF f
  <2>4. ASSUME NEW j \in 1..n PROVE Children(i)[j] = EntryAddr(indexed, k, f + j)
    <3>1. f + j \in 1..e
      BY <1>2, <1>3
    <3>2. Children(i)[j] = below.children[f + j]
      BY <2>2, <2>3 DEF f
    <3> QED
      BY <1>6, <3>1, <3>2
  <2> QED
    BY <2>2, <2>3, <2>4
<1>10. /\ Keys(i) \in Seq(Seq(Nat)) /\ Len(Keys(i)) = n
       /\ \A j \in 1..n : Keys(i)[j] = EntryKey(indexed, k, f + j)
  <2> DEFINE K == Seq(Nat)
  <2> HIDE DEF K
  <2>1. (i - 1) * Arity <= Len(below.keys) /\ below.keys \in Seq(K)
    BY <1>2, <1>3, <1>6 DEF f, K
  <2>2. /\ Keys(i) \in Seq(K)
        /\ Len(Keys(i)) = IF i * Arity <= Len(below.keys) THEN Arity
                          ELSE Len(below.keys) - (i - 1) * Arity
        /\ \A j \in 1..Len(Keys(i)) : Keys(i)[j] = below.keys[(i - 1) * Arity + j]
    BY <1>2, <1>4, <2>1, RunIs DEF Keys, Arity
  <2>3. Len(Keys(i)) = n
    BY <1>4, <1>5, <1>6, <2>2 DEF f
  <2>4. ASSUME NEW j \in 1..n PROVE Keys(i)[j] = EntryKey(indexed, k, f + j)
    <3>1. f + j \in 1..e
      BY <1>2, <1>3
    <3>2. Keys(i)[j] = below.keys[f + j]
      BY <2>2, <2>3 DEF f
    <3> QED
      BY <1>6, <3>1, <3>2
  <2> QED
    BY <2>2, <2>3, <2>4 DEF K
<1>11. n # 0 => Terminal(i) = EntryKey(indexed, k, f + n + 1)
  <2>1. ASSUME n # 0 PROVE Terminal(i) = EntryKey(indexed, k, f + n + 1)
    <3>1. i * Arity + 1 = f + Arity + 1 /\ DOMAIN below.keys = 1..e
      BY <1>4, <1>6
    <3>2. CASE f + Arity + 1 <= e
      <4>1. n = Arity /\ f + Arity + 1 \in 1..e
        BY <1>2, <1>3, <1>5, <3>2
      <4>2. Terminal(i) = below.keys[f + Arity + 1]
        BY <3>1, <4>1 DEF Terminal, Arity
      <4> QED
        BY <1>6, <4>1, <4>2
    <3>3. CASE ~(f + Arity + 1 <= e)
      <4>1. f + n = e /\ f + Arity + 1 \notin 1..e
        BY <1>2, <1>3, <1>5, <3>3
      <4>2. Terminal(i) = Bound
        BY <3>1, <4>1 DEF Terminal, Arity
      <4>3. Start(indexed, k, e + 1) = Total(indexed) + 1
        BY <1>1, <1>2, StartsAre DEF e
      <4>4. EntryKey(indexed, k, e + 1) = KeyAt(indexed, Total(indexed) + 1)
        BY <4>3 DEF EntryKey
      <4>5. KeyAt(indexed, Total(indexed) + 1) = Bound
        <5>1. ~(Total(indexed) + 1 <= Len(indexed.origins))
          BY <1>1 DEF Total
        <5> QED
          BY <5>1 DEF KeyAt, Bound
      <4> QED
        BY <4>1, <4>2, <4>4, <4>5
    <3> QED
      BY <3>2, <3>3
  <2> QED
    BY <2>1
<1>12. Children(i) = <<>> <=> n = 0
  BY <1>9
<1>13. n # 0 => /\ Len(node.keys) = n + 1
                /\ \A j \in 1..(n + 1) : node.keys[j] = EntryKey(indexed, k, f + j)
  <2> SUFFICES ASSUME n # 0
               PROVE  /\ Len(node.keys) = n + 1
                      /\ \A j \in 1..(n + 1) : node.keys[j] = EntryKey(indexed, k, f + j)
    OBVIOUS
  <2> DEFINE K == Seq(Nat)
             keys == Append(Keys(i), Terminal(i))
  <2>1. node.keys = keys
    BY <1>8, <1>12
  <2>2. Terminal(i) \in K
    <3>1. f + n + 1 \in Nat \ {0}
      BY <1>3
    <3> QED
      BY <1>1, <1>2, <1>11, <3>1, EntriesAreTyped
  <2>3. Keys(i) \in Seq(K) /\ Len(Keys(i)) = n /\ n \in Nat
    BY <1>3, <1>10
  <2> HIDE DEF K
  <2>4. /\ Len(keys) = n + 1
        /\ \A j \in 1..n : keys[j] = Keys(i)[j]
        /\ keys[n + 1] = Terminal(i)
    BY <2>2, <2>3, AppendProperties
  <2> HIDE DEF keys
  <2>5. ASSUME NEW j \in 1..(n + 1) PROVE keys[j] = EntryKey(indexed, k, f + j)
    <3>1. CASE j \in 1..n
      BY <1>10, <2>4, <3>1
    <3>2. CASE j \notin 1..n
      <4>1. j = n + 1 /\ f + j = f + n + 1
        BY <1>3, <2>3, <3>2
      <4> QED
        BY <1>11, <2>4, <4>1
    <3> QED
      BY <3>1, <3>2
  <2> QED
    BY <2>1, <2>4, <2>5
<1>14. IsNode(indexed, node, k, i)
  <2>1. node.left = IF i = 1 THEN Undefined ELSE addr - 1
    BY <1>8 DEF LeftSibling
  <2>2. node.right = IF i = Entries(indexed, k + 1) THEN Undefined ELSE addr + 1
    BY <1>1, <1>8 DEF RightSibling
  <2> QED
    BY <1>8, <1>9, <1>13, <2>1, <2>2 DEF IsNode, n, f, addr
<1>15. ASSUME k + 1 # Height(indexed) PROVE LowerBound(i) = EntryKey(indexed, k + 1, i)
  <2>1. n # 0
    BY <1>1, <1>3, <1>15
  <2>2. Keys(i) # <<>> /\ Head(Keys(i)) = Keys(i)[1] /\ 1 \in 1..n
    BY <1>3, <1>10, <2>1
  <2>3. LowerBound(i) = EntryKey(indexed, k, f + 1)
    BY <1>10, <2>2 DEF LowerBound
  <2> QED
    BY <1>3, <2>3 DEF EntryKey
<1> QED
  BY <1>14, <1>15 DEF k, node, addr
LEMMA LevelIsWritten ==
    ASSUME Building, WriteLevel
    PROVE  LevelsWritten(indexed, nodes', level + 1)
<1> DEFINE l == level
           e == Entries(indexed, l + 1)
           base == Base(indexed, l)
           slots == FirstAddr..(FirstAddr + NodesOnLevel - 1)
           file == nodes'
<1>1. indexing = "write"
  BY DEF WriteLevel
<1>2. l \in 0..(Height(indexed) - 1) /\ FirstAddr = base /\ NodesOnLevel = e
  BY <1>1, NextLevel
<1>3. /\ Total(indexed) \in Nat /\ LevelsWritten(indexed, nodes, l)
  BY <1>1, DatasetFacts DEF Building
<1>4. /\ base \in Nat /\ e \in Nat \ {0} /\ Base(indexed, l + 1) = base + e
  <2>1. Height(indexed) \in Nat
    BY <1>3, EntriesAre
  <2>2. l \in 0..Height(indexed) /\ l + 1 \in 0..Height(indexed) /\ l + 1 \in 1..Height(indexed)
        /\ l + 1 - 1 = l
    BY <1>2, <2>1
  <2>3. Base(indexed, l + 1) = Base(indexed, l + 1 - 1) + Entries(indexed, l + 1)
    BY <1>3, <2>2, EntriesAre
  <2> QED
    BY <1>3, <2>2, <2>3, EntriesAre
<1>5. DOMAIN nodes = 0..(base - 1)
  BY <1>3 DEF LevelsWritten
<1>6. slots = base..(base + e - 1)
  BY <1>2
<1>7. /\ DOMAIN file = DOMAIN nodes \cup slots
      /\ \A a \in DOMAIN file : file[a] = IF a \in slots THEN WriteNode(a) ELSE nodes[a]
  BY DEF WriteLevel
<1> HIDE DEF slots, file, e, base, l
<1>8. DOMAIN file = 0..(base + e - 1)
  <2>1. (base..(base + e - 1)) \cup (0..(base - 1)) = 0..(base + e - 1)
    BY <1>4
  <2> QED
    BY <1>5, <1>6, <1>7, <2>1
<1>9. ASSUME NEW k \in 0..l, NEW i \in 1..Entries(indexed, k + 1)
      PROVE  /\ NodeAddr(indexed, k, i) \in DOMAIN file
             /\ IsNode(indexed, file[NodeAddr(indexed, k, i)], k, i)
  <2> DEFINE a == NodeAddr(indexed, k, i)
  <2>1. CASE k = l
    <3>1. i \in 1..e /\ a = base + i - 1
      BY <2>1 DEF e, base, NodeAddr
    <3>2. a \in base..(base + e - 1) /\ a \in 0..(base + e - 1)
      BY <1>4, <3>1
    <3>3. file[a] = WriteNode(a)
      BY <1>6, <1>7, <1>8, <3>2
    <3>4. IsNode(indexed, WriteNode(NodeAddr(indexed, level, i)), level, i)
      BY <1>1, <3>1, NodeIsWritten DEF e, l
    <3> QED
      BY <1>8, <2>1, <3>2, <3>3, <3>4 DEF l
  <2>2. CASE k # l
    <3>1. k \in 0..(l - 1)
      BY <1>2, <2>2
    <3>2. a \in DOMAIN nodes /\ IsNode(indexed, nodes[a], k, i)
      BY <1>3, <3>1 DEF LevelsWritten
    <3> HIDE DEF a
    <3>3. a \notin slots /\ a \in DOMAIN file
      BY <1>4, <1>5, <1>6, <1>7, <3>2
    <3>4. file[a] = nodes[a]
      BY <1>7, <3>3
    <3> QED
      BY <3>2, <3>3, <3>4 DEF a
  <2> QED
    BY <2>1, <2>2
<1>10. ASSUME NEW a \in DOMAIN file
       PROVE  \E k \in 0..l : \E i \in 1..Entries(indexed, k + 1) : a = NodeAddr(indexed, k, i)
  <2>1. CASE a \in DOMAIN nodes
    <3>1. PICK k \in 0..(l - 1) : \E i \in 1..Entries(indexed, k + 1) : a = NodeAddr(indexed, k, i)
      BY <1>3, <2>1 DEF LevelsWritten
    <3>2. k \in 0..l
      BY <1>2
    <3> QED
      BY <3>1, <3>2
  <2>2. CASE a \in slots
    <3> DEFINE i == a - base + 1
    <3>1. i \in 1..e /\ a = base + i - 1
      BY <1>4, <1>6, <2>2
    <3>2. l \in 0..l /\ i \in 1..Entries(indexed, l + 1) /\ a = NodeAddr(indexed, l, i)
      BY <1>2, <3>1 DEF NodeAddr, e, base
    <3> QED
      BY <3>2
  <2> QED
    BY <1>7, <2>1, <2>2
<1>11. l + 1 - 1 = l /\ base + e - 1 = Base(indexed, l + 1) - 1
  BY <1>2, <1>4
<1>12. LevelsWritten(indexed, file, l + 1)
  <2>1. DOMAIN file = 0..(Base(indexed, l + 1) - 1)
    BY <1>8, <1>11
  <2> DEFINE m == l + 1
  <2>2. m - 1 = l
    BY <1>2
  <2> HIDE DEF m
  <2>3. LevelsWritten(indexed, file, m)
    BY <1>9, <1>10, <2>1, <2>2 DEF LevelsWritten, m
  <2> QED
    BY <2>3 DEF m
<1> QED
  BY <1>12 DEF l, file

LEMMA BuildingContinues ==
    ASSUME Building, WriteLevel
    PROVE  Building'
<1>1. /\ indexing = "write" /\ indexed' = indexed /\ levels' = levels /\ level' = level + 1
      /\ indexing' = IF level' = Len(levels) THEN "written" ELSE "write"
      /\ below' = [keys |-> [i \in 1..NodesOnLevel |-> LowerBound(i)],
                   children |-> [i \in 1..NodesOnLevel |-> FirstAddr + i - 1]]
  BY DEF WriteLevel
<1>2. /\ level \in 0..(Height(indexed) - 1) /\ FirstAddr = Base(indexed, level)
      /\ NodesOnLevel = Entries(indexed, level + 1)
  BY <1>1, NextLevel
<1>3. levels = Planned(indexed) /\ indexed \in {Dataset(grid) : grid \in Grid}
  BY <1>1 DEF Building
<1>4. Len(levels) = Height(indexed) /\ Height(indexed) \in Nat
  BY <1>3, DatasetFacts, EntriesAre DEF Height, TreeHeight, Planned
<1>5. LevelsWritten(indexed, nodes', level + 1)
  BY LevelIsWritten
<1>6. ASSUME indexing' = "write" PROVE below' = MadeOf(indexed, level + 1)
  <2>1. level + 1 # Height(indexed) /\ level + 1 # 0 /\ level + 1 - 1 = level
    BY <1>1, <1>2, <1>4, <1>6
  <2>2. \A i \in 1..Entries(indexed, level + 1) : LowerBound(i) = EntryKey(indexed, level + 1, i)
    BY <1>1, <2>1, NodeIsWritten
  <2>3. \A i \in 1..Entries(indexed, level + 1) : FirstAddr + i - 1 = EntryAddr(indexed, level + 1, i)
    BY <1>2, <2>1 DEF EntryAddr, NodeAddr
  <2> QED
    BY <1>1, <1>2, <2>2, <2>3 DEF MadeOf
<1>7. level + 1 \in 0..Height(indexed) /\ (indexing' = "written" <=> level + 1 = Height(indexed))
  BY <1>1, <1>2, <1>4
<1>8. indexing' \in {"write", "written"}
  BY <1>1
<1> QED
  BY <1>1, <1>3, <1>5, <1>6, <1>7, <1>8 DEF Building

LEMMA BuildingHolds ==
    ASSUME Building, [IndexNext]_indexVars
    PROVE  Building'
<1>1. CASE WriteLevel
  BY <1>1, BuildingContinues
<1>2. CASE Plan
  <2>1. /\ indexing = "plan" /\ indexing' = "write" /\ indexed' = indexed
        /\ level' = level /\ nodes' = nodes /\ levels' = Planned(indexed)
        /\ below' = [keys |-> [n \in DOMAIN Origins |-> ChunkKey(Origins[n])],
                     children |-> [n \in DOMAIN Origins |-> ChunkAddr(n)]]
    BY <1>2 DEF Plan, PlannedLevels, Planned, Total, Arity, Origins
  <2>2. level = 0 /\ nodes = <<>>
    BY <2>1 DEF Building
  <2>3. KeysAscend(indexed) /\ Total(indexed) \in Nat
    BY DatasetFacts
  <2>4. Height(indexed) \in Nat \ {0} /\ Base(indexed, 0) = 0
    BY <2>3, EntriesAre
  <2>5. LevelsWritten(indexed, nodes', 0)
    <3>1. DOMAIN <<>> = {} /\ 0..(0 - 1) = {}
      OBVIOUS
    <3>2. DOMAIN nodes' = {}
      BY <2>1, <2>2, <3>1
    <3> QED
      BY <2>4, <3>1, <3>2 DEF LevelsWritten
  <2>6. below' = MadeOf(indexed, 0)
    <3>1. DOMAIN Origins = 1..Entries(indexed, 0) /\ Len(indexed.origins) = Total(indexed)
      BY <2>3 DEF KeysAscend, Origins, Entries, Total, TreeEntries, Planned
    <3>2. ASSUME NEW n \in 1..Entries(indexed, 0)
          PROVE  /\ ChunkKey(Origins[n]) = EntryKey(indexed, 0, n)
                 /\ ChunkAddr(n) = EntryAddr(indexed, 0, n)
      <4>1. n \in 1..Total(indexed)
        BY DEF Entries, TreeEntries, Planned
      <4>2. Start(indexed, 0, n) = n
        BY <2>3, <4>1, StartsAre
      <4>3. n <= Len(indexed.origins)
        BY <3>1, <4>1
      <4> QED
        BY <4>2, <4>3 DEF EntryKey, EntryAddr, KeyAt, ChunkAddr, PlannedLevels, Planned, Total, Arity, Origins
    <3> QED
      BY <2>1, <3>1, <3>2 DEF MadeOf
  <2>7. 0 \in 0..Height(indexed) /\ 0 # Height(indexed)
    BY <2>4
  <2> QED
    BY <2>1, <2>2, <2>5, <2>6, <2>7 DEF Building
<1>3. CASE RefuseGrid
  <2>1. indexing' = "failed" /\ indexed' = indexed
    BY <1>3 DEF RefuseGrid
  <2> QED
    BY <2>1 DEF Building
<1>4. CASE UNCHANGED <<indexed, writing>>
  <2>1. /\ indexed' = indexed /\ indexing' = indexing /\ levels' = levels /\ level' = level
        /\ below' = below /\ nodes' = nodes
    BY <1>4 DEF writing
  <2> QED
    BY <2>1 DEF Building
<1>5. ASSUME NEW origin \in Askable, StartSearch(origin) PROVE UNCHANGED <<indexed, writing>>
  BY <1>5 DEF StartSearch
<1>6. Probe => UNCHANGED <<indexed, writing>>
  BY DEF Probe
<1>7. GiveUp => UNCHANGED <<indexed, writing>>
  BY DEF GiveUp
<1>8. StartCollect \/ CollectLeaf \/ CollectInternal => UNCHANGED <<indexed, writing>>
  BY DEF StartCollect, CollectLeaf, CollectInternal
<1>9. indexVars' = indexVars => UNCHANGED <<indexed, writing>>
  BY DEF indexVars
<1> QED
  BY <1>1, <1>2, <1>3, <1>4, <1>5, <1>6, <1>7, <1>8, <1>9 DEF IndexNext

LEMMA BuildingStarts ==
    ASSUME IndexInit
    PROVE  Building
<1>1. /\ indexed \in {Dataset(grid) : grid \in Grid} /\ indexing = "plan" /\ level = 0
      /\ nodes = <<>>
  BY DEF IndexInit
<1> QED
  BY <1>1 DEF Building

LEMMA BuiltIsReserved ==
    ASSUME Building
    PROVE  NodesFillReservation
<1> SUFFICES ASSUME indexing = "written" PROVE NodesFillReservation
  BY DEF NodesFillReservation
<1> DEFINE h == Height(indexed)
<1>1. /\ levels = Planned(indexed) /\ LevelsWritten(indexed, nodes, h)
  BY DEF Building
<1>2. Total(indexed) \in Nat
  BY DatasetFacts
<1>3. /\ h \in Nat \ {0} /\ Entries(indexed, h) = 1 /\ Len(levels) = h /\ Arity \in Nat
      /\ Planned(indexed) \in Seq(Nat)
      /\ \A k \in 0..h : Base(indexed, k) \in Nat /\ Entries(indexed, k) \in Nat
  BY <1>1, <1>2, EntriesAre DEF Height, TreeHeight, Planned
<1>4. NodeCount(levels) = Base(indexed, h)
  BY <1>1, <1>3 DEF NodeCount, Base, TreeBase, Planned
<1>5. DOMAIN levels = 1..h /\ \A l \in 1..h : LevelAddrs(levels, 0)[l] = Base(indexed, l - 1)
  <2>1. DOMAIN levels = 1..h
    BY <1>1, <1>3
  <2>2. ASSUME NEW l \in 1..h PROVE LevelAddrs(levels, 0)[l] = Base(indexed, l - 1)
    <3>1. LevelAddrs(levels, 0)[l] = 0 + Base(indexed, l - 1)
      BY <1>1, <2>1 DEF LevelAddrs, Base, TreeBase, Planned
    <3>2. l - 1 \in 0..h
      BY <1>3
    <3> QED
      BY <1>3, <3>1, <3>2
  <2> QED
    BY <2>1, <2>2
<1>6. Root = Base(indexed, h - 1)
  <2>1. LevelAddrs(levels, 0) \in Seq(Nat) /\ Len(LevelAddrs(levels, 0)) = h
    <3> DEFINE addrs == LevelAddrs(levels, 0)
    <3>1. DOMAIN addrs = 1..h /\ addrs = [l \in 1..h |-> addrs[l]]
      BY <1>5 DEF LevelAddrs
    <3>2. \A l \in 1..h : addrs[l] \in Nat
      <4>1. \A l \in 1..h : l - 1 \in 0..h
        BY <1>3
      <4> QED
        BY <1>3, <1>5, <4>1
    <3> HIDE DEF addrs
    <3>3. addrs \in [1..h -> Nat]
      BY <3>1, <3>2
    <3> HIDE DEF h
    <3>4. addrs \in Seq(Nat) /\ Len(addrs) = h
      BY <1>3, <3>3
    <3> QED
      BY <3>4 DEF addrs
  <2>2. h \in 1..h
    BY <1>3
  <2> QED
    BY <1>5, <2>1, <2>2 DEF Root, RootAddr, Last
<1> HIDE DEF h
<1>7. ASSUME NEW addr \in DOMAIN nodes
      PROVE  /\ Len(nodes[addr].children) <= CHUNK_NODE_MAX_CHILDREN
             /\ nodes[addr].children # <<>> => Len(nodes[addr].keys) = Len(nodes[addr].children) + 1
  <2>1. PICK k \in 0..(h - 1) : \E i \in 1..Entries(indexed, k + 1) : addr = NodeAddr(indexed, k, i)
    BY <1>1 DEF LevelsWritten
  <2>2. PICK i \in 1..Entries(indexed, k + 1) : addr = NodeAddr(indexed, k, i)
    BY <2>1
  <2>3. IsNode(indexed, nodes[addr], k, i)
    BY <1>1, <2>2 DEF LevelsWritten
  <2>4. Fanout(indexed, k, i) \in 0..Arity
    BY <1>2, FanoutIs DEF h
  <2>5. nodes[addr].children # <<>> => Fanout(indexed, k, i) # 0
    BY <2>3 DEF IsNode
  <2> QED
    BY <1>3, <2>3, <2>4, <2>5 DEF IsNode, Arity
<1>8. nodes[Root].level = Len(levels) - 1
  <2>1. h - 1 \in 0..(h - 1) /\ h - 1 + 1 = h /\ 1 \in 1..1 /\ h - 1 \in 0..h
    BY <1>3
  <2>2. NodeAddr(indexed, h - 1, 1) = Root
    BY <1>3, <1>6, <2>1 DEF NodeAddr
  <2>3. IsNode(indexed, nodes[NodeAddr(indexed, h - 1, 1)], h - 1, 1)
    BY <1>1, <1>3, <2>1 DEF LevelsWritten
  <2> QED
    BY <1>3, <2>2, <2>3 DEF IsNode
<1>9. ASSUME NEW l \in DOMAIN levels
      PROVE LevelIsChained(nodes, LevelAddrs(levels, 0)[l], levels[l])
  <2> DEFINE k == l - 1
             first == Base(indexed, k)
  <2>1. /\ k \in 0..(h - 1) /\ k + 1 = l /\ l # 0 /\ LevelAddrs(levels, 0)[l] = first
        /\ first \in Nat
    <3>1. l \in 1..h
      BY <1>5
    <3>2. k \in 0..(h - 1) /\ k + 1 = l /\ l # 0 /\ k \in 0..h
      BY <1>3, <3>1
    <3> QED
      BY <1>3, <1>5, <3>1, <3>2
  <2>2. levels[l] = Entries(indexed, l)
    BY <1>1, <2>1 DEF Entries, TreeEntries, Planned
  <2>3. ASSUME NEW i \in 1..levels[l]
        PROVE  /\ nodes[first + i - 1].left = IF i = 1 THEN Undefined ELSE first + i - 2
               /\ nodes[first + i - 1].right = IF i = levels[l] THEN Undefined ELSE first + i
    <3>1. i \in 1..Entries(indexed, k + 1)
      BY <2>1, <2>2
    <3> HIDE DEF k
    <3>2. IsNode(indexed, nodes[NodeAddr(indexed, k, i)], k, i)
      BY <1>1, <2>1, <3>1 DEF LevelsWritten
    <3>3. NodeAddr(indexed, k, i) = first + i - 1
      BY DEF NodeAddr
    <3>4. first + i - 1 - 1 = first + i - 2 /\ first + i - 1 + 1 = first + i
      BY <2>1
    <3> HIDE DEF first
    <3> QED
      BY <2>1, <2>2, <3>2, <3>3, <3>4 DEF IsNode
  <2> QED
    BY <2>1, <2>3 DEF LevelIsChained
<1> QED
  BY <1>1, <1>3, <1>4, <1>7, <1>8, <1>9 DEF NodesFillReservation, LevelsWritten
-----------------------------------------------------------------------------
(* Looking a chunk up *)

\* The address that a lookup of `origin` is to come back with.
AddrOf(tree, origin) ==
    IF \E n \in 1..Total(tree) : tree.origins[n] = origin
    THEN NodeCount(Planned(tree)) + (CHOOSE n \in 1..Total(tree) : tree.origins[n] = origin) - 1
    ELSE Undefined

\* A lookup at the i-th node of level k: a chunk at `origin` is under the children still in
\* question.
SearchIsAt(tree, s, origin, k, i) ==
    /\ s \in [at : Nat, lt : Nat, rt : Nat]
    /\ s.at = NodeAddr(tree, k, i)
    /\ 1 <= s.lt /\ s.lt <= s.rt /\ s.rt <= Fanout(tree, k, i) + 1
    /\ \A n \in 1..Total(tree) :
           tree.origins[n] = origin =>
               /\ Start(tree, k, (i - 1) * Arity + s.lt) <= n
               /\ n < Start(tree, k, (i - 1) * Arity + s.rt)

SomewhereInTree(tree, s, origin) ==
    \E k \in 0..(Height(tree) - 1) : \E i \in 1..Entries(tree, k + 1) : SearchIsAt(tree, s, origin, k, i)

Looking ==
    /\ indexing # "written" => search = Idle /\ wanted = <<>>
    /\ search # Idle => /\ wanted \in Askable /\ found = Undefined
                        /\ SomewhereInTree(indexed, search, wanted)
    /\ search = Idle /\ wanted # <<>> => found = AddrOf(indexed, wanted)

\* A chunk has one origin, and an origin that is asked for belongs to a chunk if there are any.
LEMMA OriginsAreKeys ==
    ASSUME NEW tree, KeysAscend(tree)
    PROVE  /\ \A m, n \in 1..Total(tree) : tree.origins[m] = tree.origins[n] => m = n
           /\ \A n \in 1..Total(tree) : ChunkKey(tree.origins[n]) = KeyAt(tree, n)
           /\ Total(tree) # 0 => tree.origins[1] = [d \in DOMAIN tree.end |-> 0]
<1>1. Total(tree) \in Nat
  BY DEF KeysAscend, Total
<1>2. ASSUME NEW n \in 1..Total(tree) PROVE ChunkKey(tree.origins[n]) = KeyAt(tree, n)
  BY <1>1 DEF KeyAt, Total
<1>3. ASSUME NEW m \in 1..Total(tree), NEW n \in 1..Total(tree), tree.origins[m] = tree.origins[n]
      PROVE  m = n
  <2>1. m \in 1..(Total(tree) + 1) /\ n \in 1..(Total(tree) + 1)
    BY <1>1
  <2>2. KeyAt(tree, m) = KeyAt(tree, n)
    BY <1>2, <1>3
  <2>3. KeyLeq(KeyAt(tree, m), KeyAt(tree, n)) /\ KeyLeq(KeyAt(tree, n), KeyAt(tree, m))
    BY <2>2 DEF KeyLeq
  <2>4. m <= n /\ n <= m
    BY <2>1, <2>3, KeysInOrder
  <2> QED
    BY <2>4
<1>4. ASSUME Total(tree) # 0 PROVE tree.origins[1] = [d \in DOMAIN tree.end |-> 0]
  <2>1. PICK n \in Nat \ {0} :
          /\ tree.end \in [1..n -> Nat]
          /\ tree.origins # <<>> => tree.origins[1] = [d \in 1..n |-> 0]
    BY DEF KeysAscend
  <2>2. tree.origins # <<>>
    BY <1>4 DEF Total
  <2>3. DOMAIN tree.end = 1..n
    BY <2>1
  <2> QED
    BY <2>1, <2>2, <2>3
<1> QED
  BY <1>2, <1>3, <1>4

\* The nodes that a tree is made of, once it is written.
LEMMA WrittenNodes ==
    ASSUME Building, indexing = "written"
    PROVE  /\ LevelsWritten(indexed, nodes, Height(indexed))
           /\ KeysAscend(indexed) /\ Total(indexed) \in Nat
           /\ Height(indexed) \in Nat \ {0} /\ Arity \in Nat \ {0}
           /\ Entries(indexed, Height(indexed)) = 1
           /\ Root = NodeAddr(indexed, Height(indexed) - 1, 1)
           /\ \A k \in 0..(Height(indexed) - 1) : \A i \in 1..Entries(indexed, k + 1) :
                  /\ NodeAddr(indexed, k, i) \in Nat
                  /\ IsNode(indexed, nodes[NodeAddr(indexed, k, i)], k, i)
<1> DEFINE h == Height(indexed)
<1>1. levels = Planned(indexed) /\ LevelsWritten(indexed, nodes, h)
  BY DEF Building
<1>2. Total(indexed) \in Nat /\ KeysAscend(indexed)
  BY DatasetFacts
<1>3. /\ h \in Nat \ {0} /\ Entries(indexed, h) = 1 /\ Arity \in Nat \ {0}
      /\ Planned(indexed) \in Seq(Nat) /\ Len(levels) = h
      /\ \A k \in 0..h : Base(indexed, k) \in Nat
  BY <1>1, <1>2, EntriesAre DEF Height, TreeHeight, Planned
<1> HIDE DEF h
<1>4. ASSUME NEW k \in 0..(h - 1), NEW i \in 1..Entries(indexed, k + 1)
      PROVE  /\ NodeAddr(indexed, k, i) \in Nat
             /\ IsNode(indexed, nodes[NodeAddr(indexed, k, i)], k, i)
  <2>1. NodeAddr(indexed, k, i) \in DOMAIN nodes /\ DOMAIN nodes = 0..(Base(indexed, h) - 1)
    BY <1>1 DEF LevelsWritten
  <2>2. IsNode(indexed, nodes[NodeAddr(indexed, k, i)], k, i)
    BY <1>1 DEF LevelsWritten
  <2>3. NodeAddr(indexed, k, i) \in Nat
    BY <2>1
  <2> QED
    BY <2>2, <2>3
<1>5. Root = NodeAddr(indexed, h - 1, 1)
  <2>1. DOMAIN levels = 1..h /\ h \in 1..h /\ h - 1 \in 0..h
    BY <1>1, <1>3
  <2> DEFINE addrs == LevelAddrs(levels, 0)
  <2>2. DOMAIN addrs = 1..h /\ addrs[h] = 0 + Base(indexed, h - 1)
    BY <1>1, <2>1 DEF LevelAddrs, Base, TreeBase, Planned
  <2>3. Len(addrs) = h
    <3>1. \A l \in 1..h : addrs[l] \in Nat
      <4> SUFFICES ASSUME NEW l \in 1..h PROVE addrs[l] \in Nat
        OBVIOUS
      <4>1. l - 1 \in 0..h /\ addrs[l] = 0 + Base(indexed, l - 1)
        BY <1>1, <1>3, <2>1 DEF LevelAddrs, Base, TreeBase, Planned
      <4> QED
        BY <1>3, <4>1
    <3>2. addrs = [l \in 1..h |-> addrs[l]]
      BY <2>1 DEF LevelAddrs
    <3> HIDE DEF addrs
    <3>3. addrs \in [1..h -> Nat]
      BY <3>1, <3>2
    <3> QED
      BY <1>3, <3>3
  <2>4. Root = addrs[h]
    BY <2>3 DEF Root, RootAddr, Last
  <2>5. Base(indexed, h - 1) \in Nat
    BY <1>3, <2>1
  <2> HIDE DEF addrs
  <2> QED
    BY <2>2, <2>4, <2>5 DEF NodeAddr
<1> QED
  BY <1>1, <1>2, <1>3, <1>4, <1>5 DEF h

\* Entering a node: all its children are in question.
LEMMA NodeIsEntered ==
    ASSUME Building, indexing = "written",
           NEW k \in 0..(Height(indexed) - 1), NEW i \in 1..Entries(indexed, k + 1), NEW origin,
           \A n \in 1..Total(indexed) :
               indexed.origins[n] = origin =>
                   Start(indexed, k + 1, i) <= n /\ n < Start(indexed, k + 1, i + 1)
    PROVE  SomewhereInTree(indexed, Enter(NodeAddr(indexed, k, i)), origin)
           /\ Enter(NodeAddr(indexed, k, i)) # Idle
<1> DEFINE s == Enter(NodeAddr(indexed, k, i))
           n == Fanout(indexed, k, i)
<1>1. /\ NodeAddr(indexed, k, i) \in Nat /\ Total(indexed) \in Nat /\ Arity \in Nat
      /\ IsNode(indexed, nodes[NodeAddr(indexed, k, i)], k, i)
  BY WrittenNodes
<1>2. /\ n \in 0..Arity /\ (i - 1) * Arity \in Nat
      /\ Start(indexed, k, (i - 1) * Arity + 1) = Start(indexed, k + 1, i)
      /\ Start(indexed, k, (i - 1) * Arity + n + 1) = Start(indexed, k + 1, i + 1)
  BY <1>1, FanoutIs
<1>3. s = [at |-> NodeAddr(indexed, k, i), lt |-> 1, rt |-> n + 1]
  BY <1>1 DEF Enter, SearchFrom, IsNode
<1> HIDE DEF s, n
<1>4. /\ s \in [at : Nat, lt : Nat, rt : Nat] /\ s.at = NodeAddr(indexed, k, i) /\ s.lt = 1
      /\ s.rt = n + 1
  BY <1>1, <1>2, <1>3
<1>5. (i - 1) * Arity + (n + 1) = (i - 1) * Arity + n + 1
  BY <1>2
<1>6. SearchIsAt(indexed, s, origin, k, i)
  BY <1>1, <1>2, <1>4, <1>5 DEF SearchIsAt, n
<1>7. s # Idle
  BY <1>4 DEF Idle
<1> QED
  BY <1>6, <1>7 DEF SomewhereInTree, s

LEMMA LookupStarts ==
    ASSUME Building, NEW origin \in Askable, StartSearch(origin)
    PROVE  Looking'
<1>1. /\ indexing = "written" /\ indexing' = indexing /\ indexed' = indexed
      /\ search' = Enter(Root) /\ wanted' = origin /\ found' = Undefined
  BY DEF StartSearch, writing
<1> DEFINE h == Height(indexed)
           k == h - 1
<1>2. /\ Total(indexed) \in Nat /\ h \in Nat \ {0} /\ Entries(indexed, h) = 1
      /\ Root = NodeAddr(indexed, h - 1, 1)
  BY <1>1, WrittenNodes
<1>3. k \in 0..(h - 1) /\ k + 1 = h /\ 1 \in 1..Entries(indexed, k + 1) /\ h \in 0..h
  BY <1>2
<1>4. Start(indexed, h, 1) = 1 /\ Start(indexed, h, Entries(indexed, h) + 1) = Total(indexed) + 1
  BY <1>2, <1>3, StartsAre
<1>5. Start(indexed, k + 1, 1) = 1 /\ Start(indexed, k + 1, 1 + 1) = Total(indexed) + 1
  BY <1>2, <1>3, <1>4
<1>6. \A n \in 1..Total(indexed) : Start(indexed, k + 1, 1) <= n /\ n < Start(indexed, k + 1, 1 + 1)
  BY <1>2, <1>5
<1>7. SomewhereInTree(indexed, Enter(NodeAddr(indexed, k, 1)), origin)
      /\ Enter(NodeAddr(indexed, k, 1)) # Idle
  <2> HIDE DEF k
  <2> QED
    BY <1>1, <1>3, <1>6, NodeIsEntered DEF k
<1>8. SomewhereInTree(indexed, search', wanted') /\ search' # Idle
  BY <1>1, <1>2, <1>7
<1>9. Askable' = Askable
  BY <1>1 DEF Askable, Origins
<1> QED
  BY <1>1, <1>8, <1>9 DEF Looking

\* What a lookup has in hand when it probes a child.
LEMMA Probing ==
    ASSUME Building, Looking, search # Idle, ~Exhausted(search)
    PROVE  \E k \in 0..(Height(indexed) - 1) : \E i \in 1..Entries(indexed, k + 1) :
           \E n \in 1..Total(indexed) :
               LET m == (i - 1) * Arity + Probed(search)
               IN  /\ SearchIsAt(indexed, search, wanted, k, i)
                   /\ wanted = indexed.origins[n]
                   /\ \A u \in 1..Total(indexed) : indexed.origins[u] = wanted => u = n
                   /\ search.lt <= Probed(search) /\ Probed(search) < search.rt
                   /\ m \in 1..Entries(indexed, k)
                   /\ nodes[search.at].level = k
                   /\ Child = EntryAddr(indexed, k, m)
                   /\ KeyLess(Key, LowerKey) <=> n < Start(indexed, k, m)
                   /\ KeyLeq(LowerKey, Key) <=> Start(indexed, k, m) <= n
                   /\ KeyLeq(UpperKey, Key) <=> Start(indexed, k, m + 1) <= n
                   /\ KeyLess(Key, UpperKey) <=> n < Start(indexed, k, m + 1)
<1>0. indexing = "written" /\ wanted \in Askable /\ SomewhereInTree(indexed, search, wanted)
  BY DEF Looking
<1>1. PICK k \in 0..(Height(indexed) - 1) :
        \E i \in 1..Entries(indexed, k + 1) : SearchIsAt(indexed, search, wanted, k, i)
  BY <1>0 DEF SomewhereInTree
<1>2. PICK i \in 1..Entries(indexed, k + 1) : SearchIsAt(indexed, search, wanted, k, i)
  BY <1>1
<1> DEFINE f == (i - 1) * Arity
           p == Probed(search)
           e == Fanout(indexed, k, i)
           m == f + p
           node == nodes[search.at]
<1>3. /\ Total(indexed) \in Nat /\ KeysAscend(indexed) /\ Arity \in Nat \ {0}
      /\ Height(indexed) \in Nat
      /\ IsNode(indexed, nodes[NodeAddr(indexed, k, i)], k, i)
  BY <1>0, WrittenNodes
<1>4. /\ e \in 0..Arity /\ f \in Nat /\ f + e <= Entries(indexed, k)
      /\ e = 0 <=> Total(indexed) = 0
  BY <1>3, FanoutIs
<1>5. /\ search \in [at : Nat, lt : Nat, rt : Nat] /\ search.at = NodeAddr(indexed, k, i)
      /\ 1 <= search.lt /\ search.rt <= e + 1 /\ search.lt < search.rt
  BY <1>2 DEF SearchIsAt, Exhausted
<1>6. search.lt <= p /\ p < search.rt /\ p \in Nat
  <2> DEFINE a == search.lt
             b == search.rt
  <2>1. a \in Nat /\ b \in Nat /\ a < b
    BY <1>5
  <2> HIDE DEF a, b
  <2>2. (a + b) \div 2 >= a /\ (a + b) \div 2 < b /\ (a + b) \div 2 \in Nat
    BY <2>1
  <2> QED
    BY <2>2 DEF Probed, a, b
<1> HIDE DEF f, p, e
<1>7. p \in 1..e /\ e # 0 /\ Total(indexed) # 0 /\ m \in 1..Entries(indexed, k) /\ m \in Nat \ {0}
  <2>1. Entries(indexed, k) \in Nat
    <3>1. k \in 0..Height(indexed)
      BY <1>3
    <3> QED
      BY <1>3, <3>1, EntriesAre
  <2> QED
    BY <1>4, <1>5, <1>6, <2>1
<1>8. PICK n \in 1..Total(indexed) : wanted = indexed.origins[n]
  <2>1. DOMAIN indexed.origins = 1..Total(indexed)
    BY DatasetFacts DEF KeysAscend, Total
  <2>2. CASE wanted \in Range(Origins)
    BY <2>1, <2>2 DEF Range, Origins
  <2>3. CASE wanted = [d \in DOMAIN indexed.end |-> 0]
    <3>1. wanted = indexed.origins[1] /\ 1 \in 1..Total(indexed)
      BY <1>3, <1>7, <2>3, OriginsAreKeys
    <3> QED
      BY <3>1
  <2> QED
    BY <1>0, <2>2, <2>3 DEF Askable
<1>9. /\ \A u \in 1..Total(indexed) : indexed.origins[u] = wanted => u = n
      /\ Key = KeyAt(indexed, n)
  BY <1>3, <1>8, OriginsAreKeys DEF Key
<1>10. /\ node.level = k
       /\ \A j \in 1..e : node.children[j] = EntryAddr(indexed, k, f + j)
       /\ \A j \in 1..(e + 1) : node.keys[j] = EntryKey(indexed, k, f + j)
  BY <1>3, <1>5, <1>7 DEF IsNode, e, f
<1>11. Child = EntryAddr(indexed, k, m)
  BY <1>7, <1>10 DEF Child, p
<1>12. LowerKey = KeyAt(indexed, Start(indexed, k, m))
  <2>1. p \in 1..(e + 1)
    BY <1>4, <1>7
  <2> QED
    BY <1>10, <2>1 DEF LowerKey, p, EntryKey
<1>13. UpperKey = KeyAt(indexed, Start(indexed, k, m + 1))
  <2>1. p + 1 \in 1..(e + 1) /\ f + (p + 1) = m + 1
    BY <1>4, <1>7
  <2>2. node.keys[p + 1] = EntryKey(indexed, k, m + 1)
    BY <1>10, <2>1
  <2> QED
    BY <2>2 DEF UpperKey, p, EntryKey
<1> DEFINE a == Start(indexed, k, m)
           b == Start(indexed, k, m + 1)
<1>14. /\ a \in 1..(Total(indexed) + 1) /\ b \in 1..(Total(indexed) + 1)
       /\ n \in 1..(Total(indexed) + 1)
  <2>1. m \in Nat \ {0} /\ m + 1 \in Nat \ {0} /\ k \in 0..Height(indexed)
    BY <1>3, <1>7
  <2> HIDE DEF m
  <2>2. a \in 1..(Total(indexed) + 1) /\ b \in 1..(Total(indexed) + 1)
    BY <1>3, <2>1, StartsAre
  <2> QED
    BY <1>3, <2>2
<1> HIDE DEF a, b
<1>15. /\ KeyLess(KeyAt(indexed, n), KeyAt(indexed, a)) <=> n < a
       /\ KeyLeq(KeyAt(indexed, a), KeyAt(indexed, n)) <=> a <= n
       /\ KeyLeq(KeyAt(indexed, b), KeyAt(indexed, n)) <=> b <= n
       /\ KeyLess(KeyAt(indexed, n), KeyAt(indexed, b)) <=> n < b
  BY <1>3, <1>14, KeysInOrder
<1>16. LowerKey = KeyAt(indexed, a) /\ UpperKey = KeyAt(indexed, b)
  BY <1>12, <1>13 DEF a, b
<1>17. /\ KeyLess(Key, LowerKey) <=> n < a
       /\ KeyLeq(LowerKey, Key) <=> a <= n
       /\ KeyLeq(UpperKey, Key) <=> b <= n
       /\ KeyLess(Key, UpperKey) <=> n < b
  BY <1>9, <1>15, <1>16
<1> QED
  BY <1>2, <1>6, <1>7, <1>8, <1>9, <1>10, <1>11, <1>17 DEF a, b, f, p
LEMMA LookupProbes ==
    ASSUME Building, Looking, Probe
    PROVE  Looking'
<1>1. /\ search # Idle /\ ~Exhausted(search)
      /\ indexed' = indexed /\ indexing' = indexing /\ wanted' = wanted
  BY DEF Probe, writing
<1>2. indexing = "written" /\ wanted \in Askable /\ found = Undefined
  BY <1>1 DEF Looking
<1>3. PICK k \in 0..(Height(indexed) - 1) : \E i \in 1..Entries(indexed, k + 1) :
           \E n \in 1..Total(indexed) :
               LET m == (i - 1) * Arity + Probed(search)
               IN  /\ SearchIsAt(indexed, search, wanted, k, i)
                   /\ wanted = indexed.origins[n]
                   /\ \A u \in 1..Total(indexed) : indexed.origins[u] = wanted => u = n
                   /\ search.lt <= Probed(search) /\ Probed(search) < search.rt
                   /\ m \in 1..Entries(indexed, k)
                   /\ nodes[search.at].level = k
                   /\ Child = EntryAddr(indexed, k, m)
                   /\ KeyLess(Key, LowerKey) <=> n < Start(indexed, k, m)
                   /\ KeyLeq(LowerKey, Key) <=> Start(indexed, k, m) <= n
                   /\ KeyLeq(UpperKey, Key) <=> Start(indexed, k, m + 1) <= n
                   /\ KeyLess(Key, UpperKey) <=> n < Start(indexed, k, m + 1)
  BY <1>1, Probing
<1>4. PICK i \in 1..Entries(indexed, k + 1) : \E n \in 1..Total(indexed) :
               LET m == (i - 1) * Arity + Probed(search)
               IN  /\ SearchIsAt(indexed, search, wanted, k, i)
                   /\ wanted = indexed.origins[n]
                   /\ \A u \in 1..Total(indexed) : indexed.origins[u] = wanted => u = n
                   /\ search.lt <= Probed(search) /\ Probed(search) < search.rt
                   /\ m \in 1..Entries(indexed, k)
                   /\ nodes[search.at].level = k
                   /\ Child = EntryAddr(indexed, k, m)
                   /\ KeyLess(Key, LowerKey) <=> n < Start(indexed, k, m)
                   /\ KeyLeq(LowerKey, Key) <=> Start(indexed, k, m) <= n
                   /\ KeyLeq(UpperKey, Key) <=> Start(indexed, k, m + 1) <= n
                   /\ KeyLess(Key, UpperKey) <=> n < Start(indexed, k, m + 1)
  BY <1>3
<1> DEFINE f == (i - 1) * Arity
           p == Probed(search)
           m == f + p
           h == Height(indexed)
           total == Total(indexed)
<1>5. PICK n \in 1..total :
                   /\ SearchIsAt(indexed, search, wanted, k, i)
                   /\ wanted = indexed.origins[n]
                   /\ \A u \in 1..total : indexed.origins[u] = wanted => u = n
                   /\ search.lt <= p /\ p < search.rt
                   /\ m \in 1..Entries(indexed, k)
                   /\ nodes[search.at].level = k
                   /\ Child = EntryAddr(indexed, k, m)
                   /\ KeyLess(Key, LowerKey) <=> n < Start(indexed, k, m)
                   /\ KeyLeq(LowerKey, Key) <=> Start(indexed, k, m) <= n
                   /\ KeyLeq(UpperKey, Key) <=> Start(indexed, k, m + 1) <= n
                   /\ KeyLess(Key, UpperKey) <=> n < Start(indexed, k, m + 1)
  BY <1>4
<1>6. /\ search \in [at : Nat, lt : Nat, rt : Nat] /\ search.at = NodeAddr(indexed, k, i)
      /\ 1 <= search.lt /\ search.rt <= Fanout(indexed, k, i) + 1
      /\ Start(indexed, k, f + search.lt) <= n /\ n < Start(indexed, k, f + search.rt)
  BY <1>5 DEF SearchIsAt
<1>7. /\ total \in Nat /\ h \in Nat \ {0} /\ Arity \in Nat \ {0}
  BY <1>2, WrittenNodes
<1>8. Askable' = Askable
  BY <1>1 DEF Askable, Origins
<1>9. p \in Nat /\ f \in Nat /\ Fanout(indexed, k, i) \in Nat
  <2>1. Fanout(indexed, k, i) \in 0..Arity /\ f \in Nat
    BY <1>7, FanoutIs
  <2>2. p \in Int
    BY <1>6 DEF Probed
  <2> QED
    BY <1>5, <1>6, <1>7, <2>1, <2>2
<1> HIDE DEF f, p, h, total
\* The lookup stays at its node and drops the children that cannot be meant.
<1>10. ASSUME NEW s \in [at : Nat, lt : Nat, rt : Nat], search' = s, found' = found,
              s.at = search.at, 1 <= s.lt, s.lt <= s.rt, s.rt <= search.rt,
              Start(indexed, k, f + s.lt) <= n, n < Start(indexed, k, f + s.rt)
       PROVE  Looking'
  <2>1. s.rt <= Fanout(indexed, k, i) + 1
    BY <1>6, <1>9, <1>10
  <2>2. \A u \in 1..total : indexed.origins[u] = wanted =>
            Start(indexed, k, f + s.lt) <= u /\ u < Start(indexed, k, f + s.rt)
    BY <1>5, <1>10
  <2>3. SearchIsAt(indexed, s, wanted, k, i)
    BY <1>6, <1>10, <2>1, <2>2 DEF SearchIsAt, f, total
  <2>4. s # Idle
    BY <1>10 DEF Idle
  <2>5. SomewhereInTree(indexed, s, wanted)
    BY <2>3 DEF SomewhereInTree
  <2> QED
    BY <1>1, <1>2, <1>8, <1>10, <2>4, <2>5 DEF Looking
<1>11. CASE KeyLess(Key, LowerKey) /\ search' = GoLeft(search) /\ found' = found
  <2> DEFINE s == [search EXCEPT !.rt = p]
  <2>1. search' = s
    BY <1>11 DEF GoLeft, p
  <2>2. /\ s \in [at : Nat, lt : Nat, rt : Nat] /\ s.at = search.at /\ s.lt = search.lt
        /\ s.rt = p
    BY <1>6, <1>9
  <2> HIDE DEF s
  <2>3. n < Start(indexed, k, f + s.rt)
    BY <1>5, <1>11, <2>2 DEF m
  <2>4. s.lt <= s.rt /\ s.rt <= search.rt
    BY <1>5, <1>6, <1>9, <2>2
  <2> QED
    BY <1>6, <1>10, <1>11, <2>1, <2>2, <2>3, <2>4
<1>12. CASE KeyLeq(UpperKey, Key) /\ search' = GoRight(search) /\ found' = found
  <2> DEFINE s == [search EXCEPT !.lt = p + 1]
  <2>1. search' = s
    BY <1>12 DEF GoRight, p
  <2>2. /\ s \in [at : Nat, lt : Nat, rt : Nat] /\ s.at = search.at /\ s.lt = p + 1
        /\ s.rt = search.rt
    BY <1>6, <1>9
  <2> HIDE DEF s
  <2>3. Start(indexed, k, f + s.lt) <= n
    <3>1. f + s.lt = m + 1
      BY <1>9, <2>2
    <3> QED
      BY <1>5, <1>12, <3>1
  <2>4. 1 <= s.lt /\ s.lt <= s.rt /\ s.rt <= search.rt
    BY <1>5, <1>6, <1>9, <2>2
  <2> QED
    BY <1>6, <1>10, <1>12, <2>1, <2>2, <2>3, <2>4
<1>13. CASE /\ KeyLeq(LowerKey, Key) /\ KeyLess(Key, UpperKey)
            /\ nodes[search.at].level > 0
            /\ search' = Enter(Child) /\ found' = found
  <2>1. k # 0
    BY <1>5, <1>13
  <2>2. k - 1 \in 0..(h - 1) /\ k - 1 + 1 = k
    BY <1>7, <2>1 DEF h
  <2>3. m \in 1..Entries(indexed, k - 1 + 1)
    BY <1>5, <2>2
  <2>4. Child = NodeAddr(indexed, k - 1, m)
    BY <1>5, <2>1 DEF EntryAddr
  <2>5. Start(indexed, k, m) <= n /\ n < Start(indexed, k, m + 1)
    BY <1>5, <1>13
  <2>6. \A u \in 1..Total(indexed) : indexed.origins[u] = wanted =>
            Start(indexed, k - 1 + 1, m) <= u /\ u < Start(indexed, k - 1 + 1, m + 1)
    BY <1>5, <2>2, <2>5 DEF total
  <2> DEFINE j == k - 1
  <2> HIDE DEF j, m
  <2>7. /\ SomewhereInTree(indexed, Enter(NodeAddr(indexed, j, m)), wanted)
        /\ Enter(NodeAddr(indexed, j, m)) # Idle
    BY <1>2, <2>2, <2>3, <2>6, NodeIsEntered DEF j, h
  <2>8. SomewhereInTree(indexed, search', wanted) /\ search' # Idle
    BY <1>13, <2>4, <2>7 DEF j
  <2> QED
    BY <1>1, <1>2, <1>8, <1>13, <2>8 DEF Looking
<1>14. CASE /\ KeyLeq(LowerKey, Key) /\ KeyLess(Key, UpperKey)
            /\ nodes[search.at].level = 0
            /\ search' = Idle /\ found' = Child
  <2>1. k = 0 /\ Child = NodeCount(Planned(indexed)) + m - 1 /\ m \in 1..total
    BY <1>5, <1>14 DEF EntryAddr, Entries, total, TreeEntries, Planned
  <2>2. Start(indexed, 0, m) = m /\ Start(indexed, 0, m + 1) = m + 1
    <3>1. m \in 1..(total + 1) /\ m + 1 \in 1..(total + 1)
      BY <1>7, <2>1
    <3> HIDE DEF m
    <3>2. \A u \in 1..(total + 1) : Start(indexed, 0, u) = u
      BY <1>7, StartsAre DEF total
    <3>3. \A u \in 1..(total + 1) : u = m + 1 => Start(indexed, 0, u) = m + 1
      BY <3>2
    <3> QED
      BY <3>1, <3>2, <3>3
  <2>3. m = n
    BY <1>5, <1>7, <1>14, <2>1, <2>2
  <2>4. (CHOOSE u \in 1..total : indexed.origins[u] = wanted) = n
    <3> DEFINE c == CHOOSE u \in 1..total : indexed.origins[u] = wanted
    <3>1. \E u \in 1..total : indexed.origins[u] = wanted
      BY <1>5
    <3>2. c \in 1..total /\ indexed.origins[c] = wanted
      BY <3>1
    <3> HIDE DEF c
    <3>3. c = n
      BY <1>5, <3>2
    <3> QED
      BY <3>3 DEF c
  <2>5. AddrOf(indexed, wanted) = NodeCount(Planned(indexed)) + n - 1
    BY <1>5, <2>4 DEF AddrOf, total
  <2>6. found' = AddrOf(indexed, wanted)
    BY <1>14, <2>1, <2>3, <2>5
  <2> QED
    BY <1>1, <1>2, <1>14, <2>6 DEF Looking
<1>15. \/ KeyLess(Key, LowerKey) /\ search' = GoLeft(search) /\ found' = found
       \/ KeyLeq(UpperKey, Key) /\ search' = GoRight(search) /\ found' = found
       \/ /\ KeyLeq(LowerKey, Key) /\ KeyLess(Key, UpperKey)
          /\ nodes[search.at].level > 0
          /\ search' = Enter(Child) /\ found' = found
       \/ /\ KeyLeq(LowerKey, Key) /\ KeyLess(Key, UpperKey)
          /\ nodes[search.at].level = 0
          /\ search' = Idle /\ found' = Child
  BY DEF Probe
<1> QED
  BY <1>11, <1>12, <1>13, <1>14, <1>15

\* No child is left: no chunk has the origin that was asked for.
LEMMA LookupGivesUp ==
    ASSUME Building, Looking, GiveUp
    PROVE  Looking'
<1>1. /\ search # Idle /\ Exhausted(search) /\ search' = Idle /\ found' = found
      /\ indexed' = indexed /\ indexing' = indexing /\ wanted' = wanted
  BY DEF GiveUp, writing
<1>2. indexing = "written" /\ found = Undefined /\ SomewhereInTree(indexed, search, wanted)
  BY <1>1 DEF Looking
<1>3. PICK k \in 0..(Height(indexed) - 1) :
        \E i \in 1..Entries(indexed, k + 1) : SearchIsAt(indexed, search, wanted, k, i)
  BY <1>2 DEF SomewhereInTree
<1>4. PICK i \in 1..Entries(indexed, k + 1) : SearchIsAt(indexed, search, wanted, k, i)
  BY <1>3
<1>5. search \in [at : Nat, lt : Nat, rt : Nat] /\ search.lt = search.rt
  BY <1>1, <1>4 DEF SearchIsAt, Exhausted
<1>6. ~\E n \in 1..Total(indexed) : indexed.origins[n] = wanted
  <2> SUFFICES ASSUME NEW n \in 1..Total(indexed), indexed.origins[n] = wanted PROVE FALSE
    OBVIOUS
  <2> DEFINE a == Start(indexed, k, (i - 1) * Arity + search.rt)
  <2>1. a <= n /\ n < a
    BY <1>4, <1>5 DEF SearchIsAt
  <2>2. a \in Nat
    <3>1. /\ Total(indexed) \in Nat /\ Arity \in Nat /\ Height(indexed) \in Nat
      BY <1>2, WrittenNodes
    <3>2. (i - 1) * Arity \in Nat /\ k \in 0..Height(indexed)
      BY <3>1, FanoutIs
    <3> DEFINE m == (i - 1) * Arity + search.rt
    <3>3. m \in Nat \ {0}
      BY <1>4, <1>5, <3>2 DEF SearchIsAt
    <3> HIDE DEF m
    <3>4. Start(indexed, k, m) \in 1..(Total(indexed) + 1)
      BY <3>1, <3>2, <3>3, StartsAre
    <3> QED
      BY <3>1, <3>4 DEF m
  <2> HIDE DEF a
  <2> QED
    BY <2>1, <2>2
<1>7. found' = AddrOf(indexed, wanted)
  BY <1>1, <1>2, <1>6 DEF AddrOf
<1> QED
  BY <1>1, <1>2, <1>7 DEF Looking

LEMMA LookingHolds ==
    ASSUME Building, Looking, [IndexNext]_indexVars
    PROVE  Looking'
<1>1. ASSUME NEW origin \in Askable, StartSearch(origin) PROVE Looking'
  BY <1>1, LookupStarts
<1>2. CASE Probe
  BY <1>2, LookupProbes
<1>3. CASE GiveUp
  BY <1>3, LookupGivesUp
<1>4. CASE UNCHANGED <<indexed, indexing, seeking>>
  <2>1. /\ indexed' = indexed /\ indexing' = indexing /\ search' = search /\ wanted' = wanted
        /\ found' = found
    BY <1>4 DEF seeking
  <2>2. Askable' = Askable
    BY <2>1 DEF Askable, Origins
  <2> QED
    BY <2>1, <2>2 DEF Looking
<1>5. CASE indexing # "written" /\ UNCHANGED seeking
  <2>1. search = Idle /\ wanted = <<>> /\ search' = Idle /\ wanted' = <<>>
    BY <1>5 DEF Looking, seeking
  <2> QED
    BY <2>1 DEF Looking
<1>6. Plan \/ RefuseGrid \/ WriteLevel => indexing # "written" /\ UNCHANGED seeking
  BY DEF Plan, RefuseGrid, WriteLevel
<1>7. StartCollect \/ CollectLeaf \/ CollectInternal => UNCHANGED <<indexed, indexing, seeking>>
  BY DEF StartCollect, CollectLeaf, CollectInternal, writing
<1>8. indexVars' = indexVars => UNCHANGED <<indexed, indexing, seeking>>
  BY DEF indexVars, writing
<1> QED
  BY <1>1, <1>2, <1>3, <1>4, <1>5, <1>6, <1>7, <1>8 DEF IndexNext

LEMMA LookedUpIsFound ==
    ASSUME Building, Looking
    PROVE  EveryChunkFound
<1> SUFFICES ASSUME indexing = "written", search = Idle, wanted # <<>> PROVE EveryChunkFound
  BY DEF EveryChunkFound
<1>1. found = AddrOf(indexed, wanted)
  BY DEF Looking
<1>2. DOMAIN Origins = 1..Total(indexed) /\ Origins = indexed.origins
  BY DatasetFacts DEF KeysAscend, Origins, Total
<1>3. PlannedLevels = Planned(indexed)
  BY <1>2 DEF PlannedLevels, Planned, Total, Arity
<1> QED
  BY <1>1, <1>2, <1>3 DEF EveryChunkFound, AddrOf, ChunkAddr
-----------------------------------------------------------------------------
(* Collecting the chunks *)

\* The first chunks, as collect returns them.
Gathered(tree, done) ==
    [n \in 1..done |-> [offsets |-> tree.origins[n], address |-> NodeCount(Planned(tree)) + n - 1]]

\* A node to visit: the chunks under it are the ones from `from` up to `upto`.
IsVisit(tree, addr, from, upto) ==
    \E k \in 0..(Height(tree) - 1) : \E i \in 1..Entries(tree, k + 1) :
        /\ addr = NodeAddr(tree, k, i)
        /\ from = Start(tree, k + 1, i) /\ upto = Start(tree, k + 1, i + 1)

\* The nodes still to visit hold the chunks not gathered yet, in their order.
Covers(tree, todo, done, starts) ==
    /\ starts \in [1..(Len(todo) + 1) -> Nat]
    /\ starts[1] = done + 1 /\ starts[Len(todo) + 1] = Total(tree) + 1
    /\ \A j \in 1..Len(todo) : IsVisit(tree, todo[j], starts[j], starts[j + 1])

CollectedSoFar(tree, todo, gathered) ==
    \E done \in 0..Total(tree) :
        /\ gathered = Gathered(tree, done) /\ todo \in Seq(Nat)
        /\ \E starts : Covers(tree, todo, done, starts)

Collecting ==
    /\ indexing # "written" => visits = <<>> /\ records = <<>>
    /\ (visits = <<>> /\ records = <<>>) \/ CollectedSoFar(indexed, visits, records)

LEMMA FrontOfKey ==
    ASSUME NEW n \in Nat, NEW o \in [1..n -> Nat]
    PROVE  Front(ChunkKey(o)) = o
<1> DEFINE key == Append(o, 0)
           front == SubSeq(key, 1, Len(key) - 1)
<1>1. o \in Seq(Nat) /\ Len(o) = n
  OBVIOUS
<1>2. key \in Seq(Nat) /\ Len(key) = n + 1 /\ \A d \in 1..n : key[d] = o[d]
  <2>1. 0 \in Nat
    OBVIOUS
  <2> QED
    BY <1>1, <2>1, AppendProperties
<1>3. Front(ChunkKey(o)) = front
  BY DEF Front, ChunkKey
<1> HIDE DEF key
<1>4. Len(key) - 1 = n /\ \A d \in 1..n : key[d] \in Nat
  BY <1>2
<1>5. front \in Seq(Nat) /\ Len(front) = n /\ \A d \in 1..n : front[d] = o[d]
  <2> DEFINE s == SubSeq(key, 1, n)
  <2>1. /\ s \in Seq(Nat) /\ Len(s) = (IF 1 <= n THEN n - 1 + 1 ELSE 0)
        /\ \A d \in 1..(n - 1 + 1) : s[d] = key[1 + d - 1]
    BY <1>4, SubSeqProperties
  <2>2. front = s
    BY <1>4
  <2> HIDE DEF s, front
  <2>3. Len(s) = n
    BY <2>1
  <2>4. ASSUME NEW d \in 1..n PROVE s[d] = o[d]
    <3>1. d \in 1..(n - 1 + 1) /\ 1 + d - 1 = d
      OBVIOUS
    <3> QED
      BY <1>2, <2>1, <3>1
  <2> QED
    BY <2>1, <2>2, <2>3, <2>4
<1> HIDE DEF front
<1>6. front = o
  BY <1>1, <1>5, SeqEqual
<1> QED
  BY <1>3, <1>6

\* Chunks are gathered one after another.
LEMMA GatheredOn ==
    ASSUME NEW tree, KeysAscend(tree), NEW f \in Nat, NEW n \in Nat, f + n <= Total(tree),
           NEW more, more = [j \in 1..n |-> [offsets |-> tree.origins[f + j],
                                             address |-> NodeCount(Planned(tree)) + (f + j) - 1]]
    PROVE  Gathered(tree, f) \o more = Gathered(tree, f + n)
<1> DEFINE c == NodeCount(Planned(tree))
           items == more
<1>1. PICK dims \in Nat \ {0} : tree.origins \in Seq([1..dims -> Nat])
  BY DEF KeysAscend
<1>2. Total(tree) \in Nat
  BY <1>1 DEF Total
<1>3. c \in Nat
  BY <1>2, EntriesAre DEF NodeCount, Base, Height, TreeBase, TreeHeight, Planned
<1> DEFINE O == [1..dims -> Nat]
           S == [offsets : O, address : Nat]
           all == Gathered(tree, f + n)
           old == Gathered(tree, f)
<1>4. \A m \in 1..Total(tree) : tree.origins[m] \in O
  BY <1>1 DEF Total
<1> HIDE DEF O, c
<1>5. \A m \in 1..Total(tree) : [offsets |-> tree.origins[m], address |-> c + m - 1] \in S
  BY <1>3, <1>4
<1>6. /\ old = [m \in 1..f |-> [offsets |-> tree.origins[m], address |-> c + m - 1]]
      /\ all = [m \in 1..(f + n) |-> [offsets |-> tree.origins[m], address |-> c + m - 1]]
      /\ items = [j \in 1..n |-> [offsets |-> tree.origins[f + j], address |-> c + (f + j) - 1]]
  BY DEF Gathered, c
<1> HIDE DEF S, old, all, items
<1>7. old \in Seq(S) /\ Len(old) = f
  <2>1. \A m \in 1..f : m \in 1..Total(tree)
    BY <1>2
  <2>2. old \in [1..f -> S]
    BY <1>5, <1>6, <2>1
  <2> QED
    BY <2>2
<1>8. all \in Seq(S) /\ Len(all) = f + n
  <2>1. \A m \in 1..(f + n) : m \in 1..Total(tree)
    BY <1>2
  <2>2. all \in [1..(f + n) -> S] /\ f + n \in Nat
    BY <1>5, <1>6, <2>1
  <2> QED
    BY <2>2
<1>9. items \in Seq(S) /\ Len(items) = n
  <2>1. \A j \in 1..n : f + j \in 1..Total(tree)
    BY <1>2
  <2>2. items \in [1..n -> S]
    BY <1>5, <1>6, <2>1
  <2> QED
    BY <2>2
<1> DEFINE both == old \o items
<1>10. /\ both \in Seq(S) /\ Len(both) = f + n
       /\ \A m \in 1..(f + n) : both[m] = IF m <= f THEN old[m] ELSE items[m - f]
  <2>1. /\ both \in Seq(S) /\ Len(both) = Len(old) + Len(items)
        /\ \A m \in 1..(Len(old) + Len(items)) :
               both[m] = IF m <= Len(old) THEN old[m] ELSE items[m - Len(old)]
    BY <1>7, <1>9, ConcatProperties
  <2> HIDE DEF both
  <2> QED
    BY <1>7, <1>9, <2>1
<1> HIDE DEF both
<1>11. ASSUME NEW m \in 1..(f + n) PROVE both[m] = all[m]
  <2>1. all[m] = [offsets |-> tree.origins[m], address |-> c + m - 1]
    BY <1>6
  <2>2. CASE m <= f
    <3>1. m \in 1..f
      BY <2>2
    <3> QED
      BY <1>6, <1>10, <2>1, <2>2, <3>1
  <2>3. CASE ~(m <= f)
    <3>1. m - f \in 1..n /\ f + (m - f) = m
      BY <2>3
    <3>2. items[m - f] = [offsets |-> tree.origins[f + (m - f)], address |-> c + (f + (m - f)) - 1]
      BY <1>6, <3>1
    <3> QED
      BY <1>10, <2>1, <2>3, <3>1, <3>2
  <2> QED
    BY <2>2, <2>3
<1>12. both = all
  BY <1>8, <1>10, <1>11, SeqEqual
<1> QED
  BY <1>12 DEF both, old, all, items

LEMMA CollectionStarts ==
    ASSUME Building, StartCollect
    PROVE  Collecting'
<1>1. /\ indexing = "written" /\ visits' = <<Root>> /\ records' = <<>>
      /\ indexed' = indexed /\ indexing' = indexing
  BY DEF StartCollect, writing
<1> DEFINE h == Height(indexed)
           starts == [j \in 1..2 |-> IF j = 1 THEN 1 ELSE Total(indexed) + 1]
           todo == <<Root>>
<1>2. /\ Total(indexed) \in Nat /\ h \in Nat \ {0} /\ Entries(indexed, h) = 1
      /\ Root = NodeAddr(indexed, h - 1, 1)
  BY <1>1, WrittenNodes
<1>3. h - 1 \in 0..(h - 1) /\ h - 1 + 1 = h /\ 1 \in 1..Entries(indexed, h - 1 + 1) /\ h \in 0..h
  BY <1>2
<1>4. NodeAddr(indexed, h - 1, 1) \in Nat
  BY <1>1, <1>3, WrittenNodes
<1>5. Start(indexed, h, 1) = 1 /\ Start(indexed, h, Entries(indexed, h) + 1) = Total(indexed) + 1
  BY <1>2, <1>3, StartsAre
<1>6. Start(indexed, h - 1 + 1, 1) = 1 /\ Start(indexed, h - 1 + 1, 1 + 1) = Total(indexed) + 1
  BY <1>2, <1>3, <1>5
<1>7. IsVisit(indexed, Root, 1, Total(indexed) + 1)
  BY <1>2, <1>3, <1>6 DEF IsVisit
<1>8. todo \in Seq(Nat) /\ Len(todo) = 1 /\ todo[1] = Root
  BY <1>2, <1>4
<1>9. starts \in [1..2 -> Nat] /\ starts[1] = 1 /\ starts[2] = Total(indexed) + 1
  BY <1>2
<1> HIDE DEF h, starts, todo
<1>10. Covers(indexed, todo, 0, starts)
  <2>1. 1 + 1 = 2 /\ 0 + 1 = 1 /\ \A j \in 1..1 : j = 1
    OBVIOUS
  <2> QED
    BY <1>7, <1>8, <1>9, <2>1 DEF Covers
<1>11. <<>> = Gathered(indexed, 0)
  <2>1. 1..0 = {}
    OBVIOUS
  <2> QED
    BY <2>1 DEF Gathered
<1>12. 0 \in 0..Total(indexed)
  BY <1>2
<1>13. CollectedSoFar(indexed, todo, <<>>)
  BY <1>8, <1>10, <1>11, <1>12 DEF CollectedSoFar
<1> QED
  BY <1>1, <1>13 DEF Collecting, todo

\* The next node to visit, and what a visit finds there.
LEMMA Visiting ==
    ASSUME Building, Collecting, visits # <<>>
    PROVE  /\ indexing = "written"
           /\ \E done, starts :
                  /\ done \in 0..Total(indexed)
                  /\ records = Gathered(indexed, done) /\ visits \in Seq(Nat)
                  /\ Covers(indexed, visits, done, starts)
                  /\ \E k \in 0..(Height(indexed) - 1) : \E i \in 1..Entries(indexed, k + 1) :
                         /\ IsNode(indexed, nodes[Head(visits)], k, i)
                         /\ starts[1] = Start(indexed, k + 1, i)
                         /\ starts[2] = Start(indexed, k + 1, i + 1)
<1>1. indexing = "written" /\ CollectedSoFar(indexed, visits, records)
  BY DEF Collecting
<1>2. PICK done \in 0..Total(indexed) :
        /\ records = Gathered(indexed, done) /\ visits \in Seq(Nat)
        /\ \E starts : Covers(indexed, visits, done, starts)
  BY <1>1 DEF CollectedSoFar
<1>3. PICK starts : Covers(indexed, visits, done, starts)
  BY <1>2
<1>4. Len(visits) \in Nat \ {0} /\ Head(visits) = visits[1]
  BY <1>2
<1>5. IsVisit(indexed, visits[1], starts[1], starts[2])
  <2>1. 1 \in 1..Len(visits) /\ 1 + 1 = 2
    BY <1>4
  <2> QED
    BY <1>3, <2>1 DEF Covers
<1>6. PICK k \in 0..(Height(indexed) - 1) : \E i \in 1..Entries(indexed, k + 1) :
        /\ visits[1] = NodeAddr(indexed, k, i)
        /\ starts[1] = Start(indexed, k + 1, i) /\ starts[2] = Start(indexed, k + 1, i + 1)
  BY <1>5 DEF IsVisit
<1>7. PICK i \in 1..Entries(indexed, k + 1) :
        /\ visits[1] = NodeAddr(indexed, k, i)
        /\ starts[1] = Start(indexed, k + 1, i) /\ starts[2] = Start(indexed, k + 1, i + 1)
  BY <1>6
<1>8. IsNode(indexed, nodes[Head(visits)], k, i)
  BY <1>1, <1>4, <1>7, WrittenNodes
<1> QED
  BY <1>1, <1>2, <1>3, <1>7, <1>8

LEMMA LeafIsCollected ==
    ASSUME Building, Collecting, CollectLeaf
    PROVE  Collecting'
<1> DEFINE node == nodes[Head(visits)]
           items == [j \in DOMAIN node.children |->
                        [offsets |-> Front(node.keys[j]), address |-> node.children[j]]]
<1>1. /\ visits # <<>> /\ node.level = 0 /\ records' = records \o items /\ visits' = Tail(visits)
      /\ indexed' = indexed /\ indexing' = indexing
  BY DEF CollectLeaf, writing
<1>2. indexing = "written"
  BY <1>1, Visiting
<1>3. PICK done, starts :
                  /\ done \in 0..Total(indexed)
                  /\ records = Gathered(indexed, done) /\ visits \in Seq(Nat)
                  /\ Covers(indexed, visits, done, starts)
                  /\ \E k \in 0..(Height(indexed) - 1) : \E i \in 1..Entries(indexed, k + 1) :
                         /\ IsNode(indexed, node, k, i)
                         /\ starts[1] = Start(indexed, k + 1, i)
                         /\ starts[2] = Start(indexed, k + 1, i + 1)
  BY <1>1, Visiting
<1>4. PICK k \in 0..(Height(indexed) - 1) : \E i \in 1..Entries(indexed, k + 1) :
                         /\ IsNode(indexed, node, k, i)
                         /\ starts[1] = Start(indexed, k + 1, i)
                         /\ starts[2] = Start(indexed, k + 1, i + 1)
  BY <1>3
<1>5. PICK i \in 1..Entries(indexed, k + 1) :
                         /\ IsNode(indexed, node, k, i)
                         /\ starts[1] = Start(indexed, k + 1, i)
                         /\ starts[2] = Start(indexed, k + 1, i + 1)
  BY <1>4
<1> DEFINE n == Fanout(indexed, k, i)
           f == (i - 1) * Arity
           total == Total(indexed)
<1>6. k = 0
  BY <1>1, <1>5 DEF IsNode
<1>7. total \in Nat /\ KeysAscend(indexed) /\ Arity \in Nat
  BY <1>2, WrittenNodes
<1>8. /\ n \in Nat /\ f \in Nat /\ f + n <= total
      /\ starts[1] = Start(indexed, 0, f + 1) /\ starts[2] = Start(indexed, 0, f + n + 1)
  <2>1. /\ n \in 0..Arity /\ f \in Nat /\ f + n <= Entries(indexed, k)
        /\ Start(indexed, k, f + 1) = Start(indexed, k + 1, i)
        /\ Start(indexed, k, f + n + 1) = Start(indexed, k + 1, i + 1)
    BY <1>7, FanoutIs
  <2>2. Entries(indexed, k) = total
    BY <1>6 DEF Entries, TreeEntries, Planned
  <2> HIDE DEF n, f
  <2> QED
    BY <1>5, <1>6, <1>7, <2>1, <2>2
<1>9. /\ node.children \in Seq(Nat) /\ Len(node.children) = n
      /\ \A j \in 1..n : node.children[j] = EntryAddr(indexed, 0, f + j)
      /\ n # 0 => \A j \in 1..(n + 1) : node.keys[j] = EntryKey(indexed, 0, f + j)
  BY <1>5, <1>6 DEF IsNode
<1> HIDE DEF n, f, node
<1>10. \A m \in 1..(total + 1) : Start(indexed, 0, m) = m
  BY <1>7, StartsAre
<1> HIDE DEF total
<1>11. starts[1] = f + 1 /\ starts[2] = f + n + 1 /\ done = f
  <2>1. f + 1 \in 1..(total + 1) /\ f + n + 1 \in 1..(total + 1)
    BY <1>7, <1>8
  <2>2. starts[1] = f + 1 /\ starts[2] = f + n + 1
    BY <1>8, <1>10, <2>1
  <2>3. starts[1] = done + 1
    BY <1>3 DEF Covers
  <2>4. done \in Nat
    BY <1>3
  <2> QED
    BY <1>7, <1>8, <2>2, <2>3, <2>4
<1>12. ASSUME NEW j \in 1..n
       PROVE  /\ Front(node.keys[j]) = indexed.origins[f + j]
              /\ node.children[j] = NodeCount(Planned(indexed)) + (f + j) - 1
  <2>1. f + j \in 1..total /\ f + j \in 1..(total + 1) /\ j \in 1..(n + 1) /\ n # 0
    BY <1>7, <1>8
  <2> DEFINE m == f + j
  <2>2. node.keys[j] = EntryKey(indexed, 0, m) /\ node.children[j] = EntryAddr(indexed, 0, m)
    BY <1>9, <2>1
  <2> HIDE DEF m
  <2>3. Start(indexed, 0, m) = m
    BY <1>10, <2>1 DEF m
  <2>4. node.keys[j] = ChunkKey(indexed.origins[m])
    <3>1. ChunkKey(indexed.origins[m]) = KeyAt(indexed, m)
      BY <1>7, <2>1, OriginsAreKeys DEF total, m
    <3> QED
      BY <2>2, <2>3, <3>1 DEF EntryKey
  <2>5. Front(node.keys[j]) = indexed.origins[m]
    <3>1. PICK dims \in Nat \ {0} : indexed.origins \in Seq([1..dims -> Nat])
      BY <1>7 DEF KeysAscend
    <3>2. indexed.origins[m] \in [1..dims -> Nat]
      BY <2>1, <3>1 DEF total, Total, m
    <3> QED
      BY <2>4, <3>2, FrontOfKey
  <2>6. node.children[j] = NodeCount(Planned(indexed)) + m - 1
    BY <2>2 DEF EntryAddr
  <2> QED
    BY <2>5, <2>6 DEF m
<1>13. items = [j \in 1..n |-> [offsets |-> indexed.origins[f + j],
                               address |-> NodeCount(Planned(indexed)) + (f + j) - 1]]
  <2>1. DOMAIN node.children = 1..n
    BY <1>9
  <2> QED
    BY <1>12, <2>1
<1> HIDE DEF items
<1>14. records' = Gathered(indexed, f + n)
  <2>1. Gathered(indexed, f) \o items = Gathered(indexed, f + n)
    BY <1>7, <1>8, <1>13, GatheredOn DEF total
  <2> QED
    BY <1>1, <1>3, <1>11, <2>1
<1> DEFINE todo == Tail(visits)
           rest == [j \in 1..(Len(todo) + 1) |-> starts[j + 1]]
<1>15. /\ Len(visits) \in Nat \ {0} /\ todo \in Seq(Nat) /\ Len(todo) = Len(visits) - 1
       /\ \A j \in 1..Len(todo) : todo[j] = visits[j + 1]
  BY <1>1, <1>3, HeadTailProperties
<1> HIDE DEF todo
<1>16. Covers(indexed, todo, f + n, rest)
  <2>1. \A j \in 1..(Len(todo) + 1) : j + 1 \in 1..(Len(visits) + 1)
    BY <1>15
  <2>2. starts \in [1..(Len(visits) + 1) -> Nat] /\ starts[Len(visits) + 1] = Total(indexed) + 1
        /\ \A j \in 1..Len(visits) : IsVisit(indexed, visits[j], starts[j], starts[j + 1])
    BY <1>3 DEF Covers
  <2>3. /\ rest \in [1..(Len(todo) + 1) -> Nat]
        /\ \A j \in 1..(Len(todo) + 1) : rest[j] = starts[j + 1]
    BY <2>1, <2>2
  <2> HIDE DEF rest
  <2>4. rest[1] = f + n + 1
    <3>1. 1 \in 1..(Len(todo) + 1) /\ 1 + 1 = 2
      BY <1>15
    <3> QED
      BY <1>11, <2>3, <3>1
  <2>5. rest[Len(todo) + 1] = Total(indexed) + 1
    <3>1. Len(todo) + 1 \in 1..(Len(todo) + 1) /\ Len(todo) + 1 + 1 = Len(visits) + 1
      BY <1>15
    <3> QED
      BY <2>2, <2>3, <3>1
  <2>6. ASSUME NEW j \in 1..Len(todo) PROVE IsVisit(indexed, todo[j], rest[j], rest[j + 1])
    <3>1. j + 1 \in 1..Len(visits) /\ j \in 1..(Len(todo) + 1) /\ j + 1 \in 1..(Len(todo) + 1)
      BY <1>15
    <3>2. todo[j] = visits[j + 1] /\ rest[j] = starts[j + 1] /\ rest[j + 1] = starts[j + 1 + 1]
      BY <1>15, <2>3, <3>1
    <3> QED
      BY <2>2, <3>1, <3>2
  <2> QED
    BY <2>3, <2>4, <2>5, <2>6 DEF Covers
<1>17. f + n \in 0..Total(indexed)
  BY <1>7, <1>8 DEF total
<1>18. CollectedSoFar(indexed, visits', records')
  BY <1>1, <1>14, <1>15, <1>16, <1>17 DEF CollectedSoFar, todo
<1> QED
  BY <1>1, <1>2, <1>18 DEF Collecting
LEMMA InternalIsCollected ==
    ASSUME Building, Collecting, CollectInternal
    PROVE  Collecting'
<1> DEFINE node == nodes[Head(visits)]
           rest == Tail(visits)
           todo == node.children \o rest
<1>1. /\ visits # <<>> /\ node.level > 0 /\ visits' = todo /\ records' = records
      /\ indexed' = indexed /\ indexing' = indexing
  BY DEF CollectInternal, writing
<1>2. indexing = "written"
  BY <1>1, Visiting
<1>3. PICK done, starts :
                  /\ done \in 0..Total(indexed)
                  /\ records = Gathered(indexed, done) /\ visits \in Seq(Nat)
                  /\ Covers(indexed, visits, done, starts)
                  /\ \E k \in 0..(Height(indexed) - 1) : \E i \in 1..Entries(indexed, k + 1) :
                         /\ IsNode(indexed, node, k, i)
                         /\ starts[1] = Start(indexed, k + 1, i)
                         /\ starts[2] = Start(indexed, k + 1, i + 1)
  BY <1>1, Visiting
<1>4. PICK k \in 0..(Height(indexed) - 1) : \E i \in 1..Entries(indexed, k + 1) :
                         /\ IsNode(indexed, node, k, i)
                         /\ starts[1] = Start(indexed, k + 1, i)
                         /\ starts[2] = Start(indexed, k + 1, i + 1)
  BY <1>3
<1>5. PICK i \in 1..Entries(indexed, k + 1) :
                         /\ IsNode(indexed, node, k, i)
                         /\ starts[1] = Start(indexed, k + 1, i)
                         /\ starts[2] = Start(indexed, k + 1, i + 1)
  BY <1>4
<1> DEFINE n == Fanout(indexed, k, i)
           f == (i - 1) * Arity
           q == Len(visits)
<1>6. k # 0
  BY <1>1, <1>5 DEF IsNode
<1>7. /\ Total(indexed) \in Nat /\ Height(indexed) \in Nat /\ Arity \in Nat
  BY <1>2, WrittenNodes
<1>8. /\ n \in Nat \ {0} /\ f \in Nat /\ f + n <= Entries(indexed, k)
      /\ starts[1] = Start(indexed, k, f + 1) /\ starts[2] = Start(indexed, k, f + n + 1)
  <2>1. /\ n \in 0..Arity /\ f \in Nat /\ f + n <= Entries(indexed, k)
        /\ Start(indexed, k, f + 1) = Start(indexed, k + 1, i)
        /\ Start(indexed, k, f + n + 1) = Start(indexed, k + 1, i + 1)
    BY <1>7, FanoutIs
  <2>2. n # 0
    <3>1. (n = 0 <=> Total(indexed) = 0) /\ (Total(indexed) = 0 => k = 0)
      BY <1>7, FanoutIs
    <3> QED
      BY <1>6, <3>1
  <2> HIDE DEF n, f
  <2> QED
    BY <1>5, <1>7, <2>1, <2>2
<1>9. /\ node.children \in Seq(Nat) /\ Len(node.children) = n
      /\ \A j \in 1..n : node.children[j] = EntryAddr(indexed, k, f + j)
  BY <1>5 DEF IsNode
<1> HIDE DEF n, f, node
<1>10. /\ q \in Nat \ {0} /\ rest \in Seq(Nat) /\ Len(rest) = q - 1
       /\ \A j \in 1..(q - 1) : rest[j] = visits[j + 1]
  BY <1>1, <1>3, HeadTailProperties
<1> HIDE DEF rest
<1>11. /\ todo \in Seq(Nat) /\ Len(todo) = n + (q - 1)
       /\ \A j \in 1..(n + (q - 1)) : todo[j] = IF j <= n THEN node.children[j] ELSE rest[j - n]
  <2>1. /\ todo \in Seq(Nat) /\ Len(todo) = Len(node.children) + Len(rest)
        /\ \A j \in 1..(Len(node.children) + Len(rest)) :
               todo[j] = IF j <= Len(node.children) THEN node.children[j]
                         ELSE rest[j - Len(node.children)]
    BY <1>9, <1>10, ConcatProperties
  <2> HIDE DEF todo
  <2> QED
    BY <1>9, <1>10, <2>1
<1> HIDE DEF todo
<1>12. /\ starts \in [1..(q + 1) -> Nat] /\ starts[1] = done + 1
       /\ starts[q + 1] = Total(indexed) + 1
       /\ \A j \in 1..q : IsVisit(indexed, visits[j], starts[j], starts[j + 1])
  BY <1>3 DEF Covers
<1> HIDE DEF q
<1>13. \A j \in 1..(n + 1) : Start(indexed, k, f + j) \in Nat
  <2> SUFFICES ASSUME NEW j \in 1..(n + 1) PROVE Start(indexed, k, f + j) \in Nat
    OBVIOUS
  <2> DEFINE m == f + j
  <2>1. m \in Nat \ {0} /\ k \in 0..Height(indexed)
    BY <1>7, <1>8
  <2> HIDE DEF m
  <2>2. Start(indexed, k, m) \in 1..(Total(indexed) + 1)
    BY <1>7, <2>1, StartsAre
  <2> QED
    BY <1>7, <2>2 DEF m
<1> DEFINE next == [j \in 1..(n + q) |->
                       IF j <= n THEN Start(indexed, k, f + j) ELSE starts[j - n + 1]]
<1>14. /\ next \in [1..(n + q) -> Nat]
       /\ \A j \in 1..n : next[j] = Start(indexed, k, f + j)
       /\ \A u \in 1..q : next[n + u] = starts[u + 1]
  <2>1. ASSUME NEW j \in 1..(n + q), ~(j <= n) PROVE j - n + 1 \in 1..(q + 1)
    <3>1. n \in Nat /\ q \in Nat
      BY <1>8, <1>10
    <3> QED
      BY ONLY <2>1, <3>1
  <2>2. \A j \in 1..(n + q) : (IF j <= n THEN Start(indexed, k, f + j) ELSE starts[j - n + 1]) \in Nat
    BY <1>8, <1>12, <1>13, <2>1
  <2>3. \A j \in 1..n : j \in 1..(n + q) /\ j <= n
    BY <1>8, <1>10
  <2>4. ASSUME NEW u \in 1..q PROVE next[n + u] = starts[u + 1]
    <3> DEFINE x == n + u
    <3>1. x \in 1..(n + q) /\ ~(x <= n) /\ x - n + 1 = u + 1
      BY <1>8, <1>10
    <3> HIDE DEF x
    <3>2. next[x] = starts[u + 1]
      BY <3>1
    <3> QED
      BY <3>2 DEF x
  <2> QED
    BY <2>2, <2>3, <2>4
<1> HIDE DEF next
<1>15. next[n + 1] = Start(indexed, k, f + n + 1)
  <2>1. 1 \in 1..q
    BY <1>10
  <2>2. next[n + 1] = starts[2]
    BY <1>14, <2>1
  <2> QED
    BY <1>8, <2>2
<1>16. \A j \in 1..(n + 1) : next[j] = Start(indexed, k, f + j)
  <2>1. \A j \in 1..(n + 1) : j \in 1..n \/ j = n + 1
    BY <1>8
  <2>2. f + (n + 1) = f + n + 1
    BY <1>8
  <2> QED
    BY <1>14, <1>15, <2>1, <2>2
<1>17. Covers(indexed, todo, done, next)
  <2>1. Len(todo) + 1 = n + q
    BY <1>8, <1>10, <1>11
  <2>2. next[1] = done + 1
    <3>1. 1 \in 1..(n + 1)
      BY <1>8
    <3> QED
      BY <1>8, <1>12, <1>16, <3>1
  <2>3. next[n + q] = Total(indexed) + 1
    <3>1. q \in 1..q
      BY <1>10
    <3> QED
      BY <1>12, <1>14, <3>1
  <2>4. ASSUME NEW j \in 1..Len(todo) PROVE IsVisit(indexed, todo[j], next[j], next[j + 1])
    <3>1. CASE j <= n
      <4> DEFINE m == f + j
                 l == k - 1
      <4>1. j \in 1..n /\ j \in 1..(n + 1) /\ j + 1 \in 1..(n + 1) /\ j \in 1..(n + (q - 1))
        <5>1. j \in 1..(n + (q - 1)) /\ n + (q - 1) \in Nat
          BY <1>8, <1>10, <1>11
        <5> QED
          BY <1>8, <3>1, <5>1
      <4>2. m \in 1..Entries(indexed, k)
        <5>1. Entries(indexed, k) \in Nat
          <6>1. k \in 0..Height(indexed)
            BY <1>7
          <6> QED
            BY <1>7, <6>1, EntriesAre
        <5> QED
          BY <1>8, <4>1, <5>1
      <4>3. l \in 0..(Height(indexed) - 1) /\ l + 1 = k /\ f + (j + 1) = m + 1
        BY <1>6, <1>7, <1>8, <4>1
      <4>4. todo[j] = EntryAddr(indexed, k, m)
        BY <1>9, <1>11, <3>1, <4>1
      <4>5. next[j] = Start(indexed, k, m) /\ next[j + 1] = Start(indexed, k, m + 1)
        BY <1>16, <4>1, <4>3
      <4> HIDE DEF m
      <4>6. EntryAddr(indexed, k, m) = NodeAddr(indexed, l, m)
        BY <1>6 DEF EntryAddr
      <4> HIDE DEF l
      <4> QED
        BY <4>2, <4>3, <4>4, <4>5, <4>6 DEF IsVisit
    <3>2. CASE ~(j <= n)
      <4> DEFINE m == j - n + 1
      <4>1. /\ j \in 1..(n + (q - 1)) /\ j - n \in 1..(q - 1) /\ m \in 1..q
            /\ j = n + (j - n) /\ j + 1 = n + m /\ m + 1 \in 2..(q + 1)
        BY <1>8, <1>10, <1>11, <3>2
      <4>2. todo[j] = visits[m]
        BY <1>10, <1>11, <3>2, <4>1
      <4>3. next[j] = starts[m] /\ next[j + 1] = starts[m + 1]
        <5> DEFINE u == j - n
        <5>1. u \in 1..q /\ u + 1 = m /\ j = n + u /\ j + 1 = n + m
          BY <1>10, <4>1
        <5> HIDE DEF u, m
        <5>2. next[n + u] = starts[u + 1] /\ next[n + m] = starts[m + 1]
          BY <1>14, <4>1, <5>1
        <5> QED
          BY <5>1, <5>2
      <4> HIDE DEF m
      <4> QED
        BY <1>12, <4>1, <4>2, <4>3
    <3> QED
      BY <3>1, <3>2
  <2> QED
    BY <1>14, <2>1, <2>2, <2>3, <2>4 DEF Covers
<1>18. CollectedSoFar(indexed, visits', records')
  BY <1>1, <1>3, <1>11, <1>17 DEF CollectedSoFar
<1> QED
  BY <1>1, <1>2, <1>18 DEF Collecting

LEMMA CollectingHolds ==
    ASSUME Building, Collecting, [IndexNext]_indexVars
    PROVE  Collecting'
<1>1. CASE StartCollect
  BY <1>1, CollectionStarts
<1>2. CASE CollectLeaf
  BY <1>2, LeafIsCollected
<1>3. CASE CollectInternal
  BY <1>3, InternalIsCollected
<1>4. CASE UNCHANGED <<indexed, indexing, collecting>>
  <2>1. indexed' = indexed /\ indexing' = indexing /\ visits' = visits /\ records' = records
    BY <1>4 DEF collecting
  <2> QED
    BY <2>1 DEF Collecting
<1>5. CASE indexing # "written" /\ UNCHANGED collecting
  <2>1. visits' = <<>> /\ records' = <<>>
    BY <1>5 DEF Collecting, collecting
  <2> QED
    BY <2>1 DEF Collecting
<1>6. Plan \/ RefuseGrid \/ WriteLevel => indexing # "written" /\ UNCHANGED collecting
  BY DEF Plan, RefuseGrid, WriteLevel
<1>7. ASSUME NEW origin \in Askable, StartSearch(origin)
      PROVE UNCHANGED <<indexed, indexing, collecting>>
  BY <1>7 DEF StartSearch, writing
<1>8. Probe \/ GiveUp => UNCHANGED <<indexed, indexing, collecting>>
  BY DEF Probe, GiveUp, writing
<1>9. indexVars' = indexVars => UNCHANGED <<indexed, indexing, collecting>>
  BY DEF indexVars, writing
<1> QED
  BY <1>1, <1>2, <1>3, <1>4, <1>5, <1>6, <1>7, <1>8, <1>9 DEF IndexNext

LEMMA CollectedIsEverything ==
    ASSUME Building, Collecting
    PROVE  CollectsEveryChunk
<1> SUFFICES ASSUME indexing = "written", visits = <<>>, records # <<>> PROVE CollectsEveryChunk
  BY DEF CollectsEveryChunk
<1>1. PICK done \in 0..Total(indexed) :
        records = Gathered(indexed, done) /\ \E starts : Covers(indexed, visits, done, starts)
  BY DEF Collecting, CollectedSoFar
<1>2. PICK starts : Covers(indexed, visits, done, starts)
  BY <1>1
<1>3. Total(indexed) \in Nat
  BY DatasetFacts
<1>4. done = Total(indexed)
  <2>1. Len(visits) = 0
    OBVIOUS
  <2>2. starts[1] = done + 1 /\ starts[0 + 1] = Total(indexed) + 1
    BY <1>2, <2>1 DEF Covers
  <2> QED
    BY <1>3, <2>2
<1>5. DOMAIN Origins = 1..Total(indexed) /\ Origins = indexed.origins
  BY DatasetFacts DEF KeysAscend, Origins, Total
<1>6. PlannedLevels = Planned(indexed)
  BY <1>5 DEF PlannedLevels, Planned, Total, Arity
<1> QED
  BY <1>1, <1>4, <1>5, <1>6 DEF CollectsEveryChunk, Gathered, ChunkAddr
-----------------------------------------------------------------------------
(* What holds of every index *)

IndexInv == Building /\ Looking /\ Collecting

\* The invariant: the nodes written so far are the first levels of the one tree the
\* chunk count determines, each with the keys of the chunks under it; a lookup keeps the
\* chunk it wants between its bounds; a collection has the first chunks, and the nodes it
\* still has to visit hold the rest (ChunkTree::write, H5B_find, collect).
THEOREM IndexInvariant == IndexSpec => []IndexInv
<1>1. ASSUME IndexInit PROVE IndexInv
  <2>1. Building
    BY <1>1, BuildingStarts
  <2>2. /\ indexing = "plan" /\ search = Idle /\ wanted = <<>> /\ visits = <<>> /\ records = <<>>
    BY <1>1 DEF IndexInit
  <2>3. Looking /\ Collecting
    BY <2>2 DEF Looking, Collecting
  <2> QED
    BY <2>1, <2>3 DEF IndexInv
<1>2. ASSUME IndexInv, [IndexNext]_indexVars PROVE IndexInv'
  <2>1. Building'
    BY <1>2, BuildingHolds DEF IndexInv
  <2>2. Looking'
    BY <1>2, LookingHolds DEF IndexInv
  <2>3. Collecting'
    BY <1>2, CollectingHolds DEF IndexInv
  <2> QED
    BY <2>1, <2>2, <2>3 DEF IndexInv
<1> QED
  BY <1>1, <1>2, PTL DEF IndexSpec

\* For every shape, chunk shape and node size: an index is exactly what was planned for it,
\* libhdf5 finds every chunk under its own origin and nothing else, and oxih5 collects all
\* chunks once, in order (ChunkTree::plan and write, H5B_find, collect).
THEOREM ChunkIndexIsComplete == IndexSpec => []ChunksAreIndexed
<1>1. IndexInv => ChunksAreIndexed
  BY BuiltIsReserved, LookedUpIsFound, CollectedIsEverything DEF IndexInv, ChunksAreIndexed
<1> QED
  BY <1>1, IndexInvariant, PTL
=============================================================================
