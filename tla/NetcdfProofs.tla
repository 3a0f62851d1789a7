----------------------------- MODULE NetcdfProofs -----------------------------
(***************************************************************************)
(* Proofs about what NcFileWriter writes, for any dimensions, variables,   *)
(* groups and types that may be defined, any number of puts and appends in *)
(* any order, and any amounts: the references of scales and variables      *)
(* mirror each other whatever the calls; and after calls as documented,    *)
(* close fails only for what no file can hold, and every element of the    *)
(* file is what was last written there.                                    *)
(*                                                                         *)
(* The history of the calls says what each element is meant to be, as a    *)
(* recursive function of the calls; NetcdfInv ties the writer's counts and *)
(* buffers to it.                                                          *)
(***************************************************************************)
EXTENDS NetcdfRoundTrip, GeometryProofs

\* Values, and what the definitions and the history are made of.
Value == Nat \X Nat
DimRecord == [name : {d.name : d \in DimDef}, size : Nat, unlimited : BOOLEAN, defined : Nat]
VarRecord == [name : {v.name : v \in VarDef}, dim_ids : Seq(Nat), nc_type : {v.nc_type : v \in VarDef},
              data : [kind : {"none", "f64", "i32", "str"}, values : Seq(Value)],
              appended_f64 : Seq(Value), appended_i32 : Seq(Value)]
CallRecord == [var : Nat, op : {"put", "append"}, kind : {"f64", "i32", "str"},
               records : Nat, data : Seq(Value)]

NcTypeOK ==
    /\ dims \in Seq(DimRecord) /\ ncvars \in Seq(VarRecord) /\ calls \in Seq(CallRecord)
    /\ stage \in {"define", "closed", "failed"}

\* Names tell dimensions apart, and variables; ids are of dimensions, calls on
\* variables.
DefsAreSound ==
    /\ \A d, e \in DOMAIN dims : dims[d].name = dims[e].name => d = e
    /\ \A i, j \in DOMAIN ncvars : ncvars[i].name = ncvars[j].name => i = j
    /\ \A i \in DOMAIN ncvars : \A k \in DOMAIN ncvars[i].dim_ids : ncvars[i].dim_ids[k] \in DOMAIN dims
    /\ \A n \in DOMAIN calls : calls[n].var \in DOMAIN ncvars

\* What was written is what the definitions and the data still are.
FileIsBuilt ==
    /\ IsWritten => CloseAccepts /\ file.objects = Objects
    /\ stage = "failed" => ~CloseAccepts

\* A dimension is as long as it was defined, or as the longest variable along it.
SizeIsMeant(d) ==
    /\ dims[d].defined <= dims[d].size
    /\ dims[d].unlimited \/ dims[d].size = dims[d].defined
    /\ \A i \in Along(d) : Records(i, Len(calls)) <= dims[d].size
    /\ \/ dims[d].size = dims[d].defined
       \/ \E i \in Along(d) : Records(i, Len(calls)) = dims[d].size

\* Variable i never has fewer records than before, and none without dimensions.
RecordsGrow(i) ==
    /\ \A n \in 0..Len(calls) : Records(i, n) <= Records(i, Len(calls))
    /\ ncvars[i].dim_ids = <<>> => Records(i, Len(calls)) = 0

\* What variable i holds, converted or not, are its records.
Held(v) == Len(v.data.values) + Len(v.appended_f64) + Len(v.appended_i32)
HoldsRecords(i) ==
    LET v == ncvars[i]
    IN  /\ (\A n \in CallsOn(i) : calls[n].op = "put") => v.appended_f64 = <<>> /\ v.appended_i32 = <<>>
        /\ v.dim_ids = <<>> => Held(v) = IF CallsOn(i) = {} THEN 0 ELSE 1
        /\ v.dim_ids # <<>> /\ TrailingStride(v) > 0 =>
               Held(v) = Records(i, Len(calls)) * TrailingStride(v)

\* Data that fits is kept where its type is taken from.
KindIsKept(i) ==
    LET v == ncvars[i]
    IN  /\ v.data.kind \in Takes(v.nc_type) \/ v.data = NoData
        /\ v.appended_f64 = <<>> \/ v.nc_type = "Float64"
        /\ v.appended_i32 = <<>> \/ v.nc_type = "Int32"

\* The elements the n-th call gave variable i, by place in its data.
Covers(i, n, place) ==
    LET stride == TrailingStride(ncvars[i])
    IN  \/ ncvars[i].dim_ids = <<>>
        \/ place \in (FirstRecord(i, n) * stride + 1)..(Records(i, n) * stride)

\* Every element is the one that the last call covering it gave.
PlaceIsMeant(i, place) ==
    \E n \in CallsOn(i) :
        LET from == place - FirstRecord(i, n) * TrailingStride(ncvars[i])
        IN  /\ Covers(i, n, place)
            /\ \A m \in CallsOn(i) : m > n => ~Covers(i, m, place)
            /\ from \in DOMAIN calls[n].data
            /\ DataOf(ncvars[i])[place] = Converted(ncvars[i].nc_type, calls[n].kind, calls[n].data[from])

DataIsMeant(i) ==
    ncvars[i].dim_ids = <<>> \/ TrailingStride(ncvars[i]) > 0 =>
        \A place \in 1..Len(DataOf(ncvars[i])) : PlaceIsMeant(i, place)

AsDocumented ==
    /\ \A d \in DOMAIN dims : SizeIsMeant(d)
    /\ \A i \in DOMAIN ncvars : /\ RecordsGrow(i) /\ HoldsRecords(i)
                                /\ KindsFit(i) => KindIsKept(i) /\ DataIsMeant(i)

NetcdfInv == NcTypeOK /\ DefsAreSound /\ FileIsBuilt /\ (Documented => AsDocumented)

-----------------------------------------------------------------------------
(* Records of a history *)

\* The records of a history, call by call.
LEMMA RecordsAre ==
    ASSUME NEW h \in Seq(CallRecord), NEW i
    PROVE  /\ RecordsIn(h, i, 0) = 0
           /\ \A n \in 0..Len(h) : RecordsIn(h, i, n) \in Nat
           /\ \A n \in 1..Len(h) : RecordsIn(h, i, n) = IF h[n].var # i THEN RecordsIn(h, i, n - 1)
                                                       ELSE IF h[n].op = "put" THEN h[n].records
                                                       ELSE RecordsIn(h, i, n - 1) + h[n].records
<1> DEFINE Is(f) == f = [m \in 0..Len(h) |-> IF m = 0 THEN 0
                                             ELSE IF h[m].var # i THEN f[m - 1]
                                             ELSE IF h[m].op = "put" THEN h[m].records
                                             ELSE f[m - 1] + h[m].records]
           chosen == CHOOSE f : Is(f)
           step == [m \in 1..Len(h) |-> [x \in Nat |-> IF h[m].var # i THEN x
                                                       ELSE IF h[m].op = "put" THEN h[m].records
                                                       ELSE x + h[m].records]]
<1>1. \A m \in 1..Len(h) : h[m].records \in Nat
  <2>1. \A m \in 1..Len(h) : h[m] \in CallRecord
    OBVIOUS
  <2> QED
    BY <2>1 DEF CallRecord
<1>2. step \in [1..Len(h) -> [Nat -> Nat]]
  BY <1>1
<1>3. PICK f \in [0..Len(h) -> Nat] : Iterates(f, 0, step, Len(h))
  <2>1. Len(h) \in Nat
    OBVIOUS
  <2> HIDE DEF step
  <2> QED
    BY <1>2, <2>1, IteratesExist
<1>4. Is(f)
  <2>1. \A m \in 0..Len(h) : m # 0 => m \in 1..Len(h) /\ f[m - 1] \in Nat
    BY <1>3
  <2>2. f = [m \in 0..Len(h) |-> IF m = 0 THEN 0 ELSE step[m][f[m - 1]]]
    BY <1>3 DEF Iterates
  <2>3. \A m \in 0..Len(h) : m # 0 => step[m][f[m - 1]] = IF h[m].var # i THEN f[m - 1]
                                             ELSE IF h[m].op = "put" THEN h[m].records
                                             ELSE f[m - 1] + h[m].records
    BY <2>1
  <2> HIDE DEF step
  <2>4. f = [m \in 0..Len(h) |-> IF m = 0 THEN 0
                                             ELSE IF h[m].var # i THEN f[m - 1]
                                             ELSE IF h[m].op = "put" THEN h[m].records
                                             ELSE f[m - 1] + h[m].records]
    BY <2>2, <2>3
  <2> QED
    BY <2>4
<1>5. Is(chosen)
  <2> HIDE DEF Is
  <2> QED
    BY <1>4
<1>6. \A n : RecordsIn(h, i, n) = chosen[n]
  BY DEF RecordsIn
<1> HIDE DEF chosen, step
<1>7. /\ chosen[0] = 0
      /\ \A m \in 1..Len(h) : chosen[m] = IF h[m].var # i THEN chosen[m - 1]
                                             ELSE IF h[m].op = "put" THEN h[m].records
                                             ELSE chosen[m - 1] + h[m].records
  BY <1>5
<1>8. \A n \in 0..Len(h) : chosen[n] \in Nat
  <2> DEFINE Wrong == {n \in 0..Len(h) : chosen[n] \notin Nat}
  <2> SUFFICES ASSUME Wrong # {} PROVE FALSE
    OBVIOUS
  <2>1. PICK n \in Wrong : \A k \in Wrong : n <= k
    <3>1. Wrong \subseteq Nat
      OBVIOUS
    <3> HIDE DEF Wrong
    <3> QED
      BY <3>1, LeastNumber
  <2>2. n # 0
    BY <1>7, <2>1
  <2>3. n \in 1..Len(h) /\ n - 1 \in 0..Len(h) /\ n - 1 \notin Wrong
    BY <2>1, <2>2
  <2>4. chosen[n - 1] \in Nat
    BY <2>3
  <2>5. chosen[n] \in Nat
    BY <1>1, <1>7, <2>3, <2>4
  <2> QED
    BY <2>1, <2>5
<1> QED
  BY <1>6, <1>7, <1>8

\* A longer history has the same records as long as it is the same history.
LEMMA RecordsStay ==
    ASSUME NEW h \in Seq(CallRecord), NEW c \in CallRecord, NEW i
    PROVE  \A n \in 0..Len(h) : RecordsIn(Append(h, c), i, n) = RecordsIn(h, i, n)
<1> DEFINE g == Append(h, c)
           Wrong == {n \in 0..Len(h) : RecordsIn(g, i, n) # RecordsIn(h, i, n)}
<1> SUFFICES ASSUME Wrong # {} PROVE FALSE
  OBVIOUS
<1>1. g \in Seq(CallRecord) /\ Len(g) = Len(h) + 1 /\ \A n \in 1..Len(h) : g[n] = h[n]
  OBVIOUS
<1> HIDE DEF g
<1>2. PICK n \in Wrong : \A k \in Wrong : n <= k
  <2>1. Wrong \subseteq Nat
    OBVIOUS
  <2> HIDE DEF Wrong
  <2> QED
    BY <2>1, LeastNumber
<1>3. RecordsIn(g, i, 0) = 0 /\ RecordsIn(h, i, 0) = 0
  BY <1>1, RecordsAre
<1>4. n \in 1..Len(h) /\ n \in 1..Len(g) /\ n - 1 \in 0..Len(h) /\ n - 1 \notin Wrong
  BY <1>1, <1>2, <1>3
<1>5. RecordsIn(g, i, n - 1) = RecordsIn(h, i, n - 1)
  BY <1>4
<1>6. /\ RecordsIn(g, i, n) = IF g[n].var # i THEN RecordsIn(g, i, n - 1)
                              ELSE IF g[n].op = "put" THEN g[n].records
                              ELSE RecordsIn(g, i, n - 1) + g[n].records
      /\ RecordsIn(h, i, n) = IF h[n].var # i THEN RecordsIn(h, i, n - 1)
                              ELSE IF h[n].op = "put" THEN h[n].records
                              ELSE RecordsIn(h, i, n - 1) + h[n].records
  BY <1>1, <1>4, RecordsAre
<1>7. RecordsIn(g, i, n) = RecordsIn(h, i, n)
  BY <1>1, <1>4, <1>5, <1>6
<1> QED
  BY <1>2, <1>7

\* Without a call on it a variable has no records.
LEMMA NoCallsNoRecords ==
    ASSUME NEW h \in Seq(CallRecord), NEW i, \A n \in DOMAIN h : h[n].var # i
    PROVE  \A n \in 0..Len(h) : RecordsIn(h, i, n) = 0
<1> DEFINE Wrong == {n \in 0..Len(h) : RecordsIn(h, i, n) # 0}
<1> SUFFICES ASSUME Wrong # {} PROVE FALSE
  OBVIOUS
<1>1. PICK n \in Wrong : \A k \in Wrong : n <= k
  <2>1. Wrong \subseteq Nat
    OBVIOUS
  <2> HIDE DEF Wrong
  <2> QED
    BY <2>1, LeastNumber
<1>2. n \in 1..Len(h) /\ n - 1 \in 0..Len(h) /\ n - 1 \notin Wrong /\ n \in DOMAIN h
  BY <1>1, RecordsAre
<1>3. RecordsIn(h, i, n) = RecordsIn(h, i, n - 1)
  BY <1>2, RecordsAre
<1> QED
  BY <1>1, <1>2, <1>3

-----------------------------------------------------------------------------
(* Shapes *)

\* A shape that is not empty has the elements of its tail for every index of its
\* first dimension.
LEMMA VolumeOfTail ==
    ASSUME NEW shape \in Seq(Nat), shape # <<>>
    PROVE  /\ shape[1] \in Nat /\ Volume(Tail(shape)) \in Nat
           /\ Volume(shape) = shape[1] * Volume(Tail(shape))
<1> DEFINE n == Len(shape)
           rest == Tail(shape)
<1>1. /\ n \in Nat \ {0} /\ Len(shape) = n /\ \A d \in 1..n : shape[d] \in Nat
      /\ rest \in Seq(Nat) /\ Len(rest) = n - 1 /\ \A d \in 1..(n - 1) : rest[d] = shape[d + 1]
  OBVIOUS
<1> HIDE DEF n, rest
<1>2. PICK p : /\ p[0] = 1 /\ p[n] = Volume(shape)
               /\ \A d \in 0..n : p[d] \in Nat
               /\ \A d \in 1..n : p[d] = p[d - 1] * shape[d]
  BY <1>1, VolumeIsProduct
<1>3. \A d \in 1..(n - 1) : rest[d] \in Nat
  BY <1>1
<1>4. PICK q : /\ q[0] = 1 /\ q[n - 1] = Volume(rest)
               /\ \A d \in 0..(n - 1) : q[d] \in Nat
               /\ \A d \in 1..(n - 1) : q[d] = q[d - 1] * rest[d]
  <2>1. n - 1 \in Nat
    BY <1>1
  <2> QED
    BY <1>1, <1>3, <2>1, VolumeIsProduct
<1> DEFINE Wrong == {d \in 1..n : p[d] # shape[1] * q[d - 1]}
<1>5. ASSUME Wrong # {} PROVE FALSE
  <2>1. PICK d \in Wrong : \A k \in Wrong : d <= k
    <3>1. Wrong \subseteq Nat
      OBVIOUS
    <3> HIDE DEF Wrong
    <3> QED
      BY <1>5, <3>1, LeastNumber
  <2>2. d # 1
    <3>1. p[1] = p[0] * shape[1] /\ 1 \in 1..n /\ shape[1] \in Nat
      BY <1>1, <1>2
    <3>2. p[1] = shape[1] * q[1 - 1]
      BY <1>2, <1>4, <3>1
    <3> QED
      BY <2>1, <3>2
  <2>3. /\ d \in 1..n /\ d - 1 \in 1..n /\ d - 1 \in 1..(n - 1) /\ d - 1 \notin Wrong
        /\ d - 2 \in 0..(n - 1) /\ d - 1 - 1 = d - 2 /\ d - 1 + 1 = d
    BY <1>1, <2>1, <2>2
  <2>4. p[d - 1] = shape[1] * q[d - 2]
    BY <2>3
  <2>5. p[d] = p[d - 1] * shape[d] /\ q[d - 1] = q[d - 2] * shape[d]
    BY <1>1, <1>2, <1>4, <2>3
  <2>6. q[d - 2] \in Nat /\ shape[d] \in Nat /\ shape[1] \in Nat
    <3>1. 1 \in 1..n
      BY <1>1
    <3> HIDE DEF Wrong
    <3> QED
      BY <1>1, <1>4, <2>3, <3>1
  <2>7. p[d] = shape[1] * q[d - 1]
    <3>1. \A a, b, c \in Nat : (a * b) * c = a * (b * c)
      OBVIOUS
    <3> QED
      BY ONLY <2>4, <2>5, <2>6, <3>1
  <2> QED
    BY <2>1, <2>7
<1>6. n \in 1..n /\ n \notin Wrong
  BY <1>1, <1>5
<1>7. p[n] = shape[1] * q[n - 1]
  BY <1>6
<1>8. shape[1] \in Nat /\ n - 1 \in 0..(n - 1)
  BY <1>1
<1> QED
  BY <1>2, <1>4, <1>7, <1>8 DEF rest

\* One element, and as many as the only dimension has.
LEMMA SmallVolumes ==
    Volume(<<>>) = 1 /\ \A n \in Nat : Volume(<<n>>) = n
<1>1. Volume(<<>>) = 1
  <2>1. Len(<<>>) = 0 /\ 0 \in Nat /\ \A d \in 1..0 : <<>>[d] \in Nat
    OBVIOUS
  <2>2. \E p : p[0] = 1 /\ p[0] = Volume(<<>>)
    BY <2>1, VolumeIsProduct
  <2> QED
    BY <2>2
<1>2. ASSUME NEW n \in Nat PROVE Volume(<<n>>) = n
  <2>1. <<n>> \in Seq(Nat) /\ <<n>> # <<>> /\ <<n>>[1] = n /\ Tail(<<n>>) = <<>>
    OBVIOUS
  <2>2. Volume(<<n>>) = n * Volume(<<>>)
    BY <2>1, VolumeOfTail
  <2> QED
    BY <1>1, <2>2
<1> QED
  BY <1>1, <1>2

\* Where there is an element, no dimension is empty.
LEMMA ElementsMakeGrids ==
    ASSUME NEW shape \in Seq(Nat), shape # <<>>, Volume(shape) # 0
    PROVE  /\ IsGrid(shape, Len(shape))
           /\ Volume(Tail(shape)) \in Nat \ {0}
           /\ Strides(shape)[1] = Volume(Tail(shape))
<1> DEFINE n == Len(shape)
<1>1. n \in Nat \ {0} /\ Len(shape) = n /\ DOMAIN shape = 1..n /\ \A d \in 1..n : shape[d] \in Nat
  OBVIOUS
<1> HIDE DEF n
<1>2. ASSUME NEW d \in 1..n PROVE shape[d] # 0
  BY <1>1, EmptyVolume
<1>3. IsGrid(shape, n)
  BY <1>1, <1>2 DEF IsGrid
<1>4. Volume(shape) = shape[1] * Strides(shape)[1] /\ Strides(shape)[1] \in Nat \ {0}
  <2>1. 1 \in 1..n
    BY <1>1
  <2> QED
    BY <1>3, <2>1, VolumeByStride, StridesAre
<1>5. Volume(shape) = shape[1] * Volume(Tail(shape)) /\ Volume(Tail(shape)) \in Nat /\ shape[1] \in Nat \ {0}
  BY <1>1, <1>2, VolumeOfTail
<1>6. Strides(shape)[1] = Volume(Tail(shape))
  <2>1. \A a \in Nat \ {0}, b \in Nat, c \in Nat : a * b = a * c => b = c
    <3> SUFFICES ASSUME NEW a \in Nat \ {0}, NEW b \in Nat, NEW c \in Nat, a * b = a * c PROVE b = c
      OBVIOUS
    <3> QED
      BY DivisionIsUnique
  <2>2. Strides(shape)[1] \in Nat
    BY <1>4
  <2> QED
    BY <1>4, <1>5, <2>1, <2>2
<1> QED
  BY <1>3, <1>4, <1>6 DEF n

\* The first coordinate says which record an element is of, and counting from a later
\* record takes that record's elements off its place.
LEMMA PlaceInRecords ==
    ASSUME NEW shape \in Seq(Nat), shape # <<>>, NEW place \in 1..Volume(shape)
    PROVE  LET at == Unflatten(place - 1, shape)
               stride == Volume(Tail(shape))
           IN  /\ at # <<>> /\ at[1] \in Nat
               /\ \A r \in Nat : r <= at[1] <=> r * stride < place
               /\ \A r \in Nat : r <= at[1] =>
                      Flatten([at EXCEPT ![1] = @ - r], shape) + 1 = place - r * stride
<1> DEFINE n == Len(shape)
           at == Unflatten(place - 1, shape)
           s == Strides(shape)
           stride == Volume(Tail(shape))
           flat == place - 1
<1>0. Volume(shape) \in Nat
  <2>1. shape[1] \in Nat /\ Volume(Tail(shape)) \in Nat /\ Volume(shape) = shape[1] * Volume(Tail(shape))
    BY VolumeOfTail
  <2> QED
    BY <2>1, ProductsAreNatural
<1>1. IsGrid(shape, n) /\ stride \in Nat \ {0} /\ s[1] = stride
  <2>1. Volume(shape) # 0
    BY <1>0
  <2> QED
    BY <2>1, ElementsMakeGrids
<1>2. flat \in Nat /\ flat < Volume(shape) /\ place = flat + 1
  BY <1>0
<1>3. n \in Nat \ {0} /\ 1 \in 1..n /\ shape[1] \in Nat \ {0}
  BY <1>1 DEF IsGrid
<1> HIDE DEF n, s, stride
<1>4. at \in [1..n -> Nat] /\ Flatten(at, shape) = flat
  BY <1>1, <1>2, FlattenUnflatten
<1>5. at[1] = flat \div stride
  <2>1. at[1] = (flat \div stride) % shape[1]
    BY <1>1, <1>2, <1>3, UnflattenWithin DEF s
  <2>2. (flat \div stride) \div shape[1] = 0
    BY <1>1, <1>2, <1>3, QuotientsNest DEF s
  <2> DEFINE q == flat \div stride
  <2>3. q \in Nat
    BY <1>1, <1>2, Dividing
  <2> HIDE DEF q
  <2>4. q = shape[1] * (q \div shape[1]) + (q % shape[1]) /\ q % shape[1] \in Nat
    BY <1>3, <2>3, Dividing
  <2>5. q = q % shape[1]
    BY <1>3, <2>2, <2>4 DEF q
  <2> QED
    BY <2>1, <2>5 DEF q
<1> HIDE DEF at, flat
<1>6. at[1] \in Nat /\ at # <<>>
  BY <1>3, <1>4
<1>7. ASSUME NEW r \in Nat
      PROVE  r <= at[1] <=> r * stride < place
  <2> DEFINE q == flat \div stride
             t == flat % stride
  <2>1. q \in Nat /\ t \in Nat /\ t < stride /\ flat = stride * q + t
    BY <1>1, <1>2, Dividing
  <2> HIDE DEF q, t
  <2>2. CASE r <= q
    <3>1. r * stride <= q * stride
      BY <1>1, <2>1, <2>2, ProductsGrow
    <3>2. r * stride \in Nat /\ q * stride \in Nat /\ q * stride = stride * q
      BY <1>1, <2>1
    <3>3. r * stride < place
      BY <1>2, <2>1, <3>1, <3>2
    <3> QED
      BY <1>5, <2>2, <3>3 DEF q
  <2>3. CASE ~(r <= q)
    <3>1. (q + 1) * stride <= r * stride
      BY <1>1, <2>1, <2>3, ProductsGrow
    <3>2. r * stride \in Nat /\ stride * q \in Nat /\ (q + 1) * stride = stride * q + stride
      BY <1>1, <2>1
    <3>3. ~(r * stride < place)
      BY <1>1, <1>2, <2>1, <3>1, <3>2
    <3> QED
      BY <1>5, <2>3, <3>3 DEF q
  <2> QED
    BY <2>2, <2>3
<1>8. ASSUME NEW r \in Nat, r <= at[1]
      PROVE  Flatten([at EXCEPT ![1] = @ - r], shape) + 1 = place - r * stride
  <2> DEFINE g == [at EXCEPT ![1] = @ - r]
  <2>1. g \in [1..n -> Nat] /\ g[1] = at[1] - r /\ \A d \in 2..n : g[d] = at[d]
    BY <1>3, <1>4, <1>6, <1>8
  <2> HIDE DEF g
  <2>2. PICK p : SumsUp(p, at, shape, n)
    BY <1>1, <1>4, FlattenIsSum
  <2>3. PICK q : SumsUp(q, g, shape, n)
    BY <1>1, <2>1, FlattenIsSum
  <2>4. /\ p[0] = 0 /\ p[n] = flat /\ \A d \in 0..n : p[d] \in Nat
        /\ \A d \in 1..n : p[d] = p[d - 1] + at[d] * s[d]
    BY <1>4, <2>2 DEF SumsUp, s
  <2>5. /\ q[0] = 0 /\ q[n] = Flatten(g, shape) /\ \A d \in 0..n : q[d] \in Nat
        /\ \A d \in 1..n : q[d] = q[d - 1] + g[d] * s[d]
    BY <2>3 DEF SumsUp, s
  <2> DEFINE off == r * stride
             Wrong == {d \in 1..n : q[d] + off # p[d]}
  <2>6. off \in Nat
    BY <1>1, ProductsAreNatural
  <2>7. q[1] + off = p[1]
    <3>1. p[1] = p[0] + at[1] * s[1] /\ q[1] = q[0] + g[1] * s[1]
      <4>1. 1 - 1 = 0
        OBVIOUS
      <4> QED
        BY <1>3, <2>4, <2>5, <4>1
    <3>2. p[1] = at[1] * stride /\ q[1] = (at[1] - r) * stride
      <4>1. at[1] * stride \in Nat /\ (at[1] - r) \in Nat
        BY <1>1, <1>6, <1>8, ProductsAreNatural
      <4>2. (at[1] - r) * stride \in Nat
        BY <1>1, <4>1, ProductsAreNatural
      <4> QED
        BY <1>1, <2>1, <2>4, <2>5, <3>1, <4>1, <4>2
    <3>3. (at[1] - r) * stride + r * stride = at[1] * stride
      BY <1>1, <1>6
    <3> QED
      BY <3>2, <3>3
  <2> HIDE DEF off
  <2>8. ASSUME Wrong # {} PROVE FALSE
    <3>1. PICK d \in Wrong : \A k \in Wrong : d <= k
      <4>1. Wrong \subseteq Nat
        OBVIOUS
      <4> HIDE DEF Wrong
      <4> QED
        BY <2>8, <4>1, LeastNumber
    <3>2. d \in 2..n /\ d \in 1..n /\ d - 1 \in 1..n /\ d - 1 \notin Wrong /\ d \in 0..n /\ d - 1 \in 0..n
      BY <1>3, <2>7, <3>1
    <3>3. q[d - 1] + off = p[d - 1]
      BY <3>2
    <3>4. p[d] = p[d - 1] + at[d] * s[d] /\ q[d] = q[d - 1] + at[d] * s[d]
      BY <2>1, <2>4, <2>5, <3>2
    <3>5. at[d] * s[d] \in Nat /\ p[d - 1] \in Nat /\ q[d - 1] \in Nat
      <4>1. s[d] \in Nat /\ at[d] \in Nat
        <5> HIDE DEF Wrong
        <5> QED
          BY <1>1, <1>4, <3>2, StridesAre DEF s
      <4>2. at[d] * s[d] \in Nat
        BY ONLY <4>1, ProductsAreNatural
      <4> HIDE DEF Wrong
      <4> QED
        BY <2>4, <2>5, <3>2, <4>2
    <3>6. q[d] + off = p[d]
      <4> DEFINE a == at[d] * s[d]
      <4> HIDE DEF a
      <4> QED
        BY <2>6, <3>3, <3>4, <3>5 DEF a
    <3> QED
      BY <3>1, <3>6
  <2>9. q[n] + off = p[n]
    <3>1. n \in 1..n /\ n \notin Wrong
      BY <1>3, <2>8
    <3> QED
      BY <3>1
  <2>10. Flatten(g, shape) + off = flat /\ Flatten(g, shape) \in Nat
    <3>1. n \in 0..n
      BY <1>3
    <3> QED
      BY <2>4, <2>5, <2>9, <3>1
  <2>11. Flatten(g, shape) + 1 = place - off
    BY <1>2, <2>6, <2>10
  <2> QED
    BY <2>11 DEF g, off
<1> QED
  BY <1>6, <1>7, <1>8 DEF at, stride, flat

-----------------------------------------------------------------------------
(* What follows from the invariant *)

\* The fields of definitions and of calls.
LEMMA DefTypes ==
    ASSUME NcTypeOK
    PROVE  /\ \A d \in DOMAIN dims : /\ dims[d].size \in Nat /\ dims[d].defined \in Nat
                                     /\ dims[d].unlimited \in BOOLEAN
           /\ \A i \in DOMAIN ncvars : /\ ncvars[i] \in VarRecord
                                       /\ ncvars[i].dim_ids \in Seq(Nat)
                                       /\ ncvars[i].data.values \in Seq(Value)
                                       /\ ncvars[i].data.kind \in {"none", "f64", "i32", "str"}
                                       /\ ncvars[i].appended_f64 \in Seq(Value)
                                       /\ ncvars[i].appended_i32 \in Seq(Value)
           /\ \A n \in DOMAIN calls : /\ calls[n].records \in Nat
                                      /\ calls[n].op \in {"put", "append"}
                                      /\ calls[n].data \in Seq(Value)
<1>1. \A d \in DOMAIN dims : dims[d] \in DimRecord
  BY DEF NcTypeOK
<1>2. \A i \in DOMAIN ncvars : ncvars[i] \in VarRecord
  BY DEF NcTypeOK
<1>3. \A n \in DOMAIN calls : calls[n] \in CallRecord
  BY DEF NcTypeOK
<1>4. \A v \in VarRecord : /\ v.dim_ids \in Seq(Nat)
                           /\ v.data.values \in Seq(Value)
                           /\ v.data.kind \in {"none", "f64", "i32", "str"}
                           /\ v.appended_f64 \in Seq(Value)
                           /\ v.appended_i32 \in Seq(Value)
  BY DEF VarRecord
<1> QED
  BY <1>1, <1>2, <1>3, <1>4 DEF DimRecord, CallRecord

\* A variable's shape is the sizes of its dimensions, its stride that of one record.
LEMMA ShapesAre ==
    ASSUME NcTypeOK, DefsAreSound, NEW i \in DOMAIN ncvars
    PROVE  /\ ShapeNow(ncvars[i]) \in Seq(Nat)
           /\ Len(ShapeNow(ncvars[i])) = Len(ncvars[i].dim_ids)
           /\ \A k \in DOMAIN ncvars[i].dim_ids : ShapeNow(ncvars[i])[k] = dims[ncvars[i].dim_ids[k]].size
           /\ ShapeNow(ncvars[i]) = <<>> <=> ncvars[i].dim_ids = <<>>
           /\ Volume(ShapeNow(ncvars[i])) \in Nat
           /\ ncvars[i].dim_ids # <<>> =>
                  /\ 1 \in DOMAIN ncvars[i].dim_ids
                  /\ ncvars[i].dim_ids[1] \in DOMAIN dims
                  /\ ShapeNow(ncvars[i])[1] = dims[ncvars[i].dim_ids[1]].size
                  /\ TrailingStride(ncvars[i]) = Volume(Tail(ShapeNow(ncvars[i])))
           /\ TrailingStride(ncvars[i]) \in Nat
<1> DEFINE ids == ncvars[i].dim_ids
           shape == ShapeNow(ncvars[i])
<1>1. ids \in Seq(Nat) /\ \A k \in DOMAIN ids : ids[k] \in DOMAIN dims
  BY DefTypes DEF DefsAreSound
<1>2. shape = [k \in DOMAIN ids |-> dims[ids[k]].size]
  BY DEF ShapeNow
<1>3. \A k \in DOMAIN ids : dims[ids[k]].size \in Nat
  BY <1>1, DefTypes
<1> HIDE DEF shape, ids
<1>4. DOMAIN ids = 1..Len(ids) /\ Len(ids) \in Nat
  BY <1>1
<1>5. shape \in Seq(Nat) /\ Len(shape) = Len(ids) /\ \A k \in DOMAIN ids : shape[k] = dims[ids[k]].size
  BY <1>2, <1>3, <1>4
<1>6. shape = <<>> <=> ids = <<>>
  BY <1>1, <1>5
<1>7. Volume(shape) \in Nat
  <2>1. \A d \in 1..Len(shape) : shape[d] \in Nat
    BY <1>5
  <2> QED
    BY <1>4, <1>5, <2>1, VolumeIsNatural
<1>8. ids # <<>> => 1 \in DOMAIN ids /\ ids[1] \in DOMAIN dims
  BY <1>1, <1>4
<1>9. ids # <<>> => TrailingStride(ncvars[i]) = Volume(Tail(shape))
  BY DEF TrailingStride, ids, shape
<1>10. TrailingStride(ncvars[i]) \in Nat
  <2>1. CASE ids = <<>>
    BY <2>1 DEF TrailingStride, ids
  <2>2. CASE ids # <<>>
    BY <1>5, <1>6, <1>9, <2>2, VolumeOfTail
  <2> QED
    BY <2>1, <2>2
<1> QED
  BY <1>5, <1>6, <1>7, <1>8, <1>9, <1>10 DEF ids, shape

\* A number that none of a set exceeds.
LEMMA GreatestIsMax ==
    ASSUME NEW S, S \subseteq Nat, NEW n \in S, \A y \in S : n >= y
    PROVE  Max(S) = n
<1>1. Max(S) \in S /\ \A y \in S : Max(S) >= y
  <2>1. \E x \in S : \A y \in S : x >= y
    OBVIOUS
  <2>2. Max(S) = CHOOSE x \in S : \A y \in S : x >= y
    BY DEF Max
  <2> QED
    BY ONLY <2>1, <2>2, Zenon
<1> DEFINE m == Max(S)
<1> HIDE DEF m
<1>2. m \in S /\ \A y \in S : m >= y
  BY <1>1 DEF m
<1>3. m \in Nat /\ n \in Nat /\ m >= n /\ n >= m
  BY <1>2
<1>4. m = n
  BY <1>3
<1> QED
  BY <1>4 DEF m

\* A dimension's size is the length that the calls mean.
LEMMA LengthsAreMeant ==
    ASSUME NcTypeOK, NEW d \in DOMAIN dims, SizeIsMeant(d)
    PROVE  LengthMeant(d) = dims[d].size
<1> DEFINE S == {dims[d].defined} \cup {Records(i, Len(calls)) : i \in Along(d)}
<1>1. \A i \in Along(d) : Records(i, Len(calls)) \in Nat
  <2>1. calls \in Seq(CallRecord) /\ Len(calls) \in 0..Len(calls)
    BY DEF NcTypeOK
  <2> QED
    BY <2>1, RecordsAre DEF Records
<1>2. S \subseteq Nat /\ dims[d].size \in Nat
  BY <1>1, DefTypes
<1>3. dims[d].size \in S /\ \A y \in S : dims[d].size >= y
  BY <1>2 DEF SizeIsMeant
<1> HIDE DEF S
<1>4. Max(S) = dims[d].size
  BY <1>2, <1>3, GreatestIsMax
<1> QED
  BY <1>4 DEF LengthMeant, S

\* With every dimension as long as it is meant, so is every shape.
LEMMA ShapesAreMeant ==
    ASSUME NcTypeOK, DefsAreSound, \A d \in DOMAIN dims : SizeIsMeant(d), NEW i \in DOMAIN ncvars
    PROVE  ShapeMeant(i) = ShapeNow(ncvars[i])
<1>1. \A k \in DOMAIN ncvars[i].dim_ids : LengthMeant(ncvars[i].dim_ids[k]) = dims[ncvars[i].dim_ids[k]].size
  BY LengthsAreMeant DEF DefsAreSound
<1> QED
  BY <1>1 DEF ShapeMeant, ShapeNow

\* The dataset of a variable, and that of a dimension without one.
LEMMA ObjectsAre ==
    ASSUME DefsAreSound
    PROVE  /\ \A i \in DOMAIN ncvars : /\ ncvars[i].name \in DatasetNames
                                       /\ Objects[ncvars[i].name] = DatasetOf(ncvars[i])
           /\ \A d \in DOMAIN dims : IsPure(d) => /\ dims[d].name \in DatasetNames
                                                  /\ Objects[dims[d].name] = PlaceholderOf(d)
           /\ \A n \in DatasetNames : \/ \E i \in DOMAIN ncvars : ncvars[i].name = n
                                      \/ \E d \in DOMAIN dims : dims[d].name = n /\ IsPure(d)
<1>1. ASSUME NEW i \in DOMAIN ncvars
      PROVE  /\ ncvars[i].name \in DatasetNames
             /\ Objects[ncvars[i].name] = DatasetOf(ncvars[i])
  <2>1. ncvars[i].name \in NamesOf(ncvars) /\ ncvars[i].name \in DatasetNames
    BY DEF NamesOf, DatasetNames
  <2>2. ncvars[i] \in Range(ncvars) /\ \A v \in Range(ncvars) : v.name = ncvars[i].name => v = ncvars[i]
    BY DEF Range, DefsAreSound
  <2>3. (CHOOSE v \in Range(ncvars) : v.name = ncvars[i].name) = ncvars[i]
    BY <2>2
  <2> QED
    BY <2>1, <2>3 DEF Objects
<1>2. ASSUME NEW d \in DOMAIN dims, IsPure(d)
      PROVE  dims[d].name \in DatasetNames /\ Objects[dims[d].name] = PlaceholderOf(d)
  <2>1. dims[d].name \notin NamesOf(ncvars) /\ dims[d].name \in DatasetNames
    BY <1>2 DEF IsPure, NamesOf, DatasetNames
  <2>2. (CHOOSE e \in DOMAIN dims : dims[e].name = dims[d].name) = d
    BY DEF DefsAreSound
  <2> QED
    BY <2>1, <2>2 DEF Objects
<1>3. ASSUME NEW n \in DatasetNames
      PROVE  \/ \E i \in DOMAIN ncvars : ncvars[i].name = n
             \/ \E d \in DOMAIN dims : dims[d].name = n /\ IsPure(d)
  BY DEF DatasetNames, NamesOf, IsPure
<1> QED
  BY <1>1, <1>2, <1>3

-----------------------------------------------------------------------------
(* References *)

\* What a scale lists, if it is one.
LEMMA ListsAre ==
    ASSUME DefsAreSound, NEW scale \in DatasetNames
    PROVE  LET listed == Objects[scale].attrs.reference_list
           IN  /\ \A d \in DOMAIN dims : dims[d].name = scale => listed = ReferenceEntries(d)
               /\ (\A d \in DOMAIN dims : dims[d].name # scale) => listed = {}
<1>1. ASSUME NEW i \in DOMAIN ncvars, ncvars[i].name = scale, NEW d \in DOMAIN dims, dims[d].name = scale
      PROVE  Objects[scale].attrs.reference_list = ReferenceEntries(d)
  <2>1. IsCoordinateVariable(ncvars[i])
    BY <1>1 DEF IsCoordinateVariable, NamesOf
  <2>2. (CHOOSE e \in DOMAIN dims : dims[e].name = ncvars[i].name) = d
    BY <1>1 DEF DefsAreSound
  <2>3. AttributesOf(ncvars[i]).reference_list = ReferenceEntries(d)
    BY <2>1, <2>2 DEF AttributesOf, Plain
  <2>4. Objects[scale] = DatasetOf(ncvars[i])
    BY <1>1, ObjectsAre
  <2> QED
    BY <2>3, <2>4 DEF DatasetOf
<1>2. ASSUME NEW i \in DOMAIN ncvars, ncvars[i].name = scale, \A d \in DOMAIN dims : dims[d].name # scale
      PROVE  Objects[scale].attrs.reference_list = {}
  <2>1. ~IsCoordinateVariable(ncvars[i])
    BY <1>2 DEF IsCoordinateVariable, NamesOf
  <2>2. AttributesOf(ncvars[i]).reference_list = {}
    BY <2>1 DEF AttributesOf, Plain
  <2>3. Objects[scale] = DatasetOf(ncvars[i])
    BY <1>2, ObjectsAre
  <2> QED
    BY <2>2, <2>3 DEF DatasetOf
<1>3. ASSUME NEW e \in DOMAIN dims, dims[e].name = scale, IsPure(e)
      PROVE  /\ Objects[scale].attrs.reference_list = ReferenceEntries(e)
             /\ \A d \in DOMAIN dims : dims[d].name = scale => d = e
  <2>1. Objects[scale] = PlaceholderOf(e)
    BY <1>3, ObjectsAre
  <2>2. PlaceholderOf(e).attrs.reference_list = ReferenceEntries(e)
    BY DEF PlaceholderOf, Plain
  <2> QED
    BY <1>3, <2>1, <2>2 DEF DefsAreSound
<1> QED
  BY <1>1, <1>2, <1>3, ObjectsAre

\* The two directions are one relation, read off the variables' dimensions.
LEMMA MirrorFollows ==
    ASSUME NcTypeOK, DefsAreSound, FileIsBuilt
    PROVE  ReferencesMirror
<1> SUFFICES ASSUME IsWritten, NEW scale \in DatasetNames, NEW n \in DatasetNames,
                    NEW k \in DOMAIN file.objects[n].attrs.coordinates
             PROVE  <<n, k>> \in file.objects[scale].attrs.reference_list
                      <=> /\ k \in DOMAIN file.objects[n].attrs.dimension_list
                          /\ file.objects[n].attrs.dimension_list[k] = scale
  BY DEF ReferencesMirror
<1>1. file.objects = Objects
  BY DEF FileIsBuilt
<1>2. ASSUME NEW d \in DOMAIN dims, dims[d].name = n, IsPure(d) PROVE FALSE
  <2>1. Objects[n] = PlaceholderOf(d)
    BY <1>2, ObjectsAre
  <2>2. PlaceholderOf(d).attrs.coordinates = <<>>
    BY DEF PlaceholderOf, Plain
  <2>3. Objects[n].attrs.coordinates = <<>>
    BY <2>1, <2>2
  <2> QED
    BY <1>1, <2>3
<1>3. PICK i \in DOMAIN ncvars : ncvars[i].name = n
  BY <1>2, ObjectsAre
<1>4. Objects[n].attrs = AttributesOf(ncvars[i])
  <2>1. Objects[n] = DatasetOf(ncvars[i])
    BY <1>3, ObjectsAre
  <2>2. DatasetOf(ncvars[i]).attrs = AttributesOf(ncvars[i])
    BY DEF DatasetOf
  <2> QED
    BY <2>1, <2>2
<1>5. k \in DOMAIN ncvars[i].dim_ids
  <2>1. AttributesOf(ncvars[i]).coordinates = CoordinateIds(ncvars[i])
    BY DEF AttributesOf, Plain
  <2> QED
    BY <1>1, <1>4, <2>1 DEF CoordinateIds
<1>6. ncvars[i].dim_ids[k] \in DOMAIN dims
  BY <1>5 DEF DefsAreSound
<1>7. \A d : <<n, k>> \in ReferenceEntries(d) <=> ~IsCoordinateVariable(ncvars[i]) /\ ncvars[i].dim_ids[k] = d
  <2>1. \A j \in DOMAIN ncvars : ncvars[j].name = n => j = i
    BY <1>3 DEF DefsAreSound
  <2>2. \A v \in Range(ncvars) : v.name = n => v = ncvars[i]
    BY <2>1 DEF Range
  <2>3. ncvars[i] \in Range(ncvars)
    BY DEF Range
  <2>4. ASSUME NEW d
        PROVE  <<n, k>> \in ReferenceEntries(d) <=>
                   \E v \in Range(ncvars) : ~IsCoordinateVariable(v) /\ v.name = n
                                            /\ k \in DOMAIN v.dim_ids /\ v.dim_ids[k] = d
    BY DEF ReferenceEntries
  <2> QED
    BY <1>3, <1>5, <2>2, <2>3, <2>4
<1>8. CASE IsCoordinateVariable(ncvars[i])
  <2>1. AttributesOf(ncvars[i]).dimension_list = <<>>
    BY <1>8 DEF AttributesOf, Plain
  <2>2. <<n, k>> \notin Objects[scale].attrs.reference_list
    BY <1>7, <1>8, ListsAre
  <2> QED
    BY <1>1, <1>4, <2>1, <2>2
<1>9. CASE ~IsCoordinateVariable(ncvars[i])
  <2>1. AttributesOf(ncvars[i]).dimension_list = [x \in DOMAIN ncvars[i].dim_ids |-> dims[ncvars[i].dim_ids[x]].name]
    BY <1>9 DEF AttributesOf, Plain
  <2>2. \A d \in DOMAIN dims : dims[d].name = dims[ncvars[i].dim_ids[k]].name <=> ncvars[i].dim_ids[k] = d
    BY <1>6 DEF DefsAreSound
  <2>3. <<n, k>> \in Objects[scale].attrs.reference_list <=> dims[ncvars[i].dim_ids[k]].name = scale
    <3>1. CASE \E d \in DOMAIN dims : dims[d].name = scale
      <4>1. PICK d \in DOMAIN dims : dims[d].name = scale
        BY <3>1
      <4>2. Objects[scale].attrs.reference_list = ReferenceEntries(d)
        BY <4>1, ListsAre
      <4> QED
        BY <1>7, <1>9, <2>2, <4>1, <4>2
    <3>2. CASE \A d \in DOMAIN dims : dims[d].name # scale
      <4>1. Objects[scale].attrs.reference_list = {}
        BY <3>2, ListsAre
      <4> QED
        BY <1>6, <3>2, <4>1
    <3> QED
      BY <3>1, <3>2
  <2> QED
    BY <1>1, <1>4, <1>5, <2>1, <2>3
<1> QED
  BY <1>8, <1>9

-----------------------------------------------------------------------------
(* What can be written *)

\* Names created at the root are all different unless a group's is not.
LEMMA NamesAreNew ==
    ASSUME DefsAreSound
    PROVE  IsInjective(NamesWritten) <=> ~NamesClash
<1> DEFINE D == ({"group"} \X DOMAIN groups)
                  \cup ({"scale"} \X {d \in DOMAIN dims : IsPure(d)})
                  \cup ({"variable"} \X DOMAIN ncvars)
           N == NamesWritten
<1>1. DOMAIN N = D
  BY DEF NamesWritten
<1>2. \A g \in DOMAIN groups : <<"group", g>> \in D /\ N[<<"group", g>>] = groups[g]
  BY DEF NamesWritten
<1>3. \A d \in DOMAIN dims : IsPure(d) => <<"scale", d>> \in D /\ N[<<"scale", d>>] = dims[d].name
  BY DEF NamesWritten
<1>4. \A i \in DOMAIN ncvars : <<"variable", i>> \in D /\ N[<<"variable", i>>] = ncvars[i].name
  BY DEF NamesWritten
<1>5. \A a \in D : \/ \E g \in DOMAIN groups : a = <<"group", g>>
                   \/ \E d \in DOMAIN dims : IsPure(d) /\ a = <<"scale", d>>
                   \/ \E i \in DOMAIN ncvars : a = <<"variable", i>>
  OBVIOUS
<1> HIDE DEF D, N
<1>6. ASSUME IsInjective(N) PROVE ~NamesClash
  <2>1. ASSUME NEW g \in DOMAIN groups, NEW h \in DOMAIN groups, groups[g] = groups[h] PROVE g = h
    <3>1. <<"group", g>> = <<"group", h>>
      BY <1>1, <1>2, <1>6, <2>1 DEF IsInjective
    <3> QED
      BY <3>1
  <2>2. ASSUME NEW g \in DOMAIN groups, NEW i \in DOMAIN ncvars, groups[g] = ncvars[i].name PROVE FALSE
    <3>1. <<"group", g>> = <<"variable", i>>
      BY <1>1, <1>2, <1>4, <1>6, <2>2 DEF IsInjective
    <3> QED
      BY <3>1
  <2>3. ASSUME NEW g \in DOMAIN groups, NEW d \in DOMAIN dims, groups[g] = dims[d].name PROVE FALSE
    <3>1. CASE IsPure(d)
      <4>1. <<"group", g>> = <<"scale", d>>
        BY <1>1, <1>2, <1>3, <1>6, <2>3, <3>1 DEF IsInjective
      <4> QED
        BY <4>1
    <3>2. CASE ~IsPure(d)
      <4>1. PICK i \in DOMAIN ncvars : ncvars[i].name = dims[d].name
        BY <3>2 DEF IsPure, NamesOf
      <4> QED
        BY <2>2, <2>3, <4>1
    <3> QED
      BY <3>1, <3>2
  <2>4. IsInjective(groups)
    BY <2>1 DEF IsInjective
  <2>5. Range(groups) \cap (NamesOf(dims) \cup NamesOf(ncvars)) = {}
    BY <2>2, <2>3 DEF Range, NamesOf
  <2> QED
    BY <2>4, <2>5 DEF NamesClash
<1>7. ASSUME ~NamesClash PROVE IsInjective(N)
  <2>1. /\ \A g, h \in DOMAIN groups : groups[g] = groups[h] => g = h
        /\ \A g \in DOMAIN groups : \A d \in DOMAIN dims : groups[g] # dims[d].name
        /\ \A g \in DOMAIN groups : \A i \in DOMAIN ncvars : groups[g] # ncvars[i].name
    BY <1>7 DEF NamesClash, IsInjective, Range, NamesOf
  <2>2. /\ \A d, e \in DOMAIN dims : dims[d].name = dims[e].name => d = e
        /\ \A i, j \in DOMAIN ncvars : ncvars[i].name = ncvars[j].name => i = j
        /\ \A d \in DOMAIN dims : \A i \in DOMAIN ncvars : IsPure(d) => dims[d].name # ncvars[i].name
    BY DEF DefsAreSound, IsPure, NamesOf
  <2>3. SUFFICES ASSUME NEW a \in D, NEW b \in D, N[a] = N[b] PROVE a = b
    BY <1>1 DEF IsInjective
  <2>4. CASE \E g \in DOMAIN groups : a = <<"group", g>>
    BY <1>2, <1>3, <1>4, <1>5, <2>1, <2>3, <2>4
  <2>5. CASE \E d \in DOMAIN dims : IsPure(d) /\ a = <<"scale", d>>
    BY <1>2, <1>3, <1>4, <1>5, <2>1, <2>2, <2>3, <2>5
  <2>6. CASE \E i \in DOMAIN ncvars : a = <<"variable", i>>
    BY <1>2, <1>3, <1>4, <1>5, <2>1, <2>2, <2>3, <2>6
  <2> QED
    BY <1>5, <2>4, <2>5, <2>6
<1> QED
  BY <1>6, <1>7 DEF N

\* The data of a dataset is as long as its shape says.
LEMMA DataFillsShapes ==
    ASSUME NcTypeOK, DefsAreSound, NEW i \in DOMAIN ncvars
    PROVE  /\ Len(DatasetOf(ncvars[i]).data) = Volume(ShapeNow(ncvars[i]))
           /\ Volume(DatasetOf(ncvars[i]).shape) = Volume(ShapeNow(ncvars[i]))
           /\ DatasetOf(ncvars[i]).data = Resized(DataOf(ncvars[i]), Volume(ShapeNow(ncvars[i])))
<1> DEFINE n == Volume(ShapeNow(ncvars[i]))
<1>1. n \in Nat
  BY ShapesAre
<1>2. DatasetOf(ncvars[i]).data = Resized(DataOf(ncvars[i]), n)
  BY DEF DatasetOf
<1>3. DatasetOf(ncvars[i]).shape = IF ncvars[i].nc_type = "String" THEN <<n>> ELSE ShapeNow(ncvars[i])
  BY DEF DatasetOf
<1>4. Volume(<<n>>) = n
  BY <1>1, SmallVolumes
<1> HIDE DEF n
<1>5. Len(Resized(DataOf(ncvars[i]), n)) = n
  BY <1>1 DEF Resized
<1> QED
  BY <1>2, <1>3, <1>4, <1>5 DEF n

\* What fits a chunk does not outgrow it.
LEMMA FitsOrOutgrows ==
    ASSUME NEW shape \in Seq(Nat), Volume(shape) \in Nat, NEW bytes \in {4, 8}
    PROVE  ChunkFits(shape, bytes) <=> ~OutgrowsChunk(shape, bytes)
<1>1. MAX_CHUNK_BYTES \in Nat /\ MAX_AXES \in Nat
  BY NetcdfAssumption
<1>2. Len(shape) \in Nat /\ \A k \in DOMAIN shape : shape[k] \in Nat
  OBVIOUS
<1>3. Volume(shape) * bytes \in Nat
  OBVIOUS
<1>4. (Len(shape) < MAX_AXES) <=> ~(Len(shape) >= MAX_AXES)
  BY <1>1, <1>2
<1>5. \A k \in DOMAIN shape : (shape[k] <= MAX_CHUNK_BYTES) <=> ~(shape[k] > MAX_CHUNK_BYTES)
  BY <1>1, <1>2
<1>6. (Volume(shape) * bytes <= MAX_CHUNK_BYTES) <=> ~(Volume(shape) * bytes > MAX_CHUNK_BYTES)
  BY <1>1, <1>3
<1> QED
  BY <1>4, <1>5, <1>6 DEF ChunkFits, OutgrowsChunk

\* A dimension's own dataset is written unless the length that is meant is too much.
LEMMA ScalesFitTheirLimits ==
    ASSUME NEW d \in DOMAIN dims, LengthMeant(d) = dims[d].size, dims[d].size \in Nat
    PROVE  ScaleFits(d) <=> ~(/\ IsPure(d)
                              /\ \/ LengthMeant(d) > MAX_VAR_ELEMENTS
                                 \/ dims[d].unlimited /\ OutgrowsChunk(<<LengthMeant(d)>>, 4))
<1>1. (dims[d].size <= MAX_VAR_ELEMENTS) <=> ~(LengthMeant(d) > MAX_VAR_ELEMENTS)
  BY NetcdfAssumption
<1> DEFINE shape == <<dims[d].size>>
<1>2. shape \in Seq(Nat) /\ Volume(shape) \in Nat /\ shape = <<LengthMeant(d)>>
  BY SmallVolumes
<1>3. BytesIn("Float32") = 4
  BY DEF BytesIn
<1> HIDE DEF shape
<1>4. ChunkFits(shape, 4) <=> ~OutgrowsChunk(shape, 4)
  BY <1>2, FitsOrOutgrows
<1>5. ChunkFits(shape, BytesIn("Float32")) <=> ~OutgrowsChunk(<<LengthMeant(d)>>, 4)
  BY <1>2, <1>3, <1>4
<1> QED
  BY <1>1, <1>5 DEF ScaleFits, shape

\* So is a variable, if its type can be.
LEMMA VariablesFitTheirLimits ==
    ASSUME NcTypeOK, DefsAreSound, NEW i \in DOMAIN ncvars, ShapeMeant(i) = ShapeNow(ncvars[i])
    PROVE  VariableFits(ncvars[i]) <=>
               /\ Takes(ncvars[i].nc_type) # {}
               /\ ~(\/ Volume(ShapeMeant(i)) > MAX_VAR_ELEMENTS
                    \/ Len(ncvars[i].dim_ids) > MAX_AXES
                    \/ CanGrow(ncvars[i]) /\ OutgrowsChunk(ShapeMeant(i), BytesIn(ncvars[i].nc_type)))
<1> DEFINE shape == ShapeNow(ncvars[i])
           bytes == BytesIn(ncvars[i].nc_type)
<1>1. shape \in Seq(Nat) /\ Volume(shape) \in Nat
  BY ShapesAre
<1>2. Len(DatasetOf(ncvars[i]).data) = Volume(DatasetOf(ncvars[i]).shape)
  BY DataFillsShapes
<1>3. bytes \in {4, 8}
  BY DEF BytesIn
<1>4. ncvars[i].dim_ids \in Seq(Nat) /\ Len(ncvars[i].dim_ids) \in Nat
  BY DefTypes
<1> HIDE DEF shape, bytes
<1>5. (Volume(shape) <= MAX_VAR_ELEMENTS) <=> ~(Volume(shape) > MAX_VAR_ELEMENTS)
  BY <1>1, NetcdfAssumption
<1>6. (Len(ncvars[i].dim_ids) <= MAX_AXES) <=> ~(Len(ncvars[i].dim_ids) > MAX_AXES)
  BY <1>4, NetcdfAssumption
<1>7. ChunkFits(shape, bytes) <=> ~OutgrowsChunk(shape, bytes)
  BY <1>1, <1>3, FitsOrOutgrows
<1> QED
  BY <1>2, <1>5, <1>6, <1>7 DEF VariableFits, shape, bytes

\* What close tests is that names, sizes, numbers and types can be written.
LEMMA AcceptedIsWritable ==
    ASSUME NcTypeOK, DefsAreSound, \A d \in DOMAIN dims : SizeIsMeant(d)
    PROVE  CloseAccepts <=> ~(\/ NamesClash \/ TooLarge \/ TooMany
                              \/ \E v \in Range(ncvars) : Takes(v.nc_type) = {})
<1>1. \A d \in DOMAIN dims : LengthMeant(d) = dims[d].size /\ dims[d].size \in Nat
  BY LengthsAreMeant, DefTypes
<1>2. \A i \in DOMAIN ncvars : ShapeMeant(i) = ShapeNow(ncvars[i])
  BY ShapesAreMeant
<1> DEFINE Long(d) == /\ IsPure(d)
                      /\ \/ LengthMeant(d) > MAX_VAR_ELEMENTS
                         \/ dims[d].unlimited /\ OutgrowsChunk(<<LengthMeant(d)>>, 4)
           Large(i) == \/ Volume(ShapeMeant(i)) > MAX_VAR_ELEMENTS
                       \/ Len(ncvars[i].dim_ids) > MAX_AXES
                       \/ CanGrow(ncvars[i])
                          /\ OutgrowsChunk(ShapeMeant(i), BytesIn(ncvars[i].nc_type))
<1>3. \A d \in DOMAIN dims : ScaleFits(d) <=> ~Long(d)
  BY <1>1, ScalesFitTheirLimits
<1>4. \A i \in DOMAIN ncvars :
          VariableFits(ncvars[i]) <=> Takes(ncvars[i].nc_type) # {} /\ ~Large(i)
  BY <1>2, VariablesFitTheirLimits
<1>5. TooLarge <=> (\E d \in DOMAIN dims : Long(d)) \/ (\E i \in DOMAIN ncvars : Large(i))
  BY DEF TooLarge
<1> HIDE DEF Long, Large
<1>6. (\E v \in Range(ncvars) : Takes(v.nc_type) = {}) <=> \E i \in DOMAIN ncvars : Takes(ncvars[i].nc_type) = {}
  BY DEF Range
<1>7. (\A v \in Range(ncvars) : VariableFits(v)) <=> \A i \in DOMAIN ncvars : VariableFits(ncvars[i])
  BY DEF Range
<1>8. CloseAccepts <=> /\ IsInjective(NamesWritten) /\ ~TooMany
                       /\ \A d \in DOMAIN dims : ScaleFits(d)
                       /\ \A i \in DOMAIN ncvars : VariableFits(ncvars[i])
  BY <1>7 DEF CloseAccepts, TooMany
<1> QED
  BY <1>3, <1>4, <1>5, <1>6, <1>8, NamesAreNew

\* The invariant leaves close no other reason to fail.
LEMMA CloseFailsFollows ==
    ASSUME NetcdfInv
    PROVE  CloseFailsIffUnwritable
<1> SUFFICES ASSUME IsWritten \/ stage = "failed", Documented
             PROVE  stage = "failed" <=> \/ NamesClash \/ TooLarge \/ TooMany
                                         \/ \E v \in Range(ncvars) : Takes(v.nc_type) = {}
  BY DEF CloseFailsIffUnwritable
<1>1. NcTypeOK /\ DefsAreSound /\ FileIsBuilt /\ \A d \in DOMAIN dims : SizeIsMeant(d)
  BY DEF NetcdfInv, AsDocumented
<1>2. CloseAccepts <=> ~(\/ NamesClash \/ TooLarge \/ TooMany
                         \/ \E v \in Range(ncvars) : Takes(v.nc_type) = {})
  BY <1>1, AcceptedIsWritable
<1>3. (IsWritten => CloseAccepts /\ stage # "failed") /\ (stage = "failed" => ~CloseAccepts)
  BY <1>1 DEF FileIsBuilt, IsWritten
<1> QED
  BY <1>2, <1>3

-----------------------------------------------------------------------------
(* What a variable holds *)

\* Values as they are written, converted or not.
Written(nc_type) == Value \cup ({nc_type} \X Value)

\* Sequences one after the other.
LEMMA Joined ==
    ASSUME NEW S, NEW s \in Seq(S), NEW t \in Seq(S)
    PROVE  /\ s \o t \in Seq(S) /\ Len(s \o t) = Len(s) + Len(t)
           /\ \A j \in 1..Len(s) : (s \o t)[j] = s[j]
           /\ \A j \in 1..Len(t) : (s \o t)[Len(s) + j] = t[j]
  OBVIOUS

\* The data of a variable whose kinds fit: what was put, converted, then what was
\* appended.
LEMMA HeldData ==
    ASSUME NEW v \in VarRecord,
           v.data.kind \in Takes(v.nc_type) \/ v.data = NoData,
           v.appended_f64 = <<>> \/ v.nc_type = "Float64",
           v.appended_i32 = <<>> \/ v.nc_type = "Int32"
    PROVE  /\ Held(v) \in Nat
           /\ DataOf(v) \in Seq(Written(v.nc_type))
           /\ Len(DataOf(v)) = Held(v)
           /\ \A j \in 1..Len(v.data.values) :
                  DataOf(v)[j] = Converted(v.nc_type, v.data.kind, v.data.values[j])
           /\ \A j \in 1..(Len(v.appended_f64) + Len(v.appended_i32)) :
                  DataOf(v)[Len(v.data.values) + j] = IF v.nc_type = "Float64" THEN v.appended_f64[j]
                                                      ELSE v.appended_i32[j]
<1> DEFINE type == v.nc_type
           W == Written(type)
           a == v.data.values
           b == v.appended_f64
           c == v.appended_i32
           put == IF v.data.kind \in Takes(type)
                  THEN [i \in DOMAIN a |-> Converted(type, v.data.kind, a[i])] ELSE <<>>
           more == CASE type = "Float64" -> b [] type = "Int32" -> c [] OTHER -> <<>>
<1>1. a \in Seq(Value) /\ b \in Seq(Value) /\ c \in Seq(Value)
  BY DEF VarRecord
<1>2. DataOf(v) = put \o more
  BY DEF DataOf
<1>3. Value \subseteq W /\ \A x \in Value : <<type, x>> \in W
  BY DEF Written
<1>4. v.data = NoData => a = <<>>
  BY DEF NoData
<1> HIDE DEF a, b, c, W, type
<1>5. put \in Seq(W) /\ Len(put) = Len(a)
      /\ \A i \in 1..Len(a) : put[i] = Converted(type, v.data.kind, a[i])
  <2>1. CASE v.data.kind \in Takes(type)
    <3>1. \A x \in Value : Converted(type, v.data.kind, x) \in W
      BY <1>3 DEF Converted
    <3>2. put = [i \in 1..Len(a) |-> Converted(type, v.data.kind, a[i])] /\ Len(a) \in Nat
          /\ \A i \in 1..Len(a) : a[i] \in Value
      BY <1>1, <2>1
    <3> HIDE DEF put
    <3> QED
      BY <3>1, <3>2
  <2>2. CASE v.data.kind \notin Takes(type)
    <3>1. a = <<>> /\ put = <<>>
      BY <1>4, <2>2 DEF type
    <3> QED
      BY <3>1
  <2> QED
    BY <2>1, <2>2
<1>6. more \in Seq(W) /\ Len(more) = Len(b) + Len(c)
      /\ \A j \in 1..(Len(b) + Len(c)) : more[j] = IF type = "Float64" THEN b[j] ELSE c[j]
  <2>1. /\ b = <<>> \/ type = "Float64"
        /\ c = <<>> \/ type = "Int32"
    BY DEF b, c, type
  <2>2. b \in Seq(W) /\ c \in Seq(W) /\ <<>> \in Seq(W)
    BY <1>1, <1>3
  <2>3. CASE type = "Float64"
    <3>1. c = <<>> /\ more = b
      BY <2>1, <2>3
    <3> QED
      BY <1>1, <2>2, <2>3, <3>1
  <2>4. CASE type = "Int32"
    <3>1. b = <<>> /\ more = c
      BY <2>1, <2>4
    <3> QED
      BY <1>1, <2>2, <2>4, <3>1
  <2>5. CASE type # "Float64" /\ type # "Int32"
    <3>1. b = <<>> /\ c = <<>> /\ more = <<>>
      BY <2>1, <2>5
    <3> QED
      BY <2>2, <3>1
  <2> QED
    BY <2>3, <2>4, <2>5
<1> HIDE DEF put, more
<1>7. /\ DataOf(v) \in Seq(W) /\ Len(DataOf(v)) = Len(a) + (Len(b) + Len(c))
      /\ \A j \in 1..Len(a) : DataOf(v)[j] = put[j]
      /\ \A j \in 1..(Len(b) + Len(c)) : DataOf(v)[Len(a) + j] = more[j]
  <2>1. /\ put \o more \in Seq(W) /\ Len(put \o more) = Len(put) + Len(more)
        /\ \A j \in 1..Len(put) : (put \o more)[j] = put[j]
        /\ \A j \in 1..Len(more) : (put \o more)[Len(put) + j] = more[j]
    <3>1. put \in Seq(W) /\ more \in Seq(W)
      BY <1>5, <1>6
    <3> QED
      BY ONLY <3>1, Joined
  <2> QED
    BY <1>2, <1>5, <1>6, <2>1
<1>8. Held(v) = Len(a) + (Len(b) + Len(c)) /\ Held(v) \in Nat
  <2>1. Held(v) = Len(a) + Len(b) + Len(c)
    BY DEF Held, a, b, c
  <2>2. Len(a) \in Nat /\ Len(b) \in Nat /\ Len(c) \in Nat
    BY <1>1
  <2> QED
    BY <2>1, <2>2
<1>9. \A j \in 1..Len(a) : DataOf(v)[j] = Converted(type, v.data.kind, a[j])
  BY <1>5, <1>7
<1>10. \A j \in 1..(Len(b) + Len(c)) : DataOf(v)[Len(a) + j] = IF type = "Float64" THEN b[j] ELSE c[j]
  BY <1>6, <1>7
<1>11. DataOf(v) \in Seq(W) /\ Len(DataOf(v)) = Held(v)
  BY <1>7, <1>8
<1> QED
  BY <1>8, <1>9, <1>10, <1>11 DEF a, b, c, W, type

\* A call's first record and the records after it are numbers.
LEMMA CallsHaveRecords ==
    ASSUME NcTypeOK, NEW i, NEW n \in DOMAIN calls
    PROVE  /\ n \in Nat \ {0} /\ n <= Len(calls)
           /\ FirstRecord(i, n) \in Nat /\ Records(i, n) \in Nat
           /\ Records(i, Len(calls)) \in Nat
<1>1. calls \in Seq(CallRecord)
  BY DEF NcTypeOK
<1>2. n \in 1..Len(calls) /\ n \in 0..Len(calls) /\ n - 1 \in 0..Len(calls) /\ Len(calls) \in 0..Len(calls)
  BY <1>1
<1>3. \A m \in 0..Len(calls) : Records(i, m) \in Nat
  BY <1>1, RecordsAre DEF Records
<1> QED
  BY <1>2, <1>3 DEF FirstRecord

\* No coordinates are of the only element.
LEMMA FlatNothing ==
    Flatten(<<>>, <<>>) = 0 /\ \A flat : Unflatten(flat, <<>>) = <<>>
<1> DEFINE Is(f) == f = [d \in 0..Len(<<>>) |-> IF d = 0 THEN 0 ELSE f[d - 1] + <<>>[d] * Strides(<<>>)[d]]
           chosen == CHOOSE f : Is(f)
           zero == [d \in 0..0 |-> 0]
<1>1. Is(zero)
  <2>1. \A d \in 0..0 : d = 0
    OBVIOUS
  <2>2. Len(<<>>) = 0
    OBVIOUS
  <2> QED
    BY <2>1, <2>2
<1>2. Is(chosen)
  <2> HIDE DEF Is, zero
  <2> QED
    BY <1>1
<1>3. Flatten(<<>>, <<>>) = chosen[0]
  BY DEF Flatten
<1> HIDE DEF chosen
<1>4. chosen[0] = 0
  BY <1>2
<1>5. ASSUME NEW flat PROVE Unflatten(flat, <<>>) = <<>>
  <2>1. DOMAIN <<>> = {}
    OBVIOUS
  <2> QED
    BY <2>1 DEF Unflatten
<1> QED
  BY <1>3, <1>4, <1>5

-----------------------------------------------------------------------------
(* Data *)

\* Where a place has the last call that covers it, the element there is meant.
LEMMA DataFollows ==
    ASSUME NetcdfInv
    PROVE  DataReadsBack
<1> SUFFICES ASSUME IsWritten, Documented, NEW i \in DOMAIN ncvars, KindsFit(i)
             PROVE  LET data == file.objects[ncvars[i].name].data
                    IN  /\ Len(data) = Volume(ShapeMeant(i))
                        /\ \A n \in DOMAIN data : data[n] = Meant(i, Unflatten(n - 1, ShapeMeant(i)))
  BY DEF DataReadsBack
<1> DEFINE v == ncvars[i]
           shape == ShapeNow(v)
           stride == TrailingStride(v)
           data == file.objects[v.name].data
<1>1. /\ NcTypeOK /\ DefsAreSound /\ FileIsBuilt
      /\ \A d \in DOMAIN dims : SizeIsMeant(d)
      /\ RecordsGrow(i) /\ HoldsRecords(i) /\ KindIsKept(i) /\ DataIsMeant(i)
  BY DEF NetcdfInv, AsDocumented
<1>2. ShapeMeant(i) = shape
  BY <1>1, ShapesAreMeant
<1>3. data = Resized(DataOf(v), Volume(shape)) /\ Volume(shape) \in Nat
  <2>1. file.objects[v.name] = DatasetOf(v)
    BY <1>1, ObjectsAre DEF FileIsBuilt
  <2> QED
    BY <1>1, <2>1, DataFillsShapes, ShapesAre
<1>4. DOMAIN data = 1..Volume(shape) /\ Len(data) = Volume(shape)
      /\ \A n \in 1..Volume(shape) : data[n] = IF n <= Len(DataOf(v)) THEN DataOf(v)[n] ELSE Fill
  BY <1>3 DEF Resized
<1>5. Len(DataOf(v)) = Held(v) /\ Held(v) \in Nat
  BY <1>1, DefTypes, HeldData DEF KindIsKept
<1>6. CallsOn(i) \subseteq Nat /\ \A n \in CallsOn(i) : n \in DOMAIN calls
  BY <1>1, CallsHaveRecords DEF CallsOn
<1> SUFFICES ASSUME NEW place \in 1..Volume(shape)
             PROVE  data[place] = Meant(i, Unflatten(place - 1, shape))
  BY <1>2, <1>4
<1> DEFINE at == Unflatten(place - 1, shape)
           writers == {n \in CallsOn(i) : Writes(i, n, at)}
           inCall(n) == IF at = <<>> THEN at ELSE [at EXCEPT ![1] = @ - FirstRecord(i, n)]
           meant(n) == Converted(v.nc_type, calls[n].kind, calls[n].data[Flatten(inCall(n), shape) + 1])
<1> HIDE DEF data
<1>7. Meant(i, at) = IF writers = {} THEN Fill ELSE meant(Max(writers))
  BY <1>2 DEF Meant
<1>8. \A n \in CallsOn(i) : Writes(i, n, at) <=> Covers(i, n, place)
  <2>1. CASE v.dim_ids = <<>>
    <3>1. shape = <<>>
      BY <1>1, <2>1, ShapesAre
    <3>2. at = <<>>
      BY <3>1, FlatNothing
    <3> QED
      BY <2>1, <3>2 DEF Writes, Covers
  <2>2. CASE v.dim_ids # <<>>
    <3>1. shape \in Seq(Nat) /\ shape # <<>> /\ stride = Volume(Tail(shape)) /\ stride \in Nat
      BY <1>1, <2>2, ShapesAre
    <3>2. at # <<>> /\ at[1] \in Nat /\ \A r \in Nat : r <= at[1] <=> r * stride < place
      BY <3>1, PlaceInRecords
    <3> SUFFICES ASSUME NEW n \in CallsOn(i) PROVE Writes(i, n, at) <=> Covers(i, n, place)
      OBVIOUS
    <3> DEFINE f == FirstRecord(i, n)
               r == Records(i, n)
    <3>3. f \in Nat /\ r \in Nat
      BY <1>1, <1>6, CallsHaveRecords
    <3>4. Writes(i, n, at) <=> at[1] \in f..(r - 1)
      BY <3>2 DEF Writes
    <3>5. Covers(i, n, place) <=> place \in (f * stride + 1)..(r * stride)
      BY <2>2 DEF Covers
    <3> HIDE DEF f, r, at, stride
    <3>6. f * stride \in Nat /\ r * stride \in Nat /\ place \in Nat
      BY <1>3, <3>1, <3>3, ProductsAreNatural
    <3>7. /\ f <= at[1] <=> f * stride < place
          /\ r <= at[1] <=> r * stride < place
      BY <3>2, <3>3
    <3>8. at[1] \in f..(r - 1) <=> f <= at[1] /\ ~(r <= at[1])
      BY <3>2, <3>3
    <3> DEFINE from == f * stride
               upto == r * stride
    <3> HIDE DEF from, upto
    <3>9. place \in (from + 1)..upto <=> from < place /\ ~(upto < place)
      BY <3>6 DEF from, upto
    <3> QED
      BY <3>4, <3>5, <3>7, <3>8, <3>9 DEF from, upto
  <2> QED
    BY <2>1, <2>2
<1>9. v.dim_ids # <<>> => stride \in Nat /\ stride > 0 /\ stride = Volume(Tail(shape)) /\ shape \in Seq(Nat) /\ shape # <<>>
  <2> SUFFICES ASSUME v.dim_ids # <<>> PROVE stride \in Nat /\ stride > 0 /\ stride = Volume(Tail(shape)) /\ shape \in Seq(Nat) /\ shape # <<>>
    OBVIOUS
  <2>1. shape \in Seq(Nat) /\ shape # <<>> /\ stride = Volume(Tail(shape)) /\ stride \in Nat
    BY <1>1, ShapesAre
  <2>2. Volume(shape) # 0
    BY <1>3
  <2>3. Volume(Tail(shape)) \in Nat \ {0}
    BY <2>1, <2>2, ElementsMakeGrids
  <2> HIDE DEF shape, stride
  <2> QED
    BY <2>1, <2>3
<1>10. CASE place <= Len(DataOf(v))
  <2>1. PlaceIsMeant(i, place)
    <3>1. v.dim_ids = <<>> \/ stride > 0
      BY <1>9
    <3>2. place \in 1..Len(DataOf(v))
      BY <1>3, <1>5, <1>10
    <3> QED
      BY <1>1, <3>1, <3>2 DEF DataIsMeant
  <2>2. PICK n \in CallsOn(i) :
          /\ Covers(i, n, place)
          /\ \A m \in CallsOn(i) : m > n => ~Covers(i, m, place)
          /\ DataOf(v)[place] = Converted(v.nc_type, calls[n].kind, calls[n].data[place - FirstRecord(i, n) * stride])
    BY <2>1 DEF PlaceIsMeant
  <2>3. Max(writers) = n /\ writers # {}
    <3>1. n \in writers /\ writers \subseteq Nat
      BY <1>6, <1>8, <2>2
    <3>2. \A m \in writers : ~(m > n)
      BY <1>8, <2>2
    <3>3. \A m \in writers : n >= m
      <4> HIDE DEF writers
      <4> QED
        BY <3>1, <3>2
    <3> HIDE DEF writers
    <3>4. Max(writers) = n
      BY <3>1, <3>3, GreatestIsMax
    <3> QED
      BY <3>1, <3>4
  <2>4. Flatten(inCall(n), shape) + 1 = place - FirstRecord(i, n) * stride
    <3>1. FirstRecord(i, n) \in Nat
      BY <1>1, <1>6, CallsHaveRecords
    <3>2. CASE v.dim_ids = <<>>
      <4>1. shape = <<>> /\ at = <<>>
        BY <1>1, <3>2, ShapesAre, FlatNothing
      <4>2. stride = 0 /\ Volume(shape) = 1
        BY <3>2, <4>1, SmallVolumes DEF TrailingStride
      <4>3. place = 1
        BY <4>2
      <4>4. FirstRecord(i, n) * stride = 0
        BY <3>1, <4>2
      <4>5. Flatten(inCall(n), shape) = 0
        BY <4>1, FlatNothing
      <4> QED
        BY <4>3, <4>4, <4>5
    <3>3. CASE v.dim_ids # <<>>
      <4>1. /\ at # <<>> /\ at[1] \in Nat
            /\ \A r \in Nat : r <= at[1] => Flatten([at EXCEPT ![1] = @ - r], shape) + 1 = place - r * stride
        BY <1>9, <3>3, PlaceInRecords
      <4>2. Writes(i, n, at)
        BY <1>8, <2>2
      <4>3. at[1] \in FirstRecord(i, n)..(Records(i, n) - 1) /\ Records(i, n) \in Nat
        BY <1>1, <1>6, <4>1, <4>2, CallsHaveRecords DEF Writes
      <4> HIDE DEF at
      <4>4. FirstRecord(i, n) <= at[1]
        BY <3>1, <4>1, <4>3
      <4>5. inCall(n) = [at EXCEPT ![1] = @ - FirstRecord(i, n)]
        BY <4>1
      <4> QED
        BY <3>1, <4>1, <4>4, <4>5
    <3> QED
      BY <3>2, <3>3
  <2>5. meant(n) = DataOf(v)[place]
    BY <2>2, <2>4
  <2>6. data[place] = DataOf(v)[place]
    BY <1>4, <1>10
  <2> HIDE DEF meant, writers
  <2> QED
    BY <1>7, <2>3, <2>5, <2>6
<1>11. CASE ~(place <= Len(DataOf(v)))
  <2>1. data[place] = Fill
    BY <1>4, <1>11
  <2>2. ASSUME NEW n \in CallsOn(i), Covers(i, n, place) PROVE FALSE
    <3>1. CASE v.dim_ids = <<>>
      <4>1. Held(v) = 1
        BY <1>1, <2>2, <3>1 DEF HoldsRecords
      <4>2. Volume(shape) = 1
        BY <1>1, <3>1, ShapesAre, SmallVolumes
      <4>3. place = 1
        BY <4>2
      <4> QED
        BY <1>5, <1>11, <4>1, <4>3
    <3>2. CASE v.dim_ids # <<>>
      <4> DEFINE r == Records(i, n)
                 all == Records(i, Len(calls))
      <4>1. r \in Nat /\ all \in Nat /\ n \in 0..Len(calls) /\ FirstRecord(i, n) \in Nat
        BY <1>1, <1>6, CallsHaveRecords
      <4>2. r <= all
        BY <1>1, <4>1 DEF RecordsGrow
      <4>3. Held(v) = all * stride /\ stride \in Nat
        BY <1>1, <1>9, <3>2 DEF HoldsRecords
      <4>4. place \in (FirstRecord(i, n) * stride + 1)..(r * stride)
        BY <2>2, <3>2 DEF Covers
      <4> HIDE DEF r, all, stride
      <4>5. r * stride <= all * stride /\ r * stride \in Nat /\ all * stride \in Nat /\ FirstRecord(i, n) * stride \in Nat
        BY <4>1, <4>2, <4>3, ProductsGrow, ProductsAreNatural
      <4>6. place \in Nat /\ place <= r * stride
        BY <1>3, <4>4, <4>5
      <4> QED
        BY <1>5, <1>11, <4>3, <4>5, <4>6
    <3> QED
      BY <3>1, <3>2
  <2>3. writers = {}
    BY <1>8, <2>2
  <2> HIDE DEF meant, writers
  <2> QED
    BY <1>7, <2>1, <2>3
<1> QED
  BY <1>10, <1>11

-----------------------------------------------------------------------------
(* What each call does *)

\* A sequence with one element replaced.
LEMMA Replacing ==
    ASSUME NEW T, NEW s \in Seq(T), NEW i \in DOMAIN s, NEW e \in T
    PROVE  /\ [s EXCEPT ![i] = e] \in Seq(T) /\ DOMAIN [s EXCEPT ![i] = e] = DOMAIN s
           /\ [s EXCEPT ![i] = e][i] = e
           /\ \A j \in DOMAIN s : j # i => [s EXCEPT ![i] = e][j] = s[j]
  OBVIOUS

\* A sequence with one more element.
LEMMA Appending ==
    ASSUME NEW T, NEW s \in Seq(T), NEW e \in T
    PROVE  /\ Append(s, e) \in Seq(T) /\ Len(Append(s, e)) = Len(s) + 1
           /\ DOMAIN s = 1..Len(s) /\ DOMAIN Append(s, e) = 1..(Len(s) + 1)
           /\ Append(s, e)[Len(s) + 1] = e
           /\ \A j \in 1..Len(s) : Append(s, e)[j] = s[j]
  OBVIOUS

\* The values of a call.
LEMMA ValuesAre ==
    ASSUME NcTypeOK, NEW n \in Nat
    PROVE  Values(n) \in Seq(Value) /\ Len(Values(n)) = n
<1>1. Len(calls) + 1 \in Nat
  BY DEF NcTypeOK
<1>2. \A i \in 1..n : <<Len(calls) + 1, i>> \in Value
  BY <1>1 DEF Value
<1> QED
  BY <1>2 DEF Values

\* The records a put leaves a variable with.
PutRecords(i) == IF ncvars[i].dim_ids = <<>> THEN 0 ELSE ShapeNow(ncvars[i])[1]

\* A put on variable i that is recorded as call c.
PutStep(i, kind, c) ==
    /\ dims' = dims /\ groups' = groups /\ stage' = stage /\ file' = file
    /\ ncvars' \in Seq(VarRecord) /\ DOMAIN ncvars' = DOMAIN ncvars
    /\ \A j \in DOMAIN ncvars : j # i => ncvars'[j] = ncvars[j]
    /\ ncvars'[i] = [ncvars[i] EXCEPT !.data = [kind |-> kind, values |-> c.data]]
    /\ calls' = Append(calls, c)
    /\ c.var = i /\ c.op = "put" /\ c.kind = kind /\ c.records = PutRecords(i)
    /\ Len(c.data) = Volume(ShapeNow(ncvars[i]))

\* That is what put_var_* does.
LEMMA PutVarDoes ==
    ASSUME NcTypeOK, DefsAreSound, NEW i \in DOMAIN ncvars, NEW kind \in {"f64", "i32", "str"}, PutVar(i, kind)
    PROVE  \E c \in CallRecord : PutStep(i, kind, c)
<1> DEFINE values == Values(Volume(ShapeNow(ncvars[i])))
           new == [ncvars[i] EXCEPT !.data = [kind |-> kind, values |-> values]]
           c == [var |-> i, op |-> "put", kind |-> kind, records |-> PutRecords(i), data |-> values]
<1>1. values \in Seq(Value) /\ Len(values) = Volume(ShapeNow(ncvars[i]))
  BY ShapesAre, ValuesAre
<1>2. ncvars \in Seq(VarRecord) /\ ncvars[i] \in VarRecord /\ i \in Nat
  BY DEF NcTypeOK
<1>3. ncvars' = [ncvars EXCEPT ![i] = new]
  BY <1>2 DEF PutVar
<1>4. calls' = Append(calls, c)
  BY DEF PutVar, Called, PutRecords
<1> HIDE DEF values
<1>5. new \in VarRecord
  BY <1>1, <1>2 DEF VarRecord
<1>6. c \in CallRecord
  <2>1. PutRecords(i) \in Nat
    BY ShapesAre, DefTypes DEF PutRecords
  <2> QED
    BY <1>1, <1>2, <2>1 DEF CallRecord
<1>7. /\ ncvars' \in Seq(VarRecord) /\ DOMAIN ncvars' = DOMAIN ncvars /\ ncvars'[i] = new
      /\ \A j \in DOMAIN ncvars : j # i => ncvars'[j] = ncvars[j]
  <2> HIDE DEF new
  <2> QED
    BY <1>2, <1>3, <1>5, Replacing
<1>8. c.var = i /\ c.op = "put" /\ c.kind = kind /\ c.records = PutRecords(i) /\ c.data = values
  OBVIOUS
<1>9. dims' = dims /\ groups' = groups /\ stage' = stage /\ file' = file
  BY DEF PutVar
<1> HIDE DEF c
<1>10. PutStep(i, kind, c)
  BY <1>1, <1>4, <1>7, <1>8, <1>9 DEF PutStep
<1> QED
  BY <1>6, <1>10

\* The records a variable holds are counted by the stride.
LEMMA CurrentRecordsAre ==
    ASSUME NEW v \in VarRecord, NEW stride \in Nat
    PROVE  /\ CurrentRecords(v, stride) \in Nat /\ Held(v) \in Nat
           /\ CurrentRecords(v, stride) = IF stride = 0 THEN 0 ELSE Held(v) \div stride
<1>1. Held(v) \in Nat
  BY DEF Held, VarRecord
<1>2. CurrentRecords(v, stride) = IF stride = 0 THEN 0 ELSE Held(v) \div stride
  BY DEF CurrentRecords, Held
<1>3. stride # 0 => Held(v) \div stride \in Nat
  <2> DEFINE h == Held(v)
  <2> HIDE DEF h
  <2>1. h \in Nat => (stride # 0 => h \div stride \in Nat)
    BY Dividing
  <2> QED
    BY <1>1, <2>1 DEF h
<1> QED
  BY <1>1, <1>2, <1>3

\* The size of dimension d after an append that leaves variable i as v.
SizeAfter(i, v, new_records, d) ==
    IF ncvars[i].dim_ids = <<>> \/ d # ncvars[i].dim_ids[1] THEN dims[d].size
    ELSE IF dims[d].unlimited THEN Larger(dims[d].size, CurrentRecords(v, TrailingStride(ncvars[i])))
    ELSE dims[d].size + new_records

\* An append to variable i that is recorded as call c.
AppendStep(i, field, c) ==
    /\ groups' = groups /\ stage' = stage /\ file' = file
    /\ ncvars' \in Seq(VarRecord) /\ DOMAIN ncvars' = DOMAIN ncvars
    /\ \A j \in DOMAIN ncvars : j # i => ncvars'[j] = ncvars[j]
    /\ ncvars'[i] = IF field = "appended_f64"
                    THEN [ncvars[i] EXCEPT !.appended_f64 = ncvars[i].appended_f64 \o c.data]
                    ELSE [ncvars[i] EXCEPT !.appended_i32 = ncvars[i].appended_i32 \o c.data]
    /\ dims' \in Seq(DimRecord) /\ DOMAIN dims' = DOMAIN dims
    /\ \A d \in DOMAIN dims : /\ dims'[d].name = dims[d].name /\ dims'[d].unlimited = dims[d].unlimited
                              /\ dims'[d].defined = dims[d].defined
                              /\ dims'[d].size = SizeAfter(i, ncvars'[i], c.records, d)
    /\ calls' = Append(calls, c)
    /\ c.var = i /\ c.op = "append" /\ c.kind = IF field = "appended_f64" THEN "f64" ELSE "i32"
    /\ TrailingStride(ncvars[i]) = 0 => c.records = 0
    /\ TrailingStride(ncvars[i]) # 0 => Len(c.data) = c.records * TrailingStride(ncvars[i])

\* That is what put_vara_* does.
LEMMA PutVaraDoes ==
    ASSUME NcTypeOK, DefsAreSound, NEW i \in DOMAIN ncvars, NEW n \in Nat,
           NEW field \in {"appended_f64", "appended_i32"},
           PutVara(i, field, IF field = "appended_f64" THEN "f64" ELSE "i32", n)
    PROVE  \E c \in CallRecord : AppendStep(i, field, c)
<1> DEFINE values == Values(n)
           kind == IF field = "appended_f64" THEN "f64" ELSE "i32"
           v == ncvars[i]
           stride == TrailingStride(v)
           new_records == IF stride = 0 THEN 0 ELSE n \div stride
           new == IF field = "appended_f64" THEN [v EXCEPT !.appended_f64 = v.appended_f64 \o values]
                                            ELSE [v EXCEPT !.appended_i32 = v.appended_i32 \o values]
           c == [var |-> i, op |-> "append", kind |-> kind, records |-> new_records, data |-> values]
           grown == [ncvars EXCEPT ![i] = new]
<1>1. values \in Seq(Value) /\ Len(values) = n
  BY ValuesAre
<1>2. ncvars \in Seq(VarRecord) /\ v \in VarRecord /\ i \in Nat /\ stride \in Nat
  BY ShapesAre DEF NcTypeOK
<1>3. ncvars' = grown
  <2>1. CASE field = "appended_f64"
    BY <1>2, <2>1 DEF PutVara
  <2>2. CASE field = "appended_i32"
    BY <1>2, <2>2 DEF PutVara
  <2> QED
    BY <2>1, <2>2
<1>4. calls' = Append(calls, c) /\ (stride > 0 => n % stride = 0)
  BY DEF PutVara, Called
<1>5. dims' = Grow(grown[i], stride, new_records)
  <2>1. dims' = Grow(ncvars'[i], stride, new_records)
    BY DEF PutVara
  <2> HIDE DEF grown
  <2> QED
    BY <1>3, <2>1
<1>6. groups' = groups /\ stage' = stage /\ file' = file
  BY DEF PutVara
<1> HIDE DEF values, stride
<1>7. new_records \in Nat /\ (stride = 0 => new_records = 0) /\ (stride # 0 => n = new_records * stride)
  <2>1. CASE stride = 0
    BY <2>1
  <2>2. CASE stride # 0
    <3>1. n = stride * (n \div stride) + (n % stride) /\ n \div stride \in Nat /\ n % stride = 0
      <4>1. stride \in Nat \ {0} /\ stride > 0
        BY <1>2, <2>2
      <4>2. n = stride * (n \div stride) + (n % stride) /\ n \div stride \in Nat
        BY ONLY <4>1, n \in Nat, Dividing
      <4> QED
        BY <1>4, <4>1, <4>2
    <3> DEFINE q == n \div stride
    <3>2. n = stride * q + 0 /\ q \in Nat /\ new_records = q
      BY <2>2, <3>1
    <3> HIDE DEF q, new_records
    <3>3. stride * q = q * stride /\ stride * q \in Nat
      BY <1>2, <3>2
    <3> QED
      BY <2>2, <3>2, <3>3
  <2> QED
    BY <2>1, <2>2
<1> HIDE DEF new_records
<1>8. new \in VarRecord /\ new.dim_ids = v.dim_ids
  <2>1. v.appended_f64 \in Seq(Value) /\ v.appended_i32 \in Seq(Value)
    BY <1>2 DEF VarRecord
  <2>2. v.appended_f64 \o values \in Seq(Value) /\ v.appended_i32 \o values \in Seq(Value)
    BY <1>1, <2>1
  <2> HIDE DEF v
  <2> QED
    BY <1>2, <2>2 DEF VarRecord
<1>9. c \in CallRecord
  BY <1>1, <1>2, <1>7 DEF CallRecord
<1>10. c.var = i /\ c.op = "append" /\ c.kind = kind /\ c.records = new_records /\ c.data = values
  OBVIOUS
<1> HIDE DEF c, new
<1>11. /\ ncvars' \in Seq(VarRecord) /\ DOMAIN ncvars' = DOMAIN ncvars /\ ncvars'[i] = new /\ grown[i] = new
       /\ \A j \in DOMAIN ncvars : j # i => ncvars'[j] = ncvars[j]
  BY <1>2, <1>3, <1>8, Replacing
<1> HIDE DEF grown
<1>12. /\ dims' \in Seq(DimRecord) /\ DOMAIN dims' = DOMAIN dims
       /\ \A d \in DOMAIN dims : /\ dims'[d].name = dims[d].name /\ dims'[d].unlimited = dims[d].unlimited
                                 /\ dims'[d].defined = dims[d].defined
                                 /\ dims'[d].size = SizeAfter(i, new, new_records, d)
  <2>1. dims \in Seq(DimRecord)
    BY DEF NcTypeOK
  <2>2. CASE v.dim_ids = <<>>
    <3>1. dims' = dims
      BY <1>5, <1>8, <1>11, <2>2 DEF Grow
    <3> QED
      BY <2>1, <2>2, <3>1 DEF SizeAfter
  <2>3. CASE v.dim_ids # <<>>
    <3> DEFINE d1 == v.dim_ids[1]
               size == IF dims[d1].unlimited THEN Larger(dims[d1].size, CurrentRecords(new, stride))
                       ELSE dims[d1].size + new_records
               grownDim == [dims[d1] EXCEPT !.size = size]
    <3>1. d1 \in DOMAIN dims
      BY <2>3, ShapesAre
    <3>2. dims[d1] \in DimRecord /\ dims[d1].size \in Nat
      BY <2>1, <3>1, DefTypes
    <3>3. size \in Nat
      <4>1. CurrentRecords(new, stride) \in Nat
        BY <1>2, <1>8, CurrentRecordsAre
      <4> QED
        BY <1>7, <3>2, <4>1 DEF Larger
    <3>4. dims' = [dims EXCEPT ![d1] = grownDim]
      BY <1>5, <1>8, <1>11, <2>3, <3>1 DEF Grow
    <3> HIDE DEF size
    <3>5. grownDim \in DimRecord
      BY <3>2, <3>3 DEF DimRecord
    <3>6. /\ grownDim.name = dims[d1].name /\ grownDim.unlimited = dims[d1].unlimited
          /\ grownDim.defined = dims[d1].defined /\ grownDim.size = size
      BY <3>2 DEF DimRecord
    <3> HIDE DEF d1, grownDim
    <3>7. /\ dims' \in Seq(DimRecord) /\ DOMAIN dims' = DOMAIN dims /\ dims'[d1] = grownDim
          /\ \A d \in DOMAIN dims : d # d1 => dims'[d] = dims[d]
      BY <2>1, <3>1, <3>4, <3>5, Replacing
    <3>8. size = SizeAfter(i, new, new_records, d1)
      BY <2>3 DEF SizeAfter, size, d1, stride, v
    <3>9. \A d \in DOMAIN dims : d # d1 => SizeAfter(i, new, new_records, d) = dims[d].size
      BY DEF SizeAfter, d1
    <3> QED
      BY <3>6, <3>7, <3>8, <3>9
  <2> QED
    BY <2>2, <2>3
<1>13. new = IF field = "appended_f64" THEN [ncvars[i] EXCEPT !.appended_f64 = ncvars[i].appended_f64 \o values]
                                       ELSE [ncvars[i] EXCEPT !.appended_i32 = ncvars[i].appended_i32 \o values]
  BY DEF new
<1>14. /\ stride = 0 => c.records = 0
       /\ stride # 0 => Len(c.data) = c.records * stride
  BY <1>1, <1>7, <1>10
<1>15. AppendStep(i, field, c)
  BY <1>4, <1>6, <1>10, <1>11, <1>12, <1>13, <1>14 DEF stride, AppendStep
<1> QED
  BY <1>9, <1>15

\* A definition adds a dimension of a new name.
LEMMA DefDimDoes ==
    ASSUME NcTypeOK, NEW def \in DimDef, DefDim(def) \/ DefDimUnlimited(def)
    PROVE  /\ UNCHANGED <<ncvars, groups, calls, stage, file>>
           /\ \E e \in DimRecord : /\ dims' = Append(dims, e) /\ e.size = e.defined
                                   /\ \A d \in DOMAIN dims : dims[d].name # e.name
<1> DEFINE e == Defined(def)
<1>1. dims' = Append(dims, e) /\ def.name \notin NamesOf(dims)
  BY DEF DefDim, DefDimUnlimited
<1>2. e \in DimRecord /\ e.size = e.defined /\ e.name = def.name
  BY NetcdfAssumption DEF Defined, DimRecord
<1>3. \A d \in DOMAIN dims : dims[d].name # e.name
  BY <1>1, <1>2 DEF NamesOf
<1>4. UNCHANGED <<ncvars, groups, calls, stage, file>>
  BY DEF DefDim, DefDimUnlimited
<1> QED
  BY <1>1, <1>2, <1>3, <1>4

\* A definition adds a variable of a new name, on dimensions there are.
LEMMA DefVarDoes ==
    ASSUME NcTypeOK, NEW def \in VarDef, DefVar(def)
    PROVE  /\ UNCHANGED <<dims, groups, calls, stage, file>>
           /\ \E w \in VarRecord : /\ ncvars' = Append(ncvars, w)
                                   /\ \A i \in DOMAIN ncvars : ncvars[i].name # w.name
                                   /\ \A k \in DOMAIN w.dim_ids : w.dim_ids[k] \in DOMAIN dims
                                   /\ w.data = NoData /\ w.appended_f64 = <<>> /\ w.appended_i32 = <<>>
<1> DEFINE w == [name |-> def.name, dim_ids |-> def.dim_ids, nc_type |-> def.nc_type,
                 data |-> NoData, appended_f64 |-> <<>>, appended_i32 |-> <<>>]
<1>1. ncvars' = Append(ncvars, w) /\ def.name \notin NamesOf(ncvars)
      /\ \A k \in DOMAIN def.dim_ids : def.dim_ids[k] \in DOMAIN dims
  BY DEF DefVar
<1>2. <<>> \in Seq(Value)
  OBVIOUS
<1>3. w \in VarRecord
  <2>1. def.dim_ids \in Seq(Nat)
    BY NetcdfAssumption
  <2>2. NoData \in [kind : {"none", "f64", "i32", "str"}, values : Seq(Value)]
    BY <1>2 DEF NoData
  <2> QED
    BY <1>2, <2>1, <2>2 DEF VarRecord
<1>4. \A i \in DOMAIN ncvars : ncvars[i].name # w.name
  BY <1>1 DEF NamesOf
<1>5. UNCHANGED <<dims, groups, calls, stage, file>>
  BY DEF DefVar
<1>6. /\ w.dim_ids = def.dim_ids /\ w.data = NoData /\ w.appended_f64 = <<>> /\ w.appended_i32 = <<>>
  OBVIOUS
<1> HIDE DEF w
<1> QED
  BY <1>1, <1>3, <1>4, <1>5, <1>6

\* The two appends are one action with another field.
LEMMA AppendsAre ==
    ASSUME NEW i, NEW n, PutVaraF64(i, n) \/ PutVaraI32(i, n)
    PROVE  \E field \in {"appended_f64", "appended_i32"} :
               PutVara(i, field, IF field = "appended_f64" THEN "f64" ELSE "i32", n)
<1>1. PutVaraF64(i, n) => PutVara(i, "appended_f64", "f64", n)
  BY DEF PutVaraF64
<1>2. PutVaraI32(i, n) => PutVara(i, "appended_i32", "i32", n)
  BY DEF PutVaraI32
<1> QED
  BY <1>1, <1>2

\* Types, names and ids stay sound.
LEMMA SoundnessStays ==
    ASSUME NcTypeOK, DefsAreSound, NcNext
    PROVE  NcTypeOK' /\ DefsAreSound'
<1>1. CASE \E def \in DimDef : DefDim(def) \/ DefDimUnlimited(def)
  <2>1. PICK e \in DimRecord : /\ dims' = Append(dims, e) /\ e.size = e.defined
                               /\ \A d \in DOMAIN dims : dims[d].name # e.name
    BY <1>1, DefDimDoes
  <2>2. UNCHANGED <<ncvars, groups, calls, stage, file>>
    BY <1>1, DefDimDoes
  <2>3. dims \in Seq(DimRecord)
    BY DEF NcTypeOK
  <2>4. /\ dims' \in Seq(DimRecord) /\ DOMAIN dims = 1..Len(dims) /\ DOMAIN dims' = 1..(Len(dims) + 1)
        /\ dims'[Len(dims) + 1] = e /\ \A d \in 1..Len(dims) : dims'[d] = dims[d]
    BY <2>1, <2>3, Appending
  <2>5. Len(dims) \in Nat
    BY <2>3
  <2>6. \A d, x \in DOMAIN dims' : dims'[d].name = dims'[x].name => d = x
    <3> SUFFICES ASSUME NEW d \in DOMAIN dims', NEW x \in DOMAIN dims', dims'[d].name = dims'[x].name
                 PROVE  d = x
      OBVIOUS
    <3>1. \A y \in DOMAIN dims' : y \in DOMAIN dims \/ y = Len(dims) + 1
      BY <2>4, <2>5
    <3>2. CASE d \in DOMAIN dims /\ x \in DOMAIN dims
      BY <2>4, <3>2 DEF DefsAreSound
    <3>3. CASE d \in DOMAIN dims /\ x = Len(dims) + 1
      BY <2>1, <2>4, <3>3
    <3>4. CASE d = Len(dims) + 1 /\ x \in DOMAIN dims
      BY <2>1, <2>4, <3>4
    <3> QED
      BY <3>1, <3>2, <3>3, <3>4
  <2>7. DOMAIN dims \subseteq DOMAIN dims'
    BY <2>4, <2>5
  <2>8. NcTypeOK'
    BY <2>2, <2>4 DEF NcTypeOK
  <2> QED
    BY <2>2, <2>6, <2>7, <2>8 DEF DefsAreSound
<1>2. CASE \E def \in VarDef : DefVar(def)
  <2>1. PICK w \in VarRecord : /\ ncvars' = Append(ncvars, w)
                               /\ \A i \in DOMAIN ncvars : ncvars[i].name # w.name
                               /\ \A k \in DOMAIN w.dim_ids : w.dim_ids[k] \in DOMAIN dims
    BY <1>2, DefVarDoes
  <2>2. UNCHANGED <<dims, groups, calls, stage, file>>
    BY <1>2, DefVarDoes
  <2>3. ncvars \in Seq(VarRecord)
    BY DEF NcTypeOK
  <2>4. /\ ncvars' \in Seq(VarRecord) /\ DOMAIN ncvars = 1..Len(ncvars) /\ DOMAIN ncvars' = 1..(Len(ncvars) + 1)
        /\ ncvars'[Len(ncvars) + 1] = w /\ \A i \in 1..Len(ncvars) : ncvars'[i] = ncvars[i]
    BY <2>1, <2>3, Appending
  <2>5. Len(ncvars) \in Nat
    BY <2>3
  <2>0. \A y \in DOMAIN ncvars' : y \in DOMAIN ncvars \/ y = Len(ncvars) + 1
    BY <2>4, <2>5
  <2>6. \A i, j \in DOMAIN ncvars' : ncvars'[i].name = ncvars'[j].name => i = j
    <3> SUFFICES ASSUME NEW i \in DOMAIN ncvars', NEW j \in DOMAIN ncvars', ncvars'[i].name = ncvars'[j].name
                 PROVE  i = j
      OBVIOUS
    <3>2. CASE i \in DOMAIN ncvars /\ j \in DOMAIN ncvars
      BY <2>4, <3>2 DEF DefsAreSound
    <3>3. CASE i \in DOMAIN ncvars /\ j = Len(ncvars) + 1
      BY <2>1, <2>4, <3>3
    <3>4. CASE i = Len(ncvars) + 1 /\ j \in DOMAIN ncvars
      BY <2>1, <2>4, <3>4
    <3> QED
      BY <2>0, <3>2, <3>3, <3>4
  <2>7. DOMAIN ncvars \subseteq DOMAIN ncvars'
    BY <2>4, <2>5
  <2>8. NcTypeOK'
    BY <2>2, <2>4 DEF NcTypeOK
  <2>9. \A i \in DOMAIN ncvars' : \A k \in DOMAIN ncvars'[i].dim_ids : ncvars'[i].dim_ids[k] \in DOMAIN dims
    BY <2>0, <2>1, <2>4 DEF DefsAreSound
  <2> QED
    BY <2>2, <2>6, <2>7, <2>8, <2>9 DEF DefsAreSound
<1>3. CASE \E name \in GroupName : CreateGroup(name)
  <2>1. UNCHANGED <<dims, ncvars, calls, stage, file>>
    BY <1>3 DEF CreateGroup
  <2> QED
    BY <2>1 DEF NcTypeOK, DefsAreSound
<1>4. CASE \E i \in DOMAIN ncvars, kind \in {"f64", "i32", "str"} : PutVar(i, kind)
  <2>1. PICK i \in DOMAIN ncvars, kind \in {"f64", "i32", "str"} : PutVar(i, kind)
    BY <1>4
  <2>0. PICK c \in CallRecord : PutStep(i, kind, c)
    BY <2>1, PutVarDoes
  <2>2. /\ dims' = dims /\ groups' = groups /\ stage' = stage /\ file' = file
        /\ ncvars' \in Seq(VarRecord) /\ DOMAIN ncvars' = DOMAIN ncvars
        /\ \A j \in DOMAIN ncvars : j # i => ncvars'[j] = ncvars[j]
    BY <2>0 DEF PutStep
  <2>3. /\ calls' = Append(calls, c) /\ c.var = i
        /\ ncvars'[i] = [ncvars[i] EXCEPT !.data = [kind |-> kind, values |-> c.data]]
    BY <2>0 DEF PutStep
  <2>4. \A j \in DOMAIN ncvars : ncvars'[j].name = ncvars[j].name /\ ncvars'[j].dim_ids = ncvars[j].dim_ids
    <3>1. ncvars[i] \in VarRecord
      BY DefTypes
    <3>2. ncvars'[i].name = ncvars[i].name /\ ncvars'[i].dim_ids = ncvars[i].dim_ids
      BY <2>3, <3>1 DEF VarRecord
    <3> QED
      BY <2>2, <3>2
  <2>5. calls \in Seq(CallRecord)
    BY DEF NcTypeOK
  <2>6. /\ calls' \in Seq(CallRecord) /\ DOMAIN calls = 1..Len(calls) /\ DOMAIN calls' = 1..(Len(calls) + 1)
        /\ calls'[Len(calls) + 1] = c /\ \A n \in 1..Len(calls) : calls'[n] = calls[n]
    BY <2>3, <2>5, Appending
  <2>7. \A n \in DOMAIN calls' : n \in DOMAIN calls \/ n = Len(calls) + 1
    BY <2>5, <2>6
  <2>8. NcTypeOK'
    BY <2>2, <2>6 DEF NcTypeOK
  <2>9. \A n \in DOMAIN calls' : calls'[n].var \in DOMAIN ncvars
    BY <2>3, <2>6, <2>7 DEF DefsAreSound
  <2> QED
    BY <2>2, <2>4, <2>8, <2>9 DEF DefsAreSound
<1>5. CASE \E i \in DOMAIN ncvars, n \in Amount : PutVaraF64(i, n) \/ PutVaraI32(i, n)
  <2>1. PICK i \in DOMAIN ncvars, n \in Nat, field \in {"appended_f64", "appended_i32"} :
            PutVara(i, field, IF field = "appended_f64" THEN "f64" ELSE "i32", n)
    BY <1>5, AppendsAre, NetcdfAssumption
  <2>0. PICK c \in CallRecord : AppendStep(i, field, c)
    BY <2>1, PutVaraDoes
  <2>2. /\ groups' = groups /\ stage' = stage /\ file' = file
        /\ ncvars' \in Seq(VarRecord) /\ DOMAIN ncvars' = DOMAIN ncvars
        /\ \A j \in DOMAIN ncvars : j # i => ncvars'[j] = ncvars[j]
        /\ dims' \in Seq(DimRecord) /\ DOMAIN dims' = DOMAIN dims
        /\ \A d \in DOMAIN dims : dims'[d].name = dims[d].name
    BY <2>0 DEF AppendStep
  <2>3. /\ calls' = Append(calls, c) /\ c.var = i
        /\ ncvars'[i] = IF field = "appended_f64"
                        THEN [ncvars[i] EXCEPT !.appended_f64 = ncvars[i].appended_f64 \o c.data]
                        ELSE [ncvars[i] EXCEPT !.appended_i32 = ncvars[i].appended_i32 \o c.data]
    BY <2>0 DEF AppendStep
  <2>4. \A j \in DOMAIN ncvars : ncvars'[j].name = ncvars[j].name /\ ncvars'[j].dim_ids = ncvars[j].dim_ids
    <3>1. ncvars[i] \in VarRecord
      BY DefTypes
    <3>2. ncvars'[i].name = ncvars[i].name /\ ncvars'[i].dim_ids = ncvars[i].dim_ids
      BY <2>3, <3>1 DEF VarRecord
    <3> QED
      BY <2>2, <3>2
  <2>5. calls \in Seq(CallRecord)
    BY DEF NcTypeOK
  <2>6. /\ calls' \in Seq(CallRecord) /\ DOMAIN calls = 1..Len(calls) /\ DOMAIN calls' = 1..(Len(calls) + 1)
        /\ calls'[Len(calls) + 1] = c /\ \A m \in 1..Len(calls) : calls'[m] = calls[m]
    BY <2>3, <2>5, Appending
  <2>7. \A m \in DOMAIN calls' : m \in DOMAIN calls \/ m = Len(calls) + 1
    BY <2>5, <2>6
  <2>8. NcTypeOK'
    BY <2>2, <2>6 DEF NcTypeOK
  <2>9. \A m \in DOMAIN calls' : calls'[m].var \in DOMAIN ncvars
    BY <2>3, <2>6, <2>7 DEF DefsAreSound
  <2> QED
    BY <2>2, <2>4, <2>8, <2>9 DEF DefsAreSound
<1>6. CASE Close \/ CloseFails
  <2>1. UNCHANGED <<dims, ncvars, calls>> /\ stage' \in {"closed", "failed"}
    BY <1>6 DEF Close, CloseFails
  <2> QED
    BY <2>1 DEF NcTypeOK, DefsAreSound
<1> QED
  BY <1>1, <1>2, <1>3, <1>4, <1>5, <1>6 DEF NcNext

-----------------------------------------------------------------------------
(* The file *)

\* Nothing else than definitions, data and groups decides what is written.
LEMMA WrittenOfThem ==
    ASSUME dims' = dims, ncvars' = ncvars, groups' = groups
    PROVE  /\ CloseAccepts' <=> CloseAccepts
           /\ Objects' = Objects
<1>1. \A v : ShapeNow(v)' = ShapeNow(v)
  BY DEF ShapeNow
<1>2. \A defs : NamesOf(defs)' = NamesOf(defs)
  BY DEF NamesOf
<1>3. NamesOf(dims)' = NamesOf(dims) /\ NamesOf(ncvars)' = NamesOf(ncvars)
  BY DEF NamesOf
<1>4. \A d : IsPure(d)' <=> IsPure(d)
  BY <1>3 DEF IsPure
<1>5. \A v : IsCoordinateVariable(v)' <=> IsCoordinateVariable(v)
  BY <1>3 DEF IsCoordinateVariable
<1>6. \A d : ReferenceEntries(d)' = ReferenceEntries(d)
  BY <1>5 DEF ReferenceEntries
<1>7. \A d : PlaceholderOf(d)' = PlaceholderOf(d)
  BY <1>6 DEF PlaceholderOf
<1>8. \A v : AttributesOf(v)' = AttributesOf(v)
  <2> TAKE v
  <2> DEFINE OwnIn(ds) == CHOOSE d \in DOMAIN ds : ds[d].name = v.name
             own == OwnIn(dims)
             scale == [Plain EXCEPT !.class = TRUE,
                                    !.name = [@ EXCEPT !.kind = "real", !.text = v.name],
                                    !.dimid = own - 1,
                                    !.reference_list = ReferenceEntries(own),
                                    !.coordinates = CoordinateIds(v)]
             other == [Plain EXCEPT !.dimension_list = [k \in DOMAIN v.dim_ids |-> dims[v.dim_ids[k]].name],
                                    !.coordinates = CoordinateIds(v)]
  <2>1. AttributesOf(v) = IF IsCoordinateVariable(v) THEN scale ELSE other
    BY DEF AttributesOf
  <2>2. own' = own
    BY DEF OwnIn
  <2>3. ReferenceEntries(own)' = ReferenceEntries(own)
    BY <1>6, <2>2
  <2>4. scale' = scale
    BY <2>2, <2>3 DEF CoordinateIds
  <2>5. other' = other
    BY DEF CoordinateIds
  <2>6. AttributesOf(v)' = IF IsCoordinateVariable(v)' THEN scale' ELSE other'
    BY DEF AttributesOf
  <2> HIDE DEF scale, other
  <2> QED
    BY <1>5, <2>1, <2>4, <2>5, <2>6
<1>9. \A v : DatasetOf(v)' = DatasetOf(v)
  BY <1>1, <1>8 DEF DatasetOf, CanGrow
<1>10. NamesWritten' = NamesWritten
  BY <1>4 DEF NamesWritten
<1>11. DatasetNames' = DatasetNames
  BY <1>3 DEF DatasetNames
<1>12. CloseAccepts' <=> CloseAccepts
  <2>1. \A d \in DOMAIN dims : ScaleFits(d)' <=> ScaleFits(d)
    BY <1>4 DEF ScaleFits
  <2>2. \A v : CanGrow(v)' <=> CanGrow(v)
    BY DEF CanGrow
  <2>3. \A v : VariableFits(v)' <=> VariableFits(v)
    BY <1>1, <1>9, <2>2 DEF VariableFits
  <2> QED
    BY <1>6, <1>10, <2>1, <2>3 DEF CloseAccepts
<1>13. Objects' = Objects
  BY <1>3, <1>7, <1>9, <1>11 DEF Objects
<1> QED
  BY <1>12, <1>13

\* The reader reads a file that is there, and does not go back.
LEMMA ReaderGoesOn ==
    ASSUME Reader!ReaderNext
    PROVE  pass' # "idle"
<1>1. Reader!RootGroup => pass' # "idle"
  BY DEF Reader!RootGroup
<1>2. Reader!CollectGlobalDims => pass' # "idle"
  BY DEF Reader!CollectGlobalDims
<1>3. Reader!Collected => pass' # "idle"
  BY DEF Reader!Collected
<1>4. Reader!ResolveGroup => pass' # "idle"
  BY DEF Reader!ResolveGroup
<1>5. Reader!Resolved => pass' # "idle"
  BY DEF Reader!Resolved
<1>6. Reader!Skip => pass' # "idle"
  BY DEF Reader!Skip
<1> QED
  BY <1>1, <1>2, <1>3, <1>4, <1>5, <1>6 DEF Reader!ReaderNext

\* Every call but close leaves the file to be written.
LEMMA StillDefining ==
    ASSUME NcNext, ~Close, ~CloseFails
    PROVE  stage' = "define"
<1>1. stage = "define"
  BY DEF NcNext
<1>2. \A d \in DimDef : DefDim(d) \/ DefDimUnlimited(d) => stage' = stage
  BY DEF DefDim, DefDimUnlimited
<1>3. \A v \in VarDef : DefVar(v) => stage' = stage
  BY DEF DefVar
<1>4. \A name \in GroupName : CreateGroup(name) => stage' = stage
  BY DEF CreateGroup
<1>5. \A i \in DOMAIN ncvars, kind \in {"f64", "i32", "str"} : PutVar(i, kind) => stage' = stage
  BY DEF PutVar
<1>6. \A i \in DOMAIN ncvars, n \in Amount : PutVaraF64(i, n) \/ PutVaraI32(i, n) => stage' = stage
  BY DEF PutVaraF64, PutVaraI32, PutVara
<1> QED
  BY <1>1, <1>2, <1>3, <1>4, <1>5, <1>6 DEF NcNext

\* Closing writes what there is, and nobody changes it after.
LEMMA FileStays ==
    ASSUME FileIsBuilt, RoundTripNext
    PROVE  FileIsBuilt'
<1>1. CASE NcNext /\ ~Close /\ ~CloseFails
  BY <1>1, StillDefining DEF FileIsBuilt, IsWritten
<1>2. CASE Close
  <2>1. dims' = dims /\ ncvars' = ncvars /\ groups' = groups /\ stage' = "closed" /\ CloseAccepts
    BY <1>2 DEF Close
  <2>2. file'.objects = Objects
    BY <1>2 DEF Close
  <2>3. CloseAccepts' /\ Objects' = Objects
    BY <2>1, WrittenOfThem
  <2> QED
    BY <2>1, <2>2, <2>3 DEF FileIsBuilt
<1>3. CASE CloseFails
  <2>1. dims' = dims /\ ncvars' = ncvars /\ groups' = groups /\ stage' = "failed" /\ ~CloseAccepts
    BY <1>3 DEF CloseFails
  <2>2. ~CloseAccepts'
    BY <2>1, WrittenOfThem
  <2> QED
    BY <2>1, <2>2 DEF FileIsBuilt, IsWritten
<1>4. CASE stage = "closed" /\ Reader!ReaderNext /\ UNCHANGED <<dims, ncvars, groups, calls, stage>>
  <2>1. stage' = "closed" /\ pass' # "idle"
    BY <1>4, ReaderGoesOn
  <2> QED
    BY <2>1 DEF FileIsBuilt, IsWritten
<1> QED
  BY <1>1, <1>2, <1>3, <1>4 DEF RoundTripNext

-----------------------------------------------------------------------------
(* What a call leaves as it was *)

\* Definitions are only added to; what can grow does.
DefsAreKept ==
    /\ DOMAIN dims \subseteq DOMAIN dims' /\ DOMAIN ncvars \subseteq DOMAIN ncvars'
    /\ \A d \in DOMAIN dims : /\ dims'[d].unlimited = dims[d].unlimited
                              /\ dims'[d].defined = dims[d].defined
    /\ \A i \in DOMAIN ncvars : ncvars'[i].dim_ids = ncvars[i].dim_ids /\ ncvars'[i].nc_type = ncvars[i].nc_type

\* So is the history.
CallsAreKept ==
    /\ DOMAIN calls \subseteq DOMAIN calls'
    /\ \A n \in DOMAIN calls : calls'[n] = calls[n]

\* What is documented was documented before.
LEMMA DocumentedBefore ==
    ASSUME NcTypeOK, DefsAreSound, DefsAreKept, CallsAreKept, Documented'
    PROVE  Documented
<1>1. \A n \in DOMAIN calls : calls[n].op = "append" =>
          ncvars[calls[n].var].dim_ids # <<>> /\ dims[ncvars[calls[n].var].dim_ids[1]].unlimited
  <2> SUFFICES ASSUME NEW n \in DOMAIN calls, calls[n].op = "append"
               PROVE  ncvars[calls[n].var].dim_ids # <<>> /\ dims[ncvars[calls[n].var].dim_ids[1]].unlimited
    OBVIOUS
  <2> DEFINE i == calls[n].var
             ids == ncvars[i].dim_ids
  <2>1. n \in DOMAIN calls' /\ calls'[n] = calls[n]
    BY DEF CallsAreKept
  <2>2. calls'[n] \in Range(calls')
    BY <2>1 DEF Range
  <2>3. ncvars'[i].dim_ids # <<>> /\ dims'[ncvars'[i].dim_ids[1]].unlimited
    BY <2>1, <2>2 DEF Documented, AppendsAreAlongUnlimited
  <2>4. i \in DOMAIN ncvars
    BY DEF DefsAreSound
  <2>5. ncvars'[i].dim_ids = ids
    BY <2>4 DEF DefsAreKept
  <2>6. ids \in Seq(Nat)
    BY <2>4, DefTypes
  <2> HIDE DEF i, ids
  <2>7. 1 \in DOMAIN ids
    BY <2>3, <2>5, <2>6
  <2>8. ids[1] \in DOMAIN dims
    BY <2>4, <2>7 DEF DefsAreSound, ids
  <2>9. dims'[ids[1]].unlimited = dims[ids[1]].unlimited
    BY <2>8 DEF DefsAreKept
  <2> QED
    BY <2>3, <2>5, <2>9 DEF ids, i
<1>2. \A i \in DOMAIN ncvars : \A k \in DOMAIN ncvars[i].dim_ids : dims[ncvars[i].dim_ids[k]].unlimited => k = 1
  <2> SUFFICES ASSUME NEW i \in DOMAIN ncvars, NEW k \in DOMAIN ncvars[i].dim_ids,
                      dims[ncvars[i].dim_ids[k]].unlimited
               PROVE  k = 1
    OBVIOUS
  <2>1. i \in DOMAIN ncvars' /\ ncvars'[i].dim_ids = ncvars[i].dim_ids
    BY DEF DefsAreKept
  <2>2. ncvars'[i] \in Range(ncvars')
    BY <2>1 DEF Range
  <2>3. ncvars[i].dim_ids[k] \in DOMAIN dims
    BY DEF DefsAreSound
  <2>4. dims'[ncvars[i].dim_ids[k]].unlimited
    BY <2>3 DEF DefsAreKept
  <2>5. \A j \in DOMAIN ncvars'[i].dim_ids : dims'[ncvars'[i].dim_ids[j]].unlimited => j = 1
    BY <2>2 DEF Documented, AppendsAreAlongUnlimited
  <2> QED
    BY <2>1, <2>4, <2>5
<1>3. \A i \in DOMAIN ncvars : PutsComeFirst(i)
  <2> SUFFICES ASSUME NEW i \in DOMAIN ncvars, NEW m \in CallsOn(i), NEW n \in CallsOn(i),
                      m < n, calls[m].op = "append"
               PROVE  calls[n].op = "append"
    BY DEF PutsComeFirst
  <2>1. i \in DOMAIN ncvars'
    BY DEF DefsAreKept
  <2>2. \A k \in CallsOn(i) : k \in CallsOn(i)' /\ calls'[k] = calls[k]
    BY DEF CallsOn, CallsAreKept
  <2>3. \A k, l \in CallsOn(i)' : k < l /\ calls'[k].op = "append" => calls'[l].op = "append"
    BY <2>1 DEF Documented, PutsComeFirst
  <2> QED
    BY <2>2, <2>3
<1>4. AppendsAreAlongUnlimited
  <2>1. \A c \in Range(calls) : \E n \in DOMAIN calls : calls[n] = c
    BY DEF Range
  <2>2. \A v \in Range(ncvars) : \E i \in DOMAIN ncvars : ncvars[i] = v
    BY DEF Range
  <2>3. \A c \in Range(calls) : c.op = "append" =>
            ncvars[c.var].dim_ids # <<>> /\ dims[ncvars[c.var].dim_ids[1]].unlimited
    BY <1>1, <2>1
  <2>4. \A v \in Range(ncvars) : \A k \in DOMAIN v.dim_ids : dims[v.dim_ids[k]].unlimited => k = 1
    BY <1>2, <2>2
  <2> QED
    BY <2>3, <2>4 DEF AppendsAreAlongUnlimited
<1> QED
  BY <1>3, <1>4 DEF Documented

\* Data that fits fitted before.
LEMMA KindsFittedBefore ==
    ASSUME CallsAreKept, DefsAreKept, NEW i \in DOMAIN ncvars, KindsFit(i)'
    PROVE  KindsFit(i)
<1>1. \A k \in CallsOn(i) : k \in CallsOn(i)' /\ calls'[k] = calls[k]
  BY DEF CallsOn, CallsAreKept
<1>2. ncvars'[i].nc_type = ncvars[i].nc_type
  BY DEF DefsAreKept
<1> QED
  BY <1>1, <1>2 DEF KindsFit

\* The elements of a record depend on the other axes alone.
LEMMA StridesStay ==
    ASSUME NEW ds, NEW es, NEW ids \in Seq(Nat),
           \A k \in DOMAIN ids : ds[ids[k]].size \in Nat /\ es[ids[k]].size \in Nat,
           \A k \in DOMAIN ids : k # 1 => ds[ids[k]].size = es[ids[k]].size
    PROVE  ids # <<>> => Tail([k \in DOMAIN ids |-> ds[ids[k]].size]) = Tail([k \in DOMAIN ids |-> es[ids[k]].size])
<1> SUFFICES ASSUME ids # <<>>
             PROVE  Tail([k \in DOMAIN ids |-> ds[ids[k]].size]) = Tail([k \in DOMAIN ids |-> es[ids[k]].size])
  OBVIOUS
<1> DEFINE s == [k \in DOMAIN ids |-> ds[ids[k]].size]
           t == [k \in DOMAIN ids |-> es[ids[k]].size]
           n == Len(ids)
<1>1. n \in Nat \ {0} /\ DOMAIN ids = 1..n
  OBVIOUS
<1> HIDE DEF n
<1>2. s \in Seq(Nat) /\ t \in Seq(Nat) /\ Len(s) = n /\ Len(t) = n
  BY <1>1
<1>3. \A k \in 1..n : k # 1 => s[k] = t[k]
  BY <1>1
<1> HIDE DEF s, t
<1>4. /\ Tail(s) \in Seq(Nat) /\ Len(Tail(s)) = n - 1 /\ \A k \in 1..(n - 1) : Tail(s)[k] = s[k + 1]
      /\ Tail(t) \in Seq(Nat) /\ Len(Tail(t)) = n - 1 /\ \A k \in 1..(n - 1) : Tail(t)[k] = t[k + 1]
  BY <1>1, <1>2
<1>5. \A k \in 1..(n - 1) : k + 1 \in 1..n /\ k + 1 # 1
  BY <1>1
<1>6. \A k \in 1..(n - 1) : Tail(s)[k] = Tail(t)[k]
  BY <1>3, <1>4, <1>5
<1>7. Tail(s) = Tail(t)
  BY <1>4, <1>6
<1> QED
  BY <1>7 DEF s, t

-----------------------------------------------------------------------------
(* A longer history *)

\* The history after one more call.
LEMMA CallAdded ==
    ASSUME NcTypeOK, NEW c \in CallRecord, calls' = Append(calls, c), NEW j
    PROVE  /\ Len(calls) \in Nat /\ Len(calls') = Len(calls) + 1
           /\ DOMAIN calls = 1..Len(calls) /\ DOMAIN calls' = 1..(Len(calls) + 1)
           /\ calls'[Len(calls) + 1] = c /\ \A n \in DOMAIN calls : calls'[n] = calls[n]
           /\ CallsOn(j)' = IF c.var = j THEN CallsOn(j) \cup {Len(calls) + 1} ELSE CallsOn(j)
           /\ \A n \in CallsOn(j) : n \in 1..Len(calls)
           /\ \A n \in 0..Len(calls) : Records(j, n)' = Records(j, n) /\ Records(j, n) \in Nat
           /\ \A n \in CallsOn(j) : FirstRecord(j, n)' = FirstRecord(j, n)
           /\ RecordsIn(calls', j, Len(calls) + 1) = IF c.var # j THEN Records(j, Len(calls))
                                                     ELSE IF c.op = "put" THEN c.records
                                                     ELSE Records(j, Len(calls)) + c.records
<1> DEFINE h == calls
           n0 == Len(calls)
<1>1. h \in Seq(CallRecord) /\ n0 \in Nat
  BY DEF NcTypeOK
<1>2. /\ calls' \in Seq(CallRecord) /\ Len(calls') = n0 + 1
      /\ DOMAIN calls = 1..n0 /\ DOMAIN calls' = 1..(n0 + 1)
      /\ calls'[n0 + 1] = c /\ \A n \in 1..n0 : calls'[n] = calls[n]
  BY <1>1, Appending
<1> HIDE DEF n0
<1>3. \A n \in CallsOn(j) : n \in 1..n0
  BY <1>2 DEF CallsOn
<1>4. CallsOn(j)' = IF c.var = j THEN CallsOn(j) \cup {n0 + 1} ELSE CallsOn(j)
  <2>1. CallsOn(j)' = {n \in 1..(n0 + 1) : calls'[n].var = j}
    BY <1>2 DEF CallsOn
  <2>2. CallsOn(j) = {n \in 1..n0 : calls[n].var = j}
    BY <1>2 DEF CallsOn
  <2>3. \A n \in 1..(n0 + 1) : n \in 1..n0 \/ n = n0 + 1
    BY <1>1 DEF n0
  <2>4. n0 + 1 \in 1..(n0 + 1) /\ \A n \in 1..n0 : n \in 1..(n0 + 1)
    BY <1>1 DEF n0
  <2> QED
    BY <1>2, <2>1, <2>2, <2>3, <2>4
<1>5. \A n \in 0..n0 : RecordsIn(calls', j, n) = RecordsIn(calls, j, n) /\ RecordsIn(calls, j, n) \in Nat
  <2>1. \A n \in 0..Len(calls) : RecordsIn(Append(calls, c), j, n) = RecordsIn(calls, j, n)
    BY <1>1, RecordsStay
  <2>2. \A n \in 0..Len(calls) : RecordsIn(calls, j, n) \in Nat
    BY <1>1, RecordsAre
  <2> QED
    BY <2>1, <2>2 DEF n0
<1>6. \A n \in 0..n0 : Records(j, n)' = Records(j, n) /\ Records(j, n) \in Nat
  BY <1>5 DEF Records
<1>7. \A n \in CallsOn(j) : FirstRecord(j, n)' = FirstRecord(j, n)
  <2>1. \A n \in 1..n0 : n - 1 \in 0..n0
    BY <1>1 DEF n0
  <2> QED
    BY <1>2, <1>3, <1>6, <2>1 DEF FirstRecord
<1>8. RecordsIn(calls', j, n0 + 1) = IF c.var # j THEN Records(j, n0)
                                     ELSE IF c.op = "put" THEN c.records
                                     ELSE Records(j, n0) + c.records
  <2>1. \A n \in 1..Len(calls') : RecordsIn(calls', j, n) = IF calls'[n].var # j THEN RecordsIn(calls', j, n - 1)
                                                            ELSE IF calls'[n].op = "put" THEN calls'[n].records
                                                            ELSE RecordsIn(calls', j, n - 1) + calls'[n].records
    BY <1>2, RecordsAre
  <2>2. n0 + 1 \in 1..Len(calls') /\ (n0 + 1) - 1 = n0 /\ n0 \in 0..n0
    BY <1>1, <1>2 DEF n0
  <2>3. RecordsIn(calls', j, n0) = Records(j, n0)
    BY <1>5, <2>2 DEF Records
  <2> QED
    BY <1>2, <2>1, <2>2, <2>3
<1> QED
  BY <1>1, <1>2, <1>3, <1>4, <1>6, <1>7, <1>8 DEF n0

\* No call on variable j since.
NotCalled(j) == calls' = calls \/ \E c \in CallRecord : calls' = Append(calls, c) /\ c.var # j

\* Calls on other variables change nothing of one.
LEMMA HistoryOfOthers ==
    ASSUME NcTypeOK, NEW j, NotCalled(j)
    PROVE  /\ CallsOn(j)' = CallsOn(j)
           /\ \A n \in CallsOn(j) : /\ calls'[n] = calls[n] /\ FirstRecord(j, n)' = FirstRecord(j, n)
                                    /\ Records(j, n)' = Records(j, n)
           /\ RecordsIn(calls', j, Len(calls')) = Records(j, Len(calls))
           /\ \A n \in 0..Len(calls') : \E m \in 0..Len(calls) : RecordsIn(calls', j, n) = Records(j, m)
<1>1. CASE calls' = calls
  BY <1>1 DEF CallsOn, FirstRecord, Records
<1>2. CASE \E c \in CallRecord : calls' = Append(calls, c) /\ c.var # j
  <2>1. PICK c \in CallRecord : calls' = Append(calls, c) /\ c.var # j
    BY <1>2
  <2>2. /\ Len(calls) \in Nat /\ Len(calls') = Len(calls) + 1
        /\ DOMAIN calls = 1..Len(calls) /\ \A n \in DOMAIN calls : calls'[n] = calls[n]
        /\ CallsOn(j)' = CallsOn(j)
        /\ \A n \in CallsOn(j) : n \in 1..Len(calls)
        /\ \A n \in 0..Len(calls) : Records(j, n)' = Records(j, n) /\ Records(j, n) \in Nat
        /\ \A n \in CallsOn(j) : FirstRecord(j, n)' = FirstRecord(j, n)
        /\ RecordsIn(calls', j, Len(calls) + 1) = Records(j, Len(calls))
    BY <2>1, CallAdded
  <2>3. \A n \in 1..Len(calls) : n \in 0..Len(calls)
    BY <2>2
  <2>4. \A n \in 0..Len(calls') : \E m \in 0..Len(calls) : RecordsIn(calls', j, n) = Records(j, m)
    <3>1. \A n \in 0..Len(calls') : n \in 0..Len(calls) \/ n = Len(calls) + 1
      BY <2>2
    <3>2. \A n \in 0..Len(calls) : RecordsIn(calls', j, n) = Records(j, n)
      BY <2>2 DEF Records
    <3>3. Len(calls) \in 0..Len(calls)
      BY <2>2
    <3> QED
      BY <2>2, <3>1, <3>2, <3>3
  <2> QED
    BY <2>2, <2>3, <2>4
<1> QED
  BY <1>1, <1>2 DEF NotCalled

\* What holds of a variable nobody calls for holds on.
LEMMA OthersStay ==
    ASSUME NcTypeOK, NEW j \in DOMAIN ncvars, NotCalled(j), ncvars'[j] = ncvars[j],
           TrailingStride(ncvars[j])' = TrailingStride(ncvars[j])
    PROVE  /\ RecordsGrow(j) => RecordsGrow(j)'
           /\ HoldsRecords(j) => HoldsRecords(j)'
           /\ KindIsKept(j) => KindIsKept(j)'
           /\ DataIsMeant(j) => DataIsMeant(j)'
<1> DEFINE stride == TrailingStride(ncvars[j])
           last == Records(j, Len(calls))
<1>1. /\ CallsOn(j)' = CallsOn(j)
      /\ \A n \in CallsOn(j) : /\ calls'[n] = calls[n] /\ FirstRecord(j, n)' = FirstRecord(j, n)
                               /\ Records(j, n)' = Records(j, n)
      /\ RecordsIn(calls', j, Len(calls')) = last
      /\ \A n \in 0..Len(calls') : \E m \in 0..Len(calls) : RecordsIn(calls', j, n) = Records(j, m)
  BY HistoryOfOthers
<1>2. RecordsGrow(j) => RecordsGrow(j)'
  <2> SUFFICES ASSUME RecordsGrow(j)
               PROVE  RecordsGrow(j)'
    OBVIOUS
  <2>1. \A n \in 0..Len(calls') : RecordsIn(calls', j, n) <= RecordsIn(calls', j, Len(calls'))
    BY <1>1 DEF RecordsGrow
  <2>2. ncvars'[j].dim_ids = <<>> => RecordsIn(calls', j, Len(calls')) = 0
    BY <1>1 DEF RecordsGrow
  <2> QED
    BY <2>1, <2>2 DEF RecordsGrow, Records
<1>3. HoldsRecords(j) => HoldsRecords(j)'
  <2> SUFFICES ASSUME HoldsRecords(j)
               PROVE  HoldsRecords(j)'
    OBVIOUS
  <2> DEFINE v == ncvars[j]
  <2>1. /\ (\A n \in CallsOn(j) : calls[n].op = "put") => v.appended_f64 = <<>> /\ v.appended_i32 = <<>>
        /\ v.dim_ids = <<>> => Held(v) = IF CallsOn(j) = {} THEN 0 ELSE 1
        /\ v.dim_ids # <<>> /\ stride > 0 => Held(v) = last * stride
    BY DEF HoldsRecords
  <2>2. (\A n \in CallsOn(j)' : calls'[n].op = "put") => v.appended_f64 = <<>> /\ v.appended_i32 = <<>>
    BY <1>1, <2>1
  <2>3. v.dim_ids = <<>> => Held(v) = IF CallsOn(j)' = {} THEN 0 ELSE 1
    BY <1>1, <2>1
  <2>4. v.dim_ids # <<>> /\ stride' > 0 => Held(v) = RecordsIn(calls', j, Len(calls')) * stride'
    BY <1>1, <2>1
  <2>5. Held(v') = Held(v) /\ v' = v
    BY DEF Held
  <2> HIDE DEF v
  <2>6. (v'.dim_ids # <<>> /\ stride' > 0) => Held(v') = RecordsIn(calls', j, Len(calls')) * stride'
    BY <2>4, <2>5
  <2> QED
    BY <2>2, <2>3, <2>5, <2>6 DEF HoldsRecords, Records, v
<1>4. KindIsKept(j) => KindIsKept(j)'
  BY DEF KindIsKept
<1>5. DataIsMeant(j) => DataIsMeant(j)'
  <2>1. \A place : \A n \in CallsOn(j) : Covers(j, n, place)' <=> Covers(j, n, place)
    BY <1>1 DEF Covers
  <2>2. \A place : PlaceIsMeant(j, place) => PlaceIsMeant(j, place)'
    <3> SUFFICES ASSUME NEW place, PlaceIsMeant(j, place)
                 PROVE  PlaceIsMeant(j, place)'
      OBVIOUS
    <3>1. PICK n \in CallsOn(j) :
              LET from == place - FirstRecord(j, n) * TrailingStride(ncvars[j])
              IN  /\ Covers(j, n, place)
                  /\ \A m \in CallsOn(j) : m > n => ~Covers(j, m, place)
                  /\ from \in DOMAIN calls[n].data
                  /\ DataOf(ncvars[j])[place] = Converted(ncvars[j].nc_type, calls[n].kind, calls[n].data[from])
      BY DEF PlaceIsMeant
    <3>2. Covers(j, n, place)' /\ \A m \in CallsOn(j)' : m > n => ~Covers(j, m, place)'
      BY <1>1, <2>1, <3>1
    <3>3. place - FirstRecord(j, n)' * TrailingStride(ncvars[j])' = place - FirstRecord(j, n) * TrailingStride(ncvars[j])
      BY <1>1, <3>1
    <3>4. n \in CallsOn(j)' /\ calls'[n] = calls[n]
      BY <1>1, <3>1
    <3> QED
      BY <3>1, <3>2, <3>3, <3>4 DEF PlaceIsMeant
  <2> QED
    BY <2>2 DEF DataIsMeant
<1> QED
  BY <1>2, <1>3, <1>4, <1>5

-----------------------------------------------------------------------------
(* Calls as they are documented *)

\* Nor do appends change the elements of a record.
LEMMA StrideStays ==
    ASSUME NcTypeOK, DefsAreSound, dims' \in Seq(DimRecord), DOMAIN dims \subseteq DOMAIN dims',
           NEW j \in DOMAIN ncvars, ncvars'[j].dim_ids = ncvars[j].dim_ids,
           \A k \in DOMAIN ncvars[j].dim_ids :
               k # 1 => dims'[ncvars[j].dim_ids[k]].size = dims[ncvars[j].dim_ids[k]].size
    PROVE  TrailingStride(ncvars[j])' = TrailingStride(ncvars[j])
<1> DEFINE ids == ncvars[j].dim_ids
<1>1. ids \in Seq(Nat) /\ \A k \in DOMAIN ids : ids[k] \in DOMAIN dims
  BY DefTypes DEF DefsAreSound
<1>2. \A d \in DOMAIN dims' : dims'[d].size \in Nat
  <2>1. \A d \in DOMAIN dims' : dims'[d] \in DimRecord
    OBVIOUS
  <2> QED
    BY <2>1 DEF DimRecord
<1>3. \A k \in DOMAIN ids : dims[ids[k]].size \in Nat /\ dims'[ids[k]].size \in Nat
  BY <1>1, <1>2, DefTypes
<1>4. TrailingStride(ncvars[j]) = IF ids = <<>> THEN 0 ELSE Volume(Tail([k \in DOMAIN ids |-> dims[ids[k]].size]))
  BY DEF TrailingStride, ShapeNow
<1>5. TrailingStride(ncvars[j])' = IF ids = <<>> THEN 0 ELSE Volume(Tail([k \in DOMAIN ids |-> dims'[ids[k]].size]))
  BY DEF TrailingStride, ShapeNow
<1>6. \A k \in DOMAIN ids : k # 1 => dims[ids[k]].size = dims'[ids[k]].size
  OBVIOUS
<1> HIDE DEF ids
<1>7. ids # <<>> => Tail([k \in DOMAIN ids |-> dims[ids[k]].size]) = Tail([k \in DOMAIN ids |-> dims'[ids[k]].size])
  BY <1>1, <1>3, <1>6, StridesStay
<1> DEFINE s == Tail([k \in DOMAIN ids |-> dims[ids[k]].size])
           t == Tail([k \in DOMAIN ids |-> dims'[ids[k]].size])
           before == TrailingStride(ncvars[j])
           after == TrailingStride(ncvars[j])'
<1>8. /\ before = IF ids = <<>> THEN 0 ELSE Volume(s)
      /\ after = IF ids = <<>> THEN 0 ELSE Volume(t)
      /\ ids # <<>> => s = t
  BY <1>4, <1>5, <1>7
<1> HIDE DEF s, t, before, after
<1>9. after = before
  BY <1>8
<1> QED
  BY <1>9 DEF after, before

\* A dimension that no variable comes to run along, with as many records along it
\* as before, stays as long as it is meant.
LEMMA SizesStay ==
    ASSUME NEW d, dims'[d].size = dims[d].size, dims'[d].defined = dims[d].defined,
           dims'[d].unlimited = dims[d].unlimited, Along(d)' = Along(d),
           \A i \in Along(d) : RecordsIn(calls', i, Len(calls')) = Records(i, Len(calls)),
           SizeIsMeant(d)
    PROVE  SizeIsMeant(d)'
<1>1. \A i \in Along(d)' : RecordsIn(calls', i, Len(calls')) <= dims'[d].size
  BY DEF SizeIsMeant
<1>2. \/ dims'[d].size = dims'[d].defined
      \/ \E i \in Along(d)' : RecordsIn(calls', i, Len(calls')) = dims'[d].size
  BY DEF SizeIsMeant
<1>3. dims'[d].defined <= dims'[d].size /\ (dims'[d].unlimited \/ dims'[d].size = dims'[d].defined)
  BY DEF SizeIsMeant
<1> QED
  BY <1>1, <1>2, <1>3 DEF SizeIsMeant, Records

\* A new dimension is as long as it was defined: no variable runs along it.
LEMMA DefDimKeeps ==
    ASSUME NcTypeOK, DefsAreSound, AsDocumented,
           NEW e \in DimRecord, dims' = Append(dims, e), e.size = e.defined, ncvars' = ncvars, calls' = calls
    PROVE  AsDocumented'
<1>1. /\ dims' \in Seq(DimRecord) /\ DOMAIN dims = 1..Len(dims) /\ DOMAIN dims' = 1..(Len(dims) + 1)
      /\ dims'[Len(dims) + 1] = e /\ \A d \in DOMAIN dims : dims'[d] = dims[d]
  <2>1. dims \in Seq(DimRecord)
    BY DEF NcTypeOK
  <2> QED
    BY <2>1, Appending
<1>2. Len(dims) \in Nat
  BY DEF NcTypeOK
<1>3. ASSUME NEW d \in DOMAIN dims' PROVE SizeIsMeant(d)'
  <2>1. Along(d)' = Along(d) /\ RecordsIn(calls', d, Len(calls')) = Records(d, Len(calls))
    BY DEF Along, Records
  <2>2. \A i : RecordsIn(calls', i, Len(calls')) = Records(i, Len(calls))
    BY DEF Records
  <2>3. CASE d \in DOMAIN dims
    <3>1. dims'[d] = dims[d] /\ SizeIsMeant(d)
      BY <1>1, <2>3 DEF AsDocumented
    <3> QED
      BY <2>1, <2>2, <3>1, SizesStay
  <2>4. CASE d \notin DOMAIN dims
    <3>1. dims'[d] = e
      BY <1>1, <1>2, <2>4
    <3>2. Along(d) = {}
      <4>1. \A i \in DOMAIN ncvars : ncvars[i].dim_ids # <<>> => ncvars[i].dim_ids[1] \in DOMAIN dims
        BY ShapesAre
      <4> QED
        BY <2>4, <4>1 DEF Along
    <3>3. e.size \in Nat /\ e.defined \in Nat
      BY DEF DimRecord
    <3> QED
      BY <2>1, <3>1, <3>2, <3>3 DEF SizeIsMeant
  <2> QED
    BY <2>3, <2>4
<1>4. ASSUME NEW i \in DOMAIN ncvars
      PROVE  /\ RecordsGrow(i)' /\ HoldsRecords(i)'
             /\ KindsFit(i)' => KindIsKept(i)' /\ DataIsMeant(i)'
  <2>1. DOMAIN dims \subseteq DOMAIN dims'
    BY <1>1, <1>2
  <2>2. \A k \in DOMAIN ncvars[i].dim_ids : dims'[ncvars[i].dim_ids[k]].size = dims[ncvars[i].dim_ids[k]].size
    BY <1>1 DEF DefsAreSound
  <2>3. TrailingStride(ncvars[i])' = TrailingStride(ncvars[i])
    BY <1>1, <2>1, <2>2, StrideStays
  <2>4. /\ RecordsGrow(i) => RecordsGrow(i)'
        /\ HoldsRecords(i) => HoldsRecords(i)'
        /\ KindIsKept(i) => KindIsKept(i)'
        /\ DataIsMeant(i) => DataIsMeant(i)'
    <3>1. NotCalled(i) /\ ncvars'[i] = ncvars[i]
      BY DEF NotCalled
    <3> QED
      BY <2>3, <3>1, OthersStay
  <2>5. KindsFit(i)' => KindsFit(i)
    BY DEF KindsFit, CallsOn
  <2> QED
    BY <2>4, <2>5 DEF AsDocumented
<1> QED
  BY <1>3, <1>4 DEF AsDocumented

\* A new variable has no records, and no data.
LEMMA DefVarKeeps ==
    ASSUME NcTypeOK, DefsAreSound, AsDocumented,
           NEW w \in VarRecord, ncvars' = Append(ncvars, w), dims' = dims, calls' = calls,
           \A k \in DOMAIN w.dim_ids : w.dim_ids[k] \in DOMAIN dims,
           w.data = NoData, w.appended_f64 = <<>>, w.appended_i32 = <<>>
    PROVE  AsDocumented'
<1>0. PICK new : new = Len(ncvars) + 1
  OBVIOUS
<1>1. /\ DOMAIN ncvars = 1..Len(ncvars) /\ DOMAIN ncvars' = 1..(Len(ncvars) + 1)
      /\ ncvars'[new] = w /\ \A i \in DOMAIN ncvars : ncvars'[i] = ncvars[i]
  <2>1. ncvars \in Seq(VarRecord)
    BY DEF NcTypeOK
  <2> QED
    BY <1>0, <2>1, Appending
<1>2. Len(ncvars) \in Nat
  BY DEF NcTypeOK
<1>3. /\ DOMAIN ncvars \subseteq DOMAIN ncvars' /\ new \notin DOMAIN ncvars /\ new \in DOMAIN ncvars'
      /\ \A i \in DOMAIN ncvars' : i \in DOMAIN ncvars \/ i = new
  BY <1>0, <1>1, <1>2
<1>4. calls \in Seq(CallRecord) /\ \A n \in DOMAIN calls : calls[n].var # new
  BY <1>3 DEF NcTypeOK, DefsAreSound
<1>5. /\ CallsOn(new)' = {}
      /\ \A n \in 0..Len(calls) : RecordsIn(calls, new, n) = 0
  BY <1>4, NoCallsNoRecords DEF CallsOn
<1>6. Len(calls) \in 0..Len(calls)
  BY <1>4
<1>7. ASSUME NEW d \in DOMAIN dims' PROVE SizeIsMeant(d)'
  <2>1. SizeIsMeant(d) /\ dims'[d] = dims[d] /\ dims[d].size \in Nat
    BY DefTypes DEF AsDocumented
  <2>2. \A i \in Along(d)' : i \in Along(d) \/ i = new
    BY <1>1, <1>3 DEF Along
  <2>3. \A i \in Along(d) : i \in Along(d)'
    BY <1>1, <1>3 DEF Along
  <2>4. \A i \in Along(d)' : RecordsIn(calls, i, Len(calls)) <= dims[d].size
    BY <1>5, <1>6, <2>1, <2>2 DEF SizeIsMeant, Records
  <2>5. \/ dims[d].size = dims[d].defined
        \/ \E i \in Along(d)' : RecordsIn(calls, i, Len(calls)) = dims[d].size
    BY <2>1, <2>3 DEF SizeIsMeant, Records
  <2> QED
    BY <2>1, <2>4, <2>5 DEF SizeIsMeant, Records
<1>8. ASSUME NEW i \in DOMAIN ncvars
      PROVE  /\ RecordsGrow(i)' /\ HoldsRecords(i)'
             /\ KindsFit(i)' => KindIsKept(i)' /\ DataIsMeant(i)'
  <2>1. TrailingStride(ncvars[i])' = TrailingStride(ncvars[i])
    BY <1>1 DEF TrailingStride, ShapeNow
  <2>2. /\ RecordsGrow(i) => RecordsGrow(i)'
        /\ HoldsRecords(i) => HoldsRecords(i)'
        /\ KindIsKept(i) => KindIsKept(i)'
        /\ DataIsMeant(i) => DataIsMeant(i)'
    <3>1. NotCalled(i) /\ ncvars'[i] = ncvars[i]
      BY <1>1 DEF NotCalled
    <3> QED
      BY <2>1, <3>1, OthersStay
  <2>3. KindsFit(i)' => KindsFit(i)
    BY <1>1 DEF KindsFit, CallsOn
  <2> QED
    BY <2>2, <2>3 DEF AsDocumented
<1>9. Held(w) = 0
  BY DEF Held, NoData
<1>10. RecordsGrow(new)' /\ HoldsRecords(new)'
  <2>1. \A n \in 0..Len(calls') : Records(new, n)' = 0
    BY <1>5 DEF Records
  <2>2. RecordsIn(calls', new, Len(calls')) = 0
    BY <1>5, <1>6
  <2>3. RecordsGrow(new)'
    BY <2>1, <2>2 DEF RecordsGrow, Records
  <2>4. TrailingStride(ncvars[new])' \in Nat
    <3> DEFINE ids == w.dim_ids
               shape == [k \in DOMAIN ids |-> dims[ids[k]].size]
    <3>1. ids \in Seq(Nat)
      BY DEF VarRecord
    <3>2. \A k \in DOMAIN ids : dims[ids[k]].size \in Nat
      BY DefTypes
    <3>3. TrailingStride(ncvars[new])' = IF ids = <<>> THEN 0 ELSE Volume(Tail(shape))
      BY <1>1 DEF TrailingStride, ShapeNow
    <3> HIDE DEF ids
    <3>4. DOMAIN ids = 1..Len(ids) /\ Len(ids) \in Nat
      BY <3>1
    <3>5. shape \in Seq(Nat) /\ Len(shape) = Len(ids)
      BY <3>2, <3>4
    <3> HIDE DEF shape
    <3>6. ids # <<>> => shape # <<>>
      BY <3>1, <3>5
    <3> QED
      BY <3>3, <3>5, <3>6, VolumeOfTail
  <2>5. HoldsRecords(new)'
    BY <1>1, <1>5, <1>9, <2>2, <2>4 DEF HoldsRecords, Records
  <2> QED
    BY <2>3, <2>5
<1>11. KindIsKept(new)'
  BY <1>1 DEF KindIsKept
<1>12. DataIsMeant(new)'
  <2>1. Len(DataOf(w)) = 0
    BY <1>9, HeldData
  <2>2. DataOf(ncvars[new])' = DataOf(w)
    BY <1>1 DEF DataOf
  <2>3. 1..Len(DataOf(ncvars[new])') = {}
    BY <2>1, <2>2
  <2> QED
    BY <2>3 DEF DataIsMeant
<1> QED
  BY <1>3, <1>7, <1>8, <1>10, <1>11, <1>12 DEF AsDocumented

\* A put sets all the elements there are; by its place in the history nothing was
\* appended before.
LEMMA PutKeeps ==
    ASSUME NcTypeOK, DefsAreSound, AsDocumented,
           NEW i \in DOMAIN ncvars, NEW kind \in {"f64", "i32", "str"}, NEW c \in CallRecord,
           PutStep(i, kind, c), CallsAreKept, DefsAreKept, PutsComeFirst(i)'
    PROVE  AsDocumented'
<1>0. PICK v, w, n0, stride, last :
          /\ v = ncvars[i] /\ w = ncvars'[i] /\ n0 = Len(calls)
          /\ stride = TrailingStride(ncvars[i]) /\ last = Records(i, Len(calls))
  OBVIOUS
<1>1. /\ dims' = dims /\ DOMAIN ncvars' = DOMAIN ncvars /\ ncvars' \in Seq(VarRecord)
      /\ \A j \in DOMAIN ncvars : j # i => ncvars'[j] = ncvars[j]
      /\ w = [v EXCEPT !.data = [kind |-> kind, values |-> c.data]]
      /\ calls' = Append(calls, c)
      /\ c.var = i /\ c.op = "put" /\ c.kind = kind /\ c.records = PutRecords(i)
      /\ Len(c.data) = Volume(ShapeNow(ncvars[i]))
  BY <1>0 DEF PutStep
<1>2. v \in VarRecord /\ stride \in Nat /\ last \in Nat /\ n0 \in Nat
  <2>1. stride \in Nat
    BY <1>0, ShapesAre
  <2>2. Len(calls) \in Nat /\ \A n \in 0..Len(calls) : Records(i, n) \in Nat
    BY <1>1, CallAdded
  <2> QED
    BY <1>0, <2>1, <2>2, DefTypes
<1>3. /\ w \in VarRecord /\ w.dim_ids = v.dim_ids /\ w.nc_type = v.nc_type
      /\ w.appended_f64 = v.appended_f64 /\ w.appended_i32 = v.appended_i32
      /\ w.data.kind = kind /\ w.data.values = c.data
  <2>1. w \in VarRecord
    <3>1. i \in DOMAIN ncvars' /\ \A j \in DOMAIN ncvars' : ncvars'[j] \in VarRecord
      BY <1>1
    <3> QED
      BY <1>0, <3>1
  <2>2. c.data \in Seq(Value)
    BY DEF CallRecord
  <2> QED
    BY <1>1, <1>2, <2>1, <2>2 DEF VarRecord
<1>4. /\ Len(calls') = n0 + 1 /\ DOMAIN calls' = 1..(n0 + 1)
      /\ calls'[n0 + 1] = c /\ \A n \in DOMAIN calls : calls'[n] = calls[n]
      /\ CallsOn(i)' = CallsOn(i) \cup {n0 + 1} /\ \A n \in CallsOn(i) : n \in 1..n0 /\ n \in DOMAIN calls
      /\ \A n \in 0..n0 : Records(i, n)' = Records(i, n) /\ Records(i, n) \in Nat
      /\ RecordsIn(calls', i, n0 + 1) = PutRecords(i)
  BY <1>0, <1>1, CallAdded DEF CallsOn
\* Nothing was appended.
<1>5. v.appended_f64 = <<>> /\ v.appended_i32 = <<>>
  <2>1. \A n \in CallsOn(i) : calls[n].op = "put"
    <3> SUFFICES ASSUME NEW n \in CallsOn(i)
                 PROVE  calls[n].op = "put"
      OBVIOUS
    <3>1. n < n0 + 1 /\ n \in CallsOn(i)' /\ n0 + 1 \in CallsOn(i)' /\ calls'[n] = calls[n]
      BY <1>2, <1>4
    <3>2. calls'[n].op = "append" => calls'[n0 + 1].op = "append"
      BY <3>1 DEF PutsComeFirst
    <3>3. calls[n].op \in {"put", "append"}
      BY <1>4, DefTypes
    <3> QED
      BY <1>1, <1>4, <3>1, <3>2, <3>3
  <2>2. HoldsRecords(i)
    BY DEF AsDocumented
  <2> QED
    BY <1>0, <2>1, <2>2 DEF HoldsRecords
<1>6. TrailingStride(ncvars[i])' = stride
  <2>1. dims' \in Seq(DimRecord) /\ ncvars'[i].dim_ids = ncvars[i].dim_ids
    BY <1>0, <1>1, <1>3 DEF NcTypeOK
  <2> QED
    BY <1>0, <1>1, <2>1, StrideStays
\* Its records, and what it holds.
<1>7. /\ v.dim_ids = <<>> => PutRecords(i) = 0 /\ Len(c.data) = 1
      /\ v.dim_ids # <<>> => /\ v.dim_ids[1] \in DOMAIN dims /\ PutRecords(i) = dims[v.dim_ids[1]].size
                             /\ Len(c.data) = PutRecords(i) * stride
      /\ PutRecords(i) \in Nat
  <2>1. CASE v.dim_ids = <<>>
    <3>1. ShapeNow(ncvars[i]) = <<>>
      BY <1>0, <2>1, ShapesAre
    <3> QED
      BY <1>0, <1>1, <2>1, <3>1, SmallVolumes DEF PutRecords
  <2>2. CASE v.dim_ids # <<>>
    <3>1. /\ ShapeNow(ncvars[i]) \in Seq(Nat) /\ ShapeNow(ncvars[i]) # <<>>
          /\ v.dim_ids[1] \in DOMAIN dims /\ ShapeNow(ncvars[i])[1] = dims[v.dim_ids[1]].size
          /\ stride = Volume(Tail(ShapeNow(ncvars[i])))
      BY <1>0, <2>2, ShapesAre
    <3>2. Volume(ShapeNow(ncvars[i])) = ShapeNow(ncvars[i])[1] * stride /\ ShapeNow(ncvars[i])[1] \in Nat
      BY <3>1, VolumeOfTail
    <3> QED
      BY <1>0, <1>1, <2>2, <3>1, <3>2 DEF PutRecords
  <2> QED
    BY <2>1, <2>2
<1>8. Held(w) = Len(c.data)
  <2>1. Len(<<>>) = 0 /\ Len(c.data) \in Nat
    BY <1>7, <1>2 DEF CallRecord
  <2> QED
    BY <1>3, <1>5, <2>1 DEF Held
<1>9. RecordsGrow(i)'
  <2>1. RecordsGrow(i)
    BY DEF AsDocumented
  <2>2. last <= PutRecords(i)
    <3>1. CASE v.dim_ids = <<>>
      BY <1>0, <1>7, <2>1, <3>1 DEF RecordsGrow
    <3>2. CASE v.dim_ids # <<>>
      <4>1. i \in Along(v.dim_ids[1]) /\ SizeIsMeant(v.dim_ids[1])
        BY <1>0, <1>7, <3>2 DEF Along, AsDocumented
      <4> QED
        BY <1>0, <1>7, <3>2, <4>1 DEF SizeIsMeant
    <3> QED
      BY <3>1, <3>2
  <2>3. \A n \in 0..(n0 + 1) : RecordsIn(calls', i, n) <= PutRecords(i)
    <3>1. \A n \in 0..(n0 + 1) : n \in 0..n0 \/ n = n0 + 1
      BY <1>2
    <3>2. \A n \in 0..n0 : RecordsIn(calls', i, n) = Records(i, n) /\ Records(i, n) <= last /\ Records(i, n) \in Nat
      BY <1>0, <1>4, <2>1 DEF RecordsGrow, Records
    <3>3. \A n \in 0..n0 : RecordsIn(calls', i, n) <= PutRecords(i)
      BY <1>2, <1>7, <2>2, <3>2
    <3> QED
      BY <1>4, <1>7, <3>1, <3>3
  <2>4. ncvars'[i].dim_ids = <<>> => RecordsIn(calls', i, Len(calls')) = 0
    BY <1>0, <1>3, <1>4, <1>7
  <2> QED
    BY <1>4, <2>3, <2>4 DEF RecordsGrow, Records
<1>10. HoldsRecords(i)'
  <2>1. w.dim_ids = <<>> => Held(w) = IF CallsOn(i)' = {} THEN 0 ELSE 1
    BY <1>3, <1>4, <1>7, <1>8
  <2>2. w.dim_ids # <<>> /\ TrailingStride(ncvars[i])' > 0 =>
            Held(w) = RecordsIn(calls', i, Len(calls')) * TrailingStride(ncvars[i])'
    BY <1>3, <1>4, <1>6, <1>7, <1>8
  <2>3. w.appended_f64 = <<>> /\ w.appended_i32 = <<>>
    BY <1>3, <1>5
  <2> QED
    BY <1>0, <2>1, <2>2, <2>3 DEF HoldsRecords, Records, Held
<1>11. ASSUME KindsFit(i)' PROVE KindIsKept(i)' /\ DataIsMeant(i)'
  <2>1. kind \in Takes(w.nc_type)
    <3>1. n0 + 1 \in CallsOn(i)' /\ calls'[n0 + 1].op = "put" /\ calls'[n0 + 1].kind = kind
      BY <1>1, <1>4
    <3> QED
      BY <1>0, <1>11, <3>1 DEF KindsFit
  <2>2. KindIsKept(i)'
    BY <1>0, <1>3, <1>5, <2>1 DEF KindIsKept
  <2>3. /\ Len(DataOf(w)) = Len(c.data)
        /\ \A place \in 1..Len(c.data) : DataOf(w)[place] = Converted(w.nc_type, kind, c.data[place])
    BY <1>3, <1>5, <1>8, <2>1, HeldData
  <2>4. DataIsMeant(i)'
    <3> SUFFICES ASSUME ncvars'[i].dim_ids = <<>> \/ TrailingStride(ncvars[i])' > 0,
                        NEW place \in 1..Len(DataOf(ncvars'[i]))
                 PROVE  PlaceIsMeant(i, place)'
      BY DEF DataIsMeant
    <3>1. place \in 1..Len(c.data) /\ place \in Nat
      BY <1>0, <2>3
    <3>2. FirstRecord(i, n0 + 1)' = 0
      BY <1>1, <1>4 DEF FirstRecord
    <3>3. Records(i, n0 + 1)' = PutRecords(i)
      BY <1>4 DEF Records
    <3>4. 0 * stride = 0 /\ place - 0 = place
      BY <1>2, <3>1
    <3>5. Covers(i, n0 + 1, place)'
      <4>1. CASE v.dim_ids = <<>>
        BY <1>0, <1>3, <4>1 DEF Covers
      <4>2. CASE v.dim_ids # <<>>
        <5>1. place \in (0 * stride + 1)..(PutRecords(i) * stride)
          BY <1>7, <3>1, <3>4, <4>2
        <5> QED
          BY <1>6, <3>2, <3>3, <5>1 DEF Covers
      <4> QED
        BY <4>1, <4>2
    <3>6. \A m \in CallsOn(i)' : ~(m > n0 + 1)
      BY <1>2, <1>4
    <3>7. place - FirstRecord(i, n0 + 1)' * TrailingStride(ncvars[i])' = place
      BY <1>6, <3>2, <3>4
    <3>8. n0 + 1 \in CallsOn(i)' /\ place \in DOMAIN calls'[n0 + 1].data /\ calls'[n0 + 1].kind = kind
      <4>1. c.data \in Seq(Value)
        BY DEF CallRecord
      <4> QED
        BY <1>1, <1>4, <3>1, <4>1
    <3>9. DataOf(ncvars'[i])[place] = Converted(ncvars'[i].nc_type, calls'[n0 + 1].kind, calls'[n0 + 1].data[place])
      BY <1>0, <1>1, <1>4, <2>3, <3>1
    <3> QED
      BY <3>5, <3>6, <3>7, <3>8, <3>9 DEF PlaceIsMeant
  <2> QED
    BY <2>2, <2>4
<1>12. ASSUME NEW j \in DOMAIN ncvars, j # i
       PROVE  /\ RecordsGrow(j)' /\ HoldsRecords(j)'
              /\ KindsFit(j)' => KindIsKept(j)' /\ DataIsMeant(j)'
  <2>1. NotCalled(j) /\ ncvars'[j] = ncvars[j]
    BY <1>1, <1>12 DEF NotCalled
  <2>2. TrailingStride(ncvars[j])' = TrailingStride(ncvars[j])
    <3>1. dims' \in Seq(DimRecord)
      BY <1>1 DEF NcTypeOK
    <3> QED
      BY <1>1, <2>1, <3>1, StrideStays
  <2>3. KindsFit(j)' => KindsFit(j)
    BY KindsFittedBefore
  <2>4. /\ RecordsGrow(j) => RecordsGrow(j)'
        /\ HoldsRecords(j) => HoldsRecords(j)'
        /\ KindIsKept(j) => KindIsKept(j)'
        /\ DataIsMeant(j) => DataIsMeant(j)'
    BY <2>1, <2>2, OthersStay
  <2> QED
    BY <2>3, <2>4 DEF AsDocumented
<1>13. ASSUME NEW d \in DOMAIN dims PROVE SizeIsMeant(d)'
  <2>1. Along(d)' = Along(d)
    BY <1>1 DEF Along, DefsAreKept
  <2>2. \A j \in Along(d) : j # i => RecordsIn(calls', j, Len(calls')) = Records(j, Len(calls))
    <3> SUFFICES ASSUME NEW j \in Along(d), j # i
                 PROVE  RecordsIn(calls', j, Len(calls')) = Records(j, Len(calls))
      OBVIOUS
    <3>1. NotCalled(j)
      BY <1>1 DEF NotCalled
    <3> QED
      BY <3>1, HistoryOfOthers
  <2>3. i \in Along(d) => RecordsIn(calls', i, Len(calls')) = dims[d].size
    BY <1>0, <1>4, <1>7 DEF Along
  <2>4. SizeIsMeant(d) /\ dims[d].size \in Nat
    BY DefTypes DEF AsDocumented
  <2>5. \A j \in Along(d) : RecordsIn(calls', j, Len(calls')) <= dims[d].size
    BY <2>2, <2>3, <2>4 DEF SizeIsMeant
  <2>6. \/ dims[d].size = dims[d].defined
        \/ \E j \in Along(d) : RecordsIn(calls', j, Len(calls')) = dims[d].size
    BY <2>2, <2>3, <2>4 DEF SizeIsMeant
  <2> QED
    BY <1>1, <2>1, <2>4, <2>5, <2>6 DEF SizeIsMeant, Records
<1> QED
  BY <1>1, <1>9, <1>10, <1>11, <1>12, <1>13 DEF AsDocumented

\* Records times elements of one.
LEMMA RecordsOf ==
    ASSUME NEW a \in Nat, NEW b \in Nat, NEW s \in Nat \ {0}
    PROVE  /\ a * s + b * s = (a + b) * s /\ ((a + b) * s) \div s = a + b
           /\ a * s \in Nat /\ b * s \in Nat
<1>1. /\ a * s + b * s = (a + b) * s /\ (a + b) * s = s * (a + b) + 0
      /\ a * s \in Nat /\ b * s \in Nat /\ (a + b) * s \in Nat /\ a + b \in Nat
  OBVIOUS
<1> DEFINE m == (a + b) * s
           q == a + b
<1>2. m \in Nat /\ q \in Nat /\ m = s * q + 0 /\ 0 \in Nat /\ 0 < s
  BY <1>1
<1> HIDE DEF m, q
<1>3. m \div s = q
  BY <1>2, DivisionIsUnique
<1> QED
  BY <1>1, <1>3 DEF m, q

\* An append is of the variable's own next records, and its dimension is no shorter
\* than they reach.
LEMMA AppendKeeps ==
    ASSUME NcTypeOK, DefsAreSound, AsDocumented,
           NEW i \in DOMAIN ncvars, NEW field \in {"appended_f64", "appended_i32"}, NEW c \in CallRecord,
           AppendStep(i, field, c), CallsAreKept, DefsAreKept, AppendsAreAlongUnlimited'
    PROVE  AsDocumented'
<1>0. PICK v, w, n0, stride, last, d1 :
          /\ v = ncvars[i] /\ w = ncvars'[i] /\ n0 = Len(calls)
          /\ stride = TrailingStride(ncvars[i]) /\ last = Records(i, Len(calls))
          /\ d1 = ncvars[i].dim_ids[1]
  OBVIOUS
<1>1. /\ DOMAIN ncvars' = DOMAIN ncvars /\ ncvars' \in Seq(VarRecord)
      /\ \A j \in DOMAIN ncvars : j # i => ncvars'[j] = ncvars[j]
      /\ w = IF field = "appended_f64" THEN [v EXCEPT !.appended_f64 = v.appended_f64 \o c.data]
                                       ELSE [v EXCEPT !.appended_i32 = v.appended_i32 \o c.data]
      /\ dims' \in Seq(DimRecord) /\ DOMAIN dims' = DOMAIN dims
      /\ \A d \in DOMAIN dims : /\ dims'[d].unlimited = dims[d].unlimited /\ dims'[d].defined = dims[d].defined
                                /\ dims'[d].size = SizeAfter(i, w, c.records, d)
      /\ calls' = Append(calls, c)
      /\ c.var = i /\ c.op = "append" /\ c.kind = IF field = "appended_f64" THEN "f64" ELSE "i32"
      /\ stride = 0 => c.records = 0
      /\ stride # 0 => Len(c.data) = c.records * stride
  BY <1>0 DEF AppendStep
<1>2. v \in VarRecord /\ stride \in Nat /\ last \in Nat /\ n0 \in Nat
  <2>1. stride \in Nat
    BY <1>0, ShapesAre
  <2>2. Len(calls) \in Nat /\ \A n \in 0..Len(calls) : Records(i, n) \in Nat
    BY <1>1, CallAdded
  <2> QED
    BY <1>0, <2>1, <2>2, DefTypes
<1>3. /\ v.appended_f64 \in Seq(Value) /\ v.appended_i32 \in Seq(Value) /\ v.data.values \in Seq(Value)
      /\ v.data.kind \in {"none", "f64", "i32", "str"}
      /\ c.data \in Seq(Value) /\ c.records \in Nat
  BY <1>2 DEF VarRecord, CallRecord
<1>4. /\ w \in VarRecord /\ w.dim_ids = v.dim_ids /\ w.nc_type = v.nc_type /\ w.data = v.data
      /\ w.appended_f64 = IF field = "appended_f64" THEN v.appended_f64 \o c.data ELSE v.appended_f64
      /\ w.appended_i32 = IF field = "appended_i32" THEN v.appended_i32 \o c.data ELSE v.appended_i32
  <2>1. w \in VarRecord
    <3>1. i \in DOMAIN ncvars' /\ \A j \in DOMAIN ncvars' : ncvars'[j] \in VarRecord
      BY <1>1
    <3> QED
      BY <1>0, <3>1
  <2>2. CASE field = "appended_f64"
    BY <1>1, <1>2, <2>1, <2>2 DEF VarRecord
  <2>3. CASE field = "appended_i32"
    BY <1>1, <1>2, <2>1, <2>3 DEF VarRecord
  <2> QED
    BY <2>2, <2>3
<1>5. /\ Len(calls') = n0 + 1 /\ DOMAIN calls' = 1..(n0 + 1)
      /\ calls'[n0 + 1] = c /\ \A n \in DOMAIN calls : calls'[n] = calls[n]
      /\ CallsOn(i)' = CallsOn(i) \cup {n0 + 1} /\ \A n \in CallsOn(i) : n \in 1..n0 /\ n \in DOMAIN calls
      /\ \A n \in 0..n0 : Records(i, n)' = Records(i, n) /\ Records(i, n) \in Nat
      /\ \A n \in CallsOn(i) : FirstRecord(i, n)' = FirstRecord(i, n)
      /\ RecordsIn(calls', i, n0 + 1) = last + c.records
  BY <1>0, <1>1, CallAdded DEF CallsOn
\* It is along an unlimited dimension, which is no other axis.
<1>6. /\ v.dim_ids # <<>> /\ d1 \in DOMAIN dims /\ dims[d1].unlimited
      /\ \A j \in DOMAIN ncvars : \A k \in DOMAIN ncvars[j].dim_ids : k # 1 => ncvars[j].dim_ids[k] # d1
  <2>1. c \in Range(calls')
    <3>1. n0 + 1 \in DOMAIN calls'
      BY <1>2, <1>5
    <3> QED
      BY <1>5, <3>1 DEF Range
  <2>2. ncvars'[i].dim_ids # <<>> /\ dims'[ncvars'[i].dim_ids[1]].unlimited
    BY <1>1, <2>1 DEF AppendsAreAlongUnlimited
  <2>3. v.dim_ids # <<>> /\ d1 \in DOMAIN dims /\ dims'[d1].unlimited
    BY <1>0, <1>4, <2>2, ShapesAre
  <2>4. ASSUME NEW j \in DOMAIN ncvars, NEW k \in DOMAIN ncvars[j].dim_ids, k # 1
        PROVE  ncvars[j].dim_ids[k] # d1
    <3>1. ncvars'[j] \in Range(ncvars') /\ ncvars'[j].dim_ids = ncvars[j].dim_ids
      BY <1>1 DEF Range, DefsAreKept
    <3>2. dims'[ncvars[j].dim_ids[k]].unlimited => k = 1
      BY <3>1 DEF AppendsAreAlongUnlimited
    <3> QED
      BY <2>3, <2>4, <3>2
  <2> QED
    BY <1>1, <2>3, <2>4
<1>7. \A d \in DOMAIN dims : d # d1 => dims'[d].size = dims[d].size
  BY <1>0, <1>1 DEF SizeAfter
<1>8. \A j \in DOMAIN ncvars : TrailingStride(ncvars[j])' = TrailingStride(ncvars[j])
  <2> SUFFICES ASSUME NEW j \in DOMAIN ncvars
               PROVE  TrailingStride(ncvars[j])' = TrailingStride(ncvars[j])
    OBVIOUS
  <2>1. \A k \in DOMAIN ncvars[j].dim_ids :
            k # 1 => dims'[ncvars[j].dim_ids[k]].size = dims[ncvars[j].dim_ids[k]].size
    BY <1>6, <1>7 DEF DefsAreSound
  <2>2. ncvars'[j].dim_ids = ncvars[j].dim_ids
    BY DEF DefsAreKept
  <2> QED
    BY <1>1, <2>1, <2>2, StrideStays
\* What it holds.
<1>9. /\ Held(v) \in Nat /\ Held(w) = Held(v) + Len(c.data) /\ Len(c.data) \in Nat
  <2>1. /\ Len(v.appended_f64 \o c.data) = Len(v.appended_f64) + Len(c.data)
        /\ Len(v.appended_i32 \o c.data) = Len(v.appended_i32) + Len(c.data)
        /\ Len(v.appended_f64) \in Nat /\ Len(v.appended_i32) \in Nat /\ Len(v.data.values) \in Nat
        /\ Len(c.data) \in Nat
    BY <1>3
  <2>2. /\ Held(v) = Len(v.data.values) + Len(v.appended_f64) + Len(v.appended_i32)
        /\ Held(w) = Len(v.data.values) + Len(w.appended_f64) + Len(w.appended_i32)
    BY <1>4 DEF Held
  <2>3. \/ /\ Len(w.appended_f64) = Len(v.appended_f64) + Len(c.data)
           /\ Len(w.appended_i32) = Len(v.appended_i32)
        \/ /\ Len(w.appended_f64) = Len(v.appended_f64)
           /\ Len(w.appended_i32) = Len(v.appended_i32) + Len(c.data)
    <3>1. CASE field = "appended_f64"
      <4>1. w.appended_f64 = v.appended_f64 \o c.data /\ w.appended_i32 = v.appended_i32
        BY <1>4, <3>1
      <4> QED
        BY <2>1, <4>1
    <3>2. CASE field = "appended_i32"
      <4>1. w.appended_f64 = v.appended_f64 /\ w.appended_i32 = v.appended_i32 \o c.data
        BY <1>4, <3>2
      <4> QED
        BY <2>1, <4>1
    <3> QED
      BY <3>1, <3>2
  <2> DEFINE p == Len(v.data.values)
             q == Len(v.appended_f64)
             r == Len(v.appended_i32)
             m == Len(c.data)
             hv == Held(v)
             hw == Held(w)
             q2 == Len(w.appended_f64)
             r2 == Len(w.appended_i32)
  <2>4. /\ p \in Nat /\ q \in Nat /\ r \in Nat /\ m \in Nat
        /\ hv = p + q + r /\ hw = p + q2 + r2
        /\ (q2 = q + m /\ r2 = r) \/ (q2 = q /\ r2 = r + m)
    BY <2>1, <2>2, <2>3
  <2> HIDE DEF p, q, r, m, hv, hw, q2, r2
  <2>5. hv \in Nat /\ hw = hv + m /\ m \in Nat
    BY <2>4
  <2> QED
    BY <2>5 DEF hv, hw, m
<1>10. stride > 0 => /\ Held(v) = last * stride /\ Held(w) = (last + c.records) * stride
                     /\ CurrentRecords(w, stride) = last + c.records
  <2> SUFFICES ASSUME stride > 0
               PROVE  /\ Held(v) = last * stride /\ Held(w) = (last + c.records) * stride
                      /\ CurrentRecords(w, stride) = last + c.records
    OBVIOUS
  <2>1. HoldsRecords(i)
    BY DEF AsDocumented
  <2>2. Held(v) = last * stride
    BY <1>0, <1>6, <2>1 DEF HoldsRecords
  <2>3. stride # 0 /\ Len(c.data) = c.records * stride /\ stride \in Nat \ {0}
    BY <1>1, <1>2
  <2>4. Held(w) = (last + c.records) * stride /\ ((last + c.records) * stride) \div stride = last + c.records
    <3>1. /\ last * stride + c.records * stride = (last + c.records) * stride
          /\ ((last + c.records) * stride) \div stride = last + c.records
      BY <1>2, <1>3, <2>3, RecordsOf
    <3> QED
      BY <1>9, <2>2, <2>3, <3>1
  <2>5. CurrentRecords(w, stride) = Held(w) \div stride
    BY <1>4, <2>3, CurrentRecordsAre
  <2> QED
    BY <2>2, <2>4, <2>5
<1>11. /\ dims[d1].size \in Nat
       /\ stride = 0 => dims'[d1].size = dims[d1].size
       /\ stride > 0 => dims'[d1].size = IF dims[d1].size <= last + c.records THEN last + c.records ELSE dims[d1].size
       /\ dims'[d1].size \in Nat
  <2>1. dims[d1].size \in Nat
    BY <1>6, DefTypes
  <2>2. dims'[d1].size = Larger(dims[d1].size, CurrentRecords(w, stride))
    BY <1>0, <1>1, <1>6 DEF SizeAfter
  <2>3. stride = 0 => CurrentRecords(w, stride) = 0
    BY DEF CurrentRecords
  <2> QED
    BY <1>2, <1>3, <1>10, <2>1, <2>2, <2>3 DEF Larger
<1>12. RecordsGrow(i)'
  <2>1. RecordsGrow(i)
    BY DEF AsDocumented
  <2>2. \A n \in 0..(n0 + 1) : RecordsIn(calls', i, n) <= last + c.records
    <3>1. \A n \in 0..(n0 + 1) : n \in 0..n0 \/ n = n0 + 1
      BY <1>2
    <3>2. \A n \in 0..n0 : RecordsIn(calls', i, n) = Records(i, n) /\ Records(i, n) <= last /\ Records(i, n) \in Nat
      BY <1>0, <1>5, <2>1 DEF RecordsGrow, Records
    <3>3. \A n \in 0..n0 : RecordsIn(calls', i, n) <= last + c.records
      BY <1>2, <1>3, <3>2
    <3>4. last + c.records <= last + c.records
      BY <1>2, <1>3
    <3> QED
      BY <1>5, <3>1, <3>3, <3>4
  <2>3. ncvars'[i].dim_ids # <<>>
    BY <1>0, <1>4, <1>6
  <2> QED
    BY <1>5, <2>2, <2>3 DEF RecordsGrow, Records
<1>13. HoldsRecords(i)'
  <2>1. ~(\A n \in CallsOn(i)' : calls'[n].op = "put")
    BY <1>1, <1>5
  <2>2. TrailingStride(ncvars[i])' > 0 => Held(w) = RecordsIn(calls', i, Len(calls')) * TrailingStride(ncvars[i])'
    BY <1>0, <1>5, <1>8, <1>10
  <2>3. w.dim_ids # <<>>
    BY <1>4, <1>6
  <2> QED
    BY <1>0, <2>1, <2>2, <2>3 DEF HoldsRecords, Records, Held
<1>14. ASSUME KindsFit(i)' PROVE KindIsKept(i)' /\ DataIsMeant(i)'
  <2>1. KindIsKept(i) /\ DataIsMeant(i)
    BY <1>14, KindsFittedBefore DEF AsDocumented
  \* The data is of the type itself.
  <2>2. <<v.nc_type, c.kind>> \in {<<"Float64", "f64">>, <<"Int32", "i32">>}
    <3>1. n0 + 1 \in CallsOn(i)' /\ calls'[n0 + 1] = c
      BY <1>5
    <3> QED
      BY <1>0, <1>1, <1>4, <1>14, <3>1 DEF KindsFit
  <2>3. \/ field = "appended_f64" /\ c.kind = "f64" /\ v.nc_type = "Float64"
        \/ field = "appended_i32" /\ c.kind = "i32" /\ v.nc_type = "Int32"
    BY <1>1, <2>2
  <2>4. /\ v.data.kind \in Takes(v.nc_type) \/ v.data = NoData
        /\ v.appended_f64 = <<>> \/ v.nc_type = "Float64"
        /\ v.appended_i32 = <<>> \/ v.nc_type = "Int32"
    BY <1>0, <2>1 DEF KindIsKept
  <2>5. /\ w.data.kind \in Takes(w.nc_type) \/ w.data = NoData
        /\ w.appended_f64 = <<>> \/ w.nc_type = "Float64"
        /\ w.appended_i32 = <<>> \/ w.nc_type = "Int32"
    BY <1>4, <2>3, <2>4
  <2>6. KindIsKept(i)'
    BY <1>0, <2>5 DEF KindIsKept
  \* The data comes after what there was.
  <2>7. /\ Len(DataOf(v)) = Held(v) /\ Len(DataOf(w)) = Held(v) + Len(c.data)
        /\ \A place \in 1..Held(v) : DataOf(w)[place] = DataOf(v)[place]
        /\ \A j \in 1..Len(c.data) : DataOf(w)[Held(v) + j] = c.data[j]
    <3> DEFINE a == Len(v.data.values)
               old == IF v.nc_type = "Float64" THEN v.appended_f64 ELSE v.appended_i32
               new == IF v.nc_type = "Float64" THEN w.appended_f64 ELSE w.appended_i32
    <3>1. /\ Len(DataOf(v)) = Held(v)
          /\ \A j \in 1..a : DataOf(v)[j] = Converted(v.nc_type, v.data.kind, v.data.values[j])
          /\ \A j \in 1..(Len(v.appended_f64) + Len(v.appended_i32)) : DataOf(v)[a + j] = old[j]
      <4>1. /\ Len(DataOf(v)) = Held(v)
            /\ \A j \in 1..Len(v.data.values) : DataOf(v)[j] = Converted(v.nc_type, v.data.kind, v.data.values[j])
            /\ \A j \in 1..(Len(v.appended_f64) + Len(v.appended_i32)) :
                   DataOf(v)[Len(v.data.values) + j] = IF v.nc_type = "Float64" THEN v.appended_f64[j]
                                                       ELSE v.appended_i32[j]
        BY <1>2, <2>4, HeldData
      <4> QED
        BY <4>1
    <3>2. /\ Len(DataOf(w)) = Held(w)
          /\ \A j \in 1..a : DataOf(w)[j] = Converted(v.nc_type, v.data.kind, v.data.values[j])
          /\ \A j \in 1..(Len(w.appended_f64) + Len(w.appended_i32)) : DataOf(w)[a + j] = new[j]
      <4>1. /\ Len(DataOf(w)) = Held(w)
            /\ \A j \in 1..Len(w.data.values) : DataOf(w)[j] = Converted(w.nc_type, w.data.kind, w.data.values[j])
            /\ \A j \in 1..(Len(w.appended_f64) + Len(w.appended_i32)) :
                   DataOf(w)[Len(w.data.values) + j] = IF w.nc_type = "Float64" THEN w.appended_f64[j]
                                                       ELSE w.appended_i32[j]
        BY <1>4, <2>5, HeldData
      <4> QED
        BY <1>4, <4>1
    <3>3. old \in Seq(Value) /\ new = old \o c.data /\ new \in Seq(Value)
      <4>1. v.appended_f64 \o c.data \in Seq(Value) /\ v.appended_i32 \o c.data \in Seq(Value)
        BY <1>3
      <4> QED
        BY <1>3, <1>4, <2>3, <4>1
    <3>4. /\ Len(v.appended_f64) + Len(v.appended_i32) = Len(old)
          /\ Len(w.appended_f64) + Len(w.appended_i32) = Len(new)
      <4>1. Len(<<>>) = 0
        OBVIOUS
      <4>2. CASE v.nc_type = "Float64"
        <5>1. Len(v.appended_i32) = 0 /\ Len(w.appended_i32) = 0
          BY <1>4, <2>4, <2>5, <4>1, <4>2
        <5>2. old = v.appended_f64 /\ new = w.appended_f64
          BY <4>2
        <5>3. Len(old) \in Nat /\ Len(new) \in Nat
          BY <3>3
        <5> HIDE DEF old, new
        <5> QED
          BY <5>1, <5>2, <5>3
      <4>3. CASE v.nc_type # "Float64"
        <5>1. Len(v.appended_f64) = 0 /\ Len(w.appended_f64) = 0
          BY <1>4, <2>4, <2>5, <4>1, <4>3
        <5>2. old = v.appended_i32 /\ new = w.appended_i32
          BY <4>3
        <5>3. Len(old) \in Nat /\ Len(new) \in Nat
          BY <3>3
        <5> HIDE DEF old, new
        <5> QED
          BY <5>1, <5>2, <5>3
      <4> QED
        BY <4>2, <4>3
    <3> HIDE DEF a, old, new
    <3>5. Held(v) = a + Len(old) /\ a \in Nat
      <4>1. /\ Held(v) = a + Len(v.appended_f64) + Len(v.appended_i32) /\ a \in Nat
            /\ Len(v.appended_f64) \in Nat /\ Len(v.appended_i32) \in Nat
        BY <1>3 DEF Held, a
      <4> DEFINE q == Len(v.appended_f64)
                 r == Len(v.appended_i32)
                 hv == Held(v)
                 m == Len(old)
      <4>2. hv = a + q + r /\ a \in Nat /\ q \in Nat /\ r \in Nat /\ q + r = m
        BY <3>4, <4>1
      <4> HIDE DEF q, r, hv, m
      <4>3. hv = a + m /\ a \in Nat
        BY <4>2
      <4> QED
        BY <4>3 DEF hv, m
    <3>6. /\ Len(new) = Len(old) + Len(c.data) /\ Len(old) \in Nat /\ Len(c.data) \in Nat
          /\ \A j \in 1..Len(old) : new[j] = old[j]
          /\ \A j \in 1..Len(c.data) : new[Len(old) + j] = c.data[j]
      BY <1>3, <3>3, Joined
    <3>7. ASSUME NEW place \in 1..Held(v) PROVE DataOf(w)[place] = DataOf(v)[place]
      <4>1. CASE place \in 1..a
        BY <3>1, <3>2, <4>1
      <4>2. CASE place \notin 1..a
        <5>1. place - a \in 1..Len(old) /\ a + (place - a) = place /\ place - a \in 1..Len(new)
          BY <3>5, <3>6, <4>2
        <5>2. DataOf(v)[a + (place - a)] = old[place - a] /\ DataOf(w)[a + (place - a)] = new[place - a]
          BY <3>1, <3>2, <3>4, <5>1
        <5> QED
          BY <3>6, <5>1, <5>2
      <4> QED
        BY <4>1, <4>2
    <3>8. ASSUME NEW j \in 1..Len(c.data) PROVE DataOf(w)[Held(v) + j] = c.data[j]
      <4>1. Len(old) + j \in 1..Len(new) /\ a + (Len(old) + j) = Held(v) + j
        BY <3>5, <3>6
      <4>2. DataOf(w)[a + (Len(old) + j)] = new[Len(old) + j]
        BY <3>2, <3>4, <4>1
      <4> QED
        BY <3>6, <4>1, <4>2
    <3> QED
      BY <1>9, <3>1, <3>2, <3>7, <3>8
  <2>8. DataIsMeant(i)'
    <3> SUFFICES ASSUME TrailingStride(ncvars[i])' > 0, NEW place \in 1..Len(DataOf(ncvars'[i]))
                 PROVE  PlaceIsMeant(i, place)'
      BY <1>0, <1>4, <1>6 DEF DataIsMeant
    <3>1. stride > 0 /\ TrailingStride(ncvars[i])' = stride
      BY <1>0, <1>8
    <3>2. place \in Nat /\ place >= 1 /\ place <= Held(v) + Len(c.data)
      BY <1>0, <1>9, <2>7
    <3>3. Held(v) = last * stride /\ Held(v) + Len(c.data) = (last + c.records) * stride
      BY <1>9, <1>10, <3>1
    <3>4. FirstRecord(i, n0 + 1)' = last /\ Records(i, n0 + 1)' = last + c.records
      <4>1. FirstRecord(i, n0 + 1)' = RecordsIn(calls', i, (n0 + 1) - 1)
        <5>1. calls'[n0 + 1].op # "put"
          BY <1>1, <1>5
        <5> QED
          BY <5>1 DEF FirstRecord, Records
      <4>2. (n0 + 1) - 1 = n0 /\ n0 \in 0..n0
        BY <1>2
      <4>3. RecordsIn(calls', i, n0) = last
        BY <1>0, <1>5, <4>2 DEF Records
      <4>4. FirstRecord(i, n0 + 1)' = last
        BY <4>1, <4>2, <4>3
      <4> QED
        BY <1>5, <4>4 DEF Records
    <3>5. Covers(i, n0 + 1, place)' <=> place \in (last * stride + 1)..((last + c.records) * stride)
      BY <1>0, <1>4, <1>6, <3>1, <3>4 DEF Covers
    <3>6. CASE place <= Held(v)
      <4>1. PlaceIsMeant(i, place)
        <5>1. place \in 1..Len(DataOf(ncvars[i])) /\ TrailingStride(ncvars[i]) > 0
          BY <1>0, <1>9, <2>7, <3>1, <3>2, <3>6
        <5> QED
          BY <2>1, <5>1 DEF DataIsMeant
      <4>2. PICK n \in CallsOn(i) :
                LET from == place - FirstRecord(i, n) * TrailingStride(ncvars[i])
                IN  /\ Covers(i, n, place)
                    /\ \A m \in CallsOn(i) : m > n => ~Covers(i, m, place)
                    /\ from \in DOMAIN calls[n].data
                    /\ DataOf(ncvars[i])[place] = Converted(ncvars[i].nc_type, calls[n].kind, calls[n].data[from])
        BY <4>1 DEF PlaceIsMeant
      <4>3. \A m \in CallsOn(i) : Covers(i, m, place)' <=> Covers(i, m, place)
        <5>1. \A m \in CallsOn(i) : /\ Records(i, m)' = Records(i, m)
                                    /\ FirstRecord(i, m)' = FirstRecord(i, m)
          <6>1. \A m \in 1..n0 : m \in 0..n0
            BY <1>2
          <6> QED
            BY <1>5, <6>1
        <5> QED
          BY <1>0, <1>4, <3>1, <5>1 DEF Covers
      <4>4. ~Covers(i, n0 + 1, place)'
        BY <1>9, <3>2, <3>3, <3>5, <3>6
      <4>5. Covers(i, n, place)' /\ \A m \in CallsOn(i)' : m > n => ~Covers(i, m, place)'
        BY <1>5, <4>2, <4>3, <4>4
      <4>6. place - FirstRecord(i, n)' * TrailingStride(ncvars[i])' = place - FirstRecord(i, n) * TrailingStride(ncvars[i])
        BY <1>0, <1>5, <3>1, <4>2
      <4>7. n \in CallsOn(i)' /\ calls'[n] = calls[n]
        BY <1>5, <4>2
      <4>8. DataOf(ncvars'[i])[place] = DataOf(ncvars[i])[place] /\ ncvars'[i].nc_type = ncvars[i].nc_type
        BY <1>0, <1>4, <1>9, <2>7, <3>2, <3>6
      <4> QED
        BY <4>2, <4>5, <4>6, <4>7, <4>8 DEF PlaceIsMeant
    <3>7. CASE place > Held(v)
      <4>1. Covers(i, n0 + 1, place)'
        BY <1>9, <3>2, <3>3, <3>5, <3>7
      <4>2. \A m \in CallsOn(i)' : ~(m > n0 + 1)
        BY <1>2, <1>5
      <4>3. PICK j \in 1..Len(c.data) : place = Held(v) + j /\ place - Held(v) = j
        <5>1. place - Held(v) \in 1..Len(c.data) /\ place = Held(v) + (place - Held(v))
          BY <1>9, <3>2, <3>7
        <5> QED
          BY <5>1
      <4>4. place - FirstRecord(i, n0 + 1)' * TrailingStride(ncvars[i])' = j
        BY <3>1, <3>3, <3>4, <4>3
      <4>5. n0 + 1 \in CallsOn(i)' /\ j \in DOMAIN calls'[n0 + 1].data
        BY <1>3, <1>5, <4>3
      <4>6. DataOf(w)[place] = c.data[j]
        BY <2>7, <4>3
      <4>7. Converted(w.nc_type, c.kind, c.data[j]) = c.data[j]
        BY <1>4, <2>2 DEF Converted
      <4>8. DataOf(ncvars'[i])[place] = Converted(ncvars'[i].nc_type, calls'[n0 + 1].kind, calls'[n0 + 1].data[j])
        BY <1>0, <1>5, <4>6, <4>7
      <4> QED
        BY <4>1, <4>2, <4>4, <4>5, <4>8 DEF PlaceIsMeant
    <3> QED
      BY <1>9, <3>2, <3>6, <3>7
  <2> QED
    BY <2>6, <2>8
<1>15. ASSUME NEW j \in DOMAIN ncvars, j # i
       PROVE  /\ RecordsGrow(j)' /\ HoldsRecords(j)'
              /\ KindsFit(j)' => KindIsKept(j)' /\ DataIsMeant(j)'
  <2>1. NotCalled(j) /\ ncvars'[j] = ncvars[j]
    BY <1>1, <1>15 DEF NotCalled
  <2>2. TrailingStride(ncvars[j])' = TrailingStride(ncvars[j])
    BY <1>8
  <2>3. KindsFit(j)' => KindsFit(j)
    BY KindsFittedBefore
  <2>4. /\ RecordsGrow(j) => RecordsGrow(j)'
        /\ HoldsRecords(j) => HoldsRecords(j)'
        /\ KindIsKept(j) => KindIsKept(j)'
        /\ DataIsMeant(j) => DataIsMeant(j)'
    BY <2>1, <2>2, OthersStay
  <2> QED
    BY <2>3, <2>4 DEF AsDocumented
<1>16. \A j \in DOMAIN ncvars : j # i => RecordsIn(calls', j, Len(calls')) = Records(j, Len(calls))
  <2> SUFFICES ASSUME NEW j \in DOMAIN ncvars, j # i
               PROVE  RecordsIn(calls', j, Len(calls')) = Records(j, Len(calls))
    OBVIOUS
  <2>1. NotCalled(j)
    BY <1>1 DEF NotCalled
  <2> QED
    BY <2>1, HistoryOfOthers
<1>17. ASSUME NEW d \in DOMAIN dims, d # d1 PROVE SizeIsMeant(d)'
  <2>1. Along(d)' = Along(d)
    BY <1>1 DEF Along, DefsAreKept
  <2>2. \A j \in Along(d) : RecordsIn(calls', j, Len(calls')) = Records(j, Len(calls))
    BY <1>0, <1>16, <1>17 DEF Along
  <2>3. SizeIsMeant(d)
    BY DEF AsDocumented
  <2> QED
    BY <1>1, <1>7, <1>17, <2>1, <2>2, <2>3, SizesStay
<1>18. SizeIsMeant(d1)'
  <2> DEFINE after == last + c.records
             size == dims[d1].size
             grown == dims'[d1].size
  <2>1. Along(d1)' = Along(d1) /\ i \in Along(d1)
    BY <1>0, <1>1, <1>6 DEF Along, DefsAreKept
  <2>2. /\ dims[d1].defined <= size /\ dims[d1].defined \in Nat
        /\ \A j \in Along(d1) : Records(j, Len(calls)) <= size
        /\ size = dims[d1].defined \/ \E j \in Along(d1) : Records(j, Len(calls)) = size
    BY <1>6, DefTypes DEF AsDocumented, SizeIsMeant
  <2>3. /\ RecordsIn(calls', i, Len(calls')) = after
        /\ \A j \in Along(d1) : j # i => RecordsIn(calls', j, Len(calls')) = Records(j, Len(calls))
    BY <1>5, <1>16 DEF Along
  <2>4. \A j \in Along(d1) : Records(j, Len(calls)) \in Nat
    <3>1. \A j : Len(calls) \in Nat /\ \A n \in 0..Len(calls) : Records(j, n) \in Nat
      BY <1>1, CallAdded
    <3>2. Len(calls) \in 0..Len(calls)
      BY <3>1
    <3> QED
      BY <3>1, <3>2
  <2>5. /\ after \in Nat /\ size \in Nat /\ grown \in Nat /\ last <= size /\ last <= after
        /\ (grown = size /\ after <= size) \/ (grown = after /\ size <= after)
    <3>1. last <= size
      BY <1>0, <2>1, <2>2
    <3>2. CASE stride = 0
      BY <1>1, <1>2, <1>3, <1>11, <3>1, <3>2
    <3>3. CASE stride > 0
      BY <1>2, <1>3, <1>11, <3>1, <3>3
    <3> QED
      BY <1>2, <3>2, <3>3
  <2> HIDE DEF after, size
  <2>6. \A j \in Along(d1) : RecordsIn(calls', j, Len(calls')) <= grown
    BY <2>2, <2>3, <2>4, <2>5
  <2>7. grown = dims[d1].defined \/ \E j \in Along(d1) : RecordsIn(calls', j, Len(calls')) = grown
    <3>1. CASE grown = after
      BY <2>1, <2>3, <3>1
    <3>2. CASE grown = size /\ size = dims[d1].defined
      BY <3>2
    <3>3. CASE grown = size /\ after <= size /\ \E j \in Along(d1) : Records(j, Len(calls)) = size
      <4>1. PICK j \in Along(d1) : Records(j, Len(calls)) = size
        BY <3>3
      <4>2. CASE j # i
        BY <2>3, <3>3, <4>1, <4>2
      <4>3. CASE j = i
        <5>1. last = size
          BY <1>0, <4>1, <4>3
        <5>2. after = size
          BY <2>5, <3>3, <5>1
        <5> QED
          BY <2>1, <2>3, <3>3, <5>2
      <4> QED
        BY <4>2, <4>3
    <3> QED
      BY <2>2, <2>5, <3>1, <3>2, <3>3
  <2>8. dims[d1].defined <= grown
    BY <2>2, <2>5
  <2>9. dims'[d1].unlimited = dims[d1].unlimited /\ dims'[d1].defined = dims[d1].defined
    BY <1>1, <1>6
  <2> QED
    BY <1>6, <2>1, <2>6, <2>7, <2>8, <2>9 DEF SizeIsMeant, Records
<1> QED
  BY <1>1, <1>12, <1>13, <1>14, <1>15, <1>17, <1>18 DEF AsDocumented

\* A put changes no definition and forgets no call.
LEMMA PutIsKept ==
    ASSUME NcTypeOK, NEW i \in DOMAIN ncvars, NEW kind \in {"f64", "i32", "str"}, NEW c \in CallRecord,
           PutStep(i, kind, c)
    PROVE  CallsAreKept /\ DefsAreKept
<1>1. CallsAreKept
  <2>1. calls \in Seq(CallRecord) /\ calls' = Append(calls, c)
    BY DEF NcTypeOK, PutStep
  <2>2. /\ DOMAIN calls = 1..Len(calls) /\ DOMAIN calls' = 1..(Len(calls) + 1) /\ Len(calls) \in Nat
        /\ \A n \in 1..Len(calls) : calls'[n] = calls[n]
    BY <2>1, Appending
  <2> QED
    BY <2>2 DEF CallsAreKept
<1>2. ncvars[i] \in VarRecord
  BY DefTypes
<1>3. ncvars'[i].dim_ids = ncvars[i].dim_ids /\ ncvars'[i].nc_type = ncvars[i].nc_type
  BY <1>2 DEF PutStep, VarRecord
<1>4. DefsAreKept
  BY <1>3 DEF PutStep, DefsAreKept
<1> QED
  BY <1>1, <1>4

\* Nor does an append.
LEMMA AppendIsKept ==
    ASSUME NcTypeOK, NEW i \in DOMAIN ncvars, NEW field \in {"appended_f64", "appended_i32"},
           NEW c \in CallRecord, AppendStep(i, field, c)
    PROVE  CallsAreKept /\ DefsAreKept
<1>1. CallsAreKept
  <2>1. calls \in Seq(CallRecord) /\ calls' = Append(calls, c)
    BY DEF NcTypeOK, AppendStep
  <2>2. /\ DOMAIN calls = 1..Len(calls) /\ DOMAIN calls' = 1..(Len(calls) + 1) /\ Len(calls) \in Nat
        /\ \A n \in 1..Len(calls) : calls'[n] = calls[n]
    BY <2>1, Appending
  <2> QED
    BY <2>2 DEF CallsAreKept
<1>2. ncvars[i] \in VarRecord
  BY DefTypes
<1>3. ncvars'[i].dim_ids = ncvars[i].dim_ids /\ ncvars'[i].nc_type = ncvars[i].nc_type
  BY <1>2 DEF AppendStep, VarRecord
<1>4. DefsAreKept
  BY <1>3 DEF AppendStep, DefsAreKept
<1> QED
  BY <1>1, <1>4

\* Without a definition or a put, everything documented stays.
LEMMA NothingCalled ==
    ASSUME NcTypeOK, DefsAreSound, Documented => AsDocumented, Documented',
           dims' = dims, ncvars' = ncvars, calls' = calls
    PROVE  AsDocumented'
<1>1. CallsAreKept /\ DefsAreKept
  BY DEF CallsAreKept, DefsAreKept
<1>2. AsDocumented
  BY <1>1, DocumentedBefore
<1>3. ASSUME NEW d \in DOMAIN dims PROVE SizeIsMeant(d)'
  <2>1. Along(d)' = Along(d) /\ \A i \in Along(d) : RecordsIn(calls', i, Len(calls')) = Records(i, Len(calls))
    BY DEF Along, Records
  <2>2. SizeIsMeant(d)
    BY <1>2 DEF AsDocumented
  <2> QED
    BY <2>1, <2>2, SizesStay
<1>4. ASSUME NEW i \in DOMAIN ncvars
      PROVE  /\ RecordsGrow(i)' /\ HoldsRecords(i)'
             /\ KindsFit(i)' => KindIsKept(i)' /\ DataIsMeant(i)'
  <2>1. TrailingStride(ncvars[i])' = TrailingStride(ncvars[i])
    BY DEF TrailingStride, ShapeNow
  <2>2. /\ RecordsGrow(i) => RecordsGrow(i)'
        /\ HoldsRecords(i) => HoldsRecords(i)'
        /\ KindIsKept(i) => KindIsKept(i)'
        /\ DataIsMeant(i) => DataIsMeant(i)'
    <3>1. NotCalled(i) /\ ncvars'[i] = ncvars[i]
      BY DEF NotCalled
    <3> QED
      BY <2>1, <3>1, OthersStay
  <2>3. KindsFit(i)' => KindsFit(i)
    BY <1>1, KindsFittedBefore
  <2> QED
    BY <1>2, <2>2, <2>3 DEF AsDocumented
<1> QED
  BY <1>3, <1>4 DEF AsDocumented

\* Documented calls leave everything as documented.
LEMMA DocumentedStays ==
    ASSUME NcTypeOK, DefsAreSound, Documented => AsDocumented, NcNext, Documented'
    PROVE  AsDocumented'
<1>1. CASE \E def \in DimDef : DefDim(def) \/ DefDimUnlimited(def)
  <2>1. PICK e \in DimRecord : /\ dims' = Append(dims, e) /\ e.size = e.defined
                               /\ \A d \in DOMAIN dims : dims[d].name # e.name
    BY <1>1, DefDimDoes
  <2>2. ncvars' = ncvars /\ calls' = calls
    BY <1>1, DefDimDoes
  <2>3. CallsAreKept /\ DefsAreKept
    <3>1. dims \in Seq(DimRecord)
      BY DEF NcTypeOK
    <3>2. /\ DOMAIN dims = 1..Len(dims) /\ DOMAIN dims' = 1..(Len(dims) + 1) /\ Len(dims) \in Nat
          /\ \A d \in 1..Len(dims) : dims'[d] = dims[d]
      BY <2>1, <3>1, Appending
    <3> QED
      BY <2>2, <3>2 DEF CallsAreKept, DefsAreKept
  <2> QED
    BY <2>1, <2>2, <2>3, DocumentedBefore, DefDimKeeps
<1>2. CASE \E def \in VarDef : DefVar(def)
  <2>1. PICK w \in VarRecord : /\ ncvars' = Append(ncvars, w)
                               /\ \A i \in DOMAIN ncvars : ncvars[i].name # w.name
                               /\ \A k \in DOMAIN w.dim_ids : w.dim_ids[k] \in DOMAIN dims
                               /\ w.data = NoData /\ w.appended_f64 = <<>> /\ w.appended_i32 = <<>>
    BY <1>2, DefVarDoes
  <2>2. dims' = dims /\ calls' = calls
    BY <1>2, DefVarDoes
  <2>3. CallsAreKept /\ DefsAreKept
    <3>1. ncvars \in Seq(VarRecord)
      BY DEF NcTypeOK
    <3>2. /\ DOMAIN ncvars = 1..Len(ncvars) /\ DOMAIN ncvars' = 1..(Len(ncvars) + 1) /\ Len(ncvars) \in Nat
          /\ \A i \in 1..Len(ncvars) : ncvars'[i] = ncvars[i]
      BY <2>1, <3>1, Appending
    <3> QED
      BY <2>2, <3>2 DEF CallsAreKept, DefsAreKept
  <2> QED
    BY <2>1, <2>2, <2>3, DocumentedBefore, DefVarKeeps
<1>3. CASE (\E name \in GroupName : CreateGroup(name)) \/ Close \/ CloseFails
  <2>1. dims' = dims /\ ncvars' = ncvars /\ calls' = calls
    BY <1>3 DEF CreateGroup, Close, CloseFails
  <2> QED
    BY <2>1, NothingCalled
<1>4. CASE \E i \in DOMAIN ncvars, kind \in {"f64", "i32", "str"} : PutVar(i, kind)
  <2>1. PICK i \in DOMAIN ncvars, kind \in {"f64", "i32", "str"} : PutVar(i, kind)
    BY <1>4
  <2>2. PICK c \in CallRecord : PutStep(i, kind, c)
    BY <2>1, PutVarDoes
  <2>3. CallsAreKept /\ DefsAreKept
    BY <2>2, PutIsKept
  <2>4. PutsComeFirst(i)'
    BY <2>3 DEF Documented, DefsAreKept
  <2> QED
    BY <2>2, <2>3, <2>4, DocumentedBefore, PutKeeps
<1>5. CASE \E i \in DOMAIN ncvars, n \in Amount : PutVaraF64(i, n) \/ PutVaraI32(i, n)
  <2>1. PICK i \in DOMAIN ncvars, n \in Nat, field \in {"appended_f64", "appended_i32"} :
            PutVara(i, field, IF field = "appended_f64" THEN "f64" ELSE "i32", n)
    BY <1>5, AppendsAre, NetcdfAssumption
  <2>2. PICK c \in CallRecord : AppendStep(i, field, c)
    BY <2>1, PutVaraDoes
  <2>3. CallsAreKept /\ DefsAreKept
    BY <2>2, AppendIsKept
  <2>4. AppendsAreAlongUnlimited'
    BY DEF Documented
  <2> QED
    BY <2>2, <2>3, <2>4, DocumentedBefore, AppendKeeps
<1> QED
  BY <1>1, <1>2, <1>3, <1>4, <1>5 DEF NcNext

-----------------------------------------------------------------------------
(* What is read back *)

\* What the writer keeps and what it has written is what the calls meant: a file is
\* closed only with what was defined, and under the documented calls dimensions,
\* records and data are told from the history (NcFileWriter, build_bytes).
THEOREM NetcdfInvariant == RoundTripSpec => []NetcdfInv
<1>1. RoundTripInit => NetcdfInv
  <2> SUFFICES ASSUME RoundTripInit
               PROVE  NetcdfInv
    OBVIOUS
  <2>1. dims = <<>> /\ ncvars = <<>> /\ calls = <<>> /\ stage = "define"
    BY DEF RoundTripInit, NcInit
  <2>2. NcTypeOK
    BY <2>1 DEF NcTypeOK
  <2>3. DefsAreSound /\ AsDocumented
    BY <2>1 DEF DefsAreSound, AsDocumented
  <2>4. FileIsBuilt
    BY <2>1 DEF FileIsBuilt, IsWritten
  <2> QED
    BY <2>2, <2>3, <2>4 DEF NetcdfInv
<1>2. NetcdfInv /\ [RoundTripNext]_<<writer, ofReader>> => NetcdfInv'
  <2> SUFFICES ASSUME NetcdfInv, [RoundTripNext]_<<writer, ofReader>>
               PROVE  NetcdfInv'
    OBVIOUS
  <2> USE DEF NetcdfInv
  <2>1. CASE NcNext /\ UNCHANGED ofReader
    <3>1. NcTypeOK' /\ DefsAreSound'
      BY <2>1, SoundnessStays
    <3>2. FileIsBuilt'
      BY <2>1, FileStays DEF RoundTripNext
    <3>3. Documented' => AsDocumented'
      BY <2>1, DocumentedStays
    <3> QED
      BY <3>1, <3>2, <3>3
  <2>2. CASE stage = "closed" /\ Reader!ReaderNext /\ UNCHANGED <<dims, ncvars, groups, calls, stage>>
    <3>1. dims' = dims /\ ncvars' = ncvars /\ calls' = calls /\ stage' = stage
      BY <2>2
    <3>2. NcTypeOK' /\ DefsAreSound'
      BY <3>1 DEF NcTypeOK, DefsAreSound
    <3>3. FileIsBuilt'
      BY <2>2, FileStays DEF RoundTripNext
    <3>4. Documented' => AsDocumented'
      BY <3>1, NothingCalled
    <3> QED
      BY <3>2, <3>3, <3>4
  <2>3. CASE UNCHANGED <<writer, ofReader>>
    <3>1. /\ dims' = dims /\ ncvars' = ncvars /\ groups' = groups /\ calls' = calls /\ stage' = stage
          /\ file' = file /\ pass' = pass
      BY <2>3 DEF writer, ofReader
    <3>2. NcTypeOK' /\ DefsAreSound'
      BY <3>1 DEF NcTypeOK, DefsAreSound
    <3>3. FileIsBuilt'
      BY <3>1, WrittenOfThem DEF FileIsBuilt, IsWritten
    <3>4. Documented' => AsDocumented'
      BY <3>1, NothingCalled
    <3> QED
      BY <3>2, <3>3, <3>4
  <2> QED
    BY <2>1, <2>2, <2>3 DEF RoundTripNext
<1> QED
  BY <1>1, <1>2, PTL DEF RoundTripSpec

\* The lists of a scale and the references to it never disagree (build_bytes).
THEOREM ReferencesAlwaysMirror == RoundTripSpec => []ReferencesMirror
<1>1. NetcdfInv => ReferencesMirror
  BY MirrorFollows DEF NetcdfInv
<1> QED
  BY <1>1, NetcdfInvariant, PTL

\* However definitions, puts and appends follow each other, close fails only for what
\* no file can hold (build_bytes, close).
THEOREM CloseFailsOnlyIfUnwritable == RoundTripSpec => []CloseFailsIffUnwritable
<1>1. NetcdfInv => CloseFailsIffUnwritable
  BY CloseFailsFollows
<1> QED
  BY <1>1, NetcdfInvariant, PTL

\* Every element of the file written is what was last put or appended there, and fill
\* where nothing was (put_var_*, put_vara_*, grow_unlimited_dim, build_bytes).
THEOREM DataAlwaysReadsBack == RoundTripSpec => []DataReadsBack
<1>1. NetcdfInv => DataReadsBack
  BY DataFollows
<1> QED
  BY <1>1, NetcdfInvariant, PTL
=============================================================================
