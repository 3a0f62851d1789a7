----------------------------- MODULE NetcdfWriter -----------------------------
(***************************************************************************)
(* NcFileWriter (oxinetcdf/src/write.rs): dimensions, variables and their  *)
(* data are collected in memory, in any order; close lowers all of it to   *)
(* the datasets of an HDF5 file, with the attributes that say which        *)
(* dataset is the scale of which dimension and on which axis.              *)
(*                                                                         *)
(* A call that is refused changes nothing and is not a step.  Attributes   *)
(* of the user and the classic-model flag are only passed on, and left     *)
(* out.  Names are plain, no paths, and fit an attribute.                  *)
(* The values of the k-th successful put are <<k, 1>>, <<k, 2>>, ...       *)
(***************************************************************************)
EXTENDS ChunkGeometry, Integers

CONSTANTS
    Fill,              \* the fill value of every type
    VarDef,            \* what def_var may be called with: [name, dim_ids, nc_type]
    DimDef,            \* what def_dim and def_dim_unlimited may be called with
    GroupName,         \* what create_group may be called with
    Amount,            \* numbers of values a put_vara call may pass
    MAX_VAR_ELEMENTS,  \* 2^32 in the code
    MAX_CHUNK_BYTES,   \* 2^32 - 1, of a chunk's size and of each of its extents
    MAX_AXES,          \* 255, the most dimensions a dataspace has
    MAX_REFERENCES,    \* most entries of 12 bytes an attribute message of 64 KiB holds
    MAX_ROOT_LINKS,    \* 2^24: MAX_GROUP_LINKS, as the root's symbol table applies it
    MaxDims, MaxVars, MaxGroups, MaxCalls   \* bounds on the model

\* usize and bool; whether an id names a dimension is for def_var to say.
ASSUME NetcdfAssumption ==
    /\ \A d \in DimDef : d.size \in Nat /\ d.unlimited \in BOOLEAN
    /\ \A v \in VarDef : v.dim_ids \in Seq(Nat)
    /\ Amount \subseteq Nat
    /\ {MAX_VAR_ELEMENTS, MAX_CHUNK_BYTES, MAX_AXES, MAX_REFERENCES, MAX_ROOT_LINKS}
           \subseteq Nat
    /\ MAX_CHUNK_BYTES >= 8
    /\ \A v \in VarDef : v.nc_type = "String" => Len(v.dim_ids) <= MAX_AXES

VARIABLES
    dims,    \* [name, size, unlimited, defined]; an NcDimId is a position; `defined` is
             \* history: the size at first
    ncvars,  \* [name, dim_ids, nc_type, data, appended_f64, appended_i32]
    groups,  \* pending_groups
    calls,   \* history: the puts that succeeded, [var, op, kind, records, data]
    stage,   \* "define", "closed" or "failed"
    file     \* the file written: a dataset's address is its name

writer == <<dims, ncvars, groups, calls, stage, file>>

\* The kinds of data build_bytes takes into a variable of each type.
Takes(nc_type) ==
    CASE nc_type \in {"Float64", "Float32"} -> {"f64"}
      [] nc_type \in {"Int32", "UInt8"} -> {"i32"}
      [] nc_type = "Int64" -> {"i32", "f64"}
      [] nc_type = "String" -> {"str"}
      [] OTHER -> {}

\* A value in the variable's type: `as` may change it, once and for all.
Converted(nc_type, kind, value) ==
    IF <<nc_type, kind>> \in {<<"Float64", "f64">>, <<"Int32", "i32">>, <<"String", "str">>}
    THEN value ELSE <<nc_type, value>>

Larger(a, b) == IF a <= b THEN b ELSE a

NoData == [kind |-> "none", values |-> <<>>]

NcInit ==
    /\ dims = <<>> /\ ncvars = <<>> /\ groups = <<>> /\ calls = <<>>
    /\ stage = "define"
    /\ file = <<>>

-----------------------------------------------------------------------------
(* Definitions *)

NamesOf(defs) == {defs[i].name : i \in DOMAIN defs}

Defined(d) == [name |-> d.name, size |-> d.size, unlimited |-> d.unlimited, defined |-> d.size]

DefDim(d) == /\ ~d.unlimited
             /\ d.name \notin NamesOf(dims)
             /\ Len(dims) < MaxDims
             /\ dims' = Append(dims, Defined(d))
             /\ UNCHANGED <<ncvars, groups, calls, stage, file>>

DefDimUnlimited(d) == /\ d.unlimited
                      /\ d.name \notin NamesOf(dims)
                      /\ Len(dims) < MaxDims
                      /\ dims' = Append(dims, Defined(d))
                      /\ UNCHANGED <<ncvars, groups, calls, stage, file>>

\* Mutant: the name is not looked for among the variables.
DefVarTwice(v) ==
    /\ \A k \in DOMAIN v.dim_ids : v.dim_ids[k] \in DOMAIN dims
    /\ Len(ncvars) < MaxVars
    /\ ncvars' = Append(ncvars, [name |-> v.name, dim_ids |-> v.dim_ids, nc_type |-> v.nc_type,
                             data |-> NoData, appended_f64 |-> <<>>, appended_i32 |-> <<>>])
    /\ UNCHANGED <<dims, groups, calls, stage, file>>

\* def_var, and def_var_strings for a variable of type String.
DefVar(v) ==
    /\ v.name \notin NamesOf(ncvars)
    /\ \A k \in DOMAIN v.dim_ids : v.dim_ids[k] \in DOMAIN dims
    /\ Len(ncvars) < MaxVars
    /\ ncvars' = Append(ncvars, [name |-> v.name, dim_ids |-> v.dim_ids, nc_type |-> v.nc_type,
                             data |-> NoData, appended_f64 |-> <<>>, appended_i32 |-> <<>>])
    /\ UNCHANGED <<dims, groups, calls, stage, file>>

\* The name is not looked for among the dimensions, variables and other groups.
CreateGroup(name) ==
    /\ Len(groups) < MaxGroups
    /\ groups' = Append(groups, name)
    /\ UNCHANGED <<dims, ncvars, calls, stage, file>>

-----------------------------------------------------------------------------
(* Data *)

ShapeNow(v) == [k \in DOMAIN v.dim_ids |-> dims[v.dim_ids[k]].size]

\* var_trailing_stride
TrailingStride(v) == IF v.dim_ids = <<>> THEN 0 ELSE Volume(Tail(ShapeNow(v)))

Values(n) == [i \in 1..n |-> <<Len(calls) + 1, i>>]

Called(i, op, kind, records, values) ==
    calls' = Append(calls, [var |-> i, op |-> op, kind |-> kind,
                            records |-> records, data |-> values])

\* put_var_f64, put_var_i32, put_var_strings: as many values as the variable has
\* elements just now.
PutVar(i, kind) ==
    LET values == Values(Volume(ShapeNow(ncvars[i])))
    IN  /\ Len(calls) < MaxCalls
        /\ ncvars' = [ncvars EXCEPT ![i].data = [kind |-> kind, values |-> values]]
        /\ Called(i, "put", kind,
                  IF ncvars[i].dim_ids = <<>> THEN 0 ELSE ShapeNow(ncvars[i])[1], values)
        /\ UNCHANGED <<dims, groups, stage, file>>

\* var_current_records
CurrentRecords(v, stride) ==
    IF stride = 0 THEN 0
    ELSE (Len(v.data.values) + Len(v.appended_f64) + Len(v.appended_i32)) \div stride

\* Mutant: the variables that share a dimension add up.
GrowBySum(v, stride, new_records) ==
    IF v.dim_ids = <<>> THEN dims
    ELSE [dims EXCEPT ![v.dim_ids[1]].size = @ + new_records]

\* Mutant: what was put before does not count.
GrowByAppended(v, stride, new_records) ==
    IF v.dim_ids = <<>> THEN dims
    ELSE [dims EXCEPT ![v.dim_ids[1]].size =
             IF dims[v.dim_ids[1]].unlimited
             THEN Larger(@, CurrentRecords([v EXCEPT !.data = NoData], stride))
             ELSE @ + new_records]

\* grow_unlimited_dim, with v as it is after the append.
Grow(v, stride, new_records) ==
    IF v.dim_ids = <<>> THEN dims
    ELSE [dims EXCEPT ![v.dim_ids[1]].size =
             IF dims[v.dim_ids[1]].unlimited
             THEN Larger(@, CurrentRecords(v, stride))
             ELSE @ + new_records]

PutVara(i, field, kind, n) ==
    LET stride == TrailingStride(ncvars[i])
        new_records == IF stride = 0 THEN 0 ELSE n \div stride
        grown == IF field = "appended_f64"
                 THEN [ncvars EXCEPT ![i].appended_f64 = @ \o Values(n)]
                 ELSE [ncvars EXCEPT ![i].appended_i32 = @ \o Values(n)]
    IN  /\ Len(calls) < MaxCalls
        /\ stride > 0 => n % stride = 0
        /\ ncvars' = grown
        /\ dims' = Grow(grown[i], stride, new_records)
        /\ Called(i, "append", kind, new_records, Values(n))
        /\ UNCHANGED <<groups, stage, file>>

PutVaraF64(i, n) == PutVara(i, "appended_f64", "f64", n)
PutVaraI32(i, n) == PutVara(i, "appended_i32", "i32", n)

-----------------------------------------------------------------------------
(* build_bytes *)

IsCoordinateVariable(v) == v.name \in NamesOf(dims)

\* Mutant: a variable is listed on its first axis only.
ReferenceEntriesOnce(d) ==
    {<<v.name, 1>> : v \in {w \in Range(ncvars) : /\ ~IsCoordinateVariable(w)
                                                 /\ d \in Range(w.dim_ids)}}

\* Every axis that attaches dimension d.
ReferenceEntries(d) ==
    UNION {{<<v.name, k>> : k \in {k \in DOMAIN v.dim_ids : v.dim_ids[k] = d}} :
              v \in {w \in Range(ncvars) : ~IsCoordinateVariable(w)}}

\* Attributes of a dataset that has none of those the conventions ask for.
Plain == [class |-> FALSE, name |-> [kind |-> "none", len |-> 0, text |-> ""], dimid |-> -1,
          reference_list |-> {}, dimension_list |-> <<>>, coordinates |-> <<>>]

\* A dimension without a variable of its name.
IsPure(d) == dims[d].name \notin NamesOf(ncvars)

\* Its zeros are nobody's data.
PlaceholderOf(d) ==
    [readable |-> TRUE, shape |-> <<dims[d].size>>, unlimited |-> dims[d].unlimited,
     data |-> [i \in 1..dims[d].size |-> 0],
     attrs |-> [Plain EXCEPT !.class = TRUE,
                             !.name = [@ EXCEPT !.kind = "sentinel", !.len = dims[d].size],
                             !.dimid = d - 1,
                             !.reference_list = ReferenceEntries(d)]]

\* What was put and what was appended, of the kinds the type takes.
DataOf(v) ==
    (IF v.data.kind \in Takes(v.nc_type)
     THEN [i \in DOMAIN v.data.values |-> Converted(v.nc_type, v.data.kind, v.data.values[i])]
     ELSE <<>>)
    \o (CASE v.nc_type = "Float64" -> v.appended_f64
          [] v.nc_type = "Int32" -> v.appended_i32
          [] OTHER -> <<>>)

Resized(data, n) == [i \in 1..n |-> IF i <= Len(data) THEN data[i] ELSE Fill]

\* Mutant: the ids run over the dimensions that have a placeholder.
CoordinateIdsOfPure(v) ==
    [k \in DOMAIN v.dim_ids |->
        Cardinality({d \in 1..v.dim_ids[k] : IsPure(d)}) - 1]

\* _Netcdf4Coordinates
CoordinateIds(v) == [k \in DOMAIN v.dim_ids |-> v.dim_ids[k] - 1]

\* A coordinate variable is the scale of its dimension; any other names the scales
\* of its axes.
AttributesOf(v) ==
    IF IsCoordinateVariable(v)
    THEN LET own == CHOOSE d \in DOMAIN dims : dims[d].name = v.name
         IN  [Plain EXCEPT !.class = TRUE,
                           !.name = [@ EXCEPT !.kind = "real", !.text = v.name],
                           !.dimid = own - 1,
                           !.reference_list = ReferenceEntries(own),
                           !.coordinates = CoordinateIds(v)]
    ELSE [Plain EXCEPT !.dimension_list = [k \in DOMAIN v.dim_ids |-> dims[v.dim_ids[k]].name],
                       !.coordinates = CoordinateIds(v)]

\* Only Float64 and Int32 are ever written chunked, by create_dataset_unlimited.
CanGrow(v) == /\ v.nc_type \in {"Float64", "Int32"}
              /\ v.dim_ids # <<>> /\ dims[v.dim_ids[1]].unlimited

\* Strings are written as a list.
DatasetOf(v) ==
    LET n == Volume(ShapeNow(v))
    IN  [readable |-> TRUE,
         shape |-> IF v.nc_type = "String" THEN <<n>> ELSE ShapeNow(v),
         unlimited |-> CanGrow(v),
         data |-> Resized(DataOf(v), n),
         attrs |-> AttributesOf(v)]

\* The names created at the root: each has to be new.
NamesWritten ==
    [object \in ({"group"} \X DOMAIN groups)
                \cup ({"scale"} \X {d \in DOMAIN dims : IsPure(d)})
                \cup ({"variable"} \X DOMAIN ncvars) |->
        CASE object[1] = "group" -> groups[object[2]]
          [] object[1] = "scale" -> dims[object[2]].name
          [] object[1] = "variable" -> ncvars[object[2]].name]

\* Mutant: a chunk's elements are counted, and not its bytes.
ChunkFitsElements(shape, bytes) ==
    /\ Len(shape) < MAX_AXES
    /\ \A k \in DOMAIN shape : shape[k] <= MAX_CHUNK_BYTES
    /\ Volume(shape) <= MAX_CHUNK_BYTES

\* A dataset that can grow is written as one chunk that is all of it, and the layout counts
\* the element's size as one more dimension (FileWriter's plan_dataset and build_bytes).
ChunkFits(shape, bytes) ==
    /\ Len(shape) < MAX_AXES
    /\ \A k \in DOMAIN shape : shape[k] <= MAX_CHUNK_BYTES
    /\ Volume(shape) * bytes <= MAX_CHUNK_BYTES

BytesIn(nc_type) == IF nc_type = "Float64" THEN 8 ELSE 4

ScaleFits(d) ==
    IsPure(d) => /\ dims[d].size <= MAX_VAR_ELEMENTS
                 /\ dims[d].unlimited => ChunkFits(<<dims[d].size>>, BytesIn("Float32"))

VariableFits(v) ==
    /\ Takes(v.nc_type) # {}
    /\ Volume(ShapeNow(v)) <= MAX_VAR_ELEMENTS
    /\ Len(v.dim_ids) <= MAX_AXES
    /\ CanGrow(v) => ChunkFits(ShapeNow(v), BytesIn(v.nc_type))
    /\ Len(DatasetOf(v).data) = Volume(DatasetOf(v).shape)

\* build_bytes, and the build of the FileWriter it ends with.
CloseAccepts ==
    /\ IsInjective(NamesWritten) /\ Cardinality(DOMAIN NamesWritten) <= MAX_ROOT_LINKS
    /\ \A d \in DOMAIN dims : /\ ScaleFits(d)
                             /\ Cardinality(ReferenceEntries(d)) <= MAX_REFERENCES
    /\ \A v \in Range(ncvars) : VariableFits(v)

DatasetNames == NamesOf(dims) \cup NamesOf(ncvars)

\* What a group lists; what the conventions make of it does not depend on the order.
Members(names) == [i \in DOMAIN names |-> [name |-> names[i], addr |-> names[i]]]

\* A dimension is written as the variable of its name, or as a scale of its own.
Objects == [n \in DatasetNames |->
               IF n \in NamesOf(ncvars)
               THEN DatasetOf(CHOOSE v \in Range(ncvars) : v.name = n)
               ELSE PlaceholderOf(CHOOSE d \in DOMAIN dims : dims[d].name = n)]

Close == /\ CloseAccepts
         /\ stage' = "closed"
         /\ file' = [root |-> "/",
                     groups |-> [g \in {"/"} \cup Range(groups) |->
                         [datasets |-> IF g = "/" THEN Members(SetToSeq(DatasetNames)) ELSE <<>>,
                          groups |-> IF g = "/" THEN Members(groups) ELSE <<>>]],
                     objects |-> Objects]
         /\ UNCHANGED <<dims, ncvars, groups, calls>>

CloseFails == /\ ~CloseAccepts
              /\ stage' = "failed"
              /\ UNCHANGED <<dims, ncvars, groups, calls, file>>

NcNext ==
    /\ stage = "define"
    /\ \/ \E d \in DimDef : DefDim(d) \/ DefDimUnlimited(d)
       \/ \E v \in VarDef : DefVar(v)
       \/ \E name \in GroupName : CreateGroup(name)
       \/ \E i \in DOMAIN ncvars, kind \in {"f64", "i32", "str"} : PutVar(i, kind)
       \/ \E i \in DOMAIN ncvars, n \in Amount : PutVaraF64(i, n) \/ PutVaraI32(i, n)
       \/ Close
       \/ CloseFails

NcSpec == NcInit /\ [][NcNext]_writer
=============================================================================
