---------------------------- MODULE NetcdfRoundTrip ----------------------------
(***************************************************************************)
(* What NcFileWriter was told against what is read back from the file it   *)
(* writes.  The meaning of the calls is told from their history alone: a   *)
(* put sets a variable's elements at its extents of that moment, an append *)
(* adds records after the variable's own last one, a dimension is as long  *)
(* as it was defined or as the longest variable along it, and what was     *)
(* never written is fill.                                                  *)
(***************************************************************************)
EXTENDS NetcdfWriter

CONSTANT MAX_GROUP_DEPTH

VARIABLES pass, paths, visited, global_dims, tree

Reader == INSTANCE NetcdfReader
ofReader == <<pass, paths, visited, global_dims, tree>>

\* The file is written, then read.
RoundTripInit == NcInit /\ Reader!Idle
RoundTripNext == \/ NcNext /\ UNCHANGED ofReader
                 \/ stage = "closed" /\ Reader!ReaderNext /\ UNCHANGED <<dims, ncvars, groups, calls, stage>>
RoundTripSpec == RoundTripInit /\ [][RoundTripNext]_<<writer, ofReader>>

-----------------------------------------------------------------------------
(* What the calls mean *)

CallsOn(i) == {n \in DOMAIN calls : calls[n].var = i}

\* Records of variable i after the first n calls of a history: a put sets them, an
\* append adds to them.
RecordsIn(history, i, n) ==
    LET upTo[m \in 0..Len(history)] ==
            IF m = 0 THEN 0
            ELSE IF history[m].var # i THEN upTo[m - 1]
            ELSE IF history[m].op = "put" THEN history[m].records
            ELSE upTo[m - 1] + history[m].records
    IN  upTo[n]

Records(i, n) == RecordsIn(calls, i, n)

\* The variables along dimension d.
Along(d) == {i \in DOMAIN ncvars : ncvars[i].dim_ids # <<>> /\ ncvars[i].dim_ids[1] = d}

LengthMeant(d) == Max({dims[d].defined} \cup {Records(i, Len(calls)) : i \in Along(d)})
ShapeMeant(i) == [k \in DOMAIN ncvars[i].dim_ids |-> LengthMeant(ncvars[i].dim_ids[k])]

\* The first record the n-th call, one on variable i, writes.
FirstRecord(i, n) == IF calls[n].op = "put" THEN 0 ELSE Records(i, n - 1)

Writes(i, n, at) == at = <<>> \/ at[1] \in FirstRecord(i, n)..(Records(i, n) - 1)

\* The element of variable i at these coordinates is what the last call that wrote
\* it put there.
Meant(i, at) ==
    LET writers == {n \in CallsOn(i) : Writes(i, n, at)}
        n == Max(writers)
        call == calls[n]
        inCall == IF at = <<>> THEN at ELSE [at EXCEPT ![1] = @ - FirstRecord(i, n)]
    IN  IF writers = {} THEN Fill
        ELSE Converted(ncvars[i].nc_type, call.kind, call.data[Flatten(inCall, ShapeMeant(i)) + 1])

-----------------------------------------------------------------------------
(* The documented ways to call *)

\* "Append along the unlimited (first) axis": appends go nowhere else, and a
\* dimension that can grow is no other axis of any variable.
AppendsAreAlongUnlimited ==
    /\ \A c \in Range(calls) : c.op = "append" =>
           ncvars[c.var].dim_ids # <<>> /\ dims[ncvars[c.var].dim_ids[1]].unlimited
    /\ \A v \in Range(ncvars) : \A k \in DOMAIN v.dim_ids : dims[v.dim_ids[k]].unlimited => k = 1

\* Data of the variable's type, or of one it is converted from.
KindsFit(i) ==
    \A n \in CallsOn(i) :
        IF calls[n].op = "put" THEN calls[n].kind \in Takes(ncvars[i].nc_type)
        ELSE <<ncvars[i].nc_type, calls[n].kind>> \in {<<"Float64", "f64">>, <<"Int32", "i32">>}

\* A variable is put as a whole before it is appended to, never after.
PutsComeFirst(i) ==
    \A m, n \in CallsOn(i) : m < n /\ calls[m].op = "append" => calls[n].op = "append"

Documented == AppendsAreAlongUnlimited /\ \A i \in DOMAIN ncvars : PutsComeFirst(i)

\* A variable with a dimension's name runs along it, and can grow if it can.
ScalesFit ==
    \A v \in Range(ncvars) : \A d \in DOMAIN dims : v.name = dims[d].name =>
        /\ v.dim_ids # <<>> /\ v.dim_ids[1] = d
        /\ v.nc_type = "String" => Len(v.dim_ids) = 1
        /\ dims[d].unlimited => v.nc_type \in {"Float64", "Int32"}

\* Strings are written as a list.
StringsAreLists == \A v \in Range(ncvars) : v.nc_type = "String" => Len(v.dim_ids) = 1

-----------------------------------------------------------------------------
(* Properties *)

\* The file is there; reading does not change it.
IsWritten == stage = "closed" /\ pass = "idle"

NamesClash == \/ ~IsInjective(groups)
              \/ Range(groups) \cap (NamesOf(dims) \cup NamesOf(ncvars)) # {}

\* What grows along a dimension is one chunk, whose extents and bytes the file has four
\* bytes each for.
OutgrowsChunk(shape, bytes) ==
    \/ Len(shape) >= MAX_AXES
    \/ \E k \in DOMAIN shape : shape[k] > MAX_CHUNK_BYTES
    \/ Volume(shape) * bytes > MAX_CHUNK_BYTES

TooLarge ==
    \/ \E d \in DOMAIN dims : /\ IsPure(d)
                             /\ \/ LengthMeant(d) > MAX_VAR_ELEMENTS
                                \/ dims[d].unlimited /\ OutgrowsChunk(<<LengthMeant(d)>>, 4)
    \/ \E i \in DOMAIN ncvars :
           \/ Volume(ShapeMeant(i)) > MAX_VAR_ELEMENTS
           \/ Len(ncvars[i].dim_ids) > MAX_AXES
           \/ CanGrow(ncvars[i]) /\ OutgrowsChunk(ShapeMeant(i), BytesIn(ncvars[i].nc_type))

\* More axes along one dimension than its scale can list, or more names than a group holds.
TooMany == \/ \E d \in DOMAIN dims : ~(Cardinality(ReferenceEntries(d)) <= MAX_REFERENCES)
           \/ ~(Cardinality(DOMAIN NamesWritten) <= MAX_ROOT_LINKS)

\* No accumulation of definitions, puts and appends keeps the file from being
\* written: close only fails for a group's name, a type it cannot write, or a size or a
\* number past its limit, and then always (build_bytes, plan_dataset; two variables that
\* share an unlimited dimension once made it fail, B011).
CloseFailsIffUnwritable ==
    (IsWritten \/ stage = "failed") /\ Documented =>
        (stage = "failed" <=> NamesClash \/ TooLarge \/ TooMany
                              \/ \E v \in Range(ncvars) : Takes(v.nc_type) = {})

\* Every element reads back as what was last put or appended there, and as fill if
\* nothing was, however variables that share a dimension outgrew each other
\* (put_var_*, put_vara_*, grow_unlimited_dim, build_bytes).
DataReadsBack ==
    IsWritten /\ Documented =>
        \A i \in DOMAIN ncvars : KindsFit(i) =>
            LET data == file.objects[ncvars[i].name].data
            IN  /\ Len(data) = Volume(ShapeMeant(i))
                /\ \A n \in DOMAIN data : data[n] = Meant(i, Unflatten(n - 1, ShapeMeant(i)))

\* The same with puts at any time: "a shorter variable reads back fill values for
\* its missing records" (write.rs:448-449), whatever it held before it was put.
PutReplacesAll ==
    IsWritten /\ AppendsAreAlongUnlimited =>
        \A i \in DOMAIN ncvars : KindsFit(i) =>
            LET dataset == file.objects[ncvars[i].name]
            IN  \A n \in DOMAIN dataset.data :
                    LET at == Unflatten(n - 1, ShapeNow(ncvars[i]))
                    IN  (\A c \in CallsOn(i) : ~Writes(i, c, at)) => dataset.data[n] = Fill

\* What NcFileWriter defined reads back: every dimension under its name and id, as long
\* as the longest variable along it, and every variable on the dimensions it was defined
\* on, whichever of its attributes the reader goes by (collect_local_dims,
\* resolve_variable_axes, reconcile_unlimited_dims).
DefinitionsReadBack ==
    pass \in {"done", "failed"} /\ StringsAreLists =>
        /\ pass = "done"
        /\ DOMAIN tree = {<<>>} \cup {<<g>> : g \in Range(groups)}
        /\ Documented /\ ScalesFit =>
               tree[<<>>].dimensions = [id \in 0..(Len(dims) - 1) |->
                   Reader!Dimension(dims[id + 1].name, LengthMeant(id + 1), dims[id + 1].unlimited)]
        /\ \A v \in Range(ncvars) :
             /\ \E read \in Range(tree[<<>>].variables) :
                   /\ read.name = v.name
                   /\ Len(read.dims) = Len(v.dim_ids)
                   /\ \A k \in DOMAIN v.dim_ids : /\ read.dims[k].dim_id = v.dim_ids[k] - 1
                                                  /\ read.dims[k].name = dims[v.dim_ids[k]].name
             /\ LET refs == file.objects[v.name].attrs.dimension_list
                IN  refs # <<>> => refs = [k \in DOMAIN v.dim_ids |-> dims[v.dim_ids[k]].name]

\* A scale lists an axis of a dataset exactly if the dataset names the scale on
\* that axis: the two directions never disagree (REFERENCE_LIST, DIMENSION_LIST).
ReferencesMirror ==
    IsWritten =>
        \A scale, n \in DatasetNames :
            LET of == file.objects[n].attrs
            IN  \A k \in DOMAIN of.coordinates :
                    <<n, k>> \in file.objects[scale].attrs.reference_list
                        <=> k \in DOMAIN of.dimension_list /\ of.dimension_list[k] = scale
=============================================================================
