------------------------------ MODULE NetcdfFiles ------------------------------
(***************************************************************************)
(* Files with groups in groups that other libraries wrote, and what they   *)
(* mean: dimensions of the root group and of a group g in it, one of them  *)
(* with a coordinate variable, and variables of both and of a group h in g *)
(* along any of the dimensions they see.  g may hold a link back to the    *)
(* root.                                                                   *)
(*                                                                         *)
(* How attributes tell the dimensions of a variable, by style:             *)
(*   ids       libnetcdf: every scale has an id, every variable the ids    *)
(*             of its dimensions and references to their scales            *)
(*   refs      libnetcdf before it wrote the ids of variables' dimensions  *)
(*   scales    HDF5's dimension scales alone: references, but no ids       *)
(*   partly    the same, the last axis of a variable without a scale       *)
(*   unmarked  references to datasets that are not marked as scales        *)
(*   gone      references to nothing                                       *)
(*   none      no such attributes                                          *)
(***************************************************************************)
EXTENDS NetcdfReader

VARIABLE defined   \* what made the file: [style, dims, coord, v, w, up]

Def(name, group, len, unlimited) == [name |-> name, group |-> group, len |-> len, unlimited |-> unlimited]

Dims == {Def("x", "/", 2, FALSE), Def("y", "/", 3, FALSE), Def("t", "/", 0, TRUE), Def("x", "g", 4, FALSE)}

\* Orders of three of them; the position is the id, from nought.
Orders == {order \in [1..3 -> Dims] : IsInjective(order)}
Sorted == {order \in Orders : order[1].name = "x" /\ order[2].name = "y"}

Plain(styles, orders, coords, ups) ==
    {[style |-> style, dims |-> dims, coord |-> coord, v |-> v, w |-> w, up |-> up] :
        style \in styles, dims \in orders, coord \in coords, up \in ups,
        v \in {<<k>> : k \in 1..3} \cup {<<k, l>> : k, l \in 1..3}, w \in {<<k>> : k \in 1..3}}

Definitions ==
    {d \in Plain({"ids", "refs"}, Orders, {FALSE}, {FALSE})
           \cup Plain({"ids", "refs"}, Sorted, BOOLEAN, BOOLEAN)
           \cup Plain({"scales", "partly", "unmarked", "gone", "none"}, Sorted, BOOLEAN, {FALSE}) :
        Len(d.v) = 2 => d.v[1] # d.v[2] \/ d.v = d.w \o d.w}

-----------------------------------------------------------------------------
(* The file *)

Group == {"/", "g", "h"}
Address(group, name) == group \o ":" \o name

DimsOf(group) == SelectSeq([i \in DOMAIN defined.dims |-> i], LAMBDA i : defined.dims[i].group = group)

\* Variables, by group: name, dimensions, and the records along one that can grow.
Var(name, dims, records) == [name |-> name, dims |-> dims, records |-> records]
Vars(group) ==
    CASE group = "/" -> <<Var("r", DimsOf("/"), 1)>>
      [] group = "g" -> <<Var("v", defined.v, 2), Var("w", defined.w, 1)>>
      [] OTHER -> <<Var("u", Reverse([i \in DOMAIN defined.dims |-> i]), 3)>>

Styled(styles) == defined.style \in styles
IsCoordinate(i) == defined.coord /\ i = 1

Bare == [class |-> FALSE, name |-> [kind |-> "none", len |-> 0, text |-> ""], dimid |-> NoId,
         reference_list |-> {}, dimension_list |-> <<>>, coordinates |-> <<>>]

\* Of a placeholder that cannot grow, libnetcdf writes no data.
ScaleOf(i) ==
    LET dim == defined.dims[i]
    IN  [readable |-> IsCoordinate(i) \/ dim.unlimited \/ ~Styled({"ids", "refs"}),
         shape |-> <<IF dim.unlimited /\ IsCoordinate(i) THEN 1 ELSE dim.len>>,
         unlimited |-> dim.unlimited,
         attrs |-> [Bare EXCEPT
             !.class = ~Styled({"unmarked", "none"}),
             !.dimid = IF Styled({"ids", "refs"}) THEN i - 1 ELSE NoId,
             !.name = IF IsCoordinate(i) \/ Styled({"unmarked"}) THEN [@ EXCEPT !.kind = "real", !.text = dim.name]
                      ELSE IF Styled({"ids", "refs"}) THEN [@ EXCEPT !.kind = "sentinel", !.len = dim.len]
                      ELSE @,
             !.coordinates = IF IsCoordinate(i) /\ Styled({"ids"}) THEN <<i - 1>> ELSE <<>>]]

ReferenceTo(i, last) ==
    IF Styled({"gone"}) THEN Address("nowhere", Address(defined.dims[i].group, defined.dims[i].name))
    ELSE IF Styled({"partly"}) /\ last THEN Undefined
    ELSE Address(defined.dims[i].group, defined.dims[i].name)

VariableOf(var) ==
    [readable |-> TRUE,
     shape |-> [k \in DOMAIN var.dims |-> IF defined.dims[var.dims[k]].unlimited THEN var.records
                                          ELSE defined.dims[var.dims[k]].len],
     unlimited |-> \E i \in Range(var.dims) : defined.dims[i].unlimited,
     attrs |-> [Bare EXCEPT
         !.dimension_list = IF Styled({"none"}) THEN <<>>
                            ELSE [k \in DOMAIN var.dims |-> ReferenceTo(var.dims[k], k = Len(var.dims))],
         !.coordinates = IF Styled({"ids"}) THEN [k \in DOMAIN var.dims |-> var.dims[k] - 1] ELSE <<>>]]

\* Everything a group holds.
Content(group, name, dataset) == [name |-> name, addr |-> Address(group, name), dataset |-> dataset]
Contents(group) ==
    LET dims == DimsOf(group)
        vars == Vars(group)
    IN  [n \in DOMAIN dims |-> Content(group, defined.dims[dims[n]].name, ScaleOf(dims[n]))]
        \o [n \in DOMAIN vars |-> Content(group, vars[n].name, VariableOf(vars[n]))]

Listed(contents) == [n \in DOMAIN contents |-> [name |-> contents[n].name, addr |-> contents[n].addr]]
Sub(name) == [name |-> name, addr |-> name]

FileOf ==
    [root |-> "/",
     groups |-> [group \in Group |->
         [datasets |-> Listed(Contents(group)),
          groups |-> CASE group = "/" -> <<Sub("g")>>
                       [] group = "g" /\ defined.up -> <<Sub("h"), [name |-> "up", addr |-> "/"]>>
                       [] group = "g" -> <<Sub("h")>>
                       [] OTHER -> <<>>]],
     objects |-> FoldLeft(LAMBDA objects, c : (c.addr :> c.dataset) @@ objects, <<>>,
                          Contents("/") \o Contents("g") \o Contents("h"))]

Init == /\ defined \in Definitions
        /\ Idle
        /\ file = FileOf

Next == ReaderNext /\ UNCHANGED defined

-----------------------------------------------------------------------------
(* What it means *)

\* The dimensions of a variable's axes: nought for none, below it for one that is gone.
DimsMeant(group, name) ==
    LET scales == {i \in Range(DimsOf(group)) : defined.dims[i].name = name}
        var == CHOOSE var \in Range(Vars(group)) : var.name = name
    IN  IF scales # {} /\ Styled({"unmarked", "none"}) THEN <<0>>
        ELSE IF scales # {} THEN <<CHOOSE i \in scales : TRUE>>
        ELSE [k \in DOMAIN var.dims |->
                 IF Styled({"none"}) \/ (Styled({"partly"}) /\ k = Len(var.dims)) THEN 0
                 ELSE IF Styled({"gone"}) THEN -var.dims[k] ELSE var.dims[k]]

\* Every variable, and the scales that are one too.
VariablesMeant(group) ==
    {var.name : var \in Range(Vars(group))}
    \cup {defined.dims[i].name :
             i \in {i \in Range(DimsOf(group)) : IsCoordinate(i) \/ Styled({"unmarked", "none"})}}

\* Axes of a group: the variable, which of its axes, the dimension meant.
AxesMeant(group, read) ==
    UNION {{[name |-> v.name, at |-> k, extent |-> v.shape[k], axis |-> v.dims[k],
             dim |-> DimsMeant(group, v.name)[k]] : k \in DOMAIN v.shape} : v \in Range(read.variables)}

\* What grows is as long as the longest variable of the group along it, or its scale.
LenMeant(i, axes) ==
    IF defined.dims[i].unlimited
    THEN Max({ScaleOf(i).shape[1]} \cup {a.extent : a \in {a \in axes : a.dim = i}})
    ELSE defined.dims[i].len

AxisReadsBack(a, axes, group, path, read) ==
    /\ a.axis.dim_id \in DOMAIN read.dimensions
    /\ LET dim == [name |-> a.axis.name, len |-> a.axis.len, unlimited |-> a.axis.unlimited]
           meant == defined.dims[a.dim]
       IN  /\ read.dimensions[a.axis.dim_id] = dim
           /\ IF a.dim <= 0
              THEN dim.len = a.extent /\ ~dim.unlimited
              ELSE /\ dim = Dimension(meant.name, LenMeant(a.dim, axes), meant.unlimited)
                   /\ meant.group = group => a.axis.group_path = path
    /\ \A b \in axes : a.axis.dim_id = b.axis.dim_id <=> b = a \/ (a.dim # 0 /\ a.dim = b.dim)

GroupReadsBack(group, path, read) ==
    /\ Len(read.variables) = Cardinality(VariablesMeant(group))
    /\ {v.name : v \in Range(read.variables)} = VariablesMeant(group)
    /\ \A v \in Range(read.variables) : DOMAIN v.dims = DOMAIN DimsMeant(group, v.name)
    /\ \A a \in AxesMeant(group, read) :
           AxisReadsBack(a, AxesMeant(group, read), group, path, read)

\* The group at the end of a path, or "none".
GroupAt(path) ==
    FoldLeft(LAMBDA group, name :
                 IF group = "none" \/ ~\E sub \in Range(file.groups[group].groups) : sub.name = name
                 THEN "none"
                 ELSE (CHOOSE sub \in Range(file.groups[group].groups) : sub.name = name).addr,
             "/", path)
Path == UNION {[1..n -> {"g", "h", "up"}] : n \in 0..MAX_GROUP_DEPTH}

\* A dimension that is gone cannot grow, and v has more records than w.
AtOdds == /\ Styled({"gone"})
          /\ \E i \in Range(defined.v) \cap Range(defined.w) : defined.dims[i].unlimited

\* Where ids tell the dimensions, those made up for the dimensions that a group borrows
\* from others are past the borrowed ones' own: only if the group has one of its own,
\* defined after all of them, or a single variable.
BorrowedComeFirst ==
    \A group \in Group :
        LET used == UNION {Range(var.dims) : var \in Range(Vars(group))}
        IN  \/ Len(Vars(group)) = 1
            \/ \A i \in used \ Range(DimsOf(group)) : \E own \in Range(DimsOf(group)) : i < own

\* The file is read unless two variables differ on the length of a dimension, and then
\* every group down to the depth limit, along whatever links, and each of its variables
\* on the dimensions it was written on, of its group or another: by name, length and
\* whether it grows, two axes under one id exactly if they are one dimension ("an int
\* array carrying one netCDF dimension id per axis", resolver.rs:592-594).
IdsAreNeverMistaken ==
    pass \in {"done", "failed"} =>
        /\ pass = "failed" <=> AtOdds
        /\ DOMAIN tree \subseteq Path
        /\ pass = "done" => \A path \in Path : path \in DOMAIN tree <=> GroupAt(path) # "none"
        /\ \A path \in DOMAIN tree : GroupReadsBack(GroupAt(path), path, tree[path])

\* The same where no id that was made up can be taken for another's own.
GroupsReadBack == (Styled({"ids"}) => BorrowedComeFirst) => IdsAreNeverMistaken
=============================================================================
