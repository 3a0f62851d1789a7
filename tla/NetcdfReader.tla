----------------------------- MODULE NetcdfReader -----------------------------
(***************************************************************************)
(* NcFile::root_group (oxinetcdf/src/file.rs, resolver.rs): a first walk   *)
(* of the groups collects every dimension scale by its address, a second   *)
(* one resolves each group into dimensions and variables.  A variable's    *)
(* axes are found by, in this order, the dimension ids it carries, the     *)
(* scales its DIMENSION_LIST refers to, its own name, and last a made-up   *)
(* ("phony") dimension of the right length; the dimensions of other groups *)
(* get made-up ids too.                                                    *)
(*                                                                         *)
(* A file is the groups and datasets of an HDF5 file by address, a group   *)
(* the listing of its members.  Every group and attribute can be read; of  *)
(* the attributes only those of the conventions are kept.                  *)
(***************************************************************************)
EXTENDS Integers, Sequences, SequencesExt, FiniteSetsExt, TLC

CONSTANT MAX_GROUP_DEPTH

VARIABLES
    file,         \* [root, groups, objects]
    pass,         \* "idle", "collect", "resolve", "done" or "failed"
    paths,        \* groups still to be entered: [path, group]
    visited,      \* paths entered in this pass
    global_dims,  \* the scales collected, by address
    tree          \* the groups resolved, by path

NoId == -1                 \* no _Netcdf4Dimid
Undefined == "undefined"   \* a null reference

Datasets(group) == file.groups[group].datasets
Object(entry) == file.objects[entry.addr]

-----------------------------------------------------------------------------
(* Dimension scales *)

IsScale(dataset) == dataset.attrs.class

\* classify_dim_scale_name: a sentinel or no NAME at all marks a mere dimension.
IsPureScale(dataset) == IsScale(dataset) /\ dataset.attrs.name.kind # "real"

Dimension(name, len, unlimited) == [name |-> name, len |-> len, unlimited |-> unlimited]

\* dim_scale_len_and_unlim: a placeholder without data has its length in its NAME.
ScaleNamed(name, dataset) ==
    IF dataset.readable
    THEN Dimension(name, IF dataset.shape = <<>> THEN 0 ELSE dataset.shape[1], dataset.unlimited)
    ELSE Dimension(name, dataset.attrs.name.len, FALSE)

\* Resolving a group starts from nothing.
Fresh == [dims |-> <<>>, addrs |-> <<>>, coords |-> <<>>, next |-> 0,
          axes |-> <<>>, variables |-> <<>>, error |-> FALSE]

Known(map, key, value) == (key :> value) @@ map

AddScale(s, entry) ==
    LET dataset == Object(entry)
        own == dataset.attrs.dimid
        id == IF own = NoId THEN s.next ELSE own
    IN  IF s.error \/ ~IsScale(dataset) THEN s
        ELSE [s EXCEPT !.error = id \in DOMAIN s.dims,
                       !.dims = Known(@, id, ScaleNamed(entry.name, dataset)),
                       !.coords = IF IsPureScale(dataset) THEN @ ELSE Known(@, entry.name, id),
                       !.addrs = Known(@, entry.addr, id),
                       !.next = IF own = NoId THEN @ + 1 ELSE @]

\* Mutant: ids are made up from nought, whatever ids there are.
NextFromNought(s) == s.next

\* Ids are made up past those there are.
NextPhony(s) == IF s.dims = <<>> THEN s.next ELSE Max(DOMAIN s.dims) + 1

\* collect_local_dims
LocalDims(group) ==
    LET s == FoldLeft(AddScale, Fresh, Datasets(group)) IN [s EXCEPT !.next = NextPhony(s)]

-----------------------------------------------------------------------------
(* Axes: `path` is of the group that is resolved *)

Attach(s, id, dim, path) ==
    [s EXCEPT !.axes = Append(@, [dim_id |-> id, name |-> dim.name, len |-> dim.len,
                                  unlimited |-> dim.unlimited, group_path |-> path])]

AttachKnown(s, id, path) == Attach(s, id, s.dims[id], path)

\* A dimension under a made-up id.
Register(s, dim) == [s EXCEPT !.dims = Known(@, s.next, dim), !.next = @ + 1]

phony_dim_name(id) == "phony_dim_" \o ToString(id)

MakePhonyAxis(s, len, path) ==
    AttachKnown(Register(s, Dimension(phony_dim_name(s.next), len, FALSE)), s.next, path)

create_phony_axes(s, shape, path) ==
    FoldLeft(LAMBDA t, len : MakePhonyAxis(t, len, path), s, shape)

\* An axis of a variable has to be as long as its dimension, unless either is empty or
\* the dimension can grow.
Fits(len, dim) == len = 0 \/ dim.len = 0 \/ dim.len = len \/ dim.unlimited

\* lazy_resolve_dim_addr: the object tells its name itself.
LazyDim(dataset) ==
    ScaleNamed(IF dataset.attrs.name.kind = "sentinel"
               THEN "phony_pure_dim_" \o ToString(dataset.attrs.name.len)
               ELSE dataset.attrs.name.text,
               dataset)

CanBeRead(addr) == addr \in DOMAIN file.objects /\ file.objects[addr].readable

AttachLazily(s, addr, len, path) ==
    LET dataset == file.objects[addr]
        own == dataset.attrs.dimid
        id == IF own = NoId THEN s.next ELSE own
        t == [s EXCEPT !.dims = @ @@ (id :> LazyDim(dataset)),
                       !.addrs = Known(@, addr, id),
                       !.next = IF own = NoId THEN @ + 1 ELSE @]
    IN  [Attach(t, id, LazyDim(dataset), path) EXCEPT !.error = ~Fits(len, t.dims[id])]

\* Mutant: a dimension of another group is not remembered.
ForgetScale(s, addr) == s

\* A dimension registered under a made-up id is found by its address from then on.
RememberScale(s, addr) == [s EXCEPT !.addrs = Known(@, addr, s.next)]

\* resolve_dim_list, for one reference.
FollowReference(s, addr, len, path) ==
    IF s.error THEN s
    ELSE IF addr = Undefined THEN MakePhonyAxis(s, len, path)
    ELSE IF addr \in DOMAIN s.addrs
    THEN [AttachKnown(s, s.addrs[addr], path) EXCEPT !.error = ~Fits(len, s.dims[s.addrs[addr]])]
    ELSE IF addr \in DOMAIN global_dims
    THEN LET dim == global_dims[addr]
         IN  Attach(Register(RememberScale(s, addr), Dimension(dim.name, dim.len, dim.unlimited)),
                    s.next, dim, dim.group_path)
    ELSE IF CanBeRead(addr) THEN AttachLazily(s, addr, len, path)
    ELSE [MakePhonyAxis(s, len, path) EXCEPT !.addrs = Known(@, addr, s.next)]

resolve_dim_list(s, refs, shape, path) ==
    FoldLeft(LAMBDA t, k : FollowReference(t, refs[k], shape[k], path),
             s, [k \in DOMAIN refs |-> k])

\* axes_from_netcdf4_coordinates, if they can be had.
HasCoordinates(s, dataset) ==
    /\ dataset.attrs.coordinates # <<>>
    /\ Len(dataset.attrs.coordinates) = Len(dataset.shape)
    /\ Range(dataset.attrs.coordinates) \subseteq DOMAIN s.dims

resolve_variable_axes(s, entry, dataset, path) ==
    LET refs == dataset.attrs.dimension_list
    IN  IF HasCoordinates(s, dataset)
        THEN FoldLeft(LAMBDA t, id : AttachKnown(t, id, path), s, dataset.attrs.coordinates)
        ELSE IF refs # <<>> /\ Len(refs) # Len(dataset.shape) THEN [s EXCEPT !.error = TRUE]
        ELSE IF refs # <<>> THEN resolve_dim_list(s, refs, dataset.shape, path)
        ELSE IF entry.name \in DOMAIN s.coords /\ Len(dataset.shape) = 1
        THEN AttachKnown(s, s.coords[entry.name], path)
        ELSE create_phony_axes(s, dataset.shape, path)

-----------------------------------------------------------------------------
(* Groups *)

IsVariable(dataset) == dataset.readable /\ ~IsPureScale(dataset)

AddVariable(s, entry, path) ==
    LET dataset == Object(entry)
        t == resolve_variable_axes([s EXCEPT !.axes = <<>>], entry, dataset, path)
    IN  IF s.error \/ ~IsVariable(dataset) THEN s
        ELSE [t EXCEPT !.variables = Append(@, [name |-> entry.name, shape |-> dataset.shape,
                                                dims |-> t.axes])]

\* How far the variables of the group reach along a dimension.
Extents(s, id) ==
    UNION {{v.shape[k] : k \in {k \in DOMAIN v.dims : v.dims[k].dim_id = id}} : v \in Range(s.variables)}

\* reconcile_unlimited_dims
Reconciled(s) ==
    LET dims == [id \in DOMAIN s.dims |->
                    IF s.dims[id].unlimited
                    THEN [s.dims[id] EXCEPT !.len = Max({@} \cup Extents(s, id))]
                    ELSE s.dims[id]]
        Settled(axis) == [axis EXCEPT !.len = dims[axis.dim_id].len]
    IN  [dimensions |-> dims,
         variables |-> [i \in DOMAIN s.variables |->
             [s.variables[i] EXCEPT !.dims = [k \in DOMAIN @ |-> Settled(@[k])]]]]

\* resolve_group_deep, but for its sub-groups.
Resolve(item) ==
    FoldLeft(LAMBDA s, entry : AddVariable(s, entry, item.path),
             LocalDims(item.group), Datasets(item.group))

-----------------------------------------------------------------------------
(* The walks *)

Root == [path |-> <<>>, group |-> file.root]

\* A path leads to a group and is a new one: it also grows along a cycle of links.
CanEnter(item) == Len(item.path) <= MAX_GROUP_DEPTH /\ item.path \notin visited

Below(item) ==
    LET members == file.groups[item.group].groups
    IN  [i \in DOMAIN members |-> [path |-> Append(item.path, members[i].name),
                                   group |-> members[i].addr]]

\* The group's own sub-groups are next.
Enter(item) == /\ visited' = visited \cup {item.path}
               /\ paths' = Below(item) \o Tail(paths)

Idle == pass = "idle" /\ paths = <<>> /\ visited = {} /\ global_dims = <<>> /\ tree = <<>>

RootGroup == /\ pass = "idle"
             /\ pass' = "collect"
             /\ paths' = <<Root>>
             /\ UNCHANGED <<file, visited, global_dims, tree>>

\* collect_global_dims_rec; a scale is known by the path it is met at last.
CollectGlobalDims ==
    /\ pass = "collect" /\ paths # <<>>
    /\ CanEnter(Head(paths))
    /\ Enter(Head(paths))
    /\ global_dims' =
           FoldLeft(LAMBDA known, entry :
                        IF ~IsScale(Object(entry)) THEN known
                        ELSE Known(known, entry.addr,
                                   [group_path |-> Head(paths).path]
                                       @@ ScaleNamed(entry.name, Object(entry))),
                    global_dims, Datasets(Head(paths).group))
    /\ UNCHANGED <<file, pass, tree>>

\* Too deep, or a cycle: neither walk fails.
Skip == /\ pass \in {"collect", "resolve"} /\ paths # <<>>
        /\ ~CanEnter(Head(paths))
        /\ paths' = Tail(paths)
        /\ UNCHANGED <<file, pass, visited, global_dims, tree>>

Collected == /\ pass = "collect" /\ paths = <<>>
             /\ pass' = "resolve"
             /\ paths' = <<Root>>
             /\ visited' = {}
             /\ UNCHANGED <<file, global_dims, tree>>

\* A group that cannot be resolved fails them all.
ResolveGroup ==
    /\ pass = "resolve" /\ paths # <<>>
    /\ CanEnter(Head(paths))
    /\ LET s == Resolve(Head(paths))
       IN  IF s.error
           THEN pass' = "failed" /\ tree' = <<>> /\ UNCHANGED <<paths, visited>>
           ELSE /\ Enter(Head(paths))
                /\ tree' = Known(tree, Head(paths).path, Reconciled(s))
                /\ UNCHANGED pass
    /\ UNCHANGED <<file, global_dims>>

Resolved == /\ pass = "resolve" /\ paths = <<>>
            /\ pass' = "done"
            /\ UNCHANGED <<file, paths, visited, global_dims, tree>>

ReaderNext == \/ RootGroup \/ CollectGlobalDims \/ Collected
              \/ ResolveGroup \/ Resolved \/ Skip
=============================================================================
