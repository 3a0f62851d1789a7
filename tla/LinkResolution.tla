---------------------------- MODULE LinkResolution ----------------------------
(***************************************************************************)
(* Finding an object by its path (navigate_to_group and find_child_header  *)
(* in oxih5's reader.rs, resolve_path_target in links.rs).  A path is      *)
(* walked name by name; a name may be a soft link, whose value is a path   *)
(* of its own, walked in a recursive call before the walk goes on from     *)
(* where it leads.  The stack of calls is explicit here: the bottom frame  *)
(* is the caller's navigation, each frame above it a call of               *)
(* resolve_path_target.                                                    *)
(***************************************************************************)
EXTENDS Integers, Sequences

CONSTANTS
    Header,      \* object headers of the file
    root,        \* the root group's
    Outside,     \* where an external link leads
    Name,        \* names of links
    Spelling,    \* the sequences of names that come up as paths, with their ends
    File,        \* the files that may be read
    Query,       \* the calls that may be made
    Meaning      \* for each file, the objects that paths lead to

\* The value of a soft link.
Path == [absolute: BOOLEAN, names: Spelling]

Link == [kind: {"hard"}, to: Header] \cup [kind: {"soft"}, path: Path]
        \cup [kind: {"external"}]

ASSUME SpellingAssumption ==
    /\ Spelling \subseteq Seq(Name)
    /\ \A names \in Spelling : names # <<>> => Tail(names) \in Spelling

\* An object that is no group has no members.
ASSUME FileAssumption ==
    /\ root \in Header /\ Outside \notin Header
    /\ \A f \in File :
         /\ f.groups \subseteq Header
         /\ \A h \in Header : \A n \in DOMAIN f.members[h] : f.members[h][n] \in Link

\* File::dataset and Group::dataset, File::group, or Group::group of one member.
ASSUME QueryAssumption ==
    Query \subseteq [op: {"dataset", "group", "member"}, base: Header, names: Spelling]

\* A path is followed from the group that holds it, or from the root.
StartOf(group, path) == IF path.absolute THEN root ELSE group

\* The first name of a path from group h leads to next, if paths mean meaning.
LeadsOn(f, meaning, h, name, next) ==
    /\ name \in DOMAIN f.members[h]
    /\ LET link == f.members[h][name]
       IN  CASE link.kind = "hard" -> next = link.to
             [] link.kind = "soft" ->
                  <<StartOf(h, link.path), link.path.names, next>> \in meaning
             [] OTHER -> next = Outside

\* Where a path can lead.
Reached == Header \cup {Outside}

\* Whatever a path leads to when each link is taken to mean what it says is among
\* the meanings.
RespectsLinks(f, meaning) ==
    /\ \A h \in Reached : <<h, <<>>, h>> \in meaning
    /\ \A h \in Header : \A names \in Spelling \ {<<>>} : \A next, to \in Reached :
           LeadsOn(f, meaning, h, Head(names), next) /\ <<next, Tail(names), to>> \in meaning
               => <<h, names, to>> \in meaning

\* A path means nothing but what its links lead to, and one thing at most.
FollowsFromLinks(f, meaning) ==
    /\ \A h, to \in Reached : <<h, <<>>, to>> \in meaning => to = h
    /\ \A h \in Header : \A names \in Spelling \ {<<>>} : \A to \in Reached :
           <<h, names, to>> \in meaning
               => \E next \in Reached : /\ LeadsOn(f, meaning, h, Head(names), next)
                                       /\ <<next, Tail(names), to>> \in meaning
    /\ \A h \in Reached : \A names \in Spelling : \A to, other \in Reached :
           <<h, names, to>> \in meaning /\ <<h, names, other>> \in meaning => to = other

\* The least relation that respects the links of a file is what its paths mean, and
\* has all of this.
ASSUME MeaningAssumption == \A f \in File : RespectsLinks(f, Meaning[f])
ASSUME MeaningIsExact == \A f \in File : FollowsFromLinks(f, Meaning[f])

VARIABLES
    file,      \* the file read
    query,     \* the call made
    frames,    \* the walks under way, innermost last
    visited,   \* the link values followed below the current name of the call
    result

vars == <<file, query, frames, visited, result>>

\* A walk: the path it follows and from where, how far it has come, what is left.
Frame == [start: Header, path: Path, group: Header \cup {Outside}, names: Spelling]

Outcome == {"pending", "found", "missing", "not a group", "refused", "cycle"}
Pending == [kind |-> "pending", at |-> Outside]

Top == frames[Len(frames)]
Under == SubSeq(frames, 1, Len(frames) - 1)
Fail(kind) == result' = [kind |-> kind, at |-> Outside] /\ UNCHANGED <<frames, visited>>

-----------------------------------------------------------------------------

Init ==
    /\ file \in File
    /\ query \in Query
    /\ frames = <<[start |-> query.base, path |-> [absolute |-> FALSE, names |-> query.names],
                   group |-> query.base, names |-> query.names]>>
    /\ visited = {}
    /\ result = Pending

\* The link the walk comes to next.
Upcoming(kind) ==
    /\ result = Pending /\ Top.names # <<>>
    /\ Head(Top.names) \in DOMAIN file.members[Top.group]
    /\ file.members[Top.group][Head(Top.names)].kind = kind
Followed == file.members[Top.group][Head(Top.names)]

\* The caller wants groups on the way, and at the end unless it wants a dataset.
WantsGroup(walks) ==
    Len(walks) = 1 /\ (query.op # "dataset" \/ Len(walks[1].names) > 1)

\* Only the last name of a path may lead out of the file, and where the caller wants
\* a group only in Group::group, when it is itself the link that does.
Follows(walks, direct) ==
    /\ Len(walks[Len(walks)].names) = 1
    /\ WantsGroup(walks) => query.op = "member" /\ direct

\* Mutant: a name that leads back to the group it is in is followed again.
StillAt(walk, h) ==
    [walk EXCEPT !.group = h, !.names = IF h = walk.group THEN @ ELSE Tail(@)]

\* A walk when its next name has led to h.
Onward(walk, h) == [walk EXCEPT !.group = h, !.names = Tail(@)]

\* The innermost of these walks comes to h.
Arrive(walks, h, direct) ==
    \/ h = Outside /\ ~Follows(walks, direct) /\ Fail("refused")
    \/ h # Outside /\ WantsGroup(walks) /\ h \notin file.groups /\ Fail("not a group")
    \/ /\ IF h = Outside THEN Follows(walks, direct)
                         ELSE WantsGroup(walks) => h \in file.groups
       /\ frames' = [walks EXCEPT ![Len(walks)] = Onward(@, h)]
       /\ UNCHANGED <<visited, result>>

FollowHard ==
    /\ Upcoming("hard")
    /\ Arrive(frames, Followed.to, TRUE)
    /\ UNCHANGED <<file, query>>

FollowExternal ==
    /\ Upcoming("external")
    /\ Arrive(frames, Outside, TRUE)
    /\ UNCHANGED <<file, query>>

NoSuchMember ==
    /\ result = Pending /\ Top.names # <<>>
    /\ Head(Top.names) \notin DOMAIN file.members[Top.group]
    /\ Fail("missing")
    /\ UNCHANGED <<file, query>>

\* The guard is new for each name of the caller's path, and shared by every call
\* made for that name.
VisitedSoFar == IF Len(frames) = 1 THEN {} ELSE visited

\* Mutant: a relative value is followed from where the whole walk began.
LinkStartFromBase(path) == IF path.absolute THEN root ELSE query.base

\* Mutant: every value is followed from the root.
LinkStartFromRoot(path) == root

\* Where a soft link of the group come to is followed from.
LinkStart(path) == StartOf(Top.group, path)

\* resolve_path_target: a value already followed from the same group is a cycle.
FollowSoft ==
    /\ Upcoming("soft")
    /\ LET path == Followed.path
           start == LinkStart(path)
       IN  \/ <<start, path>> \in VisitedSoFar /\ Fail("cycle")
           \/ /\ <<start, path>> \notin VisitedSoFar
              /\ visited' = VisitedSoFar \cup {<<start, path>>}
              /\ frames' = Append(frames, [start |-> start, path |-> path,
                                           group |-> start, names |-> path.names])
              /\ UNCHANGED result
    /\ UNCHANGED <<file, query>>

\* A call returns where its path led, and its caller's walk goes on from there.
Return ==
    /\ result = Pending /\ Len(frames) > 1 /\ Top.names = <<>>
    /\ Arrive(Under, Top.group, FALSE)
    /\ UNCHANGED <<file, query>>

\* A path of no names is the group itself, and no dataset.
Finish ==
    /\ result = Pending /\ Len(frames) = 1 /\ Top.names = <<>>
    /\ \/ query.op = "dataset" /\ query.names = <<>> /\ Fail("missing")
       \/ /\ query.op # "dataset" \/ query.names # <<>>
          /\ result' = [kind |-> "found", at |-> Top.group]
          /\ UNCHANGED <<frames, visited>>
    /\ UNCHANGED <<file, query>>

Next == FollowHard \/ FollowExternal \/ NoSuchMember \/ FollowSoft \/ Return \/ Finish

Spec == Init /\ [][Next]_vars

\* A lookup is one call on one thread: it goes on until it returns.
FairSpec == Spec /\ WF_vars(Next)

-----------------------------------------------------------------------------

TypeOK ==
    /\ file \in File /\ query \in Query
    /\ frames \in Seq(Frame) /\ frames # <<>>
    /\ \A i \in 1..Len(frames) : frames[i].group = Outside => frames[i].names = <<>>
    /\ visited \subseteq Header \X Path
    /\ result \in [kind: Outcome, at: Header \cup {Outside}]

\* An object that is found is one the path means, however many links of whatever
\* kind lie on the way: each soft link was followed from the group that holds it.
FoundIsMeant ==
    result.kind = "found" => <<query.base, query.names, result.at>> \in Meaning[file]

\* A path is reported missing only if it means nothing.
MissingMeansNothing ==
    result.kind = "missing" =>
        \/ query.op = "dataset" /\ query.names = <<>>
        \/ \A to \in Header \cup {Outside} : <<query.base, query.names, to>> \notin Meaning[file]

\* No call is made from within a call for the same link value in the same group: the
\* recursion is no deeper than there are link values in the file.
NeverInsideItself ==
    \A i, j \in 2..Len(frames) :
        i # j => <<frames[i].start, frames[i].path>> # <<frames[j].start, frames[j].path>>

\* A cycle is reported only where following the path would never end.
\* "soft link cycle detected at path" (links.rs:204)
CyclesAreReal ==
    result.kind = "cycle" =>
        \A to \in Header \cup {Outside} : <<query.base, query.names, to>> \notin Meaning[file]

\* Every lookup comes to an end, whatever cycles the links of the file form.
Terminates == <>(result # Pending)
=============================================================================
