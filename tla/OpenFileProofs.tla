----------------------------- MODULE OpenFileProofs -----------------------------
(***************************************************************************)
(* Proofs about an open file.                                              *)
(* Lookups, for all files, paths and depths of nesting: one finds only     *)
(* what its path means, reports missing only what means nothing, and never *)
(* nests on one link value.                                                *)
(* The chunk index cache, for any number of threads reading any datasets:  *)
(* it cannot be told from decoding every index anew, and what it hands out *)
(* stays what it holds.                                                    *)
(* Overwrites in place, for any number of files, of any length, with any   *)
(* datasets, and for any calls: they stay in their data areas, and last    *)
(* once acknowledged.                                                      *)
(* The checksum of a chunk, for data of any length: it is Fletcher's.      *)
(***************************************************************************)
EXTENDS LinkResolution, ChunkCache, InPlace, Fletcher, SequenceTheorems, WellFoundedInduction, TLAPS

-----------------------------------------------------------------------------
(* Lookups *)

StackType(s) ==
    /\ s \in Seq(Frame) /\ s # <<>>
    /\ \A i \in 1..Len(s) : s[i].group = Outside => s[i].names = <<>>

\* The walk has come to a soft link, whose path the next one walks.
LinkCalls(walk, next) ==
    LET link == file.members[walk.group][Head(walk.names)]
    IN  /\ walk.names # <<>>
        /\ Head(walk.names) \in DOMAIN file.members[walk.group]
        /\ link.kind = "soft"
        /\ next.path = link.path
        /\ next.start = StartOf(walk.group, link.path)

\* Every walk above the bottom one follows the link its caller's walk has come to.
Linked(s) ==
    /\ s[1].start = query.base /\ s[1].path.names = query.names
    /\ \A i \in 1..(Len(s) - 1) : LinkCalls(s[i], s[i + 1])

\* Where the rest of a walk leads from where it has come, its path leads, and
\* nowhere else.
LinksFaithful(s) ==
    \A i \in 1..Len(s) : \A to \in Reached :
        <<s[i].group, s[i].names, to>> \in Meaning[file]
        <=> <<s[i].start, s[i].path.names, to>> \in Meaning[file]

Stack(s) == StackType(s) /\ Linked(s) /\ LinksFaithful(s)

\* The guard knows every link value being followed, and none is followed twice.
Guarded(s, seen) ==
    /\ \A i \in 2..Len(s) : <<s[i].start, s[i].path>> \in seen
    /\ \A i, j \in 2..Len(s) :
         i # j => <<s[i].start, s[i].path>> # <<s[j].start, s[j].path>>

LookupInv == /\ TypeOK
        /\ Stack(frames)
        /\ Guarded(frames, visited)
        /\ FoundIsMeant
        /\ MissingMeansNothing

-----------------------------------------------------------------------------

\* A set of numbers that is not empty has a least one.
LEMMA LeastNumber ==
    ASSUME NEW S, S \subseteq Nat, S # {}
    PROVE  \E n \in S : \A m \in S : n <= m
<1> DEFINE R == OpToRel(<, Nat)
<1>1. IsWellFoundedOn(R, Nat)
  BY NatLessThanWellFounded
<1>2. \E n \in S : \A m \in S : <<m, n>> \notin R
  <2> HIDE DEF R
  <2> QED
    BY <1>1, WFMin
<1>3. PICK n \in S : \A m \in S : <<m, n>> \notin R
  BY <1>2
<1>4. \A m \in S : ~(m < n)
  BY <1>3 DEF OpToRel
<1> QED
  BY <1>4

\* What a path means, the first of its links leads on to, and that is one thing.
LEMMA MeaningGoesOn ==
    ASSUME NEW f \in File, NEW h \in Header, NEW names \in Spelling, names # <<>>,
           NEW to \in Reached, <<h, names, to>> \in Meaning[f]
    PROVE  \E next \in Reached : /\ LeadsOn(f, Meaning[f], h, Head(names), next)
                               /\ <<next, Tail(names), to>> \in Meaning[f]
  BY MeaningIsExact DEF FollowsFromLinks

LEMMA LinksLeadToOneThing ==
    ASSUME NEW f \in File, NEW h \in Header, NEW name, NEW next \in Reached, NEW other \in Reached,
           LeadsOn(f, Meaning[f], h, name, next), LeadsOn(f, Meaning[f], h, name, other)
    PROVE  other = next
<1> DEFINE link == f.members[h][name]
<1>1. link \in Link
  BY FileAssumption DEF LeadsOn
<1>2. CASE link.kind = "hard"
  BY <1>2 DEF LeadsOn
<1>3. CASE link.kind = "soft"
  <2> DEFINE start == StartOf(h, link.path)
  <2>1. start \in Reached /\ link.path.names \in Spelling
    <3>1. link.path \in Path
      BY <1>1, <1>3 DEF Link
    <3> QED
      BY <3>1, FileAssumption DEF Path, StartOf, Reached
  <2>2. /\ <<start, link.path.names, next>> \in Meaning[f]
        /\ <<start, link.path.names, other>> \in Meaning[f]
    BY <1>3 DEF LeadsOn
  <2> HIDE DEF start, link
  <2> QED
    BY <2>1, <2>2, MeaningIsExact DEF FollowsFromLinks
<1>4. CASE link.kind \notin {"hard", "soft"}
  BY <1>4 DEF LeadsOn
<1> QED
  BY <1>2, <1>3, <1>4

\* The least relation that respects the links of a file has what the proofs ask of
\* its meanings: nothing is in it but by a link, and it leads a path to one thing.
LEMMA LeastMeaningIsExact ==
    ASSUME NEW f \in File, NEW meaning \in SUBSET (Reached \X Spelling \X Reached),
           RespectsLinks(f, meaning),
           \A smaller \in SUBSET meaning : RespectsLinks(f, smaller) => smaller = meaning
    PROVE  FollowsFromLinks(f, meaning)
<1> DEFINE HoldsIn(m, t) ==   \* t is in any relation that respects links and contains m
               \/ t[2] = <<>> /\ t[3] = t[1]
               \/ /\ t[1] \in Header /\ t[2] # <<>>
                  /\ \E next \in Reached : /\ LeadsOn(f, m, t[1], Head(t[2]), next)
                                        /\ <<next, Tail(t[2]), t[3]>> \in m
           derived == {t \in meaning : HoldsIn(meaning, t)}
           Alone(t) == \A other \in Reached : <<t[1], t[2], other>> \in meaning => other = t[3]
           alone == {t \in meaning : Alone(t)}
<1>1. ASSUME NEW m \in SUBSET meaning, NEW h, NEW name, NEW next, LeadsOn(f, m, h, name, next)
      PROVE  LeadsOn(f, meaning, h, name, next)
  BY <1>1 DEF LeadsOn
<1>2. \A t \in meaning : HoldsIn(meaning, t)
  <2>1. RespectsLinks(f, derived)
    <3>1. ASSUME NEW h \in Reached PROVE <<h, <<>>, h>> \in derived
      BY DEF RespectsLinks
    <3>2. ASSUME NEW h \in Header, NEW names \in Spelling \ {<<>>},
                 NEW next \in Reached, NEW to \in Reached,
                 LeadsOn(f, derived, h, Head(names), next), <<next, Tail(names), to>> \in derived
          PROVE  <<h, names, to>> \in derived
      <4>1. LeadsOn(f, meaning, h, Head(names), next) /\ <<next, Tail(names), to>> \in meaning
        BY <1>1, <3>2
      <4>2. <<h, names, to>> \in meaning
        BY <4>1 DEF RespectsLinks
      <4> QED
        BY <4>1, <4>2
    <3> QED
      BY <3>1, <3>2 DEF RespectsLinks
  <2>2. derived = meaning
    BY <2>1
  <2> HIDE DEF HoldsIn
  <2> QED
    BY <2>2
<1>3. ASSUME NEW h \in Reached, NEW to \in Reached, <<h, <<>>, to>> \in meaning PROVE to = h
  BY <1>2, <1>3
<1>4. ASSUME NEW h \in Header, NEW names \in Spelling \ {<<>>}, NEW to \in Reached,
             <<h, names, to>> \in meaning
      PROVE  \E next \in Reached : /\ LeadsOn(f, meaning, h, Head(names), next)
                                 /\ <<next, Tail(names), to>> \in meaning
  <2> DEFINE t == <<h, names, to>>
  <2>1. HoldsIn(meaning, t)
    <3> HIDE DEF HoldsIn
    <3> QED
      BY <1>2, <1>4
  <2>2. t[1] = h /\ t[2] = names /\ t[3] = to /\ names # <<>>
    OBVIOUS
  <2> HIDE DEF t
  <2> QED
    BY <2>1, <2>2
<1>5. alone = meaning
  <2>1. RespectsLinks(f, alone)
    <3>1. ASSUME NEW h \in Reached PROVE <<h, <<>>, h>> \in alone
      BY <1>3 DEF RespectsLinks
    <3>2. ASSUME NEW h \in Header, NEW names \in Spelling \ {<<>>},
                 NEW next \in Reached, NEW to \in Reached,
                 LeadsOn(f, alone, h, Head(names), next), <<next, Tail(names), to>> \in alone
          PROVE  <<h, names, to>> \in alone
      <4>1. LeadsOn(f, meaning, h, Head(names), next) /\ <<next, Tail(names), to>> \in meaning
        BY <1>1, <3>2
      <4>2. <<h, names, to>> \in meaning
        BY <4>1 DEF RespectsLinks
      <4>3. ASSUME NEW other \in Reached, <<h, names, other>> \in meaning PROVE other = to
        <5>1. PICK on \in Reached : /\ LeadsOn(f, meaning, h, Head(names), on)
                                  /\ <<on, Tail(names), other>> \in meaning
          BY <1>4, <4>3
        <5>2. on = next
          BY <3>2, <5>1 DEF LeadsOn
        <5> QED
          BY <3>2, <5>1, <5>2
      <4> QED
        BY <4>2, <4>3
    <3> HIDE DEF alone
    <3> QED
      BY <3>1, <3>2 DEF RespectsLinks
  <2> QED
    BY <2>1
<1>6. ASSUME NEW h \in Reached, NEW names \in Spelling, NEW to \in Reached, NEW other \in Reached,
             <<h, names, to>> \in meaning, <<h, names, other>> \in meaning
      PROVE  to = other
  BY <1>5, <1>6
<1> QED
  BY <1>3, <1>4, <1>6 DEF FollowsFromLinks

-----------------------------------------------------------------------------

\* What a stack's walks lead to does not depend on the walks above them.
LEMMA PrefixIsStack ==
    ASSUME NEW s, Stack(s), NEW seen, Guarded(s, seen), Len(s) > 1
    PROVE  /\ Stack(SubSeq(s, 1, Len(s) - 1))
           /\ Guarded(SubSeq(s, 1, Len(s) - 1), seen)
           /\ Len(SubSeq(s, 1, Len(s) - 1)) = Len(s) - 1
           /\ \A i \in 1..(Len(s) - 1) : SubSeq(s, 1, Len(s) - 1)[i] = s[i]
<1> DEFINE p == SubSeq(s, 1, Len(s) - 1)
<1>1. s \in Seq(Frame) /\ Len(s) \in Nat
  BY DEF Stack, StackType
<1>2. p \in Seq(Frame) /\ Len(p) = Len(s) - 1 /\ \A i \in 1..(Len(s) - 1) : p[i] = s[i]
  <2>1. \A i \in 1..(Len(s) - 1) : s[i] \in Frame
    BY <1>1
  <2>2. Len(s) - 1 \in Int /\ 1 <= Len(s) - 1 /\ (Len(s) - 1) - 1 + 1 = Len(s) - 1
    BY <1>1
  <2>3. \A i \in 1..(Len(s) - 1) : 1 + i - 1 = i
    BY <1>1
  <2> QED
    BY <2>1, <2>2, <2>3, SubSeqProperties
<1> HIDE DEF p
<1>3. StackType(p)
  <2>1. p # <<>>
    BY <1>1, <1>2
  <2>2. \A i \in 1..Len(p) : i \in 1..Len(s) /\ p[i] = s[i]
    BY <1>1, <1>2
  <2> QED
    BY <1>2, <2>1, <2>2 DEF Stack, StackType
<1>4. Linked(p)
  <2>1. 1 \in 1..(Len(s) - 1) /\ p[1] = s[1]
    BY <1>1, <1>2
  <2>2. ASSUME NEW i \in 1..(Len(p) - 1)
        PROVE  i \in 1..(Len(s) - 1) /\ p[i] = s[i] /\ p[i + 1] = s[i + 1]
    BY <1>1, <1>2
  <2> QED
    BY <2>1, <2>2 DEF Stack, Linked
<1>5. LinksFaithful(p)
  <2>1. \A i \in 1..Len(p) : i \in 1..Len(s) /\ p[i] = s[i]
    BY <1>1, <1>2
  <2> QED
    BY <2>1 DEF Stack, LinksFaithful
<1>6. Guarded(p, seen)
  <2>1. \A i \in 2..Len(p) : i \in 2..Len(s) /\ p[i] = s[i]
    BY <1>1, <1>2
  <2> QED
    BY <2>1 DEF Guarded
<1> QED
  BY <1>2, <1>3, <1>4, <1>5, <1>6 DEF Stack, p

\* A walk that comes to where its next name leads still means what its path means.
LEMMA ArrivingKeepsTheStack ==
    ASSUME TypeOK, NEW s, Stack(s), NEW seen, Guarded(s, seen), NEW h \in Reached,
           NEW walk, walk = s[Len(s)], walk.names # <<>>,
           LeadsOn(file, Meaning[file], walk.group, Head(walk.names), h),
           h = Outside => Len(walk.names) = 1
    PROVE  /\ Stack([s EXCEPT ![Len(s)] = Onward(@, h)])
           /\ Guarded([s EXCEPT ![Len(s)] = Onward(@, h)], seen)
<1> DEFINE n == Len(s)  new == Onward(walk, h)  t == [s EXCEPT ![n] = Onward(@, h)]
<1>1. s \in Seq(Frame) /\ n \in Nat \ {0} /\ walk \in Frame
  BY DEF Stack, StackType
<1>2. walk.group \in Header /\ walk.names \in Spelling /\ walk.names \in Seq(Name)
  <2>1. walk.group # Outside
    BY <1>1 DEF Stack, StackType
  <2> QED
    BY <1>1, <2>1, SpellingAssumption DEF Frame
<1>3. /\ new.group = h /\ new.names = Tail(walk.names)
      /\ new.start = walk.start /\ new.path = walk.path
      /\ new \in Frame
  <2>1. Tail(walk.names) \in Spelling
    BY <1>2, SpellingAssumption
  <2> QED
    BY <1>1, <2>1 DEF Onward, Frame, Reached
<1>4. /\ t \in Seq(Frame) /\ Len(t) = n /\ t[n] = new
      /\ \A i \in 1..n : i # n => t[i] = s[i]
  BY <1>1, <1>3
<1> HIDE DEF t, new
<1>5. StackType(t)
  <2>1. h = Outside => Tail(walk.names) = <<>>
    <3>1. ASSUME Len(walk.names) = 1
          PROVE  Tail(walk.names) \in Seq(Name) /\ Len(Tail(walk.names)) = 0
      BY <1>2, <3>1
    <3> QED
      BY <3>1, EmptySeq
  <2>2. t # <<>>
    BY <1>1, <1>4
  <2>3. ASSUME NEW i \in 1..Len(t), t[i].group = Outside PROVE t[i].names = <<>>
    <3>1. CASE i = n
      BY <1>3, <1>4, <2>1, <2>3, <3>1
    <3>2. CASE i # n
      BY <1>4, <2>3, <3>2 DEF Stack, StackType
    <3> QED
      BY <3>1, <3>2
  <2> QED
    BY <1>4, <2>2, <2>3 DEF StackType
<1>6. Linked(t)
  <2>1. t[1].start = s[1].start /\ t[1].path = s[1].path
    BY <1>1, <1>3, <1>4
  <2>2. ASSUME NEW i \in 1..(Len(t) - 1) PROVE LinkCalls(t[i], t[i + 1])
    <3>1. i \in 1..(n - 1) /\ i \in 1..n /\ i # n /\ i + 1 \in 1..n
      BY <1>1, <1>4
    <3>2. t[i] = s[i] /\ LinkCalls(s[i], s[i + 1])
      BY <1>4, <3>1 DEF Stack, Linked
    <3>3. t[i + 1].path = s[i + 1].path /\ t[i + 1].start = s[i + 1].start
      BY <1>3, <1>4, <3>1
    <3> QED
      BY <3>2, <3>3 DEF LinkCalls
  <2> QED
    BY <2>1, <2>2 DEF Stack, Linked
<1>7. LinksFaithful(t)
  <2>1. file \in File
    BY DEF TypeOK
  <2>2. ASSUME NEW to \in Reached
        PROVE  <<h, Tail(walk.names), to>> \in Meaning[file]
               <=> <<walk.group, walk.names, to>> \in Meaning[file]
    <3>1. ASSUME <<h, Tail(walk.names), to>> \in Meaning[file]
          PROVE  <<walk.group, walk.names, to>> \in Meaning[file]
      BY <1>2, <2>1, <3>1, MeaningAssumption DEF RespectsLinks
    <3>2. ASSUME <<walk.group, walk.names, to>> \in Meaning[file]
          PROVE  <<h, Tail(walk.names), to>> \in Meaning[file]
      <4>1. PICK next \in Reached :
                /\ LeadsOn(file, Meaning[file], walk.group, Head(walk.names), next)
                /\ <<next, Tail(walk.names), to>> \in Meaning[file]
        BY <1>2, <2>1, <3>2, MeaningGoesOn
      <4>2. next = h
        BY <1>2, <2>1, <4>1, LinksLeadToOneThing
      <4> QED
        BY <4>1, <4>2
    <3> QED
      BY <3>1, <3>2
  <2>3. ASSUME NEW to \in Reached
        PROVE  <<new.group, new.names, to>> \in Meaning[file]
               <=> <<new.start, new.path.names, to>> \in Meaning[file]
    <3>1. n \in 1..n /\ s[n] = walk
      BY <1>1
    <3> QED
      BY <1>3, <2>2, <3>1 DEF Stack, LinksFaithful
  <2> QED
    BY <1>1, <1>4, <2>3 DEF Stack, LinksFaithful
<1>8. Guarded(t, seen)
  <2>1. ASSUME NEW i \in 1..n PROVE t[i].start = s[i].start /\ t[i].path = s[i].path
    BY <1>1, <1>3, <1>4
  <2> QED
    BY <1>1, <1>4, <2>1 DEF Guarded
<1> QED
  BY <1>5, <1>6, <1>7, <1>8 DEF Stack, t

\* A call for the link that the innermost walk has come to.
LEMMA DescendingKeepsTheStack ==
    ASSUME NEW s, Stack(s), NEW seen, Guarded(s, seen), NEW f \in Frame,
           <<f.start, f.path>> \notin seen,
           f.group # Outside, f.group = f.start, f.names = f.path.names,
           LinkCalls(s[Len(s)], f)
    PROVE  Stack(Append(s, f)) /\ Guarded(Append(s, f), seen \cup {<<f.start, f.path>>})
<1> DEFINE t == Append(s, f)  n == Len(s)
<1>1. s \in Seq(Frame) /\ s # <<>> /\ n \in Nat \ {0}
  BY DEF Stack, StackType
<1>2. /\ t \in Seq(Frame) /\ t # <<>> /\ Len(t) = n + 1 /\ t[n + 1] = f
      /\ \A i \in 1..n : t[i] = s[i]
  <2> HIDE DEF n
  <2>1. s \in Seq(Frame) /\ f \in Frame
    BY <1>1
  <2>2. Len(s) = n
    BY DEF n
  <2> QED
    BY <2>1, <2>2, AppendProperties
<1> HIDE DEF t
<1>3. \A i \in 1..Len(t) : i \in 1..n \/ i = n + 1
  BY <1>1, <1>2
<1>4. StackType(t)
  BY <1>2, <1>3 DEF Stack, StackType
<1>5. Linked(t)
  <2>1. 1 \in 1..n /\ n \in 1..n
    BY <1>1
  <2>2. t[1] = s[1] /\ t[n] = s[n]
    BY <1>2, <2>1
  <2>3. ASSUME NEW i \in 1..(Len(t) - 1) PROVE LinkCalls(t[i], t[i + 1])
    <3>1. CASE i = n
      BY <1>2, <2>2, <3>1
    <3>2. CASE i \in 1..(n - 1)
      <4>1. i \in 1..n /\ i + 1 \in 1..n
        BY <1>1, <3>2
      <4>2. LinkCalls(s[i], s[i + 1])
        BY <3>2 DEF Stack, Linked
      <4> QED
        BY <1>2, <4>1, <4>2
    <3>3. i \in 1..n
      BY <1>1, <1>2
    <3> QED
      BY <1>1, <3>1, <3>2, <3>3
  <2>4. t[1].start = query.base /\ t[1].path.names = query.names
    BY <2>2 DEF Stack, Linked
  <2> QED
    BY <2>3, <2>4 DEF Linked
<1>6. LinksFaithful(t)
  <2>1. ASSUME NEW i \in 1..Len(t), NEW to \in Reached
        PROVE  <<t[i].group, t[i].names, to>> \in Meaning[file]
               <=> <<t[i].start, t[i].path.names, to>> \in Meaning[file]
    <3>1. CASE i = n + 1
      BY <1>2, <3>1
    <3>2. CASE i \in 1..n
      BY <1>2, <3>2 DEF Stack, LinksFaithful
    <3> QED
      BY <1>3, <3>1, <3>2
  <2> QED
    BY <2>1 DEF LinksFaithful
<1>7. Guarded(t, seen \cup {<<f.start, f.path>>})
  <2> DEFINE CallKey(one) == <<one.start, one.path>>
  <2>1. t[n + 1] = f
    BY <1>2
  <2>2. \A i \in 2..n : t[i] = s[i]
    BY <1>1, <1>2
  <2>3. \A i \in 2..Len(t) : i \in 2..n \/ i = n + 1
    BY <1>1, <1>2
  <2>4. /\ \A i \in 2..n : CallKey(s[i]) \in seen
        /\ \A i, j \in 2..n : i # j => CallKey(s[i]) # CallKey(s[j])
    BY DEF Guarded
  <2>5. CallKey(f) \notin seen
    OBVIOUS
  <2> SUFFICES /\ \A i \in 2..Len(t) : CallKey(t[i]) \in seen \cup {CallKey(f)}
               /\ \A i, j \in 2..Len(t) : i # j => CallKey(t[i]) # CallKey(t[j])
    BY DEF Guarded
  <2> HIDE DEF CallKey
  <2>6. \A i \in 2..Len(t) : CallKey(t[i]) \in seen \cup {CallKey(f)}
    BY <2>1, <2>2, <2>3, <2>4
  <2>7. \A i, j \in 2..Len(t) : i # j => CallKey(t[i]) # CallKey(t[j])
    BY <2>1, <2>2, <2>3, <2>4, <2>5
  <2> QED
    BY <2>6, <2>7
<1>8. Stack(t)
  BY <1>4, <1>5, <1>6 DEF Stack
<1> QED
  BY <1>7, <1>8 DEF t

\* What a stack stands for depends on the lookup's file and query only.
LEMMA KeepingTheStack ==
    ASSUME Stack(frames), Guarded(frames, visited), UNCHANGED <<file, query, frames, visited>>
    PROVE  Stack(frames)' /\ Guarded(frames, visited)'
<1>1. Linked(frames)'
  BY DEF Stack, Linked, LinkCalls
<1>2. StackType(frames)' /\ LinksFaithful(frames)'
  BY DEF Stack, StackType, LinksFaithful
<1> QED
  BY <1>1, <1>2 DEF Stack, Guarded

\* If the innermost walk's next name is not there, the whole path means nothing: a
\* path means no more than the first of its links does.
LEMMA NoMemberNoMeaning ==
    ASSUME TypeOK, Stack(frames), Top.names # <<>>,
           Head(Top.names) \notin DOMAIN file.members[Top.group],
           NEW to \in Reached
    PROVE  <<query.base, query.names, to>> \notin Meaning[file]
<1> DEFINE n == Len(frames)
           Means(i) == \E next \in Reached :
               <<frames[i].group, frames[i].names, next>> \in Meaning[file]
           Pointless == {i \in 1..n : ~Means(i)}
<1>1. /\ file \in File /\ frames \in Seq(Frame) /\ n \in Nat \ {0}
      /\ \A i \in 1..n : frames[i] \in Frame
  BY DEF TypeOK, Stack, StackType
<1>2. \A i \in 1..n : frames[i].names # <<>> => frames[i].group \in Header
  BY <1>1 DEF Stack, StackType, Frame
<1>3. n \in Pointless
  <2>1. ASSUME NEW next \in Reached, <<Top.group, Top.names, next>> \in Meaning[file]
        PROVE  FALSE
    <3>1. Top.group \in Header /\ Top.names \in Spelling
      BY <1>1, <1>2 DEF Top, Frame
    <3>2. PICK on \in Reached : LeadsOn(file, Meaning[file], Top.group, Head(Top.names), on)
      BY <1>1, <2>1, <3>1, MeaningGoesOn
    <3> QED
      BY <3>2 DEF LeadsOn
  <2>2. ~Means(n)
    BY <2>1 DEF Top
  <2>3. n \in 1..n
    BY <1>1
  <2> QED
    BY <2>2, <2>3
<1>4. PICK m \in Pointless : \A i \in Pointless : m <= i
  <2>1. Pointless \subseteq Nat /\ Pointless # {}
    BY <1>1, <1>3
  <2> HIDE DEF Pointless
  <2> QED
    BY <2>1, LeastNumber
<1>5. m = 1
  <2> SUFFICES ASSUME m # 1 PROVE FALSE
    OBVIOUS
  <2>1. m - 1 \in 1..n /\ m - 1 \in 1..(n - 1) /\ (m - 1) + 1 = m /\ m - 1 \notin Pointless
    BY <1>1, <1>4
  <2> DEFINE caller == frames[m - 1]
             link == file.members[caller.group][Head(caller.names)]
  <2>2. PICK next \in Reached : <<caller.group, caller.names, next>> \in Meaning[file]
    BY <2>1
  <2>3. /\ caller.names # <<>> /\ link.kind = "soft"
        /\ frames[m].path = link.path
        /\ frames[m].start = StartOf(caller.group, link.path)
    BY <2>1 DEF Stack, Linked, LinkCalls
  <2>4. caller.group \in Header /\ caller.names \in Spelling
    BY <1>1, <1>2, <2>1, <2>3 DEF Frame
  <2>5. PICK on \in Reached : LeadsOn(file, Meaning[file], caller.group, Head(caller.names), on)
    BY <1>1, <2>2, <2>3, <2>4, MeaningGoesOn
  <2>6. <<frames[m].start, frames[m].path.names, on>> \in Meaning[file]
    BY <2>3, <2>5 DEF LeadsOn
  <2>7. <<frames[m].group, frames[m].names, on>> \in Meaning[file]
    BY <2>6 DEF Stack, LinksFaithful
  <2> QED
    BY <2>7
<1>6. <<frames[1].group, frames[1].names, to>> \notin Meaning[file]
  BY <1>5
<1>7. 1 \in 1..n
  BY <1>1
<1>8. <<frames[1].start, frames[1].path.names, to>> \notin Meaning[file]
  BY <1>6, <1>7 DEF Stack, LinksFaithful
<1> QED
  BY <1>8 DEF Stack, Linked

\* A lookup that fails leaves the walks as they were.
LEMMA FailingKeepsIInv ==
    ASSUME LookupInv, NEW kind \in Outcome \ {"found"}, Fail(kind), UNCHANGED <<file, query>>,
           kind = "missing" =>
               \/ query.op = "dataset" /\ query.names = <<>>
               \/ \A to \in Reached : <<query.base, query.names, to>> \notin Meaning[file]
    PROVE  LookupInv'
<1>1. /\ result' = [kind |-> kind, at |-> Outside]
      /\ frames' = frames /\ visited' = visited /\ file' = file /\ query' = query
  BY DEF Fail
<1>2. TypeOK'
  <2>1. result' \in [kind: Outcome, at: Header \cup {Outside}]
    BY <1>1
  <2> QED
    BY <1>1, <2>1 DEF LookupInv, TypeOK
<1>3. FoundIsMeant'
  BY <1>1 DEF FoundIsMeant, Outcome
<1>4. MissingMeansNothing'
  BY <1>1 DEF MissingMeansNothing, Reached
<1>5. Stack(frames)' /\ Guarded(frames, visited)'
  BY <1>1, KeepingTheStack DEF LookupInv
<1> QED
  BY <1>2, <1>3, <1>4, <1>5 DEF LookupInv

\* Coming to where the innermost walk's next name leads, or failing to.
LEMMA ArriveKeepsIInv ==
    ASSUME LookupInv, result = Pending, NEW s, Stack(s), Guarded(s, visited),
           s[Len(s)].names # <<>>, NEW h \in Reached, NEW direct \in BOOLEAN,
           LeadsOn(file, Meaning[file], s[Len(s)].group, Head(s[Len(s)].names), h),
           Arrive(s, h, direct), UNCHANGED <<file, query>>
    PROVE  LookupInv'
<1> DEFINE t == [s EXCEPT ![Len(s)] = Onward(@, h)]
<1>1. ASSUME NEW kind \in Outcome \ {"found", "missing"}, Fail(kind)
      PROVE  LookupInv'
  BY <1>1, FailingKeepsIInv
<1>2. ASSUME h = Outside => Follows(s, direct),
             frames' = t, UNCHANGED <<visited, result>>
      PROVE  LookupInv'
  <2>1. h = Outside => Len(s[Len(s)].names) = 1
    BY <1>2 DEF Follows
  <2>2. Stack(t) /\ Guarded(t, visited)
    BY <2>1, ArrivingKeepsTheStack DEF LookupInv
  <2> HIDE DEF t
  <2>3. TypeOK'
    BY <1>2, <2>2 DEF LookupInv, TypeOK, Stack, StackType
  <2>4. Stack(frames)'
    BY <1>2, <2>2 DEF Stack, StackType, Linked, LinkCalls, LinksFaithful
  <2>5. Guarded(frames, visited)'
    BY <1>2, <2>2 DEF Guarded
  <2>6. FoundIsMeant' /\ MissingMeansNothing'
    BY <1>2 DEF LookupInv, FoundIsMeant, MissingMeansNothing
  <2> QED
    BY <2>3, <2>4, <2>5, <2>6 DEF LookupInv
<1> QED
  BY <1>1, <1>2 DEF Arrive, Outcome

\* What the walks of a lookup stand for is kept by every step.
THEOREM LookupInvariant == Spec => []LookupInv
<1>1. Init => LookupInv
  <2> SUFFICES ASSUME Init PROVE LookupInv
    OBVIOUS
  <2> DEFINE f == [start |-> query.base, path |-> [absolute |-> FALSE, names |-> query.names],
                   group |-> query.base, names |-> query.names]
  <2>1. query.base \in Header /\ query.names \in Spelling
    BY QueryAssumption DEF Init
  <2>2. f \in Frame /\ f.group # Outside
    BY <2>1, FileAssumption DEF Frame, Path
  <2>3. frames = <<f>> /\ Len(frames) = 1 /\ frames[1] = f /\ frames \in Seq(Frame)
    BY <2>2 DEF Init
  <2>4. TypeOK
    BY <2>2, <2>3, SMT DEF Init, TypeOK, Pending, Outcome
  <2>5. Stack(frames)
    <3>1. StackType(frames)
      BY <2>2, <2>3 DEF StackType
    <3>2. Linked(frames)
      BY <2>3 DEF Linked
    <3>3. LinksFaithful(frames)
      BY <2>3 DEF LinksFaithful
    <3> QED
      BY <3>1, <3>2, <3>3 DEF Stack
  <2>6. Guarded(frames, visited)
    BY <2>3 DEF Guarded
  <2>7. FoundIsMeant /\ MissingMeansNothing
    BY DEF Init, Pending, FoundIsMeant, MissingMeansNothing
  <2> QED
    BY <2>4, <2>5, <2>6, <2>7 DEF LookupInv
<1>2. LookupInv /\ [Next]_vars => LookupInv'
  <2> SUFFICES ASSUME LookupInv, [Next]_vars PROVE LookupInv'
    OBVIOUS
  <2>0. /\ Stack(frames) /\ Guarded(frames, visited) /\ TypeOK
        /\ frames \in Seq(Frame) /\ Len(frames) \in Nat \ {0} /\ Top \in Frame
    BY DEF LookupInv, Stack, StackType, Top
  <2>1. CASE FollowHard
    <3> DEFINE link == file.members[Top.group][Head(Top.names)]
    <3>1. Top.names # <<>> /\ Top.group \in Header
      BY <2>0, <2>1 DEF FollowHard, Upcoming, Frame, Stack, StackType, Top
    <3>2. Head(Top.names) \in DOMAIN file.members[Top.group] /\ link.kind = "hard"
      BY <2>1 DEF FollowHard, Upcoming
    <3>3. link \in Link
      BY <3>1, <3>2, <2>0, FileAssumption DEF TypeOK
    <3>4. link.to \in Reached
      BY <3>2, <3>3 DEF Link, Reached
    <3>5. LeadsOn(file, Meaning[file], Top.group, Head(Top.names), link.to)
      BY <3>2 DEF LeadsOn
    <3> QED
      BY <2>0, <2>1, <3>1, <3>4, <3>5, ArriveKeepsIInv
      DEF FollowHard, Upcoming, Followed, Top
  <2>2. CASE FollowExternal
    <3> DEFINE link == file.members[Top.group][Head(Top.names)]
    <3>1. Top.names # <<>> /\ Head(Top.names) \in DOMAIN file.members[Top.group]
          /\ link.kind = "external"
      BY <2>2 DEF FollowExternal, Upcoming
    <3>2. LeadsOn(file, Meaning[file], Top.group, Head(Top.names), Outside)
      BY <3>1 DEF LeadsOn
    <3> QED
      BY <2>0, <2>2, <3>1, <3>2, ArriveKeepsIInv DEF FollowExternal, Upcoming, Top, Reached
  <2>3. CASE NoSuchMember
    <3>1. \A to \in Reached : <<query.base, query.names, to>> \notin Meaning[file]
      BY <2>0, <2>3, NoMemberNoMeaning DEF NoSuchMember
    <3> QED
      BY <2>3, <3>1, FailingKeepsIInv DEF NoSuchMember, Outcome
  <2>4. CASE FollowSoft
    <3> DEFINE link == file.members[Top.group][Head(Top.names)]
               start == StartOf(Top.group, link.path)
               key == <<start, link.path>>
               f == [start |-> start, path |-> link.path, group |-> start,
                     names |-> link.path.names]
               seen == VisitedSoFar
    <3>1. /\ Top.names # <<>> /\ Top.group \in Header
          /\ Head(Top.names) \in DOMAIN file.members[Top.group] /\ link.kind = "soft"
      BY <2>0, <2>4 DEF FollowSoft, Upcoming, Frame, Stack, StackType, Top
    <3>2. link.path \in Path /\ link.path.names \in Spelling
      <4>1. link \in Link
        BY <3>1, <2>0, FileAssumption DEF TypeOK
      <4> QED
        BY <3>1, <4>1 DEF Link, Path
    <3>3. start \in Header
      BY <3>1, FileAssumption DEF StartOf
    <3>4. f \in Frame /\ f.group # Outside
      BY <3>2, <3>3, FileAssumption DEF Frame
    <3>5. CASE key \in seen
      BY <2>4, <3>5, FailingKeepsIInv
      DEF FollowSoft, Followed, LinkStart, Outcome
    <3>6. CASE key \notin seen
      <4>1. /\ frames' = Append(frames, f) /\ visited' = seen \cup {key}
            /\ UNCHANGED <<file, query, result>>
        BY <2>4, <3>6 DEF FollowSoft, Followed, LinkStart, Fail
      <4>3. /\ f.start = start /\ f.path = link.path /\ f.group = start
            /\ f.names = link.path.names /\ key = <<f.start, f.path>>
        OBVIOUS
      <4>4. seen \subseteq visited
        BY DEF VisitedSoFar
      <4>5. Guarded(frames, seen)
        BY <2>0 DEF VisitedSoFar, Guarded
      <4>6. LinkCalls(frames[Len(frames)], f)
        BY <3>1, <4>3 DEF LinkCalls, Top
      <4> DEFINE t == Append(frames, f)
      <4> HIDE DEF t, f, seen, key, start, link
      <4>8. Stack(t) /\ Guarded(t, seen \cup {key})
        BY <2>0, <3>4, <3>6, <4>3, <4>5, <4>6, DescendingKeepsTheStack DEF t
      <4>9. t \in Seq(Frame) /\ t # <<>>
        BY <4>8 DEF Stack, StackType
      <4>10. TypeOK'
        <5>1. visited' \subseteq Header \X Path
          <6>1. key \in Header \X Path
            BY <3>2, <3>3 DEF key
          <6> QED
            BY <2>0, <4>1, <4>4, <6>1 DEF TypeOK
        <5>2. StackType(frames')
          BY <4>1, <4>8 DEF Stack, t
        <5>3. file' \in File /\ query' \in Query /\ result' \in [kind: Outcome, at: Header \cup {Outside}]
          BY <2>0, <4>1 DEF TypeOK
        <5> QED
          BY <5>1, <5>2, <5>3 DEF TypeOK, StackType
      <4>11. Stack(frames)'
        BY <4>1, <4>8 DEF Stack, StackType, Linked, LinkCalls, LinksFaithful, t
      <4>12. Guarded(frames, visited)'
        BY <4>1, <4>8 DEF Guarded, t
      <4>13. FoundIsMeant' /\ MissingMeansNothing'
        BY <4>1 DEF LookupInv, FoundIsMeant, MissingMeansNothing
      <4> QED
        BY <4>10, <4>11, <4>12, <4>13 DEF LookupInv
    <3> QED
      BY <3>5, <3>6
  <2>5. CASE Return
    <3> DEFINE n == Len(frames)  caller == frames[n - 1]
    <3>1. n > 1 /\ Top.names = <<>> /\ result = Pending
      BY <2>5 DEF Return
    <3>2. /\ Stack(Under) /\ Guarded(Under, visited)
          /\ Len(Under) = n - 1 /\ Under[Len(Under)] = caller
      BY <2>0, <3>1, PrefixIsStack DEF Under
    <3>3. n - 1 \in 1..(n - 1) /\ n \in 1..n /\ frames[(n - 1) + 1] = Top
      BY <2>0, <3>1 DEF Top
    <3> DEFINE link == file.members[caller.group][Head(caller.names)]
    <3>4. /\ caller.names # <<>> /\ Head(caller.names) \in DOMAIN file.members[caller.group]
          /\ link.kind = "soft" /\ Top.path = link.path
          /\ Top.start = StartOf(caller.group, link.path)
      BY <2>0, <3>3 DEF Stack, Linked, LinkCalls
    <3>5. Top.group \in Reached
      BY <2>0 DEF Frame, Reached
    <3>6. <<Top.group, <<>>, Top.group>> \in Meaning[file]
      BY <2>0, <3>5, MeaningAssumption DEF TypeOK, RespectsLinks
    <3>7. <<Top.start, Top.path.names, Top.group>> \in Meaning[file]
      BY <2>0, <3>1, <3>3, <3>5, <3>6 DEF Stack, LinksFaithful, Top
    <3>8. LeadsOn(file, Meaning[file], caller.group, Head(caller.names), Top.group)
      BY <3>4, <3>7 DEF LeadsOn
    <3>9. Arrive(Under, Top.group, FALSE) /\ UNCHANGED <<file, query>>
      BY <2>5 DEF Return
    <3> QED
      BY <2>0, <3>1, <3>2, <3>4, <3>5, <3>8, <3>9, ArriveKeepsIInv
  <2>6. CASE Finish
    <3>1. CASE Fail("missing")
      <4>1. result' = [kind |-> "missing", at |-> Outside] /\ UNCHANGED <<file, query>>
        BY <2>6, <3>1 DEF Finish, Fail
      <4>2. query.op = "dataset" /\ query.names = <<>>
        BY <2>6, <4>1 DEF Finish
      <4> QED
        BY <3>1, <4>1, <4>2, FailingKeepsIInv DEF Outcome
    <3>2. CASE /\ result' = [kind |-> "found", at |-> Top.group]
               /\ UNCHANGED <<frames, visited>>
      <4>1. /\ frames' = frames /\ visited' = visited /\ file' = file /\ query' = query
            /\ Top = frames[1] /\ 1 \in 1..Len(frames) /\ Top.names = <<>>
        BY <2>0, <2>6, <3>2 DEF Finish, Top
      <4>2. Top.group \in Reached
        BY <2>0 DEF Frame, Reached
      <4>3. <<Top.group, Top.names, Top.group>> \in Meaning[file]
        BY <2>0, <4>1, <4>2, MeaningAssumption DEF TypeOK, RespectsLinks
      <4>4. <<query.base, query.names, Top.group>> \in Meaning[file]
        <5>1. Top.start = query.base /\ Top.path.names = query.names
          BY <2>0, <4>1 DEF Stack, Linked
        <5>2. <<Top.start, Top.path.names, Top.group>> \in Meaning[file]
          BY <2>0, <4>1, <4>2, <4>3 DEF Stack, LinksFaithful
        <5> QED
          BY <5>1, <5>2
      <4>5. FoundIsMeant' /\ MissingMeansNothing'
        BY <3>2, <4>1, <4>4 DEF FoundIsMeant, MissingMeansNothing
      <4>6. TypeOK'
        <5>1. result' \in [kind: Outcome, at: Header \cup {Outside}]
          BY <3>2, <4>2 DEF Outcome, Reached
        <5> QED
          BY <2>0, <4>1, <5>1 DEF TypeOK
      <4> QED
        BY <2>0, <4>1, <4>5, <4>6, KeepingTheStack DEF LookupInv
    <3> QED
      BY <2>6, <3>1, <3>2 DEF Finish
  <2>7. CASE UNCHANGED vars
    <3>1. Stack(frames)' /\ Guarded(frames, visited)'
      BY <2>0, <2>7, KeepingTheStack DEF vars
    <3>2. TypeOK' /\ FoundIsMeant' /\ MissingMeansNothing'
      BY <2>7 DEF vars, LookupInv, TypeOK, FoundIsMeant, MissingMeansNothing
    <3> QED
      BY <3>1, <3>2 DEF LookupInv
  <2> QED
    BY <2>1, <2>2, <2>3, <2>4, <2>5, <2>6, <2>7 DEF Next
<1> QED
  BY <1>1, <1>2, PTL DEF Spec

\* Every lookup, through any mixture of links, finds only what its path means: no
\* walk ever goes on from another group than the one its link is in.
THEOREM FoundObjectsAreMeant == Spec => []FoundIsMeant
<1>1. LookupInv => FoundIsMeant
  BY DEF LookupInv
<1> QED
  BY <1>1, LookupInvariant, PTL

\* No lookup misses what its path means: a name that is not there, in the group or in
\* one that a link on the way is followed in, leaves the whole path without meaning.
THEOREM MissingIsMeaningless == Spec => []MissingMeansNothing
<1>1. LookupInv => MissingMeansNothing
  BY DEF LookupInv
<1> QED
  BY <1>1, LookupInvariant, PTL

\* The calls of a lookup never nest on one link value of one group, so that their
\* number is bounded by the links of the file.
THEOREM LookupsDoNotNest == Spec => []NeverInsideItself
<1>1. LookupInv => NeverInsideItself
  BY DEF LookupInv, Guarded, NeverInsideItself
<1> QED
  BY <1>1, LookupInvariant, PTL

\* The types of a lookup's state.
THEOREM LookupTypes == Spec => []TypeOK
<1>1. LookupInv => TypeOK
  BY DEF LookupInv
<1> QED
  BY <1>1, LookupInvariant, PTL

-----------------------------------------------------------------------------
(* The cache *)

\* The lock keeps its promise: a thread that fills an entry is alone with the map.
LockHeld ==
    /\ \A t \in Thread : at[t] = "probing" <=> t \in readers
    /\ \A t \in Thread : at[t] \in {"entry", "vacant"} <=> writer = t
    /\ writer # None => readers = {}

\* A thread past its probe has a query with an index, and past decoding its records.
WorkedOut ==
    \A t \in Thread :
        /\ at[t] # "returned" =>
               asked[t] \in Index /\ asked[t].index_address # UNDEFINED_ADDRESS
        /\ at[t] \in {"insert", "entry", "vacant"} =>
               /\ mine[t] \in Arc
               /\ mine[t].records = Decoded[asked[t]]

\* An entry found vacant stays vacant until the thread that found it fills it.
StaysVacant ==
    \A t \in Thread : at[t] = "vacant" => KeyOf(asked[t]) \notin DOMAIN store

\* The map holds what its keys' indexes decode to.
StoreIsFaithful ==
    \A q \in Index : KeyOf(q) \in DOMAIN store => Decoded[q] = store[KeyOf(q)].records

CacheInv == /\ CacheTypeOK
        /\ LockHeld
        /\ WorkedOut
        /\ StaysVacant
        /\ StoreIsFaithful
        /\ AnsweredAsUncached
        /\ AnswersAreShared

\* The record an Arc is, and that decoded records are no failure.
LEMMA ArcFacts ==
    /\ Arc \subseteq Shared /\ NoArc \in Shared
    /\ \A arc \in Shared : arc.by # None => arc \in Arc
    /\ \A r \in Records, t \in Thread : [records |-> r, by |-> t] \in Arc
BY IndexAssumption, NoneAssumption DEF Arc, Shared, NoArc

LEMMA InitEstablishes == CacheInit => CacheInv
<1> SUFFICES ASSUME CacheInit PROVE CacheInv
  OBVIOUS
<1>1. CacheTypeOK
  BY ArcFacts DEF CacheInit, CacheTypeOK, Key, Place, Ok
<1> QED
  BY <1>1, NoneAssumption DEF CacheInit, CacheInv, LockHeld, WorkedOut, StaysVacant, StoreIsFaithful,
       AnsweredAsUncached, AnswersAreShared, Answered

\* One step keeps the types.
LEMMA TypesKept == CacheTypeOK /\ WorkedOut /\ [CacheNext]_cacheVars => CacheTypeOK'
<1> SUFFICES ASSUME CacheTypeOK, WorkedOut, [CacheNext]_cacheVars PROVE CacheTypeOK'
  OBVIOUS
<1> USE ArcFacts DEF CacheTypeOK, Place, GoTo, ReturnFrom, Ok, Failed, Unanswered
<1>1. CASE UNCHANGED cacheVars
  BY <1>1 DEF cacheVars, lock
<1>2. ASSUME NEW t \in Thread, NEW q \in Index, Call(t, q) PROVE CacheTypeOK'
  <2>1. asked' \in [Thread -> Index \cup {None}]
    BY <1>2 DEF Call
  <2>2. at' \in [Thread -> Place] /\ mine' \in [Thread -> Shared]
        /\ answer' \in [Thread -> [kind: {"ok", "error", "pending"}, arc: Shared]]
    <3>1. CASE q.index_address = UNDEFINED_ADDRESS
      BY <1>2, <3>1 DEF Call
    <3>2. CASE q.index_address # UNDEFINED_ADDRESS
      BY <1>2, <3>2 DEF Call
    <3> QED
      BY <3>1, <3>2
  <2> QED
    BY <1>2, <2>1, <2>2 DEF Call, lock
<1>3. ASSUME NEW t \in Thread, AcquireRead(t) PROVE CacheTypeOK'
  BY <1>3 DEF AcquireRead
<1>4. ASSUME NEW t \in Thread, Hit(t) PROVE CacheTypeOK'
  BY <1>4 DEF Hit, ReleaseRead
<1>5. ASSUME NEW t \in Thread, Miss(t) PROVE CacheTypeOK'
  BY <1>5 DEF Miss, ReleaseRead
<1>6. ASSUME NEW t \in Thread, Decode(t) PROVE CacheTypeOK'
  <2>1. asked[t] \in Index
    BY <1>6 DEF Decode, WorkedOut
  <2>2. CASE Decoded[asked[t]] = Corrupt
    <3>1. ReturnFrom(t, Failed) /\ UNCHANGED <<store, lock, asked>>
      BY <1>6, <2>2 DEF Decode
    <3> QED
      BY <3>1 DEF lock
  <2>3. CASE Decoded[asked[t]] # Corrupt
    BY <1>6, <2>1, <2>3, IndexAssumption DEF Decode, lock
  <2> QED
    BY <2>2, <2>3
<1>7. ASSUME NEW t \in Thread, AcquireWrite(t) PROVE CacheTypeOK'
  BY <1>7 DEF AcquireWrite
<1>8. ASSUME NEW t \in Thread, Occupied(t) PROVE CacheTypeOK'
  BY <1>8 DEF Occupied
<1>9. ASSUME NEW t \in Thread, Vacant(t) PROVE CacheTypeOK'
  BY <1>9 DEF Vacant, lock
<1>10. ASSUME NEW t \in Thread, Insert(t) PROVE CacheTypeOK'
  BY <1>10 DEF Insert, WorkedOut, Key
<1> QED
  BY <1>1, <1>2, <1>3, <1>4, <1>5, <1>6, <1>7, <1>8, <1>9, <1>10 DEF CacheNext, GoOn

\* One step keeps the lock's promise.
LEMMA LockKept == CacheInv /\ [CacheNext]_cacheVars => LockHeld'
<1> SUFFICES ASSUME CacheInv, [CacheNext]_cacheVars PROVE LockHeld'
  OBVIOUS
<1> USE NoneAssumption DEF CacheInv, CacheTypeOK, LockHeld, Place, GoTo, ReturnFrom
<1>1. CASE UNCHANGED cacheVars
  BY <1>1 DEF cacheVars, lock
<1>2. ASSUME NEW t \in Thread, NEW q \in Index, Call(t, q) PROVE LockHeld'
  BY <1>2 DEF Call, lock
<1>3. ASSUME NEW t \in Thread, AcquireRead(t) PROVE LockHeld'
  BY <1>3 DEF AcquireRead
<1>4. ASSUME NEW t \in Thread, Hit(t) PROVE LockHeld'
  BY <1>4 DEF Hit, ReleaseRead
<1>5. ASSUME NEW t \in Thread, Miss(t) PROVE LockHeld'
  BY <1>5 DEF Miss, ReleaseRead
<1>6. ASSUME NEW t \in Thread, Decode(t) PROVE LockHeld'
  BY <1>6 DEF Decode, lock
<1>7. ASSUME NEW t \in Thread, AcquireWrite(t) PROVE LockHeld'
  BY <1>7 DEF AcquireWrite, FreeToWrite
<1>8. ASSUME NEW t \in Thread, Occupied(t) PROVE LockHeld'
  BY <1>8 DEF Occupied
<1>9. ASSUME NEW t \in Thread, Vacant(t) PROVE LockHeld'
  BY <1>9 DEF Vacant, lock
<1>10. ASSUME NEW t \in Thread, Insert(t) PROVE LockHeld'
  BY <1>10 DEF Insert
<1> QED
  BY <1>1, <1>2, <1>3, <1>4, <1>5, <1>6, <1>7, <1>8, <1>9, <1>10 DEF CacheNext, GoOn

\* One step keeps what a thread works out fit for its query.
LEMMA WorkKept == CacheInv /\ [CacheNext]_cacheVars => WorkedOut'
<1> SUFFICES ASSUME CacheInv, [CacheNext]_cacheVars PROVE WorkedOut'
  OBVIOUS
<1> USE ArcFacts DEF CacheInv, CacheTypeOK, WorkedOut, Place, GoTo, ReturnFrom
<1>1. CASE UNCHANGED cacheVars
  BY <1>1 DEF cacheVars, lock
<1>2. ASSUME NEW t \in Thread, NEW q \in Index, Call(t, q) PROVE WorkedOut'
  BY <1>2 DEF Call, lock
<1>3. ASSUME NEW t \in Thread, AcquireRead(t) PROVE WorkedOut'
  BY <1>3 DEF AcquireRead
<1>4. ASSUME NEW t \in Thread, Hit(t) PROVE WorkedOut'
  BY <1>4 DEF Hit
<1>5. ASSUME NEW t \in Thread, Miss(t) PROVE WorkedOut'
  BY <1>5 DEF Miss
<1>6. ASSUME NEW t \in Thread, Decode(t) PROVE WorkedOut'
  BY <1>6, IndexAssumption DEF Decode, lock
<1>7. ASSUME NEW t \in Thread, AcquireWrite(t) PROVE WorkedOut'
  BY <1>7 DEF AcquireWrite
<1>8. ASSUME NEW t \in Thread, Occupied(t) PROVE WorkedOut'
  BY <1>8 DEF Occupied
<1>9. ASSUME NEW t \in Thread, Vacant(t) PROVE WorkedOut'
  BY <1>9 DEF Vacant, lock
<1>10. ASSUME NEW t \in Thread, Insert(t) PROVE WorkedOut'
  BY <1>10 DEF Insert
<1> QED
  BY <1>1, <1>2, <1>3, <1>4, <1>5, <1>6, <1>7, <1>8, <1>9, <1>10 DEF CacheNext, GoOn

LEMMA KeysDecodeAlike ==
    ASSUME NEW p \in Index, NEW q \in Index, KeyOf(p) = KeyOf(q)
    PROVE  Decoded[p] = Decoded[q]
BY KeyAssumption DEF KeyOf

\* An insertion puts a new key's own records in, and is the only change to the map.
LEMMA InsertionFacts ==
    ASSUME CacheInv, NEW t \in Thread, Insert(t)
    PROVE  /\ asked[t] \in Index /\ asked[t].index_address # UNDEFINED_ADDRESS
           /\ KeyOf(asked[t]) \notin DOMAIN store
           /\ DOMAIN store' = DOMAIN store \cup {KeyOf(asked[t])}
           /\ store'[KeyOf(asked[t])] = mine[t]
           /\ mine[t] \in Arc /\ mine[t].records = Decoded[asked[t]]
           /\ \A k \in DOMAIN store : store'[k] = store[k]
           /\ \A u \in Thread : at[u] \in {"entry", "vacant"} => u = t
BY DEF CacheInv, Insert, StaysVacant, WorkedOut, LockHeld

LEMMA MapUntouched ==
    ASSUME [CacheNext]_cacheVars, \A t \in Thread : ~Insert(t) PROVE store' = store
BY DEF CacheNext, GoOn, cacheVars, lock, Call, AcquireRead, Hit, Miss, Decode, AcquireWrite, Occupied,
       Vacant

LEMMA FaithKept == CacheInv /\ [CacheNext]_cacheVars => StoreIsFaithful'
<1> SUFFICES ASSUME CacheInv, [CacheNext]_cacheVars PROVE StoreIsFaithful'
  OBVIOUS
<1>1. CASE \A t \in Thread : ~Insert(t)
  BY <1>1, MapUntouched DEF CacheInv, StoreIsFaithful
<1>2. ASSUME NEW t \in Thread, Insert(t) PROVE StoreIsFaithful'
  <2> SUFFICES ASSUME NEW q \in Index, KeyOf(q) \in DOMAIN store'
               PROVE  Decoded[q] = store'[KeyOf(q)].records
    BY DEF StoreIsFaithful
  <2> DEFINE k == KeyOf(asked[t])
  <2>1. /\ asked[t] \in Index /\ mine[t].records = Decoded[asked[t]]
        /\ DOMAIN store' = DOMAIN store \cup {k} /\ store'[k] = mine[t]
        /\ \A j \in DOMAIN store : store'[j] = store[j]
    BY <1>2, InsertionFacts
  <2>2. CASE KeyOf(q) = k
    <3>1. Decoded[q] = Decoded[asked[t]]
      BY <2>1, <2>2, KeysDecodeAlike
    <3> QED
      BY <2>1, <2>2, <3>1
  <2>3. CASE KeyOf(q) \in DOMAIN store
    <3>1. Decoded[q] = store[KeyOf(q)].records
      BY <2>3 DEF CacheInv, StoreIsFaithful
    <3> HIDE DEF k
    <3> QED
      BY <2>1, <2>3, <3>1
  <2> QED
    BY <2>1, <2>2, <2>3
<1> QED
  BY <1>1, <1>2

\* Only the thread with the write lock can make an entry, so none is taken from
\* under the thread that found it vacant.
LEMMA VacancyKept == CacheInv /\ [CacheNext]_cacheVars => StaysVacant'
<1> SUFFICES ASSUME CacheInv, [CacheNext]_cacheVars PROVE StaysVacant'
  OBVIOUS
<1> USE DEF CacheInv, CacheTypeOK, StaysVacant, Place, GoTo, ReturnFrom
<1>1. CASE UNCHANGED cacheVars
  BY <1>1 DEF cacheVars, lock
<1>2. ASSUME NEW t \in Thread, NEW q \in Index, Call(t, q) PROVE StaysVacant'
  BY <1>2 DEF Call, lock
<1>3. ASSUME NEW t \in Thread, AcquireRead(t) PROVE StaysVacant'
  BY <1>3 DEF AcquireRead
<1>4. ASSUME NEW t \in Thread, Hit(t) PROVE StaysVacant'
  BY <1>4 DEF Hit
<1>5. ASSUME NEW t \in Thread, Miss(t) PROVE StaysVacant'
  BY <1>5 DEF Miss
<1>6. ASSUME NEW t \in Thread, Decode(t) PROVE StaysVacant'
  BY <1>6 DEF Decode, lock
<1>7. ASSUME NEW t \in Thread, AcquireWrite(t) PROVE StaysVacant'
  BY <1>7 DEF AcquireWrite
<1>8. ASSUME NEW t \in Thread, Occupied(t) PROVE StaysVacant'
  BY <1>8 DEF Occupied
<1>9. ASSUME NEW t \in Thread, Vacant(t) PROVE StaysVacant'
  BY <1>9 DEF Vacant, lock
<1>10. ASSUME NEW t \in Thread, Insert(t) PROVE StaysVacant'
  <2>1. \A u \in Thread : at[u] = "vacant" => u = t
    BY <1>10, InsertionFacts
  <2>2. at' = [at EXCEPT ![t] = "returned"] /\ at \in [Thread -> Place]
    BY <1>10 DEF Insert
  <2>3. \A u \in Thread : at'[u] # "vacant"
    BY <2>1, <2>2
  <2> QED
    BY <2>3
<1> QED
  BY <1>1, <1>2, <1>3, <1>4, <1>5, <1>6, <1>7, <1>8, <1>9, <1>10 DEF CacheNext, GoOn

\* What a returned call holds in hand is in the map, and what was asked for.
FitAnswer(t) ==
    Answered(t) =>
        /\ [kind |-> answer[t].kind, records |-> answer[t].arc.records] = Uncached(asked[t])
        /\ answer[t].arc.by # None =>
               /\ KeyOf(asked[t]) \in DOMAIN store
               /\ store[KeyOf(asked[t])] = answer[t].arc

\* Answers given before a step stay fit: the map keeps what it holds.
LEMMA OldAnswersStayFit ==
    ASSUME CacheInv, [CacheNext]_cacheVars, NEW t \in Thread,
           at'[t] = "returned" => at[t] = "returned",
           asked'[t] = asked[t], answer'[t] = answer[t]
    PROVE  FitAnswer(t)'
<1>1. KeyOf(asked[t]) \in DOMAIN store =>
          KeyOf(asked[t]) \in DOMAIN store' /\ store'[KeyOf(asked[t])] = store[KeyOf(asked[t])]
  BY MapUntouched, InsertionFacts
<1> QED
  BY <1>1 DEF FitAnswer, Answered, CacheInv, AnsweredAsUncached, AnswersAreShared, Uncached

LEMMA FitMeansBoth ==
    (\A t \in Thread : FitAnswer(t)) <=> AnsweredAsUncached /\ AnswersAreShared
BY DEF FitAnswer, AnsweredAsUncached, AnswersAreShared

\* A call that returns from the map returns what is there under its key.
LEMMA AnswersFromTheMapFit ==
    ASSUME CacheInv, NEW t \in Thread, KeyOf(asked[t]) \in DOMAIN store,
           at[t] \in {"probing", "entry"},
           store' = store, asked'[t] = asked[t],
           answer'[t] = Ok(store[KeyOf(asked[t])])
    PROVE  FitAnswer(t)'
<1> DEFINE arc == store[KeyOf(asked[t])]
<1>1. asked[t] \in Index /\ asked[t].index_address # UNDEFINED_ADDRESS
  BY DEF CacheInv, WorkedOut
<1>2. arc \in Arc /\ arc.records = Decoded[asked[t]]
  BY <1>1 DEF CacheInv, CacheTypeOK, StoreIsFaithful
<1>3. arc.records # Corrupt
  BY <1>2, IndexAssumption DEF Arc
<1>4. Uncached(asked[t]) = [kind |-> "ok", records |-> arc.records]
  BY <1>1, <1>2, <1>3 DEF Uncached
<1> QED
  BY <1>4 DEF FitAnswer, Ok, Uncached

\* One step keeps every answer fit.
LEMMA AnswersKept == CacheInv /\ [CacheNext]_cacheVars => AnsweredAsUncached' /\ AnswersAreShared'
<1> SUFFICES ASSUME CacheInv, [CacheNext]_cacheVars, NEW u \in Thread PROVE FitAnswer(u)'
  BY FitMeansBoth DEF FitAnswer, AnsweredAsUncached, AnswersAreShared
<1>t. /\ at \in [Thread -> Place] /\ asked \in [Thread -> Index \cup {None}]
      /\ DOMAIN answer = Thread
  BY DEF CacheInv, CacheTypeOK
<1> USE DEF GoTo, ReturnFrom
<1>1. CASE UNCHANGED cacheVars
  BY <1>1, OldAnswersStayFit DEF cacheVars
<1>2. ASSUME NEW t \in Thread, NEW q \in Index, Call(t, q) PROVE FitAnswer(u)'
  <2>1. CASE u # t
    BY <1>2, <1>t, <2>1, OldAnswersStayFit DEF Call
  <2>2. CASE u = t /\ q.index_address = UNDEFINED_ADDRESS
    <3>1. asked'[u] = q /\ answer'[u] = Ok(NoArc)
      BY <1>2, <1>t, <2>2 DEF Call
    <3> QED
      BY <2>2, <3>1 DEF FitAnswer, Uncached, Ok, NoArc
  <2>3. CASE u = t /\ q.index_address # UNDEFINED_ADDRESS
    BY <1>2, <1>t, <2>3 DEF Call, FitAnswer, Answered
  <2> QED
    BY <2>1, <2>2, <2>3
<1>3. ASSUME NEW t \in Thread, AcquireRead(t) PROVE FitAnswer(u)'
  BY <1>3, <1>t, OldAnswersStayFit DEF AcquireRead
<1>4. ASSUME NEW t \in Thread, Hit(t) PROVE FitAnswer(u)'
  <2>1. CASE u # t
    BY <1>4, <1>t, <2>1, OldAnswersStayFit DEF Hit
  <2>2. CASE u = t
    BY <1>4, <1>t, <2>2, AnswersFromTheMapFit DEF Hit
  <2> QED
    BY <2>1, <2>2
<1>5. ASSUME NEW t \in Thread, Miss(t) PROVE FitAnswer(u)'
  BY <1>5, <1>t, OldAnswersStayFit DEF Miss
<1>6. ASSUME NEW t \in Thread, Decode(t) PROVE FitAnswer(u)'
  <2>1. CASE u # t
    BY <1>6, <1>t, <2>1, OldAnswersStayFit DEF Decode
  <2>2. CASE u = t /\ Decoded[asked[t]] = Corrupt
    <3>1. asked'[u] = asked[u] /\ answer'[u] = Failed
      BY <1>6, <1>t, <2>2 DEF Decode
    <3>2. asked[u] \in Index /\ asked[u].index_address # UNDEFINED_ADDRESS
      BY <1>6, <2>2 DEF Decode, CacheInv, WorkedOut
    <3> QED
      BY <2>2, <3>1, <3>2 DEF FitAnswer, Uncached, Failed, NoArc
  <2>3. CASE u = t /\ Decoded[asked[t]] # Corrupt
    BY <1>6, <1>t, <2>3 DEF Decode, FitAnswer, Answered
  <2> QED
    BY <2>1, <2>2, <2>3
<1>7. ASSUME NEW t \in Thread, AcquireWrite(t) PROVE FitAnswer(u)'
  BY <1>7, <1>t, OldAnswersStayFit DEF AcquireWrite
<1>8. ASSUME NEW t \in Thread, Occupied(t) PROVE FitAnswer(u)'
  <2>1. CASE u # t
    BY <1>8, <1>t, <2>1, OldAnswersStayFit DEF Occupied
  <2>2. CASE u = t
    BY <1>8, <1>t, <2>2, AnswersFromTheMapFit DEF Occupied
  <2> QED
    BY <2>1, <2>2
<1>9. ASSUME NEW t \in Thread, Vacant(t) PROVE FitAnswer(u)'
  BY <1>9, <1>t, OldAnswersStayFit DEF Vacant
<1>10. ASSUME NEW t \in Thread, Insert(t) PROVE FitAnswer(u)'
  <2>1. CASE u # t
    BY <1>10, <1>t, <2>1, OldAnswersStayFit DEF Insert
  <2>2. CASE u = t
    <3>1. asked'[u] = asked[u] /\ answer'[u] = Ok(mine[u])
      BY <1>10, <1>t, <2>2 DEF Insert
    <3>2. /\ asked[u].index_address # UNDEFINED_ADDRESS
          /\ mine[u] \in Arc /\ mine[u].records = Decoded[asked[u]]
          /\ KeyOf(asked[u]) \in DOMAIN store' /\ store'[KeyOf(asked[u])] = mine[u]
      BY <1>10, <2>2, InsertionFacts
    <3>3. Decoded[asked[u]] # Corrupt
      BY <3>2, IndexAssumption DEF Arc
    <3> QED
      BY <3>1, <3>2, <3>3 DEF FitAnswer, Uncached, Ok
  <2> QED
    BY <2>1, <2>2
<1> QED
  BY <1>1, <1>2, <1>3, <1>4, <1>5, <1>6, <1>7, <1>8, <1>9, <1>10 DEF CacheNext, GoOn

-----------------------------------------------------------------------------

\* Everything below holds because this does, in every state.
THEOREM CacheInvariant == CacheSpec => []CacheInv
<1>1. CacheInv /\ [CacheNext]_cacheVars => CacheInv'
  BY TypesKept, LockKept, WorkKept, VacancyKept, FaithKept, AnswersKept DEF CacheInv
<1> QED
  BY <1>1, InitEstablishes, PTL DEF CacheSpec

\* However many threads read, every call is answered as without a cache
\* (chunk_records with and without one).
THEOREM CacheIsTransparent == CacheSpec => []AnsweredAsUncached
BY CacheInvariant, PTL DEF CacheInv

\* All readers of an index share the records the first of them inserted
\* (get_or_insert's entry().or_insert_with()).
THEOREM ReadersShare == CacheSpec => []AnswersAreShared
BY CacheInvariant, PTL DEF CacheInv

\* No read-locked probe overlaps a write, and no two writes overlap.
THEOREM LockExcludes == CacheSpec => []LockHeld
BY CacheInvariant, PTL DEF CacheInv

\* The cache keeps what it holds and grows by what decodes (get_or_insert: "on
\* failure the error propagates and nothing is stored").
THEOREM FailuresAreNotKept == CacheSpec => OnlyDecodedIsKept
<1> DEFINE Grows == \A k \in DOMAIN store' :
                        IF k \in DOMAIN store THEN store'[k] = store[k]
                        ELSE \E q \in Index : KeyOf(q) = k /\ Decoded[q] = store'[k].records
<1>1. CacheInv /\ [CacheNext]_cacheVars => Grows
  <2> SUFFICES ASSUME CacheInv, [CacheNext]_cacheVars PROVE Grows
    OBVIOUS
  <2>1. CASE \A t \in Thread : ~Insert(t)
    BY <2>1, MapUntouched
  <2>2. ASSUME NEW t \in Thread, Insert(t) PROVE Grows
    <3> SUFFICES ASSUME NEW k \in DOMAIN store', k \notin DOMAIN store
                 PROVE  \E q \in Index : KeyOf(q) = k /\ Decoded[q] = store'[k].records
      BY <2>2, InsertionFacts
    <3>1. /\ asked[t] \in Index /\ k = KeyOf(asked[t])
          /\ store'[k] = mine[t] /\ mine[t].records = Decoded[asked[t]]
      <4>1. DOMAIN store' = DOMAIN store \cup {KeyOf(asked[t])}
        BY <2>2, InsertionFacts
      <4>2. k = KeyOf(asked[t])
        BY <4>1
      <4> QED
        BY <2>2, <4>2, InsertionFacts
    <3> QED
      BY <3>1
  <2> QED
    BY <2>1, <2>2
<1>2. CacheInv /\ [CacheNext]_cacheVars => [Grows]_cacheVars
  BY <1>1
<1> HIDE DEF Grows
<1>3. CacheSpec => [][Grows]_cacheVars
  BY <1>2, CacheInvariant, PTL DEF CacheSpec
<1> QED
  BY <1>3 DEF OnlyDecodedIsKept, Grows

-----------------------------------------------------------------------------
(* Overwrites *)

Typed ==
    /\ named \in Inodes /\ from \in Inodes /\ handle \in Inodes
    /\ DOMAIN cached = Inodes /\ DOMAIN stored = Inodes
    /\ pc \in {"idle", "checked", "writing"}

\* A dataset of the file that a call may write to, and the call's values fill.
Fills(f, p, c) ==
    /\ c \in Request /\ p \in DOMAIN Image[f].objects
    /\ Image[f].objects[p] \in Areas(f)
    /\ Image[f].objects[p].address + Image[f].objects[p].size <= Size(f)
    /\ c.count * c.want.width = Image[f].objects[p].size

\* Between the check and the last byte.
Aimed ==
    pc # "idle" =>
        /\ Fills(from, write.path, write)
        /\ target = Image[from].objects[write.path]
        /\ expect_elem(target, write.want) = "ok"
        /\ done \in 0..target.size
        /\ pc = "checked" => done = 0
        /\ pc = "writing" => handle = from \/ handle \in mistaken

WriteInv == Typed /\ Aimed /\ BytesAreAccountedFor

LEMMA FirstIsOk ==
    ASSUME NEW answers, NEW n \in 1..5, DOMAIN answers = 1..n, FirstOf(answers) = "ok"
    PROVE  \A i \in 1..n : answers[i] = "ok"
  <1> SUFFICES ASSUME NEW k \in 1..n, answers[k] # "ok" PROVE FALSE
    OBVIOUS
  <1> DEFINE IsFirst(i) == answers[i] # "ok" /\ \A j \in 1..(i - 1) : answers[j] = "ok"
  <1>1. \E i \in DOMAIN answers : IsFirst(i)
    <2>1. CASE answers[1] # "ok"
      BY <2>1
    <2>2. CASE answers[1] = "ok" /\ n >= 2 /\ answers[2] # "ok"
      BY <2>2
    <2>3. CASE answers[1] = "ok" /\ answers[2] = "ok" /\ n >= 3 /\ answers[3] # "ok"
      BY <2>3
    <2>4. CASE answers[1] = "ok" /\ answers[2] = "ok" /\ answers[3] = "ok" /\ n >= 4 /\ answers[4] # "ok"
      BY <2>4
    <2>5. CASE answers[1] = "ok" /\ answers[2] = "ok" /\ answers[3] = "ok" /\ answers[4] = "ok" /\ n = 5
      BY <2>5
    <2>6. QED
      BY <2>1, <2>2, <2>3, <2>4, <2>5
  <1>2. IsFirst(CHOOSE i \in DOMAIN answers : IsFirst(i))
    BY <1>1
  <1>3. QED
    BY <1>2 DEF FirstOf

LEMMA Lengths ==
    ASSUME NEW k, NEW c, NEW order, c.count * c.want.width \in Nat
    PROVE  Len(Encoded(k, c, order)) = c.count * c.want.width
  BY DEF Encoded

LEMMA InArea ==
    ASSUME NEW a \in Nat, NEW size \in Nat, NEW length \in Nat, NEW n \in 0..(size - 1),
           a + size <= length
    PROVE  /\ a + n \in a..(a + size - 1) /\ a + n \in 0..(length - 1)
           /\ (a + n) - a = n /\ a + n \in Nat
  OBVIOUS

LEMMA InitWrite ==
    ASSUME Described PROVE OverwriteInit => WriteInv
  BY DEF Described, OverwriteInit, Originals, WriteInv, Typed, Aimed, BytesAreAccountedFor, Accounted, Inodes

\* What the checks of a call leave for it to write to.
LEMMA ChecksHold ==
    ASSUME Described, NEW f \in Inodes, NEW c \in Request,
           LET o == Image[f].objects[c.path]
               refusal == FirstOf(<<resolve_target(f, c)>>)
           IN  /\ refusal = "ok"
               /\ FirstOf(<<expect_elem(o, c.want), check_len(Encoded(calls + 1, c, o.order), o.size)>>) = "ok"
    PROVE  Fills(f, c.path, c) /\ expect_elem(Image[f].objects[c.path], c.want) = "ok"
  <1> DEFINE o == Image[f].objects[c.path]
             refusals == Refusals(Image[f].objects, c)
  <1>1. resolve_target(f, c) = "ok"
    BY FirstIsOk
  <1>2. expect_elem(o, c.want) = "ok" /\ check_len(Encoded(calls + 1, c, o.order), o.size) = "ok"
    <2> DEFINE answers == <<expect_elem(o, c.want), check_len(Encoded(calls + 1, c, o.order), o.size)>>
    <2>1. DOMAIN answers = 1..2 /\ FirstOf(answers) = "ok"
      OBVIOUS
    <2>2. answers[1] = "ok" /\ answers[2] = "ok"
      BY <2>1, FirstIsOk
    <2>3. QED
      BY <2>2
  <1>3. FirstOf(refusals) = "ok" /\ WithinFile(f, o) = "ok"
    BY <1>1 DEF resolve_target
  <1>4. c.path \in DOMAIN Image[f].objects
    <2> SUFFICES ASSUME c.path \notin DOMAIN Image[f].objects PROVE FALSE
      OBVIOUS
    <2>1. refusals = <<"NotFound">>
      BY DEF Refusals
    <2>2. DOMAIN refusals = 1..1 /\ refusals[1] = "NotFound"
      BY <2>1
    <2>3. QED
      BY <1>3, <2>2, FirstIsOk
  <1>5. o \in Areas(f)
    <2>1. /\ DOMAIN refusals = 1..5
          /\ refusals[1] = IF o.kind = "external" THEN "NotImplemented" ELSE "ok"
          /\ refusals[2] = IF o.kind = "group" THEN "TypeMismatch" ELSE "ok"
          /\ refusals[3] = IF o.filtered THEN "NotImplemented" ELSE "ok"
          /\ refusals[4] = IF o.class = "vlen" THEN "NotImplemented" ELSE "ok"
          /\ refusals[5] = IF o.layout # "contiguous" THEN "NotImplemented" ELSE "ok"
      BY <1>4 DEF Refusals
    <2>2. \A i \in 1..5 : refusals[i] = "ok"
      BY <1>3, <2>1, FirstIsOk
    <2>3. o.kind # "external" /\ o.kind # "group" /\ ~o.filtered /\ o.class # "vlen" /\ o.layout = "contiguous"
      BY <2>1, <2>2
    <2>4. QED
      BY <1>4, <2>3 DEF Areas, Described
  <1>6. o.address + o.size <= Size(f)
    BY <1>3 DEF WithinFile
  <1>7. c.count * c.want.width = o.size
    <2>1. c.count * c.want.width \in Nat
      BY DEF Described
    <2>2. QED
      BY <1>2, <2>1, Lengths DEF check_len
  <1>8. QED
    BY <1>2, <1>4, <1>5, <1>6, <1>7 DEF Fills

\* The byte a call writes is one that belongs where it goes.
LEMMA WritesBelong ==
    ASSUME Described, WriteInv, pc = "writing", done < Len(Data), handle \notin mistaken
    PROVE  /\ target \in Areas(handle) /\ done \in Nat
           /\ target.address + done \in target.address..(target.address + target.size - 1)
           /\ target.address + done \in 0..(Size(handle) - 1)
           /\ Accounted(handle, target.address + done, Data[done + 1])
  <1> DEFINE width == write.want.width
             byte == Data[done + 1]
  <1>1. /\ handle = from /\ Fills(from, write.path, write) /\ target = Image[from].objects[write.path]
        /\ expect_elem(target, write.want) = "ok"
        /\ target \in Areas(handle)
        /\ target.address \in Nat /\ target.size \in Nat /\ width \in Nat \ {0}
        /\ write.count * width = target.size /\ from \in Inodes /\ Size(from) \in Nat
        /\ target.address + target.size <= Size(handle)
    <2>1. /\ handle = from /\ Fills(from, write.path, write) /\ target = Image[from].objects[write.path]
          /\ expect_elem(target, write.want) = "ok" /\ from \in Inodes
      BY DEF WriteInv, Typed, Aimed
    <2>2. /\ write \in Request /\ write.path \in DOMAIN Image[from].objects
          /\ target \in Areas(handle) /\ write.count * width = target.size
          /\ target.address + target.size <= Size(handle)
      BY <2>1 DEF Fills
    <2>3. target.address \in Nat /\ target.size \in Nat /\ width \in Nat \ {0} /\ Size(from) \in Nat
      BY <2>1, <2>2 DEF Described
    <2>4. QED
      BY <2>1, <2>2, <2>3
  <1>2. Len(Data) = target.size
    BY <1>1, Lengths DEF Data
  <1>3. done \in 0..(target.size - 1)
    BY <1>1, <1>2 DEF WriteInv, Aimed
  <1>4. byte = [call |-> calls, value |-> done \div width,
                byte |-> IF target.order = "big" THEN width - 1 - (done % width) ELSE done % width]
    <2>1. done + 1 \in 1..(write.count * width) /\ (done + 1) - 1 = done
      BY <1>1, <1>3
    <2>2. QED
      BY <2>1 DEF Data, Encoded
  <1>5. Belongs(byte, target, done)
    <2>1. CASE write.want = RawBytes
      <3>1. width = 1 /\ done \div 1 = done /\ done % 1 = 0
        BY <1>3, <2>1 DEF RawBytes
      <3>2. QED
        BY <1>4, <3>1 DEF Belongs
    <2>2. CASE width = target.width
      BY <1>4, <2>2 DEF Belongs
    <2>3. QED
      BY <1>1, <2>1, <2>2 DEF expect_elem
  <1>6. "call" \in DOMAIN byte /\ (target.address + done) - target.address = done
    BY <1>1, <1>3, <1>4
  <1>7. /\ target.address + done \in target.address..(target.address + target.size - 1)
        /\ target.address + done \in 0..(Size(handle) - 1)
    <2>1. /\ target.address \in Nat /\ target.size \in Nat /\ Size(handle) \in Nat
          /\ target.address + target.size <= Size(handle)
      BY <1>1
    <2>2. QED
      BY ONLY <1>3, <2>1, InArea
  <1>8. Accounted(handle, target.address + done, byte)
    BY <1>1, <1>5, <1>6, <1>7 DEF Accounted
  <1>9. QED
    BY <1>1, <1>3, <1>7, <1>8

LEMMA NextWrite ==
    ASSUME Described, WriteInv, [OverwriteNext]_overwriteVars PROVE WriteInv'
  <1> USE DEF WriteInv
  <1>1. ASSUME NEW c \in Request, Resolve(c) PROVE WriteInv'
    <2>1. BytesAreAccountedFor'
      BY <1>1 DEF Resolve, BytesAreAccountedFor, Accounted
    <2>2. CASE pc' = "idle"
      BY <1>1, <2>1, <2>2 DEF Resolve, Typed, Aimed
    <2>3. CASE pc' # "idle"
      <3>1. /\ pc' = "checked" /\ write' = c /\ target' = Image[named].objects[c.path]
            /\ from' = named /\ done' = 0 /\ named \in Inodes
            /\ Fills(named, c.path, c)
            /\ expect_elem(Image[named].objects[c.path], c.want) = "ok"
        BY <1>1, <2>3, ChecksHold DEF Resolve, Typed
      <3>2. Image[named].objects[c.path].size \in Nat
        BY <3>1 DEF Described, Fills
      <3>3. Aimed'
        BY <3>1, <3>2 DEF Aimed, Fills, expect_elem, Areas
      <3>4. QED
        BY <1>1, <2>1, <3>1, <3>3 DEF Resolve, Typed
    <2>4. QED
      BY <2>2, <2>3
  <1>2. CASE Open
    BY <1>2 DEF Open, Typed, Aimed, BytesAreAccountedFor, Accounted, Fills, expect_elem
  <1>3. CASE WriteByte
    <2>1. /\ Typed' /\ UNCHANGED <<stored, mistaken, pc, write, target, from, handle>>
          /\ pc = "writing" /\ done < Len(Data) /\ done' = done + 1
          /\ cached' = [cached EXCEPT ![handle] = Put(@, target.address + done, Data[done + 1])]
      BY <1>3 DEF WriteByte, Typed
    <2>2. Aimed'
      <3>1. write.count * write.want.width = target.size /\ target.size \in Nat
        BY <2>1 DEF Aimed, Fills, Described, Typed
      <3>2. Len(Data) = target.size
        BY <3>1, Lengths DEF Data
      <3>3. done + 1 \in 0..target.size
        BY <2>1, <3>1, <3>2 DEF Aimed
      <3>4. QED
        BY <2>1, <3>3 DEF Aimed, Fills, expect_elem
    <2>3. BytesAreAccountedFor'
      <3> SUFFICES ASSUME NEW f \in Inodes, f \notin mistaken
                   PROVE  \A bytes \in {cached'[f], stored[f]} :
                              /\ DOMAIN bytes = 0..(Size(f) - 1)
                              /\ \A i \in DOMAIN bytes : Accounted(f, i, bytes[i])
        BY <2>1 DEF BytesAreAccountedFor, Accounted, Areas
      <3>1. CASE f # handle
        BY <2>1, <3>1 DEF BytesAreAccountedFor, Typed
      <3>2. CASE f = handle
        <4> DEFINE place == target.address + done
                   old == cached[f]
        <4>1. place \in 0..(Size(f) - 1) /\ Accounted(f, place, Data[done + 1])
          BY <2>1, <3>2, WritesBelong
        <4>2. DOMAIN old = 0..(Size(f) - 1) /\ \A i \in DOMAIN old : Accounted(f, i, old[i])
          BY DEF BytesAreAccountedFor
        <4>3. cached'[f] = Put(old, place, Data[done + 1])
          BY <2>1, <3>2 DEF Typed
        <4>4. Size(f) \in Nat
          BY DEF Described
        <4> HIDE DEF place, old
        <4>5. /\ DOMAIN Put(old, place, Data[done + 1]) = 0..(Size(f) - 1)
              /\ \A i \in 0..(Size(f) - 1) :
                    Put(old, place, Data[done + 1])[i] = IF i = place THEN Data[done + 1] ELSE old[i]
          BY <4>1, <4>2, <4>4 DEF Put
        <4>6. QED
          BY <4>1, <4>2, <4>3, <4>5 DEF BytesAreAccountedFor
      <3>3. QED
        BY <3>1, <3>2
    <2>4. QED
      BY <2>1, <2>2, <2>3
  <1>4. CASE Acknowledge
    BY <1>4 DEF Acknowledge, Sync, Typed, Aimed, BytesAreAccountedFor, Accounted
  <1>5. CASE FailWrite
    BY <1>5 DEF FailWrite, Typed, Aimed, BytesAreAccountedFor, Accounted
  <1>6. CASE Replace
    BY <1>6 DEF Replace, Typed, Aimed, BytesAreAccountedFor, Accounted, Fills, expect_elem
  <1>7. CASE WriteBack
    <2>1. PICK g \in Inodes : \E k \in Dirty(g) : stored' = [stored EXCEPT ![g] = Put(@, k, cached[g][k])]
      BY <1>7 DEF WriteBack
    <2>0. PICK j \in Dirty(g) : stored' = [stored EXCEPT ![g] = Put(@, j, cached[g][j])]
      BY <2>1
    <2>2. UNCHANGED <<named, cached, pc, write, target, from, handle, done, mistaken>>
      BY <1>7 DEF WriteBack
    <2>3. Typed' /\ Aimed'
      BY <2>0, <2>2 DEF Typed, Aimed, Fills, expect_elem
    <2>4. BytesAreAccountedFor'
      <3> SUFFICES ASSUME NEW f \in Inodes, f \notin mistaken
                   PROVE  \A bytes \in {cached[f], stored'[f]} :
                              /\ DOMAIN bytes = 0..(Size(f) - 1)
                              /\ \A i \in DOMAIN bytes : Accounted(f, i, bytes[i])
        BY <2>2 DEF BytesAreAccountedFor, Accounted, Areas
      <3>1. CASE f # g
        BY <2>0, <3>1 DEF BytesAreAccountedFor, Typed
      <3>2. CASE f = g
        <4> DEFINE old == stored[f]
                   byte == cached[f][j]
        <4>1. j \in 0..(Size(f) - 1) /\ Accounted(f, j, byte)
          BY <3>2 DEF BytesAreAccountedFor, Dirty
        <4>2. DOMAIN old = 0..(Size(f) - 1) /\ \A i \in DOMAIN old : Accounted(f, i, old[i])
          BY DEF BytesAreAccountedFor
        <4>3. stored'[f] = Put(old, j, byte)
          BY <2>0, <3>2 DEF Typed
        <4>4. Size(f) \in Nat
          BY DEF Described
        <4> HIDE DEF byte, old
        <4>5. /\ DOMAIN Put(old, j, byte) = 0..(Size(f) - 1)
              /\ \A i \in 0..(Size(f) - 1) : Put(old, j, byte)[i] = IF i = j THEN byte ELSE old[i]
          BY <4>1, <4>2, <4>4 DEF Put
        <4>6. QED
          BY <4>1, <4>2, <4>3, <4>5 DEF BytesAreAccountedFor
      <3>3. QED
        BY <3>1, <3>2
    <2>5. QED
      BY <2>3, <2>4
  <1>8. CASE Killed
    BY <1>8 DEF Killed, Typed, Aimed, BytesAreAccountedFor, Accounted
  <1>9. CASE Crash
    BY <1>9 DEF Crash, Typed, Aimed, BytesAreAccountedFor, Accounted
  <1>10. CASE UNCHANGED overwriteVars
    BY <1>10 DEF overwriteVars, Typed, Aimed, BytesAreAccountedFor, Accounted, Fills, expect_elem
  <1>11. QED
    BY <1>1, <1>2, <1>3, <1>4, <1>5, <1>6, <1>7, <1>8, <1>9, <1>10 DEF OverwriteNext

\* Theorem: whatever the files and the calls, and wherever a call is cut short, no byte of
\* a file that was not mistaken for another changes but to one meant for its place
\* (write_dataset_in_place).
THEOREM WritesStayInTheirAreas ==
    OverwriteSpec => []BytesAreAccountedFor
  <1>1. WriteInv => BytesAreAccountedFor
    BY DEF WriteInv
  <1>2. QED
    BY ImagesAreDescribed, InitWrite, NextWrite, <1>1, PTL DEF OverwriteSpec

\* The first n bytes that a call gives a data area are there.
HoldsValues(bytes, o, k, c, n) ==
    \A i \in 1..n : bytes[o.address + (i - 1)] = Encoded(k, c, o.order)[i]

\* What was acknowledged is in the cache and on the disk.
KeptAt(f, p, put, cache, disk) ==
    /\ Fills(f, p, put.call)
    /\ HoldsValues(cache, Image[f].objects[p], put.number, put.call, Image[f].objects[p].size)
    /\ HoldsValues(disk, Image[f].objects[p], put.number, put.call, Image[f].objects[p].size)

KeptHolds ==
    \A f \in Inodes \ mistaken : \A p :
        <<f, p>> \in DOMAIN kept => KeptAt(f, p, kept[<<f, p>>], cached[f], stored[f])

\* What a call has written so far is in the cache, and no other call's is expected there.
WrittenSoFar ==
    pc = "writing" /\ handle \notin mistaken =>
        /\ HoldsValues(cached[handle], target, calls, write, done)
        /\ <<handle, write.path>> \notin DOMAIN kept

KeptAreFiles == \A d \in DOMAIN kept : d = <<d[1], d[2]>> /\ d[1] \in Inodes

KeptInv == WriteInv /\ KeptHolds /\ WrittenSoFar /\ KeptAreFiles

LEMMA InitKept ==
    ASSUME Described PROVE OverwriteInit => KeptInv
  BY InitWrite DEF OverwriteInit, KeptInv, KeptHolds, WrittenSoFar, KeptAreFiles

LEMMA NextKept ==
    ASSUME Described, AreasApart, KeptInv, [OverwriteNext]_overwriteVars PROVE KeptInv'
  <1> USE DEF KeptInv
  <1>0. WriteInv'
    BY NextWrite
  <1> DEFINE Same == UNCHANGED <<cached, stored, mistaken, kept>>
  <1>1. ASSUME NEW c \in Request, Resolve(c) PROVE KeptInv'
    <2>1. Same /\ pc' # "writing"
      BY <1>1 DEF Resolve
    <2>2. QED
      BY <1>0, <2>1 DEF KeptHolds, KeptAt, WrittenSoFar, KeptAreFiles, HoldsValues, Fills
  <1>2. CASE Open
    <2>1. /\ UNCHANGED <<cached, stored, write, target, done>> /\ pc = "checked"
          /\ mistaken \subseteq mistaken' /\ handle' = named
          /\ kept' = [d \in DOMAIN kept \ {<<named, write.path>>} |-> kept[d]]
      BY <1>2 DEF Open
    <2>2. KeptHolds' /\ KeptAreFiles'
      BY <2>1 DEF KeptHolds, KeptAt, KeptAreFiles, HoldsValues, Fills
    <2>3. WrittenSoFar'
      BY <2>1 DEF WrittenSoFar, HoldsValues, WriteInv, Aimed
    <2>4. QED
      BY <1>0, <2>2, <2>3
  <1>3. CASE WriteByte
    <2> DEFINE place == target.address + done
               byte == Data[done + 1]
    <2>1. /\ UNCHANGED <<stored, mistaken, kept, write, target, handle, calls>>
          /\ pc = "writing" /\ done < Len(Data) /\ done' = done + 1
          /\ cached' = [cached EXCEPT ![handle] = Put(@, place, byte)]
          /\ handle \in Inodes /\ DOMAIN cached = Inodes
      BY <1>3 DEF WriteByte, WriteInv, Typed
    <2>2. \A f \in Inodes : f # handle => cached'[f] = cached[f]
      BY <2>1
    <2>3. CASE handle \in mistaken
      BY <1>0, <2>1, <2>2, <2>3 DEF KeptHolds, KeptAt, WrittenSoFar, KeptAreFiles, HoldsValues, Fills
    <2>4. CASE handle \notin mistaken
      <3>1. /\ target \in Areas(handle) /\ done \in Nat /\ place \in Nat
            /\ place \in target.address..(target.address + target.size - 1)
            /\ place \in 0..(Size(handle) - 1) /\ target.address \in Nat
            /\ DOMAIN cached[handle] = 0..(Size(handle) - 1)
            /\ write.path \in DOMAIN Image[handle].objects
            /\ target = Image[handle].objects[write.path]
        BY <2>1, <2>4, WritesBelong DEF WriteInv, Aimed, Fills, Described, BytesAreAccountedFor, Typed
      <3>2. cached'[handle] = Put(cached[handle], place, byte)
        BY <2>1
      <3> HIDE DEF place, byte
      <3>3. /\ cached'[handle][place] = byte
            /\ \A j \in 0..(Size(handle) - 1) : j # place => cached'[handle][j] = cached[handle][j]
        BY <3>1, <3>2 DEF Put
      <3>4. WrittenSoFar'
        <4> SUFFICES ASSUME NEW i \in 1..(done + 1)
                     PROVE  cached'[handle][target.address + (i - 1)] = Encoded(calls, write, target.order)[i]
          BY <2>1, <2>4, <3>1 DEF WrittenSoFar, HoldsValues
        <4>1. CASE i = done + 1
          BY <3>1, <3>3, <4>1 DEF place, byte, Data
        <4>2. CASE i # done + 1
          <5>1. i \in 1..done /\ i - 1 \in 0..(done - 1)
            BY <3>1, <4>2
          <5>4. /\ target.address + (i - 1) \in 0..(Size(handle) - 1)
                /\ target.address + (i - 1) # target.address + done
            <6> DEFINE a == target.address
                       length == Size(handle)
            <6>1. a \in Nat /\ done \in Nat /\ a + done \in 0..(length - 1) /\ length \in Nat
              BY <3>1, <2>1 DEF place, Described
            <6> HIDE DEF a, length
            <6>2. a + (i - 1) \in 0..(length - 1) /\ a + (i - 1) # a + done
              BY ONLY <6>1, <5>1
            <6>3. QED
              BY <6>2 DEF a, length
          <5>2. cached[handle][target.address + (i - 1)] = Encoded(calls, write, target.order)[i]
            BY <2>1, <2>4, <5>1 DEF WrittenSoFar, HoldsValues
          <5>3. QED
            BY <3>3, <5>4, <5>2 DEF place
        <4>3. QED
          BY <4>1, <4>2
      <3>5. ASSUME NEW p, <<handle, p>> \in DOMAIN kept
            PROVE  LET o == Image[handle].objects[p]
                       put == kept[<<handle, p>>]
                   IN  HoldsValues(cached'[handle], o, put.number, put.call, o.size)
        <4> DEFINE o == Image[handle].objects[p]
                   put == kept[<<handle, p>>]
        <4>1. p # write.path /\ Fills(handle, p, put.call) /\ HoldsValues(cached[handle], o, put.number, put.call, o.size)
          BY <2>1, <2>4, <3>5 DEF WrittenSoFar, KeptHolds, KeptAt
        <4>2. /\ p \in DOMAIN Image[handle].objects /\ o \in Areas(handle) /\ o.address \in Nat /\ o.size \in Nat
              /\ o.address + o.size <= Size(handle) /\ Size(handle) \in Nat
          BY <2>1, <4>1 DEF Fills, Described
        <4>3. (o.address..(o.address + o.size - 1)) \cap (target.address..(target.address + target.size - 1)) = {}
          BY <2>1, <3>1, <4>1, <4>2 DEF AreasApart
        <4>4. \A i \in 1..o.size : /\ o.address + (i - 1) # place
                                   /\ o.address + (i - 1) \in 0..(Size(handle) - 1)
          <5> SUFFICES ASSUME NEW i \in 1..o.size
                       PROVE  o.address + (i - 1) # place /\ o.address + (i - 1) \in 0..(Size(handle) - 1)
            OBVIOUS
          <5>1. o.address + (i - 1) \in o.address..(o.address + o.size - 1)
            BY <4>2
          <5>2. o.address + (i - 1) \in 0..(Size(handle) - 1)
            BY <4>2
          <5>3. QED
            BY <3>1, <4>3, <5>1, <5>2
        <4>5. QED
          BY <3>3, <4>1, <4>4 DEF HoldsValues
      <3>6. KeptHolds'
        <4> SUFFICES ASSUME NEW f \in Inodes \ mistaken, NEW p, <<f, p>> \in DOMAIN kept
                     PROVE  KeptAt(f, p, kept[<<f, p>>], cached'[f], stored[f])
          BY <2>1 DEF KeptHolds
        <4>1. CASE f = handle
          BY <3>5, <4>1 DEF KeptHolds, KeptAt
        <4>2. CASE f # handle
          BY <2>2, <4>2 DEF KeptHolds
        <4>3. QED
          BY <4>1, <4>2
      <3>7. QED
        BY <1>0, <2>1, <3>4, <3>6 DEF KeptAreFiles
    <2>5. QED
      BY <2>3, <2>4
  <1>4. CASE Acknowledge
    <2> DEFINE new == <<handle, write.path>>
    <2>1. /\ UNCHANGED <<cached, mistaken>> /\ pc = "writing" /\ pc' = "idle" /\ done = Len(Data)
          /\ stored' = [stored EXCEPT ![handle] = cached[handle]]
          /\ kept' = [d \in DOMAIN kept \cup {new} |->
                         IF d = new THEN [number |-> calls, call |-> write] ELSE kept[d]]
          /\ handle \in Inodes /\ DOMAIN stored = Inodes
      BY <1>4 DEF Acknowledge, Sync, WriteInv, Typed
    <2>2. KeptAreFiles' /\ WrittenSoFar'
      BY <2>1 DEF KeptAreFiles, WrittenSoFar
    <2>3. KeptHolds'
      <3> SUFFICES ASSUME NEW f \in Inodes \ mistaken, NEW p, <<f, p>> \in DOMAIN kept'
                   PROVE  KeptAt(f, p, kept'[<<f, p>>], cached[f], stored'[f])
        BY <2>1 DEF KeptHolds
      <3>1. CASE <<f, p>> = new
        <4>1. f = handle /\ p = write.path /\ kept'[<<f, p>>] = [number |-> calls, call |-> write]
          BY <2>1, <3>1
        <4>2. /\ Fills(f, p, write) /\ target = Image[f].objects[p]
              /\ write.count * write.want.width = target.size /\ target.size \in Nat
          BY <2>1, <4>1 DEF WriteInv, Aimed, Fills, Described
        <4>3. done = target.size
          BY <2>1, <4>2, Lengths DEF Data
        <4>4. HoldsValues(cached[f], target, calls, write, target.size)
          BY <2>1, <4>1, <4>3 DEF WrittenSoFar
        <4>5. stored'[f] = cached[f]
          BY <2>1, <4>1
        <4>6. QED
          BY <4>1, <4>2, <4>4, <4>5 DEF KeptAt
      <3>2. CASE <<f, p>> # new
        <4>1. <<f, p>> \in DOMAIN kept /\ kept'[<<f, p>>] = kept[<<f, p>>]
          BY <2>1, <3>2
        <4>2. stored'[f] = stored[f] \/ stored'[f] = cached[f]
          BY <2>1
        <4>3. QED
          BY <4>1, <4>2 DEF KeptHolds, KeptAt
      <3>3. QED
        BY <3>1, <3>2
    <2>4. QED
      BY <1>0, <2>2, <2>3
  <1>5. CASE FailWrite
    <2>1. Same /\ pc' # "writing"
      BY <1>5 DEF FailWrite
    <2>2. QED
      BY <1>0, <2>1 DEF KeptHolds, KeptAt, WrittenSoFar, KeptAreFiles, HoldsValues, Fills
  <1>6. CASE Replace
    BY <1>0, <1>6 DEF Replace, KeptHolds, KeptAt, WrittenSoFar, KeptAreFiles, HoldsValues, Fills
  <1>7. CASE WriteBack
    <2>1. PICK g \in Inodes : \E k \in Dirty(g) : stored' = [stored EXCEPT ![g] = Put(@, k, cached[g][k])]
      BY <1>7 DEF WriteBack
    <2>2. PICK j \in Dirty(g) : stored' = [stored EXCEPT ![g] = Put(@, j, cached[g][j])]
      BY <2>1
    <2>3. UNCHANGED <<cached, pc, write, target, handle, done, calls, mistaken, kept>> /\ DOMAIN stored = Inodes
      BY <1>7 DEF WriteBack, WriteInv, Typed
    <2>4. KeptHolds'
      <3> SUFFICES ASSUME NEW f \in Inodes \ mistaken, NEW p, <<f, p>> \in DOMAIN kept
                   PROVE  KeptAt(f, p, kept[<<f, p>>], cached[f], stored'[f])
        BY <2>3 DEF KeptHolds
      <3> DEFINE o == Image[f].objects[p]
                 put == kept[<<f, p>>]
      <3>1. /\ Fills(f, p, put.call)
            /\ HoldsValues(cached[f], o, put.number, put.call, o.size)
            /\ HoldsValues(stored[f], o, put.number, put.call, o.size)
        BY DEF KeptHolds, KeptAt
      <3>2. CASE f # g
        BY <2>2, <2>3, <3>1, <3>2 DEF KeptAt
      <3>3. CASE f = g
        <4>1. /\ DOMAIN stored[f] = 0..(Size(f) - 1) /\ j \in 0..(Size(f) - 1) /\ Size(f) \in Nat
              /\ o.address \in Nat /\ o.size \in Nat /\ o.address + o.size <= Size(f)
          BY <3>1, <3>3 DEF WriteInv, BytesAreAccountedFor, Dirty, Described, Fills
        <4>2. stored'[f] = Put(stored[f], j, cached[f][j])
          BY <2>2, <2>3, <3>3
        <4>3. \A i \in 0..(Size(f) - 1) : stored'[f][i] = IF i = j THEN cached[f][i] ELSE stored[f][i]
          BY <4>1, <4>2 DEF Put
        <4>4. \A i \in 1..o.size : o.address + (i - 1) \in 0..(Size(f) - 1)
          <5> DEFINE a == o.address  n == o.size  end == Size(f)
          <5>1. a \in Nat /\ n \in Nat /\ end \in Nat /\ a + n <= end
            BY <4>1
          <5> HIDE DEF a, n, end
          <5>2. \A i \in 1..n : a + (i - 1) \in 0..(end - 1)
            BY ONLY <5>1
          <5>3. QED
            BY <5>2 DEF a, n, end
        <4>5. QED
          BY <3>1, <4>3, <4>4 DEF HoldsValues, KeptAt
      <3>4. QED
        BY <3>2, <3>3
    <2>5. QED
      BY <1>0, <2>3, <2>4 DEF WrittenSoFar, KeptAreFiles, HoldsValues
  <1>8. CASE Killed
    <2>1. Same /\ pc' # "writing"
      BY <1>8 DEF Killed
    <2>2. QED
      BY <1>0, <2>1 DEF KeptHolds, KeptAt, WrittenSoFar, KeptAreFiles, HoldsValues, Fills
  <1>9. CASE Crash
    <2>1. cached' = stored /\ UNCHANGED <<stored, mistaken, kept>> /\ pc' # "writing"
      BY <1>9 DEF Crash
    <2>2. QED
      BY <1>0, <2>1 DEF KeptHolds, KeptAt, WrittenSoFar, KeptAreFiles, HoldsValues, Fills
  <1>10. CASE UNCHANGED overwriteVars
    BY <1>0, <1>10 DEF overwriteVars, KeptHolds, KeptAt, WrittenSoFar, KeptAreFiles, HoldsValues, Fills
  <1>11. QED
    BY <1>1, <1>2, <1>3, <1>4, <1>5, <1>6, <1>7, <1>8, <1>9, <1>10 DEF OverwriteNext

\* Where a byte of a value is among the bytes of a call.
LEMMA ByteOfValue ==
    ASSUME NEW count \in Nat, NEW width \in Nat \ {0}, NEW v \in 0..(count - 1), NEW r \in 0..(width - 1)
    PROVE  /\ v * width + r + 1 \in 1..(count * width)
           /\ (v * width + r) \div width = v
           /\ (v * width + r) % width = r
  <1>1. (v + 1) * width <= count * width
    BY v + 1 <= count
  <1>2. v * width \in Nat /\ (v + 1) * width = v * width + width /\ count * width \in Nat
    OBVIOUS
  <1>3. v * width + r + 1 \in 1..(count * width)
    BY <1>1, <1>2
  <1>4. (v * width + r) \div width = v /\ (v * width + r) % width = r
    BY <1>2
  <1>5. QED
    BY <1>3, <1>4

LEMMA KeptIsDurable ==
    ASSUME Described, KeptInv PROVE AcknowledgedIsDurable
  <1> SUFFICES ASSUME NEW d \in DOMAIN kept, d[1] \notin mistaken,
                      NEW v \in 0..(kept[d].call.count - 1), NEW b \in 0..(kept[d].call.want.width - 1)
               PROVE  ValueByte(stored[d[1]], Image[d[1]].objects[d[2]], kept[d].call.want.width, v, b)
                        = [call |-> kept[d].number, value |-> v, byte |-> b]
    BY DEF AcknowledgedIsDurable
  <1> DEFINE o == Image[d[1]].objects[d[2]]
             put == kept[d]
             width == put.call.want.width
             r == IF o.order = "big" THEN width - 1 - b ELSE b
  <1>1. /\ d = <<d[1], d[2]>> /\ d[1] \in Inodes
        /\ Fills(d[1], d[2], put.call) /\ HoldsValues(stored[d[1]], o, put.number, put.call, o.size)
    BY DEF KeptInv, KeptAreFiles, KeptHolds, KeptAt
  <1>2. /\ put.call.count \in Nat /\ width \in Nat \ {0} /\ put.call.count * width = o.size
        /\ o.address \in Nat /\ r \in 0..(width - 1)
    <2>1. put.call \in Request /\ d[2] \in DOMAIN Image[d[1]].objects /\ put.call.count * width = o.size
      BY <1>1 DEF Fills
    <2>2. put.call.count \in Nat /\ width \in Nat \ {0} /\ o.address \in Nat
      BY <1>1, <2>1 DEF Described
    <2>3. r \in 0..(width - 1)
      <3>1. b \in 0..(width - 1)
        OBVIOUS
      <3> HIDE DEF width, o
      <3>2. QED
        BY <2>2, <3>1
    <2>4. QED
      BY <2>1, <2>2, <2>3
  <1> DEFINE i == v * width + r + 1
  <1>3. /\ i \in 1..o.size /\ i - 1 = v * width + r
        /\ (i - 1) \div width = v /\ (i - 1) % width = r
    <2> DEFINE n == put.call.count
    <2>1. n \in Nat /\ width \in Nat \ {0} /\ v \in 0..(n - 1) /\ r \in 0..(width - 1) /\ n * width = o.size
      BY <1>2
    <2> HIDE DEF n, width, r, o
    <2>2. /\ v * width + r + 1 \in 1..(n * width)
          /\ (v * width + r) \div width = v /\ (v * width + r) % width = r
      <3>1. \A c \in Nat, w \in Nat \ {0} : \A x \in 0..(c - 1), y \in 0..(w - 1) :
              /\ x * w + y + 1 \in 1..(c * w)
              /\ (x * w + y) \div w = x /\ (x * w + y) % w = y
        BY ByteOfValue
      <3>2. \A x \in 0..(n - 1), y \in 0..(width - 1) :
              /\ x * width + y + 1 \in 1..(n * width)
              /\ (x * width + y) \div width = x /\ (x * width + y) % width = y
        BY ONLY <2>1, <3>1, Zenon
      <3>3. QED
        BY ONLY <2>1, <3>2, Zenon
    <2>3. v * width + r \in Nat
      BY ONLY <2>1
    <2>4. (v * width + r + 1) - 1 = v * width + r
      BY ONLY <2>3
    <2>5. QED
      BY <2>1, <2>2, <2>4
  <1>4. stored[d[1]][o.address + (i - 1)] = Encoded(put.number, put.call, o.order)[i]
    BY <1>1, <1>3 DEF HoldsValues
  <1>5. Encoded(put.number, put.call, o.order)[i] = [call |-> put.number, value |-> v, byte |-> b]
    <2>1. Encoded(put.number, put.call, o.order)[i]
            = [call |-> put.number, value |-> v, byte |-> IF o.order = "big" THEN width - 1 - r ELSE r]
      BY <1>2, <1>3 DEF Encoded
    <2>2. (IF o.order = "big" THEN width - 1 - r ELSE r) = b
      BY <1>2
    <2>3. QED
      BY <2>1, <2>2
  <1>6. o.address + (i - 1) = o.address + v * width + r
    <2> DEFINE a == o.address
               m == v * width
    <2>1. a \in Nat /\ m \in Nat /\ r \in Nat /\ i - 1 = m + r
      <3> DEFINE n == put.call.count
      <3>1. n \in Nat /\ width \in Nat /\ v \in 0..(n - 1) /\ a \in Nat /\ r \in 0..(width - 1)
        BY <1>2
      <3>2. i - 1 = m + r
        BY <1>3
      <3> HIDE DEF n, width, a, r
      <3>3. v * width \in Nat /\ r \in Nat
        BY ONLY <3>1
      <3>4. QED
        BY <3>1, <3>2, <3>3
    <2> HIDE DEF a, m, r, i
    <2>2. a + (i - 1) = a + m + r
      BY ONLY <2>1
    <2>3. QED
      BY <2>2 DEF a, m
  <1>7. QED
    BY <1>4, <1>5, <1>6 DEF ValueByte

\* Theorem: if no two datasets share a byte, what a call has acknowledged is on the disk,
\* in the dataset's byte order, until a call writes to the same dataset (write_at).
THEOREM AcknowledgedOverwritesLast ==
    OverwriteSpec => []AcknowledgedIsDurable
  BY ImagesAreDescribed, InitKept, NextKept, KeptIsDurable, PTL DEF OverwriteSpec

-----------------------------------------------------------------------------
(* The checksum: what is needed of the prover's arithmetic. *)

LEMMA Division ==
    ASSUME NEW n \in Int, NEW d \in Nat, d > 0
    PROVE  /\ n \div d \in Int
           /\ n % d \in 0..d - 1
           /\ n = d * (n \div d) + (n % d)
  OBVIOUS

LEMMA Quotient ==
    ASSUME NEW n \in Nat, NEW d \in Nat, NEW q \in Nat, d > 0, n < d * (q + 1)
    PROVE  n \div d \in 0..q
  OBVIOUS

LEMMA Remainder ==
    ASSUME NEW q \in Int, NEW r \in Nat, NEW d \in Nat, r < d
    PROVE  (d * q + r) % d = r
  OBVIOUS

LEMMA Words == W \in Nat /\ W > 3
  BY BlockAssumption DEF W

\* What differs by a multiple of W - 1 is congruent, and the other way round.
LEMMA Multiples ==
    ASSUME NEW x \in Int, NEW y \in Int
    PROVE  Congruent(x, y) <=> \E k \in Int : x = y + (W - 1) * k
  <1>1. ASSUME Congruent(x, y) PROVE \E k \in Int : x = y + (W - 1) * k
    <2>1. x - y = (W - 1) * ((x - y) \div (W - 1)) /\ (x - y) \div (W - 1) \in Int
      BY <1>1, Division, Words DEF Congruent
    <2>2. QED
      BY <2>1, Words
  <1>2. ASSUME NEW k \in Int, x = y + (W - 1) * k PROVE Congruent(x, y)
    <2>1. W - 1 \in Nat /\ 0 < W - 1 /\ 0 \in Nat
      BY Words
    <2>2. ((W - 1) * k + 0) % (W - 1) = 0
      BY ONLY <1>2, <2>1, Remainder
    <2>3. x - y = (W - 1) * k + 0
      BY <1>2, Words
    <2>4. QED
      BY <2>2, <2>3 DEF Congruent
  <1>3. QED
    BY <1>1, <1>2

LEMMA FoldedIsCongruent ==
    ASSUME NEW x \in Nat, NEW y \in Int, Congruent(x, y)
    PROVE  Folded(x) \in Nat /\ Congruent(Folded(x), y)
  <1>1. /\ x \div W \in Nat /\ x % W \in 0..W - 1
        /\ x = W * (x \div W) + (x % W)
    BY Division, Words
  <1>2. PICK k \in Int : x = y + (W - 1) * k
    BY Multiples
  <1>3. Folded(x) = y + (W - 1) * (k - (x \div W))
    BY <1>1, <1>2, Words DEF Folded
  <1>4. QED
    BY <1>1, <1>3, Multiples DEF Folded

LEMMA SumsAreCongruent ==
    ASSUME NEW x \in Nat, NEW y \in Nat, NEW a \in Int, NEW b \in Int,
           Congruent(x, a), Congruent(y, b), x + y < W * W
    PROVE  /\ Plus(x, y) = x + y
           /\ Congruent(x + y, (a + b) % (W - 1))
           /\ (a + b) % (W - 1) \in Nat
  <1>1. Plus(x, y) = x + y
    <2>1. W * W \in Nat /\ 0 \in Int /\ x + y \in Nat /\ x + y = (W * W) * 0 + (x + y)
      BY Words
    <2>2. ((W * W) * 0 + (x + y)) % (W * W) = x + y
      BY ONLY <2>1, x + y < W * W, Remainder
    <2>3. QED
      BY <2>1, <2>2 DEF Plus
  <1>2. PICK k \in Int, l \in Int : x = a + (W - 1) * k /\ y = b + (W - 1) * l
    BY Multiples
  <1>3. /\ a + b = (W - 1) * ((a + b) \div (W - 1)) + ((a + b) % (W - 1))
        /\ (a + b) \div (W - 1) \in Int /\ (a + b) % (W - 1) \in Nat
    <2> DEFINE c == a + b
               e == W - 1
    <2>1. e \in Nat /\ e > 0 /\ c \in Int
      BY Words
    <2> HIDE DEF c, e
    <2>2. c \div e \in Int /\ c % e \in 0..e - 1 /\ c = e * (c \div e) + (c % e)
      BY ONLY <2>1, Division
    <2>3. c % e \in Nat
      BY <2>1, <2>2
    <2>4. QED
      BY <2>2, <2>3 DEF c, e
  <1> DEFINE r == (a + b) % (W - 1)
             q == (a + b) \div (W - 1)
  <1> HIDE DEF r, q
  <1>4. x + y = r + (W - 1) * (k + l + q)
    <2>1. x + y = (a + b) + (W - 1) * (k + l)
      BY <1>2, Words
    <2>2. a + b = (W - 1) * q + r /\ q \in Int /\ r \in Nat
      BY <1>3 DEF r, q
    <2>3. QED
      BY <2>1, <2>2, Words
  <1>5. Congruent(x + y, r)
    <2>1. k + l + q \in Int /\ r \in Int
      BY <1>3 DEF q, r
    <2>2. QED
      BY <1>4, <2>1, Multiples
  <1>6. QED
    BY <1>1, <1>3, <1>5 DEF r

-----------------------------------------------------------------------------
(* How large the sums grow in a block: after the n-th word *)

Bound1(n) == W + Block + n * (W - 1)
Twice2(n) == 2 * (2 * W - 2) + 2 * n * (W + Block) + (W - 1) * n * (n + 1)

\* ... and outside one.
SumsFit ==
    /\ added \in 0..Block - 1
    /\ step \in {"words", "tail", "last", "done"}
    /\ sum1 \in 0..Bound1(added)
    /\ sum2 \in Nat /\ 2 * sum2 <= Twice2(added)
    /\ step # "words" => added = 0
    /\ step = "done" => sum1 < W /\ sum2 < W

SumsAgree ==
    /\ plain1 \in Nat /\ plain2 \in Nat
    /\ Congruent(sum1, plain1)
    /\ Congruent(sum2, plain2)

SumInv == SumsFit /\ SumsAgree

LEMMA BlocksFit ==
    ASSUME NEW n \in 0..Block
    PROVE  Bound1(n) < W * W /\ Twice2(n) < 2 * (W * W)
  <1>1. Block - n \in Nat /\ n \in Nat /\ Block \in Nat
    BY BlockAssumption
  <1>2. n * (W + Block) <= Block * (W + Block)
    BY <1>1, Words
  <1>3. (W - 1) * n * (n + 1) <= (W - 1) * Block * (Block + 1)
    <2>1. n * (n + 1) <= Block * (Block + 1)
      BY <1>1
    <2>2. (W - 1) * (n * (n + 1)) <= (W - 1) * (Block * (Block + 1))
      BY <1>1, <2>1, Words
    <2>3. QED
      BY <1>1, <2>2, Words
  <1>4. Twice2(n) < 2 * (W * W)
    BY <1>1, <1>2, <1>3, BlockAssumption, Words DEF Twice2
  <1>5. Bound1(n) < W * W
    <2>1. Block >= 1 /\ (W - 1) * Block * (Block + 1) >= 2 * (W - 1) * Block
      BY BlockAssumption, Words
    <2>2. n * (W - 1) <= Block * (W - 1)
      BY <1>1, Words
    <2>3. QED
      BY <1>1, <2>1, <2>2, BlockAssumption, Words DEF Bound1
  <1>6. QED
    BY <1>4, <1>5

LEMMA BlocksAreShort == Block <= W - 2
  <1> SUFFICES ASSUME Block >= W - 1 PROVE FALSE
    BY BlockAssumption, Words
  <1>1. Block * (Block + 1) >= (W - 1) * W
    BY BlockAssumption, Words
  <1>2. (W - 1) * (Block * (Block + 1)) >= (W - 1) * ((W - 1) * W)
    BY <1>1, BlockAssumption, Words
  <1>3. (W - 1) * (W - 1) >= 2 * W
    BY Words
  <1>4. (W - 1) * ((W - 1) * W) >= 2 * W * W
    BY <1>3, Words
  <1>5. 2 * (2 * W - 2) + 2 * Block * (W + Block) >= 0
    BY BlockAssumption, Words
  <1>6. QED
    BY <1>2, <1>4, <1>5, BlockAssumption, Words

LEMMA NextBound ==
    ASSUME NEW n \in 0..Block - 1
    PROVE  /\ Bound1(n) \in Nat /\ Twice2(n) \in Nat
           /\ Bound1(n + 1) = Bound1(n) + (W - 1)
           /\ Twice2(n + 1) = Twice2(n) + 2 * Bound1(n + 1)
  BY BlockAssumption, Words DEF Bound1, Twice2

LEMMA FoldedFits ==
    ASSUME NEW x \in Nat, x < W * W
    PROVE  /\ Folded(x) \in 0..2 * W - 2
           /\ x <= Bound1(Block) => Folded(x) <= W + Block
           /\ x <= 2 * W - 2 => Folded(x) < W
  <1>1. x \div W \in Nat /\ x % W \in 0..W - 1 /\ x = W * (x \div W) + (x % W)
    BY Division, Quotient, Words
  <1>2. QED
    BY <1>1, Quotient, Words, BlockAssumption DEF Folded, Bound1

LEMMA WordCounts ==
    ASSUME SumInv, step \in {"words", "tail"}, NEW word \in 0..W - 1, Count(word)
    PROVE  LET s1 == Plus(sum1, word)
               s2 == Plus(sum2, s1)
           IN  /\ s1 = sum1 + word /\ s2 = sum2 + s1
               /\ s1 \in 0..Bound1(added + 1) /\ s2 \in Nat
               /\ s1 < W * W /\ s2 < W * W
               /\ 2 * s2 <= Twice2(added + 1)
               /\ plain1' \in Nat /\ Congruent(s1, plain1')
               /\ plain2' \in Nat /\ Congruent(s2, plain2')
  <1>1. /\ added \in 0..Block - 1 /\ added + 1 \in 0..Block
        /\ Bound1(added + 1) < W * W /\ Twice2(added + 1) < 2 * (W * W)
        /\ Bound1(added) \in Nat /\ Twice2(added) \in Nat
        /\ Bound1(added + 1) = Bound1(added) + (W - 1)
        /\ Twice2(added + 1) = Twice2(added) + 2 * Bound1(added + 1)
    BY NextBound, BlocksFit, BlockAssumption DEF SumInv, SumsFit
  <1>2. /\ sum1 \in Nat /\ sum2 \in Nat /\ word \in Nat
        /\ plain1 \in Nat /\ plain2 \in Nat /\ W * W \in Nat
        /\ sum1 + word \in 0..Bound1(added + 1)
        /\ 2 * (sum2 + (sum1 + word)) <= Twice2(added + 1)
    BY <1>1, Words DEF SumInv, SumsFit, SumsAgree
  <1>3. Congruent(word, word)
    <2>1. W - 1 \in Nat /\ 0 < W - 1 /\ 0 \in Nat /\ 0 \in Int
      BY Words
    <2>2. ((W - 1) * 0 + 0) % (W - 1) = 0
      BY ONLY <2>1, Remainder
    <2>3. word - word = (W - 1) * 0 + 0
      BY <1>2, Words
    <2>4. QED
      BY <2>2, <2>3 DEF Congruent
  <1>4. sum1 + word < W * W /\ sum2 + (sum1 + word) < W * W
    <2> DEFINE V == W * W
               b1 == Bound1(added + 1)
               b2 == Twice2(added + 1)
    <2>1. /\ V \in Nat /\ b1 \in Nat /\ b2 \in Nat /\ b1 < V /\ b2 < 2 * V
          /\ sum1 + word <= b1 /\ 2 * (sum2 + (sum1 + word)) <= b2
          /\ sum1 + word \in Nat /\ sum2 \in Nat
      BY <1>1, <1>2, Words
    <2> HIDE DEF V, b1, b2
    <2>2. sum1 + word < V /\ sum2 + (sum1 + word) < V
      BY ONLY <2>1
    <2>3. QED
      BY <2>2 DEF V
  <1>5. /\ Plus(sum1, word) = sum1 + word
        /\ Congruent(sum1 + word, plain1') /\ plain1' \in Nat
    BY <1>2, <1>3, <1>4, SumsAreCongruent DEF SumInv, SumsAgree, Count
  <1>6. /\ Plus(sum2, sum1 + word) = sum2 + (sum1 + word)
        /\ Congruent(sum2 + (sum1 + word), plain2') /\ plain2' \in Nat
    <2>1. sum1 + word \in Nat /\ plain1 + word \in Int
      BY <1>2
    <2>2. Congruent(sum1 + word, plain1 + word)
      <3>1. PICK k \in Int : sum1 = plain1 + (W - 1) * k
        BY <1>2, Multiples DEF SumInv, SumsAgree
      <3>2. sum1 + word = (plain1 + word) + (W - 1) * k
        BY <1>2, <3>1, Words
      <3>3. QED
        BY <1>2, <2>1, <3>2, Multiples
    <2>3. /\ Plus(sum2, sum1 + word) = sum2 + (sum1 + word)
          /\ Congruent(sum2 + (sum1 + word), (plain2 + (plain1 + word)) % (W - 1))
          /\ (plain2 + (plain1 + word)) % (W - 1) \in Nat
      BY <1>2, <1>4, <2>1, <2>2, SumsAreCongruent DEF SumInv, SumsAgree
    <2>4. plain2 + plain1 + word = plain2 + (plain1 + word)
      BY <1>2
    <2>5. QED
      BY <2>3, <2>4 DEF Count
  <1>7. QED
    BY <1>1, <1>2, <1>4, <1>5, <1>6

LEMMA SumInvInit == SumInit => SumInv
  <1>1. Congruent(0, 0)
    <2>1. W - 1 \in Nat /\ 0 < W - 1 /\ 0 \in Nat /\ 0 \in Int
      BY Words
    <2>2. ((W - 1) * 0 + 0) % (W - 1) = 0
      BY ONLY <2>1, Remainder
    <2>3. (W - 1) * 0 + 0 = 0 - 0
      BY Words
    <2>4. QED
      BY <2>2, <2>3 DEF Congruent
  <1>2. 0 \in 0..Bound1(0) /\ 2 * 0 <= Twice2(0)
    BY Words, BlockAssumption DEF Bound1, Twice2
  <1>3. QED
    BY <1>1, <1>2, BlockAssumption DEF SumInit, SumInv, SumsFit, SumsAgree

\* What a fold leaves is within what a block starts from.
LEMMA FoldedStarts ==
    ASSUME NEW x \in Nat, NEW y \in Nat, x <= Bound1(Block), y < W * W
    PROVE  Folded(x) \in 0..Bound1(0) /\ Folded(y) \in Nat /\ 2 * Folded(y) <= Twice2(0)
  <1>1. x < W * W
    BY BlocksFit, BlockAssumption, Words DEF Bound1
  <1>2. Folded(x) \in 0..2 * W - 2 /\ Folded(x) <= W + Block /\ Folded(y) \in 0..2 * W - 2
    BY <1>1, FoldedFits
  <1>3. QED
    BY <1>2, Words, BlockAssumption DEF Bound1, Twice2

LEMMA SumInvNext == SumInv /\ [SumNext]_sumVars => SumInv'
  <1> SUFFICES ASSUME SumInv, [SumNext]_sumVars PROVE SumInv'
    OBVIOUS
  <1>1. ASSUME NEW word \in 0..W - 1, AddWord(word) PROVE SumInv'
    <2> DEFINE s1 == Plus(sum1, word)
               s2 == Plus(sum2, s1)
    <2>1. /\ s1 \in 0..Bound1(added + 1) /\ s2 \in Nat /\ s1 < W * W /\ s2 < W * W
          /\ 2 * s2 <= Twice2(added + 1)
          /\ plain1' \in Nat /\ Congruent(s1, plain1')
          /\ plain2' \in Nat /\ Congruent(s2, plain2')
          /\ step = "words" /\ step' = "words" /\ added \in 0..Block - 1
      BY <1>1, WordCounts DEF AddWord, SumInv, SumsFit
    <2>2. CASE added + 1 = Block
      <3>1. added' = 0 /\ sum1' = Folded(s1) /\ sum2' = Folded(s2)
        BY <1>1, <2>2 DEF AddWord
      <3> HIDE DEF s1, s2
      <3>2. s1 \in Nat /\ s1 <= Bound1(Block)
        BY <2>1, <2>2, BlockAssumption
      <3>3. /\ Folded(s1) \in 0..Bound1(0)
            /\ Folded(s2) \in Nat /\ 2 * Folded(s2) <= Twice2(0)
        BY <2>1, <3>2, FoldedStarts
      <3>4. Congruent(Folded(s1), plain1') /\ Congruent(Folded(s2), plain2')
        BY <2>1, <3>2, FoldedIsCongruent
      <3>5. QED
        BY <2>1, <3>1, <3>3, <3>4, BlockAssumption DEF SumInv, SumsFit, SumsAgree, Congruent
    <2>3. CASE added + 1 # Block
      <3>1. added' = added + 1 /\ sum1' = s1 /\ sum2' = s2
        BY <1>1, <2>3 DEF AddWord
      <3> HIDE DEF s1, s2
      <3>2. added' \in 0..Block - 1
        BY <2>1, <2>3, <3>1, BlockAssumption
      <3>3. QED
        BY <2>1, <3>1, <3>2 DEF SumInv, SumsFit, SumsAgree, Congruent
    <2>4. QED
      BY <2>2, <2>3
  <1>2. CASE EndWords
    <2>1. /\ sum1 \in Nat /\ sum1 <= Bound1(added) /\ sum2 \in Nat /\ sum2 < W * W
          /\ Bound1(added) <= Bound1(Block) /\ step' = "tail" /\ added' = 0
      <3>1. added \in 0..Block /\ Twice2(added) < 2 * (W * W) /\ 2 * sum2 <= Twice2(added)
        BY BlocksFit, BlockAssumption DEF SumInv, SumsFit
      <3>2. added * (W - 1) <= Block * (W - 1)
        BY <3>1, BlockAssumption, Words
      <3>3. W * W \in Nat /\ Twice2(added) \in Nat
        BY <3>1, NextBound, Words DEF SumInv, SumsFit
      <3>4. sum2 < W * W
        <4> DEFINE V == W * W
        <4>1. V \in Nat /\ Twice2(added) < 2 * V /\ sum2 \in Nat
          BY <3>1, <3>3 DEF SumInv, SumsFit
        <4> HIDE DEF V
        <4>2. sum2 < V
          BY <3>1, <3>3, <4>1
        <4>3. QED
          BY <4>2 DEF V
      <3>5. QED
        BY <1>2, <3>1, <3>2, <3>4, BlockAssumption, Words
        DEF SumInv, SumsFit, Bound1, EndWords
    <2>2. CASE added > 0
      <3>1. sum1' = Folded(sum1) /\ sum2' = Folded(sum2)
            /\ plain1' = plain1 /\ plain2' = plain2
        BY <1>2, <2>2 DEF EndWords
      <3>2. /\ Folded(sum1) \in 0..Bound1(0)
            /\ Folded(sum2) \in Nat /\ 2 * Folded(sum2) <= Twice2(0)
        <4>1. sum1 <= Bound1(Block)
          BY <2>1, BlockAssumption, Words DEF Bound1, SumInv, SumsFit
        <4>2. QED
          BY <2>1, <4>1, FoldedStarts
      <3>3. Congruent(Folded(sum1), plain1) /\ Congruent(Folded(sum2), plain2)
        BY <2>1, FoldedIsCongruent DEF SumInv, SumsAgree
      <3>4. QED
        BY <2>1, <3>1, <3>2, <3>3, BlockAssumption DEF SumInv, SumsFit, SumsAgree, Congruent
    <2>3. CASE ~ added > 0
      <3>1. /\ added = 0 /\ UNCHANGED <<sum1, sum2, plain1, plain2>>
        BY <1>2, <2>3 DEF EndWords, SumInv, SumsFit
      <3>2. QED
        BY <2>1, <3>1 DEF SumInv, SumsFit, SumsAgree, Congruent
    <2>4. QED
      BY <2>2, <2>3
  <1>3. ASSUME NEW byte \in 0..Base - 1, OddByte(byte) PROVE SumInv'
    <2> DEFINE s1 == Plus(sum1, byte * Base)
               s2 == Plus(sum2, s1)
    <2>1. byte * Base \in 0..W - 1
      <3>1. byte \in Nat /\ Base \in Nat /\ byte <= Base - 1
        BY BlockAssumption
      <3>2. byte * Base <= (Base - 1) * Base
        BY <3>1
      <3>3. QED
        BY <3>1, <3>2, BlockAssumption DEF W
    <2>2. /\ step = "tail" /\ step' = "last" /\ added = 0 /\ added' = 0
          /\ sum1' = Folded(s1) /\ sum2' = Folded(s2)
      BY <1>3 DEF OddByte, SumInv, SumsFit
    <2>3. /\ s1 \in 0..Bound1(1) /\ s2 \in Nat /\ s1 < W * W /\ s2 < W * W
          /\ plain1' \in Nat /\ Congruent(s1, plain1')
          /\ plain2' \in Nat /\ Congruent(s2, plain2')
      <3>1. added + 1 = 1
        BY <2>2
      <3>2. QED
        BY <1>3, <2>1, <2>2, <3>1, WordCounts DEF OddByte
    <2> HIDE DEF s1, s2
    <2>4. s1 \in Nat /\ s1 <= Bound1(Block)
      <3>1. 1 * (W - 1) <= Block * (W - 1)
        BY Words, BlockAssumption
      <3>2. QED
        BY <2>3, <3>1, Words, BlockAssumption DEF Bound1
    <2>5. /\ Folded(s1) \in 0..Bound1(0)
          /\ Folded(s2) \in Nat /\ 2 * Folded(s2) <= Twice2(0)
      BY <2>3, <2>4, FoldedStarts
    <2>6. Congruent(Folded(s1), plain1') /\ Congruent(Folded(s2), plain2')
      BY <2>3, <2>4, FoldedIsCongruent
    <2>7. QED
      BY <2>2, <2>3, <2>5, <2>6, BlockAssumption DEF SumInv, SumsFit, SumsAgree, Congruent
  <1>4. CASE EndSums
    <2>1. /\ step # "words" /\ step' = "done" /\ added = 0 /\ added' = 0
          /\ sum1' = Folded(sum1) /\ sum2' = Folded(sum2)
          /\ plain1' = plain1 /\ plain2' = plain2
      BY <1>4 DEF EndSums, SumInv, SumsFit
    <2>2. sum1 \in Nat /\ sum1 <= 2 * W - 2 /\ sum2 \in Nat /\ sum2 <= 2 * W - 2
      <3>1. sum1 \in 0..Bound1(0) /\ sum2 \in Nat /\ 2 * sum2 <= Twice2(0)
        BY <2>1 DEF SumInv, SumsFit
      <3>2. QED
        BY <3>1, BlocksAreShort, BlockAssumption, Words DEF Bound1, Twice2
    <2>3. sum1 < W * W /\ sum2 < W * W
      <3>1. 2 * W - 2 < W * W
        BY Words
      <3>2. QED
        BY <2>2, <3>1, Words
    <2>4. Folded(sum1) \in 0..W - 1 /\ Folded(sum2) \in 0..W - 1
      BY <2>2, <2>3, FoldedFits, Words
    <2>5. Congruent(Folded(sum1), plain1) /\ Congruent(Folded(sum2), plain2)
      BY <2>2, FoldedIsCongruent DEF SumInv, SumsAgree
    <2>6. W - 1 <= Bound1(0) /\ 2 * (W - 1) <= Twice2(0)
      BY Words, BlockAssumption DEF Bound1, Twice2
    <2>7. SumsAgree'
      BY <2>1, <2>5 DEF SumInv, SumsAgree, Congruent
    <2>8. SumsFit'
      <3>1. sum1' \in 0..Bound1(0) /\ sum1' < W
        BY <2>1, <2>4, <2>6, NextBound, BlockAssumption, Words
      <3>2. sum2' \in Nat /\ 2 * sum2' <= Twice2(0) /\ sum2' < W
        BY <2>1, <2>4, <2>6, NextBound, BlockAssumption, Words
      <3>3. QED
        BY <2>1, <3>1, <3>2, BlockAssumption DEF SumsFit
    <2>9. QED
      BY <2>7, <2>8 DEF SumInv
  <1>5. CASE UNCHANGED sumVars
    BY <1>5 DEF sumVars, SumInv, SumsFit, SumsAgree, Congruent
  <1>6. QED
    BY <1>1, <1>2, <1>3, <1>4, <1>5 DEF SumNext

\* Theorem: whatever the length of the data, the checksum is the one Fletcher
\* defines and no sum is lost to a carry, for every width of a byte and every
\* block that is short enough (fletcher32_compute).
THEOREM ChecksumCorrect == SumSpec => []ChecksumIsFletchers
  <1>1. SumInv => ChecksumIsFletchers
    BY DEF SumInv, SumsFit, SumsAgree, ChecksumIsFletchers
  <1>2. QED
    BY SumInvInit, SumInvNext, <1>1, PTL DEF SumSpec
===============================================================================
