---------------------------- MODULE StructureProofs ----------------------------
(***************************************************************************)
(* Proofs about the structures of a file that index and hold data.         *)
(*                                                                         *)
(* The symbol table of a group, for every group and every size of its      *)
(* nodes: it is exactly what was planned, libhdf5's search finds a name    *)
(* exactly if it is a member's, and oxih5 lists the members by name.       *)
(*                                                                         *)
(* The global heap, for any lengths and any number of values, any          *)
(* alignment and any caps: every value is where its location says, no      *)
(* collection outgrows the caps or the size it declares, and a reader that *)
(* walks a collection finds the value it came for.  The first invariant    *)
(* is of the packing alone; the second adds what a collection serializes   *)
(* to, a sum over its objects, and where in that sum a reader stands.      *)
(***************************************************************************)
EXTENDS GroupIndex, GlobalHeap, GeometryProofs

Link == [name: Name, soft: BOOLEAN]

IsGroup(links) ==
    /\ links \in Seq(Link)
    /\ \A i, j \in DOMAIN links : links[i].name = links[j].name => i = j

LEMMA NamesAreNumbers == Name \subseteq Nat \ {0}
BY GroupAssumption

LEMMA MembersAreGroups ==
    ASSUME NEW links \in MemberList
    PROVE  IsGroup(links)
BY GroupAssumption DEF IsGroup, Link

-----------------------------------------------------------------------------
(* The order of the links *)

\* Ranks are in the order of the names.
LEMMA RanksAre ==
    ASSUME NEW links, IsGroup(links)
    PROVE  \A i, j \in 1..Len(links) :
               /\ Rank(links, i) \in 1..Len(links)
               /\ links[i].name <= links[j].name => Rank(links, i) <= Rank(links, j)
               /\ Rank(links, i) = Rank(links, j) => i = j
<1> DEFINE n == Len(links)
           Upto(i) == {j \in DOMAIN links : links[j].name <= links[i].name}
<1>1. /\ n \in Nat /\ DOMAIN links = 1..n
      /\ \A i \in 1..n : links[i].name \in Nat
  <2>1. n \in Nat /\ DOMAIN links = 1..n /\ \A i \in 1..n : links[i] \in Link
    BY DEF IsGroup
  <2>2. ASSUME NEW link \in Link PROVE link.name \in Nat
    BY NamesAreNumbers DEF Link
  <2> QED
    BY <2>1, <2>2
<1>2. IsFiniteSet(1..n) /\ Cardinality(1..n) = n
  <2> HIDE DEF n
  <2> QED
    BY <1>1, FS_Interval
<1>3. ASSUME NEW i \in 1..n
      PROVE /\ IsFiniteSet(Upto(i)) /\ Cardinality(Upto(i)) \in Nat
            /\ i \in Upto(i) /\ Upto(i) \subseteq 1..n
            /\ Cardinality(Upto(i)) \in 1..n
  <2>1. Upto(i) \in SUBSET (1..n) /\ i \in Upto(i)
    BY <1>1
  <2> DEFINE u == Upto(i)
  <2>2. u \in SUBSET (1..n) /\ i \in u
    BY <2>1
  <2> HIDE DEF u
  <2>3. IsFiniteSet(u) /\ Cardinality(u) <= n
    BY <1>2, <2>2, FS_Subset
  <2>4. Cardinality(u) \in Nat /\ Cardinality(u) # 0
    BY <2>2, <2>3, FS_CardinalityType, FS_EmptySet
  <2> QED
    BY <1>1, <2>1, <2>3, <2>4 DEF u
<1>4. ASSUME NEW i \in 1..n, NEW j \in 1..n, links[i].name <= links[j].name
      PROVE  /\ Cardinality(Upto(i)) <= Cardinality(Upto(j))
             /\ Cardinality(Upto(i)) = Cardinality(Upto(j)) => i = j
  <2> DEFINE u == Upto(i)
             v == Upto(j)
  <2>1. u \in SUBSET v
    BY <1>1, <1>4
  <2>2. IsFiniteSet(v) /\ i \in 1..n /\ j \in v
    BY <1>3
  <2>3. j \in u => i = j
    <3>1. j \in u => links[j].name = links[i].name
      BY <1>1, <1>4
    <3> QED
      BY <1>1, <3>1 DEF IsGroup
  <2> HIDE DEF u, v
  <2>4. Cardinality(u) <= Cardinality(v) /\ (Cardinality(v) = Cardinality(u) => v = u)
    BY <2>1, <2>2, FS_Subset
  <2>5. Cardinality(u) <= Cardinality(v) /\ (Cardinality(u) = Cardinality(v) => i = j)
    BY <2>2, <2>3, <2>4
  <2> QED
    BY <2>5 DEF u, v
<1>5. \A i \in 1..n : Rank(links, i) = Cardinality(Upto(i))
  BY DEF Rank
<1> HIDE DEF n, Upto
<1>6. ASSUME NEW i \in 1..n, NEW j \in 1..n
      PROVE  /\ Rank(links, i) \in 1..n
             /\ links[i].name <= links[j].name => Rank(links, i) <= Rank(links, j)
             /\ Rank(links, i) = Rank(links, j) => i = j
  <2>1. links[i].name <= links[j].name \/ links[j].name <= links[i].name
    BY <1>1
  <2> QED
    BY <1>3, <1>4, <1>5, <2>1
<1> QED
  BY <1>6 DEF n

\* Sorting keeps every link and puts them in the order of their names.
LEMMA SortedAre ==
    ASSUME NEW links, IsGroup(links)
    PROVE  /\ SortedLinks(links) \in Seq(Link) /\ Len(SortedLinks(links)) = Len(links)
           /\ \A i, j \in 1..Len(links) :
                  i < j => SortedLinks(links)[i].name < SortedLinks(links)[j].name
           /\ \A i \in 1..Len(links) : \E r \in 1..Len(links) : SortedLinks(links)[r] = links[i]
           /\ \A r \in 1..Len(links) : \E i \in 1..Len(links) : SortedLinks(links)[r] = links[i]
<1> DEFINE n == Len(links)
           rank == [i \in 1..n |-> Rank(links, i)]
           at == [r \in 1..n |-> CHOOSE i \in DOMAIN links : Rank(links, i) = r]
           sorted == SortedLinks(links)
<1>1. n \in Nat /\ DOMAIN links = 1..n /\ \A i \in 1..n : links[i] \in Link
  BY DEF IsGroup
<1>2. \A i, j \in 1..n :
          /\ Rank(links, i) \in 1..n
          /\ links[i].name <= links[j].name => Rank(links, i) <= Rank(links, j)
          /\ Rank(links, i) = Rank(links, j) => i = j
  BY RanksAre
<1> HIDE DEF n
<1>3. rank \in Surjection(1..n, 1..n)
  <2>1. rank \in Injection(1..n, 1..n)
    BY <1>2 DEF Injection, IsInjective
  <2>2. IsFiniteSet(1..n)
    BY <1>1, FS_Interval
  <2> HIDE DEF rank
  <2> QED
    BY <2>1, <2>2, FS_Injection
<1>4. ASSUME NEW r \in 1..n PROVE at[r] \in 1..n /\ Rank(links, at[r]) = r
  <2>1. \E i \in 1..n : rank[i] = r
    BY <1>3 DEF Surjection
  <2>2. \E i \in DOMAIN links : Rank(links, i) = r
    BY <1>1, <2>1
  <2> QED
    BY <1>1, <2>2
<1>5. ASSUME NEW i \in 1..n PROVE at[Rank(links, i)] = i
  <2>1. Rank(links, i) \in 1..n
    BY <1>2
  <2>2. at[Rank(links, i)] \in 1..n /\ Rank(links, at[Rank(links, i)]) = Rank(links, i)
    BY <1>4, <2>1
  <2> HIDE DEF at
  <2> QED
    BY <1>2, <2>2
<1>6. sorted = [r \in 1..n |-> links[at[r]]]
  BY <1>1 DEF SortedLinks
<1> HIDE DEF at, rank
<1>7. \A r \in 1..n : sorted[r] = links[at[r]]
  BY <1>6
<1>8. sorted \in Seq(Link) /\ Len(sorted) = n
  <2>1. sorted \in [1..n -> Link]
    BY <1>1, <1>4, <1>6
  <2> HIDE DEF sorted
  <2> QED
    BY <1>1, <2>1
<1>9. ASSUME NEW i \in 1..n, NEW j \in 1..n, i < j PROVE sorted[i].name < sorted[j].name
  <2> DEFINE a == links[at[i]].name
             b == links[at[j]].name
  <2>1. at[i] \in 1..n /\ at[j] \in 1..n /\ Rank(links, at[i]) = i /\ Rank(links, at[j]) = j
    BY <1>4
  <2>2. a \in Nat /\ b \in Nat
    BY <1>1, <2>1, NamesAreNumbers DEF Link
  <2>3. b <= a => j <= i
    BY <1>2, <2>1
  <2> HIDE DEF a, b
  <2>4. a < b
    BY <1>1, <1>9, <2>2, <2>3
  <2> QED
    BY <1>7, <2>4 DEF a, b
<1>10. ASSUME NEW i \in 1..n PROVE \E r \in 1..n : sorted[r] = links[i]
  <2>1. Rank(links, i) \in 1..n /\ at[Rank(links, i)] = i
    BY <1>2, <1>5
  <2>2. sorted[Rank(links, i)] = links[i]
    BY <1>7, <2>1
  <2> QED
    BY <2>1, <2>2
<1>11. ASSUME NEW r \in 1..n PROVE \E i \in 1..n : sorted[r] = links[i]
  BY <1>4, <1>7
<1> HIDE DEF sorted
<1>12. /\ sorted \in Seq(Link) /\ Len(sorted) = n
       /\ \A i, j \in 1..n : i < j => sorted[i].name < sorted[j].name
       /\ \A i \in 1..n : \E r \in 1..n : sorted[r] = links[i]
       /\ \A r \in 1..n : \E i \in 1..n : sorted[r] = links[i]
  BY <1>8, <1>9, <1>10, <1>11
<1> QED
  BY <1>12 DEF sorted, n
-----------------------------------------------------------------------------
(* The heap *)

LEMMA LinkIs ==
    ASSUME NEW link \in Link
    PROVE  /\ link.name \in Nat \ {0} /\ SoftValue(link) \in Int
           /\ Interned(link) \in Seq(Int)
           /\ Interned(link)[1] = link.name
           /\ Len(Interned(link)) \in {1, 2}
           /\ link.soft => Len(Interned(link)) = 2 /\ Interned(link)[2] = SoftValue(link)
<1>1. link.name \in Nat \ {0}
  <2>1. link.name \in Name
    BY DEF Link
  <2> QED
    BY <2>1, NamesAreNumbers
<1>2. SoftValue(link) \in Int
  BY <1>1 DEF SoftValue
<1>3. CASE link.soft
  <2> DEFINE a == link.name
             b == SoftValue(link)
  <2>1. Interned(link) = <<a, b>>
    BY <1>3 DEF Interned
  <2>2. a \in Int /\ b \in Int
    BY <1>1, <1>2
  <2> HIDE DEF a, b
  <2>3. <<a, b>> \in Seq(Int) /\ Len(<<a, b>>) = 2 /\ <<a, b>>[1] = a /\ <<a, b>>[2] = b
    BY <2>2
  <2> QED
    BY <1>1, <1>2, <2>1, <2>3 DEF a, b
<1>4. CASE ~link.soft
  <2> DEFINE a == link.name
  <2>1. Interned(link) = <<a>>
    BY <1>4 DEF Interned
  <2>2. a \in Int
    BY <1>1
  <2> HIDE DEF a
  <2>3. <<a>> \in Seq(Int) /\ Len(<<a>>) = 1 /\ <<a>>[1] = a
    BY <2>2
  <2> QED
    BY <1>1, <1>2, <1>4, <2>1, <2>3 DEF a
<1> QED
  BY <1>3, <1>4

LEMMA HeapAfterIs ==
    ASSUME NEW links \in Seq(Link)
    PROVE  /\ HeapAfter(links) \in [0..Len(links) -> Seq(Int)]
           /\ HeapAfter(links)[0] = <<NoText>>
           /\ \A i \in 1..Len(links) :
                  HeapAfter(links)[i] = HeapAfter(links)[i - 1] \o Interned(links[i])
<1> DEFINE n == Len(links)
           X == Seq(Int)
           first == <<NoText>>
           step == [i \in 1..n |-> [x \in X |-> x \o Interned(links[i])]]
           Is(f) == f = [i \in 0..n |-> IF i = 0 THEN first ELSE f[i - 1] \o Interned(links[i])]
           g == CHOOSE f : Is(f)
<1>1. n \in Nat /\ first \in X
  BY DEF NoText
<1>2. \A i \in 1..n : Interned(links[i]) \in X
  <2>1. \A i \in 1..n : links[i] \in Link
    OBVIOUS
  <2> QED
    BY <2>1, LinkIs
<1> HIDE DEF first
<1>3. step \in [1..n -> [X -> X]]
  <2>1. \A i \in 1..n : \A x \in X : x \o Interned(links[i]) \in X
    BY <1>2
  <2> HIDE DEF X
  <2> QED
    BY <2>1
<1>4. PICK f \in [0..n -> X] : Iterates(f, first, step, n)
  <2> HIDE DEF step, X, n
  <2> QED
    BY <1>1, <1>3, IteratesExist
<1> HIDE DEF X
<1>5. Is(f)
  <2>1. ASSUME NEW i \in 0..n
        PROVE  (IF i = 0 THEN first ELSE step[i][f[i - 1]])
                    = IF i = 0 THEN first ELSE f[i - 1] \o Interned(links[i])
    <3>1. i # 0 => i \in 1..n /\ i - 1 \in 0..n
      BY <1>1
    <3>2. i # 0 => f[i - 1] \in X
      BY <1>4, <3>1
    <3> QED
      BY <3>1, <3>2
  <2> HIDE DEF step
  <2> QED
    BY <1>4, <2>1 DEF Iterates
<1>6. Is(g)
  BY <1>5
<1>7. HeapAfter(links) = g
  BY DEF HeapAfter, first
<1> HIDE DEF g, step
<1>8. g = [i \in 0..n |-> IF i = 0 THEN first ELSE g[i - 1] \o Interned(links[i])]
  BY <1>6
<1>9. g[0] = first /\ \A i \in 1..n : g[i] = g[i - 1] \o Interned(links[i])
  <2>1. 0 \in 0..n /\ \A i \in 1..n : i \in 0..n /\ i # 0
    BY <1>1
  <2> QED
    BY <1>8, <2>1
<1>10. ASSUME NEW l \in 0..n, g[l] \notin X PROVE FALSE
  <2> DEFINE Wrong == {i \in 0..n : g[i] \notin X}
  <2>1. PICK i \in Wrong : \A k \in Wrong : i <= k
    <3>1. Wrong \subseteq Nat /\ Wrong # {}
      BY <1>10
    <3> HIDE DEF Wrong
    <3> QED
      BY <3>1, LeastNumber
  <2>2. i # 0
    BY <1>1, <1>9, <2>1
  <2>3. i \in 1..n /\ i - 1 \in 0..n /\ ~(i <= i - 1)
    BY <1>1, <2>1, <2>2
  <2>4. i - 1 \notin Wrong
    <3> HIDE DEF Wrong
    <3> QED
      BY <2>1, <2>3
  <2>5. g[i - 1] \in X
    BY <2>3, <2>4
  <2>6. g[i - 1] \o Interned(links[i]) \in X
    BY <1>2, <2>3, <2>5 DEF X
  <2> QED
    BY <1>9, <2>1, <2>3, <2>6
<1>11. g \in [0..n -> X]
  BY <1>8, <1>10
<1> QED
  BY <1>7, <1>9, <1>11 DEF X, first

\* What is in the heap stays where it is.
LEMMA HeapKeeps ==
    ASSUME NEW links \in Seq(Link), NEW i \in 0..Len(links), NEW j \in i..Len(links)
    PROVE  /\ Len(HeapAfter(links)[i]) <= Len(HeapAfter(links)[j])
           /\ \A o \in 1..Len(HeapAfter(links)[i]) :
                  HeapAfter(links)[j][o] = HeapAfter(links)[i][o]
<1> DEFINE n == Len(links)
           h == HeapAfter(links)
           Keeps(l) == /\ Len(h[i]) <= Len(h[l])
                       /\ \A o \in 1..Len(h[i]) : h[l][o] = h[i][o]
           Wrong == {l \in i..n : ~Keeps(l)}
<1>1. /\ n \in Nat /\ h \in [0..n -> Seq(Int)]
      /\ \A l \in 1..n : h[l] = h[l - 1] \o Interned(links[l])
  <2>1. n \in Nat
    OBVIOUS
  <2> HIDE DEF n
  <2> QED
    BY <2>1, HeapAfterIs DEF n
<1> HIDE DEF h, n
<1>2. \A l \in 1..n : Interned(links[l]) \in Seq(Int)
  <2>1. \A l \in 1..n : links[l] \in Link
    BY DEF n
  <2> QED
    BY <2>1, LinkIs
<1>3. i \in 0..n /\ j \in i..n
  BY DEF n
<1>4. ASSUME Wrong # {} PROVE FALSE
  <2>1. PICK l \in Wrong : \A k \in Wrong : l <= k
    <3>1. Wrong \subseteq Nat
      BY <1>1, <1>3
    <3> HIDE DEF Wrong
    <3> QED
      BY <1>4, <3>1, LeastNumber
  <2>2. l # i
    <3>1. h[i] \in Seq(Int)
      BY <1>1, <1>3
    <3>2. Keeps(i)
      BY <3>1
    <3> QED
      BY <2>1, <3>2
  <2>3. l \in 1..n /\ l - 1 \in i..n /\ l - 1 \in 0..n /\ ~(l <= l - 1)
    BY <1>1, <1>3, <2>1, <2>2
  <2>4. l - 1 \notin Wrong
    <3> HIDE DEF Wrong
    <3> QED
      BY <2>1, <2>3
  <2>5. Keeps(l - 1)
    BY <2>3, <2>4
  <2> DEFINE a == h[l - 1]
             b == Interned(links[l])
  <2>6. a \in Seq(Int) /\ b \in Seq(Int) /\ h[l] = a \o b /\ h[i] \in Seq(Int)
    BY <1>1, <1>2, <1>3, <2>3
  <2> HIDE DEF a, b
  <2>7. Len(h[l]) = Len(a) + Len(b) /\ \A o \in 1..Len(a) : h[l][o] = a[o]
    BY <2>6, ConcatProperties
  <2>8. Len(h[i]) <= Len(a) /\ \A o \in 1..Len(h[i]) : a[o] = h[i][o]
    BY <2>5 DEF a
  <2>9. Len(a) \in Nat /\ Len(b) \in Nat /\ Len(h[i]) \in Nat
    BY <2>6
  <2>10. Keeps(l)
    BY <2>7, <2>8, <2>9
  <2> QED
    BY <2>1, <2>10
<1>5. Keeps(j)
  BY <1>3, <1>4
<1> QED
  BY <1>5 DEF h

\* Every offset an entry carries leads to its text, and offset 0 to none.
LEMMA HeapHolds ==
    ASSUME NEW links \in Seq(Link)
    PROVE  /\ LocalHeap(links)[0] = NoText
           /\ \A i \in 1..Len(links) :
                  /\ NameOffset(links, i) \in Nat \ {0}
                  /\ LocalHeap(links)[NameOffset(links, i)] = links[i].name
                  /\ links[i].soft =>
                         LocalHeap(links)[NameOffset(links, i) + 1] = SoftValue(links[i])
<1> DEFINE n == Len(links)
           h == HeapAfter(links)
           texts == h[n]
           hp == LocalHeap(links)
<1>1. /\ n \in Nat /\ h \in [0..n -> Seq(Int)] /\ h[0] = <<NoText>>
      /\ \A l \in 1..n : h[l] = h[l - 1] \o Interned(links[l])
  <2>1. n \in Nat
    OBVIOUS
  <2> HIDE DEF n, h
  <2> QED
    BY <2>1, HeapAfterIs DEF n, h
<1>2. hp = [offset \in 0..(Len(texts) - 1) |-> texts[offset + 1]]
  BY DEF LocalHeap
<1>3. \A i \in 0..n : \A j \in i..n :
          Len(h[i]) <= Len(h[j]) /\ \A o \in 1..Len(h[i]) : h[j][o] = h[i][o]
  BY HeapKeeps
<1>4. \A i \in 1..n : NameOffset(links, i) = Len(h[i - 1])
  BY DEF NameOffset
<1> HIDE DEF h, hp
\* A text at offset o - 1 of the heap after some link is there in the end.
<1>5. ASSUME NEW i \in 0..n, NEW o \in 1..Len(h[i]) PROVE hp[o - 1] = h[i][o]
  <2>1. n \in i..n /\ h[i] \in Seq(Int) /\ h[n] \in Seq(Int)
    BY <1>1
  <2>2. Len(h[i]) <= Len(texts) /\ texts[o] = h[i][o]
    BY <1>3, <2>1
  <2>3. Len(h[i]) \in Nat /\ Len(texts) \in Nat
    BY <2>1
  <2>4. o - 1 \in 0..(Len(texts) - 1) /\ o - 1 + 1 = o
    BY <2>2, <2>3
  <2> QED
    BY <1>2, <2>2, <2>4
<1>6. hp[0] = NoText
  <2>1. 0 \in 0..n /\ 1 \in 1..Len(h[0]) /\ h[0][1] = NoText /\ 1 - 1 = 0
    BY <1>1
  <2> QED
    BY <1>5, <2>1
<1>7. ASSUME NEW i \in 1..n
      PROVE  /\ Len(h[i - 1]) \in Nat \ {0}
             /\ hp[Len(h[i - 1])] = links[i].name
             /\ links[i].soft => hp[Len(h[i - 1]) + 1] = SoftValue(links[i])
  <2> DEFINE a == h[i - 1]
             b == Interned(links[i])
             z == Len(a)
  <2>1. i \in 0..n /\ i - 1 \in 0..n /\ 0 \in 0..n /\ i - 1 \in 0..n
    BY <1>1
  <2>2. a \in Seq(Int) /\ z \in Nat /\ h[i] = a \o b
    <3>1. a \in Seq(Int) /\ h[i] = a \o b
      BY <1>1, <2>1
    <3> QED
      BY <3>1
  <2>3. z # 0
    <3>1. Len(h[0]) = 1
      BY <1>1
    <3>2. Len(h[0]) <= Len(h[i - 1])
      BY <1>3, <2>1
    <3> QED
      BY <2>2, <3>1, <3>2
  <2>5. /\ b \in Seq(Int) /\ b[1] = links[i].name /\ Len(b) \in {1, 2}
        /\ links[i].soft => Len(b) = 2 /\ b[2] = SoftValue(links[i])
    <3>1. links[i] \in Link
      OBVIOUS
    <3> QED
      BY <3>1, LinkIs
  <2> HIDE DEF a, b
  <2>6. /\ Len(h[i]) = z + Len(b)
        /\ \A o \in 1..(z + Len(b)) : h[i][o] = IF o <= z THEN a[o] ELSE b[o - z]
    BY <2>2, <2>5, ConcatProperties
  <2> HIDE DEF z
  <2>7. hp[z] = links[i].name
    <3>1. z + 1 \in 1..(z + Len(b)) /\ ~(z + 1 <= z) /\ z + 1 - z = 1 /\ z + 1 - 1 = z
      BY <2>2, <2>5
    <3>2. h[i][z + 1] = b[1]
      BY <2>2, <2>6, <3>1
    <3>3. hp[z + 1 - 1] = h[i][z + 1]
      BY <1>5, <2>1, <2>2, <2>6, <3>1
    <3> QED
      BY <2>5, <3>1, <3>2, <3>3
  <2>8. ASSUME links[i].soft PROVE hp[z + 1] = SoftValue(links[i])
    <3>0. Len(b) = 2 /\ b[2] = SoftValue(links[i])
      BY <2>5, <2>8
    <3>1. z + 2 \in 1..(z + Len(b)) /\ ~(z + 2 <= z) /\ z + 2 - z = 2 /\ z + 2 - 1 = z + 1
      BY <2>2, <3>0
    <3>2. h[i][z + 2] = b[2]
      BY <2>2, <2>6, <3>1
    <3>3. hp[z + 2 - 1] = h[i][z + 2]
      BY <1>5, <2>1, <2>2, <2>6, <3>1
    <3> QED
      BY <3>0, <3>1, <3>2, <3>3
  <2> QED
    BY <2>2, <2>3, <2>7, <2>8 DEF z, a
<1> QED
  BY <1>4, <1>6, <1>7 DEF hp
-----------------------------------------------------------------------------
(* Concatenating consecutive runs *)

LEMMA FlattenIs ==
    ASSUME NEW X, NEW seqs \in Seq(Seq(X)), Len(seqs) # 0
    PROVE  \E f : /\ FlattenSeq(seqs) = f[Len(seqs)] /\ f[1] = seqs[1]
                  /\ \A i \in 2..Len(seqs) : f[i] = f[i - 1] \o seqs[i]
<1> DEFINE n == Len(seqs)
           Y == Seq(X)
           step == [i \in 1..n |-> [x \in Y |-> x \o seqs[i]]]
           Is(f) == f = [i \in 1..n |-> IF i = 1 THEN seqs[i] ELSE f[i - 1] \o seqs[i]]
           g == CHOOSE f : Is(f)
<1>1. n \in Nat \ {0} /\ <<>> \in Y /\ \A i \in 1..n : seqs[i] \in Y
  OBVIOUS
<1>2. \A i \in 1..n : \A x \in Y : x \o seqs[i] \in Y
  BY <1>1
<1>3. step \in [1..n -> [Y -> Y]]
  <2> HIDE DEF Y
  <2> QED
    BY <1>2
<1>4. PICK f \in [0..n -> Y] : Iterates(f, <<>>, step, n)
  <2> HIDE DEF step, Y, n
  <2> QED
    BY <1>1, <1>3, IteratesExist
<1>5. ASSUME NEW i \in 1..n PROVE f[i] = IF i = 1 THEN seqs[i] ELSE f[i - 1] \o seqs[i]
  <2>1. i \in 0..n /\ i # 0 /\ i - 1 \in 0..n /\ 0 \in 0..n
    BY <1>1
  <2>2. f[i] = step[i][f[i - 1]] /\ f[i - 1] \in Y
    <3> HIDE DEF step
    <3> QED
      BY <1>4, <2>1 DEF Iterates
  <2>3. f[i] = f[i - 1] \o seqs[i]
    BY <2>2
  <2>4. f[0] = <<>>
    <3> HIDE DEF step
    <3> QED
      BY <1>4, <2>1 DEF Iterates
  <2>5. CASE i = 1
    <3>1. f[i - 1] = <<>> /\ seqs[i] \in Y
      BY <1>1, <2>4, <2>5
    <3>2. <<>> \o seqs[i] = seqs[i]
      BY <3>1
    <3> QED
      BY <2>3, <2>5, <3>1, <3>2
  <2> QED
    BY <2>3, <2>5
<1> HIDE DEF step, Y
<1>6. Is([i \in 1..n |-> f[i]])
  <2> DEFINE e == [i \in 1..n |-> f[i]]
  <2>1. ASSUME NEW i \in 1..n PROVE e[i] = IF i = 1 THEN seqs[i] ELSE e[i - 1] \o seqs[i]
    <3>1. i # 1 => i - 1 \in 1..n
      BY <1>1
    <3>2. i # 1 => e[i - 1] = f[i - 1]
      BY <3>1
    <3> QED
      BY <1>5, <3>2
  <2>2. e = [i \in 1..n |-> e[i]]
    OBVIOUS
  <2> HIDE DEF e
  <2>3. Is(e)
    BY <2>1, <2>2
  <2> QED
    BY <2>3 DEF e
<1>7. Is(g)
  BY <1>6
<1>8. FlattenSeq(seqs) = g[n]
  BY <1>1 DEF FlattenSeq
<1> HIDE DEF g
<1>9. g[1] = seqs[1] /\ \A i \in 2..n : g[i] = g[i - 1] \o seqs[i]
  <2>1. 1 \in 1..n /\ \A i \in 2..n : i \in 1..n /\ i # 1
    BY <1>1
  <2> QED
    BY <1>7, <2>1
<1> QED
  BY <1>8, <1>9

\* The runs of a list, each from where the last one ended, put together are the list.
LEMMA FlattenRuns ==
    ASSUME NEW X, NEW list \in Seq(X), NEW seqs \in Seq(Seq(X)), Len(seqs) # 0,
           NEW upto \in [0..Len(seqs) -> Nat],
           upto[0] = 0, upto[Len(seqs)] = Len(list),
           \A i \in 1..Len(seqs) :
               /\ upto[i] = upto[i - 1] + Len(seqs[i])
               /\ \A j \in 1..Len(seqs[i]) : seqs[i][j] = list[upto[i - 1] + j]
    PROVE  FlattenSeq(seqs) = list
<1> DEFINE n == Len(seqs)
<1>1. n \in Nat \ {0} /\ upto \in [0..n -> Nat] /\ \A i \in 1..n : seqs[i] \in Seq(X)
  OBVIOUS
<1>2. PICK f : /\ FlattenSeq(seqs) = f[n] /\ f[1] = seqs[1]
               /\ \A i \in 2..n : f[i] = f[i - 1] \o seqs[i]
  BY FlattenIs
<1>3. \A i \in 1..n : /\ upto[i] = upto[i - 1] + Len(seqs[i])
                      /\ \A j \in 1..Len(seqs[i]) : seqs[i][j] = list[upto[i - 1] + j]
  OBVIOUS
<1>4. upto[0] = 0 /\ upto[n] = Len(list)
  OBVIOUS
<1> HIDE DEF n
<1> DEFINE Good(i) == /\ f[i] \in Seq(X) /\ Len(f[i]) = upto[i]
                      /\ \A o \in 1..upto[i] : f[i][o] = list[o]
           Wrong == {i \in 1..n : ~Good(i)}
<1>5. ASSUME Wrong # {} PROVE FALSE
  <2>1. PICK i \in Wrong : \A k \in Wrong : i <= k
    <3>1. Wrong \subseteq Nat
      BY <1>1
    <3> HIDE DEF Wrong
    <3> QED
      BY <1>5, <3>1, LeastNumber
  <2>2. i \in 1..n /\ ~Good(i)
    BY <2>1
  <2>3. i - 1 \in 0..n /\ i \in 0..n /\ upto[i - 1] \in Nat /\ upto[i] \in Nat
    <3>1. i - 1 \in 0..n /\ i \in 0..n
      BY <1>1, <2>2
    <3> QED
      BY <1>1, <3>1
  <2>4. i # 1
    <3>1. ASSUME i = 1 PROVE Good(1)
      <4>1. 1 - 1 = 0 /\ upto[1 - 1] = 0 /\ f[1] = seqs[1] /\ seqs[1] \in Seq(X)
        BY <1>1, <1>2, <1>4, <2>2, <3>1
      <4>2. /\ upto[1] = 0 + Len(seqs[1])
            /\ \A j \in 1..Len(seqs[1]) : seqs[1][j] = list[0 + j]
        BY <1>3, <2>2, <3>1, <4>1
      <4>3. Len(seqs[1]) \in Nat
        BY <4>1
      <4> QED
        BY <4>1, <4>2, <4>3
    <3> QED
      BY <2>2, <3>1
  <2>5. i - 1 \in 1..n /\ i \in 2..n /\ ~(i <= i - 1)
    BY <1>1, <2>2, <2>4
  <2>6. i - 1 \notin Wrong
    <3> HIDE DEF Wrong
    <3> QED
      BY <2>1, <2>5
  <2>7. Good(i - 1)
    BY <2>5, <2>6
  <2> DEFINE a == f[i - 1]
             b == seqs[i]
             u == upto[i - 1]
  <2>8. /\ a \in Seq(X) /\ b \in Seq(X) /\ f[i] = a \o b /\ Len(a) = u /\ u \in Nat
        /\ \A o \in 1..u : a[o] = list[o]
        /\ upto[i] = u + Len(b) /\ \A j \in 1..Len(b) : b[j] = list[u + j]
    BY <1>1, <1>2, <1>3, <2>2, <2>3, <2>5, <2>7
  <2> HIDE DEF a, b, u
  <2>9. /\ a \o b \in Seq(X) /\ Len(a \o b) = Len(a) + Len(b)
        /\ \A o \in 1..(Len(a) + Len(b)) :
               (a \o b)[o] = IF o <= Len(a) THEN a[o] ELSE b[o - Len(a)]
    BY <2>8, ConcatProperties
  <2>10. ASSUME NEW o \in 1..upto[i] PROVE (a \o b)[o] = list[o]
    <3>1. o \in 1..(u + Len(b)) /\ Len(b) \in Nat
      BY <2>8
    <3>2. (a \o b)[o] = IF o <= u THEN a[o] ELSE b[o - u]
      BY <2>8, <2>9, <3>1
    <3>3. CASE o <= u
      BY <2>8, <3>1, <3>2, <3>3
    <3>4. CASE ~(o <= u)
      <4>1. o - u \in 1..Len(b) /\ u + (o - u) = o
        BY <2>8, <3>1, <3>4
      <4>2. b[o - u] = list[u + (o - u)]
        BY <2>8, <4>1
      <4> QED
        BY <3>2, <3>4, <4>1, <4>2
    <3> QED
      BY <3>3, <3>4
  <2>11. Good(i)
    BY <2>8, <2>9, <2>10
  <2> QED
    BY <2>2, <2>11
<1>6. Good(n)
  <2>1. n \in 1..n
    BY <1>1
  <2> QED
    BY <1>5, <2>1
<1> DEFINE w == f[n]
<1>7. w \in Seq(X) /\ Len(w) = Len(list) /\ \A o \in 1..Len(list) : w[o] = list[o]
  BY <1>4, <1>6
<1> HIDE DEF w, Good, Wrong
<1>8. w = list
  BY <1>7, SeqEqual
<1> QED
  BY <1>2, <1>8 DEF w
-----------------------------------------------------------------------------
(* The tree a group is to have.  Its units are the symbol table nodes.      *)

Arity == GROUP_NODE_MAX_CHILDREN
Table(links) == SnodEntries(SortedLinks(links))
Texts(links) == LocalHeap(SortedLinks(links))

Units(links) == AtLeastOne(CeilingDiv(Len(links), SNOD_MAX_ENTRIES))
Planned(links) == LevelCounts(Units(links), Arity)
Height(links) == TreeHeight(Units(links), Arity)
Entries(links, k) == TreeEntries(Units(links), Arity, k)
Foot(links, k) == TreeBase(Units(links), Arity, k)
First(links, k, m) == TreeStart(Units(links), Arity, k, m)
Fanout(links, k, i) == TreeFanout(Units(links), Arity, k, i)

\* The links in the first u symbol table nodes, and the key that closes the u-th.
Upto(links, u) ==
    IF u * SNOD_MAX_ENTRIES <= Len(links) THEN u * SNOD_MAX_ENTRIES ELSE Len(links)
UnitRun(links, u) == Run(Table(links), SNOD_MAX_ENTRIES, u)
CloseKey(links, u) == ClosingKey(UnitRun(links, u))

NameAt(links, q) == SortedLinks(links)[q].name

NodeAddr(links, k, i) == Foot(links, k) + i - 1
EntryKey(links, k, m) == CloseKey(links, First(links, k, m + 1) - 1)
EntryAddr(links, k, m) ==
    IF k = 0 THEN NodeCount(Planned(links)) + m - 1 ELSE NodeAddr(links, k - 1, m)

\* The i-th node of level k, with the entries it is to have.
IsNode(links, node, k, i) ==
    /\ node.level = k
    /\ node.left = IF i = 1 THEN Undefined ELSE NodeAddr(links, k, i) - 1
    /\ node.right = IF i = Entries(links, k + 1) THEN Undefined ELSE NodeAddr(links, k, i) + 1
    /\ node.children \in Seq(Nat) /\ Len(node.children) = Fanout(links, k, i)
    /\ \A j \in 1..Fanout(links, k, i) : node.children[j] = EntryAddr(links, k, (i - 1) * Arity + j)
    /\ Len(node.keys) = Fanout(links, k, i) + 1
    /\ node.keys[1] = 0
    /\ \A j \in 1..Fanout(links, k, i) : node.keys[j + 1] = EntryKey(links, k, (i - 1) * Arity + j)

\* The first levels are written, and nothing else.
LevelsWritten(links, file, l) ==
    /\ DOMAIN file = 0..(Foot(links, l) - 1)
    /\ \A k \in 0..(l - 1) : \A i \in 1..Entries(links, k + 1) :
           /\ NodeAddr(links, k, i) \in DOMAIN file
           /\ IsNode(links, file[NodeAddr(links, k, i)], k, i)
    /\ \A addr \in DOMAIN file :
           \E k \in 0..(l - 1) : \E i \in 1..Entries(links, k + 1) : addr = NodeAddr(links, k, i)

\* What level k is made of.
MadeOf(links, k) ==
    [keys |-> [m \in 1..Entries(links, k) |-> EntryKey(links, k, m)],
     children |-> [m \in 1..Entries(links, k) |-> EntryAddr(links, k, m)]]

Building ==
    /\ members \in MemberList
    /\ tabling \in {"plan", "snods", "write", "written", "failed"}
    /\ tabling \in {"plan", "snods"} => level = 0 /\ nodes = <<>>
    /\ tabling \in {"snods", "write", "written"} =>
           /\ heap = Texts(members)
           /\ entries = Table(members)
           /\ levels = Planned(members)
    /\ tabling \in {"write", "written"} =>
           /\ level \in 0..Height(members)
           /\ tabling = "written" <=> level = Height(members)
           /\ LevelsWritten(members, nodes, level)
    /\ tabling = "write" => below = MadeOf(members, level)

LEMMA SizesAre == Arity \in Nat \ {0, 1} /\ SNOD_MAX_ENTRIES \in Nat \ {0}
BY GroupAssumption DEF Arity

\* Every symbol table node but the last is full, and only that of an empty group is empty.
LEMMA UnitsAre ==
    ASSUME NEW links, IsGroup(links)
    PROVE  /\ Units(links) \in Nat \ {0} /\ Len(links) \in Nat
           /\ \A u \in 0..Units(links) : Upto(links, u) \in 0..Len(links)
           /\ Upto(links, 0) = 0 /\ Upto(links, Units(links)) = Len(links)
           /\ \A u \in 1..Units(links) :
                  /\ Upto(links, u - 1) = (u - 1) * SNOD_MAX_ENTRIES
                  /\ Upto(links, u - 1) <= Upto(links, u)
                  /\ Len(links) # 0 => Upto(links, u - 1) < Upto(links, u)
           /\ Len(links) = 0 => Units(links) = 1
<1> DEFINE n == Len(links)
           s == SNOD_MAX_ENTRIES
           c == CeilingDiv(n, s)
           units == Units(links)
<1>1. n \in Nat /\ s \in Nat \ {0}
  BY SizesAre DEF IsGroup
<1>2. /\ units = IF c = 0 THEN 1 ELSE c
      /\ \A u : Upto(links, u) = IF u * s <= n THEN u * s ELSE n
  BY DEF Units, AtLeastOne, Upto
<1> HIDE DEF n, s, units
<1>3. /\ c \in Nat /\ n <= c * s /\ \A i \in Nat : i < c => i * s < n
  BY <1>1, CeilingDivides
<1> HIDE DEF c
<1>4. units \in Nat \ {0}
  BY <1>2, <1>3
<1>5. ASSUME NEW u \in 0..units PROVE Upto(links, u) \in 0..n
  <2>1. u \in Nat /\ u * s \in Nat
    <3>1. u \in Nat
      BY <1>4
    <3> QED
      BY <1>1, <3>1
  <2> DEFINE us == u * s
  <2> HIDE DEF us
  <2>2. (IF us <= n THEN us ELSE n) \in 0..n
    BY <1>1, <2>1 DEF us
  <2> QED
    BY <1>2, <2>2 DEF us
<1>6. c = 0 => n = 0
  <2>1. c = 0 => c * s = 0
    BY <1>1
  <2> QED
    BY <1>1, <1>3, <2>1
<1>7. n = 0 => c = 0
  <2>1. ASSUME c # 0, n = 0 PROVE FALSE
    <3>1. 0 < c /\ 0 * s = 0 /\ 0 \in Nat
      BY <1>1, <1>3, <2>1
    <3>2. 0 * s < n
      BY <1>3, <3>1
    <3> QED
      BY <2>1, <3>1, <3>2
  <2> QED
    BY <2>1
<1>8. Upto(links, 0) = 0
  <2>1. 0 * s = 0
    BY <1>1
  <2> QED
    BY <1>1, <1>2, <2>1
<1>9. Upto(links, units) = n
  <2> DEFINE us == units * s
  <2>1. us \in Nat /\ (c # 0 => n <= us)
    BY <1>1, <1>2, <1>3, <1>4
  <2>2. Upto(links, units) = IF us <= n THEN us ELSE n
    BY <1>2
  <2>3. c = 0 => us = s
    BY <1>1, <1>2
  <2> HIDE DEF us
  <2> QED
    BY <1>1, <1>6, <2>1, <2>2, <2>3
<1>10. ASSUME NEW u \in 1..units
       PROVE  /\ Upto(links, u - 1) = (u - 1) * s
              /\ Upto(links, u - 1) <= Upto(links, u)
              /\ n # 0 => Upto(links, u - 1) < Upto(links, u)
  <2> DEFINE before == (u - 1) * s
             us == u * s
  <2>1. u - 1 \in Nat /\ u \in Nat
    BY <1>4
  <2>2. before \in Nat /\ us = before + s
    BY <1>1, <2>1
  <2>3. before <= n /\ (n # 0 => before < n)
    <3>1. CASE n = 0
      <4>1. u - 1 = 0
        BY <1>2, <1>4, <1>7, <3>1
      <4>2. before = 0
        BY <1>1, <4>1
      <4> QED
        BY <3>1, <4>2
    <3>2. CASE n # 0
      <4>1. u - 1 < c
        BY <1>2, <1>3, <1>6, <2>1, <3>2
      <4>2. before < n
        BY <1>3, <2>1, <4>1
      <4> QED
        BY <1>1, <2>2, <4>2
    <3> QED
      BY <3>1, <3>2
  <2>4. /\ Upto(links, u - 1) = IF before <= n THEN before ELSE n
        /\ Upto(links, u) = IF us <= n THEN us ELSE n
    BY <1>2
  <2> HIDE DEF before, us
  <2>5. /\ Upto(links, u - 1) = before
        /\ Upto(links, u - 1) <= Upto(links, u)
        /\ n # 0 => Upto(links, u - 1) < Upto(links, u)
    BY <1>1, <2>2, <2>3, <2>4
  <2> QED
    BY <2>5 DEF before
<1>11. n = 0 => units = 1
  BY <1>2, <1>7
<1> QED
  BY <1>1, <1>4, <1>5, <1>8, <1>9, <1>10, <1>11 DEF n, s, units

Entry == [name_offset: Nat, value: Nat]

\* What the entries lead to in the heap.
LEMMA TableIs ==
    ASSUME NEW links, IsGroup(links)
    PROVE  /\ Table(links) \in Seq(Entry) /\ Len(Table(links)) = Len(links)
           /\ Texts(links)[0] = NoText
           /\ \A q \in 1..Len(links) :
                  /\ SortedLinks(links)[q] \in Link
                  /\ Texts(links)[Table(links)[q].name_offset] = NameAt(links, q)
                  /\ SortedLinks(links)[q].soft =>
                         /\ Table(links)[q].value # 0
                         /\ Texts(links)[Table(links)[q].value] = SoftValue(SortedLinks(links)[q])
                  /\ ~SortedLinks(links)[q].soft => Table(links)[q].value = 0
<1> DEFINE n == Len(links)
           sorted == SortedLinks(links)
           table == Table(links)
           Offset(i) == NameOffset(sorted, i)
<1>1. n \in Nat /\ sorted \in Seq(Link) /\ Len(sorted) = n
  BY SortedAre DEF IsGroup
<1>2. DOMAIN sorted = 1..n /\ \A q \in 1..n : sorted[q] \in Link
  <2> HIDE DEF sorted
  <2> QED
    BY <1>1
<1>3. /\ Texts(links)[0] = NoText
      /\ \A i \in 1..n :
             /\ Offset(i) \in Nat \ {0}
             /\ Texts(links)[Offset(i)] = sorted[i].name
             /\ sorted[i].soft => Texts(links)[Offset(i) + 1] = SoftValue(sorted[i])
  BY <1>1, HeapHolds DEF Texts
<1>4. table = [i \in 1..n |-> [name_offset |-> Offset(i),
                               value |-> IF sorted[i].soft THEN Offset(i) + 1 ELSE 0]]
  BY <1>2 DEF Table, SnodEntries
<1>5. \A q \in 1..n : NameAt(links, q) = sorted[q].name
  BY DEF NameAt
<1> HIDE DEF n, sorted, table, Offset
<1>6. ASSUME NEW q \in 1..n
      PROVE  /\ table[q] \in Entry
             /\ table[q].name_offset = Offset(q)
             /\ sorted[q].soft => table[q].value = Offset(q) + 1
             /\ ~sorted[q].soft => table[q].value = 0
  BY <1>3, <1>4 DEF Entry
<1>7. table \in Seq(Entry) /\ Len(table) = n
  <2>1. table \in [1..n -> Entry]
    BY <1>4, <1>6
  <2> QED
    BY <1>1, <2>1
<1>8. ASSUME NEW q \in 1..n
      PROVE  /\ sorted[q] \in Link
             /\ Texts(links)[table[q].name_offset] = NameAt(links, q)
             /\ sorted[q].soft => /\ table[q].value # 0
                                  /\ Texts(links)[table[q].value] = SoftValue(sorted[q])
             /\ ~sorted[q].soft => table[q].value = 0
  BY <1>2, <1>3, <1>5, <1>6
<1> QED
  BY <1>3, <1>7, <1>8 DEF n, sorted, table

\* The entries of a symbol table node.
LEMMA UnitRunIs ==
    ASSUME NEW links, IsGroup(links), NEW u \in 1..Units(links)
    PROVE  /\ UnitRun(links, u) \in Seq(Entry)
           /\ Len(UnitRun(links, u)) = Upto(links, u) - Upto(links, u - 1)
           /\ \A j \in 1..Len(UnitRun(links, u)) :
                  /\ Upto(links, u - 1) + j \in 1..Len(links)
                  /\ UnitRun(links, u)[j] = Table(links)[Upto(links, u - 1) + j]
<1> DEFINE n == Len(links)
           s == SNOD_MAX_ENTRIES
           table == Table(links)
           a == Upto(links, u - 1)
           b == Upto(links, u)
           run == UnitRun(links, u)
<1>1. n \in Nat /\ s \in Nat \ {0} /\ table \in Seq(Entry) /\ Len(table) = n
  BY SizesAre, TableIs, UnitsAre
<1>2. /\ u \in Nat \ {0} /\ a = (u - 1) * s /\ a <= b /\ a \in 0..n /\ b \in 0..n
      /\ b = IF u * s <= n THEN u * s ELSE n
  <2>1. Units(links) \in Nat
    BY UnitsAre
  <2>2. u - 1 \in 0..Units(links) /\ u \in 0..Units(links) /\ u \in Nat \ {0}
    BY <2>1
  <2>3. a = (u - 1) * s /\ a <= b /\ a \in 0..n /\ b \in 0..n
    BY <2>2, UnitsAre
  <2>4. b = IF u * s <= n THEN u * s ELSE n
    BY DEF Upto
  <2> QED
    BY <2>2, <2>3, <2>4
<1>3. run = Run(table, s, u)
  BY DEF UnitRun
<1> HIDE DEF n, s, table, a, b, run
<1>4. /\ run \in Seq(Entry)
      /\ Len(run) = IF u * s <= n THEN s ELSE n - (u - 1) * s
      /\ \A j \in 1..Len(run) : run[j] = table[(u - 1) * s + j]
  <2>1. (u - 1) * s <= Len(table)
    BY <1>1, <1>2
  <2>2. /\ Run(table, s, u) \in Seq(Entry)
        /\ Len(Run(table, s, u)) = IF u * s <= Len(table) THEN s ELSE Len(table) - (u - 1) * s
        /\ \A j \in 1..Len(Run(table, s, u)) : Run(table, s, u)[j] = table[(u - 1) * s + j]
    BY <1>1, <1>2, <2>1, RunIs
  <2> QED
    BY <1>1, <1>3, <2>2
<1>5. Len(run) = b - a
  <2> DEFINE us == u * s
  <2>1. us = a + s /\ us \in Nat
    BY <1>1, <1>2
  <2>2. /\ b = IF us <= n THEN us ELSE n
        /\ Len(run) = IF us <= n THEN s ELSE n - a
    BY <1>2, <1>4
  <2> HIDE DEF us
  <2> QED
    BY <1>1, <1>2, <2>1, <2>2
<1>6. ASSUME NEW j \in 1..Len(run) PROVE a + j \in 1..n /\ run[j] = table[a + j]
  <2>1. a + j \in 1..n
    BY <1>1, <1>2, <1>5
  <2> QED
    BY <1>2, <1>4, <2>1
<1> QED
  BY <1>4, <1>5, <1>6 DEF n, table, a, b, run

\* A key is a text of the heap: the greatest name up to and with its node.
LEMMA KeyIs ==
    ASSUME NEW links, IsGroup(links), NEW u \in 1..Units(links)
    PROVE  /\ CloseKey(links, u) \in Nat /\ Texts(links)[CloseKey(links, u)] \in Nat
           /\ \A q \in 1..Len(links) :
                  /\ NameAt(links, q) \in Nat \ {0}
                  /\ NameAt(links, q) <= Texts(links)[CloseKey(links, u)] <=> q <= Upto(links, u)
<1> DEFINE n == Len(links)
           b == Upto(links, u)
           run == UnitRun(links, u)
           table == Table(links)
<1>1. /\ n \in Nat /\ b \in 0..n /\ table \in Seq(Entry) /\ Len(table) = n
      /\ run \in Seq(Entry)
      /\ Len(run) = b - Upto(links, u - 1)
      /\ \A j \in 1..Len(run) : run[j] = table[Upto(links, u - 1) + j]
      /\ n # 0 => Upto(links, u - 1) < b
      /\ Upto(links, u - 1) \in 0..n
  <2>1. Units(links) \in Nat
    BY UnitsAre
  <2>2. u - 1 \in 0..Units(links) /\ u \in 0..Units(links)
    BY <2>1
  <2> QED
    BY <2>2, UnitsAre, TableIs, UnitRunIs
<1>2. \A q \in 1..n : /\ NameAt(links, q) \in Nat \ {0}
                      /\ Texts(links)[table[q].name_offset] = NameAt(links, q)
  <2> SUFFICES ASSUME NEW q \in 1..n
               PROVE /\ NameAt(links, q) \in Nat \ {0}
                     /\ Texts(links)[table[q].name_offset] = NameAt(links, q)
    OBVIOUS
  <2>1. SortedLinks(links)[q] \in Link /\ Texts(links)[table[q].name_offset] = NameAt(links, q)
    BY TableIs
  <2> QED
    BY <2>1, LinkIs DEF NameAt
<1>3. \A p, q \in 1..n : p < q => NameAt(links, p) < NameAt(links, q)
  BY SortedAre DEF NameAt
<1>4. CloseKey(links, u) = IF run = <<>> THEN 0 ELSE run[Len(run)].name_offset
  BY DEF CloseKey, ClosingKey, Last
<1> HIDE DEF n, b, run, table
<1>5. CASE n = 0
  <2>1. Len(run) = 0
    BY <1>1, <1>5
  <2>2. run = <<>>
    BY <1>1, <2>1
  <2>3. Texts(links)[0] \in Nat
    BY TableIs DEF NoText
  <2> QED
    BY <1>4, <1>5, <2>2, <2>3 DEF n
<1>6. CASE n # 0
  <2>1. Len(run) \in 1..Len(run) /\ Upto(links, u - 1) + Len(run) = b /\ run # <<>> /\ b \in 1..n
    BY <1>1, <1>6
  <2>2. CloseKey(links, u) = table[b].name_offset
    BY <1>1, <1>4, <2>1
  <2>3. table[b] \in Entry
    BY <1>1, <2>1
  <2>4. CloseKey(links, u) \in Nat
    BY <2>2, <2>3 DEF Entry
  <2>5. Texts(links)[CloseKey(links, u)] = NameAt(links, b)
    BY <1>2, <2>1, <2>2
  <2>6. ASSUME NEW q \in 1..n PROVE NameAt(links, q) <= NameAt(links, b) <=> q <= b
    <3> DEFINE x == NameAt(links, q)
               y == NameAt(links, b)
    <3>1. x \in Nat /\ y \in Nat /\ (q < b => x < y) /\ (b < q => y < x)
      BY <1>2, <1>3, <2>1
    <3>2. q = b => x = y
      OBVIOUS
    <3> HIDE DEF x, y
    <3>3. x <= y <=> q <= b
      BY <1>1, <2>1, <3>1, <3>2
    <3> QED
      BY <3>3 DEF x, y
  <2>7. NameAt(links, b) \in Nat
    BY <1>2, <2>1
  <2>8. \A q \in 1..n : NameAt(links, q) <= Texts(links)[CloseKey(links, u)] <=> q <= b
    BY <2>5, <2>6
  <2> QED
    BY <1>2, <2>4, <2>5, <2>7, <2>8 DEF n, b
<1> QED
  BY <1>5, <1>6

LEMMA EntriesAre ==
    ASSUME NEW links, IsGroup(links)
    PROVE  /\ Arity \in Nat \ {0, 1} /\ Height(links) \in Nat \ {0}
           /\ Height(links) = Len(Planned(links)) /\ Planned(links) \in Seq(Nat)
           /\ \A k \in 0..Height(links) : Entries(links, k) \in Nat \ {0}
           /\ \A k \in 1..Height(links) :
                  Entries(links, k) = CeilingDiv(Entries(links, k - 1), Arity)
           /\ Entries(links, Height(links)) = 1
           /\ Foot(links, 0) = 0 /\ \A k \in 0..Height(links) : Foot(links, k) \in Nat
           /\ \A k \in 1..Height(links) : Foot(links, k) = Foot(links, k - 1) + Entries(links, k)
<1>1. Arity \in Nat \ {0, 1} /\ Units(links) \in Nat \ {0}
  BY SizesAre, UnitsAre
<1> DEFINE n == Units(links)
           a == Arity
<1>2. n \in Nat \ {0} /\ a \in Nat \ {0, 1}
  BY <1>1
<1> HIDE DEF n, a
<1>3. /\ a \in Nat \ {0, 1} /\ TreeHeight(n, a) \in Nat \ {0}
      /\ LevelCounts(n, a) \in Seq(Nat)
      /\ \A k \in 0..TreeHeight(n, a) : TreeEntries(n, a, k) \in Nat
      /\ \A k \in 1..TreeHeight(n, a) :
             /\ TreeEntries(n, a, k) # 0
             /\ TreeEntries(n, a, k) = AtLeastOne(CeilingDiv(TreeEntries(n, a, k - 1), a))
      /\ TreeEntries(n, a, TreeHeight(n, a)) = 1
      /\ TreeBase(n, a, 0) = 0 /\ \A k \in 0..TreeHeight(n, a) : TreeBase(n, a, k) \in Nat
      /\ \A k \in 1..TreeHeight(n, a) : TreeBase(n, a, k) = TreeBase(n, a, k - 1) + TreeEntries(n, a, k)
  BY <1>2, TreeEntriesAre
<1>4. TreeHeight(n, a) = Len(LevelCounts(n, a))
  BY DEF TreeHeight
<1>5. ASSUME NEW k \in 0..TreeHeight(n, a) PROVE TreeEntries(n, a, k) \in Nat \ {0}
  <2>1. k # 0 => k \in 1..TreeHeight(n, a)
    BY <1>3
  <2>2. TreeEntries(n, a, 0) = n
    BY DEF TreeEntries
  <2> QED
    BY <1>2, <1>3, <2>1, <2>2
<1>6. ASSUME NEW k \in 1..TreeHeight(n, a)
      PROVE  TreeEntries(n, a, k) = CeilingDiv(TreeEntries(n, a, k - 1), a)
  <2> DEFINE e == TreeEntries(n, a, k - 1)
  <2>1. k - 1 \in 0..TreeHeight(n, a)
    BY <1>3
  <2>2. e \in Nat \ {0} /\ TreeEntries(n, a, k) = AtLeastOne(CeilingDiv(e, a))
    BY <1>3, <1>5, <2>1
  <2> HIDE DEF e
  <2>3. e > 0
    BY <2>2
  <2>4. CeilingDiv(e, a) > 0 /\ CeilingDiv(e, a) \in Nat
    BY <1>2, <2>2, <2>3, CeilingDivLess, CeilingDivides
  <2>5. CeilingDiv(e, a) # 0
    BY <2>4
  <2>6. TreeEntries(n, a, k) = CeilingDiv(e, a)
    BY <2>2, <2>5 DEF AtLeastOne
  <2> QED
    BY <2>6 DEF e
<1> QED
  BY <1>3, <1>4, <1>5, <1>6 DEF Height, Planned, Entries, Foot, n, a

LEMMA StartsAre ==
    ASSUME NEW links, IsGroup(links)
    PROVE  /\ \A k \in 0..Height(links) : \A m \in Nat \ {0} : First(links, k, m) \in 1..(Units(links) + 1)
           /\ \A k \in 0..Height(links) :
                  First(links, k, 1) = 1 /\ First(links, k, Entries(links, k) + 1) = Units(links) + 1
           /\ \A m \in 1..(Units(links) + 1) : First(links, 0, m) = m
           /\ \A k \in 1..Height(links) : \A i \in Nat \ {0} :
                  First(links, k, i) = First(links, k - 1, (i - 1) * Arity + 1)
<1>1. Arity \in Nat \ {0, 1} /\ Units(links) \in Nat \ {0}
  BY SizesAre, UnitsAre
<1> QED
  BY <1>1, TreeStartsAre DEF Height, Entries, First

LEMMA StartsAscend ==
    ASSUME NEW links, IsGroup(links), NEW k \in 0..Height(links),
           NEW m \in 1..(Entries(links, k) + 1), NEW t \in 1..(Entries(links, k) + 1), m < t
    PROVE  First(links, k, m) < First(links, k, t)
<1>1. Arity \in Nat \ {0, 1} /\ Units(links) \in Nat \ {0}
  BY SizesAre, UnitsAre
<1> QED
  BY <1>1, TreeStartsAscend DEF Height, Entries, First

LEMMA FanoutIs ==
    ASSUME NEW links, IsGroup(links), NEW k \in 0..(Height(links) - 1),
           NEW i \in 1..Entries(links, k + 1)
    PROVE  /\ Fanout(links, k, i) \in 1..Arity
           /\ (i - 1) * Arity \in Nat
           /\ (i - 1) * Arity + Fanout(links, k, i) <= Entries(links, k)
           /\ First(links, k, (i - 1) * Arity + 1) = First(links, k + 1, i)
           /\ First(links, k, (i - 1) * Arity + Fanout(links, k, i) + 1) = First(links, k + 1, i + 1)
<1>1. Arity \in Nat \ {0, 1} /\ Units(links) \in Nat \ {0}
  BY SizesAre, UnitsAre
<1>2. /\ Fanout(links, k, i) \in 0..Arity /\ (Fanout(links, k, i) = 0 <=> Units(links) = 0)
      /\ (i - 1) * Arity \in Nat
      /\ (i - 1) * Arity + Fanout(links, k, i) <= Entries(links, k)
      /\ First(links, k, (i - 1) * Arity + 1) = First(links, k + 1, i)
      /\ First(links, k, (i - 1) * Arity + Fanout(links, k, i) + 1) = First(links, k + 1, i + 1)
  BY <1>1, TreeFanoutIs DEF Height, Entries, First, Fanout
<1> QED
  BY <1>1, <1>2

\* Past an entry lies the first unit of the next: the last unit under it, and where an
\* entry and its key lead.
LEMMA EntriesLead ==
    ASSUME NEW links, IsGroup(links), NEW k \in 0..Height(links), NEW m \in 1..Entries(links, k)
    PROVE  /\ First(links, k, m + 1) - 1 \in 1..Units(links)
           /\ EntryKey(links, k, m) \in Nat /\ EntryAddr(links, k, m) \in Nat
           /\ Texts(links)[EntryKey(links, k, m)] \in Nat
           /\ \A q \in 1..Len(links) :
                  NameAt(links, q) <= Texts(links)[EntryKey(links, k, m)]
                      <=> q <= Upto(links, First(links, k, m + 1) - 1)
<1> DEFINE u == First(links, k, m + 1) - 1
           units == Units(links)
<1>1. /\ Height(links) \in Nat /\ Entries(links, k) \in Nat /\ units \in Nat
      /\ \A l \in 0..Height(links) : Foot(links, l) \in Nat
  BY EntriesAre, UnitsAre
<1>2. u \in 1..units
  <2> DEFINE j == m + 1
  <2>1. 1 \in 1..(Entries(links, k) + 1) /\ j \in 1..(Entries(links, k) + 1) /\ 1 < j
        /\ j \in Nat \ {0}
    BY <1>1
  <2> HIDE DEF j
  <2>2. First(links, k, 1) < First(links, k, j)
    BY <2>1, StartsAscend
  <2>3. First(links, k, 1) = 1 /\ First(links, k, j) \in 1..(units + 1)
    BY <2>1, StartsAre
  <2>4. First(links, k, j) - 1 \in 1..units
    BY <1>1, <2>2, <2>3
  <2> QED
    BY <2>4 DEF j
<1>3. EntryKey(links, k, m) = CloseKey(links, u)
  BY DEF EntryKey
<1> HIDE DEF u
<1>4. /\ EntryKey(links, k, m) \in Nat /\ Texts(links)[EntryKey(links, k, m)] \in Nat
      /\ \A q \in 1..Len(links) :
             NameAt(links, q) <= Texts(links)[EntryKey(links, k, m)] <=> q <= Upto(links, u)
  BY <1>2, <1>3, KeyIs
<1>5. EntryAddr(links, k, m) \in Nat
  <2>1. NodeCount(Planned(links)) \in Nat
    BY <1>1 DEF Foot, Height, NodeCount, TreeBase, TreeHeight, Planned
  <2>2. k # 0 => k - 1 \in 0..Height(links)
    BY <1>1
  <2>3. k # 0 => Foot(links, k - 1) \in Nat
    BY <1>1, <2>2
  <2>4. m \in Nat \ {0}
    BY <1>1
  <2> QED
    BY <2>1, <2>3, <2>4 DEF EntryAddr, NodeAddr
<1> QED
  BY <1>2, <1>4, <1>5 DEF u

LEMMA MadeOfIs ==
    ASSUME NEW links, IsGroup(links), NEW k \in 0..Height(links)
    PROVE  /\ MadeOf(links, k).keys \in Seq(Nat)
           /\ Len(MadeOf(links, k).keys) = Entries(links, k)
           /\ \A m \in 1..Entries(links, k) : MadeOf(links, k).keys[m] = EntryKey(links, k, m)
           /\ MadeOf(links, k).children \in Seq(Nat)
           /\ Len(MadeOf(links, k).children) = Entries(links, k)
           /\ \A m \in 1..Entries(links, k) : MadeOf(links, k).children[m] = EntryAddr(links, k, m)
<1> DEFINE e == Entries(links, k)
           keys == [m \in 1..e |-> EntryKey(links, k, m)]
           children == [m \in 1..e |-> EntryAddr(links, k, m)]
<1>1. e \in Nat
  BY EntriesAre
<1>2. \A m \in 1..e : EntryKey(links, k, m) \in Nat /\ EntryAddr(links, k, m) \in Nat
  BY EntriesLead DEF e
<1> HIDE DEF e
<1>3. keys \in [1..e -> Nat] /\ children \in [1..e -> Nat]
  BY <1>2
<1>4. keys \in Seq(Nat) /\ Len(keys) = e /\ children \in Seq(Nat) /\ Len(children) = e
  BY <1>1, <1>3
<1>5. /\ \A m \in 1..e : keys[m] = EntryKey(links, k, m)
      /\ \A m \in 1..e : children[m] = EntryAddr(links, k, m)
  OBVIOUS
<1>6. MadeOf(links, k).keys = keys /\ MadeOf(links, k).children = children
  BY DEF MadeOf, e
<1> HIDE DEF keys, children
<1> QED
  BY <1>4, <1>5, <1>6 DEF e

-----------------------------------------------------------------------------
(* Building the tree *)

LEMMA GroupFacts ==
    ASSUME Building
    PROVE  IsGroup(members)
BY MembersAreGroups DEF Building

\* Where the next level goes, and how many nodes it takes.
LEMMA NextLevel ==
    ASSUME Building, tabling = "write"
    PROVE  /\ level \in 0..(Height(members) - 1)
           /\ FirstNode = Foot(members, level)
           /\ NodesOnGroupLevel = Entries(members, level + 1)
<1>1. /\ levels = Planned(members) /\ level \in 0..Height(members) /\ level # Height(members)
      /\ below = MadeOf(members, level)
  BY DEF Building
<1>2. IsGroup(members)
  BY GroupFacts
<1>3. Height(members) \in Nat /\ Planned(members) \in Seq(Nat)
  BY <1>2, EntriesAre
<1>4. /\ level \in 0..(Height(members) - 1) /\ level + 1 \in 1..Height(members)
      /\ level + 1 - 1 = level
  BY <1>1, <1>3
<1>5. FirstNode = Foot(members, level)
  <2>1. DOMAIN levels = 1..Height(members)
    BY <1>1, <1>3 DEF Height, TreeHeight, Planned
  <2>2. LevelAddrs(levels, 0)[level + 1] = 0 + NodesUpTo(levels)[level + 1 - 1]
    BY <1>4, <2>1 DEF LevelAddrs
  <2>3. NodesUpTo(levels)[level] = Foot(members, level) /\ Foot(members, level) \in Nat
    BY <1>1, <1>2, EntriesAre DEF Foot, TreeBase, Planned
  <2> QED
    BY <1>4, <2>2, <2>3 DEF FirstNode
<1>6. NodesOnGroupLevel = Entries(members, level + 1)
  <2>1. Len(below.children) = Entries(members, level)
    BY <1>1, <1>2, MadeOfIs
  <2>2. Entries(members, level + 1) = CeilingDiv(Entries(members, level + 1 - 1), Arity)
    BY <1>2, <1>4, EntriesAre
  <2> QED
    BY <1>4, <2>1, <2>2 DEF NodesOnGroupLevel, Arity
<1> QED
  BY <1>4, <1>5, <1>6

\* A node is written with the entries it is to have, and closes where its last one does.
LEMMA NodeIsWritten ==
    ASSUME Building, tabling = "write", NEW i \in 1..Entries(members, level + 1)
    PROVE  /\ IsNode(members, WriteGroupNode(NodeAddr(members, level, i)), level, i)
           /\ Last(GroupKeys(i)) = EntryKey(members, level + 1, i)
<1> DEFINE k == level
           n == Fanout(members, k, i)
           f == (i - 1) * Arity
           e == Entries(members, k)
           addr == NodeAddr(members, k, i)
           node == WriteGroupNode(addr)
           children == Run(below.children, GROUP_NODE_MAX_CHILDREN, i)
<1>1. /\ IsGroup(members)
      /\ k \in 0..(Height(members) - 1) /\ FirstNode = Foot(members, k)
      /\ NodesOnGroupLevel = Entries(members, k + 1)
      /\ below = MadeOf(members, k)
  BY GroupFacts, NextLevel DEF Building
<1>2. /\ Height(members) \in Nat \ {0} /\ Arity \in Nat \ {0} /\ e \in Nat
      /\ Foot(members, k) \in Nat
      /\ k \in 0..Height(members) /\ Entries(members, k + 1) \in Nat
  <2>1. Height(members) \in Nat \ {0}
    BY <1>1, EntriesAre
  <2>2. k \in 0..Height(members) /\ k + 1 \in 0..Height(members)
    BY <1>1, <2>1
  <2> QED
    BY <1>1, <2>1, <2>2, EntriesAre
<1>3. /\ n \in 1..Arity /\ f \in Nat /\ f + n <= e
      /\ First(members, k, f + n + 1) = First(members, k + 1, i + 1)
  BY <1>1, FanoutIs
<1>4. i \in Nat \ {0} /\ i * Arity \in Nat /\ i * Arity = f + Arity
  BY <1>2
<1>5. n = IF f + Arity <= e THEN Arity ELSE e - f
  BY <1>4 DEF Fanout, TreeFanout, Entries
<1>6. /\ below.keys \in Seq(Nat) /\ Len(below.keys) = e
      /\ \A m \in 1..e : below.keys[m] = EntryKey(members, k, m)
      /\ below.children \in Seq(Nat) /\ Len(below.children) = e
      /\ \A m \in 1..e : below.children[m] = EntryAddr(members, k, m)
  BY <1>1, <1>2, MadeOfIs
<1>7. addr - FirstNode + 1 = i
  BY <1>1, <1>2 DEF NodeAddr
<1>8. /\ node.level = k
      /\ node.left = LeftSibling(addr, i)
      /\ node.right = RightSibling(addr, i, NodesOnGroupLevel)
      /\ node.children = children
      /\ node.keys = <<0>> \o GroupKeys(i)
  BY <1>7 DEF WriteGroupNode
<1> HIDE DEF k, n, f, e, addr, node, children
<1>9. /\ children \in Seq(Nat) /\ Len(children) = n
      /\ \A j \in 1..n : children[j] = EntryAddr(members, k, f + j)
  <2>1. (i - 1) * Arity <= Len(below.children)
    BY <1>2, <1>3, <1>6 DEF f
  <2>2. /\ children \in Seq(Nat)
        /\ Len(children) = IF i * Arity <= Len(below.children) THEN Arity
                              ELSE Len(below.children) - (i - 1) * Arity
        /\ \A j \in 1..Len(children) : children[j] = below.children[(i - 1) * Arity + j]
    BY <1>2, <1>4, <1>6, <2>1, RunIs DEF children, Arity
  <2>3. Len(children) = n
    BY <1>4, <1>5, <1>6, <2>2 DEF f
  <2>4. ASSUME NEW j \in 1..n PROVE children[j] = EntryAddr(members, k, f + j)
    <3>1. f + j \in 1..e
      BY <1>2, <1>3
    <3>2. children[j] = below.children[f + j]
      BY <2>2, <2>3 DEF f
    <3> QED
      BY <1>6, <3>1, <3>2
  <2> QED
    BY <2>2, <2>3, <2>4
<1>10. /\ GroupKeys(i) \in Seq(Nat) /\ Len(GroupKeys(i)) = n
       /\ \A j \in 1..n : GroupKeys(i)[j] = EntryKey(members, k, f + j)
  <2>1. (i - 1) * Arity <= Len(below.keys)
    BY <1>2, <1>3, <1>6 DEF f
  <2>2. /\ GroupKeys(i) \in Seq(Nat)
        /\ Len(GroupKeys(i)) = IF i * Arity <= Len(below.keys) THEN Arity
                          ELSE Len(below.keys) - (i - 1) * Arity
        /\ \A j \in 1..Len(GroupKeys(i)) : GroupKeys(i)[j] = below.keys[(i - 1) * Arity + j]
    BY <1>2, <1>4, <1>6, <2>1, RunIs DEF GroupKeys, Arity
  <2>3. Len(GroupKeys(i)) = n
    BY <1>4, <1>5, <1>6, <2>2 DEF f
  <2>4. ASSUME NEW j \in 1..n PROVE GroupKeys(i)[j] = EntryKey(members, k, f + j)
    <3>1. f + j \in 1..e
      BY <1>2, <1>3
    <3>2. GroupKeys(i)[j] = below.keys[f + j]
      BY <2>2, <2>3 DEF f
    <3> QED
      BY <1>6, <3>1, <3>2
  <2> QED
    BY <2>2, <2>3, <2>4
<1>11. /\ Len(node.keys) = n + 1 /\ node.keys[1] = 0
       /\ \A j \in 1..n : node.keys[j + 1] = EntryKey(members, k, f + j)
  <2> DEFINE first == <<0>>
             keys == GroupKeys(i)
  <2>1. first \in Seq(Nat) /\ Len(first) = 1 /\ first[1] = 0
    OBVIOUS
  <2>2. keys \in Seq(Nat) /\ Len(keys) = n /\ n \in Nat /\ node.keys = first \o keys
    BY <1>3, <1>8, <1>10
  <2> HIDE DEF first, keys
  <2>3. /\ Len(node.keys) = 1 + n
        /\ \A j \in 1..(1 + n) : node.keys[j] = IF j <= 1 THEN first[j] ELSE keys[j - 1]
    <3>1. /\ Len(first \o keys) = Len(first) + Len(keys)
          /\ \A j \in 1..(Len(first) + Len(keys)) :
                 (first \o keys)[j] = IF j <= Len(first) THEN first[j] ELSE keys[j - Len(first)]
      BY <2>1, <2>2, ConcatProperties
    <3>2. Len(first) = 1 /\ Len(keys) = n /\ first \o keys = node.keys
      BY <2>1, <2>2
    <3> QED
      BY <3>1, <3>2
  <2>4. ASSUME NEW j \in 1..n PROVE node.keys[j + 1] = keys[j]
    <3>1. j + 1 \in 1..(1 + n) /\ ~(j + 1 <= 1) /\ j + 1 - 1 = j
      BY <2>2
    <3> QED
      BY <2>3, <3>1
  <2>5. 1 \in 1..(1 + n) /\ 1 <= 1 /\ 1 + n = n + 1
    BY <2>2
  <2>6. node.keys[1] = 0
    BY <2>1, <2>3, <2>5
  <2> QED
    BY <1>10, <2>3, <2>4, <2>5, <2>6 DEF keys
<1>12. IsNode(members, node, k, i)
  <2>1. node.left = IF i = 1 THEN Undefined ELSE addr - 1
    BY <1>8 DEF LeftSibling
  <2>2. node.right = IF i = Entries(members, k + 1) THEN Undefined ELSE addr + 1
    BY <1>1, <1>8 DEF RightSibling
  <2> QED
    BY <1>8, <1>9, <1>11, <2>1, <2>2 DEF IsNode, n, f, addr
<1>13. Last(GroupKeys(i)) = EntryKey(members, k + 1, i)
  <2>1. n \in 1..n /\ Last(GroupKeys(i)) = GroupKeys(i)[n]
    BY <1>3, <1>10 DEF Last
  <2>2. Last(GroupKeys(i)) = EntryKey(members, k, f + n)
    BY <1>10, <2>1
  <2> QED
    BY <1>3, <2>2 DEF EntryKey
<1> QED
  BY <1>12, <1>13 DEF k, node, addr

LEMMA LevelIsWritten ==
    ASSUME Building, WriteGroupLevel
    PROVE  LevelsWritten(members, nodes', level + 1)
<1> DEFINE l == level
           e == Entries(members, l + 1)
           base == Foot(members, l)
           slots == FirstNode..(FirstNode + NodesOnGroupLevel - 1)
           file == nodes'
<1>1. tabling = "write"
  BY DEF WriteGroupLevel
<1>2. l \in 0..(Height(members) - 1) /\ FirstNode = base /\ NodesOnGroupLevel = e
  BY <1>1, NextLevel
<1>3. IsGroup(members) /\ LevelsWritten(members, nodes, l)
  BY <1>1, GroupFacts DEF Building
<1>4. /\ base \in Nat /\ e \in Nat \ {0} /\ Foot(members, l + 1) = base + e
  <2>1. Height(members) \in Nat
    BY <1>3, EntriesAre
  <2>2. l \in 0..Height(members) /\ l + 1 \in 0..Height(members) /\ l + 1 \in 1..Height(members)
        /\ l + 1 - 1 = l
    BY <1>2, <2>1
  <2>3. Foot(members, l + 1) = Foot(members, l + 1 - 1) + Entries(members, l + 1)
    BY <1>3, <2>2, EntriesAre
  <2> QED
    BY <1>3, <2>2, <2>3, EntriesAre
<1>5. DOMAIN nodes = 0..(base - 1)
  BY <1>3 DEF LevelsWritten
<1>6. slots = base..(base + e - 1)
  BY <1>2
<1>7. /\ DOMAIN file = DOMAIN nodes \cup slots
      /\ \A a \in DOMAIN file : file[a] = IF a \in slots THEN WriteGroupNode(a) ELSE nodes[a]
  BY DEF WriteGroupLevel
<1> HIDE DEF slots, file, e, base, l
<1>8. DOMAIN file = 0..(base + e - 1)
  <2>1. (base..(base + e - 1)) \cup (0..(base - 1)) = 0..(base + e - 1)
    BY <1>4
  <2> QED
    BY <1>5, <1>6, <1>7, <2>1
<1>9. ASSUME NEW k \in 0..l, NEW i \in 1..Entries(members, k + 1)
      PROVE  /\ NodeAddr(members, k, i) \in DOMAIN file
             /\ IsNode(members, file[NodeAddr(members, k, i)], k, i)
  <2> DEFINE a == NodeAddr(members, k, i)
  <2>1. CASE k = l
    <3>1. i \in 1..e /\ a = base + i - 1
      BY <2>1 DEF e, base, NodeAddr
    <3>2. a \in base..(base + e - 1) /\ a \in 0..(base + e - 1)
      BY <1>4, <3>1
    <3>3. file[a] = WriteGroupNode(a)
      BY <1>6, <1>7, <1>8, <3>2
    <3>4. IsNode(members, WriteGroupNode(NodeAddr(members, level, i)), level, i)
      BY <1>1, <3>1, NodeIsWritten DEF e, l
    <3> QED
      BY <1>8, <2>1, <3>2, <3>3, <3>4 DEF l
  <2>2. CASE k # l
    <3>1. k \in 0..(l - 1)
      BY <1>2, <2>2
    <3>2. a \in DOMAIN nodes /\ IsNode(members, nodes[a], k, i)
      BY <1>3, <3>1 DEF LevelsWritten
    <3> HIDE DEF a
    <3>3. a \notin slots /\ a \in DOMAIN file
      BY <1>4, <1>5, <1>6, <1>7, <3>2
    <3>4. file[a] = nodes[a]
      BY <1>7, <3>3
    <3> QED
      BY <3>2, <3>3, <3>4 DEF a
  <2> QED
    BY <2>1, <2>2
<1>10. ASSUME NEW a \in DOMAIN file
       PROVE  \E k \in 0..l : \E i \in 1..Entries(members, k + 1) : a = NodeAddr(members, k, i)
  <2>1. CASE a \in DOMAIN nodes
    <3>1. PICK k \in 0..(l - 1) : \E i \in 1..Entries(members, k + 1) : a = NodeAddr(members, k, i)
      BY <1>3, <2>1 DEF LevelsWritten
    <3>2. k \in 0..l
      BY <1>2
    <3> QED
      BY <3>1, <3>2
  <2>2. CASE a \in slots
    <3> DEFINE i == a - base + 1
    <3>1. i \in 1..e /\ a = base + i - 1
      BY <1>4, <1>6, <2>2
    <3>2. l \in 0..l /\ i \in 1..Entries(members, l + 1) /\ a = NodeAddr(members, l, i)
      BY <1>2, <3>1 DEF NodeAddr, e, base
    <3> QED
      BY <3>2
  <2> QED
    BY <1>7, <2>1, <2>2
<1>11. l + 1 - 1 = l /\ base + e - 1 = Foot(members, l + 1) - 1
  BY <1>2, <1>4
<1>12. LevelsWritten(members, file, l + 1)
  <2>1. DOMAIN file = 0..(Foot(members, l + 1) - 1)
    BY <1>8, <1>11
  <2> DEFINE m == l + 1
  <2>2. m - 1 = l
    BY <1>2
  <2> HIDE DEF m
  <2>3. LevelsWritten(members, file, m)
    BY <1>9, <1>10, <2>1, <2>2 DEF LevelsWritten, m
  <2> QED
    BY <2>3 DEF m
<1> QED
  BY <1>12 DEF l, file

LEMMA BuildingContinues ==
    ASSUME Building, WriteGroupLevel
    PROVE  Building'
<1>1. /\ tabling = "write" /\ members' = members /\ level' = level + 1
      /\ heap' = heap /\ entries' = entries /\ levels' = levels
      /\ tabling' = IF level' = Len(levels) THEN "written" ELSE "write"
      /\ below' = [keys |-> [i \in 1..NodesOnGroupLevel |-> Last(GroupKeys(i))],
                   children |-> [i \in 1..NodesOnGroupLevel |-> FirstNode + i - 1]]
  BY DEF WriteGroupLevel, planVars
<1>2. /\ level \in 0..(Height(members) - 1) /\ FirstNode = Foot(members, level)
      /\ NodesOnGroupLevel = Entries(members, level + 1)
  BY <1>1, NextLevel
<1>3. /\ heap = Texts(members) /\ entries = Table(members) /\ levels = Planned(members)
      /\ members \in MemberList
  BY <1>1 DEF Building
<1>4. Len(levels) = Height(members) /\ Height(members) \in Nat
  BY <1>3, GroupFacts, EntriesAre DEF Height, TreeHeight, Planned
<1>5. LevelsWritten(members, nodes', level + 1)
  BY LevelIsWritten
<1>6. ASSUME tabling' = "write" PROVE below' = MadeOf(members, level + 1)
  <2>1. level + 1 # Height(members) /\ level + 1 # 0 /\ level + 1 - 1 = level
    BY <1>1, <1>2, <1>4, <1>6
  <2>2. \A i \in 1..Entries(members, level + 1) : Last(GroupKeys(i)) = EntryKey(members, level + 1, i)
    BY <1>1, <2>1, NodeIsWritten
  <2>3. \A i \in 1..Entries(members, level + 1) : FirstNode + i - 1 = EntryAddr(members, level + 1, i)
    BY <1>2, <2>1 DEF EntryAddr, NodeAddr
  <2> QED
    BY <1>1, <1>2, <2>2, <2>3 DEF MadeOf
<1>7. level + 1 \in 0..Height(members) /\ (tabling' = "written" <=> level + 1 = Height(members))
  BY <1>1, <1>2, <1>4
<1>8. tabling' \in {"write", "written"}
  BY <1>1
<1> QED
  BY <1>1, <1>3, <1>5, <1>6, <1>7, <1>8 DEF Building

LEMMA BuildingHolds ==
    ASSUME Building, [GroupNext]_groupVars
    PROVE  Building'
<1>1. CASE WriteGroupLevel
  BY <1>1, BuildingContinues
<1>2. CASE PlanGroup
  <2>1. /\ tabling = "plan" /\ tabling' = "snods" /\ members' = members
        /\ level' = level /\ nodes' = nodes /\ heap' = Texts(members)
        /\ entries' = Table(members) /\ levels' = Planned(members)
    BY <1>2 DEF PlanGroup, tableVars, Texts, Table, GroupLevels, SnodCount, Planned, Units, Arity
  <2>2. level = 0 /\ nodes = <<>>
    BY <2>1 DEF Building
  <2> QED
    BY <2>1, <2>2 DEF Building
<1>3. CASE WriteSnods
  <2>1. /\ tabling = "snods" /\ tabling' = "write" /\ members' = members
        /\ level' = level /\ nodes' = nodes /\ heap' = heap
        /\ entries' = entries /\ levels' = levels
        /\ below' = [keys |-> [i \in 1..SnodCount |-> ClosingKey(Snod(i))],
                     children |-> [i \in 1..SnodCount |-> SnodBase + i - 1]]
    BY <1>3 DEF WriteSnods, planVars
  <2>2. /\ level = 0 /\ nodes = <<>> /\ members \in MemberList /\ heap = Texts(members)
        /\ entries = Table(members) /\ levels = Planned(members)
    BY <2>1 DEF Building
  <2>3. IsGroup(members) /\ Units(members) \in Nat \ {0}
    BY GroupFacts, UnitsAre
  <2>4. Height(members) \in Nat \ {0} /\ Foot(members, 0) = 0
    BY <2>3, EntriesAre
  <2>5. LevelsWritten(members, nodes', 0)
    <3>1. DOMAIN <<>> = {} /\ 0..(0 - 1) = {}
      OBVIOUS
    <3>2. DOMAIN nodes' = {}
      BY <2>1, <2>2, <3>1
    <3> QED
      BY <2>4, <3>1, <3>2 DEF LevelsWritten
  <2>6. below' = MadeOf(members, 0)
    <3>1. SnodCount = Entries(members, 0) /\ Entries(members, 0) = Units(members)
      BY DEF SnodCount, Units, Entries, TreeEntries
    <3>2. ASSUME NEW n \in 1..Entries(members, 0)
          PROVE  /\ ClosingKey(Snod(n)) = EntryKey(members, 0, n)
                 /\ SnodBase + n - 1 = EntryAddr(members, 0, n)
      <4>1. n + 1 \in 1..(Units(members) + 1) /\ n + 1 - 1 = n
        BY <2>3, <3>1
      <4> DEFINE m == n + 1
      <4> HIDE DEF m
      <4>2. First(members, 0, m) = m
        BY <2>3, <4>1, StartsAre DEF m
      <4> QED
        BY <2>2, <4>1, <4>2 DEF EntryKey, EntryAddr, CloseKey, UnitRun, Snod, SnodBase, m
    <3> QED
      BY <2>1, <3>1, <3>2 DEF MadeOf
  <2>7. 0 \in 0..Height(members) /\ 0 # Height(members)
    BY <2>4
  <2> QED
    BY <2>1, <2>2, <2>5, <2>6, <2>7 DEF Building
<1>4. CASE RefuseGroup
  <2>1. tabling' = "failed" /\ members' = members
    BY <1>4 DEF RefuseGroup
  <2> QED
    BY <2>1 DEF Building
<1>5. CASE UNCHANGED <<members, tabling, planVars, tableVars>>
  <2>1. /\ members' = members /\ tabling' = tabling /\ levels' = levels /\ level' = level
        /\ below' = below /\ nodes' = nodes /\ heap' = heap /\ entries' = entries
    BY <1>5 DEF tableVars, planVars
  <2> QED
    BY <2>1 DEF Building
<1>6. ASSUME NEW name \in Name, StartLookup(name)
      PROVE  UNCHANGED <<members, tabling, planVars, tableVars>>
  BY <1>6 DEF StartLookup
<1>7. ProbeNode \/ ProbeSnod \/ GiveUpLookup => UNCHANGED <<members, tabling, planVars, tableVars>>
  BY DEF ProbeNode, ProbeSnod, GiveUpLookup
<1>8. groupVars' = groupVars => UNCHANGED <<members, tabling, planVars, tableVars>>
  BY DEF groupVars
<1> QED
  BY <1>1, <1>2, <1>3, <1>4, <1>5, <1>6, <1>7, <1>8 DEF GroupNext

LEMMA BuildingStarts ==
    ASSUME GroupInit
    PROVE  Building
<1>1. members \in MemberList /\ tabling = "plan" /\ level = 0 /\ nodes = <<>>
  BY DEF GroupInit
<1> QED
  BY <1>1 DEF Building

\* The nodes that a tree is made of, once it is written.
LEMMA WrittenNodes ==
    ASSUME Building, tabling = "written"
    PROVE  /\ LevelsWritten(members, nodes, Height(members))
           /\ IsGroup(members) /\ Units(members) \in Nat \ {0}
           /\ heap = Texts(members) /\ entries = Table(members) /\ levels = Planned(members)
           /\ Height(members) \in Nat \ {0} /\ Arity \in Nat \ {0}
           /\ Entries(members, Height(members)) = 1
           /\ GroupRoot = NodeAddr(members, Height(members) - 1, 1)
           /\ \A k \in 0..(Height(members) - 1) : \A i \in 1..Entries(members, k + 1) :
                  /\ NodeAddr(members, k, i) \in Nat
                  /\ IsNode(members, nodes[NodeAddr(members, k, i)], k, i)
<1> DEFINE h == Height(members)
<1>1. /\ heap = Texts(members) /\ entries = Table(members) /\ levels = Planned(members)
      /\ LevelsWritten(members, nodes, h)
  BY DEF Building
<1>2. Units(members) \in Nat \ {0} /\ IsGroup(members)
  BY GroupFacts, UnitsAre
<1>3. /\ h \in Nat \ {0} /\ Entries(members, h) = 1 /\ Arity \in Nat \ {0}
      /\ Planned(members) \in Seq(Nat) /\ Len(levels) = h
      /\ \A k \in 0..h : Foot(members, k) \in Nat
  BY <1>1, <1>2, EntriesAre DEF Height, TreeHeight, Planned
<1> HIDE DEF h
<1>4. ASSUME NEW k \in 0..(h - 1), NEW i \in 1..Entries(members, k + 1)
      PROVE  /\ NodeAddr(members, k, i) \in Nat
             /\ IsNode(members, nodes[NodeAddr(members, k, i)], k, i)
  <2>1. NodeAddr(members, k, i) \in DOMAIN nodes /\ DOMAIN nodes = 0..(Foot(members, h) - 1)
    BY <1>1 DEF LevelsWritten
  <2>2. IsNode(members, nodes[NodeAddr(members, k, i)], k, i)
    BY <1>1 DEF LevelsWritten
  <2>3. NodeAddr(members, k, i) \in Nat
    BY <2>1
  <2> QED
    BY <2>2, <2>3
<1>5. GroupRoot = NodeAddr(members, h - 1, 1)
  <2>1. DOMAIN levels = 1..h /\ h \in 1..h /\ h - 1 \in 0..h
    BY <1>1, <1>3
  <2> DEFINE addrs == LevelAddrs(levels, 0)
  <2>2. DOMAIN addrs = 1..h /\ addrs[h] = 0 + Foot(members, h - 1)
    BY <1>1, <2>1 DEF LevelAddrs, Foot, TreeBase, Planned
  <2>3. Len(addrs) = h
    <3>1. \A l \in 1..h : addrs[l] \in Nat
      <4> SUFFICES ASSUME NEW l \in 1..h PROVE addrs[l] \in Nat
        OBVIOUS
      <4>1. l - 1 \in 0..h /\ addrs[l] = 0 + Foot(members, l - 1)
        BY <1>1, <1>3, <2>1 DEF LevelAddrs, Foot, TreeBase, Planned
      <4> QED
        BY <1>3, <4>1
    <3>2. addrs = [l \in 1..h |-> addrs[l]]
      BY <2>1 DEF LevelAddrs
    <3> HIDE DEF addrs
    <3>3. addrs \in [1..h -> Nat]
      BY <3>1, <3>2
    <3> QED
      BY <1>3, <3>3
  <2>4. GroupRoot = addrs[h]
    BY <2>3 DEF GroupRoot, RootAddr, Last
  <2>5. Foot(members, h - 1) \in Nat
    BY <1>3, <2>1
  <2> HIDE DEF addrs
  <2> QED
    BY <2>2, <2>4, <2>5 DEF NodeAddr
<1> QED
  BY <1>1, <1>2, <1>3, <1>4, <1>5 DEF h
-----------------------------------------------------------------------------
(* Looking a name up *)

\* A lookup at the i-th node of level k: a link of that name is under the children still
\* in question.
TreeSearch(links, s, name, k, i) ==
    /\ s \in [at : Nat, lt : Nat, rt : Nat]
    /\ s.at = NodeAddr(links, k, i)
    /\ 1 <= s.lt /\ s.lt <= s.rt /\ s.rt <= Fanout(links, k, i) + 1
    /\ \A q \in 1..Len(links) :
           NameAt(links, q) = name =>
               /\ Upto(links, First(links, k, (i - 1) * Arity + s.lt) - 1) < q
               /\ q <= Upto(links, First(links, k, (i - 1) * Arity + s.rt) - 1)

\* A lookup in the u-th symbol table node: a link of that name is among the entries still
\* in question.
SnodSearch(links, s, name, u) ==
    /\ s \in [at : Nat, lt : Nat, rt : Nat]
    /\ s.at = NodeCount(Planned(links)) + u - 1
    /\ 1 <= s.lt /\ s.lt <= s.rt /\ s.rt <= Upto(links, u) - Upto(links, u - 1) + 1
    /\ \A q \in 1..Len(links) :
           NameAt(links, q) = name =>
               /\ Upto(links, u - 1) + s.lt <= q
               /\ q < Upto(links, u - 1) + s.rt

Somewhere(links, s, in_snod, name) ==
    IF in_snod THEN \E u \in 1..Units(links) : SnodSearch(links, s, name, u)
    ELSE \E k \in 0..(Height(links) - 1) : \E i \in 1..Entries(links, k + 1) :
             TreeSearch(links, s, name, k, i)

\* What a lookup is to come back with.
IsFound(links, name, entry) ==
    \/ \E q \in 1..Len(links) : NameAt(links, q) = name /\ entry = Table(links)[q]
    \/ (\A q \in 1..Len(links) : NameAt(links, q) # name) /\ entry = None

Looking ==
    /\ tabling # "written" => search = Idle /\ wanted = 0
    /\ search # Idle => /\ wanted \in Name /\ found = None
                        /\ inSnod \in BOOLEAN
                        /\ Somewhere(members, search, inSnod, wanted)
    /\ search = Idle /\ wanted # 0 => IsFound(members, wanted, found)

NamesOrdered(links) ==
    /\ \A q \in 1..Len(links) : NameAt(links, q) \in Nat \ {0}
    /\ \A p, q \in 1..Len(links) : p < q => NameAt(links, p) < NameAt(links, q)

LEMMA NamesAreOrdered ==
    ASSUME NEW links, IsGroup(links)
    PROVE  NamesOrdered(links)
<1>1. ASSUME NEW q \in 1..Len(links) PROVE NameAt(links, q) \in Nat \ {0}
  <2>1. SortedLinks(links)[q] \in Link
    BY TableIs
  <2> QED
    BY <2>1, LinkIs DEF NameAt
<1>2. \A p, q \in 1..Len(links) : p < q => NameAt(links, p) < NameAt(links, q)
  BY SortedAre DEF NameAt
<1> QED
  BY <1>1, <1>2 DEF NamesOrdered

\* Entering a node: all its children are in question.
LEMMA NodeIsEntered ==
    ASSUME Building, tabling = "written",
           NEW k \in 0..(Height(members) - 1), NEW i \in 1..Entries(members, k + 1), NEW name,
           \A q \in 1..Len(members) :
               NameAt(members, q) = name =>
                   /\ Upto(members, First(members, k + 1, i) - 1) < q
                   /\ q <= Upto(members, First(members, k + 1, i + 1) - 1),
           NEW s, s = SearchFrom(NodeAddr(members, k, i), Len(nodes[NodeAddr(members, k, i)].children))
    PROVE  Somewhere(members, s, FALSE, name) /\ s # Idle
<1> DEFINE n == Fanout(members, k, i)
           f == (i - 1) * Arity
<1>1. /\ NodeAddr(members, k, i) \in Nat /\ IsGroup(members) /\ Arity \in Nat
      /\ IsNode(members, nodes[NodeAddr(members, k, i)], k, i)
  BY WrittenNodes
<1>2. /\ n \in 1..Arity /\ f \in Nat
      /\ First(members, k, f + 1) = First(members, k + 1, i)
      /\ First(members, k, f + n + 1) = First(members, k + 1, i + 1)
  BY <1>1, FanoutIs
<1>3. s = [at |-> NodeAddr(members, k, i), lt |-> 1, rt |-> n + 1]
  BY <1>1 DEF SearchFrom, IsNode
<1> HIDE DEF n, f
<1>4. /\ s \in [at : Nat, lt : Nat, rt : Nat] /\ s.at = NodeAddr(members, k, i) /\ s.lt = 1
      /\ s.rt = n + 1
  BY <1>1, <1>2, <1>3
<1>5. f + (n + 1) = f + n + 1
  BY <1>1, <1>2
<1>6. \A q \in 1..Len(members) :
          NameAt(members, q) = name =>
              /\ Upto(members, First(members, k, f + s.lt) - 1) < q
              /\ q <= Upto(members, First(members, k, f + s.rt) - 1)
  BY <1>2, <1>4, <1>5
<1>7. 1 <= s.lt /\ s.lt <= s.rt /\ s.rt <= n + 1
  BY <1>1, <1>2, <1>4
<1>8. TreeSearch(members, s, name, k, i)
  BY <1>4, <1>6, <1>7 DEF TreeSearch, n, f
<1>9. s # Idle
  BY <1>4 DEF Idle
<1> QED
  BY <1>8, <1>9 DEF Somewhere

\* Entering a symbol table node: all its entries are.
LEMMA SnodIsEntered ==
    ASSUME Building, tabling = "written", NEW u \in 1..Units(members), NEW name,
           \A q \in 1..Len(members) :
               NameAt(members, q) = name =>
                   Upto(members, u - 1) < q /\ q <= Upto(members, u),
           NEW s, s = SearchFrom(EntryAddr(members, 0, u), Len(UnitRun(members, u)))
    PROVE  Somewhere(members, s, TRUE, name) /\ s # Idle
<1> DEFINE a == Upto(members, u - 1)
           b == Upto(members, u)
           n == Len(members)
<1>1. IsGroup(members)
  BY GroupFacts
<1>2. n \in Nat /\ a \in Nat /\ b \in Nat /\ a <= b /\ EntryAddr(members, 0, u) \in Nat
  <2>1. Units(members) \in Nat
    BY <1>1, UnitsAre
  <2>2. u - 1 \in 0..Units(members) /\ u \in 0..Units(members)
    BY <2>1
  <2>3. n \in Nat /\ a \in 0..n /\ b \in 0..n /\ a <= b
    BY <1>1, <2>2, UnitsAre
  <2>4. Height(members) \in Nat \ {0} /\ Entries(members, 0) = Units(members)
    BY <1>1, EntriesAre DEF Entries, TreeEntries
  <2>5. 0 \in 0..Height(members) /\ u \in 1..Entries(members, 0)
    BY <2>4
  <2>6. EntryAddr(members, 0, u) \in Nat
    BY <1>1, <2>5, EntriesLead
  <2> QED
    BY <2>3, <2>6
<1>3. Len(UnitRun(members, u)) = b - a
  BY <1>1, UnitRunIs
<1>4. EntryAddr(members, 0, u) = NodeCount(Planned(members)) + u - 1
  BY DEF EntryAddr
<1>5. \A q \in 1..n : NameAt(members, q) = name => a < q /\ q <= b
  OBVIOUS
<1>6. s = [at |-> EntryAddr(members, 0, u), lt |-> 1, rt |-> b - a + 1]
  BY <1>3 DEF SearchFrom
<1> HIDE DEF a, b, n
<1>7. /\ s \in [at : Nat, lt : Nat, rt : Nat] /\ s.at = EntryAddr(members, 0, u) /\ s.lt = 1
      /\ s.rt = b - a + 1
  BY <1>2, <1>6
<1>8. 1 <= s.lt /\ s.lt <= s.rt /\ s.rt <= b - a + 1
  BY <1>2, <1>7
<1>9. \A q \in 1..n : NameAt(members, q) = name => a + s.lt <= q /\ q < a + s.rt
  BY <1>2, <1>5, <1>7
<1>10. SnodSearch(members, s, name, u)
  BY <1>4, <1>7, <1>8, <1>9 DEF SnodSearch, a, b, n
<1>11. s # Idle
  BY <1>7 DEF Idle
<1> QED
  BY <1>10, <1>11 DEF Somewhere

LEMMA LookupStarts ==
    ASSUME Building, NEW name \in Name, StartLookup(name)
    PROVE  Looking'
<1>1. /\ tabling = "written" /\ tabling' = tabling /\ members' = members
      /\ search' = SearchFrom(GroupRoot, Len(nodes[GroupRoot].children)) /\ wanted' = name /\ found' = None
      /\ inSnod' = FALSE
  BY DEF StartLookup
<1> DEFINE h == Height(members)
           k == h - 1
<1>2. /\ IsGroup(members) /\ h \in Nat \ {0} /\ Entries(members, h) = 1
      /\ Units(members) \in Nat \ {0} /\ GroupRoot = NodeAddr(members, h - 1, 1)
  BY <1>1, WrittenNodes
<1>3. k \in 0..(h - 1) /\ k + 1 = h /\ 1 \in 1..Entries(members, k + 1) /\ h \in 0..h
  BY <1>2
<1>4. First(members, h, 1) = 1 /\ First(members, h, 1 + 1) = Units(members) + 1
  BY <1>2, <1>3, StartsAre
<1>5. /\ Upto(members, First(members, k + 1, 1) - 1) = 0
      /\ Upto(members, First(members, k + 1, 1 + 1) - 1) = Len(members)
  <2>1. First(members, k + 1, 1) - 1 = 0 /\ First(members, k + 1, 1 + 1) - 1 = Units(members)
    BY <1>2, <1>3, <1>4
  <2> QED
    BY <1>2, <2>1, UnitsAre
<1>6. \A q \in 1..Len(members) : /\ Upto(members, First(members, k + 1, 1) - 1) < q
                                 /\ q <= Upto(members, First(members, k + 1, 1 + 1) - 1)
  <2>1. Len(members) \in Nat
    BY <1>2, UnitsAre
  <2> QED
    BY <1>5, <2>1
<1>7. GroupRoot = NodeAddr(members, k, 1)
  BY <1>2
<1>8. Somewhere(members, search', FALSE, name) /\ search' # Idle
  <2> HIDE DEF k
  <2> QED
    BY <1>1, <1>3, <1>6, <1>7, NodeIsEntered DEF k
<1> QED
  BY <1>1, <1>8 DEF Looking

\* A link of the name that is wanted.
IsWanted(q) == q \in 1..Len(members) /\ NameAt(members, q) = wanted

\* What a lookup has in hand when it probes a child.
ProbeIs(k, i) ==
    LET p == Probed(search)
        m == (i - 1) * Arity + p
    IN  /\ TreeSearch(members, search, wanted, k, i)
        /\ p \in Nat \ {0} /\ search.lt <= p /\ p < search.rt
        /\ m \in 1..Entries(members, k)
        /\ nodes[search.at].level = k
        /\ ProbedChild = EntryAddr(members, k, m)
        /\ LeftName \in Nat /\ RightName \in Nat
        /\ p = 1 => LeftName = 0
        /\ \A q : IsWanted(q) =>
               /\ p # 1 => (wanted <= LeftName <=> q <= Upto(members, First(members, k, m) - 1))
               /\ wanted <= RightName <=> q <= Upto(members, First(members, k, m + 1) - 1)

LEMMA Probing ==
    ASSUME Building, Looking, search # Idle, ~inSnod, ~Exhausted(search)
    PROVE  \E k \in 0..(Height(members) - 1) : \E i \in 1..Entries(members, k + 1) : ProbeIs(k, i)
<1>0. tabling = "written" /\ wanted \in Name /\ Somewhere(members, search, FALSE, wanted)
  BY DEF Looking, Somewhere
<1>1. PICK k \in 0..(Height(members) - 1) :
        \E i \in 1..Entries(members, k + 1) : TreeSearch(members, search, wanted, k, i)
  BY <1>0 DEF Somewhere
<1>2. PICK i \in 1..Entries(members, k + 1) : TreeSearch(members, search, wanted, k, i)
  BY <1>1
<1> DEFINE f == (i - 1) * Arity
           p == Probed(search)
           e == Fanout(members, k, i)
           m == f + p
           node == nodes[search.at]
<1>3. /\ IsGroup(members) /\ Arity \in Nat \ {0}
      /\ Height(members) \in Nat /\ heap = Texts(members)
      /\ IsNode(members, nodes[NodeAddr(members, k, i)], k, i)
  BY <1>0, WrittenNodes
<1>4. e \in 1..Arity /\ f \in Nat /\ f + e <= Entries(members, k)
  BY <1>3, FanoutIs
<1>5. /\ search \in [at : Nat, lt : Nat, rt : Nat] /\ search.at = NodeAddr(members, k, i)
      /\ 1 <= search.lt /\ search.rt <= e + 1 /\ search.lt < search.rt
  BY <1>2 DEF TreeSearch, Exhausted
<1>6. search.lt <= p /\ p < search.rt /\ p \in Nat
  <2> DEFINE a == search.lt
             b == search.rt
  <2>1. a \in Nat /\ b \in Nat /\ a < b
    BY <1>5
  <2> HIDE DEF a, b
  <2>2. (a + b) \div 2 >= a /\ (a + b) \div 2 < b /\ (a + b) \div 2 \in Nat
    BY <2>1
  <2> QED
    BY <2>2 DEF Probed, a, b
<1> HIDE DEF f, p, e
<1>7. /\ p \in 1..e /\ m \in 1..Entries(members, k) /\ k \in 0..Height(members)
      /\ Entries(members, k) \in Nat
  <2>1. k \in 0..Height(members)
    BY <1>3
  <2>2. Entries(members, k) \in Nat
    BY <1>3, <2>1, EntriesAre
  <2> QED
    BY <1>4, <1>5, <1>6, <2>1, <2>2
<1>8. /\ node.level = k
      /\ \A j \in 1..e : node.children[j] = EntryAddr(members, k, f + j)
      /\ node.keys[1] = 0
      /\ \A j \in 1..e : node.keys[j + 1] = EntryKey(members, k, f + j)
  BY <1>3, <1>5 DEF IsNode, e, f
<1>9. ProbedChild = EntryAddr(members, k, m)
  BY <1>7, <1>8 DEF ProbedChild, p
<1>10. /\ RightName \in Nat
       /\ \A q : IsWanted(q) =>
              (wanted <= RightName <=> q <= Upto(members, First(members, k, m + 1) - 1))
  <2>1. RightName = Texts(members)[EntryKey(members, k, m)]
    BY <1>3, <1>7, <1>8 DEF RightName, p
  <2> HIDE DEF m
  <2> QED
    BY <1>3, <1>7, <2>1, EntriesLead DEF IsWanted
<1>11. CASE p = 1
  <2>1. LeftName = 0
    <3>1. LeftName = Texts(members)[0]
      BY <1>3, <1>8, <1>11 DEF LeftName, p
    <3> QED
      BY <1>3, <3>1, TableIs DEF NoText
  <2> QED
    BY <1>2, <1>6, <1>7, <1>8, <1>9, <1>10, <1>11, <2>1 DEF ProbeIs, p, f
<1>12. CASE p # 1
  <2> DEFINE j == p - 1
             l == f + j
  <2>1. j \in 1..e /\ j + 1 = p /\ l \in 1..Entries(members, k) /\ l + 1 = m
    BY <1>4, <1>7, <1>12
  <2>2. node.keys[p] = EntryKey(members, k, l)
    BY <1>8, <2>1
  <2>3. LeftName = Texts(members)[EntryKey(members, k, l)]
    BY <1>3, <2>2 DEF LeftName, p
  <2> HIDE DEF j, l, m
  <2>4. /\ LeftName \in Nat
        /\ \A q : IsWanted(q) =>
               (wanted <= LeftName <=> q <= Upto(members, First(members, k, l + 1) - 1))
    BY <1>3, <1>7, <2>1, <2>3, EntriesLead DEF IsWanted
  <2>5. \A q : IsWanted(q) =>
               (wanted <= LeftName <=> q <= Upto(members, First(members, k, m) - 1))
    BY <2>1, <2>4
  <2>6. p \in Nat \ {0}
    BY <1>7
  <2> QED
    BY <1>2, <1>6, <1>7, <1>8, <1>9, <1>10, <1>12, <2>4, <2>5, <2>6 DEF ProbeIs, p, f, m
<1> QED
  BY <1>11, <1>12

LEMMA LookupProbes ==
    ASSUME Building, Looking, ProbeNode
    PROVE  Looking'
<1>1. /\ search # Idle /\ ~inSnod /\ ~Exhausted(search)
      /\ members' = members /\ tabling' = tabling /\ wanted' = wanted /\ found' = found
  BY DEF ProbeNode
<1>2. tabling = "written" /\ wanted \in Name /\ found = None /\ inSnod = FALSE
  BY <1>1 DEF Looking
<1>3. PICK k \in 0..(Height(members) - 1) :
        \E i \in 1..Entries(members, k + 1) : ProbeIs(k, i)
  BY <1>1, Probing
<1>4. PICK i \in 1..Entries(members, k + 1) : ProbeIs(k, i)
  BY <1>3
<1> DEFINE f == (i - 1) * Arity
           p == Probed(search)
           m == f + p
           h == Height(members)
           e == Fanout(members, k, i)
           To(l) == Upto(members, First(members, k, l) - 1)
<1>5. /\ TreeSearch(members, search, wanted, k, i)
      /\ p \in Nat \ {0} /\ search.lt <= p /\ p < search.rt
      /\ m \in 1..Entries(members, k)
      /\ nodes[search.at].level = k
      /\ ProbedChild = EntryAddr(members, k, m)
      /\ LeftName \in Nat /\ RightName \in Nat
      /\ p = 1 => LeftName = 0
      /\ \A q : IsWanted(q) => /\ p # 1 => (wanted <= LeftName <=> q <= To(m))
                               /\ wanted <= RightName <=> q <= To(m + 1)
  BY <1>4 DEF ProbeIs
<1>6. /\ search \in [at : Nat, lt : Nat, rt : Nat] /\ search.at = NodeAddr(members, k, i)
      /\ 1 <= search.lt /\ search.rt <= e + 1
      /\ \A q : IsWanted(q) => To(f + search.lt) < q /\ q <= To(f + search.rt)
  BY <1>5 DEF TreeSearch, IsWanted
<1>7. /\ IsGroup(members) /\ h \in Nat \ {0} /\ Arity \in Nat \ {0} /\ wanted \in Nat \ {0}
      /\ entries = Table(members) /\ levels = Planned(members)
  BY <1>2, WrittenNodes, NamesAreNumbers
<1>8. e \in 1..Arity /\ f \in Nat
  BY <1>7, FanoutIs
<1> HIDE DEF f, p, h, To, e
\* The lookup stays at its node and drops the children that cannot be meant.
<1>9. ASSUME NEW s \in [at : Nat, lt : Nat, rt : Nat], search' = s, inSnod' = inSnod,
             s.at = search.at, 1 <= s.lt, s.lt <= s.rt, s.rt <= search.rt,
             \A q : IsWanted(q) => To(f + s.lt) < q /\ q <= To(f + s.rt)
      PROVE  Looking'
  <2>1. s.rt <= e + 1
    BY <1>6, <1>7, <1>8, <1>9
  <2>2. TreeSearch(members, s, wanted, k, i)
    BY <1>6, <1>9, <2>1 DEF TreeSearch, f, To, e, IsWanted
  <2>3. s # Idle
    BY <1>9 DEF Idle
  <2>4. Somewhere(members, s, FALSE, wanted)
    BY <2>2 DEF Somewhere
  <2> QED
    BY <1>1, <1>2, <1>9, <2>3, <2>4 DEF Looking
<1>10. CASE wanted <= LeftName /\ search' = GoLeft(search) /\ inSnod' = inSnod
  <2> DEFINE s == [search EXCEPT !.rt = p]
  <2>1. search' = s
    BY <1>10 DEF GoLeft, p
  <2>2. /\ s \in [at : Nat, lt : Nat, rt : Nat] /\ s.at = search.at /\ s.lt = search.lt
        /\ s.rt = p
    BY <1>5, <1>6
  <2> HIDE DEF s
  <2>3. p # 1
    BY <1>5, <1>7, <1>10
  <2>4. \A q : IsWanted(q) => To(f + s.lt) < q /\ q <= To(f + s.rt)
    BY <1>5, <1>6, <1>10, <2>2, <2>3 DEF m
  <2>5. s.lt <= s.rt /\ s.rt <= search.rt
    BY <1>5, <1>6, <2>2
  <2> QED
    BY <1>6, <1>9, <1>10, <2>1, <2>2, <2>4, <2>5
<1>11. CASE wanted > RightName /\ search' = GoRight(search) /\ inSnod' = inSnod
  <2> DEFINE s == [search EXCEPT !.lt = p + 1]
  <2>1. search' = s
    BY <1>11 DEF GoRight, p
  <2>2. /\ s \in [at : Nat, lt : Nat, rt : Nat] /\ s.at = search.at /\ s.lt = p + 1
        /\ s.rt = search.rt
    BY <1>5, <1>6
  <2> HIDE DEF s
  <2>3. ~(wanted <= RightName) /\ f + s.lt = m + 1
    BY <1>5, <1>7, <1>8, <1>11, <2>2
  <2>4. ASSUME NEW q, IsWanted(q) PROVE To(f + s.lt) < q
    <3>1. ~(q <= To(m + 1))
      BY <1>5, <2>3, <2>4
    <3>2. q \in Int /\ To(m + 1) \in Int
      <4>1. Len(members) \in Nat /\ Units(members) \in Nat
        BY <1>7, UnitsAre
      <4>2. k \in 0..h /\ m + 1 \in Nat \ {0}
        <5>1. k \in 0..h
          BY <1>7 DEF h
        <5>2. Entries(members, k) \in Nat
          BY <1>7, <5>1, EntriesAre DEF h
        <5> QED
          BY <1>5, <5>1, <5>2
      <4> DEFINE l == m + 1
      <4> HIDE DEF l, m
      <4>3. First(members, k, l) \in 1..(Units(members) + 1)
        BY <1>7, <4>2, StartsAre DEF l, h
      <4>4. First(members, k, l) - 1 \in 0..Units(members)
        BY <4>1, <4>3
      <4>5. To(l) \in 0..Len(members)
        BY <1>7, <4>4, UnitsAre DEF To
      <4> QED
        BY <2>4, <4>1, <4>5 DEF l, IsWanted
    <3> HIDE DEF m
    <3>3. To(m + 1) < q
      BY <3>1, <3>2
    <3> QED
      BY <2>3, <3>3
  <2>5. 1 <= s.lt /\ s.lt <= s.rt /\ s.rt <= search.rt
    BY <1>5, <1>6, <2>2
  <2>6. \A q : IsWanted(q) => To(f + s.lt) < q /\ q <= To(f + s.rt)
    BY <1>6, <2>2, <2>4
  <2> QED
    BY <1>6, <1>9, <1>11, <2>1, <2>2, <2>5, <2>6
\* The lookup goes down to a child: the link that is wanted is under it.
<1>12. ASSUME LeftName < wanted, wanted <= RightName, NEW q, IsWanted(q)
       PROVE  To(m) < q /\ q <= To(m + 1)
  <2>1. q <= To(m + 1)
    BY <1>5, <1>12
  <2>2. CASE p = 1
    <3>1. search.lt = p
      BY <1>5, <1>6, <2>2
    <3> QED
      BY <1>6, <1>12, <2>1, <3>1
  <2>3. CASE p # 1
    <3>1. ~(wanted <= LeftName)
      BY <1>5, <1>7, <1>12
    <3>2. ~(q <= To(m))
      BY <1>5, <1>12, <2>3, <3>1
    <3>3. q \in Int /\ To(m) \in Int
      <4>1. Len(members) \in Nat /\ Units(members) \in Nat
        BY <1>7, UnitsAre
      <4>2. k \in 0..h /\ m \in Nat \ {0}
        <5>1. k \in 0..h
          BY <1>7 DEF h
        <5>2. Entries(members, k) \in Nat
          BY <1>7, <5>1, EntriesAre DEF h
        <5> QED
          BY <1>5, <5>1, <5>2
      <4> HIDE DEF m
      <4>3. First(members, k, m) \in 1..(Units(members) + 1)
        BY <1>7, <4>2, StartsAre DEF h
      <4>4. First(members, k, m) - 1 \in 0..Units(members)
        BY <4>1, <4>3
      <4>5. To(m) \in 0..Len(members)
        BY <1>7, <4>4, UnitsAre DEF To
      <4> QED
        BY <1>12, <4>1, <4>5 DEF IsWanted
    <3> HIDE DEF m
    <3>4. To(m) < q
      BY <3>2, <3>3
    <3> QED
      BY <2>1, <3>4
  <2> QED
    BY <2>2, <2>3
<1>13. CASE /\ LeftName < wanted /\ wanted <= RightName
            /\ nodes[search.at].level > 0
            /\ search' = SearchFrom(ProbedChild, Len(nodes[ProbedChild].children))
            /\ inSnod' = inSnod
  <2>1. k # 0
    BY <1>5, <1>13
  <2> DEFINE j == k - 1
  <2>2. j \in 0..(h - 1) /\ j + 1 = k
    BY <1>7, <2>1 DEF h
  <2>3. m \in 1..Entries(members, j + 1)
    BY <1>5, <2>2
  <2>4. ProbedChild = NodeAddr(members, j, m)
    BY <1>5, <2>1 DEF EntryAddr
  <2> HIDE DEF j, m
  <2>5. \A q \in 1..Len(members) : NameAt(members, q) = wanted =>
            /\ Upto(members, First(members, j + 1, m) - 1) < q
            /\ q <= Upto(members, First(members, j + 1, m + 1) - 1)
    BY <1>12, <1>13, <2>2 DEF IsWanted, To
  <2>6. Somewhere(members, search', FALSE, wanted) /\ search' # Idle
    BY <1>2, <1>13, <2>2, <2>3, <2>4, <2>5, NodeIsEntered DEF h
  <2> QED
    BY <1>1, <1>2, <1>13, <2>6 DEF Looking
<1>14. CASE /\ LeftName < wanted /\ wanted <= RightName
            /\ nodes[search.at].level = 0
            /\ search' = SearchFrom(ProbedChild, Len(SnodAt(ProbedChild)))
            /\ inSnod' = TRUE
  <2>1. k = 0 /\ ProbedChild = EntryAddr(members, 0, m) /\ m \in 1..Units(members)
    BY <1>5, <1>14 DEF Entries, TreeEntries
  <2>2. SnodAt(ProbedChild) = UnitRun(members, m)
    <3>1. ProbedChild = NodeCount(levels) + m - 1
      BY <1>7, <2>1 DEF EntryAddr
    <3>2. NodeCount(levels) \in Nat /\ m \in Nat
      <4>1. Units(members) \in Nat
        BY <1>7, UnitsAre
      <4>2. /\ Height(members) \in Nat
            /\ \A l \in 0..Height(members) : Foot(members, l) \in Nat
        BY <1>7, EntriesAre
      <4>3. NodeCount(Planned(members)) \in Nat
        BY <4>2 DEF Foot, Height, NodeCount, TreeBase, TreeHeight, Planned
      <4> HIDE DEF m
      <4> QED
        BY <1>7, <2>1, <4>1, <4>3
    <3> HIDE DEF m
    <3>3. ProbedChild - NodeCount(levels) + 1 = m
      BY <3>1, <3>2
    <3> QED
      BY <1>7, <3>3 DEF SnodAt, SnodBase, Snod, UnitRun
  <2>3. First(members, 0, m) = m /\ First(members, 0, m + 1) = m + 1
    <3> DEFINE l == m + 1
    <3>1. Units(members) \in Nat
      BY <1>7, UnitsAre
    <3>2. m \in 1..(Units(members) + 1) /\ l \in 1..(Units(members) + 1)
      BY <2>1, <3>1
    <3> HIDE DEF l, m
    <3>3. First(members, 0, m) = m /\ First(members, 0, l) = l
      BY <1>7, <3>2, StartsAre
    <3> QED
      BY <3>3 DEF l
  <2>4. m + 1 - 1 = m
    BY <1>5, <1>8
  <2> HIDE DEF m
  <2>5. \A q \in 1..Len(members) : NameAt(members, q) = wanted =>
            Upto(members, m - 1) < q /\ q <= Upto(members, m)
    BY <1>12, <1>14, <2>1, <2>3, <2>4 DEF IsWanted, To
  <2>6. Somewhere(members, search', TRUE, wanted) /\ search' # Idle
    BY <1>2, <1>14, <2>1, <2>2, <2>5, SnodIsEntered
  <2> QED
    BY <1>1, <1>2, <1>14, <2>6 DEF Looking
<1>15. \/ wanted <= LeftName /\ search' = GoLeft(search) /\ inSnod' = inSnod
       \/ wanted > RightName /\ search' = GoRight(search) /\ inSnod' = inSnod
       \/ /\ LeftName < wanted /\ wanted <= RightName
          /\ nodes[search.at].level > 0
          /\ search' = SearchFrom(ProbedChild, Len(nodes[ProbedChild].children)) /\ inSnod' = inSnod
       \/ /\ LeftName < wanted /\ wanted <= RightName
          /\ nodes[search.at].level = 0
          /\ search' = SearchFrom(ProbedChild, Len(SnodAt(ProbedChild))) /\ inSnod' = TRUE
  BY DEF ProbeNode
<1> QED
  BY <1>10, <1>11, <1>13, <1>14, <1>15

\* An entry of the table leads to the link it is the entry of.
LEMMA EntryLeads ==
    ASSUME NEW links, IsGroup(links), heap = Texts(links), NEW q \in 1..Len(links)
    PROVE  /\ EntryToLink(Table(links)[q]) = LinkOf(SortedLinks(links)[q])
           /\ EntryToLink(Table(links)[q]).name # NoText
<1> DEFINE entry == Table(links)[q]
           link == SortedLinks(links)[q]
<1>1. /\ link \in Link
      /\ heap[entry.name_offset] = link.name
      /\ link.soft => entry.value # 0 /\ heap[entry.value] = SoftValue(link)
      /\ ~link.soft => entry.value = 0
  BY TableIs DEF NameAt
<1> HIDE DEF entry, link
<1>2. link.name # NoText
  <2>1. link.name \in Nat \ {0}
    BY <1>1, LinkIs
  <2> QED
    BY <2>1 DEF NoText
<1>3. (IF entry.value = 0 THEN NoText ELSE heap[entry.value]) =
          IF link.soft THEN SoftValue(link) ELSE NoText
  <2>1. CASE link.soft
    <3>1. entry.value # 0 /\ heap[entry.value] = SoftValue(link)
      BY <1>1, <2>1
    <3> QED
      BY <2>1, <3>1, Zenon
  <2>2. CASE ~link.soft
    <3>1. entry.value = 0
      BY <1>1, <2>2
    <3> QED
      BY <2>2, <3>1, Zenon
  <2> QED
    BY <2>1, <2>2
<1> DEFINE text == IF entry.value = 0 THEN NoText ELSE heap[entry.value]
           value == IF link.soft THEN SoftValue(link) ELSE NoText
<1>4. /\ EntryToLink(entry) = [name |-> heap[entry.name_offset], target |-> text]
      /\ LinkOf(link) = [name |-> link.name, target |-> value]
      /\ heap[entry.name_offset] = link.name /\ text = value
  <2>1. EntryToLink(entry) = [name |-> heap[entry.name_offset], target |-> text]
    BY DEF EntryToLink
  <2>2. LinkOf(link) = [name |-> link.name, target |-> value]
    BY DEF LinkOf
  <2> QED
    BY <1>1, <1>3, <2>1, <2>2
<1> HIDE DEF text, value
<1>5. EntryToLink(entry) = LinkOf(link)
  BY <1>4
<1>6. EntryToLink(entry).name # NoText
  BY <1>2, <1>4
<1> QED
  BY <1>5, <1>6 DEF entry, link

\* The lookup probes an entry of a symbol table node.
LEMMA LookupProbesSnod ==
    ASSUME Building, Looking, ProbeSnod
    PROVE  Looking'
<1>1. /\ search # Idle /\ inSnod /\ ~Exhausted(search)
      /\ members' = members /\ tabling' = tabling /\ wanted' = wanted /\ inSnod' = inSnod
  BY DEF ProbeSnod
<1>2. /\ tabling = "written" /\ wanted \in Name /\ found = None /\ inSnod = TRUE
      /\ Somewhere(members, search, TRUE, wanted)
  BY <1>1 DEF Looking, Somewhere
<1>3. PICK u \in 1..Units(members) : SnodSearch(members, search, wanted, u)
  BY <1>2 DEF Somewhere
<1> DEFINE a == Upto(members, u - 1)
           b == Upto(members, u)
           n == Len(members)
           p == Probed(search)
           r == a + p
           run == UnitRun(members, u)
<1>4. /\ search \in [at : Nat, lt : Nat, rt : Nat]
      /\ search.at = NodeCount(Planned(members)) + u - 1
      /\ 1 <= search.lt /\ search.lt < search.rt /\ search.rt <= b - a + 1
      /\ \A q : IsWanted(q) => a + search.lt <= q /\ q < a + search.rt
  BY <1>1, <1>3 DEF SnodSearch, Exhausted, IsWanted
<1>5. /\ IsGroup(members) /\ heap = Texts(members) /\ wanted \in Nat \ {0}
      /\ entries = Table(members) /\ levels = Planned(members)
  BY <1>2, WrittenNodes, NamesAreNumbers
<1>6. n \in Nat /\ a \in 0..n /\ b \in 0..n /\ a <= b /\ u \in Nat /\ NodeCount(levels) \in Nat
  <2>1. Units(members) \in Nat
    BY <1>5, UnitsAre
  <2>2. u - 1 \in 0..Units(members) /\ u \in 0..Units(members) /\ u \in Nat
    BY <2>1
  <2>3. n \in Nat /\ a \in 0..n /\ b \in 0..n /\ a <= b
    BY <1>5, <2>2, UnitsAre
  <2>4. Height(members) \in Nat /\ \A l \in 0..Height(members) : Foot(members, l) \in Nat
    BY <1>5, EntriesAre
  <2>5. NodeCount(Planned(members)) \in Nat
    BY <2>4 DEF Foot, Height, NodeCount, TreeBase, TreeHeight, Planned
  <2> QED
    BY <1>5, <2>2, <2>3, <2>5
<1>7. search.lt <= p /\ p < search.rt /\ p \in Nat
  <2> DEFINE x == search.lt
             y == search.rt
  <2>1. x \in Nat /\ y \in Nat /\ x < y
    BY <1>4
  <2> HIDE DEF x, y
  <2>2. (x + y) \div 2 >= x /\ (x + y) \div 2 < y /\ (x + y) \div 2 \in Nat
    BY <2>1
  <2> QED
    BY <2>2 DEF Probed, x, y
<1>8. SnodAt(search.at) = run
  <2>1. search.at - NodeCount(levels) + 1 = u
    BY <1>4, <1>5, <1>6
  <2> QED
    BY <1>5, <2>1 DEF SnodAt, SnodBase, Snod, UnitRun
<1>9. ProbedEntry = run[p]
  BY <1>8 DEF ProbedEntry, p
<1> HIDE DEF a, b, p, run, n
<1>10. r \in 1..n /\ ProbedEntry = Table(members)[r]
  <2>1. /\ Len(run) = b - a
        /\ \A j \in 1..Len(run) : a + j \in 1..n /\ run[j] = Table(members)[a + j]
    BY <1>5, UnitRunIs DEF run, a, b, n
  <2>2. p \in 1..Len(run)
    BY <1>4, <1>6, <1>7, <2>1
  <2> QED
    BY <1>9, <2>1, <2>2
<1> HIDE DEF r
<1>11. heap[ProbedEntry.name_offset] = NameAt(members, r)
  BY <1>5, <1>10, TableIs DEF n
<1>12. NamesOrdered(members)
  BY <1>5, NamesAreOrdered
<1>13. ASSUME NEW q, IsWanted(q)
       PROVE  /\ q \in Nat
              /\ wanted < NameAt(members, r) => q < r
              /\ wanted > NameAt(members, r) => r < q
  <2>1. q \in 1..n /\ NameAt(members, q) = wanted
    BY <1>13 DEF IsWanted, n
  <2> DEFINE x == NameAt(members, r)
  <2>2. x \in Nat /\ (q < r => wanted < x) /\ (r < q => x < wanted) /\ (q = r => x = wanted)
    BY <1>10, <1>12, <2>1 DEF NamesOrdered, n
  <2>3. q \in Nat /\ r \in Nat
    BY <1>6, <1>10, <2>1
  <2> HIDE DEF x
  <2>4. (wanted < x => q < r) /\ (wanted > x => r < q)
    BY <1>5, <2>2, <2>3
  <2> QED
    BY <2>3, <2>4 DEF x
\* The lookup stays in its node and drops the entries that cannot be meant.
<1>14. ASSUME NEW s \in [at : Nat, lt : Nat, rt : Nat], search' = s, found' = found,
              s.at = search.at, 1 <= s.lt, s.lt <= s.rt, s.rt <= search.rt,
              \A q : IsWanted(q) => a + s.lt <= q /\ q < a + s.rt
       PROVE  Looking'
  <2>1. s.rt <= b - a + 1
    BY <1>4, <1>6, <1>14
  <2>2. SnodSearch(members, s, wanted, u)
    BY <1>4, <1>14, <2>1 DEF SnodSearch, IsWanted, a, b
  <2>3. s # Idle
    BY <1>14 DEF Idle
  <2>4. Somewhere(members, s, TRUE, wanted)
    BY <2>2 DEF Somewhere
  <2> QED
    BY <1>1, <1>2, <1>14, <2>3, <2>4 DEF Looking
<1>15. CASE wanted < NameAt(members, r) /\ search' = GoLeft(search) /\ found' = found
  <2> DEFINE s == [search EXCEPT !.rt = p]
  <2>1. search' = s
    BY <1>15 DEF GoLeft, p
  <2>2. /\ s \in [at : Nat, lt : Nat, rt : Nat] /\ s.at = search.at /\ s.lt = search.lt
        /\ s.rt = p
    BY <1>4, <1>7
  <2> HIDE DEF s
  <2>3. \A q : IsWanted(q) => a + s.lt <= q /\ q < a + s.rt
    BY <1>4, <1>13, <1>15, <2>2 DEF r
  <2>4. s.lt <= s.rt /\ s.rt <= search.rt
    BY <1>4, <1>7, <2>2
  <2> QED
    BY <1>4, <1>14, <1>15, <2>1, <2>2, <2>3, <2>4
<1>16. CASE wanted > NameAt(members, r) /\ search' = GoRight(search) /\ found' = found
  <2> DEFINE s == [search EXCEPT !.lt = p + 1]
  <2>1. search' = s
    BY <1>16 DEF GoRight, p
  <2>2. /\ s \in [at : Nat, lt : Nat, rt : Nat] /\ s.at = search.at /\ s.lt = p + 1
        /\ s.rt = search.rt
    BY <1>4, <1>7
  <2> HIDE DEF s
  <2>3. ASSUME NEW q, IsWanted(q) PROVE a + s.lt <= q
    <3>1. r < q /\ q \in Nat
      BY <1>13, <1>16, <2>3
    <3>2. a + s.lt = r + 1
      BY <1>6, <1>7, <2>2 DEF r
    <3> QED
      BY <1>6, <1>7, <3>1, <3>2 DEF r
  <2>4. 1 <= s.lt /\ s.lt <= s.rt /\ s.rt <= search.rt
    BY <1>4, <1>7, <2>2
  <2> QED
    BY <1>4, <1>14, <1>16, <2>1, <2>2, <2>3, <2>4
<1>17. CASE wanted = NameAt(members, r) /\ search' = Idle /\ found' = ProbedEntry
  <2>1. IsFound(members, wanted, found')
    BY <1>10, <1>17 DEF IsFound, n
  <2> QED
    BY <1>1, <1>2, <1>17, <2>1 DEF Looking
<1>18. \/ wanted < NameAt(members, r) /\ search' = GoLeft(search) /\ found' = found
       \/ wanted > NameAt(members, r) /\ search' = GoRight(search) /\ found' = found
       \/ wanted = NameAt(members, r) /\ search' = Idle /\ found' = ProbedEntry
  BY <1>11 DEF ProbeSnod
<1> QED
  BY <1>15, <1>16, <1>17, <1>18

\* Nothing is left: no link has the name that was asked for.
LEMMA LookupGivesUp ==
    ASSUME Building, Looking, GiveUpLookup
    PROVE  Looking'
<1>1. /\ search # Idle /\ Exhausted(search) /\ search' = Idle /\ found' = found
      /\ members' = members /\ tabling' = tabling /\ wanted' = wanted
  BY DEF GiveUpLookup
<1>2. /\ tabling = "written" /\ found = None /\ inSnod \in BOOLEAN
      /\ Somewhere(members, search, inSnod, wanted)
  BY <1>1 DEF Looking
<1>3. IsGroup(members) /\ Height(members) \in Nat
  BY <1>2, WrittenNodes
<1>4. Len(members) \in Nat /\ Units(members) \in Nat
  BY <1>3, UnitsAre
<1>5. ASSUME NEW q \in 1..Len(members), NameAt(members, q) = wanted PROVE FALSE
  <2>1. CASE inSnod
    <3>1. PICK u \in 1..Units(members) : SnodSearch(members, search, wanted, u)
      BY <1>2, <2>1 DEF Somewhere
    <3> DEFINE a == Upto(members, u - 1)
    <3>2. /\ search \in [at : Nat, lt : Nat, rt : Nat] /\ search.lt = search.rt
          /\ a + search.lt <= q /\ q < a + search.rt
      BY <1>1, <1>5, <3>1 DEF SnodSearch, Exhausted
    <3>3. a \in 0..Len(members)
      <4>1. u - 1 \in 0..Units(members)
        BY <1>4
      <4> QED
        BY <1>3, <4>1, UnitsAre
    <3> HIDE DEF a
    <3> QED
      BY <1>4, <3>2, <3>3
  <2>2. CASE ~inSnod
    <3>1. PICK k \in 0..(Height(members) - 1) :
            \E i \in 1..Entries(members, k + 1) : TreeSearch(members, search, wanted, k, i)
      BY <1>2, <2>2 DEF Somewhere
    <3>2. PICK i \in 1..Entries(members, k + 1) : TreeSearch(members, search, wanted, k, i)
      BY <3>1
    <3> DEFINE m == (i - 1) * Arity + search.rt
               a == Upto(members, First(members, k, m) - 1)
    <3>3. /\ search \in [at : Nat, lt : Nat, rt : Nat] /\ search.lt = search.rt
          /\ 1 <= search.lt /\ a < q /\ q <= a
      BY <1>1, <1>5, <3>2 DEF TreeSearch, Exhausted
    <3>4. k \in 0..Height(members) /\ (i - 1) * Arity \in Nat
      BY <1>3, FanoutIs
    <3>5. m \in Nat \ {0}
      BY <3>3, <3>4
    <3> HIDE DEF m
    <3>6. First(members, k, m) - 1 \in 0..Units(members)
      <4>1. First(members, k, m) \in 1..(Units(members) + 1)
        BY <1>3, <3>4, <3>5, StartsAre
      <4> QED
        BY <1>4, <4>1
    <3>7. a \in 0..Len(members)
      BY <1>3, <3>6, UnitsAre
    <3> HIDE DEF a
    <3> QED
      BY <1>4, <3>3, <3>7
  <2> QED
    BY <2>1, <2>2
<1>6. IsFound(members, wanted, found')
  BY <1>1, <1>2, <1>5 DEF IsFound
<1> QED
  BY <1>1, <1>2, <1>6 DEF Looking

LEMMA LookingHolds ==
    ASSUME Building, Looking, [GroupNext]_groupVars
    PROVE  Looking'
<1>1. ASSUME NEW name \in Name, StartLookup(name) PROVE Looking'
  BY <1>1, LookupStarts
<1>2. CASE ProbeNode
  BY <1>2, LookupProbes
<1>3. CASE ProbeSnod
  BY <1>3, LookupProbesSnod
<1>4. CASE GiveUpLookup
  BY <1>4, LookupGivesUp
<1>5. CASE groupVars' = groupVars
  <2>1. /\ members' = members /\ tabling' = tabling /\ search' = search /\ wanted' = wanted
        /\ found' = found /\ inSnod' = inSnod
    BY <1>5 DEF groupVars, lookupVars
  <2> QED
    BY <2>1 DEF Looking
<1>6. CASE tabling # "written" /\ UNCHANGED lookupVars
  <2>1. search = Idle /\ wanted = 0 /\ search' = Idle /\ wanted' = 0
    BY <1>6 DEF Looking, lookupVars
  <2> QED
    BY <2>1 DEF Looking
<1>7. PlanGroup \/ RefuseGroup \/ WriteSnods \/ WriteGroupLevel => tabling # "written" /\ UNCHANGED lookupVars
  BY DEF PlanGroup, RefuseGroup, WriteSnods, WriteGroupLevel
<1> QED
  BY <1>1, <1>2, <1>3, <1>4, <1>5, <1>6, <1>7 DEF GroupNext

\* A lookup comes back with what the link of that name holds.
LEMMA LookedUpIsFound ==
    ASSUME Building, Looking
    PROVE  FoundIffMember
<1> SUFFICES ASSUME search = Idle, wanted # 0 PROVE FoundIffMember
  BY DEF FoundIffMember
<1>1. tabling = "written" /\ IsFound(members, wanted, found)
  BY DEF Looking
<1>2. IsGroup(members) /\ heap = Texts(members)
  BY <1>1, WrittenNodes
<1>3. DOMAIN members = 1..Len(members)
  BY <1>2 DEF IsGroup
<1>4. CASE \E q \in 1..Len(members) :
               NameAt(members, q) = wanted /\ found = Table(members)[q]
  <2>1. PICK q \in 1..Len(members) : NameAt(members, q) = wanted /\ found = Table(members)[q]
    BY <1>4
  <2>2. PICK i \in 1..Len(members) : SortedLinks(members)[q] = members[i]
    BY <1>2, SortedAre
  <2>3. EntryToLink(found) = LinkOf(members[i])
    BY <1>2, <2>1, <2>2, EntryLeads
  <2>4. members[i].name = wanted
    BY <2>1, <2>2 DEF NameAt
  <2> QED
    BY <1>3, <2>3, <2>4 DEF FoundIffMember
<1>5. CASE (\A q \in 1..Len(members) : NameAt(members, q) # wanted) /\ found = None
  <2>1. ASSUME NEW i \in 1..Len(members), members[i].name = wanted PROVE FALSE
    <3>1. PICK q \in 1..Len(members) : SortedLinks(members)[q] = members[i]
      BY <1>2, SortedAre
    <3> QED
      BY <1>5, <2>1, <3>1 DEF NameAt
  <2> QED
    BY <1>3, <1>5, <2>1 DEF FoundIffMember
<1> QED
  BY <1>1, <1>4, <1>5 DEF IsFound

-----------------------------------------------------------------------------
(* Reading the group back *)

\* The entries of a level: what the tree leads to at that depth.
Row(k) == MadeOf(members, k).children

LEMMA RowIs ==
    ASSUME IsGroup(members), NEW k \in 0..Height(members)
    PROVE  /\ Row(k) \in Seq(Nat) /\ Len(Row(k)) = Entries(members, k)
           /\ DOMAIN Row(k) = 1..Entries(members, k)
           /\ \A m \in 1..Entries(members, k) : Row(k)[m] = EntryAddr(members, k, m)
<1> DEFINE row == Row(k)
<1>1. /\ row \in Seq(Nat) /\ Len(row) = Entries(members, k)
      /\ \A m \in 1..Entries(members, k) : row[m] = EntryAddr(members, k, m)
  BY MadeOfIs DEF Row
<1> HIDE DEF row
<1>2. DOMAIN row = 1..Entries(members, k)
  BY <1>1
<1> QED
  BY <1>1, <1>2 DEF row

\* The children of a level's nodes, one node after another, are the level below.
LEMMA RowBelow ==
    ASSUME Building, tabling = "written", NEW k \in 0..(Height(members) - 1)
    PROVE  FlattenSeq([i \in DOMAIN Row(k + 1) |-> nodes[Row(k + 1)[i]].children]) = Row(k)
<1> DEFINE e == Entries(members, k + 1)
           below_k == Entries(members, k)
           seqs == [i \in 1..e |-> nodes[NodeAddr(members, k, i)].children]
           upto == [i \in 0..e |-> IF i * Arity <= below_k THEN i * Arity ELSE below_k]
           list == Row(k)
<1>1. /\ IsGroup(members) /\ Height(members) \in Nat \ {0} /\ Arity \in Nat \ {0}
      /\ \A i \in 1..e : IsNode(members, nodes[NodeAddr(members, k, i)], k, i)
  BY WrittenNodes
<1>2. k \in 0..Height(members) /\ k + 1 \in 0..Height(members) /\ k + 1 \in 1..Height(members)
      /\ k + 1 - 1 = k /\ k + 1 # 0
  BY <1>1
<1>3. e \in Nat \ {0} /\ below_k \in Nat \ {0} /\ e = CeilingDiv(below_k, Arity)
  <2>1. e \in Nat \ {0} /\ below_k \in Nat \ {0}
    BY <1>1, <1>2, EntriesAre
  <2>2. e = CeilingDiv(Entries(members, k + 1 - 1), Arity)
    BY <1>1, <1>2, EntriesAre
  <2> QED
    BY <1>2, <2>1, <2>2
<1>4. below_k <= e * Arity
  <2> HIDE DEF e, below_k
  <2> QED
    BY <1>1, <1>3, CeilingDivides
<1>5. /\ list \in Seq(Nat) /\ Len(list) = below_k
      /\ \A m \in 1..below_k : list[m] = EntryAddr(members, k, m)
  BY <1>1, <1>2, RowIs
<1>6. [i \in DOMAIN Row(k + 1) |-> nodes[Row(k + 1)[i]].children] = seqs
  <2>1. DOMAIN Row(k + 1) = 1..e
    BY <1>1, <1>2, RowIs
  <2>2. ASSUME NEW i \in 1..e PROVE Row(k + 1)[i] = NodeAddr(members, k, i)
    <3>1. Row(k + 1)[i] = EntryAddr(members, k + 1, i)
      BY <1>1, <1>2, RowIs
    <3> QED
      BY <1>2, <3>1 DEF EntryAddr
  <2> QED
    BY <2>1, <2>2
<1>7. ASSUME NEW i \in 1..e
      PROVE  /\ seqs[i] \in Seq(Nat) /\ Len(seqs[i]) = Fanout(members, k, i)
             /\ \A j \in 1..Fanout(members, k, i) :
                    seqs[i][j] = EntryAddr(members, k, (i - 1) * Arity + j)
  BY <1>1 DEF IsNode
<1> HIDE DEF e, below_k, list
<1>8. seqs \in Seq(Seq(Nat)) /\ Len(seqs) = e
  <2> DEFINE S == Seq(Nat)
  <2>1. \A i \in 1..e : seqs[i] \in S
    BY <1>7
  <2> HIDE DEF S
  <2>2. seqs \in [1..e -> S]
    BY <2>1
  <2> HIDE DEF seqs
  <2>3. seqs \in Seq(S) /\ Len(seqs) = e
    BY <1>3, <2>2
  <2> QED
    BY <2>3 DEF S
<1>9. ASSUME NEW i \in 0..e
      PROVE  i \in Nat /\ i * Arity \in Nat /\ upto[i] \in Nat
  <2>1. i \in Nat
    BY <1>3
  <2>2. i * Arity \in Nat
    BY <1>1, <2>1
  <2> QED
    BY <1>3, <2>1, <2>2
<1>10. ASSUME NEW i \in 1..e
       PROVE  /\ upto[i - 1] = (i - 1) * Arity
              /\ upto[i] = upto[i - 1] + Len(seqs[i])
              /\ \A j \in 1..Len(seqs[i]) : seqs[i][j] = list[upto[i - 1] + j]
  <2> DEFINE f == (i - 1) * Arity
             g == i * Arity
             n == Fanout(members, k, i)
  <2>1. i \in Nat \ {0} /\ i - 1 \in 0..e /\ i \in 0..e
    BY <1>3
  <2>2. n \in 1..Arity /\ f \in Nat /\ f + n <= below_k
    BY <1>1, FanoutIs DEF e, below_k
  <2>3. g = f + Arity
    BY <1>1, <2>1
  <2>4. n = IF g <= below_k THEN Arity ELSE below_k - f
    BY DEF Fanout, TreeFanout, Entries, below_k
  <2>5. upto[i - 1] = (IF f <= below_k THEN f ELSE below_k) /\ upto[i] = IF g <= below_k THEN g ELSE below_k
    BY <2>1
  <2> HIDE DEF f, g, n, upto
  <2>6. upto[i - 1] = f /\ upto[i] = f + n
    BY <1>1, <1>3, <2>2, <2>3, <2>4, <2>5
  <2>7. Len(seqs[i]) = n /\ \A j \in 1..n : seqs[i][j] = EntryAddr(members, k, f + j)
    BY <1>7 DEF n, f
  <2> HIDE DEF seqs
  <2>8. ASSUME NEW j \in 1..n PROVE seqs[i][j] = list[f + j]
    <3>1. f + j \in 1..below_k
      BY <1>1, <1>3, <2>2
    <3>2. list[f + j] = EntryAddr(members, k, f + j)
      BY <1>5, <3>1
    <3> QED
      BY <2>7, <3>2
  <2> QED
    BY <2>6, <2>7, <2>8 DEF f
<1>11. upto[0] = 0 /\ upto[e] = below_k
  <2>1. 0 \in 0..e /\ e \in 0..e /\ 0 * Arity = 0
    BY <1>1, <1>3
  <2> DEFINE g == e * Arity
  <2>2. upto[e] = IF g <= below_k THEN g ELSE below_k
    BY <2>1
  <2>3. upto[0] = 0
    BY <1>3, <2>1
  <2>4. g \in Nat /\ below_k <= g
    BY <1>4, <1>9, <2>1
  <2> HIDE DEF g, upto
  <2> QED
    BY <1>3, <2>2, <2>3, <2>4
<1>12. upto \in [0..e -> Nat]
  BY <1>9
<1> HIDE DEF upto, seqs
<1>13. FlattenSeq(seqs) = list
  <2>1. Len(seqs) # 0
    BY <1>3, <1>8
  <2> QED
    BY <1>5, <1>8, <1>10, <1>11, <1>12, <2>1, FlattenRuns
<1> QED
  BY <1>6, <1>13 DEF list

\* oxih5 comes, level by level, to the symbol table nodes in their order.
LEMMA LeavesAre ==
    ASSUME Building, tabling = "written"
    PROVE  Leaves = Row(0)
<1> DEFINE h == Height(members)
           Below(row) == FlattenSeq([i \in DOMAIN row |-> nodes[row[i]].children])
           Is(f) == f = [d \in 0..h |-> IF d = 0 THEN <<GroupRoot>> ELSE Below(f[d - 1])]
           g == CHOOSE f : Is(f)
           rows == [d \in 0..h |-> Row(h - d)]
<1>1. /\ IsGroup(members) /\ h \in Nat \ {0} /\ Entries(members, h) = 1
      /\ levels = Planned(members) /\ GroupRoot = NodeAddr(members, h - 1, 1)
  BY WrittenNodes
<1>2. Len(levels) = h
  BY <1>1, EntriesAre
<1>3. Row(h) = <<GroupRoot>>
  <2> DEFINE row == Row(h)
  <2>1. h \in 0..h /\ h # 0
    BY <1>1
  <2>2. row \in Seq(Nat) /\ Len(row) = 1 /\ row[1] = EntryAddr(members, h, 1)
    <3>1. /\ row \in Seq(Nat) /\ Len(row) = Entries(members, h)
          /\ \A m \in 1..Entries(members, h) : row[m] = EntryAddr(members, h, m)
      BY <1>1, <2>1, RowIs
    <3>2. 1 \in 1..Entries(members, h)
      BY <1>1
    <3> HIDE DEF row, h
    <3> QED
      BY <1>1, <3>1, <3>2
  <2>3. row[1] = GroupRoot
    BY <1>1, <2>1, <2>2 DEF EntryAddr
  <2> HIDE DEF row
  <2>4. row = <<GroupRoot>>
    BY <2>2, <2>3
  <2> QED
    BY <2>4 DEF row
<1>4. ASSUME NEW d \in 1..h PROVE Below(Row(h - d + 1)) = Row(h - d)
  <2> DEFINE k == h - d
  <2>1. k \in 0..(h - 1)
    BY <1>1
  <2> HIDE DEF k
  <2>2. Below(Row(k + 1)) = Row(k)
    BY <2>1, RowBelow
  <2> QED
    BY <2>2 DEF k
<1>5. ASSUME NEW d \in 0..h
      PROVE rows[d] = IF d = 0 THEN <<GroupRoot>> ELSE Below(rows[d - 1])
  <2>1. CASE d = 0
    <3>1. h - 0 = h /\ rows[0] = Row(h - 0)
      BY <1>1
    <3> QED
      BY <1>3, <2>1, <3>1
  <2>2. CASE d # 0
    <3>1. d \in 1..h /\ d - 1 \in 0..h /\ h - (d - 1) = h - d + 1
      BY <1>1, <2>2
    <3>2. rows[d - 1] = Row(h - d + 1) /\ rows[d] = Row(h - d)
      BY <3>1
    <3> HIDE DEF rows, Below
    <3> QED
      BY <1>4, <2>2, <3>1, <3>2
  <2> QED
    BY <2>1, <2>2
<1> HIDE DEF Below
<1>6. Is(rows)
  <2>1. rows = [d \in 0..h |-> rows[d]]
    OBVIOUS
  <2> HIDE DEF rows
  <2>2. Is(rows)
    BY <1>5, <2>1
  <2> QED
    BY <2>2
<1>7. Is(g)
  <2> HIDE DEF rows
  <2> QED
    BY <1>6
<1>8. Leaves = g[h]
  BY <1>2 DEF Leaves, Below
<1> HIDE DEF g, rows
<1> DEFINE Wrong == {d \in 0..h : g[d] # rows[d]}
<1>9. ASSUME Wrong # {} PROVE FALSE
  <2>1. PICK d \in Wrong : \A l \in Wrong : d <= l
    <3>1. Wrong \subseteq Nat
      OBVIOUS
    <3> HIDE DEF Wrong
    <3> QED
      BY <1>9, <3>1, LeastNumber
  <2>2. d \in 0..h /\ g[d] # rows[d]
    BY <2>1
  <2>3. g[d] = IF d = 0 THEN <<GroupRoot>> ELSE Below(g[d - 1])
    BY <1>7, <2>2
  <2>4. d # 0
    BY <1>5, <2>2, <2>3
  <2>5. d - 1 \in 0..h /\ ~(d <= d - 1)
    BY <1>1, <2>2, <2>4
  <2>6. d - 1 \notin Wrong
    <3> HIDE DEF Wrong
    <3> QED
      BY <2>1, <2>5
  <2>7. g[d - 1] = rows[d - 1]
    BY <2>5, <2>6
  <2>8. rows[d] = Below(rows[d - 1])
    BY <1>5, <2>2, <2>4
  <2> QED
    BY <2>2, <2>3, <2>4, <2>7, <2>8
<1>10. g[h] = rows[h]
  <2>1. h \in 0..h
    BY <1>1
  <2> QED
    BY <1>9, <2>1
<1>11. rows[h] = Row(0)
  <2>1. h \in 0..h /\ h - h = 0
    BY <1>1
  <2> QED
    BY <2>1 DEF rows
<1> QED
  BY <1>8, <1>10, <1>11

\* The nodes put together are the whole table.
LEMMA AllEntriesAre ==
    ASSUME Building, tabling = "written"
    PROVE  AllEntries = Table(members)
<1> DEFINE e == Units(members)
           seqs == [i \in 1..e |-> UnitRun(members, i)]
           upto == [i \in 0..e |-> Upto(members, i)]
           list == Table(members)
<1>1. /\ IsGroup(members) /\ Height(members) \in Nat /\ heap = Texts(members)
      /\ entries = Table(members) /\ levels = Planned(members)
  BY WrittenNodes
<1>2. /\ e \in Nat \ {0} /\ Len(members) \in Nat
      /\ \A i \in 0..e : Upto(members, i) \in 0..Len(members)
      /\ Upto(members, 0) = 0 /\ Upto(members, e) = Len(members)
  BY <1>1, UnitsAre
<1>3. list \in Seq(Entry) /\ Len(list) = Len(members)
  BY <1>1, TableIs
<1>4. DOMAIN Leaves = 1..e /\ \A i \in 1..e : SnodAt(Leaves[i]) = UnitRun(members, i)
  <2>1. 0 \in 0..Height(members) /\ Entries(members, 0) = e
    BY <1>1 DEF Entries, TreeEntries
  <2>2. DOMAIN Leaves = 1..e /\ \A i \in 1..e : Leaves[i] = EntryAddr(members, 0, i)
    BY <1>1, <2>1, LeavesAre, RowIs
  <2>3. NodeCount(Planned(members)) \in Nat
    <3>1. Height(members) \in Nat /\ \A l \in 0..Height(members) : Foot(members, l) \in Nat
      BY <1>1, EntriesAre
    <3> QED
      BY <3>1 DEF Foot, Height, NodeCount, TreeBase, TreeHeight, Planned
  <2>4. ASSUME NEW i \in 1..e PROVE SnodAt(Leaves[i]) = UnitRun(members, i)
    <3>1. Leaves[i] = NodeCount(Planned(members)) + i - 1
      BY <2>2 DEF EntryAddr
    <3>2. Leaves[i] - NodeCount(levels) + 1 = i
      BY <1>1, <1>2, <2>3, <3>1
    <3> QED
      BY <1>1, <3>2 DEF SnodAt, SnodBase, Snod, UnitRun
  <2> QED
    BY <2>2, <2>4
<1>5. AllEntries = FlattenSeq(seqs)
  <2> DEFINE leaves == Leaves
  <2>1. AllEntries = FlattenSeq([i \in DOMAIN leaves |-> SnodAt(leaves[i])])
    BY DEF AllEntries
  <2>2. [i \in DOMAIN leaves |-> SnodAt(leaves[i])] = seqs
    BY <1>4
  <2> QED
    BY <2>1, <2>2
<1>6. ASSUME NEW i \in 1..e
      PROVE  /\ UnitRun(members, i) \in Seq(Entry)
             /\ Upto(members, i) = Upto(members, i - 1) + Len(UnitRun(members, i))
             /\ \A j \in 1..Len(UnitRun(members, i)) :
                    UnitRun(members, i)[j] = list[Upto(members, i - 1) + j]
  <2> DEFINE run == UnitRun(members, i)
             a == Upto(members, i - 1)
             b == Upto(members, i)
  <2>1. /\ run \in Seq(Entry) /\ Len(run) = b - a
        /\ \A j \in 1..Len(run) : run[j] = list[a + j]
    BY <1>1, UnitRunIs
  <2>2. a \in Nat /\ b \in Nat
    <3>1. i - 1 \in 0..e /\ i \in 0..e
      BY <1>2
    <3>2. a \in 0..Len(members) /\ b \in 0..Len(members)
      BY <1>2, <3>1
    <3> HIDE DEF a, b
    <3> QED
      BY <1>2, <3>2
  <2> HIDE DEF run, a, b
  <2>3. b = a + Len(run)
    BY <2>1, <2>2
  <2> QED
    BY <2>1, <2>3 DEF run, a, b
<1> HIDE DEF e, list
<1>7. seqs \in Seq(Seq(Entry)) /\ Len(seqs) = e
  <2> DEFINE S == Seq(Entry)
  <2>1. \A i \in 1..e : UnitRun(members, i) \in S
    BY <1>6
  <2> HIDE DEF S
  <2>2. seqs \in [1..e -> S]
    BY <2>1
  <2> HIDE DEF seqs
  <2>3. seqs \in Seq(S) /\ Len(seqs) = e
    BY <1>2, <2>2
  <2> QED
    BY <2>3 DEF S
<1>8. upto \in [0..e -> Nat] /\ upto[0] = 0 /\ upto[e] = Len(list)
  <2>1. 0 \in 0..e /\ e \in 0..e /\ \A i \in 0..e : Upto(members, i) \in Nat
    BY <1>2
  <2> QED
    BY <1>2, <1>3, <2>1
<1>9. ASSUME NEW i \in 1..e
      PROVE  /\ upto[i] = upto[i - 1] + Len(seqs[i])
             /\ \A j \in 1..Len(seqs[i]) : seqs[i][j] = list[upto[i - 1] + j]
  <2>1. i - 1 \in 0..e /\ i \in 0..e
    BY <1>2
  <2>2. upto[i - 1] = Upto(members, i - 1) /\ upto[i] = Upto(members, i) /\ seqs[i] = UnitRun(members, i)
    BY <2>1
  <2> HIDE DEF upto, seqs
  <2> QED
    BY <1>6, <2>2
<1> HIDE DEF upto, seqs
<1>10. FlattenSeq(seqs) = list
  <2>1. Len(seqs) # 0
    BY <1>2, <1>7
  <2> QED
    BY <1>3, <1>7, <1>8, <1>9, <2>1, FlattenRuns
<1> QED
  BY <1>5, <1>10 DEF list

\* oxih5 lists the links by name, each with what it points at.
LEMMA ListedAre ==
    ASSUME Building, tabling = "written"
    PROVE  ListEntries = [i \in 1..Len(members) |-> LinkOf(SortedLinks(members)[i])]
<1> DEFINE n == Len(members)
           all == Table(members)
           Named(i) == EntryToLink(all[i])
           Is(f) == f = [i \in 0..n |-> IF i = 0 THEN <<>>
                                        ELSE IF EntryToLink(all[i]).name = NoText THEN f[i - 1]
                                        ELSE Append(f[i - 1], EntryToLink(all[i]))]
           g == CHOOSE f : Is(f)
           lists == [i \in 0..n |-> [j \in 1..i |-> Named(j)]]
<1>1. IsGroup(members) /\ heap = Texts(members)
  BY WrittenNodes
<1>2. n \in Nat /\ Len(all) = n
  BY <1>1, UnitsAre, TableIs
<1>3. \A i \in 1..n : Named(i) = LinkOf(SortedLinks(members)[i]) /\ Named(i).name # NoText
  BY <1>1, EntryLeads
<1>4. ListEntries = g[n]
  BY <1>2, AllEntriesAre DEF ListEntries
<1> HIDE DEF n, all
<1>5. ASSUME NEW i \in 0..n
      PROVE  lists[i] = IF i = 0 THEN <<>> ELSE Append(lists[i - 1], Named(i))
  <2>1. CASE i = 0
    <3>1. lists[0] = [j \in 1..0 |-> Named(j)] /\ 1..0 = {}
      BY <1>2
    <3>2. [j \in 1..0 |-> Named(j)] = <<>>
      <4> DEFINE w == [j \in 1..0 |-> Named(j)]
      <4>1. DOMAIN w = {} /\ w = [j \in {} |-> w[j]]
        BY <3>1
      <4> HIDE DEF w, Named
      <4>2. w = <<>>
        BY <4>1
      <4> QED
        BY <4>2 DEF w
    <3> QED
      BY <2>1, <3>1, <3>2
  <2>2. CASE i # 0
    <3> DEFINE T == {Named(j) : j \in 1..i}
               s == lists[i - 1]
               t == lists[i]
               x == Named(i)
    <3>1. i \in Nat \ {0} /\ i - 1 \in 0..n /\ i - 1 \in Nat
      BY <1>2, <2>2
    <3>2. /\ s = [j \in 1..(i - 1) |-> Named(j)] /\ t = [j \in 1..i |-> Named(j)]
      BY <3>1
    <3>3. /\ \A j \in 1..i : Named(j) \in T
          /\ \A j \in 1..(i - 1) : j \in 1..i
      BY <3>1
    <3>4. /\ \A j \in 1..(i - 1) : s[j] = Named(j)
          /\ \A j \in 1..i : t[j] = Named(j)
      BY <3>2
    <3>5. s \in [1..(i - 1) -> T] /\ t \in [1..i -> T] /\ x \in T /\ t[i] = x
      <4> HIDE DEF T, s, t, Named
      <4>1. s \in [1..(i - 1) -> T] /\ t \in [1..i -> T]
        BY <3>2, <3>3
      <4>2. i \in 1..i
        BY <3>1
      <4> QED
        BY <3>3, <3>4, <4>1, <4>2
    <3>6. \A j \in 1..(i - 1) : t[j] = s[j]
      BY <3>3, <3>4
    <3> HIDE DEF T, s, t, x
    <3>7. s \in Seq(T) /\ Len(s) = i - 1 /\ t \in Seq(T) /\ Len(t) = i
      BY <3>1, <3>5
    <3>8. /\ Append(s, x) \in Seq(T) /\ Len(Append(s, x)) = Len(s) + 1
          /\ \A j \in 1..Len(s) : Append(s, x)[j] = s[j]
          /\ Append(s, x)[Len(s) + 1] = x
      BY <3>5, <3>7, AppendProperties
    <3> DEFINE w == Append(s, x)
    <3>9. w \in Seq(T) /\ Len(w) = i /\ \A j \in 1..i : w[j] = t[j]
      <4>1. ASSUME NEW j \in 1..i PROVE w[j] = t[j]
        <5>1. j \in 1..(i - 1) \/ j = i
          BY <3>1
        <5>2. i - 1 + 1 = i
          BY <3>1
        <5> QED
          BY <3>5, <3>6, <3>7, <3>8, <5>1, <5>2
      <4>2. i - 1 + 1 = i
        BY <3>1
      <4> QED
        BY <3>7, <3>8, <4>1, <4>2
    <3> HIDE DEF w
    <3>10. w = t
      BY <3>7, <3>9, SeqEqual
    <3> QED
      BY <2>2, <3>10 DEF w, s, t, x
  <2> QED
    BY <2>1, <2>2
<1>6. ASSUME NEW i \in 0..n, i # 0 PROVE i \in 1..n
  BY <1>2, <1>6
<1>7. Is(lists)
  <2>1. lists = [i \in 0..n |-> lists[i]]
    OBVIOUS
  <2>2. ASSUME NEW i \in 0..n
        PROVE  lists[i] = IF i = 0 THEN <<>>
                          ELSE IF EntryToLink(all[i]).name = NoText THEN lists[i - 1]
                          ELSE Append(lists[i - 1], EntryToLink(all[i]))
    <3>1. i # 0 => EntryToLink(all[i]).name # NoText
      BY <1>3, <1>6
    <3> HIDE DEF lists
    <3> QED
      BY <1>5, <3>1
  <2> HIDE DEF lists
  <2> QED
    BY <2>1, <2>2
<1>8. Is(g)
  <2> HIDE DEF lists
  <2> QED
    BY <1>7
<1>9. /\ g[0] = <<>>
      /\ \A i \in 1..n : g[i] = Append(g[i - 1], Named(i))
  <2>1. 0 \in 0..n /\ \A i \in 1..n : i \in 0..n /\ i # 0
    BY <1>2
  <2> HIDE DEF g
  <2>2. g[0] = <<>>
    BY <1>8, <2>1
  <2>3. ASSUME NEW i \in 1..n PROVE g[i] = Append(g[i - 1], Named(i))
    <3>1. g[i] = IF EntryToLink(all[i]).name = NoText THEN g[i - 1]
                 ELSE Append(g[i - 1], EntryToLink(all[i]))
      BY <1>8, <2>1
    <3> QED
      BY <1>3, <3>1
  <2> QED
    BY <2>2, <2>3
<1> HIDE DEF g, lists, Named
<1> DEFINE Wrong == {i \in 0..n : g[i] # lists[i]}
<1>10. ASSUME Wrong # {} PROVE FALSE
  <2>1. PICK i \in Wrong : \A l \in Wrong : i <= l
    <3>1. Wrong \subseteq Nat
      OBVIOUS
    <3> HIDE DEF Wrong
    <3> QED
      BY <1>10, <3>1, LeastNumber
  <2>2. i \in 0..n /\ g[i] # lists[i]
    BY <2>1
  <2>3. i # 0
    BY <1>5, <1>9, <2>2
  <2>4. i \in 1..n /\ i - 1 \in 0..n /\ ~(i <= i - 1)
    BY <1>2, <2>2, <2>3
  <2>5. i - 1 \notin Wrong
    <3> HIDE DEF Wrong
    <3> QED
      BY <2>1, <2>4
  <2>6. g[i - 1] = lists[i - 1]
    BY <2>4, <2>5
  <2> QED
    BY <1>5, <1>9, <2>2, <2>3, <2>4, <2>6
<1>11. g[n] = lists[n] /\ lists[n] = [j \in 1..n |-> Named(j)]
  <2>1. n \in 0..n
    BY <1>2
  <2> QED
    BY <1>10, <2>1 DEF lists
<1>12. [j \in 1..n |-> Named(j)] = [j \in 1..n |-> LinkOf(SortedLinks(members)[j])]
  BY <1>3
<1> QED
  BY <1>4, <1>11, <1>12 DEF n

LEMMA BuiltIsReserved ==
    ASSUME Building
    PROVE  TableFillsReservation
<1> SUFFICES ASSUME tabling = "written" PROVE TableFillsReservation
  BY DEF TableFillsReservation, Complete
<1> DEFINE h == Height(members)
<1>1. /\ levels = Planned(members) /\ LevelsWritten(members, nodes, h)
  BY DEF Building
<1>2. IsGroup(members) /\ Units(members) \in Nat
  BY GroupFacts, UnitsAre
<1>3. /\ h \in Nat \ {0} /\ Entries(members, h) = 1 /\ Len(levels) = h /\ Arity \in Nat
      /\ Planned(members) \in Seq(Nat)
      /\ \A k \in 0..h : Foot(members, k) \in Nat /\ Entries(members, k) \in Nat
  BY <1>1, <1>2, EntriesAre DEF Height, TreeHeight, Planned
<1>4. NodeCount(levels) = Foot(members, h)
  BY <1>1, <1>3 DEF NodeCount, Foot, TreeBase, Planned
<1>5. DOMAIN levels = 1..h /\ \A l \in 1..h : LevelAddrs(levels, 0)[l] = Foot(members, l - 1)
  <2>1. DOMAIN levels = 1..h
    BY <1>1, <1>3
  <2>2. ASSUME NEW l \in 1..h PROVE LevelAddrs(levels, 0)[l] = Foot(members, l - 1)
    <3>1. LevelAddrs(levels, 0)[l] = 0 + Foot(members, l - 1)
      BY <1>1, <2>1 DEF LevelAddrs, Foot, TreeBase, Planned
    <3>2. l - 1 \in 0..h
      BY <1>3
    <3> QED
      BY <1>3, <3>1, <3>2
  <2> QED
    BY <2>1, <2>2
<1>6. GroupRoot = Foot(members, h - 1)
  <2>1. LevelAddrs(levels, 0) \in Seq(Nat) /\ Len(LevelAddrs(levels, 0)) = h
    <3> DEFINE addrs == LevelAddrs(levels, 0)
    <3>1. DOMAIN addrs = 1..h /\ addrs = [l \in 1..h |-> addrs[l]]
      BY <1>5 DEF LevelAddrs
    <3>2. \A l \in 1..h : addrs[l] \in Nat
      <4>1. \A l \in 1..h : l - 1 \in 0..h
        BY <1>3
      <4> QED
        BY <1>3, <1>5, <4>1
    <3> HIDE DEF addrs
    <3>3. addrs \in [1..h -> Nat]
      BY <3>1, <3>2
    <3> HIDE DEF h
    <3>4. addrs \in Seq(Nat) /\ Len(addrs) = h
      BY <1>3, <3>3
    <3> QED
      BY <3>4 DEF addrs
  <2>2. h \in 1..h
    BY <1>3
  <2> QED
    BY <1>5, <2>1, <2>2 DEF GroupRoot, RootAddr, Last
<1> HIDE DEF h
<1>7. ASSUME NEW addr \in DOMAIN nodes
      PROVE  /\ Len(nodes[addr].children) \in 1..GROUP_NODE_MAX_CHILDREN
             /\ Len(nodes[addr].keys) = Len(nodes[addr].children) + 1
  <2>1. PICK k \in 0..(h - 1) : \E i \in 1..Entries(members, k + 1) : addr = NodeAddr(members, k, i)
    BY <1>1 DEF LevelsWritten
  <2>2. PICK i \in 1..Entries(members, k + 1) : addr = NodeAddr(members, k, i)
    BY <2>1
  <2>3. IsNode(members, nodes[addr], k, i)
    BY <1>1, <2>2 DEF LevelsWritten
  <2>4. Fanout(members, k, i) \in 1..Arity
    BY <1>2, FanoutIs DEF h
  <2> QED
    BY <2>3, <2>4 DEF IsNode, Arity
<1>8. nodes[GroupRoot].level = Len(levels) - 1
  <2>1. h - 1 \in 0..(h - 1) /\ h - 1 + 1 = h /\ 1 \in 1..1 /\ h - 1 \in 0..h
    BY <1>3
  <2>2. NodeAddr(members, h - 1, 1) = GroupRoot
    BY <1>3, <1>6, <2>1 DEF NodeAddr
  <2>3. IsNode(members, nodes[NodeAddr(members, h - 1, 1)], h - 1, 1)
    BY <1>1, <1>3, <2>1 DEF LevelsWritten
  <2> QED
    BY <1>3, <2>2, <2>3 DEF IsNode
<1>9. ASSUME NEW l \in DOMAIN levels
      PROVE LevelIsChained(nodes, LevelAddrs(levels, 0)[l], levels[l])
  <2> DEFINE k == l - 1
             first == Foot(members, k)
  <2>1. /\ k \in 0..(h - 1) /\ k + 1 = l /\ l # 0 /\ LevelAddrs(levels, 0)[l] = first
        /\ first \in Nat
    <3>1. l \in 1..h
      BY <1>5
    <3>2. k \in 0..(h - 1) /\ k + 1 = l /\ l # 0 /\ k \in 0..h
      BY <1>3, <3>1
    <3> QED
      BY <1>3, <1>5, <3>1, <3>2
  <2>2. levels[l] = Entries(members, l)
    BY <1>1, <2>1 DEF Entries, TreeEntries, Planned
  <2>3. ASSUME NEW i \in 1..levels[l]
        PROVE  /\ nodes[first + i - 1].left = IF i = 1 THEN Undefined ELSE first + i - 2
               /\ nodes[first + i - 1].right = IF i = levels[l] THEN Undefined ELSE first + i
    <3>1. i \in 1..Entries(members, k + 1)
      BY <2>1, <2>2
    <3> HIDE DEF k
    <3>2. IsNode(members, nodes[NodeAddr(members, k, i)], k, i)
      BY <1>1, <2>1, <3>1 DEF LevelsWritten
    <3>3. NodeAddr(members, k, i) = first + i - 1
      BY DEF NodeAddr
    <3>4. first + i - 1 - 1 = first + i - 2 /\ first + i - 1 + 1 = first + i
      BY <2>1
    <3> HIDE DEF first
    <3> QED
      BY <2>1, <2>2, <3>2, <3>3, <3>4 DEF IsNode
  <2> QED
    BY <2>1, <2>3 DEF LevelIsChained
<1>10. Leaves = [i \in 1..SnodCount |-> SnodBase + i - 1]
  <2>1. Leaves = [m \in 1..Entries(members, 0) |-> EntryAddr(members, 0, m)]
    BY LeavesAre DEF Row, MadeOf
  <2>2. Entries(members, 0) = SnodCount
    BY DEF Entries, TreeEntries, Units, SnodCount
  <2>3. \A m \in 1..SnodCount : EntryAddr(members, 0, m) = SnodBase + m - 1
    BY <1>1 DEF EntryAddr, SnodBase
  <2> QED
    BY <2>1, <2>2, <2>3
<1> QED
  BY <1>1, <1>3, <1>4, <1>7, <1>8, <1>9, <1>10 DEF TableFillsReservation, LevelsWritten

LEMMA ListedIsSorted ==
    ASSUME Building
    PROVE  ListsMembersByName
<1> SUFFICES ASSUME tabling = "written" PROVE ListsMembersByName
  BY DEF ListsMembersByName, Complete
<1> DEFINE sorted == SortedLinks(members)
<1>1. DOMAIN sorted = 1..Len(members)
  <2>1. sorted \in Seq(Link) /\ Len(sorted) = Len(members)
    BY GroupFacts, SortedAre
  <2> HIDE DEF sorted
  <2> QED
    BY <2>1
<1>2. ListEntries = [i \in DOMAIN sorted |-> LinkOf(sorted[i])]
  BY <1>1, ListedAre
<1> QED
  BY <1>2 DEF ListsMembersByName

-----------------------------------------------------------------------------
(* The theorems *)

GroupIndexInv == Building /\ Looking

\* The invariant: the nodes written so far are the first levels of the one tree the
\* number of links determines, each closed by the greatest name under it, and a lookup
\* keeps the link it wants between its bounds (SymTable::write, H5B_find).
THEOREM GroupIndexInvariant == GroupSpec => []GroupIndexInv
<1>1. GroupInit => GroupIndexInv
  <2>1. GroupInit => tabling = "plan" /\ search = Idle /\ wanted = 0
    BY DEF GroupInit
  <2>2. tabling = "plan" /\ search = Idle /\ wanted = 0 => Looking
    BY DEF Looking
  <2> QED
    BY <2>1, <2>2, BuildingStarts DEF GroupIndexInv
<1>2. GroupIndexInv /\ [GroupNext]_groupVars => GroupIndexInv'
  BY BuildingHolds, LookingHolds DEF GroupIndexInv
<1> QED
  BY <1>1, <1>2, PTL DEF GroupSpec

\* For every group and every size of the nodes: the table is exactly what was planned,
\* libhdf5's search finds a name exactly if it is a member's, and oxih5 lists the members
\* by name, each with what it points at (SymTable::write, H5G__node_cmp3, list_entries).
THEOREM MembersAreAlwaysIndexed == GroupSpec => []MembersAreIndexed
<1>1. GroupIndexInv => MembersAreIndexed
  BY BuiltIsReserved, LookedUpIsFound, ListedIsSorted DEF GroupIndexInv, MembersAreIndexed
<1> QED
  BY <1>1, GroupIndexInvariant, PTL

-----------------------------------------------------------------------------
\* The collection being filled keeps the promises it will be closed with.
CurrentBounded ==
    /\ Len(current) <= MAX_OBJECTS_PER_COLLECTION
    /\ Len(current) > 1 => content_used <= H5HG_MAXSIZE

IInv == PackingTypeOK /\ LocationsExact /\ CollectionsBounded /\ CurrentBounded

-----------------------------------------------------------------------------

\* What appending does to a sequence, and that a sequence that is not empty has
\* an element: stated for any elements, so that nested sequences need no more.
LEMMA AppendFacts ==
    ASSUME NEW T, NEW s \in Seq(T), NEW e \in T
    PROVE  /\ Append(s, e) \in Seq(T) /\ Len(Append(s, e)) = Len(s) + 1
           /\ Append(s, e)[Len(s) + 1] = e
           /\ \A c \in 1..Len(s) : Append(s, e)[c] = s[c]
  OBVIOUS

LEMMA NonEmptyHasLength ==
    ASSUME NEW T, NEW s \in Seq(T), s # <<>>
    PROVE  Len(s) \in Nat \ {0}
  OBVIOUS

\* What a value needs is a number of bytes.
LEMMA NeedIsNatural ==
    ASSUME PackingTypeOK, NEW o \in 1..Len(objects)
    PROVE  Need(o) \in Nat
<1>1. objects[o] \in Nat
  <2>1. objects[o] \in Length
    BY DEF PackingTypeOK
  <2> QED
    BY <2>1, LengthAssumption
<1> DEFINE n == OBJECT_HEADER + objects[o]
<1>2. n \in Nat
  BY <1>1, HeaderAssumption
<1>3. (n + ALIGN - 1) \div ALIGN \in Nat
  <2>1. n + ALIGN - 1 \in Nat /\ ALIGN \in Nat \ {0}
    BY <1>2, AlignAssumption
  <2> QED
    BY <2>1
<1>4. Align(n) \in Nat
  <2> DEFINE q == (n + ALIGN - 1) \div ALIGN
  <2>1. q \in Nat
    BY <1>3
  <2>2. q * ALIGN \in Nat
    <3> HIDE DEF q
    <3> QED
      BY <2>1, AlignAssumption
  <2> QED
    BY <2>2 DEF Align
<1> QED
  BY <1>4 DEF Need

\* Nothing changes among the packed values when nothing is packed.
LEMMA PackingUnchanged ==
    ASSUME IInv, UNCHANGED packing, UNCHANGED objects, phase' \in {"register", "pack", "built"}
    PROVE  IInv'
<1> USE DEF packing
<1>1. PackingTypeOK'
  BY DEF IInv, PackingTypeOK
<1>2. AllCollections' = AllCollections
  BY DEF AllCollections
<1>3. LocationsExact'
  BY <1>2 DEF IInv, LocationsExact
<1>4. CollectionsBounded' /\ CurrentBounded'
  BY DEF IInv, CollectionsBounded, CurrentBounded
<1> QED
  BY <1>1, <1>3, <1>4 DEF IInv

-----------------------------------------------------------------------------

LEMMA InitEstablishes == Init => IInv
<1> SUFFICES ASSUME Init PROVE IInv
  OBVIOUS
<1> USE DEF Init
<1>1. PackingTypeOK
  BY MaxObjectsAssumption, HeaderAssumption DEF PackingTypeOK
<1>2. LocationsExact /\ CollectionsBounded
  BY DEF LocationsExact, CollectionsBounded
<1>3. CurrentBounded
  BY CapAssumption DEF CurrentBounded
<1> QED
  BY <1>1, <1>2, <1>3 DEF IInv

\* A registered value only adds an ordinal.
LEMMA WriteBytesKeeps ==
    ASSUME IInv, NEW length \in Length, WriteBytes(length)
    PROVE  IInv'
<1> USE DEF WriteBytes, packing
<1>1. Len(objects') = Len(objects) + 1 /\ objects' \in Seq(Length)
  BY DEF IInv, PackingTypeOK
<1>2. 1..Len(objects) \subseteq 1..Len(objects')
  BY <1>1 DEF IInv, PackingTypeOK
<1>3. collections' \in Seq(Seq(1..Len(objects'))) /\ current' \in Seq(1..Len(objects'))
  <2>1. \A S, T : S \subseteq T => Seq(S) \subseteq Seq(T)
    OBVIOUS
  <2>2. Seq(1..Len(objects)) \subseteq Seq(1..Len(objects'))
    BY <2>1, <1>2
  <2>3. Seq(Seq(1..Len(objects))) \subseteq Seq(Seq(1..Len(objects')))
    BY <2>1, <2>2
  <2> QED
    BY <2>2, <2>3 DEF IInv, PackingTypeOK
<1>4. PackingTypeOK'
  BY <1>1, <1>3, MaxObjectsAssumption DEF IInv, PackingTypeOK
<1>5. LocationsExact'
  BY DEF IInv, LocationsExact, AllCollections
<1>6. CollectionsBounded' /\ CurrentBounded'
  BY DEF IInv, CollectionsBounded, CurrentBounded
<1> QED
  BY <1>4, <1>5, <1>6 DEF IInv

\* A value that fits joins the collection being filled.
LEMMA JoinKeeps ==
    ASSUME IInv, phase = "pack", Ordinal <= Len(objects), ~Overflows(Ordinal),
           locations' = Append(locations, LocationIn(collections, current, Ordinal)),
           current' = Append(current, Ordinal),
           content_used' = content_used + Need(Ordinal),
           UNCHANGED <<collections, filled, objects, phase>>
    PROVE  IInv'
<1> DEFINE o == Ordinal
<1>1. o \in 1..Len(objects) /\ o = Len(locations) + 1 /\ Need(o) \in Nat
  <2>1. Ordinal \in 1..Len(objects)
    BY DEF IInv, PackingTypeOK, Ordinal
  <2> QED
    BY <2>1, NeedIsNatural DEF IInv, Ordinal
<1> HIDE DEF o
<1>2. PackingTypeOK
  BY DEF IInv
<1>3. LocationIn(collections, current, o) \in [collection: Nat, index: Nat]
  BY <1>2 DEF LocationIn, PackingTypeOK
<1>4. PackingTypeOK'
  BY <1>1, <1>2, <1>3 DEF PackingTypeOK, o
<1>5. LocationsExact'
  <2>1. AllCollections' = Append(collections, Append(current, o))
    <3>1. Len(current') = Len(current) + 1 /\ Len(current) \in Nat
      BY <1>2 DEF PackingTypeOK
    <3>2. current' # <<>>
      BY <3>1
    <3> QED
      BY <3>2 DEF AllCollections, o
  <2>4. /\ AllCollections'[Len(collections) + 1] = Append(current, o)
        /\ Len(AllCollections') = Len(collections) + 1
        /\ Len(collections) \in Nat /\ Len(current) \in Nat
        /\ Len(Append(current, o)) = Len(current) + 1
        /\ Append(current, o)[Len(current) + 1] = o
    <3> DEFINE T == Seq(1..Len(objects))
    <3>1. collections \in Seq(T) /\ Append(current, o) \in T
      BY <1>1, <1>2 DEF PackingTypeOK
    <3>2. /\ Append(collections, Append(current, o))[Len(collections) + 1] = Append(current, o)
          /\ Len(Append(collections, Append(current, o))) = Len(collections) + 1
          /\ Len(collections) \in Nat
      <4> HIDE DEF T
      <4> QED
        BY <3>1, AppendFacts
    <3>3. current \in T
      BY <1>2 DEF PackingTypeOK
    <3> QED
      BY <1>1, <2>1, <3>2, <3>3, AppendFacts
  <2> SUFFICES ASSUME NEW p \in 1..Len(locations')
               PROVE  /\ locations'[p].collection + 1 \in 1..Len(AllCollections')
                      /\ locations'[p].index
                             \in 1..Len(AllCollections'[locations'[p].collection + 1])
                      /\ AllCollections'[locations'[p].collection + 1][locations'[p].index] = p
    BY DEF LocationsExact
  <2>2. CASE p = o
    <3>1. locations'[p] = [collection |-> Len(collections), index |-> Len(current) + 1]
      BY <1>1, <1>2, <2>2 DEF PackingTypeOK, LocationIn, o
    <3>2. /\ locations'[p].collection + 1 = Len(collections) + 1
          /\ locations'[p].index = Len(current) + 1
      BY <3>1
    <3> QED
      BY <2>2, <2>4, <3>2
  <2>3. CASE p # o
    <3>1. p \in 1..Len(locations) /\ locations'[p] = locations[p]
      <4> DEFINE T == [collection: Nat, index: Nat]
      <4>1. locations \in Seq(T) /\ LocationIn(collections, current, o) \in T
        BY <1>2, <1>3 DEF PackingTypeOK
      <4>2. locations' = Append(locations, LocationIn(collections, current, o))
        BY DEF o
      <4> HIDE DEF T
      <4>3. /\ Len(locations') = Len(locations) + 1 /\ Len(locations) \in Nat
            /\ \A q \in 1..Len(locations) : locations'[q] = locations[q]
        BY <4>1, <4>2, AppendFacts
      <4>4. p \in 1..Len(locations)
        BY <1>1, <2>3, <4>3
      <4> QED
        BY <4>3, <4>4
    <3> DEFINE c == locations[p].collection + 1
               k == locations[p].index
    <3>2. /\ c \in 1..Len(AllCollections)
          /\ k \in 1..Len(AllCollections[c])
          /\ AllCollections[c][k] = p
      BY <3>1 DEF IInv, LocationsExact
    <3> HIDE DEF c, k
    <3>3. CASE c \in 1..Len(collections)
      <4>1. AllCollections[c] = collections[c] /\ AllCollections'[c] = collections[c]
        BY <1>2, <2>1, <3>3 DEF AllCollections, PackingTypeOK
      <4>2. c \in 1..Len(AllCollections')
        BY <1>2, <2>1, <3>3 DEF PackingTypeOK
      <4> QED
        BY <3>1, <3>2, <4>1, <4>2 DEF c, k
    <3>4. CASE c \notin 1..Len(collections)
      <4>1. current # <<>> /\ c = Len(collections) + 1
        <5>1. collections \in Seq(Seq(Nat)) /\ Len(collections) \in Nat
          BY <1>2 DEF PackingTypeOK
        <5>2. current = <<>> => Len(AllCollections) = Len(collections)
          BY DEF AllCollections
        <5>3. current # <<>> => Len(AllCollections) = Len(collections) + 1
          BY <5>1 DEF AllCollections
        <5> QED
          BY <3>2, <3>4, <5>1, <5>2, <5>3
      <4>2. AllCollections[c] = current /\ AllCollections'[c] = Append(current, o)
        BY <1>2, <2>1, <4>1 DEF AllCollections, PackingTypeOK
      <4>3. c \in 1..Len(AllCollections')
        BY <1>2, <2>1, <4>1 DEF PackingTypeOK
      <4>4. k \in 1..Len(Append(current, o)) /\ Append(current, o)[k] = current[k]
        BY <1>2, <3>2, <4>2 DEF PackingTypeOK
      <4> QED
        BY <3>1, <3>2, <4>2, <4>3, <4>4 DEF c, k
    <3> QED
      BY <3>3, <3>4
  <2> QED
    BY <2>2, <2>3
<1>6. CollectionsBounded'
  BY DEF IInv, CollectionsBounded
<1>7. CurrentBounded'
  <2>1. Len(current') = Len(current) + 1
    BY <1>2 DEF PackingTypeOK
  <2>2. CASE current = <<>>
    BY <2>1, <2>2, CapAssumption DEF CurrentBounded
  <2>3. CASE current # <<>>
    BY <1>1, <1>2, <2>1, <2>3, CapAssumption, SizeAssumption
    DEF CurrentBounded, Overflows, PackingTypeOK, o
  <2> QED
    BY <2>2, <2>3
<1> QED
  BY <1>4, <1>5, <1>6, <1>7 DEF IInv

\* A value that does not fit closes that collection and opens the next.
LEMMA SpillKeeps ==
    ASSUME IInv, phase = "pack", Ordinal <= Len(objects), Overflows(Ordinal),
           collections' = Append(collections, current),
           filled' = Append(filled, content_used),
           locations' = Append(locations, LocationIn(collections', <<>>, Ordinal)),
           current' = <<Ordinal>>,
           content_used' = COLLECTION_HEADER + Need(Ordinal),
           UNCHANGED <<objects, phase>>
    PROVE  IInv'
<1> DEFINE o == Ordinal
<1>1. o \in 1..Len(objects) /\ o = Len(locations) + 1 /\ Need(o) \in Nat
  <2>1. Ordinal \in 1..Len(objects)
    BY DEF IInv, PackingTypeOK, Ordinal
  <2> QED
    BY <2>1, NeedIsNatural DEF IInv, Ordinal
<1> HIDE DEF o
<1>2. PackingTypeOK /\ current # <<>>
  BY DEF IInv, Overflows
<1>3. LocationIn(collections', <<>>, o) = [collection |-> Len(collections) + 1, index |-> 1]
  BY <1>2 DEF LocationIn, PackingTypeOK
<1>4. PackingTypeOK'
  BY <1>1, <1>2, <1>3, HeaderAssumption DEF PackingTypeOK, o
<1>5. LocationsExact'
  <2>1. /\ AllCollections = Append(collections, current)
        /\ AllCollections' = Append(Append(collections, current), <<o>>)
    BY <1>2 DEF AllCollections, o
  <2>2. AllCollections \in Seq(Seq(1..Len(objects)))
    BY <1>2, <2>1 DEF PackingTypeOK
  <2>3. /\ Len(AllCollections') = Len(AllCollections) + 1
        /\ AllCollections'[Len(AllCollections) + 1] = <<o>>
        /\ \A c \in 1..Len(AllCollections) : AllCollections'[c] = AllCollections[c]
        /\ Len(AllCollections) = Len(collections) + 1
    <3> DEFINE T == Seq(1..Len(objects))
    <3>1. collections \in Seq(T) /\ current \in T /\ <<o>> \in T
      BY <1>1, <1>2 DEF PackingTypeOK
    <3>2. AllCollections \in Seq(T)
      BY <2>2
    <3> HIDE DEF T
    <3>3. AllCollections' = Append(AllCollections, <<o>>)
      BY <2>1
    <3> QED
      BY <2>1, <3>1, <3>2, <3>3, AppendFacts
  <2>6. Len(collections) \in Nat /\ Len(AllCollections) \in Nat
    BY <1>2, <2>2 DEF PackingTypeOK
  <2> SUFFICES ASSUME NEW p \in 1..Len(locations')
               PROVE  /\ locations'[p].collection + 1 \in 1..Len(AllCollections')
                      /\ locations'[p].index
                             \in 1..Len(AllCollections'[locations'[p].collection + 1])
                      /\ AllCollections'[locations'[p].collection + 1][locations'[p].index] = p
    BY DEF LocationsExact
  <2>4. CASE p = o
    <3>1. locations'[p] = [collection |-> Len(collections) + 1, index |-> 1]
      BY <1>1, <1>2, <1>3, <2>4 DEF PackingTypeOK, o
    <3>2. locations'[p].collection + 1 = Len(AllCollections) + 1 /\ locations'[p].index = 1
      BY <2>3, <2>6, <3>1
    <3>3. Len(<<o>>) = 1 /\ <<o>>[1] = o
      OBVIOUS
    <3>4. AllCollections'[locations'[p].collection + 1] = <<o>>
      BY <2>3, <3>2
    <3>5. locations'[p].collection + 1 \in 1..Len(AllCollections')
      BY <2>3, <2>6, <3>2
    <3>6. locations'[p].index \in 1..Len(<<o>>) /\ <<o>>[locations'[p].index] = p
      BY <2>4, <3>2, <3>3
    <3> QED
      BY <3>4, <3>5, <3>6
  <2>5. CASE p # o
    <3>1. p \in 1..Len(locations) /\ locations'[p] = locations[p]
      <4> DEFINE T == [collection: Nat, index: Nat]
      <4>1. locations \in Seq(T) /\ LocationIn(collections', <<>>, o) \in T
        <5>1. Len(collections) + 1 \in Nat
          BY <1>2 DEF PackingTypeOK
        <5>2. LocationIn(collections', <<>>, o) \in T
          BY <1>3, <5>1
        <5>3. locations \in Seq(T)
          BY <1>2 DEF PackingTypeOK
        <5> QED
          BY <5>2, <5>3
      <4>2. locations' = Append(locations, LocationIn(collections', <<>>, o))
        BY DEF o
      <4> HIDE DEF T
      <4>3. /\ Len(locations') = Len(locations) + 1 /\ Len(locations) \in Nat
            /\ \A q \in 1..Len(locations) : locations'[q] = locations[q]
        BY <4>1, <4>2, AppendFacts
      <4>4. p \in 1..Len(locations)
        BY <1>1, <2>5, <4>3
      <4> QED
        BY <4>3, <4>4
    <3>2. /\ locations[p].collection + 1 \in 1..Len(AllCollections)
          /\ locations[p].index \in 1..Len(AllCollections[locations[p].collection + 1])
          /\ AllCollections[locations[p].collection + 1][locations[p].index] = p
      BY <3>1 DEF IInv, LocationsExact
    <3> DEFINE c == locations[p].collection + 1
    <3>3. c \in 1..Len(AllCollections') /\ AllCollections'[c] = AllCollections[c]
      BY <2>3, <2>6, <3>2
    <3> QED
      BY <3>1, <3>2, <3>3
  <2> QED
    BY <2>4, <2>5
<1>6. CollectionsBounded'
  <2> SUFFICES ASSUME NEW c \in 1..Len(collections')
               PROVE  /\ Len(collections'[c]) \in 1..MAX_OBJECTS_PER_COLLECTION
                      /\ Len(collections'[c]) > 1 => filled'[c] <= H5HG_MAXSIZE
    BY DEF CollectionsBounded
  <2>1. CASE c = Len(collections) + 1
    <3>1. collections'[c] = current /\ filled'[c] = content_used
      <4> DEFINE S == Seq(1..Len(objects))
      <4>1. /\ collections \in Seq(S) /\ current \in S
            /\ filled \in Seq(Nat) /\ content_used \in Nat /\ Len(filled) = Len(collections)
        BY <1>2 DEF PackingTypeOK
      <4>2. collections' = Append(collections, current) /\ filled' = Append(filled, content_used)
        OBVIOUS
      <4> HIDE DEF S
      <4> QED
        BY <2>1, <4>1, <4>2, AppendFacts
    <3>2. /\ Len(current) <= MAX_OBJECTS_PER_COLLECTION
          /\ Len(current) > 1 => content_used <= H5HG_MAXSIZE
      BY <1>2 DEF IInv, CurrentBounded
    <3>3. Len(current) \in Nat /\ Len(current) # 0
      BY <1>2 DEF PackingTypeOK
    <3>4. Len(current) \in 1..MAX_OBJECTS_PER_COLLECTION
      BY <3>2, <3>3, CapAssumption
    <3> QED
      BY <3>1, <3>2, <3>4
  <2>2. CASE c # Len(collections) + 1
    <3>1. /\ c \in 1..Len(collections)
          /\ collections'[c] = collections[c] /\ filled'[c] = filled[c]
      <4> DEFINE S == Seq(1..Len(objects))
      <4>1. /\ collections \in Seq(S) /\ current \in S
            /\ filled \in Seq(Nat) /\ content_used \in Nat /\ Len(filled) = Len(collections)
        BY <1>2 DEF PackingTypeOK
      <4>2. collections' = Append(collections, current) /\ filled' = Append(filled, content_used)
        OBVIOUS
      <4> HIDE DEF S
      <4>3. /\ Len(collections) \in Nat /\ Len(collections') = Len(collections) + 1
            /\ \A i \in 1..Len(collections) : collections'[i] = collections[i]
        BY <4>1, <4>2, AppendFacts
      <4>4. \A i \in 1..Len(filled) : filled'[i] = filled[i]
        BY <4>1, <4>2, AppendFacts
      <4>5. c \in 1..Len(collections)
        BY <2>2, <4>3
      <4> QED
        BY <4>1, <4>3, <4>4, <4>5
    <3> QED
      BY <3>1 DEF IInv, CollectionsBounded
  <2> QED
    BY <2>1, <2>2
<1>7. CurrentBounded'
  BY CapAssumption DEF CurrentBounded
<1> QED
  BY <1>4, <1>5, <1>6, <1>7 DEF IInv

\* Closing the last collection moves nothing.
LEMMA FinishBuildKeeps ==
    ASSUME IInv, FinishBuild
    PROVE  IInv'
<1> USE DEF FinishBuild
<1>1. PackingTypeOK
  BY DEF IInv
<1>2. AllCollections' = AllCollections
  BY <1>1 DEF AllCollections
<1>3. PackingTypeOK'
  <2>1. CASE current = <<>>
    BY <1>1, <2>1 DEF PackingTypeOK, AllCollections
  <2>2. CASE current # <<>>
    <3> DEFINE T == Seq(1..Len(objects))
    <3>1. collections \in Seq(T) /\ current \in T
      BY <1>1 DEF PackingTypeOK
    <3>2. collections' = Append(collections, current)
      BY <2>2 DEF AllCollections
    <3>3. collections' \in Seq(T) /\ Len(collections') = Len(collections) + 1
      <4> HIDE DEF T
      <4> QED
        BY <3>1, <3>2, AppendFacts
    <3>4. filled' \in Seq(Nat) /\ Len(filled') = Len(filled) + 1
      BY <1>1, <2>2 DEF PackingTypeOK
    <3> QED
      BY <1>1, <3>3, <3>4 DEF PackingTypeOK
  <2> QED
    BY <2>1, <2>2
<1>4. LocationsExact'
  BY <1>2 DEF IInv, LocationsExact
<1>5. CollectionsBounded'
  <2>1. CASE current = <<>>
    BY <2>1 DEF IInv, CollectionsBounded, AllCollections
  <2>2. CASE current # <<>>
    <3> SUFFICES ASSUME NEW c \in 1..Len(collections')
                 PROVE  /\ Len(collections'[c]) \in 1..MAX_OBJECTS_PER_COLLECTION
                        /\ Len(collections'[c]) > 1 => filled'[c] <= H5HG_MAXSIZE
      BY DEF CollectionsBounded
    <3>1. collections' = Append(collections, current) /\ filled' = Append(filled, content_used)
      BY <2>2 DEF AllCollections
    <3>2. CASE c = Len(collections) + 1
      <4>1. collections'[c] = current /\ filled'[c] = content_used
        BY <1>1, <3>1, <3>2 DEF PackingTypeOK
      <4> QED
        <5>1. Len(current) \in Nat \ {0}
          BY <1>1, <2>2, NonEmptyHasLength DEF PackingTypeOK
        <5>2. /\ Len(current) <= MAX_OBJECTS_PER_COLLECTION
              /\ Len(current) > 1 => content_used <= H5HG_MAXSIZE
          BY DEF IInv, CurrentBounded
        <5>3. Len(current) \in 1..MAX_OBJECTS_PER_COLLECTION
          BY <5>1, <5>2, CapAssumption
        <5> QED
          BY <4>1, <5>2, <5>3
    <3>3. CASE c # Len(collections) + 1
      <4>1. /\ c \in 1..Len(collections)
            /\ collections'[c] = collections[c] /\ filled'[c] = filled[c]
        BY <1>1, <3>1, <3>3 DEF PackingTypeOK
      <4> QED
        BY <4>1 DEF IInv, CollectionsBounded
    <3> QED
      BY <3>2, <3>3
  <2> QED
    BY <2>1, <2>2
<1>6. CurrentBounded'
  BY CapAssumption DEF CurrentBounded
<1> QED
  BY <1>3, <1>4, <1>5, <1>6 DEF IInv

LEMMA NextKeeps == IInv /\ [Next]_vars => IInv'
<1> SUFFICES ASSUME IInv, [Next]_vars PROVE IInv'
  OBVIOUS
<1>1. ASSUME NEW length \in Length, WriteBytes(length) PROVE IInv'
  BY <1>1, WriteBytesKeeps
<1>2. CASE StartBuild
  BY <1>2, PackingUnchanged DEF StartBuild
<1>3. CASE Place
  BY <1>3, JoinKeeps, SpillKeeps DEF Place
<1>4. CASE FinishBuild
  BY <1>4, FinishBuildKeeps
<1>5. CASE /\ UNCHANGED packing /\ UNCHANGED <<objects, phase>>
  BY <1>5, PackingUnchanged DEF IInv, PackingTypeOK
<1>6. ASSUME NEW ordinal \in 1..Len(objects), StartRead(ordinal) PROVE IInv'
  BY <1>5, <1>6 DEF StartRead
<1>7. CASE ParseObject
  BY <1>5, <1>7 DEF ParseObject
<1>8. CASE FinishRead
  BY <1>5, <1>8 DEF FinishRead
<1>9. CASE UNCHANGED vars
  BY <1>5, <1>9 DEF vars
<1> QED
  BY <1>1, <1>2, <1>3, <1>4, <1>6, <1>7, <1>8, <1>9 DEF Next

-----------------------------------------------------------------------------

\* The inductive invariant of packing: types, exact locations, and the caps, kept
\* by the closed collections and by the one still open.
THEOREM PackingInvariant == Spec => []IInv
<1>1. Init => IInv
  BY InitEstablishes
<1>2. IInv /\ [Next]_vars => IInv'
  BY NextKeeps
<1> QED
  BY <1>1, <1>2, PTL DEF Spec

\* GlobalHeapWriter::build_collections never reports a location the value is not at.
THEOREM LocationsAreExact == Spec => []LocationsExact
<1>1. IInv => LocationsExact
  BY DEF IInv
<1> QED
  BY <1>1, PackingInvariant, PTL

\* No collection of several values outgrows H5HG_MAXSIZE, and none holds more values
\* than it can number.
THEOREM CollectionsAreBounded == Spec => []CollectionsBounded
<1>1. IInv => CollectionsBounded
  BY DEF IInv
<1> QED
  BY <1>1, PackingInvariant, PTL

-----------------------------------------------------------------------------
(* Sums over the objects of a collection *)

\* f sums the first values of g up, from a.
Sums(f, a, g, n) == f = [k \in 0..n |-> IF k = 0 THEN a ELSE f[k - 1] + g[k]]

LEMMA SumsExist ==
    ASSUME NEW a, NEW g, NEW n \in Nat
    PROVE  \E f : Sums(f, a, g, n)
<1> DEFINE Without == {m \in Nat : ~\E f : Sums(f, a, g, m)}
<1> SUFFICES ASSUME Without # {} PROVE FALSE
  OBVIOUS
<1>1. PICK m \in Without : \A k \in Without : m <= k
  BY LeastNumber
<1>2. CASE m = 0
  <2> DEFINE f == [k \in 0..0 |-> a]
  <2>1. Sums(f, a, g, 0)
    BY DEF Sums
  <2> QED
    BY <1>1, <1>2, <2>1
<1>3. CASE m # 0
  <2>1. m - 1 \in Nat /\ m - 1 \notin Without
    BY <1>1, <1>3
  <2>2. PICK f : Sums(f, a, g, m - 1)
    BY <2>1
  <2> DEFINE h == [k \in 0..m |-> IF k = m THEN f[m - 1] + g[m] ELSE f[k]]
  <2>3. ASSUME NEW k \in 0..m
        PROVE  h[k] = IF k = 0 THEN a ELSE h[k - 1] + g[k]
    <3>1. CASE k = m
      BY <1>3, <2>1, <3>1
    <3>2. CASE k # m
      <4>1. k \in 0..(m - 1) /\ (k # 0 => k - 1 \in 0..(m - 1) /\ k - 1 # m)
        BY <2>1, <3>2
      <4>2. f[k] = IF k = 0 THEN a ELSE f[k - 1] + g[k]
        BY <2>2, <4>1 DEF Sums
      <4> QED
        BY <3>2, <4>1, <4>2
    <3> QED
      BY <3>1, <3>2
  <2>4. Sums(h, a, g, m)
    BY <2>3 DEF Sums
  <2> QED
    BY <1>1, <2>4
<1> QED
  BY <1>2, <1>3

\* Sums agree as far as what they sum up does.
LEMMA SumsAgree ==
    ASSUME NEW a, NEW g, NEW h, NEW m \in Nat, NEW n \in Nat, NEW e, NEW f,
           Sums(e, a, g, m), Sums(f, a, h, n), \A k \in 1..m : k <= n => g[k] = h[k],
           NEW i \in 0..m, i <= n
    PROVE  e[i] = f[i]
<1> DEFINE Wrong == {k \in 0..m : k <= n /\ e[k] # f[k]}
<1> SUFFICES ASSUME Wrong # {} PROVE FALSE
  OBVIOUS
<1>1. PICK k \in Wrong : \A j \in Wrong : k <= j
  <2>1. Wrong \subseteq Nat
    OBVIOUS
  <2> HIDE DEF Wrong
  <2> QED
    BY <2>1, LeastNumber
<1>2. k # 0
  BY <1>1 DEF Sums
<1>3. k - 1 \in 0..m /\ k - 1 \in 0..n /\ k - 1 \notin Wrong /\ k \in 1..m /\ k \in 0..n
  BY <1>1, <1>2
<1>4. e[k - 1] = f[k - 1] /\ g[k] = h[k]
  BY <1>1, <1>3
<1>5. e[k] = e[k - 1] + g[k] /\ f[k] = f[k - 1] + h[k]
  BY <1>1, <1>2, <1>3 DEF Sums
<1> QED
  BY <1>1, <1>4, <1>5

\* ContentEnd is such a sum, of what the objects need.
Needs(collection, n) == [k \in 1..n |-> Need(collection[k])]

LEMMA ContentEndSums ==
    ASSUME NEW c, NEW n \in Nat
    PROVE  \E end : Sums(end, COLLECTION_HEADER, Needs(c, n), n) /\ ContentEnd(c, n) = end[n]
<1> DEFINE Is(end) == end = [k \in 0..n |-> IF k = 0 THEN COLLECTION_HEADER
                                           ELSE end[k - 1] + Need(c[k])]
           chosen == CHOOSE end : Is(end)
<1>1. PICK f : Sums(f, COLLECTION_HEADER, Needs(c, n), n)
  BY SumsExist
<1>2. ASSUME NEW h PROVE Sums(h, COLLECTION_HEADER, Needs(c, n), n) <=> Is(h)
  <2> DEFINE lhs == [k \in 0..n |-> IF k = 0 THEN COLLECTION_HEADER
                                    ELSE h[k - 1] + Needs(c, n)[k]]
             rhs == [k \in 0..n |-> IF k = 0 THEN COLLECTION_HEADER ELSE h[k - 1] + Need(c[k])]
  <2>1. \A k \in 0..n : k # 0 => Needs(c, n)[k] = Need(c[k])
    BY DEF Needs
  <2>2. lhs = rhs
    BY <2>1
  <2> QED
    BY <2>2 DEF Sums
<1>3. Is(f)
  BY <1>1, <1>2
<1>4. Is(chosen)
  <2> HIDE DEF Is
  <2> QED
    BY <1>3
<1>5. ContentEnd(c, n) = chosen[n]
  BY DEF ContentEnd
<1> HIDE DEF Is, chosen
<1> QED
  BY <1>2, <1>4, <1>5

\* The content of a collection ends at the header's end, and goes on object by object.
LEMMA ContentEndUnfolds ==
    ASSUME NEW c, NEW n \in Nat
    PROVE  /\ ContentEnd(c, 0) = COLLECTION_HEADER
           /\ ContentEnd(c, n + 1) = ContentEnd(c, n) + Need(c[n + 1])
<1>1. PICK z : Sums(z, COLLECTION_HEADER, Needs(c, 0), 0) /\ ContentEnd(c, 0) = z[0]
  BY ContentEndSums
<1>2. PICK e : Sums(e, COLLECTION_HEADER, Needs(c, n), n) /\ ContentEnd(c, n) = e[n]
  BY ContentEndSums
<1>3. PICK f : Sums(f, COLLECTION_HEADER, Needs(c, n + 1), n + 1) /\ ContentEnd(c, n + 1) = f[n + 1]
  BY ContentEndSums
<1>4. e[n] = f[n]
  <2>1. \A k \in 1..n : Needs(c, n)[k] = Needs(c, n + 1)[k]
    BY DEF Needs
  <2> QED
    BY <1>2, <1>3, <2>1, SumsAgree
<1>5. f[n + 1] = f[n] + Need(c[n + 1])
  BY <1>3 DEF Sums, Needs
<1> QED
  BY <1>1, <1>2, <1>3, <1>4, <1>5 DEF Sums

\* It does not depend on the objects behind.
LEMMA ContentEndOfPrefix ==
    ASSUME NEW c, NEW d, NEW n \in Nat, \A k \in 1..n : c[k] = d[k]
    PROVE  ContentEnd(c, n) = ContentEnd(d, n)
<1>1. PICK e : Sums(e, COLLECTION_HEADER, Needs(c, n), n) /\ ContentEnd(c, n) = e[n]
  BY ContentEndSums
<1>2. PICK f : Sums(f, COLLECTION_HEADER, Needs(d, n), n) /\ ContentEnd(d, n) = f[n]
  BY ContentEndSums
<1>3. \A k \in 1..n : Needs(c, n)[k] = Needs(d, n)[k]
  BY DEF Needs
<1> QED
  BY <1>1, <1>2, <1>3, SumsAgree


\* Division by the alignment, as a quotient and a remainder.
LEMMA Division ==
    ASSUME NEW n \in Nat, NEW m \in Nat \ {0}
    PROVE  n = (n \div m) * m + (n % m) /\ n \div m \in Nat /\ n % m \in 0..(m - 1)
OBVIOUS

LEMMA Multiple ==
    ASSUME NEW n \in Nat, NEW m \in Nat \ {0}, n % m = 0
    PROVE  \E q \in Nat : n = q * m
<1>1. n = (n \div m) * m + (n % m) /\ n \div m \in Nat
  BY Division
<1>2. (n \div m) * m \in Nat
  <2> DEFINE q == n \div m
  <2>1. q \in Nat BY <1>1
  <2> HIDE DEF q
  <2>2. q * m \in Nat BY <2>1
  <2> QED BY <2>2 DEF q
<1>3. n = (n \div m) * m
  BY <1>1, <1>2
<1> QED BY <1>1, <1>3

LEMMA ProductRemainder ==
    ASSUME NEW q \in Nat, NEW m \in Nat \ {0}
    PROVE  q * m \in Nat /\ (q * m) % m = 0
  OBVIOUS

LEMMA QuotientShift ==
    ASSUME NEW q \in Nat, NEW n \in Nat, NEW m \in Nat \ {0}
    PROVE  (q * m + n) \div m = q + n \div m
  OBVIOUS

LEMMA Distribute ==
    ASSUME NEW q \in Nat, NEW r \in Nat, NEW m \in Nat
    PROVE  (q + r) * m = q * m + r * m /\ q * m \in Nat /\ r * m \in Nat /\ (q + r) * m \in Nat
  OBVIOUS

\* Aligning rounds up to a multiple of the alignment, and by less than one alignment.
LEMMA AlignRoundsUp ==
    ASSUME NEW n \in Nat
    PROVE  Align(n) \in Nat /\ Align(n) >= n /\ Align(n) % ALIGN = 0
<1> DEFINE q == (n + ALIGN - 1) \div ALIGN
           r == (n + ALIGN - 1) % ALIGN
<1>1. n + ALIGN - 1 = q * ALIGN + r /\ q \in Nat /\ r \in 0..(ALIGN - 1)
  <2>1. n + ALIGN - 1 \in Nat
    BY AlignAssumption
  <2> QED
    BY <2>1, Division, AlignAssumption
<1>2. Align(n) = q * ALIGN
  BY DEF Align
<1> HIDE DEF q, r
<1>3. q * ALIGN \in Nat /\ (q * ALIGN) % ALIGN = 0
  BY <1>1, ProductRemainder, AlignAssumption
<1> DEFINE p == q * ALIGN
<1>4. n + ALIGN - 1 = p + r /\ p \in Nat /\ Align(n) = p
  BY <1>1, <1>2, <1>3
<1> HIDE DEF p
<1>5. p >= n
  BY <1>1, <1>4, AlignAssumption
<1> QED
  BY <1>2, <1>3, <1>4, <1>5

\* What starts on a multiple of the alignment is aligned by itself.
LEMMA AlignFromMultiple ==
    ASSUME NEW n \in Nat, NEW m \in Nat, m % ALIGN = 0
    PROVE  /\ Align(m + n) = m + Align(n)
           /\ (m + Align(n)) % ALIGN = 0
<1>1. PICK q \in Nat : m = q * ALIGN
  BY Multiple, AlignAssumption
<1> DEFINE r == (n + ALIGN - 1) \div ALIGN
           s == n + ALIGN - 1
<1>2. r \in Nat /\ s \in Nat
  <2>1. s \in Nat
    BY AlignAssumption
  <2> QED
    BY <2>1, Division, AlignAssumption
<1>3. (q * ALIGN + s) \div ALIGN = q + r
  <2>1. (q * ALIGN + s) \div ALIGN = q + (s \div ALIGN)
    <3> HIDE DEF s
    <3> QED
      BY <1>2, QuotientShift, AlignAssumption
  <2> QED
    BY <2>1
<1>4. (m + n) + ALIGN - 1 = q * ALIGN + s
  <2> DEFINE p == q * ALIGN
  <2>1. m = p
    BY <1>1
  <2> HIDE DEF p
  <2>2. (m + n) + ALIGN - 1 = p + s
    BY <2>1, AlignAssumption
  <2> QED
    BY <2>2 DEF p
<1>5. Align(m + n) = (q + r) * ALIGN
  BY <1>3, <1>4 DEF Align
<1>6. (q + r) * ALIGN = q * ALIGN + r * ALIGN
  <2> HIDE DEF r
  <2> QED
    BY <1>2, Distribute, AlignAssumption
<1>7. Align(n) = r * ALIGN
  BY DEF Align
<1>8. q + r \in Nat
  <2> HIDE DEF r
  <2> QED
    BY <1>2
<1>9. ((q + r) * ALIGN) % ALIGN = 0
  <2> HIDE DEF r
  <2> QED
    BY <1>8, ProductRemainder, AlignAssumption
<1> HIDE DEF r
<1> QED
  BY <1>1, <1>5, <1>6, <1>7, <1>9

\* The objects a collection may hold.
Holds(c) == c \in Seq(1..Len(objects))

\* What a value needs begins with its header and keeps the next one aligned.
LEMMA NeedIsAligned ==
    ASSUME PackingTypeOK, NEW o \in 1..Len(objects)
    PROVE  /\ Need(o) \in Nat /\ Need(o) >= OBJECT_HEADER + objects[o] /\ objects[o] \in Nat
           /\ \A m \in Nat : m % ALIGN = 0 =>
                 /\ (m + Need(o)) % ALIGN = 0
                 /\ Align(m + OBJECT_HEADER + objects[o]) = m + Need(o)
<1>1. objects[o] \in Nat
  <2>1. objects[o] \in Length
    BY DEF PackingTypeOK
  <2> QED
    BY <2>1, LengthAssumption
<1> DEFINE n == OBJECT_HEADER + objects[o]
<1>2. n \in Nat
  BY <1>1, HeaderAssumption
<1>3. Need(o) = Align(n)
  BY DEF Need
<1>4. \A m \in Nat : m + OBJECT_HEADER + objects[o] = m + n
  BY <1>1, HeaderAssumption
<1> HIDE DEF n
<1>5. Align(n) \in Nat /\ Align(n) >= n
  BY <1>2, AlignRoundsUp
<1>6. \A m \in Nat : m % ALIGN = 0 => (m + Align(n)) % ALIGN = 0 /\ Align(m + n) = m + Align(n)
  BY <1>2, AlignFromMultiple
<1> QED
  BY <1>1, <1>3, <1>4, <1>5, <1>6 DEF n

\* Every object of a collection ends on a multiple of the alignment.
LEMMA ContentEndIsAligned ==
    ASSUME PackingTypeOK, NEW c, Holds(c), NEW n \in 0..Len(c)
    PROVE  ContentEnd(c, n) \in Nat /\ ContentEnd(c, n) % ALIGN = 0
<1> DEFINE Wrong == {k \in 0..Len(c) : ~(ContentEnd(c, k) \in Nat /\ ContentEnd(c, k) % ALIGN = 0)}
<1> SUFFICES ASSUME Wrong # {} PROVE FALSE
  OBVIOUS
<1>1. PICK k \in Wrong : \A j \in Wrong : k <= j
  <2>1. Wrong \subseteq Nat
    OBVIOUS
  <2> HIDE DEF Wrong
  <2> QED
    BY <2>1, LeastNumber
<1>2. Len(c) \in Nat
  BY DEF Holds
<1>3. k # 0
  BY <1>1, ContentEndUnfolds, HeaderAssumption
<1>4. k - 1 \in 0..Len(c) /\ k - 1 \notin Wrong /\ k \in 1..Len(c) /\ k - 1 \in Nat
  BY <1>1, <1>2, <1>3
<1>5. ContentEnd(c, k - 1) \in Nat /\ ContentEnd(c, k - 1) % ALIGN = 0
  BY <1>4
<1>6. ContentEnd(c, k) = ContentEnd(c, k - 1) + Need(c[k])
  <2>1. (k - 1) + 1 = k
    BY <1>1
  <2> QED
    BY <1>4, <2>1, ContentEndUnfolds
<1>7. c[k] \in 1..Len(objects)
  BY <1>4 DEF Holds
<1>8. Need(c[k]) \in Nat /\ (ContentEnd(c, k - 1) + Need(c[k])) % ALIGN = 0
  BY <1>5, <1>7, NeedIsAligned
<1>9. ContentEnd(c, k) \in Nat /\ ContentEnd(c, k) % ALIGN = 0
  BY <1>5, <1>6, <1>8
<1> QED
  BY <1>1, <1>9

\* The next object ends behind its header, so that ends are in the order of the objects.
LEMMA ContentEndGrows ==
    ASSUME PackingTypeOK, NEW c, Holds(c), NEW i \in 0..Len(c), NEW j \in 0..Len(c), i < j
    PROVE  ContentEnd(c, i) + OBJECT_HEADER <= ContentEnd(c, j)
<1> DEFINE Wrong == {k \in 0..Len(c) : i < k /\ ~(ContentEnd(c, i) + OBJECT_HEADER <= ContentEnd(c, k))}
<1> SUFFICES ASSUME Wrong # {} PROVE FALSE
  OBVIOUS
<1>1. PICK k \in Wrong : \A m \in Wrong : k <= m
  <2>1. Wrong \subseteq Nat
    OBVIOUS
  <2> HIDE DEF Wrong
  <2> QED
    BY <2>1, LeastNumber
<1>2. Len(c) \in Nat
  BY DEF Holds
<1>3. k - 1 \in 0..Len(c) /\ k \in 1..Len(c) /\ k - 1 \in Nat /\ (k - 1) + 1 = k /\ k - 1 \notin Wrong
  BY <1>1, <1>2
<1>4. ContentEnd(c, k) = ContentEnd(c, k - 1) + Need(c[k])
  BY <1>3, ContentEndUnfolds
<1>5. ContentEnd(c, k - 1) \in Nat /\ ContentEnd(c, i) \in Nat /\ ContentEnd(c, k) \in Nat
  BY <1>3, ContentEndIsAligned
<1>6. Need(c[k]) \in Nat /\ Need(c[k]) >= OBJECT_HEADER
  <2>1. c[k] \in 1..Len(objects)
    BY <1>3 DEF Holds
  <2>2. /\ Need(c[k]) \in Nat /\ objects[c[k]] \in Nat
        /\ Need(c[k]) >= OBJECT_HEADER + objects[c[k]]
    BY <2>1, NeedIsAligned
  <2> QED
    BY <2>2, HeaderAssumption
<1>7. k - 1 = i \/ (i < k - 1 /\ ContentEnd(c, i) + OBJECT_HEADER <= ContentEnd(c, k - 1))
  BY <1>1, <1>3
<1> QED
  BY <1>1, <1>4, <1>5, <1>6, <1>7, HeaderAssumption

\* Doubling from the least size of a collection ends at one that holds its content.
DoublesIn(f, content_end, m, limit) ==
    f = [size \in m..limit |-> IF size < content_end THEN f[2 * size] ELSE size]

LEMMA DoublingEnds ==
    ASSUME NEW content_end \in Nat, NEW limit \in Nat, 2 * content_end <= limit
    PROVE  \E f : DoublesIn(f, content_end, 1, limit)
<1> DEFINE From == {m \in 1..(limit + 1) : \E f : DoublesIn(f, content_end, m, limit)}
<1>1. limit + 1 \in From
  <2> DEFINE f == [size \in (limit + 1)..limit |-> 0]
  <2>1. f = [size \in (limit + 1)..limit |-> IF size < content_end THEN f[2 * size] ELSE size]
    OBVIOUS
  <2>2. DoublesIn(f, content_end, limit + 1, limit)
    BY <2>1 DEF DoublesIn
  <2> QED
    BY <2>2
<1>2. PICK m \in From : \A k \in From : m <= k
  <2>1. From \subseteq Nat /\ From # {}
    BY <1>1
  <2> HIDE DEF From
  <2> QED
    BY <2>1, LeastNumber
<1>3. PICK f : DoublesIn(f, content_end, m, limit)
  BY <1>2
<1>4. CASE m = 1
  BY <1>3, <1>4
<1>5. CASE m # 1
  <2> DEFINE n == m - 1
             g == [size \in n..limit |->
                      IF size = n THEN IF n < content_end THEN f[2 * n] ELSE n ELSE f[size]]
  <2>1. n \in 1..limit /\ m \in 2..(limit + 1) /\ m = n + 1
    BY <1>2, <1>5
  <2>2. ASSUME NEW size \in n..limit
        PROVE  g[size] = IF size < content_end THEN g[2 * size] ELSE size
    <3>1. CASE size < content_end
      <4>1. 2 * size \in m..limit /\ 2 * size # n /\ 2 * size \in n..limit
        BY <2>1, <3>1
      <4>2. g[2 * size] = f[2 * size]
        BY <4>1
      <4>3. size # n => size \in m..limit
        BY <2>1
      <4>4. size # n => f[size] = f[2 * size]
        BY <1>3, <3>1, <4>3 DEF DoublesIn
      <4> QED
        BY <3>1, <4>2, <4>4
    <3>2. CASE ~(size < content_end)
      <4>1. size # n => size \in m..limit
        BY <2>1
      <4>2. size # n => f[size] = size
        BY <1>3, <3>2, <4>1 DEF DoublesIn
      <4> QED
        BY <3>2, <4>2
    <3> QED
      BY <3>1, <3>2
  <2>3. DoublesIn(g, content_end, n, limit)
    BY <2>2 DEF DoublesIn
  <2>4. n \in From
    BY <2>1, <2>3
  <2> QED
    BY <1>2, <2>1, <2>4
<1> QED
  BY <1>4, <1>5

LEMMA DoublingHolds ==
    ASSUME NEW content_end \in Nat, NEW limit \in Nat, 2 * content_end <= limit,
           NEW f, DoublesIn(f, content_end, 1, limit), NEW size \in 1..limit
    PROVE  f[size] \in Nat /\ f[size] >= content_end /\ f[size] >= size
<1> DEFINE Wrong == {n \in 0..limit : \E s \in 1..limit :
                        n = limit - s /\ ~(f[s] \in Nat /\ f[s] >= content_end /\ f[s] >= s)}
<1> SUFFICES ASSUME ~(f[size] \in Nat /\ f[size] >= content_end /\ f[size] >= size) PROVE FALSE
  OBVIOUS
<1>0. limit - size \in Wrong
  BY DEF Wrong
<1>1. PICK n \in Wrong : \A k \in Wrong : n <= k
  <2>1. Wrong \subseteq Nat
    OBVIOUS
  <2> HIDE DEF Wrong
  <2> QED
    BY <1>0, <2>1, LeastNumber
<1>2. PICK s \in 1..limit :
          n = limit - s /\ ~(f[s] \in Nat /\ f[s] >= content_end /\ f[s] >= s)
  BY <1>1
<1>3. s < content_end /\ f[s] = f[2 * s]
  BY <1>2 DEF DoublesIn
<1>4. 2 * s \in 1..limit /\ limit - (2 * s) \in 0..limit /\ limit - (2 * s) < n /\ n \in Nat
  BY <1>1, <1>2, <1>3
<1>5. limit - (2 * s) \notin Wrong
  <2> HIDE DEF Wrong
  <2> QED
    BY <1>1, <1>4
<1>6. f[2 * s] \in Nat /\ f[2 * s] >= content_end /\ f[2 * s] >= 2 * s
  BY <1>4, <1>5
<1> QED
  BY <1>2, <1>3, <1>6

\* collection_size is never less than the content, nor than what libhdf5 accepts.
LEMMA CollectionSizeHolds ==
    ASSUME NEW content_end \in Nat
    PROVE  /\ CollectionSize(content_end) \in Nat
           /\ CollectionSize(content_end) >= content_end
           /\ CollectionSize(content_end) >= H5HG_MINSIZE
<1> DEFINE limit == 2 * content_end + H5HG_MINSIZE
           Is(f) == f = [size \in 1..limit |-> IF size < content_end THEN f[2 * size] ELSE size]
           chosen == CHOOSE f : Is(f)
<1>1. limit \in Nat /\ 2 * content_end <= limit /\ H5HG_MINSIZE \in 1..limit
  BY SizeAssumption
<1>2. \A f : Is(f) <=> DoublesIn(f, content_end, 1, limit)
  BY DEF DoublesIn
<1>3. CollectionSize(content_end) =
          IF content_end <= H5HG_MAXSIZE THEN chosen[H5HG_MINSIZE] ELSE Align(content_end)
  BY DEF CollectionSize
<1>4. \E f : Is(f)
  <2>1. \E f : DoublesIn(f, content_end, 1, limit)
    <3> HIDE DEF limit
    <3> QED
      BY <1>1, DoublingEnds
  <2> HIDE DEF Is
  <2> QED
    BY <1>2, <2>1
<1>5. Is(chosen)
  <2> HIDE DEF Is
  <2> QED
    BY <1>4
<1> HIDE DEF Is, chosen, limit
<1>6. /\ chosen[H5HG_MINSIZE] \in Nat
      /\ chosen[H5HG_MINSIZE] >= content_end /\ chosen[H5HG_MINSIZE] >= H5HG_MINSIZE
  BY <1>1, <1>2, <1>5, DoublingHolds
<1>7. Align(content_end) \in Nat /\ Align(content_end) >= content_end
  BY AlignRoundsUp
<1> QED
  BY <1>3, <1>6, <1>7, SizeAssumption

\* Collections lie at addresses that are numbers.
LEMMA AddrOfIsNatural ==
    ASSUME PackingTypeOK, start \in Nat, NEW c \in 0..Len(collections)
    PROVE  AddrOf(c) \in Nat
<1> DEFINE sizes == [k \in 1..c |-> SizeOf(collections[k])]
           Is(addr) == addr = [k \in 0..c |-> IF k = 0 THEN start
                                              ELSE addr[k - 1] + SizeOf(collections[k])]
           chosen == CHOOSE addr : Is(addr)
<1>1. c \in Nat
  BY DEF PackingTypeOK
<1>2. \A k \in 1..c : SizeOf(collections[k]) \in Nat
  <2> TAKE k \in 1..c
  <2>1. Holds(collections[k]) /\ Len(collections[k]) \in 0..Len(collections[k])
    BY DEF PackingTypeOK, Holds
  <2>2. ContentEnd(collections[k], Len(collections[k])) \in Nat
    BY <2>1, ContentEndIsAligned
  <2> QED
    BY <2>2, CollectionSizeHolds DEF SizeOf
<1>3. \E addr : Is(addr)
  <2>1. PICK f : Sums(f, start, sizes, c)
    BY <1>1, SumsExist
  <2> DEFINE lhs == [k \in 0..c |-> IF k = 0 THEN start ELSE f[k - 1] + sizes[k]]
             rhs == [k \in 0..c |-> IF k = 0 THEN start ELSE f[k - 1] + SizeOf(collections[k])]
  <2>2. \A k \in 0..c : k # 0 => sizes[k] = SizeOf(collections[k])
    OBVIOUS
  <2> HIDE DEF sizes
  <2>3. lhs = rhs
    BY <2>2
  <2>4. Is(f)
    BY <2>1, <2>3 DEF Sums
  <2> QED
    BY <2>4
<1>4. Is(chosen)
  <2> HIDE DEF Is
  <2> QED
    BY <1>3
<1>5. AddrOf(c) = chosen[c]
  BY DEF AddrOf
<1>6. chosen[0] = start /\ \A k \in 1..c : chosen[k] = chosen[k - 1] + SizeOf(collections[k])
  <2> HIDE DEF chosen
  <2> QED
    BY <1>1, <1>4
<1> HIDE DEF Is, chosen
<1> DEFINE Wrong == {k \in 0..c : chosen[k] \notin Nat}
<1>7. Wrong = {}
  <2> SUFFICES ASSUME Wrong # {} PROVE FALSE
    OBVIOUS
  <2>1. PICK k \in Wrong : \A j \in Wrong : k <= j
    <3>1. Wrong \subseteq Nat
      OBVIOUS
    <3> HIDE DEF Wrong
    <3> QED
      BY <3>1, LeastNumber
  <2>2. k # 0
    BY <1>6, <2>1
  <2>3. k \in 1..c /\ k - 1 \in 0..c /\ k - 1 \notin Wrong
    BY <2>1, <2>2
  <2>4. chosen[k - 1] \in Nat
    BY <2>3
  <2> QED
    BY <1>2, <1>6, <2>1, <2>3, <2>4
<1> QED
  BY <1>1, <1>5, <1>7

\* What content ends and addresses say depends on nothing a reader changes.
LEMMA ContentEndStays ==
    ASSUME UNCHANGED objects, NEW c, NEW n
    PROVE  ContentEnd(c, n)' = ContentEnd(c, n)
  BY DEF ContentEnd, Need

LEMMA AddrOfStays ==
    ASSUME UNCHANGED <<start, objects, collections>>, NEW c
    PROVE  AddrOf(c)' = AddrOf(c)
  BY DEF AddrOf, SizeOf, ContentEnd, Need

LEMMA SizeOfStays ==
    ASSUME UNCHANGED objects, NEW c
    PROVE  SizeOf(c)' = SizeOf(c)
  BY DEF SizeOf, ContentEnd, Need

-----------------------------------------------------------------------------
(* Packing counts, and a reader walks *)

\* A collection is closed with its content counted.
ClosedCounted ==
    \A c \in 1..Len(collections) : filled[c] = ContentEnd(collections[c], Len(collections[c]))

\* What packing counts is what serialization adds up to.
ContentCounted ==
    /\ phase = "register" => collections = <<>> /\ current = <<>> /\ content_used = COLLECTION_HEADER
    /\ phase = "pack" => content_used = ContentEnd(current, Len(current))
    /\ phase = "built" => current = <<>> /\ Len(locations) = Len(objects)
    /\ ClosedCounted

\* A reader stands where one object ends and the next begins, and has read those before.
ReaderWalks ==
    /\ start \in Start
    /\ asked \in 0..Len(objects)
    /\ asked # 0 => /\ phase = "built"
                    /\ parsed \in Seq(Nat) /\ Len(parsed) <= Len(Collection)
                    /\ \A k \in 1..Len(parsed) : parsed[k] = k
                    /\ pos = Base + ContentEnd(Collection, Len(parsed))

HeapInv == IInv /\ ContentCounted /\ ReaderWalks /\ ReferencesResolve

LEMMA InitCounts == Init => HeapInv
<1> SUFFICES ASSUME Init PROVE HeapInv
  OBVIOUS
<1>1. IInv
  BY InitEstablishes
<1>2. ContentCounted
  BY DEF Init, ContentCounted, ClosedCounted
<1>3. ReaderWalks
  BY DEF Init, ReaderWalks
<1>4. ReferencesResolve
  BY DEF Init, ReferencesResolve, NoAnswer
<1> QED
  BY <1>1, <1>2, <1>3, <1>4 DEF HeapInv

\* One more object in a collection ends as far behind as it needs.
LEMMA ContentEndAppends ==
    ASSUME PackingTypeOK, NEW c, Holds(c), NEW o \in 1..Len(objects)
    PROVE  ContentEnd(Append(c, o), Len(Append(c, o))) = ContentEnd(c, Len(c)) + Need(o)
<1>1. /\ Len(c) \in Nat /\ Len(Append(c, o)) = Len(c) + 1
      /\ Append(c, o)[Len(c) + 1] = o
      /\ \A k \in 1..Len(c) : Append(c, o)[k] = c[k]
  BY DEF Holds
<1>2. ContentEnd(Append(c, o), Len(c)) = ContentEnd(c, Len(c))
  BY <1>1, ContentEndOfPrefix
<1>3. ContentEnd(Append(c, o), Len(c) + 1) = ContentEnd(Append(c, o), Len(c)) + Need(o)
  BY <1>1, ContentEndUnfolds
<1> QED
  BY <1>1, <1>2, <1>3

\* Content ends after a step that registers nothing are what they were before.
LEMMA ClosedCountedNext ==
    ASSUME UNCHANGED objects,
           \A c \in 1..Len(collections') : filled'[c] = ContentEnd(collections'[c], Len(collections'[c]))
    PROVE  ClosedCounted'
<1> SUFFICES ASSUME NEW c \in 1..Len(collections')
             PROVE  (filled[c] = ContentEnd(collections[c], Len(collections[c])))'
  BY DEF ClosedCounted
<1>1. (ContentEnd(collections[c], Len(collections[c])))'
          = ContentEnd(collections'[c], Len(collections'[c]))
  BY DEF ContentEnd, Need
<1> QED
  BY <1>1

\* A collection closed was counted to the end of its content.
LEMMA ClosingCounts ==
    ASSUME IInv, ContentCounted, phase = "pack", UNCHANGED objects,
           collections' = Append(collections, current), filled' = Append(filled, content_used)
    PROVE  ClosedCounted'
<1> SUFFICES ASSUME NEW c \in 1..Len(collections')
             PROVE  filled'[c] = ContentEnd(collections'[c], Len(collections'[c]))
  BY ClosedCountedNext
<1> DEFINE T == Seq(1..Len(objects))
<1>1. /\ collections \in Seq(T) /\ current \in T /\ filled \in Seq(Nat)
      /\ Len(filled) = Len(collections) /\ content_used \in Nat
  BY DEF IInv, PackingTypeOK
<1> HIDE DEF T
<1>2. /\ Len(collections') = Len(collections) + 1 /\ Len(collections) \in Nat
      /\ collections'[Len(collections) + 1] = current
      /\ \A k \in 1..Len(collections) : collections'[k] = collections[k]
  BY <1>1, AppendFacts
<1>3. /\ filled'[Len(collections) + 1] = content_used
      /\ \A k \in 1..Len(collections) : filled'[k] = filled[k]
  BY <1>1, AppendFacts
<1>4. CASE c = Len(collections) + 1
  BY <1>2, <1>3, <1>4 DEF ContentCounted
<1>5. CASE c # Len(collections) + 1
  <2>1. c \in 1..Len(collections)
    BY <1>2, <1>5
  <2> QED
    BY <1>2, <1>3, <2>1 DEF ContentCounted, ClosedCounted
<1> QED
  BY <1>4, <1>5

\* Placing a value counts what it needs.
LEMMA PlaceCounts ==
    ASSUME HeapInv, Place
    PROVE  HeapInv'
<1> USE DEF reading
<1>1. IInv' /\ PackingTypeOK /\ IInv /\ ContentCounted
  <2>1. [Next]_vars
    BY DEF Next
  <2> QED
    BY <2>1, NextKeeps DEF HeapInv, IInv
<1>2. phase = "pack" /\ phase' = "pack" /\ UNCHANGED objects /\ UNCHANGED <<start, reading>>
  BY DEF Place
<1>3. Ordinal \in 1..Len(objects) /\ Need(Ordinal) \in Nat
  <2>1. Ordinal \in 1..Len(objects)
    BY <1>1 DEF Place, Ordinal, PackingTypeOK
  <2> QED
    BY <1>1, <2>1, NeedIsNatural
<1>4. Holds(current)
  BY <1>1 DEF Holds, PackingTypeOK
<1>5. ContentCounted'
  <2>1. CASE Overflows(Ordinal)
    <3>1. /\ collections' = Append(collections, current) /\ filled' = Append(filled, content_used)
          /\ current' = <<Ordinal>> /\ content_used' = COLLECTION_HEADER + Need(Ordinal)
      BY <2>1 DEF Place
    <3>2. ClosedCounted'
      BY <1>1, <1>2, <3>1, ClosingCounts
    <3>3. content_used' = ContentEnd(current', Len(current'))
      <4>1. Holds(<<>>) /\ Len(<<>>) = 0 /\ Append(<<>>, Ordinal) = <<Ordinal>>
        BY DEF Holds
      <4>2. ContentEnd(<<Ordinal>>, Len(<<Ordinal>>)) = ContentEnd(<<>>, 0) + Need(Ordinal)
        BY <1>1, <1>3, <4>1, ContentEndAppends
      <4>3. ContentEnd(<<>>, 0) = COLLECTION_HEADER
        BY ContentEndUnfolds
      <4> QED
        BY <3>1, <4>2, <4>3
    <3>4. (ContentEnd(current, Len(current)))' = ContentEnd(current', Len(current'))
      BY <1>2 DEF ContentEnd, Need
    <3> QED
      BY <1>2, <3>2, <3>3, <3>4 DEF ContentCounted
  <2>2. CASE ~Overflows(Ordinal)
    <3>1. /\ UNCHANGED <<collections, filled>>
          /\ current' = Append(current, Ordinal) /\ content_used' = content_used + Need(Ordinal)
      BY <2>2 DEF Place
    <3>2. content_used' = ContentEnd(current', Len(current'))
      <4>1. content_used = ContentEnd(current, Len(current))
        BY <1>1, <1>2 DEF ContentCounted
      <4>2. ContentEnd(current', Len(current')) = ContentEnd(current, Len(current)) + Need(Ordinal)
        BY <1>1, <1>3, <1>4, <3>1, ContentEndAppends
      <4> QED
        BY <3>1, <4>1, <4>2
    <3>4. (ContentEnd(current, Len(current)))' = ContentEnd(current', Len(current'))
      BY <1>2 DEF ContentEnd, Need
    <3>5. ClosedCounted'
      BY <1>1, <1>2, <3>1, ClosedCountedNext DEF ContentCounted, ClosedCounted
    <3> QED
      BY <1>2, <3>2, <3>4, <3>5 DEF ContentCounted
  <2> QED
    BY <2>1, <2>2
<1>6. asked = 0
  BY <1>2 DEF HeapInv, ReaderWalks
<1>7. ReaderWalks' /\ ReferencesResolve'
  BY <1>2, <1>6 DEF HeapInv, ReaderWalks, ReferencesResolve
<1> QED
  BY <1>1, <1>5, <1>7 DEF HeapInv

\* So does closing the last collection.
LEMMA FinishBuildCounts ==
    ASSUME HeapInv, FinishBuild
    PROVE  HeapInv'
<1> USE DEF reading
<1>1. IInv' /\ PackingTypeOK /\ IInv /\ ContentCounted
  <2>1. [Next]_vars
    BY DEF Next
  <2> QED
    BY <2>1, NextKeeps DEF HeapInv, IInv
<1>2. /\ phase = "pack" /\ phase' = "built" /\ UNCHANGED objects
      /\ UNCHANGED <<start, locations, reading>> /\ current' = <<>>
  BY DEF FinishBuild
<1>3. Len(locations') = Len(objects')
  BY <1>1, <1>2 DEF FinishBuild, Ordinal, PackingTypeOK
<1>4. ClosedCounted'
  <2>1. CASE current = <<>>
    <3>1. UNCHANGED <<collections, filled>>
      BY <2>1 DEF FinishBuild, AllCollections
    <3> QED
      BY <1>1, <1>2, <3>1, ClosedCountedNext DEF ContentCounted, ClosedCounted
  <2>2. CASE current # <<>>
    <3>1. collections' = Append(collections, current) /\ filled' = Append(filled, content_used)
      BY <2>2 DEF FinishBuild, AllCollections
    <3> QED
      BY <1>1, <1>2, <3>1, ClosingCounts
  <2> QED
    BY <2>1, <2>2
<1>5. ContentCounted'
  BY <1>2, <1>3, <1>4 DEF ContentCounted
<1>6. asked = 0
  BY <1>2 DEF HeapInv, ReaderWalks
<1>7. ReaderWalks' /\ ReferencesResolve'
  BY <1>2, <1>6 DEF HeapInv, ReaderWalks, ReferencesResolve
<1> QED
  BY <1>1, <1>5, <1>7 DEF HeapInv

\* While a reader stands within a collection, where its next object begins there is
\* that object's header, and room for it.
LEMMA HeaderIsThere ==
    ASSUME PackingTypeOK, NEW c, Holds(c), NEW n \in 0..Len(c)
    PROVE  /\ n < Len(c) =>
                /\ HeaderAt(c, ContentEnd(c, n)) = [index |-> n + 1, length |-> objects[c[n + 1]]]
                /\ ContentEnd(c, n) + OBJECT_HEADER <= SizeOf(c)
           /\ n = Len(c) => HeaderAt(c, ContentEnd(c, n)).index = 0
<1>1. Len(c) \in Nat /\ \A i \in 0..Len(c) : ContentEnd(c, i) \in Nat
  BY ContentEndIsAligned DEF Holds
<1>2. \A i, j \in 0..Len(c) : i < j => ContentEnd(c, i) + OBJECT_HEADER <= ContentEnd(c, j)
  BY ContentEndGrows
<1>3. \A i, j \in 0..Len(c) : ContentEnd(c, i) = ContentEnd(c, j) => i = j
  <2> SUFFICES ASSUME NEW i \in 0..Len(c), NEW j \in 0..Len(c), ContentEnd(c, i) = ContentEnd(c, j),
                      i # j
               PROVE  FALSE
    OBVIOUS
  <2>1. i < j \/ j < i
    BY <1>1
  <2> QED
    BY <1>1, <1>2, <2>1, HeaderAssumption
<1>4. CASE n < Len(c)
  <2> DEFINE k == CHOOSE k \in 1..Len(c) : ContentEnd(c, k - 1) = ContentEnd(c, n)
  <2>1. n + 1 \in 1..Len(c) /\ (n + 1) - 1 = n
    BY <1>1, <1>4
  <2>2. \E i \in 1..Len(c) : ContentEnd(c, i - 1) = ContentEnd(c, n)
    BY <2>1
  <2>3. k \in 1..Len(c) /\ ContentEnd(c, k - 1) = ContentEnd(c, n)
    BY <2>2
  <2>4. HeaderAt(c, ContentEnd(c, n)) = [index |-> k, length |-> objects[c[k]]]
    BY <2>2 DEF HeaderAt
  <2> HIDE DEF k
  <2>5. k - 1 \in 0..Len(c)
    BY <1>1, <2>3
  <2>6. k - 1 = n
    BY <1>3, <2>3, <2>5
  <2>7. k = n + 1
    BY <2>3, <2>6
  <2>8. ContentEnd(c, n) + OBJECT_HEADER <= ContentEnd(c, Len(c))
    BY <1>1, <1>2, <1>4
  <2>9. SizeOf(c) \in Nat /\ SizeOf(c) >= ContentEnd(c, Len(c))
    <3>1. Len(c) \in 0..Len(c)
      BY <1>1
    <3>2. ContentEnd(c, Len(c)) \in Nat
      BY <1>1, <3>1
    <3> QED
      BY <3>2, CollectionSizeHolds DEF SizeOf
  <2>10. ContentEnd(c, n) + OBJECT_HEADER <= SizeOf(c)
    <3>1. ContentEnd(c, n) \in Nat /\ ContentEnd(c, Len(c)) \in Nat
      BY <1>1
    <3> QED
      BY <2>8, <2>9, <3>1, HeaderAssumption
  <2> QED
    BY <1>4, <2>4, <2>7, <2>10
<1>5. CASE n = Len(c)
  <2>1. ~\E i \in 1..Len(c) : ContentEnd(c, i - 1) = ContentEnd(c, n)
    <3> SUFFICES ASSUME NEW i \in 1..Len(c), ContentEnd(c, i - 1) = ContentEnd(c, n)
                 PROVE  FALSE
      OBVIOUS
    <3>1. i - 1 \in 0..Len(c) /\ i - 1 # n
      BY <1>1, <1>5
    <3> QED
      BY <1>3, <3>1
  <2>2. ContentEnd(c, n) >= ContentEnd(c, Len(c))
    BY <1>1, <1>5
  <2>3. HeaderAt(c, ContentEnd(c, n)) = [index |-> 0, length |-> 0]
    BY <2>1, <2>2 DEF HeaderAt
  <2> QED
    BY <1>5, <2>3
<1> QED
  BY <1>4, <1>5

\* The collection being read is one of those packed, at an address that is a number.
LEMMA CollectionIsPacked ==
    ASSUME IInv, phase = "built", current = <<>>, Len(locations) = Len(objects), start \in Start,
           NEW o \in 1..Len(objects)
    PROVE  /\ locations[o].collection + 1 \in 1..Len(collections)
           /\ locations[o].collection \in 0..Len(collections)
           /\ Holds(collections[locations[o].collection + 1])
           /\ AddrOf(locations[o].collection) \in Nat
           /\ locations[o].index \in 1..Len(collections[locations[o].collection + 1])
           /\ collections[locations[o].collection + 1][locations[o].index] = o
<1>1. AllCollections = collections
  BY DEF AllCollections
<1>2. /\ locations[o].collection + 1 \in 1..Len(collections)
      /\ locations[o].index \in 1..Len(collections[locations[o].collection + 1])
      /\ collections[locations[o].collection + 1][locations[o].index] = o
  BY <1>1 DEF IInv, LocationsExact
<1>3. PackingTypeOK
  BY DEF IInv
<1>4. locations[o].collection \in Nat /\ Len(collections) \in Nat
  <2> DEFINE T == [collection: Nat, index: Nat]
  <2>1. locations \in Seq(T) /\ collections \in Seq(Seq(1..Len(objects))) /\ o \in 1..Len(locations)
    BY <1>3 DEF PackingTypeOK
  <2>2. locations[o] \in T /\ Len(collections) \in Nat
    <3> HIDE DEF T
    <3> QED
      BY <2>1
  <2> QED
    BY <2>2
<1>5. locations[o].collection \in 0..Len(collections)
  BY <1>2, <1>4
<1>6. Holds(collections[locations[o].collection + 1])
  BY <1>2, <1>3 DEF Holds, PackingTypeOK
<1>7. start \in Nat
  BY StartAssumption
<1> QED
  BY <1>2, <1>3, <1>5, <1>6, <1>7, AddrOfIsNatural

\* What every step of a reader leaves alone.
LEMMA ReaderKeepsPacked ==
    ASSUME HeapInv, UNCHANGED <<start, objects, phase, packing>>
    PROVE  IInv' /\ ContentCounted' /\ start' \in Start
<1> USE DEF packing
<1>1. IInv'
  BY PackingUnchanged DEF HeapInv, IInv, PackingTypeOK
<1>2. ClosedCounted'
  BY ClosedCountedNext DEF HeapInv, ContentCounted, ClosedCounted
<1>3. (ContentEnd(current, Len(current)))' = ContentEnd(current, Len(current))
  BY DEF ContentEnd, Need
<1>4. ContentCounted'
  BY <1>2, <1>3 DEF HeapInv, ContentCounted
<1> QED
  BY <1>1, <1>4 DEF HeapInv, ReaderWalks

\* A reader sets out at the first object.
LEMMA StartReadWalks ==
    ASSUME HeapInv, NEW ordinal \in 1..Len(objects), StartRead(ordinal)
    PROVE  HeapInv'
<1> USE DEF StartRead, packing
<1>1. IInv' /\ ContentCounted' /\ start' \in Start
  BY ReaderKeepsPacked
<1> DEFINE c == collections[locations[ordinal].collection + 1]
<1>2. /\ IInv /\ phase = "built" /\ current = <<>> /\ Len(locations) = Len(objects)
      /\ start \in Start /\ PackingTypeOK
  BY DEF HeapInv, IInv, ContentCounted, ReaderWalks
<1>3. Holds(c)
  BY <1>2, CollectionIsPacked
<1>4. Collection' = c /\ Len(c) \in Nat
  BY <1>3 DEF Collection, Holds
<1>5. Base' = AddrOf(locations[ordinal].collection)
  BY DEF Base, AddrOf, SizeOf, ContentEnd, Need
<1>6. ContentEnd(c, 0) = COLLECTION_HEADER
  BY ContentEndUnfolds
<1>7. (ContentEnd(Collection, Len(parsed)))' = ContentEnd(c, 0)
  <2>1. Len(parsed') = 0
    OBVIOUS
  <2> HIDE DEF c
  <2>2. (ContentEnd(Collection, Len(parsed)))' = ContentEnd(Collection', Len(parsed'))
    BY DEF ContentEnd, Need
  <2> QED
    BY <1>4, <2>1, <2>2
<1> HIDE DEF c
<1>8. ReaderWalks'
  <2>1. parsed' = <<>> /\ Len(parsed') = 0 /\ asked' = ordinal /\ parsed' \in Seq(Nat)
    OBVIOUS
  <2>2. pos' = Base' + (ContentEnd(Collection, Len(parsed)))'
    BY <1>5, <1>6, <1>7
  <2>3. Len(parsed') <= Len(Collection')
    BY <1>4, <2>1
  <2>4. asked' \in 0..Len(objects')
    BY <2>1
  <2>5. phase' = "built" /\ \A k \in 1..Len(parsed') : parsed'[k] = k
    BY <2>1
  <2> QED
    BY <1>1, <2>1, <2>2, <2>3, <2>4, <2>5 DEF ReaderWalks
<1>9. ReferencesResolve'
  BY DEF HeapInv, ReferencesResolve
<1> QED
  BY <1>1, <1>8, <1>9 DEF HeapInv

\* Where a reader stands.
LEMMA ReaderStands ==
    ASSUME HeapInv, asked # 0
    PROVE  /\ Holds(Collection) /\ Base \in Nat /\ Len(parsed) \in 0..Len(Collection)
           /\ asked \in 1..Len(objects)
           /\ pos - Base = ContentEnd(Collection, Len(parsed))
           /\ pos = Base + ContentEnd(Collection, Len(parsed))
           /\ ContentEnd(Collection, Len(parsed)) \in Nat
           /\ ContentEnd(Collection, Len(parsed)) % ALIGN = 0
<1>1. /\ IInv /\ phase = "built" /\ current = <<>> /\ Len(locations) = Len(objects)
      /\ start \in Start /\ PackingTypeOK
      /\ parsed \in Seq(Nat) /\ Len(parsed) <= Len(Collection)
      /\ pos = Base + ContentEnd(Collection, Len(parsed))
      /\ asked \in 0..Len(objects)
  BY DEF HeapInv, IInv, ContentCounted, ReaderWalks
<1>2. asked \in 1..Len(objects)
  <2>1. Len(objects) \in Nat
    BY <1>1 DEF PackingTypeOK
  <2> QED
    BY <1>1, <2>1
<1>3. Holds(Collection) /\ Base \in Nat
  BY <1>1, <1>2, CollectionIsPacked DEF Collection, Base
<1>4. Len(parsed) \in 0..Len(Collection)
  BY <1>1, <1>3 DEF Holds
<1>5. ContentEnd(Collection, Len(parsed)) \in Nat /\ ContentEnd(Collection, Len(parsed)) % ALIGN = 0
  BY <1>1, <1>3, <1>4, ContentEndIsAligned
<1> DEFINE e == ContentEnd(Collection, Len(parsed))
<1>6. e \in Nat /\ pos = Base + e /\ Base \in Nat
  BY <1>1, <1>3, <1>5
<1> HIDE DEF e
<1>7. pos - Base = e
  BY <1>6
<1> QED
  BY <1>1, <1>2, <1>3, <1>4, <1>5, <1>7 DEF e

\* Reading an object ends where the next one begins.
LEMMA ParseObjectWalks ==
    ASSUME HeapInv, ParseObject
    PROVE  HeapInv'
<1> USE DEF packing
<1>1. IInv' /\ ContentCounted' /\ start' \in Start
  BY ReaderKeepsPacked DEF ParseObject
<1> DEFINE c == Collection
           n == Len(parsed)
<1>2. /\ Holds(c) /\ Base \in Nat /\ n \in 0..Len(c) /\ pos - Base = ContentEnd(c, n)
      /\ pos = Base + ContentEnd(c, n) /\ ContentEnd(c, n) \in Nat /\ ContentEnd(c, n) % ALIGN = 0
      /\ PackingTypeOK
  BY ReaderStands DEF HeapInv, IInv, ParseObject
<1>3. Header = HeaderAt(c, ContentEnd(c, n)) /\ Header.index # 0
  BY <1>2 DEF Header, ParseObject
<1>4. Len(c) \in Nat
  BY <1>2 DEF Holds
<1> HIDE DEF c, n
<1>5. n < Len(c)
  <2>1. n \in 0..Len(c) /\ (n = Len(c) => HeaderAt(c, ContentEnd(c, n)).index = 0)
    BY <1>2, HeaderIsThere
  <2> QED
    BY <1>3, <1>4, <2>1
<1>6. Header = [index |-> n + 1, length |-> objects[c[n + 1]]]
  BY <1>2, <1>3, <1>5, HeaderIsThere
<1>7. c[n + 1] \in 1..Len(objects) /\ n \in Nat /\ n + 1 \in 0..Len(c)
  BY <1>2, <1>4, <1>5 DEF Holds
<1>8. pos' = Base + ContentEnd(c, n + 1)
  <2> DEFINE end == ContentEnd(c, n)
             length == objects[c[n + 1]]
             data_end == pos + OBJECT_HEADER + Header.length
  <2>1. length \in Nat /\ Align(end + OBJECT_HEADER + length) = end + Need(c[n + 1])
    BY <1>2, <1>7, NeedIsAligned
  <2>2. ContentEnd(c, n + 1) = end + Need(c[n + 1])
    BY <1>7, ContentEndUnfolds
  <2>3. pos' = NextPos(data_end)
    BY DEF ParseObject
  <2>4. data_end = Base + end + OBJECT_HEADER + length
    BY <1>2, <1>6
  <2>5. Base \in Nat /\ end \in Nat
    BY <1>2
  <2> HIDE DEF end, length, data_end
  <2>6. data_end - Base = end + OBJECT_HEADER + length
    BY <2>1, <2>4, <2>5, HeaderAssumption
  <2> QED
    BY <2>1, <2>2, <2>3, <2>6 DEF NextPos
<1>9. Collection' = c /\ asked' # 0 /\ phase' = "built" /\ asked' \in 0..Len(objects')
  BY DEF ParseObject, Collection, c, HeapInv, ReaderWalks
<1>10. Base' = Base
  BY DEF ParseObject, Base, AddrOf, SizeOf, ContentEnd, Need
<1>11. /\ parsed' \in Seq(Nat) /\ Len(parsed') = n + 1
       /\ \A k \in 1..Len(parsed') : parsed'[k] = k
  <2>1. parsed' = Append(parsed, n + 1)
    BY <1>6 DEF ParseObject
  <2>2. parsed \in Seq(Nat) /\ \A k \in 1..Len(parsed) : parsed[k] = k
    BY DEF ParseObject, HeapInv, ReaderWalks
  <2>3. n = Len(parsed)
    BY DEF n
  <2> QED
    BY <1>7, <2>1, <2>2, <2>3
<1>12. (ContentEnd(Collection, Len(parsed)))' = ContentEnd(c, n + 1)
  <2>1. (ContentEnd(Collection, Len(parsed)))' = ContentEnd(Collection', Len(parsed'))
    BY DEF ParseObject, ContentEnd, Need
  <2> QED
    BY <1>9, <1>11, <2>1
<1>13. Len(parsed') <= Len(Collection')
  BY <1>4, <1>5, <1>7, <1>9, <1>11
<1>14. ReaderWalks'
  BY <1>1, <1>8, <1>9, <1>10, <1>11, <1>12, <1>13 DEF ReaderWalks
<1>15. ReferencesResolve'
  BY DEF HeapInv, ReferencesResolve, ParseObject
<1> QED
  BY <1>1, <1>14, <1>15 DEF HeapInv

\* A reader that stops has read every object, the one it was sent for with them.
LEMMA FinishReadResolves ==
    ASSUME HeapInv, FinishRead
    PROVE  HeapInv'
<1> USE DEF packing
<1>1. IInv' /\ ContentCounted' /\ start' \in Start
  BY ReaderKeepsPacked DEF FinishRead
<1> DEFINE c == Collection
           n == Len(parsed)
           index == locations[asked].index
<1>2. /\ Holds(c) /\ Base \in Nat /\ n \in 0..Len(c) /\ pos - Base = ContentEnd(c, n)
      /\ pos = Base + ContentEnd(c, n) /\ ContentEnd(c, n) \in Nat /\ PackingTypeOK
      /\ asked \in 1..Len(objects)
  BY ReaderStands DEF HeapInv, IInv, FinishRead
<1>3. Len(c) \in Nat
  BY <1>2 DEF Holds
<1>4. index \in 1..Len(c) /\ c[index] = asked
  <2>1. /\ IInv /\ phase = "built" /\ current = <<>> /\ Len(locations) = Len(objects)
        /\ start \in Start
    BY DEF HeapInv, ContentCounted, ReaderWalks, FinishRead
  <2> QED
    BY <1>2, <2>1, CollectionIsPacked DEF Collection
<1>5. n = Len(c)
  <2> SUFFICES ASSUME n < Len(c) PROVE FALSE
    <3> HIDE DEF c, n
    <3> QED
      BY <1>2, <1>3
  <2>1. /\ HeaderAt(c, ContentEnd(c, n)) = [index |-> n + 1, length |-> objects[c[n + 1]]]
        /\ ContentEnd(c, n) + OBJECT_HEADER <= SizeOf(c)
    <3> HIDE DEF c, n
    <3> QED
      BY <1>2, HeaderIsThere
  <2>2. Header.index = n + 1 /\ n + 1 # 0
    <3>1. Header = HeaderAt(c, ContentEnd(c, n))
      BY <1>2 DEF Header
    <3>2. n \in Nat
      BY <1>2
    <3> QED
      BY <2>1, <3>1, <3>2
  <2>3. pos + OBJECT_HEADER > HeapEnd
    BY <2>2 DEF FinishRead
  <2>4. HeapEnd = Base + SizeOf(c)
    BY DEF HeapEnd
  <2>5. SizeOf(c) \in Nat
    <3>1. Len(c) \in 0..Len(c)
      BY <1>3
    <3>2. ContentEnd(c, Len(c)) \in Nat
      <4> HIDE DEF c
      <4> QED
        BY <1>2, <3>1, ContentEndIsAligned
    <3> QED
      BY <3>2, CollectionSizeHolds DEF SizeOf
  <2> DEFINE end == ContentEnd(c, n)
             size == SizeOf(c)
  <2>6. /\ pos = Base + end /\ end \in Nat /\ size \in Nat /\ Base \in Nat
        /\ end + OBJECT_HEADER <= size /\ pos + OBJECT_HEADER > Base + size
    BY <1>2, <2>1, <2>3, <2>4, <2>5
  <2> HIDE DEF end, size
  <2> QED
    BY <2>6, HeaderAssumption
<1>6. \E k \in 1..Len(parsed) : parsed[k] = index
  <2>1. \A k \in 1..Len(parsed) : parsed[k] = k
    BY DEF HeapInv, ReaderWalks, FinishRead
  <2>2. index \in 1..Len(parsed)
    BY <1>4, <1>5
  <2> QED
    BY <2>1, <2>2
<1>7. answer' = [ordinal |-> asked, value |-> c[index]]
  BY <1>6 DEF FinishRead
<1>8. ReferencesResolve'
  BY <1>4, <1>7 DEF ReferencesResolve
<1>9. ReaderWalks'
  <2>1. asked' = 0 /\ asked' \in 0..Len(objects')
    BY <1>2 DEF FinishRead, PackingTypeOK
  <2> QED
    BY <1>1, <2>1 DEF ReaderWalks
<1> QED
  BY <1>1, <1>8, <1>9 DEF HeapInv

\* Registering a value, and the start of packing, find nothing packed.
LEMMA RegisteringCounts ==
    ASSUME HeapInv, phase = "register", UNCHANGED <<start, packing, reading>>, IInv',
           phase' \in {"register", "pack"}, Len(objects') >= Len(objects), objects' \in Seq(Length),
           phase' = "pack" => UNCHANGED objects
    PROVE  HeapInv'
<1> USE DEF packing, reading
<1>1. collections = <<>> /\ current = <<>> /\ content_used = COLLECTION_HEADER /\ asked = 0
  BY DEF HeapInv, ContentCounted, ReaderWalks
<1>2. ClosedCounted'
  BY <1>1 DEF ClosedCounted
<1>3. phase' = "pack" => content_used' = (ContentEnd(current, Len(current)))'
  <2> SUFFICES ASSUME phase' = "pack" PROVE content_used' = (ContentEnd(current, Len(current)))'
    OBVIOUS
  <2>1. (ContentEnd(current, Len(current)))' = ContentEnd(current, Len(current))
    BY DEF ContentEnd, Need
  <2>2. ContentEnd(<<>>, 0) = COLLECTION_HEADER
    BY ContentEndUnfolds
  <2>3. Len(<<>>) = 0
    OBVIOUS
  <2> QED
    BY <1>1, <2>1, <2>2, <2>3
<1>4. ContentCounted'
  BY <1>1, <1>2, <1>3 DEF ContentCounted
<1>5. 0 \in 0..Len(objects')
  OBVIOUS
<1>6. ReaderWalks' /\ ReferencesResolve'
  BY <1>1, <1>5 DEF HeapInv, ReaderWalks, ReferencesResolve
<1> QED
  BY <1>4, <1>6 DEF HeapInv

LEMMA NextWalks == HeapInv /\ [Next]_vars => HeapInv'
<1> SUFFICES ASSUME HeapInv, [Next]_vars PROVE HeapInv'
  OBVIOUS
<1>0. IInv'
  BY NextKeeps DEF HeapInv
<1>1. ASSUME NEW length \in Length, WriteBytes(length) PROVE HeapInv'
  <2>1. Len(objects') >= Len(objects) /\ objects' \in Seq(Length)
    BY <1>1 DEF WriteBytes, HeapInv, IInv, PackingTypeOK
  <2> QED
    BY <1>0, <1>1, <2>1, RegisteringCounts DEF WriteBytes
<1>2. CASE StartBuild
  <2>1. Len(objects') >= Len(objects) /\ objects' \in Seq(Length)
    BY <1>2 DEF StartBuild, HeapInv, IInv, PackingTypeOK
  <2> QED
    BY <1>0, <1>2, <2>1, RegisteringCounts DEF StartBuild
<1>3. CASE Place
  BY <1>3, PlaceCounts
<1>4. CASE FinishBuild
  BY <1>4, FinishBuildCounts
<1>5. ASSUME NEW ordinal \in 1..Len(objects), StartRead(ordinal) PROVE HeapInv'
  BY <1>5, StartReadWalks
<1>6. CASE ParseObject
  BY <1>6, ParseObjectWalks
<1>7. CASE FinishRead
  BY <1>7, FinishReadResolves
<1>8. CASE UNCHANGED vars
  <2>1. IInv' /\ ContentCounted' /\ start' \in Start
    BY <1>8, ReaderKeepsPacked DEF vars
  <2>2. Base' = Base /\ Collection' = Collection
    BY <1>8 DEF vars, packing, reading, Base, Collection, AddrOf, SizeOf, ContentEnd, Need
  <2>3. (ContentEnd(Collection, Len(parsed)))' = ContentEnd(Collection, Len(parsed))
    BY <1>8, <2>2 DEF vars, packing, reading, ContentEnd, Need
  <2>4. ReaderWalks'
    BY <1>8, <2>2, <2>3 DEF vars, reading, HeapInv, ReaderWalks
  <2>5. ReferencesResolve'
    BY <1>8 DEF vars, reading, HeapInv, ReferencesResolve
  <2> QED
    BY <2>1, <2>4, <2>5 DEF HeapInv
<1> QED
  BY <1>1, <1>2, <1>3, <1>4, <1>5, <1>6, <1>7, <1>8 DEF Next

\* The inductive invariant of packing and reading.
THEOREM HeapInvariant == Spec => []HeapInv
<1>1. Init => HeapInv
  BY InitCounts
<1>2. HeapInv /\ [Next]_vars => HeapInv'
  BY NextWalks
<1> QED
  BY <1>1, <1>2, PTL DEF Spec

\* serialize_collection writes within the size it declares.
THEOREM CollectionsAreWhole == Spec => []CollectionsHoldTheirObjects
<1>1. HeapInv => CollectionsHoldTheirObjects
  <2> SUFFICES ASSUME HeapInv, NEW c \in 1..Len(collections)
               PROVE  /\ filled[c] = ContentEnd(collections[c], Len(collections[c]))
                      /\ SizeOf(collections[c]) >= filled[c]
                      /\ SizeOf(collections[c]) >= H5HG_MINSIZE
    BY DEF CollectionsHoldTheirObjects
  <2>1. PackingTypeOK /\ filled[c] = ContentEnd(collections[c], Len(collections[c]))
    BY DEF HeapInv, IInv, ContentCounted, ClosedCounted
  <2>2. Holds(collections[c]) /\ Len(collections[c]) \in 0..Len(collections[c])
    BY <2>1 DEF Holds, PackingTypeOK
  <2>3. ContentEnd(collections[c], Len(collections[c])) \in Nat
    BY <2>1, <2>2, ContentEndIsAligned
  <2> QED
    BY <2>1, <2>3, CollectionSizeHolds DEF SizeOf
<1> QED
  BY <1>1, HeapInvariant, PTL

\* GlobalHeap::parse, from any address, finds for every reference the value it was made for.
THEOREM EveryReferenceResolves == Spec => []ReferencesResolve
<1>1. HeapInv => ReferencesResolve
  BY DEF HeapInv
<1> QED
  BY <1>1, HeapInvariant, PTL
=============================================================================
