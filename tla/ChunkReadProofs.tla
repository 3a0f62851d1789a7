---------------------------- MODULE ChunkReadProofs ----------------------------
(***************************************************************************)
(* Proofs about ChunkRead: whatever chunks a dataset has, in whatever order *)
(* they are decoded and however the selection straddles them, a read of it  *)
(* that succeeds returns exactly the elements it selects, and it fails      *)
(* exactly if a chunk under them is damaged.                                *)
(*                                                                         *)
(* The argument follows one place of the output.  It stands for one element *)
(* of the dataset; of the chunks that are scattered only the one whose cell *)
(* that element lies in touches the place, and it writes the element's      *)
(* value there.  So after some chunks the place holds the element's value   *)
(* if one of them was that chunk, and what the buffer was made of if not,   *)
(* and in the end it holds the value.                                       *)
(***************************************************************************)
EXTENDS ChunkRead, GeometryProofs

-----------------------------------------------------------------------------
(* Arithmetic of one dimension *)

\* The index of the first element of a cell is the index of the cell times its size.
LEMMA CellStart ==
    ASSUME NEW x \in Nat, NEW a \in Nat \ {0}
    PROVE  /\ (x \div a) * a \in Nat
           /\ (x \div a) * a <= x /\ x < (x \div a) * a + a
<1>1. x \div a \in Nat /\ x % a \in Nat /\ x % a < a /\ x = a * (x \div a) + (x % a)
  BY Dividing
<1> DEFINE q == x \div a
<1> HIDE DEF q
<1>2. q * a = a * q /\ a * q \in Nat
  BY <1>1 DEF q
<1> QED
  BY <1>1, <1>2 DEF q

\* An index lies in a cell exactly if the cell is its cell.
LEMMA CellHolds ==
    ASSUME NEW x \in Nat, NEW a \in Nat \ {0}, NEW o \in Nat, o % a = 0
    PROVE  ((x \div a) * a = o) <=> (o <= x /\ x < o + a)
<1>1. o \div a \in Nat /\ o = a * (o \div a) + 0
  BY Dividing
<1> DEFINE m == o \div a
<1>2. m \in Nat /\ o = a * m
  BY <1>1
<1> HIDE DEF m
<1>3. ASSUME (x \div a) * a = o PROVE o <= x /\ x < o + a
  BY <1>3, CellStart
<1>4. ASSUME o <= x, x < o + a PROVE (x \div a) * a = o
  <2>1. x - o \in Nat /\ x - o < a /\ x = a * m + (x - o)
    BY <1>2, <1>4
  <2>2. x \div a = m
    BY <1>2, <2>1, DivisionIs
  <2>3. m * a = a * m
    BY <1>2
  <2> QED
    BY <1>2, <2>2, <2>3
<1> QED
  BY <1>3, <1>4

\* Indices are in the order of their cells.
LEMMA CellsOrdered ==
    ASSUME NEW a \in Nat \ {0}, NEW m \in Nat, NEW x \in Nat
    PROVE  /\ m <= x \div a <=> m * a <= x
           /\ x \div a <= m <=> x < m * a + a
<1> DEFINE q == x \div a
<1>1. q \in Nat /\ q * a <= x /\ x < q * a + a
  BY Dividing, CellStart
<1> HIDE DEF q
<1>2. m * a \in Nat /\ q * a \in Nat
  BY <1>1
<1>3. ASSUME m <= q PROVE m * a <= x
  <2>1. m * a <= q * a
    BY <1>1, <1>3, ProductsGrow
  <2> QED
    BY <1>1, <1>2, <2>1
<1>4. ASSUME q + 1 <= m PROVE x < m * a
  <2>1. (q + 1) * a <= m * a
    BY <1>1, <1>4, ProductsGrow
  <2>2. (q + 1) * a = q * a + a
    BY <1>1
  <2> QED
    BY <1>1, <1>2, <2>1, <2>2
<1>5. ASSUME q <= m PROVE x < m * a + a
  <2>1. q * a <= m * a
    BY <1>1, <1>5, ProductsGrow
  <2> QED
    BY <1>1, <1>2, <2>1
<1>6. ASSUME m + 1 <= q PROVE m * a + a <= x
  <2>1. (m + 1) * a <= q * a
    BY <1>1, <1>6, ProductsGrow
  <2>2. (m + 1) * a = m * a + a
    BY <1>1
  <2> QED
    BY <1>1, <1>2, <2>1, <2>2
<1>7. m <= q <=> m * a <= x
  BY <1>1, <1>2, <1>3, <1>4
<1>8. q <= m <=> x < m * a + a
  BY <1>1, <1>2, <1>5, <1>6
<1> QED
  BY <1>7, <1>8 DEF q

\* The cells from the one of `lo` to the one of the index before `hi`, counted.
CellCount(lo, hi, a) == (((hi - 1) \div a) * a - (lo \div a) * a) \div a + 1

LEMMA CellCountIs ==
    ASSUME NEW a \in Nat \ {0}, NEW lo \in Nat, NEW hi \in Nat, lo < hi
    PROVE  /\ CellCount(lo, hi, a) \in Nat \ {0}
           /\ CellCount(lo, hi, a) = (hi - 1) \div a - lo \div a + 1
           /\ lo \div a <= (hi - 1) \div a
<1> DEFINE p == lo \div a
           q == (hi - 1) \div a
<1>1. hi - 1 \in Nat /\ lo <= hi - 1
  OBVIOUS
<1>2. p \in Nat /\ q \in Nat /\ p <= q
  BY <1>1, Dividing, DivisionGrows
<1> HIDE DEF p, q
<1>3. q * a - p * a = a * (q - p) + 0 /\ q - p \in Nat /\ 0 < a
  BY <1>2
<1> DEFINE k == q - p
           n == q * a - p * a
<1>4. k \in Nat /\ n = a * k + 0
  BY <1>3
<1> HIDE DEF k, n
<1>5. n \in Nat
  BY <1>4
<1>6. n \div a = k
  BY <1>3, <1>4, <1>5, DivisionIs
<1>7. CellCount(lo, hi, a) = k + 1
  BY <1>6 DEF CellCount, n, p, q
<1> QED
  BY <1>2, <1>4, <1>7 DEF k, p, q

\* A chunk's cell is among them exactly if the chunk has some of the indices.
LEMMA CellUnder ==
    ASSUME NEW a \in Nat \ {0}, NEW lo \in Nat, NEW hi \in Nat, lo < hi,
           NEW o \in Nat, o % a = 0
    PROVE  (\E u \in Nat : u < CellCount(lo, hi, a) /\ o = (lo \div a) * a + u * a)
               <=> Larger(lo, o) < Smaller(hi, o + a)
<1>1. o \div a \in Nat /\ o = a * (o \div a) + 0
  BY Dividing
<1> DEFINE m == o \div a
           p == lo \div a
           q == (hi - 1) \div a
<1>2. m \in Nat /\ o = m * a
  BY <1>1
<1>3. hi - 1 \in Nat /\ p \in Nat /\ q \in Nat
  BY Dividing
<1>4. CellCount(lo, hi, a) = q - p + 1
  BY CellCountIs
<1>5. (p <= m <=> lo < m * a + a) /\ (m <= q <=> m * a <= hi - 1)
  BY <1>2, <1>3, CellsOrdered
<1> HIDE DEF m, p, q
<1>6. Larger(lo, o) < Smaller(hi, o + a) <=> p <= m /\ m <= q
  BY <1>2, <1>5 DEF Larger, Smaller
<1>7. ASSUME NEW u \in Nat, u < q - p + 1, o = p * a + u * a
      PROVE  p <= m /\ m <= q
  <2>1. m * a = (p + u) * a
    BY <1>2, <1>3, <1>7
  <2>2. a * m = a * (p + u) /\ 0 < a
    BY <1>2, <1>3, <2>1
  <2> DEFINE v == p + u
  <2>3. v \in Nat
    BY <1>3
  <2> HIDE DEF v
  <2>4. a * m + 0 = a * v + 0
    BY <2>2 DEF v
  <2>5. m = v
    BY <1>2, <2>2, <2>3, <2>4, DivisionIsUnique
  <2> QED
    BY <1>3, <1>7, <2>5 DEF v
<1>8. ASSUME p <= m, m <= q
      PROVE  \E u \in Nat : u < q - p + 1 /\ o = p * a + u * a
  <2>1. m - p \in Nat /\ m - p < q - p + 1
    BY <1>2, <1>3, <1>8
  <2>2. m * a = p * a + (m - p) * a
    BY <1>2, <1>3
  <2> QED
    BY <1>2, <2>1, <2>2
<1> QED
  BY <1>4, <1>6, <1>7, <1>8 DEF p

-----------------------------------------------------------------------------
(* What a dimension's selection takes *)

\* The index at place p of the output.
Taken(op, s, p) == IF op = "slice" THEN s.start + p ELSE Gathered(s, p)

IsRequest(op, s) ==
    \/ op = "slice" /\ s \in [start : Nat, end : Nat]
    \/ op = "hyperslab" /\ s \in [start : Nat, stride : Nat, count : Nat, block : Nat]

\* It selects something, and no block reaches into the next.
IsPlain(op, s) ==
    IF op = "slice" THEN s.start < s.end
    ELSE s.count > 0 /\ s.block > 0 /\ s.block <= s.stride

\* Places and indices of a hyperslab.
LEMMA GatheredIs ==
    ASSUME NEW s, IsRequest("hyperslab", s), IsPlain("hyperslab", s),
           NEW q \in Nat, NEW r \in Nat, r < s.block
    PROVE  /\ q * s.block + r \in Nat
           /\ Gathered(s, q * s.block + r) = s.start + q * s.stride + r
           /\ Gathered(s, q * s.block + r) \in Nat
           /\ (Gathered(s, q * s.block + r) - s.start) \div s.stride = q
           /\ (Gathered(s, q * s.block + r) - s.start) % s.stride = r
           /\ q * s.block + r < s.count * s.block <=> q < s.count
<1> DEFINE st == s.stride
           b == s.block
           c == s.count
           f == s.start
           p == q * b + r
           x == f + q * st + r
<1>1. st \in Nat \ {0} /\ b \in Nat \ {0} /\ c \in Nat /\ f \in Nat /\ r < b /\ r < st
  BY DEF IsRequest, IsPlain
<1>2. Gathered(s, p) = f + (p \div b) * st + (p % b)
  BY DEF Gathered
<1> HIDE DEF st, b, c, f
<1>3. p \in Nat /\ p = b * q + r
  BY <1>1
<1> HIDE DEF p
<1>4. p \div b = q /\ p % b = r
  BY <1>1, <1>3, DivisionIs
<1>5. Gathered(s, p) = x
  BY <1>2, <1>4
<1>6. x - f \in Nat /\ x - f = st * q + r /\ x \in Nat
  <2>1. q * st = st * q /\ st * q \in Nat
    BY <1>1
  <2> QED
    BY <1>1, <2>1
<1> HIDE DEF x
<1>7. (x - f) \div st = q /\ (x - f) % st = r
  <2> DEFINE y == x - f
  <2>1. y \in Nat /\ y = st * q + r
    BY <1>6
  <2> HIDE DEF y
  <2>2. y \div st = q /\ y % st = r
    BY <1>1, <2>1, DivisionIs
  <2> QED
    BY <2>2 DEF y
<1>8. p < c * b <=> q < c
  <2>1. c * b \in Nat /\ b * q \in Nat /\ c * b = b * c
    BY <1>1
  <2>2. ASSUME q < c PROVE p < c * b
    <3>1. b * (q + 1) <= b * c
      BY <1>1, <2>2, ProductsGrow
    <3>2. b * (q + 1) = b * q + b
      BY <1>1
    <3> QED
      BY <1>1, <1>3, <2>1, <3>1, <3>2
  <2>3. ASSUME c <= q PROVE c * b <= p
    <3>1. b * c <= b * q
      BY <1>1, <2>3, ProductsGrow
    <3> QED
      BY <1>1, <1>3, <2>1, <3>1
  <2> QED
    BY <1>1, <1>3, <2>1, <2>2, <2>3
<1> QED
  BY <1>3, <1>5, <1>6, <1>7, <1>8 DEF st, b, c, f, p, x

\* A place's index lies within the bounds, is selected, and has that place.
LEMMA TakenIsSelected ==
    ASSUME NEW op, NEW s, IsRequest(op, s), IsPlain(op, s), NEW p \in Nat, p < Extent(op, s)
    PROVE  /\ Taken(op, s, p) \in Nat
           /\ Bound(op, s).start <= Taken(op, s, p) /\ Taken(op, s, p) < Bound(op, s).end
           /\ IsSelected(op, s, Taken(op, s, p))
           /\ PlaceOf(op, s, Taken(op, s, p)) = p
<1>1. CASE op = "slice"
  BY <1>1 DEF IsRequest, IsPlain, Taken, Bound, IsSelected, PlaceOf, Extent
<1>2. CASE op = "hyperslab"
  <2> DEFINE q == p \div s.block
             r == p % s.block
             x == Gathered(s, p)
  <2>1. s.block \in Nat \ {0} /\ s.count \in Nat \ {0} /\ s.start \in Nat /\ s.stride \in Nat \ {0}
    BY <1>2 DEF IsRequest, IsPlain
  <2>2. q \in Nat /\ r \in Nat /\ r < s.block /\ p = q * s.block + r
    <3>1. q \in Nat /\ r \in Nat /\ r < s.block /\ p = s.block * q + r
      BY <2>1, Dividing
    <3>2. s.block * q = q * s.block
      <4> HIDE DEF q
      <4> QED
        BY <2>1, <3>1
    <3> QED
      BY <3>1, <3>2
  <2> HIDE DEF q, r
  <2>3. /\ x = s.start + q * s.stride + r /\ x \in Nat
        /\ (x - s.start) \div s.stride = q /\ (x - s.start) % s.stride = r
        /\ q < s.count
    BY <1>2, <2>2, GatheredIs DEF Extent
  <2>4. Taken(op, s, p) = x
    BY <1>2 DEF Taken
  <2> HIDE DEF x
  <2>5. q * s.stride <= (s.count - 1) * s.stride /\ q * s.stride \in Nat
    <3>1. s.count - 1 \in Nat /\ q <= s.count - 1 /\ s.stride \in Nat
      BY <2>1, <2>2, <2>3
    <3> DEFINE v == s.count - 1
               w == s.stride
    <3>2. v \in Nat /\ w \in Nat /\ q <= v
      BY <3>1
    <3> HIDE DEF v, w
    <3>3. q * w <= v * w /\ q * w \in Nat
      BY <2>2, <3>2, ProductsGrow, ProductsAreNatural
    <3> QED
      BY <3>3 DEF v, w
  <2>6. Bound(op, s) = [start |-> s.start,
                        end |-> s.start + (s.count - 1) * s.stride + s.block]
    BY <1>2, <2>1 DEF Bound, IsEmpty
  <2>7. s.start <= x /\ x < s.start + (s.count - 1) * s.stride + s.block
    <3>1. (s.count - 1) * s.stride \in Nat
      <4>1. s.count - 1 \in Nat
        BY <2>1
      <4> QED
        BY <2>1, <4>1, ProductsAreNatural
    <3> DEFINE v == (s.count - 1) * s.stride
               w == q * s.stride
    <3>2. v \in Nat /\ w \in Nat /\ w <= v /\ x = s.start + w + r
      BY <2>3, <2>5, <3>1
    <3> HIDE DEF v, w
    <3>3. s.start <= x /\ x < s.start + v + s.block
      BY <2>1, <2>2, <3>2
    <3> QED
      BY <3>3 DEF v
  <2>8. IsSelected(op, s, x)
    BY <2>2, <2>3, <2>7 DEF IsSelected
  <2>9. PlaceOf(op, s, x) = p
    BY <1>2, <2>2, <2>3 DEF PlaceOf
  <2> QED
    BY <2>3, <2>4, <2>6, <2>7, <2>8, <2>9
<1> QED
  BY <1>1, <1>2 DEF IsRequest

\* A selected index within the bounds has a place, and is what is taken for it.
LEMMA SelectedIsTaken ==
    ASSUME NEW op, NEW s, IsRequest(op, s), IsPlain(op, s), NEW x \in Nat,
           Bound(op, s).start <= x, x < Bound(op, s).end, IsSelected(op, s, x)
    PROVE  /\ PlaceOf(op, s, x) \in Nat /\ PlaceOf(op, s, x) < Extent(op, s)
           /\ Taken(op, s, PlaceOf(op, s, x)) = x
<1>1. CASE op = "slice"
  BY <1>1 DEF IsRequest, IsPlain, Taken, Bound, IsSelected, PlaceOf, Extent
<1>2. CASE op = "hyperslab"
  <2> DEFINE q == (x - s.start) \div s.stride
             r == (x - s.start) % s.stride
             p == q * s.block + r
  <2>1. s.block \in Nat \ {0} /\ s.count \in Nat \ {0} /\ s.start \in Nat /\ s.stride \in Nat \ {0}
    BY <1>2 DEF IsRequest, IsPlain
  <2>2. s.start <= x /\ q < s.count /\ r < s.block
    BY <1>2 DEF IsSelected
  <2>3. x - s.start \in Nat
    BY <2>1, <2>2
  <2>4. q \in Nat /\ r \in Nat /\ x - s.start = s.stride * q + r
    BY <2>1, <2>3, Dividing
  <2>5. PlaceOf(op, s, x) = p
    BY <1>2 DEF PlaceOf
  <2> HIDE DEF q, r
  <2>6. p \in Nat /\ p < s.count * s.block /\ Gathered(s, p) = s.start + q * s.stride + r
    BY <1>2, <2>2, <2>4, GatheredIs
  <2> HIDE DEF p
  <2>7. s.start + q * s.stride + r = x
    <3> DEFINE w == q * s.stride
    <3>1. s.stride * q = w /\ w \in Nat
      BY <2>1, <2>4
    <3> HIDE DEF w
    <3>2. s.start + w + r = x
      BY <2>1, <2>4, <3>1
    <3> QED
      BY <3>2 DEF w
  <2> QED
    BY <1>2, <2>5, <2>6, <2>7 DEF Taken, Extent
<1> QED
  BY <1>1, <1>2 DEF IsRequest

\* Later places have higher indices.
LEMMA TakenAscends ==
    ASSUME NEW op, NEW s, IsRequest(op, s), IsPlain(op, s),
           NEW p \in Nat, NEW t \in Nat, p < t
    PROVE  Taken(op, s, p) < Taken(op, s, t)
<1>1. CASE op = "slice"
  BY <1>1 DEF IsRequest, Taken
<1>2. CASE op = "hyperslab"
  <2> DEFINE b == s.block
             st == s.stride
             q == p \div b
             r == p % b
             u == t \div b
             v == t % b
  <2>1. b \in Nat \ {0} /\ s.start \in Nat /\ st \in Nat \ {0} /\ b <= st
    BY <1>2 DEF IsRequest, IsPlain
  <2>2. q \in Nat /\ r \in Nat /\ r < b /\ p = b * q + r
    BY <2>1, Dividing
  <2>3. u \in Nat /\ v \in Nat /\ v < b /\ t = b * u + v
    BY <2>1, Dividing
  <2>4. q <= u
    BY <2>1, DivisionGrows
  <2>5. Taken(op, s, p) = s.start + q * st + r /\ Taken(op, s, t) = s.start + u * st + v
    BY <1>2 DEF Taken, Gathered
  <2> HIDE DEF q, r, u, v, b, st
  <2>6. q * st \in Nat /\ u * st \in Nat
    BY <2>1, <2>2, <2>3
  <2>7. CASE q = u
    <3>1. r < v
      <4>1. b * q \in Nat
        BY <2>1, <2>2
      <4> QED
        BY <2>2, <2>3, <2>7, <4>1
    <3> QED
      BY <2>1, <2>2, <2>3, <2>5, <2>6, <2>7, <3>1
  <2>8. CASE q + 1 <= u
    <3>1. (q + 1) * st <= u * st
      BY <2>1, <2>2, <2>3, <2>8, ProductsGrow
    <3>2. (q + 1) * st = q * st + st
      BY <2>1, <2>2
    <3> QED
      BY <2>1, <2>2, <2>3, <2>5, <2>6, <3>1, <3>2
  <2> QED
    BY <2>2, <2>3, <2>4, <2>7, <2>8
<1> QED
  BY <1>1, <1>2 DEF IsRequest

\* The indices selected are those taken for the places.
LEMMA TakenIsAll ==
    ASSUME NEW op, NEW s, IsRequest(op, s), IsPlain(op, s)
    PROVE  /\ Extent(op, s) \in Nat \ {0}
           /\ Selected(op, s) = {Taken(op, s, p) : p \in 0..(Extent(op, s) - 1)}
<1>1. CASE op = "slice"
  <2>1. s.start \in Nat /\ s.end \in Nat /\ s.start < s.end
    BY <1>1 DEF IsRequest, IsPlain
  <2>2. \A x \in s.start..(s.end - 1) :
            x - s.start \in 0..(s.end - s.start - 1) /\ s.start + (x - s.start) = x
    BY <2>1
  <2>3. \A p \in 0..(s.end - s.start - 1) : s.start + p \in s.start..(s.end - 1)
    BY <2>1
  <2> QED
    BY <1>1, <2>1, <2>2, <2>3 DEF Selected, Taken, Extent
<1>2. CASE op = "hyperslab"
  <2> DEFINE b == s.block
             st == s.stride
             c == s.count
             f == s.start
             Set == {f + k * st + j : k \in 0..(c - 1), j \in 0..(b - 1)}
  <2>1. b \in Nat \ {0} /\ f \in Nat /\ st \in Nat \ {0} /\ c \in Nat \ {0}
    BY <1>2 DEF IsRequest, IsPlain
  <2>2. Extent(op, s) = c * b /\ Selected(op, s) = Set
    BY <1>2 DEF Extent, Selected
  <2>3. c * b \in Nat \ {0}
    <3> HIDE DEF b, c
    <3> QED
      BY <2>1
  <2>4. \A p : Taken(op, s, p) = Gathered(s, p)
    BY <1>2 DEF Taken
  <2>5. ASSUME NEW x \in Set PROVE \E p \in 0..(c * b - 1) : Gathered(s, p) = x
    <3>1. PICK k \in 0..(c - 1) : \E j \in 0..(b - 1) : x = f + k * st + j
      OBVIOUS
    <3>2. PICK j \in 0..(b - 1) : x = f + k * st + j
      BY <3>1
    <3> DEFINE p == k * b + j
    <3>3. k \in Nat /\ j \in Nat /\ j < b /\ k < c
      BY <2>1
    <3>4. p \in Nat /\ p < c * b /\ Gathered(s, p) = f + k * st + j
      BY <1>2, <3>3, GatheredIs
    <3> HIDE DEF p
    <3>5. p \in 0..(c * b - 1)
      <4> DEFINE v == c * b
      <4>1. v \in Nat /\ p < v
        BY <2>3, <3>4
      <4> HIDE DEF v
      <4>2. p \in 0..(v - 1)
        BY <3>4, <4>1
      <4> QED
        BY <4>2 DEF v
    <3> QED
      BY <3>2, <3>4, <3>5
  <2>6. ASSUME NEW p \in 0..(c * b - 1) PROVE Gathered(s, p) \in Set
    <3> DEFINE k == p \div b
               j == p % b
    <3>1. p \in Nat /\ p < c * b
      <4> DEFINE v == c * b
      <4>1. v \in Nat /\ p \in 0..(v - 1)
        BY <2>3
      <4> HIDE DEF v
      <4> QED
        BY <4>1 DEF v
    <3>2. k \in Nat /\ j \in Nat /\ j < b /\ p = b * k + j
      BY <2>1, <3>1, Dividing
    <3>3. Gathered(s, p) = f + k * st + j
      BY DEF Gathered
    <3> HIDE DEF k, j, b, st, c, f
    <3>4. p = k * b + j
      BY <2>1, <3>2
    <3>5. k < c
      BY <1>2, <3>1, <3>2, <3>4, GatheredIs DEF b, c
    <3>6. k \in 0..(c - 1) /\ j \in 0..(b - 1)
      BY <2>1, <3>2, <3>5
    <3> QED
      BY <3>3, <3>6
  <2> HIDE DEF Set
  <2>7. Set \subseteq {Gathered(s, p) : p \in 0..(c * b - 1)}
    <3> HIDE DEF b, c
    <3> QED
      BY <2>5
  <2>8. Set = {Gathered(s, p) : p \in 0..(c * b - 1)}
    <3> HIDE DEF b, c
    <3> QED
      BY <2>6, <2>7
  <2> QED
    BY <2>2, <2>3, <2>4, <2>8
<1> QED
  BY <1>1, <1>2 DEF IsRequest

-----------------------------------------------------------------------------
(* Sets of numbers in order *)

LEMMA AscendingIs ==
    ASSUME NEW k \in Nat, NEW e \in [1..k -> Nat], NEW S, S = {e[i] : i \in 1..k},
           \A i \in 1..k : \A j \in 1..k : i < j => e[i] < e[j]
    PROVE  /\ Ascending(S) = e
           /\ Len(Ascending(S)) = k
<1> DEFINE Below(x) == {y \in S : y < x}
<1>1. \A i \in 1..k : \A j \in 1..k : e[j] < e[i] <=> j < i
  <2> SUFFICES ASSUME NEW i \in 1..k, NEW j \in 1..k PROVE e[j] < e[i] <=> j < i
    OBVIOUS
  <2>1. e[i] \in Nat /\ e[j] \in Nat /\ i \in Nat /\ j \in Nat
    OBVIOUS
  <2>2. (i < j => e[i] < e[j]) /\ (j < i => e[j] < e[i])
    OBVIOUS
  <2> QED
    BY <2>1, <2>2
<1>2. ASSUME NEW m \in 0..k, NEW T, T = {e[i] : i \in 1..m}
      PROVE  Cardinality(T) = m
  <2> DEFINE f == [i \in 1..m |-> e[i]]
  <2>1. f \in [1..m -> T]
    BY <1>2
  <2>2. \A x \in T : \E i \in 1..m : f[i] = x
    BY <1>2
  <2>3. \A i \in 1..m : \A j \in 1..m : f[i] = f[j] => i = j
    <3> SUFFICES ASSUME NEW i \in 1..m, NEW j \in 1..m, f[i] = f[j] PROVE i = j
      OBVIOUS
    <3>1. i \in 1..k /\ j \in 1..k /\ e[i] = e[j]
      OBVIOUS
    <3>2. ~(i < j) /\ ~(j < i)
      BY <1>1, <3>1
    <3> QED
      BY <3>1, <3>2
  <2> HIDE DEF f
  <2>4. f \in Bijection(1..m, T)
    BY <2>1, <2>2, <2>3 DEF Bijection, Injection, Surjection, IsInjective
  <2>5. ExistsBijection(1..m, T)
    BY <2>4 DEF ExistsBijection
  <2> QED
    BY <2>5, FS_CountingElements
<1>3. Cardinality(S) = k
  BY <1>2
<1>4. \A i \in 1..k : Cardinality(Below(e[i])) = i - 1
  <2> SUFFICES ASSUME NEW i \in 1..k PROVE Cardinality(Below(e[i])) = i - 1
    OBVIOUS
  <2>1. Below(e[i]) = {e[j] : j \in 1..(i - 1)}
    <3>1. ASSUME NEW y \in Below(e[i]) PROVE \E j \in 1..(i - 1) : e[j] = y
      <4>1. PICK j \in 1..k : y = e[j]
        OBVIOUS
      <4>2. j < i
        BY <1>1, <4>1
      <4>3. j \in 1..(i - 1)
        BY <4>2
      <4> QED
        BY <4>1, <4>3
    <3>2. ASSUME NEW j \in 1..(i - 1) PROVE e[j] \in Below(e[i])
      <4>1. j \in 1..k /\ j < i
        OBVIOUS
      <4>2. e[j] < e[i]
        BY <1>1, <4>1
      <4> QED
        BY <4>1, <4>2
    <3> HIDE DEF Below
    <3> QED
      BY <3>1, <3>2
  <2>2. i - 1 \in 0..k
    OBVIOUS
  <2> QED
    BY <1>2, <2>1, <2>2
<1>5. \A i \in 1..k : (CHOOSE x \in S : Cardinality(Below(x)) = i - 1) = e[i]
  <2> SUFFICES ASSUME NEW i \in 1..k
               PROVE  (CHOOSE x \in S : Cardinality(Below(x)) = i - 1) = e[i]
    OBVIOUS
  <2> HIDE DEF Below
  <2>1. e[i] \in S /\ Cardinality(Below(e[i])) = i - 1
    BY <1>4
  <2>2. \A x \in S : Cardinality(Below(x)) = i - 1 => x = e[i]
    <3> SUFFICES ASSUME NEW x \in S, Cardinality(Below(x)) = i - 1 PROVE x = e[i]
      OBVIOUS
    <3>1. PICK j \in 1..k : x = e[j]
      OBVIOUS
    <3>2. j - 1 = i - 1
      BY <1>4, <3>1
    <3>3. j = i
      BY <3>2
    <3> QED
      BY <3>1, <3>3
  <2> QED
    BY <2>1, <2>2
<1>6. Ascending(S) = [i \in 1..k |-> e[i]]
  <2>1. Ascending(S) = [i \in 1..k |-> CHOOSE x \in S : Cardinality(Below(x)) = i - 1]
    BY <1>3 DEF Ascending
  <2> HIDE DEF Below
  <2> QED
    BY <1>5, <2>1
<1>7. Ascending(S) = e
  BY <1>6
<1>8. e \in Seq(Nat)
  BY SeqDef
<1>9. Len(e) \in Nat /\ DOMAIN e = 1..Len(e) /\ DOMAIN e = 1..k
  BY <1>8, LenProperties
<1>10. Len(e) = k
  BY <1>9
<1> QED
  BY <1>7, <1>10

-----------------------------------------------------------------------------
(* Boxes *)

LEMMA ShapeLength ==
    ASSUME NEW n \in Nat, NEW shape \in [1..n -> Nat]
    PROVE  Len(shape) = n /\ DOMAIN shape = 1..n
<1>1. shape \in Seq(Nat)
  BY SeqDef
<1>2. Len(shape) \in Nat /\ DOMAIN shape = 1..Len(shape) /\ DOMAIN shape = 1..n
  BY <1>1, LenProperties
<1> QED
  BY <1>2

LEMMA ShapeIsGrid ==
    ASSUME NEW n \in Nat \ {0}, NEW shape \in [1..n -> Nat], \A d \in 1..n : shape[d] # 0
    PROVE  IsGrid(shape, n)
  BY ShapeLength DEF IsGrid

\* The elements of a box, whose flat indices start with 1.
LEMMA ElementsAre ==
    ASSUME NEW shape, NEW n, IsGrid(shape, n), NEW i
    PROVE  i \in Elements(shape) <=> i \in Nat /\ i - 1 \in Nat /\ i - 1 < Volume(shape)
<1>1. Volume(shape) \in Nat
  <2>1. n \in Nat /\ Len(shape) = n /\ \A d \in 1..n : shape[d] \in Nat
    BY DEF IsGrid
  <2> QED
    BY <2>1, VolumeIsNatural
<1> QED
  BY <1>1 DEF Elements

LEMMA AtIs ==
    ASSUME NEW shape, NEW n, IsGrid(shape, n), NEW from \in [1..n -> Nat],
           NEW i \in Elements(shape)
    PROVE  /\ At(from, shape, i) \in [1..n -> Nat]
           /\ Unflatten(i - 1, shape) \in [1..n -> Nat]
           /\ \A d \in 1..n : /\ At(from, shape, i)[d] = from[d] + Unflatten(i - 1, shape)[d]
                              /\ Unflatten(i - 1, shape)[d] < shape[d]
           /\ Flatten(Unflatten(i - 1, shape), shape) = i - 1
<1>1. i - 1 \in Nat /\ i - 1 < Volume(shape)
  BY ElementsAre
<1> DEFINE u == Unflatten(i - 1, shape)
<1>2. u \in [1..n -> Nat] /\ (\A d \in 1..n : u[d] < shape[d]) /\ Flatten(u, shape) = i - 1
  BY <1>1, FlattenUnflatten
<1>3. At(from, shape, i) = [d \in 1..n |-> from[d] + u[d]]
  BY DEF At, IsGrid
<1> HIDE DEF u
<1>4. /\ [d \in 1..n |-> from[d] + u[d]] \in [1..n -> Nat]
      /\ \A d \in 1..n : [e \in 1..n |-> from[e] + u[e]][d] = from[d] + u[d]
  BY <1>2
<1> QED
  BY <1>2, <1>3, <1>4 DEF u

\* How far into a box its coordinates lie.
IsWithin(g, from, shape, n, u) ==
    u \in [1..n -> Nat] /\ \A d \in 1..n : from[d] + u[d] = g[d] /\ u[d] < shape[d]

\* Coordinates within a box are those of the element their distances from its start name.
LEMMA AtReaches ==
    ASSUME NEW shape, NEW n, IsGrid(shape, n), NEW from \in [1..n -> Nat], NEW g \in [1..n -> Nat],
           NEW u, IsWithin(g, from, shape, n, u), NEW i, i = Flatten(u, shape) + 1
    PROVE  i \in Elements(shape) /\ At(from, shape, i) = g
<1> DEFINE f == Flatten(u, shape)
<1>1. /\ n \in Nat /\ DOMAIN shape = 1..n
      /\ \A d \in 1..n : shape[d] \in Nat /\ from[d] \in Nat /\ g[d] \in Nat
  BY DEF IsGrid
<1>2. /\ i = f + 1
      /\ u \in [1..n -> Nat] /\ \A d \in 1..n : from[d] + u[d] = g[d] /\ u[d] < shape[d]
  BY DEF IsWithin
<1>3. f \in Nat /\ f < Volume(shape) /\ Unflatten(f, shape) = u
  BY <1>2, FlattenWithin
<1> HIDE DEF f
<1>4. i \in Nat /\ i - 1 = f
  BY <1>2, <1>3
<1>5. i \in Elements(shape)
  BY <1>3, <1>4, ElementsAre
<1>6. At(from, shape, i) = [d \in 1..n |-> from[d] + u[d]]
  BY <1>1, <1>3, <1>4 DEF At
<1>7. At(from, shape, i) = g
  <2>1. \A d \in 1..n : from[d] + u[d] = g[d]
    BY <1>2
  <2>2. g = [d \in 1..n |-> g[d]]
    OBVIOUS
  <2> QED
    BY <1>6, <2>1, <2>2
<1> QED
  BY <1>5, <1>7

-----------------------------------------------------------------------------
(* The dataset *)

Rank == Len(ds.dims)

Coordinates == [1..Rank -> Nat]

\* A place on the chunk grid, and the elements of its cell.
OnGrid(o) == o \in Coordinates /\ \A d \in 1..Rank : o[d] % ds.chunk_dims[d] = 0
InCell(g, o) == \A d \in 1..Rank : CellOf(g[d], d) = o[d]

LEMMA DatasetIs ==
    ASSUME ds \in Dataset
    PROVE  /\ Rank \in Nat \ {0} /\ Dims = 1..Rank /\ ds.dims \in Coordinates
           /\ ds.chunked \in BOOLEAN
           /\ ds.records \in Seq([offsets : Seq(Nat), readable : BOOLEAN])
           /\ \A rec \in Range(ds.records) : rec.readable \in BOOLEAN
           /\ ds.chunked => ds.chunk_dims \in [1..Rank -> Nat \ {0}]
           /\ ds.chunked =>
                  \A rec \in Range(ds.records) :
                      OnGrid(rec.offsets) /\ \A d \in 1..Rank : rec.offsets[d] < ds.dims[d]
           /\ ~ds.chunked => ds.records = <<>>
<1>1. /\ ds.chunked \in BOOLEAN /\ ds.dims \in Seq(Nat) /\ Len(ds.dims) > 0
      /\ ds.records \in Seq([offsets : Seq(Nat), readable : BOOLEAN])
  BY ReadAssumption
<1>2. Rank \in Nat \ {0} /\ Dims = 1..Rank /\ ds.dims \in Coordinates
  BY <1>1, LenProperties DEF Rank, Dims, Coordinates
<1>3. \A rec \in Range(ds.records) :
          /\ rec \in [offsets : Seq(Nat), readable : BOOLEAN]
          /\ \E r \in DOMAIN ds.records : rec = ds.records[r]
  <2> SUFFICES ASSUME NEW rec \in Range(ds.records)
               PROVE  /\ rec \in [offsets : Seq(Nat), readable : BOOLEAN]
                      /\ \E r \in DOMAIN ds.records : rec = ds.records[r]
    OBVIOUS
  <2>1. PICK r \in DOMAIN ds.records : rec = ds.records[r]
    BY DEF Range
  <2> DEFINE T == [offsets : Seq(Nat), readable : BOOLEAN]
  <2> HIDE DEF T
  <2>2. ds.records \in Seq(T)
    BY <1>1 DEF T
  <2>3. ds.records[r] \in T
    BY <2>1, <2>2, LenProperties, ElementOfSeq
  <2> QED
    BY <2>1, <2>3 DEF T
<1>4. ds.chunked => ds.chunk_dims \in [1..Rank -> Nat \ {0}]
  <2> SUFFICES ASSUME ds.chunked PROVE ds.chunk_dims \in [1..Rank -> Nat \ {0}]
    OBVIOUS
  <2>1. ds.chunk_dims \in Seq(Nat \ {0}) /\ Len(ds.chunk_dims) = Rank
    BY ReadAssumption DEF Rank
  <2> QED
    BY <2>1, LenProperties
<1>5. ASSUME ds.chunked, NEW rec \in Range(ds.records)
      PROVE  OnGrid(rec.offsets) /\ \A d \in 1..Rank : rec.offsets[d] < ds.dims[d]
  <2>1. PICK r \in DOMAIN ds.records : rec = ds.records[r]
    BY <1>3
  <2>2. /\ Len(rec.offsets) = Rank
        /\ \A d \in DOMAIN ds.dims :
              rec.offsets[d] % ds.chunk_dims[d] = 0 /\ rec.offsets[d] < ds.dims[d]
    BY <1>5, <2>1, ReadAssumption DEF Rank
  <2>3. rec.offsets \in Coordinates
    BY <1>3, <2>2, LenProperties DEF Coordinates
  <2> QED
    BY <1>2, <2>2, <2>3 DEF OnGrid, Dims
<1>6. ~ds.chunked => ds.records = <<>>
  BY ReadAssumption
<1> QED
  BY <1>1, <1>2, <1>3, <1>4, <1>5, <1>6

LEMMA InCellIs ==
    ASSUME ds \in Dataset, ds.chunked, NEW g \in Coordinates, NEW o, OnGrid(o)
    PROVE  InCell(g, o) <=> \A d \in 1..Rank : o[d] <= g[d] /\ g[d] < o[d] + ds.chunk_dims[d]
<1> SUFFICES ASSUME NEW d \in 1..Rank
             PROVE  CellOf(g[d], d) = o[d] <=> o[d] <= g[d] /\ g[d] < o[d] + ds.chunk_dims[d]
  BY DEF InCell
<1>1. g[d] \in Nat /\ o[d] \in Nat /\ ds.chunk_dims[d] \in Nat \ {0} /\ o[d] % ds.chunk_dims[d] = 0
  BY DatasetIs DEF OnGrid, Coordinates
<1> QED
  BY <1>1, CellHolds DEF CellOf

\* An element's cell.
LEMMA CellIsOnGrid ==
    ASSUME ds \in Dataset, ds.chunked, NEW g \in Coordinates
    PROVE  LET o == [d \in 1..Rank |-> CellOf(g[d], d)] IN OnGrid(o) /\ InCell(g, o)
<1> DEFINE o == [d \in 1..Rank |-> CellOf(g[d], d)]
<1>1. ASSUME NEW d \in 1..Rank
      PROVE  CellOf(g[d], d) \in Nat /\ CellOf(g[d], d) % ds.chunk_dims[d] = 0
  <2> DEFINE a == ds.chunk_dims[d]
             x == g[d]
             q == x \div a
  <2>1. a \in Nat \ {0} /\ x \in Nat
    BY DatasetIs DEF Coordinates
  <2>2. q \in Nat
    BY <2>1, Dividing
  <2>3. CellOf(x, d) = q * a
    BY DEF CellOf
  <2> HIDE DEF a, x, q
  <2>4. q * a = a * q + 0 /\ q * a \in Nat /\ 0 < a
    BY <2>1, <2>2
  <2> DEFINE m == q * a
  <2>5. m \in Nat /\ m = a * q + 0
    BY <2>4
  <2> HIDE DEF m
  <2>6. m % a = 0
    BY <2>1, <2>2, <2>4, <2>5, DivisionIs
  <2> QED
    BY <2>3, <2>5, <2>6 DEF m, a, x
<1>2. o \in Coordinates
  BY <1>1 DEF Coordinates
<1> QED
  BY <1>1, <1>2 DEF OnGrid, InCell

\* What a chunk has within bounds: the elements within them that lie in its cell.
LEMMA OverlapIs ==
    ASSUME ds \in Dataset, ds.chunked, NEW o, OnGrid(o),
           NEW lo \in Coordinates, NEW hi \in Coordinates
    PROVE  /\ Overlap(o, lo, hi) \subseteq Coordinates
           /\ \A g \in Coordinates :
                  g \in Overlap(o, lo, hi) <=>
                      InCell(g, o) /\ \A d \in 1..Rank : lo[d] <= g[d] /\ g[d] < hi[d]
           /\ Overlap(o, lo, hi) # {} <=>
                  \A d \in 1..Rank : Larger(lo[d], o[d]) < Smaller(hi[d], o[d] + ds.chunk_dims[d])
<1> DEFINE n == Rank
           cd == ds.chunk_dims
           from == [d \in 1..n |-> Larger(lo[d], o[d])]
           to == [d \in 1..n |-> Smaller(hi[d], o[d] + cd[d])]
           shape == [d \in 1..n |-> to[d] - from[d]]
<1>1. n \in Nat \ {0} /\ Dims = 1..n /\ cd \in [1..n -> Nat \ {0}] /\ o \in [1..n -> Nat]
      /\ lo \in [1..n -> Nat] /\ hi \in [1..n -> Nat]
  BY DatasetIs DEF OnGrid, Coordinates
<1>2. Overlap(o, lo, hi) = IF \E d \in 1..n : from[d] >= to[d] THEN {}
                           ELSE {At(from, shape, i) : i \in Elements(shape)}
  BY <1>1 DEF Overlap
<1> HIDE DEF n, cd
<1>3. \A d \in 1..n : /\ from[d] \in Nat /\ to[d] \in Nat
                      /\ from[d] = Larger(lo[d], o[d]) /\ to[d] = Smaller(hi[d], o[d] + cd[d])
  BY <1>1 DEF Larger, Smaller
<1>4. \A g \in Coordinates : /\ g \in [1..n -> Nat]
                             /\ InCell(g, o) <=>
                                    \A d \in 1..n : o[d] <= g[d] /\ g[d] < o[d] + cd[d]
  BY InCellIs DEF n, cd, Coordinates
<1>5. \A g \in Coordinates :
          (\A d \in 1..n : from[d] <= g[d] /\ g[d] < to[d]) <=>
              InCell(g, o) /\ \A d \in 1..n : lo[d] <= g[d] /\ g[d] < hi[d]
  <2> SUFFICES ASSUME NEW g \in Coordinates
               PROVE  (\A d \in 1..n : from[d] <= g[d] /\ g[d] < to[d]) <=>
                          InCell(g, o) /\ \A d \in 1..n : lo[d] <= g[d] /\ g[d] < hi[d]
    OBVIOUS
  <2>1. ASSUME NEW d \in 1..n
        PROVE  (from[d] <= g[d] /\ g[d] < to[d]) <=>
                   /\ o[d] <= g[d] /\ g[d] < o[d] + cd[d]
                   /\ lo[d] <= g[d] /\ g[d] < hi[d]
    <3>1. g[d] \in Nat /\ lo[d] \in Nat /\ hi[d] \in Nat /\ o[d] \in Nat /\ cd[d] \in Nat
      BY <1>1, <1>4
    <3>2. from[d] = Larger(lo[d], o[d]) /\ to[d] = Smaller(hi[d], o[d] + cd[d])
      BY <1>3
    <3> QED
      BY <3>1, <3>2 DEF Larger, Smaller
  <2> HIDE DEF from, to
  <2> QED
    BY <1>4, <2>1
<1>6. CASE \E d \in 1..n : from[d] >= to[d]
  <2>1. Overlap(o, lo, hi) = {}
    BY <1>2, <1>6
  <2>2. PICK d \in 1..n : from[d] >= to[d]
    BY <1>6
  <2>3. ~(Larger(lo[d], o[d]) < Smaller(hi[d], o[d] + cd[d]))
    BY <1>3, <2>2
  <2>4. ASSUME NEW g \in Coordinates PROVE ~(from[d] <= g[d] /\ g[d] < to[d])
    <3>1. g[d] \in Nat /\ from[d] \in Nat /\ to[d] \in Nat
      BY <1>3, <1>4
    <3> QED
      BY <2>2, <3>1
  <2> HIDE DEF from, to
  <2> QED
    BY <1>5, <2>1, <2>3, <2>4 DEF n, cd
<1>7. CASE ~\E d \in 1..n : from[d] >= to[d]
  <2>1. Overlap(o, lo, hi) = {At(from, shape, i) : i \in Elements(shape)}
    BY <1>2, <1>7
  <2>2. \A d \in 1..n : from[d] < to[d]
    BY <1>3, <1>7
  <2>3. from \in [1..n -> Nat]
    BY <1>3
  <2>4. shape \in [1..n -> Nat] /\ \A d \in 1..n : shape[d] # 0 /\ from[d] + shape[d] = to[d]
    <3>1. \A d \in 1..n : to[d] - from[d] \in Nat /\ to[d] - from[d] # 0
                          /\ from[d] + (to[d] - from[d]) = to[d]
      BY <1>3, <2>2
    <3> HIDE DEF from, to
    <3> QED
      BY <3>1
  <2>5. \A d \in 1..n : Larger(lo[d], o[d]) < Smaller(hi[d], o[d] + cd[d])
    BY <1>3, <2>2
  <2> HIDE DEF from, to, shape
  <2>6. IsGrid(shape, n)
    BY <1>1, <2>4, ShapeIsGrid
  <2>7. ASSUME NEW g \in Overlap(o, lo, hi)
        PROVE  g \in Coordinates /\ \A d \in 1..n : from[d] <= g[d] /\ g[d] < to[d]
    <3>1. PICK i \in Elements(shape) : g = At(from, shape, i)
      BY <2>1
    <3>2. /\ g \in [1..n -> Nat]
          /\ \A d \in 1..n : /\ g[d] = from[d] + Unflatten(i - 1, shape)[d]
                             /\ Unflatten(i - 1, shape)[d] < shape[d]
                             /\ Unflatten(i - 1, shape)[d] \in Nat
      <4>1. /\ At(from, shape, i) \in [1..n -> Nat]
            /\ Unflatten(i - 1, shape) \in [1..n -> Nat]
            /\ \A d \in 1..n : /\ At(from, shape, i)[d] = from[d] + Unflatten(i - 1, shape)[d]
                               /\ Unflatten(i - 1, shape)[d] < shape[d]
        BY <2>3, <2>6, AtIs
      <4> QED
        BY <3>1, <4>1
    <3>3. ASSUME NEW d \in 1..n PROVE from[d] <= g[d] /\ g[d] < to[d]
      <4>1. from[d] \in Nat /\ shape[d] \in Nat /\ from[d] + shape[d] = to[d]
        BY <2>3, <2>4
      <4> QED
        BY <3>2, <4>1
    <3> QED
      BY <3>2, <3>3 DEF n, Coordinates
  <2>8. ASSUME NEW g \in Coordinates, \A d \in 1..n : from[d] <= g[d] /\ g[d] < to[d]
        PROVE  g \in Overlap(o, lo, hi)
    <3> DEFINE u == [d \in 1..n |-> g[d] - from[d]]
    <3>1. ASSUME NEW d \in 1..n
          PROVE  g[d] - from[d] \in Nat /\ from[d] + (g[d] - from[d]) = g[d] /\ g[d] - from[d] < shape[d]
      <4>1. /\ g[d] \in Nat /\ from[d] \in Nat /\ shape[d] \in Nat
            /\ from[d] + shape[d] = to[d] /\ from[d] <= g[d] /\ g[d] < to[d]
        BY <1>4, <2>3, <2>4, <2>8
      <4> QED
        BY <4>1
    <3>2. IsWithin(g, from, shape, n, u)
      BY <3>1 DEF IsWithin
    <3>3. g \in [1..n -> Nat]
      BY <1>4
    <3> HIDE DEF u
    <3>4. \E i \in Elements(shape) : At(from, shape, i) = g
      <4> DEFINE i == Flatten(u, shape) + 1
      <4>1. i = Flatten(u, shape) + 1
        OBVIOUS
      <4> HIDE DEF i
      <4>2. i \in Elements(shape) /\ At(from, shape, i) = g
        BY <2>3, <2>6, <3>2, <3>3, <4>1, AtReaches
      <4> QED
        BY <4>2
    <3> QED
      BY <2>1, <3>4
  <2>9. Overlap(o, lo, hi) # {}
    <3>1. from \in Coordinates /\ \A d \in 1..n : from[d] <= from[d] /\ from[d] < to[d]
      <4>1. \A d \in 1..n : from[d] \in Nat
        BY <2>3
      <4> QED
        BY <2>2, <2>3, <4>1 DEF n, Coordinates
    <3> QED
      BY <2>8, <3>1
  <2> QED
    BY <1>5, <2>5, <2>7, <2>8, <2>9 DEF n, cd
<1> QED
  BY <1>6, <1>7

-----------------------------------------------------------------------------
(* Chunks *)

\* The chunks' tiles hold what the chunks hold.
TilesAreDecoded == tiles = [rec \in DOMAIN tiles |-> DecodedTile(rec)]

\* The value a chunk's tile gives an element of its cell.
LEMMA TileIs ==
    ASSUME ds \in Dataset, ds.chunked, DOMAIN tiles \subseteq Range(ds.records), TilesAreDecoded,
           NEW g \in Coordinates, NEW o, OnGrid(o), InCell(g, o)
    PROVE  Tile(o)[Flatten([d \in Dims |-> g[d] - o[d]], ds.chunk_dims) + 1] =
               IF \E rec \in DOMAIN tiles : rec.offsets = o THEN g ELSE Fill
<1> DEFINE n == Rank
           cd == ds.chunk_dims
           u == [d \in Dims |-> g[d] - o[d]]
           i == Flatten(u, cd) + 1
<1>1. n \in Nat \ {0} /\ Dims = 1..n /\ cd \in [1..n -> Nat \ {0}] /\ o \in [1..n -> Nat]
      /\ g \in [1..n -> Nat]
  BY DatasetIs DEF OnGrid, Coordinates
<1>2. IsGrid(cd, n)
  <2>1. cd \in [1..n -> Nat] /\ \A d \in 1..n : cd[d] # 0
    BY <1>1
  <2> HIDE DEF n, cd
  <2> QED
    BY <1>1, <2>1, ShapeIsGrid
<1>3. \A d \in 1..n : o[d] <= g[d] /\ g[d] < o[d] + cd[d]
  BY InCellIs
<1>4. IsWithin(g, o, cd, n, u)
  <2>1. ASSUME NEW d \in 1..n
        PROVE  g[d] - o[d] \in Nat /\ o[d] + (g[d] - o[d]) = g[d] /\ g[d] - o[d] < cd[d]
    <3>1. g[d] \in Nat /\ o[d] \in Nat /\ cd[d] \in Nat
      BY <1>1
    <3> QED
      BY <1>3, <3>1
  <2> HIDE DEF n, cd
  <2> QED
    BY <1>1, <2>1 DEF IsWithin
<1>5. i = Flatten(u, cd) + 1
  OBVIOUS
<1> HIDE DEF n, cd, u, i
<1>6. i \in Elements(cd) /\ At(o, cd, i) = g
  <2>1. o \in [1..n -> Nat] /\ g \in [1..n -> Nat]
    BY <1>1
  <2> QED
    BY <1>2, <1>4, <1>5, <2>1, AtReaches
<1>7. CASE \E rec \in DOMAIN tiles : rec.offsets = o
  <2> DEFINE rec == CHOOSE rec \in DOMAIN tiles : rec.offsets = o
  <2>1. rec \in DOMAIN tiles /\ rec.offsets = o
    BY <1>7
  <2>2. Tile(o) = tiles[rec]
    BY <1>7 DEF Tile
  <2> HIDE DEF rec
  <2>3. tiles[rec] = DecodedTile(rec)
    BY <2>1 DEF TilesAreDecoded
  <2>4. DecodedTile(rec)[i] = At(rec.offsets, cd, i)
    BY <1>6 DEF DecodedTile, cd
  <2>5. Tile(o)[i] = g
    BY <1>6, <2>1, <2>2, <2>3, <2>4
  <2> QED
    BY <1>7, <2>5 DEF i, u, cd
<1>8. CASE ~\E rec \in DOMAIN tiles : rec.offsets = o
  <2>1. Tile(o) = SparseTile
    BY <1>8 DEF Tile
  <2>2. SparseTile[i] = Fill
    BY <1>6 DEF SparseTile, cd
  <2>3. Tile(o)[i] = Fill
    BY <2>1, <2>2
  <2> QED
    BY <1>8, <2>3 DEF i, u, cd
<1> QED
  BY <1>7, <1>8

\* Scattering a chunk gives its values to the places whose elements lie in its cell,
\* and touches no other.
IsScattering(places, o, coord, S) ==
    /\ \A g \in DOMAIN places : g \in Coordinates /\ InCell(g, o)
    /\ \A i \in S : \A g \in DOMAIN places : places[g] = i => g = coord[i]
    /\ \A i \in S : InCell(coord[i], o) => coord[i] \in DOMAIN places /\ places[coord[i]] = i

LEMMA CopyIs ==
    ASSUME ds \in Dataset, ds.chunked, DOMAIN tiles \subseteq Range(ds.records), TilesAreDecoded,
           NEW o, OnGrid(o), NEW out, NEW coord, NEW places,
           IsScattering(places, o, coord, DOMAIN out)
    PROVE  CopyInto(out, o, places) =
               [i \in DOMAIN out |->
                   IF InCell(coord[i], o)
                   THEN IF \E rec \in DOMAIN tiles : rec.offsets = o THEN coord[i] ELSE Fill
                   ELSE out[i]]
<1> DEFINE Of(g) == Tile(o)[Flatten([d \in Dims |-> g[d] - o[d]], ds.chunk_dims) + 1]
           Value(g) == IF \E rec \in DOMAIN tiles : rec.offsets = o THEN g ELSE Fill
           Copied(i) == IF \E g \in DOMAIN places : places[g] = i
                        THEN Of(CHOOSE g \in DOMAIN places : places[g] = i)
                        ELSE out[i]
<1>1. CopyInto(out, o, places) = [i \in DOMAIN out |-> Copied(i)]
  BY DEF CopyInto
<1>2. \A g \in Coordinates : InCell(g, o) => Of(g) = Value(g)
  BY TileIs
<1> HIDE DEF Of
<1>3. ASSUME NEW i \in DOMAIN out
      PROVE  Copied(i) = IF InCell(coord[i], o) THEN Value(coord[i]) ELSE out[i]
  <2>1. CASE InCell(coord[i], o)
    <3>1. coord[i] \in DOMAIN places /\ places[coord[i]] = i
      BY <2>1 DEF IsScattering
    <3> DEFINE g == CHOOSE g \in DOMAIN places : places[g] = i
    <3>2. g \in DOMAIN places /\ places[g] = i
      BY <3>1
    <3>3. Copied(i) = Of(g)
      BY <3>1
    <3> HIDE DEF g
    <3>4. g = coord[i]
      BY <3>2 DEF IsScattering
    <3>5. coord[i] \in Coordinates
      BY <3>1 DEF IsScattering
    <3>6. Of(coord[i]) = Value(coord[i])
      BY <1>2, <2>1, <3>5
    <3> HIDE DEF Copied, Value
    <3> QED
      BY <2>1, <3>3, <3>4, <3>6
  <2>2. CASE ~InCell(coord[i], o)
    <3>1. ~\E g \in DOMAIN places : places[g] = i
      BY <2>2 DEF IsScattering
    <3> QED
      BY <2>2, <3>1
  <2> QED
    BY <2>1, <2>2
<1> HIDE DEF Copied
<1>4. [i \in DOMAIN out |-> Copied(i)] =
          [i \in DOMAIN out |-> IF InCell(coord[i], o) THEN Value(coord[i]) ELSE out[i]]
  <2> HIDE DEF Value
  <2> QED
    BY <1>3
<1> QED
  BY <1>1, <1>4

\* The value of an element, by the chunk whose cell it lies in.
LEMMA ValueIs ==
    ASSUME ds \in Dataset, ds.chunked, NEW g \in Coordinates, NEW o, OnGrid(o), InCell(g, o)
    PROVE  ValueAt(g) = IF \E rec \in Range(ds.records) : rec.offsets = o THEN g ELSE Fill
<1>1. Dims = 1..Rank /\ o \in Coordinates
  BY DatasetIs DEF OnGrid
<1>2. ASSUME NEW rec \in Range(ds.records)
      PROVE  (\A d \in Dims : CellOf(g[d], d) = rec.offsets[d]) <=> rec.offsets = o
  <2>1. rec.offsets \in Coordinates
    BY DatasetIs DEF OnGrid
  <2>2. \A d \in Dims : CellOf(g[d], d) = o[d]
    BY <1>1 DEF InCell
  <2>3. ASSUME \A d \in 1..Rank : rec.offsets[d] = o[d] PROVE rec.offsets = o
    <3> DEFINE k == rec.offsets
               n == Rank
    <3>1. k \in [1..n -> Nat] /\ o \in [1..n -> Nat] /\ \A d \in 1..n : k[d] = o[d]
      BY <1>1, <2>1, <2>3 DEF Coordinates
    <3> HIDE DEF k, n
    <3>2. k = [d \in 1..n |-> k[d]] /\ o = [d \in 1..n |-> o[d]]
      BY <3>1
    <3>3. k = o
      BY <3>1, <3>2
    <3> QED
      BY <3>3 DEF k
  <2> QED
    BY <1>1, <2>2, <2>3
<1> QED
  BY <1>2 DEF ValueAt

-----------------------------------------------------------------------------
(* The cells under a selection *)

AreBounds(bounds) ==
    \A d \in 1..Rank : bounds[d].start \in Nat /\ bounds[d].end \in Nat /\ bounds[d].start < bounds[d].end

\* They are those with elements within the bounds.
LEMMA CellsUnderAre ==
    ASSUME ds \in Dataset, ds.chunked, NEW bounds, AreBounds(bounds)
    PROVE  /\ CellsUnder(bounds) \in Seq(Coordinates)
           /\ \A j \in DOMAIN CellsUnder(bounds) : OnGrid(CellsUnder(bounds)[j])
           /\ \A o : OnGrid(o) =>
                  ((\E j \in DOMAIN CellsUnder(bounds) : CellsUnder(bounds)[j] = o) <=>
                      \A d \in 1..Rank :
                          Larger(bounds[d].start, o[d]) < Smaller(bounds[d].end, o[d] + ds.chunk_dims[d]))
<1> DEFINE n == Rank
           cd == ds.chunk_dims
           first == [d \in 1..n |-> CellOf(bounds[d].start, d)]
           counts == [d \in 1..n |-> CellCount(bounds[d].start, bounds[d].end, cd[d])]
           cell(i) == [d \in 1..n |-> first[d] + Unflatten(i - 1, counts)[d] * cd[d]]
           origins == CellsUnder(bounds)
<1>1. n \in Nat \ {0} /\ Dims = 1..n /\ cd \in [1..n -> Nat \ {0}]
  BY DatasetIs
<1>2. origins = [i \in Elements(counts) |-> cell(i)]
  <2>1. \A d \in 1..n : (CellOf(bounds[d].end - 1, d) - first[d]) \div cd[d] + 1
                            = CellCount(bounds[d].start, bounds[d].end, cd[d])
    BY DEF CellOf, CellCount
  <2> HIDE DEF cd
  <2>2. counts = [d \in 1..n |-> (CellOf(bounds[d].end - 1, d) - first[d]) \div cd[d] + 1]
    BY <2>1
  <2> HIDE DEF counts
  <2>3. origins = [i \in Elements(counts) |-> cell(i)]
    BY <1>1, <2>2 DEF CellsUnder, cd
  <2> QED
    BY <2>3
<1> HIDE DEF n, cd
<1>3. ASSUME NEW d \in 1..n
      PROVE  /\ bounds[d].start \in Nat /\ bounds[d].end \in Nat /\ bounds[d].start < bounds[d].end
             /\ cd[d] \in Nat \ {0}
             /\ first[d] = (bounds[d].start \div cd[d]) * cd[d] /\ first[d] \in Nat
             /\ counts[d] = CellCount(bounds[d].start, bounds[d].end, cd[d])
             /\ counts[d] \in Nat \ {0}
  <2>1. bounds[d].start \in Nat /\ bounds[d].end \in Nat /\ bounds[d].start < bounds[d].end
    BY DEF AreBounds, n
  <2>2. cd[d] \in Nat \ {0}
    BY <1>1
  <2>3. first[d] = (bounds[d].start \div cd[d]) * cd[d]
    BY DEF CellOf, cd
  <2>4. first[d] \in Nat
    BY <2>1, <2>2, <2>3, CellStart
  <2> QED
    BY <2>1, <2>2, <2>3, <2>4, CellCountIs
<1>4. first \in [1..n -> Nat] /\ counts \in [1..n -> Nat]
  <2>1. first = [d \in 1..n |-> first[d]] /\ counts = [d \in 1..n |-> counts[d]]
    OBVIOUS
  <2> HIDE DEF first, counts
  <2> QED
    BY <1>3, <2>1
<1> HIDE DEF first, counts
<1>5. IsGrid(counts, n)
  BY <1>1, <1>3, <1>4, ShapeIsGrid
<1>6. ASSUME NEW i \in Elements(counts)
      PROVE  /\ cell(i) \in [1..n -> Nat]
             /\ \A d \in 1..n : \E u \in Nat : u < counts[d] /\ cell(i)[d] = first[d] + u * cd[d]
             /\ \A d \in 1..n : cell(i)[d] % cd[d] = 0
  <2> DEFINE v == Unflatten(i - 1, counts)
  <2>1. v \in [1..n -> Nat] /\ \A d \in 1..n : v[d] < counts[d]
    <3>1. first \in [1..n -> Nat]
      BY <1>4
    <3> QED
      BY <1>5, <3>1, AtIs
  <2>2. cell(i) = [d \in 1..n |-> first[d] + v[d] * cd[d]]
    OBVIOUS
  <2> HIDE DEF v
  <2>3. ASSUME NEW d \in 1..n
        PROVE  /\ first[d] + v[d] * cd[d] \in Nat /\ v[d] \in Nat /\ v[d] < counts[d]
               /\ (first[d] + v[d] * cd[d]) % cd[d] = 0
    <3> DEFINE a == cd[d]
               p == bounds[d].start \div a
               w == v[d]
    <3>1. a \in Nat \ {0} /\ first[d] = p * a /\ bounds[d].start \in Nat /\ w \in Nat
      BY <1>3, <2>1
    <3>2. p \in Nat
      BY <3>1, Dividing
    <3> HIDE DEF a, p, w
    <3>3. p * a + w * a = a * (p + w) + 0 /\ p * a + w * a \in Nat /\ p + w \in Nat /\ 0 < a
      BY <3>1, <3>2
    <3> DEFINE m == p * a + w * a
               q == p + w
    <3>4. m \in Nat /\ q \in Nat /\ m = a * q + 0 /\ 0 < a
      BY <3>3
    <3> HIDE DEF m, q
    <3>5. m % a = 0
      BY <3>1, <3>4, DivisionIs
    <3>6. first[d] + v[d] * cd[d] = m
      BY <3>1 DEF m, a, w
    <3> QED
      BY <2>1, <3>4, <3>5, <3>6 DEF a
  <2> HIDE DEF cell
  <2> QED
    BY <2>2, <2>3
<1>7. ASSUME NEW o, OnGrid(o), \A d \in 1..n : \E u \in Nat : u < counts[d] /\ o[d] = first[d] + u * cd[d]
      PROVE  \E i \in Elements(counts) : cell(i) = o
  <2> DEFINE v == [d \in 1..n |-> CHOOSE u \in Nat : u < counts[d] /\ o[d] = first[d] + u * cd[d]]
             f == Flatten(v, counts)
             i == f + 1
  <2>1. v \in [1..n -> Nat] /\ \A d \in 1..n : v[d] < counts[d] /\ o[d] = first[d] + v[d] * cd[d]
    BY <1>7
  <2> HIDE DEF v
  <2>2. f \in Nat /\ f < Volume(counts) /\ Unflatten(f, counts) = v
    BY <1>5, <2>1, FlattenWithin
  <2> HIDE DEF f
  <2>3. i \in Nat /\ i - 1 = f
    BY <2>2
  <2> HIDE DEF i
  <2>4. i \in Elements(counts)
    BY <1>5, <2>2, <2>3, ElementsAre
  <2>5. cell(i) = [d \in 1..n |-> first[d] + v[d] * cd[d]]
    BY <2>2, <2>3
  <2>6. o = [d \in 1..n |-> o[d]]
    <3>1. o \in [1..n -> Nat]
      BY <1>7 DEF OnGrid, Coordinates, n
    <3> QED
      BY <3>1
  <2> HIDE DEF cell
  <2>7. cell(i) = o
    BY <2>1, <2>5, <2>6
  <2> QED
    BY <2>4, <2>7
<1> HIDE DEF cell
<1>8. /\ DOMAIN origins = Elements(counts)
      /\ \A i \in Elements(counts) : origins[i] = cell(i)
  <2> HIDE DEF origins
  <2> QED
    BY <1>2
<1>9. \A j \in DOMAIN origins : OnGrid(origins[j])
  BY <1>6, <1>8 DEF OnGrid, Coordinates, n, cd
<1>10. origins \in Seq(Coordinates)
  <2>1. Volume(counts) \in Nat
    <3>1. n \in Nat /\ Len(counts) = n /\ \A d \in 1..n : counts[d] \in Nat
      BY <1>5 DEF IsGrid
    <3> QED
      BY <3>1, VolumeIsNatural
  <2>2. \A i \in Elements(counts) : cell(i) \in Coordinates
    BY <1>6 DEF Coordinates, n
  <2> HIDE DEF origins
  <2>3. origins \in [1..Volume(counts) -> Coordinates]
    BY <1>2, <2>2 DEF Elements
  <2> QED
    BY <2>1, <2>3, SeqDef
<1>11. ASSUME NEW o, OnGrid(o)
       PROVE  (\E j \in DOMAIN origins : origins[j] = o) <=>
                  \A d \in 1..n : Larger(bounds[d].start, o[d]) < Smaller(bounds[d].end, o[d] + cd[d])
  <2>1. ASSUME NEW d \in 1..n
        PROVE  (\E u \in Nat : u < counts[d] /\ o[d] = first[d] + u * cd[d]) <=>
                   Larger(bounds[d].start, o[d]) < Smaller(bounds[d].end, o[d] + cd[d])
    <3>1. o[d] \in Nat /\ o[d] % cd[d] = 0
      BY <1>11 DEF OnGrid, Coordinates, n, cd
    <3> DEFINE a == cd[d]
               lo == bounds[d].start
               hi == bounds[d].end
               x == o[d]
    <3>2. /\ a \in Nat \ {0} /\ lo \in Nat /\ hi \in Nat /\ lo < hi /\ x \in Nat /\ x % a = 0
          /\ counts[d] = CellCount(lo, hi, a) /\ first[d] = (lo \div a) * a
      BY <1>3, <3>1
    <3> HIDE DEF a, lo, hi, x
    <3>3. (\E u \in Nat : u < CellCount(lo, hi, a) /\ x = (lo \div a) * a + u * a)
              <=> Larger(lo, x) < Smaller(hi, x + a)
      BY <3>2, CellUnder
    <3> QED
      BY <3>2, <3>3 DEF a, lo, hi, x
  <2>2. (\E j \in DOMAIN origins : origins[j] = o) =>
            \A d \in 1..n : \E u \in Nat : u < counts[d] /\ o[d] = first[d] + u * cd[d]
    <3> HIDE DEF origins
    <3> QED
      BY <1>6, <1>8
  <2>3. (\A d \in 1..n : \E u \in Nat : u < counts[d] /\ o[d] = first[d] + u * cd[d]) =>
            \E j \in DOMAIN origins : origins[j] = o
    <3> HIDE DEF origins
    <3> QED
      BY <1>7, <1>8, <1>11
  <2> QED
    BY <2>1, <2>2, <2>3
<1> QED
  BY <1>9, <1>10, <1>11 DEF n, cd

-----------------------------------------------------------------------------
(* Requests *)

Requested(c) ==
    \/ c.op = "all"
    \/ c.op = "slice" /\ c.sel \in Ranges /\ Len(c.sel) = Rank
    \/ c.op = "hyperslab" /\ c.sel \in Selection /\ Len(c.sel) = Rank

\* A lazy read that has something to scatter.
Starts(c) == (\A d \in Dims : Valid(c.op, c.sel[d])) /\ ~Nothing(c.op, c.sel)

LEMMA RequestIs ==
    ASSUME ds \in Dataset, NEW c, Requested(c), c.op # "all", NEW d \in 1..Rank
    PROVE  IsRequest(c.op, c.sel[d])
<1>1. Rank \in Nat
  BY DatasetIs
<1>2. CASE c.op = "slice"
  <2> DEFINE T == [start : Nat, end : Nat]
  <2>1. c.sel \in Seq(T) /\ Len(c.sel) = Rank
    BY <1>2, ReadAssumption DEF Requested
  <2> HIDE DEF T
  <2>2. c.sel[d] \in T
    BY <2>1, ElementOfSeq
  <2> QED
    BY <1>2, <2>2 DEF IsRequest, T
<1>3. CASE c.op = "hyperslab"
  <2> DEFINE T == [start : Nat, stride : Nat, count : Nat, block : Nat]
  <2>1. c.sel \in Seq(T) /\ Len(c.sel) = Rank
    BY <1>3, ReadAssumption DEF Requested
  <2> HIDE DEF T
  <2>2. c.sel[d] \in T
    BY <2>1, ElementOfSeq
  <2> QED
    BY <1>3, <2>2 DEF IsRequest, T
<1> QED
  BY <1>2, <1>3 DEF Requested

\* What it has to scatter lies within bounds that are not empty.
LEMMA BoundsAre ==
    ASSUME ds \in Dataset, NEW c, Requested(c), c.op # "all", Starts(c)
    PROVE  /\ AreBounds(Bounds(c.op, c.sel))
           /\ \A d \in 1..Rank : Bounds(c.op, c.sel)[d] = Bound(c.op, c.sel[d])
<1>1. Dims = 1..Rank
  BY DatasetIs
<1>2. \A d \in 1..Rank : Bounds(c.op, c.sel)[d] = Bound(c.op, c.sel[d])
  BY <1>1 DEF Bounds
<1>3. ASSUME NEW d \in 1..Rank
      PROVE  LET b == Bound(c.op, c.sel[d])
             IN  b.start \in Nat /\ b.end \in Nat /\ b.start < b.end
  <2> DEFINE s == c.sel[d]
  <2>1. IsRequest(c.op, s)
    BY RequestIs
  <2>2. Valid(c.op, s)
    BY <1>1 DEF Starts
  <2>3. IF c.op = "slice" THEN s.start # s.end ELSE ~IsEmpty(s)
    BY <1>1 DEF Starts, Nothing
  <2> HIDE DEF s
  <2>4. CASE c.op = "slice"
    BY <2>1, <2>2, <2>3, <2>4 DEF IsRequest, Valid, Bound, s
  <2>5. CASE c.op = "hyperslab"
    <3>1. s.start \in Nat /\ s.stride \in Nat /\ s.count \in Nat \ {0} /\ s.block \in Nat \ {0}
      BY <2>1, <2>3, <2>5 DEF IsRequest, IsEmpty
    <3>b. Bound(c.op, s) = [start |-> s.start,
                            end |-> s.start + (s.count - 1) * s.stride + s.block]
      BY <2>3, <2>5 DEF Bound
    <3> DEFINE v == (s.count - 1) * s.stride
    <3>2. v \in Nat
      <4>1. s.count - 1 \in Nat
        BY <3>1
      <4> QED
        BY <3>1, <4>1, ProductsAreNatural
    <3>3. Bound(c.op, s).start = s.start /\ Bound(c.op, s).end = s.start + v + s.block
      BY <3>b
    <3> HIDE DEF v
    <3>4. s.start + v + s.block \in Nat /\ s.start < s.start + v + s.block
      BY <3>1, <3>2
    <3> QED
      BY <3>1, <3>3, <3>4 DEF s
  <2> QED
    BY <2>1, <2>4, <2>5 DEF IsRequest
<1> QED
  BY <1>2, <1>3 DEF AreBounds

\* What one dimension selects, in order.
IsProper(op, s) == Valid(op, s) /\ ~(op = "hyperslab" /\ s.block > s.stride)

LEMMA DimensionIs ==
    ASSUME NEW op, NEW s, IsRequest(op, s), IsProper(op, s)
    PROVE  /\ Extent(op, s) \in Nat
           /\ Len(Ascending(Selected(op, s))) = Extent(op, s)
           /\ \A p \in 0..(Extent(op, s) - 1) :
                  Taken(op, s, p) \in Nat /\ Ascending(Selected(op, s))[p + 1] = Taken(op, s, p)
           /\ Extent(op, s) # 0 <=> IsPlain(op, s)
<1>1. CASE IsPlain(op, s)
  <2> DEFINE k == Extent(op, s)
             S == Selected(op, s)
             e == [i \in 1..k |-> Taken(op, s, i - 1)]
  <2>1. k \in Nat \ {0} /\ S = {Taken(op, s, p) : p \in 0..(k - 1)}
    BY <1>1, TakenIsAll
  <2>2. \A p \in 0..(k - 1) : Taken(op, s, p) \in Nat
    <3> SUFFICES ASSUME NEW p \in 0..(k - 1) PROVE Taken(op, s, p) \in Nat
      OBVIOUS
    <3>1. p \in Nat /\ p < k
      BY <2>1
    <3> QED
      BY <1>1, <3>1, TakenIsSelected
  <2> HIDE DEF k, S
  <2>3. \A i \in 1..k : i - 1 \in 0..(k - 1) /\ e[i] = Taken(op, s, i - 1)
    BY <2>1
  <2>4. e \in [1..k -> Nat]
    BY <2>2, <2>3
  <2>5. S = {e[i] : i \in 1..k}
    <3>1. ASSUME NEW p \in 0..(k - 1) PROVE \E i \in 1..k : e[i] = Taken(op, s, p)
      <4>1. p + 1 \in 1..k /\ (p + 1) - 1 = p
        BY <2>1
      <4>2. e[p + 1] = Taken(op, s, p)
        BY <2>3, <4>1
      <4> QED
        BY <4>1, <4>2
    <3> HIDE DEF e
    <3> QED
      BY <2>1, <2>3, <3>1
  <2>6. \A i \in 1..k : \A j \in 1..k : i < j => e[i] < e[j]
    <3> SUFFICES ASSUME NEW i \in 1..k, NEW j \in 1..k, i < j PROVE e[i] < e[j]
      OBVIOUS
    <3>1. i - 1 \in Nat /\ j - 1 \in Nat /\ i - 1 < j - 1
      OBVIOUS
    <3>2. Taken(op, s, i - 1) < Taken(op, s, j - 1)
      BY <1>1, <3>1, TakenAscends
    <3> QED
      BY <2>3, <3>2
  <2> HIDE DEF e
  <2>7. Ascending(S) = e /\ Len(Ascending(S)) = k
    <3>1. k \in Nat
      BY <2>1
    <3> QED
      BY <2>4, <2>5, <2>6, <3>1, AscendingIs
  <2>8. \A p \in 0..(k - 1) : Ascending(S)[p + 1] = Taken(op, s, p)
    <3> SUFFICES ASSUME NEW p \in 0..(k - 1) PROVE e[p + 1] = Taken(op, s, p)
      BY <2>7
    <3>1. p + 1 \in 1..k /\ (p + 1) - 1 = p
      BY <2>1
    <3> QED
      BY <2>3, <3>1
  <2> QED
    BY <1>1, <2>1, <2>2, <2>7, <2>8 DEF k, S
<1>2. CASE ~IsPlain(op, s)
  <2>1. Extent(op, s) = 0 /\ Selected(op, s) = {}
    <3>1. CASE op = "slice"
      <4>1. s.start \in Nat /\ s.end = s.start
        BY <1>2, <3>1 DEF IsRequest, IsProper, Valid, IsPlain
      <4> QED
        BY <3>1, <4>1 DEF Extent, Selected
    <3>2. CASE op = "hyperslab"
      <4>1. s.count \in Nat /\ s.block \in Nat /\ s.stride \in Nat /\ (s.count = 0 \/ s.block = 0)
        BY <1>2, <3>2 DEF IsRequest, IsProper, Valid, IsPlain, IsEmpty
      <4>2. s.count * s.block = 0
        BY <4>1
      <4>3. 0..(s.count - 1) = {} \/ 0..(s.block - 1) = {}
        BY <4>1
      <4>4. Selected(op, s) = {}
        BY <3>2, <4>3 DEF Selected
      <4> QED
        BY <3>2, <4>2, <4>4 DEF Extent
    <3> QED
      BY <3>1, <3>2 DEF IsRequest
  <2> DEFINE e == [i \in 1..0 |-> i]
  <2>2. e \in [1..0 -> Nat] /\ {} = {e[i] : i \in 1..0}
    OBVIOUS
  <2>3. \A i \in 1..0 : \A j \in 1..0 : i < j => e[i] < e[j]
    OBVIOUS
  <2> HIDE DEF e
  <2>4. Len(Ascending({})) = 0
    BY <2>2, <2>3, AscendingIs
  <2> QED
    BY <1>2, <2>1, <2>4
<1> QED
  BY <1>1, <1>2

-----------------------------------------------------------------------------
(* The elements the places of the output stand for *)

SelectedCoords(c) ==
    [i \in Elements(OutShape(c.op, c.sel)) |->
        [d \in Dims |-> Taken(c.op, c.sel[d], Unflatten(i - 1, OutShape(c.op, c.sel))[d])]]

WholeCoords == [i \in Elements(ds.dims) |-> Unflatten(i - 1, ds.dims)]

\* A shape that has elements is a grid.
LEMMA HasElements ==
    ASSUME NEW n \in Nat \ {0}, NEW shape \in [1..n -> Nat], NEW i \in Elements(shape)
    PROVE  IsGrid(shape, n)
<1>1. Len(shape) = n
  BY ShapeLength
<1>2. Volume(shape) # 0
  BY DEF Elements
<1>3. \A d \in 1..n : shape[d] # 0
  BY <1>1, <1>2, EmptyVolume
<1> QED
  BY <1>3, ShapeIsGrid

LEMMA OutShapeIs ==
    ASSUME ds \in Dataset, NEW c, Requested(c), c.op # "all",
           \A d \in 1..Rank : IsProper(c.op, c.sel[d])
    PROVE  /\ OutShape(c.op, c.sel) \in Coordinates
           /\ \A d \in 1..Rank : /\ OutShape(c.op, c.sel)[d] = Extent(c.op, c.sel[d])
                                 /\ Extent(c.op, c.sel[d]) \in Nat
                                 /\ IsRequest(c.op, c.sel[d])
<1>1. Dims = 1..Rank
  BY DatasetIs
<1>2. \A d \in 1..Rank : IsRequest(c.op, c.sel[d]) /\ Extent(c.op, c.sel[d]) \in Nat
  BY RequestIs, DimensionIs
<1> QED
  BY <1>1, <1>2 DEF OutShape, Coordinates

\* A place of the output of a selection stands for an element in its bounds.
LEMMA SelectedCoordsAre ==
    ASSUME ds \in Dataset, NEW c, Requested(c), c.op # "all",
           \A d \in 1..Rank : IsProper(c.op, c.sel[d]),
           NEW i \in Elements(OutShape(c.op, c.sel))
    PROVE  /\ IsGrid(OutShape(c.op, c.sel), Rank)
           /\ i - 1 \in Nat
           /\ Unflatten(i - 1, OutShape(c.op, c.sel)) \in Coordinates
           /\ Flatten(Unflatten(i - 1, OutShape(c.op, c.sel)), OutShape(c.op, c.sel)) = i - 1
           /\ SelectedCoords(c)[i] \in Coordinates
           /\ \A d \in 1..Rank :
                 LET s == c.sel[d]
                     u == Unflatten(i - 1, OutShape(c.op, c.sel))[d]
                 IN  /\ u \in 0..(Extent(c.op, s) - 1) /\ IsRequest(c.op, s) /\ IsPlain(c.op, s)
                     /\ SelectedCoords(c)[i][d] = Taken(c.op, s, u)
                     /\ Bound(c.op, s).start <= Taken(c.op, s, u)
                     /\ Taken(c.op, s, u) < Bound(c.op, s).end
                     /\ IsSelected(c.op, s, Taken(c.op, s, u))
                     /\ PlaceOf(c.op, s, Taken(c.op, s, u)) = u
<1> DEFINE shape == OutShape(c.op, c.sel)
           v == Unflatten(i - 1, shape)
           n == Rank
<1>1. n \in Nat \ {0} /\ Dims = 1..n
  BY DatasetIs
<1>2. shape \in [1..n -> Nat]
      /\ \A d \in 1..n : shape[d] = Extent(c.op, c.sel[d]) /\ IsRequest(c.op, c.sel[d])
  BY OutShapeIs DEF Coordinates
<1> HIDE DEF shape
<1>3. IsGrid(shape, n)
  <2>1. i \in Elements(shape)
    BY DEF shape
  <2> HIDE DEF n
  <2> QED
    BY <1>1, <1>2, <2>1, HasElements
<1>4. i - 1 \in Nat /\ i - 1 < Volume(shape)
  BY <1>3, ElementsAre DEF shape
<1>5. v \in [1..n -> Nat] /\ (\A d \in 1..n : v[d] < shape[d]) /\ Flatten(v, shape) = i - 1
  BY <1>3, <1>4, FlattenUnflatten
<1>6. SelectedCoords(c)[i] = [d \in 1..n |-> Taken(c.op, c.sel[d], v[d])]
  BY <1>1 DEF SelectedCoords, shape
<1> HIDE DEF v, n
<1>7. ASSUME NEW d \in 1..n
      PROVE  /\ v[d] \in 0..(Extent(c.op, c.sel[d]) - 1) /\ IsPlain(c.op, c.sel[d])
             /\ Taken(c.op, c.sel[d], v[d]) \in Nat
             /\ Bound(c.op, c.sel[d]).start <= Taken(c.op, c.sel[d], v[d])
             /\ Taken(c.op, c.sel[d], v[d]) < Bound(c.op, c.sel[d]).end
             /\ IsSelected(c.op, c.sel[d], Taken(c.op, c.sel[d], v[d]))
             /\ PlaceOf(c.op, c.sel[d], Taken(c.op, c.sel[d], v[d])) = v[d]
  <2> DEFINE s == c.sel[d]
             w == v[d]
  <2>1. IsRequest(c.op, s) /\ IsProper(c.op, s)
    BY <1>2 DEF n
  <2>2. w \in Nat /\ w < Extent(c.op, s) /\ shape[d] \in Nat /\ shape[d] = Extent(c.op, s)
    BY <1>2, <1>5
  <2> HIDE DEF s, w
  <2>3. IsPlain(c.op, s)
    BY <2>1, <2>2, DimensionIs
  <2>4. w \in 0..(Extent(c.op, s) - 1)
    BY <2>2
  <2>5. /\ Taken(c.op, s, w) \in Nat
        /\ Bound(c.op, s).start <= Taken(c.op, s, w) /\ Taken(c.op, s, w) < Bound(c.op, s).end
        /\ IsSelected(c.op, s, Taken(c.op, s, w))
        /\ PlaceOf(c.op, s, Taken(c.op, s, w)) = w
    BY <2>1, <2>2, <2>3, TakenIsSelected
  <2> QED
    BY <2>3, <2>4, <2>5 DEF s, w
<1>8. SelectedCoords(c)[i] \in [1..n -> Nat]
  BY <1>6, <1>7
<1>9. \A d \in 1..n : SelectedCoords(c)[i][d] = Taken(c.op, c.sel[d], v[d])
  BY <1>6
<1> QED
  BY <1>2, <1>3, <1>4, <1>5, <1>7, <1>8, <1>9 DEF shape, v, n, Coordinates

LEMMA WholeCoordsAre ==
    ASSUME ds \in Dataset, NEW i \in Elements(ds.dims)
    PROVE  /\ IsGrid(ds.dims, Rank)
           /\ WholeCoords[i] \in Coordinates
           /\ \A d \in 1..Rank : WholeCoords[i][d] < ds.dims[d]
           /\ Flatten(WholeCoords[i], ds.dims) + 1 = i
           /\ WholeCoords[i] = Unflatten(i - 1, ds.dims)
<1> DEFINE n == Rank
           dims == ds.dims
           v == Unflatten(i - 1, dims)
<1>1. n \in Nat \ {0} /\ dims \in [1..n -> Nat]
  BY DatasetIs DEF Coordinates
<1>2. WholeCoords[i] = v
  BY DEF WholeCoords
<1> HIDE DEF n, dims
<1>3. i \in Elements(dims)
  BY DEF dims
<1>4. IsGrid(dims, n)
  BY <1>1, <1>3, HasElements
<1>5. i \in Nat /\ i - 1 \in Nat /\ i - 1 < Volume(dims)
  BY <1>3, <1>4, ElementsAre
<1>6. v \in [1..n -> Nat] /\ (\A d \in 1..n : v[d] < dims[d]) /\ Flatten(v, dims) = i - 1
  BY <1>4, <1>5, FlattenUnflatten
<1> HIDE DEF v
<1>7. Flatten(v, dims) + 1 = i
  BY <1>5, <1>6
<1> QED
  BY <1>2, <1>4, <1>6, <1>7 DEF n, dims, v, Coordinates

-----------------------------------------------------------------------------
(* Scattering *)

Scattered(out, o, coord) ==
    [i \in DOMAIN out |->
        IF InCell(coord[i], o)
        THEN IF \E rec \in DOMAIN tiles : rec.offsets = o THEN coord[i] ELSE Fill
        ELSE out[i]]

LEMMA ScatterWholeIs ==
    ASSUME ds \in Dataset, ds.chunked, DOMAIN tiles \subseteq Range(ds.records), TilesAreDecoded,
           NEW o, OnGrid(o), DOMAIN output = Elements(ds.dims)
    PROVE  ScatterWhole(o) = Scattered(output, o, WholeCoords)
<1> DEFINE area == Overlap(o, Origin0, ds.dims)
           places == [g \in area |-> Flatten(g, ds.dims) + 1]
<1>1. /\ Dims = 1..Rank /\ ds.dims \in Coordinates /\ Origin0 \in Coordinates
      /\ \A d \in 1..Rank : Origin0[d] = 0
  <2>1. Dims = 1..Rank /\ ds.dims \in Coordinates
    BY DatasetIs
  <2> QED
    BY <2>1 DEF Origin0, Coordinates
<1>2. /\ area \subseteq Coordinates
      /\ \A g \in Coordinates : g \in area <=> InCell(g, o) /\ \A d \in 1..Rank : g[d] < ds.dims[d]
  <2>1. /\ area \subseteq Coordinates
        /\ \A g \in Coordinates :
              g \in area <=> InCell(g, o) /\ \A d \in 1..Rank : Origin0[d] <= g[d] /\ g[d] < ds.dims[d]
    BY <1>1, OverlapIs
  <2>2. \A g \in Coordinates : \A d \in 1..Rank : Origin0[d] <= g[d]
    BY <1>1 DEF Coordinates
  <2> HIDE DEF area
  <2> QED
    BY <2>1, <2>2
<1> HIDE DEF area
<1>3. DOMAIN places = area /\ \A g \in area : places[g] = Flatten(g, ds.dims) + 1
  OBVIOUS
<1>4. ScatterWhole(o) = CopyInto(output, o, places)
  BY DEF ScatterWhole, area
<1> HIDE DEF places
<1>5. ASSUME NEW i \in DOMAIN output, NEW g \in area, places[g] = i
      PROVE  g = WholeCoords[i]
  <2> DEFINE dims == ds.dims
             n == Rank
  <2>1. IsGrid(dims, n) /\ WholeCoords[i] = Unflatten(i - 1, dims)
    BY WholeCoordsAre
  <2>2. g \in [1..n -> Nat] /\ \A d \in 1..n : g[d] < dims[d]
    BY <1>2 DEF Coordinates
  <2>3. i = Flatten(g, dims) + 1
    BY <1>3, <1>5
  <2> HIDE DEF dims, n
  <2>4. Flatten(g, dims) \in Nat /\ Unflatten(Flatten(g, dims), dims) = g
    BY <2>1, <2>2, FlattenWithin
  <2>5. i - 1 = Flatten(g, dims)
    BY <2>3, <2>4
  <2> QED
    BY <2>1, <2>4, <2>5
<1>6. ASSUME NEW i \in DOMAIN output, InCell(WholeCoords[i], o)
      PROVE  WholeCoords[i] \in area /\ places[WholeCoords[i]] = i
  <2>1. /\ WholeCoords[i] \in Coordinates
        /\ \A d \in 1..Rank : WholeCoords[i][d] < ds.dims[d]
        /\ Flatten(WholeCoords[i], ds.dims) + 1 = i
    BY WholeCoordsAre
  <2> QED
    BY <1>2, <1>3, <1>6, <2>1
<1>7. IsScattering(places, o, WholeCoords, DOMAIN output)
  BY <1>2, <1>3, <1>5, <1>6 DEF IsScattering
<1> QED
  BY <1>4, <1>7, CopyIs DEF Scattered

LEMMA ScatterSelectedIs ==
    ASSUME ds \in Dataset, ds.chunked, DOMAIN tiles \subseteq Range(ds.records), TilesAreDecoded,
           Requested(call), call.op # "all", Starts(call),
           \A d \in 1..Rank : IsProper(call.op, call.sel[d]),
           NEW o, OnGrid(o), DOMAIN output = Elements(OutShape(call.op, call.sel))
    PROVE  ScatterSelected(o) = Scattered(output, o, SelectedCoords(call))
<1> DEFINE op == call.op
           sel == call.sel
           bounds == Bounds(op, sel)
           lo == [d \in Dims |-> bounds[d].start]
           hi == [d \in Dims |-> bounds[d].end]
           chosen == {g \in Overlap(o, lo, hi) : \A d \in Dims : IsSelected(op, sel[d], g[d])}
           shape == OutShape(op, sel)
           Place(g) == [d \in Dims |-> PlaceOf(op, sel[d], g[d])]
           places == [g \in chosen |-> Flatten(Place(g), shape) + 1]
           coord == SelectedCoords(call)
<1>1. Dims = 1..Rank
  BY DatasetIs
<1>2. /\ AreBounds(bounds)
      /\ \A d \in 1..Rank : bounds[d] = Bound(op, sel[d])
  BY BoundsAre
<1>3. ScatterSelected(o) = CopyInto(output, o, places)
  BY DEF ScatterSelected
<1> HIDE DEF bounds
<1>4. /\ lo \in Coordinates /\ hi \in Coordinates
      /\ \A d \in 1..Rank : lo[d] = Bound(op, sel[d]).start /\ hi[d] = Bound(op, sel[d]).end
  BY <1>1, <1>2 DEF AreBounds, Coordinates
<1> HIDE DEF lo, hi
<1>5. /\ chosen \subseteq Coordinates
      /\ \A g \in Coordinates :
            g \in chosen <=> /\ InCell(g, o)
                             /\ \A d \in 1..Rank : /\ Bound(op, sel[d]).start <= g[d]
                                                   /\ g[d] < Bound(op, sel[d]).end
                                                   /\ IsSelected(op, sel[d], g[d])
  <2>1. /\ Overlap(o, lo, hi) \subseteq Coordinates
        /\ \A g \in Coordinates :
              g \in Overlap(o, lo, hi) <=>
                  InCell(g, o) /\ \A d \in 1..Rank : lo[d] <= g[d] /\ g[d] < hi[d]
    BY <1>4, OverlapIs
  <2> QED
    BY <1>1, <1>4, <2>1
<1>6. DOMAIN places = chosen /\ \A g \in chosen : places[g] = Flatten(Place(g), shape) + 1
  <2> HIDE DEF chosen, Place
  <2> QED
    OBVIOUS
<1> HIDE DEF chosen, places
<1>7. /\ shape \in Coordinates
      /\ \A d \in 1..Rank : shape[d] = Extent(op, sel[d]) /\ IsRequest(op, sel[d])
  BY OutShapeIs
<1>8. ASSUME NEW i \in DOMAIN output, NEW g \in chosen, places[g] = i
      PROVE  g = coord[i]
  <2> DEFINE u == Place(g)
             n == Rank
  <2>0. i \in Elements(shape)
    OBVIOUS
  <2>1. /\ IsGrid(shape, n)
        /\ coord[i] \in Coordinates
        /\ \A d \in 1..n : /\ IsPlain(op, sel[d])
                           /\ coord[i][d] = Taken(op, sel[d], Unflatten(i - 1, shape)[d])
    BY <2>0, SelectedCoordsAre
  <2>2. ASSUME NEW d \in 1..n
        PROVE  /\ u[d] \in Nat /\ u[d] < shape[d] /\ Taken(op, sel[d], u[d]) = g[d]
    <3>1. g \in Coordinates /\ g[d] \in Nat
      BY <1>5 DEF Coordinates
    <3>2. /\ Bound(op, sel[d]).start <= g[d] /\ g[d] < Bound(op, sel[d]).end
          /\ IsSelected(op, sel[d], g[d])
      BY <1>5, <3>1
    <3>3. IsRequest(op, sel[d]) /\ IsPlain(op, sel[d]) /\ shape[d] = Extent(op, sel[d])
      BY <1>7, <2>1
    <3>4. u[d] = PlaceOf(op, sel[d], g[d])
      BY <1>1
    <3> HIDE DEF u, shape, op, sel
    <3>5. /\ PlaceOf(op, sel[d], g[d]) \in Nat /\ PlaceOf(op, sel[d], g[d]) < Extent(op, sel[d])
          /\ Taken(op, sel[d], PlaceOf(op, sel[d], g[d])) = g[d]
      BY <3>1, <3>2, <3>3, SelectedIsTaken
    <3> QED
      BY <3>3, <3>4, <3>5
  <2>3. u = [d \in 1..n |-> u[d]]
    BY <1>1
  <2> HIDE DEF u
  <2>4. u \in [1..n -> Nat]
    BY <2>2, <2>3
  <2>5. i = Flatten(u, shape) + 1
    BY <1>6, <1>8 DEF u
  <2> HIDE DEF shape, coord
  <2>6. Flatten(u, shape) \in Nat /\ Unflatten(Flatten(u, shape), shape) = u
    <3> HIDE DEF n
    <3> QED
      BY <2>1, <2>2, <2>4, FlattenWithin
  <2>7. i - 1 = Flatten(u, shape)
    BY <2>5, <2>6
  <2>8. \A d \in 1..n : coord[i][d] = g[d]
    BY <2>1, <2>2, <2>6, <2>7
  <2>9. g \in [1..n -> Nat] /\ coord[i] \in [1..n -> Nat]
    BY <1>5, <2>1 DEF Coordinates
  <2> DEFINE f == coord[i]
  <2>10. f \in [1..n -> Nat] /\ \A d \in 1..n : f[d] = g[d]
    BY <2>8, <2>9
  <2> HIDE DEF f, n
  <2>11. f = [d \in 1..n |-> f[d]] /\ g = [d \in 1..n |-> g[d]]
    BY <2>9, <2>10
  <2>12. f = g
    BY <2>10, <2>11
  <2> QED
    BY <2>12 DEF f
<1>9. ASSUME NEW i \in DOMAIN output, InCell(coord[i], o)
      PROVE  coord[i] \in chosen /\ places[coord[i]] = i
  <2> DEFINE u == Unflatten(i - 1, shape)
  <2>0. i \in Elements(shape)
    OBVIOUS
  <2>1. /\ i - 1 \in Nat /\ u \in Coordinates /\ Flatten(u, shape) = i - 1
        /\ coord[i] \in Coordinates
        /\ \A d \in 1..Rank :
              /\ coord[i][d] = Taken(op, sel[d], u[d])
              /\ Bound(op, sel[d]).start <= Taken(op, sel[d], u[d])
              /\ Taken(op, sel[d], u[d]) < Bound(op, sel[d]).end
              /\ IsSelected(op, sel[d], Taken(op, sel[d], u[d]))
              /\ PlaceOf(op, sel[d], Taken(op, sel[d], u[d])) = u[d]
    BY <2>0, SelectedCoordsAre
  <2> HIDE DEF u, coord, op, sel
  <2>2. coord[i] \in chosen
    BY <1>5, <1>9, <2>1
  <2>3. Place(coord[i]) = u
    <3>1. u = [d \in 1..Rank |-> u[d]]
      BY <2>1 DEF Coordinates
    <3>2. \A d \in 1..Rank : PlaceOf(op, sel[d], coord[i][d]) = u[d]
      BY <2>1
    <3> QED
      BY <1>1, <3>1, <3>2
  <2> HIDE DEF Place, shape
  <2>4. i = Flatten(u, shape) + 1
    <3>1. i \in Nat \/ i - 1 \in Nat
      BY <2>1
    <3>2. i \in Nat
      BY <2>0 DEF Elements
    <3> QED
      BY <2>1, <3>2
  <2> QED
    BY <1>6, <2>2, <2>3, <2>4
<1>10. IsScattering(places, o, coord, DOMAIN output)
  <2> HIDE DEF coord
  <2> QED
    BY <1>5, <1>6, <1>8, <1>9 DEF IsScattering
<1> QED
  BY <1>3, <1>10, CopyIs DEF Scattered

-----------------------------------------------------------------------------
(* What a read is meant to return *)

\* All elements of a full read.
LEMMA MeantWhole ==
    ASSUME ds \in Dataset, NEW c, c.op = "all"
    PROVE  Meant(c) = [i \in Elements(ds.dims) |-> ValueAt(WholeCoords[i])]
<1> DEFINE n == Rank
           dims == ds.dims
           indices == [d \in 1..n |-> Ascending(0..(dims[d] - 1))]
           shape == [d \in 1..n |-> Len(indices[d])]
<1>1. n \in Nat \ {0} /\ Dims = 1..n /\ dims \in [1..n -> Nat]
  BY DatasetIs DEF Coordinates
<1>2. SelectedBy(c) = [d \in 1..n |-> 0..(dims[d] - 1)]
  BY <1>1 DEF SelectedBy
<1> HIDE DEF n, dims
<1>3. Meant(c) = [i \in Elements(shape) |->
                     ValueAt([d \in 1..n |-> indices[d][Unflatten(i - 1, shape)[d] + 1]])]
  <2>1. indices = [d \in Dims |-> Ascending(SelectedBy(c)[d])]
    BY <1>1, <1>2
  <2> HIDE DEF indices
  <2>2. DOMAIN indices = 1..n
    BY DEF indices
  <2> QED
    BY <1>1, <2>1 DEF Meant
<1>4. ASSUME NEW d \in 1..n
      PROVE  /\ Len(indices[d]) = dims[d]
             /\ \A u \in Nat : u < dims[d] => indices[d][u + 1] = u
  <2> DEFINE k == dims[d]
             S == 0..(k - 1)
             e == [i \in 1..k |-> i - 1]
  <2>1. k \in Nat
    BY <1>1
  <2> HIDE DEF k
  <2>2. e \in [1..k -> Nat] /\ \A i \in 1..k : e[i] = i - 1
    BY <2>1
  <2>3. S = {e[i] : i \in 1..k}
    <3>1. \A p \in 0..(k - 1) : p + 1 \in 1..k /\ (p + 1) - 1 = p
      BY <2>1
    <3>2. \A i \in 1..k : i - 1 \in 0..(k - 1)
      BY <2>1
    <3> HIDE DEF e
    <3> QED
      BY <2>2, <3>1, <3>2
  <2>4. \A i \in 1..k : \A j \in 1..k : i < j => e[i] < e[j]
    BY <2>1, <2>2
  <2> HIDE DEF e
  <2>5. Ascending(S) = e /\ Len(Ascending(S)) = k
    <3> HIDE DEF S
    <3> QED
      BY <2>1, <2>2, <2>3, <2>4, AscendingIs
  <2>6. indices[d] = Ascending(S)
    BY DEF k
  <2> HIDE DEF indices, S
  <2>7. ASSUME NEW u \in Nat, u < k PROVE indices[d][u + 1] = u
    <3>1. u + 1 \in 1..k /\ (u + 1) - 1 = u
      BY <2>1, <2>7
    <3> QED
      BY <2>2, <2>5, <2>6, <3>1
  <2> QED
    BY <2>5, <2>6, <2>7 DEF k
<1> HIDE DEF indices
<1>5. shape = dims
  <2>1. dims = [d \in 1..n |-> dims[d]]
    BY <1>1
  <2> QED
    BY <1>4, <2>1
<1> HIDE DEF shape
<1>6. ASSUME NEW i \in Elements(dims)
      PROVE  [d \in 1..n |-> indices[d][Unflatten(i - 1, dims)[d] + 1]] = WholeCoords[i]
  <2> DEFINE w == WholeCoords[i]
  <2>1. /\ w \in [1..n -> Nat] /\ \A d \in 1..n : w[d] < dims[d]
        /\ w = Unflatten(i - 1, dims)
    BY WholeCoordsAre DEF n, dims, Coordinates
  <2> HIDE DEF w
  <2>2. w = [d \in 1..n |-> w[d]]
    BY <2>1
  <2>3. \A d \in 1..n : indices[d][w[d] + 1] = w[d]
    BY <1>4, <2>1
  <2> QED
    BY <2>1, <2>2, <2>3 DEF w
<1>7. Meant(c) = [i \in Elements(dims) |-> ValueAt(WholeCoords[i])]
  BY <1>3, <1>5, <1>6
<1> QED
  BY <1>7 DEF dims

\* The elements of a selection without overlong blocks.
LEMMA MeantSelected ==
    ASSUME ds \in Dataset, NEW c, Requested(c), c.op # "all",
           \A d \in 1..Rank : IsProper(c.op, c.sel[d])
    PROVE  Meant(c) = [i \in Elements(OutShape(c.op, c.sel)) |-> ValueAt(SelectedCoords(c)[i])]
<1> DEFINE n == Rank
           op == c.op
           sel == c.sel
           out == OutShape(op, sel)
           indices == [d \in 1..n |-> Ascending(Selected(op, sel[d]))]
           shape == [d \in 1..n |-> Len(indices[d])]
<1>1. n \in Nat \ {0} /\ Dims = 1..n
  BY DatasetIs
<1>2. SelectedBy(c) = [d \in 1..n |-> Selected(op, sel[d])]
  BY <1>1 DEF SelectedBy
<1>3. out \in [1..n -> Nat] /\ \A d \in 1..n : out[d] = Extent(op, sel[d]) /\ IsRequest(op, sel[d])
  BY OutShapeIs DEF Coordinates
<1>4. \A d \in 1..n : IsProper(op, sel[d])
  OBVIOUS
<1> HIDE DEF n, op, sel, out
<1>5. Meant(c) = [i \in Elements(shape) |->
                     ValueAt([d \in 1..n |-> indices[d][Unflatten(i - 1, shape)[d] + 1]])]
  <2>1. indices = [d \in Dims |-> Ascending(SelectedBy(c)[d])]
    BY <1>1, <1>2
  <2> HIDE DEF indices
  <2>2. DOMAIN indices = 1..n
    BY DEF indices
  <2> QED
    BY <1>1, <2>1 DEF Meant
<1>6. ASSUME NEW d \in 1..n
      PROVE  /\ Len(indices[d]) = out[d]
             /\ \A u \in 0..(Extent(op, sel[d]) - 1) : indices[d][u + 1] = Taken(op, sel[d], u)
  <2>1. indices[d] = Ascending(Selected(op, sel[d]))
    OBVIOUS
  <2> HIDE DEF indices
  <2> QED
    BY <1>3, <1>4, <2>1, DimensionIs
<1> HIDE DEF indices
<1>7. shape = out
  <2>1. out = [d \in 1..n |-> out[d]]
    BY <1>3
  <2> QED
    BY <1>6, <2>1
<1> HIDE DEF shape
<1>8. ASSUME NEW i \in Elements(out)
      PROVE  [d \in 1..n |-> indices[d][Unflatten(i - 1, out)[d] + 1]] = SelectedCoords(c)[i]
  <2> DEFINE w == SelectedCoords(c)[i]
             v == Unflatten(i - 1, out)
  <2>1. /\ w \in [1..n -> Nat]
        /\ \A d \in 1..n : v[d] \in 0..(Extent(op, sel[d]) - 1) /\ w[d] = Taken(op, sel[d], v[d])
    BY SelectedCoordsAre DEF n, op, sel, out, Coordinates
  <2> HIDE DEF w, v
  <2>2. w = [d \in 1..n |-> w[d]]
    BY <2>1
  <2>3. \A d \in 1..n : indices[d][v[d] + 1] = w[d]
    BY <1>6, <2>1
  <2> QED
    BY <2>2, <2>3 DEF w, v
<1> QED
  BY <1>5, <1>7, <1>8 DEF out, op, sel

-----------------------------------------------------------------------------
(* The course of a read *)

\* The chunks it scatters, those it decodes, and what the places of its buffer are for.
Origins(c) ==
    IF Lazy(c.op, c.sel) THEN CellsUnder(Bounds(c.op, c.sel))
    ELSE [r \in DOMAIN ds.records |-> ds.records[r].offsets]

Wanted(c) == IF Lazy(c.op, c.sel) THEN RecordsAt(Origins(c)) ELSE Range(ds.records)

Coords(c) == IF Lazy(c.op, c.sel) THEN SelectedCoords(c) ELSE WholeCoords

Untouched(c, i) ==
    IF Lazy(c.op, c.sel) THEN Zero ELSE IF ds.chunked THEN Fill ELSE WholeCoords[i]

\* The buffer after the first k chunks.
Filled(c, k) ==
    [i \in DOMAIN Coords(c) |->
        IF \E j \in 1..k : InCell(Coords(c)[i], Origins(c)[j])
        THEN ValueAt(Coords(c)[i]) ELSE Untouched(c, i)]

Progress(c, k, left, out) ==
    /\ k <= Len(Origins(c))
    /\ left \in Seq(Coordinates)
    /\ Len(left) = Len(Origins(c)) - k
    /\ \A j \in 1..Len(left) : left[j] = Origins(c)[k + j]
    /\ ~OverlongBlocks(c) => out = Filled(c, k)

IsCourse(c) == Requested(c) /\ (Lazy(c.op, c.sel) => Starts(c))

LEMMA ProperIs ==
    ASSUME ds \in Dataset, NEW c, c.op # "all", \A d \in Dims : Valid(c.op, c.sel[d]),
           ~OverlongBlocks(c)
    PROVE  \A d \in 1..Rank : IsProper(c.op, c.sel[d])
<1>1. Dims = 1..Rank
  BY DatasetIs
<1> QED
  BY <1>1 DEF OverlongBlocks, IsProper

LEMMA OriginsAre ==
    ASSUME ds \in Dataset, NEW c, IsCourse(c)
    PROVE  /\ Origins(c) \in Seq(Coordinates)
           /\ ds.chunked => \A j \in 1..Len(Origins(c)) : OnGrid(Origins(c)[j])
           /\ ~ds.chunked => Len(Origins(c)) = 0
           /\ Wanted(c) \subseteq Range(ds.records)
           /\ \A j \in 1..Len(Origins(c)) : \A rec \in Range(ds.records) :
                  rec.offsets = Origins(c)[j] => rec \in Wanted(c)
<1>1. CASE Lazy(c.op, c.sel)
  <2> DEFINE origins == CellsUnder(Bounds(c.op, c.sel))
  <2>1. ds.chunked /\ c.op # "all" /\ Requested(c) /\ Starts(c)
    BY <1>1 DEF Lazy, IsCourse
  <2>2. AreBounds(Bounds(c.op, c.sel))
    BY <2>1, BoundsAre
  <2>3. origins \in Seq(Coordinates) /\ \A j \in DOMAIN origins : OnGrid(origins[j])
    BY <2>1, <2>2, CellsUnderAre
  <2>4. Origins(c) = origins /\ Wanted(c) = RecordsAt(origins)
    BY <1>1 DEF Origins, Wanted
  <2> HIDE DEF origins
  <2>5. DOMAIN origins = 1..Len(origins)
    BY <2>3, LenProperties
  <2>6. \A j \in 1..Len(origins) : origins[j] \in Range(origins)
    BY <2>5 DEF Range
  <2> QED
    BY <2>1, <2>3, <2>4, <2>5, <2>6 DEF RecordsAt
<1>2. CASE ~Lazy(c.op, c.sel)
  <2> DEFINE records == ds.records
             origins == [r \in DOMAIN records |-> records[r].offsets]
             m == Len(records)
  <2>1. records \in Seq([offsets : Seq(Nat), readable : BOOLEAN])
    BY DatasetIs
  <2>2. m \in Nat /\ DOMAIN records = 1..m
    BY <2>1, LenProperties
  <2>3. Origins(c) = origins /\ Wanted(c) = Range(records)
    BY <1>2 DEF Origins, Wanted
  <2>4. CASE ds.chunked
    <3>1. \A r \in 1..m : records[r] \in Range(ds.records)
      BY <2>2 DEF Range
    <3>2. \A r \in 1..m : OnGrid(records[r].offsets)
      BY <2>4, <3>1, DatasetIs
    <3>3. origins \in [1..m -> Coordinates] /\ \A r \in 1..m : OnGrid(origins[r])
      BY <2>2, <3>2 DEF OnGrid
    <3> HIDE DEF origins, m
    <3>4. origins \in Seq(Coordinates)
      BY <2>2, <3>3, SeqDef
    <3>5. DOMAIN origins = 1..Len(origins) /\ Len(origins) \in Nat
      BY <3>4, LenProperties
    <3>6. 1..Len(origins) = 1..m
      BY <3>3, <3>5
    <3> QED
      BY <2>3, <2>4, <3>3, <3>4, <3>6
  <2>5. CASE ~ds.chunked
    <3>1. records = <<>>
      BY <2>5, DatasetIs
    <3>2. DOMAIN records = 1..0 /\ Range(records) = {}
      BY <3>1 DEF Range
    <3>3. origins \in [1..0 -> Coordinates]
      BY <3>2
    <3> HIDE DEF origins, records
    <3>4. origins \in Seq(Coordinates)
      BY <3>3, SeqDef
    <3>5. DOMAIN origins = 1..Len(origins) /\ Len(origins) \in Nat /\ DOMAIN origins = 1..0
      BY <3>3, <3>4, LenProperties
    <3>6. Len(origins) = 0
      BY <3>5
    <3> QED
      BY <2>3, <2>5, <3>2, <3>4, <3>6 DEF records
  <2> QED
    BY <2>4, <2>5
<1> QED
  BY <1>1, <1>2

LEMMA CoordsAre ==
    ASSUME ds \in Dataset, NEW c, IsCourse(c), ~OverlongBlocks(c)
    PROVE  /\ DOMAIN Coords(c) = IF Lazy(c.op, c.sel) THEN Elements(OutShape(c.op, c.sel))
                                 ELSE Elements(ds.dims)
           /\ \A i \in DOMAIN Coords(c) : Coords(c)[i] \in Coordinates
<1>1. CASE Lazy(c.op, c.sel)
  <2>1. c.op # "all" /\ Requested(c) /\ \A d \in Dims : Valid(c.op, c.sel[d])
    BY <1>1 DEF Lazy, IsCourse, Starts
  <2>2. \A d \in 1..Rank : IsProper(c.op, c.sel[d])
    BY <2>1, ProperIs
  <2>3. \A i \in Elements(OutShape(c.op, c.sel)) : SelectedCoords(c)[i] \in Coordinates
    BY <2>1, <2>2, SelectedCoordsAre
  <2>4. Coords(c) = SelectedCoords(c)
    BY <1>1 DEF Coords
  <2>5. DOMAIN SelectedCoords(c) = Elements(OutShape(c.op, c.sel))
    BY DEF SelectedCoords
  <2> QED
    BY <1>1, <2>3, <2>4, <2>5
<1>2. CASE ~Lazy(c.op, c.sel)
  <2>1. \A i \in Elements(ds.dims) : WholeCoords[i] \in Coordinates
    BY WholeCoordsAre
  <2>2. Coords(c) = WholeCoords
    BY <1>2 DEF Coords
  <2>3. DOMAIN WholeCoords = Elements(ds.dims)
    BY DEF WholeCoords
  <2> QED
    BY <1>2, <2>1, <2>2, <2>3
<1> QED
  BY <1>1, <1>2

\* One more chunk scattered.
LEMMA ScatterFills ==
    ASSUME ds \in Dataset, IsCourse(call), ~OverlongBlocks(call),
           DOMAIN tiles = Wanted(call), TilesAreDecoded,
           NEW k \in Nat, k < Len(Origins(call)), output = Filled(call, k),
           NEW o, o = Origins(call)[k + 1]
    PROVE  (IF Lazy(call.op, call.sel) THEN ScatterSelected(o) ELSE ScatterWhole(o))
               = Filled(call, k + 1)
<1>1. /\ Len(Origins(call)) \in Nat /\ ds.chunked /\ OnGrid(o)
      /\ DOMAIN tiles \subseteq Range(ds.records)
      /\ \A rec \in Range(ds.records) : rec.offsets = o => rec \in Wanted(call)
  <2>1. Origins(call) \in Seq(Coordinates)
    BY OriginsAre
  <2>2. Len(Origins(call)) \in Nat
    BY <2>1, LenProperties
  <2>3. k + 1 \in 1..Len(Origins(call)) /\ Len(Origins(call)) # 0
    BY <2>2
  <2> QED
    BY <2>2, <2>3, OriginsAre
<1>2. DOMAIN output = DOMAIN Coords(call)
  BY DEF Filled
<1>3. (IF Lazy(call.op, call.sel) THEN ScatterSelected(o) ELSE ScatterWhole(o))
          = Scattered(output, o, Coords(call))
  <2>1. CASE Lazy(call.op, call.sel)
    <3>1. call.op # "all" /\ Requested(call) /\ Starts(call)
      BY <2>1 DEF Lazy, IsCourse
    <3>2. \A d \in Dims : Valid(call.op, call.sel[d])
      BY <3>1 DEF Starts
    <3>3. \A d \in 1..Rank : IsProper(call.op, call.sel[d])
      BY <3>1, <3>2, ProperIs
    <3>4. DOMAIN output = Elements(OutShape(call.op, call.sel))
      BY <1>2, <2>1, CoordsAre
    <3>5. ScatterSelected(o) = Scattered(output, o, SelectedCoords(call))
      BY <1>1, <3>1, <3>3, <3>4, ScatterSelectedIs
    <3> QED
      BY <2>1, <3>5 DEF Coords
  <2>2. CASE ~Lazy(call.op, call.sel)
    <3>1. DOMAIN output = Elements(ds.dims)
      BY <1>2, <2>2, CoordsAre
    <3>2. ScatterWhole(o) = Scattered(output, o, WholeCoords)
      BY <1>1, <3>1, ScatterWholeIs
    <3> QED
      BY <2>2, <3>2 DEF Coords
  <2> QED
    BY <2>1, <2>2
<1> DEFINE Chunk(i) == IF \E rec \in DOMAIN tiles : rec.offsets = o THEN Coords(call)[i] ELSE Fill
           Before(i) == \E j \in 1..k : InCell(Coords(call)[i], Origins(call)[j])
           Now(i) == InCell(Coords(call)[i], o)
           After(i) == \E j \in 1..(k + 1) : InCell(Coords(call)[i], Origins(call)[j])
           Value(i) == ValueAt(Coords(call)[i])
<1>4. ASSUME NEW i \in DOMAIN Coords(call), Now(i) PROVE Chunk(i) = Value(i)
  <2>1. Coords(call)[i] \in Coordinates
    BY CoordsAre
  <2>2. Value(i) = IF \E rec \in Range(ds.records) : rec.offsets = o THEN Coords(call)[i] ELSE Fill
    BY <1>1, <1>4, <2>1, ValueIs
  <2>3. (\E rec \in DOMAIN tiles : rec.offsets = o) <=> \E rec \in Range(ds.records) : rec.offsets = o
    BY <1>1
  <2> QED
    BY <2>2, <2>3
<1>5. \A i : After(i) <=> Before(i) \/ Now(i)
  <2>1. \A j : j \in 1..(k + 1) <=> j \in 1..k \/ j = k + 1
    OBVIOUS
  <2> QED
    BY <2>1
<1>6. Scattered(output, o, Coords(call)) =
          [i \in DOMAIN Coords(call) |-> IF Now(i) THEN Chunk(i) ELSE output[i]]
  BY <1>2 DEF Scattered
<1>7. \A i \in DOMAIN Coords(call) : output[i] = IF Before(i) THEN Value(i) ELSE Untouched(call, i)
  BY DEF Filled
<1>8. Filled(call, k + 1) =
          [i \in DOMAIN Coords(call) |-> IF After(i) THEN Value(i) ELSE Untouched(call, i)]
  BY DEF Filled
<1> HIDE DEF Chunk, Before, Now, After, Value
<1>9. \A i \in DOMAIN Coords(call) :
          (IF Now(i) THEN Chunk(i) ELSE output[i]) = IF After(i) THEN Value(i) ELSE Untouched(call, i)
  BY <1>4, <1>5, <1>7
<1> QED
  BY <1>3, <1>6, <1>8, <1>9

\* All of them scattered: every place has the value of its element.
LEMMA FilledAtLast ==
    ASSUME ds \in Dataset, NEW c, IsCourse(c), ~OverlongBlocks(c)
    PROVE  Filled(c, Len(Origins(c))) = [i \in DOMAIN Coords(c) |-> ValueAt(Coords(c)[i])]
<1>1. /\ Origins(c) \in Seq(Coordinates) /\ Len(Origins(c)) \in Nat
      /\ DOMAIN Origins(c) = 1..Len(Origins(c))
  <2>1. Origins(c) \in Seq(Coordinates)
    BY OriginsAre
  <2> QED
    BY <2>1, LenProperties
<1>2. ASSUME NEW i \in DOMAIN Coords(c),
             ~\E j \in 1..Len(Origins(c)) : InCell(Coords(c)[i], Origins(c)[j])
      PROVE  ValueAt(Coords(c)[i]) = Untouched(c, i)
  <2> DEFINE g == Coords(c)[i]
  <2>1. g \in Coordinates
    BY CoordsAre
  <2>2. CASE Lazy(c.op, c.sel)
    <3>1. ds.chunked /\ c.op # "all" /\ Requested(c) /\ Starts(c)
      BY <2>2 DEF Lazy, IsCourse
    <3>2. \A d \in Dims : Valid(c.op, c.sel[d])
      BY <3>1 DEF Starts
    <3>3. \A d \in 1..Rank : IsProper(c.op, c.sel[d])
      BY <3>1, <3>2, ProperIs
    <3> DEFINE bounds == Bounds(c.op, c.sel)
               o == [d \in 1..Rank |-> CellOf(g[d], d)]
    <3>4. OnGrid(o) /\ InCell(g, o)
      BY <2>1, <3>1, CellIsOnGrid
    <3>5. AreBounds(bounds) /\ \A d \in 1..Rank : bounds[d] = Bound(c.op, c.sel[d])
      BY <3>1, BoundsAre
    <3>6. i \in Elements(OutShape(c.op, c.sel)) /\ g = SelectedCoords(c)[i]
      BY <2>2, CoordsAre DEF Coords
    <3>7. \A d \in 1..Rank : bounds[d].start <= g[d] /\ g[d] < bounds[d].end
      BY <3>1, <3>3, <3>5, <3>6, SelectedCoordsAre
    <3> HIDE DEF g, o, bounds
    <3>8. \A d \in 1..Rank : o[d] <= g[d] /\ g[d] < o[d] + ds.chunk_dims[d]
      BY <2>1, <3>1, <3>4, InCellIs
    <3>9. ASSUME NEW d \in 1..Rank
          PROVE  Larger(bounds[d].start, o[d]) < Smaller(bounds[d].end, o[d] + ds.chunk_dims[d])
      <4>1. /\ g[d] \in Nat /\ o[d] \in Nat /\ ds.chunk_dims[d] \in Nat
            /\ bounds[d].start \in Nat /\ bounds[d].end \in Nat
        BY <2>1, <3>1, <3>4, <3>5, DatasetIs DEF OnGrid, Coordinates, AreBounds
      <4> QED
        BY <3>7, <3>8, <4>1 DEF Larger, Smaller
    <3>10. \E j \in DOMAIN CellsUnder(bounds) : CellsUnder(bounds)[j] = o
      BY <3>1, <3>4, <3>5, <3>9, CellsUnderAre
    <3>11. \E j \in 1..Len(Origins(c)) : Origins(c)[j] = o
      BY <1>1, <2>2, <3>10 DEF Origins, bounds
    <3> QED
      BY <1>2, <3>4, <3>11 DEF g
  <2>3. CASE ~Lazy(c.op, c.sel) /\ ds.chunked
    <3>1. Origins(c) = [r \in DOMAIN ds.records |-> ds.records[r].offsets]
      BY <2>3 DEF Origins
    <3>2. Dims = 1..Rank
      BY DatasetIs
    <3>3. ASSUME NEW rec \in Range(ds.records), \A d \in Dims : CellOf(g[d], d) = rec.offsets[d]
          PROVE  FALSE
      <4>1. PICK r \in DOMAIN ds.records : rec = ds.records[r]
        BY DEF Range
      <4>2. r \in 1..Len(Origins(c)) /\ Origins(c)[r] = rec.offsets
        BY <1>1, <3>1, <4>1
      <4>3. InCell(g, Origins(c)[r])
        BY <3>2, <3>3, <4>2 DEF InCell
      <4> QED
        BY <1>2, <4>2, <4>3
    <3>4. ValueAt(g) = Fill
      BY <2>3, <3>3 DEF ValueAt
    <3> QED
      BY <2>3, <3>4 DEF Untouched
  <2>4. CASE ~Lazy(c.op, c.sel) /\ ~ds.chunked
    <3>1. ValueAt(g) = g
      BY <2>4 DEF ValueAt
    <3>2. Untouched(c, i) = WholeCoords[i] /\ g = WholeCoords[i]
      BY <2>4 DEF Untouched, Coords
    <3> QED
      BY <3>1, <3>2
  <2> QED
    BY <2>2, <2>3, <2>4
<1> QED
  BY <1>2 DEF Filled

\* The damage a read can meet is in the chunks it decodes.
LEMMA DamageIs ==
    ASSUME ds \in Dataset, NEW c, IsCourse(c), Sensible(c)
    PROVE  UnderDamage(c) <=> \E rec \in Wanted(c) : ~rec.readable
<1> DEFINE bounds == [d \in Dims |-> IF c.op = "all" THEN [start |-> 0, end |-> ds.dims[d]]
                                                     ELSE Bound(c.op, c.sel[d])]
           lo == [d \in Dims |-> bounds[d].start]
           hi == [d \in Dims |-> bounds[d].end]
<1>1. UnderDamage(c) <=> /\ c.op = "all" \/ ~Nothing(c.op, c.sel)
                         /\ \E rec \in Range(ds.records) :
                                ~rec.readable /\ Overlap(rec.offsets, lo, hi) # {}
  BY DEF UnderDamage
<1>2. Dims = 1..Rank /\ ds.dims \in Coordinates
  BY DatasetIs
<1>3. CASE ~ds.chunked
  <2>1. Range(ds.records) = {}
    BY <1>3, DatasetIs DEF Range
  <2>2. Wanted(c) = {}
    BY <2>1, OriginsAre
  <2> QED
    BY <1>1, <2>1, <2>2
<1>4. CASE ds.chunked /\ c.op = "all"
  <2>1. Wanted(c) = Range(ds.records)
    BY <1>4 DEF Wanted, Lazy
  <2>2. lo \in Coordinates /\ hi \in Coordinates /\ \A d \in 1..Rank : lo[d] = 0 /\ hi[d] = ds.dims[d]
    BY <1>2, <1>4 DEF Coordinates
  <2> HIDE DEF lo, hi
  <2>3. ASSUME NEW rec \in Range(ds.records) PROVE Overlap(rec.offsets, lo, hi) # {}
    <3> DEFINE o == rec.offsets
    <3>1. OnGrid(o) /\ \A d \in 1..Rank : o[d] < ds.dims[d]
      BY <1>4, DatasetIs
    <3> HIDE DEF o
    <3>2. ASSUME NEW d \in 1..Rank
          PROVE  Larger(lo[d], o[d]) < Smaller(hi[d], o[d] + ds.chunk_dims[d])
      <4>1. /\ o[d] \in Nat /\ ds.chunk_dims[d] \in Nat \ {0} /\ o[d] < ds.dims[d]
            /\ ds.dims[d] \in Nat /\ lo[d] = 0 /\ hi[d] = ds.dims[d]
        BY <1>2, <1>4, <2>2, <3>1, DatasetIs DEF OnGrid, Coordinates
      <4> QED
        BY <4>1 DEF Larger, Smaller
    <3>3. Overlap(o, lo, hi) # {}
      BY <1>4, <2>2, <3>1, <3>2, OverlapIs
    <3> QED
      BY <3>3 DEF o
  <2> QED
    BY <1>1, <1>4, <2>1, <2>3
<1>5. CASE ds.chunked /\ c.op # "all"
  <2>1. Lazy(c.op, c.sel)
    BY <1>5 DEF Lazy, Sensible
  <2>2. Requested(c) /\ Starts(c) /\ ~Nothing(c.op, c.sel)
    BY <2>1 DEF IsCourse, Starts
  <2> DEFINE b == Bounds(c.op, c.sel)
  <2>3. AreBounds(b) /\ \A d \in 1..Rank : b[d] = Bound(c.op, c.sel[d])
    BY <1>5, <2>2, BoundsAre
  <2>4. \A d \in 1..Rank : bounds[d] = b[d]
    BY <1>2, <1>5, <2>3
  <2> HIDE DEF bounds
  <2>5. /\ lo \in Coordinates /\ hi \in Coordinates
        /\ \A d \in 1..Rank : lo[d] = b[d].start /\ hi[d] = b[d].end
    BY <1>2, <2>3, <2>4 DEF AreBounds, Coordinates
  <2> HIDE DEF lo, hi
  <2>6. Wanted(c) = RecordsAt(CellsUnder(b))
    BY <2>1 DEF Wanted, Origins
  <2> HIDE DEF b
  <2>7. ASSUME NEW rec \in Range(ds.records)
        PROVE  rec \in Wanted(c) <=> Overlap(rec.offsets, lo, hi) # {}
    <3>1. OnGrid(rec.offsets)
      BY <1>5, DatasetIs
    <3>2. rec \in Wanted(c) <=> \E j \in DOMAIN CellsUnder(b) : CellsUnder(b)[j] = rec.offsets
      BY <2>6 DEF RecordsAt, Range
    <3>3. rec \in Wanted(c) <=>
              \A d \in 1..Rank : Larger(b[d].start, rec.offsets[d])
                                     < Smaller(b[d].end, rec.offsets[d] + ds.chunk_dims[d])
      BY <1>5, <2>3, <3>1, <3>2, CellsUnderAre
    <3>4. Overlap(rec.offsets, lo, hi) # {} <=>
              \A d \in 1..Rank : Larger(lo[d], rec.offsets[d])
                                     < Smaller(hi[d], rec.offsets[d] + ds.chunk_dims[d])
      BY <1>5, <2>5, <3>1, OverlapIs
    <3> QED
      BY <2>5, <3>3, <3>4
  <2>8. Wanted(c) \subseteq Range(ds.records)
    BY OriginsAre
  <2> QED
    BY <1>1, <2>2, <2>7, <2>8
<1> QED
  BY <1>3, <1>4, <1>5

-----------------------------------------------------------------------------
(* The invariant: what is decoded, what is scattered and what is left *)

LoadInv ==
    /\ IsCourse(call)
    /\ waiting \subseteq Wanted(call)
    /\ DOMAIN tiles = Wanted(call) \ waiting
    /\ TilesAreDecoded
    /\ \A rec \in DOMAIN tiles : rec.readable
    /\ \E k \in Nat : Progress(call, k, cells, output)

ReadInv ==
    /\ ds \in Dataset
    /\ phase = "load" => LoadInv
    /\ ReadsAreExact

\* An answer that is right about the elements and about the damage.
Right(c, a) ==
    Sensible(c) =>
        /\ a.ok <=> ~UnderDamage(c)
        /\ a.ok /\ ~OverlongBlocks(c) => a.data = Meant(c)

\* A step changes no dataset, and so nothing that depends on it and the call only.
LEMMA CourseStays ==
    ASSUME ds' = ds, NEW c, call' = c
    PROVE  /\ IsCourse(call)' <=> IsCourse(c)
           /\ Wanted(call)' = Wanted(c)
           /\ Origins(call)' = Origins(c)
           /\ Coordinates' = Coordinates
           /\ OverlongBlocks(call)' <=> OverlongBlocks(c)
           /\ \A k : Filled(call, k)' = Filled(c, k)
<1>1. Lazy(call.op, call.sel)' <=> Lazy(c.op, c.sel)
  BY DEF Lazy, InBounds, Bound, IsEmpty, Dims
<1>2. Requested(call)' <=> Requested(c)
  BY DEF Requested, Rank
<1>3. Starts(call)' <=> Starts(c)
  BY DEF Starts, Nothing, Valid, IsEmpty, Dims
<1>4. Origins(call)' = Origins(c)
  <2>1. CellsUnder(Bounds(call.op, call.sel))' = CellsUnder(Bounds(c.op, c.sel))
    BY DEF CellsUnder, Bounds, Bound, CellOf, Dims
  <2> QED
    BY <1>1, <2>1 DEF Origins
<1>5. Wanted(call)' = Wanted(c)
  BY <1>1, <1>4 DEF Wanted, RecordsAt
<1>6. Coords(call)' = Coords(c) /\ WholeCoords' = WholeCoords
  <2>1. SelectedCoords(call)' = SelectedCoords(c)
    BY DEF SelectedCoords, OutShape, Dims
  <2>2. WholeCoords' = WholeCoords
    BY DEF WholeCoords
  <2> QED
    BY <1>1, <2>1, <2>2 DEF Coords
<1>7. \A i : Untouched(call, i)' = Untouched(c, i)
  BY <1>1, <1>6 DEF Untouched
<1>8. \A g, o : InCell(g, o)' <=> InCell(g, o)
  BY DEF InCell, CellOf, Rank
<1>9. \A g : ValueAt(g)' = ValueAt(g)
  BY DEF ValueAt, CellOf, Dims
<1>10. \A k : Filled(call, k)' = Filled(c, k)
  BY <1>4, <1>6, <1>7, <1>8, <1>9 DEF Filled
<1>11. Coordinates' = Coordinates
  BY DEF Coordinates, Rank
<1>12. OverlongBlocks(call)' <=> OverlongBlocks(c)
  BY DEF OverlongBlocks, Dims
<1> QED
  BY <1>1, <1>2, <1>3, <1>4, <1>5, <1>10, <1>11, <1>12 DEF IsCourse

LEMMA MeaningStays ==
    ASSUME ds' = ds, NEW c, call' = c
    PROVE  /\ Meant(call)' = Meant(c)
           /\ Sensible(call)' <=> Sensible(c)
           /\ UnderDamage(call)' <=> UnderDamage(c)
           /\ OverlongBlocks(call)' <=> OverlongBlocks(c)
<1>1. Meant(call)' = Meant(c)
  BY DEF Meant, SelectedBy, ValueAt, CellOf, Dims
<1>2. Sensible(call)' <=> Sensible(c)
  BY DEF Sensible, Disjoint, Dims, InBounds
<1>3. UnderDamage(call)' <=> UnderDamage(c)
  BY DEF UnderDamage, Nothing, Dims, Overlap
<1>4. OverlongBlocks(call)' <=> OverlongBlocks(c)
  BY DEF OverlongBlocks, Dims
<1> QED
  BY <1>1, <1>2, <1>3, <1>4

\* What a load has to keep, and an answer to be.
LEMMA LoadKeeps ==
    ASSUME ds \in Dataset, ds' = ds, NEW c, call' = c, phase' = "load", IsCourse(c),
           waiting' \subseteq Wanted(c), DOMAIN tiles' = Wanted(c) \ waiting', TilesAreDecoded',
           \A rec \in DOMAIN tiles' : rec.readable,
           NEW k \in Nat, Progress(c, k, cells', output')
    PROVE  ReadInv'
<1>1. /\ IsCourse(call)' <=> IsCourse(c)
      /\ Wanted(call)' = Wanted(c)
      /\ Progress(call, k, cells, output)' <=> Progress(c, k, cells', output')
  <2>1. Progress(call, k, cells, output)' <=> Progress(c, k, cells', output')
    BY CourseStays DEF Progress
  <2> QED
    BY <2>1, CourseStays
<1>2. LoadInv'
  BY <1>1 DEF LoadInv
<1>3. ~Returned'
  BY DEF Returned
<1> QED
  BY <1>2, <1>3 DEF ReadInv, ReadsAreExact, AnswersAreExact, FailsIffDamaged

LEMMA AnswerKeeps ==
    ASSUME ds \in Dataset, NEW c, call' = c, NEW a, Answer(a), Right(c, a)
    PROVE  ReadInv'
<1>1. ds' = ds /\ phase' = "returned" /\ returned' = a
  BY DEF Answer
<1>2. /\ Meant(call)' = Meant(c)
      /\ Sensible(call)' <=> Sensible(c)
      /\ UnderDamage(call)' <=> UnderDamage(c)
      /\ OverlongBlocks(call)' <=> OverlongBlocks(c)
  BY <1>1, MeaningStays
<1>3. AnswersAreExact' /\ FailsIffDamaged'
  BY <1>1, <1>2 DEF AnswersAreExact, FailsIffDamaged, Right
<1> QED
  BY <1>1, <1>3 DEF ReadInv, ReadsAreExact

-----------------------------------------------------------------------------
(* The first step of a read *)

LEMMA StartKeeps ==
    ASSUME ds \in Dataset, NEW op, NEW sel, NEW c, c = [op |-> op, sel |-> sel], IsCourse(c),
           NEW records, NEW origins, NEW buffer, Start(op, sel, records, origins, buffer),
           records = Wanted(c), origins = Origins(c),
           ~OverlongBlocks(c) => buffer = [i \in DOMAIN Coords(c) |-> Untouched(c, i)]
    PROVE  ReadInv'
<1>1. /\ ds' = ds /\ call' = c /\ phase' = "load" /\ waiting' = Wanted(c)
      /\ tiles' = [rec \in {} |-> <<>>] /\ cells' = Origins(c) /\ output' = buffer
  BY DEF Start
<1>2. DOMAIN tiles' = {} /\ TilesAreDecoded'
  BY <1>1 DEF TilesAreDecoded
<1>3. Filled(c, 0) = [i \in DOMAIN Coords(c) |-> Untouched(c, i)]
  <2>1. 1..0 = {}
    OBVIOUS
  <2> QED
    BY <2>1 DEF Filled
<1>4. Origins(c) \in Seq(Coordinates) /\ Len(Origins(c)) \in Nat
  BY OriginsAre, LenProperties
<1>5. Progress(c, 0, cells', output')
  <2>1. 0 <= Len(Origins(c)) /\ Len(Origins(c)) = Len(Origins(c)) - 0
    BY <1>4
  <2>2. \A j \in 1..Len(Origins(c)) : Origins(c)[j] = Origins(c)[0 + j]
    <3>1. \A j \in 1..Len(Origins(c)) : 0 + j = j
      BY <1>4
    <3> QED
      BY <3>1
  <2> QED
    BY <1>1, <1>3, <1>4, <2>1, <2>2 DEF Progress
<1>6. waiting' \subseteq Wanted(c) /\ DOMAIN tiles' = Wanted(c) \ waiting'
  BY <1>1, <1>2
<1>7. 0 \in Nat /\ \A rec \in DOMAIN tiles' : rec.readable
  BY <1>2
<1> QED
  BY <1>1, <1>2, <1>5, <1>6, <1>7, LoadKeeps

LEMMA WholeStarts ==
    ASSUME ReadInv, NEW op, NEW sel, Requested([op |-> op, sel |-> sel]), ReadWhole(op, sel)
    PROVE  ReadInv'
<1> DEFINE c == [op |-> op, sel |-> sel]
<1>1. ds \in Dataset /\ c.op = op /\ c.sel = sel /\ ~Lazy(c.op, c.sel)
  BY DEF ReadInv, ReadWhole
<1>2. Requested(c) /\ c = [op |-> op, sel |-> sel]
  OBVIOUS
<1> HIDE DEF c
<1>3. IsCourse(c)
  BY <1>1, <1>2 DEF IsCourse
<1>4. /\ Wanted(c) = Range(ds.records)
      /\ Origins(c) = [r \in DOMAIN ds.records |-> ds.records[r].offsets]
      /\ Coords(c) = WholeCoords
      /\ DOMAIN Coords(c) = Elements(ds.dims)
  BY <1>1 DEF Wanted, Origins, Coords, WholeCoords
<1>5. CASE ds.chunked
  <2>1. \A i : Untouched(c, i) = Fill
    BY <1>1, <1>5 DEF Untouched
  <2>2. [i \in Elements(ds.dims) |-> Fill] = [i \in DOMAIN Coords(c) |-> Untouched(c, i)]
    BY <1>4, <2>1
  <2>3. Start(op, sel, Wanted(c), Origins(c), [i \in Elements(ds.dims) |-> Fill])
    BY <1>4, <1>5 DEF ReadWhole
  <2> QED
    BY <1>1, <1>2, <1>3, <2>2, <2>3, StartKeeps
<1>6. CASE ~ds.chunked
  <2>1. \A i : Untouched(c, i) = WholeCoords[i]
    BY <1>1, <1>6 DEF Untouched
  <2>2. ASSUME NEW i \in Elements(ds.dims) PROVE At(Origin0, ds.dims, i) = WholeCoords[i]
    <3> DEFINE n == Rank
               dims == ds.dims
               w == WholeCoords[i]
               o == Origin0
    <3>1. o \in [1..n -> Nat] /\ \A d \in 1..n : o[d] = 0
      BY <1>1, DatasetIs DEF Origin0
    <3>2. IsGrid(dims, n) /\ w \in [1..n -> Nat] /\ w = Unflatten(i - 1, dims)
      BY <1>1, WholeCoordsAre DEF Coordinates
    <3>3. i \in Elements(dims)
      OBVIOUS
    <3> HIDE DEF n, dims, w, o
    <3>4. /\ At(o, dims, i) \in [1..n -> Nat]
          /\ Unflatten(i - 1, dims) \in [1..n -> Nat]
          /\ \A d \in 1..n : /\ At(o, dims, i)[d] = o[d] + Unflatten(i - 1, dims)[d]
                             /\ Unflatten(i - 1, dims)[d] < dims[d]
      <4>1. IsGrid(dims, n) /\ o \in [1..n -> Nat]
        BY <3>1, <3>2
      <4> QED
        BY <3>3, <4>1, AtIs
    <3>5. \A d \in 1..n : At(o, dims, i)[d] = o[d] + w[d]
      BY <3>2, <3>4
    <3> DEFINE a == At(o, dims, i)
    <3>6. a \in [1..n -> Nat] /\ \A d \in 1..n : a[d] = o[d] + w[d]
      BY <3>4, <3>5
    <3> HIDE DEF a
    <3>7. ASSUME NEW d \in 1..n PROVE a[d] = w[d]
      <4>1. o[d] = 0 /\ w[d] \in Nat /\ a[d] = o[d] + w[d]
        BY <3>1, <3>2, <3>6
      <4> QED
        BY <4>1
    <3>8. a = [d \in 1..n |-> a[d]] /\ w = [d \in 1..n |-> w[d]]
      BY <3>2, <3>6
    <3>9. a = w
      BY <3>7, <3>8
    <3> QED
      BY <3>9 DEF a, o, dims, w
  <2>3. [i \in Elements(ds.dims) |-> At(Origin0, ds.dims, i)]
            = [i \in DOMAIN Coords(c) |-> Untouched(c, i)]
    BY <1>4, <2>1, <2>2
  <2>4. Wanted(c) = {} /\ Origins(c) = <<>>
    <3>1. Range(ds.records) = {} /\ ds.records = <<>>
      BY <1>1, <1>6, DatasetIs DEF Range
    <3>2. Origins(c) \in Seq(Coordinates) /\ Len(Origins(c)) = 0
      BY <1>1, <1>3, <1>6, OriginsAre
    <3>3. Origins(c) = <<>>
      BY <3>2, EmptySeq
    <3> QED
      BY <1>4, <3>1, <3>3
  <2>5. Start(op, sel, Wanted(c), Origins(c), [i \in Elements(ds.dims) |-> At(Origin0, ds.dims, i)])
    BY <1>6, <2>4 DEF ReadWhole
  <2> QED
    BY <1>1, <1>2, <1>3, <2>3, <2>5, StartKeeps
<1> QED
  BY <1>5, <1>6

\* A function of no places is the empty sequence.
LEMMA NoPlaces ==
    ASSUME NEW f, DOMAIN f = 1..0, f = [i \in DOMAIN f |-> f[i]]
    PROVE  f = <<>>
<1>1. f \in [1..0 -> {}]
  OBVIOUS
<1>2. f \in Seq({})
  BY <1>1, SeqDef
<1>3. Len(f) \in Nat /\ DOMAIN f = 1..Len(f)
  BY <1>2, LenProperties
<1>4. Len(f) = 0
  BY <1>3
<1> QED
  BY <1>2, <1>4, EmptySeq

\* A selection of nothing has no elements.
LEMMA NothingIsMeant ==
    ASSUME ds \in Dataset, NEW c, Requested(c), c.op # "all",
           \A d \in Dims : Valid(c.op, c.sel[d]), Nothing(c.op, c.sel), ~OverlongBlocks(c)
    PROVE  Meant(c) = <<>>
<1> DEFINE shape == OutShape(c.op, c.sel)
<1>1. \A d \in 1..Rank : IsProper(c.op, c.sel[d])
  BY ProperIs
<1>2. Meant(c) = [i \in Elements(shape) |-> ValueAt(SelectedCoords(c)[i])]
  BY <1>1, MeantSelected
<1>3. Rank \in Nat /\ Dims = 1..Rank
  BY DatasetIs
<1>4. /\ shape \in [1..Rank -> Nat]
      /\ \A d \in 1..Rank : shape[d] = Extent(c.op, c.sel[d]) /\ IsRequest(c.op, c.sel[d])
  BY <1>1, OutShapeIs DEF Coordinates
<1>5. PICK z \in 1..Rank : IF c.op = "slice" THEN c.sel[z].start = c.sel[z].end ELSE IsEmpty(c.sel[z])
  BY <1>3 DEF Nothing
<1>6. Extent(c.op, c.sel[z]) = 0
  <2> DEFINE s == c.sel[z]
  <2>1. IsRequest(c.op, s)
    BY <1>4
  <2>2. IF c.op = "slice" THEN s.start = s.end ELSE IsEmpty(s)
    BY <1>5
  <2> HIDE DEF s
  <2>3. CASE c.op = "slice"
    BY <2>1, <2>2, <2>3 DEF IsRequest, Extent, s
  <2>4. CASE c.op # "slice"
    <3>1. s.count \in Nat /\ s.block \in Nat /\ (s.count = 0 \/ s.block = 0)
      BY <2>1, <2>2, <2>4 DEF IsRequest, IsEmpty
    <3>2. s.count * s.block = 0
      BY <3>1
    <3> QED
      BY <2>4, <3>2 DEF Extent, s
  <2> QED
    BY <2>3, <2>4
<1> HIDE DEF shape
<1>7. Volume(shape) = 0
  <2>1. Len(shape) = Rank /\ \A d \in 1..Rank : shape[d] \in Nat
    BY <1>3, <1>4, ShapeLength
  <2>2. shape[z] = 0
    BY <1>4, <1>5, <1>6
  <2> QED
    BY <1>3, <1>5, <2>1, <2>2, EmptyVolume
<1>8. DOMAIN Meant(c) = 1..0 /\ Meant(c) = [i \in DOMAIN Meant(c) |-> Meant(c)[i]]
  BY <1>2, <1>7 DEF Elements
<1> QED
  BY <1>8, NoPlaces

LEMMA LazilyStarts ==
    ASSUME ReadInv, NEW op, NEW sel, Requested([op |-> op, sel |-> sel]), op # "all",
           ReadLazily(op, sel)
    PROVE  ReadInv'
<1> DEFINE c == [op |-> op, sel |-> sel]
<1>1. ds \in Dataset /\ c.op = op /\ c.sel = sel /\ Lazy(c.op, c.sel)
  BY DEF ReadInv, ReadLazily
<1>2. Requested(c) /\ c = [op |-> op, sel |-> sel]
  OBVIOUS
<1> HIDE DEF c
<1>3. CASE (\E d \in Dims : ~Valid(op, sel[d])) /\ Answer(Failure) /\ call' = c
  <2>1. ~Sensible(c)
    BY <1>1, <1>3 DEF Sensible
  <2>2. Right(c, Failure)
    BY <2>1 DEF Right
  <2> QED
    BY <1>1, <1>3, <2>2, AnswerKeeps
<1>4. CASE /\ \A d \in Dims : Valid(op, sel[d])
           /\ Nothing(op, sel) /\ Answer(Success(<<>>)) /\ call' = c
  <2>1. ~UnderDamage(c)
    BY <1>1, <1>4 DEF UnderDamage
  <2>2. ASSUME ~OverlongBlocks(c) PROVE Meant(c) = <<>>
    BY <1>1, <1>2, <1>4, <2>2, NothingIsMeant
  <2>3. Right(c, Success(<<>>))
    BY <2>1, <2>2 DEF Right, Success
  <2> QED
    BY <1>1, <1>4, <2>3, AnswerKeeps
<1>5. CASE /\ \A d \in Dims : Valid(op, sel[d])
           /\ ~Nothing(op, sel)
           /\ Start(op, sel, RecordsAt(CellsUnder(Bounds(op, sel))), CellsUnder(Bounds(op, sel)),
                    [i \in Elements(OutShape(op, sel)) |-> Zero])
  <2>1. IsCourse(c)
    BY <1>1, <1>2, <1>5 DEF IsCourse, Starts
  <2>2. /\ Origins(c) = CellsUnder(Bounds(op, sel))
        /\ Wanted(c) = RecordsAt(CellsUnder(Bounds(op, sel)))
    BY <1>1 DEF Origins, Wanted
  <2>3. [i \in Elements(OutShape(op, sel)) |-> Zero] = [i \in DOMAIN Coords(c) |-> Untouched(c, i)]
    <3>1. \A i : Untouched(c, i) = Zero
      BY <1>1 DEF Untouched
    <3>2. DOMAIN Coords(c) = Elements(OutShape(op, sel))
      BY <1>1 DEF Coords, SelectedCoords
    <3> QED
      BY <3>1, <3>2
  <2>4. Start(op, sel, Wanted(c), Origins(c), [i \in Elements(OutShape(op, sel)) |-> Zero])
    BY <1>5, <2>2
  <2> QED
    BY <1>1, <1>2, <2>1, <2>3, <2>4, StartKeeps
<1> QED
  BY <1>2, <1>3, <1>4, <1>5 DEF ReadLazily

-----------------------------------------------------------------------------
(* Decoding and scattering *)

LEMMA DecodeKeeps ==
    ASSUME ReadInv, NEW rec \in waiting, DecodeChunk(rec)
    PROVE  ReadInv'
<1>1. /\ ds \in Dataset /\ LoadInv /\ ds' = ds /\ call' = call /\ phase' = "load"
      /\ rec.readable /\ waiting' = waiting \ {rec}
      /\ tiles' = [r \in DOMAIN tiles \cup {rec} |-> DecodedTile(r)]
      /\ cells' = cells /\ output' = output
  BY DEF ReadInv, DecodeChunk
<1>2. /\ IsCourse(call) /\ waiting \subseteq Wanted(call) /\ DOMAIN tiles = Wanted(call) \ waiting
      /\ \A r \in DOMAIN tiles : r.readable
  BY <1>1 DEF LoadInv
<1>3. PICK k \in Nat : Progress(call, k, cells, output)
  BY <1>1 DEF LoadInv
<1>4. /\ waiting' \subseteq Wanted(call) /\ DOMAIN tiles' = DOMAIN tiles \cup {rec}
      /\ DOMAIN tiles' = Wanted(call) \ waiting'
      /\ \A r \in DOMAIN tiles' : r.readable
  BY <1>1, <1>2
<1>5. TilesAreDecoded'
  <2>1. \A r : DecodedTile(r)' = DecodedTile(r)
    BY <1>1 DEF DecodedTile
  <2> QED
    BY <1>1, <1>4, <2>1 DEF TilesAreDecoded
<1>6. Progress(call, k, cells', output')
  BY <1>1, <1>3
<1> QED
  BY <1>1, <1>2, <1>4, <1>5, <1>6, LoadKeeps

LEMMA FailureKeeps ==
    ASSUME ReadInv, NEW rec \in waiting, DecodeFails(rec)
    PROVE  ReadInv'
<1>1. ds \in Dataset /\ LoadInv /\ ~rec.readable /\ call' = call /\ Answer(Failure)
  BY DEF ReadInv, DecodeFails
<1>2. IsCourse(call) /\ rec \in Wanted(call)
  BY <1>1 DEF LoadInv
<1>3. Sensible(call) => UnderDamage(call)
  BY <1>1, <1>2, DamageIs
<1>4. Right(call, Failure)
  BY <1>3 DEF Right, Failure
<1> QED
  BY <1>1, <1>4, AnswerKeeps

LEMMA ScatterKeeps ==
    ASSUME ReadInv, ScatterNext
    PROVE  ReadInv'
<1>1. /\ ds \in Dataset /\ LoadInv /\ ds' = ds /\ call' = call /\ phase' = "load"
      /\ waiting = {} /\ waiting' = waiting /\ tiles' = tiles
      /\ cells # <<>> /\ cells' = Tail(cells)
      /\ output' = IF Lazy(call.op, call.sel)
                   THEN ScatterSelected(Head(cells)) ELSE ScatterWhole(Head(cells))
  BY DEF ReadInv, ScatterNext
<1>2. /\ IsCourse(call) /\ DOMAIN tiles = Wanted(call) /\ TilesAreDecoded
      /\ \A rec \in DOMAIN tiles : rec.readable
  BY <1>1 DEF LoadInv
<1>3. PICK k \in Nat : Progress(call, k, cells, output)
  BY <1>1 DEF LoadInv
<1> DEFINE m == Len(Origins(call))
<1>4. /\ cells \in Seq(Coordinates) /\ Len(cells) = m - k /\ k <= m
      /\ \A j \in 1..Len(cells) : cells[j] = Origins(call)[k + j]
      /\ ~OverlongBlocks(call) => output = Filled(call, k)
  BY <1>3 DEF Progress
<1>5. m \in Nat
  BY <1>1, <1>2, OriginsAre, LenProperties
<1>6. Len(cells) \in Nat /\ Len(cells) > 0 /\ k < m
  <2>1. Len(cells) \in Nat /\ Len(cells) # 0
    BY <1>1, <1>4, EmptySeq, LenProperties
  <2> HIDE DEF m
  <2> QED
    BY <1>4, <1>5, <2>1
<1>7. Head(cells) = Origins(call)[k + 1]
  <2>1. Head(cells) = cells[1]
    BY <1>1, <1>4, HeadTailProperties
  <2>2. 1 \in 1..Len(cells)
    BY <1>6
  <2> QED
    BY <1>4, <2>1, <2>2
<1>8. /\ Tail(cells) \in Seq(Coordinates) /\ Len(Tail(cells)) = Len(cells) - 1
      /\ \A j \in 1..Len(Tail(cells)) : Tail(cells)[j] = cells[j + 1]
  BY <1>1, <1>4, HeadTailProperties
<1>9. ~OverlongBlocks(call) => output' = Filled(call, k + 1)
  <2> SUFFICES ASSUME ~OverlongBlocks(call) PROVE output' = Filled(call, k + 1)
    OBVIOUS
  <2> DEFINE o == Head(cells)
  <2>1. output = Filled(call, k) /\ o = Origins(call)[k + 1]
    BY <1>4, <1>7
  <2>2. k < Len(Origins(call))
    BY <1>6
  <2>3. output' = IF Lazy(call.op, call.sel) THEN ScatterSelected(o) ELSE ScatterWhole(o)
    BY <1>1
  <2> HIDE DEF o, m
  <2>4. (IF Lazy(call.op, call.sel) THEN ScatterSelected(o) ELSE ScatterWhole(o))
            = Filled(call, k + 1)
    BY <1>1, <1>2, <2>1, <2>2, ScatterFills
  <2> QED
    BY <2>3, <2>4
<1>10. Progress(call, k + 1, cells', output')
  <2> DEFINE left == Tail(cells)
  <2>1. k + 1 <= m /\ Len(left) = m - (k + 1) /\ Len(left) \in Nat
    <3> HIDE DEF m, left
    <3>1. Len(left) = Len(cells) - 1
      BY <1>8 DEF left
    <3> QED
      BY <1>4, <1>5, <1>6, <3>1
  <2>2. ASSUME NEW j \in 1..Len(left) PROVE left[j] = Origins(call)[(k + 1) + j]
    <3>1. left[j] = cells[j + 1]
      BY <1>8
    <3>2. j + 1 \in 1..Len(cells) /\ k + (j + 1) = (k + 1) + j
      <4>1. j \in Nat /\ j <= Len(cells) - 1 /\ j >= 1
        BY <1>6, <1>8
      <4> QED
        BY <1>6, <4>1
    <3>3. cells[j + 1] = Origins(call)[k + (j + 1)]
      BY <1>4, <3>2
    <3> QED
      BY <3>1, <3>2, <3>3
  <2>3. left \in Seq(Coordinates) /\ cells' = left
    BY <1>1, <1>8
  <2> HIDE DEF left
  <2> QED
    BY <1>9, <2>1, <2>2, <2>3 DEF Progress
<1>11. TilesAreDecoded'
  BY <1>1, <1>2 DEF TilesAreDecoded, DecodedTile
<1>12. waiting' \subseteq Wanted(call) /\ DOMAIN tiles' = Wanted(call) \ waiting'
  BY <1>1, <1>2
<1>13. k + 1 \in Nat /\ \A rec \in DOMAIN tiles' : rec.readable
  BY <1>1, <1>2
<1> QED
  BY <1>1, <1>2, <1>10, <1>11, <1>12, <1>13, LoadKeeps

-----------------------------------------------------------------------------
(* The answer of a read that loaded everything *)

\* All is decoded and scattered: the buffer holds the values, and nothing was damaged.
LEMMA LoadedIs ==
    ASSUME ReadInv, Loaded
    PROVE  /\ ds \in Dataset /\ IsCourse(call)
           /\ Sensible(call) => ~UnderDamage(call)
           /\ ~OverlongBlocks(call) =>
                  output = [i \in DOMAIN Coords(call) |-> ValueAt(Coords(call)[i])]
<1>1. ds \in Dataset /\ LoadInv /\ waiting = {} /\ cells = <<>>
  BY DEF ReadInv, Loaded
<1>2. IsCourse(call) /\ DOMAIN tiles = Wanted(call) /\ \A rec \in DOMAIN tiles : rec.readable
  BY <1>1 DEF LoadInv
<1>3. Sensible(call) => ~UnderDamage(call)
  BY <1>1, <1>2, DamageIs
<1>4. PICK k \in Nat : Progress(call, k, cells, output)
  BY <1>1 DEF LoadInv
<1> DEFINE m == Len(Origins(call))
<1>5. m \in Nat
  BY <1>1, <1>2, OriginsAre, LenProperties
<1>6. 0 = m - k /\ (~OverlongBlocks(call) => output = Filled(call, k))
  BY <1>1, <1>4 DEF Progress
<1>7. k = m
  <2> HIDE DEF m
  <2> QED
    BY <1>5, <1>6
<1>8. ~OverlongBlocks(call) =>
          output = [i \in DOMAIN Coords(call) |-> ValueAt(Coords(call)[i])]
  BY <1>1, <1>2, <1>6, <1>7, FilledAtLast
<1> QED
  BY <1>1, <1>2, <1>3, <1>8

LEMMA ReturnKeeps ==
    ASSUME ReadInv, ReturnOutput
    PROVE  ReadInv'
<1>1. /\ Loaded /\ call' = call /\ Answer(Success(output))
      /\ call.op = "all" \/ Lazy(call.op, call.sel)
  BY DEF ReturnOutput
<1>2. /\ ds \in Dataset /\ IsCourse(call)
      /\ Sensible(call) => ~UnderDamage(call)
      /\ ~OverlongBlocks(call) =>
             output = [i \in DOMAIN Coords(call) |-> ValueAt(Coords(call)[i])]
  BY <1>1, LoadedIs
<1>3. ASSUME ~OverlongBlocks(call) PROVE output = Meant(call)
  <2>1. CASE call.op = "all"
    <3>1. Coords(call) = WholeCoords /\ DOMAIN WholeCoords = Elements(ds.dims)
      BY <2>1 DEF Coords, Lazy, WholeCoords
    <3>2. Meant(call) = [i \in Elements(ds.dims) |-> ValueAt(WholeCoords[i])]
      BY <1>2, <2>1, MeantWhole
    <3> QED
      BY <1>2, <1>3, <3>1, <3>2
  <2>2. CASE call.op # "all"
    <3>1. Lazy(call.op, call.sel) /\ Requested(call) /\ \A d \in Dims : Valid(call.op, call.sel[d])
      BY <1>1, <1>2, <2>2 DEF IsCourse, Starts
    <3>2. \A d \in 1..Rank : IsProper(call.op, call.sel[d])
      BY <1>2, <1>3, <2>2, <3>1, ProperIs
    <3>3. /\ Coords(call) = SelectedCoords(call)
          /\ DOMAIN SelectedCoords(call) = Elements(OutShape(call.op, call.sel))
      BY <3>1 DEF Coords, SelectedCoords
    <3>4. Meant(call) =
              [i \in Elements(OutShape(call.op, call.sel)) |-> ValueAt(SelectedCoords(call)[i])]
      BY <1>2, <2>2, <3>1, <3>2, MeantSelected
    <3> QED
      BY <1>2, <1>3, <3>3, <3>4
  <2> QED
    BY <2>1, <2>2
<1>4. Right(call, Success(output))
  BY <1>2, <1>3 DEF Right, Success
<1> QED
  BY <1>1, <1>2, <1>4, AnswerKeeps

\* An element of a dataset that is loaded as a whole and has no chunks.
LEMMA LoadingIs ==
    ASSUME ds \in Dataset, ~ds.chunked,
           output = [i \in Elements(ds.dims) |-> WholeCoords[i]],
           NEW g \in Coordinates, \A d \in 1..Rank : g[d] < ds.dims[d]
    PROVE  Loading(g) = g
<1> DEFINE n == Rank
           dims == ds.dims
           flat == Flatten(g, dims)
           i == flat + 1
<1>1. n \in Nat \ {0} /\ dims \in [1..n -> Nat] /\ g \in [1..n -> Nat] /\ \A d \in 1..n : g[d] < dims[d]
  BY DatasetIs DEF Coordinates
<1>2. Loading(g) = IF flat < Len(output) THEN output[i] ELSE Zero
  BY DEF Loading
<1>3. output = [j \in Elements(dims) |-> Unflatten(j - 1, dims)]
  BY DEF WholeCoords
<1> HIDE DEF n, dims
<1>4. IsGrid(dims, n)
  <2>1. \A d \in 1..n : dims[d] # 0
    BY <1>1
  <2> QED
    BY <1>1, <2>1, ShapeIsGrid
<1>5. flat \in Nat /\ flat < Volume(dims) /\ Unflatten(flat, dims) = g
  BY <1>1, <1>4, FlattenWithin
<1>6. Volume(dims) \in Nat
  <2>1. n \in Nat /\ Len(dims) = n /\ \A d \in 1..n : dims[d] \in Nat
    BY <1>4 DEF IsGrid
  <2> QED
    BY <2>1, VolumeIsNatural
<1>7. Len(output) = Volume(dims)
  <2>1. DOMAIN output = 1..Volume(dims)
    BY <1>3 DEF Elements
  <2> DEFINE V == Volume(dims)
             S == {output[j] : j \in 1..V}
  <2>2. output = [j \in 1..V |-> output[j]]
    BY <1>3, <2>1
  <2>3. V \in Nat
    BY <1>6
  <2>4. output \in [1..V -> S]
    BY <2>2
  <2> HIDE DEF V, S
  <2>5. output \in Seq(S)
    BY <2>3, <2>4, SeqDef
  <2>6. Len(output) \in Nat /\ 1..Len(output) = 1..V
    BY <2>4, <2>5, LenProperties
  <2> QED
    BY <2>3, <2>6 DEF V
<1> HIDE DEF flat
<1>8. i \in 1..Volume(dims) /\ i - 1 = flat
  BY <1>5, <1>6
<1>9. output[i] = Unflatten(i - 1, dims)
  BY <1>3, <1>8 DEF Elements
<1>10. output[i] = g
  BY <1>5, <1>8, <1>9
<1> QED
  BY <1>2, <1>5, <1>7, <1>10

\* What is loaded of a dataset without chunks for a selection within it is what is meant.
LEMMA WholeHolds ==
    ASSUME ReadInv, Loaded, ~ds.chunked, call.op # "all", InBounds(call.op, call.sel),
           \A d \in Dims : Valid(call.op, call.sel[d]), ~OverlongBlocks(call)
    PROVE  /\ Meant(call) = [i \in Elements(OutShape(call.op, call.sel)) |->
                                Loading(SelectedCoords(call)[i])]
           /\ \A i \in Elements(OutShape(call.op, call.sel)) :
                  SelectedCoords(call)[i] \in Coordinates
<1>1. /\ ds \in Dataset /\ IsCourse(call)
      /\ output = [i \in DOMAIN Coords(call) |-> ValueAt(Coords(call)[i])]
  BY LoadedIs
<1>2. Coords(call) = WholeCoords /\ DOMAIN WholeCoords = Elements(ds.dims)
  BY DEF Coords, Lazy, WholeCoords
<1>3. \A g : ValueAt(g) = g
  BY DEF ValueAt
<1>4. output = [i \in Elements(ds.dims) |-> WholeCoords[i]]
  BY <1>1, <1>2, <1>3
<1>5. Requested(call) /\ Dims = 1..Rank
  BY <1>1, DatasetIs DEF IsCourse
<1>6. \A d \in 1..Rank : IsProper(call.op, call.sel[d])
  BY <1>1, ProperIs
<1>7. ASSUME NEW i \in Elements(OutShape(call.op, call.sel))
      PROVE  /\ SelectedCoords(call)[i] \in Coordinates
             /\ Loading(SelectedCoords(call)[i]) = ValueAt(SelectedCoords(call)[i])
  <2> DEFINE g == SelectedCoords(call)[i]
  <2>1. /\ g \in Coordinates
        /\ \A d \in 1..Rank : \E x : g[d] = x /\ x < Bound(call.op, call.sel[d]).end
    BY <1>1, <1>5, <1>6, SelectedCoordsAre
  <2> HIDE DEF g
  <2>2. ASSUME NEW d \in 1..Rank PROVE g[d] < ds.dims[d]
    <3> DEFINE s == call.sel[d]
               e == Bound(call.op, s).end
               D == ds.dims[d]
    <3>1. g[d] < e /\ e <= D
      BY <1>5, <2>1 DEF InBounds
    <3>2. g[d] \in Nat /\ D \in Nat
      BY <1>1, <2>1, DatasetIs DEF Coordinates
    <3>3. e \in Int
      <4>1. IsRequest(call.op, s)
        BY <1>1, <1>5, RequestIs
      <4> HIDE DEF s
      <4>2. CASE call.op = "slice"
        BY <4>1, <4>2 DEF IsRequest, Bound
      <4>3. CASE call.op # "slice" /\ IsEmpty(s)
        BY <4>3 DEF Bound
      <4>4. CASE call.op # "slice" /\ ~IsEmpty(s)
        <5>1. s.start \in Nat /\ s.stride \in Nat /\ s.count \in Nat /\ s.block \in Nat
          BY <4>1, <4>4 DEF IsRequest
        <5>2. (s.count - 1) * s.stride \in Int
          BY <5>1
        <5> DEFINE v == (s.count - 1) * s.stride
        <5>3. Bound(call.op, s).end = s.start + v + s.block
          BY <4>4 DEF Bound
        <5> HIDE DEF v
        <5>4. s.start + v + s.block \in Int
          BY <5>1, <5>2 DEF v
        <5> QED
          BY <5>3, <5>4
      <4> QED
        BY <4>2, <4>3, <4>4
    <3> HIDE DEF e, D, s
    <3>4. g[d] < D
      BY <3>1, <3>2, <3>3
    <3> QED
      BY <3>4 DEF D
  <2>3. Loading(g) = g
    BY <1>1, <1>4, <2>1, <2>2, LoadingIs
  <2> QED
    BY <1>3, <2>1, <2>3 DEF g
<1>8. Meant(call) =
          [i \in Elements(OutShape(call.op, call.sel)) |-> ValueAt(SelectedCoords(call)[i])]
  BY <1>1, <1>5, <1>6, MeantSelected
<1> QED
  BY <1>7, <1>8

LEMMA SliceKeeps ==
    ASSUME ReadInv, SliceLoaded
    PROVE  ReadInv'
<1> DEFINE sel == call.sel
           shape == OutShape("slice", sel)
           start == [d \in Dims |-> sel[d].start]
           data == [i \in Elements(shape) |-> Loading(At(start, shape, i))]
           fits == (\A d \in Dims : Valid("slice", sel[d])) /\ InBounds("slice", sel)
<1>1. /\ Loaded /\ call' = call /\ call.op = "slice" /\ ~Lazy("slice", sel)
      /\ Answer(IF fits THEN Success(data) ELSE Failure)
  BY DEF SliceLoaded
<1>2. /\ ds \in Dataset /\ IsCourse(call) /\ Requested(call)
      /\ Sensible(call) => ~UnderDamage(call)
  BY <1>1, LoadedIs DEF IsCourse
<1>3. CASE ~fits
  <2>1. ~Sensible(call)
    BY <1>1, <1>3 DEF Sensible
  <2>2. Right(call, Failure)
    BY <2>1 DEF Right
  <2>3. Answer(Failure)
    BY <1>1, <1>3
  <2> QED
    BY <1>1, <1>2, <2>2, <2>3, AnswerKeeps
<1>4. CASE fits
  <2>1. ~ds.chunked /\ InBounds(call.op, sel) /\ \A d \in Dims : Valid(call.op, sel[d])
    BY <1>1, <1>4 DEF Lazy
  <2>2. ~OverlongBlocks(call)
    BY <1>1 DEF OverlongBlocks
  <2>3. /\ Meant(call) = [i \in Elements(shape) |-> Loading(SelectedCoords(call)[i])]
        /\ \A i \in Elements(shape) : SelectedCoords(call)[i] \in Coordinates
    BY <1>1, <2>1, <2>2, WholeHolds
  <2>4. \A d \in 1..Rank : IsProper(call.op, sel[d])
    BY <1>1, <1>2, <2>1, <2>2, ProperIs
  <2>5. ASSUME NEW i \in Elements(shape) PROVE At(start, shape, i) = SelectedCoords(call)[i]
    <3>1. DOMAIN shape = Dims
      BY DEF OutShape
    <3>2. At(start, shape, i) = [d \in Dims |-> start[d] + Unflatten(i - 1, shape)[d]]
      BY <3>1 DEF At
    <3>3. SelectedCoords(call)[i] = [d \in Dims |-> Taken("slice", sel[d], Unflatten(i - 1, shape)[d])]
      BY <1>1 DEF SelectedCoords
    <3> HIDE DEF shape
    <3>4. \A d \in Dims : start[d] + Unflatten(i - 1, shape)[d]
                              = Taken("slice", sel[d], Unflatten(i - 1, shape)[d])
      BY DEF Taken
    <3> HIDE DEF start
    <3> QED
      BY <3>2, <3>3, <3>4
  <2>6. data = Meant(call)
    <3> HIDE DEF start, shape
    <3> QED
      BY <2>3, <2>5
  <2>7. Right(call, Success(data))
    <3> HIDE DEF data
    <3> QED
      BY <1>2, <2>6 DEF Right, Success
  <2>8. Answer(Success(data))
    BY <1>1, <1>4
  <2> HIDE DEF data
  <2> QED
    BY <1>1, <1>2, <2>7, <2>8, AnswerKeeps
<1> QED
  BY <1>3, <1>4

LEMMA GatherKeeps ==
    ASSUME ReadInv, GatherLoaded
    PROVE  ReadInv'
<1> DEFINE sel == call.sel
           shape == OutShape("hyperslab", sel)
           From(i) == [d \in Dims |-> Gathered(sel[d], Unflatten(i - 1, shape)[d])]
           data == [i \in Elements(shape) |-> Loading(From(i))]
           valid == \A d \in Dims : Valid("hyperslab", sel[d])
<1>1. /\ Loaded /\ call' = call /\ call.op = "hyperslab" /\ ~Lazy("hyperslab", sel)
      /\ Answer(IF valid THEN Success(data) ELSE Failure)
  BY DEF GatherLoaded
<1>2. /\ ds \in Dataset /\ IsCourse(call) /\ Requested(call)
      /\ Sensible(call) => ~UnderDamage(call)
  BY <1>1, LoadedIs DEF IsCourse
<1>3. CASE ~valid
  <2>1. ~Sensible(call)
    BY <1>1, <1>3 DEF Sensible
  <2>2. Right(call, Failure)
    BY <2>1 DEF Right
  <2>3. Answer(Failure)
    BY <1>1, <1>3
  <2> QED
    BY <1>1, <1>2, <2>2, <2>3, AnswerKeeps
<1>4. CASE valid
  <2>1. ASSUME Sensible(call), ~OverlongBlocks(call) PROVE data = Meant(call)
    <3>1. InBounds(call.op, sel) /\ \A d \in Dims : Valid(call.op, sel[d])
      BY <1>1, <1>4, <2>1 DEF Sensible
    <3>2. ~ds.chunked
      BY <1>1, <3>1 DEF Lazy
    <3>3. Meant(call) = [i \in Elements(shape) |-> Loading(SelectedCoords(call)[i])]
      BY <1>1, <2>1, <3>1, <3>2, WholeHolds
    <3>4. ASSUME NEW i \in Elements(shape) PROVE From(i) = SelectedCoords(call)[i]
      <4>1. SelectedCoords(call)[i] =
                [d \in Dims |-> Taken("hyperslab", sel[d], Unflatten(i - 1, shape)[d])]
        BY <1>1 DEF SelectedCoords
      <4> HIDE DEF shape
      <4>2. \A d \in Dims : Gathered(sel[d], Unflatten(i - 1, shape)[d])
                                = Taken("hyperslab", sel[d], Unflatten(i - 1, shape)[d])
        BY DEF Taken
      <4> QED
        BY <4>1, <4>2
    <3> HIDE DEF From, shape
    <3> QED
      BY <3>3, <3>4
  <2>2. Right(call, Success(data))
    <3> HIDE DEF data
    <3> QED
      BY <1>2, <2>1 DEF Right, Success
  <2>3. Answer(Success(data))
    BY <1>1, <1>4
  <2> HIDE DEF data
  <2> QED
    BY <1>1, <1>2, <2>2, <2>3, AnswerKeeps
<1> QED
  BY <1>3, <1>4

-----------------------------------------------------------------------------
(* All of it *)

LEMMA ReadInitially ==
    ASSUME ReadInit
    PROVE  ReadInv
  BY DEF ReadInit, ReadInv, ReadsAreExact, AnswersAreExact, FailsIffDamaged, Returned

LEMMA ReadStutters ==
    ASSUME ReadInv, UNCHANGED readVars
    PROVE  ReadInv'
<1>1. /\ ds \in Dataset /\ ds' = ds /\ call' = call /\ phase' = phase /\ waiting' = waiting
      /\ tiles' = tiles /\ cells' = cells /\ output' = output /\ returned' = returned
  BY DEF ReadInv, readVars
<1>2. CASE phase = "load"
  <2>1. LoadInv
    BY <1>2 DEF ReadInv
  <2>2. /\ IsCourse(call) /\ waiting' \subseteq Wanted(call)
        /\ DOMAIN tiles' = Wanted(call) \ waiting'
        /\ \A rec \in DOMAIN tiles' : rec.readable
    BY <1>1, <2>1 DEF LoadInv
  <2>3. TilesAreDecoded'
    BY <1>1, <2>1 DEF LoadInv, TilesAreDecoded, DecodedTile
  <2>4. PICK k \in Nat : Progress(call, k, cells, output)
    BY <2>1 DEF LoadInv
  <2>5. Progress(call, k, cells', output')
    BY <1>1, <2>4
  <2> QED
    BY <1>1, <1>2, <2>2, <2>3, <2>5, LoadKeeps
<1>3. CASE phase # "load"
  <2>1. /\ Meant(call)' = Meant(call)
        /\ Sensible(call)' <=> Sensible(call)
        /\ UnderDamage(call)' <=> UnderDamage(call)
        /\ OverlongBlocks(call)' <=> OverlongBlocks(call)
    BY <1>1, MeaningStays
  <2>2. AnswersAreExact /\ FailsIffDamaged
    BY DEF ReadInv, ReadsAreExact
  <2>3. AnswersAreExact' /\ FailsIffDamaged'
    BY <1>1, <2>1, <2>2 DEF AnswersAreExact, FailsIffDamaged, Returned
  <2> QED
    BY <1>1, <1>3, <2>3 DEF ReadInv, ReadsAreExact
<1> QED
  BY <1>2, <1>3

LEMMA ReadStep ==
    ASSUME ReadInv, [ReadNext]_readVars
    PROVE  ReadInv'
<1>1. CASE ReadWhole("all", <<>>)
  <2>1. Requested([op |-> "all", sel |-> <<>>])
    BY DEF Requested
  <2> QED
    BY <1>1, <2>1, WholeStarts
<1>2. ASSUME NEW sel \in Ranges, Len(sel) = Len(ds.dims),
             ReadWhole("slice", sel) \/ ReadLazily("slice", sel)
      PROVE  ReadInv'
  <2>1. Requested([op |-> "slice", sel |-> sel])
    BY <1>2 DEF Requested, Rank
  <2> QED
    BY <1>2, <2>1, WholeStarts, LazilyStarts
<1>3. ASSUME NEW sel \in Selection, Len(sel) = Len(ds.dims),
             ReadWhole("hyperslab", sel) \/ ReadLazily("hyperslab", sel)
      PROVE  ReadInv'
  <2>1. Requested([op |-> "hyperslab", sel |-> sel])
    BY <1>3 DEF Requested, Rank
  <2> QED
    BY <1>3, <2>1, WholeStarts, LazilyStarts
<1>4. CASE Step
  BY <1>4, DecodeKeeps, FailureKeeps, ScatterKeeps, ReturnKeeps, SliceKeeps, GatherKeeps DEF Step
<1>5. CASE UNCHANGED readVars
  BY <1>5, ReadStutters
<1> QED
  BY <1>1, <1>2, <1>3, <1>4, <1>5 DEF ReadNext

\* At any time of a read: exactly the chunks it needs are decoded or still waiting, the
\* decoded ones were readable, and the buffer holds the values of the places the scattered
\* chunks cover and what it was made of elsewhere; the answer is right about the elements and
\* about the damage.
THEOREM ReadInvariant == ReadSpec => []ReadInv
<1>1. ReadInit => ReadInv
  BY ReadInitially
<1>2. ReadInv /\ [ReadNext]_readVars => ReadInv'
  BY ReadStep
<1> QED
  BY <1>1, <1>2, PTL DEF ReadSpec

\* Every read of every dataset, whatever the sizes of its chunks, the selection and the order
\* in which threads decode: one that succeeds returns exactly the elements it selects, in
\* order, with the fill value for what was never written, and it fails exactly if a chunk
\* under them cannot be read.
THEOREM ReadsAreRight == ReadSpec => []ReadsAreExact
<1>1. ReadInv => ReadsAreExact
  BY DEF ReadInv
<1> QED
  BY <1>1, ReadInvariant, PTL
=============================================================================
