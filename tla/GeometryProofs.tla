----------------------------- MODULE GeometryProofs -----------------------------
(***************************************************************************)
(* Lemmas about the arithmetic of chunked storage: division, volumes,      *)
(* strides, row-major numbering of the cells of a grid and the order of    *)
(* coordinates; and that functions defined step by step exist.             *)
(***************************************************************************)
EXTENDS ChunkGeometry, BTreeV1, FiniteSetTheorems, SequenceTheorems, TLAPS

\* A set of numbers that has any has a least: induction, as the library states it.
LEMMA LeastNumber ==
    ASSUME NEW S, S \subseteq Nat, S # {}
    PROVE  \E n \in S : \A m \in S : n <= m
<1> DEFINE R == OpToRel(<, Nat)
<1>1. IsWellFoundedOn(R, Nat)
  BY NatLessThanWellFounded
<1>2. \E n \in S : \A m \in S : <<m, n>> \notin R
  <2> HIDE DEF R
  <2> QED
    BY <1>1, WFMin
<1>3. PICK n \in S : \A m \in S : <<m, n>> \notin R
  BY <1>2
<1>4. \A m \in S : ~(m < n)
  BY <1>3 DEF OpToRel
<1> QED
  BY <1>4

\* The products of the first dimensions.
Products(f, dims, n) == f = [d \in 0..n |-> IF d = 0 THEN 1 ELSE f[d - 1] * dims[d]]

\* They are there for any number of dimensions, and are numbers.
LEMMA ProductsExist ==
    ASSUME NEW dims, NEW n \in Nat, \A d \in 1..n : dims[d] \in Nat
    PROVE  \E f : Products(f, dims, n) /\ \A d \in 0..n : f[d] \in Nat
<1> DEFINE Is(f, m) == Products(f, dims, m) /\ \A d \in 0..m : f[d] \in Nat
           Missing == {m \in 0..n : ~\E f : Is(f, m)}
<1> SUFFICES ASSUME Missing # {} PROVE FALSE
  OBVIOUS
<1>1. PICK m \in Missing : \A k \in Missing : m <= k
  <2>1. Missing \subseteq Nat
    OBVIOUS
  <2> HIDE DEF Missing
  <2> QED
    BY <2>1, LeastNumber
<1>2. CASE m = 0
  <2> DEFINE f == [d \in 0..0 |-> 1]
  <2>1. f = [d \in 0..0 |-> IF d = 0 THEN 1 ELSE f[d - 1] * dims[d]]
    OBVIOUS
  <2>2. Is(f, 0)
    BY <2>1 DEF Products
  <2> QED
    BY <1>1, <1>2, <2>2
<1>3. CASE m # 0
  <2>1. m - 1 \in 0..n /\ m - 1 \notin Missing /\ m \in 1..n
    BY <1>1, <1>3
  <2>2. PICK f : Is(f, m - 1)
    BY <2>1
  <2> DEFINE h == [d \in 0..m |-> IF d = m THEN f[m - 1] * dims[m] ELSE f[d]]
  <2>3. ASSUME NEW d \in 0..m
        PROVE  h[d] = (IF d = 0 THEN 1 ELSE h[d - 1] * dims[d]) /\ h[d] \in Nat
    <3>1. CASE d = m
      <4>1. /\ f[m - 1] \in Nat /\ dims[m] \in Nat /\ h[m - 1] = f[m - 1]
            /\ h[m] = f[m - 1] * dims[m]
        BY <1>3, <2>1, <2>2
      <4>2. f[m - 1] * dims[m] \in Nat
        BY ONLY <4>1
      <4> QED
        BY <1>3, <3>1, <4>1, <4>2
    <3>2. CASE d # m
      <4>1. d \in 0..(m - 1) /\ (d # 0 => d - 1 \in 0..(m - 1) /\ d - 1 # m)
        BY <2>1, <3>2
      <4>2. f[d] = (IF d = 0 THEN 1 ELSE f[d - 1] * dims[d]) /\ f[d] \in Nat
        BY <2>2, <4>1 DEF Products
      <4> QED
        BY <3>2, <4>1, <4>2
    <3> QED
      BY <3>1, <3>2
  <2> HIDE DEF h
  <2>4. h = [d \in 0..m |-> h[d]]
    BY DEF h
  <2>5. Is(h, m)
    BY <2>3, <2>4 DEF Products
  <2> QED
    BY <1>1, <2>5
<1> QED
  BY <1>2, <1>3

\* A shape has a number of elements.
LEMMA VolumeIsNatural ==
    ASSUME NEW dims, NEW n \in Nat, Len(dims) = n, \A d \in 1..n : dims[d] \in Nat
    PROVE  Volume(dims) \in Nat
<1> DEFINE Is(f) == f = [d \in 0..Len(dims) |-> IF d = 0 THEN 1 ELSE f[d - 1] * dims[d]]
           chosen == CHOOSE f : Is(f)
<1>1. PICK f : Products(f, dims, n) /\ \A d \in 0..n : f[d] \in Nat
  BY ProductsExist
<1>2. Is(f)
  BY <1>1 DEF Products
<1>3. Is(chosen)
  <2> HIDE DEF Is
  <2> QED
    BY <1>2
<1>4. Volume(dims) = chosen[n]
  BY DEF Volume
<1> HIDE DEF chosen
<1>5. \A d \in 0..n : chosen[d] = f[d]
  <2> DEFINE Wrong == {d \in 0..n : chosen[d] # f[d]}
  <2> SUFFICES ASSUME Wrong # {} PROVE FALSE
    OBVIOUS
  <2>1. PICK d \in Wrong : \A k \in Wrong : d <= k
    <3>1. Wrong \subseteq Nat
      OBVIOUS
    <3> HIDE DEF Wrong
    <3> QED
      BY <3>1, LeastNumber
  <2>2. chosen[d] = (IF d = 0 THEN 1 ELSE chosen[d - 1] * dims[d])
    BY <1>3
  <2>3. f[d] = (IF d = 0 THEN 1 ELSE f[d - 1] * dims[d])
    BY <1>2
  <2>4. d # 0 => d - 1 \in 0..n /\ d - 1 \notin Wrong
    BY <2>1
  <2> QED
    BY <2>1, <2>2, <2>3, <2>4
<1> QED
  BY <1>1, <1>4, <1>5

-----------------------------------------------------------------------------
(* Arithmetic *)

LEMMA ProductsAreNatural ==
    ASSUME NEW a \in Nat, NEW b \in Nat
    PROVE  a * b \in Nat
  OBVIOUS

LEMMA ProductsGrow ==
    ASSUME NEW a \in Nat, NEW b \in Nat, NEW c \in Nat, a <= b
    PROVE  a * c <= b * c /\ c * a <= c * b
<1>1. PICK k \in Nat : b = a + k
  <2>1. b - a \in Nat /\ b = a + (b - a)
    OBVIOUS
  <2> QED
    BY <2>1
<1>2. b * c = a * c + k * c /\ k * c \in Nat /\ a * c \in Nat
  BY <1>1
<1>3. a * c = c * a /\ b * c = c * b
  OBVIOUS
<1> QED
  BY <1>2, <1>3

\* Division with remainder.
LEMMA Dividing ==
    ASSUME NEW n \in Nat, NEW a \in Nat \ {0}
    PROVE  /\ n \div a \in Nat /\ n % a \in Nat /\ n % a < a
           /\ n = a * (n \div a) + (n % a)
  OBVIOUS

LEMMA DivisionIsUnique ==
    ASSUME NEW a \in Nat \ {0}, NEW q \in Nat, NEW r \in Nat, r < a,
           NEW p \in Nat, NEW t \in Nat, t < a, a * q + r = a * p + t
    PROVE  q = p /\ r = t
<1>1. CASE q < p
  <2>1. a * (q + 1) <= a * p
    BY <1>1, ProductsGrow
  <2>2. a * (q + 1) = a * q + a
    OBVIOUS
  <2>3. a * q \in Nat /\ a * p \in Nat
    OBVIOUS
  <2> QED
    BY <2>1, <2>2, <2>3
<1>2. CASE p < q
  <2>1. a * (p + 1) <= a * q
    BY <1>2, ProductsGrow
  <2>2. a * (p + 1) = a * p + a
    OBVIOUS
  <2>3. a * q \in Nat /\ a * p \in Nat
    OBVIOUS
  <2> QED
    BY <2>1, <2>2, <2>3
<1>3. CASE p = q
  <2>1. a * q \in Nat
    OBVIOUS
  <2> QED
    BY <1>3, <2>1
<1> QED
  BY <1>1, <1>2, <1>3

LEMMA DivisionIs ==
    ASSUME NEW n \in Nat, NEW a \in Nat \ {0}, NEW q \in Nat, NEW r \in Nat, r < a, n = a * q + r
    PROVE  n \div a = q /\ n % a = r
<1>1. /\ n \div a \in Nat /\ n % a \in Nat /\ n % a < a
      /\ n = a * (n \div a) + (n % a)
  BY Dividing
<1> QED
  BY <1>1, DivisionIsUnique

\* Dividing in two steps.
LEMMA DividingTwice ==
    ASSUME NEW n \in Nat, NEW a \in Nat \ {0}, NEW b \in Nat \ {0}
    PROVE  n \div (b * a) = (n \div a) \div b
<1> DEFINE q == n \div a
           r == n % a
           p == q \div b
           t == q % b
<1>1. q \in Nat /\ r \in Nat /\ r < a /\ n = a * q + r
  BY Dividing
<1> HIDE DEF q, r
<1>2. p \in Nat /\ t \in Nat /\ t < b /\ q = b * p + t
  BY <1>1, Dividing
<1> HIDE DEF p, t
<1>3. a * q = a * (b * p) + a * t
  BY <1>1, <1>2
<1>4. a * (b * p) = (b * a) * p
  BY <1>2
<1>5. a * t + r \in Nat /\ a * t + r < b * a
  <2>1. (t + 1) * a <= b * a
    BY <1>2, ProductsGrow
  <2>2. (t + 1) * a = a * t + a /\ a * t \in Nat /\ b * a \in Nat
    BY <1>2
  <2> QED
    BY <1>1, <2>1, <2>2
<1>6. b * a \in Nat \ {0}
  <2>1. b * a \in Nat
    OBVIOUS
  <2> QED
    BY <1>1, <1>2, <1>5, <2>1
<1>7. n = (b * a) * p + (a * t + r)
  <2>1. a * t \in Nat /\ a * (b * p) \in Nat
    BY <1>2
  <2> QED
    BY <1>1, <1>3, <1>4, <2>1
<1> QED
  BY <1>2, <1>5, <1>6, <1>7, DivisionIs DEF p, q

\* Dividing keeps the order.
LEMMA DivisionGrows ==
    ASSUME NEW m \in Nat, NEW n \in Nat, m <= n, NEW a \in Nat \ {0}
    PROVE  m \div a <= n \div a
<1> DEFINE q == m \div a
           p == n \div a
<1>1. q \in Nat /\ m % a \in Nat /\ m = a * q + (m % a)
  BY Dividing
<1>2. p \in Nat /\ n % a < a /\ n = a * p + (n % a) /\ n % a \in Nat
  BY Dividing
<1> HIDE DEF q, p
<1>3. ASSUME p < q PROVE FALSE
  <2>1. a * (p + 1) <= a * q
    BY <1>1, <1>2, <1>3, ProductsGrow
  <2>2. a * (p + 1) = a * p + a /\ a * p \in Nat /\ a * q \in Nat
    BY <1>1, <1>2
  <2> QED
    BY <1>1, <1>2, <2>1, <2>2
<1> QED
  BY <1>1, <1>2, <1>3 DEF p, q

-----------------------------------------------------------------------------
(* Row-major order *)

IsGrid(dims, n) ==
    n \in Nat \ {0} /\ Len(dims) = n /\ DOMAIN dims = 1..n /\ \A d \in 1..n : dims[d] \in Nat \ {0}

\* The strides of the last m dimensions but one.
StridesFrom(f, dims, n, m) ==
    f = [d \in (n - m)..n |-> IF d = n THEN 1 ELSE f[d + 1] * dims[d + 1]]

LEMMA StridesExist ==
    ASSUME NEW dims, NEW n, IsGrid(dims, n)
    PROVE  \E f : /\ f = [d \in 1..n |-> IF d = n THEN 1 ELSE f[d + 1] * dims[d + 1]]
                  /\ \A d \in 1..n : f[d] \in Nat \ {0}
<1> DEFINE Is(f, m) == StridesFrom(f, dims, n, m) /\ \A d \in (n - m)..n : f[d] \in Nat \ {0}
           Missing == {m \in 0..(n - 1) : ~\E f : Is(f, m)}
<1>0. n \in Nat \ {0}
  BY DEF IsGrid
<1>1. ASSUME Missing # {} PROVE FALSE
  <2>1. PICK m \in Missing : \A k \in Missing : m <= k
    <3>1. Missing \subseteq Nat
      OBVIOUS
    <3> HIDE DEF Missing
    <3> QED
      BY <1>1, <3>1, LeastNumber
  <2>2. CASE m = 0
    <3> DEFINE f == [d \in n..n |-> 1]
    <3>1. f = [d \in (n - 0)..n |-> IF d = n THEN 1 ELSE f[d + 1] * dims[d + 1]]
      BY <1>0
    <3>2. Is(f, 0)
      BY <1>0, <3>1 DEF StridesFrom
    <3> QED
      BY <2>1, <2>2, <3>2
  <2>3. CASE m # 0
    <3>1. m - 1 \in 0..(n - 1) /\ m - 1 \notin Missing /\ m \in 1..(n - 1)
      BY <1>0, <2>1, <2>3
    <3>2. PICK f : Is(f, m - 1)
      BY <3>1
    <3> DEFINE new == f[n - m + 1] * dims[n - m + 1]
               h == [d \in (n - m)..n |-> IF d = n - m THEN new ELSE f[d]]
    <3>3. ASSUME NEW d \in (n - m)..n
          PROVE  h[d] = (IF d = n THEN 1 ELSE h[d + 1] * dims[d + 1]) /\ h[d] \in Nat \ {0}
      <4>1. CASE d = n - m
        <5>1. n - m + 1 \in (n - (m - 1))..n /\ n - m + 1 \in 1..n /\ n - m + 1 # n - m
              /\ d # n /\ n - m + 1 \in (n - m)..n
          BY <1>0, <3>1, <4>1
        <5>2. f[n - m + 1] \in Nat \ {0} /\ dims[n - m + 1] \in Nat \ {0}
          BY <3>2, <5>1 DEF IsGrid
        <5>3. new \in Nat \ {0}
          BY ONLY <5>2
        <5> HIDE DEF new
        <5>4. h[n - m + 1] = f[n - m + 1] /\ h[d] = new
          BY <4>1, <5>1
        <5> QED
          BY <4>1, <5>1, <5>3, <5>4 DEF new
      <4>2. CASE d # n - m
        <5>1. d \in (n - (m - 1))..n /\ (d # n => d + 1 \in (n - m)..n /\ d + 1 # n - m)
          BY <1>0, <3>1, <4>2
        <5>2. f[d] = (IF d = n THEN 1 ELSE f[d + 1] * dims[d + 1]) /\ f[d] \in Nat \ {0}
          BY <3>2, <5>1 DEF StridesFrom
        <5> HIDE DEF new
        <5>3. h[d] = f[d] /\ (d # n => h[d + 1] = f[d + 1])
          BY <4>2, <5>1
        <5> HIDE DEF h
        <5> QED
          BY <5>2, <5>3
      <4> QED
        BY <4>1, <4>2
    <3> HIDE DEF new
    <3>4. h = [d \in (n - m)..n |-> h[d]]
      OBVIOUS
    <3> HIDE DEF h
    <3>5. Is(h, m)
      BY <3>3, <3>4 DEF StridesFrom
    <3> QED
      BY <2>1, <3>5
  <2> QED
    BY <2>2, <2>3
<1>2. n - 1 \in 0..(n - 1) /\ n - 1 \notin Missing /\ n - (n - 1) = 1
  BY <1>0, <1>1
<1>3. PICK f : Is(f, n - 1)
  BY <1>2
<1>4. f = [d \in 1..n |-> IF d = n THEN 1 ELSE f[d + 1] * dims[d + 1]]
  BY <1>2, <1>3 DEF StridesFrom
<1> QED
  BY <1>2, <1>3, <1>4

LEMMA StridesAre ==
    ASSUME NEW dims, NEW n, IsGrid(dims, n)
    PROVE  /\ DOMAIN Strides(dims) = 1..n
           /\ Strides(dims)[n] = 1
           /\ \A d \in 1..n : Strides(dims)[d] \in Nat \ {0}
           /\ \A d \in 1..n : d # n => Strides(dims)[d] = Strides(dims)[d + 1] * dims[d + 1]
<1> DEFINE Is(f) == f = [d \in DOMAIN dims |-> IF d = Len(dims) THEN 1 ELSE f[d + 1] * dims[d + 1]]
           s == CHOOSE f : Is(f)
<1>0. n \in Nat \ {0} /\ Len(dims) = n /\ DOMAIN dims = 1..n
  BY DEF IsGrid
<1>1. PICK f : /\ f = [d \in 1..n |-> IF d = n THEN 1 ELSE f[d + 1] * dims[d + 1]]
               /\ \A d \in 1..n : f[d] \in Nat \ {0}
  BY StridesExist
<1>2. Is(f)
  BY <1>0, <1>1
<1>3. Is(s)
  <2> HIDE DEF Is
  <2> QED
    BY <1>2
<1>4. Strides(dims) = s
  BY DEF Strides
<1> HIDE DEF s
<1>5. s = [d \in 1..n |-> IF d = n THEN 1 ELSE s[d + 1] * dims[d + 1]]
  BY <1>0, <1>3
<1>6. n \in 1..n /\ s[n] = 1
  BY <1>0, <1>5
<1>7. ASSUME NEW d \in 1..n, d # n PROVE s[d] = s[d + 1] * dims[d + 1]
  BY <1>5, <1>7
<1>8. \A d \in 1..n : s[d] \in Nat \ {0}
  <2> DEFINE Wrong == {k \in 0..(n - 1) : s[n - k] \notin Nat \ {0}}
  <2>1. ASSUME Wrong # {} PROVE FALSE
    <3>1. PICK k \in Wrong : \A j \in Wrong : k <= j
      <4>1. Wrong \subseteq Nat
        OBVIOUS
      <4> HIDE DEF Wrong
      <4> QED
        BY <2>1, <4>1, LeastNumber
    <3>2. k # 0
      BY <1>0, <1>6, <3>1
    <3>3. k - 1 \in 0..(n - 1) /\ k - 1 \notin Wrong /\ n - k \in 1..n /\ n - k # n
          /\ n - (k - 1) = n - k + 1 /\ n - k + 1 \in 1..n
      <4>1. k \in 1..(n - 1)
        BY <1>0, <3>1, <3>2
      <4> HIDE DEF Wrong
      <4>2. k - 1 \notin Wrong
        BY <3>1, <4>1
      <4> QED
        BY <1>0, <4>1, <4>2
    <3>4. s[n - k + 1] \in Nat \ {0} /\ dims[n - k + 1] \in Nat \ {0}
      BY <3>3 DEF IsGrid
    <3>5. s[n - k] = s[n - k + 1] * dims[n - k + 1]
      BY <1>7, <3>3
    <3>6. s[n - k] \in Nat \ {0}
      BY ONLY <3>4, <3>5
    <3> QED
      BY <3>1, <3>6
  <2>2. ASSUME NEW d \in 1..n PROVE s[d] \in Nat \ {0}
    <3>1. n - d \in 0..(n - 1) /\ n - (n - d) = d
      BY <1>0
    <3> QED
      BY <2>1, <3>1
  <2> QED
    BY <2>2
<1> QED
  BY <1>4, <1>5, <1>6, <1>7, <1>8

\* The products of the first dimensions lead to the volume.
LEMMA VolumeIsProduct ==
    ASSUME NEW dims, NEW n \in Nat, Len(dims) = n, \A d \in 1..n : dims[d] \in Nat
    PROVE  \E p : /\ p[0] = 1 /\ p[n] = Volume(dims)
                  /\ \A d \in 0..n : p[d] \in Nat
                  /\ \A d \in 1..n : p[d] = p[d - 1] * dims[d]
<1> DEFINE Is(f) == f = [d \in 0..Len(dims) |-> IF d = 0 THEN 1 ELSE f[d - 1] * dims[d]]
           chosen == CHOOSE f : Is(f)
<1>1. PICK f : Products(f, dims, n) /\ \A d \in 0..n : f[d] \in Nat
  BY ProductsExist
<1>2. Is(f)
  BY <1>1 DEF Products
<1>3. Is(chosen)
  <2> HIDE DEF Is
  <2> QED
    BY <1>2
<1>4. Volume(dims) = chosen[n]
  BY DEF Volume
<1> HIDE DEF chosen
<1>5. chosen = [d \in 0..n |-> IF d = 0 THEN 1 ELSE chosen[d - 1] * dims[d]]
  BY <1>3
<1>6. chosen[0] = 1 /\ \A d \in 1..n : chosen[d] = chosen[d - 1] * dims[d]
  BY <1>5
<1>7. \A d \in 0..n : chosen[d] \in Nat
  <2> DEFINE Wrong == {d \in 0..n : chosen[d] \notin Nat}
  <2> SUFFICES ASSUME Wrong # {} PROVE FALSE
    OBVIOUS
  <2>1. PICK d \in Wrong : \A k \in Wrong : d <= k
    <3>1. Wrong \subseteq Nat
      OBVIOUS
    <3> HIDE DEF Wrong
    <3> QED
      BY <3>1, LeastNumber
  <2>2. d # 0
    BY <1>6, <2>1
  <2>3. d \in 1..n /\ d - 1 \in 0..n /\ d - 1 \notin Wrong
    BY <2>1, <2>2
  <2>4. chosen[d - 1] \in Nat /\ dims[d] \in Nat /\ chosen[d] = chosen[d - 1] * dims[d]
    BY <1>6, <2>3
  <2>5. chosen[d] \in Nat
    BY ONLY <2>4
  <2> QED
    BY <2>1, <2>5
<1> QED
  BY <1>4, <1>6, <1>7

\* A shape with an empty dimension has no elements.
LEMMA EmptyVolume ==
    ASSUME NEW dims, NEW n \in Nat, Len(dims) = n, \A d \in 1..n : dims[d] \in Nat,
           NEW z \in 1..n, dims[z] = 0
    PROVE  Volume(dims) = 0
<1>1. PICK p : /\ p[0] = 1 /\ p[n] = Volume(dims)
               /\ \A d \in 0..n : p[d] \in Nat
               /\ \A d \in 1..n : p[d] = p[d - 1] * dims[d]
  BY VolumeIsProduct
<1> DEFINE Wrong == {d \in z..n : p[d] # 0}
<1>2. ASSUME Wrong # {} PROVE FALSE
  <2>1. PICK d \in Wrong : \A k \in Wrong : d <= k
    <3>1. Wrong \subseteq Nat
      OBVIOUS
    <3> HIDE DEF Wrong
    <3> QED
      BY <1>2, <3>1, LeastNumber
  <2>2. d \in 1..n /\ d - 1 \in 0..n
    BY <2>1
  <2>3. p[d] = p[d - 1] * dims[d] /\ p[d - 1] \in Nat /\ dims[d] \in Nat
    BY <1>1, <2>2
  <2>4. CASE d = z
    <3>1. p[d] = 0
      BY <2>3, <2>4
    <3> QED
      BY <2>1, <3>1
  <2>5. CASE d # z
    <3>1. d - 1 \in z..n
      BY <2>1, <2>5
    <3>2. d - 1 \notin Wrong
      <4> HIDE DEF Wrong
      <4> QED
        BY <2>1, <2>2
    <3>3. p[d - 1] = 0
      BY <3>1, <3>2
    <3>4. p[d] = 0
      BY <2>3, <3>3
    <3> QED
      BY <2>1, <3>4
  <2> QED
    BY <2>4, <2>5
<1>3. n \in z..n /\ n \notin Wrong
  BY <1>2
<1> QED
  BY <1>1, <1>3

\* A shape that is no larger in any dimension has no more elements.
LEMMA VolumesCompare ==
    ASSUME NEW dims, NEW other, NEW n \in Nat, Len(dims) = n, Len(other) = n,
           \A d \in 1..n : dims[d] \in Nat /\ other[d] \in Nat /\ dims[d] <= other[d]
    PROVE  Volume(dims) <= Volume(other)
<1>1. PICK p : /\ p[0] = 1 /\ p[n] = Volume(dims)
               /\ \A d \in 0..n : p[d] \in Nat
               /\ \A d \in 1..n : p[d] = p[d - 1] * dims[d]
  BY VolumeIsProduct
<1>2. PICK q : /\ q[0] = 1 /\ q[n] = Volume(other)
               /\ \A d \in 0..n : q[d] \in Nat
               /\ \A d \in 1..n : q[d] = q[d - 1] * other[d]
  BY VolumeIsProduct
<1> DEFINE Wrong == {d \in 0..n : ~(p[d] <= q[d])}
<1>3. ASSUME Wrong # {} PROVE FALSE
  <2>1. PICK d \in Wrong : \A k \in Wrong : d <= k
    <3>1. Wrong \subseteq Nat
      OBVIOUS
    <3> HIDE DEF Wrong
    <3> QED
      BY <1>3, <3>1, LeastNumber
  <2>2. d # 0
    BY <1>1, <1>2, <2>1
  <2>3. d \in 1..n /\ d - 1 \in 0..n /\ d - 1 \notin Wrong
    BY <2>1, <2>2
  <2>4. /\ p[d - 1] \in Nat /\ q[d - 1] \in Nat /\ p[d - 1] <= q[d - 1]
        /\ dims[d] \in Nat /\ other[d] \in Nat /\ dims[d] <= other[d]
        /\ p[d] = p[d - 1] * dims[d] /\ q[d] = q[d - 1] * other[d]
    BY <1>1, <1>2, <2>3
  <2>5. p[d - 1] * dims[d] <= q[d - 1] * dims[d] /\ q[d - 1] * dims[d] <= q[d - 1] * other[d]
    <3> HIDE DEF Wrong
    <3> QED
      BY <2>4, ProductsGrow
  <2>6. /\ p[d - 1] * dims[d] \in Nat /\ q[d - 1] * dims[d] \in Nat
        /\ q[d - 1] * other[d] \in Nat
    BY <2>4, ProductsAreNatural
  <2>7. p[d] <= q[d]
    BY ONLY <2>4, <2>5, <2>6
  <2> QED
    BY <2>1, <2>7
<1>4. n \in 0..n /\ n \notin Wrong
  BY <1>3
<1> QED
  BY <1>1, <1>2, <1>4

\* A shape that products of two others cover has no more elements than those together.
LEMMA VolumeOfProducts ==
    ASSUME NEW dims, NEW left, NEW right, NEW n \in Nat,
           Len(dims) = n, Len(left) = n, Len(right) = n,
           \A d \in 1..n : /\ dims[d] \in Nat /\ left[d] \in Nat /\ right[d] \in Nat
                           /\ dims[d] <= left[d] * right[d]
    PROVE  Volume(dims) <= Volume(left) * Volume(right)
<1>1. PICK p : /\ p[0] = 1 /\ p[n] = Volume(dims)
               /\ \A d \in 0..n : p[d] \in Nat
               /\ \A d \in 1..n : p[d] = p[d - 1] * dims[d]
  BY VolumeIsProduct
<1>2. PICK a : /\ a[0] = 1 /\ a[n] = Volume(left)
               /\ \A d \in 0..n : a[d] \in Nat
               /\ \A d \in 1..n : a[d] = a[d - 1] * left[d]
  BY VolumeIsProduct
<1>3. PICK b : /\ b[0] = 1 /\ b[n] = Volume(right)
               /\ \A d \in 0..n : b[d] \in Nat
               /\ \A d \in 1..n : b[d] = b[d - 1] * right[d]
  BY VolumeIsProduct
<1> DEFINE Wrong == {d \in 0..n : ~(p[d] <= a[d] * b[d])}
<1>4. ASSUME Wrong # {} PROVE FALSE
  <2>1. PICK d \in Wrong : \A k \in Wrong : d <= k
    <3>1. Wrong \subseteq Nat
      OBVIOUS
    <3> HIDE DEF Wrong
    <3> QED
      BY <1>4, <3>1, LeastNumber
  <2>2. d # 0
    BY <1>1, <1>2, <1>3, <2>1
  <2>3. d \in 1..n /\ d - 1 \in 0..n /\ d - 1 \notin Wrong
    BY <2>1, <2>2
  <2> DEFINE P == p[d - 1]
             A == a[d - 1]
             B == b[d - 1]
             x == left[d]
             y == right[d]
  <2>4. /\ P \in Nat /\ A \in Nat /\ B \in Nat /\ P <= A * B
        /\ dims[d] \in Nat /\ x \in Nat /\ y \in Nat /\ dims[d] <= x * y
        /\ p[d] = P * dims[d] /\ a[d] = A * x /\ b[d] = B * y
    BY <1>1, <1>2, <1>3, <2>3
  <2> HIDE DEF P, A, B, x, y, Wrong
  <2>5. A * B \in Nat /\ x * y \in Nat
    BY <2>4, ProductsAreNatural
  <2>6. P * dims[d] <= (A * B) * dims[d] /\ (A * B) * dims[d] <= (A * B) * (x * y)
    BY <2>4, <2>5, ProductsGrow
  <2>7. (A * B) * (x * y) = (A * x) * (B * y)
    BY ONLY <2>4
  <2>8. P * dims[d] \in Nat /\ (A * B) * dims[d] \in Nat /\ (A * B) * (x * y) \in Nat
    BY <2>4, <2>5, ProductsAreNatural
  <2>9. p[d] <= a[d] * b[d]
    BY ONLY <2>4, <2>6, <2>7, <2>8
  <2> QED
    BY <2>1, <2>9 DEF Wrong
<1>5. n \in 0..n /\ n \notin Wrong
  BY <1>4
<1> QED
  BY <1>1, <1>2, <1>3, <1>5

\* A shape without an empty dimension has elements, and no dimension has more than it.
LEMMA ExtentsWithin ==
    ASSUME NEW dims, NEW n \in Nat, Len(dims) = n, \A d \in 1..n : dims[d] \in Nat \ {0}
    PROVE  Volume(dims) # 0 /\ \A d \in 1..n : dims[d] <= Volume(dims)
<1>1. PICK p : /\ p[0] = 1 /\ p[n] = Volume(dims)
               /\ \A d \in 0..n : p[d] \in Nat
               /\ \A d \in 1..n : p[d] = p[d - 1] * dims[d]
  BY VolumeIsProduct
<1>2. ASSUME NEW d \in 1..n
      PROVE  p[d - 1] \in Nat /\ p[d - 1] <= p[d] /\ (p[d - 1] # 0 => dims[d] <= p[d])
  <2> DEFINE a == p[d - 1]
             b == dims[d]
  <2>1. a \in Nat /\ b \in Nat \ {0} /\ p[d] = a * b
    BY <1>1
  <2> HIDE DEF a, b
  <2>2. a * 1 <= a * b
    BY <2>1, ProductsGrow
  <2>3. a # 0 => 1 * b <= a * b
    BY <2>1, ProductsGrow
  <2> QED
    BY <2>1, <2>2, <2>3 DEF a, b
<1>3. ASSUME NEW m \in 0..n, NEW least \in Nat, least <= p[m]
      PROVE  \A d \in m..n : least <= p[d]
  <2> DEFINE Wrong == {d \in m..n : ~(least <= p[d])}
  <2> SUFFICES ASSUME Wrong # {} PROVE FALSE
    OBVIOUS
  <2>1. PICK d \in Wrong : \A k \in Wrong : d <= k
    <3>1. Wrong \subseteq Nat
      OBVIOUS
    <3> HIDE DEF Wrong
    <3> QED
      BY <3>1, LeastNumber
  <2>2. d # m
    BY <1>3, <2>1
  <2>3. d \in 1..n /\ d - 1 \in m..n /\ d - 1 \notin Wrong
    BY <2>1, <2>2
  <2>4. p[d - 1] \in Nat /\ p[d] \in Nat /\ p[d - 1] <= p[d] /\ least <= p[d - 1]
    BY <1>1, <1>2, <2>3
  <2> QED
    BY <2>1, <2>4
<1>4. \A d \in 0..n : 1 <= p[d]
  <2>1. 0 \in 0..n /\ 1 <= p[0]
    BY <1>1
  <2> QED
    BY <1>3, <2>1
<1>5. ASSUME NEW d \in 1..n PROVE dims[d] <= p[n]
  <2>1. dims[d] \in Nat /\ dims[d] <= p[d]
    BY <1>2, <1>4
  <2>2. d \in 0..n /\ n \in d..n
    OBVIOUS
  <2> QED
    BY <1>3, <2>1, <2>2
<1> QED
  BY <1>1, <1>4, <1>5

\* The first dimension and its stride make up the volume.
LEMMA VolumeByStride ==
    ASSUME NEW dims, NEW n, IsGrid(dims, n)
    PROVE  Volume(dims) = dims[1] * Strides(dims)[1]
<1>0. n \in Nat \ {0} /\ Len(dims) = n /\ \A d \in 1..n : dims[d] \in Nat \ {0}
  BY DEF IsGrid
<1>1. PICK p : /\ p[0] = 1 /\ p[n] = Volume(dims)
               /\ \A d \in 0..n : p[d] \in Nat
               /\ \A d \in 1..n : p[d] = p[d - 1] * dims[d]
  BY <1>0, VolumeIsProduct
<1> DEFINE s == Strides(dims)
<1>2. /\ s[n] = 1 /\ \A d \in 1..n : s[d] \in Nat \ {0}
      /\ \A d \in 1..n : d # n => s[d] = s[d + 1] * dims[d + 1]
  BY StridesAre
<1> HIDE DEF s
<1> DEFINE Wrong == {d \in 1..n : p[d] * s[d] # p[1] * s[1]}
<1>3. ASSUME Wrong # {} PROVE FALSE
  <2>1. PICK d \in Wrong : \A k \in Wrong : d <= k
    <3>1. Wrong \subseteq Nat
      OBVIOUS
    <3> HIDE DEF Wrong
    <3> QED
      BY <1>3, <3>1, LeastNumber
  <2>2. d - 1 \in 1..n /\ d - 1 \notin Wrong /\ d \in 1..n /\ d - 1 # n /\ d - 1 + 1 = d
    BY <1>0, <2>1
  <2>3. s[d - 1] = s[d] * dims[d] /\ p[d] = p[d - 1] * dims[d]
    BY <1>1, <1>2, <2>2
  <2>4. s[d] \in Nat /\ dims[d] \in Nat /\ p[d - 1] \in Nat
    <3>1. d - 1 \in 0..n
      BY <1>0, <2>2
    <3> HIDE DEF Wrong
    <3> QED
      BY <1>0, <1>1, <1>2, <2>2, <3>1
  <2>5. p[d] * s[d] = p[d - 1] * s[d - 1]
    BY ONLY <2>3, <2>4
  <2>6. p[d - 1] * s[d - 1] = p[1] * s[1]
    BY <2>2
  <2> QED
    BY <2>1, <2>5, <2>6
<1>4. n \in 1..n /\ n \notin Wrong /\ 1 \in 1..n
  BY <1>0, <1>3
<1>5. p[n] * s[n] = p[1] * s[1] /\ p[n] \in Nat /\ p[1] = p[0] * dims[1]
  BY <1>0, <1>1, <1>4
<1> QED
  BY <1>0, <1>1, <1>2, <1>4, <1>5 DEF s

\* The index of a dimension is what the next one's is divided by its extent.
LEMMA QuotientsNest ==
    ASSUME NEW dims, NEW n, IsGrid(dims, n), NEW flat \in Nat, flat < Volume(dims), NEW d \in 1..n
    PROVE  (flat \div Strides(dims)[d]) \div dims[d] =
               IF d = 1 THEN 0 ELSE flat \div Strides(dims)[d - 1]
<1> DEFINE s == Strides(dims)
<1>0. n \in Nat \ {0} /\ \A e \in 1..n : dims[e] \in Nat \ {0}
  BY DEF IsGrid
<1>1. /\ s[d] \in Nat \ {0}
      /\ \A e \in 1..n : e # n => s[e] = s[e + 1] * dims[e + 1]
  BY StridesAre
<1>2. Volume(dims) = dims[1] * s[1]
  BY VolumeByStride
<1> HIDE DEF s
<1>3. flat \div (dims[d] * s[d]) = (flat \div s[d]) \div dims[d]
  BY <1>0, <1>1, DividingTwice
<1>4. CASE d = 1
  <2> DEFINE v == dims[1] * s[1]
  <2>1. v \in Nat \ {0}
    BY <1>0, <1>1, <1>4
  <2> HIDE DEF v
  <2>2. flat = v * 0 + flat /\ flat < v
    BY <1>2, <2>1 DEF v
  <2>3. flat \div v = 0
    BY <2>1, <2>2, DivisionIs
  <2> QED
    BY <1>3, <1>4, <2>3 DEF v, s
<1>5. CASE d # 1
  <2>1. d - 1 \in 1..n /\ d - 1 # n /\ d - 1 + 1 = d
    BY <1>0, <1>5
  <2>2. s[d - 1] = s[d] * dims[d]
    BY <1>1, <2>1
  <2>3. s[d] * dims[d] = dims[d] * s[d]
    BY <1>0, <1>1
  <2> QED
    BY <1>3, <1>5, <2>2, <2>3 DEF s
<1> QED
  BY <1>4, <1>5

\* Coordinates stay within the grid.
LEMMA UnflattenWithin ==
    ASSUME NEW dims, NEW n, IsGrid(dims, n), NEW flat \in Nat
    PROVE  /\ Unflatten(flat, dims) \in [1..n -> Nat]
           /\ \A d \in 1..n : Unflatten(flat, dims)[d] = (flat \div Strides(dims)[d]) % dims[d]
<1>1. DOMAIN dims = 1..n /\ \A d \in 1..n : dims[d] \in Nat \ {0}
  BY DEF IsGrid
<1>2. ASSUME NEW d \in 1..n PROVE (flat \div Strides(dims)[d]) % dims[d] \in Nat
  <2>1. Strides(dims)[d] \in Nat \ {0}
    BY StridesAre
  <2>2. flat \div Strides(dims)[d] \in Nat
    BY <2>1, Dividing
  <2> QED
    BY <1>1, <2>2, Dividing
<1> QED
  BY <1>1, <1>2 DEF Unflatten

\* The first cell of a grid is the origin.
LEMMA UnflattenZero ==
    ASSUME NEW dims, NEW n, IsGrid(dims, n)
    PROVE  \A d \in 1..n : Unflatten(0, dims)[d] = 0
<1> SUFFICES ASSUME NEW d \in 1..n PROVE Unflatten(0, dims)[d] = 0
  OBVIOUS
<1>1. dims[d] \in Nat \ {0} /\ Strides(dims)[d] \in Nat \ {0}
  BY StridesAre DEF IsGrid
<1>2. 0 \div Strides(dims)[d] = 0
  <2> DEFINE a == Strides(dims)[d]
  <2> HIDE DEF a
  <2>1. a \in Nat \ {0} /\ 0 = a * 0 + 0
    BY <1>1 DEF a
  <2>2. 0 \div a = 0
    BY <2>1, DivisionIs
  <2> QED
    BY <2>2 DEF a
<1>3. 0 % dims[d] = 0
  <2> DEFINE a == dims[d]
  <2> HIDE DEF a
  <2>1. a \in Nat \ {0} /\ 0 = a * 0 + 0
    BY <1>1 DEF a
  <2>2. 0 % a = 0
    BY <2>1, DivisionIs
  <2> QED
    BY <2>2 DEF a
<1> QED
  BY <1>2, <1>3, UnflattenWithin

\* Cells are numbered in the order of their coordinates.
LEMMA RowMajorOrder ==
    ASSUME NEW dims, NEW n, IsGrid(dims, n), NEW f \in Nat, NEW g \in Nat, f < g, g < Volume(dims)
    PROVE  KeyLess(Unflatten(f, dims), Unflatten(g, dims))
<1> DEFINE s == Strides(dims)
           Q(x, d) == x \div s[d]
           Above(x, d) == IF d = 1 THEN 0 ELSE Q(x, d - 1)
           Diff == {d \in 1..n : Q(f, d) # Q(g, d)}
<1>0. n \in Nat \ {0} /\ \A d \in 1..n : dims[d] \in Nat \ {0}
  BY DEF IsGrid
<1>1. s[n] = 1 /\ \A d \in 1..n : s[d] \in Nat \ {0}
  BY StridesAre
<1>2. f < Volume(dims)
  <2>1. Volume(dims) \in Nat
    BY <1>0, VolumeIsNatural DEF IsGrid
  <2> QED
    BY <2>1
<1>3. \A d \in 1..n : Q(f, d) \div dims[d] = Above(f, d) /\ Q(g, d) \div dims[d] = Above(g, d)
  BY <1>2, QuotientsNest
<1>4. \A d \in 1..n : /\ Unflatten(f, dims)[d] = Q(f, d) % dims[d]
                      /\ Unflatten(g, dims)[d] = Q(g, d) % dims[d]
  BY UnflattenWithin
<1>5. DOMAIN Unflatten(f, dims) = 1..n
  <2>1. Unflatten(f, dims) \in [1..n -> Nat]
    BY UnflattenWithin
  <2> QED
    BY <2>1
<1> HIDE DEF s
<1>6. \A d \in 1..n : Q(f, d) \in Nat /\ Q(g, d) \in Nat /\ Q(f, d) <= Q(g, d)
  <2> SUFFICES ASSUME NEW d \in 1..n
               PROVE  Q(f, d) \in Nat /\ Q(g, d) \in Nat /\ Q(f, d) <= Q(g, d)
    OBVIOUS
  <2>1. s[d] \in Nat \ {0} /\ f <= g
    BY <1>1
  <2> QED
    BY <2>1, Dividing, DivisionGrows
<1>7. Q(f, n) = f /\ Q(g, n) = g
  <2>1. f = 1 * f + 0 /\ g = 1 * g + 0 /\ 1 \in Nat \ {0}
    OBVIOUS
  <2>2. f \div 1 = f /\ g \div 1 = g
    BY <2>1, DivisionIs
  <2> QED
    BY <1>1, <2>2
<1>8. n \in Diff
  BY <1>0, <1>7
<1> HIDE DEF Q
<1>9. PICK d \in Diff : \A e \in Diff : d <= e
  <2>1. Diff \subseteq Nat /\ Diff # {}
    BY <1>8
  <2> HIDE DEF Diff
  <2> QED
    BY <2>1, LeastNumber
<1>10. \A e \in 1..(d - 1) : e \in 1..n /\ Q(f, e) = Q(g, e)
  BY <1>0, <1>9
<1>11. \A e \in 1..(d - 1) : Unflatten(f, dims)[e] = Unflatten(g, dims)[e]
  BY <1>4, <1>10
<1>12. Above(f, d) = Above(g, d)
  <2>1. d = 1 \/ d - 1 \in 1..(d - 1)
    BY <1>9
  <2> QED
    BY <1>10, <2>1
<1>13. Unflatten(f, dims)[d] < Unflatten(g, dims)[d]
  <2> DEFINE a == dims[d]
             qf == Q(f, d)
             qg == Q(g, d)
  <2>0. d \in 1..n /\ qf # qg
    BY <1>9
  <2>1. qf \div a = qg \div a
    BY <1>3, <1>12, <2>0
  <2>2. a \in Nat \ {0} /\ qf \in Nat /\ qg \in Nat /\ qf <= qg
    BY <1>0, <1>6, <2>0
  <2>3. Unflatten(f, dims)[d] = qf % a /\ Unflatten(g, dims)[d] = qg % a
    BY <1>4, <2>0
  <2> HIDE DEF a, qf, qg
  <2>4. /\ qf = a * (qf \div a) + (qf % a) /\ qg = a * (qg \div a) + (qg % a)
        /\ qf \div a \in Nat /\ qf % a \in Nat /\ qg % a \in Nat
    BY <2>2, Dividing
  <2>5. a * (qf \div a) \in Nat
    BY <2>2, <2>4
  <2>6. qf % a < qg % a
    BY <2>0, <2>1, <2>2, <2>4, <2>5
  <2> QED
    BY <2>3, <2>6
<1> QED
  BY <1>5, <1>9, <1>11, <1>13 DEF KeyLess
-----------------------------------------------------------------------------
(* Keys *)

LEMMA KeyLessIsStrict ==
    ASSUME NEW n \in Nat, NEW k \in [1..n -> Nat]
    PROVE  ~KeyLess(k, k)
  BY DEF KeyLess

LEMMA KeyLessIsTransitive ==
    ASSUME NEW n \in Nat, NEW k \in [1..n -> Nat], NEW l \in [1..n -> Nat], NEW m \in [1..n -> Nat],
           KeyLess(k, l), KeyLess(l, m)
    PROVE  KeyLess(k, m)
<1>1. PICK d \in 1..n : k[d] < l[d] /\ \A e \in 1..(d - 1) : k[e] = l[e]
  BY DEF KeyLess
<1>2. PICK c \in 1..n : l[c] < m[c] /\ \A e \in 1..(c - 1) : l[e] = m[e]
  BY DEF KeyLess
<1>3. CASE d < c
  <2>1. d \in 1..(c - 1) /\ \A e \in 1..(d - 1) : e \in 1..(c - 1)
    BY <1>3
  <2> QED
    BY <1>1, <1>2, <2>1 DEF KeyLess
<1>4. CASE c < d
  <2>1. c \in 1..(d - 1) /\ \A e \in 1..(c - 1) : e \in 1..(d - 1)
    BY <1>4
  <2> QED
    BY <1>1, <1>2, <2>1 DEF KeyLess
<1>5. CASE c = d
  <2>1. k[d] < m[d] /\ d \in DOMAIN k
    BY <1>1, <1>2, <1>5
  <2>2. \A e \in 1..(d - 1) : k[e] = m[e]
    BY <1>1, <1>2, <1>5
  <2> QED
    BY <2>1, <2>2 DEF KeyLess
<1> QED
  BY <1>3, <1>4, <1>5

LEMMA KeyLessIsTotal ==
    ASSUME NEW n \in Nat, NEW k \in [1..n -> Nat], NEW l \in [1..n -> Nat]
    PROVE  KeyLeq(k, l) \/ KeyLess(l, k)
<1> DEFINE Diff == {d \in 1..n : k[d] # l[d]}
<1>1. CASE Diff = {}
  <2>1. k = l
    BY <1>1
  <2> QED
    BY <2>1 DEF KeyLeq
<1>2. CASE Diff # {}
  <2>1. PICK d \in Diff : \A e \in Diff : d <= e
    <3>1. Diff \subseteq Nat
      OBVIOUS
    <3> HIDE DEF Diff
    <3> QED
      BY <1>2, <3>1, LeastNumber
  <2>2. \A e \in 1..(d - 1) : k[e] = l[e] /\ l[e] = k[e]
    BY <2>1
  <2>3. k[d] < l[d] \/ l[d] < k[d]
    BY <2>1
  <2> QED
    BY <2>1, <2>2, <2>3 DEF KeyLess, KeyLeq
<1> QED
  BY <1>1, <1>2

-----------------------------------------------------------------------------
(* Iteration: a function that is defined step by step exists. *)

Iterates(f, first, step, n) ==
    f = [k \in 0..n |-> IF k = 0 THEN first ELSE step[k][f[k - 1]]]

LEMMA IteratesExist ==
    ASSUME NEW X, NEW n \in Nat, NEW first \in X, NEW step \in [1..n -> [X -> X]]
    PROVE  \E f \in [0..n -> X] : Iterates(f, first, step, n)
<1> DEFINE Is(f, m) == f \in [0..m -> X] /\ Iterates(f, first, step, m)
           Missing == {m \in 0..n : ~\E f : Is(f, m)}
<1>1. ASSUME Missing # {} PROVE FALSE
  <2>1. PICK m \in Missing : \A k \in Missing : m <= k
    <3>1. Missing \subseteq Nat
      OBVIOUS
    <3> HIDE DEF Missing
    <3> QED
      BY <1>1, <3>1, LeastNumber
  <2>2. CASE m = 0
    <3> DEFINE f == [k \in 0..0 |-> first]
    <3>1. f = [k \in 0..0 |-> IF k = 0 THEN first ELSE step[k][f[k - 1]]]
      OBVIOUS
    <3>2. Is(f, 0)
      BY <3>1 DEF Iterates
    <3> QED
      BY <2>1, <2>2, <3>2
  <2>3. CASE m # 0
    <3>1. m - 1 \in 0..n /\ m - 1 \notin Missing /\ m \in 1..n
      <4>1. m \in 1..n
        BY <2>1, <2>3
      <4> HIDE DEF Missing
      <4>2. m - 1 \notin Missing
        BY <2>1, <4>1
      <4> QED
        BY <4>1, <4>2
    <3>2. PICK f : Is(f, m - 1)
      BY <3>1
    <3> DEFINE last == step[m][f[m - 1]]
               h == [k \in 0..m |-> IF k = m THEN last ELSE f[k]]
    <3>3. last \in X
      BY <3>1, <3>2
    <3>4. h[m - 1] = f[m - 1] /\ h[m] = last
      <4> HIDE DEF last
      <4> QED
        BY <3>1
    <3>5. ASSUME NEW k \in 0..m
          PROVE  h[k] = (IF k = 0 THEN first ELSE step[k][h[k - 1]]) /\ h[k] \in X
      <4>1. CASE k = m
        <5> HIDE DEF h
        <5> QED
          BY <2>3, <3>3, <3>4, <4>1
      <4>2. CASE k # m
        <5>1. k \in 0..(m - 1) /\ (k # 0 => k - 1 \in 0..m /\ k - 1 # m)
          BY <3>1, <4>2
        <5>2. f[k] = (IF k = 0 THEN first ELSE step[k][f[k - 1]]) /\ f[k] \in X
          BY <3>2, <5>1 DEF Iterates
        <5>3. h[k] = f[k] /\ (k # 0 => h[k - 1] = f[k - 1])
          <6> HIDE DEF last
          <6> QED
            BY <4>2, <5>1
        <5> HIDE DEF h
        <5> QED
          BY <5>2, <5>3
      <4> QED
        BY <4>1, <4>2
    <3>6. h = [k \in 0..m |-> h[k]]
      <4> HIDE DEF last
      <4> QED
        OBVIOUS
    <3> HIDE DEF h
    <3>7. Is(h, m)
      BY <3>5, <3>6 DEF Iterates
    <3> QED
      BY <2>1, <3>7
  <2> QED
    BY <2>2, <2>3
<1>2. n \in 0..n /\ n \notin Missing
  BY <1>1
<1> QED
  BY <1>2

-----------------------------------------------------------------------------
(* Coordinates and flat indices *)

\* What the first coordinates are worth.
SumsUp(p, g, dims, n) ==
    /\ p[0] = 0 /\ p[n] = Flatten(g, dims)
    /\ \A d \in 0..n : p[d] \in Nat
    /\ \A d \in 1..n : p[d] = p[d - 1] + g[d] * Strides(dims)[d]

\* A flat index adds up what each coordinate is worth.
LEMMA FlattenIsSum ==
    ASSUME NEW dims, NEW n, IsGrid(dims, n), NEW g \in [1..n -> Nat]
    PROVE  \E p : SumsUp(p, g, dims, n)
<1> DEFINE s == Strides(dims)
           Is(f) == f = [d \in 0..Len(dims) |-> IF d = 0 THEN 0 ELSE f[d - 1] + g[d] * s[d]]
           chosen == CHOOSE f : Is(f)
           step == [d \in 1..n |-> [x \in Nat |-> x + g[d] * s[d]]]
<1>0. n \in Nat /\ Len(dims) = n
  BY DEF IsGrid
<1>1. \A d \in 1..n : s[d] \in Nat
  BY StridesAre
<1>2. Flatten(g, dims) = chosen[n]
  BY <1>0 DEF Flatten
<1> HIDE DEF s
<1>3. \A d \in 1..n : g[d] * s[d] \in Nat
  BY <1>1, ProductsAreNatural
<1>4. step \in [1..n -> [Nat -> Nat]]
  <2> SUFFICES ASSUME NEW d \in 1..n PROVE [x \in Nat |-> x + g[d] * s[d]] \in [Nat -> Nat]
    OBVIOUS
  <2>1. g[d] * s[d] \in Nat
    BY <1>3
  <2>2. \A w \in Nat : [x \in Nat |-> x + w] \in [Nat -> Nat]
    OBVIOUS
  <2> QED
    BY <2>1, <2>2
<1>5. PICK f \in [0..n -> Nat] : Iterates(f, 0, step, n)
  <2> HIDE DEF step
  <2> QED
    BY <1>0, <1>4, IteratesExist
<1>6. f = [d \in 0..n |-> IF d = 0 THEN 0 ELSE f[d - 1] + g[d] * s[d]]
  <2> SUFFICES ASSUME NEW d \in 0..n
               PROVE  f[d] = IF d = 0 THEN 0 ELSE f[d - 1] + g[d] * s[d]
    <3> HIDE DEF step
    <3> QED
      OBVIOUS
  <2>1. f[d] = IF d = 0 THEN 0 ELSE step[d][f[d - 1]]
    BY <1>5 DEF Iterates
  <2>2. d # 0 => d \in 1..n /\ f[d - 1] \in Nat
    BY <1>0
  <2>3. d # 0 => step[d][f[d - 1]] = f[d - 1] + g[d] * s[d]
    BY <2>2
  <2> QED
    BY <2>1, <2>3
<1> HIDE DEF step
<1>7. Is(f)
  BY <1>0, <1>6
<1>8. Is(chosen)
  <2> HIDE DEF Is
  <2> QED
    BY <1>7
<1> HIDE DEF chosen
<1>9. chosen = [d \in 0..n |-> IF d = 0 THEN 0 ELSE chosen[d - 1] + g[d] * s[d]]
  BY <1>0, <1>8
<1>10. chosen[0] = 0 /\ \A d \in 1..n : chosen[d] = chosen[d - 1] + g[d] * s[d]
  BY <1>0, <1>9
<1>11. \A d \in 0..n : chosen[d] \in Nat
  <2> DEFINE Wrong == {d \in 0..n : chosen[d] \notin Nat}
  <2> SUFFICES ASSUME Wrong # {} PROVE FALSE
    OBVIOUS
  <2>1. PICK d \in Wrong : \A k \in Wrong : d <= k
    <3>1. Wrong \subseteq Nat
      OBVIOUS
    <3> HIDE DEF Wrong
    <3> QED
      BY <3>1, LeastNumber
  <2>2. d \in 1..n
    BY <1>10, <2>1
  <2>3. d - 1 \in 0..n /\ d - 1 \notin Wrong
    <3> HIDE DEF Wrong
    <3> QED
      BY <1>0, <2>1, <2>2
  <2>4. chosen[d - 1] \in Nat /\ g[d] * s[d] \in Nat
    BY <1>3, <2>2, <2>3
  <2>5. chosen[d] \in Nat
    BY <1>10, <2>2, <2>4
  <2> QED
    BY <2>1, <2>5
<1>12. SumsUp(chosen, g, dims, n)
  BY <1>2, <1>10, <1>11 DEF s, SumsUp
<1> QED
  BY <1>12

\* Coordinates within a grid have a flat index within its volume, and are found
\* there again.
LEMMA FlattenWithin ==
    ASSUME NEW dims, NEW n, IsGrid(dims, n), NEW g \in [1..n -> Nat], \A d \in 1..n : g[d] < dims[d]
    PROVE  /\ Flatten(g, dims) \in Nat /\ Flatten(g, dims) < Volume(dims)
           /\ Unflatten(Flatten(g, dims), dims) = g
<1> DEFINE s == Strides(dims)
<1>0. n \in Nat \ {0} /\ DOMAIN dims = 1..n /\ \A d \in 1..n : dims[d] \in Nat \ {0}
  BY DEF IsGrid
<1>p. PICK p : SumsUp(p, g, dims, n)
  BY FlattenIsSum
<1>1. /\ p[0] = 0 /\ p[n] = Flatten(g, dims)
      /\ \A d \in 0..n : p[d] \in Nat
      /\ \A d \in 1..n : p[d] = p[d - 1] + g[d] * s[d]
  BY <1>p DEF SumsUp
<1>2. /\ s[n] = 1 /\ \A d \in 1..n : s[d] \in Nat \ {0}
      /\ \A d \in 1..n : d # n => s[d] = s[d + 1] * dims[d + 1]
  BY StridesAre
<1>3. Volume(dims) = dims[1] * s[1]
  BY VolumeByStride
<1> HIDE DEF s
\* What a coordinate is worth, beyond the dimensions before it.
<1>4. ASSUME NEW d \in 1..n, NEW t \in Nat, t < s[d]
      PROVE  t + g[d] * s[d] \in Nat /\ t + g[d] * s[d] < dims[d] * s[d]
  <2>1. g[d] + 1 \in Nat /\ g[d] + 1 <= dims[d] /\ s[d] \in Nat /\ dims[d] \in Nat
    BY <1>0, <1>2
  <2>2. (g[d] + 1) * s[d] <= dims[d] * s[d]
    BY <2>1, ProductsGrow
  <2>3. (g[d] + 1) * s[d] = g[d] * s[d] + s[d] /\ g[d] * s[d] \in Nat /\ dims[d] * s[d] \in Nat
    BY <2>1
  <2> QED
    BY <1>4, <2>1, <2>2, <2>3
\* The dimensions after d are worth less than one step of d.
<1>5. \A d \in 1..n : p[n] - p[d] \in Nat /\ p[n] - p[d] < s[d]
  <2> DEFINE Wrong == {k \in 0..(n - 1) :
                          ~(p[n] - p[n - k] \in Nat /\ p[n] - p[n - k] < s[n - k])}
  <2>1. ASSUME Wrong # {} PROVE FALSE
    <3>1. PICK k \in Wrong : \A j \in Wrong : k <= j
      <4>1. Wrong \subseteq Nat
        OBVIOUS
      <4> HIDE DEF Wrong
      <4> QED
        BY <2>1, <4>1, LeastNumber
    <3>2. n - 0 = n /\ p[n] \in Nat /\ p[n] - p[n] = 0
      BY <1>0, <1>1
    <3>3. k # 0
      BY <1>2, <3>1, <3>2
    <3>4. k \in 1..(n - 1)
      BY <1>0, <3>1, <3>3
    <3> DEFINE d == n - k + 1
    <3>5. k - 1 \in 0..(n - 1) /\ k - 1 \notin Wrong /\ n - (k - 1) = d /\ d \in 1..n
          /\ d - 1 = n - k /\ d - 1 \in 1..n /\ d - 1 # n /\ (d - 1) + 1 = d /\ d - 1 \in 0..n
      <4> HIDE DEF Wrong
      <4> QED
        BY <1>0, <3>1, <3>4
    <3> DEFINE t == p[n] - p[d]
    <3>6. t \in Nat /\ t < s[d]
      BY <3>5
    <3> HIDE DEF d, Wrong
    <3>7. t + g[d] * s[d] \in Nat /\ t + g[d] * s[d] < dims[d] * s[d]
      <4> HIDE DEF t
      <4> QED
        BY <1>4, <3>5, <3>6
    <3>8. s[d - 1] = dims[d] * s[d]
      <4>1. s[d - 1] = s[d] * dims[d]
        BY <1>2, <3>5
      <4>2. s[d] \in Nat /\ dims[d] \in Nat
        BY <1>0, <1>2, <3>5
      <4> QED
        BY <4>1, <4>2
    <3>9. p[n] - p[d - 1] = t + g[d] * s[d]
      <4>1. p[d] = p[d - 1] + g[d] * s[d] /\ p[d - 1] \in Nat /\ p[n] \in Nat /\ g[d] * s[d] \in Nat
        <5>1. g[d] \in Nat /\ s[d] \in Nat
          BY <1>2, <3>5
        <5> QED
          BY <1>1, <3>2, <3>5, <5>1, ProductsAreNatural
      <4> QED
        BY <4>1
    <3> HIDE DEF t
    <3> QED
      BY <3>1, <3>5, <3>7, <3>8, <3>9 DEF Wrong
  <2>2. ASSUME NEW d \in 1..n PROVE p[n] - p[d] \in Nat /\ p[n] - p[d] < s[d]
    <3>1. n - d \in 0..(n - 1) /\ n - (n - d) = d /\ n - d \notin Wrong
      <4> HIDE DEF Wrong
      <4> QED
        BY <1>0, <2>1
    <3> QED
      BY <3>1
  <2> QED
    BY <2>2
\* The dimensions up to d are whole steps of d, and the coordinate is what is left.
<1>6. \A d \in 1..n : \E q \in Nat : p[d] = s[d] * (dims[d] * q + g[d])
  <2> DEFINE Wrong == {d \in 1..n : ~\E q \in Nat : p[d] = s[d] * (dims[d] * q + g[d])}
  <2>1. ASSUME Wrong # {} PROVE FALSE
    <3>1. PICK d \in Wrong : \A k \in Wrong : d <= k
      <4>1. Wrong \subseteq Nat
        OBVIOUS
      <4> HIDE DEF Wrong
      <4> QED
        BY <2>1, <4>1, LeastNumber
    <3>2. /\ s[d] \in Nat /\ dims[d] \in Nat /\ g[d] \in Nat
          /\ p[d] = p[d - 1] + g[d] * s[d]
      BY <1>0, <1>1, <1>2, <3>1
    <3>3. CASE d = 1
      <4>1. p[d] = g[d] * s[d]
        <5>1. p[d - 1] = 0 /\ g[d] * s[d] \in Nat
          BY <1>1, <3>2, <3>3, ProductsAreNatural
        <5> QED
          BY <3>2, <5>1
      <4>2. p[d] = s[d] * (dims[d] * 0 + g[d])
        BY <3>2, <4>1
      <4> QED
        BY <3>1, <4>2
    <3>4. CASE d # 1
      <4>1. d - 1 \in 1..n /\ d - 1 \notin Wrong /\ d - 1 # n /\ (d - 1) + 1 = d
        <5> HIDE DEF Wrong
        <5>1. d \in 1..n
          BY <3>1 DEF Wrong
        <5> QED
          BY <1>0, <3>1, <3>4, <5>1
      <4>2. PICK q \in Nat : p[d - 1] = s[d - 1] * (dims[d - 1] * q + g[d - 1])
        BY <4>1
      <4> DEFINE h == dims[d - 1] * q + g[d - 1]
      <4>3. h \in Nat
        <5>1. dims[d - 1] \in Nat /\ g[d - 1] \in Nat
          BY <1>0, <4>1
        <5> QED
          BY <5>1
      <4>4. p[d - 1] = s[d - 1] * h
        BY <4>2
      <4> HIDE DEF h
      <4>5. s[d - 1] = s[d] * dims[d]
        BY <1>2, <4>1
      <4>6. p[d - 1] = s[d] * (dims[d] * h)
        <5> DEFINE a == s[d]
                   b == dims[d]
        <5>1. a \in Nat /\ b \in Nat /\ p[d - 1] = (a * b) * h
          BY <3>2, <4>4, <4>5
        <5> HIDE DEF a, b
        <5>2. (a * b) * h = a * (b * h)
          BY <4>3, <5>1
        <5> QED
          BY <5>1, <5>2 DEF a, b
      <4> DEFINE w == dims[d] * h
      <4>7. w \in Nat
        BY <3>2, <4>3, ProductsAreNatural
      <4>8. p[d] = s[d] * (dims[d] * h + g[d])
        <5>1. p[d] = s[d] * w + g[d] * s[d]
          BY <3>2, <4>6
        <5> HIDE DEF w
        <5>2. p[d] = s[d] * (w + g[d])
          BY <3>2, <4>7, <5>1
        <5> QED
          BY <5>2 DEF w
      <4> QED
        BY <3>1, <4>3, <4>8
    <3> QED
      BY <3>3, <3>4
  <2> QED
    BY <2>1
<1>7. ASSUME NEW d \in 1..n PROVE (p[n] \div s[d]) % dims[d] = g[d]
  <2>1. PICK q \in Nat : p[d] = s[d] * (dims[d] * q + g[d])
    BY <1>6
  <2>2. dims[d] \in Nat \ {0} /\ s[d] \in Nat \ {0} /\ g[d] \in Nat /\ g[d] < dims[d]
        /\ p[n] \in Nat /\ p[d] \in Nat
    BY <1>0, <1>1, <1>2
  <2> DEFINE h == dims[d] * q + g[d]
             t == p[n] - p[d]
  <2>3. h \in Nat
    BY <2>2
  <2>4. t \in Nat /\ t < s[d] /\ p[n] = p[d] + t
    BY <1>5, <2>2
  <2>5. h % dims[d] = g[d]
    <3> DEFINE a == dims[d]
               b == g[d]
    <3>1. a \in Nat \ {0} /\ b \in Nat /\ b < a /\ h = a * q + b
      BY <2>2
    <3> HIDE DEF a, b, h
    <3>2. h % a = b
      BY <2>3, <3>1, DivisionIs
    <3> QED
      BY <3>2 DEF a, b
  <2>6. p[n] = s[d] * h + t
    BY <2>1, <2>4
  <2> HIDE DEF h, t
  <2>7. p[n] \div s[d] = h
    BY <2>2, <2>3, <2>4, <2>6, DivisionIs
  <2> QED
    BY <2>5, <2>7
<1>8. p[n] \in Nat /\ p[n] < Volume(dims)
  <2>1. 1 \in 1..n /\ p[n] \in Nat /\ p[0] = 0 /\ p[1] = p[0] + g[1] * s[1] /\ g[1] \in Nat
        /\ s[1] \in Nat
    BY <1>0, <1>1, <1>2
  <2> DEFINE t == p[n] - p[1]
  <2>2. t \in Nat /\ t < s[1]
    BY <1>5, <2>1
  <2>3. p[n] = t + g[1] * s[1]
    <3>1. p[1] \in Nat /\ p[1] = g[1] * s[1]
      BY <2>1, ProductsAreNatural
    <3> QED
      BY <2>1, <3>1
  <2> HIDE DEF t
  <2> QED
    BY <1>3, <1>4, <2>1, <2>2, <2>3
<1>9. Unflatten(p[n], dims) = g
  <2>1. /\ Unflatten(p[n], dims) \in [1..n -> Nat]
        /\ \A d \in 1..n : Unflatten(p[n], dims)[d] = (p[n] \div s[d]) % dims[d]
    BY <1>8, UnflattenWithin DEF s
  <2> DEFINE u == Unflatten(p[n], dims)
  <2>2. \A d \in 1..n : u[d] = g[d]
    BY <1>7, <2>1
  <2>3. u \in [1..n -> Nat]
    BY <2>1
  <2> HIDE DEF u
  <2>4. u = [d \in 1..n |-> u[d]] /\ g = [d \in 1..n |-> g[d]]
    BY <2>3
  <2>5. u = g
    BY <2>2, <2>4
  <2> QED
    BY <2>5 DEF u
<1> QED
  BY <1>1, <1>8, <1>9

\* The coordinates of a flat index lie within the grid, and lead back to it.
LEMMA FlattenUnflatten ==
    ASSUME NEW dims, NEW n, IsGrid(dims, n), NEW flat \in Nat, flat < Volume(dims)
    PROVE  /\ Unflatten(flat, dims) \in [1..n -> Nat]
           /\ \A d \in 1..n : Unflatten(flat, dims)[d] < dims[d]
           /\ Flatten(Unflatten(flat, dims), dims) = flat
<1> DEFINE g == Unflatten(flat, dims)
           k == Flatten(g, dims)
<1>0. n \in Nat /\ \A d \in 1..n : dims[d] \in Nat \ {0}
  BY DEF IsGrid
<1>1. /\ g \in [1..n -> Nat]
      /\ \A d \in 1..n : g[d] = (flat \div Strides(dims)[d]) % dims[d]
  BY UnflattenWithin
<1>2. ASSUME NEW d \in 1..n PROVE g[d] < dims[d]
  <2>1. Strides(dims)[d] \in Nat \ {0} /\ dims[d] \in Nat \ {0}
    BY <1>0, StridesAre
  <2>2. flat \div Strides(dims)[d] \in Nat
    BY <2>1, Dividing
  <2>3. (flat \div Strides(dims)[d]) % dims[d] < dims[d]
    BY <2>1, <2>2, Dividing
  <2> QED
    BY <1>1, <2>3
<1> HIDE DEF g
<1>3. k \in Nat /\ k < Volume(dims) /\ Unflatten(k, dims) = g
  BY <1>1, <1>2, FlattenWithin
<1> HIDE DEF k
<1>4. ~KeyLess(g, g)
  BY <1>0, <1>1, KeyLessIsStrict
<1>5. ~(k < flat) /\ ~(flat < k)
  BY <1>3, <1>4, RowMajorOrder DEF g
<1>6. k = flat
  BY <1>3, <1>5
<1> QED
  BY <1>1, <1>2, <1>6 DEF g, k

-----------------------------------------------------------------------------
(* Runs *)

\* The number of runs that a list is cut into.
LEMMA CeilingDivides ==
    ASSUME NEW n \in Nat, NEW a \in Nat \ {0}
    PROVE  /\ CeilingDiv(n, a) \in Nat /\ n <= CeilingDiv(n, a) * a
           /\ \A i \in Nat : i < CeilingDiv(n, a) => i * a < n
<1> DEFINE c == CeilingDiv(n, a)
           q == (n + a - 1) \div a
           r == (n + a - 1) % a
<1>0. n + a - 1 \in Nat
  OBVIOUS
<1>1. q \in Nat /\ r \in Nat /\ r < a /\ n + a - 1 = a * q + r
  BY <1>0, Dividing
<1>2. c = q
  BY DEF CeilingDiv
<1> HIDE DEF c, q, r
<1>3. a * q = q * a /\ q * a \in Nat
  BY <1>1
<1>4. n <= q * a
  BY <1>1, <1>3
<1>5. ASSUME NEW i \in Nat, i < q PROVE i * a < n
  <2>1. (i + 1) * a <= q * a
    BY <1>1, <1>5, ProductsGrow
  <2>2. (i + 1) * a = i * a + a /\ i * a \in Nat
    OBVIOUS
  <2> QED
    BY <1>1, <1>3, <2>1, <2>2
<1> QED
  BY <1>1, <1>2, <1>4, <1>5 DEF c

\* A list of more than one is cut into fewer runs.
LEMMA CeilingDivLess ==
    ASSUME NEW n \in Nat, NEW a \in Nat \ {0, 1}
    PROVE  /\ n > 1 => CeilingDiv(n, a) < n
           /\ n > 0 => CeilingDiv(n, a) > 0
           /\ n = 0 => CeilingDiv(n, a) = 0
<1> DEFINE c == CeilingDiv(n, a)
<1>1. c \in Nat /\ n <= c * a /\ \A i \in Nat : i < c => i * a < n
  BY CeilingDivides
<1> HIDE DEF c
<1>2. n > 0 => c > 0
  BY <1>1
<1>3. n = 0 => c = 0
  <2>1. c > 0 => 0 * a < n
    BY <1>1
  <2> QED
    BY <1>1, <2>1
<1>4. ASSUME n > 1, c >= n PROVE FALSE
  <2>1. c - 1 \in Nat /\ (c - 1) * a < n
    BY <1>1, <1>4
  <2>2. (c - 1) * 2 <= (c - 1) * a
    BY <2>1, ProductsGrow
  <2>3. (c - 1) * a \in Nat
    BY <2>1
  <2> QED
    BY <1>1, <1>4, <2>1, <2>2, <2>3
<1> QED
  BY <1>1, <1>2, <1>3, <1>4 DEF c

LEMMA RunIs ==
    ASSUME NEW S, NEW list \in Seq(S), NEW size \in Nat \ {0}, NEW i \in Nat \ {0},
           (i - 1) * size <= Len(list)
    PROVE  /\ Run(list, size, i) \in Seq(S)
           /\ Len(Run(list, size, i)) =
                  IF i * size <= Len(list) THEN size ELSE Len(list) - (i - 1) * size
           /\ \A j \in 1..Len(Run(list, size, i)) : Run(list, size, i)[j] = list[(i - 1) * size + j]
<1> DEFINE before == (i - 1) * size
           last == IF i * size < Len(list) THEN i * size ELSE Len(list)
           run == SubSeq(list, before + 1, last)
<1>1. before \in Nat /\ i * size \in Nat /\ i * size = before + size /\ Len(list) \in Nat
  OBVIOUS
<1>2. Run(list, size, i) = run
  BY DEF Run
<1>3. before <= Len(list)
  OBVIOUS
<1> HIDE DEF before
<1>4. before + 1 \in 1..(Len(list) + 1) /\ last \in (before + 1 - 1)..Len(list)
  BY <1>1, <1>3
<1>5. /\ run \in Seq(S)
      /\ Len(run) = last - (before + 1) + 1
      /\ \A j \in 1..(last - (before + 1) + 1) : run[j] = list[before + 1 + j - 1]
  <2> DEFINE m == before + 1
  <2>1. m \in Int /\ last \in Int /\ m \in Nat \ {0} /\ last <= Len(list) /\ m <= last + 1
    BY <1>1, <1>4
  <2> HIDE DEF m, last
  <2>2. \A j \in m..last : list[j] \in S
    BY <1>1, <2>1
  <2>3. /\ SubSeq(list, m, last) \in Seq(S)
        /\ Len(SubSeq(list, m, last)) = IF m <= last THEN last - m + 1 ELSE 0
        /\ \A j \in 1..(last - m + 1) : SubSeq(list, m, last)[j] = list[m + j - 1]
    BY <2>1, <2>2, SubSeqProperties
  <2>4. Len(SubSeq(list, m, last)) = last - m + 1
    BY <2>1, <2>3
  <2> QED
    BY <2>3, <2>4 DEF m
<1>6. Len(run) = IF i * size <= Len(list) THEN size ELSE Len(list) - before
  BY <1>1, <1>3, <1>5
<1>7. ASSUME NEW j \in 1..Len(run) PROVE run[j] = list[before + j]
  <2>1. before + 1 + j - 1 = before + j /\ j \in 1..(last - (before + 1) + 1)
    BY <1>1, <1>5
  <2> QED
    BY <1>5, <2>1
<1> HIDE DEF run, last
<1> QED
  BY <1>2, <1>5, <1>6, <1>7 DEF before

-----------------------------------------------------------------------------
(* The levels of a tree *)

LevelsFrom(f, m, arity) ==
    f = [nodes_on \in 1..m |-> IF nodes_on = 1 THEN <<1>>
                               ELSE <<nodes_on>> \o f[CeilingDiv(nodes_on, arity)]]

LEMMA LevelsFromExist ==
    ASSUME NEW arity \in Nat \ {0, 1}, NEW n \in Nat
    PROVE  \E f : LevelsFrom(f, n, arity)
<1> DEFINE Missing == {m \in 0..n : ~\E f : LevelsFrom(f, m, arity)}
<1>1. ASSUME Missing # {} PROVE FALSE
  <2>1. PICK m \in Missing : \A k \in Missing : m <= k
    <3>1. Missing \subseteq Nat
      OBVIOUS
    <3> HIDE DEF Missing
    <3> QED
      BY <1>1, <3>1, LeastNumber
  <2>2. CASE m = 0
    <3>1. 1..0 = {}
      OBVIOUS
    <3>2. LevelsFrom([x \in 1..0 |-> <<1>>], 0, arity)
      BY <3>1 DEF LevelsFrom
    <3> QED
      BY <2>1, <2>2, <3>2
  <2>3. CASE m # 0
    <3>1. m \in 1..n /\ m - 1 \in 0..n /\ m - 1 \notin Missing
      <4>1. m \in 1..n /\ m - 1 \in 0..n /\ m - 1 < m
        BY <2>1, <2>3
      <4> HIDE DEF Missing
      <4> QED
        BY <2>1, <4>1
    <3>2. PICK f : LevelsFrom(f, m - 1, arity)
      BY <3>1
    <3> DEFINE top == IF m = 1 THEN <<1>> ELSE <<m>> \o f[CeilingDiv(m, arity)]
               g == [x \in 1..m |-> IF x = m THEN top ELSE f[x]]
    <3>3. ASSUME NEW x \in 1..m
          PROVE  g[x] = IF x = 1 THEN <<1>> ELSE <<x>> \o g[CeilingDiv(x, arity)]
      <4>1. ASSUME x # 1
            PROVE  CeilingDiv(x, arity) \in 1..m /\ CeilingDiv(x, arity) # m
                   /\ CeilingDiv(x, arity) < x
        <5>1. x \in Nat /\ x > 1
          BY <4>1
        <5>2. CeilingDiv(x, arity) \in Nat /\ CeilingDiv(x, arity) < x /\ CeilingDiv(x, arity) > 0
          BY <5>1, CeilingDivides, CeilingDivLess
        <5> QED
          BY <5>1, <5>2
      <4>2. ASSUME x # 1 PROVE g[CeilingDiv(x, arity)] = f[CeilingDiv(x, arity)]
        BY <4>1, <4>2
      <4>3. CASE x = m
        BY <4>2, <4>3
      <4>4. CASE x # m
        <5>1. x \in 1..(m - 1)
          BY <4>4
        <5>2. f[x] = IF x = 1 THEN <<1>> ELSE <<x>> \o f[CeilingDiv(x, arity)]
          BY <3>2, <5>1 DEF LevelsFrom
        <5> QED
          BY <4>2, <4>4, <5>2
      <4> QED
        BY <4>3, <4>4
    <3>4. g = [x \in 1..m |-> g[x]]
      OBVIOUS
    <3> HIDE DEF g, top
    <3>5. LevelsFrom(g, m, arity)
      BY <3>3, <3>4 DEF LevelsFrom
    <3> QED
      BY <2>1, <3>5
  <2> QED
    BY <2>2, <2>3
<1>2. n \in 0..n /\ n \notin Missing
  BY <1>1
<1> QED
  BY <1>2

\* Every level is the number of runs the level below is cut into, down to one.
IsLevels(s, n, arity) ==
    /\ s \in Seq(Nat \ {0}) /\ Len(s) > 0
    /\ s[1] = n /\ s[Len(s)] = 1
    /\ \A l \in 1..(Len(s) - 1) : s[l] > 1 /\ s[l + 1] = CeilingDiv(s[l], arity)

LEMMA LevelsGrow ==
    ASSUME NEW arity, NEW n \in Nat \ {0, 1}, NEW s, IsLevels(s, CeilingDiv(n, arity), arity)
    PROVE  IsLevels(<<n>> \o s, n, arity)
<1> DEFINE t == <<n>> \o s
<1>1. s \in Seq(Nat \ {0}) /\ Len(s) \in Nat /\ Len(s) > 0
  BY DEF IsLevels
<1>2. <<n>> \in Seq(Nat \ {0}) /\ Len(<<n>>) = 1 /\ <<n>>[1] = n
  OBVIOUS
<1>3. /\ t \in Seq(Nat \ {0}) /\ Len(t) = Len(s) + 1
      /\ t[1] = n /\ \A l \in 1..Len(s) : t[l + 1] = s[l]
  <2>1. /\ t \in Seq(Nat \ {0}) /\ Len(t) = Len(s) + 1
        /\ \A i \in 1..(1 + Len(s)) : t[i] = IF i <= 1 THEN n ELSE s[i - 1]
    BY <1>1, <1>2, ConcatProperties
  <2> HIDE DEF t
  <2>2. 1 \in 1..(1 + Len(s))
    BY <1>1
  <2>3. ASSUME NEW l \in 1..Len(s) PROVE t[l + 1] = s[l]
    <3>1. l + 1 \in 1..(1 + Len(s)) /\ ~(l + 1 <= 1) /\ l + 1 - 1 = l
      BY <1>1
    <3> QED
      BY <2>1, <3>1
  <2> QED
    BY <2>1, <2>2, <2>3
<1> HIDE DEF t
<1>4. t[Len(t)] = 1
  <2>1. Len(s) \in 1..Len(s)
    BY <1>1
  <2> QED
    BY <1>1, <1>3, <2>1 DEF IsLevels
<1>5. ASSUME NEW l \in 1..(Len(t) - 1) PROVE t[l] > 1 /\ t[l + 1] = CeilingDiv(t[l], arity)
  <2>1. CASE l = 1
    <3>1. 1 \in 1..Len(s)
      BY <1>1
    <3>2. t[1 + 1] = s[1]
      BY <1>3, <3>1
    <3> QED
      BY <1>3, <2>1, <3>2 DEF IsLevels
  <2>2. CASE l # 1
    <3>1. l - 1 \in 1..Len(s) /\ l \in 1..Len(s) /\ l - 1 + 1 = l /\ l - 1 \in 1..(Len(s) - 1)
      BY <1>1, <1>3, <2>2
    <3>2. t[l + 1] = s[l] /\ t[l] = s[l - 1]
      BY <1>3, <3>1
    <3>3. s[l - 1] > 1 /\ s[l] = CeilingDiv(s[l - 1], arity)
      BY <3>1 DEF IsLevels
    <3> QED
      BY <3>2, <3>3
  <2> QED
    BY <2>1, <2>2
<1>6. IsLevels(t, n, arity)
  BY <1>1, <1>3, <1>4, <1>5 DEF IsLevels
<1> QED
  BY <1>6 DEF t

LEMMA LevelsFromAre ==
    ASSUME NEW arity \in Nat \ {0, 1}, NEW n \in Nat, NEW f, LevelsFrom(f, n, arity)
    PROVE  \A x \in 1..n : IsLevels(f[x], x, arity)
<1> DEFINE Wrong == {x \in 1..n : ~IsLevels(f[x], x, arity)}
<1>1. ASSUME Wrong # {} PROVE FALSE
  <2>1. PICK x \in Wrong : \A k \in Wrong : x <= k
    <3>1. Wrong \subseteq Nat
      OBVIOUS
    <3> HIDE DEF Wrong
    <3> QED
      BY <1>1, <3>1, LeastNumber
  <2>2. x \in 1..n /\ f[x] = IF x = 1 THEN <<1>> ELSE <<x>> \o f[CeilingDiv(x, arity)]
    BY <2>1 DEF LevelsFrom
  <2>3. CASE x = 1
    <3>1. f[x] = <<1>>
      BY <2>2, <2>3
    <3> DEFINE s == <<1>>
    <3>2. s \in Seq(Nat \ {0}) /\ Len(s) = 1 /\ s[1] = 1
      OBVIOUS
    <3> HIDE DEF s
    <3>3. IsLevels(s, 1, arity)
      BY <3>2 DEF IsLevels
    <3> QED
      BY <2>1, <2>3, <3>1, <3>3 DEF s
  <2>4. CASE x # 1
    <3>1. x \in Nat \ {0, 1} /\ x > 1
      BY <2>2, <2>4
    <3>2. /\ CeilingDiv(x, arity) \in Nat /\ CeilingDiv(x, arity) < x /\ CeilingDiv(x, arity) > 0
      BY <3>1, CeilingDivides, CeilingDivLess
    <3>3. CeilingDiv(x, arity) \in 1..n /\ ~(x <= CeilingDiv(x, arity))
      BY <2>2, <3>2
    <3>4. CeilingDiv(x, arity) \notin Wrong
      <4> HIDE DEF Wrong
      <4> QED
        BY <2>1, <3>3
    <3>5. IsLevels(f[CeilingDiv(x, arity)], CeilingDiv(x, arity), arity)
      BY <3>3, <3>4
    <3>6. IsLevels(<<x>> \o f[CeilingDiv(x, arity)], x, arity)
      BY <3>1, <3>5, LevelsGrow
    <3> QED
      BY <2>1, <2>2, <2>4, <3>6
  <2> QED
    BY <2>3, <2>4
<1> QED
  BY <1>1

LEMMA LevelCountsAre ==
    ASSUME NEW arity \in Nat \ {0, 1}, NEW n \in Nat
    PROVE  IsLevels(LevelCounts(n, arity), AtLeastOne(CeilingDiv(n, arity)), arity)
<1> DEFINE f == CHOOSE g : LevelsFrom(g, AtLeastOne(n), arity)
           c == AtLeastOne(CeilingDiv(n, arity))
<1>1. AtLeastOne(n) \in Nat \ {0}
  BY DEF AtLeastOne
<1>2. LevelsFrom(f, AtLeastOne(n), arity)
  BY <1>1, LevelsFromExist
<1>3. LevelCounts(n, arity) = f[c]
  BY DEF LevelCounts, LevelsFrom
<1> HIDE DEF f
<1>4. c \in 1..AtLeastOne(n)
  <2>1. /\ CeilingDiv(n, arity) \in Nat
        /\ n > 1 => CeilingDiv(n, arity) < n
        /\ n > 0 => CeilingDiv(n, arity) > 0
        /\ n = 0 => CeilingDiv(n, arity) = 0
    BY CeilingDivides, CeilingDivLess
  <2>2. n = 1 => CeilingDiv(n, arity) <= 1
    <3>1. \A i \in Nat : i < CeilingDiv(1, arity) => i * arity < 1
      BY CeilingDivides
    <3>2. 1 < CeilingDiv(1, arity) => 1 * arity < 1
      BY <3>1
    <3>3. CeilingDiv(1, arity) \in Nat
      BY CeilingDivides
    <3> QED
      BY <3>2, <3>3
  <2> DEFINE d == CeilingDiv(n, arity)
  <2> HIDE DEF d
  <2>3. AtLeastOne(d) \in 1..AtLeastOne(n)
    BY <2>1, <2>2 DEF AtLeastOne, d
  <2> QED
    BY <2>3 DEF d
<1> HIDE DEF c
<1>5. IsLevels(f[c], c, arity)
  BY <1>1, <1>2, <1>4, LevelsFromAre
<1> QED
  BY <1>3, <1>5 DEF c

LEMMA NodesUpToIs ==
    ASSUME NEW counts \in Seq(Nat)
    PROVE  /\ NodesUpTo(counts) \in [0..Len(counts) -> Nat]
           /\ NodesUpTo(counts)[0] = 0
           /\ \A l \in 1..Len(counts) : NodesUpTo(counts)[l] = NodesUpTo(counts)[l - 1] + counts[l]
<1> DEFINE n == Len(counts)
           step == [l \in 1..n |-> [x \in Nat |-> x + counts[l]]]
           Is(f) == f = [l \in 0..n |-> IF l = 0 THEN 0 ELSE f[l - 1] + counts[l]]
           g == CHOOSE f : Is(f)
<1>1. n \in Nat /\ \A l \in 1..n : counts[l] \in Nat
  OBVIOUS
<1>2. step \in [1..n -> [Nat -> Nat]]
  BY <1>1
<1>3. PICK f \in [0..n -> Nat] : Iterates(f, 0, step, n)
  <2> HIDE DEF step
  <2> QED
    BY <1>1, <1>2, IteratesExist
<1>4. Is(f)
  <2>1. ASSUME NEW l \in 0..n
        PROVE  (IF l = 0 THEN 0 ELSE step[l][f[l - 1]]) = IF l = 0 THEN 0 ELSE f[l - 1] + counts[l]
    <3>1. l # 0 => l \in 1..n /\ l - 1 \in 0..n
      BY <1>1
    <3>2. l # 0 => f[l - 1] \in Nat
      BY <1>3, <3>1
    <3> QED
      BY <3>1, <3>2
  <2> HIDE DEF step
  <2> QED
    BY <1>3, <2>1 DEF Iterates
<1>5. Is(g)
  BY <1>4
<1>6. NodesUpTo(counts) = g
  BY DEF NodesUpTo
<1> HIDE DEF g
<1>7. ASSUME NEW h, Is(h), NEW l \in 0..n, h[l] \notin Nat PROVE FALSE
  <2> DEFINE Wrong == {m \in 0..n : h[m] \notin Nat}
  <2>1. PICK m \in Wrong : \A k \in Wrong : m <= k
    <3>1. l \in Wrong /\ Wrong \subseteq 0..n
      BY <1>7
    <3>2. 0..n \subseteq Nat
      OBVIOUS
    <3> HIDE DEF Wrong
    <3>3. Wrong \subseteq Nat /\ Wrong # {}
      BY <3>1, <3>2
    <3> QED
      BY <3>3, LeastNumber
  <2>2. m \in 0..n /\ h[m] = IF m = 0 THEN 0 ELSE h[m - 1] + counts[m]
    BY <1>7, <2>1
  <2>3. m # 0
    BY <2>1, <2>2
  <2>4. m \in 1..n /\ m - 1 \in 0..n /\ ~(m <= m - 1)
    BY <2>2, <2>3
  <2>5. m - 1 \notin Wrong
    <3> HIDE DEF Wrong
    <3> QED
      BY <2>1, <2>4
  <2>6. h[m - 1] \in Nat
    BY <2>4, <2>5
  <2> QED
    BY <1>1, <2>1, <2>2, <2>3, <2>4, <2>6
<1>8. \A l \in 0..n : g[l] \in Nat
  BY <1>5, <1>7
<1>9. g = [l \in 0..n |-> IF l = 0 THEN 0 ELSE g[l - 1] + counts[l]]
  BY <1>5
<1>10. g \in [0..n -> Nat]
  BY <1>8, <1>9
<1>11. g[0] = 0 /\ \A l \in 1..n : g[l] = g[l - 1] + counts[l]
  <2>1. 0 \in 0..n /\ \A l \in 1..n : l \in 0..n /\ l # 0
    BY <1>1
  <2> QED
    BY <1>9, <2>1
<1> QED
  BY <1>6, <1>10, <1>11

-----------------------------------------------------------------------------
(* A tree over `total` things: on level k, counting from 0, every node stands for up   *)
(* to `arity` entries, which are the things or the nodes of the level below.           *)

TreeHeight(total, arity) == Len(LevelCounts(total, arity))

\* The entries that level k is made of, and the address of its first node.
TreeEntries(total, arity, k) == IF k = 0 THEN total ELSE LevelCounts(total, arity)[k]
TreeBase(total, arity, k) == NodesUpTo(LevelCounts(total, arity))[k]

\* The things under a full entry of level k, and the first thing under the m-th entry.
TreeSpan(total, arity) ==
    LET power[k \in 0..TreeHeight(total, arity)] == IF k = 0 THEN 1 ELSE power[k - 1] * arity
    IN  power
TreeStart(total, arity, k, m) ==
    IF (m - 1) * TreeSpan(total, arity)[k] < total
    THEN (m - 1) * TreeSpan(total, arity)[k] + 1 ELSE total + 1

\* The entries of the i-th node of level k.
TreeFanout(total, arity, k, i) ==
    IF i * arity <= TreeEntries(total, arity, k)
    THEN arity ELSE TreeEntries(total, arity, k) - (i - 1) * arity

LEMMA TreeEntriesAre ==
    ASSUME NEW total \in Nat, NEW arity \in Nat \ {0, 1}
    PROVE  /\ arity \in Nat \ {0, 1} /\ TreeHeight(total, arity) \in Nat \ {0}
           /\ LevelCounts(total, arity) \in Seq(Nat)
           /\ \A k \in 0..TreeHeight(total, arity) : TreeEntries(total, arity, k) \in Nat
           /\ \A k \in 1..TreeHeight(total, arity) : /\ TreeEntries(total, arity, k) # 0
                                   /\ TreeEntries(total, arity, k) = AtLeastOne(CeilingDiv(TreeEntries(total, arity, k - 1), arity))
           /\ TreeEntries(total, arity, TreeHeight(total, arity)) = 1
           /\ total = 0 => TreeHeight(total, arity) = 1
           /\ TreeBase(total, arity, 0) = 0 /\ \A k \in 0..TreeHeight(total, arity) : TreeBase(total, arity, k) \in Nat
           /\ \A k \in 1..TreeHeight(total, arity) : TreeBase(total, arity, k) = TreeBase(total, arity, k - 1) + TreeEntries(total, arity, k)
<1>0. arity \in Nat \ {0, 1}
  OBVIOUS
<1>1. IsLevels(LevelCounts(total, arity), AtLeastOne(CeilingDiv(total, arity)), arity)
  BY <1>0, LevelCountsAre
<1>2. /\ LevelCounts(total, arity) \in Seq(Nat \ {0}) /\ TreeHeight(total, arity) \in Nat \ {0}
      /\ LevelCounts(total, arity)[1] = AtLeastOne(CeilingDiv(total, arity))
      /\ LevelCounts(total, arity)[TreeHeight(total, arity)] = 1
      /\ \A l \in 1..(TreeHeight(total, arity) - 1) :
             LevelCounts(total, arity)[l] > 1 /\ LevelCounts(total, arity)[l + 1] = CeilingDiv(LevelCounts(total, arity)[l], arity)
  BY <1>1 DEF IsLevels, TreeHeight
<1>3. \A l \in 1..TreeHeight(total, arity) : LevelCounts(total, arity)[l] \in Nat \ {0}
  BY <1>2 DEF TreeHeight
<1>4. \A k \in 0..TreeHeight(total, arity) : TreeEntries(total, arity, k) \in Nat
  BY <1>2, <1>3 DEF TreeEntries
<1>5. ASSUME NEW k \in 1..TreeHeight(total, arity)
      PROVE  /\ TreeEntries(total, arity, k) # 0
             /\ TreeEntries(total, arity, k) = AtLeastOne(CeilingDiv(TreeEntries(total, arity, k - 1), arity))
  <2>1. k # 0 /\ TreeEntries(total, arity, k) = LevelCounts(total, arity)[k] /\ TreeEntries(total, arity, k) \in Nat \ {0}
    BY <1>3 DEF TreeEntries
  <2>2. CASE k = 1
    BY <1>2, <2>1, <2>2 DEF TreeEntries
  <2>3. CASE k # 1
    <3>1. k - 1 \in 1..(TreeHeight(total, arity) - 1) /\ k - 1 # 0 /\ k - 1 + 1 = k
      BY <1>2, <2>3
    <3>2. TreeEntries(total, arity, k) = CeilingDiv(TreeEntries(total, arity, k - 1), arity)
      BY <1>2, <2>1, <3>1 DEF TreeEntries
    <3> QED
      BY <2>1, <3>2 DEF AtLeastOne
  <2> QED
    BY <2>2, <2>3
<1>6. TreeEntries(total, arity, TreeHeight(total, arity)) = 1
  BY <1>2 DEF TreeEntries
<1>7. LevelCounts(total, arity) \in Seq(Nat)
  <2>1. \A l \in 1..TreeHeight(total, arity) : LevelCounts(total, arity)[l] \in Nat
    BY <1>3
  <2>2. LevelCounts(total, arity) \in [1..TreeHeight(total, arity) -> Nat]
    BY <1>2, <2>1 DEF TreeHeight
  <2> QED
    BY <1>2, <2>2
<1>8. TreeBase(total, arity, 0) = 0 /\ \A k \in 0..TreeHeight(total, arity) : TreeBase(total, arity, k) \in Nat
  BY <1>7, NodesUpToIs DEF TreeBase, TreeHeight
<1>9. \A k \in 1..TreeHeight(total, arity) : TreeBase(total, arity, k) = TreeBase(total, arity, k - 1) + TreeEntries(total, arity, k)
  BY <1>7, NodesUpToIs DEF TreeBase, TreeHeight, TreeEntries
<1>10. total = 0 => TreeHeight(total, arity) = 1
  <2>1. total = 0 => LevelCounts(total, arity)[1] = 1
    BY <1>0, <1>2, CeilingDivLess DEF AtLeastOne
  <2> QED
    BY <1>2, <2>1
<1> QED
  BY <1>0, <1>2, <1>4, <1>5, <1>6, <1>7, <1>8, <1>9, <1>10

LEMMA TreeSpanIs ==
    ASSUME NEW total \in Nat, NEW arity \in Nat \ {0, 1}
    PROVE  /\ TreeSpan(total, arity) \in [0..TreeHeight(total, arity) -> Nat \ {0}] /\ TreeSpan(total, arity)[0] = 1
           /\ \A k \in 1..TreeHeight(total, arity) : TreeSpan(total, arity)[k] = TreeSpan(total, arity)[k - 1] * arity
<1> DEFINE N == Nat \ {0}
           step == [k \in 1..TreeHeight(total, arity) |-> [x \in N |-> x * arity]]
           Is(f) == f = [k \in 0..TreeHeight(total, arity) |-> IF k = 0 THEN 1 ELSE f[k - 1] * arity]
           g == CHOOSE f : Is(f)
<1>1. TreeHeight(total, arity) \in Nat /\ arity \in N
  BY TreeEntriesAre
<1>2. \A x \in N : x * arity \in N
  <2> SUFFICES ASSUME NEW x \in N PROVE x * arity \in N
    OBVIOUS
  <2>1. 1 * arity <= x * arity /\ x * arity \in Nat
    BY <1>1, ProductsGrow
  <2> QED
    BY <1>1, <2>1
<1>3. step \in [1..TreeHeight(total, arity) -> [N -> N]]
  BY <1>2
<1>4. PICK f \in [0..TreeHeight(total, arity) -> N] : Iterates(f, 1, step, TreeHeight(total, arity))
  <2> HIDE DEF step
  <2>1. 1 \in N
    OBVIOUS
  <2> HIDE DEF N
  <2> QED
    BY <1>1, <1>3, <2>1, IteratesExist
<1>5. Is(f)
  <2>1. ASSUME NEW k \in 0..TreeHeight(total, arity)
        PROVE  (IF k = 0 THEN 1 ELSE step[k][f[k - 1]]) = IF k = 0 THEN 1 ELSE f[k - 1] * arity
    <3>1. k # 0 => k \in 1..TreeHeight(total, arity) /\ k - 1 \in 0..TreeHeight(total, arity)
      BY <1>1
    <3>2. k # 0 => f[k - 1] \in N
      BY <1>4, <3>1
    <3> QED
      BY <3>1, <3>2
  <2> HIDE DEF step
  <2> QED
    BY <1>4, <2>1 DEF Iterates
<1>6. Is(g)
  BY <1>5
<1>7. TreeSpan(total, arity) = g
  BY DEF TreeSpan
<1> HIDE DEF g, step
<1>8. ASSUME NEW h, Is(h), NEW l \in 0..TreeHeight(total, arity), h[l] \notin N PROVE FALSE
  <2> DEFINE Wrong == {m \in 0..TreeHeight(total, arity) : h[m] \notin N}
  <2>1. PICK m \in Wrong : \A k \in Wrong : m <= k
    <3>1. l \in Wrong /\ Wrong \subseteq 0..TreeHeight(total, arity)
      BY <1>8
    <3>2. 0..TreeHeight(total, arity) \subseteq Nat
      BY <1>1
    <3> HIDE DEF Wrong
    <3>3. Wrong \subseteq Nat /\ Wrong # {}
      BY <3>1, <3>2
    <3> QED
      BY <3>3, LeastNumber
  <2>2. m \in 0..TreeHeight(total, arity) /\ h[m] = IF m = 0 THEN 1 ELSE h[m - 1] * arity
    BY <1>8, <2>1
  <2>3. m # 0
    BY <2>1, <2>2
  <2>4. m \in 1..TreeHeight(total, arity) /\ m - 1 \in 0..TreeHeight(total, arity) /\ ~(m <= m - 1)
    BY <1>1, <2>2, <2>3
  <2>5. m - 1 \notin Wrong
    <3> HIDE DEF Wrong
    <3> QED
      BY <2>1, <2>4
  <2>6. h[m - 1] \in N
    BY <2>4, <2>5
  <2> QED
    BY <1>2, <2>1, <2>2, <2>3, <2>6
<1>9. \A l \in 0..TreeHeight(total, arity) : g[l] \in N
  BY <1>6, <1>8
<1>10. g = [k \in 0..TreeHeight(total, arity) |-> IF k = 0 THEN 1 ELSE g[k - 1] * arity]
  BY <1>6
<1>11. g \in [0..TreeHeight(total, arity) -> N]
  BY <1>9, <1>10
<1>12. g[0] = 1 /\ \A k \in 1..TreeHeight(total, arity) : g[k] = g[k - 1] * arity
  <2>1. 0 \in 0..TreeHeight(total, arity) /\ \A k \in 1..TreeHeight(total, arity) : k \in 0..TreeHeight(total, arity) /\ k # 0
    BY <1>1
  <2> QED
    BY <1>10, <2>1
<1> QED
  BY <1>7, <1>11, <1>12

\* There is an m-th entry exactly when a chunk is left for it.
LEMMA TreeEntriesHave ==
    ASSUME NEW total \in Nat \ {0}, NEW arity \in Nat \ {0, 1}
    PROVE  \A k \in 0..TreeHeight(total, arity) : \A m \in Nat \ {0} :
               m <= TreeEntries(total, arity, k) <=> (m - 1) * TreeSpan(total, arity)[k] < total
<1> DEFINE Good(k) ==
               \A m \in Nat \ {0} : m <= TreeEntries(total, arity, k) <=> (m - 1) * TreeSpan(total, arity)[k] < total
           Wrong == {k \in 0..TreeHeight(total, arity) : ~Good(k)}
<1>1. /\ TreeHeight(total, arity) \in Nat /\ arity \in Nat \ {0}
      /\ \A k \in 0..TreeHeight(total, arity) : TreeEntries(total, arity, k) \in Nat
  BY TreeEntriesAre
<1>2. /\ TreeSpan(total, arity)[0] = 1 /\ \A k \in 0..TreeHeight(total, arity) : TreeSpan(total, arity)[k] \in Nat \ {0}
      /\ \A k \in 1..TreeHeight(total, arity) : TreeSpan(total, arity)[k] = TreeSpan(total, arity)[k - 1] * arity
  BY TreeSpanIs
<1>3. ASSUME Wrong # {} PROVE FALSE
  <2>1. PICK k \in Wrong : \A j \in Wrong : k <= j
    <3>1. Wrong \subseteq 0..TreeHeight(total, arity) /\ 0..TreeHeight(total, arity) \subseteq Nat
      BY <1>1
    <3> HIDE DEF Wrong
    <3> QED
      BY <1>3, <3>1, LeastNumber
  <2>2. k \in 0..TreeHeight(total, arity) /\ ~Good(k)
    BY <2>1
  <2>3. k # 0
    <3>1. ASSUME k = 0, NEW m \in Nat \ {0}
          PROVE m <= TreeEntries(total, arity, k) <=> (m - 1) * TreeSpan(total, arity)[k] < total
      <4>1. TreeEntries(total, arity, k) = total /\ (m - 1) * TreeSpan(total, arity)[k] = m - 1
        BY <1>2, <3>1 DEF TreeEntries
      <4> QED
        BY <4>1
    <3> QED
      BY <2>2, <3>1
  <2>4. k \in 1..TreeHeight(total, arity) /\ k - 1 \in 0..TreeHeight(total, arity) /\ ~(k <= k - 1)
    BY <1>1, <2>2, <2>3
  <2>5. Good(k - 1)
    <3>1. k - 1 \notin Wrong
      <4> HIDE DEF Wrong
      <4> QED
        BY <2>1, <2>4
    <3> QED
      BY <2>4, <3>1
  <2> DEFINE e == TreeEntries(total, arity, k - 1)
             s == TreeSpan(total, arity)[k - 1]
             c == CeilingDiv(e, arity)
  <2>6. e \in Nat \ {0}
    <3>1. (1 - 1) * TreeSpan(total, arity)[k - 1] < total
      BY <1>2, <2>4
    <3>2. 1 <= TreeEntries(total, arity, k - 1)
      BY <2>5, <3>1
    <3> QED
      BY <1>1, <2>4, <3>2
  <2>7. s \in Nat \ {0} /\ TreeSpan(total, arity)[k] = s * arity
    BY <1>2, <2>4
  <2>8. TreeEntries(total, arity, k) = AtLeastOne(c)
    BY <2>4, TreeEntriesAre
  <2> HIDE DEF e, s
  <2>9. c \in Nat /\ e <= c * arity /\ \A i \in Nat : i < c => i * arity < e
    BY <1>1, <2>6, CeilingDivides
  <2>10. \A m \in Nat \ {0} : m <= e <=> (m - 1) * s < total
    BY <2>5 DEF e, s
  <2> HIDE DEF c
  <2>11. c # 0 /\ TreeEntries(total, arity, k) = c
    <3>1. c = 0 => c * arity = 0
      BY <1>1
    <3> QED
      BY <2>6, <2>8, <2>9, <3>1 DEF AtLeastOne
  <2>12. ASSUME NEW m \in Nat \ {0}
         PROVE m <= TreeEntries(total, arity, k) <=> (m - 1) * TreeSpan(total, arity)[k] < total
    <3> DEFINE j == (m - 1) * arity
    <3>1. m - 1 \in Nat /\ j \in Nat
      BY <1>1
    <3>2. (m - 1) * TreeSpan(total, arity)[k] = j * s
      BY <1>1, <2>7, <3>1
    <3>3. m <= c <=> j < e
      <4>1. m <= c => j < e
        <5>1. m <= c => m - 1 < c
          BY <2>9
        <5>2. m - 1 < c => (m - 1) * arity < e
          BY <2>9, <3>1
        <5> QED
          BY <5>1, <5>2
      <4>2. ASSUME m > c PROVE ~(j < e)
        <5>1. c <= m - 1
          BY <2>9, <4>2
        <5>2. c * arity <= (m - 1) * arity
          BY <1>1, <2>9, <3>1, <5>1, ProductsGrow
        <5>3. c * arity \in Nat
          BY <1>1, <2>9
        <5> QED
          BY <2>6, <2>9, <3>1, <5>2, <5>3
      <4> QED
        BY <2>9, <4>1, <4>2
    <3> HIDE DEF j
    <3>4. j + 1 \in Nat \ {0} /\ j + 1 - 1 = j /\ (j < e <=> j + 1 <= e)
      BY <2>6, <3>1
    <3>5. j + 1 <= e <=> j * s < total
      <4> DEFINE i == j + 1
      <4>1. i \in Nat \ {0} /\ i - 1 = j
        BY <3>1
      <4> HIDE DEF i
      <4>2. i <= e <=> (i - 1) * s < total
        BY <2>10, <4>1
      <4> QED
        BY <4>1, <4>2 DEF i
    <3> QED
      BY <2>11, <3>2, <3>3, <3>4, <3>5
  <2> QED
    BY <2>2, <2>12
<1> QED
  BY <1>3

\* The first chunks under the entries of a level ascend, from the first chunk to the end.
LEMMA TreeStartsAre ==
    ASSUME NEW total \in Nat, NEW arity \in Nat \ {0, 1}
    PROVE  /\ \A k \in 0..TreeHeight(total, arity) : \A m \in Nat \ {0} : TreeStart(total, arity, k, m) \in 1..(total + 1)
           /\ \A k \in 0..TreeHeight(total, arity) : TreeStart(total, arity, k, 1) = 1 /\ TreeStart(total, arity, k, TreeEntries(total, arity, k) + 1) = total + 1
           /\ \A m \in 1..(total + 1) : TreeStart(total, arity, 0, m) = m
           /\ \A k \in 1..TreeHeight(total, arity) : \A i \in Nat \ {0} : TreeStart(total, arity, k, i) = TreeStart(total, arity, k - 1, (i - 1) * arity + 1)
<1>1. /\ TreeHeight(total, arity) \in Nat /\ arity \in Nat \ {0}
      /\ \A k \in 0..TreeHeight(total, arity) : TreeEntries(total, arity, k) \in Nat
  BY TreeEntriesAre
<1>2. /\ TreeSpan(total, arity)[0] = 1 /\ \A k \in 0..TreeHeight(total, arity) : TreeSpan(total, arity)[k] \in Nat \ {0}
      /\ \A k \in 1..TreeHeight(total, arity) : TreeSpan(total, arity)[k] = TreeSpan(total, arity)[k - 1] * arity
  BY TreeSpanIs
<1>3. ASSUME NEW k \in 0..TreeHeight(total, arity), NEW m \in Nat \ {0}
      PROVE TreeStart(total, arity, k, m) \in 1..(total + 1)
  <2>1. (m - 1) * TreeSpan(total, arity)[k] \in Nat
    BY <1>2
  <2> QED
    BY <2>1 DEF TreeStart
<1>4. ASSUME NEW k \in 0..TreeHeight(total, arity)
      PROVE TreeStart(total, arity, k, 1) = 1 /\ TreeStart(total, arity, k, TreeEntries(total, arity, k) + 1) = total + 1
  <2>1. (1 - 1) * TreeSpan(total, arity)[k] = 0
    BY <1>2
  <2>2. TreeStart(total, arity, k, 1) = 1
    BY <2>1 DEF TreeStart
  <2>3. /\ TreeEntries(total, arity, k) + 1 \in Nat \ {0} /\ ~(TreeEntries(total, arity, k) + 1 <= TreeEntries(total, arity, k))
        /\ TreeEntries(total, arity, k) + 1 - 1 = TreeEntries(total, arity, k)
    BY <1>1
  <2>4. CASE total = 0
    <3>1. TreeStart(total, arity, k, TreeEntries(total, arity, k) + 1) \in 1..1
      BY <1>3, <2>3, <2>4
    <3> QED
      BY <2>2, <2>4, <3>1
  <2>5. CASE total # 0
    <3> DEFINE m == TreeEntries(total, arity, k) + 1
    <3>1. m \in Nat \ {0} /\ ~(m <= TreeEntries(total, arity, k))
      BY <2>3
    <3> HIDE DEF m
    <3>2. ~((m - 1) * TreeSpan(total, arity)[k] < total)
      BY <2>5, <3>1, TreeEntriesHave
    <3>3. TreeStart(total, arity, k, m) = total + 1
      BY <3>2 DEF TreeStart
    <3> QED
      BY <2>2, <3>3 DEF m
  <2> QED
    BY <2>4, <2>5
<1>5. ASSUME NEW m \in 1..(total + 1) PROVE TreeStart(total, arity, 0, m) = m
  <2>1. (m - 1) * TreeSpan(total, arity)[0] = m - 1
    BY <1>2
  <2> QED
    BY <2>1 DEF TreeStart
<1>6. ASSUME NEW k \in 1..TreeHeight(total, arity), NEW i \in Nat \ {0}
      PROVE  TreeStart(total, arity, k, i) = TreeStart(total, arity, k - 1, (i - 1) * arity + 1)
  <2> DEFINE s == TreeSpan(total, arity)[k - 1]
  <2>1. s \in Nat \ {0} /\ TreeSpan(total, arity)[k] = s * arity
    <3>1. k - 1 \in 0..TreeHeight(total, arity)
      BY <1>1
    <3> QED
      BY <1>2, <3>1
  <2> HIDE DEF s
  <2> DEFINE m == (i - 1) * arity + 1
  <2>2. (i - 1) * (s * arity) = ((i - 1) * arity) * s
    BY <1>1, <2>1
  <2>3. m - 1 = (i - 1) * arity
    BY <1>1
  <2> HIDE DEF m
  <2>4. (i - 1) * TreeSpan(total, arity)[k] = (m - 1) * TreeSpan(total, arity)[k - 1]
    BY <2>1, <2>2, <2>3 DEF s
  <2>5. TreeStart(total, arity, k, i) = TreeStart(total, arity, k - 1, m)
    BY <2>4 DEF TreeStart
  <2> QED
    BY <2>5 DEF m
<1> QED
  BY <1>3, <1>4, <1>5, <1>6

LEMMA TreeStartsAscend ==
    ASSUME NEW total \in Nat \ {0}, NEW arity \in Nat \ {0, 1}, NEW k \in 0..TreeHeight(total, arity), NEW m \in 1..(TreeEntries(total, arity, k) + 1),
           NEW t \in 1..(TreeEntries(total, arity, k) + 1), m < t
    PROVE  TreeStart(total, arity, k, m) < TreeStart(total, arity, k, t)
<1> DEFINE s == TreeSpan(total, arity)[k]
           e == TreeEntries(total, arity, k)
<1>1. s \in Nat \ {0} /\ e \in Nat
  <2>1. \A l \in 0..TreeHeight(total, arity) : TreeEntries(total, arity, l) \in Nat
    BY TreeEntriesAre
  <2>2. TreeSpan(total, arity) \in [0..TreeHeight(total, arity) -> Nat \ {0}]
    BY TreeSpanIs
  <2> QED
    BY <2>1, <2>2
<1>2. m \in Nat \ {0} /\ t \in Nat \ {0} /\ m <= e /\ m - 1 \in Nat /\ t - 1 \in Nat
  BY <1>1
<1>3. (m - 1) * s < total
  BY <1>2, TreeEntriesHave
<1> HIDE DEF s, e
<1>4. (m - 1) * s \in Nat /\ (t - 1) * s \in Nat
  BY <1>1, <1>2
<1>5. (m - 1 + 1) * s <= (t - 1) * s
  BY <1>1, <1>2, ProductsGrow
<1>6. (m - 1 + 1) * s = (m - 1) * s + s
  BY <1>1, <1>2
<1>7. (m - 1) * s < (t - 1) * s
  BY <1>1, <1>4, <1>5, <1>6
<1>8. (m - 1) * s + 1 < IF (t - 1) * s < total THEN (t - 1) * s + 1 ELSE total + 1
  BY <1>3, <1>4, <1>7
<1>9. TreeStart(total, arity, k, m) = (m - 1) * s + 1
  BY <1>3 DEF TreeStart, s
<1> QED
  BY <1>8, <1>9 DEF TreeStart, s

\* A node's entries are entries of its level, and end where the next node's begin.
LEMMA TreeFanoutIs ==
    ASSUME NEW total \in Nat, NEW arity \in Nat \ {0, 1}, NEW k \in 0..(TreeHeight(total, arity) - 1),
           NEW i \in 1..TreeEntries(total, arity, k + 1)
    PROVE  /\ TreeFanout(total, arity, k, i) \in 0..arity
           /\ (i - 1) * arity \in Nat
           /\ (i - 1) * arity + TreeFanout(total, arity, k, i) <= TreeEntries(total, arity, k)
           /\ TreeFanout(total, arity, k, i) = 0 <=> total = 0
           /\ total = 0 => TreeEntries(total, arity, k) = 0 /\ k = 0 /\ TreeHeight(total, arity) = 1 /\ i = 1
           /\ TreeStart(total, arity, k, (i - 1) * arity + 1) = TreeStart(total, arity, k + 1, i)
           /\ TreeStart(total, arity, k, (i - 1) * arity + TreeFanout(total, arity, k, i) + 1) = TreeStart(total, arity, k + 1, i + 1)
<1> DEFINE e == TreeEntries(total, arity, k)
           c == CeilingDiv(e, arity)
           f == (i - 1) * arity
           n == TreeFanout(total, arity, k, i)
<1>1. /\ TreeHeight(total, arity) \in Nat \ {0} /\ arity \in Nat \ {0} /\ e \in Nat
      /\ k \in 0..TreeHeight(total, arity) /\ k + 1 \in 1..TreeHeight(total, arity) /\ k + 1 - 1 = k
      /\ total = 0 => TreeHeight(total, arity) = 1
  <2>1. /\ TreeHeight(total, arity) \in Nat \ {0}
        /\ \A l \in 0..TreeHeight(total, arity) : TreeEntries(total, arity, l) \in Nat
        /\ total = 0 => TreeHeight(total, arity) = 1
    BY TreeEntriesAre
  <2>2. k \in 0..TreeHeight(total, arity) /\ k + 1 \in 1..TreeHeight(total, arity) /\ k + 1 - 1 = k
    BY <2>1
  <2> QED
    BY <2>1, <2>2
<1>2. TreeEntries(total, arity, k + 1) = AtLeastOne(c) /\ TreeEntries(total, arity, k + 1) \in Nat
  <2>1. TreeEntries(total, arity, k + 1) = AtLeastOne(CeilingDiv(TreeEntries(total, arity, k + 1 - 1), arity))
    BY <1>1, TreeEntriesAre
  <2>2. TreeEntries(total, arity, k + 1) \in Nat
    BY <1>1, TreeEntriesAre
  <2> QED
    BY <1>1, <2>1, <2>2
<1>3. i \in Nat \ {0} /\ i - 1 \in Nat /\ f \in Nat /\ i * arity = f + arity /\ i * arity \in Nat
  BY <1>1, <1>2
<1>4. c \in Nat /\ e <= c * arity /\ \A j \in Nat : j < c => j * arity < e
  BY <1>1, CeilingDivides
<1>5. e = 0 <=> total = 0
  <2>1. CASE k = 0
    BY <2>1 DEF TreeEntries
  <2>2. CASE k # 0
    <3>1. k \in 1..TreeHeight(total, arity)
      BY <1>1, <2>2
    <3>2. e # 0
      BY <3>1, TreeEntriesAre
    <3> QED
      BY <1>1, <2>2, <3>2
  <2> QED
    BY <2>1, <2>2
<1> HIDE DEF c, e
<1>6. CASE e = 0
  <2>1. c = 0
    <3>1. c > 0 => 0 * arity < e
      BY <1>4
    <3> QED
      BY <1>1, <1>4, <1>6, <3>1
  <2>2. i = 1 /\ k = 0
    BY <1>1, <1>2, <1>5, <1>6, <2>1 DEF AtLeastOne
  <2>3. f = 0
    BY <1>1, <2>2
  <2>4. n = 0
    BY <1>1, <1>3, <1>6, <2>3 DEF TreeFanout, e
  <2>5. /\ TreeStart(total, arity, k, f + 1) \in 1..(total + 1)
        /\ TreeStart(total, arity, k, f + n + 1) \in 1..(total + 1)
        /\ TreeStart(total, arity, k + 1, i) \in 1..(total + 1)
        /\ TreeStart(total, arity, k + 1, i + 1) \in 1..(total + 1)
    <3>1. /\ k \in 0..TreeHeight(total, arity) /\ k + 1 \in 0..TreeHeight(total, arity) /\ f + 1 \in Nat \ {0}
          /\ f + n + 1 \in Nat \ {0}
          /\ i + 1 \in Nat \ {0}
      BY <1>1, <1>3, <2>4
    <3> HIDE DEF f, n
    <3> QED
      BY <1>3, <3>1, TreeStartsAre
  <2>6. total + 1 = 1
    BY <1>5, <1>6
  <2>7. /\ TreeStart(total, arity, k, f + 1) = 1 /\ TreeStart(total, arity, k, f + n + 1) = 1
        /\ TreeStart(total, arity, k + 1, i) = 1 /\ TreeStart(total, arity, k + 1, i + 1) = 1
    <3> HIDE DEF f, n
    <3> QED
      BY <2>5, <2>6
  <2>8. n \in 0..arity /\ f + n <= e /\ (n = 0 <=> total = 0)
    BY <1>1, <1>3, <1>5, <1>6, <2>3, <2>4
  <2> HIDE DEF f, n
  <2> QED
    BY <1>1, <1>3, <1>5, <1>6, <2>2, <2>7, <2>8 DEF f, n, e
<1>7. CASE e # 0
  <2>1. c # 0
    <3>1. c = 0 => c * arity = 0
      BY <1>1
    <3> QED
      BY <1>1, <1>4, <1>7, <3>1
  <2>2. i - 1 < c
    BY <1>2, <1>3, <1>4, <2>1 DEF AtLeastOne
  <2>3. f < e
    BY <1>3, <1>4, <2>2
  <2>4. n = IF f + arity <= e THEN arity ELSE e - f
    BY <1>3 DEF TreeFanout, e
  <2> HIDE DEF f, n
  <2>5. n \in 1..arity /\ f + n <= e
    BY <1>1, <1>3, <2>3, <2>4
  <2>6. TreeStart(total, arity, k, f + 1) = TreeStart(total, arity, k + 1, i)
    <3>1. TreeStart(total, arity, k + 1, i) = TreeStart(total, arity, k + 1 - 1, (i - 1) * arity + 1)
      BY <1>1, <1>3, TreeStartsAre
    <3> QED
      BY <1>1, <3>1 DEF f
  <2>7. TreeStart(total, arity, k + 1, i + 1) = TreeStart(total, arity, k, f + arity + 1)
    <3> DEFINE j == i + 1
    <3>1. j \in Nat \ {0} /\ j - 1 = i
      BY <1>3
    <3> HIDE DEF j
    <3>2. TreeStart(total, arity, k + 1, j) = TreeStart(total, arity, k + 1 - 1, (j - 1) * arity + 1)
      <4>1. \A l \in 1..TreeHeight(total, arity) : \A u \in Nat \ {0} :
                TreeStart(total, arity, l, u) = TreeStart(total, arity, l - 1, (u - 1) * arity + 1)
        BY TreeStartsAre
      <4>2. k + 1 \in 1..TreeHeight(total, arity)
        BY <1>1
      <4> QED
        BY <3>1, <4>1, <4>2
    <3> QED
      BY <1>1, <1>3, <3>1, <3>2 DEF j
  <2>8. TreeStart(total, arity, k, f + n + 1) = TreeStart(total, arity, k, f + arity + 1)
    <3>1. CASE f + arity <= e
      BY <2>4, <3>1
    <3>2. CASE ~(f + arity <= e)
      <4> DEFINE m == f + arity + 1
      <4>1. f + n + 1 = e + 1
        BY <1>1, <1>3, <2>4, <3>2
      <4>2. TreeStart(total, arity, k, e + 1) = total + 1
        BY <1>1, TreeStartsAre DEF e
      <4>3. m \in Nat \ {0} /\ ~(m <= e)
        BY <1>1, <1>3, <3>2
      <4>4. total \in Nat \ {0}
        BY <1>5, <1>7
      <4> HIDE DEF m
      <4>5. ~((m - 1) * TreeSpan(total, arity)[k] < total)
        BY <1>1, <4>3, <4>4, TreeEntriesHave DEF e
      <4>6. TreeStart(total, arity, k, m) = total + 1
        BY <4>5 DEF TreeStart
      <4> QED
        BY <4>1, <4>2, <4>6 DEF m
    <3> QED
      BY <3>1, <3>2
  <2>9. n \in 0..arity /\ n # 0 /\ total # 0
    BY <1>5, <1>7, <2>5
  <2> QED
    BY <1>3, <2>5, <2>6, <2>7, <2>8, <2>9 DEF f, n, e
<1> QED
  BY <1>6, <1>7
=============================================================================
