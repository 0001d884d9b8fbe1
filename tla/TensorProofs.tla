----------------------------- MODULE TensorProofs -----------------------------
(***************************************************************************)
(* Theorems of borrowed tensors: whatever shape, strides, element size and *)
(* length a host passes, only bytes of its memory are read, the sums that  *)
(* the code leaves unchecked cannot overflow, and the tensor holds the     *)
(* bytes at the address of each element, in row-major order.               *)
(***************************************************************************)
EXTENDS DataPath, WellFoundedInduction, SequenceTheorems, TLAPS

(***************************************************************************)
(* Induction and recursion over the naturals, stated with sets and         *)
(* functions so that the provers can use them.                             *)
(***************************************************************************)

\* Every non-empty set of naturals has a least element.
LEMMA Least ==
  ASSUME NEW T \in SUBSET Nat, T # {}
  PROVE  \E x \in T : \A y \in T : x <= y
<1> DEFINE R == {ss \in Nat \X Nat : ss[1] < ss[2]}
<1>1. IsWellFoundedOn(R, Nat)
  BY NatLessThanWellFounded DEF OpToRel
<1> HIDE DEF R
<1>2. PICK x \in T : \A y \in T : ~ (<<y, x>> \in R)
  BY <1>1, WFMin
<1>3. \A y \in T : ~ (y < x)
  BY <1>2 DEF R
<1> QED BY <1>3

\* A set that holds 0, and n + 1 with every n, holds every natural.
LEMMA SetInduction ==
  ASSUME NEW S, 0 \in S, \A n \in Nat : n \in S => n + 1 \in S
  PROVE  \A n \in Nat : n \in S
<1> SUFFICES ASSUME Nat \ S # {} PROVE FALSE
  OBVIOUS
<1>1. PICK x \in Nat \ S : \A y \in Nat \ S : x <= y
  BY Least
<1>2. x # 0
  OBVIOUS
<1>3. x - 1 \in Nat /\ x - 1 \in S
  BY <1>1, <1>2
<1> QED BY <1>3

\* g starts with b and makes N steps of f, in the set V.
Runs(g, V, N, f, b) ==
  /\ g \in [0 .. N -> V]
  /\ g[0] = b
  /\ \A n \in 1 .. N : g[n] = f[<<n, g[n - 1]>>]

\* A function can be iterated any number of times.
LEMMA RecursionExists ==
  ASSUME NEW V, NEW N \in Nat, NEW f \in [(1 .. N) \X V -> V], NEW b \in V
  PROVE  \E g : Runs(g, V, N, f, b)
<1> DEFINE Upto(m) == \E g : Runs(g, V, m, f, b)
           S == {m \in Nat : m <= N => Upto(m)}
<1>1. Upto(0)
  <2>1. PICK g : g = [n \in 0 .. 0 |-> b]
    OBVIOUS
  <2>2. g \in [0 .. 0 -> V] /\ g[0] = b /\ 1 .. 0 = {}
    BY <2>1
  <2> QED BY <2>2 DEF Runs
<1>2. ASSUME NEW m \in Nat, Upto(m), m + 1 <= N PROVE Upto(m + 1)
  <2>1. PICK g : Runs(g, V, m, f, b)
    BY <1>2
  <2>2. PICK v \in V : v = f[<<m + 1, g[m]>>]
    <3>1. m + 1 \in 1 .. N /\ g[m] \in V
      BY <1>2, <2>1 DEF Runs
    <3>2. <<m + 1, g[m]>> \in (1 .. N) \X V
      BY <3>1
    <3> QED BY <3>2
  <2>3. PICK h : h = [n \in 0 .. m + 1 |-> IF n = m + 1 THEN v ELSE g[n]]
    OBVIOUS
  <2>4. \A n \in 0 .. m + 1 : n # m + 1 => n \in 0 .. m /\ h[n] = g[n]
    BY <2>3
  <2>5. h[m + 1] = v
    BY <2>3
  <2>6. h \in [0 .. m + 1 -> V]
    <3>1. \A n \in 0 .. m + 1 : (IF n = m + 1 THEN v ELSE g[n]) \in V
      BY <2>1, <2>4 DEF Runs
    <3> QED BY <2>3, <3>1, Zenon
  <2>7. h[0] = b
    BY <2>1, <2>4 DEF Runs
  <2>8. ASSUME NEW n \in 1 .. m + 1 PROVE h[n] = f[<<n, h[n - 1]>>]
    <3>1. n - 1 \in 0 .. m /\ h[n - 1] = g[n - 1]
      BY <2>4
    <3>2. CASE n = m + 1
      BY <2>2, <2>5, <3>1, <3>2
    <3>3. CASE n # m + 1
      <4>1. n \in 1 .. m /\ h[n] = g[n]
        BY <2>4, <3>3
      <4> QED BY <2>1, <3>1, <4>1 DEF Runs
    <3> QED BY <3>2, <3>3
  <2> QED BY <2>6, <2>7, <2>8 DEF Runs
<1>3. \A m \in Nat : m \in S
  <2>1. 0 \in S
    BY <1>1
  <2>2. ASSUME NEW m \in Nat, m \in S PROVE m + 1 \in S
    <3>1. m + 1 <= N => m <= N
      OBVIOUS
    <3> HIDE DEF Upto
    <3> QED BY <1>2, <2>2, <3>1
  <2> HIDE DEF S
  <2> QED BY <2>1, <2>2, SetInduction
<1>4. N \in S /\ N <= N
  BY <1>3
<1>5. Upto(N)
  <2> HIDE DEF Upto
  <2> QED BY <1>4
<1> QED BY <1>5

\* What satisfies the recursion is such a run.
LEMMA RunsTyped ==
  ASSUME NEW V, NEW N \in Nat, NEW f \in [(1 .. N) \X V -> V], NEW b \in V,
         NEW e, e = [n \in 0 .. N |-> e[n]], e[0] = b,
         \A n \in 1 .. N : e[n - 1] \in V => e[n] = f[<<n, e[n - 1]>>]
  PROVE  Runs(e, V, N, f, b)
<1> DEFINE S == {n \in Nat : n <= N => e[n] \in V}
<1>1. 0 \in S
  OBVIOUS
<1>2. ASSUME NEW n \in Nat, n \in S PROVE n + 1 \in S
  <2>1. ASSUME n + 1 <= N PROVE e[n + 1] \in V
    <3>1. n + 1 \in 1 .. N /\ (n + 1) - 1 = n /\ e[n] \in V
      BY <1>2, <2>1
    <3>2. e[n + 1] = f[<<n + 1, e[n]>>] /\ <<n + 1, e[n]>> \in (1 .. N) \X V
      BY <3>1
    <3> QED BY <3>2
  <2> QED BY <2>1
<1>3. \A n \in Nat : n \in S
  <2> HIDE DEF S
  <2> QED BY <1>1, <1>2, SetInduction
<1>4. \A n \in 0 .. N : e[n] \in V
  BY <1>3
<1>5. \A n \in 1 .. N : n - 1 \in 0 .. N
  OBVIOUS
<1> QED BY <1>4, <1>5 DEF Runs

(***************************************************************************)
(* The checked product and the checked sum.                                *)
(***************************************************************************)

\* e holds the checked products of the first n numbers.
Checked(e, s) ==
  /\ e \in [0 .. Len(s) -> Nat \cup {-1}]
  /\ e[0] = 1
  /\ \A n \in 1 .. Len(s) :
       e[n] = IF e[n - 1] >= 0 /\ InUsize(e[n - 1] * s[n]) THEN e[n - 1] * s[n] ELSE -1

\* Product runs its loop to the end.
LEMMA CheckedProduct ==
  ASSUME NEW s \in Seq(Nat)
  PROVE  \E e : Checked(e, s) /\ Product(s) = e[Len(s)]
<1>0. PICK V : V = Nat \cup {-1}
  OBVIOUS
<1>1. PICK N \in Nat : N = Len(s)
  OBVIOUS
<1> DEFINE Mul(v, n) == IF v >= 0 /\ InUsize(v * s[n]) THEN v * s[n] ELSE -1
           Eq(e) == e = [i \in 0 .. Len(s) |-> IF i = 0 THEN 1 ELSE Mul(e[i - 1], i)]
<1>2. PICK f : f = [x \in (1 .. N) \X V |-> Mul(x[2], x[1])]
  OBVIOUS
<1>3. f \in [(1 .. N) \X V -> V]
  <2>1. ASSUME NEW x \in (1 .. N) \X V PROVE Mul(x[2], x[1]) \in V
    <3>1. s[x[1]] \in Nat /\ x[2] \in Nat \cup {-1}
      BY <1>0, <1>1
    <3>2. x[2] >= 0 => x[2] * s[x[1]] \in Nat
      BY <3>1
    <3> QED BY <1>0, <3>2
  <2> HIDE DEF Mul
  <2> QED BY <1>2, <2>1
<1>4. PICK g : Runs(g, V, N, f, 1)
  BY <1>0, <1>3, RecursionExists
<1>5. \A n \in 1 .. N : \A v \in V : f[<<n, v>>] = Mul(v, n)
  <2> HIDE DEF Mul
  <2> QED BY <1>2
<1> HIDE DEF Mul
<1>6. Eq(g)
  <2>1. g = [i \in 0 .. N |-> g[i]]
    BY <1>4 DEF Runs
  <2>2. ASSUME NEW i \in 0 .. N PROVE g[i] = IF i = 0 THEN 1 ELSE Mul(g[i - 1], i)
    <3>1. i # 0 => i \in 1 .. N /\ i - 1 \in 0 .. N
      OBVIOUS
    <3> QED BY <1>4, <1>5, <3>1 DEF Runs
  <2> QED BY <1>1, <2>1, <2>2
<1>7. PICK e : Eq(e) /\ Product(s) = e[N]
  <2>1. PICK e : e = CHOOSE x : Eq(x)
    OBVIOUS
  <2>2. Eq(e)
    <3> HIDE DEF Eq
    <3> QED BY <1>6, <2>1
  <2>3. Product(s) = e[Len(s)]
    BY <2>1 DEF Product, Mul
  <2> QED BY <1>1, <2>2, <2>3
<1>8. Runs(e, V, N, f, 1)
  <2>1. e = [i \in 0 .. N |-> e[i]] /\ e[0] = 1
    BY <1>1, <1>7
  <2>2. ASSUME NEW n \in 1 .. N, e[n - 1] \in V PROVE e[n] = f[<<n, e[n - 1]>>]
    <3>1. n \in 0 .. N /\ n # 0
      OBVIOUS
    <3>2. e[n] = Mul(e[n - 1], n)
      BY <1>1, <1>7, <3>1
    <3> QED BY <1>5, <2>2, <3>2
  <2>3. 1 \in V
    BY <1>0
  <2> HIDE DEF Eq
  <2> QED BY <1>3, <2>1, <2>2, <2>3, RunsTyped
<1>9. \A n \in 1 .. N : e[n] = Mul(e[n - 1], n)
  <2>1. \A n \in 1 .. N : n - 1 \in 0 .. N
    OBVIOUS
  <2> QED BY <1>5, <1>8, <2>1 DEF Runs
<1>10. Checked(e, s)
  BY <1>0, <1>1, <1>8, <1>9 DEF Checked, Runs, Mul
<1> QED BY <1>1, <1>7, <1>10

\* A checked product is a number, or -1.
LEMMA ProductTyped ==
  ASSUME NEW s \in Seq(Nat)
  PROVE  Product(s) \in Nat \cup {-1}
<1>1. PICK e : Checked(e, s) /\ Product(s) = e[Len(s)]
  BY CheckedProduct
<1>2. Len(s) \in 0 .. Len(s)
  OBVIOUS
<1> QED BY <1>1, <1>2 DEF Checked

\* e holds the products of the first n dimensions.
Products(e, s) ==
  /\ e \in [0 .. Len(s) -> Nat]
  /\ e[0] = 1
  /\ \A n \in 1 .. Len(s) : e[n] = e[n - 1] * s[n]

\* When no check fails, the checked products are the products.
LEMMA ProductRuns ==
  ASSUME NEW s \in Seq(Nat), Product(s) >= 0
  PROVE  \E e : Products(e, s) /\ Product(s) = e[Len(s)]
<1>1. PICK e : Checked(e, s) /\ Product(s) = e[Len(s)]
  BY CheckedProduct
<1>2. PICK N \in Nat : N = Len(s)
  OBVIOUS
<1>3. ASSUME NEW n \in 1 .. N, e[n] >= 0
      PROVE  e[n - 1] >= 0 /\ e[n] = e[n - 1] * s[n]
  BY <1>1, <1>2, <1>3 DEF Checked
<1> DEFINE S == {k \in Nat : k <= N => e[N - k] >= 0}
<1>4. 0 \in S
  BY <1>1, <1>2
<1>5. ASSUME NEW k \in Nat, k \in S PROVE k + 1 \in S
  <2>1. ASSUME k + 1 <= N PROVE e[N - (k + 1)] >= 0
    <3>1. PICK m \in 1 .. N : m = N - k /\ m - 1 = N - (k + 1) /\ e[m] >= 0
      BY <1>5, <2>1
    <3> QED BY <1>3, <3>1
  <2> QED BY <2>1
<1>6. \A k \in Nat : k \in S
  <2> HIDE DEF S
  <2> QED BY <1>4, <1>5, SetInduction
<1>7. ASSUME NEW n \in 0 .. N PROVE e[n] >= 0 /\ e[n] \in Nat
  <2>1. PICK k \in Nat : k = N - n /\ k <= N /\ N - k = n
    OBVIOUS
  <2>2. e[n] >= 0
    BY <1>6, <2>1
  <2>3. e[n] \in Nat \cup {-1}
    <3>1. e \in [0 .. N -> Nat \cup {-1}]
      BY <1>1, <1>2 DEF Checked
    <3> QED BY <3>1
  <2> QED BY <2>2, <2>3
<1>8. \A n \in 1 .. N : e[n] = e[n - 1] * s[n]
  BY <1>3, <1>7
<1> QED BY <1>1, <1>2, <1>7, <1>8 DEF Checked, Products

\* Shapes and strides that pass the checks before the sum.
Strided(s, r) ==
  s \in Seq(Nat) /\ r \in Seq(Nat) /\ Len(r) = Len(s) /\ 0 \notin ToSet(s)

\* The span of an axis is a number.
LEMMA SpanNat ==
  ASSUME NEW s, NEW r, Strided(s, r), NEW n \in 1 .. Len(s)
  PROVE  s[n] \in Nat \ {0} /\ r[n] \in Nat /\ Span(s, r, n) \in Nat
<1>1. s[n] \in Nat /\ r[n] \in Nat
  BY DEF Strided
<1>2. s[n] # 0
  BY DEF Strided, ToSet
<1>3. PICK a \in Nat, b \in Nat : a = s[n] - 1 /\ b = r[n]
  BY <1>1, <1>2
<1>4. a * b \in Nat
  OBVIOUS
<1> QED BY <1>1, <1>2, <1>3, <1>4 DEF Span

\* e holds the sums of the spans of the first n axes.
SpanSums(e, s, r) ==
  /\ e \in [0 .. Len(s) -> Nat]
  /\ e[0] = 0
  /\ \A n \in 1 .. Len(s) : e[n] = e[n - 1] + Span(s, r, n)

\* When no check fails, the maximal offset is the sum of the spans.
LEMMA MaxOffsetSums ==
  ASSUME NEW s, NEW r, Strided(s, r), MaxOffset(s, r) >= 0
  PROVE  \E e : SpanSums(e, s, r) /\ e[Len(s)] = MaxOffset(s, r)
<1>0. PICK V : V = Nat \cup {-1}
  OBVIOUS
<1>1. PICK N \in Nat : N = Len(s)
  BY DEF Strided
<1> DEFINE Add(v, n) == IF /\ v >= 0 /\ InUsize(Span(s, r, n))
                           /\ InUsize(v + Span(s, r, n))
                        THEN v + Span(s, r, n) ELSE -1
           Eq(e) == e = [i \in 0 .. Len(s) |-> IF i = 0 THEN 0 ELSE Add(e[i - 1], i)]
<1>2. PICK f : f = [x \in (1 .. N) \X V |-> Add(x[2], x[1])]
  OBVIOUS
<1>3. f \in [(1 .. N) \X V -> V]
  <2>1. ASSUME NEW x \in (1 .. N) \X V PROVE Add(x[2], x[1]) \in V
    <3>1. Span(s, r, x[1]) \in Nat /\ x[2] \in Nat \cup {-1}
      BY <1>0, <1>1, SpanNat
    <3> QED BY <1>0, <3>1
  <2> HIDE DEF Add
  <2> QED BY <1>2, <2>1
<1>4. PICK g : Runs(g, V, N, f, 0)
  BY <1>0, <1>3, RecursionExists
<1>5. \A n \in 1 .. N : \A v \in V : f[<<n, v>>] = Add(v, n)
  <2> HIDE DEF Add
  <2> QED BY <1>2
<1>6. \A v : \A n : Add(v, n) >= 0 => v >= 0 /\ Add(v, n) = v + Span(s, r, n)
  OBVIOUS
<1> HIDE DEF Add
<1>7. Eq(g)
  <2>1. g = [i \in 0 .. N |-> g[i]]
    BY <1>4 DEF Runs
  <2>2. ASSUME NEW i \in 0 .. N PROVE g[i] = IF i = 0 THEN 0 ELSE Add(g[i - 1], i)
    <3>1. i # 0 => i \in 1 .. N /\ i - 1 \in 0 .. N
      OBVIOUS
    <3> QED BY <1>4, <1>5, <3>1 DEF Runs
  <2> QED BY <1>1, <2>1, <2>2
<1>8. PICK e : Eq(e) /\ MaxOffset(s, r) = e[N]
  <2>1. PICK e : e = CHOOSE x : Eq(x)
    OBVIOUS
  <2>2. Eq(e)
    <3> HIDE DEF Eq
    <3> QED BY <1>7, <2>1
  <2>3. MaxOffset(s, r) = e[Len(s)]
    BY <2>1 DEF MaxOffset, Add
  <2> QED BY <1>1, <2>2, <2>3
<1>9. Runs(e, V, N, f, 0)
  <2>1. e = [i \in 0 .. N |-> e[i]] /\ e[0] = 0
    BY <1>1, <1>8
  <2>2. ASSUME NEW n \in 1 .. N, e[n - 1] \in V PROVE e[n] = f[<<n, e[n - 1]>>]
    <3>1. n \in 0 .. N /\ n # 0
      OBVIOUS
    <3>2. e[n] = Add(e[n - 1], n)
      BY <1>1, <1>8, <3>1
    <3> QED BY <1>5, <2>2, <3>2
  <2>3. 0 \in V
    BY <1>0
  <2> HIDE DEF Eq
  <2> QED BY <1>3, <2>1, <2>2, <2>3, RunsTyped
<1>10. \A n \in 1 .. N : e[n] = Add(e[n - 1], n)
  <2>1. \A n \in 1 .. N : n - 1 \in 0 .. N
    OBVIOUS
  <2> QED BY <1>5, <1>9, <2>1 DEF Runs
<1> DEFINE S == {k \in Nat : k <= N => e[N - k] >= 0}
<1>11. 0 \in S
  BY <1>8
<1>12. ASSUME NEW k \in Nat, k \in S PROVE k + 1 \in S
  <2>1. ASSUME k + 1 <= N PROVE e[N - (k + 1)] >= 0
    <3>1. PICK m \in 1 .. N : m = N - k /\ m - 1 = N - (k + 1) /\ e[m] >= 0
      BY <1>12, <2>1
    <3> QED BY <1>6, <1>10, <3>1
  <2> QED BY <2>1
<1>13. \A k \in Nat : k \in S
  <2> HIDE DEF S
  <2> QED BY <1>11, <1>12, SetInduction
<1>14. ASSUME NEW n \in 0 .. N PROVE e[n] \in Nat
  <2>1. e[N - (N - n)] >= 0
    BY <1>13
  <2>2. e[n] \in Nat \cup {-1} /\ N - (N - n) = n
    BY <1>0, <1>9 DEF Runs
  <2> QED BY <2>1, <2>2
<1>15. \A n \in 1 .. N : e[n] = e[n - 1] + Span(s, r, n)
  <2>1. \A n \in 1 .. N : e[n] >= 0
    BY <1>14
  <2> QED BY <1>6, <1>10, <2>1
<1> QED BY <1>1, <1>8, <1>9, <1>14, <1>15 DEF Runs, SpanSums

(***************************************************************************)
(* The offset of an element.                                               *)
(***************************************************************************)

\* Products grow with their factors.
LEMMA TimesGrows ==
  ASSUME NEW a \in Nat, NEW b \in Nat, NEW c \in Nat, a <= b
  PROVE  a * c <= b * c
<1>1. PICK d \in Nat : b = a + d
  <2>1. b - a \in Nat /\ b = a + (b - a)
    OBVIOUS
  <2> QED BY <2>1
<1>2. b * c = a * c + d * c /\ d * c \in Nat /\ a * c \in Nat
  BY <1>1
<1> QED BY <1>2

\* One coordinate lies within its axis.
LEMMA CoordinateWithin ==
  ASSUME NEW q \in Nat, NEW d \in Nat \ {0}, NEW t \in Nat
  PROVE  /\ (q % d) * t \in Nat /\ (q % d) * t <= (d - 1) * t
         /\ q \div d \in Nat
<1>1. PICK c \in Nat : c = q % d /\ c <= d - 1
  OBVIOUS
<1>2. PICK p \in Nat : p = d - 1
  OBVIOUS
<1>3. c * t <= p * t /\ c * t \in Nat
  BY <1>1, <1>2, TimesGrows
<1>4. q \div d \in Nat
  OBVIOUS
<1> QED BY <1>1, <1>2, <1>3, <1>4

\* What the axes so far add to an offset, and what is left of the index.
Digits == [offset : Nat, rest : Nat]

\* d holds what the last n axes add, and what they leave.
Decomposition(d, s, r, flat) ==
  /\ d \in [0 .. Len(s) -> Digits]
  /\ d[0] = [offset |-> 0, rest |-> flat]
  /\ \A n \in 1 .. Len(s) : \A i \in 1 .. Len(s) : i = Len(s) - n + 1 =>
       d[n] = [offset |-> d[n - 1].offset + (d[n - 1].rest % s[i]) * r[i],
               rest |-> d[n - 1].rest \div s[i]]

\* Decomposed runs its loop to the end.
LEMMA DecomposedRuns ==
  ASSUME NEW s, NEW r, Strided(s, r), NEW flat \in Nat
  PROVE  Decomposition(Decomposed(s, r, flat), s, r, flat)
<1>1. PICK N \in Nat : N = Len(s)
  BY DEF Strided
<1> DEFINE Axis(v, i) == [offset |-> v.offset + (v.rest % s[i]) * r[i],
                          rest |-> v.rest \div s[i]]
           Eq(x) == x = [k \in 0 .. Len(s) |->
                           IF k = 0 THEN [offset |-> 0, rest |-> flat]
                           ELSE Axis(x[k - 1], Len(s) - k + 1)]
<1>2. ASSUME NEW v \in Digits, NEW i \in 1 .. N
      PROVE  Axis(v, i) \in Digits
  <2>1. PICK o \in Nat, q \in Nat : o = v.offset /\ q = v.rest
    BY DEF Digits
  <2>2. PICK d \in Nat \ {0}, t \in Nat : d = s[i] /\ t = r[i] /\ Span(s, r, i) = (d - 1) * t
    BY <1>1, SpanNat DEF Span
  <2>3. PICK y \in Nat, z \in Nat : y = (q % d) * t /\ z = q \div d /\ y <= (d - 1) * t
    BY CoordinateWithin
  <2>4. Axis(v, i) = [offset |-> o + y, rest |-> z]
    BY <2>1, <2>2, <2>3
  <2>5. (d - 1) * t \in Nat
    BY <1>1, <2>2, SpanNat
  <2> HIDE DEF Axis
  <2>6. Axis(v, i).offset = o + y /\ Axis(v, i) \in Digits
    BY <2>4 DEF Digits
  <2> QED BY <2>1, <2>2, <2>3, <2>5, <2>6
<1> HIDE DEF Axis
<1>3. PICK f : f = [x \in (1 .. N) \X Digits |-> Axis(x[2], N - x[1] + 1)]
  OBVIOUS
<1>4. f \in [(1 .. N) \X Digits -> Digits]
  <2>1. ASSUME NEW x \in (1 .. N) \X Digits PROVE Axis(x[2], N - x[1] + 1) \in Digits
    <3>1. N - x[1] + 1 \in 1 .. N /\ x[2] \in Digits
      OBVIOUS
    <3> QED BY <1>2, <3>1
  <2> QED BY <1>3, <2>1
<1>5. PICK b \in Digits : b = [offset |-> 0, rest |-> flat]
  BY DEF Digits
<1>6. PICK g : Runs(g, Digits, N, f, b)
  BY <1>4, RecursionExists
<1>7. \A n \in 1 .. N : \A v \in Digits : f[<<n, v>>] = Axis(v, N - n + 1)
  BY <1>3
<1>8. Eq(g)
  <2>1. g = [k \in 0 .. N |-> g[k]]
    BY <1>6 DEF Runs
  <2>2. ASSUME NEW k \in 0 .. N
        PROVE  g[k] = IF k = 0 THEN b ELSE Axis(g[k - 1], N - k + 1)
    <3>1. k # 0 => k \in 1 .. N /\ k - 1 \in 0 .. N
      OBVIOUS
    <3> QED BY <1>6, <1>7, <3>1 DEF Runs
  <2> QED BY <1>1, <1>5, <2>1, <2>2
<1>9. PICK x : Eq(x) /\ Decomposed(s, r, flat) = x
  <2>1. PICK x : x = CHOOSE y : Eq(y)
    OBVIOUS
  <2>2. Eq(x)
    <3> HIDE DEF Eq
    <3> QED BY <1>8, <2>1
  <2>3. Decomposed(s, r, flat) = x
    BY <2>1 DEF Decomposed, Axis
  <2> QED BY <2>2, <2>3
<1>10. Runs(x, Digits, N, f, b)
  <2>1. x = [k \in 0 .. N |-> x[k]] /\ x[0] = b
    BY <1>1, <1>5, <1>9
  <2>2. ASSUME NEW n \in 1 .. N, x[n - 1] \in Digits PROVE x[n] = f[<<n, x[n - 1]>>]
    <3>1. n \in 0 .. N /\ n # 0
      OBVIOUS
    <3>2. x[n] = Axis(x[n - 1], N - n + 1)
      BY <1>1, <1>9, <3>1
    <3> QED BY <1>7, <2>2, <3>2
  <2> HIDE DEF Eq
  <2> QED BY <1>4, <2>1, <2>2, RunsTyped
<1>11. \A n \in 1 .. N : x[n] = Axis(x[n - 1], N - n + 1)
  <2>1. \A n \in 1 .. N : n - 1 \in 0 .. N
    OBVIOUS
  <2> QED BY <1>7, <1>10, <2>1 DEF Runs
<1>12. Decomposition(x, s, r, flat)
  BY <1>1, <1>5, <1>10, <1>11 DEF Decomposition, Runs, Axis
<1> QED BY <1>9, <1>12

\* After the last k axes the offset is at most the sum of their spans.
LEMMA DecomposedWithin ==
  ASSUME NEW s, NEW r, Strided(s, r), NEW e, SpanSums(e, s, r), NEW flat \in Nat
  PROVE  \A k \in 0 .. Len(s) :
           /\ Decomposed(s, r, flat)[k] \in Digits
           /\ Decomposed(s, r, flat)[k].offset + e[Len(s) - k] <= e[Len(s)]
<1>1. PICK N \in Nat : N = Len(s)
  BY DEF Strided
<1>2. PICK x : x = Decomposed(s, r, flat)
  OBVIOUS
<1>3. Decomposition(x, s, r, flat)
  BY <1>2, DecomposedRuns
<1>4. \A k \in 0 .. N : x[k] \in Digits
  BY <1>1, <1>3 DEF Decomposition
<1> DEFINE S == {k \in Nat : k <= N => x[k].offset + e[N - k] <= e[N]}
<1>5. 0 \in S
  <2>1. x[0].offset = 0 /\ e[N] \in Nat
    BY <1>1, <1>3 DEF Decomposition, SpanSums
  <2> QED BY <2>1
<1>6. ASSUME NEW k \in Nat, k \in S PROVE k + 1 \in S
  <2> SUFFICES ASSUME k + 1 <= N PROVE x[k + 1].offset + e[N - (k + 1)] <= e[N]
    OBVIOUS
  <2>1. PICK n \in 1 .. N, i \in 1 .. N :
          n = k + 1 /\ n - 1 = k /\ i = N - k /\ i = N - n + 1 /\ i - 1 = N - n
    OBVIOUS
  <2>2. PICK o \in Nat, q \in Nat : o = x[k].offset /\ q = x[k].rest
    BY <1>4, <2>1 DEF Digits
  <2>3. PICK d \in Nat \ {0}, t \in Nat : d = s[i] /\ t = r[i] /\ Span(s, r, i) = (d - 1) * t
    BY <1>1, SpanNat DEF Span
  <2>4. x[n] = [offset |-> o + (q % d) * t, rest |-> q \div d]
    BY <1>1, <1>3, <2>1, <2>2, <2>3 DEF Decomposition
  <2>5. PICK y \in Nat : y = (q % d) * t /\ y <= (d - 1) * t
    BY CoordinateWithin
  <2>6. PICK u \in Nat, a \in Nat, b \in Nat, w \in Nat :
          u = Span(s, r, i) /\ a = e[i] /\ b = e[i - 1] /\ w = e[N] /\ a = b + u
    <3>1. i - 1 \in 0 .. N /\ i \in 0 .. N /\ N \in 0 .. N
      OBVIOUS
    <3>2. e[i] \in Nat /\ e[i - 1] \in Nat /\ e[N] \in Nat /\ e[i] = e[i - 1] + Span(s, r, i)
      BY <1>1, <3>1 DEF SpanSums
    <3>3. Span(s, r, i) \in Nat
      BY <1>1, SpanNat
    <3> QED BY <3>2, <3>3
  <2>7. o + a <= w
    BY <1>6, <2>1, <2>2, <2>6
  <2>8. (o + y) + b <= w
    BY <2>3, <2>5, <2>6, <2>7
  <2>9. x[n].offset = o + y
    BY <2>4, <2>5
  <2> QED BY <2>1, <2>6, <2>8, <2>9
<1>7. \A k \in Nat : k \in S
  <2> HIDE DEF S
  <2> QED BY <1>5, <1>6, SetInduction
<1>8. \A k \in 0 .. N : x[k].offset + e[N - k] <= e[N]
  BY <1>7
<1> QED BY <1>1, <1>2, <1>4, <1>8

\* No partial offset of an element exceeds the maximal offset, so the additions
\* and products that gather_strided_tensor leaves unchecked stay in usize.
LEMMA OffsetsWithin ==
  ASSUME NEW s, NEW r, Strided(s, r), MaxOffset(s, r) >= 0, NEW flat \in Nat,
         NEW k \in 0 .. Len(s)
  PROVE  /\ MaxOffset(s, r) \in Nat
         /\ Decomposed(s, r, flat)[k].offset \in 0 .. MaxOffset(s, r)
<1>1. PICK e : SpanSums(e, s, r) /\ e[Len(s)] = MaxOffset(s, r)
  BY MaxOffsetSums
<1>2. /\ Decomposed(s, r, flat)[k] \in Digits
      /\ Decomposed(s, r, flat)[k].offset + e[Len(s) - k] <= e[Len(s)]
  BY <1>1, DecomposedWithin
<1>3. PICK N \in Nat : N = Len(s)
  BY DEF Strided
<1>4. e[N - k] \in Nat /\ e[N] \in Nat
  <2>1. N - k \in 0 .. N /\ N \in 0 .. N
    BY <1>3
  <2> QED BY <1>1, <1>3, <2>1 DEF SpanSums
<1>5. Decomposed(s, r, flat)[k].offset \in Nat
  BY <1>2 DEF Digits
<1> QED BY <1>1, <1>2, <1>3, <1>4, <1>5

(***************************************************************************)
(* The place of an element: its row-major position and where it starts.    *)
(***************************************************************************)

\* e holds the row-major positions in the first n axes.
Positions(e, s, x) ==
  /\ e \in [0 .. Len(s) -> Nat]
  /\ e[0] = 0
  /\ \A n \in 1 .. Len(s) : e[n] = e[n - 1] * s[n] + x[n]

\* A multi-index of a shape.
IsIndex(x, s) == \A n \in 1 .. Len(s) : x[n] \in Nat /\ x[n] < s[n]

\* e holds what the first n axes add to an address.
Offsets(e, r, x) ==
  /\ e \in [0 .. Len(r) -> Nat]
  /\ e[0] = 0
  /\ \A n \in 1 .. Len(r) : e[n] = e[n - 1] + x[n] * r[n]

\* e holds the bytes of a block of the last n axes.
Blocks(e, s, z) ==
  /\ e \in [0 .. Len(s) -> Nat]
  /\ e[0] = z
  /\ \A n \in 1 .. Len(s) : e[n] = e[n - 1] * s[Len(s) - n + 1]

\* RowMajor runs its loop to the end.
LEMMA RowMajorRuns ==
  ASSUME NEW s \in Seq(Nat), NEW x, \A n \in 1 .. Len(s) : x[n] \in Nat
  PROVE  \E e : Positions(e, s, x) /\ RowMajor(s, x) = e[Len(s)]
<1>1. PICK N \in Nat : N = Len(s)
  OBVIOUS
<1> DEFINE Next1(v, n) == v * s[n] + x[n]
           Eq(e) == e = [i \in 0 .. Len(s) |-> IF i = 0 THEN 0 ELSE Next1(e[i - 1], i)]
<1>2. ASSUME NEW n \in 1 .. N, NEW v \in Nat PROVE Next1(v, n) \in Nat
  <2>1. PICK a \in Nat, b \in Nat : a = s[n] /\ b = x[n]
    BY <1>1
  <2>2. v * a + b \in Nat
    OBVIOUS
  <2> QED BY <2>1, <2>2
<1> HIDE DEF Next1
<1>3. PICK f : f = [y \in (1 .. N) \X Nat |-> Next1(y[2], y[1])]
  OBVIOUS
<1>4. f \in [(1 .. N) \X Nat -> Nat] /\ \A n \in 1 .. N : \A v \in Nat : f[<<n, v>>] = Next1(v, n)
  BY <1>2, <1>3
<1>5. PICK g : Runs(g, Nat, N, f, 0)
  BY <1>4, RecursionExists
<1>6. Eq(g)
  <2>1. g = [i \in 0 .. N |-> g[i]]
    BY <1>5 DEF Runs
  <2>2. ASSUME NEW i \in 0 .. N PROVE g[i] = IF i = 0 THEN 0 ELSE Next1(g[i - 1], i)
    <3>1. i # 0 => i \in 1 .. N /\ i - 1 \in 0 .. N
      OBVIOUS
    <3> QED BY <1>4, <1>5, <3>1 DEF Runs
  <2> QED BY <1>1, <2>1, <2>2
<1>7. PICK e : Eq(e) /\ RowMajor(s, x) = e[N]
  <2>1. PICK e : e = CHOOSE y : Eq(y)
    OBVIOUS
  <2>2. Eq(e)
    <3> HIDE DEF Eq
    <3> QED BY <1>6, <2>1
  <2>3. RowMajor(s, x) = e[Len(s)]
    BY <2>1 DEF RowMajor, Next1
  <2> QED BY <1>1, <2>2, <2>3
<1>8. Runs(e, Nat, N, f, 0)
  <2>1. e = [i \in 0 .. N |-> e[i]] /\ e[0] = 0
    BY <1>1, <1>7
  <2>2. ASSUME NEW n \in 1 .. N, e[n - 1] \in Nat PROVE e[n] = f[<<n, e[n - 1]>>]
    <3>1. n \in 0 .. N /\ n # 0
      OBVIOUS
    <3>2. e[n] = Next1(e[n - 1], n)
      BY <1>1, <1>7, <3>1
    <3> QED BY <1>4, <2>2, <3>2
  <2> HIDE DEF Eq
  <2> QED BY <1>4, <2>1, <2>2, RunsTyped
<1>9. \A n \in 1 .. N : e[n] = Next1(e[n - 1], n)
  <2>1. \A n \in 1 .. N : n - 1 \in 0 .. N
    OBVIOUS
  <2> QED BY <1>4, <1>8, <2>1 DEF Runs
<1>10. Positions(e, s, x)
  BY <1>1, <1>8, <1>9 DEF Positions, Runs, Next1
<1> QED BY <1>1, <1>7, <1>10

\* AddressOf too.
LEMMA AddressRuns ==
  ASSUME NEW r \in Seq(Nat), NEW x, \A n \in 1 .. Len(r) : x[n] \in Nat
  PROVE  \E e : Offsets(e, r, x) /\ AddressOf(r, x) = e[Len(r)]
<1>1. PICK N \in Nat : N = Len(r)
  OBVIOUS
<1> DEFINE Next1(v, n) == v + x[n] * r[n]
           Eq(e) == e = [i \in 0 .. Len(r) |-> IF i = 0 THEN 0 ELSE Next1(e[i - 1], i)]
<1>2. ASSUME NEW n \in 1 .. N, NEW v \in Nat PROVE Next1(v, n) \in Nat
  <2>1. PICK a \in Nat, b \in Nat : a = x[n] /\ b = r[n]
    BY <1>1
  <2>2. v + a * b \in Nat
    OBVIOUS
  <2> QED BY <2>1, <2>2
<1> HIDE DEF Next1
<1>3. PICK f : f = [y \in (1 .. N) \X Nat |-> Next1(y[2], y[1])]
  OBVIOUS
<1>4. f \in [(1 .. N) \X Nat -> Nat] /\ \A n \in 1 .. N : \A v \in Nat : f[<<n, v>>] = Next1(v, n)
  BY <1>2, <1>3
<1>5. PICK g : Runs(g, Nat, N, f, 0)
  BY <1>4, RecursionExists
<1>6. Eq(g)
  <2>1. g = [i \in 0 .. N |-> g[i]]
    BY <1>5 DEF Runs
  <2>2. ASSUME NEW i \in 0 .. N PROVE g[i] = IF i = 0 THEN 0 ELSE Next1(g[i - 1], i)
    <3>1. i # 0 => i \in 1 .. N /\ i - 1 \in 0 .. N
      OBVIOUS
    <3> QED BY <1>4, <1>5, <3>1 DEF Runs
  <2> QED BY <1>1, <2>1, <2>2
<1>7. PICK e : Eq(e) /\ AddressOf(r, x) = e[N]
  <2>1. PICK e : e = CHOOSE y : Eq(y)
    OBVIOUS
  <2>2. Eq(e)
    <3> HIDE DEF Eq
    <3> QED BY <1>6, <2>1
  <2>3. AddressOf(r, x) = e[Len(r)]
    BY <2>1 DEF AddressOf, Next1
  <2> QED BY <1>1, <2>2, <2>3
<1>8. Runs(e, Nat, N, f, 0)
  <2>1. e = [i \in 0 .. N |-> e[i]] /\ e[0] = 0
    BY <1>1, <1>7
  <2>2. ASSUME NEW n \in 1 .. N, e[n - 1] \in Nat PROVE e[n] = f[<<n, e[n - 1]>>]
    <3>1. n \in 0 .. N /\ n # 0
      OBVIOUS
    <3>2. e[n] = Next1(e[n - 1], n)
      BY <1>1, <1>7, <3>1
    <3> QED BY <1>4, <2>2, <3>2
  <2> HIDE DEF Eq
  <2> QED BY <1>4, <2>1, <2>2, RunsTyped
<1>9. \A n \in 1 .. N : e[n] = Next1(e[n - 1], n)
  <2>1. \A n \in 1 .. N : n - 1 \in 0 .. N
    OBVIOUS
  <2> QED BY <1>4, <1>8, <2>1 DEF Runs
<1>10. Offsets(e, r, x)
  BY <1>1, <1>8, <1>9 DEF Offsets, Runs, Next1
<1> QED BY <1>1, <1>7, <1>10

\* The strides of a canonical payload are the sizes of such blocks.
LEMMA BlockRuns ==
  ASSUME NEW s \in Seq(Nat), NEW z \in Nat
  PROVE  \E e : /\ Blocks(e, s, z)
               /\ CanonicalStrides(s, z) = [i \in DOMAIN s |-> e[Len(s) - i]]
<1>1. PICK N \in Nat : N = Len(s)
  OBVIOUS
<1> DEFINE Next1(v, n) == v * s[Len(s) - n + 1]
           Eq(e) == e = [i \in 0 .. Len(s) |-> IF i = 0 THEN z ELSE Next1(e[i - 1], i)]
<1>2. ASSUME NEW n \in 1 .. N, NEW v \in Nat PROVE Next1(v, n) \in Nat
  <2>1. PICK a \in Nat : a = s[Len(s) - n + 1]
    <3>1. N - n + 1 \in 1 .. N
      OBVIOUS
    <3> QED BY <1>1, <3>1
  <2>2. v * a \in Nat
    OBVIOUS
  <2> QED BY <2>1, <2>2
<1> HIDE DEF Next1
<1>3. PICK f : f = [y \in (1 .. N) \X Nat |-> Next1(y[2], y[1])]
  OBVIOUS
<1>4. f \in [(1 .. N) \X Nat -> Nat] /\ \A n \in 1 .. N : \A v \in Nat : f[<<n, v>>] = Next1(v, n)
  BY <1>2, <1>3
<1>5. PICK g : Runs(g, Nat, N, f, z)
  BY <1>4, RecursionExists
<1>6. Eq(g)
  <2>1. g = [i \in 0 .. N |-> g[i]]
    BY <1>5 DEF Runs
  <2>2. ASSUME NEW i \in 0 .. N PROVE g[i] = IF i = 0 THEN z ELSE Next1(g[i - 1], i)
    <3>1. i # 0 => i \in 1 .. N /\ i - 1 \in 0 .. N
      OBVIOUS
    <3> QED BY <1>4, <1>5, <3>1 DEF Runs
  <2> QED BY <1>1, <2>1, <2>2
<1>7. PICK e : Eq(e) /\ CanonicalStrides(s, z) = [i \in DOMAIN s |-> e[Len(s) - i]]
  <2>1. PICK e : e = CHOOSE y : Eq(y)
    OBVIOUS
  <2>2. Eq(e)
    <3> HIDE DEF Eq
    <3> QED BY <1>6, <2>1
  <2>3. CanonicalStrides(s, z) = [i \in DOMAIN s |-> e[Len(s) - i]]
    BY <2>1 DEF CanonicalStrides, Next1
  <2> QED BY <1>1, <2>2, <2>3
<1>8. Runs(e, Nat, N, f, z)
  <2>1. e = [i \in 0 .. N |-> e[i]] /\ e[0] = z
    BY <1>1, <1>7
  <2>2. ASSUME NEW n \in 1 .. N, e[n - 1] \in Nat PROVE e[n] = f[<<n, e[n - 1]>>]
    <3>1. n \in 0 .. N /\ n # 0
      OBVIOUS
    <3>2. e[n] = Next1(e[n - 1], n)
      BY <1>1, <1>7, <3>1
    <3> QED BY <1>4, <2>2, <3>2
  <2> HIDE DEF Eq
  <2> QED BY <1>4, <2>1, <2>2, RunsTyped
<1>9. \A n \in 1 .. N : e[n] = Next1(e[n - 1], n)
  <2>1. \A n \in 1 .. N : n - 1 \in 0 .. N
    OBVIOUS
  <2> QED BY <1>4, <1>8, <2>1 DEF Runs
<1>10. Blocks(e, s, z)
  BY <1>1, <1>8, <1>9 DEF Blocks, Runs, Next1
<1> QED BY <1>1, <1>7, <1>10

\* The last digit of a position, and what is left of it.
LEMMA DigitAt ==
  ASSUME NEW q \in Nat, NEW d \in Nat, NEW c \in Nat, c < d
  PROVE  (q * d + c) % d = c /\ (q * d + c) \div d = q
<1>1. PICK n \in Nat : n = q * d + c
  OBVIOUS
<1>2. PICK k \in Nat, m \in Nat : k = n \div d /\ m = n % d /\ m < d /\ n = d * k + m
  BY <1>1
<1>3. d * k = k * d
  OBVIOUS
<1>4. k = q
  <2>1. CASE k < q
    <3>1. (k + 1) * d <= q * d /\ (k + 1) * d = k * d + d
      BY <2>1, TimesGrows
    <3>2. PICK a \in Nat, b \in Nat : a = k * d /\ b = q * d
      OBVIOUS
    <3> QED BY <1>1, <1>2, <1>3, <3>1, <3>2
  <2>2. CASE q < k
    <3>1. (q + 1) * d <= k * d /\ (q + 1) * d = q * d + d
      BY <2>2, TimesGrows
    <3>2. PICK a \in Nat, b \in Nat : a = k * d /\ b = q * d
      OBVIOUS
    <3> QED BY <1>1, <1>2, <1>3, <3>1, <3>2
  <2> QED BY <2>1, <2>2
<1>5. PICK b \in Nat : b = q * d
  OBVIOUS
<1> QED BY <1>1, <1>2, <1>3, <1>4, <1>5

\* A position in a smaller block is one in the larger.
LEMMA DigitWithin ==
  ASSUME NEW q \in Nat, NEW w \in Nat, q < w, NEW d \in Nat, NEW c \in Nat, c < d
  PROVE  q * d + c \in Nat /\ w * d \in Nat /\ q * d + c < w * d
<1>1. (q + 1) * d <= w * d /\ (q + 1) * d = q * d + d
  BY TimesGrows
<1>2. PICK a \in Nat, b \in Nat : a = q * d /\ b = w * d
  OBVIOUS
<1> QED BY <1>1, <1>2

\* The row-major position of an index is less than the number of elements.
LEMMA PositionsBelow ==
  ASSUME NEW s \in Seq(Nat), NEW x, IsIndex(x, s), NEW p, Positions(p, s, x),
         NEW w, Products(w, s)
  PROVE  p[Len(s)] \in Nat /\ w[Len(s)] \in Nat /\ p[Len(s)] < w[Len(s)]
<1>1. PICK N \in Nat : N = Len(s)
  OBVIOUS
<1> DEFINE S == {n \in Nat : n <= N => p[n] < w[n]}
<1>2. 0 \in S
  BY <1>1 DEF Positions, Products
<1>3. ASSUME NEW n \in Nat, n \in S PROVE n + 1 \in S
  <2> SUFFICES ASSUME n + 1 <= N PROVE p[n + 1] < w[n + 1]
    OBVIOUS
  <2>1. PICK m \in 1 .. N : m = n + 1 /\ m - 1 = n /\ n \in 0 .. N
    OBVIOUS
  <2>2. PICK q \in Nat, y \in Nat, d \in Nat, c \in Nat :
          q = p[n] /\ y = w[n] /\ d = s[m] /\ c = x[m] /\ q < y /\ c < d
    <3>1. p[n] \in Nat /\ w[n] \in Nat /\ p[n] < w[n]
      <4>1. p[n] \in Nat /\ w[n] \in Nat
        BY <1>1, <2>1 DEF Positions, Products
      <4> QED BY <1>3, <2>1, <4>1
    <3>2. s[m] \in Nat /\ x[m] \in Nat /\ x[m] < s[m]
      BY <1>1, <2>1 DEF IsIndex
    <3> QED BY <3>1, <3>2
  <2>3. p[m] = q * d + c /\ w[m] = y * d
    BY <1>1, <2>1, <2>2 DEF Positions, Products
  <2>4. q * d + c < y * d
    BY <2>2, DigitWithin
  <2> QED BY <2>1, <2>3, <2>4
<1>4. \A n \in Nat : n \in S
  <2> HIDE DEF S
  <2> QED BY <1>2, <1>3, SetInduction
<1>5. N \in 0 .. N
  OBVIOUS
<1> QED BY <1>1, <1>4, <1>5 DEF Positions, Products

\* The strided offset of an element's position is where the element starts.
LEMMA OffsetOfPosition ==
  ASSUME NEW s, NEW r, Strided(s, r), NEW x, IsIndex(x, s),
         NEW p, Positions(p, s, x), NEW a, Offsets(a, r, x)
  PROVE  StridedOffset(s, r, p[Len(s)]) = a[Len(s)]
<1>1. PICK N \in Nat : N = Len(s) /\ N = Len(r)
  BY DEF Strided
<1>2. PICK flat \in Nat : flat = p[N]
  BY <1>1 DEF Positions
<1>3. PICK d : d = Decomposed(s, r, flat)
  OBVIOUS
<1>4. Decomposition(d, s, r, flat)
  BY <1>3, DecomposedRuns
<1> DEFINE Left(k) == d[k].rest = p[N - k] /\ d[k].offset + a[N - k] = a[N]
           S == {k \in Nat : k <= N => Left(k)}
<1>5. 0 \in S
  <2>1. d[0].rest = flat /\ d[0].offset = 0 /\ a[N] \in Nat
    BY <1>1, <1>4 DEF Decomposition, Offsets
  <2> QED BY <1>2, <2>1
<1>6. ASSUME NEW k \in Nat, k \in S PROVE k + 1 \in S
  <2> SUFFICES ASSUME k + 1 <= N PROVE Left(k + 1)
    OBVIOUS
  <2>1. PICK n \in 1 .. N, i \in 1 .. N :
          n = k + 1 /\ n - 1 = k /\ i = N - k /\ i = N - n + 1 /\ i - 1 = N - n
    OBVIOUS
  <2>2. PICK q \in Nat, c \in Nat, z \in Nat, t \in Nat :
          q = p[i - 1] /\ c = x[i] /\ z = s[i] /\ t = r[i] /\ c < z
    <3>1. i - 1 \in 0 .. N
      OBVIOUS
    <3>2. p[i - 1] \in Nat /\ x[i] \in Nat /\ x[i] < s[i]
      BY <1>1, <3>1 DEF Positions, IsIndex
    <3>3. s[i] \in Nat /\ r[i] \in Nat
      BY <1>1 DEF Strided
    <3> QED BY <3>2, <3>3
  <2>3. d[k].rest = q * z + c
    <3>1. d[k].rest = p[i]
      BY <1>6, <2>1
    <3>2. p[i] = p[i - 1] * s[i] + x[i]
      BY <1>1 DEF Positions
    <3> QED BY <2>2, <3>1, <3>2
  <2>4. d[n] = [offset |-> d[k].offset + ((q * z + c) % z) * t, rest |-> (q * z + c) \div z]
    <3>1. d[n] = [offset |-> d[n - 1].offset + (d[n - 1].rest % s[i]) * r[i],
                  rest |-> d[n - 1].rest \div s[i]]
      BY <1>1, <1>4, <2>1 DEF Decomposition
    <3> HIDE DEF Left
    <3> QED BY <2>1, <2>2, <2>3, <3>1
  <2>5. d[n] = [offset |-> d[k].offset + c * t, rest |-> q]
    <3>1. PICK g : g = q * z + c
      OBVIOUS
    <3>2. g % z = c /\ g \div z = q
      BY <2>2, <3>1, DigitAt
    <3>3. d[n] = [offset |-> d[k].offset + (g % z) * t, rest |-> g \div z]
      BY <2>4, <3>1
    <3> QED BY <3>2, <3>3
  <2>6. PICK o \in Nat, b \in Nat, e \in Nat, y \in Nat :
          o = d[k].offset /\ b = a[i - 1] /\ e = a[N] /\ y = c * t
    <3>1. d[k] \in Digits
      BY <1>1, <1>4 DEF Decomposition
    <3>2. i - 1 \in 0 .. N /\ N \in 0 .. N
      OBVIOUS
    <3>3. d[k].offset \in Nat
      BY <3>1 DEF Digits
    <3>4. a[i - 1] \in Nat /\ a[N] \in Nat
      BY <1>1, <3>2 DEF Offsets
    <3>5. c * t \in Nat
      BY <2>2
    <3> QED BY <3>3, <3>4, <3>5
  <2>7. o + (b + y) = e
    <3>1. a[i] = b + y
      BY <1>1, <2>2, <2>6 DEF Offsets
    <3> QED BY <1>6, <2>1, <2>6, <3>1
  <2>8. d[n].rest = p[N - n] /\ d[n].offset + a[N - n] = a[N]
    BY <2>1, <2>2, <2>5, <2>6, <2>7
  <2> QED BY <2>1, <2>8
<1>7. \A k \in Nat : k \in S
  <2> HIDE DEF S
  <2> QED BY <1>5, <1>6, SetInduction
<1>8. d[N].offset = a[N]
  <2>1. d[N].offset + a[N - N] = a[N]
    BY <1>7
  <2>2. d[N] \in Digits /\ N - N = 0 /\ a[0] = 0
    BY <1>1, <1>4 DEF Decomposition, Offsets
  <2> QED BY <2>1, <2>2 DEF Digits
<1> QED BY <1>1, <1>2, <1>3, <1>8 DEF StridedOffset

\* In a canonical payload an element starts after those before it.
LEMMA CanonicalAddress ==
  ASSUME NEW s \in Seq(Nat), NEW z \in Nat, NEW x, IsIndex(x, s),
         NEW p, Positions(p, s, x), NEW b, Blocks(b, s, z),
         NEW r, r = [i \in DOMAIN s |-> b[Len(s) - i]], NEW a, Offsets(a, r, x)
  PROVE  a[Len(s)] = p[Len(s)] * z
<1>1. PICK N \in Nat : N = Len(s) /\ DOMAIN s = 1 .. N
  OBVIOUS
<1>2. Len(r) = N
  BY <1>1
<1> DEFINE S == {n \in Nat : n <= N => a[n] = b[N - n] * p[n]}
<1>3. 0 \in S
  <2>1. b[N] \in Nat /\ a[0] = 0 /\ p[0] = 0
    BY <1>1, <1>2 DEF Blocks, Offsets, Positions
  <2> QED BY <2>1
<1>4. ASSUME NEW n \in Nat, n \in S PROVE n + 1 \in S
  <2> SUFFICES ASSUME n + 1 <= N PROVE a[n + 1] = b[N - (n + 1)] * p[n + 1]
    OBVIOUS
  <2>1. PICK m \in 1 .. N, k \in 1 .. N :
          /\ m = n + 1 /\ m - 1 = n /\ k = N - n /\ k - 1 = N - m
          /\ N - k + 1 = m /\ n \in 0 .. N /\ k - 1 \in 0 .. N
    OBVIOUS
  <2>2. PICK q \in Nat, c \in Nat, d \in Nat, y \in Nat :
          q = p[n] /\ c = x[m] /\ d = s[m] /\ y = b[k - 1]
    <3>1. p[n] \in Nat /\ b[k - 1] \in Nat
      BY <1>1, <2>1 DEF Positions, Blocks
    <3>2. s[m] \in Nat /\ x[m] \in Nat
      BY <1>1, <2>1 DEF IsIndex
    <3> QED BY <3>1, <3>2
  <2>3. p[m] = q * d + c
    BY <1>1, <2>1, <2>2 DEF Positions
  <2>4. b[k] = y * d
    BY <1>1, <2>1, <2>2 DEF Blocks
  <2>5. r[m] = y
    BY <1>1, <2>1, <2>2
  <2>6. a[m] = a[n] + c * y
    BY <1>2, <2>1, <2>2, <2>5 DEF Offsets
  <2>7. a[n] = (y * d) * q
    BY <1>4, <2>1, <2>2, <2>4
  <2>8. (y * d) * q + c * y = y * (q * d + c)
    OBVIOUS
  <2> QED BY <2>1, <2>2, <2>3, <2>6, <2>7, <2>8
<1>5. \A n \in Nat : n \in S
  <2> HIDE DEF S
  <2> QED BY <1>3, <1>4, SetInduction
<1>6. a[N] = b[0] * p[N]
  <2>1. N - N = 0
    OBVIOUS
  <2> QED BY <1>5, <2>1
<1>7. b[0] = z /\ p[N] \in Nat
  BY <1>1 DEF Blocks, Positions
<1> QED BY <1>1, <1>6, <1>7

\* W elements make a row of a block of n; k and l are at one place of the rows
\* i and j.
SamePlace(W, n, rows, k, i, l, j) ==
  /\ W \in Nat /\ n = rows * W
  /\ \E c \in Nat : c < W /\ k = i * W + c /\ l = j * W + c

\* The position of an index in another row, of an array with other rows.
LEMMA PositionInRow ==
  ASSUME NEW s \in Seq(Nat), Len(s) # 0, NEW x, IsIndex(x, s), NEW p, Positions(p, s, x),
         NEW w, Products(w, s),
         NEW t \in Seq(Nat), NEW y, Len(t) = Len(s), \A n \in 1 .. Len(s) : y[n] \in Nat,
         \A n \in 2 .. Len(s) : t[n] = s[n] /\ y[n] = x[n],
         NEW q, Positions(q, t, y)
  PROVE  \E W : SamePlace(W, w[Len(s)], s[1], p[Len(s)], x[1], q[Len(s)], y[1])
<1>1. PICK N \in Nat \ {0} : N = Len(s) /\ N = Len(t)
  OBVIOUS
<1> DEFINE At(n) == \E W : SamePlace(W, w[n], s[1], p[n], x[1], q[n], y[1])
           S == {n \in Nat : n \in 1 .. N => At(n)}
<1>2. 0 \in S
  OBVIOUS
<1>3. At(1)
  <2>1. 1 \in 1 .. N /\ 1 - 1 = 0 /\ s[1] \in Nat /\ t[1] \in Nat /\ x[1] \in Nat /\ y[1] \in Nat
    BY <1>1 DEF IsIndex
  <2>2. p[0] = 0 /\ q[0] = 0 /\ w[0] = 1
    BY DEF Positions, Products
  <2>3. p[1] = 0 * s[1] + x[1] /\ q[1] = 0 * t[1] + y[1] /\ w[1] = 1 * s[1]
    BY <1>1, <2>1, <2>2 DEF Positions, Products
  <2>4. p[1] = x[1] * 1 + 0 /\ q[1] = y[1] * 1 + 0 /\ w[1] = s[1] * 1
    BY <2>1, <2>3
  <2>5. SamePlace(1, w[1], s[1], p[1], x[1], q[1], y[1])
    BY <2>4 DEF SamePlace
  <2> QED BY <2>5
<1>4. ASSUME NEW n \in 1 .. N, n + 1 \in 1 .. N, At(n) PROVE At(n + 1)
  <2>1. PICK m \in 2 .. N : m = n + 1 /\ m - 1 = n /\ m \in 1 .. N
    BY <1>4
  <2>2. PICK W \in Nat, c \in Nat :
          /\ w[n] = s[1] * W /\ c < W
          /\ p[n] = x[1] * W + c /\ q[n] = y[1] * W + c
    BY <1>4 DEF SamePlace
  <2>3. PICK i \in Nat, j \in Nat, u \in Nat : i = x[1] /\ j = y[1] /\ u = s[1]
    <3>1. 1 \in 1 .. N /\ 1 \in 1 .. Len(s)
      BY <1>1
    <3>2. x[1] \in Nat
      BY <3>1 DEF IsIndex
    <3>3. y[1] \in Nat
      BY <3>1
    <3>4. s[1] \in Nat
      BY <3>1
    <3> QED BY <3>2, <3>3, <3>4
  <2>4. PICK d \in Nat, e \in Nat : d = s[m] /\ d = t[m] /\ e = x[m] /\ e = y[m] /\ e < d
    <3>1. s[m] \in Nat /\ x[m] \in Nat /\ x[m] < s[m]
      BY <1>1, <2>1 DEF IsIndex
    <3>2. t[m] = s[m] /\ y[m] = x[m]
      BY <1>1, <2>1
    <3> QED BY <3>1, <3>2
  <2>5. /\ p[m] = (i * W + c) * d + e /\ q[m] = (j * W + c) * d + e
        /\ w[m] = (u * W) * d
    <3>1. p[m] = p[n] * s[m] + x[m] /\ q[m] = q[n] * t[m] + y[m] /\ w[m] = w[n] * s[m]
      BY <1>1, <2>1 DEF Positions, Products
    <3> HIDE DEF At
    <3> QED BY <2>2, <2>3, <2>4, <3>1
  <2>6. /\ (i * W + c) * d + e = i * (W * d) + (c * d + e)
        /\ (j * W + c) * d + e = j * (W * d) + (c * d + e)
        /\ (u * W) * d = u * (W * d)
    OBVIOUS
  <2>7. PICK V \in Nat, f \in Nat : V = W * d /\ f = c * d + e /\ f < V
    <3>1. c * d + e \in Nat /\ W * d \in Nat /\ c * d + e < W * d
      BY <2>2, <2>4, DigitWithin
    <3> QED BY <3>1
  <2>8. /\ p[m] = i * V + f /\ q[m] = j * V + f
        /\ w[m] = u * V
    <3>1. i * V + f = (i * W + c) * d + e
      BY <2>6, <2>7
    <3>2. j * V + f = (j * W + c) * d + e
      BY <2>6, <2>7
    <3>3. u * V = (u * W) * d
      BY <2>6, <2>7
    <3> QED BY <2>5, <3>1, <3>2, <3>3
  <2>9. SamePlace(V, w[m], s[1], p[m], x[1], q[m], y[1])
    BY <2>3, <2>7, <2>8 DEF SamePlace
  <2> QED BY <2>1, <2>9
<1>5. ASSUME NEW n \in Nat, n \in S PROVE n + 1 \in S
  <2> SUFFICES ASSUME n + 1 \in 1 .. N PROVE At(n + 1)
    OBVIOUS
  <2> HIDE DEF At
  <2>1. CASE n = 0
    BY <1>3, <2>1
  <2>2. CASE n # 0
    <3>1. n \in 1 .. N
      BY <2>2
    <3> QED BY <1>4, <1>5, <3>1
  <2> QED BY <2>1, <2>2
<1>6. \A n \in Nat : n \in S
  <2> HIDE DEF S
  <2> QED BY <1>2, <1>5, SetInduction
<1>7. At(N)
  <2> HIDE DEF At
  <2> QED BY <1>6
<1> QED BY <1>1, <1>7

(***************************************************************************)
(* Lists of bytes and of rows.                                             *)
(***************************************************************************)

\* The loop of FlattenSeq: the first n lists, joined.
FlattenLoop(e, ss) ==
  /\ e[0] = << >>
  /\ \A n \in 1 .. Len(ss) : e[n] = e[n - 1] \o ss[n]

\* FlattenSeq runs its loop to the end.
LEMMA FlattenRuns ==
  ASSUME NEW V, NEW ss \in Seq(Seq(V))
  PROVE  \E e \in [0 .. Len(ss) -> Seq(V)] :
           FlattenLoop(e, ss) /\ FlattenSeq(ss) = e[Len(ss)]
<1>0. PICK W : W = Seq(V)
  OBVIOUS
<1>1. PICK N \in Nat : N = Len(ss)
  OBVIOUS
<1>2. CASE N = 0
  <2>1. Len(ss) = 0
    BY <1>1, <1>2
  <2>2. FlattenSeq(ss) = ss
    BY <2>1, Zenon DEF FlattenSeq
  <2>3. ss = << >>
    BY <2>1
  <2>4. PICK e : e = [i \in 0 .. N |-> << >>]
    OBVIOUS
  <2>5. e \in [0 .. Len(ss) -> Seq(V)] /\ e[0] = << >> /\ e[Len(ss)] = << >>
    BY <1>1, <1>2, <2>4
  <2>6. 1 .. Len(ss) = {}
    BY <2>1
  <2>7. FlattenLoop(e, ss)
    BY <2>5, <2>6 DEF FlattenLoop
  <2> QED BY <2>2, <2>3, <2>5, <2>7
<1>3. CASE N # 0
  <2> DEFINE Joined(v, n) == IF n = 1 THEN ss[n] ELSE v \o ss[n]
             Eq(x) == x = [i \in 1 .. Len(ss) |-> Joined(x[i - 1], i)]
  <2>1. ASSUME NEW n \in 1 .. N, NEW v \in W PROVE Joined(v, n) \in W
    <3>1. ss[n] \in Seq(V) /\ v \in Seq(V)
      BY <1>0, <1>1
    <3>2. v \o ss[n] \in Seq(V)
      BY <3>1, ConcatProperties
    <3> QED BY <1>0, <3>1, <3>2
  <2>2. \A u, v : Joined(u, 1) = Joined(v, 1)
    OBVIOUS
  <2> HIDE DEF Joined
  <2>3. PICK f : f = [x \in (1 .. N) \X W |-> Joined(x[2], x[1])]
    OBVIOUS
  <2>4. f \in [(1 .. N) \X W -> W]
    BY <2>1, <2>3
  <2>5. << >> \in W
    BY <1>0
  <2>6. PICK g : Runs(g, W, N, f, << >>)
    BY <2>4, <2>5, RecursionExists
  <2>7. \A n \in 1 .. N : \A v \in W : f[<<n, v>>] = Joined(v, n)
    BY <2>3
  <2>8. PICK h : h = [i \in 1 .. N |-> g[i]]
    OBVIOUS
  <2>9. Eq(h)
    <3>1. ASSUME NEW i \in 1 .. N PROVE h[i] = Joined(h[i - 1], i)
      <4>1. g[i] = Joined(g[i - 1], i)
        <5>1. i - 1 \in 0 .. N
          OBVIOUS
        <5> QED BY <2>6, <2>7, <5>1 DEF Runs
      <4>2. CASE i = 1
        BY <2>2, <2>8, <4>1, <4>2
      <4>3. CASE i # 1
        <5>1. i - 1 \in 1 .. N
          BY <4>3
        <5> QED BY <2>8, <4>1, <5>1
      <4> QED BY <4>2, <4>3
    <3>2. h = [i \in 1 .. N |-> h[i]]
      BY <2>8
    <3> QED BY <1>1, <3>1, <3>2
  <2>10. PICK x : Eq(x) /\ FlattenSeq(ss) = x[N]
    <3>1. PICK x : x = CHOOSE y : Eq(y)
      OBVIOUS
    <3>2. Eq(x)
      <4> HIDE DEF Eq
      <4> QED BY <2>9, <3>1
    <3>3. Len(ss) # 0 => FlattenSeq(ss) = x[Len(ss)]
      BY <3>1 DEF FlattenSeq, Joined
    <3> HIDE DEF Eq
    <3> QED BY <1>1, <1>3, <3>2, <3>3
  <2>11. PICK e : e = [i \in 0 .. N |-> IF i = 0 THEN << >> ELSE x[i]]
    OBVIOUS
  <2>12. Runs(e, W, N, f, << >>)
    <3>1. e = [i \in 0 .. N |-> e[i]] /\ e[0] = << >>
      BY <2>11
    <3>2. ASSUME NEW n \in 1 .. N, e[n - 1] \in W PROVE e[n] = f[<<n, e[n - 1]>>]
      <4>1. e[n] = Joined(x[n - 1], n)
        <5>1. n \in 0 .. N /\ n # 0 /\ n \in 1 .. Len(ss)
          BY <1>1
        <5>2. e[n] = x[n]
          BY <2>11, <5>1
        <5>3. x[n] = Joined(x[n - 1], n)
          BY <2>10, <5>1
        <5> QED BY <5>2, <5>3
      <4>2. e[n] = Joined(e[n - 1], n)
        <5>1. CASE n = 1
          BY <2>2, <4>1, <5>1
        <5>2. CASE n # 1
          <6>1. n - 1 \in 0 .. N /\ n - 1 # 0
            BY <5>2
          <6>2. e[n - 1] = x[n - 1]
            BY <2>11, <6>1
          <6> QED BY <4>1, <6>2
        <5> QED BY <5>1, <5>2
      <4> QED BY <2>7, <3>2, <4>2
    <3> HIDE DEF Eq
    <3> QED BY <2>4, <2>5, <3>1, <3>2, RunsTyped
  <2>13. e[N] = x[N] /\ e \in [0 .. N -> W]
    BY <1>3, <2>11, <2>12 DEF Runs
  <2>14. ASSUME NEW n \in 1 .. N PROVE e[n] = e[n - 1] \o ss[n]
    <3>1. e[n] = Joined(e[n - 1], n)
      <4>1. e[n] = f[<<n, e[n - 1]>>] /\ n - 1 \in 0 .. N
        BY <2>12 DEF Runs
      <4>2. e[n - 1] \in W
        BY <2>13, <4>1
      <4> QED BY <2>7, <4>1, <4>2
    <3>2. ss[n] \in Seq(V)
      BY <1>1
    <3>3. << >> \o ss[n] = ss[n]
      BY <3>2, ConcatEmptySeq
    <3>4. n = 1 => e[n - 1] = << >>
      BY <2>12 DEF Runs
    <3> QED BY <3>1, <3>3, <3>4 DEF Joined
  <2>15. FlattenLoop(e, ss)
    BY <1>1, <2>12, <2>14 DEF FlattenLoop, Runs
  <2> QED BY <1>0, <1>1, <2>10, <2>13, <2>15
<1> QED BY <1>2, <1>3

\* Joining lists over V gives a list over V.
LEMMA FlattenTyped ==
  ASSUME NEW V, NEW ss \in Seq(Seq(V))
  PROVE  FlattenSeq(ss) \in Seq(V)
<1>1. PICK e \in [0 .. Len(ss) -> Seq(V)] : FlattenSeq(ss) = e[Len(ss)]
  BY FlattenRuns
<1>2. Len(ss) \in 0 .. Len(ss)
  OBVIOUS
<1> QED BY <1>1, <1>2

\* Joined lists of one length form a grid, row after row.
IsGrid(flat, ss, w) ==
  /\ Len(flat) = Len(ss) * w
  /\ \A r \in 1 .. Len(ss), f \in 1 .. w :
       /\ (r - 1) * w + f \in 1 .. Len(ss) * w
       /\ flat[(r - 1) * w + f] = ss[r][f]

\* FlattenSeq builds such a grid.
LEMMA FlattenGrid ==
  ASSUME NEW V, NEW ss \in Seq(Seq(V)), NEW w \in Nat,
         \A r \in DOMAIN ss : Len(ss[r]) = w
  PROVE  IsGrid(FlattenSeq(ss), ss, w)
<1>1. PICK e \in [0 .. Len(ss) -> Seq(V)] :
        FlattenLoop(e, ss) /\ FlattenSeq(ss) = e[Len(ss)]
  BY FlattenRuns
<1>2. PICK N \in Nat : N = Len(ss) /\ DOMAIN ss = 1 .. N
  OBVIOUS
<1> DEFINE Grid(n) == /\ Len(e[n]) = n * w
                      /\ \A r \in 1 .. n, f \in 1 .. w :
                           /\ (r - 1) * w + f \in 1 .. n * w
                           /\ e[n][(r - 1) * w + f] = ss[r][f]
           S == {n \in Nat : n <= N => Grid(n)}
<1>3. Grid(0)
  <2>1. Len(e[0]) = 0 /\ 0 * w = 0 /\ 1 .. 0 = {}
    BY <1>1 DEF FlattenLoop
  <2> QED BY <2>1
<1>4. ASSUME NEW n \in Nat, Grid(n), n + 1 <= N PROVE Grid(n + 1)
  <2>1. n + 1 \in 1 .. N /\ (n + 1) - 1 = n /\ n \in 0 .. N
    BY <1>4
  <2>2. e[n] \in Seq(V) /\ ss[n + 1] \in Seq(V) /\ Len(ss[n + 1]) = w
    <3>1. \A r \in DOMAIN ss : ss[r] \in Seq(V)
      OBVIOUS
    <3>2. n + 1 \in DOMAIN ss
      BY <1>2, <2>1
    <3>3. e[n] \in Seq(V)
      BY <1>2, <2>1
    <3> QED BY <3>1, <3>2, <3>3
  <2>3. e[n + 1] = e[n] \o ss[n + 1]
    <3>1. e[n + 1] = e[(n + 1) - 1] \o ss[n + 1]
      BY <1>1, <1>2, <2>1 DEF FlattenLoop
    <3> QED BY <2>1, <3>1
  <2>4. PICK a \in Nat : a = n * w /\ (n + 1) * w = a + w
    OBVIOUS
  <2>5. Len(e[n]) = a
    BY <1>4, <2>4
  <2>6. PICK x : x = e[n]
    OBVIOUS
  <2>7. PICK y : y = ss[n + 1]
    OBVIOUS
  <2>8. /\ Len(x \o y) = a + w
        /\ \A i \in 1 .. a : (x \o y)[i] = x[i]
        /\ \A i \in 1 .. w : (x \o y)[a + i] = y[i]
    <3>1. x \in Seq(V) /\ y \in Seq(V) /\ Len(x) = a /\ Len(y) = w
      BY <2>2, <2>5, <2>6, <2>7
    <3>2. /\ Len(x \o y) = a + w
          /\ \A i \in 1 .. a + w : (x \o y)[i] = IF i <= a THEN x[i] ELSE y[i - a]
      BY <3>1, ConcatProperties
    <3>3. \A i \in 1 .. a : i \in 1 .. a + w /\ i <= a
      OBVIOUS
    <3>4. \A i \in 1 .. w : a + i \in 1 .. a + w /\ ~ (a + i <= a) /\ (a + i) - a = i
      OBVIOUS
    <3> QED BY <3>2, <3>3, <3>4
  <2>9. ASSUME NEW r \in 1 .. n + 1, NEW f \in 1 .. w
        PROVE  /\ (r - 1) * w + f \in 1 .. a + w
               /\ (x \o y)[(r - 1) * w + f] = ss[r][f]
    <3>1. CASE r = n + 1
      <4>1. (r - 1) * w = a
        BY <2>4, <3>1
      <4>2. a + f \in 1 .. a + w
        OBVIOUS
      <4> QED BY <2>7, <2>8, <3>1, <4>1, <4>2
    <3>2. CASE r # n + 1
      <4>1. r \in 1 .. n
        BY <3>2
      <4>2. PICK i \in 1 .. a : i = (r - 1) * w + f /\ x[i] = ss[r][f]
        BY <1>4, <2>4, <2>6, <4>1
      <4>3. i \in 1 .. a + w
        OBVIOUS
      <4> QED BY <2>8, <4>2, <4>3
    <3> QED BY <3>1, <3>2
  <2> QED BY <2>3, <2>4, <2>6, <2>7, <2>8, <2>9
<1>5. \A n \in Nat : n \in S
  <2>1. 0 \in S
    BY <1>3
  <2>2. ASSUME NEW n \in Nat, n \in S PROVE n + 1 \in S
    <3>1. n + 1 <= N => n <= N
      OBVIOUS
    <3> HIDE DEF Grid
    <3> QED BY <1>4, <2>2, <3>1
  <2> HIDE DEF S
  <2> QED BY <2>1, <2>2, SetInduction
<1>6. Grid(N)
  <2>1. N \in S /\ N <= N
    <3> HIDE DEF S
    <3> QED BY <1>5
  <2> HIDE DEF Grid
  <2> QED BY <2>1
<1> QED BY <1>1, <1>2, <1>6 DEF IsGrid

\* The row and the column of a place in a grid.
LEMMA GridPlace ==
  ASSUME NEW N \in Nat, NEW w \in Nat, NEW c \in 1 .. N * w
  PROVE  /\ w # 0
         /\ ((c - 1) \div w) + 1 \in 1 .. N
         /\ ((c - 1) % w) + 1 \in 1 .. w
         /\ ((c - 1) \div w) * w + (((c - 1) % w) + 1) = c
<1>1. w # 0
  <2>1. w = 0 => N * w = 0
    OBVIOUS
  <2> QED BY <2>1
<1>2. PICK q \in Nat, m \in Nat :
        /\ q = (c - 1) \div w /\ m = (c - 1) % w /\ m < w /\ c - 1 = w * q + m
  BY <1>1
<1>3. q < N
  <2>1. CASE N <= q
    <3>1. N * w <= q * w /\ q * w = w * q
      BY <2>1, TimesGrows
    <3> QED BY <1>2, <3>1
  <2>2. CASE ~ (N <= q)
    BY <2>2
  <2> QED BY <2>1, <2>2
<1>4. q * w = w * q
  OBVIOUS
<1> QED BY <1>1, <1>2, <1>3, <1>4

\* A list that holds the rows of a table, N of w cells, one after the other.
IsTable(flat, ss, N, w) ==
  /\ Len(flat) = N * w
  /\ flat = [c \in 1 .. N * w |-> ss[((c - 1) \div w) + 1][((c - 1) % w) + 1]]
  /\ \A r \in 1 .. N, f \in 1 .. w :
       /\ (r - 1) * w + f \in 1 .. N * w
       /\ flat[(r - 1) * w + f] = ss[r][f]

\* FlattenSeq makes it.
LEMMA FlattenTable ==
  ASSUME NEW N \in Nat, NEW w \in Nat, NEW ss, ss = [k \in 1 .. N |-> ss[k]],
         \A k \in 1 .. N : ss[k] = [c \in 1 .. w |-> ss[k][c]]
  PROVE  IsTable(FlattenSeq(ss), ss, N, w)
<1>1. PICK V : V = UNION {{ss[k][c] : c \in 1 .. w} : k \in 1 .. N}
  OBVIOUS
<1>2. ASSUME NEW k \in 1 .. N PROVE ss[k] \in Seq(V) /\ Len(ss[k]) = w
  <2>1. PICK row : row = ss[k]
    OBVIOUS
  <2>2. row = [c \in 1 .. w |-> row[c]] /\ \A c \in 1 .. w : row[c] \in V
    BY <1>1, <2>1
  <2>3. row \in Seq(V) /\ Len(row) = w
    BY <2>2
  <2> QED BY <2>1, <2>3
<1>3. PICK Q : Q = Seq(V)
  OBVIOUS
<1>4. ss \in Seq(Q) /\ Len(ss) = N /\ DOMAIN ss = 1 .. N
  BY <1>2, <1>3
<1>5. /\ Len(FlattenSeq(ss)) = N * w
      /\ \A r \in 1 .. N, f \in 1 .. w :
           /\ (r - 1) * w + f \in 1 .. N * w
           /\ FlattenSeq(ss)[(r - 1) * w + f] = ss[r][f]
  <2>1. ss \in Seq(Seq(V)) /\ \A r \in DOMAIN ss : Len(ss[r]) = w
    BY <1>2, <1>3, <1>4
  <2>2. IsGrid(FlattenSeq(ss), ss, w)
    BY <2>1, FlattenGrid
  <2> QED BY <1>4, <2>2 DEF IsGrid
<1>6. FlattenSeq(ss) \in Seq(V)
  BY <1>3, <1>4, FlattenTyped
<1>7. PICK flat : flat = FlattenSeq(ss)
  OBVIOUS
<1>8. flat = [c \in 1 .. N * w |-> ss[((c - 1) \div w) + 1][((c - 1) % w) + 1]]
  <2>1. PICK M \in Nat : M = N * w
    OBVIOUS
  <2>2. flat = [c \in 1 .. M |-> flat[c]]
    <3>1. Len(flat) = M /\ flat \in Seq(V)
      BY <1>5, <1>6, <1>7, <2>1
    <3> QED BY <3>1
  <2>3. ASSUME NEW c \in 1 .. M PROVE flat[c] = ss[((c - 1) \div w) + 1][((c - 1) % w) + 1]
    <3>1. c \in 1 .. N * w
      BY <2>1
    <3>2. PICK r \in 1 .. N, f \in 1 .. w :
            /\ r = ((c - 1) \div w) + 1 /\ f = ((c - 1) % w) + 1 /\ (r - 1) * w + f = c
      <4>1. PICK q, m : q = (c - 1) \div w /\ m = (c - 1) % w
        OBVIOUS
      <4>2. /\ q + 1 \in 1 .. N /\ m + 1 \in 1 .. w /\ q * w + (m + 1) = c /\ w # 0
        BY <3>1, <4>1, GridPlace
      <4>3. q \in Int
        BY <4>1, <4>2
      <4>4. (q + 1) - 1 = q
        BY <4>3
      <4> QED BY <4>1, <4>2, <4>4
    <3>3. flat[(r - 1) * w + f] = ss[r][f]
      BY <1>5, <1>7
    <3> QED BY <3>2, <3>3
  <2> QED BY <2>1, <2>2, <2>3
<1> QED BY <1>5, <1>7, <1>8 DEF IsTable

\* The loop of Kept: the list kept of the first n elements.
KeptLoop(e, seq, places) ==
  /\ e = [n \in 0 .. Len(seq) |-> e[n]]
  /\ e[0] = << >>
  /\ \A n \in 1 .. Len(seq) :
       e[n] = IF n \in places THEN Append(e[n - 1], seq[n]) ELSE e[n - 1]

\* Kept runs its loop to the end.
LEMMA KeptRuns ==
  ASSUME NEW R, NEW seq \in Seq(R), NEW places
  PROVE  \E e \in [0 .. Len(seq) -> Seq(R)] :
           KeptLoop(e, seq, places) /\ Kept(seq, places) = e[Len(seq)]
<1>0. PICK W : W = Seq(R)
  OBVIOUS
<1>1. PICK N \in Nat : N = Len(seq)
  OBVIOUS
<1> DEFINE Next1(v, n) == IF n \in places THEN Append(v, seq[n]) ELSE v
           Eq(x) == x = [n \in 0 .. Len(seq) |->
                           IF n = 0 THEN << >> ELSE Next1(x[n - 1], n)]
<1>2. ASSUME NEW n \in 1 .. N, NEW v \in W PROVE Next1(v, n) \in W
  <2>1. seq[n] \in R /\ v \in Seq(R)
    BY <1>0, <1>1
  <2>2. Append(v, seq[n]) \in Seq(R)
    BY <2>1
  <2> QED BY <1>0, <2>1, <2>2
<1>3. PICK f : f = [x \in (1 .. N) \X W |-> Next1(x[2], x[1])]
  OBVIOUS
<1>4. f \in [(1 .. N) \X W -> W]
  <2> HIDE DEF Next1
  <2> QED BY <1>2, <1>3
<1>5. << >> \in W
  BY <1>0
<1>6. PICK g : Runs(g, W, N, f, << >>)
  BY <1>4, <1>5, RecursionExists
<1>7. \A n \in 1 .. N : \A v \in W : f[<<n, v>>] = Next1(v, n)
  <2> HIDE DEF Next1
  <2> QED BY <1>3
<1>8. Eq(g)
  <2> HIDE DEF Next1
  <2>1. g = [n \in 0 .. N |-> g[n]]
    BY <1>6 DEF Runs
  <2>2. ASSUME NEW n \in 0 .. N PROVE g[n] = IF n = 0 THEN << >> ELSE Next1(g[n - 1], n)
    <3>1. n # 0 => n \in 1 .. N /\ n - 1 \in 0 .. N
      OBVIOUS
    <3> QED BY <1>6, <1>7, <3>1 DEF Runs
  <2> QED BY <1>1, <2>1, <2>2
<1>9. PICK x : Eq(x) /\ Kept(seq, places) = x[N]
  <2>1. PICK x : x = CHOOSE y : Eq(y)
    OBVIOUS
  <2>2. Eq(x)
    <3> HIDE DEF Eq
    <3> QED BY <1>8, <2>1
  <2>3. Kept(seq, places) = x[Len(seq)]
    BY <2>1 DEF Kept
  <2> HIDE DEF Eq
  <2> QED BY <1>1, <2>2, <2>3
<1>10. x = [n \in 0 .. N |-> x[n]] /\ x[0] = << >>
  BY <1>1, <1>9
<1>11. ASSUME NEW n \in 1 .. N PROVE x[n] = Next1(x[n - 1], n)
  <2>1. n \in 0 .. N /\ n # 0
    OBVIOUS
  <2> HIDE DEF Next1
  <2> QED BY <1>1, <1>9, <2>1
<1>12. Runs(x, W, N, f, << >>)
  <2> HIDE DEF Next1, Eq
  <2>1. ASSUME NEW n \in 1 .. N, x[n - 1] \in W PROVE x[n] = f[<<n, x[n - 1]>>]
    BY <1>7, <1>11, <2>1
  <2> QED BY <1>4, <1>5, <1>10, <2>1, RunsTyped
<1>13. KeptLoop(x, seq, places)
  BY <1>1, <1>10, <1>11 DEF KeptLoop
<1> HIDE DEF Eq, Next1
<1> QED BY <1>0, <1>1, <1>9, <1>12, <1>13 DEF Runs

\* q is the places among the first n, in order.
PlacesUpTo(q, n, places) ==
  /\ q \in Seq(1 .. n)
  /\ \A k, l \in 1 .. Len(q) : k < l => q[k] < q[l]
  /\ \A i \in 1 .. n : i \in places <=> \E k \in 1 .. Len(q) : q[k] = i

\* A list is a function on the numbers up to its length.
LEMMA ListLength ==
  ASSUME NEW R, NEW q \in Seq(R)
  PROVE  \E L \in Nat : L = Len(q) /\ q \in [1 .. L -> R]
OBVIOUS

\* What is kept of a list is its elements at the places, in order.
LEMMA KeptPlaces ==
  ASSUME NEW R, NEW seq \in Seq(R), NEW places
  PROVE  \E q : /\ PlacesUpTo(q, Len(seq), places)
               /\ Kept(seq, places) = [k \in 1 .. Len(q) |-> seq[q[k]]]
<1>1. PICK e \in [0 .. Len(seq) -> Seq(R)] :
        KeptLoop(e, seq, places) /\ Kept(seq, places) = e[Len(seq)]
  BY KeptRuns
<1>2. PICK N \in Nat : N = Len(seq)
  OBVIOUS
<1> DEFINE Done(n) == \E q : PlacesUpTo(q, n, places) /\ e[n] = [k \in 1 .. Len(q) |-> seq[q[k]]]
           S == {n \in Nat : n <= N => Done(n)}
<1>3. Done(0)
  <2>1. PICK q : q = << >>
    OBVIOUS
  <2>2. Len(q) = 0 /\ q \in Seq(1 .. 0) /\ 1 .. 0 = {} /\ 1 .. Len(q) = {}
    BY <2>1
  <2>3. PlacesUpTo(q, 0, places)
    BY <2>2 DEF PlacesUpTo
  <2>4. e[0] = [k \in 1 .. Len(q) |-> seq[q[k]]]
    BY <1>1, <2>2 DEF KeptLoop
  <2> QED BY <2>3, <2>4
<1>4. ASSUME NEW n \in Nat, n + 1 <= N, Done(n) PROVE Done(n + 1)
  <2>1. PICK q : PlacesUpTo(q, n, places) /\ e[n] = [k \in 1 .. Len(q) |-> seq[q[k]]]
    BY <1>4
  <2>2. PICK L \in Nat : L = Len(q) /\ q \in [1 .. L -> 1 .. n]
    <3>1. q \in Seq(1 .. n)
      BY <2>1 DEF PlacesUpTo
    <3> QED BY <3>1, ListLength
  <2>3. n + 1 \in 1 .. Len(seq) /\ (n + 1) - 1 = n
    BY <1>2, <1>4
  <2>4. e[n + 1] = IF n + 1 \in places THEN Append(e[n], seq[n + 1]) ELSE e[n]
    BY <1>1, <2>3 DEF KeptLoop
  <2>5. CASE n + 1 \in places
    <3>1. PICK r : r = [k \in 1 .. L + 1 |-> IF k = L + 1 THEN n + 1 ELSE q[k]]
      OBVIOUS
    <3>2. r[L + 1] = n + 1 /\ \A k \in 1 .. L : k \in 1 .. L + 1 /\ k # L + 1 /\ r[k] = q[k]
      BY <3>1
    <3>3. \A k \in 1 .. L + 1 : k = L + 1 \/ k \in 1 .. L
      OBVIOUS
    <3>4. r \in [1 .. L + 1 -> 1 .. n + 1]
      <4>1. \A k \in 1 .. L + 1 : (IF k = L + 1 THEN n + 1 ELSE q[k]) \in 1 .. n + 1
        BY <2>2
      <4> QED BY <3>1, <4>1, Zenon
    <3>5. r \in Seq(1 .. n + 1) /\ Len(r) = L + 1
      BY <3>4
    <3>6. \A k, l \in 1 .. L + 1 : k < l => r[k] < r[l]
      <4>1. \A k, l \in 1 .. L : k < l => q[k] < q[l]
        BY <2>1, <2>2 DEF PlacesUpTo
      <4>2. \A k \in 1 .. L : q[k] < n + 1
        BY <2>2
      <4>3. SUFFICES ASSUME NEW k \in 1 .. L + 1, NEW l \in 1 .. L + 1, k < l
                     PROVE  r[k] < r[l]
        OBVIOUS
      <4>4. k \in 1 .. L /\ r[k] = q[k]
        BY <3>2, <4>3
      <4>5. CASE l = L + 1
        BY <3>2, <4>2, <4>4, <4>5
      <4>6. CASE l # L + 1
        BY <3>2, <3>3, <4>1, <4>3, <4>4, <4>6
      <4> QED BY <4>5, <4>6
    <3>7. ASSUME NEW i \in 1 .. n + 1
          PROVE  i \in places <=> \E k \in 1 .. L + 1 : r[k] = i
      <4>1. CASE i = n + 1
        BY <2>5, <3>2, <4>1
      <4>2. CASE i # n + 1
        <5>1. i \in 1 .. n
          BY <4>2
        <5>2. i \in places <=> \E k \in 1 .. L : q[k] = i
          BY <2>1, <2>2, <5>1 DEF PlacesUpTo
        <5> QED BY <3>2, <3>3, <4>2, <5>2
      <4> QED BY <4>1, <4>2
    <3>8. PlacesUpTo(r, n + 1, places)
      BY <3>5, <3>6, <3>7 DEF PlacesUpTo
    <3>9. e[n + 1] = [k \in 1 .. Len(r) |-> seq[r[k]]]
      <4>1. PICK s : s = [k \in 1 .. L |-> seq[q[k]]]
        OBVIOUS
      <4>2. s \in Seq(R) /\ Len(s) = L
        <5>1. \A k \in 1 .. L : q[k] \in 1 .. Len(seq)
          BY <2>2, <2>3
        <5>2. s \in [1 .. L -> R]
          BY <4>1, <5>1
        <5> QED BY <5>2
      <4>3. PICK t : t = Append(s, seq[n + 1])
        OBVIOUS
      <4>4. t = [k \in 1 .. L + 1 |-> t[k]] /\ t[L + 1] = seq[n + 1]
            /\ \A k \in 1 .. L : t[k] = s[k]
        BY <4>2, <4>3
      <4>5. \A k \in 1 .. L + 1 : t[k] = seq[r[k]]
        BY <3>2, <3>3, <4>1, <4>4
      <4>6. t = [k \in 1 .. L + 1 |-> seq[r[k]]]
        BY <4>4, <4>5
      <4> QED BY <2>1, <2>2, <2>4, <2>5, <3>5, <4>1, <4>3, <4>6
    <3> QED BY <3>8, <3>9
  <2>6. CASE n + 1 \notin places
    <3>1. q \in Seq(1 .. n + 1)
      <4>1. q \in [1 .. L -> 1 .. n + 1]
        BY <2>2
      <4> QED BY <4>1
    <3>2. ASSUME NEW i \in 1 .. n + 1
          PROVE  i \in places <=> \E k \in 1 .. Len(q) : q[k] = i
      <4>1. CASE i = n + 1
        BY <2>2, <2>6, <4>1
      <4>2. CASE i # n + 1
        <5>1. i \in 1 .. n
          BY <4>2
        <5> QED BY <2>1, <5>1 DEF PlacesUpTo
      <4> QED BY <4>1, <4>2
    <3>3. PlacesUpTo(q, n + 1, places)
      BY <2>1, <3>1, <3>2 DEF PlacesUpTo
    <3> QED BY <2>1, <2>4, <2>6, <3>3
  <2> QED BY <2>5, <2>6
<1>5. \A n \in Nat : n \in S
  <2>1. 0 \in S
    BY <1>3
  <2>2. ASSUME NEW n \in Nat, n \in S PROVE n + 1 \in S
    <3>1. n + 1 <= N => n <= N
      OBVIOUS
    <3> HIDE DEF Done
    <3> QED BY <1>4, <2>2, <3>1
  <2> HIDE DEF S
  <2> QED BY <2>1, <2>2, SetInduction
<1>6. Done(N)
  <2>1. N \in S /\ N <= N
    BY <1>5
  <2> HIDE DEF Done
  <2> QED BY <2>1
<1> QED BY <1>1, <1>2, <1>6

\* What is kept of a list over R is a list over R.
LEMMA KeptTyped ==
  ASSUME NEW R, NEW seq \in Seq(R), NEW places
  PROVE  Kept(seq, places) \in Seq(R)
BY KeptRuns

\* The elements that are kept are those at the places.
LEMMA KeptElements ==
  ASSUME NEW R, NEW seq \in Seq(R), NEW places
  PROVE  ToSet(Kept(seq, places)) = {seq[n] : n \in DOMAIN seq \cap places}
<1>1. PICK q : /\ PlacesUpTo(q, Len(seq), places)
               /\ Kept(seq, places) = [k \in 1 .. Len(q) |-> seq[q[k]]]
  BY KeptPlaces
<1>2. DOMAIN seq = 1 .. Len(seq)
  OBVIOUS
<1>3. ToSet(Kept(seq, places)) = {seq[q[k]] : k \in 1 .. Len(q)}
  BY <1>1 DEF ToSet
<1>4. \A k \in 1 .. Len(q) : q[k] \in DOMAIN seq /\ q[k] \in places
  BY <1>1, <1>2 DEF PlacesUpTo
<1>5. \A n \in DOMAIN seq \cap places : \E k \in 1 .. Len(q) : q[k] = n
  BY <1>1, <1>2 DEF PlacesUpTo
<1> QED BY <1>3, <1>4, <1>5

\* The rows of a source are rows of the view.
LEMMA OfSourceTyped ==
  ASSUME NEW R, NEW view \in Seq(R), NEW source
  PROVE  OfSource(view, source) \in Seq(R)
BY KeptTyped DEF OfSource

\* FirstOf loses no element and repeats none.
LEMMA FirstOfElements ==
  ASSUME NEW R, NEW seq \in Seq(R)
  PROVE  /\ FirstOf(seq) \in Seq(R)
         /\ ToSet(FirstOf(seq)) = ToSet(seq)
         /\ Unique(FirstOf(seq))
<1>1. PICK P : P = {n \in DOMAIN seq : \A m \in 1 .. n - 1 : seq[m] # seq[n]}
  OBVIOUS
<1>2. FirstOf(seq) = Kept(seq, P)
  BY <1>1 DEF FirstOf
<1>3. DOMAIN seq = 1 .. Len(seq) /\ Len(seq) \in Nat
  OBVIOUS
<1>4. ASSUME NEW n \in DOMAIN seq PROVE \E m \in P : seq[m] = seq[n]
  <2>1. PICK T : T = {m \in DOMAIN seq : seq[m] = seq[n]}
    OBVIOUS
  <2>2. T \in SUBSET Nat /\ T # {}
    BY <1>3, <2>1
  <2>3. PICK m \in T : \A y \in T : m <= y
    BY <2>2, Least
  <2>4. ASSUME NEW y \in 1 .. m - 1 PROVE seq[y] # seq[m]
    <3>1. y \in DOMAIN seq /\ ~ (m <= y)
      BY <1>3, <2>1, <2>3
    <3>2. y \notin T
      BY <2>3, <3>1
    <3> QED BY <2>1, <3>1, <3>2
  <2> QED BY <1>1, <2>1, <2>4
<1>5. ToSet(FirstOf(seq)) = ToSet(seq)
  <2>1. ToSet(FirstOf(seq)) = {seq[n] : n \in DOMAIN seq \cap P}
    BY <1>2, KeptElements
  <2>2. P \subseteq DOMAIN seq
    BY <1>1
  <2>3. ToSet(FirstOf(seq)) = {seq[n] : n \in P}
    BY <2>1, <2>2
  <2> QED BY <1>4, <2>2, <2>3 DEF ToSet
<1>6. Unique(FirstOf(seq))
  <2>1. PICK q : /\ PlacesUpTo(q, Len(seq), P)
                 /\ FirstOf(seq) = [k \in 1 .. Len(q) |-> seq[q[k]]]
    BY <1>2, KeptPlaces
  <2>2. PICK L \in Nat : L = Len(q) /\ q \in [1 .. L -> 1 .. Len(seq)]
    <3>1. q \in Seq(1 .. Len(seq))
      BY <2>1 DEF PlacesUpTo
    <3> QED BY <3>1, ListLength
  <2>3. \A k \in 1 .. L : q[k] \in P
    BY <2>1, <2>2 DEF PlacesUpTo
  <2>4. ASSUME NEW k \in 1 .. L, NEW l \in 1 .. L, k < l PROVE seq[q[k]] # seq[q[l]]
    <3>1. q[k] < q[l]
      BY <2>1, <2>2, <2>4 DEF PlacesUpTo
    <3>2. q[k] \in 1 .. q[l] - 1
      BY <2>2, <3>1
    <3> QED BY <1>1, <2>3, <3>2
  <2>5. \A k, l \in 1 .. L : k = l \/ k < l \/ l < k
    OBVIOUS
  <2> QED BY <2>1, <2>2, <2>4, <2>5 DEF Unique
<1> QED BY <1>2, <1>5, <1>6, KeptTyped

(***************************************************************************)
(* Tensors.                                                                *)
(***************************************************************************)

\* A tensor as a host may describe it: TensorsAssumption.
HostTensor(v) ==
  /\ v.shape \in Seq(Nat) /\ v.size \in Nat /\ v.data_len \in Nat
  /\ v.strides # << >> => v.strides[1] \in Seq(Int) /\ Len(v.strides[1]) = Len(v.shape)
  /\ v.obs \in Seq(ToSet(v.obs))
  /\ v.presence # << >> => v.presence[1] \in Seq(ToSet(v.presence[1]))

\* The addresses of a host's memory.
Memory(v) == 0 .. v.data_len - 1

\* What is gathered by strides: the bytes of each element, from its offset, all of
\* them in the host's memory.
LEMMA GatheredBytes ==
  ASSUME NEW v, HostTensor(v), 0 \notin ToSet(v.shape), v.strides # << >>,
         NEW elements \in Nat, IsOk(gather_strided_tensor(v, elements))
  PROVE  /\ Strided(v.shape, v.strides[1])
         /\ gather_strided_tensor(v, elements)[1] \in Seq(Memory(v))
         /\ Len(gather_strided_tensor(v, elements)[1]) = elements * v.size
         /\ \A n \in 0 .. elements - 1, byte \in 1 .. v.size :
              gather_strided_tensor(v, elements)[1][n * v.size + byte]
                = StridedOffset(v.shape, v.strides[1], n) + byte - 1
<1>1. PICK s, r, z, n, M : /\ s = v.shape /\ r = v.strides[1]
                           /\ z = v.size /\ n = v.data_len /\ M = Memory(v)
  OBVIOUS
<1> z \in Nat /\ n \in Nat
  BY <1>1 DEF HostTensor
<1>2. /\ \A i \in DOMAIN r : r[i] > 0
      /\ MaxOffset(s, r) >= 0 /\ n >= MaxOffset(s, r) + z
  BY <1>1 DEF gather_strided_tensor, IsOk, Err
<1>3. Strided(s, r)
  <2>1. s \in Seq(Nat) /\ r \in Seq(Int) /\ Len(r) = Len(s)
    BY <1>1 DEF HostTensor
  <2>2. PICK N \in Nat : N = Len(r) /\ DOMAIN r = 1 .. N /\ r = [i \in 1 .. N |-> r[i]]
    BY <2>1
  <2>3. \A i \in 1 .. N : r[i] \in Nat
    BY <1>2, <2>1, <2>2
  <2>4. r \in Seq(Nat)
    <3>1. r \in [1 .. N -> Nat]
      BY <2>2, <2>3
    <3> QED BY <3>1, SeqDef
  <2> QED BY <1>1, <2>1, <2>4 DEF Strided
<1>4. ASSUME NEW e \in 1 .. elements, NEW k \in 1 .. z
      PROVE  StridedOffset(s, r, e - 1) + k - 1 \in M
  <2>1. PICK L \in Nat, flat \in Nat : L = Len(s) /\ flat = e - 1
    BY <1>3 DEF Strided
  <2>2. L \in 0 .. Len(s)
    BY <2>1
  <2>3. /\ MaxOffset(s, r) \in Nat
        /\ Decomposed(s, r, flat)[L].offset \in 0 .. MaxOffset(s, r)
    BY <1>2, <1>3, <2>2, OffsetsWithin
  <2>4. PICK a \in Nat, b \in Nat : /\ a = StridedOffset(s, r, e - 1)
                                    /\ b = MaxOffset(s, r) /\ a <= b
    BY <2>1, <2>3 DEF StridedOffset
  <2>5. a + k - 1 \in 0 .. n - 1
    BY <1>2, <2>4
  <2> QED BY <1>1, <2>4, <2>5 DEF Memory
<1>5. PICK ss : ss = [e \in 1 .. elements |->
                        [k \in 1 .. z |-> StridedOffset(s, r, e - 1) + k - 1]]
  OBVIOUS
<1>6. ss \in Seq(Seq(M))
  <2>1. ASSUME NEW e \in 1 .. elements
        PROVE  [k \in 1 .. z |-> StridedOffset(s, r, e - 1) + k - 1] \in Seq(M)
    BY <1>4
  <2>2. PICK Q : Q = Seq(M)
    OBVIOUS
  <2>3. \A e \in 1 .. elements : ss[e] \in Q
    BY <1>5, <2>1, <2>2
  <2>4. ss = [e \in 1 .. elements |-> ss[e]]
    BY <1>5
  <2>5. ss \in Seq(Q)
    BY <2>3, <2>4
  <2> QED BY <2>2, <2>5
<1>7. gather_strided_tensor(v, elements)[1] = FlattenSeq(ss)
  BY <1>1, <1>5 DEF gather_strided_tensor, IsOk, Ok, Err
<1>8. FlattenSeq(ss) \in Seq(M)
  BY <1>6, FlattenTyped
<1>9. IsGrid(FlattenSeq(ss), ss, z) /\ Len(ss) = elements
  <2>1. \A e \in DOMAIN ss : Len(ss[e]) = z
    BY <1>5
  <2>2. Len(ss) = elements
    BY <1>5
  <2> QED BY <1>6, <2>1, <2>2, FlattenGrid
<1>10. ASSUME NEW m \in 0 .. elements - 1, NEW byte \in 1 .. z
       PROVE  FlattenSeq(ss)[m * z + byte] = StridedOffset(s, r, m) + byte - 1
  <2>1. PICK e \in 1 .. elements : e = m + 1 /\ e - 1 = m
    OBVIOUS
  <2>2. FlattenSeq(ss)[(e - 1) * z + byte] = ss[e][byte]
    BY <1>9, <2>1 DEF IsGrid
  <2>3. ss[e][byte] = StridedOffset(s, r, e - 1) + byte - 1
    BY <1>5
  <2> QED BY <2>1, <2>2, <2>3
<1>11. Len(FlattenSeq(ss)) = elements * z
  BY <1>9 DEF IsGrid
<1> QED BY <1>1, <1>3, <1>7, <1>8, <1>10, <1>11

\* A gathered tensor has the rows of its observations, over the host's memory.
Gathered(t, v) ==
  /\ t.data \in Seq(Memory(v))
  /\ t.obs \in Seq(ToSet(t.obs))
  /\ Len(t.obs) = t.shape[1] /\ t.shape[1] \in Nat \ {0}

\* A borrowed tensor, with or without strides.
LEMMA BorrowedTensor ==
  ASSUME NEW v, HostTensor(v), IsOk(borrowed_tensor_view_to_input(v))
  PROVE  Gathered(borrowed_tensor_view_to_input(v)[1], v)
<1>1. PICK elements, bytes, data, t :
        /\ elements = Product(v.shape) /\ bytes = elements * v.size
        /\ data = IF v.strides = << >> THEN contiguous(v, bytes)
                  ELSE gather_strided_tensor(v, elements)
        /\ t = borrowed_tensor_view_to_input(v)[1]
  OBVIOUS
<1>2. /\ Len(v.shape) \in 1 .. MaxRank /\ 0 \notin ToSet(v.shape)
      /\ v.shape[1] = Len(v.obs) /\ elements >= 0 /\ IsOk(data)
      /\ t.shape = v.shape /\ t.obs = v.obs /\ t.data = data[1]
  <2>1. \/ borrowed_tensor_view_to_input(v) = Err
        \/ /\ Len(v.shape) \in 1 .. MaxRank /\ 0 \notin ToSet(v.shape)
           /\ v.shape[1] = Len(v.obs) /\ elements >= 0 /\ IsOk(data)
           /\ t.shape = v.shape /\ t.obs = v.obs /\ t.data = data[1]
    BY <1>1 DEF borrowed_tensor_view_to_input, Ok
  <2> QED BY <2>1 DEF IsOk
<1>3. elements \in Nat
  <2>1. elements \in Nat \cup {-1}
    BY <1>1, ProductTyped DEF HostTensor
  <2> QED BY <1>2, <2>1
<1>4. data[1] \in Seq(Memory(v))
  <2>1. CASE v.strides = << >>
    <3>1. PICK n \in Nat : n = v.data_len
      BY DEF HostTensor
    <3>2. data = contiguous(v, bytes)
      BY <1>1, <2>1
    <3>3. bytes = n /\ data[1] = [a \in 1 .. bytes |-> a - 1]
      BY <1>2, <3>1, <3>2 DEF contiguous, IsOk, Ok, Err
    <3>4. \A a \in 1 .. n : a - 1 \in 0 .. n - 1
      OBVIOUS
    <3> QED BY <3>1, <3>3, <3>4 DEF Memory
  <2>2. CASE v.strides # << >>
    BY <1>1, <1>2, <1>3, <2>2, GatheredBytes
  <2> QED BY <2>1, <2>2
<1>5. v.shape[1] \in Nat \ {0}
  <2>1. 1 \in 1 .. Len(v.shape) /\ v.shape \in Seq(Nat)
    BY <1>2, TensorsAssumption DEF HostTensor
  <2>2. v.shape[1] \in Nat /\ v.shape[1] \in ToSet(v.shape)
    BY <2>1 DEF ToSet
  <2> QED BY <1>2, <2>2
<1> QED BY <1>1, <1>2, <1>4, <1>5 DEF Gathered, HostTensor

\* A row of a tensor is a part of its data.
LEMMA RowWithin ==
  ASSUME NEW n \in Nat, NEW rows \in Nat \ {0}, NEW i \in 1 .. rows
  PROVE  /\ n \div rows \in Nat /\ (i - 1) * (n \div rows) \in Nat
         /\ (i - 1) * (n \div rows) + n \div rows <= n
<1>1. PICK q \in Nat : q = n \div rows /\ rows * q <= n
  OBVIOUS
<1>2. PICK j \in Nat : j = i - 1 /\ i = j + 1
  OBVIOUS
<1>3. j * q + q = i * q /\ j * q \in Nat
  BY <1>2
<1>4. i * q <= rows * q /\ rows * q \in Nat /\ i * q \in Nat
  BY TimesGrows
<1> QED BY <1>1, <1>2, <1>3, <1>4

\* Projection takes rows of the tensor and nothing else.
LEMMA ProjectedData ==
  ASSUME NEW v, NEW t, Gathered(t, v), NEW R, NEW view \in Seq(R), NEW source,
         IsOk(project_tensor(t, view, source))
  PROVE  project_tensor(t, view, source)[1].data \in Seq(Memory(v))
<1>0. PICK M, d, rows, q : /\ M = Memory(v) /\ d = t.data
                           /\ rows = OfSource(view, source) /\ q = RowStride(t)
  OBVIOUS
<1>1. PICK n \in Nat, L \in Nat \ {0} :
        /\ M = Memory(v) /\ d = t.data /\ rows = OfSource(view, source)
        /\ n = Len(d) /\ L = Len(t.obs) /\ L = t.shape[1] /\ q = RowStride(t)
  <2>1. Len(d) \in Nat /\ t.shape[1] \in Nat \ {0} /\ Len(t.obs) = t.shape[1]
    BY <1>0 DEF Gathered
  <2> QED BY <1>0, <2>1
<1>2. d \in Seq(M) /\ q = n \div L
  BY <1>1 DEF Gathered, RowStride
<1>3. rows \in Seq(R)
  BY <1>1, OfSourceTyped
<1>4. ToSet(ObsIn(rows)) \subseteq ToSet(t.obs)
  BY <1>1 DEF project_tensor, IsOk, Err
<1>5. ASSUME NEW k \in DOMAIN rows PROVE IndexOf(t.obs, rows[k].obs) \in 1 .. L
  <2>1. rows[k].obs \in ToSet(ObsIn(rows))
    BY DEF ObsIn, ToSet
  <2>2. \E i \in DOMAIN t.obs : t.obs[i] = rows[k].obs
    BY <1>4, <2>1 DEF ToSet
  <2>3. IndexOf(t.obs, rows[k].obs) \in DOMAIN t.obs
    BY <2>2 DEF IndexOf
  <2> QED BY <1>1, <2>3 DEF Gathered
<1>6. ASSUME NEW i \in 1 .. L PROVE Window(d, (i - 1) * q, q) \in Seq(M)
  <2>1. PICK a \in Nat, w \in Nat : a = (i - 1) * q /\ w = q /\ a + w <= n
    BY <1>2, RowWithin
  <2>2. \A j \in a + 1 .. a + w : j \in 1 .. n
    BY <2>1
  <2>3. \A j \in a + 1 .. a + w : d[j] \in M
    BY <1>1, <1>2, <2>2
  <2>4. SubSeq(d, a + 1, a + w) \in Seq(M)
    BY <2>3, SubSeqProperties
  <2> QED BY <2>1, <2>4 DEF Window
<1>7. PICK ss : ss = [k \in DOMAIN rows |->
                        Window(d, (IndexOf(t.obs, rows[k].obs) - 1) * q, q)]
  OBVIOUS
<1>8. ss \in Seq(Seq(M))
  <2>1. PICK Q : Q = Seq(M)
    OBVIOUS
  <2>2. \A k \in DOMAIN rows : ss[k] \in Q
    BY <1>5, <1>6, <1>7, <2>1
  <2>3. PICK N \in Nat : DOMAIN rows = 1 .. N
    BY <1>3
  <2>4. ss = [k \in 1 .. N |-> ss[k]]
    BY <1>7, <2>3
  <2>5. ss \in Seq(Q)
    BY <2>2, <2>3, <2>4
  <2> QED BY <2>1, <2>5
<1>9. project_tensor(t, view, source)[1].data = FlattenSeq(ss)
  <2>1. PICK row : row = [k \in DOMAIN rows |-> IndexOf(t.obs, rows[k].obs)]
    OBVIOUS
  <2>2. project_tensor(t, view, source)[1].data =
          FlattenSeq([k \in DOMAIN rows |-> Window(d, (row[k] - 1) * q, q)])
    BY <1>1, <1>4, <2>1 DEF project_tensor, Ok
  <2>3. [k \in DOMAIN rows |-> Window(d, (row[k] - 1) * q, q)] = ss
    BY <1>7, <2>1
  <2> QED BY <2>2, <2>3
<1> QED BY <1>1, <1>8, <1>9, FlattenTyped

(***************************************************************************)
(* The elements of a tensor are where they should be.                      *)
(***************************************************************************)

\* An index of a shape.
LEMMA IndexTyped ==
  ASSUME NEW s \in Seq(Nat), NEW x \in Indices(s)
  PROVE  IsIndex(x, s)
<1>1. DOMAIN s = 1 .. Len(s) /\ UsizeMax \in Nat
  BY TensorsAssumption
<1>2. \A n \in 1 .. Len(s) : x[n] \in 0 .. (UsizeMax - 1) /\ x[n] < s[n]
  BY <1>1 DEF Indices
<1> QED BY <1>1, <1>2 DEF IsIndex

\* data holds the bytes of every element of a tensor, in row-major order.
HoldsElements(data, v) ==
  /\ Len(data) = Product(v.shape) * v.size
  /\ \A x \in Indices(v.shape), byte \in 1 .. v.size :
       data[RowMajor(v.shape, x) * v.size + byte] = AddressOf(Strides(v), x) + byte - 1

\* Gathered by strides it does.
LEMMA StridedElements ==
  ASSUME NEW v, HostTensor(v), 0 \notin ToSet(v.shape), v.strides # << >>,
         Product(v.shape) \in Nat, IsOk(gather_strided_tensor(v, Product(v.shape)))
  PROVE  HoldsElements(gather_strided_tensor(v, Product(v.shape))[1], v)
<1>1. PICK s, r, z, elements, data :
        /\ s = v.shape /\ r = v.strides[1] /\ z = v.size /\ elements = Product(v.shape)
        /\ data = gather_strided_tensor(v, Product(v.shape))[1]
  OBVIOUS
<1>2. /\ Strided(s, r) /\ Len(data) = elements * z
      /\ \A n \in 0 .. elements - 1, byte \in 1 .. z :
           data[n * z + byte] = StridedOffset(s, r, n) + byte - 1
  BY <1>1, GatheredBytes
<1>3. s \in Seq(Nat) /\ r \in Seq(Nat) /\ Len(r) = Len(s) /\ Strides(v) = r
  BY <1>1, <1>2 DEF Strided, Strides
<1>4. ASSUME NEW x \in Indices(s), NEW byte \in 1 .. z
      PROVE  data[RowMajor(s, x) * z + byte] = AddressOf(r, x) + byte - 1
  <2>1. IsIndex(x, s)
    BY <1>3, IndexTyped
  <2>2. \A n \in 1 .. Len(s) : x[n] \in Nat
    BY <2>1 DEF IsIndex
  <2>3. PICK p : Positions(p, s, x) /\ RowMajor(s, x) = p[Len(s)]
    BY <1>3, <2>2, RowMajorRuns
  <2>4. PICK a : Offsets(a, r, x) /\ AddressOf(r, x) = a[Len(r)]
    BY <1>3, <2>2, AddressRuns
  <2>5. PICK w : Products(w, s) /\ elements = w[Len(s)]
    BY <1>1, <1>3, ProductRuns
  <2>6. RowMajor(s, x) \in 0 .. elements - 1
    BY <1>3, <2>1, <2>3, <2>5, PositionsBelow
  <2>7. StridedOffset(s, r, RowMajor(s, x)) = AddressOf(r, x)
    BY <1>2, <1>3, <2>1, <2>3, <2>4, OffsetOfPosition
  <2> QED BY <1>2, <2>6, <2>7
<1> QED BY <1>1, <1>2, <1>3, <1>4 DEF HoldsElements

\* And so does a canonical payload.
LEMMA CanonicalElements ==
  ASSUME NEW v, HostTensor(v), v.strides = << >>, Product(v.shape) \in Nat
  PROVE  HoldsElements([a \in 1 .. Product(v.shape) * v.size |-> a - 1], v)
<1>1. PICK s, z, elements : s = v.shape /\ z = v.size /\ elements = Product(v.shape)
  OBVIOUS
<1>2. s \in Seq(Nat) /\ z \in Nat /\ elements \in Nat
  BY <1>1 DEF HostTensor
<1>3. PICK bytes \in Nat : bytes = elements * z
  BY <1>2
<1>4. PICK data : data = [a \in 1 .. bytes |-> a - 1]
  OBVIOUS
<1>5. PICK b : Blocks(b, s, z) /\ CanonicalStrides(s, z) = [i \in DOMAIN s |-> b[Len(s) - i]]
  BY <1>2, BlockRuns
<1>6. PICK r : r = CanonicalStrides(s, z)
  OBVIOUS
<1>7. r \in Seq(Nat) /\ Len(r) = Len(s)
  <2>1. PICK N \in Nat : N = Len(s) /\ DOMAIN s = 1 .. N
    BY <1>2
  <2>2. \A i \in 1 .. N : N - i \in 0 .. N
    OBVIOUS
  <2>3. \A i \in 1 .. N : b[N - i] \in Nat
    BY <1>5, <2>1, <2>2 DEF Blocks
  <2>4. r = [i \in 1 .. N |-> b[N - i]]
    BY <1>5, <1>6, <2>1
  <2> QED BY <2>1, <2>3, <2>4
<1>8. ASSUME NEW x \in Indices(s), NEW byte \in 1 .. z
      PROVE  data[RowMajor(s, x) * z + byte] = AddressOf(r, x) + byte - 1
  <2>1. IsIndex(x, s)
    BY <1>2, IndexTyped
  <2>2. \A n \in 1 .. Len(s) : x[n] \in Nat
    BY <2>1 DEF IsIndex
  <2>3. PICK p : Positions(p, s, x) /\ RowMajor(s, x) = p[Len(s)]
    BY <1>2, <2>2, RowMajorRuns
  <2>4. PICK a : Offsets(a, r, x) /\ AddressOf(r, x) = a[Len(r)]
    BY <1>7, <2>2, AddressRuns
  <2>5. PICK w : Products(w, s) /\ elements = w[Len(s)]
    BY <1>1, <1>2, ProductRuns
  <2>6. PICK m \in Nat : m = RowMajor(s, x) /\ m < elements
    <3>1. p[Len(s)] \in Nat /\ w[Len(s)] \in Nat /\ p[Len(s)] < w[Len(s)]
      BY <1>2, <2>1, <2>3, <2>5, PositionsBelow
    <3> QED BY <2>3, <2>5, <3>1
  <2>7. AddressOf(r, x) = m * z
    <3>1. r = [i \in DOMAIN s |-> b[Len(s) - i]]
      BY <1>5, <1>6
    <3>2. a[Len(s)] = p[Len(s)] * z
      BY <1>2, <1>5, <2>1, <2>3, <2>4, <3>1, CanonicalAddress
    <3> QED BY <1>7, <2>3, <2>4, <2>6, <3>2
  <2>8. PICK c \in Nat : c = m * z /\ c + byte <= bytes
    <3>1. (m + 1) * z <= elements * z
      <4>1. PICK k \in Nat : k = m + 1 /\ k <= elements
        BY <1>2, <2>6
      <4>2. k * z <= elements * z
        BY <1>2, <4>1, TimesGrows
      <4> QED BY <4>1, <4>2
    <3>2. (m + 1) * z = m * z + z /\ m * z \in Nat
      BY <1>2
    <3>3. PICK c \in Nat : c = m * z
      BY <3>2
    <3>4. c + z <= bytes
      BY <1>3, <3>1, <3>2, <3>3
    <3>5. byte <= z
      BY <1>2
    <3> QED BY <1>2, <3>3, <3>4, <3>5
  <2>9. c + byte \in 1 .. bytes
    BY <1>2, <2>8
  <2>10. data[c + byte] = c + byte - 1
    BY <1>4, <2>9
  <2> QED BY <2>6, <2>7, <2>8, <2>10
<1>9. Len(data) = elements * z /\ Strides(v) = r
  BY <1>1, <1>3, <1>4, <1>6 DEF Strides
<1> QED BY <1>1, <1>3, <1>4, <1>8, <1>9 DEF HoldsElements

\* t is the tensor that v describes.
Exact(t, v) ==
  /\ v.shape \in Seq(Nat) /\ Len(v.shape) # 0 /\ 0 \notin ToSet(v.shape)
  /\ v.size \in Nat /\ Product(v.shape) \in Nat
  /\ t.shape = v.shape /\ t.obs = v.obs
  /\ v.obs \in Seq(ToSet(v.obs)) /\ Len(v.obs) = v.shape[1] /\ Unique(v.obs)
  /\ HoldsElements(t.data, v)
  /\ v.presence # << >> =>
       /\ DOMAIN v.presence[1] = 1 .. v.shape[1]
       /\ t.presence = <<[i \in DOMAIN v.presence[1] |-> v.presence[1][i] = 1]>>

\* Rows of the tensor v are in t, each with its presence: GatherExact.
RowsExact(t, v) ==
  /\ \A k \in 1 .. t.shape[1] :
       \A x \in {x \in Indices(v.shape) : v.obs[x[1] + 1] = t.obs[k]} : \A byte \in 1 .. v.size :
         t.data[RowMajor(t.shape, [x EXCEPT ![1] = k - 1]) * v.size + byte]
           = AddressOf(Strides(v), x) + byte - 1
  /\ v.presence # << >> => \A k \in 1 .. t.shape[1] :
       t.presence[1][k] <=> v.presence[1][IndexOf(v.obs, t.obs[k])] = 1

\* What passes the checks of the borrow and of NdTensor::from_input is exact.
LEMMA BorrowedExact ==
  ASSUME NEW v, HostTensor(v), IsOk(borrowed_tensor_view_to_input(v)),
         IsOk(from_input(borrowed_tensor_view_to_input(v)[1]))
  PROVE  Exact(borrowed_tensor_view_to_input(v)[1], v)
<1>1. PICK elements, bytes, data, t :
        /\ elements = Product(v.shape) /\ bytes = elements * v.size
        /\ data = IF v.strides = << >> THEN contiguous(v, bytes)
                  ELSE gather_strided_tensor(v, elements)
        /\ t = borrowed_tensor_view_to_input(v)[1]
  OBVIOUS
<1>2. /\ Len(v.shape) \in 1 .. MaxRank /\ 0 \notin ToSet(v.shape)
      /\ v.shape[1] = Len(v.obs) /\ elements >= 0 /\ IsOk(data) /\ ValidRowPresence(v)
      /\ t.shape = v.shape /\ t.obs = v.obs /\ t.data = data[1]
      /\ t.presence = IF v.presence = << >> THEN << >>
                      ELSE <<[i \in DOMAIN v.presence[1] |-> v.presence[1][i] = 1]>>
  <2>1. \/ borrowed_tensor_view_to_input(v) = Err
        \/ /\ Len(v.shape) \in 1 .. MaxRank /\ 0 \notin ToSet(v.shape)
           /\ v.shape[1] = Len(v.obs) /\ elements >= 0 /\ IsOk(data) /\ ValidRowPresence(v)
           /\ t.shape = v.shape /\ t.obs = v.obs /\ t.data = data[1]
           /\ t.presence = IF v.presence = << >> THEN << >>
                           ELSE <<[i \in DOMAIN v.presence[1] |-> v.presence[1][i] = 1]>>
    BY <1>1 DEF borrowed_tensor_view_to_input, Ok
  <2> QED BY <2>1 DEF IsOk
<1>3. v.shape \in Seq(Nat) /\ v.size \in Nat /\ elements \in Nat /\ Len(v.shape) # 0
  <2>1. v.shape \in Seq(Nat) /\ v.size \in Nat
    BY DEF HostTensor
  <2>2. elements \in Nat \cup {-1}
    BY <1>1, <2>1, ProductTyped
  <2>3. Len(v.shape) # 0
    BY <1>2, TensorsAssumption
  <2> QED BY <1>2, <2>1, <2>2, <2>3
<1>4. HoldsElements(t.data, v)
  <2>1. CASE v.strides = << >>
    <3>1. data = contiguous(v, bytes)
      BY <1>1, <2>1
    <3>2. data[1] = [a \in 1 .. bytes |-> a - 1]
      BY <1>2, <3>1 DEF contiguous, IsOk, Ok, Err
    <3>3. HoldsElements([a \in 1 .. Product(v.shape) * v.size |-> a - 1], v)
      BY <1>1, <1>3, <2>1, CanonicalElements
    <3> QED BY <1>1, <1>2, <3>2, <3>3
  <2>2. CASE v.strides # << >>
    <3>1. data = gather_strided_tensor(v, Product(v.shape))
      BY <1>1, <2>2
    <3>2. Product(v.shape) \in Nat
      BY <1>1, <1>3
    <3>3. HoldsElements(gather_strided_tensor(v, Product(v.shape))[1], v)
      BY <1>2, <2>2, <3>1, <3>2, StridedElements
    <3> QED BY <1>2, <3>1, <3>3
  <2> QED BY <2>1, <2>2
<1>5. Unique(v.obs)
  BY <1>1, <1>2 DEF from_input, IsOk, Err
<1>6. ASSUME v.presence # << >>
      PROVE  DOMAIN v.presence[1] = 1 .. v.shape[1]
  BY <1>2, <1>6 DEF ValidRowPresence, HostTensor
<1>7. v.obs \in Seq(ToSet(v.obs))
  BY DEF HostTensor
<1> QED BY <1>1, <1>2, <1>3, <1>4, <1>5, <1>6, <1>7 DEF Exact

\* In a list without duplicates an element is found where it is.
LEMMA FoundAt ==
  ASSUME NEW q, Unique(q), NEW i \in DOMAIN q
  PROVE  IndexOf(q, q[i]) = i
<1>1. IndexOf(q, q[i]) \in DOMAIN q /\ q[IndexOf(q, q[i])] = q[i]
  BY DEF IndexOf
<1> QED BY <1>1 DEF Unique

\* An index has a row of the tensor.
LEMMA RowOfIndex ==
  ASSUME NEW v, NEW t, Exact(t, v), NEW x \in Indices(v.shape)
  PROVE  /\ IsIndex(x, v.shape) /\ x[1] \in Nat /\ x[1] + 1 \in 1 .. v.shape[1]
         /\ DOMAIN v.obs = 1 .. v.shape[1]
<1>1. IsIndex(x, v.shape) /\ 1 \in 1 .. Len(v.shape)
  BY IndexTyped DEF Exact
<1>2. x[1] \in Nat /\ x[1] < v.shape[1] /\ v.shape[1] \in Nat
  BY <1>1 DEF IsIndex, Exact
<1>3. DOMAIN v.obs = 1 .. v.shape[1]
  BY DEF Exact
<1> QED BY <1>1, <1>2, <1>3

\* A gathered tensor has all rows.
LEMMA GatheredExact ==
  ASSUME NEW v, NEW t, Exact(t, v)
  PROVE  RowsExact(t, v)
<1>1. ASSUME NEW k \in 1 .. v.shape[1], NEW x \in Indices(v.shape),
             v.obs[x[1] + 1] = v.obs[k], NEW byte \in 1 .. v.size
      PROVE  t.data[RowMajor(v.shape, [x EXCEPT ![1] = k - 1]) * v.size + byte]
               = AddressOf(Strides(v), x) + byte - 1
  <2>1. x[1] \in Nat /\ x[1] + 1 \in DOMAIN v.obs /\ k \in DOMAIN v.obs
    BY RowOfIndex
  <2>2. k = x[1] + 1
    BY <1>1, <2>1 DEF Exact, Unique
  <2>3. x[1] = k - 1
    BY <2>1, <2>2
  <2>4. [x EXCEPT ![1] = k - 1] = x
    <3>1. x = [i \in DOMAIN x |-> x[i]]
      BY DEF Indices
    <3> QED BY <2>3, <3>1
  <2> QED BY <2>4 DEF Exact, HoldsElements
<1>2. ASSUME v.presence # << >>, NEW k \in 1 .. v.shape[1]
      PROVE  t.presence[1][k] <=> v.presence[1][IndexOf(v.obs, v.obs[k])] = 1
  <2>1. IndexOf(v.obs, v.obs[k]) = k
    <3>1. k \in DOMAIN v.obs /\ Unique(v.obs)
      BY DEF Exact
    <3> QED BY <3>1, FoundAt
  <2>2. t.presence[1][k] = (v.presence[1][k] = 1)
    BY <1>2 DEF Exact
  <2> QED BY <2>1, <2>2
<1> QED BY <1>1, <1>2 DEF RowsExact, Exact

\* A window shows a part of a list, in order.
LEMMA WindowAt ==
  ASSUME NEW V, NEW d \in Seq(V), NEW at \in Nat, NEW n \in Nat, at + n <= Len(d)
  PROVE  /\ Window(d, at, n) \in Seq(V) /\ Len(Window(d, at, n)) = n
         /\ \A f \in 1 .. n : Window(d, at, n)[f] = d[at + f]
<1>1. \A j \in at + 1 .. at + n : d[j] \in V
  OBVIOUS
<1>2. PICK w : w = SubSeq(d, at + 1, at + n)
  OBVIOUS
<1>3. /\ w \in Seq(V) /\ Len(w) = IF at + 1 <= at + n THEN (at + n) - (at + 1) + 1 ELSE 0
      /\ \A f \in 1 .. (at + n) - (at + 1) + 1 : w[f] = d[(at + 1) + f - 1]
  BY <1>1, <1>2, SubSeqProperties
<1>4. (at + n) - (at + 1) + 1 = n
  OBVIOUS
<1>5. Len(w) = n
  BY <1>3
<1>6. ASSUME NEW f \in 1 .. n PROVE w[f] = d[at + f]
  <2>1. w[f] = d[(at + 1) + f - 1]
    BY <1>3, <1>4
  <2>2. (at + 1) + f - 1 = at + f
    OBVIOUS
  <2> QED BY <2>1, <2>2
<1>7. Window(d, at, n) = w
  BY <1>2 DEF Window
<1> QED BY <1>3, <1>5, <1>6, <1>7

\* A window on integers.
LEMMA IntegerWindow ==
  ASSUME NEW d, d \in Seq(Int)
  PROVE  \A at, n \in Nat : at + n <= Len(d) =>
           /\ Window(d, at, n) \in Seq(Int) /\ Len(Window(d, at, n)) = n
           /\ \A f \in 1 .. n : Window(d, at, n)[f] = d[at + f]
BY WindowAt

\* A block of rows is divided among them evenly.
LEMMA RowSize ==
  ASSUME NEW rows \in Nat \ {0}, NEW W \in Nat, NEW z \in Nat
  PROVE  ((rows * W) * z) \div rows = W * z
<1>1. PICK q \in Nat : q = W * z
  OBVIOUS
<1>2. (rows * W) * z = q * rows + 0
  BY <1>1
<1>3. (q * rows + 0) \div rows = q
  BY DigitAt
<1> QED BY <1>1, <1>2, <1>3

\* A byte of an element at place c of row i, counted from the row and from the start.
LEMMA ByteInRow ==
  ASSUME NEW W \in Nat, NEW z \in Nat, NEW c \in Nat, c < W, NEW byte \in 1 .. z, NEW i \in Nat
  PROVE  /\ c * z + byte \in 1 .. W * z
         /\ i * (W * z) + (c * z + byte) = (i * W + c) * z + byte
<1>1. (c + 1) * z <= W * z /\ (c + 1) * z = c * z + z
  BY TimesGrows
<1>2. PICK a \in Nat, b \in Nat : a = c * z /\ b = W * z
  OBVIOUS
<1>3. a + z <= b
  BY <1>1, <1>2
<1>4. i * (W * z) = (i * W) * z /\ (i * W + c) * z = (i * W) * z + c * z
  OBVIOUS
<1>5. PICK e \in Nat : e = (i * W) * z
  OBVIOUS
<1> QED BY <1>2, <1>3, <1>4, <1>5

\* Projected to the observations of a view, a tensor has their rows.
LEMMA ProjectedExact ==
  ASSUME NEW v, NEW t, Exact(t, v), t.data \in Seq(Int), NEW R, NEW view \in Seq(R), NEW source,
         IsOk(project_tensor(t, view, source))
  PROVE  RowsExact(project_tensor(t, view, source)[1], v)
<1>1. PICK s, z, d, obs, rows, row, q, u :
        /\ s = v.shape /\ z = v.size /\ d = t.data /\ obs = v.obs
        /\ rows = OfSource(view, source) /\ q = RowStride(t)
        /\ row = [k \in DOMAIN rows |-> IndexOf(t.obs, rows[k].obs)]
        /\ u = project_tensor(t, view, source)[1]
  OBVIOUS
<1>2. PICK L \in Nat : L = Len(rows) /\ DOMAIN rows = 1 .. L
  BY <1>1, OfSourceTyped
<1>3. /\ s \in Seq(Nat) /\ Len(s) # 0 /\ z \in Nat
      /\ DOMAIN obs = 1 .. s[1] /\ s[1] \in Nat \ {0} /\ Unique(obs)
  <2>1. s \in Seq(Nat) /\ Len(s) # 0 /\ 0 \notin ToSet(s) /\ z \in Nat /\ Unique(obs)
    BY <1>1 DEF Exact
  <2>2. DOMAIN obs = 1 .. s[1]
    BY <1>1 DEF Exact
  <2>3. s[1] \in Nat /\ s[1] \in ToSet(s)
    BY <2>1 DEF ToSet
  <2> QED BY <2>1, <2>2, <2>3
<1>4. t.shape = s /\ t.obs = obs
  BY <1>1 DEF Exact
<1>5. /\ u.shape = [s EXCEPT ![1] = L]
      /\ u.obs = [k \in 1 .. L |-> rows[k].obs]
      /\ u.data = FlattenSeq([k \in 1 .. L |-> Window(d, (row[k] - 1) * q, q)])
      /\ u.presence = IF t.presence = << >> THEN << >>
                      ELSE <<[k \in 1 .. L |-> t.presence[1][row[k]]]>>
      /\ ToSet(u.obs) \subseteq ToSet(obs)
  <2>1. ToSet(ObsIn(rows)) \subseteq ToSet(t.obs)
    BY <1>1 DEF project_tensor, IsOk, Err
  <2>2. ObsIn(rows) = [k \in 1 .. L |-> rows[k].obs]
    BY <1>2 DEF ObsIn
  <2>3. /\ u.shape = [t.shape EXCEPT ![1] = Len(rows)]
        /\ u.obs = ObsIn(rows)
        /\ u.data = FlattenSeq([k \in DOMAIN rows |-> Window(t.data, (row[k] - 1) * RowStride(t), RowStride(t))])
        /\ u.presence = IF t.presence = << >> THEN << >>
                        ELSE <<[k \in DOMAIN rows |-> t.presence[1][row[k]]]>>
    BY <1>1, <2>1 DEF project_tensor, Ok
  <2> QED BY <1>1, <1>2, <1>4, <2>1, <2>2, <2>3
<1>6. ASSUME NEW k \in 1 .. L
      PROVE  row[k] \in 1 .. s[1] /\ obs[row[k]] = rows[k].obs /\ row[k] = IndexOf(obs, u.obs[k])
  <2>1. u.obs[k] = rows[k].obs /\ u.obs[k] \in ToSet(u.obs)
    BY <1>5 DEF ToSet
  <2>2. u.obs[k] \in ToSet(obs)
    BY <1>5, <2>1
  <2>3. IndexOf(obs, u.obs[k]) \in DOMAIN obs /\ obs[IndexOf(obs, u.obs[k])] = u.obs[k]
    BY <2>2 DEF IndexOf, ToSet
  <2>4. row[k] = IndexOf(obs, u.obs[k])
    BY <1>1, <1>2, <1>4, <2>1
  <2> QED BY <1>3, <2>1, <2>3, <2>4
<1>7. ASSUME NEW k \in 1 .. L, NEW x \in Indices(s), obs[x[1] + 1] = u.obs[k], NEW byte \in 1 .. z
      PROVE  u.data[RowMajor(u.shape, [x EXCEPT ![1] = k - 1]) * z + byte]
               = AddressOf(Strides(v), x) + byte - 1
  <2>1. PICK y, sh : y = [x EXCEPT ![1] = k - 1] /\ sh = u.shape
    OBVIOUS
  <2>2. IsIndex(x, s) /\ x[1] \in Nat /\ x[1] + 1 \in DOMAIN obs
    BY <1>1, RowOfIndex
  <2>3. row[k] = x[1] + 1
    <3>1. row[k] \in DOMAIN obs /\ obs[row[k]] = obs[x[1] + 1]
      BY <1>3, <1>5, <1>6, <1>7
    <3> QED BY <1>3, <2>2, <3>1 DEF Unique
  <2>4. PICK N \in Nat \ {0} : N = Len(s) /\ DOMAIN s = 1 .. N /\ s = [n \in 1 .. N |-> s[n]]
    <3>1. PICK N \in Nat : N = Len(s)
      BY <1>3
    <3>2. s \in [1 .. N -> Nat]
      BY <1>3, <3>1
    <3>3. DOMAIN s = 1 .. N /\ s = [n \in 1 .. N |-> s[n]]
      BY <3>2
    <3> QED BY <1>3, <3>1, <3>3
  <2>5. DOMAIN x = 1 .. N /\ x = [n \in 1 .. N |-> x[n]]
    BY <2>4 DEF Indices
  <2>6. y = [n \in 1 .. N |-> IF n = 1 THEN k - 1 ELSE x[n]]
    BY <2>1, <2>5
  <2>7. sh = [n \in 1 .. N |-> IF n = 1 THEN L ELSE s[n]]
    BY <1>5, <2>1, <2>4
  <2>8. sh \in Seq(Nat) /\ Len(sh) = N
    <3>1. \A n \in 1 .. N : sh[n] \in Nat
      BY <1>3, <2>4, <2>7
    <3> QED BY <2>7, <3>1
  <2>9. /\ \A n \in 1 .. N : x[n] \in Nat /\ y[n] \in Nat
        /\ \A n \in 2 .. N : sh[n] = s[n] /\ y[n] = x[n]
        /\ y[1] = k - 1
    <3>1. \A n \in 1 .. N : x[n] \in Nat
      BY <2>2, <2>4 DEF IsIndex
    <3>2. \A n \in 2 .. N : n \in 1 .. N /\ n # 1
      OBVIOUS
    <3>3. k - 1 \in Nat
      OBVIOUS
    <3> QED BY <2>6, <2>7, <3>1, <3>2, <3>3
  <2>10. PICK p : Positions(p, s, x) /\ RowMajor(s, x) = p[N]
    <3>1. \A n \in 1 .. Len(s) : x[n] \in Nat
      BY <2>4, <2>9
    <3>2. PICK p : Positions(p, s, x) /\ RowMajor(s, x) = p[Len(s)]
      BY <1>3, <3>1, RowMajorRuns
    <3> QED BY <2>4, <3>2
  <2>11. PICK g : Positions(g, sh, y) /\ RowMajor(sh, y) = g[N]
    BY <2>8, <2>9, RowMajorRuns
  <2>12. PICK w : Products(w, s) /\ Product(s) = w[N]
    <3>1. Product(s) \in Nat
      BY <1>1 DEF Exact
    <3>2. PICK w : Products(w, s) /\ Product(s) = w[Len(s)]
      BY <1>3, <3>1, ProductRuns
    <3> QED BY <2>4, <3>2
  <2>13. PICK W : SamePlace(W, Product(s), s[1], RowMajor(s, x), x[1], RowMajor(sh, y), k - 1)
    <3>1. \E W : SamePlace(W, w[Len(s)], s[1], p[Len(s)], x[1], g[Len(s)], y[1])
      BY <1>3, <2>2, <2>4, <2>8, <2>9, <2>10, <2>11, <2>12, PositionInRow
    <3> QED BY <2>4, <2>9, <2>10, <2>11, <2>12, <3>1
  <2>14. PICK c \in Nat : /\ W \in Nat /\ c < W /\ Product(s) = s[1] * W
                          /\ RowMajor(s, x) = x[1] * W + c /\ RowMajor(sh, y) = (k - 1) * W + c
    BY <2>13 DEF SamePlace
  <2>15. Len(d) = (s[1] * W) * z /\ q = W * z
    <3>1. Len(d) = (s[1] * W) * z
      BY <1>1, <2>14 DEF Exact, HoldsElements
    <3>2. q = Len(d) \div s[1]
      BY <1>1, <1>4 DEF RowStride
    <3> QED BY <1>3, <2>14, <3>1, <3>2, RowSize
  <2>16. PICK ss : ss = [m \in 1 .. L |-> Window(d, (row[m] - 1) * q, q)]
    OBVIOUS
  <2>17. ASSUME NEW m \in 1 .. L
         PROVE  /\ ss[m] \in Seq(Int) /\ Len(ss[m]) = q
                /\ \A f \in 1 .. q : ss[m][f] = d[(row[m] - 1) * q + f]
    <3>1. PICK i \in Nat : i = row[m] - 1 /\ i + 1 <= s[1]
      BY <1>3, <1>6
    <3>2. q \in Nat /\ (i + 1) * q <= s[1] * q
      <4>1. q \in Nat
        BY <1>3, <2>14, <2>15
      <4>2. PICK j \in Nat : j = i + 1 /\ j <= s[1]
        BY <3>1
      <4>3. j * q <= s[1] * q
        BY <1>3, <4>1, <4>2, TimesGrows
      <4> QED BY <4>1, <4>2, <4>3
    <3>6. PICK e \in Nat : e = i * q /\ (i + 1) * q = e + q
      BY <3>2
    <3>3. s[1] * q = Len(d)
      BY <1>3, <2>14, <2>15
    <3>4. e + q <= Len(d)
      BY <3>2, <3>3, <3>6
    <3>7. d \in Seq(Int)
      BY <1>1
    <3>5. /\ Window(d, e, q) \in Seq(Int) /\ Len(Window(d, e, q)) = q
          /\ \A f \in 1 .. q : Window(d, e, q)[f] = d[e + f]
      <4>1. q \in Nat
        BY <3>2
      <4>2. \A at, n \in Nat : at + n <= Len(d) =>
              /\ Window(d, at, n) \in Seq(Int) /\ Len(Window(d, at, n)) = n
              /\ \A f \in 1 .. n : Window(d, at, n)[f] = d[at + f]
        BY <3>7, IntegerWindow
      <4> QED BY <3>4, <4>1, <4>2
    <3> QED BY <2>16, <3>1, <3>5, <3>6
  <2>18. IsGrid(u.data, ss, q) /\ Len(ss) = L
    <3>1. PICK Q : Q = Seq(Int)
      OBVIOUS
    <3>2. ss \in Seq(Q) /\ Len(ss) = L /\ DOMAIN ss = 1 .. L
      BY <2>16, <2>17, <3>1
    <3>3. \A m \in DOMAIN ss : Len(ss[m]) = q
      BY <2>17, <3>2
    <3>4. q \in Nat
      BY <1>3, <2>14, <2>15
    <3>5. IsGrid(FlattenSeq(ss), ss, q)
      BY <3>1, <3>2, <3>3, <3>4, FlattenGrid
    <3> QED BY <1>5, <2>16, <3>2, <3>5
  <2>19. PICK f \in 1 .. q : /\ f = c * z + byte
                             /\ (k - 1) * q + f = RowMajor(sh, y) * z + byte
                             /\ x[1] * q + f = RowMajor(s, x) * z + byte
    <3>1. k - 1 \in Nat
      OBVIOUS
    <3>2. PICK i \in Nat, j \in Nat : i = k - 1 /\ j = x[1]
      BY <2>2, <3>1
    <3>3. /\ c * z + byte \in 1 .. W * z
          /\ i * (W * z) + (c * z + byte) = (i * W + c) * z + byte
          /\ j * (W * z) + (c * z + byte) = (j * W + c) * z + byte
      <4>0. c * z + byte \in 1 .. W * z
        BY <1>3, <2>14, ByteInRow
      <4>1. i * (W * z) + (c * z + byte) = (i * W + c) * z + byte
        BY <1>3, <2>14, ByteInRow
      <4>2. j * (W * z) + (c * z + byte) = (j * W + c) * z + byte
        BY <1>3, <2>14, ByteInRow
      <4> QED BY <4>0, <4>1, <4>2
    <3>4. PICK f : f = c * z + byte
      OBVIOUS
    <3>5. /\ f \in 1 .. q
          /\ i * q + f = RowMajor(sh, y) * z + byte
          /\ j * q + f = RowMajor(s, x) * z + byte
      BY <2>14, <2>15, <3>2, <3>3, <3>4
    <3> QED BY <3>2, <3>4, <3>5
  <2>20. u.data[RowMajor(sh, y) * z + byte] = ss[k][f]
    <3>1. u.data[(k - 1) * q + f] = ss[k][f]
      BY <2>18, <2>19 DEF IsGrid
    <3> QED BY <2>19, <3>1
  <2>21. ss[k][f] = d[RowMajor(s, x) * z + byte]
    <3>1. ss[k][f] = d[(row[k] - 1) * q + f]
      BY <2>17, <2>19
    <3>2. row[k] - 1 = x[1]
      BY <2>2, <2>3
    <3> QED BY <2>19, <3>1, <3>2
  <2>22. d[RowMajor(s, x) * z + byte] = AddressOf(Strides(v), x) + byte - 1
    BY <1>1, <1>7 DEF Exact, HoldsElements
  <2> QED BY <2>1, <2>20, <2>21, <2>22
<1>8. ASSUME v.presence # << >>, NEW k \in 1 .. L
      PROVE  u.presence[1][k] <=> v.presence[1][IndexOf(obs, u.obs[k])] = 1
  <2>1. /\ DOMAIN v.presence[1] = 1 .. s[1]
        /\ t.presence = <<[i \in DOMAIN v.presence[1] |-> v.presence[1][i] = 1]>>
    BY <1>1, <1>8 DEF Exact
  <2>2. u.presence[1][k] = t.presence[1][row[k]]
    BY <1>5, <1>8, <2>1
  <2>3. t.presence[1][row[k]] = (v.presence[1][row[k]] = 1)
    BY <1>6, <2>1
  <2> QED BY <1>6, <2>2, <2>3
<1>9. u.shape[1] = L
  BY <1>3, <1>5
<1> QED BY <1>1, <1>7, <1>8, <1>9 DEF RowsExact

(***************************************************************************)
(* The invariant of the data path, as far as tensors go.                   *)
(***************************************************************************)

ResultNames ==
  {"buffers", "blocks", "plan", "fused", "tensor", "arrow", "single", "multi", "policy"}

TensorInv ==
  /\ job \in Jobs
  /\ out = [n \in ResultNames |-> out[n]]
  /\ stage \in {"gathered", "tensor_projected"} => job.kind = "tensor"
  /\ stage = "gathered" => Gathered(out.tensor[1], job.tensor)
  /\ ReadsInMemory

\* A tensor job has a tensor as a host may describe it, and the rows of a view.
LEMMA TensorJob ==
  ASSUME NEW j \in Jobs, j.kind = "tensor"
  PROVE  HostTensor(j.tensor) /\ j.view \in Seq(ToSet(j.view))
BY TensorsAssumption DEF HostTensor

\* The elements of a list over a set are in it.
LEMMA ElementsIn ==
  ASSUME NEW S, NEW s \in Seq(S)
  PROVE  ToSet(s) \subseteq S
BY DEF ToSet

\* What a call about something else leaves of the invariant to check.
LEMMA OtherStep ==
  ASSUME TensorInv, job' = job, stage' \notin {"gathered", "tensor_projected"},
         out' = [n \in ResultNames |-> out'[n]]
  PROVE  TensorInv'
BY DEF TensorInv, ReadsInMemory

\* A call keeps the names of the results.
LEMMA CallKeeps ==
  ASSUME TensorInv, NEW from, NEW to, NEW name, NEW result, Call(from, to, name, result)
  PROVE  /\ job' = job /\ stage' \in {to, "refused"}
         /\ out' = [n \in ResultNames |-> out'[n]]
BY DEF Call, TensorInv

\* A tensor is borrowed.
LEMMA BorrowStep ==
  ASSUME TensorInv, BorrowTensor
  PROVE  TensorInv'
<1>1. PICK input, result : /\ input = borrowed_tensor_view_to_input(job.tensor)
                           /\ result = IF IsOk(input) THEN from_input(input[1]) ELSE Err
  OBVIOUS
<1>2. job.kind = "tensor" /\ Call("host", "gathered", "tensor", result)
  BY <1>1 DEF BorrowTensor
<1>3. CASE result = Err
  <2>1. job' = job /\ stage' = "refused" /\ out' = out
    BY <1>2, <1>3 DEF Call, IsOk
  <2>2. out' = [n \in ResultNames |-> out'[n]]
    BY <2>1 DEF TensorInv
  <2> QED BY <2>1, <2>2, OtherStep
<1>4. CASE result # Err
  <2>1. IsOk(input) /\ result = <<input[1]>>
    BY <1>1, <1>4 DEF from_input, Ok
  <2>2. /\ job' = job /\ stage' = "gathered"
        /\ out' = [out EXCEPT !["tensor"] = result]
    BY <1>2, <1>4 DEF Call, IsOk
  <2>3. out' = [n \in ResultNames |-> out'[n]] /\ out'.tensor[1] = input[1]
    BY <2>1, <2>2 DEF TensorInv, ResultNames
  <2>4. PICK v, t : v = job.tensor /\ t = input[1]
    OBVIOUS
  <2>5. HostTensor(v)
    BY <1>2, <2>4, TensorJob DEF TensorInv
  <2>6. Gathered(t, v)
    BY <1>1, <2>1, <2>4, <2>5, BorrowedTensor
  <2>7. ToSet(t.data) \subseteq Memory(v)
    BY <2>6, ElementsIn DEF Gathered
  <2>8. Gathered(out.tensor[1], job.tensor)'
    BY <2>2, <2>3, <2>4, <2>6 DEF Gathered, Memory
  <2>9. ReadsInMemory'
    BY <2>2, <2>3, <2>4, <2>7 DEF ReadsInMemory, Memory
  <2> QED BY <1>2, <2>2, <2>3, <2>8, <2>9 DEF TensorInv
<1> QED BY <1>3, <1>4

\* A tensor is projected to the rows of a view.
LEMMA ProjectStep ==
  ASSUME TensorInv, NEW source, ProjectTensor(source)
  PROVE  TensorInv'
<1>1. PICK v, t, view, result :
        /\ v = job.tensor /\ t = out.tensor[1] /\ view = job.view
        /\ result = project_tensor(t, view, source)
  OBVIOUS
<1>2. /\ job.kind = "tensor" /\ stage = "gathered"
      /\ Call("gathered", "tensor_projected", "tensor", result)
  BY <1>1 DEF ProjectTensor, Call
<1>3. CASE result = Err
  <2>1. job' = job /\ stage' = "refused" /\ out' = out
    BY <1>2, <1>3 DEF Call, IsOk
  <2>2. out' = [n \in ResultNames |-> out'[n]]
    BY <2>1 DEF TensorInv
  <2> QED BY <2>1, <2>2, OtherStep
<1>4. CASE result # Err
  <2>1. /\ job' = job /\ stage' = "tensor_projected"
        /\ out' = [out EXCEPT !["tensor"] = result]
    BY <1>2, <1>4 DEF Call, IsOk
  <2>2. out' = [n \in ResultNames |-> out'[n]] /\ out'.tensor = result
    BY <2>1 DEF TensorInv, ResultNames
  <2>3. Gathered(t, v)
    BY <1>1, <1>2 DEF TensorInv
  <2>4. view \in Seq(ToSet(view))
    BY <1>1, <1>2, TensorJob DEF TensorInv
  <2>5. result[1].data \in Seq(Memory(v))
    BY <1>1, <1>4, <2>3, <2>4, ProjectedData DEF IsOk
  <2>6. ToSet(result[1].data) \subseteq Memory(v)
    BY <2>5, ElementsIn
  <2>7. ReadsInMemory'
    BY <1>1, <2>1, <2>2, <2>6 DEF ReadsInMemory, Memory
  <2> QED BY <1>2, <2>1, <2>2, <2>7 DEF TensorInv
<1> QED BY <1>3, <1>4

\* A call that is about something else.
Elsewhere ==
  /\ job' = job /\ stage' \notin {"gathered", "tensor_projected"}
  /\ out' = [n \in ResultNames |-> out'[n]]

\* What a step can be, as far as tensors go.
LEMMA TensorSteps ==
  ASSUME TensorInv, [DataNext]_dataVars
  PROVE  UNCHANGED dataVars \/ Elsewhere \/ BorrowTensor \/ \E source : ProjectTensor(source)
<1>2. CASE IngestTable
  <2>1. PICK result : Call("host", "buffered", "buffers", result)
    BY <1>2 DEF IngestTable
  <2> QED BY <2>1, CallKeeps DEF Elsewhere
<1>3. CASE IngestMatrix
  <2>1. PICK result : Call("host", "buffered", "buffers", result)
    BY <1>3 DEF IngestMatrix
  <2> QED BY <2>1, CallKeeps DEF Elsewhere
<1>4. CASE IngestColumns
  <2>1. PICK result : Call("host", "buffered", "buffers", result)
    BY <1>4 DEF IngestColumns
  <2> QED BY <2>1, CallKeeps DEF Elsewhere
<1>5. ASSUME NEW columns, Project(columns) PROVE Elsewhere
  <2>1. PICK result : Call("buffered", "projected", "blocks", result)
    BY <1>5 DEF Project
  <2> QED BY <2>1, CallKeeps DEF Elsewhere
<1>6. ASSUME NEW mode, Align(mode) PROVE Elsewhere
  <2>1. PICK result : Call("projected", "aligned", "plan", result)
    BY <1>6 DEF Align
  <2> QED BY <2>1, CallKeeps DEF Elsewhere
<1>7. ASSUME NEW namespace, Fuse(namespace) PROVE Elsewhere
  <2>1. PICK result : Call("aligned", "fused", "fused", result)
    BY <1>7 DEF Fuse
  <2> QED BY <2>1, CallKeeps DEF Elsewhere
<1>8. ASSUME NEW policy, Collate(policy) PROVE Elsewhere
  <2>1. /\ job' = job /\ stage' \in {"collated", "refused"}
        /\ \/ out' = out
           \/ \E result : out' = [out EXCEPT !.tensor = result, !.policy = <<policy>>]
    BY <1>8 DEF Collate
  <2>2. out' = [n \in ResultNames |-> out'[n]]
    BY <2>1 DEF TensorInv
  <2> QED BY <2>1, <2>2 DEF Elsewhere
<1>9. CASE ExportFeatures
  <2>1. PICK result : Call("fused", "exported", "arrow", result)
    BY <1>9 DEF ExportFeatures
  <2> QED BY <2>1, CallKeeps DEF Elsewhere
<1>10. CASE ExportIdentity
  <2>1. PICK result : Call("host", "identified", "arrow", result)
    BY <1>10 DEF ExportIdentity
  <2> QED BY <2>1, CallKeeps DEF Elsewhere
<1>11. CASE SelectTarget
  <2>1. PICK result : Call("host", "selected", "single", result)
    BY <1>11 DEF SelectTarget
  <2> QED BY <2>1, CallKeeps DEF Elsewhere
<1>12. CASE SelectTargets
  <2>1. PICK result : Call("host", "selected_all", "multi", result)
    BY <1>12 DEF SelectTargets
  <2> QED BY <2>1, CallKeeps DEF Elsewhere
<1>13. CASE ExportTarget
  <2>1. PICK result : Call("selected", "exported_target", "arrow", result)
    BY <1>13 DEF ExportTarget
  <2> QED BY <2>1, CallKeeps DEF Elsewhere
<1>14. CASE ExportTargets
  <2>1. PICK result : Call("selected_all", "exported_targets", "arrow", result)
    BY <1>14 DEF ExportTargets
  <2> QED BY <2>1, CallKeeps DEF Elsewhere
<1>17. CASE DataNext
  <2>1. CASE \E columns \in Columns : Project(columns)
    BY <1>5, <2>1
  <2>2. CASE \E mode \in Modes : Align(mode)
    BY <1>6, <2>2
  <2>3. CASE \E namespace \in BOOLEAN : Fuse(namespace)
    BY <1>7, <2>3
  <2>4. CASE \E policy \in CollationPolicies : Collate(policy)
    BY <1>8, <2>4
  <2> QED BY <1>2, <1>3, <1>4, <1>9, <1>10, <1>11, <1>12, <1>13, <1>14, <1>17,
             <2>1, <2>2, <2>3, <2>4 DEF DataNext
<1> QED BY <1>17 DEF dataVars

\* Every call keeps the invariant.
LEMMA StepTensor == TensorInv /\ [DataNext]_dataVars => TensorInv'
<1> SUFFICES ASSUME TensorInv, [DataNext]_dataVars PROVE TensorInv'
  OBVIOUS
<1>1. CASE UNCHANGED dataVars
  BY <1>1 DEF dataVars, TensorInv, ReadsInMemory, Gathered, Memory
<1>2. CASE Elsewhere
  BY <1>2, OtherStep DEF Elsewhere
<1>3. CASE BorrowTensor
  BY <1>3, BorrowStep
<1>4. ASSUME NEW source, ProjectTensor(source) PROVE TensorInv'
  BY <1>4, ProjectStep
<1> QED BY <1>1, <1>2, <1>3, <1>4, TensorSteps

\* Whatever a host passes as shape, strides, element size and length, no byte
\* outside of its memory is read, by the borrow or by a projection of the
\* tensor (gather_strided_tensor, NdTensor::project_relations).
THEOREM TensorReadsStayInside == DataSpec => []ReadsInMemory
<1>1. DataInit => TensorInv
  BY DEF DataInit, TensorInv, ReadsInMemory, NoResults, ResultNames
<1>2. TensorInv => ReadsInMemory
  BY DEF TensorInv
<1> QED BY <1>1, <1>2, StepTensor, PTL DEF DataSpec

\* The gathered tensor is the one that the host describes, and what the last call
\* returned has its elements.
ExactInv ==
  /\ stage = "gathered" => Exact(out.tensor[1], job.tensor)
  /\ GatherExact

\* Every call keeps this, too.
LEMMA StepExact == TensorInv /\ ExactInv /\ [DataNext]_dataVars => ExactInv'
<1> SUFFICES ASSUME TensorInv, ExactInv, [DataNext]_dataVars PROVE ExactInv'
  OBVIOUS
<1>1. CASE UNCHANGED dataVars
  <2>1. PICK v, t, at : v = job.tensor /\ t = out.tensor[1] /\ at = stage
    OBVIOUS
  <2>2. job'.tensor = v /\ out'.tensor[1] = t /\ stage' = at
    BY <1>1, <2>1 DEF dataVars
  <2>3. at = "gathered" => Exact(t, v)
    BY <2>1 DEF ExactInv
  <2>4. (at = "gathered" => Exact(t, v))'
    BY <2>3
  <2>5. at \in {"gathered", "tensor_projected"} => RowsExact(t, v)
    BY <2>1 DEF ExactInv, GatherExact, RowsExact
  <2>6. ReadsInMemory'
    BY StepTensor DEF TensorInv
  <2>7. GatherExact'
    BY <2>2, <2>5, <2>6 DEF GatherExact, RowsExact
  <2> QED BY <2>2, <2>3, <2>7 DEF ExactInv
<1>2. CASE Elsewhere
  BY <1>2 DEF Elsewhere, ExactInv, GatherExact
<1>3. CASE BorrowTensor
  <2>1. PICK input, result, v : /\ input = borrowed_tensor_view_to_input(job.tensor)
                                /\ result = IF IsOk(input) THEN from_input(input[1]) ELSE Err
                                /\ v = job.tensor
    OBVIOUS
  <2>2. job.kind = "tensor" /\ Call("host", "gathered", "tensor", result)
    BY <1>3, <2>1 DEF BorrowTensor
  <2>3. CASE result = Err
    <3>1. stage' = "refused"
      BY <2>2, <2>3 DEF Call, IsOk
    <3> QED BY <3>1 DEF ExactInv, GatherExact
  <2>4. CASE result # Err
    <3>1. IsOk(input) /\ IsOk(from_input(input[1])) /\ result = <<input[1]>>
      BY <2>1, <2>4 DEF from_input, Ok, IsOk
    <3>2. job' = job /\ stage' = "gathered" /\ out' = [out EXCEPT !["tensor"] = result]
      BY <2>2, <2>4 DEF Call, IsOk
    <3>3. PICK t : t = input[1] /\ out'.tensor[1] = t
      BY <3>1, <3>2 DEF TensorInv, ResultNames
    <3>4. HostTensor(v)
      BY <2>1, <2>2, TensorJob DEF TensorInv
    <3>5. Exact(t, v)
      BY <2>1, <3>1, <3>3, <3>4, BorrowedExact
    <3>6. RowsExact(t, v)
      BY <3>5, GatheredExact
    <3>7. ReadsInMemory'
      BY StepTensor DEF TensorInv
    <3>8. job'.tensor = v
      BY <2>1, <3>2
    <3>9. GatherExact'
      BY <3>3, <3>6, <3>7, <3>8 DEF GatherExact, RowsExact
    <3> QED BY <3>3, <3>5, <3>8, <3>9 DEF ExactInv
  <2> QED BY <2>3, <2>4
<1>4. ASSUME NEW source, ProjectTensor(source) PROVE ExactInv'
  <2>1. PICK v, t, view, result :
          /\ v = job.tensor /\ t = out.tensor[1] /\ view = job.view
          /\ result = project_tensor(t, view, source)
    OBVIOUS
  <2>2. /\ job.kind = "tensor" /\ stage = "gathered"
        /\ Call("gathered", "tensor_projected", "tensor", result)
    BY <1>4, <2>1 DEF ProjectTensor, Call
  <2>3. CASE result = Err
    <3>1. stage' = "refused"
      BY <2>2, <2>3 DEF Call, IsOk
    <3> QED BY <3>1 DEF ExactInv, GatherExact
  <2>4. CASE result # Err
    <3>1. /\ job' = job /\ stage' = "tensor_projected"
          /\ out' = [out EXCEPT !["tensor"] = result]
      BY <2>2, <2>4 DEF Call, IsOk
    <3>2. PICK u : u = result[1] /\ out'.tensor[1] = u
      BY <3>1 DEF TensorInv, ResultNames
    <3>3. Exact(t, v) /\ t.data \in Seq(Memory(v))
      BY <2>1, <2>2 DEF ExactInv, TensorInv, Gathered
    <3>4. t.data \in Seq(Int)
      <4>1. Memory(v) \subseteq Int
        BY DEF Memory
      <4> QED BY <3>3, <4>1
    <3>5. view \in Seq(ToSet(view))
      BY <2>1, <2>2, TensorJob DEF TensorInv
    <3>6. RowsExact(u, v)
      BY <2>1, <2>4, <3>2, <3>3, <3>4, <3>5, ProjectedExact DEF IsOk
    <3>7. ReadsInMemory'
      BY StepTensor DEF TensorInv
    <3>8. job'.tensor = v
      BY <2>1, <3>1
    <3>9. GatherExact'
      BY <3>2, <3>6, <3>7, <3>8 DEF GatherExact, RowsExact
    <3> QED BY <3>1, <3>9 DEF ExactInv
  <2> QED BY <2>3, <2>4
<1> QED BY <1>1, <1>2, <1>3, <1>4, TensorSteps

\* A tensor holds, in row-major order, the bytes at the address of each element,
\* with strides or without, and a projection to a view has the rows of the view's
\* observations (gather_strided_tensor, NdTensor::from_input, project_relations).
THEOREM GatherProved == DataSpec => []GatherExact
<1>1. DataInit => TensorInv /\ ExactInv
  BY DEF DataInit, TensorInv, ExactInv, GatherExact, ReadsInMemory, NoResults, ResultNames
<1>2. ExactInv => GatherExact
  BY DEF ExactInv
<1> QED BY <1>1, <1>2, StepTensor, StepExact, PTL DEF DataSpec

\* Every job holds the data that the host started with.
LEMMA JobsKept == DataSpec => [](job \in Jobs)
<1>1. DataInit => TensorInv
  BY DEF DataInit, TensorInv, ReadsInMemory, NoResults, ResultNames
<1>2. TensorInv => job \in Jobs
  BY DEF TensorInv
<1> QED BY <1>1, <1>2, StepTensor, PTL DEF DataSpec
===============================================================================
