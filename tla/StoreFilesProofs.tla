-------------------------- MODULE StoreFilesProofs --------------------------
(***************************************************************************)
(* Theorems of the files a program writes and reads, for every set of      *)
(* manifests, stores and foreign files and every word size.                *)
(***************************************************************************)
EXTENDS StoreFiles, WellFoundedInduction, SequenceTheorems, TLAPS

(***************************************************************************)
(* Induction over the naturals, stated with a set so that the provers can  *)
(* use it.                                                                 *)
(***************************************************************************)

\* Every non-empty set of naturals has a least element.
LEMMA Least ==
  ASSUME NEW T \in SUBSET Nat, T # {}
  PROVE  \E x \in T : \A y \in T : x <= y
<1> DEFINE R == {ss \in Nat \X Nat : ss[1] < ss[2]}
<1>1. IsWellFoundedOn(R, Nat)
  BY NatLessThanWellFounded DEF OpToRel
<1> HIDE DEF R
<1>2. PICK x \in T : \A y \in T : ~ (<<y, x>> \in R)
  BY <1>1, WFMin
<1>3. \A y \in T : ~ (y < x)
  BY <1>2 DEF R
<1> QED BY <1>3

\* A set that holds 0, and n + 1 with every n, holds every natural.
LEMMA SetInduction ==
  ASSUME NEW S, 0 \in S, \A n \in Nat : n \in S => n + 1 \in S
  PROVE  \A n \in Nat : n \in S
<1> SUFFICES ASSUME Nat \ S # {} PROVE FALSE
  OBVIOUS
<1>1. PICK x \in Nat \ S : \A y \in Nat \ S : x <= y
  BY Least
<1>2. x # 0
  OBVIOUS
<1>3. x - 1 \in Nat /\ x - 1 \in S
  BY <1>1, <1>2
<1> QED BY <1>3

(***************************************************************************)
(* The running sums and concatenations of the writer exist.                *)
(***************************************************************************)

\* g holds the sums of the first n of N sizes w, on top of a.
HasSums(N, w, a) ==
  \E g \in [0 .. N -> Nat] :
    \A n \in 0 .. N : g[n] = IF n = 0 THEN a ELSE g[n - 1] + w[n]

\* Sums of sizes.
LEMMA SumsExist ==
  ASSUME NEW N \in Nat, NEW w \in [1 .. N -> Nat], NEW a \in Nat
  PROVE  HasSums(N, w, a)
<1> USE DEF HasSums
<1> DEFINE Upto(m) == \E g \in [0 .. m -> Nat] :
             \A n \in 0 .. m : g[n] = IF n = 0 THEN a ELSE g[n - 1] + w[n]
           S == {m \in Nat : m <= N => Upto(m)}
<1>1. Upto(0)
  <2>1. PICK g : g = [n \in 0 .. 0 |-> a]
    OBVIOUS
  <2>2. g \in [0 .. 0 -> Nat] /\ \A n \in 0 .. 0 : n = 0 /\ g[n] = a
    BY <2>1
  <2> QED BY <2>2
<1>2. ASSUME NEW m \in Nat, m \in S, m + 1 <= N PROVE Upto(m + 1)
  <2>1. PICK g \in [0 .. m -> Nat] :
          \A n \in 0 .. m : g[n] = IF n = 0 THEN a ELSE g[n - 1] + w[n]
    <3>1. Upto(m)
      <4>1. m <= N
        BY <1>2
      <4> HIDE DEF Upto
      <4> QED BY <1>2, <4>1
    <3> QED BY <3>1
  <2>2. PICK s \in Nat : s = g[m] + w[m + 1]
    BY <1>2
  <2>3. PICK h : h = [n \in 0 .. m + 1 |-> IF n = m + 1 THEN s ELSE g[n]]
    OBVIOUS
  <2>4. \A n \in 0 .. m + 1 : n # m + 1 => n \in 0 .. m
    OBVIOUS
  <2>5. h \in [0 .. m + 1 -> Nat]
    <3>1. \A n \in 0 .. m + 1 : n # m + 1 => g[n] \in Nat
      BY <2>4
    <3>2. \A n \in 0 .. m + 1 : (IF n = m + 1 THEN s ELSE g[n]) \in Nat
      BY <3>1
    <3> QED BY <2>3, <3>2, Zenon
  <2>6. ASSUME NEW n \in 0 .. m + 1
        PROVE  h[n] = IF n = 0 THEN a ELSE h[n - 1] + w[n]
    <3>1. CASE n = m + 1
      <4>1. h[n] = s /\ h[n - 1] = g[m] /\ w[n] = w[m + 1] /\ n # 0
        BY <2>3, <3>1
      <4> QED BY <2>2, <4>1
    <3>2. CASE n # m + 1
      <4>1. n \in 0 .. m /\ (n # 0 => n - 1 \in 0 .. m)
        BY <3>2
      <4> QED BY <2>1, <2>3, <4>1
    <3> QED BY <3>1, <3>2
  <2> QED BY <2>5, <2>6
<1>3. \A m \in Nat : m \in S
  <2>1. 0 \in S
    BY <1>1
  <2>2. ASSUME NEW m \in Nat, m \in S PROVE m + 1 \in S
    <3>1. m + 1 <= N => Upto(m + 1)
      BY <1>2, <2>2
    <3> HIDE DEF Upto
    <3> QED BY <3>1
  <2> HIDE DEF S
  <2> QED BY <2>1, <2>2, SetInduction
<1>4. N \in S
  BY <1>3
<1>5. Upto(N)
  <2> HIDE DEF Upto
  <2> QED BY <1>4
<1> QED BY <1>5

\* g holds a followed by the first n of N lists of fields w.
HasConcatenations(N, w, a) ==
  \E g \in [0 .. N -> Seq(Nat)] :
    \A n \in 0 .. N : g[n] = IF n = 0 THEN a ELSE g[n - 1] \o w[n]

\* Concatenations of fields.
LEMMA ConcatenationsExist ==
  ASSUME NEW N \in Nat, NEW w \in [1 .. N -> Seq(Nat)], NEW a \in Seq(Nat)
  PROVE  HasConcatenations(N, w, a)
<1> USE DEF HasConcatenations
<1> DEFINE Upto(m) == \E g \in [0 .. m -> Seq(Nat)] :
             \A n \in 0 .. m : g[n] = IF n = 0 THEN a ELSE g[n - 1] \o w[n]
           S == {m \in Nat : m <= N => Upto(m)}
<1>1. Upto(0)
  <2>1. PICK g : g = [n \in 0 .. 0 |-> a]
    OBVIOUS
  <2>2. g \in [0 .. 0 -> Seq(Nat)]
    BY <2>1
  <2>3. g[0] = a /\ \A n \in 0 .. 0 : n = 0
    BY <2>1
  <2> QED BY <2>2, <2>3
<1>2. ASSUME NEW m \in Nat, m \in S, m + 1 <= N PROVE Upto(m + 1)
  <2>0. Upto(m)
    <3> HIDE DEF Upto
    <3> QED BY <1>2
  <2>1. PICK g \in [0 .. m -> Seq(Nat)] :
          \A n \in 0 .. m : g[n] = IF n = 0 THEN a ELSE g[n - 1] \o w[n]
    BY <2>0
  <2>2. PICK s : s = g[m] \o w[m + 1]
    OBVIOUS
  <2>3. s \in Seq(Nat)
    <3>1. g[m] \in Seq(Nat) /\ w[m + 1] \in Seq(Nat)
      BY <1>2
    <3> QED BY <2>2, <3>1, ConcatProperties
  <2>4. PICK h : h = [n \in 0 .. m + 1 |-> IF n = m + 1 THEN s ELSE g[n]]
    OBVIOUS
  <2>5. h \in [0 .. m + 1 -> Seq(Nat)]
    BY <2>3, <2>4
  <2>6. ASSUME NEW n \in 0 .. m + 1
        PROVE  h[n] = IF n = 0 THEN a ELSE h[n - 1] \o w[n]
    <3>1. CASE n = m + 1
      <4>1. h[n] = s /\ h[n - 1] = g[m]
        BY <2>4, <3>1
      <4> QED BY <2>2, <3>1, <4>1
    <3>2. CASE n # m + 1
      <4>1. n \in 0 .. m /\ (n # 0 => n - 1 \in 0 .. m)
        BY <3>2
      <4>2. h[n] = g[n] /\ (n # 0 => h[n - 1] = g[n - 1])
        BY <2>4, <4>1
      <4> QED BY <2>1, <4>1, <4>2
    <3> QED BY <3>1, <3>2
  <2> QED BY <2>5, <2>6
<1>3. \A m \in Nat : m \in S
  <2>1. 0 \in S
    BY <1>1
  <2>2. ASSUME NEW m \in Nat, m \in S PROVE m + 1 \in S
    <3>1. m + 1 <= N => Upto(m + 1)
      BY <1>2, <2>2
    <3> HIDE DEF Upto
    <3> QED BY <3>1
  <2> HIDE DEF S
  <2> QED BY <2>1, <2>2, SetInduction
<1>4. N \in S
  BY <1>3
<1>5. Upto(N)
  <2> HIDE DEF Upto
  <2> QED BY <1>4
<1> QED BY <1>5

\* u holds the m fields of s and then the n fields of t.
Joined(u, s, t, m, n) ==
  /\ u \in Seq(Nat) /\ Len(u) = m + n
  /\ \A i \in 1 .. m + n : u[i] = IF i <= m THEN s[i] ELSE t[i - m]

\* A concatenation, position by position.
LEMMA Concatenated ==
  ASSUME NEW s \in Seq(Nat), NEW t \in Seq(Nat)
  PROVE  Joined(s \o t, s, t, Len(s), Len(t))
BY DEF Joined

\* The bytes of one buffer are a number.
LEMMA BytesNat ==
  ASSUME NEW b \in BufferShape
  PROVE  BufferBytes(b) \in Nat
<1>1. PICK r \in Nat, f \in Nat, v \in {0, 1} :
        r = b.rows /\ f = b.features /\ v = b.validity
  BY DEF BufferShape
<1>2. (f + r) * (4 + TextLen) \in Nat /\ f * r \in Nat
  BY SizesAssumption
<1>3. (f * r) * (8 + v) \in Nat
  <2>1. \A x \in Nat : x * 8 \in Nat /\ x * 9 \in Nat
    OBVIOUS
  <2> QED BY <1>2, <2>1
<1> QED BY <1>1, <1>2, <1>3, SizesAssumption DEF BufferBytes

\* The fields of one buffer: two lengths, two dimensions, a flag, and one
\* length for every feature name and observation id.
LEMMA FieldsOfBuffer ==
  ASSUME NEW b \in BufferShape
  PROVE  /\ BufferFields(b) \in Seq(Nat)
         /\ Len(BufferFields(b)) = 5 + b.features + b.rows
         /\ BufferFields(b)[1] = TextLen /\ BufferFields(b)[2] = TextLen
         /\ BufferFields(b)[3] = b.rows /\ BufferFields(b)[4] = b.features
         /\ BufferFields(b)[5] = b.validity
         /\ \A i \in 6 .. 5 + b.features + b.rows : BufferFields(b)[i] = TextLen
<1>1. PICK r \in Nat, f \in Nat, v \in {0, 1} :
        r = b.rows /\ f = b.features /\ v = b.validity
  BY DEF BufferShape
<1>2. PICK h, t, u : /\ h = <<TextLen, TextLen, r, f, v>>
                     /\ t = Texts(f) /\ u = Texts(r)
  OBVIOUS
<1>3. /\ h \in Seq(Nat) /\ Len(h) = 5
      /\ h[1] = TextLen /\ h[2] = TextLen /\ h[3] = r /\ h[4] = f /\ h[5] = v
  BY <1>2, SizesAssumption
<1>4. /\ t \in Seq(Nat) /\ Len(t) = f /\ \A i \in 1 .. f : t[i] = TextLen
      /\ u \in Seq(Nat) /\ Len(u) = r /\ \A i \in 1 .. r : u[i] = TextLen
  BY <1>2, SizesAssumption DEF Texts
<1>5. PICK ht : ht = h \o t
  OBVIOUS
<1>6. /\ ht \in Seq(Nat) /\ Len(ht) = 5 + f
      /\ \A i \in 1 .. 5 + f : ht[i] = IF i <= 5 THEN h[i] ELSE t[i - 5]
  <2>1. Joined(ht, h, t, 5, f)
    BY <1>3, <1>4, <1>5, Concatenated
  <2> QED BY <2>1 DEF Joined
<1>7. PICK s : s = ht \o u
  OBVIOUS
<1>8. /\ s \in Seq(Nat) /\ Len(s) = 5 + f + r
      /\ \A i \in 1 .. 5 + f + r : s[i] = IF i <= 5 + f THEN ht[i] ELSE u[i - (5 + f)]
  <2>1. Joined(s, ht, u, 5 + f, r)
    BY <1>4, <1>6, <1>7, Concatenated
  <2> QED BY <2>1 DEF Joined
<1>9. s = BufferFields(b)
  BY <1>1, <1>2, <1>5, <1>7 DEF BufferFields
<1>10. /\ s[1] = TextLen /\ s[2] = TextLen /\ s[3] = r /\ s[4] = f /\ s[5] = v
  BY <1>3, <1>6, <1>8
<1>11. ASSUME NEW i \in 6 .. 5 + f + r PROVE s[i] = TextLen
  <2>1. CASE i <= 5 + f
    <3>0. /\ i \in 1 .. 5 + f + r /\ i \in 1 .. 5 + f /\ ~ (i <= 5)
          /\ i - 5 \in 1 .. f
      BY <2>1
    <3>1. s[i] = ht[i] /\ ht[i] = t[i - 5] /\ i - 5 \in 1 .. f
      BY <1>6, <1>8, <2>1, <3>0
    <3> QED BY <1>4, <3>1
  <2>2. CASE ~(i <= 5 + f)
    <3>1. s[i] = u[i - (5 + f)] /\ i - (5 + f) \in 1 .. r
      BY <1>8, <2>2
    <3> QED BY <1>4, <3>1
  <2> QED BY <2>1, <2>2
<1> QED BY <1>1, <1>8, <1>9, <1>10, <1>11

\* The lengths the writer passes through.
LEMMA EndsAre ==
  ASSUME NEW store \in Seq(BufferShape)
  PROVE  /\ Ends(store) \in [0 .. Len(store) -> Nat]
         /\ Ends(store)[0] = HeaderLen
         /\ \A n \in 1 .. Len(store) :
              Ends(store)[n] = Ends(store)[n - 1] + BufferBytes(store[n])
<1>1. PICK N \in Nat : N = Len(store)
  OBVIOUS
<1>2. \A n \in 1 .. N : store[n] \in BufferShape
  BY <1>1
<1>3. PICK w : w = [n \in 1 .. N |-> BufferBytes(store[n])]
  OBVIOUS
<1>4. w \in [1 .. N -> Nat] /\ \A n \in 1 .. N : w[n] = BufferBytes(store[n])
  BY <1>2, <1>3, BytesNat
<1>5. PICK g \in [0 .. N -> Nat] :
        \A n \in 0 .. N : g[n] = IF n = 0 THEN HeaderLen ELSE g[n - 1] + w[n]
  <2>1. HeaderLen \in Nat
    BY DEF HeaderLen
  <2>2. HasSums(N, w, HeaderLen)
    BY <1>4, <2>1, SumsExist
  <2> QED BY <2>2 DEF HasSums
<1>6. g = [n \in 0 .. N |-> IF n = 0 THEN HeaderLen ELSE g[n - 1] + BufferBytes(store[n])]
  BY <1>4, <1>5
<1>7. PICK e : e = Ends(store)
  OBVIOUS
<1>8. e = [n \in 0 .. N |-> IF n = 0 THEN HeaderLen ELSE e[n - 1] + BufferBytes(store[n])]
  BY <1>1, <1>6, <1>7 DEF Ends
<1>9. e = g
  <2> DEFINE S == {n \in Nat : n <= N => e[n] = g[n]}
  <2>1. 0 \in S
    BY <1>5, <1>8
  <2>2. ASSUME NEW n \in Nat, n \in S PROVE n + 1 \in S
    <3>1. CASE n + 1 <= N
      <4>1. n + 1 \in 1 .. N /\ n + 1 \in 0 .. N /\ (n + 1) - 1 = n /\ e[n] = g[n]
        BY <2>2, <3>1
      <4>2. e[n + 1] = e[n] + BufferBytes(store[n + 1])
        BY <1>8, <4>1
      <4>3. g[n + 1] = g[n] + BufferBytes(store[n + 1])
        BY <1>6, <4>1
      <4> QED BY <4>1, <4>2, <4>3
    <3> QED BY <3>1
  <2>3. \A n \in Nat : n \in S
    <3> HIDE DEF S
    <3> QED BY <2>1, <2>2, SetInduction
  <2>4. \A n \in 0 .. N : e[n] = g[n]
    BY <2>3
  <2> QED BY <1>5, <1>8, <2>4
<1> QED BY <1>1, <1>4, <1>5, <1>7, <1>9

\* The fields the writer has after each buffer.
LEMMA FieldsAre ==
  ASSUME NEW store \in Seq(BufferShape)
  PROVE  /\ FieldsUpTo(store) \in [0 .. Len(store) -> Seq(Nat)]
         /\ FieldsUpTo(store)[0] = <<Len(store)>>
         /\ \A n \in 1 .. Len(store) :
              FieldsUpTo(store)[n] = FieldsUpTo(store)[n - 1] \o BufferFields(store[n])
<1>1. PICK N \in Nat : N = Len(store)
  OBVIOUS
<1>2. \A n \in 1 .. N : store[n] \in BufferShape
  BY <1>1
<1>3. PICK w : w = [n \in 1 .. N |-> BufferFields(store[n])]
  OBVIOUS
<1>4. w \in [1 .. N -> Seq(Nat)] /\ \A n \in 1 .. N : w[n] = BufferFields(store[n])
  BY <1>2, <1>3, FieldsOfBuffer
<1>5. PICK a : a = <<N>>
  OBVIOUS
<1>6. PICK g \in [0 .. N -> Seq(Nat)] :
        \A n \in 0 .. N : g[n] = IF n = 0 THEN a ELSE g[n - 1] \o w[n]
  <2>1. a \in Seq(Nat)
    BY <1>5
  <2>2. HasConcatenations(N, w, a)
    BY <1>4, <2>1, ConcatenationsExist
  <2> QED BY <2>2 DEF HasConcatenations
<1>7. g = [n \in 0 .. N |-> IF n = 0 THEN <<Len(store)>>
                            ELSE g[n - 1] \o BufferFields(store[n])]
  <2> DEFINE G(n) == IF n = 0 THEN <<Len(store)>> ELSE g[n - 1] \o BufferFields(store[n])
  <2>1. ASSUME NEW n \in 0 .. N PROVE g[n] = G(n)
    <3>1. CASE n = 0
      BY <1>1, <1>5, <1>6, <3>1
    <3>2. CASE n # 0
      <4>1. n \in 1 .. N
        BY <3>2
      <4>2. w[n] = BufferFields(store[n])
        BY <1>4, <4>1
      <4> QED BY <1>6, <3>2, <4>2
    <3> QED BY <3>1, <3>2
  <2> HIDE DEF G
  <2>2. g = [n \in 0 .. N |-> G(n)]
    BY <2>1
  <2> QED BY <2>2 DEF G
<1>8. PICK e : e = FieldsUpTo(store)
  OBVIOUS
<1>9. e = [n \in 0 .. N |-> IF n = 0 THEN <<Len(store)>>
                            ELSE e[n - 1] \o BufferFields(store[n])]
  BY <1>1, <1>7, <1>8 DEF FieldsUpTo
<1>10. \A n \in 1 .. N : e[n] = e[n - 1] \o w[n] /\ g[n] = g[n - 1] \o w[n]
  <2> SUFFICES ASSUME NEW n \in 1 .. N
               PROVE  e[n] = e[n - 1] \o w[n] /\ g[n] = g[n - 1] \o w[n]
    OBVIOUS
  <2>1. w[n] = BufferFields(store[n]) /\ n \in 0 .. N /\ n # 0
    BY <1>4
  <2>2. e[n] = e[n - 1] \o BufferFields(store[n])
    BY <1>9, <2>1
  <2>3. g[n] = g[n - 1] \o w[n]
    BY <1>6, <2>1
  <2> QED BY <2>1, <2>2, <2>3
<1>11. e[0] = a /\ g[0] = a
  <2>1. 0 \in 0 .. N
    OBVIOUS
  <2> QED BY <1>1, <1>5, <1>6, <1>9, <2>1
<1>12. e = g
  <2> DEFINE S == {n \in Nat : n <= N => e[n] = g[n]}
  <2>1. 0 \in S
    BY <1>11
  <2>2. ASSUME NEW n \in Nat, n \in S PROVE n + 1 \in S
    <3>1. ASSUME n + 1 <= N PROVE e[n + 1] = g[n + 1]
      <4>1. n + 1 \in 1 .. N /\ (n + 1) - 1 = n /\ e[n] = g[n]
        BY <2>2, <3>1
      <4>2. e[n + 1] = e[(n + 1) - 1] \o w[n + 1] /\ g[n + 1] = g[(n + 1) - 1] \o w[n + 1]
        BY <1>10, <4>1
      <4> QED BY <4>1, <4>2
    <3> QED BY <3>1
  <2>3. \A n \in Nat : n \in S
    <3> HIDE DEF S
    <3> QED BY <2>1, <2>2, SetInduction
  <2>4. \A n \in 0 .. N : e[n] = g[n]
    BY <2>3
  <2>5. e = [n \in 0 .. N |-> e[n]] /\ g = [n \in 0 .. N |-> g[n]]
    BY <1>6, <1>9
  <2> QED BY <2>4, <2>5
<1>13. \A n \in 1 .. N : e[n] = e[n - 1] \o BufferFields(store[n])
  BY <1>4, <1>10
<1> QED BY <1>1, <1>5, <1>6, <1>8, <1>11, <1>12, <1>13

\* Every buffer adds to the payload.
LEMMA EndsGrow ==
  ASSUME NEW store \in Seq(BufferShape), NEW m \in 0 .. Len(store)
  PROVE  \A n \in m .. Len(store) : Ends(store)[m] <= Ends(store)[n]
<1>1. PICK N, e : N \in Nat /\ N = Len(store) /\ e = Ends(store)
  OBVIOUS
<1> N \in Nat
  BY <1>1
<1>2. e \in [0 .. N -> Nat] /\ \A n \in 1 .. N : e[n] = e[n - 1] + BufferBytes(store[n])
  BY <1>1, EndsAre
<1>3. \A n \in 1 .. N : BufferBytes(store[n]) \in Nat
  BY <1>1, BytesNat
<1> DEFINE S == {j \in Nat : m + j <= N => e[m] <= e[m + j]}
<1>4. 0 \in S
  BY <1>1, <1>2
<1>5. ASSUME NEW j \in Nat, j \in S PROVE j + 1 \in S
  <2>1. ASSUME m + (j + 1) <= N PROVE e[m] <= e[m + (j + 1)]
    <3>1. PICK n \in 1 .. N : n = m + (j + 1)
      BY <1>1, <2>1
    <3>2. n - 1 = m + j /\ n - 1 \in 0 .. N /\ m \in 0 .. N /\ m + j <= N
      BY <1>1, <3>1
    <3>3. e[m] <= e[n - 1] /\ e[n] = e[n - 1] + BufferBytes(store[n])
      BY <1>2, <1>5, <3>2
    <3>4. e[m] \in Nat /\ e[n - 1] \in Nat /\ BufferBytes(store[n]) \in Nat
      BY <1>2, <1>3, <3>2
    <3>5. e[m] <= e[n]
      BY <3>3, <3>4
    <3> QED BY <3>1, <3>5
  <2> QED BY <2>1
<1>6. \A j \in Nat : j \in S
  <2> HIDE DEF S
  <2> QED BY <1>4, <1>5, SetInduction
<1>7. ASSUME NEW n \in m .. N PROVE e[m] <= e[n]
  <2>1. PICK j \in Nat : n = m + j
    <3>1. n - m \in Nat /\ n = m + (n - m)
      BY <1>1
    <3> QED BY <3>1
  <2> QED BY <1>6, <2>1
<1> QED BY <1>1, <1>7

\* u starts with the fields of s.
StartsWith(u, s) ==
  Len(s) <= Len(u) /\ \A i \in 1 .. Len(s) : u[i] = s[i]

\* Every buffer adds its fields after those before it.
LEMMA FieldsGrow ==
  ASSUME NEW store \in Seq(BufferShape), NEW m \in 0 .. Len(store)
  PROVE  \A n \in m .. Len(store) :
           StartsWith(FieldsUpTo(store)[n], FieldsUpTo(store)[m])
<1>1. PICK N, e : N \in Nat /\ N = Len(store) /\ e = FieldsUpTo(store)
  OBVIOUS
<1> N \in Nat
  BY <1>1
<1>2. /\ e \in [0 .. N -> Seq(Nat)]
      /\ \A n \in 1 .. N : e[n] = e[n - 1] \o BufferFields(store[n])
  BY <1>1, FieldsAre
<1>3. \A n \in 1 .. N : BufferFields(store[n]) \in Seq(Nat)
  BY <1>1, FieldsOfBuffer
<1> DEFINE S == {j \in Nat : m + j <= N => StartsWith(e[m + j], e[m])}
<1>4. 0 \in S
  <2>1. e[m + 0] = e[m] /\ Len(e[m]) \in Nat
    BY <1>1, <1>2
  <2>2. StartsWith(e[m + 0], e[m])
    BY <2>1 DEF StartsWith
  <2> QED BY <2>2
<1>5. ASSUME NEW j \in Nat, j \in S PROVE j + 1 \in S
  <2>1. ASSUME m + (j + 1) <= N PROVE StartsWith(e[m + (j + 1)], e[m])
    <3>1. PICK n \in 1 .. N : n = m + (j + 1)
      BY <1>1, <2>1
    <3>2. n - 1 = m + j /\ n - 1 \in 0 .. N /\ m \in 0 .. N /\ m + j <= N
      BY <1>1, <3>1
    <3>3. StartsWith(e[m + j], e[m])
      <4> HIDE DEF StartsWith
      <4> QED BY <1>5, <3>2
    <3>4. StartsWith(e[n - 1], e[m]) /\ e[n] = e[n - 1] \o BufferFields(store[n])
      BY <1>2, <3>2, <3>3
    <3>5. e[m] \in Seq(Nat) /\ e[n - 1] \in Seq(Nat) /\ BufferFields(store[n]) \in Seq(Nat)
      BY <1>2, <1>3, <3>2
    <3>6. PICK s \in Seq(Nat), t \in Seq(Nat), u \in Seq(Nat) :
            s = e[m] /\ t = e[n - 1] /\ u = BufferFields(store[n])
      BY <3>5
    <3>7. PICK v : v = e[n]
      OBVIOUS
    <3>8. Joined(v, t, u, Len(t), Len(u))
      BY <3>4, <3>6, <3>7, Concatenated
    <3>9. StartsWith(t, s)
      BY <3>4, <3>6
    <3>10. StartsWith(v, s)
      <4>1. PICK p \in Nat, q \in Nat, r \in Nat : p = Len(s) /\ q = Len(t) /\ r = Len(u)
        OBVIOUS
      <4>2. p <= q /\ \A i \in 1 .. p : t[i] = s[i]
        BY <3>9, <4>1 DEF StartsWith
      <4>3. Len(v) = q + r /\ \A i \in 1 .. q + r : i <= q => v[i] = t[i]
        BY <3>8, <4>1 DEF Joined
      <4>4. p <= q + r /\ \A i \in 1 .. p : v[i] = s[i]
        <5>1. p <= q + r
          BY <4>2
        <5>2. ASSUME NEW i \in 1 .. p PROVE v[i] = s[i]
          <6>1. i \in 1 .. q + r /\ i <= q
            BY <4>2
          <6> QED BY <4>2, <4>3, <6>1
        <5> QED BY <5>1, <5>2
      <4> QED BY <4>1, <4>3, <4>4 DEF StartsWith
    <3> QED BY <3>1, <3>6, <3>7, <3>10
  <2> HIDE DEF StartsWith
  <2> QED BY <2>1
<1>6. \A j \in Nat : j \in S
  <2> HIDE DEF S
  <2> QED BY <1>4, <1>5, SetInduction
<1>7. ASSUME NEW n \in m .. N PROVE StartsWith(e[n], e[m])
  <2>1. PICK j \in Nat : n = m + j
    <3>1. n - m \in Nat /\ n = m + (n - m)
      BY <1>1
    <3> QED BY <3>1
  <2>2. m + j <= N
    BY <1>1, <2>1
  <2>3. j \in S
    BY <1>6
  <2> QED BY <2>1, <2>2, <2>3
<1> QED BY <1>1, <1>7

(***************************************************************************)
(* The reader stays inside of the payload.                                 *)
(***************************************************************************)

\* rd has the fields of a reader, and their types.
Shape(rd) ==
  rd = [pc |-> rd.pc, cursor |-> rd.cursor, field |-> rd.field,
        buffers |-> rd.buffers, cur |-> rd.cur, texts |-> rd.texts,
        columns |-> rd.columns, masks |-> rd.masks,
        reserved |-> rd.reserved, got |-> rd.got]

Types(rd) ==
  /\ rd.pc \in {"idle", "open", "buffer", "texts", "accepted", "refused"}
  /\ rd.cursor \in Nat /\ rd.field \in Nat /\ rd.buffers \in Nat
  /\ rd.cur = <<rd.cur[1], rd.cur[2], rd.cur[3]>>
  /\ rd.cur[1] \in Nat /\ rd.cur[2] \in Nat /\ rd.cur[3] \in Nat
  /\ rd.texts \in Nat /\ rd.columns \in Nat /\ rd.masks \in Nat
  /\ rd.reserved \in Nat
  /\ rd.pc = "texts" => rd.buffers > 0

ReaderTyped == Shape(reader) /\ Types(reader)

FileTyped ==
  /\ file.end \in Nat
  /\ file.fields = Foreign \/ file.fields \in Seq(Nat)

\* Nothing was read of a file that was just loaded.
OpensAtStart == reader.pc = "open" => reader = Start

ReaderInv ==
  ReaderTyped /\ FileTyped /\ OpensAtStart /\ ReadsInBounds /\ ReservationsBounded

\* Whatever the file holds, a field is an unsigned number.
LEMMA FieldNat ==
  ASSUME ReaderInv, NEW k \in Nat, NEW x \in Field(k)
  PROVE  x \in Nat
<1>1. CASE file.fields = Foreign
  BY <1>1, SizesAssumption DEF Field
<1>2. CASE file.fields # Foreign
  <2>1. PICK s \in Seq(Nat) : s = file.fields
    BY <1>2 DEF ReaderInv, FileTyped
  <2>2. PICK i \in DOMAIN s : x = s[i]
    BY <1>2, <2>1 DEF Field
  <2> QED BY <2>2
<1> QED BY <1>1, <1>2

\* Refusing a file moves nothing.
LEMMA RefuseInBounds ==
  ASSUME ReaderInv, Refuse, UNCHANGED file
  PROVE  ReaderInv'
BY DEF ReaderInv, ReaderTyped, Shape, Types, FileTyped, OpensAtStart,
       ReadsInBounds, ReservationsBounded, Refuse

\* A step that keeps the position and the reservation within the payload.
LEMMA MoveInBounds ==
  ASSUME ReaderInv, UNCHANGED file,
         NEW nx, nx = reader', Shape(nx), Types(nx), nx.pc # "open",
         nx.cursor <= file.end, nx.reserved <= file.end
  PROVE  ReaderInv'
<1>1. ReaderTyped' /\ FileTyped'
  BY DEF ReaderInv, ReaderTyped, FileTyped
<1> QED BY <1>1 DEF ReaderInv, OpensAtStart, ReadsInBounds, ReservationsBounded

\* What is reserved next is within the payload if the count is.
LEMMA ReservedInBounds ==
  ASSUME ReaderInv, NEW n \in Nat, n <= file.end
  PROVE  Reserved(n) \in Nat /\ Reserved(n) <= file.end
BY DEF ReaderInv, ReaderTyped, Types, FileTyped, ReservationsBounded, Reserved

\* A length that was checked leaves the position inside of the payload.
LEMMA EnsureInBounds ==
  ASSUME ReaderInv, NEW c \in Nat, NEW n \in Nat, Ensure(c, n)
  PROVE  c + n \in Nat /\ c + n <= file.end /\ n <= file.end
BY DEF ReaderInv, FileTyped, Ensure

\* Opening the file: the count of buffers is checked against the payload.
LEMMA OpenInBounds ==
  ASSUME ReaderInv, Open
  PROVE  ReaderInv'
<1>1. PICK n \in Field(0) :
        IF OpenAccepts(n)
        THEN reader' = [reader EXCEPT !.pc = "buffer", !.field = @ + 1,
                                      !.buffers = n, !.reserved = Reserved(n)]
        ELSE Refuse
  BY DEF Open
<1>2. UNCHANGED file
  BY DEF Open
<1>3. n \in Nat
  BY FieldNat
<1>4. CASE OpenAccepts(n)
  <2>1. n <= file.end /\ HeaderLen <= file.end
    BY <1>3, <1>4 DEF ReaderInv, FileTyped, OpenAccepts, CountFits, Ensure,
                      HeaderLen, MinBufferBytes
  <2>2. PICK v : v = Reserved(n)
    OBVIOUS
  <2>3. v \in Nat /\ v <= file.end
    BY <1>3, <2>1, <2>2, ReservedInBounds
  <2>4. PICK rd, nx : rd = reader /\ nx = reader'
    OBVIOUS
  <2>5. Shape(rd) /\ Types(rd) /\ rd.cursor = HeaderLen
    BY <2>4 DEF Open, ReaderInv, ReaderTyped, OpensAtStart, Start
  <2>6. nx = [rd EXCEPT !.pc = "buffer", !.field = @ + 1,
                        !.buffers = n, !.reserved = v]
    BY <1>1, <1>4, <2>2, <2>4
  <2>7. /\ nx.pc = "buffer" /\ nx.cursor = rd.cursor /\ nx.field = rd.field + 1
        /\ nx.buffers = n /\ nx.cur = rd.cur /\ nx.texts = rd.texts
        /\ nx.columns = rd.columns /\ nx.masks = rd.masks /\ nx.reserved = v
    BY <2>5, <2>6 DEF Shape
  <2>8. Shape(nx)
    BY <2>5, <2>6 DEF Shape
  <2>9. Types(nx)
    BY <1>3, <2>3, <2>5, <2>7 DEF Types
  <2>10. nx.pc # "open" /\ nx.cursor <= file.end /\ nx.reserved <= file.end
    BY <2>1, <2>3, <2>5, <2>7
  <2> QED BY <1>2, <2>4, <2>8, <2>9, <2>10, MoveInBounds
<1> QED BY <1>1, <1>2, <1>4, RefuseInBounds

\* The head of a buffer: the dimensions are checked before anything is reserved.
LEMMA BufferInBounds ==
  ASSUME ReaderInv, Buffer
  PROVE  ReaderInv'
<1>1. PICK a \in Field(0), b \in Field(1), rows \in Field(2), features \in Field(3),
           validity \in Field(4) :
        LET c == reader.cursor
            d == c + 8 + a + b
        IN IF /\ TextAccepts(c, a) /\ TextAccepts(c + 4 + a, b)
              /\ HeadAccepts(d, rows, features, validity)
           THEN reader' = [reader EXCEPT
                  !.pc = "texts", !.cursor = d + 9, !.field = @ + 5,
                  !.cur = <<rows, features, validity>>,
                  !.texts = features + rows, !.columns = features,
                  !.masks = IF validity = 1 THEN features ELSE 0,
                  !.reserved = Reserved(IF rows > features THEN rows ELSE features)]
           ELSE Refuse
  BY DEF Buffer
<1>2. UNCHANGED file
  BY DEF Buffer
<1>3. a \in Nat /\ b \in Nat /\ rows \in Nat /\ features \in Nat /\ validity \in Nat
  BY FieldNat
<1>4. PICK d : d = reader.cursor + 8 + a + b
  OBVIOUS
<1>5. d \in Nat
  BY <1>3, <1>4 DEF ReaderInv, ReaderTyped, Types
<1>6. CASE /\ TextAccepts(reader.cursor, a) /\ TextAccepts(reader.cursor + 4 + a, b)
           /\ HeadAccepts(d, rows, features, validity)
  <2>1. Ensure(d + 9, features * 4) /\ Ensure(d + 9, rows * 4)
    BY <1>6 DEF HeadAccepts, CountFits
  <2>2. d + 9 <= file.end /\ features <= file.end /\ rows <= file.end
    BY <1>3, <1>5, <2>1 DEF ReaderInv, FileTyped, Ensure
  <2>3. PICK most, v, m : /\ most = IF rows > features THEN rows ELSE features
                          /\ v = Reserved(most)
                          /\ m = IF validity = 1 THEN features ELSE 0
    OBVIOUS
  <2>4. most \in Nat /\ most <= file.end /\ m \in Nat
    BY <1>3, <2>2, <2>3
  <2>5. v \in Nat /\ v <= file.end
    BY <2>3, <2>4, ReservedInBounds
  <2>6. PICK rd, nx, u : rd = reader /\ nx = reader' /\ u = <<rows, features, validity>>
    OBVIOUS
  <2>7. Shape(rd) /\ Types(rd) /\ rd.buffers > 0
    BY <2>6 DEF ReaderInv, ReaderTyped, Buffer
  <2>8. nx = [rd EXCEPT !.pc = "texts", !.cursor = d + 9, !.field = @ + 5,
                        !.cur = u, !.texts = features + rows, !.columns = features,
                        !.masks = m, !.reserved = v]
    BY <1>1, <1>4, <1>6, <2>3, <2>6
  <2>9. /\ nx.pc = "texts" /\ nx.cursor = d + 9 /\ nx.field = rd.field + 5
        /\ nx.buffers = rd.buffers /\ nx.cur = u /\ nx.texts = features + rows
        /\ nx.columns = features /\ nx.masks = m /\ nx.reserved = v
    BY <2>7, <2>8 DEF Shape
  <2>10. Shape(nx)
    BY <2>7, <2>8 DEF Shape
  <2>11. /\ u = <<u[1], u[2], u[3]>>
         /\ u[1] \in Nat /\ u[2] \in Nat /\ u[3] \in Nat
    BY <1>3, <2>6
  <2>12. Types(nx)
    BY <1>3, <1>5, <2>4, <2>5, <2>7, <2>9, <2>11 DEF Types
  <2>13. nx.pc # "open" /\ nx.cursor <= file.end /\ nx.reserved <= file.end
    BY <2>2, <2>5, <2>9
  <2> QED BY <1>2, <2>6, <2>10, <2>12, <2>13, MoveInBounds
<1> QED BY <1>1, <1>2, <1>4, <1>6, RefuseInBounds

\* A name or an id.
LEMMA TextInBounds ==
  ASSUME ReaderInv, Text
  PROVE  ReaderInv'
<1>1. PICK len \in Field(0) :
        \/ /\ TextAccepts(reader.cursor, len)
           /\ reader' = [reader EXCEPT !.cursor = @ + 4 + len, !.field = @ + 1,
                                       !.texts = @ - 1]
        \/ Refuse
  BY DEF Text
<1>2. UNCHANGED file /\ reader.texts > 0 /\ reader.pc = "texts"
  BY DEF Text
<1>3. CASE /\ TextAccepts(reader.cursor, len)
           /\ reader' = [reader EXCEPT !.cursor = @ + 4 + len, !.field = @ + 1,
                                       !.texts = @ - 1]
  <2>1. PICK rd, nx : rd = reader /\ nx = reader'
    OBVIOUS
  <2>2. Shape(rd) /\ Types(rd) /\ rd.pc = "texts" /\ rd.reserved <= file.end
    BY <1>2, <2>1 DEF ReaderInv, ReaderTyped, ReservationsBounded
  <2>3. nx = [rd EXCEPT !.cursor = @ + 4 + len, !.field = @ + 1, !.texts = @ - 1]
    BY <1>3, <2>1
  <2>4. /\ nx.pc = rd.pc /\ nx.cursor = rd.cursor + 4 + len /\ nx.field = rd.field + 1
        /\ nx.buffers = rd.buffers /\ nx.cur = rd.cur /\ nx.texts = rd.texts - 1
        /\ nx.columns = rd.columns /\ nx.masks = rd.masks /\ nx.reserved = rd.reserved
    BY <2>2, <2>3 DEF Shape
  <2>5. Shape(nx)
    BY <2>2, <2>3 DEF Shape
  <2>6. len \in Nat
    BY FieldNat
  <2>7. Types(nx)
    BY <1>2, <2>1, <2>2, <2>4, <2>6 DEF Types
  <2>8. rd.cursor + 4 + len <= file.end
    <3>1. PICK c \in Nat, z \in Nat : c = rd.cursor /\ z = file.end
      BY <2>2 DEF Types, ReaderInv, FileTyped
    <3>2. c + 4 <= z /\ len <= z - (c + 4)
      BY <1>3, <2>1, <3>1 DEF TextAccepts, Ensure
    <3> QED BY <2>6, <3>1, <3>2
  <2> QED BY <1>2, <2>1, <2>2, <2>4, <2>5, <2>7, <2>8, MoveInBounds
<1> QED BY <1>1, <1>2, <1>3, RefuseInBounds

\* A column of cells.
LEMMA ColumnInBounds ==
  ASSUME ReaderInv, Column
  PROVE  ReaderInv'
<1>1. /\ UNCHANGED file /\ reader.columns > 0 /\ reader.pc = "texts"
      /\ IF CountFits(reader.cursor, reader.cur[1], 8)
         THEN reader' = [reader EXCEPT !.cursor = @ + reader.cur[1] * 8,
                                       !.columns = @ - 1]
         ELSE Refuse
  BY DEF Column
<1>2. CASE CountFits(reader.cursor, reader.cur[1], 8)
  <2>1. PICK rd, nx, n : rd = reader /\ nx = reader' /\ n = rd.cur[1] * 8
    OBVIOUS
  <2>2. Shape(rd) /\ Types(rd) /\ rd.pc = "texts" /\ rd.reserved <= file.end
    BY <1>1, <2>1 DEF ReaderInv, ReaderTyped, ReservationsBounded
  <2>3. nx = [rd EXCEPT !.cursor = @ + n, !.columns = @ - 1]
    BY <1>1, <1>2, <2>1
  <2>4. /\ nx.pc = rd.pc /\ nx.cursor = rd.cursor + n /\ nx.field = rd.field
        /\ nx.buffers = rd.buffers /\ nx.cur = rd.cur /\ nx.texts = rd.texts
        /\ nx.columns = rd.columns - 1 /\ nx.masks = rd.masks
        /\ nx.reserved = rd.reserved
    BY <2>2, <2>3 DEF Shape
  <2>5. Shape(nx)
    BY <2>2, <2>3 DEF Shape
  <2>6. n \in Nat
    BY <2>1, <2>2 DEF Types
  <2>7. Types(nx)
    BY <1>1, <2>1, <2>2, <2>4, <2>6 DEF Types
  <2>8. rd.cursor + n <= file.end
    BY <1>2, <2>1, <2>2, <2>6, EnsureInBounds DEF CountFits, Types
  <2> QED BY <1>1, <2>1, <2>2, <2>4, <2>5, <2>7, <2>8, MoveInBounds
<1> QED BY <1>1, <1>2, RefuseInBounds

\* The validity of a column.
LEMMA MaskInBounds ==
  ASSUME ReaderInv, Mask
  PROVE  ReaderInv'
<1>1. UNCHANGED file /\ reader.masks > 0 /\ reader.pc = "texts"
  BY DEF Mask
<1>2. \/ /\ Ensure(reader.cursor, reader.cur[1])
         /\ reader' = [reader EXCEPT !.cursor = @ + reader.cur[1], !.masks = @ - 1]
      \/ Refuse
  BY DEF Mask
<1>3. CASE /\ Ensure(reader.cursor, reader.cur[1])
           /\ reader' = [reader EXCEPT !.cursor = @ + reader.cur[1], !.masks = @ - 1]
  <2>1. PICK rd, nx, n : rd = reader /\ nx = reader' /\ n = rd.cur[1]
    OBVIOUS
  <2>2. Shape(rd) /\ Types(rd) /\ rd.pc = "texts" /\ rd.reserved <= file.end
    BY <1>1, <2>1 DEF ReaderInv, ReaderTyped, ReservationsBounded
  <2>3. nx = [rd EXCEPT !.cursor = @ + n, !.masks = @ - 1]
    BY <1>3, <2>1
  <2>4. /\ nx.pc = rd.pc /\ nx.cursor = rd.cursor + n /\ nx.field = rd.field
        /\ nx.buffers = rd.buffers /\ nx.cur = rd.cur /\ nx.texts = rd.texts
        /\ nx.columns = rd.columns /\ nx.masks = rd.masks - 1
        /\ nx.reserved = rd.reserved
    BY <2>2, <2>3 DEF Shape
  <2>5. Shape(nx)
    BY <2>2, <2>3 DEF Shape
  <2>6. n \in Nat
    BY <2>1, <2>2 DEF Types
  <2>7. Types(nx)
    BY <1>1, <2>1, <2>2, <2>4, <2>6 DEF Types
  <2>8. rd.cursor + n <= file.end
    BY <1>3, <2>1, <2>2, <2>6, EnsureInBounds DEF Types
  <2> QED BY <1>1, <2>1, <2>2, <2>4, <2>5, <2>7, <2>8, MoveInBounds
<1> QED BY <1>1, <1>2, <1>3, RefuseInBounds

\* The end of a buffer.
LEMMA BufferEndInBounds ==
  ASSUME ReaderInv, BufferEnd
  PROVE  ReaderInv'
<1>1. UNCHANGED file /\ reader.pc = "texts"
  BY DEF BufferEnd
<1>2. PICK rd, nx, g : /\ rd = reader /\ nx = reader'
                       /\ g = Append(rd.got, [rows |-> rd.cur[1], features |-> rd.cur[2],
                                              validity |-> rd.cur[3]])
  OBVIOUS
<1>3. /\ Shape(rd) /\ Types(rd) /\ rd.pc = "texts"
      /\ rd.reserved <= file.end /\ rd.cursor <= file.end
  BY <1>1, <1>2 DEF ReaderInv, ReaderTyped, ReservationsBounded, ReadsInBounds
<1>4. nx = [rd EXCEPT !.pc = "buffer", !.buffers = @ - 1, !.got = g]
  BY <1>2 DEF BufferEnd
<1>5. /\ nx.pc = "buffer" /\ nx.cursor = rd.cursor /\ nx.field = rd.field
      /\ nx.buffers = rd.buffers - 1 /\ nx.cur = rd.cur /\ nx.texts = rd.texts
      /\ nx.columns = rd.columns /\ nx.masks = rd.masks /\ nx.reserved = rd.reserved
  BY <1>3, <1>4 DEF Shape
<1>6. Shape(nx)
  BY <1>3, <1>4 DEF Shape
<1>7. Types(nx)
  BY <1>3, <1>5 DEF Types
<1> QED BY <1>1, <1>2, <1>3, <1>5, <1>6, <1>7, MoveInBounds

\* The end of the file.
LEMMA FinishInBounds ==
  ASSUME ReaderInv, Finish
  PROVE  ReaderInv'
<1>1. UNCHANGED file /\ reader.pc = "buffer"
  BY DEF Finish
<1>2. (reader' = [reader EXCEPT !.pc = "accepted"]) \/ Refuse
  BY DEF Finish
<1>3. CASE reader' = [reader EXCEPT !.pc = "accepted"]
  <2>1. PICK rd, nx : rd = reader /\ nx = reader'
    OBVIOUS
  <2>2. /\ Shape(rd) /\ Types(rd) /\ rd.pc = "buffer"
        /\ rd.reserved <= file.end /\ rd.cursor <= file.end
    BY <1>1, <2>1 DEF ReaderInv, ReaderTyped, ReservationsBounded, ReadsInBounds
  <2>3. nx = [rd EXCEPT !.pc = "accepted"]
    BY <1>3, <2>1
  <2>4. /\ nx.pc = "accepted" /\ nx.cursor = rd.cursor /\ nx.field = rd.field
        /\ nx.buffers = rd.buffers /\ nx.cur = rd.cur /\ nx.texts = rd.texts
        /\ nx.columns = rd.columns /\ nx.masks = rd.masks
        /\ nx.reserved = rd.reserved
    BY <2>2, <2>3 DEF Shape
  <2>5. Shape(nx)
    BY <2>2, <2>3 DEF Shape
  <2>6. Types(nx)
    BY <2>2, <2>4 DEF Types
  <2> QED BY <1>1, <2>1, <2>2, <2>4, <2>5, <2>6, MoveInBounds
<1> QED BY <1>1, <1>2, <1>3, RefuseInBounds

\* Every step of the reader.
LEMMA ReadInBounds ==
  ASSUME ReaderInv, Read
  PROVE  ReaderInv'
BY OpenInBounds, BufferInBounds, TextInBounds, ColumnInBounds, MaskInBounds,
   BufferEndInBounds, FinishInBounds DEF Read

(***************************************************************************)
(* What is on disk.                                                        *)
(***************************************************************************)

\* The first k chunks of a document.
Written(d, k) == [i \in 1 .. k |-> [doc |-> d, at |-> i]]

ContentInv ==
  \/ content = Absent
  \/ \E d \in Document : \E k \in 0 .. Parts(d) + 1 : content = Written(d, k)
  \/ \E f \in ForeignFile :
       content = <<[doc |-> [kind |-> "foreign", body |-> f], at |-> 1]>>

\* A write under way has written what it has done, and nothing is left of the
\* file before it.
WritingInv ==
  writing # None =>
    \E d \in Document : \E k \in 0 .. Parts(d) + 1 :
      /\ writing = [doc |-> d, done |-> k]
      /\ content = Written(d, k)
      /\ acked = None

\* The file still is what was acknowledged.
AckedInv ==
  acked # None => acked \in Document /\ content = Written(acked, Parts(acked) + 1)

DiskInv == ContentInv /\ WritingInv /\ AckedInv

\* A document has some number of entries or buffers.
LEMMA PartsNat ==
  ASSUME NEW d \in Document
  PROVE  Parts(d) \in Nat
BY DocumentAssumption DEF Parts

\* An empty file is a document of which nothing is written.
LEMMA NothingWritten ==
  ASSUME NEW d
  PROVE  Written(d, 0) = << >>
BY DEF Written

\* Chunks are written one after the other.
LEMMA WrittenGrows ==
  ASSUME NEW d, NEW k \in Nat
  PROVE  /\ Len(Written(d, k)) = k
         /\ Append(Written(d, k), [doc |-> d, at |-> k + 1]) = Written(d, k + 1)
BY DEF Written

\* Every step keeps the file in one of the three states.
LEMMA DiskStep ==
  ASSUME DiskInv, [Next]_vars
  PROVE  DiskInv'
<1>1. ASSUME NEW d \in Document, NEW p \in BOOLEAN, BeginWrite(d, p)
      PROVE  DiskInv'
  <2>1. content' = Written(d, 0) /\ writing' = [doc |-> d, done |-> 0] /\ acked' = None
    BY <1>1, NothingWritten DEF BeginWrite, Truncated
  <2>2. 0 \in 0 .. Parts(d) + 1
    BY PartsNat
  <2> QED BY <2>1, <2>2 DEF DiskInv, ContentInv, WritingInv, AckedInv
<1>2. ASSUME WriteChunk PROVE DiskInv'
  <2>0. PICK d \in Document : \E k \in 0 .. Parts(d) + 1 :
          writing = [doc |-> d, done |-> k] /\ content = Written(d, k) /\ acked = None
    BY <1>2 DEF WriteChunk, DiskInv, WritingInv
  <2>1. PICK k \in 0 .. Parts(d) + 1 :
          writing = [doc |-> d, done |-> k] /\ content = Written(d, k) /\ acked = None
    BY <2>0
  <2>2. PICK n \in Nat : n = Parts(d)
    BY PartsNat
  <2>3. Chunks(d) = Written(d, n + 1) /\ Len(Chunks(d)) = n + 1
    BY <2>2, WrittenGrows DEF Chunks, Written
  <2>4. writing.doc = d /\ writing.done = k /\ k < n + 1
    BY <1>2, <2>1, <2>3 DEF WriteChunk
  <2>5. Chunks(d)[k + 1] = [doc |-> d, at |-> k + 1]
    <3>1. k + 1 \in 1 .. n + 1
      BY <2>2, <2>4
    <3> QED BY <2>3, <3>1 DEF Written
  <2>6. Len(content) = k /\ ~ (k + 1 <= Len(content))
    <3>1. k \in Nat
      BY <2>2
    <3>2. Len(Written(d, k)) = k
      BY <3>1, WrittenGrows
    <3> QED BY <2>1, <3>1, <3>2
  <2>7. content' = Append(Written(d, k), [doc |-> d, at |-> k + 1])
    BY <1>2, <2>1, <2>4, <2>5, <2>6 DEF WriteChunk
  <2>8. content' = Written(d, k + 1)
    <3>1. k \in Nat
      BY <2>2
    <3> QED BY <2>7, <3>1, WrittenGrows
  <2>9. writing' = [doc |-> d, done |-> k + 1] /\ acked' = None
    BY <1>2, <2>1, <2>4 DEF WriteChunk
  <2>10. k + 1 \in 0 .. Parts(d) + 1
    BY <2>2, <2>4
  <2> QED BY <2>8, <2>9, <2>10 DEF DiskInv, ContentInv, WritingInv, AckedInv
<1>3. ASSUME EndWrite PROVE DiskInv'
  <2>0. PICK d \in Document : \E k \in 0 .. Parts(d) + 1 :
          writing = [doc |-> d, done |-> k] /\ content = Written(d, k) /\ acked = None
    BY <1>3 DEF EndWrite, DiskInv, WritingInv
  <2>1. PICK k \in 0 .. Parts(d) + 1 :
          writing = [doc |-> d, done |-> k] /\ content = Written(d, k) /\ acked = None
    BY <2>0
  <2>2. PICK n \in Nat : n = Parts(d)
    BY PartsNat
  <2>3. Len(Chunks(d)) = n + 1
    BY <2>2 DEF Chunks
  <2>4. k = n + 1 /\ acked' = d /\ writing' = None /\ content' = content
    BY <1>3, <2>1, <2>3 DEF EndWrite
  <2> QED BY <2>1, <2>2, <2>4 DEF DiskInv, ContentInv, WritingInv, AckedInv
<1>4. ASSUME WriteFails \/ Crash PROVE DiskInv'
  BY <1>4 DEF WriteFails, Crash, DiskInv, ContentInv, WritingInv, AckedInv
<1>5. ASSUME NEW f \in ForeignFile, Replace(f) PROVE DiskInv'
  BY <1>5 DEF Replace, Idle, DiskInv, ContentInv, WritingInv, AckedInv
<1>6. ASSUME UNCHANGED <<content, writing, acked>> PROVE DiskInv'
  BY <1>6 DEF DiskInv, ContentInv, WritingInv, AckedInv
<1>7. ASSUME NEW p \in BOOLEAN, ReadManifest(p) PROVE UNCHANGED <<content, writing, acked>>
  BY <1>7 DEF ReadManifest
<1>8. ASSUME ReadStore \/ ReadStep \/ ReadDone \/ UNCHANGED vars
      PROVE  UNCHANGED <<content, writing, acked>>
  BY <1>8 DEF ReadStore, ReadStep, ReadDone, vars
<1> QED BY <1>1, <1>2, <1>3, <1>4, <1>5, <1>6, <1>7, <1>8 DEF Next

(***************************************************************************)
(* What is loaded.                                                         *)
(***************************************************************************)

\* A manifest that was loaded passed the gate it was loaded through.
LoadedInv ==
  loaded # None =>
    \E d \in Document, p \in BOOLEAN :
      /\ d.kind = "manifest"
      /\ loaded = [manifest |-> d.body, portable |-> p]
      /\ ValidManifest(d.body, p)

\* What the writer makes of a store.
LEMMA SerializedTyped ==
  ASSUME NEW store \in Seq(BufferShape)
  PROVE  /\ Serialized(store).head = "ok"
         /\ Serialized(store).end = Ends(store)[Len(store)]
         /\ Serialized(store).end \in Nat
         /\ Serialized(store).fields = FieldsUpTo(store)[Len(store)]
         /\ Serialized(store).fields \in Seq(Nat)
<1>1. PICK n, e, g, r : /\ n \in Nat
                        /\ n = Len(store) /\ e = Ends(store)
                        /\ g = FieldsUpTo(store) /\ r = Serialized(store)
  OBVIOUS
<1> n \in Nat
  BY <1>1
<1>2. e \in [0 .. n -> Nat] /\ g \in [0 .. n -> Seq(Nat)]
  BY <1>1, EndsAre, FieldsAre
<1>3. e[n] \in Nat /\ g[n] \in Seq(Nat)
  BY <1>2
<1>4. r = [head |-> "ok", end |-> e[n], fields |-> g[n]]
  BY <1>1 DEF Serialized
<1>5. r.head = "ok" /\ r.end = e[n] /\ r.fields = g[n]
  BY <1>4
<1> QED BY <1>1, <1>3, <1>5

\* Between two files, the reader has an empty store in hand.
LEMMA IdleInBounds ==
  ASSUME reader = NotReading, file = NoFile
  PROVE  ReaderInv
<1>1. PICK s : s = << >>
  OBVIOUS
<1>2. s \in Seq(BufferShape) /\ Len(s) = 0
  BY <1>1
<1>3. Serialized(s).end = HeaderLen /\ Serialized(s).fields \in Seq(Nat)
  BY <1>2, SerializedTyped, EndsAre
<1>4. FileTyped /\ file.end = HeaderLen
  BY <1>1, <1>3 DEF NoFile, FileTyped, HeaderLen
<1>5. reader = [pc |-> "idle", cursor |-> HeaderLen, field |-> 1, buffers |-> 0,
                cur |-> <<0, 0, 0>>, texts |-> 0, columns |-> 0, masks |-> 0,
                reserved |-> 0, got |-> << >>]
  BY DEF NotReading, Start
<1>6. Shape(reader) /\ Types(reader)
  BY <1>5 DEF Shape, Types, HeaderLen
<1> QED BY <1>4, <1>5, <1>6
        DEF ReaderInv, ReaderTyped, OpensAtStart, ReadsInBounds, ReservationsBounded,
            HeaderLen

\* A file that was just loaded.
LEMMA StartInBounds ==
  ASSUME reader = Start, FileTyped
  PROVE  ReaderInv
<1>1. Shape(reader) /\ Types(reader)
  BY DEF Shape, Types, Start, HeaderLen
<1>2. reader.pc = "open" /\ reader.reserved = 0
  BY DEF Start
<1> QED BY <1>1, <1>2
        DEF ReaderInv, ReaderTyped, FileTyped, OpensAtStart, ReadsInBounds,
            ReservationsBounded

\* The document that a file is the whole of is the one its chunks name.
LEMMA WholeIs ==
  ASSUME NEW d \in Whole
  PROVE  d \in Document /\ d = content[1].doc /\ content # << >>
<1>1. /\ d \in Document /\ DOMAIN content = DOMAIN Chunks(d)
      /\ \A i \in DOMAIN content : content[i] = Chunks(d)[i]
  BY DEF Whole
<1>2. 1 \in DOMAIN Chunks(d) /\ Chunks(d)[1] = [doc |-> d, at |-> 1]
  BY <1>1, PartsNat DEF Chunks
<1>3. content[1].doc = d
  BY <1>1, <1>2
<1>4. 1 \in DOMAIN content
  BY <1>1, <1>2
<1> QED BY <1>1, <1>3, <1>4

NotAStore == [head |-> "bad", end |-> HeaderLen, fields |-> <<0>>]

\* A reader finds another program's file, a store, or something it refuses.
LEMMA FoundIs ==
  ASSUME DiskInv, content # Absent
  PROVE  \/ Found \in ForeignFile
         \/ \E d \in Document : d.kind = "store" /\ Found = Serialized(d.body)
         \/ Found = NotAStore
<1>1. CASE content # << >> /\ content[1].doc.kind = "foreign"
  <2>1. Found = content[1].doc.body
    BY <1>1 DEF Found
  <2>2. ASSUME NEW d \in Document, NEW k \in 0 .. Parts(d) + 1, content = Written(d, k)
        PROVE  FALSE
    <3>1. CASE k = 0
      BY <1>1, <2>2, <3>1, NothingWritten
    <3>2. CASE k # 0
      <4>1. 1 \in 1 .. k
        BY <2>2, <3>2, PartsNat
      <4>2. content[1].doc = d
        BY <2>2, <4>1 DEF Written
      <4>3. d.kind \in {"manifest", "store"}
        BY DocumentAssumption
      <4> QED BY <1>1, <4>2, <4>3
    <3> QED BY <3>1, <3>2
  <2>3. PICK f \in ForeignFile :
          content = <<[doc |-> [kind |-> "foreign", body |-> f], at |-> 1]>>
    BY <2>2 DEF DiskInv, ContentInv
  <2>4. content[1].doc.body = f
    BY <2>3
  <2> QED BY <2>1, <2>3, <2>4
<1>2. CASE /\ ~ (content # << >> /\ content[1].doc.kind = "foreign")
           /\ \E d \in Whole : d.kind = "store"
  <2>1. PICK d \in Whole : d.kind = "store"
    BY <1>2
  <2>2. PICK e : e = CHOOSE x \in Whole : TRUE
    OBVIOUS
  <2>3. e \in Whole
    BY <2>1, <2>2
  <2>4. e = d /\ d \in Document
    BY <2>1, <2>3, WholeIs
  <2>5. Found = Serialized(e.body)
    BY <1>2, <2>2 DEF Found
  <2> QED BY <2>1, <2>4, <2>5
<1>3. CASE /\ ~ (content # << >> /\ content[1].doc.kind = "foreign")
           /\ ~ \E d \in Whole : d.kind = "store"
  BY <1>3 DEF Found, NotAStore
<1> QED BY <1>1, <1>2, <1>3

\* The file that is read has a size, and fields that are numbers.
LEMMA FoundTyped ==
  ASSUME DiskInv, content # Absent
  PROVE  Found.end \in Nat /\ (Found.fields = Foreign \/ Found.fields \in Seq(Nat))
<1>1. CASE Found \in ForeignFile
  BY <1>1, DocumentAssumption
<1>2. ASSUME NEW d \in Document, d.kind = "store", Found = Serialized(d.body)
      PROVE  Found.end \in Nat /\ Found.fields \in Seq(Nat)
  <2>1. d.body \in Seq(BufferShape)
    BY <1>2, DocumentAssumption
  <2> QED BY <1>2, <2>1, SerializedTyped
<1>3. CASE Found = NotAStore
  BY <1>3 DEF NotAStore, HeaderLen
<1> QED BY <1>1, <1>2, <1>3, FoundIs

FilesInv == ReaderInv /\ DiskInv /\ LoadedInv

\* Before anything is written or read.
LEMMA FilesInit ==
  ASSUME Init
  PROVE  FilesInv
<1>1. ReaderInv
  BY IdleInBounds DEF Init
<1> QED BY <1>1 DEF Init, FilesInv, DiskInv, ContentInv, WritingInv, AckedInv, LoadedInv

\* The manifest that was loaded last stays a valid one.
LEMMA LoadedStep ==
  ASSUME LoadedInv, [Next]_vars
  PROVE  LoadedInv'
<1>1. ASSUME loaded' = None \/ loaded' = loaded PROVE LoadedInv'
  BY <1>1 DEF LoadedInv
<1>2. ASSUME NEW d \in Document, NEW p \in BOOLEAN, BeginWrite(d, p)
      PROVE  loaded' = None \/ loaded' = loaded
  BY <1>2 DEF BeginWrite
<1>3. ASSUME NEW f \in ForeignFile, Replace(f)
      PROVE  loaded' = None \/ loaded' = loaded
  BY <1>3 DEF Replace
<1>4. ASSUME NEW p \in BOOLEAN, ReadManifest(p) PROVE LoadedInv'
  <2>1. PICK d \in Whole : /\ d.kind = "manifest" /\ ValidManifest(d.body, p)
                           /\ loaded' = [manifest |-> d.body, portable |-> p]
    BY <1>4 DEF ReadManifest
  <2>2. d \in Document
    BY DEF Whole
  <2> QED BY <2>1, <2>2 DEF LoadedInv
<1>5. ASSUME \/ WriteChunk \/ EndWrite \/ WriteFails \/ Crash
             \/ ReadStore \/ ReadStep \/ ReadDone \/ UNCHANGED vars
      PROVE  loaded' = None \/ loaded' = loaded
  BY <1>5 DEF WriteChunk, EndWrite, WriteFails, Crash, ReadStore, ReadStep, ReadDone, vars
<1> QED BY <1>1, <1>2, <1>3, <1>4, <1>5 DEF Next

\* IdleInBounds, of the next state.
LEMMA IdleInBoundsNext ==
  (reader = NotReading /\ file = NoFile => ReaderInv)'
<1>1. reader = NotReading /\ file = NoFile => ReaderInv
  BY IdleInBounds
<1> QED BY <1>1, PTL

\* StartInBounds, of the next state.
LEMMA StartInBoundsNext ==
  (reader = Start /\ FileTyped => ReaderInv)'
<1>1. reader = Start /\ FileTyped => ReaderInv
  BY StartInBounds
<1> QED BY <1>1, PTL

\* Every step keeps the reader inside of the payload.
LEMMA ReaderStep ==
  ASSUME ReaderInv, DiskInv, [Next]_vars
  PROVE  ReaderInv'
<1>1. ASSUME UNCHANGED <<file, reader>> PROVE ReaderInv'
  BY <1>1 DEF ReaderInv, ReaderTyped, Shape, Types, FileTyped, OpensAtStart,
              ReadsInBounds, ReservationsBounded
<1>2. ASSUME NEW d \in Document, NEW p \in BOOLEAN, BeginWrite(d, p)
      PROVE  UNCHANGED <<file, reader>>
  BY <1>2 DEF BeginWrite
<1>3. ASSUME NEW f \in ForeignFile, Replace(f) PROVE UNCHANGED <<file, reader>>
  BY <1>3 DEF Replace
<1>4. ASSUME NEW p \in BOOLEAN, ReadManifest(p) PROVE UNCHANGED <<file, reader>>
  BY <1>4 DEF ReadManifest
<1>5. ASSUME WriteChunk \/ EndWrite \/ WriteFails \/ UNCHANGED vars
      PROVE  UNCHANGED <<file, reader>>
  BY <1>5 DEF WriteChunk, EndWrite, WriteFails, vars
<1>6. ASSUME Crash \/ ReadDone PROVE ReaderInv'
  <2>1. reader' = NotReading' /\ file' = NoFile'
    BY <1>6 DEF Crash, ReadDone, NotReading, NoFile, Start, Serialized
  <2> QED BY <2>1, IdleInBoundsNext
<1>7. ASSUME ReadStore PROVE ReaderInv'
  <2>1. FileTyped'
    BY <1>7, FoundTyped DEF ReadStore, FileTyped
  <2>2. reader' = Start'
    BY <1>7 DEF ReadStore, Start
  <2> QED BY <2>1, <2>2, StartInBoundsNext
<1>8. ASSUME ReadStep PROVE ReaderInv'
  BY <1>8, ReadInBounds DEF ReadStep
<1> QED BY <1>1, <1>2, <1>3, <1>4, <1>5, <1>6, <1>7, <1>8 DEF Next

\* The inductive invariant of the files.
THEOREM FilesInvariant ==
  Spec => []FilesInv
<1>1. Init => FilesInv
  BY FilesInit
<1>2. FilesInv /\ [Next]_vars => FilesInv'
  BY ReaderStep, DiskStep, LoadedStep DEF FilesInv
<1> QED BY <1>1, <1>2, PTL DEF Spec

\* However the lengths in a file read, the reader never passes the end of the
\* payload (ensure_remaining and ensure_count_fits guard every slice).
THEOREM ReaderStaysInside ==
  Spec => []ReadsInBounds
<1>1. FilesInv => ReadsInBounds
  BY DEF FilesInv, ReaderInv
<1> QED BY <1>1, FilesInvariant, PTL

\* Nothing is reserved for more elements than the payload has bytes.
THEOREM ReservationsStayBounded ==
  Spec => []ReservationsBounded
<1>1. FilesInv => ReservationsBounded
  BY DEF FilesInv, ReaderInv
<1> QED BY <1>1, FilesInvariant, PTL

\* A write that returned Ok can be loaded, whatever came before it and across
\* a restart.
THEOREM AcknowledgedWritesLoad ==
  Spec => []AckedLoads
<1>1. ASSUME FilesInv PROVE AckedLoads
  <2> SUFFICES ASSUME acked # None PROVE acked \in Whole
    BY DEF AckedLoads
  <2>1. PICK d \in Document : d = acked /\ content = Written(d, Parts(d) + 1)
    BY <1>1 DEF FilesInv, DiskInv, AckedInv
  <2>2. content = Chunks(d)
    BY <2>1 DEF Written, Chunks
  <2>3. content # Absent
    BY <2>2, AbsentAssumption
  <2>4. \A i \in DOMAIN content : content[i].doc = d
    BY <2>2 DEF Chunks
  <2> QED BY <2>1, <2>2, <2>3, <2>4 DEF Whole
<1>2. FilesInv => AckedLoads
  BY <1>1
<1> QED BY <1>2, FilesInvariant, PTL

\* A relative URI without ".." goes one directory down with every segment.
LEMMA RelativeDepth ==
  ASSUME NEW u, u.segments \in Seq(STRING), RelativeUri(u)
  PROVE  Depth(u) >= 0
<1>0. PICK s \in Seq(STRING) : s = u.segments
  OBVIOUS
<1>1. PICK N \in Nat : s = u.segments /\ N = Len(s) /\ DOMAIN s = 1 .. N
  BY <1>0
<1>2. \A n \in 1 .. N : s[n] # ".."
  BY <1>1 DEF RelativeUri, ToSet
<1>3. ~ (u.rooted \/ HasColon(u.segments[1]))
  BY DEF RelativeUri
<1> DEFINE Eq(e) ==
      e = [n \in 0 .. N |->
             IF n = 0 THEN IF u.rooted \/ HasColon(u.segments[1]) THEN -1 ELSE 0
             ELSE IF e[n - 1] < 0 THEN e[n - 1]
             ELSE IF u.segments[n] = ".." THEN e[n - 1] - 1 ELSE e[n - 1] + 1]
<1>4. PICK g : g = [n \in 0 .. N |-> n]
  OBVIOUS
<1>5. Eq(g)
  <2> DEFINE F(n) == IF n = 0 THEN IF u.rooted \/ HasColon(u.segments[1]) THEN -1 ELSE 0
                     ELSE IF g[n - 1] < 0 THEN g[n - 1]
                     ELSE IF u.segments[n] = ".." THEN g[n - 1] - 1 ELSE g[n - 1] + 1
  <2>1. ASSUME NEW n \in 0 .. N PROVE F(n) = n
    <3>1. CASE n = 0
      BY <1>3, <3>1
    <3>2. CASE n # 0
      <4>1. n \in 1 .. N /\ n - 1 \in 0 .. N
        BY <3>2
      <4>2. g[n - 1] = n - 1 /\ u.segments[n] # ".."
        BY <1>1, <1>2, <1>4, <4>1
      <4> QED BY <3>2, <4>1, <4>2
    <3> QED BY <3>1, <3>2
  <2> HIDE DEF F
  <2>2. g = [n \in 0 .. N |-> F(n)]
    BY <1>4, <2>1
  <2> QED BY <2>2 DEF F
<1>6. PICK e : Eq(e) /\ Depth(u) = e[N]
  <2>1. PICK e : e = CHOOSE x : Eq(x)
    OBVIOUS
  <2>2. Eq(e)
    <3> HIDE DEF Eq
    <3> QED BY <1>5, <2>1
  <2>3. Depth(u) = e[N]
    BY <1>1, <2>1 DEF Depth
  <2> QED BY <2>2, <2>3
<1>7. \A n \in 0 .. N : e[n] \in Nat
  <2> DEFINE S == {n \in Nat : n <= N => e[n] \in Nat}
  <2>1. 0 \in S
    BY <1>3, <1>6
  <2>2. ASSUME NEW n \in Nat, n \in S PROVE n + 1 \in S
    <3>1. ASSUME n + 1 <= N PROVE e[n + 1] \in Nat
      <4>1. PICK m \in 1 .. N : m = n + 1
        BY <3>1
      <4>2. m \in 0 .. N /\ m # 0 /\ m - 1 = n /\ e[m - 1] \in Nat /\ u.segments[m] # ".."
        BY <1>1, <1>2, <2>2, <4>1
      <4>3. e[m] = e[m - 1] + 1
        BY <1>6, <4>2
      <4> QED BY <4>1, <4>2, <4>3
    <3> QED BY <3>1
  <2>3. \A n \in Nat : n \in S
    <3> HIDE DEF S
    <3> QED BY <2>1, <2>2, SetInduction
  <2> QED BY <2>3
<1> QED BY <1>6, <1>7

\* A manifest loaded through the portable gate refers to nothing outside of
\* the directory it was moved with (validate_portable).
THEOREM PortableManifestsStayInside ==
  Spec => []PortableStaysInside
<1>1. ASSUME FilesInv PROVE PortableStaysInside
  <2> SUFFICES ASSUME loaded # None, loaded.portable,
                      NEW i \in DOMAIN loaded.manifest.entries
               PROVE  /\ loaded.manifest.entries[i].ref.uri # None
                      /\ Depth(loaded.manifest.entries[i].ref.uri) >= 0
    BY DEF PortableStaysInside
  <2>1. PICK d \in Document, p \in BOOLEAN :
          /\ d.kind = "manifest"
          /\ loaded = [manifest |-> d.body, portable |-> p]
          /\ ValidManifest(d.body, p)
    BY <1>1 DEF FilesInv, LoadedInv
  <2>2. loaded.manifest = d.body /\ p /\ i \in DOMAIN d.body.entries
    BY <2>1
  <2>3. PICK u : u = d.body.entries[i].ref.uri
    OBVIOUS
  <2>4. u # None /\ RelativeUri(u)
    BY <2>1, <2>2, <2>3 DEF ValidManifest, PortableRef
  <2>5. u.segments \in Seq(STRING)
    BY <2>1, <2>2, <2>3, <2>4, DocumentAssumption
  <2>6. Depth(u) >= 0
    BY <2>4, <2>5, RelativeDepth
  <2> QED BY <2>2, <2>3, <2>4, <2>6
<1>2. FilesInv => PortableStaysInside
  BY <1>1
<1> QED BY <1>2, FilesInvariant, PTL

(***************************************************************************)
(* The reader finds what the writer wrote.                                 *)
(***************************************************************************)

\* One more of x.
LEMMA OneMore ==
  ASSUME NEW n \in Nat, n > 0, NEW x \in Nat
  PROVE  /\ (n - 1) * x \in Nat
         /\ n * x = (n - 1) * x + x
<1>1. PICK m \in Nat : m = n - 1
  OBVIOUS
<1>2. (m + 1) * x = m * x + x /\ m * x \in Nat
  OBVIOUS
<1> QED BY <1>1, <1>2

\* So many of x, and so many more.
LEMMA Distribute ==
  ASSUME NEW n \in Nat, NEW m \in Nat, NEW x \in Nat
  PROVE  (n + m) * x = n * x + m * x
OBVIOUS

\* A text takes the four bytes of its length at least.
LEMMA FourAtLeast ==
  ASSUME NEW n \in Nat, NEW t \in Nat
  PROVE  n * (4 + t) \in Nat /\ n * 4 <= n * (4 + t)
<1>1. n * (4 + t) = n * 4 + n * t
  OBVIOUS
<1>2. n * t \in Nat
  OBVIOUS
<1> QED BY <1>1, <1>2

\* What is left of a buffer: names and ids, columns, masks.
Rest(texts, columns, masks, rows) ==
  texts * (4 + TextLen) + columns * (rows * 8) + masks * rows

\* x bytes follow the head of buffer b, and they are enough for the counts that
\* are checked with the head.
Spans(b, r, f, v, x) ==
  /\ x \in Nat
  /\ BufferBytes(b) = 17 + 2 * TextLen + x
  /\ f * 4 <= x /\ r * 4 <= x
  /\ r * f \in Nat /\ (r * f) * (8 + v) \in Nat
  /\ (r * f) * (8 + v) <= x /\ r * f <= x

\* A buffer is its head and the rest.
LEMMA BufferSpan ==
  ASSUME NEW b \in BufferShape, NEW r \in Nat, NEW f \in Nat, NEW v \in {0, 1}, NEW m,
         r = b.rows, f = b.features, v = b.validity, m = IF v = 1 THEN f ELSE 0
  PROVE  Spans(b, r, f, v, Rest(f + r, f, m, r))
<1>1. PICK T \in Nat : T = TextLen
  BY SizesAssumption
<1>2. PICK p \in Nat : p = r * f /\ f * r = p /\ f * (r * 8) = p * 8
  <2>1. r * f \in Nat /\ f * r = r * f /\ f * (r * 8) = (r * f) * 8
    OBVIOUS
  <2> QED BY <2>1
<1>3. PICK q \in Nat : q = (f + r) * (4 + T) /\ f * 4 <= q /\ r * 4 <= q
  <2>1. (f + r) * (4 + T) = f * (4 + T) + r * (4 + T)
    <3>1. PICK w \in Nat : w = 4 + T
      OBVIOUS
    <3>2. (f + r) * w = f * w + r * w
      BY Distribute
    <3> QED BY <3>1, <3>2
  <2>2. PICK i \in Nat, j \in Nat : i = f * (4 + T) /\ j = r * (4 + T)
                                  /\ f * 4 <= i /\ r * 4 <= j
    BY FourAtLeast
  <2> QED BY <2>1, <2>2
<1>4. PICK x, y : x = Rest(f + r, f, m, r) /\ y = BufferBytes(b)
  OBVIOUS
<1>5. y = 2 * (4 + T) + 9 + q + p * (8 + v)
  BY <1>1, <1>2, <1>3, <1>4 DEF BufferBytes
<1>6. /\ x = q + p * (8 + v) /\ p * (8 + v) \in Nat /\ p <= p * (8 + v)
  <2>1. CASE v = 0
    <3>1. m = 0 /\ m * r = 0 /\ p * (8 + v) = p * 8
      BY <2>1
    <3> QED BY <1>1, <1>2, <1>3, <1>4, <3>1 DEF Rest
  <2>2. CASE v = 1
    <3>1. m = f /\ m * r = p /\ p * (8 + v) = p * 8 + p
      BY <1>2, <2>2
    <3> QED BY <1>1, <1>2, <1>3, <1>4, <3>1 DEF Rest
  <2> QED BY <2>1, <2>2
<1>7. PICK z \in Nat : z = p * (8 + v)
  BY <1>6
<1>8. /\ x \in Nat /\ y = 17 + 2 * T + x
      /\ f * 4 <= x /\ r * 4 <= x /\ z <= x /\ p <= x
  BY <1>3, <1>5, <1>6, <1>7
<1> QED BY <1>1, <1>2, <1>4, <1>6, <1>7, <1>8 DEF Spans

\* The payload has room for as many buffers as it says.
LEMMA EndsAtLeast ==
  ASSUME NEW store \in Seq(BufferShape)
  PROVE  HeaderLen + Len(store) * MinBufferBytes <= Ends(store)[Len(store)]
<1>1. PICK N, e : N \in Nat /\ N = Len(store) /\ e = Ends(store)
  OBVIOUS
<1> N \in Nat
  BY <1>1
<1>2. /\ e \in [0 .. N -> Nat] /\ e[0] = HeaderLen
      /\ \A n \in 1 .. N : e[n] = e[n - 1] + BufferBytes(store[n])
  BY <1>1, EndsAre
<1>3. ASSUME NEW b \in BufferShape PROVE BufferBytes(b) \in Nat /\ BufferBytes(b) >= 17
  <2>1. PICK r \in Nat, f \in Nat, v \in {0, 1}, m \in Nat :
          r = b.rows /\ f = b.features /\ v = b.validity /\ m = IF v = 1 THEN f ELSE 0
    BY DEF BufferShape
  <2>2. PICK x \in Nat : BufferBytes(b) = 17 + 2 * TextLen + x
    <3>1. Spans(b, r, f, v, Rest(f + r, f, m, r))
      BY <2>1, BufferSpan
    <3> QED BY <3>1 DEF Spans
  <2> QED BY <2>2, SizesAssumption
<1> DEFINE S == {n \in Nat : n <= N => 12 + n * 17 <= e[n]}
<1>4. 0 \in S
  BY <1>2 DEF HeaderLen
<1>5. ASSUME NEW n \in Nat, n \in S PROVE n + 1 \in S
  <2>1. ASSUME n + 1 <= N PROVE 12 + (n + 1) * 17 <= e[n + 1]
    <3>1. PICK m \in 1 .. N : m = n + 1
      BY <2>1
    <3>2. PICK x \in Nat : x = BufferBytes(store[m]) /\ x >= 17
      BY <1>1, <1>3
    <3>3. m - 1 = n /\ e[n] \in Nat /\ 12 + n * 17 <= e[n]
      BY <1>2, <1>5, <3>1
    <3>4. e[m] = e[n] + x
      BY <1>2, <3>1, <3>2, <3>3
    <3>5. 12 + m * 17 <= e[m]
      BY <3>1, <3>2, <3>3, <3>4
    <3> QED BY <3>1, <3>5
  <2> QED BY <2>1
<1>6. \A n \in Nat : n \in S
  <2> HIDE DEF S
  <2> QED BY <1>4, <1>5, SetInduction
<1>7. 12 + N * 17 <= e[N]
  BY <1>6
<1> QED BY <1>1, <1>7 DEF HeaderLen, MinBufferBytes

\* Field j of buffer k, in the fields of the whole store.
LEMMA FieldAt ==
  ASSUME NEW store \in Seq(BufferShape), NEW k \in 1 .. Len(store),
         NEW j \in 1 .. Len(BufferFields(store[k]))
  PROVE  FieldsUpTo(store)[Len(store)][Len(FieldsUpTo(store)[k - 1]) + j]
           = BufferFields(store[k])[j]
<1>1. PICK N, g, b : N \in Nat /\ N = Len(store) /\ g = FieldsUpTo(store) /\ b = BufferFields(store[k])
  OBVIOUS
<1> N \in Nat
  BY <1>1
<1>2. g \in [0 .. N -> Seq(Nat)] /\ g[k] = g[k - 1] \o b /\ b \in Seq(Nat)
  <2>1. store[k] \in BufferShape
    OBVIOUS
  <2>2. b \in Seq(Nat)
    BY <1>1, <2>1, FieldsOfBuffer
  <2> QED BY <1>1, <2>2, FieldsAre
<1>3. PICK s \in Seq(Nat), t \in Seq(Nat), w \in Seq(Nat) :
        s = g[k - 1] /\ t = g[k] /\ w = g[N]
  <2>1. k - 1 \in 0 .. N /\ k \in 0 .. N /\ N \in 0 .. N
    BY <1>1
  <2> QED BY <1>2, <2>1
<1>4. Joined(t, s, b, Len(s), Len(b))
  BY <1>2, <1>3, Concatenated
<1>5. StartsWith(w, t)
  <2>1. k \in 0 .. N /\ N \in k .. N
    BY <1>1
  <2> QED BY <1>1, <1>3, <2>1, FieldsGrow
<1>6. PICK p \in Nat, q \in Nat : p = Len(s) /\ q = Len(b) /\ j \in 1 .. q
  BY <1>1, <1>2
<1>7. Len(t) = p + q /\ p + j \in 1 .. p + q /\ ~ (p + j <= p) /\ (p + j) - p = j
  BY <1>4, <1>6 DEF Joined
<1>8. t[p + j] = b[(p + j) - p]
  BY <1>4, <1>6, <1>7 DEF Joined
<1>9. w[p + j] = t[p + j]
  BY <1>5, <1>7 DEF StartsWith
<1> QED BY <1>1, <1>3, <1>6, <1>7, <1>8, <1>9

\* The first k buffers of the store, and no more.
FirstBuffers(st, k, g) ==
  g \in Seq(BufferShape) /\ Len(g) = k /\ \A i \in 1 .. k : g[i] = st[i]

\* A reader that has read k buffers.
Between(st, k, rd) ==
  /\ rd.buffers = Len(st) - k
  /\ rd.cursor = Ends(st)[k]
  /\ rd.field = Len(FieldsUpTo(st)[k]) + 1
  /\ FirstBuffers(st, k, rd.got)

\* A reader in buffer k, with its head behind it.
Within(st, k, rd) ==
  /\ rd.buffers = Len(st) - k + 1
  /\ rd.cur = <<st[k].rows, st[k].features, st[k].validity>>
  /\ rd.texts <= st[k].features + st[k].rows
  /\ rd.field + rd.texts = Len(FieldsUpTo(st)[k]) + 1
  /\ rd.cursor + Rest(rd.texts, rd.columns, rd.masks, st[k].rows) = Ends(st)[k]
  /\ FirstBuffers(st, k - 1, rd.got)

\* A reader of the store st, which has not refused anything of it.
ReadsBack(st, rd) ==
  \/ rd.pc = "open"
  \/ rd.pc = "buffer" /\ \E k \in 0 .. Len(st) : Between(st, k, rd)
  \/ rd.pc = "texts" /\ \E k \in 1 .. Len(st) : Within(st, k, rd)
  \/ rd.pc = "accepted" /\ rd.got = st

\* The file holds the store st, which was in memory when it was written.
Holds(st) ==
  /\ file = Serialized(st)
  /\ file.end <= UsizeMax
  /\ file.fields # Foreign

\* Buffer k, its bytes and its fields.
LEMMA AtBuffer ==
  ASSUME NEW st \in Seq(BufferShape), NEW k \in 1 .. Len(st), Holds(st), NEW b, b = st[k]
  PROVE  /\ b \in BufferShape
         /\ Ends(st)[k - 1] \in Nat /\ Ends(st)[k] \in Nat
         /\ Ends(st)[k] = Ends(st)[k - 1] + BufferBytes(b)
         /\ Ends(st)[k] <= file.end
         /\ Len(FieldsUpTo(st)[k - 1]) \in Nat
         /\ Len(FieldsUpTo(st)[k]) = Len(FieldsUpTo(st)[k - 1]) + 5 + b.features + b.rows
         /\ Len(BufferFields(b)) = 5 + b.features + b.rows
<1>1. PICK N, e, g, c : /\ N \in Nat
                        /\ N = Len(st) /\ e = Ends(st) /\ g = FieldsUpTo(st)
                        /\ c = BufferFields(b)
  OBVIOUS
<1> N \in Nat
  BY <1>1
<1>2. b \in BufferShape
  OBVIOUS
<1>3. k - 1 \in 0 .. N /\ k \in 0 .. N /\ k \in 1 .. N /\ N \in k .. N
  BY <1>1
<1>4. e[k - 1] \in Nat /\ e[k] \in Nat /\ e[k] = e[k - 1] + BufferBytes(b)
  <2>1. /\ e \in [0 .. N -> Nat]
        /\ \A n \in 1 .. N : e[n] = e[n - 1] + BufferBytes(st[n])
    BY <1>1, EndsAre
  <2> QED BY <1>3, <2>1
<1>5. e[k] <= file.end
  <2>1. file.end = e[N]
    BY <1>1, SerializedTyped DEF Holds
  <2>2. \A n \in k .. N : e[k] <= e[n]
    BY <1>1, <1>3, EndsGrow
  <2> QED BY <1>3, <2>1, <2>2
<1>6. c \in Seq(Nat) /\ Len(c) = 5 + b.features + b.rows
  BY <1>1, <1>2, FieldsOfBuffer
<1>7. /\ g[k - 1] \in Seq(Nat) /\ g[k] \in Seq(Nat) /\ g[k] = g[k - 1] \o c
  <2>1. /\ g \in [0 .. N -> Seq(Nat)]
        /\ \A n \in 1 .. N : g[n] = g[n - 1] \o BufferFields(st[n])
    BY <1>1, FieldsAre
  <2> QED BY <1>1, <1>3, <2>1
<1>8. PICK s \in Seq(Nat), t \in Seq(Nat) : s = g[k - 1] /\ t = g[k]
  BY <1>7
<1>9. PICK r \in Nat, f \in Nat : r = b.rows /\ f = b.features
  BY <1>2 DEF BufferShape
<1>10. Len(t) = Len(s) + 5 + f + r /\ Len(s) \in Nat
  <2>1. Joined(t, s, c, Len(s), Len(c))
    BY <1>6, <1>7, <1>8, Concatenated
  <2>2. Len(t) = Len(s) + Len(c) /\ Len(c) = 5 + f + r /\ Len(s) \in Nat
    BY <1>6, <1>9, <2>1 DEF Joined
  <2> QED BY <2>2
<1> QED BY <1>1, <1>2, <1>4, <1>5, <1>6, <1>8, <1>9, <1>10

\* What the reader finds at a field of buffer k.
LEMMA FieldIs ==
  ASSUME NEW st \in Seq(BufferShape), Holds(st), NEW k \in 1 .. Len(st),
         NEW j \in 1 .. Len(BufferFields(st[k])), NEW i \in Nat, NEW x \in Field(i),
         reader.field + i = Len(FieldsUpTo(st)[k - 1]) + j
  PROVE  x = BufferFields(st[k])[j]
<1>1. PICK w : w = file.fields
  OBVIOUS
<1>2. w = FieldsUpTo(st)[Len(st)] /\ w # Foreign
  BY <1>1, SerializedTyped DEF Holds
<1>3. x = w[reader.field + i]
  BY <1>1, <1>2 DEF Field
<1>4. FieldsUpTo(st)[Len(st)][Len(FieldsUpTo(st)[k - 1]) + j] = BufferFields(st[k])[j]
  BY FieldAt
<1> QED BY <1>2, <1>3, <1>4

\* A length with room for it is accepted.
LEMMA EnsureFits ==
  ASSUME NEW z \in Nat, z = file.end, NEW c \in Nat, NEW n \in Nat, c + n <= z
  PROVE  Ensure(c, n)
BY DEF Ensure

\* The count of buffers is the store's, and the payload has room for it.
LEMMA OpenReadsBack ==
  ASSUME ReaderInv, NEW st \in Seq(BufferShape), Holds(st), Open,
         NEW nx, nx = reader'
  PROVE  ReadsBack(st, nx)
<1>1. PICK N, e, g : N \in Nat /\ N = Len(st) /\ e = Ends(st) /\ g = FieldsUpTo(st)
  OBVIOUS
<1> N \in Nat
  BY <1>1
<1>2. reader = Start
  BY DEF Open, ReaderInv, OpensAtStart
<1>3. PICK n \in Field(0) :
        IF OpenAccepts(n)
        THEN reader' = [reader EXCEPT !.pc = "buffer", !.field = @ + 1,
                                      !.buffers = n, !.reserved = Reserved(n)]
        ELSE Refuse
  BY DEF Open
<1>4. g[0] = <<N>> /\ e[0] = HeaderLen /\ e \in [0 .. N -> Nat] /\ g \in [0 .. N -> Seq(Nat)]
  BY <1>1, EndsAre, FieldsAre
<1>5. file.fields = g[N] /\ file.end = e[N] /\ file.head = "ok" /\ file.fields # Foreign
  BY <1>1, SerializedTyped DEF Holds
<1>6. n = N
  <2>1. reader.field + 0 = 1
    BY <1>2 DEF Start
  <2>2. n = g[N][1]
    BY <1>5, <2>1 DEF Field
  <2>3. StartsWith(g[N], g[0])
    <3>1. 0 \in 0 .. N /\ N \in 0 .. N
      OBVIOUS
    <3> QED BY <1>1, <3>1, FieldsGrow
  <2>4. PICK s, t : s = g[0] /\ t = g[N]
    OBVIOUS
  <2>5. s = <<N>> /\ Len(s) = 1 /\ s[1] = N
    BY <1>4, <2>4
  <2>6. t[1] = s[1]
    BY <2>3, <2>4, <2>5 DEF StartsWith
  <2> QED BY <2>2, <2>4, <2>5, <2>6
<1>7. OpenAccepts(n)
  <2>1. 12 + N * 17 <= file.end /\ file.end \in Nat /\ file.end <= UsizeMax
    <3>1. HeaderLen + N * MinBufferBytes <= e[N]
      BY <1>1, EndsAtLeast
    <3>2. file.end <= UsizeMax /\ file.end \in Nat
      BY DEF Holds, ReaderInv, FileTyped
    <3> QED BY <1>5, <3>1, <3>2 DEF HeaderLen, MinBufferBytes
  <2> QED BY <1>5, <1>6, <2>1, SizesAssumption
          DEF OpenAccepts, CountFits, Ensure, HeaderLen, MinBufferBytes
<1>8. PICK rd, v : rd = reader /\ v = Reserved(n)
  OBVIOUS
<1>9. nx = [rd EXCEPT !.pc = "buffer", !.field = @ + 1, !.buffers = n, !.reserved = v]
  BY <1>3, <1>7, <1>8
<1>10. Shape(rd) /\ rd.cursor = HeaderLen /\ rd.field = 1 /\ rd.got = << >>
  BY <1>2, <1>8 DEF Start, ReaderInv, ReaderTyped
<1>11. /\ nx.pc = "buffer" /\ nx.cursor = HeaderLen /\ nx.field = rd.field + 1
       /\ nx.buffers = n /\ nx.got = << >>
  BY <1>9, <1>10 DEF Shape
<1>12. Between(st, 0, nx)
  <2>1. nx.buffers = Len(st) - 0 /\ nx.cursor = Ends(st)[0]
    BY <1>1, <1>4, <1>6, <1>11
  <2>2. nx.field = Len(FieldsUpTo(st)[0]) + 1
    <3>1. PICK s : s = g[0]
      OBVIOUS
    <3>2. Len(s) = 1
      BY <1>4, <3>1
    <3> QED BY <1>1, <1>10, <1>11, <3>1, <3>2
  <2>3. FirstBuffers(st, 0, nx.got)
    BY <1>11 DEF FirstBuffers
  <2> QED BY <2>1, <2>2, <2>3 DEF Between
<1>13. 0 \in 0 .. Len(st)
  BY <1>1
<1> QED BY <1>11, <1>12, <1>13 DEF ReadsBack

\* The head of a buffer is accepted.
LEMMA BufferReadsBack ==
  ASSUME ReaderInv, NEW st \in Seq(BufferShape), Holds(st), Buffer,
         ReadsBack(st, reader), NEW nx, nx = reader'
  PROVE  ReadsBack(st, nx)
<1>1. PICK rd : rd = reader
  OBVIOUS
<1>2. Shape(rd) /\ Types(rd) /\ rd.pc = "buffer" /\ rd.buffers > 0
  BY <1>1 DEF ReaderInv, ReaderTyped, Buffer
<1>3. PICK j \in 0 .. Len(st) : Between(st, j, rd)
  BY <1>1, <1>2 DEF ReadsBack
<1>4. PICK k \in 1 .. Len(st), h \in BufferShape : k = j + 1 /\ k - 1 = j /\ h = st[k]
  BY <1>2, <1>3 DEF Between
<1>5. PICK a \in Field(0), b \in Field(1), rows \in Field(2), features \in Field(3),
           validity \in Field(4) :
        LET c == reader.cursor
            d == c + 8 + a + b
        IN IF /\ TextAccepts(c, a) /\ TextAccepts(c + 4 + a, b)
              /\ HeadAccepts(d, rows, features, validity)
           THEN reader' = [reader EXCEPT
                  !.pc = "texts", !.cursor = d + 9, !.field = @ + 5,
                  !.cur = <<rows, features, validity>>,
                  !.texts = features + rows, !.columns = features,
                  !.masks = IF validity = 1 THEN features ELSE 0,
                  !.reserved = Reserved(IF rows > features THEN rows ELSE features)]
           ELSE Refuse
  BY DEF Buffer
<1>6. /\ h \in BufferShape /\ Ends(st)[k - 1] \in Nat
      /\ Ends(st)[k] = Ends(st)[k - 1] + BufferBytes(h)
      /\ Ends(st)[k] <= file.end
      /\ Len(FieldsUpTo(st)[k - 1]) \in Nat
      /\ Len(FieldsUpTo(st)[k]) = Len(FieldsUpTo(st)[k - 1]) + 5 + h.features + h.rows
      /\ Len(BufferFields(h)) = 5 + h.features + h.rows
  BY <1>4, AtBuffer
<1>7. PICK r \in Nat, f \in Nat, v \in {0, 1}, m \in Nat :
        /\ r = h.rows /\ f = h.features /\ v = h.validity
        /\ m = IF v = 1 THEN f ELSE 0
  BY <1>6 DEF BufferShape
<1>8. a = TextLen /\ b = TextLen /\ rows = r /\ features = f /\ validity = v
  <2>1. reader.field = Len(FieldsUpTo(st)[k - 1]) + 1
    BY <1>1, <1>3, <1>4 DEF Between
  <2>2. PICK p \in Nat : p = Len(FieldsUpTo(st)[k - 1])
    BY <1>6
  <2>3. /\ reader.field + 0 = p + 1 /\ reader.field + 1 = p + 2
        /\ reader.field + 2 = p + 3 /\ reader.field + 3 = p + 4
        /\ reader.field + 4 = p + 5
    BY <2>1, <2>2
  <2>4. 1 .. 5 \subseteq 1 .. Len(BufferFields(st[k]))
    <3>1. Len(BufferFields(st[k])) = 5 + f + r
      BY <1>4, <1>6, <1>7
    <3> QED BY <3>1
  <2>5. PICK w : w = BufferFields(st[k])
    OBVIOUS
  <2>6. a = w[1] /\ b = w[2]
    BY <2>2, <2>3, <2>4, <2>5, FieldIs
  <2>7. rows = w[3] /\ features = w[4] /\ validity = w[5]
    BY <2>2, <2>3, <2>4, <2>5, FieldIs
  <2>8. w[1] = TextLen /\ w[2] = TextLen /\ w[3] = r /\ w[4] = f /\ w[5] = v
    BY <1>4, <1>6, <1>7, <2>5, FieldsOfBuffer
  <2> QED BY <2>6, <2>7, <2>8
<1>9. PICK T \in Nat, c \in Nat, z \in Nat : T = TextLen /\ c = rd.cursor /\ z = file.end
  BY <1>2, SizesAssumption DEF Types, ReaderInv, FileTyped
<1>10. PICK x \in Nat : x = Rest(f + r, f, m, r) /\ Spans(h, r, f, v, x)
  <2>1. Spans(h, r, f, v, Rest(f + r, f, m, r))
    BY <1>6, <1>7, BufferSpan
  <2>2. Rest(f + r, f, m, r) \in Nat
    BY <2>1 DEF Spans
  <2> QED BY <2>1, <2>2
<1>11. PICK d \in Nat : d = c + 8 + T + T
  BY <1>9
<1>12. d + 9 + x = Ends(st)[k] /\ d + 9 + x <= z /\ z <= UsizeMax
  <2>1. c = Ends(st)[k - 1]
    BY <1>3, <1>4, <1>9 DEF Between
  <2>2. BufferBytes(h) = 17 + 2 * T + x
    BY <1>9, <1>10 DEF Spans
  <2>3. Ends(st)[k] = c + (17 + 2 * T + x)
    BY <1>6, <2>1, <2>2
  <2>4. d + 9 + x = c + (17 + 2 * T + x)
    BY <1>11
  <2>5. Ends(st)[k] <= z /\ z <= UsizeMax
    BY <1>6, <1>9 DEF Holds
  <2> QED BY <2>3, <2>4, <2>5
<1>13. /\ TextAccepts(reader.cursor, a) /\ TextAccepts(reader.cursor + 4 + a, b)
       /\ HeadAccepts(reader.cursor + 8 + a + b, rows, features, validity)
  <2>1. PICK p \in Nat, q \in Nat :
          p = r * f /\ q = (r * f) * (8 + v) /\ q <= x /\ p <= x
    BY <1>10 DEF Spans
  <2>2. f * 4 <= x /\ r * 4 <= x /\ f * 4 \in Nat /\ r * 4 \in Nat
    BY <1>10 DEF Spans
  <2>3. ASSUME NEW i \in Nat, NEW n \in Nat, i + n <= d + 9 + x PROVE Ensure(i, n)
    BY <1>9, <1>12, <2>3, EnsureFits
  <2>4. Ensure(c, 4) /\ Ensure(c + 4, T) /\ Ensure(c + 4 + T, 4) /\ Ensure(c + 4 + T + 4, T)
    BY <1>11, <2>3
  <2>5. TextAccepts(c, T) /\ TextAccepts(c + 4 + T, T)
    BY <2>4 DEF TextAccepts
  <2>6. Ensure(d, 4) /\ Ensure(d + 4, 4) /\ Ensure(d + 8, 1)
    BY <2>3
  <2>7. Ensure(d + 9, f * 4) /\ Ensure(d + 9, r * 4) /\ Ensure(d + 9, q)
    BY <2>1, <2>2, <2>3
  <2>8. f * 4 <= UsizeMax /\ r * 4 <= UsizeMax /\ p <= UsizeMax /\ q <= UsizeMax
    BY <1>12, <2>1, <2>2, SizesAssumption
  <2>9. CountFits(d + 9, f, 4) /\ CountFits(d + 9, r, 4) /\ CountFits(d + 9, r * f, 8 + v)
    BY <2>1, <2>7, <2>8 DEF CountFits
  <2>10. HeadAccepts(d, r, f, v)
    BY <2>1, <2>6, <2>8, <2>9 DEF HeadAccepts
  <2>11. /\ reader.cursor = c /\ reader.cursor + 4 + a = c + 4 + T
         /\ reader.cursor + 8 + a + b = d
    BY <1>1, <1>8, <1>9, <1>11
  <2> QED BY <1>8, <1>9, <2>5, <2>10, <2>11
<1>14. PICK u, y : u = <<r, f, v>> /\ y = Reserved(IF r > f THEN r ELSE f)
  OBVIOUS
<1>15. nx = [rd EXCEPT !.pc = "texts", !.cursor = d + 9, !.field = @ + 5,
                       !.cur = u, !.texts = f + r, !.columns = f,
                       !.masks = m, !.reserved = y]
  BY <1>1, <1>5, <1>7, <1>8, <1>9, <1>11, <1>13, <1>14
<1>16. /\ nx.pc = "texts" /\ nx.cursor = d + 9 /\ nx.field = rd.field + 5
       /\ nx.buffers = rd.buffers /\ nx.cur = u /\ nx.texts = f + r
       /\ nx.columns = f /\ nx.masks = m /\ nx.got = rd.got
  BY <1>2, <1>15 DEF Shape
<1>17. Within(st, k, nx)
  <2>1. nx.buffers = Len(st) - k + 1 /\ FirstBuffers(st, k - 1, nx.got)
    BY <1>3, <1>4, <1>16 DEF Between
  <2>2. nx.cur = <<st[k].rows, st[k].features, st[k].validity>>
    BY <1>4, <1>7, <1>14, <1>16
  <2>3. nx.texts <= st[k].features + st[k].rows
    BY <1>4, <1>7, <1>16
  <2>4. nx.field + nx.texts = Len(FieldsUpTo(st)[k]) + 1
    <3>1. rd.field = Len(FieldsUpTo(st)[k - 1]) + 1
      BY <1>3, <1>4 DEF Between
    <3>2. PICK p \in Nat : p = Len(FieldsUpTo(st)[k - 1])
      BY <1>6
    <3>3. Len(FieldsUpTo(st)[k]) = p + 5 + f + r
      BY <1>6, <1>7, <3>2
    <3>4. nx.field = p + 1 + 5 /\ nx.texts = f + r
      BY <1>16, <3>1, <3>2
    <3> QED BY <3>3, <3>4
  <2>5. nx.cursor + Rest(nx.texts, nx.columns, nx.masks, st[k].rows) = Ends(st)[k]
    <3>1. Rest(nx.texts, nx.columns, nx.masks, st[k].rows) = x
      BY <1>4, <1>7, <1>10, <1>16
    <3> QED BY <1>12, <1>16, <3>1
  <2> QED BY <2>1, <2>2, <2>3, <2>4, <2>5 DEF Within
<1> QED BY <1>16, <1>17 DEF ReadsBack

\* A reader in a buffer, in numbers.
LEMMA InBuffer ==
  ASSUME ReaderInv, NEW st \in Seq(BufferShape), Holds(st), ReadsBack(st, reader),
         reader.pc = "texts"
  PROVE  \E k \in 1 .. Len(st), r \in Nat, f \in Nat, e \in Nat :
           /\ Within(st, k, reader)
           /\ st[k] \in BufferShape /\ r = st[k].rows /\ f = st[k].features
           /\ reader.cur[1] = r
           /\ e = Ends(st)[k] /\ e <= file.end /\ e <= UsizeMax
           /\ reader.cursor + Rest(reader.texts, reader.columns, reader.masks, r) = e
<1>1. PICK k \in 1 .. Len(st) : Within(st, k, reader)
  BY DEF ReadsBack
<1>2. st[k] \in BufferShape /\ Ends(st)[k] \in Nat /\ Ends(st)[k] <= file.end
  BY AtBuffer
<1>3. PICK r \in Nat, f \in Nat, e \in Nat :
        r = st[k].rows /\ f = st[k].features /\ e = Ends(st)[k]
  BY <1>2 DEF BufferShape
<1>4. e <= file.end /\ e <= UsizeMax
  BY <1>2, <1>3, SizesAssumption DEF Holds, ReaderInv, FileTyped
<1>5. reader.cur[1] = r
  <2>1. PICK u : u = reader.cur
    OBVIOUS
  <2>2. u = <<st[k].rows, st[k].features, st[k].validity>>
    BY <1>1, <2>1 DEF Within
  <2>3. u[1] = r
    BY <1>3, <2>2
  <2> QED BY <2>1, <2>3
<1>6. reader.cursor + Rest(reader.texts, reader.columns, reader.masks, r) = e
  BY <1>1, <1>3 DEF Within
<1> QED BY <1>1, <1>2, <1>3, <1>4, <1>5, <1>6

\* What one text, one column or one mask takes of the rest.
LEMMA RestShrinks ==
  ASSUME NEW t \in Nat, NEW q \in Nat, NEW m \in Nat, NEW r \in Nat
  PROVE  /\ Rest(t, q, m, r) \in Nat
         /\ t > 0 => /\ Rest(t - 1, q, m, r) \in Nat
                     /\ Rest(t, q, m, r) = Rest(t - 1, q, m, r) + 4 + TextLen
         /\ q > 0 => /\ Rest(t, q - 1, m, r) \in Nat
                     /\ Rest(t, q, m, r) = Rest(t, q - 1, m, r) + r * 8
         /\ m > 0 => /\ Rest(t, q, m - 1, r) \in Nat
                     /\ Rest(t, q, m, r) = Rest(t, q, m - 1, r) + r
<1>1. PICK w \in Nat, x \in Nat : w = 4 + TextLen /\ x = r * 8
  BY SizesAssumption
<1>2. t * w \in Nat /\ q * x \in Nat /\ m * r \in Nat
  OBVIOUS
<1>3. t > 0 => (t - 1) * w \in Nat /\ t * w = (t - 1) * w + w
  BY OneMore
<1>4. q > 0 => (q - 1) * x \in Nat /\ q * x = (q - 1) * x + x
  BY OneMore
<1>5. m > 0 => (m - 1) * r \in Nat /\ m * r = (m - 1) * r + r
  BY OneMore
<1>6. PICK a \in Nat, b \in Nat, c \in Nat : a = t * w /\ b = q * x /\ c = m * r
  BY <1>2
<1>7. Rest(t, q, m, r) = a + b + c
  BY <1>1, <1>6 DEF Rest
<1>8. ASSUME t > 0
      PROVE  /\ Rest(t - 1, q, m, r) \in Nat
             /\ Rest(t, q, m, r) = Rest(t - 1, q, m, r) + 4 + TextLen
  <2>1. PICK d \in Nat : d = (t - 1) * w /\ a = d + w
    BY <1>3, <1>6, <1>8
  <2>2. Rest(t - 1, q, m, r) = d + b + c
    BY <1>1, <1>6, <2>1 DEF Rest
  <2> QED BY <1>1, <1>7, <2>1, <2>2, SizesAssumption
<1>9. ASSUME q > 0
      PROVE  /\ Rest(t, q - 1, m, r) \in Nat
             /\ Rest(t, q, m, r) = Rest(t, q - 1, m, r) + r * 8
  <2>1. PICK d \in Nat : d = (q - 1) * x /\ b = d + x
    BY <1>4, <1>6, <1>9
  <2>2. Rest(t, q - 1, m, r) = a + d + c
    BY <1>1, <1>6, <2>1 DEF Rest
  <2> QED BY <1>1, <1>7, <2>1, <2>2
<1>10. ASSUME m > 0
       PROVE  /\ Rest(t, q, m - 1, r) \in Nat
              /\ Rest(t, q, m, r) = Rest(t, q, m - 1, r) + r
  <2>1. PICK d \in Nat : d = (m - 1) * r /\ c = d + r
    BY <1>5, <1>6, <1>10
  <2>2. Rest(t, q, m - 1, r) = a + b + d
    BY <1>1, <1>6, <2>1 DEF Rest
  <2> QED BY <1>7, <2>1, <2>2
<1> QED BY <1>7, <1>8, <1>9, <1>10

\* A name or an id of the writer is accepted.
LEMMA TextReadsBack ==
  ASSUME ReaderInv, NEW st \in Seq(BufferShape), Holds(st), Text,
         ReadsBack(st, reader), NEW nx, nx = reader'
  PROVE  ReadsBack(st, nx)
<1>1. PICK rd : rd = reader
  OBVIOUS
<1>2. Shape(rd) /\ Types(rd) /\ rd.pc = "texts" /\ rd.texts > 0
  BY <1>1 DEF ReaderInv, ReaderTyped, Text
<1>3. PICK k \in 1 .. Len(st), r \in Nat, f \in Nat, e \in Nat :
        /\ Within(st, k, rd)
        /\ st[k] \in BufferShape /\ r = st[k].rows /\ f = st[k].features
        /\ e = Ends(st)[k] /\ e <= file.end
        /\ rd.cursor + Rest(rd.texts, rd.columns, rd.masks, r) = e
  BY <1>1, <1>2, InBuffer
<1>4. PICK T \in Nat, c \in Nat, z \in Nat, t \in Nat, q \in Nat, m \in Nat :
        /\ T = TextLen /\ c = rd.cursor /\ z = file.end
        /\ t = rd.texts /\ q = rd.columns /\ m = rd.masks
  BY <1>2, SizesAssumption DEF Types, ReaderInv, FileTyped
<1>5. PICK len \in Field(0) :
        \/ /\ TextAccepts(reader.cursor, len)
           /\ reader' = [reader EXCEPT !.cursor = @ + 4 + len, !.field = @ + 1,
                                       !.texts = @ - 1]
        \/ ~ TextAccepts(reader.cursor, len) \/ file.fields = Foreign
  BY DEF Text
<1>6. len = T
  <2>1. PICK p \in Nat, i \in Nat : p = Len(FieldsUpTo(st)[k - 1]) /\ i = rd.field
    BY <1>2, AtBuffer DEF Types
  <2>2. Len(FieldsUpTo(st)[k]) = p + 5 + f + r /\ Len(BufferFields(st[k])) = 5 + f + r
    BY <1>3, <2>1, AtBuffer
  <2>3. i + t = (p + 5 + f + r) + 1 /\ t <= f + r
    BY <1>3, <1>4, <2>1, <2>2 DEF Within
  <2>4. PICK j \in 6 .. 5 + f + r : i + 0 = p + j
    <3>1. i - p \in 6 .. 5 + f + r /\ i + 0 = p + (i - p)
      BY <1>2, <1>4, <2>3
    <3> QED BY <3>1
  <2>5. j \in 1 .. Len(BufferFields(st[k]))
    BY <2>2, <2>4
  <2>6. len = BufferFields(st[k])[j]
    BY <1>1, <2>1, <2>4, <2>5, FieldIs
  <2>7. BufferFields(st[k])[j] = TextLen
    BY <1>3, <2>4, FieldsOfBuffer
  <2> QED BY <1>4, <2>6, <2>7
<1>7. PICK x \in Nat : x = Rest(t - 1, q, m, r) /\ c + (x + 4 + T) = e /\ e <= z
  <2>1. t > 0 /\ c + Rest(t, q, m, r) = e /\ e <= z
    BY <1>2, <1>3, <1>4
  <2>2. Rest(t - 1, q, m, r) \in Nat /\ Rest(t, q, m, r) = Rest(t - 1, q, m, r) + 4 + T
    <3>1. /\ Rest(t - 1, q, m, r) \in Nat
          /\ Rest(t, q, m, r) = Rest(t - 1, q, m, r) + 4 + TextLen
      BY <2>1, RestShrinks
    <3> QED BY <1>4, <3>1
  <2> QED BY <2>1, <2>2
<1>8. TextAccepts(reader.cursor, len)
  <2>1. c + 4 <= z /\ (c + 4) + T <= z
    <3>1. c \in Nat /\ z \in Nat /\ e \in Nat
      BY <1>3, <1>4
    <3> QED BY <1>7, <3>1
  <2>2. Ensure(c, 4) /\ Ensure(c + 4, T)
    BY <1>4, <2>1, EnsureFits
  <2> QED BY <1>1, <1>4, <1>6, <2>2 DEF TextAccepts
<1>9. nx = [rd EXCEPT !.cursor = @ + 4 + len, !.field = @ + 1, !.texts = @ - 1]
  BY <1>1, <1>5, <1>8 DEF Holds
<1>10. /\ nx.pc = "texts" /\ nx.cursor = rd.cursor + 4 + len /\ nx.field = rd.field + 1
       /\ nx.buffers = rd.buffers /\ nx.cur = rd.cur /\ nx.texts = rd.texts - 1
       /\ nx.columns = rd.columns /\ nx.masks = rd.masks /\ nx.got = rd.got
  BY <1>2, <1>9 DEF Shape
<1>11. Within(st, k, nx)
  <2>1. /\ nx.buffers = Len(st) - k + 1 /\ FirstBuffers(st, k - 1, nx.got)
        /\ nx.cur = <<st[k].rows, st[k].features, st[k].validity>>
    BY <1>3, <1>10 DEF Within
  <2>2. nx.texts <= st[k].features + st[k].rows
    <3>1. t <= f + r
      BY <1>3, <1>4 DEF Within
    <3>2. t - 1 <= f + r
      BY <3>1
    <3> QED BY <1>3, <1>4, <1>10, <3>2
  <2>3. nx.field + nx.texts = Len(FieldsUpTo(st)[k]) + 1
    <3>1. rd.field + rd.texts = Len(FieldsUpTo(st)[k]) + 1
      BY <1>3 DEF Within
    <3> QED BY <1>2, <1>10, <3>1 DEF Types
  <2>4. nx.cursor + Rest(nx.texts, nx.columns, nx.masks, st[k].rows) = Ends(st)[k]
    <3>1. Rest(nx.texts, nx.columns, nx.masks, st[k].rows) = x
      BY <1>3, <1>4, <1>7, <1>10
    <3>2. nx.cursor = c + 4 + T
      BY <1>4, <1>6, <1>10
    <3> QED BY <1>3, <1>7, <3>1, <3>2
  <2> QED BY <2>1, <2>2, <2>3, <2>4 DEF Within
<1> QED BY <1>10, <1>11 DEF ReadsBack

\* A column of the writer is accepted.
LEMMA ColumnReadsBack ==
  ASSUME ReaderInv, NEW st \in Seq(BufferShape), Holds(st), Column,
         ReadsBack(st, reader), NEW nx, nx = reader'
  PROVE  ReadsBack(st, nx)
<1>1. PICK rd : rd = reader
  OBVIOUS
<1>2. Shape(rd) /\ Types(rd) /\ rd.pc = "texts" /\ rd.columns > 0
  BY <1>1 DEF ReaderInv, ReaderTyped, Column
<1>3. PICK k \in 1 .. Len(st), r \in Nat, f \in Nat, e \in Nat :
        /\ Within(st, k, rd) /\ r = st[k].rows /\ rd.cur[1] = r
        /\ e = Ends(st)[k] /\ e <= file.end /\ e <= UsizeMax
        /\ rd.cursor + Rest(rd.texts, rd.columns, rd.masks, r) = e
  BY <1>1, <1>2, InBuffer
<1>4. PICK c \in Nat, z \in Nat, t \in Nat, q \in Nat, m \in Nat :
        /\ c = rd.cursor /\ z = file.end
        /\ t = rd.texts /\ q = rd.columns /\ m = rd.masks
  BY <1>2 DEF Types, ReaderInv, FileTyped
<1>5. PICK n \in Nat : n = r * 8
  OBVIOUS
<1>6. PICK x \in Nat : x = Rest(t, q - 1, m, r) /\ c + (x + n) = e /\ e <= z /\ e <= UsizeMax
  <2>1. q > 0 /\ c + Rest(t, q, m, r) = e /\ e <= z /\ e <= UsizeMax
    BY <1>2, <1>3, <1>4
  <2>2. Rest(t, q - 1, m, r) \in Nat /\ Rest(t, q, m, r) = Rest(t, q - 1, m, r) + n
    BY <1>5, <2>1, RestShrinks
  <2> QED BY <2>1, <2>2
<1>7. CountFits(reader.cursor, reader.cur[1], 8)
  <2>1. c + n <= z /\ n <= UsizeMax
    BY <1>6, SizesAssumption
  <2>2. Ensure(c, n)
    BY <1>4, <2>1, EnsureFits
  <2> QED BY <1>1, <1>3, <1>4, <1>5, <2>1, <2>2 DEF CountFits
<1>8. nx = [rd EXCEPT !.cursor = @ + n, !.columns = @ - 1]
  BY <1>1, <1>3, <1>5, <1>7 DEF Column
<1>9. /\ nx.pc = "texts" /\ nx.cursor = rd.cursor + n /\ nx.field = rd.field
      /\ nx.buffers = rd.buffers /\ nx.cur = rd.cur /\ nx.texts = rd.texts
      /\ nx.columns = rd.columns - 1 /\ nx.masks = rd.masks /\ nx.got = rd.got
  BY <1>2, <1>8 DEF Shape
<1>10. Within(st, k, nx)
  <2>1. nx.cursor + Rest(nx.texts, nx.columns, nx.masks, st[k].rows) = Ends(st)[k]
    <3>1. Rest(nx.texts, nx.columns, nx.masks, st[k].rows) = x
      BY <1>3, <1>4, <1>6, <1>9
    <3>2. nx.cursor = c + n
      BY <1>4, <1>9
    <3> QED BY <1>3, <1>6, <3>1, <3>2
  <2> QED BY <1>3, <1>9, <2>1 DEF Within
<1> QED BY <1>9, <1>10 DEF ReadsBack

\* A mask of the writer is accepted.
LEMMA MaskReadsBack ==
  ASSUME ReaderInv, NEW st \in Seq(BufferShape), Holds(st), Mask,
         ReadsBack(st, reader), NEW nx, nx = reader'
  PROVE  ReadsBack(st, nx)
<1>1. PICK rd : rd = reader
  OBVIOUS
<1>2. Shape(rd) /\ Types(rd) /\ rd.pc = "texts" /\ rd.masks > 0
  BY <1>1 DEF ReaderInv, ReaderTyped, Mask
<1>3. PICK k \in 1 .. Len(st), r \in Nat, f \in Nat, e \in Nat :
        /\ Within(st, k, rd) /\ r = st[k].rows /\ rd.cur[1] = r
        /\ e = Ends(st)[k] /\ e <= file.end
        /\ rd.cursor + Rest(rd.texts, rd.columns, rd.masks, r) = e
  BY <1>1, <1>2, InBuffer
<1>4. PICK c \in Nat, z \in Nat, t \in Nat, q \in Nat, m \in Nat :
        /\ c = rd.cursor /\ z = file.end
        /\ t = rd.texts /\ q = rd.columns /\ m = rd.masks
  BY <1>2 DEF Types, ReaderInv, FileTyped
<1>5. PICK x \in Nat : x = Rest(t, q, m - 1, r) /\ c + (x + r) = e /\ e <= z
  <2>1. m > 0 /\ c + Rest(t, q, m, r) = e /\ e <= z
    BY <1>2, <1>3, <1>4
  <2>2. Rest(t, q, m - 1, r) \in Nat /\ Rest(t, q, m, r) = Rest(t, q, m - 1, r) + r
    BY <2>1, RestShrinks
  <2> QED BY <2>1, <2>2
<1>6. Ensure(reader.cursor, reader.cur[1])
  <2>1. c + r <= z
    BY <1>5
  <2>2. Ensure(c, r)
    BY <1>4, <2>1, EnsureFits
  <2> QED BY <1>1, <1>3, <1>4, <2>2
<1>7. nx = [rd EXCEPT !.cursor = @ + r, !.masks = @ - 1]
  BY <1>1, <1>3, <1>6 DEF Mask, Holds
<1>8. /\ nx.pc = "texts" /\ nx.cursor = rd.cursor + r /\ nx.field = rd.field
      /\ nx.buffers = rd.buffers /\ nx.cur = rd.cur /\ nx.texts = rd.texts
      /\ nx.columns = rd.columns /\ nx.masks = rd.masks - 1 /\ nx.got = rd.got
  BY <1>2, <1>7 DEF Shape
<1>9. Within(st, k, nx)
  <2>1. nx.cursor + Rest(nx.texts, nx.columns, nx.masks, st[k].rows) = Ends(st)[k]
    <3>1. Rest(nx.texts, nx.columns, nx.masks, st[k].rows) = x
      BY <1>3, <1>4, <1>5, <1>8
    <3>2. nx.cursor = c + r
      BY <1>4, <1>8
    <3> QED BY <1>3, <1>5, <3>1, <3>2
  <2> QED BY <1>3, <1>8, <2>1 DEF Within
<1> QED BY <1>8, <1>9 DEF ReadsBack

\* One more buffer of the store.
LEMMA OneMoreBuffer ==
  ASSUME NEW st \in Seq(BufferShape), NEW k \in 1 .. Len(st), NEW g,
         FirstBuffers(st, k - 1, g)
  PROVE  FirstBuffers(st, k, Append(g, st[k]))
<1>1. PICK b \in BufferShape : b = st[k]
  OBVIOUS
<1>2. PICK h : h = Append(g, b)
  OBVIOUS
<1>3. /\ g \in Seq(BufferShape) /\ Len(g) = k - 1 /\ k \in Nat
      /\ \A i \in 1 .. k - 1 : g[i] = st[i]
  BY DEF FirstBuffers
<1>4. h \in Seq(BufferShape) /\ Len(h) = k
  BY <1>2, <1>3
<1>5. ASSUME NEW i \in 1 .. k PROVE h[i] = st[i]
  <2>1. CASE i = k
    BY <1>1, <1>2, <1>3, <2>1
  <2>2. CASE i # k
    <3>1. i \in 1 .. k - 1
      BY <1>3, <2>2
    <3>2. h[i] = g[i]
      BY <1>2, <1>3, <3>1
    <3> QED BY <1>3, <3>1, <3>2
  <2> QED BY <2>1, <2>2
<1> QED BY <1>1, <1>2, <1>4, <1>5 DEF FirstBuffers

\* A buffer that was read is the buffer that was written.
LEMMA BufferEndReadsBack ==
  ASSUME ReaderInv, NEW st \in Seq(BufferShape), Holds(st), BufferEnd,
         ReadsBack(st, reader), NEW nx, nx = reader'
  PROVE  ReadsBack(st, nx)
<1>1. PICK rd : rd = reader
  OBVIOUS
<1>2. /\ Shape(rd) /\ Types(rd) /\ rd.pc = "texts"
      /\ rd.texts = 0 /\ rd.columns = 0 /\ rd.masks = 0
  BY <1>1 DEF ReaderInv, ReaderTyped, BufferEnd
<1>3. PICK k \in 1 .. Len(st), r \in Nat, f \in Nat, e \in Nat :
        /\ Within(st, k, rd) /\ st[k] \in BufferShape /\ e = Ends(st)[k]
        /\ rd.cursor + Rest(rd.texts, rd.columns, rd.masks, r) = e
  BY <1>1, <1>2, InBuffer
<1>4. PICK b \in BufferShape : b = st[k]
  BY <1>3
<1>5. b = [rows |-> rd.cur[1], features |-> rd.cur[2], validity |-> rd.cur[3]]
  <2>1. PICK u : u = rd.cur
    OBVIOUS
  <2>2. u = <<b.rows, b.features, b.validity>>
    BY <1>3, <1>4, <2>1 DEF Within
  <2>3. u[1] = b.rows /\ u[2] = b.features /\ u[3] = b.validity
    BY <2>2
  <2>4. b = [rows |-> b.rows, features |-> b.features, validity |-> b.validity]
    BY DEF BufferShape
  <2> QED BY <2>1, <2>3, <2>4
<1>6. PICK g : g = Append(rd.got, b)
  OBVIOUS
<1>7. nx = [rd EXCEPT !.pc = "buffer", !.buffers = @ - 1, !.got = g]
  BY <1>1, <1>5, <1>6 DEF BufferEnd
<1>8. /\ nx.pc = "buffer" /\ nx.cursor = rd.cursor /\ nx.field = rd.field
      /\ nx.buffers = rd.buffers - 1 /\ nx.got = g
  BY <1>2, <1>7 DEF Shape
<1>9. Between(st, k, nx)
  <2>1. nx.buffers = Len(st) - k
    <3>1. rd.buffers = Len(st) - k + 1
      BY <1>3 DEF Within
    <3> QED BY <1>8, <3>1
  <2>2. nx.cursor = Ends(st)[k]
    <3>1. Rest(0, 0, 0, r) = 0
      BY SizesAssumption DEF Rest
    <3>2. rd.cursor \in Nat /\ rd.cursor + 0 = e
      BY <1>2, <1>3, <3>1 DEF Types
    <3> QED BY <1>3, <1>8, <3>2
  <2>3. nx.field = Len(FieldsUpTo(st)[k]) + 1
    <3>1. rd.field + 0 = Len(FieldsUpTo(st)[k]) + 1 /\ rd.field \in Nat
      BY <1>2, <1>3 DEF Within, Types
    <3> QED BY <1>8, <3>1
  <2>4. FirstBuffers(st, k, nx.got)
    <3>1. FirstBuffers(st, k - 1, rd.got)
      BY <1>3 DEF Within
    <3> QED BY <1>4, <1>6, <1>8, <3>1, OneMoreBuffer
  <2> QED BY <2>1, <2>2, <2>3, <2>4 DEF Between
<1>10. k \in 0 .. Len(st)
  OBVIOUS
<1> QED BY <1>8, <1>9, <1>10 DEF ReadsBack

\* The file ends where the last buffer does.
LEMMA FinishReadsBack ==
  ASSUME ReaderInv, NEW st \in Seq(BufferShape), Holds(st), Finish,
         ReadsBack(st, reader), NEW nx, nx = reader'
  PROVE  ReadsBack(st, nx)
<1>1. PICK rd : rd = reader
  OBVIOUS
<1>2. Shape(rd) /\ rd.pc = "buffer" /\ rd.buffers = 0
  BY <1>1 DEF ReaderInv, ReaderTyped, Finish
<1>3. PICK k \in 0 .. Len(st) : Between(st, k, rd)
  BY <1>1, <1>2 DEF ReadsBack
<1>4. k = Len(st)
  BY <1>2, <1>3 DEF Between
<1>5. reader.cursor = file.end
  <2>1. file.end = Ends(st)[Len(st)]
    BY SerializedTyped DEF Holds
  <2> QED BY <1>1, <1>3, <1>4, <2>1 DEF Between
<1>6. rd.got = st
  <2>1. PICK g : g = rd.got
    OBVIOUS
  <2>2. /\ g \in Seq(BufferShape) /\ Len(g) = Len(st)
        /\ \A i \in 1 .. Len(st) : g[i] = st[i]
    BY <1>3, <1>4, <2>1 DEF Between, FirstBuffers
  <2>3. g = st
    BY <2>2
  <2> QED BY <2>1, <2>3
<1>7. StoreAccepts(reader.got)
  <2>1. ASSUME NEW i \in DOMAIN st PROVE ValidDimensions(st[i])
    <3>1. st[i] \in BufferShape
      OBVIOUS
    <3>2. PICK r \in Nat \ {0}, f \in Nat \ {0} : r = st[i].rows /\ f = st[i].features
      BY <3>1 DEF BufferShape
    <3> QED BY <3>2 DEF ValidDimensions
  <2> QED BY <1>1, <1>6, <2>1 DEF StoreAccepts
<1>8. nx = [rd EXCEPT !.pc = "accepted"]
  BY <1>1, <1>5, <1>7 DEF Finish, Holds
<1>9. nx.pc = "accepted" /\ nx.got = rd.got
  BY <1>2, <1>8 DEF Shape
<1> QED BY <1>6, <1>9 DEF ReadsBack

\* A file the writer made is being read as the store it holds.
ReadBackInv ==
  reader.pc # "idle" /\ file.fields # Foreign /\ file.head = "ok" =>
    \E st \in Seq(BufferShape) : Holds(st) /\ ReadsBack(st, reader)

\* Every step of the reader.
LEMMA ReadReadsBack ==
  ASSUME ReaderInv, ReadBackInv, Read
  PROVE  ReadBackInv'
<1>1. file' = file /\ reader.pc # "idle"
  BY DEF Read, Open, Buffer, Text, Column, Mask, BufferEnd, Finish
<1>2. SUFFICES ASSUME file.fields # Foreign, file.head = "ok"
               PROVE  \E st \in Seq(BufferShape) : Holds(st)' /\ ReadsBack(st, reader)'
  BY <1>1 DEF ReadBackInv
<1>3. PICK st \in Seq(BufferShape) : Holds(st) /\ ReadsBack(st, reader)
  BY <1>1, <1>2 DEF ReadBackInv
<1>4. PICK nx : nx = reader'
  OBVIOUS
<1>5. ReadsBack(st, nx)
  BY <1>3, <1>4, OpenReadsBack, BufferReadsBack, TextReadsBack, ColumnReadsBack,
     MaskReadsBack, BufferEndReadsBack, FinishReadsBack DEF Read
<1>6. ReadsBack(st, reader)'
  BY <1>4, <1>5
<1>7. Holds(st)'
  BY <1>1, <1>3 DEF Holds, Serialized
<1> QED BY <1>6, <1>7

\* Every step of the program.
LEMMA ReadBackStep ==
  ASSUME ReaderInv, DiskInv, ReadBackInv, [Next]_vars
  PROVE  ReadBackInv'
<1>1. ASSUME UNCHANGED <<file, reader>> PROVE ReadBackInv'
  <2>1. ASSUME NEW st, Holds(st), ReadsBack(st, reader)
        PROVE  Holds(st)' /\ ReadsBack(st, reader)'
    BY <1>1, <2>1 DEF Holds, Serialized
  <2> QED BY <1>1, <2>1 DEF ReadBackInv
<1>2. ASSUME NEW d \in Document, NEW p \in BOOLEAN, BeginWrite(d, p)
      PROVE  UNCHANGED <<file, reader>>
  BY <1>2 DEF BeginWrite
<1>3. ASSUME NEW f \in ForeignFile, Replace(f) PROVE UNCHANGED <<file, reader>>
  BY <1>3 DEF Replace
<1>4. ASSUME NEW p \in BOOLEAN, ReadManifest(p) PROVE UNCHANGED <<file, reader>>
  BY <1>4 DEF ReadManifest
<1>5. ASSUME WriteChunk \/ EndWrite \/ WriteFails \/ UNCHANGED vars
      PROVE  UNCHANGED <<file, reader>>
  BY <1>5 DEF WriteChunk, EndWrite, WriteFails, vars
<1>6. ASSUME Crash \/ ReadDone PROVE ReadBackInv'
  <2>1. reader'.pc = "idle"
    BY <1>6 DEF Crash, ReadDone, NotReading, Start
  <2> QED BY <2>1 DEF ReadBackInv
<1>7. ASSUME ReadStore PROVE ReadBackInv'
  <2>1. file' = Found /\ reader'.pc = "open"
    BY <1>7 DEF ReadStore, Start
  <2>2. CASE Found \in ForeignFile
    BY <2>1, <2>2, DocumentAssumption DEF ReadBackInv
  <2>3. ASSUME NEW d \in Document, d.kind = "store", Found = Serialized(d.body)
        PROVE  ReadBackInv'
    <3>1. PICK st \in Seq(BufferShape) : st = d.body /\ Serialized(st).end <= UsizeMax
      BY <2>3, DocumentAssumption
    <3>2. file'.fields # Foreign => Holds(st)'
      BY <2>1, <2>3, <3>1 DEF Holds, Serialized
    <3>3. ReadsBack(st, reader)'
      BY <2>1 DEF ReadsBack
    <3> QED BY <3>2, <3>3 DEF ReadBackInv
  <2>4. CASE Found = NotAStore
    BY <2>1, <2>4 DEF ReadBackInv, NotAStore
  <2> QED BY <1>7, <2>2, <2>3, <2>4, FoundIs DEF ReadStore
<1>8. ASSUME ReadStep PROVE ReadBackInv'
  BY <1>8, ReadReadsBack DEF ReadStep
<1> QED BY <1>1, <1>2, <1>3, <1>4, <1>5, <1>6, <1>7, <1>8 DEF Next

\* The reader never refuses what the writer wrote, and finds the same buffers
\* in it: serialize_columnar_store and its deserializer agree, the validation of
\* the store it builds included, for every store of valid buffers that fits in
\* memory and every length of its names.
THEOREM WrittenStoresReadBack ==
  Spec => []RoundTrip
<1>1. Init => ReadBackInv
  BY DEF Init, NotReading, Start, ReadBackInv
<1>2. FilesInv /\ ReadBackInv /\ [Next]_vars => ReadBackInv'
  BY ReadBackStep DEF FilesInv
<1>3. ReadBackInv => RoundTrip
  <2> SUFFICES ASSUME ReadBackInv, file.fields # Foreign, file.head = "ok"
               PROVE  /\ reader.pc # "refused"
                      /\ reader.pc = "accepted" => Serialized(reader.got) = file
    BY DEF RoundTrip
  <2>1. CASE reader.pc = "idle"
    BY <2>1
  <2>2. CASE reader.pc # "idle"
    <3>1. PICK st \in Seq(BufferShape) : Holds(st) /\ ReadsBack(st, reader)
      BY <2>2 DEF ReadBackInv
    <3> QED BY <3>1 DEF Holds, ReadsBack
  <2> QED BY <2>1, <2>2
<1> QED BY <1>1, <1>2, <1>3, FilesInvariant, PTL DEF Spec
=============================================================================
