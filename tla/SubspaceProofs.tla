--------------------------- MODULE SubspaceProofs ---------------------------
(***************************************************************************)
(* Facts about the subspace of a plan object: it does not depend on how    *)
(* the clauses of the object are ordered or written.                       *)
(***************************************************************************)
EXTENDS Subspaces, FiniteSetTheorems, WellFoundedInduction, TLAPS

-----------------------------------------------------------------------------
(***************************************************************************)
(* Numbers                                                                 *)
(***************************************************************************)

(* A set of numbers has a least one.                                       *)
LEMMA LeastNumber ==
  ASSUME NEW T \in SUBSET Nat, T # {}
  PROVE  \E m \in T : \A n \in T : m <= n
<1> DEFINE R == {ss \in Nat \X Nat : ss[1] < ss[2]}
<1>1. \A m, n \in Nat : <<m, n>> \in R <=> m < n
  OBVIOUS
<1>. IsWellFoundedOn(R, Nat)
  BY NatLessThanWellFounded DEF OpToRel
<1>. HIDE DEF R
<1>2. PICK m \in T : \A n \in T : ~ (<<n, m>> \in R)
  BY WFMin
<1>3. \A n \in T : n \in Nat /\ m \in Nat /\ ~ (n < m)
  BY <1>1, <1>2, Zenon
<1>. QED  BY <1>3

(* A set that contains 0 and is closed under successor up to n contains n. *)
LEMMA Reached ==
  ASSUME NEW n \in Nat, NEW A, 0 \in A, \A i \in 1 .. n : i - 1 \in A => i \in A
  PROVE  \A i \in 0 .. n : i \in A
<1> DEFINE Bad == {i \in 0 .. n : i \notin A}
<1>. SUFFICES ASSUME Bad # {} PROVE FALSE
  OBVIOUS
<1>1. PICK i \in Bad : \A m \in Bad : i <= m
  <2>1. Bad \in SUBSET Nat
    OBVIOUS
  <2>. HIDE DEF Bad
  <2>. QED  BY <2>1, LeastNumber
<1>2. i \in 1 .. n /\ i - 1 \in 0 .. n /\ i - 1 \notin Bad
  BY <1>1
<1>. QED  BY <1>2

-----------------------------------------------------------------------------
(***************************************************************************)
(* Sorting                                                                 *)
(***************************************************************************)

\* lt orders S strictly and totally.
StrictOrder(S, lt) ==
    /\ \A x, y \in S : <<x, y>> \in lt => <<y, x>> \notin lt
    /\ \A x, y, z \in S : <<x, y>> \in lt /\ <<y, z>> \in lt => <<x, z>> \in lt
    /\ \A x, y \in S : x # y => <<x, y>> \in lt \/ <<y, x>> \in lt

\* s has each element of S once, in the order lt.
Sorts(s, S, lt) ==
    /\ s \in [1 .. Cardinality(S) -> S]
    /\ \A i, j \in 1 .. Cardinality(S) : i < j => <<s[i], s[j]>> \in lt
    /\ \A x \in S : \E i \in 1 .. Cardinality(S) : s[i] = x

\* What comes before x
Below(S, lt, x) == {y \in S : <<y, x>> \in lt}

(* An element has fewer elements before it than S has, and fewer than an   *)
(* element it comes before.                                                *)
LEMMA BelowCounts ==
  ASSUME NEW S, NEW lt, IsFiniteSet(S), StrictOrder(S, lt)
  PROVE  /\ Cardinality(S) \in Nat
         /\ \A x \in S : Cardinality(Below(S, lt, x)) \in 0 .. Cardinality(S) - 1
         /\ \A x, y \in S : <<x, y>> \in lt =>
               Cardinality(Below(S, lt, x)) < Cardinality(Below(S, lt, y))
<1>1. Cardinality(S) \in Nat
  BY FS_CardinalityType
<1>2. ASSUME NEW x \in S
      PROVE  /\ IsFiniteSet(Below(S, lt, x))
             /\ Cardinality(Below(S, lt, x)) \in Nat
             /\ Cardinality(Below(S, lt, x)) < Cardinality(S)
  <2>1. Below(S, lt, x) \in SUBSET S /\ x \notin Below(S, lt, x)
    BY DEF Below, StrictOrder
  <2>2. /\ IsFiniteSet(Below(S, lt, x))
        /\ Cardinality(Below(S, lt, x)) <= Cardinality(S)
        /\ Cardinality(S) = Cardinality(Below(S, lt, x)) => S = Below(S, lt, x)
    BY <2>1, FS_Subset
  <2>3. Cardinality(Below(S, lt, x)) \in Nat
    BY <2>2, FS_CardinalityType
  <2>4. Cardinality(S) # Cardinality(Below(S, lt, x))
    BY <2>1, <2>2
  <2>. QED  BY <1>1, <2>2, <2>3, <2>4
<1>3. ASSUME NEW x \in S, NEW y \in S, <<x, y>> \in lt
      PROVE  Cardinality(Below(S, lt, x)) < Cardinality(Below(S, lt, y))
  <2>1. Below(S, lt, x) \in SUBSET Below(S, lt, y)
    BY <1>3 DEF Below, StrictOrder
  <2>2. x \in Below(S, lt, y) /\ x \notin Below(S, lt, x)
    BY <1>3 DEF Below, StrictOrder
  <2>3. /\ Cardinality(Below(S, lt, x)) <= Cardinality(Below(S, lt, y))
        /\ Cardinality(Below(S, lt, y)) = Cardinality(Below(S, lt, x))
              => Below(S, lt, y) = Below(S, lt, x)
    BY <1>2, <2>1, FS_Subset
  <2>4. Cardinality(Below(S, lt, y)) # Cardinality(Below(S, lt, x))
    BY <2>2, <2>3
  <2>. QED  BY <1>2, <2>3, <2>4
<1>. QED  BY <1>1, <1>2, <1>3

(* SortBy sorts every finite set by every strict order.                    *)
LEMMA SortBySorts ==
  ASSUME NEW S, NEW lt, IsFiniteSet(S), StrictOrder(S, lt)
  PROVE  Sorts(SortBy(S, lt), S, lt)
<1> DEFINE n == Cardinality(S)
           r == [x \in S |-> Cardinality(Below(S, lt, x))]
           s == SortBy(S, lt)
<1>1. n \in Nat /\ r \in [S -> 0 .. n - 1]
  BY BelowCounts
<1>2. ASSUME NEW x \in S, NEW y \in S, <<x, y>> \in lt PROVE r[x] < r[y]
  BY <1>2, BelowCounts
<1>3. ASSUME NEW i \in 1 .. n, \E x \in S : r[x] = i - 1
      PROVE  s[i] \in S /\ r[s[i]] = i - 1
  <2> DEFINE rank(x) == Cardinality({y \in S : <<y, x>> \in lt})
  <2>1. \A x \in S : r[x] = rank(x)
    BY DEF Below
  <2>2. s[i] = CHOOSE x \in S : rank(x) = i - 1
    BY DEF SortBy
  <2>. HIDE DEF rank, r
  <2>3. \E x \in S : rank(x) = i - 1
    BY <1>3, <2>1
  <2>4. s[i] \in S /\ rank(s[i]) = i - 1
    BY <2>2, <2>3
  <2>. QED  BY <2>1, <2>4
<1>0. s = [i \in 1 .. n |-> s[i]]
  <2> DEFINE at(i) == CHOOSE x \in S : Cardinality({y \in S : <<y, x>> \in lt}) = i - 1
  <2>1. s = [i \in 1 .. n |-> at(i)]
    BY DEF SortBy
  <2>. HIDE DEF at, s, n
  <2>. QED  BY <2>1
<1>. HIDE DEF r, s
<1>4. \A x, y \in S : x # y => r[x] # r[y]
  <2>. SUFFICES ASSUME NEW x \in S, NEW y \in S, x # y PROVE r[x] # r[y]
    OBVIOUS
  <2>1. r[x] \in Nat /\ r[y] \in Nat
    BY <1>1
  <2>2. <<x, y>> \in lt \/ <<y, x>> \in lt
    BY DEF StrictOrder
  <2>3. r[x] < r[y] \/ r[y] < r[x]
    BY <1>2, <2>2
  <2>. QED  BY <2>1, <2>3
<1>5. \A i \in 0 .. n - 1 : \E x \in S : r[x] = i
  <2> DEFINE T == 0 .. n - 1
  <2>1. r \in Injection(S, T)
    BY <1>1, <1>4 DEF Injection, IsInjective
  <2>2. IsFiniteSet(T) /\ Cardinality(T) = n
    BY <1>1, FS_Interval, SMTT(40)
  <2>. HIDE DEF T
  <2>3. r \in Surjection(S, T)
    BY <2>1, <2>2, FS_Injection
  <2>. QED  BY <2>3 DEF Surjection, T
<1>6. \A i \in 1 .. n : s[i] \in S /\ r[s[i]] = i - 1
  <2>. SUFFICES ASSUME NEW i \in 1 .. n PROVE s[i] \in S /\ r[s[i]] = i - 1
    OBVIOUS
  <2>1. \E x \in S : r[x] = i - 1
    BY <1>1, <1>5
  <2>. QED  BY <1>3, <2>1
<1>7. s \in [1 .. n -> S]
  BY <1>0, <1>6
<1>8. \A i, j \in 1 .. n : i < j => <<s[i], s[j]>> \in lt
  <2>. SUFFICES ASSUME NEW i \in 1 .. n, NEW j \in 1 .. n, i < j PROVE <<s[i], s[j]>> \in lt
    OBVIOUS
  <2>1. s[i] \in S /\ s[j] \in S /\ r[s[i]] = i - 1 /\ r[s[j]] = j - 1
    BY <1>6
  <2>2. s[i] # s[j] /\ ~(r[s[j]] < r[s[i]])
    BY <1>1, <2>1
  <2>. QED  BY <1>2, <2>1, <2>2 DEF StrictOrder
<1>9. \A x \in S : \E i \in 1 .. n : s[i] = x
  <2>. SUFFICES ASSUME NEW x \in S PROVE \E i \in 1 .. n : s[i] = x
    OBVIOUS
  <2>1. r[x] + 1 \in 1 .. n
    BY <1>1
  <2>2. r[s[r[x] + 1]] = r[x] /\ s[r[x] + 1] \in S
    BY <1>1, <1>6, <2>1
  <2>. QED  BY <1>4, <2>1, <2>2
<1>. QED  BY <1>7, <1>8, <1>9 DEF Sorts, s

(* Sorting by hash and value is by a strict order, and so is sorting by    *)
(* a key and sorting numbers.                                              *)
LEMMA OrdersAreStrict ==
  ASSUME NEW S \in SUBSET Int, NEW h, NEW v, \A i \in S : h[i] \in Int /\ v[i] \in Int
  PROVE  /\ StrictOrder(S, ByFeature(S, h, v))
         /\ StrictOrder(S, ByKey(S, h))
         /\ StrictOrder(S, {p \in S \X S : p[1] < p[2]})
<1>1. \A i, j \in S : <<i, j>> \in ByFeature(S, h, v) <=>
                        \/ h[i] < h[j]
                        \/ h[i] = h[j] /\ v[i] < v[j]
                        \/ h[i] = h[j] /\ v[i] = v[j] /\ i < j
  BY DEF ByFeature
<1>2. \A i, j \in S : <<i, j>> \in ByKey(S, h) <=> h[i] < h[j] \/ (h[i] = h[j] /\ i < j)
  BY DEF ByKey
<1>3. \A i, j \in S : <<i, j>> \in {p \in S \X S : p[1] < p[2]} <=> i < j
  OBVIOUS
<1>4. StrictOrder(S, ByFeature(S, h, v))
  BY <1>1 DEF StrictOrder
<1>5. StrictOrder(S, ByKey(S, h))
  BY <1>2 DEF StrictOrder
<1>6. StrictOrder(S, {p \in S \X S : p[1] < p[2]})
  BY <1>3 DEF StrictOrder
<1>. QED  BY <1>4, <1>5, <1>6

\* The pair of a and b is greater than the pair of c and d.
Greater(a, b, c, d) == c < a \/ (c = a /\ d < b)

(* That is a strict and total order of pairs.                              *)
LEMMA GreaterOrders ==
  /\ \A a, b \in Int : ~Greater(a, b, a, b)
  /\ \A a, b, c, d \in Int : Greater(a, b, c, d) \/ Greater(c, d, a, b) \/ (a = c /\ b = d)
  /\ \A a, b, c, d, e, f \in Int :
        Greater(a, b, c, d) /\ ~Greater(e, f, c, d) => Greater(a, b, e, f)
BY DEF Greater

\* The pairs of h and v ascend.
Ascend(n, h, v) ==
    /\ h \in [1 .. n -> Int] /\ v \in [1 .. n -> Int]
    /\ \A i, j \in 1 .. n : i < j => ~Greater(h[i], v[i], h[j], v[j])

\* Each pair of h and v is one of g and w, at a place of its own.
Embeds(n, to, h, v, g, w) ==
    /\ to \in [1 .. n -> 1 .. n]
    /\ \A i, j \in 1 .. n : i # j => to[i] # to[j]
    /\ \A i \in 1 .. n : h[i] = g[to[i]] /\ v[i] = w[to[i]]

(* Two lists of pairs in ascending order: if each pair of the first is one *)
(* of the second, at a place of its own, no pair of the second is greater  *)
(* than the pair of the first at its place.                                *)
LEMMA NoneGreater ==
  ASSUME NEW n \in Nat, NEW h, NEW v, NEW g, NEW w, NEW to,
         Ascend(n, h, v), Ascend(n, g, w), Embeds(n, to, h, v, g, w)
  PROVE  \A i \in 1 .. n : ~Greater(g[i], w[i], h[i], v[i])
<1>. SUFFICES ASSUME NEW i \in 1 .. n, Greater(g[i], w[i], h[i], v[i]) PROVE FALSE
  OBVIOUS
<1>0. \A j \in 1 .. n : h[j] \in Int /\ v[j] \in Int /\ g[j] \in Int /\ w[j] \in Int
  BY DEF Ascend
<1>1. ASSUME NEW j \in 1 .. i PROVE to[j] \in 1 .. i - 1
  <2>1. j \in 1 .. n /\ to[j] \in 1 .. n
    BY DEF Embeds
  <2>2. ~Greater(h[j], v[j], h[i], v[i])
    <3>1. CASE j = i
      BY <1>0, <3>1, GreaterOrders
    <3>2. CASE j # i
      <4>1. j < i
        BY <3>2
      <4>. QED  BY <2>1, <4>1 DEF Ascend
    <3>. QED  BY <3>1, <3>2
  <2>3. Greater(g[i], w[i], h[j], v[j])
    BY <1>0, <2>1, <2>2, GreaterOrders
  <2>4. Greater(g[i], w[i], g[to[j]], w[to[j]])
    BY <2>1, <2>3 DEF Embeds
  <2>5. ~(i < to[j])
    BY <2>1, <2>4 DEF Ascend
  <2>6. i # to[j]
    BY <1>0, <2>4, GreaterOrders
  <2>. QED  BY <2>1, <2>5, <2>6
<1> DEFINE m == [j \in 1 .. i |-> to[j]]
           A == 1 .. i
           B == 1 .. i - 1
<1>2. m \in [A -> B]
  BY <1>1
<1>3. IsFiniteSet(A) /\ Cardinality(A) = i
  BY FS_Interval
<1>4. IsFiniteSet(B) /\ Cardinality(B) = i - 1
  <2>1. i - 1 \in Int /\ i \in Nat /\ i > 0
    OBVIOUS
  <2>. QED  BY <2>1, FS_Interval
<1>5. \A x \in A : m[x] = to[x] /\ x \in 1 .. n
  OBVIOUS
<1>. HIDE DEF A, B, m
<1>6. Cardinality(B) < Cardinality(A)
  BY <1>3, <1>4
<1>7. PICK x \in A, y \in A : x # y /\ m[x] = m[y]
  BY <1>2, <1>3, <1>4, <1>6, FS_PigeonHole
<1>. QED  BY <1>5, <1>7 DEF Embeds

(* Lists of pairs in ascending order, each within the other, are equal.    *)
LEMMA AscendingAgree ==
  ASSUME NEW n \in Nat, NEW h, NEW v, NEW g, NEW w, NEW to, NEW from,
         Ascend(n, h, v), Ascend(n, g, w),
         Embeds(n, to, h, v, g, w), Embeds(n, from, g, w, h, v)
  PROVE  h = g /\ v = w
<1>1. \A i \in 1 .. n : ~Greater(g[i], w[i], h[i], v[i])
  BY NoneGreater
<1>2. \A i \in 1 .. n : ~Greater(h[i], v[i], g[i], w[i])
  BY NoneGreater
<1>3. \A j \in 1 .. n : h[j] \in Int /\ v[j] \in Int /\ g[j] \in Int /\ w[j] \in Int
  BY DEF Ascend
<1>4. \A i \in 1 .. n : h[i] = g[i] /\ v[i] = w[i]
  BY <1>1, <1>2, <1>3, GreaterOrders
<1>. QED  BY <1>4 DEF Ascend

\* Numbers with hashes and values
Keyed(S, h, v) == S \in SUBSET Int /\ IsFiniteSet(S) /\ \A i \in S : h[i] \in Int /\ v[i] \in Int

\* To each element of S corresponds one of T, with its hash and value.
Renames(f, T, S, g, w, h, v) ==
    /\ f \in [T -> S]
    /\ \A x, y \in T : f[x] = f[y] => x = y
    /\ \A x \in S : \E y \in T : f[y] = x
    /\ \A y \in T : g[y] = h[f[y]] /\ w[y] = v[f[y]]

\* Two lists of as many elements, with the same hashes and values
SameKeys(S, T, s, t, h, v, g, w) ==
    /\ Cardinality(S) = Cardinality(T)
    /\ \A i \in 1 .. Cardinality(S) : h[s[i]] = g[t[i]] /\ v[s[i]] = w[t[i]]

(* Sorted by hash and value, two sets whose elements correspond to each    *)
(* other, with the same hashes and values, give the same lists of hashes   *)
(* and values.                                                             *)
LEMMA SortedAgree ==
  ASSUME NEW S, NEW T, NEW h, NEW v, NEW g, NEW w, Keyed(S, h, v), Keyed(T, g, w),
         NEW s, Sorts(s, S, ByFeature(S, h, v)),
         NEW t, Sorts(t, T, ByFeature(T, g, w)),
         NEW f, Renames(f, T, S, g, w, h, v)
  PROVE  SameKeys(S, T, s, t, h, v, g, w)
<1>a. /\ S \in SUBSET Int /\ IsFiniteSet(S) /\ \A i \in S : h[i] \in Int /\ v[i] \in Int
      /\ T \in SUBSET Int /\ IsFiniteSet(T) /\ \A i \in T : g[i] \in Int /\ w[i] \in Int
  BY DEF Keyed
<1>b. /\ f \in [T -> S]
      /\ \A x, y \in T : f[x] = f[y] => x = y
      /\ \A x \in S : \E y \in T : f[y] = x
      /\ \A y \in T : g[y] = h[f[y]] /\ w[y] = v[f[y]]
  BY DEF Renames
<1> DEFINE n == Cardinality(S)
           hs == [i \in 1 .. n |-> h[s[i]]]
           vs == [i \in 1 .. n |-> v[s[i]]]
           gt == [i \in 1 .. n |-> g[t[i]]]
           wt == [i \in 1 .. n |-> w[t[i]]]
           to == [i \in 1 .. n |-> CHOOSE j \in 1 .. n : s[j] = f[t[i]]]
           from == [i \in 1 .. n |-> CHOOSE j \in 1 .. n : f[t[j]] = s[i]]
<1>1. n \in Nat
  BY <1>a, FS_CardinalityType
<1>2. Cardinality(T) = n
  <2>1. f \in Bijection(T, S)
    BY <1>b DEF Bijection, Injection, Surjection, IsInjective
  <2>2. ExistsBijection(T, S)
    BY <2>1 DEF ExistsBijection
  <2>. QED  BY <1>a, <2>2, FS_Bijection
<1>. HIDE DEF n
<1>3. /\ \A i \in 1 .. n : s[i] \in S
      /\ \A i, j \in 1 .. n : i < j => <<s[i], s[j]>> \in ByFeature(S, h, v)
      /\ \A x \in S : \E i \in 1 .. n : s[i] = x
  BY DEF Sorts, n
<1>4. /\ \A i \in 1 .. n : t[i] \in T
      /\ \A i, j \in 1 .. n : i < j => <<t[i], t[j]>> \in ByFeature(T, g, w)
      /\ \A x \in T : \E i \in 1 .. n : t[i] = x
  BY <1>2 DEF Sorts
<1>5. \A i, j \in 1 .. n : i # j => s[i] # s[j] /\ t[i] # t[j]
  <2>1. StrictOrder(S, ByFeature(S, h, v)) /\ StrictOrder(T, ByFeature(T, g, w))
    BY <1>a, OrdersAreStrict
  <2>2. ASSUME NEW i \in 1 .. n, NEW j \in 1 .. n, i < j PROVE s[i] # s[j] /\ t[i] # t[j]
    <3>1. <<s[i], s[j]>> \in ByFeature(S, h, v) /\ s[i] \in S /\ s[j] \in S
      BY <1>3, <2>2
    <3>2. <<t[i], t[j]>> \in ByFeature(T, g, w) /\ t[i] \in T /\ t[j] \in T
      BY <1>4, <2>2
    <3>. QED  BY <2>1, <3>1, <3>2 DEF StrictOrder
  <2>. QED  BY <1>1, <2>2
<1>6. Ascend(n, hs, vs)
  <2>1. \A i, j \in S : <<i, j>> \in ByFeature(S, h, v) => ~Greater(h[i], v[i], h[j], v[j])
    BY <1>a DEF ByFeature, Greater
  <2>2. \A i, j \in 1 .. n : i < j => ~Greater(h[s[i]], v[s[i]], h[s[j]], v[s[j]])
    BY <1>3, <2>1
  <2>3. \A i \in 1 .. n : hs[i] = h[s[i]] /\ vs[i] = v[s[i]]
    OBVIOUS
  <2>4. hs \in [1 .. n -> Int] /\ vs \in [1 .. n -> Int]
    BY <1>a, <1>3
  <2>. HIDE DEF hs, vs
  <2>. QED  BY <2>2, <2>3, <2>4 DEF Ascend
<1>7. Ascend(n, gt, wt)
  <2>1. \A i, j \in T : <<i, j>> \in ByFeature(T, g, w) => ~Greater(g[i], w[i], g[j], w[j])
    BY <1>a DEF ByFeature, Greater
  <2>2. \A i, j \in 1 .. n : i < j => ~Greater(g[t[i]], w[t[i]], g[t[j]], w[t[j]])
    BY <1>4, <2>1
  <2>3. \A i \in 1 .. n : gt[i] = g[t[i]] /\ wt[i] = w[t[i]]
    OBVIOUS
  <2>4. gt \in [1 .. n -> Int] /\ wt \in [1 .. n -> Int]
    BY <1>a, <1>4
  <2>. HIDE DEF gt, wt
  <2>. QED  BY <2>2, <2>3, <2>4 DEF Ascend
<1>8. Embeds(n, to, gt, wt, hs, vs)
  <2>1. ASSUME NEW i \in 1 .. n PROVE to[i] \in 1 .. n /\ s[to[i]] = f[t[i]]
    <3>1. f[t[i]] \in S
      BY <1>b, <1>4
    <3>2. \E j \in 1 .. n : s[j] = f[t[i]]
      BY <1>3, <3>1
    <3>. QED  BY <3>2
  <2>2. to \in [1 .. n -> 1 .. n]
    BY <2>1
  <2>. HIDE DEF to
  <2>3. ASSUME NEW i \in 1 .. n, NEW j \in 1 .. n, i # j PROVE to[i] # to[j]
    <3>1. t[i] # t[j] /\ t[i] \in T /\ t[j] \in T
      BY <1>4, <1>5, <2>3
    <3>2. f[t[i]] # f[t[j]]
      BY <1>b, <3>1
    <3>. QED  BY <2>1, <3>2
  <2>4. ASSUME NEW i \in 1 .. n PROVE gt[i] = hs[to[i]] /\ wt[i] = vs[to[i]]
    <3>1. g[t[i]] = h[f[t[i]]] /\ w[t[i]] = v[f[t[i]]]
      BY <1>b, <1>4
    <3>. QED  BY <2>1, <3>1
  <2>. HIDE DEF hs, vs, gt, wt
  <2>. QED  BY <2>2, <2>3, <2>4 DEF Embeds
<1>9. Embeds(n, from, hs, vs, gt, wt)
  <2>1. ASSUME NEW i \in 1 .. n PROVE from[i] \in 1 .. n /\ f[t[from[i]]] = s[i]
    <3>1. s[i] \in S
      BY <1>3
    <3>2. PICK y \in T : f[y] = s[i]
      BY <1>b, <3>1
    <3>3. PICK j \in 1 .. n : t[j] = y
      BY <1>4
    <3>4. f[t[j]] = s[i]
      BY <3>2, <3>3
    <3>. QED  BY <3>4
  <2>2. from \in [1 .. n -> 1 .. n]
    BY <2>1
  <2>. HIDE DEF from
  <2>3. ASSUME NEW i \in 1 .. n, NEW j \in 1 .. n, i # j PROVE from[i] # from[j]
    BY <1>5, <2>1, <2>3
  <2>4. ASSUME NEW i \in 1 .. n PROVE hs[i] = gt[from[i]] /\ vs[i] = wt[from[i]]
    <3>1. t[from[i]] \in T
      BY <1>4, <2>1
    <3>2. g[t[from[i]]] = h[s[i]] /\ w[t[from[i]]] = v[s[i]]
      BY <1>b, <2>1, <3>1
    <3>. QED  BY <2>1, <3>2
  <2>. HIDE DEF hs, vs, gt, wt
  <2>. QED  BY <2>2, <2>3, <2>4 DEF Embeds
<1>10. hs = gt /\ vs = wt
  <2>. HIDE DEF hs, vs, gt, wt, to, from
  <2>. QED  BY <1>1, <1>6, <1>7, <1>8, <1>9, AscendingAgree
<1>11. ASSUME NEW i \in 1 .. n PROVE h[s[i]] = g[t[i]] /\ v[s[i]] = w[t[i]]
  <2>1. hs[i] = h[s[i]] /\ vs[i] = v[s[i]] /\ gt[i] = g[t[i]] /\ wt[i] = w[t[i]]
    OBVIOUS
  <2>. HIDE DEF hs, vs, gt, wt
  <2>. QED  BY <1>10, <2>1
<1>. QED  BY <1>2, <1>11 DEF n, SameKeys

(* A finite set of numbers has a greatest one.                             *)
LEMMA MaxIsGreatest ==
  ASSUME NEW S \in SUBSET Int, IsFiniteSet(S), S # {}
  PROVE  Max(S) \in S /\ \A y \in S : Max(S) >= y
<1> DEFINE lt == {p \in S \X S : p[1] < p[2]}
           n == Cardinality(S)
           s == SortBy(S, lt)
<1>1. StrictOrder(S, lt)
  <2>1. \A i, j \in S : <<i, j>> \in lt <=> i < j
    OBVIOUS
  <2>. HIDE DEF lt
  <2>. QED  BY <2>1 DEF StrictOrder
<1>2. \A i, j \in S : <<i, j>> \in lt => i < j
  OBVIOUS
<1>3. Sorts(s, S, lt)
  <2>. HIDE DEF lt
  <2>. QED  BY <1>1, SortBySorts
<1>4. n \in Nat /\ n # 0
  BY FS_CardinalityType, FS_EmptySet
<1>. HIDE DEF lt, s, n
<1>5. /\ s \in [1 .. n -> S]
      /\ \A i, j \in 1 .. n : i < j => <<s[i], s[j]>> \in lt
      /\ \A x \in S : \E i \in 1 .. n : s[i] = x
  BY <1>3 DEF Sorts, n
<1>6. n \in 1 .. n /\ s[n] \in S
  BY <1>4, <1>5
<1>7. ASSUME NEW y \in S PROVE s[n] >= y
  <2>1. PICK i \in 1 .. n : s[i] = y
    BY <1>5
  <2>2. CASE i = n
    BY <2>1, <2>2
  <2>3. CASE i # n
    <3>1. i < n
      BY <1>4, <2>3
    <3>2. s[i] < s[n]
      BY <1>2, <1>5, <1>6, <3>1
    <3>3. y \in Int /\ s[n] \in Int /\ y < s[n]
      BY <1>6, <2>1, <3>2
    <3>. QED  BY <3>3
  <2>. QED  BY <2>2, <2>3
<1>8. \E x \in S : \A y \in S : x >= y
  BY <1>6, <1>7
<1>. QED  BY <1>8 DEF Max

-----------------------------------------------------------------------------
(***************************************************************************)
(* Compaction of a sorted list                                             *)
(***************************************************************************)

\* The clauses at the positions P
ClausesAt(ord, P) == {ord[j] : j \in P}

\* The clauses before position kk that give a feature
Before(ord, give, kk) == ClausesAt(ord, {i \in 1 .. kk - 1 : ord[i] \in give})

\* The first m entries are the hashes and values of the clauses B, sorted.
Holds(s, m, B, H, V, srt, fts) ==
    /\ B \in SUBSET Int /\ IsFiniteSet(B) /\ Cardinality(B) = m
    /\ Sorts(s, B, ByFeature(B, H, V))
    /\ \A i \in 1 .. m : srt[i] = H[s[i]] /\ fts[i] = V[s[i]]

\* Each clause once, by hash, and clauses of equal hash in their order
Argsorted(n, H, ord) ==
    /\ ord \in [1 .. n -> 1 .. n]
    /\ \A i, j \in 1 .. n : i < j => H[ord[i]] <= H[ord[j]]
    /\ \A i, j \in 1 .. n : i < j /\ H[ord[i]] = H[ord[j]] => ord[i] < ord[j]
    /\ \A i, j \in 1 .. n : i # j => ord[i] # ord[j]
    /\ \A x \in 1 .. n : \E i \in 1 .. n : ord[i] = x

\* What the compaction has done when it comes to the group at kk: of the n
\* clauses with hashes H and values V, those before kk that give a feature
\* are in place, the others are as argsort has left them.
Compacted(n, H, V, give, ord, kk, out, srt, fts) ==
    /\ Argsorted(n, H, ord)
    /\ kk \in 1 .. n + 1 /\ out \in 0 .. kk - 1
    /\ srt \in [1 .. n -> Int] /\ fts \in [1 .. n -> Int]
    /\ \A j \in kk .. n : srt[j] = H[ord[j]] /\ fts[j] = V[ord[j]]
    /\ \A i \in 1 .. kk - 1 : \A j \in kk .. n : H[ord[i]] < H[ord[j]]
    /\ \E s : Holds(s, kk - 1 - out, Before(ord, give, kk), H, V, srt, fts)

(* What argsort gives: the positions sorted by hash.                       *)
LEMMA ArgsortGives ==
  ASSUME NEW n \in Nat, NEW H \in [1 .. n -> Int], NEW ord, Sorts(ord, 1 .. n, ByKey(1 .. n, H))
  PROVE  Argsorted(n, H, ord)
<1>1. Cardinality(1 .. n) = n
  BY FS_Interval
<1>2. /\ ord \in [1 .. n -> 1 .. n]
      /\ \A i, j \in 1 .. n : i < j => <<ord[i], ord[j]>> \in ByKey(1 .. n, H)
      /\ \A x \in 1 .. n : \E i \in 1 .. n : ord[i] = x
  BY <1>1 DEF Sorts
<1>3. \A x, y \in 1 .. n : <<x, y>> \in ByKey(1 .. n, H) => H[x] < H[y] \/ (H[x] = H[y] /\ x < y)
  BY DEF ByKey
<1>4. ASSUME NEW i \in 1 .. n, NEW j \in 1 .. n, i < j
      PROVE  /\ H[ord[i]] <= H[ord[j]]
             /\ H[ord[i]] = H[ord[j]] => ord[i] < ord[j]
             /\ ord[i] # ord[j]
  <2>1. ord[i] \in 1 .. n /\ ord[j] \in 1 .. n
    BY <1>2
  <2>2. H[ord[i]] < H[ord[j]] \/ (H[ord[i]] = H[ord[j]] /\ ord[i] < ord[j])
    BY <1>2, <1>3, <1>4, <2>1
  <2>3. H[ord[i]] \in Int /\ H[ord[j]] \in Int
    BY <2>1
  <2>. QED  BY <2>1, <2>2, <2>3
<1>5. \A i, j \in 1 .. n : i # j => ord[i] # ord[j]
  BY <1>4
<1>. QED  BY <1>2, <1>4, <1>5 DEF Argsorted

\* The group of equal hashes that starts at kk
GroupAt(n, srt, kk) == {j \in kk .. n : srt[j] = srt[kk]}

\* The group at kk ends at top.
EndsAt(n, H, ord, srt, kk, top) ==
    /\ GroupAt(n, srt, kk) = kk .. top
    /\ Cardinality(GroupAt(n, srt, kk)) = top + 1 - kk
    /\ \A j \in kk .. top : H[ord[j]] = H[ord[kk]]
    /\ \A i \in 1 .. top : \A j \in top + 1 .. n : H[ord[i]] < H[ord[j]]

(* A group is an interval, and what comes after it has greater hashes.     *)
LEMMA GroupIsInterval ==
  ASSUME NEW n \in Nat, NEW H \in [1 .. n -> Int], NEW V, NEW give, NEW ord, NEW kk \in 1 .. n, NEW out,
         NEW srt, NEW fts, Compacted(n, H, V, give, ord, kk, out, srt, fts)
  PROVE  \E top \in kk .. n : EndsAt(n, H, ord, srt, kk, top)
<1> DEFINE G == GroupAt(n, srt, kk)
<1>1. /\ ord \in [1 .. n -> 1 .. n]
      /\ \A i, j \in 1 .. n : i < j => H[ord[i]] <= H[ord[j]]
  BY DEF Compacted, Argsorted
<1>2. \A i \in 1 .. n : H[ord[i]] \in Int
  BY <1>1
<1>3. /\ \A j \in kk .. n : srt[j] = H[ord[j]]
      /\ \A i \in 1 .. kk - 1 : \A j \in kk .. n : H[ord[i]] < H[ord[j]]
  BY DEF Compacted
<1>4. \A j : j \in G <=> j \in kk .. n /\ H[ord[j]] = H[ord[kk]]
  BY <1>3 DEF GroupAt
<1>5. G \in SUBSET Int /\ IsFiniteSet(G) /\ G # {}
  <2>1. IsFiniteSet(kk .. n)
    BY FS_Interval
  <2>2. G \in SUBSET (kk .. n) /\ kk \in G
    BY <1>4
  <2>3. IsFiniteSet(G)
    BY <2>1, <2>2, FS_Subset
  <2>. QED  BY <2>2, <2>3
<1>. HIDE DEF G
<1>6. PICK top \in G : \A y \in G : top >= y
  BY <1>5, MaxIsGreatest
<1>7. top \in kk .. n /\ H[ord[top]] = H[ord[kk]]
  BY <1>4
<1>8. ASSUME NEW j \in kk .. top PROVE H[ord[j]] = H[ord[kk]]
  <2>1. j \in 1 .. n /\ top \in 1 .. n
    BY <1>7
  <2>a. (kk = j \/ kk < j) /\ (j = top \/ j < top) /\ kk \in 1 .. n
    BY <1>7
  <2>2. kk = j \/ H[ord[kk]] <= H[ord[j]]
    BY <1>1, <2>1, <2>a
  <2>3. j = top \/ H[ord[j]] <= H[ord[top]]
    BY <1>1, <2>1, <2>a
  <2>4. H[ord[j]] \in Int /\ H[ord[kk]] \in Int
    BY <1>2, <2>1
  <2>. QED  BY <1>7, <2>2, <2>3, <2>4, SMTT(40)
<1>9. G = kk .. top
  <2>1. ASSUME NEW j \in G PROVE j \in kk .. top
    BY <1>4, <1>6, <1>7
  <2>2. ASSUME NEW j \in kk .. top PROVE j \in G
    BY <1>4, <1>7, <1>8, SMTT(40)
  <2>. QED  BY <2>1, <2>2
<1>10. Cardinality(G) = top + 1 - kk
  BY <1>7, <1>9, FS_Interval
<1>11. ASSUME NEW i \in 1 .. top, NEW j \in top + 1 .. n PROVE H[ord[i]] < H[ord[j]]
  <2>1. i \in 1 .. n /\ j \in kk .. n /\ j \in 1 .. n
    BY <1>7
  <2>2. CASE i < kk
    <3>1. i \in 1 .. kk - 1
      BY <2>2
    <3>. QED  BY <1>3, <2>1, <3>1
  <2>3. CASE ~(i < kk)
    <3>1. i \in kk .. top /\ i < j
      BY <1>7, <2>3
    <3>2. H[ord[i]] = H[ord[kk]]
      BY <1>8, <3>1
    <3>3. H[ord[j]] # H[ord[kk]]
      BY <1>4, <1>9, <2>1
    <3>4. H[ord[i]] <= H[ord[j]]
      BY <1>1, <2>1, <3>1
    <3>. QED  BY <1>2, <2>1, <3>2, <3>3, <3>4
  <2>. QED  BY <2>2, <2>3
<1>. QED  BY <1>7, <1>8, <1>9, <1>10, <1>11 DEF G, EndsAt

\* The lists s, of length a, and t, of length b, one after the other
Joint(s, t, a, b) == [m \in 1 .. a + b |-> IF m <= a THEN s[m] ELSE t[m - a]]

\* All hashes of A are below all hashes of B.
Under(A, B, H) == \A x \in A : \A y \in B : H[x] < H[y]

(* Sorted members of two disjoint sets, the first below the second, are    *)
(* the sorted members of their union.                                      *)
LEMMA SortsUnion ==
  ASSUME NEW A \in SUBSET Int, NEW B \in SUBSET Int, IsFiniteSet(A), IsFiniteSet(B),
         NEW K, K = A \cup B, NEW H \in [K -> Int], NEW V \in [K -> Int],
         NEW s, NEW t, Sorts(s, A, ByFeature(A, H, V)), Sorts(t, B, ByFeature(B, H, V)),
         Under(A, B, H)
  PROVE  /\ IsFiniteSet(K) /\ Cardinality(K) = Cardinality(A) + Cardinality(B)
         /\ Sorts(Joint(s, t, Cardinality(A), Cardinality(B)), K, ByFeature(K, H, V))
<1> DEFINE a == Cardinality(A)
           b == Cardinality(B)
           r == Joint(s, t, a, b)
<1>1. a \in Nat /\ b \in Nat
  BY FS_CardinalityType
<1>2. A \cap B = {}
  <2>1. ASSUME NEW x \in A, x \in B PROVE FALSE
    BY <2>1 DEF Under
  <2>. QED  BY <2>1
<1>3. IsFiniteSet(A \cup B) /\ Cardinality(A \cup B) = a + b
  <2>1. /\ IsFiniteSet(A \cup B)
        /\ Cardinality(A \cup B) = Cardinality(A) + Cardinality(B) - Cardinality(A \cap B)
    BY FS_Union
  <2>2. Cardinality(A \cap B) = 0
    BY <1>2, FS_EmptySet
  <2>. QED  BY <1>1, <2>1, <2>2
<1>4. /\ s \in [1 .. a -> A]
      /\ \A i, j \in 1 .. a : i < j => <<s[i], s[j]>> \in ByFeature(A, H, V)
      /\ \A x \in A : \E i \in 1 .. a : s[i] = x
  BY DEF Sorts
<1>5. /\ t \in [1 .. b -> B]
      /\ \A i, j \in 1 .. b : i < j => <<t[i], t[j]>> \in ByFeature(B, H, V)
      /\ \A x \in B : \E i \in 1 .. b : t[i] = x
  BY DEF Sorts
<1>. HIDE DEF a, b
<1>6. ASSUME NEW m \in 1 .. a PROVE r[m] = s[m] /\ r[m] \in A
  <2>1. m \in 1 .. a + b /\ m <= a
    BY <1>1
  <2>2. r[m] = s[m]
    BY <2>1 DEF Joint
  <2>. QED  BY <1>4, <2>2
<1>7. \A m \in a + 1 .. a + b : m - a \in 1 .. b /\ r[m] = t[m - a] /\ r[m] \in B
  BY <1>1, <1>5 DEF Joint
<1>8. \A m \in 1 .. a + b : m \in 1 .. a \/ m \in a + 1 .. a + b
  BY <1>1
<1>9. DOMAIN r = 1 .. a + b /\ r = [m \in 1 .. a + b |-> r[m]]
  BY DEF Joint
<1>. HIDE DEF r
<1>10. r \in [1 .. a + b -> A \cup B]
  BY <1>6, <1>7, <1>8, <1>9
<1>11. ASSUME NEW i \in 1 .. a + b, NEW j \in 1 .. a + b, i < j
       PROVE  <<r[i], r[j]>> \in ByFeature(A \cup B, H, V)
  <2>1. CASE i \in 1 .. a /\ j \in 1 .. a
    <3>1. <<r[i], r[j]>> \in ByFeature(A, H, V)
      BY <1>4, <1>6, <1>11, <2>1
    <3>. QED  BY <3>1 DEF ByFeature
  <2>2. CASE i \in a + 1 .. a + b /\ j \in a + 1 .. a + b
    <3>1. i - a \in 1 .. b /\ j - a \in 1 .. b /\ i - a < j - a
      BY <1>1, <1>11, <2>2
    <3>2. <<t[i - a], t[j - a]>> \in ByFeature(B, H, V)
      BY <1>5, <3>1
    <3>3. <<r[i], r[j]>> \in ByFeature(B, H, V)
      BY <1>7, <2>2, <3>2
    <3>. QED  BY <3>3 DEF ByFeature
  <2>3. CASE i \in 1 .. a /\ j \in a + 1 .. a + b
    <3>1. r[i] \in A /\ r[j] \in B
      BY <1>6, <1>7, <2>3
    <3>2. H[r[i]] < H[r[j]]
      BY <3>1 DEF Under
    <3>. QED  BY <3>1, <3>2 DEF ByFeature
  <2>. QED  BY <1>1, <1>8, <1>11, <2>1, <2>2, <2>3
<1>12. ASSUME NEW x \in A \cup B PROVE \E i \in 1 .. a + b : r[i] = x
  <2>1. CASE x \in A
    <3>1. PICK i \in 1 .. a : s[i] = x
      BY <1>4, <2>1
    <3>2. i \in 1 .. a + b /\ r[i] = x
      BY <1>1, <1>6, <3>1
    <3>. QED  BY <3>2
  <2>2. CASE x \in B
    <3>1. PICK i \in 1 .. b : t[i] = x
      BY <1>5, <2>2
    <3>2. a + i \in a + 1 .. a + b /\ (a + i) - a = i /\ a + i \in 1 .. a + b
      BY <1>1
    <3>3. r[a + i] = x
      BY <1>7, <3>1, <3>2
    <3>. QED  BY <3>2, <3>3
  <2>. QED  BY <2>1, <2>2
<1>13. /\ IsFiniteSet(K) /\ Cardinality(K) = a + b
       /\ Sorts(r, K, ByFeature(K, H, V))
  BY <1>3, <1>10, <1>11, <1>12 DEF Sorts
<1>. QED  BY <1>13 DEF r, a, b

\* The positions P are of one hash, and the values are those of the clauses.
InGroup(P, H, V, ord, fts) ==
    /\ \A j \in P : fts[j] = V[ord[j]]
    /\ \A i, j \in P : H[ord[i]] = H[ord[j]]

\* The clauses at the positions that p lists
Through(ord, p, c) == [i \in 1 .. c |-> ord[p[i]]]

(* Within a group, sorting positions by value and taking their clauses     *)
(* sorts the clauses by hash, value and position.                          *)
LEMMA SortsGroup ==
  ASSUME NEW n \in Nat, NEW H \in [1 .. n -> Int], NEW V \in [1 .. n -> Int],
         NEW ord, Argsorted(n, H, ord),
         NEW fts, NEW P \in SUBSET (1 .. n), NEW p,
         InGroup(P, H, V, ord, fts), Sorts(p, P, ByKey(P, fts)),
         NEW B, B = ClausesAt(ord, P)
  PROVE  /\ B \in SUBSET (1 .. n) /\ IsFiniteSet(B) /\ Cardinality(B) = Cardinality(P)
         /\ Sorts(Through(ord, p, Cardinality(P)), B, ByFeature(B, H, V))
<1>1. /\ ord \in [1 .. n -> 1 .. n]
      /\ \A i, j \in 1 .. n : i < j /\ H[ord[i]] = H[ord[j]] => ord[i] < ord[j]
      /\ \A i, j \in 1 .. n : i # j => ord[i] # ord[j]
  BY DEF Argsorted
<1>2. IsFiniteSet(P)
  <2>1. IsFiniteSet(1 .. n)
    BY FS_Interval
  <2>. QED  BY <2>1, FS_Subset
<1>3. B \in SUBSET (1 .. n)
  BY <1>1 DEF ClausesAt
<1>4. IsFiniteSet(B) /\ Cardinality(B) = Cardinality(P)
  <2> DEFINE f == [j \in P |-> ord[j]]
  <2>1. f \in Bijection(P, B)
    BY <1>1 DEF ClausesAt, Bijection, Injection, Surjection, IsInjective
  <2>. HIDE DEF f
  <2>2. ExistsBijection(P, B)
    BY <2>1 DEF ExistsBijection
  <2>. QED  BY <1>2, <2>2, FS_Bijection
<1> DEFINE c == Cardinality(P)
           t == [i \in 1 .. c |-> ord[p[i]]]
<1>5. c \in Nat
  BY <1>2, FS_CardinalityType
<1>6. /\ p \in [1 .. c -> P]
      /\ \A i, j \in 1 .. c : i < j => <<p[i], p[j]>> \in ByKey(P, fts)
      /\ \A x \in P : \E i \in 1 .. c : p[i] = x
  BY DEF Sorts
<1>. HIDE DEF c
<1>7. t \in [1 .. c -> B]
  BY <1>6 DEF ClausesAt
<1>8. ASSUME NEW i \in 1 .. c, NEW j \in 1 .. c, i < j
      PROVE  <<t[i], t[j]>> \in ByFeature(B, H, V)
  <2>1. p[i] \in P /\ p[j] \in P /\ t[i] = ord[p[i]] /\ t[j] = ord[p[j]] /\ t[i] \in B /\ t[j] \in B
    BY <1>6, <1>7
  <2>2. fts[p[i]] < fts[p[j]] \/ (fts[p[i]] = fts[p[j]] /\ p[i] < p[j])
    BY <1>6, <1>8, <2>1 DEF ByKey
  <2>3. /\ H[t[i]] = H[t[j]]
        /\ V[t[i]] < V[t[j]] \/ (V[t[i]] = V[t[j]] /\ p[i] < p[j])
    BY <2>1, <2>2 DEF InGroup
  <2>4. p[i] < p[j] => t[i] < t[j]
    BY <1>1, <2>1, <2>3
  <2>. HIDE DEF t
  <2>. QED  BY <2>1, <2>3, <2>4 DEF ByFeature
<1>9. ASSUME NEW x \in B PROVE \E i \in 1 .. c : t[i] = x
  <2>1. PICK j \in P : x = ord[j]
    BY DEF ClausesAt
  <2>2. PICK i \in 1 .. c : p[i] = j
    BY <1>6
  <2>. QED  BY <2>1, <2>2
<1>10. Sorts(t, B, ByFeature(B, H, V))
  <2>. HIDE DEF t
  <2>. QED  BY <1>4, <1>7, <1>8, <1>9 DEF Sorts, c
<1>. QED  BY <1>3, <1>4, <1>10 DEF c, Through

\* The arrays with the group at kk compacted: P of its positions give a
\* feature, p lists them by value.
Regrouped(n, give, ord, kk, out, srt, fts, G, P, p, srt2, fts2) ==
    LET base == kk - out - 1
        slot == base + 1 .. base + Cardinality(P)
    IN  /\ G = GroupAt(n, srt, kk)
        /\ P = {j \in G : ord[j] \in give}
        /\ Sorts(p, P, ByKey(P, fts))
        /\ srt2 = [j \in 1 .. n |-> IF j \in slot THEN srt[kk] ELSE srt[j]]
        /\ fts2 = [j \in 1 .. n |-> IF j \in slot THEN fts[p[j - base]] ELSE fts[j]]

(* Compacting a group: the clauses of the group that give a feature are    *)
(* moved, sorted by value, behind those in place; the rest is dropped.     *)
LEMMA CompactedNext ==
  ASSUME NEW n \in Nat, NEW H \in [1 .. n -> Int], NEW V \in [1 .. n -> Int], NEW give,
         NEW ord, NEW kk \in 1 .. n, NEW out, NEW srt, NEW fts,
         Compacted(n, H, V, give, ord, kk, out, srt, fts),
         NEW G, NEW P, NEW p, NEW srt2, NEW fts2,
         Regrouped(n, give, ord, kk, out, srt, fts, G, P, p, srt2, fts2)
  PROVE  Compacted(n, H, V, give, ord, kk + Cardinality(G), out + Cardinality(G) - Cardinality(P), srt2, fts2)
<1> DEFINE base == kk - out - 1
           c == Cardinality(P)
           slot == base + 1 .. base + c
           A == Before(ord, give, kk)
           B == ClausesAt(ord, P)
<1>a. G = GroupAt(n, srt, kk) /\ P = {j \in G : ord[j] \in give} /\ Sorts(p, P, ByKey(P, fts))
  BY Zenon DEF Regrouped
<1>b. /\ \A j \in 1 .. n : j \in slot => srt2[j] = srt[kk] /\ fts2[j] = fts[p[j - base]]
      /\ \A j \in 1 .. n : j \notin slot => srt2[j] = srt[j] /\ fts2[j] = fts[j]
      /\ srt2 = [j \in 1 .. n |-> srt2[j]] /\ fts2 = [j \in 1 .. n |-> fts2[j]]
  BY DEF Regrouped
<1>0. PICK top \in kk .. n : EndsAt(n, H, ord, srt, kk, top)
  BY GroupIsInterval
<1>1. /\ G = kk .. top
      /\ Cardinality(G) = top + 1 - kk
      /\ \A j \in kk .. top : H[ord[j]] = H[ord[kk]]
      /\ \A i \in 1 .. top : \A j \in top + 1 .. n : H[ord[i]] < H[ord[j]]
  BY <1>a, <1>0 DEF EndsAt
<1>2. /\ Argsorted(n, H, ord)
      /\ out \in 0 .. kk - 1
      /\ srt \in [1 .. n -> Int] /\ fts \in [1 .. n -> Int]
      /\ \A j \in kk .. n : srt[j] = H[ord[j]] /\ fts[j] = V[ord[j]]
      /\ \A i \in 1 .. kk - 1 : \A j \in kk .. n : H[ord[i]] < H[ord[j]]
  BY DEF Compacted
<1>3. ord \in [1 .. n -> 1 .. n]
  BY <1>2 DEF Argsorted
<1>4. PICK s : Holds(s, kk - 1 - out, Before(ord, give, kk), H, V, srt, fts)
  BY DEF Compacted
<1> DEFINE t == Through(ord, p, c)
           r == Joint(s, t, base, c)
<1>5. P \in SUBSET (kk .. top) /\ P \in SUBSET (1 .. n) /\ P \in SUBSET G
  BY <1>a, <1>1
<1>6. c \in Nat /\ c <= Cardinality(G)
  <2>1. IsFiniteSet(G)
    BY <1>1, FS_Interval
  <2>. QED  BY <1>5, <2>1, FS_Subset, FS_CardinalityType
<1>7. /\ base \in Nat /\ base = kk - 1 - out /\ base <= kk - 1
      /\ base + c <= top /\ kk + Cardinality(G) = top + 1
      /\ out + Cardinality(G) - c \in 0 .. top
      /\ (top + 1) - 1 - (out + Cardinality(G) - c) = base + c
  <2>1. Cardinality(G) = top + 1 - kk /\ out \in 0 .. kk - 1
    BY <1>1, <1>2
  <2>2. kk \in Int /\ top \in Int /\ out \in Int /\ 0 <= out /\ out <= kk - 1 /\ kk <= top /\ 1 <= kk
    BY <2>1
  <2>3. c <= top + 1 - kk /\ c \in Nat
    BY <1>6, <2>1
  <2>. HIDE DEF c
  <2>. QED  BY <2>1, <2>2, <2>3
<1>c. base \in Nat /\ c \in Nat /\ base + c <= n
  BY <1>6, <1>7
<1>8. p \in [1 .. c -> P]
  BY <1>a DEF Sorts
<1>9. \A j \in P : fts[j] = V[ord[j]] /\ srt[j] = H[ord[j]] /\ H[ord[j]] = H[ord[kk]]
  <2>1. ASSUME NEW j \in P PROVE j \in kk .. top /\ j \in kk .. n
    BY <1>1, <1>5
  <2>. QED  BY <1>1, <1>2, <2>1
<1>10. /\ B \in SUBSET (1 .. n) /\ IsFiniteSet(B) /\ Cardinality(B) = c
       /\ Sorts(t, B, ByFeature(B, H, V))
  <2>1. InGroup(P, H, V, ord, fts)
    BY <1>9 DEF InGroup
  <2>2. Argsorted(n, H, ord) /\ Sorts(p, P, ByKey(P, fts)) /\ P \in SUBSET (1 .. n)
    BY <1>a, <1>2, <1>5
  <2>. QED  BY <2>1, <2>2, SortsGroup, Zenon
<1>11. /\ IsFiniteSet(A) /\ Cardinality(A) = base
       /\ Sorts(s, A, ByFeature(A, H, V))
       /\ \A i \in 1 .. base : srt[i] = H[s[i]] /\ fts[i] = V[s[i]]
       /\ s \in [1 .. base -> A]
  BY <1>4, <1>7 DEF Holds, Sorts
<1>12. /\ A \in SUBSET (1 .. n)
       /\ Under(A, B, H)
  <2>1. ASSUME NEW x \in A PROVE \E i \in 1 .. kk - 1 : x = ord[i]
    BY DEF Before, ClausesAt
  <2>2. ASSUME NEW y \in B PROVE \E j \in kk .. n : y = ord[j]
    BY <1>1, <1>5, SMTT(40) DEF ClausesAt
  <2>3. A \in SUBSET (1 .. n)
    BY <1>3, <2>1
  <2>. HIDE DEF A, B
  <2>. QED  BY <1>2, <2>1, <2>2, <2>3 DEF Under
<1>13. A \cup B = Before(ord, give, top + 1)
  <2>1. {i \in 1 .. (top + 1) - 1 : ord[i] \in give} = {i \in 1 .. kk - 1 : ord[i] \in give} \cup P
    BY <1>a, <1>1
  <2>2. \A X, Y : ClausesAt(ord, X \cup Y) = ClausesAt(ord, X) \cup ClausesAt(ord, Y)
    BY Zenon DEF ClausesAt
  <2>. QED  BY <2>1, <2>2 DEF Before
<1>. HIDE DEF A, B, t, c, r, base, slot
<1>14. /\ IsFiniteSet(A \cup B) /\ Cardinality(A \cup B) = base + c
       /\ Sorts(r, A \cup B, ByFeature(A \cup B, H, V))
  <2> DEFINE K == A \cup B
             HK == [x \in K |-> H[x]]
             VK == [x \in K |-> V[x]]
  <2>1. K \in SUBSET (1 .. n) /\ K \in SUBSET Int /\ A \in SUBSET Int /\ B \in SUBSET Int
    BY <1>10, <1>12
  <2>2. HK \in [K -> Int] /\ VK \in [K -> Int]
    BY <2>1
  <2>3. \A X \in SUBSET K : ByFeature(X, H, V) = ByFeature(X, HK, VK)
    BY DEF ByFeature
  <2>4. Under(A, B, HK)
    BY <1>12 DEF Under
  <2>5. A \in SUBSET K /\ B \in SUBSET K /\ K \in SUBSET K
    OBVIOUS
  <2>. HIDE DEF K, HK, VK
  <2>6. Sorts(s, A, ByFeature(A, HK, VK)) /\ Sorts(t, B, ByFeature(B, HK, VK))
    BY <1>10, <1>11, <2>3, <2>5
  <2>7. K = A \cup B
    BY DEF K
  <2>8. /\ IsFiniteSet(K) /\ Cardinality(K) = base + c
        /\ Sorts(r, K, ByFeature(K, HK, VK))
    <3>1. IsFiniteSet(A) /\ IsFiniteSet(B) /\ base = Cardinality(A) /\ c = Cardinality(B)
      BY <1>10, <1>11
    <3>2. /\ IsFiniteSet(K) /\ Cardinality(K) = Cardinality(A) + Cardinality(B)
          /\ Sorts(Joint(s, t, Cardinality(A), Cardinality(B)), K, ByFeature(K, HK, VK))
      BY <2>1, <2>2, <2>4, <2>6, <2>7, <3>1, SortsUnion, Zenon
    <3>. QED  BY <3>1, <3>2 DEF r
  <2>. QED  BY <2>3, <2>5, <2>7, <2>8
<1>15. \A j \in 1 .. base : srt2[j] = srt[j] /\ fts2[j] = fts[j]
  <2>1. \A j \in 1 .. base : j \in 1 .. n /\ ~(j \in slot)
    BY <1>1, <1>6, <1>7, SMTT(40) DEF slot
  <2>. QED  BY <1>b, <2>1
<1>16. \A j \in top + 1 .. n : srt2[j] = srt[j] /\ fts2[j] = fts[j]
  <2>1. \A j \in top + 1 .. n : j \in 1 .. n /\ ~(j \in slot)
    BY <1>1, <1>6, <1>7 DEF slot
  <2>. QED  BY <1>b, <2>1
<1>17. ASSUME NEW m \in 1 .. base + c PROVE srt2[m] = H[r[m]] /\ fts2[m] = V[r[m]]
  <2>1. CASE m <= base
    <3>1. m \in 1 .. base /\ r[m] = s[m]
      BY <1>c, <2>1, SMTT(40) DEF r, Joint
    <3>. QED  BY <1>11, <1>15, <3>1
  <2>2. CASE ~(m <= base)
    <3>1. m \in slot /\ m \in 1 .. n /\ m - base \in 1 .. c
      BY <1>c, <2>2 DEF slot
    <3>2. p[m - base] \in P
      BY <1>8, <3>1
    <3>3. r[m] = ord[p[m - base]]
      BY <1>c, <2>2, <3>1 DEF r, t, Joint, Through
    <3>4. srt2[m] = srt[kk] /\ fts2[m] = fts[p[m - base]]
      BY <1>b, <3>1
    <3>5. srt[kk] = H[ord[kk]]
      BY <1>2
    <3>. QED  BY <1>9, <3>2, <3>3, <3>4, <3>5
  <2>. QED  BY <2>1, <2>2
<1>18. srt2 \in [1 .. n -> Int] /\ fts2 \in [1 .. n -> Int]
  <2>1. ASSUME NEW j \in 1 .. n, j \in slot PROVE fts[p[j - base]] \in Int
    <3>1. j - base \in 1 .. c
      BY <1>c, <2>1 DEF slot
    <3>2. p[j - base] \in 1 .. n
      BY <1>5, <1>8, <3>1
    <3>. QED  BY <1>2, <3>2
  <2>2. srt[kk] \in Int
    BY <1>2
  <2>3. \A j \in 1 .. n : srt2[j] \in Int /\ fts2[j] \in Int
    BY <1>b, <1>2, <2>1, <2>2
  <2>. QED  BY <1>b, <2>3
<1>19. Holds(r, base + c, Before(ord, give, top + 1), H, V, srt2, fts2)
  <2>1. A \cup B \in SUBSET Int
    BY <1>10, <1>12
  <2>. QED  BY <1>13, <1>14, <1>17, <2>1 DEF Holds
<1>20. Compacted(n, H, V, give, ord, top + 1, out + Cardinality(G) - c, srt2, fts2)
  <2>1. top + 1 \in 1 .. n + 1 /\ out + Cardinality(G) - c \in 0 .. (top + 1) - 1
    BY <1>1, <1>7
  <2>2. \A j \in top + 1 .. n : srt2[j] = H[ord[j]] /\ fts2[j] = V[ord[j]]
    <3>1. \A j \in top + 1 .. n : j \in kk .. n
      BY <1>1
    <3>. QED  BY <1>2, <1>16, <3>1
  <2>3. \A i \in 1 .. (top + 1) - 1 : \A j \in top + 1 .. n : H[ord[i]] < H[ord[j]]
    BY <1>1
  <2>4. \E q : Holds(q, (top + 1) - 1 - (out + Cardinality(G) - c), Before(ord, give, top + 1), H, V, srt2, fts2)
    BY <1>7, <1>19
  <2>. QED  BY <1>2, <1>18, <2>1, <2>2, <2>3, <2>4 DEF Compacted
<1>. QED  BY <1>7, <1>20 DEF c

-----------------------------------------------------------------------------
(***************************************************************************)
(* Hashes are numbers                                                      *)
(***************************************************************************)

(* The hash of a finite set of arguments is a number.                      *)
LEMMA SetHashType ==
  ASSUME NEW S \in SUBSET Nat, IsFiniteSet(S)
  PROVE  SetHash(S) \in Nat
<1> DEFINE top == Max(S \cup {0})
           bit(d) == IF top + 1 - d \in S THEN 1 ELSE 0
           step(b, d) == IF d = 0 THEN 0 ELSE 2 * b[d - 1] + bit(d)
           solves(b) == b = [d \in 0 .. top |-> step(b, d)]
           upto(m) == \E b \in [0 .. top -> Nat] : \A d \in 0 .. m : b[d] = step(b, d)
           bits == CHOOSE b : solves(b)
<1>1. top \in Nat
  <2> DEFINE U == S \cup {0}
  <2>1. U \in SUBSET Int /\ U # {} /\ IsFiniteSet(U)
    BY FS_AddElement
  <2>2. U \in SUBSET Nat
    OBVIOUS
  <2>. HIDE DEF U
  <2>3. Max(U) \in U
    BY <2>1, MaxIsGreatest
  <2>. QED  BY <2>2, <2>3 DEF U
<1>. HIDE DEF top
<1>2. \A d : bit(d) \in Nat
  OBVIOUS
<1>. HIDE DEF bit
<1>3. upto(0)
  <2>1. [d \in 0 .. top |-> 0] \in [0 .. top -> Nat]
    OBVIOUS
  <2>2. \A d \in 0 .. 0 : [e \in 0 .. top |-> 0][d] = step([e \in 0 .. top |-> 0], d)
    BY <1>1
  <2>. QED  BY <2>1, <2>2
<1>4. ASSUME NEW m \in 1 .. top, upto(m - 1) PROVE upto(m)
  <2>1. PICK b \in [0 .. top -> Nat] : \A d \in 0 .. m - 1 : b[d] = step(b, d)
    BY <1>4
  <2> DEFINE e == 2 * b[m - 1] + bit(m)
             c == [d \in 0 .. top |-> IF d = m THEN e ELSE b[d]]
  <2>2. e \in Nat
    <3>1. b[m - 1] \in Nat
      BY <1>1
    <3>. QED  BY <1>2, <3>1
  <2>. HIDE DEF e
  <2>3. c \in [0 .. top -> Nat]
    BY <2>2
  <2>4. ASSUME NEW d \in 0 .. m PROVE c[d] = step(c, d)
    <3>1. CASE d = m
      <4>1. c[d] = e /\ c[d - 1] = b[m - 1] /\ d # 0
        BY <1>1, <3>1
      <4>. HIDE DEF c
      <4>. QED  BY <3>1, <4>1 DEF e
    <3>2. CASE d # m
      <4>1. d \in 0 .. m - 1 /\ c[d] = b[d] /\ (d # 0 => c[d - 1] = b[d - 1])
        BY <1>1, <3>2
      <4>. HIDE DEF c
      <4>. QED  BY <2>1, <4>1
    <3>. QED  BY <3>1, <3>2
  <2>. HIDE DEF c
  <2>. QED  BY <2>3, <2>4
<1>5. upto(top)
  <2> DEFINE A == {m \in 0 .. top : upto(m)}
  <2>. HIDE DEF upto
  <2>1. 0 \in A
    BY <1>1, <1>3
  <2>2. \A i \in 1 .. top : i - 1 \in A => i \in A
    BY <1>1, <1>4
  <2>3. top \in A
    <3>. HIDE DEF A
    <3>1. \A i \in 0 .. top : i \in A
      BY <1>1, <2>1, <2>2, Reached
    <3>. QED  BY <1>1, <3>1
  <2>. QED  BY <2>3
<1>6. solves(bits)
  <2>1. PICK b \in [0 .. top -> Nat] : \A d \in 0 .. top : b[d] = step(b, d)
    BY <1>5
  <2>2. b = [d \in 0 .. top |-> b[d]]
    OBVIOUS
  <2>. HIDE DEF step
  <2>3. solves(b)
    BY <2>1, <2>2
  <2>. HIDE DEF solves
  <2>. QED  BY <2>3
<1>7. SetHash(S) = bits[top]
  BY DEF SetHash, top, bit
<1>. HIDE DEF bits
<1>8. \A d \in 0 .. top : bits[d] = step(bits, d)
  BY <1>6
<1>9. bits[top] \in Nat
  <2> DEFINE A == {m \in 0 .. top : bits[m] \in Nat}
  <2>1. 0 \in A
    BY <1>1, <1>8
  <2>2. ASSUME NEW i \in 1 .. top, i - 1 \in A PROVE i \in A
    <3>1. bits[i - 1] \in Nat /\ i \in 0 .. top /\ i # 0
      BY <1>1, <2>2
    <3>2. bits[i] = 2 * bits[i - 1] + bit(i)
      BY <1>8, <3>1
    <3>. QED  BY <1>2, <3>1, <3>2
  <2>3. top \in A
    <3>. HIDE DEF A
    <3>1. \A i \in 0 .. top : i \in A
      BY <1>1, <2>1, <2>2, Reached
    <3>. QED  BY <1>1, <3>1
  <2>. QED  BY <2>3
<1>. QED  BY <1>7, <1>9

(* The arguments of the equalities of a list of clauses are finitely many  *)
(* positive numbers.                                                       *)
LEMMA ArgSetType ==
  ASSUME NEW cl \in Seq(Clauses)
  PROVE  /\ ArgSet(cl) \in SUBSET (Nat \ {Const})
         /\ IsFiniteSet(ArgSet(cl))
<1>1. ASSUME NEW j \in DOMAIN cl PROVE Sides(cl[j]) \in SUBSET (Nat \ {Const}) /\ IsFiniteSet(Sides(cl[j]))
  <2> DEFINE args == cl[j].args
             D == 1 .. Len(args)
  <2>1. args \in Seq(Nat)
    BY DEF Clauses
  <2>. HIDE DEF args
  <2>2. Len(args) \in Nat /\ DOMAIN args = D /\ args \in [D -> Nat]
    BY <2>1
  <2>3. IsFiniteSet(D)
    BY <2>2, FS_Interval
  <2>4. args \in Surjection(D, ToSet(args)) /\ ToSet(args) \in SUBSET Nat
    BY <2>2 DEF Surjection, ToSet
  <2>. HIDE DEF D
  <2>5. IsFiniteSet(ToSet(args))
    BY <2>3, <2>4, FS_Surjection
  <2>6. IsFiniteSet(ToSet(args) \ {Const})
    BY <2>5, FS_Difference
  <2>. QED  BY <2>4, <2>6 DEF Sides, args
<1> DEFINE J == {j \in DOMAIN cl : cl[j].eq}
           all == {Sides(cl[j]) : j \in J}
           f == [j \in J |-> Sides(cl[j])]
<1>2. IsFiniteSet(J)
  <2>1. IsFiniteSet(DOMAIN cl)
    <3>1. DOMAIN cl = 1 .. Len(cl) /\ Len(cl) \in Nat
      OBVIOUS
    <3>. QED  BY <3>1, FS_Interval
  <2>2. J \in SUBSET DOMAIN cl
    OBVIOUS
  <2>. HIDE DEF J
  <2>. QED  BY <2>1, <2>2, FS_Subset
<1>3. f \in Surjection(J, all)
  BY DEF Surjection
<1>4. \A X \in all : IsFiniteSet(X) /\ X \in SUBSET (Nat \ {Const})
  BY <1>1
<1>5. ArgSet(cl) = UNION all
  BY DEF ArgSet
<1>. HIDE DEF J, all, f
<1>6. IsFiniteSet(all)
  BY <1>2, <1>3, FS_Surjection
<1>7. IsFiniteSet(UNION all)
  BY <1>4, <1>6, FS_UNION
<1>. QED  BY <1>4, <1>5, <1>7

(* The hash of a clause is a number, whatever the classes of arguments.    *)
LEMMA ClauseHashType ==
  ASSUME NEW c \in Clauses, NEW A, NEW B \in SUBSET Nat, IsFiniteSet(B),
         NEW class \in [A -> SUBSET B]
  PROVE  ClauseHash(c, class) \in Int
<1>1. ASSUME NEW a \in Nat PROVE ArgHash(a, class) \in Nat
  <2>1. CASE a \in A
    <3>1. class[a] \in SUBSET B
      BY <2>1
    <3>2. IsFiniteSet(class[a])
      BY <3>1, FS_Subset
    <3>3. SetHash(class[a]) \in Nat
      BY <3>1, <3>2, SetHashType
    <3>4. ArgHash(a, class) = 1000 + SetHash(class[a])
      BY <2>1 DEF ArgHash
    <3>. QED  BY <3>3, <3>4
  <2>2. CASE a \notin A
    BY <2>2 DEF ArgHash
  <2>. QED  BY <2>1, <2>2
<1>2. c.args = <<>> \/ (c.args[1] \in Nat /\ c.args[2] \in Nat)
  BY DEF Clauses
<1>3. CASE c.args = <<>>
  BY <1>3, SMTT(30) DEF ClauseHash
<1>4. CASE c.args # <<>>
  <2> DEFINE x == ArgHash(c.args[1], class)
             y == ArgHash(c.args[2], class)
  <2>1. x \in Nat /\ y \in Nat
    BY <1>1, <1>2, <1>4
  <2>2. \/ ClauseHash(c, class) = x
        \/ ClauseHash(c, class) = 100000000 * 1 + 10000 * x + y
        \/ ClauseHash(c, class) = 100000000 * 2 + 10000 * x + y
    BY <1>4, SMTT(30) DEF ClauseHash
  <2>. HIDE DEF x, y
  <2>. QED  BY <2>1, <2>2, SMTT(30)
<1>. QED  BY <1>3, <1>4

-----------------------------------------------------------------------------
(***************************************************************************)
(* The subspace by definition                                              *)
(***************************************************************************)

(* The sides of an equality without constants, and of another equality.    *)
LEMMA SidesAre ==
  ASSUME NEW c \in Clauses, c.eq
  PROVE  /\ ~HasConst(c) => Sides(c) = {c.args[1], c.args[2]}
         /\ HasConst(c) => \A x, y \in Sides(c) : x = y
<1> DEFINE args == c.args
<1>1. args \in Seq(Nat) /\ Len(args) = 2
  BY DEF Clauses
<1>. HIDE DEF args
<1>2. ToSet(args) = {args[1], args[2]}
  <2>1. DOMAIN args = {1, 2}
    BY <1>1
  <2>. QED  BY <2>1 DEF ToSet
<1>3. Sides(c) = {args[1], args[2]} \ {Const}
  BY <1>2 DEF Sides, args
<1>4. HasConst(c) <=> Const \in {args[1], args[2]}
  BY <1>2 DEF HasConst, args
<1>. QED  BY <1>3, <1>4 DEF args

(* The sides of the equalities of a list are among its arguments.          *)
LEMMA SidesWithin ==
  ASSUME NEW cl, NEW j \in DOMAIN cl, cl[j].eq
  PROVE  Sides(cl[j]) \in SUBSET ArgSet(cl)
BY DEF ArgSet

\* X has both sides or no side of each of the first m equalities.
ClosedUnder(cl, m, X) ==
    \A j \in 1 .. m : cl[j].eq => Sides(cl[j]) \subseteq X \/ Sides(cl[j]) \cap X = {}

\* The first m clauses connect a and b.
Linked(cl, m, a, b) ==
    \A X \in SUBSET ArgSet(cl) : ClosedUnder(cl, m, X) /\ a \in X => b \in X

(* Without clauses an argument is connected to itself only.                *)
LEMMA LinkedAtFirst ==
  ASSUME NEW cl, NEW a \in ArgSet(cl), NEW b \in ArgSet(cl)
  PROVE  Linked(cl, 0, a, b) <=> a = b
<1>1. ClosedUnder(cl, 0, {a})
  BY DEF ClosedUnder
<1>. QED  BY <1>1 DEF Linked

(* A clause that is not an equality of two expressions connects nothing.   *)
LEMMA LinkedAsBefore ==
  ASSUME NEW cl \in Seq(Clauses), NEW m \in 1 .. Len(cl), ~(cl[m].eq /\ ~HasConst(cl[m])),
         NEW a, NEW b
  PROVE  Linked(cl, m, a, b) <=> Linked(cl, m - 1, a, b)
<1>1. cl[m] \in Clauses /\ m - 1 \in Nat /\ 1 .. m = (1 .. m - 1) \cup {m}
  OBVIOUS
<1>2. cl[m].eq => \A x, y \in Sides(cl[m]) : x = y
  BY <1>1, SidesAre
<1>3. \A X : cl[m].eq => Sides(cl[m]) \subseteq X \/ Sides(cl[m]) \cap X = {}
  BY <1>2
<1>4. \A X : ClosedUnder(cl, m, X) <=> ClosedUnder(cl, m - 1, X)
  BY <1>1, <1>3 DEF ClosedUnder
<1>. QED  BY <1>4 DEF Linked

\* K tells apart what the first m clauses do not connect.
Tells(K, cl, m) == \A a, b \in ArgSet(cl) : K[a] = K[b] <=> Linked(cl, m, a, b)

\* Q joins the classes that K gives x and y.
Unifies(Q, K, A, x, y) ==
    \A a, b \in A : Q[a] = Q[b] <=> K[a] = K[b] \/ (K[a] \in {K[x], K[y]} /\ K[b] \in {K[x], K[y]})

(* An equality of two expressions connects what is connected to its sides. *)
LEMMA LinkedByEquality ==
  ASSUME NEW cl \in Seq(Clauses), NEW m \in 1 .. Len(cl), cl[m].eq, ~HasConst(cl[m]),
         NEW K, NEW Q, NEW x, NEW y, x = cl[m].args[1], y = cl[m].args[2],
         Tells(K, cl, m - 1), Unifies(Q, K, ArgSet(cl), x, y)
  PROVE  Tells(Q, cl, m)
<1> DEFINE A == ArgSet(cl)
<1>1. cl[m] \in Clauses /\ m \in DOMAIN cl
  OBVIOUS
<1>2. Sides(cl[m]) = {x, y} /\ x \in A /\ y \in A
  BY <1>1, SidesAre, SidesWithin
<1>. HIDE DEF A
<1>3. ASSUME NEW a \in A, NEW b \in A, Q[a] = Q[b] PROVE Linked(cl, m, a, b)
  <2>. SUFFICES ASSUME NEW X \in SUBSET A, ClosedUnder(cl, m, X), a \in X PROVE b \in X
    BY DEF Linked, A
  <2>1. ClosedUnder(cl, m - 1, X)
    BY DEF ClosedUnder
  <2>2. x \in X <=> y \in X
    <3>1. Sides(cl[m]) \subseteq X \/ Sides(cl[m]) \cap X = {}
      BY DEF ClosedUnder
    <3>. QED  BY <1>2, <3>1
  <2>3. \A u, w \in A : K[u] = K[w] /\ u \in X => w \in X
    BY <2>1 DEF Tells, Linked, A
  <2>4. CASE K[a] = K[b]
    BY <2>3, <2>4
  <2>5. CASE K[a] \in {K[x], K[y]} /\ K[b] \in {K[x], K[y]}
    <3>1. x \in X \/ y \in X
      BY <1>2, <2>3, <2>5
    <3>2. x \in X /\ y \in X
      BY <2>2, <3>1
    <3>. QED  BY <1>2, <2>3, <2>5, <3>2
  <2>6. K[a] = K[b] \/ (K[a] \in {K[x], K[y]} /\ K[b] \in {K[x], K[y]})
    BY <1>3, Zenon DEF Unifies, A
  <2>. QED  BY <2>4, <2>5, <2>6
<1>4. ASSUME NEW a \in A, NEW b \in A, Linked(cl, m, a, b) PROVE Q[a] = Q[b]
  <2> DEFINE X == {z \in A : Q[z] = Q[a]}
  <2>0. \A z \in A : z \in X <=> Q[z] = Q[a]
    OBVIOUS
  <2>1. X \in SUBSET A /\ a \in X
    OBVIOUS
  <2>. HIDE DEF X
  <2>2. ASSUME NEW j \in 1 .. m, cl[j].eq
        PROVE  Sides(cl[j]) \subseteq X \/ Sides(cl[j]) \cap X = {}
    <3>1. j \in DOMAIN cl /\ Sides(cl[j]) \in SUBSET A
      BY <2>2, SidesWithin DEF A
    <3>2. ASSUME NEW s \in Sides(cl[j]), NEW t \in Sides(cl[j]) PROVE Q[s] = Q[t]
      <4>1. s \in A /\ t \in A
        BY <3>1
      <4>2. CASE j = m
        BY <1>2, <4>2 DEF Unifies, A
      <4>3. CASE j # m
        <5>1. j \in 1 .. m - 1
          BY <4>3
        <5>2. Linked(cl, m - 1, s, t)
          BY <2>2, <5>1 DEF Linked, ClosedUnder
        <5>3. K[s] = K[t]
          BY <4>1, <5>2 DEF Tells, A
        <5>. QED  BY <4>1, <5>3 DEF Unifies, A
      <4>. QED  BY <4>2, <4>3
    <3>. QED  BY <2>0, <3>1, <3>2
  <2>3. ClosedUnder(cl, m, X)
    BY <2>2 DEF ClosedUnder
  <2>4. b \in X
    BY <1>4, <2>1, <2>3 DEF Linked, A
  <2>. QED  BY <2>0, <2>4
<1>. QED  BY <1>3, <1>4 DEF Tells, A

(* What the first m clauses connect is the class of the list of these      *)
(* clauses, or the argument alone if none of them has it.                  *)
LEMMA LinkedIsClass ==
  ASSUME NEW cl \in Seq(Clauses), NEW m \in 0 .. Len(cl), NEW a \in ArgSet(cl)
  PROVE  {b \in ArgSet(cl) : Linked(cl, m, a, b)}
            = IF a \in DOMAIN Classes(SubSeq(cl, 1, m)) THEN Classes(SubSeq(cl, 1, m))[a] ELSE {a}
<1> DEFINE pre == SubSeq(cl, 1, m)
           P == ArgSet(pre)
           A == ArgSet(cl)
<1>1. DOMAIN pre = 1 .. m /\ \A j \in 1 .. m : pre[j] = cl[j] /\ j \in DOMAIN cl
  OBVIOUS
<1>. HIDE DEF pre
<1>2. P \in SUBSET A /\ \A j \in 1 .. m : cl[j].eq => Sides(cl[j]) \in SUBSET P
  BY <1>1 DEF ArgSet
<1>3. \A z \in P : \E j \in 1 .. m : cl[j].eq /\ z \in Sides(cl[j])
  BY <1>1 DEF ArgSet
<1> DEFINE closed == {X \in SUBSET P : \A j \in DOMAIN pre :
                        pre[j].eq => Sides(pre[j]) \subseteq X \/ Sides(pre[j]) \cap X = {}}
<1>4. Classes(pre) = [z \in P |-> {b \in P : \A X \in closed : z \in X => b \in X}]
  BY DEF Classes
<1>5. \A X \in SUBSET P : X \in closed <=> ClosedUnder(cl, m, X)
  BY <1>1 DEF ClosedUnder
<1>. HIDE DEF P, A, closed
<1>6. CASE a \in P
  <2>1. DOMAIN Classes(pre) = P /\ Classes(pre)[a] = {b \in P : \A X \in closed : a \in X => b \in X}
    BY <1>4, <1>6
  <2>2. ASSUME NEW b \in A, Linked(cl, m, a, b)
        PROVE  b \in P /\ \A X \in closed : a \in X => b \in X
    <3>1. ClosedUnder(cl, m, P)
      BY <1>2 DEF ClosedUnder
    <3>2. b \in P
      BY <1>2, <1>6, <2>2, <3>1 DEF Linked, A
    <3>3. ASSUME NEW X \in closed, a \in X PROVE b \in X
      <4>1. X \in SUBSET P
        BY DEF closed
      <4>. QED  BY <1>2, <1>5, <2>2, <3>3, <4>1 DEF Linked, A
    <3>. QED  BY <3>2, <3>3
  <2>3. ASSUME NEW b \in P, \A X \in closed : a \in X => b \in X
        PROVE  b \in A /\ Linked(cl, m, a, b)
    <3>1. ASSUME NEW X \in SUBSET A, ClosedUnder(cl, m, X), a \in X PROVE b \in X
      <4> DEFINE Y == X \cap P
      <4>1. Y \in SUBSET P /\ a \in Y
        BY <1>6, <3>1
      <4>2. ASSUME NEW j \in 1 .. m, cl[j].eq
            PROVE  Sides(cl[j]) \subseteq Y \/ Sides(cl[j]) \cap Y = {}
        <5>1. Sides(cl[j]) \in SUBSET P /\ (Sides(cl[j]) \subseteq X \/ Sides(cl[j]) \cap X = {})
          BY <1>2, <3>1, <4>2 DEF ClosedUnder
        <5>. QED  BY <5>1
      <4>3. ClosedUnder(cl, m, Y)
        <5>. HIDE DEF Y
        <5>. QED  BY <4>2 DEF ClosedUnder
      <4>4. b \in Y
        <5>. HIDE DEF Y
        <5>. QED  BY <1>5, <2>3, <4>1, <4>3
      <4>. QED  BY <4>4
    <3>. QED  BY <1>2, <3>1 DEF Linked, A
  <2>4. {b \in A : Linked(cl, m, a, b)} = {b \in P : \A X \in closed : a \in X => b \in X}
    BY <2>2, <2>3
  <2>. QED  BY <1>6, <2>1, <2>4 DEF A, pre
<1>7. CASE a \notin P
  <2>1. a \notin DOMAIN Classes(pre)
    BY <1>4, <1>7
  <2>2. ClosedUnder(cl, m, {a})
    BY <1>2, <1>7 DEF ClosedUnder
  <2>3. ASSUME NEW b \in A, Linked(cl, m, a, b) PROVE b = a
    BY <2>2, <2>3 DEF Linked, A
  <2>4. Linked(cl, m, a, a)
    BY DEF Linked
  <2>. QED  BY <2>1, <2>3, <2>4 DEF A, pre
<1>. QED  BY <1>6, <1>7

\* The clamped features of the clauses, and the clauses that give one
Values(cl) == [j \in DOMAIN cl |-> Clamp(cl[j].feature)]

Giving(cl) == {j \in DOMAIN cl : Gives(cl, Hashes(cl), j)}

(* The classes are sets of arguments, the hashes and values numbers.       *)
LEMMA HashesType ==
  ASSUME NEW cl \in Seq(Clauses)
  PROVE  /\ Classes(cl) \in [ArgSet(cl) -> SUBSET ArgSet(cl)]
         /\ Hashes(cl) \in [1 .. Len(cl) -> Int]
         /\ Values(cl) \in [1 .. Len(cl) -> Int]
         /\ Giving(cl) \in SUBSET (1 .. Len(cl)) /\ IsFiniteSet(Giving(cl))
<1>1. DOMAIN cl = 1 .. Len(cl) /\ \A j \in 1 .. Len(cl) : cl[j] \in Clauses
  OBVIOUS
<1>2. Classes(cl) \in [ArgSet(cl) -> SUBSET ArgSet(cl)]
  BY DEF Classes
<1>3. ArgSet(cl) \in SUBSET Nat /\ IsFiniteSet(ArgSet(cl))
  BY ArgSetType
<1>4. \A j \in 1 .. Len(cl) : ClauseHash(cl[j], Classes(cl)) \in Int
  BY <1>1, <1>2, <1>3, ClauseHashType
<1>5. Hashes(cl) \in [1 .. Len(cl) -> Int]
  BY <1>1, <1>4 DEF Hashes
<1>6. \A j \in 1 .. Len(cl) : Clamp(cl[j].feature) \in Int
  BY <1>1 DEF Clauses, Clamp, LowerBound
<1>7. Values(cl) \in [1 .. Len(cl) -> Int]
  BY <1>1, <1>6 DEF Values
<1>8. Giving(cl) \in SUBSET (1 .. Len(cl))
  BY <1>1 DEF Giving
<1>9. IsFiniteSet(1 .. Len(cl))
  BY FS_Interval
<1>. QED  BY <1>2, <1>5, <1>7, <1>8, <1>9, FS_Subset

\* The features and classes of a list of clauses, by definition
FeatureOrder(cl) == SortBy(Giving(cl), ByFeature(Giving(cl), Hashes(cl), Values(cl)))

ByDefinition(cl) ==
    [hashes  |-> FssHash(cl).clauses, classes |-> FssHash(cl).classes,
     values  |-> [m \in DOMAIN Features(cl) |-> Features(cl)[m].value]]

\* A result with the hashes and values of the clauses that s lists, m of them
ResultOf(cl, s, m) ==
    [hashes  |-> [i \in 1 .. m |-> Hashes(cl)[s[i]]],
     classes |-> [i \in DOMAIN ArgSeq(cl) |-> SetHash(Classes(cl)[ArgSeq(cl)[i]])],
     values  |-> [i \in 1 .. m |-> Values(cl)[s[i]]]]

(* The definition lists the clauses that give a feature in order.          *)
LEMMA DefinitionLists ==
  ASSUME NEW cl \in Seq(Clauses)
  PROVE  /\ Sorts(FeatureOrder(cl), Giving(cl), ByFeature(Giving(cl), Hashes(cl), Values(cl)))
         /\ ByDefinition(cl) = ResultOf(cl, FeatureOrder(cl), Cardinality(Giving(cl)))
<1> DEFINE D == Giving(cl)
           H == Hashes(cl)
           V == Values(cl)
           o == FeatureOrder(cl)
           f == Features(cl)
           m == Cardinality(D)
<1>1. /\ H \in [1 .. Len(cl) -> Int] /\ V \in [1 .. Len(cl) -> Int]
      /\ D \in SUBSET (1 .. Len(cl)) /\ IsFiniteSet(D)
  BY HashesType
<1>2. f = [i \in DOMAIN o |-> [hash |-> H[o[i]], value |-> V[o[i]]]]
  BY DEF Features, FeatureOrder, Giving, Values
<1>3. o = SortBy(D, ByFeature(D, H, V))
  BY DEF FeatureOrder
<1>4. /\ FssHash(cl).clauses = [i \in DOMAIN f |-> f[i].hash]
      /\ FssHash(cl).classes = [i \in DOMAIN ArgSeq(cl) |-> SetHash(Classes(cl)[ArgSeq(cl)[i]])]
  BY DEF FssHash
<1>. HIDE DEF D, H, V, o, f
<1>5. Sorts(o, D, ByFeature(D, H, V))
  <2>1. D \in SUBSET Int /\ \A i \in D : H[i] \in Int /\ V[i] \in Int
    BY <1>1
  <2>2. StrictOrder(D, ByFeature(D, H, V))
    BY <2>1, OrdersAreStrict
  <2>. QED  BY <1>1, <1>3, <2>2, SortBySorts
<1>6. DOMAIN o = 1 .. m
  BY <1>5 DEF Sorts
<1>7. DOMAIN f = 1 .. m /\ \A i \in 1 .. m : f[i].hash = H[o[i]] /\ f[i].value = V[o[i]]
  BY <1>2, <1>6
<1>8. /\ [i \in DOMAIN f |-> f[i].hash] = [i \in 1 .. m |-> H[o[i]]]
      /\ [i \in DOMAIN f |-> f[i].value] = [i \in 1 .. m |-> V[o[i]]]
  BY <1>7
<1>9. ByDefinition(cl) = ResultOf(cl, o, m)
  BY <1>4, <1>8 DEF ByDefinition, ResultOf, f, H, V
<1>. QED  BY <1>5, <1>9 DEF D, H, V, o

-----------------------------------------------------------------------------
(***************************************************************************)
(* Other ways of writing the object                                        *)
(***************************************************************************)

\* c is d, or d with its sides exchanged if d is an equality of expressions.
Alike(c, d) ==
    /\ c.eq = d.eq /\ c.feature = d.feature
    /\ \/ c.args = d.args
       \/ d.eq /\ ~HasConst(d) /\ c.args = <<d.args[2], d.args[1]>>

\* cl has the clauses of list, each once, at the places f says, or alike.
Rearranges(cl, list, f) ==
    /\ f \in [DOMAIN cl -> DOMAIN list]
    /\ \A i, j \in DOMAIN cl : f[i] = f[j] => i = j
    /\ \A x \in DOMAIN list : \E j \in DOMAIN cl : f[j] = x
    /\ \A j \in DOMAIN cl : Alike(cl[j], list[f[j]])

(* Clauses that are alike have the same sides and the same feature.        *)
LEMMA AlikeSides ==
  ASSUME NEW c \in Clauses, NEW d \in Clauses, Alike(c, d)
  PROVE  Sides(c) = Sides(d) /\ (HasConst(c) <=> HasConst(d)) /\ c.eq = d.eq /\ c.feature = d.feature
<1>1. c.eq = d.eq /\ c.feature = d.feature
  BY DEF Alike
<1>2. ToSet(c.args) = ToSet(d.args)
  <2>1. CASE c.args = d.args
    BY <2>1
  <2>2. CASE d.eq /\ c.args = <<d.args[2], d.args[1]>>
    <3> DEFINE args == d.args
    <3>1. args \in Seq(Nat) /\ Len(args) = 2
      BY <2>2 DEF Clauses
    <3>. HIDE DEF args
    <3>2. DOMAIN args = {1, 2} /\ c.args = <<args[2], args[1]>>
      BY <2>2, <3>1 DEF args
    <3>3. ToSet(args) = {args[1], args[2]}
      BY <3>2 DEF ToSet
    <3>4. ToSet(<<args[2], args[1]>>) = {args[1], args[2]}
      BY DEF ToSet
    <3>. QED  BY <3>2, <3>3, <3>4 DEF args
  <2>. QED  BY <2>1, <2>2 DEF Alike
<1>. QED  BY <1>1, <1>2 DEF Sides, HasConst

(* A list rearranged has the same arguments in the same classes.           *)
LEMMA SameClasses ==
  ASSUME NEW cl \in Seq(Clauses), NEW list \in Seq(Clauses), NEW f, Rearranges(cl, list, f)
  PROVE  ArgSet(cl) = ArgSet(list) /\ Classes(cl) = Classes(list)
<1>1. /\ f \in [DOMAIN cl -> DOMAIN list]
      /\ \A x \in DOMAIN list : \E j \in DOMAIN cl : f[j] = x
      /\ \A j \in DOMAIN cl : Alike(cl[j], list[f[j]])
  BY DEF Rearranges
<1>2. \A j \in DOMAIN cl : cl[j] \in Clauses
  OBVIOUS
<1>3. \A j \in DOMAIN list : list[j] \in Clauses
  OBVIOUS
<1>4. \A j \in DOMAIN cl : Sides(cl[j]) = Sides(list[f[j]]) /\ cl[j].eq = list[f[j]].eq
  BY <1>1, <1>2, <1>3, AlikeSides
<1>5. ArgSet(cl) = ArgSet(list)
  <2>1. \A z : z \in ArgSet(cl) <=> \E j \in DOMAIN cl : cl[j].eq /\ z \in Sides(cl[j])
    BY DEF ArgSet
  <2>2. \A z : z \in ArgSet(list) <=> \E j \in DOMAIN list : list[j].eq /\ z \in Sides(list[j])
    BY DEF ArgSet
  <2>3. ASSUME NEW z PROVE z \in ArgSet(cl) <=> z \in ArgSet(list)
    <3>1. ASSUME NEW j \in DOMAIN cl, cl[j].eq, z \in Sides(cl[j]) PROVE z \in ArgSet(list)
      BY <1>1, <1>4, <2>2, <3>1
    <3>2. ASSUME NEW x \in DOMAIN list, list[x].eq, z \in Sides(list[x]) PROVE z \in ArgSet(cl)
      BY <1>1, <1>4, <2>1, <3>2
    <3>. QED  BY <2>1, <2>2, <3>1, <3>2
  <2>. QED  BY <2>3
<1> DEFINE A == ArgSet(list)
           closed(l) == {X \in SUBSET A : \A j \in DOMAIN l :
                            l[j].eq => Sides(l[j]) \subseteq X \/ Sides(l[j]) \cap X = {}}
<1>6. closed(cl) = closed(list)
  <2>1. ASSUME NEW X \in SUBSET A
        PROVE  (\A j \in DOMAIN cl : cl[j].eq => Sides(cl[j]) \subseteq X \/ Sides(cl[j]) \cap X = {})
               <=> (\A j \in DOMAIN list : list[j].eq => Sides(list[j]) \subseteq X \/ Sides(list[j]) \cap X = {})
    <3> DEFINE ok(c) == c.eq => Sides(c) \subseteq X \/ Sides(c) \cap X = {}
    <3>1. \A j \in DOMAIN cl : ok(cl[j]) <=> ok(list[f[j]])
      BY <1>4
    <3>. HIDE DEF ok
    <3>2. (\A j \in DOMAIN cl : ok(cl[j])) <=> (\A j \in DOMAIN list : ok(list[j]))
      BY <1>1, <3>1
    <3>. QED  BY <3>2 DEF ok
  <2>. QED  BY <2>1
<1>7. /\ Classes(cl) = [a \in A |-> {b \in A : \A X \in closed(cl) : a \in X => b \in X}]
      /\ Classes(list) = [a \in A |-> {b \in A : \A X \in closed(list) : a \in X => b \in X}]
  BY <1>5 DEF Classes
<1>. HIDE DEF closed
<1>. QED  BY <1>5, <1>6, <1>7

(* The sides of an equality of expressions are in one class.               *)
LEMMA SidesTogether ==
  ASSUME NEW cl \in Seq(Clauses), NEW j \in DOMAIN cl, cl[j].eq, NEW x \in Sides(cl[j]), NEW y \in Sides(cl[j])
  PROVE  /\ x \in DOMAIN Classes(cl) /\ y \in DOMAIN Classes(cl)
         /\ Classes(cl)[x] = Classes(cl)[y]
<1> DEFINE A == ArgSet(cl)
           closed == {X \in SUBSET A : \A i \in DOMAIN cl :
                         cl[i].eq => Sides(cl[i]) \subseteq X \/ Sides(cl[i]) \cap X = {}}
<1>1. Classes(cl) = [a \in A |-> {b \in A : \A X \in closed : a \in X => b \in X}]
  BY DEF Classes
<1>2. x \in A /\ y \in A
  BY SidesWithin
<1>3. \A X \in closed : x \in X <=> y \in X
  OBVIOUS
<1>. HIDE DEF A, closed
<1>4. \A b \in A : (\A X \in closed : x \in X => b \in X) <=> (\A X \in closed : y \in X => b \in X)
  BY <1>3
<1>. QED  BY <1>1, <1>2, <1>4

(* A list rearranged has the same clause hashes and values, and the same   *)
(* clauses give a feature.                                                 *)
LEMMA SameHashes ==
  ASSUME NEW cl \in Seq(Clauses), NEW list \in Seq(Clauses), NEW f, Rearranges(cl, list, f)
  PROVE  \A j \in DOMAIN cl :
            /\ Hashes(cl)[j] = Hashes(list)[f[j]] /\ Values(cl)[j] = Values(list)[f[j]]
            /\ j \in Giving(cl) <=> f[j] \in Giving(list)
<1>1. /\ f \in [DOMAIN cl -> DOMAIN list]
      /\ \A i, j \in DOMAIN cl : f[i] = f[j] => i = j
      /\ \A x \in DOMAIN list : \E j \in DOMAIN cl : f[j] = x
      /\ \A j \in DOMAIN cl : Alike(cl[j], list[f[j]])
  BY DEF Rearranges
<1>2. (\A j \in DOMAIN cl : cl[j] \in Clauses) /\ (\A j \in DOMAIN list : list[j] \in Clauses)
  OBVIOUS
<1>3. \A j \in DOMAIN cl : /\ HasConst(cl[j]) <=> HasConst(list[f[j]])
                           /\ cl[j].eq = list[f[j]].eq /\ cl[j].feature = list[f[j]].feature
  BY <1>1, <1>2, AlikeSides
<1> DEFINE C == Classes(list)
<1>4. Classes(cl) = C
  BY SameClasses
<1>5. ASSUME NEW j \in DOMAIN cl PROVE ClauseHash(cl[j], C) = ClauseHash(list[f[j]], C)
  <2> DEFINE c == cl[j]
             d == list[f[j]]
  <2>. SUFFICES ClauseHash(c, C) = ClauseHash(d, C)
    OBVIOUS
  <2>1. c \in Clauses /\ d \in Clauses /\ f[j] \in DOMAIN list /\ (HasConst(c) <=> HasConst(d)) /\ c.eq = d.eq
    BY <1>1, <1>2, <1>3
  <2>2. CASE c.args = d.args
    <3>. HIDE DEF c, d, C
    <3>. QED  BY <2>1, <2>2, SMTT(30) DEF ClauseHash
  <2>3. CASE d.eq /\ ~HasConst(d) /\ c.args = <<d.args[2], d.args[1]>>
    <3>1. Sides(d) = {d.args[1], d.args[2]}
      BY <2>1, <2>3, SidesAre
    <3>2. /\ d.args[1] \in DOMAIN C /\ d.args[2] \in DOMAIN C
          /\ C[d.args[1]] = C[d.args[2]]
      BY <2>1, <2>3, <3>1, SidesTogether, SMTT(40)
    <3>. HIDE DEF c, d, C
    <3>3. d.args # <<>> /\ c.args # <<>> /\ c.args[1] = d.args[2]
      BY <2>1, <2>3 DEF Clauses
    <3>4. ArgHash(c.args[1], C) = ArgHash(d.args[1], C)
      BY <3>2, <3>3 DEF ArgHash
    <3>. QED  BY <2>1, <2>3, <3>3, <3>4, SMTT(30) DEF ClauseHash
  <2>4. Alike(c, d)
    BY <1>1
  <2>. QED  BY <2>2, <2>3, <2>4 DEF Alike
<1>6. \A j \in DOMAIN cl : Hashes(cl)[j] = Hashes(list)[f[j]] /\ Values(cl)[j] = Values(list)[f[j]]
  <2>0. \A j \in DOMAIN cl : f[j] \in DOMAIN list
    BY <1>1
  <2>. HIDE DEF C
  <2>1. /\ \A j \in DOMAIN cl : Hashes(cl)[j] = ClauseHash(cl[j], C)
        /\ \A x \in DOMAIN list : Hashes(list)[x] = ClauseHash(list[x], C)
    BY <1>4 DEF Hashes, C
  <2>2. \A j \in DOMAIN cl : Values(cl)[j] = Values(list)[f[j]]
    BY <1>1, <1>3 DEF Values
  <2>. QED  BY <1>5, <2>0, <2>1, <2>2
<1> DEFINE H == Hashes(cl)
           G == Hashes(list)
<1>7. ASSUME NEW j \in DOMAIN cl PROVE Gives(cl, H, j) <=> Gives(list, G, f[j])
  <2>. HIDE DEF H, G
  <2>1. \A i \in DOMAIN cl : H[i] = G[f[i]]
    BY <1>6 DEF H, G
  <2>2. (\A q \in DOMAIN cl \ {j} : H[q] = H[j] => HasConst(cl[q]))
        <=> (\A x \in DOMAIN list \ {f[j]} : G[x] = G[f[j]] => HasConst(list[x]))
    <3>1. ASSUME \A q \in DOMAIN cl \ {j} : H[q] = H[j] => HasConst(cl[q]),
                 NEW x \in DOMAIN list \ {f[j]}, G[x] = G[f[j]]
          PROVE  HasConst(list[x])
      <4>1. PICK q \in DOMAIN cl : f[q] = x
        BY <1>1
      <4>2. q # j /\ H[q] = H[j]
        BY <2>1, <3>1, <4>1
      <4>. QED  BY <1>3, <3>1, <4>1, <4>2
    <3>2. ASSUME \A x \in DOMAIN list \ {f[j]} : G[x] = G[f[j]] => HasConst(list[x]),
                 NEW q \in DOMAIN cl \ {j}, H[q] = H[j]
          PROVE  HasConst(cl[q])
      <4>1. f[q] \in DOMAIN list \ {f[j]} /\ G[f[q]] = G[f[j]]
        BY <1>1, <2>1, <3>2
      <4>. QED  BY <1>3, <3>2, <4>1
    <3>. QED  BY <3>1, <3>2
  <2>. QED  BY <1>3, <2>2 DEF Gives
<1>8. \A j \in DOMAIN cl : j \in Giving(cl) <=> f[j] \in Giving(list)
  BY <1>1, <1>7 DEF Giving
<1>. QED  BY <1>6, <1>8

(* A list rearranged is in the same subspace with the same features.       *)
LEMMA SameByDefinition ==
  ASSUME NEW cl \in Seq(Clauses), NEW list \in Seq(Clauses), NEW f, Rearranges(cl, list, f)
  PROVE  ByDefinition(cl) = ByDefinition(list)
<1> DEFINE S == Giving(list)
           T == Giving(cl)
           h == Hashes(list)
           v == Values(list)
           g == Hashes(cl)
           w == Values(cl)
           s == FeatureOrder(list)
           t == FeatureOrder(cl)
           r == [j \in T |-> f[j]]
<1>1. Keyed(S, h, v) /\ Keyed(T, g, w)
  <2>1. /\ h \in [1 .. Len(list) -> Int] /\ v \in [1 .. Len(list) -> Int]
        /\ S \in SUBSET (1 .. Len(list)) /\ IsFiniteSet(S)
    BY HashesType
  <2>2. /\ g \in [1 .. Len(cl) -> Int] /\ w \in [1 .. Len(cl) -> Int]
        /\ T \in SUBSET (1 .. Len(cl)) /\ IsFiniteSet(T)
    BY HashesType
  <2>. HIDE DEF S, T, h, v, g, w
  <2>3. Keyed(S, h, v)
    BY <2>1 DEF Keyed
  <2>4. Keyed(T, g, w)
    BY <2>2 DEF Keyed
  <2>. QED  BY <2>3, <2>4
<1>2. /\ Sorts(s, S, ByFeature(S, h, v)) /\ Sorts(t, T, ByFeature(T, g, w))
      /\ ByDefinition(list) = ResultOf(list, s, Cardinality(S))
      /\ ByDefinition(cl) = ResultOf(cl, t, Cardinality(T))
  BY DefinitionLists
<1>3. Renames(r, T, S, g, w, h, v)
  <2>1. /\ f \in [DOMAIN cl -> DOMAIN list]
        /\ \A i, j \in DOMAIN cl : f[i] = f[j] => i = j
        /\ \A x \in DOMAIN list : \E j \in DOMAIN cl : f[j] = x
    BY DEF Rearranges
  <2>2. T \in SUBSET (DOMAIN cl) /\ S \in SUBSET (DOMAIN list)
    BY DEF Giving
  <2>3. \A j \in DOMAIN cl : g[j] = h[f[j]] /\ w[j] = v[f[j]] /\ (j \in T <=> f[j] \in S)
    BY SameHashes
  <2>. HIDE DEF S, T, h, v, g, w
  <2>4. r \in [T -> S] /\ \A j \in T : r[j] = f[j]
    BY <2>2, <2>3
  <2>. HIDE DEF r
  <2>5. \A x \in S : \E y \in T : r[y] = x
    BY <2>1, <2>2, <2>3, <2>4
  <2>6. \A x, y \in T : r[x] = r[y] => x = y
    BY <2>1, <2>2, <2>4
  <2>7. \A y \in T : g[y] = h[r[y]] /\ w[y] = v[r[y]]
    BY <2>2, <2>3, <2>4
  <2>. QED  BY <2>4, <2>5, <2>6, <2>7 DEF Renames
<1>4. SameKeys(S, T, s, t, h, v, g, w)
  <2>. HIDE DEF S, T, h, v, g, w, s, t, r
  <2>. QED  BY <1>1, <1>2, <1>3, SortedAgree
<1>5. ArgSeq(cl) = ArgSeq(list) /\ Classes(cl) = Classes(list)
  <2>1. ArgSet(cl) = ArgSet(list) /\ Classes(cl) = Classes(list)
    BY SameClasses
  <2>. QED  BY <2>1 DEF ArgSeq
<1>6. ResultOf(list, s, Cardinality(S)) =
        [hashes  |-> [i \in 1 .. Cardinality(S) |-> h[s[i]]],
         classes |-> [i \in DOMAIN ArgSeq(list) |-> SetHash(Classes(list)[ArgSeq(list)[i]])],
         values  |-> [i \in 1 .. Cardinality(S) |-> v[s[i]]]]
  BY DEF ResultOf
<1>7. ResultOf(cl, t, Cardinality(T)) =
        [hashes  |-> [i \in 1 .. Cardinality(T) |-> g[t[i]]],
         classes |-> [i \in DOMAIN ArgSeq(cl) |-> SetHash(Classes(cl)[ArgSeq(cl)[i]])],
         values  |-> [i \in 1 .. Cardinality(T) |-> w[t[i]]]]
  BY DEF ResultOf
<1>. HIDE DEF S, T, h, v, g, w, s, t
<1>8. /\ Cardinality(S) = Cardinality(T)
      /\ \A i \in 1 .. Cardinality(S) : h[s[i]] = g[t[i]] /\ v[s[i]] = w[t[i]]
  BY <1>4 DEF SameKeys
<1>9. /\ [i \in 1 .. Cardinality(S) |-> h[s[i]]] = [i \in 1 .. Cardinality(T) |-> g[t[i]]]
      /\ [i \in 1 .. Cardinality(S) |-> v[s[i]]] = [i \in 1 .. Cardinality(T) |-> w[t[i]]]
  BY <1>8
<1>. QED  BY <1>2, <1>5, <1>6, <1>7, <1>9

-----------------------------------------------------------------------------
(***************************************************************************)
(* Lists put together                                                      *)
(***************************************************************************)

\* a has the clauses of b, in some order.
Rearranged(a, b) == \E f : Rearranges(a, b, f)

(* A list has its own clauses.                                             *)
LEMMA RearrangedSelf ==
  ASSUME NEW a \in Seq(Clauses)
  PROVE  Rearranged(a, a)
<1> DEFINE f == [j \in DOMAIN a |-> j]
<1>1. Rearranges(a, a, f)
  BY DEF Rearranges, Alike
<1>. QED  BY <1>1 DEF Rearranged

(* Only the empty list has no clauses.                                     *)
LEMMA RearrangedEmpty ==
  ASSUME NEW a \in Seq(Clauses), Rearranged(a, <<>>)
  PROVE  a = <<>>
<1>1. PICK f : Rearranges(a, <<>>, f)
  BY DEF Rearranged
<1>2. f \in [DOMAIN a -> {}]
  BY <1>1 DEF Rearranges
<1>3. DOMAIN a = {}
  BY <1>2
<1>. QED  BY <1>3

\* s consists of a at the places u and of b at the places v.
Consists(s, a, u, b, v) ==
    /\ u \in [DOMAIN a -> DOMAIN s] /\ v \in [DOMAIN b -> DOMAIN s]
    /\ \A i, j \in DOMAIN a : u[i] = u[j] => i = j
    /\ \A i, j \in DOMAIN b : v[i] = v[j] => i = j
    /\ \A i \in DOMAIN a : \A j \in DOMAIN b : u[i] # v[j]
    /\ \A x \in DOMAIN s : (\E i \in DOMAIN a : x = u[i]) \/ (\E j \in DOMAIN b : x = v[j])
    /\ \A i \in DOMAIN a : s[u[i]] = a[i]
    /\ \A j \in DOMAIN b : s[v[j]] = b[j]

(* What a concatenation consists of.                                       *)
LEMMA ConcatConsists ==
  ASSUME NEW a \in Seq(Clauses), NEW b \in Seq(Clauses)
  PROVE  \E u, v : Consists(a \o b, a, u, b, v)
<1> DEFINE A == Len(a)
           B == Len(b)
           s == a \o b
           u == [i \in 1 .. A |-> i]
           v == [j \in 1 .. B |-> A + j]
<1>1. A \in Nat /\ B \in Nat /\ DOMAIN a = 1 .. A /\ DOMAIN b = 1 .. B
  OBVIOUS
<1>2. /\ DOMAIN s = 1 .. A + B
      /\ \A i \in 1 .. A : s[i] = a[i]
      /\ \A j \in 1 .. B : s[A + j] = b[j]
  BY <1>1
<1>. HIDE DEF A, B, s
<1>3. u \in [1 .. A -> 1 .. A + B] /\ v \in [1 .. B -> 1 .. A + B]
  BY <1>1
<1>4. /\ \A i, j \in 1 .. A : u[i] = u[j] => i = j
      /\ \A i, j \in 1 .. B : v[i] = v[j] => i = j
      /\ \A i \in 1 .. A : \A j \in 1 .. B : u[i] # v[j]
  BY <1>1
<1>5. ASSUME NEW x \in 1 .. A + B PROVE (\E i \in 1 .. A : x = u[i]) \/ (\E j \in 1 .. B : x = v[j])
  <2>1. x \in 1 .. A \/ (x - A \in 1 .. B /\ x = A + (x - A))
    BY <1>1
  <2>. QED  BY <2>1
<1>6. /\ \A i \in 1 .. A : s[u[i]] = a[i]
      /\ \A j \in 1 .. B : s[v[j]] = b[j]
  BY <1>2
<1>. HIDE DEF u, v
<1>7. Consists(s, a, u, b, v)
  BY <1>1, <1>2, <1>3, <1>4, <1>5, <1>6, ZenonT(60) DEF Consists
<1>. QED  BY <1>7 DEF s

(* The parts are named in either order.                                    *)
LEMMA ConsistsCommutes ==
  ASSUME NEW s, NEW a, NEW u, NEW b, NEW v, Consists(s, a, u, b, v)
  PROVE  Consists(s, b, v, a, u)
BY DEF Consists

(* Lists that consist of parts that are rearranged are rearranged.         *)
LEMMA PartsRearranged ==
  ASSUME NEW s, NEW a, NEW u, NEW b, NEW v, Consists(s, a, u, b, v),
         NEW t, NEW c, NEW y, NEW d, NEW z, Consists(t, c, y, d, z),
         Rearranged(a, c), Rearranged(b, d)
  PROVE  Rearranged(s, t)
<1> DEFINE A == DOMAIN a
           B == DOMAIN b
           C == DOMAIN c
           D == DOMAIN d
           S == DOMAIN s
           T == DOMAIN t
<1>1. PICK f : Rearranges(a, c, f)
  BY DEF Rearranged
<1>2. PICK g : Rearranges(b, d, g)
  BY DEF Rearranged
<1>3. /\ \A i \in A : f[i] \in C /\ Alike(a[i], c[f[i]])
      /\ \A i \in B : g[i] \in D /\ Alike(b[i], d[g[i]])
  BY <1>1, <1>2 DEF Rearranges
<1>4. /\ \A i, j \in A : f[i] = f[j] => i = j
      /\ \A i, j \in B : g[i] = g[j] => i = j
  BY <1>1, <1>2 DEF Rearranges
<1>5. /\ \A x \in C : \E i \in A : f[i] = x
      /\ \A x \in D : \E i \in B : g[i] = x
  BY <1>1, <1>2 DEF Rearranges
<1>6. /\ \A i \in A : u[i] \in S /\ s[u[i]] = a[i]
      /\ \A j \in B : v[j] \in S /\ s[v[j]] = b[j]
  BY DEF Consists
<1>7. /\ \A i, j \in A : u[i] = u[j] => i = j
      /\ \A i, j \in B : v[i] = v[j] => i = j
      /\ \A i \in A : \A j \in B : u[i] # v[j]
  BY DEF Consists
<1>8. \A x \in S : (\E i \in A : x = u[i]) \/ (\E j \in B : x = v[j])
  BY DEF Consists
<1>9. /\ \A i \in C : y[i] \in T /\ t[y[i]] = c[i]
      /\ \A j \in D : z[j] \in T /\ t[z[j]] = d[j]
  BY DEF Consists
<1>10. /\ \A i, j \in C : y[i] = y[j] => i = j
       /\ \A i, j \in D : z[i] = z[j] => i = j
       /\ \A i \in C : \A j \in D : y[i] # z[j]
  BY DEF Consists
<1>11. \A x \in T : (\E i \in C : x = y[i]) \/ (\E j \in D : x = z[j])
  BY DEF Consists
<1>. HIDE DEF A, B, C, D, S, T
<1> DEFINE at(x, w) == \/ \E i \in A : x = u[i] /\ w = y[f[i]]
                       \/ \E j \in B : x = v[j] /\ w = z[g[j]]
           h == [x \in S |-> CHOOSE w : at(x, w)]
<1>12. \A i \in A : at(u[i], y[f[i]]) /\ \A w : at(u[i], w) => w = y[f[i]]
  BY <1>7
<1>13. \A j \in B : at(v[j], z[g[j]]) /\ \A w : at(v[j], w) => w = z[g[j]]
  BY <1>7
<1>. HIDE DEF at
<1>14. \A i \in A : h[u[i]] = y[f[i]]
  <2>. SUFFICES ASSUME NEW i \in A PROVE h[u[i]] = y[f[i]]
    OBVIOUS
  <2>1. at(u[i], CHOOSE w : at(u[i], w))
    BY <1>12
  <2>. QED  BY <1>6, <1>12, <2>1, Zenon
<1>15. \A j \in B : h[v[j]] = z[g[j]]
  <2>. SUFFICES ASSUME NEW j \in B PROVE h[v[j]] = z[g[j]]
    OBVIOUS
  <2>1. at(v[j], CHOOSE w : at(v[j], w))
    BY <1>13
  <2>. QED  BY <1>6, <1>13, <2>1, Zenon
<1>16. h = [x \in S |-> h[x]]
  OBVIOUS
<1>. HIDE DEF h
<1>17. ASSUME NEW x \in S PROVE h[x] \in T /\ Alike(s[x], t[h[x]])
  <2>1. ASSUME NEW i \in A, x = u[i] PROVE h[x] \in T /\ Alike(s[x], t[h[x]])
    <3>1. h[x] = y[f[i]] /\ f[i] \in C /\ Alike(a[i], c[f[i]]) /\ s[x] = a[i]
      BY <1>3, <1>6, <1>14, <2>1
    <3>. QED  BY <1>9, <3>1
  <2>2. ASSUME NEW j \in B, x = v[j] PROVE h[x] \in T /\ Alike(s[x], t[h[x]])
    <3>1. h[x] = z[g[j]] /\ g[j] \in D /\ Alike(b[j], d[g[j]]) /\ s[x] = b[j]
      BY <1>3, <1>6, <1>15, <2>2
    <3>. QED  BY <1>9, <3>1
  <2>. QED  BY <1>8, <2>1, <2>2
<1>18. ASSUME NEW p \in S, NEW q \in S, h[p] = h[q] PROVE p = q
  <2>0. (\A i \in A : f[i] \in C) /\ (\A j \in B : g[j] \in D)
    BY <1>3, Zenon
  <2>1. ASSUME NEW i \in A, NEW j \in A, h[u[i]] = h[u[j]] PROVE i = j
    <3>1. y[f[i]] = y[f[j]]
      BY <1>14, <2>1, Zenon
    <3>2. f[i] = f[j]
      BY <1>10, <2>0, <3>1, Zenon
    <3>. QED  BY <1>4, <3>2, Zenon
  <2>2. ASSUME NEW i \in B, NEW j \in B, h[v[i]] = h[v[j]] PROVE i = j
    <3>1. z[g[i]] = z[g[j]]
      BY <1>15, <2>2, Zenon
    <3>2. g[i] = g[j]
      BY <1>10, <2>0, <3>1, Zenon
    <3>. QED  BY <1>4, <3>2, Zenon
  <2>3. ASSUME NEW i \in A, NEW j \in B PROVE h[u[i]] # h[v[j]]
    <3>1. y[f[i]] # z[g[j]]
      BY <1>10, <2>0, Zenon
    <3>. QED  BY <1>14, <1>15, <3>1, Zenon
  <2>4. CASE \E i \in A : p = u[i]
    <3>1. PICK i \in A : p = u[i]
      BY <2>4
    <3>2. ~(\E j \in B : q = v[j])
      BY <1>18, <2>3, <3>1, Zenon
    <3>3. PICK j \in A : q = u[j]
      BY <1>8, <3>2, Zenon
    <3>. QED  BY <1>18, <2>1, <3>1, <3>3, Zenon
  <2>5. CASE \E i \in B : p = v[i]
    <3>1. PICK i \in B : p = v[i]
      BY <2>5
    <3>2. ~(\E j \in A : q = u[j])
      BY <1>18, <2>3, <3>1, Zenon
    <3>3. PICK j \in B : q = v[j]
      BY <1>8, <3>2, Zenon
    <3>. QED  BY <1>18, <2>2, <3>1, <3>3, Zenon
  <2>. QED  BY <1>8, <2>4, <2>5, Zenon
<1>19. ASSUME NEW x \in T PROVE \E p \in S : h[p] = x
  <2>1. ASSUME NEW i \in C, x = y[i] PROVE \E p \in S : h[p] = x
    <3>1. PICK l \in A : f[l] = i
      BY <1>5
    <3>2. u[l] \in S /\ h[u[l]] = x
      BY <1>6, <1>14, <2>1, <3>1
    <3>. QED  BY <3>2
  <2>2. ASSUME NEW j \in D, x = z[j] PROVE \E p \in S : h[p] = x
    <3>1. PICK l \in B : g[l] = j
      BY <1>5
    <3>2. v[l] \in S /\ h[v[l]] = x
      BY <1>6, <1>15, <2>2, <3>1
    <3>. QED  BY <3>2
  <2>. QED  BY <1>11, <2>1, <2>2
<1>20. h \in [S -> T]
  BY <1>16, <1>17
<1>21. Rearranges(s, t, h)
  BY <1>17, <1>18, <1>19, <1>20 DEF Rearranges, S, T
<1>. QED  BY <1>21 DEF Rearranged

(* Lists may be rearranged before they are concatenated, in either order.  *)
LEMMA RearrangedConcat ==
  ASSUME NEW a \in Seq(Clauses), NEW b \in Seq(Clauses), NEW c \in Seq(Clauses), NEW d \in Seq(Clauses),
         Rearranged(a, c), Rearranged(b, d)
  PROVE  Rearranged(a \o b, c \o d) /\ Rearranged(b \o a, c \o d)
<1>1. PICK u, v : Consists(a \o b, a, u, b, v)
  BY ConcatConsists, Zenon
<1>2. PICK p, q : Consists(b \o a, b, p, a, q)
  BY ConcatConsists, Zenon
<1>3. Consists(b \o a, a, q, b, p)
  BY <1>2, ConsistsCommutes, Zenon
<1>4. PICK y, z : Consists(c \o d, c, y, d, z)
  BY ConcatConsists, Zenon
<1>5. Rearranged(a \o b, c \o d)
  BY <1>1, <1>4, PartsRearranged, Zenon
<1>6. Rearranged(b \o a, c \o d)
  BY <1>3, <1>4, PartsRearranged, Zenon
<1>. QED  BY <1>5, <1>6

=============================================================================
