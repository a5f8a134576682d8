---------------------------- MODULE HistoryProofs ----------------------------
(***************************************************************************)
(* What the optimizer keeps from statement to statement.                   *)
(*                                                                         *)
(* BestCosts: the true cost of a row of the best costs matrix stays within *)
(* one per cent of every cost learned into it, for any number of rows, any *)
(* number of statements and any costs.                                     *)
(*                                                                         *)
(* MarkovHistory: the histories of the Markov model, for any number of     *)
(* templates, any length of the history and of a state, and workloads of   *)
(* any length.                                                             *)
(***************************************************************************)
EXTENDS BestCosts, MarkovHistory, FiniteSetTheorems, WellFoundedInduction, TLAPS

-----------------------------------------------------------------------------
(***************************************************************************)
(* Best costs (BestCosts)                                                  *)
(***************************************************************************)

Records == [feature : Int, est : Nat, true : Nat \ {0}]

\* A matrix with its history of true costs; the cost of each row is one of
\* them, and close to each.
IndInv ==
    /\ matrix \in Seq(Records)
    /\ runs \in Seq(SUBSET (Nat \ {0}))
    /\ Len(matrix) <= Rows
    /\ Len(runs) = Len(matrix)
    /\ BestWithinRate

-----------------------------------------------------------------------------
(* OkNNr_learn2 on one row: the cost it keeps is the old or the new one.   *)
(* It is at most 1% above the new one, and if it has changed it has fallen *)
(* by so much that no cost learned before is further below it than before. *)
(* At a rate of exactly compare_rate no case of the code applies, and the  *)
(* old cost is still close enough.                                         *)
LEMMA AbsorbedFacts ==
  ASSUME NEW r \in Records, NEW x \in Int, NEW e \in Nat, NEW t \in Nat \ {0}
  PROVE  /\ Absorbed(r, x, e, t) \in Records
         /\ Absorbed(r, x, e, t).true \in {r.true, t}
         /\ 100 * Absorbed(r, x, e, t).true <= 101 * t
         /\ Absorbed(r, x, e, t).true <= r.true
<1> DEFINE moved == [r EXCEPT !.feature = @ + (x - @) \div 10, !.est = e]
           a == Absorbed(r, x, e, t)
<1>1. r.feature \in Int /\ r.est \in Nat /\ r.true \in Nat \ {0}
  BY DEF Records
<1>2. r.feature + (x - r.feature) \div 10 \in Int
  BY <1>1
<1>3. moved \in Records /\ moved.true = r.true
  BY <1>2 DEF Records
<1>4. CASE NearlyEqual(t, r.true)
  <2>1. a = moved
    BY <1>4 DEF Absorbed
  <2>2. 100 * r.true <= 101 * t
    BY <1>1, <1>4 DEF NearlyEqual
  <2>. QED  BY <1>1, <1>3, <2>1, <2>2
<1>5. CASE ~NearlyEqual(t, r.true) /\ Better(t, r.true)
  <2>1. a = [moved EXCEPT !.true = t]
    BY <1>5 DEF Absorbed
  <2>2. a \in Records /\ a.true = t
    BY <1>3, <2>1 DEF Records
  <2>3. 100 * t <= 101 * t /\ t <= r.true
    BY <1>1, <1>5 DEF Better
  <2>. QED  BY <2>2, <2>3
<1>6. CASE ~NearlyEqual(t, r.true) /\ ~Better(t, r.true)
  <2>1. a = moved \/ a = r
    BY <1>6 DEF Absorbed
  <2>2. 100 * r.true <= 101 * t
    BY <1>1, <1>6 DEF Better
  <2>3. CASE a = moved
    BY <1>1, <1>3, <2>2, <2>3
  <2>4. CASE a = r
    BY <1>1, <2>2, <2>4
  <2>. QED  BY <2>1, <2>3, <2>4
<1>. QED  BY <1>4, <1>5, <1>6

(* A statement that goes to row i, or to no row of the matrix.             *)
LEMMA AbsorbStep ==
  ASSUME IndInv, NEW i, NEW x \in Int, NEW e \in Nat, NEW t \in Nat \ {0},
         matrix' = [matrix EXCEPT ![i] = Absorbed(@, x, e, t)],
         runs' = [runs EXCEPT ![i] = @ \cup {t}]
  PROVE  IndInv'
<1>1. /\ DOMAIN matrix = 1 .. Len(matrix) /\ DOMAIN runs = 1 .. Len(matrix)
      /\ matrix \in [1 .. Len(matrix) -> Records]
      /\ runs \in [1 .. Len(matrix) -> SUBSET (Nat \ {0})]
  BY DEF IndInv
<1>2. CASE i \notin DOMAIN matrix
  <2>1. matrix' = matrix /\ runs' = runs
    BY <1>1, <1>2
  <2>. QED  BY <2>1, ZenonT(60) DEF IndInv, BestWithinRate
<1>3. CASE i \in DOMAIN matrix
  <2> DEFINE a == Absorbed(matrix[i], x, e, t)
  <2>1. matrix[i] \in Records /\ runs[i] \in SUBSET (Nat \ {0})
    BY <1>1, <1>3
  <2>2. /\ a \in Records /\ a.true \in {matrix[i].true, t}
        /\ 100 * a.true <= 101 * t /\ a.true <= matrix[i].true
    BY <2>1, AbsorbedFacts, ZenonT(60)
  <2>3. /\ matrix' = [matrix EXCEPT ![i] = a] /\ runs' = [runs EXCEPT ![i] = runs[i] \cup {t}]
    OBVIOUS
  <2>. HIDE DEF a
  <2>4. /\ matrix' \in Seq(Records) /\ Len(matrix') = Len(matrix)
        /\ runs' \in Seq(SUBSET (Nat \ {0})) /\ Len(runs') = Len(runs)
    BY <1>1, <1>3, <2>1, <2>2, <2>3 DEF IndInv
  <2>5. /\ matrix'[i] = a /\ runs'[i] = runs[i] \cup {t}
        /\ \A j \in DOMAIN matrix \ {i} : matrix'[j] = matrix[j] /\ runs'[j] = runs[j]
        /\ DOMAIN matrix' = DOMAIN matrix
    BY <1>1, <1>3, <2>3
  <2>6. a.true \in runs[i] \cup {t} /\ \A u \in runs[i] \cup {t} : 100 * a.true <= 101 * u
    <3>1. matrix[i].true \in runs[i] /\ \A u \in runs[i] : 100 * matrix[i].true <= 101 * u
      BY <1>3 DEF IndInv, BestWithinRate
    <3>2. a.true \in Nat /\ matrix[i].true \in Nat /\ \A u \in runs[i] : u \in Nat
      BY <2>1, <2>2 DEF Records
    <3>. QED  BY <2>2, <3>1, <3>2
  <2>7. BestWithinRate'
    <3>. SUFFICES ASSUME NEW j \in DOMAIN matrix
                 PROVE  /\ matrix'[j].true \in runs'[j]
                        /\ \A u \in runs'[j] : 100 * matrix'[j].true <= 101 * u
      BY <2>5 DEF BestWithinRate
    <3>1. CASE j = i
      BY <2>5, <2>6, <3>1
    <3>2. CASE j # i
      BY <2>5, <3>2 DEF IndInv, BestWithinRate
    <3>. QED  BY <3>1, <3>2
  <2>. QED  BY <2>4, <2>7 DEF IndInv
<1>. QED  BY <1>2, <1>3

(* A statement that gets a row of its own.                                 *)
LEMMA AppendStep ==
  ASSUME IndInv, ~Full, NEW x \in Int, NEW e \in Nat, NEW t \in Nat \ {0},
         matrix' = Append(matrix, [feature |-> x, est |-> e, true |-> t]),
         runs' = Append(runs, {t})
  PROVE  IndInv'
<1>1. [feature |-> x, est |-> e, true |-> t] \in Records /\ {t} \in SUBSET (Nat \ {0})
  BY DEF Records
<1>2. Len(matrix) \in Nat /\ Len(runs) = Len(matrix) /\ Len(matrix) + 1 <= Rows
  BY CostAssumption DEF IndInv, Full
<1>3. /\ matrix' \in Seq(Records) /\ Len(matrix') = Len(matrix) + 1
      /\ runs' \in Seq(SUBSET (Nat \ {0})) /\ Len(runs') = Len(matrix) + 1
  BY <1>1, <1>2 DEF IndInv
<1>4. /\ \A j \in 1 .. Len(matrix) : matrix'[j] = matrix[j] /\ runs'[j] = runs[j]
      /\ matrix'[Len(matrix) + 1].true = t /\ runs'[Len(matrix) + 1] = {t}
  BY <1>1, <1>2 DEF IndInv
<1>5. BestWithinRate'
  <2>. SUFFICES ASSUME NEW j \in DOMAIN matrix'
               PROVE  /\ matrix'[j].true \in runs'[j]
                      /\ \A u \in runs'[j] : 100 * matrix'[j].true <= 101 * u
    BY DEF BestWithinRate
  <2>1. j \in 1 .. Len(matrix) \/ j = Len(matrix) + 1
    BY <1>2, <1>3
  <2>2. CASE j \in 1 .. Len(matrix)
    BY <1>4, <2>2 DEF IndInv, BestWithinRate
  <2>3. CASE j = Len(matrix) + 1
    <3>1. matrix'[j].true = t /\ runs'[j] = {t}
      BY <1>4, <2>3, Zenon
    <3>2. 100 * t <= 101 * t
      OBVIOUS
    <3>. QED  BY <3>1, <3>2, Zenon
  <2>. QED  BY <2>1, <2>2, <2>3
<1>. QED  BY <1>2, <1>3, <1>5 DEF IndInv

-----------------------------------------------------------------------------
(* The matrix fits the num_two_costs_save rows that                        *)
(* update_two_best_costs_record allocates, its entries have their types,   *)
(* and each row keeps to the costs learned into it (OkNNr_learn2).         *)
THEOREM CostsInvariant == Spec => []IndInv
<1>1. Init => IndInv
  BY CostAssumption DEF Init, IndInv, BestWithinRate
<1>2. IndInv /\ [Next]_vars => IndInv'
  <2>. SUFFICES ASSUME IndInv, [Next]_vars PROVE IndInv'
    OBVIOUS
  <2>1. ASSUME NEW x \in Features, CalculateBestEstimateCost(x) PROVE IndInv'
    BY <2>1 DEF CalculateBestEstimateCost, IndInv, BestWithinRate
  <2>2. ASSUME NEW x \in Features, NEW e \in EstCosts, NEW t \in TrueCosts,
               UpdateTwoBestCosts(x, e, t)
        PROVE  IndInv'
    <3>1. x \in Int /\ e \in Nat /\ t \in Nat \ {0}
      BY CostAssumption
    <3>2. \/ /\ matrix' = [matrix EXCEPT ![Nearest(x)] = Absorbed(@, x, e, t)]
             /\ runs' = [runs EXCEPT ![Nearest(x)] = @ \cup {t}]
          \/ /\ ~Full
             /\ matrix' = Append(matrix, [feature |-> x, est |-> e, true |-> t])
             /\ runs' = Append(runs, {t})
      BY <2>2 DEF UpdateTwoBestCosts
    <3>. QED  BY <3>1, <3>2, AbsorbStep, AppendStep
  <2>3. CASE UNCHANGED vars
    BY <2>3 DEF vars, IndInv, BestWithinRate
  <2>. QED  BY <2>1, <2>2, <2>3 DEF Next
<1>. QED  BY <1>1, <1>2, PTL DEF Spec

(* However many statements with nearly the same cost a row of              *)
(* aqo_best_two_costs_table learns (OkNNr_learn2), its true cost is that   *)
(* of one of them and at most compare_rate above each.                     *)
THEOREM CostsDoNotCreep == Spec => []BestWithinRate
<1>1. IndInv => BestWithinRate
  BY DEF IndInv
<1>. QED  BY <1>1, CostsInvariant, PTL

-----------------------------------------------------------------------------
(* OkNNr_compute_weights.                                                  *)

(* A set of numbers has a least one.                                       *)
LEMMA LeastNumber ==
  ASSUME NEW T \in SUBSET Nat, T # {}
  PROVE  \E m \in T : \A n \in T : m <= n
<1> DEFINE R == {ss \in Nat \X Nat : ss[1] < ss[2]}
<1>1. \A m, n \in Nat : <<m, n>> \in R <=> m < n
  OBVIOUS
<1>. IsWellFoundedOn(R, Nat)
  BY NatLessThanWellFounded DEF OpToRel
<1>. HIDE DEF R
<1>2. PICK m \in T : \A n \in T : ~ (<<n, m>> \in R)
  BY WFMin
<1>3. \A n \in T : n \in Nat /\ m \in Nat /\ ~ (n < m)
  BY <1>1, <1>2, Zenon
<1>. QED  BY <1>3

(* Min picks it.                                                           *)
LEMMA MinIsLeast ==
  ASSUME NEW T \in SUBSET Nat, T # {}
  PROVE  Min(T) \in T /\ \A n \in T : Min(T) <= n
<1>1. PICK m \in T : \A n \in T : m <= n
  BY LeastNumber
<1>. QED  BY <1>1 DEF Min

(* Min of two numbers is the smaller one.                                  *)
LEMMA MinOfTwo ==
  ASSUME NEW a \in Nat, NEW b \in Nat
  PROVE  Min({a, b}) = IF a <= b THEN a ELSE b
<1>1. {a, b} \in SUBSET Nat /\ {a, b} # {}
  OBVIOUS
<1>2. Min({a, b}) \in {a, b} /\ \A n \in {a, b} : Min({a, b}) <= n
  BY <1>1, MinIsLeast
<1>. QED  BY <1>2

\* The list idx of the K nearest of the first n rows, each before the next,
\* and all of them before the rows that are left out when there are more.
Selected(d, n, idx) ==
    /\ idx \in Seq(1 .. n)
    /\ Len(idx) = IF K <= n THEN K ELSE n
    /\ \A j, m \in 1 .. Len(idx) : j < m => Before(d, idx[j], idx[m])
    /\ \A i \in 1 .. n : \/ \E j \in 1 .. Len(idx) : idx[j] = i
                         \/ Len(idx) = K /\ \A j \in 1 .. Len(idx) : Before(d, idx[j], i)

(* What InsertAt puts where.                                               *)
LEMMA InsertPlaces ==
  ASSUME NEW S, NEW s \in Seq(S), NEW at \in 1 .. Len(s) + 1, NEW e \in S
  PROVE  /\ InsertAt(s, at, e) \in Seq(S)
         /\ Len(InsertAt(s, at, e)) = Len(s) + 1
         /\ \A j \in 1 .. Len(s) + 1 :
              InsertAt(s, at, e)[j] = IF j < at THEN s[j] ELSE IF j = at THEN e ELSE s[j - 1]
<1> DEFINE a == SubSeq(s, 1, at - 1)
           b == SubSeq(s, at, Len(s))
<1>1. /\ a \in Seq(S) /\ Len(a) = at - 1 /\ \A j \in 1 .. at - 1 : a[j] = s[j]
  OBVIOUS
<1>2. /\ b \in Seq(S) /\ Len(b) = Len(s) - at + 1
      /\ \A j \in 1 .. Len(s) - at + 1 : b[j] = s[at + j - 1]
  OBVIOUS
<1>3. InsertAt(s, at, e) = (a \o <<e>>) \o b
  BY DEF InsertAt
<1>. HIDE DEF a, b
<1> DEFINE c == a \o <<e>>
<1>4. /\ c \in Seq(S) /\ Len(c) = at
      /\ \A j \in 1 .. at : c[j] = IF j < at THEN s[j] ELSE e
  BY <1>1
<1>. HIDE DEF c
<1>0. Len(s) \in Nat /\ at \in Nat
  OBVIOUS
<1>5. /\ c \o b \in Seq(S) /\ Len(c \o b) = Len(s) + 1
      /\ \A j \in 1 .. Len(s) + 1 : (c \o b)[j] = IF j <= at THEN c[j] ELSE b[j - at]
  <2>1. /\ c \o b \in Seq(S) /\ Len(c \o b) = Len(c) + Len(b)
        /\ \A j \in 1 .. Len(c) + Len(b) : (c \o b)[j] = IF j <= Len(c) THEN c[j] ELSE b[j - Len(c)]
    <3>1. c \in Seq(S) /\ b \in Seq(S) /\ Len(c) \in Nat /\ Len(b) \in Nat
      BY <1>2, <1>4
    <3>. QED  BY <3>1
  <2>2. Len(c) + Len(b) = Len(s) + 1 /\ Len(c) = at
    BY <1>0, <1>2, <1>4
  <2>. QED  BY <2>1, <2>2
<1>6. \A j \in 1 .. Len(s) + 1 :
        (c \o b)[j] = IF j < at THEN s[j] ELSE IF j = at THEN e ELSE s[j - 1]
  <2>. SUFFICES ASSUME NEW j \in 1 .. Len(s) + 1
                PROVE  (c \o b)[j] = IF j < at THEN s[j] ELSE IF j = at THEN e ELSE s[j - 1]
    OBVIOUS
  <2>1. CASE j <= at
    BY <1>4, <1>5, <2>1
  <2>2. CASE j > at
    <3>1. j - at \in 1 .. Len(s) - at + 1
      BY <2>2
    <3>2. b[j - at] = s[at + (j - at) - 1] /\ at + (j - at) - 1 = j - 1
      BY <1>2, <3>1
    <3>. QED  BY <1>5, <2>2, <3>2
  <2>3. j <= at \/ j > at
    BY <1>0
  <2>. QED  BY <2>1, <2>2, <2>3
<1>. QED  BY <1>3, <1>5, <1>6 DEF c

(* The row after the first n goes to its place among the neighbours found  *)
(* so far: behind those that are no farther, before those that are.        *)
LEMMA InsertSelects ==
  ASSUME NEW d, NEW n \in Nat, \A i \in 1 .. n + 1 : d[i] \in Int,
         NEW idx, Selected(d, n, idx)
  PROVE  Selected(d, n + 1, InsertNeighbour(idx, n + 1, d))
<1> DEFINE e == n + 1
           L == Len(idx)
           later == {j \in DOMAIN idx : d[e] < d[idx[j]]}
           at == IF later = {} THEN L + 1 ELSE Min(later)
           all == InsertAt(idx, at, e)
           size == IF K <= L + 1 THEN K ELSE L + 1
           new == SubSeq(all, 1, size)
<1>1. /\ idx \in Seq(1 .. n) /\ L \in Nat /\ DOMAIN idx = 1 .. L
      /\ L = IF K <= n THEN K ELSE n
      /\ \A j, m \in 1 .. L : j < m => Before(d, idx[j], idx[m])
      /\ \A i \in 1 .. n : \/ \E j \in 1 .. L : idx[j] = i
                           \/ L = K /\ \A j \in 1 .. L : Before(d, idx[j], i)
  BY DEF Selected
<1>0. idx \in Seq(1 .. n) /\ L \in Nat /\ DOMAIN idx = 1 .. L
  BY <1>1
<1>2. K \in Nat \ {0} /\ e \in 1 .. n + 1 /\ d[e] \in Int
  BY CostAssumption
<1>3. \A j \in 1 .. L : idx[j] \in 1 .. n /\ d[idx[j]] \in Int /\ idx[j] < e
  <2>1. \A j \in 1 .. L : idx[j] \in 1 .. n
    BY <1>0
  <2>. QED  BY <2>1
<1>. HIDE DEF e, L
<1>4. /\ at \in 1 .. L + 1
      /\ \A j \in 1 .. L : j < at => d[idx[j]] <= d[e]
      /\ \A j \in 1 .. L : j >= at => d[e] < d[idx[j]]
  <2>1. CASE later = {}
    <3>1. at = L + 1
      BY <2>1
    <3>2. ASSUME NEW j \in 1 .. L PROVE d[idx[j]] <= d[e]
      <4>1. ~(d[e] < d[idx[j]])
        BY <1>0, <2>1
      <4>2. d[idx[j]] \in Int
        BY <1>3
      <4>. QED  BY <1>2, <4>1, <4>2
    <3>. HIDE DEF at
    <3>. QED  BY <1>0, <3>1, <3>2
  <2>2. CASE later # {}
    <3>1. later \in SUBSET Nat
      BY <1>1
    <3>2. at \in later /\ \A j \in later : at <= j
      <4>1. at = Min(later)
        BY <2>2
      <4>. HIDE DEF later
      <4>. QED  BY <2>2, <3>1, <4>1, MinIsLeast
    <3>. HIDE DEF at
    <3>3. at \in 1 .. L /\ d[e] < d[idx[at]]
      BY <1>1, <3>2
    <3>4. ASSUME NEW j \in 1 .. L, j < at PROVE d[idx[j]] <= d[e]
      <4>1. j \notin later
        <5>. HIDE DEF later
        <5>. QED  BY <1>1, <3>2, <3>3, <3>4
      <4>2. ~(d[e] < d[idx[j]])
        BY <1>0, <4>1
      <4>3. d[idx[j]] \in Int
        BY <1>3
      <4>. QED  BY <1>2, <4>2, <4>3
    <3>5. ASSUME NEW j \in 1 .. L, j >= at PROVE d[e] < d[idx[j]]
      <4>1. CASE j = at
        BY <3>3, <4>1
      <4>2. CASE j # at
        <5>1. Before(d, idx[at], idx[j])
          BY <1>1, <3>3, <3>5, <4>2
        <5>. QED  BY <1>2, <1>3, <3>3, <5>1 DEF Before
      <4>. QED  BY <4>1, <4>2
    <3>. QED  BY <1>1, <3>3, <3>4, <3>5
  <2>. QED  BY <2>1, <2>2
<1>. HIDE DEF at
<1>5. /\ all \in Seq(1 .. n + 1) /\ Len(all) = L + 1
      /\ \A j \in 1 .. L + 1 : all[j] = IF j < at THEN idx[j] ELSE IF j = at THEN e ELSE idx[j - 1]
  <2>1. idx \in Seq(1 .. n + 1)
    <3>1. 1 .. n \subseteq 1 .. n + 1
      OBVIOUS
    <3>. QED  BY <1>1, <3>1
  <2>. QED  BY <1>2, <1>4, <2>1, InsertPlaces DEF L
<1>. HIDE DEF all
<1>6. size \in 1 .. L + 1
  BY <1>1, <1>2
<1>7. InsertNeighbour(idx, n + 1, d) = new
  <2>1. Min({K, Len(all)}) = size
    <3>1. Len(all) \in Nat /\ K \in Nat /\ Len(all) = L + 1
      BY <1>0, <1>2, <1>5
    <3>2. Min({K, Len(all)}) = IF K <= Len(all) THEN K ELSE Len(all)
      BY <3>1, MinOfTwo
    <3>. QED  BY <3>1, <3>2
  <2>. HIDE DEF size
  <2>. QED  BY <2>1 DEF InsertNeighbour, all, at, later, e, L
<1>. HIDE DEF size
<1>8. /\ new \in Seq(1 .. n + 1) /\ Len(new) = size
      /\ \A j \in 1 .. size : new[j] = all[j]
  BY <1>1, <1>5, <1>6
<1>. HIDE DEF new
(* The whole list is in order ...                                          *)
<1>9. ASSUME NEW j \in 1 .. L + 1, NEW m \in 1 .. L + 1, j < m
      PROVE  Before(d, all[j], all[m])
  <2>1. /\ all[j] = IF j < at THEN idx[j] ELSE IF j = at THEN e ELSE idx[j - 1]
        /\ all[m] = IF m < at THEN idx[m] ELSE IF m = at THEN e ELSE idx[m - 1]
    BY <1>5
  <2>2. CASE m < at
    <3>1. j \in 1 .. L /\ m \in 1 .. L /\ j < at
      BY <1>1, <1>4, <1>9, <2>2
    <3>. QED  BY <1>1, <1>9, <2>1, <2>2, <3>1
  <2>3. CASE m = at
    <3>1. j \in 1 .. L /\ j < at
      BY <1>1, <1>4, <1>9, <2>3
    <3>2. d[idx[j]] <= d[e] /\ idx[j] < e /\ d[idx[j]] \in Int /\ d[e] \in Int
      BY <1>2, <1>3, <1>4, <3>1
    <3>3. Before(d, idx[j], e)
      BY <3>2 DEF Before
    <3>. QED  BY <2>1, <2>3, <3>1, <3>3
  <2>4. CASE m > at /\ j < at
    <3>1. j \in 1 .. L /\ m - 1 \in 1 .. L /\ j < m - 1
      BY <1>1, <1>4, <2>4
    <3>. QED  BY <1>1, <1>4, <2>1, <2>4, <3>1
  <2>5. CASE m > at /\ j = at
    <3>1. m - 1 \in 1 .. L /\ m - 1 >= at
      BY <1>1, <1>4, <2>5
    <3>2. Before(d, e, idx[m - 1])
      BY <1>4, <3>1 DEF Before
    <3>. QED  BY <1>4, <2>1, <2>5, <3>2
  <2>6. CASE m > at /\ j > at
    <3>1. j - 1 \in 1 .. L /\ m - 1 \in 1 .. L /\ j - 1 < m - 1
      BY <1>1, <1>4, <1>9, <2>6
    <3>. QED  BY <1>1, <1>4, <2>1, <2>6, <3>1
  <2>. QED  BY <1>1, <1>4, <2>2, <2>3, <2>4, <2>5, <2>6
(* ... and holds the new row and all it held before.                       *)
<1>10. \A j \in 1 .. L : \E m \in 1 .. L + 1 : all[m] = idx[j]
  <2>. SUFFICES ASSUME NEW j \in 1 .. L PROVE \E m \in 1 .. L + 1 : all[m] = idx[j]
    OBVIOUS
  <2>1. CASE j < at
    BY <1>1, <1>5, <2>1
  <2>2. CASE ~(j < at)
    <3>1. j + 1 \in 1 .. L + 1 /\ ~(j + 1 < at) /\ j + 1 # at /\ (j + 1) - 1 = j
      BY <1>1, <1>4, <2>2
    <3>. QED  BY <1>5, <3>1
  <2>. QED  BY <2>1, <2>2
<1>11. all[at] = e
  BY <1>1, <1>4, <1>5
(* A row of the list is kept, or goes behind all that are.                 *)
<1>12. ASSUME NEW m \in 1 .. L + 1
       PROVE  \/ \E j \in 1 .. size : new[j] = all[m]
              \/ size = K /\ \A j \in 1 .. size : Before(d, new[j], all[m])
  <2>1. CASE m <= size
    BY <1>1, <1>6, <1>8, <2>1
  <2>2. CASE m > size
    <3>0. size = K
      BY <1>1, <1>2, <2>2 DEF size
    <3>. SUFFICES ASSUME NEW j \in 1 .. size PROVE Before(d, new[j], all[m])
      BY <3>0
    <3>1. j \in 1 .. L + 1 /\ j < m
      BY <1>1, <1>6, <2>2
    <3>. QED  BY <1>8, <1>9, <3>1
  <2>. QED  BY <1>1, <1>6, <2>1, <2>2
<1>13. ASSUME NEW i \in 1 .. n + 1
       PROVE  \/ \E j \in 1 .. size : new[j] = i
              \/ size = K /\ \A j \in 1 .. size : Before(d, new[j], i)
  <2>1. CASE i = e
    BY <1>4, <1>11, <1>12, <2>1
  <2>2. CASE \E j \in 1 .. L : idx[j] = i
    BY <1>10, <1>12, <2>2
  <2>3. CASE i # e /\ L = K /\ \A j \in 1 .. L : Before(d, idx[j], i)
    <3>1. size = L
      BY <1>1, <1>2, <2>3 DEF size
    <3>. SUFFICES ASSUME NEW j \in 1 .. size PROVE Before(d, new[j], i)
      BY <2>3, <3>1
    <3>2. j \in 1 .. L /\ j \in 1 .. L + 1
      BY <1>1, <3>1
    <3>3. CASE j < at
      BY <1>5, <1>8, <2>3, <3>2, <3>3
    <3>4. CASE j = at
      <4>1. d[e] < d[idx[j]] /\ Before(d, idx[j], i)
        BY <1>1, <1>4, <2>3, <3>2, <3>4
      <4>2. d[i] \in Int /\ d[idx[j]] \in Int
        BY <1>3, <3>2
      <4>3. Before(d, e, i)
        BY <1>2, <4>1, <4>2 DEF Before
      <4>. QED  BY <1>8, <1>11, <3>4, <4>3
    <3>5. CASE j > at
      <4>1. j - 1 \in 1 .. L /\ all[j] = idx[j - 1]
        BY <1>1, <1>4, <1>5, <3>2, <3>5
      <4>. QED  BY <1>8, <2>3, <3>2, <4>1
    <3>. QED  BY <1>4, <3>2, <3>3, <3>4, <3>5
  <2>. QED  BY <1>1, <2>1, <2>2, <2>3 DEF e
<1>14. size = IF K <= n + 1 THEN K ELSE n + 1
  BY <1>1, <1>2 DEF size
<1>15. \A j, m \in 1 .. size : j < m => Before(d, new[j], new[m])
  <2>. SUFFICES ASSUME NEW j \in 1 .. size, NEW m \in 1 .. size, j < m
                PROVE  Before(d, new[j], new[m])
    OBVIOUS
  <2>1. j \in 1 .. L + 1 /\ m \in 1 .. L + 1
    BY <1>0, <1>6
  <2>2. Before(d, all[j], all[m])
    BY <1>9, <2>1
  <2>. QED  BY <1>8, <2>2
<1>. QED  BY <1>7, <1>8, <1>13, <1>14, <1>15 DEF Selected

(* The loop of OkNNr_compute_weights over all rows selects the K nearest:  *)
(* the function that records its rounds exists, by the least round that it *)
(* could not be continued to, and no round is the first to go wrong.       *)
LEMMA WeightsSelect ==
  ASSUME NEW d \in Seq(Int)
  PROVE  Selected(d, Len(d), ComputeWeights(d))
<1> DEFINE L == Len(d)
           step(f, i) == IF i = 0 THEN <<>> ELSE InsertNeighbour(f[i - 1], i, d)
           found == CHOOSE f : f = [i \in 0 .. L |-> step(f, i)]
           Upto(n) == \E f : DOMAIN f = 0 .. n /\ \A i \in 0 .. n : f[i] = step(f, i)
           Bad == {n \in 0 .. L : ~Upto(n)}
<1>1. L \in Nat /\ \A i \in 1 .. L : d[i] \in Int
  OBVIOUS
<1>. HIDE DEF L
<1>2. Bad = {}
  <2>. SUFFICES ASSUME Bad # {} PROVE FALSE
    OBVIOUS
  <2>1. PICK n \in Bad : \A m \in Bad : n <= m
    <3>1. Bad \in SUBSET Nat
      BY <1>1
    <3>. HIDE DEF Bad
    <3>. QED  BY <3>1, LeastNumber
  <2>2. n \in 0 .. L /\ ~Upto(n)
    BY <2>1
  <2>3. n # 0
    <3>1. Upto(0)
      <4>1. DOMAIN [j \in 0 .. 0 |-> <<>>] = 0 .. 0
        OBVIOUS
      <4>2. \A i \in 0 .. 0 : [j \in 0 .. 0 |-> <<>>][i] = step([j \in 0 .. 0 |-> <<>>], i)
        OBVIOUS
      <4>. QED  BY <4>1, <4>2
    <3>. HIDE DEF Upto
    <3>. QED  BY <2>2, <3>1
  <2>4. n - 1 \in 0 .. L /\ n - 1 \notin Bad
    <3>1. n - 1 \in 0 .. L /\ n - 1 < n
      BY <1>1, <2>2, <2>3
    <3>. HIDE DEF Bad
    <3>. QED  BY <1>1, <2>1, <2>2, <3>1
  <2>5. PICK f : DOMAIN f = 0 .. n - 1 /\ \A i \in 0 .. n - 1 : f[i] = step(f, i)
    BY <2>4
  <2> DEFINE g == [i \in 0 .. n |-> IF i = n THEN InsertNeighbour(f[n - 1], n, d) ELSE f[i]]
  <2>7. DOMAIN g = 0 .. n
    OBVIOUS
  <2>8. ASSUME NEW i \in 0 .. n PROVE g[i] = step(g, i)
    <3>1. CASE i = n
      <4>1. g[n] = InsertNeighbour(f[n - 1], n, d) /\ g[n - 1] = f[n - 1]
        BY <1>1, <2>2, <2>3
      <4>. HIDE DEF g
      <4>. QED  BY <2>3, <3>1, <4>1
    <3>2. CASE i # n
      <4>1. i \in 0 .. n - 1 /\ g[i] = f[i] /\ (i # 0 => g[i - 1] = f[i - 1])
        BY <1>1, <2>2, <3>2
      <4>2. f[i] = step(f, i)
        BY <2>5, <4>1
      <4>. HIDE DEF g
      <4>3. CASE i = 0
        BY <4>1, <4>2, <4>3
      <4>4. CASE i # 0
        BY <4>1, <4>2, <4>4
      <4>. QED  BY <4>3, <4>4
    <3>. QED  BY <3>1, <3>2
  <2>9. Upto(n)
    <3>. HIDE DEF g, step
    <3>. QED  BY <2>7, <2>8
  <2>. QED  BY <2>2, <2>9
<1>3. \E f : f = [i \in 0 .. L |-> step(f, i)]
  <2>1. L \in 0 .. L
    BY <1>1
  <2>2. L \notin Bad
    <3>. HIDE DEF Bad
    <3>. QED  BY <1>2
  <2>3. PICK f : DOMAIN f = 0 .. L /\ \A i \in 0 .. L : f[i] = step(f, i)
    BY <2>1, <2>2
  <2> DEFINE g == [i \in 0 .. L |-> f[i]]
  <2>4. ASSUME NEW i \in 0 .. L PROVE g[i] = step(g, i)
    <3>1. g[i] = f[i] /\ (i # 0 => g[i - 1] = f[i - 1])
      BY <1>1
    <3>2. f[i] = step(f, i)
      BY <2>3
    <3>. HIDE DEF g
    <3>3. CASE i = 0
      BY <3>1, <3>2, <3>3
    <3>4. CASE i # 0
      BY <3>1, <3>2, <3>4
    <3>. QED  BY <3>3, <3>4
  <2>5. g = [i \in 0 .. L |-> g[i]]
    OBVIOUS
  <2>6. g = [i \in 0 .. L |-> step(g, i)]
    <3>. HIDE DEF g, step
    <3>. QED  BY <2>4, <2>5
  <2>. HIDE DEF g, step
  <2>. QED  BY <2>6
<1>5. found = [i \in 0 .. L |-> step(found, i)]
  <2>. HIDE DEF step
  <2>. QED  BY <1>3
<1>6. ComputeWeights(d) = found[L]
  BY DEF ComputeWeights, L
<1> DEFINE Odd == {n \in 0 .. L : ~Selected(d, n, found[n])}
<1>7. Odd = {}
  <2>. SUFFICES ASSUME Odd # {} PROVE FALSE
    OBVIOUS
  <2>. HIDE DEF found
  <2>1. PICK n \in Odd : \A m \in Odd : n <= m
    <3>1. Odd \in SUBSET Nat
      BY <1>1
    <3>. HIDE DEF Odd
    <3>. QED  BY <3>1, LeastNumber
  <2>2. n \in 0 .. L /\ ~Selected(d, n, found[n])
    BY <2>1
  <2>3. found[n] = step(found, n)
    <3>. HIDE DEF step
    <3>. QED  BY <1>5, <2>2
  <2>4. n # 0
    <3>. SUFFICES ASSUME n = 0 PROVE FALSE
      OBVIOUS
    <3>1. found[0] = <<>>
      BY <2>3
    <3>2. Selected(d, 0, <<>>)
      BY CostAssumption DEF Selected
    <3>. QED  BY <2>2, <3>1, <3>2
  <2>5. n - 1 \in 0 .. L /\ n - 1 \notin Odd
    <3>1. n - 1 \in 0 .. L /\ n - 1 < n
      BY <1>1, <2>2, <2>4
    <3>. HIDE DEF Odd
    <3>. QED  BY <1>1, <2>1, <2>2, <3>1
  <2>6. Selected(d, n - 1, found[n - 1])
    BY <2>5
  <2>7. /\ n - 1 \in Nat /\ (n - 1) + 1 = n
        /\ \A i \in 1 .. (n - 1) + 1 : d[i] \in Int
    BY <1>1, <2>2, <2>4
  <2>8. Selected(d, (n - 1) + 1, InsertNeighbour(found[n - 1], (n - 1) + 1, d))
    BY <2>6, <2>7, InsertSelects
  <2>9. Selected(d, n, InsertNeighbour(found[n - 1], n, d))
    BY <2>7, <2>8
  <2>. QED  BY <2>2, <2>3, <2>4, <2>9
<1>8. L \in 0 .. L
  BY <1>1
<1>9. L \notin Odd
  <2>. HIDE DEF Odd
  <2>. QED  BY <1>7
<1>. HIDE DEF found
<1>10. Selected(d, L, found[L])
  BY <1>8, <1>9
<1>. QED  BY <1>6, <1>10 DEF L

(* The distances of a matrix to a feature.                                 *)
LEMMA DistancesType ==
  ASSUME matrix \in Seq(Records), NEW x \in Int
  PROVE  /\ Distances(x) \in Seq(Nat) /\ Distances(x) \in Seq(Int)
         /\ Len(Distances(x)) = Len(matrix)
         /\ \A i \in 1 .. Len(matrix) : Distances(x)[i] = Distance(matrix[i].feature, x)
<1>1. Len(matrix) \in Nat /\ DOMAIN matrix = 1 .. Len(matrix)
  OBVIOUS
<1>2. ASSUME NEW i \in 1 .. Len(matrix) PROVE Distance(matrix[i].feature, x) \in Nat
  <2>1. matrix[i] \in Records
    OBVIOUS
  <2>2. matrix[i].feature \in Int
    BY <2>1 DEF Records
  <2>. QED  BY <2>2 DEF Distance
<1>3. Distances(x) = [i \in 1 .. Len(matrix) |-> Distance(matrix[i].feature, x)]
  BY <1>1 DEF Distances
<1>4. Distances(x) \in [1 .. Len(matrix) -> Nat] /\ Distances(x) \in [1 .. Len(matrix) -> Int]
  BY <1>2, <1>3
<1>. QED  BY <1>1, <1>3, <1>4

(* For any threshold, features and number K of neighbours, and however the *)
(* statements moved the rows, the prediction of OkNNr_predict2 averages    *)
(* the K nearest rows, ties going to the earlier one.                      *)
THEOREM NearestAreFound == Spec => []NeighboursAreNearest
<1>1. IndInv => NeighboursAreNearest
  <2>. SUFFICES ASSUME IndInv, NEW x \in Features
                PROVE  LET d   == Distances(x)
                           idx == ComputeWeights(d)
                       IN /\ Len(idx) = Min({K, Len(matrix)})
                          /\ \A j \in 1 .. Len(idx) - 1 : Before(d, idx[j], idx[j + 1])
                          /\ \A i \in DOMAIN matrix \ ToSet(idx) :
                                \A j \in DOMAIN idx : Before(d, idx[j], i)
    BY DEF NeighboursAreNearest
  <2> DEFINE d == Distances(x)
             idx == ComputeWeights(d)
  <2>1. matrix \in Seq(Records) /\ x \in Int
    BY CostAssumption DEF IndInv
  <2>2. d \in Seq(Int) /\ Len(d) = Len(matrix)
    BY <2>1, DistancesType
  <2>3. Selected(d, Len(matrix), idx)
    <3>. HIDE DEF d
    <3>1. Selected(d, Len(d), ComputeWeights(d))
      BY <2>2, WeightsSelect
    <3>. QED  BY <2>2, <3>1
  <2>. HIDE DEF d, idx
  <2>4. Len(matrix) \in Nat /\ DOMAIN matrix = 1 .. Len(matrix)
    BY <2>1
  <2>5. idx \in Seq(1 .. Len(matrix)) /\ Len(idx) \in Nat /\ DOMAIN idx = 1 .. Len(idx)
    BY <2>3 DEF Selected
  <2>6. Len(idx) = Min({K, Len(matrix)})
    <3>1. Min({K, Len(matrix)}) = IF K <= Len(matrix) THEN K ELSE Len(matrix)
      BY <2>4, CostAssumption, MinOfTwo
    <3>. QED  BY <2>3, <3>1 DEF Selected
  <2>7. ASSUME NEW j \in 1 .. Len(idx) - 1 PROVE Before(d, idx[j], idx[j + 1])
    <3>1. j \in 1 .. Len(idx) /\ j + 1 \in 1 .. Len(idx) /\ j < j + 1
      BY <2>5
    <3>. QED  BY <2>3, <3>1 DEF Selected
  <2>8. ASSUME NEW i \in DOMAIN matrix \ ToSet(idx), NEW j \in DOMAIN idx
        PROVE  Before(d, idx[j], i)
    <3>1. i \in 1 .. Len(matrix) /\ ~ \E m \in 1 .. Len(idx) : idx[m] = i
      BY <2>4, <2>5 DEF ToSet
    <3>. QED  BY <2>3, <2>5, <3>1 DEF Selected
  <2>. QED  BY <2>6, <2>7, <2>8 DEF d, idx
<1>. QED  BY <1>1, CostsInvariant, PTL

-----------------------------------------------------------------------------
(* A statement that is planned again right after it was learned.           *)

(* min_distance_id is a row, and no row is nearer.                         *)
LEMMA NearestFacts ==
  ASSUME matrix \in Seq(Records), matrix # <<>>, NEW x \in Int
  PROVE  /\ Nearest(x) \in 1 .. Len(matrix)
         /\ \A j \in 1 .. Len(matrix) : Distances(x)[Nearest(x)] <= Distances(x)[j]
<1> DEFINE d == Distances(x)
           L == Len(matrix)
           Vals == {d[i] : i \in 1 .. L}
           Best == {i \in DOMAIN matrix : \A j \in DOMAIN matrix : d[i] <= d[j]}
<1>1. L \in Nat \ {0} /\ DOMAIN matrix = 1 .. L
  OBVIOUS
<1>2. \A i \in 1 .. L : d[i] \in Nat
  <2>1. d \in Seq(Nat) /\ Len(d) = L
    BY DistancesType
  <2>. HIDE DEF d, L
  <2>. QED  BY <2>1
<1>. HIDE DEF d, L
<1>3. PICK v \in Vals : \A w \in Vals : v <= w
  <2>1. Vals \in SUBSET Nat
    BY <1>2
  <2>2. d[1] \in Vals
    BY <1>1
  <2>. HIDE DEF Vals
  <2>. QED  BY <2>1, <2>2, LeastNumber
<1>4. PICK i \in 1 .. L : d[i] = v
  BY <1>3
<1>5. i \in Best
  BY <1>1, <1>3, <1>4
<1>6. Best \in SUBSET Nat
  BY <1>1
<1>7. Min(Best) \in Best
  <2>. HIDE DEF Best
  <2>. QED  BY <1>5, <1>6, MinIsLeast
<1>8. Nearest(x) = Min(Best)
  BY DEF Nearest, d
<1>9. Nearest(x) \in Best
  BY <1>7, <1>8
<1>. QED  BY <1>1, <1>9 DEF d, L

(* A statement does not push the row that learns it away from itself.      *)
LEMMA AbsorbedNotFarther ==
  ASSUME NEW r \in Records, NEW x \in Int, NEW e \in Nat, NEW t \in Nat \ {0}
  PROVE  Distance(Absorbed(r, x, e, t).feature, x) <= Distance(r.feature, x)
<1> DEFINE f == r.feature
           moved == f + (x - f) \div 10
<1>1. f \in Int
  BY DEF Records
<1>2. Absorbed(r, x, e, t).feature \in {f, moved}
  <2> DEFINE m == [r EXCEPT !.feature = @ + (x - @) \div 10, !.est = e]
  <2>1. m.feature = moved /\ [m EXCEPT !.true = t].feature = moved
    BY DEF Records
  <2>2. Absorbed(r, x, e, t) \in {r, m, [m EXCEPT !.true = t]}
    BY DEF Absorbed
  <2>. HIDE DEF m, moved
  <2>. QED  BY <2>1, <2>2
<1>3. Distance(moved, x) <= Distance(f, x)
  <2>. HIDE DEF f
  <2>. QED  BY <1>1 DEF Distance
<1>4. Distance(f, x) <= Distance(f, x)
  <2>. HIDE DEF f
  <2>. QED  BY <1>1 DEF Distance
<1>. HIDE DEF f, moved
<1>. QED  BY <1>2, <1>3, <1>4 DEF f

\* The statement learned last has a row within the threshold.
FoundInv ==
    /\ IndInv
    /\ latest \subseteq Features
    /\ \A x \in latest : \E i \in 1 .. Len(matrix) : Distance(matrix[i].feature, x) <= Threshold

(* A statement that a row learns, or that gets one, is within the          *)
(* threshold of it.                                                        *)
LEMMA LearnFound ==
  ASSUME IndInv, IndInv', NEW x \in Features, NEW e \in EstCosts, NEW t \in TrueCosts,
         UpdateTwoBestCosts(x, e, t), NEW y \in latest'
  PROVE  y = x /\ \E i \in 1 .. Len(matrix') : Distance(matrix'[i].feature, y) <= Threshold
<1> DEFINE i == Nearest(x)
           near == matrix # <<>> /\ Distances(x)[i] < Threshold
<1>1. /\ matrix \in Seq(Records) /\ x \in Int /\ e \in Nat /\ t \in Nat \ {0}
      /\ Len(matrix) \in Nat /\ DOMAIN matrix = 1 .. Len(matrix) /\ Threshold \in Nat
  BY CostAssumption DEF IndInv
<1>2. /\ y = x /\ ~(Full /\ ~near)
      /\ IF Full \/ near
         THEN matrix' = [matrix EXCEPT ![i] = Absorbed(matrix[i], x, e, t)]
         ELSE matrix' = Append(matrix, [feature |-> x, est |-> e, true |-> t])
  BY DEF UpdateTwoBestCosts
<1>3. CASE near
  <2>1. i \in 1 .. Len(matrix)
    BY <1>1, <1>3, NearestFacts
  <2>2. Distances(x)[i] = Distance(matrix[i].feature, x)
    BY <1>1, <2>1, DistancesType
  <2>3. matrix[i] \in Records
    BY <1>1, <2>1
  <2> DEFINE a == Absorbed(matrix[i], x, e, t)
  <2>4. Distance(a.feature, x) <= Distance(matrix[i].feature, x) /\ a \in Records
    BY <1>1, <2>3, AbsorbedNotFarther, AbsorbedFacts
  <2>5. matrix' = [matrix EXCEPT ![i] = a]
    BY <1>2, <1>3
  <2>6. Distance(matrix[i].feature, x) < Threshold
    BY <1>3, <2>2
  <2>. HIDE DEF a, i
  <2>7. Distance(a.feature, x) \in Int /\ Distance(matrix[i].feature, x) \in Int
    <3>1. a.feature \in Int /\ matrix[i].feature \in Int
      BY <2>3, <2>4 DEF Records
    <3>. QED  BY <1>1, <3>1, SMTT(40) DEF Distance
  <2>8. Distance(a.feature, x) <= Threshold
    BY <1>1, <2>4, <2>6, <2>7
  <2>9. matrix'[i] = a /\ Len(matrix') = Len(matrix)
    BY <1>1, <2>1, <2>5
  <2>. QED  BY <1>2, <2>1, <2>8, <2>9
<1>4. CASE ~near
  <2>1. matrix' = Append(matrix, [feature |-> x, est |-> e, true |-> t])
    BY <1>2, <1>4
  <2>2. /\ Len(matrix') = Len(matrix) + 1
        /\ matrix'[Len(matrix) + 1] = [feature |-> x, est |-> e, true |-> t]
    <3> DEFINE r == [feature |-> x, est |-> e, true |-> t]
    <3>1. r \in Records
      BY <1>1 DEF Records
    <3>. HIDE DEF r
    <3>2. matrix' = Append(matrix, r)
      BY <2>1 DEF r
    <3>3. Len(matrix') = Len(matrix) + 1 /\ matrix'[Len(matrix) + 1] = r
      BY <1>1, <3>1, <3>2
    <3>. QED  BY <3>3 DEF r
  <2>3. Distance(x, x) <= Threshold
    BY <1>1 DEF Distance
  <2>4. Len(matrix) + 1 \in 1 .. Len(matrix')
    BY <1>1, <2>2
  <2>5. matrix'[Len(matrix) + 1].feature = x
    BY <2>2
  <2>. QED  BY <1>2, <2>3, <2>4, <2>5
<1>. QED  BY <1>3, <1>4

(* The row of the statement learned last stays within the threshold until  *)
(* the next one is learned.                                                *)
THEOREM FoundInvariant == Spec => []FoundInv
<1>1. Init => FoundInv
  <2>. SUFFICES ASSUME Init PROVE FoundInv
    OBVIOUS
  <2>1. IndInv
    BY CostAssumption DEF Init, IndInv, BestWithinRate
  <2>. QED  BY <2>1 DEF Init, FoundInv
<1>2. FoundInv /\ IndInv' /\ [Next]_vars => FoundInv'
  <2>. SUFFICES ASSUME FoundInv, IndInv', [Next]_vars PROVE FoundInv'
    OBVIOUS
  <2>1. ASSUME NEW x \in Features, CalculateBestEstimateCost(x) PROVE FoundInv'
    <3>1. matrix' = matrix /\ latest' = latest
      BY <2>1 DEF CalculateBestEstimateCost
    <3>. QED  BY <3>1 DEF FoundInv
  <2>2. ASSUME NEW x \in Features, NEW e \in EstCosts, NEW t \in TrueCosts,
               UpdateTwoBestCosts(x, e, t)
        PROVE  FoundInv'
    <3>1. ASSUME NEW y \in latest'
          PROVE  y = x /\ \E i \in 1 .. Len(matrix') : Distance(matrix'[i].feature, y) <= Threshold
      BY <2>2, LearnFound DEF FoundInv
    <3>. QED  BY <3>1 DEF FoundInv
  <2>3. CASE UNCHANGED vars
    <3>1. matrix' = matrix /\ latest' = latest
      BY <2>3 DEF vars
    <3>. QED  BY <3>1 DEF FoundInv
  <2>. QED  BY <2>1, <2>2, <2>3 DEF Next
<1>. QED  BY <1>1, <1>2, CostsInvariant, PTL DEF Spec

(* OkNNr_predict2 finds neighbours for the features that OkNNr_learn2 has  *)
(* just learned, whatever the threshold and the number of rows, unless the *)
(* matrix was full and they were far from every row.                       *)
THEOREM LatestIsFound == Spec => []LearnedIsFound
<1>1. FoundInv => LearnedIsFound
  <2>. SUFFICES ASSUME FoundInv, NEW x \in latest PROVE Neighbours(x) # <<>>
    BY DEF LearnedIsFound
  <2>1. matrix \in Seq(Records) /\ x \in Int /\ Len(matrix) \in Nat /\ Threshold \in Nat
    BY CostAssumption DEF FoundInv, IndInv
  <2>2. PICK i \in 1 .. Len(matrix) : Distance(matrix[i].feature, x) <= Threshold
    BY DEF FoundInv
  <2>3. matrix # <<>>
    BY <2>1, <2>2
  <2> DEFINE d == Distances(x)
             m == Nearest(x)
  <2>4. d \in Seq(Nat) /\ d \in Seq(Int) /\ Len(d) = Len(matrix) /\ d[i] = Distance(matrix[i].feature, x)
    BY <2>1, <2>2, DistancesType
  <2>5. m \in 1 .. Len(matrix) /\ d[m] <= d[i]
    BY <2>1, <2>2, <2>3, NearestFacts
  <2>. HIDE DEF d, m
  <2>6. d[m] <= Threshold
    <3>1. d[m] \in Nat /\ d[i] \in Nat /\ d[i] <= Threshold
      BY <2>2, <2>4, <2>5
    <3>. QED  BY <2>1, <2>5, <3>1
  <2>7. Neighbours(x) = ComputeWeights(d)
    BY <2>3, <2>6 DEF Neighbours, Covered, d, m
  <2>8. Selected(d, Len(d), ComputeWeights(d))
    BY <2>4, WeightsSelect
  <2>9. Len(ComputeWeights(d)) # 0
    BY <2>1, <2>2, <2>4, <2>8, CostAssumption DEF Selected
  <2>10. Len(<<>>) = 0
    OBVIOUS
  <2>. QED  BY <2>7, <2>9, <2>10
<1>. QED  BY <1>1, FoundInvariant, PTL

-----------------------------------------------------------------------------
(***************************************************************************)
(* Histories of templates (MarkovHistory)                                  *)
(***************************************************************************)

(* Sums over the templates.                                                *)

\* One template of a set, as the sum takes them
One(s) == CHOOSE x \in s : TRUE

(* Taking one template out of a set of them.                               *)
LEMMA OneLess ==
  ASSUME NEW P, IsFiniteSet(P), NEW s \in SUBSET P, s # {}
  PROVE  /\ One(s) \in s /\ One(s) \in P /\ s \ {One(s)} \in SUBSET P
         /\ Cardinality(s) \in Nat /\ Cardinality(s \ {One(s)}) = Cardinality(s) - 1
         /\ Cardinality(s) <= Cardinality(P) /\ Cardinality(P) \in Nat
<1>1. One(s) \in s
  BY DEF One
<1>2. IsFiniteSet(s) /\ Cardinality(s) <= Cardinality(P)
  BY FS_Subset
<1>3. Cardinality(s) \in Nat /\ Cardinality(P) \in Nat
  BY <1>2, FS_CardinalityType
<1>4. Cardinality(s \ {One(s)}) = Cardinality(s) - 1
  BY <1>1, <1>2, FS_RemoveElement
<1>. QED  BY <1>1, <1>2, <1>3, <1>4

\* What the sum over a set of templates is, given that over one less
Step(f, it, s) == IF s = {} THEN 0 ELSE f[One(s)] + it[s \ {One(s)}]

(* The sums over all sets of templates, each from that over one less: they *)
(* exist, by the least number of templates that they could not be given    *)
(* for.                                                                    *)
LEMMA SumExists ==
  ASSUME NEW P, IsFiniteSet(P), NEW f
  PROVE  \E it : it = [s \in SUBSET P |-> Step(f, it, s)]
<1> DEFINE N == Cardinality(P)
           Upto(n) == \E it : \A s \in SUBSET P : Cardinality(s) <= n => it[s] = Step(f, it, s)
           Bad == {n \in 0 .. N : ~Upto(n)}
<1>1. N \in Nat
  BY FS_CardinalityType
<1>2. Bad = {}
  <2>. SUFFICES ASSUME Bad # {} PROVE FALSE
    OBVIOUS
  <2>1. PICK n \in Bad : \A m \in Bad : n <= m
    <3>1. Bad \in SUBSET Nat
      BY <1>1
    <3>. HIDE DEF Bad
    <3>. QED  BY <3>1, LeastNumber
  <2>2. n \in 0 .. N /\ ~Upto(n)
    BY <2>1
  <2>3. n # 0
    <3>1. Upto(0)
      <4> DEFINE z == [s \in SUBSET P |-> 0]
      <4>1. ASSUME NEW s \in SUBSET P, Cardinality(s) <= 0 PROVE z[s] = Step(f, z, s)
        <5>1. s = {}
          BY <4>1, OneLess, FS_CardinalityType, FS_Subset, FS_EmptySet, SMTT(40)
        <5>. QED  BY <5>1 DEF Step
      <4>. HIDE DEF z
      <4>. QED  BY <4>1
    <3>. HIDE DEF Upto
    <3>. QED  BY <2>2, <3>1
  <2>4. n - 1 \in 0 .. N /\ n - 1 \notin Bad
    <3>1. n - 1 \in 0 .. N /\ n - 1 < n
      BY <1>1, <2>2, <2>3
    <3>. HIDE DEF Bad
    <3>. QED  BY <1>1, <2>1, <2>2, <3>1, SMTT(40)
  <2>5. PICK it : \A s \in SUBSET P : Cardinality(s) <= n - 1 => it[s] = Step(f, it, s)
    BY <2>4
  <2> DEFINE g == [s \in SUBSET P |-> IF Cardinality(s) <= n - 1 THEN it[s] ELSE Step(f, it, s)]
  <2>6. ASSUME NEW s \in SUBSET P, Cardinality(s) <= n PROVE g[s] = Step(f, g, s)
    <3>1. g[s] = Step(f, it, s)
      BY <2>5
    <3>2. Step(f, it, s) = Step(f, g, s)
      <4>1. CASE s = {}
        BY <4>1 DEF Step
      <4>2. CASE s # {}
        <5>1. s \ {One(s)} \in SUBSET P /\ Cardinality(s \ {One(s)}) <= n - 1
          BY <1>1, <2>2, <2>6, <4>2, OneLess, SMTT(40)
        <5>2. g[s \ {One(s)}] = it[s \ {One(s)}]
          BY <5>1
        <5>. HIDE DEF g
        <5>. QED  BY <5>2 DEF Step
      <4>. QED  BY <4>1, <4>2
    <3>. QED  BY <3>1, <3>2
  <2>7. Upto(n)
    <3>. HIDE DEF g
    <3>. QED  BY <2>6
  <2>. QED  BY <2>2, <2>7
<1>3. N \in 0 .. N /\ N \notin Bad
  <2>. HIDE DEF Bad, N
  <2>. QED  BY <1>1, <1>2
<1>4. PICK it : \A s \in SUBSET P : Cardinality(s) <= N => it[s] = Step(f, it, s)
  BY <1>3
<1>5. \A s \in SUBSET P : it[s] = Step(f, it, s)
  <2>1. \A s \in SUBSET P : Cardinality(s) <= N
    BY FS_Subset
  <2>. HIDE DEF N
  <2>. QED  BY <1>4, <2>1
<1> DEFINE g == [s \in SUBSET P |-> it[s]]
<1>6. ASSUME NEW s \in SUBSET P PROVE g[s] = Step(f, g, s)
  <2>1. s \ {One(s)} \in SUBSET P
    OBVIOUS
  <2>2. g[s] = it[s] /\ g[s \ {One(s)}] = it[s \ {One(s)}]
    BY <2>1
  <2>3. it[s] = Step(f, it, s)
    BY <1>5
  <2>. HIDE DEF g
  <2>. QED  BY <2>2, <2>3 DEF Step
<1>7. g = [s \in SUBSET P |-> g[s]]
  OBVIOUS
<1>8. g = [s \in SUBSET P |-> Step(f, g, s)]
  <2>. HIDE DEF g
  <2>. QED  BY <1>6, <1>7
<1>. HIDE DEF g
<1>. QED  BY <1>8

\* The sum of the frequencies of a row
SumOf(f) == MapThenSumSet(LAMBDA p : f[p], Patterns)

(* So the sum is the last of them.                                         *)
LEMMA SumIs ==
  ASSUME NEW f
  PROVE  \E it : /\ it = [s \in SUBSET Patterns |-> Step(f, it, s)]
                 /\ SumOf(f) = it[Patterns]
<1> DEFINE it == CHOOSE it : it = [s \in SUBSET Patterns |-> Step(f, it, s)]
<1>1. it = [s \in SUBSET Patterns |-> Step(f, it, s)]
  BY SumExists, MarkovAssumption
<1>2. SumOf(f) = it[Patterns]
  BY DEF SumOf, MapThenSumSet, MapThenFoldSet, Step, One
<1>. HIDE DEF it
<1>. QED  BY <1>1, <1>2

(* The sum of a row of zeros.                                              *)
LEMMA SumZero == SumOf([q \in Patterns |-> 0]) = 0
<1> DEFINE P == Patterns
           f == [q \in P |-> 0]
<1>0. IsFiniteSet(P)
  BY MarkovAssumption
<1>1. PICK it : /\ it = [s \in SUBSET P |-> Step(f, it, s)]
                /\ SumOf(f) = it[P]
  <2>. HIDE DEF f
  <2>. QED  BY SumIs
<1>2. \A s \in SUBSET P : it[s] = Step(f, it, s)
  BY <1>1
<1> DEFINE Odd == {Cardinality(s) : s \in {u \in SUBSET P : it[u] # 0}}
<1>3. Odd = {}
  <2>. SUFFICES ASSUME Odd # {} PROVE FALSE
    OBVIOUS
  <2>1. Odd \in SUBSET Nat
    BY <1>0, FS_Subset, FS_CardinalityType
  <2>2. PICK n \in Odd : \A m \in Odd : n <= m
    <3>. HIDE DEF Odd
    <3>. QED  BY <2>1, LeastNumber
  <2>3. PICK s \in SUBSET P : it[s] # 0 /\ n = Cardinality(s)
    BY <2>2
  <2>4. s # {} /\ it[s] = f[One(s)] + it[s \ {One(s)}]
    BY <1>2, <2>3 DEF Step
  <2>5. /\ One(s) \in P /\ s \ {One(s)} \in SUBSET P /\ n \in Nat
        /\ Cardinality(s \ {One(s)}) = n - 1
    BY <1>0, <2>3, <2>4, OneLess
  <2>6. Cardinality(s \ {One(s)}) \notin Odd
    <3>. HIDE DEF Odd
    <3>. QED  BY <2>2, <2>5
  <2>7. it[s \ {One(s)}] = 0
    BY <2>5, <2>6
  <2>. QED  BY <2>3, <2>4, <2>5, <2>7
<1>4. it[P] = 0
  BY <1>3
<1>. QED  BY <1>1, <1>4

(* Adding how often each template occurs at the places of I adds their     *)
(* number to the sum.                                                      *)
LEMMA SumCounted ==
  ASSUME NEW f \in [Patterns -> Nat], SumOf(f) \in Nat,
         NEW I, IsFiniteSet(I), NEW h, \A i \in I : h[i] \in Patterns
  PROVE  SumOf([p \in Patterns |-> f[p] + Cardinality({i \in I : h[i] = p})])
           = SumOf(f) + Cardinality(I)
<1> DEFINE P == Patterns
           C(p) == Cardinality({i \in I : h[i] = p})
           g == [p \in P |-> f[p] + C(p)]
           In(s) == {i \in I : h[i] \in s}
<1>0. IsFiniteSet(P)
  BY MarkovAssumption
<1>1. PICK a : a = [s \in SUBSET P |-> Step(f, a, s)] /\ SumOf(f) = a[P]
  BY SumIs
<1>2. PICK b : b = [s \in SUBSET P |-> Step(g, b, s)] /\ SumOf(g) = b[P]
  <2>. HIDE DEF g
  <2>. QED  BY SumIs
<1>3. \A s \in SUBSET P : a[s] = Step(f, a, s) /\ b[s] = Step(g, b, s)
  <2>. HIDE DEF g
  <2>. QED  BY <1>1, <1>2
<1> DEFINE Good(s) == a[s] \in Nat /\ b[s] = a[s] + Cardinality(In(s))
           Odd == {Cardinality(s) : s \in {u \in SUBSET P : ~Good(u)}}
<1>4. Odd = {}
  <2>. SUFFICES ASSUME Odd # {} PROVE FALSE
    OBVIOUS
  <2>1. Odd \in SUBSET Nat
    BY <1>0, FS_Subset, FS_CardinalityType
  <2>2. PICK n \in Odd : \A m \in Odd : n <= m
    <3>. HIDE DEF Odd
    <3>. QED  BY <2>1, LeastNumber
  <2>3. PICK s \in SUBSET P : ~Good(s) /\ n = Cardinality(s)
    <3>. HIDE DEF Good
    <3>. QED  BY <2>2
  <2>4. s # {}
    <3>1. SUFFICES ASSUME s = {} PROVE FALSE
      OBVIOUS
    <3>2. a[s] = 0 /\ b[s] = 0
      BY <1>3, <3>1 DEF Step
    <3>3. In(s) = {}
      BY <3>1
    <3>4. Cardinality(In(s)) = 0
      <4>. HIDE DEF In
      <4>. QED  BY <3>3, FS_EmptySet
    <3>. HIDE DEF In
    <3>. QED  BY <2>3, <3>2, <3>4
  <2> DEFINE x == One(s)
             r == s \ {x}
  <2>5. x \in s /\ x \in P /\ r \in SUBSET P /\ n \in Nat /\ Cardinality(r) = n - 1
    BY <1>0, <2>3, <2>4, OneLess
  <2>6. a[s] = f[x] + a[r] /\ b[s] = g[x] + b[r]
    <3>. HIDE DEF g
    <3>. QED  BY <1>3, <2>3, <2>4 DEF Step
  <2>7. Good(r)
    <3>1. Cardinality(r) \notin Odd
      <4>. HIDE DEF Odd, x, r
      <4>. QED  BY <2>2, <2>5
    <3>. HIDE DEF Good, x, r
    <3>. QED  BY <2>5, <3>1
  <2>8. /\ C(x) \in Nat /\ Cardinality(In(r)) \in Nat
        /\ Cardinality(In(s)) = C(x) + Cardinality(In(r))
    <3> DEFINE X == {i \in I : h[i] = x}
               Y == In(r)
    <3>1. IsFiniteSet(X) /\ IsFiniteSet(Y)
      BY FS_Subset
    <3>2. In(s) = X \cup Y /\ X \cap Y = {}
      BY <2>5
    <3>3. Cardinality(X) \in Nat /\ Cardinality(Y) \in Nat
      <4>. HIDE DEF X, Y
      <4>. QED  BY <3>1, FS_CardinalityType
    <3>4. Cardinality(X \cup Y) = Cardinality(X) + Cardinality(Y) - Cardinality(X \cap Y)
      <4>. HIDE DEF X, Y
      <4>. QED  BY <3>1, FS_Union
    <3>5. Cardinality(X \cap Y) = 0
      <4>. HIDE DEF X, Y
      <4>. QED  BY <3>2, FS_EmptySet
    <3>6. Cardinality(In(s)) = Cardinality(X) + Cardinality(Y)
      <4>. HIDE DEF X, Y, In
      <4>. QED  BY <3>2, <3>3, <3>4, <3>5
    <3>. QED  BY <3>3, <3>6
  <2>9. g[x] = f[x] + C(x) /\ f[x] \in Nat
    BY <2>5
  <2>. HIDE DEF g, C, In, x, r
  <2>10. Good(s)
    BY <2>6, <2>7, <2>8, <2>9
  <2>. QED  BY <2>3, <2>10
<1>5. Good(P)
  <2>. HIDE DEF Good
  <2>. QED  BY <1>4
<1>6. In(P) = I
  OBVIOUS
<1>. HIDE DEF g, C, In
<1>7. SumOf(g) = SumOf(f) + Cardinality(I)
  BY <1>1, <1>2, <1>5, <1>6
<1>. QED  BY <1>7 DEF g, C

-----------------------------------------------------------------------------
(* The history of aqo_planner.                                             *)

(* The last n elements of a sequence.                                      *)
LEMMA LastOfFacts ==
  ASSUME NEW S, NEW s \in Seq(S), NEW n \in Nat
  PROVE  /\ LastOf(s, n) \in Seq(S)
         /\ Len(LastOf(s, n)) = IF Len(s) <= n THEN Len(s) ELSE n
         /\ \A i \in 1 .. Len(LastOf(s, n)) :
               LastOf(s, n)[i] = s[Len(s) - Len(LastOf(s, n)) + i]
<1>1. Len(s) \in Nat /\ s \in [1 .. Len(s) -> S]
  OBVIOUS
<1>2. CASE Len(s) <= n
  <2>1. LastOf(s, n) = s
    BY <1>2 DEF LastOf
  <2>2. \A i \in 1 .. Len(s) : Len(s) - Len(s) + i = i
    BY <1>1
  <2>. QED  BY <1>2, <2>1, <2>2
<1>3. CASE ~(Len(s) <= n)
  <2> DEFINE from == Len(s) - n + 1
             w == SubSeq(s, from, Len(s))
  <2>1. LastOf(s, n) = w
    BY <1>3 DEF LastOf
  <2>2. from \in 1 .. Len(s) + 1 /\ Len(s) - from + 1 = n /\ from \in Int
    BY <1>1, <1>3
  <2>3. /\ w \in Seq(S) /\ Len(w) = n
        /\ \A i \in 1 .. n : w[i] = s[from + i - 1]
    <3>. HIDE DEF from
    <3>. QED  BY <1>1, <2>2
  <2>4. \A i \in 1 .. n : from + i - 1 = Len(s) - n + i
    BY <1>1
  <2>. HIDE DEF w, from
  <2>. QED  BY <1>1, <1>3, <2>1, <2>3, <2>4
<1>. QED  BY <1>2, <1>3

(* Appending to the sequence shifts the window of its last n elements.     *)
LEMMA LastOfAppend ==
  ASSUME NEW S, NEW s \in Seq(S), NEW p \in S, NEW n \in Nat \ {0}
  PROVE  LastOf(Append(s, p), n) =
           IF Len(LastOf(s, n)) < n THEN Append(LastOf(s, n), p) ELSE Tail(LastOf(s, n)) \o <<p>>
<1> DEFINE w == LastOf(s, n)
           t == Append(s, p)
           v == LastOf(t, n)
<1>1. /\ Len(s) \in Nat /\ t \in Seq(S) /\ Len(t) = Len(s) + 1
      /\ \A i \in 1 .. Len(s) : t[i] = s[i]
      /\ t[Len(s) + 1] = p
  OBVIOUS
<1>2. /\ w \in Seq(S) /\ Len(w) = IF Len(s) <= n THEN Len(s) ELSE n
      /\ \A i \in 1 .. Len(w) : w[i] = s[Len(s) - Len(w) + i]
  BY LastOfFacts
<1>. HIDE DEF t
<1>3. /\ v \in Seq(S) /\ Len(v) = IF Len(t) <= n THEN Len(t) ELSE n
      /\ \A i \in 1 .. Len(v) : v[i] = t[Len(t) - Len(v) + i]
  <2>1. t \in Seq(S) /\ n \in Nat
    BY <1>1
  <2>. QED  BY <2>1, LastOfFacts
<1>4. CASE Len(w) < n
  <2>1. Len(s) < n /\ Len(t) <= n
    BY <1>1, <1>2, <1>4
  <2>2. w = s /\ v = t
    BY <1>1, <2>1 DEF LastOf
  <2>. QED  BY <1>4, <2>2 DEF t
<1>5. CASE ~(Len(w) < n)
  <2>1. Len(w) = n /\ Len(s) >= n /\ Len(v) = n
    BY <1>1, <1>2, <1>3, <1>5
  <2> DEFINE u == Tail(w) \o <<p>>
  <2>. HIDE DEF w, v
  <2>2. /\ Tail(w) \in Seq(S) /\ Len(Tail(w)) = n - 1
        /\ \A i \in 1 .. n - 1 : Tail(w)[i] = w[i + 1]
    BY <1>2, <2>1
  <2>3. /\ u \in Seq(S) /\ Len(u) = n
        /\ \A i \in 1 .. n : u[i] = IF i < n THEN Tail(w)[i] ELSE p
    <3>. HIDE DEF w
    <3> DEFINE z == Tail(w)
    <3>1. z \in Seq(S) /\ Len(z) = n - 1
      BY <2>2
    <3>. HIDE DEF z
    <3>2. /\ z \o <<p>> \in Seq(S) /\ Len(z \o <<p>>) = n
          /\ \A i \in 1 .. n : (z \o <<p>>)[i] = IF i < n THEN z[i] ELSE p
      BY <3>1
    <3>. QED  BY <3>2 DEF z
  <2>. HIDE DEF u
  <2>4. ASSUME NEW i \in 1 .. n PROVE v[i] = u[i]
    <3>0. n \in Nat /\ i \in Nat /\ Len(s) \in Nat
      BY <1>1
    <3>1. v[i] = t[Len(s) + 1 - n + i]
      <4>1. v[i] = t[Len(t) - Len(v) + i]
        BY <1>3, <2>1
      <4>2. Len(t) - Len(v) + i = Len(s) + 1 - n + i
        BY <1>1, <2>1
      <4>. QED  BY <4>1, <4>2
    <3>2. CASE i = n
      <4>1. Len(s) + 1 - n + i = Len(s) + 1
        BY <1>1, <3>2
      <4>2. u[i] = p
        BY <2>3, <3>0, <3>2
      <4>. QED  BY <1>1, <3>1, <4>1, <4>2
    <3>3. CASE i < n
      <4>1. u[i] = w[i + 1] /\ i + 1 \in 1 .. n
        BY <2>2, <2>3, <3>3
      <4>2. w[i + 1] = s[Len(s) - n + (i + 1)]
        BY <1>2, <2>1, <4>1
      <4>3. Len(s) - n + (i + 1) = Len(s) + 1 - n + i /\ Len(s) + 1 - n + i \in 1 .. Len(s)
        BY <1>1, <2>1, <3>3
      <4>4. t[Len(s) + 1 - n + i] = s[Len(s) + 1 - n + i]
        BY <1>1, <4>3
      <4>. QED  BY <3>1, <4>1, <4>2, <4>3, <4>4
    <3>. QED  BY <3>0, <3>2, <3>3
  <2>5. v = u
    BY <1>3, <2>1, <2>3, <2>4
  <2>. QED  BY <1>5, <2>5 DEF u, v, w, t
<1>. QED  BY <1>4, <1>5

\* The types of what aqo_planner works on, and its history
WindowInv ==
    /\ run \in Seq(Patterns) /\ next \in Patterns
    /\ WindowIsLast

(* Whatever the driver does, its restarts included, the history that       *)
(* aqo_planner keeps in aqo_queries is that of the last statements, for    *)
(* any number of them.                                                     *)
THEOREM WindowStaysLast == MarkovSpec => []WindowIsLast
<1>0. Order \in Nat \ {0}
  BY MarkovAssumption
<1>1. MarkovInit => WindowInv
  <2>1. LastOf(<<>>, Order) = <<>>
    BY <1>0 DEF LastOf
  <2>. QED  BY <2>1 DEF MarkovInit, WindowInv, WindowIsLast
<1>2. WindowInv /\ [MarkovNext]_markovVars => WindowInv'
  <2>. SUFFICES ASSUME WindowInv, [MarkovNext]_markovVars PROVE WindowInv'
    OBVIOUS
  <2>1. ASSUME NEW p \in Patterns, UpdateMarkovTable(p) PROVE WindowInv'
    <3>1. next' = p /\ run' = run /\ window' = window
      BY <2>1 DEF UpdateMarkovTable
    <3>. QED  BY <3>1 DEF WindowInv, WindowIsLast
  <2>2. CASE Restart
    BY <2>2 DEF Restart, WindowInv, WindowIsLast
  <2>3. CASE Plan
    <3>1. run' = Append(run, next) /\ window' = Pushed(next) /\ next' = next
      BY <2>3 DEF Plan
    <3>2. run \in Seq(Patterns) /\ next \in Patterns /\ window = LastOf(run, Order)
      BY DEF WindowInv, WindowIsLast
    <3>3. LastOf(Append(run, next), Order) = Pushed(next)
      BY <1>0, <3>2, LastOfAppend DEF Pushed
    <3>4. run' \in Seq(Patterns)
      BY <3>1, <3>2
    <3>. QED  BY <3>1, <3>2, <3>3, <3>4 DEF WindowInv, WindowIsLast
  <2>4. CASE UNCHANGED markovVars
    BY <2>4 DEF markovVars, WindowInv, WindowIsLast
  <2>. QED  BY <2>1, <2>2, <2>3, <2>4 DEF MarkovNext, Finished
<1>3. WindowInv => WindowIsLast
  BY DEF WindowInv
<1>. QED  BY <1>1, <1>2, <1>3, PTL DEF MarkovSpec

-----------------------------------------------------------------------------
(* The history of the driver.                                              *)

\* The driver's history lies behind the statements taken on since it was
\* started.  Once it is full, each statement brings one more of its first
\* HistoryNum - 1 entries in line with the last statements, from the back.
HistInv ==
    /\ pc \in {"next", "plan"} /\ run \in Seq(Patterns) /\ next \in Patterns /\ num \in Nat
    /\ hist \in Seq(Patterns)
    /\ Len(hist) = IF num <= HistoryNum THEN num ELSE HistoryNum
    /\ num <= Len(Taken)
    /\ HistoryNum = 2 =>
         \A i \in 1 .. Len(hist) : hist[i] = Taken[Len(Taken) - Len(hist) + i]
    /\ HistoryNum > 2 /\ num > HistoryNum =>
         \A i \in 1 .. HistoryNum - 1 :
             i >= 2 * HistoryNum - num => hist[i] = Taken[Len(Taken) - HistoryNum + 1 + i]

(* The driver takes a statement on.                                        *)
LEMMA HistUpdate ==
  ASSUME HistInv, NEW p \in Patterns, UpdateMarkovTable(p)
  PROVE  HistInv'
<1> DEFINE H == HistoryNum
           T == Taken
           n == Len(Taken)
           U == Append(Taken, p)
<1>1. H \in Nat /\ H >= 2
  BY MarkovAssumption
<1>2. /\ pc = "next" /\ pc' = "plan" /\ run' = run /\ next' = p /\ num' = num + 1
      /\ IF num' < H + 1 THEN hist' = Append(hist, p) ELSE hist' = Shifted(p)
  BY DEF UpdateMarkovTable
<1>3. T = run /\ Taken' = U
  BY <1>2 DEF Taken
<1>4. /\ T \in Seq(Patterns) /\ n \in Nat /\ num \in Nat /\ num <= n
      /\ hist \in Seq(Patterns) /\ Len(hist) = IF num <= H THEN num ELSE H
  BY <1>3 DEF HistInv
<1>5. /\ U \in Seq(Patterns) /\ Len(U) = n + 1 /\ U[n + 1] = p
      /\ \A i \in 1 .. n : U[i] = T[i]
  <2>. HIDE DEF T
  <2>1. Taken = T
    BY DEF T
  <2>. QED  BY <1>4, <2>1
<1>6. /\ H = 2 => \A i \in 1 .. Len(hist) : hist[i] = T[n - Len(hist) + i]
      /\ H > 2 /\ num > H => \A i \in 1 .. H - 1 : i >= 2 * H - num => hist[i] = T[n - H + 1 + i]
  BY DEF HistInv
<1>. HIDE DEF H, T, n, U
<1>7. CASE num' < H + 1
  <2>1. hist' = Append(hist, p) /\ num + 1 <= H /\ Len(hist) = num
    BY <1>1, <1>2, <1>4, <1>7
  <2>2. /\ hist' \in Seq(Patterns) /\ Len(hist') = num + 1 /\ hist'[num + 1] = p
        /\ \A i \in 1 .. num : hist'[i] = hist[i]
    BY <1>4, <2>1
  <2>3. ASSUME H = 2, NEW i \in 1 .. num + 1 PROVE hist'[i] = U[(n + 1) - (num + 1) + i]
    <3>1. CASE i = num + 1
      <4>1. (n + 1) - (num + 1) + i = n + 1
        BY <1>4, <3>1
      <4>. QED  BY <1>5, <2>2, <3>1, <4>1
    <3>2. CASE i # num + 1
      <4>1. i \in 1 .. num /\ n - num + i \in 1 .. n /\ (n + 1) - (num + 1) + i = n - num + i
        BY <1>4, <3>2
      <4>2. hist[i] = T[n - num + i]
        BY <1>6, <2>1, <2>3, <4>1
      <4>. QED  BY <1>5, <2>2, <4>1, <4>2
    <3>. QED  BY <3>1, <3>2
  <2>4. ~(num' > H)
    BY <1>1, <1>2, <1>4, <2>1
  <2>5. num' <= Len(Taken') /\ Len(hist') = (IF num' <= H THEN num' ELSE H) /\ num' \in Nat
    BY <1>1, <1>2, <1>3, <1>4, <1>5, <2>1, <2>2
  <2>6. H = 2 => \A i \in 1 .. Len(hist') : hist'[i] = Taken'[Len(Taken') - Len(hist') + i]
    BY <1>3, <1>5, <2>2, <2>3
  <2>7. run' \in Seq(Patterns) /\ pc' \in {"next", "plan"} /\ next' \in Patterns
    BY <1>2, <1>3, <1>4
  <2>. QED  BY <2>2, <2>4, <2>5, <2>6, <2>7 DEF HistInv, H
<1>8. CASE ~(num' < H + 1)
  <2>1. hist' = Shifted(p) /\ num >= H /\ Len(hist) = H
    BY <1>1, <1>2, <1>4, <1>8
  <2>2. hist' = [i \in 1 .. H |-> IF i = H \/ (i = H - 1 /\ i > 1) THEN p ELSE hist[i + 1]]
    BY <2>1 DEF Shifted, H
  <2>3. hist' \in Seq(Patterns) /\ Len(hist') = H
    <3>1. ASSUME NEW i \in 1 .. H, i # H PROVE hist[i + 1] \in Patterns
      <4>1. i + 1 \in 1 .. Len(hist)
        BY <1>1, <2>1, <3>1
      <4>2. hist \in Seq(Patterns)
        BY <1>4
      <4>. QED  BY <4>1, <4>2
    <3>2. hist' \in [1 .. H -> Patterns]
      BY <2>2, <3>1
    <3>. QED  BY <1>1, <3>2
  <2>4. ASSUME H = 2, NEW i \in 1 .. 2 PROVE hist'[i] = U[(n + 1) - 2 + i]
    <3>1. CASE i = 2
      <4>1. hist'[i] = p /\ (n + 1) - 2 + i = n + 1
        BY <1>4, <2>2, <2>4, <3>1
      <4>. QED  BY <1>5, <4>1
    <3>2. CASE i = 1
      <4>1. hist'[i] = hist[2]
        BY <2>2, <2>4, <3>2
      <4>2. hist[2] = T[n - 2 + 2] /\ n - 2 + 2 = n /\ (n + 1) - 2 + i = n /\ n \in 1 .. n
        BY <1>4, <1>6, <2>1, <2>4, <3>2, SMTT(40)
      <4>. QED  BY <1>5, <4>1, <4>2
    <3>. QED  BY <3>1, <3>2
  <2>5. ASSUME H > 2, NEW i \in 1 .. H - 1, i >= 2 * H - (num + 1)
        PROVE  hist'[i] = U[(n + 1) - H + 1 + i]
    <3>1. CASE i = H - 1
      <4>1. hist'[i] = p /\ (n + 1) - H + 1 + i = n + 1
        BY <1>1, <1>4, <2>2, <2>5, <3>1
      <4>. QED  BY <1>5, <4>1
    <3>2. CASE i # H - 1
      <4>1. i + 1 \in 1 .. H - 1 /\ i + 1 >= 2 * H - num /\ num > H /\ i \in 1 .. H /\ i # H
        BY <1>1, <1>4, <2>1, <2>5, <3>2
      <4>2. hist'[i] = hist[i + 1]
        BY <2>2, <3>2, <4>1
      <4>3. hist[i + 1] = T[n - H + 1 + (i + 1)]
        BY <1>6, <2>5, <4>1
      <4>4. n - H + 1 + (i + 1) = (n + 1) - H + 1 + i /\ (n + 1) - H + 1 + i \in 1 .. n
        BY <1>1, <1>4, <4>1
      <4>. QED  BY <1>5, <4>2, <4>3, <4>4
    <3>. QED  BY <3>1, <3>2
  <2>6. /\ num' <= Len(Taken') /\ Len(hist') = (IF num' <= H THEN num' ELSE H) /\ num' \in Nat
        /\ Len(Taken') = n + 1
    BY <1>1, <1>2, <1>3, <1>4, <1>5, <2>1, <2>3
  <2>7. H = 2 => \A i \in 1 .. Len(hist') : hist'[i] = Taken'[Len(Taken') - Len(hist') + i]
    BY <1>3, <2>3, <2>4, <2>6
  <2>8. H > 2 /\ num' > H =>
          \A i \in 1 .. H - 1 : i >= 2 * H - num' => hist'[i] = Taken'[Len(Taken') - H + 1 + i]
    BY <1>2, <1>3, <2>5, <2>6
  <2>9. run' \in Seq(Patterns) /\ pc' \in {"next", "plan"} /\ next' \in Patterns
    BY <1>2, <1>3, <1>4
  <2>. QED  BY <2>3, <2>6, <2>7, <2>8, <2>9 DEF HistInv, H
<1>. QED  BY <1>7, <1>8

(* The driver's history is in line for any number of statements and of     *)
(* restarts.                                                               *)
THEOREM HistInvariant == MarkovSpec => []HistInv
<1>0. HistoryNum \in Nat
  BY MarkovAssumption
<1>1. MarkovInit => HistInv
  BY <1>0 DEF MarkovInit, HistInv, Taken
<1>2. HistInv /\ [MarkovNext]_markovVars => HistInv'
  <2>. SUFFICES ASSUME HistInv, [MarkovNext]_markovVars PROVE HistInv'
    OBVIOUS
  <2>1. ASSUME NEW p \in Patterns, UpdateMarkovTable(p) PROVE HistInv'
    BY <2>1, HistUpdate
  <2>2. CASE Restart
    <3>1. /\ pc' = pc /\ run' = run /\ next' = next /\ num' = 0 /\ hist' = <<>>
      BY <2>2 DEF Restart
    <3>2. Taken' = Taken
      BY <3>1 DEF Taken
    <3>3. Len(Taken) \in Nat
      BY DEF HistInv, Taken
    <3>4. /\ hist' \in Seq(Patterns) /\ Len(hist') = 0 /\ 0 <= Len(Taken') /\ ~(num' > HistoryNum)
          /\ Len(hist') = IF num' <= HistoryNum THEN num' ELSE HistoryNum
      BY <1>0, <3>1, <3>2, <3>3
    <3>5. \A i \in 1 .. Len(hist') : hist'[i] = Taken'[Len(Taken') - Len(hist') + i]
      BY <3>4
    <3>. QED  BY <3>1, <3>4, <3>5 DEF HistInv
  <2>3. CASE Plan
    <3>1. /\ pc = "plan" /\ pc' = "next" /\ run' = Append(run, next)
          /\ next' = next /\ num' = num /\ hist' = hist
      BY <2>3 DEF Plan
    <3>2. Taken' = Taken
      BY <3>1 DEF Taken
    <3>3. run' \in Seq(Patterns)
      BY <3>1 DEF HistInv
    <3>. QED  BY <3>1, <3>2, <3>3 DEF HistInv
  <2>4. CASE UNCHANGED markovVars
    <3>1. Taken' = Taken
      BY <2>4 DEF markovVars, Taken
    <3>. QED  BY <2>4, <3>1 DEF markovVars, HistInv
  <2>. QED  BY <2>1, <2>2, <2>3, <2>4 DEF MarkovNext, Finished
<1>. QED  BY <1>1, <1>2, PTL DEF MarkovSpec

(* update_markov_table counts under states that really came up: after      *)
(* HistoryNum - 1 shifts all but the last entry of its history are the     *)
(* last statements, for any --history-num.                                 *)
THEOREM StatesAreReal == MarkovSpec => []StateIsReal
<1>1. HistInv => StateIsReal
  <2> DEFINE H == HistoryNum
             T == Taken
             n == Len(Taken)
  <2>. SUFFICES ASSUME HistInv, num >= 2 * H - 1
                PROVE  IF H = 2 THEN hist = LastOf(T, 2) ELSE Front(hist) = LastOf(T, H - 1)
    BY DEF StateIsReal
  <2>1. H \in Nat /\ H >= 2
    BY MarkovAssumption
  <2>2. T \in Seq(Patterns)
    BY DEF HistInv, Taken
  <2>3. n \in Nat /\ num \in Nat /\ num <= n /\ num > H /\ hist \in Seq(Patterns) /\ Len(hist) = H
    BY <2>1, <2>2 DEF HistInv
  <2>4. CASE H = 2
    <3>1. \A i \in 1 .. 2 : hist[i] = T[n - 2 + i]
      BY <2>3, <2>4 DEF HistInv
    <3> DEFINE w == LastOf(T, 2)
    <3>2. /\ w \in Seq(Patterns) /\ Len(w) = (IF n <= 2 THEN n ELSE 2)
          /\ \A i \in 1 .. Len(w) : w[i] = T[n - Len(w) + i]
      <4>1. Len(T) = n /\ 2 \in Nat
        OBVIOUS
      <4>. HIDE DEF T, n
      <4>. QED  BY <2>2, <4>1, LastOfFacts
    <3>. HIDE DEF w, T, n, H
    <3>3. Len(w) = 2
      BY <2>3, <2>4, <3>2
    <3>4. \A i \in 1 .. Len(hist) : hist[i] = w[i]
      BY <2>3, <2>4, <3>1, <3>2, <3>3
    <3>5. hist = w
      BY <2>3, <2>4, <3>2, <3>3, <3>4
    <3>. QED  BY <2>4, <3>5 DEF w
  <2>5. CASE H # 2
    <3>1. \A i \in 1 .. H - 1 : hist[i] = T[n - H + 1 + i]
      <4>1. H > 2 /\ num > H
        BY <2>1, <2>3, <2>5
      <4>2. \A i \in 1 .. H - 1 : i >= 2 * H - num => hist[i] = T[n - H + 1 + i]
        BY <4>1 DEF HistInv
      <4>3. \A i \in 1 .. H - 1 : i >= 2 * H - num
        BY <2>1, <2>3
      <4>. QED  BY <4>2, <4>3
    <3> DEFINE w == LastOf(T, H - 1)
               f == Front(hist)
    <3>2. /\ w \in Seq(Patterns) /\ Len(w) = (IF n <= H - 1 THEN n ELSE H - 1)
          /\ \A i \in 1 .. Len(w) : w[i] = T[n - Len(w) + i]
      <4>1. Len(T) = n /\ H - 1 \in Nat
        BY <2>1
      <4>. HIDE DEF T, n, H
      <4>. QED  BY <2>2, <4>1, LastOfFacts
    <3>. HIDE DEF T, n, H
    <3>3. f \in Seq(Patterns) /\ Len(f) = H - 1 /\ \A i \in 1 .. H - 1 : f[i] = hist[i]
      BY <2>1, <2>3 DEF Front
    <3>. HIDE DEF w, f
    <3>4. Len(w) = H - 1
      BY <2>1, <2>3, <3>2
    <3>5. \A i \in 1 .. Len(f) : f[i] = w[i]
      <4>. SUFFICES ASSUME NEW i \in 1 .. H - 1 PROVE f[i] = w[i]
        BY <3>3
      <4>1. w[i] = T[n - (H - 1) + i]
        BY <3>2, <3>4
      <4>2. n - (H - 1) + i = n - H + 1 + i
        BY <2>1, <2>3
      <4>. QED  BY <3>1, <3>3, <4>1, <4>2
    <3>6. f = w
      BY <3>2, <3>3, <3>4, <3>5
    <3>. QED  BY <2>5, <3>6 DEF w, f
  <2>. QED  BY <2>4, <2>5
<1>. QED  BY <1>1, HistInvariant, PTL

-----------------------------------------------------------------------------
(* The rows of the Markov table.                                           *)

\* Every row has a frequency for each template and a number of visits that
\* fits them.
CountsInv ==
    /\ DOMAIN visits = DOMAIN table
    /\ \A s \in DOMAIN table :
         /\ table[s] \in [Patterns -> Nat] /\ visits[s] \in Nat \ {0}
         /\ SumOf(table[s]) = (HistoryNum - Order) * visits[s]

(* One call of imdb_get_queries_distribution_k counts the templates behind *)
(* the state.                                                              *)
LEMMA CountedSum ==
  ASSUME NEW f \in [Patterns -> Nat], SumOf(f) \in Nat,
         hist \in Seq(Patterns), Len(hist) = HistoryNum
  PROVE  /\ Counted(f) \in [Patterns -> Nat]
         /\ SumOf(Counted(f)) = SumOf(f) + (HistoryNum - Order)
<1> DEFINE I == Order + 1 .. HistoryNum
           C(p) == Cardinality({i \in I : hist[i] = p})
<1>1. Order \in Nat /\ HistoryNum \in Nat /\ Order < HistoryNum
  BY MarkovAssumption
<1>2. IsFiniteSet(I) /\ Cardinality(I) = HistoryNum - Order
  <2>1. /\ IsFiniteSet(I)
        /\ Cardinality(I) = IF Order + 1 > HistoryNum THEN 0 ELSE HistoryNum - (Order + 1) + 1
    <3> DEFINE a == Order + 1
    <3>1. a \in Int /\ HistoryNum \in Int
      BY <1>1
    <3>. HIDE DEF a
    <3>2. /\ IsFiniteSet(a .. HistoryNum)
          /\ Cardinality(a .. HistoryNum) = IF a > HistoryNum THEN 0 ELSE HistoryNum - a + 1
      BY <3>1, FS_Interval
    <3>. QED  BY <3>2 DEF a
  <2>. HIDE DEF I
  <2>. QED  BY <1>1, <2>1
<1>3. \A i \in I : hist[i] \in Patterns
  <2>1. \A i \in I : i \in 1 .. Len(hist)
    BY <1>1
  <2>. HIDE DEF I
  <2>. QED  BY <2>1
<1>4. Counted(f) = [p \in Patterns |-> f[p] + C(p)]
  BY DEF Counted, Count
<1>5. ASSUME NEW p \in Patterns PROVE C(p) \in Nat
  <2> DEFINE X == {i \in I : hist[i] = p}
  <2>1. X \subseteq I
    OBVIOUS
  <2>2. IsFiniteSet(X)
    <3>. HIDE DEF X, I
    <3>. QED  BY <1>2, <2>1, FS_Subset
  <2>. HIDE DEF X
  <2>3. Cardinality(X) \in Nat
    BY <2>2, FS_CardinalityType
  <2>. QED  BY <2>3 DEF X
<1>6. Counted(f) \in [Patterns -> Nat]
  <2>. HIDE DEF C
  <2>. QED  BY <1>4, <1>5
<1>7. SumOf(Counted(f)) = SumOf(f) + Cardinality(I)
  <2>1. SumOf([p \in Patterns |-> f[p] + C(p)]) = SumOf(f) + Cardinality(I)
    <3>. HIDE DEF I
    <3>. QED  BY <1>2, <1>3, SumCounted
  <2>. HIDE DEF C, I
  <2>. QED  BY <1>4, <2>1
<1>. QED  BY <1>2, <1>6, <1>7

(* The table after the driver has taken a statement on.                    *)
LEMMA CountsUpdate ==
  ASSUME HistInv, CountsInv, NEW p \in Patterns, UpdateMarkovTable(p)
  PROVE  CountsInv'
<1> DEFINE D == HistoryNum - Order
           S == SubSeq(hist, 1, Order)
           old == S \in DOMAIN table
           freq == IF old THEN table[S] ELSE [q \in Patterns |-> 0]
           seen == IF old THEN visits[S] ELSE 0
           dom == DOMAIN table \cup {S}
<1>0. HistoryNum \in Nat /\ D \in Nat
  BY MarkovAssumption
<1>1. CASE num' < HistoryNum + 1
  <2>1. table' = table /\ visits' = visits
    BY <1>1 DEF UpdateMarkovTable
  <2>. QED  BY <2>1 DEF CountsInv
<1>2. CASE ~(num' < HistoryNum + 1)
  <2>1. /\ num' = num + 1
        /\ table' = [t \in dom |-> IF t = S THEN Counted(freq) ELSE table[t]]
        /\ visits' = [t \in dom |-> IF t = S THEN seen + 1 ELSE visits[t]]
    BY <1>2 DEF UpdateMarkovTable
  <2>2. hist \in Seq(Patterns) /\ Len(hist) = HistoryNum
    BY <1>0, <1>2, <2>1, SMTT(40) DEF HistInv
  <2>3. \A t \in DOMAIN table : /\ table[t] \in [Patterns -> Nat] /\ visits[t] \in Nat \ {0}
                               /\ SumOf(table[t]) = D * visits[t]
    BY DEF CountsInv
  <2>4. freq \in [Patterns -> Nat] /\ seen \in Nat /\ SumOf(freq) = D * seen
    <3>1. CASE old
      <4>. HIDE DEF D, S
      <4>. QED  BY <2>3, <3>1
    <3>2. CASE ~old
      <4>1. freq = [q \in Patterns |-> 0] /\ seen = 0
        BY <3>2
      <4>2. SumOf(freq) = 0
        BY <4>1, SumZero
      <4>3. D * 0 = 0
        <5>. HIDE DEF D
        <5>. QED  BY <1>0
      <4>. HIDE DEF freq, seen, D
      <4>. QED  BY <4>1, <4>2, <4>3
    <3>. QED  BY <3>1, <3>2
  <2>. HIDE DEF freq, seen, S, D
  <2>5. D * seen \in Nat /\ D * (seen + 1) = D * seen + D /\ seen + 1 \in Nat \ {0}
    BY <1>0, <2>4
  <2>6. Counted(freq) \in [Patterns -> Nat] /\ SumOf(Counted(freq)) = SumOf(freq) + D
    BY <2>2, <2>4, <2>5, CountedSum DEF D
  <2>7. DOMAIN table' = dom /\ DOMAIN visits' = dom
    BY <2>1
  <2>8. ASSUME NEW t \in dom
        PROVE  /\ table'[t] \in [Patterns -> Nat] /\ visits'[t] \in Nat \ {0}
               /\ SumOf(table'[t]) = D * visits'[t]
    <3>1. CASE t = S
      <4>1. table'[t] = Counted(freq) /\ visits'[t] = seen + 1
        BY <2>1, <3>1
      <4>. QED  BY <2>4, <2>5, <2>6, <4>1
    <3>2. CASE t # S
      <4>1. table'[t] = table[t] /\ visits'[t] = visits[t] /\ t \in DOMAIN table
        BY <2>1, <3>2
      <4>. QED  BY <2>3, <4>1
    <3>. QED  BY <3>1, <3>2
  <2>. QED  BY <2>7, <2>8 DEF CountsInv, D
<1>. QED  BY <1>1, <1>2

(* Each visit of a state adds HistoryNum - Order to the frequencies of its *)
(* row, over any number of statements and restarts of the driver, and      *)
(* imdb_get_queries_distribution_k never divides by a sum of 0.            *)
THEOREM RowsAddUp == MarkovSpec => []CountsAddUp
<1>1. MarkovInit => CountsInv
  BY DEF MarkovInit, CountsInv
<1>2. HistInv /\ CountsInv /\ [MarkovNext]_markovVars => CountsInv'
  <2>. SUFFICES ASSUME HistInv, CountsInv, [MarkovNext]_markovVars PROVE CountsInv'
    OBVIOUS
  <2>1. ASSUME NEW p \in Patterns, UpdateMarkovTable(p) PROVE CountsInv'
    BY <2>1, CountsUpdate
  <2>2. CASE Restart
    BY <2>2 DEF Restart, CountsInv
  <2>3. CASE Plan
    BY <2>3 DEF Plan, CountsInv
  <2>4. CASE UNCHANGED markovVars
    BY <2>4 DEF markovVars, CountsInv
  <2>. QED  BY <2>1, <2>2, <2>3, <2>4 DEF MarkovNext, Finished
<1>3. CountsInv => CountsAddUp
  <2>. SUFFICES ASSUME CountsInv, NEW s \in DOMAIN table
                PROVE  /\ visits[s] > 0
                       /\ SumOf(table[s]) = (HistoryNum - Order) * visits[s]
    BY DEF CountsAddUp, SumOf
  <2>. QED  BY DEF CountsInv
<1>. QED  BY <1>1, <1>2, <1>3, HistInvariant, PTL DEF MarkovSpec

=============================================================================
