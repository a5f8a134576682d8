------------------------------ MODULE BestCosts ------------------------------
(***************************************************************************)
(* The record of best costs of one query template: a k-NN matrix whose     *)
(* rows hold query features with the estimated and the true cost of the    *)
(* best plan seen near them (plan_generation.c, machine_learning.c).       *)
(* update_two_best_costs_record learns a finished statement,               *)
(* calculate_current_best_estimate_cost predicts the cost that             *)
(* add_path_explore prunes against.                                        *)
(*                                                                         *)
(* A query has one feature.  Features are integers in units fine enough    *)
(* for MaxLearned steps of a tenth to be exact; costs are integers, and    *)
(* the comparisons with compare_rate are exact.                            *)
(***************************************************************************)
EXTENDS Integers, Sequences, Lists, FiniteSetsExt

CONSTANTS
    Features,     \* features of the statements, multiples of 10^MaxLearned
    Threshold,    \* object_selection_object_threshold2 = threshold_distance
    EstCosts,
    TrueCosts,
    Rows,         \* num_two_costs_save
    K,            \* neighbours of a prediction
    MaxLearned    \* bound: statements learned

VARIABLES
    matrix,       \* rows of aqo_best_two_costs_table
    runs,         \* history: of each row, the true costs learned into it
    learned,      \* statements learned so far
    latest,       \* history: features of the latest one, unless far from a full matrix
    neighbours    \* the rows that the last prediction averages; none if it is 0

vars == <<matrix, runs, learned, latest, neighbours>>

ASSUME CostAssumption ==
    /\ Features \subseteq Int /\ Threshold \in Nat
    /\ EstCosts \subseteq Nat /\ TrueCosts \subseteq Nat \ {0}
    /\ Rows \in Nat \ {0} /\ K \in Nat \ {0} /\ MaxLearned \in Nat

Init ==
    /\ matrix = <<>> /\ runs = <<>> /\ learned = 0
    /\ latest = {} /\ neighbours = <<>>

\* fs_distance
Distance(x, y) == IF x < y THEN y - x ELSE x - y

Distances(x) == [i \in DOMAIN matrix |-> Distance(matrix[i].feature, x)]

\* min_distance_id: the first of the nearest rows
Nearest(x) ==
    LET d == Distances(x)
    IN Min({i \in DOMAIN matrix : \A j \in DOMAIN matrix : d[i] <= d[j]})

-----------------------------------------------------------------------------
(***************************************************************************)
(* OkNNr_learn2                                                            *)
(***************************************************************************)

NearlyEqual(new, hist) ==
    \/ new = hist
    \/ new > hist /\ 100 * new < 101 * hist
    \/ new < hist /\ 101 * new > 100 * hist

Better(new, hist) == 101 * new < 100 * hist

Worse(new, hist) == 101 * hist < 100 * new

\* Mutant: the true cost follows every nearly equal one.
AbsorbedCreeps(r, x, e, t) ==
    [feature |-> r.feature + (x - r.feature) \div 10, est |-> e,
     true |-> IF Worse(t, r.true) THEN r.true ELSE t]

\* A row after a statement with features x, estimated cost e and true cost t.
\* At a rate of exactly compare_rate none of the three cases applies.
Absorbed(r, x, e, t) ==
    LET moved == [r EXCEPT !.feature = @ + (x - @) \div 10, !.est = e]
    IN IF NearlyEqual(t, r.true) THEN moved
       ELSE IF Better(t, r.true) THEN [moved EXCEPT !.true = t]
       ELSE IF Worse(t, r.true) /\ e < r.est THEN moved
       ELSE r

Full == Len(matrix) >= Rows

\* The statement goes to the nearest row, or to a row of its own.
UpdateTwoBestCosts(x, e, t) ==
    /\ learned < MaxLearned
    /\ learned' = learned + 1
    /\ LET i == Nearest(x)
           near == matrix # <<>> /\ Distances(x)[i] < Threshold
       IN /\ IF Full \/ near
             THEN /\ matrix' = [matrix EXCEPT ![i] = Absorbed(@, x, e, t)]
                  /\ runs' = [runs EXCEPT ![i] = @ \cup {t}]
             ELSE /\ matrix' = Append(matrix, [feature |-> x, est |-> e, true |-> t])
                  /\ runs' = Append(runs, {t})
          /\ latest' = IF Full /\ ~near THEN {} ELSE {x}
    /\ UNCHANGED neighbours

-----------------------------------------------------------------------------
(***************************************************************************)
(* OkNNr_predict2                                                          *)
(***************************************************************************)

\* Mutant: a row at the same distance goes before the ones found earlier.
InsertNeighbourFirst(idx, i, d) ==
    LET later == {j \in DOMAIN idx : d[i] <= d[idx[j]]}
        at    == IF later = {} THEN Len(idx) + 1 ELSE Min(later)
        all   == InsertAt(idx, at, i)
    IN SubSeq(all, 1, Min({K, Len(all)}))

\* The inner loop of OkNNr_compute_weights: i goes before the first farther
\* neighbour, the ones behind it move up, the last falls out.
InsertNeighbour(idx, i, d) ==
    LET later == {j \in DOMAIN idx : d[i] < d[idx[j]]}
        at    == IF later = {} THEN Len(idx) + 1 ELSE Min(later)
        all   == InsertAt(idx, at, i)
    IN SubSeq(all, 1, Min({K, Len(all)}))

\* Its outer loop over the rows
ComputeWeights(d) ==
    LET found[n \in 0 .. Len(d)] ==
            IF n = 0 THEN <<>> ELSE InsertNeighbour(found[n - 1], n, d)
    IN found[Len(d)]

\* Mutant: near statements get 0, as the comment has it.
CoveredFar(x) == matrix # <<>> /\ ~(Distances(x)[Nearest(x)] < Threshold)

\* Otherwise the prediction is 0, and add_path_explore does not prune.
Covered(x) == matrix # <<>> /\ Distances(x)[Nearest(x)] <= Threshold

Neighbours(x) == IF Covered(x) THEN ComputeWeights(Distances(x)) ELSE <<>>

CalculateBestEstimateCost(x) ==
    /\ neighbours' = Neighbours(x)
    /\ UNCHANGED <<matrix, runs, learned, latest>>

Next ==
    \E x \in Features :
        \/ CalculateBestEstimateCost(x)
        \/ \E e \in EstCosts, t \in TrueCosts : UpdateTwoBestCosts(x, e, t)

Spec == Init /\ [][Next]_vars

-----------------------------------------------------------------------------
(***************************************************************************)
(* Properties                                                              *)
(***************************************************************************)

\* However many statements with nearly the same cost a row learns, its true
\* cost does not creep away: it is the cost of one of them, and at most 1%
\* above each (compare_rate in OkNNr_learn2).
BestWithinRate ==
    \A i \in DOMAIN matrix :
        /\ matrix[i].true \in runs[i]
        /\ \A t \in runs[i] : 100 * matrix[i].true <= 101 * t

\* a goes before b among the neighbours
Before(d, a, b) == d[a] < d[b] \/ (d[a] = d[b] /\ a < b)

\* OkNNr_compute_weights finds the K nearest rows, nearest first, and among
\* equally near ones the rows that come first.
NeighboursAreNearest ==
    \A x \in Features :
        LET d   == Distances(x)
            idx == ComputeWeights(d)
        IN /\ Len(idx) = Min({K, Len(matrix)})
           /\ \A j \in 1 .. Len(idx) - 1 : Before(d, idx[j], idx[j + 1])
           /\ \A i \in DOMAIN matrix \ ToSet(idx) : \A j \in DOMAIN idx : Before(d, idx[j], i)

\* A statement that is planned again right after it was learned gets a bound
\* that is not 0, unless the matrix was full and the statement far from every
\* row of it: the threshold of OkNNr_learn2 is within that of OkNNr_predict2.
LearnedIsFound == \A x \in latest : Neighbours(x) # <<>>
=============================================================================
