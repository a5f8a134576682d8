----------------------------- MODULE MCAqoStorage ---------------------------
(* The instances of AqoStorage that TLC checks.                            *)
EXTENDS AqoStorage, TLC

(* Every row has a place for its committed version, for a pending one and  *)
(* for the dead ones other backends still point to.                        *)
Size == Cardinality(Backends) + 1
TableNo == [aqo_queries |-> 0, aqo_query_texts |-> 1, aqo_data_lwpr |-> 2,
            aqo_data_house_lwpr |-> 3, aqo_best_two_costs_table |-> 4]
Code(k) == (TableNo[k.table] * 2 + k.fspace) * 10 + k.id
Rank == [k \in Keys |-> Cardinality({j \in Keys : Code(j) < Code(k)})]
MCPlaces(k) == Rank[k] * Size + 1 .. (Rank[k] + 1) * Size
MCTids == 1 .. Size * Cardinality(Keys)

Symmetry == Permutations(Backends)

(* The bound on the queries is reached and every transaction has ended.    *)
Terminating == done >= MaxDone /\ \A b \in Backends : own[b] = 0 /\ UNCHANGED vars

MCNext     == Next \/ Terminating
MCSpec     == Init /\ [][MCNext]_vars
MCFairSpec == MCSpec /\ Fairness
=============================================================================
