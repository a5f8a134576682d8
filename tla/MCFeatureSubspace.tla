-------------------------- MODULE MCFeatureSubspace --------------------------
(***************************************************************************)
(* Instances of FeatureSubspace: all lists of up to three clauses, and a   *)
(* list of four equalities.                                                *)
(***************************************************************************)
EXTENDS FeatureSubspace

Equality(a, b) == [eq |-> TRUE, args |-> <<a, b>>, feature |-> -1]

\* Equalities, equalities and comparisons with a constant, and a clause that
\* is not of an operator
SomeClauses ==
    {[eq |-> TRUE, args |-> <<1, 2>>, feature |-> -2],
     [eq |-> TRUE, args |-> <<2, 3>>, feature |-> -1],
     [eq |-> TRUE, args |-> <<1, Const>>, feature |-> -1],
     [eq |-> TRUE, args |-> <<2, Const>>, feature |-> -40],
     [eq |-> FALSE, args |-> <<3, Const>>, feature |-> -3],
     [eq |-> FALSE, args |-> <<3, Const>>, feature |-> -4],
     [eq |-> FALSE, args |-> <<1, 3>>, feature |-> -2],
     [eq |-> FALSE, args |-> <<>>, feature |-> -1]}

\* A cycle of four arguments
JoinCycle == <<Equality(1, 2), Equality(3, 4), Equality(2, 3), Equality(1, 4)>>

MixedLists == UNION {[1 .. m -> SomeClauses] : m \in 1 .. 3} \cup {JoinCycle}

OneEquality == {<<[eq |-> TRUE, args |-> <<1, Const>>, feature |-> -1]>>}
=============================================================================
