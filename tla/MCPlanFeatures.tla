--------------------------- MODULE MCPlanFeatures ---------------------------
(***************************************************************************)
(* Instances of PlanFeatures: statements of up to three relations.         *)
(***************************************************************************)
EXTENDS PlanFeatures

Scan(cl) == [kind |-> "scan", left |-> 0, right |-> 0, own |-> cl]
Join(l, r, cl) == [kind |-> "join", left |-> l, right |-> r, own |-> cl]
Unary(l, cl) == [kind |-> "unary", left |-> l, right |-> 0, own |-> cl]

Restriction(a, f) == [eq |-> TRUE, args |-> <<a, Const>>, feature |-> f]
Comparison(a, f) == [eq |-> FALSE, args |-> <<a, Const>>, feature |-> f]
Equality(a, b) == [eq |-> TRUE, args |-> <<a, b>>, feature |-> -5]

\* A restricted relation, two others that may be, and equalities that do or
\* do not share a class
Outer == <<Restriction(1, -1)>>
Others == {<<>>, <<Comparison(3, -2)>>, <<Restriction(2, -3), Comparison(4, -4)>>}
Upper == {<<Equality(1, 3)>>, <<Equality(3, 4)>>, <<Equality(1, 3), Equality(2, 4)>>}

OrdinaryStatements ==
    UNION {{<< <<Scan(Outer), Scan(b), Join(1, 2, <<Equality(1, 2)>>), Scan(c), Join(3, 4, u)>> >>,
            << <<Scan(Outer), Scan(b), Scan(c), Join(2, 3, <<Equality(1, 2)>>), Join(1, 4, u)>> >>,
            << <<Scan(Outer), Scan(b), Join(1, 2, <<Equality(1, 2)>>), Unary(3, <<>>),
                 Scan(c), Join(4, 5, u), Unary(6, <<>>)>> >>}
              : b \in Others, c \in Others, u \in Upper}
    \cup {<< <<Scan(<<>>)>>, <<Scan(Outer), Scan(b), Join(1, 2, u)>> >> : b \in Others, u \in Upper}

ASSUME OrdinaryAssumption == \A s \in OrdinaryStatements : Ordinary(s)

\* A restricted base relation below a Material node
Materialized ==
    {<< <<Scan(Outer), Scan(<<Comparison(3, -2)>>), Unary(2, <<Comparison(3, -2)>>),
          Join(1, 3, <<Equality(1, 2)>>)>> >>}

\* Joins without a restriction, with two equalities of a class in the middle
Unrestricted ==
    {<< <<Scan(<<>>), Scan(<<>>), Join(1, 2, <<Equality(1, 2), Equality(2, 3)>>),
          Scan(<<>>), Join(3, 4, <<Equality(4, 5)>>)>> >>}

\* A subplan of one restricted relation
WithSubplan ==
    {<< <<Scan(Outer)>>, <<Scan(<<Comparison(3, -2)>>)>> >>}
=============================================================================
