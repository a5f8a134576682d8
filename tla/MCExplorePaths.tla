--------------------------- MODULE MCExplorePaths ---------------------------
(* The instances of ExplorePaths that TLC checks.                          *)
EXTENDS ExplorePaths

(* Total costs: equal for practical purposes (12001), fuzzily equal        *)
(* (12100), fuzzily larger than the first but equal to the second (12200). *)
Path(total, startup, ev, keys, outer, safe) ==
    [total |-> total, startup |-> startup, ev |-> ev, keys |-> keys, outer |-> outer,
     rows |-> IF outer = {} THEN 10 ELSE 2, safe |-> safe,
     itotal |-> total, istartup |-> startup, iev |-> ev]

(* A join path: CPU costs come on top of the initial ones, and the join's  *)
(* own explore value on top of that of the inputs.                         *)
JoinPath(itotal, ev, keys, outer, own, safe) ==
    [total |-> itotal + 10, startup |-> 100, ev |-> ev + own, keys |-> keys, outer |-> outer,
     rows |-> IF outer = {} THEN 10 ELSE 2, safe |-> safe,
     itotal |-> itotal, istartup |-> 100, iev |-> ev]

ScanPaths ==
    {Path(t, 100, ev, k, {}, 1) : t \in {12000, 12001, 12100, 12200}, ev \in {10, 12}, k \in {<<>>, <<"a">>}}
      \cup {Path(12100, 0, 20, <<"a">>, {}, s) : s \in {0, 1}}
      \cup {Path(t, 0, 10, <<"b">>, {"r"}, 1) : t \in {11900, 12190}}

FinalPaths ==
    {Path(t, st, ev, <<>>, {}, 1) : t \in {12000, 12100, 12400}, st \in {0, 6000, 12000}, ev \in {0, 10, 20}}

JoinPaths ==
    {JoinPath(t, ev, k, {}, 3, 1) : t \in {12000, 12100, 12300, 12500}, ev \in {10, 12}, k \in {<<>>, <<"a">>}}
      \cup {JoinPath(t, 10, <<>>, {"r"}, 0, 1) : t \in {12000, 12300}}
      \cup {JoinPath(12000, 12, <<>>, {}, 3, 0)}

Rel(paths, join, startup, param_startup) ==
    [paths |-> paths, join |-> join, startup |-> startup, param_startup |-> param_startup]

ScanRel  == Rel(ScanPaths, FALSE, FALSE, TRUE)
FinalRel == Rel(FinalPaths, FALSE, TRUE, FALSE)
JoinRel  == Rel(JoinPaths, TRUE, FALSE, FALSE)

MCRels   == {ScanRel, FinalRel, JoinRel}
ScanRels == {ScanRel}
JoinRels == {JoinRel}

\* All the tuples, or half of them
MCFractions == {[num |-> 0, den |-> 1], [num |-> 1, den |-> 2]}

(* The relation is finished: every path the bound allows has been tried.   *)
Terminating == cheapest # NoPath /\ UNCHANGED vars
MCSpec == Init /\ [][Next \/ Terminating]_vars
=============================================================================
