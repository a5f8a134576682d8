--------------------------- MODULE FeatureSubspace ---------------------------
(***************************************************************************)
(* get_fss_for_object as it runs (hash.c): equivalence classes by union    *)
(* and find with path compression, one clause at a time, then the features *)
(* sorted by clause hash and compacted in place, one group of equal hashes *)
(* at a time.  Between two calls the planner may write the same object in  *)
(* another way: with its clauses in another order or with the sides of an  *)
(* equality exchanged.                                                     *)
(***************************************************************************)
EXTENDS Subspaces

CONSTANTS
    ClauseLists,      \* lists of clauses to start from
    CommutesConst,    \* whether equalities with a constant are commuted too
    None

ASSUME ClauseListsAssumption == ClauseLists \subseteq Seq(Clauses)

VARIABLES
    clauses,          \* clauselist with selectivities
    phase,            \* "join", "compact", "done"
    k,                \* join: next clause; compact: first clause of the group
    parent,           \* the disjoint set, of positions in args_hash
    order,            \* idx of argsort
    sorted,           \* sorted_clauses
    features,
    sh,               \* features left out so far
    first             \* history: the result for the first way of writing

vars == <<clauses, phase, k, parent, order, sorted, features, sh, first>>

Positions(cl) == DOMAIN ArgSeq(cl)

Start(cl) ==
    /\ clauses = cl
    /\ phase = "join" /\ k = 1
    /\ parent = [v \in Positions(cl) |-> -1]
    /\ order = <<>> /\ sorted = <<>> /\ features = <<>> /\ sh = 0

Init == first = None /\ \E cl \in ClauseLists : Start(cl)

-----------------------------------------------------------------------------
(***************************************************************************)
(* perform_eclasses_join                                                   *)
(***************************************************************************)

\* disjoint_set_get_parent, and the entries it goes through
Root(p, v) ==
    LET root[u \in DOMAIN p] == IF p[u] = -1 THEN u ELSE root[p[u]]
    IN root[v]

Trail(p, v) ==
    LET trail[u \in DOMAIN p] == IF p[u] = -1 THEN {} ELSE {u} \cup trail[p[u]]
    IN trail[v]

Compress(p, v) == [u \in DOMAIN p |-> IF u \in Trail(p, v) THEN Root(p, v) ELSE p[u]]

\* Mutant: the argument itself is hung up, not its root.
MergeArguments(p, v1, v2) ==
    LET q == Compress(Compress(p, v1), v2)
    IN IF Root(q, v1) = Root(q, v2) THEN q
       ELSE [q EXCEPT ![v1] = Root(q, v2)]

\* disjoint_set_merge_eclasses; positions are counted from 0 in the code
Merge(p, v1, v2) ==
    LET q  == Compress(Compress(p, v1), v2)
        p1 == Root(q, v1)
        p2 == Root(q, v2)
    IN IF p1 = p2 THEN q
       ELSE IF (v1 + v2) % 2 = 1 THEN [q EXCEPT ![p1] = p2]
       ELSE [q EXCEPT ![p2] = p1]

Position(a) == CHOOSE v \in Positions(clauses) : ArgSeq(clauses)[v] = a

JoinClause ==
    /\ phase = "join" /\ k <= Len(clauses)
    /\ LET c == clauses[k]
       IN parent' = IF c.eq /\ ~HasConst(c)
                    THEN Merge(parent, Position(c.args[2]), Position(c.args[1]))
                    ELSE parent
    /\ k' = k + 1
    /\ UNCHANGED <<clauses, phase, order, sorted, features, sh, first>>

\* get_eclasses: the arguments with the same root
ClassOf(a) ==
    {b \in ArgSet(clauses) : Root(parent, Position(b)) = Root(parent, Position(a))}

-----------------------------------------------------------------------------
(***************************************************************************)
(* The features                                                            *)
(***************************************************************************)

\* Clause hashes, argsort, and the features in that order
HashClauses ==
    /\ phase = "join" /\ k > Len(clauses)
    /\ LET class == [a \in ArgSet(clauses) |-> ClassOf(a)]
           h     == [j \in DOMAIN clauses |-> ClauseHash(clauses[j], class)]
       IN /\ order' = SortBy(DOMAIN clauses, ByKey(DOMAIN clauses, h))
          /\ sorted' = [j \in DOMAIN clauses |-> h[order'[j]]]
          /\ features' = [j \in DOMAIN clauses |-> Clamp(clauses[order'[j]].feature)]
    /\ phase' = "compact" /\ k' = 1
    /\ UNCHANGED <<clauses, parent, sh, first>>

\* The group of equal hashes that starts at k, and its features that stay
Group == {j \in k .. Len(clauses) : sorted[j] = sorted[k]}

\* Mutant: one clause without constants is kept among several.
StaysAny(G) ==
    {j \in G : HasConst(clauses[order[j]]) \/ \A i \in G : i < j => HasConst(clauses[order[i]])}

Stays(G) ==
    LET consts == {j \in G : HasConst(clauses[order[j]])}
    IN IF Cardinality(consts) + 1 = Cardinality(G) THEN G ELSE consts

\* Those that stay move down by sh, and are sorted.
CompactGroup ==
    /\ phase = "compact" /\ k <= Len(clauses)
    /\ LET stay == Stays(Group)
           kept == SortBy(stay, ByKey(stay, features))
           base == k - sh - 1
           slot == base + 1 .. base + Len(kept)
       IN /\ features' = [j \in DOMAIN features |->
                             IF j \in slot THEN features[kept[j - base]] ELSE features[j]]
          /\ sorted' = [j \in DOMAIN sorted |-> IF j \in slot THEN sorted[k] ELSE sorted[j]]
          /\ sh' = sh + Cardinality(Group) - Len(kept)
    /\ k' = k + Cardinality(Group)
    /\ UNCHANGED <<clauses, phase, parent, order, first>>

\* nfeatures
Size == Len(clauses) - sh

Result ==
    [hashes  |-> SubSeq(sorted, 1, Size),
     values  |-> SubSeq(features, 1, Size),
     classes |-> [m \in Positions(clauses) |-> SetHash(ClassOf(ArgSeq(clauses)[m]))]]

Finish ==
    /\ phase = "compact" /\ k > Len(clauses)
    /\ phase' = "done"
    /\ first' = IF first = None THEN Result ELSE first
    /\ UNCHANGED <<clauses, k, parent, order, sorted, features, sh>>

-----------------------------------------------------------------------------
(***************************************************************************)
(* Other ways of writing the object                                        *)
(***************************************************************************)

Rewrite(cl) ==
    /\ phase = "done"
    /\ clauses' = cl
    /\ phase' = "join" /\ k' = 1
    /\ parent' = [v \in Positions(cl) |-> -1]
    /\ order' = <<>> /\ sorted' = <<>> /\ features' = <<>> /\ sh' = 0
    /\ UNCHANGED first

PlanAgain == Rewrite(clauses)

SwapClauses(j) ==
    LET cl == [clauses EXCEPT ![j] = clauses[j + 1], ![j + 1] = clauses[j]]
    IN Rewrite(cl)

Commute(j) ==
    /\ clauses[j].eq
    /\ HasConst(clauses[j]) => CommutesConst
    /\ Rewrite([clauses EXCEPT ![j].args = <<@[2], @[1]>>])

Next ==
    \/ JoinClause \/ HashClauses \/ CompactGroup \/ Finish \/ PlanAgain
    \/ \E j \in 1 .. Len(clauses) - 1 : SwapClauses(j)
    \/ \E j \in DOMAIN clauses : Commute(j)

Spec == Init /\ [][Next]_vars

-----------------------------------------------------------------------------
(***************************************************************************)
(* Properties                                                              *)
(***************************************************************************)

\* After each clause the classes of the disjoint set are the arguments that
\* the equality clauses so far connect, whichever way merges and compressions
\* have arranged the entries.
ClassesAreConnected ==
    phase = "join" =>
        LET class == Classes(SubSeq(clauses, 1, k - 1))
        IN \A a \in ArgSet(clauses) :
              ClassOf(a) = IF a \in DOMAIN class THEN class[a] ELSE {a}

\* What the compaction in place leaves are the features the subspace is
\* defined by: one for each clause with a constant and for each other clause
\* that is alone in its group, by hash and value.
FeaturesAreExact ==
    phase = "done" =>
        LET fss == FssHash(clauses)
            f   == Features(clauses)
        IN Result = [hashes |-> fss.clauses, classes |-> fss.classes,
                     values |-> [m \in DOMAIN f |-> f[m].value]]

\* However often the planner reorders the clauses and exchanges the sides of
\* equalities, the object stays in its subspace with the same features: what
\* was learned from a plan is found for every plan of the same query.
SameSubspace == phase = "done" /\ first # None => Result = first

-----------------------------------------------------------------------------
\* Said of get_clause_hash: "args-order-insensitiveness for equal clause is
\* required".  If the sides of its equalities are exchanged, with a constant
\* or without, the object has the clause hashes it had.
EqualityOrderInsensitive ==
    phase = "done" /\ first # None => Result.hashes = first.hashes
=============================================================================
