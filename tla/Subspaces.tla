------------------------------ MODULE Subspaces ------------------------------
(***************************************************************************)
(* Feature subspaces (hash.c): what the subspace of a list of clauses is.  *)
(* A node is hashed from its text without constants, locations and range   *)
(* table indexes, so an argument stands for its hash: a positive number    *)
(* for an expression, Const for every constant.  Hashing is injective.     *)
(*                                                                         *)
(* A clause is a record: eq says whether its operator is an equality, args *)
(* has its two arguments, or none if it is not an operator clause, feature *)
(* is the logarithm of its selectivity.                                    *)
(***************************************************************************)
EXTENDS Integers, Sequences, Lists, FiniteSetsExt

Const == 0

\* Clauses as get_clause_hash can meet them
Clauses ==
    {c \in [eq : BOOLEAN, args : Seq(Nat), feature : Int] :
        /\ Len(c.args) \in {0, 2}
        /\ c.eq => c.args # <<>>}

\* qsort, argsort: the elements of S by the strict order lt, a set of pairs;
\* the i-th has i - 1 before it.
SortBy(S, lt) ==
    [i \in 1 .. Cardinality(S) |->
        CHOOSE x \in S : Cardinality({y \in S : <<y, x>> \in lt}) = i - 1]

\* By key, and numbers of the same key in their own order
ByKey(S, key) ==
    {p \in S \X S : key[p[1]] < key[p[2]] \/ (key[p[1]] = key[p[2]] /\ p[1] < p[2])}

\* log_selectivity_lower_bound
LowerBound == -30

Clamp(x) == IF x < LowerBound THEN LowerBound ELSE x

\* has_consts
HasConst(c) == Const \in ToSet(c.args)

\* get_clauselist_args: the arguments of equality clauses but constants,
\* sorted and without repetition
Sides(c) == ToSet(c.args) \ {Const}

ArgSet(cl) == UNION {Sides(cl[j]) : j \in {j \in DOMAIN cl : cl[j].eq}}

ArgSeq(cl) ==
    LET args == ArgSet(cl)
    IN SortBy(args, {p \in args \X args : p[1] < p[2]})

\* get_unordered_int_list_hash: a bit for each number, from the greatest down
SetHash(S) ==
    LET top == Max(S \cup {0})
        bits[d \in 0 .. top] ==
            IF d = 0 THEN 0
            ELSE 2 * bits[d - 1] + (IF top + 1 - d \in S THEN 1 ELSE 0)
    IN bits[top]

\* Mutant: an argument is left as it is.
ArgHashOwn(a, class) == a

\* An argument in get_clause_hash: of an equivalence class, a Param with the
\* hash of the class; class is a function from arguments to classes.
ArgHash(a, class) == IF a \in DOMAIN class THEN 1000 + SetHash(class[a]) ELSE a

\* get_clause_hash: an equality of expressions is hashed as its first argument
ClauseHash(c, class) ==
    IF c.args = <<>> THEN -1
    ELSE IF c.eq /\ ~HasConst(c) THEN ArgHash(c.args[1], class)
    ELSE 100000000 * (IF c.eq THEN 1 ELSE 2)
              + 10000 * ArgHash(c.args[1], class) + ArgHash(c.args[2], class)

-----------------------------------------------------------------------------
(***************************************************************************)
(* Reference definitions                                                   *)
(***************************************************************************)

\* The equivalence class of an argument: what no set of arguments that has
\* both sides or no side of each equality separates from it
Classes(cl) ==
    LET args   == ArgSet(cl)
        closed == {X \in SUBSET args : \A j \in DOMAIN cl :
                      cl[j].eq => Sides(cl[j]) \subseteq X \/ Sides(cl[j]) \cap X = {}}
    IN [a \in args |-> {b \in args : \A X \in closed : a \in X => b \in X}]

Hashes(cl) ==
    LET class == Classes(cl)
    IN [j \in DOMAIN cl |-> ClauseHash(cl[j], class)]

\* A clause without constants gives a feature only if it is the only one of
\* its hash; h has the hashes.
Gives(cl, h, j) ==
    HasConst(cl[j]) \/ \A k \in DOMAIN cl \ {j} : h[k] = h[j] => HasConst(cl[k])

\* By hash, by value among equal hashes, then by position
ByFeature(S, h, v) ==
    {p \in S \X S :
        \/ h[p[1]] < h[p[2]]
        \/ h[p[1]] = h[p[2]] /\ v[p[1]] < v[p[2]]
        \/ h[p[1]] = h[p[2]] /\ v[p[1]] = v[p[2]] /\ p[1] < p[2]}

\* The features: of the clauses that give one, by clause hash and value
Features(cl) ==
    LET h     == Hashes(cl)
        v     == [j \in DOMAIN cl |-> Clamp(cl[j].feature)]
        give  == {j \in DOMAIN cl : Gives(cl, h, j)}
        order == SortBy(give, ByFeature(give, h, v))
    IN [m \in DOMAIN order |-> [hash |-> h[order[m]], value |-> v[order[m]]]]

\* fss_hash but for the relations: clause hashes of the features and the
\* class of each argument
FssHash(cl) ==
    LET f     == Features(cl)
        args  == ArgSeq(cl)
        class == Classes(cl)
    IN [clauses |-> [m \in DOMAIN f |-> f[m].hash],
        classes |-> [m \in DOMAIN args |-> SetHash(class[args[m]])]]
=============================================================================
