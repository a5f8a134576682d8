---------------------------- MODULE PlanFeatures ----------------------------
(***************************************************************************)
(* Collecting what a finished statement teaches (postprocessing.c): the    *)
(* walk of collect_planstat over the plan and its subplans, which gathers  *)
(* clauses from the leaves up and learns at each node, against the clauses *)
(* that get_path_clauses (path_utils.c) gives the estimation of the same   *)
(* node.                                                                   *)
(*                                                                         *)
(* A plan is a sequence of nodes in the order the walk leaves them: left,  *)
(* right, parent.  A node has kind "scan", "join" or "unary" (Material,    *)
(* Sort, Gather and the like), children left and right (0 for none), and   *)
(* own, the clauses aqo_copy_generic_path_info stores with it: those of    *)
(* the join, else those of the base relation, if the path is of one.       *)
(***************************************************************************)
EXTENDS Subspaces

CONSTANTS
    Statements,       \* sequences of plans: the main plan and its subplans
    Nothing

VARIABLES
    plans,            \* other_plans, with queryDesc->planstate first
    cur,              \* plan that is walked
    pos,              \* next node to leave
    carry,            \* tmp_clauselist
    handed,           \* clauselist as each node of the plan has left it
    executed,         \* which nodes have been executed, by plan
    learned           \* clauses learned from, by plan and node

walkVars == <<plans, cur, pos, carry, handed, executed, learned>>

WalkInit ==
    /\ plans \in Statements
    /\ cur = 1 /\ pos = 1 /\ carry = <<>> /\ handed = <<>>
    /\ executed = [i \in DOMAIN plans |-> <<>>]
    /\ learned = [i \in DOMAIN plans |-> <<>>]

-----------------------------------------------------------------------------
(***************************************************************************)
(* Estimation                                                              *)
(***************************************************************************)

\* get_path_clauses
PathClauses(plan, node) ==
    LET clauses[m \in DOMAIN plan] ==
            IF plan[m].kind = "scan" THEN plan[m].own
            ELSE IF plan[m].kind = "unary" THEN clauses[plan[m].left]
            ELSE plan[m].own \o clauses[plan[m].left] \o clauses[plan[m].right]
    IN clauses[node]

-----------------------------------------------------------------------------
(***************************************************************************)
(* Collection                                                              *)
(***************************************************************************)

\* The list a leaf is given: the caller's, handed down on the left
OnLeftSpine(plan, m) ==
    \A u \in DOMAIN plan : plan[u].right # 0 =>
        m \notin plan[u].left + 1 .. plan[u].right

Given(plan, m) ==
    IF plan[m].left = 0 THEN (IF OnLeftSpine(plan, m) THEN carry ELSE <<>>)
    ELSE IF plan[m].right = 0 THEN handed[plan[m].left]
    ELSE handed[plan[m].right] \o handed[plan[m].left]

\* Mutant: only joins are objects to learn.
IsObjectJoin(node) == node.right # 0

IsObject(node) == node.right # 0 \/ node.left = 0 \/ node.own # <<>>

\* learn_sample_rfwr has nothing to learn without features.
Learnable(cl) == Features(cl) # <<>>

\* Mutant: a node that was not executed hands on what it was given.
HandedOnSkipping(node, given, ran) ==
    IF IsObject(node) /\ ran /\ Learnable(node.own \o given) THEN node.own \o given ELSE given

\* The list the node hands on to its parent
HandedOn(node, given, ran) ==
    IF IsObject(node) /\ (ran => Learnable(node.own \o given)) THEN node.own \o given ELSE given

Collect(ran) ==
    LET plan  == plans[cur]
        node  == plan[pos]
        given == Given(plan, pos)
        all   == node.own \o given
    IN /\ pos <= Len(plan)
       /\ handed' = Append(handed, HandedOn(node, given, ran))
       /\ executed' = [executed EXCEPT ![cur] = Append(@, ran)]
       /\ learned' = [learned EXCEPT ![cur] =
                         Append(@, IF IsObject(node) /\ ran /\ Learnable(all) THEN all ELSE Nothing)]
       /\ pos' = pos + 1
       /\ UNCHANGED <<plans, cur, carry>>

\* The next of other_plans, with the lists of the one before
NextPlan ==
    /\ pos > Len(plans[cur]) /\ cur < Len(plans)
    /\ cur' = cur + 1 /\ pos' = 1
    /\ carry' = Last(handed) /\ handed' = <<>>
    /\ UNCHANGED <<plans, executed, learned>>

WalkNext == NextPlan \/ (cur <= Len(plans) /\ \E ran \in BOOLEAN : Collect(ran))

WalkSpec == WalkInit /\ [][WalkNext]_walkVars

-----------------------------------------------------------------------------
(***************************************************************************)
(* Ordinary statements                                                     *)
(***************************************************************************)

Nodes == [kind : {"scan", "join", "unary"}, left : Nat, right : Nat, own : Seq(Clauses)]

\* A plan in the order of the walk: children come before their parent.
IsPlan(plan) ==
    /\ plan \in Seq(Nodes) /\ plan # <<>>
    /\ \A m \in DOMAIN plan :
          /\ plan[m].kind = "scan"  => plan[m].left = 0 /\ plan[m].right = 0
          /\ plan[m].kind = "unary" => plan[m].left \in 1 .. m - 1 /\ plan[m].right = 0
          /\ plan[m].kind = "join"  => plan[m].left \in 1 .. m - 1 /\ plan[m].right \in 1 .. m - 1

\* No unary node has clauses of its own, a node that has some has features,
\* and only the last plan has clauses at all.
Ordinary(statement) ==
    /\ statement \in Seq(Seq(Nodes)) /\ statement # <<>>
    /\ \A i \in DOMAIN statement :
          LET plan == statement[i]
          IN /\ IsPlan(plan)
             /\ \A m \in DOMAIN plan : plan[m].own # <<>> =>
                   plan[m].kind # "unary" /\ Learnable(PathClauses(plan, m))
             /\ i < Len(statement) => PathClauses(plan, Len(plan)) = <<>>

-----------------------------------------------------------------------------
(***************************************************************************)
(* Properties                                                              *)
(***************************************************************************)

SameObject(cl1, cl2) == FssHash(cl1) = FssHash(cl2) /\ Features(cl1) = Features(cl2)

\* collect_planstat "collects relation objects with their clauses, [...] and
\* passes each object to learn_sample", get_path_clauses "returns the list of
\* all clauses used in" a path: what is learned at a node is learned in the
\* subspace, and at the point, where an estimate of that node is looked up.
\* Whichever nodes below it have been executed makes no difference.
LearnedAsEstimated ==
    \A i \in DOMAIN plans : \A m \in DOMAIN learned[i] :
        learned[i][m] # Nothing => SameObject(learned[i][m], PathClauses(plans[i], m))

\* Each scan and join that has been executed, and that has features to be
\* estimated by, has been learned from.
ExecutedIsLearned ==
    \A i \in DOMAIN plans : \A m \in DOMAIN learned[i] :
        executed[i][m] /\ plans[i][m].kind # "unary" /\ Learnable(PathClauses(plans[i], m))
            => learned[i][m] # Nothing
=============================================================================
