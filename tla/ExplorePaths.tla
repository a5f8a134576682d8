---------------------------- MODULE ExplorePaths ----------------------------
(* The tournament between the access paths of one relation when the        *)
(* exploratory planner is on (search_plan_mode 2): add_path_precheck_      *)
(* explore, add_path_explore, set_cheapest_explore and, for the final      *)
(* relation, get_cheapest_explore_fractional_path.  A path is compared on  *)
(* its costs, its explore value (what executing it would teach the         *)
(* cardinality model), its sort order, its parameterization, its row count *)
(* and its parallel safety.  Costs and explore values are integers in a    *)
(* fixed unit; every comparison of doubles with a fuzz factor num/den is   *)
(* cross-multiplied.                                                       *)
EXTENDS Integers, Sequences, FiniteSets, Lists

CONSTANTS Rels,                \* relations: the paths generated for one, whether it is a
                               \* join (join paths go through the precheck, scans do
                               \* not), rel->consider_startup and consider_param_startup
          BestPreds,           \* predicted best costs of the query; 0: none
          Fractions,           \* cursor tuple fractions [num, den] < 1; num 0: all
          MaxPaths,            \* bound: paths submitted per relation
          NoPath               \* a null Path pointer

(* A candidate: its final costs, the lower bounds initial_cost_* computes, *)
(* the explore value of its inputs and the final one.                      *)
PathOK(p) ==
    /\ p \in [startup : Nat, total : Nat, ev : Nat, rows : Nat, safe : {0, 1},
              istartup : Nat, itotal : Nat, iev : Nat,
              keys : Seq(ToSet(p.keys)), outer : SUBSET p.outer]
    /\ p.istartup <= p.startup /\ p.itotal <= p.total /\ p.iev <= p.ev

(* Join paths of the same parameterization have the same row count: that   *)
(* of the relation, or ppi_rows of their common ParamPathInfo.             *)
ASSUME PathAssumption == /\ \A r \in Rels : \A p \in r.paths : PathOK(p) /\ p # NoPath
                         /\ \A r \in Rels : r.join =>
                              \A p, q \in r.paths : p.outer = q.outer => p.rows = q.rows
                         /\ \A f \in Fractions : f \in [num : Nat, den : Nat] /\ f.num < f.den
                         /\ BestPreds \subseteq Nat
                         /\ MaxPaths \in Nat

VARIABLES rel,           \* the relation
          pathlist,      \* rel->pathlist
          best_cost,     \* rel->best_cost
          best_pred,     \* root->best_estimate_cost_of_current_query
          new_path,      \* the path add_path_explore is placing, or NoPath
          pos,           \* position of its cursor p1
          insert_after,  \* position of the cell to insert after, 0: none
          submitted,     \* the paths add_path_explore has scanned the list for
          cheapest,      \* what set_cheapest_explore saved, or NoPath
          chosen         \* the path the planner turns into a plan, or NoPath

vars == <<rel, pathlist, best_cost, best_pred, new_path, pos, insert_after,
          submitted, cheapest, chosen>>

-----------------------------------------------------------------------------
(* Comparisons.                                                            *)

STD_FUZZ   == [num |-> 101, den |-> 100]
NEAR_FUZZ  == [num |-> 100009, den |-> 100000]
EXACT      == [num |-> 1, den |-> 1]   \* 1.0000000001 on integers below 10^10
EV_FUZZ    == [num |-> 11, den |-> 10]
EV_FUZZ2   == [num |-> 101, den |-> 100]
PRUNE_RATE == [num |-> 101, den |-> 100]
GEN_RATE   == [num |-> 101, den |-> 100]   \* 1 + rate_to_generate_explore_plan

Exceeds(a, b, fuzz) == a * fuzz.den > b * fuzz.num

Considers(p) == IF p.outer = {} THEN rel.startup ELSE rel.param_startup

CostsFuzzily(p, q, fuzz) ==
    CASE Exceeds(p.total, q.total, fuzz) ->
           IF Considers(p) /\ Exceeds(q.startup, p.startup, fuzz)
           THEN "different" ELSE "better2"
      [] Exceeds(q.total, p.total, fuzz) ->
           IF Considers(q) /\ Exceeds(p.startup, q.startup, fuzz)
           THEN "different" ELSE "better1"
      [] OTHER ->
           IF Exceeds(p.startup, q.startup, fuzz) THEN "better2"
           ELSE IF Exceeds(q.startup, p.startup, fuzz) THEN "better1" ELSE "equal"

EvFuzzily(p, q, fuzz) ==
    IF Exceeds(p.ev, q.ev, fuzz) THEN 1 ELSE IF Exceeds(q.ev, p.ev, fuzz) THEN -1 ELSE 0

(* A parameterized path is taken to have no sort order.                    *)
Keys(p) == IF p.outer = {} THEN p.keys ELSE <<>>

ComparePathkeys(k, l) ==
    IF k = l THEN "equal"
    ELSE IF IsPrefix(l, k) THEN "better1"
    ELSE IF IsPrefix(k, l) THEN "better2" ELSE "different"

(* compare_path_costs with TOTAL_COST and with STARTUP_COST.               *)
Cheaper(p, q)      == p.total < q.total \/ (p.total = q.total /\ p.startup < q.startup)
SameCosts(p, q)    == p.total = q.total /\ p.startup = q.startup
StartsSooner(p, q) == p.startup < q.startup \/ (p.startup = q.startup /\ p.total < q.total)

-----------------------------------------------------------------------------
(* Mutant: paths of another parameterization are compared too.             *)
PrecheckLosesAnyOuter(p, old) ==
    /\ Exceeds(p.istartup, old.startup, STD_FUZZ) \/ ~Considers(p)
    /\ p.iev <= old.ev
    /\ ComparePathkeys(Keys(p), Keys(old)) \in {"equal", "better2"}

(* add_path_precheck_explore on the lower bounds of a join path.  The      *)
(* explore value it is given is the sum over the two inputs.  The scan     *)
(* ends at the first old path the new one does not lose to on total cost.  *)
PrecheckLoses(p, old) ==
    /\ Exceeds(p.istartup, old.startup, STD_FUZZ) \/ ~Considers(p)
    /\ p.iev <= old.ev
    /\ ComparePathkeys(Keys(p), Keys(old)) \in {"equal", "better2"}
    /\ p.outer = old.outer

Precheck(p) ==
    ~ \E i \in DOMAIN pathlist :
        /\ \A j \in 1 .. i : Exceeds(p.itotal, pathlist[j].total, STD_FUZZ)
        /\ PrecheckLoses(p, pathlist[i])

(* Mutant: the required outer relations are not compared.                  *)
NoWorseAnyOuter(p, q) == p.rows <= q.rows /\ p.safe >= q.safe

(* The dominance test of add_path_explore: path p makes path q superfluous *)
(* (remove_old with p new; not accept_new with p old), ties left aside.    *)
NoWorse(p, q) == p.outer \subseteq q.outer /\ p.rows <= q.rows /\ p.safe >= q.safe

Dominates(p, q) ==
    LET costs == CostsFuzzily(p, q, STD_FUZZ)
        ev    == EvFuzzily(p, q, EV_FUZZ)
        keys  == ComparePathkeys(Keys(p), Keys(q))
    IN /\ keys \in {"equal", "better1"}
       /\ NoWorse(p, q)
       /\ \/ costs = "better1" /\ ev >= 0
          \/ costs = "equal" /\ ev = 1 /\ CostsFuzzily(p, q, NEAR_FUZZ) # "better2"
          \/ costs = "equal" /\ ev = 0 /\ (keys = "better1" \/ p.outer # q.outer)

(* Fuzzily the same in everything: one of the two is kept.                 *)
Tied(p, q) ==
    /\ CostsFuzzily(p, q, STD_FUZZ) = "equal"
    /\ EvFuzzily(p, q, EV_FUZZ) = 0
    /\ ComparePathkeys(Keys(p), Keys(q)) = "equal"
    /\ p.outer = q.outer

NewWinsTie(new, old) ==
    LET costs == CostsFuzzily(new, old, EXACT)
    IN \/ new.safe > old.safe
       \/ new.safe = old.safe /\ new.rows < old.rows
       \/ /\ new.safe = old.safe /\ new.rows = old.rows
          /\ \/ costs = "better1"
             \/ costs # "better2" /\ EvFuzzily(new, old, EV_FUZZ2) = 1

RemoveOld(new, old) == Dominates(new, old) \/ (Tied(new, old) /\ NewWinsTie(new, old))
RejectNew(new, old) == Dominates(old, new) \/ (Tied(new, old) /\ ~NewWinsTie(new, old))

-----------------------------------------------------------------------------
Init ==
    /\ rel \in Rels
    /\ pathlist = <<>> /\ best_cost = 0
    /\ best_pred \in BestPreds
    /\ new_path = NoPath /\ pos = 0 /\ insert_after = 0
    /\ submitted = {} /\ cheapest = NoPath /\ chosen = NoPath

Idle == new_path = NoPath /\ cheapest = NoPath

(* The head of add_path_explore: a path that is not the cheapest so far is *)
(* pruned when it costs more than the predicted best cost of the query     *)
(* allows.  A path that fails the precheck or is pruned leaves no trace.   *)
NewBest(p)  == pathlist = <<>> \/ p.total < best_cost
Survives(p) == best_pred = 0 \/ NewBest(p) \/ ~Exceeds(p.total, best_pred, PRUNE_RATE)

SubmitPath(p) ==
    /\ Idle /\ Cardinality(submitted) < MaxPaths
    /\ rel.join => Precheck(p)
    /\ Survives(p)
    /\ best_cost' = IF NewBest(p) THEN p.total ELSE best_cost
    /\ new_path' = p /\ pos' = 1 /\ insert_after' = 0
    /\ submitted' = submitted \cup {p}
    /\ UNCHANGED <<rel, pathlist, best_pred, cheapest, chosen>>

(* One iteration of the scan of the old paths.                             *)
Scanning == new_path # NoPath /\ pos \in DOMAIN pathlist

RemoveOldPath ==
    /\ Scanning /\ RemoveOld(new_path, pathlist[pos])
    /\ pathlist' = RemoveAt(pathlist, pos)
    /\ UNCHANGED <<rel, best_cost, best_pred, new_path, pos, insert_after, submitted, cheapest, chosen>>

RejectNewPath ==
    /\ Scanning /\ RejectNew(new_path, pathlist[pos])
    /\ new_path' = NoPath /\ pos' = 0 /\ insert_after' = 0
    /\ UNCHANGED <<rel, pathlist, best_cost, best_pred, submitted, cheapest, chosen>>

(* Mutant: the new path goes after every path that is kept.                *)
KeepBothPathsAppends ==
    /\ Scanning
    /\ ~RemoveOld(new_path, pathlist[pos]) /\ ~RejectNew(new_path, pathlist[pos])
    /\ insert_after' = pos
    /\ pos' = pos + 1
    /\ UNCHANGED <<rel, pathlist, best_cost, best_pred, new_path, submitted, cheapest, chosen>>

KeepBothPaths ==
    /\ Scanning
    /\ ~RemoveOld(new_path, pathlist[pos]) /\ ~RejectNew(new_path, pathlist[pos])
    /\ insert_after' = IF new_path.total >= pathlist[pos].total THEN pos ELSE insert_after
    /\ pos' = pos + 1
    /\ UNCHANGED <<rel, pathlist, best_cost, best_pred, new_path, submitted, cheapest, chosen>>

AcceptNewPath ==
    /\ new_path # NoPath /\ pos \notin DOMAIN pathlist
    /\ pathlist' = InsertAt(pathlist, insert_after + 1, new_path)
    /\ new_path' = NoPath /\ pos' = 0 /\ insert_after' = 0
    /\ UNCHANGED <<rel, best_cost, best_pred, submitted, cheapest, chosen>>

-----------------------------------------------------------------------------
(* set_cheapest_explore: one pass over the list.  Of two paths of the same *)
(* costs the better sorted one is kept.                                    *)
Parameterized == SelectSeq(pathlist, LAMBDA p : p.outer # {})

BetterSorted(p, q) == ComparePathkeys(p.keys, q.keys) = "better1"

KeepCheaper(best, p) ==
    IF /\ p.outer = {}
       /\ \/ best = NoPath \/ Cheaper(p, best)
          \/ SameCosts(p, best) /\ BetterSorted(p, best)
    THEN p ELSE best

CheapestTotal == FoldLeft(KeepCheaper, NoPath, pathlist)

KeepSooner(best, p) ==
    IF /\ p.outer = {}
       /\ \/ best = NoPath \/ StartsSooner(p, best)
          \/ SameCosts(p, best) /\ BetterSorted(p, best)
    THEN p ELSE best

CheapestStartup == FoldLeft(KeepSooner, NoPath, pathlist)

BestParam ==
    FoldLeft(LAMBDA best, p : IF /\ p.outer # {}
                                 /\ \/ best = NoPath
                                    \/ p.outer = best.outer /\ Cheaper(p, best)
                                    \/ p.outer # best.outer /\ p.outer \subseteq best.outer
                              THEN p ELSE best,
             NoPath, pathlist)

(* The list that balances cost and explore value.  The scan for a path     *)
(* stops at the first listed path that makes it superfluous, and the       *)
(* removals made before that stand.                                        *)
Outshines(p, q) == \/ Cheaper(p, q) /\ p.ev >= q.ev
                   \/ SameCosts(p, q) /\ p.ev > q.ev

(* Mutant: listed paths that the new one outshines stay.                   *)
ScanListedKeeps(s, q, p) ==
    [kept |-> Append(s.kept, q), addnew |-> s.addnew /\ ~Outshines(q, p)]

ScanListed(s, q, p) ==
    [kept   |-> IF s.addnew /\ Outshines(p, q) THEN s.kept ELSE Append(s.kept, q),
     addnew |-> s.addnew /\ ~Outshines(q, p)]

AddBalanced(list, p) ==
    LET scan == FoldLeft(LAMBDA s, q : ScanListed(s, q, p), [kept |-> <<>>, addnew |-> TRUE], list)
    IN IF p.outer # {} THEN list ELSE IF scan.addnew THEN Append(scan.kept, p) ELSE scan.kept

Balanced == FoldLeft(AddBalanced, <<>>, pathlist)

SetCheapest ==
    /\ Idle /\ pathlist # <<>>
    /\ cheapest' =
         LET total == CheapestTotal
         IN [startup |-> CheapestStartup,
             total   |-> IF total = NoPath THEN BestParam ELSE total,
             params  |-> (IF total = NoPath THEN <<>> ELSE <<total>>) \o Parameterized,
             explore |-> IF Balanced = <<>> THEN <<BestParam>> ELSE Balanced]
    /\ UNCHANGED <<rel, pathlist, best_cost, best_pred, new_path, pos, insert_after, submitted, chosen>>

(* get_cheapest_explore_fractional_path: first the best path for the       *)
(* fraction f of the tuples, then the greatest explore value among the     *)
(* paths within the rate of it.  Cost is scaled by the denominator.        *)
Cost(p, f) == IF f.num = 0 THEN p.total * f.den
              ELSE p.startup * f.den + f.num * (p.total - p.startup)

KeepBest(best, p, f) ==
    IF p # cheapest.total /\ Cost(p, f) < Cost(best, f) THEN p ELSE best

BestFor(f) ==
    IF f.num = 0 THEN cheapest.total
    ELSE FoldLeft(LAMBDA best, p : KeepBest(best, p, f), cheapest.total, pathlist)

(* Mutant: the rate is not applied.                                        *)
EligibleAtAnyCost(p, best, f) == p.ev >= best.ev

Eligible(p, best, f) == ~Exceeds(Cost(p, f), Cost(best, f), GEN_RATE) /\ p.ev >= best.ev

Preferred(p, q, f) ==
    \/ p.ev > q.ev
    \/ p.ev = q.ev /\ Cost(p, f) < Cost(q, f)
    \/ p.ev = q.ev /\ Cost(p, f) = Cost(q, f) /\ Cheaper(p, q)

KeepPreferred(best, q, p, f) ==
    IF Eligible(p, best, f) /\ Preferred(p, q, f) THEN p ELSE q

PathFor(f) ==
    LET best == BestFor(f)
    IN FoldLeft(LAMBDA q, p : KeepPreferred(best, q, p, f), best, pathlist)

ChoosePath(f) ==
    /\ cheapest # NoPath /\ chosen = NoPath
    /\ \A p \in ToSet(pathlist) : p.outer = {}   \* only the final relation gets here
    /\ chosen' = [path |-> PathFor(f), fraction |-> f]
    /\ UNCHANGED <<rel, pathlist, best_cost, best_pred, new_path, pos, insert_after, submitted, cheapest>>

Next == \/ \E p \in rel.paths : SubmitPath(p)
        \/ RemoveOldPath \/ RejectNewPath \/ KeepBothPaths \/ AcceptNewPath
        \/ SetCheapest
        \/ \E f \in Fractions : ChoosePath(f)

Spec == Init /\ [][Next]_vars

-----------------------------------------------------------------------------
(* The list is sorted by total cost at every step: add_path_explore finds  *)
(* the place of a path in the same pass that removes others, and the early *)
(* exit of add_path_precheck_explore relies on the order.                  *)
SortedByTotal ==
    \A i, j \in DOMAIN pathlist : i < j => pathlist[i].total <= pathlist[j].total

(* Every path that add_path_explore compared with the list is covered when *)
(* it returns: some listed path delivers at least its sort order and needs *)
(* no more outer relations.  Fuzzy comparisons are not transitive, and a   *)
(* new path may remove an old one before a third one rejects it, yet no    *)
(* order and no parameterization is lost on the way.                       *)
CoverKept ==
    new_path = NoPath =>
      \A p \in submitted : \E q \in ToSet(pathlist) :
        IsPrefix(Keys(p), Keys(q)) /\ q.outer \subseteq p.outer

(* What the precheck turns away, add_path_explore would turn away too, if  *)
(* the explore value were the one the precheck was given and parallel      *)
(* safety, which it does not look at, did not count: the early exit and    *)
(* the lower bounds on the costs never lose a path.                        *)
PrecheckAgreesOnInputs ==
    Idle /\ rel.join =>
      \A p \in rel.paths :
        ~Precheck(p) => \E old \in ToSet(pathlist) :
                          RejectNew([p EXCEPT !.ev = p.iev, !.safe = 0], old)

(* add_path_precheck_explore says whether a path "could possibly get       *)
(* accepted" by add_path_explore.                                          *)
PrecheckRejectsOnlyDominated ==
    Idle /\ rel.join =>
      \A p \in rel.paths :
        ~Precheck(p) => \E old \in ToSet(pathlist) : RejectNew(p, old)

(* r consists of the elements of s at the positions I, in their order.     *)
Selects(r, s, I) ==
    \E e \in [DOMAIN r -> DOMAIN s] :
      /\ \A i, j \in DOMAIN r : i < j => e[i] < e[j]
      /\ {e[i] : i \in DOMAIN r} = I
      /\ \A i \in DOMAIN r : r[i] = s[e[i]]

(* The one-pass construction in set_cheapest_explore yields exactly the    *)
(* unparameterized paths that no other one outshines on cost and explore   *)
(* value, in the order of the list.  One of them costs what                *)
(* cheapest_total_path costs; of paths with the same costs that field      *)
(* keeps the better sorted and the list the more exploratory one.          *)
BalancedIsPareto ==
    cheapest # NoPath =>
      LET free == {i \in DOMAIN pathlist : pathlist[i].outer = {}}
          best == {i \in free : ~\E j \in free : Outshines(pathlist[j], pathlist[i])}
      IN IF free = {} THEN cheapest.startup = NoPath /\ cheapest.explore = <<cheapest.total>>
         ELSE /\ Selects(cheapest.explore, pathlist, best)
              /\ \E i \in best : SameCosts(pathlist[i], cheapest.total)

(* The plan costs at most the rate more than the cheapest path for the     *)
(* fraction of tuples asked for, no path within the rate explores more,    *)
(* and among those that explore as much it is the cheapest.                *)
ChosenIsBest ==
    chosen # NoPath =>
      LET f == chosen.fraction
          p == chosen.path
          within == {q \in ToSet(pathlist) :
                       \A r \in ToSet(pathlist) : ~Exceeds(Cost(q, f), Cost(r, f), GEN_RATE)}
      IN /\ p \in within
         /\ \A q \in within : q.ev < p.ev \/ (q.ev = p.ev /\ Cost(p, f) <= Cost(q, f))

(* add_path_explore compares costs "exactly for preventing remove best     *)
(* cost plan": a path of the least cost is not removed for a dearer one    *)
(* that is its equal in order, parameterization, rows and safety.          *)
BestCostPlanKept ==
    [][\A i \in DOMAIN pathlist :
         LET old == pathlist[i]
         IN (RemoveOldPath /\ i = pos /\ old.total = best_cost)
              => \/ new_path.total <= old.total
                 \/ Keys(new_path) # Keys(old) \/ new_path.outer # old.outer
                 \/ new_path.rows # old.rows \/ new_path.safe # old.safe]_vars
=============================================================================
