# Verification of the exploratory optimizer

TLA+ models of the exploratory query optimizer in this repository: PostgreSQL 10
with the AQO extension (`contrib/aqo`) rebuilt around locally weighted regression
models, the explore values in the core planner, and the driver of the
experiments. TLC checks the models on small instances and TLAPS proves the main
invariants for all instances.

Below, `A/` is `src/postgresql-10.0-with-exploratory-optimizer/contrib/aqo/` and
`PG/` is `src/postgresql-10.0-with-exploratory-optimizer/src/backend/`.

## The system and its parts

| part | source | role | modelled in |
|---|---|---|---|
| storage functions | `A/storage.c`, `A/aqo--1.1.sql` | read and write the service tables from inside planning and ExecutorEnd, with heap and index primitives under SnapshotSelf | `HeapRows`, `AqoStorage`, `ServiceTables` |
| PostgreSQL row versions | `PG/access/heap/heapam.c`, `PG/utils/time/tqual.c`, `PG/access/nbtree/nbtinsert.c`, `PG/access/transam/xact.c`, `PG/storage/lmgr/deadlock.c` | visibility, waiting, unique index, commit and abort, deadlock victims | `HeapRows` |
| preprocessing | `A/preprocessing.c` | `aqo_planner`: recognises seven templates, finds or adds the query, keeps the history of templates, fills the static `query_context` | `AqoStorage`, `QueryContext`, `MarkovHistory` |
| postprocessing | `A/postprocessing.c` | learns from every node of the executed plan at ExecutorEnd, records the costs | `AqoStorage`, `QueryContext`, `PlanFeatures` |
| LWPR models | `A/machine_learning_lwpr.c` | receptive fields, their data houses, the windows of past inputs | `ReceptiveFields`; stored form in `AqoStorage` |
| k-NN | `A/machine_learning.c` | data houses and best costs | `BestCosts`, `ReceptiveFields`; stored form in `AqoStorage` |
| hooks and estimation | `A/cardinality_hooks.c`, `A/cardinality_estimation.c` | predict rows and explore values | `QueryContext`, `AqoStorage` |
| plan generation | `A/plan_generation.c` | search mode, best costs | `QueryContext`, `BestCosts`, `AqoStorage` |
| selectivity cache, path annotations | `A/selectivity_cache.c`, `A/path_utils.c` | carry what the planner knew to ExecutorEnd | `QueryContext`, `PlanFeatures` |
| hashing | `A/hash.c` | feature subspace of a relation | `Subspaces`, `FeatureSubspace` |
| explore values in the core planner | `PG/optimizer/util/pathnode.c`, `PG/optimizer/plan/planner.c`, `PG/optimizer/path/` | keep paths by cost and explore value, choose the final plan | `ExplorePaths` |
| driver | `src/run_experiments/`, `src/sql functions/` | runs the workload, keeps the Markov table, writes the current query | `MarkovHistory`, `AqoStorage` |

How they interact: the driver writes the features of the next query into the one
`aqo_queries` row and sends the query. `aqo_planner` reads that row, remembers
the template and writes the row back. While the planner runs, hooks load a
model per relation, predict, and write its window of past inputs back. At
ExecutorEnd every node of the plan is a sample: its model is loaded, updated and
written, and untrusted receptive fields also write their data houses. Every one
of these writes is part of the user's transaction and holds its row until the
transaction ends. Inside one backend all of this goes through one static
`query_context`, which every planned statement overwrites and every started one
saves. The rows and explore values that the hooks predict reach the core planner
as costs and explore values of paths; it keeps a list of paths per relation,
prunes against the best cost predicted for the query, and chooses the most
explorative path within a cost rate. `PROJECT.json` lists the hazards this creates, with their lines.

## Modules

* `HeapRows`: the row versions. State: `heap`, a function from places to
  versions with `xmin`, `xmax`, key and data. Operators: the SnapshotSelf scan
  (`Visible`, `SelfScan`), update with waiting and refusal (`UpdateHolders`,
  `UpdateRefused`, `HeapUpdate`), insertion under a unique index (`Rivals`,
  `InsertHolders`, `UniqueViolation`, `HeapInsert`), commit and abort.
  A transaction is named by its backend, dead versions disappear at once, and an
  own version is replaced in place (the command counter is incremented after each
  write, so nobody can tell).
* `AqoStorage`: the backends. `pc` is where a backend is in a query, `ctx` is
  `query_context`, `qrow`/`fss`/`model`/`matrix`/`tid` are the local variables of
  the storage functions between their steps. One action per storage function
  step: a load, the function's own scan, its write. `own`, `done`, `learned`,
  `samples`, `frozen` and `feat` are history variables used by properties only
  (`own`, `done`, `learned`, `frozen` and `feat` also carry the bounds).
* `ServiceTables`: the abstract specification, a transactional store with one
  committed value per row and one writer at a time.
* `QueryContext`: one backend with nested, cached, explained and failing
  statements on a primary, or on a standby that may be promoted.
* `ReceptiveFields`: the model of one subspace, its fields and data houses.
* `BestCosts`: the k-NN matrix of best costs of a template.
* `MarkovHistory`: driver, Markov table and history window.
* `Subspaces`: what the feature subspace of a list of clauses is, as a reference
  definition; `FeatureSubspace`: the loops of `get_fss_for_object`, checked
  against it; `PlanFeatures`: the walk over an executed plan, with `Subspaces`
  deciding which objects are the same.
* `ExplorePaths`: the paths of one relation.
* `Lists`: the few operators on sequences these modules use, as in SequencesExt.
  That module extends Bags, whose theorems would be in the context of every proof
  step and make it several times as expensive.
* `MC...` with the `.cfg` files: the instances for TLC.
* `AqoStorageProofs` (the heap and its values), `AqoTablesProofs` (the store),
  `AqoCountsProofs` (what is stored), `BackendProofs` (receptive fields and static
  context), `HistoryProofs` (best costs and Markov history), `ExplorePathsProofs`,
  `SubspaceProofs` (lemmas about the subspace by definition) and `FeatureProofs`
  (feature subspaces and executed plans): the theorems. Modules whose theorems
  stand together have specifications with names of their own (`SessionSpec`,
  `MarkovSpec`, `WalkSpec`).

An operator under a comment `Mutant:` is a plausible mistake in the definition
that follows it. No specification uses it; putting it in the place of that
definition makes TLC report the property it is paired with in `PROJECT.json`.

### The service tables (`HeapRows`, `AqoStorage`, `ServiceTables`)

Steps and code, in the order of a query:

| action | code |
|---|---|
| `FindStored`, `FindUnknown` | `aqo_planner` up to the write: settings, mode, history |
| `AddQuery`, `AddQueryText` | `add_query`, `add_query_text` |
| `ScanQuery`, `UpdateQuery2` | `update_query2` |
| `Predict`, `ScanWindow`, `UpdateFssRfwr2` | `predict_for_relation_lwpr_explore` |
| `Execute`, `ExplainOnly` | ExecutorStart; EXPLAIN without execution |
| `LearnSample`, `LoadHouse`, `ScanHouse`, `UpdateRfDatahouse`, `ScanFss`, `UpdateFssRfwr` | `atomic_fss_learn_step_rfwr` |
| `LoadCosts`, `ScanCosts`, `UpdateBestTwoCosts` | `update_two_best_costs_record` |
| `ExecutorEnd`, `Commit`, `Abort`, `DuplicateKey`, `DeadlockAbort` | the end of the query and of the transaction |
| `UserFreeze`, `UpdateAqoQueryTable` | statements of other sessions on `aqo_queries` |

Abstractions. The heap insertion and the index insertion are one step: a tuple
without an index entry is invisible to every scan of these tables. A scan is one
step. The server is a primary, the extension is installed, nobody deletes rows
of the service tables, `fspace_hash` is not edited by hand and the number of
features of a subspace does not change. A model is the number of its samples and
the fill of its windows; a data house or cost record is its number of rows. A
subspace has one data house row in the model: `LearnSample` goes through any
number of receptive fields by repeating the data house steps, and every field
after the first may or may not be trusted. The order in which planner and plan
visit subspaces is not fixed. A prediction also reads data houses, which changes
nothing and is left out, as is the reading of the Markov table.

### The static context (`QueryContext`)

A value in the context is represented by the statement it was computed for:
`flags_of`, `stmt_of`, `bound_of` and `est_of` name the statement that set the
flags, the template and features, the best predicted cost and the estimated
cost. `stack` holds the statements being planned (a function may be planned
during constant folding), `env` what `StoreToQueryContext` saved for the open
ones, `cache` whose selectivities are cached. `plan[q].clean` is a history
variable: nothing has replaced the context since `q` was planned. `last` records
the ExecutorEnd that has just happened.

| action | code |
|---|---|
| `BeginPlan` | `aqo_planner` up to the call of the planner, every branch |
| `RefusePlan`, `RefuseEstimate`, `RefuseEnd` | the writes that a standby refuses: `update_query2`, `update_fss_rfwr2`, the learning |
| `Estimate` | the four size hooks, one call of one of them |
| `JoinSearch`, `FinishPlan` | `aqo_join_search`, `aqo_estimated_cost_hook` |
| `ExecutorStart`, `ExecutorEnd` | `aqo_ExecutorStart`; `learn_query_stat` followed by `print_into_explain` for EXPLAIN |
| `Fail` | an error: no ExecutorEnd, the context stays as it is |
| `SetMode`, `SetRow`, `Promote` | `SET aqo.mode`, `UPDATE aqo_queries`, the end of recovery |

There is one row of `aqo_queries`, as all templates share one query hash. The
cache is kept by statement, not by clause.

### Receptive fields (`ReceptiveFields`)

A point is an integer, a weight is a function `Kernel` of the distance times the
width of the field, in millionths, and the thresholds are those of the code.
What the regression does to a field is free: an update records any error, moves
to any width and adds a projection or not. What is kept is the control:

| action | code |
|---|---|
| `Learn` = `AddField`, `PruneField` or `KeepFields` | `lwpr_aux_update_one_add_prune`: the update loop with `OkNNr_learn` on the houses of the untrusted fields, then a new field, a pruned one or neither |
| `Predict` | `lwpr_predict_explore` with `lwpr_aux_predict_conf_one_T`: exact, weighted, declined or the nearest field; the history of patterns |

The count `n` of updates stops at 2 nIn + 1, beyond which no test tells values
apart. `inherits` marks a field that found rows in the house of an earlier field
with its centre; for those the code gives no guarantee that the house has room,
and `HouseHasRoom` leaves them out. No weight is exactly `use_aqo_threshold`,
which is a statement about real numbers and an assumption of the module.

### Best costs (`BestCosts`)

`UpdateTwoBestCosts` is `OkNNr_learn2` and `CalculateBestEstimateCost` is
`OkNNr_predict2` with the insertion loop of `OkNNr_compute_weights`. There is one
feature, in units in which the step of a tenth is exact for the number of
statements learned; ratios are compared with integers. The weighted mean over
the neighbours is left out.

### Markov history (`MarkovHistory`)

`UpdateMarkovTable` is one step of the driver: `update_markov_table` with
`imdb_get_queries_distribution_k`, including the shift as the loop really does
it. `Restart` starts the driver again with an empty history and the old table.
`Plan` is `aqo_planner` with `load_query_distribution`, whose key is
`fspace_hash`. A state stands for its hash. The specification is `MarkovSpec`.

### Feature subspaces and executed plans (`Subspaces`, `FeatureSubspace`, `PlanFeatures`)

Hashing is taken as injective on what it hashes: an argument is a number, all
constants are one. `FeatureSubspace` runs `get_fss_for_object` step by step:
`JoinClause` is one round of `perform_eclasses_join` with path compression,
`HashClauses` hashes and sorts, `CompactGroup` is one group of equal hashes
compacted in place. `SortBy` is `qsort` and `argsort`, an element's place being
the number of elements before it. Equal hashes keep their order in it, which
`qsort` does not promise; nothing depends on it, since each group is sorted by
value afterwards. Then the same object is written in another way (`PlanAgain`,
`SwapClauses`, `Commute`) and the result must be the first one.
`PlanFeatures` walks plans as `collect_planstat` does, `Collect` one node at a
time, executed or not, `NextPlan` to the subplans, and compares what is learned
with `get_path_clauses` of the same node; its specification is `WalkSpec`.
`Ordinary` says of which statements the two agree: no unary node has clauses of
its own, a node with clauses of its own has features, and only the last plan has
clauses. Relation ids are left out.

### Paths (`ExplorePaths`)

`add_path_explore` is a pass over a list that removes and finds the place of the
new path at once; each round of the loop is an action (`RemoveOldPath`,
`RejectNewPath`, `KeepBothPaths`), between `SubmitPath` (precheck of a join path,
`best_cost`, pruning against the predicted best) and `AcceptNewPath`.
`SetCheapest` is `set_cheapest_explore`, `ChoosePath` is
`get_cheapest_explore_fractional_path`. Costs and explore values are integers and
the fuzz factors exact fractions. Parallel-safety, sort order, parameterization
and rows are compared as in the code; partial paths are not modelled.

## What the runs check

| run | instance | shows |
|---|---|---|
| `queries` | 3 backends, learn mode, history of 2, 2 queries per transaction | the `aqo_queries` row: `OneVisibleRow`, `TextWithQuery`, `HistoryConsistent`, `QueriesNotOvercounted`, and the refinement `TransactionalTables`: the heap implements the abstract store |
| `learning` | 2 backends, one subspace, data house of 2 rows, a driver | `TypeOK`, `UpdateNeverMisses` (a second scan finds the row the first one found), and the models: `SamplesNotOvercounted`, `HouseWithModel` |
| `progress` | 2 backends, forced mode, 2 subspaces | `WritersProceed`: no writer waits forever although rows are locked in any order |
| `settings` | 2 backends, all four modes, a freezing user, a driver | `FlagsMoveTogether`, `FeaturesAreTheDrivers` |
| `session` | 2 statements, one of a template, nested twice, both open, 3 modes, 2 settings, a primary or a standby | a statement that started under its own context ends under it (`OwnContext`), learns only with row counters (`LearnsFromCounters`), EXPLAIN names the source of the estimates (`ExplainTellsHooks`), and nothing planned on a standby learns (`StandbyLearnsNothing`) |
| `fields` | 2 points, 2 widths, errors below and above the threshold, one pattern | fields and houses stay consistent (`CentresDistinct`, `UntrustedHasHouse`, `HouseHasRoom`, `ForgetsOnlyOverlapped`, `TypeOK` with at most nIn projections), and predictions are what they should be (`NeverNearest`, `AnswerBacked`, `OutlierCountsItself`) |
| `costs` | 4 features on both sides of the threshold and on it, costs equal, 1% and more apart, 3 rows | `BestWithinRate`, `NeighboursAreNearest`, `LearnedIsFound` |
| `markov` | 2 templates, history of 4, order 2, 9 statements, restarts | `CountsAddUp`, `WindowIsLast`, `StateIsReal` |
| `subspace` | every list of up to 3 of 8 clauses, a cycle of 4 equalities, all rewritings | union-find, compaction and hash against the reference: `ClassesAreConnected`, `FeaturesAreExact`, `SameSubspace` |
| `collected` | plans of up to 3 relations in 3 shapes, subplans of unrestricted ones, every set of executed nodes | `LearnedAsEstimated`, `ExecutedIsLearned` |
| `paths` | 4 of the paths of a scan, a join and the final relation, in any order | `SortedByTotal`, `CoverKept`, `PrecheckAgreesOnInputs`, `BalancedIsPareto`, `ChosenIsBest` |
| `freeze` | 2 backends and a freezing user | violated: see below |

## Disagreements between the code and what is said of it

Each configuration below checks one property that states a comment or a
document, and TLC reports it as violated by what the code does. `freeze` is a
run of `PROJECT.json`; the others are started with
`tlc -config <cfg> <module>`, the module being the `MC` module of the part.

| cfg | property | what is said | what the code does |
|---|---|---|---|
| `Freeze` | `FreezeSticks` | the freeze recipe of `A/README.md:274-277` | a query in planning writes the old settings back (`A/storage.c:472`); `FlagsMoveTogether` shows that it writes all of them |
| `Discard` | `DiscardsOurs` | "now we just discard ours" (`A/storage.c:490-491`) | only if the other update comes after the second scan; one before it is overwritten |
| `LearnMode` | `LearnModeDoesNotTune` | "auto tuning is disabled" (`A/preprocessing.c:43-45`) | a query memorised in learn mode has it enabled (`A/preprocessing.c:217`) |
| `CriticalSection` | `CriticalSection` | "only one runner is allowed to be inside this function for one feature subspace" (`A/postprocessing.c:56-57`) | nothing locks; `SamplesNotOvercounted` bounds the consequence: samples are lost, never doubled |
| `Precheck` | `PrecheckRejectsOnlyDominated` | "Check whether a proposed new path could possibly get accepted." (`PG/optimizer/util/pathnode.c:1485`) | the explore value passed to the precheck is that of the two inputs without the join's own, so it rejects paths `add_path_explore` would keep; on what it is passed it agrees (`PrecheckAgreesOnInputs`) |
| `BestPlan` | `BestCostPlanKept` | "compare new_path and oldpath's cost exactly for preventing remove best cost plan" (`pathnode.c:1036`) | the factor is 1.00009: a slightly dearer path removes the cheapest |
| `Verified` | `ExactIsVerified` | the test of the average error is there for further verification (`A/machine_learning_lwpr.c:500`) | the average of no errors is 0: a field copied from its neighbour answers as certain before it has an error |
| `Selectivities` | `SelectivitiesRestored` | "restores the same selectivities of clauses as were used at query optimization stage" (`A/postprocessing.c:219-220`) | any statement planned in between has cleared the cache (`A/preprocessing.c:121`) |
| `CachedPlan` | `RecordsOwnCosts` | "to avoid problems with subqueries, induced by top-level query" (`A/postprocessing.c:698-699`) | a cached plan runs under the context of the statement planned last and records its costs there |
| `Unestimated` | `EveryRelationEstimated` | after a refusal the hooks "also use default postgreSQL cardinality estimator" (`A/cardinality_hooks.c:8-18`) | with `use_aqo` and a mode other than learn a hook does neither (`A/cardinality_hooks.c:147`) |
| `PruneBound` | `PruneBoundIsOwn` | "best estimate corresponding to best true cost of current query" (`src/include/nodes/relation.h:323`) | the value of an earlier statement when this one did not compute it (`A/plan_generation.c:24`) |
| `Replica` | `NoWriteOnStandby` | "The extension doesn't collect statistics on replicas, because replicas are read-only." (`A/README.md:304-305`) | a stored query reaches `update_query2` (line 285) before the test of recovery (line 295) |
| `DriverHistory` | `DriverHistoryIsLast` | the list is the "historic data" (`run_workloads_runtime_experiments.py:103`) | after the first shift the newest template is in it twice and the one before is lost (line 20) |
| `MarkovLookup` | `MarkovTableUsed` | "if history data is num_history_data_compute_probability_fs, we use markov table." (`A/storage.c:832`) | the table is searched with `fspace_hash` (line 871): no row is found |
| `ConstOrder` | `EqualityOrderInsensitive` | "args-order-insensitiveness for equal clause is required" (`A/hash.c:175`) | not for an equality with a constant |
| `Material`, `Featureless`, `Subplans` | `LearnedAsEstimated` | the walk "collects relation objects with their clauses, selectivivties and relids and passes each object to learn_sample." (`A/postprocessing.c:282-283`) | a Material node over a scan doubles its clauses (line 570), a join without features hands none on (line 372), a subplan starts with the lists of the plan before it (line 619) |

## Bounds and fairness

Bounds. Three backends are needed for a waiter whose holder is followed by
another writer; two suffice for every race between one load and one write. A
history of 2 is filled and shifted within the 4 committed queries allowed. A
data house of 2 rows is filled and then full. The two places per row version and
backend are those of `MCPlaces`: one committed version, one pending version,
and one per backend that still points to an old version. `MaxOwn`, `MaxDone`,
`MaxLearn` and `MaxFreeze` bound the counters. Backends are symmetric in the
runs without liveness. The only states without a successor would be those where
the bounds are used up; `MCNext` lets them stutter, so that TLC still reports
any real deadlock.

Of the other modules: two statements suffice in `session` because what a
statement can lose its context to is any other one, and with nesting and two open
statements each can be inside the other; 1.6 million states. In `fields` the two
points and widths put a field at full weight, in overlap (0.95) and in the
range where only its shape is copied (0.05); a point out of the sight of all
fields does not occur there (the model declines such a point in the first
disjunct of `Declines`, and the theorem `NearestIsNotReached` covers it). nIn is 1, so a
house has three rows and trust comes with the third update. In `costs` four
statements fill the three rows and meet a full matrix. In `markov` nine
statements fill and shift a history of four after a restart. In `paths` four
paths let one arrive after another has been removed by a third; the
costs lie on both sides of every fuzz factor. These systems may stop only where
the instance says so: `MCSpec` of `MCExplorePaths` and `Finished` of
`MarkovHistory` let the bounded end stutter, and a walk over a finite plan ends
(`CHECK_DEADLOCK FALSE` in `PlanFeatures`).

Fairness (`FairSpec`, used by `progress`). A writer that can go on infinitely
often does: a waiter queues for the row in `heap_acquire_tuplock` and is woken
when the holder ends (strong fairness of `Write`). The plan of a query has
finitely many nodes and a model finitely many receptive fields, so the loops end
(strong fairness of `Execute`, of the end of the query, and of leaving the data
house loop). Scans need nobody (weak fairness). The driver commits after every
query (weak fairness of `Commit`). The deadlock timeout fires in a waiter that is
still in a cycle (weak fairness of `DeadlockAbort`). Nothing is assumed of the
start of queries, of other aborts, or of predictions. The other modules have no
liveness properties: they model one backend or one loop, whose steps wait for
nobody.

## What is proved

### The service tables

For every set of backends, templates, subspaces, modes and places and all array
sizes, from `StorageAssumption`, `PlacesAssumption`, `NoTupleAssumption` and
`XidAssumption` (constants have their types, special values are not ordinary
ones):

* `Inductive`: `Spec => []IndInv`.
* `TypeCorrect`: `Spec => []TypeOK`. The history, the windows and the stored
  matrices stay within the arrays they are copied to and from.
* `OneRow`: `Spec => []OneVisibleRow`. One call of `index_getnext` is enough.

Neither `TypeOK` nor `OneVisibleRow` is inductive. Two visible versions of a row
are excluded because a row has at most one committed and one pending version,
and the pending one belongs to the transaction that holds the committed one;
that is `HeapInv`. It is preserved by an update only because the version to be
replaced is one the backend sees, of the row it means to write; that is known
when the scan returns and must survive the steps of all the others; that is
`LocalInv`. `IndInv` is their conjunction with `TypeOK`.

`AqoStorageProofs` first shows that each heap operation preserves `HeapInv`,
without reference to the extension, and what it does to the values of the rows:
`DataBy(x, k)` is what writer `x`, or the committed state, has for row `k`. It
lifts this to the rows of the tables (`InsertHeap`, `UpdateHeap`, `CommitStep`,
`AbortStep`, `SqlStep`), shows once that a step of one backend leaves what the
others know intact (`LocalFrame`, `Assemble`), and then takes the actions one by
one up to `NextInd`.

`AqoTablesProofs` and `AqoCountsProofs` go on from `IndInv`, in terms of these
values only:

* `Transactional`: `Spec => TransactionalTables`. Every step of the heap is a step
  of `ServiceTables`, or leaves its values as they are. The refinement mapping is
  `DataBy`; a heap update is a write of the store because the version that is
  replaced is the committed one or the writer's own, a discarded one changes no
  value.
* `TextComesWithQuery`, `SecondScanFinds` and `HouseComesWithModel` follow from
  `SeenInv`. None of the three is inductive: that a row is there when it is
  scanned again rests on nobody deleting it in between (a row that is stored
  stays stored, one of an own transaction stays until it ends), and `SeenInv`
  says for every place in the code which rows are known to be there.
* `HistoryAgrees`, `FlagsAgree`, `DriverKeepsFeatures`, `QueriesCountedOnce` and
  `SamplesCountedOnce` follow from `CountsInv`: what a backend is about to write
  (`qrow`, `model`) is right by the counts of the moment it was read, and these
  only grow, so a stale row that is written back is still right.

### Receptive fields

For every set of points and widths, every kernel with full weight at the centre
and every number of features (`FieldAssumption`): `CentresStayDistinct`,
`UntrustedIsHoused`, `HousesHaveRoom` and `NearestIsNotReached`, all from
`FieldsInvariant`: `Spec => []IndInv`. `HouseHasRoom` is not inductive: that a
house is not full says nothing of the next update. `HouseFollows` relates the
rows of a house to the updates of its field: as long as the field is below the
trust threshold the house has at most one row more than the field has updates.
It needs distinct centres, for a second field with the centre would write to the
same house, and these need `FillGap` not to double the last field. Conversely a
new field has a centre of its own because it is only added where no field has a
weight above `w_gen`, and a field at that centre would have full weight.

`FieldTypes`, `AnswersAreBacked` and `OutliersCount` follow from
`BoundsInvariant`, which adds that a field is trusted only after more than 2 nIn
updates and has at most nIn projections. `OnlyOverlappedForgotten` is an action
property: `LoopSuccessor` gives every field of the update loop a successor, and
`LearnKeeps` follows it through the removal and the move into the gap.

### The static context

For any statements, templates, modes, settings and depth of nesting
(`StatementAssumption`): `ContextIsOwn`, `LearningIsCounted`, `ExplainIsTrue` and
`NothingLearnedOnStandby`, all from `ContextInvariant`. The properties speak of
the end of a statement; `ContextInv` says at every moment what a statement that
has not lost its context holds (`Held`): while it is planned or waiting to start
it is the static context (`Planned`), while it is open the saved one (`Open`).
`StackOK` (the stack holds each statement being planned once) is needed for the
end of planning to give the context to the statement that began it. Promotion
keeps the invariant because `Held` speaks of where the statement was planned.

### Best costs

`CostsInvariant`: the matrix has at most `num_two_costs_save` rows and typed
entries, and `CostsDoNotCreep`: `Spec => []BestWithinRate`, for any features,
costs and sizes (`CostAssumption`). The step from the row to its history is
`AbsorbedFacts`: the cost kept is the old or the new one, never above the old
one, and within the rate of the new one, also at a ratio of exactly 1.01, where
no case of the code applies.

`NearestAreFound`: `Spec => []NeighboursAreNearest`. The loop of
`OkNNr_compute_weights` keeps a sorted list of at most K rows and drops the last
one; `InsertSelects` shows that one round keeps `Selected` (sorted, and no row
left out is nearer than one in the list), `WeightsSelect` takes it through all
rows. `LatestIsFound`: `Spec => []LearnedIsFound` needs `FoundInv`: the row that
learned the latest statement has moved towards it (`AbsorbedNotFarther`), so it
is still within the threshold.

### Markov history

For any finite set of templates and any order and length of the history
(`MarkovAssumption`): `WindowStaysLast`, `StatesAreReal` and `RowsAddUp`, all the
properties of the run. `HistInv` says how far the shift of the driver, which
doubles an entry, has brought the list in line with the statements: one entry
more with each statement. The proof showed that a history of two is a case of
its own, in which the doubled entry is overwritten at once; `StateIsReal` says
so. The sum over the templates is a fold of a community module; `SumIs` unfolds
it, `SumCounted` shows that one count adds one to it.

### Feature subspaces

For every list of clauses (`ClauseListsAssumption`), of any length and with any
arguments and features:

* `ClassesConnected`: `Spec => []ClassesAreConnected`, from `JoinInv`. The
  disjoint set is a forest whose roots represent what the clauses taken in so far
  connect (`Represents`). `Forest` gives each entry its root and a depth that
  grows away from it; by least depth, `RootIs` and `TrailIs` show what the two
  recursive functions return, `CompressForest` that path compression keeps the
  roots, and `MergeForest` that a merge joins two classes, on whichever side the
  parity of the positions hangs the root. Classes are defined without
  paths: two arguments are connected if no set that has both sides or no
  side of each equality separates them, so `LinkedByEquality` needs no induction.
* `FeaturesExact`: `Spec => []FeaturesAreExact`, from `CompactInv`. Before the
  group at `k`, the array holds, sorted by hash and value, the clauses before `k`
  that give a feature, and from `k` on it is as `argsort` left it (`Compacted`).
  The writes of a group land below the group's end, so what is still to be read
  is intact; a group has greater hashes than all before it, so its sorted values
  can be put behind (`SortsUnion`, `CompactedNext`). `StaysGive` relates the test
  of the code, one clause without constants in the group, to the definition.
* `SubspaceIsSame`: `~CommutesConst => (Spec => []SameSubspace)`. A way of writing
  the object rearranges its clauses, each once and at most with exchanged sides
  (`Rearranges`). `SameClasses` and `SameHashes` show that this leaves classes and
  clause hashes as they are. Sorted by hash and value, two sets with the same
  pairs give the same lists although the elements differ (`SortedAgree`): two
  ascending lists, each with its pairs at places of their own in the other, are
  equal place by place. With `CommutesConst` the property fails
  (`ConstOrder.cfg`).

### Executed plans

For ordinary statements with any number of plans of any shape and whichever of
their nodes have been executed:

* `LearnsAsEstimated`: `Ordinary(plans) /\ WalkSpec => []LearnedAsEstimated`.
* `ExecutedNodesAreLearned`: the same for `ExecutedIsLearned`.

Both follow from `WalkInv`: every list handed on so far rearranges the clauses of
its node's path (`HandedUpTo`), and every entry learned is right (`EntryOk`). The
heart is `Gathers`: if that holds of the nodes below, it holds of a node. The
walk puts the right subtree before the left, `get_path_clauses` the left before
the right, so the two lists differ; `RearrangedConcat` shows that parts may be
rearranged and exchanged, and `SameByDefinition`, from the section above, that
the subspace does not notice. That a node that was not executed makes no
difference rests on its handing on its clauses all the same. Each condition of
`Ordinary` is needed: without it `Material.cfg`, `Featureless.cfg` and
`Subplans.cfg` give counterexamples. The plans of the run satisfy it
(`OrdinaryAssumption`).

### Paths

For any relations, any paths of them, any number of paths, predicted best costs
and fractions (`PathAssumption`: lower bounds are lower bounds, join paths of one
parameterization have the same row count, as the code assumes at
`pathnode.c:1491`, and a fraction is below 1):

* `ListStaysSorted`: `Spec => []SortedByTotal`, from `SortInv`. The place found
  so far (`insert_after`) divides what has been scanned into paths that cost no
  more and paths that cost more than the new one (`PlaceInv`), and stays right
  when a path behind it is removed.
* `NothingUncovered`: `Spec => []CoverKept`, from `CoverInv`: a path that is
  removed or turned away is covered by the winner, and covering is transitive
  although winning is not. While a new path is being placed it counts as listed.
* `PrecheckLosesNothing`: `Spec => []PrecheckAgreesOnInputs`. The early exit is
  sound because the list is sorted. The precheck does not look at parallel
  safety, so a parallel-safe path can lose to one that is not; the property
  leaves safety aside and says so.
* `BestIsChosen`: `Spec => []ChosenIsBest`. `LeastTotal` shows that
  `set_cheapest_explore` saves a cheapest path, `BestIsLeast` and
  `PreferredIsBest` that the two passes of
  `get_cheapest_explore_fractional_path` find the cheapest for the fraction and
  the best within the rate; `ChoiceInv` keeps the list as it was in between.
* `BalancedListIsPareto`: `Spec => []BalancedIsPareto`. After each path of the
  list, `cheapest_cost_explore_paths` holds the unparameterized paths so far that
  none of them outshines (`Pareto`), and each of the others is outshone by one it
  holds (`Outshone`). The second half is what makes it enough to compare with the
  entries that are left (`ParetoStep`). A scan that stops early after removing
  something would lose a path; it does not happen, since of the entries none
  outshines another and to outshine is transitive (`BalancedStep`).

### Induction

What a loop over a list computes is shown by induction on the number of rounds.
The library's induction theorems cannot be used here, as they take an operator
as a parameter; `LeastNumber` (a set of numbers has a least element, from
`NatLessThanWellFounded`) gives the least round at which a claim fails. Recursive
functions and folds are shown to exist in the same way (`PassExists`,
`SumExists`, `WeightsSelect`, `PathExists`) before anything is said of their values.

### Only model-checked

* `WritersProceed`: liveness under fairness, which is out of the reach of the
  proof system.

Every other property of a passing run is a theorem. `LearnedAsEstimated` and
`ExecutedIsLearned` are theorems of ordinary statements only, `SameSubspace` of
rewritings that leave the sides of equalities with constants in place.

## Not modelled

* The parts of PostgreSQL the optimizer does not touch. They are most of the
  lines of this repository; the models cover the extension, the changed functions
  of the planner and the primitives of heap, index and transactions that the
  extension relies on.
* Floating point arithmetic: the regression inside a receptive field, the cost
  formulas, the weighted means, the moving of rows in a full data house. Where
  control depends on it, the models leave the outcome free or compare exact
  fractions.
* Code that nothing calls: automatic tuning (its call at
  `A/postprocessing.c:673-681` is commented out), the statistics of stock AQO and
  its k-NN storage (`load_fss`, `update_fss`, `update_query_stat_row`), the second
  and third variant of `get_cheapest_explore_fractional_path`.
* Memory: the lifetime of what the static context points to, and the contexts
  saved for statements that abort, which are never freed.
* A missing index of the extension, subtransactions, vacuum, partial paths and
  the enumeration of join orders.
* Collisions of hash functions, and node hashes that leave out the table of a
  column: hashes are injective on what they hash.
* Installation of the hooks, preparation of the data and analysis of results,
  which have no state.
