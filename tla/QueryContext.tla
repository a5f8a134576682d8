---------------------------- MODULE QueryContext ----------------------------
(***************************************************************************)
(* The static query_context of one backend, and the selectivity cache that *)
(* goes with it.  aqo_planner fills the context when a statement is        *)
(* planned; the estimation hooks, the join search and the executor hooks   *)
(* read it later.  In between other statements may be planned and run:     *)
(* functions called while a statement is executed or while its constants   *)
(* are folded, several open cursors, prepared statements that run without  *)
(* being planned again, and statements that fail.                          *)
(*                                                                         *)
(* A value of the context is represented by the statement it was computed  *)
(* for (flags_of, stmt_of, bound_of, est_of); the flags are kept.          *)
(***************************************************************************)
EXTENDS Naturals, FiniteSets, Sequences, Lists

CONSTANTS
    Statements,   \* statements of the session
    Templates,    \* those whose hash is one of the known query templates
    Skipped,      \* utility, catalog or CREATE EXTENSION statements
    Modes,        \* values of aqo.mode the session uses
    Settings,     \* settings the row of aqo_queries may have
    MaxNesting,   \* bound: statements being planned at a time
    MaxOpen,      \* bound: statements being executed at a time
    None

VARIABLES
    server,    \* "standby" or "primary"
    mode,      \* aqo.mode
    row,       \* the row of aqo_queries: settings or None
    ctx,       \* query_context
    cache,     \* statements whose selectivities are in the cache
    status,    \* of each statement
    plan,      \* what its last planning did
    env,       \* context saved in queryDesc->queryEnv, or None
    stack,     \* statements being planned, innermost last
    last,      \* the ExecutorEnd that has just been, or NoEnd
    refused    \* a write was attempted on a standby

sessionVars == <<server, mode, row, ctx, cache, status, plan, env, stack, last, refused>>

ASSUME StatementAssumption ==
    /\ Templates \subseteq Statements
    /\ Skipped \subseteq Statements \ Templates
    /\ None \notin Statements
    /\ Modes \subseteq {"disabled", "controlled", "intelligent", "forced", "learn"}
    /\ Settings \subseteq [learn : BOOLEAN, use : BOOLEAN, auto : BOOLEAN, nf : Nat]

\* RecoveryInProgress()
Standby == server = "standby"

\* clean: nothing has replaced the context since the statement was planned;
\* the other fields are kept as long as that is so.
\* hooks: where the size hooks took their estimates from.
\* standby: planned on a standby.
\* counting: executed with INSTRUMENT_ROWS; depth: of the stack when started.
NoPlan == [clean |-> FALSE, standby |-> FALSE, hooks |-> {}, cached |-> FALSE,
           bound |-> None, counting |-> FALSE, depth |-> 0]

NoEnd == [stmt |-> None, plan |-> NoPlan, ctx |-> None, costs |-> FALSE, found |-> {}]

SessionInit ==
    /\ server \in {"standby", "primary"}
    /\ mode \in Modes
    /\ row \in Settings \cup {None}
    /\ ctx = [learn |-> FALSE, use |-> FALSE, collect |-> FALSE, explain |-> FALSE,
              only |-> FALSE, nf |-> 0, flags_of |-> None, stmt_of |-> None,
              bound_of |-> None, est_of |-> None]
    /\ cache = {}
    /\ status = [q \in Statements |-> "none"]
    /\ plan = [q \in Statements |-> NoPlan]
    /\ env = [q \in Statements |-> None]
    /\ stack = <<>>
    /\ last = NoEnd
    /\ refused = FALSE

-----------------------------------------------------------------------------
(***************************************************************************)
(* aqo_planner                                                             *)
(***************************************************************************)

\* learn_aqo, use_aqo and collect_stat
Flags(c, q, learn, use, collect) ==
    [c EXCEPT !.learn = learn, !.use = use, !.collect = collect, !.flags_of = q]

\* disable_aqo_for_query
Disable(c, q) == Flags(c, q, FALSE, FALSE, FALSE)

\* Mutant: explain_aqo is not cleared.
ClearExplainNot(c) == c

ClearExplain(c) == [c EXCEPT !.explain = FALSE]

\* nfeatures, query_starttime and current_query_hash
Begin(c, q) == [c EXCEPT !.nf = 0, !.stmt_of = q]

\* Settings of a statement without a row in aqo_queries
ByMode(c, q) ==
    CASE mode = "intelligent" -> Flags(c, q, TRUE, FALSE, TRUE)
      [] mode = "forced"      -> Flags(c, q, TRUE, TRUE, FALSE)
      [] mode = "controlled"  -> Flags(c, q, FALSE, FALSE, FALSE)
      [] mode = "learn"       -> Flags(c, q, TRUE, TRUE, TRUE)

\* adding_query, with auto_tuning
Adding == mode \in {"intelligent", "learn"} /\ ~Standby

FromRow(c, q) == Flags(c, q, row.learn, row.use, row.auto)

\* Mutant: learn_aqo survives on a standby.
OnStandbyKeepsLearn(c, q) == Flags(c, q, c.learn, c.use, FALSE)

\* On a standby nothing is learned; without a row only forced mode goes on.
OnStandby(c, q) ==
    IF row = None /\ mode # "forced" THEN Disable(c, q)
    ELSE Flags(c, q, FALSE, c.use, FALSE)

\* The context aqo_planner leaves for the planner proper
PlannerContext(q) ==
    LET c0 == ClearExplain(ctx)
        c1 == Begin(c0, q)
        c2 == IF row = None THEN ByMode(c1, q)
              ELSE [FromRow(c1, q) EXCEPT !.nf = row.nf, !.bound_of = q]
        c3 == IF Standby THEN OnStandby(c2, q) ELSE c2
    IN IF mode = "disabled" \/ q \in Skipped THEN Disable(c0, q)
       ELSE IF q \notin Templates THEN Disable(c1, q)
       ELSE [c3 EXCEPT !.explain = c3.use]

\* Statements that get as far as find_query
Handled(q) == mode # "disabled" /\ q \in Templates

\* The context is replaced: what is being planned, or planned and not yet
\* started, has lost its own.
Disturb ==
    [p \in Statements |->
        IF status[p] \in {"planning", "planned"} THEN NoPlan ELSE plan[p]]

\* From the top level, from a function that an open statement runs, or from
\* the constant folding of the statement being planned.
MayPlan(q) == status[q] \in {"none", "planned"} /\ Len(stack) < MaxNesting

BeginPlan(q) ==
    /\ MayPlan(q)
    /\ ~(Standby /\ Handled(q) /\ row # None)
    /\ cache' = {}
    /\ ctx' = PlannerContext(q)
    /\ row' = IF Handled(q) /\ row = None /\ Adding
             THEN [learn |-> ctx'.learn, use |-> ctx'.use, auto |-> TRUE, nf |-> 0]
             ELSE row
    /\ plan' = [Disturb EXCEPT ![q] = [NoPlan EXCEPT !.clean = TRUE, !.standby = Standby]]
    /\ status' = [status EXCEPT ![q] = "planning"]
    /\ stack' = Append(stack, q)
    /\ last' = NoEnd
    /\ UNCHANGED <<server, mode, env, refused>>

\* A stored statement on a standby: update_query2 comes before the test of
\* RecoveryInProgress, fails, and leaves the settings of the row behind.
RefusePlan(q) ==
    /\ MayPlan(q)
    /\ Standby /\ Handled(q) /\ row # None
    /\ cache' = {}
    /\ ctx' = FromRow(Begin(ClearExplain(ctx), q), q)
    /\ plan' = [Disturb EXCEPT ![q] = NoPlan]
    /\ status' = [status EXCEPT ![q] = "none"]
    /\ refused' = TRUE
    /\ last' = NoEnd
    /\ UNCHANGED <<server, mode, row, env, stack>>

-----------------------------------------------------------------------------
(***************************************************************************)
(* The hooks the planner calls for the innermost statement                 *)
(***************************************************************************)

\* Where the rows of a relation come from: the models are asked in learn mode
\* only (and if they decline, the default).
Source == IF ~ctx.use THEN "default"
          ELSE IF mode = "learn" THEN "asked"
          ELSE "nowhere"

\* The four size hooks; the one for parameterized base relations caches.
Estimate(parameterized) ==
    /\ stack # <<>>
    /\ LET q == Last(stack)
           caches == parameterized /\ (ctx.use \/ ctx.learn)
       IN /\ plan' = IF plan[q].clean
                     THEN [plan EXCEPT ![q].hooks = @ \cup {Source}, ![q].cached = @ \/ caches]
                     ELSE plan
          /\ cache' = IF caches THEN cache \cup {q} ELSE cache
    /\ last' = NoEnd
    /\ UNCHANGED <<server, mode, row, ctx, status, env, stack, refused>>

\* If a model is found, update_fss_rfwr2 writes it back, which a standby
\* refuses.
RefuseEstimate ==
    /\ stack # <<>>
    /\ Standby /\ Source = "asked"
    /\ status' = [status EXCEPT ![Last(stack)] = "none"]
    /\ stack' = Front(stack)
    /\ plan' = [plan EXCEPT ![Last(stack)] = NoPlan]
    /\ refused' = TRUE
    /\ last' = NoEnd
    /\ UNCHANGED <<server, mode, row, ctx, cache, env>>

\* aqo_join_search: the cost that add_path_explore prunes against
JoinSearch ==
    /\ stack # <<>>
    /\ plan[Last(stack)].clean
    /\ plan' = [plan EXCEPT ![Last(stack)].bound = ctx.bound_of]
    /\ last' = NoEnd
    /\ UNCHANGED <<server, mode, row, ctx, cache, status, env, stack, refused>>

\* standard_planner chooses the path; aqo_estimated_cost_hook
FinishPlan ==
    /\ stack # <<>>
    /\ ctx' = [ctx EXCEPT !.est_of = Last(stack)]
    /\ status' = [status EXCEPT ![Last(stack)] = "planned"]
    /\ plan' = [Disturb EXCEPT ![Last(stack)] = plan[Last(stack)]]
    /\ stack' = Front(stack)
    /\ last' = NoEnd
    /\ UNCHANGED <<server, mode, row, cache, env, refused>>

-----------------------------------------------------------------------------
(***************************************************************************)
(* The executor hooks                                                      *)
(***************************************************************************)

\* aqo_ExecutorStart, of a fresh or of a cached plan; only = EXPLAIN
ExecutorStart(q, only) ==
    /\ status[q] = "planned"
    /\ Cardinality({p \in Statements : status[p] = "open"}) < MaxOpen
    /\ ctx' = [ctx EXCEPT !.only = only]
    /\ env' = [env EXCEPT ![q] = ctx']
    /\ plan' = [plan EXCEPT ![q].counting = ctx.learn /\ ~only,
                            ![q].depth = Len(stack)]
    /\ status' = [status EXCEPT ![q] = "open"]
    /\ last' = NoEnd
    /\ UNCHANGED <<server, mode, row, cache, stack, refused>>

\* Mutant: the static context is used as it stands.
RestoredNot(q) == [ctx EXCEPT !.only = env[q].only]

\* ExtractFromQueryContext
Restored(q) == env[q]

\* Mutant: learn_query_stat does not look at explain_only.
EndingOfExplain(q) == Restored(q)

\* The context learn_query_stat works with
Ending(q) ==
    IF Restored(q).only THEN [Restored(q) EXCEPT !.learn = FALSE, !.collect = FALSE]
    ELSE Restored(q)

\* update_two_best_costs_record is called
RecordsCosts(c) == c.collect /\ mode = "learn" /\ c.nf > 0 /\ c.stmt_of \in Templates

RemoveFromQueryContext(q) == env' = [env EXCEPT ![q] = None]

\* What the properties say of the end of a statement
Ended(q) == [stmt |-> q, plan |-> plan[q], ctx |-> Ending(q),
             costs |-> RecordsCosts(Ending(q)), found |-> cache]

\* A statement ends when what was planned inside it is through.
MayEnd(q) == status[q] = "open" /\ plan[q].depth = Len(stack)

\* learn_query_stat.  EXPLAIN calls print_into_explain right after it.  The
\* plan may be executed again, then without planning.  A plan none of whose
\* nodes has features writes nothing even if it should learn.
ExecutorEnd(q, explained) ==
    /\ MayEnd(q)
    /\ env[q].only => explained
    /\ ~(Standby /\ RecordsCosts(Ending(q)))
    /\ ctx' = IF explained THEN ClearExplain(Ending(q)) ELSE Ending(q)
    /\ last' = Ended(q)
    /\ cache' = {}
    /\ RemoveFromQueryContext(q)
    /\ plan' = [Disturb EXCEPT ![q] = NoPlan]
    /\ status' = [status EXCEPT ![q] = "planned"]
    /\ UNCHANGED <<server, mode, row, stack, refused>>

\* What is learned cannot be written on a standby.
RefuseEnd(q) ==
    /\ MayEnd(q)
    /\ Standby /\ (Ending(q).learn \/ RecordsCosts(Ending(q)))
    /\ ctx' = Ending(q)
    /\ env' = [env EXCEPT ![q] = None]
    /\ plan' = [Disturb EXCEPT ![q] = NoPlan]
    /\ status' = [status EXCEPT ![q] = "none"]
    /\ refused' = TRUE
    /\ last' = Ended(q)
    /\ UNCHANGED <<server, mode, row, cache, stack>>

\* An error ends a statement without its ExecutorEnd.
Fail(q) ==
    /\ \/ MayEnd(q) /\ stack' = stack
       \/ stack # <<>> /\ q = Last(stack) /\ stack' = Front(stack)
    /\ status' = [status EXCEPT ![q] = "none"]
    /\ env' = [env EXCEPT ![q] = None]
    /\ plan' = [plan EXCEPT ![q] = NoPlan]
    /\ last' = NoEnd
    /\ UNCHANGED <<server, mode, row, ctx, cache, refused>>

\* SET aqo.mode, and UPDATE aqo_queries by the user (on a standby: replayed)
SetMode(m) ==
    /\ stack = <<>> /\ mode' = m
    /\ last' = NoEnd
    /\ UNCHANGED <<server, row, ctx, cache, status, plan, env, stack, refused>>

SetRow(s) ==
    /\ stack = <<>> /\ row # None /\ row' = s
    /\ last' = NoEnd
    /\ UNCHANGED <<server, mode, ctx, cache, status, plan, env, stack, refused>>

\* The standby is promoted; a server never goes back to recovery.
Promote ==
    /\ Standby /\ server' = "primary"
    /\ last' = NoEnd
    /\ UNCHANGED <<mode, row, ctx, cache, status, plan, env, stack, refused>>

SessionNext ==
    \/ \E q \in Statements : \/ BeginPlan(q) \/ RefusePlan(q) \/ RefuseEnd(q) \/ Fail(q)
                             \/ \E b \in BOOLEAN : ExecutorStart(q, b) \/ ExecutorEnd(q, b)
    \/ \E p \in BOOLEAN : Estimate(p)
    \/ RefuseEstimate \/ JoinSearch \/ FinishPlan
    \/ \E m \in Modes : SetMode(m)
    \/ \E s \in Settings : SetRow(s)
    \/ Promote

SessionSpec == SessionInit /\ [][SessionNext]_sessionVars

-----------------------------------------------------------------------------
(***************************************************************************)
(* Properties                                                              *)
(***************************************************************************)

Contexts ==
    [learn : BOOLEAN, use : BOOLEAN, collect : BOOLEAN, explain : BOOLEAN,
     only : BOOLEAN, nf : Nat, flags_of : Statements \cup {None},
     stmt_of : Statements \cup {None}, bound_of : Statements \cup {None},
     est_of : Statements \cup {None}]

\* A statement that was started under the context of its own planning ends
\* under it, whatever was planned, run, explained or aborted while it was
\* open: its flags and its estimated cost are its own, and so are template
\* and features if it learns (aqo_ExecutorStart saves, learn_query_stat
\* restores).
OwnContext ==
    last.stmt # None /\ last.plan.clean =>
        /\ last.ctx.flags_of = last.stmt
        /\ last.ctx.est_of = last.stmt
        /\ last.ctx.learn \/ last.ctx.collect => last.ctx.stmt_of = last.stmt

\* A statement learns only from a plan that was executed with row counters,
\* cached plans and statements that lost their context included:
\* aqo_ExecutorStart decides on the same flag that learn_query_stat finds.
LearnsFromCounters == last.stmt # None /\ last.ctx.learn => last.plan.counting

\* EXPLAIN VERBOSE tells a plan whose sizes were asked of the models from one
\* with default sizes, however the statements before it were planned
\* (explain_aqo is cleared at the head of aqo_planner).
ExplainTellsHooks ==
    last.stmt # None /\ last.plan.clean /\ last.plan.hooks # {} =>
        (last.ctx.explain <=> "default" \notin last.plan.hooks)

\* A statement that was planned on a standby and ends under its own context
\* has learned nothing (the RecoveryInProgress branches of aqo_planner), also
\* when the standby is promoted while the statement is open.
StandbyLearnsNothing ==
    last.stmt # None /\ last.plan.clean /\ last.plan.standby =>
        ~last.ctx.learn /\ ~last.ctx.collect

-----------------------------------------------------------------------------
\* Said of the restored selectivities in restore_selectivities: they are "the
\* same selectivities of clauses as were used at query optimization stage".
SelectivitiesRestored ==
    last.stmt # None /\ last.plan.clean /\ last.ctx.learn /\ last.plan.cached =>
        last.stmt \in last.found

\* Said of StoreToQueryContext, which is there "to avoid problems with
\* subqueries, induced by top-level query": costs are recorded for the
\* statement that had them.
RecordsOwnCosts == last.costs => last.ctx.stmt_of = last.stmt

\* Said of the size hooks: they set the rows estimate of the relation.
EveryRelationEstimated ==
    \A q \in Statements : "nowhere" \notin plan[q].hooks

\* Said of root->best_estimate_cost_of_current_query, the bound that
\* add_path_explore prunes against: it is of the current query.
PruneBoundIsOwn ==
    \A q \in Statements : plan[q].clean => plan[q].bound \in {None, q}

\* Said of replicas: no statistics are collected there because replicas are
\* read-only, so planning attempts no write.
NoWriteOnStandby == ~refused
=============================================================================
