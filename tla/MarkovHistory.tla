---------------------------- MODULE MarkovHistory ----------------------------
(***************************************************************************)
(* How the distribution of the next query template is learned and used.    *)
(* The driver (run_workloads_runtime_experiments.py) keeps the templates   *)
(* of its last HistoryNum statements and, before each statement, has       *)
(* imdb_get_queries_distribution_k count in aqo_markov_table which         *)
(* templates follow a state, that is Order templates in a row.  When the   *)
(* statement is planned, aqo_planner appends its template to the history   *)
(* in aqo_queries and load_query_distribution looks the table up.          *)
(*                                                                         *)
(* A state stands for its hash: hash_any is taken to be injective.         *)
(***************************************************************************)
EXTENDS Naturals, Sequences, Lists, FiniteSetsExt

CONSTANTS
    Patterns,     \* query templates
    HistoryNum,   \* --history-num of the driver
    Order,        \* --markov-m, and num_history_data_compute_probability_fs
    FspaceHash,   \* fspace_hash, the query_hash of all templates
    MaxRun        \* bound: statements of a workload

VARIABLES
    pc,           \* the driver's next step
    run,          \* history: templates of all statements run so far
    next,         \* template of the statement at hand
    num,          \* num_queries of the driver
    hist,         \* hist_queries of the driver
    table,        \* aqo_markov_table: frequent_query by hist_query_hash
    visits,       \* history: how often a row was updated
    window,       \* history_query[0 .. num_history - 1] of aqo_queries
    loaded        \* query_distribution: the row it came from, none if uniform

markovVars == <<pc, run, next, num, hist, table, visits, window, loaded>>

ASSUME MarkovAssumption ==
    /\ IsFiniteSet(Patterns)
    /\ HistoryNum \in Nat /\ Order \in Nat \ {0} /\ Order < HistoryNum
    /\ MaxRun \in Nat

States == [1 .. Order -> Patterns]

MarkovInit ==
    /\ pc = "next" /\ run = <<>> /\ next \in Patterns
    /\ num = 0 /\ hist = <<>> /\ table = <<>> /\ visits = <<>>
    /\ window = <<>> /\ loaded = {}

-----------------------------------------------------------------------------
(***************************************************************************)
(* The driver and imdb_get_queries_distribution_k                          *)
(***************************************************************************)

Count(p, from, to) == Cardinality({i \in from .. to : hist[i] = p})

\* Mutant: the last template of the history is not counted.
CountedShort(freq) == [p \in Patterns |-> freq[p] + Count(p, Order + 1, HistoryNum - 1)]

\* Every template behind the state counts as a next one.
Counted(freq) == [p \in Patterns |-> freq[p] + Count(p, Order + 1, HistoryNum)]

\* Mutant: the history is not moved.
ShiftedNot(p) == [i \in 1 .. HistoryNum |-> IF i = HistoryNum THEN p ELSE hist[i]]

\* hist_queries[history_num-1] = query_pattern is in the body of the loop, so
\* that the last round moves the new template to the entry before it.
Shifted(p) ==
    [i \in 1 .. HistoryNum |->
        IF i = HistoryNum \/ (i = HistoryNum - 1 /\ i > 1) THEN p ELSE hist[i + 1]]

UpdateMarkovTable(p) ==
    /\ pc = "next" /\ Len(run) < MaxRun
    /\ next' = p
    /\ num' = num + 1
    /\ pc' = "plan"
    /\ IF num' < HistoryNum + 1
       THEN hist' = Append(hist, p) /\ UNCHANGED <<table, visits>>
       ELSE LET s    == SubSeq(hist, 1, Order)
                old  == s \in DOMAIN table
                freq == IF old THEN table[s] ELSE [q \in Patterns |-> 0]
                seen == IF old THEN visits[s] ELSE 0
                dom  == DOMAIN table \cup {s}
            IN /\ table' = [t \in dom |-> IF t = s THEN Counted(freq) ELSE table[t]]
               /\ visits' = [t \in dom |-> IF t = s THEN seen + 1 ELSE visits[t]]
               /\ hist' = Shifted(p)
    /\ UNCHANGED <<run, window, loaded>>

\* The driver is started again with --delete-old-data=0.
Restart ==
    /\ pc = "next" /\ num > 0
    /\ num' = 0 /\ hist' = <<>>
    /\ UNCHANGED <<pc, run, next, table, visits, window, loaded>>

-----------------------------------------------------------------------------
(***************************************************************************)
(* aqo_planner and load_query_distribution                                 *)
(***************************************************************************)

\* Mutant: the newest template goes over the last one.
PushedOver(p) == IF Len(window) < Order THEN Append(window, p)
                 ELSE Front(window) \o <<p>>

Pushed(p) == IF Len(window) < Order THEN Append(window, p)
             ELSE Tail(window) \o <<p>>

\* The scan key is query_context.fspace_hash, not query_history_hash.
Key(w) == FspaceHash

LoadQueryDistribution(w) ==
    IF Len(w) < Order THEN {} ELSE {Key(w)} \cap DOMAIN table

Plan ==
    /\ pc = "plan"
    /\ pc' = "next"
    /\ run' = Append(run, next)
    /\ window' = Pushed(next)
    /\ loaded' = IF window = <<>> THEN loaded ELSE LoadQueryDistribution(window')
    /\ UNCHANGED <<next, num, hist, table, visits>>

Finished == pc = "next" /\ Len(run) = MaxRun /\ UNCHANGED markovVars

MarkovNext == (\E p \in Patterns : UpdateMarkovTable(p)) \/ Restart \/ Plan \/ Finished

MarkovSpec == MarkovInit /\ [][MarkovNext]_markovVars

-----------------------------------------------------------------------------
(***************************************************************************)
(* Properties                                                              *)
(***************************************************************************)

\* The last n elements of a sequence
LastOf(s, n) == IF Len(s) <= n THEN s ELSE SubSeq(s, Len(s) - n + 1, Len(s))

\* Templates of the statements the driver has taken on
Taken == IF pc = "plan" THEN Append(run, next) ELSE run

\* A row of the Markov table counts HistoryNum - Order templates for each time
\* its state came up, over restarts of the driver too: the frequencies are
\* read, added to and written back, and their sum is not 0 when
\* imdb_get_queries_distribution_k divides by it.
CountsAddUp ==
    \A s \in DOMAIN table :
        /\ visits[s] > 0
        /\ MapThenSumSet(LAMBDA p : table[s][p], Patterns) = (HistoryNum - Order) * visits[s]

\* The history that aqo_planner keeps in aqo_queries is that of the last
\* statements, whatever the driver was restarted with.
WindowIsLast == window = LastOf(run, Order)

\* Once the driver has shifted its history HistoryNum - 1 times, the states
\* it counts under are templates that really came up in a row.  (A history
\* of two is shifted in one round, and right as a whole.)
StateIsReal ==
    num >= 2 * HistoryNum - 1 =>
        IF HistoryNum = 2 THEN hist = LastOf(Taken, 2)
        ELSE Front(hist) = LastOf(Taken, HistoryNum - 1)

-----------------------------------------------------------------------------
\* Said of hist_queries: it is the historic data of --history-num statements.
DriverHistoryIsLast ==
    num >= HistoryNum => hist = LastOf(Taken, HistoryNum)

\* Said in load_query_distribution: with a full history the Markov table is
\* used, so the row of the current state is loaded when there is one.
MarkovTableUsed ==
    pc = "next" /\ window \in DOMAIN table => loaded = {window}
=============================================================================
