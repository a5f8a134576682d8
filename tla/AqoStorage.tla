----------------------------- MODULE AqoStorage -----------------------------
(***************************************************************************)
(* The AQO service tables under concurrent sessions.  Every backend runs   *)
(* transactions of template queries on a primary server.  One query is:    *)
(*   aqo_planner         find_query, then add_query + add_query_text or    *)
(*                       update_query2 on the one row query_hash = 1       *)
(*   cardinality hooks   load_fss_rfwr and update_fss_rfwr2 for the        *)
(*                       relations the planner looks at                    *)
(*   ExecutorEnd         load_fss_rfwr, lwpr_update (with the data house   *)
(*                       of an untrusted receptive field) and              *)
(*                       update_fss_rfwr for the nodes of the plan, then   *)
(*                       update_two_best_costs_record.                     *)
(* A function of storage.c that changes a row scans for it and then        *)
(* updates what the scan returned: between the load, the scan and the      *)
(* update any other session can run.  The planner and the plan may look at *)
(* the feature subspaces in any order, so the order is not fixed here.     *)
(***************************************************************************)
EXTENDS HeapRows, FiniteSets

CONSTANTS
  Templates,   \* current_query_hash of the recognised templates, 1 .. 7
  Fss,         \* feature subspaces (fss_hash)
  Modes,       \* values of aqo.mode the sessions use (all but disabled)
  Feats,       \* values the driver writes to current_query, num_feature
  HistorySize, \* num_history_data_compute_probability_fs
  WindowSize,  \* num_history_data_compute_probability_rf
  HouseSize,   \* capacity of the data house of a receptive field
  CostsSize,   \* num_two_costs_save
  MaxOwn,      \* bound: template queries in one transaction
  MaxDone,     \* bound: committed template queries before the last ones
  MaxLearn,    \* bound: samples learned per subspace in one transaction
  MaxFreeze,   \* bound: "freeze" statements of users
  Places(_),   \* the places in the heap for the versions of a row
  NoTid,       \* no row version
  NoFss        \* no feature subspace

ASSUME StorageAssumption ==
  /\ Templates \subseteq Nat \ {0}
  /\ Feats \subseteq Nat
  /\ 0 \in Feats
  /\ HistorySize \in Nat \ {0}
  /\ WindowSize \in Nat /\ HouseSize \in Nat \ {0} /\ CostsSize \in Nat \ {0}
  /\ MaxOwn \in Nat /\ MaxDone \in Nat /\ MaxLearn \in Nat /\ MaxFreeze \in Nat
  /\ Modes \subseteq {"learn", "intelligent", "forced", "controlled"}
  /\ NoTid \notin Tids

VARIABLES
  pc,      \* where each backend is in its query
  ctx,     \* query_context: mode, template, flags, feature space, nfeatures
  qrow,    \* the aqo_queries row add_query or update_query2 will write
  fss,     \* the feature subspace being predicted for or learned
  model,   \* the private LWPR_Model loaded for it
  matrix,  \* rows of the private k-NN matrix (data house or best costs)
  tid,     \* the version the storage function's own scan returned
  own,     \* ghost: template queries of the transaction in progress
  done,    \* ghost: template queries of committed transactions
  learned, \* ghost: samples learned per subspace, in progress
  samples, \* ghost: samples learned per subspace, committed
  frozen,  \* ghost: "freeze" UPDATEs of the README that users committed
  feat     \* ghost: what the driver last wrote to current_query

ghost == <<own, done, learned, samples, frozen, feat>>
vars  == <<heap, pc, ctx, qrow, fss, model, matrix, tid, ghost>>

-----------------------------------------------------------------------------
(* The rows.  query_hash is 1 for every template; fspace_hash is 1 for a   *)
(* stored query and 0, the COMMON space, for an unknown one in forced mode.*)
Row(t, fs, i) == [table |-> t, fspace |-> fs, id |-> i]

QueryKey         == Row("aqo_queries", 1, 1)
TextKey          == Row("aqo_query_texts", 1, 1)
FssKey(fs, f)    == Row("aqo_data_lwpr", fs, f)
HouseKey(fs, f)  == Row("aqo_data_house_lwpr", fs, f)
CostsKey(q)      == Row("aqo_best_two_costs_table", 1, q)

FssKeys   == {FssKey(fs, f) : fs \in {0, 1}, f \in Fss}
HouseKeys == {HouseKey(fs, f) : fs \in {0, 1}, f \in Fss}
CostsKeys == {CostsKey(q) : q \in Templates}
Keys      == {QueryKey, TextKey} \cup FssKeys \cup HouseKeys \cup CostsKeys

(* aqo_queries: the settings, history_query, num_history, total_num and    *)
(* current_query with num_feature.                                         *)
QueryRows ==
  [learn : BOOLEAN, use : BOOLEAN, tune : BOOLEAN,
   hist : [1 .. HistorySize -> Templates \cup {0}],
   num : 0 .. HistorySize, total : Nat, feat : Feats]

(* aqo_data_lwpr: the samples the receptive fields have seen, and how full *)
(* the window of past inputs (history_data_matrix) of each template is.    *)
FssRows == [n : Nat, window : [Templates -> 0 .. WindowSize]]

(* aqo_data_house_lwpr, aqo_best_two_costs_table: rows of the k-NN matrix. *)
HouseRows == [rows : 0 .. HouseSize]
CostsRows == [rows : 0 .. CostsSize]
TextRows  == [text : {"query text"}]

ASSUME PlacesAssumption == \A k \in Keys : Places(k) \subseteq Tids

RowsOf(k) ==
  CASE k.table = "aqo_queries"              -> QueryRows
    [] k.table = "aqo_query_texts"          -> TextRows
    [] k.table = "aqo_data_lwpr"            -> FssRows
    [] k.table = "aqo_data_house_lwpr"      -> HouseRows
    [] k.table = "aqo_best_two_costs_table" -> CostsRows

Rows == QueryRows \cup TextRows \cup FssRows \cup HouseRows \cup CostsRows

ASSUME NoTupleAssumption == NoTuple \notin Rows /\ NoTuple \notin Versions(Keys, Rows)

-----------------------------------------------------------------------------
(* A new version is put where no version is and no scan points to.         *)
FreeTids(k) == {t \in Places(k) : ~Live(t) /\ \A b \in Backends : tid[b] # t}
NewTid(k)   == CHOOSE t \in FreeTids(k) : TRUE

Found(b, k) == SelfScan(b, k) # {}
Read(b, k)  == heap[ScanFirst(b, k)].data

CurrentFss(b)   == FssKey(ctx[b].fspace, fss[b])
CurrentHouse(b) == HouseKey(ctx[b].fspace, fss[b])
CurrentCosts(b) == CostsKey(ctx[b].tmpl)

(* The row a backend is about to insert or update, if it is.               *)
Target(b) ==
  CASE pc[b] \in {"addq", "qwrite"}   -> QueryKey
    [] pc[b] = "addt"                 -> TextKey
    [] pc[b] \in {"pwrite", "fwrite"} -> CurrentFss(b)
    [] pc[b] = "hwrite"               -> CurrentHouse(b)
    [] pc[b] = "cwrite"               -> CurrentCosts(b)

Writing(b) == pc[b] \in {"addq", "addt", "qwrite", "pwrite", "hwrite", "fwrite", "cwrite"}

(* The transactions a backend sleeps on before its write can go on.        *)
WaitsFor(b) ==
  IF ~Writing(b) THEN {}
  ELSE IF tid[b] = NoTid THEN InsertHolders(b, Target(b))
  ELSE UpdateHolders(b, tid[b])

Goto(b, from, to) == pc[b] = from /\ pc' = [pc EXCEPT ![b] = to]

(* The variables of a storage function go away when it returns.            *)
Locals    == <<qrow, fss, model, matrix>>
BlankRow  == [learn |-> FALSE, use |-> FALSE, tune |-> FALSE,
              hist |-> [i \in 1 .. HistorySize |-> 0],
              num |-> 0, total |-> 0, feat |-> 0]
NewModel  == [n |-> 0, window |-> [q \in Templates |-> 0]]
NoContext == [mode |-> "disabled", tmpl |-> 0, learn |-> FALSE, use |-> FALSE,
              collect |-> FALSE, fspace |-> 0, nfeat |-> 0]

ClearLocals(b) ==
  /\ qrow' = [qrow EXCEPT ![b] = BlankRow]
  /\ fss' = [fss EXCEPT ![b] = NoFss]
  /\ model' = [model EXCEPT ![b] = NewModel]
  /\ matrix' = [matrix EXCEPT ![b] = 0]

(* The scan every update function of storage.c starts with.                *)
Scan(b, from, to, k) ==
  /\ Goto(b, from, to)
  /\ tid' = [tid EXCEPT ![b] = IF Found(b, k) THEN ScanFirst(b, k) ELSE NoTid]
  /\ UNCHANGED <<heap, ctx, Locals, ghost>>

(* The insertion of a row the scan did not find.                           *)
Insert(b, d) ==
  /\ tid[b] = NoTid
  /\ WaitsFor(b) = {}
  /\ ~UniqueViolation(b, Target(b))
  /\ FreeTids(Target(b)) # {}
  /\ HeapInsert(b, NewTid(Target(b)), Target(b), d)
  /\ UNCHANGED <<ctx, tid, ghost>>

(* The update of the version the scan found: replaced, or, when another    *)
(* transaction replaced it first, silently left alone ("Ooops").           *)
Update(b, d) ==
  /\ tid[b] # NoTid
  /\ WaitsFor(b) = {}
  /\ FreeTids(Target(b)) # {}
  /\ IF UpdateRefused(tid[b]) THEN UNCHANGED heap
     ELSE HeapUpdate(b, tid[b], NewTid(Target(b)), d)
  /\ tid' = [tid EXCEPT ![b] = NoTid]
  /\ UNCHANGED <<ctx, ghost>>

-----------------------------------------------------------------------------
(* Mutant: the history restarts when it is full.                           *)
RememberFromZero(r, q) ==
  IF r.num < HistorySize
  THEN [r EXCEPT !.hist[r.num + 1] = q, !.num = @ + 1, !.total = @ + 1]
  ELSE [r EXCEPT !.hist = [i \in 1 .. HistorySize |-> IF i = 1 THEN q ELSE 0],
                 !.total = @ + 1]

(* aqo_planner.  The template joins history_query: appended while there is *)
(* room, else the oldest entry is shifted out.                             *)
Remember(r, q) ==
  IF r.num < HistorySize
  THEN [r EXCEPT !.hist[r.num + 1] = q, !.num = @ + 1, !.total = @ + 1]
  ELSE [r EXCEPT !.hist = [i \in 1 .. HistorySize |->
                             IF i < r.num THEN r.hist[i + 1] ELSE q],
                 !.total = @ + 1]

StartQuery(b) ==
  /\ own[b] < MaxOwn /\ done < MaxDone
  /\ own' = [own EXCEPT ![b] = @ + 1]
  /\ UNCHANGED <<heap, fss, model, matrix, tid, done, learned, samples, frozen, feat>>

(* find_query returns the row: its settings apply.                         *)
FindStored(b, m, q) ==
  LET r == Read(b, QueryKey) IN
  /\ Goto(b, "idle", "qscan")
  /\ Found(b, QueryKey)
  /\ ctx' = [ctx EXCEPT ![b] =
               [mode |-> m, tmpl |-> q, learn |-> r.learn, use |-> r.use,
                collect |-> r.tune, fspace |-> 1, nfeat |-> r.feat]]
  /\ qrow' = [qrow EXCEPT ![b] = Remember(r, q)]
  /\ StartQuery(b)

(* find_query returns nothing: the settings of the mode apply, and a new   *)
(* row is added in the two modes that do so.                               *)
FindUnknown(b, m, q) ==
  LET adding == m \in {"learn", "intelligent"} IN
  /\ Goto(b, "idle", IF adding THEN "addq" ELSE "plan")
  /\ ~Found(b, QueryKey)
  /\ ctx' = [ctx EXCEPT ![b] =
               [mode |-> m, tmpl |-> q, learn |-> m # "controlled",
                use |-> m \in {"learn", "forced"}, collect |-> adding,
                fspace |-> IF m = "forced" THEN 0 ELSE 1, nfeat |-> 0]]
  /\ qrow' = [qrow EXCEPT ![b] =
                IF adding
                THEN Remember([BlankRow EXCEPT !.learn = TRUE, !.use = (m = "learn"),
                                               !.tune = TRUE], q)
                ELSE @]
  /\ StartQuery(b)

(* Mutant: the text is not stored.                                         *)
AddQueryOnly(b) ==
  Goto(b, "addq", "plan") /\ Insert(b, qrow[b]) /\ ClearLocals(b)

AddQuery(b) ==
  Goto(b, "addq", "addt") /\ Insert(b, qrow[b]) /\ ClearLocals(b)

AddQueryText(b) ==
  Goto(b, "addt", "plan") /\ Insert(b, [text |-> "query text"]) /\ UNCHANGED Locals

(* update_query2 scans again, and writes the settings and the history      *)
(* find_query returned; current_query and num_feature are kept.            *)
ScanQuery(b) == Scan(b, "qscan", "qwrite", QueryKey)

(* Mutants: every column is replaced by what find_query returned; all but  *)
(* auto_tuning are.                                                        *)
ReplaceAllColumns(b) ==
  Goto(b, "qwrite", "plan") /\ Update(b, qrow[b]) /\ ClearLocals(b)

KeepAutoTuning(b) ==
  /\ Goto(b, "qwrite", "plan")
  /\ Update(b, [qrow[b] EXCEPT !.feat = heap[tid[b]].data.feat,
                               !.tune = heap[tid[b]].data.tune])
  /\ ClearLocals(b)

UpdateQuery2(b) ==
  /\ Goto(b, "qwrite", "plan")
  /\ Update(b, [qrow[b] EXCEPT !.feat = heap[tid[b]].data.feat])
  /\ ClearLocals(b)

-----------------------------------------------------------------------------
(* The past inputs of a template are kept up to WindowSize of them.        *)
Slide(m, q) == [m EXCEPT !.window[q] = IF @ < WindowSize THEN @ + 1 ELSE @]

Load(b, k) == IF Found(b, k) THEN Read(b, k) ELSE NewModel

(* predict_for_relation_lwpr_explore: a hook predicts in learn mode only,  *)
(* and the prediction writes back the window of past inputs.               *)
Predict(b, f) ==
  LET k == FssKey(ctx[b].fspace, f) IN
  /\ Goto(b, "plan", "pscan")
  /\ ctx[b].use /\ ctx[b].mode = "learn"
  /\ Found(b, k)
  /\ fss' = [fss EXCEPT ![b] = f]
  /\ model' = [model EXCEPT ![b] = Slide(Load(b, k), ctx[b].tmpl)]
  /\ UNCHANGED <<heap, ctx, qrow, matrix, tid, ghost>>

ScanWindow(b) == Scan(b, "pscan", "pwrite", CurrentFss(b))

(* update_fss_rfwr2: all but the window is what its own scan returned.     *)
UpdateFssRfwr2(b) ==
  /\ Goto(b, "pwrite", "plan")
  /\ Update(b, [heap[tid[b]].data EXCEPT !.window = model[b].window])
  /\ ClearLocals(b)

Execute(b) ==
  Goto(b, "plan", "learn") /\ UNCHANGED <<heap, ctx, Locals, tid, ghost>>

EndQuery(b, from) ==
  /\ Goto(b, from, "idle")
  /\ ctx' = [ctx EXCEPT ![b] = NoContext]
  /\ UNCHANGED <<heap, Locals, tid, ghost>>

(* EXPLAIN: learn_query_stat clears learn_aqo and collect_stat.            *)
ExplainOnly(b) == EndQuery(b, "plan")

-----------------------------------------------------------------------------
(* Mutant: the new receptive field counts the sample once more.            *)
LwprUpdateTwice(m, q) ==
  LET m1 == IF m.n = 0 THEN Slide(m, q) ELSE m IN [m1 EXCEPT !.n = @ + 2]

(* lwpr_update: the sample is counted; the first one starts the window.    *)
LwprUpdate(m, q) ==
  LET m1 == IF m.n = 0 THEN Slide(m, q) ELSE m IN [m1 EXCEPT !.n = @ + 1]

(* Mutant: a new receptive field does not store its first sample.          *)
LearnWithoutHouse(b, f) ==
  LET k == FssKey(ctx[b].fspace, f) IN
  /\ ctx[b].learn /\ learned[b][k] < MaxLearn
  /\ Goto(b, "learn", "fscan")
  /\ fss' = [fss EXCEPT ![b] = f]
  /\ model' = [model EXCEPT ![b] = LwprUpdate(Load(b, k), ctx[b].tmpl)]
  /\ learned' = [learned EXCEPT ![b][k] = @ + 1]
  /\ UNCHANGED <<heap, ctx, qrow, matrix, tid, own, done, samples, frozen, feat>>

(* atomic_fss_learn_step_rfwr.  The first receptive field of a model, and  *)
(* every untrusted one, puts the sample into its data house.               *)
LearnSample(b, f) ==
  LET k == FssKey(ctx[b].fspace, f)
      m == Load(b, k) IN
  /\ ctx[b].learn /\ learned[b][k] < MaxLearn
  /\ \E house \in BOOLEAN :
       /\ m.n = 0 => house
       /\ Goto(b, "learn", IF house THEN "house" ELSE "fscan")
  /\ fss' = [fss EXCEPT ![b] = f]
  /\ model' = [model EXCEPT ![b] = LwprUpdate(m, ctx[b].tmpl)]
  /\ learned' = [learned EXCEPT ![b][k] = @ + 1]
  /\ UNCHANGED <<heap, ctx, qrow, matrix, tid, own, done, samples, frozen, feat>>

(* Mutant: rows are appended past the capacity.                            *)
OkNNrAppend(rows, capacity) == {rows + 1}

(* OkNNr_learn, OkNNr_learn2: a near neighbour is corrected, or a row is   *)
(* appended while there is room, or the neighbours are corrected.          *)
OkNNrLearn(rows, capacity) == {rows, rows + 1} \cap 1 .. capacity

LoadMatrix(b, from, to, k, capacity) ==
  /\ Goto(b, from, to)
  /\ \E r \in OkNNrLearn(IF Found(b, k) THEN Read(b, k).rows ELSE 0, capacity) :
       matrix' = [matrix EXCEPT ![b] = r]
  /\ UNCHANGED <<heap, ctx, qrow, fss, model, tid, ghost>>

LoadHouse(b) == LoadMatrix(b, "house", "hscan", CurrentHouse(b), HouseSize)

ScanHouse(b) == Scan(b, "hscan", "hwrite", CurrentHouse(b))

(* update_rf_datahouse, for one receptive field; another may follow.       *)
UpdateRfDatahouse(b, to) ==
  LET d == [rows |-> matrix[b]] IN
  Goto(b, "hwrite", to) /\ (Insert(b, d) \/ Update(b, d)) /\ UNCHANGED Locals

ScanFss(b) == Scan(b, "fscan", "fwrite", CurrentFss(b))

(* update_fss_rfwr replaces every column of the model.                     *)
UpdateFssRfwr(b) ==
  Goto(b, "fwrite", "learn") /\ (Insert(b, model[b]) \/ Update(b, model[b])) /\ ClearLocals(b)

(* update_two_best_costs_record, when learn_query_stat calls it.           *)
RecordsCosts(b) == ctx[b].collect /\ ctx[b].mode = "learn" /\ ctx[b].nfeat > 0

LoadCosts(b) ==
  RecordsCosts(b) /\ LoadMatrix(b, "learn", "cscan", CurrentCosts(b), CostsSize)

ScanCosts(b) == Scan(b, "cscan", "cwrite", CurrentCosts(b))

UpdateBestTwoCosts(b) ==
  LET d == [rows |-> matrix[b]] IN
  Goto(b, "cwrite", "end") /\ (Insert(b, d) \/ Update(b, d)) /\ ClearLocals(b)

ExecutorEnd(b) == EndQuery(b, "end") \/ (~RecordsCosts(b) /\ EndQuery(b, "learn"))

-----------------------------------------------------------------------------
(* The end of a transaction.                                               *)
NothingLearned == [k \in FssKeys |-> 0]

Commit(b) ==
  /\ pc[b] = "idle" /\ own[b] > 0
  /\ CommitHeap(b)
  /\ own' = [own EXCEPT ![b] = 0]
  /\ done' = done + own[b]
  /\ learned' = [learned EXCEPT ![b] = NothingLearned]
  /\ samples' = [k \in FssKeys |-> samples[k] + learned[b][k]]
  /\ UNCHANGED <<pc, ctx, Locals, tid, frozen, feat>>

Rollback(b) ==
  /\ AbortHeap(b)
  /\ pc' = [pc EXCEPT ![b] = "idle"]
  /\ ctx' = [ctx EXCEPT ![b] = NoContext]
  /\ tid' = [tid EXCEPT ![b] = NoTid]
  /\ ClearLocals(b)
  /\ own' = [own EXCEPT ![b] = 0]
  /\ learned' = [learned EXCEPT ![b] = NothingLearned]
  /\ UNCHANGED <<done, samples, frozen, feat>>

(* ROLLBACK, a cancel, or an error anywhere in the query.                  *)
Abort(b) == own[b] > 0 /\ Rollback(b)

(* Another session inserted the row since the scan: the unique index       *)
(* raises an error, and storage.c passes it on (PG_RE_THROW).              *)
DuplicateKey(b) ==
  /\ Writing(b) /\ tid[b] = NoTid
  /\ WaitsFor(b) = {}
  /\ UniqueViolation(b, Target(b))
  /\ Rollback(b)

(* DeadLockCheck aborts a backend that waits, through others, for itself.  *)
InWaitCycle(b) ==
  \E S \in SUBSET Backends :
    b \in S /\ \A c \in S : WaitsFor(c) \cap S # {} /\ \E d \in S : c \in WaitsFor(d)

(* Mutant: no deadlock detection.                                          *)
NoDeadlockCheck(b) == FALSE /\ Rollback(b)

DeadlockAbort(b) == InWaitCycle(b) /\ Rollback(b)

-----------------------------------------------------------------------------
(* The other sessions that write aqo_queries: a user following the README, *)
(* and the driver of the experiments before each query.                    *)
SqlUpdateQuery(t, d) ==
  /\ Live(t) /\ heap[t].key = QueryKey
  /\ FreeTids(QueryKey) # {}
  /\ SqlUpdateCommitted(t, NewTid(QueryKey), d)
  /\ UNCHANGED <<pc, ctx, Locals, tid, own, done, learned, samples>>

(* UPDATE aqo_queries SET learn_aqo=false, auto_tuning=false;              *)
UserFreeze(t) ==
  /\ frozen < MaxFreeze /\ frozen' = frozen + 1 /\ UNCHANGED feat
  /\ SqlUpdateQuery(t, [heap[t].data EXCEPT !.learn = FALSE, !.tune = FALSE])

(* update_aqo_query_table of the experiment driver (bound: the values it   *)
(* writes increase).                                                       *)
UpdateAqoQueryTable(t, v) ==
  /\ v > feat /\ feat' = v /\ UNCHANGED frozen
  /\ SqlUpdateQuery(t, [heap[t].data EXCEPT !.feat = v])

-----------------------------------------------------------------------------
Init ==
  /\ heap = [t \in Tids |-> NoTuple]
  /\ pc = [b \in Backends |-> "idle"]
  /\ ctx = [b \in Backends |-> NoContext]
  /\ qrow = [b \in Backends |-> BlankRow]
  /\ fss = [b \in Backends |-> NoFss]
  /\ model = [b \in Backends |-> NewModel]
  /\ matrix = [b \in Backends |-> 0]
  /\ tid = [b \in Backends |-> NoTid]
  /\ own = [b \in Backends |-> 0]
  /\ done = 0
  /\ learned = [b \in Backends |-> NothingLearned]
  /\ samples = NothingLearned
  /\ frozen = 0
  /\ feat = 0

Find(b) == \E m \in Modes, q \in Templates : FindStored(b, m, q) \/ FindUnknown(b, m, q)

(* The steps that change a row, and can have to wait for another session.  *)
Write(b) ==
  \/ AddQuery(b) \/ AddQueryText(b) \/ UpdateQuery2(b)
  \/ UpdateFssRfwr2(b) \/ UpdateRfDatahouse(b, "house") \/ UpdateRfDatahouse(b, "fscan")
  \/ UpdateFssRfwr(b) \/ UpdateBestTwoCosts(b)
  \/ DuplicateKey(b)

ScanStep(b) ==
  \/ ScanQuery(b) \/ ScanWindow(b) \/ LoadHouse(b) \/ ScanHouse(b) \/ ScanFss(b) \/ ScanCosts(b)

Next ==
  \/ \E b \in Backends :
       \/ Find(b) \/ ScanStep(b) \/ Write(b)
       \/ \E f \in Fss : Predict(b, f) \/ LearnSample(b, f)
       \/ Execute(b) \/ ExplainOnly(b) \/ LoadCosts(b) \/ ExecutorEnd(b)
       \/ Commit(b) \/ Abort(b) \/ DeadlockAbort(b)
  \/ \E t \in Tids : UserFreeze(t) \/ \E v \in Feats : UpdateAqoQueryTable(t, v)

Spec == Init /\ [][Next]_vars

(* A waiter queues for the row (heap_acquire_tuplock) and is woken when the *)
(* holder ends; the plan of a query has finitely many relations and nodes,  *)
(* and a model finitely many receptive fields, so the loops over them end;  *)
(* the driver commits after every query; the deadlock timeout of a waiter   *)
(* fires.  Nothing is assumed of the start of queries or of other aborts.   *)
Fairness ==
  \A b \in Backends :
    /\ SF_vars(Write(b) /\ pc'[b] # "house")
    /\ SF_vars(Execute(b))
    /\ SF_vars(LoadCosts(b) \/ ExecutorEnd(b))
    /\ WF_vars(ScanStep(b))
    /\ WF_vars(Commit(b))
    /\ WF_vars(DeadlockAbort(b))

FairSpec == Spec /\ Fairness

-----------------------------------------------------------------------------
Pcs == {"idle", "qscan", "qwrite", "addq", "addt", "plan", "pscan", "pwrite",
        "learn", "house", "hscan", "hwrite", "fscan", "fwrite",
        "cscan", "cwrite", "end"}

Contexts ==
  [mode : Modes \cup {"disabled"}, tmpl : Templates \cup {0},
   learn : BOOLEAN, use : BOOLEAN, collect : BOOLEAN, fspace : {0, 1}, nfeat : Feats]

HeapOK ==
  /\ HeapType(Keys, Rows)
  /\ \A t \in Tids : Live(t) => heap[t].data \in RowsOf(heap[t].key)

(* The heap holds row versions with the columns of their table, num_history *)
(* and the numbers of stored neighbours stay within their arrays, and every *)
(* local variable of the storage functions has its type.                    *)
TypeOK ==
  /\ HeapOK
  /\ pc \in [Backends -> Pcs]
  /\ ctx \in [Backends -> Contexts]
  /\ qrow \in [Backends -> QueryRows]
  /\ fss \in [Backends -> Fss \cup {NoFss}]
  /\ model \in [Backends -> FssRows]
  /\ matrix \in [Backends -> Nat]
  /\ tid \in [Backends -> Tids \cup {NoTid}]
  /\ own \in [Backends -> Nat] /\ done \in Nat
  /\ learned \in [Backends -> [FssKeys -> Nat]] /\ samples \in [FssKeys -> Nat]
  /\ frozen \in Nat /\ feat \in Feats

UpdatePcs == {"qwrite", "pwrite", "hwrite", "fwrite", "cwrite"}
FssPcs    == {"pscan", "pwrite", "house", "hscan", "hwrite", "fscan", "fwrite"}

(* What a backend knows between the steps of its storage function: which   *)
(* template and subspace it works on, that the matrix fits its table, and  *)
(* that the version its scan returned, if still there, is one it sees.     *)
LocalInv(b) ==
  /\ pc[b] # "idle" => ctx[b].tmpl \in Templates
  /\ pc[b] \in FssPcs => fss[b] \in Fss
  /\ pc[b] \in {"hscan", "hwrite"} => matrix[b] <= HouseSize
  /\ pc[b] \in {"cscan", "cwrite"} => matrix[b] <= CostsSize
  /\ tid[b] # NoTid =>
       /\ pc[b] \in UpdatePcs
       /\ Live(tid[b]) => heap[tid[b]].key = Target(b) /\ Visible(b, tid[b])

IndInv == TypeOK /\ HeapInv /\ \A b \in Backends : LocalInv(b)

(* find_query, load_fss_rfwr and the scans of the update functions call     *)
(* index_getnext once and use what it returns: whatever transactions are in *)
(* progress, no backend ever sees two versions of a row.                    *)
OneVisibleRow ==
  \A b \in Backends, k \in Keys : \A s, t \in SelfScan(b, k) : s = t

(* update_query2 deforms the tuple of its scan without a NULL check, and    *)
(* update_fss_rfwr2 returns with the table open when it finds none: the row *)
(* a backend found before is still found by the second scan.                *)
UpdateNeverMisses ==
  \A b \in Backends : pc[b] \in {"qwrite", "pwrite"} => tid[b] # NoTid

(* add_query and add_query_text are two insertions into two tables: outside *)
(* of the two, a backend sees the query if and only if it sees its text.    *)
TextWithQuery ==
  \A b \in Backends : pc[b] # "addt" => (Found(b, QueryKey) <=> Found(b, TextKey))

(* aqo_planner keeps num_history, total_num and history_query together, and *)
(* history_query[0 .. num_history - 1] is what the Markov table is looked   *)
(* up with: every version of the row, lost updates or not, has them agree.  *)
HistoryConsistent ==
  \A t \in Tids : Live(t) /\ heap[t].key = QueryKey =>
    LET r == heap[t].data IN
    /\ r.num = IF r.total < HistorySize THEN r.total ELSE HistorySize
    /\ \A i \in 1 .. HistorySize : r.hist[i] # 0 <=> i <= r.num

(* total_num may miss queries (updates are discarded) but aborted and       *)
(* repeated ones are never counted: the row never claims more template      *)
(* queries than committed transactions, and the writer's own, have run.     *)
QueriesNotOvercounted ==
  \A t \in Tids : Live(t) /\ heap[t].key = QueryKey =>
    heap[t].data.total <= done + IF heap[t].xmin = Committed THEN 0 ELSE own[heap[t].xmin]

(* The same of the samples a stored model has learned: n_data decides when  *)
(* a receptive field is trusted, so a sample must not count twice.          *)
SamplesNotOvercounted ==
  \A t \in Tids : Live(t) /\ heap[t].key \in FssKeys =>
    LET k == heap[t].key IN
    heap[t].data.n <= samples[k] + IF heap[t].xmin = Committed THEN 0 ELSE learned[heap[t].xmin][k]

(* current_query and num_feature belong to the driver: update_query2 writes *)
(* back stale values of the other columns, never of these.                  *)
FeaturesAreTheDrivers ==
  \A t \in Tids : Live(t) /\ heap[t].key = QueryKey => heap[t].data.feat = feat

(* The first sample of a model goes to the data house before the model is   *)
(* written: whoever can load the model can load its data house.             *)
HouseWithModel ==
  \A b \in Backends, fs \in {0, 1}, f \in Fss :
    Found(b, FssKey(fs, f)) => Found(b, HouseKey(fs, f))

(* update_query2 writes back the settings find_query returned, all of them: *)
(* learn_aqo and auto_tuning, set together by the planner and by the        *)
(* "freeze" statement, are never a mixture of two rows.                     *)
FlagsMoveTogether ==
  \A t \in Tids : Live(t) /\ heap[t].key = QueryKey =>
    (heap[t].data.learn <=> heap[t].data.tune)

(* The heap of row versions is a transactional store of one value per row.  *)
Tables == INSTANCE ServiceTables
  WITH Values <- RowsOf, Absent <- NoTuple,
       table <- [k \in Keys |-> DataBy(Committed, k)],
       pending <- [b \in Backends |-> [k \in Keys |-> DataBy(b, k)]]

(* Whatever the interleaving of scans, updates, waits, commits and aborts,  *)
(* the service tables behave as that store: one writer per row, and a       *)
(* transaction's rows appear together or not at all.                        *)
TransactionalTables == Tables!Spec

(* A backend that waits for a row another transaction holds, or is about to *)
(* write it, gets past the write, by writing, discarding, or an error: the  *)
(* row locks taken in plan order and in template order never block forever. *)
WritersProceed == \A b \in Backends : Writing(b) ~> ~Writing(b)

-----------------------------------------------------------------------------
(* Why the invariants above hold.  A row is there for everybody once it is  *)
(* committed, and for a backend also while its own transaction holds it.    *)
Stored(k)  == DataBy(Committed, k) # NoTuple
Seen(b, k) == DataBy(b, k) # NoTuple \/ Stored(k)

InLearnStep(b) == pc[b] \in {"house", "hscan", "hwrite", "fscan", "fwrite"}

(* Which rows are there with which, and which rows a storage function knows *)
(* to be there since its first look at them.                                *)
SeenLocal(b) ==
  /\ IF pc[b] = "addt" THEN DataBy(b, QueryKey) # NoTuple
     ELSE Seen(b, QueryKey) <=> Seen(b, TextKey)
  /\ \A fs \in {0, 1}, f \in Fss : Seen(b, FssKey(fs, f)) => Seen(b, HouseKey(fs, f))
  /\ pc[b] = "qscan" => Seen(b, QueryKey)
  /\ pc[b] \in {"qwrite", "pwrite"} => tid[b] # NoTid
  /\ \A k \in FssKeys : pc[b] = "pscan" /\ CurrentFss(b) = k => Seen(b, k)
  /\ \A k \in HouseKeys :
       /\ pc[b] \in {"fscan", "fwrite"} \/ (pc[b] = "hwrite" /\ tid[b] # NoTid)
       /\ CurrentHouse(b) = k
       => Seen(b, k)

SeenInv ==
  /\ Stored(QueryKey) <=> Stored(TextKey)
  /\ \A fs \in {0, 1}, f \in Fss : Stored(FssKey(fs, f)) => Stored(HouseKey(fs, f))
  /\ \A b \in Backends : SeenLocal(b)

(* The columns of a query row agree with each other.                        *)
GoodRow(r) ==
  /\ r.learn <=> r.tune
  /\ r.num = IF r.total < HistorySize THEN r.total ELSE HistorySize
  /\ \A i \in 1 .. HistorySize : r.hist[i] # 0 <=> i <= r.num

(* The template queries, and the samples of subspace k, that the writer x   *)
(* of a version may have counted: the committed ones and its own.           *)
QueriesOf(x)    == done + IF x = Committed THEN 0 ELSE own[x]
SamplesOf(x, k) == samples[k] + IF x = Committed THEN 0 ELSE learned[x][k]

GoodQuery(x) ==
  DataBy(x, QueryKey) # NoTuple =>
    /\ GoodRow(DataBy(x, QueryKey))
    /\ DataBy(x, QueryKey).feat = feat
    /\ DataBy(x, QueryKey).total <= QueriesOf(x)

GoodModels(x) ==
  \A k \in FssKeys : DataBy(x, k) # NoTuple => DataBy(x, k).n <= SamplesOf(x, k)

(* The same of the row and the model a backend is about to write.           *)
CountsLocal(b) ==
  /\ GoodRow(qrow[b])
  /\ pc[b] = "addq" => qrow[b].feat = 0
  /\ pc[b] \in {"addq", "qscan", "qwrite"} => qrow[b].total <= QueriesOf(b)
  /\ \A k \in FssKeys : InLearnStep(b) /\ CurrentFss(b) = k => model[b].n <= SamplesOf(b, k)

CountsInv ==
  /\ feat # 0 => Stored(QueryKey)
  /\ \A x \in Backends \cup {Committed} : GoodQuery(x) /\ GoodModels(x)
  /\ \A b \in Backends : CountsLocal(b)

-----------------------------------------------------------------------------
(* What comments and documents say, and the code does not do.               *)

(* postprocessing.c: "only one runner is allowed to be inside this function *)
(* for one feature subspace".  Nothing in atomic_fss_learn_step_rfwr locks. *)
CriticalSection ==
  \A b, c \in Backends :
    InLearnStep(b) /\ InLearnStep(c) /\ CurrentFss(b) = CurrentFss(c) => b = c

(* The README's recipe: after the UPDATE has committed, learning is off.    *)
(* update_query2 of a query that was being planned writes it on again.      *)
FreezeSticks ==
  \A t \in Tids : Live(t) /\ heap[t].key = QueryKey /\ heap[t].xmin = Committed =>
    frozen = 0 \/ ~heap[t].data.learn

(* storage.c: when "somebody concurrently updated the tuple [...] we just   *)
(* discard ours".  The update is discarded only if the other one came after *)
(* the second scan; one between find_query and the scan is overwritten.     *)
DiscardsOurs ==
  \A b \in Backends :
    pc[b] = "qwrite" /\ Live(tid[b]) /\ heap[tid[b]].xmin = Committed =>
      qrow[b].total = heap[tid[b]].data.total + 1

(* preprocessing.c and the README: a query memorised in learn mode starts   *)
(* with auto_tuning off.                                                    *)
LearnModeDoesNotTune ==
  \A b \in Backends :
    pc[b] = "addq" /\ ctx[b].mode = "learn" => ~qrow[b].tune

=============================================================================
