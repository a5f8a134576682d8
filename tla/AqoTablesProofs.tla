--------------------------- MODULE AqoTablesProofs ---------------------------
(***************************************************************************)
(* The heap of row versions, with its scans, waits and discarded updates,  *)
(* is a transactional store (ServiceTables), and what a writer has seen of *)
(* that store stays true until it writes: SeenInv is inductive, given      *)
(* IndInv.                                                                 *)
(***************************************************************************)
EXTENDS AqoStorageProofs

-----------------------------------------------------------------------------
(* The values of the rows.                                                 *)

Writers == Backends \cup {Committed}

(* A value has the columns of its table.                                   *)
LEMMA ValueType ==
  ASSUME TypeOK, HeapInv, NEW x, NEW k, DataBy(x, k) # NoTuple
  PROVE  DataBy(x, k) \in RowsOf(k) /\ k \in Keys
<1>1. \A t \in Tids : Live(t) =>
        /\ heap[t] \in Versions(Keys, Rows)
        /\ heap[t].data \in RowsOf(heap[t].key)
  BY TypedHeap, LiveVersion DEF TypeOK, HeapOK
<1>2. \A t \in Tids : Live(t) => heap[t].data # NoTuple /\ heap[t].key \in Keys
  BY <1>1, NoTupleAssumption DEF Versions
<1>3. Has(x, k, DataBy(x, k))
  BY <1>2, DataValue DEF DataIsValue
<1> QED  BY <1>1, <1>2, <1>3 DEF Has

(* The version a place holds is the value its writer gave the row.         *)
LEMMA VersionValue ==
  ASSUME TypeOK, HeapInv, NEW t \in Tids, Live(t)
  PROVE  /\ heap[t].xmin \in Writers /\ heap[t].data # NoTuple
         /\ DataBy(heap[t].xmin, heap[t].key) = heap[t].data
<1>1. \A u \in Tids : Live(u) => heap[u] \in Versions(Keys, Rows)
  BY TypedHeap, LiveVersion
<1>2. \A u \in Tids : Live(u) => heap[u].data # NoTuple
  BY <1>1, NoTupleAssumption DEF Versions
<1>3. \A x, k, d : Has(x, k, d) => DataBy(x, k) = d
  BY <1>2, DataValue DEF DataIsValue
<1>4. Has(heap[t].xmin, heap[t].key, heap[t].data)
  BY DEF Has
<1> QED  BY <1>1, <1>2, <1>3, <1>4 DEF Versions, Writers

(* A storage function finds a row exactly when it is there for it, and     *)
(* reads the value of its own transaction before the committed one.        *)
LEMMA ReadValue ==
  ASSUME TypeOK, HeapInv, NEW b \in Backends, NEW k
  PROVE  /\ Found(b, k) <=> Seen(b, k)
         /\ Found(b, k) => \E x \in {b, Committed} :
              DataBy(x, k) # NoTuple /\ Read(b, k) = DataBy(x, k)
<1>1. NoTuple \notin Rows /\ Typed(Keys, Rows)
  BY NoTupleAssumption, TypedHeap
<1>2. /\ Found(b, k) <=> Seen(b, k)
      /\ \A t \in SelfScan(b, k) :
           heap[t].data = IF DataBy(b, k) # NoTuple THEN DataBy(b, k) ELSE DataBy(Committed, k)
  BY <1>1, ScanValue DEF Found, Seen, Stored
<1>3. Found(b, k) => ScanFirst(b, k) \in SelfScan(b, k)
  BY DEF Found, ScanFirst
<1> QED  BY <1>2, <1>3 DEF Read, Seen, Stored

SameValues == \A x, k : DataBy(x, k)' = DataBy(x, k)

(* A step that leaves the heap alone leaves every value alone.             *)
LEMMA QuietValues ==
  ASSUME heap' = heap PROVE SameValues
BY DEF SameValues, DataBy, Live

(* An insertion puts the first value of the row the backend is writing ... *)
LEMMA InsertPuts ==
  ASSUME TypeOK, HeapInv, NEW b \in Backends, NEW k \in Keys, Target(b) = k,
         NEW d \in RowsOf(k), Insert(b, d)
  PROVE  PutValue(b, k, d) /\ \A x : DataBy(x, k) = NoTuple
<1>1. NoTuple \notin Rows /\ Typed(Keys, Rows) /\ d \in Rows
  BY NoTupleAssumption, TypedHeap, RowsOfKey
<1>2. /\ NewTid(k) \in Tids /\ ~Live(NewTid(k))
      /\ ~UniqueViolation(b, k) /\ HeapInsert(b, NewTid(k), k, d)
  BY NewTidFree DEF Insert
<1> QED  BY <1>1, <1>2, InsertValue

(* ... and an update puts its value, made from the value the scan          *)
(* returned, or is discarded.                                              *)
LEMMA UpdatePuts ==
  ASSUME TypeOK, HeapInv, NEW b \in Backends, LocalInv(b), NEW k \in Keys, Target(b) = k,
         NEW d, Live(tid[b]) => d \in RowsOf(k), Update(b, d)
  PROVE  \/ SameValues /\ ~Live(tid[b])
         \/ /\ PutValue(b, k, d) /\ d \in RowsOf(k) /\ Live(tid[b])
            /\ \E x \in {b, Committed} : DataBy(x, k) # NoTuple /\ DataBy(x, k) = heap[tid[b]].data
<1>1. tid[b] \in Tids
  BY DEF Update, TypeOK
<1>2. CASE ~Live(tid[b])
  <2>1. heap' = heap
    BY <1>2 DEF Update, UpdateRefused
  <2> QED  BY <1>2, <2>1, QuietValues
<1>3. CASE Live(tid[b])
  <2>1. d \in RowsOf(k) /\ d \in Rows /\ NoTuple \notin Rows /\ Typed(Keys, Rows)
    BY <1>3, NoTupleAssumption, TypedHeap, RowsOfKey
  <2>2. heap[tid[b]].key = k /\ Visible(b, tid[b]) /\ UpdateHolders(b, tid[b]) = {}
    BY <1>3 DEF LocalInv, Update, WaitsFor, Writing, UpdatePcs
  <2>3. /\ NewTid(k) \in Tids /\ ~Live(NewTid(k))
        /\ HeapUpdate(b, tid[b], NewTid(k), d)
    BY <1>3, NewTidFree DEF Update, UpdateRefused
  <2>4. PutValue(b, k, d)
    BY <1>1, <2>1, <2>2, <2>3, UpdateValue
  <2>5. \E x \in {b, Committed} : DataBy(x, k) # NoTuple /\ DataBy(x, k) = heap[tid[b]].data
    BY <1>1, <1>3, <2>2, VersionValue DEF Visible
  <2> QED  BY <1>3, <2>1, <2>4, <2>5
<1> QED  BY <1>2, <1>3

-----------------------------------------------------------------------------
(* What each write puts, and where.                                        *)

(* The write is discarded: another transaction replaced the version first. *)
Discarded(b) == SameValues /\ tid[b] # NoTid

(* add_query puts the first value of the query row ...                     *)
LEMMA AddQueryPuts ==
  ASSUME IndInv, NEW b \in Backends, AddQuery(b)
  PROVE  /\ PutValue(b, QueryKey, qrow[b]) /\ qrow[b] \in RowsOf(QueryKey)
         /\ \A x : DataBy(x, QueryKey) = NoTuple
<1>1. TypeOK /\ HeapInv /\ QueryKey \in Keys /\ RowsOf(QueryKey) = QueryRows
  BY KeyFacts DEF IndInv
<1>2. Target(b) = QueryKey /\ Insert(b, qrow[b]) /\ qrow[b] \in QueryRows
  BY <1>1 DEF AddQuery, Goto, Target, TypeOK
<1> QED  BY <1>1, <1>2, InsertPuts

(* ... and add_query_text the text.                                        *)
LEMMA AddTextPuts ==
  ASSUME IndInv, NEW b \in Backends, AddQueryText(b)
  PROVE  \E d \in RowsOf(TextKey) : PutValue(b, TextKey, d)
<1> DEFINE d == [text |-> "query text"]
<1>1. TypeOK /\ HeapInv /\ TextKey \in Keys /\ RowsOf(TextKey) = TextRows
  BY KeyFacts DEF IndInv
<1>2. Target(b) = TextKey /\ Insert(b, d) /\ d \in TextRows
  BY <1>1 DEF AddQueryText, Goto, Target, TextRows
<1> HIDE DEF d
<1> QED  BY <1>1, <1>2, InsertPuts

(* update_query2 keeps num_feature of the value its scan returned.         *)
LEMMA UpdateQueryPuts ==
  ASSUME IndInv, NEW b \in Backends, UpdateQuery2(b)
  PROVE  \/ Discarded(b)
         \/ \E x \in {b, Committed} :
              /\ DataBy(x, QueryKey) # NoTuple
              /\ [qrow[b] EXCEPT !.feat = DataBy(x, QueryKey).feat] \in RowsOf(QueryKey)
              /\ PutValue(b, QueryKey, [qrow[b] EXCEPT !.feat = DataBy(x, QueryKey).feat])
<1> DEFINE d == [qrow[b] EXCEPT !.feat = heap[tid[b]].data.feat]
<1>1. /\ TypeOK /\ HeapInv /\ LocalInv(b)
      /\ QueryKey \in Keys /\ RowsOf(QueryKey) = QueryRows
  BY KeyFacts DEF IndInv
<1>2. Target(b) = QueryKey /\ Update(b, d) /\ qrow[b] \in QueryRows /\ tid[b] \in Tids
  BY <1>1 DEF UpdateQuery2, Goto, Target, TypeOK, Update
<1>3. ASSUME Live(tid[b]) PROVE d \in QueryRows
  <2>1. heap[tid[b]].data \in QueryRows
    BY <1>1, <1>2, <1>3 DEF TypeOK, HeapOK, LocalInv, Update
  <2> QED  BY <1>2, <2>1 DEF QueryRows
<1>4. tid[b] # NoTid
  BY <1>2 DEF Update
<1>5. \A x : DataBy(x, QueryKey) = heap[tid[b]].data =>
        d = [qrow[b] EXCEPT !.feat = DataBy(x, QueryKey).feat]
  OBVIOUS
<1> HIDE DEF d
<1>6. \/ SameValues /\ ~Live(tid[b])
      \/ /\ PutValue(b, QueryKey, d) /\ d \in RowsOf(QueryKey) /\ Live(tid[b])
         /\ \E x \in {b, Committed} :
              DataBy(x, QueryKey) # NoTuple /\ DataBy(x, QueryKey) = heap[tid[b]].data
  BY <1>1, <1>2, <1>3, UpdatePuts
<1> QED  BY <1>4, <1>5, <1>6 DEF Discarded

(* update_fss_rfwr2 keeps the model of the value its scan returned, but    *)
(* for the window.                                                         *)
LEMMA WindowPuts ==
  ASSUME IndInv, NEW b \in Backends, UpdateFssRfwr2(b), NEW k, CurrentFss(b) = k
  PROVE  /\ k \in FssKeys
         /\ \/ Discarded(b)
            \/ \E x \in {b, Committed}, d \in RowsOf(k) :
                 /\ DataBy(x, k) # NoTuple /\ d.n = DataBy(x, k).n
                 /\ PutValue(b, k, d)
<1> DEFINE d == [heap[tid[b]].data EXCEPT !.window = model[b].window]
<1>1. TypeOK /\ HeapInv /\ LocalInv(b)
  BY DEF IndInv
<1>2. /\ pc[b] = "pwrite" /\ Target(b) = k /\ Update(b, d)
      /\ model[b] \in FssRows /\ tid[b] \in Tids
  BY <1>1 DEF UpdateFssRfwr2, Goto, Target, TypeOK, Update
<1>3. k \in FssKeys /\ k \in Keys /\ RowsOf(k) = FssRows
  BY <1>1, <1>2, KeyFacts DEF CurrentFss, LocalInv, FssPcs, TypeOK, Contexts
<1>4. ASSUME Live(tid[b]) PROVE d \in FssRows /\ d.n = heap[tid[b]].data.n
  <2>1. heap[tid[b]].data \in FssRows
    BY <1>1, <1>2, <1>3, <1>4 DEF TypeOK, HeapOK, LocalInv, Update
  <2> QED  BY <1>2, <2>1 DEF FssRows
<1>5. tid[b] # NoTid
  BY <1>2 DEF Update
<1> HIDE DEF d
<1>6. \/ SameValues /\ ~Live(tid[b])
      \/ /\ PutValue(b, k, d) /\ d \in RowsOf(k) /\ Live(tid[b])
         /\ \E x \in {b, Committed} : DataBy(x, k) # NoTuple /\ DataBy(x, k) = heap[tid[b]].data
  BY <1>1, <1>2, <1>3, <1>4, UpdatePuts
<1> QED  BY <1>3, <1>4, <1>5, <1>6 DEF Discarded

(* The data house is put for the subspace the backend learns ...           *)
LEMMA HousePuts ==
  ASSUME IndInv, NEW b \in Backends, NEW to, UpdateRfDatahouse(b, to),
         NEW k, CurrentHouse(b) = k
  PROVE  /\ k \in HouseKeys
         /\ Discarded(b) \/ \E d \in RowsOf(k) : PutValue(b, k, d)
<1> DEFINE d == [rows |-> matrix[b]]
<1>1. TypeOK /\ HeapInv /\ LocalInv(b)
  BY DEF IndInv
<1>2. /\ pc[b] = "hwrite" /\ Target(b) = k /\ (Insert(b, d) \/ Update(b, d))
  BY <1>1 DEF UpdateRfDatahouse, Goto, Target
<1>3. /\ ctx[b].fspace \in {0, 1} /\ fss[b] \in Fss
      /\ matrix[b] \in Nat /\ matrix[b] <= HouseSize
  BY <1>1, <1>2 DEF LocalInv, FssPcs, TypeOK, Contexts
<1>4. k \in HouseKeys /\ k \in Keys /\ RowsOf(k) = HouseRows
  BY <1>3, KeyFacts DEF CurrentHouse, HouseKeys
<1>5. d \in HouseRows
  <2>1. matrix[b] \in 0 .. HouseSize
    BY <1>3, StorageAssumption
  <2> QED  BY <2>1 DEF HouseRows
<1> HIDE DEF d
<1>6. CASE Insert(b, d)
  BY <1>1, <1>2, <1>4, <1>5, <1>6, InsertPuts
<1>7. CASE Update(b, d)
  BY <1>1, <1>2, <1>4, <1>5, <1>7, UpdatePuts DEF Update, Discarded
<1> QED  BY <1>2, <1>4, <1>6, <1>7

(* ... and so is the model, whole.                                         *)
LEMMA ModelPuts ==
  ASSUME IndInv, NEW b \in Backends, UpdateFssRfwr(b), NEW k, CurrentFss(b) = k
  PROVE  /\ k \in FssKeys
         /\ Discarded(b) \/ (PutValue(b, k, model[b]) /\ model[b] \in RowsOf(k))
<1>1. TypeOK /\ HeapInv /\ LocalInv(b)
  BY DEF IndInv
<1>2. /\ pc[b] = "fwrite" /\ Target(b) = k /\ (Insert(b, model[b]) \/ Update(b, model[b]))
      /\ model[b] \in FssRows
  BY <1>1 DEF UpdateFssRfwr, Goto, Target, TypeOK
<1>3. k \in FssKeys /\ k \in Keys /\ RowsOf(k) = FssRows
  BY <1>1, <1>2, KeyFacts DEF CurrentFss, LocalInv, FssPcs, TypeOK, Contexts
<1>4. CASE Insert(b, model[b])
  BY <1>1, <1>2, <1>3, <1>4, InsertPuts
<1>5. CASE Update(b, model[b])
  BY <1>1, <1>2, <1>3, <1>5, UpdatePuts DEF Update, Discarded
<1> QED  BY <1>2, <1>3, <1>4, <1>5

(* The cost record is put for the template of the query.                   *)
LEMMA CostsPuts ==
  ASSUME IndInv, NEW b \in Backends, UpdateBestTwoCosts(b), NEW k, CurrentCosts(b) = k
  PROVE  /\ k \in CostsKeys
         /\ Discarded(b) \/ \E d \in RowsOf(k) : PutValue(b, k, d)
<1> DEFINE d == [rows |-> matrix[b]]
<1>1. TypeOK /\ HeapInv /\ LocalInv(b)
  BY DEF IndInv
<1>2. pc[b] = "cwrite" /\ Target(b) = k /\ (Insert(b, d) \/ Update(b, d))
  BY <1>1 DEF UpdateBestTwoCosts, Goto, Target
<1>3. ctx[b].tmpl \in Templates /\ matrix[b] \in Nat /\ matrix[b] <= CostsSize
  BY <1>1, <1>2 DEF LocalInv, TypeOK
<1>4. k \in CostsKeys /\ k \in Keys /\ RowsOf(k) = CostsRows
  BY <1>3, KeyFacts DEF CurrentCosts, CostsKeys
<1>5. d \in CostsRows
  <2>1. matrix[b] \in 0 .. CostsSize
    BY <1>3, StorageAssumption
  <2> QED  BY <2>1 DEF CostsRows
<1> HIDE DEF d
<1>6. CASE Insert(b, d)
  BY <1>1, <1>2, <1>4, <1>5, <1>6, InsertPuts
<1>7. CASE Update(b, d)
  BY <1>1, <1>2, <1>4, <1>5, <1>7, UpdatePuts DEF Update, Discarded
<1> QED  BY <1>2, <1>4, <1>6, <1>7

(* The end of a transaction.                                               *)
LEMMA EndValues ==
  ASSUME IndInv, NEW b \in Backends
  PROVE  (Commit(b) => CommitValues(b)) /\ (Rollback(b) => AbortValues(b))
<1>1. NoTuple \notin Rows /\ Typed(Keys, Rows) /\ HeapInv
  BY NoTupleAssumption, TypedHeap DEF IndInv
<1> QED  BY <1>1, CommitValue, AbortValue DEF Commit, Rollback

(* A statement of another session keeps all of the row but what it sets.   *)
LEMMA SqlPuts ==
  ASSUME IndInv, NEW t \in Tids,
         UserFreeze(t) \/ \E v \in Feats : UpdateAqoQueryTable(t, v)
  PROVE  \E r \in QueryRows, d \in QueryRows :
           /\ r = DataBy(Committed, QueryKey) /\ SqlValue(QueryKey, d)
           /\ \/ UserFreeze(t) /\ d = [r EXCEPT !.learn = FALSE, !.tune = FALSE]
              \/ \E v \in Feats : UpdateAqoQueryTable(t, v) /\ d = [r EXCEPT !.feat = v]
<1>1. /\ NoTuple \notin Rows /\ Typed(Keys, Rows) /\ TypeOK /\ HeapInv
      /\ QueryKey \in Keys /\ RowsOf(QueryKey) = QueryRows
  BY NoTupleAssumption, TypedHeap, KeyFacts DEF IndInv
<1>2. QueryRows \subseteq Rows
  BY DEF Rows
<1>3. ASSUME NEW d \in QueryRows, SqlUpdateQuery(t, d)
      PROVE  SqlValue(QueryKey, d) /\ DataBy(Committed, QueryKey) = heap[t].data
  <2>1. /\ Live(t) /\ heap[t].key = QueryKey /\ FreeTids(QueryKey) # {}
        /\ SqlUpdateCommitted(t, NewTid(QueryKey), d)
    BY <1>3 DEF SqlUpdateQuery
  <2>2. NewTid(QueryKey) \in Tids /\ ~Live(NewTid(QueryKey))
    BY <1>1, <2>1, NewTidFree
  <2> QED  BY <1>1, <1>2, <2>1, <2>2, SqlUpdateValue
<1>4. heap[t].data \in QueryRows
  BY <1>1 DEF TypeOK, HeapOK, UserFreeze, UpdateAqoQueryTable, SqlUpdateQuery
<1>5. \A s \in QueryRows : /\ [s EXCEPT !.learn = FALSE] \in QueryRows
                           /\ [s EXCEPT !.tune = FALSE] \in QueryRows
                           /\ \A v \in Feats : [s EXCEPT !.feat = v] \in QueryRows
  BY DEF QueryRows
<1>6. CASE UserFreeze(t)
  <2> DEFINE d == [heap[t].data EXCEPT !.learn = FALSE, !.tune = FALSE]
  <2>1. d \in QueryRows
    BY <1>4, <1>5
  <2>2. SqlUpdateQuery(t, d)
    BY <1>6 DEF UserFreeze
  <2> QED  BY <1>3, <1>4, <1>6, <2>1, <2>2
<1>7. ASSUME NEW v \in Feats, UpdateAqoQueryTable(t, v)
      PROVE  \E r \in QueryRows, d \in QueryRows :
               /\ r = DataBy(Committed, QueryKey) /\ SqlValue(QueryKey, d)
               /\ d = [r EXCEPT !.feat = v]
  <2> DEFINE d == [heap[t].data EXCEPT !.feat = v]
  <2>1. d \in QueryRows
    BY <1>4, <1>5
  <2>2. SqlUpdateQuery(t, d)
    BY <1>7 DEF UpdateAqoQueryTable
  <2> QED  BY <1>3, <1>4, <2>1, <2>2
<1> QED  BY <1>6, <1>7

-----------------------------------------------------------------------------
(* The refinement: what a step does to the store.                          *)

StoreStep ==
  \/ SameValues
  \/ \E b \in Backends : \/ \E k \in Keys : \E d \in RowsOf(k) : PutValue(b, k, d)
                         \/ CommitValues(b) \/ AbortValues(b)
  \/ \E d \in RowsOf(QueryKey) : SqlValue(QueryKey, d)

(* Every step of the storage functions is one operation of the store.      *)
LEMMA EveryStep == IndInv /\ [Next]_vars => StoreStep
<1> SUFFICES ASSUME IndInv, [Next]_vars PROVE StoreStep
  OBVIOUS
<1>1. CASE heap' = heap
  BY <1>1, QuietValues DEF StoreStep
<1>2. ASSUME NEW b \in Backends, Write(b), ~DuplicateKey(b) PROVE StoreStep
  <2>1. /\ CurrentFss(b) \in FssKeys => CurrentFss(b) \in Keys
        /\ CurrentHouse(b) \in HouseKeys => CurrentHouse(b) \in Keys
        /\ CurrentCosts(b) \in CostsKeys => CurrentCosts(b) \in Keys
        /\ QueryKey \in Keys /\ TextKey \in Keys
    BY DEF Keys
  <2>2. CASE AddQuery(b)
    BY <2>1, <2>2, AddQueryPuts DEF StoreStep
  <2>3. CASE AddQueryText(b)
    BY <2>1, <2>3, AddTextPuts DEF StoreStep
  <2>4. CASE UpdateQuery2(b)
    BY <2>1, <2>4, UpdateQueryPuts DEF StoreStep, Discarded
  <2>5. CASE UpdateFssRfwr2(b)
    BY <2>1, <2>5, WindowPuts DEF StoreStep, Discarded
  <2>6. CASE UpdateRfDatahouse(b, "house") \/ UpdateRfDatahouse(b, "fscan")
    BY <2>1, <2>6, HousePuts DEF StoreStep, Discarded
  <2>7. CASE UpdateFssRfwr(b)
    BY <2>1, <2>7, ModelPuts DEF StoreStep, Discarded
  <2>8. CASE UpdateBestTwoCosts(b)
    BY <2>1, <2>8, CostsPuts DEF StoreStep, Discarded
  <2> QED  BY <1>2, <2>2, <2>3, <2>4, <2>5, <2>6, <2>7, <2>8 DEF Write
<1>3. ASSUME NEW b \in Backends, Commit(b) \/ Abort(b) \/ DeadlockAbort(b) \/ DuplicateKey(b)
      PROVE  StoreStep
  BY <1>3, EndValues DEF StoreStep, Abort, DeadlockAbort, DuplicateKey
<1>4. ASSUME NEW t \in Tids, UserFreeze(t) \/ \E v \in Feats : UpdateAqoQueryTable(t, v)
      PROVE  StoreStep
  BY <1>4, SqlPuts, KeyFacts DEF StoreStep
<1>5. CASE UNCHANGED vars
  BY <1>1, <1>5 DEF vars
<1>6. ASSUME NEW b \in Backends,
             \/ Find(b) \/ ScanStep(b) \/ \E f \in Fss : Predict(b, f) \/ LearnSample(b, f)
             \/ Execute(b) \/ ExplainOnly(b) \/ LoadCosts(b) \/ ExecutorEnd(b)
      PROVE  heap' = heap
  <2>1. Find(b) => heap' = heap
    BY DEF Find, FindStored, FindUnknown, StartQuery
  <2>2. ScanStep(b) => heap' = heap
    BY DEF ScanStep, ScanQuery, ScanWindow, LoadHouse, ScanHouse, ScanFss, ScanCosts,
           Scan, LoadMatrix
  <2>3. (\E f \in Fss : Predict(b, f) \/ LearnSample(b, f)) => heap' = heap
    BY DEF Predict, LearnSample
  <2>4. Execute(b) \/ ExplainOnly(b) \/ LoadCosts(b) \/ ExecutorEnd(b) => heap' = heap
    BY DEF Execute, ExplainOnly, LoadCosts, LoadMatrix, ExecutorEnd, EndQuery
  <2> QED  BY <1>6, <2>1, <2>2, <2>3, <2>4
<1> QED  BY <1>1, <1>2, <1>3, <1>4, <1>5, <1>6 DEF Next

(* The values of the heap, as the variables of the store.                  *)
Table   == [k \in Keys |-> DataBy(Committed, k)]
Pending == [b \in Backends |-> [k \in Keys |-> DataBy(b, k)]]

(* Every operation on the heap is one operation of ServiceTables.          *)
LEMMA StoreRefines == StoreStep => [Tables!Next]_(Tables!vars)
<1> SUFFICES ASSUME StoreStep PROVE [Tables!Next]_(Tables!vars)
  OBVIOUS
<1>1. CASE SameValues
  <2>1. Table' = Table /\ Pending' = Pending
    BY <1>1 DEF SameValues, Table, Pending
  <2> QED  BY <2>1 DEF Tables!vars, Table, Pending
<1>2. ASSUME NEW b \in Backends, NEW k \in Keys, NEW d \in RowsOf(k), PutValue(b, k, d)
      PROVE  Tables!Put(b, k)
  <2>1. Table' = Table
    BY <1>2, XidAssumption DEF PutValue, Table
  <2>2. Pending'[b][k] = d
    BY <1>2 DEF PutValue, Pending
  <2>3. Pending' = [Pending EXCEPT ![b][k] = d]
    BY <1>2 DEF PutValue, Pending
  <2>4. \A c \in Backends \ {b} : Pending[c][k] = NoTuple
    BY <1>2 DEF PutValue, Pending
  <2> QED  BY <2>1, <2>2, <2>3, <2>4 DEF Tables!Put, Table, Pending
<1>3. ASSUME NEW b \in Backends, CommitValues(b) PROVE Tables!Commit(b)
  <2>1. Table' = [k \in Keys |-> IF Pending[b][k] = NoTuple THEN Table[k] ELSE Pending[b][k]]
    BY <1>3, XidAssumption DEF CommitValues, Table, Pending
  <2>2. Pending' = [Pending EXCEPT ![b] = [k \in Keys |-> NoTuple]]
    BY <1>3, XidAssumption DEF CommitValues, Pending
  <2> QED  BY <2>1, <2>2 DEF Tables!Commit, Table, Pending
<1>4. ASSUME NEW b \in Backends, AbortValues(b) PROVE Tables!Abort(b)
  <2>1. Table' = Table
    BY <1>4, XidAssumption DEF AbortValues, Table
  <2>2. Pending' = [Pending EXCEPT ![b] = [k \in Keys |-> NoTuple]]
    BY <1>4 DEF AbortValues, Pending
  <2> QED  BY <2>1, <2>2 DEF Tables!Abort, Table, Pending
<1>5. ASSUME NEW d \in RowsOf(QueryKey), SqlValue(QueryKey, d) PROVE Tables!SqlUpdate(QueryKey)
  <2>1. QueryKey \in Keys
    BY KeyFacts
  <2>2. Table[QueryKey] # NoTuple /\ \A b \in Backends : Pending[b][QueryKey] = NoTuple
    BY <1>5, <2>1 DEF SqlValue, Table, Pending
  <2>3. Table'[QueryKey] = d /\ Table' = [Table EXCEPT ![QueryKey] = d]
    BY <1>5, <2>1 DEF SqlValue, Table
  <2>4. Pending' = Pending
    BY <1>5, XidAssumption DEF SqlValue, Pending
  <2> QED  BY <2>2, <2>3, <2>4 DEF Tables!SqlUpdate, Table, Pending
<1> QED  BY <1>1, <1>2, <1>3, <1>4, <1>5, KeyFacts DEF StoreStep, Tables!Next

(* Both stores start empty.                                                *)
LEMMA StoreInit == Init => Tables!Init
<1> SUFFICES ASSUME Init PROVE Tables!Init
  OBVIOUS
<1>1. \A x, k : DataBy(x, k) = NoTuple
  BY DEF Init, DataBy, Live
<1> QED  BY <1>1 DEF Tables!Init

(* Whatever the numbers of backends, templates, subspaces and places, the  *)
(* service tables are a transactional store: one writer per row, and the   *)
(* rows of a transaction appear together or not at all.                    *)
THEOREM Transactional == Spec => TransactionalTables
<1>1. Init => Tables!Init
  BY StoreInit
<1>2. IndInv /\ [Next]_vars => [Tables!Next]_(Tables!vars)
  BY EveryStep, StoreRefines
<1> QED  BY <1>1, <1>2, Inductive, PTL DEF Spec, TransactionalTables, Tables!Spec

-----------------------------------------------------------------------------
(* The variables of the other backends.                                    *)

OthersKeep(b) ==
  \A c \in Backends \ {b} :
    /\ pc'[c] = pc[c] /\ ctx'[c] = ctx[c] /\ qrow'[c] = qrow[c] /\ fss'[c] = fss[c]
    /\ model'[c] = model[c] /\ tid'[c] = tid[c] /\ own'[c] = own[c]
    /\ learned'[c] = learned[c]

(* A step of one backend leaves the variables of the others alone.         *)
LEMMA OthersStay ==
  ASSUME TypeOK, NEW b \in Backends,
         \/ Find(b) \/ ScanStep(b) \/ Write(b)
         \/ \E f \in Fss : Predict(b, f) \/ LearnSample(b, f)
         \/ Execute(b) \/ ExplainOnly(b) \/ LoadCosts(b) \/ ExecutorEnd(b)
         \/ Commit(b) \/ Rollback(b)
  PROVE  OthersKeep(b)
<1> USE DEF TypeOK, Goto, OthersKeep, Locals, ghost
<1>1. CASE Find(b)
  <2>1. PICK m \in Modes, q \in Templates : FindStored(b, m, q) \/ FindUnknown(b, m, q)
    BY <1>1 DEF Find
  <2>2. \E to : pc' = [pc EXCEPT ![b] = to]
    BY <2>1 DEF FindStored, FindUnknown
  <2>3. \E x : ctx' = [ctx EXCEPT ![b] = x]
    BY <2>1, Zenon DEF FindStored, FindUnknown
  <2>4. \E r : qrow' = [qrow EXCEPT ![b] = r]
    BY <2>1, Zenon DEF FindStored, FindUnknown
  <2>5. own' = [own EXCEPT ![b] = @ + 1] /\ UNCHANGED <<fss, model, tid, learned>>
    BY <2>1 DEF FindStored, FindUnknown, StartQuery
  <2> QED  BY <2>2, <2>3, <2>4, <2>5
<1>2. CASE ScanStep(b)
  BY <1>2 DEF ScanStep, ScanQuery, ScanWindow, LoadHouse, ScanHouse, ScanFss, ScanCosts,
              Scan, LoadMatrix
<1>3. CASE Rollback(b)
  BY <1>3 DEF Rollback, ClearLocals
<1>4. CASE Write(b)
  <2>1. CASE DuplicateKey(b)
    BY <1>3, <2>1 DEF DuplicateKey
  <2>2. ASSUME NEW d, Insert(b, d) \/ Update(b, d)
        PROVE  \A c \in Backends \ {b} : /\ ctx'[c] = ctx[c] /\ tid'[c] = tid[c]
                                          /\ own'[c] = own[c] /\ learned'[c] = learned[c]
    BY <2>2 DEF Insert, Update
  <2>3. ASSUME ClearLocals(b) \/ UNCHANGED Locals
        PROVE  \A c \in Backends \ {b} : /\ qrow'[c] = qrow[c] /\ fss'[c] = fss[c]
                                          /\ model'[c] = model[c]
    BY <2>3 DEF ClearLocals
  <2>4. CASE AddQuery(b) \/ AddQueryText(b) \/ UpdateQuery2(b) \/ UpdateFssRfwr2(b)
    BY <2>2, <2>3, <2>4 DEF AddQuery, AddQueryText, UpdateQuery2, UpdateFssRfwr2
  <2>5. CASE \/ UpdateRfDatahouse(b, "house") \/ UpdateRfDatahouse(b, "fscan")
             \/ UpdateFssRfwr(b) \/ UpdateBestTwoCosts(b)
    BY <2>2, <2>3, <2>5 DEF UpdateRfDatahouse, UpdateFssRfwr, UpdateBestTwoCosts
  <2> QED  BY <1>4, <2>1, <2>4, <2>5 DEF Write
<1>5. ASSUME NEW f \in Fss, Predict(b, f) \/ LearnSample(b, f) PROVE OthersKeep(b)
  BY <1>5 DEF Predict, LearnSample
<1>6. CASE Execute(b) \/ ExplainOnly(b) \/ LoadCosts(b) \/ ExecutorEnd(b)
  BY <1>6 DEF Execute, ExplainOnly, LoadCosts, LoadMatrix, ExecutorEnd, EndQuery
<1>7. CASE Commit(b)
  BY <1>7 DEF Commit
<1> QED  BY <1>1, <1>2, <1>3, <1>4, <1>5, <1>6, <1>7

-----------------------------------------------------------------------------
(* SeenInv: which rows are there.                                          *)

(* The same rows are there for c before and after a step.                  *)
SameSeen(c) ==
  \A k : (DataBy(c, k)' # NoTuple <=> DataBy(c, k) # NoTuple) /\ (Stored(k)' <=> Stored(k))

(* A backend that does nothing, while the rows that are there for it stay  *)
(* the same, keeps what it knows about them ...                            *)
LEMMA SeenFrame ==
  ASSUME NEW c, SeenLocal(c), SameSeen(c),
         pc'[c] = pc[c], ctx'[c] = ctx[c], fss'[c] = fss[c], tid'[c] = tid[c]
  PROVE  SeenLocal(c)'
<1>1. CurrentFss(c)' = CurrentFss(c) /\ CurrentHouse(c)' = CurrentHouse(c)
  BY DEF CurrentFss, CurrentHouse
<1>2. \A k : Seen(c, k)' <=> Seen(c, k)
  BY DEF SameSeen, Seen
<1> QED  BY <1>1, <1>2 DEF SeenLocal, SameSeen

(* ... and also while another transaction commits: the rows it adds come   *)
(* with the rows they belong to.                                           *)
LEMMA SeenCommit ==
  ASSUME NEW b \in Backends, NEW c \in Backends, c # b, SeenLocal(b), pc[b] # "addt",
         SeenLocal(c), CommitValues(b),
         pc'[c] = pc[c], ctx'[c] = ctx[c], fss'[c] = fss[c], tid'[c] = tid[c]
  PROVE  SeenLocal(c)'
<1>1. CurrentFss(c)' = CurrentFss(c) /\ CurrentHouse(c)' = CurrentHouse(c)
  BY DEF CurrentFss, CurrentHouse
<1>2. \A k : Seen(c, k)' <=> Seen(c, k) \/ Seen(b, k)
  BY XidAssumption DEF CommitValues, Seen, Stored
<1>3. DataBy(c, QueryKey)' = DataBy(c, QueryKey)
  BY XidAssumption DEF CommitValues
<1> QED  BY <1>1, <1>2, <1>3 DEF SeenLocal

(* The step of one backend: what remains to be shown.                      *)
LEMMA SeenAssemble ==
  ASSUME SeenInv, NEW b \in Backends, OthersKeep(b), SeenLocal(b)',
         \/ SameValues
         \/ AbortValues(b)
         \/ \E k, d : PutValue(b, k, d)
  PROVE  SeenInv'
<1>1. \A k : DataBy(Committed, k)' = DataBy(Committed, k)
  BY XidAssumption DEF SameValues, AbortValues, PutValue
<1>2. ASSUME NEW c \in Backends \ {b} PROVE SeenLocal(c)'
  <2>1. \A k : DataBy(c, k)' = DataBy(c, k)
    BY DEF SameValues, AbortValues, PutValue
  <2> QED  BY <1>1, <2>1, SeenFrame DEF OthersKeep, SeenInv, SameSeen, Stored
<1>3. \A k : Stored(k)' <=> Stored(k)
  BY <1>1 DEF Stored
<1> QED  BY <1>2, <1>3 DEF SeenInv

(* A step of b that puts nothing, and leaves it where it knows of no row   *)
(* in particular.                                                          *)
LEMMA SeenQuiet ==
  ASSUME SeenInv, NEW b \in Backends, OthersKeep(b), SameValues, pc[b] # "addt",
         pc'[b] \notin {"addt", "qscan", "qwrite", "pscan", "pwrite", "hwrite", "fscan", "fwrite"}
  PROVE  SeenInv'
<1>1. \A k : Seen(b, k)' <=> Seen(b, k)
  BY DEF SameValues, Seen, Stored
<1>2. SeenLocal(b)'
  BY <1>1 DEF SeenInv, SeenLocal
<1> QED  BY <1>2, SeenAssemble

(* The scans return what is there.                                         *)
LEMMA SeenScan ==
  ASSUME IndInv, SeenInv, NEW b \in Backends, ScanStep(b)
  PROVE  SeenInv'
<1>1. TypeOK /\ HeapInv /\ LocalInv(b) /\ SeenLocal(b) /\ OthersKeep(b)
  BY OthersStay DEF IndInv, SeenInv
<1>2. heap' = heap /\ ctx' = ctx /\ fss' = fss
  BY DEF ScanStep, ScanQuery, ScanWindow, LoadHouse, ScanHouse, ScanFss, ScanCosts,
         Scan, LoadMatrix, Locals
<1>3. SameValues /\ \A k : Seen(b, k)' <=> Seen(b, k)
  BY <1>2, QuietValues DEF SameValues, Seen, Stored
<1>4. CurrentFss(b)' = CurrentFss(b) /\ CurrentHouse(b)' = CurrentHouse(b)
  BY <1>2 DEF CurrentFss, CurrentHouse
<1>5. ASSUME NEW k \in Keys, NEW from, NEW to, Scan(b, from, to, k)
      PROVE  pc[b] = from /\ pc'[b] = to /\ (tid'[b] # NoTid <=> Seen(b, k))
  <2>1. pc[b] = from /\ pc'[b] = to
        /\ tid'[b] = IF Found(b, k) THEN ScanFirst(b, k) ELSE NoTid
    BY <1>1, <1>5 DEF Scan, Goto, TypeOK
  <2>2. Found(b, k) => ScanFirst(b, k) # NoTid
    BY <1>1, ScanFact, StorageAssumption
  <2> QED  BY <1>1, <2>1, <2>2, ReadValue
<1>6. CASE ScanQuery(b)
  <2>1. pc[b] = "qscan" /\ pc'[b] = "qwrite" /\ (tid'[b] # NoTid <=> Seen(b, QueryKey))
    BY <1>5, <1>6, KeyFacts DEF ScanQuery
  <2>2. SeenLocal(b)'
    BY <1>1, <1>3, <2>1 DEF SeenLocal
  <2> QED  BY <1>1, <1>3, <2>2, SeenAssemble
<1>7. CASE ScanWindow(b)
  <2>1. pc[b] = "pscan"
    BY <1>7 DEF ScanWindow, Scan, Goto
  <2>2. CurrentFss(b) \in Keys /\ CurrentFss(b) \in FssKeys
    BY <1>1, <2>1, CurrentKeys, KeyFacts DEF LocalInv, FssPcs, CurrentFss, TypeOK, Contexts
  <2>3. pc'[b] = "pwrite" /\ (tid'[b] # NoTid <=> Seen(b, CurrentFss(b)))
    BY <1>5, <1>7, <2>2 DEF ScanWindow
  <2>4. SeenLocal(b)'
    BY <1>1, <1>3, <2>1, <2>2, <2>3 DEF SeenLocal
  <2> QED  BY <1>1, <1>3, <2>4, SeenAssemble
<1>8. CASE ScanHouse(b)
  <2>1. pc[b] = "hscan"
    BY <1>8 DEF ScanHouse, Scan, Goto
  <2>2. CurrentHouse(b) \in Keys
    BY <1>1, <2>1, CurrentKeys DEF FssPcs
  <2>3. pc'[b] = "hwrite" /\ (tid'[b] # NoTid <=> Seen(b, CurrentHouse(b)))
    BY <1>5, <1>8, <2>2 DEF ScanHouse
  <2>4. SeenLocal(b)'
    BY <1>1, <1>3, <1>4, <2>1, <2>3 DEF SeenLocal
  <2> QED  BY <1>1, <1>3, <2>4, SeenAssemble
<1>9. CASE ScanFss(b)
  <2>1. pc[b] = "fscan" /\ pc'[b] = "fwrite"
    BY <1>1, <1>9 DEF ScanFss, Scan, Goto, TypeOK
  <2>2. SeenLocal(b)'
    BY <1>1, <1>3, <1>4, <2>1 DEF SeenLocal
  <2> QED  BY <1>1, <1>3, <2>2, SeenAssemble
<1>10. CASE ScanCosts(b) \/ LoadHouse(b)
  <2>1. pc[b] # "addt" /\ pc'[b] \in {"cwrite", "hscan"}
    BY <1>1, <1>10 DEF ScanCosts, Scan, LoadHouse, LoadMatrix, Goto, TypeOK
  <2> QED  BY <1>1, <1>3, <2>1, SeenQuiet
<1> QED  BY <1>6, <1>7, <1>8, <1>9, <1>10 DEF ScanStep

(* A look-up that finds a row knows that it is there; a model that is      *)
(* learned without its data house was loaded, so its house is there.       *)
LEMMA SeenLook ==
  ASSUME IndInv, SeenInv, NEW b \in Backends,
         \/ Find(b) \/ \E f \in Fss : Predict(b, f) \/ LearnSample(b, f)
         \/ Execute(b) \/ ExplainOnly(b) \/ LoadCosts(b) \/ ExecutorEnd(b)
  PROVE  SeenInv'
<1>1. TypeOK /\ HeapInv /\ LocalInv(b) /\ SeenLocal(b) /\ OthersKeep(b)
  BY OthersStay DEF IndInv, SeenInv
<1>2. heap' = heap
  <2>1. Find(b) => heap' = heap
    BY DEF Find, FindStored, FindUnknown, StartQuery
  <2> QED  BY <2>1 DEF Predict, LearnSample, Execute, ExplainOnly, LoadCosts, LoadMatrix,
                       ExecutorEnd, EndQuery
<1>3. SameValues /\ \A k : Seen(b, k)' <=> Seen(b, k)
  BY <1>2, QuietValues DEF SameValues, Seen, Stored
<1>4. CASE Find(b)
  <2>1. PICK m \in Modes, q \in Templates : FindStored(b, m, q) \/ FindUnknown(b, m, q)
    BY <1>4 DEF Find
  <2>2. pc[b] = "idle" /\ tid' = tid
    BY <2>1 DEF FindStored, FindUnknown, Goto, StartQuery
  <2>3. CASE FindStored(b, m, q)
    <3>1. pc'[b] = "qscan" /\ Seen(b, QueryKey)
      BY <1>1, <2>3, ReadValue DEF FindStored, Goto, TypeOK
    <3>2. SeenLocal(b)'
      BY <1>1, <1>3, <2>2, <3>1 DEF SeenLocal
    <3> QED  BY <1>1, <1>3, <3>2, SeenAssemble
  <2>4. CASE FindUnknown(b, m, q)
    <3>1. pc'[b] \in {"addq", "plan"}
      BY <1>1, <2>4 DEF FindUnknown, Goto, TypeOK
    <3> QED  BY <1>1, <1>3, <2>2, <3>1, SeenQuiet
  <2> QED  BY <2>1, <2>3, <2>4
<1>5. ASSUME NEW f \in Fss, Predict(b, f) PROVE SeenInv'
  <2>1. PICK k : k = FssKey(ctx[b].fspace, f)
    OBVIOUS
  <2>2. /\ pc[b] = "plan" /\ pc'[b] = "pscan" /\ Found(b, k)
        /\ CurrentFss(b)' = k
    BY <1>1, <1>5, <2>1 DEF Predict, Goto, TypeOK, CurrentFss
  <2>3. Seen(b, k)
    BY <1>1, <2>2, ReadValue
  <2>4. SeenLocal(b)'
    BY <1>1, <1>3, <2>2, <2>3 DEF SeenLocal
  <2> QED  BY <1>1, <1>3, <2>4, SeenAssemble
<1>6. ASSUME NEW f \in Fss, LearnSample(b, f) PROVE SeenInv'
  <2>1. PICK k, h : k = FssKey(ctx[b].fspace, f) /\ h = HouseKey(ctx[b].fspace, f)
    OBVIOUS
  <2>2. /\ pc[b] = "learn" /\ tid' = tid /\ CurrentHouse(b)' = h
        /\ pc'[b] = "house" \/ (pc'[b] = "fscan" /\ Load(b, k).n # 0)
    BY <1>1, <1>6, <2>1 DEF LearnSample, Goto, TypeOK, CurrentHouse
  <2>3. CASE pc'[b] = "house"
    BY <1>1, <1>3, <2>2, <2>3, SeenQuiet
  <2>4. CASE pc'[b] = "fscan"
    <3>1. Found(b, k)
      BY <2>2, <2>4 DEF Load, NewModel
    <3>2. Seen(b, k)
      BY <1>1, <3>1, ReadValue
    <3>3. Seen(b, h)
      BY <1>1, <2>1, <3>2 DEF SeenLocal, TypeOK, Contexts
    <3>4. SeenLocal(b)'
      BY <1>1, <1>3, <2>2, <2>4, <3>3 DEF SeenLocal
    <3> QED  BY <1>1, <1>3, <3>4, SeenAssemble
  <2> QED  BY <2>2, <2>3, <2>4
<1>7. CASE Execute(b) \/ ExplainOnly(b) \/ LoadCosts(b) \/ ExecutorEnd(b)
  <2>1. pc[b] # "addt" /\ pc'[b] \in {"learn", "idle", "cscan"}
    BY <1>1, <1>7 DEF Execute, ExplainOnly, LoadCosts, LoadMatrix, ExecutorEnd, EndQuery,
                      Goto, TypeOK
  <2> QED  BY <1>1, <1>3, <2>1, SeenQuiet
<1> QED  BY <1>4, <1>5, <1>6, <1>7

(* A row belongs to one table, and its key tells its subspace.             *)
LEMMA KeysDiffer ==
  /\ QueryKey # TextKey
  /\ \A k \in FssKeys \cup HouseKeys \cup CostsKeys : k # QueryKey /\ k # TextKey
  /\ \A k \in HouseKeys \cup CostsKeys : k \notin FssKeys
  /\ \A fs, gs \in {0, 1}, f, g \in Fss :
       FssKey(fs, f) = FssKey(gs, g) => HouseKey(fs, f) = HouseKey(gs, g)
<1> USE DEF Row
<1>1. QueryKey # TextKey
  BY DEF QueryKey, TextKey
<1>2. \A k \in FssKeys : k.table = "aqo_data_lwpr"
  BY DEF FssKeys, FssKey
<1>3. \A k \in HouseKeys : k.table = "aqo_data_house_lwpr"
  BY DEF HouseKeys, HouseKey
<1>4. \A k \in CostsKeys : k.table = "aqo_best_two_costs_table"
  BY DEF CostsKeys, CostsKey
<1>5. QueryKey.table = "aqo_queries" /\ TextKey.table = "aqo_query_texts"
  BY DEF QueryKey, TextKey
<1>6. ASSUME NEW fs \in {0, 1}, NEW gs \in {0, 1}, NEW f \in Fss, NEW g \in Fss,
             FssKey(fs, f) = FssKey(gs, g)
      PROVE  HouseKey(fs, f) = HouseKey(gs, g)
  <2>1. /\ FssKey(fs, f).fspace = fs /\ FssKey(fs, f).id = f
        /\ FssKey(gs, g).fspace = gs /\ FssKey(gs, g).id = g
    BY DEF FssKey
  <2> QED  BY <1>6, <2>1
<1> QED  BY <1>1, <1>2, <1>3, <1>4, <1>5, <1>6

(* A put adds its row to those that are there for the writer.              *)
LEMMA PutSeen ==
  ASSUME NEW b \in Backends, NEW k, NEW d, d # NoTuple, PutValue(b, k, d)
  PROVE  \A j : Seen(b, j)' <=> Seen(b, j) \/ j = k
BY XidAssumption DEF PutValue, Seen, Stored

(* No value is NoTuple.                                                    *)
LEMMA NotAbsent ==
  ASSUME NEW k \in Keys, NEW d \in RowsOf(k) PROVE d # NoTuple
BY RowsOfKey, NoTupleAssumption

(* A write of a row that is already there, or that no other row depends    *)
(* on, or whose data house is there.                                       *)
LEMMA SeenWrite ==
  ASSUME SeenInv, NEW b \in Backends, OthersKeep(b), pc[b] # "addt",
         pc'[b] \in {"plan", "learn", "end", "house"}, NEW k,
         SameValues \/ \E d : d # NoTuple /\ PutValue(b, k, d),
         k \in {QueryKey, TextKey} => Seen(b, k),
         \A fs \in {0, 1}, f \in Fss : k = FssKey(fs, f) => Seen(b, HouseKey(fs, f))
  PROVE  SeenInv'
<1>1. SeenLocal(b)
  BY DEF SeenInv
<1>2. \/ \A j : Seen(b, j)' <=> Seen(b, j)
      \/ \A j : Seen(b, j)' <=> Seen(b, j) \/ j = k
  BY PutSeen DEF SameValues, Seen, Stored
<1>3. Seen(b, QueryKey)' <=> Seen(b, TextKey)'
  BY <1>1, <1>2 DEF SeenLocal
<1>4. \A fs \in {0, 1}, f \in Fss : Seen(b, FssKey(fs, f))' => Seen(b, HouseKey(fs, f))'
  BY <1>1, <1>2 DEF SeenLocal
<1>5. SeenLocal(b)'
  BY <1>3, <1>4 DEF SeenLocal
<1> QED  BY <1>5, SeenAssemble

(* The writes.                                                             *)
LEMMA SeenWrites ==
  ASSUME IndInv, SeenInv, NEW b \in Backends, Write(b), ~DuplicateKey(b)
  PROVE  SeenInv'
<1>1. TypeOK /\ HeapInv /\ LocalInv(b) /\ SeenLocal(b) /\ OthersKeep(b)
  BY OthersStay DEF IndInv, SeenInv
<1>2. /\ QueryKey \in Keys /\ TextKey \in Keys
      /\ FssKeys \subseteq Keys /\ HouseKeys \subseteq Keys /\ CostsKeys \subseteq Keys
  BY DEF Keys
<1>3. \A fs \in {0, 1}, f \in Fss : FssKey(fs, f) \in FssKeys
  BY KeyFacts
<1>4. CASE AddQuery(b)
  <2>1. /\ PutValue(b, QueryKey, qrow[b]) /\ qrow[b] # NoTuple
    BY <1>2, <1>4, AddQueryPuts, NotAbsent
  <2>2. pc[b] = "addq" /\ pc'[b] = "addt"
    BY <1>1, <1>4 DEF AddQuery, Goto, TypeOK
  <2>3. \A j : Seen(b, j)' <=> Seen(b, j) \/ j = QueryKey
    BY <2>1, PutSeen
  <2>4. DataBy(b, QueryKey)' # NoTuple
    BY <2>1 DEF PutValue
  <2>5. \A fs \in {0, 1}, f \in Fss : Seen(b, FssKey(fs, f))' => Seen(b, HouseKey(fs, f))'
    BY <1>1, <1>3, <2>3, KeysDiffer DEF SeenLocal
  <2>6. SeenLocal(b)'
    BY <2>2, <2>4, <2>5 DEF SeenLocal
  <2> QED  BY <1>1, <2>1, <2>6, SeenAssemble
<1>5. CASE AddQueryText(b)
  <2>1. PICK d : PutValue(b, TextKey, d) /\ d # NoTuple
    BY <1>2, <1>5, AddTextPuts, NotAbsent
  <2>2. pc[b] = "addt" /\ pc'[b] = "plan"
    BY <1>1, <1>5 DEF AddQueryText, Goto, TypeOK
  <2>3. \A j : Seen(b, j)' <=> Seen(b, j) \/ j = TextKey
    BY <2>1, PutSeen
  <2>4. Seen(b, QueryKey)' /\ Seen(b, TextKey)'
    BY <1>1, <2>2, <2>3 DEF SeenLocal, Seen
  <2>5. \A fs \in {0, 1}, f \in Fss : Seen(b, FssKey(fs, f))' => Seen(b, HouseKey(fs, f))'
    BY <1>1, <1>3, <2>3, KeysDiffer DEF SeenLocal
  <2>6. SeenLocal(b)'
    BY <2>2, <2>4, <2>5 DEF SeenLocal
  <2> QED  BY <1>1, <2>1, <2>6, SeenAssemble
<1>6. CASE UpdateQuery2(b)
  <2>1. pc[b] = "qwrite" /\ pc'[b] = "plan"
    BY <1>1, <1>6 DEF UpdateQuery2, Goto, TypeOK
  <2>2. CASE Discarded(b)
    <3>1. SameValues
      BY <2>2 DEF Discarded
    <3>2. pc'[b] \notin {"addt", "qscan", "qwrite", "pscan", "pwrite", "hwrite", "fscan", "fwrite"}
      BY <2>1
    <3> QED  BY <1>1, <2>1, <3>1, <3>2, SeenQuiet
  <2>3. CASE ~Discarded(b)
    <3>1. /\ \E d : d # NoTuple /\ PutValue(b, QueryKey, d)
          /\ Seen(b, QueryKey)
      BY <1>2, <1>6, <2>3, UpdateQueryPuts, NotAbsent DEF Seen, Stored
    <3>2. \A fs \in {0, 1}, f \in Fss : QueryKey # FssKey(fs, f)
      BY <1>3, KeysDiffer
    <3>3. pc[b] # "addt" /\ pc'[b] \in {"plan", "learn", "end", "house"}
      BY <2>1
    <3>4. QueryKey # TextKey
      BY KeysDiffer
    <3> QED  BY <1>1, <3>1, <3>2, <3>3, <3>4, SeenWrite
  <2> QED  BY <2>2, <2>3
<1>7. CASE UpdateFssRfwr2(b)
  <2>1. pc[b] = "pwrite" /\ pc'[b] = "plan"
    BY <1>1, <1>7 DEF UpdateFssRfwr2, Goto, TypeOK
  <2>2. PICK k : k = CurrentFss(b)
    OBVIOUS
  <2>3. k \in FssKeys /\ k \notin {QueryKey, TextKey}
    BY <1>7, <2>2, WindowPuts, KeysDiffer
  <2>4. CASE Discarded(b)
    <3>1. SameValues
      BY <2>4 DEF Discarded
    <3> QED  BY <1>1, <2>1, <3>1, SeenQuiet
  <2>5. CASE ~Discarded(b)
    <3>1. (\E d : d # NoTuple /\ PutValue(b, k, d)) /\ Seen(b, k)
      BY <1>2, <1>7, <2>2, <2>3, <2>5, WindowPuts, NotAbsent DEF Seen, Stored
    <3>2. \A fs \in {0, 1}, f \in Fss : k = FssKey(fs, f) => Seen(b, HouseKey(fs, f))
      BY <1>1, <3>1 DEF SeenLocal
    <3> QED  BY <1>1, <2>1, <2>3, <3>1, <3>2, SeenWrite
  <2> QED  BY <2>4, <2>5
<1>8. ASSUME NEW to \in {"house", "fscan"}, UpdateRfDatahouse(b, to) PROVE SeenInv'
  <2>1. /\ pc[b] = "hwrite" /\ pc'[b] = to /\ CurrentHouse(b)' = CurrentHouse(b)
    BY <1>1, <1>8 DEF UpdateRfDatahouse, Goto, TypeOK, CurrentHouse, Locals, Insert, Update
  <2>2. PICK k : k = CurrentHouse(b)
    OBVIOUS
  <2>3. k \in HouseKeys /\ k \notin {QueryKey, TextKey} /\ k \notin FssKeys
    BY <1>8, <2>2, HousePuts, KeysDiffer
  <2>4. \/ SameValues /\ Seen(b, k)
        \/ \E d : d # NoTuple /\ PutValue(b, k, d)
    BY <1>1, <1>2, <1>8, <2>1, <2>2, <2>3, HousePuts, NotAbsent DEF Discarded, SeenLocal
  <2>5. \A j : Seen(b, j)' <=> Seen(b, j) \/ j = k
    BY <2>4, PutSeen DEF SameValues, Seen, Stored
  <2>6. Seen(b, QueryKey)' <=> Seen(b, TextKey)'
    BY <1>1, <2>1, <2>3, <2>5 DEF SeenLocal
  <2>7. \A fs \in {0, 1}, f \in Fss : Seen(b, FssKey(fs, f))' => Seen(b, HouseKey(fs, f))'
    BY <1>1, <1>3, <2>3, <2>5 DEF SeenLocal
  <2>8. SeenLocal(b)'
    BY <2>1, <2>2, <2>5, <2>6, <2>7 DEF SeenLocal
  <2> QED  BY <1>1, <2>4, <2>8, SeenAssemble
<1>9. CASE UpdateFssRfwr(b)
  <2>1. pc[b] = "fwrite" /\ pc'[b] = "learn"
    BY <1>1, <1>9 DEF UpdateFssRfwr, Goto, TypeOK
  <2>2. PICK k, h : k = CurrentFss(b) /\ h = CurrentHouse(b)
    OBVIOUS
  <2>3. k \in FssKeys /\ k \notin {QueryKey, TextKey}
    BY <1>9, <2>2, ModelPuts, KeysDiffer
  <2>4. SameValues \/ \E d : d # NoTuple /\ PutValue(b, k, d)
    BY <1>2, <1>9, <2>2, <2>3, ModelPuts, NotAbsent DEF Discarded
  <2>5. ctx[b].fspace \in {0, 1} /\ fss[b] \in Fss
    BY <1>1, <2>1 DEF LocalInv, FssPcs, TypeOK, Contexts
  <2>6. h \in HouseKeys /\ Seen(b, h)
    BY <1>1, <2>1, <2>2, <2>5 DEF SeenLocal, CurrentHouse, HouseKeys
  <2>7. \A fs \in {0, 1}, f \in Fss : k = FssKey(fs, f) => Seen(b, HouseKey(fs, f))
    <3>1. PICK gs \in {0, 1}, g \in Fss : k = FssKey(gs, g) /\ h = HouseKey(gs, g)
      BY <2>2, <2>5 DEF CurrentFss, CurrentHouse
    <3>2. ASSUME NEW fs \in {0, 1}, NEW f \in Fss, k = FssKey(fs, f) PROVE h = HouseKey(fs, f)
      <4>1. FssKey(gs, g) = FssKey(fs, f)
        BY <3>1, <3>2
      <4> QED  BY <3>1, <4>1, KeysDiffer
    <3> QED  BY <2>6, <3>2
  <2> QED  BY <1>1, <2>1, <2>3, <2>4, <2>7, SeenWrite
<1>10. CASE UpdateBestTwoCosts(b)
  <2>1. pc[b] = "cwrite" /\ pc'[b] = "end"
    BY <1>1, <1>10 DEF UpdateBestTwoCosts, Goto, TypeOK
  <2>2. PICK k : k = CurrentCosts(b)
    OBVIOUS
  <2>3. k \in CostsKeys /\ k \notin {QueryKey, TextKey} /\ k \notin FssKeys
    BY <1>10, <2>2, CostsPuts, KeysDiffer
  <2>4. SameValues \/ \E d : d # NoTuple /\ PutValue(b, k, d)
    BY <1>2, <1>10, <2>2, <2>3, CostsPuts, NotAbsent DEF Discarded
  <2>5. \A fs \in {0, 1}, f \in Fss : k # FssKey(fs, f)
    BY <1>3, <2>3
  <2> QED  BY <1>1, <2>1, <2>3, <2>4, <2>5, SeenWrite
<1> QED  BY <1>4, <1>5, <1>6, <1>7, <1>8, <1>9, <1>10 DEF Write

(* The end of a transaction: a commit leaves the rows that were there for  *)
(* the backend, an abort those that were there before.                     *)
LEMMA SeenEnd ==
  ASSUME IndInv, SeenInv, NEW b \in Backends, Commit(b) \/ Rollback(b)
  PROVE  SeenInv'
<1>1. TypeOK /\ SeenLocal(b) /\ OthersKeep(b)
  BY OthersStay DEF IndInv, SeenInv
<1>2. CASE Commit(b)
  <2>1. CommitValues(b) /\ pc[b] = "idle" /\ pc' = pc
    BY <1>2, EndValues DEF Commit
  <2>2. \A k : (Stored(k)' <=> Seen(b, k)) /\ (Seen(b, k)' <=> Seen(b, k))
    BY <2>1, XidAssumption DEF CommitValues, Seen, Stored
  <2>3. SeenLocal(b)'
    BY <1>1, <2>1, <2>2 DEF SeenLocal
  <2>4. ASSUME NEW c \in Backends \ {b} PROVE SeenLocal(c)'
    BY <1>1, <2>1, SeenCommit DEF SeenInv, OthersKeep
  <2>5. /\ Stored(QueryKey)' <=> Stored(TextKey)'
        /\ \A fs \in {0, 1}, f \in Fss : Stored(FssKey(fs, f))' => Stored(HouseKey(fs, f))'
    BY <1>1, <2>1, <2>2 DEF SeenLocal
  <2> QED  BY <2>3, <2>4, <2>5 DEF SeenInv
<1>3. CASE Rollback(b)
  <2>1. AbortValues(b) /\ pc'[b] = "idle"
    BY <1>1, <1>3, EndValues DEF Rollback, TypeOK
  <2>2. \A k : Seen(b, k)' <=> Stored(k)
    BY <2>1, XidAssumption DEF AbortValues, Seen, Stored
  <2>3. SeenLocal(b)'
    BY <2>1, <2>2 DEF SeenLocal, SeenInv
  <2> QED  BY <1>1, <2>1, <2>3, SeenAssemble
<1> QED  BY <1>2, <1>3

(* A statement of another session changes a row that is there.             *)
LEMMA SeenSql ==
  ASSUME IndInv, SeenInv, NEW t \in Tids,
         UserFreeze(t) \/ \E v \in Feats : UpdateAqoQueryTable(t, v)
  PROVE  SeenInv'
<1>1. PICK d \in QueryRows : SqlValue(QueryKey, d)
  BY SqlPuts
<1>2. d # NoTuple
  BY KeyFacts, NotAbsent
<1>3. UNCHANGED <<pc, ctx, fss, tid>>
  BY DEF UserFreeze, UpdateAqoQueryTable, SqlUpdateQuery, Locals
<1>4. \A k : Stored(k)' <=> Stored(k)
  BY <1>1, <1>2 DEF SqlValue, Stored
<1>5. ASSUME NEW c \in Backends PROVE SeenLocal(c)'
  <2>1. SameSeen(c)
    BY <1>1, <1>4, XidAssumption DEF SqlValue, SameSeen
  <2> QED  BY <1>3, <2>1, SeenFrame DEF SeenInv
<1> QED  BY <1>4, <1>5 DEF SeenInv

(* No row is there at the start.                                           *)
LEMMA SeenInit == Init => SeenInv
<1> SUFFICES ASSUME Init PROVE SeenInv
  OBVIOUS
<1>1. \A x, k : DataBy(x, k) = NoTuple
  BY DEF Init, DataBy, Live
<1> QED  BY <1>1 DEF Init, SeenInv, SeenLocal, Seen, Stored

(* Every step keeps the rows together that belong together.                *)
LEMMA SeenNext == IndInv /\ SeenInv /\ [Next]_vars => SeenInv'
<1> SUFFICES ASSUME IndInv, SeenInv, [Next]_vars PROVE SeenInv'
  OBVIOUS
<1>1. ASSUME NEW b \in Backends, ScanStep(b) PROVE SeenInv'
  BY <1>1, SeenScan
<1>2. ASSUME NEW b \in Backends, Write(b), ~DuplicateKey(b) PROVE SeenInv'
  BY <1>2, SeenWrites
<1>3. ASSUME NEW b \in Backends,
             \/ Find(b) \/ \E f \in Fss : Predict(b, f) \/ LearnSample(b, f)
             \/ Execute(b) \/ ExplainOnly(b) \/ LoadCosts(b) \/ ExecutorEnd(b)
      PROVE  SeenInv'
  BY <1>3, SeenLook
<1>4. ASSUME NEW b \in Backends, Commit(b) \/ Abort(b) \/ DeadlockAbort(b) \/ DuplicateKey(b)
      PROVE  SeenInv'
  BY <1>4, SeenEnd DEF Abort, DeadlockAbort, DuplicateKey
<1>5. ASSUME NEW t \in Tids, UserFreeze(t) \/ \E v \in Feats : UpdateAqoQueryTable(t, v)
      PROVE  SeenInv'
  BY <1>5, SeenSql
<1>6. CASE UNCHANGED vars
  <2>1. UNCHANGED <<heap, pc, ctx, fss, tid>>
    BY <1>6 DEF vars
  <2>2. SameValues
    BY <2>1, QuietValues
  <2>3. \A k : Stored(k)' <=> Stored(k)
    BY <2>2 DEF SameValues, Stored
  <2>4. ASSUME NEW c \in Backends PROVE SeenLocal(c)'
    BY <2>1, <2>2, <2>3, SeenFrame DEF SeenInv, SameSeen, SameValues
  <2> QED  BY <2>3, <2>4 DEF SeenInv
<1> QED  BY <1>1, <1>2, <1>3, <1>4, <1>5, <1>6 DEF Next

(* Which rows are there together, for any number of backends and rows.     *)
THEOREM SeenAlways == Spec => []SeenInv
<1>1. Init => SeenInv
  BY SeenInit
<1>2. IndInv /\ SeenInv /\ [Next]_vars => SeenInv'
  BY SeenNext
<1> QED  BY <1>1, <1>2, Inductive, PTL DEF Spec

(* Outside of add_query and add_query_text, a backend sees the query if    *)
(* and only if it sees its text, whoever inserted, committed or aborted.   *)
THEOREM TextComesWithQuery == Spec => []TextWithQuery
<1>1. IndInv /\ SeenInv => TextWithQuery
  BY ReadValue DEF IndInv, SeenInv, SeenLocal, TextWithQuery
<1> QED  BY <1>1, Inductive, SeenAlways, PTL

(* The second scan of update_query2 and update_fss_rfwr2 never comes back  *)
(* empty, although neither holds a lock since the first.                   *)
THEOREM SecondScanFinds == Spec => []UpdateNeverMisses
<1>1. SeenInv => UpdateNeverMisses
  BY DEF SeenInv, SeenLocal, UpdateNeverMisses
<1> QED  BY <1>1, SeenAlways, PTL

(* Whoever can load a model can load its data house.                       *)
THEOREM HouseComesWithModel == Spec => []HouseWithModel
<1>1. IndInv /\ SeenInv => HouseWithModel
  BY ReadValue DEF IndInv, SeenInv, SeenLocal, HouseWithModel
<1> QED  BY <1>1, Inductive, SeenAlways, PTL

=============================================================================
