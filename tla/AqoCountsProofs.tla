--------------------------- MODULE AqoCountsProofs ---------------------------
(***************************************************************************)
(* What the storage functions put into the store is right: CountsInv is    *)
(* inductive, given IndInv.                                                *)
(***************************************************************************)
EXTENDS AqoTablesProofs

-----------------------------------------------------------------------------
(* CountsInv: what the rows say.                                           *)

(* aqo_planner's change of the history keeps the columns in agreement.     *)
LEMMA RememberGood ==
  ASSUME NEW r \in QueryRows, GoodRow(r), NEW q \in Templates
  PROVE  /\ GoodRow(Remember(r, q))
         /\ Remember(r, q).total = r.total + 1 /\ Remember(r, q).feat = r.feat
<1> DEFINE n == Remember(r, q)
<1>1. /\ r.hist \in [1 .. HistorySize -> Templates \cup {0}] /\ r.num \in 0 .. HistorySize
      /\ r.total \in Nat /\ HistorySize \in Nat \ {0} /\ q \in Nat \ {0}
  BY StorageAssumption DEF QueryRows
<1>2. n.learn = r.learn /\ n.tune = r.tune /\ n.total = r.total + 1 /\ n.feat = r.feat
  BY DEF Remember, QueryRows
<1>3. CASE r.num < HistorySize
  <2>1. n.num = r.num + 1 /\ n.hist = [r.hist EXCEPT ![r.num + 1] = q]
    BY <1>3 DEF Remember, QueryRows
  <2>2. r.total = r.num
    BY <1>1, <1>3 DEF GoodRow
  <2>3. n.num = IF n.total < HistorySize THEN n.total ELSE HistorySize
    BY <1>1, <1>2, <1>3, <2>1, <2>2
  <2>4. \A i \in 1 .. HistorySize : n.hist[i] = IF i = r.num + 1 THEN q ELSE r.hist[i]
    BY <1>1, <2>1
  <2>5. \A i \in 1 .. HistorySize : n.hist[i] # 0 <=> i <= n.num
    BY <1>1, <2>1, <2>4 DEF GoodRow
  <2> HIDE DEF n
  <2> QED  BY <1>2, <2>3, <2>5 DEF GoodRow, n
<1>4. CASE ~(r.num < HistorySize)
  <2>1. /\ n.num = r.num
        /\ n.hist = [i \in 1 .. HistorySize |-> IF i < r.num THEN r.hist[i + 1] ELSE q]
    BY <1>4 DEF Remember, QueryRows
  <2>2. r.num = HistorySize /\ r.total >= HistorySize
    BY <1>1, <1>4 DEF GoodRow
  <2>3. n.num = IF n.total < HistorySize THEN n.total ELSE HistorySize
    BY <1>1, <1>2, <2>1, <2>2
  <2>4. \A i \in 1 .. HistorySize : n.hist[i] = IF i < HistorySize THEN r.hist[i + 1] ELSE q
    BY <2>1, <2>2
  <2>5. \A i \in 1 .. HistorySize : n.hist[i] # 0 <=> i <= n.num
    BY <1>1, <2>1, <2>2, <2>4 DEF GoodRow
  <2> HIDE DEF n
  <2> QED  BY <1>2, <2>3, <2>5 DEF GoodRow, n
<1> QED  BY <1>2, <1>3, <1>4

NewRow(u) == [BlankRow EXCEPT !.learn = TRUE, !.use = u, !.tune = TRUE]

(* The rows the planner starts from.                                       *)
LEMMA BlankGood ==
  /\ GoodRow(BlankRow)
  /\ \A u \in BOOLEAN : /\ NewRow(u) \in QueryRows /\ GoodRow(NewRow(u))
                        /\ NewRow(u).total = 0 /\ NewRow(u).feat = 0
<1>1. HistorySize \in Nat \ {0}
  BY StorageAssumption
<1>2. GoodRow(BlankRow)
  BY <1>1 DEF GoodRow, BlankRow
<1>3. ASSUME NEW u \in BOOLEAN
      PROVE  /\ NewRow(u) \in QueryRows /\ GoodRow(NewRow(u))
             /\ NewRow(u).total = 0 /\ NewRow(u).feat = 0
  <2>1. NewRow(u) \in QueryRows
    BY BlankFacts DEF BlankRow, QueryRows, NewRow
  <2>2. /\ NewRow(u).learn = TRUE /\ NewRow(u).tune = TRUE /\ NewRow(u).num = 0
        /\ NewRow(u).total = 0 /\ NewRow(u).feat = 0
        /\ NewRow(u).hist = [i \in 1 .. HistorySize |-> 0]
    BY DEF BlankRow, NewRow
  <2>3. GoodRow(NewRow(u))
    BY <1>1, <2>2 DEF GoodRow
  <2> QED  BY <2>1, <2>2, <2>3
<1> QED  BY <1>2, <1>3

(* A sample counts once.                                                   *)
LEMMA SampleCounts ==
  ASSUME NEW m \in FssRows, NEW q \in Templates PROVE LwprUpdate(m, q).n = m.n + 1
<1>1. Slide(m, q) \in FssRows /\ Slide(m, q).n = m.n
  BY SlideType DEF Slide, FssRows
<1>2. \A l \in FssRows : [l EXCEPT !.n = @ + 1].n = l.n + 1
  BY DEF FssRows
<1> QED  BY <1>1, <1>2 DEF LwprUpdate

(* The columns of the stored values are numbers ...                        *)
NumberedValues ==
  TypeOK /\ HeapInv =>
    \A x : /\ DataBy(x, QueryKey) # NoTuple => DataBy(x, QueryKey).total \in Nat
          /\ \A k \in FssKeys : DataBy(x, k) # NoTuple => DataBy(x, k).n \in Nat

(* It is so in every state of the inductive invariant.                     *)
LEMMA ValueNumbers == NumberedValues
<1> SUFFICES ASSUME TypeOK, HeapInv, NEW x
             PROVE  /\ DataBy(x, QueryKey) # NoTuple => DataBy(x, QueryKey).total \in Nat
                    /\ \A k \in FssKeys : DataBy(x, k) # NoTuple => DataBy(x, k).n \in Nat
  BY DEF NumberedValues
<1>1. \A k \in FssKeys : RowsOf(k) = FssRows
  BY KeyFacts DEF FssKeys
<1>2. DataBy(x, QueryKey) # NoTuple => DataBy(x, QueryKey) \in QueryRows
  BY ValueType, KeyFacts
<1>3. \A k \in FssKeys : DataBy(x, k) # NoTuple => DataBy(x, k) \in FssRows
  BY <1>1, ValueType
<1>4. \A r \in QueryRows : r.total \in Nat
  BY DEF QueryRows
<1>5. \A r \in FssRows : r.n \in Nat
  BY DEF FssRows
<1> QED  BY <1>2, <1>3, <1>4, <1>5

(* ... also after a step.                                                  *)
LEMMA ValueNumbersNext ==
  ASSUME TypeOK', HeapInv'
  PROVE  \A x : /\ DataBy(x, QueryKey)' # NoTuple => DataBy(x, QueryKey)'.total \in Nat
               /\ \A k \in FssKeys : DataBy(x, k)' # NoTuple => DataBy(x, k)'.n \in Nat
<1>1. NumberedValues'
  BY ValueNumbers, PTL
<1> QED  BY <1>1 DEF NumberedValues

(* What a backend has counted stays within bounds that only grow.          *)
LEMMA CountsFrame ==
  ASSUME TypeOK, TypeOK', NEW c \in Backends, CountsLocal(c),
         pc'[c] = pc[c], ctx'[c] = ctx[c], qrow'[c] = qrow[c], fss'[c] = fss[c],
         model'[c] = model[c], own'[c] = own[c], learned'[c] = learned[c],
         done' >= done, \A k \in FssKeys : samples'[k] >= samples[k]
  PROVE  CountsLocal(c)'
<1>1. CurrentFss(c)' = CurrentFss(c) /\ (InLearnStep(c)' <=> InLearnStep(c))
  BY DEF CurrentFss, InLearnStep
<1>2. /\ qrow[c].total \in Nat /\ model[c].n \in Nat
      /\ done \in Nat /\ done' \in Nat /\ own[c] \in Nat
      /\ \A k \in FssKeys : samples[k] \in Nat /\ samples'[k] \in Nat /\ learned[c][k] \in Nat
  BY DEF TypeOK, QueryRows, FssRows
<1>3. QueriesOf(c) = done + own[c] /\ QueriesOf(c)' = done' + own[c]
  BY XidAssumption DEF QueriesOf
<1>4. \A k \in FssKeys : /\ SamplesOf(c, k) = samples[k] + learned[c][k]
                         /\ SamplesOf(c, k)' = samples'[k] + learned[c][k]
  BY XidAssumption DEF SamplesOf
<1>5. (pc[c] \in {"addq", "qscan", "qwrite"} => qrow[c].total <= QueriesOf(c))'
  BY <1>2, <1>3 DEF CountsLocal
<1>6. (\A k \in FssKeys : InLearnStep(c) /\ CurrentFss(c) = k => model[c].n <= SamplesOf(c, k))'
  BY <1>1, <1>2, <1>4 DEF CountsLocal
<1>7. (GoodRow(qrow[c]) /\ (pc[c] = "addq" => qrow[c].feat = 0))'
  BY DEF CountsLocal, GoodRow
<1> QED  BY <1>5, <1>6, <1>7 DEF CountsLocal

(* A value of row k that backend b may put.                                *)
GoodPut(b, k, d) ==
  /\ k = QueryKey => GoodRow(d) /\ d.feat = feat /\ d.total <= QueriesOf(b)
  /\ k \in FssKeys => d.n <= SamplesOf(b, k)

(* The step of one backend, within its transaction: what remains to be     *)
(* shown is that it puts a good value, and what it then knows.             *)
LEMMA CountsAssemble ==
  ASSUME IndInv, IndInv', CountsInv, NEW b \in Backends, OthersKeep(b),
         UNCHANGED <<done, samples, feat>>, own'[b] >= own[b],
         \A k \in FssKeys : learned'[b][k] >= learned[b][k],
         CountsLocal(b)',
         SameValues \/ \E k, d : d # NoTuple /\ PutValue(b, k, d) /\ GoodPut(b, k, d)
  PROVE  CountsInv'
<1>1. TypeOK /\ HeapInv /\ TypeOK' /\ HeapInv'
  BY DEF IndInv
<1>2. ASSUME NEW c \in Backends \ {b} PROVE CountsLocal(c)'
  <2>1. done' >= done /\ \A k \in FssKeys : samples'[k] >= samples[k]
    BY <1>1 DEF TypeOK
  <2> QED  BY <1>1, <2>1, CountsFrame DEF OthersKeep, CountsInv
<1>3. /\ done \in Nat /\ \A c \in Backends : own[c] \in Nat /\ own'[c] \in Nat
      /\ \A k \in FssKeys :
           samples[k] \in Nat /\ \A c \in Backends : learned[c][k] \in Nat /\ learned'[c][k] \in Nat
  BY <1>1 DEF TypeOK
<1>4. ASSUME NEW x \in Writers
      PROVE  /\ QueriesOf(x) \in Nat /\ QueriesOf(x)' \in Nat /\ QueriesOf(x) <= QueriesOf(x)'
             /\ \A k \in FssKeys : /\ SamplesOf(x, k) \in Nat /\ SamplesOf(x, k)' \in Nat
                                    /\ SamplesOf(x, k) <= SamplesOf(x, k)'
  <2>1. x # Committed => own'[x] >= own[x] /\ \A k \in FssKeys : learned'[x][k] >= learned[x][k]
    BY <1>3 DEF OthersKeep, Writers
  <2>2. QueriesOf(x) \in Nat /\ QueriesOf(x)' \in Nat /\ QueriesOf(x) <= QueriesOf(x)'
    BY <1>3, <2>1 DEF QueriesOf, Writers
  <2>3. ASSUME NEW k \in FssKeys
        PROVE  /\ SamplesOf(x, k) \in Nat /\ SamplesOf(x, k)' \in Nat
               /\ SamplesOf(x, k) <= SamplesOf(x, k)'
    BY <1>3, <2>1 DEF SamplesOf, Writers
  <2> QED  BY <2>2, <2>3
<1>5. ASSUME NEW x \in Writers PROVE GoodQuery(x)'
  <2> SUFFICES ASSUME DataBy(x, QueryKey)' # NoTuple
               PROVE  /\ GoodRow(DataBy(x, QueryKey)') /\ DataBy(x, QueryKey)'.feat = feat
                      /\ DataBy(x, QueryKey)'.total <= QueriesOf(x)'
    BY DEF GoodQuery, GoodRow
  <2>1. PICK r : r = DataBy(x, QueryKey)'
    OBVIOUS
  <2>2. GoodRow(r) /\ r.feat = feat /\ r.total <= QueriesOf(x)
    BY <2>1 DEF SameValues, PutValue, GoodPut, CountsInv, GoodQuery, Writers
  <2>3. r.total \in Nat
    <3>1. (DataBy(x, QueryKey) # NoTuple => DataBy(x, QueryKey).total \in Nat)'
      BY <1>1, ValueNumbersNext
    <3> QED  BY <2>1, <3>1
  <2> QED  BY <1>4, <2>1, <2>2, <2>3
<1>6. ASSUME NEW x \in Writers PROVE GoodModels(x)'
  <2> SUFFICES ASSUME NEW k \in FssKeys, DataBy(x, k)' # NoTuple
               PROVE  DataBy(x, k)'.n <= SamplesOf(x, k)'
    BY DEF GoodModels
  <2>1. PICK r : r = DataBy(x, k)'
    OBVIOUS
  <2>2. r.n <= SamplesOf(x, k)
    BY <2>1 DEF SameValues, PutValue, GoodPut, CountsInv, GoodModels, Writers
  <2>3. r.n \in Nat
    BY <1>1, <2>1, ValueNumbersNext
  <2> QED  BY <1>4, <2>1, <2>2, <2>3
<1>7. feat' # 0 => Stored(QueryKey)'
  BY XidAssumption DEF CountsInv, Stored, SameValues, PutValue
<1> QED  BY <1>2, <1>5, <1>6, <1>7 DEF CountsInv, Writers

(* aqo_planner: what it found, and counted once more, is what it writes.   *)
LEMMA CountsFind ==
  ASSUME IndInv, IndInv', CountsInv, NEW b \in Backends, Find(b)
  PROVE  CountsInv'
<1>1. TypeOK /\ HeapInv /\ CountsLocal(b) /\ OthersKeep(b)
  BY OthersStay DEF IndInv, CountsInv
<1>2. PICK m \in Modes, q \in Templates : FindStored(b, m, q) \/ FindUnknown(b, m, q)
  BY DEF Find
<1>3. /\ own' = [own EXCEPT ![b] = @ + 1]
      /\ UNCHANGED <<heap, fss, model, done, learned, samples, feat>>
  BY <1>2 DEF FindStored, FindUnknown, StartQuery
<1>4. /\ own[b] \in Nat /\ done \in Nat /\ own'[b] = own[b] + 1
      /\ \A k \in FssKeys : learned'[b][k] = learned[b][k] /\ learned[b][k] \in Nat
  BY <1>1, <1>3 DEF TypeOK
<1>5. SameValues
  BY <1>3, QuietValues
<1>6. /\ QueriesOf(b) = done + own[b] /\ QueriesOf(b)' = done + own[b] + 1
      /\ QueriesOf(Committed) = done
  BY <1>1, <1>3, <1>4, XidAssumption DEF QueriesOf
<1>7. /\ GoodRow(qrow'[b])
      /\ pc'[b] = "addq" => qrow'[b].feat = 0
      /\ pc'[b] \in {"addq", "qscan", "qwrite"} => qrow'[b].total <= QueriesOf(b)'
      /\ pc'[b] \in {"addq", "qscan", "plan"}
  <2>1. CASE FindStored(b, m, q)
    <3>1. /\ pc'[b] = "qscan" /\ qrow'[b] = Remember(Read(b, QueryKey), q)
          /\ Found(b, QueryKey)
      BY <1>1, <2>1 DEF FindStored, Goto, TypeOK
    <3>2. PICK x \in {b, Committed} :
            DataBy(x, QueryKey) # NoTuple /\ Read(b, QueryKey) = DataBy(x, QueryKey)
      BY <1>1, <3>1, ReadValue
    <3>3. PICK r : r = DataBy(x, QueryKey)
      OBVIOUS
    <3>4. GoodRow(r) /\ r.total <= QueriesOf(x)
      BY <3>2, <3>3 DEF CountsInv, GoodQuery
    <3>5. r \in QueryRows
      BY <1>1, <3>2, <3>3, ValueType, KeyFacts
    <3>6. r.total \in Nat
      BY <3>5 DEF QueryRows
    <3>7. GoodRow(Remember(r, q)) /\ Remember(r, q).total = r.total + 1
      BY <3>4, <3>5, RememberGood
    <3>8. r.total + 1 <= QueriesOf(b)'
      BY <1>4, <1>6, <3>4, <3>6
    <3> QED  BY <3>1, <3>2, <3>3, <3>7, <3>8
  <2>2. CASE FindUnknown(b, m, q)
    <3>1. \/ pc'[b] = "plan" /\ qrow'[b] = qrow[b]
          \/ pc'[b] = "addq" /\ qrow'[b] = Remember(NewRow(m = "learn"), q)
      BY <1>1, <2>2 DEF FindUnknown, Goto, TypeOK, NewRow
    <3>2. CASE pc'[b] = "plan" /\ qrow'[b] = qrow[b]
      BY <1>1, <3>2 DEF CountsLocal
    <3>3. CASE pc'[b] = "addq" /\ qrow'[b] = Remember(NewRow(m = "learn"), q)
      <4>1. PICK r \in QueryRows : /\ r = NewRow(m = "learn") /\ GoodRow(r)
                                   /\ r.total = 0 /\ r.feat = 0
        BY BlankGood
      <4>2. /\ GoodRow(Remember(r, q))
            /\ Remember(r, q).total = 1 /\ Remember(r, q).feat = 0
        BY <4>1, RememberGood
      <4>3. 1 <= QueriesOf(b)'
        BY <1>4, <1>6
      <4> QED  BY <3>3, <4>1, <4>2, <4>3
    <3> QED  BY <3>1, <3>2, <3>3
  <2> QED  BY <1>2, <2>1, <2>2
<1>8. CountsLocal(b)'
  <2>1. GoodRow(qrow[b])'
    BY <1>7 DEF GoodRow
  <2>2. ~InLearnStep(b)'
    BY <1>7 DEF InLearnStep
  <2> QED  BY <1>7, <2>1, <2>2 DEF CountsLocal
<1>9. own'[b] >= own[b] /\ \A k \in FssKeys : learned'[b][k] >= learned[b][k]
  BY <1>4
<1> QED  BY <1>1, <1>3, <1>5, <1>8, <1>9, CountsAssemble

(* A sample that is being learned is one more than the loaded model had.   *)
LEMMA CountsLearn ==
  ASSUME IndInv, IndInv', CountsInv, NEW b \in Backends, NEW f \in Fss, LearnSample(b, f)
  PROVE  CountsInv'
<1>1. TypeOK /\ HeapInv /\ LocalInv(b) /\ CountsLocal(b) /\ OthersKeep(b)
  BY OthersStay DEF IndInv, CountsInv
<1>2. PICK k : k = FssKey(ctx[b].fspace, f)
  OBVIOUS
<1>3. k \in FssKeys /\ Load(b, k) \in FssRows /\ ctx[b].fspace \in {0, 1}
  BY <1>1, <1>2, KeyFacts, LoadType DEF TypeOK, Contexts
<1>4. /\ pc[b] = "learn" /\ pc'[b] \in {"house", "fscan"} /\ CurrentFss(b)' = k
      /\ model'[b] = LwprUpdate(Load(b, k), ctx[b].tmpl)
      /\ learned' = [learned EXCEPT ![b][k] = @ + 1]
      /\ UNCHANGED <<heap, qrow, own, done, samples, feat>>
  BY <1>1, <1>2 DEF LearnSample, Goto, TypeOK, CurrentFss
<1>5. /\ \A j \in FssKeys : /\ learned[b][j] \in Nat /\ samples[j] \in Nat
                             /\ learned'[b][j] = IF j = k THEN learned[b][j] + 1 ELSE learned[b][j]
      /\ own[b] \in Nat
  BY <1>1, <1>3, <1>4 DEF TypeOK
<1>6. SameValues
  BY <1>4, QuietValues
<1>7. model'[b].n = Load(b, k).n + 1
  BY <1>1, <1>3, <1>4, SampleCounts DEF LocalInv
<1>8. Load(b, k).n <= samples[k] + learned[b][k] /\ Load(b, k).n \in Nat
  <2>1. Load(b, k).n \in Nat
    BY <1>3 DEF FssRows
  <2>2. CASE ~Found(b, k)
    BY <1>3, <1>5, <2>2 DEF Load, NewModel
  <2>3. CASE Found(b, k)
    <3>1. PICK x \in {b, Committed} : DataBy(x, k) # NoTuple /\ Load(b, k) = DataBy(x, k)
      BY <1>1, <2>3, ReadValue DEF Load
    <3>2. Load(b, k).n <= SamplesOf(x, k)
      BY <1>3, <3>1 DEF CountsInv, GoodModels
    <3>3. SamplesOf(x, k) <= samples[k] + learned[b][k] /\ SamplesOf(x, k) \in Nat
      BY <1>3, <1>5 DEF SamplesOf
    <3> QED  BY <1>3, <1>5, <2>1, <3>2, <3>3
  <2> QED  BY <2>1, <2>2, <2>3
<1>9. SamplesOf(b, k)' = samples[k] + learned[b][k] + 1
  BY <1>3, <1>4, <1>5, XidAssumption DEF SamplesOf
<1>10. model'[b].n <= SamplesOf(b, k)'
  BY <1>3, <1>5, <1>7, <1>8, <1>9
<1>11. CountsLocal(b)'
  <2>1. GoodRow(qrow[b])'
    BY <1>1, <1>4 DEF CountsLocal, GoodRow
  <2>2. \A j \in FssKeys : CurrentFss(b)' = j => model'[b].n <= SamplesOf(b, j)'
    BY <1>4, <1>10
  <2> QED  BY <1>4, <2>1, <2>2 DEF CountsLocal
<1>12. own'[b] >= own[b] /\ \A j \in FssKeys : learned'[b][j] >= learned[b][j]
  BY <1>4, <1>5
<1> QED  BY <1>1, <1>4, <1>6, <1>11, <1>12, CountsAssemble

(* The scans, the loads and the phases of a query count nothing.           *)
LEMMA CountsQuiet ==
  ASSUME IndInv, IndInv', CountsInv, NEW b \in Backends,
         \/ ScanStep(b) \/ \E f \in Fss : Predict(b, f)
         \/ Execute(b) \/ ExplainOnly(b) \/ LoadCosts(b) \/ ExecutorEnd(b)
  PROVE  CountsInv'
<1>1. TypeOK /\ CountsLocal(b) /\ OthersKeep(b)
  BY OthersStay DEF IndInv, CountsInv
<1>2. UNCHANGED <<heap, qrow, own, done, learned, samples, feat>>
  BY DEF ScanStep, ScanQuery, ScanWindow, LoadHouse, ScanHouse, ScanFss, ScanCosts,
         Scan, LoadMatrix, Predict, Execute, ExplainOnly, LoadCosts, ExecutorEnd, EndQuery,
         Locals, ghost
<1>3. /\ pc'[b] \notin {"addq", "qscan"} /\ (pc'[b] = "qwrite" => pc[b] = "qscan")
      /\ InLearnStep(b)' =>
           InLearnStep(b) /\ CurrentFss(b)' = CurrentFss(b) /\ model'[b] = model[b]
  <2> USE <1>1 DEF TypeOK, Goto, InLearnStep, CurrentFss, Locals
  <2>1. CASE ScanStep(b)
    BY <2>1 DEF ScanStep, ScanQuery, ScanWindow, LoadHouse, ScanHouse, ScanFss, ScanCosts,
                Scan, LoadMatrix
  <2>2. CASE \E f \in Fss : Predict(b, f)
    BY <2>2 DEF Predict
  <2>3. CASE Execute(b) \/ ExplainOnly(b) \/ LoadCosts(b) \/ ExecutorEnd(b)
    BY <2>3 DEF Execute, ExplainOnly, LoadCosts, LoadMatrix, ExecutorEnd, EndQuery
  <2> QED  BY <2>1, <2>2, <2>3
<1>4. SameValues
  BY <1>2, QuietValues
<1>5. CountsLocal(b)'
  <2>1. QueriesOf(b)' = QueriesOf(b) /\ \A k : SamplesOf(b, k)' = SamplesOf(b, k)
    BY <1>2 DEF QueriesOf, SamplesOf
  <2>2. GoodRow(qrow[b])'
    BY <1>1, <1>2 DEF CountsLocal, GoodRow
  <2> QED  BY <1>1, <1>2, <1>3, <2>1, <2>2 DEF CountsLocal
<1>6. own'[b] >= own[b] /\ \A k \in FssKeys : learned'[b][k] >= learned[b][k]
  BY <1>1, <1>2 DEF TypeOK
<1> QED  BY <1>1, <1>2, <1>4, <1>5, <1>6, CountsAssemble

(* The writes put good values.                                             *)
LEMMA CountsWrites ==
  ASSUME IndInv, IndInv', CountsInv, NEW b \in Backends, Write(b), ~DuplicateKey(b)
  PROVE  CountsInv'
<1>1. TypeOK /\ HeapInv /\ LocalInv(b) /\ CountsLocal(b) /\ OthersKeep(b)
  BY OthersStay DEF IndInv, CountsInv
<1>2. ASSUME NEW d, Insert(b, d) \/ Update(b, d)
      PROVE  UNCHANGED <<ctx, own, done, learned, samples, feat>>
  BY <1>2 DEF Insert, Update, ghost
<1>3. UNCHANGED <<ctx, own, done, learned, samples, feat>>
  <2>1. CASE AddQuery(b) \/ AddQueryText(b) \/ UpdateQuery2(b) \/ UpdateFssRfwr2(b)
    BY <1>2, <2>1 DEF AddQuery, AddQueryText, UpdateQuery2, UpdateFssRfwr2
  <2>2. CASE \/ UpdateRfDatahouse(b, "house") \/ UpdateRfDatahouse(b, "fscan")
             \/ UpdateFssRfwr(b) \/ UpdateBestTwoCosts(b)
    BY <1>2, <2>2 DEF UpdateRfDatahouse, UpdateFssRfwr, UpdateBestTwoCosts
  <2> QED  BY <2>1, <2>2 DEF Write
<1>4. own'[b] >= own[b] /\ \A k \in FssKeys : learned'[b][k] >= learned[b][k]
  BY <1>1, <1>3 DEF TypeOK
<1>5. /\ QueryKey \in Keys /\ TextKey \in Keys
      /\ FssKeys \subseteq Keys /\ HouseKeys \subseteq Keys /\ CostsKeys \subseteq Keys
  BY DEF Keys
<1>6. CountsLocal(b)'
  <2>1. QueriesOf(b)' = QueriesOf(b) /\ \A k : SamplesOf(b, k)' = SamplesOf(b, k)
    BY <1>3 DEF QueriesOf, SamplesOf
  <2>2. CASE ClearLocals(b) /\ pc'[b] \in {"addt", "plan", "learn", "end"}
    <3>1. qrow'[b] = BlankRow
      BY <1>1, <2>2 DEF ClearLocals, TypeOK
    <3>2. GoodRow(qrow[b])'
      BY <3>1, BlankGood DEF GoodRow
    <3> QED  BY <2>2, <3>2 DEF CountsLocal, InLearnStep
  <2>3. CASE /\ UNCHANGED Locals
             /\ pc'[b] = "plan" \/ (pc[b] = "hwrite" /\ pc'[b] \in {"house", "fscan"})
    <3>1. GoodRow(qrow[b])'
      BY <1>1, <2>3 DEF CountsLocal, GoodRow, Locals
    <3>2. CurrentFss(b)' = CurrentFss(b) /\ model'[b] = model[b]
      BY <1>3, <2>3 DEF CurrentFss, Locals
    <3> QED  BY <1>1, <2>1, <2>3, <3>1, <3>2 DEF CountsLocal, InLearnStep
  <2>4. CASE AddQuery(b) \/ AddQueryText(b) \/ UpdateQuery2(b) \/ UpdateFssRfwr2(b)
    BY <1>1, <2>2, <2>3, <2>4 DEF AddQuery, AddQueryText, UpdateQuery2, UpdateFssRfwr2, Goto, TypeOK
  <2>5. CASE \/ UpdateRfDatahouse(b, "house") \/ UpdateRfDatahouse(b, "fscan")
             \/ UpdateFssRfwr(b) \/ UpdateBestTwoCosts(b)
    BY <1>1, <2>2, <2>3, <2>5 DEF UpdateRfDatahouse, UpdateFssRfwr, UpdateBestTwoCosts, Goto, TypeOK
  <2> QED  BY <2>4, <2>5 DEF Write
<1>7. SUFFICES SameValues \/ \E k, d : d # NoTuple /\ PutValue(b, k, d) /\ GoodPut(b, k, d)
  BY <1>1, <1>3, <1>4, <1>6, CountsAssemble
<1>8. CASE AddQuery(b)
  <2>1. /\ PutValue(b, QueryKey, qrow[b]) /\ qrow[b] # NoTuple
        /\ DataBy(Committed, QueryKey) = NoTuple
    BY <1>5, <1>8, AddQueryPuts, NotAbsent
  <2>2. pc[b] = "addq" /\ feat = 0
    BY <1>8, <2>1 DEF AddQuery, Goto, CountsInv, Stored
  <2>3. GoodPut(b, QueryKey, qrow[b])
    BY <1>1, <2>2, KeysDiffer DEF GoodPut, CountsLocal
  <2> QED  BY <2>1, <2>3
<1>9. CASE AddQueryText(b)
  <2>1. PICK d : PutValue(b, TextKey, d) /\ d # NoTuple
    BY <1>5, <1>9, AddTextPuts, NotAbsent
  <2>2. GoodPut(b, TextKey, d)
    BY KeysDiffer DEF GoodPut
  <2> QED  BY <2>1, <2>2
<1>10. CASE UpdateQuery2(b)
  <2>1. pc[b] = "qwrite" /\ qrow[b] \in QueryRows
    BY <1>1, <1>10 DEF UpdateQuery2, Goto, TypeOK
  <2>2. CASE ~Discarded(b)
    <3>1. PICK x \in {b, Committed} :
            /\ DataBy(x, QueryKey) # NoTuple
            /\ [qrow[b] EXCEPT !.feat = DataBy(x, QueryKey).feat] \in RowsOf(QueryKey)
            /\ PutValue(b, QueryKey, [qrow[b] EXCEPT !.feat = DataBy(x, QueryKey).feat])
      BY <1>10, <2>2, UpdateQueryPuts
    <3>2. DataBy(x, QueryKey).feat = feat
      BY <3>1 DEF CountsInv, GoodQuery
    <3>3. PICK d : d = [qrow[b] EXCEPT !.feat = DataBy(x, QueryKey).feat]
      OBVIOUS
    <3>4. /\ d.learn = qrow[b].learn /\ d.tune = qrow[b].tune /\ d.num = qrow[b].num
          /\ d.total = qrow[b].total /\ d.hist = qrow[b].hist /\ d.feat = feat
      BY <2>1, <3>2, <3>3 DEF QueryRows
    <3>5. GoodRow(d)
      BY <1>1, <3>4 DEF CountsLocal, GoodRow
    <3>6. GoodPut(b, QueryKey, d)
      BY <1>1, <2>1, <3>4, <3>5, KeysDiffer DEF GoodPut, CountsLocal
    <3> QED  BY <1>5, <3>1, <3>3, <3>6, NotAbsent
  <2> QED  BY <2>2 DEF Discarded
<1>11. CASE UpdateFssRfwr2(b)
  <2>1. PICK k : k = CurrentFss(b)
    OBVIOUS
  <2>2. CASE ~Discarded(b)
    <3>1. k \in FssKeys
      BY <1>11, <2>1, WindowPuts
    <3>2. PICK x \in {b, Committed}, d \in RowsOf(k) :
            DataBy(x, k) # NoTuple /\ d.n = DataBy(x, k).n /\ PutValue(b, k, d)
      BY <1>11, <2>1, <2>2, WindowPuts
    <3>3. d.n <= SamplesOf(x, k) /\ d.n \in Nat
      BY <1>1, <3>1, <3>2, ValueNumbers DEF CountsInv, GoodModels, NumberedValues
    <3>4. SamplesOf(x, k) \in Nat /\ SamplesOf(b, k) \in Nat /\ SamplesOf(x, k) <= SamplesOf(b, k)
      BY <1>1, <3>1 DEF SamplesOf, TypeOK
    <3>5. d.n <= SamplesOf(b, k)
      BY <3>3, <3>4
    <3>6. GoodPut(b, k, d)
      BY <3>1, <3>5, KeysDiffer DEF GoodPut
    <3> QED  BY <1>5, <3>1, <3>2, <3>6, NotAbsent
  <2> QED  BY <2>2 DEF Discarded
<1>12. ASSUME NEW to, UpdateRfDatahouse(b, to)
       PROVE  SameValues \/ \E k, d : d # NoTuple /\ PutValue(b, k, d) /\ GoodPut(b, k, d)
  <2>1. PICK k : k = CurrentHouse(b)
    OBVIOUS
  <2>2. k \in HouseKeys /\ (Discarded(b) \/ \E d \in RowsOf(k) : PutValue(b, k, d))
    BY <1>12, <2>1, HousePuts
  <2>3. \A d : GoodPut(b, k, d)
    BY <2>2, KeysDiffer DEF GoodPut
  <2> QED  BY <1>5, <2>2, <2>3, NotAbsent DEF Discarded
<1>13. CASE UpdateFssRfwr(b)
  <2>1. PICK k : k = CurrentFss(b)
    OBVIOUS
  <2>2. k \in FssKeys /\ (Discarded(b) \/ (PutValue(b, k, model[b]) /\ model[b] \in RowsOf(k)))
    BY <1>13, <2>1, ModelPuts
  <2>3. pc[b] = "fwrite"
    BY <1>13 DEF UpdateFssRfwr, Goto
  <2>4. GoodPut(b, k, model[b])
    BY <1>1, <2>1, <2>2, <2>3, KeysDiffer DEF GoodPut, CountsLocal, InLearnStep
  <2> QED  BY <1>5, <2>2, <2>4, NotAbsent DEF Discarded
<1>14. CASE UpdateBestTwoCosts(b)
  <2>1. PICK k : k = CurrentCosts(b)
    OBVIOUS
  <2>2. k \in CostsKeys /\ (Discarded(b) \/ \E d \in RowsOf(k) : PutValue(b, k, d))
    BY <1>14, <2>1, CostsPuts
  <2>3. \A d : GoodPut(b, k, d)
    BY <2>2, KeysDiffer DEF GoodPut
  <2> QED  BY <1>5, <2>2, <2>3, NotAbsent DEF Discarded
<1> QED  BY <1>8, <1>9, <1>10, <1>11, <1>12, <1>13, <1>14 DEF Write

(* Of committed versions only the committed queries count.                 *)
LEMMA CommittedQueries == TypeOK => QueriesOf(Committed) = done
BY DEF TypeOK, QueriesOf

(* The end of a transaction: what it counted is committed, or forgotten.   *)
LEMMA CountsEnd ==
  ASSUME IndInv, IndInv', CountsInv, NEW b \in Backends, Commit(b) \/ Rollback(b)
  PROVE  CountsInv'
<1>1. TypeOK /\ HeapInv /\ TypeOK' /\ HeapInv' /\ CountsLocal(b) /\ OthersKeep(b)
  BY OthersStay DEF IndInv, CountsInv
<1>2. /\ \A j \in FssKeys : NothingLearned[j] = 0
      /\ own' = [own EXCEPT ![b] = 0] /\ learned' = [learned EXCEPT ![b] = NothingLearned]
      /\ feat' = feat
  BY DEF Commit, Rollback, NothingLearned
<1>3. /\ done \in Nat /\ done' \in Nat
      /\ \A c \in Backends : own[c] \in Nat /\ own'[c] \in Nat
      /\ \A k \in FssKeys :
           /\ samples[k] \in Nat /\ samples'[k] \in Nat
           /\ \A c \in Backends : learned[c][k] \in Nat /\ learned'[c][k] \in Nat
  BY <1>1 DEF TypeOK
<1>c. Commit(b) => /\ done' = done + own[b]
                   /\ \A k \in FssKeys : samples'[k] = samples[k] + learned[b][k]
  BY DEF Commit
<1>r. Rollback(b) => done' = done /\ samples' = samples
  BY DEF Rollback
<1>4. done' >= done /\ \A k \in FssKeys : samples'[k] >= samples[k]
  <2>1. CASE Commit(b)
    BY <1>3, <1>c, <2>1
  <2>2. CASE Rollback(b)
    BY <1>3, <1>r, <2>2
  <2> QED  BY <2>1, <2>2
<1>5. ASSUME NEW c \in Backends \ {b} PROVE CountsLocal(c)'
  BY <1>1, <1>4, CountsFrame DEF OthersKeep, CountsInv
<1>6. CountsLocal(b)'
  <2>1. pc'[b] = "idle" /\ GoodRow(qrow'[b])
    <3>1. CASE Commit(b)
      BY <1>1, <3>1 DEF Commit, Locals, CountsLocal
    <3>2. CASE Rollback(b)
      BY <1>1, <3>2, BlankGood DEF Rollback, ClearLocals, TypeOK
    <3> QED  BY <3>1, <3>2
  <2>2. GoodRow(qrow[b])'
    BY <2>1 DEF GoodRow
  <2> QED  BY <2>1, <2>2 DEF CountsLocal, InLearnStep
(* Every value there is after the step was there before it, with a writer  *)
(* that could count no more.                                               *)
<1>7. ASSUME NEW x \in Writers, NEW k, DataBy(x, k)' # NoTuple
      PROVE  \E y \in Writers :
               /\ DataBy(x, k)' = DataBy(y, k) /\ DataBy(y, k) # NoTuple
               /\ QueriesOf(y) <= QueriesOf(x)' /\ QueriesOf(y) \in Nat /\ QueriesOf(x)' \in Nat
               /\ k \in FssKeys => /\ SamplesOf(y, k) <= SamplesOf(x, k)'
                                   /\ SamplesOf(y, k) \in Nat /\ SamplesOf(x, k)' \in Nat
  <2>1. \A c \in Backends : c # Committed
    BY XidAssumption
  <2>2. ASSUME NEW y \in Writers, y # Committed => x # Committed, y = x, y # b
        PROVE  /\ QueriesOf(y) <= QueriesOf(x)' /\ QueriesOf(y) \in Nat /\ QueriesOf(x)' \in Nat
               /\ k \in FssKeys => /\ SamplesOf(y, k) <= SamplesOf(x, k)'
                                   /\ SamplesOf(y, k) \in Nat /\ SamplesOf(x, k)' \in Nat
    <3>1. y # Committed => own'[y] = own[y] /\ learned'[y] = learned[y] /\ y \in Backends
      BY <1>1, <2>2 DEF OthersKeep, Writers
    <3>2. QueriesOf(y) <= QueriesOf(x)' /\ QueriesOf(y) \in Nat /\ QueriesOf(x)' \in Nat
      <4>1. CASE y = Committed
        <5>1. done \in Nat /\ done' \in Nat /\ done <= done'
          BY <1>3, <1>4
        <5>2. x = Committed
          BY <2>2, <4>1
        <5>3. QueriesOf(y) = done
          BY <4>1, <5>1 DEF QueriesOf
        <5>4. (QueriesOf(Committed) = done)'
          BY <1>1, CommittedQueries, PTL
        <5> QED  BY <5>1, <5>2, <5>3, <5>4
      <4>2. CASE y # Committed
        BY <1>3, <1>4, <2>2, <3>1, <4>2 DEF QueriesOf
      <4> QED  BY <4>1, <4>2
    <3>3. k \in FssKeys => /\ SamplesOf(y, k) <= SamplesOf(x, k)'
                          /\ SamplesOf(y, k) \in Nat /\ SamplesOf(x, k)' \in Nat
      BY <1>3, <1>4, <2>2, <3>1 DEF SamplesOf
    <3> QED  BY <3>2, <3>3
  <2>3. CASE DataBy(x, k)' = DataBy(x, k) /\ x # b
    BY <1>7, <2>2, <2>3
  <2>4. CASE ~(DataBy(x, k)' = DataBy(x, k) /\ x # b)
    <3>1. Commit(b) /\ x = Committed /\ DataBy(x, k)' = DataBy(b, k)
      BY <1>7, <2>4, EndValues DEF CommitValues, AbortValues
    <3>2. /\ QueriesOf(b) = done + own[b] /\ QueriesOf(x)' = done'
          /\ done' = done + own[b]
      <4>1. done + 0 = done /\ done' + 0 = done'
        BY <1>3
      <4>. QED  BY <1>c, <2>1, <3>1, <4>1 DEF QueriesOf
    <3>3. k \in FssKeys => /\ SamplesOf(b, k) = samples[k] + learned[b][k]
                          /\ SamplesOf(x, k)' = samples'[k]
                          /\ samples'[k] = samples[k] + learned[b][k]
      <4>1. k \in FssKeys => samples'[k] + 0 = samples'[k]
        BY <1>3
      <4>. QED  BY <1>c, <2>1, <3>1, <4>1 DEF SamplesOf
    <3>4. b \in Writers /\ DataBy(b, k) # NoTuple
      BY <1>7, <3>1 DEF Writers
    <3>5. QueriesOf(b) <= QueriesOf(x)' /\ QueriesOf(b) \in Nat /\ QueriesOf(x)' \in Nat
      <4>1. done' \in Nat
        BY <1>3
      <4> QED  BY <3>2, <4>1
    <3>6. k \in FssKeys => /\ SamplesOf(b, k) <= SamplesOf(x, k)'
                          /\ SamplesOf(b, k) \in Nat /\ SamplesOf(x, k)' \in Nat
      <4>1. k \in FssKeys => samples'[k] \in Nat
        BY <1>3
      <4> QED  BY <3>3, <4>1
    <3> QED  BY <3>1, <3>4, <3>5, <3>6, Zenon
  <2> QED  BY <2>3, <2>4
<1>8. ASSUME NEW x \in Writers PROVE GoodQuery(x)' /\ GoodModels(x)'
  <2>1. ASSUME DataBy(x, QueryKey)' # NoTuple
        PROVE  /\ GoodRow(DataBy(x, QueryKey)') /\ DataBy(x, QueryKey)'.feat = feat'
               /\ DataBy(x, QueryKey)'.total <= QueriesOf(x)'
    <3>1. PICK y \in Writers :
            /\ DataBy(x, QueryKey)' = DataBy(y, QueryKey) /\ DataBy(y, QueryKey) # NoTuple
            /\ QueriesOf(y) <= QueriesOf(x)' /\ QueriesOf(y) \in Nat /\ QueriesOf(x)' \in Nat
      BY <1>7, <2>1
    <3>2. /\ GoodRow(DataBy(y, QueryKey)) /\ DataBy(y, QueryKey).feat = feat
          /\ DataBy(y, QueryKey).total <= QueriesOf(y) /\ DataBy(y, QueryKey).total \in Nat
      BY <1>1, <3>1, ValueNumbers DEF CountsInv, GoodQuery, Writers, NumberedValues
    <3> QED  BY <1>2, <3>1, <3>2
  <2>2. ASSUME NEW k \in FssKeys, DataBy(x, k)' # NoTuple
        PROVE  DataBy(x, k)'.n <= SamplesOf(x, k)'
    <3>1. PICK y \in Writers :
            /\ DataBy(x, k)' = DataBy(y, k) /\ DataBy(y, k) # NoTuple
            /\ SamplesOf(y, k) <= SamplesOf(x, k)'
            /\ SamplesOf(y, k) \in Nat /\ SamplesOf(x, k)' \in Nat
      BY <1>7, <2>2
    <3>2. DataBy(y, k).n <= SamplesOf(y, k) /\ DataBy(y, k).n \in Nat
      BY <1>1, <3>1, ValueNumbers DEF CountsInv, GoodModels, Writers, NumberedValues
    <3> QED  BY <3>1, <3>2
  <2>3. GoodQuery(x)'
    BY <2>1 DEF GoodQuery, GoodRow
  <2> QED  BY <2>2, <2>3 DEF GoodModels
<1>9. feat' # 0 => Stored(QueryKey)'
  <2>1. Stored(QueryKey) => Stored(QueryKey)'
    BY EndValues, XidAssumption DEF CommitValues, AbortValues, Stored
  <2> QED  BY <1>2, <2>1 DEF CountsInv
<1> QED  BY <1>5, <1>6, <1>8, <1>9 DEF CountsInv, Writers

(* The statements of other sessions keep the counts, and the driver's      *)
(* sets num_feature in the only value there is.                            *)
LEMMA CountsSql ==
  ASSUME IndInv, IndInv', CountsInv, NEW t \in Tids,
         UserFreeze(t) \/ \E v \in Feats : UpdateAqoQueryTable(t, v)
  PROVE  CountsInv'
<1>1. TypeOK /\ HeapInv /\ TypeOK'
  BY DEF IndInv
<1>2. PICK r \in QueryRows, d \in QueryRows :
        /\ r = DataBy(Committed, QueryKey) /\ SqlValue(QueryKey, d)
        /\ \/ UserFreeze(t) /\ d = [r EXCEPT !.learn = FALSE, !.tune = FALSE]
           \/ \E v \in Feats : UpdateAqoQueryTable(t, v) /\ d = [r EXCEPT !.feat = v]
  BY SqlPuts
<1>3. UNCHANGED <<pc, ctx, qrow, fss, model, own, done, learned, samples>>
  BY DEF UserFreeze, UpdateAqoQueryTable, SqlUpdateQuery, Locals
<1>4. d # NoTuple /\ r # NoTuple
  BY <1>2, KeyFacts, NotAbsent
<1>5. GoodRow(r) /\ r.feat = feat /\ r.total <= QueriesOf(Committed)
  BY <1>2, <1>4 DEF CountsInv, GoodQuery
<1>6. GoodRow(d) /\ d.feat = feat' /\ d.total = r.total
  <2>1. CASE UserFreeze(t) /\ d = [r EXCEPT !.learn = FALSE, !.tune = FALSE]
    <3>1. /\ d.learn = FALSE /\ d.tune = FALSE /\ d.num = r.num /\ d.total = r.total
          /\ d.hist = r.hist /\ d.feat = r.feat
      BY <2>1 DEF QueryRows
    <3> QED  BY <1>5, <2>1, <3>1 DEF GoodRow, UserFreeze
  <2>2. ASSUME NEW v \in Feats, UpdateAqoQueryTable(t, v), d = [r EXCEPT !.feat = v]
        PROVE  GoodRow(d) /\ d.feat = feat' /\ d.total = r.total
    <3>1. /\ d.learn = r.learn /\ d.tune = r.tune /\ d.num = r.num /\ d.total = r.total
          /\ d.hist = r.hist /\ d.feat = v
      BY <2>2 DEF QueryRows
    <3> QED  BY <1>5, <2>2, <3>1 DEF GoodRow, UpdateAqoQueryTable
  <2> QED  BY <1>2, <2>1, <2>2
<1>7. \A x : QueriesOf(x)' = QueriesOf(x) /\ \A k : SamplesOf(x, k)' = SamplesOf(x, k)
  BY <1>3 DEF QueriesOf, SamplesOf
<1>8. ASSUME NEW x \in Writers PROVE GoodQuery(x)' /\ GoodModels(x)'
  <2>1. \A k \in FssKeys : DataBy(x, k)' = DataBy(x, k)
    BY <1>2, KeysDiffer DEF SqlValue
  <2>2. DataBy(x, QueryKey)' = IF x = Committed THEN d ELSE NoTuple
    BY <1>2 DEF SqlValue, Writers
  <2>3. GoodModels(x)'
    BY <1>7, <2>1 DEF CountsInv, GoodModels, Writers
  <2>4. GoodQuery(x)'
    <3>1. DataBy(x, QueryKey)' # NoTuple =>
            /\ GoodRow(DataBy(x, QueryKey)') /\ DataBy(x, QueryKey)'.feat = feat'
            /\ DataBy(x, QueryKey)'.total <= QueriesOf(x)'
      BY <1>5, <1>6, <1>7, <2>2
    <3> QED  BY <3>1 DEF GoodQuery, GoodRow
  <2> QED  BY <2>3, <2>4
<1>9. Stored(QueryKey)'
  BY <1>2, <1>4 DEF SqlValue, Stored
<1>10. ASSUME NEW c \in Backends PROVE CountsLocal(c)'
  <2>1. done' >= done /\ \A k \in FssKeys : samples'[k] >= samples[k]
    BY <1>1, <1>3 DEF TypeOK
  <2> QED  BY <1>1, <1>3, <2>1, CountsFrame DEF CountsInv
<1> QED  BY <1>8, <1>9, <1>10 DEF CountsInv, Writers

(* Nothing is counted and no row is there at the start.                    *)
LEMMA CountsInit == Init => CountsInv
<1> SUFFICES ASSUME Init PROVE CountsInv
  OBVIOUS
<1>1. \A x, k : DataBy(x, k) = NoTuple
  BY DEF Init, DataBy, Live
<1>2. ASSUME NEW b \in Backends PROVE CountsLocal(b)
  BY BlankGood DEF Init, CountsLocal, InLearnStep
<1>3. feat = 0
  BY DEF Init
<1> QED  BY <1>1, <1>2, <1>3 DEF CountsInv, GoodQuery, GoodModels

(* The columns of every version agree, and no version counts more than the *)
(* queries and the samples there were, whatever the steps interleave.      *)
LEMMA CountsNext == IndInv /\ IndInv' /\ CountsInv /\ [Next]_vars => CountsInv'
<1> SUFFICES ASSUME IndInv, IndInv', CountsInv, [Next]_vars PROVE CountsInv'
  OBVIOUS
<1>1. ASSUME NEW b \in Backends,
             \/ ScanStep(b) \/ \E f \in Fss : Predict(b, f)
             \/ Execute(b) \/ ExplainOnly(b) \/ LoadCosts(b) \/ ExecutorEnd(b)
      PROVE  CountsInv'
  BY <1>1, CountsQuiet
<1>2. ASSUME NEW b \in Backends, Write(b), ~DuplicateKey(b) PROVE CountsInv'
  BY <1>2, CountsWrites
<1>3. ASSUME NEW b \in Backends, Find(b) PROVE CountsInv'
  BY <1>3, CountsFind
<1>4. ASSUME NEW b \in Backends, NEW f \in Fss, LearnSample(b, f) PROVE CountsInv'
  BY <1>4, CountsLearn
<1>5. ASSUME NEW b \in Backends, Commit(b) \/ Abort(b) \/ DeadlockAbort(b) \/ DuplicateKey(b)
      PROVE  CountsInv'
  BY <1>5, CountsEnd DEF Abort, DeadlockAbort, DuplicateKey
<1>6. ASSUME NEW t \in Tids, UserFreeze(t) \/ \E v \in Feats : UpdateAqoQueryTable(t, v)
      PROVE  CountsInv'
  BY <1>6, CountsSql
<1>7. CASE UNCHANGED vars
  <2>1. UNCHANGED <<heap, pc, ctx, qrow, fss, model, own, done, learned, samples, feat>>
    BY <1>7 DEF vars, ghost
  <2> TypeOK /\ TypeOK'
    BY DEF IndInv
  <2>2. SameValues
    BY <2>1, QuietValues
  <2>3. ASSUME NEW c \in Backends PROVE CountsLocal(c)'
    <3>1. done' >= done /\ \A k \in FssKeys : samples'[k] >= samples[k]
      BY <2>1 DEF TypeOK
    <3> QED  BY <2>1, <3>1, CountsFrame DEF CountsInv
  <2>4. \A x, k : QueriesOf(x)' = QueriesOf(x) /\ SamplesOf(x, k)' = SamplesOf(x, k)
    BY <2>1 DEF QueriesOf, SamplesOf
  <2>5. ASSUME NEW x \in Writers PROVE GoodQuery(x)' /\ GoodModels(x)'
    <3>1. GoodModels(x)'
      BY <2>2, <2>4 DEF SameValues, CountsInv, GoodModels, Writers
    <3>2. DataBy(x, QueryKey)' # NoTuple =>
            /\ GoodRow(DataBy(x, QueryKey)') /\ DataBy(x, QueryKey)'.feat = feat'
            /\ DataBy(x, QueryKey)'.total <= QueriesOf(x)'
      BY <2>1, <2>2, <2>4 DEF SameValues, CountsInv, GoodQuery, Writers
    <3>3. GoodQuery(x)'
      BY <3>2 DEF GoodQuery, GoodRow
    <3> QED  BY <3>1, <3>3
  <2>6. feat' # 0 => Stored(QueryKey)'
    BY <2>1, <2>2 DEF SameValues, CountsInv, Stored
  <2> QED  BY <2>3, <2>5, <2>6 DEF CountsInv, Writers
<1> QED  BY <1>1, <1>2, <1>3, <1>4, <1>5, <1>6, <1>7 DEF Next

(* What the rows say, for any number of backends, rows and queries.        *)
THEOREM CountsAlways == Spec => []CountsInv
<1>1. Init => CountsInv
  BY CountsInit
<1>2. IndInv /\ IndInv' /\ CountsInv /\ [Next]_vars => CountsInv'
  BY CountsNext
<1> QED  BY <1>1, <1>2, Inductive, PTL DEF Spec

(* The query version in a place is a good row, with its writer's counts.   *)
LEMMA QueryVersion ==
  ASSUME IndInv, CountsInv, NEW t \in Tids, Live(t), heap[t].key = QueryKey
  PROVE  /\ GoodRow(heap[t].data) /\ heap[t].data.feat = feat
         /\ heap[t].data.total <= QueriesOf(heap[t].xmin)
BY VersionValue DEF IndInv, CountsInv, GoodQuery, Writers

(* num_history, total_num and history_query agree in every version of the  *)
(* row, although update_query2 overwrites what others committed.           *)
THEOREM HistoryAgrees == Spec => []HistoryConsistent
<1>1. IndInv /\ CountsInv => HistoryConsistent
  BY QueryVersion DEF HistoryConsistent, GoodRow
<1> QED  BY <1>1, Inductive, CountsAlways, PTL

(* learn_aqo and auto_tuning are never a mixture of two rows.              *)
THEOREM FlagsAgree == Spec => []FlagsMoveTogether
<1>1. IndInv /\ CountsInv => FlagsMoveTogether
  BY QueryVersion DEF FlagsMoveTogether, GoodRow
<1> QED  BY <1>1, Inductive, CountsAlways, PTL

(* No stale num_feature is ever written back by update_query2.             *)
THEOREM DriverKeepsFeatures == Spec => []FeaturesAreTheDrivers
<1>1. IndInv /\ CountsInv => FeaturesAreTheDrivers
  BY QueryVersion DEF FeaturesAreTheDrivers
<1> QED  BY <1>1, Inductive, CountsAlways, PTL

(* total_num never claims a query that aborted or counts one twice.        *)
THEOREM QueriesCountedOnce == Spec => []QueriesNotOvercounted
<1>1. IndInv /\ CountsInv => QueriesNotOvercounted
  BY QueryVersion DEF QueriesNotOvercounted, QueriesOf
<1> QED  BY <1>1, Inductive, CountsAlways, PTL

(* n_data never claims a sample that was rolled back or counts one twice.  *)
THEOREM SamplesCountedOnce == Spec => []SamplesNotOvercounted
<1>1. ASSUME IndInv, CountsInv, NEW t \in Tids, Live(t), heap[t].key \in FssKeys
      PROVE  heap[t].data.n <= SamplesOf(heap[t].xmin, heap[t].key)
  BY <1>1, VersionValue DEF IndInv, CountsInv, GoodModels, Writers
<1>2. IndInv /\ CountsInv => SamplesNotOvercounted
  BY <1>1 DEF SamplesNotOvercounted, SamplesOf
<1> QED  BY <1>2, Inductive, CountsAlways, PTL

=============================================================================
