-------------------------- MODULE AqoStorageProofs --------------------------
(***************************************************************************)
(* IndInv is inductive for AqoStorage, whatever the numbers of backends,   *)
(* templates, feature subspaces and places, and the sizes of the arrays.   *)
(***************************************************************************)
EXTENDS AqoStorage, TLAPS

-----------------------------------------------------------------------------
(* The heap primitives keep HeapInv, for every number of backends, rows    *)
(* and places; and HeapInv is what makes a scan return one version.        *)

(* The facts about a heap of versions of rows K with data D that every     *)
(* lemma below starts from.                                                *)
Typed(K, D) == HeapType(K, D) /\ NoTuple \notin Versions(K, D)

(* A live place holds a row version, with its four fields.                 *)
LEMMA LiveVersion ==
  ASSUME NEW K, NEW D, Typed(K, D), NEW t \in Tids
  PROVE  Live(t) <=> heap[t] \in Versions(K, D)
BY DEF Typed, HeapType, Live

(* An index scan under SnapshotSelf returns at most one version of a row.  *)
LEMMA ScanUnique ==
  ASSUME NEW K, NEW D, Typed(K, D), HeapInv, NEW b \in Backends, NEW k,
         NEW s \in SelfScan(b, k), NEW t \in SelfScan(b, k)
  PROVE  s = t
<1>1. /\ s \in Tids /\ Live(s) /\ heap[s].key = k
      /\ heap[s].xmin \in {b, Committed} /\ heap[s].xmax # b
  BY DEF SelfScan, Visible
<1>2. /\ t \in Tids /\ Live(t) /\ heap[t].key = k
      /\ heap[t].xmin \in {b, Committed} /\ heap[t].xmax # b
  BY DEF SelfScan, Visible
<1> QED  BY <1>1, <1>2, XidAssumption DEF HeapInv

(* An insertion that meets no rival is the first version of its row.       *)
LEMMA NoRivals ==
  ASSUME NEW K, NEW D, Typed(K, D), HeapInv, NEW b \in Backends, NEW k,
         ~UniqueViolation(b, k), NEW t \in Tids, Live(t)
  PROVE  heap[t].key # k
<1> SUFFICES ASSUME heap[t].key = k PROVE FALSE
  OBVIOUS
<1>1. heap[t].xmax = b
  BY DEF UniqueViolation, Rivals
<1>2. PICK s \in Tids : Live(s) /\ heap[s].key = k /\ heap[s].xmin = b
  BY <1>1, XidAssumption DEF HeapInv
<1>3. heap[s].xmax = b
  BY <1>2 DEF UniqueViolation, Rivals
<1> QED  BY <1>2, <1>3, XidAssumption DEF HeapInv

(* simple_heap_insert with a unique index keeps one version per row.       *)
LEMMA InsertKeeps ==
  ASSUME NEW K, NEW D, Typed(K, D), HeapInv, NEW b \in Backends, NEW k \in K, NEW d \in D,
         NEW new \in Tids, ~Live(new), ~UniqueViolation(b, k), HeapInsert(b, new, k, d)
  PROVE  HeapType(K, D)' /\ HeapInv'
<1> DEFINE v == [key |-> k, xmin |-> b, xmax |-> NoXid, data |-> d]
<1>1. v \in Versions(K, D)
  BY DEF Versions
<1>2. heap' = [heap EXCEPT ![new] = v]
  BY DEF HeapInsert
<1>3. HeapType(K, D)'
  BY <1>1, <1>2 DEF Typed, HeapType
<1>4. \A t \in Tids : heap'[t] = IF t = new THEN v ELSE heap[t]
  BY <1>2 DEF Typed, HeapType
<1>5. \A t \in Tids : Live(t)' <=> t = new \/ Live(t)
  BY <1>1, <1>4 DEF Live, Typed
<1>6. \A t \in Tids : Live(t) => heap[t].key # k
  BY NoRivals
<1>7. v.key = k /\ v.xmin = b /\ v.xmax = NoXid
  OBVIOUS
<1> HIDE DEF v
<1> QED  BY <1>3, <1>4, <1>5, <1>6, <1>7, XidAssumption DEF HeapInv

(* my_simple_heap_update of a version the backend sees and nobody else     *)
(* holds: its own version is replaced in place, and a committed version    *)
(* gets its one successor.                                                 *)
LEMMA UpdateKeeps ==
  ASSUME NEW K, NEW D, Typed(K, D), HeapInv, NEW b \in Backends, NEW d \in D,
         NEW t \in Tids, Visible(b, t), UpdateHolders(b, t) = {},
         NEW new \in Tids, ~Live(new), HeapUpdate(b, t, new, d)
  PROVE  HeapType(K, D)' /\ HeapInv'
<1>1. /\ Live(t) /\ heap[t] \in Versions(K, D) /\ t # new
      /\ heap[t].xmin \in {b, Committed} /\ heap[t].xmax = NoXid
  BY LiveVersion, XidAssumption DEF Visible, UpdateHolders
<1>2. CASE heap[t].xmin = b
  <2> DEFINE v == [heap[t] EXCEPT !.data = d]
  <2>1. v \in Versions(K, D) /\ heap' = [heap EXCEPT ![t] = v]
    BY <1>1, <1>2 DEF HeapUpdate, Versions
  <2>2. v.key = heap[t].key /\ v.xmin = heap[t].xmin /\ v.xmax = heap[t].xmax
    BY <1>1 DEF Versions
  <2> HIDE DEF v
  <2>3. HeapType(K, D)'
    BY <2>1 DEF Typed, HeapType
  <2>4. \A u \in Tids : heap'[u] = IF u = t THEN v ELSE heap[u]
    BY <2>1 DEF Typed, HeapType
  <2>5. \A u \in Tids : Live(u)' <=> Live(u)
    BY <1>1, <2>1, <2>4 DEF Live, Typed
  <2>6. \A u \in Tids : /\ heap'[u].key = heap[u].key
                        /\ heap'[u].xmin = heap[u].xmin
                        /\ heap'[u].xmax = heap[u].xmax
    BY <2>2, <2>4
  <2> QED  BY <2>3, <2>5, <2>6 DEF HeapInv
<1>3. CASE heap[t].xmin = Committed
  <2> DEFINE old == [heap[t] EXCEPT !.xmax = b]
             v   == [key |-> heap[t].key, xmin |-> b, xmax |-> NoXid, data |-> d]
  <2>1. old \in Versions(K, D) /\ v \in Versions(K, D)
    BY <1>1 DEF Versions
  <2>2. heap' = [heap EXCEPT ![t] = old, ![new] = v]
    BY <1>1, <1>3, XidAssumption DEF HeapUpdate
  <2>3. /\ old.key = heap[t].key /\ old.xmin = Committed /\ old.xmax = b
        /\ v.key = heap[t].key /\ v.xmin = b /\ v.xmax = NoXid
    BY <1>1, <1>3 DEF Versions
  <2> HIDE DEF old, v
  <2>4. HeapType(K, D)'
    BY <2>1, <2>2 DEF Typed, HeapType
  <2>5. \A u \in Tids : heap'[u] = IF u = new THEN v ELSE IF u = t THEN old ELSE heap[u]
    BY <1>1, <2>2 DEF Typed, HeapType
  <2>6. \A u \in Tids : Live(u)' <=> u = new \/ Live(u)
    BY <1>1, <2>1, <2>5 DEF Live, Typed
  <2>7. \A u \in Tids : Live(u) /\ heap[u].key = heap[t].key => u = t
    BY <1>1, <1>3, XidAssumption, LiveVersion DEF HeapInv, Versions
  <2>8. \A u, w \in Tids :
          Live(u)' /\ Live(w)' /\ heap'[u].key = heap'[w].key =>
            /\ heap'[u].xmin = heap'[w].xmin => u = w
            /\ heap'[u].xmin # Committed =>
                 \/ heap'[w].xmin = heap'[u].xmin
                 \/ heap'[w].xmin = Committed /\ heap'[w].xmax = heap'[u].xmin
    BY <1>1, <2>3, <2>5, <2>6, <2>7, XidAssumption DEF HeapInv
  <2>9. \A u \in Tids :
          Live(u)' /\ heap'[u].xmax # NoXid =>
            /\ heap'[u].xmin = Committed
            /\ \E w \in Tids : Live(w)' /\ heap'[w].key = heap'[u].key
                                        /\ heap'[w].xmin = heap'[u].xmax
    BY <1>1, <2>3, <2>5, <2>6, <2>7, XidAssumption DEF HeapInv
  <2> QED  BY <2>4, <2>8, <2>9 DEF HeapInv
<1> QED  BY <1>1, <1>2, <1>3

(* Commit: the pending version of a row takes the place of the committed   *)
(* version its transaction held.                                           *)
LEMMA CommitKeeps ==
  ASSUME NEW K, NEW D, Typed(K, D), HeapInv, NEW b \in Backends, CommitHeap(b)
  PROVE  HeapType(K, D)' /\ HeapInv'
<1> DEFINE Kept(t) == Live(t) /\ heap[t].xmax # b
           v(t)    == [heap[t] EXCEPT !.xmin = IF @ = b THEN Committed ELSE @]
<1>1. \A t \in Tids : heap'[t] = IF Kept(t) THEN v(t) ELSE NoTuple
  BY DEF CommitHeap
<1>2. \A t \in Tids : Live(t) =>
        /\ v(t) \in Versions(K, D)
        /\ v(t).key = heap[t].key /\ v(t).xmax = heap[t].xmax
        /\ v(t).xmin = IF heap[t].xmin = b THEN Committed ELSE heap[t].xmin
  BY LiveVersion DEF Versions
<1> HIDE DEF v
<1>3. \A t \in Tids : Live(t)' <=> Kept(t)
  BY <1>1, <1>2 DEF Live, Typed
<1>4. HeapType(K, D)'
  BY <1>1, <1>2 DEF HeapType, CommitHeap, v
<1>5. \A s, t \in Tids :
        Live(s)' /\ Live(t)' /\ heap'[s].key = heap'[t].key =>
          /\ heap'[s].xmin = heap'[t].xmin => s = t
          /\ heap'[s].xmin # Committed =>
               \/ heap'[t].xmin = heap'[s].xmin
               \/ heap'[t].xmin = Committed /\ heap'[t].xmax = heap'[s].xmin
  BY <1>1, <1>2, <1>3, XidAssumption DEF HeapInv
<1>6. ASSUME NEW t \in Tids, Live(t)', heap'[t].xmax # NoXid
      PROVE  /\ heap'[t].xmin = Committed
             /\ \E s \in Tids : Live(s)' /\ heap'[s].key = heap'[t].key
                                         /\ heap'[s].xmin = heap'[t].xmax
  <2>1. Live(t) /\ heap[t].xmax # b /\ heap[t].xmax # NoXid /\ heap[t].xmin = Committed
    BY <1>1, <1>2, <1>3, <1>6 DEF HeapInv
  <2>2. PICK s \in Tids : Live(s) /\ heap[s].key = heap[t].key /\ heap[s].xmin = heap[t].xmax
    BY <2>1 DEF HeapInv
  <2>3. heap[s].xmin # Committed
    BY <2>1, <2>2, LiveVersion, XidAssumption DEF Versions
  <2>4. heap[s].xmax = NoXid
    BY <2>2, <2>3 DEF HeapInv
  <2>5. Live(s)' /\ heap'[s].key = heap'[t].key /\ heap'[s].xmin = heap'[t].xmax
    BY <1>1, <1>2, <1>3, <1>6, <2>1, <2>2, <2>4, XidAssumption
  <2> QED  BY <1>1, <1>2, <1>3, <1>6, <2>1, <2>5, XidAssumption
<1> QED  BY <1>4, <1>5, <1>6 DEF HeapInv

(* Abort: the pending versions go, and what they were to replace is free.  *)
LEMMA AbortKeeps ==
  ASSUME NEW K, NEW D, Typed(K, D), HeapInv, NEW b \in Backends, AbortHeap(b)
  PROVE  HeapType(K, D)' /\ HeapInv'
<1> DEFINE Kept(t) == Live(t) /\ heap[t].xmin # b
           v(t)    == [heap[t] EXCEPT !.xmax = IF @ = b THEN NoXid ELSE @]
<1>1. \A t \in Tids : heap'[t] = IF Kept(t) THEN v(t) ELSE NoTuple
  BY DEF AbortHeap
<1>2. \A t \in Tids : Live(t) =>
        /\ v(t) \in Versions(K, D)
        /\ v(t).key = heap[t].key /\ v(t).xmin = heap[t].xmin
        /\ v(t).xmax = IF heap[t].xmax = b THEN NoXid ELSE heap[t].xmax
  BY LiveVersion DEF Versions
<1> HIDE DEF v
<1>3. \A t \in Tids : Live(t)' <=> Kept(t)
  BY <1>1, <1>2 DEF Live, Typed
<1>4. HeapType(K, D)'
  BY <1>1, <1>2 DEF HeapType, AbortHeap, v
<1>5. \A s, t \in Tids :
        Live(s)' /\ Live(t)' /\ heap'[s].key = heap'[t].key =>
          /\ heap'[s].xmin = heap'[t].xmin => s = t
          /\ heap'[s].xmin # Committed =>
               \/ heap'[t].xmin = heap'[s].xmin
               \/ heap'[t].xmin = Committed /\ heap'[t].xmax = heap'[s].xmin
  BY <1>1, <1>2, <1>3, XidAssumption DEF HeapInv
<1>6. \A t \in Tids :
        Live(t)' /\ heap'[t].xmax # NoXid =>
          /\ heap'[t].xmin = Committed
          /\ \E s \in Tids : Live(s)' /\ heap'[s].key = heap'[t].key
                                      /\ heap'[s].xmin = heap'[t].xmax
  BY <1>1, <1>2, <1>3, XidAssumption DEF HeapInv
<1> QED  BY <1>4, <1>5, <1>6 DEF HeapInv

(* A committed UPDATE statement moves the one version of a row nobody      *)
(* holds to a new place.                                                   *)
LEMMA SqlUpdateKeeps ==
  ASSUME NEW K, NEW D, Typed(K, D), HeapInv, NEW d \in D, NEW t \in Tids, Live(t),
         NEW new \in Tids, ~Live(new), SqlUpdateCommitted(t, new, d)
  PROVE  HeapType(K, D)' /\ HeapInv'
<1> DEFINE v == [heap[t] EXCEPT !.data = d]
<1>1. /\ heap[t] \in Versions(K, D) /\ t # new
      /\ heap[t].xmin = Committed /\ heap[t].xmax = NoXid
  BY LiveVersion DEF SqlUpdateCommitted
<1>2. /\ v \in Versions(K, D)
      /\ v.key = heap[t].key /\ v.xmin = Committed /\ v.xmax = NoXid
  BY <1>1 DEF Versions
<1>3. heap' = [heap EXCEPT ![t] = NoTuple, ![new] = v]
  BY DEF SqlUpdateCommitted
<1> HIDE DEF v
<1>4. HeapType(K, D)'
  BY <1>2, <1>3 DEF Typed, HeapType
<1>5. \A u \in Tids : heap'[u] = IF u = new THEN v ELSE IF u = t THEN NoTuple ELSE heap[u]
  BY <1>1, <1>3 DEF Typed, HeapType
<1>6. \A u \in Tids : Live(u)' <=> u = new \/ (Live(u) /\ u # t)
  BY <1>1, <1>2, <1>5 DEF Live, Typed
<1>7. \A u \in Tids : Live(u) /\ heap[u].key = heap[t].key => u = t
  BY <1>1, XidAssumption, LiveVersion DEF HeapInv, Versions
<1>8. \A u, w \in Tids :
        Live(u)' /\ Live(w)' /\ heap'[u].key = heap'[w].key =>
          /\ heap'[u].xmin = heap'[w].xmin => u = w
          /\ heap'[u].xmin # Committed =>
               \/ heap'[w].xmin = heap'[u].xmin
               \/ heap'[w].xmin = Committed /\ heap'[w].xmax = heap'[u].xmin
  BY <1>2, <1>5, <1>6, <1>7 DEF HeapInv
<1>9. \A u \in Tids :
        Live(u)' /\ heap'[u].xmax # NoXid =>
          /\ heap'[u].xmin = Committed
          /\ \E w \in Tids : Live(w)' /\ heap'[w].key = heap'[u].key
                                      /\ heap'[w].xmin = heap'[u].xmax
  BY <1>2, <1>5, <1>6, <1>7 DEF HeapInv
<1> QED  BY <1>4, <1>8, <1>9 DEF HeapInv

-----------------------------------------------------------------------------
(* The heap as a store of one value per row and creator.                   *)

(* x has created a version of row k with data d.                           *)
Has(x, k, d) ==
  \E t \in Tids : Live(t) /\ heap[t].key = k /\ heap[t].xmin = x /\ heap[t].data = d

(* A creator has one value of a row or none, and DataBy is that value.     *)
DataIsValue ==
  HeapInv /\ (\A t \in Tids : Live(t) => heap[t].data # NoTuple) =>
    \A x, k, d : Has(x, k, d) <=> (DataBy(x, k) = d /\ d # NoTuple)

(* DataBy is the value, in every state ...                                 *)
LEMMA DataValue == DataIsValue
<1> SUFFICES ASSUME HeapInv, \A t \in Tids : Live(t) => heap[t].data # NoTuple,
                    NEW x, NEW k, NEW d
             PROVE  Has(x, k, d) <=> (DataBy(x, k) = d /\ d # NoTuple)
  BY DEF DataIsValue
<1> DEFINE S == {t \in Tids : Live(t) /\ heap[t].key = k /\ heap[t].xmin = x}
<1>1. CASE S = {}
  <2>1. DataBy(x, k) = NoTuple
    BY <1>1 DEF DataBy
  <2> QED  BY <1>1, <2>1 DEF Has
<1>2. CASE S # {}
  <2>1. PICK t \in S : S = {t}
    BY <1>2 DEF HeapInv
  <2>2. (CHOOSE u \in S : TRUE) = t
    BY <2>1
  <2>3. DataBy(x, k) = heap[t].data
    BY <1>2, <2>2 DEF DataBy
  <2>4. Has(x, k, d) <=> d = heap[t].data
    BY <2>1 DEF Has
  <2> QED  BY <2>1, <2>3, <2>4
<1> QED  BY <1>1, <1>2

(* ... also after a step.                                                  *)
LEMMA DataValueNext == DataIsValue'
BY DataValue, PTL

(* How a step that keeps the heap well formed changes the values: it       *)
(* suffices to say which values there are after it.                        *)
LEMMA DataStep ==
  ASSUME NEW K, NEW D, Typed(K, D), NoTuple \notin D, HeapInv, HeapType(K, D)', HeapInv'
  PROVE  /\ \A x, k, d : Has(x, k, d) <=> (DataBy(x, k) = d /\ d # NoTuple)
         /\ \A x, k, d : Has(x, k, d)' <=> (DataBy(x, k)' = d /\ d # NoTuple)
<1>1. \A t \in Tids : Live(t) => heap[t].data # NoTuple
  BY LiveVersion DEF Versions
<1>2. \A t \in Tids : Live(t)' => heap'[t].data # NoTuple
  BY DEF HeapType, Live, Versions
<1> QED  BY <1>1, <1>2, DataValue, DataValueNext DEF DataIsValue

(* A scan returns the value of the backend's own transaction if there is   *)
(* one, and the committed value otherwise.                                 *)
LEMMA ScanValue ==
  ASSUME NEW K, NEW D, Typed(K, D), NoTuple \notin D, HeapInv, NEW b \in Backends, NEW k
  PROVE  /\ SelfScan(b, k) # {} <=> DataBy(b, k) # NoTuple \/ DataBy(Committed, k) # NoTuple
         /\ \A t \in SelfScan(b, k) :
              heap[t].data = IF DataBy(b, k) # NoTuple THEN DataBy(b, k)
                             ELSE DataBy(Committed, k)
<1>1. \A t \in Tids : Live(t) => heap[t].data # NoTuple
  BY LiveVersion DEF Versions
<1>2. \A x, d : Has(x, k, d) <=> (DataBy(x, k) = d /\ d # NoTuple)
  BY <1>1, DataValue DEF DataIsValue
<1>3. ASSUME NEW t \in SelfScan(b, k)
      PROVE  /\ heap[t].data # NoTuple
             /\ heap[t].data = IF DataBy(b, k) # NoTuple THEN DataBy(b, k)
                               ELSE DataBy(Committed, k)
  <2>1. /\ t \in Tids /\ Live(t) /\ heap[t].key = k
        /\ heap[t].xmin \in {b, Committed} /\ heap[t].xmax # b
    BY DEF SelfScan, Visible
  <2>2. Has(heap[t].xmin, k, heap[t].data)
    BY <2>1 DEF Has
  <2>3. CASE DataBy(b, k) # NoTuple
    <3>1. PICK s \in Tids : Live(s) /\ heap[s].key = k /\ heap[s].xmin = b
      BY <1>2, <2>3 DEF Has
    <3>2. heap[t].xmin = b
      BY <2>1, <3>1, XidAssumption DEF HeapInv
    <3> QED  BY <1>2, <2>2, <2>3, <3>2
  <2>4. CASE DataBy(b, k) = NoTuple
    <3>1. heap[t].xmin = Committed
      BY <1>2, <2>1, <2>2, <2>4
    <3> QED  BY <1>2, <2>2, <2>4, <3>1
  <2> QED  BY <2>3, <2>4
<1>4. ASSUME DataBy(b, k) # NoTuple PROVE SelfScan(b, k) # {}
  <2>1. PICK s \in Tids : Live(s) /\ heap[s].key = k /\ heap[s].xmin = b
    BY <1>2, <1>4 DEF Has
  <2>2. heap[s].xmax # b
    BY <2>1, XidAssumption DEF HeapInv
  <2> QED  BY <2>1, <2>2 DEF SelfScan, Visible
<1>5. ASSUME DataBy(Committed, k) # NoTuple, DataBy(b, k) = NoTuple PROVE SelfScan(b, k) # {}
  <2>1. PICK s \in Tids : Live(s) /\ heap[s].key = k /\ heap[s].xmin = Committed
    BY <1>2, <1>5 DEF Has
  <2>2. heap[s].xmax # b
    <3> SUFFICES ASSUME heap[s].xmax = b PROVE FALSE
      OBVIOUS
    <3>1. PICK u \in Tids : Live(u) /\ heap[u].key = k /\ heap[u].xmin = b
      BY <2>1, XidAssumption DEF HeapInv
    <3>2. Has(b, k, heap[u].data)
      BY <3>1 DEF Has
    <3> QED  BY <1>2, <1>5, <3>2
  <2> QED  BY <2>1, <2>2 DEF SelfScan, Visible
<1> QED  BY <1>3, <1>4, <1>5

-----------------------------------------------------------------------------
(* The four ways the primitives change the values.                         *)

(* Transaction b gives row k, which no other transaction is writing, the   *)
(* value d.                                                                *)
PutValue(b, k, d) ==
  /\ \A c \in Backends \ {b} : DataBy(c, k) = NoTuple
  /\ \A x, j : DataBy(x, j)' = IF x = b /\ j = k THEN d ELSE DataBy(x, j)

CommitValues(b) ==
  \A x, j : DataBy(x, j)' =
             IF x = b THEN NoTuple
             ELSE IF x = Committed /\ DataBy(b, j) # NoTuple THEN DataBy(b, j)
             ELSE DataBy(x, j)

AbortValues(b) ==
  \A x, j : DataBy(x, j)' = IF x = b THEN NoTuple ELSE DataBy(x, j)

(* A committed row that no transaction is writing gets the value d.        *)
SqlValue(k, d) ==
  /\ \A c \in Backends : DataBy(c, k) = NoTuple
  /\ DataBy(Committed, k) # NoTuple
  /\ \A x, j : DataBy(x, j)' = IF x = Committed /\ j = k THEN d ELSE DataBy(x, j)

(* simple_heap_insert with a unique index puts the first value of a row.   *)
LEMMA InsertValue ==
  ASSUME NEW K, NEW D, Typed(K, D), NoTuple \notin D, HeapInv,
         NEW b \in Backends, NEW k \in K, NEW d \in D,
         NEW new \in Tids, ~Live(new), ~UniqueViolation(b, k), HeapInsert(b, new, k, d)
  PROVE  PutValue(b, k, d) /\ \A x : DataBy(x, k) = NoTuple
<1> DEFINE v == [key |-> k, xmin |-> b, xmax |-> NoXid, data |-> d]
<1>1. HeapType(K, D)' /\ HeapInv'
  BY InsertKeeps
<1>2. /\ \A x, j, e : Has(x, j, e) <=> (DataBy(x, j) = e /\ e # NoTuple)
      /\ \A x, j, e : Has(x, j, e)' <=> (DataBy(x, j)' = e /\ e # NoTuple)
  BY <1>1, DataStep
<1>3. \A t \in Tids : heap'[t] = IF t = new THEN v ELSE heap[t]
  BY DEF Typed, HeapType, HeapInsert
<1>4. \A t \in Tids : Live(t)' <=> t = new \/ Live(t)
  BY <1>3 DEF Live, Typed, Versions
<1>5. \A x, e : ~Has(x, k, e)
  BY NoRivals DEF Has
<1>6. v.key = k /\ v.xmin = b /\ v.data = d
  OBVIOUS
<1> HIDE DEF v
<1>7. \A x, j, e : Has(x, j, e)' <=> (Has(x, j, e) \/ (x = b /\ j = k /\ e = d))
  BY <1>3, <1>4, <1>6 DEF Has
<1>8. \A x : DataBy(x, k) = NoTuple
  BY <1>2, <1>5
<1>9. \A x, j : DataBy(x, j)' = IF x = b /\ j = k THEN d ELSE DataBy(x, j)
  BY <1>2, <1>5, <1>7
<1> QED  BY <1>8, <1>9 DEF PutValue

(* my_simple_heap_update puts the value of the row it updates.             *)
LEMMA UpdateValue ==
  ASSUME NEW K, NEW D, Typed(K, D), NoTuple \notin D, HeapInv,
         NEW b \in Backends, NEW d \in D,
         NEW t \in Tids, Visible(b, t), UpdateHolders(b, t) = {}, NEW k, heap[t].key = k,
         NEW new \in Tids, ~Live(new), HeapUpdate(b, t, new, d)
  PROVE  PutValue(b, k, d)
<1>1. HeapType(K, D)' /\ HeapInv'
  BY UpdateKeeps
<1>2. /\ \A x, j, e : Has(x, j, e) <=> (DataBy(x, j) = e /\ e # NoTuple)
      /\ \A x, j, e : Has(x, j, e)' <=> (DataBy(x, j)' = e /\ e # NoTuple)
  BY <1>1, DataStep
<1>3. /\ Live(t) /\ heap[t] \in Versions(K, D) /\ t # new
      /\ heap[t].xmin \in {b, Committed} /\ heap[t].xmax = NoXid
  BY LiveVersion, XidAssumption DEF Visible, UpdateHolders
<1>4. \A c \in Backends \ {b} : DataBy(c, k) = NoTuple
  <2> SUFFICES ASSUME NEW c \in Backends \ {b}, DataBy(c, k) # NoTuple PROVE FALSE
    OBVIOUS
  <2>1. Has(c, k, DataBy(c, k))
    BY <1>2
  <2>2. PICK s \in Tids : Live(s) /\ heap[s].key = k /\ heap[s].xmin = c
    BY <2>1 DEF Has
  <2> QED  BY <1>3, <2>2, XidAssumption DEF HeapInv
<1>5. \A x, j, e : Has(x, j, e)' <=> IF x = b /\ j = k THEN e = d ELSE Has(x, j, e)
  <2>1. CASE heap[t].xmin = b
    <3> DEFINE v == [heap[t] EXCEPT !.data = d]
    <3>1. v \in Versions(K, D) /\ heap' = [heap EXCEPT ![t] = v]
      BY <1>3, <2>1 DEF HeapUpdate, Versions
    <3>2. v.key = k /\ v.xmin = b /\ v.data = d
      BY <1>3, <2>1 DEF Versions
    <3> HIDE DEF v
    <3>3. \A u \in Tids : heap'[u] = IF u = t THEN v ELSE heap[u]
      BY <3>1 DEF Typed, HeapType
    <3>4. \A u \in Tids : Live(u)' <=> Live(u)
      BY <1>3, <3>1, <3>3 DEF Live, Typed
    <3>5. \A u \in Tids : Live(u) /\ heap[u].key = k /\ heap[u].xmin = b => u = t
      BY <1>3, <2>1 DEF HeapInv
    <3> QED  BY <1>3, <2>1, <3>2, <3>3, <3>4, <3>5 DEF Has
  <2>2. CASE heap[t].xmin = Committed
    <3> DEFINE old == [heap[t] EXCEPT !.xmax = b]
               v   == [key |-> k, xmin |-> b, xmax |-> NoXid, data |-> d]
    <3>1. old \in Versions(K, D) /\ v \in Versions(K, D)
      BY <1>3 DEF Versions
    <3>2. heap' = [heap EXCEPT ![t] = old, ![new] = v]
      BY <1>3, <2>2, XidAssumption DEF HeapUpdate
    <3>3. /\ old.key = k /\ old.xmin = Committed /\ old.data = heap[t].data
          /\ v.key = k /\ v.xmin = b /\ v.data = d
      BY <1>3, <2>2 DEF Versions
    <3> HIDE DEF old, v
    <3>4. \A u \in Tids : heap'[u] = IF u = new THEN v ELSE IF u = t THEN old ELSE heap[u]
      BY <1>3, <3>2 DEF Typed, HeapType
    <3>5. \A u \in Tids : Live(u)' <=> u = new \/ Live(u)
      BY <1>3, <3>1, <3>4 DEF Live, Typed
    <3>6. \A u \in Tids : Live(u) /\ heap[u].key = k => u = t
      BY <1>3, <2>2, XidAssumption, LiveVersion DEF HeapInv, Versions
    <3> QED  BY <1>3, <2>2, <3>3, <3>4, <3>5, <3>6, XidAssumption DEF Has
  <2> QED  BY <1>3, <2>1, <2>2
<1>6. \A x, j : DataBy(x, j)' = IF x = b /\ j = k THEN d ELSE DataBy(x, j)
  BY <1>2, <1>5
<1> QED  BY <1>4, <1>6 DEF PutValue

(* A commit makes the values of the transaction everybody's.               *)
LEMMA CommitValue ==
  ASSUME NEW K, NEW D, Typed(K, D), NoTuple \notin D, HeapInv,
         NEW b \in Backends, CommitHeap(b)
  PROVE  CommitValues(b)
<1> DEFINE Kept(t) == Live(t) /\ heap[t].xmax # b
           v(t)    == [heap[t] EXCEPT !.xmin = IF @ = b THEN Committed ELSE @]
<1>1. HeapType(K, D)' /\ HeapInv'
  BY CommitKeeps
<1>2. /\ \A x, j, e : Has(x, j, e) <=> (DataBy(x, j) = e /\ e # NoTuple)
      /\ \A x, j, e : Has(x, j, e)' <=> (DataBy(x, j)' = e /\ e # NoTuple)
  BY <1>1, DataStep
<1>3. \A t \in Tids : heap'[t] = IF Kept(t) THEN v(t) ELSE NoTuple
  BY DEF CommitHeap
<1>4. \A t \in Tids : Live(t) =>
        /\ v(t) \in Versions(K, D)
        /\ v(t).key = heap[t].key /\ v(t).data = heap[t].data
        /\ v(t).xmin = IF heap[t].xmin = b THEN Committed ELSE heap[t].xmin
  BY LiveVersion DEF Versions
<1> HIDE DEF v
<1>5. \A t \in Tids : Live(t)' <=> Kept(t)
  BY <1>3, <1>4 DEF Live, Typed
<1>6. \A t \in Tids : Live(t) /\ heap[t].xmin # Committed => Kept(t)
  BY XidAssumption DEF HeapInv
<1>7. ASSUME NEW t \in Tids, Live(t), heap[t].xmin = Committed
      PROVE  Kept(t) <=> DataBy(b, heap[t].key) = NoTuple
  <2>1. PICK j : j = heap[t].key
    OBVIOUS
  <2>2. Kept(t) => DataBy(b, j) = NoTuple
    <3> SUFFICES ASSUME Kept(t), DataBy(b, j) # NoTuple PROVE FALSE
      OBVIOUS
    <3>1. Has(b, j, DataBy(b, j))
      BY <1>2
    <3>2. PICK s \in Tids : Live(s) /\ heap[s].key = j /\ heap[s].xmin = b
      BY <3>1 DEF Has
    <3> QED  BY <1>7, <2>1, <3>2, XidAssumption DEF HeapInv
  <2>3. ~Kept(t) => DataBy(b, j) # NoTuple
    <3> SUFFICES ASSUME ~Kept(t) PROVE DataBy(b, j) # NoTuple
      OBVIOUS
    <3>1. PICK s \in Tids : Live(s) /\ heap[s].key = j /\ heap[s].xmin = b
      BY <1>7, <2>1, XidAssumption DEF HeapInv
    <3>2. Has(b, j, heap[s].data)
      BY <3>1 DEF Has
    <3> QED  BY <1>2, <3>2
  <2> QED  BY <2>1, <2>2, <2>3
<1>8. ASSUME NEW x, NEW j, NEW e
      PROVE  Has(x, j, e)' <=>
               \/ x # b /\ x # Committed /\ Has(x, j, e)
               \/ x = Committed /\ Has(b, j, e)
               \/ x = Committed /\ DataBy(b, j) = NoTuple /\ Has(Committed, j, e)
  <2>1. Has(x, j, e)' <=> \E t \in Tids : /\ Kept(t) /\ heap[t].key = j /\ heap[t].data = e
                                         /\ v(t).xmin = x
    BY <1>3, <1>4, <1>5 DEF Has
  <2>2. x # Committed => (Has(x, j, e)' <=> x # b /\ Has(x, j, e))
    BY <1>4, <1>6, <2>1, XidAssumption DEF Has
  <2>3. x = Committed =>
          (Has(x, j, e)' <=> Has(b, j, e) \/ (DataBy(b, j) = NoTuple /\ Has(Committed, j, e)))
    BY <1>4, <1>6, <1>7, <2>1, XidAssumption DEF Has
  <2> QED  BY <2>2, <2>3, XidAssumption
<1>9. ASSUME NEW x, NEW j
      PROVE  DataBy(x, j)' = IF x = b THEN NoTuple
                             ELSE IF x = Committed /\ DataBy(b, j) # NoTuple THEN DataBy(b, j)
                             ELSE DataBy(x, j)
  <2>1. CASE x # Committed
    <3>1. \A e : Has(x, j, e)' <=> x # b /\ Has(x, j, e)
      BY <1>8, <2>1
    <3> QED  BY <1>2, <2>1, <3>1
  <2>2. CASE x = Committed
    <3>1. \A e : Has(x, j, e)' <=>
                 IF DataBy(b, j) # NoTuple THEN Has(b, j, e) ELSE Has(Committed, j, e)
      BY <1>2, <1>8, <2>2, XidAssumption
    <3> QED  BY <1>2, <2>2, <3>1, XidAssumption
  <2> QED  BY <2>1, <2>2
<1> QED  BY <1>9 DEF CommitValues

(* An abort forgets the values of the transaction.                         *)
LEMMA AbortValue ==
  ASSUME NEW K, NEW D, Typed(K, D), NoTuple \notin D, HeapInv,
         NEW b \in Backends, AbortHeap(b)
  PROVE  AbortValues(b)
<1> DEFINE Kept(t) == Live(t) /\ heap[t].xmin # b
           v(t)    == [heap[t] EXCEPT !.xmax = IF @ = b THEN NoXid ELSE @]
<1>1. HeapType(K, D)' /\ HeapInv'
  BY AbortKeeps
<1>2. /\ \A x, j, e : Has(x, j, e) <=> (DataBy(x, j) = e /\ e # NoTuple)
      /\ \A x, j, e : Has(x, j, e)' <=> (DataBy(x, j)' = e /\ e # NoTuple)
  BY <1>1, DataStep
<1>3. \A t \in Tids : heap'[t] = IF Kept(t) THEN v(t) ELSE NoTuple
  BY DEF AbortHeap
<1>4. \A t \in Tids : Live(t) =>
        /\ v(t) \in Versions(K, D)
        /\ v(t).key = heap[t].key /\ v(t).data = heap[t].data /\ v(t).xmin = heap[t].xmin
  BY LiveVersion DEF Versions
<1> HIDE DEF v
<1>5. \A t \in Tids : Live(t)' <=> Kept(t)
  BY <1>3, <1>4 DEF Live, Typed
<1>6. \A x, j, e : Has(x, j, e)' <=> (x # b /\ Has(x, j, e))
  BY <1>3, <1>4, <1>5 DEF Has
<1>7. \A x, j : DataBy(x, j)' = IF x = b THEN NoTuple ELSE DataBy(x, j)
  BY <1>2, <1>6
<1> QED  BY <1>7 DEF AbortValues

(* A committed UPDATE statement replaces a committed value.                *)
LEMMA SqlUpdateValue ==
  ASSUME NEW K, NEW D, Typed(K, D), NoTuple \notin D, HeapInv,
         NEW d \in D, NEW t \in Tids, Live(t), NEW k, heap[t].key = k,
         NEW new \in Tids, ~Live(new), SqlUpdateCommitted(t, new, d)
  PROVE  SqlValue(k, d) /\ DataBy(Committed, k) = heap[t].data
<1> DEFINE v == [heap[t] EXCEPT !.data = d]
<1>1. HeapType(K, D)' /\ HeapInv'
  BY SqlUpdateKeeps
<1>2. /\ \A x, j, e : Has(x, j, e) <=> (DataBy(x, j) = e /\ e # NoTuple)
      /\ \A x, j, e : Has(x, j, e)' <=> (DataBy(x, j)' = e /\ e # NoTuple)
  BY <1>1, DataStep
<1>3. /\ heap[t] \in Versions(K, D) /\ t # new
      /\ heap[t].xmin = Committed /\ heap[t].xmax = NoXid
  BY LiveVersion DEF SqlUpdateCommitted
<1>4. /\ v \in Versions(K, D)
      /\ v.key = k /\ v.xmin = Committed /\ v.data = d
  BY <1>3 DEF Versions
<1>5. heap' = [heap EXCEPT ![t] = NoTuple, ![new] = v]
  BY DEF SqlUpdateCommitted
<1> HIDE DEF v
<1>6. \A u \in Tids : heap'[u] = IF u = new THEN v ELSE IF u = t THEN NoTuple ELSE heap[u]
  BY <1>3, <1>5 DEF Typed, HeapType
<1>7. \A u \in Tids : Live(u)' <=> u = new \/ (Live(u) /\ u # t)
  BY <1>3, <1>4, <1>6 DEF Live, Typed
<1>8. \A u \in Tids : Live(u) /\ heap[u].key = k => u = t
  BY <1>3, XidAssumption, LiveVersion DEF HeapInv, Versions
<1>9. \A x, j, e : Has(x, j, e)' <=> IF j = k THEN x = Committed /\ e = d ELSE Has(x, j, e)
  BY <1>4, <1>6, <1>7, <1>8 DEF Has
<1>10. \A x, e : Has(x, k, e) <=> x = Committed /\ e = heap[t].data
  BY <1>3, <1>8 DEF Has
<1>11. /\ \A c \in Backends : DataBy(c, k) = NoTuple
       /\ DataBy(Committed, k) # NoTuple
       /\ DataBy(Committed, k) = heap[t].data
  BY <1>2, <1>10, XidAssumption
<1>12. \A x, j : DataBy(x, j)' = IF x = Committed /\ j = k THEN d ELSE DataBy(x, j)
  BY <1>2, <1>9, <1>10
<1> QED  BY <1>11, <1>12 DEF SqlValue

-----------------------------------------------------------------------------
(* The rows and their columns.                                             *)

(* Every storage function addresses a row of one of the five tables, and   *)
(* the table decides the columns.                                          *)
LEMMA KeyFacts ==
  /\ QueryKey \in Keys /\ RowsOf(QueryKey) = QueryRows
  /\ TextKey \in Keys /\ RowsOf(TextKey) = TextRows
  /\ \A fs \in {0, 1}, f \in Fss :
       /\ FssKey(fs, f) \in FssKeys /\ FssKey(fs, f) \in Keys
       /\ RowsOf(FssKey(fs, f)) = FssRows
       /\ HouseKey(fs, f) \in Keys /\ RowsOf(HouseKey(fs, f)) = HouseRows
  /\ \A q \in Templates : CostsKey(q) \in Keys /\ RowsOf(CostsKey(q)) = CostsRows
<1>1. QueryKey \in Keys /\ TextKey \in Keys
  BY DEF Keys
<1>2. RowsOf(QueryKey) = QueryRows /\ RowsOf(TextKey) = TextRows
  BY DEF RowsOf, QueryKey, TextKey, Row
<1>3. ASSUME NEW fs \in {0, 1}, NEW f \in Fss
      PROVE  /\ FssKey(fs, f) \in FssKeys /\ FssKey(fs, f) \in Keys
             /\ RowsOf(FssKey(fs, f)) = FssRows
             /\ HouseKey(fs, f) \in Keys /\ RowsOf(HouseKey(fs, f)) = HouseRows
  <2>1. FssKey(fs, f) \in FssKeys /\ HouseKey(fs, f) \in HouseKeys
    BY DEF FssKeys, HouseKeys
  <2>2. RowsOf(FssKey(fs, f)) = FssRows
    BY DEF RowsOf, FssKey, Row
  <2>3. RowsOf(HouseKey(fs, f)) = HouseRows
    BY DEF RowsOf, HouseKey, Row
  <2> QED  BY <2>1, <2>2, <2>3 DEF Keys
<1>4. ASSUME NEW q \in Templates
      PROVE  CostsKey(q) \in Keys /\ RowsOf(CostsKey(q)) = CostsRows
  <2>1. CostsKey(q) \in CostsKeys
    BY DEF CostsKeys
  <2>2. RowsOf(CostsKey(q)) = CostsRows
    BY DEF RowsOf, CostsKey, Row
  <2> QED  BY <2>1, <2>2 DEF Keys
<1> QED  BY <1>1, <1>2, <1>3, <1>4

(* The columns of a row are among the columns of all rows.                 *)
LEMMA RowsOfKey ==
  ASSUME NEW k \in Keys PROVE RowsOf(k) \subseteq Rows
BY DEF Keys, RowsOf, QueryKey, TextKey, FssKey, HouseKey, CostsKey, Row,
       FssKeys, HouseKeys, CostsKeys, Rows

(* The rows and models the program starts from are well formed.            *)
LEMMA BlankFacts ==
  /\ BlankRow \in QueryRows /\ NewModel \in FssRows /\ NoContext \in Contexts
  /\ NothingLearned \in [FssKeys -> Nat]
BY StorageAssumption
   DEF BlankRow, QueryRows, NewModel, FssRows, NoContext, Contexts, NothingLearned

(* aqo_planner's change of history_query stays within the array.           *)
LEMMA RememberType ==
  ASSUME NEW r \in QueryRows, NEW q \in Templates
  PROVE  Remember(r, q) \in QueryRows
<1>1. ASSUME NEW h \in [1 .. HistorySize -> Templates \cup {0}], NEW n \in 0 .. HistorySize
      PROVE  [r EXCEPT !.hist = h, !.num = n, !.total = @ + 1] \in QueryRows
  <2>1. [r EXCEPT !.hist = h] \in QueryRows
    BY DEF QueryRows
  <2>2. \A s \in QueryRows : [s EXCEPT !.num = n] \in QueryRows
    BY DEF QueryRows
  <2>3. \A s \in QueryRows : [s EXCEPT !.total = r.total + 1] \in QueryRows
    BY DEF QueryRows
  <2> QED  BY <2>1, <2>2, <2>3
<1>2. CASE r.num < HistorySize
  <2> DEFINE h == [r.hist EXCEPT ![r.num + 1] = q]
             n == r.num + 1
  <2>1. h \in [1 .. HistorySize -> Templates \cup {0}]
    <3>1. r.hist \in [1 .. HistorySize -> Templates \cup {0}]
      BY DEF QueryRows
    <3> QED  BY <3>1
  <2>2. n \in 0 .. HistorySize
    BY <1>2, StorageAssumption DEF QueryRows
  <2>3. Remember(r, q) = [r EXCEPT !.hist = h, !.num = n, !.total = @ + 1]
    BY <1>2 DEF Remember
  <2> HIDE DEF h, n
  <2>4. [r EXCEPT !.hist = h, !.num = n, !.total = @ + 1] \in QueryRows
    BY <1>1, <2>1, <2>2
  <2> QED  BY <2>3, <2>4
<1>3. CASE ~(r.num < HistorySize)
  <2> DEFINE h == [i \in 1 .. HistorySize |-> IF i < r.num THEN r.hist[i + 1] ELSE q]
  <2>1. h \in [1 .. HistorySize -> Templates \cup {0}]
    <3>1. r.hist \in [1 .. HistorySize -> Templates \cup {0}] /\ r.num \in 0 .. HistorySize
      BY DEF QueryRows
    <3> QED  BY <3>1, StorageAssumption
  <2>2. Remember(r, q) = [r EXCEPT !.hist = h, !.num = r.num, !.total = @ + 1]
    BY <1>3 DEF Remember, QueryRows
  <2> HIDE DEF h
  <2> QED  BY <1>1, <2>1, <2>2 DEF QueryRows
<1> QED  BY <1>2, <1>3

(* The window of past inputs never outgrows its size, and n_data counts.   *)
LEMMA SlideType ==
  ASSUME NEW m \in FssRows, NEW q \in Templates
  PROVE  Slide(m, q) \in FssRows /\ LwprUpdate(m, q) \in FssRows
<1>1. Slide(m, q) \in FssRows
  BY StorageAssumption DEF Slide, FssRows
<1>2. \A m1 \in FssRows : [m1 EXCEPT !.n = @ + 1] \in FssRows
  BY DEF FssRows
<1> QED  BY <1>1, <1>2 DEF LwprUpdate

-----------------------------------------------------------------------------
(* What the steps that change the heap keep.                               *)

(* A version backend c points to is kept as c saw it, or goes.             *)
TidKept(c) ==
  \A t \in Tids : t = tid[c] /\ Live(t)' =>
    Live(t) /\ heap'[t].key = heap[t].key /\ (Visible(c, t) => Visible(c, t)')

(* A new version goes to a free place that no scan points to.              *)
LEMMA NewTidFree ==
  ASSUME NEW k \in Keys, FreeTids(k) # {}
  PROVE  NewTid(k) \in Tids /\ ~Live(NewTid(k)) /\ \A c \in Backends : tid[c] # NewTid(k)
<1>1. NewTid(k) \in FreeTids(k)
  BY DEF NewTid
<1> QED  BY <1>1, PlacesAssumption DEF FreeTids

(* The heap of the model is one the lemmas above speak about.              *)
LEMMA TypedHeap ==
  ASSUME TypeOK PROVE Typed(Keys, Rows)
BY NoTupleAssumption DEF TypeOK, HeapOK, Typed

(* The insertion of a row: add_query, add_query_text and the first write   *)
(* of a model, a data house or a cost record.                              *)
LEMMA InsertHeap ==
  ASSUME TypeOK, HeapInv, NEW b \in Backends, Target(b) \in Keys,
         NEW d \in RowsOf(Target(b)), Insert(b, d)
  PROVE  HeapOK' /\ HeapInv' /\ \A c \in Backends : TidKept(c)
<1> DEFINE k == Target(b)
           new == NewTid(k)
           v == [key |-> k, xmin |-> b, xmax |-> NoXid, data |-> d]
<1>1. k \in Keys /\ d \in Rows /\ d \in RowsOf(k) /\ ~UniqueViolation(b, k)
  BY RowsOfKey DEF Insert
<1>2. new \in Tids /\ ~Live(new) /\ \A c \in Backends : tid[c] # new
  BY NewTidFree DEF Insert
<1>3. HeapInsert(b, new, k, d)
  BY DEF Insert
<1> HIDE DEF k, new
<1>4. HeapType(Keys, Rows)' /\ HeapInv'
  BY <1>1, <1>2, <1>3, TypedHeap, InsertKeeps
<1>5. \A t \in Tids : heap'[t] = IF t = new THEN v ELSE heap[t]
  BY <1>2, <1>3 DEF HeapInsert, TypeOK, HeapOK, HeapType
<1>6. v.key = k /\ v.data = d
  OBVIOUS
<1> HIDE DEF v
<1>7. \A t \in Tids : Live(t)' => heap'[t].data \in RowsOf(heap'[t].key)
  BY <1>1, <1>5, <1>6 DEF TypeOK, HeapOK, Live
<1>8. \A c \in Backends : TidKept(c)
  BY <1>2, <1>5 DEF TidKept, Live, Visible
<1> QED  BY <1>4, <1>7, <1>8 DEF HeapOK

(* The update of the version a scan returned, made or discarded.           *)
LEMMA UpdateHeap ==
  ASSUME TypeOK, HeapInv, NEW b \in Backends, LocalInv(b), Target(b) \in Keys,
         NEW d, Live(tid[b]) => d \in RowsOf(Target(b)), Update(b, d)
  PROVE  HeapOK' /\ HeapInv' /\ \A c \in Backends \ {b} : TidKept(c)
<1> DEFINE k == Target(b)
           new == NewTid(k)
           t == tid[b]
<1>1. t \in Tids
  BY DEF Update, TypeOK
<1>2. CASE ~Live(t)
  <2>1. heap' = heap
    BY <1>2 DEF Update, UpdateRefused
  <2> QED  BY <2>1, <1>2 DEF TypeOK, HeapOK, HeapType, HeapInv, Live, TidKept, Visible
<1>3. CASE Live(t)
  <2>1. k \in Keys /\ d \in RowsOf(k) /\ d \in Rows
    BY <1>3, RowsOfKey
  <2>2. heap[t].key = k /\ Visible(b, t) /\ UpdateHolders(b, t) = {}
    BY <1>3 DEF LocalInv, Update, WaitsFor, Writing, UpdatePcs
  <2>3. new \in Tids /\ ~Live(new) /\ \A c \in Backends : tid[c] # new
    BY NewTidFree DEF Update
  <2>4. HeapUpdate(b, t, new, d)
    BY <1>3 DEF Update, UpdateRefused
  <2> HIDE DEF k, new, t
  <2>5. HeapType(Keys, Rows)' /\ HeapInv'
    BY <1>1, <2>1, <2>2, <2>3, <2>4, TypedHeap, UpdateKeeps
  <2>6. heap[t] \in Versions(Keys, Rows) /\ t # new
    BY <1>1, <1>3, <2>3, TypedHeap, LiveVersion
  <2>7. CASE heap[t].xmin = b
    <3> DEFINE v == [heap[t] EXCEPT !.data = d]
    <3>1. v.key = k /\ v.data = d
      BY <2>2, <2>6 DEF Versions
    <3>2. \A u \in Tids : heap'[u] = IF u = t THEN v ELSE heap[u]
      BY <1>1, <2>4, <2>7 DEF HeapUpdate, TypeOK, HeapOK, HeapType
    <3> HIDE DEF v
    <3>3. \A u \in Tids : Live(u)' => heap'[u].data \in RowsOf(heap'[u].key)
      BY <2>1, <3>1, <3>2 DEF TypeOK, HeapOK, Live
    <3>4. \A c \in Backends \ {b} : ~Visible(c, t)
      BY <2>7, XidAssumption DEF Visible
    <3>5. \A c \in Backends \ {b} : TidKept(c)
      BY <1>3, <2>2, <3>1, <3>2, <3>4 DEF TidKept, Live, Visible
    <3> QED  BY <2>5, <3>3, <3>5 DEF HeapOK
  <2>8. CASE heap[t].xmin # b
    <3> DEFINE old == [heap[t] EXCEPT !.xmax = b]
               v   == [key |-> heap[t].key, xmin |-> b, xmax |-> NoXid, data |-> d]
    <3>1. /\ old.key = k /\ old.data = heap[t].data
          /\ old.xmin = heap[t].xmin /\ old.xmax = b
          /\ v.key = k /\ v.data = d
      BY <2>2, <2>6 DEF Versions
    <3>2. heap' = [heap EXCEPT ![t] = old, ![new] = v]
      BY <2>4, <2>6, <2>8 DEF HeapUpdate
    <3> HIDE DEF old, v
    <3>3. \A u \in Tids : heap'[u] = IF u = new THEN v ELSE IF u = t THEN old ELSE heap[u]
      BY <1>1, <2>3, <2>6, <3>2 DEF TypeOK, HeapOK, HeapType
    <3>4. \A u \in Tids : Live(u)' => heap'[u].data \in RowsOf(heap'[u].key)
      BY <1>1, <1>3, <2>1, <2>2, <3>1, <3>3 DEF TypeOK, HeapOK, Live
    <3>5. \A c \in Backends \ {b} : TidKept(c)
      BY <1>3, <2>2, <2>3, <3>1, <3>3 DEF TidKept, Live, Visible
    <3> QED  BY <2>5, <3>4, <3>5 DEF HeapOK
  <2> QED  BY <2>7, <2>8
<1> QED  BY <1>2, <1>3

(* Commit: what the others point to stays as they saw it, or goes.         *)
LEMMA CommitStep ==
  ASSUME TypeOK, HeapInv, NEW b \in Backends, CommitHeap(b)
  PROVE  HeapOK' /\ HeapInv' /\ \A c \in Backends \ {b} : TidKept(c)
<1> DEFINE v(t) == [heap[t] EXCEPT !.xmin = IF @ = b THEN Committed ELSE @]
<1>1. HeapType(Keys, Rows)' /\ HeapInv'
  BY TypedHeap, CommitKeeps
<1>2. \A t \in Tids : heap'[t] = IF ~Live(t) \/ heap[t].xmax = b THEN NoTuple ELSE v(t)
  BY DEF CommitHeap
<1>3. \A t \in Tids : Live(t) =>
        /\ v(t).key = heap[t].key /\ v(t).data = heap[t].data
        /\ v(t).xmax = heap[t].xmax
        /\ v(t).xmin = IF heap[t].xmin = b THEN Committed ELSE heap[t].xmin
  BY TypedHeap, LiveVersion DEF Versions
<1> HIDE DEF v
<1>4. \A t \in Tids : Live(t)' => heap'[t].data \in RowsOf(heap'[t].key)
  BY <1>2, <1>3 DEF TypeOK, HeapOK, Live
<1>5. \A c \in Backends \ {b} : TidKept(c)
  BY <1>2, <1>3, SMTT(40) DEF TidKept, Live, Visible
<1> QED  BY <1>1, <1>4, <1>5 DEF HeapOK

(* Abort: the same.                                                        *)
LEMMA AbortStep ==
  ASSUME TypeOK, HeapInv, NEW b \in Backends, AbortHeap(b)
  PROVE  HeapOK' /\ HeapInv' /\ \A c \in Backends \ {b} : TidKept(c)
<1> DEFINE v(t) == [heap[t] EXCEPT !.xmax = IF @ = b THEN NoXid ELSE @]
<1>1. HeapType(Keys, Rows)' /\ HeapInv'
  BY TypedHeap, AbortKeeps
<1>2. \A t \in Tids : heap'[t] = IF ~Live(t) \/ heap[t].xmin = b THEN NoTuple ELSE v(t)
  BY DEF AbortHeap
<1>3. \A t \in Tids : Live(t) =>
        /\ v(t).key = heap[t].key /\ v(t).data = heap[t].data
        /\ v(t).xmin = heap[t].xmin
        /\ v(t).xmax = IF heap[t].xmax = b THEN NoXid ELSE heap[t].xmax
  BY TypedHeap, LiveVersion DEF Versions
<1> HIDE DEF v
<1>4. \A t \in Tids : Live(t)' => heap'[t].data \in RowsOf(heap'[t].key)
  BY <1>2, <1>3 DEF TypeOK, HeapOK, Live
<1>5. \A c \in Backends \ {b} : TidKept(c)
  BY <1>2, <1>3, XidAssumption, SMTT(40) DEF TidKept, Live, Visible
<1> QED  BY <1>1, <1>4, <1>5 DEF HeapOK

(* A statement on aqo_queries: a version that goes is gone for everybody.  *)
LEMMA SqlStep ==
  ASSUME TypeOK, HeapInv, NEW t \in Tids, NEW d \in QueryRows, SqlUpdateQuery(t, d)
  PROVE  HeapOK' /\ HeapInv' /\ \A c \in Backends : TidKept(c)
<1> DEFINE new == NewTid(QueryKey)
           v == [heap[t] EXCEPT !.data = d]
<1>1. d \in Rows /\ QueryKey \in Keys /\ RowsOf(QueryKey) = QueryRows
  BY KeyFacts DEF Rows
<1>2. /\ Live(t) /\ heap[t].key = QueryKey /\ FreeTids(QueryKey) # {}
      /\ SqlUpdateCommitted(t, new, d)
  BY DEF SqlUpdateQuery
<1>3. new \in Tids /\ ~Live(new) /\ \A c \in Backends : tid[c] # new
  BY <1>1, <1>2, NewTidFree
<1> HIDE DEF new
<1>4. HeapType(Keys, Rows)' /\ HeapInv'
  BY <1>1, <1>2, <1>3, TypedHeap, SqlUpdateKeeps
<1>5. v.key = QueryKey /\ v.data = d
  BY <1>2, TypedHeap, LiveVersion DEF Versions
<1>6. heap' = [heap EXCEPT ![t] = NoTuple, ![new] = v] /\ t # new
  BY <1>2, <1>3 DEF SqlUpdateCommitted
<1> HIDE DEF v
<1>7. \A u \in Tids : heap'[u] = IF u = new THEN v ELSE IF u = t THEN NoTuple ELSE heap[u]
  BY <1>3, <1>6 DEF TypeOK, HeapOK, HeapType
<1>8. \A u \in Tids : Live(u)' => heap'[u].data \in RowsOf(heap'[u].key)
  BY <1>1, <1>5, <1>7 DEF TypeOK, HeapOK, Live
<1>9. \A c \in Backends : TidKept(c)
  BY <1>3, <1>7 DEF TidKept, Live, Visible
<1> QED  BY <1>4, <1>8, <1>9 DEF HeapOK

-----------------------------------------------------------------------------
(* The local variables of the other backends.                              *)

(* A step that leaves a backend's variables, and what it points to, alone  *)
(* keeps what the backend knows.                                           *)
LEMMA LocalFrame ==
  ASSUME TypeOK, NEW c \in Backends, LocalInv(c), TidKept(c),
         pc'[c] = pc[c], ctx'[c] = ctx[c], fss'[c] = fss[c],
         matrix'[c] = matrix[c], tid'[c] = tid[c]
  PROVE  LocalInv(c)'
<1>1. Target(c)' = Target(c)
  BY DEF Target, CurrentFss, CurrentHouse, CurrentCosts
<1>2. tid[c] # NoTid => tid[c] \in Tids
  BY DEF TypeOK
<1>3. tid[c] # NoTid =>
        (Live(tid[c]) => heap[tid[c]].key = Target(c) /\ Visible(c, tid[c]))
  BY DEF LocalInv
<1>4. (tid[c] # NoTid /\ Live(tid[c]) => heap[tid[c]].key = Target(c) /\ Visible(c, tid[c]))'
  BY <1>1, <1>2, <1>3 DEF TidKept, Live, Visible
<1>5. (/\ pc[c] # "idle" => ctx[c].tmpl \in Templates
       /\ pc[c] \in FssPcs => fss[c] \in Fss
       /\ pc[c] \in {"hscan", "hwrite"} => matrix[c] <= HouseSize
       /\ pc[c] \in {"cscan", "cwrite"} => matrix[c] <= CostsSize
       /\ tid[c] # NoTid => pc[c] \in UpdatePcs)'
  BY DEF LocalInv
<1> QED  BY <1>4, <1>5 DEF LocalInv

(* A step that leaves the heap alone leaves every version as it was seen.  *)
LEMMA HeapFrame ==
  ASSUME heap' = heap, HeapInv, HeapOK
  PROVE  HeapOK' /\ HeapInv' /\ \A c \in Backends : TidKept(c)
BY DEF HeapInv, HeapOK, HeapType, TidKept, Live, Visible

(* The step of one backend b: the other backends' variables stay.          *)
OnlyLocals(b) ==
  \A c \in Backends \ {b} :
    /\ pc'[c] = pc[c] /\ ctx'[c] = ctx[c] /\ fss'[c] = fss[c]
    /\ matrix'[c] = matrix[c] /\ tid'[c] = tid[c]

(* What remains to be shown of the step of one backend.                    *)
LEMMA Assemble ==
  ASSUME IndInv, NEW b \in Backends, TypeOK', HeapInv', LocalInv(b)',
         \A c \in Backends \ {b} : TidKept(c), OnlyLocals(b)
  PROVE  IndInv'
<1>1. ASSUME NEW c \in Backends \ {b} PROVE LocalInv(c)'
  BY LocalFrame DEF IndInv, OnlyLocals
<1> QED  BY <1>1 DEF IndInv

(* A scan returns a version of the row that the backend sees, with the     *)
(* columns of the row's table.                                             *)
LEMMA ScanFact ==
  ASSUME TypeOK, NEW b \in Backends, NEW k \in Keys, Found(b, k)
  PROVE  /\ ScanFirst(b, k) \in Tids
         /\ Visible(b, ScanFirst(b, k)) /\ Live(ScanFirst(b, k))
         /\ heap[ScanFirst(b, k)].key = k
         /\ Read(b, k) \in RowsOf(k)
<1>1. ScanFirst(b, k) \in SelfScan(b, k)
  BY DEF Found, ScanFirst
<1> QED  BY <1>1 DEF SelfScan, Visible, Read, TypeOK, HeapOK

(* load_fss_rfwr returns a model, new or stored.                           *)
LEMMA LoadType ==
  ASSUME TypeOK, NEW b \in Backends, NEW fs \in {0, 1}, NEW f \in Fss
  PROVE  Load(b, FssKey(fs, f)) \in FssRows
BY ScanFact, KeyFacts, BlankFacts, SMTT(40) DEF Load

(* The rows of the storage functions are rows of the tables.               *)
LEMMA CurrentKeys ==
  ASSUME TypeOK, NEW b \in Backends, LocalInv(b)
  PROVE  /\ pc[b] \in FssPcs =>
              /\ CurrentFss(b) \in Keys /\ RowsOf(CurrentFss(b)) = FssRows
              /\ CurrentHouse(b) \in Keys /\ RowsOf(CurrentHouse(b)) = HouseRows
         /\ pc[b] # "idle" =>
              CurrentCosts(b) \in Keys /\ RowsOf(CurrentCosts(b)) = CostsRows
<1>1. ctx[b].fspace \in {0, 1}
  BY DEF TypeOK, Contexts
<1> QED  BY <1>1, KeyFacts DEF LocalInv, CurrentFss, CurrentHouse, CurrentCosts

-----------------------------------------------------------------------------
(* One lemma per group of actions: each keeps IndInv.                      *)

(* aqo_planner looks the query up, and finds it ...                        *)
LEMMA FindStoredInd ==
  ASSUME IndInv, NEW b \in Backends, NEW m \in Modes, NEW q \in Templates, FindStored(b, m, q)
  PROVE  IndInv'
<1> DEFINE r == Read(b, QueryKey)
           x == [mode |-> m, tmpl |-> q, learn |-> r.learn, use |-> r.use,
                 collect |-> r.tune, fspace |-> 1, nfeat |-> r.feat]
<1>1. r \in QueryRows
  BY ScanFact, KeyFacts DEF IndInv, FindStored
<1>2. x \in Contexts /\ x.tmpl = q
  BY <1>1 DEF QueryRows, Contexts
<1>3. Remember(r, q) \in QueryRows
  BY <1>1, RememberType
<1>4. /\ ctx' = [ctx EXCEPT ![b] = x]
      /\ qrow' = [qrow EXCEPT ![b] = Remember(r, q)]
      /\ pc' = [pc EXCEPT ![b] = "qscan"]
      /\ own' = [own EXCEPT ![b] = @ + 1]
      /\ UNCHANGED <<heap, fss, model, matrix, tid, done, learned, samples, frozen, feat>>
      /\ pc[b] = "idle"
  BY DEF FindStored, StartQuery, Goto
<1> HIDE DEF r, x
<1>5. HeapOK' /\ HeapInv' /\ \A c \in Backends : TidKept(c)
  BY <1>4, HeapFrame DEF IndInv, TypeOK
<1>6. TypeOK'
  BY <1>2, <1>3, <1>4, <1>5, SMTT(40) DEF IndInv, TypeOK, Pcs
<1>7. LocalInv(b)'
  BY <1>2, <1>4 DEF IndInv, TypeOK, LocalInv, FssPcs, UpdatePcs
<1>8. OnlyLocals(b)
  BY <1>4 DEF OnlyLocals, IndInv, TypeOK
<1> QED  BY <1>5, <1>6, <1>7, <1>8, Assemble

(* ... or does not, and takes the settings of the mode.                    *)
LEMMA FindUnknownInd ==
  ASSUME IndInv, NEW b \in Backends, NEW m \in Modes, NEW q \in Templates, FindUnknown(b, m, q)
  PROVE  IndInv'
<1> DEFINE adding == m \in {"learn", "intelligent"}
           x == [mode |-> m, tmpl |-> q, learn |-> m # "controlled",
                 use |-> m \in {"learn", "forced"}, collect |-> adding,
                 fspace |-> IF m = "forced" THEN 0 ELSE 1, nfeat |-> 0]
           r == [BlankRow EXCEPT !.learn = TRUE, !.use = (m = "learn"), !.tune = TRUE]
           to == IF adding THEN "addq" ELSE "plan"
<1>1. r \in QueryRows
  BY BlankFacts DEF BlankRow, QueryRows
<1>2. x \in Contexts /\ x.tmpl = q
  BY StorageAssumption, SMTT(40) DEF Contexts
<1>3. Remember(r, q) \in QueryRows
  BY <1>1, RememberType
<1>4. /\ ctx' = [ctx EXCEPT ![b] = x]
      /\ qrow' = [qrow EXCEPT ![b] = IF adding THEN Remember(r, q) ELSE @]
      /\ pc' = [pc EXCEPT ![b] = to]
      /\ own' = [own EXCEPT ![b] = @ + 1]
      /\ UNCHANGED <<heap, fss, model, matrix, tid, done, learned, samples, frozen, feat>>
      /\ pc[b] = "idle" /\ to \in {"addq", "plan"}
  BY DEF FindUnknown, StartQuery, Goto
<1> HIDE DEF adding, r, x, to
<1>5. HeapOK' /\ HeapInv' /\ \A c \in Backends : TidKept(c)
  BY <1>4, HeapFrame DEF IndInv, TypeOK
<1>6. TypeOK'
  BY <1>2, <1>3, <1>4, <1>5, SMTT(40) DEF IndInv, TypeOK, Pcs
<1>7. LocalInv(b)'
  BY <1>2, <1>4 DEF IndInv, TypeOK, LocalInv, FssPcs, UpdatePcs
<1>8. OnlyLocals(b)
  BY <1>4 DEF OnlyLocals, IndInv, TypeOK
<1> QED  BY <1>5, <1>6, <1>7, <1>8, Assemble

(* The scan of an update function remembers the version it returns.        *)
LEMMA ScanInd ==
  ASSUME IndInv, NEW b \in Backends, NEW from \in Pcs, NEW to \in UpdatePcs, NEW k \in Keys,
         Scan(b, from, to, k), from # "idle",
         to \in FssPcs => from \in FssPcs,
         to = "hwrite" => from = "hscan", to = "cwrite" => from = "cscan",
         Target(b)' = k
  PROVE  IndInv'
<1> DEFINE t == IF Found(b, k) THEN ScanFirst(b, k) ELSE NoTid
<1>1. /\ t # NoTid =>
           t \in Tids /\ Live(t) /\ Visible(b, t) /\ heap[t].key = k
      /\ t \in Tids \cup {NoTid}
  BY ScanFact DEF IndInv
<1>2. /\ tid' = [tid EXCEPT ![b] = t]
      /\ pc' = [pc EXCEPT ![b] = to] /\ pc[b] = from
      /\ UNCHANGED <<heap, ctx, qrow, fss, model, matrix, own, done, learned, samples, frozen, feat>>
  BY DEF Scan, Goto, Locals, ghost
<1> HIDE DEF t
<1>3. HeapOK' /\ HeapInv' /\ \A c \in Backends : TidKept(c)
  BY <1>2, HeapFrame DEF IndInv, TypeOK
<1>4. TypeOK'
  BY <1>1, <1>2, <1>3 DEF IndInv, TypeOK, Pcs, UpdatePcs
<1>5. tid'[b] = t /\ pc'[b] = to
  BY <1>2 DEF IndInv, TypeOK
<1>6. (tid[b] # NoTid /\ Live(tid[b]) => heap[tid[b]].key = Target(b) /\ Visible(b, tid[b]))'
  BY <1>1, <1>2, <1>5 DEF Live, Visible
<1>7. LocalInv(b)
  BY DEF IndInv
<1>8. (/\ pc[b] # "idle" => ctx[b].tmpl \in Templates
       /\ pc[b] \in FssPcs => fss[b] \in Fss
       /\ pc[b] \in {"hscan", "hwrite"} => matrix[b] <= HouseSize
       /\ pc[b] \in {"cscan", "cwrite"} => matrix[b] <= CostsSize
       /\ tid[b] # NoTid => pc[b] \in UpdatePcs)'
  BY <1>2, <1>5, <1>7 DEF LocalInv, UpdatePcs
<1>9. LocalInv(b)'
  BY <1>6, <1>8 DEF LocalInv
<1>10. OnlyLocals(b)
  BY <1>2 DEF OnlyLocals, IndInv, TypeOK
<1> QED  BY <1>3, <1>4, <1>9, <1>10, Assemble

(* The five scans, and the row each is for.                                *)
LEMMA ScansInd ==
  ASSUME IndInv, NEW b \in Backends,
         ScanQuery(b) \/ ScanWindow(b) \/ ScanHouse(b) \/ ScanFss(b) \/ ScanCosts(b)
  PROVE  IndInv'
<1> USE DEF Pcs, UpdatePcs, FssPcs
<1>1. TypeOK /\ LocalInv(b)
  BY DEF IndInv
<1>2. CASE ScanQuery(b)
  <2>1. Target(b)' = QueryKey
    BY <1>1, <1>2 DEF ScanQuery, Scan, Goto, Target, TypeOK
  <2> QED  BY <1>2, <2>1, KeyFacts, ScanInd DEF ScanQuery
<1>3. CASE ScanWindow(b)
  <2>1. pc[b] = "pscan" /\ pc'[b] = "pwrite" /\ ctx' = ctx /\ fss' = fss
    BY <1>1, <1>3 DEF ScanWindow, Scan, Goto, TypeOK, Locals
  <2>2. Target(b)' = CurrentFss(b) /\ CurrentFss(b) \in Keys
    BY <1>1, <2>1, CurrentKeys DEF Target, CurrentFss
  <2> QED  BY <1>3, <2>2, ScanInd DEF ScanWindow
<1>4. CASE ScanHouse(b)
  <2>1. pc[b] = "hscan" /\ pc'[b] = "hwrite" /\ ctx' = ctx /\ fss' = fss
    BY <1>1, <1>4 DEF ScanHouse, Scan, Goto, TypeOK, Locals
  <2>2. Target(b)' = CurrentHouse(b) /\ CurrentHouse(b) \in Keys
    BY <1>1, <2>1, CurrentKeys DEF Target, CurrentHouse
  <2> QED  BY <1>4, <2>2, ScanInd DEF ScanHouse
<1>5. CASE ScanFss(b)
  <2>1. pc[b] = "fscan" /\ pc'[b] = "fwrite" /\ ctx' = ctx /\ fss' = fss
    BY <1>1, <1>5 DEF ScanFss, Scan, Goto, TypeOK, Locals
  <2>2. Target(b)' = CurrentFss(b) /\ CurrentFss(b) \in Keys
    BY <1>1, <2>1, CurrentKeys DEF Target, CurrentFss
  <2> QED  BY <1>5, <2>2, ScanInd DEF ScanFss
<1>6. CASE ScanCosts(b)
  <2>1. pc[b] = "cscan" /\ pc'[b] = "cwrite" /\ ctx' = ctx /\ fss' = fss
    BY <1>1, <1>6 DEF ScanCosts, Scan, Goto, TypeOK, Locals
  <2>2. Target(b)' = CurrentCosts(b) /\ CurrentCosts(b) \in Keys
    BY <1>1, <2>1, CurrentKeys DEF Target, CurrentCosts
  <2> QED  BY <1>6, <2>2, ScanInd DEF ScanCosts
<1> QED  BY <1>2, <1>3, <1>4, <1>5, <1>6

(* The variables of a storage function that returned.                      *)
LEMMA ClearType ==
  ASSUME TypeOK, NEW b \in Backends, ClearLocals(b)
  PROVE  /\ qrow' \in [Backends -> QueryRows]
         /\ fss' \in [Backends -> Fss \cup {NoFss}]
         /\ model' \in [Backends -> FssRows]
         /\ matrix' \in [Backends -> Nat]
         /\ \A c \in Backends \ {b} : fss'[c] = fss[c] /\ matrix'[c] = matrix[c]
BY BlankFacts DEF TypeOK, ClearLocals

(* A write, made or discarded, of well-formed columns.                     *)
LEMMA WriteInd ==
  ASSUME IndInv, NEW b \in Backends, NEW d,
         NEW to \in Pcs \ {"hscan", "hwrite", "cscan", "cwrite"},
         Writing(b), Target(b) \in Keys, pc' = [pc EXCEPT ![b] = to],
         \/ Insert(b, d) /\ d \in RowsOf(Target(b))
         \/ Update(b, d) /\ (Live(tid[b]) => d \in RowsOf(Target(b))),
         \/ ClearLocals(b) /\ to \notin FssPcs
         \/ UNCHANGED Locals /\ (to \in FssPcs => pc[b] \in FssPcs)
  PROVE  IndInv'
<1>1. TypeOK /\ HeapInv /\ LocalInv(b)
  BY DEF IndInv
<1>2. HeapOK' /\ HeapInv' /\ \A c \in Backends \ {b} : TidKept(c)
  BY <1>1, InsertHeap, UpdateHeap
<1>3. /\ tid' = [tid EXCEPT ![b] = NoTid]
      /\ UNCHANGED <<ctx, own, done, learned, samples, frozen, feat>>
  BY <1>1 DEF Insert, Update, ghost, TypeOK
<1>4. /\ qrow' \in [Backends -> QueryRows]
      /\ fss' \in [Backends -> Fss \cup {NoFss}]
      /\ model' \in [Backends -> FssRows]
      /\ matrix' \in [Backends -> Nat]
      /\ \A c \in Backends \ {b} : fss'[c] = fss[c] /\ matrix'[c] = matrix[c]
  <2>1. CASE ClearLocals(b)
    BY <1>1, <2>1, ClearType
  <2>2. CASE UNCHANGED Locals
    BY <1>1, <2>2 DEF TypeOK, Locals
  <2> QED  BY <2>1, <2>2
<1>5. TypeOK'
  BY <1>1, <1>2, <1>3, <1>4 DEF TypeOK
<1>6. to \in FssPcs => fss'[b] \in Fss
  BY <1>1 DEF LocalInv, Locals
<1>7. LocalInv(b)'
  BY <1>1, <1>3, <1>6 DEF LocalInv, TypeOK, Writing
<1>8. OnlyLocals(b)
  BY <1>1, <1>3, <1>4 DEF OnlyLocals, TypeOK
<1> QED  BY <1>2, <1>5, <1>7, <1>8, Assemble

(* The writes, and the columns each puts into its row.                     *)
LEMMA WritesInd ==
  ASSUME IndInv, NEW b \in Backends,
         \/ AddQuery(b) \/ AddQueryText(b) \/ UpdateQuery2(b) \/ UpdateFssRfwr2(b)
         \/ UpdateRfDatahouse(b, "house") \/ UpdateRfDatahouse(b, "fscan")
         \/ UpdateFssRfwr(b) \/ UpdateBestTwoCosts(b)
  PROVE  IndInv'
<1> USE DEF Goto
<1>1. TypeOK /\ LocalInv(b)
  BY DEF IndInv
<1>2. /\ "addt" \in Pcs /\ "plan" \in Pcs /\ "house" \in Pcs /\ "fscan" \in Pcs
      /\ "learn" \in Pcs /\ "end" \in Pcs
      /\ {"addt", "plan", "learn", "end"} \cap FssPcs = {}
      /\ {"pwrite", "hwrite", "fwrite"} \subseteq FssPcs
  BY DEF Pcs, FssPcs
<1>3. CASE AddQuery(b)
  <2>1. Writing(b) /\ Target(b) = QueryKey /\ qrow[b] \in QueryRows
    BY <1>1, <1>3 DEF AddQuery, Writing, Target, TypeOK
  <2> QED  BY <1>2, <1>3, <2>1, KeyFacts, WriteInd DEF AddQuery
<1>4. CASE AddQueryText(b)
  <2>1. Writing(b) /\ Target(b) = TextKey /\ [text |-> "query text"] \in TextRows
    BY <1>1, <1>4 DEF AddQueryText, Writing, Target, TextRows
  <2> QED  BY <1>2, <1>4, <2>1, KeyFacts, WriteInd DEF AddQueryText
<1>5. CASE UpdateQuery2(b)
  <2> DEFINE d == [qrow[b] EXCEPT !.feat = heap[tid[b]].data.feat]
  <2>1. Writing(b) /\ Target(b) = QueryKey /\ qrow[b] \in QueryRows /\ tid[b] \in Tids
    BY <1>1, <1>5 DEF UpdateQuery2, Writing, Target, TypeOK, Update
  <2>2. ASSUME Live(tid[b]) PROVE d \in QueryRows
    <3>1. heap[tid[b]].data \in QueryRows
      BY <1>1, <1>5, <2>1, <2>2, KeyFacts DEF TypeOK, HeapOK, LocalInv, UpdateQuery2, Update
    <3> QED  BY <2>1, <3>1 DEF QueryRows
  <2>3. Update(b, d) /\ ClearLocals(b) /\ pc' = [pc EXCEPT ![b] = "plan"]
    BY <1>5 DEF UpdateQuery2
  <2> HIDE DEF d
  <2> QED  BY <1>2, <2>1, <2>2, <2>3, KeyFacts, WriteInd
<1>6. CASE UpdateFssRfwr2(b)
  <2> DEFINE d == [heap[tid[b]].data EXCEPT !.window = model[b].window]
  <2>1. /\ pc[b] = "pwrite" /\ Writing(b) /\ Target(b) = CurrentFss(b)
        /\ model[b] \in FssRows /\ tid[b] \in Tids
    BY <1>1, <1>6 DEF UpdateFssRfwr2, Writing, Target, TypeOK, Update
  <2>2. CurrentFss(b) \in Keys /\ RowsOf(CurrentFss(b)) = FssRows
    BY <1>1, <1>2, <2>1, CurrentKeys
  <2>3. ASSUME Live(tid[b]) PROVE d \in FssRows
    <3>1. heap[tid[b]].data \in FssRows
      BY <1>1, <1>6, <2>1, <2>2, <2>3 DEF TypeOK, HeapOK, LocalInv, UpdateFssRfwr2, Update
    <3> QED  BY <2>1, <3>1 DEF FssRows
  <2>4. Update(b, d) /\ ClearLocals(b) /\ pc' = [pc EXCEPT ![b] = "plan"]
    BY <1>6 DEF UpdateFssRfwr2
  <2> HIDE DEF d
  <2> QED  BY <1>2, <2>1, <2>2, <2>3, <2>4, WriteInd
<1>7. ASSUME NEW to \in {"house", "fscan"}, UpdateRfDatahouse(b, to) PROVE IndInv'
  <2> DEFINE d == [rows |-> matrix[b]]
  <2>1. pc[b] = "hwrite" /\ Writing(b) /\ Target(b) = CurrentHouse(b)
    BY <1>7 DEF UpdateRfDatahouse, Writing, Target
  <2>2. CurrentHouse(b) \in Keys /\ RowsOf(CurrentHouse(b)) = HouseRows
    BY <1>1, <1>2, <2>1, CurrentKeys
  <2>3. d \in HouseRows
    <3>1. matrix[b] \in Nat
      BY <1>1 DEF TypeOK
    <3>2. matrix[b] <= HouseSize
      BY <1>1, <2>1 DEF LocalInv
    <3>3. matrix[b] \in 0 .. HouseSize
      BY <3>1, <3>2, StorageAssumption
    <3> QED  BY <3>3 DEF HouseRows
  <2>4. (Insert(b, d) \/ Update(b, d)) /\ UNCHANGED Locals /\ pc' = [pc EXCEPT ![b] = to]
    BY <1>7 DEF UpdateRfDatahouse
  <2> HIDE DEF d
  <2>5. to \in Pcs \ {"hscan", "hwrite", "cscan", "cwrite"}
    BY <1>2
  <2> QED  BY <1>2, <2>1, <2>2, <2>3, <2>4, <2>5, WriteInd
<1>8. CASE UpdateFssRfwr(b)
  <2>1. /\ pc[b] = "fwrite" /\ Writing(b) /\ Target(b) = CurrentFss(b)
        /\ model[b] \in FssRows
    BY <1>1, <1>8 DEF UpdateFssRfwr, Writing, Target, TypeOK
  <2>2. CurrentFss(b) \in Keys /\ RowsOf(CurrentFss(b)) = FssRows
    BY <1>1, <1>2, <2>1, CurrentKeys
  <2> QED  BY <1>2, <1>8, <2>1, <2>2, WriteInd DEF UpdateFssRfwr
<1>9. CASE UpdateBestTwoCosts(b)
  <2> DEFINE d == [rows |-> matrix[b]]
  <2>1. pc[b] = "cwrite" /\ Writing(b) /\ Target(b) = CurrentCosts(b)
    BY <1>9 DEF UpdateBestTwoCosts, Writing, Target
  <2>2. CurrentCosts(b) \in Keys /\ RowsOf(CurrentCosts(b)) = CostsRows
    BY <1>1, <2>1, CurrentKeys
  <2>3. d \in CostsRows
    <3>1. matrix[b] \in Nat
      BY <1>1 DEF TypeOK
    <3>2. matrix[b] <= CostsSize
      BY <1>1, <2>1 DEF LocalInv
    <3>3. matrix[b] \in 0 .. CostsSize
      BY <3>1, <3>2, StorageAssumption
    <3> QED  BY <3>3 DEF CostsRows
  <2>4. (Insert(b, d) \/ Update(b, d)) /\ ClearLocals(b) /\ pc' = [pc EXCEPT ![b] = "end"]
    BY <1>9 DEF UpdateBestTwoCosts
  <2> HIDE DEF d
  <2> QED  BY <1>2, <2>1, <2>2, <2>3, <2>4, WriteInd
<1> QED  BY <1>3, <1>4, <1>5, <1>6, <1>7, <1>8, <1>9

(* The steps that load a row or leave the tables alone: loading a model to *)
(* predict or to learn, loading a matrix, and the phases of a query.       *)
LEMMA LocalStepsInd ==
  ASSUME IndInv, NEW b \in Backends,
         \/ \E f \in Fss : Predict(b, f) \/ LearnSample(b, f)
         \/ LoadHouse(b) \/ LoadCosts(b) \/ Execute(b) \/ ExplainOnly(b) \/ ExecutorEnd(b)
  PROVE  IndInv'
<1> USE DEF Goto
<1>1. TypeOK /\ HeapInv /\ LocalInv(b)
  BY DEF IndInv
<1>2. ctx[b].fspace \in {0, 1}
  BY <1>1 DEF TypeOK, Contexts
<1>3. ASSUME heap' = heap PROVE HeapOK' /\ HeapInv' /\ \A c \in Backends \ {b} : TidKept(c)
  BY <1>1, <1>3, HeapFrame DEF TypeOK
<1>4. ASSUME NEW f \in Fss, Predict(b, f) PROVE IndInv'
  <2> DEFINE m == Slide(Load(b, FssKey(ctx[b].fspace, f)), ctx[b].tmpl)
  <2>1. m \in FssRows
    BY <1>1, <1>2, <1>4, LoadType, SlideType DEF Predict, LocalInv
  <2>2. /\ pc[b] = "plan" /\ pc' = [pc EXCEPT ![b] = "pscan"]
        /\ fss' = [fss EXCEPT ![b] = f] /\ model' = [model EXCEPT ![b] = m]
        /\ UNCHANGED <<heap, ctx, qrow, matrix, tid, own, done, learned, samples, frozen, feat>>
    BY <1>4 DEF Predict, ghost
  <2> HIDE DEF m
  <2>3. TypeOK'
    BY <1>1, <1>3, <2>1, <2>2 DEF TypeOK, Pcs
  <2>4. LocalInv(b)'
    BY <1>1, <2>2 DEF LocalInv, TypeOK, UpdatePcs
  <2>5. OnlyLocals(b)
    BY <1>1, <2>2 DEF OnlyLocals, TypeOK
  <2> QED  BY <1>3, <2>2, <2>3, <2>4, <2>5, Assemble
<1>5. ASSUME NEW f \in Fss, LearnSample(b, f) PROVE IndInv'
  <2> DEFINE k == FssKey(ctx[b].fspace, f)
             m == LwprUpdate(Load(b, k), ctx[b].tmpl)
  <2>1. m \in FssRows /\ k \in FssKeys
    BY <1>1, <1>2, <1>5, LoadType, SlideType, KeyFacts DEF LearnSample, LocalInv
  <2>2. /\ pc[b] = "learn"
        /\ fss' = [fss EXCEPT ![b] = f] /\ model' = [model EXCEPT ![b] = m]
        /\ learned' = [learned EXCEPT ![b][k] = @ + 1]
        /\ UNCHANGED <<heap, ctx, qrow, matrix, tid, own, done, samples, frozen, feat>>
    BY <1>5 DEF LearnSample
  <2>3. PICK to \in {"house", "fscan"} : pc' = [pc EXCEPT ![b] = to]
    BY <1>5 DEF LearnSample
  <2> HIDE DEF k, m
  <2>4. learned' \in [Backends -> [FssKeys -> Nat]]
    BY <1>1, <2>1, <2>2, SMTT(40) DEF TypeOK
  <2>5. TypeOK'
    BY <1>1, <1>3, <2>1, <2>2, <2>3, <2>4 DEF TypeOK, Pcs
  <2>6. LocalInv(b)'
    BY <1>1, <2>2, <2>3 DEF LocalInv, TypeOK, UpdatePcs
  <2>7. OnlyLocals(b)
    BY <1>1, <2>2, <2>3 DEF OnlyLocals, TypeOK
  <2> QED  BY <1>3, <2>2, <2>5, <2>6, <2>7, Assemble
<1>6. CASE LoadHouse(b)
  <2>1. /\ pc[b] = "house" /\ pc' = [pc EXCEPT ![b] = "hscan"]
        /\ UNCHANGED <<heap, ctx, qrow, fss, model, tid, own, done, learned, samples, frozen, feat>>
    BY <1>6 DEF LoadHouse, LoadMatrix, ghost
  <2> DEFINE known == IF Found(b, CurrentHouse(b)) THEN Read(b, CurrentHouse(b)).rows ELSE 0
  <2>2. PICK r \in OkNNrLearn(known, HouseSize) : matrix' = [matrix EXCEPT ![b] = r]
    BY <1>6 DEF LoadHouse, LoadMatrix
  <2>3. r \in Nat /\ r <= HouseSize
    BY StorageAssumption DEF OkNNrLearn
  <2>4. TypeOK'
    BY <1>1, <1>3, <2>1, <2>2, <2>3 DEF TypeOK, Pcs
  <2>5. LocalInv(b)'
    BY <1>1, <2>1, <2>2, <2>3 DEF LocalInv, TypeOK, UpdatePcs, FssPcs
  <2>6. OnlyLocals(b)
    BY <1>1, <2>1, <2>2 DEF OnlyLocals, TypeOK
  <2> QED  BY <1>3, <2>1, <2>4, <2>5, <2>6, Assemble
<1>7. CASE LoadCosts(b)
  <2>1. /\ pc[b] = "learn" /\ pc' = [pc EXCEPT ![b] = "cscan"]
        /\ UNCHANGED <<heap, ctx, qrow, fss, model, tid, own, done, learned, samples, frozen, feat>>
    BY <1>7 DEF LoadCosts, LoadMatrix, ghost
  <2> DEFINE known == IF Found(b, CurrentCosts(b)) THEN Read(b, CurrentCosts(b)).rows ELSE 0
  <2>2. PICK r \in OkNNrLearn(known, CostsSize) : matrix' = [matrix EXCEPT ![b] = r]
    BY <1>7 DEF LoadCosts, LoadMatrix
  <2>3. r \in Nat /\ r <= CostsSize
    BY StorageAssumption, SMTT(40) DEF OkNNrLearn
  <2>4. TypeOK'
    BY <1>1, <1>3, <2>1, <2>2, <2>3 DEF TypeOK, Pcs
  <2>5. LocalInv(b)'
    BY <1>1, <2>1, <2>2, <2>3 DEF LocalInv, TypeOK, UpdatePcs, FssPcs
  <2>6. OnlyLocals(b)
    BY <1>1, <2>1, <2>2 DEF OnlyLocals, TypeOK
  <2> QED  BY <1>3, <2>1, <2>4, <2>5, <2>6, Assemble
<1>8. CASE Execute(b)
  <2>1. /\ pc[b] = "plan" /\ pc' = [pc EXCEPT ![b] = "learn"]
        /\ UNCHANGED <<heap, ctx, qrow, fss, model, matrix, tid, own, done, learned, samples, frozen, feat>>
    BY <1>8 DEF Execute, Locals, ghost
  <2>2. TypeOK'
    BY <1>1, <1>3, <2>1 DEF TypeOK, Pcs
  <2>3. LocalInv(b)'
    BY <1>1, <2>1 DEF LocalInv, TypeOK, UpdatePcs, FssPcs
  <2>4. OnlyLocals(b)
    BY <1>1, <2>1 DEF OnlyLocals, TypeOK
  <2> QED  BY <1>3, <2>1, <2>2, <2>3, <2>4, Assemble
<1>9. ASSUME NEW from \in {"plan", "learn", "end"}, EndQuery(b, from) PROVE IndInv'
  <2>1. /\ pc[b] = from /\ pc' = [pc EXCEPT ![b] = "idle"]
        /\ ctx' = [ctx EXCEPT ![b] = NoContext]
        /\ UNCHANGED <<heap, qrow, fss, model, matrix, tid, own, done, learned, samples, frozen, feat>>
    BY <1>9 DEF EndQuery, Locals, ghost
  <2>2. TypeOK'
    BY <1>1, <1>3, <2>1, BlankFacts DEF TypeOK, Pcs
  <2>3. LocalInv(b)'
    BY <1>1, <2>1 DEF LocalInv, TypeOK, UpdatePcs, FssPcs
  <2>4. OnlyLocals(b)
    BY <1>1, <2>1 DEF OnlyLocals, TypeOK
  <2> QED  BY <1>3, <2>1, <2>2, <2>3, <2>4, Assemble
<1> QED  BY <1>4, <1>5, <1>6, <1>7, <1>8, <1>9 DEF ExplainOnly, ExecutorEnd

(* The end of a transaction, for whatever reason.                          *)
LEMMA EndInd ==
  ASSUME IndInv, NEW b \in Backends, Commit(b) \/ Rollback(b)
  PROVE  IndInv'
<1>1. TypeOK /\ HeapInv /\ LocalInv(b)
  BY DEF IndInv
<1>2. CASE Commit(b)
  <2>1. HeapOK' /\ HeapInv' /\ \A c \in Backends \ {b} : TidKept(c)
    BY <1>1, <1>2, CommitStep DEF Commit
  <2>2. /\ pc[b] = "idle"
        /\ own' = [own EXCEPT ![b] = 0] /\ done' = done + own[b]
        /\ learned' = [learned EXCEPT ![b] = NothingLearned]
        /\ samples' = [k \in FssKeys |-> samples[k] + learned[b][k]]
        /\ UNCHANGED <<pc, ctx, qrow, fss, model, matrix, tid, frozen, feat>>
    BY <1>2 DEF Commit, Locals
  <2>3. samples' \in [FssKeys -> Nat]
    BY <1>1, <2>2, SMTT(40) DEF TypeOK
  <2>4. TypeOK'
    BY <1>1, <2>1, <2>2, <2>3, BlankFacts, SMTT(40) DEF TypeOK
  <2>5. LocalInv(b)'
    BY <1>1, <2>2 DEF LocalInv, UpdatePcs, FssPcs
  <2>6. OnlyLocals(b)
    BY <2>2 DEF OnlyLocals
  <2> QED  BY <2>1, <2>4, <2>5, <2>6, Assemble
<1>3. CASE Rollback(b)
  <2>1. HeapOK' /\ HeapInv' /\ \A c \in Backends \ {b} : TidKept(c)
    BY <1>1, <1>3, AbortStep DEF Rollback
  <2>2. /\ pc' = [pc EXCEPT ![b] = "idle"]
        /\ ctx' = [ctx EXCEPT ![b] = NoContext]
        /\ tid' = [tid EXCEPT ![b] = NoTid]
        /\ own' = [own EXCEPT ![b] = 0]
        /\ learned' = [learned EXCEPT ![b] = NothingLearned]
        /\ UNCHANGED <<done, samples, frozen, feat>>
    BY <1>3 DEF Rollback
  <2>3. /\ qrow' \in [Backends -> QueryRows]
        /\ fss' \in [Backends -> Fss \cup {NoFss}]
        /\ model' \in [Backends -> FssRows]
        /\ matrix' \in [Backends -> Nat]
        /\ \A c \in Backends \ {b} : fss'[c] = fss[c] /\ matrix'[c] = matrix[c]
    BY <1>1, <1>3, ClearType DEF Rollback
  <2>4. TypeOK'
    BY <1>1, <2>1, <2>2, <2>3, BlankFacts DEF TypeOK, Pcs
  <2>5. LocalInv(b)'
    BY <1>1, <2>2 DEF LocalInv, TypeOK, UpdatePcs, FssPcs
  <2>6. OnlyLocals(b)
    BY <1>1, <2>2, <2>3 DEF OnlyLocals, TypeOK
  <2> QED  BY <2>1, <2>4, <2>5, <2>6, Assemble
<1> QED  BY <1>2, <1>3

(* The statements of other sessions on aqo_queries.                        *)
LEMMA SqlInd ==
  ASSUME IndInv, NEW t \in Tids,
         UserFreeze(t) \/ \E v \in Feats : UpdateAqoQueryTable(t, v)
  PROVE  IndInv'
<1>1. TypeOK /\ HeapInv
  BY DEF IndInv
<1>2. ASSUME NEW d \in QueryRows, SqlUpdateQuery(t, d), frozen' \in Nat, feat' \in Feats
      PROVE  IndInv'
  <2>1. HeapOK' /\ HeapInv' /\ \A c \in Backends : TidKept(c)
    BY <1>1, <1>2, SqlStep
  <2>2. UNCHANGED <<pc, ctx, qrow, fss, model, matrix, tid, own, done, learned, samples>>
    BY <1>2 DEF SqlUpdateQuery, Locals
  <2>3. TypeOK'
    BY <1>1, <1>2, <2>1, <2>2 DEF TypeOK
  <2>4. ASSUME NEW c \in Backends PROVE LocalInv(c)'
    BY <1>1, <2>1, <2>2, LocalFrame DEF IndInv
  <2> QED  BY <2>1, <2>3, <2>4 DEF IndInv
<1>3. ASSUME Live(t), heap[t].key = QueryKey PROVE heap[t].data \in QueryRows
  BY <1>1, <1>3, KeyFacts DEF TypeOK, HeapOK
<1>4. CASE UserFreeze(t)
  <2> DEFINE d == [heap[t].data EXCEPT !.learn = FALSE, !.tune = FALSE]
  <2>1. d \in QueryRows
    <3>1. heap[t].data \in QueryRows
      BY <1>3, <1>4 DEF UserFreeze, SqlUpdateQuery
    <3>2. \A s \in QueryRows : /\ [s EXCEPT !.learn = FALSE] \in QueryRows
                               /\ [s EXCEPT !.tune = FALSE] \in QueryRows
      BY DEF QueryRows
    <3> QED  BY <3>1, <3>2
  <2>2. SqlUpdateQuery(t, d) /\ frozen' \in Nat /\ feat' \in Feats
    BY <1>1, <1>4 DEF UserFreeze, TypeOK
  <2> QED  BY <1>2, <2>1, <2>2
<1>5. ASSUME NEW v \in Feats, UpdateAqoQueryTable(t, v) PROVE IndInv'
  <2> DEFINE d == [heap[t].data EXCEPT !.feat = v]
  <2>1. d \in QueryRows
    BY <1>3, <1>5 DEF UpdateAqoQueryTable, SqlUpdateQuery, QueryRows
  <2>2. SqlUpdateQuery(t, d) /\ frozen' \in Nat /\ feat' \in Feats
    BY <1>1, <1>5 DEF UpdateAqoQueryTable, TypeOK
  <2> QED  BY <1>2, <2>1, <2>2
<1> QED  BY <1>4, <1>5

(* The invariant holds of the empty tables.                                *)
LEMMA InitInd == Init => IndInv
<1> SUFFICES ASSUME Init PROVE IndInv
  OBVIOUS
<1> USE DEF Init
<1>1. \A t \in Tids : ~Live(t)
  BY DEF Live
<1>2. HeapOK /\ HeapInv
  BY <1>1 DEF HeapOK, HeapType, HeapInv
<1>3. TypeOK
  BY <1>2, BlankFacts, StorageAssumption DEF TypeOK, Pcs
<1>4. \A b \in Backends : LocalInv(b)
  BY DEF LocalInv, FssPcs
<1> QED  BY <1>2, <1>3, <1>4 DEF IndInv

(* Every action keeps the invariant.                                       *)
LEMMA NextInd == IndInv /\ [Next]_vars => IndInv'
<1> SUFFICES ASSUME IndInv, [Next]_vars PROVE IndInv'
  OBVIOUS
<1>1. ASSUME NEW b \in Backends, Find(b) PROVE IndInv'
  BY <1>1, FindStoredInd, FindUnknownInd DEF Find
<1>2. ASSUME NEW b \in Backends, ScanStep(b) PROVE IndInv'
  BY <1>2, ScansInd, LocalStepsInd DEF ScanStep
<1>3. ASSUME NEW b \in Backends, Write(b) PROVE IndInv'
  BY <1>3, WritesInd, EndInd DEF Write, DuplicateKey
<1>4. ASSUME NEW b \in Backends,
             \/ \E f \in Fss : Predict(b, f) \/ LearnSample(b, f)
             \/ Execute(b) \/ ExplainOnly(b) \/ LoadCosts(b) \/ ExecutorEnd(b)
      PROVE  IndInv'
  BY <1>4, LocalStepsInd
<1>5. ASSUME NEW b \in Backends, Commit(b) \/ Abort(b) \/ DeadlockAbort(b) PROVE IndInv'
  BY <1>5, EndInd DEF Abort, DeadlockAbort
<1>6. ASSUME NEW t \in Tids, UserFreeze(t) \/ \E v \in Feats : UpdateAqoQueryTable(t, v)
      PROVE  IndInv'
  BY <1>6, SqlInd
<1>7. CASE UNCHANGED vars
  <2>1. UNCHANGED <<heap, pc, ctx, qrow, fss, model, matrix, tid, own, done, learned,
                    samples, frozen, feat>>
    BY <1>7 DEF vars, ghost
  <2>2. HeapOK' /\ HeapInv' /\ \A c \in Backends : TidKept(c)
    BY <2>1 DEF IndInv, TypeOK, HeapOK, HeapType, HeapInv, Live, TidKept, Visible
  <2>3. TypeOK'
    BY <2>1, <2>2 DEF IndInv, TypeOK
  <2>4. ASSUME NEW c \in Backends PROVE LocalInv(c)'
    BY <2>1, <2>2, LocalFrame DEF IndInv
  <2> QED  BY <2>2, <2>3, <2>4 DEF IndInv
<1> QED  BY <1>1, <1>2, <1>3, <1>4, <1>5, <1>6, <1>7 DEF Next

-----------------------------------------------------------------------------
(* The inductive invariant of the service tables: for any number of        *)
(* backends, templates and subspaces, and any sizes, the heap holds at     *)
(* most one committed and one pending version of a row, and the version    *)
(* the scan of a storage function returned is gone or is the row it is     *)
(* about to write.                                                         *)
THEOREM Inductive == Spec => []IndInv
<1>1. Init => IndInv
  BY InitInd
<1>2. IndInv /\ [Next]_vars => IndInv'
  BY NextInd
<1> QED  BY <1>1, <1>2, PTL DEF Spec

(* Every stored row has the columns of its table within their bounds: the  *)
(* history, the windows and the k-NN matrices never outgrow the arrays     *)
(* that storage.c forms the tuples from.                                   *)
THEOREM TypeCorrect == Spec => []TypeOK
<1>1. IndInv => TypeOK
  BY DEF IndInv
<1> QED  BY <1>1, Inductive, PTL

(* No backend ever sees two versions of a row, so that calling             *)
(* index_getnext once is enough.                                           *)
THEOREM OneRow == Spec => []OneVisibleRow
<1>1. IndInv => OneVisibleRow
  <2> SUFFICES ASSUME IndInv, NEW b \in Backends, NEW k \in Keys,
                      NEW s \in SelfScan(b, k), NEW t \in SelfScan(b, k)
               PROVE  s = t
    BY DEF OneVisibleRow
  <2>1. Typed(Keys, Rows) /\ HeapInv
    BY TypedHeap DEF IndInv, TypeOK
  <2> QED  BY <2>1, ScanUnique
<1> QED  BY <1>1, Inductive, PTL
=============================================================================
