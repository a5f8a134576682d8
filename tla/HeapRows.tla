------------------------------ MODULE HeapRows ------------------------------
(***************************************************************************)
(* The rows of the AQO service tables as PostgreSQL keeps them: a heap of  *)
(* row versions, each stamped with the transaction that created it (xmin)  *)
(* and the one that superseded it (xmax).  storage.c reads and writes      *)
(* every table through the same four primitives, modelled here:            *)
(*   - an index scan under SnapshotSelf        (index_getnext)             *)
(*   - simple_heap_insert + my_index_insert    (UNIQUE_CHECK_YES)          *)
(*   - my_simple_heap_update                   (wait, replace or discard)  *)
(*   - the end of the transaction that made the changes.                   *)
(* A transaction is named by the backend that runs it: a backend runs one  *)
(* transaction at a time.  The versions no transaction can see any more    *)
(* are dropped at once; a version that a backend still holds a pointer to  *)
(* is then simply gone, which is how heap_update reports HeapTupleUpdated. *)
(***************************************************************************)
EXTENDS Naturals

CONSTANTS
  Backends,   \* server processes
  Tids,       \* places in the heap a row version can occupy
  Committed,  \* the xmin of a version whose creator committed
  NoXid,      \* the xmax of a version nobody superseded
  NoTuple     \* content of an empty place

ASSUME XidAssumption == {Committed, NoXid} \cap Backends = {} /\ Committed # NoXid

VARIABLE heap  \* [Tids -> row version or NoTuple]

Versions(K, D) ==
  [key : K, xmin : Backends \cup {Committed}, xmax : Backends \cup {NoXid}, data : D]

Live(t) == heap[t] # NoTuple

-----------------------------------------------------------------------------
(* Mutant: a version another transaction is updating is not seen.          *)
VisibleIfUnlocked(b, t) ==
  Live(t) /\ heap[t].xmin \in {b, Committed} /\ heap[t].xmax = NoXid

(* HeapTupleSatisfiesSelf: a scan sees what is committed and what its own  *)
(* transaction did, and nothing else.                                      *)
Visible(b, t) ==
  /\ Live(t)
  /\ heap[t].xmin \in {b, Committed}
  /\ heap[t].xmax # b

(* The versions an index scan with key k returns to backend b.             *)
SelfScan(b, k) == {t \in Tids : Visible(b, t) /\ heap[t].key = k}

(* The first version the scan returns: index_getnext is called once.       *)
ScanFirst(b, k) == CHOOSE t \in SelfScan(b, k) : TRUE

-----------------------------------------------------------------------------
(* Mutant: heap_update(wait = false), and the result is not looked at.     *)
UpdateWithoutWait(b, t) == {}

(* my_simple_heap_update: heap_update(wait = true) sleeps while another    *)
(* transaction's update of the version is in progress ...                  *)
UpdateHolders(b, t) ==
  IF Live(t) THEN {heap[t].xmax} \ {NoXid, b} ELSE {}

(* ... and refuses (HeapTupleUpdated) a version already replaced.          *)
UpdateRefused(t) == ~Live(t)

(* A version of the backend's own transaction is replaced where it is:     *)
(* nobody else can see it.                                                 *)
HeapUpdate(b, t, new, d) ==
  heap' = IF heap[t].xmin = b
          THEN [heap EXCEPT ![t].data = d]
          ELSE [heap EXCEPT ![t].xmax = b,
                            ![new] = [key |-> heap[t].key, xmin |-> b,
                                      xmax |-> NoXid, data |-> d]]

-----------------------------------------------------------------------------
(* my_index_insert(UNIQUE_CHECK_YES): the versions of the key that are not *)
(* already dead to the inserting transaction.                              *)
Rivals(b, k) == {t \in Tids : Live(t) /\ heap[t].key = k /\ heap[t].xmax # b}

(* The transactions whose outcome decides whether a rival counts: the      *)
(* insertion sleeps until they are over.                                   *)
InsertHolders(b, k) ==
  UNION {{heap[t].xmin, heap[t].xmax} : t \in Rivals(b, k)} \ {b, Committed, NoXid}

(* Mutant: UNIQUE_CHECK_NO.                                                *)
NoUniqueCheck(b, k) == FALSE

UniqueViolation(b, k) == Rivals(b, k) # {}

HeapInsert(b, new, k, d) ==
  heap' = [heap EXCEPT ![new] = [key |-> k, xmin |-> b, xmax |-> NoXid, data |-> d]]

-----------------------------------------------------------------------------
(* CommitTransaction: what b created is everybody's, what b superseded is  *)
(* nobody's.                                                               *)
CommitHeap(b) ==
  heap' = [t \in Tids |->
             IF ~Live(t) \/ heap[t].xmax = b THEN NoTuple
             ELSE [heap[t] EXCEPT !.xmin = IF @ = b THEN Committed ELSE @]]

(* Mutant: the changes were made outside of the transaction.               *)
AbortKeepsRows(b) == CommitHeap(b)

(* AbortTransaction: what b created never was, what b superseded stays.    *)
AbortHeap(b) ==
  heap' = [t \in Tids |->
             IF ~Live(t) \/ heap[t].xmin = b THEN NoTuple
             ELSE [heap[t] EXCEPT !.xmax = IF @ = b THEN NoXid ELSE @]]

(* An UPDATE statement of another session, committed at once: under READ   *)
(* COMMITTED it waits for the holder of the row and then changes its       *)
(* latest version, so it never works on an old one.                        *)
SqlUpdateCommitted(t, new, d) ==
  /\ heap[t].xmin = Committed
  /\ heap[t].xmax = NoXid
  /\ heap' = [heap EXCEPT ![t] = NoTuple,
                          ![new] = [heap[t] EXCEPT !.data = d]]
-----------------------------------------------------------------------------
(* The data of the version of row k that transaction x, or a committed one *)
(* for x = Committed, has created.                                         *)
DataBy(x, k) ==
  LET S == {t \in Tids : Live(t) /\ heap[t].key = k /\ heap[t].xmin = x}
  IN IF S = {} THEN NoTuple ELSE heap[CHOOSE t \in S : TRUE].data

HeapType(K, D) == heap \in [Tids -> Versions(K, D) \cup {NoTuple}]

(* The versions of a row: at most one is committed and at most one is      *)
(* pending; the transaction with a pending version is the one that holds   *)
(* the committed version, and a held version has its pending successor.    *)
HeapInv ==
  /\ \A s, t \in Tids :
       Live(s) /\ Live(t) /\ heap[s].key = heap[t].key =>
         /\ heap[s].xmin = heap[t].xmin => s = t
         /\ heap[s].xmin # Committed =>
              \/ heap[t].xmin = heap[s].xmin
              \/ heap[t].xmin = Committed /\ heap[t].xmax = heap[s].xmin
  /\ \A t \in Tids :
       Live(t) /\ heap[t].xmax # NoXid =>
         /\ heap[t].xmin = Committed
         /\ \E s \in Tids : Live(s) /\ heap[s].key = heap[t].key /\ heap[s].xmin = heap[t].xmax
=============================================================================
