---------------------------- MODULE ServiceTables ----------------------------
(***************************************************************************)
(* What the storage functions may rely on: the AQO service tables are a    *)
(* transactional store.  A row has one committed value or none; a backend  *)
(* holds at most one new value for it, and while it does nobody else       *)
(* writes the row; committing publishes all the values of the transaction  *)
(* at once, and aborting publishes none.                                   *)
(***************************************************************************)
CONSTANTS
  Backends, Keys,
  Values(_),   \* the values a row can have
  Absent       \* no value

VARIABLES table, pending

vars == <<table, pending>>

Init ==
  /\ table = [k \in Keys |-> Absent]
  /\ pending = [b \in Backends |-> [k \in Keys |-> Absent]]

(* An insertion or an update: the row is then held until the end of the    *)
(* transaction.                                                            *)
Put(b, k) ==
  /\ \A c \in Backends \ {b} : pending[c][k] = Absent
  /\ pending'[b][k] \in Values(k)
  /\ pending' = [pending EXCEPT ![b][k] = pending'[b][k]]
  /\ UNCHANGED table

Commit(b) ==
  /\ table' = [k \in Keys |-> IF pending[b][k] = Absent THEN table[k] ELSE pending[b][k]]
  /\ pending' = [pending EXCEPT ![b] = [k \in Keys |-> Absent]]

Abort(b) ==
  /\ pending' = [pending EXCEPT ![b] = [k \in Keys |-> Absent]]
  /\ UNCHANGED table

(* A statement of another session, which changes an existing row.          *)
SqlUpdate(k) ==
  /\ table[k] # Absent
  /\ \A b \in Backends : pending[b][k] = Absent
  /\ table'[k] \in Values(k)
  /\ table' = [table EXCEPT ![k] = table'[k]]
  /\ UNCHANGED pending

Next ==
  \/ \E b \in Backends : (\E k \in Keys : Put(b, k)) \/ Commit(b) \/ Abort(b)
  \/ \E k \in Keys : SqlUpdate(k)

Spec == Init /\ [][Next]_vars
=============================================================================
