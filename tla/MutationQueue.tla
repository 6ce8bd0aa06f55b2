--------------------------- MODULE MutationQueue ---------------------------
(***************************************************************************)
(* The rows of the outbox and inbox tables of the offline queue            *)
(* (packages/sync/src/queue).  A table is a set of rows in IndexedDB; the  *)
(* operators below are what one call of BaseQueue does to it.  The random  *)
(* id of a row is abstracted: a row is identified by its timestamp and its *)
(* collection, which the engine never reuses while the row exists.         *)
(***************************************************************************)
EXTENDS Naturals, FiniteSets

CONSTANTS Collections,   \* collection names
          Updates        \* CRDT updates; a payload is a set of them, since
                         \* Y.mergeUpdates folds several into one blob

Row == [time: Nat, collection: Collections, updates: SUBSET Updates,
        status: {"pending", "failed"}]

NewRow(t, c, us) ==
  [time |-> t, collection |-> c, updates |-> us, status |-> "pending"]

Payload(rows) == UNION {r.updates : r \in rows}

GetPending(table) == {r \in table : r.status = "pending"}

PendingCount(table) == Cardinality(GetPending(table))

(* sortBy("timestamp"): rows with the same timestamp come in either order. *)
IsNext(r, rows) == r \in rows /\ \A other \in rows : r.time <= other.time

Enqueue(table, r) == table \union {r}

(* Mutant: the row keeps its place and is only marked.                     *)
AcknowledgeMarks(table, r) ==
  (table \ {r}) \union {[x EXCEPT !.status = "acknowledged"] : x \in table \intersect {r}}

(* A row that is gone is left alone: acknowledge returns null for it.      *)
Acknowledge(table, r) == table \ {r}

MarkFailed(table, r) ==
  IF r \in table
  THEN (table \ {r}) \union {[r EXCEPT !.status = "failed"]}
  ELSE table
=============================================================================
