----------------------------- MODULE LocalStore -----------------------------
(***************************************************************************)
(* The IndexedDB database of an app (packages/db/src) and the calls that   *)
(* run on it: a collection, a graph, a backup adapter.  A call is a chain  *)
(* of requests, each of them atomic, and calls of several callers          *)
(* interleave between them: nothing opens a transaction around two.        *)
(***************************************************************************)
EXTENDS Integers, FiniteSets, Functions

CONSTANTS
  Callers,
  Fields,    \* of documents
  Nodes,     \* of the graph, now or later
  FirstNodes,\* there at first
  MaxCalls   \* bound: calls ever made

VARIABLES
  docs,      \* id -> the fields the document has
  nodes, edges,
  call,      \* call[c]: what c has under way
  calls,
  timer, inFlight, stop,  \* backups: interval set; the backup; stop()'s caller
  used,      \* uuids that were given
  late       \* history: edges added while, or after, an end was removed

graph  == <<nodes, edges, late>>
backup == <<timer, inFlight, stop>>
store  == <<docs, used, graph, call, calls, backup>>

-----------------------------------------------------------------------------
Ids  == 0 .. 2 * MaxCalls  \* a call makes two documents at most

(* Nodes have ids that are not numbers.                                    *)
ASSUME StoreAssumption ==
  /\ MaxCalls \in Nat
  /\ FirstNodes \subseteq Nodes
  /\ Nodes \intersect Ids = {}

Edge == [id: Ids, from: Nodes, to: Nodes]
Docs == UNION {[S -> SUBSET Fields] : S \in SUBSET Ids}

Ends(e) == {e.from, e.to}

(* What a caller may ask of the collection, but for reads; a filter is the *)
(* fields that must be there.                                              *)
CollectionCalls ==
  [op: {"insert", "insertMany", "clear"}] \union [op: {"delete"}, filter: SUBSET Fields] \union
  [op: {"update"}, filter: SUBSET Fields, field: Fields]

GraphCalls ==
  [op: {"addNode"}] \union [op: {"removeEdge"}, id: Ids] \union
  [op: {"removeNode"}, node: Nodes] \union [op: {"addEdge"}, from: Nodes, to: Nodes]

(* A caller knows the ids that were given.                                 *)
GraphRequests == {r \in GraphCalls : \A f \in DOMAIN r \ {"op"} : r[f] \in used}

Idle == [op |-> "none"]

Running == [op: {"none", "settled"}] \union
  CollectionCalls \union GraphCalls \union
  [op: {"put"}, field: Fields, found: Docs] \union [op: {"bulkDelete"}, found: SUBSET Ids] \union
  [op: {"cutEdges"}, node: Nodes, found: SUBSET Edge] \union [op: {"dropNode"}, node: Nodes]

(* Its promise is resolved, or rejected.                                   *)
Settled == [op |-> "settled"]

StoreInit ==
  /\ docs = [d \in {0} |-> {}]
  /\ nodes = FirstNodes
  /\ edges = {}
  /\ call = [c \in Callers |-> Idle]
  /\ calls = 0
  /\ timer = FALSE /\ inFlight = "none" /\ stop = "none"
  /\ used = {0} \union FirstNodes /\ late = {}

-----------------------------------------------------------------------------
(* CollectionClient.                                                       *)

Start(c, request) ==
  /\ call[c].op \in {"none", "settled"}
  /\ calls < MaxCalls
  /\ calls' = calls + 1
  /\ call' = [call EXCEPT ![c] = request]

Proceed(c, op, next) ==
  /\ call[c].op = op
  /\ call' = [call EXCEPT ![c] = next]
  /\ UNCHANGED <<calls, backup>>

Finish(c, op) == Proceed(c, op, Settled)

Matches(filter) == {d \in DOMAIN docs : filter \subseteq docs[d]}

(* add, bulkAdd and bulkPut of a table: new documents, or new contents.     *)
Write(new) == docs' = [d \in DOMAIN new \union DOMAIN docs |->
                         IF d \in DOMAIN new THEN new[d] ELSE docs[d]]

(* Mutant: the ids of removed documents are given again.                   *)
ReusedIds == Ids \ DOMAIN docs

(* uuidv7().                                                               *)
FreshIds == Ids \ used

Insert(c) ==
  LET id == CHOOSE i \in FreshIds : TRUE
  IN  /\ Finish(c, "insert")
      /\ Write([d \in {id} |-> {}])
      /\ used' = used \union {id}
      /\ UNCHANGED graph

(* One bulkAdd, of two documents.                                          *)
InsertMany(c) ==
  LET ids == CHOOSE S \in SUBSET FreshIds : Cardinality(S) = 2
  IN  /\ Finish(c, "insertMany")
      /\ Write([d \in ids |-> {}])
      /\ used' = used \union ids
      /\ UNCHANGED graph

UpdateFinds(c) ==
  /\ call[c].op = "update"
  /\ Proceed(c, "update", [op |-> "put", field |-> call[c].field,
                           found |-> Restrict(docs, Matches(call[c].filter))])
  /\ UNCHANGED <<docs, used, graph>>

(* bulkPut writes the documents as they were found, changed; one that is   *)
(* gone meanwhile comes back.                                              *)
UpdatePuts(c) ==
  /\ Finish(c, "put")
  /\ Write([d \in DOMAIN call[c].found |-> call[c].found[d] \union {call[c].field}])
  /\ UNCHANGED <<used, graph>>

DeleteFinds(c) ==
  /\ call[c].op = "delete"
  /\ Proceed(c, "delete", [op |-> "bulkDelete", found |-> Matches(call[c].filter)])
  /\ UNCHANGED <<docs, used, graph>>

Erase(ids) == docs' = Restrict(docs, DOMAIN docs \ ids)

DeleteErases(c) ==
  /\ call[c].op = "bulkDelete"
  /\ Finish(c, "bulkDelete")
  /\ Erase(call[c].found)
  /\ UNCHANGED <<used, graph>>

ClearAll(c) == Finish(c, "clear") /\ Erase(DOMAIN docs) /\ UNCHANGED <<used, graph>>

-----------------------------------------------------------------------------
(* GraphClient.  addEdge does not look whether its ends are there.         *)

Doomed(n) == n \notin nodes \/ \E c \in Callers : call[c].op \in {"cutEdges", "dropNode"} /\ call[c].node = n

AddEdge(c) ==
  LET id == CHOOSE i \in FreshIds : TRUE
      e == [id |-> id, from |-> call[c].from, to |-> call[c].to]
  IN  /\ call[c].op = "addEdge"
      /\ used' = used \union {id}
      /\ Finish(c, "addEdge")
      /\ edges' = edges \union {e}
      /\ late' = IF \E n \in Ends(e) : Doomed(n) THEN late \union {e} ELSE late
      /\ UNCHANGED <<docs, nodes>>

AddNode(c) == \E n \in Nodes \ used :
  /\ Finish(c, "addNode")
  /\ nodes' = nodes \union {n}
  /\ used' = used \union {n}
  /\ UNCHANGED <<docs, edges, late>>

RemoveEdge(c) ==
  /\ call[c].op = "removeEdge"
  /\ Finish(c, "removeEdge")
  /\ edges' = {e \in edges : e.id # call[c].id}
  /\ UNCHANGED <<docs, used, nodes, late>>

(* Mutant: only the edges that leave the node are looked up.               *)
EdgesOut(n) == {e \in edges : e.from = n}

EdgesOf(n) == {e \in edges : n \in Ends(e)}

RemoveListsEdges(c) ==
  /\ call[c].op = "removeNode"
  /\ Proceed(c, "removeNode", [op |-> "cutEdges", node |-> call[c].node, found |-> EdgesOf(call[c].node)])
  /\ UNCHANGED <<docs, used, graph>>

RemoveCutsEdges(c) ==
  /\ call[c].op = "cutEdges"
  /\ Proceed(c, "cutEdges", [op |-> "dropNode", node |-> call[c].node])
  /\ edges' = edges \ call[c].found
  /\ UNCHANGED <<docs, used, nodes, late>>

RemoveDropsNode(c) ==
  /\ call[c].op = "dropNode"
  /\ Finish(c, "dropNode")
  /\ nodes' = nodes \ {call[c].node}
  /\ UNCHANGED <<docs, used, edges, late>>

(* wrapIDBOperation: any request may be rejected, and the call ends there. *)
CallFails(c) ==
  /\ call[c].op \notin {"none", "settled"}
  /\ call' = [call EXCEPT ![c] = Settled]
  /\ UNCHANGED <<docs, used, graph, calls, backup>>

CallSteps(c) ==
  \/ Insert(c) \/ InsertMany(c) \/ ClearAll(c)
  \/ AddNode(c) \/ AddEdge(c) \/ RemoveEdge(c)
  \/ UpdateFinds(c) \/ UpdatePuts(c) \/ DeleteFinds(c) \/ DeleteErases(c)
  \/ RemoveListsEdges(c) \/ RemoveCutsEdges(c) \/ RemoveDropsNode(c)
  \/ CallFails(c)

-----------------------------------------------------------------------------
(* LocalCloudBackupAdapter.  What it reads and uploads is not followed.    *)

data == <<docs, used, graph, call>>

RunBackup == inFlight' = IF inFlight = "none" THEN "export" ELSE inFlight

(* The application asks for a backup, so stop() no longer means the last.  *)
BackupNow ==
  /\ calls < MaxCalls
  /\ calls' = calls + 1
  /\ RunBackup
  /\ stop' = "none"
  /\ UNCHANGED <<data, timer>>

BackupStart ==
  /\ calls < MaxCalls /\ ~timer
  /\ calls' = calls + 1
  /\ timer' = TRUE
  /\ stop' = "none"
  /\ RunBackup \/ UNCHANGED inFlight
  /\ UNCHANGED data

IntervalFires == timer /\ RunBackup /\ UNCHANGED <<data, calls, timer, stop>>

Exported ==
  /\ inFlight = "export"
  /\ inFlight' = "upload"
  /\ UNCHANGED <<data, calls, timer, stop>>

(* Uploaded, or either step has failed.                                    *)
BackupEnds ==
  /\ inFlight # "none"
  /\ inFlight' = "none"
  /\ UNCHANGED <<data, calls, timer, stop>>

(* Mutant: the interval is cleared only after the upload.                  *)
BackupStopLate ==
  /\ (timer \/ inFlight # "none") /\ stop = "none"
  /\ stop' = "waiting"
  /\ UNCHANGED <<data, calls, timer, inFlight>>

BackupStop ==
  /\ (timer \/ inFlight # "none") /\ stop = "none"
  /\ timer' = FALSE
  /\ stop' = "waiting"
  /\ UNCHANGED <<data, calls, inFlight>>

StopReturns ==
  /\ stop = "waiting" /\ inFlight = "none"
  /\ stop' = "returned"
  /\ UNCHANGED <<data, calls, timer, inFlight>>

BackupNext ==
  \/ BackupNow \/ BackupStart \/ IntervalFires \/ Exported \/ BackupEnds
  \/ BackupStop \/ StopReturns

-----------------------------------------------------------------------------
StoreTypeOK ==
  /\ docs \in Docs
  /\ used \subseteq Ids \union Nodes
  /\ nodes \subseteq Nodes /\ edges \subseteq Edge /\ late \subseteq Edge
  /\ DOMAIN call = Callers
  /\ \A c \in Callers : call[c] \in Running
  /\ calls \in 0 .. MaxCalls
  /\ timer \in BOOLEAN /\ inFlight \in {"none", "export", "upload"} /\ stop \in {"none", "waiting", "returned"}
  /\ stop = "waiting" => ~timer

(* A document is gone because a call removed it, and a removed document is *)
(* back only because an update had found it before (the race of update()   *)
(* with delete()).                                                         *)
DocsAnswerToCalls ==
  [][ /\ \A d \in DOMAIN docs' \ DOMAIN docs :
           d \in used => \E c \in Callers : call[c].op = "put" /\ d \in DOMAIN call[c].found
      /\ \A d \in DOMAIN docs \ DOMAIN docs' : \E c \in Callers :
           call[c].op = "clear" \/ (call[c].op = "bulkDelete" /\ d \in call[c].found) ]_store

(* removeNode removes "all its connected edges": an edge without its node  *)
(* was added when the removal had already looked for them.                 *)
EdgesJoinNodes == \A e \in edges : Ends(e) \subseteq nodes \/ e \in late

(* Once stop() has returned no backup runs, until one is asked for again.  *)
StopWaits == stop = "returned" => inFlight = "none" /\ ~timer
=============================================================================
