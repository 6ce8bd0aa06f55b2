----------------------------- MODULE SyncEngine -----------------------------
(***************************************************************************)
(* One SyncEngine per peer (packages/sync/src/sync-engine.ts) over its     *)
(* outbox and inbox tables, and the WebRTC data channels between peers as  *)
(* the engine uses them.  JavaScript runs to completion, so an action is   *)
(* the code between two awaits: a user call, a timer, a network event, or  *)
(* the continuation of one IndexedDB request together with that request's  *)
(* effect on the table.                                                    *)
(***************************************************************************)
EXTENDS MutationQueue

CONSTANTS
  Peers,
  AuthorOf,       \* the peer that makes an update
  CollectionOf,   \* the collection an update belongs to
  Fickle,         \* bound: peers that hide or close the tab, disable or dispose
  MaxFlushes,     \* bound: concurrent flushOutbox calls of one engine
  MaxInbound,     \* bound: concurrent handleRemoteUpdate calls, kept rows included
  MaxLinks,       \* bound: WebRTC connections made in a behaviour
  MaxFaults,      \* bound: failed IndexedDB requests and malformed updates
  MaxRestarts     \* bound: tabs closed or crashed, and opened again

ASSUME SyncAssumption ==
  /\ IsFiniteSet(Peers) /\ IsFiniteSet(Collections)
  /\ AuthorOf \in [Updates -> Peers]
  /\ CollectionOf \in [Updates -> Collections]
  /\ Fickle \subseteq Peers
  /\ {MaxFlushes, MaxInbound, MaxLinks, MaxFaults, MaxRestarts} \subseteq Nat

VARIABLES
  written,     \* updates made so far, by any peer
  doc,         \* doc[p]: updates in the Y.Docs p has open
  opened,      \* opened[p][c]: does p have the Y.Doc of c ("loading" until
               \* y-indexeddb has merged what it had stored)
  stored,      \* stored[p]: updates in p's y-indexeddb databases
  pending,     \* pending[p]: pendingUpdates, not yet flushed to the outbox
  timer,       \* timer[p]: syncTimer is armed
  visible,     \* visible[p]: document.visibilityState is not "hidden"
  clock,       \* clock[p]: Date.now() as far as p's rows show it
  adding,      \* adding[p]: outbox rows whose table.add is in flight
  outbox,      \* outbox[p]: the outbox table
  acking,      \* acking[p]: rows handleLocalUpdate sent and is acknowledging
  flushes,     \* flushes[p][s]: the flushOutbox call in slot s
  inbound,     \* inbound[p][i]: the handleRemoteUpdate call in slot i
  inbox,       \* inbox[p]: the inbox table
  enabled,     \* enabled[p]: _enabled
  life,        \* life[p]: has p's engine been disposed of
  shown,       \* shown[p]: the SyncState the application sees
  refreshing,  \* refreshing[p]: a refreshPendingCount is in flight
  link,        \* live WebRTC connections, as pairs of peers
  conn,        \* conn[p]: the peers whose data channel p takes to be open
  wire,        \* packets on the data channels
  emitted,     \* history: updates p's documents handed to queueUpdate
  acked,       \* history: updates of outbox rows p acknowledged
  refused,     \* history: updates whose outbox add failed
  links, faults, restarts

docVars     == <<written, doc, opened, stored>>
batchVars   == <<pending, timer, emitted>>
outVars     == <<clock, adding, outbox, acking, refused>>
inVars      == <<inbound, inbox>>
controlVars == <<enabled, life, visible>>
statusVars  == <<shown, refreshing>>
netVars     == <<link, conn>>
boundVars   == <<links, faults, restarts>>

vars == <<docVars, batchVars, outVars, flushes, acked, wire, inVars,
          controlVars, statusVars, netVars, boundVars>>

-----------------------------------------------------------------------------
FlushSlots   == 1 .. MaxFlushes
InboundSlots == 1 .. MaxInbound

Idle == [pc |-> "idle"]

(* copy says which call sent the packet: 0 is handleLocalUpdate, s > 0 the *)
(* flush in slot s; a row both broadcast travels twice.                    *)
Packet == [from: Peers, to: Peers, row: Row, copy: {0} \union FlushSlots]

FlushCall ==
  [pc: {"idle", "query"}] \union [pc: {"ack"}, row: Row, todo: SUBSET Row]

InboundCall ==
  [pc: {"idle"}] \union [pc: {"adding", "acking", "failing"}, row: Row]

SyncState == [synced: BOOLEAN, pendingUpdates: Nat, connectedPeers: Nat]

InCollection(us, c) == {u \in us : CollectionOf[u] = c}

Linked(p) == {q \in Peers : {p, q} \in link}

(* The lowest free slot, so that equal situations are one state.           *)
FreeFlush(p, s) ==
  /\ flushes[p][s].pc = "idle"
  /\ \A t \in FlushSlots : t < s => flushes[p][t].pc # "idle"

FreeInbound(p, i) ==
  LET Free(j) == inbound[p][j].pc = "idle" /\ \A r \in inbox[p] : r.time # j
  IN  Free(i) /\ \A j \in InboundSlots : j < i => ~Free(j)

(* A request to IndexedDB is rejected, or an update cannot be applied.     *)
Fault ==
  /\ faults < MaxFaults
  /\ faults' = faults + 1
  /\ UNCHANGED <<links, restarts>>

(* Every application has just opened: its collections are loaded, with     *)
(* nothing in them, and sync is enabled unless the peer is fickle.         *)
Init ==
  /\ written = {}
  /\ doc = [p \in Peers |-> {}]
  /\ opened = [p \in Peers |-> [c \in Collections |-> "open"]]
  /\ stored = [p \in Peers |-> {}]
  /\ pending = [p \in Peers |-> {}]
  /\ timer = [p \in Peers |-> FALSE]
  /\ visible = [p \in Peers |-> TRUE]
  /\ clock = [p \in Peers |-> 0]
  /\ adding = [p \in Peers |-> {}]
  /\ outbox = [p \in Peers |-> {}]
  /\ acking = [p \in Peers |-> {}]
  /\ flushes = [p \in Peers |-> [s \in FlushSlots |-> Idle]]
  /\ inbound = [p \in Peers |-> [i \in InboundSlots |-> Idle]]
  /\ inbox = [p \in Peers |-> {}]
  /\ enabled = [p \in Peers |-> p \notin Fickle]
  /\ life = [p \in Peers |-> "running"]
  /\ shown = [p \in Peers |->
               [synced |-> enabled[p], pendingUpdates |-> 0, connectedPeers |-> 0]]
  /\ refreshing = [p \in Peers |-> FALSE]
  /\ link = {}
  /\ conn = [p \in Peers |-> {}]
  /\ wire = {}
  /\ emitted = [p \in Peers |-> {}]
  /\ acked = [p \in Peers |-> {}]
  /\ refused = [p \in Peers |-> {}]
  /\ links = 0
  /\ faults = 0
  /\ restarts = 0

-----------------------------------------------------------------------------
(* Documents: getDoc, its "update" handler, and y-indexeddb.               *)

(* queueUpdate: the batch grows; a timer is armed only in a visible tab.   *)
QueueUpdate(p, us) ==
  /\ pending' = [pending EXCEPT ![p] = @ \union us]
  /\ timer' = [timer EXCEPT ![p] = @ \/ (us # {} /\ visible[p])]
  /\ emitted' = [emitted EXCEPT ![p] = @ \union us]

(* getDoc creates the document of c, and starts loading it, on first use.  *)
GetDoc(p, c) ==
  opened' = [opened EXCEPT ![p][c] = IF @ = "no" THEN "loading" ELSE @]

OpenDoc(p, c) ==
  /\ life[p] = "running"
  /\ opened[p][c] = "no"
  /\ GetDoc(p, c)
  /\ UNCHANGED <<written, doc, stored, batchVars, outVars, flushes, acked, wire,
                 inVars, controlVars, statusVars, netVars, boundVars>>

(* A transaction of the application: its update event has origin # remote. *)
LocalWrite(p, u) ==
  /\ life[p] # "disposed"
  /\ AuthorOf[u] = p
  /\ u \notin written
  /\ written' = written \union {u}
  /\ doc' = [doc EXCEPT ![p] = @ \union {u}]
  /\ GetDoc(p, CollectionOf[u])
  /\ QueueUpdate(p, {u})
  /\ UNCHANGED <<stored, outVars, flushes, acked, wire, inVars, controlVars,
                 statusVars, netVars, boundVars>>

(* y-indexeddb merges the stored updates with itself as the origin, which  *)
(* is not "remote": what is new to the document is queued for sending.     *)
LoadDoc(p, c) ==
  LET new == InCollection(stored[p], c) \ doc[p] IN
  /\ opened[p][c] = "loading"
  /\ opened' = [opened EXCEPT ![p][c] = "open"]
  /\ doc' = [doc EXCEPT ![p] = @ \union new]
  /\ QueueUpdate(p, new)
  /\ UNCHANGED <<written, stored, outVars, flushes, acked, wire, inVars,
                 controlVars, statusVars, netVars, boundVars>>

(* y-indexeddb has written what an open document gained to its database.   *)
Persist(p, c) ==
  /\ opened[p][c] = "open"
  /\ ~ InCollection(doc[p], c) \subseteq stored[p]
  /\ stored' = [stored EXCEPT ![p] = @ \union InCollection(doc[p], c)]
  /\ UNCHANGED <<written, doc, opened, batchVars, outVars, flushes, acked, wire,
                 inVars, controlVars, statusVars, netVars, boundVars>>

-----------------------------------------------------------------------------
(* The batch: flushUpdates, its timer and the visibility of the tab.       *)

(* One handleLocalUpdate per collection, each starting an outbox add.      *)
FlushedRows(p) ==
  {NewRow(clock[p], c, InCollection(pending[p], c)) :
     c \in {d \in Collections : InCollection(pending[p], d) # {}}}

FlushUpdates(p) ==
  /\ timer' = [timer EXCEPT ![p] = FALSE]
  /\ adding' = [adding EXCEPT ![p] = @ \union FlushedRows(p)]
  /\ clock' = [clock EXCEPT ![p] = IF pending[p] = {} THEN @ ELSE @ + 1]
  /\ pending' = [pending EXCEPT ![p] = {}]

TimerFires(p) ==
  /\ timer[p]
  /\ FlushUpdates(p)
  /\ UNCHANGED <<docVars, emitted, outbox, acking, refused, flushes, acked,
                 wire, inVars, controlVars, statusVars, netVars, boundVars>>

(* Mutant: hiding the tab cancels the batch with its timer.                *)
TabHiddenDropsBatch(p) ==
  /\ p \in Fickle
  /\ visible[p]
  /\ visible' = [visible EXCEPT ![p] = FALSE]
  /\ timer' = [timer EXCEPT ![p] = FALSE]
  /\ pending' = [pending EXCEPT ![p] = {}]
  /\ UNCHANGED <<docVars, emitted, outVars, flushes, acked, wire, inVars,
                 enabled, life, statusVars, netVars, boundVars>>

(* dispose() has removed the listener of a disposed engine.                *)
TabHidden(p) ==
  /\ p \in Fickle
  /\ visible[p]
  /\ visible' = [visible EXCEPT ![p] = FALSE]
  /\ timer' = [timer EXCEPT ![p] = @ /\ life[p] # "running"]
  /\ UNCHANGED <<docVars, pending, emitted, outVars, flushes, acked, wire,
                 inVars, enabled, life, statusVars, netVars, boundVars>>

(* Mutant: the tab becoming visible does not look at the batch.            *)
TabVisibleForgets(p) ==
  /\ ~visible[p]
  /\ visible' = [visible EXCEPT ![p] = TRUE]
  /\ UNCHANGED <<docVars, batchVars, outVars, flushes, acked, wire, inVars,
                 enabled, life, statusVars, netVars, boundVars>>

TabVisible(p) ==
  /\ ~visible[p]
  /\ visible' = [visible EXCEPT ![p] = TRUE]
  /\ IF life[p] = "running" /\ pending[p] # {} /\ ~timer[p]
     THEN FlushUpdates(p)
     ELSE UNCHANGED <<timer, adding, clock, pending>>
  /\ UNCHANGED <<docVars, emitted, outbox, acking, refused, flushes, acked,
                 wire, inVars, enabled, life, statusVars, netVars, boundVars>>

-----------------------------------------------------------------------------
(* Sending: handleLocalUpdate and flushOutbox.                             *)

(* NetworkManager.broadcast: to every peer it takes to be connected.  What *)
(* is sent over a connection that has died is lost.                        *)
Broadcast(p, r, copy) ==
  wire' = wire \union
    {[from |-> p, to |-> q, row |-> r, copy |-> copy] : q \in conn[p] \cap Linked(p)}

(* handleLocalUpdate after the outbox add has committed.                   *)
OutboxAdded(p, r) ==
  /\ r \in adding[p]
  /\ adding' = [adding EXCEPT ![p] = @ \ {r}]
  /\ outbox' = [outbox EXCEPT ![p] = Enqueue(@, r)]
  /\ refreshing' = [refreshing EXCEPT ![p] = TRUE]
  /\ IF enabled[p] /\ conn[p] # {}
     THEN /\ Broadcast(p, r, 0)
          /\ acking' = [acking EXCEPT ![p] = @ \union {r}]
     ELSE UNCHANGED <<wire, acking>>
  /\ UNCHANGED <<docVars, batchVars, clock, refused, flushes, acked, inVars,
                 controlVars, shown, netVars, boundVars>>

(* The add was rejected: the catch swallows it, and nothing is sent.       *)
OutboxAddFails(p, r) ==
  /\ r \in adding[p]
  /\ Fault
  /\ adding' = [adding EXCEPT ![p] = @ \ {r}]
  /\ refused' = [refused EXCEPT ![p] = @ \union r.updates]
  /\ UNCHANGED <<docVars, batchVars, clock, outbox, acking, flushes, acked,
                 wire, inVars, controlVars, statusVars, netVars>>

(* Mutant: acknowledge does not announce its change of the table.          *)
AcknowledgeSilently(p, r) ==
  /\ outbox' = [outbox EXCEPT ![p] = Acknowledge(@, r)]
  /\ acked' = [acked EXCEPT ![p] = @ \union r.updates]
  /\ UNCHANGED refreshing

(* Outbox acknowledge: a change is announced only if the row was there.    *)
AcknowledgeOutbox(p, r) ==
  /\ outbox' = [outbox EXCEPT ![p] = Acknowledge(@, r)]
  /\ refreshing' = [refreshing EXCEPT ![p] = @ \/ r \in outbox[p]]
  /\ acked' = [acked EXCEPT ![p] = @ \union r.updates]

LocalAcked(p, r) ==
  /\ r \in acking[p]
  /\ acking' = [acking EXCEPT ![p] = @ \ {r}]
  /\ AcknowledgeOutbox(p, r)
  /\ UNCHANGED <<docVars, batchVars, clock, adding, refused, flushes, wire,
                 inVars, controlVars, shown, netVars, boundVars>>

LocalAckFails(p, r) ==
  /\ r \in acking[p]
  /\ Fault
  /\ acking' = [acking EXCEPT ![p] = @ \ {r}]
  /\ UNCHANGED <<docVars, batchVars, clock, adding, outbox, refused, flushes,
                 acked, wire, inVars, controlVars, statusVars, netVars>>

(* Mutant: enable() flushes the outbox before it sets _enabled.            *)
StartFlushBeforeEnabled(p) ==
  IF enabled[p] /\ conn'[p] # {}
  THEN \E s \in FlushSlots :
         /\ FreeFlush(p, s)
         /\ flushes' = [flushes EXCEPT ![p][s] = [pc |-> "query"]]
  ELSE UNCHANGED flushes

(* Mutant: the network manager reports a peer before it counts it.         *)
StartFlushBeforeConnected(p) ==
  IF enabled'[p] /\ conn[p] # {}
  THEN \E s \in FlushSlots :
         /\ FreeFlush(p, s)
         /\ flushes' = [flushes EXCEPT ![p][s] = [pc |-> "query"]]
  ELSE UNCHANGED flushes

(* flushOutbox as enable() and onPeerConnected call it: the two guards are *)
(* evaluated once, here, and then getPending is asked for.                 *)
StartFlush(p) ==
  IF enabled'[p] /\ conn'[p] # {}
  THEN \E s \in FlushSlots :
         /\ FreeFlush(p, s)
         /\ flushes' = [flushes EXCEPT ![p][s] = [pc |-> "query"]]
  ELSE UNCHANGED flushes

(* The next turn of the loop over todo, up to the await of acknowledge.    *)
FlushTurn(p, s, todo) ==
  IF todo = {}
  THEN /\ flushes' = [flushes EXCEPT ![p][s] = Idle]
       /\ UNCHANGED wire
  ELSE \E r \in todo :
         /\ IsNext(r, todo)
         /\ Broadcast(p, r, s)
         /\ flushes' = [flushes EXCEPT ![p][s] =
                          [pc |-> "ack", row |-> r, todo |-> todo \ {r}]]

FlushQueried(p, s) ==
  /\ flushes[p][s].pc = "query"
  /\ FlushTurn(p, s, GetPending(outbox[p]))
  /\ UNCHANGED <<docVars, batchVars, outVars, acked, inVars, controlVars,
                 statusVars, netVars, boundVars>>

FlushAcked(p, s) ==
  /\ flushes[p][s].pc = "ack"
  /\ AcknowledgeOutbox(p, flushes[p][s].row)
  /\ FlushTurn(p, s, flushes[p][s].todo)
  /\ UNCHANGED <<docVars, batchVars, clock, adding, acking, refused, inVars,
                 controlVars, shown, netVars, boundVars>>

(* A rejected request leaves the loop with the rows it has not acked.      *)
FlushFails(p, s) ==
  /\ flushes[p][s].pc # "idle"
  /\ Fault
  /\ flushes' = [flushes EXCEPT ![p][s] = Idle]
  /\ UNCHANGED <<docVars, batchVars, outVars, acked, wire, inVars,
                 controlVars, statusVars, netVars>>

(* refreshPendingCount.  The calls in flight are one flag: a change raises *)
(* it again, so the last count shown is taken after the last change.       *)
PendingCounted(p) ==
  /\ refreshing[p]
  /\ refreshing' = [refreshing EXCEPT ![p] = FALSE]
  /\ shown' = [shown EXCEPT ![p].pendingUpdates = PendingCount(outbox[p])]
  /\ UNCHANGED <<docVars, batchVars, outVars, flushes, acked, wire,
                 inVars, controlVars, netVars, boundVars>>

-----------------------------------------------------------------------------
(* Receiving: onPeerUpdate and handleRemoteUpdate.                         *)

(* A packet reaches p's NetworkManager; with sync disabled nobody listens. *)
Deliver(p, m) ==
  /\ m \in wire
  /\ m.to = p
  /\ wire' = wire \ {m}
  /\ IF enabled[p]
     THEN \E i \in InboundSlots :
            /\ FreeInbound(p, i)
            /\ inbound' = [inbound EXCEPT ![p][i] =
                 [pc |-> "adding", row |-> NewRow(i, m.row.collection, m.row.updates)]]
     ELSE UNCHANGED inbound
  /\ UNCHANGED <<docVars, batchVars, outVars, flushes, acked, inbox,
                 controlVars, statusVars, netVars, boundVars>>

(* Mutant: the update handler does not look at the origin.                 *)
ApplyRemoteEchoes(p, r) ==
  /\ GetDoc(p, r.collection)
  /\ doc' = [doc EXCEPT ![p] = @ \union r.updates]
  /\ QueueUpdate(p, r.updates \ doc[p])
  /\ UNCHANGED <<written, stored>>

(* Y.applyUpdate(doc, update, "remote"): the update handler returns early. *)
ApplyRemote(p, r) ==
  /\ GetDoc(p, r.collection)
  /\ doc' = [doc EXCEPT ![p] = @ \union r.updates]
  /\ UNCHANGED <<written, stored, pending, timer, emitted>>

(* The inbox add has committed; the update is applied in the same turn.    *)
InboxAdded(p, i) ==
  LET r == inbound[p][i].row IN
  /\ inbound[p][i].pc = "adding"
  /\ inbox' = [inbox EXCEPT ![p] = Enqueue(@, r)]
  /\ ApplyRemote(p, r)
  /\ inbound' = [inbound EXCEPT ![p][i].pc = "acking"]
  /\ UNCHANGED <<outVars, flushes, acked, wire, controlVars, statusVars,
                 netVars, boundVars>>

(* The inbox add was rejected: the update is applied all the same.         *)
InboxAddFails(p, i) ==
  /\ inbound[p][i].pc = "adding"
  /\ Fault
  /\ ApplyRemote(p, inbound[p][i].row)
  /\ inbound' = [inbound EXCEPT ![p][i] = Idle]
  /\ UNCHANGED <<outVars, flushes, acked, wire, inbox, controlVars,
                 statusVars, netVars>>

(* Y.applyUpdate throws on a malformed update: the row is to be failed.    *)
ApplyThrows(p, i) ==
  LET r == inbound[p][i].row IN
  /\ inbound[p][i].pc = "adding"
  /\ Fault
  /\ inbox' = [inbox EXCEPT ![p] = Enqueue(@, r)]
  /\ GetDoc(p, r.collection)
  /\ inbound' = [inbound EXCEPT ![p][i].pc = "failing"]
  /\ UNCHANGED <<written, doc, stored, batchVars, outVars, flushes, acked,
                 wire, controlVars, statusVars, netVars>>

InboxAcked(p, i) ==
  /\ inbound[p][i].pc = "acking"
  /\ inbox' = [inbox EXCEPT ![p] = Acknowledge(@, inbound[p][i].row)]
  /\ inbound' = [inbound EXCEPT ![p][i] = Idle]
  /\ UNCHANGED <<docVars, batchVars, outVars, flushes, acked, wire,
                 controlVars, statusVars, netVars, boundVars>>

(* The catch of a failed acknowledge marks the row, too.                   *)
InboxAckFails(p, i) ==
  /\ inbound[p][i].pc = "acking"
  /\ Fault
  /\ inbound' = [inbound EXCEPT ![p][i].pc = "failing"]
  /\ UNCHANGED <<docVars, batchVars, outVars, flushes, acked, wire,
                 inbox, controlVars, statusVars, netVars>>

InboxMarkedFailed(p, i) ==
  /\ inbound[p][i].pc = "failing"
  /\ inbox' = [inbox EXCEPT ![p] = MarkFailed(@, inbound[p][i].row)]
  /\ inbound' = [inbound EXCEPT ![p][i] = Idle]
  /\ UNCHANGED <<docVars, batchVars, outVars, flushes, acked, wire,
                 controlVars, statusVars, netVars, boundVars>>

-----------------------------------------------------------------------------
(* Control: enable, disable, dispose, and the end of the tab.              *)

Enable(p) ==
  /\ life[p] = "running"
  /\ ~enabled[p]
  /\ enabled' = [enabled EXCEPT ![p] = TRUE]
  /\ shown' = [shown EXCEPT ![p].synced = TRUE,
                            ![p].connectedPeers = Cardinality(conn[p])]
  /\ UNCHANGED conn
  /\ StartFlush(p)
  /\ UNCHANGED <<docVars, batchVars, outVars, acked, wire, inVars, life, visible,
                 refreshing, link, boundVars>>

StopSync(p) ==
  /\ enabled' = [enabled EXCEPT ![p] = FALSE]
  /\ shown' = [shown EXCEPT ![p].synced = FALSE, ![p].connectedPeers = 0]

Disable(p) ==
  /\ p \in Fickle
  /\ life[p] = "running"
  /\ enabled[p]
  /\ StopSync(p)
  /\ UNCHANGED <<docVars, batchVars, outVars, flushes, acked, wire, inVars,
                 life, visible, refreshing, netVars, boundVars>>

(* dispose() up to its first await: persistence.destroy().                 *)
Dispose(p) ==
  /\ p \in Fickle
  /\ life[p] = "running"
  /\ life' = [life EXCEPT ![p] = "disposing"]
  /\ StopSync(p)
  /\ timer' = [timer EXCEPT ![p] = FALSE]
  /\ UNCHANGED <<docVars, pending, emitted, outVars, flushes, acked, wire,
                 inVars, visible, refreshing, netVars, boundVars>>

(* Mutant: dispose() deletes the databases instead of closing them.        *)
DisposedDeletes(p) ==
  /\ life[p] = "disposing"
  /\ life' = [life EXCEPT ![p] = "disposed"]
  /\ doc' = [doc EXCEPT ![p] = {}]
  /\ opened' = [opened EXCEPT ![p] = [c \in Collections |-> "no"]]
  /\ stored' = [stored EXCEPT ![p] = {}]
  /\ pending' = [pending EXCEPT ![p] = {}]
  /\ UNCHANGED <<written, timer, emitted, outVars, flushes, acked, wire,
                 inVars, enabled, visible, statusVars, netVars, boundVars>>

(* The rest of dispose(): the documents and the batch are dropped.         *)
Disposed(p) ==
  /\ life[p] = "disposing"
  /\ life' = [life EXCEPT ![p] = "disposed"]
  /\ doc' = [doc EXCEPT ![p] = {}]
  /\ opened' = [opened EXCEPT ![p] = [c \in Collections |-> "no"]]
  /\ pending' = [pending EXCEPT ![p] = {}]
  /\ UNCHANGED <<written, stored, timer, emitted, outVars, flushes, acked, wire,
                 inVars, enabled, visible, statusVars, netVars, boundVars>>

(* The outbox rows, and the inbox rows, with a request in flight.          *)
BeingAcked(p) ==
  acking[p] \union
    {flushes[p][s].row : s \in {t \in FlushSlots : flushes[p][t].pc = "ack"}}

InboundRows(p, pc) ==
  {inbound[p][i].row : i \in {j \in InboundSlots : inbound[p][j].pc = pc}}

(* The tab goes away and the application is opened again.  IndexedDB keeps *)
(* its tables; each request in flight has or has not reached them.         *)
Restart(p) ==
  /\ p \in Fickle
  /\ restarts < MaxRestarts
  /\ restarts' = restarts + 1
  /\ \E added \in SUBSET adding[p], gone \in SUBSET BeingAcked(p) :
       outbox' = [outbox EXCEPT ![p] = (@ \union added) \ gone]
  /\ \E added \in SUBSET InboundRows(p, "adding"), gone \in SUBSET InboundRows(p, "acking") :
       inbox' = [inbox EXCEPT ![p] = (@ \union added) \ gone]
  /\ doc' = [doc EXCEPT ![p] = {}]
  /\ opened' = [opened EXCEPT ![p] = [c \in Collections |-> "no"]]
  /\ pending' = [pending EXCEPT ![p] = {}]
  /\ timer' = [timer EXCEPT ![p] = FALSE]
  /\ visible' = [visible EXCEPT ![p] = TRUE]
  /\ adding' = [adding EXCEPT ![p] = {}]
  /\ acking' = [acking EXCEPT ![p] = {}]
  /\ flushes' = [flushes EXCEPT ![p] = [s \in FlushSlots |-> Idle]]
  /\ inbound' = [inbound EXCEPT ![p] = [i \in InboundSlots |-> Idle]]
  /\ enabled' = [enabled EXCEPT ![p] = FALSE]
  /\ life' = [life EXCEPT ![p] = "running"]
  /\ shown' = [shown EXCEPT ![p] =
                 [synced |-> FALSE, pendingUpdates |-> 0, connectedPeers |-> 0]]
  /\ refreshing' = [refreshing EXCEPT ![p] = TRUE]
  /\ link' = {pair \in link : p \notin pair}
  /\ conn' = [conn EXCEPT ![p] = {}]
  /\ wire' = {m \in wire : p \notin {m.from, m.to}}
  /\ emitted' = [emitted EXCEPT ![p] = {}]
  /\ acked' = [acked EXCEPT ![p] = {}]
  /\ refused' = [refused EXCEPT ![p] = {}]
  /\ UNCHANGED <<written, stored, clock, links, faults>>

-----------------------------------------------------------------------------
(* Connections.  Each side learns of a change by its own event.            *)

LinkUp(p, q) ==
  /\ p # q
  /\ {p, q} \notin link
  /\ p \notin conn[q] /\ q \notin conn[p]
  /\ links < MaxLinks
  /\ links' = links + 1
  /\ link' = link \union {{p, q}}
  /\ UNCHANGED <<docVars, batchVars, outVars, flushes, acked, wire, inVars,
                 controlVars, statusVars, conn, faults, restarts>>

LinkDown(p, q) ==
  /\ {p, q} \in link
  /\ link' = link \ {{p, q}}
  /\ wire' = {m \in wire : {m.from, m.to} # {p, q}}
  /\ UNCHANGED <<docVars, batchVars, outVars, flushes, acked, inVars,
                 controlVars, statusVars, conn, boundVars>>

(* The engine's listeners are registered only while it is enabled.         *)
ShowPeers(p) ==
  shown' = [shown EXCEPT ![p].connectedPeers =
              IF enabled[p] THEN Cardinality(conn'[p]) ELSE @]

PeerConnected(p, q) ==
  /\ {p, q} \in link
  /\ q # p
  /\ q \notin conn[p]
  /\ conn' = [conn EXCEPT ![p] = @ \union {q}]
  /\ ShowPeers(p)
  /\ UNCHANGED enabled
  /\ StartFlush(p)
  /\ UNCHANGED <<docVars, batchVars, outVars, acked, wire, inVars, life, visible,
                 refreshing, link, boundVars>>

PeerDisconnected(p, q) ==
  /\ q \in conn[p]
  /\ {p, q} \notin link
  /\ conn' = [conn EXCEPT ![p] = @ \ {q}]
  /\ ShowPeers(p)
  /\ UNCHANGED <<docVars, batchVars, outVars, flushes, acked, wire, inVars,
                 controlVars, refreshing, link, boundVars>>

-----------------------------------------------------------------------------
User(p) ==
  \/ \E c \in Collections : OpenDoc(p, c)
  \/ \E u \in Updates : LocalWrite(p, u)
  \/ TabHidden(p)
  \/ TabVisible(p)
  \/ Enable(p)
  \/ Disable(p)
  \/ Dispose(p)
  \/ Restart(p)

Storage(p) == \E c \in Collections : LoadDoc(p, c) \/ Persist(p, c)

Sending(p) ==
  \/ TimerFires(p)
  \/ \E r \in adding[p] : OutboxAdded(p, r)
  \/ \E r \in acking[p] : LocalAcked(p, r)
  \/ \E s \in FlushSlots : FlushQueried(p, s) \/ FlushAcked(p, s)
  \/ PendingCounted(p)

Receiving(p) ==
  \/ \E m \in wire : Deliver(p, m)
  \/ \E i \in InboundSlots : InboxAdded(p, i) \/ InboxAcked(p, i) \/ InboxMarkedFailed(p, i)

Failing(p) ==
  \/ \E r \in adding[p] : OutboxAddFails(p, r)
  \/ \E r \in acking[p] : LocalAckFails(p, r)
  \/ \E s \in FlushSlots : FlushFails(p, s)
  \/ \E i \in InboundSlots : InboxAddFails(p, i) \/ ApplyThrows(p, i) \/ InboxAckFails(p, i)

Connecting(p) == \E q \in Peers :
  LinkUp(p, q) \/ LinkDown(p, q) \/ PeerConnected(p, q) \/ PeerDisconnected(p, q)

Next == \E p \in Peers :
  User(p) \/ Storage(p) \/ Sending(p) \/ Receiving(p) \/ Failing(p) \/ Connecting(p)
         \/ Disposed(p)

Spec == Init /\ [][Next]_vars

(* IndexedDB answers, timers fire, packets on a live channel arrive and    *)
(* connections are made; nothing is assumed of users, failures or loss.    *)
Fairness == \A p \in Peers :
  /\ \A c \in Collections : WF_vars(LoadDoc(p, c))
  /\ WF_vars(TimerFires(p))
  /\ WF_vars(\E r \in adding[p] : OutboxAdded(p, r))
  /\ WF_vars(\E r \in acking[p] : LocalAcked(p, r))
  /\ \A s \in FlushSlots : WF_vars(FlushQueried(p, s) \/ FlushAcked(p, s))
  /\ WF_vars(PendingCounted(p))
  /\ WF_vars(\E m \in wire : Deliver(p, m))
  /\ \A i \in InboundSlots :
       WF_vars(InboxAdded(p, i) \/ InboxAcked(p, i) \/ InboxMarkedFailed(p, i))
  /\ WF_vars(Disposed(p))
  /\ \A q \in Peers :
       WF_vars(LinkUp(p, q)) /\ WF_vars(PeerConnected(p, q)) /\ WF_vars(PeerDisconnected(p, q))

FairSpec == Spec /\ Fairness

-----------------------------------------------------------------------------
DocType ==
  /\ written \subseteq Updates
  /\ doc \in [Peers -> SUBSET Updates]
  /\ opened \in [Peers -> [Collections -> {"no", "loading", "open"}]]
  /\ stored \in [Peers -> SUBSET Updates]

BatchType ==
  /\ pending \in [Peers -> SUBSET Updates]
  /\ timer \in [Peers -> BOOLEAN]
  /\ emitted \in [Peers -> SUBSET Updates]

OutType ==
  /\ clock \in [Peers -> Nat]
  /\ adding \in [Peers -> SUBSET Row]
  /\ outbox \in [Peers -> SUBSET Row]
  /\ acking \in [Peers -> SUBSET Row]
  /\ refused \in [Peers -> SUBSET Updates]

FlushType == flushes \in [Peers -> [FlushSlots -> FlushCall]]

AckedType == acked \in [Peers -> SUBSET Updates]

WireType == wire \subseteq Packet

InType ==
  /\ inbound \in [Peers -> [InboundSlots -> InboundCall]]
  /\ inbox \in [Peers -> SUBSET Row]

ControlType ==
  /\ enabled \in [Peers -> BOOLEAN]
  /\ life \in [Peers -> {"running", "disposing", "disposed"}]
  /\ visible \in [Peers -> BOOLEAN]

StatusType ==
  /\ shown \in [Peers -> SyncState]
  /\ refreshing \in [Peers -> BOOLEAN]

NetType ==
  /\ link \subseteq {{p, q} : p, q \in Peers}
  /\ conn \in [Peers -> SUBSET Peers]

BoundType == {links, faults, restarts} \subseteq Nat

TypeOK ==
  /\ DocType /\ BatchType /\ OutType /\ FlushType /\ AckedType /\ WireType
  /\ InType /\ ControlType /\ StatusType /\ NetType /\ BoundType

(* A local write is never forgotten between the document and the wire: as  *)
(* long as the engine lives, every update its documents emitted is in the  *)
(* batch, on its way into the outbox, in the outbox, acknowledged, or was  *)
(* refused by IndexedDB -- whatever the tab's visibility, sync being       *)
(* switched off and on, and the peers do.                                  *)
NoWriteForgotten == \A p \in Peers :
  life[p] = "running" =>
    emitted[p] \subseteq pending[p] \union Payload(adding[p])
                 \union Payload(outbox[p]) \union acked[p] \union refused[p]

(* A visible tab never sits on a batch with no timer to send it (the       *)
(* timer is skipped while hidden, cancelled on hiding, and only restarted  *)
(* by the next write or by the tab becoming visible).                      *)
FlushArmed == \A p \in Peers :
  life[p] = "running" /\ visible[p] /\ pending[p] # {} => timer[p]

(* "Don't echo back remote updates": until the application is opened again *)
(* or disposes of the engine, what a peer sends is what it wrote itself.   *)
OwnUpdates(p) == {u \in Updates : AuthorOf[u] = p}
NoEcho == \A p \in Peers :
  restarts = 0 /\ life[p] # "disposed" =>
    pending[p] \union Payload(adding[p]) \union Payload(outbox[p]) \subseteq OwnUpdates(p)

(* The pending count the application is shown is the number of pending     *)
(* outbox rows whenever no recount is on its way: no change to the table   *)
(* goes unannounced, whichever of the concurrent senders made it.          *)
PendingCountFresh == \A p \in Peers :
  ~refreshing[p] => shown[p].pendingUpdates = PendingCount(outbox[p])

(* Nothing is stranded between the check-then-await steps of the senders:  *)
(* if sync stays enabled in a visible tab that stays connected, and no     *)
(* request fails, every write comes to be broadcast and acknowledged.      *)
Sendable(p) == life[p] = "running" /\ enabled[p] /\ visible[p] /\ conn[p] # {}
Unsent(p) == pending[p] \union Payload(adding[p]) \union Payload(outbox[p])
WritesAreSent == \A p \in Peers :
  <>[]Sendable(p) => []<>(Unsent(p) = {})

(* Two peers that enable sync before they are connected, and stay so, end  *)
(* with the same documents, however writing, queueing, connecting, hiding  *)
(* and showing the tab interleave.                                         *)
Converged == \A p, q \in Peers : doc[p] = doc[q]
StableSession ==
  /\ \A p \in Peers : [](link # {} => enabled[p]) /\ <>[]visible[p]
  /\ \A p, q \in Peers : []({p, q} \in link => []({p, q} \in link))
ConvergesOverStableLinks == StableSession => <>[]Converged

(* "Sync order doesn't matter -- eventual consistency is guaranteed"       *)
(* (ARCHITECTURE.md): peers that end up connected to each other for good   *)
(* end up with the same documents.                                         *)
EventualConsistency ==
  <>[](\A p, q \in Peers : p # q => q \in conn[p] /\ {p, q} \in link) => <>[]Converged

R == INSTANCE Replication WITH replica <- doc, saved <- stored

(* The engines implement the replication the documents describe: whatever  *)
(* the queues, connections, failures and restarts, a document only gains   *)
(* updates some peer has written, and only a restart or a dispose empties  *)
(* it, leaving what was saved.                                             *)
Replicates == R!Spec
=============================================================================
