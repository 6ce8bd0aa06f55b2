-------------------------- MODULE SyncEngineProofs --------------------------
(***************************************************************************)
(* Theorems about SyncEngine, for every set of peers, updates and          *)
(* collections and every value of the bounds.                              *)
(***************************************************************************)
EXTENDS SyncEngine, FiniteSetTheorems, TLAPS

(* A batch flushed to the outbox loses none of its updates.                *)
LEMMA FlushKeepsUpdates ==
  ASSUME SyncAssumption, TypeOK, NEW p \in Peers
  PROVE  /\ Payload(FlushedRows(p)) = pending[p]
         /\ FlushedRows(p) \subseteq Row
         /\ IsFiniteSet(FlushedRows(p))
<1> DEFINE Touched == {d \in Collections : InCollection(pending[p], d) # {}}
           RowOf(c) == NewRow(clock[p], c, InCollection(pending[p], c))
<1>0. pending[p] \subseteq Updates /\ clock[p] \in Nat
  BY DEF TypeOK, BatchType, OutType
<1>1. ASSUME NEW c \in Collections
      PROVE  /\ RowOf(c) \in Row
             /\ RowOf(c).updates = InCollection(pending[p], c)
  BY <1>0 DEF NewRow, Row, InCollection
<1>2. FlushedRows(p) = {RowOf(c) : c \in Touched}
  BY DEF FlushedRows
<1>3. FlushedRows(p) \subseteq Row
  BY <1>1, <1>2
<1>4. IsFiniteSet(FlushedRows(p))
  <2>1. IsFiniteSet(Touched)
    BY FS_Subset DEF SyncAssumption
  <2> DEFINE f == [c \in Touched |-> RowOf(c)]
  <2>2. f \in Surjection(Touched, FlushedRows(p))
    BY <1>2 DEF Surjection
  <2>3. QED
    BY <2>1, <2>2, FS_Surjection
<1>5. ASSUME NEW r \in FlushedRows(p), NEW u \in r.updates
      PROVE  u \in pending[p]
  <2>1. PICK c \in Collections : r = RowOf(c)
    BY <1>2
  <2>2. QED
    BY <1>1, <2>1 DEF InCollection
<1>6. ASSUME NEW u \in pending[p]
      PROVE  u \in Payload(FlushedRows(p))
  <2> DEFINE c == CollectionOf[u]
  <2>1. c \in Collections /\ u \in InCollection(pending[p], c)
    BY <1>0 DEF SyncAssumption, InCollection
  <2>2. RowOf(c) \in FlushedRows(p) /\ u \in RowOf(c).updates
    BY <1>1, <1>2, <2>1
  <2>3. QED
    BY <2>2 DEF Payload
<1>7. Payload(FlushedRows(p)) = pending[p]
  BY <1>5, <1>6 DEF Payload
<1>8. QED
  BY <1>3, <1>4, <1>7

-----------------------------------------------------------------------------
(* The tables are finite, so that the count the application is shown is a  *)
(* number.                                                                 *)
FiniteTables == \A p \in Peers : IsFiniteSet(adding[p]) /\ IsFiniteSet(outbox[p])

(* What the records that calls in flight are kept in hold, and how they    *)
(* change.                                                                 *)
LEMMA CallTypes ==
  /\ Idle \in FlushCall /\ Idle \in InboundCall /\ [pc |-> "query"] \in FlushCall
  /\ \A r \in Row, todo \in SUBSET Row :
       [pc |-> "ack", row |-> r, todo |-> todo] \in FlushCall
  /\ \A r \in Row : [pc |-> "adding", row |-> r] \in InboundCall
  /\ \A f \in FlushCall : f.pc = "ack" => f.row \in Row /\ f.todo \in SUBSET Row
  /\ \A f \in InboundCall : f.pc \in {"adding", "acking", "failing"} =>
       /\ f.row \in Row
       /\ [f EXCEPT !.pc = "acking"] \in InboundCall
       /\ [f EXCEPT !.pc = "failing"] \in InboundCall
<1>1. \A f \in FlushCall : f.pc = "ack" => f.row \in Row /\ f.todo \in SUBSET Row
  BY DEF FlushCall
<1>2. ASSUME NEW f \in InboundCall, f.pc \in {"adding", "acking", "failing"}
      PROVE  /\ f.row \in Row
             /\ [f EXCEPT !.pc = "acking"] \in InboundCall
             /\ [f EXCEPT !.pc = "failing"] \in InboundCall
  BY <1>2 DEF InboundCall
<1>3. QED
  BY <1>1, <1>2 DEF FlushCall, InboundCall, Idle

LEMMA ShownTypes ==
  /\ \A st \in SyncState, n \in Nat, b \in BOOLEAN :
       /\ [st EXCEPT !.pendingUpdates = n] \in SyncState
       /\ [st EXCEPT !.connectedPeers = n] \in SyncState
       /\ [st EXCEPT !.synced = b, !.connectedPeers = n] \in SyncState
  /\ [synced |-> FALSE, pendingUpdates |-> 0, connectedPeers |-> 0] \in SyncState
BY DEF SyncState

LEMMA RowTypes ==
  /\ \A t \in Nat, c \in Collections, us \in SUBSET Updates : NewRow(t, c, us) \in Row
  /\ \A r \in Row : /\ r.time \in Nat /\ r.collection \in Collections
                    /\ r.updates \in SUBSET Updates
                    /\ [r EXCEPT !.status = "failed"] \in Row
BY DEF Row, NewRow

(* The counts shown are numbers.                                           *)
LEMMA CountTypes ==
  ASSUME SyncAssumption, FiniteTables, NEW p \in Peers
  PROVE  /\ PendingCount(outbox[p]) \in Nat
         /\ \A ps \in SUBSET Peers : Cardinality(ps) \in Nat
<1>1. IsFiniteSet(GetPending(outbox[p]))
  BY FS_Subset DEF FiniteTables, GetPending
<1>2. ASSUME NEW ps \in SUBSET Peers
      PROVE  Cardinality(ps) \in Nat
  BY FS_Subset, FS_CardinalityType DEF SyncAssumption
<1>3. QED
  BY <1>1, <1>2, FS_CardinalityType DEF PendingCount

LEMMA InitType == SyncAssumption => (Init => TypeOK /\ FiniteTables)
<1> SUFFICES ASSUME SyncAssumption, Init
             PROVE  TypeOK /\ FiniteTables
  OBVIOUS
<1>1. Idle \in FlushCall /\ Idle \in InboundCall
  BY DEF Idle, FlushCall, InboundCall
<1>2. DocType /\ BatchType
  BY DEF Init, DocType, BatchType
<1>3. OutType /\ WireType /\ AckedType /\ NetType /\ BoundType
  BY DEF Init, OutType, WireType, AckedType, NetType, BoundType
<1>4. FlushType /\ InType
  BY <1>1 DEF Init, FlushType, InType
<1>5. ControlType
  BY DEF Init, ControlType
<1>6. StatusType
  BY DEF Init, StatusType, SyncState
<1>7. FiniteTables
  BY FS_EmptySet DEF Init, FiniteTables
<1>8. QED
  BY <1>2, <1>3, <1>4, <1>5, <1>6, <1>7 DEF TypeOK

(* A turn of flushOutbox's loop, and what else several actions share.      *)
LEMMA BroadcastTypes ==
  ASSUME WireType, NetType, NEW p \in Peers, NEW r \in Row,
         NEW copy \in {0} \union FlushSlots, Broadcast(p, r, copy)
  PROVE  WireType'
<1>1. ASSUME NEW m \in wire'
      PROVE  m \in Packet
  <2>1. CASE m \in wire
    BY <2>1 DEF WireType
  <2>2. CASE m \notin wire
    <3>1. PICK q \in conn[p] \cap Linked(p) :
            m = [from |-> p, to |-> q, row |-> r, copy |-> copy]
      BY <2>2 DEF Broadcast
    <3>2. QED
      BY <3>1 DEF Linked, Packet
  <2>3. QED
    BY <2>1, <2>2
<1>2. QED
  BY <1>1 DEF WireType

LEMMA StartFlushTypes ==
  ASSUME FlushType, NEW p \in Peers, StartFlush(p)
  PROVE  FlushType'
<1>1. CASE UNCHANGED flushes
  BY <1>1 DEF FlushType
<1>2. ASSUME NEW s \in FlushSlots, flushes' = [flushes EXCEPT ![p][s] = [pc |-> "query"]]
      PROVE  FlushType'
  BY <1>2, CallTypes DEF FlushType
<1>3. QED
  BY <1>1, <1>2 DEF StartFlush

LEMMA TurnTypes ==
  ASSUME FlushType, WireType, NetType, NEW p \in Peers, NEW s \in FlushSlots,
         NEW todo \in SUBSET Row, FlushTurn(p, s, todo)
  PROVE  FlushType' /\ WireType'
<1>1. CASE todo = {}
  BY <1>1, CallTypes DEF FlushTurn, FlushType, WireType
<1>2. CASE todo # {}
  <2>1. PICK r \in todo :
          /\ Broadcast(p, r, s)
          /\ flushes' = [flushes EXCEPT ![p][s] =
                           [pc |-> "ack", row |-> r, todo |-> todo \ {r}]]
    BY <1>2 DEF FlushTurn
  <2>2. [pc |-> "ack", row |-> r, todo |-> todo \ {r}] \in FlushCall
    BY CallTypes
  <2>3. FlushType'
    BY <2>1, <2>2 DEF FlushType
  <2>4. WireType'
    BY <2>1, BroadcastTypes
  <2>5. QED
    BY <2>3, <2>4
<1>3. QED
  BY <1>1, <1>2

LEMMA QueueTypes ==
  ASSUME BatchType, ControlType, NEW p \in Peers, NEW us \in SUBSET Updates,
         QueueUpdate(p, us)
  PROVE  BatchType'
BY DEF BatchType, ControlType, QueueUpdate

LEMMA FlushTypes ==
  ASSUME SyncAssumption, TypeOK, NEW p \in Peers, FlushUpdates(p),
         UNCHANGED <<emitted, outbox, acking, refused>>
  PROVE  BatchType' /\ OutType'
<1>1. FlushedRows(p) \subseteq Row
  BY FlushKeepsUpdates
<1>2. QED
  BY <1>1 DEF TypeOK, BatchType, OutType, FlushUpdates

LEMMA ShowPeersTypes ==
  ASSUME StatusType, NEW p \in Peers, Cardinality(conn'[p]) \in Nat, ShowPeers(p),
         UNCHANGED refreshing
  PROVE  StatusType'
<1> DEFINE n == IF enabled[p] THEN Cardinality(conn'[p]) ELSE shown[p].connectedPeers
<1>1. shown[p] \in SyncState /\ shown[p].connectedPeers \in Nat
  BY DEF StatusType, SyncState
<1>2. n \in Nat
  BY <1>1
<1>3. shown' = [shown EXCEPT ![p].connectedPeers = n]
  BY DEF ShowPeers
<1>4. [shown[p] EXCEPT !.connectedPeers = n] \in SyncState
  BY <1>1, <1>2, ShownTypes
<1> HIDE DEF n
<1>5. QED
  BY <1>3, <1>4 DEF StatusType

LEMMA FaultTypes == BoundType /\ Fault => BoundType'
BY DEF BoundType, Fault

(* A group of variables keeps its type while it keeps its value.           *)
LEMMA UnchangedTypes ==
  /\ DocType /\ UNCHANGED docVars => DocType'
  /\ BatchType /\ UNCHANGED batchVars => BatchType'
  /\ OutType /\ UNCHANGED outVars => OutType'
  /\ FlushType /\ UNCHANGED flushes => FlushType'
  /\ AckedType /\ UNCHANGED acked => AckedType'
  /\ WireType /\ UNCHANGED wire => WireType'
  /\ InType /\ UNCHANGED inVars => InType'
  /\ ControlType /\ UNCHANGED controlVars => ControlType'
  /\ StatusType /\ UNCHANGED statusVars => StatusType'
  /\ NetType /\ UNCHANGED netVars => NetType'
  /\ BoundType /\ UNCHANGED boundVars => BoundType'
BY DEF docVars, batchVars, outVars, inVars, controlVars, statusVars, netVars, boundVars,
       DocType, BatchType, OutType, FlushType, AckedType, WireType, InType, ControlType,
       StatusType, NetType, BoundType

LEMMA StepType ==
  SyncAssumption /\ TypeOK /\ FiniteTables /\ [Next]_vars => TypeOK'
<1> SUFFICES ASSUME SyncAssumption, TypeOK, FiniteTables, [Next]_vars
             PROVE  TypeOK'
  OBVIOUS
<1> USE DEF TypeOK
<1>1. ASSUME NEW p \in Peers, NEW c \in Collections, OpenDoc(p, c)
      PROVE  TypeOK'
  <2>1. DocType'
    BY <1>1 DEF DocType, OpenDoc, GetDoc
  <2>2. QED
    BY <1>1, <2>1, UnchangedTypes DEF OpenDoc
<1>2. ASSUME NEW p \in Peers, NEW u \in Updates, LocalWrite(p, u)
      PROVE  TypeOK'
  <2>1. DocType'
    BY <1>2 DEF DocType, LocalWrite, GetDoc, SyncAssumption
  <2>2. BatchType'
    BY <1>2, QueueTypes DEF ControlType, LocalWrite
  <2>3. QED
    BY <1>2, <2>1, <2>2, UnchangedTypes DEF LocalWrite
<1>3. ASSUME NEW p \in Peers, NEW c \in Collections, LoadDoc(p, c)
      PROVE  TypeOK'
  <2>1. DocType'
    BY <1>3 DEF DocType, LoadDoc, InCollection
  <2>2. BatchType'
    BY <1>3, QueueTypes DEF DocType, ControlType, LoadDoc, InCollection
  <2>3. QED
    BY <1>3, <2>1, <2>2, UnchangedTypes DEF LoadDoc
<1>4. ASSUME NEW p \in Peers, NEW c \in Collections, Persist(p, c)
      PROVE  TypeOK'
  <2>1. DocType'
    BY <1>4 DEF DocType, Persist, InCollection
  <2>2. QED
    BY <1>4, <2>1, UnchangedTypes DEF Persist
<1>5. ASSUME NEW p \in Peers, TimerFires(p)
      PROVE  TypeOK'
  <2>1. BatchType' /\ OutType'
    BY <1>5, FlushTypes DEF TimerFires
  <2>2. QED
    BY <1>5, <2>1, UnchangedTypes DEF TimerFires
<1>6. ASSUME NEW p \in Peers, TabHidden(p)
      PROVE  TypeOK'
  <2>1. BatchType'
    BY <1>6 DEF BatchType, TabHidden
  <2>2. ControlType'
    BY <1>6 DEF ControlType, TabHidden
  <2>3. QED
    BY <1>6, <2>1, <2>2, UnchangedTypes DEF TabHidden
<1>7. ASSUME NEW p \in Peers, TabVisible(p)
      PROVE  TypeOK'
  <2>1. BatchType' /\ OutType'
    <3>1. CASE FlushUpdates(p)
      BY <1>7, <3>1, FlushTypes DEF TabVisible
    <3>2. CASE UNCHANGED <<timer, adding, clock, pending>>
      BY <1>7, <3>2 DEF TabVisible, BatchType, OutType
    <3>3. QED
      BY <1>7, <3>1, <3>2 DEF TabVisible
  <2>2. ControlType'
    BY <1>7 DEF ControlType, TabVisible
  <2>3. QED
    BY <1>7, <2>1, <2>2, UnchangedTypes DEF TabVisible
<1>8. ASSUME NEW p \in Peers, NEW r \in adding[p], OutboxAdded(p, r)
      PROVE  TypeOK'
  <2>1. OutType'
    BY <1>8 DEF OutType, OutboxAdded, Enqueue
  <2>2. WireType'
    <3>1. CASE UNCHANGED wire
      BY <3>1 DEF WireType
    <3>2. CASE Broadcast(p, r, 0)
      BY <3>2, BroadcastTypes DEF OutType
    <3>3. QED
      BY <1>8, <3>1, <3>2 DEF OutboxAdded
  <2>3. StatusType'
    BY <1>8 DEF StatusType, OutboxAdded
  <2>4. QED
    BY <1>8, <2>1, <2>2, <2>3, UnchangedTypes DEF OutboxAdded
<1>9. ASSUME NEW p \in Peers, NEW r \in adding[p], OutboxAddFails(p, r)
      PROVE  TypeOK'
  <2>1. r.updates \in SUBSET Updates
    BY RowTypes DEF OutType
  <2>2. OutType'
    BY <1>9, <2>1 DEF OutType, OutboxAddFails
  <2>3. BoundType'
    BY <1>9, FaultTypes DEF OutboxAddFails
  <2>4. QED
    BY <1>9, <2>2, <2>3, UnchangedTypes DEF OutboxAddFails
<1>10. ASSUME NEW p \in Peers, NEW r \in acking[p], LocalAcked(p, r)
      PROVE  TypeOK'
  <2>1. r.updates \in SUBSET Updates
    BY RowTypes DEF OutType
  <2>2. OutType'
    BY <1>10 DEF OutType, LocalAcked, AcknowledgeOutbox, Acknowledge
  <2>3. AckedType'
    BY <1>10, <2>1 DEF AckedType, LocalAcked, AcknowledgeOutbox
  <2>4. StatusType'
    BY <1>10 DEF StatusType, LocalAcked, AcknowledgeOutbox
  <2>5. QED
    BY <1>10, <2>2, <2>3, <2>4, UnchangedTypes DEF LocalAcked
<1>11. ASSUME NEW p \in Peers, NEW r \in acking[p], LocalAckFails(p, r)
      PROVE  TypeOK'
  <2>1. OutType'
    BY <1>11 DEF OutType, LocalAckFails
  <2>2. BoundType'
    BY <1>11, FaultTypes DEF LocalAckFails
  <2>3. QED
    BY <1>11, <2>1, <2>2, UnchangedTypes DEF LocalAckFails
<1>12. ASSUME NEW p \in Peers, NEW s \in FlushSlots, FlushQueried(p, s)
      PROVE  TypeOK'
  <2>1. GetPending(outbox[p]) \in SUBSET Row
    BY DEF OutType, GetPending
  <2>2. FlushType' /\ WireType'
    BY <1>12, <2>1, TurnTypes DEF FlushQueried
  <2>3. QED
    BY <1>12, <2>2, UnchangedTypes DEF FlushQueried
<1>13. ASSUME NEW p \in Peers, NEW s \in FlushSlots, FlushAcked(p, s)
      PROVE  TypeOK'
  <2> DEFINE r == flushes[p][s].row
  <2>1. r \in Row /\ flushes[p][s].todo \in SUBSET Row
    BY <1>13, CallTypes DEF FlushType, FlushAcked
  <2>2. r.updates \in SUBSET Updates
    BY <2>1, RowTypes
  <2>3. FlushType' /\ WireType'
    BY <1>13, <2>1, TurnTypes DEF FlushAcked
  <2>4. OutType'
    BY <1>13 DEF OutType, FlushAcked, AcknowledgeOutbox, Acknowledge
  <2>5. AckedType'
    BY <1>13, <2>2 DEF AckedType, FlushAcked, AcknowledgeOutbox
  <2>6. StatusType'
    BY <1>13 DEF StatusType, FlushAcked, AcknowledgeOutbox
  <2>7. QED
    BY <1>13, <2>3, <2>4, <2>5, <2>6, UnchangedTypes DEF FlushAcked
<1>14. ASSUME NEW p \in Peers, NEW s \in FlushSlots, FlushFails(p, s)
      PROVE  TypeOK'
  <2>1. FlushType'
    BY <1>14, CallTypes DEF FlushType, FlushFails
  <2>2. BoundType'
    BY <1>14, FaultTypes DEF FlushFails
  <2>3. QED
    BY <1>14, <2>1, <2>2, UnchangedTypes DEF FlushFails
<1>15. ASSUME NEW p \in Peers, PendingCounted(p)
      PROVE  TypeOK'
  <2>1. PendingCount(outbox[p]) \in Nat
    BY CountTypes
  <2>2. StatusType'
    BY <1>15, <2>1, ShownTypes DEF StatusType, PendingCounted
  <2>3. QED
    BY <1>15, <2>2, UnchangedTypes DEF PendingCounted
<1>16. ASSUME NEW p \in Peers, NEW m \in wire, Deliver(p, m)
      PROVE  TypeOK'
  <2>1. WireType'
    BY <1>16 DEF WireType, Deliver
  <2>2. m.row \in Row
    BY DEF WireType, Packet
  <2>3. ASSUME UNCHANGED inbound
        PROVE  InType'
    BY <1>16, <2>3 DEF InType, Deliver
  <2>4. ASSUME NEW i \in InboundSlots,
               inbound' = [inbound EXCEPT ![p][i] =
                 [pc |-> "adding", row |-> NewRow(i, m.row.collection, m.row.updates)]]
        PROVE  InType'
    <3>1. i \in Nat
      BY DEF InboundSlots
    <3>2. NewRow(i, m.row.collection, m.row.updates) \in Row
      BY <2>2, <3>1, RowTypes
    <3>3. [pc |-> "adding", row |-> NewRow(i, m.row.collection, m.row.updates)] \in InboundCall
      BY <3>2, CallTypes
    <3>4. QED
      BY <1>16, <2>4, <3>3 DEF InType, Deliver
  <2>5. InType'
    BY <1>16, <2>3, <2>4 DEF Deliver, InType
  <2>6. QED
    BY <1>16, <2>1, <2>5, UnchangedTypes DEF Deliver
<1>17. ASSUME NEW p \in Peers, NEW i \in InboundSlots, InboxAdded(p, i)
      PROVE  TypeOK'
  <2> DEFINE call == inbound[p][i]
  <2>1. call.row \in Row /\ [call EXCEPT !.pc = "acking"] \in InboundCall
    BY <1>17, CallTypes DEF InType, InboxAdded
  <2>2. InType'
    BY <1>17, <2>1 DEF InType, InboxAdded, Enqueue
  <2>3. call.row.collection \in Collections /\ call.row.updates \in SUBSET Updates
    BY <2>1, RowTypes
  <2>4. DocType' /\ BatchType'
    BY <1>17, <2>3 DEF DocType, BatchType, InboxAdded, ApplyRemote, GetDoc
  <2>5. QED
    BY <1>17, <2>2, <2>4, UnchangedTypes DEF InboxAdded
<1>18. ASSUME NEW p \in Peers, NEW i \in InboundSlots, InboxAddFails(p, i)
      PROVE  TypeOK'
  <2> DEFINE call == inbound[p][i]
  <2>1. call.row \in Row /\ Idle \in InboundCall
    BY <1>18, CallTypes DEF InType, InboxAddFails
  <2>2. InType'
    BY <1>18, <2>1 DEF InType, InboxAddFails
  <2>3. call.row.collection \in Collections /\ call.row.updates \in SUBSET Updates
    BY <2>1, RowTypes
  <2>4. DocType' /\ BatchType'
    BY <1>18, <2>3 DEF DocType, BatchType, InboxAddFails, ApplyRemote, GetDoc
  <2>5. BoundType'
    BY <1>18, FaultTypes DEF InboxAddFails
  <2>6. QED
    BY <1>18, <2>2, <2>4, <2>5, UnchangedTypes DEF InboxAddFails
<1>19. ASSUME NEW p \in Peers, NEW i \in InboundSlots, ApplyThrows(p, i)
      PROVE  TypeOK'
  <2> DEFINE call == inbound[p][i]
  <2>1. call.row \in Row /\ [call EXCEPT !.pc = "failing"] \in InboundCall
    BY <1>19, CallTypes DEF InType, ApplyThrows
  <2>2. InType'
    BY <1>19, <2>1 DEF InType, ApplyThrows, Enqueue
  <2>3. call.row.collection \in Collections /\ call.row.updates \in SUBSET Updates
    BY <2>1, RowTypes
  <2>4. DocType'
    BY <1>19, <2>3 DEF DocType, BatchType, ApplyThrows, GetDoc
  <2>5. BoundType'
    BY <1>19, FaultTypes DEF ApplyThrows
  <2>6. QED
    BY <1>19, <2>2, <2>4, <2>5, UnchangedTypes DEF ApplyThrows
<1>20. ASSUME NEW p \in Peers, NEW i \in InboundSlots, InboxAcked(p, i)
      PROVE  TypeOK'
  <2> DEFINE call == inbound[p][i]
  <2>1. call.row \in Row /\ Idle \in InboundCall
    BY <1>20, CallTypes DEF InType, InboxAcked
  <2>2. InType'
    BY <1>20, <2>1 DEF InType, InboxAcked, Acknowledge
  <2>3. QED
    BY <1>20, <2>2, UnchangedTypes DEF InboxAcked
<1>21. ASSUME NEW p \in Peers, NEW i \in InboundSlots, InboxAckFails(p, i)
      PROVE  TypeOK'
  <2> DEFINE call == inbound[p][i]
  <2>1. call.row \in Row /\ [call EXCEPT !.pc = "failing"] \in InboundCall
    BY <1>21, CallTypes DEF InType, InboxAckFails
  <2>2. InType'
    BY <1>21, <2>1 DEF InType, InboxAckFails
  <2>3. BoundType'
    BY <1>21, FaultTypes DEF InboxAckFails
  <2>4. QED
    BY <1>21, <2>2, <2>3, UnchangedTypes DEF InboxAckFails
<1>22. ASSUME NEW p \in Peers, NEW i \in InboundSlots, InboxMarkedFailed(p, i)
      PROVE  TypeOK'
  <2> DEFINE call == inbound[p][i]
  <2>1. call.row \in Row /\ Idle \in InboundCall
    BY <1>22, CallTypes DEF InType, InboxMarkedFailed
  <2>2. InType'
    BY <1>22, <2>1, RowTypes DEF InType, InboxMarkedFailed, MarkFailed
  <2>3. QED
    BY <1>22, <2>2, UnchangedTypes DEF InboxMarkedFailed
<1>23. ASSUME NEW p \in Peers, Enable(p)
      PROVE  TypeOK'
  <2>1. ControlType'
    BY <1>23 DEF ControlType, Enable
  <2>2. Cardinality(conn[p]) \in Nat
    BY CountTypes DEF NetType
  <2>3. StatusType'
    BY <1>23, <2>2, ShownTypes DEF StatusType, Enable
  <2>4. FlushType'
    BY <1>23, StartFlushTypes DEF Enable
  <2>5. NetType'
    BY <1>23 DEF NetType, Enable
  <2>6. QED
    BY <1>23, <2>1, <2>3, <2>4, <2>5, UnchangedTypes DEF Enable
<1>24. ASSUME NEW p \in Peers, Disable(p)
      PROVE  TypeOK'
  <2>1. ControlType'
    BY <1>24 DEF ControlType, Disable, StopSync
  <2>2. StatusType'
    BY <1>24, ShownTypes DEF StatusType, Disable, StopSync
  <2>3. QED
    BY <1>24, <2>1, <2>2, UnchangedTypes DEF Disable
<1>25. ASSUME NEW p \in Peers, Dispose(p)
      PROVE  TypeOK'
  <2>1. ControlType'
    BY <1>25 DEF ControlType, Dispose, StopSync
  <2>2. StatusType'
    BY <1>25, ShownTypes DEF StatusType, Dispose, StopSync
  <2>3. BatchType'
    BY <1>25 DEF BatchType, Dispose
  <2>4. QED
    BY <1>25, <2>1, <2>2, <2>3, UnchangedTypes DEF Dispose
<1>26. ASSUME NEW p \in Peers, Disposed(p)
      PROVE  TypeOK'
  <2>1. ControlType'
    BY <1>26 DEF ControlType, Disposed
  <2>2. DocType'
    BY <1>26 DEF DocType, Disposed
  <2>3. BatchType'
    BY <1>26 DEF BatchType, Disposed
  <2>4. QED
    BY <1>26, <2>1, <2>2, <2>3, UnchangedTypes DEF Disposed
<1>27. ASSUME NEW p \in Peers, Restart(p)
      PROVE  TypeOK'
  <2>1. DocType' /\ BatchType'
    BY <1>27 DEF DocType, BatchType, Restart
  <2>2. OutType'
    BY <1>27 DEF OutType, Restart
  <2>3. FlushType' /\ AckedType'
    BY <1>27, CallTypes DEF FlushType, AckedType, Restart
  <2>4. InboundRows(p, "adding") \in SUBSET Row
    <3>1. ASSUME NEW i \in InboundSlots, inbound[p][i].pc = "adding"
          PROVE  inbound[p][i].row \in Row
      BY <3>1, CallTypes DEF InType
    <3>2. QED
      BY <3>1 DEF InboundRows
  <2>5. inbox' \in [Peers -> SUBSET Row]
    <3>1. PICK added \in SUBSET InboundRows(p, "adding"),
               gone \in SUBSET InboundRows(p, "acking") :
            inbox' = [inbox EXCEPT ![p] = (@ \union added) \ gone]
      BY <1>27 DEF Restart
    <3>2. QED
      BY <2>4, <3>1 DEF InType
  <2>6. inbound' \in [Peers -> [InboundSlots -> InboundCall]]
    BY <1>27, CallTypes DEF InType, Restart
  <2>7. WireType' /\ NetType' /\ ControlType'
    BY <1>27 DEF WireType, NetType, ControlType, Restart
  <2>8. StatusType'
    BY <1>27, ShownTypes DEF StatusType, Restart
  <2>9. BoundType'
    BY <1>27 DEF BoundType, Restart
  <2>10. QED
    BY <2>1, <2>2, <2>3, <2>5, <2>6, <2>7, <2>8, <2>9 DEF InType
<1>28. ASSUME NEW p \in Peers, NEW q \in Peers, LinkUp(p, q)
      PROVE  TypeOK'
  <2>1. NetType'
    BY <1>28 DEF NetType, LinkUp
  <2>2. BoundType'
    BY <1>28 DEF BoundType, LinkUp
  <2>3. QED
    BY <1>28, <2>1, <2>2, UnchangedTypes DEF LinkUp
<1>29. ASSUME NEW p \in Peers, NEW q \in Peers, LinkDown(p, q)
      PROVE  TypeOK'
  <2>1. NetType'
    BY <1>29 DEF NetType, LinkDown
  <2>2. WireType'
    BY <1>29 DEF WireType, LinkDown
  <2>3. QED
    BY <1>29, <2>1, <2>2, UnchangedTypes DEF LinkDown
<1>30. ASSUME NEW p \in Peers, NEW q \in Peers, PeerConnected(p, q)
      PROVE  TypeOK'
  <2>1. NetType'
    BY <1>30 DEF NetType, PeerConnected
  <2>2. Cardinality(conn'[p]) \in Nat
    BY <2>1, CountTypes DEF NetType
  <2>3. StatusType'
    BY <1>30, <2>2, ShowPeersTypes DEF PeerConnected
  <2>4. FlushType'
    BY <1>30, StartFlushTypes DEF PeerConnected
  <2>5. ControlType'
    BY <1>30 DEF ControlType, PeerConnected
  <2>6. QED
    BY <1>30, <2>1, <2>3, <2>4, <2>5, UnchangedTypes DEF PeerConnected
<1>31. ASSUME NEW p \in Peers, NEW q \in Peers, PeerDisconnected(p, q)
      PROVE  TypeOK'
  <2>1. NetType'
    BY <1>31 DEF NetType, PeerDisconnected
  <2>2. Cardinality(conn'[p]) \in Nat
    BY <2>1, CountTypes DEF NetType
  <2>3. StatusType'
    BY <1>31, <2>2, ShowPeersTypes DEF PeerDisconnected
  <2>4. QED
    BY <1>31, <2>1, <2>3, UnchangedTypes DEF PeerDisconnected
<1>32. CASE UNCHANGED vars
  BY <1>32, UnchangedTypes DEF vars
<1>33. QED
  BY <1>1, <1>2, <1>3, <1>4, <1>5, <1>6, <1>7, <1>8, <1>9, <1>10, <1>11, <1>12, <1>13, <1>14, <1>15, <1>16, <1>17, <1>18, <1>19, <1>20, <1>21, <1>22, <1>23, <1>24, <1>25, <1>26, <1>27, <1>28, <1>29, <1>30, <1>31, <1>32
     DEF Next, User, Storage, Sending, Receiving, Failing, Connecting

-----------------------------------------------------------------------------
(* The steps that leave the way of an update from its document to the      *)
(* outbox alone, and those that only change what is shown of the peers.    *)
Quiet(p) ==
  \/ \E c \in Collections : OpenDoc(p, c) \/ Persist(p, c)
  \/ \E r \in acking[p] : LocalAckFails(p, r)
  \/ \E s \in FlushSlots : FlushQueried(p, s) \/ FlushFails(p, s)
  \/ Receiving(p)
  \/ \E i \in InboundSlots : InboxAddFails(p, i) \/ ApplyThrows(p, i) \/ InboxAckFails(p, i)
  \/ \E q \in Peers : LinkUp(p, q) \/ LinkDown(p, q)

Announce(p) ==
  \/ Enable(p) \/ Disable(p)
  \/ \E q \in Peers : PeerConnected(p, q) \/ PeerDisconnected(p, q)

queueVars == <<pending, timer, emitted, clock, adding, outbox, refused, acked,
               life, visible, refreshing>>

LEMMA QuietSteps ==
  ASSUME NEW p \in Peers, Quiet(p)
  PROVE  UNCHANGED <<queueVars, shown>>
<1> USE DEF queueVars, batchVars, outVars, controlVars, statusVars
<1>1. ASSUME NEW c \in Collections, OpenDoc(p, c) \/ Persist(p, c)
      PROVE  UNCHANGED <<queueVars, shown>>
  BY <1>1 DEF OpenDoc, Persist
<1>2. ASSUME NEW r \in acking[p], LocalAckFails(p, r)
      PROVE  UNCHANGED <<queueVars, shown>>
  BY <1>2 DEF LocalAckFails
<1>3. ASSUME NEW s \in FlushSlots, FlushQueried(p, s) \/ FlushFails(p, s)
      PROVE  UNCHANGED <<queueVars, shown>>
  BY <1>3 DEF FlushQueried, FlushFails
<1>4. ASSUME NEW m \in wire, Deliver(p, m)
      PROVE  UNCHANGED <<queueVars, shown>>
  BY <1>4 DEF Deliver
<1>5. ASSUME NEW i \in InboundSlots, InboxAdded(p, i) \/ InboxAddFails(p, i)
      PROVE  UNCHANGED <<queueVars, shown>>
  BY <1>5 DEF InboxAdded, InboxAddFails, ApplyRemote
<1>6. ASSUME NEW i \in InboundSlots,
             InboxAcked(p, i) \/ InboxMarkedFailed(p, i) \/ ApplyThrows(p, i) \/ InboxAckFails(p, i)
      PROVE  UNCHANGED <<queueVars, shown>>
  BY <1>6 DEF InboxAcked, InboxMarkedFailed, ApplyThrows, InboxAckFails
<1>7. ASSUME NEW q \in Peers, LinkUp(p, q) \/ LinkDown(p, q)
      PROVE  UNCHANGED <<queueVars, shown>>
  BY <1>7 DEF LinkUp, LinkDown
<1>8. QED
  BY <1>1, <1>2, <1>3, <1>4, <1>5, <1>6, <1>7 DEF Quiet, Receiving

LEMMA AnnounceSteps ==
  ASSUME TypeOK, NEW p \in Peers, Announce(p)
  PROVE  /\ UNCHANGED queueVars
         /\ \A q \in Peers : shown'[q].pendingUpdates = shown[q].pendingUpdates
<1> USE DEF queueVars, batchVars, outVars, TypeOK, StatusType, SyncState
<1>1. CASE Enable(p)
  BY <1>1 DEF Enable
<1>2. CASE Disable(p)
  BY <1>2 DEF Disable, StopSync
<1>3. ASSUME NEW q \in Peers, PeerConnected(p, q)
      PROVE  /\ UNCHANGED queueVars
             /\ \A o \in Peers : shown'[o].pendingUpdates = shown[o].pendingUpdates
  BY <1>3 DEF PeerConnected, ShowPeers
<1>4. ASSUME NEW q \in Peers, PeerDisconnected(p, q)
      PROVE  /\ UNCHANGED queueVars
             /\ \A o \in Peers : shown'[o].pendingUpdates = shown[o].pendingUpdates
  BY <1>4 DEF PeerDisconnected, ShowPeers, controlVars
<1>5. QED
  BY <1>1, <1>2, <1>3, <1>4 DEF Announce

LEMMA FiniteStep ==
  SyncAssumption /\ TypeOK /\ FiniteTables /\ [Next]_vars => FiniteTables'
<1> SUFFICES ASSUME SyncAssumption, TypeOK, FiniteTables, [Next]_vars
             PROVE  FiniteTables'
  OBVIOUS
<1>0. /\ adding \in [Peers -> SUBSET Row] /\ outbox \in [Peers -> SUBSET Row]
      /\ \A p \in Peers : IsFiniteSet(adding[p]) /\ IsFiniteSet(outbox[p])
  BY DEF TypeOK, OutType, FiniteTables
<1>1. ASSUME NEW p \in Peers, FlushUpdates(p), UNCHANGED outbox
      PROVE  FiniteTables'
  <2>1. IsFiniteSet(adding[p] \union FlushedRows(p))
    BY <1>0, FlushKeepsUpdates, FS_Union
  <2>2. QED
    BY <1>0, <1>1, <2>1 DEF FlushUpdates, FiniteTables
<1>2. ASSUME NEW p \in Peers, NEW r, AcknowledgeOutbox(p, r), UNCHANGED adding
      PROVE  FiniteTables'
  <2>1. IsFiniteSet(outbox[p] \ {r})
    BY <1>0, FS_Subset
  <2>2. QED
    BY <1>0, <1>2, <2>1 DEF AcknowledgeOutbox, Acknowledge, FiniteTables
<1>3. ASSUME NEW p \in Peers, NEW r \in adding[p], OutboxAdded(p, r)
      PROVE  FiniteTables'
  <2>1. IsFiniteSet(outbox[p] \union {r}) /\ IsFiniteSet(adding[p] \ {r})
    BY <1>0, FS_AddElement, FS_Subset
  <2>2. QED
    BY <1>0, <1>3, <2>1 DEF OutboxAdded, Enqueue, FiniteTables
<1>4. ASSUME NEW p \in Peers, NEW r \in adding[p], OutboxAddFails(p, r)
      PROVE  FiniteTables'
  <2>1. IsFiniteSet(adding[p] \ {r})
    BY <1>0, FS_Subset
  <2>2. QED
    BY <1>0, <1>4, <2>1 DEF OutboxAddFails, FiniteTables
<1>5. ASSUME NEW p \in Peers, Restart(p)
      PROVE  FiniteTables'
  <2>1. PICK added \in SUBSET adding[p], gone \in SUBSET BeingAcked(p) :
          outbox' = [outbox EXCEPT ![p] = (@ \union added) \ gone]
    BY <1>5 DEF Restart
  <2>2. IsFiniteSet(outbox[p] \union added)
    BY <1>0, FS_Subset, FS_Union
  <2>3. IsFiniteSet((outbox[p] \union added) \ gone) /\ IsFiniteSet({})
    BY <2>2, FS_Subset, FS_EmptySet
  <2>4. QED
    BY <1>0, <1>5, <2>1, <2>3 DEF Restart, FiniteTables
<1>6. ASSUME NEW p \in Peers, TimerFires(p) \/ TabVisible(p)
      PROVE  FiniteTables'
  BY <1>1, <1>6 DEF TimerFires, TabVisible, FiniteTables
<1>7. ASSUME NEW p \in Peers, NEW r \in acking[p], LocalAcked(p, r)
      PROVE  FiniteTables'
  BY <1>2, <1>7 DEF LocalAcked
<1>8. ASSUME NEW p \in Peers, NEW s \in FlushSlots, FlushAcked(p, s)
      PROVE  FiniteTables'
  BY <1>2, <1>8 DEF FlushAcked
<1>9. ASSUME NEW p \in Peers,
             \/ \E u \in Updates : LocalWrite(p, u)
             \/ \E c \in Collections : LoadDoc(p, c)
             \/ TabHidden(p) \/ PendingCounted(p) \/ Dispose(p) \/ Disposed(p)
      PROVE  FiniteTables'
  BY <1>9 DEF LocalWrite, LoadDoc, TabHidden, PendingCounted, Dispose, Disposed,
              outVars, FiniteTables
<1>10. ASSUME NEW p \in Peers, Quiet(p) \/ Announce(p)
       PROVE  FiniteTables'
  BY <1>10, QuietSteps, AnnounceSteps DEF queueVars, FiniteTables
<1>11. CASE UNCHANGED vars
  BY <1>11 DEF vars, outVars, FiniteTables
<1>12. QED
  BY <1>3, <1>4, <1>5, <1>6, <1>7, <1>8, <1>9, <1>10, <1>11
     DEF Next, User, Storage, Sending, Failing, Connecting, Quiet, Announce

(* Every variable always has its type: no step of any engine, whatever     *)
(* fails and whatever is restarted, leaves a row, a call or a status that  *)
(* the code does not expect.                                               *)
THEOREM TypeCorrect == Spec => []TypeOK
<1>1. Init => TypeOK /\ FiniteTables
  BY InitType, SyncAssumption
<1>2. TypeOK /\ FiniteTables /\ [Next]_vars => TypeOK' /\ FiniteTables'
  BY StepType, FiniteStep, SyncAssumption
<1>3. QED
  BY <1>1, <1>2, PTL DEF Spec

-----------------------------------------------------------------------------
LEMMA PayloadUnion == \A S, T : Payload(S \union T) = Payload(S) \union Payload(T)
BY DEF Payload

LEMMA ForgottenStep ==
  SyncAssumption /\ TypeOK /\ NoWriteForgotten /\ [Next]_vars => NoWriteForgotten'
<1> SUFFICES ASSUME SyncAssumption, TypeOK, NoWriteForgotten, [Next]_vars
             PROVE  NoWriteForgotten'
  OBVIOUS
<1> DEFINE Kept(p) == pending[p] \union Payload(adding[p]) \union Payload(outbox[p])
                        \union acked[p] \union refused[p]
           Safe(p) == life[p] = "running" => emitted[p] \subseteq Kept(p)
<1>0. /\ pending \in [Peers -> SUBSET Updates] /\ emitted \in [Peers -> SUBSET Updates]
      /\ adding \in [Peers -> SUBSET Row] /\ outbox \in [Peers -> SUBSET Row]
      /\ acked \in [Peers -> SUBSET Updates] /\ refused \in [Peers -> SUBSET Updates]
      /\ life \in [Peers -> {"running", "disposing", "disposed"}]
  BY DEF TypeOK, BatchType, OutType, AckedType, ControlType
<1>1. \A p \in Peers : Safe(p)
  BY DEF NoWriteForgotten
<1>2. ASSUME NEW p \in Peers, NEW us \in SUBSET Updates, QueueUpdate(p, us),
             UNCHANGED <<adding, outbox, acked, refused, life>>
      PROVE  NoWriteForgotten'
  BY <1>0, <1>1, <1>2 DEF QueueUpdate, NoWriteForgotten
<1>3. ASSUME NEW p \in Peers, FlushUpdates(p),
             UNCHANGED <<emitted, outbox, acked, refused, life>>
      PROVE  NoWriteForgotten'
  <2>1. Payload(adding'[p]) = Payload(adding[p]) \union pending[p]
    <3>1. adding'[p] = adding[p] \union FlushedRows(p)
      BY <1>0, <1>3 DEF FlushUpdates
    <3>2. Payload(FlushedRows(p)) = pending[p]
      BY FlushKeepsUpdates
    <3>3. QED
      BY <3>1, <3>2, PayloadUnion
  <2>2. \A o \in Peers : Kept(o) \subseteq Kept(o)'
    BY <1>0, <1>3, <2>1 DEF FlushUpdates
  <2>3. QED
    BY <1>1, <1>3, <2>2 DEF NoWriteForgotten
<1>4. ASSUME NEW p \in Peers, NEW r \in Row, AcknowledgeOutbox(p, r),
             UNCHANGED <<pending, emitted, adding, refused, life>>
      PROVE  NoWriteForgotten'
  <2>1. Payload(outbox[p]) \subseteq Payload(outbox'[p]) \union r.updates
    BY <1>0, <1>4 DEF AcknowledgeOutbox, Acknowledge, Payload
  <2>2. \A o \in Peers : Kept(o) \subseteq Kept(o)'
    BY <1>0, <1>4, <2>1 DEF AcknowledgeOutbox
  <2>3. QED
    BY <1>1, <1>4, <2>2 DEF NoWriteForgotten
<1>5. ASSUME NEW p \in Peers, NEW r \in adding[p], OutboxAdded(p, r)
      PROVE  NoWriteForgotten'
  <2>1. Payload(adding[p]) \union Payload(outbox[p]) = Payload(adding'[p]) \union Payload(outbox'[p])
    BY <1>0, <1>5 DEF OutboxAdded, Enqueue, Payload
  <2>2. \A o \in Peers : Kept(o) \subseteq Kept(o)'
    BY <1>0, <1>5, <2>1 DEF OutboxAdded, batchVars
  <2>3. QED
    BY <1>1, <1>5, <2>2 DEF NoWriteForgotten, OutboxAdded, batchVars, controlVars
<1>6. ASSUME NEW p \in Peers, NEW r \in adding[p], OutboxAddFails(p, r)
      PROVE  NoWriteForgotten'
  <2>1. Payload(adding[p]) \subseteq Payload(adding'[p]) \union r.updates
    BY <1>0, <1>6 DEF OutboxAddFails, Payload
  <2>2. \A o \in Peers : Kept(o) \subseteq Kept(o)'
    BY <1>0, <1>6, <2>1 DEF OutboxAddFails, batchVars
  <2>3. QED
    BY <1>1, <1>6, <2>2 DEF NoWriteForgotten, OutboxAddFails, batchVars, controlVars
<1>7. ASSUME NEW p \in Peers, Restart(p)
      PROVE  NoWriteForgotten'
  <2>1. PICK added \in SUBSET adding[p], gone \in SUBSET BeingAcked(p) :
          outbox' = [outbox EXCEPT ![p] = (@ \union added) \ gone]
    BY <1>7 DEF Restart
  <2>2. ASSUME NEW o \in Peers, o # p
        PROVE  Safe(o)'
    BY <1>0, <1>1, <1>7, <2>1, <2>2 DEF Restart
  <2>3. emitted'[p] = {}
    BY <1>0, <1>7 DEF Restart
  <2>4. QED
    BY <2>2, <2>3 DEF NoWriteForgotten
<1>8. ASSUME NEW p \in Peers, Disposed(p)
      PROVE  NoWriteForgotten'
  BY <1>0, <1>1, <1>8 DEF Disposed, NoWriteForgotten, outVars
<1>9. ASSUME NEW p \in Peers,
             TabHidden(p) \/ PendingCounted(p) \/ Dispose(p) \/ Quiet(p) \/ Announce(p)
      PROVE  NoWriteForgotten'
  <2>1. UNCHANGED <<pending, emitted, adding, outbox, acked, refused>>
    BY <1>9, QuietSteps, AnnounceSteps
       DEF queueVars, TabHidden, PendingCounted, Dispose, batchVars, outVars
  <2>2. life' = life \/ life' = [life EXCEPT ![p] = "disposing"]
    BY <1>9, QuietSteps, AnnounceSteps
       DEF queueVars, TabHidden, PendingCounted, Dispose, controlVars
  <2>3. QED
    BY <1>0, <1>1, <2>1, <2>2 DEF NoWriteForgotten
<1>10. ASSUME NEW p \in Peers, NEW u \in Updates, LocalWrite(p, u)
       PROVE  NoWriteForgotten'
  BY <1>2, <1>10 DEF LocalWrite, outVars, controlVars
<1>11. ASSUME NEW p \in Peers, NEW c \in Collections, LoadDoc(p, c)
       PROVE  NoWriteForgotten'
  <2>1. InCollection(stored[p], c) \ doc[p] \in SUBSET Updates
    BY DEF TypeOK, DocType, InCollection
  <2>2. QED
    BY <1>2, <1>11, <2>1 DEF LoadDoc, outVars, controlVars
<1>12. ASSUME NEW p \in Peers, TimerFires(p) \/ TabVisible(p)
       PROVE  NoWriteForgotten'
  <2>1. CASE FlushUpdates(p)
    BY <1>3, <1>12, <2>1 DEF TimerFires, TabVisible, controlVars
  <2>2. CASE ~ FlushUpdates(p)
    BY <1>1, <1>12, <2>2 DEF TimerFires, TabVisible, NoWriteForgotten
  <2>3. QED
    BY <2>1, <2>2
<1>13. ASSUME NEW p \in Peers, NEW r \in acking[p], LocalAcked(p, r)
       PROVE  NoWriteForgotten'
  <2>1. r \in Row
    BY DEF TypeOK, OutType
  <2>2. QED
    BY <1>4, <1>13, <2>1 DEF LocalAcked, batchVars, controlVars
<1>14. ASSUME NEW p \in Peers, NEW s \in FlushSlots, FlushAcked(p, s)
       PROVE  NoWriteForgotten'
  <2>1. flushes[p][s].row \in Row
    BY <1>14, CallTypes DEF FlushAcked, TypeOK, FlushType
  <2>2. QED
    BY <1>4, <1>14, <2>1 DEF FlushAcked, batchVars, controlVars
<1>15. CASE UNCHANGED vars
  BY <1>1, <1>15 DEF NoWriteForgotten, vars, batchVars, outVars, controlVars
<1>16. QED
  BY <1>5, <1>6, <1>7, <1>8, <1>9, <1>10, <1>11, <1>12, <1>13, <1>14, <1>15
     DEF Next, User, Storage, Sending, Failing, Connecting, Quiet, Announce

LEMMA ArmedStep == TypeOK /\ FlushArmed /\ [Next]_vars => FlushArmed'
<1> SUFFICES ASSUME TypeOK, FlushArmed, [Next]_vars
             PROVE  FlushArmed'
  OBVIOUS
<1>0. /\ pending \in [Peers -> SUBSET Updates] /\ timer \in [Peers -> BOOLEAN]
      /\ life \in [Peers -> {"running", "disposing", "disposed"}]
      /\ visible \in [Peers -> BOOLEAN]
  BY DEF TypeOK, BatchType, ControlType
<1>1. \A p \in Peers :
        life[p] = "running" /\ visible[p] /\ pending[p] # {} => timer[p]
  BY DEF FlushArmed
<1>2. ASSUME NEW p \in Peers, NEW us, QueueUpdate(p, us), UNCHANGED <<life, visible>>
      PROVE  FlushArmed'
  BY <1>0, <1>1, <1>2 DEF QueueUpdate, FlushArmed
<1>3. ASSUME NEW p \in Peers, FlushUpdates(p), UNCHANGED life,
             \A o \in Peers \ {p} : visible'[o] = visible[o]
      PROVE  FlushArmed'
  BY <1>0, <1>1, <1>3 DEF FlushUpdates, FlushArmed
<1>4. ASSUME NEW p \in Peers,
             \/ \E u \in Updates : LocalWrite(p, u)
             \/ \E c \in Collections : LoadDoc(p, c)
      PROVE  FlushArmed'
  BY <1>2, <1>4 DEF LocalWrite, LoadDoc, controlVars
<1>5. ASSUME NEW p \in Peers, TimerFires(p)
      PROVE  FlushArmed'
  BY <1>3, <1>5 DEF TimerFires, controlVars
<1>6. ASSUME NEW p \in Peers, TabVisible(p)
      PROVE  FlushArmed'
  <2>1. CASE FlushUpdates(p)
    BY <1>0, <1>3, <1>6, <2>1 DEF TabVisible
  <2>2. CASE ~ (life[p] = "running" /\ pending[p] # {} /\ ~timer[p])
    BY <1>0, <1>1, <1>6, <2>2 DEF TabVisible, FlushArmed
  <2>3. QED
    BY <1>6, <2>1, <2>2 DEF TabVisible
<1>7. ASSUME NEW p \in Peers, TabHidden(p)
      PROVE  FlushArmed'
  BY <1>0, <1>1, <1>7 DEF TabHidden, FlushArmed
<1>8. ASSUME NEW p \in Peers, Dispose(p) \/ Disposed(p)
      PROVE  FlushArmed'
  BY <1>0, <1>1, <1>8 DEF Dispose, Disposed, FlushArmed
<1>9. ASSUME NEW p \in Peers, Restart(p)
      PROVE  FlushArmed'
  BY <1>0, <1>1, <1>9 DEF Restart, FlushArmed
<1>10. ASSUME NEW p \in Peers,
              \/ Quiet(p) \/ Announce(p) \/ PendingCounted(p)
              \/ \E r \in adding[p] : OutboxAdded(p, r) \/ OutboxAddFails(p, r)
              \/ \E r \in acking[p] : LocalAcked(p, r)
              \/ \E s \in FlushSlots : FlushAcked(p, s)
       PROVE  FlushArmed'
  <2>1. UNCHANGED <<pending, timer, life, visible>>
    BY <1>10, QuietSteps, AnnounceSteps
       DEF queueVars, PendingCounted, OutboxAdded, OutboxAddFails, LocalAcked, FlushAcked,
           batchVars, controlVars
  <2>2. QED
    BY <1>1, <2>1 DEF FlushArmed
<1>11. CASE UNCHANGED vars
  BY <1>1, <1>11 DEF FlushArmed, vars, batchVars, controlVars
<1>12. QED
  BY <1>4, <1>5, <1>6, <1>7, <1>8, <1>9, <1>10, <1>11
     DEF Next, User, Storage, Sending, Failing, Connecting, Quiet, Announce

LEMMA FreshStep == TypeOK /\ PendingCountFresh /\ [Next]_vars => PendingCountFresh'
<1> SUFFICES ASSUME TypeOK, PendingCountFresh, [Next]_vars
             PROVE  PendingCountFresh'
  OBVIOUS
<1>0. /\ outbox \in [Peers -> SUBSET Row] /\ refreshing \in [Peers -> BOOLEAN]
      /\ shown \in [Peers -> SyncState]
  BY DEF TypeOK, OutType, StatusType
<1>1. \A p \in Peers : ~refreshing[p] => shown[p].pendingUpdates = PendingCount(outbox[p])
  BY DEF PendingCountFresh
<1>2. ASSUME NEW p \in Peers, NEW r, AcknowledgeOutbox(p, r), UNCHANGED shown
      PROVE  PendingCountFresh'
  BY <1>0, <1>1, <1>2 DEF AcknowledgeOutbox, Acknowledge, PendingCountFresh
<1>3. ASSUME NEW p \in Peers, NEW r \in adding[p], OutboxAdded(p, r)
      PROVE  PendingCountFresh'
  BY <1>0, <1>1, <1>3 DEF OutboxAdded, PendingCountFresh
<1>4. ASSUME NEW p \in Peers,
             \/ \E r \in acking[p] : LocalAcked(p, r)
             \/ \E s \in FlushSlots : FlushAcked(p, s)
      PROVE  PendingCountFresh'
  BY <1>2, <1>4 DEF LocalAcked, FlushAcked
<1>5. ASSUME NEW p \in Peers, PendingCounted(p)
      PROVE  PendingCountFresh'
  <2>1. /\ shown' = [shown EXCEPT ![p].pendingUpdates = PendingCount(outbox[p])]
        /\ refreshing' = [refreshing EXCEPT ![p] = FALSE]
        /\ UNCHANGED outbox
    BY <1>5 DEF PendingCounted, outVars
  <2>2. shown'[p].pendingUpdates = PendingCount(outbox[p])
    BY <1>0, <2>1 DEF SyncState
  <2>3. QED
    BY <1>0, <1>1, <2>1, <2>2 DEF PendingCountFresh
<1>6. ASSUME NEW p \in Peers, Restart(p)
      PROVE  PendingCountFresh'
  <2>1. PICK added \in SUBSET adding[p], gone \in SUBSET BeingAcked(p) :
          outbox' = [outbox EXCEPT ![p] = (@ \union added) \ gone]
    BY <1>6 DEF Restart
  <2>2. QED
    BY <1>0, <1>1, <1>6, <2>1 DEF Restart, PendingCountFresh
<1>7. ASSUME NEW p \in Peers, Announce(p)
      PROVE  PendingCountFresh'
  BY <1>1, <1>7, AnnounceSteps DEF queueVars, PendingCountFresh
<1>8. ASSUME NEW p \in Peers, Dispose(p)
      PROVE  PendingCountFresh'
  <2>1. \A q \in Peers : shown'[q].pendingUpdates = shown[q].pendingUpdates
    BY <1>0, <1>8 DEF Dispose, StopSync, SyncState
  <2>2. QED
    BY <1>1, <1>8, <2>1 DEF Dispose, outVars, PendingCountFresh
<1>9. ASSUME NEW p \in Peers,
             \/ Quiet(p) \/ TimerFires(p) \/ TabHidden(p) \/ TabVisible(p) \/ Disposed(p)
             \/ \E u \in Updates : LocalWrite(p, u)
             \/ \E c \in Collections : LoadDoc(p, c)
             \/ \E r \in adding[p] : OutboxAddFails(p, r)
      PROVE  PendingCountFresh'
  <2>1. UNCHANGED <<shown, refreshing, outbox>>
    BY <1>9, QuietSteps
       DEF queueVars, TimerFires, TabHidden, TabVisible, Disposed, LocalWrite, LoadDoc,
           OutboxAddFails, outVars, statusVars
  <2>2. QED
    BY <1>1, <2>1 DEF PendingCountFresh
<1>10. CASE UNCHANGED vars
  BY <1>1, <1>10 DEF PendingCountFresh, vars, outVars, statusVars
<1>11. QED
  BY <1>3, <1>4, <1>5, <1>6, <1>7, <1>8, <1>9, <1>10
     DEF Next, User, Storage, Sending, Failing, Connecting, Quiet, Announce

(* The way of a local write never loses it, in any number of peers,        *)
(* updates and collections, with any interleaving of timers, visibility,   *)
(* IndexedDB requests, failures, connections and restarts.                 *)
THEOREM WritesKept == Spec => []NoWriteForgotten
<1>1. Init => NoWriteForgotten
  BY DEF Init, NoWriteForgotten
<1>2. TypeOK /\ NoWriteForgotten /\ [Next]_vars => NoWriteForgotten'
  BY ForgottenStep, SyncAssumption
<1>3. QED
  BY <1>1, <1>2, TypeCorrect, PTL DEF Spec

(* In a visible tab a batch is never left without the timer that sends it. *)
THEOREM BatchesArmed == Spec => []FlushArmed
<1>1. Init => FlushArmed
  BY DEF Init, FlushArmed
<1>2. TypeOK /\ FlushArmed /\ [Next]_vars => FlushArmed'
  BY ArmedStep
<1>3. QED
  BY <1>1, <1>2, TypeCorrect, PTL DEF Spec

(* The count shown lags the outbox only while a recount is on its way.     *)
THEOREM CountsFresh == Spec => []PendingCountFresh
<1>1. Init => PendingCountFresh
  <2>1. GetPending({}) = {}
    BY DEF GetPending
  <2>2. PendingCount({}) = 0
    BY <2>1, FS_EmptySet DEF PendingCount
  <2>3. QED
    BY <2>2 DEF Init, PendingCountFresh
<1>2. TypeOK /\ PendingCountFresh /\ [Next]_vars => PendingCountFresh'
  BY FreshStep
<1>3. QED
  BY <1>1, <1>2, TypeCorrect, PTL DEF Spec

-----------------------------------------------------------------------------
(* NoEcho rests on the documents: until a restart or a dispose none is     *)
(* being loaded, so that nothing but the application writes to one without *)
(* the origin "remote".                                                    *)
Echoless(p) ==
  /\ \A c \in Collections : opened[p][c] = "open"
  /\ pending[p] \union Payload(adding[p]) \union Payload(outbox[p]) \subseteq OwnUpdates(p)

EcholessInv == \A p \in Peers : restarts = 0 /\ life[p] # "disposed" => Echoless(p)

LEMMA QuietOpens ==
  ASSUME NEW p \in Peers, Quiet(p)
  PROVE  UNCHANGED opened \/ \E c : GetDoc(p, c)
<1>1. ASSUME NEW c \in Collections, OpenDoc(p, c) \/ Persist(p, c)
      PROVE  UNCHANGED opened \/ GetDoc(p, c)
  BY <1>1 DEF OpenDoc, Persist
<1>2. ASSUME NEW i \in InboundSlots, InboxAdded(p, i) \/ InboxAddFails(p, i) \/ ApplyThrows(p, i)
      PROVE  GetDoc(p, inbound[p][i].row.collection)
  BY <1>2 DEF InboxAdded, InboxAddFails, ApplyThrows, ApplyRemote
<1>3. ASSUME NEW i \in InboundSlots,
             InboxAcked(p, i) \/ InboxMarkedFailed(p, i) \/ InboxAckFails(p, i)
      PROVE  UNCHANGED opened
  BY <1>3 DEF InboxAcked, InboxMarkedFailed, InboxAckFails, docVars
<1>4. ASSUME \/ \E r \in acking[p] : LocalAckFails(p, r)
             \/ \E s \in FlushSlots : FlushQueried(p, s) \/ FlushFails(p, s)
             \/ \E m \in wire : Deliver(p, m)
             \/ \E q \in Peers : LinkUp(p, q) \/ LinkDown(p, q)
      PROVE  UNCHANGED opened
  BY <1>4 DEF LocalAckFails, FlushQueried, FlushFails, Deliver, LinkUp, LinkDown, docVars
<1>5. QED
  BY <1>1, <1>2, <1>3, <1>4 DEF Quiet, Receiving

LEMMA RestartsOnly ==
  ASSUME TypeOK, [Next]_vars, \A p \in Peers : ~ Restart(p)
  PROVE  UNCHANGED restarts
<1> USE DEF boundVars, Fault
<1>1. ASSUME NEW p \in Peers, User(p) \/ Storage(p) \/ Disposed(p)
      PROVE  UNCHANGED restarts
  BY <1>1 DEF User, Storage, OpenDoc, LocalWrite, TabHidden, TabVisible, Enable, Disable,
              Dispose, Disposed, LoadDoc, Persist
<1>2. ASSUME NEW p \in Peers, Sending(p) \/ Receiving(p)
      PROVE  UNCHANGED restarts
  BY <1>2 DEF Sending, Receiving, TimerFires, OutboxAdded, LocalAcked, FlushQueried,
              FlushAcked, PendingCounted, Deliver, InboxAdded, InboxAcked, InboxMarkedFailed
<1>3. ASSUME NEW p \in Peers, Failing(p) \/ Connecting(p)
      PROVE  UNCHANGED restarts
  BY <1>3 DEF Failing, Connecting, OutboxAddFails, LocalAckFails, FlushFails, InboxAddFails,
              ApplyThrows, InboxAckFails, LinkUp, LinkDown, PeerConnected, PeerDisconnected
<1>4. QED
  BY <1>1, <1>2, <1>3 DEF Next, vars

LEMMA EcholessStep == SyncAssumption /\ TypeOK /\ EcholessInv /\ [Next]_vars => EcholessInv'
<1> SUFFICES ASSUME SyncAssumption, TypeOK, EcholessInv, [Next]_vars
             PROVE  EcholessInv'
  OBVIOUS
<1>0. /\ pending \in [Peers -> SUBSET Updates]
      /\ adding \in [Peers -> SUBSET Row] /\ outbox \in [Peers -> SUBSET Row]
      /\ opened \in [Peers -> [Collections -> {"no", "loading", "open"}]]
      /\ life \in [Peers -> {"running", "disposing", "disposed"}]
      /\ restarts \in Nat
  BY DEF TypeOK, DocType, BatchType, OutType, ControlType, BoundType
<1>1. CASE \E p \in Peers : Restart(p)
  BY <1>0, <1>1 DEF Restart, EcholessInv
<1> SUFFICES ASSUME \A p \in Peers : ~ Restart(p)
             PROVE  EcholessInv'
  BY <1>1
<1>2. UNCHANGED restarts
  BY RestartsOnly
<1> DEFINE Alive(p) == restarts = 0 /\ life[p] # "disposed"
<1>3. \A p \in Peers : Alive(p) => Echoless(p)
  BY DEF EcholessInv
<1>4. ASSUME NEW p \in Peers, UNCHANGED <<pending, adding, outbox, life>>,
             UNCHANGED opened \/ \E c : GetDoc(p, c)
      PROVE  EcholessInv'
  BY <1>0, <1>2, <1>3, <1>4 DEF GetDoc, EcholessInv, Echoless, Payload, OwnUpdates
<1>5. ASSUME NEW p \in Peers, FlushUpdates(p), UNCHANGED <<outbox, opened, life>>
      PROVE  EcholessInv'
  <2>1. adding'[p] = adding[p] \union FlushedRows(p) /\ pending'[p] = {}
    BY <1>0, <1>5 DEF FlushUpdates
  <2>2. Payload(adding'[p]) = Payload(adding[p]) \union pending[p]
    BY <2>1, FlushKeepsUpdates, PayloadUnion
  <2>3. Echoless(p) => Echoless(p)'
    BY <1>5, <2>1, <2>2 DEF Echoless, OwnUpdates
  <2>4. \A o \in Peers : o # p => Echoless(o)' = Echoless(o)
    BY <1>0, <1>5 DEF FlushUpdates, Echoless, Payload, OwnUpdates
  <2>5. QED
    BY <1>2, <1>3, <1>5, <2>3, <2>4 DEF EcholessInv
<1>6. ASSUME NEW p \in Peers, NEW r, AcknowledgeOutbox(p, r),
             UNCHANGED <<pending, adding, opened, life>>
      PROVE  EcholessInv'
  <2>1. \A o \in Peers : Payload(outbox'[o]) \subseteq Payload(outbox[o])
    BY <1>0, <1>6 DEF AcknowledgeOutbox, Acknowledge, Payload
  <2>2. \A o \in Peers : Echoless(o) => Echoless(o)'
    BY <1>6, <2>1 DEF Echoless, OwnUpdates
  <2>3. QED
    BY <1>2, <1>3, <1>6, <2>2 DEF EcholessInv
<1>7. ASSUME NEW p \in Peers, NEW u \in Updates, LocalWrite(p, u)
      PROVE  EcholessInv'
  <2>1. u \in OwnUpdates(p) /\ UNCHANGED <<adding, outbox, life>>
    BY <1>7 DEF LocalWrite, OwnUpdates, outVars, controlVars
  <2>2. pending' = [pending EXCEPT ![p] = @ \union {u}] /\ \E c : GetDoc(p, c)
    BY <1>7 DEF LocalWrite, QueueUpdate
  <2>3. \A o \in Peers : Echoless(o) => Echoless(o)'
    BY <1>0, <2>1, <2>2 DEF GetDoc, Echoless, Payload, OwnUpdates
  <2>4. QED
    BY <1>2, <1>3, <2>1, <2>3 DEF EcholessInv
<1>8. ASSUME NEW p \in Peers, NEW c \in Collections, LoadDoc(p, c)
      PROVE  EcholessInv'
  <2>1. UNCHANGED <<adding, outbox, life>> /\ ~ Alive(p)
    BY <1>3, <1>8 DEF LoadDoc, Echoless, outVars, controlVars
  <2>2. \A o \in Peers : o # p => Echoless(o)' = Echoless(o)
    BY <1>0, <1>8, <2>1 DEF LoadDoc, QueueUpdate, Echoless, Payload, OwnUpdates
  <2>3. QED
    BY <1>2, <1>3, <2>1, <2>2 DEF EcholessInv
<1>9. ASSUME NEW p \in Peers, NEW r \in adding[p], OutboxAdded(p, r) \/ OutboxAddFails(p, r)
      PROVE  EcholessInv'
  <2>1. UNCHANGED <<pending, opened, life>>
    BY <1>9 DEF OutboxAdded, OutboxAddFails, docVars, batchVars, controlVars
  <2>2. \A o \in Peers : Payload(adding'[o]) \union Payload(outbox'[o])
                          \subseteq Payload(adding[o]) \union Payload(outbox[o])
    <3>1. \A o \in Peers : adding'[o] \subseteq adding[o] /\ outbox'[o] \subseteq adding[o] \union outbox[o]
      BY <1>0, <1>9 DEF OutboxAdded, OutboxAddFails, Enqueue
    <3>2. QED
      BY <3>1 DEF Payload
  <2>3. \A o \in Peers : Echoless(o) => Echoless(o)'
    BY <2>1, <2>2 DEF Echoless, OwnUpdates
  <2>4. QED
    BY <1>2, <1>3, <2>1, <2>3 DEF EcholessInv
<1>10. ASSUME NEW p \in Peers, Disposed(p)
       PROVE  EcholessInv'
  <2>1. life' = [life EXCEPT ![p] = "disposed"] /\ UNCHANGED <<adding, outbox>>
    BY <1>10 DEF Disposed, outVars
  <2>2. \A o \in Peers : o # p => Echoless(o)' = Echoless(o)
    BY <1>0, <1>10, <2>1 DEF Disposed, Echoless, Payload, OwnUpdates
  <2>3. QED
    BY <1>0, <1>2, <1>3, <2>1, <2>2 DEF EcholessInv
<1>11. ASSUME NEW p \in Peers, Dispose(p)
       PROVE  EcholessInv'
  <2>1. /\ life' = [life EXCEPT ![p] = "disposing"] /\ life[p] = "running"
        /\ UNCHANGED <<pending, adding, outbox, opened>>
    BY <1>11 DEF Dispose, docVars, outVars
  <2>2. \A o \in Peers : Echoless(o)' = Echoless(o)
    BY <2>1 DEF Echoless, Payload, OwnUpdates
  <2>3. QED
    BY <1>0, <1>2, <1>3, <2>1, <2>2 DEF EcholessInv
<1>12. ASSUME NEW p \in Peers, TimerFires(p) \/ TabVisible(p)
       PROVE  EcholessInv'
  <2>1. CASE FlushUpdates(p)
    BY <1>5, <1>12, <2>1 DEF TimerFires, TabVisible, docVars, controlVars
  <2>2. CASE ~ FlushUpdates(p)
    BY <1>4, <1>12, <2>2 DEF TimerFires, TabVisible, docVars
  <2>3. QED
    BY <2>1, <2>2
<1>13. ASSUME NEW p \in Peers,
              \/ \E r \in acking[p] : LocalAcked(p, r)
              \/ \E s \in FlushSlots : FlushAcked(p, s)
       PROVE  EcholessInv'
  BY <1>6, <1>13 DEF LocalAcked, FlushAcked, docVars, batchVars, controlVars
<1>14. ASSUME NEW p \in Peers, Quiet(p)
       PROVE  EcholessInv'
  BY <1>4, <1>14, QuietSteps, QuietOpens DEF queueVars
<1>15. ASSUME NEW p \in Peers, Announce(p)
       PROVE  EcholessInv'
  <2>1. UNCHANGED opened
    BY <1>15 DEF Announce, Enable, Disable, PeerConnected, PeerDisconnected, docVars
  <2>2. QED
    BY <1>4, <1>15, <2>1, AnnounceSteps DEF queueVars
<1>16. ASSUME NEW p \in Peers, TabHidden(p) \/ PendingCounted(p)
       PROVE  EcholessInv'
  BY <1>4, <1>16 DEF TabHidden, PendingCounted, docVars, batchVars, outVars, controlVars
<1>17. CASE UNCHANGED vars
  <2>1. UNCHANGED <<pending, adding, outbox, opened, life>>
    BY <1>17 DEF vars, docVars, batchVars, outVars, controlVars
  <2>2. \A o \in Peers : Echoless(o)' = Echoless(o)
    BY <2>1 DEF Echoless, Payload, OwnUpdates
  <2>3. QED
    BY <1>2, <1>3, <2>1, <2>2 DEF EcholessInv
<1>18. QED
  BY <1>7, <1>8, <1>9, <1>10, <1>11, <1>12, <1>13, <1>14, <1>15, <1>16, <1>17
     DEF Next, User, Storage, Sending, Failing, Connecting, Quiet, Announce

(* Until it is opened again or disposed of, an engine queues and sends     *)
(* nothing but what its own application wrote.                             *)
THEOREM NothingEchoed == Spec => []NoEcho
<1>1. Init => EcholessInv
  BY DEF Init, EcholessInv, Echoless, Payload
<1>2. TypeOK /\ EcholessInv /\ [Next]_vars => EcholessInv'
  BY EcholessStep, SyncAssumption
<1>3. EcholessInv => NoEcho
  BY DEF EcholessInv, Echoless, NoEcho
<1>4. QED
  BY <1>1, <1>2, <1>3, TypeCorrect, PTL DEF Spec
=============================================================================
