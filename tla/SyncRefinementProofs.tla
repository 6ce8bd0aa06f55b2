------------------------ MODULE SyncRefinementProofs ------------------------
(***************************************************************************)
(* SyncEngine implements Replication, for every set of peers, updates and  *)
(* collections.  The heart of it is that nothing but written updates is    *)
(* ever on its way to a document.                                          *)
(***************************************************************************)
EXTENDS SyncEngineProofs

WrittenRows(rows) == \A r \in rows : r.updates \subseteq written

DocsWritten == \A p \in Peers : doc[p] \union stored[p] \union pending[p] \subseteq written

QueuesWritten == \A p \in Peers : WrittenRows(adding[p] \union outbox[p] \union acking[p])

FlushesWritten == \A p \in Peers, s \in FlushSlots :
  flushes[p][s].pc = "ack" => WrittenRows({flushes[p][s].row} \union flushes[p][s].todo)

WireWritten == \A m \in wire : m.row.updates \subseteq written

InboundWritten == \A p \in Peers, i \in InboundSlots :
  inbound[p][i].pc \in {"adding", "acking", "failing"}
    => inbound[p][i].row.updates \subseteq written

AllWritten ==
  DocsWritten /\ QueuesWritten /\ FlushesWritten /\ WireWritten /\ InboundWritten

(* A part whose variables a step leaves alone stays written.               *)
LEMMA StillWritten ==
  ASSUME written \subseteq written'
  PROVE  /\ DocsWritten /\ UNCHANGED <<doc, stored, pending>> => DocsWritten'
         /\ QueuesWritten /\ UNCHANGED <<adding, outbox, acking>> => QueuesWritten'
         /\ FlushesWritten /\ UNCHANGED flushes => FlushesWritten'
         /\ WireWritten /\ wire' \subseteq wire => WireWritten'
         /\ InboundWritten /\ UNCHANGED inbound => InboundWritten'
<1>1. DocsWritten /\ UNCHANGED <<doc, stored, pending>> => DocsWritten'
  BY DEF DocsWritten
<1>2. QueuesWritten /\ UNCHANGED <<adding, outbox, acking>> => QueuesWritten'
  BY DEF QueuesWritten, WrittenRows
<1>3. FlushesWritten /\ UNCHANGED flushes => FlushesWritten'
  BY DEF FlushesWritten, WrittenRows
<1>4. WireWritten /\ wire' \subseteq wire => WireWritten'
  BY DEF WireWritten
<1>5. InboundWritten /\ UNCHANGED inbound => InboundWritten'
  BY DEF InboundWritten
<1>6. QED
  BY <1>1, <1>2, <1>3, <1>4, <1>5

LEMMA FlushWritten ==
  ASSUME SyncAssumption, TypeOK, DocsWritten, QueuesWritten, NEW p \in Peers,
         FlushUpdates(p), UNCHANGED <<written, doc, stored, outbox, acking>>
  PROVE  DocsWritten' /\ QueuesWritten'
<1>1. /\ pending \in [Peers -> SUBSET Updates] /\ adding \in [Peers -> SUBSET Row]
      /\ Payload(FlushedRows(p)) = pending[p]
  BY FlushKeepsUpdates DEF TypeOK, BatchType, OutType
<1>2. DocsWritten'
  BY <1>1 DEF FlushUpdates, DocsWritten
<1>3. WrittenRows(FlushedRows(p))
  BY <1>1 DEF Payload, DocsWritten, WrittenRows
<1>4. QueuesWritten'
  BY <1>1, <1>3 DEF FlushUpdates, QueuesWritten, WrittenRows
<1>5. QED
  BY <1>2, <1>4

LEMMA BroadcastWritten ==
  ASSUME WireWritten, NEW p, NEW r, NEW copy, Broadcast(p, r, copy),
         r.updates \subseteq written, UNCHANGED written
  PROVE  WireWritten'
BY DEF Broadcast, WireWritten

LEMMA TurnWritten ==
  ASSUME FlushType, FlushesWritten, WireWritten, NEW p \in Peers, NEW s \in FlushSlots,
         NEW todo, WrittenRows(todo), FlushTurn(p, s, todo), UNCHANGED written
  PROVE  FlushesWritten' /\ WireWritten'
<1>1. CASE todo = {}
  BY <1>1 DEF FlushTurn, FlushType, FlushesWritten, WireWritten, WrittenRows, Idle
<1>2. CASE todo # {}
  <2>1. PICK r \in todo :
          /\ Broadcast(p, r, s)
          /\ flushes' = [flushes EXCEPT ![p][s] =
                           [pc |-> "ack", row |-> r, todo |-> todo \ {r}]]
    BY <1>2 DEF FlushTurn
  <2>2. WireWritten'
    BY <2>1, BroadcastWritten DEF WrittenRows
  <2>3. FlushesWritten'
    BY <2>1 DEF FlushType, FlushesWritten, WrittenRows
  <2>4. QED
    BY <2>2, <2>3
<1>3. QED
  BY <1>1, <1>2

LEMMA StartWritten ==
  ASSUME FlushType, FlushesWritten, NEW p \in Peers, StartFlush(p), UNCHANGED written
  PROVE  FlushesWritten'
<1>1. CASE UNCHANGED flushes
  BY <1>1, StillWritten
<1>2. CASE ~ UNCHANGED flushes
  <2>1. PICK s \in FlushSlots : flushes' = [flushes EXCEPT ![p][s] = [pc |-> "query"]]
    BY <1>2 DEF StartFlush
  <2>2. QED
    BY <2>1 DEF FlushType, FlushesWritten, WrittenRows
<1>3. QED
  BY <1>1, <1>2

(* A call of handleRemoteUpdate ends or goes on with the row it has.       *)
LEMMA CallWritten ==
  ASSUME InType, InboundWritten, UNCHANGED written, NEW p \in Peers, NEW i \in InboundSlots,
         inbound[p][i].pc \in {"adding", "acking", "failing"},
         \/ inbound' = [inbound EXCEPT ![p][i] = Idle]
         \/ inbound' = [inbound EXCEPT ![p][i].pc = "acking"]
         \/ inbound' = [inbound EXCEPT ![p][i].pc = "failing"]
  PROVE  InboundWritten'
<1> DEFINE f == inbound[p][i]
<1>1. f \in InboundCall /\ f.row.updates \subseteq written
  BY DEF InType, InboundWritten
<1>2. [f EXCEPT !.pc = "acking"].row = f.row /\ [f EXCEPT !.pc = "failing"].row = f.row
  BY <1>1 DEF InboundCall
<1>3. ASSUME NEW g, inbound' = [inbound EXCEPT ![p][i] = g], g = Idle \/ g.row = f.row
      PROVE  InboundWritten'
  BY <1>1, <1>3 DEF InType, InboundWritten, Idle
<1>4. QED
  BY <1>2, <1>3

LEMMA WrittenStep == SyncAssumption /\ TypeOK /\ AllWritten /\ [Next]_vars => AllWritten'
<1> SUFFICES ASSUME SyncAssumption, TypeOK, AllWritten, [Next]_vars
             PROVE  AllWritten'
  OBVIOUS
<1> USE DEF AllWritten
<1>0. /\ DocType /\ BatchType /\ OutType /\ FlushType /\ InType
  BY DEF TypeOK
<1>1. ASSUME NEW p \in Peers, NEW u \in Updates, LocalWrite(p, u)
      PROVE  AllWritten'
  <2>1. written \subseteq written'
    BY <1>1 DEF LocalWrite
  <2>2. DocsWritten'
    BY <1>0, <1>1 DEF LocalWrite, QueueUpdate, DocType, BatchType, DocsWritten
  <2>3. QED
    BY <1>1, <2>1, <2>2, StillWritten DEF LocalWrite, outVars, inVars
<1>2. ASSUME NEW p \in Peers, NEW c \in Collections, LoadDoc(p, c) \/ Persist(p, c)
      PROVE  AllWritten'
  <2>1. UNCHANGED written
    BY <1>2 DEF LoadDoc, Persist
  <2>2. DocsWritten'
    <3>1. CASE LoadDoc(p, c)
      <4> DEFINE new == InCollection(stored[p], c) \ doc[p]
      <4>1. new \subseteq written
        BY DEF InCollection, DocsWritten
      <4>2. /\ doc' = [doc EXCEPT ![p] = @ \union new]
            /\ pending' = [pending EXCEPT ![p] = @ \union new]
            /\ UNCHANGED stored
        BY <3>1 DEF LoadDoc, QueueUpdate
      <4>3. QED
        BY <1>0, <2>1, <4>1, <4>2 DEF DocType, BatchType, DocsWritten
    <3>2. CASE Persist(p, c)
      BY <1>0, <2>1, <3>2 DEF Persist, InCollection, DocType, batchVars, DocsWritten
    <3>3. QED
      BY <1>2, <3>1, <3>2
  <2>3. QED
    BY <1>2, <2>1, <2>2, StillWritten DEF LoadDoc, Persist, outVars, inVars
<1>3. ASSUME NEW p \in Peers, FlushUpdates(p),
             UNCHANGED <<docVars, outbox, acking, flushes, wire, inbound>>
      PROVE  AllWritten'
  <2>1. UNCHANGED <<written, doc, stored>>
    BY <1>3 DEF docVars
  <2>2. DocsWritten' /\ QueuesWritten'
    BY <1>3, <2>1, FlushWritten
  <2>3. QED
    BY <1>3, <2>1, <2>2, StillWritten
<1>4. ASSUME NEW p \in Peers, NEW r \in adding[p], OutboxAdded(p, r)
      PROVE  AllWritten'
  <2>1. UNCHANGED <<written, doc, stored, pending>> /\ r.updates \subseteq written
    BY <1>4 DEF OutboxAdded, docVars, batchVars, QueuesWritten, WrittenRows
  <2>2. QueuesWritten'
    BY <1>0, <1>4, <2>1 DEF OutboxAdded, Enqueue, OutType, QueuesWritten, WrittenRows
  <2>3. WireWritten'
    BY <1>4, <2>1, BroadcastWritten, StillWritten DEF OutboxAdded
  <2>4. QED
    BY <1>4, <2>1, <2>2, <2>3, StillWritten DEF OutboxAdded, inVars
<1>5. ASSUME NEW p \in Peers,
             \/ \E r \in adding[p] : OutboxAddFails(p, r)
             \/ \E r \in acking[p] : LocalAcked(p, r) \/ LocalAckFails(p, r)
      PROVE  AllWritten'
  <2>1. UNCHANGED <<written, doc, stored, pending, flushes, wire, inbound>>
    BY <1>5 DEF OutboxAddFails, LocalAcked, LocalAckFails, docVars, batchVars, inVars
  <2>2. \A o \in Peers : /\ adding'[o] \subseteq adding[o] /\ outbox'[o] \subseteq outbox[o]
                         /\ acking'[o] \subseteq acking[o]
    BY <1>0, <1>5
       DEF OutboxAddFails, LocalAcked, LocalAckFails, AcknowledgeOutbox, Acknowledge, OutType
  <2>3. QueuesWritten'
    BY <2>1, <2>2 DEF QueuesWritten, WrittenRows
  <2>4. QED
    BY <2>1, <2>3, StillWritten
<1>6. ASSUME NEW p \in Peers, NEW s \in FlushSlots, FlushQueried(p, s)
      PROVE  AllWritten'
  <2>1. UNCHANGED <<written, doc, stored, pending, adding, outbox, acking, inbound>>
    BY <1>6 DEF FlushQueried, docVars, batchVars, outVars, inVars
  <2>2. WrittenRows(GetPending(outbox[p]))
    BY DEF QueuesWritten, WrittenRows, GetPending
  <2>3. FlushesWritten' /\ WireWritten'
    BY <1>0, <1>6, <2>1, <2>2, TurnWritten DEF FlushQueried
  <2>4. QED
    BY <2>1, <2>3, StillWritten
<1>7. ASSUME NEW p \in Peers, NEW s \in FlushSlots, FlushAcked(p, s)
      PROVE  AllWritten'
  <2>1. UNCHANGED <<written, doc, stored, pending, adding, acking, inbound>>
    BY <1>7 DEF FlushAcked, docVars, batchVars, inVars
  <2>2. WrittenRows(flushes[p][s].todo)
    BY <1>7 DEF FlushAcked, FlushesWritten, WrittenRows
  <2>3. FlushesWritten' /\ WireWritten'
    BY <1>0, <1>7, <2>1, <2>2, TurnWritten DEF FlushAcked
  <2>4. \A o \in Peers : outbox'[o] \subseteq outbox[o]
    BY <1>0, <1>7 DEF FlushAcked, AcknowledgeOutbox, Acknowledge, OutType
  <2>5. QueuesWritten'
    BY <2>1, <2>4 DEF QueuesWritten, WrittenRows
  <2>6. QED
    BY <2>1, <2>3, <2>5, StillWritten
<1>8. ASSUME NEW p \in Peers, NEW s \in FlushSlots, FlushFails(p, s)
      PROVE  AllWritten'
  <2>1. UNCHANGED <<written, doc, stored, pending, adding, outbox, acking, wire, inbound>>
    BY <1>8 DEF FlushFails, docVars, batchVars, outVars, inVars
  <2>2. FlushesWritten'
    BY <1>0, <1>8, <2>1 DEF FlushFails, FlushType, FlushesWritten, WrittenRows, Idle
  <2>3. QED
    BY <2>1, <2>2, StillWritten
<1>9. ASSUME NEW p \in Peers, NEW m \in wire, Deliver(p, m)
      PROVE  AllWritten'
  <2>1. UNCHANGED <<written, doc, stored, pending, adding, outbox, acking, flushes>>
    BY <1>9 DEF Deliver, docVars, batchVars, outVars
  <2>2. InboundWritten'
    <3>1. CASE UNCHANGED inbound
      BY <2>1, <3>1, StillWritten
    <3>2. CASE ~ UNCHANGED inbound
      <4>1. PICK i \in InboundSlots : inbound' = [inbound EXCEPT ![p][i] =
                 [pc |-> "adding", row |-> NewRow(i, m.row.collection, m.row.updates)]]
        BY <1>9, <3>2 DEF Deliver
      <4>2. QED
        BY <1>0, <2>1, <4>1 DEF InType, InboundWritten, WireWritten, NewRow
    <3>3. QED
      BY <3>1, <3>2
  <2>3. wire' \subseteq wire
    BY <1>9 DEF Deliver
  <2>4. QED
    BY <2>1, <2>2, <2>3, StillWritten
<1>10. ASSUME NEW p \in Peers, NEW i \in InboundSlots, InboxAdded(p, i) \/ InboxAddFails(p, i)
       PROVE  AllWritten'
  <2>1. /\ UNCHANGED <<written, stored, pending, adding, outbox, acking, flushes, wire>>
        /\ doc' = [doc EXCEPT ![p] = @ \union inbound[p][i].row.updates]
        /\ inbound[p][i].pc = "adding"
    BY <1>10 DEF InboxAdded, InboxAddFails, ApplyRemote, outVars
  <2>2. DocsWritten'
    BY <1>0, <2>1 DEF DocType, DocsWritten, InboundWritten
  <2>3. InboundWritten'
    BY <1>0, <1>10, <2>1, CallWritten DEF InboxAdded, InboxAddFails
  <2>4. QED
    BY <2>1, <2>2, <2>3, StillWritten
<1>11. ASSUME NEW p \in Peers, NEW i \in InboundSlots,
              \/ InboxAcked(p, i) \/ InboxMarkedFailed(p, i)
              \/ ApplyThrows(p, i) \/ InboxAckFails(p, i)
       PROVE  AllWritten'
  <2>1. UNCHANGED <<written, doc, stored, pending, adding, outbox, acking, flushes, wire>>
    BY <1>11
       DEF InboxAcked, InboxMarkedFailed, ApplyThrows, InboxAckFails, docVars, batchVars, outVars
  <2>2. InboundWritten'
    BY <1>0, <1>11, <2>1, CallWritten
       DEF InboxAcked, InboxMarkedFailed, ApplyThrows, InboxAckFails
  <2>3. QED
    BY <2>1, <2>2, StillWritten
<1>12. ASSUME NEW p \in Peers, Enable(p) \/ \E q \in Peers : PeerConnected(p, q)
       PROVE  AllWritten'
  <2>1. /\ UNCHANGED <<written, doc, stored, pending, adding, outbox, acking, wire, inbound>>
        /\ StartFlush(p)
    BY <1>12 DEF Enable, PeerConnected, docVars, batchVars, outVars, inVars
  <2>2. FlushesWritten'
    BY <1>0, <2>1, StartWritten
  <2>3. QED
    BY <2>1, <2>2, StillWritten
<1>13. ASSUME NEW p \in Peers, Disposed(p)
       PROVE  AllWritten'
  <2>1. UNCHANGED <<written, stored, adding, outbox, acking, flushes, wire, inbound>>
    BY <1>13 DEF Disposed, outVars, inVars
  <2>2. DocsWritten'
    BY <1>0, <1>13, <2>1 DEF Disposed, DocType, BatchType, DocsWritten
  <2>3. QED
    BY <2>1, <2>2, StillWritten
<1>14. ASSUME NEW p \in Peers, Restart(p)
       PROVE  AllWritten'
  <2>1. UNCHANGED <<written, stored>> /\ wire' \subseteq wire
    BY <1>14 DEF Restart
  <2>2. DocsWritten'
    BY <1>0, <1>14, <2>1 DEF Restart, DocType, BatchType, DocsWritten
  <2>3. QueuesWritten'
    <3>1. \A o \in Peers : outbox'[o] \subseteq outbox[o] \union adding[o]
      <4>1. PICK added \in SUBSET adding[p], gone \in SUBSET BeingAcked(p) :
              outbox' = [outbox EXCEPT ![p] = (@ \union added) \ gone]
        BY <1>14 DEF Restart
      <4>2. QED
        BY <1>0, <4>1 DEF OutType
    <3>2. \A o \in Peers : adding'[o] \subseteq adding[o] /\ acking'[o] \subseteq acking[o]
      BY <1>0, <1>14 DEF Restart, OutType
    <3>3. QED
      BY <2>1, <3>1, <3>2 DEF QueuesWritten, WrittenRows
  <2>4. FlushesWritten' /\ InboundWritten'
    BY <1>0, <1>14, <2>1
       DEF Restart, FlushType, InType, FlushesWritten, InboundWritten, WrittenRows, Idle
  <2>5. QED
    BY <2>1, <2>2, <2>3, <2>4, StillWritten
<1>15. ASSUME NEW p \in Peers, TimerFires(p) \/ TabVisible(p)
       PROVE  AllWritten'
  <2>1. CASE FlushUpdates(p)
    BY <1>3, <1>15, <2>1 DEF TimerFires, TabVisible, inVars
  <2>2. CASE ~ FlushUpdates(p)
    BY <1>15, <2>2, StillWritten DEF TimerFires, TabVisible, docVars, inVars
  <2>3. QED
    BY <2>1, <2>2
<1>16. ASSUME NEW p \in Peers,
              \/ \E c \in Collections : OpenDoc(p, c)
              \/ TabHidden(p) \/ PendingCounted(p) \/ Disable(p) \/ Dispose(p)
              \/ \E q \in Peers : LinkUp(p, q) \/ LinkDown(p, q) \/ PeerDisconnected(p, q)
       PROVE  AllWritten'
  <2>1. /\ UNCHANGED <<written, doc, stored, pending, adding, outbox, acking, flushes, inbound>>
        /\ wire' \subseteq wire
    BY <1>16 DEF OpenDoc, TabHidden, PendingCounted, Disable, Dispose, LinkUp, LinkDown,
                 PeerDisconnected, docVars, batchVars, outVars, inVars
  <2>2. QED
    BY <2>1, StillWritten
<1>17. CASE UNCHANGED vars
  BY <1>17, StillWritten DEF vars, docVars, batchVars, outVars, inVars
<1>18. QED
  BY <1>1, <1>2, <1>4, <1>5, <1>6, <1>7, <1>8, <1>9, <1>10, <1>11, <1>12, <1>13, <1>14,
     <1>15, <1>16, <1>17
     DEF Next, User, Storage, Sending, Receiving, Failing, Connecting

-----------------------------------------------------------------------------
LEMMA StepImplements == TypeOK /\ AllWritten /\ [Next]_vars => [R!Next]_(R!vars)
<1> SUFFICES ASSUME TypeOK, AllWritten, [Next]_vars
             PROVE  [R!Next]_(R!vars)
  OBVIOUS
<1>0. DocType /\ InType /\ DocsWritten /\ InboundWritten
  BY DEF TypeOK, AllWritten
<1>1. ASSUME NEW p \in Peers, NEW u \in Updates, LocalWrite(p, u)
      PROVE  R!Next
  <2>1. R!Write(p, u)
    BY <1>1 DEF LocalWrite, R!Write
  <2>2. QED
    BY <2>1 DEF R!Next
<1>2. ASSUME NEW p \in Peers, NEW c \in Collections, LoadDoc(p, c)
      PROVE  R!Next
  <2> DEFINE new == InCollection(stored[p], c) \ doc[p]
  <2>1. new \in SUBSET Updates /\ new \subseteq written
    BY <1>0 DEF InCollection, DocType, DocsWritten
  <2>2. R!Merge(p, new)
    BY <1>2, <2>1 DEF LoadDoc, R!Merge
  <2>3. QED
    BY <2>1, <2>2 DEF R!Next
<1>3. ASSUME NEW p \in Peers, NEW c \in Collections, Persist(p, c)
      PROVE  R!Next
  <2>1. InCollection(doc[p], c) \in SUBSET Updates /\ InCollection(doc[p], c) \subseteq doc[p]
    BY <1>0 DEF InCollection, DocType
  <2>2. R!Save(p, InCollection(doc[p], c))
    BY <1>3, <2>1 DEF Persist, R!Save
  <2>3. QED
    BY <2>1, <2>2 DEF R!Next
<1>4. ASSUME NEW p \in Peers, NEW i \in InboundSlots, InboxAdded(p, i) \/ InboxAddFails(p, i)
      PROVE  R!Next
  <2>1. inbound[p][i].pc = "adding" /\ ApplyRemote(p, inbound[p][i].row)
    BY <1>4 DEF InboxAdded, InboxAddFails
  <2>2. /\ inbound[p][i].row.updates \in SUBSET Updates
        /\ inbound[p][i].row.updates \subseteq written
    BY <1>0, <2>1 DEF DocType, InboundWritten
  <2>3. R!Merge(p, inbound[p][i].row.updates)
    BY <2>1, <2>2 DEF ApplyRemote, R!Merge
  <2>4. QED
    BY <2>2, <2>3 DEF R!Next
<1>5. ASSUME NEW p \in Peers, Disposed(p) \/ Restart(p)
      PROVE  R!Next
  <2>1. R!Restart(p)
    BY <1>5 DEF Disposed, Restart, R!Restart
  <2>2. QED
    BY <2>1 DEF R!Next
<1>6. ASSUME NEW p \in Peers,
             \/ \E c \in Collections : OpenDoc(p, c)
             \/ TabHidden(p) \/ TabVisible(p) \/ Enable(p) \/ Disable(p) \/ Dispose(p)
             \/ Sending(p) \/ Connecting(p) \/ \E m \in wire : Deliver(p, m)
      PROVE  UNCHANGED R!vars
  BY <1>6
     DEF OpenDoc, TabHidden, TabVisible, Enable, Disable, Dispose, Sending, TimerFires,
         OutboxAdded, LocalAcked, FlushQueried, FlushAcked, PendingCounted, Connecting,
         LinkUp, LinkDown, PeerConnected, PeerDisconnected, Deliver, docVars, R!vars
<1>7. ASSUME NEW p \in Peers,
             \/ \E r \in adding[p] : OutboxAddFails(p, r)
             \/ \E r \in acking[p] : LocalAckFails(p, r)
             \/ \E s \in FlushSlots : FlushFails(p, s)
             \/ \E i \in InboundSlots : \/ InboxAcked(p, i) \/ InboxMarkedFailed(p, i)
                                        \/ ApplyThrows(p, i) \/ InboxAckFails(p, i)
      PROVE  UNCHANGED R!vars
  BY <1>7 DEF OutboxAddFails, LocalAckFails, FlushFails, InboxAcked, InboxMarkedFailed,
              ApplyThrows, InboxAckFails, docVars, R!vars
<1>8. CASE UNCHANGED vars
  BY <1>8 DEF vars, docVars, R!vars
<1>9. QED
  BY <1>1, <1>2, <1>3, <1>4, <1>5, <1>6, <1>7, <1>8
     DEF Next, User, Storage, Receiving, Failing

(* The engines implement the replication the documents describe: every     *)
(* step of the queues, channels, failures and restarts is a write, a merge *)
(* of written updates, a save, a restart, or nothing the replicas show.    *)
THEOREM EnginesReplicate == Spec => Replicates
<1>1. Init => AllWritten
  BY DEF Init, AllWritten, DocsWritten, QueuesWritten, FlushesWritten, WireWritten,
         InboundWritten, WrittenRows, Idle
<1>2. TypeOK /\ AllWritten /\ [Next]_vars => AllWritten'
  BY WrittenStep, SyncAssumption
<1>3. Init => R!Init
  BY DEF Init, R!Init
<1>4. TypeOK /\ AllWritten /\ [Next]_vars => [R!Next]_(R!vars)
  BY StepImplements
<1>5. QED
  BY <1>1, <1>2, <1>3, <1>4, TypeCorrect, PTL DEF Spec, Replicates, R!Spec
=============================================================================
