-------------------------- MODULE EphemeralProofs --------------------------
(***************************************************************************)
(* Theorems about EphemeralState, for every set of peers, every choice of  *)
(* those that throttle and sign, and every value of the bounds.            *)
(***************************************************************************)
EXTENDS EphemeralState, TLAPS

(* A message of p with its current number goes out.                        *)
Flushed(p) ==
  \E m \in Message :
    /\ m.from = p
    /\ m.sequence = sequence'[p]
    /\ IF p \in Signed
       THEN signing' = signing \union {m} /\ wire' = wire
       ELSE /\ signing' = signing
            /\ wire' = wire \union {[to |-> q, message |-> m] : q \in Linked(p)}

LEMMA FlushSends ==
  ASSUME NEW p \in Peers, NEW remove \in BOOLEAN,
         sequence' \in [Peers -> Nat], localState' \in [Peers -> Nat],
         FlushBroadcast(p, remove)
  PROVE  Flushed(p)
<1> DEFINE m == [from |-> p, sequence |-> sequence'[p], remove |-> remove,
                 state |-> IF remove THEN 0 ELSE localState'[p]]
<1>1. m \in Message
  BY DEF Message
<1>2. QED
  BY <1>1 DEF FlushBroadcast, Flushed, Send

LEMMA PacketTypes ==
  ASSUME NEW m \in Message, NEW p
  PROVE  {[to |-> q, message |-> m] : q \in Linked(p)} \subseteq Packet
<1>1. \A q \in Linked(p) : q \in Peers
  BY DEF Linked
<1>2. \A q \in Peers : [to |-> q, message |-> m] \in Packet
  BY DEF Packet
<1>3. QED
  BY <1>1, <1>2

(* What a flush, or none, leaves in flight is well typed.                  *)
LEMMA FlushedTypes ==
  ASSUME TypeOK, NEW p \in Peers, Flushed(p) \/ UNCHANGED <<signing, wire>>
  PROVE  signing' \subseteq Message /\ wire' \subseteq Packet
<1>0. signing \subseteq Message /\ wire \subseteq Packet
  BY DEF TypeOK
<1>1. CASE Flushed(p)
  <2>1. PICK m \in Message :
          IF p \in Signed
          THEN signing' = signing \union {m} /\ wire' = wire
          ELSE /\ signing' = signing
               /\ wire' = wire \union {[to |-> q, message |-> m] : q \in Linked(p)}
    BY <1>1 DEF Flushed
  <2>2. {[to |-> q, message |-> m] : q \in Linked(p)} \subseteq Packet
    BY <2>1, PacketTypes
  <2>3. QED
    BY <1>0, <2>1, <2>2
<1>2. QED
  BY <1>0, <1>1

(* What a change of p's state does to the timer and to what is in flight.  *)
LEMMA AnnounceEffect ==
  ASSUME TypeOK, NEW p \in Peers,
         NEW remove \in BOOLEAN, NEW broadcast \in BOOLEAN, NEW immediate \in BOOLEAN,
         sequence' \in [Peers -> Nat], localState' \in [Peers -> Nat],
         Announce(p, remove, broadcast, immediate)
  PROVE  /\ broadcastTimer' \in [Peers -> {"none", "state", "remove"}]
         /\ \A q \in Peers : broadcastTimer'[q] # "none" => enabled[q]
         /\ \A q \in Peers \ {p} : broadcastTimer'[q] = broadcastTimer[q]
         /\ \/ UNCHANGED <<signing, wire>>
            \/ Flushed(p) /\ broadcastTimer'[p] = "none"
         /\ meant' \in [Peers -> [sequence: Nat, remove: BOOLEAN]]
         /\ audience' \in [Peers -> SUBSET Peers]
<1>0. /\ broadcastTimer \in [Peers -> {"none", "state", "remove"}]
      /\ \A q \in Peers : broadcastTimer[q] # "none" => enabled[q]
      /\ meant \in [Peers -> [sequence: Nat, remove: BOOLEAN]]
      /\ audience \in [Peers -> SUBSET Peers]
  BY DEF TypeOK
<1>1. CASE ~broadcast
  BY <1>0, <1>1 DEF Announce
<1>2. CASE broadcast
  <2>1. Broadcast(p, remove, immediate)
    BY <1>2 DEF Announce
  <2>2. meant' \in [Peers -> [sequence: Nat, remove: BOOLEAN]]
    BY <1>0, <1>2 DEF Announce
  <2>3. audience' \in [Peers -> SUBSET Peers]
    <3>1. Listeners(p) \in SUBSET Peers
      BY DEF Listeners, Linked
    <3>2. audience' = [audience EXCEPT ![p] = IF enabled[p] THEN Listeners(p) ELSE {}]
      BY <1>2 DEF Announce
    <3>3. QED
      BY <1>0, <3>1, <3>2
  <2>4. CASE ~enabled[p]
    BY <1>0, <2>1, <2>2, <2>3, <2>4 DEF Broadcast
  <2>5. CASE enabled[p] /\ (immediate \/ p \notin Throttled)
    <3>1. /\ broadcastTimer' = [broadcastTimer EXCEPT ![p] = "none"]
          /\ FlushBroadcast(p, remove)
      BY <2>1, <2>5 DEF Broadcast
    <3>2. Flushed(p)
      BY <3>1, FlushSends
    <3>3. QED
      BY <1>0, <2>2, <2>3, <3>1, <3>2
  <2>6. CASE enabled[p] /\ ~(immediate \/ p \notin Throttled)
    <3>1. /\ broadcastTimer' = [broadcastTimer EXCEPT ![p] =
               IF remove THEN "remove" ELSE IF @ = "none" THEN "state" ELSE @]
          /\ UNCHANGED <<signing, wire>>
      BY <2>1, <2>6 DEF Broadcast
    <3>2. QED
      BY <1>0, <2>2, <2>3, <2>6, <3>1
  <2>7. QED
    BY <2>4, <2>5, <2>6
<1>3. QED
  BY <1>1, <1>2

-----------------------------------------------------------------------------
(* Type correctness.                                                       *)

LEMMA InitType == EphemeralAssumption => (Init => TypeOK)
<1> SUFFICES ASSUME EphemeralAssumption, Init PROVE TypeOK
  OBVIOUS
<1>1. Nothing \in PeerState
  BY DEF Nothing, PeerState
<1>2. QED
  BY <1>1 DEF Init, TypeOK

LEMMA ChangeType ==
  ASSUME TypeOK, NEW p \in Peers, NEW remove \in BOOLEAN,
         NEW broadcast \in BOOLEAN, NEW immediate \in BOOLEAN,
         IF remove THEN RemoveLocalState(p, broadcast, immediate)
                   ELSE CommitLocalState(p, broadcast, immediate)
  PROVE  TypeOK'
<1>0. /\ localState \in [Peers -> Nat] /\ sequence \in [Peers -> Nat]
      /\ states \in [Peers -> [Peers -> PeerState]]
  BY DEF TypeOK
<1>1. /\ sequence' = [sequence EXCEPT ![p] = @ + 1]
      /\ localState' = [localState EXCEPT ![p] = IF remove THEN 0 ELSE sequence'[p]]
      /\ states' = [states EXCEPT ![p][p] = IF remove THEN Nothing ELSE
           [shown |-> TRUE, sequence |-> sequence'[p], state |-> sequence'[p]]]
      /\ Announce(p, remove, broadcast, immediate)
      /\ UNCHANGED <<enabled, link, links, heard>>
  BY DEF RemoveLocalState, CommitLocalState
<1>2. sequence' \in [Peers -> Nat] /\ localState' \in [Peers -> Nat]
  BY <1>0, <1>1
<1>3. states' \in [Peers -> [Peers -> PeerState]]
  <2>1. Nothing \in PeerState
    BY DEF Nothing, PeerState
  <2>2. [shown |-> TRUE, sequence |-> sequence'[p], state |-> sequence'[p]] \in PeerState
    BY <1>2 DEF PeerState
  <2>3. QED
    BY <1>0, <1>1, <2>1, <2>2
<1>4. signing' \subseteq Message /\ wire' \subseteq Packet
  BY <1>1, <1>2, AnnounceEffect, FlushedTypes
<1>5. /\ broadcastTimer' \in [Peers -> {"none", "state", "remove"}]
      /\ \A q \in Peers : broadcastTimer'[q] # "none" => enabled'[q]
      /\ meant' \in [Peers -> [sequence: Nat, remove: BOOLEAN]]
      /\ audience' \in [Peers -> SUBSET Peers]
  BY <1>1, <1>2, AnnounceEffect
<1>6. QED
  BY <1>1, <1>2, <1>3, <1>4, <1>5 DEF TypeOK

LEMMA StepType == TypeOK /\ [Next]_vars => TypeOK'
<1> SUFFICES ASSUME TypeOK, [Next]_vars PROVE TypeOK'
  OBVIOUS
<1> USE DEF TypeOK
<1>0. Nothing \in PeerState
  BY DEF Nothing, PeerState
<1>1. ASSUME NEW p \in Peers, Change(p) PROVE TypeOK'
  <2>1. PICK broadcast \in BOOLEAN, immediate \in BOOLEAN :
          \/ CommitLocalState(p, broadcast, immediate)
          \/ RemoveLocalState(p, broadcast, immediate)
    BY <1>1 DEF Change
  <2>2. PICK remove \in BOOLEAN :
          IF remove THEN RemoveLocalState(p, broadcast, immediate)
                    ELSE CommitLocalState(p, broadcast, immediate)
    BY <2>1
  <2>3. QED
    BY <2>2, ChangeType
<1>2. ASSUME NEW p \in Peers, TimerFires(p) PROVE TypeOK'
  <2>1. sequence' = sequence /\ localState' = localState
    BY <1>2 DEF TimerFires
  <2>2. Flushed(p)
    BY ZenonT(30), <1>2, <2>1, FlushSends DEF TimerFires
  <2>3. signing' \subseteq Message /\ wire' \subseteq Packet
    BY <2>2, FlushedTypes
  <2>4. QED
    BY <1>2, <2>3 DEF TimerFires
<1>3. ASSUME NEW q \in Peers, Pruned(q) PROVE TypeOK'
  <2>1. PICK gone \in SUBSET Peers : Prune(q, gone)
    BY <1>3 DEF Pruned
  <2>2. states' \in [Peers -> [Peers -> PeerState]]
    BY <1>0, <2>1 DEF Prune
  <2>3. audience' \in [Peers -> SUBSET Peers]
    BY <2>1 DEF Prune
  <2>4. QED
    BY <2>1, <2>2, <2>3 DEF Prune
<1>4. ASSUME NEW p \in Peers, Enable(p) PROVE TypeOK'
  BY <1>4 DEF Enable
<1>5. ASSUME NEW p \in Peers, Disable(p) PROVE TypeOK'
  BY <1>5 DEF Disable, StopListening
<1>6. ASSUME NEW p \in Peers, Dispose(p) PROVE TypeOK'
  BY <1>0, <1>6 DEF Dispose, StopListening
<1>7. ASSUME NEW m \in signing, Sign(m) PROVE TypeOK'
  <2>1. m \in Message
    OBVIOUS
  <2>2. wire' \subseteq Packet
    <3>1. wire' = wire \union {[to |-> q, message |-> m] : q \in Linked(m.from)}
      BY <1>7 DEF Sign, Send
    <3>2. QED
      BY <2>1, <3>1, PacketTypes
  <2>3. QED
    BY <1>7, <2>2 DEF Sign
<1>8. ASSUME NEW packet \in wire, Receive(packet) PROVE TypeOK'
  <2> DEFINE q == packet.to
             m == packet.message
  <2>1. q \in Peers /\ m \in Message
    BY DEF Packet
  <2>2. m.from \in Peers /\ m.sequence \in Nat /\ m.state \in Nat
    BY <2>1 DEF Message
  <2>3. [shown |-> TRUE, sequence |-> m.sequence, state |-> m.state] \in PeerState
    BY <2>2 DEF PeerState
  <2>4. /\ states' \in [Peers -> [Peers -> PeerState]]
        /\ heard' \in [Peers -> [Peers -> Nat]]
    <3>1. CASE enabled[q]
      <4>1. PICK st \in PeerState : states' = [states EXCEPT ![q][m.from] = st]
        <5>1. states[q][m.from] \in PeerState
          BY <2>1, <2>2
        <5>2. QED
          BY <1>0, <1>8, <2>3, <3>1, <5>1 DEF Receive, OnNetworkMessage
      <4> DEFINE n == IF m.sequence > heard[q][m.from] THEN m.sequence
                      ELSE heard[q][m.from]
      <4>2. n \in Nat
        BY <2>1, <2>2
      <4>3. heard' = [heard EXCEPT ![q][m.from] = n]
        BY <1>8, <3>1 DEF Receive, OnNetworkMessage
      <4> HIDE DEF n
      <4>4. QED
        BY <2>1, <2>2, <4>1, <4>2, <4>3
    <3>2. CASE ~enabled[q]
      BY <1>8, <3>2 DEF Receive, OnNetworkMessage
    <3>3. QED
      BY <3>1, <3>2
  <2>5. QED
    BY <1>8, <2>4 DEF Receive
<1>9. ASSUME NEW p \in Peers, NEW q \in Peers, LinkUp(p, q) \/ LinkDown(p, q)
      PROVE  TypeOK'
  <2>1. CASE LinkUp(p, q)
    <3>1. links' \in Nat
      BY <2>1 DEF LinkUp
    <3>2. link' = link \union {{p, q}} /\ {p, q} \in SUBSET Peers
      BY <2>1 DEF LinkUp
    <3>3. link' \subseteq SUBSET Peers
      BY <3>2
    <3>4. QED
      BY <2>1, <3>1, <3>3 DEF LinkUp
  <2>2. CASE LinkDown(p, q)
    <3>1. link' \subseteq SUBSET Peers
      BY <2>2 DEF LinkDown
    <3>2. wire' \subseteq Packet
      BY <2>2 DEF LinkDown
    <3>3. audience' \in [Peers -> SUBSET Peers]
      BY <2>2 DEF LinkDown
    <3>4. QED
      BY <2>2, <3>1, <3>2, <3>3 DEF LinkDown
  <2>3. QED
    BY <1>9, <2>1, <2>2
<1>10. CASE UNCHANGED vars
  BY <1>10 DEF vars
<1>11. QED
  BY <1>1, <1>2, <1>3, <1>4, <1>5, <1>6, <1>7, <1>8, <1>9, <1>10 DEF Next

(* Every behaviour of EphemeralState is type correct, and a peer that has  *)
(* stopped listening has no broadcast armed.                               *)
THEOREM TypeCorrect == EphemeralAssumption => (Spec => []TypeOK)
<1>1. EphemeralAssumption => (Init => TypeOK)
  BY InitType
<1>2. TypeOK /\ [Next]_vars => TypeOK'
  BY StepType
<1>3. QED
  BY <1>1, <1>2, PTL DEF Spec

-----------------------------------------------------------------------------
(* Without signatures nothing overtakes.  What makes NeverBackwards        *)
(* inductive: a number is sent once, in the order of the changes, and what *)
(* is under way to q is newer than anything q has handled.                 *)
InOrder(p) ==
  /\ \A m \in signing : m.from # p
  /\ \A k \in wire : k.message.from = p =>
       /\ heard[k.to][p] < k.message.sequence
       /\ k.message.sequence <= sequence[p]
       /\ broadcastTimer[p] # "none" => k.message.sequence < sequence[p]
  /\ \A q \in Peers :
       /\ heard[q][p] <= sequence[p]
       /\ broadcastTimer[p] # "none" => heard[q][p] < sequence[p]
  /\ \A k, l \in wire :
       ( /\ k.message.from = p /\ l.message.from = p
         /\ k.to = l.to /\ k.message.sequence = l.message.sequence ) => k = l

OrderInv == \A p \in Peers \ Signed : InOrder(p)

(* Nothing is sent and nothing heard, and p's number grows if its timer is *)
(* armed anew.                                                             *)
LEMMA SilentOrder ==
  ASSUME TypeOK, TypeOK', NEW p \in Peers, InOrder(p),
         signing' \subseteq signing, wire' \subseteq wire, heard' = heard,
         \/ sequence'[p] > sequence[p]
         \/ /\ sequence'[p] = sequence[p]
            /\ broadcastTimer'[p] # "none" => broadcastTimer[p] # "none"
  PROVE  InOrder(p)'
<1>1. /\ sequence[p] \in Nat /\ sequence'[p] \in Nat
      /\ \A k \in wire : k.message.sequence \in Nat /\ k.to \in Peers
      /\ \A q \in Peers : heard[q][p] \in Nat
  BY DEF TypeOK, Packet, Message
<1>2. QED
  BY <1>1 DEF InOrder

(* A peer that signs sends something, or p itself does, with a number that *)
(* is greater than any before.                                             *)
LEMMA FlushOrder ==
  ASSUME TypeOK, TypeOK', NEW p \in Peers \ Signed, InOrder(p),
         NEW r \in Peers, Flushed(r), heard' = heard,
         r = p => /\ broadcastTimer'[p] = "none"
                  /\ \A k \in wire : k.message.from = p => k.message.sequence < sequence'[p]
                  /\ \A q \in Peers : heard[q][p] < sequence'[p],
         r # p => sequence'[p] = sequence[p] /\ broadcastTimer'[p] = broadcastTimer[p]
  PROVE  InOrder(p)'
<1>1. /\ sequence[p] \in Nat /\ sequence'[p] \in Nat
      /\ \A k \in wire : k.message.sequence \in Nat /\ k.to \in Peers
      /\ \A q \in Peers : heard[q][p] \in Nat
  BY DEF TypeOK, Packet, Message
<1>2. PICK m \in Message :
        /\ m.from = r
        /\ m.sequence = sequence'[r]
        /\ IF r \in Signed
           THEN signing' = signing \union {m} /\ wire' = wire
           ELSE /\ signing' = signing
                /\ wire' = wire \union {[to |-> q, message |-> m] : q \in Linked(r)}
  BY DEF Flushed
<1>3. \A k \in wire' : k \in wire \/ (k.message = m /\ k.to \in Peers /\ r \notin Signed)
  <2>1. \A q \in Linked(r) : q \in Peers
    BY DEF Linked
  <2>2. ASSUME NEW k \in wire', k \notin wire
        PROVE  k.message = m /\ k.to \in Peers /\ r \notin Signed
    <3>1. r \notin Signed /\ k \in {[to |-> q, message |-> m] : q \in Linked(r)}
      BY <1>2, <2>2
    <3>2. PICK q \in Linked(r) : k = [to |-> q, message |-> m]
      BY <3>1
    <3>3. QED
      BY <2>1, <3>1, <3>2
  <2>3. QED
    BY <2>2
<1>4. \A k \in wire' : k \notin wire => k = [to |-> k.to, message |-> m]
  BY <1>2
<1>5. CASE r # p
  <2>1. \A k \in wire' : k.message.from = p => k \in wire
    BY <1>2, <1>3, <1>5
  <2>2. \A n \in signing' : n.from # p
    BY <1>2, <1>5 DEF InOrder
  <2>3. QED
    BY <1>1, <1>5, <2>1, <2>2 DEF InOrder
<1>6. CASE r = p
  <2>1. signing' = signing
    BY <1>2, <1>6
  <2>2. \A k \in wire' : k.message.from = p =>
          /\ k.to \in Peers
          /\ heard[k.to][p] < k.message.sequence
          /\ k.message.sequence <= sequence'[p]
    BY <1>1, <1>2, <1>3, <1>6 DEF InOrder
  <2>3. ASSUME NEW k \in wire', NEW l \in wire',
               k.message.from = p, l.message.from = p,
               k.to = l.to, k.message.sequence = l.message.sequence
        PROVE  k = l
    <3>1. CASE k \in wire /\ l \in wire
      BY <2>3, <3>1 DEF InOrder
    <3>2. CASE k \notin wire /\ l \notin wire
      BY <1>4, <2>3, <3>2
    <3>3. CASE (k \in wire /\ l \notin wire) \/ (k \notin wire /\ l \in wire)
      BY <1>1, <1>2, <1>3, <1>6, <2>3, <3>3
    <3>4. QED
      BY <3>1, <3>2, <3>3
  <2>4. \A q \in Peers : heard[q][p] <= sequence'[p]
    BY <1>1, <1>6
  <2>5. QED
    BY <1>6, <2>1, <2>2, <2>3, <2>4 DEF InOrder
<1>7. QED
  BY <1>5, <1>6

(* A change of r's state, broadcast, armed or kept to itself.              *)
LEMMA ChangeOrder ==
  ASSUME TypeOK, TypeOK', NEW r \in Peers, Change(r), NEW p \in Peers \ Signed, InOrder(p)
  PROVE  InOrder(p)'
<1>0. /\ sequence \in [Peers -> Nat]
      /\ \A k \in wire : k.message.sequence \in Nat
      /\ \A q \in Peers : heard[q][p] \in Nat
  BY DEF TypeOK, Packet, Message
<1>1. PICK remove \in BOOLEAN, broadcast \in BOOLEAN, immediate \in BOOLEAN :
        Announce(r, remove, broadcast, immediate)
  BY DEF Change, CommitLocalState, RemoveLocalState
<1>2. sequence' = [sequence EXCEPT ![r] = @ + 1] /\ heard' = heard
  BY DEF Change, CommitLocalState, RemoveLocalState
<1>3. /\ \A q \in Peers \ {r} : broadcastTimer'[q] = broadcastTimer[q]
      /\ \/ UNCHANGED <<signing, wire>>
         \/ Flushed(r) /\ broadcastTimer'[r] = "none"
  <2>1. sequence' \in [Peers -> Nat] /\ localState' \in [Peers -> Nat]
    BY DEF TypeOK
  <2>2. QED
    BY <1>1, <2>1, AnnounceEffect
<1>4. /\ r = p => sequence'[p] > sequence[p]
      /\ r # p => sequence'[p] = sequence[p]
  BY <1>0, <1>2
<1>5. CASE UNCHANGED <<signing, wire>>
  BY <1>2, <1>3, <1>4, <1>5, SilentOrder
<1>6. CASE Flushed(r) /\ broadcastTimer'[r] = "none"
  <2>1. r = p => /\ \A k \in wire : k.message.from = p => k.message.sequence < sequence'[p]
                 /\ \A q \in Peers : heard[q][p] < sequence'[p]
    BY <1>0, <1>2 DEF InOrder
  <2>2. QED
    BY <1>2, <1>3, <1>4, <1>6, <2>1, FlushOrder
<1>7. QED
  BY <1>3, <1>5, <1>6

(* A message of p, the oldest under way to q, is handled.                  *)
LEMMA ReceiveOrder ==
  ASSUME TypeOK, TypeOK', NEW packet \in wire, Receive(packet),
         NEW p \in Peers \ Signed, InOrder(p)
  PROVE  InOrder(p)'
<1> DEFINE q == packet.to
           m == packet.message
<1>1. /\ sequence[p] \in Nat
      /\ \A k \in wire : k.message.sequence \in Nat /\ k.to \in Peers
      /\ heard \in [Peers -> [Peers -> Nat]]
      /\ m.from \in Peers /\ q \in Peers
  BY DEF TypeOK, Packet, Message
<1>2. /\ wire' = wire \ {packet}
      /\ UNCHANGED <<sequence, broadcastTimer, signing>>
  BY DEF Receive
<1>3. CASE ~enabled[q] \/ m.from # p
  <2>1. \A s \in Peers : heard'[s][p] = heard[s][p]
    BY <1>1, <1>3 DEF Receive, OnNetworkMessage
  <2>2. QED
    BY <1>1, <1>2, <2>1 DEF InOrder
<1>4. CASE enabled[q] /\ m.from = p
  <2>1. heard[q][p] < m.sequence /\ m.sequence <= sequence[p]
    BY <1>4 DEF InOrder
  <2>2. heard' = [heard EXCEPT ![q][p] = m.sequence]
    BY <1>1, <1>4, <2>1 DEF Receive, OnNetworkMessage
  <2>3. \A s \in Peers : heard'[s][p] = IF s = q THEN m.sequence ELSE heard[s][p]
    BY <1>1, <2>2
  <2>4. ASSUME NEW k \in wire', k.message.from = p, k.to = q
        PROVE  m.sequence < k.message.sequence
    <3>1. m.sequence <= k.message.sequence
      BY <1>2, <1>4, <2>4 DEF Receive
    <3>2. k # packet /\ k \in wire
      BY <1>2
    <3>3. m.sequence # k.message.sequence
      BY <1>4, <2>4, <3>2 DEF InOrder
    <3>4. m.sequence \in Nat /\ k.message.sequence \in Nat
      BY <1>1, <3>2
    <3>5. QED
      BY <3>1, <3>3, <3>4
  <2>5. \A k \in wire' : k.message.from = p => heard'[k.to][p] < k.message.sequence
    BY <1>1, <1>2, <2>3, <2>4 DEF InOrder
  <2>6. \A s \in Peers : /\ heard'[s][p] <= sequence[p]
                         /\ broadcastTimer[p] # "none" => heard'[s][p] < sequence[p]
    BY <1>1, <1>4, <2>1, <2>3 DEF InOrder
  <2>7. QED
    BY <1>2, <2>5, <2>6 DEF InOrder
<1>5. QED
  BY <1>3, <1>4

LEMMA StepOrder ==
  ASSUME TypeOK, TypeOK', [Next]_vars, OrderInv
  PROVE  OrderInv'
<1> SUFFICES ASSUME NEW p \in Peers \ Signed PROVE InOrder(p)'
  BY DEF OrderInv
<1>0. InOrder(p)
  BY DEF OrderInv
<1>1. ASSUME NEW r \in Peers, Change(r) PROVE InOrder(p)'
  BY <1>0, <1>1, ChangeOrder
<1>2. ASSUME NEW r \in Peers, TimerFires(r) PROVE InOrder(p)'
  <2>1. /\ broadcastTimer[r] # "none"
        /\ UNCHANGED <<sequence, localState, heard>>
        /\ broadcastTimer' = [broadcastTimer EXCEPT ![r] = "none"]
        /\ FlushBroadcast(r, broadcastTimer[r] = "remove")
    BY <1>2 DEF TimerFires
  <2>2. Flushed(r)
    BY <2>1, FlushSends DEF TypeOK
  <2>3. r = p => /\ broadcastTimer'[p] = "none"
                 /\ \A k \in wire : k.message.from = p => k.message.sequence < sequence'[p]
                 /\ \A q \in Peers : heard[q][p] < sequence'[p]
    BY <1>0, <2>1 DEF InOrder, TypeOK
  <2>4. r # p => sequence'[p] = sequence[p] /\ broadcastTimer'[p] = broadcastTimer[p]
    BY <2>1 DEF TypeOK
  <2>5. QED
    BY <1>0, <2>1, <2>2, <2>3, <2>4, FlushOrder
<1>3. ASSUME NEW r \in Peers, Pruned(r) PROVE InOrder(p)'
  BY <1>0, <1>3, SilentOrder DEF Pruned, Prune
<1>4. ASSUME NEW r \in Peers, Enable(r) PROVE InOrder(p)'
  BY <1>0, <1>4, SilentOrder DEF Enable
<1>5. ASSUME NEW r \in Peers, Disable(r) \/ Dispose(r) PROVE InOrder(p)'
  <2>1. broadcastTimer' = [broadcastTimer EXCEPT ![r] = "none"]
    BY <1>5 DEF Disable, Dispose, StopListening
  <2>2. broadcastTimer'[p] # "none" => broadcastTimer[p] # "none"
    BY <2>1 DEF TypeOK
  <2>3. UNCHANGED <<sequence, signing, wire, heard>>
    BY <1>5 DEF Disable, Dispose
  <2>4. QED
    BY <1>0, <2>2, <2>3, SilentOrder
<1>6. ASSUME NEW m \in signing, Sign(m) PROVE InOrder(p)'
  <2>1. m.from # p
    BY <1>0 DEF InOrder
  <2>2. \A k \in wire' : k.message.from = p => k \in wire
    BY <1>6, <2>1 DEF Sign, Send
  <2>3. signing' \subseteq signing /\ UNCHANGED <<sequence, broadcastTimer, heard>>
    BY <1>6 DEF Sign
  <2>4. QED
    BY <1>0, <2>2, <2>3 DEF InOrder
<1>7. ASSUME NEW packet \in wire, Receive(packet) PROVE InOrder(p)'
  BY <1>0, <1>7, ReceiveOrder
<1>8. ASSUME NEW r \in Peers, NEW q \in Peers, LinkUp(r, q) \/ LinkDown(r, q)
      PROVE  InOrder(p)'
  <2>1. wire' \subseteq wire /\ UNCHANGED <<sequence, broadcastTimer, signing, heard>>
    BY <1>8 DEF LinkUp, LinkDown
  <2>2. QED
    BY <1>0, <2>1, SilentOrder
<1>9. CASE UNCHANGED vars
  BY <1>0, <1>9, SilentOrder DEF vars
<1>10. QED
  BY <1>1, <1>2, <1>3, <1>4, <1>5, <1>6, <1>7, <1>8, <1>9 DEF Next

-----------------------------------------------------------------------------
(* What handling a message leaves to be shown of its sender.               *)
LEMMA Handled ==
  ASSUME states \in [Peers -> [Peers -> PeerState]], NEW q \in Peers, enabled[q],
         NEW m, m.from \in Peers, OnNetworkMessage(q, m)
  PROVE  states'[q][m.from] =
           IF ~ Takes(states[q][m.from], m) THEN states[q][m.from]
           ELSE IF m.remove THEN Nothing
           ELSE [shown |-> TRUE, sequence |-> m.sequence, state |-> m.state]
BY DEF OnNetworkMessage

LEMMA StepBackwards ==
  ASSUME TypeOK, [Next]_vars, OrderInv, NeverBackwards
  PROVE  NeverBackwards'
<1> SUFFICES ASSUME NEW q \in Peers, NEW p \in Peers \ (Signed \union {q}),
                    states'[q][p].shown
             PROVE  states'[q][p].sequence = heard'[q][p]
  BY DEF NeverBackwards
<1>0. /\ states \in [Peers -> [Peers -> PeerState]]
      /\ heard \in [Peers -> [Peers -> Nat]]
      /\ states[q][p].shown => states[q][p].sequence = heard[q][p]
      /\ ~Nothing.shown
  BY DEF TypeOK, NeverBackwards, Nothing
<1>1. ASSUME NEW r \in Peers, Change(r)
      PROVE  states'[q][p] = states[q][p] /\ heard' = heard
  <2>1. PICK st : states' = [states EXCEPT ![r][r] = st]
    BY <1>1 DEF Change, CommitLocalState, RemoveLocalState
  <2>2. heard' = heard
    BY <1>1 DEF Change, CommitLocalState, RemoveLocalState
  <2>3. QED
    BY <1>0, <2>1, <2>2
<1>2. ASSUME NEW r \in Peers, Pruned(r)
      PROVE  (states'[q][p] = states[q][p] \/ states'[q][p] = Nothing) /\ heard' = heard
  BY <1>0, <1>2 DEF Pruned, Prune
<1>3. ASSUME NEW r \in Peers, Dispose(r)
      PROVE  (states'[q][p] = states[q][p] \/ states'[q][p] = Nothing) /\ heard' = heard
  BY <1>0, <1>3 DEF Dispose
<1>4. ASSUME NEW packet \in wire, Receive(packet), states'[q][p] # states[q][p]
      PROVE  states'[q][p].sequence = heard'[q][p]
  <2> DEFINE m == packet.message
  <2>1. packet.to \in Peers /\ m.from \in Peers /\ m.sequence \in Nat
    BY DEF TypeOK, Packet, Message
  <2>2. packet.to = q /\ m.from = p /\ enabled[q]
    BY <1>0, <1>4, <2>1 DEF Receive, OnNetworkMessage
  <2>3. heard[q][p] < m.sequence
    BY <2>2 DEF OrderInv, InOrder
  <2>4. heard'[q][p] = m.sequence
    BY <1>0, <1>4, <2>1, <2>2, <2>3 DEF Receive, OnNetworkMessage
  <2>5. \/ states'[q][p] = Nothing
        \/ states'[q][p] = [shown |-> TRUE, sequence |-> m.sequence, state |-> m.state]
    <3>1. OnNetworkMessage(q, m)
      BY <1>4, <2>2 DEF Receive
    <3>2. QED
      BY <1>0, <1>4, <2>1, <2>2, <3>1, Handled
  <2>6. QED
    BY <1>0, <2>4, <2>5
<1>5. ASSUME NEW packet \in wire, Receive(packet), states'[q][p] = states[q][p]
      PROVE  states'[q][p].sequence = heard'[q][p]
  <2> DEFINE m == packet.message
  <2>1. packet.to \in Peers /\ m.from \in Peers /\ m.sequence \in Nat
    BY DEF TypeOK, Packet, Message
  <2>2. CASE packet.to = q /\ m.from = p /\ enabled[q]
    <3>1. heard[q][p] < m.sequence
      BY <2>2 DEF OrderInv, InOrder
    <3>2. Takes(states[q][p], m)
      BY <1>0, <1>5, <2>1, <3>1 DEF Takes
    <3>3. \/ states'[q][p] = Nothing
          \/ states'[q][p] = [shown |-> TRUE, sequence |-> m.sequence, state |-> m.state]
      <4>1. OnNetworkMessage(q, m)
        BY <1>5, <2>2 DEF Receive
      <4>2. QED
        BY <1>0, <2>1, <2>2, <3>2, <4>1, Handled
    <3>4. heard'[q][p] = m.sequence
      BY <1>0, <1>5, <2>1, <2>2, <3>1 DEF Receive, OnNetworkMessage
    <3>5. QED
      BY <1>0, <3>3, <3>4
  <2>3. CASE ~(packet.to = q /\ m.from = p /\ enabled[q])
    <3>1. heard'[q][p] = heard[q][p]
      BY <1>0, <1>5, <2>1, <2>3 DEF Receive, OnNetworkMessage
    <3>2. QED
      BY <1>0, <1>5, <3>1
  <2>4. QED
    BY <2>2, <2>3
<1>6. CASE UNCHANGED <<states, heard>>
  BY <1>0, <1>6
<1>7. \/ \E r \in Peers : Change(r) \/ Pruned(r) \/ Dispose(r)
      \/ \E packet \in wire : Receive(packet)
      \/ UNCHANGED <<states, heard>>
  BY DEF Next, vars, TimerFires, Enable, Disable, Sign, LinkUp, LinkDown
<1>8. QED
  BY <1>0, <1>1, <1>2, <1>3, <1>4, <1>5, <1>6, <1>7

LEMMA OrderKept == EphemeralAssumption => (Spec => [](OrderInv /\ NeverBackwards))
<1> SUFFICES ASSUME EphemeralAssumption PROVE Spec => [](OrderInv /\ NeverBackwards)
  OBVIOUS
<1>1. Init => OrderInv /\ NeverBackwards
  BY DEF Init, OrderInv, InOrder, NeverBackwards, Nothing
<1>2. TypeOK /\ TypeOK' /\ [Next]_vars /\ OrderInv /\ NeverBackwards
        => OrderInv' /\ NeverBackwards'
  BY StepOrder, StepBackwards
<1>3. Spec => []TypeOK
  BY TypeCorrect
<1>4. QED
  BY <1>1, <1>2, <1>3, PTL DEF Spec

(* In every behaviour, what is shown of a peer that does not sign is the   *)
(* newest thing handled of it, although tombstones and pruning forget its  *)
(* number (onNetworkMessage, pruneStalePeers).                             *)
THEOREM NothingStale == EphemeralAssumption => (Spec => []NeverBackwards)
BY OrderKept, PTL

-----------------------------------------------------------------------------
(* Who is in the audience of a change is connected and listens, and the    *)
(* change has a number that was given out.                                 *)
ListenInv ==
  \A p \in Peers : audience[p] \subseteq Listeners(p) /\ meant[p].sequence <= sequence[p]

LEMMA StepListen ==
  ASSUME TypeOK, TypeOK', [Next]_vars, ListenInv
  PROVE  ListenInv'
<1> SUFFICES ASSUME NEW p \in Peers
             PROVE  /\ \A q \in audience'[p] : q \in Peers /\ {p, q} \in link' /\ enabled'[q]
                    /\ meant'[p].sequence <= sequence'[p]
  BY DEF ListenInv, Listeners, Linked
<1>0. /\ \A q \in audience[p] : q \in Peers /\ {p, q} \in link /\ enabled[q]
      /\ meant[p].sequence <= sequence[p] /\ meant[p].sequence \in Nat
      /\ sequence \in [Peers -> Nat] /\ audience \in [Peers -> SUBSET Peers]
      /\ meant \in [Peers -> [sequence: Nat, remove: BOOLEAN]]
      /\ enabled \in [Peers -> BOOLEAN]
  BY DEF TypeOK, ListenInv, Listeners, Linked
<1>1. ASSUME NEW r \in Peers, Change(r)
      PROVE  /\ \A q \in audience'[p] : q \in Peers /\ {p, q} \in link' /\ enabled'[q]
             /\ meant'[p].sequence <= sequence'[p]
  <2>1. PICK remove \in BOOLEAN, broadcast \in BOOLEAN, immediate \in BOOLEAN :
          Announce(r, remove, broadcast, immediate)
    BY <1>1 DEF Change, CommitLocalState, RemoveLocalState
  <2>2. /\ sequence' = [sequence EXCEPT ![r] = @ + 1]
        /\ UNCHANGED <<enabled, link>>
    BY <1>1 DEF Change, CommitLocalState, RemoveLocalState
  <2>3. \/ meant'[p] = meant[p] /\ audience'[p] = audience[p]
        \/ /\ meant'[p] = [sequence |-> sequence'[p], remove |-> remove]
           /\ audience'[p] \subseteq Listeners(p)
    BY <1>0, <2>1 DEF Announce
  <2>4. sequence'[p] \in Nat /\ sequence'[p] >= sequence[p]
    BY <1>0, <2>2
  <2>5. meant'[p].sequence <= sequence'[p]
    BY <1>0, <2>3, <2>4
  <2>6. \A q \in Listeners(p) : q \in Peers /\ {p, q} \in link /\ enabled[q]
    BY DEF Listeners, Linked
  <2>7. QED
    BY <1>0, <2>2, <2>3, <2>5, <2>6
<1>2. ASSUME NEW r \in Peers, TimerFires(r) \/ Enable(r)
      PROVE  /\ UNCHANGED <<audience, link, meant, sequence>>
             /\ \A q \in Peers : enabled[q] => enabled'[q]
  BY <1>0, <1>2 DEF TimerFires, Enable
<1>3. ASSUME NEW r \in Peers, Pruned(r)
      PROVE  audience'[p] \subseteq audience[p] /\ UNCHANGED <<enabled, link, meant, sequence>>
  BY <1>0, <1>3 DEF Pruned, Prune
<1>4. ASSUME NEW r \in Peers, Disable(r) \/ Dispose(r)
      PROVE  /\ audience'[p] \subseteq audience[p] \ {r}
             /\ enabled' = [enabled EXCEPT ![r] = FALSE]
             /\ UNCHANGED <<link, meant, sequence>>
  BY <1>0, <1>4 DEF Disable, Dispose, StopListening
<1>5. ASSUME NEW r \in Peers, NEW s \in Peers, LinkUp(r, s)
      PROVE  link \subseteq link' /\ UNCHANGED <<audience, enabled, meant, sequence>>
  BY <1>5 DEF LinkUp
<1>6. ASSUME NEW r \in Peers, NEW s \in Peers, LinkDown(r, s)
      PROVE  /\ \A q \in audience'[p] : q \in audience[p] /\ {p, q} # {r, s}
             /\ link' = link \ {{r, s}}
             /\ UNCHANGED <<enabled, meant, sequence>>
  <2>1. /\ audience' = [audience EXCEPT ![r] = @ \ {s}, ![s] = @ \ {r}]
        /\ link' = link \ {{r, s}}
        /\ UNCHANGED <<enabled, meant, sequence>>
    BY <1>6 DEF LinkDown
  <2>2. audience'[p] = (audience[p] \ (IF p = r THEN {s} ELSE {})) \ (IF p = s THEN {r} ELSE {})
    BY <1>0, <2>1
  <2>3. ASSUME NEW q \in audience'[p] PROVE q \in audience[p] /\ {p, q} # {r, s}
    BY <2>2
  <2>4. QED
    BY <2>1, <2>3
<1>7. ASSUME \/ \E m \in signing : Sign(m)
             \/ \E packet \in wire : Receive(packet)
             \/ UNCHANGED vars
      PROVE  UNCHANGED <<audience, link, enabled, meant, sequence>>
  BY <1>7 DEF Sign, Receive, vars
<1> DEFINE Goal == /\ \A q \in audience'[p] : q \in Peers /\ {p, q} \in link' /\ enabled'[q]
                  /\ meant'[p].sequence <= sequence'[p]
<1>8. CASE \E r \in Peers : TimerFires(r) \/ Enable(r)
  BY <1>0, <1>2, <1>8
<1>9. CASE \E r \in Peers : Pruned(r)
  BY <1>0, <1>3, <1>9
<1>10. CASE \E r \in Peers : Disable(r) \/ Dispose(r)
  BY <1>0, <1>4, <1>10
<1>11. CASE \E r, s \in Peers : LinkUp(r, s)
  BY <1>0, <1>5, <1>11
<1>12. CASE \E r, s \in Peers : LinkDown(r, s)
  BY ZenonT(30), <1>0, <1>6, <1>12
<1>13. CASE \/ \E m \in signing : Sign(m)
            \/ \E packet \in wire : Receive(packet)
            \/ UNCHANGED vars
  BY <1>0, <1>7, <1>13
<1> HIDE DEF Goal
<1>14. QED
  <2>1. \A r \in Peers : Change(r) => Goal
    BY <1>1 DEF Goal
  <2>2. QED
    BY <2>1, <1>8, <1>9, <1>10, <1>11, <1>12, <1>13 DEF Next, Goal

LEMMA ListenKept == EphemeralAssumption => (Spec => []ListenInv)
<1> SUFFICES ASSUME EphemeralAssumption PROVE Spec => []ListenInv
  OBVIOUS
<1>1. Init => ListenInv
  BY DEF Init, ListenInv
<1>2. TypeOK /\ TypeOK' /\ [Next]_vars /\ ListenInv => ListenInv'
  BY StepListen
<1>3. QED
  BY <1>1, <1>2, TypeCorrect, PTL DEF Spec


-----------------------------------------------------------------------------
(* What a peer that does not sign last meant to broadcast is armed, under  *)
(* way as the newest of its messages, or shown.                            *)
Packets(p, q) == {k \in wire : k.message.from = p /\ k.to = q}

WillAgree(p, q) ==
  \/ \E k \in Packets(p, q) :
       /\ k.message.sequence >= meant[p].sequence
       /\ meant[p].remove => k.message.remove
       /\ \A l \in Packets(p, q) : l.message.sequence <= k.message.sequence
  \/ /\ Packets(p, q) = {}
     /\ states[q][p].shown =>
          ~meant[p].remove /\ states[q][p].sequence >= meant[p].sequence

Agreeing(p) ==
  /\ meant[p].remove => broadcastTimer[p] \in {"none", "remove"}
  /\ broadcastTimer[p] = "none" => \A q \in audience[p] \ {p} : WillAgree(p, q)

AgreeInv == \A p \in Peers \ Signed : Agreeing(p)

(* What a flush of r adds to what is under way from p, who does not sign.  *)
LEMMA FlushPackets ==
  ASSUME NEW p \in Peers \ Signed, NEW r \in Peers, NEW remove, FlushBroadcast(r, remove)
  PROVE  /\ r # p => \A q : Packets(p, q)' = Packets(p, q)
         /\ r = p => \A q \in Linked(p) : \E k \in Packets(p, q)' :
              /\ k.message.sequence = sequence'[p] /\ k.message.remove = remove
              /\ Packets(p, q)' \subseteq Packets(p, q) \union {k}
<1> DEFINE m == [from |-> r, sequence |-> sequence'[r], remove |-> remove,
                 state |-> IF remove THEN 0 ELSE localState'[r]]
<1>1. IF r \in Signed THEN wire' = wire
      ELSE wire' = wire \union {[to |-> q, message |-> m] : q \in Linked(r)}
  BY DEF FlushBroadcast, Send
<1>2. m.from = r /\ m.sequence = sequence'[r] /\ m.remove = remove
  OBVIOUS
<1> HIDE DEF m
<1>3. ASSUME r # p, NEW q PROVE Packets(p, q)' = Packets(p, q)
  BY <1>1, <1>2, <1>3 DEF Packets
<1>4. ASSUME r = p, NEW q \in Linked(p)
      PROVE  \E k \in Packets(p, q)' :
               /\ k.message.sequence = sequence'[p] /\ k.message.remove = remove
               /\ Packets(p, q)' \subseteq Packets(p, q) \union {k}
  <2> DEFINE k == [to |-> q, message |-> m]
  <2>1. wire' = wire \union {[to |-> s, message |-> m] : s \in Linked(p)}
    BY <1>1, <1>4
  <2>2. k \in Packets(p, q)'
    BY <1>2, <1>4, <2>1 DEF Packets
  <2>3. Packets(p, q)' \subseteq Packets(p, q) \union {k}
    BY <2>1 DEF Packets
  <2>4. QED
    BY <1>2, <1>4, <2>2, <2>3
<1>5. QED
  BY <1>3, <1>4

(* A flush of p itself goes to all who listen, after all it sent before.   *)
LEMMA FlushAgrees ==
  ASSUME TypeOK, TypeOK', NEW p \in Peers \ Signed, NEW remove, FlushBroadcast(p, remove),
         \A k \in wire : k.message.from = p => k.message.sequence < sequence'[p],
         meant'[p].sequence <= sequence'[p],
         meant'[p].remove => remove,
         audience'[p] \subseteq Linked(p)
  PROVE  \A q \in audience'[p] \ {p} : WillAgree(p, q)'
<1> SUFFICES ASSUME NEW q \in audience'[p] \ {p} PROVE WillAgree(p, q)'
  OBVIOUS
<1>1. PICK k \in Packets(p, q)' :
        /\ k.message.sequence = sequence'[p] /\ k.message.remove = remove
        /\ Packets(p, q)' \subseteq Packets(p, q) \union {k}
  BY FlushPackets
<1>2. sequence'[p] \in Nat /\ meant'[p].sequence \in Nat
      /\ \A l \in wire : l.message.sequence \in Nat
  BY DEF TypeOK, Packet, Message
<1>3. \A l \in Packets(p, q)' : l.message.sequence <= k.message.sequence
  <2>1. \A l \in Packets(p, q) : l.message.sequence < sequence'[p] /\ l.message.sequence \in Nat
    BY <1>2 DEF Packets
  <2>2. QED
    BY <1>1, <1>2, <2>1
<1>4. k.message.sequence >= meant'[p].sequence
  BY <1>1, <1>2
<1>5. meant'[p].remove => k.message.remove
  BY <1>1
<1>6. QED
  BY <1>3, <1>4, <1>5 DEF WillAgree

(* Nothing of p is armed, sent, handled or meant anew.                     *)
LEMMA AgreeFrame ==
  ASSUME NEW p \in Peers, Agreeing(p), meant'[p] = meant[p],
         broadcastTimer'[p] = broadcastTimer[p],
         \A q \in audience'[p] \ {p} :
           /\ q \in audience[p]
           /\ Packets(p, q)' = Packets(p, q) /\ states'[q][p] = states[q][p]
  PROVE  Agreeing(p)'
<1>1. ASSUME NEW q \in audience'[p] \ {p}, WillAgree(p, q) PROVE WillAgree(p, q)'
  BY <1>1 DEF WillAgree
<1>2. QED
  BY <1>1 DEF Agreeing

LEMMA ChangeAgrees ==
  ASSUME TypeOK, TypeOK', NEW r \in Peers, Change(r), ListenInv',
         NEW p \in Peers \ Signed, InOrder(p), Agreeing(p)
  PROVE  Agreeing(p)'
<1>0. /\ meant \in [Peers -> [sequence: Nat, remove: BOOLEAN]]
      /\ audience \in [Peers -> SUBSET Peers]
      /\ sequence \in [Peers -> Nat]
      /\ broadcastTimer \in [Peers -> {"none", "state", "remove"}]
      /\ states \in [Peers -> [Peers -> PeerState]]
      /\ \A q \in Peers : broadcastTimer[q] # "none" => enabled[q]
      /\ \A k \in wire : k.message.sequence \in Nat
  BY DEF TypeOK, Packet, Message
<1>1. PICK remove \in BOOLEAN, broadcast \in BOOLEAN, immediate \in BOOLEAN :
        Announce(r, remove, broadcast, immediate)
  BY DEF Change, CommitLocalState, RemoveLocalState
<1>2. /\ sequence' = [sequence EXCEPT ![r] = @ + 1]
      /\ UNCHANGED <<enabled, link>>
      /\ \A q \in Peers : q # p => states'[q][p] = states[q][p]
  <2>1. PICK st : states' = [states EXCEPT ![r][r] = st]
    BY DEF Change, CommitLocalState, RemoveLocalState
  <2>2. \A q \in Peers : q # p => states'[q][p] = states[q][p]
    BY <1>0, <2>1
  <2>3. QED
    BY <2>2 DEF Change, CommitLocalState, RemoveLocalState
<1>3. CASE ~broadcast
  <2>1. UNCHANGED <<broadcastTimer, wire, meant, audience>>
    BY <1>1, <1>3 DEF Announce
  <2>2. \A q \in audience'[p] \ {p} :
          /\ q \in audience[p]
          /\ Packets(p, q)' = Packets(p, q) /\ states'[q][p] = states[q][p]
    BY <1>0, <1>2, <2>1 DEF Packets
  <2>3. QED
    BY <2>1, <2>2, AgreeFrame
<1>4. CASE broadcast
  <2>1. /\ Broadcast(r, remove, immediate)
        /\ meant' = [meant EXCEPT ![r] = [sequence |-> sequence'[r], remove |-> remove]]
        /\ audience' = [audience EXCEPT ![r] = IF enabled[r] THEN Listeners(r) ELSE {}]
    BY <1>1, <1>4 DEF Announce
  <2>2. CASE r # p
    <3>1. /\ meant'[p] = meant[p] /\ audience'[p] = audience[p]
          /\ broadcastTimer'[p] = broadcastTimer[p]
      BY <1>0, <2>1, <2>2 DEF Broadcast
    <3>2. \A q : Packets(p, q)' = Packets(p, q)
      <4>1. CASE UNCHANGED wire
        BY <4>1 DEF Packets
      <4>2. CASE FlushBroadcast(r, remove)
        BY <2>2, <4>2, FlushPackets
      <4>3. QED
        BY <2>1, <4>1, <4>2 DEF Broadcast
    <3>3. QED
      BY <1>0, <1>2, <3>1, <3>2, AgreeFrame
  <2>3. CASE r = p /\ ~enabled[p]
    BY <1>0, <2>1, <2>3 DEF Agreeing, Broadcast
  <2>4. CASE r = p /\ enabled[p] /\ (immediate \/ p \notin Throttled)
    <3>1. FlushBroadcast(p, remove) /\ broadcastTimer'[p] = "none"
      BY <1>0, <2>1, <2>4 DEF Broadcast
    <3>2. \A k \in wire : k.message.from = p => k.message.sequence < sequence'[p]
      BY <1>0, <1>2, <2>4 DEF InOrder
    <3>3. meant'[p].sequence <= sequence'[p] /\ (meant'[p].remove => remove)
      BY <1>0, <2>1, <2>4, ListenInv' DEF ListenInv
    <3>4. audience'[p] \subseteq Linked(p)
      BY <1>0, <2>1, <2>4 DEF Listeners
    <3>5. \A q \in audience'[p] \ {p} : WillAgree(p, q)'
      BY <3>1, <3>2, <3>3, <3>4, FlushAgrees
    <3>6. QED
      BY <3>1, <3>5 DEF Agreeing
  <2>5. CASE r = p /\ enabled[p] /\ ~(immediate \/ p \notin Throttled)
    <3>1. broadcastTimer'[p] = IF remove THEN "remove" ELSE
            IF broadcastTimer[p] = "none" THEN "state" ELSE broadcastTimer[p]
      BY <1>0, <2>1, <2>5 DEF Broadcast
    <3>2. broadcastTimer'[p] # "none"
      BY <3>1
    <3>3. meant'[p].remove => broadcastTimer'[p] = "remove"
      BY <1>0, <2>1, <2>5, <3>1
    <3>4. QED
      BY <3>2, <3>3 DEF Agreeing
  <2>6. QED
    BY <2>2, <2>3, <2>4, <2>5
<1>5. QED
  BY <1>3, <1>4


(* The oldest message of p under way to q is the newest, or another is.    *)
LEMMA ReceiveAgrees ==
  ASSUME TypeOK, TypeOK', NEW packet \in wire, Receive(packet), ListenInv,
         NEW p \in Peers \ Signed, InOrder(p), NeverBackwards, Agreeing(p)
  PROVE  Agreeing(p)'
<1> DEFINE m == packet.message
<1>0. /\ packet.to \in Peers /\ m.from \in Peers /\ m.sequence \in Nat
      /\ states \in [Peers -> [Peers -> PeerState]]
      /\ \A k \in wire : k.message.sequence \in Nat
      /\ meant[p].sequence \in Nat
  BY DEF TypeOK, Packet, Message
<1>1. /\ wire' = wire \ {packet}
      /\ OnNetworkMessage(packet.to, m)
      /\ UNCHANGED <<broadcastTimer, meant, audience>>
  BY DEF Receive
<1>2. ASSUME NEW q \in audience[p] \ {p}, WillAgree(p, q) PROVE WillAgree(p, q)'
  <2>0. q \in Peers /\ enabled[q]
    BY DEF ListenInv, Listeners, Linked
  <2>1. CASE packet \notin Packets(p, q)
    <3>1. ~(packet.to = q /\ m.from = p)
      BY <2>1 DEF Packets
    <3>2. states'[q][p] = states[q][p]
      BY <1>0, <1>1, <2>0, <3>1 DEF OnNetworkMessage
    <3>3. Packets(p, q)' = Packets(p, q)
      BY <1>1, <3>1 DEF Packets
    <3>4. QED
      BY <1>1, <1>2, <3>2, <3>3 DEF WillAgree
  <2>2. CASE packet \in Packets(p, q)
    <3>1. packet.to = q /\ m.from = p /\ Packets(p, q)' = Packets(p, q) \ {packet}
      BY <1>1, <2>2 DEF Packets
    <3>2. PICK k \in Packets(p, q) :
            /\ k.message.sequence >= meant[p].sequence
            /\ meant[p].remove => k.message.remove
            /\ \A l \in Packets(p, q) : l.message.sequence <= k.message.sequence
      BY <1>2, <2>2 DEF WillAgree
    <3>3. CASE k # packet
      BY <1>1, <3>1, <3>2, <3>3 DEF WillAgree
    <3>4. CASE k = packet
      <4>1. Packets(p, q)' = {}
        <5>1. SUFFICES ASSUME NEW l \in Packets(p, q), l # packet PROVE FALSE
          BY <3>1
        <5>2. l \in wire /\ l.message.from = p /\ l.to = q
          BY DEF Packets
        <5>3. l.message.sequence >= m.sequence
          BY <3>1, <5>2 DEF Receive
        <5>4. l.message.sequence <= m.sequence
          BY <3>2, <3>4
        <5>5. l.message.sequence \in Nat /\ m.sequence \in Nat
          BY <1>0, <5>2
        <5>6. l.message.sequence = m.sequence
          BY <5>3, <5>4, <5>5
        <5>7. QED
          BY <3>1, <5>1, <5>2, <5>6 DEF InOrder
      <4>2. states'[q][p] = IF m.remove THEN Nothing ELSE
              [shown |-> TRUE, sequence |-> m.sequence, state |-> m.state]
        <5>1. heard[q][p] < m.sequence
          BY <3>1 DEF InOrder
        <5>2. states[q][p].shown => states[q][p].sequence = heard[q][p]
          BY <2>0 DEF NeverBackwards
        <5>3. Takes(states[q][p], m)
          BY <5>1, <5>2 DEF Takes
        <5>4. QED
          BY <1>0, <1>1, <2>0, <3>1, <5>3, Handled
      <4>3. ~Nothing.shown
        BY DEF Nothing
      <4>4. QED
        BY <1>1, <3>2, <3>4, <4>1, <4>2, <4>3 DEF WillAgree
    <3>5. QED
      BY <3>3, <3>4
  <2>3. QED
    BY <2>1, <2>2
<1>3. QED
  BY <1>1, <1>2 DEF Agreeing

LEMMA StepAgree ==
  ASSUME TypeOK, TypeOK', [Next]_vars, ListenInv, ListenInv', OrderInv, NeverBackwards, AgreeInv
  PROVE  AgreeInv'
<1> SUFFICES ASSUME NEW p \in Peers \ Signed PROVE Agreeing(p)'
  BY DEF AgreeInv
<1>0. /\ Agreeing(p) /\ InOrder(p)
      /\ audience \in [Peers -> SUBSET Peers]
      /\ broadcastTimer \in [Peers -> {"none", "state", "remove"}]
      /\ states \in [Peers -> [Peers -> PeerState]]
      /\ sequence \in [Peers -> Nat]
      /\ \A q \in Peers : audience[q] \subseteq Linked(q)
      /\ \A k \in wire : k.message.sequence \in Nat
  BY DEF AgreeInv, OrderInv, TypeOK, ListenInv, Listeners, Packet, Message
<1>1. ASSUME NEW r \in Peers, Change(r) PROVE Agreeing(p)'
  BY <1>0, <1>1, ChangeAgrees
<1>2. ASSUME NEW r \in Peers, TimerFires(r) PROVE Agreeing(p)'
  <2>1. /\ broadcastTimer[r] # "none"
        /\ UNCHANGED <<sequence, states, meant, audience>>
        /\ broadcastTimer' = [broadcastTimer EXCEPT ![r] = "none"]
        /\ FlushBroadcast(r, broadcastTimer[r] = "remove")
    BY <1>2 DEF TimerFires
  <2>2. CASE r # p
    <3>1. broadcastTimer'[p] = broadcastTimer[p]
      BY <1>0, <2>1, <2>2
    <3>2. \A q : Packets(p, q)' = Packets(p, q)
      BY <2>1, <2>2, FlushPackets
    <3>3. QED
      BY <1>0, <2>1, <3>1, <3>2, AgreeFrame
  <2>3. CASE r = p
    <3>1. FlushBroadcast(p, broadcastTimer[p] = "remove") /\ broadcastTimer'[p] = "none"
      BY <1>0, <2>1, <2>3
    <3>2. \A k \in wire : k.message.from = p => k.message.sequence < sequence'[p]
      BY <1>0, <2>1, <2>3 DEF InOrder
    <3>3. meant'[p].sequence <= sequence'[p]
      BY ListenInv' DEF ListenInv
    <3>4. meant'[p].remove => broadcastTimer[p] = "remove"
      BY <1>0, <2>1, <2>3 DEF Agreeing
    <3>5. audience'[p] \subseteq Linked(p)
      BY <1>0, <2>1
    <3>6. \A q \in audience'[p] \ {p} : WillAgree(p, q)'
      BY <3>1, <3>2, <3>3, <3>4, <3>5, FlushAgrees
    <3>7. QED
      BY <3>1, <3>6 DEF Agreeing
  <2>4. QED
    BY <2>2, <2>3
<1>3. ASSUME NEW r \in Peers, Pruned(r) PROVE Agreeing(p)'
  <2>1. PICK gone \in SUBSET Peers : Prune(r, gone)
    BY <1>3 DEF Pruned
  <2>2. /\ states' = [states EXCEPT ![r] = [s \in Peers |-> IF s \in gone THEN Nothing ELSE @[s]]]
        /\ audience'[p] = IF p \in gone THEN audience[p] \ {r} ELSE audience[p]
        /\ UNCHANGED <<wire, meant, broadcastTimer>>
    BY <2>1 DEF Prune
  <2>3. ASSUME NEW q \in audience'[p] \ {p}
        PROVE  q \in audience[p] /\ states'[q][p] = states[q][p]
    BY <1>0, <2>2
  <2>4. \A q : Packets(p, q)' = Packets(p, q)
    BY <2>2 DEF Packets
  <2>5. QED
    BY <1>0, <2>2, <2>3, <2>4, AgreeFrame
<1>4. ASSUME NEW r \in Peers, Disable(r) \/ Dispose(r) PROVE Agreeing(p)'
  <2>1. /\ broadcastTimer' = [broadcastTimer EXCEPT ![r] = "none"]
        /\ audience'[p] = IF p = r THEN {} ELSE audience[p] \ {r}
        /\ states' = states \/ states' = [states EXCEPT ![r] = [q \in Peers |-> Nothing]]
        /\ UNCHANGED <<wire, meant>>
    BY <1>4 DEF Disable, Dispose, StopListening
  <2>2. CASE r = p
    BY <1>0, <2>1, <2>2 DEF Agreeing
  <2>3. CASE r # p
    <3>1. broadcastTimer'[p] = broadcastTimer[p]
      BY <1>0, <2>1, <2>3
    <3>2. ASSUME NEW q \in audience'[p] \ {p}
          PROVE  q \in audience[p] /\ states'[q][p] = states[q][p]
      BY <1>0, <2>1, <2>3
    <3>3. \A q : Packets(p, q)' = Packets(p, q)
      BY <2>1 DEF Packets
    <3>4. QED
      BY <1>0, <2>1, <3>1, <3>2, <3>3, AgreeFrame
  <2>4. QED
    BY <2>2, <2>3
<1>5. ASSUME NEW m \in signing, Sign(m) PROVE Agreeing(p)'
  <2>1. m.from # p
    BY <1>0 DEF InOrder
  <2>2. \A q : Packets(p, q)' = Packets(p, q)
    BY <1>5, <2>1 DEF Sign, Send, Packets
  <2>3. UNCHANGED <<states, meant, audience, broadcastTimer>>
    BY <1>5 DEF Sign
  <2>4. QED
    BY <1>0, <2>2, <2>3, AgreeFrame
<1>6. ASSUME NEW packet \in wire, Receive(packet) PROVE Agreeing(p)'
  BY <1>0, <1>6, ReceiveAgrees
<1>7. ASSUME NEW r \in Peers, NEW s \in Peers, LinkDown(r, s) PROVE Agreeing(p)'
  <2>1. PICK lost : /\ lost \subseteq {k \in wire : {k.to, k.message.from} = {r, s}}
                    /\ wire' = wire \ lost
    BY <1>7 DEF LinkDown
  <2>2. /\ audience' = [audience EXCEPT ![r] = @ \ {s}, ![s] = @ \ {r}]
        /\ UNCHANGED <<states, meant, broadcastTimer>>
    BY <1>7 DEF LinkDown
  <2>3. audience'[p] = (audience[p] \ (IF p = r THEN {s} ELSE {})) \ (IF p = s THEN {r} ELSE {})
    BY <1>0, <2>2
  <2>4. ASSUME NEW q \in audience'[p] \ {p}
        PROVE  q \in audience[p] /\ Packets(p, q)' = Packets(p, q)
    <3>1. q \in audience[p] /\ {q, p} # {r, s}
      BY <2>3
    <3>2. QED
      BY <2>1, <3>1 DEF Packets
  <2>5. QED
    BY <1>0, <2>2, <2>4, AgreeFrame
<1>8. ASSUME NEW r \in Peers, Enable(r) PROVE UNCHANGED <<states, wire, meant, audience, broadcastTimer>>
  BY <1>8 DEF Enable
<1>9. ASSUME NEW r \in Peers, NEW s \in Peers, LinkUp(r, s)
      PROVE  UNCHANGED <<states, wire, meant, audience, broadcastTimer>>
  BY <1>9 DEF LinkUp
<1>10. CASE UNCHANGED <<states, wire, meant, audience, broadcastTimer>>
  <2>1. \A q : Packets(p, q)' = Packets(p, q)
    BY <1>10 DEF Packets
  <2>2. QED
    BY <1>0, <1>10, <2>1, AgreeFrame
<1>11. QED
  BY <1>1, <1>2, <1>3, <1>4, <1>5, <1>6, <1>7, <1>8, <1>9, <1>10 DEF Next, vars

(* In every behaviour, once a peer that does not sign has nothing more to  *)
(* send, those who listened since its last change was to be broadcast show *)
(* nothing older, and nothing at all if it was a removal: whatever is      *)
(* throttled, replaced in the timer, pruned or cut off on the way          *)
(* (broadcast, flushBroadcast, onNetworkMessage).                          *)
THEOREM AudiencesAgree == EphemeralAssumption => (Spec => []AudienceAgrees)
<1> SUFFICES ASSUME EphemeralAssumption PROVE Spec => []AudienceAgrees
  OBVIOUS
<1>1. Init => AgreeInv
  BY DEF Init, AgreeInv, Agreeing
<1>2. /\ TypeOK /\ TypeOK' /\ ListenInv /\ ListenInv' /\ OrderInv /\ NeverBackwards
      /\ [Next]_vars /\ AgreeInv
      => AgreeInv'
  BY StepAgree
<1>3. AgreeInv => AudienceAgrees
  <2>1. ASSUME NEW p \in Peers \ Signed, Agreeing(p), Quiet(p), NEW q \in audience[p] \ {p},
               states[q][p].shown
        PROVE  ~meant[p].remove /\ states[q][p].sequence >= meant[p].sequence
    <3>1. Packets(p, q) = {} /\ WillAgree(p, q)
      BY <2>1 DEF Quiet, Packets, Agreeing
    <3>2. QED
      BY <2>1, <3>1 DEF WillAgree
  <2>2. QED
    BY <2>1 DEF AgreeInv, AudienceAgrees
<1>4. QED
  BY <1>1, <1>2, <1>3, TypeCorrect, ListenKept, OrderKept, PTL DEF Spec


-----------------------------------------------------------------------------
(* What a peer that is not throttled last meant to show is awaiting its    *)
(* signature, under way or shown, and nothing of it has a greater number.  *)
View(p) == [shown |-> TRUE, sequence |-> meant[p].sequence, state |-> meant[p].sequence]

MeantMessage(p) == [from |-> p, sequence |-> meant[p].sequence, remove |-> FALSE,
                    state |-> meant[p].sequence]

(* No message m of p is newer than the meant one, or differs from it.      *)
Latest(p, m) ==
  /\ m.sequence <= meant[p].sequence
  /\ m.sequence = meant[p].sequence /\ ~meant[p].remove => m = MeantMessage(p)

LatestView(p, st) == st.shown =>
  /\ st.sequence <= meant[p].sequence
  /\ st.sequence = meant[p].sequence /\ ~meant[p].remove => st = View(p)

WillArrive(p, q) ==
  \/ MeantMessage(p) \in signing
  \/ [to |-> q, message |-> MeantMessage(p)] \in wire
  \/ states[q][p] = View(p)

NothingNewer(p) ==
  /\ \A m \in signing : m.from = p => Latest(p, m)
  /\ \A k \in wire : k.message.from = p => Latest(p, k.message)
  /\ \A q \in Peers \ {p} : LatestView(p, states[q][p])

Arriving(p) ==
  /\ broadcastTimer[p] = "none"
  /\ NothingNewer(p)
  /\ \A q \in audience[p] \ {p} : ~meant[p].remove => WillArrive(p, q)

ArriveInv == \A p \in Peers \ Throttled : Arriving(p)

(* Nothing of p is armed, composed, handled or meant anew.                 *)
LEMMA ArriveFrame ==
  ASSUME NEW p \in Peers, Arriving(p), meant'[p] = meant[p],
         broadcastTimer'[p] = broadcastTimer[p],
         \A m \in signing' : m.from = p => m \in signing,
         \A k \in wire' : k.message.from = p => k \in wire \/ k.message \in signing,
         \A q \in Peers \ {p} : states'[q][p] = states[q][p] \/ states'[q][p] = Nothing,
         \A q \in audience'[p] \ {p} :
           /\ q \in audience[p]
           /\ WillArrive(p, q) => WillArrive(p, q)'
  PROVE  Arriving(p)'
<1>1. \A m : Latest(p, m)' <=> Latest(p, m)
  BY DEF Latest, MeantMessage
<1>2. NothingNewer(p)'
  <2>1. \A m \in signing' : m.from = p => Latest(p, m)'
    BY <1>1 DEF Arriving, NothingNewer
  <2>2. \A k \in wire' : k.message.from = p => Latest(p, k.message)'
    BY <1>1 DEF Arriving, NothingNewer
  <2>3. ASSUME NEW q \in Peers \ {p} PROVE LatestView(p, states[q][p])'
    <3>1. LatestView(p, states[q][p])
      BY DEF Arriving, NothingNewer
    <3>2. QED
      BY <3>1 DEF LatestView, View, Nothing
  <2>4. QED
    BY <2>1, <2>2, <2>3 DEF NothingNewer
<1>3. QED
  BY <1>2 DEF Arriving

(* What arrives stays in place while nothing of p is lost on its way to q. *)
LEMMA ArriveStays ==
  ASSUME NEW p \in Peers, NEW q, meant'[p] = meant[p], states'[q][p] = states[q][p],
         \A m \in signing : m.from = p => m \in signing' \/ [to |-> q, message |-> m] \in wire',
         \A k \in wire : k.message.from = p /\ k.to = q => k \in wire',
         WillArrive(p, q)
  PROVE  WillArrive(p, q)'
<1> DEFINE m == MeantMessage(p)
           k == [to |-> q, message |-> m]
<1>1. MeantMessage(p)' = m /\ m.from = p /\ View(p)' = View(p)
  BY DEF MeantMessage, View
<1>2. k.message.from = p /\ k.to = q
  BY <1>1
<1>3. CASE m \in signing
  BY <1>1, <1>3 DEF WillArrive
<1>4. CASE k \in wire
  BY <1>1, <1>2, <1>4 DEF WillArrive
<1>5. CASE states[q][p] = View(p)
  BY <1>1, <1>5 DEF WillArrive
<1>6. QED
  BY <1>3, <1>4, <1>5 DEF WillArrive

(* A change of p that is to be broadcast, by a peer that is not throttled: *)
(* at once, to those who listen, and newer than anything before.           *)
LEMMA BroadcastArrives ==
  ASSUME TypeOK, TypeOK', NEW p \in Peers \ Throttled, NEW remove \in BOOLEAN,
         NEW immediate \in BOOLEAN,
         IF remove THEN RemoveLocalState(p, TRUE, immediate)
                   ELSE CommitLocalState(p, TRUE, immediate),
         meant[p].sequence <= sequence[p], Arriving(p)
  PROVE  Arriving(p)'
<1>m. PICK m : m = [from |-> p, sequence |-> sequence'[p], remove |-> remove,
                    state |-> IF remove THEN 0 ELSE localState'[p]]
  OBVIOUS
<1>0. /\ meant \in [Peers -> [sequence: Nat, remove: BOOLEAN]]
      /\ audience \in [Peers -> SUBSET Peers]
      /\ sequence \in [Peers -> Nat]
      /\ localState \in [Peers -> Nat]
      /\ broadcastTimer \in [Peers -> {"none", "state", "remove"}]
      /\ states \in [Peers -> [Peers -> PeerState]]
      /\ \A k \in wire : k.message.sequence \in Nat
      /\ \A n \in signing : n.sequence \in Nat
  BY DEF TypeOK, Packet, Message
<1>1. /\ sequence' = [sequence EXCEPT ![p] = @ + 1]
      /\ localState' = [localState EXCEPT ![p] = IF remove THEN 0 ELSE sequence'[p]]
      /\ Announce(p, remove, TRUE, immediate)
      /\ UNCHANGED <<enabled, link>>
  BY DEF RemoveLocalState, CommitLocalState
<1>2. \A q \in Peers \ {p} : states'[q][p] = states[q][p]
  <2>1. PICK st : states' = [states EXCEPT ![p][p] = st]
    BY DEF RemoveLocalState, CommitLocalState
  <2>2. QED
    BY <1>0, <2>1
<1>3. /\ meant'[p] = [sequence |-> sequence'[p], remove |-> remove]
      /\ audience'[p] = IF enabled[p] THEN Listeners(p) ELSE {}
      /\ broadcastTimer'[p] = "none"
      /\ \/ ~enabled[p] /\ UNCHANGED <<signing, wire>>
         \/ enabled[p] /\ FlushBroadcast(p, remove)
  <2>1. broadcastTimer[p] = "none"
    BY DEF Arriving
  <2>2. QED
    BY <1>0, <1>1, <2>1 DEF Announce, Broadcast
<1>4. sequence'[p] > meant[p].sequence /\ sequence'[p] \in Nat /\ meant[p].sequence \in Nat
  BY <1>0, <1>1
<1>5. m.sequence = sequence'[p] /\ (~remove => m = MeantMessage(p)')
  <2>1. ~remove => localState'[p] = sequence'[p]
    BY <1>0, <1>1
  <2>2. ASSUME ~remove PROVE m = MeantMessage(p)'
    <3>1. meant'[p].sequence = sequence'[p]
      BY <1>3
    <3>2. m = [from |-> p, sequence |-> sequence'[p], remove |-> FALSE, state |-> sequence'[p]]
      BY <1>m, <2>1, <2>2
    <3>3. QED
      BY <3>1, <3>2 DEF MeantMessage
  <2>3. QED
    BY <1>m, <2>2
<1>6. Latest(p, m)'
  BY <1>3, <1>4, <1>5 DEF Latest
<1>7. \/ UNCHANGED <<signing, wire>>
      \/ signing' = signing \union {m} /\ wire' = wire
      \/ signing' = signing /\ wire' = wire \union {[to |-> q, message |-> m] : q \in Linked(p)}
  BY <1>m, <1>3 DEF FlushBroadcast, Send
<1>8. NothingNewer(p)'
  <2>1. ASSUME NEW n, n.sequence \in Nat, Latest(p, n) PROVE Latest(p, n)'
    BY <1>3, <1>4, <2>1 DEF Latest
  <2>2. \A n \in signing' : n.from = p => Latest(p, n)'
    BY <1>0, <1>6, <1>7, <2>1 DEF Arriving, NothingNewer
  <2>3. \A k \in wire' : k.message.from = p => Latest(p, k.message)'
    <3>1. \A k \in wire' : k \in wire \/ k.message = m
      BY <1>7
    <3>2. QED
      BY <1>0, <1>6, <2>1, <3>1 DEF Arriving, NothingNewer
  <2>4. ASSUME NEW q \in Peers \ {p} PROVE LatestView(p, states[q][p])'
    <3>1. LatestView(p, states[q][p])
      BY DEF Arriving, NothingNewer
    <3>2. states[q][p].shown => states[q][p].sequence \in Nat
      <4>1. states[q][p] \in PeerState
        BY <1>0
      <4>2. QED
        BY <4>1 DEF PeerState
    <3>3. QED
      BY <1>2, <1>3, <1>4, <3>1, <3>2 DEF LatestView
  <2>5. QED
    BY <2>2, <2>3, <2>4 DEF NothingNewer
<1>9. ASSUME NEW q \in audience'[p] \ {p}, ~remove PROVE WillArrive(p, q)'
  <2>1. enabled[p] /\ q \in Linked(p)
    BY <1>3 DEF Listeners
  <2>2. m \in signing' \/ [to |-> q, message |-> m] \in wire'
    <3>1. FlushBroadcast(p, remove)
      BY <1>3, <2>1
    <3>2. \/ signing' = signing \union {m}
          \/ wire' = wire \union {[to |-> s, message |-> m] : s \in Linked(p)}
      BY <1>m, <3>1 DEF FlushBroadcast, Send
    <3>3. QED
      BY <2>1, <3>2
  <2>3. QED
    BY <1>5, <1>9, <2>2 DEF WillArrive
<1>10. QED
  BY <1>3, <1>8, <1>9 DEF Arriving


(* A message of p is handled, in whatever order.                           *)
LEMMA ReceiveArrives ==
  ASSUME TypeOK, NEW packet \in wire, Receive(packet), ListenInv,
         NEW p \in Peers \ Throttled, Arriving(p)
  PROVE  Arriving(p)'
<1> DEFINE m == packet.message
           s == packet.to
           heldOn == [shown |-> TRUE, sequence |-> m.sequence, state |-> m.state]
<1>0. /\ s \in Peers /\ m.from \in Peers /\ m.sequence \in Nat
      /\ states \in [Peers -> [Peers -> PeerState]]
      /\ meant \in [Peers -> [sequence: Nat, remove: BOOLEAN]]
      /\ meant[p].sequence \in Nat
  BY DEF TypeOK, Packet, Message
<1>1. /\ wire' = wire \ {packet}
      /\ OnNetworkMessage(s, m)
      /\ UNCHANGED <<broadcastTimer, meant, audience, signing>>
  BY DEF Receive
<1>2. \A q \in audience[p] : q \in Peers /\ enabled[q]
  BY DEF ListenInv, Listeners, Linked
<1>3. CASE m.from # p \/ ~enabled[s]
  <2>1. \A q \in Peers \ {p} : states'[q][p] = states[q][p]
    <3>1. CASE enabled[s]
      <4>1. PICK st : states' = [states EXCEPT ![s][m.from] = st]
        BY <1>1, <3>1 DEF OnNetworkMessage
      <4>2. QED
        BY <1>0, <1>3, <3>1, <4>1
    <3>2. CASE ~enabled[s]
      BY <1>1, <3>2 DEF OnNetworkMessage
    <3>3. QED
      BY <3>1, <3>2
  <2>2. ASSUME NEW q \in audience'[p] \ {p}, WillArrive(p, q) PROVE WillArrive(p, q)'
    <3>1. q \in Peers /\ enabled[q] /\ q \in audience[p]
      BY <1>1, <1>2
    <3>2. \A k \in wire : k.message.from = p /\ k.to = q => k \in wire'
      BY <1>1, <1>3, <3>1
    <3>3. QED
      BY <1>1, <2>1, <2>2, <3>1, <3>2, ArriveStays
  <2>3. QED
    BY <1>1, <2>1, <2>2, ArriveFrame
<1>4. CASE m.from = p /\ enabled[s]
  <2>1. \A q \in Peers : q # s => states'[q][p] = states[q][p]
    BY <1>0, <1>1, <1>4 DEF OnNetworkMessage
  <2>2. states'[s][p] = IF ~ Takes(states[s][p], m) THEN states[s][p]
                        ELSE IF m.remove THEN Nothing ELSE heldOn
    BY <1>0, <1>1, <1>4, Handled
  <2>3. Latest(p, m) /\ (s # p => LatestView(p, states[s][p]))
    BY <1>0, <1>4 DEF Arriving, NothingNewer
  <2>4. LatestView(p, heldOn)
    <3>1. m = MeantMessage(p) => heldOn = View(p)
      BY DEF MeantMessage, View
    <3>2. QED
      BY <2>3, <3>1 DEF Latest, LatestView
  <2>5. NothingNewer(p)'
    <3>1. \A n : Latest(p, n)' <=> Latest(p, n)
      BY <1>1 DEF Latest, MeantMessage
    <3>2. \A st : LatestView(p, st) <=>
            (st.shown => /\ st.sequence <= meant'[p].sequence
                         /\ st.sequence = meant'[p].sequence /\ ~meant'[p].remove => st = View(p)')
      BY <1>1 DEF LatestView, View
    <3>3. \A q \in Peers \ {p} : LatestView(p, states'[q][p])
      <4>1. LatestView(p, Nothing)
        BY DEF LatestView, Nothing
      <4>2. ASSUME NEW q \in Peers \ {p} PROVE LatestView(p, states'[q][p])
        <5>1. CASE q # s
          BY <2>1, <5>1 DEF Arriving, NothingNewer
        <5>2. CASE q = s
          BY <2>2, <2>3, <2>4, <4>1, <5>2
        <5>3. QED
          BY <5>1, <5>2
      <4>3. QED
        BY <4>2
    <3>4. \A q \in Peers \ {p} : LatestView(p, states[q][p])'
      BY <3>2, <3>3 DEF LatestView
    <3>5. \A n \in signing' : n.from = p => Latest(p, n)'
      BY <1>1, <3>1 DEF Arriving, NothingNewer
    <3>6. \A k \in wire' : k.message.from = p => Latest(p, k.message)'
      BY <1>1, <3>1 DEF Arriving, NothingNewer
    <3>7. QED
      BY <3>4, <3>5, <3>6 DEF NothingNewer
  <2>6. ASSUME NEW q \in audience[p] \ {p}, ~meant[p].remove, WillArrive(p, q)
        PROVE  WillArrive(p, q)'
    <3>1. q \in Peers
      BY <1>2
    <3>2. CASE q # s
      <4>1. \A k \in wire : k.message.from = p /\ k.to = q => k \in wire'
        BY <1>1, <3>2
      <4>2. QED
        BY <1>1, <2>1, <2>6, <3>1, <3>2, <4>1, ArriveStays
    <3>3. CASE q = s
      <4>0. View(p)' = View(p) /\ MeantMessage(p)' = MeantMessage(p)
        BY <1>1 DEF View, MeantMessage
      <4>1. CASE MeantMessage(p) \in signing
        BY <1>1, <4>0, <4>1 DEF WillArrive
      <4>2. CASE states[q][p] = View(p)
        <5>1. states[s][p].shown /\ ~ (m.sequence > states[s][p].sequence)
          BY <1>0, <2>3, <3>3, <4>2 DEF View, Latest
        <5>2. states'[s][p] = states[s][p]
          BY <2>2, <5>1 DEF Takes
        <5>3. QED
          BY <3>3, <4>0, <4>2, <5>2 DEF WillArrive
      <4>3. CASE [to |-> q, message |-> MeantMessage(p)] \in wire'
        BY <4>0, <4>3 DEF WillArrive
      <4>4. CASE [to |-> q, message |-> MeantMessage(p)] = packet
        <5>1. m = MeantMessage(p) /\ ~m.remove /\ m.sequence = meant[p].sequence
          BY <4>4 DEF MeantMessage
        <5>2. heldOn = View(p)
          BY <5>1 DEF MeantMessage, View
        <5>3. CASE Takes(states[s][p], m)
          <6>1. states'[s][p] = View(p)
            BY <2>2, <5>1, <5>2, <5>3
          <6>2. QED
            BY <3>3, <4>0, <6>1 DEF WillArrive
        <5>4. CASE ~ Takes(states[s][p], m)
          <6>1. states[s][p].shown /\ ~ (m.sequence > states[s][p].sequence)
            BY <5>4 DEF Takes
          <6>2. states[s][p].sequence \in Nat
            <7>1. states[s][p] \in PeerState
              BY <1>0
            <7>2. QED
              BY <6>1, <7>1 DEF PeerState
          <6>3. states[s][p].sequence <= meant[p].sequence
            BY <2>3, <2>6, <3>3, <6>1 DEF LatestView
          <6>4. states[s][p].sequence = meant[p].sequence
            <7>1. ~ (meant[p].sequence > states[s][p].sequence) /\ meant[p].sequence \in Nat
              BY <1>0, <5>1, <6>1
            <7>2. QED
              BY <6>2, <6>3, <7>1
          <6>5. states[s][p] = View(p)
            BY <2>3, <2>6, <3>3, <6>1, <6>4 DEF LatestView
          <6>6. states'[s][p] = View(p)
            BY <2>2, <5>4, <6>5
          <6>7. QED
            BY <3>3, <4>0, <6>6 DEF WillArrive
        <5>5. QED
          BY <5>3, <5>4
      <4>5. QED
        BY <1>1, <2>6, <4>1, <4>2, <4>3, <4>4 DEF WillArrive
    <3>4. QED
      BY <3>2, <3>3
  <2>7. QED
    BY <1>1, <2>5, <2>6 DEF Arriving
<1>5. QED
  BY <1>3, <1>4


LEMMA OthersFlush ==
  ASSUME NEW p \in Peers, NEW r \in Peers \ {p}, NEW remove, FlushBroadcast(r, remove)
  PROVE  /\ signing \subseteq signing' /\ wire \subseteq wire'
         /\ \A m \in signing' : m.from = p => m \in signing
         /\ \A k \in wire' : k.message.from = p => k \in wire
<1> DEFINE m == [from |-> r, sequence |-> sequence'[r], remove |-> remove,
                 state |-> IF remove THEN 0 ELSE localState'[r]]
<1>1. \/ signing' = signing \union {m} /\ wire' = wire
      \/ signing' = signing /\ wire' = wire \union {[to |-> q, message |-> m] : q \in Linked(r)}
  BY DEF FlushBroadcast, Send
<1>2. m.from # p
  OBVIOUS
<1> HIDE DEF m
<1>3. \A k \in wire' : k \in wire \/ k.message = m
  BY <1>1
<1>4. QED
  BY <1>1, <1>2, <1>3

(* Nothing of p is lost or handled, and nothing new of it is composed.     *)
LEMMA ArriveGrows ==
  ASSUME NEW p \in Peers, Arriving(p), meant'[p] = meant[p],
         broadcastTimer'[p] = broadcastTimer[p],
         signing \subseteq signing', wire \subseteq wire',
         \A m \in signing' : m.from = p => m \in signing,
         \A k \in wire' : k.message.from = p => k \in wire,
         \A q \in Peers \ {p} : states'[q][p] = states[q][p] \/ states'[q][p] = Nothing,
         \A q \in audience'[p] \ {p} : q \in audience[p] /\ states'[q][p] = states[q][p]
  PROVE  Arriving(p)'
<1>1. ASSUME NEW q \in audience'[p] \ {p}, WillArrive(p, q) PROVE WillArrive(p, q)'
  BY <1>1, ArriveStays
<1>2. QED
  BY <1>1, ArriveFrame

LEMMA StepArrive ==
  ASSUME TypeOK, TypeOK', [Next]_vars, ListenInv, ArriveInv
  PROVE  ArriveInv'
<1> SUFFICES ASSUME NEW p \in Peers \ Throttled PROVE Arriving(p)'
  BY DEF ArriveInv
<1>0. /\ Arriving(p) /\ broadcastTimer[p] = "none"
      /\ meant[p].sequence <= sequence[p]
      /\ meant \in [Peers -> [sequence: Nat, remove: BOOLEAN]]
      /\ audience \in [Peers -> SUBSET Peers]
      /\ broadcastTimer \in [Peers -> {"none", "state", "remove"}]
      /\ states \in [Peers -> [Peers -> PeerState]]
      /\ \A q \in audience[p] : q \in Linked(p)
  BY DEF ArriveInv, Arriving, TypeOK, ListenInv, Listeners
<1>1. ASSUME NEW r \in Peers, Change(r) PROVE Arriving(p)'
  <2>1. PICK remove \in BOOLEAN, broadcast \in BOOLEAN, immediate \in BOOLEAN :
          IF remove THEN RemoveLocalState(r, broadcast, immediate)
                    ELSE CommitLocalState(r, broadcast, immediate)
    <3>1. PICK broadcast \in BOOLEAN, immediate \in BOOLEAN :
            \/ CommitLocalState(r, broadcast, immediate)
            \/ RemoveLocalState(r, broadcast, immediate)
      BY <1>1 DEF Change
    <3>2. QED
      BY <3>1
  <2>2. Announce(r, remove, broadcast, immediate)
    BY <2>1 DEF CommitLocalState, RemoveLocalState
  <2>3. PICK st : states' = [states EXCEPT ![r][r] = st]
    BY <2>1 DEF CommitLocalState, RemoveLocalState
  <2>4. \A q \in Peers \ {p} : states'[q][p] = states[q][p]
    BY <1>0, <2>3
  <2>5. CASE r = p /\ broadcast
    <3>1. IF remove THEN RemoveLocalState(p, TRUE, immediate)
                    ELSE CommitLocalState(p, TRUE, immediate)
      BY <2>1, <2>5
    <3>2. QED
      BY <1>0, <3>1, BroadcastArrives
  <2>6. CASE ~broadcast
    <3>1. UNCHANGED <<broadcastTimer, signing, wire, meant, audience>>
      BY <2>2, <2>6 DEF Announce
    <3>2. QED
      BY <1>0, <2>4, <3>1, ArriveGrows
  <2>7. CASE r # p /\ broadcast
    <3>1. /\ Broadcast(r, remove, immediate)
          /\ meant'[p] = meant[p] /\ audience'[p] = audience[p]
      BY <1>0, <2>2, <2>7 DEF Announce
    <3>2. broadcastTimer'[p] = broadcastTimer[p]
      BY <1>0, <2>7, <3>1 DEF Broadcast
    <3>3. CASE UNCHANGED <<signing, wire>>
      BY <1>0, <2>4, <3>1, <3>2, <3>3, ArriveGrows
    <3>4. CASE FlushBroadcast(r, remove)
      BY <1>0, <2>4, <2>7, <3>1, <3>2, <3>4, OthersFlush, ArriveGrows
    <3>5. QED
      BY <3>1, <3>3, <3>4 DEF Broadcast
  <2>8. QED
    BY <2>5, <2>6, <2>7
<1>2. ASSUME NEW r \in Peers, TimerFires(r) PROVE Arriving(p)'
  <2>1. /\ r # p
        /\ broadcastTimer' = [broadcastTimer EXCEPT ![r] = "none"]
        /\ FlushBroadcast(r, broadcastTimer[r] = "remove")
        /\ UNCHANGED <<states, meant, audience>>
    BY <1>0, <1>2 DEF TimerFires
  <2>2. broadcastTimer'[p] = broadcastTimer[p]
    BY <1>0, <2>1
  <2>3. QED
    BY <1>0, <2>1, <2>2, OthersFlush, ArriveGrows
<1>3. ASSUME NEW r \in Peers, Pruned(r) PROVE Arriving(p)'
  <2>1. PICK gone \in SUBSET Peers : Prune(r, gone)
    BY <1>3 DEF Pruned
  <2>2. /\ states' = [states EXCEPT ![r] = [s \in Peers |-> IF s \in gone THEN Nothing ELSE @[s]]]
        /\ audience'[p] = IF p \in gone THEN audience[p] \ {r} ELSE audience[p]
        /\ UNCHANGED <<wire, signing, meant, broadcastTimer>>
    BY <2>1 DEF Prune
  <2>3. \A q \in Peers : states'[q][p] = IF q = r /\ p \in gone THEN Nothing ELSE states[q][p]
    BY <1>0, <2>2
  <2>4. \A q \in audience'[p] \ {p} : q \in audience[p] /\ states'[q][p] = states[q][p]
    BY <1>0, <2>2, <2>3
  <2>5. QED
    BY <1>0, <2>2, <2>3, <2>4, ArriveGrows
<1>4. ASSUME NEW r \in Peers, Disable(r) \/ Dispose(r) PROVE Arriving(p)'
  <2>1. /\ broadcastTimer' = [broadcastTimer EXCEPT ![r] = "none"]
        /\ audience'[p] = IF p = r THEN {} ELSE audience[p] \ {r}
        /\ states' = states \/ states' = [states EXCEPT ![r] = [q \in Peers |-> Nothing]]
        /\ UNCHANGED <<wire, signing, meant>>
    BY <1>4 DEF Disable, Dispose, StopListening
  <2>2. \A q \in Peers : states'[q][p] = states[q][p] \/ (q = r /\ states'[q][p] = Nothing)
    BY <1>0, <2>1
  <2>3. \A q \in audience'[p] \ {p} : q \in audience[p] /\ states'[q][p] = states[q][p]
    BY <1>0, <2>1, <2>2
  <2>4. broadcastTimer'[p] = broadcastTimer[p]
    BY <1>0, <2>1
  <2>5. QED
    BY <1>0, <2>1, <2>2, <2>3, <2>4, ArriveGrows
<1>5. ASSUME NEW m \in signing, Sign(m) PROVE Arriving(p)'
  <2>1. /\ signing' = signing \ {m}
        /\ wire' = wire \union {[to |-> q, message |-> m] : q \in Linked(m.from)}
        /\ UNCHANGED <<states, meant, audience, broadcastTimer>>
    BY <1>5 DEF Sign, Send
  <2>2. \A k \in wire' : k \in wire \/ k.message \in signing
    BY <2>1
  <2>3. ASSUME NEW q \in audience'[p] \ {p}, WillArrive(p, q) PROVE WillArrive(p, q)'
    <3>1. q \in Linked(p)
      BY <1>0, <2>1
    <3>2. \A n \in signing : n.from = p => n \in signing' \/ [to |-> q, message |-> n] \in wire'
      BY <2>1, <3>1
    <3>3. QED
      BY <2>1, <2>3, <3>2, ArriveStays
  <2>4. QED
    BY <1>0, <2>1, <2>2, <2>3, ArriveFrame
<1>6. ASSUME NEW packet \in wire, Receive(packet) PROVE Arriving(p)'
  BY <1>0, <1>6, ReceiveArrives
<1>7. ASSUME NEW r \in Peers, NEW s \in Peers, LinkDown(r, s) PROVE Arriving(p)'
  <2>1. PICK lost : /\ lost \subseteq {k \in wire : {k.to, k.message.from} = {r, s}}
                    /\ wire' = wire \ lost
    BY <1>7 DEF LinkDown
  <2>2. /\ audience' = [audience EXCEPT ![r] = @ \ {s}, ![s] = @ \ {r}]
        /\ UNCHANGED <<states, signing, meant, broadcastTimer>>
    BY <1>7 DEF LinkDown
  <2>3. audience'[p] = (audience[p] \ (IF p = r THEN {s} ELSE {})) \ (IF p = s THEN {r} ELSE {})
    BY <1>0, <2>2
  <2>4. ASSUME NEW q \in audience'[p] \ {p}
        PROVE  q \in audience[p] /\ (WillArrive(p, q) => WillArrive(p, q)')
    <3>1. q \in audience[p] /\ {q, p} # {r, s}
      BY <2>3
    <3>2. \A k \in wire : k.message.from = p /\ k.to = q => k \in wire'
      BY <2>1, <3>1
    <3>3. QED
      BY <2>2, <3>1, <3>2, ArriveStays
  <2>5. QED
    BY <1>0, <2>1, <2>2, <2>4, ArriveFrame
<1>8. ASSUME NEW r \in Peers, Enable(r)
      PROVE  UNCHANGED <<states, signing, wire, meant, audience, broadcastTimer>>
  BY <1>8 DEF Enable
<1>9. ASSUME NEW r \in Peers, NEW s \in Peers, LinkUp(r, s)
      PROVE  UNCHANGED <<states, signing, wire, meant, audience, broadcastTimer>>
  BY <1>9 DEF LinkUp
<1>10. CASE UNCHANGED <<states, signing, wire, meant, audience, broadcastTimer>>
  BY <1>0, <1>10, ArriveGrows
<1>11. QED
  BY <1>1, <1>2, <1>3, <1>4, <1>5, <1>6, <1>7, <1>8, <1>9, <1>10 DEF Next, vars

(* In every behaviour, once a peer that is not throttled has nothing more  *)
(* to send, those who listened since its last change was to be broadcast   *)
(* show that very state, though signatures let its messages overtake one   *)
(* another (commitLocalState, signAndSendAsync, onNetworkMessage).         *)
THEOREM LastStateArrives == EphemeralAssumption => (Spec => []UpdatesArrive)
<1> SUFFICES ASSUME EphemeralAssumption PROVE Spec => []UpdatesArrive
  OBVIOUS
<1>1. Init => ArriveInv
  <2> SUFFICES ASSUME Init, NEW p \in Peers \ Throttled PROVE Arriving(p)
    BY DEF ArriveInv
  <2>1. NothingNewer(p)
    BY DEF Init, NothingNewer, LatestView, Nothing
  <2>2. QED
    BY <2>1 DEF Init, Arriving
<1>2. TypeOK /\ TypeOK' /\ ListenInv /\ [Next]_vars /\ ArriveInv => ArriveInv'
  BY StepArrive
<1>3. ArriveInv => UpdatesArrive
  <2>1. ASSUME NEW p \in Peers \ Throttled, Arriving(p), Quiet(p), NEW q \in audience[p] \ {p},
               ~meant[p].remove
        PROVE  states[q][p] = View(p)
    <3>1. MeantMessage(p).from = p
      BY DEF MeantMessage
    <3>2. WillArrive(p, q)
      BY <2>1 DEF Arriving
    <3>3. QED
      BY <2>1, <3>1, <3>2 DEF WillArrive, Quiet
  <2>2. QED
    BY <2>1 DEF ArriveInv, UpdatesArrive, View
<1>4. QED
  BY <1>1, <1>2, <1>3, TypeCorrect, ListenKept, PTL DEF Spec

=============================================================================
