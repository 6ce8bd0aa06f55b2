-------------------------- MODULE SignalingProofs --------------------------
(***************************************************************************)
(* Theorems about SignalingServer, for every set of sockets, sessions,     *)
(* peers and rooms and every value of the bounds.                          *)
(***************************************************************************)
EXTENDS SignalingServer, FiniteSetTheorems, TLAPS

LEMMA RecipientTypes ==
  ASSUME TypeOK
  PROVE  /\ \A r \in Rooms : \A p : Others(r, p) \subseteq Connections
         /\ \A r \in Rooms : \A p : FirstOf(r, p) \subseteq Connections
BY DEF TypeOK, Others, FirstOf

(* Delivering leaves the polling state well typed, whoever it is for.      *)
LEMMA DeliverTypes ==
  ASSUME TypeOK, NEW to, NEW ended, Deliver(to, ended)
  PROVE  /\ messages' \in Nat
         /\ messageQueue' \in [Sessions -> Seq(Nat)]
         /\ pendingResponse' \in [Sessions -> {"none", "waiting", "dead"}]
         /\ client' \in [Sessions -> {"new", "ready", "asking", "answered", "leaving", "gone"}]
         /\ response' \in [Sessions -> Seq(Nat)]
<1>1. messages' \in Nat
  BY DEF Deliver, TypeOK
<1>2. \A sq \in Seq(Nat) : Append(sq, messages') \in Seq(Nat)
  BY <1>1
<1>3. <<messages'>> \in Seq(Nat)
  BY <1>1
<1>4. messageQueue' \in [Sessions -> Seq(Nat)]
  BY <1>2 DEF Deliver, TypeOK
<1>5. response' \in [Sessions -> Seq(Nat)]
  BY <1>3 DEF Deliver, TypeOK
<1>6. /\ pendingResponse' \in [Sessions -> {"none", "waiting", "dead"}]
      /\ client' \in [Sessions -> {"new", "ready", "asking", "answered", "leaving", "gone"}]
  BY DEF Deliver, TypeOK
<1>7. QED
  BY <1>1, <1>4, <1>5, <1>6

(* A join, on the side of the rooms.                                       *)
LEMMA JoinTypes ==
  ASSUME SignalingAssumption, TypeOK, NEW c \in Connections, Join(c)
  PROVE  /\ rooms' \in [Rooms -> Connections \union {NoRoom}]
         /\ rooms'[RoomOf[c]] \in Connections
         /\ members' \in [Connections -> SUBSET Connections]
         /\ joined' \in [Connections -> Nat]
         /\ told' \in [Connections -> SUBSET Connections]
<1> DEFINE r == RoomOf[c]
           s == IF rooms[r] = NoRoom THEN c ELSE rooms[r]
<1>1. r \in Rooms
  BY DEF SignalingAssumption
<1>2. s \in Connections
  BY <1>1 DEF TypeOK
<1>3. 1 + Cardinality({d \in Connections : joined[d] # 0}) \in Nat
  BY FS_Subset, FS_CardinalityType DEF SignalingAssumption
<1>4. Others(r, PeerOf[c]) \subseteq Connections
  BY <1>1, RecipientTypes
<1>5. /\ rooms' = [rooms EXCEPT ![r] = s]
      /\ members' = [members EXCEPT ![s] = @ \union {c}]
      /\ joined' = [joined EXCEPT ![c] = 1 + Cardinality({d \in Connections : joined[d] # 0})]
      /\ told' = [told EXCEPT ![c] = Others(r, PeerOf[c])]
  BY DEF Join
<1> HIDE DEF r, s
<1>6. rooms' \in [Rooms -> Connections \union {NoRoom}] /\ rooms'[r] \in Connections
  BY <1>1, <1>2, <1>5 DEF TypeOK
<1>7. members' \in [Connections -> SUBSET Connections]
  BY <1>2, <1>5 DEF TypeOK
<1>8. joined' \in [Connections -> Nat]
  BY <1>3, <1>5 DEF TypeOK
<1>9. told' \in [Connections -> SUBSET Connections]
  BY <1>4, <1>5 DEF TypeOK
<1>10. QED
  BY <1>6, <1>7, <1>8, <1>9 DEF r

(* A departure changes the rooms and, telling the others, the polling.     *)
PollTypes ==
  /\ messages \in Nat
  /\ messageQueue \in [Sessions -> Seq(Nat)]
  /\ pendingResponse \in [Sessions -> {"none", "waiting", "dead"}]
  /\ client \in [Sessions -> {"new", "ready", "asking", "answered", "leaving", "gone"}]
  /\ response \in [Sessions -> Seq(Nat)]

LEMMA LeaveTypes ==
  ASSUME TypeOK, NEW c, NEW r \in Rooms, NEW s \in Connections, LeaveRoom(c, r, s)
  PROVE  /\ rooms' \in [Rooms -> Connections \union {NoRoom}]
         /\ members' \in [Connections -> SUBSET Connections]
         /\ PollTypes'
<1>1. members' \in [Connections -> SUBSET Connections]
  BY DEF LeaveRoom, TypeOK
<1>2. rooms' \in [Rooms -> Connections \union {NoRoom}]
  BY DEF LeaveRoom, TypeOK
<1>3. CASE members[s] \ {c} = {}
  BY <1>1, <1>2, <1>3 DEF LeaveRoom, EndPoll, TypeOK, PollTypes
<1>4. CASE members[s] \ {c} # {}
  BY <1>1, <1>2, <1>4, DeliverTypes DEF LeaveRoom, PollTypes
<1>5. QED
  BY <1>3, <1>4

-----------------------------------------------------------------------------
(* Type correctness.                                                       *)

LEMMA InitType == SignalingAssumption => (Init => TypeOK)
BY DEF SignalingAssumption, Init, TypeOK

LEMMA StepType ==
  ASSUME SignalingAssumption, TypeOK, [Next]_vars
  PROVE  TypeOK'
<1>0. /\ \A c \in Connections : RoomOf[c] \in Rooms
      /\ NoRoom \notin Connections
      /\ \A w \in Sockets : w \in Connections
      /\ \A c \in Sessions : c \in Connections
  BY DEF SignalingAssumption, Connections
<1>1. ASSUME NEW w \in Sockets, SocketConnects(w) PROVE TypeOK'
  <2>1. /\ rooms' \in [Rooms -> Connections \union {NoRoom}]
        /\ rooms'[RoomOf[w]] \in Connections
        /\ members' \in [Connections -> SUBSET Connections]
        /\ joined' \in [Connections -> Nat]
        /\ told' \in [Connections -> SUBSET Connections]
    BY <1>0, <1>1, JoinTypes DEF SocketConnects
  <2>2. home' \in [Sockets -> Connections \union {NoRoom}]
    BY <1>1, <2>1 DEF SocketConnects, TypeOK
  <2>3. socket' \in [Sockets -> {"new", "open", "closing", "failed", "closed"}]
    BY <1>1 DEF SocketConnects, TypeOK
  <2>4. \A v \in Sockets : socket'[v] # "new" => home'[v] # NoRoom
    BY <1>0, <1>1, <2>1 DEF SocketConnects, TypeOK
  <2>5. QED
    BY <1>1, <2>1, <2>2, <2>3, <2>4 DEF SocketConnects, TypeOK, pollVars, boundVars
<1>2. ASSUME NEW c \in Sessions, PollJoin(c) PROVE TypeOK'
  <2>1. /\ rooms' \in [Rooms -> Connections \union {NoRoom}]
        /\ members' \in [Connections -> SUBSET Connections]
        /\ joined' \in [Connections -> Nat]
        /\ told' \in [Connections -> SUBSET Connections]
    BY <1>0, <1>2, JoinTypes DEF PollJoin
  <2>2. QED
    BY <1>2, <2>1 DEF PollJoin, TypeOK, boundVars
<1>3. ASSUME NEW w \in Sockets, SocketDrops(w) PROVE TypeOK'
  BY <1>3 DEF SocketDrops, TypeOK, roomVars, pollVars, boundVars
<1>4. ASSUME NEW w \in Sockets, SocketError(w) PROVE TypeOK'
  BY <1>4 DEF SocketError, TypeOK, pollVars
<1>5. ASSUME NEW w \in Sockets, SocketClose(w) PROVE TypeOK'
  <2>1. home[w] \in Connections
    BY <1>5 DEF SocketClose, TypeOK
  <2>2. /\ rooms' \in [Rooms -> Connections \union {NoRoom}]
        /\ members' \in [Connections -> SUBSET Connections]
        /\ PollTypes'
    BY <1>0, <1>5, <2>1, LeaveTypes DEF SocketClose
  <2>3. QED
    BY SMTT(20), <1>5, <2>2 DEF SocketClose, TypeOK, PollTypes, boundVars
<1>6. ASSUME NEW c \in Sessions, CleanupPollingSession(c),
             UNCHANGED <<socket, received, boundVars>>
      PROVE  TypeOK'
  <2>1. /\ rooms' \in [Rooms -> Connections \union {NoRoom}]
        /\ members' \in [Connections -> SUBSET Connections]
        /\ PollTypes'
    <3>1. CASE rooms[RoomOf[c]] # NoRoom
      <4>1. rooms[RoomOf[c]] \in Connections
        BY <1>0, <3>1 DEF TypeOK
      <4>2. LeaveRoom(c, RoomOf[c], rooms[RoomOf[c]])
        BY <1>6, <3>1 DEF CleanupPollingSession
      <4>3. QED
        BY <1>0, <4>1, <4>2, LeaveTypes
    <3>2. CASE rooms[RoomOf[c]] = NoRoom
      BY <1>6, <3>2 DEF CleanupPollingSession, EndPoll, TypeOK, PollTypes
    <3>3. QED
      BY <3>1, <3>2
  <2>2. QED
    BY ZenonT(30), <1>6, <2>1 DEF CleanupPollingSession, EndPoll, TypeOK, PollTypes, boundVars
<1>7. ASSUME NEW c, NEW to, Relay(c, to) PROVE TypeOK'
  <2>1. PollTypes'
    BY <1>7, DeliverTypes DEF Relay, PollTypes
  <2>2. QED
    BY <1>7, <2>1 DEF Relay, TypeOK, PollTypes, roomVars
<1>8. ASSUME NEW c \in Sessions, PollMessages(c) PROVE TypeOK'
  <2>1. /\ messageQueue' \in [Sessions -> Seq(Nat)]
        /\ pendingResponse' \in [Sessions -> {"none", "waiting", "dead"}]
        /\ client' \in [Sessions -> {"new", "ready", "asking", "answered", "leaving", "gone"}]
        /\ response' \in [Sessions -> Seq(Nat)]
    <3>1. CASE session[c] = "live" /\ messageQueue[c] # <<>>
      <4>1. TakeQueue(c)
        BY <1>8, <3>1 DEF PollMessages
      <4>2. messageQueue[c] \in Seq(Nat) /\ <<>> \in Seq(Nat)
        BY DEF TypeOK
      <4>3. QED
        BY <4>1, <4>2 DEF TakeQueue, TypeOK
    <3>2. CASE ~(session[c] = "live" /\ messageQueue[c] # <<>>)
      BY <1>8, <3>2 DEF PollMessages, TypeOK
    <3>3. QED
      BY <3>1, <3>2
  <2>2. QED
    BY <1>8, <2>1 DEF PollMessages, TypeOK, roomVars, boundVars
<1>9. ASSUME NEW c \in Sessions, PollEnds(c) PROVE TypeOK'
  BY <1>9 DEF PollEnds, TypeOK, roomVars, boundVars
<1>10. ASSUME NEW c \in Sessions, ResponseArrives(c) PROVE TypeOK'
  <2>1. received[c] \o response[c] \in Seq(Nat)
    BY DEF TypeOK
  <2>2. QED
    BY <1>10, <2>1 DEF ResponseArrives, TypeOK, roomVars, boundVars
<1>11. ASSUME NEW c \in Sessions, PollFails(c) \/ ClientCloses(c) \/ ClientVanishes(c)
       PROVE  TypeOK'
  <2>1. PICK next \in {"ready", "leaving", "gone"} : Abandon(c, next)
    BY <1>11 DEF PollFails, ClientCloses, ClientVanishes
  <2>2. /\ client' \in [Sessions -> {"new", "ready", "asking", "answered", "leaving", "gone"}]
        /\ pendingResponse' \in [Sessions -> {"none", "waiting", "dead"}]
        /\ response' \in [Sessions -> Seq(Nat)]
    BY <2>1 DEF Abandon, TypeOK
  <2>3. drops' \in Nat
    BY <1>11 DEF PollFails, ClientCloses, ClientVanishes, TypeOK, boundVars
  <2>4. QED
    BY <1>11, <2>2, <2>3 DEF PollFails, ClientCloses, ClientVanishes, TypeOK, roomVars, boundVars
<1>12. CASE UNCHANGED vars
  BY <1>12 DEF vars, TypeOK, roomVars, pollVars, boundVars
<1>13. QED
  BY <1>1, <1>2, <1>3, <1>4, <1>5, <1>6, <1>7, <1>8, <1>9, <1>10, <1>11, <1>12
     DEF Next, Broadcast, Unicast, Expire, PollLeave

(* Every behaviour of the server is type correct, and no open socket is    *)
(* without the Set object its handlers use.                                *)
THEOREM TypeCorrect == SignalingAssumption => (Spec => []TypeOK)
<1> SUFFICES ASSUME SignalingAssumption PROVE Spec => []TypeOK
  OBVIOUS
<1>1. Init => TypeOK
  BY InitType
<1>2. TypeOK /\ [Next]_vars => TypeOK'
  BY StepType
<1>3. QED
  BY <1>1, <1>2, PTL DEF Spec

-----------------------------------------------------------------------------
(* Membership.  While no error event has come, the Set object a socket     *)
(* captured is the one its room has, the entries of a Set are the living   *)
(* connections of the room it is the Set of, and a Set is named by a       *)
(* connection that has come already.                                       *)
Come(c) == IF c \in Sockets THEN socket[c] # "new" ELSE session[c] # "new"

RoomsAgree ==
  /\ \A w \in Sockets : Alive(w) => home[w] = rooms[RoomOf[w]]
  /\ \A c \in Connections : Alive(c) => InRoom(c)
  /\ \A s \in Connections : \A c \in members[s] : Alive(c) /\ rooms[RoomOf[c]] = s
  /\ \A r \in Rooms : rooms[r] # NoRoom => Come(rooms[r]) /\ RoomOf[rooms[r]] = r

NoneFailed == \A w \in Sockets : socket[w] # "failed"

RoomInv == errors = 0 => RoomsAgree /\ NoneFailed

(* Steps that leave rooms, and who is alive, as they are.                  *)
LEMMA SameRooms ==
  ASSUME SignalingAssumption, TypeOK, RoomInv, errors' = errors,
         UNCHANGED <<rooms, members, home, session>>,
         \A w \in Sockets : /\ socket'[w] = "new" <=> socket[w] = "new"
                            /\ socket'[w] = "failed" <=> socket[w] = "failed"
                            /\ socket'[w] \in {"open", "closing"} <=> socket[w] \in {"open", "closing"}
  PROVE  RoomInv'
<1>1. \A c \in Connections : (Alive(c)' <=> Alive(c)) /\ (Come(c)' <=> Come(c))
  BY DEF Alive, Come
<1>2. \A c \in Connections : InRoom(c)' <=> InRoom(c)
  BY DEF InRoom
<1>3. /\ \A w \in Sockets : w \in Connections
      /\ members \in [Connections -> SUBSET Connections]
      /\ rooms \in [Rooms -> Connections \union {NoRoom}]
  BY DEF TypeOK, Connections
<1>4. QED
  BY <1>1, <1>2, <1>3 DEF RoomInv, RoomsAgree, NoneFailed

(* A connection that joins makes its room or enters the one there is.      *)
LEMMA JoinKeepsRooms ==
  ASSUME SignalingAssumption, TypeOK, RoomsAgree,
         NEW c \in Connections, ~Come(c), Join(c), Come(c)', Alive(c)',
         c \in Sockets => home'[c] = rooms'[RoomOf[c]],
         \A d \in Connections \ {c} : /\ Alive(d)' <=> Alive(d)
                                      /\ Come(d)' <=> Come(d)
                                      /\ d \in Sockets => home'[d] = home[d]
  PROVE  RoomsAgree'
<1> DEFINE r == RoomOf[c]
           s == IF rooms[r] = NoRoom THEN c ELSE rooms[r]
<1>0. /\ r \in Rooms /\ s \in Connections /\ s # NoRoom
      /\ \A d \in Connections : RoomOf[d] \in Rooms
      /\ \A w \in Sockets : w \in Connections
      /\ members \in [Connections -> SUBSET Connections]
      /\ rooms \in [Rooms -> Connections \union {NoRoom}]
  BY DEF SignalingAssumption, TypeOK, Connections
<1>1. /\ rooms' = [rooms EXCEPT ![r] = s]
      /\ members' = [members EXCEPT ![s] = @ \union {c}]
  BY DEF Join
<1>2. /\ \A q \in Rooms : rooms'[q] = IF q = r THEN s ELSE rooms[q]
      /\ \A t \in Connections :
           members'[t] = IF t = s THEN members[t] \union {c} ELSE members[t]
  BY <1>0, <1>1
<1> HIDE DEF s
<1>3. \A t \in Connections : c \notin members[t]
  BY DEF RoomsAgree, Alive, Come, Connections
<1>4. rooms[r] # NoRoom => s = rooms[r]
  BY DEF s
<1>5. rooms[r] = NoRoom => s = c /\ members[s] = {}
  <2>1. SUFFICES ASSUME rooms[r] = NoRoom PROVE members[c] = {}
    BY DEF s
  <2>2. SUFFICES ASSUME NEW d \in members[c] PROVE FALSE
    OBVIOUS
  <2>3. d \in Connections /\ rooms[RoomOf[d]] = c
    BY <1>0 DEF RoomsAgree
  <2>4. Come(c)
    BY <1>0, <2>3 DEF RoomsAgree
  <2>5. QED
    BY <2>4
<1>6. \A d \in Connections \ {c} : InRoom(d) => InRoom(d)'
  <2>1. SUFFICES ASSUME NEW d \in Connections \ {c}, InRoom(d) PROVE InRoom(d)'
    OBVIOUS
  <2>2. rooms'[RoomOf[d]] = rooms[RoomOf[d]] /\ rooms[RoomOf[d]] \in Connections
    BY <1>0, <1>2, <1>4, <2>1 DEF InRoom
  <2>3. d \in members'[rooms[RoomOf[d]]]
    BY <1>2, <2>1, <2>2 DEF InRoom
  <2>4. QED
    BY <2>1, <2>2, <2>3 DEF InRoom
<1>7. InRoom(c)'
  BY <1>0, <1>2 DEF InRoom
<1>8. \A d \in Connections : Alive(d)' => InRoom(d)'
  BY <1>6, <1>7 DEF RoomsAgree
<1>9. \A w \in Sockets : Alive(w)' => home'[w] = rooms'[RoomOf[w]]
  <2>1. SUFFICES ASSUME NEW w \in Sockets, Alive(w)', w # c
                 PROVE  home'[w] = rooms'[RoomOf[w]]
    OBVIOUS
  <2>2. Alive(w) /\ InRoom(w) /\ home'[w] = rooms[RoomOf[w]]
    BY <1>0, <2>1 DEF RoomsAgree
  <2>3. QED
    BY <1>0, <1>2, <1>4, <2>2 DEF InRoom
<1>10. ASSUME NEW t \in Connections, NEW d \in members'[t]
       PROVE  Alive(d)' /\ rooms'[RoomOf[d]] = t
  <2>0. (t = s /\ d = c) \/ d \in members[t]
    <3>1. CASE t = s
      <4>1. members'[t] = members[t] \union {c}
        BY <1>2, <3>1
      <4>2. QED
        BY <1>10, <3>1, <4>1
    <3>2. CASE t # s
      <4>1. members'[t] = members[t]
        BY <1>2, <3>2
      <4>2. QED
        BY <1>10, <4>1
    <3>3. QED
      BY <3>1, <3>2
  <2>1. CASE d = c
    BY <1>0, <1>2, <1>3, <2>0, <2>1
  <2>2. CASE d # c
    <3>1. d \in members[t] /\ d \in Connections
      BY <1>0, <2>0, <2>2
    <3>2. Alive(d) /\ rooms[RoomOf[d]] = t
      BY <3>1 DEF RoomsAgree
    <3>3. RoomOf[d] = r => rooms[r] # NoRoom
      BY <1>10, <3>2 DEF SignalingAssumption
    <3>4. QED
      BY <1>0, <1>2, <1>4, <2>2, <3>1, <3>2, <3>3
  <2>3. QED
    BY <2>1, <2>2
<1>11. ASSUME NEW q \in Rooms, rooms'[q] # NoRoom
       PROVE  Come(rooms[q])' /\ RoomOf[rooms'[q]] = q
  <2>1. CASE q = r /\ rooms[r] = NoRoom
    BY <1>2, <1>5, <2>1
  <2>2. CASE ~(q = r /\ rooms[r] = NoRoom)
    <3>1. rooms'[q] = rooms[q] /\ rooms[q] \in Connections
      BY <1>0, <1>2, <1>4, <1>11, <2>2
    <3>2. Come(rooms[q]) /\ RoomOf[rooms[q]] = q
      BY <1>11, <3>1 DEF RoomsAgree
    <3>3. \A d \in Connections : Come(d) => Come(d)'
      OBVIOUS
    <3>4. \A d \in Connections : d = rooms'[q] => Come(rooms[q])' = Come(d)'
      BY DEF Come
    <3>5. QED
      BY <3>1, <3>2, <3>3 DEF Come
  <2>3. QED
    BY <2>1, <2>2
<1>12. QED
  BY <1>8, <1>9, <1>10, <1>11 DEF RoomsAgree

(* A living connection that leaves takes its room along only if it is the  *)
(* last one in it.                                                         *)
LEMMA LeaveKeepsRooms ==
  ASSUME SignalingAssumption, TypeOK, RoomsAgree,
         NEW c \in Connections, Alive(c), LeaveRoom(c, RoomOf[c], rooms[RoomOf[c]]),
         ~Alive(c)', Come(c)', home' = home,
         \A d \in Connections \ {c} : (Alive(d)' <=> Alive(d)) /\ (Come(d)' <=> Come(d))
  PROVE  RoomsAgree'
<1> DEFINE r == RoomOf[c]
           s == rooms[r]
<1>0. /\ r \in Rooms /\ s \in Connections
      /\ \A d \in Connections : RoomOf[d] \in Rooms
      /\ \A w \in Sockets : w \in Connections
      /\ members \in [Connections -> SUBSET Connections]
      /\ rooms \in [Rooms -> Connections \union {NoRoom}]
  BY DEF SignalingAssumption, TypeOK, Connections, RoomsAgree, InRoom
<1>1. /\ \A t \in Connections :
           members'[t] = IF t = s THEN members[t] \ {c} ELSE members[t]
      /\ \/ members[s] \ {c} = {} /\ rooms' = [rooms EXCEPT ![r] = NoRoom]
         \/ rooms' = rooms
  BY <1>0 DEF LeaveRoom
<1>2. \A q \in Rooms : /\ q # r => rooms'[q] = rooms[q]
                       /\ rooms'[q] # NoRoom => rooms'[q] = rooms[q]
                       /\ members[s] \ {c} # {} => rooms'[q] = rooms[q]
  BY <1>0, <1>1
<1> HIDE DEF r, s
<1>3. ASSUME NEW d \in Connections, Alive(d)'
      PROVE  InRoom(d)' /\ rooms'[RoomOf[d]] = rooms[RoomOf[d]]
  <2>1. d # c /\ Alive(d) /\ InRoom(d)
    BY <1>3 DEF RoomsAgree
  <2>2. rooms[RoomOf[d]] \in Connections
    BY <1>0, <2>1 DEF InRoom
  <2>3. RoomOf[d] = r => d \in members[s] \ {c}
    BY <2>1 DEF InRoom, s
  <2>4. rooms'[RoomOf[d]] = rooms[RoomOf[d]]
    BY <1>0, <1>2, <2>3
  <2>5. d \in members'[rooms[RoomOf[d]]]
    BY <1>1, <2>1, <2>2 DEF InRoom
  <2>6. QED
    BY <2>1, <2>4, <2>5 DEF InRoom
<1>4. \A w \in Sockets : Alive(w)' => home'[w] = rooms'[RoomOf[w]]
  BY <1>0, <1>3 DEF RoomsAgree
<1>5. ASSUME NEW t \in Connections, NEW d \in members'[t]
      PROVE  Alive(d)' /\ rooms'[RoomOf[d]] = t
  <2>1. d \in members[t] /\ (t = s => d # c) /\ d \in Connections
    BY <1>0, <1>1, <1>5
  <2>2. Alive(d) /\ rooms[RoomOf[d]] = t
    BY <2>1 DEF RoomsAgree
  <2>3. d # c
    BY <2>1, <2>2 DEF r, s
  <2>4. QED
    BY <1>3, <2>1, <2>2, <2>3
<1>6. ASSUME NEW q \in Rooms, rooms'[q] # NoRoom
      PROVE  Come(rooms[q])' /\ RoomOf[rooms'[q]] = q
  <2>1. rooms'[q] = rooms[q] /\ rooms[q] \in Connections
    BY <1>0, <1>2, <1>6
  <2>2. Come(rooms[q]) /\ RoomOf[rooms[q]] = q
    BY <1>6, <2>1 DEF RoomsAgree
  <2>3. \A d \in Connections : Come(d) => Come(d)'
    OBVIOUS
  <2>4. QED
    BY <2>1, <2>2, <2>3 DEF Come
<1>7. QED
  BY <1>3, <1>4, <1>5, <1>6 DEF RoomsAgree

LEMMA InitRooms == SignalingAssumption => (Init => RoomInv)
BY DEF SignalingAssumption, Init, RoomInv, RoomsAgree, NoneFailed, Alive, Connections

LEMMA StepRooms ==
  ASSUME SignalingAssumption, TypeOK, RoomInv, [Next]_vars
  PROVE  RoomInv'
<1>0. /\ Sockets \intersect Sessions = {}
      /\ \A w \in Sockets : w \in Connections /\ w \notin Sessions
      /\ \A c \in Sessions : c \in Connections /\ c \notin Sockets
  BY DEF SignalingAssumption, Connections
<1>1. ASSUME NEW w \in Sockets, SocketConnects(w) PROVE RoomInv'
  <2>1. SUFFICES ASSUME errors = 0 PROVE RoomInv'
    BY <1>1 DEF SocketConnects, boundVars, RoomInv
  <2>2. RoomsAgree /\ NoneFailed
    BY <2>1 DEF RoomInv
  <2>3. /\ ~Come(w) /\ Come(w)' /\ Alive(w)' /\ Join(w) /\ home'[w] = rooms'[RoomOf[w]]
        /\ NoneFailed'
    BY <1>1, <2>2 DEF SocketConnects, Come, Alive, TypeOK, NoneFailed
  <2>4. \A d \in Connections \ {w} : /\ Alive(d)' <=> Alive(d)
                                     /\ Come(d)' <=> Come(d)
                                     /\ d \in Sockets => home'[d] = home[d]
    BY <1>1 DEF SocketConnects, Come, Alive, TypeOK
  <2>5. RoomsAgree'
    BY <1>0, <2>2, <2>3, <2>4, JoinKeepsRooms
  <2>6. QED
    BY <2>3, <2>5 DEF RoomInv
<1>2. ASSUME NEW c \in Sessions, PollJoin(c) PROVE RoomInv'
  <2>1. SUFFICES ASSUME errors = 0 PROVE RoomInv'
    BY <1>2 DEF PollJoin, boundVars, RoomInv
  <2>2. RoomsAgree /\ NoneFailed
    BY <2>1 DEF RoomInv
  <2>3. ~Come(c) /\ Come(c)' /\ Alive(c)' /\ Join(c) /\ NoneFailed'
    BY <1>0, <1>2, <2>2 DEF PollJoin, Come, Alive, TypeOK, NoneFailed
  <2>4. \A d \in Connections \ {c} : /\ Alive(d)' <=> Alive(d)
                                     /\ Come(d)' <=> Come(d)
                                     /\ d \in Sockets => home'[d] = home[d]
    BY <1>0, <1>2 DEF PollJoin, Come, Alive, TypeOK, Connections
  <2>5. RoomsAgree'
    BY <1>0, <2>2, <2>3, <2>4, JoinKeepsRooms
  <2>6. QED
    BY <2>3, <2>5 DEF RoomInv
<1>3. ASSUME NEW w \in Sockets, SocketDrops(w) PROVE RoomInv'
  BY <1>3, SameRooms DEF SocketDrops, TypeOK, roomVars, boundVars
<1>4. ASSUME NEW w \in Sockets, SocketError(w) PROVE RoomInv'
  BY <1>4 DEF SocketError, TypeOK, RoomInv
<1>5. ASSUME NEW w \in Sockets, SocketClose(w) PROVE RoomInv'
  <2>1. SUFFICES ASSUME errors = 0 PROVE RoomInv'
    BY <1>5 DEF SocketClose, boundVars, RoomInv
  <2>2. RoomsAgree /\ NoneFailed
    BY <2>1 DEF RoomInv
  <2>3. Alive(w) /\ ~Alive(w)' /\ Come(w)' /\ home' = home /\ NoneFailed'
    BY <1>5, <2>2 DEF SocketClose, Come, Alive, TypeOK, NoneFailed
  <2>4. LeaveRoom(w, RoomOf[w], rooms[RoomOf[w]])
    BY <1>5, <2>2, <2>3 DEF SocketClose, RoomsAgree
  <2>5. \A d \in Connections \ {w} : (Alive(d)' <=> Alive(d)) /\ (Come(d)' <=> Come(d))
    BY <1>5 DEF SocketClose, Come, Alive, TypeOK
  <2>6. RoomsAgree'
    BY <1>0, <2>2, <2>3, <2>4, <2>5, LeaveKeepsRooms
  <2>7. QED
    BY <2>3, <2>6 DEF RoomInv
<1>6. ASSUME NEW c \in Sessions, CleanupPollingSession(c),
             UNCHANGED <<socket, received, boundVars>>
      PROVE  RoomInv'
  <2>1. SUFFICES ASSUME errors = 0 PROVE RoomInv'
    BY <1>6 DEF boundVars, RoomInv
  <2>2. RoomsAgree /\ NoneFailed
    BY <2>1 DEF RoomInv
  <2>3. Alive(c) /\ ~Alive(c)' /\ Come(c)' /\ home' = home /\ NoneFailed'
    BY <1>0, <1>6, <2>2 DEF CleanupPollingSession, Come, Alive, TypeOK, NoneFailed
  <2>4. rooms[RoomOf[c]] # NoRoom
    BY <1>0, <2>2, <2>3 DEF RoomsAgree, InRoom
  <2>5. LeaveRoom(c, RoomOf[c], rooms[RoomOf[c]])
    BY <1>6, <2>4 DEF CleanupPollingSession
  <2>6. \A d \in Connections \ {c} : (Alive(d)' <=> Alive(d)) /\ (Come(d)' <=> Come(d))
    BY <1>6 DEF CleanupPollingSession, Come, Alive, TypeOK, Connections
  <2>7. RoomsAgree'
    BY <1>0, <2>2, <2>3, <2>5, <2>6, LeaveKeepsRooms
  <2>8. QED
    BY <2>3, <2>7 DEF RoomInv
<1>7. ASSUME NEW c, NEW to, Relay(c, to) PROVE RoomInv'
  BY <1>7, SameRooms DEF Relay, roomVars
<1>8. ASSUME NEW c \in Sessions,
             \/ PollMessages(c) \/ PollEnds(c) \/ ResponseArrives(c)
             \/ PollFails(c) \/ ClientCloses(c) \/ ClientVanishes(c)
      PROVE  RoomInv'
  <2>1. errors' = errors /\ UNCHANGED <<rooms, members, home, session, socket>>
    BY <1>8 DEF PollMessages, PollEnds, ResponseArrives, PollFails, ClientCloses,
                ClientVanishes, roomVars, boundVars
  <2>2. QED
    BY <2>1, SameRooms
<1>9. CASE UNCHANGED vars
  BY <1>9, SameRooms DEF vars, roomVars, boundVars
<1>10. QED
  BY <1>1, <1>2, <1>3, <1>4, <1>5, <1>6, <1>7, <1>8, <1>9
     DEF Next, Broadcast, Unicast, Expire, PollLeave

(* Until a socket fails with an error event, every room of every server    *)
(* holds exactly the connections that have joined it and have not left,    *)
(* however joins, closes, expiries and leaves are interleaved.             *)
THEOREM MembersAgree == SignalingAssumption => (Spec => []RoomsHoldTheLiving)
<1> SUFFICES ASSUME SignalingAssumption PROVE Spec => []RoomsHoldTheLiving
  OBVIOUS
<1>1. Init => TypeOK /\ RoomInv
  BY InitType, InitRooms
<1>2. TypeOK /\ RoomInv /\ [Next]_vars => (TypeOK /\ RoomInv)'
  BY StepType, StepRooms
<1>3. TypeOK /\ RoomInv => RoomsHoldTheLiving
  <2>1. SUFFICES ASSUME TypeOK, RoomsAgree, NEW c \in Connections, InRoom(c) PROVE Alive(c)
    BY DEF RoomInv, RoomsAgree, RoomsHoldTheLiving
  <2>2. rooms[RoomOf[c]] \in Connections
    BY <2>1 DEF InRoom, TypeOK, SignalingAssumption
  <2>3. QED
    BY <2>1, <2>2 DEF InRoom, RoomsAgree
<1>4. QED
  BY <1>1, <1>2, <1>3, PTL DEF Spec

-----------------------------------------------------------------------------
(* Introductions.  In every Set object, that of a room or one left behind, *)
(* of two entries the later was told of the earlier; nothing is said yet of*)
(* a connection that has not come.                                         *)

ToldOnce(s) ==
  \A c, d \in members[s] : PeerOf[c] # PeerOf[d] => ((d \in told[c]) # (c \in told[d]))

PairInv ==
  /\ \A s \in Connections : ToldOnce(s)
  /\ \A c \in Connections : ~Come(c) => /\ members[c] = {}
                                        /\ \A d \in Connections : c \notin members[d] /\ c \notin told[d]
  /\ \A r \in Rooms : \A c \in Connections : rooms[r] = c => Come(c)

(* Sets only shrink, rooms only go.                                        *)
LEMMA FewerPairs ==
  ASSUME TypeOK, PairInv, told' = told,
         \A s \in Connections : members'[s] \subseteq members[s],
         \A r \in Rooms : rooms'[r] \in {rooms[r], NoRoom},
         NoRoom \notin Connections,
         \A c \in Connections : Come(c) => Come(c)'
  PROVE  PairInv'
<1>1. \A s \in Connections : ToldOnce(s)'
  BY DEF PairInv, ToldOnce
<1>2. \A c \in Connections : ~Come(c)' =>
        /\ members'[c] = {}
        /\ \A d \in Connections : c \notin members'[d] /\ c \notin told'[d]
  BY DEF PairInv
<1>3. \A r \in Rooms : \A c \in Connections : rooms'[r] = c => Come(c)'
  BY DEF PairInv
<1>4. QED
  BY <1>1, <1>2, <1>3 DEF PairInv

(* The newcomer is told of all who are there, and none of them of it.      *)
LEMMA JoinPairs ==
  ASSUME SignalingAssumption, TypeOK, PairInv, NEW c \in Connections, Join(c),
         ~Come(c), Come(c)', \A d \in Connections \ {c} : Come(d)' <=> Come(d)
  PROVE  PairInv'
<1> DEFINE r == RoomOf[c]
           s == IF rooms[r] = NoRoom THEN c ELSE rooms[r]
<1>1. /\ r \in Rooms /\ s \in Connections /\ NoRoom \notin Connections
      /\ members \in [Connections -> SUBSET Connections]
      /\ told \in [Connections -> SUBSET Connections]
      /\ rooms \in [Rooms -> Connections \union {NoRoom}]
  BY DEF SignalingAssumption, TypeOK
<1>2. /\ rooms' = [rooms EXCEPT ![r] = s]
      /\ members' = [members EXCEPT ![s] = @ \union {c}]
      /\ told' = [told EXCEPT ![c] = Others(r, PeerOf[c])]
  BY DEF Join
<1>3. Others(r, PeerOf[c]) = {d \in members[s] : PeerOf[d] # PeerOf[c]}
  <2>1. CASE rooms[r] = NoRoom
    <3>1. s = c /\ members[c] = {}
      BY <2>1 DEF PairInv
    <3>2. QED
      BY <2>1, <3>1 DEF Others
  <2>2. CASE rooms[r] # NoRoom
    BY <2>2 DEF Others
  <2>3. QED
    BY <2>1, <2>2
<1>4. s = c \/ Come(s)
  BY <1>1 DEF PairInv
<1> HIDE DEF r, s
<1>5. /\ \A q \in Rooms : rooms'[q] = IF q = r THEN s ELSE rooms[q]
      /\ \A t \in Connections : members'[t] = IF t = s THEN members[t] \union {c} ELSE members[t]
      /\ \A d \in Connections : told'[d] = IF d = c THEN Others(r, PeerOf[c]) ELSE told[d]
  BY <1>1, <1>2
<1>6. \A d \in Connections : c \notin members[d] /\ c \notin told[d]
  BY DEF PairInv
<1>7. ASSUME NEW t \in Connections PROVE ToldOnce(t)'
  <2>1. ASSUME NEW d \in members[t], NEW e \in members[t]
        PROVE  /\ told'[d] = told[d] /\ told'[e] = told[e]
               /\ PeerOf[d] # PeerOf[e] => ((e \in told[d]) # (d \in told[e]))
    <3>1. d \in Connections /\ e \in Connections /\ d # c /\ e # c
      BY <1>1, <1>6
    <3>2. QED
      BY <1>5, <3>1 DEF PairInv, ToldOnce
  <2>2. ASSUME t = s, NEW d \in members[s], PeerOf[d] # PeerOf[c]
        PROVE  d \in told'[c] /\ c \notin told'[d]
    <3>1. d \in Connections /\ d # c
      BY <1>1, <1>6
    <3>2. QED
      BY <1>3, <1>5, <1>6, <2>2, <3>1
  <2>3. CASE t # s
    <3>1. members'[t] = members[t]
      BY <1>5, <2>3
    <3>2. QED
      BY <2>1, <3>1 DEF ToldOnce
  <2>4. CASE t = s
    <3>1. members'[t] = members[t] \union {c}
      BY <1>5, <2>4
    <3>2. ASSUME NEW d \in members'[t], NEW e \in members'[t], PeerOf[d] # PeerOf[e]
          PROVE  (e \in told'[d]) # (d \in told'[e])
      <4>1. CASE d \in members[t] /\ e \in members[t]
        BY <2>1, <3>2, <4>1
      <4>2. CASE d = c
        <5>1. e \in members[s]
          BY <2>4, <3>1, <3>2, <4>2
        <5>2. QED
          BY <2>2, <2>4, <3>2, <4>2, <5>1
      <4>3. CASE e = c
        <5>1. d \in members[s]
          BY <2>4, <3>1, <3>2, <4>3
        <5>2. QED
          BY <2>2, <2>4, <3>2, <4>3, <5>1
      <4>4. QED
        BY <3>1, <4>1, <4>2, <4>3
    <3>3. QED
      BY <3>2 DEF ToldOnce
  <2>5. QED
    BY <2>3, <2>4
<1>8. ASSUME NEW d \in Connections, ~Come(d)'
      PROVE  members'[d] = {} /\ \A e \in Connections : d \notin members'[e] /\ d \notin told'[e]
  <2>1. d # c /\ ~Come(d)
    BY <1>8
  <2>2. d # s
    BY <1>4, <2>1
  <2>3. /\ members[d] = {}
        /\ \A e \in Connections : d \notin members[e] /\ d \notin told[e]
    BY <2>1 DEF PairInv
  <2>4. d \notin Others(r, PeerOf[c])
    BY <1>1, <1>3, <2>3 DEF r, s
  <2>5. QED
    BY ZenonT(30), <1>5, <2>1, <2>2, <2>3, <2>4
<1>9. \A q \in Rooms : \A d \in Connections : rooms'[q] = d => Come(d)'
  BY <1>4, <1>5 DEF PairInv
<1>10. QED
  BY <1>7, <1>8, <1>9 DEF PairInv

LEMMA LeavePairs ==
  ASSUME TypeOK, NEW c, NEW r, NEW s, LeaveRoom(c, r, s)
  PROVE  /\ \A t \in Connections : members'[t] \subseteq members[t]
         /\ \A q \in Rooms : rooms'[q] \in {rooms[q], NoRoom}
BY DEF LeaveRoom, TypeOK

LEMMA StepPairs ==
  ASSUME SignalingAssumption, TypeOK, PairInv, [Next]_vars
  PROVE  PairInv'
<1>0. /\ \A w \in Sockets : w \in Connections /\ w \notin Sessions
      /\ \A c \in Sessions : c \in Connections /\ c \notin Sockets
      /\ NoRoom \notin Connections
  BY DEF SignalingAssumption, Connections
<1> DEFINE Less == /\ told' = told
                   /\ \A s \in Connections : members'[s] \subseteq members[s]
                   /\ \A r \in Rooms : rooms'[r] \in {rooms[r], NoRoom}
                   /\ \A c \in Connections : Come(c) => Come(c)'
<1>1. ASSUME NEW w \in Sockets, SocketConnects(w) PROVE PairInv'
  <2>1. ~Come(w) /\ Come(w)' /\ Join(w)
    BY <1>1 DEF SocketConnects, Come, TypeOK
  <2>2. \A d \in Connections \ {w} : Come(d)' <=> Come(d)
    BY <1>1 DEF SocketConnects, Come, TypeOK
  <2>3. QED
    BY <1>0, <2>1, <2>2, JoinPairs
<1>2. ASSUME NEW c \in Sessions, PollJoin(c) PROVE PairInv'
  <2>1. ~Come(c) /\ Come(c)' /\ Join(c)
    BY <1>0, <1>2 DEF PollJoin, Come, TypeOK
  <2>2. \A d \in Connections \ {c} : Come(d)' <=> Come(d)
    BY <1>0, <1>2 DEF PollJoin, Come, TypeOK, Connections
  <2>3. QED
    BY <1>0, <2>1, <2>2, JoinPairs
<1>3. ASSUME NEW w \in Sockets, SocketDrops(w) \/ SocketError(w) PROVE Less
  <2>1. told' = told /\ rooms' = rooms /\ session' = session
    BY <1>3 DEF SocketDrops, SocketError, roomVars
  <2>2. \A s \in Connections : members'[s] \subseteq members[s]
    BY <1>3 DEF SocketDrops, SocketError, roomVars, TypeOK
  <2>3. \A v \in Sockets : socket[v] # "new" => socket'[v] # "new"
    BY <1>3 DEF SocketDrops, SocketError, TypeOK
  <2>4. QED
    BY <2>1, <2>2, <2>3 DEF Come
<1>4. ASSUME NEW w \in Sockets, SocketClose(w) PROVE Less
  <2>1. /\ LeaveRoom(w, RoomOf[w], home[w]) /\ told' = told /\ session' = session
        /\ socket' = [socket EXCEPT ![w] = "closed"]
    BY <1>4 DEF SocketClose
  <2>2. QED
    BY <2>1, LeavePairs DEF Come, TypeOK
<1>5. ASSUME NEW c \in Sessions, CleanupPollingSession(c), UNCHANGED <<socket, received, boundVars>>
      PROVE  Less
  <2>1. /\ told' = told /\ socket' = socket /\ session' = [session EXCEPT ![c] = "gone"]
        /\ \/ LeaveRoom(c, RoomOf[c], rooms[RoomOf[c]])
           \/ UNCHANGED <<rooms, members>>
    BY <1>5 DEF CleanupPollingSession
  <2>2. /\ \A t \in Connections : members'[t] \subseteq members[t]
        /\ \A q \in Rooms : rooms'[q] \in {rooms[q], NoRoom}
    BY <2>1, LeavePairs
  <2>3. QED
    BY <2>1, <2>2 DEF Come, TypeOK
<1>6. ASSUME UNCHANGED <<roomVars, socket, session>> PROVE Less
  BY <1>6 DEF roomVars, Come
<1>7. ASSUME NEW c, NEW to, Relay(c, to) PROVE Less
  BY <1>6, <1>7 DEF Relay
<1>8. ASSUME NEW c \in Sessions,
             \/ PollMessages(c) \/ PollEnds(c) \/ ResponseArrives(c)
             \/ PollFails(c) \/ ClientCloses(c) \/ ClientVanishes(c)
      PROVE  Less
  BY <1>6, <1>8 DEF PollMessages, PollEnds, ResponseArrives, PollFails, ClientCloses, ClientVanishes
<1>9. ASSUME UNCHANGED vars PROVE Less
  BY <1>6, <1>9 DEF vars
<1> HIDE DEF Less
<1>10. Less => PairInv'
  BY <1>0, FewerPairs DEF Less
<1>11. QED
  BY <1>1, <1>2, <1>3, <1>4, <1>5, <1>7, <1>8, <1>9, <1>10
     DEF Next, Broadcast, Unicast, Expire, PollLeave

(* Of two peers that meet in a room exactly one was told of the other, and *)
(* makes the offer: also when a socket's error has confused the rooms, for *)
(* whoever is in one Set object has joined it there.                       *)
THEOREM OneOffers == SignalingAssumption => (Spec => []Introduced)
<1> SUFFICES ASSUME SignalingAssumption PROVE Spec => []Introduced
  OBVIOUS
<1>1. Init => PairInv
  BY DEF SignalingAssumption, Init, PairInv, ToldOnce
<1>2. TypeOK /\ PairInv /\ [Next]_vars => PairInv'
  BY StepPairs
<1>3. TypeOK /\ PairInv => Introduced
  <2>1. SUFFICES ASSUME TypeOK, PairInv, NEW c \in Connections, NEW d \in Connections,
                        InRoom(c), InRoom(d), RoomOf[c] = RoomOf[d], PeerOf[c] # PeerOf[d]
                 PROVE  (d \in told[c]) # (c \in told[d])
    BY DEF Introduced
  <2>2. rooms[RoomOf[c]] \in Connections
    BY <2>1 DEF InRoom, TypeOK, SignalingAssumption
  <2>3. QED
    BY <2>1, <2>2 DEF InRoom, PairInv, ToldOnce
<1>4. QED
  BY <1>1, <1>2, <1>3, TypeCorrect, PTL DEF Spec

-----------------------------------------------------------------------------
(* Polling.  Messages are numbered as they are made, and what a client got,*)
(* what is on its way and what is queued for it follow each other.         *)

Increasing(s) == \A i, j \in 1 .. Len(s) : i < j => s[i] < s[j]
Below(s, t)   == \A i \in 1 .. Len(s) : \A j \in 1 .. Len(t) : s[i] < t[j]
UpTo(s, n)    == \A i \in 1 .. Len(s) : s[i] <= n

InOrder(got, coming, queued, n) ==
  /\ Increasing(got) /\ Increasing(coming) /\ Increasing(queued)
  /\ Below(got, coming) /\ Below(got, queued) /\ Below(coming, queued)
  /\ UpTo(got, n) /\ UpTo(coming, n) /\ UpTo(queued, n)

LEMMA Empty ==
  ASSUME NEW s, NEW n
  PROVE  Increasing(<<>>) /\ Below(<<>>, s) /\ Below(s, <<>>) /\ UpTo(<<>>, n)
BY DEF Increasing, Below, UpTo

LEMMA Appended ==
  ASSUME NEW s \in Seq(Nat), NEW t \in Seq(Nat), NEW n \in Nat,
         Increasing(s), UpTo(s, n), Below(t, s), UpTo(t, n)
  PROVE  LET a == Append(s, n + 1)
         IN  /\ Increasing(a) /\ Below(t, a) /\ UpTo(a, n + 1)
             /\ UpTo(t, n + 1)
<1> DEFINE a == Append(s, n + 1)
<1>1. /\ Len(s) \in Nat /\ Len(t) \in Nat /\ Len(a) = Len(s) + 1 /\ a[Len(s) + 1] = n + 1
      /\ \A i \in 1 .. Len(s) : a[i] = s[i] /\ s[i] \in Nat
      /\ \A i \in 1 .. Len(t) : t[i] \in Nat
  OBVIOUS
<1> HIDE DEF a
<1>2. \A i \in 1 .. Len(a) : (i \in 1 .. Len(s) /\ a[i] = s[i]) \/ (i = Len(s) + 1 /\ a[i] = n + 1)
  BY <1>1
<1>3. Increasing(a)
  BY SMTT(20), <1>1, <1>2 DEF Increasing, UpTo
<1>4. Below(t, a)
  <2>1. SUFFICES ASSUME NEW i \in 1 .. Len(t), NEW j \in 1 .. Len(a) PROVE t[i] < a[j]
    BY DEF Below
  <2>2. t[i] \in Nat /\ t[i] <= n
    BY <1>1 DEF UpTo
  <2>3. CASE j \in 1 .. Len(s) /\ a[j] = s[j]
    BY <2>3 DEF Below
  <2>4. CASE a[j] = n + 1
    BY <2>2, <2>4
  <2>5. QED
    BY <1>2, <2>3, <2>4
<1>5. UpTo(a, n + 1) /\ UpTo(t, n + 1)
  <2>1. ASSUME NEW i \in 1 .. Len(t) PROVE t[i] <= n + 1
    <3>1. t[i] \in Nat /\ t[i] <= n
      BY <1>1 DEF UpTo
    <3>2. QED
      BY <3>1
  <2>2. ASSUME NEW i \in 1 .. Len(a) PROVE a[i] <= n + 1
    <3>1. CASE i \in 1 .. Len(s) /\ a[i] = s[i]
      <4>1. s[i] \in Nat /\ s[i] <= n
        BY <1>1, <3>1 DEF UpTo
      <4>2. QED
        BY <3>1, <4>1
    <3>2. QED
      BY <1>2, <3>1
  <2>3. QED
    BY <2>1, <2>2 DEF UpTo
<1>6. QED
  BY <1>3, <1>4, <1>5 DEF a

LEMMA Joined ==
  ASSUME NEW s \in Seq(Nat), NEW t \in Seq(Nat), Increasing(s), Increasing(t), Below(s, t)
  PROVE  /\ s \o t \in Seq(Nat) /\ Increasing(s \o t)
         /\ \A u \in Seq(Nat) : Below(s, u) /\ Below(t, u) => Below(s \o t, u)
         /\ \A n : UpTo(s, n) /\ UpTo(t, n) => UpTo(s \o t, n)
<1> DEFINE a == s \o t
<1>1. /\ a \in Seq(Nat) /\ Len(s) \in Nat /\ Len(t) \in Nat /\ Len(a) = Len(s) + Len(t)
      /\ \A i \in 1 .. Len(a) : a[i] = IF i <= Len(s) THEN s[i] ELSE t[i - Len(s)]
  OBVIOUS
<1> HIDE DEF a
<1>2. \A i \in 1 .. Len(a) : \/ i \in 1 .. Len(s) /\ a[i] = s[i]
                             \/ i - Len(s) \in 1 .. Len(t) /\ a[i] = t[i - Len(s)]
  BY <1>1
<1>3. Increasing(a)
  <2>1. SUFFICES ASSUME NEW i \in 1 .. Len(a), NEW j \in 1 .. Len(a), i < j PROVE a[i] < a[j]
    BY DEF Increasing
  <2>2. CASE i <= Len(s) /\ j <= Len(s)
    <3>1. i \in 1 .. Len(s) /\ j \in 1 .. Len(s)
      BY <1>1, <2>1, <2>2
    <3>2. a[i] = s[i] /\ a[j] = s[j]
      BY <1>1, <2>1, <2>2
    <3>3. QED
      BY <2>1, <3>1, <3>2 DEF Increasing
  <2>3. CASE i <= Len(s) /\ ~(j <= Len(s))
    <3>1. i \in 1 .. Len(s) /\ j - Len(s) \in 1 .. Len(t)
      <4>1. /\ Len(s) \in Nat /\ Len(t) \in Nat
            /\ i \in 1 .. Len(s) + Len(t) /\ j \in 1 .. Len(s) + Len(t)
        BY <1>1
      <4>2. QED
        BY <2>3, <4>1
    <3>2. a[i] = s[i] /\ a[j] = t[j - Len(s)]
      BY <1>1, <2>1, <2>3
    <3>3. QED
      BY <3>1, <3>2 DEF Below
  <2>4. CASE ~(i <= Len(s))
    <3>1. i - Len(s) \in 1 .. Len(t) /\ j - Len(s) \in 1 .. Len(t) /\ i - Len(s) < j - Len(s)
      BY <1>1, <2>1, <2>4
    <3>2. a[i] = t[i - Len(s)] /\ a[j] = t[j - Len(s)]
      BY <1>1, <2>1, <2>4
    <3>3. QED
      BY <3>1, <3>2 DEF Increasing
  <2>5. QED
    BY <2>2, <2>3, <2>4
<1>4. \A u \in Seq(Nat) : Below(s, u) /\ Below(t, u) => Below(a, u)
  BY <1>2 DEF Below
<1>5. \A n : UpTo(s, n) /\ UpTo(t, n) => UpTo(a, n)
  BY <1>2 DEF UpTo
<1>6. QED
  BY <1>1, <1>3, <1>4, <1>5 DEF a

(* A message comes to the queue, or answers a poll.                        *)
LEMMA NewMessage ==
  ASSUME NEW r \in Seq(Nat), NEW p \in Seq(Nat), NEW q \in Seq(Nat), NEW n \in Nat, InOrder(r, p, q, n)
  PROVE  /\ InOrder(r, p, q, n + 1)
         /\ InOrder(r, p, Append(q, n + 1), n + 1)
         /\ p = <<>> /\ q = <<>> => InOrder(r, <<n + 1>>, q, n + 1)
<1>1. /\ \A i \in 1 .. Len(r) : r[i] \in Nat
      /\ \A i \in 1 .. Len(p) : p[i] \in Nat
      /\ \A i \in 1 .. Len(q) : q[i] \in Nat
  OBVIOUS
<1>2. InOrder(r, p, q, n + 1)
  BY <1>1 DEF InOrder, UpTo
<1>3. InOrder(r, p, Append(q, n + 1), n + 1)
  BY Appended DEF InOrder
<1>4. ASSUME p = <<>>, q = <<>> PROVE InOrder(r, <<n + 1>>, q, n + 1)
  <2>1. Append(<<>>, n + 1) = <<n + 1>>
    OBVIOUS
  <2>2. Increasing(<<n + 1>>) /\ Below(r, <<n + 1>>) /\ UpTo(<<n + 1>>, n + 1) /\ UpTo(r, n + 1)
    BY <1>4, <2>1, Appended DEF InOrder
  <2>3. QED
    BY <1>4, <2>2, Empty DEF InOrder
<1>5. QED
  BY <1>2, <1>3, <1>4

(* A response is made of the queue, is lost, or arrives.                   *)
LEMMA OnTheWay ==
  ASSUME NEW r \in Seq(Nat), NEW p \in Seq(Nat), NEW q \in Seq(Nat), NEW n \in Nat, InOrder(r, p, q, n)
  PROVE  /\ InOrder(r, q, <<>>, n)
         /\ InOrder(r, <<>>, q, n)
         /\ InOrder(r \o p, <<>>, q, n)
         /\ Increasing(r \o p \o q)
<1>1. InOrder(r, q, <<>>, n) /\ InOrder(r, <<>>, q, n)
  BY Empty DEF InOrder
<1>2. r \o p \in Seq(Nat) /\ Increasing(r \o p) /\ Below(r \o p, q) /\ UpTo(r \o p, n)
  BY Joined DEF InOrder
<1>3. InOrder(r \o p, <<>>, q, n)
  BY <1>2, Empty DEF InOrder
<1>4. Increasing(r \o p \o q)
  BY <1>2, Joined DEF InOrder
<1>5. QED
  BY <1>1, <1>3, <1>4

PollOK(c) ==
  /\ InOrder(received[c], response[c], messageQueue[c], messages)
  /\ client[c] # "answered" => response[c] = <<>>
  /\ pendingResponse[c] = "waiting" => client[c] = "asking"
  /\ pendingResponse[c] # "none" => messageQueue[c] = <<>>
  /\ session[c] = "new" => client[c] = "new"

PollInv == \A c \in Sessions : PollOK(c)

LEMMA PollTyped ==
  ASSUME TypeOK, NEW c \in Sessions
  PROVE  /\ received[c] \in Seq(Nat) /\ response[c] \in Seq(Nat) /\ messageQueue[c] \in Seq(Nat)
         /\ messages \in Nat
BY DEF TypeOK

LEMMA DeliverPolls ==
  ASSUME TypeOK, PollInv, NEW to, NEW ended, Deliver(to, ended), received' = received,
         \A c \in Sessions : session'[c] = "new" => session[c] = "new"
  PROVE  PollInv'
<1> SUFFICES ASSUME NEW c \in Sessions PROVE PollOK(c)'
  BY DEF PollInv
<1> DEFINE waits == c \in to /\ pendingResponse[c] # "none"
           answered == c \in to /\ pendingResponse[c] = "waiting"
           queued == c \in to /\ pendingResponse[c] = "none"
<1>1. /\ messages' = messages + 1
      /\ messageQueue'[c] = IF queued THEN Append(messageQueue[c], messages + 1) ELSE messageQueue[c]
      /\ pendingResponse'[c] = IF waits \/ c \in ended THEN "none" ELSE pendingResponse[c]
      /\ client'[c] = IF answered THEN "answered" ELSE client[c]
      /\ response'[c] = IF answered THEN <<messages + 1>> ELSE response[c]
  BY DEF Deliver
<1>2. PollOK(c)
  BY DEF PollInv
<1>3. /\ InOrder(received[c], response[c], messageQueue[c], messages + 1)
      /\ InOrder(received[c], response[c], Append(messageQueue[c], messages + 1), messages + 1)
      /\ response[c] = <<>> /\ messageQueue[c] = <<>> =>
           InOrder(received[c], <<messages + 1>>, messageQueue[c], messages + 1)
  BY <1>2, PollTyped, NewMessage DEF PollOK
<1>4. CASE answered
  <2>1. response[c] = <<>> /\ messageQueue[c] = <<>> /\ session[c] # "new"
    BY <1>2, <1>4 DEF PollOK
  <2>2. /\ messageQueue'[c] = messageQueue[c] /\ pendingResponse'[c] = "none"
        /\ client'[c] = "answered" /\ response'[c] = <<messages + 1>> /\ received'[c] = received[c]
    BY <1>1, <1>4
  <2>3. QED
    BY <1>1, <1>3, <2>1, <2>2 DEF PollOK
<1>5. CASE queued
  <2>1. /\ messageQueue'[c] = Append(messageQueue[c], messages + 1) /\ pendingResponse'[c] = "none"
        /\ client'[c] = client[c] /\ response'[c] = response[c] /\ received'[c] = received[c]
    BY <1>1, <1>5
  <2>2. QED
    BY <1>1, <1>2, <1>3, <2>1 DEF PollOK
<1>6. CASE ~answered /\ ~queued
  <2>1. /\ messageQueue'[c] = messageQueue[c] /\ pendingResponse'[c] \in {pendingResponse[c], "none"}
        /\ client'[c] = client[c] /\ response'[c] = response[c] /\ received'[c] = received[c]
    BY <1>1, <1>6
  <2>2. QED
    BY <1>1, <1>2, <1>3, <2>1 DEF PollOK
<1>7. QED
  BY <1>4, <1>5, <1>6

(* Nothing happens to a poll but that it may end.                          *)
LEMMA SamePolls ==
  ASSUME PollInv, UNCHANGED <<received, response, messageQueue, messages, client>>,
         \A c \in Sessions : /\ pendingResponse'[c] \in {pendingResponse[c], "none"}
                             /\ session'[c] = "new" => session[c] = "new"
  PROVE  PollInv'
BY DEF PollInv, PollOK

(* The steps of one session's client and of the handlers of its polls.     *)
LEMMA OwnPoll ==
  ASSUME PollInv, NEW c \in Sessions, PollOK(c)', messages' = messages,
         \A d \in Sessions \ {c} : /\ received'[d] = received[d] /\ response'[d] = response[d]
                                   /\ messageQueue'[d] = messageQueue[d] /\ client'[d] = client[d]
                                   /\ pendingResponse'[d] = pendingResponse[d]
                                   /\ session'[d] = session[d]
  PROVE  PollInv'
<1>1. \A d \in Sessions \ {c} : PollOK(d)'
  BY DEF PollInv, PollOK
<1>2. QED
  BY <1>1 DEF PollInv

LEMMA StepPolls ==
  ASSUME SignalingAssumption, TypeOK, PollInv, [Next]_vars
  PROVE  PollInv'
<1>1. ASSUME NEW w \in Sockets, SocketConnects(w) \/ SocketDrops(w) \/ SocketError(w) PROVE PollInv'
  <2>1. UNCHANGED <<received, response, messageQueue, messages, client, pendingResponse, session>>
    BY <1>1 DEF SocketConnects, SocketDrops, SocketError, pollVars
  <2>2. QED
    BY <2>1, SamePolls
<1>2. ASSUME NEW c, NEW r, NEW s, LeaveRoom(c, r, s), received' = received,
             \A d \in Sessions : session'[d] = "new" => session[d] = "new"
      PROVE  PollInv'
  <2>1. CASE members[s] \ {c} = {}
    <3>1. EndPoll(c) /\ messages' = messages
      BY <1>2, <2>1 DEF LeaveRoom
    <3>2. UNCHANGED <<received, response, messageQueue, messages, client>>
          /\ \A d \in Sessions : pendingResponse'[d] \in {pendingResponse[d], "none"}
      BY <1>2, <3>1 DEF EndPoll
    <3>3. QED
      BY <1>2, <3>2, SamePolls
  <2>2. CASE members[s] \ {c} # {}
    BY <1>2, <2>2, DeliverPolls DEF LeaveRoom
  <2>3. QED
    BY <2>1, <2>2
<1>3. ASSUME NEW w \in Sockets, SocketClose(w) PROVE PollInv'
  BY <1>2, <1>3 DEF SocketClose
<1>4. ASSUME NEW c \in Sessions, CleanupPollingSession(c), received' = received PROVE PollInv'
  <2>1. \A d \in Sessions : session'[d] = "new" => session[d] = "new"
    BY <1>4 DEF CleanupPollingSession, TypeOK
  <2>2. CASE LeaveRoom(c, RoomOf[c], rooms[RoomOf[c]])
    BY <1>2, <1>4, <2>1, <2>2
  <2>3. CASE EndPoll(c) /\ UNCHANGED <<rooms, members, messages>>
    <3>1. UNCHANGED <<received, response, messageQueue, messages, client>>
          /\ \A d \in Sessions : pendingResponse'[d] \in {pendingResponse[d], "none"}
      BY <1>4, <2>3 DEF EndPoll
    <3>2. QED
      BY <2>1, <3>1, SamePolls
  <2>4. QED
    BY <1>4, <2>2, <2>3 DEF CleanupPollingSession
<1>5. ASSUME NEW c, NEW to, Relay(c, to) PROVE PollInv'
  BY <1>5, DeliverPolls DEF Relay
<1>6. ASSUME NEW c \in Sessions
      PROVE  /\ PollOK(c) /\ received[c] \in Seq(Nat)
             /\ response[c] \in Seq(Nat) /\ messageQueue[c] \in Seq(Nat)
             /\ InOrder(received[c], messageQueue[c], <<>>, messages)
             /\ InOrder(received[c], <<>>, messageQueue[c], messages)
             /\ InOrder(received[c] \o response[c], <<>>, messageQueue[c], messages)
  BY PollTyped, OnTheWay DEF PollInv, PollOK
<1>7. ASSUME NEW c \in Sessions, PollJoin(c) PROVE PollInv'
  <2>1. /\ session[c] = "new" /\ client'[c] = "ready" /\ session'[c] = "live"
        /\ UNCHANGED <<received, response, messageQueue, pendingResponse, messages>>
        /\ \A d \in Sessions \ {c} : client'[d] = client[d] /\ session'[d] = session[d]
    BY <1>7 DEF PollJoin, TypeOK
  <2>2. PollOK(c)'
    BY <1>6, <2>1 DEF PollOK
  <2>3. QED
    BY <2>1, <2>2, OwnPoll
<1>8. ASSUME NEW c \in Sessions, PollMessages(c) PROVE PollInv'
  <2>1. client[c] = "ready" /\ UNCHANGED <<session, received, messages>>
    BY <1>8 DEF PollMessages
  <2>2. response[c] = <<>> /\ session[c] # "new" /\ pendingResponse[c] # "waiting"
    BY <1>6, <2>1 DEF PollOK
  <2>3. CASE client' = [client EXCEPT ![c] = "gone"] /\ UNCHANGED <<messageQueue, pendingResponse, response>>
    <3>1. client'[c] = "gone" /\ \A d \in Sessions \ {c} : client'[d] = client[d]
      BY <2>3 DEF TypeOK
    <3>2. PollOK(c)'
      BY <1>6, <2>1, <2>2, <2>3, <3>1 DEF PollOK
    <3>3. QED
      BY <2>1, <2>3, <3>1, <3>2, OwnPoll
  <2>4. CASE messageQueue[c] # <<>> /\ TakeQueue(c)
    <3>1. /\ client'[c] = "answered" /\ response'[c] = messageQueue[c] /\ messageQueue'[c] = <<>>
          /\ pendingResponse' = pendingResponse
          /\ \A d \in Sessions \ {c} : /\ client'[d] = client[d] /\ response'[d] = response[d]
                                       /\ messageQueue'[d] = messageQueue[d]
      BY <2>4 DEF TakeQueue, TypeOK
    <3>2. PollOK(c)'
      BY <1>6, <2>1, <2>2, <3>1 DEF PollOK
    <3>3. QED
      BY <2>1, <3>1, <3>2, OwnPoll
  <2>5. CASE /\ messageQueue[c] = <<>>
             /\ pendingResponse' = [pendingResponse EXCEPT ![c] = "waiting"]
             /\ client' = [client EXCEPT ![c] = "asking"]
             /\ UNCHANGED <<messageQueue, response>>
    <3>1. /\ client'[c] = "asking" /\ pendingResponse'[c] = "waiting"
          /\ \A d \in Sessions \ {c} : client'[d] = client[d] /\ pendingResponse'[d] = pendingResponse[d]
      BY <2>5 DEF TypeOK
    <3>2. PollOK(c)'
      BY <1>6, <2>1, <2>2, <2>5, <3>1 DEF PollOK
    <3>3. QED
      BY <2>1, <2>5, <3>1, <3>2, OwnPoll
  <2>6. QED
    BY <1>8, <2>3, <2>4, <2>5 DEF PollMessages
<1>9. ASSUME NEW c \in Sessions, PollEnds(c) PROVE PollInv'
  <2>1. /\ pendingResponse'[c] = "none"
        /\ client'[c] = IF pendingResponse[c] = "waiting" THEN "answered" ELSE client[c]
        /\ UNCHANGED <<session, messageQueue, response, received, messages>>
        /\ \A d \in Sessions \ {c} : client'[d] = client[d] /\ pendingResponse'[d] = pendingResponse[d]
    BY <1>9 DEF PollEnds, TypeOK
  <2>2. PollOK(c)'
    BY <1>6, <2>1 DEF PollOK
  <2>3. QED
    BY <2>1, <2>2, OwnPoll
<1>10. ASSUME NEW c \in Sessions, ResponseArrives(c) PROVE PollInv'
  <2>1. /\ client[c] = "answered" /\ client'[c] = "ready"
        /\ received'[c] = received[c] \o response[c] /\ response'[c] = <<>>
        /\ UNCHANGED <<session, messageQueue, pendingResponse, messages>>
        /\ \A d \in Sessions \ {c} : /\ client'[d] = client[d] /\ received'[d] = received[d]
                                     /\ response'[d] = response[d]
    BY <1>10 DEF ResponseArrives, TypeOK
  <2>2. PollOK(c)'
    BY <1>6, <2>1 DEF PollOK
  <2>3. QED
    BY <2>1, <2>2, OwnPoll
<1>11. ASSUME NEW c \in Sessions, PollFails(c) \/ ClientCloses(c) \/ ClientVanishes(c) PROVE PollInv'
  <2>1. PICK next \in {"ready", "leaving", "gone"} : Abandon(c, next)
    BY <1>11 DEF PollFails, ClientCloses, ClientVanishes
  <2>2. client[c] # "new" /\ UNCHANGED <<session, messageQueue, received, messages>>
    BY <1>11 DEF PollFails, ClientCloses, ClientVanishes
  <2>3. /\ client'[c] = next /\ response'[c] = <<>>
        /\ pendingResponse'[c] = IF pendingResponse[c] = "waiting" THEN "dead" ELSE pendingResponse[c]
        /\ \A d \in Sessions \ {c} : /\ client'[d] = client[d] /\ response'[d] = response[d]
                                     /\ pendingResponse'[d] = pendingResponse[d]
    BY <2>1 DEF Abandon, TypeOK
  <2>4. PollOK(c)'
    BY <1>6, <2>2, <2>3 DEF PollOK
  <2>5. QED
    BY <2>2, <2>3, <2>4, OwnPoll
<1>12. CASE UNCHANGED vars
  BY <1>12, SamePolls DEF vars, pollVars
<1>13. QED
  BY <1>1, <1>3, <1>4, <1>5, <1>7, <1>8, <1>9, <1>10, <1>11, <1>12
     DEF Next, Broadcast, Unicast, Expire, PollLeave

LEMMA PollsCorrect == SignalingAssumption => (Spec => []PollInv)
<1> SUFFICES ASSUME SignalingAssumption PROVE Spec => []PollInv
  OBVIOUS
<1>1. Init => PollInv
  <2>1. SUFFICES ASSUME Init, NEW c \in Sessions PROVE PollOK(c)
    BY DEF PollInv
  <2>2. /\ received[c] = <<>> /\ response[c] = <<>> /\ messageQueue[c] = <<>>
        /\ client[c] = "new" /\ pendingResponse[c] = "none"
    BY <2>1 DEF Init
  <2>3. InOrder(<<>>, <<>>, <<>>, messages)
    BY Empty DEF InOrder
  <2>4. QED
    BY <2>2, <2>3 DEF PollOK
<1>2. TypeOK /\ PollInv /\ [Next]_vars => PollInv'
  BY StepPolls
<1>3. QED
  BY <1>1, <1>2, TypeCorrect, PTL DEF Spec

(* A message that finds a poll waiting answers it, and a poll that finds   *)
(* messages takes them all: none waits beside the other.                   *)
THEOREM PollsAwake == SignalingAssumption => (Spec => []NoPollSleeps)
<1> SUFFICES ASSUME SignalingAssumption PROVE Spec => []NoPollSleeps
  OBVIOUS
<1>1. PollInv => NoPollSleeps
  BY DEF PollInv, PollOK, NoPollSleeps
<1>2. QED
  BY <1>1, PollsCorrect, PTL

(* However often a poll is lost, given up or repeated, a client has each   *)
(* message once and in the order in which they were made.                  *)
THEOREM PollsInOrder == SignalingAssumption => (Spec => []PolledInOrder)
<1> SUFFICES ASSUME SignalingAssumption PROVE Spec => []PolledInOrder
  OBVIOUS
<1>1. TypeOK /\ PollInv => PolledInOrder
  <2>1. SUFFICES ASSUME TypeOK, PollInv, NEW c \in Sessions
                 PROVE  Increasing(received[c] \o response[c] \o messageQueue[c])
    BY DEF PolledInOrder, Increasing
  <2>2. QED
    BY <2>1, PollTyped, OnTheWay DEF PollInv, PollOK
<1>2. QED
  BY <1>1, TypeCorrect, PollsCorrect, PTL

-----------------------------------------------------------------------------
(* A room goes only when nobody is in it, as the comment on the close      *)
(* handler has it, until a socket fails with an error event.               *)
THEOREM RoomsGoEmpty ==
  SignalingAssumption =>
    (Spec => [][\A r \in Rooms : (errors = 0 /\ rooms[r] # NoRoom /\ rooms'[r] = NoRoom)
                  => members'[rooms[r]] = {}]_vars)
<1> DEFINE Empties == \A r \in Rooms : (errors = 0 /\ rooms[r] # NoRoom /\ rooms'[r] = NoRoom)
                        => members'[rooms[r]] = {}
<1> SUFFICES ASSUME SignalingAssumption PROVE Spec => [][Empties]_vars
  OBVIOUS
<1>1. Init => TypeOK /\ RoomInv
  BY InitType, InitRooms
<1>2. TypeOK /\ RoomInv /\ [Next]_vars => (TypeOK /\ RoomInv)'
  BY StepType, StepRooms
<1>3. TypeOK /\ RoomInv /\ [Next]_vars => [Empties]_vars
  <2> SUFFICES ASSUME TypeOK, RoomInv, Next, NEW r \in Rooms, errors = 0,
                      rooms[r] # NoRoom, rooms'[r] = NoRoom
               PROVE  members'[rooms[r]] = {}
    OBVIOUS
  <2>1. RoomsAgree /\ NoneFailed /\ rooms[r] \in Connections
    BY DEF RoomInv, TypeOK
  <2>2. /\ \A c \in Connections : RoomOf[c] \in Rooms
        /\ NoRoom \notin Connections
        /\ \A w \in Sockets : w \in Connections
        /\ \A s \in Sessions : s \in Connections
    BY DEF SignalingAssumption, Connections
  <2>3. ASSUME NEW c \in Connections, LeaveRoom(c, RoomOf[c], rooms[RoomOf[c]])
        PROVE  members'[rooms[r]] = {}
    <3>1. rooms' = [rooms EXCEPT ![RoomOf[c]] = NoRoom] /\ members[rooms[RoomOf[c]]] \ {c} = {}
      BY <2>3 DEF LeaveRoom, TypeOK
    <3>2. r = RoomOf[c]
      BY <2>2, <3>1 DEF TypeOK
    <3>3. members' = [members EXCEPT ![rooms[r]] = @ \ {c}]
      BY <2>3, <3>2 DEF LeaveRoom
    <3>4. QED
      BY <2>1, <3>1, <3>2, <3>3 DEF TypeOK
  <2>4. ASSUME NEW w \in Sockets, SocketClose(w) PROVE members'[rooms[r]] = {}
    <3>1. Alive(w) /\ LeaveRoom(w, RoomOf[w], home[w])
      BY <2>1, <2>4 DEF SocketClose, NoneFailed, Alive
    <3>2. home[w] = rooms[RoomOf[w]]
      BY <2>1, <3>1 DEF RoomsAgree
    <3>3. LeaveRoom(w, RoomOf[w], rooms[RoomOf[w]])
      BY <3>1, <3>2
    <3>4. QED
      BY <2>2, <2>3, <3>3
  <2>5. ASSUME NEW c \in Sessions, CleanupPollingSession(c) PROVE members'[rooms[r]] = {}
    <3>1. LeaveRoom(c, RoomOf[c], rooms[RoomOf[c]]) \/ rooms' = rooms
      BY <2>5 DEF CleanupPollingSession
    <3>2. rooms' # rooms
      OBVIOUS
    <3>3. QED
      BY <2>2, <2>3, <3>1, <3>2
  <2>6. ASSUME NEW c \in Connections, Join(c) PROVE FALSE
    <3>1. rooms' = [rooms EXCEPT ![RoomOf[c]] = IF rooms[RoomOf[c]] = NoRoom THEN c ELSE rooms[RoomOf[c]]]
      BY <2>6 DEF Join
    <3>2. QED
      BY <2>2, <3>1 DEF TypeOK
  <2>7. rooms' # rooms
    OBVIOUS
  <2>8. ASSUME NEW w \in Sockets, SocketConnects(w) \/ SocketDrops(w) \/ SocketError(w) PROVE FALSE
    <3>1. Join(w) \/ rooms' = rooms
      BY <2>8 DEF SocketConnects, SocketDrops, SocketError, roomVars
    <3>2. QED
      BY <2>2, <2>6, <2>7, <3>1
  <2>9. ASSUME NEW c, NEW to, Relay(c, to) PROVE FALSE
    BY <2>7, <2>9 DEF Relay, roomVars
  <2>10. ASSUME NEW c \in Sessions,
                \/ PollMessages(c) \/ PollEnds(c) \/ ResponseArrives(c)
                \/ PollFails(c) \/ ClientCloses(c) \/ ClientVanishes(c)
         PROVE  FALSE
    BY <2>7, <2>10 DEF PollMessages, PollEnds, ResponseArrives, PollFails, ClientCloses,
                       ClientVanishes, roomVars
  <2>11. ASSUME NEW c \in Sessions, PollJoin(c) PROVE FALSE
    <3>1. c \in Connections /\ Join(c)
      BY <2>2, <2>11 DEF PollJoin
    <3>2. QED
      BY <2>6, <3>1
  <2>12. QED
    BY <2>4, <2>5, <2>8, <2>9, <2>10, <2>11 DEF Next, Broadcast, Unicast, Expire, PollLeave
<1>4. QED
  BY <1>1, <1>2, <1>3, PTL DEF Spec

=============================================================================
