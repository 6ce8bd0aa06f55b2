-------------------------- MODULE SignalingServer --------------------------
(***************************************************************************)
(* The signaling server (infra/signaling-server/src/server.ts): rooms of   *)
(* peers that come over a WebSocket or by HTTP long-polling, the relay of  *)
(* their messages, and the clients and the network as far as the server    *)
(* sees them.  An action is one event handler of the server, which runs to *)
(* completion, or one event of a client or of the network.                 *)
(***************************************************************************)
EXTENDS Naturals, Sequences, FiniteSets

CONSTANTS
  Sockets,      \* WebSocket connections, each used once
  Sessions,     \* polling sessions, each used once
  Rooms,
  Peers,
  PeerOf,       \* the peer a connection is of
  RoomOf,       \* the room it joins
  NoRoom,       \* rooms.get() has nothing
  MaxMessages,  \* bound: messages the peers send
  MaxErrors,    \* bound: sockets that fail with an error event
  MaxDrops      \* bound: requests and responses of polling lost

Connections == Sockets \union Sessions

ASSUME SignalingAssumption ==
  /\ IsFiniteSet(Connections)
  /\ Sockets \intersect Sessions = {}
  /\ PeerOf \in [Connections -> Peers]
  /\ RoomOf \in [Connections -> Rooms]
  /\ NoRoom \notin Connections
  /\ {MaxMessages, MaxErrors, MaxDrops} \subseteq Nat

VARIABLES
  rooms,            \* rooms[r]: its Set object, named by who had it made
  members,          \* members[s]: the entries in Set object s
  home,             \* home[w]: the Set object the handlers of w captured
  joined,           \* joined[c]: place in the order of joins (a Set keeps it)
  socket,           \* socket[w]: state of a WebSocket at the server
  session,          \* session[c]: is c in pollingSessions
  messageQueue,     \* messageQueue[c]: messages waiting for a poll
  pendingResponse,  \* pendingResponse[c]: "dead" if its client is not there
  client,           \* client[c]: the polling client
  response,         \* response[c]: messages of the response on its way
  received,         \* received[c]: messages the client of c got
  messages,         \* messages made so far, which numbers them
  sends, errors, drops,
  told              \* history: told[c], who was there when c joined

roomVars   == <<rooms, members, home, joined, told>>
pollVars   == <<messageQueue, pendingResponse, client, response>>
boundVars  == <<sends, errors, drops>>
vars == <<roomVars, socket, session, pollVars, received, messages, boundVars>>

-----------------------------------------------------------------------------
Init ==
  /\ rooms = [r \in Rooms |-> NoRoom]
  /\ members = [s \in Connections |-> {}]
  /\ home = [w \in Sockets |-> NoRoom]
  /\ joined = [c \in Connections |-> 0]
  /\ socket = [w \in Sockets |-> "new"]
  /\ session = [c \in Sessions |-> "new"]
  /\ messageQueue = [c \in Sessions |-> <<>>]
  /\ pendingResponse = [c \in Sessions |-> "none"]
  /\ client = [c \in Sessions |-> "new"]
  /\ response = [c \in Sessions |-> <<>>]
  /\ received = [c \in Sessions |-> <<>>]
  /\ messages = 0
  /\ sends = 0 /\ errors = 0 /\ drops = 0
  /\ told = [c \in Connections |-> {}]

(* Everyone in room r whose peer is not p, or nobody if there is no room.  *)
Others(r, p) ==
  IF rooms[r] = NoRoom THEN {} ELSE {c \in members[rooms[r]] : PeerOf[c] # p}

(* The first entry of peer p in room r, as a set.                          *)
FirstOf(r, p) ==
  LET all == IF rooms[r] = NoRoom THEN {} ELSE {c \in members[rooms[r]] : PeerOf[c] = p}
  IN  {c \in all : \A d \in all : joined[c] <= joined[d]}

(* Mutant: a message is put in the queue although a poll waits for it.     *)
DeliverQueues(to, ended) ==
  /\ messages' = messages + 1
  /\ messageQueue' = [c \in Sessions |->
       IF c \in to THEN Append(messageQueue[c], messages') ELSE messageQueue[c]]
  /\ pendingResponse' = [c \in Sessions |->
       IF c \in ended THEN "none" ELSE pendingResponse[c]]
  /\ UNCHANGED <<client, response>>

(* deliverToPeer and enqueuePollingMessage for each of the entries in to:  *)
(* a waiting poll is answered with the message, else the session queues    *)
(* it.  What an open socket is sent is not followed any further.  The polls  *)
(* of the sessions in ended wait no more.                                  *)
Deliver(to, ended) ==
  LET waiting == {c \in to \intersect Sessions : pendingResponse[c] # "none"}
      answers == {c \in waiting : pendingResponse[c] = "waiting"}
      queues  == (to \intersect Sessions) \ waiting
  IN  /\ messages' = messages + 1
      /\ messageQueue' = [c \in Sessions |->
           IF c \in queues THEN Append(messageQueue[c], messages') ELSE messageQueue[c]]
      /\ pendingResponse' = [c \in Sessions |->
           IF c \in waiting \union ended THEN "none" ELSE pendingResponse[c]]
      /\ client' = [c \in Sessions |-> IF c \in answers THEN "answered" ELSE client[c]]
      /\ response' = [c \in Sessions |->
           IF c \in answers THEN <<messages'>> ELSE response[c]]

-----------------------------------------------------------------------------
(* Joining.                                                                *)

(* Mutant: the newcomer is told of the peers that come over a socket only.  *)
JoinListsSockets(c) ==
  LET r == RoomOf[c]
      s == IF rooms[r] = NoRoom THEN c ELSE rooms[r]
  IN  /\ rooms' = [rooms EXCEPT ![r] = s]
      /\ members' = [members EXCEPT ![s] = @ \union {c}]
      /\ joined' = [joined EXCEPT ![c] =
           1 + Cardinality({d \in Connections : joined[d] # 0})]
      /\ told' = [told EXCEPT ![c] = Others(r, PeerOf[c]) \intersect Sockets]

(* The room is made if need be; the list of peers goes to the newcomer.    *)
Join(c) ==
  LET r == RoomOf[c]
      s == IF rooms[r] = NoRoom THEN c ELSE rooms[r]
  IN  /\ rooms' = [rooms EXCEPT ![r] = s]
      /\ members' = [members EXCEPT ![s] = @ \union {c}]
      /\ joined' = [joined EXCEPT ![c] =
           1 + Cardinality({d \in Connections : joined[d] # 0})]
      /\ told' = [told EXCEPT ![c] = Others(r, PeerOf[c])]

(* Mutant: the handlers capture the room before it has been made.          *)
SocketConnectsEarly(w) ==
  /\ socket[w] = "new"
  /\ socket' = [socket EXCEPT ![w] = "open"]
  /\ Join(w)
  /\ home' = [home EXCEPT ![w] = rooms[RoomOf[w]]]
  /\ UNCHANGED <<session, pollVars, received, messages, boundVars>>

SocketConnects(w) ==
  /\ socket[w] = "new"
  /\ socket' = [socket EXCEPT ![w] = "open"]
  /\ Join(w)
  /\ home' = [home EXCEPT ![w] = rooms'[RoomOf[w]]]
  /\ UNCHANGED <<session, pollVars, received, messages, boundVars>>

(* handlePollJoin; the client may be gone before it learns its session.    *)
PollJoin(c) ==
  /\ session[c] = "new"
  /\ session' = [session EXCEPT ![c] = "live"]
  /\ client' = [client EXCEPT ![c] = "ready"]
  /\ Join(c)
  /\ UNCHANGED <<home, socket, messageQueue, pendingResponse, response, received,
                 messages, boundVars>>

-----------------------------------------------------------------------------
(* Leaving.                                                                *)

(* The waiting response of a session that leaves, if it has one, ends.     *)
EndPoll(c) ==
  /\ pendingResponse' = [d \in Sessions |-> IF d = c THEN "none" ELSE pendingResponse[d]]
  /\ UNCHANGED <<messageQueue, client, response>>

(* Mutant: a room is deleted when one peer is left in it.                  *)
LeaveRoomEarly(c, r, s) ==
  /\ members' = [members EXCEPT ![s] = @ \ {c}]
  /\ IF Cardinality(members[s] \ {c}) <= 1
     THEN /\ rooms' = [rooms EXCEPT ![r] = NoRoom]
          /\ EndPoll(c)
          /\ UNCHANGED messages
     ELSE Deliver(Others(r, PeerOf[c]) \ {c}, {c}) /\ UNCHANGED rooms

(* c goes out of Set object s: if that leaves it empty, the room goes,     *)
(* whichever Set it has now; else peer-left is sent.                       *)
LeaveRoom(c, r, s) ==
  /\ members' = [members EXCEPT ![s] = @ \ {c}]
  /\ IF members[s] \ {c} = {}
     THEN /\ rooms' = [rooms EXCEPT ![r] = NoRoom]
          /\ EndPoll(c)
          /\ UNCHANGED messages
     ELSE Deliver(Others(r, PeerOf[c]) \ {c}, {c}) /\ UNCHANGED rooms

(* The client or the network closes the connection; the server has not     *)
(* been told.                                                              *)
SocketDrops(w) ==
  /\ socket[w] = "open"
  /\ socket' = [socket EXCEPT ![w] = "closing"]
  /\ UNCHANGED <<roomVars, session, pollVars, received, messages, boundVars>>

(* The error event: the entry goes, the Set stays, and close comes later.  *)
SocketError(w) ==
  /\ socket[w] \in {"open", "closing"}
  /\ errors < MaxErrors
  /\ errors' = errors + 1
  /\ socket' = [socket EXCEPT ![w] = "failed"]
  /\ members' = [members EXCEPT ![home[w]] = @ \ {w}]
  /\ UNCHANGED <<rooms, home, joined, told, session, pollVars, received, messages,
                 sends, drops>>

SocketClose(w) ==
  /\ socket[w] \in {"closing", "failed"}
  /\ socket' = [socket EXCEPT ![w] = "closed"]
  /\ LeaveRoom(w, RoomOf[w], home[w])
  /\ UNCHANGED <<home, joined, told, session, received, boundVars>>

(* Mutant: an expired session stays in its room.                           *)
CleanupLeavesEntry(c) ==
  /\ session[c] = "live"
  /\ session' = [session EXCEPT ![c] = "gone"]
  /\ EndPoll(c)
  /\ UNCHANGED <<roomVars, messages>>

(* cleanupPollingSession: a response that was waiting ends (nobody waits   *)
(* for it), and the room it looks at is the one that has the id now.       *)
CleanupPollingSession(c) ==
  LET r == RoomOf[c] IN
  /\ session[c] = "live"
  /\ session' = [session EXCEPT ![c] = "gone"]
  /\ IF rooms[r] # NoRoom
     THEN LeaveRoom(c, r, rooms[r])
     ELSE EndPoll(c) /\ UNCHANGED <<rooms, members, messages>>
  /\ UNCHANGED <<home, joined, told>>

(* The interval finds no activity for SESSION_TIMEOUT_MS, which is longer  *)
(* than a response can wait.                                               *)
Expire(c) ==
  /\ pendingResponse[c] = "none"
  /\ CleanupPollingSession(c)
  /\ UNCHANGED <<socket, received, boundVars>>

-----------------------------------------------------------------------------
(* Relaying.                                                               *)

Present(c) ==
  IF c \in Sockets THEN socket[c] = "open"
  ELSE session[c] = "live" /\ client[c] # "gone"

(* relayMessage, for a message of a socket or of handlePollSend.           *)
Relay(c, to) ==
  /\ Present(c)
  /\ sends < MaxMessages
  /\ sends' = sends + 1
  /\ Deliver(to, {})
  /\ UNCHANGED <<roomVars, socket, session, received, errors, drops>>

Unicast(c, p) == Relay(c, FirstOf(RoomOf[c], p))

Broadcast(c) == Relay(c, Others(RoomOf[c], PeerOf[c]))

-----------------------------------------------------------------------------
(* Polling.                                                                *)

(* Mutant: the queue is answered but not emptied.                          *)
TakeQueueCopies(c) ==
  /\ response' = [response EXCEPT ![c] = messageQueue[c]]
  /\ client' = [client EXCEPT ![c] = "answered"]
  /\ UNCHANGED <<messageQueue, pendingResponse>>

TakeQueue(c) ==
  /\ response' = [response EXCEPT ![c] = messageQueue[c]]
  /\ messageQueue' = [messageQueue EXCEPT ![c] = <<>>]
  /\ client' = [client EXCEPT ![c] = "answered"]
  /\ UNCHANGED pendingResponse

(* handlePollMessages, for a client that asks again: 404 ends its loop.    *)
PollMessages(c) ==
  /\ client[c] = "ready"
  /\ \/ /\ session[c] # "live"
        /\ client' = [client EXCEPT ![c] = "gone"]
        /\ UNCHANGED <<messageQueue, pendingResponse, response>>
     \/ /\ session[c] = "live"
        /\ messageQueue[c] # <<>>
        /\ TakeQueue(c)
     \/ /\ session[c] = "live"
        /\ messageQueue[c] = <<>>
        /\ pendingResponse' = [pendingResponse EXCEPT ![c] = "waiting"]
        /\ client' = [client EXCEPT ![c] = "asking"]
        /\ UNCHANGED <<messageQueue, response>>
  /\ UNCHANGED <<roomVars, socket, session, received, messages, boundVars>>

(* The long poll's timer, or the close of a response nobody waits for.     *)
PollEnds(c) ==
  /\ pendingResponse[c] # "none"
  /\ pendingResponse' = [pendingResponse EXCEPT ![c] = "none"]
  /\ client' = [client EXCEPT ![c] =
       IF pendingResponse[c] = "waiting" THEN "answered" ELSE @]
  /\ UNCHANGED <<roomVars, socket, session, messageQueue, response, received,
                 messages, boundVars>>

ResponseArrives(c) ==
  /\ client[c] = "answered"
  /\ client' = [client EXCEPT ![c] = "ready"]
  /\ received' = [received EXCEPT ![c] = @ \o response[c]]
  /\ response' = [response EXCEPT ![c] = <<>>]
  /\ UNCHANGED <<roomVars, socket, session, messageQueue, pendingResponse,
                 messages, boundVars>>

(* The client stops waiting for the response to its poll.                  *)
Abandon(c, next) ==
  /\ client' = [client EXCEPT ![c] = next]
  /\ pendingResponse' = [pendingResponse EXCEPT ![c] =
       IF @ = "waiting" THEN "dead" ELSE @]
  /\ response' = [response EXCEPT ![c] = <<>>]

(* The network loses a poll or its response; the client will ask again.    *)
PollFails(c) ==
  /\ client[c] \in {"asking", "answered"}
  /\ drops < MaxDrops
  /\ drops' = drops + 1
  /\ Abandon(c, "ready")
  /\ UNCHANGED <<roomVars, socket, session, messageQueue, received, messages,
                 sends, errors>>

(* PollingTransport.close sends a last request, which may be lost.         *)
ClientCloses(c) ==
  /\ client[c] \in {"ready", "asking", "answered"}
  /\ Abandon(c, "leaving")
  /\ UNCHANGED <<roomVars, socket, session, messageQueue, received, messages,
                 boundVars>>

ClientVanishes(c) ==
  /\ client[c] \in {"ready", "asking", "answered", "leaving"}
  /\ Abandon(c, "gone")
  /\ UNCHANGED <<roomVars, socket, session, messageQueue, received, messages,
                 boundVars>>

PollLeave(c) ==
  /\ client[c] = "leaving"
  /\ session[c] = "live"
  /\ CleanupPollingSession(c)
  /\ UNCHANGED <<socket, received, boundVars>>

-----------------------------------------------------------------------------
Next ==
  \/ \E w \in Sockets :
       \/ SocketConnects(w) \/ SocketDrops(w) \/ SocketError(w) \/ SocketClose(w)
  \/ \E c \in Connections :
       \/ Broadcast(c)
       \/ \E p \in Peers \ {PeerOf[c]} : Unicast(c, p)
  \/ \E c \in Sessions :
       \/ PollJoin(c) \/ PollMessages(c) \/ PollEnds(c) \/ ResponseArrives(c)
       \/ PollFails(c) \/ ClientCloses(c) \/ ClientVanishes(c) \/ PollLeave(c)
       \/ Expire(c)

(* The server runs its timers and learns of closed connections, responses  *)
(* arrive, and a client that polls goes on polling.                        *)
Fairness ==
  /\ \A w \in Sockets : WF_vars(SocketClose(w))
  /\ \A c \in Sessions :
       /\ WF_vars(PollMessages(c)) /\ WF_vars(PollEnds(c)) /\ WF_vars(ResponseArrives(c))
       /\ WF_vars(PollLeave(c)) /\ WF_vars(client[c] = "gone" /\ Expire(c))

Spec == Init /\ [][Next]_vars

FairSpec == Spec /\ Fairness

-----------------------------------------------------------------------------
(* Properties.                                                             *)

(* Everything stays within its type, and the handlers of a socket have     *)
(* captured a Set object as soon as it is open.                            *)
TypeOK ==
  /\ rooms \in [Rooms -> Connections \union {NoRoom}]
  /\ members \in [Connections -> SUBSET Connections]
  /\ home \in [Sockets -> Connections \union {NoRoom}]
  /\ \A w \in Sockets : socket[w] # "new" => home[w] # NoRoom
  /\ joined \in [Connections -> Nat]
  /\ socket \in [Sockets -> {"new", "open", "closing", "failed", "closed"}]
  /\ session \in [Sessions -> {"new", "live", "gone"}]
  /\ messageQueue \in [Sessions -> Seq(Nat)]
  /\ pendingResponse \in [Sessions -> {"none", "waiting", "dead"}]
  /\ client \in [Sessions -> {"new", "ready", "asking", "answered", "leaving", "gone"}]
  /\ response \in [Sessions -> Seq(Nat)]
  /\ received \in [Sessions -> Seq(Nat)]
  /\ {messages, sends, errors, drops} \subseteq Nat
  /\ told \in [Connections -> SUBSET Connections]

InRoom(c) == rooms[RoomOf[c]] # NoRoom /\ c \in members[rooms[RoomOf[c]]]

Alive(c) == IF c \in Sockets THEN socket[c] \in {"open", "closing"} ELSE session[c] = "live"

(* A room holds exactly the sockets and sessions that have joined it and   *)
(* have not left: whoever else comes and goes, nobody is lost with a       *)
(* deleted room and nobody stays in one (connection, close, error, the     *)
(* poll handlers).  Not so once a socket has failed: see OnlyEmptyRoomsGo. *)
RoomsHoldTheLiving ==
  errors = 0 => \A c \in Connections : InRoom(c) <=> Alive(c)

(* Of two members of a room that are different peers exactly one was told  *)
(* of the other, so that one of the two makes the offer and not both.      *)
Introduced ==
  \A c, d \in Connections :
    (InRoom(c) /\ InRoom(d) /\ RoomOf[c] = RoomOf[d] /\ PeerOf[c] # PeerOf[d])
      => (d \in told[c]) # (c \in told[d])

(* A polling client gets messages in the order they were made and none     *)
(* twice, however its polls fail and are repeated (handlePollMessages,     *)
(* enqueuePollingMessage).                                                 *)
PolledInOrder ==
  \A c \in Sessions :
    LET all == received[c] \o response[c] \o messageQueue[c]
    IN  \A i, j \in 1 .. Len(all) : i < j => all[i] < all[j]

(* No poll is kept waiting while there is something for it.                *)
NoPollSleeps ==
  \A c \in Sessions : pendingResponse[c] # "none" => messageQueue[c] = <<>>

(* A peer that is gone, with or without saying so, leaves its room.        *)
Departed ==
  /\ \A w \in Sockets : socket[w] \in {"closing", "failed"} ~> ~InRoom(w)
  /\ \A c \in Sessions : client[c] \in {"leaving", "gone"} ~> ~InRoom(c)

(* As the comment in the close handler has it, "Clean up empty rooms": a   *)
(* room goes only when nobody is in it.  The close that follows an error   *)
(* looks at the Set the socket joined, and deletes the one there is now.   *)
OnlyEmptyRoomsGo ==
  [][\A r \in Rooms : (rooms[r] # NoRoom /\ rooms'[r] = NoRoom)
       => members'[rooms[r]] = {}]_vars

=============================================================================
