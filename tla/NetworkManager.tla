--------------------------- MODULE NetworkManager ---------------------------
(***************************************************************************)
(* One NetworkManager per peer (packages/network/src/network-manager.ts)   *)
(* with its WebSocket and polling transports: a signaling server is dialled,*)
(* lost, dialled again and left by dispose(); through it peers exchange    *)
(* the offers and answers that link them.  Each URL is a server with one   *)
(* room.  A dial that fails never entered the room, and backoff times are  *)
(* left out: a timer that is armed may fire at any time.                   *)
(***************************************************************************)
EXTENDS Integers, Sequences, FiniteSets

CONSTANTS
  Peers,
  Urls,          \* number of signaling URLs of every peer
  Preference,    \* Preference[p]: "auto", "websocket" or "polling"
  AutoReconnect, \* peers whose config does not turn autoReconnect off
  MaxPeers,
  Fickle,        \* bound: peers whose dials and connections may fail though
                 \* all is well, that connect again or are disposed
  Unreliable,    \* bound: servers that may go down
  MaxConnects,   \* bound: calls of connect(), those of timers included
  MaxFaults      \* bound: outages, dials that time out, connections that die

ASSUME NetworkAssumption ==
  /\ Urls \in Nat \ {0}
  /\ Preference \in [Peers -> {"auto", "websocket", "polling"}]
  /\ AutoReconnect \subseteq Peers /\ Fickle \subseteq Peers
  /\ MaxPeers \in Nat /\ MaxConnects \in Nat /\ MaxFaults \in Nat

VARIABLES
  disposed,
  currentUrlIndex,
  reconnectTimer,  \* reconnectTimer[p]: is the timer p remembers armed
  forgotten,       \* forgotten[p]: armed timers that p does not remember
  connects,        \* the calls of connect(), each with its transport
  transport,       \* transport[p]: the connect() it came from, 0 for null
  peers,           \* peers[p][q]: p's SimplePeer for q
  up,              \* servers that answer
  members,         \* transports that are in their server's room
  mail,            \* mail[c]: messages under way to transport c
  faults,
  leftover         \* history: did dispose() leave a dial or a timer behind

timers == <<reconnectTimer, forgotten>>
dials  == <<currentUrlIndex, timers, connects, transport>>
room   == <<members, mail>>
ends   == <<disposed, leftover>>
vars   == <<dials, peers, room, up, faults, ends>>

-----------------------------------------------------------------------------
Indices == 0 .. Urls - 1
Calls   == 1 .. MaxConnects

(* tried: URLs given up before this one; a transport is new only while it  *)
(* is dialled.                                                             *)
Call == [peer: Peers, kind: {"websocket", "polling"}, index: Indices, tried: Indices,
         status: {"dialing", "attached", "closed", "failed"}]

(* offer: the connect() whose peer list made the initiator make an offer.  *)
NoPeer     == [stage |-> "none"]
SimplePeer == {NoPeer} \union
  [stage: {"new", "signaled", "answered", "connected", "broken"},
   initiator: BOOLEAN, offer: Calls]

(* What an ended call was is forgotten, but for its server.                *)
Ended(call, status) == [call EXCEPT !.status = status, !.kind = "websocket", !.tried = 0]

Message == [type: {"peer-list"}, list: SUBSET Peers] \union
           [type: {"offer", "answer"}, from: Peers, offer: Calls]

Table(p) == {q \in Peers : peers[p][q] # NoPeer}

(* A transport that can send: the current one, unless it was lost.         *)
Attached(p) == transport[p] # 0 /\ connects[transport[p]].status = "attached"

Dialing(p) == {c \in DOMAIN connects :
                 connects[c].peer = p /\ connects[c].status = "dialing"}

Init ==
  /\ disposed = [p \in Peers |-> FALSE]
  /\ currentUrlIndex = [p \in Peers |-> 0]
  /\ reconnectTimer = [p \in Peers |-> FALSE]
  /\ forgotten = [p \in Peers |-> 0]
  /\ connects = <<>>
  /\ transport = [p \in Peers |-> 0]
  /\ peers = [p \in Peers |-> [q \in Peers |-> NoPeer]]
  /\ up = Indices
  /\ members = {}
  /\ mail = [c \in Calls |-> <<>>]
  /\ faults = 0
  /\ leftover = [p \in Peers |-> FALSE]

-----------------------------------------------------------------------------
(* connect(): try the URLs in turn, from the current one.                  *)

FirstKind(p) == IF Preference[p] = "polling" THEN "polling" ELSE "websocket"

StartConnect(p) ==
  /\ Len(connects) < MaxConnects
  /\ connects' = Append(connects,
       [peer |-> p, kind |-> FirstKind(p), index |-> currentUrlIndex[p], tried |-> 0,
        status |-> "dialing"])

(* The application calls connect(), again if it likes.                     *)
Connect(p) ==
  /\ ~disposed[p]
  /\ p \in Fickle \/ \A c \in DOMAIN connects : connects[c].peer # p
  /\ StartConnect(p)
  /\ UNCHANGED <<currentUrlIndex, timers, transport, peers, room, up, faults, ends>>

(* Mutant: the transport that is replaced is not closed.                   *)
AttachKeepsOld(p, c) ==
  /\ transport' = [transport EXCEPT ![p] = c]
  /\ connects' = [connects EXCEPT ![c].status = "attached"]

(* attachTransport: the transport that is replaced is closed, and says     *)
(* nothing more.  Nobody looks at disposed.                                *)
AttachTransport(p, c) ==
  /\ transport' = [transport EXCEPT ![p] = c]
  /\ connects' = [d \in DOMAIN connects |->
       IF d = c THEN [connects[d] EXCEPT !.status = "attached", !.tried = 0]
       ELSE IF d = transport[p] THEN Ended(connects[d], "closed")
       ELSE connects[d]]

(* Mutant: the WebSocket's handlers are attached after its first message.  *)
DialSucceedsEarly(c) ==
  LET p == connects[c].peer
      index == connects[c].index
  IN  /\ connects[c].status = "dialing"
      /\ index \in up
      /\ AttachTransport(p, c)
      /\ currentUrlIndex' = [currentUrlIndex EXCEPT ![p] = index]
      /\ members' = members \union {c}
      /\ UNCHANGED <<mail, timers, peers, up, faults, ends>>

(* The server takes the transport in its room and answers with the list of *)
(* the peers there.  A WebSocket brings the list in a message of its own;  *)
(* polling has it in the answer and gives it to its message handler in a   *)
(* microtask, which runs before the one that attaches the handler.         *)
DialSucceeds(c) ==
  LET p == connects[c].peer
      index == connects[c].index
  IN  /\ connects[c].status = "dialing"
      /\ index \in up
      /\ AttachTransport(p, c)
      /\ currentUrlIndex' = [currentUrlIndex EXCEPT ![p] = index]
      /\ members' = members \union {c}
      /\ mail' = IF connects[c].kind = "polling" THEN mail
                 ELSE [mail EXCEPT ![c] = <<[type |-> "peer-list",
                        list |-> {connects[d].peer :
                          d \in {d \in members : connects[d].index = index}}]>>]
      /\ UNCHANGED <<timers, peers, up, faults, ends>>

(* After a failed dial: by polling at the same URL, or at the next URL, or *)
(* nowhere: connect() throws and nothing is scheduled.                     *)
NextDial(c) ==
  LET call == connects[c]
      p == call.peer
  IN  IF call.kind = "websocket" /\ Preference[p] = "auto"
      THEN [call EXCEPT !.kind = "polling"]
      ELSE IF call.tried + 1 < Urls
      THEN [call EXCEPT !.tried = @ + 1, !.kind = FirstKind(p),
                        !.index = (currentUrlIndex[p] + call.tried + 1) % Urls]
      ELSE [Ended(call, "failed") EXCEPT !.index = 0]

(* Mutant: the transport is attached before its dial is awaited.           *)
DialFailsAttached(c) ==
  /\ connects[c].status = "dialing"
  /\ \/ connects[c].index \notin up /\ UNCHANGED faults
     \/ /\ connects[c].index \in up /\ connects[c].peer \in Fickle
        /\ faults < MaxFaults /\ faults' = faults + 1
  /\ connects' = [connects EXCEPT ![c] = NextDial(c)]
  /\ transport' = [transport EXCEPT ![connects[c].peer] = c]
  /\ UNCHANGED <<currentUrlIndex, timers, peers, room, up, ends>>

(* Refused by a server that is down; or a timeout, a proxy, a lost answer. *)
DialFails(c) ==
  /\ connects[c].status = "dialing"
  /\ \/ connects[c].index \notin up /\ UNCHANGED faults
     \/ /\ connects[c].index \in up /\ connects[c].peer \in Fickle
        /\ faults < MaxFaults /\ faults' = faults + 1
  /\ connects' = [connects EXCEPT ![c] = NextDial(c)]
  /\ UNCHANGED <<currentUrlIndex, timers, transport, peers, room, up, ends>>

-----------------------------------------------------------------------------
(* A transport is lost and dialled again; dispose().                       *)

(* scheduleReconnect: a timer that is armed already is forgotten, not      *)
(* cleared.                                                                *)
ScheduleReconnect(p) ==
  /\ currentUrlIndex' = [currentUrlIndex EXCEPT ![p] = (@ + 1) % Urls]
  /\ reconnectTimer' = [reconnectTimer EXCEPT ![p] = TRUE]
  /\ forgotten' = IF reconnectTimer[p] THEN [forgotten EXCEPT ![p] = @ + 1] ELSE forgotten

(* Mutant: a polling session that is gone calls no close handler.          *)
TransportLostSilently(p) ==
  /\ Attached(p)
  /\ \/ /\ connects[transport[p]].kind = "websocket" /\ connects[transport[p]].index \notin up
        /\ UNCHANGED faults
     \/ /\ p \in Fickle /\ connects[transport[p]].index \in up
        /\ faults < MaxFaults /\ faults' = faults + 1
  /\ connects' = [connects EXCEPT ![transport[p]] = Ended(@, "closed")]
  /\ IF ~disposed[p] /\ p \in AutoReconnect /\ connects[transport[p]].kind = "websocket"
     THEN ScheduleReconnect(p)
     ELSE UNCHANGED <<currentUrlIndex, timers>>
  /\ UNCHANGED <<transport, peers, room, up, ends>>

(* The close handler: the socket closed, or the server that is polled says *)
(* the session is gone.  A server that does not answer is polled on.       *)
TransportLost(p) ==
  /\ Attached(p)
  /\ \/ /\ connects[transport[p]].kind = "websocket" /\ connects[transport[p]].index \notin up
        /\ UNCHANGED faults
     \/ /\ p \in Fickle /\ connects[transport[p]].index \in up
        /\ faults < MaxFaults /\ faults' = faults + 1
  /\ connects' = [connects EXCEPT ![transport[p]] = Ended(@, "closed")]
  /\ IF ~disposed[p] /\ p \in AutoReconnect
     THEN ScheduleReconnect(p)
     ELSE UNCHANGED <<currentUrlIndex, timers>>
  /\ UNCHANGED <<transport, peers, room, up, ends>>

(* One of the armed timers fires, the remembered one or a forgotten one.   *)
TimerFires(p) ==
  /\ \/ reconnectTimer[p] /\ reconnectTimer' = [reconnectTimer EXCEPT ![p] = FALSE]
        /\ UNCHANGED forgotten
     \/ forgotten[p] > 0 /\ forgotten' = [forgotten EXCEPT ![p] = @ - 1]
        /\ UNCHANGED reconnectTimer
  /\ StartConnect(p)
  /\ UNCHANGED <<currentUrlIndex, transport, peers, room, up, faults, ends>>

(* Mutant: dispose() leaves the timer armed.                               *)
DisposeKeepsTimer(p) ==
  /\ p \in Fickle /\ ~disposed[p]
  /\ disposed' = [disposed EXCEPT ![p] = TRUE]
  /\ leftover' = [leftover EXCEPT ![p] = Dialing(p) # {} \/ forgotten[p] > 0]
  /\ peers' = [peers EXCEPT ![p] = [q \in Peers |-> NoPeer]]
  /\ connects' = [c \in DOMAIN connects |->
       IF c = transport[p] THEN Ended(connects[c], "closed") ELSE connects[c]]
  /\ transport' = [transport EXCEPT ![p] = 0]
  /\ UNCHANGED <<currentUrlIndex, timers, room, up, faults>>

(* dispose(): the remembered timer, the peers and the transport go; a dial *)
(* that is under way goes on.                                              *)
Dispose(p) ==
  /\ p \in Fickle /\ ~disposed[p]
  /\ disposed' = [disposed EXCEPT ![p] = TRUE]
  /\ reconnectTimer' = [reconnectTimer EXCEPT ![p] = FALSE]
  /\ leftover' = [leftover EXCEPT ![p] = Dialing(p) # {} \/ forgotten[p] > 0]
  /\ peers' = [peers EXCEPT ![p] = [q \in Peers |-> NoPeer]]
  /\ connects' = [c \in DOMAIN connects |->
       IF c = transport[p] THEN Ended(connects[c], "closed") ELSE connects[c]]
  /\ transport' = [transport EXCEPT ![p] = 0]
  /\ UNCHANGED <<currentUrlIndex, forgotten, room, up, faults>>

(* The server learns that a transport is gone.                             *)
ServerDrops(c) ==
  /\ c \in members /\ connects[c].status = "closed"
  /\ members' = members \ {c}
  /\ mail' = [mail EXCEPT ![c] = <<>>]
  /\ connects' = [connects EXCEPT ![c].index = 0]
  /\ UNCHANGED <<currentUrlIndex, timers, transport, peers, up, faults, ends>>

(* A server goes down, which its clients notice, or comes back.            *)
Outage(u) ==
  /\ u \in up \intersect Unreliable /\ faults < MaxFaults
  /\ up' = up \ {u}
  /\ faults' = faults + 1
  /\ UNCHANGED <<dials, peers, room, ends>>

Recovery(u) ==
  /\ u \notin up
  /\ up' = up \union {u}
  /\ UNCHANGED <<dials, peers, room, faults, ends>>

-----------------------------------------------------------------------------
(* Offers and answers, which carry their ICE candidates with them.         *)

(* createPeer, for each of remote in some order: not for one that is in    *)
(* the table, nor when the table is full.                                  *)
CreatePeers(p, remote, initiator, offer) ==
  \E S \in SUBSET (remote \ Table(p)) :
    /\ Cardinality(Table(p) \union S) <= MaxPeers
    /\ S = remote \ Table(p) \/ Cardinality(Table(p) \union S) = MaxPeers
    /\ peers' = [peers EXCEPT ![p] = [q \in Peers |->
         IF q \in S THEN [stage |-> "new", initiator |-> initiator, offer |-> offer]
         ELSE peers[p][q]]]

(* An answer to another offer than the one that waits breaks the peer.     *)
Signal(p, q, offer) ==
  peers' = [peers EXCEPT ![p][q] =
    IF @ = NoPeer THEN NoPeer
    ELSE [@ EXCEPT !.stage =
           IF @ = "signaled" /\ peers[p][q].initiator /\ peers[p][q].offer = offer
           THEN "answered" ELSE "broken"]]

HandleSignalingMessage(c) ==
  LET p == connects[c].peer
      m == Head(mail[c])
  IN  /\ connects[c].status = "attached" /\ mail[c] # <<>>
      /\ mail' = [mail EXCEPT ![c] = Tail(@)]
      /\ \/ m.type = "peer-list" /\ CreatePeers(p, m.list \ {p}, TRUE, c)
         \/ m.type = "offer" /\ CreatePeers(p, {m.from}, FALSE, m.offer)
         \/ m.type = "answer" /\ Signal(p, m.from, m.offer)
      /\ UNCHANGED <<dials, members, up, faults, ends>>

(* Transports of q in the room that p's transport is in.                   *)
Targets(p, q) ==
  {d \in members : connects[d].peer = q /\ connects[d].index = connects[transport[p]].index}

(* The peer's signal event: the description goes out by the transport of   *)
(* the moment, if that is open, and to one transport of the other, if one  *)
(* is in the room.                                                         *)
SendSignal(p, q) ==
  LET m == [type |-> IF peers[p][q].initiator THEN "offer" ELSE "answer",
            from |-> p, offer |-> peers[p][q].offer]
  IN  /\ peers[p][q].stage = "new"
      /\ peers' = [peers EXCEPT ![p][q].stage = "signaled"]
      /\ IF Attached(p) /\ connects[transport[p]].index \in up /\ Targets(p, q) # {}
         THEN \E d \in Targets(p, q) : mail' = [mail EXCEPT ![d] = Append(@, m)]
         ELSE UNCHANGED mail
      /\ UNCHANGED <<dials, members, up, faults, ends>>

(* Two ends of one WebRTC connection.                                      *)
Mates(p, q) ==
  /\ peers[p][q] # NoPeer /\ peers[q][p] # NoPeer
  /\ peers[p][q].offer = peers[q][p].offer
  /\ peers[p][q].initiator # peers[q][p].initiator

(* The data channel opens.                                                 *)
ChannelOpens(p, q) ==
  /\ Mates(p, q)
  /\ peers[p][q].stage = "answered" /\ peers[q][p].stage = "signaled"
  /\ peers' = [peers EXCEPT ![p][q].stage = "connected", ![q][p].stage = "connected"]
  /\ UNCHANGED <<dials, room, up, faults, ends>>

(* The other end is gone, or refuses: ICE will fail.  An initiator that    *)
(* has no answer waits for ever.                                           *)
Dying(p, q) ==
  \/ peers[p][q].stage = "broken"
  \/ /\ peers[p][q].stage \in {"connected", "answered", "signaled"}
     /\ peers[p][q].stage = "signaled" => ~peers[p][q].initiator
     /\ ~Mates(p, q)

(* The close event, after an error or by itself.                           *)
PeerCloses(p, q) ==
  /\ \/ Dying(p, q) /\ UNCHANGED faults
     \/ /\ peers[p][q].stage \in {"connected", "answered"} /\ p \in Fickle
        /\ faults < MaxFaults /\ faults' = faults + 1
  /\ peers' = [peers EXCEPT ![p][q] = NoPeer]
  /\ UNCHANGED <<dials, room, up, ends>>

-----------------------------------------------------------------------------
Next ==
  \/ \E p \in Peers :
       \/ Connect(p) \/ TransportLost(p) \/ TimerFires(p) \/ Dispose(p)
       \/ \E q \in Peers \ {p} : SendSignal(p, q) \/ ChannelOpens(p, q) \/ PeerCloses(p, q)
  \/ \E c \in DOMAIN connects :
       DialSucceeds(c) \/ DialFails(c) \/ ServerDrops(c) \/ HandleSignalingMessage(c)
  \/ \E u \in Indices : Outage(u) \/ Recovery(u)

Spec == Init /\ [][Next]_vars

(* What the browser and the servers do by themselves: a dial ends, a       *)
(* server that is down is noticed and comes back, timers fire, messages    *)
(* are handled, descriptions are made, connections open or are given up.   *)
(* The bounds make the steps of the others few, so fairness to all of      *)
(* these together lets each of them happen.                                *)
System ==
  \/ \E p \in Peers :
       \/ TransportLost(p) /\ connects[transport[p]].index \notin up
       \/ TimerFires(p)
       \/ \E q \in Peers \ {p} :
            SendSignal(p, q) \/ ChannelOpens(p, q) \/ (Dying(p, q) /\ PeerCloses(p, q))
  \/ \E c \in DOMAIN connects :
       DialSucceeds(c) \/ DialFails(c) \/ ServerDrops(c) \/ HandleSignalingMessage(c)
  \/ \E u \in Indices : Recovery(u)

Fairness == WF_vars(System)

FairSpec == Spec /\ Fairness

-----------------------------------------------------------------------------
(* Every variable has its type, and the transport a manager keeps was      *)
(* dialled with success: it is open or was lost, never still being dialled *)
(* or given up (attachTransport runs only after the await of the dial).    *)
TypeOK ==
  /\ disposed \in [Peers -> BOOLEAN] /\ leftover \in [Peers -> BOOLEAN]
  /\ currentUrlIndex \in [Peers -> Indices]
  /\ reconnectTimer \in [Peers -> BOOLEAN]
  /\ forgotten \in [Peers -> Nat]
  /\ connects \in Seq(Call) /\ Len(connects) <= MaxConnects
  /\ transport \in [Peers -> 0 .. MaxConnects]
  /\ \A p \in Peers : transport[p] # 0 =>
       /\ transport[p] \in DOMAIN connects
       /\ connects[transport[p]].peer = p
       /\ connects[transport[p]].status \in {"attached", "closed"}
  /\ peers \in [Peers -> [Peers -> SimplePeer]]
  /\ up \subseteq Indices /\ members \subseteq DOMAIN connects
  /\ mail \in [Calls -> Seq(Message)]
  /\ faults \in 0 .. MaxFaults

(* However connects, losses and timers cross, a peer has no open transport *)
(* but the current one: attachTransport closes what it replaces, and a     *)
(* lost one was closed by the other side.                                  *)
OneTransport ==
  \A c \in DOMAIN connects :
    connects[c].status = "attached" => transport[connects[c].peer] = c

Trying(p) == reconnectTimer[p] \/ forgotten[p] > 0 \/ Dialing(p) # {}

(* After dispose() there is no transport, no peer, no timer and no dial,   *)
(* and none comes back, unless a dial was under way or a timer had been    *)
(* forgotten: those connect a disposed manager again.                      *)
DisposedIsClosed ==
  \A p \in Peers : disposed[p] /\ ~leftover[p] =>
    transport[p] = 0 /\ Table(p) = {} /\ ~Trying(p)

Disconnected(p) == p \in AutoReconnect /\ ~disposed[p] /\ transport[p] # 0 /\ ~Attached(p)

(* A manager that has lost its transport is about to get another: a timer  *)
(* is armed or a dial is under way, unless one round over all URLs failed, *)
(* whose connect() throws to nobody and schedules nothing.                 *)
KeepsTrying ==
  \A p \in Peers : Disconnected(p) =>
    Trying(p) \/ \E c \in DOMAIN connects :
                   connects[c].peer = p /\ connects[c].status = "failed"

(* The guide's promise, docs/webrtc-signaling-fallback.md:97: "If all      *)
(* servers fail, it falls back to offline mode and retries in the          *)
(* background."                                                            *)
RetriesInBackground == \A p \in Peers : Disconnected(p) => Trying(p)

(* Two peers that come by WebSocket to one server, each for the first      *)
(* time, get connected, if nothing fails: exactly one of them has the      *)
(* other in its peer list and makes the offer.                             *)
OnlyCall(p, c) == {d \in DOMAIN connects : connects[d].peer = p} = {c}
Arrived(pair) ==
  \E c, d \in DOMAIN connects :
    /\ pair = {connects[c].peer, connects[d].peer}
    /\ \A e \in {c, d} : /\ OnlyCall(connects[e].peer, e)
                         /\ connects[e].kind = "websocket"
                         /\ connects[e].status = "attached"
    /\ connects[c].index = connects[d].index
Met(pair) == \A p \in pair : \A q \in pair \ {p} : peers[p][q].stage = "connected"
FirstMeeting ==
  \A pair \in {pair \in SUBSET Peers : Cardinality(pair) = 2} :
    Arrived(pair) ~> (Met(pair) \/ faults > 0 \/ (\E p \in pair : disposed[p]
                        \/ \A c \in DOMAIN connects : ~OnlyCall(p, c)))

=============================================================================
