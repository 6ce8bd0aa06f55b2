--------------------------- MODULE NetworkProofs ---------------------------
(***************************************************************************)
(* Theorems about NetworkManager, for all sets of peers, numbers of URLs,  *)
(* preferences and values of the bounds.                                   *)
(***************************************************************************)
EXTENDS NetworkManager, SequenceTheorems, TLAPS

LEMMA SameLength ==
  ASSUME NEW S, NEW s \in Seq(S), NEW t \in [DOMAIN s -> S]
  PROVE  t \in Seq(S) /\ Len(t) = Len(s) /\ DOMAIN t = DOMAIN s
<1>1. Len(s) \in Nat /\ DOMAIN s = 1 .. Len(s)
  BY LenProperties
<1>2. t \in [1 .. Len(s) -> S]
  BY <1>1
<1>3. t \in Seq(S) /\ Len(t) = Len(s)
  BY <1>1, <1>2
<1>4. QED
  BY <1>1, <1>2, <1>3

LEMMA NextIndex ==
  ASSUME NetworkAssumption, NEW n \in Nat
  PROVE  n % Urls \in Indices
<1>1. Urls \in Nat /\ Urls > 0
  BY DEF NetworkAssumption
<1>2. QED
  BY <1>1 DEF Indices

LEMMA EndedCall ==
  ASSUME NEW call \in Call, NEW status \in {"closed", "failed"}, NetworkAssumption
  PROVE  /\ Ended(call, status) \in Call
         /\ Ended(call, status).peer = call.peer
         /\ Ended(call, status).status = status
<1>1. 0 \in Indices
  BY DEF NetworkAssumption, Indices
<1>2. QED
  BY <1>1 DEF Ended, Call

-----------------------------------------------------------------------------
(* What the steps do to the calls of connect().                            *)

CallsOK == connects \in Seq(Call) /\ Len(connects) <= MaxConnects

(* The calls that there were are still there, and are their peers'.        *)
SamePeers ==
  /\ DOMAIN connects \subseteq DOMAIN connects'
  /\ \A c \in DOMAIN connects : connects'[c].peer = connects[c].peer

LEMMA Started ==
  ASSUME NetworkAssumption, TypeOK, NEW p \in Peers, StartConnect(p)
  PROVE  /\ CallsOK' /\ SamePeers
         /\ DOMAIN connects' = DOMAIN connects \union {Len(connects) + 1}
         /\ Len(connects) + 1 \notin DOMAIN connects
         /\ \A c \in DOMAIN connects : connects'[c] = connects[c]
         /\ connects'[Len(connects) + 1].peer = p
         /\ connects'[Len(connects) + 1].status = "dialing"
<1> DEFINE new == [peer |-> p, kind |-> FirstKind(p), index |-> currentUrlIndex[p], tried |-> 0,
                   status |-> "dialing"]
<1>1. new \in Call
  <2>1. 0 \in Indices /\ currentUrlIndex[p] \in Indices
    BY DEF NetworkAssumption, Indices, TypeOK
  <2>2. FirstKind(p) \in {"websocket", "polling"}
    BY DEF FirstKind
  <2>3. QED
    BY <2>1, <2>2 DEF Call
<1>2. connects \in Seq(Call) /\ Len(connects) \in Nat /\ DOMAIN connects = 1 .. Len(connects)
  BY LenProperties DEF TypeOK
<1>3. connects' = Append(connects, new) /\ Len(connects) < MaxConnects
  BY DEF StartConnect
<1>4. /\ connects' \in Seq(Call) /\ Len(connects') = Len(connects) + 1
      /\ \A c \in 1 .. Len(connects) : connects'[c] = connects[c]
      /\ connects'[Len(connects) + 1] = new
  BY <1>1, <1>2, <1>3, AppendProperties
<1>5. DOMAIN connects' = 1 .. Len(connects) + 1
  BY <1>4, <1>2, LenProperties
<1>6. DOMAIN connects' = DOMAIN connects \union {Len(connects) + 1}
      /\ Len(connects) + 1 \notin DOMAIN connects
  BY <1>2, <1>5
<1>7. CallsOK'
  BY <1>2, <1>3, <1>4 DEF CallsOK, NetworkAssumption
<1>8. QED
  BY <1>2, <1>4, <1>6, <1>7 DEF SamePeers

LEMMA Rewritten ==
  ASSUME TypeOK, connects' \in [DOMAIN connects -> Call],
         \A c \in DOMAIN connects : connects'[c].peer = connects[c].peer
  PROVE  CallsOK' /\ SamePeers /\ DOMAIN connects' = DOMAIN connects
<1>1. connects \in Seq(Call) /\ Len(connects) <= MaxConnects
  BY DEF TypeOK
<1>2. connects' \in Seq(Call) /\ Len(connects') = Len(connects) /\ DOMAIN connects' = DOMAIN connects
  BY <1>1, SameLength
<1>3. QED
  BY <1>1, <1>2 DEF CallsOK, SamePeers

(* Each step, as what it does to the calls and the transport of one peer.  *)
Starts(p)      == StartConnect(p) /\ UNCHANGED transport
Attaches(p, c) == /\ connects[c].peer = p /\ connects[c].status = "dialing"
                  /\ AttachTransport(p, c)
GoesOn(c) == /\ connects[c].status = "dialing"
             /\ connects' = [connects EXCEPT ![c] = NextDial(c)] /\ UNCHANGED transport
Loses(p)  == /\ Attached(p) /\ UNCHANGED transport
             /\ connects' = [connects EXCEPT ![transport[p]] = Ended(@, "closed")]
Drops(c)  == /\ connects[c].status = "closed" /\ UNCHANGED transport
             /\ connects' = [connects EXCEPT ![c].index = 0]
Closes(p) == /\ transport' = [transport EXCEPT ![p] = 0]
             /\ connects' = [c \in DOMAIN connects |->
                  IF c = transport[p] THEN Ended(connects[c], "closed") ELSE connects[c]]

LEMMA StepKinds ==
  ASSUME TypeOK, [Next]_vars
  PROVE  \/ UNCHANGED <<connects, transport>>
         \/ \E p \in Peers : \/ Starts(p) /\ (Connect(p) \/ TimerFires(p))
                             \/ Loses(p) /\ TransportLost(p)
                             \/ Closes(p) /\ Dispose(p)
         \/ \E c \in DOMAIN connects : \/ Attaches(connects[c].peer, c) /\ DialSucceeds(c)
                                       \/ GoesOn(c) /\ DialFails(c)
                                       \/ Drops(c) /\ ServerDrops(c)
<1>1. ASSUME NEW p \in Peers, Connect(p) \/ TimerFires(p) PROVE Starts(p)
  BY <1>1 DEF Connect, TimerFires, Starts
<1>2. ASSUME NEW p \in Peers, TransportLost(p) PROVE Loses(p)
  BY <1>2 DEF TransportLost, Loses
<1>3. ASSUME NEW p \in Peers, Dispose(p) PROVE Closes(p)
  BY <1>3 DEF Dispose, Closes
<1>4. ASSUME NEW c \in DOMAIN connects, DialSucceeds(c) PROVE Attaches(connects[c].peer, c)
  BY <1>4 DEF DialSucceeds, Attaches
<1>5. ASSUME NEW c \in DOMAIN connects, DialFails(c) PROVE GoesOn(c)
  BY <1>5 DEF DialFails, GoesOn
<1>6. ASSUME NEW c \in DOMAIN connects, ServerDrops(c) PROVE Drops(c)
  BY <1>6 DEF ServerDrops, Drops
<1>7. ASSUME NEW c \in DOMAIN connects, HandleSignalingMessage(c) PROVE UNCHANGED <<connects, transport>>
  BY <1>7 DEF HandleSignalingMessage, dials
<1>8. ASSUME NEW p \in Peers, NEW q \in Peers \ {p},
             SendSignal(p, q) \/ ChannelOpens(p, q) \/ PeerCloses(p, q)
      PROVE  UNCHANGED <<connects, transport>>
  BY <1>8 DEF SendSignal, ChannelOpens, PeerCloses, dials
<1>9. ASSUME NEW u \in Indices, Outage(u) \/ Recovery(u) PROVE UNCHANGED <<connects, transport>>
  BY <1>9 DEF Outage, Recovery, dials
<1>10. CASE UNCHANGED vars
  BY <1>10 DEF vars, dials
<1>11. QED
  BY <1>1, <1>2, <1>3, <1>4, <1>5, <1>6, <1>7, <1>8, <1>9, <1>10 DEF Next

LEMMA CallParts ==
  ASSUME TypeOK
  PROVE  /\ connects \in Seq(Call) /\ DOMAIN connects \subseteq Nat \ {0}
         /\ \A c \in DOMAIN connects : connects[c] \in Call /\ connects[c].peer \in Peers
<1>1. connects \in Seq(Call) /\ Len(connects) <= MaxConnects
  BY DEF TypeOK
<1>2. DOMAIN connects = 1 .. Len(connects) /\ Len(connects) \in Nat
  BY <1>1, LenProperties
<1>3. \A c \in DOMAIN connects : connects[c] \in Call
  BY <1>1, <1>2, ElementOfSeq
<1>4. \A c \in DOMAIN connects : connects[c].peer \in Peers
  BY <1>3 DEF Call
<1>5. QED
  BY <1>1, <1>2, <1>3, <1>4

(* Whose status changes, and to what.                                      *)
Becomes(d, status) ==
  \A c \in DOMAIN connects :
    connects'[c].status = IF c = d THEN status ELSE connects[c].status

LEMMA AttachesOutcome ==
  ASSUME NetworkAssumption, TypeOK, NEW c \in DOMAIN connects, Attaches(connects[c].peer, c)
  PROVE  /\ CallsOK' /\ SamePeers /\ DOMAIN connects' = DOMAIN connects
         /\ transport' = [transport EXCEPT ![connects[c].peer] = c]
         /\ \A d \in DOMAIN connects :
              connects'[d].status = IF d = c THEN "attached"
                                    ELSE IF d = transport[connects[c].peer] THEN "closed"
                                    ELSE connects[d].status
<1> DEFINE p == connects[c].peer
<1>1. connects' = [d \in DOMAIN connects |->
        IF d = c THEN [connects[d] EXCEPT !.status = "attached", !.tried = 0]
        ELSE IF d = transport[p] THEN Ended(connects[d], "closed")
        ELSE connects[d]]
  BY DEF Attaches, AttachTransport
<1>2. ASSUME NEW d \in DOMAIN connects
      PROVE  /\ connects'[d] \in Call /\ connects'[d].peer = connects[d].peer
             /\ connects'[d].status = IF d = c THEN "attached"
                                      ELSE IF d = transport[p] THEN "closed"
                                      ELSE connects[d].status
  <2>1. connects[d] \in Call
    BY CallParts
  <2>2. CASE d = c
    <3>1. 0 \in Indices
      BY DEF NetworkAssumption, Indices
    <3>2. connects'[d] = [connects[d] EXCEPT !.status = "attached", !.tried = 0]
      BY <1>1, <2>2
    <3>3. QED
      BY <2>1, <2>2, <3>1, <3>2 DEF Call
  <2>3. CASE d # c /\ d = transport[p]
    <3>1. connects'[d] = Ended(connects[d], "closed")
      BY <1>1, <2>3
    <3>2. QED
      BY <2>1, <2>3, <3>1, EndedCall
  <2>4. CASE d # c /\ d # transport[p]
    BY <1>1, <2>1, <2>4
  <2>5. QED
    BY <2>2, <2>3, <2>4
<1>3. connects' \in [DOMAIN connects -> Call]
  BY <1>1, <1>2
<1>4. transport' = [transport EXCEPT ![p] = c]
  BY DEF Attaches, AttachTransport
<1>5. QED
  BY <1>2, <1>3, <1>4, Rewritten

LEMMA GoesOnOutcome ==
  ASSUME NetworkAssumption, TypeOK, NEW c \in DOMAIN connects, GoesOn(c)
  PROVE  /\ CallsOK' /\ SamePeers /\ DOMAIN connects' = DOMAIN connects
         /\ \E status \in {"dialing", "failed"} : Becomes(c, status)
<1> DEFINE p == connects[c].peer
           call == connects[c]
<1>1. call \in Call /\ p \in Peers /\ call.status = "dialing"
  BY CallParts DEF GoesOn
<1>2. /\ NextDial(c) \in Call /\ NextDial(c).peer = p
      /\ NextDial(c).status \in {"dialing", "failed"}
  <2>1. CASE call.kind = "websocket" /\ Preference[p] = "auto"
    <3>1. NextDial(c) = [call EXCEPT !.kind = "polling"]
      BY <2>1 DEF NextDial
    <3>2. QED
      BY <1>1, <3>1 DEF Call
  <2>2. CASE ~(call.kind = "websocket" /\ Preference[p] = "auto") /\ call.tried + 1 < Urls
    <3>1. NextDial(c) = [call EXCEPT !.tried = @ + 1, !.kind = FirstKind(p),
                           !.index = (currentUrlIndex[p] + call.tried + 1) % Urls]
      BY <2>2 DEF NextDial
    <3>2. call.tried \in Indices /\ currentUrlIndex[p] \in Indices /\ Urls \in Nat
      BY <1>1 DEF Call, TypeOK, NetworkAssumption
    <3>3. call.tried + 1 \in Indices /\ currentUrlIndex[p] + call.tried + 1 \in Nat
      BY <2>2, <3>2 DEF Indices
    <3>4. (currentUrlIndex[p] + call.tried + 1) % Urls \in Indices
      BY <3>3, NextIndex
    <3>5. FirstKind(p) \in {"websocket", "polling"}
      BY DEF FirstKind
    <3>6. QED
      BY <1>1, <3>1, <3>3, <3>4, <3>5 DEF Call
  <2>3. CASE ~(call.kind = "websocket" /\ Preference[p] = "auto") /\ ~(call.tried + 1 < Urls)
    <3>1. NextDial(c) = [Ended(call, "failed") EXCEPT !.index = 0]
      BY <2>3 DEF NextDial
    <3>2. Ended(call, "failed") \in Call /\ Ended(call, "failed").peer = p
          /\ Ended(call, "failed").status = "failed"
      BY <1>1, EndedCall
    <3>3. 0 \in Indices
      BY DEF NetworkAssumption, Indices
    <3>4. QED
      BY <3>1, <3>2, <3>3 DEF Call
  <2>4. QED
    BY <2>1, <2>2, <2>3
<1>3. connects' = [connects EXCEPT ![c] = NextDial(c)]
  BY DEF GoesOn
<1>4. \A d \in DOMAIN connects : connects[d] \in Call
  BY CallParts
<1>5. connects' \in [DOMAIN connects -> Call]
      /\ \A d \in DOMAIN connects : connects'[d] = IF d = c THEN NextDial(c) ELSE connects[d]
  BY <1>2, <1>3, <1>4, CallParts
<1>6. \A d \in DOMAIN connects : connects'[d].peer = connects[d].peer
  BY <1>2, <1>5
<1>7. Becomes(c, NextDial(c).status)
  BY <1>5 DEF Becomes
<1>8. QED
  BY <1>2, <1>5, <1>6, <1>7, Rewritten

LEMMA LosesOutcome ==
  ASSUME NetworkAssumption, TypeOK, NEW p \in Peers, Loses(p)
  PROVE  /\ CallsOK' /\ SamePeers /\ DOMAIN connects' = DOMAIN connects
         /\ Becomes(transport[p], "closed")
<1> DEFINE c == transport[p]
<1>1. c \in DOMAIN connects
  BY DEF Loses, Attached, TypeOK
<1>2. \A d \in DOMAIN connects : connects[d] \in Call
  BY CallParts
<1>3. /\ Ended(connects[c], "closed") \in Call /\ Ended(connects[c], "closed").peer = connects[c].peer
      /\ Ended(connects[c], "closed").status = "closed"
  BY <1>1, <1>2, EndedCall
<1>4. connects' = [connects EXCEPT ![c] = Ended(connects[c], "closed")]
  BY DEF Loses
<1>5. connects' \in [DOMAIN connects -> Call]
      /\ \A d \in DOMAIN connects : connects'[d] = IF d = c THEN Ended(connects[c], "closed") ELSE connects[d]
  BY <1>2, <1>3, <1>4, CallParts
<1>6. QED
  BY <1>3, <1>5, Rewritten DEF Becomes

LEMMA DropsOutcome ==
  ASSUME NetworkAssumption, TypeOK, NEW c \in DOMAIN connects, Drops(c)
  PROVE  /\ CallsOK' /\ SamePeers /\ DOMAIN connects' = DOMAIN connects
         /\ Becomes(c, "closed")
<1>1. \A d \in DOMAIN connects : connects[d] \in Call
  BY CallParts
<1>2. 0 \in Indices
  BY DEF NetworkAssumption, Indices
<1>3. connects' = [connects EXCEPT ![c] = [connects[c] EXCEPT !.index = 0]]
  BY DEF Drops
<1>4. [connects[c] EXCEPT !.index = 0] \in Call
      /\ [connects[c] EXCEPT !.index = 0].peer = connects[c].peer
      /\ [connects[c] EXCEPT !.index = 0].status = "closed"
  BY <1>1, <1>2 DEF Drops, Call
<1>5. connects' \in [DOMAIN connects -> Call]
      /\ \A d \in DOMAIN connects :
           connects'[d] = IF d = c THEN [connects[c] EXCEPT !.index = 0] ELSE connects[d]
  BY <1>1, <1>3, <1>4, CallParts
<1>6. QED
  BY <1>4, <1>5, Rewritten DEF Becomes

LEMMA ClosesOutcome ==
  ASSUME NetworkAssumption, TypeOK, NEW p \in Peers, Closes(p)
  PROVE  /\ CallsOK' /\ SamePeers /\ DOMAIN connects' = DOMAIN connects
         /\ transport' = [transport EXCEPT ![p] = 0]
         /\ Becomes(transport[p], "closed")
<1>1. connects' = [c \in DOMAIN connects |->
        IF c = transport[p] THEN Ended(connects[c], "closed") ELSE connects[c]]
  BY DEF Closes
<1>2. ASSUME NEW c \in DOMAIN connects
      PROVE  /\ connects'[c] \in Call /\ connects'[c].peer = connects[c].peer
             /\ connects'[c].status = IF c = transport[p] THEN "closed" ELSE connects[c].status
  <2>1. connects[c] \in Call
    BY CallParts
  <2>2. CASE c = transport[p]
    BY <1>1, <2>1, <2>2, EndedCall
  <2>3. CASE c # transport[p]
    BY <1>1, <2>1, <2>3
  <2>4. QED
    BY <2>2, <2>3
<1>3. connects' \in [DOMAIN connects -> Call]
  BY <1>1, <1>2
<1>4. QED
  BY <1>2, <1>3, Rewritten DEF Becomes, Closes

-----------------------------------------------------------------------------
(* Type correctness, part by part.                                         *)

EndsOK   == disposed \in [Peers -> BOOLEAN] /\ leftover \in [Peers -> BOOLEAN]
TimersOK ==
  /\ currentUrlIndex \in [Peers -> Indices]
  /\ reconnectTimer \in [Peers -> BOOLEAN]
  /\ forgotten \in [Peers -> Nat]
Dialled == {"attached", "closed"}
TransportOK ==
  /\ transport \in [Peers -> 0 .. MaxConnects]
  /\ \A p \in Peers : transport[p] # 0 =>
       /\ transport[p] \in DOMAIN connects
       /\ connects[transport[p]].peer = p
       /\ connects[transport[p]].status \in Dialled
TableOK == peers \in [Peers -> [Peers -> SimplePeer]]
MailOK  == mail \in [Calls -> Seq(Message)]
RestOK  == up \subseteq Indices /\ members \subseteq DOMAIN connects /\ faults \in 0 .. MaxFaults

LEMMA TypeParts ==
  TypeOK <=> EndsOK /\ TimersOK /\ CallsOK /\ TransportOK /\ TableOK /\ MailOK /\ RestOK
  BY DEF TypeOK, EndsOK, TimersOK, CallsOK, TransportOK, Dialled, TableOK, MailOK, RestOK

LEMMA CallNumbers ==
  ASSUME NetworkAssumption, TypeOK
  PROVE  DOMAIN connects \subseteq Calls
<1>1. DOMAIN connects = 1 .. Len(connects) /\ Len(connects) \in Nat /\ Len(connects) <= MaxConnects
  BY LenProperties DEF TypeOK
<1>2. QED
  BY <1>1 DEF Calls, NetworkAssumption

(* A step that attaches nothing takes no call back that was dialled.       *)
StaysDialled ==
  \A c \in DOMAIN connects : connects[c].status \in Dialled => connects'[c].status \in Dialled

LEMMA CallsStep ==
  ASSUME NetworkAssumption, TypeOK, [Next]_vars
  PROVE  CallsOK' /\ SamePeers /\ TransportOK'
<1>0. CallsOK /\ TransportOK
  BY TypeParts
<1>1. CASE UNCHANGED <<connects, transport>>
  BY <1>0, <1>1 DEF CallsOK, SamePeers, TransportOK
<1>2. ASSUME CallsOK', SamePeers, StaysDialled, UNCHANGED transport PROVE TransportOK'
  BY <1>0, <1>2 DEF TransportOK, SamePeers, StaysDialled
<1>3. ASSUME NEW p \in Peers, Starts(p)
      PROVE  CallsOK' /\ SamePeers /\ StaysDialled /\ UNCHANGED transport
  BY <1>3, Started DEF Starts, StaysDialled
<1>4. ASSUME NEW p \in Peers, Loses(p)
      PROVE  CallsOK' /\ SamePeers /\ StaysDialled /\ UNCHANGED transport
  BY <1>4, LosesOutcome DEF Loses, StaysDialled, Becomes, Dialled
<1>5. ASSUME NEW p \in Peers, Closes(p) PROVE CallsOK' /\ SamePeers /\ TransportOK'
  <2>1. CallsOK' /\ SamePeers /\ transport' = [transport EXCEPT ![p] = 0]
        /\ Becomes(transport[p], "closed")
    BY <1>5, ClosesOutcome
  <2>2. MaxConnects \in Nat
    BY DEF NetworkAssumption
  <2>3. StaysDialled
    BY <2>1 DEF StaysDialled, Becomes, Dialled
  <2>4. QED
    BY <1>0, <2>1, <2>2, <2>3 DEF TransportOK, SamePeers, StaysDialled
<1>6. ASSUME NEW c \in DOMAIN connects, Attaches(connects[c].peer, c)
      PROVE  CallsOK' /\ SamePeers /\ TransportOK'
  <2>1. CallsOK' /\ SamePeers /\ transport' = [transport EXCEPT ![connects[c].peer] = c]
    BY <1>6, AttachesOutcome
  <2>2. c \in 0 .. MaxConnects
    BY CallNumbers DEF Calls, NetworkAssumption
  <2>3. connects[c].peer \in Peers
    BY CallParts
  <2>4. StaysDialled /\ connects'[c].status \in Dialled
    BY <1>6, AttachesOutcome DEF StaysDialled, Dialled
  <2>5. QED
    BY <1>0, <2>1, <2>2, <2>3, <2>4 DEF TransportOK, SamePeers, StaysDialled
<1>7. ASSUME NEW c \in DOMAIN connects, GoesOn(c)
      PROVE  CallsOK' /\ SamePeers /\ StaysDialled /\ UNCHANGED transport
  BY <1>7, GoesOnOutcome DEF GoesOn, StaysDialled, Becomes, Dialled
<1>8. ASSUME NEW c \in DOMAIN connects, Drops(c)
      PROVE  CallsOK' /\ SamePeers /\ StaysDialled /\ UNCHANGED transport
  BY <1>8, DropsOutcome DEF Drops, StaysDialled, Becomes, Dialled
<1>9. QED
  BY <1>1, <1>2, <1>3, <1>4, <1>5, <1>6, <1>7, <1>8, StepKinds

(* Which of the steps touch the rest, and how.                             *)
LEMMA TimersStep ==
  ASSUME NetworkAssumption, TypeOK, [Next]_vars
  PROVE  TimersOK'
<1>0. TimersOK
  BY TypeParts
<1>1. ASSUME NEW p \in Peers, TransportLost(p) PROVE TimersOK'
  <2>1. CASE UNCHANGED <<currentUrlIndex, reconnectTimer, forgotten>>
    BY <1>0, <2>1 DEF TimersOK
  <2>2. CASE ScheduleReconnect(p)
    <3>1. (currentUrlIndex[p] + 1) % Urls \in Indices
      BY <1>0, NextIndex DEF TimersOK, Indices
    <3>2. QED
      BY <1>0, <2>2, <3>1 DEF TimersOK, ScheduleReconnect
  <2>3. QED
    BY <1>1, <2>1, <2>2 DEF TransportLost, timers
<1>2. ASSUME NEW p \in Peers, TimerFires(p) PROVE TimersOK'
  <2>1. CASE reconnectTimer' = [reconnectTimer EXCEPT ![p] = FALSE] /\ UNCHANGED forgotten
    BY <1>0, <1>2, <2>1 DEF TimersOK, TimerFires
  <2>2. CASE /\ forgotten[p] > 0 /\ forgotten' = [forgotten EXCEPT ![p] = @ - 1]
             /\ UNCHANGED reconnectTimer
    BY <1>0, <1>2, <2>2 DEF TimersOK, TimerFires
  <2>3. QED
    BY <1>2, <2>1, <2>2 DEF TimerFires
<1>3. ASSUME NEW p \in Peers, Dispose(p) PROVE TimersOK'
  BY <1>0, <1>3 DEF TimersOK, Dispose
<1>4. ASSUME NEW c \in DOMAIN connects, DialSucceeds(c) PROVE TimersOK'
  <2>1. connects[c].index \in Indices /\ connects[c].peer \in Peers
    BY CallParts DEF Call
  <2>2. currentUrlIndex' = [currentUrlIndex EXCEPT ![connects[c].peer] = connects[c].index]
        /\ UNCHANGED <<reconnectTimer, forgotten>>
    BY <1>4 DEF DialSucceeds, timers
  <2>3. QED
    BY <1>0, <2>1, <2>2 DEF TimersOK
<1>5. ASSUME NEW c \in DOMAIN connects, DialFails(c) \/ ServerDrops(c) \/ HandleSignalingMessage(c)
      PROVE  UNCHANGED <<currentUrlIndex, reconnectTimer, forgotten>>
  BY <1>5 DEF DialFails, ServerDrops, HandleSignalingMessage, dials, timers
<1>6. ASSUME NEW p \in Peers, NEW q \in Peers \ {p},
             SendSignal(p, q) \/ ChannelOpens(p, q) \/ PeerCloses(p, q)
      PROVE  UNCHANGED <<currentUrlIndex, reconnectTimer, forgotten>>
  BY <1>6 DEF SendSignal, ChannelOpens, PeerCloses, dials, timers
<1>7. ASSUME NEW u \in Indices, Outage(u) \/ Recovery(u)
      PROVE  UNCHANGED <<currentUrlIndex, reconnectTimer, forgotten>>
  BY <1>7 DEF Outage, Recovery, dials, timers
<1>8. ASSUME NEW p \in Peers, Connect(p) PROVE UNCHANGED <<currentUrlIndex, reconnectTimer, forgotten>>
  BY <1>8 DEF Connect, timers
<1>9. UNCHANGED vars => UNCHANGED <<currentUrlIndex, reconnectTimer, forgotten>>
  BY DEF vars, dials, timers
<1>10. UNCHANGED <<currentUrlIndex, reconnectTimer, forgotten>> => TimersOK'
  BY <1>0 DEF TimersOK
<1>11. QED
  BY <1>1, <1>2, <1>3, <1>4, <1>5, <1>6, <1>7, <1>8, <1>9, <1>10 DEF Next

LEMMA RestStep ==
  ASSUME NetworkAssumption, TypeOK, [Next]_vars
  PROVE  EndsOK' /\ RestOK'
<1>0. EndsOK /\ RestOK /\ MaxFaults \in Nat
  BY TypeParts DEF NetworkAssumption
<1>1. DOMAIN connects \subseteq DOMAIN connects'
  BY CallsStep DEF SamePeers
<1>2. CASE UNCHANGED <<up, faults, ends>> /\ members' \subseteq members
  BY <1>0, <1>1, <1>2 DEF EndsOK, RestOK, ends
<1>3. ASSUME NEW p \in Peers, TransportLost(p) PROVE EndsOK' /\ RestOK'
  BY <1>0, <1>1, <1>3 DEF TransportLost, EndsOK, RestOK, ends, room
<1>4. ASSUME NEW p \in Peers, Dispose(p) PROVE EndsOK' /\ RestOK'
  <2>1. UNCHANGED <<up, faults, members>>
    BY <1>4 DEF Dispose, room
  <2>2. disposed' = [disposed EXCEPT ![p] = TRUE]
        /\ leftover' = [leftover EXCEPT ![p] = Dialing(p) # {} \/ forgotten[p] > 0]
    BY <1>4 DEF Dispose
  <2>3. EndsOK'
    BY <1>0, <2>2 DEF EndsOK
  <2>4. QED
    BY <1>0, <1>1, <2>1, <2>3 DEF RestOK
<1>5. ASSUME NEW c \in DOMAIN connects, DialSucceeds(c) PROVE EndsOK' /\ RestOK'
  BY <1>0, <1>1, <1>5 DEF DialSucceeds, EndsOK, RestOK, ends
<1>6. ASSUME NEW c \in DOMAIN connects, DialFails(c) PROVE EndsOK' /\ RestOK'
  BY <1>0, <1>1, <1>6 DEF DialFails, EndsOK, RestOK, ends, room
<1>7. ASSUME NEW p \in Peers, NEW q \in Peers \ {p}, PeerCloses(p, q) PROVE EndsOK' /\ RestOK'
  BY <1>0, <1>1, <1>7 DEF PeerCloses, EndsOK, RestOK, ends, room
<1>8. ASSUME NEW u \in Indices, Outage(u) \/ Recovery(u) PROVE EndsOK' /\ RestOK'
  BY <1>0, <1>1, <1>8 DEF Outage, Recovery, EndsOK, RestOK, ends, room
<1>9. ASSUME NEW p \in Peers, \/ Connect(p) \/ TimerFires(p)
                             \/ \E q \in Peers : SendSignal(p, q) \/ ChannelOpens(p, q)
      PROVE  UNCHANGED <<up, faults, ends>> /\ members' = members
  BY <1>9 DEF Connect, TimerFires, SendSignal, ChannelOpens, room
<1>10. ASSUME NEW c \in DOMAIN connects, ServerDrops(c) \/ HandleSignalingMessage(c)
       PROVE  UNCHANGED <<up, faults, ends>> /\ members' \subseteq members
  BY <1>10 DEF ServerDrops, HandleSignalingMessage
<1>11. UNCHANGED vars => UNCHANGED <<up, faults, ends>> /\ members' = members
  BY DEF vars, room
<1>12. QED
  BY <1>2, <1>3, <1>4, <1>5, <1>6, <1>7, <1>8, <1>9, <1>10, <1>11 DEF Next

LEMMA OneMessage ==
  ASSUME NetworkAssumption, TypeOK, NEW c \in DOMAIN connects, mail[c] # <<>>
  PROVE  /\ Head(mail[c]) \in Message /\ Tail(mail[c]) \in Seq(Message)
         /\ Head(mail[c]).type = "peer-list" => Head(mail[c]).list \in SUBSET Peers
         /\ Head(mail[c]).type \in {"offer", "answer"} =>
              Head(mail[c]).from \in Peers /\ Head(mail[c]).offer \in Calls
<1>1. mail[c] \in Seq(Message)
  BY CallNumbers DEF TypeOK
<1>2. Head(mail[c]) \in Message /\ Tail(mail[c]) \in Seq(Message)
  BY <1>1, HeadTailProperties
<1>3. QED
  BY <1>2 DEF Message

LEMMA MailStep ==
  ASSUME NetworkAssumption, TypeOK, [Next]_vars
  PROVE  MailOK'
<1>0. MailOK
  BY TypeParts
<1>1. CASE UNCHANGED mail
  BY <1>0, <1>1 DEF MailOK
<1>2. ASSUME NEW c \in DOMAIN connects, NEW box \in Seq(Message), mail' = [mail EXCEPT ![c] = box]
      PROVE  MailOK'
  BY <1>0, <1>2 DEF MailOK
<1>3. ASSUME NEW c \in DOMAIN connects, DialSucceeds(c) PROVE MailOK'
  <2> DEFINE list == {connects[d].peer : d \in {d \in members : connects[d].index = connects[c].index}}
  <2>1. list \in SUBSET Peers
    BY CallParts DEF TypeOK
  <2>2. [type |-> "peer-list", list |-> list] \in Message
    BY <2>1 DEF Message
  <2>3. <<[type |-> "peer-list", list |-> list]>> \in Seq(Message)
    BY <2>2
  <2>4. mail' = mail \/ mail' = [mail EXCEPT ![c] = <<[type |-> "peer-list", list |-> list]>>]
    BY <1>3 DEF DialSucceeds
  <2>5. QED
    BY <1>1, <1>2, <2>3, <2>4
<1>4. ASSUME NEW c \in DOMAIN connects, ServerDrops(c) PROVE MailOK'
  <2>1. <<>> \in Seq(Message)
    OBVIOUS
  <2>2. QED
    BY <1>2, <1>4, <2>1 DEF ServerDrops
<1>5. ASSUME NEW c \in DOMAIN connects, HandleSignalingMessage(c) PROVE MailOK'
  <2>1. mail[c] # <<>> /\ mail' = [mail EXCEPT ![c] = Tail(mail[c])]
    BY <1>5 DEF HandleSignalingMessage
  <2>2. Tail(mail[c]) \in Seq(Message)
    BY <2>1, OneMessage
  <2>3. QED
    BY <1>2, <2>1, <2>2
<1>6. ASSUME NEW p \in Peers, NEW q \in Peers, SendSignal(p, q) PROVE MailOK'
  <2> DEFINE m == [type |-> IF peers[p][q].initiator THEN "offer" ELSE "answer",
                   from |-> p, offer |-> peers[p][q].offer]
  <2>1. peers[p][q] \in SimplePeer /\ peers[p][q].stage = "new"
    BY <1>6 DEF SendSignal, TypeOK
  <2>2. m \in Message
    BY <2>1 DEF SimplePeer, NoPeer, Message
  <2>3. mail' = mail \/ \E d \in Targets(p, q) : mail' = [mail EXCEPT ![d] = Append(mail[d], m)]
    BY <1>6 DEF SendSignal
  <2>4. ASSUME NEW d \in Targets(p, q) PROVE d \in DOMAIN connects /\ Append(mail[d], m) \in Seq(Message)
    <3>1. d \in DOMAIN connects
      BY DEF Targets, TypeOK
    <3>2. mail[d] \in Seq(Message)
      BY <3>1, CallNumbers, <1>0 DEF MailOK
    <3>3. QED
      BY <2>2, <3>1, <3>2, AppendProperties
  <2>5. QED
    BY <1>1, <1>2, <2>3, <2>4
<1>7. ASSUME NEW p \in Peers, \/ Connect(p) \/ TransportLost(p) \/ TimerFires(p) \/ Dispose(p)
                             \/ \E q \in Peers : ChannelOpens(p, q) \/ PeerCloses(p, q)
      PROVE  UNCHANGED mail
  BY <1>7 DEF Connect, TransportLost, TimerFires, Dispose, ChannelOpens, PeerCloses, room
<1>8. \/ \E c \in DOMAIN connects : DialFails(c)
      \/ \E u \in Indices : Outage(u) \/ Recovery(u)
      \/ UNCHANGED vars
      => UNCHANGED mail
  BY DEF DialFails, Outage, Recovery, vars, room
<1>9. QED
  BY <1>1, <1>3, <1>4, <1>5, <1>6, <1>7, <1>8 DEF Next

(* What a step may do to the table of peers.                               *)
LEMMA TableStep ==
  ASSUME NetworkAssumption, TypeOK, [Next]_vars
  PROVE  TableOK'
<1>0. TableOK
  BY TypeParts
<1>1. CASE UNCHANGED peers
  BY <1>0, <1>1 DEF TableOK
<1>2. ASSUME NEW p \in Peers, NEW f \in [Peers -> SimplePeer], peers' = [peers EXCEPT ![p] = f]
      PROVE  TableOK'
  BY <1>0, <1>2 DEF TableOK
<1>3. ASSUME NEW p \in Peers, NEW q \in Peers, NEW s \in SimplePeer, peers' = [peers EXCEPT ![p][q] = s]
      PROVE  TableOK'
  BY <1>0, <1>3 DEF TableOK
<1>4. ASSUME NEW c \in DOMAIN connects, HandleSignalingMessage(c) PROVE TableOK'
  <2> DEFINE p == connects[c].peer
             m == Head(mail[c])
  <2>1. p \in Peers /\ c \in Calls /\ mail[c] # <<>>
    BY <1>4, CallParts, CallNumbers DEF HandleSignalingMessage
  <2>2. ASSUME NEW remote, NEW initiator \in BOOLEAN, NEW offer \in Calls,
               CreatePeers(p, remote, initiator, offer)
        PROVE  TableOK'
    <3>1. PICK S : peers' = [peers EXCEPT ![p] = [q \in Peers |->
                      IF q \in S THEN [stage |-> "new", initiator |-> initiator, offer |-> offer]
                      ELSE peers[p][q]]]
      BY <2>2 DEF CreatePeers
    <3>2. [stage |-> "new", initiator |-> initiator, offer |-> offer] \in SimplePeer
      BY <2>2 DEF SimplePeer
    <3>3. [q \in Peers |-> IF q \in S THEN [stage |-> "new", initiator |-> initiator, offer |-> offer]
                           ELSE peers[p][q]] \in [Peers -> SimplePeer]
      BY <1>0, <2>1, <3>2 DEF TableOK
    <3>4. QED
      BY <1>2, <2>1, <3>1, <3>3
  <2>3. ASSUME NEW q \in Peers, NEW offer \in Calls, Signal(p, q, offer) PROVE TableOK'
    <3>1. \E s \in SimplePeer : peers' = [peers EXCEPT ![p][q] = s]
      <4>1. CASE peers[p][q] = NoPeer
        BY <2>3, <4>1 DEF Signal, SimplePeer
      <4>2. CASE peers[p][q] # NoPeer
        <5>1. peers[p][q] \in [stage: {"new", "signaled", "answered", "connected", "broken"},
                               initiator: BOOLEAN, offer: Calls]
          BY <1>0, <2>1, <4>2 DEF TableOK, SimplePeer
        <5>2. \A t \in {"answered", "broken"} : [peers[p][q] EXCEPT !.stage = t] \in SimplePeer
          BY <5>1 DEF SimplePeer
        <5>3. \E t \in {"answered", "broken"} :
                 peers' = [peers EXCEPT ![p][q] = [peers[p][q] EXCEPT !.stage = t]]
          BY <2>3, <4>2 DEF Signal
        <5>4. QED
          BY <5>2, <5>3
      <4>3. QED
        BY <4>1, <4>2
    <3>2. QED
      BY <1>3, <2>1, <3>1
  <2>4. \/ m.type = "peer-list" /\ CreatePeers(p, m.list \ {p}, TRUE, c)
        \/ m.type = "offer" /\ CreatePeers(p, {m.from}, FALSE, m.offer)
        \/ m.type = "answer" /\ Signal(p, m.from, m.offer)
    BY <1>4 DEF HandleSignalingMessage
  <2>5. QED
    BY <2>1, <2>2, <2>3, <2>4, OneMessage
<1>5. ASSUME NEW p \in Peers, NEW q \in Peers \ {p}, SendSignal(p, q) PROVE TableOK'
  <2>1. peers[p][q] \in SimplePeer /\ peers[p][q].stage = "new"
    BY <1>0, <1>5 DEF SendSignal, TableOK
  <2>2. [peers[p][q] EXCEPT !.stage = "signaled"] \in SimplePeer
    BY <2>1 DEF SimplePeer, NoPeer
  <2>3. peers' = [peers EXCEPT ![p][q] = [peers[p][q] EXCEPT !.stage = "signaled"]]
    BY <1>5 DEF SendSignal
  <2>4. QED
    BY <1>3, <2>2, <2>3
<1>6. ASSUME NEW p \in Peers, NEW q \in Peers \ {p}, ChannelOpens(p, q) PROVE TableOK'
  <2>1. peers[p][q] \in SimplePeer \ {NoPeer} /\ peers[q][p] \in SimplePeer \ {NoPeer}
    BY <1>0, <1>6 DEF ChannelOpens, Mates, TableOK
  <2> DEFINE s == [peers[p][q] EXCEPT !.stage = "connected"]
             t == [peers[q][p] EXCEPT !.stage = "connected"]
  <2>2. s \in SimplePeer /\ t \in SimplePeer
    BY <2>1 DEF SimplePeer
  <2>3. peers' = [peers EXCEPT ![p] = [peers[p] EXCEPT ![q] = s], ![q] = [peers[q] EXCEPT ![p] = t]]
    BY <1>0, <1>6 DEF ChannelOpens, TableOK
  <2>4. [peers[p] EXCEPT ![q] = s] \in [Peers -> SimplePeer]
        /\ [peers[q] EXCEPT ![p] = t] \in [Peers -> SimplePeer]
    BY <1>0, <2>2 DEF TableOK
  <2>5. QED
    BY <1>0, <2>3, <2>4 DEF TableOK
<1>7. ASSUME NEW p \in Peers, NEW q \in Peers \ {p}, PeerCloses(p, q) PROVE TableOK'
  BY <1>3, <1>7 DEF PeerCloses, SimplePeer
<1>8. ASSUME NEW p \in Peers, Dispose(p) PROVE TableOK'
  <2>1. [q \in Peers |-> NoPeer] \in [Peers -> SimplePeer]
    BY DEF SimplePeer
  <2>2. QED
    BY <1>2, <1>8, <2>1 DEF Dispose
<1>9. ASSUME NEW p \in Peers, Connect(p) \/ TransportLost(p) \/ TimerFires(p) PROVE UNCHANGED peers
  BY <1>9 DEF Connect, TransportLost, TimerFires
<1>10. ASSUME NEW c \in DOMAIN connects, DialSucceeds(c) \/ DialFails(c) \/ ServerDrops(c)
       PROVE  UNCHANGED peers
  BY <1>10 DEF DialSucceeds, DialFails, ServerDrops
<1>11. (\E u \in Indices : Outage(u) \/ Recovery(u)) \/ UNCHANGED vars => UNCHANGED peers
  BY DEF Outage, Recovery, vars
<1>12. QED
  BY <1>1, <1>4, <1>5, <1>6, <1>7, <1>8, <1>9, <1>10, <1>11 DEF Next

LEMMA InitTypes == NetworkAssumption /\ Init => TypeOK
<1> SUFFICES ASSUME NetworkAssumption, Init PROVE TypeOK
  OBVIOUS
<1>1. Urls \in Nat /\ Urls > 0 /\ MaxConnects \in Nat /\ MaxFaults \in Nat
  BY DEF NetworkAssumption
<1>2. EndsOK /\ TimersOK
  BY <1>1 DEF Init, EndsOK, TimersOK, Indices
<1>3. CallsOK /\ TransportOK
  BY <1>1 DEF Init, CallsOK, TransportOK
<1>4. TableOK /\ MailOK
  BY DEF Init, TableOK, MailOK, SimplePeer
<1>5. RestOK
  BY <1>1 DEF Init, RestOK
<1>6. QED
  BY <1>2, <1>3, <1>4, <1>5, TypeParts

(* In every behaviour every variable has its type.                         *)
THEOREM TypeCorrect == NetworkAssumption => (Spec => []TypeOK)
<1> SUFFICES ASSUME NetworkAssumption PROVE Spec => []TypeOK
  OBVIOUS
<1>1. Init => TypeOK
  BY InitTypes
<1>2. TypeOK /\ [Next]_vars => TypeOK'
  <2> SUFFICES ASSUME TypeOK, [Next]_vars PROVE TypeOK'
    OBVIOUS
  <2>1. EndsOK' /\ RestOK' /\ TimersOK' /\ CallsOK' /\ TransportOK' /\ TableOK' /\ MailOK'
    BY RestStep, TimersStep, CallsStep, TableStep, MailStep
  <2>2. QED
    BY <2>1 DEF TypeOK, EndsOK, TimersOK, CallsOK, TransportOK, Dialled, TableOK, MailOK, RestOK
<1>3. QED
  BY <1>1, <1>2, PTL DEF Spec

-----------------------------------------------------------------------------
(* No open transport but the current one.                                  *)

LEMMA OneTransportStep ==
  ASSUME NetworkAssumption, TypeOK, OneTransport, [Next]_vars
  PROVE  OneTransport'
<1> DEFINE Current == \A c \in DOMAIN connects :
                        connects[c].status = "attached" => transport[connects[c].peer] = c
<1>0. Current
  BY DEF OneTransport
<1>1. CASE UNCHANGED <<connects, transport>>
  BY <1>0, <1>1 DEF OneTransport
<1>2. ASSUME NEW p \in Peers, Starts(p) PROVE OneTransport'
  <2>1. /\ DOMAIN connects' = DOMAIN connects \union {Len(connects) + 1}
        /\ \A c \in DOMAIN connects : connects'[c] = connects[c]
        /\ connects'[Len(connects) + 1].status = "dialing"
        /\ transport' = transport
    BY <1>2, Started DEF Starts
  <2>2. QED
    BY <1>0, <2>1 DEF OneTransport
<1>3. ASSUME DOMAIN connects' = DOMAIN connects, SamePeers, UNCHANGED transport,
             \A c \in DOMAIN connects : connects'[c].status = "attached" => connects[c].status = "attached"
      PROVE  OneTransport'
  BY <1>0, <1>3 DEF OneTransport, SamePeers
<1>4. ASSUME NEW p \in Peers, Loses(p) PROVE OneTransport'
  BY <1>3, <1>4, LosesOutcome DEF Loses, Becomes
<1>5. ASSUME NEW c \in DOMAIN connects, GoesOn(c) PROVE OneTransport'
  BY <1>3, <1>5, GoesOnOutcome DEF GoesOn, Becomes
<1>6. ASSUME NEW c \in DOMAIN connects, Drops(c) PROVE OneTransport'
  BY <1>3, <1>6, DropsOutcome DEF Drops, Becomes
<1>7. ASSUME NEW p \in Peers, Closes(p) PROVE OneTransport'
  <2>1. /\ DOMAIN connects' = DOMAIN connects /\ SamePeers /\ Becomes(transport[p], "closed")
        /\ transport' = [transport EXCEPT ![p] = 0]
    BY <1>7, ClosesOutcome
  <2>2. transport \in [Peers -> 0 .. MaxConnects] /\ \A c \in DOMAIN connects : connects[c].peer \in Peers
    BY CallParts DEF TypeOK
  <2>3. QED
    BY <1>0, <2>1, <2>2 DEF OneTransport, SamePeers, Becomes
<1>8. ASSUME NEW c \in DOMAIN connects, Attaches(connects[c].peer, c) PROVE OneTransport'
  <2>1. /\ DOMAIN connects' = DOMAIN connects /\ SamePeers
        /\ transport' = [transport EXCEPT ![connects[c].peer] = c]
        /\ \A d \in DOMAIN connects :
             connects'[d].status = IF d = c THEN "attached"
                                   ELSE IF d = transport[connects[c].peer] THEN "closed"
                                   ELSE connects[d].status
    BY <1>8, AttachesOutcome
  <2>2. transport \in [Peers -> 0 .. MaxConnects] /\ \A d \in DOMAIN connects : connects[d].peer \in Peers
    BY CallParts DEF TypeOK
  <2>3. ASSUME NEW d \in DOMAIN connects, connects'[d].status = "attached", d # c
        PROVE  transport'[connects[d].peer] = d
    <3>1. connects[d].status = "attached" /\ d # transport[connects[c].peer]
      BY <2>1, <2>3
    <3>2. connects[d].peer # connects[c].peer
      BY <1>0, <3>1
    <3>3. QED
      BY <1>0, <2>1, <2>2, <3>1, <3>2
  <2>4. transport'[connects[c].peer] = c
    BY <2>1, <2>2
  <2>5. QED
    BY <2>1, <2>3, <2>4 DEF OneTransport, SamePeers
<1>9. QED
  BY <1>1, <1>2, <1>4, <1>5, <1>6, <1>7, <1>8, StepKinds

(* However connects, losses and timers cross, only the current transport   *)
(* is open (attachTransport closes what it replaces).                      *)
THEOREM NoStrayTransport == NetworkAssumption => (Spec => []OneTransport)
<1> SUFFICES ASSUME NetworkAssumption PROVE Spec => []OneTransport
  OBVIOUS
<1>1. Init => OneTransport
  BY DEF Init, OneTransport
<1>2. TypeOK /\ OneTransport /\ [Next]_vars => OneTransport'
  BY OneTransportStep
<1>3. Spec => []TypeOK
  BY TypeCorrect
<1>4. QED
  BY <1>1, <1>2, <1>3, PTL DEF Spec

-----------------------------------------------------------------------------
(* A manager that has lost its transport goes on trying.                   *)

Armed(p) == reconnectTimer[p] \/ forgotten[p] > 0

TriedOrFailed(p) == Trying(p) \/ \E c \in DOMAIN connects :
                                   connects[c].peer = p /\ connects[c].status = "failed"

LEMMA DialingStep ==
  ASSUME NetworkAssumption, TypeOK, [Next]_vars, NEW p \in Peers, TriedOrFailed(p),
         \A c \in DOMAIN connects : connects[c].peer = p => ~Attaches(p, c)
  PROVE  disposed'[p] \/ Attached(p) \/ transport[p] = 0 \/ TriedOrFailed(p)'
<1> SUFFICES ASSUME ~disposed'[p], ~Attached(p), transport[p] # 0 PROVE TriedOrFailed(p)'
  OBVIOUS
<1> DEFINE Open(c) == connects[c].peer = p /\ connects[c].status \in {"dialing", "failed"}
<1>1. Armed(p) \/ \E c \in DOMAIN connects : Open(c)
  BY DEF TriedOrFailed, Trying, Dialing, Armed
<1>2. ASSUME NEW c \in DOMAIN connects', connects'[c].peer = p, connects'[c].status \in {"dialing", "failed"}
      PROVE  TriedOrFailed(p)'
  BY <1>2 DEF TriedOrFailed, Trying, Dialing
<1>3. Armed(p)' => TriedOrFailed(p)'
  BY DEF TriedOrFailed, Trying, Armed
<1>4. CASE \E c \in DOMAIN connects : Open(c)
  <2>1. PICK c \in DOMAIN connects : Open(c)
    BY <1>4
  <2>2. c \in DOMAIN connects' /\ connects'[c].peer = p
    BY <2>1, CallsStep DEF SamePeers
  <2>3. CASE UNCHANGED <<connects, transport>>
    BY <1>2, <2>1, <2>2, <2>3
  <2>4. ASSUME NEW q \in Peers, Starts(q) PROVE TriedOrFailed(p)'
    BY <1>2, <2>1, <2>2, <2>4, Started DEF Starts
  <2>5. ASSUME NEW q \in Peers, Loses(q) PROVE TriedOrFailed(p)'
    <3>1. connects[transport[q]].status = "attached" /\ Becomes(transport[q], "closed")
      BY <2>5, LosesOutcome DEF Loses, Attached
    <3>2. QED
      BY <1>2, <2>1, <2>2, <3>1 DEF Becomes
  <2>6. ASSUME NEW q \in Peers, Closes(q), Dispose(q) PROVE TriedOrFailed(p)'
    <3>1. Becomes(transport[q], "closed")
      BY <2>6, ClosesOutcome
    <3>2. q # p
      BY <2>6 DEF Dispose, TypeOK
    <3>3. c # transport[q]
      BY <2>1, <3>2 DEF TypeOK
    <3>4. QED
      BY <1>2, <2>1, <2>2, <3>1, <3>3 DEF Becomes
  <2>7. ASSUME NEW d \in DOMAIN connects, Attaches(connects[d].peer, d) PROVE TriedOrFailed(p)'
    <3>1. \A e \in DOMAIN connects :
             connects'[e].status = IF e = d THEN "attached"
                                   ELSE IF e = transport[connects[d].peer] THEN "closed"
                                   ELSE connects[e].status
      BY <2>7, AttachesOutcome
    <3>2. connects[d].peer # p
      BY <2>7
    <3>3. c # d /\ c # transport[connects[d].peer]
      BY <2>1, <3>2, CallParts DEF TypeOK
    <3>4. QED
      BY <1>2, <2>1, <2>2, <3>1, <3>3
  <2>8. ASSUME NEW d \in DOMAIN connects, GoesOn(d) PROVE TriedOrFailed(p)'
    BY <1>2, <2>1, <2>2, <2>8, GoesOnOutcome DEF Becomes
  <2>9. ASSUME NEW d \in DOMAIN connects, Drops(d) PROVE TriedOrFailed(p)'
    BY <1>2, <2>1, <2>2, <2>9, DropsOutcome DEF Becomes, Drops
  <2>10. QED
    BY <2>3, <2>4, <2>5, <2>6, <2>7, <2>8, <2>9, StepKinds
<1>5. CASE Armed(p)
  <2>1. ASSUME NEW q \in Peers, TimerFires(q) PROVE TriedOrFailed(p)'
    <3>1. CASE q = p
      <4>1. /\ Len(connects) + 1 \in DOMAIN connects'
            /\ connects'[Len(connects) + 1].peer = p
            /\ connects'[Len(connects) + 1].status = "dialing"
        BY <2>1, <3>1, Started DEF TimerFires
      <4>2. QED
        BY <1>2, <4>1
    <3>2. CASE q # p
      BY <1>3, <1>5, <2>1, <3>2 DEF TimerFires, TypeOK, Armed
    <3>3. QED
      BY <3>1, <3>2
  <2>2. ASSUME NEW q \in Peers, TransportLost(q) PROVE TriedOrFailed(p)'
    <3>1. CASE ScheduleReconnect(q)
      BY <1>3, <1>5, <3>1 DEF ScheduleReconnect, TypeOK, Armed
    <3>2. CASE UNCHANGED timers
      BY <1>3, <1>5, <3>2 DEF Armed, timers
    <3>3. QED
      BY <2>2, <3>1, <3>2 DEF TransportLost
  <2>3. ASSUME NEW q \in Peers, Dispose(q) PROVE TriedOrFailed(p)'
    <3>1. q # p
      BY <2>3 DEF Dispose, TypeOK
    <3>2. QED
      BY <1>3, <1>5, <2>3, <3>1 DEF Dispose, TypeOK, Armed
  <2>4. ASSUME NEW q \in Peers,
               Connect(q) \/ \E r \in Peers : SendSignal(q, r) \/ ChannelOpens(q, r) \/ PeerCloses(q, r)
        PROVE  UNCHANGED timers
    BY <2>4 DEF Connect, SendSignal, ChannelOpens, PeerCloses, dials
  <2>5. ASSUME NEW c \in DOMAIN connects,
               DialSucceeds(c) \/ DialFails(c) \/ ServerDrops(c) \/ HandleSignalingMessage(c)
        PROVE  UNCHANGED timers
    BY <2>5 DEF DialSucceeds, DialFails, ServerDrops, HandleSignalingMessage, dials
  <2>6. (\E u \in Indices : Outage(u) \/ Recovery(u)) \/ UNCHANGED vars => UNCHANGED timers
    BY DEF Outage, Recovery, vars, dials
  <2>7. QED
    BY <1>3, <1>5, <2>1, <2>2, <2>3, <2>4, <2>5, <2>6 DEF Next, Armed, timers
<1>6. QED
  BY <1>1, <1>4, <1>5

LEMMA DisposedStep ==
  ASSUME TypeOK, [Next]_vars, NEW p \in Peers
  PROVE  /\ disposed[p] => disposed'[p]
         /\ disposed'[p] # disposed[p] \/ leftover'[p] # leftover[p] => Dispose(p)
<1>1. ASSUME NEW q \in Peers, Dispose(q)
      PROVE  /\ disposed[p] => disposed'[p]
             /\ q # p => disposed'[p] = disposed[p] /\ leftover'[p] = leftover[p]
  BY <1>1 DEF Dispose, TypeOK
<1>2. ASSUME NEW q \in Peers,
             \/ Connect(q) \/ TransportLost(q) \/ TimerFires(q)
             \/ \E r \in Peers : SendSignal(q, r) \/ ChannelOpens(q, r) \/ PeerCloses(q, r)
      PROVE  UNCHANGED <<disposed, leftover>>
  BY <1>2 DEF Connect, TransportLost, TimerFires, SendSignal, ChannelOpens, PeerCloses, ends
<1>3. ASSUME NEW c \in DOMAIN connects,
             DialSucceeds(c) \/ DialFails(c) \/ ServerDrops(c) \/ HandleSignalingMessage(c)
      PROVE  UNCHANGED <<disposed, leftover>>
  BY <1>3 DEF DialSucceeds, DialFails, ServerDrops, HandleSignalingMessage, ends
<1>4. (\E u \in Indices : Outage(u) \/ Recovery(u)) \/ UNCHANGED vars => UNCHANGED <<disposed, leftover>>
  BY DEF Outage, Recovery, vars, ends
<1>5. QED
  BY <1>1, <1>2, <1>3, <1>4 DEF Next

LEMMA OwnTransport ==
  ASSUME TypeOK, NEW p \in Peers, NEW q \in Peers, transport[p] # 0, transport[p] = transport[q]
  PROVE  p = q
<1>1. TransportOK
  BY TypeParts
<1>2. QED
  BY <1>1 DEF TransportOK

Keeps(p) == Disconnected(p) => TriedOrFailed(p)

LEMMA KeepsStep ==
  ASSUME NetworkAssumption, TypeOK, OneTransport, [Next]_vars, NEW p \in Peers, Keeps(p)
  PROVE  Keeps(p)'
<1> SUFFICES ASSUME Disconnected(p)' PROVE TriedOrFailed(p)'
  BY DEF Keeps
<1>1. ~disposed'[p] /\ ~disposed[p] /\ transport'[p] # 0 /\ p \in AutoReconnect
  BY DisposedStep DEF Disconnected, TypeOK
<1>2. ASSUME NEW c \in DOMAIN connects, connects[c].peer = p, Attaches(p, c) PROVE FALSE
  <2>1. transport'[p] = c /\ connects'[c].status = "attached"
    BY <1>2, AttachesOutcome DEF TypeOK
  <2>2. c # 0
    BY CallParts
  <2>3. QED
    BY <2>1, <2>2 DEF Disconnected, Attached
<1>3. transport'[p] = transport[p]
  <2>1. ASSUME NEW q \in Peers, Closes(q), Dispose(q) PROVE transport'[p] = transport[p]
    <3>1. q # p
      BY <1>1, <2>1 DEF Dispose, TypeOK
    <3>2. QED
      BY <2>1, <3>1 DEF Closes, TypeOK
  <2>2. ASSUME NEW c \in DOMAIN connects, Attaches(connects[c].peer, c) PROVE transport'[p] = transport[p]
    <3>1. connects[c].peer # p
      BY <1>2, <2>2
    <3>2. transport' = [transport EXCEPT ![connects[c].peer] = c]
      BY <2>2 DEF Attaches, AttachTransport
    <3>3. QED
      BY <3>1, <3>2 DEF TypeOK
  <2>3. QED
    BY <2>1, <2>2, StepKinds DEF Starts, Loses, GoesOn, Drops
<1>4. CASE ~Attached(p)
  <2>1. TriedOrFailed(p)
    BY <1>1, <1>3, <1>4 DEF Keeps, Disconnected
  <2>2. QED
    BY <1>1, <1>2, <1>3, <1>4, <2>1, DialingStep
<1>5. CASE Attached(p)
  <2>1. connects[transport[p]].status = "attached" /\ transport[p] \in DOMAIN connects
    BY <1>5 DEF Attached, TypeOK
  <2>2. connects'[transport[p]].status # "attached"
    BY <1>1, <1>3 DEF Disconnected, Attached
  <2>3. Loses(p) /\ TransportLost(p)
    <3>1. ASSUME NEW q \in Peers, Loses(q), TransportLost(q) PROVE q = p
      <4>1. Becomes(transport[q], "closed")
        BY <3>1, LosesOutcome
      <4>2. transport[q] = transport[p]
        BY <2>1, <2>2, <4>1 DEF Becomes
      <4>3. QED
        BY <2>1, <3>1, <4>2 DEF Loses, Attached, TypeOK
    <3>2. ASSUME NEW q \in Peers, Closes(q), Dispose(q) PROVE FALSE
      <4>1. Becomes(transport[q], "closed")
        BY <3>2, ClosesOutcome
      <4>2. transport[q] = transport[p]
        BY <2>1, <2>2, <4>1 DEF Becomes
      <4>3. transport[p] # 0 /\ transport[q] # 0
        BY <1>1, <1>3, <4>2
      <4>4. q = p
        BY <4>2, <4>3, OwnTransport
      <4>5. QED
        BY <1>1, <3>2, <4>4 DEF Dispose, TypeOK
    <3>3. ASSUME NEW c \in DOMAIN connects, Attaches(connects[c].peer, c) PROVE FALSE
      <4>1. \A e \in DOMAIN connects :
               connects'[e].status = IF e = c THEN "attached"
                                     ELSE IF e = transport[connects[c].peer] THEN "closed"
                                     ELSE connects[e].status
        BY <3>3, AttachesOutcome
      <4>2. transport[p] = transport[connects[c].peer]
        BY <2>1, <2>2, <4>1
      <4>3. connects[c].peer \in Peers /\ transport[p] # 0
        BY <1>1, <1>3, CallParts
      <4>4. connects[c].peer = p
        BY <4>2, <4>3, OwnTransport
      <4>5. QED
        BY <1>2, <3>3, <4>4
    <3>4. ASSUME NEW c \in DOMAIN connects, GoesOn(c) PROVE FALSE
      BY <2>1, <2>2, <3>4, GoesOnOutcome DEF Becomes, GoesOn
    <3>5. ASSUME NEW c \in DOMAIN connects, Drops(c) PROVE FALSE
      BY <2>1, <2>2, <3>5, DropsOutcome DEF Becomes, Drops
    <3>6. ASSUME NEW q \in Peers, Starts(q) PROVE FALSE
      BY <2>1, <2>2, <3>6, Started DEF Starts
    <3>7. QED
      BY <2>1, <2>2, <3>1, <3>2, <3>3, <3>4, <3>5, <3>6, StepKinds
  <2>4. ScheduleReconnect(p)
    BY <1>1, <2>3 DEF TransportLost
  <2>5. reconnectTimer'[p]
    BY <2>4 DEF ScheduleReconnect, TypeOK
  <2>6. QED
    BY <2>5 DEF TriedOrFailed, Trying
<1>6. QED
  BY <1>4, <1>5

(* A manager that lost its transport has a timer armed or a dial under way,*)
(* unless a whole round of dials failed (scheduleReconnect).               *)
THEOREM LostIsRetried == NetworkAssumption => (Spec => []KeepsTrying)
<1> SUFFICES ASSUME NetworkAssumption PROVE Spec => []KeepsTrying
  OBVIOUS
<1> DEFINE Inv == \A p \in Peers : Keeps(p)
<1>1. Init => Inv
  BY DEF Init, Keeps, Disconnected
<1>2. TypeOK /\ OneTransport /\ Inv /\ [Next]_vars => Inv'
  BY KeepsStep
<1>3. Inv => KeepsTrying
  BY DEF Keeps, KeepsTrying, TriedOrFailed
<1>4. Spec => []TypeOK /\ []OneTransport
  BY TypeCorrect, NoStrayTransport
<1>5. QED
  BY <1>1, <1>2, <1>3, <1>4, PTL DEF Spec

-----------------------------------------------------------------------------
(* A disposed manager stays closed, if its dispose() left nothing behind.  *)

Still(p) == /\ transport[p] = 0 /\ ~Armed(p)
            /\ \A q \in Peers : peers[p][q] = NoPeer
            /\ \A c \in DOMAIN connects : connects[c].peer = p => connects[c].status # "dialing"

LEMMA DisposedTableStep ==
  ASSUME NetworkAssumption, TypeOK, OneTransport, [Next]_vars, NEW p \in Peers, Still(p)
  PROVE  \A q \in Peers : peers'[p][q] = NoPeer
<1>1. peers'[p] = peers[p] => \A q \in Peers : peers'[p][q] = NoPeer
  BY DEF Still
<1>2. ASSUME NEW r \in Peers, Dispose(r) PROVE peers'[p] = peers[p] \/ \A q \in Peers : peers'[p][q] = NoPeer
  BY <1>2 DEF Dispose, TypeOK
<1>3. ASSUME NEW c \in DOMAIN connects, HandleSignalingMessage(c) PROVE peers'[p] = peers[p]
  <2>1. connects[c].peer # p
    BY <1>3, CallParts DEF HandleSignalingMessage, OneTransport, Still
  <2>2. \E f : peers' = [peers EXCEPT ![connects[c].peer] = f]
    <3>1. ASSUME NEW q, NEW offer, Signal(connects[c].peer, q, offer)
          PROVE  \E f : peers' = [peers EXCEPT ![connects[c].peer] = f]
      BY <3>1 DEF Signal
    <3>2. ASSUME NEW remote, NEW initiator, NEW offer, CreatePeers(connects[c].peer, remote, initiator, offer)
          PROVE  \E f : peers' = [peers EXCEPT ![connects[c].peer] = f]
      BY <3>2 DEF CreatePeers
    <3>3. QED
      BY <1>3, <3>1, <3>2 DEF HandleSignalingMessage
  <2>3. QED
    BY <2>1, <2>2 DEF TypeOK
<1>4. ASSUME NEW r \in Peers, NEW q \in Peers \ {r}, SendSignal(r, q) \/ PeerCloses(r, q)
      PROVE  peers'[p] = peers[p] \/ \A x \in Peers : peers'[p][x] = NoPeer
  <2>1. CASE r # p
    BY <1>4, <2>1 DEF SendSignal, PeerCloses, TypeOK
  <2>2. CASE r = p /\ SendSignal(r, q)
    BY <2>2 DEF SendSignal, Still, NoPeer
  <2>3. CASE r = p /\ PeerCloses(r, q)
    BY <2>3 DEF PeerCloses, Still, TypeOK
  <2>4. QED
    BY <1>4, <2>1, <2>2, <2>3
<1>5. ASSUME NEW r \in Peers, NEW q \in Peers \ {r}, ChannelOpens(r, q) PROVE peers'[p] = peers[p]
  <2>1. r # p /\ q # p
    BY <1>5 DEF ChannelOpens, Mates, Still
  <2>2. QED
    BY <1>5, <2>1 DEF ChannelOpens, TypeOK
<1>6. ASSUME NEW r \in Peers, Connect(r) \/ TransportLost(r) \/ TimerFires(r) PROVE UNCHANGED peers
  BY <1>6 DEF Connect, TransportLost, TimerFires
<1>7. ASSUME NEW c \in DOMAIN connects, DialSucceeds(c) \/ DialFails(c) \/ ServerDrops(c)
      PROVE  UNCHANGED peers
  BY <1>7 DEF DialSucceeds, DialFails, ServerDrops
<1>8. (\E u \in Indices : Outage(u) \/ Recovery(u)) \/ UNCHANGED vars => UNCHANGED peers
  BY DEF Outage, Recovery, vars
<1>9. QED
  BY <1>1, <1>2, <1>3, <1>4, <1>5, <1>6, <1>7, <1>8 DEF Next

LEMMA DisposedTimersStep ==
  ASSUME NetworkAssumption, TypeOK, [Next]_vars, NEW p \in Peers, Still(p), disposed[p]
  PROVE  ~Armed(p)'
<1>0. /\ ~Armed(p) /\ forgotten \in [Peers -> Nat]
      /\ reconnectTimer \in [Peers -> BOOLEAN]
  BY DEF Still, TypeOK
<1>1. ASSUME NEW r \in Peers, TimerFires(r) PROVE ~Armed(p)'
  BY <1>0, <1>1 DEF TimerFires, Armed
<1>2. ASSUME NEW r \in Peers, TransportLost(r) PROVE ~Armed(p)'
  BY <1>0, <1>2 DEF TransportLost, ScheduleReconnect, Attached, Still, Armed, timers
<1>3. ASSUME NEW r \in Peers, Dispose(r) PROVE ~Armed(p)'
  BY <1>0, <1>3 DEF Dispose, Armed
<1>4. ASSUME NEW q \in Peers,
             Connect(q) \/ \E r \in Peers : SendSignal(q, r) \/ ChannelOpens(q, r) \/ PeerCloses(q, r)
      PROVE  UNCHANGED timers
  BY <1>4 DEF Connect, SendSignal, ChannelOpens, PeerCloses, dials
<1>5. ASSUME NEW c \in DOMAIN connects,
             DialSucceeds(c) \/ DialFails(c) \/ ServerDrops(c) \/ HandleSignalingMessage(c)
      PROVE  UNCHANGED timers
  BY <1>5 DEF DialSucceeds, DialFails, ServerDrops, HandleSignalingMessage, dials
<1>6. (\E u \in Indices : Outage(u) \/ Recovery(u)) \/ UNCHANGED vars => UNCHANGED timers
  BY DEF Outage, Recovery, vars, dials
<1>7. QED
  BY <1>0, <1>1, <1>2, <1>3, <1>4, <1>5, <1>6 DEF Next, Armed, timers

LEMMA DisposedCallsStep ==
  ASSUME NetworkAssumption, TypeOK, [Next]_vars, NEW p \in Peers, Still(p), disposed[p]
  PROVE  /\ transport'[p] = 0
         /\ \A c \in DOMAIN connects' : connects'[c].peer = p => connects'[c].status # "dialing"
<1> DEFINE Done == /\ transport'[p] = 0
                   /\ \A c \in DOMAIN connects' : connects'[c].peer = p => connects'[c].status # "dialing"
<1>0. /\ transport[p] = 0 /\ transport \in [Peers -> 0 .. MaxConnects]
      /\ \A c \in DOMAIN connects : connects[c].peer = p => connects[c].status # "dialing"
  BY DEF Still, TypeOK
<1>1. CASE UNCHANGED <<connects, transport>>
  BY <1>0, <1>1
<1>2. ASSUME NEW r \in Peers, Starts(r), Connect(r) \/ TimerFires(r) PROVE Done
  <2>1. r # p
    BY <1>2 DEF Connect, TimerFires, Still, Armed
  <2>2. /\ DOMAIN connects' = DOMAIN connects \union {Len(connects) + 1}
        /\ \A c \in DOMAIN connects : connects'[c] = connects[c]
        /\ connects'[Len(connects) + 1].peer = r /\ transport' = transport
    BY <1>2, Started DEF Starts
  <2>3. QED
    BY <1>0, <2>1, <2>2
<1>3. ASSUME DOMAIN connects' = DOMAIN connects, SamePeers, transport'[p] = 0,
             \A c \in DOMAIN connects : connects'[c].status = "dialing" => connects[c].status = "dialing"
      PROVE  Done
  BY <1>0, <1>3 DEF SamePeers
<1>4. ASSUME NEW r \in Peers, Loses(r) PROVE Done
  BY <1>0, <1>3, <1>4, LosesOutcome DEF Loses, Becomes
<1>5. ASSUME NEW r \in Peers, Closes(r) PROVE Done
  <2>1. transport'[p] = 0
    BY <1>0, <1>5 DEF Closes
  <2>2. QED
    BY <1>3, <1>5, <2>1, ClosesOutcome DEF Becomes
<1>6. ASSUME NEW c \in DOMAIN connects, Attaches(connects[c].peer, c) PROVE Done
  <2>1. connects[c].peer # p
    BY <1>0, <1>6 DEF Attaches
  <2>2. transport'[p] = 0
    BY <1>0, <1>6, <2>1 DEF Attaches, AttachTransport
  <2>3. QED
    BY <1>3, <1>6, <2>2, AttachesOutcome
<1>7. ASSUME NEW c \in DOMAIN connects, GoesOn(c) PROVE Done
  BY <1>0, <1>3, <1>7, GoesOnOutcome DEF GoesOn, Becomes
<1>8. ASSUME NEW c \in DOMAIN connects, Drops(c) PROVE Done
  BY <1>0, <1>3, <1>8, DropsOutcome DEF Drops, Becomes
<1>9. QED
  BY <1>1, <1>2, <1>4, <1>5, <1>6, <1>7, <1>8, StepKinds

LEMMA DisposeCloses ==
  ASSUME NetworkAssumption, TypeOK, NEW p \in Peers, Dispose(p), ~leftover'[p]
  PROVE  Still(p)'
<1>1. Dialing(p) = {} /\ ~Armed(p)'
  <2>1. leftover'[p] = (Dialing(p) # {} \/ forgotten[p] > 0)
    BY DEF Dispose, TypeOK
  <2>2. reconnectTimer'[p] = FALSE /\ forgotten' = forgotten
    BY DEF Dispose, TypeOK
  <2>3. QED
    BY <2>1, <2>2 DEF Armed
<1>2. /\ DOMAIN connects' = DOMAIN connects /\ SamePeers /\ Becomes(transport[p], "closed")
      /\ transport'[p] = 0
  BY ClosesOutcome DEF Dispose, Closes, TypeOK
<1>3. \A q \in Peers : peers'[p][q] = NoPeer
  BY DEF Dispose, TypeOK
<1>4. QED
  BY <1>1, <1>2, <1>3 DEF Still, Dialing, SamePeers, Becomes

(* After dispose() nothing is open, armed or dialled, nor comes back,      *)
(* unless dispose() left a dial or a forgotten timer behind.               *)
THEOREM DisposeIsFinal == NetworkAssumption => (Spec => []DisposedIsClosed)
<1> SUFFICES ASSUME NetworkAssumption PROVE Spec => []DisposedIsClosed
  OBVIOUS
<1> DEFINE Inv == \A p \in Peers : disposed[p] /\ ~leftover[p] => Still(p)
<1>1. Init => Inv
  BY DEF Init
<1>2. TypeOK /\ OneTransport /\ Inv /\ [Next]_vars => Inv'
  <2> SUFFICES ASSUME TypeOK, OneTransport, Inv, [Next]_vars, NEW p \in Peers,
                      disposed'[p], ~leftover'[p]
               PROVE  Still(p)'
    OBVIOUS
  <2>1. CASE Dispose(p)
    BY <2>1, DisposeCloses
  <2>2. CASE ~Dispose(p)
    <3>1. disposed[p] /\ ~leftover[p]
      BY <2>2, DisposedStep
    <3>2. Still(p)
      BY <3>1
    <3>3. QED
      BY <3>1, <3>2, DisposedTableStep, DisposedTimersStep, DisposedCallsStep DEF Still
  <2>3. QED
    BY <2>1, <2>2
<1>3. TypeOK /\ Inv => DisposedIsClosed
  <2> SUFFICES ASSUME TypeOK, Inv, NEW p \in Peers, disposed[p], ~leftover[p]
               PROVE  transport[p] = 0 /\ Table(p) = {} /\ ~Trying(p)
    BY DEF DisposedIsClosed
  <2>1. Still(p)
    OBVIOUS
  <2>2. QED
    BY <2>1 DEF Still, Table, Trying, Dialing, Armed
<1>4. Spec => []TypeOK /\ []OneTransport
  BY TypeCorrect, NoStrayTransport
<1>5. QED
  BY <1>1, <1>2, <1>3, <1>4, PTL DEF Spec

=============================================================================
