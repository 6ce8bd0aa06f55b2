--------------------------- MODULE EphemeralState ---------------------------
(***************************************************************************)
(* One EphemeralStateManager per peer (packages/sync/src/ephemeral-state.ts)*)
(* over the data channels of the mesh: presence that is never stored, sent *)
(* at once or after a throttle, numbered by its sender and pruned when     *)
(* nothing newer arrives.  With biometric signing, NetworkManager awaits a *)
(* signature before it sends and a verification before it delivers, so     *)
(* a peer's messages may overtake one another; without it they do not.     *)
(***************************************************************************)
EXTENDS Integers, FiniteSets

CONSTANTS
  Peers,
  Throttled,     \* peers whose config has throttleMs > 0
  Signed,        \* peers whose messages are signed, and verified by the others
  Fickle,        \* bound: peers that disable, enable or dispose of sync
  MaxSequence,   \* bound: changes each peer makes to its state
  MaxLinks       \* bound: WebRTC connections made in a behaviour

ASSUME EphemeralAssumption ==
  /\ Throttled \subseteq Peers /\ Signed \subseteq Peers /\ Fickle \subseteq Peers
  /\ MaxSequence \in [Peers -> Nat]
  /\ MaxLinks \in Nat

VARIABLES
  localState,      \* localState[p]: the change that made it, 0 for {}
  sequence,        \* sequence[p]: number of p's last change
  states,          \* states[q][p]: what q shows of p
  enabled,         \* enabled[p]: is p listening and broadcasting
  broadcastTimer,  \* broadcastTimer[p]: what the armed timer will broadcast
  signing,         \* messages whose signature is awaited
  wire,            \* messages on the data channels, or being verified
  link,            \* live WebRTC connections, as pairs of peers
  links,
  heard,           \* history: heard[q][p], the highest number of p q handled
  meant,           \* history: p's last change that was to be broadcast
  audience         \* history: peers listening to p ever since that change

vars == <<localState, sequence, states, enabled, broadcastTimer, signing, wire,
          link, links, heard, meant, audience>>

-----------------------------------------------------------------------------
Nothing == [shown |-> FALSE]

(* An EphemeralPeerState; receivedAt has the keys of states, and its times *)
(* are left to Prune.                                                      *)
PeerState == [shown: {FALSE}] \union [shown: {TRUE}, sequence: Nat, state: Nat]

Message == [from: Peers, sequence: Nat, state: Nat, remove: BOOLEAN]
Packet  == [to: Peers, message: Message]

Linked(p) == {q \in Peers : {p, q} \in link}

Listeners(p) == {q \in Linked(p) : enabled[q]}

Init ==
  /\ localState = [p \in Peers |-> 0]
  /\ sequence = [p \in Peers |-> 0]
  /\ states = [q \in Peers |-> [p \in Peers |-> Nothing]]
  /\ enabled = [p \in Peers |-> TRUE]
  /\ broadcastTimer = [p \in Peers |-> "none"]
  /\ signing = {}
  /\ wire = {}
  /\ link = {}
  /\ links = 0
  /\ heard = [q \in Peers |-> [p \in Peers |-> 0]]
  /\ meant = [p \in Peers |-> [sequence |-> 0, remove |-> TRUE]]
  /\ audience = [p \in Peers |-> {}]

-----------------------------------------------------------------------------
(* The local peer changes its state.                                       *)

Send(m) == wire' = wire \union {[to |-> q, message |-> m] : q \in Linked(m.from)}

(* The number and the state are those of the moment of sending; whether it *)
(* is a tombstone was decided when the broadcast was asked for.            *)
FlushBroadcast(p, remove) ==
  LET m == [from |-> p, sequence |-> sequence'[p], remove |-> remove,
            state |-> IF remove THEN 0 ELSE localState'[p]]
  IN  IF p \in Signed
      THEN signing' = signing \union {m} /\ UNCHANGED wire
      ELSE Send(m) /\ UNCHANGED signing

(* Mutant: an immediate broadcast leaves the armed timer alone.            *)
BroadcastKeepsTimer(p, remove, immediate) ==
  \/ /\ ~enabled[p]
     /\ UNCHANGED <<broadcastTimer, signing, wire>>
  \/ /\ enabled[p]
     /\ immediate \/ p \notin Throttled
     /\ UNCHANGED broadcastTimer
     /\ FlushBroadcast(p, remove)
  \/ /\ enabled[p]
     /\ ~immediate /\ p \in Throttled
     /\ broadcastTimer' = [broadcastTimer EXCEPT ![p] =
          IF remove THEN "remove" ELSE IF @ = "none" THEN "state" ELSE @]
     /\ UNCHANGED <<signing, wire>>

(* broadcast: at once, or when the throttle's timer fires.  A timer that   *)
(* is armed is kept, and only a tombstone replaces it.                     *)
Broadcast(p, remove, immediate) ==
  \/ /\ ~enabled[p]
     /\ UNCHANGED <<broadcastTimer, signing, wire>>
  \/ /\ enabled[p]
     /\ immediate \/ p \notin Throttled
     /\ broadcastTimer' = [broadcastTimer EXCEPT ![p] = "none"]
     /\ FlushBroadcast(p, remove)
  \/ /\ enabled[p]
     /\ ~immediate /\ p \in Throttled
     /\ broadcastTimer' = [broadcastTimer EXCEPT ![p] =
          IF remove THEN "remove" ELSE IF @ = "none" THEN "state" ELSE @]
     /\ UNCHANGED <<signing, wire>>

(* The options of a change: broadcast it or not, throttled or immediate.   *)
Announce(p, remove, broadcast, immediate) ==
  IF broadcast
  THEN /\ Broadcast(p, remove, immediate)
       /\ meant' = [meant EXCEPT ![p] = [sequence |-> sequence'[p], remove |-> remove]]
       /\ audience' = [audience EXCEPT ![p] = IF enabled[p] THEN Listeners(p) ELSE {}]
  ELSE UNCHANGED <<broadcastTimer, signing, wire, meant, audience>>

(* setLocalState, patchLocalState, setLocalField, all by commitLocalState. *)
CommitLocalState(p, broadcast, immediate) ==
  /\ sequence[p] < MaxSequence[p]
  /\ sequence' = [sequence EXCEPT ![p] = @ + 1]
  /\ localState' = [localState EXCEPT ![p] = sequence'[p]]
  /\ states' = [states EXCEPT ![p][p] =
       [shown |-> TRUE, sequence |-> sequence'[p], state |-> sequence'[p]]]
  /\ Announce(p, FALSE, broadcast, immediate)
  /\ UNCHANGED <<enabled, link, links, heard>>

(* Mutant: a removal starts the numbering again.                           *)
RemoveLocalStateRestarts(p, broadcast, immediate) ==
  /\ sequence[p] < MaxSequence[p]
  /\ sequence' = [sequence EXCEPT ![p] = 0]
  /\ localState' = [localState EXCEPT ![p] = 0]
  /\ states' = [states EXCEPT ![p][p] = Nothing]
  /\ Announce(p, TRUE, broadcast, immediate)
  /\ UNCHANGED <<enabled, link, links, heard>>

RemoveLocalState(p, broadcast, immediate) ==
  /\ sequence[p] < MaxSequence[p]
  /\ sequence' = [sequence EXCEPT ![p] = @ + 1]
  /\ localState' = [localState EXCEPT ![p] = 0]
  /\ states' = [states EXCEPT ![p][p] = Nothing]
  /\ Announce(p, TRUE, broadcast, immediate)
  /\ UNCHANGED <<enabled, link, links, heard>>

TimerFires(p) ==
  /\ broadcastTimer[p] # "none"
  /\ UNCHANGED <<sequence, localState>>
  /\ broadcastTimer' = [broadcastTimer EXCEPT ![p] = "none"]
  /\ FlushBroadcast(p, broadcastTimer[p] = "remove")
  /\ UNCHANGED <<states, enabled, link, links, heard, meant, audience>>

(* NetworkManager.signAndSendAsync after its awaits.                       *)
Sign(m) ==
  /\ m \in signing
  /\ signing' = signing \ {m}
  /\ Send(m)
  /\ UNCHANGED <<localState, sequence, states, enabled, broadcastTimer, link,
                 links, heard, meant, audience>>

-----------------------------------------------------------------------------
(* A message of another peer arrives.                                      *)

(* Mutant: a state is taken whatever its number.                           *)
TakesAny(previous, m) == TRUE

Takes(previous, m) == previous.shown => m.sequence > previous.sequence

OnNetworkMessage(q, m) ==
  IF enabled[q]
  THEN /\ states' = [states EXCEPT ![q][m.from] =
            IF ~ Takes(@, m) THEN @
            ELSE IF m.remove THEN Nothing
            ELSE [shown |-> TRUE, sequence |-> m.sequence, state |-> m.state]]
       /\ heard' = [heard EXCEPT ![q][m.from] = IF m.sequence > @ THEN m.sequence ELSE @]
  ELSE UNCHANGED <<states, heard>>

(* A data channel keeps the order; verification does not.                  *)
Receive(packet) ==
  /\ packet \in wire
  /\ packet.message.from \notin Signed => \A other \in wire :
       (other.to = packet.to /\ other.message.from = packet.message.from)
         => other.message.sequence >= packet.message.sequence
  /\ wire' = wire \ {packet}
  /\ OnNetworkMessage(packet.to, packet.message)
  /\ UNCHANGED <<localState, sequence, enabled, broadcastTimer, signing, link,
                 links, meant, audience>>

(* Mutant: the cleanup looks at connected peers only.                      *)
PruneConnected(q, gone) ==
  /\ enabled[q]
  /\ gone # {}
  /\ gone \subseteq {p \in Linked(q) : states[q][p].shown}
  /\ states' = [states EXCEPT ![q] =
       [p \in Peers |-> IF p \in gone THEN Nothing ELSE @[p]]]
  /\ audience' = [p \in Peers |-> IF p \in gone THEN audience[p] \ {q} ELSE audience[p]]
  /\ UNCHANGED <<localState, sequence, enabled, broadcastTimer, signing, wire,
                 link, links, heard, meant>>

(* The cleanup interval finds that nothing came from the peers in gone for *)
(* staleAfterMs.                                                           *)
Prune(q, gone) ==
  /\ enabled[q]
  /\ gone # {}
  /\ gone \subseteq {p \in Peers \ {q} : states[q][p].shown}
  /\ states' = [states EXCEPT ![q] =
       [p \in Peers |-> IF p \in gone THEN Nothing ELSE @[p]]]
  /\ audience' = [p \in Peers |-> IF p \in gone THEN audience[p] \ {q} ELSE audience[p]]
  /\ UNCHANGED <<localState, sequence, enabled, broadcastTimer, signing, wire,
                 link, links, heard, meant>>

-----------------------------------------------------------------------------
(* enable, disable and dispose; connections.                               *)

Enable(p) ==
  /\ ~enabled[p]
  /\ enabled' = [enabled EXCEPT ![p] = TRUE]
  /\ UNCHANGED <<localState, sequence, states, broadcastTimer, signing, wire,
                 link, links, heard, meant, audience>>

(* Mutant: disabling leaves the broadcast timer armed.                     *)
StopListeningKeepsTimer(p) ==
  /\ enabled' = [enabled EXCEPT ![p] = FALSE]
  /\ audience' = [q \in Peers |-> IF q = p THEN {} ELSE audience[q] \ {p}]
  /\ UNCHANGED broadcastTimer

(* What p was to broadcast is dropped, and p stops listening.              *)
StopListening(p) ==
  /\ enabled' = [enabled EXCEPT ![p] = FALSE]
  /\ broadcastTimer' = [broadcastTimer EXCEPT ![p] = "none"]
  /\ audience' = [q \in Peers |-> IF q = p THEN {} ELSE audience[q] \ {p}]

Disable(p) ==
  /\ p \in Fickle
  /\ enabled[p]
  /\ StopListening(p)
  /\ UNCHANGED <<localState, sequence, states, signing, wire, link, links, heard,
                 meant>>

(* Own state and numbers stay; the views are cleared.                      *)
Dispose(p) ==
  /\ p \in Fickle
  /\ StopListening(p)
  /\ states' = [states EXCEPT ![p] = [q \in Peers |-> Nothing]]
  /\ UNCHANGED <<localState, sequence, signing, wire, link, links, heard, meant>>

LinkUp(p, q) ==
  /\ p # q /\ {p, q} \notin link
  /\ links < MaxLinks
  /\ links' = links + 1
  /\ link' = link \union {{p, q}}
  /\ UNCHANGED <<localState, sequence, states, enabled, broadcastTimer, signing,
                 wire, heard, meant, audience>>

(* What is on the channel is lost; what is being verified is not.          *)
LinkDown(p, q) ==
  LET between == {packet \in wire : {packet.to, packet.message.from} = {p, q}}
      unread  == {packet \in between : packet.message.from \notin Signed}
  IN
  /\ {p, q} \in link
  /\ link' = link \ {{p, q}}
  /\ \E lost \in SUBSET between : unread \subseteq lost /\ wire' = wire \ lost
  /\ audience' = [audience EXCEPT ![p] = @ \ {q}, ![q] = @ \ {p}]
  /\ UNCHANGED <<localState, sequence, states, enabled, broadcastTimer, signing,
                 links, heard, meant>>

-----------------------------------------------------------------------------
Change(p) == \E broadcast, immediate \in BOOLEAN :
  \/ CommitLocalState(p, broadcast, immediate)
  \/ RemoveLocalState(p, broadcast, immediate)

Pruned(q) == \E gone \in SUBSET Peers : Prune(q, gone)

Next ==
  \/ \E p \in Peers :
       \/ Change(p)
       \/ TimerFires(p)
       \/ Pruned(p)
       \/ Enable(p)
       \/ Disable(p)
       \/ Dispose(p)
  \/ \E m \in signing : Sign(m)
  \/ \E packet \in wire : Receive(packet)
  \/ \E p, q \in Peers : LinkUp(p, q) \/ LinkDown(p, q)

(* The browser fires its timers, signs and delivers; a state that is shown *)
(* and not renewed grows stale.  Nothing is assumed of the application.    *)
Fairness ==
  /\ \A p \in Peers : WF_vars(TimerFires(p)) /\ WF_vars(Pruned(p))
  /\ WF_vars(\E m \in signing : Sign(m))
  /\ WF_vars(\E packet \in wire : Receive(packet))

Spec == Init /\ [][Next]_vars

FairSpec == Spec /\ Fairness

-----------------------------------------------------------------------------
(* Properties.                                                             *)

(* Everything stays within its type, and a broadcast is armed only while   *)
(* the peer listens (disable clears the timer).                            *)
TypeOK ==
  /\ localState \in [Peers -> Nat]
  /\ sequence \in [Peers -> Nat]
  /\ states \in [Peers -> [Peers -> PeerState]]
  /\ enabled \in [Peers -> BOOLEAN]
  /\ broadcastTimer \in [Peers -> {"none", "state", "remove"}]
  /\ \A p \in Peers : broadcastTimer[p] # "none" => enabled[p]
  /\ signing \subseteq Message
  /\ wire \subseteq Packet
  /\ link \subseteq SUBSET Peers
  /\ links \in Nat
  /\ heard \in [Peers -> [Peers -> Nat]]
  /\ meant \in [Peers -> [sequence: Nat, remove: BOOLEAN]]
  /\ audience \in [Peers -> SUBSET Peers]

(* What a peer shows of one that does not sign is the newest thing it ever *)
(* handled of it: neither a tombstone nor a pruning, which both forget the *)
(* number, lets an older state come back (onNetworkMessage).               *)
NeverBackwards ==
  \A q \in Peers : \A p \in Peers \ (Signed \union {q}) :
    states[q][p].shown => states[q][p].sequence = heard[q][p]

Quiet(p) ==
  /\ broadcastTimer[p] = "none"
  /\ \A m \in signing : m.from # p
  /\ \A packet \in wire : packet.message.from # p

(* Once a peer that does not sign has nothing more to send, those who      *)
(* listened all along show nothing of it if its last change was a removal, *)
(* and nothing older than that change otherwise (broadcast, its timer).    *)
AudienceAgrees ==
  \A p \in Peers \ Signed : Quiet(p) => \A q \in audience[p] \ {p} :
    states[q][p].shown =>
      ~meant[p].remove /\ states[q][p].sequence >= meant[p].sequence

(* Once a peer that is not throttled has nothing more to send, those who   *)
(* listened all along show its last state, in whatever order its messages  *)
(* came (commitLocalState, onNetworkMessage).                              *)
UpdatesArrive ==
  \A p \in Peers \ Throttled : Quiet(p) => \A q \in audience[p] \ {p} :
    ~meant[p].remove => states[q][p] =
      [shown |-> TRUE, sequence |-> meant[p].sequence, state |-> meant[p].sequence]

(* A peer that is gone for good fades from the views of those listening.   *)
DepartedFade ==
  \A q \in Peers : \A p \in Peers \ {q} :
    <>[](enabled[q] /\ p \notin Linked(q)) => <>[](~states[q][p].shown)

(* As the option "broadcast" has it: a change that was to be broadcast     *)
(* reaches those who listen.  A throttled removal that is still waiting    *)
(* takes the state set after it away.                                      *)
UpdatesAreBroadcast ==
  \A p \in Peers : Quiet(p) => \A q \in audience[p] \ {p} :
    ~meant[p].remove => states[q][p].shown

=============================================================================
