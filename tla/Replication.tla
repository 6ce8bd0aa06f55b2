---------------------------- MODULE Replication ----------------------------
(***************************************************************************)
(* What ZerithDB's documents promise, without queues, peers' connections   *)
(* or messages: every update is written once, by one peer; a replica only  *)
(* ever holds written updates and only grows while its tab lives; what was *)
(* saved to IndexedDB survives the tab and can be merged back after it.    *)
(***************************************************************************)
CONSTANTS Peers, Updates

VARIABLES written,   \* the updates some peer has made
          replica,   \* replica[p]: the updates in the documents p has open
          saved      \* saved[p]: the updates in p's IndexedDB

vars == <<written, replica, saved>>

Init ==
  /\ written = {}
  /\ replica = [p \in Peers |-> {}]
  /\ saved = [p \in Peers |-> {}]

Write(p, u) ==
  /\ u \notin written
  /\ written' = written \union {u}
  /\ replica' = [replica EXCEPT ![p] = @ \union {u}]
  /\ UNCHANGED saved

Merge(p, us) ==
  /\ us \subseteq written
  /\ replica' = [replica EXCEPT ![p] = @ \union us]
  /\ UNCHANGED <<written, saved>>

Save(p, us) ==
  /\ us \subseteq replica[p]
  /\ saved' = [saved EXCEPT ![p] = @ \union us]
  /\ UNCHANGED <<written, replica>>

Restart(p) ==
  /\ replica' = [replica EXCEPT ![p] = {}]
  /\ UNCHANGED <<written, saved>>

Next == \E p \in Peers :
  \/ \E u \in Updates : Write(p, u)
  \/ \E us \in SUBSET Updates : Merge(p, us) \/ Save(p, us)
  \/ Restart(p)

Spec == Init /\ [][Next]_vars
=============================================================================
