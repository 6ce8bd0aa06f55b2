---------------------------- MODULE MCSignaling ----------------------------
(* Instances of SignalingServer for TLC.                                   *)
EXTENDS SignalingServer, TLC

CONSTANTS p, q, w1, s1, s2, room

(* p comes over a socket and again by polling, q by polling.               *)
MixedPeers == (w1 :> p) @@ (s1 :> q) @@ (s2 :> p)
OneRoom    == [c \in Connections |-> room]

=============================================================================
