---------------------------- MODULE MCEphemeral ----------------------------
(* Instances of EphemeralState for TLC: two peers, a throttled, b not. *)
EXTENDS EphemeralState, TLC

CONSTANTS a, b

ThePeers     == {a, b}
OneThrottled == {a}
ThreeOfA     == (a :> 3) @@ (b :> 2)
OtherSigns   == {b}

=============================================================================
