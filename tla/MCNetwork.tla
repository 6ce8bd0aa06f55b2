----------------------------- MODULE MCNetwork -----------------------------
(* Instances of NetworkManager for TLC.                                    *)
EXTENDS NetworkManager, TLC

CONSTANTS n1, n2

(* n1 falls back from WebSockets to polling, n2 has WebSockets only.       *)
Mixed == (n1 :> "auto") @@ (n2 :> "websocket")

=============================================================================
