--------------------------- MODULE MCWebSocketHub ---------------------------
(* Instances of WebSocketHub for TLC.  Clients are interchangeable. *)
EXTENDS WebSocketHub, TLC

ClientSymmetry == Permutations(Client)
=============================================================================
