-------------------------- MODULE MCWebSocketServer --------------------------
(***************************************************************************)
(* Instances of WebSocketServer for TLC.                                   *)
(***************************************************************************)
EXTENDS WebSocketServer, TLC

CONSTANTS c1, c2, u1, nothread

Symmetry == Permutations({c1, c2})

=============================================================================
