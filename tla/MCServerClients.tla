--------------------------- MODULE MCServerClients ---------------------------
(***************************************************************************)
(* Instances of ServerClients for TLC.                                     *)
(***************************************************************************)
EXTENDS ServerClients, TLC

CONSTANTS c1, c2, noclient

=============================================================================
