---------------------------- MODULE MCClientSync ----------------------------
(***************************************************************************)
(* Small instances of ClientSync: a server with one device at first, or,   *)
(* for AllReceived, with two.                                              *)
(***************************************************************************)
EXTENDS ClientSync

CONSTANTS d1, d2

OneList == {<<d1>>}
TwoList == {<<d1, d2>>}
=============================================================================
