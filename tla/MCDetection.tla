---------------------------- MODULE MCDetection ----------------------------
(***************************************************************************)
(* Small instances of Detection for TLC.  The devices are interchangeable, *)
(* and so are the requesting threads.                                      *)
(***************************************************************************)
EXTENDS Detection, TLC

Symmetry == Permutations(Devices) \cup Permutations(Requesters)
=============================================================================
