---------------------------- MODULE MCDeviceCall ----------------------------
(***************************************************************************)
(* Small instances of DeviceCall.  Callers are interchangeable.            *)
(***************************************************************************)
EXTENDS DeviceCall, TLC

Symmetry == Permutations(Callers)
=============================================================================
