---------------------------- MODULE MCDeviceList ----------------------------
(***************************************************************************)
(* Small instances of DeviceList.  Each controller object lives once: a    *)
(* device that comes back is another object.                               *)
(***************************************************************************)
EXTENDS DeviceList

Symmetry == Permutations(Controllers)
=============================================================================
