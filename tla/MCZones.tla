------------------------------- MODULE MCZones -------------------------------
(***************************************************************************)
(* Three zones for TLC, and each kind of driver: one that can have one or  *)
(* two LEDs, one for effects only (with the driver that knows such zones)  *)
(* that can be empty, and one that cannot be resized.                      *)
(***************************************************************************)
EXTENDS Zones

CONSTANTS red, black, junk

MinSizes == <<1, 0, 1>>
MaxSizes == <<2, 2, 1>>
FromDevice == <<red, black, red>>

=============================================================================
