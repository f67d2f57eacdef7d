----------------------------- MODULE MCProfiles -----------------------------
(***************************************************************************)
(* Instances of Profiles for TLC: the first two devices cannot be told     *)
(* apart.                                                                  *)
(***************************************************************************)
EXTENDS Profiles

CONSTANTS red, black, twin

Twins == <<twin, twin>>

=============================================================================
