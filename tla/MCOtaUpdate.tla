---------------------------- MODULE MCOtaUpdate ----------------------------
(***************************************************************************)
(* Instance of OtaUpdate for TLC: one image that proves itself, one that   *)
(* never gets an address, and a file that is not this firmware.            *)
(***************************************************************************)
EXTENDS OtaUpdate

CONSTANTS good, deaf, alien
=============================================================================
