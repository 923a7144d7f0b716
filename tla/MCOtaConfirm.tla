---------------------------- MODULE MCOtaConfirm ----------------------------
(***************************************************************************)
(* Instance of OtaConfirm for TLC.                                         *)
(***************************************************************************)
EXTENDS OtaConfirm
=============================================================================
