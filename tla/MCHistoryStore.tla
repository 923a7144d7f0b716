--------------------------- MODULE MCHistoryStore ---------------------------
(***************************************************************************)
(* Instance of HistoryStore for TLC.                                       *)
(***************************************************************************)
EXTENDS HistoryStore
=============================================================================
