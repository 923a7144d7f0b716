-------------------------- MODULE MCWifiProvision --------------------------
(***************************************************************************)
(* Instance of WifiProvision for TLC: one open and one secured network.    *)
(***************************************************************************)
EXTENDS WifiProvision

CONSTANTS home, cafe
=============================================================================
