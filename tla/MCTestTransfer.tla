---------------------------- MODULE MCTestTransfer ----------------------------
(***************************************************************************)
(* Three different requests, at any distance from each other: enough for   *)
(* two to arrive during the transfer of the first, one between the scans.  *)
(***************************************************************************)
EXTENDS TestTransfer

OneType  == {"SwitchTest"}
Levels   == {"LOAD_25P", "LOAD_50P", "LOAD_75P"}
===============================================================================
