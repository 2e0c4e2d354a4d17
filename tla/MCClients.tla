------------------------------- MODULE MCClients -------------------------------
(***************************************************************************)
(* A command and a request for readings, from two of the clients.          *)
(***************************************************************************)
EXTENDS Clients

TwoMessages == {[from |-> 1, command |-> "getReadings"], [from |-> 2, command |-> "START"]}
===============================================================================
