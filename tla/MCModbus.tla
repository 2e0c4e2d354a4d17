------------------------------- MODULE MCModbus -------------------------------
(***************************************************************************)
(* Calls on a coil with a switch target of the coil server (0), and on one *)
(* that gets a target of the server with the watchdog's first look only    *)
(* (2).                                                                    *)
(***************************************************************************)
EXTENDS ModbusManager

Calls(c, states) == [i \in DOMAIN states |-> [coil |-> c, state |-> states[i]]]

SomeCalls == { Calls(0, <<"ON", "OFF">>), Calls(2, <<"ON", "OFF">>),
               Calls(0, <<"OFF", "OFF", "OFF">>) }
===============================================================================
