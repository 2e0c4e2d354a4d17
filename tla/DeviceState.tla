----------------------------- MODULE DeviceState ------------------------------
(***************************************************************************)
(* What the device state machine promises to the rest of the program: one  *)
(* event is served at a time, it moves the state along the transition      *)
(* table or leaves it, and by the time the call returns every observer has *)
(* been shown the new state and the device mode.                           *)
(*                                                                         *)
(*   state, mode   the device state and mode                               *)
(*   shown         per observer, the state and the mode it was told last   *)
(*   busy          a call is being served                                  *)
(***************************************************************************)
EXTENDS StateTable

CONSTANTS Table,      \* the transition table
          Observers   \* who is told of changes

VARIABLES state, mode, shown, busy

vars == <<state, mode, shown, busy>>

Init == /\ state = "DEVICE_ON"
        /\ mode = "MANUAL"
        /\ shown = [o \in Observers |-> [state |-> state, mode |-> mode]]
        /\ busy = FALSE

\* A call begins.
Call == ~busy /\ busy' = TRUE /\ UNCHANGED <<state, mode, shown>>

\* The call's event moves the state along the table.
Move == /\ busy
        /\ \E e \in Event : state' = Target(Table, state, e)
        /\ UNCHANGED <<mode, shown, busy>>

\* A call sets the mode: the switch itself is the start of the call.
SetMode == /\ ~busy
           /\ busy' = TRUE
           /\ mode' \in Mode
           /\ UNCHANGED <<state, shown>>

\* An observer is shown the present state, or the present mode.
Show(o) == /\ busy
           /\ \/ shown' = [shown EXCEPT ![o].state = state]
              \/ shown' = [shown EXCEPT ![o].mode = mode]
           /\ UNCHANGED <<state, mode, busy>>

\* The call returns once nobody is left with an outdated view.
Return == /\ busy
          /\ \A o \in Observers : shown[o] = [state |-> state, mode |-> mode]
          /\ busy' = FALSE
          /\ UNCHANGED <<state, mode, shown>>

Next == Call \/ Move \/ SetMode \/ (\E o \in Observers : Show(o)) \/ Return

Spec == Init /\ [][Next]_vars
===============================================================================
