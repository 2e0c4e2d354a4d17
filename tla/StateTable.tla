------------------------------ MODULE StateTable ------------------------------
(***************************************************************************)
(* The constant part of the device state machine: the states and events of *)
(* StateDefines.h and the transition table StateMachine.cpp builds from    *)
(* its regular and its special-case rows.                                  *)
(***************************************************************************)
EXTENDS Naturals, Sequences, FiniteSetsExt

State == {"DEVICE_ON", "DEVICE_OK", "DEVICE_SETUP", "DEVICE_READY",
          "READY_TO_PROCEED", "TEST_START", "TEST_RUNNING",
          "CURRENT_TEST_CHECK", "CURRENT_TEST_OK", "READY_NEXT_TEST",
          "MANUAL_NEXT_TEST", "RETEST", "SYSTEM_PAUSED", "ALL_TEST_DONE",
          "START_FROM_SAVE", "RECOVER_DATA", "ADDENDUM_TEST_DATA",
          "FAILED_TEST", "TRANSPORT_DATA", "SYSTEM_TUNING", "FAULT",
          "USER_CHECK_REQUIRED", "WAITING_FOR_USER", "MAX_STATE"}

Event == {"NONE", "ERROR", "SYSTEM_FAULT", "FAULT_CLEARED",
          "NETWORK_DISCONNECTED", "RESTART", "SETTING_LOADED",
          "SELF_CHECK_OK", "LOAD_BANK_CHECKED", "TEST_RUN_OK",
          "TEST_TIME_END", "DATA_CAPTURED", "VALID_DATA", "TEST_FAILED",
          "RETEST", "TEST_LIST_EMPTY", "PENDING_TEST_FOUND",
          "REJECT_CURRENT_TEST", "START", "STOP", "AUTO", "MANUAL", "PAUSE",
          "RESUME", "USER_TUNE", "DATA_ENTRY", "NEW_TEST", "DELETE_TEST",
          "SAVE", "JSON_READY"}

Mode == {"AUTO", "MANUAL"}

(***************************************************************************)
(* A row without an explicit action gets the template's default one, which *)
(* notifies every observer of the new state a second time; the functions   *)
(* and lambdas the code passes explicitly change no state.  The lambdas    *)
(* that test the mode are passed as actions, so every guard is the default *)
(* one and holds.                                                          *)
(***************************************************************************)
RowType == [from : State, on : Event, to : State, renotify : BOOLEAN]

Row(from, on, to) == [from |-> from, on |-> on, to |-> to, renotify |-> TRUE]

RowWithAction(from, on, to) == [Row(from, on, to) EXCEPT !.renotify = FALSE]

RegularTransitions ==
  << RowWithAction("DEVICE_ON", "SELF_CHECK_OK", "DEVICE_OK"),
     Row("DEVICE_OK", "SETTING_LOADED", "DEVICE_SETUP"),
     Row("DEVICE_SETUP", "LOAD_BANK_CHECKED", "DEVICE_READY"),
     Row("DEVICE_READY", "NEW_TEST", "READY_TO_PROCEED"),
     Row("READY_TO_PROCEED", "NEW_TEST", "READY_TO_PROCEED"),
     Row("DEVICE_READY", "REJECT_CURRENT_TEST", "DEVICE_READY"),
     RowWithAction("READY_TO_PROCEED", "REJECT_CURRENT_TEST", "DEVICE_READY"),
     Row("READY_TO_PROCEED", "START", "TEST_START"),
     Row("TEST_START", "STOP", "READY_TO_PROCEED"),
     Row("TEST_START", "TEST_RUN_OK", "TEST_RUNNING"),
     Row("TEST_RUNNING", "STOP", "READY_TO_PROCEED"),
     Row("TEST_START", "TEST_FAILED", "USER_CHECK_REQUIRED"),
     Row("TEST_RUNNING", "TEST_FAILED", "RETEST"),
     Row("USER_CHECK_REQUIRED", "START", "TEST_START"),
     Row("CURRENT_TEST_CHECK", "VALID_DATA", "CURRENT_TEST_OK"),
     Row("CURRENT_TEST_CHECK", "TEST_FAILED", "RETEST"),
     Row("CURRENT_TEST_OK", "SAVE", "READY_NEXT_TEST"),
     RowWithAction("READY_NEXT_TEST", "PENDING_TEST_FOUND", "TEST_START"),
     RowWithAction("READY_NEXT_TEST", "PENDING_TEST_FOUND", "WAITING_FOR_USER"),
     Row("READY_NEXT_TEST", "TEST_LIST_EMPTY", "ALL_TEST_DONE"),
     Row("CURRENT_TEST_OK", "TEST_FAILED", "RECOVER_DATA"),
     Row("RECOVER_DATA", "SAVE", "START_FROM_SAVE"),
     Row("ALL_TEST_DONE", "JSON_READY", "TRANSPORT_DATA") >>

\* The array has room for twelve rows and eleven are written: the last one is
\* the zero-initialised padding, which no caller's event selects.
SpecialCaseTransitions ==
  << RowWithAction("TEST_RUNNING", "TEST_TIME_END", "CURRENT_TEST_CHECK"),
     RowWithAction("TEST_RUNNING", "DATA_CAPTURED", "CURRENT_TEST_CHECK"),
     Row("CURRENT_TEST_CHECK", "TEST_TIME_END", "CURRENT_TEST_CHECK"),
     RowWithAction("ALL_TEST_DONE", "TEST_FAILED", "RECOVER_DATA"),
     RowWithAction("ADDENDUM_TEST_DATA", "JSON_READY", "TRANSPORT_DATA"),
     RowWithAction("ADDENDUM_TEST_DATA", "TEST_FAILED", "RECOVER_DATA"),
     RowWithAction("SYSTEM_TUNING", "AUTO", "RECOVER_DATA"),
     RowWithAction("FAULT", "FAULT_CLEARED", "RECOVER_DATA"),
     RowWithAction("SYSTEM_PAUSED", "AUTO", "START_FROM_SAVE"),
     Row("START_FROM_SAVE", "PENDING_TEST_FOUND", "TEST_START"),
     RowWithAction("FAULT", "RESTART", "DEVICE_ON"),
     RowWithAction("DEVICE_ON", "NONE", "DEVICE_ON") >>

TransitionTable == RegularTransitions \o SpecialCaseTransitions

(***************************************************************************)
(* The three events handleEvent serves before it looks at the table.       *)
(***************************************************************************)
Override == [SYSTEM_FAULT |-> "FAULT", PAUSE |-> "SYSTEM_PAUSED",
             USER_TUNE |-> "SYSTEM_TUNING"]

IsOverride(e) == e \in DOMAIN Override

\* The rows of event e, by position; the scan tries them in this order.
RowsOf(table, e) == {i \in DOMAIN table : table[i].on = e}

\* The state event e leads to when handleEvent runs undisturbed from s.
Target(table, s, e) ==
  LET matching == {i \in RowsOf(table, e) : table[i].from = s}
  IN  CASE IsOverride(e)                    -> Override[e]
        [] ~IsOverride(e) /\ matching # {}  -> table[Min(matching)].to
        [] OTHER                            -> s
===============================================================================
