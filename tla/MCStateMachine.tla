---------------------------- MODULE MCStateMachine ----------------------------
(***************************************************************************)
(* The callers of the state machine, and the events each of them reports:  *)
(* setup() of main.cpp, userCommandTask and userUpdateTask of TestSync,    *)
(* TestManagerTask, and the task of a running test.                        *)
(***************************************************************************)
EXTENDS StateMachine

SetupEvents  == {"SELF_CHECK_OK", "SETTING_LOADED", "LOAD_BANK_CHECKED"}
UserEvents   == {"START", "STOP"}
UpdateEvents == {"NEW_TEST", "DELETE_TEST"}
ManagerEvents == {"SAVE", "PENDING_TEST_FOUND"}
TestEvents   == {"TEST_RUN_OK", "TEST_TIME_END", "DATA_CAPTURED", "VALID_DATA",
                 "TEST_FAILED"}

\* One task does everything: all events, the unsent ones included, all modes.
\* Or the tasks of core 0 call against those of core 1.
AllCallers == {"program", "core0", "core1"}
SomeCrews  == {{"program"}, {"core0", "core1"}}
TwoCores   == {{"core0", "core1"}}

CoreModes  == [program |-> Mode, core0 |-> Mode, core1 |-> {}]
CoreEvents == [program |-> Event \ {"NONE"},
               core0   |-> UserEvents \union UpdateEvents,
               core1   |-> SetupEvents \union ManagerEvents \union TestEvents]

\* A short session, for the exhaustive search of all overlaps: the user starts,
\* stops and switches the mode while the other core boots and runs a test.
SessionEvents == [program |-> Event \ {"NONE"},
                  core0   |-> UserEvents,
                  core1   |-> SetupEvents \union {"NEW_TEST", "TEST_RUN_OK", "TEST_TIME_END"}]
===============================================================================
