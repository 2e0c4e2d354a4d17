------------------------------ MODULE TestSession ------------------------------
(***************************************************************************)
(* A test session: the tasks that take a test from the user's START to     *)
(* DONE, and everything they share.                                        *)
(*                                                                         *)
(*   userCommandTask  serves the user's command bits (TestSync)            *)
(*   userUpdateTask   hands new tests to the manager (TestSync)            *)
(*   TestManagerTask  starts pending tests and collects their data         *)
(*   testSyncTask     follows the manager's test index (TestSync)          *)
(*   SwitchTestTask, BackupTestTask  run one test each                     *)
(*                                                                         *)
(* A session begins when setup() has booted the device and opens the       *)
(* server.  handleEvent is one step here: StateMachine has its inside, as  *)
(* TestTransfer has the inside of the intake and TestHandover its promise. *)
(* What the session as a whole promises of results is TestResults.         *)
(* Lists are numbered from 1.                                              *)
(***************************************************************************)
EXTENDS StateTable

CONSTANTS Sessions,     \* bound: the tests the user asks for, in this order, and one set
                        \* per command the user gives, to choose from
          Outcomes,     \* what the interrupts may make of a run
          QueueLength   \* messageQueueLength, 10 in main.cpp

Types == {"SwitchTest", "BackupTest"}
Loads == {"LOAD_25P", "LOAD_50P"}

\* As tests are accepted only when different, so are the wanted ones.
ASSUME SessionsAssumption ==
  \A s \in Sessions :
    /\ s.wanted \in Seq([type : Types, load : Loads])
    /\ \A i, j \in DOMAIN s.wanted : s.wanted[i] = s.wanted[j] => i = j
    /\ s.commands \in Seq(SUBSET {"AUTO", "MANUAL", "START", "STOP", "PAUSE"})
ASSUME BoundsAssumption ==
  /\ Outcomes \subseteq {"valid", "invalid", "missed"}
  /\ QueueLength \in Nat \ {0}

VARIABLES
  state,        \* StateMachine's _currentState
  mode,         \* its _deviceMode
  commandBits,  \* userCommandEventGroup
  session,      \* what the user wants and commands
  given,        \* how many of the commands were given
  script,       \* userCommandTask: what is left to do for the command in hand
  newTest,      \* NEW_TEST in userUpdateEventGroup
  update,       \* userUpdateTask: where it is
  accepted,     \* TestSync::_testList, the active slots
  enabled,      \* TestSync::_enableCurrentTest
  currentTest,  \* TestSync::_currentTestIndex
  observing,    \* START_OBSERVER in syncControlEvent
  active,       \* MANAGER_ACTIVE in syncControlEvent
  notified,     \* the notification pending for testSyncTask, 0 for none
  listed,       \* TestManager::_testList
  manager,      \* TestManagerTask: where it is, its snapshot of the state
  testBits,     \* testControlEvent
  params,       \* TestManageQueue: the loads configureTest sends
  data,         \* per type, its data queue: the loads the data were taken at
  task,         \* per type, its task's locals and its object's flags
  serves,       \* history: how often a transfer enabled a test
  starts        \* history: how often startTest set a bit, for the user, for the manager

user  == <<session, commandBits, given>>
sync  == <<script, newTest, update, accepted, enabled, currentTest, observing>>
tests == <<testBits, params, data, task>>
hist  == <<serves, starts>>
vars  == <<state, mode, user, sync, active, notified, listed, manager, tests, hist>>

\* at      where the task is
\* load    taskParam.task_TestVARating; "initial" is the one createTestTasks sends
\* outcome what the interrupts made of the run (see Outcomes)
\* ongoing, captured, valid   _trigger{TestOngoing,DataCapture,ValidData}Event
\* result  _currentTestResult
\* send    _sendTestData
NewTask == [at |-> "wait", load |-> "initial", outcome |-> "missed",
            ongoing |-> FALSE, captured |-> FALSE, valid |-> FALSE,
            result |-> "PENDING", send |-> FALSE]

Init == /\ state = "DEVICE_READY" /\ mode = "MANUAL"
        /\ session \in Sessions /\ commandBits = {} /\ given = 0 /\ script = <<>>
        /\ newTest = FALSE /\ update = "wait"
        /\ accepted = <<>> /\ enabled = FALSE /\ currentTest = 1
        /\ observing = FALSE /\ active = FALSE /\ notified = 0
        /\ listed = <<>> /\ manager = [at |-> "wait", seen |-> state, i |-> 1, last |-> 0]
        /\ testBits = {} /\ params = <<>>
        /\ data = [t \in Types |-> <<>>]
        /\ task = [t \in Types |-> NewTask]
        /\ serves = 0 /\ starts = [user |-> 0, manager |-> 0]

\* reportEvent, passEvent: handleEvent, undisturbed.
Report(e) == state' = Target(TransitionTable, state, e)

\* Faulty variant: the queue has no end.
SendTo_Unbounded(queue, x) == Append(queue, x)

\* xQueueSend with a timeout: a full queue may stay full that long.
SendTo(queue, x) == IF Len(queue) < QueueLength THEN Append(queue, x) ELSE queue

-------------------------------------------------------------------------------
\* The web server accepts the next test (parseIncomingJson).
Accept ==
  /\ Len(accepted) < Len(session.wanted)
  /\ accepted' = Append(accepted, session.wanted[Len(accepted) + 1])
  /\ newTest' = TRUE
  /\ UNCHANGED <<state, mode, user, script, update, enabled, currentTest, observing,
                 active, notified, listed, manager, tests, hist>>

\* A command takes back the one it contradicts (DataHandler::handleUserCommand).
Opposite == [AUTO |-> "MANUAL", MANUAL |-> "AUTO", START |-> "STOP",
             STOP |-> "START", PAUSE |-> "RESUME"]

HandleUserCommand(c) ==
  /\ given < Len(session.commands)
  /\ c \in session.commands[given + 1]
  /\ given' = given + 1
  /\ commandBits' = (commandBits \ {Opposite[c]}) \union {c}
  /\ UNCHANGED <<state, mode, session, sync, active, notified, listed, manager, tests, hist>>

-------------------------------------------------------------------------------
\* What userCommandTask does for each command, in this order.  There is no way
\* to send a RESUME, and PAUSE does not clear its own bit.
Script == [AUTO   |-> <<"setMode", "startObserver", "clear">>,
           MANUAL |-> <<"setMode", "stopObserver", "clear">>,
           START  |-> <<"report", "managerActive", "startFirst", "clear">>,
           STOP   |-> <<"userStop", "stopObserver", "report", "stopFirst", "clear">>,
           PAUSE  |-> <<"userStop", "stopObserver", "managerWait">>]

\* Faulty variant: PAUSE before everything else.
Precedence_PauseFirst == <<"PAUSE", "AUTO", "MANUAL", "START", "STOP">>

\* The commands in the order they are looked for.
Precedence == <<"AUTO", "MANUAL", "START", "STOP", "PAUSE">>

TakeCommand ==
  /\ script = <<>>
  /\ \E k \in DOMAIN Precedence :
       /\ Precedence[k] \in commandBits
       /\ \A j \in 1..(k - 1) : Precedence[j] \notin commandBits
       /\ script' = [s \in DOMAIN Script[Precedence[k]] |->
                       [do |-> Script[Precedence[k]][s], for |-> Precedence[k]]]
  /\ UNCHANGED <<state, mode, user, newTest, update, accepted, enabled, currentTest,
                 observing, active, notified, listed, manager, tests, hist>>

Now(what) == script # <<>> /\ Head(script).do = what
Command   == Head(script).for

SetMode ==
  /\ Now("setMode")
  /\ mode' = Command
  /\ script' = Tail(script)
  /\ UNCHANGED <<state, user, newTest, update, accepted, enabled, currentTest,
                 observing, active, notified, listed, manager, tests, hist>>

SetObserver ==
  /\ Now("startObserver") \/ Now("stopObserver")
  /\ observing' = Now("startObserver")
  /\ script' = Tail(script)
  /\ UNCHANGED <<state, mode, user, newTest, update, accepted, enabled, currentTest,
                 active, notified, listed, manager, tests, hist>>

SetManager ==
  /\ Now("managerActive") \/ Now("managerWait")
  /\ active' = Now("managerActive")
  /\ script' = Tail(script)
  /\ UNCHANGED <<state, mode, user, newTest, update, accepted, enabled, currentTest,
                 observing, notified, listed, manager, tests, hist>>

ReportCommand ==
  /\ Now("report")
  /\ Report(Command)
  /\ script' = Tail(script)
  /\ UNCHANGED <<mode, user, newTest, update, accepted, enabled, currentTest,
                 observing, active, notified, listed, manager, tests, hist>>

\* UserStopTest: the type at _currentTestIndex, if a test is there.
UserStop ==
  /\ Now("userStop")
  /\ testBits' = IF currentTest \in DOMAIN accepted
                 THEN testBits \ {accepted[currentTest].type} ELSE testBits
  /\ script' = Tail(script)
  /\ UNCHANGED <<state, mode, user, newTest, update, accepted, enabled, currentTest,
                 observing, active, notified, listed, manager, params, data, task, hist>>

\* The first half of startTest: look at the flag and set the test's bit.
SetTestBit(type, who) == /\ testBits' = testBits \union {type}
                         /\ starts' = [starts EXCEPT ![who] = @ + 1]

\* The second half: disableCurrentTest.  In manual mode the first slot starts;
\* an empty one has a type no task waits for.
FirstType == IF accepted # <<>> THEN accepted[1].type ELSE "TunePWMTest"

StartFirst ==
  /\ Now("startFirst")
  /\ IF mode = "MANUAL" /\ enabled
     THEN /\ SetTestBit(FirstType, "user")
          /\ script' = <<[do |-> "disable", for |-> "START"]>> \o Tail(script)
     ELSE /\ script' = Tail(script)
          /\ UNCHANGED <<testBits, starts>>
  /\ UNCHANGED <<state, mode, user, newTest, update, accepted, enabled, currentTest,
                 observing, active, notified, listed, manager, params, data, task,
                 serves>>

DisableFirst ==
  /\ Now("disable")
  /\ enabled' = FALSE
  /\ script' = Tail(script)
  /\ UNCHANGED <<state, mode, user, newTest, update, accepted, currentTest, observing,
                 active, notified, listed, manager, tests, hist>>

\* Manual mode stops the first slot's type, automatic mode sends the manager away.
StopFirst ==
  /\ Now("stopFirst")
  /\ IF mode = "MANUAL"
     THEN testBits' = testBits \ {FirstType} /\ UNCHANGED active
     ELSE active' = FALSE /\ UNCHANGED testBits
  /\ script' = Tail(script)
  /\ UNCHANGED <<state, mode, user, newTest, update, accepted, enabled, currentTest,
                 observing, notified, listed, manager, params, data, task, hist>>

ClearCommand ==
  /\ Now("clear")
  /\ commandBits' = commandBits \ {Command}
  /\ script' = Tail(script)
  /\ UNCHANGED <<state, mode, session, given, newTest, update, accepted, enabled, currentTest,
                 observing, active, notified, listed, manager, tests, hist>>

UserCommandTask == \/ TakeCommand \/ SetMode \/ SetObserver \/ SetManager
                   \/ ReportCommand \/ UserStop \/ StartFirst \/ DisableFirst
                   \/ StopFirst \/ ClearCommand

-------------------------------------------------------------------------------
\* userUpdateTask: enable, then transfer all active tests, then report, then clear.
TransferTest ==
  /\ update = "wait"
  /\ newTest
  /\ enabled' = TRUE
  /\ serves' = serves + 1
  /\ listed' = listed \o [i \in DOMAIN accepted |->
                            [type |-> accepted[i].type, load |-> accepted[i].load,
                             done |-> FALSE]]
  /\ update' = "report"
  /\ UNCHANGED <<state, mode, user, script, newTest, accepted, currentTest, observing,
                 active, notified, manager, tests, starts>>

ReportNewTest ==
  /\ update = "report"
  /\ Report("NEW_TEST")
  /\ update' = "clear"
  /\ UNCHANGED <<mode, user, script, newTest, accepted, enabled, currentTest, observing,
                 active, notified, listed, manager, tests, hist>>

ClearNewTest ==
  /\ update = "clear"
  /\ newTest' = FALSE
  /\ update' = "wait"
  /\ UNCHANGED <<state, mode, user, script, accepted, enabled, currentTest, observing,
                 active, notified, listed, manager, tests, hist>>

UserUpdateTask == TransferTest \/ ReportNewTest \/ ClearNewTest

\* testSyncTask takes over the index it is notified of.  (It also empties the
\* manager's two result queues, into members nobody reads.)
TestSyncTask ==
  /\ observing
  /\ notified # 0
  /\ currentTest' = notified
  /\ notified' = 0
  /\ UNCHANGED <<state, mode, user, script, newTest, update, accepted, enabled,
                 observing, active, listed, manager, tests, hist>>

-------------------------------------------------------------------------------
\* TestManagerTask reads the state once for a whole pass over its list.
BeginPass ==
  /\ manager.at = "wait"
  /\ active
  /\ manager' = [at |-> "visit", seen |-> state, i |-> 1, last |-> 0]
  /\ UNCHANGED <<state, mode, user, sync, active, notified, listed, tests, hist>>

Entry == listed[manager.i]

Visiting == manager.at = "visit" /\ manager.i <= Len(listed)

\* On to the next entry of the pass.
NextEntry == manager' = [manager EXCEPT !.at = "visit", !.i = @ + 1]

\* Entries that are done, and states handleTestState only logs.
PassBy ==
  /\ Visiting
  /\ Entry.done \/ manager.seen \notin {"TEST_START", "CURRENT_TEST_OK",
                                        "READY_NEXT_TEST"}
  /\ manager' = [manager EXCEPT !.i = @ + 1, !.last = IF Entry.done THEN @ ELSE manager.i]
  /\ UNCHANGED <<state, mode, user, sync, active, notified, listed, tests, hist>>

\* handleTestState acts for the pending entry the pass has reached.
Handles(s) == Visiting /\ ~Entry.done /\ manager.seen = s

GoTo(at) == manager' = [manager EXCEPT !.at = at, !.last = manager.i]

\* TEST_START: configureTest, then RequestStartTest.
ConfigureTest ==
  /\ Handles("TEST_START")
  /\ params' = SendTo(params, Entry.load)
  /\ GoTo("request")
  /\ UNCHANGED <<state, mode, user, sync, active, notified, listed, testBits, data, task,
                 hist>>

\* The manager's index must lead to a test of the same type in TestSync's list.
IndexFits == manager.i \in DOMAIN accepted /\ accepted[manager.i].type = Entry.type

\* RequestStartTest up to the middle of startTest.
RequestStartTest ==
  /\ manager.at = "request"
  /\ currentTest' = IF IndexFits THEN manager.i ELSE currentTest
  /\ IF IndexFits /\ enabled
     THEN /\ SetTestBit(Entry.type, "manager")
          /\ manager' = [manager EXCEPT !.at = "disable"]
     ELSE UNCHANGED <<testBits, starts>> /\ NextEntry
  /\ UNCHANGED <<state, mode, user, script, newTest, update, accepted, enabled,
                 observing, active, notified, listed, params, data, task, serves>>

\* Faulty variant: the flag stays up.
DisableCurrentTest_Not ==
  /\ manager.at = "disable"
  /\ NextEntry
  /\ UNCHANGED <<state, mode, user, sync, active, notified, listed, tests, hist>>

DisableCurrentTest ==
  /\ manager.at = "disable"
  /\ enabled' = FALSE
  /\ NextEntry
  /\ UNCHANGED <<state, mode, user, script, newTest, update, accepted, currentTest,
                 observing, active, notified, listed, tests, hist>>

\* CURRENT_TEST_OK: data arrive in time and the test is stopped.
ReceiveData ==
  /\ Handles("CURRENT_TEST_OK")
  /\ data[Entry.type] # <<>>
  /\ data' = [data EXCEPT ![Entry.type] = Tail(@)]
  /\ testBits' = IF IndexFits THEN testBits \ {Entry.type} ELSE testBits
  /\ GoTo("mark")
  /\ UNCHANGED <<state, mode, user, sync, active, notified, listed, params, task, hist>>

\* DONE, and markTestAsDone.
MarkAsDone ==
  /\ manager.at = "mark"
  /\ listed' = [listed EXCEPT ![manager.i].done = TRUE]
  /\ task' = [task EXCEPT ![Entry.type].send = FALSE]
  /\ manager' = [manager EXCEPT !.at = "save"]
  /\ UNCHANGED <<state, mode, user, sync, active, notified, testBits, params, data, hist>>

\* Faulty variant: the test is done, and SAVE is not reported.
Save_Not ==
  /\ manager.at = "save"
  /\ NextEntry
  /\ UNCHANGED <<state, mode, user, sync, active, notified, listed, tests, hist>>

Save ==
  /\ manager.at = "save"
  /\ Report("SAVE")
  /\ NextEntry
  /\ UNCHANGED <<mode, user, sync, active, notified, listed, tests, hist>>

\* CURRENT_TEST_OK, and no data in time: the test is requested again.
ReceiveTimeout ==
  /\ Handles("CURRENT_TEST_OK")
  /\ data[Entry.type] = <<>>
  /\ GoTo("request")
  /\ UNCHANGED <<state, mode, user, sync, active, notified, listed, tests, hist>>

\* READY_NEXT_TEST: the entry in hand is itself a pending one.
PendingTestFound ==
  /\ Handles("READY_NEXT_TEST")
  /\ Report("PENDING_TEST_FOUND")
  /\ manager' = [manager EXCEPT !.i = @ + 1, !.last = manager.i]
  /\ UNCHANGED <<mode, user, sync, active, notified, listed, tests, hist>>

\* The pass ends with a notification of the last entry it handled.
EndPass ==
  /\ manager.at = "visit"
  /\ manager.i > Len(listed)
  /\ notified' = IF manager.last = 0 THEN notified ELSE manager.last
  /\ manager' = [manager EXCEPT !.at = "wait"]
  /\ UNCHANGED <<state, mode, user, sync, active, listed, tests, hist>>

TestManagerTask == \/ BeginPass \/ PassBy \/ ConfigureTest \/ RequestStartTest
                   \/ DisableCurrentTest \/ ReceiveData \/ MarkAsDone \/ Save
                   \/ ReceiveTimeout \/ PendingTestFound \/ EndPass

-------------------------------------------------------------------------------
At(t, where) == task[t].at = where

\* Faulty variant: a successful result does not turn the data on.
Sending_FlagOnly(t) == task[t].send

\* The test bit wakes the task.  A result not sent yet turns the data on.
Sending(t) == task[t].send \/ task[t].result = "SUCCESSFUL"

\* The task has a run to make: it takes what parameters there are and begins.
BeginRun(t) ==
  /\ At(t, "wait") /\ t \in testBits /\ ~Sending(t)
  /\ IF task[t].ongoing THEN UNCHANGED state ELSE Report("TEST_RUN_OK")
  /\ task' = [task EXCEPT
                ![t].at = "run",
                ![t].load = IF params = <<>> THEN @ ELSE Head(params),
                ![t].ongoing = TRUE,
                ![t].valid = IF task[t].ongoing THEN @ ELSE FALSE]
  /\ params' = IF params = <<>> THEN params ELSE Tail(params)
  /\ UNCHANGED <<mode, user, sync, active, notified, listed, manager, testBits, data, hist>>

\* The duration is over, whatever the test bit says; mains is back.
EndRun(t) ==
  /\ At(t, "run")
  /\ \E o \in Outcomes : task' = [task EXCEPT ![t].at = "check", ![t].outcome = o,
                                              ![t].ongoing = FALSE]
  /\ Report("TEST_TIME_END")
  /\ UNCHANGED <<mode, user, sync, active, notified, listed, manager, testBits, params,
                 data, hist>>

\* Was anything captured?
CheckRun(t) ==
  /\ At(t, "check")
  /\ IF task[t].outcome = "missed"
     THEN /\ task' = [task EXCEPT ![t].at = "wait", ![t].result = "FAILED"]
          /\ Report("TEST_FAILED")
     ELSE /\ task' = [task EXCEPT ![t].at = "process", ![t].captured = TRUE]
          /\ IF task[t].captured THEN UNCHANGED state ELSE Report("DATA_CAPTURED")
  /\ UNCHANGED <<mode, user, sync, active, notified, listed, manager, testBits, params,
                 data, hist>>

\* Faulty variant: invalid data end the run without a word.
ProcessRun_SilentFailure(t) ==
  /\ At(t, "process")
  /\ task' = [task EXCEPT ![t].at = "wait",
                          ![t].result = IF task[t].outcome = "valid" THEN "SUCCESSFUL"
                                                                     ELSE "FAILED"]
  /\ IF task[t].outcome = "valid" THEN Report("VALID_DATA") ELSE UNCHANGED state
  /\ UNCHANGED <<mode, user, sync, active, notified, listed, manager, testBits, params,
                 data, hist>>

\* processTestImpl, and the end of run().
ProcessRun(t) ==
  /\ At(t, "process")
  /\ IF task[t].outcome = "valid"
     THEN /\ task' = [task EXCEPT ![t].at = "wait", ![t].result = "SUCCESSFUL",
                                  ![t].captured = IF task[t].valid THEN @ ELSE FALSE,
                                  ![t].valid = TRUE]
          /\ IF task[t].valid THEN UNCHANGED state ELSE Report("VALID_DATA")
     ELSE /\ task' = [task EXCEPT ![t].at = "wait", ![t].result = "FAILED"]
          /\ Report("TEST_FAILED")
  /\ UNCHANGED <<mode, user, sync, active, notified, listed, manager, testBits, params,
                 data, hist>>

\* The task sends its data instead, again and again until markTestAsDone; the
\* count of retries starts over each time, so it never gives up.
SendData(t) ==
  /\ At(t, "wait") /\ t \in testBits /\ Sending(t)
  /\ data' = [data EXCEPT ![t] = SendTo(@, task[t].load)]
  /\ task' = [task EXCEPT ![t].send = TRUE,
                          ![t].result = IF Len(data[t]) < QueueLength THEN "PENDING" ELSE @]
  /\ UNCHANGED <<state, mode, user, sync, active, notified, listed, manager, testBits,
                 params, hist>>

TestTask(t) == BeginRun(t) \/ EndRun(t) \/ CheckRun(t) \/ ProcessRun(t) \/ SendData(t)

Next == \/ Accept
        \/ \E c \in DOMAIN Opposite : HandleUserCommand(c)
        \/ UserCommandTask
        \/ UserUpdateTask
        \/ TestSyncTask
        \/ TestManagerTask
        \/ \E t \in Types : TestTask(t)

Spec == Init /\ [][Next]_vars

\* Every task delays itself between rounds, so the scheduler runs each of them.
FairSpec == /\ Spec
            /\ WF_vars(UserCommandTask) /\ WF_vars(UserUpdateTask)
            /\ WF_vars(TestSyncTask) /\ WF_vars(TestManagerTask)
            /\ \A t \in Types : WF_vars(TestTask(t))
-------------------------------------------------------------------------------
TypeOK ==
  /\ state \in State /\ mode \in Mode
  /\ commandBits \subseteq DOMAIN Opposite /\ session \in Sessions
  /\ given \in 0..Len(session.commands)
  /\ \A k \in DOMAIN script : script[k].for \in DOMAIN Script
  /\ newTest \in BOOLEAN /\ update \in {"wait", "report", "clear"}
  /\ accepted = SubSeq(session.wanted, 1, Len(accepted))
  /\ enabled \in BOOLEAN /\ observing \in BOOLEAN /\ active \in BOOLEAN
  /\ currentTest \in Nat \ {0} /\ notified \in 0..Len(listed)
  /\ listed \in Seq([type : Types, load : Loads, done : BOOLEAN])
  /\ manager \in [at : {"wait", "visit", "request", "disable", "mark", "save"},
                  seen : State, i : 1..(Len(listed) + 1), last : 0..Len(listed)]
  /\ testBits \subseteq Types \union {"TunePWMTest"}
  /\ params \in Seq(Loads) /\ Len(params) <= QueueLength
  /\ \A t \in Types : data[t] \in Seq(Loads \union {"initial"}) /\ Len(data[t]) <= QueueLength
  /\ task \in [Types -> [at : {"wait", "run", "check", "process"},
                         load : Loads \union {"initial"},
                         outcome : {"valid", "invalid", "missed"},
                         ongoing : BOOLEAN, captured : BOOLEAN, valid : BOOLEAN,
                         result : {"PENDING", "SUCCESSFUL", "FAILED"}, send : BOOLEAN]]
  /\ serves \in Nat /\ starts \in [{"user", "manager"} -> Nat]

\* The device waits for nothing that is not on its way: in TEST_RUNNING a task
\* runs, in CURRENT_TEST_CHECK one evaluates its run, in CURRENT_TEST_OK data
\* are to be sent, or sent, or in the manager's hands.
StateHasCause ==
  /\ state = "TEST_RUNNING" => \E t \in Types : At(t, "run")
  /\ state = "CURRENT_TEST_CHECK" => \E t \in Types : At(t, "check") \/ At(t, "process")
  /\ state = "CURRENT_TEST_OK" => \/ \E t \in Types : \/ task[t].result = "SUCCESSFUL"
                                                      \/ data[t] # <<>>
                                  \/ manager.at \in {"mark", "save"}

\* Neither of the two tasks that call startTest, on different cores and without
\* a lock around the flag, sets more test bits than tests were enabled.
StartsNeedEnable == \A who \in DOMAIN starts : starts[who] <= serves

\* A run begins only for a test on the list, a test is done once and only when its
\* kind has yielded valid data, and those are not lost, however runs are repeated,
\* stopped and failed, queues are full and markTestAsDone is late: until the test is
\* done, they are in the test's result, on their way again and again, in the queue, or
\* in the manager's hands (SwitchTest::run, BackupTest::run, handleTestState).
Running == {t \in Types : ~At(t, "wait")}
Proven == {t \in Types : \/ task[t].result = "SUCCESSFUL" \/ task[t].send
                         \/ data[t] # <<>>
                         \/ manager.at = "mark" /\ Entry.type = t
                         \/ \E i \in DOMAIN listed : listed[i].done /\ listed[i].type = t}

Results == INSTANCE TestResults WITH Kinds <- Types, running <- Running, proven <- Proven
ResultsKept == Results!Spec

\* Every command but PAUSE is served, though PAUSE's bit, which stays set, brings
\* userCommandTask back to PAUSE forever.
CommandsAreServed ==
  \A c \in DOMAIN Opposite \ {"PAUSE"} : c \in commandBits ~> c \notin commandBits

\* If every run yields valid data, a test that runs is saved, unless the user
\* stops it or pauses.
Interrupted == \E c \in {"STOP", "PAUSE"} :
                 c \in commandBits \/ (script # <<>> /\ Command = c)

RunningTestIsSaved ==
  state = "TEST_RUNNING" ~> state = "READY_NEXT_TEST" \/ Interrupted

\* "Pending test found. Preparing to start next test...": false, since the test
\* before has used up the flag that only a new test sets.
PendingTestStarts == state = "TEST_START" /\ mode = "AUTO" /\ active
                       ~> state = "TEST_RUNNING"
===============================================================================
