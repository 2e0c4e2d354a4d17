# UPS_TEST_NODE-V2: a verification development

The firmware tests uninterruptible power supplies: an ESP32 cuts the mains of a
UPS under a chosen load and measures how long the UPS takes over (switch test)
and how long it lasts (backup test).  A web page tells it which tests to run and
when.  Its core is a handful of FreeRTOS tasks on two cores which talk through
event groups, queues, task notifications and plain shared members.  These
modules model that core, check it on small instances with TLC and prove parts
of it with TLAPS.  Paths below are relative to `src/src/TEST_NODE/`,
and `main.cpp` is `src/src/main.cpp`; `PROJECT.json` has the exact lines.

## 1. Inventory

| component | where | state | operations |
|---|---|---|---|
| Device state machine | `Node_Core/StateMachine.cpp`, `.h`, `StateDefines.h` | `_currentState`, `_old_state`, `_deviceMode` (atomics); a copy of state and mode in each of three observers | `handleEvent`, `handleMode`, `NotifyStateChanged`, `NotifyModeChanged` |
| Test intake and transfer | `Node_Core/TestSync.cpp`, `TestManager.cpp` (`addTests`) | `_testList[MAX_TEST]`, bit NEW_TEST, `_enableCurrentTest`; the manager's `_testList`, `_numTest` | `parseIncomingJson` (AsyncTCP task), `transferTest`, `addTests` |
| User commands and session | `TestSync.cpp` | `userCommandEventGroup`, `syncControlEvent`, `testControlEvent`, `_currentTestIndex` | `userCommandTask`, `userUpdateTask`, `testSyncTask`, `startTest`, `stopTest`, `RequestStartTest`, `UserStopTest` |
| Test manager | `TestManager.cpp` | list with a status per entry, a copy of the device state | `TestManagerTask`, `handleTestState`, `configureTest`, three interrupt tasks |
| Switch and backup test | `All_Test/*.cpp` | result, trigger flags, capture flags, data | the two test tasks, `run`, `processTestImpl`, `start/stopTestCapture` |
| Interrupts and capture | `main.cpp`, `TestManager.cpp` | three binary semaphores, debounce times | `keyISR1..3`, `onMainsPowerLossTask`, `onUPSPowerGainTask`, `onUPSPowerLossTask` |
| Load bank | `Node_Core/UPSTest.h` | relay outputs | `setLoad`, `selectLoadBank` |
| Clients and data handler | `Node_Core/Datahandler.cpp`, `UPSTestWeb/TestServer.cpp` | `connectedClients`, `wsClientEventGroup`, `WebsocketDataQueue`, the ping timer | `onWsEvent`, `wsDataHandler`, `updateClientList`, `sendData`, `handleUserCommand` |
| Modbus manager | `Node_Utility/PZEM_Modbus.hpp` | `_targets`, `_currentToken`, `_coils`, the two readings, `coilWatchdogQueue` | `pollingTask`, `coilWatchdogTask`, `TriggerCoil`, `setCoil`, `readCoil`, `handleData` |
| Settings | `Settings/*`, `Node_Core/UPSTesterSetup.*` | the settings records and their observers | `setField`, `notify`, `handleUpdateSettingRequest` |
| Logger | `Node_Core/Logger.h` | `_logBuffer`, the recent messages | `log`, `addToBuffer`, `getBufferedLogs` |
| Start-up, web pages, utilities | `main.cpp`, `UPSTestWeb`, `Node_Utility` | none of their own | creation of tasks, HTML, names, clock, files |

### How they interact

    browser --JSON--> TestServer --parseIncomingJson--> TestSync._testList, NEW_TEST
    browser --text--> DataHandler --handleUserCommand--> userCommandEventGroup
    userUpdateTask  --transferTest/addTests--> TestManager._testList
    userCommandTask --handleSyncCommand--> syncControlEvent (MANAGER_ACTIVE, START_OBSERVER)
    TestManagerTask --RequestStartTest--> testControlEvent --> SwitchTestTask, BackupTestTask
    TestManagerTask --TestManageQueue (load)--> test tasks --data queues--> TestManagerTask
    TestManagerTask --xTaskNotify(index)--> testSyncTask --> _currentTestIndex
    everybody       --handleEvent--> StateMachine --updateState/updateMode--> DataHandler,
                                                     TestSync, TestManager
    pins --ISR--> semaphores --> interrupt tasks --> capture flags of the running test
    browser --form--> TestServer --setField, notifyObservers--> TestManager, both tests
    TestManager's copy of the rating --configureTest, TestManageQueue--> setLoad, which
                                                     divides it by the rating itself
    browser --WS events--> TestServer.onWsEvent --bits, list, queue--> wsDataHandler
    polling and watchdog tasks --requests--> Modbus client --handleData--> readings, coil cache

`userCommandTask`, `userUpdateTask` and `testSyncTask` run on core 0; AsyncTCP
(`platformio.ini`), the manager, the interrupt tasks and the test tasks on core 1;
the data handler and the Modbus task on either.  The mutexes of the state machine
are commented out, and none guards the two test lists, the start flag or
`_currentTestIndex`.

### What is hard, and what makes each part correct

* **State machine.** Two calls overlap at every load and store.  A call that
  nobody overlaps must be one step of the table and leave all observers in
  step, whatever overlapping calls left behind; every call must return.
* **Intake and transfer.** AsyncTCP fills a slot field by field while
  `transferTest` counts and copies.  What reaches the manager must be what was
  asked, in order, without holes or half-written slots; no request may be lost.
* **Session.** Six tasks agree through bits that one sets and another clears, a
  snapshot of the state taken once per pass, and data that are sent again until
  they are acknowledged.  The device must never wait for something that nobody
  is going to do; starts must be accounted for; commands must be served; a run
  with valid data must be saved.
* **Capture.** Interrupts, a debounce time they share by mistake, three tasks
  and `run()` race on four flags and two stamps, and only delays keep them
  apart.  A run must end in time with the power restored, also when `millis()`
  wraps, and a success must rest on two edges the right time apart.
* **Clients.** `connectedClients` is changed by two tasks and read without its
  mutex; the bits of two event groups have equal values, any bit passes for any
  other, and the client that leaves clears CONNECTED for those that stay.  The
  list must agree with the connections, messages must be handled and readings
  sent, and the pointer the ping timer keeps must be to a client that exists.
* **Modbus.** Tokens that coincide, a value remembered before it is sent, an
  iterator kept across a delay while the list moves, a list that only grows, a
  request queue that refuses.
* **Settings and load bank.** A form of several fields stored one after the
  other, of which the last decides whether anybody is told; a load computed from
  one copy of the rating and divided by another; integer division at ratings
  not divisible by four; numbers of a form that pass through `double`, `uint32_t` and
  `int` on their way into a setting.
* **Logger.** A ring of 20 that is cleared at 19 (the comment at `Logger.h:379`
  says 15).

The hazards of `PROJECT.json` list these at their lines, each with the
properties that cover it or the reason why no property can.

## 2. Plan

Written, in this order:

1. `StateTable` (the table), `DeviceState` (abstract), `StateMachine`,
   `StateMachine_proofs`
2. `TestHandover` (abstract), `TestTransfer`, `TestTransfer_proofs`
3. `TestSession`, which composes the session's six tasks and uses `StateTable`;
   the insides of two of its atomic steps are modules 1 and 2, the inside of a
   run is module 4; `TestResults` (abstract), `TestSession_proofs`
4. `TestCapture`, `TestCapture_proofs`
5. `LoadBank`, `LoadBank_proofs`; `Settings`, which extends it with the path of a
   rating from a form to the load bank; `LogBuffer`; `WebRequests`, which composes
   the two under AsyncTCP, and `WebRequests_proofs`
6. `Clients` and `Clients_proofs`
7. `ModbusManager`, `ModbusManager_proofs`

Still worth having: for the tasks of `TestSession` and `Clients` the bound on the
steps left that the state machine, the transfer and the Modbus tasks have, which
is the part of their liveness a proof can reach.

## 3. The modules and the code

### StateTable, DeviceState, StateMachine

`StateTable` is the transition table of `StateMachine.cpp` row by row, and
`Target`, what one undisturbed `handleEvent` makes of a state and an event, with
the overrides (system fault, pause, user tune) that come before the table.
`DeviceState` is what the machine promises: one state that moves by `Target`.
`StateMachine` is the code: each caller (a FreeRTOS task) has a frame with the
locals of `handleEvent` or `setMode`, and each action is one load or store that
another task can tell apart:

| code | action |
|---|---|
| `handleEvent` to the load of `_currentState` | `HandleEvent` |
| the loop over the table | `ScanRow`, `NoTransition` |
| `_old_state.store`, `setState` | `StoreOld`, `SetState` |
| `NotifyStateChanged`, observer by observer; the mode it then announces | `NotifyState`, `IfAuto`, `IfManual` |
| `setMode`, `NotifyModeChanged` | `HandleMode`, `NotifyMode` |
| the default action, a second notification | `Return` |

`crew` is the set of tasks that call, one of `Crews` in each behaviour, so that one
task and several are behaviours of one specification; what is promised to a single
caller is stated under `Single`.  `view` holds the copies of the three observers.
`alone` is history: no other call overlapped the last one of a caller.

### TestHandover, TestTransfer

`TestTransfer` has two actors.  AsyncTCP runs `parseIncomingJson` to
`handleUserUpdate`: `ParseTestJson` picks a slot and refuses duplicates,
`StoreField` stores one field per step, in the order of the code, and
`SetNewTest` sets NEW_TEST.  `userUpdateTask` runs `Serve`, `CountSlot`,
`EndCount`, `FillSlot`, `EndFill`, `AddTest`, `PublishTest` and `ClearNewTest`.
`late` is history: the slots activated since the transfer began.
`TestHandover` says what is left of this when one looks only at the requests
and at what the manager is given: passes over the requests, each from the
first one on and without gaps.  `HandoverKept` maps the active slots and the
manager's list to it.

Taken as it is: the stores of a slot become visible in program order; the
entries `transferTest` writes past its array are kept, counted (`FillFits`) and
not handed on; what `addTests` writes past MAX_TEST is counted only.  (It does
get there: each transfer hands over every test again, and `TestManager.cpp:120`
bounds a call and not the list.)

### TestResults, TestSession

One record or flag per task and the bits between them: `commandBits` and `script`
are `userCommandTask` with the rest of its handler, `newTest` and `update` are
`userUpdateTask`, `manager` is `TestManagerTask` with the state it has `seen` and
its place in the list, `task` the two test tasks, `testBits` the
`testControlEvent` bits, `params` and `data` the queues.  A handler whose steps
another task can come between is cut there and nowhere else; so `startTest` is two
steps (the flag is looked at, and reset), on two cores.  `Report` is one
undisturbed `handleEvent` (module 1 is about the others), `TransferTest` one
undisturbed transfer (module 2), and what the interrupts make of a run is an
outcome drawn from `Outcomes` (module 4).  `Sessions` are the tests wanted and the
commands given, one of which a behaviour begins with.  RESUME has a branch in the
code and no client command, and DELETE_TEST is never set; both are left out.  A
request or a message that waits in `jsonQueue` or `uniqueTests` is taken by the
call that put it there.

`TestResults` is what the user may rely on: a type of test runs only when a test
of that type was handed over, a test is done once and only after a run of its type
took valid data, data are not lost before, and the list only grows.  `ResultsKept`
maps to it the manager's list, the test tasks that do not wait (`Running`), and
the types whose data are still there (`Proven`): in the test's result, being sent
again, in the data queue, in the manager's hands, or in a test that is done.  It
promises no run for each test, since one run's data may serve several entries of
its type, and no start for each: the second pending test has none
(`TestSessionNext`).

### TestCapture

`KeyISR(i)` is the interrupt routine of each sense pin, with the trigger times
as the code shares them; `TakeSemaphore`, `LookAtTest`, `Arm`, `StampStart`,
`ClearOk`, `StampEnd`, `Disarm` and `SetOk` are the steps of the interrupt tasks
and of `startTestCapture` and `stopTestCapture`; `BeginRun`, `Round`,
`SimulatePowerCut`, `EndLoop`, `EndTest`, `CheckCapture`, `ReadEnd` and
`JudgeCapture` are `run()` and `processTestImpl`.  `Tick` lets time pass: 50 ms,
the unit all delays of this code are multiples of (but the 10 ms of
`sendEndSignal`, after the judgement).  Every task runs until it waits before
the next unit begins; the interrupt tasks have the lowest priority, but the work
between two delays is far below a unit.  Edges come on any pin at any time: a UPS
that bounces, recovers early or not at all.  `watch` is what a behaviour is about:
the tests that are run (one, or both on the pin they share), for how long, and how
many edges come.  `real` is history, the true times of the stamps, of the begin of
a run and of the end of its loop.

### LoadBank, Settings, LogBuffer, WebRequests

`LoadBank` is arithmetic: `TestVARating` is what `configureTest` computes,
`BankVA`, `RequiredBanks` and `PwmOf` are the four branches of `setLoad`, and
`Draws` says what they should come to.

`Settings` has three actors.  AsyncTCP serves one form at a time: `PostForm`,
`SetField` for each field in the order of the handler, `EndFields`,
`NotifyObserver` for each observer in the order `main.cpp` adds them, `Reply`.
`success` is the variable of that name: whether the field looked at last was
accepted.  The specification handed to `notifySpecUpdated` is the setting itself,
so the assignment there changes nothing.  A number of a form has a sign and a
fraction: `ToUInt32` is its way from `toDouble()` to the `uint32_t` parameter of
`setField`, which cuts the fraction and, for a number that no `uint32_t` is, is
undefined in C++ (any of `OutOfRange`); `Accepts` is the check of each field, some of
which have none; `ToInt` is the cast by which `MaxRetest` may become negative.
`TestManagerTask` is `ConfigureTest`
(when it comes to this is a matter of `TestSession`), the test tasks are
`TakeParams` and `SetLoad`.  `quiet`, `load`, `last` and `rating` are history.
A handler whose own test data ran out keeps the parameters it has, as the code
does.  `LogBuffer` is `addToBuffer` under its mutex, with the messages numbered, and
`WebRequests` puts both under one web server with the log page (`ShowLog`).

### Clients

The handler of each WebSocket event is cut where `wsDataHandler` can come between:
`Connect`, `ClearDisconnected`, `SetConnected`, `TakeListMutex`,
`UpdateClientList`, `AttachPing`; `Disconnect`, `ClearConnected`,
`SetDisconnected`, `DetachPing`; `ReceiveMessage`, `SetData`, `Enqueue`.
`wsDataHandler` is `WaitData` to `SendLedStatus`, in the order of its round.
`Awaited` is what `xEventGroupWaitBits` comes to in this code: it returns all bits of
the group, and the caller asks whether there is any.  The copy of
`connectedClients` and the loop over it are not guarded: while AsyncTCP holds the
mutex they see any part of the list (`CopyOfList`, `NextListed`).  A client that is
looked up by its number is found while it exists; the one a message points to may
be gone (`AnswerClient`), which is undefined and listed as a hazard.  The command
itself, once it is processed, is `HandleUserCommand` of `TestSession`.

### ModbusManager

`BeginRound`, `Poll` and `PassBy` are `pollingTask`; `TriggerCoil`, `SetCoil`,
`StoreToken`, `WriteCoil` and `EnqueueWatchdog` the task that sets a coil;
`ReceiveWatch`, `CheckCoil`, `AddTarget` and `ReadCoil` the watchdog; `Answer` and
`Fail` the Modbus client's worker, with a server that may have done what it never
confirmed.  The iterator of a round is the position of the next target that is
polled (`RoundFrom`).  `generateUniqueToken` is two steps, its load (`LoadToken`)
in the step that calls it.  `PassBy` is the undefined part: an iterator into a vector
that moved may find something that is not polled.  A reading is abstracted to the
slave it comes from, a coil to ON and OFF; the answer about a coil is too short for
a reading, so a reading is never made of it.  Nothing in the repository calls
`TriggerCoil`; it is the manager's public interface, and its caller here is one task
with a bounded script.

## 4. What the runs show

| run | question | bounds |
|---|---|---|
| `StateMachine` | With one caller that reports every event and sets every mode the machine implements `DeviceState` (`PromiseKept`), and observers agree between calls (`IdleInSync`). With two cores that call concurrently, a call that nobody overlapped is one step of the table (`SoloCallIsAtomic`) and repairs the observers (`SoloCallSynchronises`). | the whole table; one caller with all events and modes, or two with the events of a short session, each any number of times |
| `StateMachineTorn` | violation: a step of the state that no row and no override allows. | the events of both cores |
| `TestTransfer` | What is handed over is a prefix of the requests, complete but for what was accepted meanwhile (`TransferIsPrefix`, `TransferComplete`), the array is overrun only then (`FillFits`), and `TestHandover` is implemented. A request that finds the task waiting arrives (`WaitingTestsArrive`).  | three requests, MAX_TEST as in the code |
| `TestSessionCommands` | The device state has a cause in the tasks (`StateHasCause`); no starter starts more tests than were enabled (`StartsNeedEnable`); no result is lost before its test is done, and none made up: `TestResults` is implemented (`ResultsKept`). | one test and any three commands, or AUTO, START and two tests of different types that may run side by side; all outcomes |
| `TestSessionLive` | Commands are served although PAUSE never clears its bit; a running test is saved unless interrupted. | one test, any two commands, valid data |
| `TestSessionNext` | violation: the second pending test never starts. | AUTO, START, two tests |
| `TestCapture` | Runs last their duration (`RunKeepsDuration`); the power is cut while a test measures, unless the other test on the pin was over meanwhile, and back when none is in progress (`PowerFollowsTests`); captures are settled when they are judged (`CaptureSettled`), the end is of this run (`StopIsOfThisRun`), and a success has measured a time within the limits (`SuccessIsTimeBetween`); `CaptureInv` is the invariant of the proofs. | two runs of one test with three edges, or both tests, side by side or one after the other, for 24 units with two edges; `millis()` wraps early |
| `TestCaptureStale` | violation: a start of an earlier run is processed. | two runs, four edges |
| `Settings` | Between requests the copies agree with the settings unless the last field was rejected (`ObserversInStep`); a load set in quiet is drawn as it was asked for, from the rating as it then is (`LoadFits`); the log page has the latest messages without a gap (`LogIsRecent`). | five forms (accepted, rejected first, last or alone, empty; numbers with a fraction, below zero, too large for an `int`), two posted; 2^30 stands for 2^32; two tests; ratings divisible by four and not; limits of the buffer as in the code, one above the other |
| `Clients` | The list agrees with the connections whenever no event is being handled (`ListInStep`), although old copies of it are worked off; the pointer the ping timer keeps is to a client that exists (`PingedClientExists`); every message of a connected client is handled or refused by a full queue (`MessagesAreHandled`); who stays is sent readings for ever (`OpenClientsGetReadings`). | three clients, two messages, a queue of one |
| `Modbus` | A coil is or will be what was asked for last, unless a write was refused or lost (`AskedIsSet`); targets left behind are bounded by the calls (`ReadsPerTrigger`); both meters are polled for ever (`MetersArePolled`); callers and watchdog return (`TasksReturn`). | three scripts of two or three calls, MAX_RETRIES 1, two requests, one watchdog entry |
| `ModbusReadings` | violation: the output meter's reading lands in the input meter's box. | as `Modbus` |

Why the bounds are enough.  The table is not scaled down.  Three requests let one
arrive before, one during and one after a transfer, or two between its scans.
Three commands are one more than any two that contradict each other; a queue of
one entry is full at once, one of two holds what the next pass leaves behind.  A
run of six units sees the start of a capture, a bounce and the end; two runs show
what one leaves to the next; three edges are a capture and one too many; 24 units
let either test begin before, during or after the other.  `Wrap` = 64 puts the
wrap into the first run.  Three clients are one that leaves, one that stays and
one that comes meanwhile.  One retry is a first attempt and a last one; the
retries between them differ in nothing.  Two forms of which each may be accepted,
rejected or stored in part leave the settings in every relation to the copies;
2^30 keeps what matters of 2^32: it is above every limit, half of it is negative
as an `int`, and TLC's integers reach it.  The runs with violations are the
smallest that show them.

Deadlock is not checked where the environment may stop (no further request,
command or edge within the bound) and everything then rests.

Fairness is weak fairness per task.  In `Clients` the browsers need do nothing and
in `Modbus` the network need never answer: what must happen there happens against
both.  It is what the scheduler gives: every task
ends its round with `vTaskDelay` or waits with a timeout, none of them takes a
lock that another could keep, and all of them are ready again when the delay is
over.  The user, the web client and the pins are not fair.

### Disagreements found

* `StateMachine.cpp:117` promises atomic access; with the mutex commented out the
  state can move where no row leads (`StateMachineTorn`).
* `TestManager.cpp:542` announces the next test, which never starts, because the
  first start has used up `_enableCurrentTest` (`TestSessionNext`).
* `SwitchTest.cpp:175` says the capture is reset; `_dataCaptureRunning_SW` is not,
  and an early end edge is paired with the start of an earlier run
  (`TestCaptureStale`).
* `PZEM_Modbus.hpp:294` finds "the matching target by token", and line 137 calls the
  token unique; both meters have token 0 and no write has the token of a switch
  target, so the output meter's reading overwrites the input meter's, and the coil
  cache learns of no write (`ModbusReadings`).

Consequences of the code that the properties take into account: a test accepted
during a transfer stays behind until the next one is entered, although
`TestSync.cpp:430` logs that all are transferred (`TransferComplete` speaks of those
active when it began); parameters that `TestManager.cpp:429` sends in every pass are
left over for the other type of test (`LoadFits` speaks of the load the
parameters were computed for); a write that failed is taken for done by the next
call (`AskedIsSet`); of two tests on the one pin, the one whose time is over gives
the power back while the other still measures (`PowerFollowsTests`); a negative
number in a form may be stored as a large setting (`Accepts`).

## 5. What is proved

`StateMachine_proofs`, for every set of callers and crews of them, every table,
all events and modes: `TypeCorrect`, `SoloCallsSynchronise`, `SoloCallsAreAtomic`,
and, for the behaviours in which a single task calls, `SingleCallerKeepsPromise`
(the refinement of `DeviceState`) and `SingleCallerInSync`.  A statement about
calls that are over is not inductive, so `SoloInv` says for each point of a call
that nobody overlaps what has been stored and which observers have been told;
`SingleInv` says, for a single caller, that no call of it is ever overlapped and
where in a call the observers are in step with the machine.  `CallsHaveBounds` and
`CallsGetNearer` count the steps a call has left, at most 19 more than the table
has rows: every step of a call lowers the count and no step of another call raises
it, although the second notification begins over what other calls have changed
meanwhile.  Assumed: `CallersAssumption` and `TableAssumption`, the types of the
constants.

`TestTransfer_proofs`, for every size of the lists, all types and loads:
`TypeCorrect`, `HandsOverPrefix`, `FillsArray`, `TransfersAll` and
`KeepsHandover` (the refinement of `TestHandover`).  `TransferInv` says at each
point of the two scans and of the copy how much of the list has been counted,
filled and added; that the active slots are an interval from the first one on
is what makes a scan that stops at a count complete, and what lets the
refinement mapping number the requests.  `TransfersAreBounded` and
`TransfersGetNearer` say that a transfer takes at most four steps for each slot and
three more, whatever AsyncTCP accepts meanwhile.  Assumed: `MaxTestAssumption`.

`TestCapture_proofs`, for any durations above the first delay, any limits, any
range of `millis()`, one test or both side by side: `TypeCorrect`,
`PowerIsForTests`, `RunsKeepDuration`, `CapturesSettle`, `StopsAreOfThisRun`,
`SuccessesAreInRange`, all from `KeepsCaptureInv`.  `PowerInv` names the test that
keeps the power cut, and the one that has given it back to a test that measures;
`TimeInv` adds the delay a task is in to the age of its run, so that the passing
of time changes nothing; `FlagInv` says which edge each flag stands for and that
no interrupt task is at a test that is not in progress.  `ModDifference` is the
arithmetic of a clock that wraps.  Assumed:  `WatchAssumption`,
`DurationAssumption`, and `TimeAssumption`, that the device is watched for less
than one turn of `millis()` (49 days) minus the longest valid time.  A stamp left
for longer could look young again; the code has nothing against that.

`LoadBank_proofs`, for every rating and load: `FewestBanks` and `LoadIsDrawn`, the
arithmetic of `setLoad` at every remainder of the division by four.

`WebRequests_proofs`, for any forms, loads, queue and buffer sizes:
`SettingsHaveTypes`, `ObserversKeepStep`, `LoadsFit` and `LogStaysRecent`, from
one inductive invariant.  `SettingsHaveTypes` says that no number of a form,
whatever its conversion yields, gets a setting out of the range of its field, and
that only `MaxRetest` can be negative.  `InStep` adds to `ObserversInStep` what
holds within a request:  the observers told already have the settings, and those
to be told are left.  `LoadInv` says of every set of parameters, in the queue, in
a task and in the bank, that while it is quiet it is the load of the rating as
set, which rests on the manager's copy being that rating; `LogInv` is
`LogIsRecent`.  Assumed:  `FormsAssumption`, `ConversionAssumption`,
`SettingsAssumption`, `LogAssumption`, the types and bounds of the constants, and
that a form's fields come in the order of the handler.

`Clients_proofs`, for any number of clients and messages and any queue:
`ClientsHaveTypes`, `ListKeepsStep` and `PingsExistingClient`.  `ListInv` says which
client the event in hand may leave out of step, and that whoever is about to be
dropped has left for good: a number never comes back, which is why an old copy of
the list does no harm.  Assumed: `ClientsAssumption`.

`TestSession_proofs`, for any sessions, outcomes and queue lengths:
`SessionHasTypes`, `StartsAreEnabled`, `StatesHaveCauses` and `KeepsResults` (the
refinement of `TestResults`).  The table enters by three facts about its rows: it
has only known states and events (`TableRowsFit`), and `Moves` says which events
lead into and out of the states that a test or the manager must end.  `StartsInv`
says that the flag is up only for an enabling that neither caller has used yet,
but for the one of them that is between looking and lowering.  `RunInv` says that
data are not valid before the run that took them is evaluated, so that good data
are always reported and never taken for those of an earlier run.  `ResultsInv`
says who may start a run, or is to: the flag is up, and a test bit set, only for a
type that the list has (`FlagInv`, `BitsInv`); a task that runs has nothing left
to send, so that a run which fails loses nothing (`RunsInv`); and the entry that
is being marked is not done yet (`MarkInv`).  Each step of the session is then a
step of `TestResults` or none, by cases:  `TransferLists`, `ReceiptKeepsResults`,
`MarkFinishes`, and `TestsKeepResults` for the test tasks.  Assumed:
`SessionsAssumption`, `BoundsAssumption`.

`ModbusManager_proofs`, for any calls, retries and queue sizes: `ManagerHasTypes`,
`CoilsAreAsAsked` and `TargetsArePaidFor`.  `TokenInv` says which tokens there
are: a lost update of the counter gives one twice, but never one of the switch
targets.  `ClientInv`, which the others rest on, shows that what `ModbusReadings`
finds is no accident of its bounds: readings go to `inputPower` alone, and no
write to the cache.  `RememberedInv` says that the value remembered for a coil is
the one asked for, and the one it has or will have, but while its write waits for
the queue; a target that the watchdog adds is behind the first of its coil or has
no value yet.  `BudgetInv` balances an account behind `ReadsPerTrigger`: every
call with ON pays for MAX_RETRIES + 1 targets, which are on the list, still to
come of the looks the watchdog has left, or to come of a call that waits in its
queue or is on its way there.  `TasksHaveBounds` and `TasksGetNearer` count what
is left to a call of `TriggerCoil` (at most MAX_RETRIES + 3 steps) and to the
watchdog before it is free (at most (MAX_RETRIES + 2)(MAX_RETRIES + 1) + 1).
Assumed: `ModbusAssumption`.

The theorems on steps left (`CallsGetNearer`, `TransfersGetNearer`, `TasksGetNearer`)
are the part of the return of every call, of `WaitingTestsArrive` and of `TasksReturn`
that does not depend on the scheduler: nothing goes round for ever.  That the next
step is taken needs fairness and ENABLED, and stays with TLC.

Only model-checked: liveness (`WaitingTestsArrive`,
`CommandsAreServed`, `RunningTestIsSaved`, `MessagesAreHandled`,
`OpenClientsGetReadings`, `MetersArePolled`, `TasksReturn`), and the runs with
violations.  Every safety property of a passing run is also a theorem.

## 6. What is not modelled

Wi-Fi, NVS, the file system, HTML, names and log lines: input and output without
state the properties are about.  The creation of tasks, queues and pins at start-up,
except for the events it reports.  `checkForDeletedTests`, `_swData` and
`_btData`, and the result queues of `testSyncTask`, which nobody calls or reads.

Of `UPSTesterSetup`, everything but the two settings a browser can change and their
notification: loading, saving, factory settings and `updateSettings` have no caller,
and `notifyAllSettingsApplied` has no definition.  `ReconfigureTaskParams` copies what
nobody reads, so a duration changed by a form never reaches a run.  Of the Modbus
manager, `removeTarget` and `autopoll(false)`, which have no caller, and its start-up,
where the tasks exist a moment before the watchdog's queue does.  Of the data
handler, the JSON, the LED flags, which one task alone writes, and readings that the
Modbus worker may be writing while `prepData` reads them.  Of the logger, levels,
formats and the EEPROM, which `main.cpp` leaves disabled.

Of a client, a ping in flight: the timer task reads the pointer, asks for the status
and pings, and AsyncTCP may delete the client between these; nothing in the code
prevents it, and `PingedClientExists` is about the pointer between two pings only.
