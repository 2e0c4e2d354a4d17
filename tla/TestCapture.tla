------------------------------ MODULE TestCapture ------------------------------
(***************************************************************************)
(* How a run measures a time.  run() cuts the mains of the UPS; the edges  *)
(* of three sense pins call interrupt routines, which give semaphores to   *)
(* three tasks, which stamp the start and the end of the capture into the  *)
(* running tests; run() restores the mains, waits and judges the stamps.   *)
(* Nothing but the waiting keeps the four tasks apart: one action is one   *)
(* access another of them can tell apart.                                  *)
(*                                                                         *)
(* Time passes in units of 50 ms, and a task that can run does so before   *)
(* the next unit begins.  millis() counts the units since the device was   *)
(* switched on and wraps at Wrap, 2^32 ms in the code.                     *)
(***************************************************************************)
EXTENDS Integers, Sequences

CONSTANTS Duration,   \* per type, taskParam's test duration
          MinValid,   \* min_valid_switch_time_ms, min_valid_backup_time_ms
          MaxValid,   \* max_valid_switch_time_ms, max_valid_backup_time_ms
          Wrap,       \* the range of unsigned long
          Boots,      \* how long the device may have been on
          Horizon,    \* bound: how long it is watched at the most
          Watches     \* bound: what is watched: the types whose tasks are asked to run
                      \* tests, how long, and how many edges the sense pins have meanwhile

Types == {"SwitchTest", "BackupTest"}

\* The delays of the code.
Debounce       == 2   \* debounceDelay
InterruptDelay == 2   \* at the end of the interrupt tasks' rounds
EventDelay     == 2   \* after an event is reported
CutDelay       == 3   \* after the power cut, to the next look at the clock
RoundDelay     == 2   \* between two looks at the clock
EndDelay       == 6   \* from the end of the test to the look at the capture

ASSUME WatchAssumption ==
  Watches \subseteq [tested : SUBSET Types, until : 0..Horizon, edges : Nat]
\* The default durations, which are the only ones a run is given, are far above.
ASSUME DurationAssumption ==
  /\ Duration \in [Types -> Nat]
  /\ \A t \in Types : Duration[t] > EventDelay
\* No stamp grows so old that the clock comes round to it.
ASSUME TimeAssumption ==
  /\ MinValid \in Nat \ {0} /\ MaxValid \in Nat /\ Horizon \in Nat /\ Wrap \in Nat
  /\ Boots \subseteq Nat
  /\ Horizon + MaxValid < Wrap
  /\ \A t \in Types : Duration[t] < Wrap

VARIABLES
  watch,       \* what is watched
  elapsed,     \* time since the watch began
  boot,        \* for how long the device was on then
  edges,       \* how many edges there were
  given,       \* the binary semaphores that are given
  lastTrigger, \* lastMainsTriggerTime, lastUPSTriggerTime
  handler,     \* per semaphore, its task
  capture,     \* per type, _dataCaptureRunning, _dataCaptureOk, starttime, endtime
  inProgress,  \* per type, _testinProgress
  powerCut,    \* the level of UPS_POWER_CUT_PIN
  task,        \* per type, where its task is in run(), with its locals
  real         \* history: per type, when the run began, when the stamps were taken, and
               \* when the time of a run was over last

time == <<watch, elapsed, boot>>
vars == <<time, edges, given, lastTrigger, handler, capture, inProgress, powerCut, task, real>>

\* The tests an interrupt task serves, in this order.
Serves == [mainLoss |-> <<"SwitchTest", "BackupTest">>,
           upsGain  |-> <<"SwitchTest">>,
           upsLoss  |-> <<"BackupTest">>]
Interrupts == DOMAIN Serves

\* millis(), and a difference of two of its values.
Millis == (boot + elapsed) % Wrap
Minus(a, b) == (a - b) % Wrap

Init == /\ watch \in Watches
        /\ elapsed = 0
        /\ boot \in Boots
        /\ edges = 0
        /\ given = {}
        /\ lastTrigger = [mains |-> 0, ups |-> 0]
        /\ handler = [i \in Interrupts |-> [at |-> "take", k |-> 1, wait |-> 0]]
        /\ capture = [t \in Types |-> [running |-> FALSE, ok |-> FALSE,
                                       start |-> 0, end |-> 0]]
        /\ inProgress = [t \in Types |-> FALSE]
        /\ powerCut = FALSE
        /\ task = [t \in Types |-> [at |-> "idle", wait |-> 0, begin |-> 0, end |-> 0,
                                    captured |-> FALSE, result |-> "PENDING"]]
        /\ real = [t \in Types |-> [began |-> 0, start |-> -1, end |-> -1, over |-> -1]]

-------------------------------------------------------------------------------
\* A falling edge of a sense pin: keyISR1, 2 and 3.  The two UPS routines compare
\* the one trigger time and store the other.
KeyISR(i) ==
  /\ edges < watch.edges   \* bound
  /\ edges' = edges + 1
  /\ Minus(Millis, IF i = "mainLoss" THEN lastTrigger.mains ELSE lastTrigger.ups) > Debounce
  /\ lastTrigger' = [lastTrigger EXCEPT !.mains = Millis]
  /\ given' = given \union {i}
  /\ UNCHANGED <<time, handler, capture, inProgress, powerCut, task, real>>

\* The interrupt task takes its semaphore.
TakeSemaphore(i) ==
  /\ handler[i].at = "take" /\ handler[i].wait = 0
  /\ i \in given
  /\ given' = given \ {i}
  /\ handler' = [handler EXCEPT ![i].at = "look"]
  /\ UNCHANGED <<time, edges, lastTrigger, capture, inProgress, powerCut, task, real>>

\* The test it is serving.
Served(i) == Serves[i][handler[i].k]

\* Faulty variant: one test too many.
Turn_OneMore(i) == handler' = [handler EXCEPT ![i] =
                                 IF @.k <= Len(Serves[i])
                                 THEN [at |-> "look", k |-> @.k + 1, wait |-> 0]
                                 ELSE [at |-> "take", k |-> 1, wait |-> InterruptDelay]]

\* It turns to the next test, or delays itself.
Turn(i) == handler' = [handler EXCEPT ![i] =
                         IF @.k < Len(Serves[i])
                         THEN [at |-> "look", k |-> @.k + 1, wait |-> 0]
                         ELSE [at |-> "take", k |-> 1, wait |-> InterruptDelay]]

Step(i, at) == handler' = [handler EXCEPT ![i].at = at]

\* isTestRunning()
LookAtTest(i) ==
  /\ handler[i].at = "look"
  /\ IF ~inProgress[Served(i)] THEN Turn(i)
     ELSE Step(i, IF i = "mainLoss" THEN "arm" ELSE "stop")
  /\ UNCHANGED <<time, edges, given, lastTrigger, capture, inProgress, powerCut, task, real>>

\* onMainsPowerLossTask sets _dataCaptureRunning, and logs twice before it goes on.
Arm(i) ==
  /\ handler[i].at = "arm"
  /\ capture' = [capture EXCEPT ![Served(i)].running = TRUE]
  /\ Step(i, "start")
  /\ UNCHANGED <<time, edges, given, lastTrigger, inProgress, powerCut, task, real>>

\* startTestCapture, if the capture is still running.
StampStart(i) ==
  /\ handler[i].at = "start"
  /\ LET t == Served(i)
     IN  IF capture[t].running
         THEN /\ capture' = [capture EXCEPT ![t].start = Millis]
              /\ real' = [real EXCEPT ![t].start = elapsed]
              /\ Step(i, "notOk")
         ELSE Turn(i) /\ UNCHANGED <<capture, real>>
  /\ UNCHANGED <<time, edges, given, lastTrigger, inProgress, powerCut, task>>

\* Faulty variant: a start leaves _dataCaptureOk as it is.
ClearOk_Not(i) ==
  /\ handler[i].at = "notOk"
  /\ Turn(i)
  /\ UNCHANGED <<time, edges, given, lastTrigger, capture, inProgress, powerCut, task, real>>

ClearOk(i) ==
  /\ handler[i].at = "notOk"
  /\ capture' = [capture EXCEPT ![Served(i)].ok = FALSE]
  /\ Turn(i)
  /\ UNCHANGED <<time, edges, given, lastTrigger, inProgress, powerCut, task, real>>

\* stopTestCapture, if the capture is running.
StampEnd(i) ==
  /\ handler[i].at = "stop"
  /\ LET t == Served(i)
     IN  IF capture[t].running
         THEN /\ capture' = [capture EXCEPT ![t].end = Millis]
              /\ real' = [real EXCEPT ![t].end = elapsed]
              /\ Step(i, "disarm")
         ELSE Turn(i) /\ UNCHANGED <<capture, real>>
  /\ UNCHANGED <<time, edges, given, lastTrigger, inProgress, powerCut, task>>

Disarm(i) ==
  /\ handler[i].at = "disarm"
  /\ capture' = [capture EXCEPT ![Served(i)].running = FALSE]
  /\ Step(i, "ok")
  /\ UNCHANGED <<time, edges, given, lastTrigger, inProgress, powerCut, task, real>>

SetOk(i) ==
  /\ handler[i].at = "ok"
  /\ capture' = [capture EXCEPT ![Served(i)].ok = TRUE]
  /\ Turn(i)
  /\ UNCHANGED <<time, edges, given, lastTrigger, inProgress, powerCut, task, real>>

Handle(i) == \/ TakeSemaphore(i) \/ LookAtTest(i) \/ Arm(i) \/ StampStart(i) \/ ClearOk(i)
             \/ StampEnd(i) \/ Disarm(i) \/ SetOk(i)

-------------------------------------------------------------------------------
\* The task of type t is at this point and not delayed.
At(t, where) == task[t].at = where /\ task[t].wait = 0

GoTo(t, where, delay) == [task EXCEPT ![t].at = where, ![t].wait = delay]

\* The longest run, from its begin to its result.
RunTime(t) == EventDelay + Duration[t] + CutDelay + EndDelay + EventDelay

\* Faulty variant: a run begins with the power on.
BeginRun_PowerOn(t) ==
  /\ t \in watch.tested /\ At(t, "idle")
  /\ elapsed + RunTime(t) <= watch.until
  /\ task' = [GoTo(t, "loop", EventDelay) EXCEPT ![t].begin = Millis]
  /\ capture' = [capture EXCEPT ![t].ok = FALSE]
  /\ inProgress' = [inProgress EXCEPT ![t] = FALSE]
  /\ real' = [real EXCEPT ![t].began = elapsed]
  /\ powerCut' = FALSE
  /\ UNCHANGED <<time, edges, given, lastTrigger, handler>>

\* run() to its loop.  _dataCaptureRunning is left as it is.
BeginRun(t) ==
  /\ t \in watch.tested /\ At(t, "idle")
  /\ elapsed + RunTime(t) <= watch.until   \* bound
  /\ task' = [GoTo(t, "loop", EventDelay) EXCEPT ![t].begin = Millis]
  /\ capture' = [capture EXCEPT ![t].ok = FALSE]
  /\ inProgress' = [inProgress EXCEPT ![t] = FALSE]
  /\ real' = [real EXCEPT ![t].began = elapsed]
  /\ UNCHANGED <<time, edges, given, lastTrigger, handler, powerCut>>

\* Faulty variant: the end is computed instead of a difference.
TimeLeft_Deadline(t) == Millis < (task[t].begin + Duration[t]) % Wrap

\* millis() - testStartTime < _testDuration
TimeLeft(t) == Minus(Millis, task[t].begin) < Duration[t]

\* A round of the loop: the first one announces the test.
Round(t) ==
  /\ At(t, "loop") /\ TimeLeft(t)
  /\ IF inProgress[t] THEN task' = GoTo(t, "loop", RoundDelay) /\ UNCHANGED inProgress
     ELSE task' = GoTo(t, "cut", 0) /\ inProgress' = [inProgress EXCEPT ![t] = TRUE]
  /\ UNCHANGED <<time, edges, given, lastTrigger, handler, capture, powerCut, real>>

SimulatePowerCut(t) ==
  /\ At(t, "cut")
  /\ powerCut' = TRUE
  /\ task' = GoTo(t, "loop", CutDelay)
  /\ UNCHANGED <<time, edges, given, lastTrigger, handler, capture, inProgress, real>>

\* The time is over: simulatePowerRestore, for whichever test cut the power.
EndLoop(t) ==
  /\ At(t, "loop") /\ ~TimeLeft(t)
  /\ powerCut' = IF inProgress[t] THEN FALSE ELSE powerCut
  /\ task' = GoTo(t, "ended", 0)
  /\ real' = [real EXCEPT ![t].over = elapsed]
  /\ UNCHANGED <<time, edges, given, lastTrigger, handler, capture, inProgress>>

\* Faulty variant: the capture is looked at without a delay.
EndTest_NoDelay(t) ==
  /\ At(t, "ended")
  /\ inProgress' = [inProgress EXCEPT ![t] = FALSE]
  /\ task' = GoTo(t, "check", 0)
  /\ UNCHANGED <<time, edges, given, lastTrigger, handler, capture, powerCut, real>>

EndTest(t) ==
  /\ At(t, "ended")
  /\ inProgress' = [inProgress EXCEPT ![t] = FALSE]
  /\ task' = GoTo(t, "check", EndDelay)
  /\ UNCHANGED <<time, edges, given, lastTrigger, handler, capture, powerCut, real>>

\* _dataCaptureOk decides whether there is anything to process.
CheckCapture(t) ==
  /\ At(t, "check")
  /\ task' = IF capture[t].ok
             THEN [GoTo(t, "process", IF task[t].captured THEN 0 ELSE EventDelay)
                     EXCEPT ![t].captured = TRUE]
             ELSE [GoTo(t, "idle", EventDelay) EXCEPT ![t].result = "FAILED"]
  /\ UNCHANGED <<time, edges, given, lastTrigger, handler, capture, inProgress, powerCut, real>>

\* processTestImpl reads the end first ...
ReadEnd(t) ==
  /\ At(t, "process")
  /\ task' = [GoTo(t, "judge", 0) EXCEPT ![t].end = capture[t].end]
  /\ UNCHANGED <<time, edges, given, lastTrigger, handler, capture, inProgress, powerCut, real>>

\* Faulty variant: the end is not compared with the start.
InRange_AnyTime(start, end) == start > 0 /\ end > 0

\* checkTimerRange, checkBackupRange
InRange(start, end) ==
  start > 0 /\ end > 0 /\ Minus(end, start) \in MinValid..MaxValid

\* ... then the start, and judges the two.
JudgeCapture(t) ==
  /\ At(t, "judge")
  /\ task' = IF InRange(capture[t].start, task[t].end)
             THEN [GoTo(t, "idle", 2 * EventDelay) EXCEPT ![t].result = "SUCCESSFUL",
                                                          ![t].captured = FALSE]
             ELSE [GoTo(t, "idle", EventDelay) EXCEPT ![t].result = "FAILED"]
  /\ UNCHANGED <<time, edges, given, lastTrigger, handler, capture, inProgress, powerCut, real>>

Run(t) == \/ BeginRun(t) \/ Round(t) \/ SimulatePowerCut(t) \/ EndLoop(t) \/ EndTest(t)
          \/ CheckCapture(t) \/ ReadEnd(t) \/ JudgeCapture(t)

-------------------------------------------------------------------------------
\* Nobody can go on but by waiting.
AllWait == /\ \A i \in Interrupts : /\ handler[i].at = "take"
                                    /\ handler[i].wait > 0 \/ i \notin given
           /\ \A t \in Types : task[t].at = "idle" \/ task[t].wait > 0

Shorter(wait) == IF wait > 0 THEN wait - 1 ELSE 0

Tick ==
  /\ AllWait
  /\ elapsed < watch.until   \* bound
  /\ elapsed' = elapsed + 1
  /\ handler' = [i \in Interrupts |-> [handler[i] EXCEPT !.wait = Shorter(@)]]
  /\ task' = [t \in Types |-> [task[t] EXCEPT !.wait = Shorter(@)]]
  /\ UNCHANGED <<watch, boot, edges, given, lastTrigger, capture, inProgress, powerCut, real>>

Next == \/ \E i \in Interrupts : KeyISR(i) \/ Handle(i)
        \/ \E t \in Types : Run(t)
        \/ Tick

Spec == Init /\ [][Next]_vars
-------------------------------------------------------------------------------
Moment  == -1..Horizon
Stamp   == 0..(Wrap - 1)
Handler == [at : {"take", "look", "arm", "start", "notOk", "stop", "disarm", "ok"},
            k : {1, 2}, wait : 0..InterruptDelay]
Capture == [running : BOOLEAN, ok : BOOLEAN, start : Stamp, end : Stamp]
Task    == [at : {"idle", "loop", "cut", "ended", "check", "process", "judge"},
            wait : 0..EndDelay, begin : Stamp, end : Stamp, captured : BOOLEAN,
            result : {"PENDING", "SUCCESSFUL", "FAILED"}]

TypeOK ==
  /\ watch \in Watches /\ elapsed \in 0..Horizon /\ boot \in Boots
  /\ edges \in 0..watch.edges
  /\ given \subseteq Interrupts
  /\ lastTrigger \in [mains : Stamp, ups : {0}]
  /\ handler \in [Interrupts -> Handler]
  /\ \A i \in Interrupts : handler[i].k <= Len(Serves[i])
  /\ capture \in [Types -> Capture]
  /\ inProgress \in [Types -> BOOLEAN] /\ powerCut \in BOOLEAN
  /\ task \in [Types -> Task]
  /\ real \in [Types -> [began : 0..Horizon, start : Moment, end : Moment, over : Moment]]

\* Two tests share the pin that cuts the power, and each restores it at its end
\* without regard for the other.  While a test measures, the power is cut, unless the
\* time of the other one was over after this one had cut it: the test that begins or
\* measures beside it never gives the power back.  And when no test is in progress
\* any more, whichever was over last, the power is back.
PowerFollowsTests ==
  /\ \A t \in Types :
       task[t].at = "loop" /\ inProgress[t] /\ ~powerCut =>
         \E u \in Types \ {t} : real[u].over >= real[t].began + EventDelay
  /\ powerCut => \E t \in Types : inProgress[t]

\* A run lasts its duration and no longer than one more look at the clock, also
\* when millis() wraps meanwhile, and its test was in progress.
RunKeepsDuration ==
  \A t \in Types :
    task[t].at = "ended" =>
      /\ inProgress[t]
      /\ elapsed - real[t].began \in Duration[t]..(Duration[t] + CutDelay - 1)

\* No interrupt task is about to change what test t has captured.
Settled(t) == \A i \in Interrupts : handler[i].at \notin {"take", "look"} => Served(i) # t

\* When run() looks at what was captured, no interrupt task is still at it: the
\* delays alone see to that.
CaptureSettled ==
  \A t \in Types : At(t, "check") \/ task[t].at \in {"process", "judge"} => Settled(t)

\* What run() processes ended in this run, and not before it started.
StopIsOfThisRun ==
  \A t \in Types :
    task[t].at \in {"process", "judge"} =>
      real[t].end >= real[t].began /\ real[t].end >= real[t].start

\* A successful run has measured a time within the limits, whatever stamps were
\* left behind by earlier runs and wherever millis() wrapped in between.
SuccessIsTimeBetween ==
  [][\A t \in Types :
       task[t].at = "judge" /\ task'[t].result = "SUCCESSFUL" /\ task'[t].at = "idle" =>
         real[t].end - real[t].start \in MinValid..MaxValid]_vars

\* "Ensure data capture is reset": a start that run() processes is one of this
\* run.  False: _dataCaptureRunning is not reset, and an end that comes before the
\* start, or finds its start not stamped yet, completes a capture of an earlier run.
CaptureIsOfThisRun ==
  \A t \in Types :
    task[t].at = "process" /\ capture[t].start > 0 => real[t].start >= real[t].began

-------------------------------------------------------------------------------
\* Why these hold, in three parts.  The power is cut by a test whose time is not over,
\* and restored under such a test only by the end of another one.
PowerInv ==
  /\ powerCut => \E t \in Types : inProgress[t] /\ task[t].at = "loop"
  /\ \A t \in Types :
       task[t].at = "loop" /\ inProgress[t] /\ ~powerCut =>
         \E u \in Types \ {t} : real[u].over >= real[t].began + EventDelay

\* How old a run is at each point, counting the delay it is in.
Aged(t) ==
  LET age == elapsed - real[t].began
  IN  /\ real[t].began <= elapsed
      /\ task[t].at \in {"loop", "cut"} => task[t].begin = (boot + real[t].began) % Wrap
      /\ task[t].at = "loop" => IF inProgress[t]
                                THEN /\ age >= EventDelay
                                     /\ age + task[t].wait < Duration[t] + CutDelay
                                ELSE age + task[t].wait = EventDelay
      /\ task[t].at = "cut" => /\ inProgress[t] /\ task[t].wait = 0
                              /\ age \in EventDelay..(Duration[t] - 1)
      /\ task[t].at = "ended" => /\ inProgress[t] /\ task[t].wait = 0
                                /\ age \in Duration[t]..(Duration[t] + CutDelay - 1)

TimeInv == \A t \in Types : Aged(t)

\* Which stamps the flags of a test stand for.  An end is never older than the
\* start, but while a start is being taken.
Flagged(t) ==
  /\ inProgress[t] => task[t].at \in {"loop", "cut", "ended"}
  /\ inProgress[t] \/ (task[t].at = "check" /\ task[t].wait = EndDelay) \/ Settled(t)
  /\ capture[t].ok => /\ real[t].end >= real[t].began
                      /\ \/ real[t].end >= real[t].start
                         \/ \E i \in Interrupts : handler[i].at = "notOk" /\ Served(i) = t
  /\ task[t].at \in {"process", "judge"} => capture[t].ok
  /\ task[t].at = "judge" => task[t].end = capture[t].end

\* The stamps are values of millis(), and zero until there is one.
Stamped(t) ==
  /\ real[t].start <= elapsed /\ real[t].end <= elapsed
  /\ capture[t].start = IF real[t].start = -1 THEN 0 ELSE (boot + real[t].start) % Wrap
  /\ capture[t].end = IF real[t].end = -1 THEN 0 ELSE (boot + real[t].end) % Wrap

FlagInv ==
  /\ \A t \in Types : Flagged(t) /\ Stamped(t)
  /\ \A i \in Interrupts : handler[i].at \in {"disarm", "ok"} => real[Served(i)].end = elapsed

CaptureInv == PowerInv /\ TimeInv /\ FlagInv
===============================================================================
