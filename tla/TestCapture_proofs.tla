--------------------------- MODULE TestCapture_proofs ---------------------------
(***************************************************************************)
(* For any durations, any limits of a valid time, any range of millis()    *)
(* and any number of edges, with one test or two tests side by side.       *)
(***************************************************************************)
EXTENDS TestCapture, TLAPS

LEMMA ServesFacts ==
  \A i \in Interrupts : /\ Len(Serves[i]) \in 1..2
                        /\ \A k \in 1..Len(Serves[i]) : Serves[i][k] \in Types
<1> SUFFICES ASSUME NEW i \in Interrupts
             PROVE  /\ Len(Serves[i]) \in 1..2
                    /\ \A k \in 1..Len(Serves[i]) : Serves[i][k] \in Types
  OBVIOUS
<1>1. CASE i = "mainLoss"
  BY <1>1 DEF Serves, Types
<1>2. CASE i = "upsGain"
  BY <1>2 DEF Serves, Types
<1>3. CASE i = "upsLoss"
  BY <1>3 DEF Serves, Types
<1> QED
  BY <1>1, <1>2, <1>3 DEF Interrupts, Serves

LEMMA ServedType == TypeOK => \A i \in Interrupts : Served(i) \in Types
<1> SUFFICES ASSUME TypeOK, NEW i \in Interrupts PROVE Serves[i][handler[i].k] \in Types
  BY DEF Served
<1>1. handler[i].k \in {1, 2} /\ handler[i].k <= Len(Serves[i])
  <2>1. handler[i] \in Handler /\ handler[i].k <= Len(Serves[i])
    BY DEF TypeOK
  <2> QED
    BY <2>1 DEF Handler
<1> QED
  BY <1>1, ServesFacts

LEMMA ModType ==
  ASSUME NEW a \in Int, NEW w \in Nat \ {0}
  PROVE  a % w \in 0..(w - 1)
OBVIOUS

\* Two values of a clock that wraps tell the time between them.
LEMMA ModDifference ==
  ASSUME NEW w \in Nat \ {0}, NEW a \in Nat, NEW b \in Nat, b <= a, a - b < w
  PROVE  ((a % w) - (b % w)) % w = a - b
<1>1. PICK q \in Int, p \in Int : a = w * q + (a % w) /\ b = w * p + (b % w)
  <2>1. a = w * (a \div w) + (a % w) /\ b = w * (b \div w) + (b % w)
    OBVIOUS
  <2>2. a \div w \in Int /\ b \div w \in Int
    OBVIOUS
  <2> QED
    BY <2>1, <2>2
<1> DEFINE x == a % w
           y == b % w
           n == q - p
<1>2. /\ x \in 0..(w - 1) /\ y \in 0..(w - 1)
      /\ n \in Int
  BY ModType, <1>1
<1>3. a - b = w * n + (x - y)
  BY <1>1
<1> HIDE DEF x, y, n
<1>4. \A m \in Int : /\ m >= 1 => w * m >= w
                     /\ m >= 2 => w * m >= 2 * w
                     /\ m <= -1 => w * m <= -w
                     /\ m = 0 => w * m = 0
  OBVIOUS
<1>5. CASE x >= y
  <2>1. w * n = (a - b) - (x - y) /\ w * n \in Int
    BY <1>2, <1>3
  <2>2. n = 0
    BY <1>2, <1>4, <1>5, <2>1
  <2>3. x - y = a - b
    BY <1>2, <1>4, <2>1, <2>2
  <2>4. (x - y) % w = x - y
    BY <1>2, <1>5
  <2> QED
    BY <2>3, <2>4 DEF x, y
<1>6. CASE x < y
  <2>1. w * n = (a - b) - (x - y) /\ w * n \in Int
    BY <1>2, <1>3
  <2>2. n = 1
    BY <1>2, <1>4, <1>6, <2>1
  <2>3. x - y + w = a - b
    BY <1>2, <2>1, <2>2
  <2>4. (x - y) % w = x - y + w
    BY <1>2, <1>6
  <2> QED
    BY <2>3, <2>4 DEF x, y
<1> QED
  BY <1>2, <1>5, <1>6

LEMMA MillisType == TypeOK => Millis \in 0..(Wrap - 1)
<1> SUFFICES ASSUME TypeOK PROVE (boot + elapsed) % Wrap \in 0..(Wrap - 1)
  BY DEF Millis
<1>1. boot + elapsed \in Int /\ Wrap \in Nat \ {0}
  BY TimeAssumption DEF TypeOK
<1> QED
  BY <1>1, ModType

\* A stamp of this watch tells how long ago it was taken, and two stamps tell
\* the time between them.
LEMMA StampDifference ==
  ASSUME TypeOK, NEW s \in 0..Horizon, NEW e \in 0..Horizon, s <= e
  PROVE  Minus((boot + e) % Wrap, (boot + s) % Wrap) = e - s
<1>1. /\ Wrap \in Nat \ {0} /\ boot + e \in Nat /\ boot + s \in Nat
      /\ boot + s <= boot + e /\ (boot + e) - (boot + s) < Wrap
      /\ (boot + e) - (boot + s) = e - s
  BY TimeAssumption DEF TypeOK
<1> QED
  BY <1>1, ModDifference DEF Minus

\* The bounds of what is watched.
LEMMA WatchBounds ==
  ASSUME NEW w \in Watches
  PROVE  w.until \in Nat /\ w.until <= Horizon /\ w.edges \in Nat /\ w.tested \subseteq Types
<1>1. w \in [tested : SUBSET Types, until : 0..Horizon, edges : Nat]
  BY WatchAssumption
<1> QED
  BY <1>1, TimeAssumption

LEMMA InitType == Init => TypeOK
<1> SUFFICES ASSUME Init PROVE TypeOK
  OBVIOUS
<1>1. /\ Horizon \in Nat /\ Wrap \in Nat \ {0}
      /\ 0 \in Stamp /\ 0 \in 0..Horizon /\ -1 \in Moment
  BY TimeAssumption DEF Stamp, Moment
<1>2. handler \in [Interrupts -> Handler] /\ \A i \in Interrupts : handler[i].k <= Len(Serves[i])
  <2>1. [at |-> "take", k |-> 1, wait |-> 0] \in Handler
    BY DEF Handler, InterruptDelay
  <2>2. handler = [i \in Interrupts |-> [at |-> "take", k |-> 1, wait |-> 0]]
    BY DEF Init
  <2> QED
    BY <2>1, <2>2, ServesFacts
<1>3. task \in [Types -> Task] /\ capture \in [Types -> Capture]
  BY <1>1 DEF Init, Task, Capture, EndDelay
<1>4. /\ real \in [Types -> [began : 0..Horizon, start : Moment, end : Moment, over : Moment]]
      /\ lastTrigger \in [mains : Stamp, ups : {0}]
      /\ inProgress \in [Types -> BOOLEAN] /\ powerCut \in BOOLEAN
  BY <1>1 DEF Init
<1>5. /\ watch \in Watches /\ elapsed \in 0..Horizon /\ boot \in Boots
      /\ edges \in 0..watch.edges /\ given \subseteq Interrupts
  BY <1>1, WatchBounds DEF Init
<1> QED
  BY <1>2, <1>3, <1>4, <1>5 DEF TypeOK

\* A step of an interrupt task within its round, and the turn to the next test or
\* to the wait, keep the task in its type.
LEMMA StepType ==
  ASSUME TypeOK, NEW i \in Interrupts,
         NEW at \in {"look", "arm", "start", "notOk", "stop", "disarm", "ok"},
         Step(i, at)
  PROVE  /\ handler' \in [Interrupts -> Handler]
         /\ \A j \in Interrupts : /\ handler'[j].k = handler[j].k
                                  /\ handler'[j].k <= Len(Serves[j])
                                  /\ Served(j)' = Served(j)
                                  /\ handler'[j].at = IF j = i THEN at ELSE handler[j].at
<1>1. handler \in [Interrupts -> Handler] /\ handler' = [handler EXCEPT ![i].at = at]
  BY DEF TypeOK, Step
<1>2. [handler[i] EXCEPT !.at = at] \in Handler
  <2>1. handler[i] \in Handler
    BY <1>1
  <2> QED
    BY <2>1 DEF Handler
<1>3. handler' \in [Interrupts -> Handler]
  BY <1>1, <1>2
<1>4. \A j \in Interrupts : /\ handler'[j].k = handler[j].k
                            /\ handler'[j].at = IF j = i THEN at ELSE handler[j].at
  BY <1>1 DEF Handler
<1> QED
  BY <1>3, <1>4 DEF TypeOK, Served

LEMMA TurnType ==
  ASSUME TypeOK, NEW i \in Interrupts, Turn(i)
  PROVE  /\ handler' \in [Interrupts -> Handler]
         /\ \A j \in Interrupts : handler'[j].k <= Len(Serves[j])
         /\ handler'[i].at \in {"take", "look"}
         /\ \A j \in Interrupts \ {i} : /\ handler'[j].at = handler[j].at
                                        /\ Served(j)' = Served(j)
<1>1. /\ handler \in [Interrupts -> Handler]
      /\ \A j \in Interrupts : handler[j].k <= Len(Serves[j])
      /\ Len(Serves[i]) \in 1..2
  BY ServesFacts DEF TypeOK
<1> DEFINE n == IF handler[i].k < Len(Serves[i])
                THEN [at |-> "look", k |-> handler[i].k + 1, wait |-> 0]
                ELSE [at |-> "take", k |-> 1, wait |-> InterruptDelay]
<1>2. n \in Handler /\ n.k <= Len(Serves[i])
  <2>1. handler[i].k \in {1, 2}
    BY <1>1 DEF Handler
  <2>2. CASE handler[i].k < Len(Serves[i])
    <3>1. handler[i].k + 1 \in {1, 2} /\ handler[i].k + 1 <= Len(Serves[i])
      <4> DEFINE k == handler[i].k
                 l == Len(Serves[i])
      <4>1. k \in {1, 2} /\ l \in 1..2 /\ k < l
        BY <2>1, <2>2, <1>1
      <4> HIDE DEF k, l
      <4>2. k + 1 \in {1, 2} /\ k + 1 <= l
        BY <4>1
      <4> QED
        BY <4>2 DEF k, l
    <3>2. n = [at |-> "look", k |-> handler[i].k + 1, wait |-> 0]
      BY <2>2
    <3>3. \A k \in {1, 2} : [at |-> "look", k |-> k, wait |-> 0] \in Handler
      BY DEF Handler, InterruptDelay
    <3>4. n.k = handler[i].k + 1
      BY <3>2
    <3>5. [at |-> "look", k |-> handler[i].k + 1, wait |-> 0] \in Handler
      BY <3>1, <3>3
    <3> HIDE DEF n
    <3> QED
      BY <3>1, <3>2, <3>4, <3>5
  <2>3. CASE ~(handler[i].k < Len(Serves[i]))
    BY <2>1, <2>3, <1>1 DEF Handler, InterruptDelay
  <2> QED
    BY <2>2, <2>3
<1>3. handler' = [handler EXCEPT ![i] = n]
  BY DEF Turn
<1>4. n.at \in {"take", "look"}
  OBVIOUS
<1> HIDE DEF n
<1> QED
  BY <1>1, <1>2, <1>3, <1>4 DEF Served

\* The other tasks are where they were.
Others(t) == \A u \in Types \ {t} : task'[u] = task[u]

LEMMA GoToType ==
  ASSUME TypeOK, NEW t \in Types, NEW delay \in 0..EndDelay,
         NEW where \in {"idle", "loop", "cut", "ended", "check", "process", "judge"}
  PROVE  /\ GoTo(t, where, delay) \in [Types -> Task]
         /\ GoTo(t, where, delay)[t].at = where
         /\ GoTo(t, where, delay)[t].wait = delay
         /\ GoTo(t, where, delay)[t].begin = task[t].begin
         /\ GoTo(t, where, delay)[t].end = task[t].end
         /\ \A u \in Types \ {t} : GoTo(t, where, delay)[u] = task[u]
<1>1. task \in [Types -> Task] /\ task[t] \in Task
  BY DEF TypeOK
<1>2. LET n == [task[t] EXCEPT !.at = where, !.wait = delay]
      IN  /\ n \in Task /\ n.at = where /\ n.wait = delay
          /\ n.begin = task[t].begin /\ n.end = task[t].end
  BY <1>1 DEF Task
<1>3. GoTo(t, where, delay) = [task EXCEPT ![t] = [task[t] EXCEPT !.at = where, !.wait = delay]]
  BY <1>1 DEF GoTo
<1> QED
  BY <1>1, <1>2, <1>3

\* What every action of a test task does to its place in run().
LEMMA BeginRunEffect ==
  ASSUME TypeOK, NEW t \in Types, BeginRun(t)
  PROVE  /\ task' \in [Types -> Task] /\ Others(t)
         /\ task[t].at = "idle" /\ task[t].wait = 0
         /\ task'[t].at = "loop" /\ task'[t].wait = EventDelay /\ task'[t].begin = Millis
<1> DEFINE g == GoTo(t, "loop", EventDelay)
<1>1. /\ g \in [Types -> Task] /\ g[t].at = "loop" /\ g[t].wait = EventDelay
      /\ \A u \in Types \ {t} : g[u] = task[u]
  <2>1. EventDelay \in 0..EndDelay
    BY DEF EventDelay, EndDelay
  <2> QED
    BY <2>1, GoToType
<1>2. task' = [g EXCEPT ![t] = [@ EXCEPT !.begin = Millis]]
  BY DEF BeginRun
<1> HIDE DEF g
<1>3. g[t] \in Task /\ Millis \in Stamp
  BY <1>1, MillisType DEF Stamp
<1>4. [g[t] EXCEPT !.begin = Millis] \in Task
  BY <1>3 DEF Task
<1>5. /\ [g[t] EXCEPT !.begin = Millis].at = g[t].at
      /\ [g[t] EXCEPT !.begin = Millis].wait = g[t].wait
      /\ [g[t] EXCEPT !.begin = Millis].begin = Millis
  BY <1>3 DEF Task
<1>6. task[t].at = "idle" /\ task[t].wait = 0
  BY DEF BeginRun, At
<1> QED
  BY <1>1, <1>2, <1>4, <1>5, <1>6 DEF Others

LEMMA GoEffect ==
  ASSUME TypeOK, NEW t \in Types, NEW delay \in 0..EndDelay,
         NEW where \in {"idle", "loop", "cut", "ended", "check", "process", "judge"},
         task' = GoTo(t, where, delay)
  PROVE  /\ task' \in [Types -> Task] /\ Others(t)
         /\ task'[t].at = where /\ task'[t].wait = delay
         /\ task'[t].begin = task[t].begin /\ task'[t].end = task[t].end
BY GoToType DEF Others

LEMMA CheckCaptureEffect ==
  ASSUME TypeOK, NEW t \in Types, CheckCapture(t)
  PROVE  /\ task' \in [Types -> Task] /\ Others(t)
         /\ task[t].at = "check" /\ task[t].wait = 0
         /\ task'[t].at = IF capture[t].ok THEN "process" ELSE "idle"
<1>0. task[t].at = "check" /\ task[t].wait = 0
  BY DEF CheckCapture, At
<1>1. CASE capture[t].ok
  <2> DEFINE d == IF task[t].captured THEN 0 ELSE EventDelay
             g == GoTo(t, "process", d)
  <2>1. d \in 0..EndDelay
    BY DEF EventDelay, EndDelay
  <2> HIDE DEF d
  <2>2. task[t] \in Task
    BY DEF TypeOK
  <2>3. /\ g \in [Types -> Task] /\ g[t].at = "process"
        /\ \A u \in Types \ {t} : g[u] = task[u]
    BY <2>1, GoToType
  <2>4. task' = [g EXCEPT ![t] = [@ EXCEPT !.captured = TRUE]]
    BY <1>1 DEF CheckCapture, d
  <2> HIDE DEF g
  <2>5. g[t] \in Task
    BY <2>3
  <2>6. [g[t] EXCEPT !.captured = TRUE] \in Task /\ [g[t] EXCEPT !.captured = TRUE].at = "process"
    BY <2>3, <2>5 DEF Task
  <2> QED
    BY <1>0, <1>1, <2>3, <2>4, <2>6 DEF Others
<1>2. CASE ~capture[t].ok
  <2> DEFINE g == GoTo(t, "idle", EventDelay)
  <2>2. task[t] \in Task /\ EventDelay \in 0..EndDelay
    BY DEF TypeOK, EventDelay, EndDelay
  <2>3. /\ g \in [Types -> Task] /\ g[t].at = "idle"
        /\ \A u \in Types \ {t} : g[u] = task[u]
    BY <2>2, GoToType
  <2>4. task' = [g EXCEPT ![t] = [@ EXCEPT !.result = "FAILED"]]
    BY <1>2 DEF CheckCapture
  <2> HIDE DEF g
  <2>5. g[t] \in Task
    BY <2>3
  <2>6. [g[t] EXCEPT !.result = "FAILED"] \in Task /\ [g[t] EXCEPT !.result = "FAILED"].at = "idle"
    BY <2>3, <2>5 DEF Task
  <2> QED
    BY <1>0, <1>2, <2>3, <2>4, <2>6 DEF Others
<1> QED
  BY <1>1, <1>2

LEMMA ReadEndEffect ==
  ASSUME TypeOK, NEW t \in Types, ReadEnd(t)
  PROVE  /\ task' \in [Types -> Task] /\ Others(t)
         /\ task[t].at = "process"
         /\ task'[t].at = "judge" /\ task'[t].end = capture[t].end
<1> DEFINE g == GoTo(t, "judge", 0)
<1>1. /\ g \in [Types -> Task] /\ g[t].at = "judge"
      /\ \A u \in Types \ {t} : g[u] = task[u]
  <2>1. 0 \in 0..EndDelay
    BY DEF EndDelay
  <2> QED
    BY <2>1, GoToType
<1>2. task' = [g EXCEPT ![t] = [@ EXCEPT !.end = capture[t].end]]
  BY DEF ReadEnd
<1> HIDE DEF g
<1>3. g[t] \in Task /\ capture[t].end \in Stamp
  <2>1. capture[t] \in Capture
    BY DEF TypeOK
  <2> QED
    BY <1>1, <2>1 DEF Capture
<1>4. [g[t] EXCEPT !.end = capture[t].end] \in Task
  BY <1>3 DEF Task
<1>5. /\ [g[t] EXCEPT !.end = capture[t].end].at = "judge"
      /\ [g[t] EXCEPT !.end = capture[t].end].end = capture[t].end
  BY <1>1, <1>3 DEF Task
<1>6. task[t].at = "process"
  BY DEF ReadEnd, At
<1> QED
  BY <1>1, <1>2, <1>4, <1>5, <1>6 DEF Others

LEMMA JudgeCaptureEffect ==
  ASSUME TypeOK, NEW t \in Types, JudgeCapture(t)
  PROVE  /\ task' \in [Types -> Task] /\ Others(t)
         /\ task[t].at = "judge" /\ task'[t].at = "idle"
         /\ task'[t].result = "SUCCESSFUL" => InRange(capture[t].start, task[t].end)
<1>0. task[t].at = "judge" /\ 2 * EventDelay \in 0..EndDelay /\ EventDelay \in 0..EndDelay
  BY DEF JudgeCapture, At, EventDelay, EndDelay
<1>1. CASE InRange(capture[t].start, task[t].end)
  <2> DEFINE g == GoTo(t, "idle", 2 * EventDelay)
  <2>1. /\ g \in [Types -> Task] /\ g[t].at = "idle"
        /\ \A u \in Types \ {t} : g[u] = task[u]
    BY <1>0, GoToType
  <2>2. task' = [g EXCEPT ![t] = [@ EXCEPT !.result = "SUCCESSFUL", !.captured = FALSE]]
    BY <1>1 DEF JudgeCapture
  <2> HIDE DEF g
  <2>3. g[t] \in Task
    BY <2>1
  <2>4. LET n == [g[t] EXCEPT !.result = "SUCCESSFUL", !.captured = FALSE]
        IN  n \in Task /\ n.at = "idle"
    BY <2>1, <2>3 DEF Task
  <2> QED
    BY <1>0, <1>1, <2>1, <2>2, <2>4 DEF Others
<1>2. CASE ~InRange(capture[t].start, task[t].end)
  <2> DEFINE g == GoTo(t, "idle", EventDelay)
  <2>1. /\ g \in [Types -> Task] /\ g[t].at = "idle"
        /\ \A u \in Types \ {t} : g[u] = task[u]
    BY <1>0, GoToType
  <2>2. task' = [g EXCEPT ![t] = [@ EXCEPT !.result = "FAILED"]]
    BY <1>2 DEF JudgeCapture
  <2> HIDE DEF g
  <2>3. g[t] \in Task
    BY <2>1
  <2>4. LET n == [g[t] EXCEPT !.result = "FAILED"]
        IN  n \in Task /\ n.at = "idle" /\ n.result = "FAILED"
    BY <2>1, <2>3 DEF Task
  <2> QED
    BY <1>0, <2>1, <2>2, <2>4 DEF Others
<1> QED
  BY <1>1, <1>2

RealType == [began : 0..Horizon, start : Moment, end : Moment, over : Moment]

LEMMA HandleType ==
  ASSUME TypeOK, NEW i \in Interrupts, Handle(i)
  PROVE  TypeOK'
<1> DEFINE t == Served(i)
<1>1. /\ t \in Types /\ capture[t] \in Capture /\ real[t] \in RealType
      /\ Millis \in Stamp /\ elapsed \in Moment
  <2>1. t \in Types
    BY ServedType
  <2> QED
    BY <2>1, MillisType, TimeAssumption DEF TypeOK, Stamp, Moment, RealType
<1> HIDE DEF t
<1>2. /\ handler' \in [Interrupts -> Handler]
      /\ \A j \in Interrupts : handler'[j].k <= Len(Serves[j])
  <2>1. CASE TakeSemaphore(i)
    BY <2>1, StepType DEF TakeSemaphore, Step
  <2>2. CASE LookAtTest(i)
    BY <2>2, StepType, TurnType DEF LookAtTest
  <2>3. CASE Arm(i)
    BY <2>3, StepType DEF Arm
  <2>4. CASE StampStart(i)
    BY <2>4, StepType, TurnType DEF StampStart
  <2>5. CASE ClearOk(i)
    BY <2>5, TurnType DEF ClearOk
  <2>6. CASE StampEnd(i)
    BY <2>6, StepType, TurnType DEF StampEnd
  <2>7. CASE Disarm(i)
    BY <2>7, StepType DEF Disarm
  <2>8. CASE SetOk(i)
    BY <2>8, TurnType DEF SetOk
  <2> QED
    BY <2>1, <2>2, <2>3, <2>4, <2>5, <2>6, <2>7, <2>8 DEF Handle
<1>3. capture' \in [Types -> Capture]
  <2>1. CASE UNCHANGED capture
    BY <2>1 DEF TypeOK
  <2>2. CASE ~UNCHANGED capture
    <3>1. \E n \in Capture : capture' = [capture EXCEPT ![t] = n]
      <4>1. CASE Arm(i)
        <5>1. [capture[t] EXCEPT !.running = TRUE] \in Capture
          BY <1>1 DEF Capture
        <5> QED
          BY <4>1, <5>1 DEF Arm, t
      <4>2. CASE StampStart(i)
        <5>1. [capture[t] EXCEPT !.start = Millis] \in Capture
          BY <1>1 DEF Capture
        <5> QED
          BY <4>2, <2>2, <5>1 DEF StampStart, t
      <4>3. CASE ClearOk(i)
        <5>1. [capture[t] EXCEPT !.ok = FALSE] \in Capture
          BY <1>1 DEF Capture
        <5> QED
          BY <4>3, <5>1 DEF ClearOk, t
      <4>4. CASE StampEnd(i)
        <5>1. [capture[t] EXCEPT !.end = Millis] \in Capture
          BY <1>1 DEF Capture
        <5> QED
          BY <4>4, <2>2, <5>1 DEF StampEnd, t
      <4>5. CASE Disarm(i)
        <5>1. [capture[t] EXCEPT !.running = FALSE] \in Capture
          BY <1>1 DEF Capture
        <5> QED
          BY <4>5, <5>1 DEF Disarm, t
      <4>6. CASE SetOk(i)
        <5>1. [capture[t] EXCEPT !.ok = TRUE] \in Capture
          BY <1>1 DEF Capture
        <5> QED
          BY <4>6, <5>1 DEF SetOk, t
      <4> QED
        BY <2>2, <4>1, <4>2, <4>3, <4>4, <4>5, <4>6
           DEF Handle, TakeSemaphore, LookAtTest
    <3> QED
      BY <3>1 DEF TypeOK
  <2> QED
    BY <2>1, <2>2
<1>4. real' \in [Types -> RealType]
  <2>1. real \in [Types -> RealType]
    BY DEF TypeOK, RealType
  <2>2. CASE UNCHANGED real
    BY <2>1, <2>2
  <2>3. CASE StampStart(i) /\ ~UNCHANGED real
    <3>1. [real[t] EXCEPT !.start = elapsed] \in RealType
      BY <1>1 DEF RealType
    <3> QED
      BY <2>1, <2>3, <3>1 DEF StampStart, t
  <2>4. CASE StampEnd(i) /\ ~UNCHANGED real
    <3>1. [real[t] EXCEPT !.end = elapsed] \in RealType
      BY <1>1 DEF RealType
    <3> QED
      BY <2>1, <2>4, <3>1 DEF StampEnd, t
  <2> QED
    BY <2>2, <2>3, <2>4
       DEF Handle, TakeSemaphore, LookAtTest, Arm, ClearOk, Disarm, SetOk
<1>5. UNCHANGED <<time, edges, lastTrigger, inProgress, powerCut, task>> /\ given' \subseteq given
  BY DEF Handle, TakeSemaphore, LookAtTest, Arm, StampStart, ClearOk, StampEnd, Disarm, SetOk
<1> QED
  BY <1>2, <1>3, <1>4, <1>5 DEF TypeOK, RealType, time

LEMMA RunType ==
  ASSUME TypeOK, NEW t \in Types, Run(t)
  PROVE  TypeOK'
<1>0. /\ capture[t] \in Capture /\ elapsed \in 0..Horizon
      /\ real \in [Types -> RealType] /\ real[t] \in RealType
  BY DEF TypeOK, RealType
<1>1. task' \in [Types -> Task]
  <2>1. /\ RoundDelay \in 0..EndDelay /\ CutDelay \in 0..EndDelay
        /\ EndDelay \in 0..EndDelay /\ 0 \in 0..EndDelay
    BY DEF RoundDelay, CutDelay, EndDelay
  <2>2. CASE Round(t)
    BY <2>1, <2>2, GoEffect DEF Round
  <2>3. CASE SimulatePowerCut(t)
    BY <2>1, <2>3, GoEffect DEF SimulatePowerCut
  <2>4. CASE EndLoop(t)
    BY <2>1, <2>4, GoEffect DEF EndLoop
  <2>5. CASE EndTest(t)
    BY <2>1, <2>5, GoEffect DEF EndTest
  <2> QED
    BY <2>2, <2>3, <2>4, <2>5, BeginRunEffect, CheckCaptureEffect, ReadEndEffect,
       JudgeCaptureEffect DEF Run
<1>2. inProgress' \in [Types -> BOOLEAN] /\ powerCut' \in BOOLEAN
  BY DEF TypeOK, Run, BeginRun, Round, SimulatePowerCut, EndLoop, EndTest, CheckCapture,
         ReadEnd, JudgeCapture
<1>3. capture' \in [Types -> Capture] /\ real' \in [Types -> RealType]
  <2>1. CASE BeginRun(t)
    <3>1. [capture[t] EXCEPT !.ok = FALSE] \in Capture
      BY <1>0 DEF Capture
    <3>2. [real[t] EXCEPT !.began = elapsed] \in RealType
      BY <1>0 DEF RealType
    <3> QED
      BY <1>0, <2>1, <3>1, <3>2 DEF BeginRun, TypeOK
  <2>2. CASE EndLoop(t)
    <3>1. [real[t] EXCEPT !.over = elapsed] \in RealType
      BY <1>0, TimeAssumption DEF RealType, Moment
    <3> QED
      BY <1>0, <2>2, <3>1 DEF EndLoop, TypeOK
  <2>3. CASE ~BeginRun(t) /\ ~EndLoop(t)
    <3>1. capture' = capture /\ real' = real
      BY <2>3 DEF Run, Round, SimulatePowerCut, EndTest, CheckCapture, ReadEnd,
                  JudgeCapture
    <3> QED
      BY <1>0, <3>1 DEF TypeOK
  <2> QED
    BY <2>1, <2>2, <2>3
<1>4. UNCHANGED <<time, edges, given, lastTrigger, handler>>
  BY DEF Run, BeginRun, Round, SimulatePowerCut, EndLoop, EndTest, CheckCapture,
         ReadEnd, JudgeCapture
<1> QED
  BY <1>1, <1>2, <1>3, <1>4 DEF TypeOK, RealType, time

LEMMA TickType ==
  ASSUME TypeOK, Tick
  PROVE  TypeOK'
<1>1. \A w \in 0..InterruptDelay : Shorter(w) \in 0..InterruptDelay
  BY DEF Shorter, InterruptDelay
<1>2. \A w \in 0..EndDelay : Shorter(w) \in 0..EndDelay
  BY DEF Shorter, EndDelay
<1>3. handler' \in [Interrupts -> Handler] /\ \A i \in Interrupts : handler'[i].k = handler[i].k
  <2>1. \A i \in Interrupts : LET n == [handler[i] EXCEPT !.wait = Shorter(@)]
                              IN  n \in Handler /\ n.k = handler[i].k
    <3> SUFFICES ASSUME NEW i \in Interrupts
                 PROVE  LET n == [handler[i] EXCEPT !.wait = Shorter(@)]
                        IN  n \in Handler /\ n.k = handler[i].k
      OBVIOUS
    <3>1. handler[i] \in Handler
      BY DEF TypeOK
    <3> QED
      BY <1>1, <3>1 DEF Handler
  <2>2. handler' = [i \in Interrupts |-> [handler[i] EXCEPT !.wait = Shorter(@)]]
    BY DEF Tick
  <2> QED
    BY <2>1, <2>2
<1>4. task' \in [Types -> Task]
  <2>1. \A t \in Types : [task[t] EXCEPT !.wait = Shorter(@)] \in Task
    <3> SUFFICES ASSUME NEW t \in Types
                 PROVE  [task[t] EXCEPT !.wait = Shorter(@)] \in Task
      OBVIOUS
    <3>1. task[t] \in Task
      BY DEF TypeOK
    <3> QED
      BY <1>2, <3>1 DEF Task
  <2>2. task' = [t \in Types |-> [task[t] EXCEPT !.wait = Shorter(@)]]
    BY DEF Tick
  <2> QED
    BY <2>1, <2>2
<1>5. elapsed' \in 0..Horizon
  BY TimeAssumption, WatchBounds DEF Tick, TypeOK
<1>6. UNCHANGED <<watch, boot, edges, given, lastTrigger, capture, inProgress, powerCut, real>>
  BY DEF Tick
<1> QED
  BY <1>3, <1>4, <1>5, <1>6 DEF TypeOK

LEMMA EdgeType ==
  ASSUME TypeOK, NEW i \in Interrupts, KeyISR(i)
  PROVE  TypeOK'
<1>1. lastTrigger' \in [mains : Stamp, ups : {0}] /\ given' \subseteq Interrupts
  BY MillisType DEF KeyISR, TypeOK, Stamp
<1>2. edges' \in 0..watch.edges
  BY WatchBounds DEF KeyISR, TypeOK
<1>3. UNCHANGED <<time, handler, capture, inProgress, powerCut, task, real>>
  BY DEF KeyISR
<1> QED
  BY <1>1, <1>2, <1>3 DEF TypeOK, time

LEMMA NextType == TypeOK /\ [Next]_vars => TypeOK'
<1> SUFFICES ASSUME TypeOK, [Next]_vars PROVE TypeOK'
  OBVIOUS
<1>1. CASE UNCHANGED vars
  BY <1>1 DEF vars, time, TypeOK
<1> QED
  BY <1>1, EdgeType, HandleType, RunType, TickType DEF Next

\* A step of one test's task touches neither the other test nor the interrupt tasks.
LEMMA RunOthers ==
  ASSUME TypeOK, NEW t \in Types, Run(t)
  PROVE  /\ Others(t)
         /\ \A u \in Types \ {t} : /\ inProgress'[u] = inProgress[u]
                                   /\ real'[u] = real[u] /\ capture'[u] = capture[u]
         /\ UNCHANGED <<elapsed, boot, handler>>
<1>1. /\ RoundDelay \in 0..EndDelay /\ CutDelay \in 0..EndDelay
      /\ EndDelay \in 0..EndDelay /\ 0 \in 0..EndDelay
  BY DEF RoundDelay, CutDelay, EndDelay
<1>2. Others(t)
  <2>1. CASE Round(t)
    BY <1>1, <2>1, GoEffect DEF Round
  <2>2. CASE SimulatePowerCut(t)
    BY <1>1, <2>2, GoEffect DEF SimulatePowerCut
  <2>3. CASE EndLoop(t)
    BY <1>1, <2>3, GoEffect DEF EndLoop
  <2>4. CASE EndTest(t)
    BY <1>1, <2>4, GoEffect DEF EndTest
  <2> QED
    BY <2>1, <2>2, <2>3, <2>4, BeginRunEffect, CheckCaptureEffect, ReadEndEffect,
       JudgeCaptureEffect DEF Run
<1>3. \A u \in Types \ {t} : /\ inProgress'[u] = inProgress[u]
                            /\ real'[u] = real[u] /\ capture'[u] = capture[u]
  BY DEF TypeOK, Run, BeginRun, Round, SimulatePowerCut, EndLoop, EndTest, CheckCapture,
         ReadEnd, JudgeCapture
<1>4. UNCHANGED <<elapsed, boot, handler>>
  BY DEF Run, BeginRun, Round, SimulatePowerCut, EndLoop, EndTest, CheckCapture,
         ReadEnd, JudgeCapture, time
<1> QED
  BY <1>2, <1>3, <1>4

LEMMA TickEffect ==
  ASSUME TypeOK, Tick
  PROVE  /\ elapsed' = elapsed + 1
         /\ UNCHANGED <<boot, inProgress, real, capture, powerCut>>
         /\ \A t \in Types : /\ task'[t].at = task[t].at
                             /\ task'[t].begin = task[t].begin /\ task'[t].end = task[t].end
                             /\ task[t].at # "idle" => /\ task[t].wait > 0
                                                       /\ task'[t].wait = task[t].wait - 1
         /\ \A i \in Interrupts : handler[i].at = "take" /\ handler'[i].at = "take"
<1>1. /\ elapsed' = elapsed + 1
      /\ UNCHANGED <<boot, inProgress, real, capture, powerCut>>
  BY DEF Tick
<1>2. ASSUME NEW t \in Types
      PROVE  /\ task'[t].at = task[t].at
             /\ task'[t].begin = task[t].begin /\ task'[t].end = task[t].end
             /\ task[t].at # "idle" => /\ task[t].wait > 0
                                       /\ task'[t].wait = task[t].wait - 1
  <2>1. task[t] \in Task /\ task'[t] = [task[t] EXCEPT !.wait = Shorter(@)]
    BY DEF Tick, TypeOK
  <2>2. task[t].at # "idle" => task[t].wait > 0
    BY DEF Tick, AllWait
  <2> QED
    BY <2>1, <2>2 DEF Task, Shorter
<1>3. ASSUME NEW i \in Interrupts PROVE handler[i].at = "take" /\ handler'[i].at = "take"
  <2>1. handler[i] \in Handler /\ handler'[i] = [handler[i] EXCEPT !.wait = Shorter(@)]
    BY DEF Tick, TypeOK
  <2>2. handler[i].at = "take"
    BY DEF Tick, AllWait
  <2> QED
    BY <2>1, <2>2 DEF Handler
<1> QED
  BY <1>1, <1>2, <1>3

LEMMA HandleEffect ==
  ASSUME TypeOK, NEW i \in Interrupts, Handle(i)
  PROVE  /\ UNCHANGED <<elapsed, boot, inProgress, powerCut, task>>
         /\ \A t \in Types : real'[t].began = real[t].began /\ real'[t].over = real[t].over
<1>1. UNCHANGED <<elapsed, boot, inProgress, powerCut, task>>
  BY DEF Handle, TakeSemaphore, LookAtTest, Arm, StampStart, ClearOk, StampEnd, Disarm,
         SetOk, time
<1>2. ASSUME NEW t \in Types
      PROVE  real'[t].began = real[t].began /\ real'[t].over = real[t].over
  <2>1. real \in [Types -> RealType] /\ real[t] \in RealType
    BY DEF TypeOK, RealType
  <2>2. CASE real' = real
    BY <2>2
  <2>3. CASE real' = [real EXCEPT ![Served(i)].start = elapsed]
    BY <2>1, <2>3 DEF RealType
  <2>4. CASE real' = [real EXCEPT ![Served(i)].end = elapsed]
    BY <2>1, <2>4 DEF RealType
  <2> QED
    BY <2>2, <2>3, <2>4 DEF Handle, TakeSemaphore, LookAtTest, Arm, StampStart, ClearOk,
                            StampEnd, Disarm, SetOk
<1> QED
  BY <1>1, <1>2

\* Why the power may be on under a test that measures.
Restored(t) == \E u \in Types \ {t} : real[u].over >= real[t].began + EventDelay
Measures(t) == task[t].at = "loop" /\ inProgress[t]

\* One step of a test's task: only a test in its loop can have the power cut ...
LEMMA CutStep ==
  ASSUME TypeOK, PowerInv, TimeInv, NEW t \in Types, Run(t), powerCut'
  PROVE  \E u \in Types : Measures(u)'
<1>1. CASE SimulatePowerCut(t)
  <2>1. inProgress[t] /\ inProgress' = inProgress
    BY <1>1 DEF SimulatePowerCut, At, TimeInv, Aged
  <2>2. task'[t].at = "loop"
    <3>1. CutDelay \in 0..EndDelay
      BY DEF CutDelay, EndDelay
    <3> QED
      BY <1>1, <3>1, GoEffect DEF SimulatePowerCut
  <2> QED
    BY <2>1, <2>2 DEF Measures
<1>2. CASE ~SimulatePowerCut(t)
  <2>1. powerCut /\ ~(EndLoop(t) /\ inProgress[t])
    BY <1>2 DEF Run, BeginRun, Round, EndLoop, EndTest, CheckCapture, ReadEnd, JudgeCapture
  <2>2. PICK u \in Types : inProgress[u] /\ task[u].at = "loop"
    BY <2>1 DEF PowerInv
  <2>3. CASE u # t
    <3>1. task'[u] = task[u] /\ inProgress'[u] = inProgress[u]
      BY <2>3, RunOthers DEF Others
    <3> QED
      BY <2>2, <3>1 DEF Measures
  <2>4. CASE u = t
    <3>1. Round(t)
      BY <1>2, <2>1, <2>2, <2>4
         DEF Run, BeginRun, EndLoop, EndTest, CheckCapture, ReadEnd, JudgeCapture, At
    <3>2. RoundDelay \in 0..EndDelay
      BY DEF RoundDelay, EndDelay
    <3>3. inProgress'[t] /\ task'[t].at = "loop"
      BY <2>2, <2>4, <3>1, <3>2, GoEffect DEF Round
    <3> QED
      BY <3>3 DEF Measures
  <2> QED
    BY <2>3, <2>4
<1> QED
  BY <1>1, <1>2

\* ... and only the end of another one restores it under a test that measures.
LEMMA RestoreStep ==
  ASSUME TypeOK, PowerInv, TimeInv, NEW t \in Types, Run(t), NEW u \in Types,
         Measures(u)', ~powerCut'
  PROVE  Restored(u)'
<1>0. /\ RoundDelay \in 0..EndDelay /\ EndDelay \in 0..EndDelay /\ 0 \in 0..EndDelay
      /\ real \in [Types -> RealType]
  BY DEF RoundDelay, EndDelay, TypeOK, RealType
<1>1. CASE u = t
  <2>1. ~BeginRun(t)
    BY <1>1 DEF BeginRun, Measures, TypeOK
  <2>2. ~SimulatePowerCut(t)
    BY DEF SimulatePowerCut
  <2>3. ~EndLoop(t) /\ ~EndTest(t)
    BY <1>0, <1>1, GoEffect DEF EndLoop, EndTest, Measures
  <2>4. ~CheckCapture(t) /\ ~ReadEnd(t) /\ ~JudgeCapture(t)
    BY <1>1, CheckCaptureEffect, ReadEndEffect, JudgeCaptureEffect DEF Measures
  <2>5. Round(t)
    BY <2>1, <2>2, <2>3, <2>4 DEF Run
  <2>6. inProgress[t]
    BY <1>0, <1>1, <2>5, GoEffect DEF Round, Measures
  <2>7. Measures(t) /\ powerCut' = powerCut /\ real' = real
    BY <2>5, <2>6 DEF Round, Measures, At
  <2> QED
    BY <1>1, <2>7 DEF PowerInv, Measures, Restored
<1>2. CASE u # t
  <2>1. /\ task'[u] = task[u] /\ inProgress'[u] = inProgress[u] /\ real'[u] = real[u]
        /\ \A v \in Types \ {t} : real'[v] = real[v]
    BY <1>2, RunOthers DEF Others
  <2>2. Measures(u)
    BY <2>1 DEF Measures
  <2>3. CASE EndLoop(t)
    <3>1. real'[t].over = elapsed
      BY <1>0, <2>3 DEF EndLoop, RealType
    <3>2. elapsed >= real[u].began + EventDelay
      <4>1. elapsed - real[u].began >= EventDelay
        BY <2>2 DEF TimeInv, Aged, Measures
      <4>2. elapsed \in Int /\ real[u].began \in Int
        BY <1>0, TimeAssumption DEF TypeOK, RealType
      <4> QED
        BY <4>1, <4>2 DEF EventDelay
    <3> QED
      BY <1>2, <2>1, <3>1, <3>2 DEF Restored
  <2>4. CASE ~EndLoop(t)
    <3>1. ~powerCut
      BY <2>4 DEF Run, BeginRun, Round, SimulatePowerCut, EndTest, CheckCapture, ReadEnd,
                  JudgeCapture
    <3>2. Restored(u)
      BY <2>2, <3>1 DEF PowerInv, Measures, Restored
    <3>3. real'[t].over = real[t].over
      BY <1>0, <2>4 DEF Run, BeginRun, Round, SimulatePowerCut, EndTest, CheckCapture,
                        ReadEnd, JudgeCapture, RealType
    <3> QED
      BY <2>1, <3>2, <3>3 DEF Restored
  <2> QED
    BY <2>3, <2>4
<1> QED
  BY <1>1, <1>2

LEMMA PowerStep ==
  ASSUME TypeOK, TypeOK', PowerInv, TimeInv, [Next]_vars
  PROVE  PowerInv'
<1>0. /\ powerCut => \E t \in Types : Measures(t)
      /\ \A t \in Types : Measures(t) /\ ~powerCut => Restored(t)
  BY DEF PowerInv, Measures, Restored
<1>1. ASSUME NEW t \in Types, Run(t) PROVE PowerInv'
  <2>1. powerCut' => \E u \in Types : Measures(u)'
    BY <1>1, CutStep
  <2>2. \A u \in Types : Measures(u)' /\ ~powerCut' => Restored(u)'
    BY <1>1, RestoreStep
  <2> QED
    BY <2>1, <2>2 DEF PowerInv, Measures, Restored
<1>2. ASSUME UNCHANGED <<powerCut, inProgress>>,
             \A t \in Types : /\ task'[t].at = task[t].at
                              /\ real'[t].began = real[t].began /\ real'[t].over = real[t].over
      PROVE  PowerInv'
  <2>1. \A t \in Types : Measures(t)' <=> Measures(t)
    BY <1>2 DEF Measures
  <2>2. \A t \in Types : Restored(t) => Restored(t)'
    BY <1>2 DEF Restored
  <2>3. /\ powerCut' => \E t \in Types : Measures(t)'
        /\ \A t \in Types : Measures(t)' /\ ~powerCut' => Restored(t)'
    BY <1>0, <1>2, <2>1, <2>2
  <2> QED
    BY <2>3 DEF PowerInv, Measures, Restored
<1>3. CASE Tick
  BY <1>2, <1>3, TickEffect
<1>4. ASSUME NEW i \in Interrupts, Handle(i) PROVE PowerInv'
  BY <1>2, <1>4, HandleEffect
<1>5. CASE UNCHANGED <<powerCut, inProgress, task, real>>
  BY <1>2, <1>5
<1> QED
  BY <1>1, <1>3, <1>4, <1>5 DEF Next, KeyISR, vars

\* A look at the clock tells the age of the run: millis() does not wrap so often.
LEMMA TimeLeftIsAge ==
  ASSUME TypeOK, TimeInv, NEW t \in Types, task[t].at = "loop"
  PROVE  TimeLeft(t) <=> elapsed - real[t].began < Duration[t]
<1>1. real[t] \in RealType /\ elapsed \in 0..Horizon
  BY DEF TypeOK, RealType
<1>2. real[t].began \in 0..Horizon /\ real[t].began <= elapsed
  BY <1>1 DEF RealType, TimeInv, Aged
<1>3. task[t].begin = (boot + real[t].began) % Wrap
  BY DEF TimeInv, Aged
<1> QED
  BY <1>1, <1>2, <1>3, StampDifference DEF TimeLeft, Millis

\* What TypeOK says of one test.
LEMMA TestType ==
  ASSUME TypeOK, NEW t \in Types
  PROVE  /\ elapsed \in Nat /\ Duration[t] \in Nat /\ Duration[t] > EventDelay
         /\ real[t].began \in 0..Horizon /\ real[t].start \in Moment /\ real[t].end \in Moment
         /\ task[t].wait \in Nat /\ inProgress[t] \in BOOLEAN
         /\ task[t].at \in {"idle", "loop", "cut", "ended", "check", "process", "judge"}
         /\ capture[t].start \in Stamp /\ capture[t].end \in Stamp
         /\ capture[t].ok \in BOOLEAN
<1>1. real[t] \in RealType /\ task[t] \in Task /\ capture[t] \in Capture
  BY DEF TypeOK, RealType
<1>2. task[t].wait \in Nat
  BY <1>1 DEF Task, EndDelay
<1> QED
  BY <1>1, <1>2, DurationAssumption, TimeAssumption DEF TypeOK, RealType, Task, Capture

\* A run grows old as its delays say.
LEMMA TimeStep ==
  ASSUME TypeOK, TypeOK', TimeInv, [Next]_vars
  PROVE  TimeInv'
<1> SUFFICES ASSUME NEW u \in Types PROVE Aged(u)'
  BY DEF TimeInv
<1>0. Aged(u)
  BY DEF TimeInv
<1> USE DEF EventDelay, CutDelay, RoundDelay, EndDelay
<1>1. ASSUME NEW t \in Types, Run(t), t # u PROVE Aged(u)'
  BY <1>0, <1>1, RunOthers DEF Aged, Others
<1>2. CASE Run(u)
  <2>0. /\ UNCHANGED <<elapsed, boot>>
        /\ elapsed \in Nat /\ real[u].began \in 0..Horizon /\ real[u].began <= elapsed
        /\ task[u].wait \in Nat
        /\ Duration[u] \in Nat /\ Duration[u] > EventDelay
    BY <1>0, <1>2, RunOthers, TestType DEF Aged
  <2>1. CASE BeginRun(u)
    <3>1. task'[u].at = "loop" /\ task'[u].wait = EventDelay /\ task'[u].begin = Millis
      BY <2>1, BeginRunEffect
    <3>2. real'[u].began = elapsed /\ ~inProgress'[u]
      <4>1. real \in [Types -> RealType] /\ real[u] \in RealType
        BY DEF TypeOK, RealType
      <4> QED
        BY <2>1, <4>1 DEF BeginRun, TypeOK, RealType
    <3> QED
      BY <2>0, <3>1, <3>2 DEF Aged, Millis
  <2>2. CASE Round(u)
    <3>1. /\ task[u].at = "loop" /\ task[u].wait = 0
          /\ elapsed - real[u].began < Duration[u]
          /\ real' = real
      BY <2>2, TimeLeftIsAge DEF Round, At
    <3>2. CASE inProgress[u]
      <4>1. task' = GoTo(u, "loop", RoundDelay) /\ inProgress' = inProgress
        BY <2>2, <3>2 DEF Round
      <4>2. /\ task'[u].at = "loop" /\ task'[u].wait = RoundDelay
            /\ task'[u].begin = task[u].begin
        BY <4>1, GoEffect
      <4> QED
        BY <1>0, <2>0, <3>1, <3>2, <4>1, <4>2 DEF Aged
    <3>3. CASE ~inProgress[u]
      <4>1. task' = GoTo(u, "cut", 0) /\ inProgress' = [inProgress EXCEPT ![u] = TRUE]
        BY <2>2, <3>3 DEF Round
      <4>2. /\ task'[u].at = "cut" /\ task'[u].wait = 0 /\ task'[u].begin = task[u].begin
            /\ inProgress'[u]
        BY <4>1, GoEffect DEF TypeOK
      <4> QED
        BY <1>0, <2>0, <3>1, <4>2 DEF Aged
    <3> QED
      BY <3>2, <3>3
  <2>3. CASE SimulatePowerCut(u)
    <3>1. /\ task[u].at = "cut" /\ task' = GoTo(u, "loop", CutDelay)
          /\ UNCHANGED <<real, inProgress>>
      BY <2>3 DEF SimulatePowerCut, At
    <3>2. /\ task'[u].at = "loop" /\ task'[u].wait = CutDelay
          /\ task'[u].begin = task[u].begin
      BY <3>1, GoEffect
    <3> QED
      BY <1>0, <2>0, <3>1, <3>2 DEF Aged
  <2>4. CASE EndLoop(u)
    <3>1. /\ task[u].at = "loop" /\ task[u].wait = 0
          /\ ~(elapsed - real[u].began < Duration[u])
          /\ inProgress' = inProgress /\ task' = GoTo(u, "ended", 0)
      BY <2>4, TimeLeftIsAge DEF EndLoop, At
    <3>2. task'[u].at = "ended" /\ task'[u].wait = 0
      BY <3>1, GoEffect
    <3>3. inProgress[u]
      BY <1>0, <2>0, <3>1 DEF Aged
    <3>4. real'[u].began = real[u].began
      <4>1. real \in [Types -> RealType] /\ real[u] \in RealType
        BY DEF TypeOK, RealType
      <4> QED
        BY <2>4, <4>1 DEF EndLoop, RealType
    <3> QED
      BY <1>0, <2>0, <3>1, <3>2, <3>3, <3>4 DEF Aged
  <2>5. CASE EndTest(u) \/ CheckCapture(u) \/ ReadEnd(u) \/ JudgeCapture(u)
    <3>1. task'[u].at \in {"idle", "check", "process", "judge"}
      <4>1. CASE EndTest(u)
        BY <4>1, GoEffect DEF EndTest
      <4> QED
        BY <2>5, <4>1, CheckCaptureEffect, ReadEndEffect, JudgeCaptureEffect
    <3>2. real' = real
      BY <2>5 DEF EndTest, CheckCapture, ReadEnd, JudgeCapture
    <3> QED
      BY <2>0, <3>1, <3>2 DEF Aged
  <2> QED
    BY <1>2, <2>1, <2>2, <2>3, <2>4, <2>5 DEF Run
<1>3. CASE Tick
  BY <1>0, <1>3, TickEffect, TestType DEF Aged
<1>4. ASSUME NEW i \in Interrupts, Handle(i) PROVE Aged(u)'
  BY <1>0, <1>4, HandleEffect DEF Aged
<1>5. CASE UNCHANGED <<elapsed, boot, real, task, inProgress>>
  BY <1>0, <1>5 DEF Aged
<1> QED
  BY <1>1, <1>2, <1>3, <1>4, <1>5 DEF Next, KeyISR, vars, time

\* What the beginning of a run leaves alone.
LEMMA RunStamps ==
  ASSUME TypeOK, NEW t \in Types, Run(t), NEW u \in Types
  PROVE  /\ capture'[u].start = capture[u].start /\ capture'[u].end = capture[u].end
         /\ capture'[u].ok => capture[u].ok
         /\ real'[u].start = real[u].start /\ real'[u].end = real[u].end
         /\ ~BeginRun(t) => capture' = capture /\ real'[u].began = real[u].began
<1>1. CASE BeginRun(t)
  <2>1. /\ capture \in [Types -> Capture] /\ capture[t] \in Capture
        /\ real \in [Types -> RealType] /\ real[t] \in RealType
    BY DEF TypeOK, RealType
  <2>2. /\ capture' = [capture EXCEPT ![t].ok = FALSE]
        /\ real' = [real EXCEPT ![t].began = elapsed]
    BY <1>1 DEF BeginRun
  <2> QED
    BY <1>1, <2>1, <2>2 DEF Capture, RealType
<1>2. CASE EndLoop(t)
  <2>1. /\ real \in [Types -> RealType] /\ real[t] \in RealType
        /\ real' = [real EXCEPT ![t].over = elapsed] /\ capture' = capture
    BY <1>2 DEF TypeOK, RealType, EndLoop
  <2> QED
    BY <2>1 DEF RealType
<1>3. CASE ~BeginRun(t) /\ ~EndLoop(t)
  <2>1. capture' = capture /\ real' = real
    BY <1>3 DEF Run, Round, SimulatePowerCut, EndTest, CheckCapture, ReadEnd, JudgeCapture
  <2> QED
    BY <2>1
<1> QED
  BY <1>1, <1>2, <1>3

\* What an interrupt task does to the test it serves, and to no other.
LEMMA HandleStamps ==
  ASSUME TypeOK, NEW i \in Interrupts, Handle(i), NEW u \in Types
  PROVE  /\ capture'[u].ok = IF u # Served(i) THEN capture[u].ok
                             ELSE IF ClearOk(i) THEN FALSE
                             ELSE IF SetOk(i) THEN TRUE ELSE capture[u].ok
         /\ \/ /\ capture'[u].start = capture[u].start /\ real'[u].start = real[u].start
            \/ /\ StampStart(i) /\ u = Served(i) /\ handler'[i].at = "notOk"
               /\ capture'[u].start = Millis /\ real'[u].start = elapsed
         /\ \/ /\ capture'[u].end = capture[u].end /\ real'[u].end = real[u].end
            \/ /\ StampEnd(i) /\ u = Served(i)
               /\ capture'[u].end = Millis /\ real'[u].end = elapsed
<1> DEFINE t == Served(i)
<1>0. /\ capture \in [Types -> Capture] /\ capture[t] \in Capture /\ t \in Types
      /\ real \in [Types -> RealType] /\ real[t] \in RealType
  <2>1. t \in Types
    BY ServedType
  <2> QED
    BY <2>1 DEF TypeOK, RealType
<1> HIDE DEF t
<1>1. /\ ClearOk(i) => handler[i].at = "notOk"
      /\ SetOk(i) => handler[i].at = "ok"
  BY DEF ClearOk, SetOk
<1>2. CASE TakeSemaphore(i) \/ LookAtTest(i)
  <2>1. capture' = capture /\ real' = real /\ ~ClearOk(i) /\ ~SetOk(i)
    BY <1>1, <1>2 DEF TakeSemaphore, LookAtTest
  <2> QED
    BY <2>1
<1>3. CASE Arm(i) \/ Disarm(i)
  <2>1. /\ \E b \in BOOLEAN : capture' = [capture EXCEPT ![t].running = b]
        /\ real' = real /\ ~ClearOk(i) /\ ~SetOk(i)
    BY <1>1, <1>3 DEF Arm, Disarm, t
  <2> QED
    BY <1>0, <2>1 DEF Capture
<1>4. CASE StampStart(i)
  <2>1. ~ClearOk(i) /\ ~SetOk(i)
    BY <1>1, <1>4 DEF StampStart
  <2>2. CASE capture[t].running
    <3>1. /\ capture' = [capture EXCEPT ![t].start = Millis]
          /\ real' = [real EXCEPT ![t].start = elapsed]
          /\ Step(i, "notOk")
      BY <1>4, <2>2 DEF StampStart, t
    <3>2. handler'[i].at = "notOk"
      BY <3>1, StepType
    <3>3. CASE u = t
      BY <1>0, <1>4, <2>1, <3>1, <3>2, <3>3 DEF Capture, RealType, t
    <3>4. CASE u # t
      BY <1>0, <2>1, <3>1, <3>4 DEF Capture, RealType, t
    <3> QED
      BY <3>3, <3>4
  <2>3. CASE ~capture[t].running
    <3>1. capture' = capture /\ real' = real
      BY <1>4, <2>3 DEF StampStart, t
    <3> QED
      BY <2>1, <3>1
  <2> QED
    BY <2>2, <2>3
<1>5. CASE StampEnd(i)
  <2>1. ~ClearOk(i) /\ ~SetOk(i)
    BY <1>1, <1>5 DEF StampEnd
  <2>2. CASE capture[t].running
    <3>1. /\ capture' = [capture EXCEPT ![t].end = Millis]
          /\ real' = [real EXCEPT ![t].end = elapsed]
      BY <1>5, <2>2 DEF StampEnd, t
    <3>3. CASE u = t
      BY <1>0, <1>5, <2>1, <3>1, <3>3 DEF Capture, RealType, t
    <3>4. CASE u # t
      BY <1>0, <2>1, <3>1, <3>4 DEF Capture, RealType, t
    <3> QED
      BY <3>3, <3>4
  <2>3. CASE ~capture[t].running
    <3>1. capture' = capture /\ real' = real
      BY <1>5, <2>3 DEF StampEnd, t
    <3> QED
      BY <2>1, <3>1
  <2> QED
    BY <2>2, <2>3
<1>6. CASE ClearOk(i)
  <2>1. capture' = [capture EXCEPT ![t].ok = FALSE] /\ real' = real
    BY <1>6 DEF ClearOk, t
  <2> QED
    BY <1>0, <1>6, <2>1 DEF Capture, t
<1>7. CASE SetOk(i)
  <2>1. capture' = [capture EXCEPT ![t].ok = TRUE] /\ real' = real /\ ~ClearOk(i)
    BY <1>1, <1>7 DEF SetOk, t
  <2> QED
    BY <1>0, <1>7, <2>1 DEF Capture, t
<1> QED
  BY <1>2, <1>3, <1>4, <1>5, <1>6, <1>7 DEF Handle

\* A test is served only where its task has announced it, and the interrupt tasks
\* that are at it go on with it or turn away.
LEMMA HandlePlaces ==
  ASSUME TypeOK, NEW i \in Interrupts, Handle(i)
  PROVE  /\ \A j \in Interrupts \ {i} : /\ handler'[j].at = handler[j].at
                                        /\ Served(j)' = Served(j)
         /\ handler'[i].at \notin {"take", "look"} =>
              /\ Served(i)' = Served(i)
              /\ handler[i].at = "look" => inProgress[Served(i)]
              /\ handler[i].at # "take"
         /\ handler'[i].at \in {"disarm", "ok"} =>
              handler[i].at = "disarm" \/ real'[Served(i)].end = elapsed
<1>1. CASE TakeSemaphore(i)
  <2>1. Step(i, "look")
    BY <1>1 DEF TakeSemaphore, Step
  <2> QED
    BY <2>1, StepType
<1>2. CASE LookAtTest(i)
  <2>1. CASE inProgress[Served(i)]
    <3>1. \E at \in {"arm", "stop"} : Step(i, at)
      BY <1>2, <2>1 DEF LookAtTest
    <3> QED
      BY <1>2, <2>1, <3>1, StepType DEF LookAtTest
  <2>2. CASE ~inProgress[Served(i)]
    <3>1. Turn(i)
      BY <1>2, <2>2 DEF LookAtTest
    <3> QED
      BY <3>1, TurnType
  <2> QED
    BY <2>1, <2>2
<1>3. CASE Arm(i)
  <2>1. Step(i, "start") /\ handler[i].at = "arm"
    BY <1>3 DEF Arm
  <2> QED
    BY <2>1, StepType
<1>4. CASE Disarm(i)
  <2>1. Step(i, "ok") /\ handler[i].at = "disarm"
    BY <1>4 DEF Disarm
  <2> QED
    BY <2>1, StepType
<1>5. CASE ClearOk(i) \/ SetOk(i)
  <2>1. Turn(i)
    BY <1>5 DEF ClearOk, SetOk
  <2> QED
    BY <2>1, TurnType
<1>6. CASE StampStart(i)
  <2>1. handler[i].at = "start" /\ (Turn(i) \/ Step(i, "notOk"))
    BY <1>6 DEF StampStart
  <2>2. CASE Turn(i)
    BY <2>2, TurnType
  <2>3. CASE Step(i, "notOk")
    BY <2>1, <2>3, StepType
  <2> QED
    BY <2>1, <2>2, <2>3
<1>7. CASE StampEnd(i)
  <2>1. handler[i].at = "stop"
    BY <1>7 DEF StampEnd
  <2>2. CASE ~capture[Served(i)].running
    <3>1. Turn(i)
      BY <1>7, <2>2 DEF StampEnd
    <3> QED
      BY <3>1, TurnType
  <2>3. CASE capture[Served(i)].running
    <3>1. Step(i, "disarm") /\ real' = [real EXCEPT ![Served(i)].end = elapsed]
      BY <1>7, <2>3 DEF StampEnd
    <3>2. real'[Served(i)].end = elapsed
      <4>1. real \in [Types -> RealType] /\ Served(i) \in Types
        BY ServedType DEF TypeOK, RealType
      <4> QED
        BY <3>1, <4>1 DEF RealType
    <3> QED
      BY <2>1, <3>1, <3>2, StepType
  <2> QED
    BY <2>2, <2>3
<1> QED
  BY <1>1, <1>2, <1>3, <1>4, <1>5, <1>6, <1>7 DEF Handle

\* Flags and stamps through a step of an interrupt task.
LEMMA HandleFlags ==
  ASSUME TypeOK, TimeInv, FlagInv, NEW i \in Interrupts, Handle(i), NEW u \in Types
  PROVE  Flagged(u)'
<1>0. /\ Flagged(u) /\ Stamped(u) /\ real[u].began <= elapsed
      /\ UNCHANGED <<elapsed, inProgress, task>> /\ real'[u].began = real[u].began
  BY HandleEffect DEF FlagInv, TimeInv, Aged
<1>1. ~inProgress[u] /\ Settled(u) => Settled(u)'
  BY HandlePlaces DEF Settled
<1>2. ASSUME capture'[u].ok
      PROVE  /\ real'[u].end >= real'[u].began
             /\ \/ real'[u].end >= real'[u].start
                \/ \E j \in Interrupts : handler'[j].at = "notOk" /\ Served(j)' = u
  <2>0. /\ elapsed \in Nat /\ real[u].began \in 0..Horizon
        /\ real[u].start \in Moment /\ real[u].end \in Moment
        /\ real[u].start <= elapsed /\ real[u].end <= elapsed
    BY <1>0, TestType DEF Stamped
  <2>1. \/ /\ real[u].end = elapsed
        \/ /\ real[u].end >= real[u].began
           /\ \/ real[u].end >= real[u].start
              \/ \E j \in Interrupts \ {i} : handler[j].at = "notOk" /\ Served(j) = u
    <3>1. CASE u = Served(i) /\ SetOk(i)
      <4>1. handler[i].at = "ok"
        BY <3>1 DEF SetOk
      <4> QED
        BY <3>1, <4>1 DEF FlagInv
    <3>2. CASE ~(u = Served(i) /\ SetOk(i))
      <4>1. capture[u].ok /\ ~(u = Served(i) /\ ClearOk(i))
        BY <1>2, <3>2, HandleStamps
      <4>2. handler[i].at = "notOk" => ClearOk(i)
        BY DEF Handle, TakeSemaphore, LookAtTest, Arm, StampStart, StampEnd, Disarm, SetOk
      <4> QED
        BY <1>0, <4>1, <4>2 DEF Flagged
    <3> QED
      BY <3>1, <3>2
  <2>2. real'[u].end = real[u].end \/ real'[u].end = elapsed
    BY HandleStamps
  <2>3. \/ real'[u].start = real[u].start
        \/ handler'[i].at = "notOk" /\ Served(i)' = u
    BY HandleStamps, HandlePlaces
  <2>4. \A j \in Interrupts \ {i} : handler'[j].at = handler[j].at /\ Served(j)' = Served(j)
    BY HandlePlaces
  <2>5. real'[u].end >= real'[u].began
    BY <1>0, <2>0, <2>1, <2>2 DEF Moment
  <2>6. CASE handler'[i].at = "notOk" /\ Served(i)' = u
    BY <2>5, <2>6
  <2>7. CASE real'[u].start = real[u].start
    BY <2>0, <2>1, <2>2, <2>4, <2>5, <2>7 DEF Moment
  <2> QED
    BY <2>3, <2>6, <2>7
<1>3. ASSUME task[u].at \in {"process", "judge"}
      PROVE  capture'[u].ok = capture[u].ok /\ capture'[u].end = capture[u].end
  <2>1. Settled(u)
    BY <1>0, <1>3 DEF Flagged
  <2>2. ~(u = Served(i) /\ (ClearOk(i) \/ SetOk(i) \/ StampEnd(i)))
    BY <2>1 DEF Settled, ClearOk, SetOk, StampEnd
  <2> QED
    BY <2>2, HandleStamps
<1> QED
  BY <1>0, <1>1, <1>2, <1>3 DEF Flagged

LEMMA RunFlags ==
  ASSUME TypeOK, TimeInv, FlagInv, TimeInv', NEW t \in Types, Run(t), NEW u \in Types
  PROVE  Flagged(u)'
<1>0. /\ Flagged(u) /\ UNCHANGED <<elapsed, boot, handler>>
      /\ capture'[u].end = capture[u].end /\ real'[u].start = real[u].start
      /\ real'[u].end = real[u].end /\ capture'[u].ok => capture[u].ok
  BY RunOthers, RunStamps DEF FlagInv
<1>1. Settled(u)' <=> Settled(u)
  BY <1>0 DEF Settled, Served
<1>2. CASE u # t
  BY <1>0, <1>1, <1>2, RunOthers DEF Flagged, Others, Served
<1>3. CASE u = t /\ BeginRun(u)
  <2>1. task[u].at = "idle" /\ task'[u].at = "loop"
    BY <1>3, BeginRunEffect
  <2>2. ~inProgress[u] /\ Settled(u)
    BY <1>0, <2>1 DEF Flagged
  <2>3. ~inProgress'[u] /\ ~capture'[u].ok
    <3>1. capture \in [Types -> Capture] /\ capture[u] \in Capture
      BY DEF TypeOK
    <3> QED
      BY <1>3, <3>1 DEF BeginRun, TypeOK, Capture
  <2> QED
    BY <1>1, <2>1, <2>2, <2>3 DEF Flagged
<1>4. CASE u = t /\ ~BeginRun(u)
  <2>0. /\ capture' = capture /\ real'[u].began = real[u].began
        /\ real'[u].start = real[u].start /\ real'[u].end = real[u].end
        /\ 0 \in 0..EndDelay /\ RoundDelay \in 0..EndDelay
        /\ CutDelay \in 0..EndDelay /\ EndDelay \in 0..EndDelay
    BY <1>4, RunStamps DEF EndDelay, CutDelay, RoundDelay
  <2>1. CASE Round(u) \/ SimulatePowerCut(u) \/ EndLoop(u)
    <3>1. /\ task[u].at \in {"loop", "cut"} /\ task'[u].at \in {"loop", "cut", "ended"}
          /\ inProgress'[u] = inProgress[u] \/ inProgress'[u]
      <4>1. CASE Round(u)
        BY <2>0, <4>1, GoEffect DEF Round, At, TypeOK
      <4>2. CASE SimulatePowerCut(u)
        BY <2>0, <4>2, GoEffect DEF SimulatePowerCut, At
      <4>3. CASE EndLoop(u)
        BY <2>0, <4>3, GoEffect DEF EndLoop, At
      <4> QED
        BY <2>1, <4>1, <4>2, <4>3
    <3> QED
      BY <1>0, <1>1, <2>0, <3>1 DEF Flagged, Served
  <2>2. CASE EndTest(u)
    <3>1. /\ task'[u].at = "check" /\ task'[u].wait = EndDelay
          /\ ~inProgress'[u]
      BY <2>0, <2>2, GoEffect DEF EndTest, TypeOK
    <3> QED
      BY <1>0, <2>0, <3>1 DEF Flagged, Served
  <2>3. CASE CheckCapture(u) \/ ReadEnd(u) \/ JudgeCapture(u)
    <3>1. /\ task[u].at \in {"check", "process", "judge"} /\ inProgress' = inProgress
          /\ task[u].at = "check" => task[u].wait # EndDelay
      BY <2>3, CheckCaptureEffect DEF CheckCapture, ReadEnd, JudgeCapture, At, EndDelay
    <3>2. ~inProgress[u] /\ Settled(u)
      BY <1>0, <3>1 DEF Flagged
    <3>3. /\ task'[u].at \in {"process", "judge"} => capture[u].ok
          /\ task'[u].at = "judge" => task'[u].end = capture[u].end
      BY <1>0, <2>3, CheckCaptureEffect, ReadEndEffect, JudgeCaptureEffect DEF Flagged
    <3> QED
      BY <1>0, <1>1, <2>0, <3>1, <3>2, <3>3 DEF Flagged, Served
  <2> QED
    BY <1>4, <2>1, <2>2, <2>3 DEF Run
<1> QED
  BY <1>2, <1>3, <1>4

LEMMA StampStep ==
  ASSUME TypeOK, FlagInv, [Next]_vars, NEW u \in Types
  PROVE  Stamped(u)'
<1>0. /\ Stamped(u) /\ elapsed \in Nat
      /\ real[u].start \in Moment /\ real[u].end \in Moment
  BY TestType DEF FlagInv
<1>1. ASSUME NEW t \in Types, Run(t) PROVE Stamped(u)'
  BY <1>0, <1>1, RunOthers, RunStamps DEF Stamped
<1>2. ASSUME NEW i \in Interrupts, Handle(i) PROVE Stamped(u)'
  <2>1. UNCHANGED <<elapsed, boot>>
    BY <1>2, HandleEffect
  <2>2. \/ capture'[u].start = capture[u].start /\ real'[u].start = real[u].start
        \/ capture'[u].start = Millis /\ real'[u].start = elapsed
    BY <1>2, HandleStamps
  <2>3. \/ capture'[u].end = capture[u].end /\ real'[u].end = real[u].end
        \/ capture'[u].end = Millis /\ real'[u].end = elapsed
    BY <1>2, HandleStamps
  <2> QED
    BY <1>0, <2>1, <2>2, <2>3 DEF Stamped, Millis
<1>3. CASE Tick
  BY <1>0, <1>3, TickEffect DEF Stamped, Moment
<1>4. CASE UNCHANGED <<elapsed, boot, capture, real>>
  BY <1>0, <1>4 DEF Stamped
<1> QED
  BY <1>1, <1>2, <1>3, <1>4 DEF Next, KeyISR, vars, time

LEMMA FlagStep ==
  ASSUME TypeOK, TimeInv, TimeInv', FlagInv, [Next]_vars
  PROVE  FlagInv'
<1>1. ASSUME NEW u \in Types PROVE Flagged(u)' /\ Stamped(u)'
  <2>0. Flagged(u) /\ Stamped(u)'
    BY StampStep DEF FlagInv
  <2>1. ASSUME NEW t \in Types, Run(t) PROVE Flagged(u)'
    BY <2>1, RunFlags
  <2>2. ASSUME NEW i \in Interrupts, Handle(i) PROVE Flagged(u)'
    BY <2>2, HandleFlags
  <2>3. CASE Tick
    <3>1. Settled(u)' /\ ~\E i \in Interrupts : handler[i].at = "notOk"
      BY <2>3, TickEffect DEF Settled
    <3> QED
      BY <2>0, <2>3, <3>1, TickEffect DEF Flagged
  <2>4. CASE UNCHANGED <<handler, capture, inProgress, task, real>>
    BY <2>0, <2>4 DEF Flagged, Settled, Served
  <2> QED
    BY <2>0, <2>1, <2>2, <2>3, <2>4 DEF Next, KeyISR, vars
<1>2. ASSUME NEW j \in Interrupts, handler'[j].at \in {"disarm", "ok"}
      PROVE  real'[Served(j)'].end = elapsed'
  <2>0. /\ handler[j].at \in {"disarm", "ok"} => real[Served(j)].end = elapsed
        /\ Served(j) \in Types
    BY ServedType DEF FlagInv
  <2>1. ASSUME NEW t \in Types, Run(t) PROVE real'[Served(j)'].end = elapsed'
    <3>1. UNCHANGED <<elapsed, handler>> /\ Served(j)' = Served(j)
      BY <2>1, RunOthers DEF Served
    <3> QED
      BY <1>2, <2>0, <2>1, <3>1, RunStamps
  <2>2. ASSUME NEW i \in Interrupts, Handle(i) PROVE real'[Served(j)'].end = elapsed'
    <3>1. /\ elapsed' = elapsed
          /\ real'[Served(j)].end = real[Served(j)].end \/ real'[Served(j)].end = elapsed
      BY <2>0, <2>2, HandleEffect, HandleStamps
    <3>2. CASE i = j
      BY <1>2, <2>0, <2>2, <3>1, <3>2, HandlePlaces
    <3>3. CASE i # j
      BY <1>2, <2>0, <2>2, <3>1, <3>3, HandlePlaces
    <3> QED
      BY <3>2, <3>3
  <2>3. CASE Tick
    BY <1>2, <2>3, TickEffect
  <2>4. CASE UNCHANGED <<elapsed, handler, real>>
    BY <1>2, <2>0, <2>4 DEF Served
  <2> QED
    BY <2>1, <2>2, <2>3, <2>4 DEF Next, KeyISR, vars, time
<1> QED
  BY <1>1, <1>2 DEF FlagInv

LEMMA InitCapture == Init => CaptureInv
<1> SUFFICES ASSUME Init PROVE PowerInv /\ TimeInv /\ FlagInv
  BY DEF CaptureInv
<1>1. PowerInv
  BY DEF Init, PowerInv
<1>2. TimeInv
  BY DEF Init, TimeInv, Aged
<1>3. FlagInv
  BY DEF Init, FlagInv, Flagged, Stamped, Settled
<1> QED
  BY <1>1, <1>2, <1>3

\* The three invariants, each with those before it.
LEMMA CaptureInvariant == Spec => [](TypeOK /\ CaptureInv)
<1>1. Init => TypeOK /\ CaptureInv
  BY InitType, InitCapture
<1>2. TypeOK /\ CaptureInv /\ [Next]_vars => (TypeOK /\ CaptureInv)'
  <2> SUFFICES ASSUME TypeOK, CaptureInv, [Next]_vars PROVE TypeOK' /\ CaptureInv'
    OBVIOUS
  <2>1. TypeOK'
    BY NextType
  <2>2. PowerInv'
    BY <2>1, PowerStep DEF CaptureInv
  <2>3. TimeInv'
    BY <2>1, TimeStep DEF CaptureInv
  <2>4. FlagInv'
    BY <2>3, FlagStep DEF CaptureInv
  <2> QED
    BY <2>1, <2>2, <2>3, <2>4 DEF CaptureInv
<1> QED
  BY <1>1, <1>2, PTL DEF Spec

\* Whatever the durations, limits and bounds, every variable keeps its type.
THEOREM TypeCorrect == Spec => []TypeOK
BY InitType, NextType, PTL DEF Spec

\* Why the code measures what it should, in one invariant.
THEOREM KeepsCaptureInv == Spec => []CaptureInv
BY CaptureInvariant, PTL

\* A test that measures has the power cut, unless the other one was over after it had
\* cut it, and no test leaves it cut: for one test, and for a switch and a backup test
\* that share UPS_POWER_CUT_PIN (simulatePowerCut, simulatePowerRestore).
THEOREM PowerIsForTests == Spec => []PowerFollowsTests
<1>1. CaptureInv => PowerFollowsTests
  BY DEF CaptureInv, PowerInv, PowerFollowsTests
<1> QED
  BY <1>1, CaptureInvariant, PTL

\* The loop of run() ends when the duration is over and at most one round later,
\* wherever millis() wraps.
THEOREM RunsKeepDuration == Spec => []RunKeepsDuration
<1>1. TypeOK /\ CaptureInv => RunKeepsDuration
  BY DEF CaptureInv, TimeInv, Aged, RunKeepsDuration
<1> QED
  BY <1>1, CaptureInvariant, PTL

\* The delays after TEST_TIME_END are long enough for the interrupt tasks.
THEOREM CapturesSettle == Spec => []CaptureSettled
<1>1. TypeOK /\ CaptureInv => CaptureSettled
  <2> SUFFICES ASSUME TypeOK, CaptureInv, NEW t \in Types,
                      At(t, "check") \/ task[t].at \in {"process", "judge"}
               PROVE  Settled(t)
    BY DEF CaptureSettled
  <2>1. ~(task[t].at = "check" /\ task[t].wait = EndDelay)
    BY DEF At, EndDelay
  <2>2. ~inProgress[t]
    BY DEF CaptureInv, FlagInv, Flagged, At
  <2> QED
    BY <2>1, <2>2 DEF CaptureInv, FlagInv, Flagged
<1> QED
  BY <1>1, CaptureInvariant, PTL

LEMMA StopFollows == TypeOK /\ CaptureInv => StopIsOfThisRun
<1> SUFFICES ASSUME TypeOK, CaptureInv, NEW t \in Types, task[t].at \in {"process", "judge"}
             PROVE  real[t].end >= real[t].began /\ real[t].end >= real[t].start
  BY DEF StopIsOfThisRun
<1>1. Flagged(t)
  BY DEF CaptureInv, FlagInv
<1>2. Settled(t) /\ capture[t].ok
  BY <1>1 DEF Flagged
<1>3. ~\E i \in Interrupts : handler[i].at = "notOk" /\ Served(i) = t
  BY <1>2 DEF Settled
<1> QED
  BY <1>1, <1>2, <1>3 DEF Flagged

\* The end that processTestImpl reads was stamped in this run and not before the
\* start it reads.
THEOREM StopsAreOfThisRun == Spec => []StopIsOfThisRun
BY StopFollows, CaptureInvariant, PTL

\* TEST_SUCCESSFUL is returned only for two edges that were as far apart as the limits
\* ask, whichever runs the stamps come from and wherever millis() wraps.
THEOREM SuccessesAreInRange == Spec => SuccessIsTimeBetween
<1>1. ASSUME TypeOK, CaptureInv, [Next]_vars, NEW t \in Types,
             task[t].at = "judge", task'[t].result = "SUCCESSFUL", task'[t].at = "idle"
      PROVE  real[t].end - real[t].start \in MinValid..MaxValid
  <2>1. JudgeCapture(t)
    <3>1. ASSUME NEW u \in Types, Run(u), u # t PROVE FALSE
      BY <1>1, <3>1, RunOthers DEF Others
    <3>2. ASSUME NEW i \in Interrupts, Handle(i) PROVE FALSE
      BY <1>1, <3>2, HandleEffect
    <3>3. CASE Tick
      BY <1>1, <3>3, TickEffect
    <3>4. CASE task' = task
      BY <1>1, <3>4
    <3>5. CASE Run(t)
      BY <1>1, <3>5 DEF Run, BeginRun, Round, SimulatePowerCut, EndLoop, EndTest,
                        CheckCapture, ReadEnd, At
    <3> QED
      BY <1>1, <3>1, <3>2, <3>3, <3>4, <3>5 DEF Next, KeyISR, vars
  <2>2. InRange(capture[t].start, capture[t].end)
    <3>1. InRange(capture[t].start, task[t].end)
      BY <1>1, <2>1, JudgeCaptureEffect
    <3>2. task[t].end = capture[t].end
      BY <1>1 DEF CaptureInv, FlagInv, Flagged
    <3> QED
      BY <3>1, <3>2
  <2>3. /\ capture[t].start > 0 /\ capture[t].end > 0
        /\ Minus(capture[t].end, capture[t].start) \in MinValid..MaxValid
    BY <2>2 DEF InRange
  <2>4. /\ real[t].start \in Moment /\ real[t].end \in Moment
        /\ capture[t].start = IF real[t].start = -1 THEN 0 ELSE (boot + real[t].start) % Wrap
        /\ capture[t].end = IF real[t].end = -1 THEN 0 ELSE (boot + real[t].end) % Wrap
    BY <1>1, TestType DEF CaptureInv, FlagInv, Stamped
  <2>5. /\ real[t].start \in 0..Horizon /\ real[t].end \in 0..Horizon
        /\ capture[t].start = (boot + real[t].start) % Wrap
        /\ capture[t].end = (boot + real[t].end) % Wrap
    BY <2>3, <2>4, TimeAssumption DEF Moment
  <2>6. real[t].start <= real[t].end
    BY <1>1, <2>5, StopFollows DEF StopIsOfThisRun
  <2> QED
    BY <1>1, <2>3, <2>5, <2>6, StampDifference
<1>2. TypeOK /\ CaptureInv /\ [Next]_vars =>
        [\A t \in Types :
           task[t].at = "judge" /\ task'[t].result = "SUCCESSFUL" /\ task'[t].at = "idle" =>
             real[t].end - real[t].start \in MinValid..MaxValid]_vars
  BY <1>1
<1> QED
  BY <1>2, CaptureInvariant, PTL DEF Spec, SuccessIsTimeBetween
===============================================================================
