----------------------------- MODULE StateMachine -----------------------------
(***************************************************************************)
(* StateMachine.cpp as it runs: several FreeRTOS tasks, on two cores, call *)
(* handleEvent and handleMode of one singleton.  The semaphores around the *)
(* bodies are commented out, so the calls interleave between any two       *)
(* accesses of the atomics.  One action is one access that another task    *)
(* can tell apart: a load or a store of an atomic of the machine or of one *)
(* of its observers.                                                       *)
(***************************************************************************)
EXTENDS StateTable

CONSTANTS Callers,   \* the tasks that may call the state machine
          Crews,     \* the sets of them that do, one in each behaviour
          Table,     \* the transition table, TransitionTable in the code
          EventsOf,  \* per caller, the events it reports
          ModesOf    \* per caller, the modes it sets

ASSUME CallersAssumption ==
  /\ Crews \subseteq SUBSET Callers
  /\ EventsOf \in [Callers -> SUBSET (Event \ {"NONE"})]
  /\ ModesOf \in [Callers -> SUBSET Mode]
ASSUME TableAssumption ==
  Table \in Seq(RowType)

\* The objects told of every change, in the order they are told.
DataHandler == 1
TestSync    == 2
TestManager == 3
Observers   == DataHandler..TestManager

VARIABLES
  crew,      \* the tasks that call the state machine
  current,   \* _currentState
  old,       \* _old_state
  mode,      \* _deviceMode
  view,      \* per observer, its own _currentState and _deviceMode
  frame,     \* per caller, the locals of its running call
  alone      \* history: per caller, no other call overlapped its last one

vars == <<crew, current, old, mode, view, frame, alone>>

PC == {"idle", "scan", "storeOld", "storeCurrent", "notifyState", "ifAuto",
       "ifManual", "notifyMode", "done"}

(***************************************************************************)
(* at        where the call is                                             *)
(* event     handleEvent's argument                                        *)
(* oldState  its local old_state                                           *)
(* row       the next row of the table to look at                          *)
(* to        the state being entered                                       *)
(* again     the row's default action, a second notification, is due       *)
(* next      the observer to be told next                                  *)
(* said      the mode being announced                                      *)
(***************************************************************************)
Frame == [at : PC, event : Event, oldState : State, row : Nat, to : State,
          again : BOOLEAN, next : 1..3, said : Mode]

NoCall == [at |-> "idle", event |-> "NONE", oldState |-> "DEVICE_ON", row |-> 1,
           to |-> "DEVICE_ON", again |-> FALSE, next |-> DataHandler,
           said |-> "MANUAL"]

Idle(c) == frame[c].at = "idle"

Init == /\ crew \in Crews
        /\ current = "DEVICE_ON"
        /\ old = "DEVICE_ON"
        /\ mode = "MANUAL"
        /\ view = [o \in Observers |-> [state |-> "DEVICE_ON", mode |-> "MANUAL"]]
        /\ frame = [c \in Callers |-> NoCall]
        /\ alone = [c \in Callers |-> TRUE]

\* The call of c goes on with the locals f.
GoOn(c, f) == frame' = [frame EXCEPT ![c] = f]

\* History only: the calls in progress and the one that starts overlap.
Overlap(c) == alone' = [d \in Callers |-> IF d = c
                                          THEN \A x \in Callers \ {c} : Idle(x)
                                          ELSE Idle(d) /\ alone[d]]

-------------------------------------------------------------------------------
\* handleEvent: load old_state, then serve the overrides or go to the table.
HandleEvent(c, e) ==
  /\ Idle(c)
  /\ e # "ERROR"   \* handleError does nothing
  /\ GoOn(c, [NoCall EXCEPT !.at = IF IsOverride(e) THEN "storeOld" ELSE "scan",
                            !.event = e,
                            !.oldState = current,
                            !.to = IF IsOverride(e) THEN Override[e] ELSE @])
  /\ Overlap(c)
  /\ UNCHANGED <<current, old, mode, view, crew>>

\* handleMode: store the mode, then announce it.
HandleMode(c, m) ==
  /\ Idle(c)
  /\ mode' = m
  /\ GoOn(c, [NoCall EXCEPT !.at = "notifyMode", !.said = m])
  /\ Overlap(c)
  /\ UNCHANGED <<current, old, view, crew>>

\* The rows of the event that the scan still has before it.
Ahead(c) == {i \in RowsOf(Table, frame[c].event) : i >= frame[c].row}

\* Faulty variant: any row of the event fits, whatever state it starts from.
ScanRow_AnyFrom(c) ==
  /\ frame[c].at = "scan"
  /\ \E i \in Ahead(c) : GoOn(c, [frame[c] EXCEPT !.at = "storeOld", !.to = Table[i].to])
  /\ UNCHANGED <<current, old, mode, view, alone, crew>>

\* The scan compares the next row with _currentState as it is now.
ScanRow(c) ==
  /\ frame[c].at = "scan"
  /\ \E i \in Ahead(c) :
       /\ \A j \in Ahead(c) : i <= j
       /\ IF Table[i].from = current
          THEN GoOn(c, [frame[c] EXCEPT !.at = "storeOld",
                                        !.to = Table[i].to,
                                        !.again = Table[i].renotify])
          ELSE GoOn(c, [frame[c] EXCEPT !.row = i + 1])
  /\ UNCHANGED <<current, old, mode, view, alone, crew>>

\* No row is left: the event is dropped and the call returns.
NoTransition(c) ==
  /\ frame[c].at = "scan"
  /\ Ahead(c) = {}
  /\ GoOn(c, NoCall)
  /\ UNCHANGED <<current, old, mode, view, alone, crew>>

StoreOld(c) ==
  /\ frame[c].at = "storeOld"
  /\ old' = frame[c].oldState
  /\ GoOn(c, [frame[c] EXCEPT !.at = "storeCurrent"])
  /\ UNCHANGED <<current, mode, view, alone, crew>>

\* Faulty variant: the first observer is left out.
SetState_SkipsFirst(c) ==
  /\ frame[c].at = "storeCurrent"
  /\ current' = frame[c].to
  /\ GoOn(c, [frame[c] EXCEPT !.at = "notifyState", !.next = TestSync])
  /\ UNCHANGED <<old, mode, view, alone, crew>>

\* setState: store, then NotifyStateChanged.
SetState(c) ==
  /\ frame[c].at = "storeCurrent"
  /\ current' = frame[c].to
  /\ GoOn(c, [frame[c] EXCEPT !.at = "notifyState", !.next = DataHandler])
  /\ UNCHANGED <<old, mode, view, alone, crew>>

\* NotifyStateChanged stores the state in one observer after the other.
NotifyState(c) ==
  /\ frame[c].at = "notifyState"
  /\ view' = [view EXCEPT ![frame[c].next].state = frame[c].to]
  /\ IF frame[c].next = TestManager
     THEN GoOn(c, [frame[c] EXCEPT !.at = "ifAuto"])
     ELSE GoOn(c, [frame[c] EXCEPT !.next = @ + 1])
  /\ UNCHANGED <<current, old, mode, alone, crew>>

\* Faulty variant: the second round starts behind the last observer.
Notified_NoReset(c) ==
  IF frame[c].again
  THEN GoOn(c, [frame[c] EXCEPT !.at = "notifyState", !.again = FALSE, !.next = @ + 1])
  ELSE GoOn(c, [frame[c] EXCEPT !.at = "done"])

\* After the last notification: the row's default action repeats it once.
Notified(c) ==
  IF frame[c].again
  THEN GoOn(c, [frame[c] EXCEPT !.at = "notifyState", !.again = FALSE,
                                !.next = DataHandler])
  ELSE GoOn(c, [frame[c] EXCEPT !.at = "done"])

Announce(c, m) == GoOn(c, [frame[c] EXCEPT !.at = "notifyMode", !.said = m,
                                           !.next = DataHandler])

\* if(isAutoMode()) ... else if(isManualMode()): two loads of _deviceMode.
IfAuto(c) ==
  /\ frame[c].at = "ifAuto"
  /\ IF mode = "AUTO" THEN Announce(c, "AUTO")
                      ELSE GoOn(c, [frame[c] EXCEPT !.at = "ifManual"])
  /\ UNCHANGED <<current, old, mode, view, alone, crew>>

\* Faulty variant: the manual mode is not announced.
IfManual_Silent(c) ==
  /\ frame[c].at = "ifManual"
  /\ Notified(c)
  /\ UNCHANGED <<current, old, mode, view, alone, crew>>

IfManual(c) ==
  /\ frame[c].at = "ifManual"
  /\ IF mode = "MANUAL" THEN Announce(c, "MANUAL") ELSE Notified(c)
  /\ UNCHANGED <<current, old, mode, view, alone, crew>>

\* NotifyModeChanged, one observer after the other.
NotifyMode(c) ==
  /\ frame[c].at = "notifyMode"
  /\ view' = [view EXCEPT ![frame[c].next].mode = frame[c].said]
  /\ IF frame[c].next = TestManager THEN Notified(c)
                                    ELSE GoOn(c, [frame[c] EXCEPT !.next = @ + 1])
  /\ UNCHANGED <<current, old, mode, alone, crew>>

Return(c) ==
  /\ frame[c].at = "done"
  /\ GoOn(c, NoCall)
  /\ UNCHANGED <<current, old, mode, view, alone, crew>>

-------------------------------------------------------------------------------
\* The rest of a call, once it has begun.
Continue(c) == \/ ScanRow(c) \/ NoTransition(c) \/ StoreOld(c) \/ SetState(c)
               \/ NotifyState(c) \/ IfAuto(c) \/ IfManual(c) \/ NotifyMode(c)
               \/ Return(c)

Next == \E c \in crew : \/ \E e \in EventsOf[c] : HandleEvent(c, e)
                        \/ \E m \in ModesOf[c] : HandleMode(c, m)
                        \/ Continue(c)

Spec == Init /\ [][Next]_vars
-------------------------------------------------------------------------------
\* Every variable holds what its C++ type allows.
TypeOK == /\ crew \in Crews
          /\ current \in State
          /\ old \in State
          /\ mode \in Mode
          /\ view \in [Observers -> [state : State, mode : Mode]]
          /\ frame \in [Callers -> Frame]
          /\ alone \in [Callers -> BOOLEAN]

InSync == \A o \in Observers : view[o] = [state |-> current, mode |-> mode]

\* handleEvent's calls, as opposed to handleMode's.
IsEventCall(c) == frame[c].event # "NONE"

\* A call no other call overlapped leaves every observer with the device mode
\* and, when it moved the state, with the device state, whatever earlier
\* overlapping calls left behind (NotifyStateChanged, NotifyModeChanged).
SoloCallSynchronises ==
  \A c \in Callers :
    alone[c] /\ frame[c].at = "done" =>
      \A o \in Observers : /\ view[o].mode = mode
                           /\ IsEventCall(c) => view[o].state = current

\* A handleEvent call no other call overlapped is one step of the transition
\* table: it ends in the state the first fitting row leads to from the state
\* it loaded, or leaves that state when no row fits.
SoloCallIsAtomic ==
  [][\A c \in Callers :
       alone[c] /\ IsEventCall(c) /\ ~Idle(c) /\ Idle(c)'
         => current = Target(Table, frame[c].oldState, frame[c].event)]_vars

Single == \E c \in crew : crew = {c}

\* With a single caller nobody finds a stale copy between two calls
\* (NotifyStateChanged, NotifyModeChanged).
IdleInSync == Single /\ (\A c \in Callers : Idle(c)) => InSync

\* What a call that nobody overlaps has achieved so far.
Phase(c) ==
  LET f == frame[c]
      shownState(n) == \A o \in Observers : o < n => view[o].state = current
      shownMode(n)  == \A o \in Observers : o < n => view[o].mode = mode
  IN  /\ f.at = "scan" =>
           /\ IsEventCall(c) /\ ~IsOverride(f.event)
           /\ current = f.oldState
           /\ \A i \in RowsOf(Table, f.event) : i < f.row => Table[i].from # current
      /\ f.at \in {"storeOld", "storeCurrent"} =>
           /\ IsEventCall(c)
           /\ current = f.oldState
           /\ f.to = Target(Table, f.oldState, f.event)
      /\ f.at \in {"notifyState", "ifAuto", "ifManual"} => IsEventCall(c)
      /\ ~IsEventCall(c) => ~f.again
      /\ f.at \in {"notifyState", "ifAuto", "ifManual", "notifyMode", "done"}
            /\ IsEventCall(c) =>
           /\ current = f.to
           /\ f.to = Target(Table, f.oldState, f.event)
           /\ shownState(IF f.at = "notifyState" THEN f.next ELSE TestManager + 1)
      /\ f.at = "ifManual" => mode = "MANUAL"
      /\ f.at = "notifyMode" => f.said = mode /\ shownMode(f.next)
      /\ f.at = "done" => shownMode(TestManager + 1)

\* The inductive invariant: a call that nobody overlaps has the machine to
\* itself and is where an undisturbed call would be.
SoloInv == \A c \in Callers :
             alone[c] /\ ~Idle(c) => /\ \A d \in Callers \ {c} : Idle(d)
                                    /\ Phase(c)

\* The state only ever moves along the table (the comment "Ensure atomic access
\* to current_state"): false as soon as two calls overlap.
MovesAlongTable ==
  [][current' # current => \E e \in Event : current' = Target(Table, current, e)]_current

\* The machine as its callers see it.
Promise == INSTANCE DeviceState
             WITH state <- current, shown <- view,
                  busy <- \E c \in Callers : ~Idle(c)

\* With a single caller the machine implements DeviceState: every step is a step of
\* the promise or changes nothing that it speaks of (handleEvent, handleMode).
PromiseKept == Promise!Init /\ [][Single => Promise!Next]_(Promise!vars)
===============================================================================
