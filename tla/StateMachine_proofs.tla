-------------------------- MODULE StateMachine_proofs --------------------------
(***************************************************************************)
(* Proofs about StateMachine for every set of callers, every transition    *)
(* table and every choice of the events and modes the callers send: what   *)
(* a call that no other overlaps promises, and that every call has an end. *)
(***************************************************************************)
EXTENDS StateMachine, WellFoundedInduction, TLAPS

\* The table is indexed from 1 and holds rows.
LEMMA TableRows ==
  /\ DOMAIN Table \subseteq Nat
  /\ \A i \in DOMAIN Table : Table[i] \in RowType
BY TableAssumption

\* The three overrides are events and lead to states.
LEMMA OverrideStates ==
  \A e \in Event : IsOverride(e) => Override[e] \in State
BY DEF Event, IsOverride, Override, State

LEMMA NoCallIsFrame == NoCall \in Frame
BY DEF NoCall, Frame, PC, Event, State, Mode, DataHandler

\* A call starts only with an event or a mode that exists.
LEMMA Inputs ==
  ASSUME NEW c \in Callers
  PROVE  EventsOf[c] \subseteq Event /\ ModesOf[c] \subseteq Mode
BY CallersAssumption

\* A step is one of a caller's.
LEMMA AnyCaller ==
  ASSUME TypeOK, Next
  PROVE  /\ crew' = crew
         /\ \E c \in Callers : /\ c \in crew
                             /\ \/ \E e \in EventsOf[c] : HandleEvent(c, e)
                                \/ \E m \in ModesOf[c] : HandleMode(c, m)
                                \/ Continue(c)
<1>1. crew \subseteq Callers
  BY CallersAssumption DEF TypeOK
<1>2. ASSUME NEW c \in crew, Continue(c) PROVE crew' = crew
  BY <1>2 DEF Continue, ScanRow, NoTransition, StoreOld, SetState, NotifyState, IfAuto,
              IfManual, NotifyMode, Return
<1>3. ASSUME NEW c \in crew,
             (\E e \in EventsOf[c] : HandleEvent(c, e)) \/ (\E m \in ModesOf[c] : HandleMode(c, m))
      PROVE  crew' = crew
  BY <1>3 DEF HandleEvent, HandleMode
<1> QED  BY <1>1, <1>2, <1>3 DEF Next

\* The locals a call goes on with after a notification.
LEMMA NextFrames ==
  ASSUME NEW f \in Frame
  PROVE  /\ [f EXCEPT !.at = "ifManual"] \in Frame
         /\ [f EXCEPT !.at = "done"] \in Frame
         /\ [f EXCEPT !.at = "notifyState", !.again = FALSE,
                      !.next = DataHandler] \in Frame
         /\ [f EXCEPT !.at = "notifyMode", !.said = "AUTO",
                      !.next = DataHandler] \in Frame
         /\ [f EXCEPT !.at = "notifyMode", !.said = "MANUAL",
                      !.next = DataHandler] \in Frame
<1> "ifManual" \in PC /\ "done" \in PC /\ "notifyState" \in PC /\ "notifyMode" \in PC
  BY DEF PC
<1> "AUTO" \in Mode /\ "MANUAL" \in Mode
  BY DEF Mode
<1> DataHandler \in 1..3
  BY DEF DataHandler
<1> QED
  BY DEF Frame

LEMMA InitType == Init => TypeOK
BY NoCallIsFrame DEF Init, TypeOK, State, Mode, Observers, DataHandler, TestManager

LEMMA NextType == TypeOK /\ [Next]_vars => TypeOK'
<1> SUFFICES ASSUME TypeOK, [Next]_vars PROVE TypeOK'
  OBVIOUS
<1> crew' = crew
  BY AnyCaller DEF vars
<1> USE DEF TypeOK
<1>1. ASSUME NEW c \in Callers, NEW e \in EventsOf[c], HandleEvent(c, e)
      PROVE  TypeOK'
  <2>1. e \in Event /\ current \in State
    BY Inputs
  <2>2. (IF IsOverride(e) THEN "storeOld" ELSE "scan") \in PC
    BY DEF PC
  <2>3. (IF IsOverride(e) THEN Override[e] ELSE NoCall.to) \in State
    BY <2>1, OverrideStates, NoCallIsFrame DEF Frame
  <2>4. [NoCall EXCEPT !.at = IF IsOverride(e) THEN "storeOld" ELSE "scan",
                      !.event = e,
                      !.oldState = current,
                      !.to = IF IsOverride(e) THEN Override[e] ELSE @] \in Frame
    BY <2>1, <2>2, <2>3, NoCallIsFrame DEF Frame
  <2>5. alone' \in [Callers -> BOOLEAN]
    BY <1>1 DEF HandleEvent, Overlap, Idle
  <2> QED
    BY <1>1, <2>4, <2>5 DEF HandleEvent, GoOn
<1>2. ASSUME NEW c \in Callers, NEW m \in ModesOf[c], HandleMode(c, m)
      PROVE  TypeOK'
  <2>1. m \in Mode
    BY Inputs
  <2>2. [NoCall EXCEPT !.at = "notifyMode", !.said = m] \in Frame
    BY <2>1, NoCallIsFrame DEF Frame, PC
  <2>3. alone' \in [Callers -> BOOLEAN]
    BY <1>2 DEF HandleMode, Overlap, Idle
  <2> QED
    BY <1>2, <2>1, <2>2, <2>3 DEF HandleMode, GoOn
<1>3. ASSUME NEW c \in Callers, Continue(c)
      PROVE  TypeOK'
  <2> frame[c] \in Frame
    OBVIOUS
  <2>1. CASE ScanRow(c)
    <3>1. PICK i \in Ahead(c) :
             IF Table[i].from = current
             THEN GoOn(c, [frame[c] EXCEPT !.at = "storeOld",
                                           !.to = Table[i].to,
                                           !.again = Table[i].renotify])
             ELSE GoOn(c, [frame[c] EXCEPT !.row = i + 1])
      BY <2>1 DEF ScanRow
    <3>2. i \in Nat /\ Table[i].to \in State /\ Table[i].renotify \in BOOLEAN
      BY TableRows DEF Ahead, RowsOf, RowType
    <3>3. [frame[c] EXCEPT !.at = "storeOld", !.to = Table[i].to,
                           !.again = Table[i].renotify] \in Frame
      BY <3>2 DEF Frame, PC
    <3>4. [frame[c] EXCEPT !.row = i + 1] \in Frame
      BY <3>2 DEF Frame, PC
    <3> QED
      BY <2>1, <3>1, <3>3, <3>4 DEF ScanRow, GoOn
  <2>2. CASE NoTransition(c)
    BY <2>2, NoCallIsFrame DEF NoTransition, GoOn
  <2>3. CASE StoreOld(c)
    <3>1. [frame[c] EXCEPT !.at = "storeCurrent"] \in Frame
      BY DEF Frame, PC
    <3>2. frame[c].oldState \in State
      BY DEF Frame
    <3> QED
      BY <2>3, <3>1, <3>2 DEF StoreOld, GoOn
  <2>4. CASE SetState(c)
    <3>1. [frame[c] EXCEPT !.at = "notifyState", !.next = DataHandler] \in Frame
      <4> "notifyState" \in PC /\ DataHandler \in 1..3
        BY DEF PC, DataHandler
      <4> QED
        BY DEF Frame
    <3>2. frame[c].to \in State
      BY DEF Frame
    <3> QED
      BY <2>4, <3>1, <3>2 DEF SetState, GoOn
  <2>5. CASE NotifyState(c)
    <3>1. [frame[c] EXCEPT !.at = "ifAuto"] \in Frame
      BY DEF Frame, PC
    <3>2. frame[c].next # TestManager => [frame[c] EXCEPT !.next = @ + 1] \in Frame
      BY DEF Frame, TestManager
    <3>3. frame[c].to \in State
      BY DEF Frame
    <3> QED
      BY <2>5, <3>1, <3>2, <3>3 DEF NotifyState, GoOn
  <2>6. CASE IfAuto(c)
    BY <2>6, NextFrames DEF IfAuto, GoOn, Announce
  <2>7. CASE IfManual(c)
    BY <2>7, NextFrames DEF IfManual, GoOn, Announce, Notified
  <2>8. CASE NotifyMode(c)
    <3>1. frame[c].next # TestManager => [frame[c] EXCEPT !.next = @ + 1] \in Frame
      BY DEF Frame, TestManager
    <3>2. frame[c].said \in Mode
      BY DEF Frame
    <3> QED
      BY <2>8, <3>1, <3>2, NextFrames DEF NotifyMode, GoOn, Notified
  <2>9. CASE Return(c)
    BY <2>9, NoCallIsFrame DEF Return, GoOn
  <2> QED
    BY <1>3, <2>1, <2>2, <2>3, <2>4, <2>5, <2>6, <2>7, <2>8, <2>9 DEF Continue
<1>4. CASE UNCHANGED vars
  BY <1>4 DEF vars
<1> QED
  BY <1>1, <1>2, <1>3, <1>4, AnyCaller

\* Every variable keeps the range of its C++ type, whoever calls.
THEOREM TypeCorrect == Spec => []TypeOK
<1>1. Init => TypeOK
  BY InitType
<1>2. TypeOK /\ [Next]_vars => TypeOK'
  BY NextType
<1> QED
  BY <1>1, <1>2, PTL DEF Spec

-------------------------------------------------------------------------------
\* The first row that fits decides where an event leads.
LEMMA FirstRow ==
  ASSUME NEW s, NEW e, ~IsOverride(e),
         NEW i \in RowsOf(Table, e), Table[i].from = s,
         \A j \in RowsOf(Table, e) : j < i => Table[j].from # s
  PROVE  Target(Table, s, e) = Table[i].to
<1> DEFINE matching == {j \in RowsOf(Table, e) : Table[j].from = s}
<1>1. matching \subseteq Nat
  BY TableRows DEF RowsOf
<1>2. i \in matching /\ \A j \in matching : i <= j
  BY <1>1
<1>3. Min(matching) = i
  <2>1. \A k \in matching : (\A j \in matching : k <= j) => k = i
    BY <1>1, <1>2
  <2> HIDE DEF matching
  <2> QED
    BY <1>2, <2>1 DEF Min
<1> HIDE DEF matching
<1>4. matching # {}
  BY <1>2
<1> QED
  BY <1>3, <1>4 DEF Target, matching

\* An event that fits no row leads nowhere.
LEMMA NoRow ==
  ASSUME NEW s, NEW e, ~IsOverride(e),
         \A j \in RowsOf(Table, e) : Table[j].from # s
  PROVE  Target(Table, s, e) = s
<1>1. {j \in RowsOf(Table, e) : Table[j].from = s} = {}
  OBVIOUS
<1> QED
  BY <1>1 DEF Target

LEMMA OverrideTarget ==
  ASSUME NEW s, NEW e, IsOverride(e)
  PROVE  Target(Table, s, e) = Override[e]
BY DEF Target

\* A step inside a call is the caller's own.
LEMMA ContinueFrame ==
  ASSUME TypeOK, NEW d \in Callers, Continue(d)
  PROVE  /\ alone' = alone /\ ~Idle(d)
         /\ \A x \in Callers \ {d} : frame'[x] = frame[x]
<1> USE DEF Idle, GoOn, TypeOK
<1>1. CASE ScanRow(d)
  BY <1>1 DEF ScanRow
<1>2. CASE NoTransition(d) \/ StoreOld(d) \/ SetState(d) \/ Return(d)
  BY <1>2 DEF NoTransition, StoreOld, SetState, Return
<1>3. CASE NotifyState(d) \/ NotifyMode(d)
  BY <1>3 DEF NotifyState, NotifyMode, Notified
<1>4. CASE IfAuto(d) \/ IfManual(d)
  BY <1>4 DEF IfAuto, IfManual, Notified, Announce
<1> QED
  BY <1>1, <1>2, <1>3, <1>4 DEF Continue

\* Only the last step of a call makes its caller idle.
LEMMA EndsCall ==
  ASSUME TypeOK, NEW d \in Callers, Continue(d), Idle(d)'
  PROVE  NoTransition(d) \/ Return(d)
<1> frame[d] \in Frame /\ frame \in [Callers -> Frame]
  BY DEF TypeOK
<1> USE DEF Idle, GoOn, Frame
<1>1. ~ScanRow(d)
  BY DEF ScanRow
<1>2. ~StoreOld(d) /\ ~SetState(d)
  BY DEF StoreOld, SetState
<1>3. ~NotifyState(d)
  BY DEF NotifyState
<1>4. ~NotifyMode(d)
  BY DEF NotifyMode, Notified
<1>5. ~IfAuto(d)
  BY DEF IfAuto, Announce
<1>6. ~IfManual(d)
  BY DEF IfManual, Notified, Announce
<1> QED
  BY <1>1, <1>2, <1>3, <1>4, <1>5, <1>6 DEF Continue

LEMMA InitSolo == Init => SoloInv
BY DEF Init, SoloInv, Idle, NoCall

\* A call that starts while all others are idle starts in phase.
LEMMA EventStartsInPhase ==
  ASSUME TypeOK, NEW c \in Callers, NEW e \in EventsOf[c], HandleEvent(c, e)
  PROVE  Phase(c)'
<1> DEFINE f == [NoCall EXCEPT
                   !.at = IF IsOverride(e) THEN "storeOld" ELSE "scan",
                   !.event = e, !.oldState = current,
                   !.to = IF IsOverride(e) THEN Override[e] ELSE @]
<1>1. frame'[c] = f /\ current' = current
  BY DEF HandleEvent, GoOn, TypeOK
<1>2. /\ f.at = IF IsOverride(e) THEN "storeOld" ELSE "scan"
      /\ f.event = e /\ f.oldState = current /\ f.row = 1 /\ ~f.again
      /\ IsOverride(e) => f.to = Override[e]
  BY DEF NoCall
<1>3. e # "NONE" /\ e \in Event
  BY CallersAssumption
<1>4. \A i \in RowsOf(Table, e) : ~(i < 1)
  BY TableAssumption DEF RowsOf
<1>5. IsOverride(e) => Target(Table, current, e) = f.to
  BY <1>2, OverrideTarget
<1> HIDE DEF f
<1> QED
  BY <1>1, <1>2, <1>3, <1>4, <1>5 DEF Phase, IsEventCall

LEMMA ModeStartsInPhase ==
  ASSUME TypeOK, NEW c \in Callers, NEW m \in ModesOf[c], HandleMode(c, m)
  PROVE  Phase(c)'
<1>1. frame'[c] = [NoCall EXCEPT !.at = "notifyMode", !.said = m] /\ mode' = m
  BY DEF HandleMode, GoOn, TypeOK
<1> QED
  BY <1>1 DEF Phase, IsEventCall, NoCall, Observers, DataHandler, TestManager

\* A call that has the machine to itself goes from phase to phase.
LEMMA ContinuesInPhase ==
  ASSUME TypeOK, NEW c \in Callers, Phase(c), Continue(c), ~Idle(c)'
  PROVE  Phase(c)'
<1> DEFINE f == frame[c]
<1>0. f \in Frame
  BY DEF TypeOK
<1>1. CASE ScanRow(c)
  <2>1. PICK i \in Ahead(c) :
           /\ \A j \in Ahead(c) : i <= j
           /\ IF Table[i].from = current
              THEN GoOn(c, [f EXCEPT !.at = "storeOld", !.to = Table[i].to,
                                     !.again = Table[i].renotify])
              ELSE GoOn(c, [f EXCEPT !.row = i + 1])
    BY <1>1 DEF ScanRow
  <2>2. RowsOf(Table, f.event) \subseteq Nat
    BY TableRows DEF RowsOf
  <2>3. /\ i \in RowsOf(Table, f.event)
        /\ i >= f.row
        /\ \A j \in RowsOf(Table, f.event) : j < i => j < f.row
    BY <2>1, <2>2, <1>0 DEF Ahead, Frame
  <2>4. /\ IsEventCall(c) /\ ~IsOverride(f.event)
        /\ current = f.oldState
        /\ \A j \in RowsOf(Table, f.event) : j < i => Table[j].from # current
    BY <1>1, <2>3 DEF Phase, ScanRow
  <2>5. CASE Table[i].from = current
    <3>1. frame'[c] = [f EXCEPT !.at = "storeOld", !.to = Table[i].to,
                                !.again = Table[i].renotify]
      BY <2>1, <2>5 DEF GoOn, TypeOK
    <3>2. Target(Table, f.oldState, f.event) = Table[i].to
      BY <2>3, <2>4, <2>5, FirstRow
    <3> QED
      BY <1>0, <1>1, <2>4, <3>1, <3>2 DEF ScanRow, Phase, IsEventCall, Frame
  <2>6. CASE Table[i].from # current
    <3>1. frame'[c] = [f EXCEPT !.row = i + 1]
      BY <2>1, <2>6 DEF GoOn, TypeOK
    <3>2. \A j \in RowsOf(Table, f.event) : j < i + 1 => Table[j].from # current
      BY <2>2, <2>3, <2>4, <2>6
    <3> QED
      BY <1>0, <1>1, <2>4, <3>1, <3>2 DEF ScanRow, Phase, IsEventCall, Frame
  <2> QED
    BY <2>5, <2>6
<1>2. CASE NoTransition(c) \/ Return(c)
  BY <1>2 DEF NoTransition, Return, GoOn, Idle, NoCall, TypeOK
<1>3. CASE StoreOld(c)
  <2>1. frame'[c] = [f EXCEPT !.at = "storeCurrent"]
    BY <1>3 DEF StoreOld, GoOn, TypeOK
  <2> QED
    BY <1>0, <1>3, <2>1 DEF StoreOld, Phase, IsEventCall, Frame
<1>4. CASE SetState(c)
  <2>1. frame'[c] = [f EXCEPT !.at = "notifyState", !.next = DataHandler]
    BY <1>4 DEF SetState, GoOn, TypeOK
  <2> QED
    BY <1>0, <1>4, <2>1 DEF SetState, Phase, IsEventCall, Frame, Observers,
                            DataHandler, TestManager
<1>5. CASE NotifyState(c)
  <2>1. /\ f.at = "notifyState" /\ f.next \in 1..3
        /\ current' = current /\ mode' = mode
        /\ view' = [view EXCEPT ![f.next].state = f.to]
    BY <1>0, <1>5 DEF NotifyState, Frame
  <2>2. /\ IsEventCall(c) /\ current = f.to
        /\ f.to = Target(Table, f.oldState, f.event)
        /\ \A o \in Observers : o < f.next => view[o].state = current
    BY <2>1 DEF Phase
  <2>3. \A o \in Observers : o < f.next + 1 => view'[o].state = current
    BY <2>1, <2>2 DEF Observers, DataHandler, TestManager, TypeOK
  <2>4. CASE f.next = TestManager
    <3>1. frame'[c] = [f EXCEPT !.at = "ifAuto"]
      BY <1>5, <2>4 DEF NotifyState, GoOn, TypeOK
    <3> QED
      BY <1>0, <2>1, <2>2, <2>3, <2>4, <3>1 DEF Phase, IsEventCall, Frame
  <2>5. CASE f.next # TestManager
    <3>1. frame'[c] = [f EXCEPT !.next = @ + 1]
      BY <1>5, <2>5 DEF NotifyState, GoOn, TypeOK
    <3> QED
      BY <1>0, <2>1, <2>2, <2>3, <3>1 DEF Phase, IsEventCall, Frame
  <2> QED
    BY <2>4, <2>5
<1>6. CASE IfAuto(c)
  <2>1. /\ f.at = "ifAuto" /\ current' = current /\ mode' = mode /\ view' = view
    BY <1>6 DEF IfAuto
  <2>2. CASE mode = "AUTO"
    <3>1. frame'[c] = [f EXCEPT !.at = "notifyMode", !.said = "AUTO",
                                !.next = DataHandler]
      BY <1>6, <2>2 DEF IfAuto, Announce, GoOn, TypeOK
    <3> QED
      BY <1>0, <2>1, <2>2, <3>1 DEF Phase, IsEventCall, Frame, Observers, DataHandler,
                                    TestManager
  <2>3. CASE mode # "AUTO"
    <3>1. frame'[c] = [f EXCEPT !.at = "ifManual"]
      BY <1>6, <2>3 DEF IfAuto, GoOn, TypeOK
    <3>2. mode = "MANUAL"
      BY <2>3 DEF TypeOK, Mode
    <3> QED
      BY <1>0, <2>1, <3>1, <3>2 DEF Phase, IsEventCall, Frame
  <2> QED
    BY <2>2, <2>3
<1>7. CASE IfManual(c)
  <2>1. /\ f.at = "ifManual" /\ current' = current /\ mode' = mode /\ view' = view
        /\ mode = "MANUAL"
    BY <1>7 DEF IfManual, Phase
  <2>2. frame'[c] = [f EXCEPT !.at = "notifyMode", !.said = "MANUAL",
                              !.next = DataHandler]
    BY <1>7, <2>1 DEF IfManual, Announce, GoOn, TypeOK
  <2> QED
    BY <1>0, <2>1, <2>2 DEF Phase, IsEventCall, Frame, Observers, DataHandler,
                            TestManager
<1>8. CASE NotifyMode(c)
  <2>1. /\ f.at = "notifyMode" /\ f.next \in 1..3
        /\ current' = current /\ mode' = mode
        /\ view' = [view EXCEPT ![f.next].mode = f.said]
    BY <1>0, <1>8 DEF NotifyMode, Frame
  <2>2. /\ f.said = mode
        /\ \A o \in Observers : o < f.next => view[o].mode = mode
        /\ IsEventCall(c) =>
             /\ current = f.to
             /\ f.to = Target(Table, f.oldState, f.event)
             /\ \A o \in Observers : o < TestManager + 1 => view[o].state = current
        /\ ~IsEventCall(c) => ~f.again
    BY <2>1 DEF Phase
  <2>3. /\ \A o \in Observers : o < f.next + 1 => view'[o].mode = mode
        /\ \A o \in Observers : view'[o].state = view[o].state
    BY <2>1, <2>2 DEF Observers, DataHandler, TestManager, TypeOK
  <2>4. CASE f.next # TestManager
    <3>1. frame'[c] = [f EXCEPT !.next = @ + 1]
      BY <1>8, <2>4 DEF NotifyMode, GoOn, TypeOK
    <3> QED
      BY <1>0, <2>1, <2>2, <2>3, <3>1 DEF Phase, IsEventCall, Frame
  <2>5. CASE f.next = TestManager /\ f.again
    <3>1. frame'[c] = [f EXCEPT !.at = "notifyState", !.again = FALSE,
                                !.next = DataHandler]
      BY <1>8, <2>5 DEF NotifyMode, Notified, GoOn, TypeOK
    <3>2. IsEventCall(c)
      BY <2>2, <2>5
    <3>3. /\ frame'[c].at = "notifyState" /\ frame'[c].next = DataHandler
          /\ frame'[c].event = f.event /\ frame'[c].to = f.to
          /\ frame'[c].oldState = f.oldState
      BY <1>0, <3>1 DEF Frame
    <3>4. \A o \in Observers : ~(o < DataHandler)
      BY DEF Observers, DataHandler, TestManager
    <3> QED
      BY <2>1, <2>2, <3>2, <3>3, <3>4 DEF Phase, IsEventCall
  <2>6. CASE f.next = TestManager /\ ~f.again
    <3>1. frame'[c] = [f EXCEPT !.at = "done"]
      BY <1>8, <2>6 DEF NotifyMode, Notified, GoOn, TypeOK
    <3> QED
      BY <1>0, <2>1, <2>2, <2>3, <2>6, <3>1 DEF Phase, IsEventCall, Frame
  <2> QED
    BY <2>4, <2>5, <2>6
<1> QED
  BY <1>1, <1>2, <1>3, <1>4, <1>5, <1>6, <1>7, <1>8 DEF Continue

LEMMA NextSolo == TypeOK /\ SoloInv /\ [Next]_vars => SoloInv'
<1> SUFFICES ASSUME TypeOK, SoloInv, [Next]_vars,
                    NEW c \in Callers, alone'[c], ~Idle(c)'
             PROVE  /\ \A d \in Callers \ {c} : Idle(d)'
                    /\ Phase(c)'
  BY DEF SoloInv
<1>1. ASSUME NEW d \in Callers, NEW e \in EventsOf[d], HandleEvent(d, e)
      PROVE  d = c /\ (\A x \in Callers \ {c} : Idle(x)') /\ Phase(c)'
  <2>1. d = c
    BY <1>1 DEF HandleEvent, Overlap, GoOn, Idle, TypeOK
  <2>2. \A x \in Callers \ {c} : Idle(x)'
    BY <1>1, <2>1 DEF HandleEvent, Overlap, GoOn, Idle, TypeOK
  <2> QED
    BY <1>1, <2>1, <2>2, EventStartsInPhase
<1>2. ASSUME NEW d \in Callers, NEW m \in ModesOf[d], HandleMode(d, m)
      PROVE  d = c /\ (\A x \in Callers \ {c} : Idle(x)') /\ Phase(c)'
  <2>1. d = c
    BY <1>2 DEF HandleMode, Overlap, GoOn, Idle, TypeOK
  <2>2. \A x \in Callers \ {c} : Idle(x)'
    BY <1>2, <2>1 DEF HandleMode, Overlap, GoOn, Idle, TypeOK
  <2> QED
    BY <1>2, <2>1, <2>2, ModeStartsInPhase
<1>3. ASSUME NEW d \in Callers, Continue(d)
      PROVE  (\A x \in Callers \ {c} : Idle(x)') /\ Phase(c)'
  <2>1. /\ alone' = alone /\ ~Idle(d)
        /\ \A x \in Callers \ {d} : frame'[x] = frame[x]
    BY <1>3, ContinueFrame
  <2>2. ~Idle(c)
    BY <1>3, <2>1 DEF Idle
  <2>3. d = c
    BY <2>1, <2>2 DEF SoloInv
  <2>4. \A x \in Callers \ {c} : Idle(x)'
    BY <2>1, <2>2, <2>3 DEF SoloInv, Idle
  <2> QED
    BY <1>3, <2>1, <2>2, <2>3, <2>4, ContinuesInPhase DEF SoloInv
<1>4. CASE UNCHANGED vars
  BY <1>4 DEF vars, SoloInv, Idle, Phase, IsEventCall
<1> QED
  BY <1>1, <1>2, <1>3, <1>4, AnyCaller

LEMMA Invariants == Spec => [](TypeOK /\ SoloInv)
<1>1. Init => TypeOK /\ SoloInv
  BY InitType, InitSolo
<1>2. TypeOK /\ SoloInv /\ [Next]_vars => (TypeOK /\ SoloInv)'
  BY NextType, NextSolo
<1> QED
  BY <1>1, <1>2, PTL DEF Spec

\* Any number of tasks, any table: a call that no other call overlapped leaves
\* every observer with the device's state and mode.
THEOREM SoloCallsSynchronise == Spec => []SoloCallSynchronises
<1>1. TypeOK /\ SoloInv => SoloCallSynchronises
  <2> SUFFICES ASSUME TypeOK, SoloInv, NEW c \in Callers, alone[c],
                      frame[c].at = "done", NEW o \in Observers
               PROVE  view[o].mode = mode /\ (IsEventCall(c) => view[o].state = current)
    BY DEF SoloCallSynchronises
  <2>1. Phase(c)
    BY DEF SoloInv, Idle
  <2> QED
    BY <2>1 DEF Phase, Observers, TestManager, DataHandler
<1> QED
  BY <1>1, Invariants, PTL

\* Any number of tasks, any table: such a call is one step of the table.
THEOREM SoloCallsAreAtomic == Spec => SoloCallIsAtomic
<1> DEFINE Step == \A c \in Callers :
                     alone[c] /\ IsEventCall(c) /\ ~Idle(c) /\ Idle(c)'
                       => current = Target(Table, frame[c].oldState, frame[c].event)
<1>1. TypeOK /\ SoloInv /\ [Next]_vars => [Step]_vars
  <2> SUFFICES ASSUME TypeOK, SoloInv, Next, NEW c \in Callers,
                      alone[c], IsEventCall(c), ~Idle(c), Idle(c)'
               PROVE  current = Target(Table, frame[c].oldState, frame[c].event)
    OBVIOUS
  <2>1. Phase(c)
    BY DEF SoloInv
  <2>2. Continue(c)
    <3>1. \A d \in Callers, e \in Event : ~(d # c /\ HandleEvent(d, e)) /\ ~HandleEvent(c, e)
      BY DEF HandleEvent, GoOn, Idle, NoCall, TypeOK
    <3>2. \A d \in Callers, m \in Mode : ~(d # c /\ HandleMode(d, m)) /\ ~HandleMode(c, m)
      BY DEF HandleMode, GoOn, Idle, NoCall, TypeOK
    <3>3. \A d \in Callers \ {c} : ~Continue(d)
      BY ContinueFrame DEF Idle
    <3> QED
      BY <3>1, <3>2, <3>3, Inputs, AnyCaller
  <2>3. NoTransition(c) \/ Return(c)
    BY <2>2, EndsCall
  <2>4. CASE NoTransition(c)
    <3>1. \A i \in RowsOf(Table, frame[c].event) : Table[i].from # current
      BY <2>1, <2>4, TableRows DEF NoTransition, Ahead, RowsOf, Phase, TypeOK, Frame
    <3> QED
      BY <2>1, <2>4, <3>1, NoRow DEF Phase, NoTransition
  <2>5. CASE Return(c)
    BY <2>1, <2>5 DEF Phase, Return
  <2> QED
    BY <2>3, <2>4, <2>5
<1> QED
  BY <1>1, Invariants, PTL DEF Spec, SoloCallIsAtomic

-------------------------------------------------------------------------------
\* A single caller is never overlapped, and between two of its calls, as well as
\* before a call has moved the state, nobody holds an outdated copy.
SingleInv ==
  \A c \in Callers : crew = {c} =>
    /\ alone[c]
    /\ \A x \in Callers \ {c} : Idle(x)
    /\ frame[c].at \in {"idle", "scan", "storeOld", "storeCurrent"} => InSync
    /\ frame[c].at # "idle" /\ ~IsEventCall(c) =>
         \A o \in Observers : view[o].state = current

\* The promise speaks of the same table, events and modes.
LEMMA SameTable ==
  /\ Promise!Event = Event /\ Promise!Mode = Mode
  /\ \A s, e : Promise!Target(Table, s, e) = Target(Table, s, e)
<1>1. Promise!Event = Event /\ Promise!Mode = Mode
  BY Zenon DEF Promise!Event, Event, Promise!Mode, Mode
<1>2. Promise!Override = Override
  BY Zenon DEF Promise!Override, Override
<1>3. \A s, e : Promise!Target(Table, s, e) = Target(Table, s, e)
  BY <1>2, Zenon DEF Promise!Target, Target, Promise!IsOverride, IsOverride,
                     Promise!RowsOf, RowsOf, Promise!Min, Min
<1> QED
  BY <1>1, <1>3

LEMMA InitSingle == Init => SingleInv
BY DEF Init, SingleInv, InSync, NoCall, Idle

\* The others do not call, and keep still while a single caller does.
LEMMA OthersIdle ==
  ASSUME NEW c \in Callers, crew = {c}, TypeOK, SingleInv, Next
  PROVE  /\ crew' = crew
         /\ \A x \in Callers \ {c} : Idle(x) /\ Idle(x)'
         /\ \/ \E e \in EventsOf[c] : HandleEvent(c, e)
            \/ \E m \in ModesOf[c] : HandleMode(c, m)
            \/ Continue(c)
<1>1. /\ crew' = crew
      /\ \/ \E e \in EventsOf[c] : HandleEvent(c, e)
         \/ \E m \in ModesOf[c] : HandleMode(c, m)
         \/ Continue(c)
  BY AnyCaller
<1>2. \A x \in Callers \ {c} : Idle(x)
  BY DEF SingleInv
<1>3. \A x \in Callers \ {c} : frame'[x] = frame[x]
  BY <1>1, ContinueFrame DEF HandleEvent, HandleMode, GoOn, TypeOK
<1> QED  BY <1>1, <1>2, <1>3 DEF Idle

\* One step of the only caller, as the promise sees it.
LEMMA SingleStep ==
  ASSUME NEW c \in Callers, crew = {c}, TypeOK, SoloInv, SingleInv, Next
  PROVE  SingleInv' /\ [Promise!Next]_(Promise!vars)
<1> DEFINE busy == \E x \in Callers : ~Idle(x)
           f == frame[c]
           Kept == /\ alone'[c]
                   /\ frame'[c].at \in {"idle", "scan", "storeOld", "storeCurrent"} => InSync'
                   /\ frame'[c].at # "idle" /\ ~IsEventCall(c)' =>
                        \A o \in Observers : view'[o].state = current'
<1> USE DEF Promise!Next, Promise!vars
<1>0. /\ c \in Callers /\ f \in Frame /\ (busy <=> ~Idle(c)) /\ (busy' <=> ~Idle(c)')
      /\ ~Idle(c) => Phase(c)
  BY OthersIdle DEF TypeOK, SoloInv, SingleInv
<1>1. ASSUME NEW e \in EventsOf[c], HandleEvent(c, e)
      PROVE  Kept /\ Promise!Call
  <2>1. Idle(c) /\ InSync /\ alone'[c] /\ UNCHANGED <<current, mode, view>>
    BY <1>1 DEF HandleEvent, SingleInv, Idle, Overlap
  <2>2. /\ frame'[c].at \in {"scan", "storeOld"}
        /\ frame'[c].event = e /\ e # "NONE"
    BY <1>1, CallersAssumption DEF HandleEvent, GoOn, NoCall, TypeOK
  <2>3. InSync'
    BY <2>1 DEF InSync
  <2> QED
    BY <1>0, <2>1, <2>2, <2>3 DEF SingleInv, IsEventCall, Idle, Promise!Call
<1>2. ASSUME NEW m \in ModesOf[c], HandleMode(c, m)
      PROVE  Kept /\ Promise!SetMode
  <2>1. Idle(c) /\ InSync /\ alone'[c] /\ UNCHANGED <<current, view>> /\ mode' \in Mode
    BY <1>2, Inputs DEF HandleMode, SingleInv, Idle, Overlap
  <2>2. frame'[c].at = "notifyMode"
    BY <1>2 DEF HandleMode, GoOn, NoCall, TypeOK
  <2>3. \A o \in Observers : view'[o].state = current'
    BY <2>1 DEF InSync
  <2> QED
    BY <1>0, <2>1, <2>2, <2>3, SameTable DEF SingleInv, Idle, Promise!SetMode
<1>3. ASSUME ScanRow(c) \/ StoreOld(c) \/ IfAuto(c) \/ IfManual(c)
      PROVE  Kept /\ UNCHANGED Promise!vars
  <2>1. UNCHANGED <<current, mode, view, alone>> /\ ~Idle(c)
    BY <1>3 DEF ScanRow, StoreOld, IfAuto, IfManual, Idle
  <2>2. /\ f.event = frame'[c].event
        /\ ~Idle(c)'
        /\ frame'[c].at \in {"scan", "storeOld", "storeCurrent"} =>
             f.at \in {"scan", "storeOld", "storeCurrent"}
    <3> frame \in [Callers -> Frame]
      BY DEF TypeOK
    <3>1. CASE ScanRow(c)
      <4>1. PICK i : \/ frame'[c] = [f EXCEPT !.at = "storeOld", !.to = Table[i].to,
                                             !.again = Table[i].renotify]
                     \/ frame'[c] = [f EXCEPT !.row = i + 1]
        BY <1>0, <3>1 DEF ScanRow, GoOn
      <4> QED
        BY <1>0, <3>1, <4>1 DEF ScanRow, Frame, Idle
    <3>2. CASE StoreOld(c)
      BY <1>0, <3>2 DEF StoreOld, GoOn, Frame, Idle
    <3>3. CASE IfAuto(c)
      <4>1. \/ frame'[c] = [f EXCEPT !.at = "notifyMode", !.said = "AUTO",
                                     !.next = DataHandler]
            \/ frame'[c] = [f EXCEPT !.at = "ifManual"]
        BY <1>0, <3>3 DEF IfAuto, Announce, GoOn
      <4> QED
        BY <1>0, <4>1 DEF Frame, Idle
    <3>4. CASE IfManual(c)
      <4>1. \/ frame'[c] = [f EXCEPT !.at = "notifyMode", !.said = "MANUAL",
                                     !.next = DataHandler]
            \/ frame'[c] = [f EXCEPT !.at = "notifyState", !.again = FALSE,
                                     !.next = DataHandler]
            \/ frame'[c] = [f EXCEPT !.at = "done"]
        BY <1>0, <3>4 DEF IfManual, Announce, Notified, GoOn
      <4> QED
        BY <1>0, <4>1 DEF Frame, Idle
    <3> QED
      BY <1>3, <3>1, <3>2, <3>3, <3>4
  <2>3. Kept
    BY <2>1, <2>2 DEF SingleInv, InSync, IsEventCall, Idle
  <2> QED
    BY <1>0, <2>1, <2>2, <2>3
<1>4. ASSUME NoTransition(c) \/ Return(c)
      PROVE  Kept /\ Promise!Return
  <2>1. UNCHANGED <<current, mode, view, alone>> /\ ~Idle(c) /\ frame'[c] = NoCall
    BY <1>4 DEF NoTransition, Return, GoOn, TypeOK, Idle
  <2>2. InSync
    <3>1. CASE NoTransition(c)
      BY <1>0, <3>1 DEF NoTransition, SingleInv
    <3>2. CASE Return(c)
      <4>1. \A o \in Observers : view[o].state = current /\ view[o].mode = mode
        BY <1>0, <2>1, <3>2 DEF Return, Phase, SingleInv, Observers, DataHandler,
                                TestManager
      <4> QED
        BY <4>1 DEF InSync, TypeOK
    <3> QED
      BY <1>4, <3>1, <3>2
  <2>3. Kept
    BY <2>1, <2>2 DEF SingleInv, InSync, NoCall
  <2> QED
    BY <1>0, <2>1, <2>2, <2>3 DEF Promise!Return, InSync, NoCall, Idle
<1>5. ASSUME SetState(c) PROVE Kept /\ Promise!Move
  <2>1. /\ f.at = "storeCurrent" /\ IsEventCall(c) /\ f.event \in Event
        /\ current' = Target(Table, current, f.event)
        /\ UNCHANGED <<mode, view, alone>>
    BY <1>0, <1>5 DEF SetState, Phase, Idle, Frame
  <2>2. frame'[c].at = "notifyState" /\ frame'[c].event = f.event
    BY <1>0, <1>5 DEF SetState, GoOn, TypeOK, Frame
  <2>3. Kept
    BY <2>1, <2>2 DEF SingleInv, IsEventCall
  <2> QED
    BY <1>0, <2>1, <2>2, <2>3, SameTable DEF Promise!Move, Idle
<1>6. ASSUME NotifyState(c) PROVE Kept /\ \E o \in Observers : Promise!Show(o)
  <2>1. /\ f.at = "notifyState" /\ IsEventCall(c) /\ f.next \in Observers
        /\ view' = [view EXCEPT ![f.next].state = current]
        /\ UNCHANGED <<current, mode, alone>>
    BY <1>0, <1>6 DEF NotifyState, Phase, Idle, Frame, Observers, DataHandler, TestManager
  <2>2. frame'[c].at \in {"notifyState", "ifAuto"} /\ frame'[c].event = f.event
    BY <1>0, <1>6 DEF NotifyState, GoOn, TypeOK, Frame
  <2>3. Kept
    BY <2>1, <2>2 DEF SingleInv, IsEventCall
  <2> QED
    BY <1>0, <2>1, <2>2, <2>3 DEF Promise!Show, Idle
<1>7. ASSUME NotifyMode(c) PROVE Kept /\ \E o \in Observers : Promise!Show(o)
  <2>1. /\ f.at = "notifyMode" /\ f.next \in Observers
        /\ view' = [view EXCEPT ![f.next].mode = mode]
        /\ UNCHANGED <<current, mode, alone>>
    BY <1>0, <1>7 DEF NotifyMode, Phase, Idle, Frame, Observers, DataHandler, TestManager
  <2>2. /\ frame'[c].at \in {"notifyMode", "notifyState", "done"}
        /\ frame'[c].event = f.event
    <3>1. CASE f.next # TestManager
      BY <1>0, <1>7, <3>1 DEF NotifyMode, GoOn, TypeOK, Frame
    <3>2. CASE f.next = TestManager
      <4>1. \/ frame'[c] = [f EXCEPT !.at = "notifyState", !.again = FALSE,
                                     !.next = DataHandler]
            \/ frame'[c] = [f EXCEPT !.at = "done"]
        BY <1>0, <1>7, <3>2 DEF NotifyMode, Notified, GoOn, TypeOK
      <4> QED
        BY <1>0, <4>1 DEF Frame
    <3> QED
      BY <3>1, <3>2
  <2>3. \A o \in Observers : view'[o].state = view[o].state
    BY <2>1 DEF TypeOK
  <2>4. Kept
    BY <2>1, <2>2, <2>3 DEF SingleInv, IsEventCall
  <2> QED
    BY <1>0, <2>1, <2>2, <2>4 DEF Promise!Show, Idle
<1>8. Kept /\ [Promise!Next]_(Promise!vars)
  BY <1>1, <1>2, <1>3, <1>4, <1>5, <1>6, <1>7, OthersIdle DEF Continue
<1>9. SingleInv'
  BY <1>8, OthersIdle DEF SingleInv
<1> QED
  BY <1>8, <1>9

LEMMA SingleInvHolds == Spec => []SingleInv
<1>1. ASSUME TypeOK, SoloInv, SingleInv, [Next]_vars
      PROVE  SingleInv'
  <2>1. CASE UNCHANGED vars
    BY <1>1, <2>1 DEF vars, SingleInv, InSync, IsEventCall, Idle
  <2>2. CASE Next
    <3> SUFFICES ASSUME NEW c \in Callers, crew' = {c} PROVE SingleInv'
      BY DEF SingleInv
    <3>1. crew = {c}
      BY <1>1, <2>2, AnyCaller
    <3> QED
      BY <1>1, <2>2, <3>1, SingleStep
  <2> QED
    BY <1>1, <2>1, <2>2
<1> QED
  BY <1>1, InitSingle, Invariants, PTL DEF Spec

\* With one task, whichever of them and whatever the table, the machine keeps the
\* promise of DeviceState.  This is what the commented-out semaphores would give to
\* every task.
THEOREM SingleCallerKeepsPromise == Spec => PromiseKept
<1>1. Init => Promise!Init
  BY DEF Init, Promise!Init, Idle, NoCall
<1>2. ASSUME TypeOK, SoloInv, SingleInv, [Next]_vars
      PROVE  [Single => Promise!Next]_(Promise!vars)
  <2>1. CASE UNCHANGED vars
    BY <2>1 DEF vars, Promise!vars, Idle
  <2>2. CASE Next /\ Single
    <3>1. PICK c \in crew : crew = {c}
      BY <2>2 DEF Single
    <3>2. c \in Callers
      BY <1>2, CallersAssumption DEF TypeOK
    <3> QED
      BY <1>2, <2>2, <3>1, <3>2, SingleStep
  <2> QED
    BY <1>2, <2>1, <2>2
<1> QED
  BY <1>1, <1>2, SingleInvHolds, Invariants, PTL DEF Spec, PromiseKept

\* With one task, whichever of them and whatever the table, nobody holds an outdated
\* copy between two calls.
THEOREM SingleCallerInSync == Spec => []IdleInSync
<1>1. TypeOK /\ SingleInv => IdleInSync
  <2>1. TypeOK => \A c \in crew : c \in Callers
    BY CallersAssumption DEF TypeOK
  <2> QED
    BY <2>1 DEF SingleInv, IdleInSync, Idle, Single
<1> QED
  BY <1>1, SingleInvHolds, Invariants, PTL

-------------------------------------------------------------------------------
(* Calls return: the part of it that is not the scheduler's.               *)

\* At most so many steps are left to the call of c: rows to look at, the two stores, a
\* round of notifications, eight steps, for the change and one for the default action.
StepsLeft(c) ==
  LET f == frame[c]
      again == IF f.again THEN 8 ELSE 0
  IN CASE f.at = "scan"         -> 20 + Len(Table) - f.row
       [] f.at = "storeOld"     -> 11 + again
       [] f.at = "storeCurrent" -> 10 + again
       [] f.at = "notifyState"  -> 10 + again - f.next
       [] f.at = "ifAuto"       -> 6 + again
       [] f.at = "ifManual"     -> 5 + again
       [] f.at = "notifyMode"   -> 5 + again - f.next
       [] f.at = "done"         -> 1
       [] OTHER                 -> 0

\* A call may always go on, the scan by a row or by its end, and has a bound.
CallsAreBounded ==
  \A c \in Callers :
    /\ StepsLeft(c) \in 0..(Len(Table) + 19)
    /\ StepsLeft(c) = 0 <=> Idle(c)
    /\ frame[c].at = "scan" => Ahead(c) = {} \/ \E i \in Ahead(c) : \A j \in Ahead(c) : i <= j

\* Each step of a call brings it nearer to its return, and no other call takes it back.
CallNearsReturn ==
  \A c \in Callers : /\ Continue(c) => StepsLeft(c)' < StepsLeft(c)
                     /\ ~Idle(c) /\ ~Continue(c) => StepsLeft(c)' = StepsLeft(c)

RowInv == \A c \in Callers : frame[c].row \in 1..(Len(Table) + 1)

LEMMA LeastNumber == ASSUME NEW S, S \subseteq Nat, S # {}
                     PROVE  \E i \in S : \A j \in S : i <= j
<1>1. \E x \in S : \A y \in S : ~ (<<y, x>> \in OpToRel(<, Nat))
  BY WFMin, NatLessThanWellFounded
<1>2. PICK x \in S : \A y \in S : ~ (<<y, x>> \in OpToRel(<, Nat))  BY <1>1
<1>3. ASSUME NEW y \in S PROVE x <= y
  <2>1. x \in Nat /\ y \in Nat  OBVIOUS
  <2>2. y < x => <<y, x>> \in OpToRel(<, Nat)  BY <2>1 DEF OpToRel
  <2>3. ~ (y < x)  BY <1>2, <2>2, Zenon
  <2> QED  BY <2>1, <2>3
<1> QED  BY <1>3

LEMMA TableLength == Len(Table) \in Nat /\ DOMAIN Table = 1..Len(Table)
BY TableAssumption

\* What is left after a step of the call, and the row it has come to.
LEMMA StepNears ==
  ASSUME TypeOK, RowInv, NEW c \in Callers, Continue(c)
  PROVE  StepsLeft(c)' < StepsLeft(c) /\ frame'[c].row \in 1..(Len(Table) + 1)
<1> DEFINE f == frame[c]
           g == frame'[c]
<1>a. /\ frame \in [Callers -> Frame] /\ f \in Frame /\ Len(Table) \in Nat
      /\ DOMAIN Table = 1..Len(Table) /\ f.row \in 1..(Len(Table) + 1)
  BY TableLength DEF TypeOK, RowInv
<1>b. f.next \in 1..3 /\ f.again \in BOOLEAN  BY <1>a DEF Frame
<1>c. \A h : GoOn(c, h) => g = h  BY <1>a DEF GoOn
<1>d. NoCall.at = "idle" /\ NoCall.row = 1  BY DEF NoCall
<1>e. \A h \in Frame : h = f => h.row = f.row  OBVIOUS
<1>1. CASE ScanRow(c)
  <2>1. f.at = "scan"  BY <1>1 DEF ScanRow
  <2>2. PICK i \in Ahead(c) :
          \/ g = [f EXCEPT !.at = "storeOld", !.to = Table[i].to, !.again = Table[i].renotify]
          \/ g = [f EXCEPT !.row = i + 1]
    BY <1>1, <1>c DEF ScanRow
  <2>3. i \in 1..Len(Table) /\ i >= f.row  BY <1>a DEF Ahead, RowsOf
  <2>4. Table[i].renotify \in BOOLEAN  BY <1>a, <2>3, TableRows DEF RowType
  <2>5. CASE g = [f EXCEPT !.row = i + 1]
    <3>1. g.at = "scan" /\ g.row = i + 1  BY <1>a, <2>1, <2>5 DEF Frame
    <3> QED  BY <1>a, <2>1, <2>3, <3>1 DEF StepsLeft
  <2>6. CASE g = [f EXCEPT !.at = "storeOld", !.to = Table[i].to, !.again = Table[i].renotify]
    <3>1. g.at = "storeOld" /\ g.row = f.row  BY <1>a, <2>6 DEF Frame
    <3>2. StepsLeft(c)' <= 19  BY <3>1 DEF StepsLeft
    <3>3. StepsLeft(c) >= 20  BY <1>a, <2>1, <2>3 DEF StepsLeft
    <3>4. StepsLeft(c)' \in Int /\ StepsLeft(c) \in Int  BY <1>a, <2>1, <3>1 DEF StepsLeft
    <3> QED  BY <1>a, <3>1, <3>2, <3>3, <3>4
  <2> QED  BY <2>2, <2>5, <2>6
<1>2. CASE NoTransition(c) \/ Return(c)
  <2>1. f.at \in {"scan", "done"} /\ g.at = "idle" /\ g.row = 1
    BY <1>2, <1>c, <1>d DEF NoTransition, Return
  <2>2. StepsLeft(c)' = 0  BY <2>1 DEF StepsLeft
  <2>3. StepsLeft(c) > 0  BY <1>a, <2>1 DEF StepsLeft
  <2>4. 1 \in 1..(Len(Table) + 1)  BY <1>a
  <2> QED  BY <2>1, <2>2, <2>3, <2>4
<1>3. CASE StoreOld(c)
  <2>1. f.at = "storeOld" /\ g = [f EXCEPT !.at = "storeCurrent"]  BY <1>3, <1>c DEF StoreOld
  <2>2. g.at = "storeCurrent" /\ g.again = f.again /\ g.row = f.row  BY <1>a, <2>1 DEF Frame
  <2> QED  BY <1>a, <2>1, <2>2 DEF StepsLeft
<1>4. CASE SetState(c)
  <2>1. f.at = "storeCurrent" /\ g = [f EXCEPT !.at = "notifyState", !.next = DataHandler]
    BY <1>4, <1>c DEF SetState
  <2>2. g.at = "notifyState" /\ g.again = f.again /\ g.row = f.row /\ g.next = 1
    BY <1>a, <2>1 DEF Frame, DataHandler
  <2> QED  BY <1>a, <2>1, <2>2 DEF StepsLeft
<1>5. CASE NotifyState(c)
  <2>1. /\ f.at = "notifyState"
        /\ \/ f.next = 3 /\ g = [f EXCEPT !.at = "ifAuto"]
           \/ f.next # 3 /\ g = [f EXCEPT !.next = @ + 1]
    BY <1>5, <1>c DEF NotifyState, TestManager
  <2>2. /\ g.again = f.again /\ g.row = f.row
        /\ \/ f.next = 3 /\ g.at = "ifAuto"
           \/ f.next # 3 /\ g.at = "notifyState" /\ g.next = f.next + 1
    BY <1>a, <1>b, <2>1 DEF Frame
  <2> QED  BY <1>a, <1>b, <2>1, <2>2 DEF StepsLeft
\* Both ends of a round, and the announcement of the mode.
<1>6. ASSUME Notified(c)
      PROVE  /\ g.row = f.row
             /\ \/ f.again /\ ~g.again /\ g.at = "notifyState" /\ g.next = 1
                \/ ~f.again /\ g.at = "done"
  <2>1. \/ f.again /\ g = [f EXCEPT !.at = "notifyState", !.again = FALSE, !.next = 1]
        \/ ~f.again /\ g = [f EXCEPT !.at = "done"]
    BY <1>6, <1>c DEF Notified, DataHandler
  <2>2. CASE f.again /\ g = [f EXCEPT !.at = "notifyState", !.again = FALSE, !.next = 1]
    <3>1. g.row = f.row /\ g.at = "notifyState" /\ g.next = 1  BY <1>a, <2>2 DEF Frame
    <3>2. ~g.again  BY <1>a, <2>2 DEF Frame
    <3> QED  BY <2>2, <3>1, <3>2
  <2>3. CASE ~f.again /\ g = [f EXCEPT !.at = "done"]
    <3>1. g.row = f.row /\ g.at = "done"  BY <1>a, <2>3 DEF Frame
    <3> QED  BY <2>3, <3>1
  <2> QED  BY <2>1, <2>2, <2>3
<1>7. ASSUME NEW m, Announce(c, m)
      PROVE  g.row = f.row /\ g.again = f.again /\ g.at = "notifyMode" /\ g.next = 1
  BY <1>7, <1>a, <1>c DEF Announce, Frame, DataHandler
<1>8. CASE IfAuto(c)
  <2>1. /\ f.at = "ifAuto"
        /\ Announce(c, "AUTO") \/ g = [f EXCEPT !.at = "ifManual"]
    BY <1>8, <1>c DEF IfAuto
  <2>2. CASE Announce(c, "AUTO")  BY <1>a, <1>7, <2>1, <2>2 DEF StepsLeft
  <2>3. CASE g = [f EXCEPT !.at = "ifManual"]
    <3>1. g.at = "ifManual" /\ g.row = f.row /\ g.again = f.again  BY <1>a, <2>3 DEF Frame
    <3> QED  BY <1>a, <2>1, <3>1 DEF StepsLeft
  <2> QED  BY <2>1, <2>2, <2>3
<1>9. CASE IfManual(c)
  <2>1. f.at = "ifManual" /\ (Announce(c, "MANUAL") \/ Notified(c))  BY <1>9 DEF IfManual
  <2>2. CASE Announce(c, "MANUAL")  BY <1>a, <1>7, <2>1, <2>2 DEF StepsLeft
  <2>3. CASE Notified(c)  BY <1>a, <1>6, <2>1, <2>3 DEF StepsLeft
  <2> QED  BY <2>1, <2>2, <2>3
<1>10. CASE NotifyMode(c)
  <2>1. /\ f.at = "notifyMode"
        /\ \/ f.next = 3 /\ Notified(c)
           \/ f.next # 3 /\ g = [f EXCEPT !.next = @ + 1]
    BY <1>10, <1>c DEF NotifyMode, TestManager
  <2>2. CASE Notified(c) /\ f.next = 3  BY <1>a, <1>6, <2>1, <2>2 DEF StepsLeft
  <2>3. CASE f.next # 3 /\ g = [f EXCEPT !.next = @ + 1]
    <3>1. /\ g.at = "notifyMode" /\ g.row = f.row /\ g.again = f.again
          /\ g.next = f.next + 1
      BY <1>a, <1>b, <2>1, <2>3 DEF Frame
    <3> QED  BY <1>a, <1>b, <2>1, <3>1 DEF StepsLeft
  <2> QED  BY <2>1, <2>2, <2>3
<1> QED  BY <1>1, <1>2, <1>3, <1>4, <1>5, <1>8, <1>9, <1>10 DEF Continue

\* A call that begins begins at the first row.
LEMMA CallBegins ==
  ASSUME TypeOK, NEW c \in Callers,
         (\E e \in EventsOf[c] : HandleEvent(c, e)) \/ (\E m \in ModesOf[c] : HandleMode(c, m))
  PROVE  /\ Idle(c) /\ frame'[c].row = 1
         /\ \A x \in Callers \ {c} : frame'[x] = frame[x]
<1>a. frame \in [Callers -> Frame]  BY DEF TypeOK
<1>1. ASSUME NEW e, HandleEvent(c, e)
      PROVE  frame'[c].row = 1 /\ Idle(c) /\ \A x \in Callers \ {c} : frame'[x] = frame[x]
  <2> DEFINE a == IF IsOverride(e) THEN "storeOld" ELSE "scan"
             t == IF IsOverride(e) THEN Override[e] ELSE NoCall.to
  <2>1. /\ Idle(c)
        /\ frame' = [frame EXCEPT ![c] = [NoCall EXCEPT !.at = a, !.event = e,
                                                        !.oldState = current, !.to = t]]
    BY <1>1 DEF HandleEvent, GoOn
  <2> HIDE DEF a, t
  <2> QED  BY <1>a, <2>1 DEF NoCall
<1>2. ASSUME NEW m, HandleMode(c, m)
      PROVE  frame'[c].row = 1 /\ Idle(c) /\ \A x \in Callers \ {c} : frame'[x] = frame[x]
  BY <1>2, <1>a DEF HandleMode, GoOn, NoCall
<1> QED  BY <1>1, <1>2

LEMMA RowsStay == TypeOK /\ RowInv /\ [Next]_vars => RowInv'
<1> SUFFICES ASSUME TypeOK, RowInv, [Next]_vars PROVE RowInv'  OBVIOUS
<1>1. ASSUME NEW c \in Callers, Continue(c) PROVE RowInv'
  BY <1>1, StepNears, ContinueFrame DEF RowInv
<1>2. ASSUME NEW c \in Callers,
             (\E e \in EventsOf[c] : HandleEvent(c, e)) \/ (\E m \in ModesOf[c] : HandleMode(c, m))
      PROVE  RowInv'
  <2>1. 1 \in 1..(Len(Table) + 1)  BY TableLength
  <2> QED  BY <1>2, <2>1, CallBegins DEF RowInv
<1>3. CASE UNCHANGED vars  BY <1>3 DEF vars, RowInv
<1> QED  BY <1>1, <1>2, <1>3, AnyCaller

LEMMA RowInvHolds == Spec => []RowInv
<1>1. Init => RowInv
  <2>1. 1 \in 1..(Len(Table) + 1)  BY TableLength
  <2> QED  BY <2>1 DEF Init, RowInv, NoCall
<1> QED  BY <1>1, Invariants, RowsStay, PTL DEF Spec

\* A call of handleEvent or handleMode may go on wherever it is, and is over after
\* at most Len(Table) + 19 further steps of its own: the scan has an end, a row repeats
\* its notifications once, and no step waits for anything (handleEvent, handleMode).
THEOREM CallsHaveBounds == Spec => []CallsAreBounded
<1>1. TypeOK /\ RowInv => CallsAreBounded
  <2> SUFFICES ASSUME TypeOK, RowInv, NEW c \in Callers
               PROVE  /\ StepsLeft(c) \in 0..(Len(Table) + 19)
                      /\ StepsLeft(c) = 0 <=> Idle(c)
                      /\ frame[c].at = "scan" =>
                           Ahead(c) = {} \/ \E i \in Ahead(c) : \A j \in Ahead(c) : i <= j
    BY DEF CallsAreBounded
  <2>1. /\ frame[c].at \in PC /\ frame[c].next \in 1..3 /\ Len(Table) \in Nat
        /\ frame[c].row \in 1..(Len(Table) + 1)
    BY TableLength DEF TypeOK, Frame, RowInv
  <2>2. ASSUME frame[c].at = "scan"
        PROVE StepsLeft(c) \in 0..(Len(Table) + 19) /\ (StepsLeft(c) = 0 <=> Idle(c))
    <3>1. StepsLeft(c) = 20 + Len(Table) - frame[c].row  BY <2>2 DEF StepsLeft
    <3> QED  BY <2>1, <2>2, <3>1 DEF Idle
  <2>3. ASSUME frame[c].at \in {"storeOld", "storeCurrent", "notifyState", "ifAuto", "ifManual",
                              "notifyMode", "done"}
        PROVE StepsLeft(c) \in 0..(Len(Table) + 19) /\ (StepsLeft(c) = 0 <=> Idle(c))
    <3> DEFINE again == IF frame[c].again THEN 8 ELSE 0
    <3>a. again \in 0..8  OBVIOUS
    <3> DEFINE a == frame[c].at
               n == frame[c].next
    <3>b. /\ n \in 1..3
          /\ a \in {"storeOld", "storeCurrent", "notifyState", "ifAuto", "ifManual",
                  "notifyMode", "done"}
      BY <2>1, <2>3
    <3> HIDE DEF again, a, n
    <3>1. StepsLeft(c) \in 1..19
      <4>1. a = "storeOld" => StepsLeft(c) = 11 + again  BY DEF a, n, again, StepsLeft
      <4>2. a = "storeCurrent" => StepsLeft(c) = 10 + again  BY DEF a, n, again, StepsLeft
      <4>3. a = "notifyState" => StepsLeft(c) = 10 + again - n  BY DEF a, n, again, StepsLeft
      <4>4. a = "ifAuto" => StepsLeft(c) = 6 + again  BY DEF a, n, again, StepsLeft
      <4>5. a = "ifManual" => StepsLeft(c) = 5 + again  BY DEF a, n, again, StepsLeft
      <4>6. a = "notifyMode" => StepsLeft(c) = 5 + again - n  BY DEF a, n, again, StepsLeft
      <4>7. a = "done" => StepsLeft(c) = 1  BY DEF a, n, again, StepsLeft
      <4> QED  BY <3>a, <3>b, <4>1, <4>2, <4>3, <4>4, <4>5, <4>6, <4>7
    <3> QED  BY <2>1, <2>3, <3>1 DEF Idle
  <2>6. ASSUME frame[c].at = "idle"
        PROVE StepsLeft(c) \in 0..(Len(Table) + 19) /\ (StepsLeft(c) = 0 <=> Idle(c))
    <3>1. StepsLeft(c) = 0  BY <2>6 DEF StepsLeft
    <3> QED  BY <2>1, <2>6, <3>1 DEF Idle
  <2>4. Ahead(c) \subseteq Nat  BY TableRows DEF Ahead, RowsOf
  <2>5. Ahead(c) = {} \/ \E i \in Ahead(c) : \A j \in Ahead(c) : i <= j
    BY <2>4, LeastNumber
  <2> QED  BY <2>1, <2>2, <2>3, <2>5, <2>6 DEF PC
<1> QED  BY <1>1, Invariants, RowInvHolds, PTL

\* Each of those steps uses up one, however many calls of other tasks overlap: with the
\* bound before it, why every call returns when the scheduler runs its task.
THEOREM CallsGetNearer == Spec => [][CallNearsReturn]_vars
<1>1. ASSUME TypeOK, RowInv, Next PROVE CallNearsReturn
  <2> SUFFICES ASSUME NEW c \in Callers
               PROVE  /\ Continue(c) => StepsLeft(c)' < StepsLeft(c)
                      /\ ~Idle(c) /\ ~Continue(c) => StepsLeft(c)' = StepsLeft(c)
    BY DEF CallNearsReturn
  <2>1. Continue(c) => StepsLeft(c)' < StepsLeft(c)  BY <1>1, StepNears
  <2>2. ~Idle(c) /\ ~Continue(c) => frame'[c] = frame[c]
    <3>1. PICK d \in Callers : \/ \E e \in EventsOf[d] : HandleEvent(d, e)
                               \/ \E m \in ModesOf[d] : HandleMode(d, m)
                               \/ Continue(d)
      BY <1>1, AnyCaller
    <3>2. CASE Continue(d)  BY <1>1, <3>2, ContinueFrame
    <3>3. CASE \/ \E e \in EventsOf[d] : HandleEvent(d, e)
               \/ \E m \in ModesOf[d] : HandleMode(d, m)
      BY <1>1, <3>3, CallBegins
    <3> QED  BY <3>1, <3>2, <3>3
  <2>3. frame'[c] = frame[c] => StepsLeft(c)' = StepsLeft(c)  BY DEF StepsLeft
  <2> QED  BY <2>1, <2>2, <2>3
<1> QED  BY <1>1, Invariants, RowInvHolds, PTL DEF Spec
===============================================================================
