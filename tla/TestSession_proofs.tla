--------------------------- MODULE TestSession_proofs ---------------------------
(***************************************************************************)
(* Proofs about TestSession, for all sessions, any outcomes of the runs    *)
(* and any length of the queues: its types, who may start a test, why the  *)
(* device is in the state it is in, and that TestResults is implemented.   *)
(***************************************************************************)
EXTENDS TestSession, SequenceTheorems, WellFoundedInduction, TLAPS

-------------------------------------------------------------------------------
(* The transition table.                                                   *)

\* What the table says about the states in which a test runs or is evaluated: which
\* events lead into them, and which must lead out.
RowFits(r) ==
  /\ r.to \in State
  /\ r.to = "TEST_RUNNING" => r.on = "TEST_RUN_OK"
  /\ r.to = "CURRENT_TEST_CHECK" => r.on \in {"TEST_TIME_END", "DATA_CAPTURED"}
  /\ r.to = "CURRENT_TEST_OK" => r.on = "VALID_DATA"
  /\ r.from = "CURRENT_TEST_CHECK" /\ r.on \in {"TEST_FAILED", "VALID_DATA"} => r.to # r.from
  /\ r.from = "CURRENT_TEST_OK" /\ r.on \in {"TEST_FAILED", "SAVE"} => r.to # r.from
  /\ r.from = "TEST_RUNNING" /\ r.on = "TEST_TIME_END" => r.to # r.from

LEMMA RegularRows ==
  /\ Len(RegularTransitions) = 23 /\ DOMAIN RegularTransitions = 1..23
  /\ \A i \in 1..23 : RowFits(RegularTransitions[i])
  /\ RegularTransitions[15].from = "CURRENT_TEST_CHECK" /\ RegularTransitions[15].on = "VALID_DATA"
  /\ RegularTransitions[16].from = "CURRENT_TEST_CHECK" /\ RegularTransitions[16].on = "TEST_FAILED"
  /\ RegularTransitions[17].from = "CURRENT_TEST_OK" /\ RegularTransitions[17].on = "SAVE"
  /\ RegularTransitions[21].from = "CURRENT_TEST_OK" /\ RegularTransitions[21].on = "TEST_FAILED"
BY DEF RegularTransitions, RowFits, Row, RowWithAction, State

LEMMA SpecialRows ==
  /\ Len(SpecialCaseTransitions) = 12 /\ DOMAIN SpecialCaseTransitions = 1..12
  /\ \A i \in 1..12 : RowFits(SpecialCaseTransitions[i])
  /\ SpecialCaseTransitions[1].from = "TEST_RUNNING"
  /\ SpecialCaseTransitions[1].on = "TEST_TIME_END"
BY DEF SpecialCaseTransitions, RowFits, Row, RowWithAction, State

Rows == {RegularTransitions[i] : i \in 1..23} \union {SpecialCaseTransitions[i] : i \in 1..12}

LEMMA FunctionIsSequence == ASSUME NEW X, NEW n \in Nat, NEW f \in [1..n -> X]
                            PROVE  f \in Seq(X)
OBVIOUS

LEMMA TablesAreSequences ==
  RegularTransitions \in Seq(Rows) /\ SpecialCaseTransitions \in Seq(Rows)
<1>1. RegularTransitions = [i \in 1..23 |-> RegularTransitions[i]]
  BY DEF RegularTransitions
<1>2. SpecialCaseTransitions = [i \in 1..12 |-> SpecialCaseTransitions[i]]
  BY DEF SpecialCaseTransitions
<1>3. RegularTransitions \in [1..23 -> Rows] /\ SpecialCaseTransitions \in [1..12 -> Rows]
  BY <1>1, <1>2, Zenon DEF Rows
<1>4. 23 \in Nat /\ 12 \in Nat  OBVIOUS
<1> QED  BY <1>3, <1>4, FunctionIsSequence, Zenon

\* The table is the one after the other.
LEMMA TableRowsFit ==
  /\ DOMAIN TransitionTable = 1..35
  /\ \A i \in 1..35 : RowFits(TransitionTable[i])
  /\ \A i \in 1..23 : TransitionTable[i] = RegularTransitions[i]
  /\ TransitionTable[24] = SpecialCaseTransitions[1]
<1> DEFINE R == RegularTransitions
           S == SpecialCaseTransitions
           T == TransitionTable
<1>a. R \in Seq(Rows) /\ Len(R) = 23 /\ S \in Seq(Rows) /\ Len(S) = 12
  BY TablesAreSequences, RegularRows, SpecialRows, Zenon
<1>b. T = R \o S  BY Zenon DEF TransitionTable
<1>c. (\A i \in 1..23 : RowFits(R[i])) /\ (\A i \in 1..12 : RowFits(S[i]))
  BY RegularRows, SpecialRows, Zenon
<1> HIDE DEF R, S, T
<1>1. /\ T \in Seq(Rows) /\ Len(T) = 35
      /\ \A i \in 1..35 : T[i] = IF i <= 23 THEN R[i] ELSE S[i - 23]
  <2>1. /\ T \in Seq(Rows) /\ Len(T) = Len(R) + Len(S)
        /\ \A i \in 1..(Len(R) + Len(S)) :
             T[i] = IF i <= Len(R) THEN R[i] ELSE S[i - Len(R)]
    BY <1>a, <1>b, ConcatProperties, Zenon
  <2>2. Len(R) + Len(S) = 35  BY <1>a
  <2> QED  BY <1>a, <2>1, <2>2, Zenon
<1>2. DOMAIN T = 1..35  BY <1>1, LenProperties
<1>3. \A i \in 1..23 : i \in 1..35 /\ i <= 23  OBVIOUS
<1>4. \A i \in 1..35 : i \in 1..23 \/ (~(i <= 23) /\ i - 23 \in 1..12)  OBVIOUS
<1>5. \A i \in 1..23 : T[i] = R[i]  BY <1>1, <1>3, Zenon
<1>6. \A i \in 1..35 : RowFits(T[i])  BY <1>1, <1>4, <1>5, <1>c, Zenon
<1>7. 24 \in 1..35 /\ ~(24 <= 23) /\ 24 - 23 = 1  OBVIOUS
<1>8. T[24] = S[1]  BY <1>1, <1>7, Zenon
<1> QED  BY <1>2, <1>5, <1>6, <1>8, Zenon DEF R, S, T

\* The least member of a set of numbers is one of them.
LEMMA LeastNumber == ASSUME NEW S, S \subseteq Nat, S # {}
                     PROVE  Min(S) \in S
<1>1. \E x \in S : \A y \in S : ~ (<<y, x>> \in OpToRel(<, Nat))
  BY WFMin, NatLessThanWellFounded
<1>2. PICK x \in S : \A y \in S : ~ (<<y, x>> \in OpToRel(<, Nat))  BY <1>1
<1>3. ASSUME NEW y \in S PROVE x =< y
  <2>1. x \in Nat /\ y \in Nat  OBVIOUS
  <2>2. y < x => <<y, x>> \in OpToRel(<, Nat)  BY <2>1 DEF OpToRel
  <2>3. ~ (y < x)  BY <1>2, <2>2, Zenon
  <2> QED  BY <2>1, <2>3
<1> QED  BY <1>3 DEF Min

\* An event leads where a row for it leads, or stays where there is none.
LEMMA TargetRow ==
  ASSUME NEW s, NEW e, ~IsOverride(e)
  PROVE  \/ /\ Target(TransitionTable, s, e) = s
            /\ \A i \in 1..35 : ~ (TransitionTable[i].from = s /\ TransitionTable[i].on = e)
         \/ \E i \in 1..35 : /\ TransitionTable[i].from = s /\ TransitionTable[i].on = e
                             /\ Target(TransitionTable, s, e) = TransitionTable[i].to
<1> DEFINE M == {i \in RowsOf(TransitionTable, e) : TransitionTable[i].from = s}
<1>1. M = {i \in 1..35 : TransitionTable[i].on = e /\ TransitionTable[i].from = s}
  BY TableRowsFit DEF RowsOf
<1>2. M # {} => Target(TransitionTable, s, e) = TransitionTable[Min(M)].to  BY DEF Target
<1>3. M = {} => Target(TransitionTable, s, e) = s  BY DEF Target
<1>4. M \subseteq Nat  BY <1>1
<1>5. M # {} => Min(M) \in M  BY <1>4, LeastNumber
<1> HIDE DEF M
<1>6. CASE M = {}  BY <1>1, <1>3, <1>6
<1>7. CASE M # {}  BY <1>1, <1>2, <1>5, <1>7
<1> QED  BY <1>6, <1>7

\* Where an event leads, in the words of RowFits.
LEMMA Moves ==
  ASSUME NEW s \in State, NEW e, NEW t, t = Target(TransitionTable, s, e)
  PROVE  /\ t \in State
         /\ t = "TEST_RUNNING" /\ s # t => e = "TEST_RUN_OK"
         /\ t = "CURRENT_TEST_CHECK" /\ s # t => e \in {"TEST_TIME_END", "DATA_CAPTURED"}
         /\ t = "CURRENT_TEST_OK" /\ s # t => e = "VALID_DATA"
         /\ s = "CURRENT_TEST_CHECK" /\ e \in {"TEST_FAILED", "VALID_DATA"} => t # s
         /\ s = "CURRENT_TEST_OK" /\ e \in {"TEST_FAILED", "SAVE"} => t # s
         /\ s = "TEST_RUNNING" /\ e = "TEST_TIME_END" => t # s
<1>1. CASE IsOverride(e)
  <2>1. t = Override[e]  BY <1>1 DEF Target
  <2> QED  BY <1>1, <2>1 DEF IsOverride, Override, State
<1>2. CASE ~IsOverride(e)
  <2>1. CASE \E i \in 1..35 : /\ TransitionTable[i].from = s /\ TransitionTable[i].on = e
                              /\ t = TransitionTable[i].to
    BY <2>1, TableRowsFit DEF RowFits
  <2>2. CASE /\ t = s
             /\ \A i \in 1..35 : ~ (TransitionTable[i].from = s /\ TransitionTable[i].on = e)
    BY <2>2, RegularRows, SpecialRows, TableRowsFit
  <2> QED  BY <1>2, <2>1, <2>2, TargetRow
<1> QED  BY <1>1, <1>2

-------------------------------------------------------------------------------
(* Types.                                                                  *)

Commands == {"AUTO", "MANUAL", "START", "STOP", "PAUSE"}

\* What userCommandTask has before it: a mode is set for AUTO and MANUAL only.
Step == {r \in [do : {"setMode", "startObserver", "stopObserver", "managerActive",
                      "managerWait", "report", "userStop", "startFirst", "disable",
                      "stopFirst", "clear"},
                for : Commands] : r.do = "setMode" => r.for \in Mode}

CommandTypes ==
  /\ mode \in Mode /\ commandBits \subseteq Commands
  /\ session \in Sessions /\ given \in 0..Len(session.commands)
  /\ script \in Seq(Step)

Wanted == [type : Types, load : Loads]

ListTypes ==
  /\ accepted \in Seq(Wanted) /\ Len(accepted) <= Len(session.wanted)
  /\ \A i \in 1..Len(accepted) : accepted[i] = session.wanted[i]
  /\ newTest \in BOOLEAN /\ update \in {"wait", "report", "clear"}
  /\ observing \in BOOLEAN /\ active \in BOOLEAN /\ currentTest \in Nat \ {0}

ListedTest == [type : Types, load : Loads, done : BOOLEAN]

\* Away from its waiting and its way through the list, the manager is at an entry.
ManagerTypes ==
  /\ listed \in Seq(ListedTest)
  /\ notified \in 0..Len(listed)
  /\ manager \in [at : {"wait", "visit", "request", "disable", "mark", "save"},
                  seen : State, i : 1..(Len(listed) + 1), last : 0..Len(listed)]
  /\ manager.at \notin {"wait", "visit"} => manager.i <= Len(listed)

TaskType == [at : {"wait", "run", "check", "process"},
             load : Loads \union {"initial"},
             outcome : {"valid", "invalid", "missed"},
             ongoing : BOOLEAN, captured : BOOLEAN, valid : BOOLEAN,
             result : {"PENDING", "SUCCESSFUL", "FAILED"}, send : BOOLEAN]

TaskTypes ==
  /\ testBits \subseteq Types \union {"TunePWMTest"}
  /\ params \in Seq(Loads) /\ Len(params) <= QueueLength
  /\ data \in [Types -> Seq(Loads \union {"initial"})]
  /\ \A t \in Types : Len(data[t]) <= QueueLength
  /\ task \in [Types -> TaskType]

\* The flag, up, is an enabling that neither of the two callers of startTest has used
\* yet, except one who stands between looking at it and lowering it.
StartsInv ==
  /\ enabled \in BOOLEAN /\ serves \in Nat /\ starts \in [{"user", "manager"} -> Nat]
  /\ starts["user"] <= serves
  /\ starts["manager"] <= serves
  /\ enabled /\ ~Now("disable") => starts["user"] < serves
  /\ enabled /\ manager.at # "disable" => starts["manager"] < serves

TypeInv == /\ state \in State /\ CommandTypes /\ ListTypes /\ ManagerTypes /\ TaskTypes
           /\ StartsInv

LEMMA CommandNames == DOMAIN Script = Commands /\ DOMAIN Opposite = Commands
BY DEF Script, Opposite, Commands

LEMMA Bounds ==
  /\ QueueLength \in Nat \ {0}
  /\ \A w \in Sessions : w.wanted \in Seq(Wanted) /\ Len(w.commands) \in Nat
<1>1. ASSUME NEW w \in Sessions PROVE w.wanted \in Seq(Wanted) /\ Len(w.commands) \in Nat
  <2>1. w.wanted \in Seq(Wanted)  BY SessionsAssumption, Zenon DEF Wanted
  <2>2. w.commands \in Seq(SUBSET Commands)  BY SessionsAssumption, Zenon DEF Commands
  <2>3. Len(w.commands) \in Nat  BY <2>2, LenProperties, Zenon
  <2> QED  BY <2>1, <2>3
<1> QED  BY <1>1, BoundsAssumption

LEMMA TypesAreRight == TypeInv => TypeOK
<1> SUFFICES ASSUME TypeInv PROVE TypeOK  OBVIOUS
<1>1. /\ state \in State /\ mode \in Mode /\ commandBits \subseteq DOMAIN Opposite
      /\ session \in Sessions /\ given \in 0..Len(session.commands)
  BY CommandNames DEF TypeInv, CommandTypes
<1>2. \A k \in DOMAIN script : script[k].for \in DOMAIN Script
  BY CommandNames DEF TypeInv, CommandTypes, Step
<1>3. accepted = SubSeq(session.wanted, 1, Len(accepted))
  <2>1. /\ accepted \in Seq(Wanted) /\ session.wanted \in Seq(Wanted)
        /\ Len(accepted) \in Nat /\ Len(accepted) <= Len(session.wanted)
    BY Bounds DEF TypeInv, CommandTypes, ListTypes
  <2> DEFINE n == Len(accepted)
             w == session.wanted
  <2>2. \A i \in 1..n : accepted[i] = w[i]  BY DEF TypeInv, ListTypes
  <2>3. accepted = [i \in 1..n |-> accepted[i]]  BY <2>1
  <2>4. SubSeq(w, 1, n) = [i \in 1..n |-> w[i]]  BY <2>1
  <2> QED  BY <2>2, <2>3, <2>4
<1>4. /\ newTest \in BOOLEAN /\ update \in {"wait", "report", "clear"}
      /\ enabled \in BOOLEAN /\ observing \in BOOLEAN /\ active \in BOOLEAN
      /\ currentTest \in Nat \ {0}
  BY DEF TypeInv, ListTypes, StartsInv
<1>5. /\ listed \in Seq([type : Types, load : Loads, done : BOOLEAN])
      /\ notified \in 0..Len(listed)
      /\ manager \in [at : {"wait", "visit", "request", "disable", "mark", "save"},
                      seen : State, i : 1..(Len(listed) + 1), last : 0..Len(listed)]
  BY DEF TypeInv, ManagerTypes, ListedTest
<1>6. /\ testBits \subseteq Types \union {"TunePWMTest"}
      /\ params \in Seq(Loads) /\ Len(params) <= QueueLength
      /\ \A t \in Types : data[t] \in Seq(Loads \union {"initial"}) /\ Len(data[t]) <= QueueLength
      /\ task \in [Types -> TaskType]
      /\ serves \in Nat /\ starts \in [{"user", "manager"} -> Nat]
  BY DEF TypeInv, TaskTypes, StartsInv
<1> QED  BY <1>1, <1>2, <1>3, <1>4, <1>5, <1>6, Zenon DEF TypeOK, TaskType

LEMMA InitTypes == Init => TypeInv
<1> SUFFICES ASSUME Init PROVE TypeInv  OBVIOUS
<1>1. state \in State  BY DEF Init, State
<1>2. CommandTypes
  <2>1. Len(session.commands) \in Nat  BY Bounds DEF Init
  <2>2. 0 \in 0..Len(session.commands)  BY <2>1
  <2> QED  BY <2>2 DEF Init, CommandTypes, Mode
<1>3. ListTypes
  <2>1. Len(session.wanted) \in Nat  BY Bounds DEF Init
  <2>2. accepted = <<>>  BY DEF Init
  <2>3. accepted \in Seq(Wanted) /\ Len(accepted) = 0  BY <2>2
  <2>4. Len(accepted) <= Len(session.wanted) /\ \A i \in 1..Len(accepted) : FALSE
    BY <2>1, <2>3
  <2>5. /\ newTest \in BOOLEAN /\ update \in {"wait", "report", "clear"}
        /\ observing \in BOOLEAN /\ active \in BOOLEAN
    BY Zenon DEF Init
  <2>6. currentTest \in Nat \ {0}  BY DEF Init
  <2>7. \A i \in 1..Len(accepted) : accepted[i] = session.wanted[i]  BY <2>4, Zenon
  <2> QED  BY <2>3, <2>4, <2>5, <2>6, <2>7, Zenon DEF ListTypes
<1>4. ManagerTypes
  <2>1. listed = <<>> /\ Len(listed) = 0  BY DEF Init
  <2>2. 1 \in 1..(Len(listed) + 1) /\ 0 \in 0..Len(listed)  BY <2>1
  <2> QED  BY <1>1, <2>1, <2>2 DEF Init, ManagerTypes
<1>5. TaskTypes
  <2>1. NewTask \in TaskType  BY DEF NewTask, TaskType
  <2>2. QueueLength \in Nat  BY Bounds
  <2> QED  BY <2>1, <2>2 DEF Init, TaskTypes
<1>6. StartsInv
  <2>1. starts = [user |-> 0, manager |-> 0] /\ serves = 0 /\ enabled = FALSE  BY DEF Init
  <2>2. starts \in [{"user", "manager"} -> Nat] /\ starts["user"] = 0 /\ starts["manager"] = 0
    BY <2>1
  <2>3. ~enabled /\ enabled \in BOOLEAN  BY <2>1, Zenon
  <2>4. serves \in Nat /\ 0 <= serves  BY <2>1
  <2> QED  BY <2>2, <2>3, <2>4, Zenon DEF StartsInv
<1> QED  BY <1>1, <1>2, <1>3, <1>4, <1>5, <1>6 DEF TypeInv

\* Every step reports an event or leaves the state alone.
LEMMA StateMoves == Next => state' = state \/ \E e : Report(e)
<1>1. Accept \/ (\E c \in DOMAIN Opposite : HandleUserCommand(c)) \/ TestSyncTask
        => state' = state
  BY DEF Accept, HandleUserCommand, TestSyncTask
<1>2. UserCommandTask => state' = state \/ \E e : Report(e)
  BY Zenon DEF UserCommandTask, TakeCommand, SetMode, SetObserver, SetManager, ReportCommand,
         UserStop, StartFirst, DisableFirst, StopFirst, ClearCommand
<1>3. UserUpdateTask => state' = state \/ \E e : Report(e)
  BY Zenon DEF UserUpdateTask, TransferTest, ReportNewTest, ClearNewTest
<1>4. TestManagerTask => state' = state \/ \E e : Report(e)
  BY Zenon DEF TestManagerTask, BeginPass, PassBy, ConfigureTest, RequestStartTest,
         DisableCurrentTest, ReceiveData, MarkAsDone, Save, ReceiveTimeout, PendingTestFound,
         EndPass
<1>5. \A t \in Types : TestTask(t) => state' = state \/ \E e : Report(e)
  BY Zenon DEF TestTask, BeginRun, EndRun, CheckRun, ProcessRun, SendData
<1> QED  BY <1>1, <1>2, <1>3, <1>4, <1>5, Zenon DEF Next

LEMMA StateKeepsType == TypeInv /\ Next => state' \in State
<1>1. state \in State /\ (\E e : Report(e)) => state' \in State  BY Moves DEF Report
<1> QED  BY <1>1, StateMoves DEF TypeInv

LEMMA Scripts ==
  \A k \in 1..5 : \E n \in Nat :
    /\ DOMAIN Script[Precedence[k]] = 1..n
    /\ \A j \in 1..n : [do |-> Script[Precedence[k]][j], for |-> Precedence[k]] \in Step
<1>1. Script["AUTO"] = <<"setMode", "startObserver", "clear">>
  BY DEF Script
<1>2. Script["MANUAL"] = <<"setMode", "stopObserver", "clear">>
  BY DEF Script
<1>3. Script["START"] = <<"report", "managerActive", "startFirst", "clear">>
  BY DEF Script
<1>4. Script["STOP"] = <<"userStop", "stopObserver", "report", "stopFirst", "clear">>
  BY DEF Script
<1>5. Script["PAUSE"] = <<"userStop", "stopObserver", "managerWait">>
  BY DEF Script
<1> DEFINE Fits(c, n) == /\ DOMAIN Script[c] = 1..n
                         /\ \A j \in 1..n : [do |-> Script[c][j], for |-> c] \in Step
<1>6. Fits("AUTO", 3)  BY <1>1 DEF Step, Commands, Mode
<1>7. Fits("MANUAL", 3)  BY <1>2 DEF Step, Commands, Mode
<1>8. Fits("START", 4)  BY <1>3 DEF Step, Commands, Mode
<1>9. Fits("STOP", 5)  BY <1>4 DEF Step, Commands, Mode
<1>10. Fits("PAUSE", 3)  BY <1>5 DEF Step, Commands, Mode
<1> HIDE DEF Fits
<1>11. \A k \in 1..5 : Precedence[k] \in {"AUTO", "MANUAL", "START", "STOP", "PAUSE"}
  BY DEF Precedence
<1>12. \A k \in 1..5 : \E n \in Nat : Fits(Precedence[k], n)
  BY <1>6, <1>7, <1>8, <1>9, <1>10, <1>11
<1> QED  BY <1>12 DEF Fits

LEMMA CommandsKeepTypes == TypeInv /\ Next => CommandTypes'
<1> SUFFICES ASSUME TypeInv, Next PROVE CommandTypes'  OBVIOUS
<1>a. /\ mode \in Mode /\ commandBits \subseteq Commands
      /\ session \in Sessions /\ given \in 0..Len(session.commands)
      /\ script \in Seq(Step) /\ Len(session.commands) \in Nat
  BY Bounds DEF TypeInv, CommandTypes
<1>1. CASE Accept \/ UserUpdateTask \/ TestSyncTask
  <2>1. UNCHANGED <<mode, commandBits, session, given, script>>
    BY <1>1 DEF Accept, UserUpdateTask, TransferTest, ReportNewTest, ClearNewTest,
                TestSyncTask, user
  <2> QED  BY <1>a, <2>1 DEF CommandTypes
<1>2. CASE TestManagerTask
  <2>1. UNCHANGED <<mode, commandBits, session, given, script>>
    BY <1>2 DEF TestManagerTask, BeginPass, PassBy, ConfigureTest, RequestStartTest,
         DisableCurrentTest, ReceiveData, MarkAsDone, Save, ReceiveTimeout, PendingTestFound,
         EndPass, user, sync
  <2> QED  BY <1>a, <2>1 DEF CommandTypes
<1>3. ASSUME NEW t \in Types, TestTask(t) PROVE CommandTypes'
  <2>1. UNCHANGED <<mode, commandBits, session, given, script>>
    BY <1>3 DEF TestTask, BeginRun, EndRun, CheckRun, ProcessRun, SendData, user, sync
  <2> QED  BY <1>a, <2>1 DEF CommandTypes
<1>4. ASSUME NEW c \in DOMAIN Opposite, HandleUserCommand(c) PROVE CommandTypes'
  <2>1. /\ commandBits' \subseteq Commands /\ given' \in 0..Len(session.commands)
        /\ UNCHANGED <<mode, session, script>>
    BY <1>a, <1>4, CommandNames DEF HandleUserCommand, sync
  <2> QED  BY <1>a, <2>1 DEF CommandTypes
<1>5. CASE TakeCommand
  <2>1. PICK k \in 1..5 : script' = [s \in DOMAIN Script[Precedence[k]] |->
                                      [do |-> Script[Precedence[k]][s], for |-> Precedence[k]]]
    BY <1>5 DEF TakeCommand, Precedence
  <2>2. script' \in Seq(Step)
    <3> DEFINE c == Precedence[k]
    <3>1. PICK n \in Nat : /\ DOMAIN Script[c] = 1..n
                           /\ \A j \in 1..n : [do |-> Script[c][j], for |-> c] \in Step
      BY Scripts
    <3>2. script' = [j \in 1..n |-> [do |-> Script[c][j], for |-> c]]  BY <2>1, <3>1
    <3>3. script' \in [1..n -> Step]  BY <3>1, <3>2
    <3> QED  BY <3>3, FunctionIsSequence
  <2>3. UNCHANGED <<mode, commandBits, session, given>>  BY <1>5 DEF TakeCommand, user
  <2> QED  BY <1>a, <2>2, <2>3 DEF CommandTypes
<1>6. CASE SetMode \/ SetObserver \/ SetManager \/ ReportCommand \/ UserStop \/ StartFirst
           \/ DisableFirst \/ StopFirst \/ ClearCommand
  <2>1. script # <<>>
    BY <1>6 DEF SetMode, SetObserver, SetManager, ReportCommand, UserStop, StartFirst,
                DisableFirst, StopFirst, ClearCommand, Now
  <2>2. Tail(script) \in Seq(Step) /\ Head(script) \in Step  BY <1>a, <2>1
  <2>3. script' \in Seq(Step)
    <3>1. CASE script' = Tail(script)  BY <2>2, <3>1
    <3>2. CASE script' = <<[do |-> "disable", for |-> "START"]>> \o Tail(script)
      <4>1. [do |-> "disable", for |-> "START"] \in Step  BY DEF Step, Commands
      <4>2. <<[do |-> "disable", for |-> "START"]>> \in Seq(Step)  BY <4>1
      <4> QED  BY <2>2, <3>2, <4>2, ConcatProperties, Zenon
    <3> QED
      BY <1>6, <3>1, <3>2 DEF SetMode, SetObserver, SetManager, ReportCommand, UserStop,
           StartFirst, DisableFirst, StopFirst, ClearCommand
  <2>4. mode' \in Mode
    BY <1>a, <1>6, <2>2 DEF SetMode, SetObserver, SetManager, ReportCommand, UserStop,
         StartFirst, DisableFirst, StopFirst, ClearCommand, Now, Command, Step
  <2>5. commandBits' \subseteq Commands /\ UNCHANGED <<session, given>>
    BY <1>a, <1>6 DEF SetMode, SetObserver, SetManager, ReportCommand, UserStop,
         StartFirst, DisableFirst, StopFirst, ClearCommand, user
  <2> QED  BY <1>a, <2>3, <2>4, <2>5 DEF CommandTypes
<1> QED  BY <1>1, <1>2, <1>3, <1>4, <1>5, <1>6 DEF Next, UserCommandTask

LEMMA ListsKeepTypes == TypeInv /\ Next => ListTypes'
<1> SUFFICES ASSUME TypeInv, Next PROVE ListTypes'  OBVIOUS
<1>a. /\ accepted \in Seq(Wanted) /\ Len(accepted) \in Nat
      /\ session.wanted \in Seq(Wanted) /\ Len(session.wanted) \in Nat
      /\ Len(accepted) <= Len(session.wanted)
      /\ \A i \in 1..Len(accepted) : accepted[i] = session.wanted[i]
      /\ newTest \in BOOLEAN /\ update \in {"wait", "report", "clear"}
      /\ observing \in BOOLEAN /\ active \in BOOLEAN /\ currentTest \in Nat \ {0}
  <2>1. accepted \in Seq(Wanted) /\ session.wanted \in Seq(Wanted)
    BY Bounds DEF TypeInv, CommandTypes, ListTypes
  <2>2. Len(accepted) \in Nat /\ Len(session.wanted) \in Nat  BY <2>1, LenProperties
  <2> QED  BY <2>1, <2>2 DEF TypeInv, ListTypes
<1>1. CASE Accept
  <2> DEFINE n == Len(accepted)
  <2>1. /\ n < Len(session.wanted) /\ accepted' = Append(accepted, session.wanted[n + 1])
        /\ UNCHANGED <<session, update, observing, active, currentTest>>
        /\ newTest' = TRUE
    BY <1>1 DEF Accept, user
  <2>2. n + 1 \in 1..Len(session.wanted)  BY <1>a, <2>1
  <2>3. session.wanted[n + 1] \in Wanted  BY <1>a, <2>2, LenProperties
  <2>4. /\ accepted' \in Seq(Wanted) /\ Len(accepted') = n + 1
        /\ \A i \in 1..n : accepted'[i] = accepted[i]
        /\ accepted'[n + 1] = session.wanted[n + 1]
    BY <1>a, <2>1, <2>3, AppendProperties
  <2>5. \A i \in 1..(n + 1) : accepted'[i] = session.wanted[i]
    <3>1. \A i \in 1..(n + 1) : i \in 1..n \/ i = n + 1  BY <1>a
    <3> QED  BY <1>a, <2>4, <3>1
  <2>6. n + 1 <= Len(session.wanted)  BY <2>2, <1>a
  <2> QED  BY <1>a, <2>1, <2>4, <2>5, <2>6 DEF ListTypes
<1>2. ASSUME UNCHANGED <<accepted, session>>,
             newTest' \in BOOLEAN, update' \in {"wait", "report", "clear"},
             observing' \in BOOLEAN, active' \in BOOLEAN, currentTest' \in Nat \ {0}
      PROVE  ListTypes'
  BY <1>a, <1>2 DEF ListTypes
<1>3. CASE UserUpdateTask
  <2>1. /\ UNCHANGED <<accepted, session, observing, active, currentTest>>
        /\ newTest' \in BOOLEAN /\ update' \in {"wait", "report", "clear"}
    BY <1>a, <1>3 DEF UserUpdateTask, TransferTest, ReportNewTest, ClearNewTest, user
  <2> QED  BY <1>a, <1>2, <2>1
<1>4. CASE TestSyncTask
  <2>1. notified \in Nat  BY DEF TypeInv, ManagerTypes
  <2>2. /\ UNCHANGED <<accepted, session, observing, active, newTest, update>>
        /\ currentTest' \in Nat \ {0}
    BY <1>4, <2>1 DEF TestSyncTask, user
  <2> QED  BY <1>a, <1>2, <2>2
<1>5. CASE RequestStartTest
  <2>1. manager.i \in Nat \ {0}  BY DEF TypeInv, ManagerTypes
  <2>2. /\ UNCHANGED <<accepted, session, observing, active, newTest, update>>
        /\ currentTest' = IF IndexFits THEN manager.i ELSE currentTest
    BY <1>5 DEF RequestStartTest, user
  <2> QED  BY <1>a, <1>2, <2>1, <2>2
<1>6. CASE TestManagerTask /\ ~RequestStartTest
  <2>1. UNCHANGED <<accepted, session, observing, active, newTest, update, currentTest>>
    BY <1>6 DEF TestManagerTask, BeginPass, PassBy, ConfigureTest, DisableCurrentTest,
         ReceiveData, MarkAsDone, Save, ReceiveTimeout, PendingTestFound, EndPass, user, sync
  <2> QED  BY <1>a, <1>2, <2>1
<1>7. ASSUME (\E c \in DOMAIN Opposite : HandleUserCommand(c)) \/ (\E t \in Types : TestTask(t))
      PROVE ListTypes'
  <2>1. UNCHANGED <<accepted, session, observing, active, newTest, update, currentTest>>
    BY <1>7 DEF HandleUserCommand, TestTask, BeginRun, EndRun, CheckRun, ProcessRun, SendData,
                user, sync
  <2> QED  BY <1>a, <1>2, <2>1
<1>8. CASE UserCommandTask
  <2>1. UNCHANGED <<accepted, session, newTest, update, currentTest>>
    BY <1>8 DEF UserCommandTask, TakeCommand, SetMode, SetObserver, SetManager, ReportCommand,
         UserStop, StartFirst, DisableFirst, StopFirst, ClearCommand, user
  <2>2. observing' \in BOOLEAN /\ active' \in BOOLEAN
    BY <1>a, <1>8 DEF UserCommandTask, TakeCommand, SetMode, SetObserver, SetManager,
         ReportCommand, UserStop, StartFirst, DisableFirst, StopFirst, ClearCommand, Now
  <2> QED  BY <1>a, <1>2, <2>1, <2>2
<1> QED  BY <1>1, <1>3, <1>4, <1>5, <1>6, <1>7, <1>8 DEF Next

ManagerType(n) == [at : {"wait", "visit", "request", "disable", "mark", "save"},
                   seen : State, i : 1..(n + 1), last : 0..n]

LEMMA ManagersKeepTypes == TypeInv /\ Next => ManagerTypes'
<1> SUFFICES ASSUME TypeInv, Next PROVE ManagerTypes'  OBVIOUS
<1> DEFINE n == Len(listed)
<1>a. /\ listed \in Seq(ListedTest) /\ n \in Nat /\ notified \in 0..n
      /\ manager \in ManagerType(n)
      /\ manager.at \notin {"wait", "visit"} => manager.i <= n
      /\ state \in State
  <2>1. listed \in Seq(ListedTest)  BY DEF TypeInv, ManagerTypes
  <2>2. n \in Nat  BY <2>1, LenProperties
  <2> QED  BY <2>1, <2>2 DEF TypeInv, ManagerTypes, ManagerType
<1>1. ASSUME UNCHANGED listed, notified' \in 0..n, manager' \in ManagerType(n),
             manager'.at \notin {"wait", "visit"} => manager'.i <= n
      PROVE  ManagerTypes'
  BY <1>a, <1>1 DEF ManagerTypes, ManagerType
<1>2. CASE BeginPass
  <2>1. /\ manager' = [at |-> "visit", seen |-> state, i |-> 1, last |-> 0]
        /\ UNCHANGED <<listed, notified>>
    BY <1>2 DEF BeginPass
  <2>2. 1 \in 1..(n + 1) /\ 0 \in 0..n  BY <1>a
  <2>3. manager' \in ManagerType(n) /\ manager'.at = "visit"
    BY <1>a, <2>1, <2>2 DEF ManagerType
  <2> QED  BY <1>a, <1>1, <2>1, <2>3
<1>3. CASE PassBy \/ PendingTestFound
  <2>1. /\ manager.at = "visit" /\ manager.i <= n /\ UNCHANGED <<listed, notified>>
        /\ \E l \in {manager.last, manager.i} : manager' = [manager EXCEPT !.i = @ + 1, !.last = l]
    BY <1>3 DEF PassBy, PendingTestFound, Handles, Visiting
  <2>2. manager.i + 1 \in 1..(n + 1) /\ manager.i \in 0..n /\ manager.last \in 0..n
    BY <1>a, <2>1 DEF ManagerType
  <2>3. manager' \in ManagerType(n) /\ manager'.at = "visit"
    BY <1>a, <2>1, <2>2 DEF ManagerType
  <2> QED  BY <1>a, <1>1, <2>1, <2>3
<1>4. CASE ConfigureTest \/ ReceiveData \/ ReceiveTimeout
  <2>1. /\ manager.i <= n /\ UNCHANGED <<listed, notified>>
        /\ \E at \in {"request", "mark"} :
             manager' = [manager EXCEPT !.at = at, !.last = manager.i]
    BY <1>4 DEF ConfigureTest, ReceiveData, ReceiveTimeout, Handles, Visiting, GoTo
  <2>2. manager.i \in 0..n  BY <1>a, <2>1 DEF ManagerType
  <2>3. manager' \in ManagerType(n) /\ manager'.i = manager.i
    BY <1>a, <2>1, <2>2 DEF ManagerType
  <2> QED  BY <1>a, <1>1, <2>1, <2>3
<1>5. CASE RequestStartTest \/ DisableCurrentTest \/ Save
  <2>1. /\ manager.at \notin {"wait", "visit"} /\ UNCHANGED <<listed, notified>>
        /\ \/ manager' = [manager EXCEPT !.at = "disable"]
           \/ manager' = [manager EXCEPT !.at = "visit", !.i = @ + 1]
    BY <1>5 DEF RequestStartTest, DisableCurrentTest, Save, NextEntry
  <2>2. manager.i <= n /\ manager.i + 1 \in 1..(n + 1)  BY <1>a, <2>1 DEF ManagerType
  <2>3. /\ manager' \in ManagerType(n)
        /\ manager'.at \notin {"wait", "visit"} => manager'.i <= n
    BY <1>a, <2>1, <2>2 DEF ManagerType
  <2> QED  BY <1>a, <1>1, <2>1, <2>3
<1>6. CASE MarkAsDone
  <2>1. /\ listed' = [listed EXCEPT ![manager.i].done = TRUE] /\ manager.at = "mark"
        /\ manager' = [manager EXCEPT !.at = "save"] /\ UNCHANGED notified
    BY <1>6 DEF MarkAsDone
  <2>2. manager.i \in 1..n  BY <1>a, <2>1 DEF ManagerType
  <2>3. listed \in [1..n -> ListedTest]  BY <1>a, LenProperties
  <2>4. listed' \in [1..n -> ListedTest]  BY <2>1, <2>2, <2>3 DEF ListedTest
  <2>5. listed' \in Seq(ListedTest) /\ Len(listed') = n
    <3>1. listed' \in Seq(ListedTest)  BY <1>a, <2>4, FunctionIsSequence
    <3>2. DOMAIN listed' = 1..n /\ DOMAIN listed' = 1..Len(listed') /\ Len(listed') \in Nat
      BY <2>4, <3>1, LenProperties
    <3> QED  BY <1>a, <3>1, <3>2
  <2>6. manager' \in ManagerType(n) /\ manager'.i <= n
    BY <1>a, <2>1, <2>2 DEF ManagerType
  <2> QED  BY <1>a, <2>1, <2>5, <2>6 DEF ManagerTypes, ManagerType
<1>7. CASE EndPass
  <2>1. /\ UNCHANGED listed /\ manager' = [manager EXCEPT !.at = "wait"]
        /\ notified' = IF manager.last = 0 THEN notified ELSE manager.last
    BY <1>7 DEF EndPass
  <2>2. manager' \in ManagerType(n) /\ manager'.at = "wait" /\ manager.last \in 0..n
    BY <1>a, <2>1 DEF ManagerType
  <2> QED  BY <1>a, <1>1, <2>1, <2>2
<1>8. CASE TransferTest
  <2> DEFINE new == [i \in DOMAIN accepted |->
                      [type |-> accepted[i].type, load |-> accepted[i].load, done |-> FALSE]]
             m == Len(accepted)
  <2>1. listed' = listed \o new /\ UNCHANGED <<manager, notified>>  BY <1>8 DEF TransferTest
  <2>2. accepted \in Seq(Wanted)  BY DEF TypeInv, ListTypes
  <2>3. m \in Nat /\ DOMAIN accepted = 1..m /\ \A i \in 1..m : accepted[i] \in Wanted
    BY <2>2, LenProperties
  <2>4. new \in [1..m -> ListedTest]  BY <2>3 DEF Wanted, ListedTest
  <2>5. new \in Seq(ListedTest)  BY <2>3, <2>4, FunctionIsSequence
  <2> HIDE DEF new
  <2>6. listed' \in Seq(ListedTest) /\ Len(listed') = n + Len(new)
    BY <1>a, <2>1, <2>5, ConcatProperties
  <2>7. Len(new) \in Nat  BY <2>5, LenProperties
  <2>8. n <= Len(listed') /\ Len(listed') \in Nat  BY <1>a, <2>6, <2>7
  <2>9. manager' \in ManagerType(Len(listed'))  BY <1>a, <2>1, <2>8 DEF ManagerType
  <2>10. manager'.at \notin {"wait", "visit"} => manager'.i <= Len(listed')
    BY <1>a, <2>1, <2>8 DEF ManagerType
  <2> QED  BY <1>a, <2>1, <2>6, <2>8, <2>9, <2>10 DEF ManagerTypes, ManagerType
<1>9. CASE TestSyncTask
  <2>1. UNCHANGED <<listed, manager>> /\ notified' = 0  BY <1>9 DEF TestSyncTask
  <2> QED  BY <1>a, <1>1, <2>1
<1>10. ASSUME Accept \/ (\E c \in DOMAIN Opposite : HandleUserCommand(c)) \/ UserCommandTask
              \/ ReportNewTest \/ ClearNewTest \/ (\E t \in Types : TestTask(t))
       PROVE  ManagerTypes'
  <2>1. UNCHANGED <<listed, manager, notified>>
    BY <1>10 DEF Accept, HandleUserCommand, UserCommandTask, TakeCommand, SetMode, SetObserver,
         SetManager, ReportCommand, UserStop, StartFirst, DisableFirst, StopFirst, ClearCommand,
         ReportNewTest, ClearNewTest, TestTask, BeginRun, EndRun, CheckRun, ProcessRun, SendData
  <2> QED  BY <1>a, <1>1, <2>1
<1> QED
  BY <1>2, <1>3, <1>4, <1>5, <1>6, <1>7, <1>8, <1>9, <1>10
  DEF Next, TestManagerTask, UserUpdateTask

LEMMA FirstOfQueue == ASSUME NEW X, NEW q \in Seq(X), q # <<>>
                      PROVE  /\ Head(q) \in X /\ Tail(q) \in Seq(X)
                             /\ Len(q) \in Nat /\ Len(Tail(q)) = Len(q) - 1
OBVIOUS

LEMMA SendToFits ==
  ASSUME NEW X, NEW q \in Seq(X), NEW x \in X, Len(q) <= QueueLength
  PROVE  SendTo(q, x) \in Seq(X) /\ Len(SendTo(q, x)) <= QueueLength
<1>1. Len(q) \in Nat /\ QueueLength \in Nat  BY Bounds
<1>2. Append(q, x) \in Seq(X) /\ Len(Append(q, x)) = Len(q) + 1  OBVIOUS
<1> QED  BY <1>1, <1>2 DEF SendTo

LEMMA TaskChanges ==
  ASSUME task \in [Types -> TaskType], NEW t \in Types, NEW r \in TaskType,
         task' = [task EXCEPT ![t] = r]
  PROVE  task' \in [Types -> TaskType]
OBVIOUS

LEMMA TasksKeepTypes == TypeInv /\ Next => TaskTypes'
<1> SUFFICES ASSUME TypeInv, Next PROVE TaskTypes'  OBVIOUS
<1>a. /\ testBits \subseteq Types \union {"TunePWMTest"}
      /\ params \in Seq(Loads) /\ Len(params) <= QueueLength
      /\ data \in [Types -> Seq(Loads \union {"initial"})]
      /\ \A t \in Types : Len(data[t]) <= QueueLength
      /\ task \in [Types -> TaskType] /\ QueueLength \in Nat
  BY Bounds DEF TypeInv, TaskTypes
<1>1. ASSUME UNCHANGED <<params, data, task>>, testBits' \subseteq Types \union {"TunePWMTest"}
      PROVE  TaskTypes'
  BY <1>a, <1>1 DEF TaskTypes
<1>2. CASE UserCommandTask
  <2>1. FirstType \in Types \union {"TunePWMTest"}
    <3>1. accepted \in Seq(Wanted)  BY DEF TypeInv, ListTypes
    <3>2. accepted # <<>> => accepted[1] \in Wanted  BY <3>1
    <3> QED  BY <3>2 DEF FirstType, Wanted
  <2>2. UNCHANGED <<params, data, task>> /\ testBits' \subseteq Types \union {"TunePWMTest"}
    BY <1>a, <1>2, <2>1 DEF UserCommandTask, TakeCommand, SetMode, SetObserver,
         SetManager, ReportCommand, UserStop, StartFirst, DisableFirst, StopFirst, ClearCommand,
         SetTestBit, tests
  <2> QED  BY <1>1, <2>2
<1>3. ASSUME NEW t \in Types, BeginRun(t) PROVE TaskTypes'
  <2>1. params # <<>> => Head(params) \in Loads /\ Tail(params) \in Seq(Loads)
                           /\ Len(Tail(params)) <= QueueLength
    BY <1>a, FirstOfQueue
  <2>2. params' \in Seq(Loads) /\ Len(params') <= QueueLength
    BY <1>a, <1>3, <2>1 DEF BeginRun
  <2>3. PICK l \in Loads \union {"initial"}, v \in BOOLEAN :
          task' = [task EXCEPT ![t].at = "run", ![t].load = l, ![t].ongoing = TRUE, ![t].valid = v]
    <3> DEFINE l == IF params = <<>> THEN task[t].load ELSE Head(params)
               v == IF task[t].ongoing THEN task[t].valid ELSE FALSE
    <3>1. l \in Loads \union {"initial"} /\ v \in BOOLEAN  BY <1>a, <2>1 DEF TaskType
    <3>2. task' = [task EXCEPT ![t].at = "run", ![t].load = l, ![t].ongoing = TRUE,
                               ![t].valid = v]
      BY <1>a, <1>3 DEF BeginRun
    <3> QED  BY <3>1, <3>2
  <2>4. task' \in [Types -> TaskType]
    <3> DEFINE r == [task[t] EXCEPT !.at = "run", !.load = l, !.ongoing = TRUE, !.valid = v]
    <3>1. task[t] \in TaskType  BY <1>a
    <3>2. r \in TaskType  BY <3>1 DEF TaskType
    <3>3. task' = [task EXCEPT ![t] = r]  BY <1>a, <2>3
    <3> HIDE DEF r
    <3> QED  BY <1>a, <3>2, <3>3, TaskChanges
  <2>5. UNCHANGED <<testBits, data>>  BY <1>3 DEF BeginRun
  <2> QED  BY <1>a, <2>2, <2>4, <2>5 DEF TaskTypes
<1>4. ASSUME NEW t \in Types, EndRun(t) \/ CheckRun(t) \/ ProcessRun(t) PROVE TaskTypes'
  <2>1. UNCHANGED <<testBits, params, data>>  BY <1>4 DEF EndRun, CheckRun, ProcessRun
  <2>2. CASE EndRun(t)
    <3>1. PICK o \in Outcomes : task' = [task EXCEPT ![t].at = "check", ![t].outcome = o,
                                                     ![t].ongoing = FALSE]
      BY <2>2 DEF EndRun
    <3>2. o \in {"valid", "invalid", "missed"}  BY BoundsAssumption
    <3>3. task' \in [Types -> TaskType]
      <4> DEFINE r == [task[t] EXCEPT !.at = "check", !.outcome = o, !.ongoing = FALSE]
      <4>1. task[t] \in TaskType  BY <1>a
      <4>2. r \in TaskType  BY <4>1, <3>2 DEF TaskType
      <4>3. task' = [task EXCEPT ![t] = r]  BY <1>a, <3>1
      <4> HIDE DEF r
      <4> QED  BY <1>a, <4>2, <4>3, TaskChanges
    <3> QED  BY <1>a, <2>1, <3>3 DEF TaskTypes
  <2>3. CASE CheckRun(t)
    <3>1. task' \in [Types -> TaskType]
      <4> DEFINE r == [task[t] EXCEPT
             !.at = IF task[t].outcome = "missed" THEN "wait" ELSE "process",
             !.result = IF task[t].outcome = "missed" THEN "FAILED" ELSE @,
             !.captured = IF task[t].outcome = "missed" THEN @ ELSE TRUE]
      <4>1. task[t] \in TaskType  BY <1>a
      <4>2. r \in TaskType  BY <4>1 DEF TaskType
      <4>3. task' = [task EXCEPT ![t] = r]  BY <1>a, <2>3 DEF CheckRun
      <4> HIDE DEF r
      <4> QED  BY <1>a, <4>2, <4>3, TaskChanges
    <3> QED  BY <1>a, <2>1, <3>1 DEF TaskTypes
  <2>4. CASE ProcessRun(t)
    <3>1. \/ \E c \in BOOLEAN : task' = [task EXCEPT ![t].at = "wait", ![t].result = "SUCCESSFUL",
                                                     ![t].captured = c, ![t].valid = TRUE]
          \/ task' = [task EXCEPT ![t].at = "wait", ![t].result = "FAILED"]
      <4>1. task[t].captured \in BOOLEAN  BY <1>a DEF TaskType
      <4> QED  BY <1>a, <2>4, <4>1 DEF ProcessRun
    <3>2. \E r \in TaskType : task' = [task EXCEPT ![t] = r]
      <4>1. task[t] \in TaskType  BY <1>a
      <4>2. CASE task' = [task EXCEPT ![t].at = "wait", ![t].result = "FAILED"]
        <5> DEFINE r == [task[t] EXCEPT !.at = "wait", !.result = "FAILED"]
        <5>1. r \in TaskType  BY <4>1 DEF TaskType
        <5>2. task' = [task EXCEPT ![t] = r]  BY <1>a, <4>2
        <5> QED  BY <5>1, <5>2
      <4>3. ASSUME NEW c \in BOOLEAN,
                   task' = [task EXCEPT ![t].at = "wait", ![t].result = "SUCCESSFUL",
                                        ![t].captured = c, ![t].valid = TRUE]
            PROVE  \E r \in TaskType : task' = [task EXCEPT ![t] = r]
        <5> DEFINE r == [task[t] EXCEPT !.at = "wait", !.result = "SUCCESSFUL",
                                        !.captured = c, !.valid = TRUE]
        <5>1. r \in TaskType  BY <4>1 DEF TaskType
        <5>2. task' = [task EXCEPT ![t] = r]  BY <1>a, <4>3
        <5> QED  BY <5>1, <5>2
      <4> QED  BY <3>1, <4>2, <4>3
    <3>3. task' \in [Types -> TaskType]  BY <1>a, <3>2, TaskChanges
    <3> QED  BY <1>a, <2>1, <3>3 DEF TaskTypes
  <2> QED  BY <1>4, <2>2, <2>3, <2>4
<1>5. ASSUME NEW t \in Types, SendData(t) PROVE TaskTypes'
  <2>1. /\ task[t].load \in Loads \union {"initial"}
        /\ task[t].result \in {"PENDING", "SUCCESSFUL", "FAILED"}
    BY <1>a DEF TaskType
  <2>2. /\ SendTo(data[t], task[t].load) \in Seq(Loads \union {"initial"})
        /\ Len(SendTo(data[t], task[t].load)) <= QueueLength
    BY <1>a, <2>1, SendToFits
  <2>3. /\ data' = [data EXCEPT ![t] = SendTo(data[t], task[t].load)]
        /\ UNCHANGED <<testBits, params>>
    BY <1>5 DEF SendData
  <2>4. PICK x \in {"PENDING", "SUCCESSFUL", "FAILED"} :
          task' = [task EXCEPT ![t].send = TRUE, ![t].result = x]
    <3> DEFINE x == IF Len(data[t]) < QueueLength THEN "PENDING" ELSE task[t].result
    <3>1. x \in {"PENDING", "SUCCESSFUL", "FAILED"}  BY <2>1
    <3>2. task' = [task EXCEPT ![t].send = TRUE, ![t].result = x]  BY <1>a, <1>5 DEF SendData
    <3> QED  BY <3>1, <3>2
  <2>5. task' \in [Types -> TaskType]
    <3> DEFINE r == [task[t] EXCEPT !.send = TRUE, !.result = x]
    <3>1. task[t] \in TaskType  BY <1>a
    <3>2. r \in TaskType  BY <3>1 DEF TaskType
    <3>3. task' = [task EXCEPT ![t] = r]  BY <1>a, <2>4
    <3> HIDE DEF r
    <3> QED  BY <1>a, <3>2, <3>3, TaskChanges
  <2> QED  BY <1>a, <2>2, <2>3, <2>5 DEF TaskTypes
<1>b. Visiting \/ manager.at \in {"request", "mark"} => Entry \in ListedTest
  <2>1. listed \in Seq(ListedTest) /\ DOMAIN listed = 1..Len(listed)
    BY LenProperties DEF TypeInv, ManagerTypes
  <2>2. Visiting \/ manager.at \in {"request", "mark"} => manager.i \in 1..Len(listed)
    BY <2>1 DEF TypeInv, ManagerTypes, Visiting
  <2> QED  BY <2>1, <2>2, LenProperties DEF Entry
<1>6. CASE ConfigureTest
  <2>1. Entry.load \in Loads  BY <1>b, <1>6 DEF ConfigureTest, Handles, ListedTest
  <2>2. params' = SendTo(params, Entry.load) /\ UNCHANGED <<testBits, data, task>>
    BY <1>6 DEF ConfigureTest
  <2>3. params' \in Seq(Loads) /\ Len(params') <= QueueLength  BY <1>a, <2>1, <2>2, SendToFits
  <2> QED  BY <1>a, <2>2, <2>3 DEF TaskTypes
<1>7. CASE RequestStartTest
  <2>1. Entry.type \in Types  BY <1>b, <1>7 DEF RequestStartTest, ListedTest
  <2>2. UNCHANGED <<params, data, task>> /\ testBits' \subseteq Types \union {"TunePWMTest"}
    BY <1>a, <1>7, <2>1 DEF RequestStartTest, SetTestBit
  <2> QED  BY <1>1, <2>2
<1>8. CASE ReceiveData
  <2>1. Entry.type \in Types /\ data[Entry.type] # <<>>
    BY <1>b, <1>8 DEF ReceiveData, Handles, ListedTest
  <2>2. /\ Tail(data[Entry.type]) \in Seq(Loads \union {"initial"})
        /\ Len(Tail(data[Entry.type])) <= QueueLength
    <3>1. data[Entry.type] \in Seq(Loads \union {"initial"}) /\ Len(data[Entry.type]) <= QueueLength
      BY <1>a, <2>1
    <3> QED  BY <1>a, <2>1, <3>1, FirstOfQueue
  <2>3. /\ data' = [data EXCEPT ![Entry.type] = Tail(data[Entry.type])]
        /\ UNCHANGED <<params, task>> /\ testBits' \subseteq testBits
    BY <1>8 DEF ReceiveData
  <2> QED  BY <1>a, <2>1, <2>2, <2>3 DEF TaskTypes
<1>9. CASE MarkAsDone
  <2>1. Entry.type \in Types  BY <1>b, <1>9 DEF MarkAsDone, ListedTest
  <2>2. task' = [task EXCEPT ![Entry.type].send = FALSE] /\ UNCHANGED <<testBits, params, data>>
    BY <1>9 DEF MarkAsDone
  <2>3. task' \in [Types -> TaskType]
    <3> DEFINE r == [task[Entry.type] EXCEPT !.send = FALSE]
    <3>1. task[Entry.type] \in TaskType  BY <1>a, <2>1
    <3>2. r \in TaskType  BY <3>1 DEF TaskType
    <3>3. task' = [task EXCEPT ![Entry.type] = r]  BY <1>a, <2>1, <2>2
    <3> HIDE DEF r
    <3> QED  BY <1>a, <3>2, <3>3, <2>1, TaskChanges
  <2> QED  BY <1>a, <2>2, <2>3 DEF TaskTypes
<1>10. CASE BeginPass \/ PassBy \/ DisableCurrentTest \/ Save \/ ReceiveTimeout
            \/ PendingTestFound \/ EndPass
  <2>1. UNCHANGED <<testBits, params, data, task>>
    BY <1>10 DEF BeginPass, PassBy, DisableCurrentTest, Save, ReceiveTimeout,
            PendingTestFound, EndPass, tests
  <2> QED  BY <1>a, <1>1, <2>1
<1>11. ASSUME Accept \/ (\E c \in DOMAIN Opposite : HandleUserCommand(c)) \/ UserUpdateTask
              \/ TestSyncTask
       PROVE  TaskTypes'
  <2>1. UNCHANGED <<testBits, params, data, task>>
    BY <1>11 DEF Accept, HandleUserCommand, UserUpdateTask, TransferTest, ReportNewTest,
         ClearNewTest, TestSyncTask, tests
  <2> QED  BY <1>a, <1>1, <2>1
<1> QED
  BY <1>2, <1>3, <1>4, <1>5, <1>6, <1>7, <1>8, <1>9, <1>10, <1>11
  DEF Next, TestManagerTask, TestTask

-------------------------------------------------------------------------------
(* Starts.                                                                 *)

\* Who touches neither the flag nor the histories nor the two places keeps StartsInv.
LEMMA StartsLeftAlone ==
  ASSUME StartsInv, UNCHANGED <<enabled, serves, starts>>,
         Now("disable") => Now("disable")', manager.at = "disable" => manager'.at = "disable"
  PROVE  StartsInv'
BY DEF StartsInv

LEMMA UserKeepsStarts == TypeInv /\ UserCommandTask => StartsInv'
<1> SUFFICES ASSUME TypeInv, UserCommandTask PROVE StartsInv'  OBVIOUS
<1>a. StartsInv  BY DEF TypeInv
<1>1. CASE TakeCommand
  BY <1>a, <1>1, StartsLeftAlone DEF TakeCommand, Now, hist
<1>2. CASE SetMode \/ SetObserver \/ SetManager \/ ReportCommand \/ UserStop \/ StopFirst
           \/ ClearCommand
  <2>1. ~Now("disable")
    BY <1>2 DEF SetMode, SetObserver, SetManager, ReportCommand, UserStop, StopFirst,
                ClearCommand, Now
  <2>2. UNCHANGED <<enabled, serves, starts, manager>>
    BY <1>2 DEF SetMode, SetObserver, SetManager, ReportCommand, UserStop, StopFirst,
                ClearCommand, hist, sync
  <2> QED  BY <1>a, <2>1, <2>2, StartsLeftAlone
<1>3. CASE StartFirst
  <2>1. ~Now("disable")  BY <1>3 DEF StartFirst, Now
  <2>2. UNCHANGED <<enabled, serves, manager>>  BY <1>3 DEF StartFirst
  <2>3. CASE mode = "MANUAL" /\ enabled
    <3>1. /\ starts' = [starts EXCEPT !["user"] = @ + 1]
          /\ script' = <<[do |-> "disable", for |-> "START"]>> \o Tail(script)
      BY <1>3, <2>3 DEF StartFirst, SetTestBit
    <3>2. /\ starts' \in [{"user", "manager"} -> Nat]
          /\ starts'["user"] = starts["user"] + 1 /\ starts'["manager"] = starts["manager"]
      BY <1>a, <3>1 DEF StartsInv
    <3>3. Now("disable")'
      <4>1. script # <<>> /\ script \in Seq(Step)
        BY <1>3 DEF StartFirst, Now, TypeInv, CommandTypes
      <4>2. Tail(script) \in Seq(Step)  BY <4>1
      <4>3. [do |-> "disable", for |-> "START"] \in Step  BY DEF Step, Commands
      <4>4. script' # <<>> /\ Head(script') = [do |-> "disable", for |-> "START"]
        BY <3>1, <4>2, <4>3
      <4> QED  BY <4>4 DEF Now
    <3> QED  BY <1>a, <2>1, <2>2, <2>3, <3>2, <3>3 DEF StartsInv
  <2>4. CASE ~(mode = "MANUAL" /\ enabled)
    <3>1. UNCHANGED starts  BY <1>3, <2>4 DEF StartFirst
    <3> QED  BY <1>a, <2>1, <2>2, <3>1, StartsLeftAlone
  <2> QED  BY <2>3, <2>4
<1>4. CASE DisableFirst
  <2>1. ~enabled' /\ enabled' \in BOOLEAN  BY <1>4, Zenon DEF DisableFirst
  <2>2. UNCHANGED <<serves, starts>>  BY <1>4 DEF DisableFirst, hist
  <2> QED  BY <1>a, <2>1, <2>2 DEF StartsInv
<1> QED  BY <1>1, <1>2, <1>3, <1>4 DEF UserCommandTask

LEMMA ManagerKeepsStarts == TypeInv /\ TestManagerTask => StartsInv'
<1> SUFFICES ASSUME TypeInv, TestManagerTask PROVE StartsInv'  OBVIOUS
<1>a. StartsInv /\ ManagerTypes  BY DEF TypeInv
<1>1. CASE BeginPass \/ PassBy \/ ConfigureTest \/ ReceiveData \/ MarkAsDone \/ Save
           \/ ReceiveTimeout \/ PendingTestFound \/ EndPass
  <2>1. manager.at # "disable" /\ UNCHANGED <<enabled, serves, starts, script>>
    BY <1>1 DEF BeginPass, PassBy, ConfigureTest, ReceiveData, MarkAsDone, Save,
                ReceiveTimeout, PendingTestFound, EndPass, Handles, Visiting, hist, sync
  <2>2. Now("disable") => Now("disable")'  BY <2>1 DEF Now
  <2> QED  BY <1>a, <2>1, <2>2, StartsLeftAlone
<1>2. CASE RequestStartTest
  <2>1. manager.at = "request" /\ UNCHANGED <<enabled, serves, script>>
    BY <1>2 DEF RequestStartTest
  <2>2. Now("disable") => Now("disable")'  BY <2>1 DEF Now
  <2>3. CASE IndexFits /\ enabled
    <3>1. /\ starts' = [starts EXCEPT !["manager"] = @ + 1]
          /\ manager' = [manager EXCEPT !.at = "disable"]
      BY <1>2, <2>3 DEF RequestStartTest, SetTestBit
    <3>2. /\ starts' \in [{"user", "manager"} -> Nat]
          /\ starts'["manager"] = starts["manager"] + 1 /\ starts'["user"] = starts["user"]
      BY <1>a, <3>1 DEF StartsInv
    <3>3. manager'.at = "disable"  BY <1>a, <3>1 DEF ManagerTypes
    <3> QED  BY <1>a, <2>1, <2>2, <2>3, <3>2, <3>3 DEF StartsInv
  <2>4. CASE ~(IndexFits /\ enabled)
    <3>1. UNCHANGED starts  BY <1>2, <2>4 DEF RequestStartTest
    <3> QED  BY <1>a, <2>1, <2>2, <3>1, StartsLeftAlone
  <2> QED  BY <2>3, <2>4
<1>3. CASE DisableCurrentTest
  <2>1. ~enabled' /\ enabled' \in BOOLEAN  BY <1>3, Zenon DEF DisableCurrentTest
  <2>2. UNCHANGED <<serves, starts>>  BY <1>3 DEF DisableCurrentTest, hist
  <2> QED  BY <1>a, <2>1, <2>2 DEF StartsInv
<1> QED  BY <1>1, <1>2, <1>3 DEF TestManagerTask

LEMMA OthersKeepStarts ==
  TypeInv /\ (Accept \/ (\E c \in DOMAIN Opposite : HandleUserCommand(c)) \/ UserUpdateTask
              \/ TestSyncTask \/ (\E t \in Types : TestTask(t))) => StartsInv'
<1> SUFFICES ASSUME TypeInv,
                    Accept \/ (\E c \in DOMAIN Opposite : HandleUserCommand(c)) \/ UserUpdateTask
                      \/ TestSyncTask \/ (\E t \in Types : TestTask(t))
             PROVE  StartsInv'
  OBVIOUS
<1>a. StartsInv  BY DEF TypeInv
<1>1. CASE TransferTest
  <2>1. serves' = serves + 1 /\ UNCHANGED <<starts>>  BY <1>1 DEF TransferTest
  <2>2. enabled' \in BOOLEAN  BY <1>1, Zenon DEF TransferTest
  <2>3. /\ serves' \in Nat /\ starts' \in [{"user", "manager"} -> Nat]
        /\ starts'["user"] < serves' /\ starts'["manager"] < serves'
    BY <1>a, <2>1 DEF StartsInv
  <2>4. starts'["user"] <= serves' /\ starts'["manager"] <= serves'  BY <2>3
  <2> QED  BY <2>2, <2>3, <2>4, Zenon DEF StartsInv
<1>2. ASSUME UNCHANGED <<enabled, serves, starts, script, manager>> PROVE StartsInv'
  <2>1. Now("disable") => Now("disable")'  BY <1>2 DEF Now
  <2> QED  BY <1>a, <1>2, <2>1, StartsLeftAlone
<1>3. CASE Accept \/ (\E c \in DOMAIN Opposite : HandleUserCommand(c)) \/ ReportNewTest
           \/ ClearNewTest \/ TestSyncTask
  <2>1. UNCHANGED <<enabled, serves, starts, script, manager>>
    BY <1>3 DEF Accept, HandleUserCommand, ReportNewTest, ClearNewTest, TestSyncTask, sync, hist
  <2> QED  BY <1>2, <2>1
<1>4. ASSUME NEW t \in Types, TestTask(t) PROVE StartsInv'
  <2>1. UNCHANGED <<enabled, serves, starts, script, manager>>
    BY <1>4 DEF TestTask, BeginRun, EndRun, CheckRun, ProcessRun, SendData, sync, hist
  <2> QED  BY <1>2, <2>1
<1> QED  BY <1>1, <1>3, <1>4 DEF UserUpdateTask

LEMMA TypeInvHolds == Spec => []TypeInv
<1>1. TypeInv /\ Next => StartsInv'
  BY UserKeepsStarts, ManagerKeepsStarts, OthersKeepStarts DEF Next
<1>2. TypeInv /\ Next => TypeInv'
  BY <1>1, StateKeepsType, CommandsKeepTypes, ListsKeepTypes, ManagersKeepTypes, TasksKeepTypes
  DEF TypeInv
<1>3. TypeInv /\ UNCHANGED vars => TypeInv'
  <2> SUFFICES ASSUME TypeInv, UNCHANGED vars PROVE TypeInv'  OBVIOUS
  <2> USE DEF vars, user, sync, tests, hist
  <2>1. state' \in State /\ CommandTypes'  BY DEF TypeInv, CommandTypes
  <2>2. ListTypes'  BY DEF TypeInv, ListTypes, CommandTypes
  <2>3. ManagerTypes'  BY DEF TypeInv, ManagerTypes
  <2>4. TaskTypes'  BY DEF TypeInv, TaskTypes
  <2>5. StartsInv'  BY DEF TypeInv, StartsInv, Now
  <2> QED  BY <2>1, <2>2, <2>3, <2>4, <2>5 DEF TypeInv
<1> QED  BY InitTypes, <1>2, <1>3, PTL DEF Spec

\* Every variable of a session keeps its type, for all tests and commands of the
\* user: the queues stay within their length, the accepted tests are those that were
\* wanted, in order, and no task of the session steps out of its list (all six tasks).
THEOREM SessionHasTypes == Spec => []TypeOK
BY TypeInvHolds, TypesAreRight, PTL

\* Two tasks look at _enableCurrentTest and lower it without a lock; neither of them
\* starts more tests than were enabled (startTest, disableCurrentTest).
THEOREM StartsAreEnabled == Spec => []StartsNeedEnable
<1>1. TypeInv => StartsNeedEnable  BY DEF TypeInv, StartsInv, StartsNeedEnable
<1> QED  BY <1>1, TypeInvHolds, PTL

-------------------------------------------------------------------------------
(* Causes.                                                                 *)

\* A run in progress is ongoing, and its data are not valid before they are evaluated,
\* so the event of valid data is reported and not taken for an old one.
RunInv ==
  \A t \in Types : /\ task[t].ongoing <=> task[t].at = "run"
                   /\ task[t].at # "wait" => ~task[t].valid

CauseInv == RunInv /\ StateHasCause

LEMMA InitCause == Init => CauseInv
BY DEF Init, NewTask, CauseInv, RunInv, StateHasCause

Watched == {"TEST_RUNNING", "CURRENT_TEST_CHECK", "CURRENT_TEST_OK"}

\* Who enters none of the three states and takes away no cause keeps them.
LEMMA CauseLeftAlone ==
  ASSUME CauseInv, UNCHANGED task, state' \in Watched => state' = state,
         \A t \in Types : data[t] # <<>> => data'[t] # <<>>,
         manager.at \in {"mark", "save"} => manager'.at \in {"mark", "save"}
  PROVE  CauseInv'
BY DEF CauseInv, RunInv, StateHasCause, At, Watched

\* The events that lead to a run, and to its evaluation, come from the test tasks.
LEMMA OtherReports ==
  ASSUME state \in State, NEW e, Report(e),
         e \notin {"TEST_RUN_OK", "TEST_TIME_END", "DATA_CAPTURED", "VALID_DATA"}
  PROVE  state' \in Watched => state' = state
BY Moves DEF Report, Watched

LEMMA UsersKeepCause ==
  TypeInv /\ CauseInv
    /\ (Accept \/ (\E c \in DOMAIN Opposite : HandleUserCommand(c)) \/ UserCommandTask
        \/ UserUpdateTask \/ TestSyncTask) => CauseInv'
<1> SUFFICES ASSUME TypeInv, CauseInv,
                    Accept \/ (\E c \in DOMAIN Opposite : HandleUserCommand(c)) \/ UserCommandTask
                      \/ UserUpdateTask \/ TestSyncTask
             PROVE  CauseInv'
  OBVIOUS
<1>1. UNCHANGED <<task, data, manager>>
  BY DEF Accept, HandleUserCommand, UserCommandTask, TakeCommand, SetMode, SetObserver,
         SetManager, ReportCommand, UserStop, StartFirst, DisableFirst, StopFirst, ClearCommand,
         UserUpdateTask, TransferTest, ReportNewTest, ClearNewTest, TestSyncTask, tests
<1>2. state' \in Watched => state' = state
  <2>1. state \in State  BY DEF TypeInv
  <2>2. CASE ReportCommand
    <3>1. Command \in Commands
      <4>1. script \in Seq(Step) /\ script # <<>>
        BY <2>2 DEF ReportCommand, Now, TypeInv, CommandTypes
      <4>2. Head(script) \in Step  BY <4>1
      <4> QED  BY <4>2 DEF Command, Step
    <3>2. Report(Command)  BY <2>2 DEF ReportCommand
    <3> QED  BY <2>1, <3>1, <3>2, OtherReports DEF Commands
  <2>3. CASE ReportNewTest
    BY <2>1, <2>3, OtherReports DEF ReportNewTest
  <2>4. CASE ~ReportCommand /\ ~ReportNewTest
    BY <2>4 DEF Accept, HandleUserCommand, UserCommandTask, TakeCommand, SetMode, SetObserver,
         SetManager, UserStop, StartFirst, DisableFirst, StopFirst, ClearCommand,
         UserUpdateTask, TransferTest, ClearNewTest, TestSyncTask
  <2> QED  BY <2>2, <2>3, <2>4
<1> QED  BY <1>1, <1>2, CauseLeftAlone

LEMMA ManagerKeepsCause == TypeInv /\ CauseInv /\ TestManagerTask => CauseInv'
<1> SUFFICES ASSUME TypeInv, CauseInv, TestManagerTask PROVE CauseInv'  OBVIOUS
<1>a. /\ state \in State /\ manager \in ManagerType(Len(listed)) /\ task \in [Types -> TaskType]
      /\ data \in [Types -> Seq(Loads \union {"initial"})]
  BY DEF TypeInv, ManagerTypes, TaskTypes, ManagerType
<1>1. CASE BeginPass \/ PassBy \/ ConfigureTest \/ RequestStartTest \/ DisableCurrentTest
           \/ ReceiveTimeout \/ EndPass
  <2>1. UNCHANGED <<state, task, data>> /\ manager.at \notin {"mark", "save"}
    BY <1>1 DEF BeginPass, PassBy, ConfigureTest, RequestStartTest, DisableCurrentTest,
                ReceiveTimeout, EndPass, Handles, Visiting, tests
  <2> QED  BY <2>1, CauseLeftAlone
<1>2. CASE PendingTestFound
  <2>1. /\ Report("PENDING_TEST_FOUND") /\ UNCHANGED <<task, data>>
        /\ manager.at \notin {"mark", "save"}
    BY <1>2 DEF PendingTestFound, Handles, Visiting, tests
  <2>2. state' \in Watched => state' = state  BY <1>a, <2>1, OtherReports
  <2> QED  BY <2>1, <2>2, CauseLeftAlone
<1>3. CASE ReceiveData
  <2>1. UNCHANGED <<state, task>> /\ manager'.at = "mark"
    BY <1>a, <1>3 DEF ReceiveData, GoTo, ManagerType
  <2> QED  BY <2>1 DEF CauseInv, RunInv, StateHasCause, At
<1>4. CASE MarkAsDone
  <2>1. /\ UNCHANGED <<state, data>> /\ manager'.at = "save"
        /\ \A t \in Types : /\ task'[t].at = task[t].at /\ task'[t].ongoing = task[t].ongoing
                            /\ task'[t].valid = task[t].valid
    BY <1>a, <1>4 DEF MarkAsDone, ManagerType, TaskType
  <2> QED  BY <2>1 DEF CauseInv, RunInv, StateHasCause, At
<1>5. CASE Save
  <2>1. Report("SAVE") /\ UNCHANGED <<task, data>>  BY <1>5 DEF Save, tests
  <2>2. state' \in Watched => state' = state  BY <1>a, <2>1, OtherReports
  <2>3. state' # "CURRENT_TEST_OK"  BY <1>a, <2>1, Moves DEF Report
  <2> QED  BY <2>1, <2>2, <2>3 DEF CauseInv, RunInv, StateHasCause, At, Watched
<1> QED  BY <1>1, <1>2, <1>3, <1>4, <1>5 DEF TestManagerTask

LEMMA TestTasksKeepCause == TypeInv /\ CauseInv /\ (\E t \in Types : TestTask(t)) => CauseInv'
<1> SUFFICES ASSUME TypeInv, CauseInv, NEW t \in Types, TestTask(t) PROVE CauseInv'  OBVIOUS
<1>a. /\ state \in State /\ task \in [Types -> TaskType]
      /\ data \in [Types -> Seq(Loads \union {"initial"})] /\ QueueLength \in Nat \ {0}
  BY Bounds DEF TypeInv, TaskTypes
<1>b. RunInv /\ StateHasCause  BY DEF CauseInv
<1>c. UNCHANGED manager
  BY DEF TestTask, BeginRun, EndRun, CheckRun, ProcessRun, SendData
<1>1. CASE BeginRun(t)
  <2>1. /\ task[t].at = "wait" /\ ~task[t].ongoing /\ task[t].result # "SUCCESSFUL"
        /\ UNCHANGED data /\ Report("TEST_RUN_OK")
    BY <1>b, <1>1 DEF BeginRun, At, Sending, RunInv
  <2>2. /\ task'[t].at = "run" /\ task'[t].ongoing /\ ~task'[t].valid
        /\ task'[t].result = task[t].result
        /\ \A u \in Types \ {t} : task'[u] = task[u]
    BY <1>a, <1>1, <2>1 DEF BeginRun, TaskType
  <2>3. /\ state' = "CURRENT_TEST_CHECK" => state = state'
        /\ state' = "CURRENT_TEST_OK" => state = state'
    BY <1>a, <2>1, Moves DEF Report
  <2>4. RunInv'  BY <1>b, <2>2 DEF RunInv
  <2>5. StateHasCause'  BY <1>b, <1>c, <2>1, <2>2, <2>3 DEF StateHasCause, At
  <2> QED  BY <2>4, <2>5 DEF CauseInv
<1>2. CASE EndRun(t)
  <2>1. task[t].at = "run" /\ UNCHANGED data /\ Report("TEST_TIME_END")
    BY <1>2 DEF EndRun, At
  <2>2. /\ task'[t].at = "check" /\ ~task'[t].ongoing /\ task'[t].valid = task[t].valid
        /\ task'[t].result = task[t].result
        /\ \A u \in Types \ {t} : task'[u] = task[u]
    BY <1>a, <1>2 DEF EndRun, TaskType
  <2>3. state' # "TEST_RUNNING" /\ (state' = "CURRENT_TEST_OK" => state = state')
    BY <1>a, <2>1, Moves DEF Report
  <2>4. RunInv'  BY <1>b, <2>1, <2>2 DEF RunInv
  <2>5. StateHasCause'  BY <1>b, <1>c, <2>1, <2>2, <2>3 DEF StateHasCause, At
  <2> QED  BY <2>4, <2>5 DEF CauseInv
<1>3. CASE CheckRun(t)
  <2>1. task[t].at = "check" /\ UNCHANGED data  BY <1>3 DEF CheckRun, At
  <2>2. \A u \in Types \ {t} : task'[u] = task[u]  BY <1>a, <1>3 DEF CheckRun
  <2>3. CASE task[t].outcome = "missed"
    <3>1. Report("TEST_FAILED")  BY <1>3, <2>3 DEF CheckRun
    <3>2. task'[t].at = "wait" /\ task'[t].ongoing = task[t].ongoing
      BY <1>a, <1>3, <2>3 DEF CheckRun, TaskType
    <3>3. /\ state' # "CURRENT_TEST_CHECK" /\ state' # "CURRENT_TEST_OK"
          /\ state' = "TEST_RUNNING" => state = state'
      BY <1>a, <3>1, Moves DEF Report
    <3>4. RunInv'  BY <1>b, <2>1, <2>2, <3>2 DEF RunInv
    <3>5. StateHasCause'  BY <1>b, <2>1, <2>2, <3>3 DEF StateHasCause, At
    <3> QED  BY <3>4, <3>5 DEF CauseInv
  <2>4. CASE task[t].outcome # "missed"
    <3>1. state' = state \/ Report("DATA_CAPTURED")  BY <1>3, <2>4 DEF CheckRun
    <3>2. /\ task'[t].at = "process" /\ task'[t].ongoing = task[t].ongoing
          /\ task'[t].valid = task[t].valid /\ task'[t].result = task[t].result
      BY <1>a, <1>3, <2>4 DEF CheckRun, TaskType
    <3>3. /\ state' = "TEST_RUNNING" => state = state'
          /\ state' = "CURRENT_TEST_OK" => state = state'
      BY <1>a, <3>1, Moves DEF Report
    <3>4. RunInv'  BY <1>b, <2>1, <2>2, <3>2 DEF RunInv
    <3>5. StateHasCause'  BY <1>b, <1>c, <2>1, <2>2, <3>2, <3>3 DEF StateHasCause, At
    <3> QED  BY <3>4, <3>5 DEF CauseInv
  <2> QED  BY <2>3, <2>4
<1>4. CASE ProcessRun(t)
  <2>1. /\ task[t].at = "process" /\ ~task[t].valid /\ ~task[t].ongoing /\ UNCHANGED data
    BY <1>b, <1>4 DEF ProcessRun, At, RunInv
  <2>2. \A u \in Types \ {t} : task'[u] = task[u]  BY <1>a, <1>4 DEF ProcessRun
  <2>3. task'[t].at = "wait" /\ task'[t].ongoing = task[t].ongoing
    <3>1. CASE task[t].outcome = "valid"
      <4>1. \E c : task' = [task EXCEPT ![t].at = "wait", ![t].result = "SUCCESSFUL",
                                        ![t].captured = c, ![t].valid = TRUE]
        BY <1>4, <3>1 DEF ProcessRun
      <4> QED  BY <1>a, <4>1 DEF TaskType
    <3>2. CASE task[t].outcome # "valid"
      <4>1. task' = [task EXCEPT ![t].at = "wait", ![t].result = "FAILED"]
        BY <1>4, <3>2 DEF ProcessRun
      <4> QED  BY <1>a, <4>1 DEF TaskType
    <3> QED  BY <3>1, <3>2
  <2>4. RunInv'  BY <1>b, <2>1, <2>2, <2>3 DEF RunInv
  <2>5. CASE task[t].outcome = "valid"
    <3>1. Report("VALID_DATA") /\ task'[t].result = "SUCCESSFUL"
      BY <1>a, <1>4, <2>1, <2>5 DEF ProcessRun, TaskType
    <3>2. /\ state' # "CURRENT_TEST_CHECK"
          /\ state' = "TEST_RUNNING" => state = state'
      BY <1>a, <3>1, Moves DEF Report
    <3>3. StateHasCause'  BY <1>b, <2>1, <2>2, <3>1, <3>2 DEF StateHasCause, At
    <3> QED  BY <2>4, <3>3 DEF CauseInv
  <2>6. CASE task[t].outcome # "valid"
    <3>1. Report("TEST_FAILED")  BY <1>4, <2>6 DEF ProcessRun
    <3>2. /\ state' # "CURRENT_TEST_CHECK" /\ state' # "CURRENT_TEST_OK"
          /\ state' = "TEST_RUNNING" => state = state'
      BY <1>a, <3>1, Moves DEF Report
    <3>3. StateHasCause'  BY <1>b, <2>1, <2>2, <3>2 DEF StateHasCause, At
    <3> QED  BY <2>4, <3>3 DEF CauseInv
  <2> QED  BY <2>5, <2>6
<1>5. CASE SendData(t)
  <2>1. /\ UNCHANGED state /\ data' = [data EXCEPT ![t] = SendTo(data[t], task[t].load)]
        /\ task[t].at = "wait"
    BY <1>5 DEF SendData, At
  <2>2. /\ task'[t].at = task[t].at /\ task'[t].ongoing = task[t].ongoing
        /\ task'[t].valid = task[t].valid
        /\ ~ (Len(data[t]) < QueueLength) => task'[t].result = task[t].result
        /\ \A u \in Types \ {t} : task'[u] = task[u]
    BY <1>a, <1>5 DEF SendData, TaskType
  <2>3. data'[t] # <<>>
    <3>1. data[t] \in Seq(Loads \union {"initial"})  BY <1>a
    <3>2. data'[t] = SendTo(data[t], task[t].load)  BY <1>a, <2>1
    <3>3. CASE Len(data[t]) < QueueLength  BY <3>1, <3>2, <3>3 DEF SendTo
    <3>4. CASE ~ (Len(data[t]) < QueueLength)  BY <1>a, <3>1, <3>2, <3>4 DEF SendTo
    <3> QED  BY <3>3, <3>4
  <2>4. \A u \in Types \ {t} : data'[u] = data[u]  BY <1>a, <2>1
  <2>5. RunInv'  BY <1>b, <2>2 DEF RunInv
  <2>6. StateHasCause'
    BY <1>b, <1>c, <2>1, <2>2, <2>3, <2>4 DEF StateHasCause, At
  <2> QED  BY <2>5, <2>6 DEF CauseInv
<1> QED  BY <1>1, <1>2, <1>3, <1>4, <1>5 DEF TestTask

\* The device waits for nothing that is not on its way: while it says that a test runs,
\* is evaluated or has good data, a task runs, evaluates or sends, or the manager has
\* the data in hand, whatever the user, the other test and full queues do
\* (TestManagerTask, handleTestState, SwitchTest::run, BackupTest::run).
THEOREM StatesHaveCauses == Spec => []StateHasCause
<1>1. TypeInv /\ CauseInv /\ Next => CauseInv'
  BY UsersKeepCause, ManagerKeepsCause, TestTasksKeepCause DEF Next
<1>2. CauseInv /\ UNCHANGED vars => CauseInv'
  BY DEF vars, tests, CauseInv, RunInv, StateHasCause, At
<1>3. CauseInv => StateHasCause  BY DEF CauseInv
<1> QED  BY InitCause, TypeInvHolds, <1>1, <1>2, <1>3, PTL DEF Spec

-------------------------------------------------------------------------------
(* Results.                                                                *)

\* A test of the kind is on the list.
Asked(k) == \E i \in 1..Len(listed) : listed[i].type = k

\* Who may start a run, or is to: the flag is up only when the first accepted test has
\* been handed over, since new tests are never announced before they are accepted; so
\* the bits that are set, and the runs they begin, are of kinds on the list.
FlagInv == /\ newTest => accepted # <<>>
           /\ update # "wait" => newTest
           /\ enabled => accepted # <<>> /\ Asked(accepted[1].type)
BitsInv == \A k \in testBits : Asked(k)

\* A run in progress has no result to send yet, so it loses none when it fails.
RunsInv == \A t \in Types : task[t].at # "wait" => ~Sending(t) /\ Asked(t)

MarkInv == manager.at = "mark" => ~Entry.done

ResultsInv == FlagInv /\ BitsInv /\ RunsInv /\ MarkInv

LEMMA TransferAdds ==
  ASSUME TypeInv, TransferTest
  PROVE  /\ Len(listed) \in Nat /\ Len(accepted) \in Nat
         /\ Len(listed') = Len(listed) + Len(accepted)
         /\ \A i \in 1..Len(listed) : listed'[i] = listed[i]
         /\ \A i \in 1..Len(accepted) :
              /\ listed'[Len(listed) + i].type = accepted[i].type
              /\ listed'[Len(listed) + i].done = FALSE
         /\ listed \in Seq(ListedTest) /\ listed' \in Seq(ListedTest)
<1> DEFINE new == [i \in DOMAIN accepted |->
                     [type |-> accepted[i].type, load |-> accepted[i].load, done |-> FALSE]]
           n == Len(listed)
           m == Len(accepted)
<1>1. listed' = listed \o new  BY DEF TransferTest
<1>2. accepted \in Seq(Wanted) /\ listed \in Seq(ListedTest)
  BY DEF TypeInv, ListTypes, ManagerTypes
<1>3. /\ m \in Nat /\ n \in Nat /\ DOMAIN accepted = 1..m
      /\ \A i \in 1..m : accepted[i] \in Wanted
  BY <1>2, LenProperties
<1>4. /\ new \in [1..m -> ListedTest]
      /\ \A i \in 1..m : new[i].type = accepted[i].type /\ new[i].done = FALSE
  BY <1>3 DEF Wanted, ListedTest
<1> HIDE DEF new
<1>5. new \in Seq(ListedTest)  BY <1>3, <1>4, FunctionIsSequence
<1>6. Len(new) = m
  <2>1. DOMAIN new = 1..m /\ DOMAIN new = 1..Len(new) /\ Len(new) \in Nat
    BY <1>4, <1>5, LenProperties
  <2> QED  BY <1>3, <2>1
<1>7. /\ listed' \in Seq(ListedTest) /\ Len(listed') = n + m
      /\ \A i \in 1..(n + m) : listed'[i] = IF i <= n THEN listed[i] ELSE new[i - n]
  <2>1. /\ listed' \in Seq(ListedTest) /\ Len(listed') = Len(listed) + Len(new)
        /\ \A i \in 1..(Len(listed) + Len(new)) :
             listed'[i] = IF i <= Len(listed) THEN listed[i] ELSE new[i - Len(listed)]
    BY <1>1, <1>2, <1>5, ConcatProperties, Zenon
  <2> QED  BY <1>6, <2>1, Zenon
<1>8. \A i \in 1..n : i \in 1..(n + m) /\ i <= n  BY <1>3
<1>9. \A i \in 1..m : n + i \in 1..(n + m) /\ ~(n + i <= n) /\ (n + i) - n = i  BY <1>3
<1>10. \A i \in 1..n : listed'[i] = listed[i]  BY <1>7, <1>8
<1>11. \A i \in 1..m : listed'[n + i] = new[i]  BY <1>7, <1>9
<1> QED  BY <1>2, <1>3, <1>4, <1>7, <1>10, <1>11

LEMMA MarkMarks ==
  ASSUME TypeInv, MarkAsDone
  PROVE  /\ manager.i \in 1..Len(listed) /\ Len(listed') = Len(listed)
         /\ listed \in Seq(ListedTest)
         /\ \A i \in 1..Len(listed) : listed'[i].type = listed[i].type
         /\ \A i \in 1..Len(listed) : i # manager.i => listed'[i] = listed[i]
         /\ listed'[manager.i].done = TRUE
<1> DEFINE n == Len(listed)
           k == manager.i
<1>1. listed \in Seq(ListedTest)  BY DEF TypeInv, ManagerTypes
<1>2. n \in Nat /\ listed \in [1..n -> ListedTest]  BY <1>1, LenProperties
<1>3. k \in 1..n  BY <1>2 DEF TypeInv, ManagerTypes, MarkAsDone
<1>4. listed' = [listed EXCEPT ![k].done = TRUE]  BY DEF MarkAsDone
<1> HIDE DEF k
<1>5. listed' \in [1..n -> ListedTest]  BY <1>2, <1>3, <1>4 DEF ListedTest
<1>6. listed' \in Seq(ListedTest)  BY <1>2, <1>5, FunctionIsSequence
<1>7. Len(listed') = n
  <2>1. DOMAIN listed' = 1..n /\ DOMAIN listed' = 1..Len(listed') /\ Len(listed') \in Nat
    BY <1>5, <1>6, LenProperties
  <2> QED  BY <1>2, <2>1
<1>8. /\ \A i \in 1..n : i # k => listed'[i] = listed[i]
      /\ listed'[k].type = listed[k].type /\ listed'[k].done = TRUE
  BY <1>2, <1>3, <1>4 DEF ListedTest
<1>9. \A i \in 1..n : listed'[i].type = listed[i].type  BY <1>8
<1> QED  BY <1>1, <1>3, <1>7, <1>8, <1>9 DEF k

LEMMA OthersKeepList ==
  ASSUME [Next]_vars, ~TransferTest, ~MarkAsDone
  PROVE  listed' = listed
<1>1. CASE Accept \/ (\E c \in DOMAIN Opposite : HandleUserCommand(c)) \/ TestSyncTask
  BY <1>1 DEF Accept, HandleUserCommand, TestSyncTask
<1>2. CASE UserCommandTask
  BY <1>2, Zenon DEF UserCommandTask, TakeCommand, SetMode, SetObserver, SetManager,
     ReportCommand, UserStop, StartFirst, DisableFirst, StopFirst, ClearCommand
<1>3. CASE ReportNewTest \/ ClearNewTest
  BY <1>3 DEF ReportNewTest, ClearNewTest
<1>4. CASE TestManagerTask
  BY <1>4, Zenon DEF TestManagerTask, BeginPass, PassBy, ConfigureTest, RequestStartTest,
     DisableCurrentTest, ReceiveData, Save, ReceiveTimeout, PendingTestFound, EndPass
<1>5. ASSUME NEW t \in Types, TestTask(t) PROVE listed' = listed
  BY <1>5, Zenon DEF TestTask, BeginRun, EndRun, CheckRun, ProcessRun, SendData
<1>6. CASE UNCHANGED vars  BY <1>6 DEF vars
<1> QED  BY <1>1, <1>2, <1>3, <1>4, <1>5, <1>6, Zenon DEF Next, UserUpdateTask

\* The list never shrinks and its tests keep their types, so what was asked for is.
LEMMA ListLasts ==
  ASSUME TypeInv, [Next]_vars
  PROVE  /\ \A i \in 1..Len(listed) : i \in 1..Len(listed') /\ listed'[i].type = listed[i].type
         /\ \A k : Asked(k) => Asked(k)'
<1>1. \A i \in 1..Len(listed) : i \in 1..Len(listed') /\ listed'[i].type = listed[i].type
  <2>1. CASE TransferTest  BY <2>1, TransferAdds
  <2>2. CASE MarkAsDone  BY <2>2, MarkMarks
  <2> QED  BY <2>1, <2>2, OthersKeepList
<1> QED  BY <1>1 DEF Asked

LEMMA InitResults == Init => ResultsInv
BY DEF Init, NewTask, ResultsInv, FlagInv, BitsInv, RunsInv, MarkInv

LEMMA FlagKept == TypeInv /\ FlagInv /\ [Next]_vars => FlagInv'
<1> SUFFICES ASSUME TypeInv, FlagInv, [Next]_vars PROVE FlagInv'  OBVIOUS
<1>a. accepted \in Seq(Wanted)  BY DEF TypeInv, ListTypes
<1>b. \A k : Asked(k) => Asked(k)'  BY ListLasts
<1>1. CASE Accept
  <2>1. /\ newTest' = TRUE /\ UNCHANGED <<update, enabled, session>>
        /\ accepted' = Append(accepted, session.wanted[Len(accepted) + 1])
    BY <1>1 DEF Accept, user
  <2>2. accepted' # <<>> /\ (accepted # <<>> => accepted'[1] = accepted[1])
    BY <1>a, <2>1
  <2> QED  BY <1>b, <2>1, <2>2 DEF FlagInv
<1>2. CASE TransferTest
  <2>1. newTest /\ UNCHANGED <<newTest, accepted>>  BY <1>2 DEF TransferTest
  <2>2. accepted # <<>> /\ 1 \in 1..Len(accepted)  BY <1>a, <2>1 DEF FlagInv
  <2>3. Asked(accepted[1].type)'
    <3>1. /\ Len(listed) + 1 \in 1..Len(listed')
          /\ listed'[Len(listed) + 1].type = accepted[1].type
      <4>1. /\ Len(listed) \in Nat /\ Len(accepted) \in Nat
            /\ Len(listed') = Len(listed) + Len(accepted)
        BY <1>2, TransferAdds
      <4>2. listed'[Len(listed) + 1].type = accepted[1].type
        BY <1>2, <2>2, TransferAdds, Zenon
      <4> QED  BY <2>2, <4>1, <4>2
    <3> QED  BY <2>1, <3>1 DEF Asked
  <2> QED  BY <2>1, <2>2, <2>3 DEF FlagInv
<1>3. CASE ReportNewTest \/ ClearNewTest
  BY <1>3, <1>b DEF ReportNewTest, ClearNewTest, FlagInv
<1>4. CASE DisableFirst \/ DisableCurrentTest
  BY <1>4 DEF DisableFirst, DisableCurrentTest, FlagInv
<1>5. ASSUME UNCHANGED <<newTest, update, enabled, accepted>> PROVE FlagInv'
  BY <1>b, <1>5 DEF FlagInv
<1>6. CASE UserCommandTask /\ ~DisableFirst
  BY <1>5, <1>6 DEF UserCommandTask, TakeCommand, SetMode, SetObserver, SetManager, ReportCommand,
     UserStop, StartFirst, StopFirst, ClearCommand
<1>7. CASE TestManagerTask /\ ~DisableCurrentTest
  BY <1>5, <1>7 DEF TestManagerTask, BeginPass, PassBy, ConfigureTest, RequestStartTest,
     ReceiveData, MarkAsDone, Save, ReceiveTimeout, PendingTestFound, EndPass, sync
<1>8. CASE \/ \E c \in DOMAIN Opposite : HandleUserCommand(c)
           \/ TestSyncTask \/ \E t \in Types : TestTask(t)
  BY <1>5, <1>8 DEF HandleUserCommand, TestSyncTask, TestTask, BeginRun, EndRun, CheckRun,
     ProcessRun, SendData, sync
<1>9. CASE UNCHANGED vars  BY <1>5, <1>9 DEF vars, sync
<1> QED
  BY <1>1, <1>2, <1>3, <1>4, <1>6, <1>7, <1>8, <1>9, Zenon DEF Next, UserUpdateTask

LEMMA BitsKept == TypeInv /\ FlagInv /\ BitsInv /\ [Next]_vars => BitsInv'
<1> SUFFICES ASSUME TypeInv, FlagInv, BitsInv, [Next]_vars PROVE BitsInv'  OBVIOUS
<1>a. \A k : Asked(k) => Asked(k)'  BY ListLasts
<1>1. ASSUME NEW k, Asked(k), testBits' \subseteq testBits \union {k} PROVE BitsInv'
  BY <1>a, <1>1 DEF BitsInv
<1>2. ASSUME testBits' \subseteq testBits PROVE BitsInv'
  BY <1>a, <1>2 DEF BitsInv
<1>3. CASE StartFirst
  <2>1. CASE enabled
    <3>1. testBits' \subseteq testBits \union {FirstType}
      BY <1>3 DEF StartFirst, SetTestBit
    <3>2. Asked(FirstType)  BY <2>1 DEF FlagInv, FirstType
    <3> QED  BY <1>1, <3>1, <3>2
  <2>2. CASE ~enabled  BY <1>2, <1>3, <2>2 DEF StartFirst
  <2> QED  BY <2>1, <2>2
<1>4. CASE RequestStartTest
  <2>1. testBits' \subseteq testBits \union {Entry.type}
    BY <1>4 DEF RequestStartTest, SetTestBit
  <2>2. Asked(Entry.type)
    <3>1. manager.i \in 1..Len(listed)
      BY <1>4 DEF TypeInv, ManagerTypes, RequestStartTest
    <3> QED  BY <3>1 DEF Asked, Entry
  <2> QED  BY <1>1, <2>1, <2>2
<1>5. CASE UserCommandTask /\ ~StartFirst
  BY <1>2, <1>5 DEF UserCommandTask, TakeCommand, SetMode, SetObserver, SetManager, ReportCommand,
     UserStop, DisableFirst, StopFirst, ClearCommand, tests
<1>6. CASE TestManagerTask /\ ~RequestStartTest
  BY <1>2, <1>6 DEF TestManagerTask, BeginPass, PassBy, ConfigureTest, DisableCurrentTest,
     ReceiveData, MarkAsDone, Save, ReceiveTimeout, PendingTestFound, EndPass, tests
<1>7. CASE \/ Accept \/ (\E c \in DOMAIN Opposite : HandleUserCommand(c)) \/ UserUpdateTask
           \/ TestSyncTask \/ \E t \in Types : TestTask(t)
  BY <1>2, <1>7 DEF Accept, HandleUserCommand, UserUpdateTask, TransferTest, ReportNewTest,
     ClearNewTest, TestSyncTask, TestTask, BeginRun, EndRun, CheckRun, ProcessRun, SendData, tests
<1>8. CASE UNCHANGED vars  BY <1>2, <1>8 DEF vars, tests
<1> QED  BY <1>3, <1>4, <1>5, <1>6, <1>7, <1>8, Zenon DEF Next

LEMMA OthersKeepTasks ==
  ASSUME [Next]_vars, ~MarkAsDone, ~(\E t \in Types : TestTask(t))
  PROVE  task' = task
<1>1. CASE Accept \/ (\E c \in DOMAIN Opposite : HandleUserCommand(c)) \/ TestSyncTask
  BY <1>1 DEF Accept, HandleUserCommand, TestSyncTask, tests
<1>2. CASE UserCommandTask
  BY <1>2 DEF UserCommandTask, TakeCommand, SetMode, SetObserver, SetManager,
     ReportCommand, UserStop, StartFirst, DisableFirst, StopFirst, ClearCommand, tests
<1>3. CASE UserUpdateTask
  BY <1>3 DEF UserUpdateTask, TransferTest, ReportNewTest, ClearNewTest, tests
<1>4. CASE TestManagerTask
  BY <1>4 DEF TestManagerTask, BeginPass, PassBy, ConfigureTest, RequestStartTest,
     DisableCurrentTest, ReceiveData, Save, ReceiveTimeout, PendingTestFound, EndPass, tests
<1>5. CASE UNCHANGED vars  BY <1>5 DEF vars, tests
<1> QED  BY <1>1, <1>2, <1>3, <1>4, <1>5, Zenon DEF Next

\* What each step of a test task does to its task, and that it leaves the other alone.
LEMMA TaskSteps ==
  ASSUME TypeInv, NEW t \in Types, TestTask(t)
  PROVE  /\ \A u \in Types : u # t => task'[u] = task[u]
         /\ BeginRun(t) => /\ task'[t].at = "run" /\ task'[t].send = task[t].send
                           /\ task'[t].result = task[t].result
         /\ EndRun(t) => /\ task'[t].at = "check" /\ task'[t].send = task[t].send
                         /\ task'[t].result = task[t].result
         /\ CheckRun(t) => \/ /\ task'[t].at = "wait" /\ task'[t].send = task[t].send
                              /\ task'[t].result = "FAILED"
                           \/ /\ task'[t].at = "process" /\ task'[t].send = task[t].send
                              /\ task'[t].result = task[t].result
         /\ ProcessRun(t) => /\ task'[t].at = "wait" /\ task'[t].send = task[t].send
                             /\ task'[t].result \in {"SUCCESSFUL", "FAILED"}
         /\ SendData(t) => task'[t].at = "wait" /\ task'[t].send
<1>a. task \in [Types -> TaskType]  BY DEF TypeInv, TaskTypes
<1>b. task[t] \in TaskType  BY <1>a
<1>1. \A u \in Types : u # t => task'[u] = task[u]
  BY <1>a DEF TestTask, BeginRun, EndRun, CheckRun, ProcessRun, SendData
<1>2. BeginRun(t) => /\ task'[t].at = "run" /\ task'[t].send = task[t].send
                     /\ task'[t].result = task[t].result
  BY <1>a, <1>b DEF BeginRun, TaskType
<1>3. EndRun(t) => /\ task'[t].at = "check" /\ task'[t].send = task[t].send
                   /\ task'[t].result = task[t].result
  BY <1>a, <1>b DEF EndRun, TaskType
<1>4. CheckRun(t) => \/ /\ task'[t].at = "wait" /\ task'[t].send = task[t].send
                        /\ task'[t].result = "FAILED"
                     \/ /\ task'[t].at = "process" /\ task'[t].send = task[t].send
                        /\ task'[t].result = task[t].result
  BY <1>a, <1>b DEF CheckRun, TaskType
<1>5. ProcessRun(t) => /\ task'[t].at = "wait" /\ task'[t].send = task[t].send
                       /\ task'[t].result \in {"SUCCESSFUL", "FAILED"}
  <2> SUFFICES ASSUME ProcessRun(t)
               PROVE  /\ task'[t].at = "wait" /\ task'[t].send = task[t].send
                      /\ task'[t].result \in {"SUCCESSFUL", "FAILED"}
    OBVIOUS
  <2>1. CASE task[t].outcome = "valid"
    <3>1. \E c : task' = [task EXCEPT ![t].at = "wait", ![t].result = "SUCCESSFUL",
                                      ![t].captured = c, ![t].valid = TRUE]
      BY <2>1 DEF ProcessRun
    <3> QED  BY <1>a, <1>b, <3>1 DEF TaskType
  <2>2. CASE task[t].outcome # "valid"
    <3>1. task' = [task EXCEPT ![t].at = "wait", ![t].result = "FAILED"]
      BY <2>2 DEF ProcessRun
    <3> QED  BY <1>a, <1>b, <3>1 DEF TaskType
  <2> QED  BY <2>1, <2>2
<1>6. SendData(t) => task'[t].at = "wait" /\ task'[t].send
  BY <1>a, <1>b DEF SendData, At, TaskType
<1> QED  BY <1>1, <1>2, <1>3, <1>4, <1>5, <1>6, Zenon

LEMMA RunsKept == TypeInv /\ BitsInv /\ RunsInv /\ [Next]_vars => RunsInv'
<1> SUFFICES ASSUME TypeInv, BitsInv, RunsInv, [Next]_vars PROVE RunsInv'  OBVIOUS
<1>a. \A k : Asked(k) => Asked(k)'  BY ListLasts
<1>1. CASE MarkAsDone
  <2>1. task \in [Types -> TaskType]  BY DEF TypeInv, TaskTypes
  <2>2. \A u \in Types : /\ task'[u].at = task[u].at /\ task'[u].result = task[u].result
                         /\ task'[u].send => task[u].send
    BY <1>1, <2>1 DEF MarkAsDone, TaskType
  <2> QED  BY <1>a, <2>2 DEF RunsInv, Sending
<1>2. ASSUME NEW t \in Types, TestTask(t) PROVE RunsInv'
  <2>1. \A u \in Types : u # t => task'[u] = task[u]  BY <1>2, TaskSteps
  <2>2. task'[t].at # "wait" => /\ task'[t].send = task[t].send
                                /\ task'[t].result = task[t].result
                                /\ ~Sending(t) /\ Asked(t)
    <3>1. CASE BeginRun(t)
      <4>1. t \in testBits /\ ~Sending(t)  BY <3>1 DEF BeginRun
      <4> QED  BY <1>2, <3>1, <4>1, TaskSteps DEF BitsInv
    <3>2. CASE EndRun(t) \/ CheckRun(t)
      <4>1. task[t].at # "wait"  BY <3>2 DEF EndRun, CheckRun, At
      <4> QED  BY <1>2, <3>2, <4>1, TaskSteps DEF RunsInv
    <3>3. CASE ProcessRun(t) \/ SendData(t)  BY <1>2, <3>3, TaskSteps
    <3> QED  BY <1>2, <3>1, <3>2, <3>3 DEF TestTask
  <2> QED  BY <1>a, <2>1, <2>2 DEF RunsInv, Sending
<1>3. CASE ~MarkAsDone /\ ~(\E t \in Types : TestTask(t))
  <2>1. task' = task  BY <1>3, OthersKeepTasks
  <2> QED  BY <1>a, <2>1 DEF RunsInv, Sending
<1> QED  BY <1>1, <1>2, <1>3

LEMMA MarkKept == TypeInv /\ MarkInv /\ [Next]_vars => MarkInv'
<1> SUFFICES ASSUME TypeInv, MarkInv, [Next]_vars PROVE MarkInv'  OBVIOUS
<1>a. manager \in ManagerType(Len(listed))  BY DEF TypeInv, ManagerTypes, ManagerType
<1>1. CASE TransferTest
  <2>1. UNCHANGED manager  BY <1>1 DEF TransferTest
  <2>2. CASE manager.at = "mark"
    <3>1. manager.i \in 1..Len(listed)  BY <2>2 DEF TypeInv, ManagerTypes
    <3>2. listed'[manager.i] = listed[manager.i]  BY <1>1, <3>1, TransferAdds
    <3> QED  BY <2>1, <2>2, <3>2 DEF MarkInv, Entry
  <2> QED  BY <2>1, <2>2 DEF MarkInv
<1>2. CASE ReceiveData
  <2>1. manager'.i = manager.i /\ listed' = listed /\ ~Entry.done
    BY <1>a, <1>2 DEF ReceiveData, Handles, GoTo, ManagerType
  <2> QED  BY <2>1 DEF MarkInv, Entry
<1>3. CASE TestManagerTask /\ ~ReceiveData
  <2>1. BeginPass => manager'.at # "mark"  BY DEF BeginPass
  <2>2. PassBy \/ PendingTestFound => manager'.at # "mark"
    BY <1>a DEF PassBy, PendingTestFound, Handles, Visiting, ManagerType
  <2>3. ConfigureTest \/ ReceiveTimeout => manager'.at # "mark"
    BY <1>a DEF ConfigureTest, ReceiveTimeout, GoTo, ManagerType
  <2>4. RequestStartTest \/ DisableCurrentTest \/ Save => manager'.at # "mark"
    BY <1>a DEF RequestStartTest, DisableCurrentTest, Save, NextEntry, ManagerType
  <2>5. MarkAsDone \/ EndPass => manager'.at # "mark"
    BY <1>a DEF MarkAsDone, EndPass, ManagerType
  <2> QED  BY <1>3, <2>1, <2>2, <2>3, <2>4, <2>5 DEF MarkInv, TestManagerTask
<1>4. CASE ~TransferTest /\ ~TestManagerTask
  <2>1. UNCHANGED manager
    BY <1>4 DEF Next, Accept, HandleUserCommand, UserCommandTask, TakeCommand, SetMode,
       SetObserver, SetManager, ReportCommand, UserStop, StartFirst, DisableFirst, StopFirst,
       ClearCommand, UserUpdateTask, ReportNewTest, ClearNewTest, TestSyncTask, TestTask,
       BeginRun, EndRun, CheckRun, ProcessRun, SendData, vars
  <2>2. UNCHANGED listed  BY <1>4, OthersKeepList DEF TestManagerTask
  <2> QED  BY <2>1, <2>2 DEF MarkInv, Entry
<1> QED  BY <1>1, <1>2, <1>3, <1>4

LEMMA ResultsInvHolds == Spec => []ResultsInv
<1>1. TypeInv /\ ResultsInv /\ [Next]_vars => ResultsInv'
  BY FlagKept, BitsKept, RunsKept, MarkKept DEF ResultsInv
<1> QED  BY InitResults, TypeInvHolds, <1>1, PTL DEF Spec

\* Results are left alone by who leaves the list, the data and the test tasks alone,
\* and has no data in hand.
LEMMA ResultsLeftAlone ==
  ASSUME UNCHANGED <<listed, data, task>>,
         \/ UNCHANGED manager
         \/ manager.at # "mark" /\ manager'.at # "mark"
  PROVE  UNCHANGED Results!vars
<1>1. Running' = Running  BY DEF Running, At
<1>2. Proven' = Proven  BY DEF Proven, Entry
<1> QED  BY <1>1, <1>2 DEF Results!vars

LEMMA TransferLists == ASSUME TypeInv, TransferTest PROVE Results!List
<1> DEFINE n == Len(listed)
           m == Len(accepted)
<1>1. /\ n \in Nat /\ m \in Nat /\ Len(listed') = n + m
      /\ listed \in Seq(ListedTest) /\ listed' \in Seq(ListedTest)
  BY TransferAdds
<1>2. \A i \in 1..n : listed'[i] = listed[i]  BY TransferAdds
<1>3. \A i \in 1..m : listed'[n + i].done = FALSE  BY TransferAdds
<1>4. DOMAIN listed = 1..n /\ DOMAIN listed' = 1..(n + m)  BY <1>1, LenProperties
<1>5. \A i \in DOMAIN listed' \ DOMAIN listed : ~listed'[i].done
  <2> SUFFICES ASSUME NEW i \in DOMAIN listed' \ DOMAIN listed PROVE ~listed'[i].done
    OBVIOUS
  <2>1. i - n \in 1..m /\ n + (i - n) = i  BY <1>1, <1>4
  <2>2. listed'[n + (i - n)].done = FALSE  BY <1>3, <2>1, Zenon
  <2> QED  BY <2>1, <2>2
<1>6. Results!IsPrefix(listed, listed')
  <2>1. SubSeq(listed, 1, n) = [i \in 1..n |-> listed[i]]  BY <1>1
  <2>2. SubSeq(listed', 1, n) = [i \in 1..n |-> listed'[i]]  BY <1>1
  <2>3. SubSeq(listed, 1, Len(listed)) = SubSeq(listed', 1, Len(listed))
    BY <1>2, <2>1, <2>2
  <2>4. Len(listed) <= Len(listed')  BY <1>1
  <2> QED  BY <2>3, <2>4 DEF Results!IsPrefix
<1>7. UNCHANGED <<manager, task, data>>  BY DEF TransferTest, tests
<1>8. Running' = Running  BY <1>7 DEF Running, At
<1>9. Proven' = Proven
  <2>1. manager.at = "mark" => Entry' = Entry
    <3>1. manager.at = "mark" => manager.i \in 1..n  BY DEF TypeInv, ManagerTypes
    <3> QED  BY <1>2, <1>7, <3>1 DEF Entry
  <2>2. \A t : (\E i \in DOMAIN listed' : listed'[i].done /\ listed'[i].type = t)
                 <=> \E i \in DOMAIN listed : listed[i].done /\ listed[i].type = t
    <3>1. \A i \in DOMAIN listed : i \in DOMAIN listed'  BY <1>1, <1>4
    <3> QED  BY <1>2, <1>4, <1>5, <3>1, Zenon
  <2> QED  BY <1>7, <2>1, <2>2 DEF Proven
<1> QED  BY <1>5, <1>6, <1>8, <1>9 DEF Results!List

LEMMA ReceiptKeepsResults == ASSUME TypeInv, ReceiveData PROVE UNCHANGED Results!vars
<1>a. /\ manager \in ManagerType(Len(listed)) /\ manager.i \in 1..Len(listed)
      /\ listed \in Seq(ListedTest) /\ data \in [Types -> Seq(Loads \union {"initial"})]
  BY DEF TypeInv, ManagerTypes, ManagerType, TaskTypes, ReceiveData, Handles, Visiting
<1>1. /\ data[Entry.type] # <<>> /\ data' = [data EXCEPT ![Entry.type] = Tail(@)]
      /\ UNCHANGED <<listed, task>> /\ manager.at = "visit"
  BY DEF ReceiveData, Handles, Visiting
<1>2. manager'.at = "mark" /\ manager'.i = manager.i
  BY <1>a DEF ReceiveData, GoTo, ManagerType
<1>3. \A t \in Types : t # Entry.type => data'[t] = data[t]  BY <1>a, <1>1
<1>4. Entry' = Entry  BY <1>1, <1>2 DEF Entry
<1>5. Running' = Running  BY <1>1 DEF Running, At
<1>6. Proven' = Proven  BY <1>1, <1>2, <1>3, <1>4 DEF Proven
<1> QED  BY <1>1, <1>5, <1>6 DEF Results!vars

LEMMA MarkFinishes ==
  ASSUME TypeInv, MarkInv, MarkAsDone
  PROVE  \E i \in DOMAIN listed : Results!Finish(i)
<1> DEFINE k == manager.i
           n == Len(listed)
<1>1. /\ k \in 1..n /\ n \in Nat /\ Len(listed') = n /\ listed \in Seq(ListedTest)
      /\ \A i \in 1..n : listed'[i].type = listed[i].type
      /\ \A i \in 1..n : i # k => listed'[i] = listed[i]
      /\ listed'[k].done = TRUE
  <2>1. listed \in Seq(ListedTest)  BY MarkMarks
  <2>2. n \in Nat  BY <2>1, LenProperties
  <2> QED  BY <2>1, <2>2, MarkMarks, Zenon
<1>2. DOMAIN listed = 1..n /\ listed[k] \in ListedTest  BY <1>1, LenProperties
<1>3. DOMAIN listed' = 1..n  BY <1>2 DEF MarkAsDone
<1>4. /\ manager.at = "mark" /\ manager'.at = "save" /\ UNCHANGED data
      /\ listed' = [listed EXCEPT ![k].done = TRUE]
      /\ task' = [task EXCEPT ![Entry.type].send = FALSE]
  <2>1. manager \in ManagerType(n)  BY DEF TypeInv, ManagerTypes, ManagerType
  <2> QED  BY <2>1 DEF MarkAsDone, ManagerType
<1>5. \A t \in Types : /\ task'[t].at = task[t].at /\ task'[t].result = task[t].result
                       /\ t # Entry.type => task'[t].send = task[t].send
                       /\ task'[t].send => task[t].send
  <2> DEFINE e == Entry.type
  <2>1. task \in [Types -> TaskType]  BY DEF TypeInv, TaskTypes
  <2>2. task' = [task EXCEPT ![e].send = FALSE]  BY <1>4
  <2> HIDE DEF e
  <2>3. \A t \in Types : task'[t] = IF t = e THEN [task[t] EXCEPT !.send = FALSE] ELSE task[t]
    BY <2>1, <2>2
  <2>4. \A t \in Types : t # e => task'[t] = task[t]  BY <2>3, Zenon
  <2>5. \A r \in TaskType : LET q == [r EXCEPT !.send = FALSE]
                            IN  q.at = r.at /\ q.result = r.result /\ ~q.send
    BY DEF TaskType
  <2>6. e \in Types => /\ task'[e].at = task[e].at /\ task'[e].result = task[e].result
                       /\ ~task'[e].send
    BY <2>1, <2>3, <2>5
  <2>7. \A t \in Types : /\ task'[t].at = task[t].at /\ task'[t].result = task[t].result
                         /\ t # e => task'[t].send = task[t].send
                         /\ task'[t].send => task[t].send
    <3> TAKE t \in Types
    <3>1. CASE t = e  BY <2>6, <3>1
    <3>2. CASE t # e
      <4>1. task'[t] = task[t]  BY <2>4, <3>2, Zenon
      <4> QED  BY <3>2, <4>1, Zenon
    <3> QED  BY <3>1, <3>2
  <2> QED  BY <2>7 DEF e
<1>6. Entry = listed[k] /\ listed[k].type \in Types /\ ~listed[k].done
  BY <1>2, <1>4 DEF Entry, MarkInv, ListedTest
<1>7. Running' = Running  BY <1>5 DEF Running, At
<1>8. listed[k].type \in Proven  BY <1>4, <1>6 DEF Proven
<1>9. Proven' = Proven
  <2> DEFINE Done(t) == \E i \in DOMAIN listed : listed[i].done /\ listed[i].type = t
  <2>1. \A t : t # Entry.type => (Done(t)' <=> Done(t))
    BY <1>1, <1>2, <1>3, <1>6
  <2>2. ASSUME NEW t \in Types, t # Entry.type PROVE t \in Proven' <=> t \in Proven
    <3>1. t \in Proven <=> \/ task[t].result = "SUCCESSFUL" \/ task[t].send
                          \/ data[t] # <<>> \/ Done(t)
      BY <2>2 DEF Proven
    <3>2. t \in Proven' <=> \/ task'[t].result = "SUCCESSFUL" \/ task'[t].send
                           \/ data'[t] # <<>> \/ Done(t)'
      BY <1>4 DEF Proven
    <3>3. /\ task'[t].result = task[t].result /\ task'[t].send = task[t].send
          /\ data'[t] = data[t] /\ (Done(t)' <=> Done(t))
      BY <1>4, <1>5, <2>1, <2>2
    <3> HIDE DEF Done
    <3> QED  BY <3>1, <3>2, <3>3, Zenon
  <2>3. \E i \in DOMAIN listed' : listed'[i].done /\ listed'[i].type = listed[k].type
    BY <1>1, <1>3
  <2>4. listed[k].type \in Proven'  BY <1>6, <2>3 DEF Proven
  <2> QED  BY <1>6, <1>8, <2>2, <2>4 DEF Proven
<1>10. Results!Finish(k)  BY <1>4, <1>6, <1>7, <1>8, <1>9 DEF Results!Finish
<1> QED  BY <1>1, <1>2, <1>10

\* A test task changes the results of its own kind only.
LEMMA OwnResultsOnly ==
  ASSUME TypeInv, NEW t \in Types, TestTask(t)
  PROVE  /\ UNCHANGED <<listed, manager>>
         /\ \A u \in Types : u # t => /\ u \in Running' <=> u \in Running
                                      /\ u \in Proven' <=> u \in Proven
         /\ t \in Running' <=> task'[t].at # "wait"
         /\ t \in Running <=> task[t].at # "wait"
         /\ Running \subseteq Types /\ Running' \subseteq Types
         /\ Proven \subseteq Types /\ Proven' \subseteq Types
<1>1. UNCHANGED <<listed, manager>>
  BY DEF TestTask, BeginRun, EndRun, CheckRun, ProcessRun, SendData
<1>2. \A u \in Types : u # t => task'[u] = task[u] /\ data'[u] = data[u]
  <2>1. data \in [Types -> Seq(Loads \union {"initial"})]  BY DEF TypeInv, TaskTypes
  <2>2. \A u \in Types : u # t => data'[u] = data[u]
    BY <2>1 DEF TestTask, BeginRun, EndRun, CheckRun, ProcessRun, SendData
  <2> QED  BY <2>2, TaskSteps
<1>3. \A u \in Types : u # t => (u \in Running' <=> u \in Running)
  BY <1>2 DEF Running, At
<1>4. \A u \in Types : u # t => (u \in Proven' <=> u \in Proven)
  BY <1>1, <1>2 DEF Proven, Entry
<1> QED  BY <1>1, <1>3, <1>4 DEF Running, Proven, At

LEMMA TestsKeepResults ==
  ASSUME TypeInv, BitsInv, RunsInv, NEW t \in Types, TestTask(t)
  PROVE  [Results!Next]_(Results!vars)
<1>a. /\ UNCHANGED <<listed, manager>>
      /\ \A u \in Types : u # t => /\ u \in Running' <=> u \in Running
                                   /\ u \in Proven' <=> u \in Proven
      /\ t \in Running' <=> task'[t].at # "wait"
      /\ t \in Running <=> task[t].at # "wait"
      /\ Running \subseteq Types /\ Running' \subseteq Types
      /\ Proven \subseteq Types /\ Proven' \subseteq Types
  BY OwnResultsOnly
<1>b. DOMAIN listed = 1..Len(listed)
  <2>1. listed \in Seq(ListedTest)  BY DEF TypeInv, ManagerTypes
  <2> QED  BY <2>1, LenProperties
\* Nothing proven is lost, and nothing new but by valid data.
<1>c. ASSUME UNCHANGED data, task'[t].send = task[t].send,
             (task'[t].result = "SUCCESSFUL") <=> (task[t].result = "SUCCESSFUL")
      PROVE  Proven' = Proven
  <2>1. t \in Proven' <=> t \in Proven  BY <1>a, <1>c DEF Proven, Entry
  <2> QED  BY <1>a, <2>1
<1>d. task[t].at # "wait" => task[t].result # "SUCCESSFUL"  BY DEF RunsInv, Sending
<1>1. CASE BeginRun(t)
  <2>1. task[t].at = "wait" /\ UNCHANGED data /\ t \in testBits
    BY <1>1 DEF BeginRun, At
  <2>2. /\ task'[t].at = "run" /\ task'[t].send = task[t].send
        /\ task'[t].result = task[t].result
    BY <1>1, TaskSteps
  <2>3. Running' = Running \union {t} /\ t \notin Running  BY <1>a, <2>1, <2>2
  <2>4. Proven' = Proven  BY <1>c, <2>1, <2>2
  <2>5. \E i \in DOMAIN listed : listed[i].type = t  BY <1>b, <2>1 DEF BitsInv, Asked
  <2>6. Results!Begin(t)  BY <1>a, <2>3, <2>4, <2>5 DEF Results!Begin
  <2> QED  BY <2>6 DEF Results!Next
<1>2. CASE EndRun(t)
  <2>1. task[t].at = "run" /\ UNCHANGED data  BY <1>2 DEF EndRun, At
  <2>2. /\ task'[t].at = "check" /\ task'[t].send = task[t].send
        /\ task'[t].result = task[t].result
    BY <1>2, TaskSteps
  <2>3. Running' = Running  BY <1>a, <2>1, <2>2
  <2>4. Proven' = Proven  BY <1>c, <2>1, <2>2
  <2> QED  BY <1>a, <2>3, <2>4 DEF Results!vars
<1>3. CASE CheckRun(t)
  <2>1. task[t].at = "check" /\ UNCHANGED data  BY <1>3 DEF CheckRun, At
  <2>2. CASE task'[t].at = "wait"
    <3>1. task'[t].send = task[t].send /\ task'[t].result = "FAILED"
      BY <1>3, <2>2, TaskSteps
    <3>2. Running' = Running \ {t} /\ t \in Running  BY <1>a, <2>1, <2>2
    <3>3. Proven' = Proven  BY <1>c, <1>d, <2>1, <3>1
    <3>4. Results!Fail(t)  BY <1>a, <3>2, <3>3 DEF Results!Fail
    <3> QED  BY <3>4 DEF Results!Next
  <2>3. CASE task'[t].at # "wait"
    <3>1. task'[t].send = task[t].send /\ task'[t].result = task[t].result
      BY <1>3, <2>3, TaskSteps
    <3>2. Running' = Running  BY <1>a, <2>1, <2>3
    <3>3. Proven' = Proven  BY <1>c, <2>1, <3>1
    <3> QED  BY <1>a, <3>2, <3>3 DEF Results!vars
  <2> QED  BY <2>2, <2>3
<1>4. CASE ProcessRun(t)
  <2>1. task[t].at = "process" /\ UNCHANGED data  BY <1>4 DEF ProcessRun, At
  <2>2. /\ task'[t].at = "wait" /\ task'[t].send = task[t].send
        /\ task'[t].result \in {"SUCCESSFUL", "FAILED"}
    BY <1>4, TaskSteps
  <2>3. Running' = Running \ {t} /\ t \in Running  BY <1>a, <2>1, <2>2
  <2>4. CASE task'[t].result = "FAILED"
    <3>1. Proven' = Proven  BY <1>c, <1>d, <2>1, <2>2, <2>4
    <3>2. Results!Fail(t)  BY <1>a, <2>3, <3>1 DEF Results!Fail
    <3> QED  BY <3>2 DEF Results!Next
  <2>5. CASE task'[t].result = "SUCCESSFUL"
    <3>1. t \in Proven'  BY <2>5 DEF Proven
    <3>2. Proven' = Proven \union {t}  BY <1>a, <3>1
    <3>3. Results!Succeed(t)  BY <1>a, <2>3, <3>2 DEF Results!Succeed
    <3> QED  BY <3>3 DEF Results!Next
  <2> QED  BY <2>2, <2>4, <2>5
<1>5. CASE SendData(t)
  <2>1. task[t].at = "wait" /\ Sending(t)  BY <1>5 DEF SendData, At
  <2>2. task'[t].at = "wait" /\ task'[t].send  BY <1>5, TaskSteps
  <2>3. Running' = Running  BY <1>a, <2>1, <2>2
  <2>4. t \in Proven /\ t \in Proven'  BY <2>1, <2>2 DEF Sending, Proven
  <2>5. Proven' = Proven  BY <1>a, <2>4
  <2> QED  BY <1>a, <2>3, <2>5 DEF Results!vars
<1> QED  BY <1>1, <1>2, <1>3, <1>4, <1>5 DEF TestTask

LEMMA ResultsStep ==
  ASSUME TypeInv, ResultsInv, [Next]_vars
  PROVE  [Results!Next]_(Results!vars)
<1>1. CASE TransferTest  BY <1>1, TransferLists DEF Results!Next
<1>2. CASE MarkAsDone
  <2>1. \E i \in DOMAIN listed : Results!Finish(i)  BY <1>2, MarkFinishes DEF ResultsInv
  <2> QED  BY <2>1 DEF Results!Next
<1>3. CASE ReceiveData  BY <1>3, ReceiptKeepsResults
<1>4. ASSUME NEW t \in Types, TestTask(t) PROVE [Results!Next]_(Results!vars)
  BY <1>4, TestsKeepResults DEF ResultsInv
<1>5. CASE TestManagerTask /\ ~MarkAsDone /\ ~ReceiveData
  <2>1. manager \in ManagerType(Len(listed))  BY DEF TypeInv, ManagerTypes, ManagerType
  <2>2. UNCHANGED <<listed, data, task>>
    BY <1>5 DEF TestManagerTask, BeginPass, PassBy, ConfigureTest, RequestStartTest,
       DisableCurrentTest, Save, ReceiveTimeout, PendingTestFound, EndPass, tests
  <2>3. BeginPass => manager.at # "mark" /\ manager'.at # "mark"  BY DEF BeginPass
  <2>4. PassBy \/ PendingTestFound => manager.at # "mark" /\ manager'.at # "mark"
    BY <2>1 DEF PassBy, PendingTestFound, Handles, Visiting, ManagerType
  <2>5. ConfigureTest \/ ReceiveTimeout => manager.at # "mark" /\ manager'.at # "mark"
    BY <2>1 DEF ConfigureTest, ReceiveTimeout, Handles, Visiting, GoTo, ManagerType
  <2>6. RequestStartTest \/ DisableCurrentTest \/ Save
          => manager.at # "mark" /\ manager'.at # "mark"
    BY <2>1 DEF RequestStartTest, DisableCurrentTest, Save, NextEntry, ManagerType
  <2>7. EndPass => manager.at # "mark" /\ manager'.at # "mark"
    BY <2>1 DEF EndPass, ManagerType
  <2> QED
    BY <1>5, <2>2, <2>3, <2>4, <2>5, <2>6, <2>7, ResultsLeftAlone DEF TestManagerTask
<1>6. CASE /\ ~TransferTest /\ ~TestManagerTask /\ ~(\E t \in Types : TestTask(t))
  <2>1. UNCHANGED <<listed, data, task, manager>>
    BY <1>6 DEF Next, Accept, HandleUserCommand, UserCommandTask, TakeCommand, SetMode,
       SetObserver, SetManager, ReportCommand, UserStop, StartFirst, DisableFirst, StopFirst,
       ClearCommand, UserUpdateTask, ReportNewTest, ClearNewTest, TestSyncTask, vars, tests
  <2> QED  BY <2>1, ResultsLeftAlone
<1> QED  BY <1>1, <1>2, <1>3, <1>4, <1>5, <1>6

\* What a session promises about results, it keeps: no run begins for a kind of test
\* that is not on the list, a test is done once and only after valid data of its kind,
\* and such data are not lost on their way to the manager, for all sessions, outcomes
\* and lengths of the queues (TestManagerTask, SwitchTest::run, BackupTest::run).
THEOREM KeepsResults == Spec => ResultsKept
<1>1. Init => Results!Init
  BY DEF Init, NewTask, Results!Init, Running, Proven, At
<1>2. TypeInv /\ ResultsInv /\ [Next]_vars => [Results!Next]_(Results!vars)
  BY ResultsStep
<1> QED
  BY <1>1, <1>2, TypeInvHolds, ResultsInvHolds, PTL DEF Spec, ResultsKept, Results!Spec
===============================================================================
