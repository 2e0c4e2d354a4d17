-------------------------- MODULE TestTransfer_proofs --------------------------
(***************************************************************************)
(* For any size of the lists, any test types and any load levels: what     *)
(* transferTest hands over is the beginning of TestSync's list, complete   *)
(* but for the tests accepted meanwhile, and a transfer has an end.        *)
(***************************************************************************)
EXTENDS TestTransfer, FiniteSetTheorems, TLAPS

\* isActive is stored last.
LEMMA StoreOrderFacts ==
  /\ Len(StoreOrder) = 4
  /\ StoreOrder[1] = "testId" /\ StoreOrder[2] = "testType"
  /\ StoreOrder[3] = "loadLevel" /\ StoreOrder[4] = "isActive"
BY DEF StoreOrder

LEMMA EmptySlotType == EmptySlot \in RequiredTest /\ ~EmptySlot.isActive
BY DEF EmptySlot, RequiredTest

LEMMA NoCallTypes == NoIntake \in Intake /\ NoTransfer \in Transfer
<1>1. <<>> \in Seq(RequiredTest)
  OBVIOUS
<1> QED
  BY <1>1, EmptySlotType, StoreOrderFacts, MaxTestAssumption
     DEF NoIntake, NoTransfer, Intake, Transfer

LEMMA InitType == Init => TypeOK
<1> SUFFICES ASSUME Init PROVE TypeOK
  OBVIOUS
<1>1. slots \in [Slots -> RequiredTest]
  BY EmptySlotType DEF Init
<1>2. managed \in Seq(RequiredTest)
  BY DEF Init
<1>3. late \subseteq Slots /\ newTest \in BOOLEAN /\ numTest \in Nat
  BY DEF Init
<1> QED
  BY <1>1, <1>2, <1>3, NoCallTypes DEF Init, TypeOK

LEMMA InitInv == Init => TransferInv
BY EmptySlotType
   DEF Init, TransferInv, IntakeInv, RequestInv, ManagedInv, CountInv, FillInv, AddInv,
       ReportInv, Active, NoIntake, NoTransfer

\* What StoreField does to the list: one field of one slot, which is not active.
LEMMA StoredField ==
  ASSUME TypeOK, IntakeInv, StoreField
  PROVE  /\ intake.slot \in Slots /\ intake.slot \notin Active
         /\ slots' \in [Slots -> RequiredTest]
         /\ \A s \in Slots \ {intake.slot} : slots'[s] = slots[s]
         /\ slots'[intake.slot].testType = IF intake.next = 2 THEN intake.test.testType
                                           ELSE slots[intake.slot].testType
         /\ slots'[intake.slot].loadLevel = IF intake.next = 3 THEN intake.test.loadLevel
                                            ELSE slots[intake.slot].loadLevel
         /\ intake.next = 4 => /\ Active' = Active \union {intake.slot}
                               /\ late' = late \union {intake.slot}
         /\ intake.next # 4 => Active' = Active /\ late' = late
<1> DEFINE s == intake.slot
<1>1. /\ s \in Slots /\ s \notin Active
      /\ intake.next \in 1..4
      /\ intake.test \in RequiredTest
      /\ slots \in [Slots -> RequiredTest]
  BY StoreOrderFacts DEF StoreField, TypeOK, Intake, IntakeInv, Slots
<1>2. intake.test.isActive
  BY DEF StoreField, IntakeInv
<1>3. CASE intake.next = 1
  <2>1. /\ slots' = [slots EXCEPT ![s] = [@ EXCEPT !.testId = intake.test.testId]]
        /\ late' = late
    BY <1>3, StoreOrderFacts DEF StoreField
  <2> QED
    BY <2>1, <1>1, <1>3 DEF RequiredTest, Active
<1>4. CASE intake.next = 2
  <2>1. /\ slots' = [slots EXCEPT ![s] = [@ EXCEPT !.testType = intake.test.testType]]
        /\ late' = late
    BY <1>4, StoreOrderFacts DEF StoreField
  <2> QED
    BY <2>1, <1>1, <1>4 DEF RequiredTest, Active
<1>5. CASE intake.next = 3
  <2>1. /\ slots' = [slots EXCEPT ![s] = [@ EXCEPT !.loadLevel = intake.test.loadLevel]]
        /\ late' = late
    BY <1>5, StoreOrderFacts DEF StoreField
  <2> QED
    BY <2>1, <1>1, <1>5 DEF RequiredTest, Active
<1>6. CASE intake.next = 4
  <2>1. /\ slots' = [slots EXCEPT ![s] = [@ EXCEPT !.isActive = intake.test.isActive]]
        /\ late' = late \union {s}
    BY <1>6, StoreOrderFacts DEF StoreField
  <2>2. /\ slots' \in [Slots -> RequiredTest]
        /\ \A r \in Slots \ {s} : slots'[r] = slots[r]
        /\ slots'[s].isActive
        /\ slots'[s].testType = slots[s].testType
        /\ slots'[s].loadLevel = slots[s].loadLevel
    BY <2>1, <1>1, <1>2 DEF RequiredTest
  <2>3. Active' = Active \union {s}
    BY <2>2, <1>1 DEF Active
  <2> QED
    BY <2>1, <2>2, <2>3, <1>1, <1>6
<1> QED
  BY <1>1, <1>3, <1>4, <1>5, <1>6

\* The steps of transferTest and addTests keep their locals in their types.
LEMMA TransferType ==
  ASSUME TypeOK, TransferInv, Update
  PROVE  update' \in Transfer
<1>0. update \in Transfer
  BY DEF TypeOK
<1> USE MaxTestAssumption DEF Transfer
<1>1. CASE Serve
  <2>1. update' = [NoTransfer EXCEPT !.at = "count"]
    BY <1>1 DEF Serve
  <2> QED
    BY <2>1, NoCallTypes
<1>2. CASE CountSlot
  <2>1. update.i \in 1..MaxTest /\ update.activeTestCount < update.i
    BY <1>0, <1>2 DEF CountSlot, TransferInv, CountInv
  <2>2. update.i + 1 \in 1..(MaxTest + 1) /\ update.activeTestCount + 1 \in 0..MaxTest
    BY <1>0, <2>1
  <2>3. update' = [update EXCEPT !.i = @ + 1,
                                 !.activeTestCount =
                                    IF slots[update.i].isActive THEN @ + 1 ELSE @]
    BY <1>2 DEF CountSlot
  <2> QED
    BY <1>0, <2>2, <2>3
<1>3. CASE EndCount
  <2>1. update' = [update EXCEPT !.at = IF update.activeTestCount = 0 THEN "report"
                                                                      ELSE "fill",
                                 !.i = 1]
    BY <1>3 DEF EndCount
  <2>2. 1 \in 1..(MaxTest + 1)
    OBVIOUS
  <2> QED
    BY <1>0, <2>1, <2>2
<1>4. CASE FillSlot
  <2>1. update.i \in Slots /\ slots[update.i] \in RequiredTest
    BY <1>0, <1>4 DEF FillSlot, TypeOK, Slots
  <2>2. Append(update.activeTests, slots[update.i]) \in Seq(RequiredTest)
    BY <1>0, <2>1
  <2>3. update' = [update EXCEPT !.i = @ + 1,
                                 !.activeTests = IF slots[update.i].isActive
                                                 THEN Append(@, slots[update.i]) ELSE @]
    BY <1>4 DEF FillSlot
  <2>4. update.i + 1 \in 1..(MaxTest + 1)
    BY <2>1 DEF Slots
  <2> QED
    BY <1>0, <2>2, <2>3, <2>4
<1>5. CASE EndFill
  <2>1. update' = [update EXCEPT !.at = IF update.activeTestCount > MaxTest
                                        THEN "report" ELSE "add",
                                 !.i = 1]
    BY <1>5 DEF EndFill
  <2>2. 1 \in 1..(MaxTest + 1)
    OBVIOUS
  <2> QED
    BY <1>0, <2>1, <2>2
<1>6. CASE AddTest
  BY <1>0, <1>6 DEF AddTest
<1>7. CASE PublishTest
  <2>1. update.i + 1 \in 1..(MaxTest + 1)
    BY <1>0, <1>7 DEF PublishTest, TransferInv, AddInv
  <2>2. update' = [update EXCEPT !.at = IF update.i < update.activeTestCount
                                        THEN "add" ELSE "report",
                                 !.i = @ + 1]
    BY <1>7 DEF PublishTest
  <2> QED
    BY <1>0, <2>1, <2>2
<1>8. CASE ClearNewTest
  <2>1. update' = NoTransfer
    BY <1>8 DEF ClearNewTest
  <2> QED
    BY <2>1, NoCallTypes
<1> QED
  BY <1>1, <1>2, <1>3, <1>4, <1>5, <1>6, <1>7, <1>8 DEF Update

\* And what they do to the other variables.
LEMMA UpdateTypes ==
  ASSUME TypeOK, TransferInv, Update
  PROVE  /\ UNCHANGED <<slots, intake>>
         /\ newTest' \in BOOLEAN
         /\ managed' \in Seq(RequiredTest)
         /\ numTest' \in Nat
         /\ late' = late \/ late' = {}
<1>1. CASE AddTest
  <2>1. update.i \in 1..Len(update.activeTests)
    BY <1>1 DEF AddTest, TypeOK, Transfer, TransferInv, AddInv
  <2>2. update.activeTests[update.i] \in RequiredTest
    BY <2>1 DEF TypeOK, Transfer
  <2>3. managed' = Append(managed, update.activeTests[update.i])
    BY <1>1 DEF AddTest
  <2>4. managed' \in Seq(RequiredTest)
    BY <2>2, <2>3 DEF TypeOK
  <2> QED
    BY <1>1, <2>4 DEF AddTest, TypeOK
<1>2. CASE PublishTest
  BY <1>2 DEF PublishTest, TypeOK
<1>3. CASE Serve
  BY <1>3 DEF Serve, TypeOK
<1>4. CASE CountSlot \/ EndCount \/ FillSlot \/ EndFill
  BY <1>4 DEF CountSlot, EndCount, FillSlot, EndFill, TypeOK
<1>5. CASE ClearNewTest
  BY <1>5 DEF ClearNewTest, TypeOK
<1> QED
  BY <1>1, <1>2, <1>3, <1>4, <1>5 DEF Update

LEMMA NextType == TypeOK /\ TransferInv /\ [Next]_vars => TypeOK'
<1> SUFFICES ASSUME TypeOK, TransferInv, [Next]_vars PROVE TypeOK'
  OBVIOUS
<1>1. ASSUME NEW type \in TestTypes, NEW load \in LoadLevels, ParseTestJson(type, load)
      PROVE  TypeOK'
  <2>1. PICK s \in Slots :
          intake' = [slot |-> s, next |-> 1,
                     test |-> [testId |-> TestID(s), testType |-> type,
                               loadLevel |-> load, isActive |-> TRUE]]
    BY <1>1 DEF ParseTestJson
  <2>2. TestID(s) \in Nat
    BY DEF TestID, Slots
  <2>3. [testId |-> TestID(s), testType |-> type, loadLevel |-> load,
         isActive |-> TRUE] \in RequiredTest
    BY <2>2 DEF RequiredTest
  <2>4. intake' \in Intake
    BY <2>1, <2>3, StoreOrderFacts, MaxTestAssumption DEF Slots, Intake
  <2> QED
    BY <1>1, <2>4 DEF ParseTestJson, TypeOK
<1>2. CASE StoreField
  <2>1. slots' \in [Slots -> RequiredTest] /\ late' \subseteq Slots
    BY <1>2, StoredField DEF TransferInv, TypeOK
  <2>2. intake' \in Intake
    <3>1. intake' = [intake EXCEPT !.next = @ + 1] /\ intake.next <= Len(StoreOrder)
      BY <1>2 DEF StoreField
    <3>2. intake.next + 1 \in 1..(Len(StoreOrder) + 1)
      BY <3>1, StoreOrderFacts DEF TypeOK, Intake
    <3> QED
      BY <3>1, <3>2 DEF TypeOK, Intake
  <2> QED
    BY <1>2, <2>1, <2>2 DEF StoreField, TypeOK
<1>3. CASE SetNewTest
  BY <1>3, NoCallTypes DEF SetNewTest, TypeOK
<1>4. CASE Update
  <2>1. slots' = slots /\ intake' = intake /\ late' \subseteq Slots
    BY <1>4, UpdateTypes DEF TypeOK
  <2>2. update' \in Transfer
    BY <1>4, TransferType
  <2> QED
    BY <1>4, <2>1, <2>2, UpdateTypes DEF TypeOK
<1>5. CASE UNCHANGED vars
  BY <1>5 DEF vars, TypeOK
<1> QED
  BY <1>1, <1>2, <1>3, <1>4, <1>5 DEF Next, FinishIntake

-------------------------------------------------------------------------------
LEMMA NextIntake == TypeOK /\ IntakeInv /\ [Next]_vars => IntakeInv'
<1> SUFFICES ASSUME TypeOK, IntakeInv, [Next]_vars PROVE IntakeInv'
  OBVIOUS
<1>1. ASSUME NEW type \in TestTypes, NEW load \in LoadLevels, ParseTestJson(type, load)
      PROVE  IntakeInv'
  <2>1. PICK s \in Slots :
          /\ ~slots[s].isActive
          /\ \A r \in 1..(s - 1) : slots[r].isActive
          /\ intake' = [slot |-> s, next |-> 1,
                        test |-> [testId |-> TestID(s), testType |-> type,
                                  loadLevel |-> load, isActive |-> TRUE]]
    BY <1>1 DEF ParseTestJson
  <2>2. /\ s \notin Active
        /\ \A r \in 1..(s - 1) : r \in Active
    <3>1. \A r \in 1..(s - 1) : r \in Slots
      BY MaxTestAssumption DEF Slots
    <3> QED
      BY <2>1, <3>1 DEF Active
  <2>3. Active' = Active /\ late' = late
    BY <1>1 DEF ParseTestJson, Active
  <2> QED
    BY <2>1, <2>2, <2>3 DEF IntakeInv
<1>2. CASE StoreField
  <2>1. /\ intake.slot \in Slots /\ intake.slot \notin Active
        /\ intake.next = 4 => /\ Active' = Active \union {intake.slot}
                              /\ late' = late \union {intake.slot}
        /\ intake.next # 4 => Active' = Active /\ late' = late
    BY <1>2, StoredField
  <2>2. /\ intake'.slot = intake.slot /\ intake'.test = intake.test
        /\ intake'.next = intake.next + 1 /\ intake.next \in 1..4
    BY <1>2, StoreOrderFacts DEF StoreField, TypeOK, Intake
  <2>3. \A r \in 1..(intake.slot - 1) : r \in Active
    BY <2>1 DEF IntakeInv, Slots
  <2>4. \A s \in Active : s < intake.slot
    BY <2>1 DEF IntakeInv, Slots, Active
  <2>5. CASE intake.next = 4
    BY <2>1, <2>2, <2>3, <2>4, <2>5, StoreOrderFacts DEF IntakeInv, Slots, Active
  <2>6. CASE intake.next # 4
    BY <2>1, <2>2, <2>3, <2>6, StoreOrderFacts DEF IntakeInv, Slots
  <2> QED
    BY <2>5, <2>6
<1>3. CASE SetNewTest
  BY <1>3 DEF SetNewTest, IntakeInv, NoIntake, Active
<1>4. CASE Update
  <2>1. slots' = slots /\ intake' = intake /\ (late' = late \/ late' = {})
    BY <1>4 DEF Update, Serve, CountSlot, EndCount, FillSlot, EndFill, AddTest,
                PublishTest, ClearNewTest
  <2> QED
    BY <2>1 DEF IntakeInv, Active
<1>5. CASE UNCHANGED vars
  BY <1>5 DEF vars, IntakeInv, Active
<1> QED
  BY <1>1, <1>2, <1>3, <1>4, <1>5 DEF Next, FinishIntake

LEMMA NextRequest == TypeOK /\ IntakeInv /\ RequestInv /\ [Next]_vars => RequestInv'
<1> SUFFICES ASSUME TypeOK, IntakeInv, RequestInv, [Next]_vars PROVE RequestInv'
  OBVIOUS
<1>1. ASSUME NEW type \in TestTypes, NEW load \in LoadLevels, ParseTestJson(type, load)
      PROVE  RequestInv'
  <2>1. /\ intake'.test.testType = type /\ intake'.test.loadLevel = load
        /\ intake'.next = 1
    BY <1>1 DEF ParseTestJson
  <2>2. \A s \in Active : ~SameTest(slots[s], intake'.test)
    BY <1>1, <2>1 DEF ParseTestJson, SameTest, Active
  <2>3. slots' = slots /\ Active' = Active
    BY <1>1 DEF ParseTestJson, Active
  <2> QED
    BY <2>1, <2>2, <2>3 DEF RequestInv
<1>2. CASE StoreField
  <2> DEFINE s == intake.slot
  <2>1. /\ intake'.slot = s /\ intake'.test = intake.test /\ s # 0
        /\ intake'.next = intake.next + 1 /\ intake.next \in 1..4
    BY <1>2, StoreOrderFacts DEF StoreField, TypeOK, Intake
  <2>2. /\ s \in Slots /\ s \notin Active
        /\ \A r \in Slots \ {s} : slots'[r] = slots[r]
        /\ slots'[s].testType = IF intake.next = 2 THEN intake.test.testType
                                ELSE slots[s].testType
        /\ slots'[s].loadLevel = IF intake.next = 3 THEN intake.test.loadLevel
                                 ELSE slots[s].loadLevel
    BY <1>2, StoredField
  <2>3. /\ intake.next = 4 => Active' = Active \union {s}
        /\ intake.next # 4 => Active' = Active
    BY <1>2, StoredField
  <2>4. \A r \in Active : slots'[r] = slots[r]
    BY <2>2 DEF Active
  <2>5. /\ intake'.next > 2 => slots'[s].testType = intake.test.testType
        /\ intake'.next > 3 => slots'[s].loadLevel = intake.test.loadLevel
    BY <2>1, <2>2 DEF RequestInv
  <2>6. \A r \in Active' : /\ slots'[r].testType \in TestTypes
                            /\ slots'[r].loadLevel \in LoadLevels
    BY <2>1, <2>3, <2>4, <2>5 DEF RequestInv
  <2>7. intake'.next <= Len(StoreOrder) =>
          \A r \in Active' : ~SameTest(slots'[r], intake'.test)
    BY <2>1, <2>3, <2>4, StoreOrderFacts DEF RequestInv
  <2> QED
    BY <2>1, <2>5, <2>6, <2>7 DEF RequestInv
<1>3. CASE SetNewTest
  BY <1>3 DEF SetNewTest, RequestInv, NoIntake, Active
<1>4. CASE Update
  <2>1. slots' = slots /\ intake' = intake
    BY <1>4 DEF Update, Serve, CountSlot, EndCount, FillSlot, EndFill, AddTest,
                PublishTest, ClearNewTest
  <2> QED
    BY <2>1 DEF RequestInv, Active
<1>5. CASE UNCHANGED vars
  BY <1>5 DEF vars, RequestInv, Active
<1> QED
  BY <1>1, <1>2, <1>3, <1>4, <1>5 DEF Next, FinishIntake

\* Steps of the intake, as the transfer sees them: what is active stays as it
\* is, and what becomes active is late.
LEMMA IntakeStep ==
  ASSUME TypeOK, IntakeInv, [Next]_vars, ~Update
  PROVE  /\ UNCHANGED <<update, managed, numTest>>
         /\ Active \subseteq Active' /\ Active' \ late' \subseteq Active \ late
         /\ \A s \in Active : slots'[s] = slots[s]
         /\ late \subseteq late'
<1>1. CASE StoreField
  BY <1>1, StoredField DEF StoreField, Active
<1>2. CASE ~StoreField
  BY <1>2 DEF Next, FinishIntake, ParseTestJson, SetNewTest, vars, Active
<1> QED
  BY <1>1, <1>2

LEMMA IntakeKeeps ==
  ASSUME TypeOK, TransferInv, [Next]_vars, ~Update
  PROVE  ManagedInv' /\ CountInv' /\ FillInv' /\ AddInv' /\ ReportInv'
<1>1. /\ UNCHANGED <<update, managed, numTest>>
      /\ Active \subseteq Active' /\ Active' \ late' \subseteq Active \ late
      /\ \A s \in Active : slots'[s] = slots[s]
      /\ late # {} => late' # {}
  BY IntakeStep DEF TransferInv
<1>2. \A i : Counts(i) => Counts(i)'
  BY <1>1 DEF Counts
<1>3. ASSUME NEW n \in Nat, n <= update.activeTestCount, 1..update.activeTestCount \subseteq Active
      PROVE  (Copied(n) => Copied(n)') /\ (Added(n) => Added(n)')
  <2>1. \A k \in 1..n : k \in Active
    BY <1>3 DEF TypeOK, Transfer
  <2> QED
    BY <1>1, <2>1 DEF Copied, Added
<1>4. /\ update.i \in 1..(MaxTest + 1) /\ update.activeTestCount \in Nat
      /\ update.i - 1 \in Nat
  BY MaxTestAssumption DEF TypeOK, Transfer
<1>5. ManagedInv' /\ CountInv'
  BY <1>1, <1>2 DEF TransferInv, ManagedInv, CountInv
<1>6. FillInv'
  BY <1>1, <1>2, <1>3, <1>4 DEF TransferInv, FillInv, Counts
<1>7. AddInv'
  <2> SUFFICES ASSUME update.at \in {"add", "publish"} PROVE AddInv'
    BY <1>1 DEF AddInv
  <2>1. Counts(MaxTest + 1)' /\ Copied(update.activeTestCount)' /\ Added(update.i - 1)'
    BY <1>1, <1>2, <1>3, <1>4 DEF TransferInv, AddInv, Counts
  <2>2. update.i \in Active
    BY <1>4 DEF TransferInv, AddInv, Counts
  <2> QED
    BY <1>1, <2>1, <2>2 DEF TransferInv, AddInv
<1>8. ReportInv'
  BY <1>1, <1>2, <1>3, <1>4 DEF TransferInv, ReportInv, Counts
<1> QED
  BY <1>5, <1>6, <1>7, <1>8

-------------------------------------------------------------------------------
\* A transfer begins: nothing is late, nothing is counted.
LEMMA ServeKeeps ==
  ASSUME TypeOK, TransferInv, Serve
  PROVE  ManagedInv' /\ CountInv' /\ FillInv' /\ AddInv' /\ ReportInv'
<1>1. /\ update' = [at |-> "count", i |-> 1, activeTestCount |-> 0, activeTests |-> <<>>]
      /\ update.at = "wait"
      /\ UNCHANGED <<slots, managed, numTest>>
  BY DEF Serve, NoTransfer
<1>2. Counts(1)'
  BY <1>1 DEF Counts, Active, Slots
<1> QED
  BY <1>1, <1>2 DEF TransferInv, ManagedInv, CountInv, FillInv, AddInv, ReportInv

\* An active slot that is counted and not late comes after counted ones only.
LEMMA CountSlotKeeps ==
  ASSUME TypeOK, TransferInv, CountSlot
  PROVE  ManagedInv' /\ CountInv' /\ FillInv' /\ AddInv' /\ ReportInv'
<1> DEFINE n == update.activeTestCount
           i == update.i
<1>1. /\ i \in Slots /\ i \in Nat /\ n \in Nat /\ n < i /\ Counts(i)
      /\ update.at = "count" /\ update.activeTests = <<>>
  BY DEF CountSlot, TypeOK, Transfer, Slots, TransferInv, CountInv
<1>2. /\ update'.at = "count" /\ update'.i = i + 1 /\ update'.activeTests = <<>>
      /\ update'.activeTestCount = IF i \in Active THEN n + 1 ELSE n
      /\ UNCHANGED <<slots, managed, numTest, late>>
  BY <1>1 DEF CountSlot, TypeOK, Transfer, Active
<1>3. Active' = Active
  BY <1>2 DEF Active
<1>4. CASE i \notin Active
  <2>1. Counts(update.i)'
    BY <1>1, <1>2, <1>3, <1>4 DEF Counts, Active, Slots
  <2> QED
    BY <1>1, <1>2, <1>4, <2>1
       DEF TransferInv, ManagedInv, CountInv, FillInv, AddInv, ReportInv
<1>5. CASE i \in Active
  <2>1. 1..(n + 1) \subseteq Active
    BY <1>1, <1>5 DEF Counts, TransferInv, IntakeInv, Slots
  <2>2. ASSUME NEW s \in Active \ late, s < i + 1 PROVE s <= n + 1
    <3>1. s \in Nat \ {0}
      BY <2>2 DEF Active, Slots
    <3>2. CASE s = i /\ s # 1
      <4>1. s - 1 \in Active \ late
        BY <3>1, <3>2, <2>2 DEF TransferInv, IntakeInv
      <4>2. s - 1 <= n
        BY <1>1, <3>1, <3>2, <4>1 DEF Counts
      <4> QED
        BY <3>1, <4>2, <1>1
    <3>3. CASE s = 1
      BY <3>3, <1>1
    <3>4. CASE s # i
      BY <1>1, <2>2, <3>1, <3>4 DEF Counts, Slots
    <3> QED
      BY <3>2, <3>3, <3>4
  <2>3. Counts(update.i)'
    BY <1>2, <1>3, <1>5, <2>1, <2>2 DEF Counts
  <2> QED
    BY <1>1, <1>2, <1>5, <2>3
       DEF TransferInv, ManagedInv, CountInv, FillInv, AddInv, ReportInv
<1> QED
  BY <1>4, <1>5

LEMMA EndCountKeeps ==
  ASSUME TypeOK, TransferInv, EndCount
  PROVE  ManagedInv' /\ CountInv' /\ FillInv' /\ AddInv' /\ ReportInv'
<1> DEFINE n == update.activeTestCount
<1>1. /\ update.i > MaxTest /\ update.i \in Nat /\ n \in Nat /\ numTest \in Nat
      /\ update.at = "count" /\ update.activeTests = <<>> /\ Counts(update.i)
  BY DEF EndCount, TypeOK, Transfer, TransferInv, CountInv
<1>2. /\ update'.at = IF n = 0 THEN "report" ELSE "fill"
      /\ update'.i = 1 /\ update'.activeTests = <<>> /\ update'.activeTestCount = n
      /\ UNCHANGED <<slots, managed, numTest, late>>
  BY <1>1 DEF EndCount, TypeOK, Transfer
<1>3. Active' = Active
  BY <1>2 DEF Active
<1>4. Counts(MaxTest + 1)'
  BY <1>1, <1>2, <1>3, MaxTestAssumption DEF Counts, Active, Slots
<1>5. Copied(0)' /\ Added(0)'
  BY <1>1, <1>2 DEF Copied, Added
<1> QED
  BY <1>1, <1>2, <1>4, <1>5
     DEF TransferInv, ManagedInv, CountInv, FillInv, AddInv, ReportInv

\* While slots within the count are copied, each of them is active.
LEMMA FillSlotKeeps ==
  ASSUME TypeOK, TransferInv, FillSlot
  PROVE  ManagedInv' /\ CountInv' /\ FillInv' /\ AddInv' /\ ReportInv'
<1> DEFINE n == update.activeTestCount
           i == update.i
           b == update.activeTests
<1>1. /\ i \in Slots /\ i \in Nat \ {0} /\ n \in Nat \ {0} /\ Counts(MaxTest + 1)
      /\ b \in Seq(RequiredTest) /\ slots[i] \in RequiredTest
      /\ update.at = "fill"
      /\ IF i <= n THEN Len(b) = i - 1 /\ Copied(i - 1)
                   ELSE Len(b) >= n /\ Copied(n)
      /\ Len(b) > n => late # {}
  BY DEF FillSlot, TypeOK, Transfer, Slots, TransferInv, FillInv
<1>2. /\ update'.at = "fill" /\ update'.i = i + 1 /\ update'.activeTestCount = n
      /\ update'.activeTests = IF i \in Active THEN Append(b, slots[i]) ELSE b
      /\ UNCHANGED <<slots, managed, numTest, late>>
  BY <1>1 DEF FillSlot, TypeOK, Transfer, Active
<1>3. Active' = Active /\ Counts(MaxTest + 1)'
  BY <1>1, <1>2 DEF Active, Counts
<1>4. CASE i <= n
  <2>1. i \in Active
    BY <1>1, <1>4 DEF Counts
  <2>2. update'.activeTests = Append(b, slots[i]) /\ Len(b) = i - 1
    BY <1>1, <1>2, <1>4, <2>1
  <2>3. Len(update'.activeTests) = i /\ update'.activeTests[i] = slots[i]
    BY <1>1, <2>2
  <2>4. \A k \in 1..(i - 1) : update'.activeTests[k] = b[k]
    BY <1>1, <2>2
  <2>5. \A k \in 1..i : update'.activeTests[k] = slots'[k]
    BY <1>1, <1>2, <1>4, <2>3, <2>4 DEF Copied
  <2>6. Copied(update.i - 1)'
    <3>1. update'.i - 1 = i
      BY <1>1, <1>2
    <3> QED
      BY <2>5, <3>1 DEF Copied
  <2>7. CASE i = n
    BY <1>1, <1>2, <1>3, <2>3, <2>6, <2>7
       DEF TransferInv, ManagedInv, CountInv, FillInv, AddInv, ReportInv
  <2>8. CASE i < n
    BY <1>1, <1>2, <1>3, <2>3, <2>6, <2>8
       DEF TransferInv, ManagedInv, CountInv, FillInv, AddInv, ReportInv
  <2> QED
    BY <1>1, <1>4, <2>7, <2>8
<1>5. CASE i > n
  <2>1. Len(b) >= n /\ Copied(n)
    BY <1>1, <1>5
  <2>2. \A k \in 1..n : update'.activeTests[k] = b[k]
    BY <1>1, <1>2, <2>1
  <2>3. Len(update'.activeTests) >= n /\ Copied(n)'
    BY <1>1, <1>2, <2>1, <2>2 DEF Copied
  <2>4. i \in Active => i \in late
    BY <1>1, <1>5, MaxTestAssumption DEF Counts, Slots
  <2>5. Len(update'.activeTests) > n => late # {}
    BY <1>1, <1>2, <2>4
  <2> QED
    BY <1>1, <1>2, <1>3, <1>5, <2>3, <2>5
       DEF TransferInv, ManagedInv, CountInv, FillInv, AddInv, ReportInv
<1> QED
  BY <1>1, <1>4, <1>5

LEMMA EndFillKeeps ==
  ASSUME TypeOK, TransferInv, EndFill
  PROVE  ManagedInv' /\ CountInv' /\ FillInv' /\ AddInv' /\ ReportInv'
<1> DEFINE n == update.activeTestCount
<1>1. /\ update.i > MaxTest /\ update.i \in Nat /\ n \in 1..MaxTest /\ numTest \in Nat
      /\ update.at = "fill" /\ Counts(MaxTest + 1)
      /\ Len(update.activeTests) >= n /\ Copied(n)
      /\ Len(update.activeTests) > n => late # {}
  BY MaxTestAssumption DEF EndFill, TypeOK, Transfer, TransferInv, FillInv
<1>2. /\ update'.at = "add" /\ update'.i = 1 /\ update'.activeTestCount = n
      /\ update'.activeTests = update.activeTests
      /\ UNCHANGED <<slots, managed, numTest, late>>
  BY <1>1, MaxTestAssumption DEF EndFill, TypeOK, Transfer
<1>3. Counts(MaxTest + 1)' /\ Copied(n)'
  BY <1>1, <1>2 DEF Counts, Copied, Active
<1>4. Added(0)'
  BY <1>1, <1>2 DEF Added
<1> QED
  BY <1>1, <1>2, <1>3, <1>4
     DEF TransferInv, ManagedInv, CountInv, FillInv, AddInv, ReportInv

LEMMA AddTestKeeps ==
  ASSUME TypeOK, TransferInv, AddTest
  PROVE  ManagedInv' /\ CountInv' /\ FillInv' /\ AddInv' /\ ReportInv'
<1> DEFINE n == update.activeTestCount
           i == update.i
           entry == update.activeTests[update.i]
<1>1. /\ update.at = "add" /\ i \in Nat \ {0} /\ n \in Nat /\ i <= n
      /\ update.activeTests \in Seq(RequiredTest)
      /\ Len(update.activeTests) >= n
      /\ numTest \in Nat /\ managed \in Seq(RequiredTest) /\ Len(managed) = numTest
      /\ Counts(MaxTest + 1) /\ Copied(n) /\ Added(i - 1)
      /\ Len(update.activeTests) > n => late # {}
  BY DEF AddTest, TypeOK, Transfer, TransferInv, AddInv, ManagedInv
<1>2. entry \in RequiredTest /\ entry = slots[i]
  BY <1>1 DEF Copied
<1>3. /\ update'.at = "publish" /\ update'.i = i /\ update'.activeTestCount = n
      /\ update'.activeTests = update.activeTests
      /\ managed' = Append(managed, entry)
      /\ UNCHANGED <<slots, numTest, late>>
  BY <1>1 DEF AddTest, TypeOK, Transfer
<1>4. /\ Len(managed') = numTest + 1 /\ managed'[numTest + 1] = slots[i]
      /\ \A k \in 1..numTest : managed'[k] = managed[k]
  BY <1>1, <1>2, <1>3
<1>5. Counts(MaxTest + 1)' /\ Copied(n)'
  BY <1>1, <1>3 DEF Counts, Copied, Active
<1>6. Added(update.i - 1)'
  <2>1. i - 1 <= numTest /\ \A k \in 1..(i - 1) : managed[numTest - (i - 1) + k] = slots[k]
    BY <1>1 DEF Added
  <2>2. \A k \in 1..(i - 1) : numTest - (i - 1) + k \in 1..numTest
    BY <1>1, <2>1
  <2>3. \A k \in 1..(i - 1) : managed'[numTest - (i - 1) + k] = slots[k]
    BY <1>4, <2>1, <2>2
  <2> QED
    BY <1>3, <2>1, <2>3 DEF Added
<1> QED
  BY <1>1, <1>3, <1>4, <1>5, <1>6
     DEF TransferInv, ManagedInv, CountInv, FillInv, AddInv, ReportInv

LEMMA PublishTestKeeps ==
  ASSUME TypeOK, TransferInv, PublishTest
  PROVE  ManagedInv' /\ CountInv' /\ FillInv' /\ AddInv' /\ ReportInv'
<1> DEFINE n == update.activeTestCount
           i == update.i
<1>1. /\ update.at = "publish" /\ i \in Nat \ {0} /\ n \in Nat /\ i <= n
      /\ Len(update.activeTests) >= n
      /\ numTest \in Nat /\ Len(managed) = numTest + 1
      /\ Counts(MaxTest + 1) /\ Copied(n) /\ Added(i - 1)
      /\ Len(update.activeTests) > n => late # {}
      /\ managed[numTest + 1] = slots[i]
  BY DEF PublishTest, TypeOK, Transfer, TransferInv, AddInv, ManagedInv
<1>2. /\ update'.at = IF i < n THEN "add" ELSE "report"
      /\ update'.i = i + 1 /\ update'.activeTestCount = n
      /\ update'.activeTests = update.activeTests
      /\ numTest' = numTest + 1
      /\ UNCHANGED <<slots, managed, late>>
  BY <1>1 DEF PublishTest, TypeOK, Transfer
<1>3. Counts(MaxTest + 1)' /\ Copied(n)'
  BY <1>1, <1>2 DEF Counts, Copied, Active
<1>4. i <= numTest + 1 /\ \A k \in 1..i : managed[numTest + 1 - i + k] = slots[k]
  <2>1. i - 1 <= numTest /\ \A k \in 1..(i - 1) : managed[numTest - (i - 1) + k] = slots[k]
    BY <1>1 DEF Added
  <2>2. ASSUME NEW k \in 1..i PROVE managed[numTest + 1 - i + k] = slots[k]
    <3>1. CASE k = i
      <4>1. numTest + 1 - i + k = numTest + 1
        BY <1>1, <3>1
      <4> QED
        BY <1>1, <3>1, <4>1
    <3>2. CASE k \in 1..(i - 1)
      <4>1. numTest + 1 - i + k = numTest - (i - 1) + k
        BY <1>1, <3>2
      <4> QED
        BY <2>1, <3>2, <4>1
    <3> QED
      BY <1>1, <3>1, <3>2
  <2> QED
    BY <1>1, <2>1, <2>2
<1>5. CASE i < n
  <2>1. Added(update.i - 1)'
    <3>1. update'.i - 1 = i
      BY <1>1, <1>2
    <3>2. numTest' - i = numTest + 1 - i /\ i <= numTest'
      BY <1>1, <1>2, <1>4
    <3> QED
      BY <1>2, <1>4, <3>1, <3>2 DEF Added
  <2> QED
    BY <1>1, <1>2, <1>3, <1>5, <2>1
       DEF TransferInv, ManagedInv, CountInv, FillInv, AddInv, ReportInv
<1>6. CASE i = n
  <2>1. Added(update.activeTestCount)'
    <3>1. update'.activeTestCount = i
      BY <1>2, <1>6
    <3>2. numTest' - i = numTest + 1 - i /\ i <= numTest'
      BY <1>1, <1>2, <1>4
    <3> QED
      BY <1>2, <1>4, <3>1, <3>2 DEF Added
  <2> QED
    BY <1>1, <1>2, <1>3, <1>6, <2>1
       DEF TransferInv, ManagedInv, CountInv, FillInv, AddInv, ReportInv
<1> QED
  BY <1>1, <1>5, <1>6

LEMMA NextTransfer == TypeOK /\ TransferInv /\ [Next]_vars => TransferInv'
<1> SUFFICES ASSUME TypeOK, TransferInv, [Next]_vars PROVE TransferInv'
  OBVIOUS
<1>1. IntakeInv' /\ RequestInv'
  BY NextIntake, NextRequest DEF TransferInv
<1>2. CASE ~Update
  BY <1>1, <1>2, IntakeKeeps DEF TransferInv
<1>3. CASE ClearNewTest
  BY <1>1, <1>3
     DEF ClearNewTest, NoTransfer, TransferInv, ManagedInv, CountInv, FillInv, AddInv,
         ReportInv
<1>4. CASE Update /\ ~ClearNewTest
  BY <1>1, <1>4, ServeKeeps, CountSlotKeeps, EndCountKeeps, FillSlotKeeps, EndFillKeeps,
     AddTestKeeps, PublishTestKeeps
     DEF Update, TransferInv
<1> QED
  BY <1>2, <1>3, <1>4

LEMMA Invariants == Spec => [](TypeOK /\ TransferInv)
<1>1. Init => TypeOK /\ TransferInv
  BY InitType, InitInv
<1>2. TypeOK /\ TransferInv /\ [Next]_vars => (TypeOK /\ TransferInv)'
  BY NextType, NextTransfer
<1> QED
  BY <1>1, <1>2, PTL DEF Spec

\* Every variable keeps its type; for one, addTests never reads behind the
\* array transferTest hands to it.
THEOREM TypeCorrect == Spec => []TypeOK
BY Invariants, PTL

\* transferTest hands over the first slots, in order and complete, although
\* AsyncTCP activates further ones while it counts and copies.
THEOREM HandsOverPrefix == Spec => []TransferIsPrefix
<1>1. TypeOK /\ TransferInv => TransferIsPrefix
  BY DEF TransferInv, AddInv, Copied, TransferIsPrefix
<1> QED
  BY <1>1, Invariants, PTL

\* The array of transferTest is filled to its end, and beyond it only if a test
\* was accepted since the transfer began.
THEOREM FillsArray == Spec => []FillFits
<1>1. TypeOK /\ TransferInv => FillFits
  <2> SUFFICES ASSUME TypeOK, TransferInv PROVE FillFits
    OBVIOUS
  <2>1. /\ update.activeTestCount \in Nat /\ Len(update.activeTests) \in Nat
        /\ update.at \in {"wait", "count", "fill", "add", "publish", "report"}
    BY DEF TypeOK, Transfer
  <2> QED
    BY <2>1 DEF TransferInv, CountInv, FillInv, AddInv, FillFits
<1> QED
  BY <1>1, Invariants, PTL

\* When transferTest has returned, every test that was active when it began is
\* in the manager's list.
THEOREM TransfersAll == Spec => []TransferComplete
<1>1. TypeOK /\ TransferInv => TransferComplete
  <2> SUFFICES ASSUME TypeOK, TransferInv, update.at = "report",
                      NEW s \in Active \ late
               PROVE  \E k \in 1..update.activeTestCount :
                        managed[numTest - update.activeTestCount + k] = slots[s]
    BY DEF TransferComplete
  <2>1. s \in Nat \ {0} /\ s < MaxTest + 1
    BY MaxTestAssumption DEF Active, Slots
  <2>2. s \in 1..update.activeTestCount
    BY <2>1 DEF TransferInv, ReportInv, Counts, TypeOK, Transfer
  <2> QED
    BY <2>2 DEF TransferInv, ReportInv, Added
<1> QED
  BY <1>1, Invariants, PTL

-------------------------------------------------------------------------------
(***************************************************************************)
(* The refinement: intake and transfer implement TestHandover.             *)
(***************************************************************************)

\* What is active is what lies before the first free slot.
LEMMA ActiveIsInterval ==
  ASSUME TypeOK, IntakeInv
  PROVE  /\ Cardinality(Active) \in 0..MaxTest
         /\ Active = 1..Cardinality(Active)
<1> DEFINE m == Cardinality(Active)
<1>1. IsFiniteSet(1..MaxTest) /\ Cardinality(1..MaxTest) = MaxTest
  BY FS_Interval, MaxTestAssumption
<1>2. Active \subseteq 1..MaxTest
  BY DEF Active, Slots
<1>3. IsFiniteSet(Active) /\ m \in Nat /\ m <= MaxTest
  BY <1>1, <1>2, FS_Subset, FS_CardinalityType
<1>4. ASSUME NEW s \in Active PROVE s \in 1..m
  <2>1. s \in Nat \ {0}
    BY <1>2
  <2>2. 1..s \subseteq Active
    BY <2>1 DEF IntakeInv
  <2>3. Cardinality(1..s) = s
    BY <2>1, FS_Interval
  <2> QED
    BY <1>3, <2>1, <2>2, <2>3, FS_Subset
<1>5. ASSUME NEW s \in 1..m, s \notin Active PROVE FALSE
  <2>1. Active \subseteq 1..(s - 1)
    BY <1>2, <1>5 DEF IntakeInv
  <2>2. IsFiniteSet(1..(s - 1)) /\ Cardinality(1..(s - 1)) = s - 1
    <3>1. s - 1 \in Int /\ 1 \in Int /\ s \in Nat /\ s >= 1
      BY <1>3
    <3>2. /\ IsFiniteSet(1..(s - 1))
          /\ Cardinality(1..(s - 1)) = IF 1 > s - 1 THEN 0 ELSE (s - 1) - 1 + 1
      BY <3>1, FS_Interval, Zenon
    <3> QED
      BY <3>1, <3>2
  <2>3. m <= s - 1
    BY <2>1, <2>2, FS_Subset
  <2> QED
    BY <1>3, <2>3
<1>6. Active = 1..m
  BY <1>4, <1>5
<1> QED
  BY <1>3, <1>6, MaxTestAssumption

\* A step that leaves the active slots alone changes no request.
LEMMA SameRequests ==
  ASSUME TypeOK, IntakeInv, Active' = Active, \A s \in Active : slots'[s] = slots[s]
  PROVE  Requested' = Requested
<1> DEFINE m == Cardinality(Active)
<1>1. Active = 1..m /\ Cardinality(Active') = m
  BY ActiveIsInterval
<1>2. \A k \in 1..m : TestOf(slots'[k]) = TestOf(slots[k])
  BY <1>1
<1> QED
  BY <1>1, <1>2, Zenon DEF Requested

\* A step that leaves the counted entries alone hands nothing over.
LEMMA SameHanded ==
  ASSUME TypeOK, numTest' = numTest, \A k \in 1..numTest : managed'[k] = managed[k]
  PROVE  Handed' = Handed
BY Zenon DEF Handed

\* Both lists are sequences of tests.
LEMMA RequestedFacts ==
  ASSUME TypeOK, IntakeInv, RequestInv
  PROVE  /\ Requested \in Seq(TestTypes \X LoadLevels)
         /\ Len(Requested) = Cardinality(Active)
         /\ Active = 1..Len(Requested)
         /\ \A k \in Active : Requested[k] = TestOf(slots[k])
<1> DEFINE m == Cardinality(Active)
<1>1. m \in Nat /\ Active = 1..m
  BY ActiveIsInterval, MaxTestAssumption
<1>2. \A k \in 1..m : TestOf(slots[k]) \in TestTypes \X LoadLevels
  BY <1>1 DEF RequestInv, TestOf
<1>3. Requested \in [1..m -> TestTypes \X LoadLevels]
  BY <1>2 DEF Requested
<1>4. Requested \in Seq(TestTypes \X LoadLevels) /\ Len(Requested) = m
  BY <1>1, <1>3
<1> QED
  BY <1>1, <1>4 DEF Requested

\* An activation appends the test it activates, which is a new one.
LEMMA ActivationRequests ==
  ASSUME TypeOK, TransferInv, StoreField, intake.next = 4
  PROVE  Handover!Request
<1> DEFINE m == Cardinality(Active)
           s == intake.slot
           t == TestOf(slots'[s])
<1>1. /\ s \in Slots /\ s \notin Active
      /\ \A r \in Slots \ {s} : slots'[r] = slots[r]
      /\ slots'[s].testType = slots[s].testType
      /\ slots'[s].loadLevel = slots[s].loadLevel
      /\ Active' = Active \union {s}
  BY StoredField DEF TransferInv
<1>2. /\ m \in Nat /\ Active = 1..m
      /\ Requested \in Seq(TestTypes \X LoadLevels) /\ Len(Requested) = m
      /\ \A k \in 1..m : Requested[k] = TestOf(slots[k])
  BY ActiveIsInterval, RequestedFacts DEF TransferInv
<1>3. s = m + 1
  <2>1. s \in Nat \ {0} /\ \A r \in 1..(s - 1) : r \in Active
    BY <1>1, MaxTestAssumption DEF TransferInv, IntakeInv, Slots
  <2> QED
    BY <1>1, <1>2, <2>1
<1>4. Cardinality(Active') = m + 1
  <2>1. IsFiniteSet(Active)
    BY <1>2, FS_Interval
  <2> QED
    BY <1>1, <2>1, FS_AddElement
<1>5. /\ slots[s].testType = intake.test.testType
      /\ slots[s].loadLevel = intake.test.loadLevel
      /\ intake.test.testType \in TestTypes /\ intake.test.loadLevel \in LoadLevels
      /\ \A k \in Active : ~SameTest(slots[k], intake.test)
  BY <1>1, MaxTestAssumption, StoreOrderFacts DEF TransferInv, RequestInv, Slots
<1>6. t \in TestTypes \X LoadLevels
  BY <1>1, <1>5 DEF TestOf
<1>7. \A k \in 1..m : Requested[k] # t
  BY <1>1, <1>2, <1>5 DEF TestOf, SameTest
<1>8. t \notin Handover!Range(Requested)
  BY <1>2, <1>7 DEF Handover!Range
<1>9. Requested' = Append(Requested, t)
  <2>1. Requested' = [k \in 1..(m + 1) |-> TestOf(slots'[k])]
    BY <1>4 DEF Requested
  <2>2. \A k \in 1..m : TestOf(slots'[k]) = Requested[k]
    <3>1. \A k \in 1..m : k \in Slots \ {s}
      BY <1>2, <1>3 DEF Active
    <3>2. \A k \in 1..m : slots'[k] = slots[k]
      BY <1>1, <3>1
    <3> QED
      BY <1>2, <3>2
  <2>3. Requested' = [k \in 1..(m + 1) |-> IF k = m + 1 THEN t ELSE Requested[k]]
    BY <1>2, <1>3, <2>1, <2>2
  <2> QED
    BY <1>2, <2>3
<1>10. Handed' = Handed
  BY SameHanded DEF StoreField
<1> QED
  BY <1>6, <1>8, <1>9, <1>10 DEF Handover!Request

\* Counting an entry hands over the request of its slot, in its turn.
LEMMA PublishHandsOver ==
  ASSUME TypeOK, TransferInv, PublishTest
  PROVE  Handover!HandOver
<1> DEFINE n == update.activeTestCount
           i == update.i
<1>1. /\ i \in Nat \ {0} /\ n \in Nat /\ i <= n
      /\ numTest \in Nat /\ Len(managed) = numTest + 1
      /\ 1..n \subseteq Active /\ Added(i - 1)
      /\ managed[numTest + 1] = slots[i]
      /\ numTest' = numTest + 1 /\ UNCHANGED <<slots, managed>>
  BY DEF PublishTest, TypeOK, Transfer, TransferInv, AddInv, ManagedInv, Counts
<1>2. i \in DOMAIN Requested /\ Requested[i] = TestOf(slots[i])
  BY <1>1, RequestedFacts DEF TransferInv
<1>3. Handed' = Append(Handed, Requested[i])
  <2>1. Handed' = [k \in 1..(numTest + 1) |-> TestOf(managed[k])]
    BY <1>1 DEF Handed
  <2>2. Handed' = [k \in 1..(numTest + 1) |->
                     IF k = numTest + 1 THEN Requested[i] ELSE Handed[k]]
    BY <1>1, <1>2, <2>1 DEF Handed
  <2>3. Len(Handed) = numTest
    BY <1>1 DEF Handed
  <2> QED
    BY <1>1, <2>2, <2>3
<1>4. i > 1 => Handed # <<>> /\ Handover!Last(Handed) = Requested[i - 1]
  <2> SUFFICES ASSUME i > 1 PROVE Handed # <<>> /\ Handover!Last(Handed) = Requested[i - 1]
    OBVIOUS
  <2>1. i - 1 \in 1..(i - 1) /\ i - 1 \in 1..n /\ i - 1 <= numTest
    BY <1>1 DEF Added
  <2>2. managed[numTest] = slots[i - 1]
    <3>1. managed[numTest - (i - 1) + (i - 1)] = slots[i - 1]
      BY <1>1, <2>1 DEF Added
    <3> QED
      BY <1>1, <2>1, <3>1
  <2>3. Requested[i - 1] = TestOf(slots[i - 1])
    BY <1>1, <2>1, RequestedFacts DEF TransferInv
  <2>4. Len(Handed) = numTest /\ Handed[numTest] = TestOf(managed[numTest])
    BY <1>1, <2>1 DEF Handed
  <2> QED
    BY <1>1, <2>1, <2>2, <2>3, <2>4 DEF Handover!Last
<1>5. Requested' = Requested
  BY <1>1, SameRequests DEF TransferInv, Active
<1> QED
  BY <1>2, <1>3, <1>4, <1>5 DEF Handover!HandOver

LEMMA HandoverStep ==
  ASSUME TypeOK, TransferInv, [Next]_vars
  PROVE  [Handover!Next]_(Handover!vars)
<1> USE DEF Handover!Next, Handover!vars
<1>1. CASE StoreField /\ intake.next = 4
  BY <1>1, ActivationRequests
<1>2. CASE PublishTest
  BY <1>2, PublishHandsOver
<1>3. CASE ~PublishTest /\ ~(StoreField /\ intake.next = 4)
  <2>1. Active' = Active /\ \A s \in Active : slots'[s] = slots[s]
    <3>1. CASE StoreField
      BY <1>3, <3>1, StoredField DEF TransferInv, Active
    <3>2. CASE ~StoreField
      BY <1>3, <3>2
         DEF Next, FinishIntake, ParseTestJson, SetNewTest, Update, Serve, CountSlot,
             EndCount, FillSlot, EndFill, AddTest, PublishTest, ClearNewTest, vars, Active
    <3> QED
      BY <3>1, <3>2
  <2>2. numTest' = numTest /\ \A k \in 1..numTest : managed'[k] = managed[k]
    <3>1. CASE AddTest
      <4>1. Len(managed) = numTest /\ managed \in Seq(RequiredTest)
        BY <3>1 DEF AddTest, TypeOK, TransferInv, ManagedInv
      <4>2. managed' = Append(managed, update.activeTests[update.i]) /\ numTest' = numTest
        BY <3>1 DEF AddTest
      <4> QED
        BY <4>1, <4>2 DEF TypeOK
    <3>2. CASE ~AddTest
      BY <1>3, <3>2
         DEF Next, FinishIntake, ParseTestJson, StoreField, SetNewTest, Update, Serve,
             CountSlot, EndCount, FillSlot, EndFill, ClearNewTest, vars
    <3> QED
      BY <3>1, <3>2
  <2>3. Requested' = Requested /\ Handed' = Handed
    BY <2>1, <2>2, SameRequests, SameHanded DEF TransferInv
  <2> QED
    BY <2>3
<1> QED
  BY <1>1, <1>2, <1>3

\* The manager is given the requests pass by pass, each from the first on and
\* without a gap, however AsyncTCP and userUpdateTask interleave.
THEOREM KeepsHandover == Spec => HandoverKept
<1>1. Init => Handover!Init
  <2> SUFFICES ASSUME Init PROVE Requested = <<>> /\ Handed = <<>>
    BY DEF Handover!Init
  <2>1. Active = {}
    BY EmptySlotType DEF Init, Active
  <2>2. Cardinality(Active) = 0 /\ numTest = 0
    BY <2>1, FS_EmptySet DEF Init
  <2> QED
    BY <2>2 DEF Requested, Handed
<1>2. TypeOK /\ TransferInv /\ [Next]_vars => [Handover!Next]_(Handover!vars)
  BY HandoverStep
<1> QED
  BY <1>1, <1>2, Invariants, PTL DEF Spec, HandoverKept, Handover!Spec

-------------------------------------------------------------------------------
(* How far transferTest is from its return.  userUpdateTask has the highest *)
(* priority of its core and does not wait inside.                           *)

\* At most so many steps are left to the transfer: the rest of a scan and its end,
\* the second scan, two steps for each test added, and the report.
TransferSteps ==
  LET scan == MaxTest + 2 - update.i
  IN CASE update.at = "count"   -> scan + (MaxTest + 1) + 2 * MaxTest + 1
       [] update.at = "fill"    -> scan + 2 * MaxTest + 1
       [] update.at = "add"     -> 2 * (update.activeTestCount + 1 - update.i) + 1
       [] update.at = "publish" -> 2 * (update.activeTestCount + 1 - update.i)
       [] update.at = "report"  -> 1
       [] OTHER -> 0

TransferIsBounded == TransferSteps \in 0..(4 * MaxTest + 3)

\* Each step of a transfer brings it nearer to its return; nothing that AsyncTCP does
\* meanwhile takes it back.
TransferNearsEnd ==
  /\ Update /\ update.at # "wait" => TransferSteps' < TransferSteps
  /\ ~Update => TransferSteps' = TransferSteps

LEMMA BoundHolds == TypeOK /\ TransferInv => TransferIsBounded
<1> SUFFICES ASSUME TypeOK, TransferInv PROVE TransferIsBounded
  OBVIOUS
<1>1. /\ MaxTest \in Nat \ {0} /\ update.i \in 1..(MaxTest + 1)
      /\ update.activeTestCount \in 0..MaxTest
      /\ update.at \in {"wait", "count", "fill", "add", "publish", "report"}
  BY MaxTestAssumption DEF TypeOK, Transfer
<1>2. update.at \in {"add", "publish"} => update.i <= update.activeTestCount
  BY DEF TransferInv, AddInv
<1> QED
  BY <1>1, <1>2 DEF TransferIsBounded, TransferSteps

LEMMA TransferNears == TypeOK /\ TransferInv /\ [Next]_vars => TransferNearsEnd
<1> SUFFICES ASSUME TypeOK, TransferInv, [Next]_vars PROVE TransferNearsEnd
  OBVIOUS
<1>1. /\ MaxTest \in Nat \ {0} /\ update \in Transfer
      /\ update.i \in 1..(MaxTest + 1) /\ update.activeTestCount \in 0..MaxTest
      /\ update.at \in {"wait", "count", "fill", "add", "publish", "report"}
  BY MaxTestAssumption DEF TypeOK, Transfer
<1>2. update.at \in {"add", "publish"} => update.i <= update.activeTestCount
  BY DEF TransferInv, AddInv
<1>3. ASSUME Update, update.at # "wait" PROVE TransferSteps' < TransferSteps
  <2>1. CASE CountSlot
    <3>1. update'.at = "count" /\ update'.i = update.i + 1
      BY <1>1, <2>1 DEF CountSlot, Transfer
    <3> QED
      BY <1>1, <2>1, <3>1 DEF CountSlot, TransferSteps
  <2>2. CASE EndCount
    <3>1. update'.at \in {"fill", "report"} /\ update'.i = 1
      BY <1>1, <2>2 DEF EndCount, Transfer
    <3> QED
      BY <1>1, <2>2, <3>1 DEF EndCount, TransferSteps
  <2>3. CASE FillSlot
    <3>1. update'.at = "fill" /\ update'.i = update.i + 1
      BY <1>1, <2>3 DEF FillSlot, Transfer
    <3> QED
      BY <1>1, <2>3, <3>1 DEF FillSlot, TransferSteps
  <2>4. CASE EndFill
    <3>1. /\ update'.at \in {"report", "add"} /\ update'.i = 1
          /\ update'.activeTestCount = update.activeTestCount
      BY <1>1, <2>4 DEF EndFill, Transfer
    <3> QED
      BY <1>1, <2>4, <3>1 DEF EndFill, TransferSteps
  <2>5. CASE AddTest
    <3>1. /\ update'.at = "publish" /\ update'.i = update.i
          /\ update'.activeTestCount = update.activeTestCount
      BY <1>1, <2>5 DEF AddTest, Transfer
    <3> QED
      BY <1>1, <1>2, <2>5, <3>1 DEF AddTest, TransferSteps
  <2>6. CASE PublishTest
    <3>1. /\ update'.at = IF update.i < update.activeTestCount THEN "add" ELSE "report"
          /\ update'.i = update.i + 1
          /\ update'.activeTestCount = update.activeTestCount
      BY <1>1, <2>6 DEF PublishTest, Transfer
    <3> QED
      BY <1>1, <1>2, <2>6, <3>1 DEF PublishTest, TransferSteps
  <2>7. CASE ClearNewTest
    <3>1. update'.at = "wait"
      BY <2>7 DEF ClearNewTest, NoTransfer
    <3> QED
      BY <2>7, <3>1 DEF ClearNewTest, TransferSteps
  <2> QED
    BY <1>3, <2>1, <2>2, <2>3, <2>4, <2>5, <2>6, <2>7 DEF Update, Serve
<1>4. ASSUME ~Update PROVE TransferSteps' = TransferSteps
  <2>1. update' = update
    BY <1>4 DEF Next, ParseTestJson, FinishIntake, StoreField, SetNewTest, vars
  <2> QED
    BY <2>1 DEF TransferSteps
<1> QED
  BY <1>3, <1>4 DEF TransferNearsEnd

\* A transfer takes at most four steps for each slot of the list and three more,
\* however many tests AsyncTCP accepts while it runs.
THEOREM TransfersAreBounded == Spec => []TransferIsBounded
BY BoundHolds, Invariants, PTL

\* Every step of userUpdateTask within transferTest brings its return nearer, and no
\* step of AsyncTCP defers it: no test accepted meanwhile keeps the task from waiting.
THEOREM TransfersGetNearer == Spec => [][TransferNearsEnd]_vars
<1>1. TypeOK /\ TransferInv /\ [Next]_vars => [TransferNearsEnd]_vars
  BY TransferNears
<1> QED
  BY <1>1, Invariants, PTL DEF Spec
===============================================================================
