----------------------------- MODULE TestTransfer -----------------------------
(***************************************************************************)
(* The way of a test from the web server to the test manager: AsyncTCP     *)
(* (core 1) writes it into TestSync's list and raises NEW_TEST,            *)
(* userUpdateTask (core 0) copies the active tests into the manager's      *)
(* list.  The two share the list and the event bit without a lock.  One    *)
(* action is one access the other task can tell apart; the stores of one   *)
(* struct are taken in program order.                                      *)
(*                                                                         *)
(* Lists are numbered from 1 here, from 0 in the code.  No slot is ever    *)
(* given back: checkForDeletedTests, which would, is called by nobody.     *)
(***************************************************************************)
EXTENDS Naturals, Sequences, FiniteSets

CONSTANTS MaxTest,     \* MAX_TEST, the size of both lists
          TestTypes,   \* the test names getTestTypeFromString knows
          LoadLevels   \* the load levels getLoadLevelFromString knows

ASSUME MaxTestAssumption == MaxTest \in Nat \ {0}

Slots == 1..MaxTest

VARIABLES
  slots,    \* TestSync::_testList
  newTest,  \* NEW_TEST in userUpdateEventGroup
  intake,   \* AsyncTCP: the slot parseTestJson writes, its next store, the test
  update,   \* userUpdateTask: where it is, and the locals of transferTest
  managed,  \* TestManager::_testList, as far as it was ever written
  numTest,  \* TestManager::_numTest
  late      \* history: the slots activated since the transfer began

vars == <<slots, newTest, intake, update, managed, numTest, late>>

\* struct RequiredTest
RequiredTest == [testId : Nat, testType : TestTypes \union {"TunePWMTest"},
                 loadLevel : LoadLevels \union {"LOAD_0P"}, isActive : BOOLEAN]

\* A slot as TestSync's constructor leaves it.
EmptySlot == [testId |-> 0, testType |-> "TunePWMTest", loadLevel |-> "LOAD_0P",
              isActive |-> FALSE]

\* _testID of the slot, numbered from 1.
TestID(s) == (s - 1) * 2 + 31

\* Faulty variant: the slot is active before it is filled.
StoreOrder_ActiveFirst == <<"isActive", "testId", "testType", "loadLevel">>

\* The order of parseTestJson's stores into the slot.
StoreOrder == <<"testId", "testType", "loadLevel", "isActive">>

\* No request is being written: its slot is 0.
NoIntake == [slot |-> 0, next |-> 1, test |-> EmptySlot]

NoTransfer == [at |-> "wait", i |-> 1, activeTestCount |-> 0, activeTests |-> <<>>]

Init == /\ slots = [s \in Slots |-> EmptySlot]
        /\ newTest = FALSE
        /\ intake = NoIntake
        /\ update = NoTransfer
        /\ managed = <<>>
        /\ numTest = 0
        /\ late = {}

SameTest(s, t) == s.testType = t.testType /\ s.loadLevel = t.loadLevel

\* Faulty variant: no look for a test that is there already.
ParseTestJson_NoDuplicateCheck(type, load) ==
  /\ intake.slot = 0
  /\ \E s \in Slots :
       /\ ~slots[s].isActive
       /\ \A r \in 1..(s - 1) : slots[r].isActive
       /\ intake' = [slot |-> s, next |-> 1,
                     test |-> [testId |-> TestID(s), testType |-> type,
                               loadLevel |-> load, isActive |-> TRUE]]
  /\ UNCHANGED <<slots, newTest, update, managed, numTest, late>>

\* parseIncomingJson to the first store of parseTestJson.  The uniqueness buffer
\* and the queue before it hold one request at most, since only AsyncTCP calls
\* this: they never stop one.  A request with an unknown name or level, one that
\* an active slot has already, or one that finds no free slot, is dropped.
ParseTestJson(type, load) ==
  /\ intake.slot = 0
  /\ \A s \in Slots : slots[s].isActive
       => ~SameTest(slots[s], [testType |-> type, loadLevel |-> load])
  /\ \E s \in Slots :
       /\ ~slots[s].isActive
       /\ \A r \in 1..(s - 1) : slots[r].isActive
       /\ intake' = [slot |-> s, next |-> 1,
                     test |-> [testId |-> TestID(s), testType |-> type,
                               loadLevel |-> load, isActive |-> TRUE]]
  /\ UNCHANGED <<slots, newTest, update, managed, numTest, late>>

\* One field of the slot is stored.
StoreField ==
  /\ intake.slot # 0
  /\ intake.next <= Len(StoreOrder)
  /\ LET field == StoreOrder[intake.next]
     IN  /\ slots' = [slots EXCEPT ![intake.slot][field] = intake.test[field]]
         /\ late' = IF field = "isActive" THEN late \union {intake.slot} ELSE late
  /\ intake' = [intake EXCEPT !.next = @ + 1]
  /\ UNCHANGED <<newTest, update, managed, numTest>>

\* handleUserUpdate(NEW_TEST).  DELETE_TEST, which it clears, is never set.
SetNewTest ==
  /\ intake.slot # 0
  /\ intake.next > Len(StoreOrder)
  /\ newTest' = TRUE
  /\ intake' = NoIntake
  /\ UNCHANGED <<slots, update, managed, numTest, late>>

-------------------------------------------------------------------------------
\* Faulty variant: the count begins at the second slot.
Serve_SkipsFirst ==
  /\ update.at = "wait"
  /\ newTest
  /\ update' = [NoTransfer EXCEPT !.at = "count", !.i = 2]
  /\ late' = {}
  /\ UNCHANGED <<slots, newTest, intake, managed, numTest>>

\* userUpdateTask wakes up and starts transferTest.  (The enable flag, the event
\* and the notifications it sends besides concern neither list.)
Serve ==
  /\ update.at = "wait"
  /\ newTest
  /\ update' = [NoTransfer EXCEPT !.at = "count"]
  /\ late' = {}
  /\ UNCHANGED <<slots, newTest, intake, managed, numTest>>

\* The first scan counts the active slots.
CountSlot ==
  /\ update.at = "count"
  /\ update.i <= MaxTest
  /\ update' = [update EXCEPT !.i = @ + 1,
                              !.activeTestCount =
                                 IF slots[update.i].isActive THEN @ + 1 ELSE @]
  /\ UNCHANGED <<slots, newTest, intake, managed, numTest, late>>

\* Faulty variant: a single test is taken for none.
EndCount_OneIsNone ==
  /\ update.at = "count"
  /\ update.i > MaxTest
  /\ update' = [update EXCEPT !.at = IF update.activeTestCount <= 1 THEN "report"
                                                                    ELSE "fill",
                              !.i = 1]
  /\ UNCHANGED <<slots, newTest, intake, managed, numTest, late>>

\* Nothing to transfer, or an array of the size counted.
EndCount ==
  /\ update.at = "count"
  /\ update.i > MaxTest
  /\ update' = [update EXCEPT !.at = IF update.activeTestCount = 0 THEN "report"
                                                                   ELSE "fill",
                              !.i = 1]
  /\ UNCHANGED <<slots, newTest, intake, managed, numTest, late>>

\* Faulty variant: inactive slots are copied as well.
FillSlot_All ==
  /\ update.at = "fill"
  /\ update.i <= MaxTest
  /\ update' = [update EXCEPT !.i = @ + 1, !.activeTests = Append(@, slots[update.i])]
  /\ UNCHANGED <<slots, newTest, intake, managed, numTest, late>>

\* The second scan copies the active slots.  A copy past the array's end, which
\* the code writes all the same, is kept here and not handed on.
FillSlot ==
  /\ update.at = "fill"
  /\ update.i <= MaxTest
  /\ update' = [update EXCEPT !.i = @ + 1,
                              !.activeTests = IF slots[update.i].isActive
                                              THEN Append(@, slots[update.i]) ELSE @]
  /\ UNCHANGED <<slots, newTest, intake, managed, numTest, late>>

\* Faulty variant: the entries are numbered from 0.
EndFill_FromZero ==
  /\ update.at = "fill"
  /\ update.i > MaxTest
  /\ update' = [update EXCEPT !.at = "add", !.i = 0]
  /\ UNCHANGED <<slots, newTest, intake, managed, numTest, late>>

EndFill ==
  /\ update.at = "fill"
  /\ update.i > MaxTest
  /\ update' = [update EXCEPT !.at = IF update.activeTestCount > MaxTest
                                     THEN "report" ELSE "add",
                              !.i = 1]
  /\ UNCHANGED <<slots, newTest, intake, managed, numTest, late>>

\* addTests writes the entry, then counts it.  It does not compare _numTest with
\* the size of the list: an entry past the end is written behind it.
AddTest ==
  /\ update.at = "add"
  /\ managed' = Append(managed, update.activeTests[update.i])
  /\ update' = [update EXCEPT !.at = "publish"]
  /\ UNCHANGED <<slots, newTest, intake, numTest, late>>

PublishTest ==
  /\ update.at = "publish"
  /\ numTest' = numTest + 1
  /\ update' = [update EXCEPT !.at = IF update.i < update.activeTestCount
                                     THEN "add" ELSE "report",
                              !.i = @ + 1]
  /\ UNCHANGED <<slots, newTest, intake, managed, late>>

\* Once the event is reported, NEW_TEST is cleared, set meanwhile or not.
ClearNewTest ==
  /\ update.at = "report"
  /\ newTest' = FALSE
  /\ update' = NoTransfer
  /\ UNCHANGED <<slots, intake, managed, numTest, late>>

-------------------------------------------------------------------------------
FinishIntake == StoreField \/ SetNewTest

Update == \/ Serve \/ CountSlot \/ EndCount \/ FillSlot \/ EndFill
          \/ AddTest \/ PublishTest \/ ClearNewTest

Next == \/ \E type \in TestTypes, load \in LoadLevels : ParseTestJson(type, load)
        \/ FinishIntake
        \/ Update

Spec == Init /\ [][Next]_vars

\* Both tasks run on: neither waits inside for anything the other does.
FairSpec == Spec /\ WF_vars(FinishIntake) /\ WF_vars(Update)
-------------------------------------------------------------------------------
Active == {s \in Slots : slots[s].isActive}

\* The locals of parseTestJson and of userUpdateTask with transferTest.
Intake   == [slot : 0..MaxTest, next : 1..(Len(StoreOrder) + 1), test : RequiredTest]
Transfer == [at : {"wait", "count", "fill", "add", "publish", "report"},
             i : 1..(MaxTest + 1), activeTestCount : 0..MaxTest,
             activeTests : Seq(RequiredTest)]

TypeOK == /\ slots \in [Slots -> RequiredTest]
          /\ newTest \in BOOLEAN
          /\ intake \in Intake
          /\ update \in Transfer
          /\ managed \in Seq(RequiredTest)
          /\ numTest \in Nat
          /\ late \subseteq Slots

\* What is about to be handed to the manager are the first slots, in order and
\* complete, although slots are activated between and behind the two scans of
\* transferTest.
TransferIsPrefix ==
  update.at \in {"add", "publish"} =>
    /\ Len(update.activeTests) >= update.activeTestCount
    /\ \A k \in 1..update.activeTestCount : update.activeTests[k] = slots[k]

\* transferTest fills its array to the end and not further, unless a test was
\* accepted since it began to count.
FillFits ==
  /\ update.at \in {"fill", "add", "publish"}
       /\ Len(update.activeTests) > update.activeTestCount => late # {}
  /\ update.at \in {"add", "publish"} /\ late = {}
       => Len(update.activeTests) = update.activeTestCount

\* When transferTest has returned, its transfer was complete but for the tests
\* accepted while it ran.
TransferComplete ==
  update.at = "report" =>
    \A s \in Active \ late :
      \E k \in 1..update.activeTestCount :
        managed[numTest - update.activeTestCount + k] = slots[s]

-------------------------------------------------------------------------------
\* The inductive invariant behind the three properties above.

\* Slots are filled from the front, a slot is active only once it is complete,
\* and those activated since the transfer began come last.
IntakeInv ==
  /\ \A s \in Active : \A r \in 1..(s - 1) : r \in Active
  /\ intake.slot # 0 => /\ \A r \in 1..(intake.slot - 1) : r \in Active
                        /\ intake.test.isActive
                        /\ intake.next <= Len(StoreOrder) => intake.slot \notin Active
  /\ \A s \in Active \ late : \A r \in 1..(s - 1) : r \notin late

\* The request in hand is a new one, and its slot holds what is stored of it.
RequestInv ==
  /\ \A s \in Active : slots[s].testType \in TestTypes /\ slots[s].loadLevel \in LoadLevels
  /\ intake.slot # 0 =>
       /\ intake.test.testType \in TestTypes /\ intake.test.loadLevel \in LoadLevels
       /\ intake.next > 2 => slots[intake.slot].testType = intake.test.testType
       /\ intake.next > 3 => slots[intake.slot].loadLevel = intake.test.loadLevel
       /\ intake.next <= Len(StoreOrder) =>
            \A s \in Active : ~SameTest(slots[s], intake.test)

\* The count is right for the slots below i that were active from the start.
Counts(i) == /\ 1..update.activeTestCount \subseteq Active
             /\ \A s \in Active \ late : s < i => s <= update.activeTestCount

\* The first n entries of transferTest's array are the first n slots.
Copied(n) == \A k \in 1..n : update.activeTests[k] = slots[k]

\* The manager has the first n slots of this transfer, besides older ones.
Added(n) == /\ n <= numTest
            /\ \A k \in 1..n : managed[numTest - n + k] = slots[k]

ManagedInv == Len(managed) = numTest + (IF update.at = "publish" THEN 1 ELSE 0)

CountInv ==
  update.at = "count" => /\ update.activeTests = <<>>
                         /\ update.activeTestCount < update.i
                         /\ Counts(update.i)

FillInv ==
  update.at = "fill" =>
    /\ update.activeTestCount > 0
    /\ Counts(MaxTest + 1)
    /\ IF update.i <= update.activeTestCount
       THEN Len(update.activeTests) = update.i - 1 /\ Copied(update.i - 1)
       ELSE /\ Len(update.activeTests) >= update.activeTestCount
            /\ Copied(update.activeTestCount)
    /\ Len(update.activeTests) > update.activeTestCount => late # {}

AddInv ==
  update.at \in {"add", "publish"} =>
    /\ update.i <= update.activeTestCount
    /\ Counts(MaxTest + 1)
    /\ Len(update.activeTests) >= update.activeTestCount
    /\ Copied(update.activeTestCount)
    /\ Len(update.activeTests) > update.activeTestCount => late # {}
    /\ Added(update.i - 1)
    /\ update.at = "publish" => managed[numTest + 1] = slots[update.i]

ReportInv ==
  update.at = "report" => Counts(MaxTest + 1) /\ Added(update.activeTestCount)

TransferInv == /\ IntakeInv /\ RequestInv /\ ManagedInv
               /\ CountInv /\ FillInv /\ AddInv /\ ReportInv

-------------------------------------------------------------------------------
\* A test whose NEW_TEST finds userUpdateTask waiting reaches the manager.
Transferred(s) == \E k \in 1..numTest : managed[k].testId = TestID(s)

WaitingTestsArrive ==
  \A s \in Slots : (slots[s].isActive /\ newTest /\ update.at = "wait") ~> Transferred(s)

\* The tests requested are those of the active slots, in slot order.
TestOf(s) == <<s.testType, s.loadLevel>>
Requested == [k \in 1..Cardinality(Active) |-> TestOf(slots[k])]
Handed    == [k \in 1..numTest |-> TestOf(managed[k])]

Handover == INSTANCE TestHandover
              WITH Tests <- TestTypes \X LoadLevels,
                   requested <- Requested, handed <- Handed
HandoverKept == Handover!Spec
===============================================================================
