------------------------------- MODULE Settings -------------------------------
(***************************************************************************)
(* The settings and what becomes of them.  A browser posts a form to       *)
(* AsyncTCP, which stores its fields one after the other into the settings *)
(* themselves and then, if the last one was accepted, tells the observers, *)
(* each of which keeps a copy (UPSTesterSetup, SettingsSubject).           *)
(*                                                                         *)
(* The rating is used twice: TestManagerTask computes a test's load from   *)
(* its copy (configureTest), and the test task divides that load among the *)
(* banks by the setting itself (UPSTest::setLoad).  Between the two lies   *)
(* TestManageQueue.  AsyncTCP can come between any two steps below: it has *)
(* the highest priority, and it waits itself whenever it prints.           *)
(***************************************************************************)
EXTENDS LoadBank, SequencesExt

CONSTANTS Forms,        \* bound: the forms a browser may post: the type of setting, and the
                        \* fields with the numbers toDouble reads in them
          Modulus,      \* the values of a uint32_t: 2^32, as far as TLC's integers go
          OutOfRange,   \* bound: what the conversion of a number that no uint32_t is may
                        \* yield; C++ leaves it undefined
          MaxForms,     \* bound: how many it posts
          Loads,        \* the loads of the tests to configure
          MaxTests,     \* bound: how often a test is configured
          QueueLength   \* messageQueueLength, 10 in main.cpp

Types == {"SwitchTest", "BackupTest"}

\* The form fields of each kind of setting, in the order of the handler.
SpecFields == <<"RatingVa", "RatedVoltage", "RatedCurrent", "MinInputVoltage",
                "MaxInputVoltage", "AvgSwitchTime", "AvgBackupTime">>
TestFields == <<"InputVoltage", "SWITCH_TestDuration", "BACKUP_TestDuration",
                "MinValidSwitchTime", "MaxValidSwitchTime", "MinValidBackupTime",
                "MaxValidBackupTime", "ToleranceSwitchTime", "MaxBackupTime",
                "ToleranceBackupTime", "MaxRetest">>
FieldsOf == [SPEC |-> SpecFields, TEST |-> TestFields]
SettingType == DOMAIN FieldsOf
Field(type) == ToSet(FieldsOf[type])

\* toDouble yields a number with a fraction, whole + tenths/10, and setField takes
\* a uint32_t: the fraction is cut off, towards zero.
Number == [whole : Int, tenths : 0..9]
Cut(x) == IF x.whole < 0 /\ x.tenths > 0 THEN x.whole + 1 ELSE x.whole
UInt32 == 0..(Modulus - 1)
ToUInt32(x) == IF Cut(x) \in UInt32 THEN {Cut(x)} ELSE OutOfRange

\* static_cast<int> of a uint32_t.
Int32 == -(Modulus \div 2)..(Modulus \div 2 - 1)
ToInt(v) == IF v < Modulus \div 2 THEN v ELSE v - Modulus

\* The values setField accepts; a backup may be tested for ten days, and seven fields
\* have no upper limit.
TenDays == 10 * 24 * 3600 * 1000
SpecRange == [RatingVa |-> Rating, RatedVoltage |-> 180..250, RatedCurrent |-> 1..22,
              MinInputVoltage |-> 180..249, MaxInputVoltage |-> 181..250,
              AvgSwitchTime |-> 0..10000, AvgBackupTime |-> 30000..(Modulus - 1)]
TestRange == [InputVoltage |-> 180..250,
              SWITCH_TestDuration |-> 1..10000, BACKUP_TestDuration |-> 1..TenDays,
              MinValidSwitchTime |-> 1..10000, MaxValidSwitchTime |-> 1..10000,
              MinValidBackupTime |-> 1..(Modulus - 1),
              MaxValidBackupTime |-> 1..(Modulus - 1),
              ToleranceSwitchTime |-> UInt32, MaxBackupTime |-> UInt32,
              ToleranceBackupTime |-> UInt32, MaxRetest |-> UInt32]
Accepts(type, field) == IF type = "SPEC" THEN SpecRange[field] ELSE TestRange[field]

\* The values the device boots with.
Defaults ==
  [SPEC |-> [RatingVa |-> 2000, RatedVoltage |-> 230, RatedCurrent |-> 6,
             MinInputVoltage |-> 180, MaxInputVoltage |-> 230, AvgSwitchTime |-> 50,
             AvgBackupTime |-> 300000],
   TEST |-> [InputVoltage |-> 220, SWITCH_TestDuration |-> 10000,
             BACKUP_TestDuration |-> 600000, MinValidSwitchTime |-> 1,
             MaxValidSwitchTime |-> 3000, MinValidBackupTime |-> 1,
             MaxValidBackupTime |-> 300000, ToleranceSwitchTime |-> 50,
             MaxBackupTime |-> 300, ToleranceBackupTime |-> 300000, MaxRetest |-> 3]]
InitialVA == 1000   \* SetupTaskParams::task_TestVARating

\* The observers in the order main.cpp adds them, and the settings each copies.
Observers == <<"TestManager", "SwitchTest", "BackupTest">>
Keeps(o) == IF o = "TestManager" THEN SettingType ELSE {"TEST"}

\* The handler looks for the fields in its own order, whatever the form's is.
Place(type, field) == CHOOSE i \in DOMAIN FieldsOf[type] : FieldsOf[type][i] = field

ASSUME FormsAssumption ==
  \A f \in Forms :
    /\ f.type \in SettingType
    /\ f.entries \in Seq([field : Field(f.type), number : Number])
    /\ \A i, j \in DOMAIN f.entries :
         i < j => Place(f.type, f.entries[i].field) < Place(f.type, f.entries[j].field)
ASSUME ConversionAssumption ==
  /\ Modulus \in Nat /\ Modulus % 2 = 0 /\ Modulus > TenDays
  /\ OutOfRange \subseteq UInt32 /\ OutOfRange # {}
ASSUME SettingsAssumption ==
  /\ Loads \subseteq LoadPercentage
  /\ MaxForms \in Nat /\ MaxTests \in Nat /\ QueueLength \in Nat \ {0}

VARIABLES
  settings,   \* UPSTesterSetup's _spec and _testSetting
  copy,       \* per observer, its _cfgSpec and _cfgTest
  request,    \* AsyncTCP: the form in hand, the fields and then the observers that are
              \* left; success stands for the last field ("none" when there was none)
  posted,     \* how many forms were posted
  params,     \* TestManageQueue
  given,      \* how many tests were configured
  test,       \* per type: where its task is and the parameters it has taken
  bank,       \* the load bank as the last setLoad has set it: banks, PWM, and as
              \* history the parameters and the rating they were set by
  last        \* history, per kind of setting: how the last request ended

webVars  == <<settings, copy, request, posted, last>>
testVars == <<params, given, test, bank>>
vars     == <<webVars, testVars>>

\* Parameters: va is task_TestVARating.  The rest is history: the load that was
\* asked for, and whether all is quiet: no request was in progress when va was
\* computed, the one before was announced, and no setting was stored since.
Initial == [va |-> InitialVA, load |-> "none", quiet |-> FALSE]
NoRequest == [at |-> "idle", type |-> "SPEC", entries |-> <<>>, observers |-> <<>>,
              success |-> "none"]

Init == /\ settings = Defaults
        /\ copy = [o \in ToSet(Observers) |-> [t \in Keeps(o) |-> Defaults[t]]]
        /\ request = NoRequest /\ posted = 0
        /\ last = [t \in SettingType |-> "accepted"]
        /\ params = <<>> /\ given = 0
        /\ test = [t \in Types |-> [at |-> "wait", param |-> Initial]]
        /\ bank = [banks |-> 0, pwm |-> 0, param |-> Initial, rating |-> 0]

-------------------------------------------------------------------------------
\* handleUpdateSettingRequest begins.
PostForm(f) ==
  /\ request.at = "idle" /\ posted < MaxForms
  /\ posted' = posted + 1
  /\ request' = [NoRequest EXCEPT !.at = "set", !.type = f.type, !.entries = f.entries]
  /\ UNCHANGED <<settings, copy, last, testVars>>

\* No parameters are quiet once a setting is touched.
Disturbed(p) == [p EXCEPT !.quiet = FALSE]
Disturb == /\ params' = [i \in DOMAIN params |-> Disturbed(params[i])]
           /\ test' = [t \in Types |-> [test[t] EXCEPT !.param = Disturbed(@)]]

\* Faulty variant: any value is accepted.
Accepted_Any(type, field, value) == value \in UInt32

Accepted(type, field, value) == value \in Accepts(type, field)

\* What is stored of an accepted value: MaxRetest is an int, the others hold it.
Stored(field, value) == IF field = "MaxRetest" THEN ToInt(value) ELSE value

\* setField: an accepted value is stored at once; success is that of this field.
SetField ==
  /\ request.at = "set" /\ request.entries # <<>>
  /\ \E value \in ToUInt32(Head(request.entries).number) :
       LET type  == request.type
           field == Head(request.entries).field
           accepted == Accepted(type, field, value)
       IN /\ settings' = IF accepted
                         THEN [settings EXCEPT ![type] = [@ EXCEPT ![field] =
                                                            Stored(field, value)]]
                         ELSE settings
          /\ request' = [request EXCEPT !.entries = Tail(@),
                           !.success = IF accepted THEN "accepted" ELSE "rejected"]
  /\ Disturb
  /\ UNCHANGED <<copy, posted, last, given, bank>>

\* Faulty variant: the last observer is left out.
Told_Two == SubSeq(Observers, 1, 2)

Told == Observers

\* All fields are done: the observers are told if the last one was accepted.
EndFields ==
  /\ request.at = "set" /\ request.entries = <<>>
  /\ last' = IF request.success = "none" THEN last
             ELSE [last EXCEPT ![request.type] = request.success]
  /\ request' = IF request.success = "accepted"
                THEN [request EXCEPT !.at = "notify", !.observers = Told]
                ELSE [request EXCEPT !.at = "reply"]
  /\ UNCHANGED <<settings, copy, posted, testVars>>

\* notifyObservers: onSettingsUpdate of one observer after the other.
NotifyObserver ==
  /\ request.at = "notify" /\ request.observers # <<>>
  /\ LET o == Head(request.observers)
     IN copy' = IF request.type \in Keeps(o)
                THEN [copy EXCEPT ![o] = [@ EXCEPT ![request.type] = settings[request.type]]]
                ELSE copy
  /\ request' = [request EXCEPT !.observers = Tail(@)]
  /\ UNCHANGED <<settings, posted, last, testVars>>

\* The answer goes out.
Reply ==
  /\ request.at = "reply" \/ (request.at = "notify" /\ request.observers = <<>>)
  /\ request' = NoRequest
  /\ UNCHANGED <<settings, copy, posted, last, testVars>>

AsyncTCP == (\E f \in Forms : PostForm(f)) \/ SetField \/ EndFields \/ NotifyObserver \/ Reply

-------------------------------------------------------------------------------
\* TestManagerTask: configureTest; a full queue stays full for the
\* 100 ms it waits, or not.
ConfigureTest(load) ==
  /\ given < MaxTests
  /\ given' = given + 1
  /\ params' = IF Len(params) = QueueLength THEN params
               ELSE Append(params,
                           [va |-> TestVARating(copy["TestManager"]["SPEC"]["RatingVa"], load),
                            load |-> load,
                            quiet |-> request.at = "idle" /\ last["SPEC"] = "accepted"])
  /\ UNCHANGED <<webVars, test, bank>>

\* A test task takes what parameters there are, or keeps its own.
TakeParams(t) ==
  /\ test[t].at = "wait"
  /\ test' = [test EXCEPT ![t] = [at |-> "load",
                                  param |-> IF params = <<>> THEN @.param ELSE Head(params)]]
  /\ params' = IF params = <<>> THEN params ELSE Tail(params)
  /\ UNCHANGED <<webVars, given, bank>>

\* setLoad, by the rating as it is set now, on the one bank both tests share; the
\* run that follows changes nothing of this.
SetLoad(t) ==
  /\ test[t].at = "load"
  /\ LET rating == settings["SPEC"]["RatingVa"]
         va == test[t].param.va
     IN bank' = [banks |-> RequiredBanks(rating, va), pwm |-> PwmOf(rating, va),
                 param |-> test[t].param, rating |-> rating]
  /\ test' = [test EXCEPT ![t] = [@ EXCEPT !.at = "wait"]]
  /\ UNCHANGED <<webVars, params, given>>

Next == \/ AsyncTCP
        \/ \E l \in Loads : ConfigureTest(l)
        \/ \E t \in Types : TakeParams(t) \/ SetLoad(t)

Spec == Init /\ [][Next]_vars
-------------------------------------------------------------------------------
Parameters == [va : 0..UPS_MAX_VA, load : Loads \union {"none"}, quiet : BOOLEAN]

\* What a field may hold: what setField lets pass, as the field's type holds it.
Values(type, field) == IF field = "MaxRetest" THEN Int32 ELSE Accepts(type, field)
Valid(type, s) == /\ DOMAIN s = Field(type)
                  /\ \A f \in Field(type) : s[f] \in Values(type, f)

TypeOK ==
  /\ \A t \in SettingType : Valid(t, settings[t])
  /\ \A o \in ToSet(Observers) : \A t \in Keeps(o) : Valid(t, copy[o][t])
  /\ request \in [at : {"idle", "set", "notify", "reply"}, type : SettingType,
                  entries : Seq([field : UNION {Field(t) : t \in SettingType}, number : Number]),
                  observers : Seq(ToSet(Observers)),
                  success : {"none", "accepted", "rejected"}]
  /\ \A i \in DOMAIN request.entries : request.entries[i].field \in Field(request.type)
  /\ posted \in 0..MaxForms /\ given \in 0..MaxTests
  /\ last \in [SettingType -> {"accepted", "rejected"}]
  /\ params \in Seq(Parameters) /\ Len(params) <= QueueLength
  /\ test \in [Types -> [at : {"wait", "load"}, param : Parameters]]
  /\ bank \in [banks : 0..4, pwm : Nat, param : Parameters, rating : Rating \union {0}]

\* Between requests, everyone who keeps a copy of a kind of setting has the
\* settings themselves, unless the last request of that kind ended with a field
\* that was rejected: such a request may have stored fields that nobody was told
\* of, and whatever it stored is told with the next one (handleUpdateSettingRequest).
ObserversInStep ==
  request.at = "idle" =>
    \A t \in SettingType : last[t] = "accepted" =>
      \A o \in ToSet(Observers) : t \in Keeps(o) => copy[o][t] = settings[t]

\* A test whose load was computed, queued, taken and set while all was quiet
\* draws the percentage it was asked for, of the rating the device is set to;
\* the two halves of that computation are in two tasks and use two copies of the
\* rating (configureTest, setLoad).
LoadFits ==
  bank.param.quiet =>
    /\ bank.param.va = TestVARating(bank.rating, bank.param.load)
    /\ Draws(bank.rating, bank.param.load, bank.banks, bank.pwm)
===============================================================================
