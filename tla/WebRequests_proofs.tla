-------------------------- MODULE WebRequests_proofs --------------------------
(***************************************************************************)
(* The settings, their copies, and the loads that are set by them, for any *)
(* forms, any number of requests and tests, and any queue; and the log.    *)
(***************************************************************************)
EXTENDS WebRequests, LoadBank_proofs

-------------------------------------------------------------------------------
(* The kinds of settings, their fields and their observers                 *)

LEMMA Kinds ==
  /\ SettingType = {"SPEC", "TEST"}
  /\ ToSet(Observers) = {"TestManager", "SwitchTest", "BackupTest"}
  /\ Keeps("TestManager") = SettingType
  /\ Keeps("SwitchTest") = {"TEST"} /\ Keeps("BackupTest") = {"TEST"}
  /\ Observers \in Seq(ToSet(Observers))
BY DEF SettingType, FieldsOf, ToSet, Observers, Keeps

LEMMA Fields ==
  /\ Field("SPEC") = {"RatingVa", "RatedVoltage", "RatedCurrent", "MinInputVoltage",
                      "MaxInputVoltage", "AvgSwitchTime", "AvgBackupTime"}
  /\ Field("TEST") = {"InputVoltage", "SWITCH_TestDuration", "BACKUP_TestDuration",
                      "MinValidSwitchTime", "MaxValidSwitchTime", "MinValidBackupTime",
                      "MaxValidBackupTime", "ToleranceSwitchTime", "MaxBackupTime",
                      "ToleranceBackupTime", "MaxRetest"}
<1>1. Field("SPEC") = ToSet(SpecFields) /\ Field("TEST") = ToSet(TestFields)
  BY DEF Field, FieldsOf
<1>2. ToSet(SpecFields) = {"RatingVa", "RatedVoltage", "RatedCurrent", "MinInputVoltage",
                      "MaxInputVoltage", "AvgSwitchTime", "AvgBackupTime"}
  BY DEF SpecFields, ToSet
<1>3. ToSet(TestFields) = {"InputVoltage", "SWITCH_TestDuration", "BACKUP_TestDuration",
                      "MinValidSwitchTime", "MaxValidSwitchTime", "MinValidBackupTime",
                      "MaxValidBackupTime", "ToleranceSwitchTime", "MaxBackupTime",
                      "ToleranceBackupTime", "MaxRetest"}
  BY DEF TestFields, ToSet
<1> QED  BY <1>1, <1>2, <1>3

\* A number is converted to a uint32_t, and what is stored of an accepted one fits
\* its field.
LEMMA Converted == \A x \in Number : ToUInt32(x) \subseteq UInt32
BY ConversionAssumption DEF ToUInt32

LEMMA StoredFits ==
  ASSUME NEW type, NEW field, NEW value \in UInt32, value \in Accepts(type, field)
  PROVE  Stored(field, value) \in Values(type, field)
<1>1. CASE field = "MaxRetest"
  <2> DEFINE half == Modulus \div 2
  <2>1. half \in Int /\ Modulus = 2 * half  BY ConversionAssumption
  <2>2. ToInt(value) = IF value < half THEN value ELSE value - Modulus  BY DEF ToInt
  <2>3. Int32 = -half..(half - 1) /\ value \in 0..(Modulus - 1)  BY DEF Int32, UInt32
  <2> HIDE DEF half
  <2>4. ToInt(value) \in Int32  BY <2>1, <2>2, <2>3
  <2> QED  BY <1>1, <2>4 DEF Stored, Values
<1>2. CASE field # "MaxRetest"
  BY <1>2 DEF Stored, Values
<1> QED  BY <1>1, <1>2

LEMMA RatingIsValid == \A s : Valid("SPEC", s) => s["RatingVa"] \in Rating
<1>1. Values("SPEC", "RatingVa") = Rating  BY DEF Values, Accepts, SpecRange
<1>2. "RatingVa" \in Field("SPEC")  BY Fields
<1> QED  BY <1>1, <1>2 DEF Valid

LEMMA DefaultsValid ==
  /\ DOMAIN Defaults = SettingType
  /\ \A t \in SettingType : Valid(t, Defaults[t])
<1>1. /\ TenDays \in Nat /\ TenDays > 600000 /\ Modulus \in Nat /\ Modulus > TenDays
      /\ UInt32 = 0..(Modulus - 1)
  BY ConversionAssumption, SMT DEF TenDays, UInt32
<1>2. Valid("SPEC", Defaults["SPEC"])
  <2> DEFINE d == Defaults["SPEC"]
  <2>1. /\ DOMAIN d = Field("SPEC")
        /\ d["RatingVa"] = 2000 /\ d["RatedVoltage"] = 230 /\ d["RatedCurrent"] = 6
        /\ d["MinInputVoltage"] = 180 /\ d["MaxInputVoltage"] = 230
        /\ d["AvgSwitchTime"] = 50 /\ d["AvgBackupTime"] = 300000
    BY Fields, SMT DEF Defaults
  <2> HIDE DEF d
  <2>2. \A f \in Field("SPEC") : Values("SPEC", f) = SpecRange[f]
    BY Fields DEF Values, Accepts
  <2>3. /\ 2000 \in SpecRange["RatingVa"] /\ 230 \in SpecRange["RatedVoltage"]
        /\ 6 \in SpecRange["RatedCurrent"] /\ 180 \in SpecRange["MinInputVoltage"]
        /\ 230 \in SpecRange["MaxInputVoltage"] /\ 50 \in SpecRange["AvgSwitchTime"]
        /\ 300000 \in SpecRange["AvgBackupTime"]
    BY <1>1, SMT DEF SpecRange, Rating, UPS_MIN_VA, UPS_MAX_VA
  <2>4. /\ d["RatingVa"] \in SpecRange["RatingVa"]
        /\ d["RatedVoltage"] \in SpecRange["RatedVoltage"]
        /\ d["RatedCurrent"] \in SpecRange["RatedCurrent"]
        /\ d["MinInputVoltage"] \in SpecRange["MinInputVoltage"]
        /\ d["MaxInputVoltage"] \in SpecRange["MaxInputVoltage"]
        /\ d["AvgSwitchTime"] \in SpecRange["AvgSwitchTime"]
        /\ d["AvgBackupTime"] \in SpecRange["AvgBackupTime"]
    BY <2>1, <2>3, SMT
  <2>5. \A f \in Field("SPEC") : d[f] \in SpecRange[f]  BY <2>4, Fields, Zenon
  <2>6. DOMAIN d = Field("SPEC")  BY <2>1, SMT
  <2> QED  BY <2>2, <2>5, <2>6, Zenon DEF Valid, d
<1>3. Valid("TEST", Defaults["TEST"])
  <2> DEFINE d == Defaults["TEST"]
  <2>1. /\ DOMAIN d = Field("TEST")
        /\ d["InputVoltage"] = 220 /\ d["SWITCH_TestDuration"] = 10000
        /\ d["BACKUP_TestDuration"] = 600000
        /\ d["MinValidSwitchTime"] = 1 /\ d["MaxValidSwitchTime"] = 3000
        /\ d["MinValidBackupTime"] = 1 /\ d["MaxValidBackupTime"] = 300000
        /\ d["ToleranceSwitchTime"] = 50 /\ d["MaxBackupTime"] = 300
        /\ d["ToleranceBackupTime"] = 300000 /\ d["MaxRetest"] = 3
    BY Fields, SMT DEF Defaults
  <2> HIDE DEF d
  <2>2. \A f \in Field("TEST") : f # "MaxRetest" => Values("TEST", f) = TestRange[f]
    BY DEF Values, Accepts
  <2>3. /\ 220 \in TestRange["InputVoltage"] /\ 10000 \in TestRange["SWITCH_TestDuration"]
        /\ 600000 \in TestRange["BACKUP_TestDuration"]
        /\ 1 \in TestRange["MinValidSwitchTime"] /\ 3000 \in TestRange["MaxValidSwitchTime"]
        /\ 1 \in TestRange["MinValidBackupTime"]
        /\ 300000 \in TestRange["MaxValidBackupTime"]
        /\ 50 \in TestRange["ToleranceSwitchTime"] /\ 300 \in TestRange["MaxBackupTime"]
        /\ 300000 \in TestRange["ToleranceBackupTime"]
    BY <1>1, SMT DEF TestRange
  <2>4. 3 \in Values("TEST", "MaxRetest")
    <3>1. Modulus \div 2 \in Int /\ Modulus \div 2 > 3  BY <1>1, SMT
    <3> QED  BY <3>1, SMT DEF Values, Int32
  <2>5. /\ d["InputVoltage"] \in TestRange["InputVoltage"]
        /\ d["SWITCH_TestDuration"] \in TestRange["SWITCH_TestDuration"]
        /\ d["BACKUP_TestDuration"] \in TestRange["BACKUP_TestDuration"]
        /\ d["MinValidSwitchTime"] \in TestRange["MinValidSwitchTime"]
        /\ d["MaxValidSwitchTime"] \in TestRange["MaxValidSwitchTime"]
        /\ d["MinValidBackupTime"] \in TestRange["MinValidBackupTime"]
        /\ d["MaxValidBackupTime"] \in TestRange["MaxValidBackupTime"]
        /\ d["ToleranceSwitchTime"] \in TestRange["ToleranceSwitchTime"]
        /\ d["MaxBackupTime"] \in TestRange["MaxBackupTime"]
        /\ d["ToleranceBackupTime"] \in TestRange["ToleranceBackupTime"]
        /\ d["MaxRetest"] \in Values("TEST", "MaxRetest")
    BY <2>1, <2>3, <2>4, SMT
  <2>6. \A f \in Field("TEST") : d[f] \in Values("TEST", f)
    BY <2>2, <2>5, Fields, Zenon
  <2>7. DOMAIN d = Field("TEST")  BY <2>1, SMT
  <2> QED  BY <2>6, <2>7, Zenon DEF Valid, d
<1>4. DOMAIN Defaults = {"SPEC", "TEST"}  BY SMT DEF Defaults
<1> QED  BY <1>2, <1>3, <1>4, Kinds

\* RequiredBanks and PwmOf in general: a load above the rating is carried by none.
LEMMA BanksInGeneral ==
  ASSUME NEW rating \in Rating, NEW va \in Nat
  PROVE  RequiredBanks(rating, va) \in 0..4 /\ PwmOf(rating, va) \in Nat
<1>1. rating \in Nat  BY DEF Rating, UPS_MIN_VA, UPS_MAX_VA
<1>2. CASE va <= rating
  <2> DEFINE n == RequiredBanks(rating, va)
  <2>1. n \in 1..4 /\ BankVA(rating, n) \in Nat \ {0}  BY <1>2, FewestBanks, BanksGrow
  <2>2. PwmOf(rating, va) = (va * 255) \div BankVA(rating, n)  BY <2>1 DEF PwmOf
  <2>3. \A x \in Nat, b \in Nat \ {0} : x \div b \in Nat  BY RoundsDown
  <2>4. va * 255 \in Nat  OBVIOUS
  <2> HIDE DEF n
  <2>5. (va * 255) \div BankVA(rating, n) \in Nat  BY <2>1, <2>3, <2>4
  <2> QED  BY <2>1, <2>2, <2>5 DEF n
<1>3. CASE ~(va <= rating)
  <2>1. \A n \in 1..4 : BankVA(rating, n) \in Nat /\ BankVA(rating, n) <= rating
    BY BanksGrow
  <2>2. Carrying(rating, va) = {}  BY <1>1, <1>3, <2>1 DEF Carrying
  <2> QED  BY <2>2 DEF RequiredBanks, PwmOf
<1> QED  BY <1>2, <1>3

LEMMA LoadWithinRating ==
  ASSUME NEW rating \in Rating, NEW load \in LoadPercentage
  PROVE  TestVARating(rating, load) \in 0..UPS_MAX_VA
<1>1. rating \in Nat /\ rating <= 4000  BY DEF Rating, UPS_MIN_VA, UPS_MAX_VA
<1> DEFINE va == TestVARating(rating, load)
<1>2. va \in 0..rating  BY BanksOfPercentage
<1> HIDE DEF va
<1>3. va \in 0..UPS_MAX_VA  BY <1>1, <1>2 DEF UPS_MAX_VA
<1> QED  BY <1>3 DEF va

\* What a sequence holds, its head and the rest.
LEMMA HeadAndTail ==
  ASSUME NEW S, NEW s \in Seq(S), s # <<>>
  PROVE  /\ Head(s) \in S /\ Tail(s) \in Seq(S) /\ Len(Tail(s)) = Len(s) - 1
         /\ \A i \in DOMAIN Tail(s) : i + 1 \in DOMAIN s /\ Tail(s)[i] = s[i + 1]
         /\ \A x \in ToSet(s) : x = Head(s) \/ x \in ToSet(Tail(s))
<1>1. Len(s) \in Nat \ {0} /\ DOMAIN s = 1..Len(s)  OBVIOUS
<1>2. /\ Tail(s) \in Seq(S) /\ Len(Tail(s)) = Len(s) - 1
      /\ DOMAIN Tail(s) = 1..(Len(s) - 1)
      /\ \A i \in 1..(Len(s) - 1) : Tail(s)[i] = s[i + 1]
  OBVIOUS
<1>3. Head(s) = s[1] /\ Head(s) \in S  BY <1>1
<1>4. \A i \in DOMAIN s : s[i] = Head(s) \/ s[i] \in ToSet(Tail(s))
  <2> SUFFICES ASSUME NEW i \in 1..Len(s), i # 1
               PROVE  s[i] \in ToSet(Tail(s))
    BY <1>1, <1>3
  <2>1. i - 1 \in DOMAIN Tail(s) /\ Tail(s)[i - 1] = s[i]  BY <1>1, <1>2
  <2> QED  BY <2>1 DEF ToSet
<1> QED  BY <1>1, <1>2, <1>3, <1>4 DEF ToSet

-------------------------------------------------------------------------------
(* Type correctness                                                        *)

\* TypeOK by component of the state, with settings and copy as the functions they
\* are.
SettingsTyped(s) == /\ s = [t \in SettingType |-> s[t]]
                    /\ \A t \in SettingType : Valid(t, s[t])
CopyTyped(c) == /\ c = [o \in ToSet(Observers) |-> [t \in Keeps(o) |-> c[o][t]]]
                /\ \A o \in ToSet(Observers) : \A t \in Keeps(o) : Valid(t, c[o][t])
Entries == Seq([field : UNION {Field(t) : t \in SettingType}, number : Number])
Requests == [at : {"idle", "set", "notify", "reply"}, type : SettingType, entries : Entries,
             observers : Seq(ToSet(Observers)), success : {"none", "accepted", "rejected"}]
RequestTyped(r) == /\ r \in Requests
                   /\ \A i \in DOMAIN r.entries : r.entries[i].field \in Field(r.type)
LastTyped(l) == l \in [SettingType -> {"accepted", "rejected"}]
ParamsTyped(q) == q \in Seq(Parameters) /\ Len(q) <= QueueLength
TestTyped(x) == x \in [Types -> [at : {"wait", "load"}, param : Parameters]]
BankTyped(b) == b \in [banks : 0..4, pwm : Nat, param : Parameters, rating : Rating \union {0}]

TypeInv == /\ SettingsTyped(settings) /\ CopyTyped(copy) /\ RequestTyped(request)
           /\ posted \in 0..MaxForms /\ given \in 0..MaxTests /\ LastTyped(last)
           /\ ParamsTyped(params) /\ TestTyped(test) /\ BankTyped(bank)

LEMMA TypeInvIsTypeOK == TypeInv => TypeOK
BY Zenon DEF TypeInv, TypeOK, SettingsTyped, CopyTyped, RequestTyped, Requests, Entries,
             LastTyped, ParamsTyped, TestTyped, BankTyped

LEMMA DefaultsTyped == SettingsTyped(Defaults)
<1>1. Defaults = [t \in SettingType |-> Defaults[t]]  BY Kinds, SMT DEF Defaults
<1>2. \A t \in SettingType : Valid(t, Defaults[t])  BY DefaultsValid
<1> QED  BY <1>1, <1>2 DEF SettingsTyped

\* The ratings that are set and that the manager has.
LEMMA RatingTyped == \A s : SettingsTyped(s) => s["SPEC"]["RatingVa"] \in Rating
BY RatingIsValid, Kinds DEF SettingsTyped

LEMMA RatingCopied == \A c : CopyTyped(c) => c["TestManager"]["SPEC"]["RatingVa"] \in Rating
BY RatingIsValid, Kinds DEF CopyTyped

LEMMA NoRequestTyped == RequestTyped(NoRequest)
BY Kinds DEF RequestTyped, Requests, Entries, NoRequest

LEMMA InitHasTypes == Init => TypeInv
<1> SUFFICES ASSUME Init PROVE TypeInv  OBVIOUS
<1>1. Initial \in Parameters  BY DEF Initial, InitialVA, Parameters, UPS_MAX_VA
<1>2. /\ settings = Defaults /\ request = NoRequest
      /\ copy = [o \in ToSet(Observers) |-> [t \in Keeps(o) |-> Defaults[t]]]
      /\ posted = 0 /\ given = 0 /\ params = <<>>
      /\ last = [t \in SettingType |-> "accepted"]
      /\ test = [t \in Types |-> [at |-> "wait", param |-> Initial]]
      /\ bank = [banks |-> 0, pwm |-> 0, param |-> Initial, rating |-> 0]
  BY DEF Init
<1>3. MaxForms \in Nat /\ MaxTests \in Nat /\ QueueLength \in Nat \ {0}
  BY SettingsAssumption
<1>4. CopyTyped(copy)
  <2>1. \A t \in SettingType : Valid(t, Defaults[t])  BY DefaultsValid
  <2>2. \A o \in ToSet(Observers) : Keeps(o) \subseteq SettingType  BY Kinds
  <2>3. /\ copy = [o \in ToSet(Observers) |-> [t \in Keeps(o) |-> copy[o][t]]]
        /\ \A o \in ToSet(Observers) : \A t \in Keeps(o) : copy[o][t] = Defaults[t]
    BY <1>2
  <2> QED  BY <2>1, <2>2, <2>3, Zenon DEF CopyTyped
<1>5. LastTyped(last) /\ ParamsTyped(params) /\ TestTyped(test) /\ BankTyped(bank)
  BY <1>1, <1>2, <1>3 DEF LastTyped, ParamsTyped, TestTyped, BankTyped
<1> QED  BY <1>2, <1>3, <1>4, <1>5, DefaultsTyped, NoRequestTyped DEF TypeInv

\* One field is stored.
LEMMA FieldStored ==
  ASSUME NEW s, SettingsTyped(s), NEW type \in SettingType, NEW field \in Field(type),
         NEW value \in Values(type, field)
  PROVE  SettingsTyped([s EXCEPT ![type] = [@ EXCEPT ![field] = value]])
<1> DEFINE r == [s[type] EXCEPT ![field] = value]
           n == [s EXCEPT ![type] = r]
<1>1. Valid(type, s[type])  BY DEF SettingsTyped
<1>2. DOMAIN s[type] = Field(type) /\ \A f \in Field(type) : s[type][f] \in Values(type, f)
  BY <1>1 DEF Valid
<1>3. /\ DOMAIN r = Field(type)
      /\ \A f \in Field(type) : r[f] = IF f = field THEN value ELSE s[type][f]
  BY <1>2
<1> HIDE DEF r
<1>4. Valid(type, r)  BY <1>2, <1>3 DEF Valid
<1>5. s = [t \in SettingType |-> s[t]]  BY DEF SettingsTyped
<1>6. n = [t \in SettingType |-> IF t = type THEN r ELSE s[t]]  BY <1>5
<1>7. n = [t \in SettingType |-> n[t]]  BY <1>6
<1>8. \A t \in SettingType : n[t] = IF t = type THEN r ELSE s[t]  BY <1>6
<1> HIDE DEF n
<1>9. \A t \in SettingType : Valid(t, n[t])  BY <1>4, <1>8 DEF SettingsTyped
<1>10. SettingsTyped(n)  BY <1>7, <1>9 DEF SettingsTyped
<1> QED  BY <1>10 DEF n, r

\* One observer takes a copy.
LEMMA CopyTaken ==
  ASSUME NEW s, SettingsTyped(s), NEW c, CopyTyped(c), NEW o \in ToSet(Observers),
         NEW type \in Keeps(o)
  PROVE  LET n == [c EXCEPT ![o] = [@ EXCEPT ![type] = s[type]]]
         IN /\ CopyTyped(n)
            /\ \A p \in ToSet(Observers) : \A t \in Keeps(p) :
                 n[p][t] = IF p = o /\ t = type THEN s[type] ELSE c[p][t]
<1> DEFINE r == [c[o] EXCEPT ![type] = s[type]]
           n == [c EXCEPT ![o] = r]
<1>1. c = [p \in ToSet(Observers) |-> [t \in Keeps(p) |-> c[p][t]]]  BY DEF CopyTyped
<1>2. c[o] = [t \in Keeps(o) |-> c[o][t]]  BY <1>1
<1>3. r = [t \in Keeps(o) |-> IF t = type THEN s[type] ELSE c[o][t]]  BY <1>2
<1> HIDE DEF r
<1>4. n = [p \in ToSet(Observers) |-> IF p = o THEN r ELSE c[p]]  BY <1>1
<1>5. \A p \in ToSet(Observers) : c[p] = [t \in Keeps(p) |-> c[p][t]]  BY <1>1
<1>6. \A p \in ToSet(Observers) : \A t \in Keeps(p) :
        n[p][t] = IF p = o /\ t = type THEN s[type] ELSE c[p][t]
  BY <1>3, <1>4
<1>7. \A p \in ToSet(Observers) : n[p] = [t \in Keeps(p) |-> n[p][t]]
  BY <1>3, <1>4, <1>5
<1>8. n = [p \in ToSet(Observers) |-> [t \in Keeps(p) |-> n[p][t]]]
  BY <1>4, <1>7
<1> HIDE DEF n
<1>9. \A p \in ToSet(Observers) : Keeps(p) \subseteq SettingType  BY Kinds
<1>10. \A p \in ToSet(Observers) : \A t \in Keeps(p) : Valid(t, n[p][t])
  BY <1>6, <1>9, Zenon DEF SettingsTyped, CopyTyped
<1>11. CopyTyped(n)  BY <1>8, <1>10, Zenon DEF CopyTyped
<1> QED  BY <1>6, <1>11 DEF n, r

-------------------------------------------------------------------------------
LEMMA StepsKeepTypes == TypeInv /\ [Next]_vars => TypeInv'
<1> SUFFICES ASSUME TypeInv, [Next]_vars PROVE TypeInv'  OBVIOUS
<1>a. /\ SettingsTyped(settings) /\ CopyTyped(copy) /\ RequestTyped(request)
      /\ posted \in 0..MaxForms /\ given \in 0..MaxTests /\ LastTyped(last)
      /\ ParamsTyped(params) /\ TestTyped(test) /\ BankTyped(bank)
  BY DEF TypeInv
<1>b. MaxForms \in Nat /\ MaxTests \in Nat /\ QueueLength \in Nat \ {0}
  BY SettingsAssumption
<1>1. ASSUME NEW f \in Forms, PostForm(f) PROVE TypeInv'
  <2>1. /\ f.type \in SettingType
        /\ f.entries \in Seq([field : Field(f.type), number : Number])
    BY FormsAssumption
  <2>2. f.entries \in Entries /\ \A i \in DOMAIN f.entries : f.entries[i].field \in Field(f.type)
    <3> DEFINE Wide == [field : UNION {Field(t) : t \in SettingType}, number : Number]
    <3>1. \A S, T : S \subseteq T =>
            \A s \in Seq(S) : s \in Seq(T) /\ \A i \in DOMAIN s : s[i] \in S
      OBVIOUS
    <3>2. [field : Field(f.type), number : Number] \subseteq Wide  BY <2>1
    <3>3. f.entries \in Seq(Wide) /\ \A i \in DOMAIN f.entries :
                                     f.entries[i] \in [field : Field(f.type), number : Number]
      <4> HIDE DEF Wide
      <4> QED  BY <2>1, <3>1, <3>2
    <3> QED  BY <3>3 DEF Entries
  <2>3. request' = [at |-> "set", type |-> f.type, entries |-> f.entries,
                    observers |-> <<>>, success |-> "none"]
    BY <1>1 DEF PostForm, NoRequest
  <2>4. RequestTyped(request')  BY <2>1, <2>2, <2>3 DEF RequestTyped, Requests
  <2>5. posted' \in 0..MaxForms  BY <1>1, <1>a, <1>b DEF PostForm
  <2>6. UNCHANGED <<settings, copy, last, params, given, test, bank>>
    BY <1>1 DEF PostForm, testVars
  <2> QED  BY <1>a, <2>4, <2>5, <2>6 DEF TypeInv
<1>2. CASE SetField
  <2> DEFINE field == Head(request.entries).field
             number == Head(request.entries).number
             type  == request.type
  <2>1. /\ request.entries # <<>> /\ request.entries \in Entries
        /\ \A i \in DOMAIN request.entries : request.entries[i].field \in Field(type)
        /\ type \in SettingType
    BY <1>2, <1>a DEF SetField, RequestTyped, Requests
  <2>2. /\ field \in Field(type) /\ number \in Number /\ Tail(request.entries) \in Entries
        /\ \A i \in DOMAIN Tail(request.entries) : Tail(request.entries)[i].field \in Field(type)
    <3> DEFINE Wide == [field : UNION {Field(t) : t \in SettingType}, number : Number]
    <3>1. Head(request.entries) = request.entries[1] /\ 1 \in DOMAIN request.entries
      BY <2>1 DEF Entries
    <3>2. request.entries \in Seq(Wide)  BY <2>1 DEF Entries
    <3> HIDE DEF Wide
    <3>3. Head(request.entries) \in Wide /\ Tail(request.entries) \in Seq(Wide)
      BY <2>1, <3>2, HeadAndTail
    <3>4. Head(request.entries).number \in Number  BY <3>3 DEF Wide
    <3>5. \A i \in DOMAIN Tail(request.entries) :
            Tail(request.entries)[i].field \in Field(type)
      BY <2>1, <3>2, HeadAndTail
    <3> QED  BY <2>1, <3>1, <3>3, <3>4, <3>5 DEF Entries, Wide
  <2> HIDE DEF type, field, number
  <2>3. PICK value \in ToUInt32(number) :
          /\ settings' = IF Accepted(type, field, value)
                         THEN [settings EXCEPT ![type] = [@ EXCEPT ![field] =
                                                            Stored(field, value)]]
                         ELSE settings
          /\ request' = [request EXCEPT !.entries = Tail(@),
                           !.success = IF Accepted(type, field, value) THEN "accepted"
                                       ELSE "rejected"]
    BY <1>2, Zenon DEF SetField, type, field, number
  <2> DEFINE accepted == Accepted(type, field, value)
  <2>4. RequestTyped(request')
    <3> HIDE DEF accepted
    <3> QED  BY <1>a, <2>2, <2>3 DEF RequestTyped, Requests, type
  <2>5. SettingsTyped(settings')
    <3>1. CASE accepted
      <4>1. value \in UInt32 /\ value \in Accepts(type, field)
        BY <2>2, <3>1, Converted DEF Accepted
      <4>2. Stored(field, value) \in Values(type, field)  BY <4>1, StoredFits
      <4>3. settings' = [settings EXCEPT ![type] = [@ EXCEPT ![field] =
                                                      Stored(field, value)]]
        BY <2>3, <3>1
      <4> QED  BY <1>a, <2>1, <2>2, <4>2, <4>3, FieldStored
    <3>2. CASE ~accepted
      <4>1. settings' = settings  BY <2>3, <3>2
      <4> QED  BY <1>a, <4>1
    <3> QED  BY <3>1, <3>2
  <2>6. ParamsTyped(params') /\ TestTyped(test')
    <3>1. \A p \in Parameters : Disturbed(p) \in Parameters  BY DEF Disturbed, Parameters
    <3>2. /\ params' = [i \in DOMAIN params |-> Disturbed(params[i])]
          /\ test' = [t \in Types |-> [test[t] EXCEPT !.param = Disturbed(@)]]
      BY <1>2 DEF SetField, Disturb
    <3>3. params \in Seq(Parameters) /\ Len(params) <= QueueLength
      BY <1>a DEF ParamsTyped
    <3>4. params' \in Seq(Parameters) /\ Len(params') = Len(params)
      BY <3>1, <3>2, <3>3
    <3>5. TestTyped(test')  BY <1>a, <3>1, <3>2 DEF TestTyped
    <3> QED  BY <3>3, <3>4, <3>5 DEF ParamsTyped
  <2>7. UNCHANGED <<copy, posted, last, given, bank>>  BY <1>2 DEF SetField
  <2> QED  BY <1>a, <2>4, <2>5, <2>6, <2>7 DEF TypeInv
<1>3. CASE EndFields
  <2>1. /\ request' \in {[request EXCEPT !.at = "notify", !.observers = Observers],
                         [request EXCEPT !.at = "reply"]}
        /\ last' = IF request.success = "none" THEN last
                   ELSE [last EXCEPT ![request.type] = request.success]
        /\ UNCHANGED <<settings, copy, posted, params, given, test, bank>>
    BY <1>3 DEF EndFields, Told, testVars
  <2>2. RequestTyped(request')  BY <1>a, <2>1, Kinds DEF RequestTyped, Requests
  <2>3. LastTyped(last')  BY <1>a, <2>1 DEF RequestTyped, Requests, LastTyped
  <2> QED  BY <1>a, <2>1, <2>2, <2>3 DEF TypeInv
<1>4. CASE NotifyObserver
  <2> DEFINE o == Head(request.observers)
             type == request.type
  <2>1. /\ o \in ToSet(Observers) /\ Tail(request.observers) \in Seq(ToSet(Observers))
        /\ request' = [request EXCEPT !.observers = Tail(@)]
        /\ UNCHANGED <<settings, posted, last, params, given, test, bank>>
    BY <1>4, <1>a, HeadAndTail DEF NotifyObserver, testVars, RequestTyped, Requests
  <2>2. RequestTyped(request')  BY <1>a, <2>1 DEF RequestTyped, Requests
  <2>3. copy' = IF type \in Keeps(o) THEN [copy EXCEPT ![o] = [@ EXCEPT ![type] = settings[type]]]
                ELSE copy
    BY <1>4 DEF NotifyObserver
  <2> HIDE DEF o, type
  <2>4. CopyTyped(copy')  BY <1>a, <2>1, <2>3, CopyTaken
  <2> QED  BY <1>a, <2>1, <2>2, <2>4 DEF TypeInv
<1>5. CASE Reply
  <2>1. /\ request' = NoRequest
        /\ UNCHANGED <<settings, copy, posted, last, params, given, test, bank>>
    BY <1>5 DEF Reply, testVars
  <2> QED  BY <1>a, <2>1, NoRequestTyped DEF TypeInv
<1>6. ASSUME NEW load \in Loads, ConfigureTest(load) PROVE TypeInv'
  <2> DEFINE rating == copy["TestManager"]["SPEC"]["RatingVa"]
             p == [va |-> TestVARating(rating, load), load |-> load,
                   quiet |-> request.at = "idle" /\ last["SPEC"] = "accepted"]
  <2>1. p \in Parameters
    <3>1. TestVARating(rating, load) \in 0..UPS_MAX_VA
      BY <1>a, RatingCopied, LoadWithinRating, SettingsAssumption
    <3> HIDE DEF rating
    <3> QED  BY <3>1 DEF Parameters
  <2>2. params' = IF Len(params) = QueueLength THEN params ELSE Append(params, p)
    BY <1>6 DEF ConfigureTest
  <2>3. ParamsTyped(params')
    <3> HIDE DEF p
    <3> QED  BY <1>a, <1>b, <2>1, <2>2 DEF ParamsTyped
  <2>4. given' \in 0..MaxTests  BY <1>6, <1>a, <1>b DEF ConfigureTest
  <2>5. UNCHANGED <<settings, copy, request, posted, last, test, bank>>
    BY <1>6 DEF ConfigureTest, webVars
  <2> QED  BY <1>a, <2>3, <2>4, <2>5 DEF TypeInv
<1>7. ASSUME NEW t \in Types, TakeParams(t) PROVE TypeInv'
  <2>1. /\ params' = IF params = <<>> THEN params ELSE Tail(params)
        /\ test' = [test EXCEPT ![t] = [at |-> "load",
                               param |-> IF params = <<>> THEN @.param ELSE Head(params)]]
        /\ UNCHANGED <<settings, copy, request, posted, last, given, bank>>
    BY <1>7 DEF TakeParams, webVars
  <2>2. ParamsTyped(params') /\ (params # <<>> => Head(params) \in Parameters)
    BY <1>a, <1>b, <2>1, HeadAndTail DEF ParamsTyped
  <2>3. TestTyped(test')  BY <1>a, <2>1, <2>2 DEF TestTyped
  <2> QED  BY <1>a, <2>1, <2>2, <2>3 DEF TypeInv
<1>8. ASSUME NEW t \in Types, SetLoad(t) PROVE TypeInv'
  <2> DEFINE rating == settings["SPEC"]["RatingVa"]
             va == test[t].param.va
  <2>1. rating \in Rating /\ test[t].param \in Parameters /\ va \in Nat
    BY <1>a, RatingTyped DEF TestTyped, Parameters
  <2>2. /\ bank' = [banks |-> RequiredBanks(rating, va), pwm |-> PwmOf(rating, va),
                    param |-> test[t].param, rating |-> rating]
        /\ test' = [test EXCEPT ![t] = [@ EXCEPT !.at = "wait"]]
        /\ UNCHANGED <<settings, copy, request, posted, last, params, given>>
    BY <1>8 DEF SetLoad, webVars
  <2>3. BankTyped(bank')
    <3> HIDE DEF rating, va
    <3> QED  BY <2>1, <2>2, BanksInGeneral DEF BankTyped
  <2>4. TestTyped(test')  BY <1>a, <2>2 DEF TestTyped
  <2> QED  BY <1>a, <2>2, <2>3, <2>4 DEF TypeInv
<1>9. CASE UNCHANGED vars
  BY <1>9, <1>a DEF vars, webVars, testVars, TypeInv
<1> QED  BY <1>1, <1>2, <1>3, <1>4, <1>5, <1>6, <1>7, <1>8, <1>9 DEF Next, AsyncTCP
-------------------------------------------------------------------------------
(* The copies are in step                                                  *)

\* No field of this kind was stored by the request in hand.
Settled(t) == ~(request.type = t /\ (request.at = "notify" \/
                                     (request.at = "set" /\ request.success # "none")))
Agree(t) == \A o \in ToSet(Observers) : t \in Keeps(o) => copy[o][t] = settings[t]

\* Whoever is not on the list of observers any more has been told.
InStep ==
  /\ \A t \in SettingType : last[t] = "accepted" /\ Settled(t) => Agree(t)
  /\ request.at = "notify" =>
       \A o \in ToSet(Observers) : o \in ToSet(request.observers) \/
         (request.type \in Keeps(o) => copy[o][request.type] = settings[request.type])

LEMMA InitInStep == Init => InStep
<1> SUFFICES ASSUME Init PROVE InStep  OBVIOUS
<1>1. \A t \in SettingType : Agree(t)  BY DEF Init, Agree
<1>2. request.at = "idle"  BY DEF Init, NoRequest
<1> QED  BY <1>1, <1>2 DEF InStep

LEMMA StepsKeepStep == TypeInv /\ InStep /\ [Next]_vars => InStep'
<1> SUFFICES ASSUME TypeInv, InStep, [Next]_vars PROVE InStep'  OBVIOUS
<1>a. SettingsTyped(settings) /\ CopyTyped(copy) /\ RequestTyped(request) /\ LastTyped(last)
  BY DEF TypeInv
<1>b. /\ \A t \in SettingType : last[t] = "accepted" /\ Settled(t) => Agree(t)
      /\ request.at = "notify" =>
           \A o \in ToSet(Observers) : o \in ToSet(request.observers) \/
             (request.type \in Keeps(o) => copy[o][request.type] = settings[request.type])
  BY DEF InStep
<1>c. request.type \in SettingType /\ request.observers \in Seq(ToSet(Observers))
  BY <1>a DEF RequestTyped, Requests
<1>d. ASSUME UNCHANGED <<settings, copy>>
      PROVE  \A t \in SettingType : Agree(t) => Agree(t)'
  BY <1>d DEF Agree
<1>1. ASSUME NEW f \in Forms, PostForm(f) PROVE InStep'
  <2>1. /\ request.at = "idle" /\ UNCHANGED <<settings, copy, last>>
        /\ request'.at = "set" /\ request'.success = "none"
    BY <1>1 DEF PostForm, NoRequest
  <2>2. \A t \in SettingType : Settled(t)  BY <2>1 DEF Settled
  <2> QED  BY <1>b, <1>d, <2>1, <2>2 DEF InStep
<1>2. CASE SetField
  <2>1. /\ request'.at = "set" /\ request'.success # "none" /\ request'.type = request.type
        /\ request.at = "set" /\ UNCHANGED <<copy, last>>
        /\ \A t \in SettingType : t # request.type => settings'[t] = settings[t]
    BY <1>2, <1>a, <1>c DEF SetField, RequestTyped, Requests, SettingsTyped
  <2>2. ASSUME NEW t \in SettingType, last'[t] = "accepted", Settled(t)' PROVE Agree(t)'
    <3>1. t # request.type  BY <2>1, <2>2 DEF Settled
    <3>2. Agree(t)  BY <1>b, <2>1, <2>2, <3>1 DEF Settled
    <3> QED  BY <2>1, <3>1, <3>2 DEF Agree
  <2> QED  BY <2>1, <2>2 DEF InStep
<1>3. CASE EndFields
  <2>1. /\ request.at = "set" /\ request'.type = request.type /\ UNCHANGED <<settings, copy>>
        /\ last' = IF request.success = "none" THEN last
                   ELSE [last EXCEPT ![request.type] = request.success]
        /\ request'.at = (IF request.success = "accepted" THEN "notify" ELSE "reply")
        /\ request'.at = "notify" => request'.observers = Observers
    BY <1>3, <1>a DEF EndFields, Told, RequestTyped, Requests
  <2>2. ASSUME NEW t \in SettingType, last'[t] = "accepted", Settled(t)' PROVE Agree(t)'
    <3>1. CASE t # request.type
      BY <1>a, <1>b, <1>d, <2>1, <2>2, <3>1 DEF Settled, LastTyped
    <3>2. CASE t = request.type
      <4>1. request.success # "accepted"  BY <2>1, <2>2, <3>2 DEF Settled
      <4>2. request.success = "none"  BY <1>a, <2>1, <2>2, <3>2, <4>1 DEF LastTyped
      <4> QED  BY <1>b, <1>d, <2>1, <2>2, <4>2 DEF Settled
    <3> QED  BY <3>1, <3>2
  <2> QED  BY <2>1, <2>2 DEF InStep
<1>4. CASE NotifyObserver
  <2> DEFINE o == Head(request.observers)
             type == request.type
  <2>1. /\ request.at = "notify" /\ request.observers # <<>>
        /\ request' = [request EXCEPT !.observers = Tail(@)]
        /\ UNCHANGED <<settings, last>>
        /\ copy' = IF type \in Keeps(o)
                   THEN [copy EXCEPT ![o] = [@ EXCEPT ![type] = settings[type]]] ELSE copy
    BY <1>4 DEF NotifyObserver
  <2>2. /\ o \in ToSet(Observers)
        /\ \A p \in ToSet(request.observers) : p = o \/ p \in ToSet(Tail(request.observers))
    BY <1>c, <2>1, HeadAndTail
  <2>3. /\ request'.at = "notify" /\ request'.type = type
        /\ request'.observers = Tail(request.observers)
    BY <1>a, <2>1 DEF RequestTyped, Requests
  <2> HIDE DEF o, type
  <2>4. \A p \in ToSet(Observers) : \A t \in Keeps(p) :
          copy'[p][t] = IF p = o /\ t = type THEN settings[type] ELSE copy[p][t]
    <3>1. CASE type \in Keeps(o)  BY <1>a, <2>1, <2>2, <3>1, CopyTaken
    <3>2. CASE type \notin Keeps(o)  BY <2>1, <3>2
    <3> QED  BY <3>1, <3>2
  <2>5. ASSUME NEW t \in SettingType, last'[t] = "accepted", Settled(t)' PROVE Agree(t)'
    <3>1. t # type  BY <2>3, <2>5 DEF Settled
    <3>2. Settled(t)  BY <3>1 DEF Settled, type
    <3>3. Agree(t)  BY <1>b, <2>1, <2>5, <3>2
    <3> QED  BY <2>1, <2>4, <3>1, <3>3 DEF Agree
  <2>6. ASSUME NEW p \in ToSet(Observers), p \notin ToSet(request'.observers),
               type \in Keeps(p)
        PROVE  copy'[p][type] = settings'[type]
    <3>1. CASE p = o  BY <2>1, <2>4, <2>6, <3>1
    <3>2. CASE p # o
      <4>1. p \notin ToSet(request.observers)  BY <2>2, <2>3, <2>6, <3>2
      <4> QED  BY <1>b, <2>1, <2>4, <2>6, <3>2, <4>1 DEF type
    <3> QED  BY <3>1, <3>2
  <2> QED  BY <2>3, <2>5, <2>6 DEF InStep
<1>5. CASE Reply
  <2>1. /\ request'.at = "idle" /\ UNCHANGED <<settings, copy, last>>
        /\ request.at = "reply" \/ (request.at = "notify" /\ request.observers = <<>>)
    BY <1>5 DEF Reply, NoRequest
  <2>2. ASSUME NEW t \in SettingType, last[t] = "accepted" PROVE Agree(t)
    <3>1. CASE Settled(t)  BY <1>b, <2>2, <3>1
    <3>2. CASE ~Settled(t)
      <4>1. t = request.type /\ request.at = "notify" /\ request.observers = <<>>
        BY <2>1, <3>2 DEF Settled
      <4>2. ToSet(<<>>) = {}  BY DEF ToSet
      <4>3. \A o \in ToSet(Observers) : t \in Keeps(o) => copy[o][t] = settings[t]
        BY <1>b, <4>1, <4>2, Zenon
      <4> QED  BY <4>3 DEF Agree
    <3> QED  BY <3>1, <3>2
  <2> QED  BY <1>d, <2>1, <2>2 DEF InStep
<1>6. CASE UNCHANGED webVars
  BY <1>6, <1>b DEF webVars, InStep, Settled, Agree
<1>7. CASE UNCHANGED vars
  BY <1>6, <1>7 DEF vars
<1> QED  BY <1>1, <1>2, <1>3, <1>4, <1>5, <1>6, <1>7
         DEF Next, AsyncTCP, ConfigureTest, TakeParams, SetLoad

LEMMA InStepIsObserved == InStep => ObserversInStep
BY DEF InStep, ObserversInStep, Settled, Agree

-------------------------------------------------------------------------------
(* The loads                                                               *)

\* Parameters that are quiet still fit the rating that is set.
Fits(p, rating) == p.quiet => /\ p.load \in LoadPercentage
                              /\ p.va = TestVARating(rating, p.load)
RatingNow == settings["SPEC"]["RatingVa"]
LoadInv == /\ \A i \in DOMAIN params : Fits(params[i], RatingNow)
           /\ \A t \in Types : Fits(test[t].param, RatingNow)
           /\ LoadFits

LEMMA InitLoads == Init => LoadInv
BY DEF Init, LoadInv, Fits, Initial, LoadFits, RatingNow

LEMMA StepsKeepLoads == TypeInv /\ InStep /\ LoadInv /\ [Next]_vars => LoadInv'
<1> SUFFICES ASSUME TypeInv, InStep, LoadInv, [Next]_vars PROVE LoadInv'  OBVIOUS
<1>a. /\ SettingsTyped(settings) /\ CopyTyped(copy) /\ RequestTyped(request)
      /\ ParamsTyped(params) /\ TestTyped(test)
  BY DEF TypeInv
<1>b. /\ \A i \in DOMAIN params : Fits(params[i], RatingNow)
      /\ \A t \in Types : Fits(test[t].param, RatingNow)
      /\ LoadFits
  BY DEF LoadInv
<1>c. settings' = settings => RatingNow' = RatingNow  BY DEF RatingNow
<1>d. bank' = bank => LoadFits'  BY <1>b DEF LoadFits
<1>1. CASE SetField
  <2>1. /\ params' = [i \in DOMAIN params |-> Disturbed(params[i])]
        /\ test' = [t \in Types |-> [test[t] EXCEPT !.param = Disturbed(@)]]
        /\ bank' = bank
    BY <1>1 DEF SetField, Disturb
  <2>2. \A p \in Parameters : ~Disturbed(p).quiet  BY DEF Disturbed, Parameters
  <2>3. \A i \in DOMAIN params' : ~params'[i].quiet  BY <1>a, <2>1, <2>2 DEF ParamsTyped
  <2>4. \A t \in Types : ~test'[t].param.quiet  BY <1>a, <2>1, <2>2 DEF TestTyped
  <2> QED  BY <1>d, <2>1, <2>3, <2>4 DEF LoadInv, Fits
<1>2. ASSUME NEW load \in Loads, ConfigureTest(load) PROVE LoadInv'
  <2> DEFINE p == [va |-> TestVARating(copy["TestManager"]["SPEC"]["RatingVa"], load),
                   load |-> load,
                   quiet |-> request.at = "idle" /\ last["SPEC"] = "accepted"]
  <2>1. /\ params' = IF Len(params) = QueueLength THEN params ELSE Append(params, p)
        /\ UNCHANGED <<settings, test, bank>>
    BY <1>2 DEF ConfigureTest, webVars
  <2>2. Fits(p, RatingNow)
    <3> SUFFICES ASSUME request.at = "idle", last["SPEC"] = "accepted"
                 PROVE  copy["TestManager"]["SPEC"] = settings["SPEC"]
      BY SettingsAssumption DEF Fits, RatingNow
    <3> QED  BY InStepIsObserved, Kinds DEF ObserversInStep
  <2> HIDE DEF p
  <2>3. \A i \in DOMAIN params' : Fits(params'[i], RatingNow)
    <3>1. params \in Seq(Parameters)  BY <1>a DEF ParamsTyped
    <3>2. \A i \in DOMAIN params' :
            params'[i] = p \/ (i \in DOMAIN params /\ params'[i] = params[i])
      BY <2>1, <3>1
    <3> QED  BY <1>b, <2>2, <3>2
  <2> QED  BY <1>b, <1>c, <1>d, <2>1, <2>3 DEF LoadInv
<1>3. ASSUME NEW t \in Types, TakeParams(t) PROVE LoadInv'
  <2>1. /\ params' = IF params = <<>> THEN params ELSE Tail(params)
        /\ test' = [test EXCEPT ![t] = [at |-> "load",
                               param |-> IF params = <<>> THEN @.param ELSE Head(params)]]
        /\ UNCHANGED <<settings, bank>>
    BY <1>3 DEF TakeParams, webVars
  <2>2. params \in Seq(Parameters)  BY <1>a DEF ParamsTyped
  <2>3. \A i \in DOMAIN params' : \E j \in DOMAIN params : params'[i] = params[j]
    BY <2>1, <2>2, HeadAndTail
  <2>4. params # <<>> => 1 \in DOMAIN params /\ Head(params) = params[1]  BY <2>2
  <2>5. \A u \in Types : test'[u].param = test[u].param \/
                         \E j \in DOMAIN params : test'[u].param = params[j]
    BY <1>a, <2>1, <2>4 DEF TestTyped
  <2> QED  BY <1>b, <1>c, <1>d, <2>1, <2>3, <2>5 DEF LoadInv
<1>4. ASSUME NEW t \in Types, SetLoad(t) PROVE LoadInv'
  <2> DEFINE rating == settings["SPEC"]["RatingVa"]
             p == test[t].param
  <2>1. /\ bank' = [banks |-> RequiredBanks(rating, p.va), pwm |-> PwmOf(rating, p.va),
                    param |-> p, rating |-> rating]
        /\ test' = [test EXCEPT ![t] = [@ EXCEPT !.at = "wait"]]
        /\ UNCHANGED <<settings, params>>
    BY <1>4 DEF SetLoad, webVars
  <2>2. Fits(p, rating) /\ rating \in Rating  BY <1>a, <1>b, RatingTyped DEF RatingNow
  <2>3. p.quiet => /\ p.load \in LoadPercentage
                   /\ p.va = TestVARating(rating, p.load)
    BY <2>2 DEF Fits
  <2>4. \A u \in Types : test'[u].param = test[u].param  BY <1>a, <2>1 DEF TestTyped
  <2> HIDE DEF p, rating
  <2>5. p.quiet => Draws(rating, p.load, RequiredBanks(rating, p.va), PwmOf(rating, p.va))
    BY <2>2, <2>3, LoadIsDrawn
  <2>6. LoadFits'  BY <2>1, <2>3, <2>5 DEF LoadFits
  <2> QED  BY <1>b, <1>c, <2>1, <2>4, <2>6 DEF LoadInv
<1>5. CASE UNCHANGED <<settings, testVars>>
  BY <1>5, <1>b, <1>c, <1>d DEF LoadInv, testVars
<1>6. CASE UNCHANGED vars
  BY <1>5, <1>6 DEF vars, webVars
<1> QED  BY <1>1, <1>2, <1>3, <1>4, <1>5, <1>6
         DEF Next, AsyncTCP, PostForm, EndFields, NotifyObserver, Reply

-------------------------------------------------------------------------------
(* The log                                                                 *)

LogInv == logged \in Nat /\ logBuffer \in Seq(Nat) /\ LogIsRecent

LEMMA LogKept == LogInv /\ Log => LogInv'
<1> SUFFICES ASSUME LogInv, Log PROVE LogInv'  OBVIOUS
<1>1. /\ logged \in Nat /\ logBuffer \in Seq(Nat)
      /\ Len(logBuffer) <= logged /\ Len(logBuffer) <= BufferLimit /\ Len(logBuffer) < ClearLimit
      /\ \A i \in 1..Len(logBuffer) : logBuffer[i] = logged - Len(logBuffer) + i
  BY DEF LogInv, LogIsRecent
<1>2. BufferLimit \in Nat \ {0} /\ ClearLimit \in Nat \ {0, 1}  BY LogAssumption
<1> DEFINE room == MakeRoom(logBuffer)
<1>3. /\ room \in Seq(Nat) /\ Len(room) <= logged /\ Len(room) < BufferLimit
      /\ Len(room) <= Len(logBuffer)
      /\ \A i \in 1..Len(room) : room[i] = logged - Len(room) + i
  <2>1. CASE Len(logBuffer) >= BufferLimit
    <3>1. /\ Tail(logBuffer) \in Seq(Nat) /\ Len(Tail(logBuffer)) = Len(logBuffer) - 1
          /\ \A i \in 1..(Len(logBuffer) - 1) : Tail(logBuffer)[i] = logBuffer[i + 1]
      BY <1>1, <1>2, <2>1
    <3> QED  BY <1>1, <1>2, <2>1, <3>1 DEF MakeRoom
  <2>2. CASE ~(Len(logBuffer) >= BufferLimit)
    BY <1>1, <1>2, <2>2 DEF MakeRoom
  <2> QED  BY <2>1, <2>2
<1> HIDE DEF room
<1> DEFINE more == Append(room, logged + 1)
<1>4. /\ more \in Seq(Nat) /\ Len(more) = Len(room) + 1
      /\ DOMAIN more = 1..Len(more)
      /\ \A i \in 1..Len(more) : more[i] = logged + 1 - Len(more) + i
  <2>1. Len(room) \in Nat /\ logged + 1 \in Nat  BY <1>1, <1>3
  <2>2. /\ more \in Seq(Nat) /\ Len(more) = Len(room) + 1
        /\ DOMAIN more = 1..Len(more)
        /\ more[Len(room) + 1] = logged + 1
        /\ \A i \in 1..Len(room) : more[i] = room[i]
    BY <1>3, <2>1
  <2>3. \A i \in 1..Len(more) : i \in 1..Len(room) \/ i = Len(room) + 1
    BY <2>1, <2>2
  <2> HIDE DEF more
  <2>4. ASSUME NEW i \in 1..Len(more) PROVE more[i] = logged + 1 - Len(more) + i
    <3>1. CASE i \in 1..Len(room)
      <4>1. more[i] = logged - Len(room) + i  BY <1>3, <2>2, <3>1
      <4> QED  BY <1>1, <2>1, <2>2, <4>1
    <3>2. CASE i = Len(room) + 1  BY <1>1, <2>1, <2>2, <3>2
    <3> QED  BY <2>3, <3>1, <3>2
  <2> QED  BY <2>2, <2>4
<1>5. logged' = logged + 1 /\ logBuffer' = IF Len(more) = ClearLimit THEN <<>> ELSE more
  BY DEF Log, Cleared, room
<1> HIDE DEF more
<1>6. CASE Len(more) = ClearLimit
  BY <1>1, <1>2, <1>5, <1>6 DEF LogInv, LogIsRecent
<1>7. CASE Len(more) # ClearLimit
  <2>1. logBuffer' = more /\ Len(more) <= logged + 1 /\ Len(more) <= BufferLimit
        /\ Len(more) < ClearLimit
    BY <1>1, <1>2, <1>3, <1>4, <1>5, <1>7
  <2>2. logged' \in Nat /\ logged' = logged + 1  BY <1>1, <1>5
  <2>3. \A i \in DOMAIN logBuffer' : logBuffer'[i] = logged' - Len(logBuffer') + i
    <3>1. Len(more) \in Nat /\ logged \in Nat  BY <1>1, <1>4
    <3>2. ASSUME NEW i \in DOMAIN more PROVE more[i] = logged' - Len(more) + i
      <4>1. i \in 1..Len(more) /\ more[i] = logged + 1 - Len(more) + i  BY <1>4
      <4> QED  BY <2>2, <3>1, <4>1
    <3> QED  BY <2>1, <3>2
  <2> QED  BY <1>4, <2>1, <2>2, <2>3 DEF LogInv, LogIsRecent
<1> QED  BY <1>6, <1>7

-------------------------------------------------------------------------------
(* All of it                                                               *)

WebInv == TypeInv /\ InStep /\ LoadInv /\ LogInv

LEMMA WebInvHolds == WebSpec => []WebInv
<1>1. WebInit => WebInv
  <2>1. LogInit => LogInv  BY LogAssumption DEF LogInit, LogInv, LogIsRecent
  <2> QED  BY <2>1, InitHasTypes, InitInStep, InitLoads DEF WebInit, WebInv
<1>2. WebInv /\ [WebNext]_<<vars, logVars, page>> => WebInv'
  <2> SUFFICES ASSUME WebInv, [WebNext]_<<vars, logVars, page>> PROVE WebInv'  OBVIOUS
  <2>1. [Next]_vars  BY DEF WebNext, LogMessage, ShowLog
  <2>2. LogInv'
    <3>1. CASE Log  BY <3>1, LogKept DEF WebInv
    <3>2. CASE UNCHANGED logVars  BY <3>2 DEF WebInv, LogInv, LogIsRecent, logVars
    <3> QED  BY <3>1, <3>2 DEF WebNext, LogMessage, ShowLog
  <2> QED  BY <2>1, <2>2, StepsKeepTypes, StepsKeepStep, StepsKeepLoads DEF WebInv
<1> QED  BY <1>1, <1>2, PTL DEF WebSpec

\* The type invariant: whatever number is posted, negative, with a fraction or too
\* large, and whatever it is converted to, every setting and every copy of one holds
\* what setField lets pass, the rating what the load bank is computed for, and
\* MaxRetest an int (setField, the conversions in handleUpdateSettingRequest).
THEOREM SettingsHaveTypes == WebSpec => []TypeOK
<1>1. WebInv => TypeOK  BY TypeInvIsTypeOK DEF WebInv
<1> QED  BY <1>1, WebInvHolds, PTL

\* Between requests the observers have the settings, unless the last request of
\* that kind ended with a rejected field, whatever forms are posted in whatever
\* order (handleUpdateSettingRequest, notifyObservers).
THEOREM ObserversKeepStep == WebSpec => []ObserversInStep
<1>1. WebInv => ObserversInStep  BY InStepIsObserved DEF WebInv
<1> QED  BY <1>1, WebInvHolds, PTL

\* A load that was computed, queued and set while all was quiet fits the rating,
\* for every rating a form may set and with any number of tests in the queue
\* (configureTest, setLoad).
THEOREM LoadsFit == WebSpec => []LoadFits
<1>1. WebInv => LoadFits  BY DEF WebInv, LoadInv
<1> QED  BY <1>1, WebInvHolds, PTL

\* The log page shows the latest messages, for every size of the buffer and
\* however many are logged (Logger::addToBuffer).
THEOREM LogStaysRecent == WebSpec => []LogIsRecent
<1>1. WebInv => LogIsRecent  BY DEF WebInv, LogInv
<1> QED  BY <1>1, WebInvHolds, PTL
===============================================================================
