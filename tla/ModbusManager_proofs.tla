------------------------ MODULE ModbusManager_proofs ------------------------
(***************************************************************************)
(* Theorems about ModbusManager, for any calls of TriggerCoil and any      *)
(* sizes of its queues.  What readings and writes are taken for rests on   *)
(* the tokens: the targets of main share token 0, the switch targets have  *)
(* those up to 5, and whatever two tasks draw at once is above (TokenInv). *)
(* That a write may be skipped rests on the value remembered for the coil, *)
(* which is the one asked for and the one under way (RememberedInv).  How  *)
(* long the list grows rests on a budget: what a call for ON may add is    *)
(* still waiting, or left to the watchdog, or on the list (BudgetInv).     *)
(* Calls and looks of the watchdog have an end whatever the others do.     *)
(***************************************************************************)
EXTENDS ModbusManager, SequenceTheorems, FiniteSetTheorems, WellFoundedInduction, TLAPS

\* ModbusAssumption, in the words of the steps.
Target == [type : Meter \union {"SWITCH_CONTROL", "COIL_READ"}, slave : 1..3,
           address : Nat, token : Nat, last : CoilState \union {"unknown"}]
AnyRequest == [token : Nat, slave : 1..3, address : Nat, value : CoilState \union {"read"}]
Task == [at : At, coil : Coil, state : CoilState, token : Nat, attempt : 0..MaxRetries,
         retries : 0..(MaxRetries + 1)]
Call == [coil : Coil, state : CoilState]

\* The list begins with the targets of createSwitchControls and main; what the
\* watchdog adds are coils of the server with tokens of their own.
ListFits(ts) ==
  /\ ts \in Seq(Target) /\ Len(ts) >= 7
  /\ \A i \in 1..5 : ts[i].type = "SWITCH_CONTROL" /\ ts[i].token = i
  /\ ts[6] = Meters[1] /\ ts[7] = Meters[2]
  /\ \A i \in 8..Len(ts) :
       ts[i].type = "COIL_READ" /\ ts[i].token > 5 /\ ts[i].address \in Coil

ListInv == ListFits(targets)

\* A request with the token of both meters reads one of them; any other has a token
\* that no switch target has.
Fits(r) == \/ r.token = 0 /\ r.value = "read" /\ r.slave \in 1..2
           \/ r.token > 5 /\ r.address \in Coil

TokenInv ==
  /\ currentToken \in Nat /\ currentToken >= 5
  /\ \A task \in {caller, watchdog} : task.at \in {"store", "send"} => task.token > 5
  /\ \A i \in DOMAIN requests : Fits(requests[i])

TaskInv ==
  /\ caller \in Task /\ watchdog \in Task
  /\ caller.at \in {"set", "store", "send"} => caller.attempt < MaxRetries
  /\ watchdog.at = "send" => watchdog.attempt < MaxRetries
  /\ watchdog.at \in {"store", "send"} => watchdog.retries <= MaxRetries
  /\ watchQueue \in Seq(Call) /\ Len(watchQueue) <= WatchdogQueueSize
  /\ script \in Seq(Call) /\ switchedOn \in Nat
  /\ asked \in [Coil -> CoilState \union {"unknown"}] /\ undone \subseteq Coil

PollingInv ==
  /\ polling \in [next : 0..Len(targets), end : 0..Len(targets), moved : BOOLEAN]
  /\ polling.next # 0 => polling.next >= 6

\* What the tokens come to: no answer finds a switch target, and those of both meters
\* find the first.
AnswersReachInput ==
  /\ \A c \in DOMAIN coils : coils[c] = "OFF"
  /\ power["OUTPUT_POWER"] = 0

ClientInv ==
  /\ coils \in [Coil -> CoilState] /\ server \in [Coil -> CoilState]
  /\ power \in [Meter -> 0..2]
  /\ requests \in Seq(AnyRequest) /\ Len(requests) <= QueueLimit
  /\ AnswersReachInput

TypeInv == ListInv /\ TokenInv /\ TaskInv /\ PollingInv /\ ClientInv

\* The value remembered for a coil is the one asked for, and, but while its write
\* is on the way to the queue, the one that the coil has or will have.
Remembered(c) == LET i == TargetOf(c) IN IF i = 0 THEN "unknown" ELSE targets[i].last

RememberedInv ==
  /\ caller.at # "free" => asked[caller.coil] = caller.state
  /\ \A c \in Coil :
       /\ Remembered(c) # "unknown" /\ ~(caller.at = "set" /\ caller.coil = c)
            => asked[c] = Remembered(c)
       /\ (Remembered(c) # "unknown" /\ c \notin undone
            /\ ~(caller.at \in {"store", "send"} /\ caller.coil = c))
          => WrittenTo(c) = Remembered(c)

AskedInv == RememberedInv /\ AskedIsSet

-------------------------------------------------------------------------------
(* The first and the last of some positions.                               *)

LEMMA LeastNumber == ASSUME NEW S, S \subseteq Nat, S # {}
                     PROVE  Min(S) \in S /\ \A x \in S : Min(S) <= x
<1>1. \E x \in S : \A y \in S : ~ (<<y, x>> \in OpToRel(<, Nat))
  BY WFMin, NatLessThanWellFounded
<1>2. PICK x \in S : \A y \in S : ~ (<<y, x>> \in OpToRel(<, Nat))  BY <1>1
<1>3. ASSUME NEW y \in S PROVE x =< y
  <2>1. x \in Nat /\ y \in Nat  OBVIOUS
  <2>2. y < x => <<y, x>> \in OpToRel(<, Nat)  BY <2>1 DEF OpToRel
  <2>3. ~ (y < x)  BY <1>2, <2>2, Zenon
  <2> QED  BY <2>1, <2>3
<1> QED  BY <1>3 DEF Min

LEMMA GreatestNumber == ASSUME NEW n \in Nat, NEW S, S \subseteq 1..n, S # {}
                        PROVE  Max(S) \in S /\ \A x \in S : x <= Max(S)
<1> DEFINE D == {n - x : x \in S}
<1>1. D \subseteq Nat /\ D # {}
  <2>1. \A x \in S : n - x \in Nat  OBVIOUS
  <2>2. PICK x \in S : TRUE  OBVIOUS
  <2>3. n - x \in D  BY <2>2
  <2> QED  BY <2>1, <2>3
<1>2. Min(D) \in D /\ \A d \in D : Min(D) <= d  BY <1>1, LeastNumber
<1>3. PICK x \in S : Min(D) = n - x  BY <1>2
<1>4. ASSUME NEW y \in S PROVE y <= x
  <2>1. n - y \in D  OBVIOUS
  <2>2. n - x <= n - y  BY <1>2, <1>3, <2>1
  <2>3. x \in Int /\ y \in Int  OBVIOUS
  <2> QED  BY <2>2, <2>3
<1> QED  BY <1>4 DEF Max

LEMMA Constants ==
  /\ QueueLimit \in Nat \ {0} /\ WatchdogQueueSize \in Nat \ {0} /\ MaxRetries \in Nat \ {0}
  /\ \A s \in Scripts : s \in Seq(Call)
BY ModbusAssumption DEF Call

\* SelectInSeq finds the first target that matches, or 0 where none does.
LEMMA FirstOf ==
  ASSUME NEW S, NEW ts \in Seq(S), NEW M, M \subseteq 1..Len(ts),
         NEW i, i = IF M # {} THEN Min(M) ELSE 0
  PROVE  \/ i = 0 /\ M = {}
         \/ i \in M /\ \A j \in M : i <= j
<1>1. Len(ts) \in Nat  OBVIOUS
<1>2. M \subseteq Nat  BY <1>1
<1> QED  BY <1>2, LeastNumber

LEMMA OfToken ==
  ASSUME ListInv, NEW n
  PROVE  \/ TargetWith(n) = 0 /\ \A j \in 1..Len(targets) : targets[j].token # n
         \/ /\ TargetWith(n) \in 1..Len(targets) /\ targets[TargetWith(n)].token = n
            /\ \A j \in 1..Len(targets) : targets[j].token = n => TargetWith(n) <= j
<1> DEFINE M == {j \in 1..Len(targets) : targets[j].token = n}
<1>1. TargetWith(n) = IF M # {} THEN Min(M) ELSE 0  BY DEF TargetWith, SelectInSeq
<1>2. \/ TargetWith(n) = 0 /\ M = {}
      \/ TargetWith(n) \in M /\ \A j \in M : TargetWith(n) <= j
  BY <1>1, FirstOf DEF ListInv, ListFits
<1> QED  BY <1>2

\* An answer is a reading of a meter, taken for the input's, or it is nothing.
LEMMA AnswerOf ==
  ASSUME ListInv, NEW r, Fits(r)
  PROVE  LET i == TargetWith(r.token)
         IN /\ r.token = 0 => i = 6 /\ targets[i].type = "INPUT_POWER"
            /\ r.token # 0 /\ i # 0 => targets[i].type = "COIL_READ"
<1> DEFINE i == TargetWith(r.token)
<1>1. \/ i = 0 /\ \A j \in 1..Len(targets) : targets[j].token # r.token
      \/ /\ i \in 1..Len(targets) /\ targets[i].token = r.token
         /\ \A j \in 1..Len(targets) : targets[j].token = r.token => i <= j
  BY OfToken
<1>2. Len(targets) \in Nat /\ Len(targets) >= 7  BY DEF ListInv, ListFits
<1>3. \A j \in 1..5 : targets[j].token = j  BY DEF ListInv, ListFits
<1>4. /\ targets[6].token = 0 /\ targets[7].token = 0
      /\ targets[6].type = "INPUT_POWER"
  BY DEF ListInv, ListFits, Meters, NewTarget
<1>5. \A j \in 8..Len(targets) : targets[j].type = "COIL_READ" /\ targets[j].token > 5
  BY DEF ListInv, ListFits
<1>6. r.token = 0 \/ r.token > 5  BY DEF Fits
<1> HIDE DEF i
<1>7. r.token = 0 => i = 6  BY <1>1, <1>2, <1>3, <1>4
<1>8. ASSUME r.token > 5, i # 0 PROVE targets[i].type = "COIL_READ"
  <2>1. \A j \in 1..7 : targets[j].token # r.token  BY <1>3, <1>4, <1>8
  <2>2. i \in 8..Len(targets)  BY <1>1, <1>2, <1>8, <2>1
  <2> QED  BY <1>5, <2>2
<1> QED  BY <1>4, <1>6, <1>7, <1>8 DEF i

\* The first target of a coil, the server's.
Matches(ts, c) == {j \in 1..Len(ts) : ts[j].address = c /\ ts[j].slave = CoilServer}

LEMMA OfCoil ==
  ASSUME NEW c, NEW ts \in Seq(Target), NEW i,
         i = IF Matches(ts, c) # {} THEN Min(Matches(ts, c)) ELSE 0
  PROVE  \/ i = 0 /\ Matches(ts, c) = {}
         \/ i \in Matches(ts, c) /\ \A j \in Matches(ts, c) : i <= j
BY FirstOf DEF Matches

LEMMA TargetOfCoil ==
  \A c : TargetOf(c) = IF Matches(targets, c) # {} THEN Min(Matches(targets, c)) ELSE 0
BY DEF TargetOf, SelectInSeq, Matches

LEMMA TargetOfCoilNext ==
  \A c : TargetOf(c)' = IF Matches(targets', c) # {} THEN Min(Matches(targets', c)) ELSE 0
BY DEF TargetOf, SelectInSeq, Matches

LEMMA CoilTarget ==
  ASSUME ListInv, NEW c \in Coil, TargetOf(c) # 0
  PROVE  /\ TargetOf(c) \in 1..Len(targets) /\ TargetOf(c) \notin {6, 7}
         /\ TargetOf(c) \in Matches(targets, c)
<1>1. TargetOf(c) \in Matches(targets, c)  BY OfCoil, TargetOfCoil DEF ListInv, ListFits
<1>2. targets[6].address = 761 /\ targets[7].address = 123
  BY DEF ListInv, ListFits, Meters, NewTarget
<1>3. 6 \notin Matches(targets, c) /\ 7 \notin Matches(targets, c)  BY <1>2 DEF Matches, Coil
<1> QED  BY <1>1, <1>3 DEF Matches

-------------------------------------------------------------------------------
(* The list.                                                               *)

\* What setCoil remembers is all that changes in a target.
Remember(ts, i, l) == [ts EXCEPT ![i].last = l]

LEMMA Remembering ==
  ASSUME NEW ts, ListFits(ts), NEW i \in 1..Len(ts), i \notin {6, 7}, NEW l \in CoilState,
         NEW us, us = Remember(ts, i, l)
  PROVE  /\ ListFits(us) /\ Len(us) = Len(ts)
         /\ \A j \in 1..Len(ts) :
              /\ us[j].type = ts[j].type /\ us[j].slave = ts[j].slave
              /\ us[j].address = ts[j].address /\ us[j].token = ts[j].token
              /\ j # i => us[j] = ts[j]
         /\ us[i].last = l
<1> DEFINE t == [ts[i] EXCEPT !.last = l]
<1>1. ts \in Seq(Target) /\ ts[i] \in Target  BY DEF ListFits
<1>2. /\ t \in Target /\ t.type = ts[i].type /\ t.slave = ts[i].slave
      /\ t.address = ts[i].address /\ t.token = ts[i].token /\ t.last = l
  BY <1>1 DEF Target
<1>3. us = [ts EXCEPT ![i] = t]  BY DEF Remember
<1> HIDE DEF t
<1>4. /\ us \in Seq(Target) /\ Len(us) = Len(ts)
      /\ \A j \in 1..Len(ts) : us[j] = IF j = i THEN t ELSE ts[j]
  BY <1>1, <1>2, <1>3, ExceptSeq
<1>5. \A j \in 1..Len(ts) :
        /\ us[j].type = ts[j].type /\ us[j].slave = ts[j].slave
        /\ us[j].address = ts[j].address /\ us[j].token = ts[j].token
        /\ j # i => us[j] = ts[j]
  BY <1>2, <1>4
<1>6. Len(ts) \in Nat /\ Len(ts) >= 7  BY DEF ListFits
<1>7. us[6] = ts[6] /\ us[7] = ts[7]  BY <1>5, <1>6
<1> QED  BY <1>2, <1>4, <1>5, <1>6, <1>7 DEF ListFits

LEMMA Adding ==
  ASSUME NEW ts, ListFits(ts), NEW t \in Target, t.type = "COIL_READ", t.token > 5,
         t.address \in Coil
  PROVE  /\ ListFits(Append(ts, t)) /\ Len(Append(ts, t)) = Len(ts) + 1
         /\ \A j \in 1..Len(ts) : Append(ts, t)[j] = ts[j]
         /\ Append(ts, t)[Len(ts) + 1] = t
<1>1. ts \in Seq(Target) /\ Len(ts) \in Nat /\ Len(ts) >= 7  BY DEF ListFits
<1>2. /\ Append(ts, t) \in Seq(Target) /\ Len(Append(ts, t)) = Len(ts) + 1
      /\ \A j \in 1..Len(ts) : Append(ts, t)[j] = ts[j]
      /\ Append(ts, t)[Len(ts) + 1] = t
  BY <1>1, AppendProperties
<1> DEFINE us == Append(ts, t)
<1> HIDE DEF us
<1>3. \A j \in 8..Len(us) :
        us[j].type = "COIL_READ" /\ us[j].token > 5 /\ us[j].address \in Coil
  BY <1>1, <1>2 DEF ListFits, us
<1>4. us[6] = ts[6] /\ us[7] = ts[7] /\ \A j \in 1..5 : us[j] = ts[j]  BY <1>1, <1>2 DEF us
<1>5. us \in Seq(Target) /\ Len(us) >= 7  BY <1>1, <1>2 DEF us
<1>6. ListFits(us)  BY <1>3, <1>4, <1>5 DEF ListFits
<1> QED  BY <1>2, <1>6 DEF us

LEMMA FreeTask == Free \in Task /\ Free.at = "free" /\ Free.attempt = 0 /\ Free.retries = 0
BY Constants DEF Free, Task, At, Coil, CoilState

LEMMA InitTypes == Init => TypeInv
<1> SUFFICES ASSUME Init PROVE TypeInv  OBVIOUS
<1>1. SwitchControls \in Seq(Target) /\ Len(SwitchControls) = 5
  BY DEF SwitchControls, NewTarget, Target, CoilServer
<1>2. Meters \in Seq(Target) /\ Len(Meters) = 2  BY DEF Meters, NewTarget, Target, Meter
<1>3. /\ targets \in Seq(Target) /\ Len(targets) = 7
      /\ \A i \in 1..7 : targets[i] = IF i <= 5 THEN SwitchControls[i] ELSE Meters[i - 5]
  <2>1. targets = SwitchControls \o Meters  BY DEF Init
  <2>2. /\ targets \in Seq(Target) /\ Len(targets) = Len(SwitchControls) + Len(Meters)
        /\ \A i \in 1..(Len(SwitchControls) + Len(Meters)) :
             targets[i] = IF i <= Len(SwitchControls) THEN SwitchControls[i]
                          ELSE Meters[i - Len(SwitchControls)]
    BY <1>1, <1>2, <2>1, ConcatProperties, Zenon
  <2>3. Len(SwitchControls) + Len(Meters) = 7  BY <1>1, <1>2
  <2> QED  BY <1>1, <2>2, <2>3
<1>4. ListInv
  <2>1. \A i \in 1..5 : targets[i] = SwitchControls[i]  BY <1>3
  <2>2. \A i \in 1..5 : targets[i].type = "SWITCH_CONTROL" /\ targets[i].token = i
    BY <2>1 DEF SwitchControls, NewTarget
  <2>3. targets[6] = Meters[1] /\ targets[7] = Meters[2]  BY <1>3
  <2> QED  BY <1>3, <2>2, <2>3 DEF ListInv, ListFits
<1>5. TokenInv  BY <1>1 DEF Init, TokenInv, Free
<1>6. TaskInv
  <2>1. Free \in Task  BY FreeTask
  <2>2. script \in Seq(Call)  BY Constants DEF Init
  <2>3. watchQueue \in Seq(Call) /\ Len(watchQueue) <= WatchdogQueueSize
    BY Constants DEF Init
  <2> QED  BY <2>1, <2>2, <2>3, Constants DEF Init, TaskInv, Free
<1>7. PollingInv  BY <1>3 DEF Init, PollingInv, BetweenRounds
<1>8. ClientInv
  <2>1. requests \in Seq(AnyRequest) /\ Len(requests) <= QueueLimit  BY Constants DEF Init
  <2> QED  BY <2>1 DEF Init, ClientInv, AnswersReachInput, CoilState, Meter
<1> QED  BY <1>4, <1>5, <1>6, <1>7, <1>8 DEF TypeInv

-------------------------------------------------------------------------------
(* The steps keep the types.                                               *)

Sent == /\ requests \in Seq(AnyRequest) /\ Len(requests) <= QueueLimit
        /\ \A i \in DOMAIN requests : Fits(requests[i])

LEMMA Sending ==
  ASSUME Sent, NEW r \in AnyRequest, Fits(r), AddRequest(r)
  PROVE  Sent'
<1>1. CASE ~Room  BY <1>1 DEF AddRequest, Sent, Fits
<1>2. CASE Room
  <2>1. requests' = Append(requests, r)  BY <1>2 DEF AddRequest
  <2>2. Len(requests) < QueueLimit /\ Len(requests) \in Nat  BY <1>2 DEF Room, Sent
  <2>3. /\ requests' \in Seq(AnyRequest) /\ Len(requests') = Len(requests) + 1
        /\ \A i \in 1..Len(requests) : requests'[i] = requests[i]
        /\ requests'[Len(requests) + 1] = r
    BY <2>1, AppendProperties DEF Sent
  <2>4. \A i \in DOMAIN requests' : Fits(requests'[i])  BY <2>2, <2>3 DEF Sent
  <2>5. Len(requests') <= QueueLimit  BY <2>2, <2>3, Constants
  <2> QED  BY <2>3, <2>4, <2>5 DEF Sent, Fits
<1> QED  BY <1>1, <1>2

LEMMA Taking ==
  ASSUME Sent, requests # <<>>
  PROVE  /\ Head(requests) \in AnyRequest /\ Fits(Head(requests))
         /\ requests' = Tail(requests) => Sent'
<1>1. /\ Head(requests) \in AnyRequest /\ Tail(requests) \in Seq(AnyRequest)
      /\ Len(Tail(requests)) = Len(requests) - 1
      /\ \A i \in 1..Len(Tail(requests)) : Tail(requests)[i] = requests[i + 1]
  BY HeadTailProperties DEF Sent
<1>2. Len(requests) \in Nat /\ Len(requests) > 0 /\ Head(requests) = requests[1]  BY DEF Sent
<1>3. Fits(Head(requests))  BY <1>2 DEF Sent
<1>4. \A i \in DOMAIN Tail(requests) : Fits(Tail(requests)[i])  BY <1>1, <1>2 DEF Sent
<1>5. Len(Tail(requests)) <= QueueLimit  BY <1>1, <1>2, Constants DEF Sent
<1> QED  BY <1>1, <1>3, <1>4, <1>5 DEF Sent, Fits

LEMMA SentIsTyped == ClientInv /\ TokenInv => Sent
BY DEF ClientInv, TokenInv, Sent

\* Where a round goes on.
LEMMA Rounds ==
  ASSUME ListInv, NEW i \in Nat \ {0}, NEW round,
         round \in [next : 0..Len(targets), end : 0..Len(targets), moved : BOOLEAN]
  PROVE  /\ RoundFrom(i, round) \in [next : 0..Len(targets), end : 0..Len(targets),
                                     moved : BOOLEAN]
         /\ RoundFrom(i, round).next # 0 => RoundFrom(i, round).next >= 6
<1> DEFINE P == {j \in i..round.end : targets[j].type \in Meter \union {"COIL_READ"}}
<1>1. Len(targets) \in Nat /\ Len(targets) >= 7  BY DEF ListInv, ListFits
<1>2. P \subseteq 1..Len(targets)  BY <1>1
<1>3. P \subseteq Nat  BY <1>1, <1>2
<1>4. \A j \in P : j >= 6
  <2>1. \A j \in 1..5 : j \notin P  BY DEF ListInv, ListFits, Meter
  <2> QED  BY <1>1, <1>2, <2>1
<1>5. CASE P = {}
  <2>1. RoundFrom(i, round) = BetweenRounds  BY <1>5 DEF RoundFrom
  <2> QED  BY <1>1, <2>1 DEF BetweenRounds
<1>6. CASE P # {}
  <2>1. Min(P) \in P  BY <1>3, <1>6, LeastNumber
  <2>2. RoundFrom(i, round) = [round EXCEPT !.next = Min(P)]  BY <1>6 DEF RoundFrom
  <2>3. Min(P) \in 0..Len(targets) /\ Min(P) >= 6  BY <1>1, <1>2, <1>4, <2>1
  <2> HIDE DEF P
  <2> QED  BY <2>2, <2>3
<1> QED  BY <1>5, <1>6

\* What a task that polls asks for.
LEMMA Polled ==
  ASSUME ListInv, PollingInv, polling.next # 0
  PROVE  /\ Request(targets[polling.next], "read") \in AnyRequest
         /\ Fits(Request(targets[polling.next], "read"))
<1> DEFINE t == targets[polling.next]
<1>1. polling.next \in 6..Len(targets) /\ Len(targets) \in Nat
  BY DEF PollingInv, ListInv, ListFits
<1>2. t \in Target  BY <1>1 DEF ListInv, ListFits
<1>3. t = Meters[1] \/ t = Meters[2] \/ (t.token > 5 /\ t.address \in Coil)
  BY <1>1 DEF ListInv, ListFits
<1>4. \A m \in {Meters[1], Meters[2]} : m.token = 0 /\ m.slave \in 1..2
  BY DEF Meters, NewTarget
<1> HIDE DEF t
<1>5. Request(t, "read") \in AnyRequest  BY <1>2 DEF Target, Request, AnyRequest
<1>6. Fits(Request(t, "read"))  BY <1>3, <1>4 DEF Request, Fits
<1> QED  BY <1>5, <1>6 DEF t

LEMMA PollingTypes == TypeInv /\ PollingTask => TypeInv'
<1> SUFFICES ASSUME TypeInv, PollingTask PROVE TypeInv'  OBVIOUS
<1> USE DEF TypeInv
<1>1. /\ UNCHANGED <<targets, currentToken, server, power, coils, caller, watchdog,
                     watchQueue, script, switchedOn, asked, undone>>
      /\ UNCHANGED requests \/ (AddRequest(Request(targets[polling.next], "read"))
                                 /\ polling.next # 0)
  BY DEF PollingTask, BeginRound, Poll, PassBy, clientVars, calls
<1>2. polling' = RoundFrom(1, [BetweenRounds EXCEPT !.end = Len(targets)])
      \/ (polling.next # 0 /\ polling' = RoundFrom(polling.next + 1, polling))
  BY DEF PollingTask, BeginRound, Poll, PassBy, GoOn
<1>3. ListInv' /\ TaskInv'  BY <1>1 DEF ListInv, TaskInv
<1>4. Sent'
  <2>1. CASE UNCHANGED requests  BY <2>1, SentIsTyped DEF Sent, Fits
  <2>2. CASE AddRequest(Request(targets[polling.next], "read")) /\ polling.next # 0
    BY <2>2, Polled, Sending, SentIsTyped
  <2> QED  BY <1>1, <2>1, <2>2
<1>5. TokenInv' /\ ClientInv'
  BY <1>1, <1>4 DEF TokenInv, ClientInv, Sent, AnswersReachInput, Fits
<1>6. PollingInv'
  <2>1. Len(targets) \in Nat /\ Len(targets)' = Len(targets)  BY <1>1 DEF ListInv, ListFits
  <2>2. [BetweenRounds EXCEPT !.end = Len(targets)]
          \in [next : 0..Len(targets), end : 0..Len(targets), moved : BOOLEAN]
    <3> DEFINE b == BetweenRounds
    <3>1. b \in [next : 0..Len(targets), end : 0..Len(targets), moved : BOOLEAN]
      BY <2>1 DEF BetweenRounds
    <3> HIDE DEF b
    <3>2. [b EXCEPT !.end = Len(targets)]
            \in [next : 0..Len(targets), end : 0..Len(targets), moved : BOOLEAN]
      BY <2>1, <3>1
    <3> QED  BY <3>2 DEF b
  <2>3. polling.next # 0 => polling.next + 1 \in Nat \ {0}  BY <2>1 DEF PollingInv
  <2>4. /\ polling' \in [next : 0..Len(targets), end : 0..Len(targets), moved : BOOLEAN]
        /\ polling'.next # 0 => polling'.next >= 6
    <3>1. CASE polling' = RoundFrom(1, [BetweenRounds EXCEPT !.end = Len(targets)])
      <4>1. 1 \in Nat \ {0}  OBVIOUS
      <4> QED  BY <2>2, <3>1, <4>1, Rounds, Zenon
    <3>2. CASE polling.next # 0 /\ polling' = RoundFrom(polling.next + 1, polling)
      <4>1. polling \in [next : 0..Len(targets), end : 0..Len(targets), moved : BOOLEAN]
        BY DEF PollingInv
      <4> QED  BY <2>3, <3>2, <4>1, Rounds, Zenon
    <3> QED  BY <1>2, <3>1, <3>2
  <2> QED  BY <2>1, <2>4 DEF PollingInv
<1> QED  BY <1>3, <1>5, <1>6

\* The callers of generateUniqueToken have tokens that no switch target has.
LEMMA CallTypes == TypeInv /\ TriggerCoil => TypeInv'
<1> SUFFICES ASSUME TypeInv, TriggerCoil PROVE TypeInv'  OBVIOUS
<1> USE DEF TypeInv
<1>1. Head(script) \in Call /\ Tail(script) \in Seq(Call)
  BY HeadTailProperties DEF TaskInv, TriggerCoil
<1>2. caller' \in Task /\ caller'.at = "set" /\ caller'.attempt < MaxRetries
  <2> DEFINE f == Free
             c == Head(script).coil
             s == Head(script).state
  <2>1. caller' = [f EXCEPT !.at = "set", !.coil = c, !.state = s]  BY DEF TriggerCoil
  <2>2. c \in Coil /\ s \in CoilState  BY <1>1 DEF Call
  <2>3. f \in Task /\ f.attempt = 0 /\ 0 < MaxRetries  BY FreeTask, Constants
  <2> HIDE DEF f, c, s
  <2> QED  BY <2>1, <2>2, <2>3 DEF Task, At
<1>3. UNCHANGED <<targets, currentToken, server, power, coils, requests, polling, watchdog,
                  watchQueue, undone>>
  BY DEF clientVars, TriggerCoil
<1>4. asked' \in [Coil -> CoilState \union {"unknown"}] /\ switchedOn' \in Nat
  BY <1>1 DEF Call, TaskInv, TriggerCoil
<1>5. ListInv' /\ PollingInv' /\ ClientInv'
  BY <1>3 DEF ListInv, PollingInv, ClientInv, AnswersReachInput
<1>6. TokenInv'  BY <1>2, <1>3 DEF TokenInv, Fits
<1>7. TaskInv'  BY <1>1, <1>2, <1>3, <1>4 DEF TaskInv, TriggerCoil
<1> QED  BY <1>5, <1>6, <1>7

LEMMA SetTypes == TypeInv /\ SetCoil => TypeInv'
<1> SUFFICES ASSUME TypeInv, SetCoil PROVE TypeInv'  OBVIOUS
<1> USE DEF TypeInv
<1> DEFINE i == TargetOf(caller.coil)
<1>1. caller \in Task /\ caller.coil \in Coil /\ caller.state \in CoilState
  BY DEF TaskInv, Task
<1>2. UNCHANGED <<currentToken, server, power, coils, requests, polling, watchdog, watchQueue,
                  script, switchedOn, asked, undone>>
  BY DEF SetCoil, clientVars, calls
<1>3. ListFits(targets') /\ Len(targets') = Len(targets)
  <2>1. UNCHANGED targets \/ (i # 0 /\ targets' = [targets EXCEPT ![i].last = caller.state])
    BY DEF SetCoil
  <2>2. CASE UNCHANGED targets  BY <2>2 DEF ListInv
  <2>3. CASE i # 0 /\ targets' = [targets EXCEPT ![i].last = caller.state]
    <3>1. i \in 1..Len(targets) /\ i \notin {6, 7}  BY <1>1, <2>3, CoilTarget
    <3>2. ListFits(targets)  BY DEF ListInv
    <3>3. targets' = Remember(targets, i, caller.state)  BY <2>3 DEF Remember
    <3>4. caller.state \in CoilState  BY <1>1
    <3> HIDE DEF i
    <3> QED  BY <3>1, <3>2, <3>3, <3>4, Remembering
  <2> QED  BY <2>1, <2>2, <2>3
<1>4. /\ caller' \in Task /\ caller'.at \in {"watch", "store"}
      /\ caller'.at = "store" => caller'.token > 5 /\ caller'.attempt < MaxRetries
  <2>1. caller' = [caller EXCEPT !.at = "watch"]
        \/ caller' = [caller EXCEPT !.at = "store", !.token = currentToken + 1]
    BY DEF SetCoil, LoadToken, Incremented
  <2>2. currentToken + 1 \in Nat /\ currentToken + 1 > 5  BY DEF TokenInv
  <2>3. caller.attempt < MaxRetries  BY DEF SetCoil, TaskInv
  <2> QED  BY <1>1, <2>1, <2>2, <2>3 DEF Task, At
<1>5. ListInv' /\ PollingInv' /\ ClientInv'
  BY <1>2, <1>3 DEF ListInv, PollingInv, ClientInv, AnswersReachInput
<1>6. TokenInv'  BY <1>2, <1>4 DEF TokenInv, Fits
<1>7. TaskInv'  BY <1>2, <1>4 DEF TaskInv
<1> QED  BY <1>5, <1>6, <1>7

LEMMA StoreTypes == TypeInv /\ StoreToken => TypeInv'
<1> SUFFICES ASSUME TypeInv, StoreToken PROVE TypeInv'  OBVIOUS
<1> USE DEF TypeInv
<1>1. UNCHANGED <<targets, server, power, coils, requests, polling, watchdog, watchQueue,
                  script, switchedOn, asked, undone>>
  BY DEF StoreToken, clientVars, calls
<1>2. caller \in Task /\ caller.token > 5 /\ caller.token \in Nat /\ caller.attempt < MaxRetries
  BY DEF StoreToken, TaskInv, TokenInv, Task
<1>3. caller' \in Task /\ caller'.token = caller.token /\ caller'.attempt = caller.attempt
  BY <1>2 DEF StoreToken, Task, At
<1>4. ListInv' /\ PollingInv' /\ ClientInv'
  BY <1>1 DEF ListInv, PollingInv, ClientInv, AnswersReachInput
<1>5. currentToken' = caller.token  BY DEF StoreToken
<1>6. TokenInv'  BY <1>1, <1>2, <1>3, <1>5 DEF TokenInv, Fits
<1>7. TaskInv'  BY <1>1, <1>2, <1>3 DEF TaskInv
<1> QED  BY <1>4, <1>6, <1>7

LEMMA WriteTypes == TypeInv /\ WriteCoil => TypeInv'
<1> SUFFICES ASSUME TypeInv, WriteCoil PROVE TypeInv'  OBVIOUS
<1> USE DEF TypeInv
<1> DEFINE r == [token |-> caller.token, slave |-> CoilServer, address |-> caller.coil,
                 value |-> caller.state]
<1>1. UNCHANGED <<targets, currentToken, server, power, coils, polling, watchdog, watchQueue,
                  script, switchedOn, asked>>
  BY DEF WriteCoil
<1>2. caller \in Task /\ caller.token > 5 /\ caller.attempt < MaxRetries
  BY DEF WriteCoil, TaskInv, TokenInv
<1>3. r \in AnyRequest /\ Fits(r) /\ AddRequest(r)
  BY <1>2 DEF WriteCoil, Task, AnyRequest, Fits, CoilServer, Coil
<1>4. Sent'
  <2> HIDE DEF r
  <2> QED  BY <1>3, Sending, SentIsTyped
<1>5. /\ caller' \in Task
      /\ caller'.at = "send" => caller'.token > 5 /\ caller'.attempt < MaxRetries
      /\ caller'.at \in {"free", "watch", "send"}
  <2>1. \/ caller' = [caller EXCEPT !.at = "watch"]
        \/ caller' = Free
        \/ caller.attempt + 1 # MaxRetries /\ caller' = [caller EXCEPT !.attempt = @ + 1]
    BY DEF WriteCoil
  <2>2. caller.at = "send"  BY DEF WriteCoil
  <2>3. caller.attempt \in 0..MaxRetries  BY <1>2 DEF Task
  <2> QED  BY <1>2, <2>1, <2>2, <2>3, FreeTask, Constants DEF Task, At
<1>6. undone' \subseteq Coil  BY <1>2 DEF WriteCoil, TaskInv, Task
<1>7. ListInv' /\ PollingInv'  BY <1>1 DEF ListInv, PollingInv
<1>8. ClientInv'  BY <1>1, <1>4 DEF ClientInv, Sent, AnswersReachInput
<1>9. TokenInv'  BY <1>1, <1>4, <1>5 DEF TokenInv, Sent, Fits
<1>10. TaskInv'  BY <1>1, <1>5, <1>6 DEF TaskInv
<1> QED  BY <1>7, <1>8, <1>9, <1>10

LEMMA EnqueueTypes == TypeInv /\ EnqueueWatchdog => TypeInv'
<1> SUFFICES ASSUME TypeInv, EnqueueWatchdog PROVE TypeInv'  OBVIOUS
<1> USE DEF TypeInv
<1>1. UNCHANGED <<targets, currentToken, server, power, coils, requests, polling, watchdog,
                  script, switchedOn, asked, undone>>
  BY DEF EnqueueWatchdog, clientVars, calls
<1>2. watchQueue' \in Seq(Call) /\ Len(watchQueue') <= WatchdogQueueSize
  <2> DEFINE w == [coil |-> caller.coil, state |-> caller.state]
  <2>1. w \in Call  BY DEF Call, Task, TaskInv
  <2>2. watchQueue' = watchQueue \/ (Len(watchQueue) # WatchdogQueueSize
                                     /\ watchQueue' = Append(watchQueue, w))
    BY DEF EnqueueWatchdog
  <2> HIDE DEF w
  <2>3. Append(watchQueue, w) \in Seq(Call) /\ Len(Append(watchQueue, w)) = Len(watchQueue) + 1
    BY <2>1, AppendProperties DEF TaskInv
  <2>4. Len(watchQueue) \in Nat /\ Len(watchQueue) <= WatchdogQueueSize
    BY DEF TaskInv
  <2> QED  BY <2>2, <2>3, <2>4, Constants DEF TaskInv
<1>3. caller' \in Task /\ caller'.at = "free"  BY FreeTask DEF EnqueueWatchdog
<1>4. ListInv' /\ PollingInv' /\ ClientInv'
  BY <1>1 DEF ListInv, PollingInv, ClientInv, AnswersReachInput
<1>5. TokenInv'  BY <1>1, <1>3 DEF TokenInv, Fits
<1>6. TaskInv'  BY <1>1, <1>2, <1>3 DEF TaskInv
<1> QED  BY <1>4, <1>5, <1>6

LEMMA ReceiveTypes == TypeInv /\ ReceiveWatch => TypeInv'
<1> SUFFICES ASSUME TypeInv, ReceiveWatch PROVE TypeInv'  OBVIOUS
<1> USE DEF TypeInv
<1>1. UNCHANGED <<targets, currentToken, server, power, coils, requests, polling, caller,
                  script, switchedOn, asked, undone>>
  BY DEF ReceiveWatch, clientVars, calls
<1>2. /\ Head(watchQueue) \in Call /\ Tail(watchQueue) \in Seq(Call)
      /\ Len(Tail(watchQueue)) = Len(watchQueue) - 1
  BY HeadTailProperties DEF TaskInv, ReceiveWatch
<1>3. watchdog' \in Task /\ watchdog'.at = "check"
  <2> DEFINE f == Free
             c == Head(watchQueue).coil
             s == Head(watchQueue).state
  <2>1. watchdog' = [f EXCEPT !.at = "check", !.coil = c, !.state = s]  BY DEF ReceiveWatch
  <2>2. c \in Coil /\ s \in CoilState  BY <1>2 DEF Call
  <2>3. f \in Task  BY FreeTask
  <2> HIDE DEF f, c, s
  <2> QED  BY <2>1, <2>2, <2>3 DEF Task, At
<1>4. watchQueue' \in Seq(Call) /\ Len(watchQueue') <= WatchdogQueueSize
  <2>1. Len(watchQueue) \in Nat /\ Len(watchQueue) <= WatchdogQueueSize  BY DEF TaskInv
  <2> QED  BY <1>2, <2>1, Constants DEF ReceiveWatch
<1>5. ListInv' /\ PollingInv' /\ ClientInv'
  BY <1>1 DEF ListInv, PollingInv, ClientInv, AnswersReachInput
<1>6. TokenInv'  BY <1>1, <1>3 DEF TokenInv, Fits
<1>7. TaskInv'  BY <1>1, <1>3, <1>4 DEF TaskInv
<1> QED  BY <1>5, <1>6, <1>7

LEMMA CheckTypes == TypeInv /\ CheckCoil => TypeInv'
<1> SUFFICES ASSUME TypeInv, CheckCoil PROVE TypeInv'  OBVIOUS
<1> USE DEF TypeInv
<1>1. UNCHANGED <<targets, currentToken, server, power, coils, requests, polling, caller,
                  watchQueue, script, switchedOn, asked, undone>>
  BY DEF CheckCoil, clientVars, calls
<1>2. /\ watchdog' \in Task /\ watchdog'.at \in {"free", "store"}
      /\ watchdog'.at = "store" => watchdog'.token > 5 /\ watchdog'.retries <= MaxRetries
  <2>1. \/ watchdog' = Free
        \/ /\ ~(watchdog.retries > MaxRetries)
           /\ watchdog' = [watchdog EXCEPT !.at = "store", !.token = currentToken + 1]
    BY DEF CheckCoil, LoadToken, Incremented, Exhausted
  <2>2. currentToken + 1 \in Nat /\ currentToken + 1 > 5  BY DEF TokenInv
  <2>3. watchdog \in Task /\ watchdog.retries \in Int  BY Constants DEF TaskInv, Task
  <2>4. CASE watchdog' = Free  BY <2>4, FreeTask
  <2>5. CASE /\ ~(watchdog.retries > MaxRetries)
             /\ watchdog' = [watchdog EXCEPT !.at = "store", !.token = currentToken + 1]
    <3>1. watchdog' \in Task /\ watchdog'.at = "store" /\ watchdog'.token = currentToken + 1
          /\ watchdog'.retries = watchdog.retries
      BY <2>2, <2>3, <2>5 DEF Task, At
    <3>2. watchdog.retries <= MaxRetries  BY <2>3, <2>5, Constants
    <3> QED  BY <2>2, <3>1, <3>2
  <2> QED  BY <2>1, <2>4, <2>5
<1>3. ListInv' /\ PollingInv' /\ ClientInv'
  BY <1>1 DEF ListInv, PollingInv, ClientInv, AnswersReachInput
<1>4. TokenInv'  BY <1>1, <1>2 DEF TokenInv, Fits
<1>5. TaskInv'  BY <1>1, <1>2 DEF TaskInv
<1> QED  BY <1>3, <1>4, <1>5

LEMMA AddTypes == TypeInv /\ AddTarget => TypeInv'
<1> SUFFICES ASSUME TypeInv, AddTarget PROVE TypeInv'  OBVIOUS
<1> USE DEF TypeInv
<1>1. UNCHANGED <<server, power, coils, requests, caller, watchQueue, script, switchedOn,
                  asked, undone>>
  BY DEF AddTarget, clientVars, calls
<1>2. /\ watchdog \in Task /\ watchdog.at = "store" /\ watchdog.token > 5
      /\ watchdog.token \in Nat /\ watchdog.retries <= MaxRetries
  BY DEF AddTarget, TaskInv, TokenInv, Task
<1>3. /\ watchdog' \in Task /\ watchdog'.at = "send" /\ watchdog'.token > 5
      /\ watchdog'.attempt < MaxRetries /\ watchdog'.retries <= MaxRetries
  <2>1. watchdog' = [watchdog EXCEPT !.at = "send", !.attempt = 0]  BY DEF AddTarget
  <2>2. 0 \in 0..MaxRetries /\ 0 < MaxRetries  BY Constants
  <2>3. watchdog' \in Task  BY <1>2, <2>1, <2>2 DEF Task, At
  <2>4. /\ watchdog'.at = "send" /\ watchdog'.attempt = 0
        /\ watchdog'.token = watchdog.token /\ watchdog'.retries = watchdog.retries
    BY <1>2, <2>1 DEF Task
  <2> QED  BY <1>2, <2>2, <2>3, <2>4
<1>4. /\ ReadTarget \in Target /\ ReadTarget.type = "COIL_READ" /\ ReadTarget.token > 5
      /\ ReadTarget.address \in Coil
  BY <1>2 DEF ReadTarget, NewTarget, Target, Task, Coil, CoilServer
<1>5. /\ ListFits(targets') /\ Len(targets') >= Len(targets)
      /\ UNCHANGED polling \/ polling' = [polling EXCEPT !.moved = polling.next # 0]
  <2>1. \/ UNCHANGED <<targets, polling>>
        \/ /\ targets' = Append(targets, ReadTarget)
           /\ UNCHANGED polling \/ polling' = [polling EXCEPT !.moved = polling.next # 0]
    BY DEF AddTarget
  <2>2. ListFits(targets) /\ Len(targets) \in Nat  BY DEF ListInv, ListFits
  <2>3. CASE UNCHANGED <<targets, polling>>  BY <2>2, <2>3
  <2>4. CASE targets' = Append(targets, ReadTarget)
    <3> DEFINE t == ReadTarget
    <3>1. t \in Target /\ t.type = "COIL_READ" /\ t.token > 5 /\ t.address \in Coil  BY <1>4
    <3> HIDE DEF t
    <3>2. ListFits(Append(targets, t)) /\ Len(Append(targets, t)) = Len(targets) + 1
      BY <2>2, <3>1, Adding
    <3> QED  BY <2>1, <2>2, <2>4, <3>2 DEF t
  <2> QED  BY <2>1, <2>3, <2>4
<1>6. PollingInv'
  <2>1. Len(targets) \in Nat /\ Len(targets') \in Nat  BY <1>5 DEF ListInv, ListFits
  <2>2. polling \in [next : 0..Len(targets'), end : 0..Len(targets'), moved : BOOLEAN]
    BY <1>5, <2>1 DEF PollingInv
  <2>3. /\ polling' \in [next : 0..Len(targets'), end : 0..Len(targets'), moved : BOOLEAN]
        /\ polling'.next = polling.next
    BY <1>5, <2>2
  <2> QED  BY <2>3 DEF PollingInv
<1>7. ListInv'  BY <1>5 DEF ListInv
<1>8. ClientInv'  BY <1>1 DEF ClientInv, AnswersReachInput
<1>9. currentToken' = watchdog.token  BY DEF AddTarget
<1>10. TokenInv'  BY <1>1, <1>2, <1>3, <1>9 DEF TokenInv, Fits
<1>11. TaskInv'  BY <1>1, <1>3 DEF TaskInv
<1> QED  BY <1>6, <1>7, <1>8, <1>10, <1>11

LEMMA ReadTypes == TypeInv /\ ReadCoil => TypeInv'
<1> SUFFICES ASSUME TypeInv, ReadCoil PROVE TypeInv'  OBVIOUS
<1> USE DEF TypeInv
<1> DEFINE r == Request(ReadTarget, "read")
<1>1. UNCHANGED <<targets, currentToken, server, power, coils, polling, caller, watchQueue,
                  script, switchedOn, asked, undone>>
  BY DEF ReadCoil, calls
<1>2. /\ watchdog \in Task /\ watchdog.at = "send" /\ watchdog.token > 5
      /\ watchdog.attempt < MaxRetries /\ watchdog.retries <= MaxRetries
  BY DEF ReadCoil, TaskInv, TokenInv
<1>3. r \in AnyRequest /\ Fits(r) /\ AddRequest(r)
  BY <1>2 DEF ReadCoil, Task, AnyRequest, Fits, CoilServer, Coil, Request, ReadTarget, NewTarget
<1>4. Sent'
  <2> HIDE DEF r
  <2> QED  BY <1>3, Sending, SentIsTyped
<1>5. /\ watchdog' \in Task /\ watchdog'.at \in {"check", "send"}
      /\ watchdog'.at = "send" => /\ watchdog'.token > 5 /\ watchdog'.attempt < MaxRetries
                                 /\ watchdog'.retries <= MaxRetries
  <2>1. \/ watchdog' = [watchdog EXCEPT !.at = "check", !.retries = @ + 1]
        \/ /\ watchdog.attempt + 1 # MaxRetries
           /\ watchdog' = [watchdog EXCEPT !.attempt = @ + 1]
    BY DEF ReadCoil
  <2>2. watchdog.attempt \in 0..MaxRetries /\ watchdog.retries \in 0..(MaxRetries + 1)
    BY <1>2 DEF Task
  <2>3. CASE watchdog' = [watchdog EXCEPT !.at = "check", !.retries = @ + 1]
    <3>1. watchdog.retries + 1 \in 0..(MaxRetries + 1)  BY <1>2, <2>2, Constants
    <3> QED  BY <1>2, <2>3, <3>1 DEF Task, At
  <2>4. CASE /\ watchdog.attempt + 1 # MaxRetries
             /\ watchdog' = [watchdog EXCEPT !.attempt = @ + 1]
    <3>1. watchdog.attempt + 1 \in 0..MaxRetries /\ watchdog.attempt + 1 < MaxRetries
      BY <1>2, <2>2, <2>4, Constants
    <3> QED  BY <1>2, <2>4, <3>1 DEF Task, At
  <2> QED  BY <2>1, <2>3, <2>4
<1>6. ListInv' /\ PollingInv'  BY <1>1 DEF ListInv, PollingInv
<1>7. ClientInv'  BY <1>1, <1>4 DEF ClientInv, Sent, AnswersReachInput
<1>8. TokenInv'  BY <1>1, <1>4, <1>5 DEF TokenInv, Sent, Fits
<1>9. TaskInv'  BY <1>1, <1>5 DEF TaskInv
<1> QED  BY <1>6, <1>7, <1>8, <1>9

\* What the server does with a request keeps its coils.
LEMMA ServerTypes ==
  ASSUME ClientInv, NEW r \in AnyRequest, Fits(r)
  PROVE  Executed(r) \in [Coil -> CoilState]
BY DEF ClientInv, Executed, Fits, AnyRequest, CoilState

LEMMA AnswerTypes == TypeInv /\ Answer => TypeInv'
<1> SUFFICES ASSUME TypeInv, Answer PROVE TypeInv'  OBVIOUS
<1> USE DEF TypeInv
<1> DEFINE r == Head(requests)
           i == TargetWith(r.token)
<1>1. UNCHANGED <<targets, currentToken, polling, caller, watchdog, watchQueue, script,
                  switchedOn, asked, undone>>
  BY DEF Answer, calls
<1>2. r \in AnyRequest /\ Fits(r) /\ Sent'  BY Taking, SentIsTyped DEF Answer
<1>3. server' \in [Coil -> CoilState]  BY <1>2, ServerTypes DEF Answer
<1>4. /\ r.token = 0 => i = 6 /\ targets[i].type = "INPUT_POWER"
      /\ r.token # 0 /\ i # 0 => targets[i].type = "COIL_READ"
  BY <1>2, AnswerOf
<1>5. UNCHANGED coils /\ (UNCHANGED power \/ (power' = [power EXCEPT !["INPUT_POWER"] = r.slave]
                                             /\ r.token = 0))
  <2>1. HandleData(r)  BY DEF Answer
  <2> HIDE DEF r
  <2> QED  BY <1>4, <2>1 DEF HandleData, ProcessPowerData, Meter
<1>6. power' \in [Meter -> 0..2] /\ power'["OUTPUT_POWER"] = power["OUTPUT_POWER"]
  <2>1. r.token = 0 => r.slave \in 0..2  BY <1>2 DEF Fits
  <2> HIDE DEF r
  <2> QED  BY <1>5, <2>1 DEF ClientInv, Meter
<1>7. ListInv' /\ PollingInv'  BY <1>1 DEF ListInv, PollingInv
<1>8. ClientInv'  BY <1>2, <1>3, <1>5, <1>6 DEF ClientInv, Sent, AnswersReachInput
<1>9. TokenInv'  BY <1>1, <1>2 DEF TokenInv, Sent, Fits
<1>10. TaskInv'  BY <1>1 DEF TaskInv
<1> QED  BY <1>7, <1>8, <1>9, <1>10

LEMMA FailTypes == TypeInv /\ Fail => TypeInv'
<1> SUFFICES ASSUME TypeInv, Fail PROVE TypeInv'  OBVIOUS
<1> USE DEF TypeInv
<1>1. UNCHANGED <<targets, currentToken, power, coils, polling, caller, watchdog, watchQueue,
                  script, switchedOn, asked>>
  BY DEF Fail
<1>2. Head(requests) \in AnyRequest /\ Fits(Head(requests)) /\ Sent'
  BY Taking, SentIsTyped DEF Fail
<1>3. server' \in [Coil -> CoilState]  BY <1>2, ServerTypes DEF Fail, ClientInv
<1>4. undone' \subseteq Coil  BY DEF Fail, Lost, TaskInv
<1>5. ListInv' /\ PollingInv'  BY <1>1 DEF ListInv, PollingInv
<1>6. ClientInv'  BY <1>1, <1>2, <1>3 DEF ClientInv, Sent, AnswersReachInput
<1>7. TokenInv'  BY <1>1, <1>2 DEF TokenInv, Sent, Fits
<1>8. TaskInv'  BY <1>1, <1>4 DEF TaskInv
<1> QED  BY <1>5, <1>6, <1>7, <1>8

LEMMA StillTypes == TypeInv /\ UNCHANGED vars => TypeInv'
BY DEF TypeInv, vars, clientVars, calls, ListInv, TokenInv, TaskInv, PollingInv, ClientInv,
       AnswersReachInput, Fits

LEMMA TypesAreRight == TypeInv => TypeOK
<1> SUFFICES ASSUME TypeInv PROVE TypeOK  OBVIOUS
<1>1. /\ targets \in Seq([type : Meter \union {"SWITCH_CONTROL", "COIL_READ"}, slave : 1..3,
                         address : Nat, token : Nat, last : CoilState \union {"unknown"}])
      /\ requests \in Seq([token : Nat, slave : 1..3, address : Nat,
                          value : CoilState \union {"read"}])
      /\ script \in Seq([coil : Coil, state : CoilState])
  BY DEF TypeInv, ListInv, ListFits, ClientInv, TaskInv, Target, AnyRequest, Call
<1> QED  BY <1>1 DEF TypeInv, TokenInv, TaskInv, PollingInv, ClientInv, TypeOK, Task

LEMMA TypeInvHolds == Spec => []TypeInv
<1>1. ASSUME TypeInv, Next PROVE TypeInv'
  BY <1>1, PollingTypes, CallTypes, SetTypes, StoreTypes, WriteTypes, EnqueueTypes, ReceiveTypes,
     CheckTypes, AddTypes, ReadTypes, AnswerTypes, FailTypes DEF Next, Caller, CoilWatchdogTask
<1> QED  BY InitTypes, <1>1, StillTypes, PTL DEF Spec

\* The list, the tokens, both queues and all three tasks keep their types, whatever is
\* called and however the two tasks that draw tokens overlap (pollingTask, TriggerCoil,
\* coilWatchdogTask, handleData).
THEOREM ManagerHasTypes == Spec => []TypeOK
BY TypeInvHolds, TypesAreRight, PTL

-------------------------------------------------------------------------------
(* What is written last.                                                   *)

WritesIn(q, c) == {i \in DOMAIN q : IsWrite(q[i], c)}

\* WrittenTo, of any queue and server.
WrittenBy(q, v, c) == IF WritesIn(q, c) = {} THEN v[c] ELSE q[Max(WritesIn(q, c))].value

LEMMA WrittenIs == \A c : /\ WrittenTo(c) = WrittenBy(requests, server, c)
                          /\ WrittenTo(c)' = WrittenBy(requests', server', c)
BY DEF WrittenTo, WrittenBy, WritesIn, IsWrite

LEMMA LastWrite ==
  ASSUME NEW S, NEW q \in Seq(S), NEW v, NEW c
  PROVE  /\ WritesIn(q, c) = {} => WrittenBy(q, v, c) = v[c]
         /\ \A m \in 1..Len(q) :
              IsWrite(q[m], c) /\ (\A i \in 1..Len(q) : IsWrite(q[i], c) => i <= m)
                => WrittenBy(q, v, c) = q[m].value
         /\ WritesIn(q, c) # {} =>
              \E m \in 1..Len(q) : /\ IsWrite(q[m], c)
                                   /\ \A i \in 1..Len(q) : IsWrite(q[i], c) => i <= m
<1> DEFINE W == WritesIn(q, c)
<1>1. Len(q) \in Nat /\ DOMAIN q = 1..Len(q)  OBVIOUS
<1>2. W = {i \in 1..Len(q) : IsWrite(q[i], c)}  BY <1>1 DEF WritesIn
<1>3. W \subseteq 1..Len(q)  BY <1>2
<1> HIDE DEF W
<1>4. W # {} => Max(W) \in W /\ \A x \in W : x <= Max(W)
  <2> HAVE W # {}
  <2> QED  BY <1>1, <1>3, GreatestNumber
<1>5. W # {} => WrittenBy(q, v, c) = q[Max(W)].value  BY DEF WrittenBy, W
<1>6. ASSUME NEW m \in 1..Len(q), IsWrite(q[m], c),
             \A i \in 1..Len(q) : IsWrite(q[i], c) => i <= m
      PROVE  WrittenBy(q, v, c) = q[m].value
  <2>1. m \in W  BY <1>2, <1>6
  <2>2. Max(W) \in W /\ m <= Max(W)  BY <1>4, <2>1
  <2>3. Max(W) \in 1..Len(q) /\ Max(W) <= m  BY <1>2, <1>6, <2>2
  <2>4. Max(W) = m  BY <1>1, <2>2, <2>3
  <2> QED  BY <1>5, <2>1, <2>4
<1>7. W # {} => \E m \in 1..Len(q) : /\ IsWrite(q[m], c)
                                     /\ \A i \in 1..Len(q) : IsWrite(q[i], c) => i <= m
  BY <1>2, <1>4
<1> QED  BY <1>6, <1>7 DEF WrittenBy, W

LEMMA WrittenAppend ==
  ASSUME NEW S, NEW q \in Seq(S), NEW v, NEW c, NEW r \in S
  PROVE  WrittenBy(Append(q, r), v, c) = IF IsWrite(r, c) THEN r.value ELSE WrittenBy(q, v, c)
<1> DEFINE p == Append(q, r)
<1>1. Len(q) \in Nat  OBVIOUS
<1>2. /\ p \in Seq(S) /\ Len(p) = Len(q) + 1 /\ \A i \in 1..Len(q) : p[i] = q[i]
      /\ p[Len(q) + 1] = r
  BY AppendProperties
<1> HIDE DEF p
<1>3. CASE IsWrite(r, c)
  <2>1. \A i \in 1..Len(p) : IsWrite(p[i], c) => i <= Len(q) + 1  BY <1>1, <1>2
  <2>2. Len(q) + 1 \in 1..Len(p) /\ IsWrite(p[Len(q) + 1], c)  BY <1>1, <1>2, <1>3
  <2>3. WrittenBy(p, v, c) = p[Len(q) + 1].value  BY <1>2, <2>1, <2>2, LastWrite
  <2> QED  BY <1>2, <1>3, <2>3 DEF p
<1>4. CASE ~IsWrite(r, c) /\ WritesIn(q, c) = {}
  <2>1. \A i \in 1..Len(q) : ~IsWrite(q[i], c)  BY <1>4 DEF WritesIn
  <2>2. \A i \in 1..Len(p) : ~IsWrite(p[i], c)  BY <1>1, <1>2, <1>4, <2>1
  <2>3. WritesIn(p, c) = {}  BY <1>2, <2>2 DEF WritesIn
  <2>4. WrittenBy(p, v, c) = v[c] /\ WrittenBy(q, v, c) = v[c]  BY <1>2, <1>4, <2>3, LastWrite
  <2> QED  BY <1>4, <2>4 DEF p
<1>5. CASE ~IsWrite(r, c) /\ WritesIn(q, c) # {}
  <2>1. PICK m \in 1..Len(q) : /\ IsWrite(q[m], c)
                               /\ \A i \in 1..Len(q) : IsWrite(q[i], c) => i <= m
    BY <1>5, LastWrite
  <2>2. m \in 1..Len(p) /\ p[m] = q[m]  BY <1>1, <1>2
  <2>3. \A i \in 1..Len(p) : IsWrite(p[i], c) => i <= m  BY <1>1, <1>2, <1>5, <2>1
  <2>4. WrittenBy(p, v, c) = p[m].value
    <3>1. IsWrite(p[m], c)  BY <2>1, <2>2
    <3>2. m \in 1..Len(p) /\ p \in Seq(S)  BY <1>2, <2>2
    <3>3. \A n \in 1..Len(p) :
            IsWrite(p[n], c) /\ (\A i \in 1..Len(p) : IsWrite(p[i], c) => i <= n)
              => WrittenBy(p, v, c) = p[n].value
      BY <3>2, LastWrite
    <3> QED  BY <2>3, <3>1, <3>2, <3>3, Zenon
  <2>5. WrittenBy(q, v, c) = q[m].value  BY <2>1, LastWrite
  <2> QED  BY <1>5, <2>2, <2>4, <2>5 DEF p
<1> QED  BY <1>3, <1>4, <1>5

\* The first request can go when another one comes after it, or it was done, or it is
\* not about the coil.
LEMMA WrittenTail ==
  ASSUME NEW S, NEW q \in Seq(S), q # <<>>, NEW v, NEW w, NEW c,
         \/ \E i \in 2..Len(q) : IsWrite(q[i], c)
         \/ w[c] = IF IsWrite(Head(q), c) THEN Head(q).value ELSE v[c]
  PROVE  WrittenBy(Tail(q), w, c) = WrittenBy(q, v, c)
<1> DEFINE p == Tail(q)
<1>1. Len(q) \in Nat /\ Len(q) >= 1 /\ Head(q) = q[1]  OBVIOUS
<1>2. p \in Seq(S) /\ Len(p) = Len(q) - 1 /\ \A i \in 1..Len(p) : p[i] = q[i + 1]
  BY HeadTailProperties
<1> HIDE DEF p
<1>3. CASE \E i \in 2..Len(q) : IsWrite(q[i], c)
  <2>1. PICK i \in 2..Len(q) : IsWrite(q[i], c)  BY <1>3
  <2>2. WritesIn(q, c) # {}  BY <1>1, <2>1 DEF WritesIn
  <2>3. PICK m \in 1..Len(q) : /\ IsWrite(q[m], c)
                               /\ \A j \in 1..Len(q) : IsWrite(q[j], c) => j <= m
    BY <2>2, LastWrite
  <2>4. m >= 2  BY <1>1, <2>1, <2>3
  <2>5. m - 1 \in 1..Len(p) /\ p[m - 1] = q[m]  BY <1>1, <1>2, <2>4
  <2>6. ASSUME NEW j \in 1..Len(p), IsWrite(p[j], c) PROVE j <= m - 1
    <3>1. j + 1 \in 1..Len(q) /\ IsWrite(q[j + 1], c)  BY <1>1, <1>2, <2>6
    <3> QED  BY <2>3, <3>1
  <2>7. WrittenBy(p, w, c) = p[m - 1].value
    <3>1. IsWrite(p[m - 1], c)  BY <2>3, <2>5
    <3> QED  BY <1>2, <2>5, <2>6, <3>1, LastWrite
  <2>8. WrittenBy(q, v, c) = q[m].value  BY <2>3, LastWrite
  <2> QED  BY <2>5, <2>7, <2>8 DEF p
<1>4. CASE /\ ~\E i \in 2..Len(q) : IsWrite(q[i], c)
           /\ w[c] = IF IsWrite(Head(q), c) THEN Head(q).value ELSE v[c]
  <2>1. \A j \in 1..Len(p) : ~IsWrite(p[j], c)
    <3> TAKE j \in 1..Len(p)
    <3>1. j + 1 \in 2..Len(q)  BY <1>1, <1>2
    <3> QED  BY <1>2, <1>4, <3>1
  <2>2. WritesIn(p, c) = {}  BY <1>2, <2>1 DEF WritesIn
  <2>3. WrittenBy(p, w, c) = w[c]  BY <1>2, <2>2, LastWrite
  <2>4. CASE IsWrite(Head(q), c)
    <3>1. \A j \in 1..Len(q) : IsWrite(q[j], c) => j <= 1  BY <1>1, <1>4
    <3>2. 1 \in 1..Len(q) /\ IsWrite(q[1], c)  BY <1>1, <2>4
    <3>3. WrittenBy(q, v, c) = q[1].value  BY <3>1, <3>2, LastWrite
    <3> QED  BY <1>1, <1>4, <2>3, <2>4, <3>3 DEF p
  <2>5. CASE ~IsWrite(Head(q), c)
    <3>1. \A j \in 1..Len(q) : ~IsWrite(q[j], c)  BY <1>1, <1>4, <2>5
    <3>2. WritesIn(q, c) = {}  BY <1>1, <3>1 DEF WritesIn
    <3>3. WrittenBy(q, v, c) = v[c]  BY <3>2, LastWrite
    <3> QED  BY <1>4, <2>3, <2>5, <3>3 DEF p
  <2> QED  BY <2>4, <2>5
<1> QED  BY <1>3, <1>4

-------------------------------------------------------------------------------
(* What was asked for.                                                     *)

LEMMA InitAsked == Init => AskedInv
<1> SUFFICES ASSUME Init PROVE AskedInv  OBVIOUS
<1>1. ListInv  BY InitTypes DEF TypeInv
<1>2. \A i \in 1..Len(targets) : targets[i].last = "unknown"
  <2>1. targets = SwitchControls \o Meters  BY DEF Init
  <2>2. SwitchControls \in Seq(Target) /\ Len(SwitchControls) = 5
    BY DEF SwitchControls, NewTarget, Target, CoilServer
  <2>3. Meters \in Seq(Target) /\ Len(Meters) = 2
    BY DEF Meters, NewTarget, Target, Meter
  <2>4. /\ Len(targets) = Len(SwitchControls) + Len(Meters)
        /\ \A i \in 1..(Len(SwitchControls) + Len(Meters)) :
             targets[i] = IF i <= Len(SwitchControls) THEN SwitchControls[i]
                          ELSE Meters[i - Len(SwitchControls)]
    BY <2>1, <2>2, <2>3, ConcatProperties, Zenon
  <2>5. /\ \A i \in 1..5 : SwitchControls[i].last = "unknown"
        /\ \A i \in 1..2 : Meters[i].last = "unknown"
    BY DEF SwitchControls, Meters, NewTarget
  <2>6. Len(SwitchControls) + Len(Meters) = 7  BY <2>2, <2>3
  <2>7. \A i \in 1..7 : targets[i] = IF i <= 5 THEN SwitchControls[i] ELSE Meters[i - 5]
    BY <2>2, <2>4, <2>6
  <2>8. \A i \in 1..7 : (i \in 1..5 /\ i <= 5) \/ (~(i <= 5) /\ i - 5 \in 1..2)  OBVIOUS
  <2>9. \A i \in 1..7 : targets[i].last = "unknown"  BY <2>5, <2>7, <2>8, Zenon
  <2> QED  BY <2>4, <2>6, <2>9
<1>3. \A c \in Coil : Remembered(c) = "unknown"  BY <1>1, <1>2, CoilTarget DEF Remembered
<1>4. caller.at = "free" /\ \A c \in Coil : asked[c] = "unknown"  BY DEF Init, Free
<1> QED  BY <1>3, <1>4 DEF AskedInv, RememberedInv, AskedIsSet

LEMMA SameTargets == UNCHANGED targets => \A c : Remembered(c)' = Remembered(c)
<1> SUFFICES ASSUME UNCHANGED targets PROVE \A c : Remembered(c)' = Remembered(c)  OBVIOUS
<1>1. \A c : TargetOf(c)' = TargetOf(c)  BY TargetOfCoil, TargetOfCoilNext, Zenon
<1> QED  BY <1>1, Zenon DEF Remembered

LEMMA SameRequests == UNCHANGED <<requests, server>> => \A c : WrittenTo(c)' = WrittenTo(c)
BY WrittenIs

\* Who sets no coil disturbs neither what is remembered nor what is written, but for the
\* coils whose write is lost.
LEMMA AskedLeftAlone ==
  ASSUME AskedInv, UNCHANGED <<caller, asked>>, undone \subseteq undone',
         \A c \in Coil : Remembered(c)' = Remembered(c),
         \A c \in Coil \ undone' : WrittenTo(c)' = WrittenTo(c)
  PROVE  AskedInv'
<1>1. RememberedInv'  BY DEF AskedInv, RememberedInv
<1>2. AskedIsSet'  BY DEF AskedInv, AskedIsSet
<1> QED  BY <1>1, <1>2 DEF AskedInv

\* A read changes nothing that is written.
LEMMA ReadRequest ==
  ASSUME Sent, NEW r \in AnyRequest, r.value = "read", AddRequest(r), UNCHANGED server
  PROVE  \A c : WrittenTo(c)' = WrittenTo(c)
<1> TAKE c
<1>1. ~IsWrite(r, c)  BY DEF IsWrite, CoilState
<1>2. requests' = requests \/ requests' = Append(requests, r)  BY DEF AddRequest
<1>3. WrittenBy(Append(requests, r), server, c) = WrittenBy(requests, server, c)
  BY <1>1, WrittenAppend DEF Sent
<1> QED  BY <1>2, <1>3, WrittenIs

LEMMA PollingAsked == TypeInv /\ AskedInv /\ PollingTask => AskedInv'
<1> SUFFICES ASSUME TypeInv, AskedInv, PollingTask PROVE AskedInv'  OBVIOUS
<1>1. /\ UNCHANGED <<targets, server, caller, asked, undone>>
      /\ UNCHANGED requests \/ (AddRequest(Request(targets[polling.next], "read"))
                                 /\ polling.next # 0)
  BY DEF PollingTask, BeginRound, Poll, PassBy, clientVars, calls
<1>2. \A c : WrittenTo(c)' = WrittenTo(c)
  <2>1. CASE UNCHANGED requests  BY <1>1, <2>1, SameRequests
  <2>2. CASE AddRequest(Request(targets[polling.next], "read")) /\ polling.next # 0
    <3> DEFINE r == Request(targets[polling.next], "read")
    <3>1. r \in AnyRequest /\ r.value = "read"  BY <2>2, Polled DEF TypeInv, Request
    <3>2. AddRequest(r) /\ Sent  BY <2>2, SentIsTyped DEF TypeInv
    <3> HIDE DEF r
    <3> QED  BY <1>1, <3>1, <3>2, ReadRequest
  <2> QED  BY <1>1, <2>1, <2>2
<1> QED  BY <1>1, <1>2, SameTargets, AskedLeftAlone

LEMMA WatchdogAsked == TypeInv /\ AskedInv /\ (ReceiveWatch \/ CheckCoil) => AskedInv'
<1> SUFFICES ASSUME AskedInv, ReceiveWatch \/ CheckCoil PROVE AskedInv'  OBVIOUS
<1>1. UNCHANGED <<targets, server, requests, caller, asked, undone>>
  BY DEF ReceiveWatch, CheckCoil, clientVars, calls
<1> QED  BY <1>1, SameTargets, SameRequests, AskedLeftAlone

\* A further target is behind the first of its coil, or its value is not known.
LEMMA AddAsked == TypeInv /\ AskedInv /\ AddTarget => AskedInv'
<1> SUFFICES ASSUME TypeInv, AskedInv, AddTarget PROVE AskedInv'  OBVIOUS
<1>1. UNCHANGED <<server, requests, caller, asked, undone>>
  BY DEF AddTarget, clientVars, calls
<1>2. \A c \in Coil : Remembered(c)' = Remembered(c)
  <2>1. UNCHANGED targets \/ targets' = Append(targets, ReadTarget)  BY DEF AddTarget
  <2>2. CASE targets' = Append(targets, ReadTarget)
    <3> TAKE c \in Coil
    <3>1. targets \in Seq(Target) /\ Len(targets) \in Nat  BY DEF TypeInv, ListInv, ListFits
    <3>2. ReadTarget \in Target /\ ReadTarget.last = "unknown"
      BY DEF TypeInv, TaskInv, ReadTarget, NewTarget, Target, Task, Coil, CoilServer
    <3>3. /\ targets' \in Seq(Target) /\ Len(targets') = Len(targets) + 1
          /\ \A i \in 1..Len(targets) : targets'[i] = targets[i]
          /\ targets'[Len(targets) + 1].last = "unknown"
      BY <2>2, <3>1, <3>2, AppendProperties
    <3> DEFINE i == TargetOf(c)
               j == TargetOf(c)'
               M == Matches(targets, c)
               N == Matches(targets', c)
    <3>4. (i = 0 /\ M = {}) \/ (i \in M /\ \A k \in M : i <= k)
      BY <3>1, OfCoil, TargetOfCoil, Zenon
    <3>5. (j = 0 /\ N = {}) \/ (j \in N /\ \A k \in N : j <= k)
      BY <3>3, OfCoil, TargetOfCoilNext, Zenon
    <3>6. M \subseteq N /\ \A k \in N : k \in M \/ k = Len(targets) + 1
      BY <3>1, <3>3 DEF Matches
    <3>7. M \subseteq 1..Len(targets) /\ N \subseteq 1..(Len(targets) + 1)
      BY <3>3 DEF Matches
    <3>8. /\ Remembered(c) = IF i = 0 THEN "unknown" ELSE targets[i].last
          /\ Remembered(c)' = IF j = 0 THEN "unknown" ELSE targets'[j].last
      BY DEF Remembered
    <3> HIDE DEF i, j, M, N
    <3>9. CASE M = {}
      <4>1. i = 0  BY <3>4, <3>9
      <4>2. j = 0 \/ j = Len(targets) + 1  BY <3>5, <3>6, <3>9
      <4>3. 0 # Len(targets) + 1  BY <3>1
      <4> QED  BY <3>3, <3>8, <4>1, <4>2, <4>3
    <3>10. CASE M # {}
      <4>1. i \in M /\ i \in N /\ i \in 1..Len(targets)  BY <3>4, <3>6, <3>7, <3>10
      <4>2. j \in N /\ j <= i /\ j \in 1..(Len(targets) + 1)  BY <3>5, <3>7, <4>1
      <4>3. j \in M  BY <3>1, <3>6, <4>1, <4>2
      <4>4. i <= j  BY <3>4, <4>3, <3>10
      <4>5. i = j /\ i # 0  BY <3>1, <4>1, <4>2, <4>4
      <4> QED  BY <3>3, <3>8, <4>1, <4>5
    <3> QED  BY <3>9, <3>10
  <2> QED  BY <2>1, <2>2, SameTargets
<1> QED  BY <1>1, <1>2, SameRequests, AskedLeftAlone

LEMMA ReadAsked == TypeInv /\ AskedInv /\ ReadCoil => AskedInv'
<1> SUFFICES ASSUME TypeInv, AskedInv, ReadCoil PROVE AskedInv'  OBVIOUS
<1> DEFINE r == Request(ReadTarget, "read")
<1>1. UNCHANGED <<targets, server, caller, asked, undone>>  BY DEF ReadCoil, calls
<1>2. r \in AnyRequest /\ r.value = "read" /\ AddRequest(r)
  BY DEF ReadCoil, TypeInv, TaskInv, Task, AnyRequest, CoilServer, Coil, Request, ReadTarget,
         NewTarget
<1>3. Sent  BY SentIsTyped DEF TypeInv
<1> HIDE DEF r
<1> QED  BY <1>1, <1>2, <1>3, ReadRequest, SameTargets, AskedLeftAlone

LEMMA ExecutedAt ==
  ASSUME server \in [Coil -> CoilState], NEW q, NEW c \in Coil
  PROVE  Executed(q)[c] = IF IsWrite(q, c) THEN q.value ELSE server[c]
BY DEF Executed, IsWrite

\* An answer leaves every coil as it was going to be; an error does so for those whose
\* latest write is not the one that failed.
LEMMA AnswerAsked == TypeInv /\ AskedInv /\ Answer => AskedInv'
<1> SUFFICES ASSUME TypeInv, AskedInv, Answer PROVE AskedInv'  OBVIOUS
<1>1. /\ UNCHANGED <<targets, caller, asked, undone>> /\ requests # <<>>
      /\ server' = Executed(Head(requests)) /\ requests' = Tail(requests)
  BY DEF Answer, calls
<1>2. requests \in Seq(AnyRequest) /\ server \in [Coil -> CoilState]
  BY DEF TypeInv, ClientInv
<1>3. ASSUME NEW c \in Coil PROVE WrittenTo(c)' = WrittenTo(c)
  <2>1. server'[c] = IF IsWrite(Head(requests), c) THEN Head(requests).value ELSE server[c]
    BY <1>1, <1>2, ExecutedAt
  <2>2. WrittenBy(Tail(requests), server', c) = WrittenBy(requests, server, c)
    BY <1>1, <1>2, <2>1, WrittenTail
  <2> QED  BY <1>1, <2>2, WrittenIs
<1> QED  BY <1>1, <1>3, SameTargets, AskedLeftAlone

LEMMA FailAsked == TypeInv /\ AskedInv /\ Fail => AskedInv'
<1> SUFFICES ASSUME TypeInv, AskedInv, Fail PROVE AskedInv'  OBVIOUS
<1>1. /\ UNCHANGED <<targets, caller, asked>> /\ requests # <<>>
      /\ server' = server \/ server' = Executed(Head(requests))
      /\ requests' = Tail(requests) /\ undone' = undone \union Lost
  BY DEF Fail
<1>2. requests \in Seq(AnyRequest) /\ server \in [Coil -> CoilState]
  BY DEF TypeInv, ClientInv
<1>3. ASSUME NEW c \in Coil \ undone' PROVE WrittenTo(c)' = WrittenTo(c)
  <2> DEFINE r == Head(requests)
  <2>1. c \notin Lost  BY <1>1, <1>3
  <2>2. CASE IsWrite(r, c)
    <3>1. \E i \in 2..Len(requests) : IsWrite(requests[i], r.address)
      BY <2>1, <2>2 DEF Lost
    <3>2. \E i \in 2..Len(requests) : IsWrite(requests[i], c)  BY <2>2, <3>1 DEF IsWrite
    <3>3. WrittenBy(Tail(requests), server', c) = WrittenBy(requests, server, c)
      <4>1. requests \in Seq(AnyRequest) /\ requests # <<>>  BY <1>1, <1>2
      <4> QED  BY <3>2, <4>1, WrittenTail, Zenon
    <3> QED  BY <1>1, <3>3, WrittenIs
  <2>3. CASE ~IsWrite(r, c)
    <3>1. server'[c] = server[c]
      <4>1. server' = server \/ server' = Executed(r)  BY <1>1
      <4>2. Executed(r)[c] = server[c]  BY <1>2, <1>3, <2>3, ExecutedAt
      <4> QED  BY <4>1, <4>2
    <3>2. WrittenBy(Tail(requests), server', c) = WrittenBy(requests, server, c)
      <4>1. requests \in Seq(AnyRequest) /\ requests # <<>>  BY <1>1, <1>2
      <4>2. server'[c] = IF IsWrite(Head(requests), c) THEN Head(requests).value ELSE server[c]
        BY <2>3, <3>1
      <4> QED  BY <4>1, <4>2, WrittenTail, Zenon
    <3> QED  BY <1>1, <3>2, WrittenIs
  <2> QED  BY <2>2, <2>3
<1> QED  BY <1>1, <1>3, SameTargets, AskedLeftAlone

LEMMA CallAsked == TypeInv /\ AskedInv /\ TriggerCoil => AskedInv'
<1> SUFFICES ASSUME TypeInv, AskedInv, TriggerCoil PROVE AskedInv'  OBVIOUS
<1> DEFINE c == Head(script).coil
           s == Head(script).state
<1>1. c \in Coil /\ s \in CoilState
  <2>1. script \in Seq(Call) /\ script # <<>>  BY DEF TypeInv, TaskInv, TriggerCoil
  <2>2. Head(script) \in Call  BY <2>1, HeadTailProperties
  <2> QED  BY <2>2 DEF Call
<1>2. /\ UNCHANGED <<targets, requests, server, undone>> /\ asked' = [asked EXCEPT ![c] = s]
      /\ caller.at = "free" /\ caller' = [Free EXCEPT !.at = "set", !.coil = c, !.state = s]
  BY DEF TriggerCoil, clientVars
<1>3. caller'.at = "set" /\ caller'.coil = c /\ caller'.state = s
  <2> DEFINE f == Free
  <2>1. f \in Task /\ caller' = [f EXCEPT !.at = "set", !.coil = c, !.state = s]
    BY <1>2, FreeTask
  <2> HIDE DEF f, c, s
  <2> QED  BY <2>1 DEF Task
<1>4. /\ asked' \in [Coil -> CoilState \union {"unknown"}] /\ asked'[c] = s
      /\ \A d \in Coil : d # c => asked'[d] = asked[d]
  BY <1>1, <1>2 DEF TypeInv, TaskInv
<1>5. \A d : Remembered(d)' = Remembered(d) /\ WrittenTo(d)' = WrittenTo(d)
  BY <1>2, SameTargets, SameRequests
<1> HIDE DEF c, s
<1>6. RememberedInv'  BY <1>2, <1>3, <1>4, <1>5 DEF AskedInv, RememberedInv
<1>7. AskedIsSet'  BY <1>2, <1>3, <1>4, <1>5 DEF AskedInv, AskedIsSet
<1> QED  BY <1>6, <1>7 DEF AskedInv

\* The one place where a write is skipped, and where a value is remembered.
LEMMA SetAsked == TypeInv /\ AskedInv /\ SetCoil => AskedInv'
<1> SUFFICES ASSUME TypeInv, AskedInv, SetCoil PROVE AskedInv'  OBVIOUS
<1> DEFINE i == TargetOf(caller.coil)
<1>1. /\ caller \in Task /\ caller.coil \in Coil /\ caller.state \in CoilState
      /\ caller.at = "set"
  BY DEF TypeInv, TaskInv, Task, SetCoil
<1>2. UNCHANGED <<server, requests, asked, undone>>  BY DEF SetCoil, clientVars, calls
<1>3. asked[caller.coil] = caller.state  BY <1>1 DEF AskedInv, RememberedInv
<1>4. \A d : WrittenTo(d)' = WrittenTo(d)  BY <1>2, SameRequests
<1>5. CASE i # 0 /\ IsDone(targets[i], caller.state)
  <2>1. UNCHANGED targets /\ caller' = [caller EXCEPT !.at = "watch"]  BY <1>5 DEF SetCoil
  <2>2. caller'.at = "watch" /\ caller'.coil = caller.coil /\ caller'.state = caller.state
    BY <1>1, <2>1 DEF Task
  <2>3. \A d : Remembered(d)' = Remembered(d)  BY <2>1, SameTargets
  <2>4. Remembered(caller.coil) = caller.state  BY <1>5 DEF Remembered, IsDone
  <2>5. caller.coil \notin undone => WrittenTo(caller.coil) = caller.state
    BY <1>1, <2>4 DEF AskedInv, RememberedInv, CoilState
  <2>6. RememberedInv'
    BY <1>1, <1>2, <1>3, <1>4, <2>2, <2>3, <2>4 DEF AskedInv, RememberedInv
  <2>7. AskedIsSet'
    BY <1>1, <1>2, <1>3, <1>4, <2>2, <2>5 DEF AskedInv, AskedIsSet
  <2> QED  BY <2>6, <2>7 DEF AskedInv
<1>6. CASE ~(i # 0 /\ IsDone(targets[i], caller.state))
  <2>1. /\ caller' = [caller EXCEPT !.at = "store", !.token = currentToken + 1]
        /\ targets' = IF i = 0 THEN targets ELSE Remember(targets, i, caller.state)
    BY <1>6 DEF SetCoil, LoadToken, Incremented, Remember
  <2>2. caller'.at = "store" /\ caller'.coil = caller.coil /\ caller'.state = caller.state
    BY <1>1, <2>1 DEF Task
  <2>3. \A d \in Coil : d # caller.coil => Remembered(d)' = Remembered(d)
    <3>1. CASE i = 0  BY <2>1, <3>1, SameTargets
    <3>2. CASE i # 0
      <4> TAKE d \in Coil
      <4> HAVE d # caller.coil
      <4>1. /\ ListFits(targets) /\ i \in 1..Len(targets) /\ i \notin {6, 7}
            /\ targets[i].address = caller.coil
        BY <1>1, <3>2, CoilTarget DEF TypeInv, ListInv, Matches
      <4>2. targets' = Remember(targets, i, caller.state)  BY <2>1, <3>2
      <4> HIDE DEF i
      <4>3. /\ ListFits(targets') /\ Len(targets') = Len(targets)
            /\ \A j \in 1..Len(targets) :
                 /\ targets'[j].slave = targets[j].slave
                 /\ targets'[j].address = targets[j].address
                 /\ j # i => targets'[j] = targets[j]
        BY <1>1, <4>1, <4>2, Remembering
      <4>4. Matches(targets', d) = Matches(targets, d)  BY <4>3 DEF Matches
      <4>5. TargetOf(d)' = TargetOf(d)  BY <4>4, TargetOfCoil, TargetOfCoilNext, Zenon
      <4>6. TargetOf(d) # 0 => TargetOf(d) \in 1..Len(targets) /\ TargetOf(d) # i
        BY <4>1, CoilTarget DEF TypeInv, ListInv, Matches
      <4>7. TargetOf(d) # 0 => targets'[TargetOf(d)] = targets[TargetOf(d)]  BY <4>3, <4>6
      <4> QED  BY <4>5, <4>7 DEF Remembered
    <3> QED  BY <3>1, <3>2
  <2>4. ASSUME NEW c \in Coil, c = caller.coil PROVE Remembered(c)' \in {"unknown", caller.state}
    <3>1. i = TargetOf(c)  BY <2>4
    <3>2. CASE i = 0
      <4>1. Remembered(c) = "unknown"  BY <3>1, <3>2 DEF Remembered
      <4> QED  BY <2>1, <3>2, <4>1, SameTargets
    <3>3. CASE i # 0
      <4>1. ListFits(targets) /\ i \in 1..Len(targets) /\ i \notin {6, 7}
        BY <1>1, <3>3, CoilTarget DEF TypeInv, ListInv
      <4>2. targets' = Remember(targets, i, caller.state)  BY <2>1, <3>3
      <4> HIDE DEF i
      <4>3. /\ Len(targets') = Len(targets) /\ targets'[i].last = caller.state
            /\ \A j \in 1..Len(targets) : /\ targets'[j].slave = targets[j].slave
                                          /\ targets'[j].address = targets[j].address
        <5>1. caller.state \in CoilState /\ ListFits(targets)  BY <1>1, <4>1
        <5>2. i \in 1..Len(targets) /\ i \notin {6, 7}  BY <4>1
        <5>3. targets'[i].last = caller.state  BY <4>2, <5>1, <5>2, Remembering
        <5>4. /\ Len(targets') = Len(targets)
              /\ \A j \in 1..Len(targets) : /\ targets'[j].slave = targets[j].slave
                                            /\ targets'[j].address = targets[j].address
          BY <4>2, <5>1, <5>2, Remembering
        <5> QED  BY <5>3, <5>4
      <4>4. Matches(targets', c) = Matches(targets, c)  BY <4>3 DEF Matches
      <4>5. TargetOf(c)' = TargetOf(c)  BY <4>4, TargetOfCoil, TargetOfCoilNext, Zenon
      <4> QED  BY <3>1, <4>3, <4>5 DEF Remembered
    <3> QED  BY <3>2, <3>3
  <2>5. RememberedInv'
    BY <1>1, <1>2, <1>3, <1>4, <2>2, <2>3, <2>4 DEF AskedInv, RememberedInv
  <2>6. AskedIsSet'
    BY <1>1, <1>2, <1>4, <2>2 DEF AskedInv, AskedIsSet
  <2> QED  BY <2>5, <2>6 DEF AskedInv
<1> QED  BY <1>5, <1>6

LEMMA StoreAsked == TypeInv /\ AskedInv /\ StoreToken => AskedInv'
<1> SUFFICES ASSUME TypeInv, AskedInv, StoreToken PROVE AskedInv'  OBVIOUS
<1>1. /\ UNCHANGED <<targets, server, requests, asked, undone>> /\ caller.at = "store"
      /\ caller' = [caller EXCEPT !.at = "send"] /\ caller \in Task
  BY DEF StoreToken, clientVars, calls, TypeInv, TaskInv
<1>2. caller'.at = "send" /\ caller'.coil = caller.coil /\ caller'.state = caller.state
  BY <1>1 DEF Task
<1>3. \A c : Remembered(c)' = Remembered(c) /\ WrittenTo(c)' = WrittenTo(c)
  BY <1>1, SameTargets, SameRequests
<1>4. RememberedInv'  BY <1>1, <1>2, <1>3 DEF AskedInv, RememberedInv
<1>5. AskedIsSet'  BY <1>1, <1>2, <1>3 DEF AskedInv, AskedIsSet
<1> QED  BY <1>4, <1>5 DEF AskedInv

LEMMA WriteAsked == TypeInv /\ AskedInv /\ WriteCoil => AskedInv'
<1> SUFFICES ASSUME TypeInv, AskedInv, WriteCoil PROVE AskedInv'  OBVIOUS
<1> DEFINE r == [token |-> caller.token, slave |-> CoilServer, address |-> caller.coil,
                 value |-> caller.state]
<1>1. /\ UNCHANGED <<targets, server, asked>> /\ caller.at = "send" /\ caller \in Task
      /\ caller.coil \in Coil /\ caller.state \in CoilState
      /\ requests \in Seq(AnyRequest)
  BY DEF WriteCoil, TypeInv, TaskInv, ClientInv, Task
<1>2. asked[caller.coil] = caller.state  BY <1>1 DEF AskedInv, RememberedInv
<1>3. \A c : Remembered(c)' = Remembered(c)  BY <1>1, SameTargets
<1>4. r \in AnyRequest /\ r.value = caller.state /\ r.address = caller.coil
  BY <1>1 DEF Task, AnyRequest, CoilServer, Coil
<1>5. CASE Room
  <2>1. /\ requests' = Append(requests, r) /\ undone' = undone \ {caller.coil}
        /\ caller' = [caller EXCEPT !.at = "watch"]
    BY <1>5 DEF WriteCoil, AddRequest
  <2>2. caller'.at = "watch" /\ caller'.coil = caller.coil /\ caller'.state = caller.state
    BY <1>1, <2>1 DEF Task
  <2> HIDE DEF r
  <2>3. \A c : WrittenTo(c)' = IF c = caller.coil THEN caller.state ELSE WrittenTo(c)
    <3> TAKE c
    <3>1. IsWrite(r, c) <=> c = caller.coil  BY <1>1, <1>4 DEF IsWrite
    <3>2. WrittenBy(Append(requests, r), server, c)
            = IF IsWrite(r, c) THEN r.value ELSE WrittenBy(requests, server, c)
      BY <1>1, <1>4, WrittenAppend
    <3> QED  BY <1>1, <1>4, <2>1, <3>1, <3>2, WrittenIs
  <2>4. Remembered(caller.coil) \in {"unknown", caller.state}
    BY <1>1, <1>2 DEF AskedInv, RememberedInv
  <2>5. RememberedInv'
    BY <1>1, <1>2, <1>3, <2>1, <2>2, <2>3, <2>4 DEF AskedInv, RememberedInv
  <2>6. AskedIsSet'  BY <1>1, <1>2, <2>1, <2>2, <2>3 DEF AskedInv, AskedIsSet
  <2> QED  BY <2>5, <2>6 DEF AskedInv
<1>6. CASE ~Room /\ caller.attempt + 1 # MaxRetries
  <2>1. UNCHANGED <<requests, undone>> /\ caller' = [caller EXCEPT !.attempt = @ + 1]
    BY <1>6 DEF WriteCoil, AddRequest
  <2>2. caller'.at = "send" /\ caller'.coil = caller.coil /\ caller'.state = caller.state
    BY <1>1, <2>1 DEF Task
  <2>3. \A c : WrittenTo(c)' = WrittenTo(c)  BY <1>1, <2>1, SameRequests
  <2>4. RememberedInv'  BY <1>1, <1>3, <2>1, <2>2, <2>3 DEF AskedInv, RememberedInv
  <2>5. AskedIsSet'  BY <1>1, <2>1, <2>2, <2>3 DEF AskedInv, AskedIsSet
  <2> QED  BY <2>4, <2>5 DEF AskedInv
<1>7. CASE ~Room /\ caller.attempt + 1 = MaxRetries
  <2>1. UNCHANGED requests /\ undone' = undone \union {caller.coil} /\ caller' = Free
    BY <1>7 DEF WriteCoil, AddRequest
  <2>2. caller'.at = "free"  BY <2>1, FreeTask
  <2>3. \A c : WrittenTo(c)' = WrittenTo(c)  BY <1>1, <2>1, SameRequests
  <2>4. RememberedInv'  BY <1>1, <1>3, <2>1, <2>2, <2>3 DEF AskedInv, RememberedInv
  <2>5. AskedIsSet'  BY <1>1, <2>1, <2>2, <2>3 DEF AskedInv, AskedIsSet
  <2> QED  BY <2>4, <2>5 DEF AskedInv
<1> QED  BY <1>5, <1>6, <1>7

LEMMA EnqueueAsked == TypeInv /\ AskedInv /\ EnqueueWatchdog => AskedInv'
<1> SUFFICES ASSUME TypeInv, AskedInv, EnqueueWatchdog PROVE AskedInv'  OBVIOUS
<1>1. /\ UNCHANGED <<targets, server, requests, asked, undone>> /\ caller.at = "watch"
      /\ caller'.at = "free"
  BY FreeTask DEF EnqueueWatchdog, clientVars, calls
<1>2. \A c : Remembered(c)' = Remembered(c) /\ WrittenTo(c)' = WrittenTo(c)
  BY <1>1, SameTargets, SameRequests
<1>3. RememberedInv'  BY <1>1, <1>2 DEF AskedInv, RememberedInv
<1>4. AskedIsSet'  BY <1>1, <1>2 DEF AskedInv, AskedIsSet
<1> QED  BY <1>3, <1>4 DEF AskedInv

LEMMA StillAsked == AskedInv /\ UNCHANGED vars => AskedInv'
<1> SUFFICES ASSUME AskedInv, UNCHANGED vars PROVE AskedInv'  OBVIOUS
<1>1. UNCHANGED <<targets, server, requests, caller, asked, undone>>
  BY DEF vars, clientVars, calls
<1> QED  BY <1>1, SameTargets, SameRequests, AskedLeftAlone

\* Between calls a coil is, or will be when the queue is worked off, what was asked for
\* last, unless that write was refused or lost, for any calls: skipping a write whose
\* value is remembered does no harm but in that case (setCoil).
THEOREM CoilsAreAsAsked == Spec => []AskedIsSet
<1>1. ASSUME TypeInv, AskedInv, Next PROVE AskedInv'
  BY <1>1, PollingAsked, CallAsked, SetAsked, StoreAsked, WriteAsked, EnqueueAsked, WatchdogAsked,
     AddAsked, ReadAsked, AnswerAsked, FailAsked DEF Next, Caller, CoilWatchdogTask
<1>2. AskedInv => AskedIsSet  BY DEF AskedInv
<1> QED  BY TypeInvHolds, InitAsked, <1>1, StillAsked, <1>2, PTL DEF Spec

-------------------------------------------------------------------------------
(* The targets that a coil set to ON may leave behind.                     *)

\* The calls for ON that the watchdog has still to see, in its queue and in the hands
\* of the caller, and the looks it has left for the call it is at.
OnCalls(q) == {i \in 1..Len(q) : q[i].state = "ON"}
Calling == IF caller.at # "free" /\ caller.state = "ON" THEN 1 ELSE 0
Unseen == Cardinality(OnCalls(watchQueue)) + Calling
Looks == IF watchdog.at = "free" \/ watchdog.state = "OFF" THEN 0
         ELSE IF watchdog.at = "send" THEN MaxRetries - watchdog.retries
         ELSE MaxRetries + 1 - watchdog.retries

\* Each call for ON brings MaxRetries + 1 targets, which are on the list, to come of
\* the looks left, or to come of a call that waits.
Share(n) == (MaxRetries + 1) * n

BudgetInv ==
  /\ watchdog.at \in {"store", "send"} => watchdog.state = "ON"
  /\ Len(targets) - 7 + Looks + Share(Unseen) <= Share(switchedOn)

LEMMA Shares == ASSUME NEW n \in Nat
                PROVE  /\ Share(n) \in Nat /\ Share(n + 1) = Share(n) + (MaxRetries + 1)
BY Constants DEF Share

LEMMA MoreShares == ASSUME NEW m \in Nat, NEW n \in Nat, m <= n
                    PROVE  Share(m) <= Share(n)
BY Constants DEF Share

LEMMA OnCallsFinite ==
  ASSUME NEW q \in Seq(Call)
  PROVE  IsFiniteSet(OnCalls(q)) /\ Cardinality(OnCalls(q)) \in Nat
<1>1. Len(q) \in Nat  OBVIOUS
<1>2. IsFiniteSet(1..Len(q))  BY <1>1, FS_Interval
<1>3. OnCalls(q) \in SUBSET (1..Len(q))  BY DEF OnCalls
<1> QED  BY <1>2, <1>3, FS_Subset, FS_CardinalityType

LEMMA OnCallsAppend ==
  ASSUME NEW q \in Seq(Call), NEW w \in Call
  PROVE  Cardinality(OnCalls(Append(q, w)))
           = Cardinality(OnCalls(q)) + (IF w.state = "ON" THEN 1 ELSE 0)
<1>1. /\ Len(q) \in Nat /\ Len(Append(q, w)) = Len(q) + 1
      /\ \A i \in 1..Len(q) : Append(q, w)[i] = q[i]
      /\ Append(q, w)[Len(q) + 1] = w
  BY AppendProperties
<1>2. IsFiniteSet(OnCalls(q)) /\ Cardinality(OnCalls(q)) \in Nat  BY OnCallsFinite
<1>3. Len(q) + 1 \notin OnCalls(q)  BY <1>1 DEF OnCalls
<1>4. CASE w.state = "ON"
  <2>1. OnCalls(Append(q, w)) = OnCalls(q) \cup {Len(q) + 1}  BY <1>1, <1>4 DEF OnCalls
  <2> QED  BY <1>2, <1>3, <1>4, <2>1, FS_AddElement
<1>5. CASE w.state # "ON"
  <2>1. OnCalls(Append(q, w)) = OnCalls(q)  BY <1>1, <1>5 DEF OnCalls
  <2> QED  BY <1>2, <1>5, <2>1
<1> QED  BY <1>4, <1>5

LEMMA OnCallsTail ==
  ASSUME NEW q \in Seq(Call), q # <<>>
  PROVE  Cardinality(OnCalls(q))
           = Cardinality(OnCalls(Tail(q))) + (IF Head(q).state = "ON" THEN 1 ELSE 0)
<1> DEFINE rest == OnCalls(q) \ {1}
           move == [i \in rest |-> i - 1]
<1>1. /\ Len(q) \in Nat /\ Len(q) > 0 /\ Head(q) = q[1] /\ Tail(q) \in Seq(Call)
      /\ Len(Tail(q)) = Len(q) - 1
      /\ \A i \in 1..Len(Tail(q)) : Tail(q)[i] = q[i + 1]
  BY HeadTailProperties
<1>2. /\ IsFiniteSet(OnCalls(q)) /\ Cardinality(OnCalls(q)) \in Nat
      /\ IsFiniteSet(OnCalls(Tail(q))) /\ Cardinality(OnCalls(Tail(q))) \in Nat
  BY <1>1, OnCallsFinite
<1>3. /\ IsFiniteSet(rest)
      /\ Cardinality(rest) = IF 1 \in OnCalls(q) THEN Cardinality(OnCalls(q)) - 1
                             ELSE Cardinality(OnCalls(q))
  BY <1>2, FS_RemoveElement
<1>4. 1 \in OnCalls(q) <=> Head(q).state = "ON"  BY <1>1 DEF OnCalls
<1>5. move \in Bijection(rest, OnCalls(Tail(q)))
  <2>1. \A i \in rest : i - 1 \in OnCalls(Tail(q))  BY <1>1 DEF OnCalls
  <2>2. \A i, j \in rest : i - 1 = j - 1 => i = j  BY <1>1 DEF OnCalls
  <2>3. \A j \in OnCalls(Tail(q)) : j + 1 \in rest /\ (j + 1) - 1 = j  BY <1>1 DEF OnCalls
  <2> HIDE DEF rest
  <2>4. \A j \in OnCalls(Tail(q)) : \E i \in rest : move[i] = j  BY <2>3
  <2> QED  BY <2>1, <2>2, <2>4 DEF Bijection, Injection, Surjection, IsInjective
<1>6. Cardinality(OnCalls(Tail(q))) = Cardinality(rest)
  <2>1. ExistsBijection(rest, OnCalls(Tail(q)))  BY <1>5 DEF ExistsBijection
  <2> HIDE DEF rest
  <2> QED  BY <1>3, <2>1, FS_Bijection
<1> QED  BY <1>2, <1>3, <1>4, <1>6

LEMMA UnseenIsNat == TypeInv => Calling \in 0..1 /\ Unseen \in Nat
BY OnCallsFinite DEF Unseen, Calling, TypeInv, TaskInv

LEMMA LooksAreNat == TypeInv => Looks \in Nat
<1> SUFFICES ASSUME TypeInv PROVE Looks \in Nat  OBVIOUS
<1>1. /\ watchdog.retries \in 0..(MaxRetries + 1)
      /\ watchdog.at = "send" => watchdog.retries <= MaxRetries
  BY DEF TypeInv, TaskInv, Task
<1> QED  BY <1>1, Constants DEF Looks

LEMMA CountsNext == TypeInv' => (Looks \in Nat)' /\ (Unseen \in Nat)'
BY LooksAreNat, UnseenIsNat, PTL

LEMMA FirstTargets == Len(SwitchControls \o Meters) = 7
<1>1. SwitchControls \in Seq(Target) /\ Len(SwitchControls) = 5
  BY DEF SwitchControls, NewTarget, Target, CoilServer
<1>2. Meters \in Seq(Target) /\ Len(Meters) = 2  BY DEF Meters, NewTarget, Target, Meter
<1>3. Len(SwitchControls \o Meters) = Len(SwitchControls) + Len(Meters)
  BY <1>1, <1>2, ConcatProperties, Zenon
<1> QED  BY <1>1, <1>2, <1>3

LEMMA InitBudget == Init => BudgetInv
<1> SUFFICES ASSUME Init PROVE BudgetInv  OBVIOUS
<1>1. Len(targets) = 7  BY FirstTargets DEF Init
<1>2. watchdog.at = "free" /\ Calling = 0  BY DEF Init, Free, Calling
<1>3. Cardinality(OnCalls(watchQueue)) = 0
  <2>1. OnCalls(watchQueue) = {}  BY DEF Init, OnCalls
  <2> QED  BY <2>1, FS_EmptySet
<1>4. Unseen = 0 /\ Looks = 0  BY <1>2, <1>3 DEF Unseen, Looks
<1>5. switchedOn = 0  BY DEF Init
<1>6. Share(0) \in Nat  BY Shares
<1> QED  BY <1>1, <1>2, <1>4, <1>5, <1>6 DEF BudgetInv

\* A target that is added takes one of the looks; a call is given up, or goes on.
LEMMA BudgetKept ==
  ASSUME TypeInv, TypeInv', BudgetInv, UNCHANGED switchedOn, Unseen' <= Unseen,
         Len(targets') + Looks' <= Len(targets) + Looks,
         watchdog'.at \in {"store", "send"} => watchdog'.state = "ON"
  PROVE  BudgetInv'
<1>1. Unseen \in Nat /\ Unseen' \in Nat /\ Looks \in Nat /\ Looks' \in Nat
  BY UnseenIsNat, LooksAreNat, CountsNext
<1>2. Len(targets) \in Nat /\ Len(targets') \in Nat  BY DEF TypeInv, ListInv, ListFits
<1>3. switchedOn \in Nat  BY DEF TypeInv, TaskInv
<1>4. /\ Share(Unseen) \in Nat /\ Share(Unseen') \in Nat /\ Share(switchedOn) \in Nat
      /\ Share(Unseen') <= Share(Unseen)
  BY <1>1, <1>3, Shares, MoreShares
<1>5. Share(Unseen)' = Share(Unseen') /\ Share(switchedOn)' = Share(switchedOn)  BY DEF Share
<1>6. Len(targets) - 7 + Looks + Share(Unseen) <= Share(switchedOn)  BY DEF BudgetInv
<1>7. Len(targets') - 7 + Looks' + Share(Unseen') <= Share(switchedOn)
  BY <1>1, <1>2, <1>4, <1>6
<1> QED  BY <1>5, <1>7 DEF BudgetInv

\* Where the watchdog and the list rest, the calls that wait are all that matters.
LEMMA SameLooks == UNCHANGED watchdog => Looks' = Looks
BY DEF Looks

LEMMA SameUnseen ==
  ASSUME UNCHANGED watchQueue, Calling' = Calling
  PROVE  Unseen' = Unseen
BY DEF Unseen, OnCalls

LEMMA StillBudget ==
  ASSUME TypeInv, TypeInv', BudgetInv,
         UNCHANGED <<targets, caller, watchdog, watchQueue, switchedOn>>
  PROVE  BudgetInv'
<1>1. Unseen' = Unseen  BY SameUnseen DEF Calling
<1>2. Looks' = Looks  BY SameLooks
<1>3. Unseen \in Nat /\ Looks \in Nat /\ Len(targets) \in Nat
  BY UnseenIsNat, LooksAreNat DEF TypeInv, ListInv, ListFits
<1>4. watchdog'.at \in {"store", "send"} => watchdog'.state = "ON"  BY DEF BudgetInv
<1>5. Unseen' <= Unseen /\ Len(targets') + Looks' <= Len(targets) + Looks
  BY <1>1, <1>2, <1>3
<1> QED  BY <1>4, <1>5, BudgetKept

\* A call for ON brings its share and waits.
LEMMA CallBudget == TypeInv /\ BudgetInv /\ TriggerCoil => BudgetInv'
<1> SUFFICES ASSUME TypeInv, BudgetInv, TriggerCoil PROVE BudgetInv'  OBVIOUS
<1> DEFINE s == Head(script).state
<1>1. /\ UNCHANGED <<targets, watchdog, watchQueue>> /\ caller.at = "free"
      /\ switchedOn' = IF s = "ON" THEN switchedOn + 1 ELSE switchedOn
  BY DEF TriggerCoil
<1>2. caller'.at = "set" /\ caller'.state = s
  <2> DEFINE f == Free
             c == Head(script).coil
  <2>1. caller' = [f EXCEPT !.at = "set", !.coil = c, !.state = s]  BY DEF TriggerCoil
  <2>2. f \in Task  BY FreeTask
  <2> HIDE DEF f, c, s
  <2> QED  BY <2>1, <2>2 DEF Task
<1>3. Calling = 0 /\ Calling' = IF s = "ON" THEN 1 ELSE 0  BY <1>1, <1>2 DEF Calling
<1>4. Unseen \in Nat /\ Unseen' = IF s = "ON" THEN Unseen + 1 ELSE Unseen
  <2>1. Cardinality(OnCalls(watchQueue)) \in Nat  BY OnCallsFinite DEF TypeInv, TaskInv
  <2>2. Cardinality(OnCalls(watchQueue))' = Cardinality(OnCalls(watchQueue))
    BY <1>1 DEF OnCalls
  <2> HIDE DEF s
  <2> QED  BY <1>3, <2>1, <2>2 DEF Unseen
<1>5. Looks' = Looks /\ Looks \in Nat  BY <1>1, SameLooks, LooksAreNat
<1>6. switchedOn \in Nat /\ Len(targets) \in Nat /\ MaxRetries \in Nat
  BY Constants DEF TypeInv, TaskInv, ListInv, ListFits
<1>7. /\ Share(Unseen) \in Nat /\ Share(Unseen + 1) = Share(Unseen) + (MaxRetries + 1)
      /\ Share(switchedOn) \in Nat
      /\ Share(switchedOn + 1) = Share(switchedOn) + (MaxRetries + 1)
  BY <1>4, <1>6, Shares
<1>8. Share(Unseen)' = Share(Unseen') /\ Share(switchedOn)' = Share(switchedOn')  BY DEF Share
<1> HIDE DEF s
<1>9. /\ Share(Unseen)' = Share(Unseen) + (IF s = "ON" THEN MaxRetries + 1 ELSE 0)
      /\ Share(switchedOn)' = Share(switchedOn) + (IF s = "ON" THEN MaxRetries + 1 ELSE 0)
  BY <1>1, <1>4, <1>6, <1>7, <1>8
<1>10. Len(targets) - 7 + Looks + Share(Unseen) <= Share(switchedOn)  BY DEF BudgetInv
<1>11. Len(targets) - 7 + Looks' + Share(Unseen)' <= Share(switchedOn)'
  BY <1>5, <1>6, <1>7, <1>9, <1>10
<1> QED  BY <1>1, <1>11 DEF BudgetInv

\* What setCoil remembers adds no target.
LEMMA SetLength == TypeInv /\ SetCoil => Len(targets') = Len(targets)
<1> SUFFICES ASSUME TypeInv, SetCoil PROVE Len(targets') = Len(targets)  OBVIOUS
<1> DEFINE i == TargetOf(caller.coil)
<1>1. UNCHANGED targets \/ (i # 0 /\ targets' = Remember(targets, i, caller.state))
  BY DEF SetCoil, Remember
<1>2. CASE UNCHANGED targets  BY <1>2
<1>3. CASE i # 0 /\ targets' = Remember(targets, i, caller.state)
  <2>1. caller.coil \in Coil /\ caller.state \in CoilState  BY DEF TypeInv, TaskInv, Task
  <2>2. i \in 1..Len(targets) /\ i \notin {6, 7}  BY <1>3, <2>1, CoilTarget DEF TypeInv
  <2>3. ListFits(targets)  BY DEF TypeInv, ListInv
  <2> HIDE DEF i
  <2> QED  BY <1>3, <2>1, <2>2, <2>3, Remembering
<1> QED  BY <1>1, <1>2, <1>3

\* A caller goes on with its call, or gives it up.
LEMMA CallerBudget ==
  ASSUME TypeInv, TypeInv', BudgetInv, SetCoil \/ StoreToken \/ WriteCoil
  PROVE  BudgetInv'
<1>1. UNCHANGED <<watchdog, watchQueue, switchedOn>> /\ caller.at # "free"
  BY DEF SetCoil, StoreToken, WriteCoil, clientVars, calls
<1>2. caller' = Free \/ (caller'.at # "free" /\ caller'.state = caller.state)
  <2>1. caller \in Task  BY DEF TypeInv, TaskInv
  <2>2. CASE SetCoil
    <3>1. caller' = [caller EXCEPT !.at = "watch"]
          \/ caller' = [caller EXCEPT !.at = "store", !.token = currentToken + 1]
      BY <2>2 DEF SetCoil, LoadToken, Incremented
    <3> QED  BY <2>1, <3>1 DEF Task
  <2>3. CASE StoreToken  BY <2>1, <2>3 DEF StoreToken, Task
  <2>4. CASE WriteCoil
    <3>1. \/ caller' = [caller EXCEPT !.at = "watch"]
          \/ caller' = Free
          \/ caller' = [caller EXCEPT !.attempt = @ + 1]
      BY <2>4 DEF WriteCoil
    <3> QED  BY <1>1, <2>1, <3>1 DEF Task
  <2> QED  BY <2>2, <2>3, <2>4
<1>3. Calling' <= Calling /\ Calling \in 0..1 /\ Calling' \in 0..1
  BY <1>1, <1>2, FreeTask DEF Calling
<1>4. Len(targets') = Len(targets)  BY SetLength DEF StoreToken, WriteCoil
<1>5. Unseen' <= Unseen
  <2>1. Cardinality(OnCalls(watchQueue)) \in Nat  BY OnCallsFinite DEF TypeInv, TaskInv
  <2>2. Cardinality(OnCalls(watchQueue))' = Cardinality(OnCalls(watchQueue))
    BY <1>1 DEF OnCalls
  <2> QED  BY <1>3, <2>1, <2>2 DEF Unseen
<1>6. Len(targets') + Looks' <= Len(targets) + Looks
  <2>1. Len(targets) \in Nat /\ Looks \in Nat
    BY LooksAreNat DEF TypeInv, ListInv, ListFits
  <2> QED  BY <1>1, <1>4, <2>1, SameLooks
<1>7. watchdog'.at \in {"store", "send"} => watchdog'.state = "ON"  BY <1>1 DEF BudgetInv
<1> QED  BY <1>1, <1>5, <1>6, <1>7, BudgetKept

\* The call goes from the caller into the queue, or is dropped.
LEMMA EnqueueBudget ==
  ASSUME TypeInv, TypeInv', BudgetInv, EnqueueWatchdog
  PROVE  BudgetInv'
<1> DEFINE w == [coil |-> caller.coil, state |-> caller.state]
<1>1. /\ UNCHANGED <<targets, watchdog, switchedOn>> /\ caller.at = "watch" /\ caller' = Free
      /\ watchQueue' = watchQueue \/ watchQueue' = Append(watchQueue, w)
  BY DEF EnqueueWatchdog, calls
<1>2. Calling = (IF caller.state = "ON" THEN 1 ELSE 0) /\ Calling' = 0
  BY <1>1, FreeTask DEF Calling
<1>3. /\ watchQueue \in Seq(Call) /\ Cardinality(OnCalls(watchQueue)) \in Nat
      /\ w \in Call /\ w.state = caller.state
  BY OnCallsFinite DEF TypeInv, TaskInv, Task, Call
<1> HIDE DEF w
<1>4. Cardinality(OnCalls(Append(watchQueue, w)))
        = Cardinality(OnCalls(watchQueue)) + Calling
  BY <1>2, <1>3, OnCallsAppend
<1>5. \/ Cardinality(OnCalls(watchQueue))' = Cardinality(OnCalls(watchQueue))
      \/ Cardinality(OnCalls(watchQueue))' = Cardinality(OnCalls(watchQueue)) + Calling
  BY <1>1, <1>4 DEF OnCalls
<1>6. Unseen' <= Unseen  BY <1>2, <1>3, <1>5 DEF Unseen
<1>7. Len(targets') + Looks' <= Len(targets) + Looks
  <2>1. Len(targets) \in Nat /\ Looks \in Nat
    BY LooksAreNat DEF TypeInv, ListInv, ListFits
  <2> QED  BY <1>1, <2>1, SameLooks
<1>8. watchdog'.at \in {"store", "send"} => watchdog'.state = "ON"  BY <1>1 DEF BudgetInv
<1> QED  BY <1>1, <1>6, <1>7, <1>8, BudgetKept

\* The watchdog takes a call up: its share becomes its looks.
LEMMA ReceiveBudget ==
  ASSUME TypeInv, TypeInv', BudgetInv, ReceiveWatch
  PROVE  BudgetInv'
<1> DEFINE s == Head(watchQueue).state
<1>1. /\ UNCHANGED <<targets, caller, switchedOn>> /\ watchdog.at = "free"
      /\ watchQueue # <<>> /\ watchQueue' = Tail(watchQueue)
  BY DEF ReceiveWatch, calls
<1>2. watchQueue \in Seq(Call) /\ Head(watchQueue) \in Call
  BY <1>1, HeadTailProperties DEF TypeInv, TaskInv
<1>3. watchdog'.at = "check" /\ watchdog'.state = s /\ watchdog'.retries = 0
  <2> DEFINE f == Free
             c == Head(watchQueue).coil
  <2>1. watchdog' = [f EXCEPT !.at = "check", !.coil = c, !.state = s]  BY DEF ReceiveWatch
  <2>2. f \in Task /\ f.retries = 0  BY FreeTask
  <2> HIDE DEF f, c, s
  <2> QED  BY <2>1, <2>2 DEF Task
<1>4. s \in CoilState  BY <1>2 DEF Call
<1>5. Looks = 0 /\ Looks' = IF s = "ON" THEN MaxRetries + 1 ELSE 0
  <2> HIDE DEF s
  <2> QED  BY <1>1, <1>3, <1>4, Constants DEF Looks, CoilState
<1>6. Cardinality(OnCalls(watchQueue))
        = Cardinality(OnCalls(watchQueue))' + (IF s = "ON" THEN 1 ELSE 0)
  <2>1. Cardinality(OnCalls(watchQueue))
          = Cardinality(OnCalls(Tail(watchQueue))) + (IF s = "ON" THEN 1 ELSE 0)
    BY <1>1, <1>2, OnCallsTail
  <2>2. OnCalls(watchQueue)' = OnCalls(Tail(watchQueue))  BY <1>1 DEF OnCalls
  <2> QED  BY <2>1, <2>2
<1>7. Calling' = Calling /\ Unseen' \in Nat  BY <1>1, CountsNext DEF Calling
<1>8. Unseen = IF s = "ON" THEN Unseen' + 1 ELSE Unseen'
  <2>1. Cardinality(OnCalls(watchQueue)) \in Nat /\ Cardinality(OnCalls(watchQueue))' \in Nat
    <3>1. watchQueue' \in Seq(Call)  BY DEF TypeInv, TaskInv
    <3> QED  BY <1>2, <3>1, OnCallsFinite DEF OnCalls
  <2>2. Calling \in 0..1  BY UnseenIsNat
  <2> HIDE DEF s
  <2> QED  BY <1>6, <1>7, <2>1, <2>2 DEF Unseen
<1>9. /\ Share(Unseen') \in Nat /\ Share(Unseen' + 1) = Share(Unseen') + (MaxRetries + 1)
  BY <1>7, Shares
<1>10. Len(targets) - 7 + Looks + Share(Unseen) <= Share(switchedOn)  BY DEF BudgetInv
<1>11. Len(targets) \in Nat /\ MaxRetries \in Nat /\ Share(switchedOn) \in Nat
  <2>1. Len(targets) \in Nat /\ MaxRetries \in Nat /\ switchedOn \in Nat
    BY Constants DEF TypeInv, ListInv, ListFits, TaskInv
  <2> QED  BY <2>1, Shares
<1> HIDE DEF s
<1>12. Len(targets) - 7 + Looks' + Share(Unseen') <= Share(switchedOn)
  BY <1>5, <1>8, <1>9, <1>10, <1>11
<1>13. Share(Unseen)' = Share(Unseen') /\ Share(switchedOn)' = Share(switchedOn)
  BY <1>1 DEF Share
<1> QED  BY <1>1, <1>3, <1>12, <1>13 DEF BudgetInv

\* No coil is ever seen to be on: a call for OFF is done at once, and one for ON looks
\* again until its looks are used up.
LEMMA CheckBudget ==
  ASSUME TypeInv, TypeInv', BudgetInv, CheckCoil
  PROVE  BudgetInv'
<1>1. /\ UNCHANGED <<targets, caller, watchQueue, switchedOn>> /\ watchdog.at = "check"
      /\ watchdog \in Task /\ watchdog.coil \in Coil /\ watchdog.state \in CoilState
  BY DEF CheckCoil, calls, TypeInv, TaskInv, Task
<1>2. coils[watchdog.coil] = "OFF"
  BY <1>1 DEF TypeInv, ClientInv, AnswersReachInput
<1>3. \/ watchdog' = Free
      \/ /\ watchdog.state = "ON"
         /\ watchdog' = [watchdog EXCEPT !.at = "store", !.token = currentToken + 1]
  BY <1>1, <1>2 DEF CheckCoil, LoadToken, Incremented, CoilState
<1>4. Unseen' = Unseen /\ Unseen \in Nat  BY <1>1, SameUnseen, UnseenIsNat DEF Calling
<1>5. Looks' <= Looks /\ (watchdog'.at \in {"store", "send"} => watchdog'.state = "ON")
  <2>1. CASE watchdog' = Free
    <3>1. watchdog'.at = "free"  BY <2>1, FreeTask
    <3>2. Looks' = 0 /\ Looks \in Nat  BY <3>1, LooksAreNat DEF Looks
    <3> QED  BY <3>1, <3>2
  <2>2. CASE /\ watchdog.state = "ON"
             /\ watchdog' = [watchdog EXCEPT !.at = "store", !.token = currentToken + 1]
    <3>1. /\ watchdog'.at = "store" /\ watchdog'.state = "ON"
          /\ watchdog'.retries = watchdog.retries
      BY <1>1, <2>2 DEF Task
    <3>2. Looks' = Looks  BY <1>1, <2>2, <3>1 DEF Looks
    <3> QED  BY <3>1, <3>2, LooksAreNat
  <2> QED  BY <1>3, <2>1, <2>2
<1>6. Unseen' <= Unseen /\ Len(targets') + Looks' <= Len(targets) + Looks
  <2>1. Looks \in Nat /\ Looks' \in Nat  BY LooksAreNat, CountsNext
  <2>2. Len(targets) \in Nat  BY DEF TypeInv, ListInv, ListFits
  <2> QED  BY <1>1, <1>4, <1>5, <2>1, <2>2
<1> QED  BY <1>1, <1>5, <1>6, BudgetKept

\* At most one target for a look.
LEMMA AddBudget ==
  ASSUME TypeInv, TypeInv', BudgetInv, AddTarget
  PROVE  BudgetInv'
<1>1. /\ UNCHANGED <<caller, watchQueue, switchedOn>> /\ watchdog.at = "store"
      /\ watchdog \in Task /\ watchdog' = [watchdog EXCEPT !.at = "send", !.attempt = 0]
      /\ targets' = targets \/ targets' = Append(targets, ReadTarget)
  BY DEF AddTarget, calls, TypeInv, TaskInv
<1>2. /\ watchdog.state = "ON" /\ watchdog'.at = "send" /\ watchdog'.state = "ON"
      /\ watchdog'.retries = watchdog.retries /\ watchdog.retries \in Nat
  BY <1>1, Constants DEF BudgetInv, Task
<1>3. Looks = Looks' + 1 /\ Looks' \in Nat
  <2>1. Looks = MaxRetries + 1 - watchdog.retries /\ Looks' = MaxRetries - watchdog.retries
    BY <1>1, <1>2 DEF Looks
  <2>2. Looks' \in Nat  BY CountsNext
  <2> QED  BY <1>2, <2>1, <2>2, Constants
<1>4. Len(targets) \in Nat /\ Len(targets') \in Nat /\ Len(targets') <= Len(targets) + 1
  <2>1. targets \in Seq(Target) /\ targets' \in Seq(Target)
    BY DEF TypeInv, ListInv, ListFits
  <2> QED  BY <1>1, <2>1
<1>5. Unseen' = Unseen /\ Unseen \in Nat  BY <1>1, SameUnseen, UnseenIsNat DEF Calling
<1>6. Unseen' <= Unseen /\ Len(targets') + Looks' <= Len(targets) + Looks
  BY <1>3, <1>4, <1>5
<1> QED  BY <1>1, <1>2, <1>6, BudgetKept

\* The look is counted when its request was sent or given up.
LEMMA ReadBudget ==
  ASSUME TypeInv, TypeInv', BudgetInv, ReadCoil
  PROVE  BudgetInv'
<1>1. /\ UNCHANGED <<targets, caller, watchQueue, switchedOn>> /\ watchdog.at = "send"
      /\ watchdog \in Task
      /\ \/ watchdog' = [watchdog EXCEPT !.at = "check", !.retries = @ + 1]
         \/ watchdog' = [watchdog EXCEPT !.attempt = @ + 1]
  BY DEF ReadCoil, calls, TypeInv, TaskInv
<1>2. watchdog.state = "ON" /\ watchdog.retries \in Nat
  BY <1>1, Constants DEF BudgetInv, Task
<1>3. /\ watchdog'.state = "ON"
      /\ \/ watchdog'.at = "check" /\ watchdog'.retries = watchdog.retries + 1
         \/ watchdog'.at = "send" /\ watchdog'.retries = watchdog.retries
  BY <1>1, <1>2 DEF Task
<1>4. Looks' = Looks  BY <1>1, <1>2, <1>3, Constants DEF Looks
<1>5. Unseen' = Unseen /\ Unseen \in Nat  BY <1>1, SameUnseen, UnseenIsNat DEF Calling
<1>6. Unseen' <= Unseen /\ Len(targets') + Looks' <= Len(targets) + Looks
  <2>1. Len(targets) \in Nat /\ Looks \in Nat
    BY LooksAreNat DEF TypeInv, ListInv, ListFits
  <2> QED  BY <1>1, <1>4, <1>5, <2>1
<1> QED  BY <1>1, <1>3, <1>6, BudgetKept

LEMMA BudgetIsEnough == TypeInv /\ BudgetInv => ReadsPerTrigger
<1> SUFFICES ASSUME TypeInv, BudgetInv PROVE ReadsPerTrigger  OBVIOUS
<1>1. Len(SwitchControls \o Meters) = 7  BY FirstTargets
<1>2. Looks \in Nat /\ Unseen \in Nat /\ Share(Unseen) \in Nat
  BY LooksAreNat, UnseenIsNat, Shares
<1>3. Len(targets) \in Nat /\ Share(switchedOn) \in Nat
  <2>1. Len(targets) \in Nat /\ switchedOn \in Nat  BY DEF TypeInv, ListInv, ListFits, TaskInv
  <2> QED  BY <2>1, Shares
<1>4. Len(targets) - 7 + Looks + Share(Unseen) <= Share(switchedOn)  BY DEF BudgetInv
<1>5. Len(targets) - 7 <= Share(switchedOn)  BY <1>2, <1>3, <1>4
<1> QED  BY <1>1, <1>5 DEF ReadsPerTrigger, Share

\* However many calls come, a coil set to ON leaves at most MaxRetries + 1 targets behind
\* and one set to OFF none, though refused requests, tokens drawn twice and a
\* full watchdog queue come between (coilWatchdogTask, readCoil).
THEOREM TargetsArePaidFor == Spec => []ReadsPerTrigger
<1>1. ASSUME TypeInv, TypeInv', BudgetInv, Next PROVE BudgetInv'
  <2>1. CASE PollingTask \/ Answer \/ Fail
    <3>1. UNCHANGED <<targets, caller, watchdog, watchQueue, switchedOn>>
      BY <2>1 DEF PollingTask, BeginRound, Poll, PassBy, Answer, Fail, calls
    <3> QED  BY <1>1, <3>1, StillBudget
  <2>2. CASE TriggerCoil  BY <1>1, <2>2, CallBudget
  <2>3. CASE Caller  BY <1>1, <2>3, CallerBudget, EnqueueBudget DEF Caller
  <2>4. CASE CoilWatchdogTask
    BY <1>1, <2>4, ReceiveBudget, CheckBudget, AddBudget, ReadBudget DEF CoilWatchdogTask
  <2> QED  BY <1>1, <2>1, <2>2, <2>3, <2>4 DEF Next
<1>2. ASSUME TypeInv, TypeInv', BudgetInv, UNCHANGED vars PROVE BudgetInv'
  <2>1. UNCHANGED <<targets, caller, watchdog, watchQueue, switchedOn>>
    BY <1>2 DEF vars, calls
  <2> QED  BY <1>2, <2>1, StillBudget
<1> QED  BY TypeInvHolds, InitBudget, <1>1, <1>2, BudgetIsEnough, PTL DEF Spec

-------------------------------------------------------------------------------
(* How far a task is from its return.  That it goes on is the scheduler's. *)

\* A look of the watchdog: the check, the token, and the attempts to send.
LookSteps(n) == (MaxRetries + 2) * n

\* At most so many steps of its own are left to the call of TriggerCoil, and to the
\* watchdog before it is free for the next one.
CallerSteps ==
  CASE caller.at = "set"   -> MaxRetries - caller.attempt + 3
    [] caller.at = "store" -> MaxRetries - caller.attempt + 2
    [] caller.at = "send"  -> MaxRetries - caller.attempt + 1
    [] caller.at = "watch" -> 1
    [] OTHER -> 0

WatchdogSteps ==
  LET looks == LookSteps(MaxRetries + 1 - watchdog.retries)
  IN CASE watchdog.at = "check" -> looks + 1
       [] watchdog.at = "store" -> looks
       [] watchdog.at = "send"  -> looks - 1 - watchdog.attempt
       [] OTHER -> 0

\* Neither task is where it has no step, and each has a bound: nothing it waits for.
StepsAreBounded ==
  /\ caller.at \in {"free", "set", "store", "send", "watch"}
  /\ watchdog.at \in {"free", "check", "store", "send"}
  /\ CallerSteps \in 0..(MaxRetries + 3)
  /\ WatchdogSteps \in 0..(LookSteps(MaxRetries + 1) + 1)

\* Each step of a task brings it nearer to its return; no step of another one
\* takes it back.
NearerToReturn ==
  /\ Caller => CallerSteps' < CallerSteps
  /\ ~Caller /\ caller.at # "free" => CallerSteps' = CallerSteps
  /\ CoilWatchdogTask /\ watchdog.at # "free" => WatchdogSteps' < WatchdogSteps
  /\ ~CoilWatchdogTask => WatchdogSteps' = WatchdogSteps

Positions == /\ caller.at \in {"free", "set", "store", "send", "watch"}
             /\ watchdog.at \in {"free", "check", "store", "send"}

LEMMA LookAdds == ASSUME NEW n \in Nat
                  PROVE  LookSteps(n) \in Nat /\ LookSteps(n + 1) = LookSteps(n) + MaxRetries + 2
BY Constants DEF LookSteps

LEMMA MoreLooks == ASSUME NEW m \in Nat, NEW n \in Nat, m <= n
                   PROVE  LookSteps(m) <= LookSteps(n)
BY Constants DEF LookSteps

\* Who moves each of the two tasks.
LEMMA OwnSteps ==
  ASSUME [Next]_vars
  PROVE  /\ ~Caller /\ ~TriggerCoil => caller' = caller
         /\ ~CoilWatchdogTask => watchdog' = watchdog
<1>1. CASE PollingTask
  BY <1>1 DEF PollingTask, BeginRound, Poll, PassBy
<1>2. CASE TriggerCoil  BY <1>2 DEF TriggerCoil
<1>3. CASE Caller  BY <1>3 DEF Caller, SetCoil, StoreToken, WriteCoil, EnqueueWatchdog
<1>4. CASE CoilWatchdogTask
  BY <1>4 DEF CoilWatchdogTask, ReceiveWatch, CheckCoil, AddTarget, ReadCoil
<1>5. CASE Answer \/ Fail  BY <1>5 DEF Answer, Fail
<1>6. CASE UNCHANGED vars  BY <1>6 DEF vars
<1> QED  BY <1>1, <1>2, <1>3, <1>4, <1>5, <1>6 DEF Next

LEMMA CallerMoves ==
  ASSUME TypeInv, Caller
  PROVE  CallerSteps' < CallerSteps /\ caller'.at \in {"free", "store", "send", "watch"}
<1>a. caller \in Task /\ MaxRetries \in Nat \ {0}  BY Constants DEF TypeInv, TaskInv
<1>b. caller.attempt \in Nat /\ caller.attempt <= MaxRetries  BY <1>a DEF Task
<1>c. caller.at \in {"set", "store", "send"} => caller.attempt < MaxRetries
  BY DEF TypeInv, TaskInv
<1>1. CASE SetCoil
  <2>1. caller' = [caller EXCEPT !.at = "watch"]
        \/ caller' = [caller EXCEPT !.at = "store", !.token = currentToken + 1]
    BY <1>1 DEF SetCoil, LoadToken, Incremented
  <2>2. caller'.at = "watch" \/ (caller'.at = "store" /\ caller'.attempt = caller.attempt)
    BY <1>a, <2>1 DEF Task
  <2>3. caller.at = "set"  BY <1>1 DEF SetCoil
  <2> QED  BY <1>a, <1>b, <2>2, <2>3 DEF CallerSteps
<1>2. CASE StoreToken
  <2>1. caller.at = "store" /\ caller'.at = "send" /\ caller'.attempt = caller.attempt
    BY <1>a, <1>2 DEF StoreToken, Task
  <2> QED  BY <1>a, <1>b, <2>1 DEF CallerSteps
<1>3. CASE WriteCoil
  <2>1. caller.at = "send"  BY <1>3 DEF WriteCoil
  <2>2. \/ caller' = [caller EXCEPT !.at = "watch"]
        \/ caller' = Free
        \/ caller' = [caller EXCEPT !.attempt = @ + 1]
    BY <1>3 DEF WriteCoil
  <2>3. \/ caller'.at \in {"watch", "free"}
        \/ caller'.at = "send" /\ caller'.attempt = caller.attempt + 1
    BY <1>a, <2>1, <2>2, FreeTask DEF Task
  <2> QED  BY <1>a, <1>b, <1>c, <2>1, <2>3 DEF CallerSteps
<1>4. CASE EnqueueWatchdog
  <2>1. caller.at = "watch" /\ caller'.at = "free"  BY <1>4, FreeTask DEF EnqueueWatchdog
  <2> QED  BY <2>1 DEF CallerSteps
<1> QED  BY <1>1, <1>2, <1>3, <1>4 DEF Caller

LEMMA WatchdogMoves ==
  ASSUME TypeInv, CoilWatchdogTask
  PROVE  /\ watchdog.at # "free" => WatchdogSteps' < WatchdogSteps
         /\ watchdog'.at \in {"free", "check", "store", "send"}
<1>a. watchdog \in Task /\ MaxRetries \in Nat \ {0}  BY Constants DEF TypeInv, TaskInv
<1>b. /\ watchdog.attempt \in Nat /\ watchdog.retries \in Nat
      /\ watchdog.retries <= MaxRetries + 1
  BY <1>a DEF Task
<1>c. /\ watchdog.at = "send" => watchdog.attempt < MaxRetries
      /\ watchdog.at \in {"store", "send"} => watchdog.retries <= MaxRetries
  BY DEF TypeInv, TaskInv
<1> DEFINE n == MaxRetries + 1 - watchdog.retries
<1>d. n \in Nat /\ LookSteps(n) \in Nat  BY <1>a, <1>b, LookAdds
<1>1. CASE ReceiveWatch
  <2>1. watchdog.at = "free"  BY <1>1 DEF ReceiveWatch
  <2>2. watchdog'.at = "check"
    <3> DEFINE c == Head(watchQueue).coil
               s == Head(watchQueue).state
    <3>1. watchdog' = [Free EXCEPT !.at = "check", !.coil = c, !.state = s]
      BY <1>1 DEF ReceiveWatch
    <3> HIDE DEF c, s
    <3> QED  BY <3>1 DEF Free
  <2> QED  BY <2>1, <2>2
<1>2. CASE CheckCoil
  <2>1. watchdog.at = "check"  BY <1>2 DEF CheckCoil
  <2>2. watchdog' = Free
        \/ watchdog' = [watchdog EXCEPT !.at = "store", !.token = currentToken + 1]
    BY <1>2 DEF CheckCoil, LoadToken, Incremented
  <2>3. watchdog'.at = "free"
        \/ (watchdog'.at = "store" /\ watchdog'.retries = watchdog.retries)
    BY <1>a, <2>2, FreeTask DEF Task
  <2>4. WatchdogSteps = LookSteps(n) + 1  BY <2>1 DEF WatchdogSteps
  <2>5. CASE watchdog'.at = "free"
    <3>1. WatchdogSteps' = 0  BY <2>5 DEF WatchdogSteps
    <3> QED  BY <1>d, <2>4, <2>5, <3>1
  <2>6. CASE watchdog'.at = "store" /\ watchdog'.retries = watchdog.retries
    <3>1. WatchdogSteps' = LookSteps(n)  BY <2>6 DEF WatchdogSteps, LookSteps
    <3> QED  BY <1>d, <2>4, <2>6, <3>1
  <2> QED  BY <2>3, <2>5, <2>6
<1>3. CASE AddTarget
  <2>1. /\ watchdog.at = "store" /\ watchdog'.at = "send"
        /\ watchdog'.attempt = 0 /\ watchdog'.retries = watchdog.retries
    BY <1>a, <1>3 DEF AddTarget, Task
  <2>2. WatchdogSteps = LookSteps(n) /\ WatchdogSteps' = LookSteps(n) - 1 - 0
    BY <2>1 DEF WatchdogSteps, LookSteps
  <2> QED  BY <1>d, <2>1, <2>2
<1>4. CASE ReadCoil
  <2>1. watchdog.at = "send"  BY <1>4 DEF ReadCoil
  <2>2. \/ watchdog' = [watchdog EXCEPT !.at = "check", !.retries = @ + 1]
        \/ watchdog' = [watchdog EXCEPT !.attempt = @ + 1]
    BY <1>4 DEF ReadCoil
  <2>3. \/ watchdog'.at = "check" /\ watchdog'.retries = watchdog.retries + 1
        \/ /\ watchdog'.at = "send" /\ watchdog'.retries = watchdog.retries
           /\ watchdog'.attempt = watchdog.attempt + 1
    BY <1>a, <2>1, <2>2 DEF Task
  <2>4. WatchdogSteps = LookSteps(n) - 1 - watchdog.attempt  BY <2>1 DEF WatchdogSteps
  <2>5. CASE watchdog'.at = "check" /\ watchdog'.retries = watchdog.retries + 1
    <3> DEFINE m == MaxRetries - watchdog.retries
    <3>1. m \in Nat /\ n = m + 1 /\ MaxRetries + 1 - (watchdog.retries + 1) = m
      BY <1>a, <1>b, <1>c, <2>1
    <3>2. WatchdogSteps' = LookSteps(m) + 1
      <4>1. WatchdogSteps' = LookSteps(MaxRetries + 1 - (watchdog.retries + 1)) + 1
        BY <2>5 DEF WatchdogSteps, LookSteps
      <4> QED  BY <3>1, <4>1, Zenon
    <3> HIDE DEF m
    <3>3. LookSteps(m) \in Nat /\ LookSteps(m + 1) = LookSteps(m) + MaxRetries + 2
      BY <3>1, LookAdds
    <3>4. LookSteps(n) = LookSteps(m) + MaxRetries + 2  BY <3>1, <3>3
    <3> HIDE DEF n
    <3> QED  BY <1>a, <1>b, <1>c, <2>1, <2>4, <2>5, <3>2, <3>3, <3>4
  <2>6. CASE /\ watchdog'.at = "send" /\ watchdog'.retries = watchdog.retries
             /\ watchdog'.attempt = watchdog.attempt + 1
    <3>1. WatchdogSteps' = LookSteps(n) - 1 - (watchdog.attempt + 1)
      BY <2>6 DEF WatchdogSteps, LookSteps
    <3> QED  BY <1>b, <1>d, <2>4, <2>6, <3>1
  <2> QED  BY <2>3, <2>5, <2>6
<1> QED  BY <1>1, <1>2, <1>3, <1>4 DEF CoilWatchdogTask

LEMMA PositionsKept == TypeInv /\ Positions /\ [Next]_vars => Positions'
<1> SUFFICES ASSUME TypeInv, Positions, [Next]_vars PROVE Positions'  OBVIOUS
<1>1. caller'.at \in {"free", "set", "store", "send", "watch"}
  <2>1. TriggerCoil => caller'.at = "set"
    <3> SUFFICES ASSUME TriggerCoil PROVE caller'.at = "set"  OBVIOUS
    <3> DEFINE c == Head(script).coil
               s == Head(script).state
    <3>1. caller' = [Free EXCEPT !.at = "set", !.coil = c, !.state = s]  BY DEF TriggerCoil
    <3> HIDE DEF c, s
    <3> QED  BY <3>1 DEF Free
  <2> QED  BY <2>1, OwnSteps, CallerMoves DEF Positions
<1>2. watchdog'.at \in {"free", "check", "store", "send"}
  BY OwnSteps, WatchdogMoves DEF Positions
<1> QED  BY <1>1, <1>2 DEF Positions

LEMMA PositionsHold == Spec => []Positions
<1>1. Init => Positions  BY FreeTask DEF Init, Positions
<1> QED  BY <1>1, TypeInvHolds, PositionsKept, PTL DEF Spec

\* Neither task is anywhere without a step to take, and its call, or its job, is over
\* after a number of its own steps that only MaxRetries bounds: neither waits for the
\* network, for room in a queue or for another task (TriggerCoil, setCoil,
\* coilWatchdogTask, readCoil).
THEOREM TasksHaveBounds == Spec => []StepsAreBounded
<1>1. TypeInv /\ Positions => StepsAreBounded
  <2> SUFFICES ASSUME TypeInv, Positions PROVE StepsAreBounded  OBVIOUS
  <2>a. MaxRetries \in Nat \ {0}  BY Constants
  <2>1. CallerSteps \in 0..(MaxRetries + 3)
    <3>1. caller.attempt \in Nat /\ caller.attempt <= MaxRetries
      BY DEF TypeInv, TaskInv, Task
    <3> QED  BY <2>a, <3>1 DEF CallerSteps
  <2>2. WatchdogSteps \in 0..(LookSteps(MaxRetries + 1) + 1)
    <3> DEFINE n == MaxRetries + 1 - watchdog.retries
               m == MaxRetries - watchdog.retries
    <3>1. /\ watchdog.attempt \in Nat /\ watchdog.retries \in Nat
          /\ watchdog.retries <= MaxRetries + 1
          /\ watchdog.at = "send" => watchdog.attempt < MaxRetries
          /\ watchdog.at = "send" => watchdog.retries <= MaxRetries
      BY DEF TypeInv, TaskInv, Task
    <3>2. /\ n \in Nat /\ LookSteps(n) \in Nat /\ MaxRetries + 1 \in Nat /\ n <= MaxRetries + 1
      BY <2>a, <3>1, LookAdds
    <3>3. LookSteps(n) <= LookSteps(MaxRetries + 1) /\ LookSteps(MaxRetries + 1) \in Nat
      BY <3>2, MoreLooks, LookAdds
    <3>4. watchdog.at = "send" => LookSteps(n) >= MaxRetries + 2
      <4> SUFFICES ASSUME watchdog.at = "send" PROVE LookSteps(n) >= MaxRetries + 2  OBVIOUS
      <4>1. m \in Nat /\ n = m + 1  BY <2>a, <3>1
      <4> HIDE DEF m
      <4>2. LookSteps(m) \in Nat /\ LookSteps(m + 1) = LookSteps(m) + MaxRetries + 2
        BY <4>1, LookAdds
      <4>3. LookSteps(n) = LookSteps(m + 1)  BY <4>1, Zenon
      <4> QED  BY <2>a, <4>2, <4>3
    <3>5. WatchdogSteps = CASE watchdog.at = "check" -> LookSteps(n) + 1
                            [] watchdog.at = "store" -> LookSteps(n)
                            [] watchdog.at = "send"  -> LookSteps(n) - 1 - watchdog.attempt
                            [] OTHER -> 0
      BY DEF WatchdogSteps
    <3> HIDE DEF n
    <3> QED  BY <2>a, <3>1, <3>2, <3>3, <3>4, <3>5
  <2> QED  BY <2>1, <2>2 DEF Positions, StepsAreBounded
<1> QED  BY <1>1, TypeInvHolds, PositionsHold, PTL

\* Each of those steps uses up one, and no other task gives one back: with the bound
\* before it, why TriggerCoil and the watchdog return when the scheduler runs them.
THEOREM TasksGetNearer == Spec => [][NearerToReturn]_vars
<1>1. ASSUME TypeInv, Next PROVE NearerToReturn
  <2>1. ~Caller /\ caller.at # "free" => CallerSteps' = CallerSteps
    <3>1. caller.at # "free" => ~TriggerCoil  BY DEF TriggerCoil
    <3> QED  BY <1>1, <3>1, OwnSteps DEF CallerSteps
  <2>2. ~CoilWatchdogTask => WatchdogSteps' = WatchdogSteps
    BY <1>1, OwnSteps DEF WatchdogSteps, LookSteps
  <2>3. Caller => CallerSteps' < CallerSteps  BY <1>1, CallerMoves
  <2>4. CoilWatchdogTask /\ watchdog.at # "free" => WatchdogSteps' < WatchdogSteps
    BY <1>1, WatchdogMoves
  <2> QED  BY <2>1, <2>2, <2>3, <2>4 DEF NearerToReturn
<1> QED  BY <1>1, TypeInvHolds, PTL DEF Spec
===============================================================================
