---------------------------- MODULE ModbusManager ----------------------------
(***************************************************************************)
(* ModbusManager: one task polls the meters and the coils, a second one, a *)
(* watchdog, waits until a coil has the value it was set to, any task sets *)
(* a coil (TriggerCoil, which nothing in the repository calls), and the    *)
(* worker of the Modbus client sends one request after the other and hands *)
(* the answers to handleData.  They share the list of targets, the coil    *)
(* cache and the counter of tokens, none of them guarded.                  *)
(*                                                                         *)
(* One task at a time calls TriggerCoil.  A search of the list, which      *)
(* waits for nothing, is one step; the polling task keeps its iterator     *)
(* while it sleeps.  The model begins when main has added both meters.     *)
(* removeTarget has no caller, autopoll(false) none: both are left out.    *)
(***************************************************************************)
EXTENDS Integers, SequencesExt

CONSTANTS Scripts,      \* bound: the calls of TriggerCoil, one after the other
          MaxRetries,   \* MAX_RETRIES, 4
          QueueLimit,   \* the requests the Modbus client keeps
          WatchdogQueueSize  \* WATCHDOG_QUEUE_SIZE, 10

Coil == 0..4      \* their addresses
CoilState == {"OFF", "ON"}
CoilServer == 1   \* coilserver_id

ASSUME ModbusAssumption ==
  /\ \A s \in Scripts : s \in Seq([coil : Coil, state : CoilState])
  /\ MaxRetries \in Nat \ {0}
  /\ QueueLimit \in Nat \ {0} /\ WatchdogQueueSize \in Nat \ {0}

VARIABLES
  targets,       \* _targets
  currentToken,  \* _currentToken
  coils,         \* _coils
  power,         \* inputPower, outputPower: the meter last parsed into it, 0 for none
  requests,      \* the Modbus client's queue
  server,        \* the coils of the Modbus server
  polling,       \* pollingTask: the target its iterator is at, 0 between rounds, the
                 \* end of the list when the round began, whether the list moved since
  caller,        \* the task in TriggerCoil
  watchdog,      \* coilWatchdogTask
  watchQueue,    \* coilWatchdogQueue
  script,        \* the calls of TriggerCoil to come
  switchedOn,    \* history: how many of those that came asked for ON
  asked,         \* history: per coil, the state asked for last
  undone         \* history: the coils whose latest write was refused or lost

clientVars == <<requests, server, power, coils>>
calls == <<script, switchedOn, asked, undone>>
vars == <<targets, currentToken, clientVars, polling, caller, watchdog, watchQueue,
          calls>>

Meter == {"INPUT_POWER", "OUTPUT_POWER"}
NewTarget(type, slave, address, token) ==
  [type |-> type, slave |-> slave, address |-> address, token |-> token, last |-> "unknown"]

\* createSwitchControls: five coils, two at the coil server and three at slave 3.
SwitchControls ==
  [i \in 1..5 |-> NewTarget("SWITCH_CONTROL", IF i <= 2 THEN CoilServer ELSE 3, i - 1, i)]

\* target1 and target2 of main.
Meters == <<NewTarget("INPUT_POWER", 1, 761, 0), NewTarget("OUTPUT_POWER", 2, 123, 0)>>

\* A task at a coil: its request, its token, the attempts to send it, the retries.
Free == [at |-> "free", coil |-> 0, state |-> "OFF", token |-> 0, attempt |-> 0, retries |-> 0]

BetweenRounds == [next |-> 0, end |-> 0, moved |-> FALSE]

Init == /\ targets = SwitchControls \o Meters
        /\ currentToken = Len(SwitchControls)
        /\ coils = [c \in Coil |-> "OFF"]
        /\ power = [m \in Meter |-> 0]
        /\ requests = <<>>
        /\ server = [c \in Coil |-> "OFF"]
        /\ polling = BetweenRounds
        /\ caller = Free /\ watchdog = Free /\ watchQueue = <<>>
        /\ script \in Scripts /\ switchedOn = 0
        /\ asked = [c \in Coil |-> "unknown"] /\ undone = {}

Request(target, value) == [token |-> target.token, slave |-> target.slave,
                           address |-> target.address, value |-> value]

\* addRequest: a full queue refuses.
Room == Len(requests) < QueueLimit
AddRequest(r) == requests' = IF Room THEN Append(requests, r) ELSE requests

-------------------------------------------------------------------------------
(* pollingTask                                                             *)

\* A round with its iterator at the first target from i on that is polled.
RoundFrom(i, round) ==
  LET polled == {j \in i..round.end : targets[j].type \in Meter \union {"COIL_READ"}}
  IN IF polled = {} THEN BetweenRounds ELSE [round EXCEPT !.next = Min(polled)]

\* A round begins at the head of the list, and ends where the list ended then.
BeginRound ==
  /\ polling.next = 0
  /\ polling' = RoundFrom(1, [BetweenRounds EXCEPT !.end = Len(targets)])
  /\ UNCHANGED <<targets, currentToken, clientVars, caller, watchdog, watchQueue,
                 calls>>

GoOn == polling' = RoundFrom(polling.next + 1, polling)

\* Faulty variant: a refused request is tried again.
Poll_UntilSent ==
  /\ polling.next # 0 /\ Room
  /\ AddRequest(Request(targets[polling.next], "read"))
  /\ GoOn
  /\ UNCHANGED <<targets, currentToken, server, power, coils, caller, watchdog, watchQueue,
                 calls>>

\* The next target is polled, whether the queue takes the request or not.
Poll ==
  /\ polling.next # 0
  /\ AddRequest(Request(targets[polling.next], "read"))
  /\ GoOn
  /\ UNCHANGED <<targets, currentToken, server, power, coils, caller, watchdog, watchQueue,
                 calls>>

\* Where push_back has moved the list, the iterator is left in memory that was given
\* back: the target is still there, or something else that is not polled.
PassBy ==
  /\ polling.next # 0 /\ polling.moved
  /\ GoOn
  /\ UNCHANGED <<targets, currentToken, clientVars, caller, watchdog, watchQueue,
                 calls>>

PollingTask == BeginRound \/ Poll \/ PassBy

-------------------------------------------------------------------------------
(* TriggerCoil                                                             *)

TriggerCoil ==
  /\ caller.at = "free" /\ script # <<>>
  /\ LET c == Head(script).coil
         s == Head(script).state
     IN /\ caller' = [Free EXCEPT !.at = "set", !.coil = c, !.state = s]
        /\ asked' = [asked EXCEPT ![c] = s]
        /\ switchedOn' = IF s = "ON" THEN switchedOn + 1 ELSE switchedOn
  /\ script' = Tail(script)
  /\ UNCHANGED <<targets, currentToken, clientVars, polling, watchdog, watchQueue, undone>>

\* Faulty variant: any value that was written will do.
IsDone_Any(target, s) == target.last # "unknown"

\* setCoil: the value was remembered, before it was sent.
IsDone(target, s) == target.last = s

\* The first target with this slave and address; 0 for none.
TargetOf(c) == SelectInSeq(targets, LAMBDA t : t.address = c /\ t.slave = CoilServer)

\* generateUniqueToken: load, add one, store.  Two tasks do.
Incremented(n) == n + 1
LoadToken(task) == [task EXCEPT !.at = "store", !.token = Incremented(currentToken)]

\* A coil that has the value already is left alone; else a token is drawn.
SetCoil ==
  /\ caller.at = "set"
  /\ LET i == TargetOf(caller.coil)
     IN IF i # 0 /\ IsDone(targets[i], caller.state)
        THEN caller' = [caller EXCEPT !.at = "watch"] /\ UNCHANGED targets
        ELSE /\ caller' = LoadToken(caller)
             /\ targets' = IF i = 0 THEN targets
                           ELSE [targets EXCEPT ![i].last = caller.state]
  /\ UNCHANGED <<currentToken, clientVars, polling, watchdog, watchQueue, calls>>

StoreToken ==
  /\ caller.at = "store"
  /\ currentToken' = caller.token
  /\ caller' = [caller EXCEPT !.at = "send"]
  /\ UNCHANGED <<targets, clientVars, polling, watchdog, watchQueue, calls>>

\* Faulty variant: it is sent until the queue takes it.
WriteCoil_UntilSent ==
  /\ caller.at = "send" /\ Room
  /\ AddRequest([token |-> caller.token, slave |-> CoilServer, address |-> caller.coil,
                 value |-> caller.state])
  /\ caller' = [caller EXCEPT !.at = "watch"]
  /\ undone' = undone \ {caller.coil}
  /\ UNCHANGED <<targets, currentToken, server, power, coils, polling, watchdog, watchQueue,
                 script, switchedOn, asked>>

\* One attempt of setCoil; after the last one it returns the error.
WriteCoil ==
  /\ caller.at = "send"
  /\ AddRequest([token |-> caller.token, slave |-> CoilServer, address |-> caller.coil,
                 value |-> caller.state])
  /\ LET last == caller.attempt + 1 = MaxRetries
     IN /\ caller' = IF Room THEN [caller EXCEPT !.at = "watch"]
                     ELSE IF last THEN Free ELSE [caller EXCEPT !.attempt = @ + 1]
        /\ undone' = IF Room THEN undone \ {caller.coil}
                     ELSE IF last THEN undone \union {caller.coil} ELSE undone
  /\ UNCHANGED <<targets, currentToken, server, power, coils, polling, watchdog, watchQueue,
                 script, switchedOn, asked>>

\* The watchdog is told, unless its queue stays full.
EnqueueWatchdog ==
  /\ caller.at = "watch"
  /\ watchQueue' = IF Len(watchQueue) = WatchdogQueueSize THEN watchQueue
                   ELSE Append(watchQueue, [coil |-> caller.coil, state |-> caller.state])
  /\ caller' = Free
  /\ UNCHANGED <<targets, currentToken, clientVars, polling, watchdog, calls>>

Caller == SetCoil \/ StoreToken \/ WriteCoil \/ EnqueueWatchdog

-------------------------------------------------------------------------------
(* coilWatchdogTask                                                        *)

ReceiveWatch ==
  /\ watchdog.at = "free" /\ watchQueue # <<>>
  /\ watchdog' = [Free EXCEPT !.at = "check", !.coil = Head(watchQueue).coil,
                              !.state = Head(watchQueue).state]
  /\ watchQueue' = Tail(watchQueue)
  /\ UNCHANGED <<targets, currentToken, clientVars, polling, caller, calls>>

\* Faulty variant: it looks once more.
Exhausted_OneMore(retries) == retries > MaxRetries + 1

Exhausted(retries) == retries > MaxRetries

\* It gives up after MaxRetries further looks, or the cache has the value; else it
\* draws a token.
CheckCoil ==
  /\ watchdog.at = "check"
  /\ watchdog' = IF Exhausted(watchdog.retries) \/ coils[watchdog.coil] = watchdog.state
                 THEN Free ELSE LoadToken(watchdog)
  /\ UNCHANGED <<targets, currentToken, clientVars, polling, caller, watchQueue, calls>>

\* readCoil: the token, a further target, and the attempts to send its request.
ReadTarget == NewTarget("COIL_READ", CoilServer, watchdog.coil, watchdog.token)

\* addTarget: no target twice.  push_back may move the list.
AddTarget ==
  /\ watchdog.at = "store"
  /\ currentToken' = watchdog.token
  /\ IF \E i \in DOMAIN targets : /\ targets[i].type = "COIL_READ"
                                  /\ targets[i].token = watchdog.token
     THEN UNCHANGED <<targets, polling>>
     ELSE /\ targets' = Append(targets, ReadTarget)
          /\ polling' \in {polling, [polling EXCEPT !.moved = polling.next # 0]}
  /\ watchdog' = [watchdog EXCEPT !.at = "send", !.attempt = 0]
  /\ UNCHANGED <<clientVars, caller, watchQueue, calls>>

\* Faulty variant: only a request that was sent is a retry.
ReadCoil_CountsSent ==
  /\ watchdog.at = "send"
  /\ AddRequest(Request(ReadTarget, "read"))
  /\ watchdog' = IF Room THEN [watchdog EXCEPT !.at = "check", !.retries = @ + 1]
                 ELSE IF watchdog.attempt + 1 = MaxRetries THEN [watchdog EXCEPT !.at = "check"]
                 ELSE [watchdog EXCEPT !.attempt = @ + 1]
  /\ UNCHANGED <<targets, currentToken, server, power, coils, polling, caller, watchQueue,
                 calls>>

ReadCoil ==
  /\ watchdog.at = "send"
  /\ AddRequest(Request(ReadTarget, "read"))
  /\ watchdog' = IF Room \/ watchdog.attempt + 1 = MaxRetries
                 THEN [watchdog EXCEPT !.at = "check", !.retries = @ + 1]
                 ELSE [watchdog EXCEPT !.attempt = @ + 1]
  /\ UNCHANGED <<targets, currentToken, server, power, coils, polling, caller, watchQueue,
                 calls>>

CoilWatchdogTask == ReceiveWatch \/ CheckCoil \/ AddTarget \/ ReadCoil

-------------------------------------------------------------------------------
(* The Modbus client's worker                                              *)

Executed(r) == IF r.value \in CoilState THEN [server EXCEPT ![r.address] = r.value] ELSE server

\* validateAndProcessPowerData: a reading is parsed into the box of the target; an
\* answer about a coil is too short.
ProcessPowerData(meter, r) ==
  power' = IF r.address \in Coil THEN power ELSE [power EXCEPT ![meter] = r.slave]

\* processCoilSwitchResponse: the cache learns what a write has set.
ProcessCoilSwitchResponse(r) ==
  coils' = IF r.value \in CoilState THEN [coils EXCEPT ![r.address] = r.value] ELSE coils

\* The first target with this token; 0 for none.
TargetWith(token) == SelectInSeq(targets, LAMBDA t : t.token = token)

\* handleData: the first target with the token of the answer says what it is; any other
\* answer goes nowhere.
HandleData(r) ==
  LET i == TargetWith(r.token)
      type == IF i = 0 THEN "unknown" ELSE targets[i].type
  IN /\ IF type \in Meter THEN ProcessPowerData(type, r) ELSE UNCHANGED power
     /\ IF type = "SWITCH_CONTROL" THEN ProcessCoilSwitchResponse(r) ELSE UNCHANGED coils

\* The request is answered.
Answer ==
  /\ requests # <<>>
  /\ server' = Executed(Head(requests))
  /\ HandleData(Head(requests))
  /\ requests' = Tail(requests)
  /\ UNCHANGED <<targets, currentToken, polling, caller, watchdog, watchQueue, calls>>

IsWrite(r, c) == r.value \in CoilState /\ r.address = c
Lost == IF \E i \in 2..Len(requests) : IsWrite(requests[i], Head(requests).address)
        THEN {} ELSE {c \in Coil : IsWrite(Head(requests), c)}

\* An error or a timeout, before or after the server has done it (handleError), or an
\* answer too short to be parsed.
Fail ==
  /\ requests # <<>>
  /\ server' \in {server, Executed(Head(requests))}
  /\ undone' = undone \union Lost
  /\ requests' = Tail(requests)
  /\ UNCHANGED <<targets, currentToken, power, coils, polling, caller, watchdog, watchQueue,
                 script, switchedOn, asked>>

Next == \/ PollingTask
        \/ TriggerCoil \/ Caller \/ CoilWatchdogTask
        \/ Answer \/ Fail

Spec == Init /\ [][Next]_vars

\* Every task that can go on does; the network need never answer.
FairSpec == Spec /\ WF_vars(PollingTask) /\ WF_vars(Caller) /\ WF_vars(CoilWatchdogTask)
-------------------------------------------------------------------------------
At == {"free", "set", "store", "send", "watch", "check"}

TypeOK ==
  /\ targets \in Seq([type : Meter \union {"SWITCH_CONTROL", "COIL_READ"}, slave : 1..3,
                      address : Nat, token : Nat, last : CoilState \union {"unknown"}])
  /\ currentToken \in Nat
  /\ coils \in [Coil -> CoilState] /\ server \in [Coil -> CoilState]
  /\ power \in [Meter -> 0..2]
  /\ requests \in Seq([token : Nat, slave : 1..3, address : Nat,
                       value : CoilState \union {"read"}])
  /\ Len(requests) <= QueueLimit /\ Len(watchQueue) <= WatchdogQueueSize
  /\ polling \in [next : 0..Len(targets), end : 0..Len(targets), moved : BOOLEAN]
  /\ \A task \in {caller, watchdog} :
       task \in [at : At, coil : Coil, state : CoilState, token : Nat,
                 attempt : 0..MaxRetries, retries : 0..(MaxRetries + 1)]
  /\ script \in Seq([coil : Coil, state : CoilState]) /\ switchedOn \in Nat
  /\ asked \in [Coil -> CoilState \union {"unknown"}] /\ undone \subseteq Coil

\* What the server's coil will be when the writes under way are done.
WrittenTo(c) == LET writes == {i \in DOMAIN requests : IsWrite(requests[i], c)}
                IN IF writes = {} THEN server[c] ELSE requests[Max(writes)].value

\* Skipping a write whose value is remembered is right: between calls, a coil is or
\* will be in the state asked for last, unless its latest write was refused or lost,
\* when setCoil takes it for done all the same (setCoil).
AskedIsSet ==
  \A c \in Coil \ undone :
    asked[c] # "unknown" /\ (caller.coil = c => caller.at \in {"free", "watch"})
      => WrittenTo(c) = asked[c]

\* A coil set to ON leaves at most MaxRetries + 1 targets behind, and one set to OFF
\* none, whatever the queue refuses (coilWatchdogTask, readCoil): they are polled ever
\* after.
ReadsPerTrigger ==
  Len(targets) - Len(SwitchControls \o Meters) <= (MaxRetries + 1) * switchedOn

\* Both meters are polled again and again, although the queue may stay full and the
\* list moves under the iterator (pollingTask).
MetersArePolled ==
  \A i \in DOMAIN Meters :
    []<><<Poll /\ targets[polling.next] = Meters[i]>>_vars

\* TriggerCoil and the watchdog return, although the network never answers
\* (setCoil, coilWatchdogTask, readCoil).
TasksReturn == []<>(caller.at = "free") /\ []<>(watchdog.at = "free")

\* The answer to the poll of a meter is parsed into that meter's box, and a coil that
\* a write has set is known to the cache ("Find the matching target by token",
\* handleData, with what generateUniqueToken calls a unique token): false, since both
\* targets of main have token 0, and no write has the token of a switch target.
AnswersReachTheirTarget ==
  [][Answer =>
       LET r == Head(requests)
       IN /\ \A m \in Range(Meters) : r.address = m.address => power'[m.type] = r.slave
          /\ r.value \in CoilState => coils'[r.address] = r.value]_vars
===============================================================================
