----------------------------- MODULE Clients_proofs -----------------------------
(***************************************************************************)
(* Proofs about Clients, for any number of clients and messages and any    *)
(* length of the queue.                                                    *)
(***************************************************************************)
EXTENDS Clients, WellFoundedInduction, TLAPS

-------------------------------------------------------------------------------
(* The least member of a set of clients is one of them.                    *)

LEMMA LeastClient == ASSUME NEW S, S \subseteq Client, S # {}
                     PROVE  Min(S) \in S
<1>1. S \subseteq Nat  BY ClientsAssumption DEF Client
<1>2. \E x \in S : \A y \in S : ~ (<<y, x>> \in OpToRel(<, Nat))
  BY <1>1, WFMin, NatLessThanWellFounded
<1>3. PICK x \in S : \A y \in S : ~ (<<y, x>> \in OpToRel(<, Nat))  BY <1>2
<1>4. ASSUME NEW y \in S PROVE x =< y
  <2>1. x \in Nat /\ y \in Nat  BY <1>1
  <2>2. y < x => <<y, x>> \in OpToRel(<, Nat)  BY <2>1 DEF OpToRel
  <2>3. ~ (y < x)  BY <1>3, <2>2, Zenon
  <2> QED  BY <2>1, <2>3
<1> QED  BY <1>4 DEF Min

LEMMA CopyOfClients == ASSUME listed \subseteq Client, listMutex = "web" => web.client \in Client,
                              NEW S \in CopyOfList
                       PROVE  S \subseteq Client
BY DEF CopyOfList

LEMMA NextIsClient == ASSUME listed \subseteq Client, NEW c, NEW d \in NextListed(c)
                      PROVE  d \in Client \union {0}
<1>1. Behind(c) \subseteq Client  BY DEF Behind
<1>2. Behind(c) # {} => Min(Behind(c)) \in Client  BY <1>1, LeastClient
<1> QED  BY <1>1, <1>2 DEF NextListed

-------------------------------------------------------------------------------
(* Types.                                                                  *)

\* The messages on their way were sent, and an event in hand has its client.
OnTheWay ==
  /\ \A i \in DOMAIN queue : queue[i] \in sent
  /\ web.at \in {"setData", "enqueue"} => web.message \in sent
  /\ handler.at = "process" => handler.message \in sent
  /\ web.at # "idle" => web.client \in Client
  /\ listMutex = "web" => web.at \in {"insert", "disconnect"}

TypeInv == TypeOK /\ OnTheWay

WebType ==
  [at : {"idle", "connect", "setConnected", "insert", "attach", "disconnect",
         "clearConnected", "setDisconnected", "detach", "setData", "enqueue"},
   client : Client \union {0}, message : Messages \union {NoMessage}]

HandlerType ==
  [at : {"data", "drain", "process", "answer", "readings", "clients",
         "send", "drop", "notified", "leds"},
   client : Client \union {0}, message : Messages \union {NoMessage},
   left : SUBSET Client]

LEMMA InitTypes == Init => TypeInv
<1> SUFFICES ASSUME Init PROVE TypeInv  OBVIOUS
<1>1. QueueLength \in Nat /\ queue = <<>>  BY ClientsAssumption DEF Init
<1>2. queue \in Seq(Messages) /\ Len(queue) = 0 /\ DOMAIN queue = {}  BY <1>1
<1>3. web = [at |-> "idle", client |-> 0, message |-> NoMessage]  BY DEF Init, Idle
<1>4. OnTheWay  BY <1>2, <1>3 DEF Init, OnTheWay
<1>5. web \in WebType  BY <1>3 DEF WebType
<1>6. handler \in HandlerType  BY DEF Init, HandlerType
<1>7. /\ status \in [Client -> {"new", "open", "closing", "gone"}]
      /\ Len(queue) <= QueueLength
  BY <1>1, <1>2 DEF Init
<1>8. TypeOK  BY <1>2, <1>5, <1>6, <1>7 DEF Init, TypeOK, WebType, HandlerType
<1> QED  BY <1>4, <1>8 DEF TypeInv

LEMMA WebKeepsTypes ==
  TypeInv /\ (AsyncTCP \/ (\E c \in Client : Connect(c) \/ Close(c) \/ Disconnect(c))
              \/ (\E m \in Messages : ReceiveMessage(m))) => TypeInv'
<1> SUFFICES ASSUME TypeInv,
                    AsyncTCP \/ (\E c \in Client : Connect(c) \/ Close(c) \/ Disconnect(c))
                      \/ (\E m \in Messages : ReceiveMessage(m))
             PROVE  TypeInv'
  OBVIOUS
<1>a. TypeOK /\ OnTheWay  BY DEF TypeInv
<1>1. ASSUME NEW c \in Client, Connect(c) \/ Disconnect(c) PROVE TypeInv'
  BY <1>a, <1>1 DEF Connect, Disconnect, Idle, NoMessage,
         TypeInv, TypeOK, OnTheWay, webVars, handlerVars, Goto
<1>2. ASSUME NEW c \in Client, Close(c) PROVE TypeInv'
  BY <1>a, <1>2 DEF Close,
         TypeInv, TypeOK, OnTheWay, webVars, handlerVars, Goto
<1>3. ASSUME NEW m \in Messages, ReceiveMessage(m) PROVE TypeInv'
  BY <1>a, <1>3, ClientsAssumption DEF ReceiveMessage, Idle, NoMessage,
         TypeInv, TypeOK, OnTheWay, webVars, handlerVars, Goto
<1>4. CASE ClearDisconnected \/ SetConnected \/ ClearConnected \/ SetDisconnected \/ SetData
  BY <1>a, <1>4 DEF ClearDisconnected, SetConnected, ClearConnected, SetDisconnected, SetData,
         TypeInv, TypeOK, OnTheWay, webVars, handlerVars, Goto
<1>5. CASE TakeListMutex  BY <1>a, <1>5 DEF TakeListMutex,
         TypeInv, TypeOK, OnTheWay, webVars, handlerVars, Goto
<1>6. CASE UpdateClientList  BY <1>a, <1>6 DEF UpdateClientList,
         TypeInv, TypeOK, OnTheWay, webVars, handlerVars, Goto
<1>7. CASE AttachPing  BY <1>a, <1>7 DEF AttachPing, Idle, NoMessage,
         TypeInv, TypeOK, OnTheWay, webVars, handlerVars, Goto
<1>9. CASE DetachPing  BY <1>a, <1>9 DEF DetachPing, Idle, NoMessage,
         TypeInv, TypeOK, OnTheWay, webVars, handlerVars, Goto
<1>8. CASE Enqueue
  <2>1. web.message \in sent /\ web.message \in Messages
    BY <1>a, <1>8 DEF Enqueue, TypeOK, OnTheWay
  <2>2. CASE Len(queue) < QueueLength
    <3>1. queue' = Append(queue, web.message)  BY <1>8, <2>2 DEF Enqueue
    <3>2. /\ queue' \in Seq(Messages) /\ Len(queue') <= QueueLength
          /\ \A i \in DOMAIN queue' : queue'[i] \in sent
      BY <1>a, <2>1, <2>2, <3>1, ClientsAssumption DEF TypeOK, OnTheWay
    <3> QED  BY <1>a, <1>8, <2>2, <3>2 DEF Enqueue, Idle, NoMessage,
         TypeInv, TypeOK, OnTheWay, webVars, handlerVars, Goto
  <2>3. CASE ~ (Len(queue) < QueueLength)
    BY <1>a, <1>8, <2>1, <2>3 DEF Enqueue, Idle, NoMessage,
         TypeInv, TypeOK, OnTheWay, webVars, handlerVars, Goto
  <2> QED  BY <2>2, <2>3
<1> QED  BY <1>1, <1>2, <1>3, <1>4, <1>5, <1>6, <1>7, <1>8, <1>9 DEF AsyncTCP

\* wsDataHandler changes nothing of AsyncTCP's.
LEMMA HandlerTypes ==
  ASSUME TypeInv, UNCHANGED NotHandler,
         listed' \subseteq Client, listMutex' \in {listMutex, "free", "handler"},
         queue' \in Seq(Messages), Len(queue') <= QueueLength,
         \A i \in DOMAIN queue' : queue'[i] \in sent,
         handler' \in HandlerType, handler'.at = "process" => handler'.message \in sent,
         handled' \subseteq sent, newTest' \in BOOLEAN
  PROVE  TypeInv'
<1>1. UNCHANGED <<status, bits, pinged, web, sent, refused>>  BY DEF NotHandler, webVars
<1>2. TypeOK'  BY <1>1 DEF TypeInv, TypeOK, HandlerType
<1>3. OnTheWay'  BY <1>1 DEF TypeInv, OnTheWay
<1> QED  BY <1>2, <1>3 DEF TypeInv

\* The same, of a step that touches nothing but its own place.
LEMMA HandlerMoves ==
  ASSUME TypeInv, UNCHANGED <<NotHandler, listed, listMutex, queue, handled>>,
         handler' \in HandlerType, handler'.at = "process" => handler'.message \in sent,
         newTest' \in BOOLEAN
  PROVE  TypeInv'
<1>1. UNCHANGED NotHandler /\ UNCHANGED <<listed, listMutex, queue, handled>>
  OBVIOUS
<1>2. /\ listed \subseteq Client /\ queue \in Seq(Messages) /\ Len(queue) <= QueueLength
      /\ handled \subseteq sent /\ \A i \in DOMAIN queue : queue[i] \in sent
  BY DEF TypeInv, TypeOK, OnTheWay
<1> QED  BY <1>1, <1>2, HandlerTypes

LEMMA HandlerKeepsTypes == TypeInv /\ (WsDataHandler \/ NotifyNewTest) => TypeInv'
<1> SUFFICES ASSUME TypeInv, WsDataHandler \/ NotifyNewTest PROVE TypeInv'
  OBVIOUS
<1>a. TypeOK /\ OnTheWay  BY DEF TypeInv
<1>b. /\ handler \in HandlerType /\ newTest \in BOOLEAN /\ listed \subseteq Client
      /\ queue \in Seq(Messages) /\ Len(queue) <= QueueLength
      /\ handled \subseteq sent /\ sent \subseteq Messages
  BY <1>a DEF TypeOK, HandlerType
<1>c. /\ \A i \in DOMAIN queue : queue[i] \in sent
      /\ handler.at = "process" => handler.message \in sent
  BY <1>a DEF OnTheWay
<1>1. CASE NotifyNewTest
  BY <1>a, <1>1 DEF NotifyNewTest, TypeInv, TypeOK, OnTheWay, webVars, handlerVars
<1>2. CASE WaitData \/ AnswerClient \/ SendReadings
  <2>1. handler' \in HandlerType /\ handler'.at # "process"
    BY <1>b, <1>2 DEF WaitData, AnswerClient, SendReadings, HandlerGoto, HandlerType
  <2> QED  BY <1>b, <1>2, <2>1, HandlerMoves DEF WaitData, AnswerClient, SendReadings
<1>3. CASE ReceiveFromQueue
  <2>1. CASE queue = <<>>
    <3>1. handler' \in HandlerType /\ handler'.at # "process"
      BY <1>b, <1>3, <2>1 DEF ReceiveFromQueue, HandlerGoto, HandlerType
    <3> QED  BY <1>b, <1>3, <2>1, <3>1, HandlerMoves DEF ReceiveFromQueue
  <2>2. CASE queue # <<>>
    <3>1. /\ Len(queue) \in Nat \ {0} /\ DOMAIN queue = 1..Len(queue)
          /\ Tail(queue) \in Seq(Messages) /\ Len(Tail(queue)) = Len(queue) - 1
          /\ DOMAIN Tail(queue) = 1..(Len(queue) - 1)
          /\ \A i \in 1..(Len(queue) - 1) : Tail(queue)[i] = queue[i + 1]
          /\ Head(queue) = queue[1]
      BY <1>b, <2>2
    <3>2. \A i \in DOMAIN Tail(queue) : i + 1 \in DOMAIN queue  BY <3>1
    <3>3. \A i \in DOMAIN Tail(queue) : Tail(queue)[i] \in sent  BY <1>c, <3>1, <3>2
    <3>4. Len(Tail(queue)) <= QueueLength  BY <1>b, <3>1, ClientsAssumption
    <3>5. Head(queue) \in sent /\ Head(queue) \in Messages  BY <1>b, <1>c, <3>1
    <3>6. /\ handler' = [handler EXCEPT !.at = "process", !.message = Head(queue)]
          /\ queue' = Tail(queue)
          /\ UNCHANGED <<NotHandler, listed, listMutex, handled, newTest>>
      BY <1>3, <2>2 DEF ReceiveFromQueue
    <3>7. handler' \in HandlerType /\ handler'.message = Head(queue)
      BY <1>b, <3>5, <3>6 DEF HandlerType
    <3> QED  BY <1>b, <3>1, <3>3, <3>4, <3>5, <3>6, <3>7, HandlerTypes
  <2> QED  BY <2>1, <2>2
<1>4. CASE ProcessWsMessage
  <2>1. handler' \in HandlerType /\ handler'.at # "process"
    BY <1>b, <1>4 DEF ProcessWsMessage, HandlerGoto, HandlerAt, HandlerType
  <2>2. handled' \subseteq sent
    BY <1>b, <1>c, <1>4 DEF ProcessWsMessage, HandlerAt
  <2>3. UNCHANGED <<NotHandler, listed, listMutex, queue, newTest>>
    BY <1>4 DEF ProcessWsMessage
  <2> QED  BY <1>b, <1>c, <2>1, <2>2, <2>3, HandlerTypes
<1>5. CASE WaitReadings
  <2>1. \A S \in CopyOfList : S \subseteq Client
    BY <1>a, CopyOfClients DEF TypeOK, OnTheWay
  <2>2. handler' \in HandlerType /\ handler'.at # "process"
    BY <1>b, <1>5, <2>1 DEF WaitReadings, HandlerGoto, HandlerType
  <2> QED  BY <1>b, <1>5, <2>2, HandlerMoves DEF WaitReadings
<1>6. CASE LookAtClient
  <2>1. handler.left \subseteq Client  BY <1>b DEF HandlerType
  <2>2. handler.left # {} => Min(handler.left) \in Client  BY <2>1, LeastClient
  <2>3. \/ handler' = [handler EXCEPT !.at = "notified"]
        \/ \E c \in Client :
             handler' = [handler EXCEPT !.client = c, !.left = @ \ {c},
                                        !.at = IF status[c] = "open" THEN "send" ELSE "drop"]
    BY <1>6, <2>2, Zenon DEF LookAtClient, HandlerGoto
  <2>4. handler' \in HandlerType /\ handler'.at # "process"
    <3>1. CASE handler' = [handler EXCEPT !.at = "notified"]
      BY <1>b, <3>1 DEF HandlerType
    <3>2. ASSUME NEW c \in Client,
                 handler' = [handler EXCEPT !.client = c, !.left = @ \ {c},
                                !.at = IF status[c] = "open" THEN "send" ELSE "drop"]
          PROVE  handler' \in HandlerType /\ handler'.at # "process"
      <4>1. handler.left \ {c} \in SUBSET Client  BY <2>1
      <4> QED  BY <1>b, <3>2, <4>1 DEF HandlerType
    <3> QED  BY <2>3, <3>1, <3>2
  <2>5. UNCHANGED <<NotHandler, listed, listMutex, queue, handled, newTest>>
    BY <1>6, Zenon DEF LookAtClient
  <2> QED  BY <1>b, <2>4, <2>5, HandlerMoves
<1>7. CASE TakeListMutexToDrop
  <2>1. /\ UNCHANGED <<NotHandler, listed, queue, handler, handled, newTest>>
        /\ listMutex' = "handler" /\ handler.at = "drop"
    BY <1>7 DEF TakeListMutexToDrop, handlerVars, HandlerAt
  <2> QED  BY <1>b, <1>c, <2>1, HandlerTypes
<1>8. CASE DropClient
  <2>1. /\ handler' = [handler EXCEPT !.at = "clients", !.client = 0]
        /\ listed' = listed \ {handler.client} /\ listMutex' = "free"
        /\ UNCHANGED <<NotHandler, queue, handled, newTest>>
    BY <1>8 DEF DropClient
  <2>2. handler' \in HandlerType /\ handler'.at # "process"
    BY <1>b, <2>1 DEF HandlerType
  <2> QED  BY <1>b, <1>c, <2>1, <2>2, HandlerTypes
<1>9. CASE TaskNotifyWait \/ SendLedStatus
  <2>1. \A c : \A d \in NextListed(c) : d \in Client \union {0}
    BY <1>b, NextIsClient
  <2>2. CASE TaskNotifyWait
    <3>1. handler' \in HandlerType /\ handler'.at # "process" /\ newTest' = FALSE
      BY <1>b, <2>1, <2>2 DEF TaskNotifyWait, HandlerGoto, HandlerType
    <3> QED  BY <2>2, <3>1, HandlerMoves DEF TaskNotifyWait
  <2>3. CASE SendLedStatus
    <3>1. handler' \in HandlerType /\ handler'.at # "process"
      BY <1>b, <2>1, <2>3 DEF SendLedStatus, HandlerType
    <3> QED  BY <1>b, <2>3, <3>1, HandlerMoves DEF SendLedStatus
  <2> QED  BY <1>9, <2>2, <2>3
<1> QED  BY <1>1, <1>2, <1>3, <1>4, <1>5, <1>6, <1>7, <1>8, <1>9 DEF WsDataHandler

\* Every variable of the clients keeps its type, whatever the queue and the
\* bits come to, and what is handled or refused was sent (onWsEvent, wsDataHandler).
THEOREM ClientsHaveTypes == Spec => []TypeOK
<1>1. TypeInv /\ UNCHANGED vars => TypeInv'
  BY DEF TypeInv, TypeOK, OnTheWay, vars, webVars, handlerVars
<1>2. TypeInv /\ [Next]_vars => TypeInv'
  BY <1>1, WebKeepsTypes, HandlerKeepsTypes DEF Next
<1>3. TypeInv => TypeOK  BY DEF TypeInv
<1> QED  BY InitTypes, <1>2, <1>3, PTL DEF Spec

-------------------------------------------------------------------------------
(* The list and the timer.                                                 *)

\* What holds of the list between the steps of an event: a client that is connected
\* is in it or about to be inserted; the one being taken out is closing, and is out
\* before it is deleted; what wsDataHandler may drop is closing or gone.
ListInv ==
  /\ web.at \in {"connect", "setConnected", "insert", "attach"}
       => status[web.client] \in {"open", "closing"}
  /\ web.at \in {"disconnect", "clearConnected", "setDisconnected", "detach"}
       => status[web.client] = "closing"
  /\ web.at \in {"clearConnected", "setDisconnected", "detach"} => web.client \notin listed
  /\ \A c \in Client :
       /\ status[c] = "open"
            => \/ c \in listed
               \/ web.at \in {"connect", "setConnected", "insert"} /\ c = web.client
       /\ status[c] = "gone" => c \notin listed
       /\ c \in listed \union handler.left => status[c] # "new"
  /\ handler.at = "drop"
       => handler.client \in Client /\ status[handler.client] \in {"closing", "gone"}

PingInv == pinged # 0 => status[pinged] \in {"open", "closing"}

ClientsInv == TypeInv /\ ListInv /\ PingInv

LEMMA InitList == Init => ListInv /\ PingInv
BY DEF Init, Idle, ListInv, PingInv

LEMMA WebKeepsList ==
  ClientsInv /\ (AsyncTCP \/ (\E c \in Client : Connect(c) \/ Close(c) \/ Disconnect(c))
                 \/ (\E m \in Messages : ReceiveMessage(m))) => ListInv' /\ PingInv'
<1> SUFFICES ASSUME ClientsInv,
                    AsyncTCP \/ (\E c \in Client : Connect(c) \/ Close(c) \/ Disconnect(c))
                      \/ (\E m \in Messages : ReceiveMessage(m))
             PROVE  ListInv' /\ PingInv'
  OBVIOUS
<1>a. /\ ListInv /\ PingInv
      /\ status \in [Client -> {"new", "open", "closing", "gone"}]
      /\ listed \subseteq Client /\ pinged \in Client \union {0}
      /\ web \in WebType /\ handler \in HandlerType
      /\ web.at # "idle" => web.client \in Client
  BY DEF ClientsInv, TypeInv, TypeOK, OnTheWay, WebType, HandlerType
<1>b. 0 \notin Client  BY ClientsAssumption DEF Client
<1>1. ASSUME NEW c \in Client, Connect(c) PROVE ListInv' /\ PingInv'
  BY <1>a, <1>b, <1>1 DEF Connect, Idle, ListInv, PingInv, HandlerType, handlerVars
<1>2. ASSUME NEW c \in Client, Close(c) PROVE ListInv' /\ PingInv'
  BY <1>a, <1>b, <1>2 DEF Close, ListInv, PingInv, webVars, handlerVars
<1>3. ASSUME NEW c \in Client, Disconnect(c) PROVE ListInv' /\ PingInv'
  BY <1>a, <1>b, <1>3 DEF Disconnect, Idle, ListInv, PingInv, handlerVars
<1>4. ASSUME NEW m \in Messages, ReceiveMessage(m) PROVE ListInv' /\ PingInv'
  BY <1>a, <1>4 DEF ReceiveMessage, Idle, ListInv, PingInv, handlerVars
<1>5. CASE ClearDisconnected \/ SetConnected
  BY <1>a, <1>5 DEF ClearDisconnected, SetConnected, Goto, WebType,
                    ListInv, PingInv, handlerVars
<1>6. CASE ClearConnected \/ SetDisconnected \/ SetData
  BY <1>a, <1>6 DEF ClearConnected, SetDisconnected, SetData, Goto, WebType,
                    ListInv, PingInv, handlerVars
<1>7. CASE TakeListMutex
  BY <1>a, <1>7 DEF TakeListMutex, ListInv, PingInv, webVars, handlerVars
<1>8. CASE UpdateClientList
  BY <1>a, <1>8 DEF UpdateClientList, Goto, WebType, ListInv, PingInv, handlerVars
<1>9. CASE AttachPing
  BY <1>a, <1>9 DEF AttachPing, Idle, ListInv, PingInv, handlerVars
<1>10. CASE DetachPing
  BY <1>a, <1>10 DEF DetachPing, Idle, ListInv, PingInv, handlerVars
<1>11. CASE Enqueue
  BY <1>a, <1>11 DEF Enqueue, Idle, ListInv, PingInv, handlerVars
<1> QED  BY <1>1, <1>2, <1>3, <1>4, <1>5, <1>6, <1>7, <1>8, <1>9, <1>10, <1>11 DEF AsyncTCP

\* A step of wsDataHandler that leaves the list alone, takes up only clients that are
\* or were connected, and drops only one that is not.
LEMMA HandlerKeepsListed ==
  ASSUME ListInv, PingInv, UNCHANGED <<NotHandler, listed>>,
         \A c \in handler'.left : c \in handler.left \/ status[c] # "new",
         handler'.left \subseteq Client,
         handler'.at = "drop" =>
           handler'.client \in Client /\ status[handler'.client] \in {"closing", "gone"}
  PROVE  ListInv' /\ PingInv'
<1>1. UNCHANGED <<status, web, pinged, listed>>  BY DEF NotHandler, webVars
<1> QED  BY <1>1 DEF ListInv, PingInv

LEMMA HandlerKeepsList ==
  ClientsInv /\ (WsDataHandler \/ NotifyNewTest) => ListInv' /\ PingInv'
<1> SUFFICES ASSUME ClientsInv, WsDataHandler \/ NotifyNewTest PROVE ListInv' /\ PingInv'
  OBVIOUS
<1>a. /\ ListInv /\ PingInv
      /\ status \in [Client -> {"new", "open", "closing", "gone"}]
      /\ listed \subseteq Client /\ handler \in HandlerType
      /\ listMutex = "web" => web.client \in Client /\ web.at \in {"insert", "disconnect"}
  BY DEF ClientsInv, TypeInv, TypeOK, OnTheWay, HandlerType
<1>b. handler.left \subseteq Client  BY <1>a DEF HandlerType
<1>1. CASE NotifyNewTest
  BY <1>a, <1>1 DEF NotifyNewTest, ListInv, PingInv, webVars, handlerVars
<1>2. CASE WaitData \/ AnswerClient \/ SendReadings \/ ProcessWsMessage
  <2>1. handler'.left = handler.left /\ handler'.at # "drop"
    BY <1>a, <1>2 DEF WaitData, AnswerClient, SendReadings, ProcessWsMessage,
                      HandlerGoto, HandlerType
  <2>2. UNCHANGED <<NotHandler, listed>>
    BY <1>2 DEF WaitData, AnswerClient, SendReadings, ProcessWsMessage
  <2> QED  BY <1>a, <1>b, <2>1, <2>2, HandlerKeepsListed
<1>3. CASE ReceiveFromQueue
  <2>1. handler'.left = handler.left /\ handler'.at # "drop"
    BY <1>a, <1>3 DEF ReceiveFromQueue, HandlerGoto, HandlerType
  <2>2. UNCHANGED <<NotHandler, listed>>  BY <1>3 DEF ReceiveFromQueue
  <2> QED  BY <1>a, <1>b, <2>1, <2>2, HandlerKeepsListed
<1>4. CASE WaitReadings
  <2>1. \A S \in CopyOfList : S \subseteq Client /\ \A c \in S : status[c] # "new"
    BY <1>a DEF CopyOfList, ListInv
  <2>2. /\ handler'.left = handler.left \/ handler'.left \in CopyOfList
        /\ handler'.at # "drop"
    BY <1>a, <1>4 DEF WaitReadings, HandlerGoto, HandlerType
  <2>3. UNCHANGED <<NotHandler, listed>>  BY <1>4 DEF WaitReadings
  <2> QED  BY <1>a, <1>b, <2>1, <2>2, <2>3, HandlerKeepsListed
<1>5. CASE LookAtClient
  <2>1. handler.left # {} => Min(handler.left) \in handler.left  BY <1>b, LeastClient
  <2>2. \/ handler' = [handler EXCEPT !.at = "notified"]
        \/ \E c \in handler.left :
             handler' = [handler EXCEPT !.client = c, !.left = @ \ {c},
                                        !.at = IF status[c] = "open" THEN "send" ELSE "drop"]
    BY <1>5, <2>1, Zenon DEF LookAtClient, HandlerGoto
  <2>3. /\ handler'.left \subseteq handler.left
        /\ handler'.at = "drop" =>
             handler'.client \in Client /\ status[handler'.client] \in {"closing", "gone"}
    <3>1. CASE handler' = [handler EXCEPT !.at = "notified"]
      BY <1>a, <3>1 DEF HandlerType
    <3>2. ASSUME NEW c \in handler.left,
                 handler' = [handler EXCEPT !.client = c, !.left = @ \ {c},
                                !.at = IF status[c] = "open" THEN "send" ELSE "drop"]
          PROVE  /\ handler'.left \subseteq handler.left
                 /\ handler'.at = "drop" =>
                      /\ handler'.client \in Client
                      /\ status[handler'.client] \in {"closing", "gone"}
      <4>1. /\ handler'.left = handler.left \ {c} /\ handler'.client = c
            /\ handler'.at = IF status[c] = "open" THEN "send" ELSE "drop"
        BY <1>a, <3>2 DEF HandlerType
      <4>2. c \in Client /\ status[c] # "new"  BY <1>a, <1>b DEF ListInv
      <4> QED  BY <1>a, <4>1, <4>2
    <3> QED  BY <2>2, <3>1, <3>2
  <2>4. UNCHANGED <<NotHandler, listed>>  BY <1>5, Zenon DEF LookAtClient
  <2> QED  BY <1>a, <1>b, <2>3, <2>4, HandlerKeepsListed
<1>6. CASE TakeListMutexToDrop
  BY <1>a, <1>6 DEF TakeListMutexToDrop, ListInv, PingInv, NotHandler, webVars, handlerVars
<1>7. CASE DropClient
  <2>1. /\ handler.at = "drop" /\ listed' = listed \ {handler.client}
        /\ handler'.left = handler.left /\ handler'.at = "clients"
        /\ UNCHANGED <<status, web, pinged>>
    BY <1>a, <1>7 DEF DropClient, HandlerAt, HandlerType, NotHandler, webVars
  <2> QED  BY <1>a, <2>1 DEF ListInv, PingInv
<1>8. CASE TaskNotifyWait \/ SendLedStatus
  <2>1. handler'.left = handler.left /\ handler'.at # "drop"
    BY <1>a, <1>8 DEF TaskNotifyWait, SendLedStatus, HandlerGoto, HandlerType
  <2>2. UNCHANGED <<NotHandler, listed>>  BY <1>8 DEF TaskNotifyWait, SendLedStatus
  <2> QED  BY <1>a, <1>b, <2>1, <2>2, HandlerKeepsListed
<1> QED  BY <1>1, <1>2, <1>3, <1>4, <1>5, <1>6, <1>7, <1>8 DEF WsDataHandler

LEMMA ClientsInvHolds == Spec => []ClientsInv
<1>1. Init => ClientsInv  BY InitTypes, InitList DEF ClientsInv
<1>2. ClientsInv /\ UNCHANGED vars => ClientsInv'
  BY DEF ClientsInv, ListInv, PingInv, TypeInv, TypeOK, OnTheWay, vars, webVars, handlerVars
<1>3. ClientsInv /\ Next => ClientsInv'
  BY WebKeepsTypes, HandlerKeepsTypes, WebKeepsList, HandlerKeepsList DEF ClientsInv, Next
<1> QED  BY <1>1, <1>2, <1>3, PTL DEF Spec

\* Between two events every connected client is in the list and no deleted one is,
\* whatever wsDataHandler drops meanwhile from its old copy (onWsEvent,
\* updateClientList, wsDataHandler).
THEOREM ListKeepsStep == Spec => []ListInStep
<1>1. ClientsInv => ListInStep  BY DEF ClientsInv, ListInv, ListInStep
<1> QED  BY <1>1, ClientsInvHolds, PTL

\* The client the timer points to was not deleted, in whatever order clients come,
\* close and leave (onWsEvent, sendPing).
THEOREM PingsExistingClient == Spec => []PingedClientExists
<1>1. ClientsInv => PingedClientExists  BY DEF ClientsInv, PingInv, PingedClientExists
<1> QED  BY <1>1, ClientsInvHolds, PTL

===============================================================================
