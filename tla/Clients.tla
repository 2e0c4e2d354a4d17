------------------------------- MODULE Clients -------------------------------
(***************************************************************************)
(* The browsers behind the WebSocket.  AsyncTCP handles their events       *)
(* (TestServer::onWsEvent): who is connected, which of them is pinged, and *)
(* what they say.  wsDataHandler, a task of its own, takes their messages  *)
(* from a queue and sends everybody the readings, once a second            *)
(* (DataHandler).  They share the list of clients, whose mutex only        *)
(* updateClientList takes, the bits of wsClientEventGroup, and the queue.  *)
(*                                                                         *)
(* Left out: the readings and the LEDs themselves; the bits of             *)
(* wsClientUpdateEventGroup, which nobody reads; websocketMutex, which     *)
(* only wsDataHandler takes; sendPing, which changes nothing.  A connected *)
(* client is numbered in the order of its coming, and never comes back     *)
(* under its number.                                                       *)
(***************************************************************************)
EXTENDS Integers, Sequences, FiniteSetsExt

CONSTANTS MaxClients,  \* bound: how many clients ever connect
          Messages,    \* bound: the messages they may send, each once
          QueueLength  \* WebsocketDataQueue, 20

Client == 1..MaxClients

ASSUME ClientsAssumption ==
  /\ MaxClients \in Nat /\ QueueLength \in Nat \ {0}
  /\ Messages \subseteq [from : Client, command : {"getReadings", "START", "invalid"}]

VARIABLES
  status,    \* per client: "new", "open" (WS_CONNECTED), "closing", "gone" (deleted)
  bits,      \* wsClientEventGroup
  listed,    \* connectedClients
  listMutex, \* clientListMutex: its holder
  pinged,    \* the client pingTimer is attached to, 0 for none
  web,       \* AsyncTCP: the event in hand, where its handler is
  sent,      \* the messages that were sent
  refused,   \* history: those that found the queue full for too long
  queue,     \* WebsocketDataQueue
  handler,   \* wsDataHandler: where it is, the message or client in hand, those left
  handled,   \* history: the messages processed
  newTest    \* a notification NEW_TEST is pending for wsDataHandler

webVars     == <<pinged, web, sent, refused>>
handlerVars == <<handler, handled>>
vars == <<status, bits, listed, listMutex, webVars, queue, handlerVars, newTest>>

NoMessage == [from |-> 0, command |-> "invalid"]
Idle == [at |-> "idle", client |-> 0, message |-> NoMessage]

Init == /\ status = [c \in Client |-> "new"]
        /\ bits = {} /\ listed = {} /\ listMutex = "free"
        /\ pinged = 0 /\ web = Idle /\ sent = {} /\ refused = {}
        /\ queue = <<>>
        /\ handler = [at |-> "data", client |-> 0, message |-> NoMessage, left |-> {}]
        /\ handled = {} /\ newTest = FALSE

\* Faulty variant: a task waits for its own bit and no other.
Awaited_OwnBit(bit) == bit \in bits

\* xEventGroupWaitBits returns all bits of the group, whether the one waited for
\* came or the time was over, and every caller asks whether it returned any.
Awaited(bit) == bits # {}

-------------------------------------------------------------------------------
Goto(at) == web' = [web EXCEPT !.at = at]

\* WS_EVT_CONNECT: the bits, the list, the ping timer.
Connect(c) ==
  /\ web.at = "idle"
  /\ status[c] = "new" /\ \A b \in 1..(c - 1) : status[b] # "new"
  /\ status' = [status EXCEPT ![c] = "open"]
  /\ web' = [Idle EXCEPT !.at = "connect", !.client = c]
  /\ UNCHANGED <<bits, listed, listMutex, pinged, sent, refused, queue, handlerVars, newTest>>

ClearDisconnected ==
  /\ web.at = "connect"
  /\ bits' = bits \ {"DISCONNECTED"}
  /\ Goto("setConnected")
  /\ UNCHANGED <<status, listed, listMutex, pinged, sent, refused, queue, handlerVars, newTest>>

SetConnected ==
  /\ web.at = "setConnected"
  /\ bits' = bits \union {"CONNECTED"}
  /\ Goto("insert")
  /\ UNCHANGED <<status, listed, listMutex, pinged, sent, refused, queue, handlerVars, newTest>>

\* updateClientList: the mutex is taken, the set is changed, the mutex is given.
TakeListMutex ==
  /\ web.at \in {"insert", "disconnect"}
  /\ listMutex = "free"
  /\ listMutex' = "web"
  /\ UNCHANGED <<status, bits, listed, webVars, queue, handlerVars, newTest>>

UpdateClientList ==
  /\ web.at \in {"insert", "disconnect"}
  /\ listMutex = "web"
  /\ listed' = IF web.at = "insert" THEN listed \union {web.client}
                                    ELSE listed \ {web.client}
  /\ listMutex' = "free"
  /\ Goto(IF web.at = "insert" THEN "attach" ELSE "clearConnected")
  /\ UNCHANGED <<status, bits, pinged, sent, refused, queue, handlerVars, newTest>>

AttachPing ==
  /\ web.at = "attach"
  /\ pinged' = IF pinged = 0 THEN web.client ELSE pinged
  /\ web' = Idle
  /\ UNCHANGED <<status, bits, listed, listMutex, sent, refused, queue, handlerVars, newTest>>

\* The browser, or cleanupClients when there are too many, begins to close.
Close(c) ==
  /\ status[c] = "open"
  /\ status' = [status EXCEPT ![c] = "closing"]
  /\ UNCHANGED <<bits, listed, listMutex, webVars, queue, handlerVars, newTest>>

\* WS_EVT_DISCONNECT: the list, the bits, the ping timer.  The client is deleted
\* when its handler is through.
Disconnect(c) ==
  /\ web.at = "idle"
  /\ status[c] \in {"open", "closing"}
  /\ status' = [status EXCEPT ![c] = "closing"]
  /\ web' = [Idle EXCEPT !.at = "disconnect", !.client = c]
  /\ UNCHANGED <<bits, listed, listMutex, pinged, sent, refused, queue, handlerVars, newTest>>

ClearConnected ==
  /\ web.at = "clearConnected"
  /\ bits' = bits \ {"CONNECTED"}
  /\ Goto("setDisconnected")
  /\ UNCHANGED <<status, listed, listMutex, pinged, sent, refused, queue, handlerVars, newTest>>

SetDisconnected ==
  /\ web.at = "setDisconnected"
  /\ bits' = bits \union {"DISCONNECTED"}
  /\ Goto("detach")
  /\ UNCHANGED <<status, listed, listMutex, pinged, sent, refused, queue, handlerVars, newTest>>

\* Faulty variant: the timer is detached with the last client.
DetachPing_WithLast ==
  /\ web.at = "detach"
  /\ pinged' = IF listed = {} THEN 0 ELSE pinged
  /\ status' = [status EXCEPT ![web.client] = "gone"]
  /\ web' = Idle
  /\ UNCHANGED <<bits, listed, listMutex, sent, refused, queue, handlerVars, newTest>>

\* The timer is detached whoever has left.
DetachPing ==
  /\ web.at = "detach"
  /\ pinged' = 0
  /\ status' = [status EXCEPT ![web.client] = "gone"]
  /\ web' = Idle
  /\ UNCHANGED <<bits, listed, listMutex, sent, refused, queue, handlerVars, newTest>>

\* WS_EVT_DATA: a second for CONNECTED, which nobody else sets meanwhile; else the
\* client is told of a timeout.
ReceiveMessage(m) ==
  /\ web.at = "idle"
  /\ m \in Messages \ sent /\ status[m.from] = "open"
  /\ sent' = sent \union {m}
  /\ web' = IF Awaited("CONNECTED")
            THEN [at |-> "setData", client |-> m.from, message |-> m] ELSE Idle
  /\ UNCHANGED <<status, bits, listed, listMutex, pinged, refused, queue, handlerVars, newTest>>

SetData ==
  /\ web.at = "setData"
  /\ bits' = bits \union {"DATA"}
  /\ Goto("enqueue")
  /\ UNCHANGED <<status, listed, listMutex, pinged, sent, refused, queue, handlerVars, newTest>>

\* Faulty variant: a full queue takes another message.
Enqueue_Always ==
  /\ web.at = "enqueue"
  /\ queue' = Append(queue, web.message)
  /\ web' = Idle
  /\ UNCHANGED <<status, bits, listed, listMutex, pinged, sent, refused, handlerVars, newTest>>

\* xQueueSend: a full queue may stay full for as long as it waits.
Enqueue ==
  /\ web.at = "enqueue"
  /\ IF Len(queue) < QueueLength
     THEN queue' = Append(queue, web.message) /\ UNCHANGED refused
     ELSE refused' = refused \union {web.message} /\ UNCHANGED queue
  /\ web' = Idle
  /\ UNCHANGED <<status, bits, listed, listMutex, pinged, sent, handlerVars, newTest>>

\* The handler of an event that has come.
AsyncTCP == \/ ClearDisconnected \/ SetConnected \/ TakeListMutex \/ UpdateClientList
            \/ AttachPing \/ ClearConnected \/ SetDisconnected \/ DetachPing
            \/ SetData \/ Enqueue

\* userUpdateTask has a new test (xTaskNotify).
NotifyNewTest ==
  /\ ~newTest /\ newTest' = TRUE
  /\ UNCHANGED <<status, bits, listed, listMutex, webVars, queue, handlerVars>>

-------------------------------------------------------------------------------
HandlerAt(at) == handler.at = at
HandlerGoto(at) == handler' = [handler EXCEPT !.at = at]
NotHandler == <<status, bits, webVars>>

\* A round begins: are there DATA?
WaitData ==
  /\ HandlerAt("data")
  /\ HandlerGoto(IF Awaited("DATA") THEN "drain" ELSE "readings")
  /\ UNCHANGED <<NotHandler, listed, listMutex, queue, handled, newTest>>

ReceiveFromQueue ==
  /\ HandlerAt("drain")
  /\ IF queue = <<>>
     THEN HandlerGoto("readings") /\ UNCHANGED queue
     ELSE /\ handler' = [handler EXCEPT !.at = "process", !.message = Head(queue)]
          /\ queue' = Tail(queue)
  /\ UNCHANGED <<NotHandler, listed, listMutex, handled, newTest>>

\* processWsMessage: a command is handed on, and its client then told; any other
\* message is only logged.
ProcessWsMessage ==
  /\ HandlerAt("process")
  /\ handled' = handled \union {handler.message}
  /\ IF handler.message.command = "START"
     THEN HandlerGoto("answer")
     ELSE handler' = [handler EXCEPT !.at = "drain", !.message = NoMessage]
  /\ UNCHANGED <<NotHandler, listed, listMutex, queue, newTest>>

\* sendData to the client the message came from, by a pointer that was stored with
\* the message: of a client that is gone, whatever was in its place is read.
AnswerClient ==
  /\ HandlerAt("answer")
  /\ handler' = [handler EXCEPT !.at = "drain", !.message = NoMessage]
  /\ UNCHANGED <<NotHandler, listed, listMutex, queue, handled, newTest>>

\* The list is copied without its mutex: while AsyncTCP changes it, any part of it
\* may be missed, or found.
CopyOfList == IF listMutex = "web" THEN SUBSET (listed \union {web.client}) ELSE {listed}

WaitReadings ==
  /\ HandlerAt("readings")
  /\ IF Awaited("GET_READING")
     THEN \E s \in CopyOfList : handler' = [handler EXCEPT !.at = "clients", !.left = s]
     ELSE HandlerGoto("notified")
  /\ UNCHANGED <<NotHandler, listed, listMutex, queue, handled, newTest>>

\* The next client of the copy: is it still connected?
LookAtClient ==
  /\ HandlerAt("clients")
  /\ IF handler.left = {}
     THEN HandlerGoto("notified")
     ELSE LET c == Min(handler.left)
          IN handler' = [handler EXCEPT !.client = c, !.left = @ \ {c},
                                        !.at = IF status[c] = "open" THEN "send" ELSE "drop"]
  /\ UNCHANGED <<NotHandler, listed, listMutex, queue, handled, newTest>>

\* sendData looks again, and sends.
SendReadings ==
  /\ HandlerAt("send")
  /\ handler' = [handler EXCEPT !.at = "clients", !.client = 0]
  /\ UNCHANGED <<NotHandler, listed, listMutex, queue, handled, newTest>>

\* updateClientList(clientId, false)
TakeListMutexToDrop ==
  /\ HandlerAt("drop")
  /\ listMutex = "free"
  /\ listMutex' = "handler"
  /\ UNCHANGED <<NotHandler, listed, queue, handlerVars, newTest>>

\* Faulty variant: the list is replaced by what is left of the copy.
DropClient_WriteBack ==
  /\ HandlerAt("drop")
  /\ listMutex = "handler"
  /\ listed' = handler.left
  /\ listMutex' = "free"
  /\ handler' = [handler EXCEPT !.at = "clients", !.client = 0]
  /\ UNCHANGED <<NotHandler, queue, handled, newTest>>

DropClient ==
  /\ HandlerAt("drop")
  /\ listMutex = "handler"
  /\ listed' = listed \ {handler.client}
  /\ listMutex' = "free"
  /\ handler' = [handler EXCEPT !.at = "clients", !.client = 0]
  /\ UNCHANGED <<NotHandler, queue, handled, newTest>>

\* A notification of a new test: every client is sent the LEDs.  This loop is over
\* the list itself.  Where the element it stands on is erased, or the list is
\* being changed, it may go on anywhere behind, or end.
Behind(c) == {d \in listed : d > c}
NextListed(c) == IF listMutex = "web" \/ (c # 0 /\ c \notin listed)
                 THEN Behind(c) \union {0}
                 ELSE IF Behind(c) = {} THEN {0} ELSE {Min(Behind(c))}

TaskNotifyWait ==
  /\ HandlerAt("notified")
  /\ newTest' = FALSE
  /\ IF newTest THEN \E c \in NextListed(0) :
                       handler' = [handler EXCEPT !.at = IF c = 0 THEN "data" ELSE "leds",
                                                  !.client = c]
                ELSE HandlerGoto("data")
  /\ UNCHANGED <<NotHandler, listed, listMutex, queue, handled>>

SendLedStatus ==
  /\ HandlerAt("leds")
  /\ \E c \in NextListed(handler.client) :
       handler' = [handler EXCEPT !.at = IF c = 0 THEN "data" ELSE "leds", !.client = c]
  /\ UNCHANGED <<NotHandler, listed, listMutex, queue, handled, newTest>>

WsDataHandler == \/ WaitData \/ ReceiveFromQueue \/ ProcessWsMessage \/ AnswerClient
                 \/ WaitReadings \/ LookAtClient \/ SendReadings \/ TakeListMutexToDrop
                 \/ DropClient \/ TaskNotifyWait \/ SendLedStatus

Next == \/ \E c \in Client : Connect(c) \/ Close(c) \/ Disconnect(c)
        \/ \E m \in Messages : ReceiveMessage(m)
        \/ AsyncTCP
        \/ NotifyNewTest
        \/ WsDataHandler

Spec == Init /\ [][Next]_vars

\* Both tasks end their rounds, and a mutex is never kept: the scheduler runs them.
\* The browsers need do nothing.
FairSpec == Spec /\ WF_vars(AsyncTCP) /\ WF_vars(WsDataHandler)
-------------------------------------------------------------------------------
TypeOK ==
  /\ status \in [Client -> {"new", "open", "closing", "gone"}]
  /\ bits \subseteq {"CONNECTED", "DISCONNECTED", "DATA"}
  /\ listed \subseteq Client /\ listMutex \in {"free", "web", "handler"}
  /\ pinged \in Client \union {0}
  /\ web \in [at : {"idle", "connect", "setConnected", "insert", "attach", "disconnect",
                    "clearConnected", "setDisconnected", "detach", "setData", "enqueue"},
              client : Client \union {0}, message : Messages \union {NoMessage}]
  /\ queue \in Seq(Messages) /\ Len(queue) <= QueueLength
  /\ handler \in [at : {"data", "drain", "process", "answer", "readings", "clients",
                         "send", "drop", "notified", "leds"},
                  client : Client \union {0}, message : Messages \union {NoMessage},
                  left : SUBSET Client]
  /\ handled \subseteq sent /\ refused \subseteq sent /\ sent \subseteq Messages
  /\ newTest \in BOOLEAN

\* When no event is being handled, the list has every client that is connected and
\* none that is deleted, although wsDataHandler drops clients of an old copy of it
\* (onWsEvent, wsDataHandler, updateClientList).
ListInStep ==
  web.at = "idle" =>
    \A c \in Client : /\ status[c] = "open" => c \in listed
                      /\ status[c] = "gone" => c \notin listed

\* The timer keeps a plain pointer to the client it pings; that client is never
\* deleted, whoever came and left in the meantime (onWsEvent, sendPing).
PingedClientExists == pinged # 0 => status[pinged] \in {"open", "closing"}

\* A message of a connected client is processed, unless the queue stays full, also
\* when the bit CONNECTED has gone with another client (onWsEvent, wsDataHandler).
MessagesAreHandled == \A m \in Messages : m \in sent ~> m \in handled \union refused

\* A client that stays is sent the readings again and again, whoever leaves
\* (wsDataHandler).
OpenClientsGetReadings ==
  \A c \in Client : <>[](status[c] = "open")
                       => []<>(HandlerAt("send") /\ handler.client = c)
===============================================================================
