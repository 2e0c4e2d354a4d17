------------------------------- MODULE LogBuffer -------------------------------
(***************************************************************************)
(* The messages the log page shows (Logger).  Every task logs; the mutex   *)
(* _loggingLock makes addToBuffer and getBufferedLogs one step each.       *)
(* Messages are numbered in the order in which they get the mutex.         *)
(***************************************************************************)
EXTENDS Integers, Sequences

CONSTANTS BufferLimit,  \* _bufferSize, 20 in main.cpp
          ClearLimit    \* BUFFER_SIZE, 19

ASSUME LogAssumption == BufferLimit \in Nat \ {0} /\ ClearLimit \in Nat \ {0, 1}

VARIABLES logged,     \* history: how many messages were logged
          logBuffer   \* _logBuffer

logVars == <<logged, logBuffer>>

LogInit == logged = 0 /\ logBuffer = <<>>

\* A full buffer gives up its oldest message.
MakeRoom(buffer) == IF Len(buffer) >= BufferLimit THEN Tail(buffer) ELSE buffer

\* Faulty variant: it is cleared with the next message only.
Cleared_Late(buffer) == IF Len(buffer) > ClearLimit THEN <<>> ELSE buffer

\* A buffer that reaches BUFFER_SIZE is cleared.
Cleared(buffer) == IF Len(buffer) = ClearLimit THEN <<>> ELSE buffer

\* log, up to addToBuffer: one message more.
Log == /\ logged' = logged + 1
       /\ logBuffer' = Cleared(Append(MakeRoom(logBuffer), logged + 1))

-------------------------------------------------------------------------------
\* The page shows the latest messages, all of them since some message, in the
\* order they were logged, and never as many as clear it.
LogIsRecent ==
  /\ Len(logBuffer) <= logged
  /\ \A i \in DOMAIN logBuffer : logBuffer[i] = logged - Len(logBuffer) + i
  /\ Len(logBuffer) <= BufferLimit /\ Len(logBuffer) < ClearLimit
===============================================================================
