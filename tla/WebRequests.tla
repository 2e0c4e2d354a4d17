------------------------------ MODULE WebRequests ------------------------------
(***************************************************************************)
(* The web server's requests as AsyncTCP serves them, one at a time: forms *)
(* with settings (Settings) and the log page (handleLogRequest), while all *)
(* tasks go on logging.                                                    *)
(***************************************************************************)
EXTENDS Settings, LogBuffer

CONSTANT MaxLogged   \* bound: how many messages are logged

VARIABLE page        \* the messages on the log page that was served last

WebInit == Init /\ LogInit /\ page = <<>>

\* Some task logs a message.
LogMessage == logged < MaxLogged /\ Log /\ UNCHANGED <<vars, page>>

\* handleLogRequest: getBufferedLogs copies the buffer.
ShowLog == request.at = "idle" /\ page' = logBuffer /\ UNCHANGED <<vars, logVars>>

WebNext == \/ Next /\ UNCHANGED <<logVars, page>>
           \/ LogMessage
           \/ ShowLog

WebSpec == WebInit /\ [][WebNext]_<<vars, logVars, page>>
===============================================================================
