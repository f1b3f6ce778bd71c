---------------------------- MODULE LogController ----------------------------
(***************************************************************************)
(* DasLogController (das/Http/src/controller/DasLogController.hpp) on top  *)
(* of LogRequester: GET /api/logs takes lines out of the requester until   *)
(* it is empty and answers with them.  The HTTP server gives every         *)
(* connection a thread of its own, and all of them share one requester and *)
(* one reader: the callback stores the line in the reader while the        *)
(* requester is locked, the endpoint copies it out after the unlock.       *)
(***************************************************************************)
EXTENDS LogRequester

VARIABLES
    at,         \* where each connection is inside get_logs
    message,    \* message_ of the shared DasHttpLogReader, 0 if it is no line
    response,   \* the lines of each connection's response, in order
    served,     \* the lines copied into responses, in order
    overlapped  \* history: two connections were inside get_logs at once

controller == <<at, message, response, served, overlapped>>
logVars == <<requesterVars, controller>>

ControllerTypeOK ==
    /\ RequesterTypeOK
    /\ at \in [Clients -> {"idle", "requesting", "reading", "copying"}]
    /\ message \in 0 .. MaxLines
    /\ response \in [Clients -> Seq(0 .. MaxLines)]
    /\ served \in Seq(0 .. MaxLines)
    /\ overlapped \in BOOLEAN

ControllerInit ==
    /\ RequesterInit
    /\ at = [c \in Clients |-> "idle"]
    /\ message = 0
    /\ response = [c \in Clients |-> <<>>]
    /\ served = <<>>
    /\ overlapped = FALSE

\* A faulty variant: the result of RequestOne is not looked at.
CopiesAnyway == "copying"

\* What get_logs does after DAS_E_OUT_OF_RANGE: it answers.
AfterEmpty == "idle"

Step(c, from, to) == at[c] = from /\ at' = [at EXCEPT ![c] = to]

GetLogs(c) ==
    /\ Step(c, "idle", "requesting")
    /\ response' = [response EXCEPT ![c] = <<>>]
    /\ overlapped' = (overlapped \/ \E d \in Clients : at[d] # "idle")
    /\ UNCHANGED <<requesterVars, message, served>>

BeginRead(c) ==
    /\ Step(c, "requesting", "reading")
    /\ RequestOne(c)
    /\ UNCHANGED <<message, response, served, overlapped>>

\* DasHttpLogReader::ReadOne, and the rest of RequestOne.
EndRead(c) ==
    /\ Step(c, "reading", "copying")
    /\ \E text \in TextRead : message' = text /\ ReadOneReturns(c, text)
    /\ UNCHANGED <<response, served, overlapped>>

\* GetMessage and emplace_back.
Copy(c) ==
    /\ Step(c, "copying", "requesting")
    /\ response' = [response EXCEPT ![c] = Append(@, message)]
    /\ served' = Append(served, message)
    /\ UNCHANGED <<requesterVars, message, overlapped>>

Empty(c) ==
    /\ Step(c, "requesting", AfterEmpty)
    /\ MutexFree(c)
    /\ buffer = <<>>
    /\ UNCHANGED <<requesterVars, message, response, served, overlapped>>

ControllerNext ==
    \/ Accept /\ UNCHANGED controller
    \/ \E c \in Clients :
         GetLogs(c) \/ BeginRead(c) \/ EndRead(c) \/ Copy(c) \/ Empty(c)

ControllerSpec == ControllerInit /\ [][ControllerNext]_logVars

-------------------------------------------------------------------------------
(***************************************************************************)
(* As long as no two connections were inside get_logs at once, what was    *)
(* taken out of the requester got into a response, once and in order, and  *)
(* nothing else did.  Once two overlapped, one may have stored its line in *)
(* the reader before the other copied its own, which is then lost and the  *)
(* new one answered twice.                                                 *)
(***************************************************************************)
ServedAsDelivered ==
    ~overlapped /\ (\A c \in Clients : at[c] # "copying") => served = delivered
===============================================================================
