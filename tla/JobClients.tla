------------------------------ MODULE JobClients ------------------------------
(***************************************************************************)
(* Calls on a headless terminal job (headlessterm/worker/client.rs), the   *)
(* local sockets they go through (rpc.rs) and the spool that keeps the     *)
(* last response of a finished job (spool.rs).                             *)
(*                                                                         *)
(* A call is one interact, write or close request; "type" is an interact   *)
(* request with input.  Every call has a connection of its own; what a     *)
(* dropped interact call may still send is a cancel request, over another  *)
(* connection.  The worker is in HeadlessWorker.                           *)
(***************************************************************************)
EXTENDS Integers, Sequences

CONSTANTS
    Calls,
    Kinds,        \* of requests, a subset of AllKinds
    MayVanish     \* whether callers may be cancelled or killed

AllKinds == {"interact", "type", "write", "close"}

ASSUME KindsAssumption == Kinds \subseteq AllKinds
ASSUME MayVanishAssumption == MayVanish \in BOOLEAN

VARIABLES
    listening,   \* whether the endpoint of the job exists
    queue,       \* connections not accepted yet
    cpc, kind,   \* of each call
    stream,      \* what happened on its connection
    inbox,       \* the response on its connection, or read from the spool
    cancel,      \* its cancel request
    result,      \* what the caller got
    spool        \* the response stored for the job

calls == <<cpc, kind, stream, inbox, cancel, result>>
clientVars == <<listening, queue, calls, spool>>

\* A response: its status, the output it carries, which is what lies between two
\* offsets of the stream, and whether it is the last of its job.
Response(status, from, to, final) ==
    [status |-> status, from |-> from, to |-> to, final |-> final]

Plain(status) == Response(status, 0, 0, FALSE)

NoResponse == Plain("none")

\* Interact requests wait for output, are acknowledged, and fall back on the
\* spool.
InteractKinds == {"interact", "type"}

Interactive(c) == kind[c] \in InteractKinds

\* CancelOnDrop is armed once the request has been sent, and until the response
\* has been acknowledged.
Armed(c) == Interactive(c) /\ "requested" \in stream[c] /\ "acknowledged" \notin stream[c]

ClientsInit ==
    /\ listening = TRUE
    /\ queue = <<>>
    /\ cpc = [c \in Calls |-> "idle"]
    /\ kind = [c \in Calls |-> "none"]
    /\ stream = [c \in Calls |-> {}]
    /\ inbox = [c \in Calls |-> NoResponse]
    /\ cancel = [c \in Calls |-> "none"]
    /\ result = [c \in Calls |-> NoResponse]
    /\ spool = NoResponse

-------------------------------------------------------------------------------

Mark(c, flag) == stream' = [stream EXCEPT ![c] = @ \cup {flag}]

Goto(c, label) == cpc' = [cpc EXCEPT ![c] = label]

\* The call returns r, or is dropped: its connection is closed, and what is
\* still armed sends a cancel request.
Return(c, r) ==
    /\ Goto(c, "done")
    /\ result' = [result EXCEPT ![c] = r]
    /\ Mark(c, "client_closed")
    /\ inbox' = [inbox EXCEPT ![c] = NoResponse]
    /\ cancel' = [cancel EXCEPT ![c] = IF Armed(c) THEN "spawned" ELSE @]
    /\ UNCHANGED kind

\* A call is made, and the endpoint is there.
Connect(c, k) ==
    /\ cpc[c] = "idle"
    /\ listening
    /\ kind' = [kind EXCEPT ![c] = k]
    /\ queue' = Append(queue, <<"call", c>>)
    /\ Goto(c, "connected")
    /\ UNCHANGED <<listening, stream, inbox, cancel, result, spool>>

\* The endpoint is missing.
ConnectMissing(c, k) ==
    /\ cpc[c] = "idle"
    /\ ~listening
    /\ kind' = [kind EXCEPT ![c] = k]
    /\ IF k \in InteractKinds
       THEN Goto(c, "taking") /\ UNCHANGED result
       ELSE Goto(c, "done") /\ result' = [result EXCEPT ![c] = Plain("not_found")]
    /\ UNCHANGED <<listening, queue, stream, inbox, cancel, spool>>

SendRequest(c) ==
    /\ cpc[c] = "connected"
    /\ "server_closed" \notin stream[c]
    /\ Mark(c, "requested")
    /\ Goto(c, "reading")
    /\ UNCHANGED <<listening, queue, kind, inbox, cancel, result, spool>>

SendFails(c) ==
    /\ cpc[c] = "connected"
    /\ "server_closed" \in stream[c]
    /\ Return(c, Plain(IF Interactive(c) THEN "error" ELSE "not_found"))
    /\ UNCHANGED <<listening, queue, spool>>

Receive(c) ==
    /\ cpc[c] = "reading"
    /\ inbox[c] # NoResponse
    /\ IF Interactive(c)
       THEN Goto(c, "acking") /\ UNCHANGED <<kind, stream, inbox, cancel, result>>
       ELSE Return(c, inbox[c])
    /\ UNCHANGED <<listening, queue, spool>>

Disconnected(c) ==
    /\ cpc[c] = "reading"
    /\ inbox[c] = NoResponse
    /\ "server_closed" \in stream[c]
    /\ IF Interactive(c)
       THEN Goto(c, "taking") /\ UNCHANGED <<kind, stream, inbox, cancel, result>>
       ELSE Return(c, Plain("not_found"))
    /\ UNCHANGED <<listening, queue, spool>>

Acknowledge(c) ==
    /\ cpc[c] = "acking"
    /\ "server_closed" \notin stream[c]
    /\ Goto(c, "done")
    /\ result' = [result EXCEPT ![c] = inbox[c]]
    /\ stream' = [stream EXCEPT ![c] = @ \cup {"acknowledged", "client_closed"}]
    /\ inbox' = [inbox EXCEPT ![c] = NoResponse]
    /\ UNCHANGED <<listening, queue, kind, cancel, spool>>

AcknowledgeFails(c) ==
    /\ cpc[c] = "acking"
    /\ "server_closed" \in stream[c]
    /\ Return(c, Plain("error"))
    /\ UNCHANGED <<listening, queue, spool>>

\* spool::take reads the file ...
TakeRead(c) ==
    /\ cpc[c] = "taking"
    /\ IF spool = NoResponse
       THEN Return(c, Plain("not_found"))
       ELSE /\ inbox' = [inbox EXCEPT ![c] = spool]
            /\ Goto(c, "removing")
            /\ UNCHANGED <<kind, stream, cancel, result>>
    /\ UNCHANGED <<listening, queue, spool>>

\* ... and whoever removes it has the response.
TakeRemove(c) ==
    /\ cpc[c] = "removing"
    /\ Return(c, IF spool = NoResponse THEN Plain("not_found") ELSE inbox[c])
    /\ spool' = NoResponse
    /\ UNCHANGED <<listening, queue>>

\* The caller drops the call at one of its awaits, or its process is killed.
Vanish(c) ==
    /\ MayVanish
    /\ cpc[c] \in {"connected", "reading", "acking", "taking", "removing"}
    /\ Return(c, Plain("dropped"))
    /\ UNCHANGED <<listening, queue, spool>>

CancelArrives(c) ==
    /\ cancel[c] = "spawned"
    /\ listening
    /\ cancel' = [cancel EXCEPT ![c] = "over"]
    /\ queue' = Append(queue, <<"cancel", c>>)
    /\ UNCHANGED <<listening, cpc, kind, stream, inbox, result, spool>>

\* The process ended before its cancel task ran, or the endpoint is gone.
CancelLost(c) ==
    /\ cancel[c] = "spawned"
    /\ cancel' = [cancel EXCEPT ![c] = "over"]
    /\ UNCHANGED <<listening, queue, cpc, kind, stream, inbox, result, spool>>

\* What a caller that is still there does next.
Proceed(c) ==
    \/ SendRequest(c)
    \/ SendFails(c)
    \/ Receive(c)
    \/ Disconnected(c)
    \/ Acknowledge(c)
    \/ AcknowledgeFails(c)
    \/ TakeRead(c)
    \/ TakeRemove(c)

ClientNext == \E c \in Calls :
    \/ \E k \in Kinds : Connect(c, k) \/ ConnectMissing(c, k)
    \/ Proceed(c)
    \/ Vanish(c)
    \/ CancelArrives(c)
    \/ CancelLost(c)

=============================================================================
