-------------------------- MODULE HeadlessWorkerProofs -------------------------
(***************************************************************************)
(* Proofs about HeadlessWorker: all calls on a job together read one       *)
(* stream of output from front to back (JobOutput), the last response of a *)
(* job is not lost, and the lease is honoured, for any number of calls.    *)
(***************************************************************************)
EXTENDS HeadlessWorker, SequenceTheorems, TLAPS

-------------------------------------------------------------------------------
(* The inductive invariant *)

Statuses == {"none", "running", "exited", "closed", "written", "failed", "not_found", "error",
             "dropped"}
Responses == [status : Statuses, from : Nat, to : Nat, final : BOOLEAN]

CallLabels == {"idle", "connected", "reading", "acking", "taking", "removing", "done"}
Flags == {"requested", "acknowledged", "client_closed", "server_closed"}
WorkerLabels == {"loop", "store", "return", "accept", "read", "dispatch", "interact", "read_side",
                 "join", "write", "ack", "conclude", "lease", "ended"}
Tasks == {"none", "typing", "polling", "completed", "gave_up", "failed"}
Endings == {"none", "finished", "spool_failed", "failed", "closed", "answered", "expired", "killed"}

Connections == {"call", "cancel"} \X Calls

WorkerTypeOK ==
    /\ listening \in BOOLEAN /\ queue \in Seq(Connections)
    /\ cpc \in [Calls -> CallLabels] /\ kind \in [Calls -> AllKinds \cup {"none"}]
    /\ stream \in [Calls -> SUBSET Flags]
    /\ inbox \in [Calls -> Responses] /\ result \in [Calls -> Responses] /\ spool \in Responses
    /\ cancel \in [Calls -> {"none", "spawned", "over"}]
    /\ childExited \in BOOLEAN /\ ptyClosed \in BOOLEAN /\ produced \in Nat
    /\ acked \in Nat /\ exited \in BOOLEAN /\ eof \in BOOLEAN
    /\ pc \in WorkerLabels
    /\ serving \in Connections \cup {NoConnection} /\ side \in Connections \cup {NoConnection}
    /\ pending \in Calls \cup {NoCall}
    /\ task \in Tasks /\ cancelled \in BOOLEAN /\ response \in Responses
    /\ idle \in Nat /\ quiet \in Nat /\ interacted \in BOOLEAN
    /\ ending \in Endings

\* What a call is about to do tells what has happened on its connection.
CallInv(c) ==
    /\ cpc[c] = "idle" <=> kind[c] = "none"
    /\ cpc[c] = "idle" => stream[c] = {}
    /\ cpc[c] = "connected" => stream[c] \subseteq {"server_closed"}
    /\ cpc[c] \in {"reading", "acking"} => "requested" \in stream[c]
    /\ cpc[c] \in {"acking", "taking", "removing"} => Interactive(c)
    /\ cpc[c] \in {"idle", "connected", "taking", "done"} => inbox[c] = NoResponse
    /\ cpc[c] = "done" /\ "requested" \in stream[c] => "client_closed" \in stream[c]
    /\ cpc[c] # "done" => /\ result[c] = NoResponse
                          /\ {"client_closed", "acknowledged"} \cap stream[c] = {}

\* The worker holds each connection in one place, and has not closed it; whoever
\* left one without acknowledging a response was cancelled or killed.
Serves(c) == serving = <<"call", c>>
Beside(c) == side = <<"call", c>>
Queued(c) == \E i \in 1 .. Len(queue) : queue[i] = <<"call", c>>

Holds(c) == Serves(c) \/ Beside(c) \/ pending = c \/ Queued(c)

HeldInv(c) ==
    /\ Queued(c) => ~Serves(c) /\ ~Beside(c) /\ pending # c
    /\ Serves(c) => ~Beside(c) /\ pending # c
    /\ Beside(c) => pending # c
    /\ \A i, j \in 1 .. Len(queue) : queue[i] = <<"call", c>> /\ queue[j] = <<"call", c>> => i = j
    /\ Holds(c) =>
        /\ cpc[c] \in {"connected", "reading", "acking", "done"}
        /\ "server_closed" \notin stream[c]
        /\ cpc[c] = "done" /\ Interactive(c) /\ "acknowledged" \notin stream[c] =>
              result[c].status = "dropped"

\* Where the worker is tells what it has in hand.
InHand == {"dispatch", "interact", "read_side", "join", "write", "ack", "conclude"}

PlaceInv ==
    /\ pc \in {"loop", "store", "return", "accept", "lease", "ended"} => serving = NoConnection
    /\ pc = "read" => serving # NoConnection
    /\ pc \in InHand => \E c \in Calls : Serves(c) /\ "requested" \in stream[c]
    /\ pc = "read_side" <=> side # NoConnection
    /\ \A c \in Calls : pending = c => "requested" \in stream[c]
    /\ listening <=> pc # "ended"
    /\ ending = "none" <=> pc # "ended"
    /\ pc = "ended" => queue = <<>> /\ pending = NoCall
    /\ pc \in {"interact", "read_side", "join"} <=> task # "none"

\* A response with output begins at the checkpoint; the last one ends where the
\* output ends.
Sound(r) ==
    IF r.status \in TerminalStatuses
    THEN /\ r.from = acked /\ acked <= r.to /\ r.to <= produced
         /\ r.final => ptyClosed /\ r.to = produced
    ELSE r.to = 0 /\ ~r.final

ResponseInv ==
    /\ acked <= produced
    /\ eof => ptyClosed
    /\ task # "none" => Interactive(serving[2])
    /\ task = "completed" => Sound(response) /\ response.status \in {"running", "exited"}
    /\ pc = "write" =>
        /\ Sound(response)
        /\ response.status \in
              IF Interactive(serving[2]) THEN {"running", "exited"}
              ELSE IF kind[serving[2]] = "close" THEN {"closed", "failed"} ELSE {"written", "failed"}
    /\ pc = "ack" => /\ Sound(response) /\ response.status \in {"running", "exited"}
                     /\ Interactive(serving[2])
    /\ pc = "conclude" => ~Interactive(serving[2])
    /\ pc = "store" => Sound(response) /\ response.status = "exited" /\ response.final

\* The output returned in results ends at n.
EndsAt(n, results) ==
    n \in {0} \cup {results[c].to : c \in Calls} /\ \A c \in Calls : results[c].to <= n

ReadUpTo(n) == EndsAt(n, result)

IsNext(r) == ReadUpTo(r.from) /\ r.from <= r.to /\ r.to <= produced

\* Of the responses that wait for their callers, only one can still be returned
\* with output: that of the call that is served, that of a close request, or the
\* one in the spool.
FromSpool(c) ==
    /\ cpc[c] = "removing" /\ pc \in {"return", "ended"}
    /\ spool # NoResponse => inbox[c] = spool

WithoutOutput(c) ==
    /\ cpc[c] = "reading" /\ ~Interactive(c)
    /\ inbox[c].status \in {"written", "failed"} /\ inbox[c].to = 0 /\ ~inbox[c].final

AnswersClose(c) ==
    /\ cpc[c] = "reading" /\ kind[c] = "close" /\ inbox[c].status = "closed"
    /\ (pc = "conclude" /\ Serves(c)) \/ pc = "ended"
    /\ spool = NoResponse /\ IsNext(inbox[c])
    /\ \A d \in Calls : cpc[d] = "reading" /\ inbox[d].status = "closed" => d = c

AnswersInteraction(c) ==
    /\ cpc[c] \in {"reading", "acking"} /\ Interactive(c)
    /\ inbox[c].status \in {"running", "exited"}
    /\ \/ "server_closed" \in stream[c]
       \/ pc = "ack" /\ Serves(c) /\ inbox[c] = response

InboxInv(c) ==
    /\ cpc[c] \in {"acking", "removing"} => inbox[c] # NoResponse
    /\ inbox[c] # NoResponse =>
          FromSpool(c) \/ WithoutOutput(c) \/ AnswersClose(c) \/ AnswersInteraction(c)

\* The checkpoint of the worker is where callers have read to, except while a
\* caller has acknowledged a response and the worker has not noticed.
FrontInv ==
    /\ pc \notin {"ack", "conclude", "return", "ended"} => ReadUpTo(acked)
    /\ pc = "ack" => \A c \in Calls : Serves(c) =>
          IF "acknowledged" \in stream[c] THEN ReadUpTo(response.to) /\ result[c] = response
          ELSE ReadUpTo(acked)
    /\ pc = "conclude" /\ kind[serving[2]] # "close" => ReadUpTo(acked)
    /\ spool # NoResponse => pc \in {"return", "ended"} /\ spool.status = "exited" /\ IsNext(spool)

KeptInv ==
    /\ pc = "return" \/ ending = "finished" => ptyClosed /\ LastIsKept
    /\ ending = "answered" /\ (\A c \in Calls : result[c].status # "dropped") =>
          ptyClosed /\ LastIsKept

\* The lease runs since a caller was last told of a running job, or since later.
LeaseInv ==
    /\ pc \notin {"ack", "ended"} => idle <= quiet
    /\ ending = "expired" => quiet >= Expiration

WorkerInv ==
    /\ WorkerTypeOK
    /\ \A c \in Calls : CallInv(c)
    /\ \A c \in Calls : HeldInv(c)
    /\ PlaceInv
    /\ ResponseInv
    /\ \A c \in Calls : InboxInv(c)
    /\ FrontInv
    /\ KeptInv
    /\ LeaseInv

-------------------------------------------------------------------------------

\* Responses are typed.
LEMMA ResponseTypes ==
  /\ \A status \in Statuses : Plain(status) \in Responses
  /\ \A status \in Statuses, final \in BOOLEAN, from \in Nat, to \in Nat :
        Response(status, from, to, final) \in Responses
  /\ NoResponse \in Responses
  BY DEF Plain, Response, Responses, NoResponse, Statuses

\* The first connection of the queue, and the others.
LEMMA QueueParts ==
  ASSUME NEW q \in Seq(Connections), q # <<>>
  PROVE  /\ Head(q) \in Connections /\ Tail(q) \in Seq(Connections)
         /\ Head(q) = q[1] /\ Len(q) \in Nat /\ Len(q) > 0
         /\ Len(Tail(q)) = Len(q) - 1
         /\ \A i \in 1 .. Len(q) - 1 : Tail(q)[i] = q[i + 1]
  OBVIOUS

-------------------------------------------------------------------------------
(* Types *)

\* Ending, and finishing with a connection, keep the types.
LEMMA EndTypes ==
  ASSUME WorkerTypeOK, NEW why \in Endings, End(why), spool' \in Responses,
         UNCHANGED <<ptyClosed, produced, exited, eof, quiet>>, childExited' \in BOOLEAN,
         acked' \in Nat
  PROVE  WorkerTypeOK'
<1>1. stream' \in [Calls -> SUBSET Flags]
  BY DEF End, WorkerTypeOK, Flags
<1>2. queue' \in Seq(Connections)
  BY DEF End
<1>3. response' \in Responses
  BY ResponseTypes DEF End, NothingInHand
<1> QED
  BY <1>1, <1>2, <1>3 DEF End, NothingInHand, WorkerTypeOK, WorkerLabels, Tasks, lease

LEMMA FinishTypes ==
  ASSUME WorkerTypeOK, Finish(TRUE) \/ Finish(FALSE),
         UNCHANGED <<child, exited, eof, quiet>>, acked' \in Nat
  PROVE  WorkerTypeOK'
<1>1. stream' \in [Calls -> SUBSET Flags]
  BY DEF Finish, Drop, Mark, WorkerTypeOK, Flags
<1>3. response' \in Responses
  BY ResponseTypes DEF Finish, NothingInHand
<1>4. idle' \in Nat /\ interacted' \in BOOLEAN
  <2>1. CASE Finish(TRUE)
    <3>1. ObserveInteraction
      BY <2>1 DEF Finish
    <3> QED
      BY <3>1 DEF ObserveInteraction
  <2>2. CASE Finish(FALSE)
    <3>1. UNCHANGED lease
      BY <2>2 DEF Finish
    <3> QED
      BY <3>1 DEF lease, WorkerTypeOK
  <2> QED
    BY <2>1, <2>2
<1>5. /\ UNCHANGED <<listening, queue, cpc, kind, inbox, cancel, result, spool, side, pending, ending>>
      /\ pc' = "lease" /\ serving' = NoConnection /\ task' = "none" /\ cancelled' = FALSE
  BY DEF Finish, NothingInHand
<1> QED
  BY <1>1, <1>3, <1>4, <1>5 DEF WorkerTypeOK, WorkerLabels, Tasks, child

\* Steps of the worker keep the types.
LEMMA LoopTypes ==
  ASSUME WorkerTypeOK, LoopNext
  PROVE  WorkerTypeOK'
<1> USE DEF WorkerTypeOK
<1>1. CASE Refresh
  BY <1>1, ResponseTypes, ZenonT(40) DEF Refresh, Observe, Output, WorkerLabels, Statuses, clientVars, calls, child
<1>2. CASE Store
  BY <1>2 DEF Store, WorkerLabels, calls, child, job, lease
<1>3. CASE StoreFails
  BY <1>3, EndTypes DEF StoreFails, child, job, Endings
<1>4. CASE ReturnAfterStore
  BY <1>4, EndTypes DEF ReturnAfterStore, child, job, Endings
<1>5. CASE Accept
  BY <1>5, QueueParts DEF Accept, WorkerLabels, calls, child, job, lease
<1>6. CASE AcceptTimesOut
  BY <1>6 DEF AcceptTimesOut, WorkerLabels, clientVars, calls, child, job, lease
<1>7. CASE TakePending
  BY <1>7 DEF TakePending, WorkerLabels, clientVars, calls, child, job, lease, Connections
<1>8. CASE ReadRequest
  BY <1>8 DEF ReadRequest, WorkerLabels, clientVars, calls, child, job, lease
<1>9. CASE ReadNothing
  BY <1>9, FinishTypes DEF ReadNothing, child, job
<1>10. CASE ServeWrite
  BY <1>10, ResponseTypes DEF ServeWrite, Observe, WorkerLabels, Statuses, clientVars, calls, child, job, lease
<1>11. CASE ServeClose
  BY <1>11, ResponseTypes, ZenonT(40) DEF ServeClose, Output, WorkerLabels, Statuses, clientVars, calls, lease
<1>12. CASE ServeCloseFails
  BY <1>12, ResponseTypes DEF ServeCloseFails, WorkerLabels, Statuses, clientVars, calls, child, job, lease
<1>13. CASE StartInteraction
  BY <1>13, ResponseTypes, ZenonT(40) DEF StartInteraction, WorkerLabels, Tasks, clientVars, calls, child, job, lease
<1>14. CASE JoinTask
  BY <1>14 DEF JoinTask, WorkerLabels, Tasks, clientVars, calls, child, job, lease
<1>15. CASE JoinFailure
  BY <1>15, EndTypes DEF JoinFailure, child, job, Endings
<1>16. CASE AcceptMeanwhile
  BY <1>16, QueueParts DEF AcceptMeanwhile, WorkerLabels, calls, child, job, lease
<1>17. CASE CancelInteraction
  BY <1>17 DEF CancelInteraction, WorkerLabels, clientVars, calls, child, job, lease
<1>18. CASE DisplaceInteraction
  BY <1>18 DEF DisplaceInteraction, WorkerLabels, clientVars, calls, child, job, lease, Connections, NoConnection
<1>19. CASE DropSide
  BY <1>19 DEF DropSide, Drop, Mark, WorkerLabels, Flags, child, job, lease
<1>20. CASE JoinCancelled
  BY <1>20, FinishTypes DEF JoinCancelled, child, job
<1>21. CASE WriteFails
  BY <1>21, EndTypes, FinishTypes DEF WriteFails, Conclude, child, job, Endings
<1>22. CASE WriteResponse
  <2>1. inbox' \in [Calls -> Responses]
    BY <1>22 DEF WriteResponse
  <2>2. pc' \in WorkerLabels
    BY <1>22 DEF WriteResponse, WorkerLabels
  <2>3. acked' \in Nat
    BY <1>22 DEF WriteResponse, Responses
  <2> QED
    BY <1>22, <2>1, <2>2, <2>3 DEF WriteResponse, child, lease
<1>23. CASE ConcludeUnacknowledged
  BY <1>23, EndTypes, FinishTypes DEF ConcludeUnacknowledged, Conclude, child, job, Endings
<1>24. CASE ReadAcknowledgement
  BY <1>24, EndTypes, FinishTypes DEF ReadAcknowledgement, Conclude, child, Responses, Endings
<1>25. CASE ReadNoAcknowledgement
  BY <1>25, EndTypes, FinishTypes DEF ReadNoAcknowledgement, Conclude, child, job, Endings
<1>26. CASE KeepLease
  BY <1>26 DEF KeepLease, WorkerLabels, clientVars, calls, child, job, lease
<1>27. CASE Expire
  BY <1>27, EndTypes DEF Expire, job, Endings
<1> QED
  BY <1>1, <1>2, <1>3, <1>4, <1>5, <1>6, <1>7, <1>8, <1>9, <1>10, <1>11, <1>12, <1>13, <1>14,
     <1>15, <1>16, <1>17, <1>18, <1>19, <1>20, <1>21, <1>22, <1>23, <1>24, <1>25, <1>26, <1>27
     DEF LoopNext

\* So do those of an interaction, the command, time and callers.
LEMMA OtherTypes ==
  ASSUME WorkerTypeOK, TaskNext \/ ChildNext \/ Tick \/ Killed
  PROVE  WorkerTypeOK'
<1> USE DEF WorkerTypeOK
<1>1. CASE TypeInput \/ TypeInputFails
  BY <1>1 DEF TypeInput, TypeInputFails, TaskOnly, Tasks, clientVars, calls, child, lease
<1>2. CASE PollExited
  BY <1>2, ResponseTypes DEF PollExited, Observe, Output, Statuses, TaskOnly, Tasks, clientVars,
     calls, child, lease
<1>3. CASE PollBoundary
  BY <1>3, ResponseTypes DEF PollBoundary, Observe, Output, Statuses, TaskOnly, Tasks, clientVars,
     calls, child, lease
<1>4. CASE PollCancelled
  BY <1>4 DEF PollCancelled, Observe, TaskOnly, Tasks, clientVars, calls, child, lease
<1>5. CASE ChildNext
  <2>1. childExited' \in BOOLEAN /\ ptyClosed' \in BOOLEAN /\ produced' \in Nat
    <3>1. CASE Produce
      BY <3>1 DEF Produce
    <3>2. CASE ChildExits
      BY <3>2 DEF ChildExits
    <3>3. CASE PtyCloses
      BY <3>3 DEF PtyCloses
    <3> QED
      BY <1>5, <3>1, <3>2, <3>3 DEF ChildNext
  <2> QED
    BY <1>5, <2>1 DEF ChildNext, clientVars, calls, job, control, lease
<1>6. CASE Tick
  <2>1. \A n \in Nat : Later(n) \in Nat
    BY DEF Later
  <2>2. idle' \in Nat /\ quiet' \in Nat
    BY <1>6, <2>1 DEF Tick
  <2> QED
    BY <1>6, <2>2 DEF Tick, clientVars, calls, child, job, control
<1>7. CASE Killed
  BY <1>7, EndTypes DEF Killed, child, job, Endings
<1> QED
  BY <1>1, <1>2, <1>3, <1>4, <1>5, <1>6, <1>7 DEF TaskNext

LEMMA CallTypes ==
  ASSUME WorkerTypeOK, CallNext
  PROVE  WorkerTypeOK'
<1>1. /\ quiet' \in Nat
      /\ UNCHANGED <<childExited, ptyClosed, produced, acked, exited, eof, pc, serving, side, pending,
                     task, cancelled, response, idle, interacted, ending>>
  BY DEF CallNext, WorkerTypeOK, child, job, control, lease
<1>2. PICK c \in Calls :
        \/ \E k \in Kinds : Connect(c, k) \/ ConnectMissing(c, k)
        \/ Proceed(c)
        \/ Vanish(c)
        \/ CancelArrives(c)
        \/ CancelLost(c)
  BY DEF CallNext, ClientNext
<1> DEFINE Rest == /\ listening' \in BOOLEAN /\ queue' \in Seq(Connections)
                   /\ cpc' \in [Calls -> CallLabels] /\ kind' \in [Calls -> AllKinds \cup {"none"}]
                   /\ stream' \in [Calls -> SUBSET Flags]
                   /\ inbox' \in [Calls -> Responses] /\ result' \in [Calls -> Responses]
                   /\ spool' \in Responses
                   /\ cancel' \in [Calls -> {"none", "spawned", "over"}]
<1> SUFFICES Rest
  BY <1>1 DEF WorkerTypeOK
<1> USE DEF WorkerTypeOK, CallLabels, Flags
<1>3. ASSUME NEW r \in Responses, Return(c, r), UNCHANGED <<listening, queue>>, spool' \in Responses
      PROVE  Rest
  BY <1>3, ResponseTypes DEF Return, Goto, Mark
<1>4. \A k \in Kinds : k \in AllKinds
  BY KindsAssumption
<1>5. ASSUME NEW k \in Kinds, Connect(c, k) PROVE Rest
  BY <1>4, <1>5 DEF Connect, Goto, Connections
<1>6. ASSUME NEW k \in Kinds, ConnectMissing(c, k) PROVE Rest
  BY <1>4, <1>6, ResponseTypes DEF ConnectMissing, Goto, Statuses
<1>7. CASE SendRequest(c)
  BY <1>7 DEF SendRequest, Mark, Goto
<1>8. CASE SendFails(c)
  BY <1>3, <1>8, ResponseTypes DEF SendFails, Statuses
<1>9. CASE Receive(c)
  <2>1. inbox[c] \in Responses
    OBVIOUS
  <2> QED
    BY <1>3, <1>9, <2>1 DEF Receive, Goto
<1>10. CASE Disconnected(c)
  BY <1>3, <1>10, ResponseTypes DEF Disconnected, Goto, Statuses
<1>11. CASE Acknowledge(c)
  BY <1>11, ResponseTypes DEF Acknowledge, Goto
<1>12. CASE AcknowledgeFails(c)
  BY <1>3, <1>12, ResponseTypes DEF AcknowledgeFails, Statuses
<1>13. CASE TakeRead(c)
  BY <1>3, <1>13, ResponseTypes DEF TakeRead, Goto, Statuses
<1>14. CASE TakeRemove(c)
  BY <1>3, <1>14, ResponseTypes DEF TakeRemove, Statuses
<1>15. CASE Vanish(c)
  BY <1>3, <1>15, ResponseTypes DEF Vanish, Statuses
<1>16. CASE CancelArrives(c)
  BY <1>16 DEF CancelArrives, Connections
<1>17. CASE CancelLost(c)
  BY <1>17 DEF CancelLost
<1> QED
  BY <1>2, <1>5, <1>6, <1>7, <1>8, <1>9, <1>10, <1>11, <1>12, <1>13, <1>14, <1>15, <1>16, <1>17
     DEF Proceed

-------------------------------------------------------------------------------
(* What steps of the worker do to its callers *)

\* What a step of the worker may do on the connections of calls.
ServerEffect ==
    /\ UNCHANGED <<cpc, kind, cancel, result>>
    /\ \A c \in Calls :
        /\ stream'[c] \in {stream[c], stream[c] \cup {"server_closed"}}
        /\ cpc[c] = "idle" => stream'[c] = stream[c]

\* Dropping a connection closes it.
LEMMA DropEffect ==
  ASSUME WorkerTypeOK, NEW connection \in Connections \cup {NoConnection}, Drop(connection)
  PROVE  \A c \in Calls :
            stream'[c] = IF connection = <<"call", c>> THEN stream[c] \cup {"server_closed"}
                         ELSE stream[c]
<1>1. CASE connection[1] = "call" /\ connection[2] # NoCall
  BY <1>1 DEF Drop, Mark, WorkerTypeOK, Connections, NoConnection
<1>2. CASE ~(connection[1] = "call" /\ connection[2] # NoCall)
  BY <1>2, NoCallAssumption DEF Drop, Connections
<1> QED
  BY <1>1, <1>2

LEMMA EndEffect ==
  ASSUME WorkerTypeOK, NEW why, End(why)
  PROVE  ServerEffect /\ UNCHANGED inbox
  BY DEF End, ServerEffect, WorkerTypeOK

LEMMA FinishEffect ==
  ASSUME WorkerTypeOK, \A c \in Calls : HeldInv(c), Finish(TRUE) \/ Finish(FALSE)
  PROVE  /\ ServerEffect /\ UNCHANGED <<inbox, queue, side, pending>> /\ serving' = NoConnection
         /\ \A c \in Calls : stream'[c] = IF Serves(c) THEN stream[c] \cup {"server_closed"}
                                          ELSE stream[c]
<1>1. Drop(serving) /\ UNCHANGED <<cpc, kind, cancel, result, inbox, queue, side, pending>>
      /\ serving' = NoConnection
  BY DEF Finish, NothingInHand
<1>2. \A c \in Calls : stream'[c] = IF Serves(c) THEN stream[c] \cup {"server_closed"}
                                    ELSE stream[c]
  BY <1>1, DropEffect DEF Serves, WorkerTypeOK
<1> QED
  BY <1>1, <1>2 DEF ServerEffect, HeldInv, Holds

\* Answering is the only step that gives a call a response.
LEMMA WorkerEffect ==
  ASSUME WorkerTypeOK, \A c \in Calls : HeldInv(c),
         LoopNext \/ TaskNext \/ ChildNext \/ Tick \/ Killed
  PROVE  ServerEffect /\ (UNCHANGED inbox \/ WriteResponse)
<1>1. ASSUME UNCHANGED <<cpc, kind, cancel, result, stream, inbox>>
      PROVE  ServerEffect /\ UNCHANGED inbox
  BY <1>1 DEF ServerEffect
<1>2. CASE TaskNext \/ ChildNext \/ Tick
  BY <1>1, <1>2 DEF TaskNext, TypeInput, TypeInputFails, PollExited, PollBoundary, PollCancelled,
     TaskOnly, ChildNext, Tick, clientVars, calls
<1>3. CASE Killed
  BY <1>3, EndEffect DEF Killed
<1>4. CASE StoreFails \/ ReturnAfterStore \/ JoinFailure \/ Expire
  BY <1>4, EndEffect DEF StoreFails, ReturnAfterStore, JoinFailure, Expire
<1>5. CASE ReadNothing \/ JoinCancelled
  BY <1>5, FinishEffect DEF ReadNothing, JoinCancelled
<1>6. CASE WriteFails \/ ConcludeUnacknowledged \/ ReadAcknowledgement \/ ReadNoAcknowledgement
  BY <1>6, EndEffect, FinishEffect DEF WriteFails, ConcludeUnacknowledged, ReadAcknowledgement,
     ReadNoAcknowledgement, Conclude
<1>7. CASE \/ Refresh \/ AcceptTimesOut \/ TakePending \/ ReadRequest \/ ServeWrite \/ ServeClose
           \/ ServeCloseFails \/ StartInteraction \/ JoinTask \/ CancelInteraction
           \/ DisplaceInteraction \/ KeepLease
  BY <1>1, <1>7 DEF Refresh, AcceptTimesOut, TakePending, ReadRequest, ServeWrite, ServeClose,
     ServeCloseFails, StartInteraction, JoinTask, CancelInteraction, DisplaceInteraction, KeepLease,
     clientVars, calls
<1>8. CASE Store \/ Accept \/ AcceptMeanwhile
  BY <1>1, <1>8 DEF Store, Accept, AcceptMeanwhile, calls
<1>9. CASE WriteResponse
  BY <1>9 DEF WriteResponse, ServerEffect
<1>10. CASE DropSide
  <2>1. \A c \in Calls : stream'[c] = IF Beside(c) THEN stream[c] \cup {"server_closed"}
                                      ELSE stream[c]
    BY <1>10, DropEffect DEF DropSide, Beside, WorkerTypeOK
  <2> QED
    BY <1>10, <2>1 DEF DropSide, ServerEffect, HeldInv, Holds
<1> QED
  BY <1>2, <1>3, <1>4, <1>5, <1>6, <1>7, <1>8, <1>9, <1>10 DEF LoopNext

\* What a call is about to do still tells what has happened on its connection.
LEMMA WorkerKeepsCalls ==
  ASSUME WorkerInv, LoopNext \/ TaskNext \/ ChildNext \/ Tick \/ Killed, NEW c \in Calls
  PROVE  CallInv(c)'
<1>1. /\ UNCHANGED <<cpc, kind, cancel, result>>
      /\ stream'[c] \in {stream[c], stream[c] \cup {"server_closed"}}
      /\ cpc[c] = "idle" => stream'[c] = stream[c]
      /\ CallInv(c) /\ HeldInv(c)
  BY WorkerEffect DEF WorkerInv, ServerEffect
<1>2. CASE inbox'[c] = inbox[c]
  BY <1>1, <1>2 DEF CallInv, Interactive
<1>3. CASE inbox'[c] # inbox[c]
  <2>1. WriteResponse
    BY <1>3, WorkerEffect DEF WorkerInv
  <2>2. Serves(c)
    BY <1>3, <2>1 DEF WriteResponse, PlaceInv, WorkerInv, WorkerTypeOK, InHand, Serves
  <2>3. "requested" \in stream[c] /\ "client_closed" \notin stream[c]
    BY <2>1, <2>2 DEF WriteResponse, PlaceInv, WorkerInv, InHand, Serves
  <2>4. cpc[c] \in {"reading", "acking"}
    BY <1>1, <2>2, <2>3 DEF CallInv, HeldInv, Holds
  <2> QED
    BY <1>1, <2>4 DEF CallInv, Interactive
<1> QED
  BY <1>2, <1>3

-------------------------------------------------------------------------------
(* What steps of callers do *)

\* What a step of a call may do to the calls: others stay as they are.
CallerEffect(d) ==
    /\ \A c \in Calls \ {d} :
        /\ cpc'[c] = cpc[c] /\ kind'[c] = kind[c] /\ stream'[c] = stream[c]
        /\ inbox'[c] = inbox[c] /\ result'[c] = result[c]
    /\ \A flag \in {"server_closed"} : flag \in stream'[d] <=> flag \in stream[d]
    /\ "requested" \in stream[d] => "requested" \in stream'[d]

\* A call that returns.
LEMMA ReturnEffect ==
  ASSUME WorkerTypeOK, NEW d \in Calls, NEW r, Return(d, r)
  PROVE  /\ CallerEffect(d) /\ kind' = kind
         /\ cpc'[d] = "done" /\ result'[d] = r /\ inbox'[d] = NoResponse
         /\ stream'[d] = stream[d] \cup {"client_closed"}
  BY DEF Return, Goto, Mark, CallerEffect, WorkerTypeOK

LEMMA CallersEffect ==
  ASSUME WorkerInv, NEW d \in Calls,
         \/ \E k \in Kinds : Connect(d, k) \/ ConnectMissing(d, k)
         \/ Proceed(d)
         \/ Vanish(d)
         \/ CancelArrives(d)
         \/ CancelLost(d)
  PROVE  CallerEffect(d) /\ CallInv(d)'
<1>1. WorkerTypeOK /\ CallInv(d)
  BY DEF WorkerInv
<1>2. ASSUME NEW r, Return(d, r), cpc[d] # "idle"
      PROVE  CallerEffect(d) /\ CallInv(d)'
  <2>1. /\ CallerEffect(d) /\ kind' = kind /\ cpc'[d] = "done" /\ inbox'[d] = NoResponse
        /\ stream'[d] = stream[d] \cup {"client_closed"}
    BY <1>1, <1>2, ReturnEffect
  <2> QED
    BY <1>1, <1>2, <2>1, ResponseTypes DEF CallInv, Interactive, NoResponse
<1>3. ASSUME NEW k \in Kinds, Connect(d, k) PROVE CallerEffect(d) /\ CallInv(d)'
  <2>1. k # "none"
    BY KindsAssumption DEF AllKinds
  <2> QED
    BY <1>1, <1>3, <2>1 DEF Connect, Goto, CallerEffect, CallInv, Interactive, WorkerTypeOK
<1>4. ASSUME NEW k \in Kinds, ConnectMissing(d, k) PROVE CallerEffect(d) /\ CallInv(d)'
  <2>1. k # "none"
    BY KindsAssumption DEF AllKinds
  <2> QED
    BY <1>1, <1>4, <2>1 DEF ConnectMissing, Goto, CallerEffect, CallInv, Interactive, WorkerTypeOK
<1>5. CASE SendRequest(d)
  BY <1>1, <1>5 DEF SendRequest, Mark, Goto, CallerEffect, CallInv, Interactive, WorkerTypeOK
<1>6. CASE SendFails(d) \/ AcknowledgeFails(d) \/ TakeRemove(d) \/ Vanish(d)
  BY <1>2, <1>6 DEF SendFails, AcknowledgeFails, TakeRemove, Vanish
<1>7. CASE Receive(d)
  <2>1. CASE Interactive(d)
    BY <1>1, <1>7, <2>1 DEF Receive, Goto, CallerEffect, CallInv, Interactive, WorkerTypeOK
  <2>2. CASE ~Interactive(d)
    BY <1>2, <1>7, <2>2 DEF Receive
  <2> QED
    BY <2>1, <2>2
<1>8. CASE Disconnected(d)
  <2>1. CASE Interactive(d)
    BY <1>1, <1>8, <2>1 DEF Disconnected, Goto, CallerEffect, CallInv, Interactive, WorkerTypeOK
  <2>2. CASE ~Interactive(d)
    BY <1>2, <1>8, <2>2 DEF Disconnected
  <2> QED
    BY <2>1, <2>2
<1>9. CASE Acknowledge(d)
  BY <1>1, <1>9 DEF Acknowledge, Goto, CallerEffect, CallInv, Interactive, WorkerTypeOK
<1>10. CASE TakeRead(d)
  <2>1. CASE spool = NoResponse
    BY <1>2, <1>10, <2>1 DEF TakeRead
  <2>2. CASE spool # NoResponse
    BY <1>1, <1>10, <2>2 DEF TakeRead, Goto, CallerEffect, CallInv, Interactive, WorkerTypeOK
  <2> QED
    BY <2>1, <2>2
<1>11. CASE CancelArrives(d) \/ CancelLost(d)
  BY <1>1, <1>11 DEF CancelArrives, CancelLost, CallerEffect, CallInv, Interactive
<1> QED
  BY <1>3, <1>4, <1>5, <1>6, <1>7, <1>8, <1>9, <1>10, <1>11 DEF Proceed

LEMMA CallersKeepCalls ==
  ASSUME WorkerInv, CallNext, NEW c \in Calls
  PROVE  CallInv(c)'
<1>1. PICK d \in Calls :
        \/ \E k \in Kinds : Connect(d, k) \/ ConnectMissing(d, k)
        \/ Proceed(d)
        \/ Vanish(d)
        \/ CancelArrives(d)
        \/ CancelLost(d)
  BY DEF CallNext, ClientNext
<1>2. CallerEffect(d) /\ CallInv(d)'
  BY <1>1, CallersEffect
<1>3. CASE c # d
  BY <1>2, <1>3 DEF CallerEffect, CallInv, Interactive, WorkerInv
<1> QED
  BY <1>2, <1>3

-------------------------------------------------------------------------------
(* Each connection is in one place *)

\* While a connection is not moved and nothing happens on it.
LEMMA HeldUnmoved ==
  ASSUME NEW c \in Calls, HeldInv(c), UNCHANGED <<queue, serving, side, pending>>,
         cpc'[c] = cpc[c], kind'[c] = kind[c], stream'[c] = stream[c], result'[c] = result[c]
  PROVE  HeldInv(c)'
  BY DEF HeldInv, Holds, Serves, Beside, Queued, Interactive

LEMMA HeldNowhere ==
  ASSUME NEW c \in Calls, queue' = <<>>, serving' = NoConnection, side' = NoConnection,
         pending' = NoCall
  PROVE  HeldInv(c)'
<1>1. <<"call", c>> # NoConnection /\ c # NoCall
  BY NoCallAssumption DEF NoConnection
<1>2. ~Queued(c)'
  BY DEF Queued
<1> QED
  BY <1>1, <1>2 DEF HeldInv, Holds, Serves, Beside, Queued

\* The first connection leaves the queue.
LEMMA Dequeued ==
  ASSUME WorkerTypeOK, NEW c \in Calls, HeldInv(c), queue # <<>>, queue' = Tail(queue)
  PROVE  /\ Queued(c)' <=> Queued(c) /\ Head(queue) # <<"call", c>>
         /\ Head(queue) = <<"call", c>> => Queued(c)
         /\ \A i, j \in 1 .. Len(queue') :
               queue'[i] = <<"call", c>> /\ queue'[j] = <<"call", c>> => i = j
<1>1. /\ Head(queue) = queue[1] /\ Len(queue) \in Nat /\ Len(queue) > 0
      /\ Len(queue') = Len(queue) - 1 /\ \A i \in 1 .. Len(queue) - 1 : queue'[i] = queue[i + 1]
  BY QueueParts DEF WorkerTypeOK
<1>2. \A i, j \in 1 .. Len(queue) : queue[i] = <<"call", c>> /\ queue[j] = <<"call", c>> => i = j
  BY DEF HeldInv
<1>3. ASSUME NEW i \in 1 .. Len(queue), queue[i] = <<"call", c>>, queue[1] # <<"call", c>>
      PROVE  i - 1 \in 1 .. Len(queue') /\ queue'[i - 1] = <<"call", c>>
  BY <1>1, <1>3
<1>4. ASSUME NEW i \in 1 .. Len(queue'), queue'[i] = <<"call", c>>
      PROVE  i + 1 \in 1 .. Len(queue) /\ queue[i + 1] = <<"call", c>> /\ queue[1] # <<"call", c>>
  <2>1. i + 1 \in 1 .. Len(queue) /\ queue[i + 1] = <<"call", c>> /\ 1 \in 1 .. Len(queue)
    BY <1>1, <1>4
  <2>2. i + 1 # 1
    BY <1>1
  <2> QED
    BY <1>2, <2>1, <2>2
<1>5. ASSUME NEW i \in 1 .. Len(queue'), NEW j \in 1 .. Len(queue'),
             queue'[i] = <<"call", c>>, queue'[j] = <<"call", c>>
      PROVE  i = j
  <2>1. i + 1 = j + 1
    BY <1>2, <1>4, <1>5
  <2> QED
    BY <1>1, <2>1
<1>6. 1 \in 1 .. Len(queue)
  BY <1>1
<1>7. Queued(c) /\ Head(queue) # <<"call", c>> => Queued(c)'
  BY <1>1, <1>3 DEF Queued
<1>8. Queued(c)' => Queued(c) /\ Head(queue) # <<"call", c>>
  BY <1>1, <1>4 DEF Queued
<1>9. Head(queue) = <<"call", c>> => Queued(c)
  BY <1>1, <1>6 DEF Queued
<1> QED
  BY <1>5, <1>7, <1>8, <1>9

\* A connection arrives.
LEMMA Enqueued ==
  ASSUME WorkerTypeOK, NEW c \in Calls, HeldInv(c), NEW connection \in Connections,
         queue' = Append(queue, connection), connection = <<"call", c>> => ~Queued(c)
  PROVE  /\ Queued(c)' <=> Queued(c) \/ connection = <<"call", c>>
         /\ \A i, j \in 1 .. Len(queue') :
               queue'[i] = <<"call", c>> /\ queue'[j] = <<"call", c>> => i = j
<1>1. /\ Len(queue) \in Nat /\ Len(queue') = Len(queue) + 1
      /\ \A i \in 1 .. Len(queue) : queue'[i] = queue[i]
      /\ queue'[Len(queue) + 1] = connection
  BY DEF WorkerTypeOK
<1>2. \A i, j \in 1 .. Len(queue) : queue[i] = <<"call", c>> /\ queue[j] = <<"call", c>> => i = j
  BY DEF HeldInv
<1>3. \A i \in 1 .. Len(queue') : i \in 1 .. Len(queue) \/ i = Len(queue) + 1
  BY <1>1
<1>4. \A i \in 1 .. Len(queue) : i \in 1 .. Len(queue')
  BY <1>1
<1>5. Len(queue) + 1 \in 1 .. Len(queue')
  BY <1>1
<1>6. Queued(c)' <=> Queued(c) \/ connection = <<"call", c>>
  BY <1>1, <1>3, <1>4, <1>5 DEF Queued
<1>7. ASSUME NEW i \in 1 .. Len(queue'), NEW j \in 1 .. Len(queue'),
             queue'[i] = <<"call", c>>, queue'[j] = <<"call", c>>
      PROVE  i = j
  <2>1. CASE i \in 1 .. Len(queue) /\ j \in 1 .. Len(queue)
    BY <1>1, <1>2, <1>7, <2>1
  <2>2. CASE i = Len(queue) + 1 /\ j \in 1 .. Len(queue)
    BY <1>1, <1>7, <2>2 DEF Queued
  <2>3. CASE i \in 1 .. Len(queue) /\ j = Len(queue) + 1
    BY <1>1, <1>7, <2>3 DEF Queued
  <2> QED
    BY <1>3, <2>1, <2>2, <2>3
<1> QED
  BY <1>6, <1>7

LEMMA WorkerKeepsHeld ==
  ASSUME WorkerInv, LoopNext \/ TaskNext \/ ChildNext \/ Tick \/ Killed, NEW c \in Calls
  PROVE  HeldInv(c)'
<1>1. WorkerTypeOK /\ HeldInv(c) /\ PlaceInv /\ ServerEffect /\ c # NoCall
      /\ <<"call", c>> # NoConnection
  BY WorkerEffect, NoCallAssumption DEF WorkerInv, NoConnection
<1>2. cpc'[c] = cpc[c] /\ kind'[c] = kind[c] /\ result'[c] = result[c]
  BY <1>1 DEF ServerEffect
<1>3. ASSUME NEW why, End(why) PROVE HeldInv(c)'
  BY <1>3, HeldNowhere DEF End, NothingInHand
<1>4. ASSUME Finish(TRUE) \/ Finish(FALSE) PROVE HeldInv(c)'
  <2>1. /\ UNCHANGED <<queue, side, pending>> /\ serving' = NoConnection
        /\ stream'[c] = IF Serves(c) THEN stream[c] \cup {"server_closed"} ELSE stream[c]
    BY <1>4, FinishEffect DEF WorkerInv
  <2> QED
    BY <1>1, <1>2, <2>1 DEF HeldInv, Holds, Serves, Beside, Queued, Interactive
<1>5. CASE TaskNext \/ ChildNext \/ Tick
  BY <1>1, <1>2, <1>5, HeldUnmoved DEF TaskNext, TypeInput, TypeInputFails, PollExited, PollBoundary,
     PollCancelled, TaskOnly, ChildNext, Tick, clientVars, calls, control
<1>6. CASE \/ Killed \/ StoreFails \/ ReturnAfterStore \/ JoinFailure \/ Expire
  BY <1>3, <1>6 DEF Killed, StoreFails, ReturnAfterStore, JoinFailure, Expire
<1>7. CASE ReadNothing \/ JoinCancelled
  BY <1>4, <1>7 DEF ReadNothing, JoinCancelled
<1>8. CASE WriteFails \/ ConcludeUnacknowledged \/ ReadAcknowledgement \/ ReadNoAcknowledgement
  BY <1>3, <1>4, <1>8 DEF WriteFails, ConcludeUnacknowledged, ReadAcknowledgement,
     ReadNoAcknowledgement, Conclude
<1>9. CASE \/ Refresh \/ Store \/ AcceptTimesOut \/ ReadRequest \/ ServeWrite \/ ServeClose
           \/ ServeCloseFails \/ StartInteraction \/ JoinTask \/ KeepLease \/ WriteResponse
  <2>1. UNCHANGED <<queue, serving, side, pending, stream>>
    BY <1>9 DEF Refresh, Store, AcceptTimesOut, ReadRequest, ServeWrite, ServeClose,
       ServeCloseFails, StartInteraction, JoinTask, KeepLease, WriteResponse, clientVars, calls
  <2> QED
    BY <1>1, <1>2, <2>1, HeldUnmoved
<1>10. CASE Accept
  <2>1. /\ UNCHANGED <<stream, side, pending>> /\ serving = NoConnection /\ queue # <<>>
        /\ serving' = Head(queue) /\ queue' = Tail(queue)
    BY <1>1, <1>10 DEF Accept, PlaceInv, calls
  <2> QED
    BY <1>1, <1>2, <2>1, Dequeued DEF HeldInv, Holds, Serves, Beside, Interactive
<1>11. CASE TakePending
  <2>1. /\ UNCHANGED <<queue, stream, side>> /\ serving = NoConnection
        /\ serving' = <<"call", pending>> /\ pending' = NoCall
    BY <1>1, <1>11 DEF TakePending, PlaceInv, clientVars, calls
  <2> QED
    BY <1>1, <1>2, <2>1 DEF HeldInv, Holds, Serves, Beside, Queued, Interactive
<1>12. CASE AcceptMeanwhile
  <2>1. /\ UNCHANGED <<stream, serving, pending>> /\ side = NoConnection /\ queue # <<>>
        /\ side' = Head(queue) /\ queue' = Tail(queue)
    BY <1>1, <1>12 DEF AcceptMeanwhile, PlaceInv, calls
  <2> QED
    BY <1>1, <1>2, <2>1, Dequeued DEF HeldInv, Holds, Serves, Beside, Interactive
<1>13. CASE CancelInteraction
  <2>1. UNCHANGED <<queue, stream, serving, pending>> /\ side' = NoConnection
    BY <1>13 DEF CancelInteraction, clientVars, calls
  <2> QED
    BY <1>1, <1>2, <2>1 DEF HeldInv, Holds, Serves, Beside, Queued, Interactive
<1>14. CASE DisplaceInteraction
  <2>1. /\ UNCHANGED <<queue, stream, serving>> /\ side' = NoConnection
        /\ pending' = side[2] /\ side[1] = "call"
    BY <1>14 DEF DisplaceInteraction, clientVars, calls
  <2>2. side = <<"call", pending'>>
    BY <1>1, <2>1 DEF WorkerTypeOK, Connections, NoConnection
  <2> QED
    BY <1>1, <1>2, <2>1, <2>2 DEF HeldInv, Holds, Serves, Beside, Queued, Interactive
<1>15. CASE DropSide
  <2>1. /\ UNCHANGED <<queue, serving, pending>> /\ side' = NoConnection
        /\ stream'[c] = IF Beside(c) THEN stream[c] \cup {"server_closed"} ELSE stream[c]
    BY <1>1, <1>15, DropEffect DEF DropSide, Beside, WorkerTypeOK
  <2> QED
    BY <1>1, <1>2, <2>1 DEF HeldInv, Holds, Serves, Beside, Queued, Interactive
<1> QED
  BY <1>5, <1>6, <1>7, <1>8, <1>9, <1>10, <1>11, <1>12, <1>13, <1>14, <1>15 DEF LoopNext

\* While a connection is not moved.
LEMMA HeldInPlace ==
  ASSUME NEW c \in Calls, HeldInv(c), UNCHANGED <<queue, serving, side, pending>>,
         Holds(c) => /\ cpc'[c] \in {"connected", "reading", "acking", "done"}
                     /\ "server_closed" \notin stream'[c]
                     /\ cpc'[c] = "done" /\ Interactive(c)' /\ "acknowledged" \notin stream'[c] =>
                           result'[c].status = "dropped"
  PROVE  HeldInv(c)'
  BY DEF HeldInv, Holds, Serves, Beside, Queued

LEMMA CallersKeepHeld ==
  ASSUME WorkerInv, CallNext, NEW c \in Calls
  PROVE  HeldInv(c)'
<1>1. /\ WorkerTypeOK /\ HeldInv(c) /\ CallInv(c) /\ UNCHANGED <<serving, side, pending>>
      /\ <<"call", c>> # NoConnection
  BY NoCallAssumption DEF WorkerInv, CallNext, control, NoConnection
<1>2. PICK d \in Calls :
        \/ \E k \in Kinds : Connect(d, k) \/ ConnectMissing(d, k)
        \/ Proceed(d)
        \/ Vanish(d)
        \/ CancelArrives(d)
        \/ CancelLost(d)
  BY DEF CallNext, ClientNext
<1>3. CallerEffect(d) /\ HeldInv(d) /\ CallInv(d)
  BY <1>2, CallersEffect DEF WorkerInv
<1>4. CASE \E k \in Kinds : Connect(d, k)
  <2>1. /\ cpc[d] = "idle" /\ cpc'[d] = "connected" /\ stream' = stream /\ result' = result
        /\ queue' = Append(queue, <<"call", d>>) /\ <<"call", d>> \in Connections
    BY <1>1, <1>4 DEF Connect, Goto, WorkerTypeOK, Connections
  <2>2. ~Holds(d) /\ stream[d] = {}
    BY <1>3, <2>1 DEF HeldInv, CallInv
  <2>3. /\ Queued(c)' <=> Queued(c) \/ c = d
        /\ \A i, j \in 1 .. Len(queue') :
              queue'[i] = <<"call", c>> /\ queue'[j] = <<"call", c>> => i = j
    BY <1>1, <2>1, <2>2, Enqueued DEF Holds
  <2>4. CASE c = d
    BY <1>1, <2>1, <2>2, <2>3, <2>4 DEF HeldInv, Holds, Serves, Beside
  <2>5. CASE c # d
    BY <1>1, <1>3, <2>1, <2>3, <2>5 DEF HeldInv, Holds, Serves, Beside, CallerEffect, Interactive
  <2> QED
    BY <2>4, <2>5
<1>5. CASE CancelArrives(d)
  <2>1. /\ UNCHANGED <<cpc, kind, stream, result>>
        /\ queue' = Append(queue, <<"cancel", d>>) /\ <<"cancel", d>> \in Connections
    BY <1>5 DEF CancelArrives, Connections
  <2>2. /\ Queued(c)' <=> Queued(c)
        /\ \A i, j \in 1 .. Len(queue') :
              queue'[i] = <<"call", c>> /\ queue'[j] = <<"call", c>> => i = j
    BY <1>1, <2>1, Enqueued
  <2> QED
    BY <1>1, <2>1, <2>2 DEF HeldInv, Holds, Serves, Beside, Interactive
<1>6. CASE \/ \E k \in Kinds : ConnectMissing(d, k)
           \/ Proceed(d)
           \/ Vanish(d)
           \/ CancelLost(d)
  <2>1. queue' = queue
    BY <1>6 DEF ConnectMissing, Proceed, SendRequest, SendFails, Receive, Disconnected, Acknowledge,
       AcknowledgeFails, TakeRead, TakeRemove, Vanish, CancelLost
  <2>2. CASE c # d
    BY <1>1, <1>3, <2>1, <2>2, HeldUnmoved DEF CallerEffect
  <2>3. ASSUME c = d, ~Holds(c) PROVE HeldInv(c)'
    BY <1>1, <2>1, <2>3, HeldInPlace
  <2>4. CASE c = d /\ \/ \E k \in Kinds : ConnectMissing(d, k)
                      \/ SendFails(d) \/ Disconnected(d) \/ AcknowledgeFails(d)
                      \/ TakeRead(d) \/ TakeRemove(d)
    <3>1. ~Holds(c)
      BY <1>1, <2>4 DEF HeldInv, ConnectMissing, SendFails, Disconnected, AcknowledgeFails,
         TakeRead, TakeRemove
    <3> QED
      BY <2>3, <2>4, <3>1
  <2>5. CASE c = d /\ SendRequest(d)
    BY <1>1, <1>3, <2>1, <2>5, HeldInPlace, ZenonT(40) DEF SendRequest, Goto, CallerEffect, WorkerTypeOK, HeldInv
  <2>6. CASE c = d /\ Receive(d)
    <3>1. kind' = kind
      BY <2>6 DEF Receive, Return
    <3>2. IF Interactive(c) THEN cpc'[c] = "acking" ELSE cpc'[c] = "done"
      BY <1>1, <2>6 DEF Receive, Return, Goto, WorkerTypeOK
    <3> QED
      BY <1>1, <1>3, <2>1, <2>6, <3>1, <3>2, HeldInPlace DEF CallerEffect, HeldInv, Interactive
  <2>7. CASE c = d /\ Acknowledge(d)
    <3>1. cpc'[c] = "done" /\ stream'[c] = stream[c] \cup {"acknowledged", "client_closed"}
      BY <1>1, <2>7 DEF Acknowledge, Goto, WorkerTypeOK
    <3> QED
      BY <1>1, <2>1, <3>1, HeldInPlace DEF HeldInv
  <2>8. CASE c = d /\ Vanish(d)
    <3>1. /\ cpc'[c] = "done" /\ stream'[c] = stream[c] \cup {"client_closed"}
          /\ result'[c].status = "dropped"
      BY <1>1, <2>8, ReturnEffect DEF Vanish, Plain, Response
    <3> QED
      BY <1>1, <2>1, <3>1, HeldInPlace DEF HeldInv
  <2>9. CASE c = d /\ CancelLost(d)
    BY <1>1, <2>1, <2>9, HeldUnmoved DEF CancelLost
  <2> QED
    BY <1>6, <2>2, <2>4, <2>5, <2>6, <2>7, <2>8, <2>9 DEF Proceed
<1> QED
  BY <1>2, <1>4, <1>5, <1>6

-------------------------------------------------------------------------------
(* What the worker has in hand *)

LEMMA WorkerKeepsPlace ==
  ASSUME WorkerInv, LoopNext \/ TaskNext \/ ChildNext \/ Tick \/ Killed
  PROVE  PlaceInv'
<1>1. WorkerTypeOK /\ PlaceInv /\ ServerEffect /\ NoCall \notin Calls
      /\ \A c \in Calls : <<"call", c>> # NoConnection
  BY WorkerEffect, NoCallAssumption DEF WorkerInv, NoConnection
<1>2. \A c \in Calls : "requested" \in stream[c] => "requested" \in stream'[c]
  BY <1>1 DEF ServerEffect
<1>3. \A c \in Calls : c # NoCall
  BY NoCallAssumption
<1>4. ASSUME NEW why, why # "none", End(why) PROVE PlaceInv'
  <2>1. /\ pc' = "ended" /\ ending' # "none" /\ listening' = FALSE /\ queue' = <<>>
        /\ serving' = NoConnection /\ task' = "none" /\ side' = NoConnection /\ pending' = NoCall
    BY <1>4 DEF End, NothingInHand
  <2> QED
    BY <1>3, <2>1 DEF PlaceInv, InHand
<1>5. ASSUME Finish(TRUE) \/ Finish(FALSE), pc # "read_side", pc # "ended" PROVE PlaceInv'
  <2>1. /\ UNCHANGED <<listening, side, pending, ending>> /\ serving' = NoConnection
        /\ task' = "none" /\ pc' = "lease"
    BY <1>5 DEF Finish, NothingInHand
  <2> QED
    BY <1>1, <1>2, <1>5, <2>1 DEF PlaceInv, InHand
<1>6. CASE TaskNext
  BY <1>1, <1>2, <1>6 DEF TaskNext, TypeInput, TypeInputFails, PollExited, PollBoundary,
     PollCancelled, TaskOnly, clientVars, PlaceInv, InHand, Serves
<1>7. CASE ChildNext \/ Tick
  <2>1. UNCHANGED <<pc, ending, listening, queue, serving, task, side, pending>>
    BY <1>7 DEF ChildNext, Tick, clientVars, control
  <2> QED
    BY <1>1, <1>2, <2>1 DEF PlaceInv, InHand, Serves
<1>8. CASE \/ Killed \/ StoreFails \/ ReturnAfterStore \/ JoinFailure \/ Expire
  BY <1>4, <1>8 DEF Killed, StoreFails, ReturnAfterStore, JoinFailure, Expire
<1>9. CASE ReadNothing \/ JoinCancelled
  BY <1>5, <1>9 DEF ReadNothing, JoinCancelled
<1>10. CASE WriteFails \/ ConcludeUnacknowledged \/ ReadAcknowledgement \/ ReadNoAcknowledgement
  BY <1>4, <1>5, <1>10 DEF WriteFails, ConcludeUnacknowledged, ReadAcknowledgement,
     ReadNoAcknowledgement, Conclude
<1>11. CASE Refresh \/ Store \/ AcceptTimesOut \/ KeepLease
  BY <1>1, <1>2, <1>11 DEF Refresh, Store, AcceptTimesOut, KeepLease, clientVars, calls, lease,
     PlaceInv, InHand, Serves
<1>12. CASE ServeWrite \/ ServeClose \/ ServeCloseFails \/ StartInteraction \/ JoinTask \/ WriteResponse
  BY <1>1, <1>2, <1>12 DEF ServeWrite, ServeClose, ServeCloseFails, StartInteraction, JoinTask,
     WriteResponse, clientVars, calls, lease, PlaceInv, InHand, Serves
<1>13. CASE Accept
  <2>1. serving' \in Connections
    BY <1>1, <1>13, QueueParts DEF Accept, WorkerTypeOK
  <2>2. serving' # NoConnection
    BY <1>1, <2>1 DEF Connections, NoConnection
  <2> QED
    BY <1>1, <1>2, <1>13, <2>2 DEF Accept, calls, lease, PlaceInv, InHand
<1>14. CASE TakePending
  <2>1. pending \in Calls
    BY <1>1, <1>14 DEF TakePending, WorkerTypeOK
  <2> QED
    BY <1>1, <1>2, <1>3, <1>14, <2>1 DEF TakePending, clientVars, calls, lease, PlaceInv, InHand, Serves
<1>15. CASE ReadRequest
  <2>1. \E c \in Calls : Serves(c) /\ "requested" \in stream[c]
    BY <1>1, <1>15 DEF ReadRequest, PlaceInv, WorkerTypeOK, Connections, Serves
  <2> QED
    BY <1>1, <1>2, <1>15, <2>1 DEF ReadRequest, clientVars, calls, lease, PlaceInv, InHand, Serves
<1>16. CASE AcceptMeanwhile
  <2>1. side' \in Connections
    BY <1>1, <1>16, QueueParts DEF AcceptMeanwhile, WorkerTypeOK
  <2>2. side' # NoConnection
    BY <1>1, <2>1 DEF Connections, NoConnection
  <2> QED
    BY <1>1, <1>2, <1>16, <2>2 DEF AcceptMeanwhile, calls, lease, PlaceInv, InHand, Serves
<1>17. CASE CancelInteraction \/ DropSide
  BY <1>1, <1>2, <1>17 DEF CancelInteraction, DropSide, clientVars, calls, lease, PlaceInv, InHand,
     Serves
<1>18. CASE DisplaceInteraction
  <2>1. side[2] \in Calls /\ "requested" \in stream[side[2]]
    BY <1>1, <1>18 DEF DisplaceInteraction, PlaceInv, WorkerTypeOK, Connections
  <2> QED
    BY <1>1, <1>2, <1>18, <2>1 DEF DisplaceInteraction, clientVars, calls, lease, PlaceInv, InHand,
       Serves
<1> QED
  BY <1>6, <1>7, <1>8, <1>9, <1>10, <1>11, <1>12, <1>13, <1>14, <1>15, <1>16, <1>17, <1>18 DEF LoopNext

\* Steps of callers leave the worker where it is.
LEMMA CallersLeaveWorker ==
  ASSUME WorkerInv, CallNext
  PROVE  /\ UNCHANGED <<child, job, control, lease, ending, listening>>
         /\ \A c \in Calls : "requested" \in stream[c] => "requested" \in stream'[c]
         /\ queue = <<>> /\ ~listening => queue' = <<>>
<1>1. PICK d \in Calls :
        \/ \E k \in Kinds : Connect(d, k) \/ ConnectMissing(d, k)
        \/ Proceed(d)
        \/ Vanish(d)
        \/ CancelArrives(d)
        \/ CancelLost(d)
  BY DEF CallNext, ClientNext
<1>2. CallerEffect(d)
  BY <1>1, CallersEffect
<1>3. UNCHANGED <<child, job, control, lease, ending>>
  BY DEF CallNext
<1>4. listening' = listening /\ (queue = <<>> /\ ~listening => queue' = <<>>)
  BY <1>1 DEF Connect, ConnectMissing, Proceed, SendRequest, SendFails, Receive, Disconnected,
     Acknowledge, AcknowledgeFails, TakeRead, TakeRemove, Vanish, CancelArrives, CancelLost
<1>5. \A c \in Calls : "requested" \in stream[c] => "requested" \in stream'[c]
  BY <1>2 DEF CallerEffect
<1> QED
  BY <1>3, <1>4, <1>5

LEMMA CallersKeepPlace ==
  ASSUME WorkerInv, CallNext
  PROVE  PlaceInv'
  BY CallersLeaveWorker DEF WorkerInv, PlaceInv, InHand, Serves, control, child, job, lease

-------------------------------------------------------------------------------
(* The response in hand *)

\* The output since the checkpoint.
LEMMA OutputIsSound ==
  ASSUME WorkerTypeOK, acked' = acked, acked <= produced, produced' = produced,
         NEW status \in TerminalStatuses, NEW final \in BOOLEAN, final => ptyClosed',
         response' = Output(status, final)
  PROVE  Sound(response)' /\ response'.status = status /\ response'.final = final
  BY DEF Output, Response, Sound, TerminalStatuses, WorkerTypeOK

\* Nothing in it.
LEMMA PlainIsSound ==
  ASSUME NEW status, status \notin TerminalStatuses, response' = Plain(status)
  PROVE  Sound(response)' /\ response'.status = status
  BY DEF Plain, Response, Sound

LEMMA WorkerKeepsResponse ==
  ASSUME WorkerInv, LoopNext \/ TaskNext \/ ChildNext \/ Tick \/ Killed
  PROVE  ResponseInv'
<1>1. /\ WorkerTypeOK /\ PlaceInv /\ ResponseInv /\ kind' = kind /\ UNCHANGED cpc
      /\ acked \in Nat /\ produced \in Nat /\ response.to \in Nat
  BY WorkerEffect DEF WorkerInv, ServerEffect, WorkerTypeOK, Responses
<1>2. ASSUME NEW why, End(why), UNCHANGED <<ptyClosed, produced, acked, exited, eof>>
      PROVE  ResponseInv'
  BY <1>1, <1>2 DEF End, NothingInHand, ResponseInv
<1>3. ASSUME Finish(TRUE) \/ Finish(FALSE), UNCHANGED <<ptyClosed, produced, acked, exited, eof>>
      PROVE  ResponseInv'
  <2>1. task' = "none" /\ pc' = "lease"
    BY <1>3 DEF Finish, NothingInHand
  <2> QED
    BY <1>1, <1>3, <2>1 DEF ResponseInv
<1>4. CASE TypeInput \/ TypeInputFails \/ PollCancelled
  BY <1>1, <1>4 DEF TypeInput, TypeInputFails, PollCancelled, Observe, TaskOnly, child, ResponseInv,
     Sound, Interactive, PlaceInv
<1>5. CASE PollExited \/ PollBoundary
  <2>1. /\ UNCHANGED <<acked, pc, serving, produced, ptyClosed>> /\ eof' = ptyClosed
        /\ task = "polling" /\ task' = "completed"
    BY <1>5 DEF PollExited, PollBoundary, Observe, TaskOnly, child
  <2>2. Sound(response)' /\ response'.status \in {"running", "exited"}
    <3>1. acked <= produced
      BY <1>1 DEF ResponseInv
    <3>2. CASE PollExited
      <4>1. response' = Output("exited", eof') /\ eof' \in BOOLEAN
        BY <1>1, <2>1, <3>2 DEF PollExited, WorkerTypeOK
      <4> QED
        BY <1>1, <2>1, <3>1, <4>1, OutputIsSound DEF TerminalStatuses
    <3>3. CASE PollBoundary
      BY <1>1, <2>1, <3>1, <3>3, OutputIsSound DEF PollBoundary, TerminalStatuses
    <3> QED
      BY <1>5, <3>2, <3>3
  <2> QED
    BY <1>1, <2>1, <2>2 DEF ResponseInv, Interactive, PlaceInv
<1>6. CASE ChildNext \/ Tick
  <2>1. UNCHANGED <<acked, eof, pc, serving, task, response>>
    BY <1>6 DEF ChildNext, Tick, job, control
  <2>2. ptyClosed => ptyClosed'
    BY <1>6 DEF ChildNext, Produce, ChildExits, PtyCloses, Tick, child
  <2>3. \/ ~ptyClosed /\ produced' = produced + 1
        \/ produced' = produced
    BY <1>6 DEF ChildNext, Produce, ChildExits, PtyCloses, Tick, child
  <2>4. produced' \in Nat /\ produced <= produced' /\ (ptyClosed => produced' = produced)
    BY <1>1, <2>3
  <2>5. Sound(response) => Sound(response)'
    BY <1>1, <2>1, <2>2, <2>4 DEF Sound
  <2> QED
    BY <1>1, <2>1, <2>2, <2>4, <2>5 DEF ResponseInv, Interactive
<1>7. CASE \/ Killed \/ StoreFails \/ ReturnAfterStore \/ JoinFailure \/ Expire
  BY <1>2, <1>7 DEF Killed, StoreFails, ReturnAfterStore, JoinFailure, Expire, child, job
<1>8. CASE ReadNothing \/ JoinCancelled
  BY <1>3, <1>8 DEF ReadNothing, JoinCancelled, child, job
<1>9. CASE WriteFails \/ ConcludeUnacknowledged \/ ReadNoAcknowledgement
  BY <1>2, <1>3, <1>9 DEF WriteFails, ConcludeUnacknowledged, ReadNoAcknowledgement, Conclude, child,
     job
<1>10. CASE ReadAcknowledgement
  <2>1. /\ UNCHANGED <<ptyClosed, produced, eof>> /\ acked' = response.to /\ pc = "ack"
    BY <1>10 DEF ReadAcknowledgement, child
  <2>2. task' = "none" /\ pc' \in {"lease", "ended"}
    <3>1. End(IF Closing THEN "closed" ELSE "answered") \/ Finish(TRUE)
      BY <1>10 DEF ReadAcknowledgement, Conclude
    <3> QED
      BY <3>1 DEF End, Finish, NothingInHand
  <2>3. acked' <= produced'
    <3>1. Sound(response) /\ response.status \in TerminalStatuses
      BY <1>1, <2>1 DEF ResponseInv, TerminalStatuses
    <3> QED
      BY <2>1, <3>1 DEF Sound
  <2> QED
    BY <1>1, <2>1, <2>2, <2>3 DEF ResponseInv
<1>11. CASE Refresh
  <2>1. /\ UNCHANGED <<acked, serving, produced, ptyClosed, task>> /\ eof' = ptyClosed
        /\ pc = "loop" /\ task = "none"
        /\ \/ pc' = "accept"
           \/ pc' = "store" /\ eof' = TRUE /\ response' = Output("exited", TRUE)
    BY <1>1, <1>11 DEF Refresh, Observe, child, PlaceInv
  <2>2. pc' = "store" => Sound(response)' /\ response'.status = "exited" /\ response'.final
    BY <1>1, <2>1, OutputIsSound DEF ResponseInv, TerminalStatuses
  <2> QED
    BY <1>1, <2>1, <2>2 DEF ResponseInv
<1>12. CASE \/ Store \/ Accept \/ AcceptTimesOut \/ TakePending \/ ReadRequest \/ KeepLease
  <2>1. UNCHANGED <<acked, produced, ptyClosed, eof, task>> /\ task = "none"
        /\ pc' \in {"return", "lease", "read", "dispatch", "loop"}
    BY <1>1, <1>12 DEF Store, Accept, AcceptTimesOut, TakePending, ReadRequest, KeepLease, child, job,
       PlaceInv
  <2> QED
    BY <1>1, <2>1 DEF ResponseInv
<1>13. CASE ServeWrite
  <2>1. /\ UNCHANGED <<acked, serving, produced, ptyClosed, task>> /\ task = "none"
        /\ eof' \in {eof, ptyClosed} /\ pc' = "write"
        /\ response' \in {Plain("written"), Plain("failed")} /\ kind[serving[2]] = "write"
    BY <1>1, <1>13 DEF ServeWrite, Observe, child, PlaceInv
  <2>2. Sound(response)' /\ response'.status \in {"written", "failed"}
    BY <2>1, PlainIsSound DEF TerminalStatuses
  <2> QED
    BY <1>1, <2>1, <2>2 DEF ResponseInv, Interactive, InteractKinds
<1>14. CASE ServeClose
  <2>1. /\ UNCHANGED <<acked, serving, produced, task>> /\ task = "none"
        /\ eof' = ptyClosed' /\ pc' = "write" /\ ptyClosed' \in BOOLEAN
        /\ response' = Output("closed", eof') /\ kind[serving[2]] = "close"
    BY <1>1, <1>14 DEF ServeClose, PlaceInv, WorkerTypeOK
  <2>2. Sound(response)' /\ response'.status = "closed"
    BY <1>1, <2>1, OutputIsSound DEF TerminalStatuses, ResponseInv
  <2> QED
    BY <1>1, <2>1, <2>2 DEF ResponseInv, Interactive, InteractKinds
<1>15. CASE ServeCloseFails
  <2>1. /\ UNCHANGED <<acked, serving, produced, ptyClosed, task>> /\ task = "none"
        /\ eof' = ptyClosed /\ pc' = "write"
        /\ response' = Plain("failed") /\ kind[serving[2]] = "close"
    BY <1>1, <1>15 DEF ServeCloseFails, child, PlaceInv
  <2>2. Sound(response)' /\ response'.status = "failed"
    BY <2>1, PlainIsSound DEF TerminalStatuses
  <2> QED
    BY <1>1, <2>1, <2>2 DEF ResponseInv, Interactive, InteractKinds
<1>16. CASE StartInteraction
  BY <1>1, <1>16 DEF StartInteraction, child, job, ResponseInv, Interactive
<1>17. CASE JoinTask
  <2>1. /\ UNCHANGED <<acked, serving, produced, ptyClosed, eof, response>> /\ task = "completed"
        /\ task' = "none" /\ pc' = "write"
    BY <1>17 DEF JoinTask, child, job
  <2>2. Sound(response) => Sound(response)'
    BY <2>1 DEF Sound
  <2> QED
    BY <1>1, <2>1, <2>2 DEF ResponseInv, Interactive
<1>18. CASE AcceptMeanwhile \/ CancelInteraction \/ DisplaceInteraction \/ DropSide
  <2>1. /\ UNCHANGED <<acked, serving, produced, ptyClosed, eof, response, task>>
        /\ pc' \in {"read_side", "join", "interact"}
    BY <1>18 DEF AcceptMeanwhile, CancelInteraction, DisplaceInteraction, DropSide, child, job
  <2>2. Sound(response) => Sound(response)'
    BY <2>1 DEF Sound
  <2> QED
    BY <1>1, <2>1, <2>2 DEF ResponseInv, Interactive
<1>19. CASE WriteResponse
  <2>1. /\ UNCHANGED <<serving, produced, ptyClosed, eof, response, task>> /\ task = "none"
        /\ acked' = IF response.status = "closed" THEN response.to ELSE acked
        /\ pc' = IF Interactive(serving[2]) THEN "ack" ELSE "conclude"
        /\ pc = "write"
    BY <1>1, <1>19 DEF WriteResponse, child, PlaceInv
  <2>2. Sound(response) /\ acked' <= produced'
    BY <1>1, <2>1 DEF ResponseInv, Sound, TerminalStatuses
  <2>3. CASE Interactive(serving[2])
    <3>1. response.status \in {"running", "exited"} /\ acked' = acked /\ pc' = "ack"
      BY <1>1, <2>1, <2>3 DEF ResponseInv
    <3>2. Sound(response)'
      BY <2>1, <2>2, <3>1 DEF Sound
    <3> QED
      BY <1>1, <2>1, <2>2, <2>3, <3>1, <3>2 DEF ResponseInv, Interactive
  <2>4. CASE ~Interactive(serving[2])
    BY <1>1, <2>1, <2>2, <2>4 DEF ResponseInv, Interactive
  <2> QED
    BY <2>3, <2>4
<1> QED
  BY <1>4, <1>5, <1>6, <1>7, <1>8, <1>9, <1>10, <1>11, <1>12, <1>13, <1>14, <1>15, <1>16, <1>17,
     <1>18, <1>19 DEF LoopNext, TaskNext

\* The kind of a call does not change while the worker has its connection.
LEMMA CallersKeepKinds ==
  ASSUME WorkerInv, CallNext, NEW c \in Calls, cpc[c] # "idle"
  PROVE  kind'[c] = kind[c]
<1>1. PICK d \in Calls :
        \/ \E k \in Kinds : Connect(d, k) \/ ConnectMissing(d, k)
        \/ Proceed(d)
        \/ Vanish(d)
        \/ CancelArrives(d)
        \/ CancelLost(d)
  BY DEF CallNext, ClientNext
<1>2. CASE c # d
  BY <1>1, <1>2, CallersEffect DEF CallerEffect
<1>3. CASE c = d
  <2>1. kind' = kind
    BY <1>1, <1>3 DEF Connect, ConnectMissing, Proceed, SendRequest, SendFails, Receive, Disconnected,
       Acknowledge, AcknowledgeFails, TakeRead, TakeRemove, Vanish, CancelArrives, CancelLost, Return
  <2> QED
    BY <2>1
<1> QED
  BY <1>2, <1>3

LEMMA CallersKeepServed ==
  ASSUME WorkerInv, CallNext, pc \in InHand
  PROVE  /\ \E c \in Calls : Serves(c) /\ serving[2] = c /\ cpc[c] # "idle"
         /\ kind'[serving[2]] = kind[serving[2]]
<1>1. PICK c \in Calls : Serves(c)
  BY DEF WorkerInv, PlaceInv
<1>2. serving[2] = c /\ cpc[c] # "idle"
  BY <1>1 DEF Serves, WorkerInv, HeldInv, Holds
<1> QED
  BY <1>1, <1>2, CallersKeepKinds

LEMMA CallersKeepResponse ==
  ASSUME WorkerInv, CallNext
  PROVE  ResponseInv'
<1>1. ResponseInv /\ PlaceInv /\ UNCHANGED <<child, job, control>>
  BY CallersLeaveWorker DEF WorkerInv
<1>2. pc \in InHand => kind'[serving[2]] = kind[serving[2]]
  BY CallersKeepServed
<1>3. Sound(response) <=> Sound(response)'
  BY <1>1 DEF Sound, child, job, control
<1>4. task # "none" => pc \in InHand
  BY <1>1 DEF PlaceInv, InHand
<1>5. pc \in {"write", "ack", "conclude"} => pc \in InHand
  BY DEF InHand
<1> QED
  BY <1>1, <1>2, <1>3, <1>4, <1>5 DEF ResponseInv, Interactive, child, job, control

-------------------------------------------------------------------------------
(* What callers have read *)

LEMMA EndsAtKept ==
  ASSUME NEW f, NEW g, NEW d \in Calls, \A c \in Calls \ {d} : g[c] = f[c],
         f[d].to = 0, g[d].to = 0, NEW n
  PROVE  EndsAt(n, f) <=> EndsAt(n, g)
<1>1. \A c \in Calls : g[c].to = f[c].to
  OBVIOUS
<1> QED
  BY <1>1 DEF EndsAt

LEMMA EndsAtMoves ==
  ASSUME NEW f \in [Calls -> Responses], NEW g \in [Calls -> Responses], NEW d \in Calls,
         \A c \in Calls \ {d} : g[c] = f[c], f[d].to = 0, NEW n \in Nat, EndsAt(n, f), n <= g[d].to
  PROVE  EndsAt(g[d].to, g)
<1>1. \A c \in Calls : f[c].to <= n /\ f[c].to \in Nat
  BY DEF EndsAt, Responses
<1>2. g[d].to \in Nat
  BY DEF Responses
<1>3. ASSUME NEW c \in Calls PROVE g[c].to <= g[d].to
  <2>1. CASE c = d
    BY <1>2, <2>1
  <2>2. CASE c # d
    <3>1. g[c].to = f[c].to
      BY <2>2
    <3>2. g[c].to <= n /\ g[c].to \in Nat
      BY <1>1, <3>1
    <3> QED
      BY <1>2, <3>2
  <2> QED
    BY <2>1, <2>2
<1> QED
  BY <1>3 DEF EndsAt

\* What a call returns: no output, or the output that comes next.
Returns(d, r) ==
    /\ result[d] = NoResponse /\ result' = [result EXCEPT ![d] = r]

ReturnsNothing(d) ==
    \E r \in Responses : /\ Returns(d, r) /\ r.status \notin TerminalStatuses
                         /\ r.to = 0 /\ ~r.final

ReturnsAcknowledged(d) ==
    /\ Returns(d, response) /\ pc = "ack" /\ Serves(d) /\ "acknowledged" \in stream'[d]
    /\ "acknowledged" \notin stream[d]
    /\ UNCHANGED spool

ReturnsClosed(d) ==
    /\ Returns(d, inbox[d]) /\ AnswersClose(d) /\ UNCHANGED <<spool, kind>>

ReturnsSpooled(d) ==
    /\ Returns(d, spool) /\ spool # NoResponse /\ spool' = NoResponse
    /\ UNCHANGED kind

LEMMA PlainReturns ==
  ASSUME NEW d \in Calls, result[d] = NoResponse,
         NEW status \in Statuses \ TerminalStatuses,
         result' = [result EXCEPT ![d] = Plain(status)]
  PROVE  ReturnsNothing(d)
<1>1. Plain(status) \in Responses
  BY ResponseTypes
<1> QED
  BY <1>1 DEF ReturnsNothing, Returns, Plain, Response

LEMMA AcknowledgeReturns ==
  ASSUME WorkerInv, NEW d \in Calls, Acknowledge(d)
  PROVE  ReturnsAcknowledged(d)
<1>1. WorkerTypeOK /\ CallInv(d) /\ InboxInv(d)
  BY DEF WorkerInv
<1>2. /\ cpc[d] = "acking" /\ "server_closed" \notin stream[d] /\ spool' = spool
      /\ result' = [result EXCEPT ![d] = inbox[d]] /\ "acknowledged" \in stream'[d]
  BY <1>1 DEF Acknowledge, WorkerTypeOK
<1>3. AnswersInteraction(d)
  BY <1>1, <1>2 DEF InboxInv, FromSpool, WithoutOutput, AnswersClose
<1> QED
  BY <1>1, <1>2, <1>3 DEF AnswersInteraction, ReturnsAcknowledged, Returns, CallInv

LEMMA CallReturns ==
  ASSUME WorkerInv, NEW d \in Calls,
         \/ \E k \in Kinds : Connect(d, k) \/ ConnectMissing(d, k)
         \/ Proceed(d)
         \/ Vanish(d)
         \/ CancelArrives(d)
         \/ CancelLost(d)
  PROVE  \/ UNCHANGED <<result, spool>>
         \/ ReturnsNothing(d) /\ UNCHANGED spool
         \/ ReturnsAcknowledged(d) \/ ReturnsClosed(d) \/ ReturnsSpooled(d)
<1> DEFINE Goal == \/ UNCHANGED <<result, spool>>
                   \/ ReturnsNothing(d) /\ spool' = spool
                   \/ ReturnsAcknowledged(d) \/ ReturnsClosed(d) \/ ReturnsSpooled(d)
<1>1. WorkerTypeOK /\ CallInv(d) /\ InboxInv(d)
  BY DEF WorkerInv
<1>2. ASSUME NEW status \in Statuses \ TerminalStatuses, Return(d, Plain(status)), cpc[d] # "done",
             spool' = spool
      PROVE  Goal
  BY <1>1, <1>2, PlainReturns DEF Return, CallInv
<1>3. {"not_found", "error", "dropped"} \subseteq Statuses \ TerminalStatuses
  BY DEF Statuses, TerminalStatuses
<1>4. CASE \E k \in Kinds : Connect(d, k)
  BY <1>4 DEF Connect
<1>5. CASE \E k \in Kinds : ConnectMissing(d, k)
  <2>1. cpc[d] = "idle" /\ spool' = spool
        /\ \/ result' = result
           \/ result' = [result EXCEPT ![d] = Plain("not_found")]
    BY <1>5 DEF ConnectMissing
  <2> QED
    BY <1>1, <1>3, <2>1, PlainReturns DEF CallInv
<1>6. CASE SendRequest(d) \/ CancelArrives(d) \/ CancelLost(d)
  BY <1>6 DEF SendRequest, CancelArrives, CancelLost
<1>7. CASE SendFails(d) \/ AcknowledgeFails(d) \/ Vanish(d)
  BY <1>2, <1>3, <1>7 DEF SendFails, AcknowledgeFails, Vanish
<1>8. CASE Receive(d)
  <2>1. CASE Interactive(d)
    BY <1>8, <2>1 DEF Receive
  <2>2. CASE ~Interactive(d)
    <3>1. /\ cpc[d] = "reading" /\ result' = [result EXCEPT ![d] = inbox[d]]
          /\ UNCHANGED <<spool, kind>> /\ inbox[d] # NoResponse /\ result[d] = NoResponse
      BY <1>1, <1>8, <2>2 DEF Receive, Return, CallInv
    <3>2. CASE WithoutOutput(d)
      <4>1. inbox[d] \in Responses
        BY <1>1 DEF WorkerTypeOK
      <4> QED
        BY <3>1, <3>2, <4>1 DEF WithoutOutput, ReturnsNothing, Returns, TerminalStatuses
    <3>3. CASE AnswersClose(d)
      BY <3>1, <3>3 DEF ReturnsClosed, Returns
    <3> QED
      BY <1>1, <2>2, <3>1, <3>2, <3>3 DEF InboxInv, FromSpool, AnswersInteraction
  <2> QED
    BY <2>1, <2>2
<1>9. CASE Disconnected(d)
  BY <1>2, <1>3, <1>9 DEF Disconnected
<1>10. CASE Acknowledge(d)
  BY <1>10, AcknowledgeReturns
<1>11. CASE TakeRead(d)
  BY <1>2, <1>3, <1>11 DEF TakeRead
<1>12. CASE TakeRemove(d)
  <2>1. CASE spool = NoResponse
    BY <1>2, <1>3, <1>12, <2>1 DEF TakeRemove
  <2>2. CASE spool # NoResponse
    <3>1. /\ cpc[d] = "removing" /\ result' = [result EXCEPT ![d] = inbox[d]]
          /\ spool' = NoResponse /\ kind' = kind
      BY <1>12, <2>2 DEF TakeRemove, Return
    <3>2. inbox[d] = spool
      BY <1>1, <2>2, <3>1 DEF InboxInv, FromSpool, WithoutOutput, AnswersClose, AnswersInteraction
    <3> QED
      BY <1>1, <2>2, <3>1, <3>2 DEF ReturnsSpooled, Returns, CallInv
  <2> QED
    BY <2>1, <2>2
<1>13. Goal
  BY <1>4, <1>5, <1>6, <1>7, <1>8, <1>9, <1>10, <1>11, <1>12 DEF Proceed
<1> QED
  BY <1>13

-------------------------------------------------------------------------------
(* Responses that wait for their callers *)

\* The output of the job only grows, and not once its terminal is closed.
LEMMA OutputGrows ==
  ASSUME WorkerInv, LoopNext \/ TaskNext \/ ChildNext \/ Tick \/ Killed
  PROVE  /\ produced \in Nat /\ produced' \in Nat /\ produced <= produced'
         /\ ptyClosed => ptyClosed' /\ produced' = produced
<1>1. produced \in Nat
  BY DEF WorkerInv, WorkerTypeOK
<1>2. CASE ChildNext
  <2>1. CASE Produce
    BY <1>1, <2>1 DEF Produce
  <2>2. CASE ChildExits \/ PtyCloses
    BY <1>1, <2>2 DEF ChildExits, PtyCloses
  <2> QED
    BY <1>2, <2>1, <2>2 DEF ChildNext
<1>3. CASE TaskNext \/ Tick \/ Killed
  <2>1. UNCHANGED <<produced, ptyClosed>>
    BY <1>3 DEF TaskNext, TypeInput, TypeInputFails, PollExited, PollBoundary, PollCancelled,
       TaskOnly, Tick, Killed, child
  <2> QED
    BY <1>1, <2>1
<1>4. CASE LoopNext
  <2>1. produced' = produced
    BY <1>4 DEF LoopNext, Refresh, Store, StoreFails, ReturnAfterStore, Accept, AcceptTimesOut,
       TakePending, ReadRequest, ReadNothing, ServeWrite, ServeClose, ServeCloseFails,
       StartInteraction, JoinTask, JoinFailure, AcceptMeanwhile, CancelInteraction,
       DisplaceInteraction, DropSide, JoinCancelled, WriteFails, WriteResponse,
       ConcludeUnacknowledged, ReadAcknowledgement, ReadNoAcknowledgement, KeepLease, Expire, child
  <2>2. ptyClosed => ptyClosed'
    BY <1>4 DEF LoopNext, Refresh, Store, StoreFails, ReturnAfterStore, Accept, AcceptTimesOut,
       TakePending, ReadRequest, ReadNothing, ServeWrite, ServeClose, ServeCloseFails,
       StartInteraction, JoinTask, JoinFailure, AcceptMeanwhile, CancelInteraction,
       DisplaceInteraction, DropSide, JoinCancelled, WriteFails, WriteResponse,
       ConcludeUnacknowledged, ReadAcknowledgement, ReadNoAcknowledgement, KeepLease, Expire, child
  <2> QED
    BY <1>1, <2>1, <2>2
<1> QED
  BY <1>2, <1>3, <1>4

\* Where the worker may go from where a response waits.
LEMMA WorkerMoves ==
  ASSUME WorkerInv, LoopNext \/ TaskNext \/ ChildNext \/ Tick \/ Killed
  PROVE  /\ pc \in {"return", "ended"} => pc' \in {"return", "ended"} /\ spool' = spool
         /\ pc = "ended" => pc' = "ended"
         /\ pc = "conclude" => /\ spool' = spool
                               /\ \/ pc' = "conclude" /\ serving' = serving
                                  \/ pc' = "ended"
                                  \/ ~Closing
         /\ pc # "store" => spool' = spool
<1>1. PlaceInv
  BY DEF WorkerInv
<1>2. CASE TaskNext
  BY <1>1, <1>2 DEF TaskNext, TypeInput, TypeInputFails, PollExited, PollBoundary, PollCancelled,
     TaskOnly, PlaceInv, clientVars
<1>3. CASE ChildNext \/ Tick
  BY <1>3 DEF ChildNext, Tick, clientVars, control
<1>4. CASE Killed
  BY <1>1, <1>4 DEF Killed, End, PlaceInv
<1>5. CASE pc # "conclude" /\ LoopNext
  BY <1>1, <1>5 DEF LoopNext, Refresh, Store, StoreFails, ReturnAfterStore, Accept, AcceptTimesOut,
     TakePending, ReadRequest, ReadNothing, ServeWrite, ServeClose, ServeCloseFails,
     StartInteraction, JoinTask, JoinFailure, AcceptMeanwhile, CancelInteraction,
     DisplaceInteraction, DropSide, JoinCancelled, WriteFails, WriteResponse,
     ConcludeUnacknowledged, ReadAcknowledgement, ReadNoAcknowledgement, Conclude, KeepLease, Expire,
     End, Finish, clientVars
<1>6. CASE pc = "conclude" /\ LoopNext
  <2>1. ConcludeUnacknowledged
    BY <1>6 DEF LoopNext, Refresh, Store, StoreFails, ReturnAfterStore, Accept, AcceptTimesOut,
       TakePending, ReadRequest, ReadNothing, ServeWrite, ServeClose, ServeCloseFails,
       StartInteraction, JoinTask, JoinFailure, AcceptMeanwhile, CancelInteraction,
       DisplaceInteraction, DropSide, JoinCancelled, WriteFails, WriteResponse,
       ReadAcknowledgement, ReadNoAcknowledgement, KeepLease, Expire
  <2> QED
    BY <1>6, <2>1 DEF ConcludeUnacknowledged, Conclude, End, Finish
<1> QED
  BY <1>2, <1>3, <1>4, <1>5, <1>6

\* Answering is what puts a response on a connection.
LEMMA AnswerKeepsInbox ==
  ASSUME WorkerInv, WriteResponse, NEW c \in Calls
  PROVE  InboxInv(c)'
<1>1. /\ WorkerTypeOK /\ PlaceInv /\ ResponseInv /\ FrontInv /\ CallInv(c) /\ HeldInv(c) /\ InboxInv(c)
      /\ \A d \in Calls : InboxInv(d)
  BY DEF WorkerInv
<1>2. /\ pc = "write" /\ "client_closed" \notin stream[serving[2]]
      /\ UNCHANGED <<cpc, kind, stream, result, spool, produced, serving, response>>
      /\ inbox' = [inbox EXCEPT ![serving[2]] = response]
      /\ pc' = IF Interactive(serving[2]) THEN "ack" ELSE "conclude"
  BY DEF WriteResponse, child
<1>3. Sound(response) /\ spool = NoResponse /\ ReadUpTo(acked)
  BY <1>1, <1>2 DEF ResponseInv, FrontInv
<1>4. CASE Serves(c)
  <2>1. serving[2] = c /\ inbox'[c] = response
    BY <1>1, <1>2, <1>4 DEF Serves, WorkerTypeOK
  <2>2. "requested" \in stream[c]
    BY <1>1, <1>2, <1>4, <2>1 DEF PlaceInv, InHand, Serves
  <2>3. cpc[c] \in {"reading", "acking"} /\ (cpc[c] = "acking" => Interactive(c))
    BY <1>1, <1>2, <1>4, <2>1, <2>2 DEF CallInv, HeldInv, Holds
  <2>4. CASE Interactive(c)
    <3>1. response.status \in {"running", "exited"} /\ pc' = "ack"
      BY <1>1, <1>2, <2>1, <2>4 DEF ResponseInv
    <3>2. inbox'[c] # NoResponse
      BY <2>1, <3>1 DEF NoResponse, Plain, Response
    <3> QED
      BY <1>2, <1>4, <2>1, <2>3, <2>4, <3>1, <3>2 DEF InboxInv, AnswersInteraction, Interactive, Serves
  <2>5. CASE ~Interactive(c) /\ response.status \in {"written", "failed"}
    <3>1. inbox'[c].to = 0 /\ ~inbox'[c].final
      BY <1>3, <2>1, <2>5 DEF Sound, TerminalStatuses
    <3> QED
      BY <1>2, <2>1, <2>3, <2>5, <3>1 DEF InboxInv, WithoutOutput, Interactive
  <2>6. CASE ~Interactive(c) /\ response.status \notin {"written", "failed"}
    <3>1. response.status = "closed" /\ kind[c] = "close" /\ pc' = "conclude"
      BY <1>1, <1>2, <2>1, <2>6 DEF ResponseInv
    <3>2. IsNext(inbox[c])'
      BY <1>2, <1>3, <2>1, <3>1 DEF IsNext, Sound, TerminalStatuses, ReadUpTo
    <3>3. ASSUME NEW d \in Calls, cpc[d] = "reading", inbox[d].status = "closed" PROVE FALSE
      <4>1. inbox[d] # NoResponse
        BY <3>3 DEF NoResponse, Plain, Response
      <4> QED
        BY <1>1, <1>2, <3>3, <4>1 DEF InboxInv, FromSpool, WithoutOutput, AnswersClose, AnswersInteraction
    <3>4. \A d \in Calls : cpc'[d] = "reading" /\ inbox'[d].status = "closed" => d = c
      <4> SUFFICES ASSUME NEW d \in Calls, cpc'[d] = "reading", inbox'[d].status = "closed", d # c
                   PROVE  FALSE
        OBVIOUS
      <4>1. inbox'[d] = inbox[d]
        BY <1>1, <1>2, <2>1 DEF WorkerTypeOK
      <4> QED
        BY <1>2, <3>3, <4>1
    <3>5. AnswersClose(c)'
      BY <1>2, <1>3, <1>4, <2>1, <2>3, <2>6, <3>1, <3>2, <3>4 DEF AnswersClose, Serves, Interactive
    <3>6. cpc'[c] = "reading"
      BY <1>2, <2>3, <2>6
    <3> QED
      BY <3>5, <3>6 DEF InboxInv
  <2> QED
    BY <2>4, <2>5, <2>6
<1>5. CASE ~Serves(c)
  <2>1. serving[2] # c
    BY <1>1, <1>2, <1>5 DEF PlaceInv, InHand, Serves
  <2>2. inbox'[c] = inbox[c]
    BY <1>1, <1>2, <2>1 DEF WorkerTypeOK
  <2>3. ~FromSpool(c) /\ ~AnswersClose(c)
    BY <1>2 DEF FromSpool, AnswersClose
  <2>4. WithoutOutput(c) => WithoutOutput(c)'
    BY <1>2, <2>2 DEF WithoutOutput, Interactive
  <2>5. ASSUME AnswersInteraction(c) PROVE AnswersInteraction(c)'
    <3>1. "server_closed" \in stream'[c]
      BY <1>2, <2>5 DEF AnswersInteraction
    <3> QED
      BY <1>2, <2>2, <2>5, <3>1 DEF AnswersInteraction, Interactive
  <2> QED
    BY <1>1, <1>2, <2>2, <2>3, <2>4, <2>5 DEF InboxInv
<1> QED
  BY <1>4, <1>5

\* While the worker waits for an acknowledgement, it does not close a connection
\* on which one can still arrive, unless it ends.
LEMMA AckStays ==
  ASSUME WorkerInv, LoopNext \/ TaskNext \/ ChildNext \/ Tick \/ Killed,
         pc = "ack", NEW c \in Calls, Serves(c), cpc[c] # "done"
  PROVE  "server_closed" \in stream'[c] \/ UNCHANGED <<pc, serving, response>>
<1>1. PlaceInv /\ CallInv(c) /\ WorkerTypeOK /\ serving[2] = c /\ HeldInv(c)
  BY DEF WorkerInv, Serves
<1>2. cpc[c] # "idle" /\ {"client_closed", "acknowledged"} \cap stream[c] = {}
  BY <1>1 DEF HeldInv, Holds, CallInv
<1>3. CASE ChildNext \/ Tick
  BY <1>3 DEF ChildNext, Tick, control
<1>4. CASE TaskNext
  BY <1>1, <1>4 DEF TaskNext, TypeInput, TypeInputFails, PollExited, PollBoundary, PollCancelled,
     PlaceInv
<1>5. CASE Killed
  BY <1>1, <1>2, <1>5 DEF Killed, End
<1>6. CASE LoopNext
  BY <1>1, <1>2, <1>6 DEF LoopNext, Refresh, Store, StoreFails, ReturnAfterStore, Accept, AcceptTimesOut,
     TakePending, ReadRequest, ReadNothing, ServeWrite, ServeClose, ServeCloseFails,
     StartInteraction, JoinTask, JoinFailure, AcceptMeanwhile, CancelInteraction,
     DisplaceInteraction, DropSide, JoinCancelled, WriteFails, WriteResponse,
     ConcludeUnacknowledged, ReadAcknowledgement, ReadNoAcknowledgement, KeepLease, Expire
<1> QED
  BY <1>3, <1>4, <1>5, <1>6

LEMMA WorkerKeepsInbox ==
  ASSUME WorkerInv, LoopNext \/ TaskNext \/ ChildNext \/ Tick \/ Killed, NEW c \in Calls
  PROVE  InboxInv(c)'
<1>1. CASE WriteResponse
  BY <1>1, AnswerKeepsInbox
<1>2. CASE ~WriteResponse
  <2>1. /\ UNCHANGED <<cpc, kind, result, inbox>> /\ InboxInv(c) /\ PlaceInv
        /\ "server_closed" \in stream[c] => "server_closed" \in stream'[c]
    BY <1>2, WorkerEffect DEF WorkerInv, ServerEffect
  <2>2. FromSpool(c) => FromSpool(c)'
    BY <2>1, WorkerMoves DEF FromSpool
  <2>3. WithoutOutput(c) => WithoutOutput(c)'
    BY <2>1 DEF WithoutOutput, Interactive
  <2>4. ASSUME AnswersClose(c) PROVE AnswersClose(c)'
    <3>1. pc = "conclude" /\ Serves(c) => Closing
      BY <2>4 DEF AnswersClose, Closing, Serves
    <3>2. (pc' = "conclude" /\ Serves(c)') \/ pc' = "ended"
      BY <2>4, <3>1, WorkerMoves DEF AnswersClose, Serves
    <3>3. spool' = NoResponse
      BY <2>4, WorkerMoves DEF AnswersClose
    <3>4. inbox[c].to \in Nat
      BY DEF WorkerInv, WorkerTypeOK, Responses
    <3>5. IsNext(inbox[c])'
      BY <2>1, <2>4, <3>4, OutputGrows DEF AnswersClose, IsNext, ReadUpTo
    <3> QED
      BY <2>1, <2>4, <3>2, <3>3, <3>5 DEF AnswersClose
  <2>5. ASSUME AnswersInteraction(c) PROVE AnswersInteraction(c)'
    <3>1. CASE "server_closed" \in stream[c]
      BY <2>1, <2>5, <3>1 DEF AnswersInteraction, Interactive
    <3>2. CASE pc = "ack" /\ Serves(c) /\ inbox[c] = response
      <4>1. cpc[c] # "done"
        BY <2>5 DEF AnswersInteraction
      <4>2. "server_closed" \in stream'[c] \/ UNCHANGED <<pc, serving, response>>
        BY <3>2, <4>1, AckStays
      <4> QED
        BY <2>1, <2>5, <3>2, <4>2 DEF AnswersInteraction, Interactive, Serves
    <3> QED
      BY <2>5, <3>1, <3>2 DEF AnswersInteraction
  <2> QED
    BY <2>1, <2>2, <2>3, <2>4, <2>5 DEF InboxInv
<1> QED
  BY <1>1, <1>2

-------------------------------------------------------------------------------
(* Where callers have read to *)

\* The worker has finished with a call: it goes on from where callers have read to.
LEMMA FinishKeepsFront ==
  ASSUME WorkerInv, Finish(TRUE) \/ Finish(FALSE), result' = result,
         pc \notin {"return", "ended"}, ReadUpTo(acked)'
  PROVE  FrontInv'
<1>1. pc' = "lease" /\ spool' = spool
  BY DEF Finish
<1>2. spool = NoResponse
  BY DEF WorkerInv, FrontInv
<1> QED
  BY <1>1, <1>2 DEF FrontInv

LEMMA EndKeepsFront ==
  ASSUME WorkerInv, NEW why, End(why), UNCHANGED <<result, produced, spool>>
  PROVE  FrontInv'
<1>1. pc' = "ended"
  BY DEF End
<1> QED
  BY <1>1 DEF WorkerInv, FrontInv, IsNext, ReadUpTo

LEMMA WorkerKeepsFront ==
  ASSUME WorkerInv, LoopNext \/ TaskNext \/ ChildNext \/ Tick \/ Killed
  PROVE  FrontInv'
<1>1. /\ WorkerTypeOK /\ PlaceInv /\ ResponseInv /\ FrontInv /\ UNCHANGED <<cpc, kind, result>>
      /\ ServerEffect
  BY WorkerEffect DEF WorkerInv, ServerEffect
<1>2. /\ produced \in Nat /\ produced' \in Nat /\ produced <= produced'
      /\ response.to \in Nat /\ spool.to \in Nat
  BY <1>1, OutputGrows DEF WorkerTypeOK, Responses
<1> DEFINE Far == {"ack", "conclude", "return", "ended"}
<1>3. ASSUME pc \notin Far, pc' \notin Far, UNCHANGED <<acked, spool>>
      PROVE  FrontInv'
  BY <1>1, <1>3 DEF FrontInv, ReadUpTo
<1>4. ASSUME UNCHANGED <<acked, spool, pc, serving, stream, response>>
      PROVE  FrontInv'
  BY <1>1, <1>2, <1>4 DEF FrontInv, ReadUpTo, IsNext, Serves
<1>5. CASE TaskNext
  BY <1>1, <1>3, <1>5 DEF TaskNext, TypeInput, TypeInputFails, PollExited, PollBoundary, PollCancelled,
     TaskOnly, PlaceInv, clientVars
<1>6. CASE ChildNext \/ Tick
  BY <1>4, <1>6 DEF ChildNext, Tick, clientVars, calls, control, job
<1>7. CASE \/ Killed \/ StoreFails \/ ReturnAfterStore \/ JoinFailure \/ Expire
  BY <1>1, <1>7, EndKeepsFront DEF Killed, StoreFails, ReturnAfterStore, JoinFailure, Expire, child
<1>8. CASE \/ Refresh \/ Accept \/ AcceptTimesOut \/ TakePending \/ ReadRequest \/ KeepLease
           \/ ServeWrite \/ ServeClose \/ ServeCloseFails \/ StartInteraction \/ JoinTask
           \/ AcceptMeanwhile \/ CancelInteraction \/ DisplaceInteraction \/ DropSide
  <2>1. pc \notin Far /\ pc' \notin Far /\ UNCHANGED <<acked, spool>>
    BY <1>8 DEF Refresh, Accept, AcceptTimesOut, TakePending, ReadRequest, KeepLease,
       ServeWrite, ServeClose, ServeCloseFails, StartInteraction, JoinTask,
       AcceptMeanwhile, CancelInteraction, DisplaceInteraction, DropSide, clientVars, job
  <2> QED
    BY <1>3, <2>1
<1>9. CASE ReadNothing \/ JoinCancelled
  <2>1. /\ Finish(TRUE) \/ Finish(FALSE)
        /\ acked' = acked /\ pc \notin Far
    BY <1>9 DEF ReadNothing, JoinCancelled, job
  <2> QED
    BY <1>1, <2>1, FinishKeepsFront DEF FrontInv, ReadUpTo
<1>10. CASE Store
  <2>1. /\ pc = "store" /\ pc' = "return" /\ spool' = response /\ UNCHANGED <<acked, produced>>
    BY <1>10 DEF Store, child, job
  <2>2. /\ response.status = "exited" /\ response.from = acked /\ acked <= response.to
        /\ response.to <= produced
    BY <1>1, <2>1 DEF ResponseInv, Sound, TerminalStatuses
  <2>3. ReadUpTo(acked)
    BY <1>1, <2>1 DEF FrontInv
  <2> QED
    BY <1>1, <2>1, <2>2, <2>3 DEF FrontInv, IsNext, ReadUpTo
<1>11. CASE WriteResponse
  <2>1. /\ pc = "write" /\ UNCHANGED <<spool, serving, response, stream>>
        /\ "client_closed" \notin stream[serving[2]]
        /\ acked' = IF response.status = "closed" THEN response.to ELSE acked
        /\ pc' = IF Interactive(serving[2]) THEN "ack" ELSE "conclude"
    BY <1>11 DEF WriteResponse
  <2>2. ReadUpTo(acked) /\ spool' = NoResponse
    BY <1>1, <2>1 DEF FrontInv
  <2>3. PICK c \in Calls : Serves(c) /\ "requested" \in stream[c]
    BY <1>1, <2>1 DEF PlaceInv, InHand
  <2>4. serving[2] = c /\ CallInv(c)
    BY <2>3 DEF Serves, WorkerInv
  <2>5. "acknowledged" \notin stream[c]
    BY <2>1, <2>3, <2>4 DEF CallInv
  <2>6. CASE Interactive(c)
    <3>1. acked' = acked /\ pc' = "ack"
      BY <1>1, <2>1, <2>4, <2>6 DEF ResponseInv
    <3>2. \A d \in Calls : Serves(d)' => d = c
      BY <2>1, <2>3 DEF Serves
    <3> QED
      BY <1>1, <2>1, <2>2, <2>5, <3>1, <3>2 DEF FrontInv, ReadUpTo
  <2>7. CASE ~Interactive(c) /\ kind[c] # "close"
    <3>1. acked' = acked /\ pc' = "conclude"
      BY <1>1, <2>1, <2>4, <2>7 DEF ResponseInv
    <3> QED
      BY <1>1, <2>1, <2>2, <3>1 DEF FrontInv, ReadUpTo
  <2>8. CASE ~Interactive(c) /\ kind[c] = "close"
    BY <1>1, <2>1, <2>2, <2>4, <2>8 DEF FrontInv
  <2> QED
    BY <2>6, <2>7, <2>8
<1>12. CASE WriteFails
  <2>1. /\ \/ End("closed") /\ UNCHANGED <<spool, child>>
           \/ Finish(TRUE)
        /\ acked' = acked /\ pc = "write"
    BY <1>12 DEF WriteFails, Conclude, job
  <2>2. ReadUpTo(acked)'
    BY <1>1, <2>1 DEF FrontInv, ReadUpTo
  <2> QED
    BY <1>1, <2>1, <2>2, EndKeepsFront, FinishKeepsFront DEF child
<1>13. CASE ConcludeUnacknowledged
  <2>1. /\ \/ End("closed") /\ UNCHANGED <<spool, child>>
           \/ Finish(TRUE) /\ ~Closing
        /\ acked' = acked /\ pc = "conclude"
    BY <1>13 DEF ConcludeUnacknowledged, Conclude, job
  <2>2. CASE End("closed") /\ UNCHANGED <<spool, child>>
    BY <1>1, <2>2, EndKeepsFront DEF child
  <2>3. CASE Finish(TRUE) /\ ~Closing
    <3>1. ReadUpTo(acked)'
      BY <1>1, <2>1, <2>3 DEF FrontInv, ReadUpTo, Closing
    <3> QED
      BY <1>1, <2>1, <2>3, <3>1, FinishKeepsFront
  <2> QED
    BY <2>1, <2>2, <2>3
<1>14. CASE ReadAcknowledgement \/ ReadNoAcknowledgement
  <2>1. PICK c \in Calls : Serves(c) /\ serving[2] = c
    BY <1>1, <1>14 DEF ReadAcknowledgement, ReadNoAcknowledgement, PlaceInv, InHand, Serves
  <2>2. ReadUpTo(acked)'
    BY <1>1, <1>14, <2>1 DEF ReadAcknowledgement, ReadNoAcknowledgement, FrontInv, ReadUpTo, job
  <2>3. /\ \/ Finish(TRUE)
           \/ \E why \in Endings : End(why) /\ UNCHANGED <<spool, child>>
        /\ pc = "ack"
    BY <1>14 DEF ReadAcknowledgement, ReadNoAcknowledgement, Conclude, Endings
  <2> QED
    BY <1>1, <2>2, <2>3, EndKeepsFront, FinishKeepsFront DEF child
<1> QED
  BY <1>5, <1>6, <1>7, <1>8, <1>9, <1>10, <1>11, <1>12, <1>13, <1>14 DEF LoopNext

\* A call that returns no output leaves the rest to be read.
LEMMA NothingMoves ==
  ASSUME WorkerTypeOK, NEW d \in Calls, result' = result \/ ReturnsNothing(d), NEW n
  PROVE  EndsAt(n, result') <=> EndsAt(n, result)
<1>1. CASE result' = result
  BY <1>1
<1>2. CASE ReturnsNothing(d)
  <2>1. /\ \A c \in Calls \ {d} : result'[c] = result[c]
        /\ result[d].to = 0 /\ result'[d].to = 0
    BY <1>2 DEF ReturnsNothing, Returns, WorkerTypeOK, NoResponse, Plain, Response
  <2> QED
    BY <2>1, EndsAtKept
<1> QED
  BY <1>1, <1>2

\* A call that returns the next output moves the front to its end.
LEMMA NextMoves ==
  ASSUME WorkerTypeOK, WorkerTypeOK', NEW d \in Calls, NEW r \in Responses, Returns(d, r),
         ReadUpTo(r.from), r.from <= r.to
  PROVE  EndsAt(r.to, result') /\ result'[d] = r
<1>1. result \in [Calls -> Responses] /\ result' \in [Calls -> Responses]
  BY DEF WorkerTypeOK
<1>2. (\A c \in Calls \ {d} : result'[c] = result[c]) /\ result'[d] = r
  BY <1>1 DEF Returns
<1>3. result[d].to = 0
  BY DEF Returns, NoResponse, Plain, Response
<1>4. r.from \in Nat
  BY DEF Responses
<1> QED
  BY <1>1, <1>2, <1>3, <1>4, EndsAtMoves DEF ReadUpTo

LEMMA CallersKeepInbox ==
  ASSUME WorkerInv, CallNext, NEW c \in Calls
  PROVE  InboxInv(c)'
<1>1. PICK d \in Calls :
        \/ \E k \in Kinds : Connect(d, k) \/ ConnectMissing(d, k)
        \/ Proceed(d)
        \/ Vanish(d)
        \/ CancelArrives(d)
        \/ CancelLost(d)
  BY DEF CallNext, ClientNext
<1>2. /\ WorkerTypeOK /\ CallInv(d) /\ InboxInv(c) /\ InboxInv(d) /\ FrontInv /\ CallerEffect(d)
      /\ UNCHANGED <<pc, serving, response, produced>>
  BY <1>1, CallersEffect DEF WorkerInv, CallNext, control, child
<1>3. \/ UNCHANGED <<result, spool>>
      \/ ReturnsNothing(d) /\ UNCHANGED spool
      \/ ReturnsAcknowledged(d) \/ ReturnsClosed(d) \/ ReturnsSpooled(d)
  BY <1>1, CallReturns
<1>4. spool' \in {spool, NoResponse}
  BY <1>3 DEF ReturnsAcknowledged, ReturnsClosed, ReturnsSpooled
<1>5. \/ cpc'[d] \in {"idle", "connected", "taking", "done"} /\ inbox'[d] = NoResponse
      \/ cpc'[d] = "reading" /\ cpc[d] = "connected" /\ inbox'[d] = NoResponse
      \/ cpc'[d] = "acking" /\ cpc[d] = "reading" /\ Receive(d) /\ Interactive(d)
      \/ cpc'[d] = "removing" /\ TakeRead(d) /\ spool # NoResponse /\ inbox'[d] = spool
      \/ UNCHANGED <<cpc, kind, stream, inbox, result, spool>>
  <2>1. ASSUME NEW r, Return(d, r)
        PROVE  cpc'[d] = "done" /\ inbox'[d] = NoResponse
    BY <1>2, <2>1, ReturnEffect
  <2>2. CASE \E k \in Kinds : Connect(d, k) \/ ConnectMissing(d, k)
    BY <1>2, <2>2 DEF Connect, ConnectMissing, Goto, WorkerTypeOK, CallInv
  <2>3. CASE SendRequest(d)
    BY <1>2, <2>3 DEF SendRequest, Goto, WorkerTypeOK, CallInv
  <2>4. CASE SendFails(d) \/ AcknowledgeFails(d) \/ TakeRemove(d) \/ Vanish(d)
    BY <2>1, <2>4 DEF SendFails, AcknowledgeFails, TakeRemove, Vanish
  <2>5. CASE Receive(d)
    BY <1>2, <2>1, <2>5 DEF Receive, Goto, WorkerTypeOK
  <2>6. CASE Disconnected(d)
    BY <1>2, <2>1, <2>6 DEF Disconnected, Goto, WorkerTypeOK
  <2>7. CASE Acknowledge(d)
    BY <1>2, <2>7 DEF Acknowledge, Goto, WorkerTypeOK
  <2>8. CASE TakeRead(d)
    BY <1>2, <2>1, <2>8 DEF TakeRead, Goto, WorkerTypeOK
  <2>9. CASE CancelArrives(d) \/ CancelLost(d)
    BY <2>9 DEF CancelArrives, CancelLost
  <2> QED
    BY <1>1, <2>2, <2>3, <2>4, <2>5, <2>6, <2>7, <2>8, <2>9 DEF Proceed
<1>6. CASE UNCHANGED <<cpc, kind, stream, inbox, result, spool>>
  <2>1. FromSpool(c)' <=> FromSpool(c)
    BY <1>2, <1>6 DEF FromSpool
  <2>2. WithoutOutput(c)' <=> WithoutOutput(c)
    BY <1>2, <1>6 DEF WithoutOutput, Interactive
  <2>3. AnswersClose(c)' <=> AnswersClose(c)
    BY <1>2, <1>6 DEF AnswersClose, IsNext, ReadUpTo, Serves
  <2>4. AnswersInteraction(c)' <=> AnswersInteraction(c)
    BY <1>2, <1>6 DEF AnswersInteraction, Interactive, Serves
  <2> QED
    BY <1>2, <1>6, <2>1, <2>2, <2>3, <2>4 DEF InboxInv
<1>7. CASE c = d /\ ~UNCHANGED <<cpc, kind, stream, inbox, result, spool>>
  <2>1. CASE Receive(d) /\ Interactive(d)
    <3>1. UNCHANGED <<kind, stream, inbox>> /\ inbox[c] # NoResponse /\ cpc'[c] = "acking"
          /\ cpc[c] = "reading"
      BY <1>2, <1>7, <2>1 DEF Receive, Goto, WorkerTypeOK
    <3>2. AnswersInteraction(c)
      BY <1>2, <1>7, <2>1, <3>1 DEF InboxInv, FromSpool, WithoutOutput, AnswersClose, Interactive,
         InteractKinds
    <3>3. AnswersInteraction(c)'
      BY <1>2, <3>1, <3>2 DEF AnswersInteraction, Interactive, Serves
    <3> QED
      BY <3>1, <3>3 DEF InboxInv
  <2>2. CASE TakeRead(d) /\ spool # NoResponse
    <3>1. pc \in {"return", "ended"} /\ spool' = spool /\ inbox'[c] = spool /\ cpc'[c] = "removing"
      BY <1>2, <1>7, <2>2 DEF FrontInv, TakeRead, Goto, WorkerTypeOK
    <3>2. FromSpool(c)'
      BY <1>2, <3>1 DEF FromSpool
    <3> QED
      BY <2>2, <3>1, <3>2 DEF InboxInv
  <2> QED
    BY <1>5, <1>7, <2>1, <2>2 DEF InboxInv
<1>8. CASE c # d /\ ~UNCHANGED <<cpc, kind, stream, inbox, result, spool>>
  <2>1. /\ cpc'[c] = cpc[c] /\ kind'[c] = kind[c] /\ stream'[c] = stream[c] /\ inbox'[c] = inbox[c]
    BY <1>2, <1>8 DEF CallerEffect
  <2>2. FromSpool(c) => FromSpool(c)'
    BY <1>2, <1>4, <2>1 DEF FromSpool
  <2>3. WithoutOutput(c) => WithoutOutput(c)'
    BY <2>1 DEF WithoutOutput, Interactive
  <2>4. ASSUME AnswersClose(c) PROVE AnswersClose(c)'
    <3>1. result' = result \/ ReturnsNothing(d)
      BY <1>3, <1>8, <2>4 DEF ReturnsAcknowledged, ReturnsClosed, ReturnsSpooled, AnswersClose
    <3>2. IsNext(inbox[c])'
      BY <1>2, <2>1, <2>4, <3>1, NothingMoves DEF AnswersClose, IsNext, ReadUpTo
    <3>3. ASSUME NEW e \in Calls, cpc'[e] = "reading", inbox'[e].status = "closed"
          PROVE  e = c
      <4>1. CASE e = d
        BY <1>5, <1>8, <3>3, <4>1 DEF NoResponse, Plain, Response
      <4>2. CASE e # d
        <5>1. cpc[e] = "reading" /\ inbox[e].status = "closed"
          BY <1>2, <3>3, <4>2 DEF CallerEffect
        <5> QED
          BY <2>4, <5>1 DEF AnswersClose
      <4> QED
        BY <4>1, <4>2
    <3> QED
      BY <1>2, <1>4, <2>1, <2>4, <3>2, <3>3 DEF AnswersClose, Serves
  <2>5. AnswersInteraction(c) => AnswersInteraction(c)'
    BY <1>2, <2>1 DEF AnswersInteraction, Interactive, Serves
  <2> QED
    BY <1>2, <2>1, <2>2, <2>3, <2>4, <2>5 DEF InboxInv
<1> QED
  BY <1>6, <1>7, <1>8

LEMMA OthersDoNotAcknowledge ==
  ASSUME WorkerInv, NEW d \in Calls, NEW c \in Calls, ~Acknowledge(d),
         \/ \E k \in Kinds : Connect(d, k) \/ ConnectMissing(d, k)
         \/ Proceed(d)
         \/ Vanish(d)
         \/ CancelArrives(d)
         \/ CancelLost(d)
  PROVE  "acknowledged" \in stream'[c] <=> "acknowledged" \in stream[c]
<1>1. WorkerTypeOK
  BY DEF WorkerInv
<1>2. CASE stream' = stream
  BY <1>2
<1>3. CASE \E flag \in {"requested", "client_closed"} : Mark(d, flag)
  BY <1>1, <1>3 DEF Mark, WorkerTypeOK
<1>4. stream' = stream \/ Mark(d, "requested") \/ Mark(d, "client_closed")
  BY DEF Connect, ConnectMissing, Proceed, SendRequest, SendFails, Receive, Disconnected,
     AcknowledgeFails, TakeRead, TakeRemove, Vanish, CancelArrives, CancelLost, Return
<1> QED
  BY <1>2, <1>3, <1>4

LEMMA CallersKeepFront ==
  ASSUME WorkerInv, CallNext
  PROVE  FrontInv'
<1>1. PICK d \in Calls :
        \/ \E k \in Kinds : Connect(d, k) \/ ConnectMissing(d, k)
        \/ Proceed(d)
        \/ Vanish(d)
        \/ CancelArrives(d)
        \/ CancelLost(d)
  BY DEF CallNext, ClientNext
<1>2. /\ WorkerTypeOK /\ WorkerTypeOK' /\ FrontInv /\ CallerEffect(d) /\ PlaceInv /\ ResponseInv
      /\ UNCHANGED <<pc, serving, response, produced, acked>>
  BY <1>1, CallTypes, CallersEffect DEF WorkerInv, CallNext, control, child, job
<1>3. \/ UNCHANGED <<result, spool>>
      \/ ReturnsNothing(d) /\ UNCHANGED spool
      \/ ReturnsAcknowledged(d) \/ ReturnsClosed(d) \/ ReturnsSpooled(d)
  BY <1>1, CallReturns
<1>4. pc = "conclude" => kind'[serving[2]] = kind[serving[2]]
  BY CallersKeepServed DEF InHand
<1>5. CASE ReturnsAcknowledged(d)
  <2>1. /\ pc = "ack" /\ Serves(d) /\ Returns(d, response) /\ spool' = spool
        /\ \A c \in Calls : Serves(c)' => c = d
    BY <1>2, <1>5 DEF ReturnsAcknowledged, Serves
  <2>2. /\ ReadUpTo(acked) /\ response.from = acked /\ response.from <= response.to
        /\ spool = NoResponse
    BY <1>2, <1>5, <2>1 DEF ReturnsAcknowledged, FrontInv, ResponseInv, Sound, TerminalStatuses
  <2>3. EndsAt(response.to, result') /\ result'[d] = response
    BY <1>2, <2>1, <2>2, NextMoves DEF WorkerTypeOK
  <2> QED
    BY <1>2, <1>5, <2>1, <2>2, <2>3 DEF FrontInv, ReturnsAcknowledged, ReadUpTo
<1>6. CASE ReturnsClosed(d)
  <2>1. /\ kind' = kind /\ kind[d] = "close" /\ spool' = NoResponse
        /\ (pc = "conclude" /\ serving[2] = d) \/ pc = "ended"
    BY <1>6 DEF ReturnsClosed, AnswersClose, Serves
  <2> QED
    BY <1>2, <2>1 DEF FrontInv
<1>7. CASE ReturnsSpooled(d)
  <2>1. pc \in {"return", "ended"} /\ spool' = NoResponse
    BY <1>2, <1>7 DEF ReturnsSpooled, FrontInv
  <2> QED
    BY <1>2, <2>1 DEF FrontInv
<1>8. CASE (result' = result \/ ReturnsNothing(d)) /\ spool' = spool /\ ~Acknowledge(d)
  <2>1. \A n : EndsAt(n, result') <=> EndsAt(n, result)
    BY <1>2, <1>8, NothingMoves
  <2>2. ASSUME pc = "ack", NEW c \in Calls, Serves(c)
        PROVE  IF "acknowledged" \in stream'[c]
               THEN EndsAt(response.to, result') /\ result'[c] = response
               ELSE EndsAt(acked, result')
    <3>1. IF "acknowledged" \in stream[c] THEN EndsAt(response.to, result) /\ result[c] = response
          ELSE EndsAt(acked, result)
      BY <1>2, <2>2 DEF FrontInv, ReadUpTo
    <3>2. CallInv(c) /\ CallInv(d)
      BY DEF WorkerInv
    <3>3. "acknowledged" \in stream[c] => result'[c] = result[c]
      <4>1. CASE c # d
        BY <1>2, <4>1 DEF CallerEffect
      <4>2. CASE c = d /\ "acknowledged" \in stream[c]
        <5>1. result[c] = response /\ response.status \in {"running", "exited"}
          BY <1>2, <2>2, <3>1, <4>2 DEF ResponseInv
        <5>2. result[d] # NoResponse
          BY <4>2, <5>1 DEF NoResponse, Plain, Response
        <5> QED
          BY <1>8, <5>2 DEF ReturnsNothing, Returns
      <4> QED
        BY <4>1, <4>2
    <3>4. "acknowledged" \in stream'[c] <=> "acknowledged" \in stream[c]
      BY <1>1, <1>8, OthersDoNotAcknowledge
    <3> QED
      BY <2>1, <3>1, <3>3, <3>4
  <2> QED
    BY <1>2, <1>4, <1>8, <2>1, <2>2 DEF FrontInv, ReadUpTo, IsNext, Serves
<1>9. Acknowledge(d) => ReturnsAcknowledged(d)
  BY AcknowledgeReturns
<1> QED
  BY <1>3, <1>5, <1>6, <1>7, <1>8, <1>9

-------------------------------------------------------------------------------
(* The last response *)

\* What is last stays last: the terminal is closed.
LEMMA LastStaysKept ==
  ASSUME WorkerInv, LoopNext \/ TaskNext \/ ChildNext \/ Tick \/ Killed,
         ptyClosed, LastIsKept, spool' = spool
  PROVE  ptyClosed' /\ LastIsKept'
<1>1. ptyClosed' /\ produced' = produced /\ result' = result
  BY OutputGrows, WorkerEffect DEF WorkerInv, ServerEffect
<1> QED
  BY <1>1 DEF LastIsKept, Last

\* A worker that ends because a call was answered with the last response.
LEMMA AnsweredIsKept ==
  ASSUME WorkerInv, ReadAcknowledgement \/ ReadNoAcknowledgement, response.final,
         \A c \in Calls : result[c].status # "dropped"
  PROVE  ptyClosed /\ LastIsKept
<1>1. /\ PlaceInv /\ ResponseInv /\ FrontInv /\ pc = "ack" /\ Sound(response)
      /\ response.status \in TerminalStatuses /\ Interactive(serving[2])
  BY DEF WorkerInv, ReadAcknowledgement, ReadNoAcknowledgement, ResponseInv, TerminalStatuses
<1>2. ptyClosed /\ response.to = produced
  BY <1>1 DEF Sound
<1>3. PICK c \in Calls : Serves(c) /\ "requested" \in stream[c]
  BY <1>1 DEF PlaceInv, InHand
<1>4. serving[2] = c /\ CallInv(c) /\ HeldInv(c)
  BY <1>3 DEF Serves, WorkerInv
<1>5. "acknowledged" \in stream[c]
  <2>1. CASE ReadAcknowledgement
    BY <1>4, <2>1 DEF ReadAcknowledgement
  <2>2. CASE ReadNoAcknowledgement /\ "acknowledged" \notin stream[c]
    <3>1. cpc[c] = "done" /\ result[c].status = "dropped"
      BY <1>1, <1>3, <1>4, <2>2 DEF ReadNoAcknowledgement, CallInv, HeldInv, Holds
    <3> QED
      BY <3>1
  <2> QED
    BY <2>1, <2>2
<1>6. result[c] = response
  BY <1>1, <1>3, <1>5 DEF FrontInv
<1> QED
  BY <1>2, <1>6 DEF LastIsKept, Last

LEMMA WorkerKeepsLast ==
  ASSUME WorkerInv, LoopNext \/ TaskNext \/ ChildNext \/ Tick \/ Killed
  PROVE  KeptInv'
<1>1. /\ KeptInv /\ PlaceInv /\ ResponseInv /\ result' = result
  BY WorkerEffect DEF WorkerInv, ServerEffect
<1>2. CASE Store
  <2>1. pc = "store" /\ pc' = "return" /\ spool' = response /\ ending' = ending
        /\ UNCHANGED <<ptyClosed, produced>>
    BY <1>2 DEF Store, child
  <2>2. response.final /\ response.to = produced /\ ptyClosed
    BY <1>1, <2>1 DEF ResponseInv, Sound, TerminalStatuses
  <2>3. ptyClosed' /\ LastIsKept'
    BY <2>1, <2>2 DEF LastIsKept, Last
  <2> QED
    BY <2>3 DEF KeptInv
<1>3. CASE ~Store
  <2>1. spool' = spool
    BY <1>3, WorkerMoves DEF TaskNext, ChildNext, Tick, Killed, TypeInput, TypeInputFails, PollExited,
       PollBoundary, PollCancelled, TaskOnly, clientVars, LoopNext, Refresh, StoreFails,
       ReturnAfterStore, Accept, AcceptTimesOut, TakePending, ReadRequest, ReadNothing, ServeWrite,
       ServeClose, ServeCloseFails, StartInteraction, JoinTask, JoinFailure, AcceptMeanwhile,
       CancelInteraction, DisplaceInteraction, DropSide, JoinCancelled, WriteFails, WriteResponse,
       ConcludeUnacknowledged, ReadAcknowledgement, ReadNoAcknowledgement, KeepLease, Expire
  <2>2. /\ pc' = "return" \/ ending' = "finished" => pc = "return" \/ ending = "finished"
        /\ ending' = "answered" => \/ ending = "answered"
                                   \/ /\ ReadAcknowledgement \/ ReadNoAcknowledgement
                                      /\ response.final
    <3>1. CASE TaskNext \/ ChildNext \/ Tick \/ Killed
      BY <3>1 DEF TaskNext, ChildNext, Tick, Killed, TypeInput, TypeInputFails, PollExited,
         PollBoundary, PollCancelled, TaskOnly, control, End
    <3>2. CASE ReadAcknowledgement \/ ReadNoAcknowledgement
      <4>1. CASE Closing \/ response.final
        <5>1. End(IF Closing THEN "closed" ELSE "answered")
          BY <3>2, <4>1 DEF ReadAcknowledgement, ReadNoAcknowledgement, Conclude
        <5> QED
          BY <3>2, <4>1, <5>1 DEF End
      <4>2. CASE ~(Closing \/ response.final)
        BY <3>2, <4>2 DEF ReadAcknowledgement, ReadNoAcknowledgement, Conclude, Finish
      <4> QED
        BY <4>1, <4>2
    <3>3. CASE WriteFails \/ ConcludeUnacknowledged
      <4>1. CASE Closing
        BY <3>3, <4>1 DEF WriteFails, ConcludeUnacknowledged, Conclude, End
      <4>2. CASE ~Closing
        BY <3>3, <4>2 DEF WriteFails, ConcludeUnacknowledged, Conclude, Finish
      <4> QED
        BY <4>1, <4>2
    <3>4. CASE StoreFails \/ ReturnAfterStore \/ JoinFailure \/ Expire
      BY <3>4 DEF StoreFails, ReturnAfterStore, JoinFailure, Expire, End
    <3>5. CASE \/ Refresh \/ Accept \/ AcceptTimesOut \/ TakePending \/ ReadRequest \/ ReadNothing
               \/ ServeWrite \/ ServeClose \/ ServeCloseFails \/ StartInteraction \/ JoinTask
               \/ AcceptMeanwhile \/ CancelInteraction \/ DisplaceInteraction \/ DropSide
               \/ JoinCancelled \/ WriteResponse \/ KeepLease
      BY <3>5 DEF Refresh, Accept, AcceptTimesOut, TakePending, ReadRequest, ReadNothing,
         ServeWrite, ServeClose, ServeCloseFails, StartInteraction, JoinTask, AcceptMeanwhile,
         CancelInteraction, DisplaceInteraction, DropSide, JoinCancelled, WriteResponse, KeepLease,
         Finish
    <3> QED
      BY <1>3, <3>1, <3>2, <3>3, <3>4, <3>5 DEF LoopNext
  <2>3. ptyClosed /\ LastIsKept => ptyClosed' /\ LastIsKept'
    BY <2>1, LastStaysKept
  <2>4. pc' = "return" \/ ending' = "finished" => ptyClosed' /\ LastIsKept'
    BY <1>1, <2>2, <2>3 DEF KeptInv
  <2>5. ASSUME ending' = "answered", \A c \in Calls : result'[c].status # "dropped"
        PROVE  ptyClosed' /\ LastIsKept'
    BY <1>1, <2>2, <2>3, <2>5, AnsweredIsKept DEF KeptInv
  <2> QED
    BY <2>4, <2>5 DEF KeptInv
<1> QED
  BY <1>2, <1>3

LEMMA CallersKeepLast ==
  ASSUME WorkerInv, CallNext
  PROVE  KeptInv'
<1>1. PICK d \in Calls :
        \/ \E k \in Kinds : Connect(d, k) \/ ConnectMissing(d, k)
        \/ Proceed(d)
        \/ Vanish(d)
        \/ CancelArrives(d)
        \/ CancelLost(d)
  BY DEF CallNext, ClientNext
<1>2. /\ WorkerTypeOK /\ KeptInv /\ UNCHANGED <<pc, ending, ptyClosed, produced>>
      /\ \A c \in Calls : CallInv(c)
  BY DEF WorkerInv, CallNext, control, child
<1>3. \/ UNCHANGED <<result, spool>>
      \/ ReturnsNothing(d) /\ UNCHANGED spool
      \/ ReturnsAcknowledged(d) \/ ReturnsClosed(d) \/ ReturnsSpooled(d)
  BY <1>1, CallReturns
<1>4. \/ UNCHANGED <<result, spool>>
      \/ /\ \E r : Returns(d, r)
         /\ spool' = spool \/ (spool' = NoResponse /\ result'[d] = spool)
  BY <1>2, <1>3 DEF ReturnsNothing, ReturnsAcknowledged, ReturnsClosed, ReturnsSpooled, Returns,
     WorkerTypeOK
<1>5. LastIsKept => LastIsKept'
  <2>1. ~Last(NoResponse)
    BY DEF Last, NoResponse, Plain, Response
  <2>2. \A c \in Calls : Last(result[c]) => Last(result'[c])
    BY <1>2, <1>4, <2>1 DEF Returns, Last, WorkerTypeOK
  <2>3. Last(spool) => Last(spool') \/ Last(result'[d])
    BY <1>2, <1>4, <2>1 DEF Last
  <2> QED
    BY <1>2, <2>2, <2>3 DEF LastIsKept, Last
<1>6. ASSUME NEW c \in Calls, result[c].status = "dropped"
      PROVE  result'[c].status = "dropped"
  BY <1>2, <1>4, <1>6 DEF Returns, NoResponse, Plain, Response, WorkerTypeOK
<1> QED
  BY <1>2, <1>5, <1>6 DEF KeptInv

-------------------------------------------------------------------------------
(* The lease *)

LEMMA WorkerKeepsLease ==
  ASSUME WorkerInv, LoopNext \/ TaskNext \/ ChildNext \/ Tick \/ Killed
  PROVE  LeaseInv'
<1>1. /\ WorkerTypeOK /\ PlaceInv /\ LeaseInv /\ idle \in Nat /\ quiet \in Nat
      /\ Expiration \in Nat /\ StartupGrace \in Nat
  BY LeaseAssumption DEF WorkerInv, WorkerTypeOK
<1>2. ASSUME UNCHANGED <<pc, ending, idle, quiet>> PROVE LeaseInv'
  BY <1>2, <1>1 DEF LeaseInv
<1>3. CASE TaskNext \/ ChildNext
  BY <1>2, <1>3 DEF TaskNext, TypeInput, TypeInputFails, PollExited, PollBoundary, PollCancelled,
     TaskOnly, ChildNext, control, lease
<1>4. CASE Tick
  <2>1. idle <= quiet => Later(idle) <= Later(quiet)
    BY <1>1 DEF Later, LastTick, LongerOf
  <2>2. pc' = pc /\ idle' = Later(idle) /\ quiet' = Later(quiet) /\ ending' = ending /\ ending = "none"
    BY <1>1, <1>4 DEF Tick, control, PlaceInv
  <2> QED
    BY <1>1, <2>1, <2>2 DEF LeaseInv
<1>5. ASSUME NEW why, why # "expired", End(why) PROVE LeaseInv'
  <2>1. pc' = "ended" /\ ending' # "expired"
    BY <1>5 DEF End
  <2> QED
    BY <2>1 DEF LeaseInv
<1>6. ASSUME pc # "ended", pc # "ack", quiet' = quiet, ending' = ending, idle' \in {idle, 0}
      PROVE  LeaseInv'
  <2>1. ending' # "expired" /\ idle' <= quiet'
    BY <1>1, <1>6 DEF PlaceInv, LeaseInv
  <2> QED
    BY <2>1 DEF LeaseInv
<1>7. ASSUME pc # "ended", quiet' = quiet, Finish(TRUE) PROVE LeaseInv'
  <2>1. ending' = ending /\ idle' = 0
    BY <1>7 DEF Finish, ObserveInteraction
  <2>2. ending' # "expired" /\ idle' <= quiet'
    BY <1>1, <1>7, <2>1 DEF PlaceInv
  <2> QED
    BY <2>2 DEF LeaseInv
<1>8. CASE Killed \/ StoreFails \/ ReturnAfterStore \/ JoinFailure
  BY <1>5, <1>8 DEF Killed, StoreFails, ReturnAfterStore, JoinFailure
<1>9. CASE Expire
  <2>1. pc = "lease" /\ Elapsed /\ pc' = "ended" /\ quiet' = quiet
    BY <1>9 DEF Expire, End
  <2>2. idle <= quiet
    BY <1>1, <2>1 DEF LeaseInv
  <2>3. idle >= Expiration
    BY <1>1, <2>1 DEF Elapsed, ActiveExpiration, LongerOf
  <2> QED
    BY <1>1, <2>1, <2>2, <2>3 DEF LeaseInv
<1>10. CASE \/ Store \/ Accept \/ AcceptTimesOut \/ TakePending \/ ReadRequest
            \/ ServeWrite \/ ServeClose \/ ServeCloseFails \/ StartInteraction \/ JoinTask
            \/ AcceptMeanwhile \/ CancelInteraction \/ DisplaceInteraction \/ DropSide
            \/ WriteResponse \/ KeepLease
  <2>1. pc # "ended" /\ pc # "ack" /\ quiet' = quiet /\ ending' = ending /\ idle' = idle
    BY <1>10 DEF Store, Accept, AcceptTimesOut, TakePending, ReadRequest,
       ServeWrite, ServeClose, ServeCloseFails, StartInteraction, JoinTask, AcceptMeanwhile,
       CancelInteraction, DisplaceInteraction, DropSide, WriteResponse, KeepLease, lease
  <2> QED
    BY <1>6, <2>1
<1>11. CASE Refresh
  BY <1>6, <1>11 DEF Refresh
<1>12. CASE ReadNothing
  <2>1. pc = "read" /\ quiet' = quiet /\ Finish(FALSE)
    BY <1>12 DEF ReadNothing
  <2>2. ending' = ending /\ idle' = idle
    BY <2>1 DEF Finish, lease
  <2> QED
    BY <1>6, <2>1, <2>2
<1>13. CASE JoinCancelled
  BY <1>7, <1>13 DEF JoinCancelled
<1>14. CASE WriteFails \/ ConcludeUnacknowledged \/ ReadAcknowledgement \/ ReadNoAcknowledgement
  <2>1. /\ pc # "ended" /\ quiet' = quiet
        /\ Finish(TRUE) \/ End("closed") \/ End("answered")
    BY <1>14 DEF WriteFails, ConcludeUnacknowledged, ReadAcknowledgement, ReadNoAcknowledgement,
       Conclude
  <2> QED
    BY <1>5, <1>7, <2>1
<1> QED
  BY <1>3, <1>4, <1>8, <1>9, <1>10, <1>11, <1>12, <1>13, <1>14 DEF LoopNext

\* A caller is told of a running job only while the worker waits for it.
LEMMA CallersKeepLease ==
  ASSUME WorkerInv, CallNext
  PROVE  LeaseInv'
<1>1. PICK d \in Calls :
        \/ \E k \in Kinds : Connect(d, k) \/ ConnectMissing(d, k)
        \/ Proceed(d)
        \/ Vanish(d)
        \/ CancelArrives(d)
        \/ CancelLost(d)
  BY DEF CallNext, ClientNext
<1>2. /\ WorkerTypeOK /\ LeaseInv /\ PlaceInv /\ FrontInv /\ UNCHANGED <<pc, ending, idle>>
      /\ quiet' = IF \E c \in Calls : ToldRunning(c) THEN 0 ELSE quiet
  BY DEF WorkerInv, CallNext, control, lease
<1>3. \/ UNCHANGED <<result, spool>>
      \/ ReturnsNothing(d) /\ UNCHANGED spool
      \/ ReturnsAcknowledged(d) \/ ReturnsClosed(d) \/ ReturnsSpooled(d)
  BY <1>1, CallReturns
<1>4. ASSUME NEW c \in Calls, ToldRunning(c) PROVE pc = "ack"
  <2>1. CASE result' = result
    BY <1>4, <2>1 DEF ToldRunning
  <2>2. ASSUME NEW r, Returns(d, r), r.status # "running" PROVE FALSE
    BY <1>2, <1>4, <2>2 DEF ToldRunning, Returns, WorkerTypeOK
  <2>3. CASE ReturnsNothing(d)
    BY <2>2, <2>3 DEF ReturnsNothing, TerminalStatuses
  <2>4. CASE ReturnsClosed(d)
    BY <2>2, <2>4 DEF ReturnsClosed, AnswersClose
  <2>5. CASE ReturnsSpooled(d)
    BY <1>2, <2>2, <2>5 DEF ReturnsSpooled, FrontInv
  <2>6. CASE ReturnsAcknowledged(d)
    BY <2>6 DEF ReturnsAcknowledged
  <2> QED
    BY <1>3, <2>1, <2>3, <2>4, <2>5, <2>6
<1>5. CASE \E c \in Calls : ToldRunning(c)
  <2>1. pc' = "ack" /\ ending' = "none"
    BY <1>2, <1>4, <1>5 DEF PlaceInv
  <2> QED
    BY <2>1 DEF LeaseInv
<1>6. CASE ~\E c \in Calls : ToldRunning(c)
  BY <1>2, <1>6 DEF LeaseInv
<1> QED
  BY <1>5, <1>6

-------------------------------------------------------------------------------
(* The invariant *)

LEMMA InitInv == Init => WorkerInv
<1> SUFFICES ASSUME Init PROVE WorkerInv
  OBVIOUS
<1> USE DEF Init, ClientsInit
<1>1. /\ NoResponse \in Responses /\ NoResponse.to = 0 /\ NoResponse.status = "none"
      /\ NoCall \notin Calls /\ MaxOutput \in Nat
  BY ResponseTypes, NoCallAssumption, OutputAssumption DEF NoResponse, Plain, Response
<1>2. WorkerTypeOK
  <2>1. produced \in Nat /\ idle \in Nat /\ quiet \in Nat /\ acked \in Nat
    BY <1>1
  <2>2. queue \in Seq(Connections)
    OBVIOUS
  <2>3. /\ cpc \in [Calls -> CallLabels] /\ kind \in [Calls -> AllKinds \cup {"none"}]
        /\ stream \in [Calls -> SUBSET Flags]
        /\ cancel \in [Calls -> {"none", "spawned", "over"}]
    BY DEF CallLabels
  <2>4. /\ inbox \in [Calls -> Responses] /\ result \in [Calls -> Responses] /\ spool \in Responses
        /\ response \in Responses
    BY <1>1
  <2> QED
    BY <2>1, <2>2, <2>3, <2>4 DEF WorkerTypeOK, WorkerLabels, Tasks, Endings
<1>3. ASSUME NEW c \in Calls PROVE CallInv(c)
  BY <1>3 DEF CallInv
<1>4. ASSUME NEW c \in Calls PROVE HeldInv(c)
  BY <1>1, <1>4 DEF HeldInv, Holds, Serves, Beside, Queued, NoConnection
<1>5. PlaceInv
  BY <1>1 DEF PlaceInv, InHand
<1>6. ResponseInv
  BY <1>1 DEF ResponseInv
<1>7. ASSUME NEW c \in Calls PROVE InboxInv(c)
  BY <1>7 DEF InboxInv
<1>8. FrontInv
  BY <1>1 DEF FrontInv, ReadUpTo, EndsAt
<1>9. KeptInv /\ LeaseInv
  BY DEF KeptInv, LeaseInv
<1> QED
  BY <1>2, <1>3, <1>4, <1>5, <1>6, <1>7, <1>8, <1>9 DEF WorkerInv

LEMMA WorkerStep ==
  ASSUME WorkerInv, LoopNext \/ TaskNext \/ ChildNext \/ Tick \/ Killed
  PROVE  WorkerInv'
<1>1. WorkerTypeOK'
  BY LoopTypes, OtherTypes DEF WorkerInv
<1>2. \A c \in Calls : CallInv(c)' /\ HeldInv(c)' /\ InboxInv(c)'
  BY WorkerKeepsCalls, WorkerKeepsHeld, WorkerKeepsInbox
<1>3. PlaceInv' /\ ResponseInv' /\ FrontInv' /\ KeptInv' /\ LeaseInv'
  BY WorkerKeepsPlace, WorkerKeepsResponse, WorkerKeepsFront, WorkerKeepsLast, WorkerKeepsLease
<1> QED
  BY <1>1, <1>2, <1>3 DEF WorkerInv

LEMMA CallersStep ==
  ASSUME WorkerInv, CallNext
  PROVE  WorkerInv'
<1>1. WorkerTypeOK'
  BY CallTypes DEF WorkerInv
<1>2. \A c \in Calls : CallInv(c)' /\ HeldInv(c)' /\ InboxInv(c)'
  BY CallersKeepCalls, CallersKeepHeld, CallersKeepInbox
<1>3. PlaceInv' /\ ResponseInv' /\ FrontInv' /\ KeptInv' /\ LeaseInv'
  BY CallersKeepPlace, CallersKeepResponse, CallersKeepFront, CallersKeepLast, CallersKeepLease
<1> QED
  BY <1>1, <1>2, <1>3 DEF WorkerInv

LEMMA WorkerStutters ==
  ASSUME WorkerInv, UNCHANGED vars
  PROVE  WorkerInv'
<1> USE DEF WorkerInv, vars, clientVars, calls, child, job, control, lease
<1>1. WorkerTypeOK'
  BY DEF WorkerTypeOK
<1>2. ASSUME NEW c \in Calls PROVE CallInv(c)' /\ HeldInv(c)'
  BY <1>2 DEF CallInv, HeldInv, Holds, Serves, Beside, Queued, Interactive
<1>3. ASSUME NEW c \in Calls PROVE InboxInv(c)'
  BY <1>3 DEF InboxInv, FromSpool, WithoutOutput, AnswersClose, AnswersInteraction, Interactive,
     Serves, IsNext, ReadUpTo
<1>4. PlaceInv' /\ ResponseInv'
  BY DEF PlaceInv, ResponseInv, Serves, Sound, Interactive
<1>5. FrontInv' /\ KeptInv' /\ LeaseInv'
  BY DEF FrontInv, KeptInv, LeaseInv, Serves, ReadUpTo, IsNext, LastIsKept, Last
<1> QED
  BY <1>1, <1>2, <1>3, <1>4, <1>5

\* What the worker holds, what waits for callers and what they have read fit
\* together, whatever callers and the command do and whenever either is killed.
THEOREM WorkerInvariant == Spec => []WorkerInv
<1>1. WorkerInv /\ [Next]_vars => WorkerInv'
  BY WorkerStep, CallersStep, WorkerStutters DEF Next
<1> QED
  BY InitInv, <1>1, PTL DEF Spec

-------------------------------------------------------------------------------
(* Theorems *)

\* The exit status of a command and the output before it were returned or are in
\* the spool when the worker has finished with it, unless a caller went away.
THEOREM LastResponsesAreKept == Spec => []LastResponseIsKept
<1>1. WorkerInv => LastResponseIsKept
  BY DEF WorkerInv, KeptInv, LastResponseIsKept
<1> QED
  BY WorkerInvariant, <1>1, PTL

\* A caller that was told of a running job has the whole expiration of the lease
\* to come back.
THEOREM LeasesAreHonoured == Spec => []LeaseIsHonoured
<1>1. WorkerInv => LeaseIsHonoured
  BY DEF WorkerInv, LeaseInv, LeaseIsHonoured
<1> QED
  BY WorkerInvariant, <1>1, PTL

\* Where the results of calls end.
Front(results) ==
    CHOOSE n \in {0} \cup {results[c].to : c \in Calls} : \A c \in Calls : results[c].to <= n

LEMMA FrontIsEnd ==
  ASSUME NEW f \in [Calls -> Responses], NEW n, EndsAt(n, f)
  PROVE  Front(f) = n
<1>1. \A c \in Calls : f[c].to \in Nat
  BY DEF Responses
<1>2. n \in {0} \cup {f[c].to : c \in Calls} /\ \A c \in Calls : f[c].to <= n
  BY DEF EndsAt
<1>3. /\ Front(f) \in {0} \cup {f[c].to : c \in Calls}
      /\ \A c \in Calls : f[c].to <= Front(f)
  BY <1>2 DEF Front
<1>4. n \in Nat /\ Front(f) \in Nat
  BY <1>1, <1>2, <1>3
<1>5. n <= Front(f) /\ Front(f) <= n
  BY <1>2, <1>3, <1>4
<1> QED
  BY <1>4, <1>5

LEMMA FrontStays ==
  ASSUME NEW f, NEW g, \A c \in Calls : f[c].to = g[c].to
  PROVE  Front(f) = Front(g)
<1>1. {f[c].to : c \in Calls} = {g[c].to : c \in Calls}
  OBVIOUS
<1>2. \A n : (\A c \in Calls : f[c].to <= n) <=> (\A c \in Calls : g[c].to <= n)
  OBVIOUS
<1> QED
  BY <1>1, <1>2, Zenon DEF Front

\* What each call has returned.
Got(results) ==
    [c \in Calls |-> IF results[c].status \in TerminalStatuses
                     THEN <<results[c].from, results[c].to>> ELSE <<>>]

\* A call that returns the next output reads it.
LEMMA NextIsRead ==
  ASSUME WorkerTypeOK, WorkerTypeOK', NEW d \in Calls, NEW r \in Responses, Returns(d, r),
         IsNext(r), r.status \in TerminalStatuses, UNCHANGED produced
  PROVE  Outputs!Read(d)
<1>1. /\ Front(result) = r.from /\ Front(result') = r.to
  <2>1. EndsAt(r.from, result) /\ EndsAt(r.to, result')
    BY NextMoves DEF IsNext, ReadUpTo
  <2> QED
    BY <2>1, FrontIsEnd DEF WorkerTypeOK
<1>2. Got(result)[d] = <<>>
  BY DEF Returns, Got, NoResponse, Plain, Response, TerminalStatuses
<1>3. Got(result') = [Got(result) EXCEPT ![d] = <<r.from, r.to>>]
  <2>1. (\A c \in Calls \ {d} : result'[c] = result[c]) /\ result'[d] = r
    BY DEF Returns, WorkerTypeOK
  <2> QED
    BY <2>1 DEF Got
<1>4. r.to \in r.from .. produced
  BY DEF IsNext, Responses, WorkerTypeOK
<1> QED
  BY <1>1, <1>2, <1>3, <1>4 DEF Outputs!Read, OutputRead, Front, Got

\* A step of the worker writes output, or leaves what is written and read as it is.
LEMMA WorkerWrites ==
  ASSUME WorkerInv, LoopNext \/ TaskNext \/ ChildNext \/ Tick \/ Killed
  PROVE  Outputs!Write \/ UNCHANGED <<produced, result>>
<1>1. result' = result
  BY WorkerEffect DEF WorkerInv, ServerEffect
<1>2. produced' = produced + 1 \/ produced' = produced
  <2>1. CASE ChildNext
    BY <2>1 DEF ChildNext, Produce, ChildExits, PtyCloses
  <2>2. CASE LoopNext \/ TaskNext \/ Tick \/ Killed
    BY <2>2 DEF LoopNext, Refresh, Store, StoreFails, ReturnAfterStore, Accept, AcceptTimesOut,
       TakePending, ReadRequest, ReadNothing, ServeWrite, ServeClose, ServeCloseFails,
       StartInteraction, JoinTask, JoinFailure, AcceptMeanwhile, CancelInteraction,
       DisplaceInteraction, DropSide, JoinCancelled, WriteFails, WriteResponse,
       ConcludeUnacknowledged, ReadAcknowledgement, ReadNoAcknowledgement, KeepLease, Expire,
       TaskNext, TypeInput, TypeInputFails, PollExited, PollBoundary, PollCancelled, TaskOnly,
       Tick, Killed, child
  <2> QED
    BY <2>1, <2>2
<1> QED
  BY <1>1, <1>2 DEF Outputs!Write, OutputRead

LEMMA CallersRead ==
  ASSUME WorkerInv, CallNext
  PROVE  \/ \E d \in Calls : Outputs!Read(d)
         \/ UNCHANGED <<produced, OutputRead, Got(result)>>
<1>1. PICK d \in Calls :
        \/ \E k \in Kinds : Connect(d, k) \/ ConnectMissing(d, k)
        \/ Proceed(d)
        \/ Vanish(d)
        \/ CancelArrives(d)
        \/ CancelLost(d)
  BY DEF CallNext, ClientNext
<1>2. WorkerTypeOK /\ WorkerTypeOK' /\ FrontInv /\ ResponseInv /\ UNCHANGED produced
  BY CallTypes DEF WorkerInv, CallNext, child
<1>3. \/ UNCHANGED <<result, spool>>
      \/ ReturnsNothing(d) /\ UNCHANGED spool
      \/ ReturnsAcknowledged(d) \/ ReturnsClosed(d) \/ ReturnsSpooled(d)
  BY <1>1, CallReturns
<1>4. CASE UNCHANGED <<result, spool>>
  BY <1>2, <1>4 DEF OutputRead, Got
<1>5. CASE ReturnsNothing(d)
  <2>1. PICK r \in Responses : Returns(d, r) /\ r.status \notin TerminalStatuses /\ r.to = 0
    BY <1>5 DEF ReturnsNothing
  <2>2. /\ result[d] = NoResponse /\ result'[d] = r
        /\ \A c \in Calls \ {d} : result'[c] = result[c]
    BY <1>2, <2>1 DEF Returns, WorkerTypeOK
  <2>3. NoResponse.to = 0 /\ NoResponse.status \notin TerminalStatuses
    BY DEF NoResponse, Plain, Response, TerminalStatuses
  <2>4. \A c \in Calls : result'[c].to = result[c].to
    BY <2>1, <2>2, <2>3
  <2>5. Front(result') = Front(result)
    BY <2>4, FrontStays
  <2>6. \A c \in Calls : Got(result')[c] = Got(result)[c]
    BY <2>1, <2>2, <2>3 DEF Got
  <2>7. Got(result') = Got(result)
    BY <2>6 DEF Got
  <2> QED
    BY <1>2, <2>5, <2>7 DEF OutputRead, Front, Got
<1>6. CASE ReturnsAcknowledged(d)
  <2>1. /\ Returns(d, response) /\ ReadUpTo(acked) /\ Sound(response)
        /\ response.status \in TerminalStatuses /\ response \in Responses
    BY <1>2, <1>6 DEF ReturnsAcknowledged, FrontInv, ResponseInv, TerminalStatuses, WorkerTypeOK
  <2>2. IsNext(response)
    BY <2>1 DEF IsNext, Sound
  <2> QED
    BY <1>2, <2>1, <2>2, NextIsRead
<1>7. CASE ReturnsClosed(d)
  <2>1. Returns(d, inbox[d]) /\ IsNext(inbox[d]) /\ inbox[d].status \in TerminalStatuses
        /\ inbox[d] \in Responses
    BY <1>2, <1>7 DEF ReturnsClosed, AnswersClose, TerminalStatuses, WorkerTypeOK
  <2> QED
    BY <1>2, <2>1, NextIsRead
<1>8. CASE ReturnsSpooled(d)
  <2>1. /\ Returns(d, spool) /\ IsNext(spool) /\ spool.status \in TerminalStatuses
        /\ spool \in Responses
    BY <1>2, <1>8 DEF ReturnsSpooled, FrontInv, TerminalStatuses, WorkerTypeOK
  <2> QED
    BY <1>2, <2>1, NextIsRead
<1> QED
  BY <1>3, <1>4, <1>5, <1>6, <1>7, <1>8

\* Whatever responses are dropped, displaced or left in the spool, calls read the
\* output of a job from front to back, each where the one before it has ended.
THEOREM WorkersImplementJobOutput == Spec => ImplementsJobOutput
<1>1. Init => Outputs!Init
  <2> SUFFICES ASSUME Init PROVE Outputs!Init
    OBVIOUS
  <2>1. WorkerTypeOK /\ ReadUpTo(0)
    BY InitInv DEF Init, ClientsInit, WorkerInv, FrontInv
  <2>2. Front(result) = 0 /\ produced \in Nat
    BY <2>1, FrontIsEnd DEF ReadUpTo, WorkerTypeOK
  <2>3. Got(result) = [c \in Calls |-> <<>>]
    BY DEF Init, ClientsInit, Got, NoResponse, Plain, Response, TerminalStatuses
  <2> QED
    BY <2>2, <2>3 DEF Outputs!Init, OutputRead, Front, Got
<1>2. WorkerInv /\ [Next]_vars => [Outputs!Next]_<<produced, OutputRead, Got(result)>>
  <2>1. ASSUME WorkerInv, LoopNext \/ TaskNext \/ ChildNext \/ Tick \/ Killed
        PROVE  Outputs!Next \/ UNCHANGED <<produced, OutputRead, Got(result)>>
    BY <2>1, WorkerWrites DEF Outputs!Next, OutputRead, Got
  <2>2. ASSUME WorkerInv, CallNext
        PROVE  Outputs!Next \/ UNCHANGED <<produced, OutputRead, Got(result)>>
    BY <2>2, CallersRead DEF Outputs!Next
  <2>3. ASSUME UNCHANGED vars PROVE UNCHANGED <<produced, OutputRead, Got(result)>>
    BY <2>3 DEF vars, clientVars, calls, child, OutputRead, Got
  <2> QED
    BY <2>1, <2>2, <2>3 DEF Next
<1> QED
  BY WorkerInvariant, <1>1, <1>2, PTL DEF Spec, ImplementsJobOutput, Outputs!Spec, Got
===============================================================================
