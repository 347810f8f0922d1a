---------------------------- MODULE HeadlessWorker ----------------------------
(***************************************************************************)
(* The headless terminal worker (run and serve in                          *)
(* headlessterm/worker/server.rs) around its job (process.rs, pty.rs), the *)
(* lease that ends it (lease.rs), and the calls of JobClients.             *)
(*                                                                         *)
(* Output is counted in units; the journal that holds it, and what it      *)
(* trims, is in OutputJournal.  An interaction may reach its wait boundary *)
(* at any poll: when it does is in TerminalInteraction.  Time passes in    *)
(* ticks.                                                                  *)
(***************************************************************************)
EXTENDS JobClients

CONSTANTS
    MaxOutput,                  \* bound on the output of the job
    Expiration, StartupGrace,   \* of the lease, in ticks
    RequestId,                  \* request_id of each call, counted per process
    MayBeKilled,                \* whether the worker may be
    NoCall

LongerOf(m, n) == IF m > n THEN m ELSE n

ASSUME OutputAssumption == MaxOutput \in Nat
ASSUME LeaseAssumption == Expiration \in Nat /\ StartupGrace \in Nat
ASSUME RequestIdAssumption == RequestId \in [Calls -> Nat]
ASSUME MayBeKilledAssumption == MayBeKilled \in BOOLEAN
ASSUME NoCallAssumption == NoCall \notin Calls

VARIABLES
    childExited, ptyClosed, produced,   \* the command and its terminal
    acked,             \* output acknowledged: the checkpoint of the journal
    exited, eof,       \* what the job has noticed of the command
    pc,                \* of the worker
    serving,           \* the connection being served
    side,              \* the one accepted meanwhile
    pending,           \* the call that displaced the one being served
    task, cancelled,   \* the thread of an interaction, and its flag
    response,          \* its result, or the response to be written
    idle, interacted,  \* of the lease
    ending,            \* why the worker ended
    quiet              \* ticks since a caller was last told of a running job

child == <<childExited, ptyClosed, produced>>
job == <<acked, exited, eof>>
control == <<pc, serving, side, pending, task, cancelled, response>>
lease == <<idle, interacted>>
vars == <<clientVars, child, job, control, lease, ending, quiet>>

NoConnection == <<"call", NoCall>>

\* Ticks are counted as far as the lease tells them apart.
LastTick == LongerOf(Expiration, StartupGrace)

Init ==
    /\ ClientsInit
    /\ childExited = FALSE /\ ptyClosed = FALSE
    /\ produced \in 0 .. MaxOutput
    /\ acked = 0 /\ exited = FALSE /\ eof = FALSE
    /\ pc = "loop"
    /\ serving = NoConnection /\ side = NoConnection /\ pending = NoCall
    /\ task = "none" /\ cancelled = FALSE /\ response = NoResponse
    /\ idle = 0 /\ interacted = FALSE
    /\ ending = "none"
    /\ quiet = 0

-------------------------------------------------------------------------------
(* The command, its terminal, and time. *)

\* Background processes write, and the reader thread hands on, after the exit.
Produce ==
    /\ ~ptyClosed
    /\ produced < MaxOutput
    /\ produced' = produced + 1
    /\ UNCHANGED <<childExited, ptyClosed>>

ChildExits ==
    /\ ~childExited
    /\ childExited' = TRUE
    /\ UNCHANGED <<ptyClosed, produced>>

PtyCloses ==
    /\ ~ptyClosed
    /\ ptyClosed' = TRUE
    /\ UNCHANGED <<childExited, produced>>

ChildNext ==
    /\ Produce \/ ChildExits \/ PtyCloses
    /\ UNCHANGED <<clientVars, job, control, lease, ending, quiet>>

Later(n) == IF n < LastTick THEN n + 1 ELSE n

Tick ==
    /\ listening
    /\ idle' = Later(idle)
    /\ quiet' = Later(quiet)
    /\ UNCHANGED <<clientVars, child, job, control, interacted, ending>>

-------------------------------------------------------------------------------
(* The job. *)

\* capture, then refresh_status.
Observe == eof' = ptyClosed /\ exited' = childExited

\* The output since the checkpoint.
Output(status, final) == Response(status, acked, produced, final)

-------------------------------------------------------------------------------
(* The worker. *)

NothingInHand ==
    /\ serving' = NoConnection
    /\ task' = "none" /\ cancelled' = FALSE
    /\ response' = NoResponse

\* The worker returns, drops its connections and removes its endpoint.
End(why) ==
    /\ pc' = "ended"
    /\ ending' = why
    /\ listening' = FALSE
    /\ queue' = <<>>
    /\ stream' = [c \in Calls |->
           IF cpc[c] # "idle" /\ "client_closed" \notin stream[c]
           THEN stream[c] \cup {"server_closed"} ELSE stream[c]]
    /\ NothingInHand
    /\ side' = NoConnection /\ pending' = NoCall
    /\ UNCHANGED <<cpc, kind, inbox, cancel, result, lease>>

Drop(connection) ==
    IF connection[1] = "call" /\ connection[2] # NoCall
    THEN Mark(connection[2], "server_closed")
    ELSE UNCHANGED stream

\* Mutant: an interaction ends the startup grace but does not renew the lease.
ObserveInteractionOnce == interacted' = TRUE /\ idle' = IF interacted THEN idle ELSE 0

ObserveInteraction == idle' = 0 /\ interacted' = TRUE

\* The served connection is dropped, after the request was handled or not.
Finish(handled) ==
    /\ Drop(serving)
    /\ IF handled THEN ObserveInteraction ELSE UNCHANGED lease
    /\ NothingInHand
    /\ pc' = "lease"
    /\ UNCHANGED <<listening, queue, cpc, kind, inbox, cancel, result, spool, side, pending, ending>>

\* Top of the loop.
Refresh ==
    /\ pc = "loop"
    /\ Observe
    /\ idle' = IF ~exited /\ exited' THEN 0 ELSE idle
    /\ IF exited' /\ eof'
       THEN pc' = "store" /\ response' = Output("exited", TRUE)
       ELSE pc' = "accept" /\ UNCHANGED response
    /\ UNCHANGED <<clientVars, child, acked, serving, side, pending, task, cancelled,
                   interacted, ending, quiet>>

\* finalize_exit leaves the last response in the spool.
Store ==
    /\ pc = "store"
    /\ spool' = response
    /\ pc' = "return"
    /\ UNCHANGED <<listening, queue, calls, child, job, serving, side, pending, task, cancelled,
                   response, lease, ending, quiet>>

StoreFails ==
    /\ pc = "store"
    /\ End("spool_failed")
    /\ UNCHANGED <<spool, child, job, quiet>>

ReturnAfterStore ==
    /\ pc = "return"
    /\ End("finished")
    /\ UNCHANGED <<spool, child, job, quiet>>

Accept ==
    /\ pc = "accept"
    /\ pending = NoCall
    /\ queue # <<>>
    /\ serving' = Head(queue)
    /\ queue' = Tail(queue)
    /\ pc' = "read"
    /\ UNCHANGED <<listening, calls, spool, child, job, side, pending, task, cancelled, response,
                   lease, ending, quiet>>

\* Mutant: waiting for a connection counts as activity.
AcceptTimesOutRenewing ==
    /\ pc = "accept"
    /\ pending = NoCall
    /\ queue = <<>>
    /\ ObserveInteraction
    /\ pc' = "lease"
    /\ UNCHANGED <<clientVars, child, job, serving, side, pending, task, cancelled, response,
                   ending, quiet>>

\* Nobody connects within the poll interval.
AcceptTimesOut ==
    /\ pc = "accept"
    /\ pending = NoCall
    /\ queue = <<>>
    /\ pc' = "lease"
    /\ UNCHANGED <<clientVars, child, job, serving, side, pending, task, cancelled, response,
                   lease, ending, quiet>>

\* The request that displaced an interaction has been read already.
TakePending ==
    /\ pc = "accept"
    /\ pending # NoCall
    /\ serving' = <<"call", pending>>
    /\ pending' = NoCall
    /\ pc' = "dispatch"
    /\ UNCHANGED <<clientVars, child, job, side, task, cancelled, response, lease, ending, quiet>>

ReadRequest ==
    /\ pc = "read"
    /\ serving[1] = "call"
    /\ "requested" \in stream[serving[2]]
    /\ pc' = "dispatch"
    /\ UNCHANGED <<clientVars, child, job, serving, side, pending, task, cancelled, response,
                   lease, ending, quiet>>

\* Mutant: the worker does not notice that a caller went away.
ReadCancelOnly ==
    /\ pc = "read"
    /\ serving[1] = "cancel"
    /\ Finish(FALSE)
    /\ UNCHANGED <<child, job, quiet>>

\* The caller went away without a request, or the request is a cancel: too late.
ReadNothing ==
    /\ pc = "read"
    /\ \/ serving[1] = "cancel"
       \/ "client_closed" \in stream[serving[2]] /\ "requested" \notin stream[serving[2]]
    /\ Finish(FALSE)
    /\ UNCHANGED <<child, job, quiet>>

\* A write is answered with the status of the process, or fails when the
\* terminal is closed.
ServeWrite ==
    /\ pc = "dispatch"
    /\ kind[serving[2]] = "write"
    /\ \/ Observe /\ response' = Plain("written")
       \/ ptyClosed /\ exited' = childExited /\ response' = Plain("failed") /\ UNCHANGED eof
    /\ pc' = "write"
    /\ UNCHANGED <<clientVars, child, acked, serving, side, pending, task, cancelled,
                   lease, ending, quiet>>

\* The command has exited, or is stopped.
ServeClose ==
    /\ pc = "dispatch"
    /\ kind[serving[2]] = "close"
    /\ childExited' = TRUE
    /\ ptyClosed' \in {ptyClosed, TRUE}
    /\ exited' = TRUE /\ eof' = ptyClosed'
    /\ response' = Output("closed", eof')
    /\ pc' = "write"
    /\ UNCHANGED <<clientVars, produced, acked, serving, side, pending, task, cancelled,
                   lease, ending, quiet>>

\* The command survives both signals.
ServeCloseFails ==
    /\ pc = "dispatch"
    /\ kind[serving[2]] = "close"
    /\ ~childExited
    /\ eof' = ptyClosed
    /\ response' = Plain("failed")
    /\ pc' = "write"
    /\ UNCHANGED <<clientVars, child, acked, exited, serving, side, pending, task, cancelled,
                   lease, ending, quiet>>

StartInteraction ==
    /\ pc = "dispatch"
    /\ Interactive(serving[2])
    /\ task' = IF kind[serving[2]] = "type" THEN "typing" ELSE "polling"
    /\ cancelled' = FALSE
    /\ response' = NoResponse
    /\ pc' = "interact"
    /\ UNCHANGED <<clientVars, child, job, serving, side, pending, lease, ending, quiet>>

-------------------------------------------------------------------------------
(* The thread of an interaction. *)

TaskOnly == UNCHANGED <<clientVars, child, acked, pc, serving, side, pending, cancelled,
                        lease, ending, quiet>>

TypeInput ==
    /\ task = "typing"
    /\ ~ptyClosed
    /\ task' = "polling"
    /\ UNCHANGED <<exited, eof, response>>
    /\ TaskOnly

\* Writing to a terminal that nobody holds open any more fails.
TypeInputFails ==
    /\ task = "typing"
    /\ ptyClosed
    /\ task' = "failed"
    /\ UNCHANGED <<exited, eof, response>>
    /\ TaskOnly

\* Mutant: output that is still to come is taken to have come.
PollExitedEarly ==
    /\ task = "polling"
    /\ childExited
    /\ Observe
    /\ response' = Output("exited", TRUE)
    /\ task' = "completed"
    /\ TaskOnly

PollExited ==
    /\ task = "polling"
    /\ childExited
    /\ Observe
    /\ response' = Output("exited", eof')
    /\ task' = "completed"
    /\ TaskOnly

\* Output has settled, the screen was sampled, or the wait has elapsed.
PollBoundary ==
    /\ task = "polling"
    /\ ~childExited
    /\ Observe
    /\ response' = Output("running", FALSE)
    /\ task' = "completed"
    /\ TaskOnly

PollCancelled ==
    /\ task = "polling"
    /\ ~childExited
    /\ cancelled
    /\ Observe
    /\ task' = "gave_up"
    /\ UNCHANGED response
    /\ TaskOnly

TaskNext == TypeInput \/ TypeInputFails \/ PollExited \/ PollBoundary \/ PollCancelled

TaskDone == task \in {"completed", "gave_up", "failed"}

-------------------------------------------------------------------------------
(* The loop around that thread (run_interaction). *)

JoinTask ==
    /\ pc = "interact"
    /\ task = "completed"
    /\ pc' = "write"
    /\ task' = "none"
    /\ UNCHANGED <<clientVars, child, job, serving, side, pending, cancelled, response,
                   lease, ending, quiet>>

\* An error of the interaction ends the worker.
JoinFailure ==
    /\ pc \in {"interact", "join"}
    /\ task = "failed"
    /\ End("failed")
    /\ UNCHANGED <<spool, child, job, quiet>>

AcceptMeanwhile ==
    /\ pc = "interact"
    /\ ~TaskDone
    /\ queue # <<>>
    /\ side' = Head(queue)
    /\ queue' = Tail(queue)
    /\ pc' = "read_side"
    /\ UNCHANGED <<listening, calls, spool, child, job, serving, pending, task, cancelled, response,
                   lease, ending, quiet>>

\* A cancel request for the interaction, as far as its number tells.
CancelInteraction ==
    /\ pc = "read_side"
    /\ side[1] = "cancel"
    /\ RequestId[side[2]] = RequestId[serving[2]]
    /\ cancelled' = TRUE
    /\ side' = NoConnection
    /\ pc' = "join"
    /\ UNCHANGED <<clientVars, child, job, serving, pending, task, response, lease, ending, quiet>>

\* Another request displaces the interaction.
DisplaceInteraction ==
    /\ pc = "read_side"
    /\ side[1] = "call"
    /\ "requested" \in stream[side[2]]
    /\ cancelled' = TRUE
    /\ pending' = side[2]
    /\ side' = NoConnection
    /\ pc' = "join"
    /\ UNCHANGED <<clientVars, child, job, serving, task, response, lease, ending, quiet>>

DropSide ==
    /\ pc = "read_side"
    /\ \/ side[1] = "cancel" /\ RequestId[side[2]] # RequestId[serving[2]]
       \/ /\ side[1] = "call"
          /\ "client_closed" \in stream[side[2]]
          /\ "requested" \notin stream[side[2]]
    /\ Drop(side)
    /\ side' = NoConnection
    /\ pc' = "interact"
    /\ UNCHANGED <<listening, queue, cpc, kind, inbox, cancel, result, spool, child, job, serving,
                   pending, task, cancelled, response, lease, ending, quiet>>

\* Mutant: what it has found is taken for delivered.
JoinCancelledAcknowledges ==
    /\ pc = "join"
    /\ task \in {"completed", "gave_up"}
    /\ Finish(TRUE)
    /\ acked' = IF task = "completed" THEN response.to ELSE acked
    /\ UNCHANGED <<child, exited, eof, quiet>>

\* What the interaction has found meanwhile is not sent to anyone.
JoinCancelled ==
    /\ pc = "join"
    /\ task \in {"completed", "gave_up"}
    /\ Finish(TRUE)
    /\ UNCHANGED <<child, job, quiet>>

-------------------------------------------------------------------------------
(* The response (write_response). *)

Closing == kind[serving[2]] = "close"

\* The response ends the worker if it answers a close request or was the last.
Conclude(last) ==
    IF Closing \/ last
    THEN End(IF Closing THEN "closed" ELSE "answered") /\ UNCHANGED spool
    ELSE Finish(TRUE)

WriteFails ==
    /\ pc = "write"
    /\ "client_closed" \in stream[serving[2]]
    /\ Conclude(FALSE)
    /\ UNCHANGED <<child, job, quiet>>

\* Interact requests are acknowledged by their callers.
WriteResponse ==
    /\ pc = "write"
    /\ "client_closed" \notin stream[serving[2]]
    /\ inbox' = [inbox EXCEPT ![serving[2]] = response]
    /\ pc' = IF Interactive(serving[2]) THEN "ack" ELSE "conclude"
    /\ acked' = IF response.status = "closed" THEN response.to ELSE acked
    /\ UNCHANGED <<listening, queue, cpc, kind, stream, cancel, result, spool, child, exited, eof,
                   serving, side, pending, task, cancelled, response, lease, ending, quiet>>

ConcludeUnacknowledged ==
    /\ pc = "conclude"
    /\ Conclude(FALSE)
    /\ UNCHANGED <<child, job, quiet>>

ReadAcknowledgement ==
    /\ pc = "ack"
    /\ "acknowledged" \in stream[serving[2]]
    /\ acked' = response.to
    /\ Conclude(response.final)
    /\ UNCHANGED <<child, exited, eof, quiet>>

\* The caller went away without acknowledging the response.
ReadNoAcknowledgement ==
    /\ pc = "ack"
    /\ "client_closed" \in stream[serving[2]]
    /\ "acknowledged" \notin stream[serving[2]]
    /\ Conclude(response.final)
    /\ UNCHANGED <<child, job, quiet>>

-------------------------------------------------------------------------------
(* The lease. *)

ActiveExpiration == IF interacted THEN Expiration ELSE LongerOf(Expiration, StartupGrace)

Elapsed == idle >= ActiveExpiration

KeepLease ==
    /\ pc = "lease"
    /\ ~Elapsed
    /\ pc' = "loop"
    /\ UNCHANGED <<clientVars, child, job, serving, side, pending, task, cancelled, response,
                   lease, ending, quiet>>

Expire ==
    /\ pc = "lease"
    /\ Elapsed
    /\ childExited' = (childExited \/ ~eof)
    /\ End("expired")
    /\ UNCHANGED <<spool, ptyClosed, produced, job, quiet>>

Killed ==
    /\ MayBeKilled
    /\ listening
    /\ End("killed")
    /\ UNCHANGED <<spool, child, job, quiet>>

LoopNext ==
    \/ Refresh \/ Store \/ StoreFails \/ ReturnAfterStore
    \/ Accept \/ AcceptTimesOut \/ TakePending \/ ReadRequest \/ ReadNothing
    \/ ServeWrite \/ ServeClose \/ ServeCloseFails \/ StartInteraction
    \/ JoinTask \/ JoinFailure \/ AcceptMeanwhile
    \/ CancelInteraction \/ DisplaceInteraction \/ DropSide \/ JoinCancelled
    \/ WriteFails \/ WriteResponse \/ ConcludeUnacknowledged
    \/ ReadAcknowledgement \/ ReadNoAcknowledgement
    \/ KeepLease \/ Expire

-------------------------------------------------------------------------------

\* A caller is told that the job is running, and has its handle.
ToldRunning(c) == result'[c] # result[c] /\ result'[c].status = "running"

CallNext ==
    /\ ClientNext
    /\ quiet' = IF \E c \in Calls : ToldRunning(c) THEN 0 ELSE quiet
    /\ UNCHANGED <<child, job, control, lease, ending>>

Next ==
    \/ CallNext
    \/ ChildNext
    \/ Tick
    \/ TaskNext
    \/ LoopNext
    \/ Killed

Spec == Init /\ [][Next]_vars

(* The worker and the thread of an interaction run, callers that are there go on,
   and time passes.  The command need not do anything. *)
Fairness ==
    /\ WF_vars(LoopNext)
    /\ WF_vars(TaskNext)
    /\ WF_vars(Tick)
    /\ \A c \in Calls : WF_vars(Proceed(c) /\ CallNext)

FairSpec == Spec /\ Fairness

-------------------------------------------------------------------------------

TerminalStatuses == {"running", "exited", "closed"}

\* The output returned to callers so far ends here.
OutputRead ==
    CHOOSE n \in {0} \cup {result[c].to : c \in Calls} : \A c \in Calls : result[c].to <= n

Outputs == INSTANCE JobOutput WITH
    written <- produced,
    read <- OutputRead,
    got <- [c \in Calls |-> IF result[c].status \in TerminalStatuses
                            THEN <<result[c].from, result[c].to>> ELSE <<>>]

(* Seen by all callers together, the job is one stream of output that is read
   from front to back: whatever responses were dropped, repeated, displaced or
   left in the spool, the next output that a call returns begins where the last
   one that any call returned has ended. *)
ImplementsJobOutput == Outputs!Spec

Last(r) == r.final /\ r.to = produced

LastIsKept == Last(spool) \/ \E c \in Calls : Last(result[c])

(* The exit status and the output before it are not lost: when the command has
   ended and the worker has finished with it or answered a call with it, they were
   returned to a caller or are in the spool, unless a caller went away. *)
LastResponseIsKept ==
    /\ ending \in {"finished", "answered"} /\ childExited /\ ptyClosed
    /\ \A c \in Calls : result[c].status # "dropped"
    => LastIsKept

(* The same whether callers went away or not, and when an interaction failed
   because the command had ended: the next one still gets the rest of the output
   and the final status. *)
LastResponseIsAlwaysKept ==
    ending \in {"finished", "answered", "failed"} /\ childExited /\ ptyClosed => LastIsKept

(* A caller that was told of a running job can come back for the whole
   expiration of the lease. *)
LeaseIsHonoured == ending = "expired" => quiet >= Expiration

(* Every call that was sent ends: no call waits for a worker that waits for
   another call. *)
CallsEnd == \A c \in Calls : cpc[c] = "connected" ~> cpc[c] = "done"

(* When no more calls are made the worker ends, whatever its command does. *)
WorkerEnds == <>~listening
=============================================================================
