------------------------------- MODULE ShellJobs -------------------------------
(***************************************************************************)
(* The shell job tools of an agent (executor/tools/shell/job.rs), the      *)
(* launch of the workers behind them (headlessterm/worker/launcher.rs and  *)
(* startup.rs, exec_job and access_job in client.rs), and session delete,  *)
(* which closes the jobs a session refers to (session/command.rs).         *)
(*                                                                         *)
(* One session calls one tool at a time.  Its process may be interrupted   *)
(* or killed; the next one goes on with the same session.  What a worker   *)
(* does with its requests is in HeadlessWorker: here one is served as a    *)
(* whole, after those that came before it.  Output is left out, and time:  *)
(* a wait may end at any moment, only the lease of a job does not end      *)
(* while a call is on its way to it.                                       *)
(***************************************************************************)
EXTENDS Integers, Sequences, SequencesExt

CONSTANTS
    Handles,     \* the jobs that are started, each with a handle of its own
    MaxCalls,    \* bound on the number of tool calls
    None

ASSUME JobsAssumption ==
    /\ MaxCalls \in Nat
    /\ None \notin Handles \cup {"bash_job", "job_interact", "job_close"}

VARIABLES
    worker, ending,    \* of each job: how far its worker is, and why it ended
    reader,            \* whether somebody waits for the launch report
    report,            \* WorkerLaunchReport
    command,           \* the command of the job
    kept,              \* whether its last response is in the spool
    typed, lines,      \* input it was given: since the last line end, and lines
    abandoned,         \* requests that were sent and are no longer waited for
    call,              \* the tool call in flight
    callCount,
    results,           \* tool results in the session
    lost,              \* jobs whose call has failed or did not return
    deleted            \* whether the session is

jobs == <<worker, ending, reader, report, command, kept, typed, lines, abandoned>>
session == <<call, callCount, results, lost, deleted>>
jobVars == <<jobs, session>>

\* A request to type something, and perhaps to end the line, and to wait for
\* output unless it is followed by another; or to close the job.
Request(input, enter, close) == [input |-> input, enter |-> enter, close |-> close]

ReadOnly == Request(<<>>, FALSE, FALSE)
EnterKey == Request(<<>>, TRUE, FALSE)
CloseRequest == Request(<<>>, FALSE, TRUE)

NoToolCall == [tool |-> None, job |-> None, input |-> None, at |-> "idle", requests |-> <<>>]

JobsInit ==
    /\ worker = [j \in Handles |-> "none"] /\ ending = [j \in Handles |-> "none"]
    /\ reader = [j \in Handles |-> FALSE] /\ report = [j \in Handles |-> "none"]
    /\ command = [j \in Handles |-> "none"]
    /\ kept = [j \in Handles |-> FALSE]
    /\ typed = [j \in Handles |-> <<>>] /\ lines = [j \in Handles |-> {}]
    /\ abandoned = [j \in Handles |-> <<>>]
    /\ call = NoToolCall /\ callCount = 0
    /\ results = <<>> /\ lost = {} /\ deleted = FALSE

Listening(j) == worker[j] \in {"bound", "spawned", "serving"}

-------------------------------------------------------------------------------
(* Results. *)

RunningStatuses == {"settled", "elapsed"}

\* Mutant: only a job that has settled can be gone back to.
ResponseIfSettled(tool, job, input, status) ==
    [tool |-> tool, about |-> job, input |-> input, status |-> status,
     handle |-> IF status = "settled" THEN job ELSE None, nested |-> FALSE]

\* The result of a call carries the handle while the job runs.
ToolResult(tool, job, input, status) ==
    [tool |-> tool, about |-> job, input |-> input, status |-> status,
     handle |-> IF status \in RunningStatuses \cup {"user_interrupted"} THEN job ELSE None,
     nested |-> FALSE]

Answer(status) ==
    /\ call' = NoToolCall
    /\ results' = Append(results, ToolResult(call.tool, call.job, call.input, status))
    /\ UNCHANGED <<callCount, deleted>>

Return(status) == Answer(status) /\ UNCHANGED lost

\* The call fails, and the session has no handle of a job it has started.
Fail ==
    /\ Answer("error")
    /\ lost' = lost \cup (IF call.tool = "bash_job" THEN {call.job} ELSE {})

Goto(at) == call' = [call EXCEPT !.at = at] /\ UNCHANGED <<callCount, results, lost, deleted>>

Begin(tool, job, input, at, requests) ==
    /\ ~deleted
    /\ call = NoToolCall
    /\ callCount < MaxCalls
    /\ callCount' = callCount + 1
    /\ call' = [tool |-> tool, job |-> job, input |-> input, at |-> at, requests |-> requests]
    /\ UNCHANGED <<results, lost, deleted>>

-------------------------------------------------------------------------------
(* The launch of a job. *)

BashJob(j) ==
    /\ worker[j] = "none"
    /\ Begin("bash_job", j, None, "launching", <<ReadOnly>>)
    /\ worker' = [worker EXCEPT ![j] = "started"]
    /\ reader' = [reader EXCEPT ![j] = TRUE]
    /\ UNCHANGED <<ending, report, command, kept, typed, lines, abandoned>>

Ends(j, why) ==
    /\ worker' = [worker EXCEPT ![j] = "ended"]
    /\ ending' = [ending EXCEPT ![j] = why]

Bind(j) ==
    /\ worker[j] = "started"
    /\ worker' = [worker EXCEPT ![j] = "bound"]
    /\ UNCHANGED <<ending, reader, report, command, kept, typed, lines, abandoned, session>>

SpawnCommand(j) ==
    /\ worker[j] = "bound"
    /\ worker' = [worker EXCEPT ![j] = "spawned"]
    /\ command' = [command EXCEPT ![j] = "running"]
    /\ UNCHANGED <<ending, reader, report, kept, typed, lines, abandoned, session>>

\* The socket cannot be bound or the command not be started.
PrepareFails(j) ==
    /\ worker[j] \in {"started", "bound"}
    /\ Ends(j, "unprepared")
    /\ report' = [report EXCEPT ![j] = "failed"]
    /\ UNCHANGED <<reader, command, kept, typed, lines, abandoned, session>>

\* A terminal that is closed hangs up on its command, which may ignore that.
HangUp(j) == \E after \in {command[j], "exited"} :
    command' = [command EXCEPT ![j] = IF @ = "none" THEN @ ELSE after]

ReportReady(j) ==
    /\ worker[j] = "spawned"
    /\ reader[j]
    /\ worker' = [worker EXCEPT ![j] = "serving"]
    /\ report' = [report EXCEPT ![j] = "ready"]
    /\ UNCHANGED <<ending, reader, command, kept, typed, lines, abandoned, session>>

\* Nobody reads the report any more: writing it fails, and the worker ends.
ReportFails(j) ==
    /\ worker[j] = "spawned"
    /\ ~reader[j]
    /\ Ends(j, "unheard")
    /\ HangUp(j)
    /\ UNCHANGED <<reader, report, kept, typed, lines, abandoned, session>>

Launching == call.at = "launching"

Launched ==
    /\ Launching
    /\ report[call.job] # "none"
    /\ reader' = [reader EXCEPT ![call.job] = FALSE]
    /\ IF report[call.job] = "ready" THEN Goto("connecting") ELSE Fail
    /\ UNCHANGED <<worker, ending, report, command, kept, typed, lines, abandoned>>

\* The report is late, or whoever waits for it dies.
LaunchFails ==
    /\ Launching
    /\ reader' = [reader EXCEPT ![call.job] = FALSE]
    /\ Fail
    /\ UNCHANGED <<worker, ending, report, command, kept, typed, lines, abandoned>>

-------------------------------------------------------------------------------
(* Calls on a job. *)

\* Mutant: what does not end a line is not ended for the caller.
RequestsAsGiven(kind, input) ==
    CASE kind = "none"         -> <<ReadOnly>>
      [] kind = "empty"        -> <<EnterKey>>
      [] kind = "terminated"   -> <<Request(<<input>>, TRUE, FALSE)>>
      [] kind = "unterminated" -> <<Request(<<input>>, FALSE, FALSE)>>

\* interactive_input: input that does not end a line is written first, and
\* submitted with a carriage return a moment later.
InteractiveInput(kind, input) ==
    CASE kind = "none"         -> <<ReadOnly>>
      [] kind = "empty"        -> <<EnterKey>>
      [] kind = "terminated"   -> <<Request(<<input>>, TRUE, FALSE)>>
      [] kind = "unterminated" -> <<Request(<<input>>, FALSE, FALSE), EnterKey>>

Known(j) == \E i \in DOMAIN results : results[i].handle = j

\* The input of a call is its number.
JobInteract(j, kind) ==
    /\ Known(j)
    /\ LET input == IF kind \in {"terminated", "unterminated"} THEN callCount + 1 ELSE None
       IN  Begin("job_interact", j, input, "connecting", InteractiveInput(kind, input))
    /\ UNCHANGED jobs

JobClose(j) ==
    /\ Known(j)
    /\ Begin("job_close", j, None, "connecting", <<CloseRequest>>)
    /\ UNCHANGED jobs

Connect ==
    /\ call.at = "connecting"
    /\ Listening(call.job)
    /\ Goto("sent")
    /\ UNCHANGED jobs

IsWrite == Len(call.requests) > 1

\* The request was only to write: the next one follows.
NextRequest ==
    /\ call' = [call EXCEPT !.at = "connecting", !.requests = Tail(@)]
    /\ UNCHANGED <<callCount, results, lost, deleted>>

OfClose == call.tool = "job_close"

\* Mutant: the spool is asked only when a connection is lost.
JobGoneAtOnce ==
    /\ call.at \in {"connecting", "sent"}
    /\ ~Listening(call.job)
    /\ CASE IsWrite -> NextRequest /\ UNCHANGED kept
         [] ~IsWrite /\ ~OfClose /\ kept[call.job] /\ call.at = "sent" ->
                Return("exited") /\ kept' = [kept EXCEPT ![call.job] = FALSE]
         [] OTHER -> Return("not_found") /\ UNCHANGED kept
    /\ UNCHANGED <<worker, ending, reader, report, command, typed, lines, abandoned>>

\* There is no endpoint, or not any more: an interact request takes the last
\* response from the spool, a new job after it has waited for the endpoint.
JobGone ==
    /\ call.at \in {"connecting", "sent"}
    /\ ~Listening(call.job)
    /\ CASE IsWrite -> NextRequest /\ UNCHANGED kept
         [] ~IsWrite /\ ~OfClose /\ kept[call.job] ->
                Return("exited") /\ kept' = [kept EXCEPT ![call.job] = FALSE]
         [] OTHER -> Return("not_found") /\ UNCHANGED kept
    /\ UNCHANGED <<worker, ending, reader, report, command, typed, lines, abandoned>>

\* Connecting, writing or reading fails for another reason.
TransportFails ==
    /\ call.at \in {"connecting", "sent"}
    /\ Fail
    /\ abandoned' = IF call.at = "sent"
                    THEN [abandoned EXCEPT ![call.job] = Append(@, Head(call.requests))]
                    ELSE abandoned
    /\ UNCHANGED <<worker, ending, reader, report, command, kept, typed, lines>>

-------------------------------------------------------------------------------
(* The worker, its command and its lease. *)

Serving(j) == worker[j] = "serving"

\* The command gets what a request types.
Type(j, request) ==
    LET line == typed[j] \o request.input
    IN  IF request.enter
        THEN /\ lines' = [lines EXCEPT ![j] = @ \cup {line}]
             /\ typed' = [typed EXCEPT ![j] = <<>>]
        ELSE typed' = [typed EXCEPT ![j] = line] /\ UNCHANGED lines

\* It is the turn of the request of the call.
Turn(j) == call.at = "sent" /\ call.job = j /\ Serving(j) /\ abandoned[j] = <<>>

ServeWrite(j) ==
    /\ Turn(j)
    /\ IsWrite
    /\ \/ Type(j, Head(call.requests)) /\ NextRequest
       \/ command[j] = "exited" /\ Return("error") /\ UNCHANGED <<typed, lines>>
    /\ UNCHANGED <<worker, ending, reader, report, command, kept, abandoned>>

ServeInteract(j) ==
    /\ Turn(j)
    /\ ~IsWrite /\ ~OfClose
    /\ Type(j, Head(call.requests))
    /\ Goto("served")
    /\ UNCHANGED <<worker, ending, reader, report, command, kept, abandoned>>

\* The terminal is closed, and typing ends the worker.
TypingFails(j) ==
    /\ Turn(j)
    /\ ~IsWrite /\ Head(call.requests).enter
    /\ command[j] = "exited"
    /\ Ends(j, "failed")
    /\ UNCHANGED <<reader, report, command, kept, typed, lines, abandoned, session>>

InteractionEnds(j) ==
    /\ call.at = "served" /\ call.job = j /\ Serving(j)
    /\ IF command[j] = "running"
       THEN (\E status \in RunningStatuses : Return(status)) /\ UNCHANGED <<worker, ending>>
       ELSE /\ Return("exited")
            /\ Ends(j, "answered") \/ UNCHANGED <<worker, ending>>
    /\ UNCHANGED <<reader, report, command, kept, typed, lines, abandoned>>

\* The worker dies under an interaction.
InteractionLost ==
    /\ call.at = "served"
    /\ ~Listening(call.job)
    /\ Goto("sent")
    /\ UNCHANGED jobs

Close(j) ==
    /\ Ends(j, "closed")
    /\ command' = [command EXCEPT ![j] = "exited"]

ServeClose(j) ==
    /\ Turn(j)
    /\ OfClose
    /\ \/ Close(j) /\ Return("closed")
       \/ Return("error") /\ UNCHANGED <<worker, ending, command>>
    /\ UNCHANGED <<reader, report, kept, typed, lines, abandoned>>

Busy(j) == call.job = j /\ call.at = "served"

\* Requests nobody waits for are served all the same.
ServeAbandoned(j) ==
    /\ Serving(j) /\ ~Busy(j)
    /\ abandoned[j] # <<>>
    /\ abandoned' = [abandoned EXCEPT ![j] = Tail(@)]
    /\ LET request == Head(abandoned[j])
       IN  IF request.close
           THEN Close(j) /\ UNCHANGED <<typed, lines>>
           ELSE Type(j, request) /\ UNCHANGED <<worker, ending, command>>
    /\ UNCHANGED <<reader, report, kept, session>>

CommandExits(j) ==
    /\ command[j] = "running"
    /\ command' = [command EXCEPT ![j] = "exited"]
    /\ UNCHANGED <<worker, ending, reader, report, kept, typed, lines, abandoned, session>>

\* The command and its output have ended.
WorkerFinishes(j) ==
    /\ Serving(j) /\ ~Busy(j)
    /\ command[j] = "exited"
    /\ \/ Ends(j, "finished") /\ kept' = [kept EXCEPT ![j] = TRUE]
       \/ Ends(j, "spool_failed") /\ UNCHANGED kept
    /\ UNCHANGED <<reader, report, command, typed, lines, abandoned, session>>

Expire(j) ==
    /\ Serving(j)
    /\ call.job # j
    /\ Ends(j, "expired")
    /\ command' = [command EXCEPT ![j] = "exited"]
    /\ UNCHANGED <<reader, report, kept, typed, lines, abandoned, session>>

WorkerDies(j) ==
    /\ worker[j] = "started" \/ Listening(j)
    /\ Ends(j, "killed")
    /\ HangUp(j)
    /\ report' = [report EXCEPT ![j] = IF @ = "none" THEN "failed" ELSE @]
    /\ UNCHANGED <<reader, kept, typed, lines, abandoned, session>>

-------------------------------------------------------------------------------
(* Interruptions, and the end of the session. *)

\* What was sent to the worker stays with it.
LeaveRequest ==
    /\ abandoned' = IF call.at = "sent"
                    THEN [abandoned EXCEPT ![call.job] = Append(@, Head(call.requests))]
                    ELSE abandoned
    /\ UNCHANGED <<worker, ending, reader, report, command, kept, typed, lines>>

\* Ctrl-C during job_interact: the call returns, whatever the job does.
InteractInterrupted ==
    /\ call.tool = "job_interact"
    /\ Return("user_interrupted")
    /\ LeaveRequest

\* Ctrl-C during another call, or the process is killed: the session stays as it
\* was before the call.
CallVanishes ==
    /\ call # NoToolCall
    /\ call' = NoToolCall
    /\ lost' = lost \cup (IF call.tool = "bash_job" THEN {call.job} ELSE {})
    /\ LeaveRequest
    /\ UNCHANGED <<callCount, results, deleted>>

\* session tool-result gives a call a result from elsewhere, which may hold the
\* one of a tool as its value.
ResultFromElsewhere(j) ==
    /\ Known(j)
    /\ call = NoToolCall /\ ~deleted
    /\ callCount < MaxCalls
    /\ callCount' = callCount + 1
    /\ results' = Append(results,
           [ToolResult("tool_result", j, None, "settled") EXCEPT !.nested = TRUE])
    /\ UNCHANGED <<call, lost, deleted, jobs>>

\* Handles are looked for in the "value" of a result, which results of tools lack.
RunningJobHandles ==
    {r.handle : r \in {r \in ToSet(results) : r.nested /\ r.status \in RunningStatuses}}

\* The workers of these jobs are asked to close, and all but some do.
DeleteSession(refusing) ==
    LET closed == {j \in RunningJobHandles \ refusing : Serving(j)}
    IN  /\ call = NoToolCall /\ ~deleted
        /\ deleted' = TRUE
        /\ worker' = [j \in Handles |-> IF j \in closed THEN "ended" ELSE worker[j]]
        /\ ending' = [j \in Handles |-> IF j \in closed THEN "closed" ELSE ending[j]]
        /\ command' = [j \in Handles |-> IF j \in closed THEN "exited" ELSE command[j]]
        /\ lost' = lost \cup refusing
        /\ UNCHANGED <<reader, report, kept, typed, lines, abandoned, call, callCount, results>>

JobsNext ==
    \/ \E j \in Handles :
        \/ BashJob(j)
        \/ Bind(j) \/ SpawnCommand(j) \/ PrepareFails(j) \/ ReportReady(j) \/ ReportFails(j)
        \/ \E kind \in {"none", "empty", "terminated", "unterminated"} : JobInteract(j, kind)
        \/ JobClose(j)
        \/ ServeWrite(j) \/ ServeInteract(j) \/ TypingFails(j) \/ InteractionEnds(j)
        \/ ServeClose(j) \/ ServeAbandoned(j)
        \/ CommandExits(j) \/ WorkerFinishes(j) \/ Expire(j) \/ WorkerDies(j)
        \/ ResultFromElsewhere(j)
    \/ Launched \/ LaunchFails
    \/ Connect \/ JobGone \/ TransportFails \/ InteractionLost
    \/ InteractInterrupted \/ CallVanishes
    \/ \E refusing \in SUBSET RunningJobHandles : DeleteSession(refusing)

JobsSpec == JobsInit /\ [][JobsNext]_jobVars

-------------------------------------------------------------------------------
(* Properties *)

Runs(j) == Serving(j) /\ command[j] = "running"

\* A job does not go on without its session knowing: while its command runs and
\* no call is about it, a result holds its handle, unless the call that started
\* it has failed or was interrupted.
NoJobIsForgotten ==
    \A j \in Handles : Runs(j) /\ call.job # j => Known(j) \/ j \in lost

\* Input that a call has given to a job which then went on running is the end of
\* a line there, whatever earlier calls have left unfinished.
InputIsEntered ==
    \A r \in ToSet(results) : r.input # None /\ r.status \in RunningStatuses =>
        \E line \in lines[r.about] : line # <<>> /\ Last(line) = r.input

\* A command that ends at once, before its caller has connected to the worker,
\* does not look as if it had never been: it is reported as not found only if its
\* worker failed or died.
ShortCommandsAreRead ==
    \A r \in ToSet(results) : r.tool = "bash_job" /\ r.status = "not_found" =>
        ending[r.about] \notin {"finished", "answered"}

\* Deleting a session closes the jobs it refers to as running, unless one of them
\* does not let itself be closed.
DeleteClosesJobs ==
    deleted => \A r \in ToSet(results) :
        r.status \in RunningStatuses /\ Runs(r.about) => r.about \in lost
===============================================================================
