------------------------------- MODULE PhiDriver -------------------------------
(***************************************************************************)
(* The command-line driver, phi/src/lib.rs: phi step, run and yolo load a  *)
(* Session file, append the input, write a checkpoint, and then evaluate   *)
(* one step after another with a checkpoint after each.  Ctrl-C, a panic   *)
(* in a step, a checkpoint that cannot be written and the death of the     *)
(* process may come at any point.                                          *)
(*                                                                         *)
(* frames is what the process holds in memory; between invocations it      *)
(* stands for nothing and equals the file.  One process works on a file at *)
(* a time; SessionFile has several.                                        *)
(***************************************************************************)
EXTENDS PhiSession

VARIABLES
    file,          \* the frames in the Session file
    phase,         \* where the process is
    mode,          \* which command runs
    failedBefore,  \* previous_was_failed: the last step of a yolo run failed
    mayCommit      \* commit_on_cancel: job_interact ran in this invocation

Modes == {"step", "run", "yolo"}

Working == {"evaluating", "cancelling"}      \* a step is in flight
Stepped == {"stepped", "stepped_last"}       \* its result is not in the file yet
Leaving == {"completed", "interrupted", "panicked"}
Phases == {"idle", "starting"} \cup Working \cup Stepped \cup Leaving

process == <<phase, mode, failedBefore, mayCommit>>
driverVars == <<frames, file, process>>

DriverInit ==
    /\ Init
    /\ file = frames
    /\ phase = "idle"
    /\ mode = "step"
    /\ failedBefore = FALSE
    /\ mayCommit = FALSE

-------------------------------------------------------------------------------

\* The file is replaced in one step.  Syncing the directory comes after that,
\* so a save that reports an error may have taken effect.
Saved == file' = frames
SaveFailed == file' \in {file, frames}

\* The process is gone and its memory with it.
Gone ==
    /\ phase' = "idle"
    /\ frames' = file'
    /\ failedBefore' = FALSE
    /\ mayCommit' = FALSE
    /\ mode' = "step"

\* A session subcommand is a process of its own; it may be cut off before it
\* saves.
Command ==
    /\ phase = "idle"
    /\ SessionCommand
    /\ file' = frames'
    /\ UNCHANGED process

Invoke ==
    /\ phase = "idle"
    /\ mode' \in Modes
    /\ phase' = "starting"
    /\ AppendMessages \/ UNCHANGED frames
    /\ UNCHANGED <<file, failedBefore, mayCommit>>

InitialCheckpoint ==
    /\ phase = "starting"
    /\ Saved
    /\ phase' = "evaluating"
    /\ UNCHANGED <<frames, mode, failedBefore, mayCommit>>

\* The executor calls job_interact; the flag is not cleared afterwards.
InteractWithJob ==
    /\ phase = "evaluating"
    /\ RunsTool
    /\ mayCommit' = TRUE
    /\ UNCHANGED <<frames, file, phase, mode, failedBefore>>

Evaluate ==
    /\ phase \in Working
    /\ AgentStep
    /\ phase' = IF phase = "evaluating" THEN "stepped" ELSE "stepped_last"
    /\ UNCHANGED <<file, mode, failedBefore, mayCommit>>

\* Ctrl-C during a step.  The step is dropped, or finished and kept when it may
\* be talking to a job.  Between steps nobody listens and the signal is lost.
Interrupt ==
    /\ phase = "evaluating"
    /\ phase' = IF mayCommit THEN "cancelling" ELSE "interrupted"
    /\ UNCHANGED <<frames, file, mode, failedBefore, mayCommit>>

\* The checkpoint taken before the step is what is kept.
Panic ==
    /\ phase \in Working
    /\ phase' = "panicked"
    /\ UNCHANGED <<frames, file, mode, failedBefore, mayCommit>>

Completes ==
    CASE mode = "step" -> TRUE
      [] mode = "yolo" -> BaseStep.kind = "turn_end" \/ (IsFailed(BaseStep) /\ failedBefore)
      [] mode = "run" -> IsTerminal(BaseStep) \/ BaseStep.kind = "request_compact"

\* Mutants: the checkpoint is left for later; a failure is remembered for good;
\* an interrupted run goes on once the step is saved.
CheckpointLater ==
    /\ phase = "stepped"
    /\ UNCHANGED file
    /\ phase' = IF Completes THEN "completed" ELSE "evaluating"
    /\ failedBefore' = (mode = "yolo" /\ IsFailed(BaseStep))
    /\ UNCHANGED <<frames, mode, mayCommit>>
CheckpointRemembersFailure ==
    /\ phase = "stepped"
    /\ Saved
    /\ phase' = IF Completes THEN "completed" ELSE "evaluating"
    /\ failedBefore' = (mode = "yolo" /\ (failedBefore \/ IsFailed(BaseStep)))
    /\ UNCHANGED <<frames, mode, mayCommit>>
LastCheckpointGoesOn ==
    /\ phase = "stepped_last"
    /\ Saved
    /\ phase' = "evaluating"
    /\ UNCHANGED <<frames, mode, failedBefore, mayCommit>>

Checkpoint ==
    /\ phase = "stepped"
    /\ Saved
    /\ phase' = IF Completes THEN "completed" ELSE "evaluating"
    /\ failedBefore' = (mode = "yolo" /\ IsFailed(BaseStep))
    /\ UNCHANGED <<frames, mode, mayCommit>>

\* The step that ran on after Ctrl-C is the last one.
LastCheckpoint ==
    /\ phase = "stepped_last"
    /\ Saved
    /\ phase' = "interrupted"
    /\ UNCHANGED <<frames, mode, failedBefore, mayCommit>>

\* An error from a checkpoint ends the invocation without another attempt.
CheckpointFails ==
    /\ phase \in {"starting"} \cup Stepped
    /\ SaveFailed
    /\ Gone

\* persist_cli_agent_session: the session is saved once more on the way out.
Leave ==
    /\ phase \in Leaving
    /\ Saved \/ SaveFailed
    /\ Gone

Crash ==
    /\ phase # "idle"
    /\ UNCHANGED file
    /\ Gone

DriverNext ==
    \/ Command
    \/ Invoke
    \/ InitialCheckpoint
    \/ InteractWithJob
    \/ Evaluate
    \/ Interrupt
    \/ Panic
    \/ Checkpoint
    \/ LastCheckpoint
    \/ CheckpointFails
    \/ Leave
    \/ Crash

\* The driver itself is never kept from running.  Tools end: job_interact gives
\* up its wait when it is told of the interrupt, the other tools have deadlines.
\* A provider request has none, so nothing is assumed of the other steps.
DriverFairness ==
    /\ WF_driverVars(RunsTool /\ Evaluate)
    /\ WF_driverVars(InitialCheckpoint \/ Checkpoint \/ LastCheckpoint \/ Leave)

DriverSpec == DriverInit /\ [][DriverNext]_driverVars
FairDriverSpec == DriverSpec /\ DriverFairness

-------------------------------------------------------------------------------
(* Properties *)

DriverTypeOK ==
    /\ TypeOK
    /\ file \in Seq(Frame) \ {<<>>}
    /\ phase \in Phases
    /\ mode \in Modes
    /\ failedBefore \in BOOLEAN
    /\ mayCommit \in BOOLEAN

\* Whatever the process goes through, the file passes from one session to the
\* next by a single evaluated step or a single command: crashes, panics and
\* interrupts lose at most the step in flight, and none is half applied.
File == INSTANCE PhiSession WITH frames <- file

FileIsSession == File!SessionSpec

\* While a step is in flight the file holds the session it started from, so
\* that is what is left when the process dies, is interrupted or panics.
CheckpointIsCurrent ==
    phase \in {"idle"} \cup Working \cup Leaving => frames = file

\* phi yolo stops by itself only at the end of a turn or at a failure for which
\* recovery has nothing left to try.
YoloStopsWhenDone ==
    mode = "yolo" /\ phase = "completed" => BaseStep.kind = "turn_end" \/ GivesUp

\* Ctrl-C during a tool call that may be talking to a job ends the run: the
\* call is finished, its result is saved, and no other step begins.
InterruptEndsRun == phase = "cancelling" /\ RunsTool /\ CanGrow ~> phase = "idle"
===============================================================================
