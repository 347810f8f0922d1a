------------------------------- MODULE PhiSession ------------------------------
(***************************************************************************)
(* A Session file between and during agent runs: the evaluator of PhiAgent *)
(* together with the transformations of the phi session subcommands        *)
(* (phi/src/session/mod.rs and command.rs).  Each command loads the file,  *)
(* transforms it and saves it; saving validates every frame.               *)
(***************************************************************************)
EXTENDS PhiAgent

CONSTANTS
    Inputs,       \* messages given with --user and --assistant
    UserKeys,     \* variables of session store and session remove
    UserValues,   \* values of session store
    MaxHistory    \* bound on the messages a session is appended to, for model checking

ASSUME SessionAssumption ==
    /\ Inputs \subseteq Seq({UserMessage, AssistantMessage(<<>>)})
    /\ UserKeys \subseteq Keys
    /\ UserValues \subseteq Nat
    /\ MaxHistory \in Nat

-------------------------------------------------------------------------------

\* A transformation whose result is invalid is reported and saves nothing.
Transform(next) == ValidFrames(next) /\ frames' = next

\* phi session append, and the --user and --assistant options of step, run and
\* yolo: the outermost frame gets the messages whatever its step is.
AppendMessages ==
    /\ Len(History(frames)) < MaxHistory
    /\ \E input \in Inputs :
        Transform(ReplaceOuter(frames, BaseStep,
                               Then(Outer(frames).delta, Messages(input))))

StoreJson(key, value) ==
    Transform(ReplaceOuter(frames, BaseStep, StoreIn(Outer(frames).delta, key, value)))

RemoveKey(key) ==
    Transform(ReplaceOuter(frames, BaseStep, RemoveIn(Outer(frames).delta, key)))

NextProvider ==
    /\ CanGrow
    /\ Transform(Branch(frames, RequestProvider, EmptyDelta))

\* Mutant: the replacement starts with an empty delta.
ReplaceProviderAfresh == Transform(ReplaceOuter(frames, RequestProvider, EmptyDelta))

ReplaceProvider ==
    Transform(ReplaceOuter(frames, RequestProvider, Outer(frames).delta))

\* Mutant: the first result supplied completes the batch.
InsertFirstResult ==
    /\ BaseStep.kind = "request_executor"
    /\ CanGrow
    /\ LET turn == BaseStep
           results == Append(turn.results, turn.calls[Len(turn.results) + 1])
       IN Transform(Branch(frames, RequestProvider,
                           Messages(TurnMessages(turn.pending, turn.calls, results))))

\* phi session tool-result: the caller supplies the result of the next call.
InsertToolResult ==
    /\ BaseStep.kind = "request_executor"
    /\ Len(BaseStep.results) < Len(BaseStep.calls)
    /\ LET turn == BaseStep
           results == Append(turn.results, turn.calls[Len(turn.results) + 1])
       IN IF TurnCompletes(turn.calls, results)
          THEN /\ CanGrow
               /\ Transform(Branch(frames, RequestProvider,
                      Messages(TurnMessages(turn.pending, turn.calls, results))))
          ELSE Transform(ReplaceOuter(frames,
                   RequestExecutor(turn.pending, turn.calls, results),
                   Outer(frames).delta))

Rollback == Transform(DropOuter(frames))

StepKinds == {"failed", "request_compact", "request_provider", "request_executor",
              "compacted", "turn_end"}

\* The outermost frame of the kind may be the current one; no frame of the kind
\* is an error that saves nothing.
RollbackTo ==
    \E kind \in StepKinds :
        LET found == {i \in 1 .. Len(frames) : frames[i].step.kind = kind}
        IN /\ found # {}
           /\ Transform(SubSeq(frames, 1, Max(found)))

SessionCommand ==
    \/ AppendMessages
    \/ \E key \in UserKeys, value \in UserValues : StoreJson(key, value)
    \/ \E key \in UserKeys : RemoveKey(key)
    \/ NextProvider
    \/ ReplaceProvider
    \/ InsertToolResult
    \/ Rollback
    \/ RollbackTo

SessionNext == AgentStep \/ SessionCommand

SessionSpec == Init /\ [][SessionNext]_frames

-------------------------------------------------------------------------------
(* Properties *)

\* Commands and evaluation together still behave like a stack of complete
\* states: a rollback, of one frame or of several, restores the messages and
\* the variables of the frame it returns to, whatever was appended or stored
\* above it.
ImplementsOwnedSnapshots == Stack!OwnerSpec

\* session store and session remove decide what a later lookup finds, whatever
\* the frames below say: a removal hides every older value.
WritesAreRead ==
    [][\A key \in UserKeys :
          /\ RemoveKey(key) => Lookup(frames', key) = Missing
          /\ \A value \in UserValues :
                StoreJson(key, value) => Lookup(frames', key) = Stored(value)]_frames

\* What the documentation says of failed frames, with the session commands in
\* the picture.
FailedFramesAreEmpty ==
    \A i \in DOMAIN frames : IsFailed(frames[i].step) => frames[i].delta = EmptyDelta
===============================================================================
