-------------------------------- MODULE PhiAgent -------------------------------
(***************************************************************************)
(* The step evaluator: phi/src/agent/step.rs with the modules installed by *)
(* phi/src/features/mod.rs.  One action is one evaluated step, from the    *)
(* committed frames to the committed frames: the evaluator works on a      *)
(* private delta and publishes a result only when a bounce ends the step.  *)
(*                                                                         *)
(* Modules are consulted in a fixed order: step budget, model retry (only  *)
(* when the command asks for it), auto compaction, failure recovery; the   *)
(* first that intervenes decides, and the core evaluates the step only     *)
(* when none does.  The guards below state that order.  The modules are    *)
(* chosen by each command line, so every step picks its retry budget.      *)
(***************************************************************************)
EXTENDS Compaction

CONSTANTS
    RetryKey,        \* the variable that counts model retries
    RetryBudgets,    \* values of --max-model-request-retries, NoRetry if absent
    MaxSteps,        \* runtime.max_steps: history length that ends the turn
    ContextTokens,   \* runtime.context_tokens
    PromptTokens,    \* estimated tokens of the compaction prompt
    Batches,         \* tool-call batches a provider may return
    RequestTails,    \* messages that modules append to a model request
    ProviderErrors,  \* errors a provider request may end with
    MaxFrames,       \* bound on the number of frames, for model checking,
    FreeFrames       \*   and on that of chains that do not only retry compaction

NoRetry == -1

ASSUME RetryAssumption ==
    /\ RetryKey \in Keys
    /\ RetryBudgets \subseteq Nat \cup {NoRetry} /\ RetryBudgets # {}
ASSUME LimitAssumption ==
    /\ MaxSteps \in Nat /\ ContextTokens \in Nat /\ PromptTokens \in Nat
    /\ MaxFrames \in Nat \ {0} /\ FreeFrames \in Nat \ (0 .. 2)
ASSUME InputAssumption ==
    /\ Batches \subseteq Seq(CallIds) \ {<<>>}
    /\ RequestTails \subseteq Seq(Message) /\ RequestTails # {}
    /\ ProviderErrors \subseteq PlainErrors

VARIABLE frames

\* phi session new: a root request_provider frame holding the system prompt,
\* which is never absent (an empty configured prompt is still a message).
Init == frames = Branch(<<>>, RequestProvider, Messages(<<SystemMessage>>))

-------------------------------------------------------------------------------
(* Bounces: the only transformations of the frames. *)

RetryState == Lookup(frames, RetryKey)

\* The retry module writes the attempt counter into every new request_provider
\* frame whose delta does not already mention it.
CarryRetry(step, delta, retries) ==
    IF /\ retries # NoRetry
       /\ IsRequestProvider(step)
       /\ ~Affects(delta, RetryKey)
       /\ RetryState # Missing
    THEN [delta EXCEPT !.effects[RetryKey] = RetryState]
    ELSE delta

CanGrow ==
    /\ Len(frames) < MaxFrames
    /\ Len(frames) >= FreeFrames =>
        \A i \in FreeFrames - 2 .. Len(frames) :
            frames[i].step.kind \in {"request_compact", "failed"}

\* Mutants: the failed frame keeps the delta of the step; it takes its place.
RuntimeFailedKeepsDelta(error) ==
    CanGrow /\ frames' = Branch(frames, Failed(error), Outer(frames).delta)
RuntimeFailedReplacesStep(error) ==
    CanGrow /\ frames' = Branch(DropOuter(frames), Failed(error), EmptyDelta)

\* The failed frame is empty and leaves the step that failed as it was.
RuntimeFailed(error) ==
    /\ CanGrow
    /\ frames' = Branch(frames, Failed(error), EmptyDelta)

CreateNextStep(step, delta, retries) ==
    IF ValidReactStep(step)
    THEN /\ CanGrow
         /\ frames' = Branch(frames, step, CarryRetry(step, delta, retries))
    ELSE RuntimeFailed(Error("session"))

ReplaceBaseStep(step, delta, retries) ==
    IF ValidReactStep(step) /\ (step.kind = "compacted" => HasParent(frames))
    THEN frames' = ReplaceOuter(frames, step,
                       CarryRetry(step, Then(Outer(frames).delta, delta), retries))
    ELSE RuntimeFailed(Error("session"))

RollbackStep == frames' = DropOuter(frames)

KeepBaseStep == UNCHANGED frames

-------------------------------------------------------------------------------
(* What the modules look at *)

BaseStep == Outer(frames).step

AtProvider == IsRequestProvider(BaseStep)
AtFailure(classes) == IsFailed(BaseStep) /\ BaseStep.error.kind \in classes

ProviderAncestor == FindAncestor(frames, "request_provider")

OverBudget == AtProvider /\ Len(History(frames)) >= MaxSteps

RetryApplies(retries) ==
    /\ retries # NoRetry
    /\ AtFailure(RetryableErrors)
    /\ ProviderAncestor # <<>>

\* One more than the attempt recorded at the request that failed.
NextAttempt ==
    LET recorded == Lookup(ProviderAncestor, RetryKey)
    IN IF recorded = Missing THEN 1 ELSE recorded.value + 1

\* The cheap precheck of auto_compact.rs uses the same estimate against a lower
\* threshold, so it never changes the outcome.
OverThreshold ==
    /\ AtProvider
    /\ RetryState = Missing
    /\ Tokens(History(frames)) + PromptTokens >= (ContextTokens * 8) \div 10

\* Mutant: only provider requests are recovered.
RecoveryRateOfRequests ==
    IF IsRequestProvider(Parent(frames).step) THEN FirstRate ELSE RateUnit

\* The retain rate recovery would try next, above HalfRate when it gives up.
RecoveryRate ==
    CASE Parent(frames).step.kind = "request_provider" -> FirstRate
      [] Parent(frames).step.kind = "request_compact" -> NextRate(Parent(frames).step.rate)
      [] OTHER -> RateUnit

-------------------------------------------------------------------------------
(* Governance *)

StepBudgetEndsTurn(retries) ==
    /\ OverBudget
    /\ CreateNextStep(TurnEnd, EmptyDelta, retries)

\* Mutant: the last retry is counted once too often.
RetryModelOnceMore(retries) ==
    /\ RetryApplies(retries)
    /\ NextAttempt <= retries + 1
    /\ ReplaceBaseStep(RequestProvider, StoreIn(EmptyDelta, RetryKey, NextAttempt), retries)

RetryModel(retries) ==
    /\ RetryApplies(retries)
    /\ NextAttempt <= retries
    /\ ReplaceBaseStep(RequestProvider, StoreIn(EmptyDelta, RetryKey, NextAttempt), retries)

RetryExhausted(retries) ==
    /\ RetryApplies(retries)
    /\ NextAttempt > retries
    /\ ReplaceBaseStep(RequestProvider, RemoveIn(EmptyDelta, RetryKey), retries)

AutoCompact(retries) ==
    /\ ~OverBudget
    /\ OverThreshold
    /\ CreateNextStep(RequestCompact(FirstRate), EmptyDelta, retries)

(* Recovery *)

RecoverContextOverflow(retries) ==
    /\ AtFailure({"context_exceeded_limit"})
    /\ HasParent(frames)
    /\ RecoveryRate <= HalfRate
    /\ ReplaceBaseStep(RequestCompact(RecoveryRate), EmptyDelta, retries)

\* Mutant: the results obtained before the failure are forgotten along with
\* their calls.
RecoverFailedCallOnly(retries) ==
    /\ AtFailure(ToolErrors)
    /\ LET turn == BaseStep.error
           failed == <<turn.calls[Len(turn.results) + 1]>>
       IN ReplaceBaseStep(RequestProvider,
              Messages(TurnMessages(turn.pending, failed, failed)), retries)

\* The assistant message keeps the completed calls and the failed one; the
\* failed call gets the error as its result and the calls after it are dropped.
RecoverToolFailure(retries) ==
    /\ AtFailure(ToolErrors)
    /\ LET turn == BaseStep.error
           done == Len(turn.results)
           kept == SubSeq(turn.calls, 1, done + 1)
       IN ReplaceBaseStep(RequestProvider,
              Messages(TurnMessages(turn.pending, kept,
                                    Append(turn.results, turn.calls[done + 1]))),
              retries)

RollbackFailure(retries) ==
    /\ IsFailed(BaseStep)
    /\ ~RetryApplies(retries)
    /\ BaseStep.error.kind \notin ToolErrors \cup {"context_exceeded_limit"}
    /\ HasParent(frames)
    /\ RollbackStep

\* Recovery gives up at the highest rate; a failed root is left to the caller.
GivesUp ==
    /\ IsFailed(BaseStep)
    /\ IF HasParent(frames) THEN /\ AtFailure({"context_exceeded_limit"})
                                 /\ RecoveryRate > HalfRate
                            ELSE BaseStep.error.kind \notin ToolErrors

KeepFailure(retries) == GivesUp /\ KeepBaseStep

-------------------------------------------------------------------------------
(* Core: request_provider *)

CallsProvider == AtProvider /\ ~OverBudget /\ ~OverThreshold

ProviderCallsTools(retries) ==
    /\ CallsProvider
    /\ \E calls \in Batches, tail \in RequestTails :
          CreateNextStep(RequestExecutor(tail, calls, <<>>), EmptyDelta, retries)

\* The response may be empty, and may ask for another request.
ProviderReplies(retries) ==
    /\ CallsProvider
    /\ \E tail \in RequestTails,
          reply \in {<<>>, <<AssistantMessage(<<>>)>>},
          next \in {RequestProvider, TurnEnd} :
          CreateNextStep(next, Messages(tail \o reply), retries)

ProviderFails ==
    /\ CallsProvider
    /\ \E class \in ProviderErrors : RuntimeFailed(Error(class))

(* Core: request_executor, one call per step *)

RunsTool == BaseStep.kind = "request_executor"

ToolSucceeds(retries) ==
    /\ RunsTool
    /\ LET turn == BaseStep
           results == Append(turn.results, turn.calls[Len(turn.results) + 1])
       IN IF Len(turn.results) >= Len(turn.calls)
          THEN ReplaceBaseStep(RequestProvider, EmptyDelta, retries)
          ELSE IF TurnCompletes(turn.calls, results)
          THEN CreateNextStep(RequestProvider,
                   Messages(TurnMessages(turn.pending, turn.calls, results)), retries)
          ELSE ReplaceBaseStep(RequestExecutor(turn.pending, turn.calls, results),
                   EmptyDelta, retries)

\* Mutants: the failure forgets the completed results; it forgets the calls
\* that are still to run, the failed one included.
ToolFailsWithoutResults ==
    /\ RunsTool
    /\ RuntimeFailed(ToolFailure("tool_error", BaseStep.pending, BaseStep.calls, <<>>))
ToolFailsWithoutRequest ==
    /\ RunsTool
    /\ RuntimeFailed(ToolFailure("tool_error", BaseStep.pending,
                        SubSeq(BaseStep.calls, 1, Len(BaseStep.results)), BaseStep.results))

ToolFails ==
    /\ RunsTool
    /\ ValidTurn(BaseStep)
    /\ \E class \in ToolErrors :
          RuntimeFailed(ToolFailure(class, BaseStep.pending, BaseStep.calls, BaseStep.results))

(* Core: request_compact, compacted, turn_end *)

CompactSucceeds(retries) ==
    /\ BaseStep.kind = "request_compact"
    /\ CreateNextStep(Compacted, Messages(Compact(History(frames), BaseStep.rate)), retries)

\* Errors other than an exceeded context are reported as request_compact.
CompactFails ==
    /\ BaseStep.kind = "request_compact"
    /\ NeedsSummary(History(frames), BaseStep.rate)
    /\ \E class \in {"context_exceeded_limit", "request_compact"} :
          RuntimeFailed(Error(class))

\* The nearest request is resumed; what it asks for is not modelled, so a
\* request found and a fresh one are the same step.
ResumeCompacted(retries) ==
    /\ BaseStep.kind = "compacted"
    /\ CreateNextStep(RequestProvider, EmptyDelta, retries)

ResumeTurnEnd(retries) ==
    /\ BaseStep.kind = "turn_end"
    /\ CreateNextStep(RequestProvider, EmptyDelta, retries)

-------------------------------------------------------------------------------

AgentStep ==
    \/ ProviderFails
    \/ ToolFails
    \/ CompactFails
    \/ \E retries \in RetryBudgets :
          \/ StepBudgetEndsTurn(retries)
          \/ RetryModel(retries)
          \/ RetryExhausted(retries)
          \/ AutoCompact(retries)
          \/ RecoverContextOverflow(retries)
          \/ RecoverToolFailure(retries)
          \/ RollbackFailure(retries)
          \/ KeepFailure(retries)
          \/ ProviderCallsTools(retries)
          \/ ProviderReplies(retries)
          \/ ToolSucceeds(retries)
          \/ CompactSucceeds(retries)
          \/ ResumeCompacted(retries)
          \/ ResumeTurnEnd(retries)

Spec == Init /\ [][AgentStep]_frames

-------------------------------------------------------------------------------
(* Properties *)

TypeOK == frames \in Seq(Frame) \ {<<>>}

\* Every step the evaluator commits passes the validation a checkpoint applies
\* before it writes (Session::save), so a checkpoint is never refused.
CheckpointsAreValid == ValidFrames(frames)

\* The history every request carries keeps each call together with its result,
\* though it is made of provider turns, of half-finished batches that recovery
\* cut short, of rollbacks and of compactions.
CallsAreAnswered == WellPaired(History(frames))

\* A tool failure keeps the whole turn below it: one rollback brings back the
\* executor with the results obtained before the failure (failure-recovery.md).
FailedTurnIsRestorable ==
    \A i \in DOMAIN frames :
        IsToolFailure(frames[i].step) =>
            /\ i > 1
            /\ LET turn == frames[i].step.error
               IN frames[i - 1].step = RequestExecutor(turn.pending, turn.calls, turn.results)

\* A failed frame is empty and is never built upon: every recovery replaces or
\* removes it, so no failure is left buried in the chain.
FailureIsEmptyAndOutermost ==
    \A i \in DOMAIN frames :
        IsFailed(frames[i].step) =>
            i > 1 /\ i = Len(frames) /\ frames[i].delta = EmptyDelta

\* A provider frame above an executor commits exactly the calls that ran there:
\* the results the executor held and one more, be it the last result of the
\* batch or the error of the call that failed.
TurnCommitsWhatRan ==
    \A i \in 1 .. Len(frames) - 1 :
        /\ frames[i].step.kind = "request_executor"
        /\ IsRequestProvider(frames[i + 1].step)
        => LET turn == frames[i].step
               ran == SubSeq(turn.calls, 1, Len(turn.results) + 1)
           IN frames[i + 1].delta.history = TurnMessages(turn.pending, ran, ran)

\* Overflowing compact requests are retried at most seven times in a row: rates
\* are added up in single precision, the ninth would exceed one half by one
\* rounding error, and recovery gives up.
CompactAttemptsEnd ==
    \A i \in 1 .. Len(frames) - 8 :
        \E j \in i .. i + 8 : frames[j].step.kind # "request_compact"

\* Retry attempts count up one by one from the request they retry, and never
\* beyond the largest budget a command asked for.
RetriesCountUp ==
    \A i \in DOMAIN frames :
        LET effect == frames[i].delta.effects[RetryKey]
            below == Lookup(FindAncestor(SubSeq(frames, 1, i), "request_provider"), RetryKey)
        IN effect.tag = "stored" =>
              /\ \E budget \in RetryBudgets : effect.value <= budget
              /\ below \in {Stored(effect.value), Stored(effect.value - 1)}
                              \cup (IF effect.value = 1 THEN {Missing} ELSE {})

\* The context was exceeded by a model request and then by compaction at every
\* rate, from the first to the last that is within one half.
Exhausted ==
    LET n == Len(frames)
    IN /\ BaseStep = Failed(Error("context_exceeded_limit"))
       /\ \E i \in 1 .. n - 2 :
             /\ IsRequestProvider(frames[i].step)
             /\ frames[i + 1].step = RequestCompact(FirstRate)
             /\ \A j \in i + 2 .. n - 1 :
                   frames[j].step = RequestCompact(NextRate(frames[j - 1].step.rate))
       /\ NextRate(frames[n - 1].step.rate) > HalfRate

\* Recovery keeps a failure only when it has tried everything.  A session whose
\* steps change nothing any more is one in which every rate of compaction has
\* failed above the same request; any other failure is retried, answered,
\* condensed or taken back, and any other step is evaluated.
OnlyExhaustionIsFinal == CanGrow => (ENABLED <<AgentStep>>_frames <=> ~Exhausted)

-------------------------------------------------------------------------------
(* Refinement: the chain of deltas behaves like a stack of complete states. *)

SnapshotOf(chain) ==
    [history |-> History(chain),
     env |-> [key \in Keys |-> Lookup(chain, key)],
     compacted |-> IsHistoryBarrier(Outer(chain).step)]

SnapshotStack == [i \in 1 .. Len(frames) |-> SnapshotOf(SubSeq(frames, 1, i))]

Stack == INSTANCE Snapshots WITH
    stack <- SnapshotStack,
    Opening <- SnapshotOf(Branch(<<>>, RequestProvider, Messages(<<SystemMessage>>)))

\* Every evaluated step publishes, continues or takes back a complete state:
\* no step loses committed messages, and removing a frame restores both the
\* messages and the variables that were visible below it.
ImplementsSnapshots == Stack!Spec
===============================================================================
