----------------------------- MODULE PhiAgentProofs -----------------------------
(***************************************************************************)
(* Proofs about PhiAgent.  Every step of the evaluator is shown to be one  *)
(* of five ways to change the chain, and each of them keeps the chain well *)
(* formed.                                                                 *)
(***************************************************************************)
EXTENDS PhiAgent, ChainProofs

-------------------------------------------------------------------------------
(* Steps and errors *)

\* The steps without a payload, and those with one, are steps.
LEMMA StepTypes ==
  /\ RequestProvider \in Step /\ Compacted \in Step /\ TurnEnd \in Step
  /\ \A rate \in Nat : RequestCompact(rate) \in Step
  /\ \A error \in ErrorSet : Failed(error) \in Step
  /\ \A class \in PlainErrors : Error(class) \in ErrorSet
  BY DEF RequestProvider, Compacted, TurnEnd, RequestCompact, Failed, Error, Step, ErrorSet

\* What a tool turn is made of, pending or failed.
LEMMA TurnTypes ==
  ASSUME NEW pending \in Seq(Message), NEW calls \in Seq(CallIds), NEW results \in Seq(CallIds)
  PROVE  /\ RequestExecutor(pending, calls, results) \in Step
         /\ \A class \in ToolErrors : ToolFailure(class, pending, calls, results) \in ErrorSet
         /\ TurnMessages(pending, calls, results) \in Seq(Message)
<1>1. RequestExecutor(pending, calls, results) \in Step
  BY DEF RequestExecutor, Step, ToolTurn
<1>2. \A class \in ToolErrors : ToolFailure(class, pending, calls, results) \in ErrorSet
  BY DEF ToolFailure, ErrorSet, ToolTurn
<1>3. TurnMessages(pending, calls, results) \in Seq(Message)
  <2>1. <<AssistantMessage(calls)>> \in Seq(Message)
    BY MessageTypes
  <2>2. [i \in 1 .. Len(results) |-> ToolResultMessage(results[i])] \in Seq(Message)
    <3>1. \A i \in 1 .. Len(results) : ToolResultMessage(results[i]) \in Message
      BY MessageTypes
    <3>2. Len(results) \in Nat
      OBVIOUS
    <3> QED
      BY <3>1, <3>2
  <2> QED
    BY <2>1, <2>2, ConcatProperties DEF TurnMessages
<1> QED
  BY <1>1, <1>2, <1>3

\* What the kind of a step says of its fields.
LEMMA StepFields ==
  ASSUME NEW step \in Step
  PROVE  /\ step.kind \in {"request_provider", "compacted", "turn_end", "request_compact",
                           "request_executor", "failed"}
         /\ step.kind = "request_compact" => step.rate \in Nat
         /\ step.kind = "request_executor" =>
               /\ step = RequestExecutor(step.pending, step.calls, step.results)
               /\ step.pending \in Seq(Message)
               /\ step.calls \in Seq(CallIds) /\ step.results \in Seq(CallIds)
         /\ IsFailed(step) => step = Failed(step.error) /\ step.error \in ErrorSet
  BY DEF Step, ToolTurn, RequestExecutor, Failed, IsFailed

\* What the class of an error says of its fields.
LEMMA ErrorFields ==
  ASSUME NEW error \in ErrorSet
  PROVE  /\ error.kind \in PlainErrors \cup ToolErrors
         /\ error.kind \in ToolErrors =>
               /\ error.pending \in Seq(Message)
               /\ error.calls \in Seq(CallIds) /\ error.results \in Seq(CallIds)
  BY DEF ErrorSet, ToolTurn, PlainErrors, RetryableErrors, OtherErrors, ToolErrors

\* The next rate up is still positive.
LEMMA NextRatePositive ==
  ASSUME NEW rate \in Nat
  PROVE  NextRate(rate) \in Nat /\ NextRate(rate) > 0
<1> DEFINE n == rate + RateStep
           u == Spacing(n)
           down == n \div u
<1>1. n \in Nat /\ n > 16
  BY DEF RateStep
<1>2. u \in {2, 4, 8, 16}
  <2> HIDE DEF n
  <2> QED
    BY <1>1, SMT DEF Spacing, HalfRate
<1>3. NextRate(rate) \in {down * u, (down + 1) * u}
  BY DEF NextRate, RoundRate
<1> HIDE DEF n, u
<1>4. down \in Nat /\ down > 0
  <2>1. CASE u = 2
    BY <1>1, <2>1
  <2>2. CASE u = 4
    BY <1>1, <2>2
  <2>3. CASE u = 8
    BY <1>1, <2>3
  <2>4. CASE u = 16
    BY <1>1, <2>4
  <2> QED
    BY <1>2, <2>1, <2>2, <2>3, <2>4
<1> HIDE DEF down
<1>5. down * u \in Nat /\ down * u > 0 /\ (down + 1) * u \in Nat /\ (down + 1) * u > 0
  BY <1>2, <1>4
<1> QED
  BY <1>3, <1>5

-------------------------------------------------------------------------------
(* Well-formed chains: what every step and every command keeps. *)

\* What a frame may be, given the frame below it.
FrameFits(fs, i) ==
    /\ ValidStep(fs[i].step)
    /\ fs[i].step.kind = "compacted" => i > 1
    /\ IsFailed(fs[i].step) => i > 1 /\ ~IsFailed(fs[i - 1].step)
    /\ IsToolFailure(fs[i].step) =>
          LET turn == fs[i].step.error
          IN fs[i - 1].step = RequestExecutor(turn.pending, turn.calls, turn.results)

WellFormed(fs) ==
    /\ fs \in Seq(Frame) /\ fs # <<>>
    /\ \A i \in 1 .. Len(fs) : FrameFits(fs, i)

\* A well-formed chain, frame by frame.
LEMMA WellFormedFrames ==
  ASSUME NEW fs, WellFormed(fs)
  PROVE  /\ Len(fs) \in Nat /\ Len(fs) > 0 /\ fs \in Chain(Step)
         /\ \A i \in 1 .. Len(fs) : fs[i].step \in Step /\ fs[i].delta \in Delta
         /\ Outer(fs).step \in Step /\ Outer(fs).delta \in Delta
         /\ FrameFits(fs, Len(fs))
<1>1. fs \in Chain(Step) /\ fs # <<>>
  BY DEF WellFormed, Chain, Frame
<1>2. /\ Len(fs) \in Nat
      /\ \A i \in 1 .. Len(fs) : fs[i].step \in Step /\ fs[i].delta \in Delta
  BY <1>1, FrameOf
<1>3. Len(fs) > 0
  BY <1>1 DEF Chain
<1> QED
  BY <1>1, <1>2, <1>3 DEF Outer, WellFormed

\* A new outermost frame.
LEMMA BranchKeeps ==
  ASSUME NEW fs, WellFormed(fs), NEW step \in Step, NEW delta \in Delta,
         ValidStep(step),
         IsFailed(step) => ~IsFailed(Outer(fs).step),
         IsToolFailure(step) =>
            Outer(fs).step = RequestExecutor(step.error.pending, step.error.calls,
                                             step.error.results)
  PROVE  WellFormed(Branch(fs, step, delta))
<1> DEFINE new == [step |-> step, delta |-> delta]
           next == Append(fs, new)
<1>1. Len(fs) \in Nat /\ Len(fs) > 0 /\ fs \in Seq(Frame)
  BY WellFormedFrames DEF WellFormed
<1>2. new \in Frame
  BY DEF Frame
<1>3. /\ next \in Seq(Frame) /\ next # <<>> /\ Len(next) = Len(fs) + 1
      /\ \A i \in 1 .. Len(fs) : next[i] = fs[i]
      /\ next[Len(fs) + 1] = new
  BY <1>1, <1>2, AppendProperties
<1> HIDE DEF next
<1>4. ASSUME NEW i \in 1 .. Len(fs) PROVE FrameFits(next, i)
  <2>1. FrameFits(fs, i)
    BY DEF WellFormed
  <2>2. next[i] = fs[i] /\ (i > 1 => next[i - 1] = fs[i - 1])
    BY <1>1, <1>3
  <2> QED
    BY <1>1, <2>1, <2>2 DEF FrameFits, IsToolFailure
<1>5. FrameFits(next, Len(fs) + 1)
  <2>1. next[Len(fs) + 1].step = step /\ next[Len(fs)] = Outer(fs)
    BY <1>1, <1>3 DEF Outer
  <2>2. (Len(fs) + 1) - 1 = Len(fs) /\ Len(fs) + 1 > 1
    BY <1>1
  <2> QED
    BY <2>1, <2>2 DEF FrameFits
<1>6. WellFormed(next)
  BY <1>1, <1>3, <1>4, <1>5 DEF WellFormed
<1> QED
  BY <1>6 DEF next, Branch

\* Another outermost frame.  A failure is only ever kept as it is.
LEMMA ReplaceKeeps ==
  ASSUME NEW fs, WellFormed(fs), NEW step \in Step, NEW delta \in Delta,
         ValidStep(step),
         step.kind = "compacted" => HasParent(fs),
         IsFailed(step) => step = Outer(fs).step
  PROVE  WellFormed(ReplaceOuter(fs, step, delta))
<1> DEFINE n == Len(fs)
           new == [step |-> step, delta |-> delta]
           next == [fs EXCEPT ![n] = new]
<1>1. n \in Nat /\ n > 0 /\ fs \in Seq(Frame) /\ n \in 1 .. n
  BY WellFormedFrames DEF WellFormed
<1>2. new \in Frame
  BY DEF Frame
<1>3. /\ next \in Seq(Frame) /\ Len(next) = n
      /\ \A i \in 1 .. n : next[i] = IF i = n THEN new ELSE fs[i]
  BY <1>1, <1>2, ExceptSeq
<1> HIDE DEF next
<1>4. ASSUME NEW i \in 1 .. n, i # n PROVE FrameFits(next, i)
  <2>1. FrameFits(fs, i)
    BY DEF WellFormed
  <2>2. next[i] = fs[i] /\ (i > 1 => next[i - 1] = fs[i - 1])
    BY <1>1, <1>3, <1>4
  <2> QED
    BY <1>1, <2>1, <2>2 DEF FrameFits, IsToolFailure
<1>5. FrameFits(next, n)
  <2>1. next[n].step = step /\ (n > 1 => next[n - 1] = fs[n - 1])
    BY <1>1, <1>3
  <2>2. IsFailed(step) => FrameFits(fs, n) /\ fs[n].step = step
    BY <1>1 DEF WellFormed, Outer
  <2> QED
    BY <2>1, <2>2 DEF FrameFits, HasParent, IsToolFailure
<1>6. WellFormed(next)
  BY <1>1, <1>3, <1>4, <1>5 DEF WellFormed
<1> QED
  BY <1>6 DEF next, new, ReplaceOuter

\* Fewer frames.
LEMMA PrefixKeeps ==
  ASSUME NEW fs, WellFormed(fs), NEW n \in 1 .. Len(fs)
  PROVE  WellFormed(SubSeq(fs, 1, n))
<1> DEFINE next == SubSeq(fs, 1, n)
<1>1. Len(fs) \in Nat /\ fs \in Seq(Frame) /\ n \in 0 .. Len(fs)
  BY WellFormedFrames DEF WellFormed
<1>2. next \in Seq(Frame) /\ Len(next) = n /\ \A i \in 1 .. n : next[i] = fs[i]
  BY <1>1, PrefixOf
<1> HIDE DEF next
<1>3. ASSUME NEW i \in 1 .. n PROVE FrameFits(next, i)
  <2>1. FrameFits(fs, i)
    BY <1>1 DEF WellFormed
  <2>2. next[i] = fs[i] /\ (i > 1 => next[i - 1] = fs[i - 1])
    BY <1>1, <1>2
  <2> QED
    BY <1>1, <2>1, <2>2 DEF FrameFits, IsToolFailure
<1>4. next # <<>>
  BY <1>1, <1>2
<1>5. WellFormed(next)
  BY <1>2, <1>3, <1>4 DEF WellFormed
<1> QED
  BY <1>5 DEF next

\* Removing the outermost frame, when there is one below.
LEMMA DropKeeps ==
  ASSUME NEW fs, WellFormed(fs)
  PROVE  WellFormed(DropOuter(fs))
<1>1. Len(fs) \in Nat /\ Len(fs) > 0
  BY WellFormedFrames
<1>2. CASE ~HasParent(fs)
  BY <1>2 DEF DropOuter
<1>3. CASE HasParent(fs)
  <2>1. DropOuter(fs) = SubSeq(fs, 1, Len(fs) - 1)
    BY <1>3 DEF DropOuter, Front
  <2>2. Len(fs) - 1 \in 1 .. Len(fs)
    BY <1>1, <1>3 DEF HasParent
  <2> QED
    BY <2>1, <2>2, PrefixKeeps
<1> QED
  BY <1>2, <1>3

-------------------------------------------------------------------------------
(* The five outcomes of a step *)

\* What may be published on the current step, and with which messages.
Follows(step, ms) ==
    \/ /\ AtProvider
       /\ \/ step \in {TurnEnd, RequestCompact(FirstRate)} /\ ms = <<>>
          \/ \E calls \in Batches, tail \in RequestTails :
                step = RequestExecutor(tail, calls, <<>>) /\ ms = <<>>
          \/ \E tail \in RequestTails, reply \in {<<>>, <<AssistantMessage(<<>>)>>} :
                step \in {RequestProvider, TurnEnd} /\ ms = tail \o reply
    \/ /\ RunsTool
       /\ Len(BaseStep.results) + 1 = Len(BaseStep.calls)
       /\ step = RequestProvider
       /\ ms = TurnMessages(BaseStep.pending, BaseStep.calls,
                  Append(BaseStep.results, BaseStep.calls[Len(BaseStep.results) + 1]))
    \/ /\ BaseStep.kind = "request_compact"
       /\ step = Compacted
       /\ ms = Compact(History(frames), BaseStep.rate)
    \/ /\ BaseStep.kind \in {"compacted", "turn_end"}
       /\ step = RequestProvider /\ ms = <<>>

Publishes ==
    \E step \in Step, ms \in Seq(Message), retries \in RetryBudgets :
        /\ ValidReactStep(step) /\ ~IsFailed(step) /\ ~IsFailed(BaseStep)
        /\ Follows(step, ms)
        /\ frames' = Branch(frames, step, CarryRetry(step, Messages(ms), retries))

Fails ==
    \E error \in ErrorSet :
        /\ ValidStep(Failed(error)) /\ ~IsFailed(BaseStep)
        /\ RunsTool <=> error.kind \in ToolErrors
        /\ error.kind \in ToolErrors =>
              BaseStep = RequestExecutor(error.pending, error.calls, error.results)
        /\ error.kind = "context_exceeded_limit" =>
              BaseStep.kind \in {"request_provider", "request_compact"}
        /\ frames' = Branch(frames, Failed(error), EmptyDelta)

\* What may take the place of the current step, and what it adds to its delta:
\* a retry, recovery by compaction or with the error as a result, the next call.
TakesOver(step, delta, retries) ==
    \/ /\ RetryApplies(retries)
       /\ step = RequestProvider
       /\ \/ delta = RemoveIn(EmptyDelta, RetryKey)
          \/ NextAttempt <= retries /\ delta = StoreIn(EmptyDelta, RetryKey, NextAttempt)
    \/ /\ AtFailure({"context_exceeded_limit"}) /\ HasParent(frames)
       /\ RecoveryRate <= HalfRate
       /\ step = RequestCompact(RecoveryRate) /\ delta = EmptyDelta
    \/ /\ AtFailure(ToolErrors)
       /\ LET turn == BaseStep.error
              done == Len(turn.results)
          IN /\ done < Len(turn.calls)
             /\ step = RequestProvider
             /\ delta = Messages(TurnMessages(turn.pending, SubSeq(turn.calls, 1, done + 1),
                                     Append(turn.results, turn.calls[done + 1])))
    \/ /\ RunsTool
       /\ Len(BaseStep.results) + 1 < Len(BaseStep.calls)
       /\ step = RequestExecutor(BaseStep.pending, BaseStep.calls,
                    Append(BaseStep.results, BaseStep.calls[Len(BaseStep.results) + 1]))
       /\ delta = EmptyDelta

Replaces ==
    \E step \in Step, delta \in Delta, retries \in RetryBudgets :
        /\ ValidReactStep(step) /\ ~IsFailed(step) /\ step.kind # "compacted"
        /\ TakesOver(step, delta, retries)
        /\ frames' = ReplaceOuter(frames, step,
                        CarryRetry(step, Then(Outer(frames).delta, delta), retries))

RollsBack == IsFailed(BaseStep) /\ HasParent(frames) /\ frames' = DropOuter(frames)

StaysFailed == GivesUp /\ UNCHANGED frames

\* The deltas steps start from are deltas.
LEMMA EmptyDeltaType == EmptyDelta \in Delta /\ \A ms \in Seq(Message) : Messages(ms) \in Delta
  BY EffectTypes DEF EmptyDelta, Messages, Delta

\* Carrying the retry counter over keeps a delta a delta.
LEMMA CarryRetryType ==
  ASSUME WellFormed(frames), NEW step, NEW delta \in Delta, NEW retries
  PROVE  CarryRetry(step, delta, retries) \in Delta
<1>1. RetryKey \in Keys
  BY RetryAssumption
<1>2. RetryState \in Effect
  BY <1>1, WellFormedFrames, LookupType DEF RetryState
<1>3. [delta EXCEPT !.effects[RetryKey] = RetryState] \in Delta
  <2> HIDE DEF RetryState
  <2> QED
    BY <1>1, <1>2 DEF Delta
<1> QED
  BY <1>3 DEF CarryRetry

\* A bounce that creates a step publishes it.
LEMMA CreatePublishes ==
  ASSUME NEW step \in Step, NEW ms \in Seq(Message), NEW retries \in RetryBudgets,
         ValidReactStep(step), ~IsFailed(step), ~IsFailed(BaseStep),
         Follows(step, ms),
         CreateNextStep(step, Messages(ms), retries)
  PROVE  Publishes
  BY DEF CreateNextStep, Publishes

\* The empty delta is one without messages.
LEMMA NoMessages == EmptyDelta = Messages(<<>>) /\ <<>> \in Seq(Message)
  BY EmptySeq DEF EmptyDelta, Messages

\* What is published is a frame.
LEMMA PublishedFrame ==
  ASSUME WellFormed(frames), Publishes
  PROVE  \E step \in Step, delta \in Delta :
            /\ ValidReactStep(step) /\ ~IsFailed(step) /\ ~IsFailed(BaseStep)
            /\ frames' = Branch(frames, step, delta)
<1>1. PICK step \in Step, ms \in Seq(Message), retries \in RetryBudgets :
         /\ ValidReactStep(step) /\ ~IsFailed(step) /\ ~IsFailed(BaseStep)
         /\ frames' = Branch(frames, step, CarryRetry(step, Messages(ms), retries))
  BY DEF Publishes
<1>2. Messages(ms) \in Delta
  BY EmptyDeltaType
<1>3. CarryRetry(step, Messages(ms), retries) \in Delta
  BY <1>2, CarryRetryType
<1> QED
  BY <1>1, <1>3

\* A bounce that replaces the step does so.
LEMMA ReplaceReplaces ==
  ASSUME NEW step \in Step, NEW delta \in Delta, NEW retries \in RetryBudgets,
         ValidReactStep(step), ~IsFailed(step), step.kind # "compacted",
         TakesOver(step, delta, retries),
         ReplaceBaseStep(step, delta, retries)
  PROVE  Replaces
  BY DEF ReplaceBaseStep, Replaces

\* What replaces the outermost frame is a frame.
LEMMA ReplacingFrame ==
  ASSUME WellFormed(frames), Replaces
  PROVE  \E step \in Step, delta \in Delta :
            /\ ValidReactStep(step) /\ ~IsFailed(step) /\ step.kind # "compacted"
            /\ frames' = ReplaceOuter(frames, step, delta)
<1> DEFINE base == Outer(frames).delta
<1>1. PICK step \in Step, delta \in Delta, retries \in RetryBudgets :
         /\ ValidReactStep(step) /\ ~IsFailed(step) /\ step.kind # "compacted"
         /\ frames' = ReplaceOuter(frames, step, CarryRetry(step, Then(base, delta), retries))
  BY DEF Replaces
<1>2. base \in Delta
  BY WellFormedFrames
<1>3. Then(base, delta) \in Delta
  <2> HIDE DEF base
  <2> QED
    BY <1>2, NoMessages, DeltaTypes
<1>4. CarryRetry(step, Then(base, delta), retries) \in Delta
  BY <1>3, CarryRetryType
<1> QED
  BY <1>1, <1>4

\* A failure is pushed with an empty delta.
LEMMA FailureFails ==
  ASSUME NEW class \in PlainErrors, BaseStep.kind \in {"request_provider", "request_compact"},
         RuntimeFailed(Error(class))
  PROVE  Fails
<1>0. ~IsFailed(BaseStep) /\ ~RunsTool
  BY DEF IsFailed, RunsTool
<1>1. Error(class) \in ErrorSet /\ Error(class).kind \notin ToolErrors
  BY StepTypes DEF Error, PlainErrors, RetryableErrors, OtherErrors, ToolErrors
<1>2. ValidStep(Failed(Error(class)))
  BY <1>1 DEF ValidStep, Failed, IsFailed, IsToolFailure
<1>3. frames' = Branch(frames, Failed(Error(class)), EmptyDelta)
  BY DEF RuntimeFailed
<1> QED
  BY <1>0, <1>1, <1>2, <1>3 DEF Fails

\* Steps that are always valid.
LEMMA PlainSteps ==
  \A step \in {RequestProvider, Compacted, TurnEnd} :
     /\ step \in Step /\ ValidReactStep(step) /\ ~IsFailed(step)
     /\ step.kind \in {"request_provider", "compacted", "turn_end"}
     /\ RequestProvider.kind = "request_provider"
  BY StepTypes DEF RequestProvider, Compacted, TurnEnd, ValidReactStep, IsFailed

\* A compact request at a valid rate is a step that may be committed.
LEMMA RateSteps ==
  ASSUME NEW rate \in Nat, ValidRate(rate)
  PROVE  LET step == RequestCompact(rate) IN
         step \in Step /\ ValidReactStep(step) /\ ~IsFailed(step) /\ step.kind # "compacted"
  BY StepTypes DEF RequestCompact, ValidReactStep, IsFailed

\* Compaction starts at a valid rate.
LEMMA FirstRateValid == FirstRate \in Nat /\ ValidRate(FirstRate)
  BY DEF FirstRate, ValidRate, HalfRate

-------------------------------------------------------------------------------
(* Which outcome each action has *)

\* The attempt that comes next is a number.
LEMMA NextAttemptType ==
  ASSUME WellFormed(frames), ProviderAncestor # <<>>
  PROVE  NextAttempt \in Nat
<1> DEFINE recorded == Lookup(ProviderAncestor, RetryKey)
<1>1. ProviderAncestor \in Chain(Step)
  BY WellFormedFrames, AncestorType DEF ProviderAncestor
<1>2. recorded \in Effect \ {Removed}
  BY <1>1, RetryAssumption, LookupType
<1>3. NextAttempt = IF recorded = Missing THEN 1 ELSE recorded.value + 1
  BY DEF NextAttempt
<1> HIDE DEF recorded
<1>4. recorded # Missing => recorded.value \in Nat
  BY <1>2 DEF Effect
<1> QED
  BY <1>3, <1>4

\* The rate recovery would try next is a number.
LEMMA RecoveryRateType ==
  ASSUME WellFormed(frames), HasParent(frames)
  PROVE  RecoveryRate \in Nat /\ RecoveryRate > 0
<1> DEFINE below == Parent(frames).step
<1>1. below \in Step
  <2>1. Len(frames) - 1 \in 1 .. Len(frames)
    BY WellFormedFrames DEF HasParent
  <2> QED
    BY <2>1, WellFormedFrames DEF Parent
<1>2. CASE below.kind = "request_provider"
  BY <1>2 DEF RecoveryRate, FirstRate
<1>3. CASE below.kind = "request_compact"
  <2>1. RecoveryRate = NextRate(below.rate)
    BY <1>3 DEF RecoveryRate
  <2>2. below.rate \in Nat
    BY <1>1, <1>3, StepFields
  <2> QED
    BY <2>1, <2>2, NextRatePositive
<1>4. CASE below.kind \notin {"request_provider", "request_compact"}
  BY <1>4 DEF RecoveryRate, RateUnit
<1> QED
  BY <1>2, <1>3, <1>4

\* Step budget, retries and auto compaction end in one of the outcomes.
LEMMA GovernanceOutcomes ==
  ASSUME WellFormed(frames), NEW retries \in RetryBudgets,
         \/ StepBudgetEndsTurn(retries) \/ RetryModel(retries) \/ RetryExhausted(retries)
         \/ AutoCompact(retries)
  PROVE  Publishes \/ Replaces
<1>1. AtProvider => ~IsFailed(BaseStep)
  BY DEF AtProvider, IsRequestProvider, IsFailed
<1>2. CASE StepBudgetEndsTurn(retries)
  <2>1. Follows(TurnEnd, <<>>)
    BY <1>2 DEF StepBudgetEndsTurn, OverBudget, Follows
  <2> QED
    BY <1>1, <1>2, <2>1, PlainSteps, NoMessages, CreatePublishes
       DEF StepBudgetEndsTurn, OverBudget
<1>3. CASE AutoCompact(retries)
  <2>1. Follows(RequestCompact(FirstRate), <<>>)
    BY <1>3 DEF AutoCompact, OverThreshold, Follows
  <2> QED
    BY <1>1, <1>3, <2>1, RateSteps, FirstRateValid, NoMessages, CreatePublishes
       DEF AutoCompact, OverThreshold
<1>4. ASSUME NEW effect \in Effect
      PROVE  [EmptyDelta EXCEPT !.effects[RetryKey] = effect] \in Delta
  BY EmptyDeltaType, RetryAssumption DEF Delta
<1>5. CASE RetryModel(retries)
  <2> DEFINE delta == StoreIn(EmptyDelta, RetryKey, NextAttempt)
  <2>1. delta \in Delta
    BY <1>4, <1>5, NextAttemptType, EffectTypes DEF RetryModel, RetryApplies, StoreIn
  <2>2. TakesOver(RequestProvider, delta, retries)
    BY <1>5 DEF RetryModel, TakesOver
  <2> QED
    BY <1>5, <2>1, <2>2, PlainSteps, ReplaceReplaces DEF RetryModel
<1>6. CASE RetryExhausted(retries)
  <2> DEFINE delta == RemoveIn(EmptyDelta, RetryKey)
  <2>1. delta \in Delta
    BY <1>4, EffectTypes DEF RemoveIn
  <2>2. TakesOver(RequestProvider, delta, retries)
    BY <1>6 DEF RetryExhausted, TakesOver
  <2> QED
    BY <1>6, <2>1, <2>2, PlainSteps, ReplaceReplaces DEF RetryExhausted
<1> QED
  BY <1>2, <1>3, <1>5, <1>6

\* The results of a turn and one more, which is that of the next call.
LEMMA NextResult ==
  ASSUME NEW calls \in Seq(CallIds), NEW results \in Seq(CallIds), Len(results) < Len(calls)
  PROVE  LET done == Len(results)
             next == Append(results, calls[done + 1])
         IN /\ done \in Nat /\ calls[done + 1] \in CallIds
            /\ next \in Seq(CallIds) /\ Len(next) = done + 1
            /\ \A i \in 1 .. done : next[i] = results[i]
            /\ next[done + 1] = calls[done + 1]
            /\ SubSeq(calls, 1, done + 1) \in Seq(CallIds)
<1> DEFINE done == Len(results)
<1>1. done \in Nat /\ done + 1 \in 0 .. Len(calls) /\ done + 1 \in 1 .. Len(calls)
  OBVIOUS
<1>2. calls[done + 1] \in CallIds
  BY <1>1
<1>3. SubSeq(calls, 1, done + 1) \in Seq(CallIds)
  BY <1>1, PrefixOf
<1> QED
  BY <1>1, <1>2, <1>3, AppendProperties

\* With the results obtained in order, one more makes them the calls so far.
LEMMA RanSoFar ==
  ASSUME NEW calls \in Seq(CallIds), NEW results \in Seq(CallIds), Len(results) < Len(calls),
         \A i \in 1 .. Len(results) : results[i] = calls[i]
  PROVE  Append(results, calls[Len(results) + 1]) = SubSeq(calls, 1, Len(results) + 1)
<1> DEFINE done == Len(results)
           next == Append(results, calls[done + 1])
           ran == SubSeq(calls, 1, done + 1)
<1>1. /\ done \in Nat /\ next \in Seq(CallIds) /\ Len(next) = done + 1
      /\ \A i \in 1 .. done : next[i] = results[i]
      /\ next[done + 1] = calls[done + 1]
  BY NextResult
<1>2. done + 1 \in 0 .. Len(calls)
  OBVIOUS
<1>3. ran \in Seq(CallIds) /\ Len(ran) = done + 1 /\ \A i \in 1 .. done + 1 : ran[i] = calls[i]
  BY <1>2, PrefixOf
<1> HIDE DEF next, ran
<1>4. \A i \in 1 .. Len(next) : next[i] = ran[i]
  BY <1>1, <1>3
<1>5. next = ran
  BY <1>1, <1>3, <1>4, SeqEqual
<1> QED
  BY <1>5 DEF next, ran

\* Recovery ends in one of the outcomes.
LEMMA RecoveryOutcomes ==
  ASSUME WellFormed(frames), NEW retries \in RetryBudgets,
         \/ RecoverContextOverflow(retries) \/ RecoverToolFailure(retries)
         \/ RollbackFailure(retries) \/ KeepFailure(retries)
  PROVE  Replaces \/ RollsBack \/ StaysFailed
<1>1. /\ Len(frames) \in Nat
      /\ BaseStep \in Step /\ FrameFits(frames, Len(frames)) /\ BaseStep = frames[Len(frames)].step
  BY WellFormedFrames DEF BaseStep, Outer
<1>2. CASE RecoverContextOverflow(retries)
  <2>1. HasParent(frames) /\ RecoveryRate <= HalfRate
    BY <1>2 DEF RecoverContextOverflow
  <2>3. RecoveryRate \in Nat /\ RecoveryRate > 0
    BY <2>1, RecoveryRateType
  <2>4. ValidRate(RecoveryRate)
    BY <2>1, <2>3 DEF ValidRate
  <2>5. TakesOver(RequestCompact(RecoveryRate), EmptyDelta, retries)
    BY <1>2 DEF RecoverContextOverflow, TakesOver
  <2> QED
    BY <1>2, <2>3, <2>4, <2>5, RateSteps, EmptyDeltaType, ReplaceReplaces
       DEF RecoverContextOverflow
<1>3. CASE RecoverToolFailure(retries)
  <2> DEFINE turn == BaseStep.error
             done == Len(turn.results)
             kept == SubSeq(turn.calls, 1, done + 1)
             ran == Append(turn.results, turn.calls[done + 1])
             delta == Messages(TurnMessages(turn.pending, kept, ran))
  <2>1. IsFailed(BaseStep) /\ turn.kind \in ToolErrors /\ IsToolFailure(BaseStep)
    BY <1>3 DEF RecoverToolFailure, AtFailure, IsToolFailure
  <2>2. turn.pending \in Seq(Message) /\ turn.calls \in Seq(CallIds) /\ turn.results \in Seq(CallIds)
    BY <1>1, <2>1, StepFields, ErrorFields
  <2>3. done < Len(turn.calls)
    BY <1>1, <2>1 DEF FrameFits, ValidStep, ValidTurn
  <2>4. kept \in Seq(CallIds) /\ ran \in Seq(CallIds)
    BY <2>2, <2>3, NextResult
  <2>5. delta \in Delta
    BY <2>2, <2>4, TurnTypes, EmptyDeltaType
  <2>6. ReplaceBaseStep(RequestProvider, delta, retries)
    BY <1>3 DEF RecoverToolFailure
  <2>7. TakesOver(RequestProvider, delta, retries)
    BY <1>3, <2>3 DEF RecoverToolFailure, TakesOver
  <2> HIDE DEF delta
  <2> QED
    BY <2>5, <2>6, <2>7, PlainSteps, ReplaceReplaces
<1>4. CASE RollbackFailure(retries)
  BY <1>4 DEF RollbackFailure, RollbackStep, RollsBack
<1>5. CASE KeepFailure(retries)
  BY <1>5 DEF KeepFailure, KeepBaseStep, StaysFailed
<1> QED
  BY <1>2, <1>3, <1>4, <1>5

\* A model request ends in one of the outcomes.
LEMMA ProviderOutcomes ==
  ASSUME WellFormed(frames), NEW retries,
         \/ retries \in RetryBudgets /\ (ProviderCallsTools(retries) \/ ProviderReplies(retries))
         \/ ProviderFails
  PROVE  Publishes \/ Fails
<1>1. CallsProvider => /\ AtProvider /\ ~IsFailed(BaseStep) /\ ~RunsTool
                       /\ BaseStep.kind = "request_provider"
  BY DEF CallsProvider, AtProvider, IsRequestProvider, IsFailed, RunsTool
<1>2. CASE retries \in RetryBudgets /\ ProviderCallsTools(retries)
  <2>1. PICK calls \in Batches, tail \in RequestTails :
           CreateNextStep(RequestExecutor(tail, calls, <<>>), EmptyDelta, retries)
    BY <1>2 DEF ProviderCallsTools
  <2> DEFINE step == RequestExecutor(tail, calls, <<>>)
  <2>2. calls \in Seq(CallIds) /\ calls # <<>> /\ tail \in Seq(Message) /\ <<>> \in Seq(CallIds)
    BY InputAssumption, EmptySeq
  <2>3. step \in Step
    BY <2>2, TurnTypes
  <2>4. ValidReactStep(step) /\ ~IsFailed(step)
    BY <2>2 DEF RequestExecutor, ValidReactStep, ValidTurn, ResultsMatchCalls, IsFailed
  <2>5. Follows(step, <<>>)
    BY <1>1, <1>2 DEF ProviderCallsTools, Follows
  <2>6. CreateNextStep(step, Messages(<<>>), retries)
    BY <2>1, NoMessages
  <2> HIDE DEF step
  <2> QED
    BY <1>1, <1>2, <2>3, <2>4, <2>5, <2>6, NoMessages, CreatePublishes DEF ProviderCallsTools
<1>3. CASE retries \in RetryBudgets /\ ProviderReplies(retries)
  <2>1. PICK tail \in RequestTails, reply \in {<<>>, <<AssistantMessage(<<>>)>>},
            next \in {RequestProvider, TurnEnd} :
           CreateNextStep(next, Messages(tail \o reply), retries)
    BY <1>3 DEF ProviderReplies
  <2>2. reply \in Seq(Message)
    <3>1. AssistantMessage(<<>>) \in Message
      BY EmptySeq, MessageTypes
    <3>2. <<>> \in Seq(Message) /\ <<AssistantMessage(<<>>)>> \in Seq(Message)
      BY <3>1
    <3> QED
      BY <3>2
  <2>3. tail \o reply \in Seq(Message)
    BY <2>2, InputAssumption, ConcatProperties
  <2>4. Follows(next, tail \o reply)
    BY <1>1, <1>3 DEF ProviderReplies, Follows
  <2> QED
    BY <1>1, <1>3, <2>1, <2>3, <2>4, PlainSteps, CreatePublishes DEF ProviderReplies
<1>4. CASE ProviderFails
  BY <1>1, <1>4, InputAssumption, FailureFails DEF ProviderFails
<1> QED
  BY <1>2, <1>3, <1>4

\* A tool call ends in one of the outcomes.
LEMMA ExecutorOutcomes ==
  ASSUME WellFormed(frames), NEW retries,
         (retries \in RetryBudgets /\ ToolSucceeds(retries)) \/ ToolFails
  PROVE  Publishes \/ Replaces \/ Fails
<1> DEFINE turn == BaseStep
           done == Len(turn.results)
           ran == Append(turn.results, turn.calls[done + 1])
<1>1. BaseStep.kind = "request_executor" /\ ~IsFailed(BaseStep) /\ RunsTool
  BY DEF ToolSucceeds, ToolFails, RunsTool, IsFailed
<1>2. /\ turn = RequestExecutor(turn.pending, turn.calls, turn.results)
      /\ turn.pending \in Seq(Message)
      /\ turn.calls \in Seq(CallIds) /\ turn.results \in Seq(CallIds)
  BY <1>1, WellFormedFrames, StepFields DEF BaseStep
<1>3. ValidTurn(turn)
  BY <1>1, WellFormedFrames DEF FrameFits, ValidStep, ValidReactStep, BaseStep, Outer
<1>4. done < Len(turn.calls) /\ done \in Nat /\ Len(turn.calls) \in Nat
  BY <1>2, <1>3 DEF ValidTurn
<1>5. /\ ran \in Seq(CallIds) /\ Len(ran) = done + 1
      /\ \A i \in 1 .. done : ran[i] = turn.results[i]
      /\ ran[done + 1] = turn.calls[done + 1]
  BY <1>2, <1>4, NextResult
<1>6. ASSUME retries \in RetryBudgets, ToolSucceeds(retries), TurnCompletes(turn.calls, ran) PROVE Publishes
  <2> DEFINE ms == TurnMessages(turn.pending, turn.calls, ran)
  <2>1. ms \in Seq(Message)
    BY <1>2, <1>5, TurnTypes
  <2>2. CreateNextStep(RequestProvider, Messages(ms), retries)
    BY <1>4, <1>6 DEF ToolSucceeds
  <2>3. done + 1 = Len(turn.calls)
    BY <1>4, <1>5, <1>6 DEF TurnCompletes
  <2>4. Follows(RequestProvider, ms)
    BY <1>1, <2>3 DEF Follows
  <2> HIDE DEF ms
  <2> QED
    BY <1>1, <1>6, <2>1, <2>2, <2>4, PlainSteps, CreatePublishes
<1>7. ASSUME retries \in RetryBudgets, ToolSucceeds(retries), ~TurnCompletes(turn.calls, ran) PROVE Replaces
  <2> DEFINE step == RequestExecutor(turn.pending, turn.calls, ran)
  <2>1. step \in Step
    BY <1>2, <1>5, TurnTypes
  <2>2. Len(ran) < Len(turn.calls)
    BY <1>4, <1>5, <1>7 DEF TurnCompletes
  <2>3. \A i \in 1 .. done + 1 : ran[i] = turn.calls[i]
    <3>1. \A i \in 1 .. done : turn.results[i] = turn.calls[i]
      BY <1>2, <1>3, <1>4 DEF ValidTurn, ResultsMatchCalls
    <3> QED
      BY <1>4, <1>5, <3>1
  <2>4. ValidTurn(step)
    <3> HIDE DEF ran
    <3>1. DOMAIN ran = 1 .. done + 1
      BY <1>5
    <3> QED
      BY <2>2, <2>3, <3>1 DEF ValidTurn, ResultsMatchCalls, RequestExecutor
  <2>5. ValidReactStep(step) /\ ~IsFailed(step) /\ step.kind = "request_executor"
    BY <2>4 DEF ValidReactStep, IsFailed, RequestExecutor
  <2>6. ReplaceBaseStep(step, EmptyDelta, retries)
    BY <1>4, <1>7 DEF ToolSucceeds
  <2>7. TakesOver(step, EmptyDelta, retries)
    BY <1>1, <1>4, <1>5, <2>2 DEF TakesOver
  <2> HIDE DEF step
  <2> QED
    BY <1>7, <2>1, <2>5, <2>6, <2>7, EmptyDeltaType, ReplaceReplaces
<1>8. ASSUME ToolFails PROVE Fails
  <2>1. PICK class \in ToolErrors :
           RuntimeFailed(ToolFailure(class, turn.pending, turn.calls, turn.results))
    BY <1>8 DEF ToolFails
  <2> DEFINE error == ToolFailure(class, turn.pending, turn.calls, turn.results)
  <2>2. error \in ErrorSet
    BY <1>2, TurnTypes
  <2>3. /\ error.kind = class /\ error.pending = turn.pending /\ error.calls = turn.calls
        /\ error.results = turn.results /\ error.kind # "context_exceeded_limit"
    BY DEF ToolFailure, ToolErrors
  <2>4. frames' = Branch(frames, Failed(error), EmptyDelta)
    BY <2>1 DEF RuntimeFailed
  <2> HIDE DEF error
  <2>5. ValidTurn(error)
    BY <1>3, <2>3 DEF ValidTurn, ResultsMatchCalls
  <2>6. ValidStep(Failed(error))
    BY <2>5 DEF ValidStep, Failed, IsFailed
  <2> QED
    BY <1>1, <1>2, <2>2, <2>3, <2>4, <2>6 DEF Fails
<1> QED
  BY <1>6, <1>7, <1>8

\* Compaction, and resuming after it or after a turn, end in one of the outcomes.
LEMMA CompactionOutcomes ==
  ASSUME WellFormed(frames), NEW retries,
         \/ /\ retries \in RetryBudgets
            /\ CompactSucceeds(retries) \/ ResumeCompacted(retries) \/ ResumeTurnEnd(retries)
         \/ CompactFails
  PROVE  Publishes \/ Fails
<1>1. ~IsFailed(BaseStep)
  BY DEF CompactSucceeds, CompactFails, ResumeCompacted, ResumeTurnEnd, IsFailed
<1>2. CASE retries \in RetryBudgets /\ CompactSucceeds(retries)
  <2> DEFINE ms == Compact(History(frames), BaseStep.rate)
  <2>1. History(frames) \in Seq(Message)
    BY WellFormedFrames, HistoryType
  <2>2. ms \in Seq(Message)
    BY <2>1, CompactType
  <2>3. CreateNextStep(Compacted, Messages(ms), retries) /\ Follows(Compacted, ms)
    BY <1>2 DEF CompactSucceeds, Follows
  <2> HIDE DEF ms
  <2> QED
    BY <1>1, <1>2, <2>2, <2>3, PlainSteps, CreatePublishes
<1>3. CASE CompactFails
  <2>1. /\ {"context_exceeded_limit", "request_compact"} \subseteq PlainErrors
        /\ BaseStep.kind = "request_compact"
    BY <1>3 DEF PlainErrors, OtherErrors, CompactFails
  <2> QED
    BY <1>1, <1>3, <2>1, FailureFails DEF CompactFails
<1>4. CASE retries \in RetryBudgets /\ (ResumeCompacted(retries) \/ ResumeTurnEnd(retries))
  <2>1. /\ Follows(RequestProvider, <<>>)
        /\ CreateNextStep(RequestProvider, Messages(<<>>), retries)
    BY <1>4, NoMessages DEF ResumeCompacted, ResumeTurnEnd, Follows
  <2> QED
    BY <1>1, <1>4, <2>1, PlainSteps, NoMessages, CreatePublishes
<1> QED
  BY <1>2, <1>3, <1>4

\* Every evaluated step ends in one of the five outcomes.
LEMMA AgentOutcomes ==
  ASSUME WellFormed(frames), AgentStep
  PROVE  Publishes \/ Fails \/ Replaces \/ RollsBack \/ StaysFailed
  BY GovernanceOutcomes, RecoveryOutcomes, ProviderOutcomes, ExecutorOutcomes,
     CompactionOutcomes DEF AgentStep

-------------------------------------------------------------------------------
(* What the evaluator keeps *)

\* A new session is well formed.
LEMMA InitWellFormed == Init => WellFormed(frames) /\ FailureIsEmptyAndOutermost
<1> SUFFICES ASSUME Init PROVE WellFormed(frames) /\ FailureIsEmptyAndOutermost
  OBVIOUS
<1> DEFINE root == [step |-> RequestProvider, delta |-> Messages(<<SystemMessage>>)]
<1>1. <<SystemMessage>> \in Seq(Message)
  BY MessageTypes
<1>2. root \in Frame /\ root.step = RequestProvider
  BY <1>1, PlainSteps, EmptyDeltaType DEF Frame
<1>3. frames = <<root>>
  BY DEF Init, Branch
<1> HIDE DEF root
<1>4. frames \in Seq(Frame) /\ frames # <<>> /\ Len(frames) = 1 /\ frames[1].step = RequestProvider
  BY <1>2, <1>3
<1>5. ValidStep(RequestProvider) /\ ~IsFailed(RequestProvider) /\ RequestProvider.kind # "compacted"
  BY DEF RequestProvider, ValidStep, ValidReactStep, IsFailed
<1>6. FrameFits(frames, 1)
  BY <1>4, <1>5 DEF FrameFits, IsToolFailure
<1> QED
  BY <1>4, <1>5, <1>6 DEF WellFormed, FailureIsEmptyAndOutermost

\* Every outcome keeps the chain well formed.
LEMMA OutcomesKeep ==
  ASSUME WellFormed(frames), Publishes \/ Fails \/ Replaces \/ RollsBack \/ StaysFailed
  PROVE  WellFormed(frames')
<1>1. CASE Publishes
  <2>1. PICK step \in Step, delta \in Delta :
           /\ ValidReactStep(step) /\ ~IsFailed(step)
           /\ frames' = Branch(frames, step, delta)
    BY <1>1, PublishedFrame
  <2> QED
    BY <2>1, BranchKeeps DEF ValidStep, IsToolFailure
<1>2. CASE Fails
  <2>1. PICK error \in ErrorSet :
           /\ ValidStep(Failed(error)) /\ ~IsFailed(BaseStep)
           /\ error.kind \in ToolErrors =>
                 BaseStep = RequestExecutor(error.pending, error.calls, error.results)
           /\ frames' = Branch(frames, Failed(error), EmptyDelta)
    BY <1>2 DEF Fails
  <2>2. Failed(error) \in Step /\ Failed(error).error = error
    BY StepTypes DEF Failed
  <2> QED
    BY <2>1, <2>2, EmptyDeltaType, BranchKeeps DEF BaseStep, IsToolFailure
<1>3. CASE Replaces
  <2>1. PICK step \in Step, delta \in Delta :
           /\ ValidReactStep(step) /\ ~IsFailed(step) /\ step.kind # "compacted"
           /\ frames' = ReplaceOuter(frames, step, delta)
    BY <1>3, ReplacingFrame
  <2> QED
    BY <2>1, ReplaceKeeps DEF ValidStep
<1>4. CASE RollsBack
  BY <1>4, DropKeeps DEF RollsBack
<1>5. CASE StaysFailed
  BY <1>5 DEF StaysFailed
<1> QED
  BY <1>1, <1>2, <1>3, <1>4, <1>5

\* A step never leaves a failure below the outermost frame, if there was none.
LEMMA OutcomesBuryNoFailure ==
  ASSUME WellFormed(frames), FailureIsEmptyAndOutermost,
         Publishes \/ Fails \/ Replaces \/ RollsBack \/ StaysFailed
  PROVE  FailureIsEmptyAndOutermost'
<1> DEFINE n == Len(frames)
<1>1. n \in Nat /\ n > 0 /\ DOMAIN frames = 1 .. n /\ BaseStep = frames[n].step
  BY WellFormedFrames, SMTT(30) DEF WellFormed, BaseStep, Outer
<1>2. \A i \in 1 .. n : IsFailed(frames[i].step) => i > 1 /\ i = n /\ frames[i].delta = EmptyDelta
  BY <1>1 DEF FailureIsEmptyAndOutermost
<1>3. ASSUME NEW step, NEW delta, frames' = Branch(frames, step, delta), ~IsFailed(BaseStep),
             IsFailed(step) => delta = EmptyDelta
      PROVE  FailureIsEmptyAndOutermost'
  <2>1. /\ Len(frames') = n + 1 /\ DOMAIN frames' = 1 .. n + 1
        /\ \A i \in 1 .. n : frames'[i] = frames[i]
        /\ frames'[n + 1].step = step /\ frames'[n + 1].delta = delta
    BY <1>1, <1>3, SMTT(30) DEF Branch, WellFormed
  <2>2. \A i \in 1 .. n : ~IsFailed(frames'[i].step)
    BY <1>1, <1>2, <1>3, <2>1
  <2>3. IsFailed(frames'[n + 1].step) =>
           n + 1 > 1 /\ n + 1 = Len(frames') /\ frames'[n + 1].delta = EmptyDelta
    BY <1>1, <1>3, <2>1
  <2>4. \A i \in DOMAIN frames' : i = n + 1 \/ i \in 1 .. n
    BY <1>1, <2>1
  <2> HIDE DEF n
  <2> QED
    BY <2>2, <2>3, <2>4 DEF FailureIsEmptyAndOutermost
<1>4. ASSUME NEW step \in Step, NEW delta \in Delta, frames' = ReplaceOuter(frames, step, delta),
             ~IsFailed(step)
      PROVE  FailureIsEmptyAndOutermost'
  <2> DEFINE new == [step |-> step, delta |-> delta]
  <2>1. new \in Frame /\ new.step = step /\ frames \in Seq(Frame) /\ n \in 1 .. n
    BY <1>1 DEF Frame, WellFormed
  <2>2. frames' = [frames EXCEPT ![n] = new]
    BY <1>4 DEF ReplaceOuter
  <2> HIDE DEF new
  <2>3. /\ DOMAIN frames' = 1 .. n
        /\ \A i \in 1 .. n : frames'[i] = IF i = n THEN new ELSE frames[i]
    BY <1>1, <2>1, <2>2, ExceptSeq, SMTT(30)
  <2>4. \A i \in DOMAIN frames' : ~IsFailed(frames'[i].step)
    BY <1>1, <1>2, <1>4, <2>1, <2>3
  <2> QED
    BY <2>4 DEF FailureIsEmptyAndOutermost
<1>5. CASE Publishes
  BY <1>3, <1>5, PublishedFrame
<1>6. CASE Fails
  BY <1>3, <1>6 DEF Fails
<1>7. CASE Replaces
  BY <1>4, <1>7, ReplacingFrame
<1>8. CASE RollsBack
  <2>1. n - 1 \in 0 .. n /\ frames' = SubSeq(frames, 1, n - 1)
    BY <1>1, <1>8 DEF RollsBack, HasParent, DropOuter, Front
  <2>2. DOMAIN frames' = 1 .. n - 1 /\ \A i \in 1 .. n - 1 : frames'[i] = frames[i]
    BY <1>1, <2>1, PrefixOf DEF WellFormed
  <2>3. ASSUME NEW i \in DOMAIN frames' PROVE ~IsFailed(frames'[i].step)
    <3>1. i \in 1 .. n /\ i # n
      BY <1>1, <2>2
    <3>2. frames'[i] = frames[i]
      BY <2>2
    <3> QED
      BY <1>2, <3>1, <3>2
  <2> QED
    BY <2>3 DEF FailureIsEmptyAndOutermost
<1>9. CASE StaysFailed
  BY <1>9 DEF StaysFailed, FailureIsEmptyAndOutermost
<1> QED
  BY <1>5, <1>6, <1>7, <1>8, <1>9

\* What the properties of PhiAgent ask is part of being well formed.
LEMMA WellFormedProperties ==
  ASSUME WellFormed(frames)
  PROVE  TypeOK /\ CheckpointsAreValid /\ FailedTurnIsRestorable
<1>1. TypeOK
  BY DEF TypeOK, WellFormed
<1>2. DOMAIN frames = 1 .. Len(frames)
  BY DEF WellFormed
<1>3. CheckpointsAreValid
  BY <1>2 DEF CheckpointsAreValid, ValidFrames, WellFormed, FrameFits
<1>4. FailedTurnIsRestorable
  BY <1>2 DEF FailedTurnIsRestorable, WellFormed, FrameFits, IsToolFailure
<1> QED
  BY <1>1, <1>3, <1>4

\* The chain the evaluator works on keeps its type, a checkpoint never finds a
\* frame it refuses, and a tool failure keeps the whole turn below it.
THEOREM AgentChainsAreWellFormed ==
  Spec => [](TypeOK /\ CheckpointsAreValid /\ FailedTurnIsRestorable)
<1>1. Init => WellFormed(frames)
  BY InitWellFormed
<1>2. WellFormed(frames) /\ [AgentStep]_frames => WellFormed(frames)'
  BY AgentOutcomes, OutcomesKeep
<1> QED
  BY <1>1, <1>2, WellFormedProperties, PTL DEF Spec

\* No failure is built upon: recovery replaces or removes it.
THEOREM FailuresStayOnTop == Spec => []FailureIsEmptyAndOutermost
<1> DEFINE IInv == WellFormed(frames) /\ FailureIsEmptyAndOutermost
<1>1. Init => IInv
  BY InitWellFormed
<1>2. IInv /\ [AgentStep]_frames => IInv'
  <2>1. CASE AgentStep
    BY <2>1, AgentOutcomes, OutcomesKeep, OutcomesBuryNoFailure
  <2>2. CASE UNCHANGED frames
    BY <2>2 DEF FailureIsEmptyAndOutermost
  <2> QED
    BY <2>1, <2>2
<1> QED
  BY <1>1, <1>2, PTL DEF Spec

-------------------------------------------------------------------------------
(* The rates of recovery *)

\* The rates compaction is retried at, and the first that is too high.
Rung == <<26843546, 40265320, 53687092, 67108864, 80530640, 93952416, 107374192, 120795968,
          134217744>>

\* Each rate is the next one after the one before it, rounded as f32 values are.
LEMMA RungsFollow ==
  /\ Rung[1] = FirstRate /\ Rung[9] \in Nat /\ HalfRate \in Nat /\ Rung[9] > HalfRate
  /\ \A k \in 1 .. 8 : Rung[k] \in Nat /\ NextRate(Rung[k]) = Rung[k + 1]
<1>1. /\ Rung[1] = 26843546 /\ Rung[2] = 40265320 /\ Rung[3] = 53687092 /\ Rung[4] = 67108864
      /\ Rung[5] = 80530640 /\ Rung[6] = 93952416 /\ Rung[7] = 107374192 /\ Rung[8] = 120795968
      /\ Rung[9] = 134217744
  BY DEF Rung
<1>2. NextRate(26843546) = 40265320
  BY SMT DEF NextRate, RoundRate, Spacing, RateStep, HalfRate
<1>3. NextRate(40265320) = 53687092
  BY SMT DEF NextRate, RoundRate, Spacing, RateStep, HalfRate
<1>4. NextRate(53687092) = 67108864
  BY SMT DEF NextRate, RoundRate, Spacing, RateStep, HalfRate
<1>5. NextRate(67108864) = 80530640
  BY SMT DEF NextRate, RoundRate, Spacing, RateStep, HalfRate
<1>6. NextRate(80530640) = 93952416
  BY SMT DEF NextRate, RoundRate, Spacing, RateStep, HalfRate
<1>7. NextRate(93952416) = 107374192
  BY SMT DEF NextRate, RoundRate, Spacing, RateStep, HalfRate
<1>8. NextRate(107374192) = 120795968
  BY SMT DEF NextRate, RoundRate, Spacing, RateStep, HalfRate
<1>9. NextRate(120795968) = 134217744
  BY SMT DEF NextRate, RoundRate, Spacing, RateStep, HalfRate
<1>10. \A k \in 1 .. 8 : k \in {1, 2, 3, 4, 5, 6, 7, 8}
  OBVIOUS
<1>11. 1 + 1 = 2 /\ 2 + 1 = 3 /\ 3 + 1 = 4 /\ 4 + 1 = 5 /\ 5 + 1 = 6 /\ 6 + 1 = 7 /\ 7 + 1 = 8
       /\ 8 + 1 = 9
  OBVIOUS
<1> HIDE DEF Rung
<1>12. \A k \in 1 .. 8 : Rung[k] \in Nat
  BY <1>1, <1>10
<1>13. ASSUME NEW k \in 1 .. 8 PROVE NextRate(Rung[k]) = Rung[k + 1]
  <2>1. CASE k = 1 \/ k = 2
    BY <1>1, <1>2, <1>3, <1>11, <2>1
  <2>2. CASE k = 3 \/ k = 4
    BY <1>1, <1>4, <1>5, <1>11, <2>2
  <2>3. CASE k = 5 \/ k = 6
    BY <1>1, <1>6, <1>7, <1>11, <2>3
  <2>4. CASE k = 7 \/ k = 8
    BY <1>1, <1>8, <1>9, <1>11, <2>4
  <2> QED
    BY <1>10, <2>1, <2>2, <2>3, <2>4
<1> QED
  BY <1>1, <1>12, <1>13, SMT DEF FirstRate, HalfRate

-------------------------------------------------------------------------------
(* How a chain has grown.  What the three properties ask of pairs of frames  *)
(* is kept as what each chain says about its own outermost frame.            *)

\* Above a tool turn there is its failure, or a request that commits what ran.
TurnIsKept(chain) ==
    HasParent(chain) /\ Parent(chain).step.kind = "request_executor" =>
        \/ IsToolFailure(Outer(chain).step)
        \/ /\ IsRequestProvider(Outer(chain).step)
           /\ LET turn == Parent(chain).step
                  ran == SubSeq(turn.calls, 1, Len(turn.results) + 1)
              IN Outer(chain).delta.history = TurnMessages(turn.pending, ran, ran)

\* A compact request has one of the eight rates, the one after that of the
\* compact request below it.
RateIsDue(chain) ==
    Outer(chain).step.kind = "request_compact" =>
        /\ HasParent(chain)
        /\ \E k \in 1 .. 8 : Outer(chain).step.rate = Rung[k]
        /\ Parent(chain).step.kind = "request_compact" =>
              Outer(chain).step.rate = NextRate(Parent(chain).step.rate)

\* Only requests carry the retry counter; it is at most one above the counter
\* of the request below, and within some budget.
RetryIsCounted(chain) ==
    LET effect == Outer(chain).delta.effects[RetryKey]
        below == Lookup(FindAncestor(chain, "request_provider"), RetryKey)
    IN /\ ~IsRequestProvider(Outer(chain).step) => effect = Missing
       /\ effect.tag = "stored" =>
              /\ \E budget \in RetryBudgets : effect.value <= budget
              /\ below \in {Stored(effect.value), Stored(effect.value - 1)}
                              \cup (IF effect.value = 1 THEN {Missing} ELSE {})

Grown(chain) == TurnIsKept(chain) /\ RateIsDue(chain) /\ RetryIsCounted(chain)

AllGrown(fs) == \A i \in 1 .. Len(fs) : Grown(SubSeq(fs, 1, i))

\* The last two frames of a chain that ends at a position.
LEMMA LastFrames ==
  ASSUME NEW fs, WellFormed(fs), NEW i \in 1 .. Len(fs)
  PROVE  LET chain == SubSeq(fs, 1, i) IN
         /\ chain \in Chain(Step) /\ chain # <<>> /\ Len(chain) = i
         /\ Outer(chain) = fs[i]
         /\ HasParent(chain) <=> i > 1
         /\ i > 1 => Parent(chain) = fs[i - 1]
<1> DEFINE chain == SubSeq(fs, 1, i)
<1>1. fs \in Seq(Frame) /\ Len(fs) \in Nat /\ i \in 0 .. Len(fs)
  BY WellFormedFrames DEF WellFormed
<1>2. chain \in Seq(Frame) /\ Len(chain) = i /\ \A j \in 1 .. i : chain[j] = fs[j]
  BY <1>1, PrefixOf
<1>3. chain # <<>>
  BY <1>2
<1> HIDE DEF chain
<1>4. chain \in Chain(Step)
  BY <1>2 DEF Chain, Frame
<1>5. Outer(chain) = fs[i] /\ (i > 1 => Parent(chain) = fs[i - 1])
  BY <1>2 DEF Outer, Parent
<1> QED
  BY <1>2, <1>3, <1>4, <1>5 DEF chain, HasParent

\* What a grown chain says of two neighbouring frames.
LEMMA GrownFrames ==
  ASSUME NEW fs, WellFormed(fs), AllGrown(fs), NEW i \in 1 .. Len(fs)
  PROVE  /\ i > 1 /\ fs[i - 1].step.kind = "request_executor" =>
               \/ IsToolFailure(fs[i].step)
               \/ /\ IsRequestProvider(fs[i].step)
                  /\ LET turn == fs[i - 1].step
                         ran == SubSeq(turn.calls, 1, Len(turn.results) + 1)
                     IN fs[i].delta.history = TurnMessages(turn.pending, ran, ran)
         /\ fs[i].step.kind = "request_compact" =>
               /\ i > 1
               /\ \E k \in 1 .. 8 : fs[i].step.rate = Rung[k]
               /\ fs[i - 1].step.kind = "request_compact" =>
                     fs[i].step.rate = NextRate(fs[i - 1].step.rate)
         /\ ~IsRequestProvider(fs[i].step) => ~Affects(fs[i].delta, RetryKey)
         /\ fs[i].delta.effects[RetryKey].tag = "stored" =>
               \E budget \in RetryBudgets : fs[i].delta.effects[RetryKey].value <= budget
<1> DEFINE chain == SubSeq(fs, 1, i)
<1>1. Outer(chain) = fs[i] /\ (HasParent(chain) <=> i > 1) /\ (i > 1 => Parent(chain) = fs[i - 1])
  BY LastFrames
<1>2. TurnIsKept(chain) /\ RateIsDue(chain) /\ RetryIsCounted(chain)
  BY DEF AllGrown, Grown
<1> HIDE DEF chain
<1> QED
  BY <1>1, <1>2 DEF TurnIsKept, RateIsDue, RetryIsCounted, Affects

\* The value of the retry counter is that of the nearest request, and within
\* some budget.
LEMMA RetryAtRequest ==
  ASSUME NEW fs, WellFormed(fs), AllGrown(fs)
  PROVE  LET retry == Lookup(fs, RetryKey) IN
         /\ retry = Lookup(Nearest(fs, "request_provider"), RetryKey)
         /\ retry \in Effect \ {Removed}
         /\ retry.tag = "stored" => \E budget \in RetryBudgets : retry.value <= budget
<1> DEFINE retry == Lookup(fs, RetryKey)
<1>1. fs \in Chain(Step)
  BY WellFormedFrames
<1>2. \A i \in 1 .. Len(fs) :
         fs[i].step.kind # "request_provider" => ~Affects(fs[i].delta, RetryKey)
  BY GrownFrames DEF IsRequestProvider
<1>3. retry = Lookup(Nearest(fs, "request_provider"), RetryKey)
  BY <1>1, <1>2, LookupAtNearest
<1>4. retry \in Effect \ {Removed}
  BY <1>1, RetryAssumption, LookupType
<1>5. retry.tag = "stored" => \E budget \in RetryBudgets : retry.value <= budget
  <2> HIDE DEF retry
  <2> SUFFICES ASSUME retry.tag = "stored"
               PROVE  \E budget \in RetryBudgets : retry.value <= budget
    OBVIOUS
  <2>1. retry # Missing
    BY DEF Missing
  <2>2. PICK i \in 1 .. Len(fs) : fs[i].delta.effects[RetryKey] = retry
    BY <1>1, <2>1, LookupFound DEF retry
  <2>3. fs[i].delta.effects[RetryKey].tag = "stored" =>
           \E budget \in RetryBudgets : fs[i].delta.effects[RetryKey].value <= budget
    BY GrownFrames
  <2> QED
    BY <2>2, <2>3
<1> QED
  BY <1>3, <1>4, <1>5

\* The retry counter of a new frame, when it carries the counter over.
LEMMA CarriedRetry ==
  ASSUME WellFormed(frames), NEW step, NEW delta \in Delta, NEW retries
  PROVE  LET carried == CarryRetry(step, delta, retries) IN
         /\ carried \in Delta /\ carried.history = delta.history
         /\ \/ carried = delta
            \/ /\ IsRequestProvider(step) /\ ~Affects(delta, RetryKey)
               /\ carried.effects[RetryKey] = RetryState
<1> DEFINE carried == CarryRetry(step, delta, retries)
<1>1. carried \in Delta
  BY CarryRetryType
<1>2. CASE carried = delta
  BY <1>1, <1>2
<1>3. CASE carried # delta
  <2>1. /\ carried = [delta EXCEPT !.effects[RetryKey] = RetryState]
        /\ IsRequestProvider(step) /\ ~Affects(delta, RetryKey)
    BY <1>3 DEF CarryRetry
  <2>2. delta.effects \in [Keys -> Effect] /\ RetryKey \in Keys
    BY RetryAssumption DEF Delta
  <2>3. /\ carried.effects[RetryKey] = RetryState /\ carried.history = delta.history
    <3> DEFINE value == RetryState
    <3>1. carried = [delta EXCEPT !.effects[RetryKey] = value]
      BY <2>1
    <3> HIDE DEF value, carried
    <3> QED
      BY <2>2, <3>1 DEF Delta, value
  <2> QED
    BY <1>1, <2>1, <2>3
<1> QED
  BY <1>2, <1>3

\* A request that carries the counter over counts what the request below does.
LEMMA CarriedIsCounted ==
  ASSUME NEW value \in Effect \ {Removed}, NEW below, below = value,
         value.tag = "stored" => \E budget \in RetryBudgets : value.value <= budget
  PROVE  value.tag = "stored" =>
            /\ \E budget \in RetryBudgets : value.value <= budget
            /\ below \in {Stored(value.value), Stored(value.value - 1)}
                            \cup (IF value.value = 1 THEN {Missing} ELSE {})
<1> SUFFICES ASSUME value.tag = "stored" PROVE below = Stored(value.value)
  OBVIOUS
<1>1. value # Missing
  BY DEF Missing
<1> QED
  BY <1>1 DEF Effect, Stored

\* A new outermost frame is all that can be wrong with a chain that branches.
LEMMA BranchGrows ==
  ASSUME NEW fs, WellFormed(fs), AllGrown(fs), NEW step \in Step, NEW delta \in Delta,
         Grown(Branch(fs, step, delta))
  PROVE  AllGrown(Branch(fs, step, delta))
<1> DEFINE n == Len(fs)
           next == Branch(fs, step, delta)
<1>1. n \in Nat /\ fs \in Chain(Step)
  BY WellFormedFrames
<1>2. /\ next \in Chain(Step) /\ next # <<>> /\ Len(next) = n + 1
      /\ \A i \in 1 .. n : next[i] = fs[i]
      /\ next[n + 1] = [step |-> step, delta |-> delta]
      /\ \A i \in 0 .. n : SubSeq(next, 1, i) = SubSeq(fs, 1, i)
      /\ SubSeq(next, 1, n + 1) = next
      /\ Front(next) = fs
  BY <1>1, PrefixesOfBranch
<1> HIDE DEF next
<1>3. ASSUME NEW i \in 1 .. n + 1 PROVE Grown(SubSeq(next, 1, i))
  <2>1. CASE i = n + 1
    BY <1>2, <2>1 DEF next
  <2>2. CASE i # n + 1
    <3>1. i \in 1 .. n /\ i \in 0 .. n
      BY <1>1, <2>2
    <3>2. Grown(SubSeq(fs, 1, i))
      BY <3>1 DEF AllGrown
    <3> QED
      BY <1>2, <3>1, <3>2
  <2> QED
    BY <2>1, <2>2
<1>4. AllGrown(next)
  BY <1>2, <1>3 DEF AllGrown
<1> QED
  BY <1>4 DEF next

\* Nor can anything else be wrong when the outermost frame is replaced.
LEMMA ReplaceGrows ==
  ASSUME NEW fs, WellFormed(fs), AllGrown(fs), NEW step \in Step, NEW delta \in Delta,
         Grown(ReplaceOuter(fs, step, delta))
  PROVE  AllGrown(ReplaceOuter(fs, step, delta))
<1> DEFINE n == Len(fs)
           next == ReplaceOuter(fs, step, delta)
<1>1. n \in Nat /\ fs \in Chain(Step) /\ fs # <<>>
  BY WellFormedFrames DEF WellFormed
<1>2. /\ Len(next) = n /\ SubSeq(next, 1, n) = next
      /\ \A i \in 0 .. n - 1 : SubSeq(next, 1, i) = SubSeq(fs, 1, i)
  BY <1>1, PrefixesOfReplace, ZenonT(40)
<1> HIDE DEF next
<1>3. ASSUME NEW i \in 1 .. n PROVE Grown(SubSeq(next, 1, i))
  <2>1. CASE i = n
    BY <1>2, <2>1 DEF next
  <2>2. CASE i # n
    <3>1. i \in 1 .. n /\ i \in 0 .. n - 1
      BY <1>1, <2>2
    <3>2. Grown(SubSeq(fs, 1, i))
      BY <3>1 DEF AllGrown
    <3> QED
      BY <1>2, <3>1, <3>2
  <2> QED
    BY <2>1, <2>2
<1>4. AllGrown(next)
  BY <1>2, <1>3 DEF AllGrown
<1> QED
  BY <1>4 DEF next

\* A prefix of a grown chain is grown.
LEMMA PrefixGrows ==
  ASSUME NEW fs, WellFormed(fs), AllGrown(fs), NEW n \in 1 .. Len(fs)
  PROVE  AllGrown(SubSeq(fs, 1, n))
<1> DEFINE next == SubSeq(fs, 1, n)
<1>1. fs \in Seq(Frame) /\ Len(fs) \in Nat /\ n \in 0 .. Len(fs)
  BY WellFormedFrames DEF WellFormed
<1>2. Len(next) = n
  BY <1>1, PrefixOf
<1>3. \A i \in 0 .. n : SubSeq(next, 1, i) = SubSeq(fs, 1, i)
  BY <1>1, PrefixesOfPrefix
<1> HIDE DEF next
<1>4. ASSUME NEW i \in 1 .. n PROVE Grown(SubSeq(next, 1, i))
  <2>1. i \in 1 .. Len(fs) /\ i \in 0 .. n
    BY <1>1
  <2>2. Grown(SubSeq(fs, 1, i))
    BY <2>1 DEF AllGrown
  <2> QED
    BY <1>3, <2>1, <2>2
<1>5. AllGrown(next)
  BY <1>2, <1>4 DEF AllGrown
<1> QED
  BY <1>5 DEF next

\* The new outermost frame of a chain that publishes grows as it should.
LEMMA PublishedGrows ==
  ASSUME WellFormed(frames), AllGrown(frames), Publishes
  PROVE  AllGrown(frames')
<1> DEFINE n == Len(frames)
<1>1. PICK step \in Step, ms \in Seq(Message), retries \in RetryBudgets :
         /\ ValidReactStep(step) /\ ~IsFailed(step) /\ ~IsFailed(BaseStep)
         /\ Follows(step, ms)
         /\ frames' = Branch(frames, step, CarryRetry(step, Messages(ms), retries))
  BY DEF Publishes
<1> DEFINE delta == CarryRetry(step, Messages(ms), retries)
           next == Branch(frames, step, delta)
<1>2. /\ n \in Nat /\ n > 0 /\ frames \in Chain(Step)
      /\ BaseStep \in Step /\ FrameFits(frames, n) /\ BaseStep = frames[n].step
  BY WellFormedFrames DEF BaseStep, Outer
<1>3. /\ Messages(ms) \in Delta /\ Messages(ms).history = ms
      /\ ~Affects(Messages(ms), RetryKey) /\ Messages(ms).effects[RetryKey] = Missing
  BY EmptyDeltaType, RetryAssumption DEF Messages, Affects, NoEffects
<1>4. /\ delta \in Delta /\ delta.history = ms
      /\ \/ delta.effects[RetryKey] = Missing
         \/ IsRequestProvider(step) /\ delta.effects[RetryKey] = RetryState
  BY <1>3, CarriedRetry
<1> HIDE DEF delta
<1>5. /\ next \in Chain(Step) /\ next # <<>> /\ Len(next) = n + 1
      /\ \A i \in 1 .. n : next[i] = frames[i]
      /\ next[n + 1] = [step |-> step, delta |-> delta]
      /\ \A i \in 0 .. n : SubSeq(next, 1, i) = SubSeq(frames, 1, i)
      /\ SubSeq(next, 1, n + 1) = next
      /\ Front(next) = frames
  BY <1>2, <1>4, PrefixesOfBranch
<1> HIDE DEF next
<1>6. /\ Outer(next) = [step |-> step, delta |-> delta] /\ HasParent(next)
      /\ Parent(next) = frames[n]
  BY <1>2, <1>5 DEF Outer, Parent, HasParent
<1>7. TurnIsKept(next)
  <2> SUFFICES ASSUME BaseStep.kind = "request_executor"
               PROVE  /\ IsRequestProvider(step)
                      /\ LET ran == SubSeq(BaseStep.calls, 1, Len(BaseStep.results) + 1)
                         IN ms = TurnMessages(BaseStep.pending, ran, ran)
    BY <1>2, <1>4, <1>6 DEF TurnIsKept
  <2> DEFINE done == Len(BaseStep.results)
             calls == BaseStep.calls
             ran == Append(BaseStep.results, calls[done + 1])
  <2>1. calls \in Seq(CallIds) /\ BaseStep.results \in Seq(CallIds) /\ ValidTurn(BaseStep)
    BY <1>2, StepFields DEF FrameFits, ValidStep, ValidReactStep, IsFailed
  <2>2. /\ done + 1 = Len(calls) /\ step = RequestProvider
        /\ ms = TurnMessages(BaseStep.pending, calls, ran)
    BY <1>1 DEF Follows, AtProvider, IsRequestProvider, RunsTool
  <2>3. SubSeq(calls, 1, done + 1) = calls
    BY <2>1, <2>2, SubSeqFull
  <2>4. ran = calls
    <3>1. \A i \in 1 .. done : BaseStep.results[i] = calls[i]
      BY <2>1 DEF ValidTurn, ResultsMatchCalls
    <3>2. ran = SubSeq(calls, 1, done + 1)
      BY <2>1, <3>1, RanSoFar DEF ValidTurn
    <3> QED
      BY <2>3, <3>2
  <2> QED
    BY <2>2, <2>3, <2>4 DEF IsRequestProvider, RequestProvider
<1>8. RateIsDue(next)
  <2> SUFFICES ASSUME step.kind = "request_compact"
               PROVE  frames[n].step.kind # "request_compact" /\ step.rate = Rung[1]
    BY <1>6 DEF RateIsDue
  <2>1. AtProvider /\ step = RequestCompact(FirstRate)
    BY <1>1 DEF Follows, RequestProvider, TurnEnd, RequestExecutor, Compacted
  <2> QED
    BY <1>2, <2>1, RungsFollow DEF AtProvider, IsRequestProvider, RequestCompact
<1>9. RetryIsCounted(next)
  <2>1. FindAncestor(next, "request_provider") = Nearest(frames, "request_provider")
    BY <1>5, AncestorIsNearest
  <2>2. /\ RetryState = Lookup(FindAncestor(next, "request_provider"), RetryKey)
        /\ RetryState \in Effect \ {Removed}
        /\ RetryState.tag = "stored" => \E budget \in RetryBudgets : RetryState.value <= budget
    BY <2>1, RetryAtRequest DEF RetryState
  <2> DEFINE retry == RetryState
             below == Lookup(FindAncestor(next, "request_provider"), RetryKey)
  <2>3. retry.tag = "stored" =>
            /\ \E budget \in RetryBudgets : retry.value <= budget
            /\ below \in {Stored(retry.value), Stored(retry.value - 1)}
                            \cup (IF retry.value = 1 THEN {Missing} ELSE {})
    <3> HIDE DEF retry, below
    <3> QED
      BY <2>2, CarriedIsCounted DEF retry, below
  <2>4. Missing.tag # "stored"
    BY DEF Missing
  <2>5. /\ Outer(next).delta.effects[RetryKey] \in {Missing, retry}
        /\ ~IsRequestProvider(Outer(next).step) => Outer(next).delta.effects[RetryKey] = Missing
    BY <1>4, <1>6
  <2> HIDE DEF retry, below
  <2> QED
    BY <2>3, <2>4, <2>5 DEF RetryIsCounted, below
<1> QED
  BY <1>1, <1>4, <1>7, <1>8, <1>9, BranchGrows DEF next, delta, Grown

\* A failure carries no messages, no variables and no rate.
LEMMA FailedGrows ==
  ASSUME WellFormed(frames), AllGrown(frames), Fails
  PROVE  AllGrown(frames')
<1> DEFINE n == Len(frames)
<1>1. PICK error \in ErrorSet :
         /\ ValidStep(Failed(error)) /\ ~IsFailed(BaseStep)
         /\ RunsTool <=> error.kind \in ToolErrors
         /\ frames' = Branch(frames, Failed(error), EmptyDelta)
  BY DEF Fails
<1> DEFINE step == Failed(error)
           next == Branch(frames, step, EmptyDelta)
<1>2. n \in Nat /\ n > 0 /\ frames \in Chain(Step) /\ BaseStep = frames[n].step
  BY WellFormedFrames DEF BaseStep, Outer
<1>3. step \in Step /\ IsFailed(step) /\ step.error = error
  BY StepTypes DEF Failed, IsFailed
<1>4. EmptyDelta \in Delta /\ EmptyDelta.effects[RetryKey] = Missing
  BY EmptyDeltaType, RetryAssumption DEF EmptyDelta, NoEffects
<1> HIDE DEF step
<1>5. /\ next \in Chain(Step) /\ next # <<>> /\ Len(next) = n + 1
      /\ \A i \in 1 .. n : next[i] = frames[i]
      /\ next[n + 1] = [step |-> step, delta |-> EmptyDelta]
      /\ \A i \in 0 .. n : SubSeq(next, 1, i) = SubSeq(frames, 1, i)
      /\ SubSeq(next, 1, n + 1) = next
      /\ Front(next) = frames
  BY <1>2, <1>3, <1>4, PrefixesOfBranch
<1> HIDE DEF next
<1>6. /\ Outer(next).step = step /\ Outer(next).delta = EmptyDelta /\ HasParent(next)
      /\ Parent(next) = frames[n]
  BY <1>2, <1>5 DEF Outer, Parent, HasParent
<1>7. TurnIsKept(next) /\ RateIsDue(next) /\ RetryIsCounted(next)
  <2>1. TurnIsKept(next)
    BY <1>1, <1>2, <1>3, <1>6 DEF TurnIsKept, RunsTool, IsToolFailure
  <2>2. RateIsDue(next)
    BY <1>3, <1>6 DEF RateIsDue, IsFailed
  <2>3. RetryIsCounted(next)
    BY <1>4, <1>6 DEF RetryIsCounted, Missing
  <2> QED
    BY <2>1, <2>2, <2>3
<1> QED
  BY <1>1, <1>3, <1>4, <1>7, BranchGrows DEF next, step, Grown

\* What takes the place of the outermost step grows as it should: a retry
\* counts one up, a compact request tries the next rate, and a request above a
\* tool turn commits what ran.
LEMMA ReplacedGrows ==
  ASSUME WellFormed(frames), FailureIsEmptyAndOutermost, AllGrown(frames), Replaces
  PROVE  AllGrown(frames')
<1> DEFINE n == Len(frames)
           base == Outer(frames).delta
           below == Lookup(FindAncestor(frames, "request_provider"), RetryKey)
<1>1. PICK step \in Step, delta \in Delta, retries \in RetryBudgets :
         /\ ValidReactStep(step) /\ ~IsFailed(step) /\ step.kind # "compacted"
         /\ TakesOver(step, delta, retries)
         /\ frames' = ReplaceOuter(frames, step, CarryRetry(step, Then(base, delta), retries))
  BY DEF Replaces
<1> DEFINE whole == Then(base, delta)
           new == CarryRetry(step, whole, retries)
           next == ReplaceOuter(frames, step, new)
<1>2. /\ n \in Nat /\ n > 0 /\ frames \in Chain(Step) /\ frames # <<>>
      /\ BaseStep \in Step /\ BaseStep = frames[n].step /\ base = frames[n].delta
      /\ base \in Delta /\ FrameFits(frames, n) /\ n \in DOMAIN frames
  BY WellFormedFrames DEF BaseStep, Outer, WellFormed
<1>3. IsFailed(BaseStep) => n > 1 /\ base = EmptyDelta
  BY <1>2 DEF FailureIsEmptyAndOutermost
<1>4. /\ whole \in Delta /\ whole.history = base.history \o delta.history
      /\ whole.effects[RetryKey] = IF Affects(delta, RetryKey) THEN delta.effects[RetryKey]
                                                               ELSE base.effects[RetryKey]
  <2>1. whole \in Delta
    BY <1>2, NoMessages, DeltaTypes
  <2> QED
    BY <2>1, RetryAssumption DEF Then
<1> HIDE DEF whole
<1>5. /\ new \in Delta /\ new.history = whole.history
      /\ \/ new = whole
         \/ /\ IsRequestProvider(step) /\ ~Affects(whole, RetryKey)
            /\ new.effects[RetryKey] = RetryState
  BY <1>4, CarriedRetry
<1> HIDE DEF new, base
<1>6. /\ next \in Chain(Step) /\ next # <<>> /\ Len(next) = n
      /\ \A i \in 1 .. n - 1 : next[i] = frames[i]
      /\ next[n] = [step |-> step, delta |-> new]
      /\ \A i \in 0 .. n - 1 : SubSeq(next, 1, i) = SubSeq(frames, 1, i)
      /\ SubSeq(next, 1, n) = next
      /\ Front(next) = Front(frames)
  BY <1>2, <1>5, PrefixesOfReplace
<1> HIDE DEF next
<1>7. /\ Outer(next).step = step /\ Outer(next).delta = new
      /\ HasParent(next) <=> n > 1
      /\ n > 1 => Parent(next) = frames[n - 1]
  BY <1>2, <1>6 DEF Outer, Parent, HasParent
<1>8. FindAncestor(next, "request_provider") = FindAncestor(frames, "request_provider")
  BY <1>2, <1>6, SameAncestor
<1>9. n \in 1 .. Len(frames) /\ (n > 1 => n - 1 \in 1 .. Len(frames))
  BY <1>2
\* What is known of the frame that is replaced.
<1>10. /\ n > 1 /\ frames[n - 1].step.kind = "request_executor" =>
             IsToolFailure(BaseStep) \/ IsRequestProvider(BaseStep)
       /\ ~IsRequestProvider(BaseStep) => base.effects[RetryKey] = Missing
  BY <1>2, <1>9, GrownFrames DEF Affects
<1>11. ~IsRequestProvider(BaseStep) =>
          /\ RetryState = below /\ RetryState \in Effect \ {Removed}
          /\ RetryState.tag = "stored" => \E budget \in RetryBudgets : RetryState.value <= budget
  <2> SUFFICES ASSUME ~IsRequestProvider(BaseStep)
               PROVE  FindAncestor(frames, "request_provider") = Nearest(frames, "request_provider")
    BY RetryAtRequest DEF RetryState
  <2>1. Outer(frames).step.kind # "request_provider"
    BY DEF BaseStep, IsRequestProvider
  <2> QED
    BY <1>2, <2>1, AncestorIsNearest
<1>12. EmptyDelta.history = <<>> /\ EmptyDelta.effects[RetryKey] = Missing
       /\ ~Affects(EmptyDelta, RetryKey)
  BY RetryAssumption DEF EmptyDelta, NoEffects, Affects
<1> DEFINE retry == RetryState
<1>13. ~IsRequestProvider(BaseStep) =>
          (retry.tag = "stored" =>
             /\ \E budget \in RetryBudgets : retry.value <= budget
             /\ below \in {Stored(retry.value), Stored(retry.value - 1)}
                             \cup (IF retry.value = 1 THEN {Missing} ELSE {}))
  <2> HIDE DEF retry, below
  <2> QED
    BY <1>11, CarriedIsCounted DEF retry
<1> HIDE DEF retry
<1>14. ASSUME ~IsRequestProvider(BaseStep), whole.effects[RetryKey] = Missing
       PROVE  RetryIsCounted(next)
  <2>1. /\ Outer(next).delta.effects[RetryKey] \in {Missing, retry}
        /\ ~IsRequestProvider(Outer(next).step) => Outer(next).delta.effects[RetryKey] = Missing
    BY <1>5, <1>7, <1>14 DEF retry
  <2>2. Missing.tag # "stored"
    BY DEF Missing
  <2> HIDE DEF below
  <2> QED
    BY <1>8, <1>13, <1>14, <2>1, <2>2 DEF RetryIsCounted, below
\* The next attempt.
<1>15. ASSUME RetryApplies(retries), step = RequestProvider,
              \/ delta = RemoveIn(EmptyDelta, RetryKey)
              \/ NextAttempt <= retries /\ delta = StoreIn(EmptyDelta, RetryKey, NextAttempt)
       PROVE  Grown(next)
  <2>1. /\ IsFailed(BaseStep) /\ ~IsToolFailure(BaseStep) /\ ~IsRequestProvider(BaseStep)
        /\ ProviderAncestor # <<>>
    BY <1>15 DEF RetryApplies, AtFailure, IsFailed, IsToolFailure, RetryableErrors, ToolErrors,
                 IsRequestProvider
  <2>2. NextAttempt \in Nat
    BY <2>1, NextAttemptType
  <2>3. EmptyDelta.effects \in [Keys -> Effect] /\ RetryKey \in Keys
    BY EmptyDeltaType, RetryAssumption DEF Delta
  <2>4. delta.effects[RetryKey] \in {Removed} \/
           (NextAttempt <= retries /\ delta.effects[RetryKey] = Stored(NextAttempt))
    <3>1. RemoveIn(EmptyDelta, RetryKey).effects[RetryKey] = Removed
      BY <2>3 DEF RemoveIn, EmptyDelta
    <3>2. StoreIn(EmptyDelta, RetryKey, NextAttempt).effects[RetryKey] = Stored(NextAttempt)
      BY <2>3 DEF StoreIn, EmptyDelta
    <3> QED
      BY <1>15, <3>1, <3>2
  <2> DEFINE attempt == NextAttempt
             effect == delta.effects[RetryKey]
  <2>5. effect # Missing
    BY <2>4 DEF Removed, Stored, Missing
  <2>6. new = whole /\ new.effects[RetryKey] = effect
    BY <1>4, <1>5, <2>5 DEF Affects
  <2>7. /\ below \in Effect \ {Removed}
        /\ attempt = IF below = Missing THEN 1 ELSE below.value + 1
    <3>1. FindAncestor(frames, "request_provider") \in Chain(Step)
      <4>1. <<>> \in Chain(Step)
        BY DEF Chain
      <4> QED
        BY <1>2, <4>1, AncestorType
    <3>2. below \in Effect \ {Removed}
      BY <3>1, RetryAssumption, LookupType
    <3> QED
      BY <3>2 DEF NextAttempt, ProviderAncestor
  <2> HIDE DEF attempt, effect, below
  <2>8. effect.tag = "stored" =>
           /\ attempt <= retries /\ effect.value = attempt
           /\ below \in {Stored(attempt), Stored(attempt - 1)}
                           \cup (IF attempt = 1 THEN {Missing} ELSE {})
    <3> SUFFICES ASSUME effect.tag = "stored"
                 PROVE  /\ attempt <= retries /\ effect.value = attempt
                        /\ below \in {Stored(attempt), Stored(attempt - 1)}
                                        \cup (IF attempt = 1 THEN {Missing} ELSE {})
      OBVIOUS
    <3>1. attempt <= retries /\ effect.value = attempt
      BY <2>4 DEF effect, attempt, Removed, Stored
    <3>2. below # Missing => below.value \in Nat /\ below = Stored(below.value)
      BY <2>7 DEF Effect, Stored
    <3>3. below # Missing => attempt - 1 = below.value
      BY <2>7, <3>2
    <3> QED
      BY <2>7, <3>1, <3>2, <3>3
  <2>9. RetryIsCounted(next)
    <3>1. IsRequestProvider(Outer(next).step) /\ Outer(next).delta.effects[RetryKey] = effect
      BY <1>7, <1>15, <2>6 DEF IsRequestProvider, RequestProvider
    <3> QED
      BY <1>8, <2>8, <3>1 DEF RetryIsCounted, below
  <2>10. TurnIsKept(next) /\ RateIsDue(next)
    <3>1. TurnIsKept(next)
      BY <1>7, <1>10, <2>1 DEF TurnIsKept
    <3>2. RateIsDue(next)
      BY <1>7, <1>15 DEF RateIsDue, RequestProvider
    <3> QED
      BY <3>1, <3>2
  <2> QED
    BY <2>9, <2>10 DEF Grown
\* The next rate.
<1>16. ASSUME AtFailure({"context_exceeded_limit"}), HasParent(frames), RecoveryRate <= HalfRate,
              step = RequestCompact(RecoveryRate), delta = EmptyDelta
       PROVE  Grown(next)
  <2>1. IsFailed(BaseStep) /\ ~IsToolFailure(BaseStep) /\ ~IsRequestProvider(BaseStep)
    BY <1>16 DEF AtFailure, IsFailed, IsToolFailure, ToolErrors, IsRequestProvider
  <2>2. n > 1 /\ Parent(frames) = frames[n - 1] /\ n - 1 \in 1 .. Len(frames)
    BY <1>2, <1>16 DEF HasParent, Parent
  <2> DEFINE low == frames[n - 1].step
  <2>3. low.kind = "request_compact" => \E k \in 1 .. 8 : low.rate = Rung[k]
    BY <2>2, GrownFrames
  <2>4. RecoveryRate = CASE low.kind = "request_provider" -> FirstRate
                         [] low.kind = "request_compact" -> NextRate(low.rate)
                         [] OTHER -> RateUnit
    BY <2>2 DEF RecoveryRate
  <2> DEFINE rate == RecoveryRate
  <2> HIDE DEF low, rate
  <2>5. low.kind \in {"request_provider", "request_compact"}
    <3> SUFFICES ASSUME low.kind \notin {"request_provider", "request_compact"} PROVE FALSE
      OBVIOUS
    <3>1. RecoveryRate = RateUnit
      BY <2>4
    <3> QED
      BY <1>16, <3>1, SMT DEF RateUnit, HalfRate
  <2>6. CASE low.kind = "request_provider"
    <3>1. RecoveryRate = Rung[1]
      BY <2>4, <2>6, RungsFollow
    <3>2. RateIsDue(next)
      <4>1. step.rate = Rung[1] /\ Parent(next).step.kind # "request_compact"
        BY <1>7, <1>16, <2>2, <2>6, <3>1 DEF RequestCompact, low
      <4>2. \E k \in 1 .. 8 : step.rate = Rung[k]
        BY <4>1
      <4> QED
        BY <1>7, <2>2, <4>1, <4>2 DEF RateIsDue
    <3>3. TurnIsKept(next)
      BY <1>7, <1>10, <2>1 DEF TurnIsKept
    <3>4. whole.effects[RetryKey] = Missing
      BY <1>4, <1>10, <1>12, <1>16, <2>1
    <3> QED
      BY <1>14, <2>1, <3>2, <3>3, <3>4 DEF Grown
  <2>7. CASE low.kind = "request_compact"
    <3>1. RecoveryRate = NextRate(low.rate)
      BY <2>4, <2>7
    <3>2. PICK k \in 1 .. 8 : low.rate = Rung[k]
      BY <2>3, <2>7
    <3>3. RecoveryRate = Rung[k + 1]
      BY <3>1, <3>2, RungsFollow
    <3>4. k + 1 \in 1 .. 8
      <4>1. k = 8 => RecoveryRate = Rung[9]
        BY <3>3
      <4>2. k # 8
        BY <1>16, <4>1, RungsFollow
      <4> QED
        BY <4>2
    <3>5. RateIsDue(next)
      <4>1. step.rate = Rung[k + 1] /\ step.rate = NextRate(Parent(next).step.rate)
        <5>1. step.rate = RecoveryRate
          BY <1>16 DEF RequestCompact
        <5>2. Parent(next).step = low
          BY <1>7, <2>2 DEF low
        <5> QED
          BY <3>1, <3>3, <5>1, <5>2
      <4>2. \E j \in 1 .. 8 : step.rate = Rung[j]
        BY <3>4, <4>1
      <4> QED
        BY <1>7, <2>2, <4>1, <4>2 DEF RateIsDue
    <3>6. TurnIsKept(next)
      BY <1>7, <1>10, <2>1 DEF TurnIsKept
    <3>7. whole.effects[RetryKey] = Missing
      BY <1>4, <1>10, <1>12, <1>16, <2>1
    <3> QED
      BY <1>14, <2>1, <3>5, <3>6, <3>7 DEF Grown
  <2> QED
    BY <2>5, <2>6, <2>7
\* The error as a result.
<1>17. ASSUME AtFailure(ToolErrors), Len(BaseStep.error.results) < Len(BaseStep.error.calls),
              step = RequestProvider,
              LET turn == BaseStep.error
                  done == Len(turn.results)
              IN delta = Messages(TurnMessages(turn.pending, SubSeq(turn.calls, 1, done + 1),
                                      Append(turn.results, turn.calls[done + 1])))
       PROVE  Grown(next)
  <2> DEFINE turn == BaseStep.error
             done == Len(turn.results)
             ran == SubSeq(turn.calls, 1, done + 1)
             results == Append(turn.results, turn.calls[done + 1])
             ms == TurnMessages(turn.pending, ran, ran)
  <2>1. /\ IsFailed(BaseStep) /\ IsToolFailure(BaseStep) /\ ~IsRequestProvider(BaseStep)
        /\ turn.kind \in ToolErrors
    BY <1>17 DEF AtFailure, IsFailed, IsToolFailure, IsRequestProvider
  <2>2. turn.pending \in Seq(Message) /\ turn.calls \in Seq(CallIds) /\ turn.results \in Seq(CallIds)
    BY <1>2, <2>1, StepFields, ErrorFields
  <2>3. ValidTurn(turn) /\ frames[n - 1].step = RequestExecutor(turn.pending, turn.calls, turn.results)
    BY <1>2, <2>1 DEF FrameFits, ValidStep
  <2>4. results = ran
    <3>1. \A i \in 1 .. done : turn.results[i] = turn.calls[i]
      BY <2>2, <2>3 DEF ValidTurn, ResultsMatchCalls
    <3> QED
      BY <1>17, <2>2, <3>1, RanSoFar
  <2>5. delta = Messages(ms)
    BY <1>17, <2>4
  <2>6. ms \in Seq(Message)
    <3>1. ran \in Seq(CallIds)
      BY <1>17, <2>2, NextResult
    <3> QED
      BY <2>2, <3>1, TurnTypes
  <2>7. delta.history = ms /\ ~Affects(delta, RetryKey)
    <3> HIDE DEF ms
    <3> QED
      BY <2>5, RetryAssumption DEF Messages, NoEffects, Affects
  <2>8. new.history = ms
    <3> HIDE DEF ms
    <3> QED
      BY <1>3, <1>4, <1>5, <1>12, <2>1, <2>6, <2>7, ConcatEmptySeq
  <2>9. TurnIsKept(next)
    <3>1. /\ frames[n - 1].step.pending = turn.pending /\ frames[n - 1].step.calls = turn.calls
          /\ frames[n - 1].step.results = turn.results
      BY <2>3 DEF RequestExecutor
    <3> HIDE DEF turn
    <3> QED
      BY <1>7, <1>17, <2>8, <3>1, SMTT(30) DEF TurnIsKept, IsRequestProvider, RequestProvider
  <2>10. RateIsDue(next)
    BY <1>7, <1>17 DEF RateIsDue, RequestProvider
  <2>11. whole.effects[RetryKey] = Missing
    BY <1>4, <1>10, <2>1, <2>7
  <2> QED
    BY <1>14, <2>1, <2>9, <2>10, <2>11 DEF Grown
\* The next call.
<1>18. ASSUME RunsTool, step.kind = "request_executor", delta = EmptyDelta
       PROVE  Grown(next)
  <2>1. ~IsRequestProvider(BaseStep) /\ ~IsToolFailure(BaseStep)
    BY <1>18 DEF RunsTool, IsRequestProvider, IsToolFailure, IsFailed
  <2>2. TurnIsKept(next)
    BY <1>7, <1>10, <2>1 DEF TurnIsKept
  <2>3. RateIsDue(next)
    BY <1>7, <1>18 DEF RateIsDue
  <2>4. whole.effects[RetryKey] = Missing
    BY <1>4, <1>10, <1>12, <1>18, <2>1
  <2> QED
    BY <1>14, <2>1, <2>2, <2>3, <2>4 DEF Grown
<1>19. Grown(next)
  BY <1>1, <1>15, <1>16, <1>17, <1>18 DEF TakesOver, RequestExecutor
<1> QED
  BY <1>1, <1>5, <1>19, ReplaceGrows DEF next, new, whole, base

\* A new session has grown as it should: its one frame is a request without a
\* counter.
LEMMA InitGrows == Init => AllGrown(frames)
<1> SUFFICES ASSUME Init PROVE AllGrown(frames)
  OBVIOUS
<1> DEFINE root == [step |-> RequestProvider, delta |-> Messages(<<SystemMessage>>)]
<1>1. frames = <<root>> /\ WellFormed(frames)
  BY InitWellFormed DEF Init, Branch
<1>2. root.step.kind = "request_provider" /\ root.delta.effects[RetryKey] = Missing
  BY RetryAssumption DEF RequestProvider, Messages, NoEffects
<1> HIDE DEF root
<1>3. Len(frames) = 1 /\ frames[1] = root
  BY <1>1
<1> DEFINE chain == SubSeq(frames, 1, 1)
<1>4. Outer(chain) = root /\ ~HasParent(chain)
  BY <1>1, <1>3, LastFrames
<1> HIDE DEF chain
<1>5. TurnIsKept(chain) /\ RateIsDue(chain) /\ RetryIsCounted(chain)
  BY <1>2, <1>4 DEF TurnIsKept, RateIsDue, RetryIsCounted, Missing
<1>6. \A i \in 1 .. 1 : i = 1
  OBVIOUS
<1> QED
  BY <1>3, <1>5, <1>6 DEF AllGrown, Grown, chain

\* Every outcome leaves a chain that has grown as it should.
LEMMA OutcomesGrow ==
  ASSUME WellFormed(frames), FailureIsEmptyAndOutermost, AllGrown(frames),
         Publishes \/ Fails \/ Replaces \/ RollsBack \/ StaysFailed
  PROVE  AllGrown(frames')
<1>1. CASE RollsBack
  <2>1. /\ Len(frames) \in Nat /\ Len(frames) > 1
        /\ frames' = SubSeq(frames, 1, Len(frames) - 1)
    BY <1>1, WellFormedFrames DEF RollsBack, HasParent, DropOuter, Front
  <2>2. Len(frames) - 1 \in 1 .. Len(frames)
    BY <2>1
  <2> QED
    BY <2>1, <2>2, PrefixGrows
<1>2. CASE StaysFailed
  BY <1>2 DEF StaysFailed
<1> QED
  BY <1>1, <1>2, PublishedGrows, FailedGrows, ReplacedGrows

\* The inductive invariant: the chain is well formed, no failure is buried in
\* it, and every chain below each of its frames has grown as it should.
GrownInv == WellFormed(frames) /\ FailureIsEmptyAndOutermost /\ AllGrown(frames)

LEMMA GrownInvKept ==
  /\ Init => GrownInv
  /\ GrownInv /\ [AgentStep]_frames => GrownInv'
<1>1. Init => GrownInv
  BY InitWellFormed, InitGrows DEF GrownInv
<1>2. ASSUME GrownInv, AgentStep PROVE GrownInv'
  BY <1>2, AgentOutcomes, OutcomesKeep, OutcomesBuryNoFailure, OutcomesGrow DEF GrownInv
<1>3. ASSUME GrownInv, UNCHANGED frames PROVE GrownInv'
  BY <1>3 DEF GrownInv, FailureIsEmptyAndOutermost
<1> QED
  BY <1>1, <1>2, <1>3

\* A request above an executor commits exactly the calls that ran there.
THEOREM TurnsCommitWhatRan == Spec => []TurnCommitsWhatRan
<1>1. GrownInv => TurnCommitsWhatRan
  <2> SUFFICES ASSUME GrownInv,
                      NEW i \in 1 .. Len(frames) - 1,
                      frames[i].step.kind = "request_executor",
                      IsRequestProvider(frames[i + 1].step)
               PROVE  LET turn == frames[i].step
                          ran == SubSeq(turn.calls, 1, Len(turn.results) + 1)
                      IN frames[i + 1].delta.history = TurnMessages(turn.pending, ran, ran)
    BY DEF TurnCommitsWhatRan
  <2>1. i + 1 \in 1 .. Len(frames) /\ i + 1 > 1 /\ (i + 1) - 1 = i
    BY WellFormedFrames DEF GrownInv
  <2>2. ~IsToolFailure(frames[i + 1].step)
    BY DEF IsToolFailure, IsFailed, IsRequestProvider
  <2> QED
    BY <2>1, <2>2, GrownFrames DEF GrownInv
<1> QED
  BY <1>1, GrownInvKept, PTL DEF Spec

\* Of nine frames in a row, one is not a compact request: the rates of compact
\* requests in a row climb the ladder, which has eight rungs.
THEOREM CompactionGivesUp == Spec => []CompactAttemptsEnd
<1>1. GrownInv => CompactAttemptsEnd
  <2> SUFFICES ASSUME GrownInv,
                      NEW i \in 1 .. Len(frames) - 8,
                      \A j \in i .. i + 8 : frames[j].step.kind = "request_compact"
               PROVE  FALSE
    BY DEF CompactAttemptsEnd
  <2>1. Len(frames) \in Nat /\ \A m \in 0 .. 8 : i + m \in 1 .. Len(frames) /\ i + m \in i .. i + 8
    BY WellFormedFrames, SMTT(30) DEF GrownInv
  <2>2. PICK k \in 1 .. 8 : frames[i].step.rate = Rung[k]
    <3>1. i \in 1 .. Len(frames) /\ i \in i .. i + 8
      <4>1. 0 \in 0 .. 8 /\ i \in Int /\ i + 0 = i
        OBVIOUS
      <4>2. i + 0 \in 1 .. Len(frames) /\ i + 0 \in i .. i + 8
        BY <2>1, <4>1
      <4> QED
        BY <4>1, <4>2
    <3> QED
      BY <3>1, GrownFrames DEF GrownInv
  <2> DEFINE S == {m \in Nat : m <= 8 => k + m <= 8 /\ frames[i + m].step.rate = Rung[k + m]}
  <2>3. 0 \in S
    BY <2>2
  <2>4. ASSUME NEW m \in Nat, m \in S PROVE m + 1 \in S
    <3> SUFFICES ASSUME m + 1 <= 8
                 PROVE  /\ k + (m + 1) <= 8
                        /\ frames[i + (m + 1)].step.rate = Rung[k + (m + 1)]
      OBVIOUS
    <3> DEFINE low == i + m
               high == i + (m + 1)
    <3>1. m \in 0 .. 8 /\ m + 1 \in 0 .. 8
      OBVIOUS
    <3>2. /\ low \in 1 .. Len(frames) /\ high \in 1 .. Len(frames)
          /\ frames[low].step.kind = "request_compact" /\ frames[high].step.kind = "request_compact"
          /\ low = high - 1 /\ high > 1
      BY <2>1, <3>1
    <3>3. k + m \in 1 .. 8 /\ frames[low].step.rate = Rung[k + m]
      BY <2>4, <3>1
    <3> HIDE DEF low, high
    <3>4. frames[high].step.rate = NextRate(Rung[k + m])
      BY <3>2, <3>3, GrownFrames DEF GrownInv
    <3>5. frames[high].step.rate = Rung[(k + m) + 1]
      BY <3>3, <3>4, RungsFollow
    <3>6. ASSUME k + m = 8 PROVE FALSE
      <4>1. ValidRate(frames[high].step.rate)
        BY <3>2 DEF GrownInv, WellFormed, FrameFits, ValidStep, ValidReactStep, IsFailed
      <4>2. (k + m) + 1 = 9
        BY <3>6
      <4>3. frames[high].step.rate = Rung[9]
        BY <3>5, <4>2, Zenon
      <4>4. Rung[9] <= HalfRate
        BY <4>1, <4>3 DEF ValidRate
      <4> QED
        BY <4>4, RungsFollow
    <3>7. (k + m) + 1 = k + (m + 1)
      BY SMTT(30)
    <3> QED
      BY <3>3, <3>5, <3>6, <3>7 DEF high
  <2> HIDE DEF S
  <2>5. 8 \in S
    BY <2>3, <2>4, NatSetInduction
  <2> QED
    BY <2>5 DEF S
<1> QED
  BY <1>1, GrownInvKept, PTL DEF Spec

\* Retry attempts count up one by one, never beyond the largest budget.
THEOREM RetriesAreCounted == Spec => []RetriesCountUp
<1>1. GrownInv => RetriesCountUp
  <2> SUFFICES ASSUME GrownInv, NEW i \in DOMAIN frames
               PROVE  LET effect == frames[i].delta.effects[RetryKey]
                          below == Lookup(FindAncestor(SubSeq(frames, 1, i), "request_provider"),
                                          RetryKey)
                      IN effect.tag = "stored" =>
                            /\ \E budget \in RetryBudgets : effect.value <= budget
                            /\ below \in {Stored(effect.value), Stored(effect.value - 1)}
                                            \cup (IF effect.value = 1 THEN {Missing} ELSE {})
    BY DEF RetriesCountUp
  <2>1. i \in 1 .. Len(frames)
    BY DEF GrownInv, WellFormed
  <2>2. Outer(SubSeq(frames, 1, i)) = frames[i]
    BY <2>1, LastFrames DEF GrownInv
  <2>3. RetryIsCounted(SubSeq(frames, 1, i))
    BY <2>1 DEF GrownInv, AllGrown, Grown
  <2> QED
    BY <2>2, <2>3 DEF RetryIsCounted
<1> QED
  BY <1>1, GrownInvKept, PTL DEF Spec

-------------------------------------------------------------------------------
(* Calls and their results *)

\* What each frame commits, and what a pending or failed turn will commit, keeps
\* calls and results together.
PairedFrame(frame) ==
    /\ Answered(frame.delta.history)
    /\ frame.step.kind = "request_executor" => Answered(frame.step.pending)
    /\ IsToolFailure(frame.step) => Answered(frame.step.error.pending)

AllPaired(fs) == \A i \in 1 .. Len(fs) : PairedFrame(fs[i])

\* What modules append to a request is expected to keep calls and results
\* together; the modules of this repository append nothing.
TailsAnswered == \A tail \in RequestTails : Answered(tail)

LEMMA BranchPaired ==
  ASSUME NEW fs, WellFormed(fs), AllPaired(fs), NEW step \in Step, NEW delta \in Delta,
         PairedFrame([step |-> step, delta |-> delta])
  PROVE  AllPaired(Branch(fs, step, delta))
<1> DEFINE n == Len(fs)
           next == Branch(fs, step, delta)
<1>1. n \in Nat /\ fs \in Chain(Step)
  BY WellFormedFrames
<1>2. /\ Len(next) = n + 1 /\ \A i \in 1 .. n : next[i] = fs[i]
      /\ next[n + 1] = [step |-> step, delta |-> delta]
  BY <1>1, PrefixesOfBranch
<1> HIDE DEF next
<1>3. ASSUME NEW i \in 1 .. n + 1 PROVE PairedFrame(next[i])
  <2>1. CASE i = n + 1
    BY <1>2, <2>1
  <2>2. CASE i # n + 1
    <3>1. i \in 1 .. n
      BY <1>1, <2>2
    <3> QED
      BY <1>2, <3>1 DEF AllPaired
  <2> QED
    BY <2>1, <2>2
<1>4. AllPaired(next)
  BY <1>2, <1>3 DEF AllPaired
<1> QED
  BY <1>4 DEF next

LEMMA ReplacePaired ==
  ASSUME NEW fs, WellFormed(fs), AllPaired(fs), NEW step \in Step, NEW delta \in Delta,
         PairedFrame([step |-> step, delta |-> delta])
  PROVE  AllPaired(ReplaceOuter(fs, step, delta))
<1> DEFINE n == Len(fs)
           next == ReplaceOuter(fs, step, delta)
<1>1. n \in Nat /\ fs \in Chain(Step) /\ fs # <<>>
  BY WellFormedFrames DEF WellFormed
<1>2. /\ Len(next) = n /\ \A i \in 1 .. n - 1 : next[i] = fs[i]
      /\ next[n] = [step |-> step, delta |-> delta]
  BY <1>1, PrefixesOfReplace
<1> HIDE DEF next
<1>3. ASSUME NEW i \in 1 .. n PROVE PairedFrame(next[i])
  <2>1. CASE i = n
    BY <1>2, <2>1
  <2>2. CASE i # n
    <3>1. i \in 1 .. n - 1
      BY <1>1, <2>2
    <3> QED
      BY <1>2, <3>1 DEF AllPaired
  <2> QED
    BY <2>1, <2>2
<1>4. AllPaired(next)
  BY <1>2, <1>3 DEF AllPaired
<1> QED
  BY <1>4 DEF next

LEMMA PrefixPaired ==
  ASSUME NEW fs, WellFormed(fs), AllPaired(fs), NEW n \in 1 .. Len(fs)
  PROVE  AllPaired(SubSeq(fs, 1, n))
<1>1. Len(fs) \in Nat /\ fs \in Seq([step : Step, delta : Delta])
  BY WellFormedFrames DEF Chain, Frame
<1>4. n \in 0 .. Len(fs)
  BY <1>1
<1>2. Len(SubSeq(fs, 1, n)) = n /\ \A i \in 1 .. n : SubSeq(fs, 1, n)[i] = fs[i]
  BY <1>1, <1>4, PrefixOf
<1>3. \A i \in 1 .. n : i \in 1 .. Len(fs)
  BY <1>1
<1> QED
  BY <1>2, <1>3 DEF AllPaired

\* The outermost frame of a paired chain, and its history.
LEMMA OuterPaired ==
  ASSUME WellFormed(frames), AllPaired(frames)
  PROVE  /\ Outer(frames).delta.history \in Seq(Message) /\ Answered(Outer(frames).delta.history)
         /\ RunsTool => Answered(BaseStep.pending)
         /\ IsToolFailure(BaseStep) => Answered(BaseStep.error.pending)
         /\ History(frames) \in Seq(Message) /\ Answered(History(frames))
<1>1. Len(frames) \in 1 .. Len(frames) /\ frames \in Chain(Step) /\ Outer(frames).delta \in Delta
  BY WellFormedFrames
<1>2. PairedFrame(Outer(frames))
  BY <1>1 DEF AllPaired, Outer
<1>3. \A i \in 1 .. Len(frames) : Answered(frames[i].delta.history)
  BY DEF AllPaired, PairedFrame
<1>4. Answered(History(frames))
  BY <1>1, <1>3, AnsweredHistory
<1>5. History(frames) \in Seq(Message)
  BY <1>1, HistoryType
<1> QED
  BY <1>1, <1>2, <1>4, <1>5 DEF PairedFrame, RunsTool, BaseStep, Delta

\* What may be published keeps calls and results together.
LEMMA FollowsPaired ==
  ASSUME TailsAnswered, WellFormed(frames), AllPaired(frames),
         NEW step \in Step, NEW ms \in Seq(Message), Follows(step, ms)
  PROVE  /\ Answered(ms)
         /\ step.kind = "request_executor" => Answered(step.pending)
         /\ ~IsFailed(step)
<1>1. /\ BaseStep \in Step /\ FrameFits(frames, Len(frames)) /\ BaseStep = frames[Len(frames)].step
  BY WellFormedFrames DEF BaseStep, Outer
<1>2. \A s \in {TurnEnd, RequestCompact(FirstRate), RequestProvider, Compacted} :
         s.kind # "request_executor" /\ ~IsFailed(s)
  BY DEF TurnEnd, RequestCompact, RequestProvider, Compacted, IsFailed
<1>3. CASE step \in {TurnEnd, RequestCompact(FirstRate), RequestProvider} /\ ms = <<>>
  BY <1>2, <1>3, AnsweredSimple
<1>4. ASSUME NEW calls \in Batches, NEW tail \in RequestTails,
             step = RequestExecutor(tail, calls, <<>>), ms = <<>>
      PROVE  /\ Answered(ms) /\ ~IsFailed(step)
             /\ step.kind = "request_executor" => Answered(step.pending)
  BY <1>4, AnsweredSimple DEF TailsAnswered, RequestExecutor, IsFailed
<1>5. ASSUME NEW tail \in RequestTails, NEW reply \in {<<>>, <<AssistantMessage(<<>>)>>},
             step \in {RequestProvider, TurnEnd}, ms = tail \o reply
      PROVE  /\ Answered(ms) /\ ~IsFailed(step)
             /\ step.kind = "request_executor" => Answered(step.pending)
  <2>1. tail \in Seq(Message) /\ Answered(tail)
    BY InputAssumption DEF TailsAnswered
  <2>2. reply \in Seq(Message) /\ Answered(reply)
    <3>1. AssistantMessage(<<>>) \in Message
      BY MessageTypes, EmptySeq
    <3>2. CASE reply = <<>>
      BY <3>2, EmptySeq, AnsweredSimple
    <3>3. CASE reply = <<AssistantMessage(<<>>)>>
      <4>1. reply \in Seq(Message)
        BY <3>1, <3>3
      <4> QED
        BY <3>3, <4>1, AnsweredSimple
    <3> QED
      BY <3>2, <3>3
  <2>3. Answered(ms)
    BY <1>5, <2>1, <2>2, AnsweredConcat
  <2> QED
    BY <1>2, <1>5, <2>3
<1>6. CASE /\ RunsTool
           /\ Len(BaseStep.results) + 1 = Len(BaseStep.calls)
           /\ step = RequestProvider
           /\ ms = TurnMessages(BaseStep.pending, BaseStep.calls,
                      Append(BaseStep.results, BaseStep.calls[Len(BaseStep.results) + 1]))
  <2>1. /\ BaseStep.pending \in Seq(Message) /\ BaseStep.calls \in Seq(CallIds)
        /\ BaseStep.results \in Seq(CallIds) /\ ValidTurn(BaseStep)
    BY <1>1, <1>6, StepFields DEF RunsTool, FrameFits, ValidStep, ValidReactStep, IsFailed
  <2>2. \A i \in 1 .. Len(BaseStep.results) : BaseStep.results[i] = BaseStep.calls[i]
    BY <2>1 DEF ValidTurn, ResultsMatchCalls
  <2>3. ms = TurnMessages(BaseStep.pending, BaseStep.calls, BaseStep.calls)
    <3>1. Append(BaseStep.results, BaseStep.calls[Len(BaseStep.results) + 1])
             = SubSeq(BaseStep.calls, 1, Len(BaseStep.results) + 1)
      BY <2>1, <2>2, RanSoFar DEF ValidTurn
    <3>2. SubSeq(BaseStep.calls, 1, Len(BaseStep.results) + 1) = BaseStep.calls
      BY <1>6, <2>1, SubSeqFull
    <3> QED
      BY <1>6, <3>1, <3>2
  <2>4. Answered(BaseStep.pending)
    BY <1>6, OuterPaired
  <2> QED
    BY <1>2, <1>6, <2>1, <2>3, <2>4, AnsweredTurn
<1>7. CASE step = Compacted /\ ms = Compact(History(frames), BaseStep.rate)
  BY <1>2, <1>7, OuterPaired, AnsweredCompact
<1> QED
  BY <1>3, <1>4, <1>5, <1>6, <1>7 DEF Follows

\* What may take the place of a step adds calls together with their results.
LEMMA TakesOverPaired ==
  ASSUME WellFormed(frames), AllPaired(frames),
         NEW step \in Step, NEW delta \in Delta, NEW retries, TakesOver(step, delta, retries)
  PROVE  /\ delta.history \in Seq(Message) /\ Answered(delta.history)
         /\ step.kind = "request_executor" => Answered(step.pending)
         /\ ~IsFailed(step)
<1>1. /\ BaseStep \in Step /\ FrameFits(frames, Len(frames)) /\ BaseStep = frames[Len(frames)].step
      /\ delta.history \in Seq(Message)
  BY WellFormedFrames DEF BaseStep, Outer, Delta
<1>2. RequestProvider.kind = "request_provider" /\ ~IsFailed(RequestProvider)
  BY PlainSteps
<1>3. ASSUME delta.history = <<>> PROVE Answered(delta.history)
  BY <1>3, AnsweredSimple
<1>4. EmptyDelta.history = <<>>
  BY DEF EmptyDelta
<1>5. CASE /\ step = RequestProvider
           /\ \/ delta = RemoveIn(EmptyDelta, RetryKey)
              \/ delta = StoreIn(EmptyDelta, RetryKey, NextAttempt)
  <2>1. delta.history = <<>>
    BY <1>5 DEF RemoveIn, StoreIn, EmptyDelta
  <2> QED
    BY <1>1, <1>2, <1>3, <1>5, <2>1
<1>6. CASE step = RequestCompact(RecoveryRate) /\ delta = EmptyDelta
  BY <1>1, <1>3, <1>4, <1>6, SMTT(30) DEF RequestCompact, IsFailed
<1>7. CASE /\ AtFailure(ToolErrors)
           /\ LET turn == BaseStep.error
                  done == Len(turn.results)
              IN /\ done < Len(turn.calls)
                 /\ step = RequestProvider
                 /\ delta = Messages(TurnMessages(turn.pending, SubSeq(turn.calls, 1, done + 1),
                                         Append(turn.results, turn.calls[done + 1])))
  <2> DEFINE turn == BaseStep.error
             ran == SubSeq(turn.calls, 1, Len(turn.results) + 1)
  <2>1. IsFailed(BaseStep) /\ IsToolFailure(BaseStep) /\ turn.kind \in ToolErrors
    BY <1>7 DEF AtFailure, IsToolFailure
  <2>2. turn.pending \in Seq(Message) /\ turn.calls \in Seq(CallIds) /\ turn.results \in Seq(CallIds)
    BY <1>1, <2>1, StepFields, ErrorFields
  <2>3. \A i \in 1 .. Len(turn.results) : turn.results[i] = turn.calls[i]
    <3>1. ValidTurn(turn)
      BY <1>1, <2>1 DEF FrameFits, ValidStep
    <3> QED
      BY <2>2, <3>1 DEF ValidTurn, ResultsMatchCalls
  <2>4. Append(turn.results, turn.calls[Len(turn.results) + 1]) = ran
    BY <1>7, <2>2, <2>3, RanSoFar
  <2>5. ran \in Seq(CallIds)
    BY <1>7, <2>2, NextResult
  <2>6. Answered(turn.pending)
    BY <2>1, OuterPaired
  <2>7. Answered(TurnMessages(turn.pending, ran, ran))
    BY <2>2, <2>5, <2>6, AnsweredTurn
  <2>8. delta.history = TurnMessages(turn.pending, ran, ran)
    BY <1>7, <2>4 DEF Messages
  <2> QED
    BY <1>1, <1>2, <1>7, <2>7, <2>8
<1>8. CASE /\ RunsTool
           /\ step = RequestExecutor(BaseStep.pending, BaseStep.calls,
                        Append(BaseStep.results, BaseStep.calls[Len(BaseStep.results) + 1]))
           /\ delta = EmptyDelta
  BY <1>1, <1>3, <1>4, <1>8, OuterPaired DEF RequestExecutor, IsFailed
<1> QED
  BY <1>5, <1>6, <1>7, <1>8 DEF TakesOver

\* Every outcome of a step keeps each frame paired.
LEMMA OutcomesPaired ==
  ASSUME TailsAnswered, WellFormed(frames), AllPaired(frames),
         Publishes \/ Fails \/ Replaces \/ RollsBack \/ StaysFailed
  PROVE  AllPaired(frames')
<1>1. CASE Publishes
  <2>1. PICK step \in Step, ms \in Seq(Message), retries \in RetryBudgets :
           /\ Follows(step, ms)
           /\ frames' = Branch(frames, step, CarryRetry(step, Messages(ms), retries))
    BY <1>1 DEF Publishes
  <2> DEFINE carried == CarryRetry(step, Messages(ms), retries)
  <2>2. carried \in Delta /\ carried.history = ms
    BY EmptyDeltaType, CarriedRetry DEF Messages
  <2> HIDE DEF carried
  <2>3. PairedFrame([step |-> step, delta |-> carried])
    BY <2>1, <2>2, FollowsPaired DEF PairedFrame, IsToolFailure
  <2> QED
    BY <2>1, <2>2, <2>3, BranchPaired DEF carried
<1>2. CASE Fails
  <2>1. PICK error \in ErrorSet :
           /\ error.kind \in ToolErrors =>
                 RunsTool /\ BaseStep = RequestExecutor(error.pending, error.calls, error.results)
           /\ frames' = Branch(frames, Failed(error), EmptyDelta)
    BY <1>2 DEF Fails
  <2>2. Failed(error) \in Step /\ EmptyDelta \in Delta
    BY StepTypes, EmptyDeltaType
  <2>3. error.kind \in ToolErrors => Answered(error.pending)
    BY <2>1, OuterPaired DEF RequestExecutor
  <2>4. PairedFrame([step |-> Failed(error), delta |-> EmptyDelta])
    BY <2>3, AnsweredSimple DEF PairedFrame, Failed, EmptyDelta, IsToolFailure
  <2> QED
    BY <2>1, <2>2, <2>4, BranchPaired
<1>3. CASE Replaces
  <2> DEFINE base == Outer(frames).delta
  <2>1. PICK step \in Step, delta \in Delta, retries \in RetryBudgets :
           /\ TakesOver(step, delta, retries)
           /\ frames' = ReplaceOuter(frames, step, CarryRetry(step, Then(base, delta), retries))
    BY <1>3 DEF Replaces
  <2> DEFINE carried == CarryRetry(step, Then(base, delta), retries)
  <2>2. base \in Delta /\ base.history \in Seq(Message) /\ Answered(base.history)
    BY WellFormedFrames, OuterPaired
  <2>3. /\ delta.history \in Seq(Message) /\ Answered(delta.history)
        /\ step.kind = "request_executor" => Answered(step.pending)
        /\ ~IsFailed(step)
    BY <2>1, TakesOverPaired
  <2>4. Then(base, delta) \in Delta /\ Then(base, delta).history = base.history \o delta.history
    <3> HIDE DEF base
    <3>1. Then(base, delta) \in Delta
      BY <2>2, NoMessages, DeltaTypes
    <3> QED
      BY <3>1 DEF Then
  <2>5. carried \in Delta /\ carried.history = base.history \o delta.history
    BY <2>4, CarriedRetry
  <2> HIDE DEF carried
  <2>6. Answered(carried.history)
    BY <2>2, <2>3, <2>5, AnsweredConcat
  <2>7. PairedFrame([step |-> step, delta |-> carried])
    BY <2>3, <2>6 DEF PairedFrame, IsToolFailure
  <2> QED
    BY <2>1, <2>5, <2>7, ReplacePaired DEF carried
<1>4. CASE RollsBack
  <2>1. Len(frames) \in Nat /\ Len(frames) > 1 /\ frames' = SubSeq(frames, 1, Len(frames) - 1)
    BY <1>4, WellFormedFrames DEF RollsBack, HasParent, DropOuter, Front
  <2>2. Len(frames) - 1 \in 1 .. Len(frames)
    BY <2>1
  <2> QED
    BY <2>1, <2>2, PrefixPaired
<1>5. CASE StaysFailed
  BY <1>5 DEF StaysFailed
<1> QED
  BY <1>1, <1>2, <1>3, <1>4, <1>5

\* A new session is paired.
LEMMA InitPaired == Init => AllPaired(frames)
<1> SUFFICES ASSUME Init PROVE AllPaired(frames)
  OBVIOUS
<1>1. Len(frames) = 1 /\ frames[1] = [step |-> RequestProvider, delta |-> Messages(<<SystemMessage>>)]
  BY DEF Init, Branch
<1>2. PairedFrame(frames[1])
  BY <1>1, AnsweredSimple DEF PairedFrame, Messages, RequestProvider, IsToolFailure, IsFailed
<1>3. \A i \in 1 .. 1 : i = 1
  OBVIOUS
<1> QED
  BY <1>1, <1>2, <1>3 DEF AllPaired

\* Whatever a run is made of, provider turns, batches cut short by a failure,
\* rollbacks and compactions at any rate, its history answers every call.
THEOREM CallsStayAnswered ==
  ASSUME TailsAnswered
  PROVE  Spec => []CallsAreAnswered
<1> DEFINE IInv == WellFormed(frames) /\ AllPaired(frames)
<1>1. Init => IInv
  BY InitWellFormed, InitPaired
<1>2. IInv /\ [AgentStep]_frames => IInv'
  <2>1. ASSUME IInv, AgentStep PROVE IInv'
    BY <2>1, AgentOutcomes, OutcomesKeep, OutcomesPaired
  <2> QED
    BY <2>1
<1>3. IInv => CallsAreAnswered
  BY OuterPaired DEF CallsAreAnswered, Answered
<1> QED
  BY <1>1, <1>2, <1>3, PTL DEF Spec
===============================================================================
