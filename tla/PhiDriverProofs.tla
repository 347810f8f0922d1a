----------------------------- MODULE PhiDriverProofs ----------------------------
(***************************************************************************)
(* Proofs about PhiSession and PhiDriver.  The session commands keep the   *)
(* chain well formed too; the chain of deltas implements the stack of      *)
(* complete states for the evaluator alone and for both together; what a   *)
(* command writes is what is read; every history keeps calls and results   *)
(* together.  What the command-line driver makes of both, and that the     *)
(* file it leaves behind moves as a session does.                          *)
(***************************************************************************)
EXTENDS PhiDriver, PhiAgentProofs

-------------------------------------------------------------------------------
(* Session commands *)

\* What is given with --user and --assistant makes no calls and answers none.
LEMMA InputsArePlain ==
  ASSUME NEW input \in Inputs
  PROVE  input \in Seq(Message) /\ Answered(input)
<1> DEFINE Plain == {UserMessage, AssistantMessage(<<>>)}
<1>1. Plain \subseteq Message
  BY MessageTypes, EmptySeq
<1>2. \A m \in Plain : m.calls = <<>> /\ m.role # "tool"
  BY DEF UserMessage, AssistantMessage
<1>3. input \in Seq(Plain)
  BY SessionAssumption
<1> HIDE DEF Plain
<1>4. input \in Seq(Message) /\ \A i \in 1 .. Len(input) : input[i] \in Plain
  BY <1>1, <1>3
<1>5. \A i \in 1 .. Len(input) : input[i].calls = <<>> /\ input[i].role # "tool"
  BY <1>2, <1>4
<1> QED
  BY <1>4, <1>5, AnsweredPlain

\* What saving checks of the outermost frame it is asked to write.
LEMMA ReplacementChecked ==
  ASSUME WellFormed(frames), NEW step \in Step, NEW delta \in Delta,
         IsFailed(step) => step = BaseStep,
         Transform(ReplaceOuter(frames, step, delta))
  PROVE  WellFormed(frames')
<1> DEFINE n == Len(frames)
           new == [step |-> step, delta |-> delta]
           next == [frames EXCEPT ![n] = new]
<1>1. n \in Nat /\ n > 0 /\ n \in 1 .. n /\ frames \in Seq(Frame) /\ new \in Frame
  BY WellFormedFrames DEF WellFormed, Frame
<1>2. frames' = next /\ ValidFrames(next) /\ next = ReplaceOuter(frames, step, delta)
  BY DEF Transform, ReplaceOuter
<1>3. n \in DOMAIN next /\ next[n].step = step
  BY <1>1
<1> HIDE DEF next
<1>4. ValidStep(step) /\ (step.kind = "compacted" => n > 1)
  BY <1>2, <1>3 DEF ValidFrames
<1> QED
  BY <1>2, <1>4, ReplaceKeeps DEF HasParent, BaseStep

\* A frame pushed after the same check.
LEMMA BranchChecked ==
  ASSUME WellFormed(frames), NEW step \in Step, NEW delta \in Delta, ~IsFailed(step),
         ValidStep(step), frames' = Branch(frames, step, delta)
  PROVE  WellFormed(frames')
  BY BranchKeeps DEF IsToolFailure

\* Rolling back to a kind keeps the frames up to the last of that kind.
LEMMA PrefixOfKind ==
  ASSUME WellFormed(frames), RollbackTo
  PROVE  \E n \in 1 .. Len(frames) : frames' = SubSeq(frames, 1, n)
<1>1. Len(frames) \in Nat
  BY WellFormedFrames
<1>2. PICK kind \in StepKinds :
         LET found == {i \in 1 .. Len(frames) : frames[i].step.kind = kind}
         IN found # {} /\ frames' = SubSeq(frames, 1, Max(found))
  BY DEF RollbackTo, Transform
<1> DEFINE found == {i \in 1 .. Len(frames) : frames[i].step.kind = kind}
<1>3. found # {} /\ found \in SUBSET (0 .. Len(frames)) /\ frames' = SubSeq(frames, 1, Max(found))
  BY <1>1, <1>2
<1>4. \A i \in found : i \in 1 .. Len(frames)
  OBVIOUS
<1> HIDE DEF found
<1>5. Max(found) \in 1 .. Len(frames)
  BY <1>1, <1>3, <1>4, MaxOf
<1> QED
  BY <1>3, <1>5

\* Every session subcommand leaves a chain well formed, or saves nothing.
LEMMA CommandsKeep ==
  ASSUME WellFormed(frames), SessionCommand
  PROVE  WellFormed(frames')
<1>1. /\ BaseStep \in Step /\ Outer(frames).delta \in Delta
      /\ Len(frames) \in Nat /\ Len(frames) > 0
  BY WellFormedFrames DEF BaseStep
<1>2. RequestProvider \in Step /\ ~IsFailed(RequestProvider) /\ ValidStep(RequestProvider)
  BY PlainSteps DEF ValidStep
<1>3. CASE AppendMessages
  <2>1. PICK input \in Inputs :
           Transform(ReplaceOuter(frames, BaseStep, Then(Outer(frames).delta, Messages(input))))
    BY <1>3 DEF AppendMessages
  <2>2. input \in Seq(Message)
    BY InputsArePlain
  <2>3. Then(Outer(frames).delta, Messages(input)) \in Delta
    BY <1>1, <2>2, DeltaTypes
  <2> QED
    BY <1>1, <2>1, <2>3, ReplacementChecked
<1>4. ASSUME NEW key \in UserKeys, NEW value \in UserValues, StoreJson(key, value)
      PROVE  WellFormed(frames')
  <2>1. StoreIn(Outer(frames).delta, key, value) \in Delta
    BY <1>1, SessionAssumption, EmptySeq, DeltaTypes
  <2> QED
    BY <1>1, <1>4, <2>1, ReplacementChecked DEF StoreJson
<1>5. ASSUME NEW key \in UserKeys, RemoveKey(key) PROVE WellFormed(frames')
  <2>1. RemoveIn(Outer(frames).delta, key) \in Delta
    BY <1>1, SessionAssumption, EmptySeq, DeltaTypes
  <2> QED
    BY <1>1, <1>5, <2>1, ReplacementChecked DEF RemoveKey
<1>6. CASE NextProvider
  BY <1>2, <1>6, EmptyDeltaType, BranchChecked DEF NextProvider, Transform
<1>7. CASE ReplaceProvider
  BY <1>1, <1>2, <1>7, ReplacementChecked DEF ReplaceProvider
<1>8. CASE InsertToolResult
  <2> DEFINE turn == BaseStep
             ran == Append(turn.results, turn.calls[Len(turn.results) + 1])
             delta == Messages(TurnMessages(turn.pending, turn.calls, ran))
             step == RequestExecutor(turn.pending, turn.calls, ran)
  <2>1. BaseStep.kind = "request_executor" /\ Len(turn.results) < Len(turn.calls)
    BY <1>8 DEF InsertToolResult
  <2>2. turn.pending \in Seq(Message) /\ turn.calls \in Seq(CallIds) /\ turn.results \in Seq(CallIds)
    BY <1>1, <2>1, StepFields
  <2>3. ran \in Seq(CallIds)
    BY <2>1, <2>2, NextResult
  <2>4. delta \in Delta /\ step \in Step /\ ~IsFailed(step)
    BY <2>2, <2>3, TurnTypes, EmptyDeltaType DEF RequestExecutor, IsFailed
  <2>5. \/ frames' = Branch(frames, RequestProvider, delta)
        \/ Transform(ReplaceOuter(frames, step, Outer(frames).delta))
    BY <1>8 DEF InsertToolResult, Transform
  <2> HIDE DEF delta, step
  <2> QED
    BY <1>1, <1>2, <2>4, <2>5, BranchChecked, ReplacementChecked
<1>9. CASE Rollback
  BY <1>9, DropKeeps DEF Rollback, Transform
<1>10. CASE RollbackTo
  BY <1>10, PrefixOfKind, PrefixKeeps
<1> QED
  BY <1>3, <1>4, <1>5, <1>6, <1>7, <1>8, <1>9, <1>10 DEF SessionCommand

\* Evaluation and session commands together keep every frame typed, accepted by
\* a checkpoint, and every tool failure on the turn it interrupted.
THEOREM SessionChainsAreWellFormed ==
  SessionSpec => [](TypeOK /\ CheckpointsAreValid /\ FailedTurnIsRestorable)
<1>1. Init => WellFormed(frames)
  BY InitWellFormed
<1>2. WellFormed(frames) /\ [SessionNext]_frames => WellFormed(frames)'
  BY AgentOutcomes, OutcomesKeep, CommandsKeep DEF SessionNext
<1> QED
  BY <1>1, <1>2, WellFormedProperties, PTL DEF SessionSpec

-------------------------------------------------------------------------------
(* The states a chain stands for *)

Snapshot == [history : Seq(Message), env : [Keys -> Effect], compacted : BOOLEAN]

StackOf(fs) == [i \in 1 .. Len(fs) |-> SnapshotOf(SubSeq(fs, 1, i))]

\* Every chain stands for a state.
LEMMA SnapshotType ==
  ASSUME NEW chain \in Chain(Step)
  PROVE  SnapshotOf(chain) \in Snapshot
<1>1. History(chain) \in Seq(Message)
  BY HistoryType
<1>2. [key \in Keys |-> Lookup(chain, key)] \in [Keys -> Effect]
  BY LookupType
<1> QED
  BY <1>1, <1>2 DEF SnapshotOf, Snapshot, IsHistoryBarrier

\* The stack has one state per frame; the last is that of the whole chain.
LEMMA StackType ==
  ASSUME NEW fs \in Chain(Step), fs # <<>>
  PROVE  /\ StackOf(fs) \in Seq(Snapshot) /\ Len(StackOf(fs)) = Len(fs)
         /\ StackOf(fs)[Len(fs)] = SnapshotOf(fs)
         /\ \A i \in 1 .. Len(fs) : StackOf(fs)[i] = SnapshotOf(SubSeq(fs, 1, i))
<1>1. fs \in Seq([step : Step, delta : Delta]) /\ Len(fs) \in Nat /\ Len(fs) > 0
  BY DEF Chain
<1>2. ASSUME NEW i \in 1 .. Len(fs) PROVE SnapshotOf(SubSeq(fs, 1, i)) \in Snapshot
  <2>1. i \in 0 .. Len(fs)
    BY <1>1
  <2>2. SubSeq(fs, 1, i) \in Chain(Step)
    BY <1>1, <2>1, PrefixOf DEF Chain
  <2> QED
    BY <2>2, SnapshotType
<1>3. StackOf(fs) \in Seq(Snapshot) /\ Len(StackOf(fs)) = Len(fs)
  BY <1>1, <1>2 DEF StackOf
<1>4. \A i \in 1 .. Len(fs) : StackOf(fs)[i] = SnapshotOf(SubSeq(fs, 1, i))
  BY DEF StackOf
<1>5. StackOf(fs)[Len(fs)] = SnapshotOf(fs)
  <2>1. SubSeq(fs, 1, Len(fs)) = fs
    BY <1>1, SubSeqFull
  <2>2. Len(fs) \in 1 .. Len(fs)
    BY <1>1
  <2> QED
    BY <1>4, <2>1, <2>2
<1> QED
  BY <1>3, <1>4, <1>5

\* The states of a chain cut off are the states below.
LEMMA StackOfPrefix ==
  ASSUME NEW fs \in Chain(Step), fs # <<>>, NEW n \in 0 .. Len(fs)
  PROVE  SubSeq(StackOf(fs), 1, n) = StackOf(SubSeq(fs, 1, n))
<1> DEFINE low == SubSeq(fs, 1, n)
           stack == StackOf(fs)
           lower == StackOf(low)
<1>1. n \in Nat /\ Len(fs) \in Nat /\ fs \in Seq([step : Step, delta : Delta])
  BY DEF Chain
<1>2. /\ stack \in Seq(Snapshot) /\ Len(stack) = Len(fs)
      /\ \A i \in 1 .. Len(fs) : stack[i] = SnapshotOf(SubSeq(fs, 1, i))
  BY StackType
<1>3. low \in Chain(Step) /\ Len(low) = n
      /\ \A i \in 0 .. n : SubSeq(low, 1, i) = SubSeq(fs, 1, i)
  BY <1>1, PrefixOf, PrefixesOfPrefix DEF Chain
<1>4. /\ lower \in Seq(Snapshot) /\ Len(lower) = n
      /\ \A i \in 1 .. n : lower[i] = SnapshotOf(SubSeq(low, 1, i))
  <2> HIDE DEF low
  <2>1. CASE low = <<>>
    <3>1. n = 0
      BY <1>3, <2>1
    <3>2. lower = <<>>
      BY <2>1 DEF StackOf
    <3>3. \A i \in 1 .. 0 : FALSE
      OBVIOUS
    <3> HIDE DEF lower
    <3> QED
      BY <3>1, <3>2, <3>3, EmptySeq
  <2>2. CASE low # <<>>
    BY <1>3, <2>2, StackType
  <2> QED
    BY <2>1, <2>2
<1> HIDE DEF stack, lower, low
<1>5. /\ SubSeq(stack, 1, n) \in Seq(Snapshot) /\ Len(SubSeq(stack, 1, n)) = n
      /\ \A i \in 1 .. n : SubSeq(stack, 1, n)[i] = stack[i]
  BY <1>1, <1>2, PrefixOf
<1>6. ASSUME NEW i \in 1 .. n PROVE SubSeq(stack, 1, n)[i] = lower[i]
  <2>1. i \in 1 .. Len(fs) /\ i \in 0 .. n
    BY <1>1
  <2>2. SubSeq(stack, 1, n)[i] = stack[i] /\ stack[i] = SnapshotOf(SubSeq(fs, 1, i))
    BY <1>2, <1>5, <2>1
  <2>3. lower[i] = SnapshotOf(SubSeq(low, 1, i)) /\ SubSeq(low, 1, i) = SubSeq(fs, 1, i)
    BY <1>3, <1>4, <2>1
  <2> QED
    BY <2>2, <2>3
<1>7. SubSeq(stack, 1, n) = lower
  BY <1>4, <1>5, <1>6, SeqEqual
<1> QED
  BY <1>7 DEF stack, lower, low

\* Without the outermost frame, the stack is without its last state.
LEMMA StackOfFront ==
  ASSUME NEW fs \in Chain(Step), fs # <<>>
  PROVE  Front(StackOf(fs)) = StackOf(Front(fs))
<1>1. Len(StackOf(fs)) = Len(fs) /\ Len(fs) \in Nat /\ Len(fs) > 0
  <2>1. Len(StackOf(fs)) = Len(fs)
    BY StackType
  <2> QED
    BY <2>1 DEF Chain
<1>2. Len(fs) - 1 \in 0 .. Len(fs)
  BY <1>1
<1> QED
  BY <1>1, <1>2, StackOfPrefix DEF Front

\* A new outermost frame puts one state on top of the stack.
LEMMA StackOfBranch ==
  ASSUME NEW fs \in Chain(Step), fs # <<>>, NEW step \in Step, NEW delta \in Delta
  PROVE  LET next == Branch(fs, step, delta) IN
         /\ Len(StackOf(next)) = Len(StackOf(fs)) + 1
         /\ Front(StackOf(next)) = StackOf(fs)
         /\ Last(StackOf(next)) = SnapshotOf(next)
         /\ Last(StackOf(fs)) = SnapshotOf(fs)
<1> DEFINE next == Branch(fs, step, delta)
<1>1. next \in Chain(Step) /\ next # <<>> /\ Len(next) = Len(fs) + 1 /\ Front(next) = fs
  BY PrefixesOfBranch, ZenonT(40)
<1> HIDE DEF next
<1>2. /\ Len(StackOf(next)) = Len(next) /\ StackOf(next)[Len(next)] = SnapshotOf(next)
      /\ Len(StackOf(fs)) = Len(fs) /\ StackOf(fs)[Len(fs)] = SnapshotOf(fs)
  BY <1>1, StackType
<1>3. Front(StackOf(next)) = StackOf(fs)
  BY <1>1, StackOfFront
<1> QED
  BY <1>1, <1>2, <1>3 DEF next, Last

\* Another outermost frame changes the state on top of the stack.
LEMMA StackOfReplace ==
  ASSUME NEW fs \in Chain(Step), fs # <<>>, NEW step \in Step, NEW delta \in Delta
  PROVE  LET next == ReplaceOuter(fs, step, delta) IN
         /\ Len(StackOf(next)) = Len(StackOf(fs))
         /\ Front(StackOf(next)) = Front(StackOf(fs))
         /\ Last(StackOf(next)) = SnapshotOf(next)
         /\ Last(StackOf(fs)) = SnapshotOf(fs)
<1> DEFINE next == ReplaceOuter(fs, step, delta)
<1>1. next \in Chain(Step) /\ next # <<>> /\ Len(next) = Len(fs) /\ Front(next) = Front(fs)
  BY PrefixesOfReplace, ZenonT(40)
<1> HIDE DEF next
<1>2. /\ Len(StackOf(next)) = Len(next) /\ StackOf(next)[Len(next)] = SnapshotOf(next)
      /\ Len(StackOf(fs)) = Len(fs) /\ StackOf(fs)[Len(fs)] = SnapshotOf(fs)
  BY <1>1, StackType
<1>3. Front(StackOf(next)) = StackOf(Front(next)) /\ Front(StackOf(fs)) = StackOf(Front(fs))
  BY <1>1, StackOfFront
<1> QED
  BY <1>1, <1>2, <1>3 DEF next, Last

-------------------------------------------------------------------------------
(* What a new outermost frame changes *)

\* A sequence is a prefix of itself and of what it is continued by.
LEMMA ContinuedPrefix ==
  ASSUME NEW S, NEW s \in Seq(S), NEW t \in Seq(S)
  PROVE  IsPrefix(s, s \o t) /\ IsPrefix(s, s)
<1>1. IsPrefix(s, s)
  BY DEF IsPrefix
<1>2. /\ s \o t \in Seq(S) /\ Len(s \o t) = Len(s) + Len(t)
      /\ \A i \in 1 .. Len(s) + Len(t) : (s \o t)[i] = IF i <= Len(s) THEN s[i] ELSE t[i - Len(s)]
  BY ConcatProperties
<1> DEFINE all == s \o t
           low == SubSeq(all, 1, Len(s))
<1>3. Len(s) \in 0 .. Len(all) /\ Len(s) \in Nat /\ Len(t) \in Nat
  BY <1>2
<1> HIDE DEF all
<1>4. low \in Seq(S) /\ Len(low) = Len(s) /\ \A i \in 1 .. Len(s) : low[i] = all[i]
  BY <1>2, <1>3, PrefixOf DEF all
<1>5. \A i \in 1 .. Len(s) : low[i] = s[i]
  BY <1>2, <1>3, <1>4 DEF all
<1> HIDE DEF low
<1>6. low = s
  BY <1>4, <1>5, SeqEqual
<1>7. SubSeq(s, 1, Len(s)) = s
  BY SubSeqFull
<1>8. IsPrefix(s, all)
  BY <1>3, <1>6, <1>7 DEF IsPrefix, low
<1> QED
  BY <1>1, <1>8 DEF all

\* The state above a chain: its messages follow, its effects take precedence.
LEMMA SnapshotOfBranch ==
  ASSUME NEW fs \in Chain(Step), fs # <<>>, NEW step \in Step, NEW delta \in Delta
  PROVE  LET next == Branch(fs, step, delta) IN
         /\ SnapshotOf(next).history =
               (IF IsHistoryBarrier(step) THEN <<>> ELSE History(fs)) \o delta.history
         /\ SnapshotOf(next).compacted = IsHistoryBarrier(step)
         /\ \A key \in Keys :
               SnapshotOf(next).env[key] = IF Affects(delta, key) THEN Visible(delta.effects[key])
                                                                  ELSE Lookup(fs, key)
<1> DEFINE next == Branch(fs, step, delta)
<1>1. /\ next \in Chain(Step) /\ next # <<>> /\ Len(next) = Len(fs) + 1
      /\ next[Len(fs) + 1] = [step |-> step, delta |-> delta]
      /\ Front(next) = fs
  BY PrefixesOfBranch
<1> HIDE DEF next
<1>2. Outer(next).step = step /\ Outer(next).delta = delta
  BY <1>1 DEF Outer
<1>3. History(next) = (IF IsHistoryBarrier(step) THEN <<>> ELSE History(fs)) \o delta.history
  BY <1>1, <1>2, HistoryAbove
<1>4. \A key \in Keys : Lookup(next, key) = IF Affects(delta, key)
                                            THEN Visible(delta.effects[key]) ELSE Lookup(fs, key)
  BY <1>1, <1>2, LookupAbove
<1> QED
  BY <1>2, <1>3, <1>4 DEF SnapshotOf, next

-------------------------------------------------------------------------------
(* What each outcome does to the stack *)

\* Carrying the retry counter over repeats what is visible already.
LEMMA CarriedShowsNothing ==
  ASSUME WellFormed(frames), NEW step, NEW ms \in Seq(Message), NEW retries, NEW key \in Keys
  PROVE  LET carried == CarryRetry(step, Messages(ms), retries) IN
         Affects(carried, key) => Visible(carried.effects[key]) = Lookup(frames, key)
<1> DEFINE carried == CarryRetry(step, Messages(ms), retries)
           value == RetryState
<1>1. value \in Effect \ {Removed} /\ value = Lookup(frames, RetryKey) /\ RetryKey \in Keys
  BY RetryAssumption, WellFormedFrames, LookupType DEF RetryState
<1>2. Messages(ms).effects = NoEffects /\ NoEffects[key] = Missing
  BY DEF Messages, NoEffects
<1> SUFFICES ASSUME Affects(carried, key)
             PROVE  Visible(carried.effects[key]) = Lookup(frames, key)
  OBVIOUS
<1>3. carried = [Messages(ms) EXCEPT !.effects[RetryKey] = value]
  <2>1. carried # Messages(ms)
    BY <1>2 DEF Affects
  <2> QED
    BY <2>1 DEF CarryRetry
<1> HIDE DEF value, carried
<1>4. carried.effects = [NoEffects EXCEPT ![RetryKey] = value]
  BY <1>3 DEF Messages
<1>5. key = RetryKey /\ carried.effects[key] = value
  BY <1>1, <1>2, <1>4 DEF Affects, NoEffects
<1> QED
  BY <1>1, <1>5 DEF Visible

\* The promise is about the stack of the frames.
LEMMA StackOfFrames ==
  /\ SnapshotStack = StackOf(frames) /\ SnapshotStack' = StackOf(frames')
  /\ \A s : Stack!Last(s) = Last(s) /\ Stack!Front(s) = Front(s)
  /\ \A s, t : Stack!IsPrefix(s, t) = IsPrefix(s, t)
<1>1. SnapshotStack = StackOf(frames) /\ SnapshotStack' = StackOf(frames')
  BY DEF SnapshotStack, StackOf
<1>2. \A s : Stack!Last(s) = Last(s) /\ Stack!Front(s) = Front(s)
  BY DEF Stack!Last, Stack!Front, Last, Front
<1>3. \A s, t : Stack!IsPrefix(s, t) = IsPrefix(s, t)
  BY DEF Stack!IsPrefix, IsPrefix
<1> QED
  BY <1>1, <1>2, <1>3

\* A step that is published shows the environment of the step below it.
LEMMA PublishedEnv ==
  ASSUME WellFormed(frames), NEW step \in Step, NEW ms \in Seq(Message), NEW retries
  PROVE  SnapshotOf(Branch(frames, step, CarryRetry(step, Messages(ms), retries))).env
            = SnapshotOf(frames).env
<1> DEFINE carried == CarryRetry(step, Messages(ms), retries)
           next == Branch(frames, step, carried)
<1>1. carried \in Delta
  BY EmptyDeltaType, CarryRetryType
<1>2. frames \in Chain(Step) /\ frames # <<>>
  BY WellFormedFrames DEF WellFormed
<1>3. \A key \in Keys : Affects(carried, key) => Visible(carried.effects[key]) = Lookup(frames, key)
  BY CarriedShowsNothing
<1> HIDE DEF carried
<1>4. \A key \in Keys :
         SnapshotOf(next).env[key] = IF Affects(carried, key) THEN Visible(carried.effects[key])
                                                              ELSE Lookup(frames, key)
  BY <1>1, <1>2, SnapshotOfBranch
<1>5. /\ SnapshotOf(next).env = [key \in Keys |-> Lookup(next, key)]
      /\ SnapshotOf(frames).env = [key \in Keys |-> Lookup(frames, key)]
  BY DEF SnapshotOf
<1>6. \A key \in Keys : Lookup(next, key) = Lookup(frames, key)
  BY <1>3, <1>4, <1>5
<1> QED
  BY <1>5, <1>6 DEF carried

\* Publishing puts a state on top that continues or condenses the current one.
LEMMA PublishedState ==
  ASSUME WellFormed(frames), Publishes
  PROVE  Stack!Publish \/ Stack!Condense
<1>1. PICK step \in Step, ms \in Seq(Message), retries \in RetryBudgets :
         /\ Follows(step, ms)
         /\ frames' = Branch(frames, step, CarryRetry(step, Messages(ms), retries))
  BY DEF Publishes
<1> DEFINE carried == CarryRetry(step, Messages(ms), retries)
<1>2. Messages(ms) \in Delta /\ Messages(ms).history = ms
  BY EmptyDeltaType DEF Messages
<1>3. carried \in Delta /\ carried.history = ms
  BY <1>2, CarriedRetry
<1>4. frames \in Chain(Step) /\ frames # <<>>
  BY WellFormedFrames DEF WellFormed
<1>5. SnapshotOf(frames').env = SnapshotOf(frames).env
  BY <1>1, PublishedEnv
<1> HIDE DEF carried
<1>6. frames' = Branch(frames, step, carried)
  BY <1>1 DEF carried
<1>7. /\ SnapshotOf(frames').history =
            (IF IsHistoryBarrier(step) THEN <<>> ELSE History(frames)) \o ms
      /\ SnapshotOf(frames').compacted = IsHistoryBarrier(step)
  BY <1>3, <1>4, <1>6, SnapshotOfBranch
<1>8. /\ Len(StackOf(frames')) = Len(StackOf(frames)) + 1
      /\ Front(StackOf(frames')) = StackOf(frames)
      /\ Last(StackOf(frames')) = SnapshotOf(frames')
      /\ Last(StackOf(frames)) = SnapshotOf(frames)
  BY <1>3, <1>4, <1>6, StackOfBranch
<1>9. History(frames) \in Seq(Message) /\ SnapshotOf(frames).history = History(frames)
  BY <1>4, HistoryType DEF SnapshotOf
<1>10. CASE ~IsHistoryBarrier(step)
  <2>1. IsPrefix(SnapshotOf(frames).history, SnapshotOf(frames').history)
    BY <1>7, <1>9, <1>10, ContinuedPrefix
  <2> QED
    BY <1>5, <1>7, <1>8, <1>10, <2>1, StackOfFrames
       DEF Stack!Publish, Stack!Continues, Stack!Top
<1>11. CASE IsHistoryBarrier(step)
  <2>1. ms = Compact(History(frames), BaseStep.rate)
    BY <1>1, <1>11
       DEF Follows, IsHistoryBarrier, TurnEnd, RequestCompact, RequestExecutor, RequestProvider
  <2>2. Len(ms) <= Len(History(frames))
    BY <1>9, <2>1, CompactType
  <2>3. SnapshotOf(frames').history = ms
    BY <1>7, <1>11
  <2> QED
    BY <1>5, <1>7, <1>8, <1>9, <1>11, <2>2, <2>3, StackOfFrames
       DEF Stack!Condense, Stack!Top
<1> QED
  BY <1>10, <1>11

\* A new step without effects is a state on top that adds its messages.
LEMMA PushedState ==
  ASSUME WellFormed(frames), NEW step \in Step, NEW ms \in Seq(Message),
         ~IsHistoryBarrier(step), frames' = Branch(frames, step, Messages(ms))
  PROVE  Stack!Publish
<1> DEFINE delta == Messages(ms)
<1>1. IsHistoryBarrier(step) = FALSE
  BY DEF IsHistoryBarrier
<1>2. delta \in Delta /\ delta.history = ms /\ \A key \in Keys : ~Affects(delta, key)
  BY EmptyDeltaType DEF Messages, NoEffects, Affects
<1>3. frames \in Chain(Step) /\ frames # <<>>
  BY WellFormedFrames DEF WellFormed
<1> HIDE DEF delta
<1>4. frames' = Branch(frames, step, delta)
  BY DEF delta
<1>5. /\ SnapshotOf(frames').history = History(frames) \o ms
      /\ ~SnapshotOf(frames').compacted
      /\ \A key \in Keys : SnapshotOf(frames').env[key] = Lookup(frames, key)
  <2> DEFINE next == Branch(frames, step, delta)
  <2>1. /\ SnapshotOf(next).history =
               (IF IsHistoryBarrier(step) THEN <<>> ELSE History(frames)) \o delta.history
        /\ SnapshotOf(next).compacted = IsHistoryBarrier(step)
        /\ \A key \in Keys :
               SnapshotOf(next).env[key] = IF Affects(delta, key) THEN Visible(delta.effects[key])
                                                                  ELSE Lookup(frames, key)
    BY <1>2, <1>3, SnapshotOfBranch
  <2> QED
    BY <1>1, <1>2, <1>4, <2>1
<1>6. /\ Len(StackOf(frames')) = Len(StackOf(frames)) + 1
      /\ Front(StackOf(frames')) = StackOf(frames)
      /\ Last(StackOf(frames')) = SnapshotOf(frames')
      /\ Last(StackOf(frames)) = SnapshotOf(frames)
  BY <1>2, <1>3, <1>4, StackOfBranch
<1>7. History(frames) \in Seq(Message) /\ SnapshotOf(frames).history = History(frames)
  BY <1>3, HistoryType DEF SnapshotOf
<1>8. IsPrefix(SnapshotOf(frames).history, SnapshotOf(frames').history)
  BY <1>5, <1>7, ContinuedPrefix
<1>9. SnapshotOf(frames').env = SnapshotOf(frames).env
  BY <1>5 DEF SnapshotOf
<1> QED
  BY <1>5, <1>6, <1>8, <1>9, StackOfFrames DEF Stack!Publish, Stack!Continues, Stack!Top

\* A failure is a state on top that says nothing new.
LEMMA FailedState ==
  ASSUME WellFormed(frames), Fails
  PROVE  Stack!Publish
<1>1. PICK error \in ErrorSet : frames' = Branch(frames, Failed(error), EmptyDelta)
  BY DEF Fails
<1>2. Failed(error) \in Step /\ ~IsHistoryBarrier(Failed(error))
  BY StepTypes DEF Failed, IsHistoryBarrier
<1> QED
  BY <1>1, <1>2, NoMessages, PushedState

\* A step that takes the place of another and adds to its messages goes on with
\* its state.
LEMMA ContinuedState ==
  ASSUME WellFormed(frames), NEW step \in Step, NEW delta \in Delta, NEW ms \in Seq(Message),
         delta.history = Outer(frames).delta.history \o ms,
         IsHistoryBarrier(step) = IsHistoryBarrier(BaseStep),
         frames' = ReplaceOuter(frames, step, delta)
  PROVE  IF IsHistoryBarrier(BaseStep) THEN Stack!Amend ELSE Stack!Continue
<1> DEFINE was == Outer(frames).delta.history
           low == IF IsHistoryBarrier(BaseStep) THEN <<>> ELSE History(Front(frames))
<1>1. frames \in Chain(Step) /\ frames # <<>> /\ was \in Seq(Message)
  BY WellFormedFrames DEF WellFormed, Delta
<1>2. /\ frames' \in Chain(Step) /\ frames' # <<>> /\ Len(frames') = Len(frames)
      /\ frames'[Len(frames)] = [step |-> step, delta |-> delta]
      /\ Front(frames') = Front(frames)
  BY <1>1, PrefixesOfReplace
<1>3. Outer(frames').step = step /\ Outer(frames').delta = delta
  BY <1>2 DEF Outer
<1>4. low \in Seq(Message)
  <2>1. Front(frames) \in Chain(Step)
    BY <1>1, HistoryAbove
  <2>2. History(Front(frames)) \in Seq(Message)
    BY <2>1, HistoryType
  <2> QED
    BY <2>2, EmptySeq
<1>5. History(frames) = low \o was
  <2>1. History(frames) = (IF IsHistoryBarrier(Outer(frames).step) THEN <<>>
                           ELSE History(Front(frames))) \o Outer(frames).delta.history
    BY <1>1, HistoryAbove
  <2> QED
    BY <2>1 DEF BaseStep
<1>6. History(frames') = low \o (was \o ms)
  <2>1. History(frames') = (IF IsHistoryBarrier(Outer(frames').step) THEN <<>>
                            ELSE History(Front(frames'))) \o Outer(frames').delta.history
    BY <1>2, HistoryAbove
  <2> QED
    BY <1>2, <1>3, <2>1
<1> HIDE DEF low, was
<1>7. History(frames') = History(frames) \o ms
  <2>1. (low \o was) \o ms = low \o (was \o ms)
    BY <1>1, <1>4, ConcatAssociative
  <2> QED
    BY <1>5, <1>6, <2>1
<1>8. History(frames) \in Seq(Message)
  BY <1>1, HistoryType
<1>9. IsPrefix(History(frames), History(frames'))
  BY <1>7, <1>8, ContinuedPrefix
<1>10. /\ SnapshotOf(frames).history = History(frames)
       /\ SnapshotOf(frames').history = History(frames')
       /\ SnapshotOf(frames).compacted = IsHistoryBarrier(BaseStep)
       /\ SnapshotOf(frames').compacted = IsHistoryBarrier(BaseStep)
  BY <1>3 DEF SnapshotOf, BaseStep
<1>11. /\ Len(StackOf(frames')) = Len(StackOf(frames))
       /\ Front(StackOf(frames')) = Front(StackOf(frames))
       /\ Last(StackOf(frames')) = SnapshotOf(frames')
       /\ Last(StackOf(frames)) = SnapshotOf(frames)
  BY <1>1, StackOfReplace
<1>12. CASE IsHistoryBarrier(BaseStep)
  BY <1>9, <1>10, <1>11, <1>12, StackOfFrames DEF Stack!Amend, Stack!Continues, Stack!Top
<1>13. CASE ~IsHistoryBarrier(BaseStep)
  BY <1>9, <1>10, <1>11, <1>13, StackOfFrames DEF Stack!Continue, Stack!Continues, Stack!Top
<1> QED
  BY <1>12, <1>13

\* What takes the place of a failed step or of a tool turn does so.
LEMMA ReplacedState ==
  ASSUME WellFormed(frames), Replaces
  PROVE  Stack!Continue
<1> DEFINE base == Outer(frames).delta
<1>1. PICK step \in Step, delta \in Delta, retries \in RetryBudgets :
         /\ step.kind # "compacted"
         /\ TakesOver(step, delta, retries)
         /\ frames' = ReplaceOuter(frames, step, CarryRetry(step, Then(base, delta), retries))
  BY DEF Replaces
<1> DEFINE carried == CarryRetry(step, Then(base, delta), retries)
<1>2. base \in Delta /\ base.history \in Seq(Message) /\ delta.history \in Seq(Message)
  BY WellFormedFrames DEF Delta
<1>3. Then(base, delta) \in Delta /\ Then(base, delta).history = base.history \o delta.history
  <2> HIDE DEF base
  <2>1. Then(base, delta) \in Delta
    BY <1>2, NoMessages, DeltaTypes
  <2> QED
    BY <2>1 DEF Then
<1>4. carried \in Delta /\ carried.history = base.history \o delta.history
  BY <1>3, CarriedRetry
<1>5. IsHistoryBarrier(step) = FALSE /\ IsHistoryBarrier(BaseStep) = FALSE
  BY <1>1 DEF TakesOver, RetryApplies, AtFailure, IsFailed, RunsTool, IsHistoryBarrier
<1> HIDE DEF carried
<1>6. frames' = ReplaceOuter(frames, step, carried)
  BY <1>1 DEF carried
<1> QED
  BY <1>2, <1>4, <1>5, <1>6, ContinuedState

\* A rollback brings the state below back.
LEMMA RolledBackState ==
  ASSUME WellFormed(frames), RollsBack
  PROVE  Stack!TakeBack
<1>1. frames \in Chain(Step) /\ frames # <<>>
  BY WellFormedFrames DEF WellFormed
<1>2. Len(StackOf(frames)) = Len(frames) /\ Front(StackOf(frames)) = StackOf(Front(frames))
  BY <1>1, StackType, StackOfFront
<1>3. frames' = Front(frames) /\ Len(frames) > 1
  BY DEF RollsBack, DropOuter, HasParent
<1> QED
  BY <1>2, <1>3, StackOfFrames DEF Stack!TakeBack

\* A new session is a stack of one state.
LEMMA InitialState == Init => Stack!Init
<1> SUFFICES ASSUME Init PROVE Stack!Init
  OBVIOUS
<1>1. Len(frames) = 1 /\ frames \in Chain(Step) /\ frames # <<>>
  <2>1. Len(frames) = 1
    BY DEF Init, Branch
  <2> QED
    BY <2>1, InitWellFormed, WellFormedFrames DEF WellFormed
<1>2. /\ StackOf(frames) \in Seq(Snapshot) /\ Len(StackOf(frames)) = 1
      /\ StackOf(frames)[1] = SnapshotOf(frames)
  BY <1>1, StackType
<1>3. StackOf(frames) = <<SnapshotOf(frames)>>
  BY <1>2
<1> QED
  BY <1>3, StackOfFrames DEF Stack!Init, Init

\* Every step of the evaluator is a step of the stack, or leaves it alone.
LEMMA StepStates ==
  ASSUME WellFormed(frames), AgentStep
  PROVE  [Stack!Next]_SnapshotStack
<1>1. CASE StaysFailed
  BY <1>1, StackOfFrames DEF StaysFailed
<1> QED
  BY <1>1, AgentOutcomes, PublishedState, FailedState, ReplacedState, RolledBackState
     DEF Stack!Next

\* The evaluator implements the stack of complete states: what is published
\* goes on where the current state ends, in the same environment, or condenses
\* it; what replaces a step loses none of its messages; and what is rolled back
\* leaves exactly the messages and the variables visible below.
THEOREM StepsImplementSnapshots == Spec => ImplementsSnapshots
<1>1. Init => Stack!Init
  BY InitialState
<1>2. WellFormed(frames) /\ [AgentStep]_frames => [Stack!Next]_SnapshotStack
  <2>1. ASSUME UNCHANGED frames PROVE SnapshotStack' = SnapshotStack
    BY <2>1, StackOfFrames
  <2> QED
    BY <2>1, StepStates
<1>3. Init => WellFormed(frames)
  BY InitWellFormed
<1>4. WellFormed(frames) /\ [AgentStep]_frames => WellFormed(frames)'
  BY AgentOutcomes, OutcomesKeep
<1> QED
  BY <1>1, <1>2, <1>3, <1>4, PTL DEF Spec, ImplementsSnapshots, Stack!Spec

-------------------------------------------------------------------------------
(* What each session command does to the stack *)

\* Cutting the chain off takes states back.
LEMMA CutState ==
  ASSUME WellFormed(frames), NEW n \in 1 .. Len(frames), frames' = SubSeq(frames, 1, n)
  PROVE  Stack!TakeBackMany \/ SnapshotStack' = SnapshotStack
<1>1. frames \in Chain(Step) /\ frames # <<>> /\ Len(frames) \in Nat /\ n \in 0 .. Len(frames)
  BY WellFormedFrames DEF WellFormed
<1>2. SnapshotStack' = SubSeq(SnapshotStack, 1, n)
  BY <1>1, StackOfPrefix, StackOfFrames
<1>3. Len(SnapshotStack) = Len(frames)
  BY <1>1, StackType, StackOfFrames
<1>4. CASE n = Len(frames)
  <2>1. frames' = frames
    BY <1>1, <1>4, SubSeqFull DEF Chain
  <2> QED
    BY <2>1, StackOfFrames
<1>5. CASE n # Len(frames)
  <2>1. n \in 1 .. Len(SnapshotStack) - 1
    BY <1>1, <1>3, <1>5
  <2> QED
    BY <1>2, <2>1 DEF Stack!TakeBackMany
<1> QED
  BY <1>4, <1>5

\* A condensed step turned into a request shows what it had condensed.
LEMMA RevealedState ==
  ASSUME WellFormed(frames), IsHistoryBarrier(BaseStep),
         frames' = ReplaceOuter(frames, RequestProvider, Outer(frames).delta)
  PROVE  Stack!Reveal
<1> DEFINE n == Len(frames)
           delta == Outer(frames).delta
           low == Front(frames)
<1>1. frames \in Chain(Step) /\ frames # <<>> /\ delta \in Delta /\ RequestProvider \in Step
  BY WellFormedFrames, PlainSteps DEF WellFormed
<1>2. n \in Nat /\ n > 1
  BY WellFormedFrames DEF FrameFits, IsHistoryBarrier, BaseStep, Outer
<1>3. low \in Chain(Step) /\ n - 1 \in 1 .. n /\ low = SubSeq(frames, 1, n - 1)
  <2>1. low \in Chain(Step)
    BY <1>1, HistoryAbove
  <2> QED
    BY <1>2, <2>1 DEF Front
<1>4. /\ frames' \in Chain(Step) /\ frames' # <<>> /\ Len(frames') = n
      /\ frames'[n] = [step |-> RequestProvider, delta |-> delta]
      /\ Front(frames') = low
  BY <1>1, PrefixesOfReplace
<1>5. Outer(frames').step = RequestProvider /\ Outer(frames').delta = delta
  BY <1>4 DEF Outer
<1>6. IsHistoryBarrier(RequestProvider) = FALSE /\ IsHistoryBarrier(Outer(frames).step) = TRUE
  BY DEF RequestProvider, IsHistoryBarrier, BaseStep
<1> HIDE DEF low
<1>7. History(frames') = History(low) \o delta.history
  <2>1. History(frames') = (IF IsHistoryBarrier(Outer(frames').step) THEN <<>>
                            ELSE History(Front(frames'))) \o Outer(frames').delta.history
    BY <1>4, HistoryAbove
  <2> QED
    BY <1>4, <1>5, <1>6, <2>1
<1>8. History(frames) = delta.history
  <2>1. History(frames) = (IF IsHistoryBarrier(Outer(frames).step) THEN <<>>
                           ELSE History(Front(frames))) \o Outer(frames).delta.history
    BY <1>1, HistoryAbove
  <2>2. delta.history \in Seq(Message)
    BY <1>1 DEF Delta
  <2> QED
    BY <1>6, <2>1, <2>2, ConcatEmptySeq
<1>9. ASSUME NEW key \in Keys PROVE Lookup(frames', key) = Lookup(frames, key)
  <2>1. Lookup(frames', key) = IF Affects(delta, key) THEN Visible(delta.effects[key])
                                                      ELSE Lookup(low, key)
    BY <1>4, <1>5, LookupAbove
  <2>2. Lookup(frames, key) = IF Affects(delta, key) THEN Visible(delta.effects[key])
                                                     ELSE Lookup(low, key)
    BY <1>1, LookupAbove DEF low
  <2> QED
    BY <2>1, <2>2
<1>10. /\ SnapshotOf(frames').history = History(low) \o SnapshotOf(frames).history
       /\ SnapshotOf(frames').env = SnapshotOf(frames).env
       /\ SnapshotOf(low).history = History(low)
       /\ SnapshotOf(frames).compacted /\ ~SnapshotOf(frames').compacted
  BY <1>5, <1>6, <1>7, <1>8, <1>9 DEF SnapshotOf
<1>11. /\ Len(StackOf(frames')) = Len(StackOf(frames))
       /\ Front(StackOf(frames')) = Front(StackOf(frames))
       /\ Last(StackOf(frames')) = SnapshotOf(frames')
       /\ Last(StackOf(frames)) = SnapshotOf(frames)
  BY <1>1, StackOfReplace
<1>12. StackOf(frames)[n - 1] = SnapshotOf(low) /\ Len(StackOf(frames)) = n
  BY <1>1, <1>3, StackType
<1> QED
  BY <1>10, <1>11, <1>12, StackOfFrames DEF Stack!Reveal, Stack!Top

OwnerNext == Stack!Next \/ Stack!TakeBackMany \/ Stack!Reveal \/ Stack!Amend

\* What a session command does to the outermost frame, or to the chain.
LEMMA CommandOutcomes ==
  ASSUME WellFormed(frames), SessionCommand
  PROVE  \/ \E delta \in Delta, ms \in Seq(Message), step \in Step :
               /\ delta.history = Outer(frames).delta.history \o ms
               /\ IsHistoryBarrier(step) = IsHistoryBarrier(BaseStep)
               /\ frames' = ReplaceOuter(frames, step, delta)
         \/ \E ms \in Seq(Message) : frames' = Branch(frames, RequestProvider, Messages(ms))
         \/ frames' = ReplaceOuter(frames, RequestProvider, Outer(frames).delta)
         \/ \E n \in 1 .. Len(frames) : frames' = SubSeq(frames, 1, n)
<1> DEFINE base == Outer(frames).delta
           Adds == \E delta \in Delta, ms \in Seq(Message), step \in Step :
                      /\ delta.history = base.history \o ms
                      /\ IsHistoryBarrier(step) = IsHistoryBarrier(BaseStep)
                      /\ frames' = ReplaceOuter(frames, step, delta)
<1>1. /\ BaseStep \in Step /\ base \in Delta /\ base.history \in Seq(Message)
      /\ Len(frames) \in Nat /\ Len(frames) > 0
  BY WellFormedFrames DEF BaseStep, Delta
<1>2. ASSUME NEW delta \in Delta, NEW step \in Step, delta.history = base.history,
             IsHistoryBarrier(step) = IsHistoryBarrier(BaseStep),
             frames' = ReplaceOuter(frames, step, delta)
      PROVE  Adds
  <2>1. base.history \o <<>> = base.history /\ <<>> \in Seq(Message)
    BY <1>1, ConcatEmptySeq, EmptySeq
  <2> QED
    BY <1>2, <2>1
<1>3. CASE AppendMessages
  <2>1. PICK input \in Inputs : frames' = ReplaceOuter(frames, BaseStep, Then(base, Messages(input)))
    BY <1>3 DEF AppendMessages, Transform
  <2>2. input \in Seq(Message)
    BY InputsArePlain
  <2>3. Then(base, Messages(input)) \in Delta
        /\ Then(base, Messages(input)).history = base.history \o input
    <3> HIDE DEF base
    <3>1. Then(base, Messages(input)) \in Delta
      BY <1>1, <2>2, DeltaTypes
    <3> QED
      BY <3>1 DEF Then, Messages
  <2> QED
    BY <1>1, <2>1, <2>2, <2>3
<1>4. ASSUME NEW key \in UserKeys, NEW value \in UserValues, StoreJson(key, value)
      PROVE  Adds
  <2>1. StoreIn(base, key, value) \in Delta /\ StoreIn(base, key, value).history = base.history
    <3> HIDE DEF base
    <3>1. StoreIn(base, key, value) \in Delta
      BY <1>1, SessionAssumption, EmptySeq, DeltaTypes
    <3> QED
      BY <1>1, <3>1 DEF StoreIn, Delta
  <2> QED
    BY <1>1, <1>2, <1>4, <2>1 DEF StoreJson, Transform
<1>5. ASSUME NEW key \in UserKeys, RemoveKey(key) PROVE Adds
  <2>1. RemoveIn(base, key) \in Delta /\ RemoveIn(base, key).history = base.history
    <3> HIDE DEF base
    <3>1. RemoveIn(base, key) \in Delta
      BY <1>1, SessionAssumption, EmptySeq, DeltaTypes
    <3> QED
      BY <1>1, <3>1 DEF RemoveIn, Delta
  <2> QED
    BY <1>1, <1>2, <1>5, <2>1 DEF RemoveKey, Transform
<1>6. CASE NextProvider
  BY <1>6, NoMessages DEF NextProvider, Transform
<1>7. CASE ReplaceProvider
  BY <1>7 DEF ReplaceProvider, Transform
<1>8. CASE InsertToolResult
  <2> DEFINE turn == BaseStep
             ran == Append(turn.results, turn.calls[Len(turn.results) + 1])
             ms == TurnMessages(turn.pending, turn.calls, ran)
             step == RequestExecutor(turn.pending, turn.calls, ran)
  <2>1. BaseStep.kind = "request_executor" /\ Len(turn.results) < Len(turn.calls)
    BY <1>8 DEF InsertToolResult
  <2>2. turn.pending \in Seq(Message) /\ turn.calls \in Seq(CallIds) /\ turn.results \in Seq(CallIds)
    BY <1>1, <2>1, StepFields
  <2>3. ran \in Seq(CallIds)
    BY <2>1, <2>2, NextResult
  <2>4. /\ ms \in Seq(Message) /\ step \in Step
        /\ IsHistoryBarrier(step) = FALSE /\ IsHistoryBarrier(BaseStep) = FALSE
    BY <2>1, <2>2, <2>3, TurnTypes DEF RequestExecutor, IsHistoryBarrier
  <2>5. \/ frames' = Branch(frames, RequestProvider, Messages(ms))
        \/ frames' = ReplaceOuter(frames, step, base)
    BY <1>8 DEF InsertToolResult, Transform
  <2> HIDE DEF ms, step
  <2> QED
    BY <1>1, <1>2, <2>4, <2>5
<1>9. CASE Rollback
  <2>1. frames' = DropOuter(frames)
    BY <1>9 DEF Rollback, Transform
  <2>2. CASE HasParent(frames)
    <3>1. frames' = SubSeq(frames, 1, Len(frames) - 1) /\ Len(frames) - 1 \in 1 .. Len(frames)
      BY <1>1, <2>1, <2>2 DEF DropOuter, HasParent, Front
    <3> QED
      BY <3>1
  <2>3. CASE ~HasParent(frames)
    <3>1. frames' = SubSeq(frames, 1, Len(frames)) /\ Len(frames) \in 1 .. Len(frames)
      BY <1>1, <2>1, <2>3, WellFormedFrames, SubSeqFull DEF DropOuter, Chain
    <3> QED
      BY <3>1
  <2> QED
    BY <2>2, <2>3
<1>10. CASE RollbackTo
  <2>1. PICK kind \in StepKinds :
           LET found == {i \in 1 .. Len(frames) : frames[i].step.kind = kind}
           IN found # {} /\ frames' = SubSeq(frames, 1, Max(found))
    BY <1>10 DEF RollbackTo, Transform
  <2> DEFINE found == {i \in 1 .. Len(frames) : frames[i].step.kind = kind}
  <2>2. found # {} /\ found \in SUBSET (0 .. Len(frames)) /\ frames' = SubSeq(frames, 1, Max(found))
    BY <1>1, <2>1
  <2>3. \A i \in found : i \in 1 .. Len(frames)
    OBVIOUS
  <2> HIDE DEF found
  <2>4. Max(found) \in 1 .. Len(frames)
    BY <1>1, <2>2, <2>3, MaxOf
  <2> QED
    BY <2>2, <2>4
<1> QED
  BY <1>3, <1>4, <1>5, <1>6, <1>7, <1>8, <1>9, <1>10, Zenon DEF SessionCommand

LEMMA CommandStates ==
  ASSUME WellFormed(frames), SessionCommand
  PROVE  [OwnerNext]_SnapshotStack
<1>1. /\ BaseStep \in Step /\ Outer(frames).delta \in Delta
      /\ Outer(frames).delta.history \in Seq(Message) /\ RequestProvider \in Step
      /\ IsHistoryBarrier(RequestProvider) = FALSE
  BY WellFormedFrames, PlainSteps DEF BaseStep, Delta, RequestProvider, IsHistoryBarrier
<1>2. ASSUME NEW delta \in Delta, NEW ms \in Seq(Message), NEW step \in Step,
             delta.history = Outer(frames).delta.history \o ms,
             IsHistoryBarrier(step) = IsHistoryBarrier(BaseStep),
             frames' = ReplaceOuter(frames, step, delta)
      PROVE  OwnerNext
  BY <1>2, ContinuedState DEF OwnerNext, Stack!Next
<1>3. ASSUME NEW ms \in Seq(Message), frames' = Branch(frames, RequestProvider, Messages(ms))
      PROVE  OwnerNext
  BY <1>1, <1>3, PushedState DEF OwnerNext, Stack!Next
<1>4. CASE frames' = ReplaceOuter(frames, RequestProvider, Outer(frames).delta)
  <2>1. CASE IsHistoryBarrier(BaseStep)
    BY <1>4, <2>1, RevealedState DEF OwnerNext
  <2>2. CASE ~IsHistoryBarrier(BaseStep)
    <3>1. IsHistoryBarrier(BaseStep) = FALSE
      BY <2>2 DEF IsHistoryBarrier
    <3>2. Outer(frames).delta.history \o <<>> = Outer(frames).delta.history /\ <<>> \in Seq(Message)
      BY <1>1, ConcatEmptySeq, EmptySeq
    <3> QED
      BY <1>1, <1>2, <1>4, <3>1, <3>2
  <2> QED
    BY <2>1, <2>2
<1>5. ASSUME NEW n \in 1 .. Len(frames), frames' = SubSeq(frames, 1, n)
      PROVE  [OwnerNext]_SnapshotStack
  BY <1>5, CutState DEF OwnerNext
<1> QED
  BY <1>2, <1>3, <1>4, <1>5, CommandOutcomes

\* Evaluation and session commands together implement the stack of complete
\* states: whatever commands append, store or replace, one rollback or several
\* bring back exactly the messages and the variables of the frame returned to.
THEOREM SessionsImplementSnapshots == SessionSpec => ImplementsOwnedSnapshots
<1>1. Init => Stack!Init
  BY InitialState
<1>2. WellFormed(frames) /\ [SessionNext]_frames => [OwnerNext]_SnapshotStack
  <2>1. ASSUME WellFormed(frames), AgentStep PROVE [OwnerNext]_SnapshotStack
    BY <2>1, StepStates DEF OwnerNext
  <2>2. ASSUME UNCHANGED frames PROVE SnapshotStack' = SnapshotStack
    BY <2>2, StackOfFrames
  <2> QED
    BY <2>1, <2>2, CommandStates DEF SessionNext
<1>3. Init => WellFormed(frames)
  BY InitWellFormed
<1>4. WellFormed(frames) /\ [SessionNext]_frames => WellFormed(frames)'
  BY AgentOutcomes, OutcomesKeep, CommandsKeep DEF SessionNext
<1> QED
  BY <1>1, <1>2, <1>3, <1>4, PTL
     DEF SessionSpec, ImplementsOwnedSnapshots, Stack!OwnerSpec, OwnerNext

-------------------------------------------------------------------------------
(* Variables *)

\* What the outermost frame says of a variable is what a lookup finds.
LEMMA ReplacedLookup ==
  ASSUME WellFormed(frames), NEW step \in Step, NEW delta \in Delta, NEW key,
         Affects(delta, key), frames' = ReplaceOuter(frames, step, delta)
  PROVE  Lookup(frames', key) = Visible(delta.effects[key])
<1>1. frames \in Chain(Step) /\ frames # <<>>
  BY WellFormedFrames DEF WellFormed
<1>2. /\ frames' \in Chain(Step) /\ frames' # <<>> /\ Len(frames') = Len(frames)
      /\ frames'[Len(frames)] = [step |-> step, delta |-> delta]
  BY <1>1, PrefixesOfReplace
<1>3. Outer(frames').delta = delta
  BY <1>2 DEF Outer
<1> QED
  BY <1>2, <1>3, LookupAbove

\* A stored value is what a lookup finds, and a removal hides every older one.
THEOREM WritesAreFound == SessionSpec => WritesAreRead
<1> DEFINE Writes ==
      \A key \in UserKeys :
         /\ RemoveKey(key) => Lookup(frames', key) = Missing
         /\ \A value \in UserValues :
               StoreJson(key, value) => Lookup(frames', key) = Stored(value)
           base == Outer(frames).delta
<1>1. WellFormed(frames) /\ [SessionNext]_frames => [Writes]_frames
  <2> SUFFICES ASSUME WellFormed(frames), NEW key \in UserKeys
               PROVE  /\ RemoveKey(key) => Lookup(frames', key) = Missing
                      /\ \A value \in UserValues :
                            StoreJson(key, value) => Lookup(frames', key) = Stored(value)
    OBVIOUS
  <2>1. key \in Keys /\ UserValues \subseteq Nat
    BY SessionAssumption
  <2>2. BaseStep \in Step /\ base \in Delta /\ base.effects \in [Keys -> Effect]
    BY WellFormedFrames DEF BaseStep, Delta
  <2> HIDE DEF base
  <2>3. ASSUME RemoveKey(key) PROVE Lookup(frames', key) = Missing
    <3> DEFINE delta == RemoveIn(base, key)
    <3>1. delta \in Delta
      BY <2>1, <2>2, EmptySeq, DeltaTypes
    <3>2. delta.effects[key] = Removed
      BY <2>1, <2>2 DEF RemoveIn, Delta
    <3>3. Affects(delta, key) /\ Visible(delta.effects[key]) = Missing
      BY <3>2 DEF Affects, Visible, Removed, Missing
    <3>4. frames' = ReplaceOuter(frames, BaseStep, delta)
      BY <2>3 DEF RemoveKey, Transform, base
    <3> HIDE DEF delta
    <3> QED
      BY <2>2, <3>1, <3>3, <3>4, ReplacedLookup
  <2>4. ASSUME NEW value \in UserValues, StoreJson(key, value)
        PROVE  Lookup(frames', key) = Stored(value)
    <3> DEFINE delta == StoreIn(base, key, value)
    <3>1. delta \in Delta
      BY <2>1, <2>2, EmptySeq, DeltaTypes
    <3>2. delta.effects[key] = Stored(value)
      BY <2>1, <2>2 DEF StoreIn, Delta
    <3>3. Affects(delta, key) /\ Visible(delta.effects[key]) = Stored(value)
      BY <3>2 DEF Affects, Visible, Removed, Missing, Stored
    <3>4. frames' = ReplaceOuter(frames, BaseStep, delta)
      BY <2>4 DEF StoreJson, Transform, base
    <3> HIDE DEF delta
    <3> QED
      BY <2>2, <3>1, <3>3, <3>4, ReplacedLookup
  <2> QED
    BY <2>3, <2>4
<1>2. Init => WellFormed(frames)
  BY InitWellFormed
<1>3. WellFormed(frames) /\ [SessionNext]_frames => WellFormed(frames)'
  BY AgentOutcomes, OutcomesKeep, CommandsKeep DEF SessionNext
<1> QED
  BY <1>1, <1>2, <1>3, PTL DEF SessionSpec, WritesAreRead

-------------------------------------------------------------------------------
(* Calls and their results *)

\* Every session subcommand keeps calls and results together in each frame.
LEMMA CommandsPaired ==
  ASSUME WellFormed(frames), AllPaired(frames), SessionCommand
  PROVE  AllPaired(frames')
<1> DEFINE base == Outer(frames).delta
<1>1. /\ BaseStep \in Step /\ base \in Delta /\ base.history \in Seq(Message)
      /\ Len(frames) \in Nat /\ Len(frames) > 0 /\ FrameFits(frames, Len(frames))
      /\ BaseStep = frames[Len(frames)].step
  BY WellFormedFrames DEF BaseStep, Outer, Delta
<1>2. /\ Answered(base.history)
      /\ BaseStep.kind = "request_executor" => Answered(BaseStep.pending)
      /\ IsToolFailure(BaseStep) => Answered(BaseStep.error.pending)
  BY OuterPaired DEF RunsTool
<1>3. RequestProvider \in Step /\ RequestProvider.kind = "request_provider" /\ ~IsFailed(RequestProvider)
  BY PlainSteps
<1> HIDE DEF base
<1>4. ASSUME NEW delta \in Delta, Answered(delta.history),
             frames' = ReplaceOuter(frames, BaseStep, delta)
      PROVE  AllPaired(frames')
  <2>1. PairedFrame([step |-> BaseStep, delta |-> delta])
    BY <1>2, <1>4 DEF PairedFrame
  <2> QED
    BY <1>1, <1>4, <2>1, ReplacePaired
<1>5. CASE AppendMessages
  <2>1. PICK input \in Inputs :
           frames' = ReplaceOuter(frames, BaseStep, Then(base, Messages(input)))
    BY <1>5 DEF AppendMessages, Transform, base
  <2>2. input \in Seq(Message) /\ Answered(input)
    BY InputsArePlain
  <2>3. Then(base, Messages(input)) \in Delta
    BY <1>1, <2>2, DeltaTypes
  <2>4. Then(base, Messages(input)).history = base.history \o input
    BY DEF Then, Messages, EmptyDelta
  <2>5. Answered(Then(base, Messages(input)).history)
    BY <1>1, <1>2, <2>2, <2>4, AnsweredConcat
  <2> QED
    BY <1>4, <2>1, <2>3, <2>5
<1>6. ASSUME NEW key \in UserKeys, NEW value \in UserValues, StoreJson(key, value)
      PROVE  AllPaired(frames')
  <2>1. StoreIn(base, key, value) \in Delta
    BY <1>1, SessionAssumption, EmptySeq, DeltaTypes
  <2>2. StoreIn(base, key, value).history = base.history
    BY <1>1 DEF StoreIn, Delta
  <2> QED
    BY <1>2, <1>4, <1>6, <2>1, <2>2 DEF StoreJson, Transform, base
<1>7. ASSUME NEW key \in UserKeys, RemoveKey(key) PROVE AllPaired(frames')
  <2>1. RemoveIn(base, key) \in Delta
    BY <1>1, SessionAssumption, EmptySeq, DeltaTypes
  <2>2. RemoveIn(base, key).history = base.history
    BY <1>1 DEF RemoveIn, Delta
  <2> QED
    BY <1>2, <1>4, <1>7, <2>1, <2>2 DEF RemoveKey, Transform, base
<1>8. CASE NextProvider
  <2>1. PairedFrame([step |-> RequestProvider, delta |-> EmptyDelta])
    BY <1>3, AnsweredSimple DEF PairedFrame, IsToolFailure, EmptyDelta
  <2> QED
    BY <1>3, <1>8, <2>1, EmptyDeltaType, BranchPaired DEF NextProvider, Transform
<1>9. CASE ReplaceProvider
  <2>1. PairedFrame([step |-> RequestProvider, delta |-> base])
    BY <1>2, <1>3 DEF PairedFrame, IsToolFailure
  <2> QED
    BY <1>1, <1>3, <1>9, <2>1, ReplacePaired DEF ReplaceProvider, Transform, base
<1>10. CASE InsertToolResult
  <2> DEFINE turn == BaseStep
             ran == Append(turn.results, turn.calls[Len(turn.results) + 1])
             delta == Messages(TurnMessages(turn.pending, turn.calls, ran))
             step == RequestExecutor(turn.pending, turn.calls, ran)
  <2>1. BaseStep.kind = "request_executor" /\ Len(turn.results) < Len(turn.calls)
    BY <1>10 DEF InsertToolResult
  <2>2. /\ turn.pending \in Seq(Message) /\ turn.calls \in Seq(CallIds)
        /\ turn.results \in Seq(CallIds) /\ ValidTurn(turn) /\ Answered(turn.pending)
    BY <1>1, <1>2, <2>1, StepFields DEF FrameFits, ValidStep, ValidReactStep, IsFailed
  <2>3. ran \in Seq(CallIds) /\ Len(ran) = Len(turn.results) + 1
    BY <2>1, <2>2, NextResult
  <2>4. \/ Len(ran) >= Len(turn.calls) /\ frames' = Branch(frames, RequestProvider, delta)
        \/ frames' = ReplaceOuter(frames, step, base)
    BY <1>10 DEF InsertToolResult, Transform, TurnCompletes, base
  <2>5. CASE Len(ran) >= Len(turn.calls) /\ frames' = Branch(frames, RequestProvider, delta)
    <3>1. \A i \in 1 .. Len(turn.results) : turn.results[i] = turn.calls[i]
      BY <2>2 DEF ValidTurn, ResultsMatchCalls
    <3>2. ran = SubSeq(turn.calls, 1, Len(turn.results) + 1)
      BY <2>1, <2>2, <3>1, RanSoFar
    <3>3. Len(turn.results) + 1 = Len(turn.calls)
      BY <2>1, <2>2, <2>3, <2>5
    <3>4. ran = turn.calls
      BY <2>2, <3>2, <3>3, SubSeqFull
    <3>5. Answered(TurnMessages(turn.pending, turn.calls, ran))
      BY <2>2, <3>4, AnsweredTurn
    <3>6. delta \in Delta /\ delta.history = TurnMessages(turn.pending, turn.calls, ran)
      BY <2>2, <2>3, TurnTypes, EmptyDeltaType DEF Messages
    <3> HIDE DEF delta, ran
    <3>7. PairedFrame([step |-> RequestProvider, delta |-> delta])
      BY <1>3, <3>5, <3>6 DEF PairedFrame, IsToolFailure
    <3> QED
      BY <1>3, <2>5, <3>6, <3>7, BranchPaired
  <2>6. CASE frames' = ReplaceOuter(frames, step, base)
    <3>1. step \in Step
      BY <2>2, <2>3, TurnTypes
    <3>2. PairedFrame([step |-> step, delta |-> base])
      BY <1>2, <2>2 DEF PairedFrame, RequestExecutor, IsToolFailure, IsFailed
    <3> HIDE DEF step
    <3> QED
      BY <1>1, <2>6, <3>1, <3>2, ReplacePaired
  <2> QED
    BY <2>4, <2>5, <2>6
<1>11. CASE Rollback
  <2>1. CASE ~HasParent(frames)
    BY <1>11, <2>1 DEF Rollback, Transform, DropOuter
  <2>2. CASE HasParent(frames)
    <3>1. Len(frames) > 1 /\ frames' = SubSeq(frames, 1, Len(frames) - 1)
      BY <1>11, <2>2 DEF Rollback, Transform, HasParent, DropOuter, Front
    <3>2. Len(frames) - 1 \in 1 .. Len(frames)
      BY <1>1, <3>1
    <3> QED
      BY <3>1, <3>2, PrefixPaired
  <2> QED
    BY <2>1, <2>2
<1>12. CASE RollbackTo
  <2>1. PICK n \in 1 .. Len(frames) : frames' = SubSeq(frames, 1, n)
    BY <1>12, PrefixOfKind
  <2> QED
    BY <2>1, PrefixPaired
<1> QED
  BY <1>5, <1>6, <1>7, <1>8, <1>9, <1>10, <1>11, <1>12 DEF SessionCommand

\* Evaluation and commands together: whatever is appended, supplied by hand,
\* replaced or rolled back between the steps, every call in the history is
\* answered and every result answers a call.
THEOREM SessionsStayAnswered ==
  ASSUME TailsAnswered
  PROVE  SessionSpec => []CallsAreAnswered
<1> DEFINE IInv == WellFormed(frames) /\ AllPaired(frames)
<1>1. Init => IInv
  BY InitWellFormed, InitPaired
<1>2. IInv /\ [SessionNext]_frames => IInv'
  <2> SUFFICES ASSUME IInv, [SessionNext]_frames PROVE WellFormed(frames') /\ AllPaired(frames')
    OBVIOUS
  <2>1. CASE AgentStep
    BY <2>1, AgentOutcomes, OutcomesKeep, OutcomesPaired
  <2>2. CASE SessionCommand
    BY <2>2, CommandsKeep, CommandsPaired
  <2>3. CASE UNCHANGED frames
    BY <2>3
  <2> QED
    BY <2>1, <2>2, <2>3 DEF SessionNext
<1>3. IInv => CallsAreAnswered
  BY OuterPaired DEF CallsAreAnswered, Answered
<1> QED
  BY <1>1, <1>2, <1>3, PTL DEF SessionSpec

-------------------------------------------------------------------------------
(* The driver *)

\* A failure on top of a failed step is one that recovery gave up on.
LEMMA FailureAfterFailure ==
  ASSUME WellFormed(frames), IsFailed(BaseStep), AgentStep, IsFailed(BaseStep')
  PROVE  GivesUp'
<1>1. WellFormed(frames') /\ Len(frames) \in Nat /\ Len(frames) > 0
  BY AgentOutcomes, OutcomesKeep, WellFormedFrames
<1>2. CASE Replaces
  <2>1. PICK step \in Step, delta \in Delta :
           ~IsFailed(step) /\ frames' = ReplaceOuter(frames, step, delta)
    BY <1>2, ReplacingFrame
  <2>2. Len(frames') = Len(frames) /\ frames'[Len(frames)].step = step
    BY <1>1, <2>1 DEF ReplaceOuter, WellFormed
  <2>3. BaseStep' = step
    BY <2>2 DEF BaseStep, Outer
  <2> QED
    BY <2>1, <2>3
<1>3. CASE RollsBack
  <2> DEFINE n == Len(frames)
  <2>1. n > 1 /\ frames' = SubSeq(frames, 1, n - 1)
    BY <1>3 DEF RollsBack, HasParent, DropOuter, Front
  <2>2. n - 1 \in 0 .. n /\ n - 1 \in 1 .. n - 1
    BY <1>1, <2>1
  <2>3. Len(frames') = n - 1 /\ frames'[n - 1] = frames[n - 1]
    BY <2>1, <2>2, PrefixOf DEF WellFormed
  <2>4. BaseStep' = frames[n - 1].step
    BY <2>3 DEF BaseStep, Outer
  <2>5. ~IsFailed(frames[n - 1].step)
    BY WellFormedFrames DEF FrameFits, BaseStep, Outer
  <2> QED
    BY <2>4, <2>5
<1>4. CASE StaysFailed
  BY <1>4 DEF StaysFailed, GivesUp, BaseStep, AtFailure, RecoveryRate
<1> QED
  BY <1>2, <1>3, <1>4, AgentOutcomes DEF Publishes, Fails

DriverTyped == /\ phase \in Phases /\ mode \in Modes
               /\ failedBefore \in BOOLEAN /\ mayCommit \in BOOLEAN

\* What a yolo run knows of the last step but one.
YoloRemembers ==
    /\ phase \in {"idle", "starting"} => ~failedBefore
    /\ phase \in Working /\ failedBefore => IsFailed(BaseStep)
    /\ phase \in Stepped /\ failedBefore /\ IsFailed(BaseStep) => GivesUp

DriverInv ==
    /\ WellFormed(frames) /\ WellFormed(file)
    /\ DriverTyped
    /\ CheckpointIsCurrent
    /\ YoloRemembers
    /\ YoloStopsWhenDone

\* What is looked at when the frames stay as they are.
LEMMA SameFrames ==
  ASSUME frames' = frames
  PROVE  BaseStep' = BaseStep /\ (GivesUp' <=> GivesUp) /\ WellFormed(frames') = WellFormed(frames)
<1>1. BaseStep' = BaseStep
  BY DEF BaseStep
<1>2. RecoveryRate' = RecoveryRate
  BY DEF RecoveryRate
<1> QED
  BY <1>1, <1>2 DEF GivesUp, AtFailure

\* An idle driver with a new session.
LEMMA DriverStarts == DriverInit => DriverInv
  BY InitWellFormed
  DEF DriverInit, DriverInv, DriverTyped, CheckpointIsCurrent, YoloRemembers, YoloStopsWhenDone,
      Phases, Working, Stepped, Leaving, Modes

\* However the process ends, the file holds one of the two sessions it knew.
LEMMA ProcessEnds ==
  ASSUME DriverInv, Gone, file' \in {file, frames}
  PROVE  DriverInv'
<1>1. WellFormed(frames') /\ WellFormed(file') /\ frames' = file'
  BY DEF DriverInv, Gone
<1>2. phase' = "idle" /\ mode' = "step" /\ failedBefore' = FALSE /\ mayCommit' = FALSE
  BY DEF Gone
<1> QED
  BY <1>1, <1>2
  DEF DriverInv, DriverTyped, CheckpointIsCurrent, YoloRemembers, YoloStopsWhenDone,
      Phases, Working, Stepped, Leaving, Modes

\* The process moves on without touching the frames.
LEMMA DriverMoves ==
  ASSUME DriverInv, UNCHANGED <<frames, mode>>,
         \/ InitialCheckpoint \/ InteractWithJob \/ Interrupt \/ Panic
         \/ Checkpoint \/ LastCheckpoint
  PROVE  DriverInv'
<1>1. /\ BaseStep' = BaseStep /\ (GivesUp' <=> GivesUp)
      /\ WellFormed(frames') /\ WellFormed(file')
  BY SameFrames
  DEF DriverInv, InitialCheckpoint, InteractWithJob, Interrupt, Panic, Checkpoint,
      LastCheckpoint, Saved
<1> USE DEF DriverInv, DriverTyped, CheckpointIsCurrent, YoloRemembers, YoloStopsWhenDone,
            Phases, Working, Stepped, Leaving
<1>2. CASE InitialCheckpoint
  BY <1>1, <1>2 DEF InitialCheckpoint, Saved
<1>3. CASE InteractWithJob
  BY <1>1, <1>3 DEF InteractWithJob
<1>4. CASE Interrupt
  BY <1>1, <1>4 DEF Interrupt
<1>5. CASE Panic
  BY <1>1, <1>5 DEF Panic
<1>6. CASE Checkpoint
  <2>1. failedBefore' = (mode = "yolo" /\ IsFailed(BaseStep)) /\ file' = frames
    BY <1>6 DEF Checkpoint, Saved
  <2>2. mode = "yolo" /\ Completes => BaseStep.kind = "turn_end" \/ GivesUp
    BY <1>6 DEF Checkpoint, Completes
  <2> QED
    BY <1>1, <1>6, <2>1, <2>2 DEF Checkpoint
<1>7. CASE LastCheckpoint
  BY <1>1, <1>7 DEF LastCheckpoint, Saved
<1> QED
  BY <1>2, <1>3, <1>4, <1>5, <1>6, <1>7

\* The inductive step, one case per action.
LEMMA DriverKeeps == DriverInv /\ [DriverNext]_driverVars => DriverInv'
<1> SUFFICES ASSUME DriverInv, [DriverNext]_driverVars PROVE DriverInv'
  OBVIOUS
<1>1. CASE UNCHANGED driverVars
  BY <1>1, SameFrames
  DEF driverVars, process, DriverInv, DriverTyped, CheckpointIsCurrent, YoloRemembers,
      YoloStopsWhenDone
<1>2. CASE Command
  <2>1. WellFormed(frames') /\ file' = frames'
    BY <1>2, CommandsKeep DEF Command, DriverInv
  <2> QED
    BY <1>2, <2>1
    DEF Command, process, DriverInv, DriverTyped, CheckpointIsCurrent, YoloRemembers,
        YoloStopsWhenDone, Working, Stepped
<1>3. CASE Invoke
  <2>1. WellFormed(frames')
    BY <1>3, CommandsKeep, SameFrames DEF Invoke, DriverInv, SessionCommand
  <2> QED
    BY <1>3, <2>1
    DEF Invoke, DriverInv, DriverTyped, CheckpointIsCurrent, YoloRemembers,
        YoloStopsWhenDone, Phases, Working, Stepped, Leaving
<1>4. CASE Evaluate
  <2>1. WellFormed(frames')
    BY <1>4, AgentOutcomes, OutcomesKeep DEF Evaluate, DriverInv
  <2>2. failedBefore /\ IsFailed(BaseStep') => GivesUp'
    BY <1>4, FailureAfterFailure DEF Evaluate, DriverInv, YoloRemembers
  <2> QED
    BY <1>4, <2>1, <2>2
    DEF Evaluate, DriverInv, DriverTyped, CheckpointIsCurrent, YoloRemembers,
        YoloStopsWhenDone, Phases, Working, Stepped, Leaving
<1>5. CASE CheckpointFails \/ Leave \/ Crash
  BY <1>5, ProcessEnds DEF CheckpointFails, Leave, Crash, Saved, SaveFailed
<1>6. CASE InitialCheckpoint \/ InteractWithJob \/ Interrupt \/ Panic
           \/ Checkpoint \/ LastCheckpoint
  BY <1>6, DriverMoves
  DEF InitialCheckpoint, InteractWithJob, Interrupt, Panic, Checkpoint, LastCheckpoint
<1> QED
  BY <1>1, <1>2, <1>3, <1>4, <1>5, <1>6 DEF DriverNext

\* The invariant the theorems below are read off.
LEMMA DriverInvariant == DriverSpec => []DriverInv
  BY DriverStarts, DriverKeeps, PTL DEF DriverSpec

\* Whatever command, step, signal, panic, failed save or crash comes when, the
\* process and the file hold typed sessions.
THEOREM DriverIsTyped == DriverSpec => []DriverTypeOK
<1>1. DriverInv => DriverTypeOK
  BY WellFormedProperties DEF DriverInv, DriverTyped, DriverTypeOK, WellFormed
<1> QED
  BY <1>1, DriverInvariant, PTL

\* What a dying process leaves in the file is the session its step began with.
THEOREM StepsStartFromTheFile == DriverSpec => []CheckpointIsCurrent
<1>1. DriverInv => CheckpointIsCurrent
  BY DEF DriverInv
<1> QED
  BY <1>1, DriverInvariant, PTL

\* phi yolo stops by itself only at the end of a turn or where recovery gives up.
THEOREM YoloRunsUntilDone == DriverSpec => []YoloStopsWhenDone
<1>1. DriverInv => YoloStopsWhenDone
  BY DEF DriverInv
<1> QED
  BY <1>1, DriverInvariant, PTL
-------------------------------------------------------------------------------
(* The step as a relation.  A checkpoint writes the outcome of a step that the *)
(* evaluator took before, so what AgentStep says of frames is said here of two *)
(* chains: the one a step starts from and the one it leads to.                 *)

CanGrowOf(fs) ==
    /\ Len(fs) < MaxFrames
    /\ Len(fs) >= FreeFrames =>
        \A i \in FreeFrames - 2 .. Len(fs) : fs[i].step.kind \in {"request_compact", "failed"}

CarryOf(fs, step, delta, retries) ==
    IF /\ retries # NoRetry
       /\ IsRequestProvider(step)
       /\ ~Affects(delta, RetryKey)
       /\ Lookup(fs, RetryKey) # Missing
    THEN [delta EXCEPT !.effects[RetryKey] = Lookup(fs, RetryKey)]
    ELSE delta

FailOf(fs, gs, error) == CanGrowOf(fs) /\ gs = Branch(fs, Failed(error), EmptyDelta)

CreateOf(fs, gs, step, delta, retries) ==
    IF ValidReactStep(step)
    THEN CanGrowOf(fs) /\ gs = Branch(fs, step, CarryOf(fs, step, delta, retries))
    ELSE FailOf(fs, gs, Error("session"))

ReplaceOf(fs, gs, step, delta, retries) ==
    IF ValidReactStep(step) /\ (step.kind = "compacted" => HasParent(fs))
    THEN gs = ReplaceOuter(fs, step, CarryOf(fs, step, Then(Outer(fs).delta, delta), retries))
    ELSE FailOf(fs, gs, Error("session"))

StepAt(fs) == Outer(fs).step
ProviderOf(fs) == IsRequestProvider(StepAt(fs))
FailureOf(fs, classes) == IsFailed(StepAt(fs)) /\ StepAt(fs).error.kind \in classes
BudgetOf(fs) == ProviderOf(fs) /\ Len(History(fs)) >= MaxSteps
RetryOf(fs, retries) ==
    /\ retries # NoRetry
    /\ FailureOf(fs, RetryableErrors)
    /\ FindAncestor(fs, "request_provider") # <<>>
AttemptOf(fs) ==
    LET recorded == Lookup(FindAncestor(fs, "request_provider"), RetryKey)
    IN IF recorded = Missing THEN 1 ELSE recorded.value + 1
ThresholdOf(fs) ==
    /\ ProviderOf(fs)
    /\ Lookup(fs, RetryKey) = Missing
    /\ Tokens(History(fs)) + PromptTokens >= (ContextTokens * 8) \div 10
RateOf(fs) ==
    CASE Parent(fs).step.kind = "request_provider" -> FirstRate
      [] Parent(fs).step.kind = "request_compact" -> NextRate(Parent(fs).step.rate)
      [] OTHER -> RateUnit
CallsOf(fs) == ProviderOf(fs) /\ ~BudgetOf(fs) /\ ~ThresholdOf(fs)

\* Failures of a request, of a tool and of a compaction.
FailStepOf(fs, gs) ==
    \/ CallsOf(fs) /\ \E class \in ProviderErrors : FailOf(fs, gs, Error(class))
    \/ /\ StepAt(fs).kind = "request_executor"
       /\ ValidTurn(StepAt(fs))
       /\ \E class \in ToolErrors :
             FailOf(fs, gs, ToolFailure(class, StepAt(fs).pending, StepAt(fs).calls,
                                        StepAt(fs).results))
    \/ /\ StepAt(fs).kind = "request_compact"
       /\ NeedsSummary(History(fs), StepAt(fs).rate)
       /\ \E class \in {"context_exceeded_limit", "request_compact"} : FailOf(fs, gs, Error(class))

\* Governance and recovery.
ModuleStepOf(fs, gs, retries) ==
    \/ BudgetOf(fs) /\ CreateOf(fs, gs, TurnEnd, EmptyDelta, retries)
    \/ /\ RetryOf(fs, retries) /\ AttemptOf(fs) <= retries
       /\ ReplaceOf(fs, gs, RequestProvider, StoreIn(EmptyDelta, RetryKey, AttemptOf(fs)), retries)
    \/ /\ RetryOf(fs, retries) /\ AttemptOf(fs) > retries
       /\ ReplaceOf(fs, gs, RequestProvider, RemoveIn(EmptyDelta, RetryKey), retries)
    \/ /\ ~BudgetOf(fs) /\ ThresholdOf(fs)
       /\ CreateOf(fs, gs, RequestCompact(FirstRate), EmptyDelta, retries)
    \/ /\ FailureOf(fs, {"context_exceeded_limit"}) /\ HasParent(fs) /\ RateOf(fs) <= HalfRate
       /\ ReplaceOf(fs, gs, RequestCompact(RateOf(fs)), EmptyDelta, retries)
    \/ /\ FailureOf(fs, ToolErrors)
       /\ LET turn == StepAt(fs).error
              done == Len(turn.results)
          IN ReplaceOf(fs, gs, RequestProvider,
                 Messages(TurnMessages(turn.pending, SubSeq(turn.calls, 1, done + 1),
                                       Append(turn.results, turn.calls[done + 1]))), retries)
    \/ /\ IsFailed(StepAt(fs)) /\ ~RetryOf(fs, retries)
       /\ StepAt(fs).error.kind \notin ToolErrors \cup {"context_exceeded_limit"}
       /\ HasParent(fs) /\ gs = DropOuter(fs)
    \/ /\ IsFailed(StepAt(fs))
       /\ IF HasParent(fs) THEN /\ FailureOf(fs, {"context_exceeded_limit"})
                                /\ RateOf(fs) > HalfRate
                           ELSE StepAt(fs).error.kind \notin ToolErrors
       /\ gs = fs

\* What the core does: ask, run a call, compact, resume.
CoreStepOf(fs, gs, retries) ==
    \/ /\ CallsOf(fs)
       /\ \E calls \in Batches, tail \in RequestTails :
             CreateOf(fs, gs, RequestExecutor(tail, calls, <<>>), EmptyDelta, retries)
    \/ /\ CallsOf(fs)
       /\ \E tail \in RequestTails, reply \in {<<>>, <<AssistantMessage(<<>>)>>},
             next \in {RequestProvider, TurnEnd} :
             CreateOf(fs, gs, next, Messages(tail \o reply), retries)
    \/ /\ StepAt(fs).kind = "request_executor"
       /\ LET turn == StepAt(fs)
              results == Append(turn.results, turn.calls[Len(turn.results) + 1])
          IN IF Len(turn.results) >= Len(turn.calls)
             THEN ReplaceOf(fs, gs, RequestProvider, EmptyDelta, retries)
             ELSE IF TurnCompletes(turn.calls, results)
             THEN CreateOf(fs, gs, RequestProvider,
                      Messages(TurnMessages(turn.pending, turn.calls, results)), retries)
             ELSE ReplaceOf(fs, gs, RequestExecutor(turn.pending, turn.calls, results),
                      EmptyDelta, retries)
    \/ /\ StepAt(fs).kind = "request_compact"
       /\ CreateOf(fs, gs, Compacted, Messages(Compact(History(fs), StepAt(fs).rate)), retries)
    \/ /\ StepAt(fs).kind \in {"compacted", "turn_end"}
       /\ CreateOf(fs, gs, RequestProvider, EmptyDelta, retries)

StepOf(fs, gs) ==
    \/ FailStepOf(fs, gs)
    \/ \E retries \in RetryBudgets : ModuleStepOf(fs, gs, retries) \/ CoreStepOf(fs, gs, retries)

\* The input of an invocation.
AppendOf(fs, gs) ==
    /\ Len(History(fs)) < MaxHistory
    /\ \E input \in Inputs :
          LET next == ReplaceOuter(fs, StepAt(fs), Then(Outer(fs).delta, Messages(input)))
          IN ValidFrames(next) /\ gs = next

\* What is looked at, and what the bounces do, is the same of frames.
LEMMA StepViews ==
  /\ CanGrow <=> CanGrowOf(frames)
  /\ BaseStep = StepAt(frames)
  /\ AtProvider <=> ProviderOf(frames)
  /\ \A classes : AtFailure(classes) <=> FailureOf(frames, classes)
  /\ OverBudget <=> BudgetOf(frames)
  /\ \A retries : RetryApplies(retries) <=> RetryOf(frames, retries)
  /\ NextAttempt = AttemptOf(frames)
  /\ OverThreshold <=> ThresholdOf(frames)
  /\ RecoveryRate = RateOf(frames)
  /\ CallsProvider <=> CallsOf(frames)
<1>1. /\ CanGrow <=> CanGrowOf(frames)
      /\ BaseStep = StepAt(frames)
      /\ AtProvider <=> ProviderOf(frames)
  BY DEF CanGrow, CanGrowOf, BaseStep, StepAt, AtProvider, ProviderOf
<1>2. /\ \A classes : AtFailure(classes) <=> FailureOf(frames, classes)
      /\ OverBudget <=> BudgetOf(frames)
  BY <1>1 DEF AtFailure, FailureOf, OverBudget, BudgetOf
<1>3. /\ \A retries : RetryApplies(retries) <=> RetryOf(frames, retries)
      /\ NextAttempt = AttemptOf(frames)
  BY <1>2 DEF RetryApplies, RetryOf, ProviderAncestor, NextAttempt, AttemptOf
<1>4. OverThreshold <=> ThresholdOf(frames)
  BY <1>1 DEF OverThreshold, ThresholdOf, RetryState
<1>5. RecoveryRate = RateOf(frames)
  BY DEF RecoveryRate, RateOf
<1> QED
  BY <1>1, <1>2, <1>3, <1>4, <1>5 DEF CallsProvider, CallsOf

LEMMA StepBounces ==
  /\ \A error : RuntimeFailed(error) <=> FailOf(frames, frames', error)
  /\ \A step, delta, retries :
        CreateNextStep(step, delta, retries) <=> CreateOf(frames, frames', step, delta, retries)
  /\ \A step, delta, retries :
        ReplaceBaseStep(step, delta, retries) <=> ReplaceOf(frames, frames', step, delta, retries)
<1>1. \A error : RuntimeFailed(error) <=> FailOf(frames, frames', error)
  BY StepViews DEF RuntimeFailed, FailOf
<1>2. \A step, delta, retries : CarryRetry(step, delta, retries) = CarryOf(frames, step, delta, retries)
  BY DEF CarryRetry, CarryOf, RetryState
<1> QED
  BY <1>1, <1>2, StepViews DEF CreateNextStep, CreateOf, ReplaceBaseStep, ReplaceOf

\* An evaluated step relates the chain before it to the chain after it.
LEMMA StepsRelate == AgentStep => StepOf(frames, frames')
<1> USE StepViews, StepBounces
<1>1. ProviderFails \/ ToolFails \/ CompactFails => FailStepOf(frames, frames')
  BY DEF ProviderFails, ToolFails, CompactFails, FailStepOf, RunsTool
<1>2. ASSUME NEW retries \in RetryBudgets,
             \/ StepBudgetEndsTurn(retries) \/ RetryModel(retries) \/ RetryExhausted(retries)
             \/ AutoCompact(retries)
      PROVE  ModuleStepOf(frames, frames', retries)
  BY <1>2 DEF StepBudgetEndsTurn, RetryModel, RetryExhausted, AutoCompact, ModuleStepOf
<1>3. ASSUME NEW retries \in RetryBudgets,
             \/ RecoverContextOverflow(retries) \/ RecoverToolFailure(retries)
             \/ RollbackFailure(retries) \/ KeepFailure(retries)
      PROVE  ModuleStepOf(frames, frames', retries)
  BY <1>3 DEF RecoverContextOverflow, RecoverToolFailure, RollbackFailure, RollbackStep,
              KeepFailure, KeepBaseStep, GivesUp, ModuleStepOf
<1>4. ASSUME NEW retries \in RetryBudgets,
             \/ ProviderCallsTools(retries) \/ ProviderReplies(retries)
             \/ ToolSucceeds(retries) \/ CompactSucceeds(retries)
             \/ ResumeCompacted(retries) \/ ResumeTurnEnd(retries)
      PROVE  CoreStepOf(frames, frames', retries)
  BY <1>4 DEF ProviderCallsTools, ProviderReplies, ToolSucceeds, RunsTool, CompactSucceeds,
              ResumeCompacted, ResumeTurnEnd, CoreStepOf
<1> QED
  BY <1>1, <1>2, <1>3, <1>4 DEF AgentStep, StepOf

\* And a chain that the relation allows is one that a step may lead to: what is
\* said of the relation is said of the steps.
LEMMA RelatedAgentSteps == StepOf(frames, frames') => AgentStep
<1> USE StepViews, StepBounces
<1>1. FailStepOf(frames, frames') => ProviderFails \/ ToolFails \/ CompactFails
  BY DEF ProviderFails, ToolFails, CompactFails, FailStepOf, RunsTool
<1>2. ASSUME NEW retries \in RetryBudgets, ModuleStepOf(frames, frames', retries)
      PROVE  \/ StepBudgetEndsTurn(retries) \/ RetryModel(retries)
             \/ RetryExhausted(retries) \/ AutoCompact(retries)
             \/ RecoverContextOverflow(retries) \/ RecoverToolFailure(retries)
             \/ RollbackFailure(retries) \/ KeepFailure(retries)
  BY <1>2
  DEF StepBudgetEndsTurn, RetryModel, RetryExhausted, AutoCompact, RecoverContextOverflow,
      RecoverToolFailure, RollbackFailure, RollbackStep, KeepFailure, KeepBaseStep, GivesUp,
      ModuleStepOf
<1>3. ASSUME NEW retries \in RetryBudgets, CoreStepOf(frames, frames', retries)
      PROVE  \/ ProviderCallsTools(retries) \/ ProviderReplies(retries)
             \/ ToolSucceeds(retries) \/ CompactSucceeds(retries)
             \/ ResumeCompacted(retries) \/ ResumeTurnEnd(retries)
  BY <1>3
  DEF ProviderCallsTools, ProviderReplies, ToolSucceeds, RunsTool, CompactSucceeds,
      ResumeCompacted, ResumeTurnEnd, CoreStepOf
<1> QED
  BY <1>1, <1>2, <1>3 DEF AgentStep, StepOf

-------------------------------------------------------------------------------
(* What recovery leaves of compaction: every compact request stands on a       *)
(* request, at the first rate, or on another, at the next; and the context     *)
(* was exceeded by one of the two.                                             *)

OnRung(step, below) ==
    /\ step.kind = "request_compact" =>
          \/ IsRequestProvider(below) /\ step.rate = FirstRate
          \/ below.kind = "request_compact" /\ step.rate = NextRate(below.rate)
    /\ IsFailed(step) /\ step.error.kind = "context_exceeded_limit" =>
          below.kind \in {"request_provider", "request_compact"}

Climbs(fs) ==
    /\ fs[1].step.kind # "request_compact"
    /\ \A i \in 2 .. Len(fs) : OnRung(fs[i].step, fs[i - 1].step)

\* Other steps may stand anywhere.
LEMMA OtherSteps ==
  ASSUME NEW step, NEW below, step.kind # "request_compact", ~IsFailed(step)
  PROVE  OnRung(step, below)
  BY DEF OnRung

\* A frame on top of the chain.
LEMMA BranchClimbs ==
  ASSUME NEW fs, WellFormed(fs), Climbs(fs), NEW step, NEW delta, OnRung(step, Outer(fs).step)
  PROVE  Climbs(Branch(fs, step, delta))
<1> DEFINE n == Len(fs)
           new == [step |-> step, delta |-> delta]
           next == Append(fs, new)
<1>1. n \in Nat /\ n > 0 /\ fs \in Seq(Frame)
  BY WellFormedFrames DEF WellFormed
<1>2. /\ Len(next) = n + 1 /\ next[n + 1] = new /\ new.step = step
      /\ \A i \in 1 .. n : next[i] = fs[i]
  BY <1>1
<1> HIDE DEF new, next
<1>3. next[1].step.kind # "request_compact"
  BY <1>1, <1>2 DEF Climbs
<1>4. ASSUME NEW i \in 2 .. n + 1 PROVE OnRung(next[i].step, next[i - 1].step)
  <2>1. CASE i = n + 1
    <3>1. next[n] = fs[n] /\ i - 1 = n
      BY <1>1, <1>2, <2>1
    <3> QED
      BY <1>2, <2>1, <3>1 DEF Outer
  <2>2. CASE i # n + 1
    <3>1. i \in 2 .. n /\ i \in 1 .. n /\ i - 1 \in 1 .. n
      BY <1>1, <2>2
    <3>2. OnRung(fs[i].step, fs[i - 1].step)
      BY <3>1 DEF Climbs
    <3> QED
      BY <1>2, <3>1, <3>2
  <2> QED
    BY <2>1, <2>2
<1>5. Climbs(next)
  BY <1>2, <1>3, <1>4 DEF Climbs
<1> QED
  BY <1>5 DEF next, new, Branch

\* Another outermost frame.
LEMMA ReplaceClimbs ==
  ASSUME NEW fs, WellFormed(fs), Climbs(fs), NEW step, NEW delta,
         HasParent(fs) => OnRung(step, Parent(fs).step),
         ~HasParent(fs) => step.kind # "request_compact"
  PROVE  Climbs(ReplaceOuter(fs, step, delta))
<1> DEFINE n == Len(fs)
           new == [step |-> step, delta |-> delta]
           next == [fs EXCEPT ![n] = new]
<1>1. n \in Nat /\ n > 0 /\ fs \in Seq(Frame) /\ DOMAIN fs = 1 .. n
  BY WellFormedFrames, SMTT(30) DEF WellFormed
<1>2. /\ Len(next) = n /\ new.step = step
      /\ \A i \in 1 .. n : next[i] = IF i = n THEN new ELSE fs[i]
  BY <1>1
<1> HIDE DEF new, next
<1>3. next[1].step.kind # "request_compact"
  <2>1. 1 \in 1 .. n /\ (n = 1 => ~HasParent(fs))
    BY <1>1, SMTT(30) DEF HasParent
  <2> QED
    BY <1>2, <2>1 DEF Climbs
<1>4. ASSUME NEW i \in 2 .. n PROVE OnRung(next[i].step, next[i - 1].step)
  <2>1. i \in 1 .. n /\ i - 1 \in 1 .. n /\ i - 1 # n
    BY <1>1
  <2>2. next[i - 1] = fs[i - 1] /\ OnRung(fs[i].step, fs[i - 1].step)
    BY <1>2, <2>1 DEF Climbs
  <2>3. CASE i = n
    BY <1>2, <2>1, <2>2, <2>3 DEF HasParent, Parent
  <2>4. CASE i # n
    BY <1>2, <2>1, <2>2, <2>4
  <2> QED
    BY <2>3, <2>4
<1>5. Climbs(next)
  BY <1>2, <1>3, <1>4 DEF Climbs
<1> QED
  BY <1>5 DEF next, new, ReplaceOuter

\* What is left of a chain.
LEMMA PrefixClimbs ==
  ASSUME NEW fs, WellFormed(fs), Climbs(fs), NEW n \in 1 .. Len(fs)
  PROVE  Climbs(SubSeq(fs, 1, n))
<1> DEFINE next == SubSeq(fs, 1, n)
<1>1. fs \in Seq(Frame) /\ Len(fs) \in Nat /\ n \in 0 .. Len(fs)
  BY WellFormedFrames DEF WellFormed
<1>2. Len(next) = n /\ \A i \in 1 .. n : next[i] = fs[i]
  BY <1>1, PrefixOf
<1> HIDE DEF next
<1>3. next[1].step.kind # "request_compact"
  BY <1>2 DEF Climbs
<1>4. ASSUME NEW i \in 2 .. n PROVE OnRung(next[i].step, next[i - 1].step)
  <2>1. i \in 1 .. n /\ i - 1 \in 1 .. n /\ i \in 2 .. Len(fs)
    BY <1>1
  <2> QED
    BY <1>2, <2>1 DEF Climbs
<1>5. Climbs(next)
  BY <1>2, <1>3, <1>4 DEF Climbs
<1> QED
  BY <1>5 DEF next

\* The frame below the outermost one.
LEMMA ParentFrame ==
  ASSUME NEW fs, WellFormed(fs), HasParent(fs)
  PROVE  /\ Len(fs) - 1 \in 1 .. Len(fs) /\ Len(fs) \in 2 .. Len(fs)
         /\ Parent(fs) = fs[Len(fs) - 1] /\ Parent(fs).step \in Step
  BY WellFormedFrames DEF HasParent, Parent

\* An evaluated step keeps to the rates.
LEMMA StepsClimb ==
  ASSUME WellFormed(frames), Climbs(frames), AgentStep
  PROVE  Climbs(frames')
<1>1. Len(frames) \in Nat /\ Len(frames) > 0 /\ BaseStep = Outer(frames).step
  BY WellFormedFrames DEF BaseStep
<1>2. CASE Publishes
  <2>1. PICK step \in Step, ms \in Seq(Message), retries \in RetryBudgets :
           /\ ~IsFailed(step) /\ Follows(step, ms)
           /\ frames' = Branch(frames, step, CarryRetry(step, Messages(ms), retries))
    BY <1>2 DEF Publishes
  <2>2. step.kind = "request_compact" => IsRequestProvider(BaseStep) /\ step.rate = FirstRate
    BY <2>1 DEF Follows, AtProvider, RequestProvider, TurnEnd, RequestExecutor, Compacted,
                RequestCompact
  <2>3. OnRung(step, BaseStep)
    BY <2>1, <2>2 DEF OnRung
  <2> QED
    BY <1>1, <2>1, <2>3, BranchClimbs
<1>3. CASE Fails
  <2>1. PICK error :
           /\ error.kind = "context_exceeded_limit" =>
                 BaseStep.kind \in {"request_provider", "request_compact"}
           /\ frames' = Branch(frames, Failed(error), EmptyDelta)
    BY <1>3 DEF Fails
  <2>2. OnRung(Failed(error), BaseStep)
    BY <2>1 DEF OnRung, Failed
  <2> QED
    BY <1>1, <2>1, <2>2, BranchClimbs
<1>4. CASE Replaces
  <2>1. PICK step \in Step, delta \in Delta, retries \in RetryBudgets :
           /\ ~IsFailed(step) /\ TakesOver(step, delta, retries)
           /\ frames' = ReplaceOuter(frames, step,
                           CarryRetry(step, Then(Outer(frames).delta, delta), retries))
    BY <1>4 DEF Replaces
  <2>2. step.kind = "request_compact" =>
           /\ HasParent(frames) /\ RecoveryRate <= HalfRate /\ step.rate = RecoveryRate
    BY <2>1 DEF TakesOver, RequestProvider, RequestExecutor, RequestCompact
  <2>3. step.kind = "request_compact" => OnRung(step, Parent(frames).step)
    <3> SUFFICES ASSUME step.kind = "request_compact" PROVE OnRung(step, Parent(frames).step)
      OBVIOUS
    <3>1. RecoveryRate # RateUnit
      BY <2>2, SMT DEF RateUnit, HalfRate
    <3>2. \/ /\ Parent(frames).step.kind = "request_provider" /\ RecoveryRate = FirstRate
          \/ /\ Parent(frames).step.kind = "request_compact"
             /\ RecoveryRate = NextRate(Parent(frames).step.rate)
      BY <3>1 DEF RecoveryRate
    <3> QED
      BY <2>1, <2>2, <3>2 DEF OnRung, IsRequestProvider
  <2>4. step.kind # "request_compact" => OnRung(step, Parent(frames).step)
    BY <2>1, OtherSteps
  <2> QED
    BY <2>1, <2>2, <2>3, <2>4, ReplaceClimbs
<1>5. CASE RollsBack
  <2>1. frames' = SubSeq(frames, 1, Len(frames) - 1) /\ Len(frames) - 1 \in 1 .. Len(frames)
    BY <1>1, <1>5 DEF RollsBack, HasParent, DropOuter, Front
  <2> QED
    BY <2>1, PrefixClimbs
<1>6. CASE StaysFailed
  BY <1>6 DEF StaysFailed
<1> QED
  BY <1>2, <1>3, <1>4, <1>5, <1>6, AgentOutcomes

\* So does a session command: it keeps the step, or puts another in its place
\* that is neither a compact request nor a failure.
LEMMA CommandsClimb ==
  ASSUME WellFormed(frames), Climbs(frames), SessionCommand
  PROVE  Climbs(frames')
<1>1. Len(frames) \in Nat /\ Len(frames) > 0 /\ BaseStep = Outer(frames).step
  BY WellFormedFrames DEF BaseStep
<1>2. /\ RequestProvider.kind # "request_compact" /\ ~IsFailed(RequestProvider)
      /\ \A below : OnRung(RequestProvider, below)
  BY OtherSteps DEF RequestProvider, IsFailed
<1>3. ASSUME NEW delta, frames' = ReplaceOuter(frames, BaseStep, delta) PROVE Climbs(frames')
  <2>1. HasParent(frames) => OnRung(BaseStep, Parent(frames).step)
    BY <1>1, ParentFrame DEF Climbs, Outer
  <2>2. ~HasParent(frames) => Len(frames) = 1
    <3> DEFINE n == Len(frames)
    <3>1. n \in Nat /\ n > 0 /\ (HasParent(frames) <=> n > 1)
      BY <1>1 DEF HasParent
    <3> HIDE DEF n
    <3>2. n > 1 \/ n = 1
      BY <3>1
    <3> QED
      BY <3>1, <3>2 DEF n
  <2>3. ~HasParent(frames) => BaseStep.kind # "request_compact"
    BY <1>1, <2>2 DEF Outer, Climbs
  <2> QED
    BY <1>3, <2>1, <2>3, ReplaceClimbs
<1>4. ASSUME NEW step, NEW delta, step.kind # "request_compact", ~IsFailed(step),
             frames' = ReplaceOuter(frames, step, delta)
      PROVE  Climbs(frames')
  BY <1>4, OtherSteps, ReplaceClimbs
<1>5. ASSUME NEW delta, frames' = Branch(frames, RequestProvider, delta) PROVE Climbs(frames')
  BY <1>2, <1>5, BranchClimbs
<1>6. CASE \/ AppendMessages
           \/ \E key \in UserKeys, value \in UserValues : StoreJson(key, value)
           \/ \E key \in UserKeys : RemoveKey(key)
  BY <1>3, <1>6 DEF AppendMessages, StoreJson, RemoveKey, Transform
<1>7. CASE NextProvider
  BY <1>5, <1>7 DEF NextProvider, Transform
<1>8. CASE ReplaceProvider
  BY <1>2, <1>4, <1>8 DEF ReplaceProvider, Transform
<1>9. CASE InsertToolResult
  <2> DEFINE turn == BaseStep
             ran == Append(turn.results, turn.calls[Len(turn.results) + 1])
             delta == Messages(TurnMessages(turn.pending, turn.calls, ran))
             step == RequestExecutor(turn.pending, turn.calls, ran)
  <2>1. \/ frames' = Branch(frames, RequestProvider, delta)
        \/ frames' = ReplaceOuter(frames, step, Outer(frames).delta)
    BY <1>9 DEF InsertToolResult, Transform
  <2>2. step.kind # "request_compact" /\ ~IsFailed(step)
    BY DEF RequestExecutor, IsFailed
  <2> HIDE DEF delta, step
  <2> QED
    BY <1>4, <1>5, <2>1, <2>2
<1>10. CASE Rollback \/ RollbackTo
  <2>1. CASE RollbackTo
    BY <2>1, PrefixOfKind, PrefixClimbs
  <2>2. CASE Rollback /\ HasParent(frames)
    <3>1. frames' = SubSeq(frames, 1, Len(frames) - 1) /\ Len(frames) - 1 \in 1 .. Len(frames)
      BY <1>1, <2>2 DEF Rollback, Transform, DropOuter, HasParent, Front
    <3> QED
      BY <3>1, PrefixClimbs
  <2>3. CASE Rollback /\ ~HasParent(frames)
    BY <2>3 DEF Rollback, Transform, DropOuter
  <2> QED
    BY <1>10, <2>1, <2>2, <2>3
<1> QED
  BY <1>6, <1>7, <1>8, <1>9, <1>10 DEF SessionCommand

LEMMA ClimbingKept ==
  /\ Init => WellFormed(frames) /\ Climbs(frames)
  /\ WellFormed(frames) /\ Climbs(frames) /\ [SessionNext]_frames
        => (WellFormed(frames) /\ Climbs(frames))'
<1>1. ASSUME Init PROVE WellFormed(frames) /\ Climbs(frames)
  <2> DEFINE root == [step |-> RequestProvider, delta |-> Messages(<<SystemMessage>>)]
  <2>1. frames = <<root>> /\ root.step.kind = "request_provider"
    BY <1>1 DEF Init, Branch, RequestProvider
  <2> HIDE DEF root
  <2>2. Len(frames) = 1 /\ frames[1] = root
    BY <2>1
  <2> QED
    BY <1>1, <2>1, <2>2, InitWellFormed DEF Climbs
<1>2. ASSUME WellFormed(frames), Climbs(frames), [SessionNext]_frames
      PROVE  (WellFormed(frames) /\ Climbs(frames))'
  <2>1. CASE AgentStep
    BY <1>2, <2>1, AgentOutcomes, OutcomesKeep, StepsClimb
  <2>2. CASE SessionCommand
    BY <1>2, <2>2, CommandsKeep, CommandsClimb
  <2>3. CASE UNCHANGED frames
    BY <1>2, <2>3
  <2> QED
    BY <1>2, <2>1, <2>2, <2>3 DEF SessionNext
<1> QED
  BY <1>1, <1>2

\* A failure is kept only when every rate was tried.
LEMMA KeptIsExhausted ==
  ASSUME WellFormed(frames), Climbs(frames), GivesUp
  PROVE  Exhausted
<1> DEFINE n == Len(frames)
           last == frames[n - 1].step
<1>1. /\ n \in Nat /\ n > 0 /\ BaseStep = frames[n].step /\ BaseStep \in Step
      /\ \A i \in 1 .. n : frames[i].step \in Step
  BY WellFormedFrames DEF BaseStep, Outer
<1>2. IsFailed(BaseStep) /\ n > 1
  BY <1>1, WellFormedFrames DEF GivesUp, FrameFits
<1>3. /\ BaseStep.error.kind = "context_exceeded_limit" /\ RecoveryRate > HalfRate
      /\ Parent(frames).step = last
  BY <1>2 DEF GivesUp, AtFailure, HasParent, Parent
<1>4. BaseStep = Failed(Error("context_exceeded_limit"))
  <2>1. BaseStep = Failed(BaseStep.error) /\ BaseStep.error \in ErrorSet
    BY <1>1, <1>2, StepFields
  <2>2. BaseStep.error = Error("context_exceeded_limit")
    BY <1>3, <2>1 DEF ErrorSet, ToolTurn, ToolErrors, Error
  <2> QED
    BY <2>1, <2>2
<1>5. \A i \in 2 .. n : OnRung(frames[i].step, frames[i - 1].step)
  BY DEF Climbs
<1>6. last.kind \in {"request_provider", "request_compact"}
  <2>1. n \in 2 .. n
    BY <1>1, <1>2
  <2> QED
    BY <1>1, <1>2, <1>3, <1>5, <2>1 DEF OnRung
<1>7. last.kind = "request_compact" /\ NextRate(last.rate) > HalfRate
  <2>1. last.kind # "request_provider"
    <3> SUFFICES ASSUME last.kind = "request_provider" PROVE FALSE
      OBVIOUS
    <3>1. RecoveryRate = FirstRate
      BY <1>3 DEF RecoveryRate
    <3> QED
      BY <1>3, <3>1, SMT DEF FirstRate, HalfRate
  <2>2. RecoveryRate = NextRate(last.rate)
    BY <1>3, <1>6, <2>1 DEF RecoveryRate
  <2> QED
    BY <1>3, <1>6, <2>1, <2>2
<1> DEFINE others == {i \in 1 .. n - 1 : frames[i].step.kind # "request_compact"}
           i == Max(others)
<1>8. i \in others /\ \A j \in others : j <= i
  <2>1. 1 \in others /\ others \in SUBSET (0 .. n - 1) /\ n - 1 \in Nat
    BY <1>1, <1>2 DEF Climbs
  <2> HIDE DEF others
  <2> QED
    BY <2>1, MaxOf
<1>9. i \in 1 .. n - 1 /\ frames[i].step.kind # "request_compact"
  BY <1>8
<1>10. \A j \in i + 1 .. n - 1 : frames[j].step.kind = "request_compact"
  <2> SUFFICES ASSUME NEW j \in i + 1 .. n - 1, frames[j].step.kind # "request_compact"
               PROVE  FALSE
    OBVIOUS
  <2> HIDE DEF i
  <2>1. j \in others /\ ~(j <= i)
    BY <1>1, <1>9
  <2> QED
    BY <1>8, <2>1 DEF i
<1> HIDE DEF i, others
<1>11. i \in 1 .. n - 2
  <2>1. i # n - 1
    BY <1>7, <1>9
  <2> QED
    BY <1>1, <1>9, <2>1
<1>12. ASSUME NEW j \in i + 1 .. n - 1 PROVE frames[j].step = RequestCompact(frames[j].step.rate)
  <2>1. frames[j].step \in Step /\ frames[j].step.kind = "request_compact"
    BY <1>1, <1>10, <1>11
  <2> QED
    BY <2>1 DEF Step, ToolTurn, RequestCompact
<1>13. IsRequestProvider(frames[i].step) /\ frames[i + 1].step = RequestCompact(FirstRate)
  <2>1. i + 1 \in 2 .. n /\ i + 1 \in i + 1 .. n - 1 /\ (i + 1) - 1 = i
    BY <1>1, <1>11
  <2>2. OnRung(frames[i + 1].step, frames[i].step) /\ frames[i + 1].step.kind = "request_compact"
    BY <1>5, <1>10, <2>1
  <2>3. IsRequestProvider(frames[i].step) /\ frames[i + 1].step.rate = FirstRate
    BY <1>9, <2>2 DEF OnRung
  <2> QED
    BY <1>12, <2>1, <2>3
<1>14. ASSUME NEW j \in i + 2 .. n - 1
       PROVE  frames[j].step = RequestCompact(NextRate(frames[j - 1].step.rate))
  <2>1. j \in 2 .. n /\ j \in i + 1 .. n - 1 /\ j - 1 \in i + 1 .. n - 1
    BY <1>1, <1>11
  <2>2. /\ OnRung(frames[j].step, frames[j - 1].step)
        /\ frames[j].step.kind = "request_compact" /\ frames[j - 1].step.kind = "request_compact"
    BY <1>5, <1>10, <2>1
  <2>3. frames[j].step.rate = NextRate(frames[j - 1].step.rate)
    BY <2>2 DEF OnRung, IsRequestProvider
  <2> QED
    BY <1>12, <2>1, <2>3
<1> QED
  BY <1>4, <1>7, <1>11, <1>13, <1>14 DEF Exhausted

\* When every rate was tried, all a step does is keep the failure.
LEMMA ExhaustedIsKept ==
  ASSUME WellFormed(frames), Exhausted, NEW gs, StepOf(frames, gs)
  PROVE  gs = frames
<1> DEFINE n == Len(frames)
<1>1. n \in Nat /\ n > 0
  BY WellFormedFrames
<1>2. BaseStep.kind = "failed" /\ BaseStep.error.kind = "context_exceeded_limit"
  BY DEF Exhausted, Failed, Error
<1>3. PICK i \in 1 .. n - 2 :
         /\ frames[i + 1].step = RequestCompact(FirstRate)
         /\ \A j \in i + 2 .. n - 1 :
               frames[j].step = RequestCompact(NextRate(frames[j - 1].step.rate))
  BY DEF Exhausted
<1>4. frames[n - 1].step.kind = "request_compact" /\ HasParent(frames)
  <2>1. n - 1 = i + 1 \/ n - 1 \in i + 2 .. n - 1
    BY <1>1
  <2>2. \A rate : RequestCompact(rate).kind = "request_compact"
    BY DEF RequestCompact
  <2>3. n - 1 = i + 1 => frames[n - 1].step.kind = "request_compact"
    BY <1>3, <2>2
  <2>4. n - 1 \in i + 2 .. n - 1 => frames[n - 1].step.kind = "request_compact"
    BY <1>3, <2>2
  <2> QED
    BY <1>1, <2>1, <2>3, <2>4 DEF HasParent
<1>5. RecoveryRate > HalfRate
  <2>1. RecoveryRate = NextRate(frames[n - 1].step.rate)
    BY <1>4 DEF RecoveryRate, Parent
  <2> QED
    BY <2>1 DEF Exhausted
<1>6. ~(RateOf(frames) <= HalfRate)
  <2>1. RecoveryRate \in Nat /\ RecoveryRate = RateOf(frames)
    BY <1>4, RecoveryRateType, StepViews
  <2> QED
    BY <1>5, <2>1 DEF HalfRate
<1>7. StepAt(frames) = BaseStep
  BY StepViews
<1>8. /\ ~ProviderOf(frames) /\ ~BudgetOf(frames) /\ ~ThresholdOf(frames) /\ ~CallsOf(frames)
      /\ ~FailureOf(frames, ToolErrors) /\ \A retries : ~RetryOf(frames, retries)
  BY <1>2, <1>7 DEF ProviderOf, IsRequestProvider, BudgetOf, ThresholdOf, CallsOf, FailureOf,
     RetryOf, ToolErrors, RetryableErrors
<1>9. ~FailStepOf(frames, gs)
  BY <1>2, <1>7, <1>8 DEF FailStepOf
<1>10. ASSUME NEW retries PROVE ~CoreStepOf(frames, gs, retries)
  BY <1>2, <1>7, <1>8 DEF CoreStepOf
<1>11. ASSUME NEW retries, ModuleStepOf(frames, gs, retries) PROVE gs = frames
  BY <1>2, <1>4, <1>6, <1>7, <1>8, <1>11 DEF ModuleStepOf
<1> QED
  BY <1>9, <1>10, <1>11 DEF StepOf

\* Whatever a step makes of what it computed, it leads to another chain: a step
\* that is refused becomes a failure.
LEMMA BouncesLeadOn ==
  ASSUME WellFormed(frames), CanGrowOf(frames), NEW step, NEW delta, NEW retries
  PROVE  /\ \E gs : CreateOf(frames, gs, step, delta, retries) /\ gs # frames
         /\ step # StepAt(frames) =>
               \E gs : ReplaceOf(frames, gs, step, delta, retries) /\ gs # frames
<1> DEFINE failed == Branch(frames, Failed(Error("session")), EmptyDelta)
           created == Branch(frames, step, CarryOf(frames, step, delta, retries))
           carried == CarryOf(frames, step, Then(Outer(frames).delta, delta), retries)
           replaced == ReplaceOuter(frames, step, carried)
<1>1. FailOf(frames, failed, Error("session"))
  BY DEF FailOf
<1>2. CreateOf(frames, IF ValidReactStep(step) THEN created ELSE failed, step, delta, retries)
  BY <1>1 DEF CreateOf
<1>3. ReplaceOf(frames, IF ValidReactStep(step) /\ (step.kind = "compacted" => HasParent(frames))
                    THEN replaced ELSE failed, step, delta, retries)
  BY <1>1 DEF ReplaceOf
<1>4. frames \in Seq(Frame) /\ Len(frames) \in Nat /\ Len(frames) > 0
  BY WellFormedFrames DEF WellFormed
<1>5. failed # frames /\ created # frames
  <2>1. \A frame : Len(Append(frames, frame)) = Len(frames) + 1
    BY <1>4
  <2>2. \A frame : Append(frames, frame) # frames
    BY <1>4, <2>1
  <2> QED
    BY <2>2 DEF Branch
<1>6. step # StepAt(frames) => replaced # frames
  <2> DEFINE new == [step |-> step, delta |-> carried]
  <2>1. Len(frames) \in DOMAIN frames /\ replaced = [frames EXCEPT ![Len(frames)] = new]
    BY <1>4 DEF ReplaceOuter
  <2>2. new.step = step
    OBVIOUS
  <2> HIDE DEF new, replaced
  <2>3. replaced[Len(frames)] = new
    BY <2>1
  <2> QED
    BY <2>2, <2>3 DEF StepAt, Outer
<1> HIDE DEF failed, created, replaced
<1> QED
  BY <1>2, <1>3, <1>5, <1>6

\* A failure that is not exhausted is retried, recovered from or taken back.
LEMMA FailuresLeadOn ==
  ASSUME WellFormed(frames), Climbs(frames), CanGrow, IsFailed(BaseStep), ~Exhausted,
         NEW retries \in RetryBudgets
  PROVE  \E gs : ModuleStepOf(frames, gs, retries) /\ gs # frames
<1> DEFINE class == BaseStep.error.kind
<1>1. /\ CanGrowOf(frames) /\ StepAt(frames) = BaseStep /\ Len(frames) \in Nat
      /\ \A step : ~IsFailed(step) => step # StepAt(frames)
  BY WellFormedFrames, StepViews
<1>2. /\ \A classes : FailureOf(frames, classes) <=> class \in classes
      /\ ~IsFailed(RequestProvider) /\ \A rate : ~IsFailed(RequestCompact(rate))
  BY <1>1 DEF FailureOf, IsFailed, RequestProvider, RequestCompact
<1>0. HasParent(frames)
  BY <1>1, WellFormedFrames DEF FrameFits, HasParent, BaseStep, Outer
<1>3. CASE RetryOf(frames, retries)
  <2>1. AttemptOf(frames) \in Nat
    BY <1>3, StepViews, NextAttemptType DEF RetryOf, ProviderAncestor
  <2>2. retries \in Int
    BY RetryAssumption DEF NoRetry
  <2>3. AttemptOf(frames) <= retries \/ AttemptOf(frames) > retries
    BY <2>1, <2>2
  <2>4. \/ \E gs : ReplaceOf(frames, gs, RequestProvider,
                        StoreIn(EmptyDelta, RetryKey, AttemptOf(frames)), retries)
           /\ gs # frames /\ AttemptOf(frames) <= retries
        \/ \E gs : ReplaceOf(frames, gs, RequestProvider, RemoveIn(EmptyDelta, RetryKey), retries)
           /\ gs # frames /\ AttemptOf(frames) > retries
    BY <1>1, <1>2, <2>3, BouncesLeadOn
  <2> QED
    BY <1>3, <2>4 DEF ModuleStepOf
<1>4. CASE class \in ToolErrors
  <2> DEFINE turn == StepAt(frames).error
             done == Len(turn.results)
             delta == Messages(TurnMessages(turn.pending, SubSeq(turn.calls, 1, done + 1),
                                            Append(turn.results, turn.calls[done + 1])))
  <2>1. PICK gs : ReplaceOf(frames, gs, RequestProvider, delta, retries) /\ gs # frames
    BY <1>1, <1>2, BouncesLeadOn
  <2>2. FailureOf(frames, ToolErrors)
    BY <1>2, <1>4
  <2> QED
    BY <2>1, <2>2 DEF ModuleStepOf
<1>5. CASE class = "context_exceeded_limit"
  <2>1. FailureOf(frames, {"context_exceeded_limit"})
    BY <1>2, <1>5
  <2>2. RateOf(frames) \in Int /\ HalfRate \in Int
    <3>1. RecoveryRate \in Nat
      BY <1>0, RecoveryRateType
    <3> QED
      BY <3>1, StepViews DEF HalfRate
  <2>3. CASE RateOf(frames) <= HalfRate
    <3>1. PICK gs : /\ ReplaceOf(frames, gs, RequestCompact(RateOf(frames)), EmptyDelta, retries)
                    /\ gs # frames
      BY <1>1, <1>2, BouncesLeadOn
    <3> QED
      BY <1>0, <2>1, <2>3, <3>1 DEF ModuleStepOf
  <2>4. ~(RateOf(frames) > HalfRate)
    <3>1. RateOf(frames) > HalfRate => GivesUp
      BY <1>0, <2>1, StepViews DEF GivesUp
    <3> QED
      BY <3>1, KeptIsExhausted
  <2> QED
    BY <2>2, <2>3, <2>4
<1>6. CASE ~RetryOf(frames, retries) /\ class \notin ToolErrors \cup {"context_exceeded_limit"}
  <2>1. ModuleStepOf(frames, DropOuter(frames), retries)
    BY <1>0, <1>1, <1>6 DEF ModuleStepOf
  <2>2. DropOuter(frames) # frames
    <3>1. DropOuter(frames) = SubSeq(frames, 1, Len(frames) - 1)
      BY <1>0 DEF DropOuter, Front
    <3>2. Len(frames) - 1 \in 0 .. Len(frames) /\ frames \in Seq(Frame)
      BY <1>0, <1>1, ParentFrame DEF WellFormed
    <3>3. Len(DropOuter(frames)) = Len(frames) - 1
      BY <3>1, <3>2, PrefixOf
    <3> QED
      BY <1>1, <3>3
  <2> QED
    BY <2>1, <2>2
<1> QED
  BY <1>3, <1>4, <1>5, <1>6

\* A chain that does not end in a failure has the core, or a module before it.
LEMMA StepsLeadOn ==
  ASSUME WellFormed(frames), CanGrow, ~IsFailed(BaseStep), NEW retries \in RetryBudgets
  PROVE  \E gs : /\ ModuleStepOf(frames, gs, retries) \/ CoreStepOf(frames, gs, retries)
                 /\ gs # frames
<1>1. /\ CanGrowOf(frames) /\ StepAt(frames) = BaseStep
      /\ BaseStep \in Step
  BY WellFormedFrames, StepViews DEF BaseStep
<1>2. CASE ProviderOf(frames)
  <2>1. CASE BudgetOf(frames)
    <3>1. PICK gs : CreateOf(frames, gs, TurnEnd, EmptyDelta, retries) /\ gs # frames
      BY <1>1, BouncesLeadOn
    <3> QED
      BY <2>1, <3>1 DEF ModuleStepOf
  <2>2. CASE ~BudgetOf(frames) /\ ThresholdOf(frames)
    <3>1. PICK gs : CreateOf(frames, gs, RequestCompact(FirstRate), EmptyDelta, retries) /\ gs # frames
      BY <1>1, BouncesLeadOn
    <3> QED
      BY <2>2, <3>1 DEF ModuleStepOf
  <2>3. CASE CallsOf(frames)
    <3>1. PICK tail \in RequestTails : TRUE
      BY InputAssumption
    <3>2. PICK gs : CreateOf(frames, gs, TurnEnd, Messages(tail \o <<>>), retries) /\ gs # frames
      BY <1>1, BouncesLeadOn
    <3> QED
      BY <2>3, <3>2 DEF CoreStepOf
  <2> QED
    BY <1>2, <2>1, <2>2, <2>3 DEF CallsOf
<1>3. CASE BaseStep.kind = "request_executor"
  <2> DEFINE turn == StepAt(frames)
             results == Append(turn.results, turn.calls[Len(turn.results) + 1])
             Chosen(gs) ==
                 IF Len(turn.results) >= Len(turn.calls)
                 THEN ReplaceOf(frames, gs, RequestProvider, EmptyDelta, retries)
                 ELSE IF TurnCompletes(turn.calls, results)
                 THEN CreateOf(frames, gs, RequestProvider,
                          Messages(TurnMessages(turn.pending, turn.calls, results)), retries)
                 ELSE ReplaceOf(frames, gs, RequestExecutor(turn.pending, turn.calls, results),
                          EmptyDelta, retries)
  <2>1. /\ RequestProvider # turn
        /\ RequestExecutor(turn.pending, turn.calls, results) # turn
    <3>1. turn.results \in Seq(CallIds)
      BY <1>1, <1>3, StepFields
    <3>2. results # turn.results
      <4>1. \A call : Len(Append(turn.results, call)) = Len(turn.results) + 1
        BY <3>1
      <4>2. Len(turn.results) \in Nat
        BY <3>1
      <4> QED
        BY <4>1, <4>2
    <3> HIDE DEF results
    <3> QED
      BY <1>1, <1>3, <3>2 DEF RequestProvider, RequestExecutor
  <2> HIDE DEF turn, results
  <2>2. PICK gs : Chosen(gs) /\ gs # frames
    BY <1>1, <2>1, BouncesLeadOn DEF turn
  <2> USE DEF turn, results
  <2>3. CoreStepOf(frames, gs, retries)
    BY <1>1, <1>3, <2>2 DEF CoreStepOf
  <2> QED
    BY <2>2, <2>3
<1>4. CASE BaseStep.kind = "request_compact"
  <2>1. PICK gs : /\ CreateOf(frames, gs, Compacted,
                        Messages(Compact(History(frames), StepAt(frames).rate)), retries)
                  /\ gs # frames
    BY <1>1, BouncesLeadOn
  <2> QED
    BY <1>1, <1>4, <2>1 DEF CoreStepOf
<1>5. CASE BaseStep.kind \in {"compacted", "turn_end"}
  <2>1. PICK gs : CreateOf(frames, gs, RequestProvider, EmptyDelta, retries) /\ gs # frames
    BY <1>1, BouncesLeadOn
  <2> QED
    BY <1>1, <1>5, <2>1 DEF CoreStepOf
<1>6. BaseStep.kind \in {"request_provider", "compacted", "turn_end", "request_compact",
                         "request_executor", "failed"}
  BY <1>1, StepFields
<1> QED
  BY <1>1, <1>2, <1>3, <1>4, <1>5, <1>6 DEF IsFailed, ProviderOf, IsRequestProvider

\* Whatever the evaluator and session commands have made of a session, a step
\* changes it, or every rate of compaction has failed above one request; and
\* then no step does.  This is OnlyExhaustionIsFinal, with ENABLED spelled out.
THEOREM SessionsGoOnUntilExhausted ==
  SessionSpec => [](CanGrow => ((\E gs : StepOf(frames, gs) /\ gs # frames) <=> ~Exhausted))
<1>1. WellFormed(frames) /\ Climbs(frames) =>
         (CanGrow => ((\E gs : StepOf(frames, gs) /\ gs # frames) <=> ~Exhausted))
  <2> SUFFICES ASSUME WellFormed(frames), Climbs(frames), CanGrow
               PROVE  (\E gs : StepOf(frames, gs) /\ gs # frames) <=> ~Exhausted
    OBVIOUS
  <2>1. Exhausted => ~\E gs : StepOf(frames, gs) /\ gs # frames
    BY ExhaustedIsKept
  <2>2. ASSUME ~Exhausted PROVE \E gs : StepOf(frames, gs) /\ gs # frames
    <3>1. PICK retries \in RetryBudgets : TRUE
      BY RetryAssumption
    <3>2. \E gs : /\ ModuleStepOf(frames, gs, retries) \/ CoreStepOf(frames, gs, retries)
                  /\ gs # frames
      BY <2>2, FailuresLeadOn, StepsLeadOn
    <3> QED
      BY <3>2 DEF StepOf
  <2> QED
    BY <2>1, <2>2
<1> QED
  BY <1>1, ClimbingKept, PTL DEF SessionSpec

-------------------------------------------------------------------------------
(* The same definitions, of the file: File is PhiSession again, so each of its *)
(* operators is shown to be the one of the same name.                          *)

LEMMA SameDeltas ==
  /\ File!Missing = Missing /\ File!EmptyDelta = EmptyDelta
  /\ File!SystemMessage = SystemMessage /\ File!UserMessage = UserMessage
  /\ \A calls : File!AssistantMessage(calls) = AssistantMessage(calls)
  /\ \A ms : File!Messages(ms) = Messages(ms)
  /\ \A d, k : File!Affects(d, k) <=> Affects(d, k)
  /\ \A d, k, v : File!StoreIn(d, k, v) = StoreIn(d, k, v)
  /\ \A d, k : File!RemoveIn(d, k) = RemoveIn(d, k)
  /\ \A d, e : File!Then(d, e) = Then(d, e)
  BY DEF File!Missing, Missing, File!Removed, Removed, File!EmptyDelta, EmptyDelta,
         File!SystemMessage, SystemMessage, File!UserMessage, UserMessage,
         File!AssistantMessage, AssistantMessage, File!Stored, Stored, File!Messages, Messages,
         File!Affects, Affects, File!StoreIn, StoreIn, File!RemoveIn, RemoveIn,
         File!NoEffects, NoEffects, File!Then, Then

LEMMA SameExtremes ==
  /\ \A S : File!Max(S) = Max(S)
  /\ \A S : File!Min(S) = Min(S)
  /\ \A s : File!ToSet(s) = ToSet(s)
  BY DEF File!Max, Max, File!Min, Min, File!ToSet, ToSet

LEMMA SameChains ==
  /\ \A fs : File!Outer(fs) = Outer(fs)
  /\ \A fs : File!Parent(fs) = Parent(fs)
  /\ \A fs : File!HasParent(fs) <=> HasParent(fs)
  /\ \A fs, step, delta : File!Branch(fs, step, delta) = Branch(fs, step, delta)
  /\ \A fs, step, delta : File!ReplaceOuter(fs, step, delta) = ReplaceOuter(fs, step, delta)
  /\ \A fs : File!DropOuter(fs) = DropOuter(fs)
  BY DEF File!Outer, Outer, File!Parent, Parent, File!HasParent, HasParent, File!Branch, Branch,
         File!ReplaceOuter, ReplaceOuter, File!DropOuter, DropOuter, File!Front, Front

LEMMA SameLookups ==
  /\ \A fs : File!History(fs) = History(fs)
  /\ \A fs, key : File!Lookup(fs, key) = Lookup(fs, key)
  /\ \A fs, kind : File!FindAncestor(fs, kind) = FindAncestor(fs, kind)
<1>1. \A fs : File!History(fs) = History(fs)
  BY SMTT(30) DEF File!History, History, File!IsHistoryBarrier, IsHistoryBarrier
<1>2. \A fs, key : File!Lookup(fs, key) = Lookup(fs, key)
  BY SameExtremes DEF File!Lookup, Lookup, File!Affects, Affects, File!Missing, Missing,
                      File!Removed, Removed
<1>3. \A fs, kind : File!FindAncestor(fs, kind) = FindAncestor(fs, kind)
  BY SameExtremes DEF File!FindAncestor, FindAncestor
<1> QED
  BY <1>1, <1>2, <1>3

LEMMA SameSteps ==
  /\ File!RequestProvider = RequestProvider /\ File!Compacted = Compacted
  /\ File!TurnEnd = TurnEnd
  /\ \A rate : File!RequestCompact(rate) = RequestCompact(rate)
  /\ \A p, c, r : File!RequestExecutor(p, c, r) = RequestExecutor(p, c, r)
  /\ \A class : File!Error(class) = Error(class)
  /\ \A class, p, c, r : File!ToolFailure(class, p, c, r) = ToolFailure(class, p, c, r)
  /\ \A error : File!Failed(error) = Failed(error)
  /\ \A step : File!IsRequestProvider(step) <=> IsRequestProvider(step)
  /\ \A step : File!IsFailed(step) <=> IsFailed(step)
  /\ File!RetryableErrors = RetryableErrors /\ File!ToolErrors = ToolErrors
  /\ File!StepKinds = StepKinds /\ File!NoRetry = NoRetry
  BY DEF File!RequestProvider, RequestProvider, File!Compacted, Compacted, File!TurnEnd, TurnEnd,
         File!RequestCompact, RequestCompact, File!RequestExecutor, RequestExecutor,
         File!Error, Error, File!ToolFailure, ToolFailure, File!Failed, Failed,
         File!IsRequestProvider, IsRequestProvider, File!IsFailed, IsFailed,
         File!RetryableErrors, RetryableErrors, File!ToolErrors, ToolErrors,
         File!StepKinds, StepKinds, File!NoRetry, NoRetry

LEMMA SameTurns ==
  /\ \A p, c, r : File!TurnMessages(p, c, r) = TurnMessages(p, c, r)
  /\ \A c, r : File!TurnCompletes(c, r) <=> TurnCompletes(c, r)
  /\ \A turn : File!ValidTurn(turn) <=> ValidTurn(turn)
  BY DEF File!TurnMessages, TurnMessages, File!AssistantMessage, AssistantMessage,
         File!ToolResultMessage, ToolResultMessage, File!TurnCompletes, TurnCompletes,
         File!ValidTurn, ValidTurn, File!ResultsMatchCalls, ResultsMatchCalls

LEMMA SameRates ==
  /\ File!FirstRate = FirstRate /\ File!HalfRate = HalfRate /\ File!RateUnit = RateUnit
  /\ \A rate : File!NextRate(rate) = NextRate(rate)
  /\ \A rate : File!ValidRate(rate) <=> ValidRate(rate)
  BY DEF File!FirstRate, FirstRate, File!HalfRate, HalfRate, File!RateUnit, RateUnit,
         File!NextRate, NextRate, File!ValidRate, ValidRate, File!RateStep, RateStep,
         File!RoundRate, RoundRate, File!Spacing, Spacing

LEMMA SameValidation ==
  /\ \A step : File!ValidReactStep(step) <=> ValidReactStep(step)
  /\ \A fs : File!ValidFrames(fs) <=> ValidFrames(fs)
<1>1. \A step : File!ValidReactStep(step) <=> ValidReactStep(step)
  BY SameRates, SameTurns DEF File!ValidReactStep, ValidReactStep
<1>2. \A step : File!ValidStep(step) <=> ValidStep(step)
  BY <1>1, SameTurns, SameSteps
  DEF File!ValidStep, ValidStep, File!IsToolFailure, IsToolFailure
<1> QED
  BY <1>1, <1>2 DEF File!ValidFrames, ValidFrames

LEMMA SameCompaction ==
  /\ \A h : File!Tokens(h) = Tokens(h)
  /\ \A h, rate : File!NeedsSummary(h, rate) <=> NeedsSummary(h, rate)
  /\ \A h, rate : File!Compact(h, rate) = Compact(h, rate)
<1>1. \A h : File!Tokens(h) = Tokens(h)
  BY DEF File!Tokens, Tokens, File!FoldLeft, FoldLeft, File!MapThenFoldSet, MapThenFoldSet,
         File!Max, Max
<1>2. \A h : File!SystemEnd(h) = SystemEnd(h)
  BY SameExtremes DEF File!SystemEnd, SystemEnd
<1>3. \A h, s : File!After(h, s) = After(h, s)
  BY DEF File!After, After
<1>4. \A h, budget : File!BudgetStart(h, budget) = BudgetStart(h, budget)
  BY <1>1, <1>2, <1>3, SameExtremes DEF File!BudgetStart, BudgetStart
<1>5. \A h, s : File!PairedStarts(h, s) = PairedStarts(h, s)
  BY DEF File!PairedStarts, PairedStarts, File!ToSet, ToSet
<1>6. \A h, budget : File!RetainedStart(h, budget) = RetainedStart(h, budget)
  BY <1>2, <1>4, <1>5, SameExtremes, ZenonT(40) DEF File!RetainedStart, RetainedStart
<1>7. \A h, rate : File!RetainBudget(h, rate) = RetainBudget(h, rate)
  BY <1>1 DEF File!RetainBudget, RetainBudget, File!RateUnit, RateUnit
<1>8. \A h, rate : File!NeedsSummary(h, rate) <=> NeedsSummary(h, rate)
  BY <1>2, <1>6, <1>7 DEF File!NeedsSummary, NeedsSummary
<1> QED
  BY <1>1, <1>2, <1>3, <1>6, <1>7, <1>8, SameDeltas DEF File!Compact, Compact

\* What is looked at, and what the bounces do, is the same of the file.
LEMMA FileViews ==
  /\ File!CanGrow <=> CanGrowOf(file)
  /\ File!BaseStep = StepAt(file)
  /\ File!AtProvider <=> ProviderOf(file)
  /\ \A classes : File!AtFailure(classes) <=> FailureOf(file, classes)
  /\ File!OverBudget <=> BudgetOf(file)
  /\ \A retries : File!RetryApplies(retries) <=> RetryOf(file, retries)
  /\ File!NextAttempt = AttemptOf(file)
  /\ File!OverThreshold <=> ThresholdOf(file)
  /\ File!RecoveryRate = RateOf(file)
  /\ File!CallsProvider <=> CallsOf(file)
<1>1. /\ File!CanGrow <=> CanGrowOf(file)
      /\ File!BaseStep = StepAt(file)
      /\ File!AtProvider <=> ProviderOf(file)
  BY SameChains, SameSteps DEF File!CanGrow, CanGrowOf, File!BaseStep, StepAt, File!AtProvider,
                               ProviderOf
<1>2. /\ \A classes : File!AtFailure(classes) <=> FailureOf(file, classes)
      /\ File!OverBudget <=> BudgetOf(file)
  BY <1>1, SameSteps, SameLookups DEF File!AtFailure, FailureOf, File!OverBudget, BudgetOf
<1>3. /\ \A retries : File!RetryApplies(retries) <=> RetryOf(file, retries)
      /\ File!NextAttempt = AttemptOf(file)
  BY <1>2, SameLookups, SameSteps, SameDeltas
  DEF File!RetryApplies, RetryOf, File!ProviderAncestor, File!NextAttempt, AttemptOf
<1>4. File!OverThreshold <=> ThresholdOf(file)
  BY <1>1, SameLookups, SameDeltas, SameCompaction DEF File!OverThreshold, ThresholdOf, File!RetryState
<1>5. File!RecoveryRate = RateOf(file)
  BY SameChains, SameRates DEF File!RecoveryRate, RateOf
<1> QED
  BY <1>1, <1>2, <1>3, <1>4, <1>5 DEF File!CallsProvider, CallsOf

LEMMA FileBounces ==
  /\ \A error : File!RuntimeFailed(error) <=> FailOf(file, file', error)
  /\ \A step, delta, retries :
        File!CreateNextStep(step, delta, retries) <=> CreateOf(file, file', step, delta, retries)
  /\ \A step, delta, retries :
        File!ReplaceBaseStep(step, delta, retries) <=> ReplaceOf(file, file', step, delta, retries)
<1>1. \A error : File!RuntimeFailed(error) <=> FailOf(file, file', error)
  BY FileViews, SameChains, SameSteps, SameDeltas DEF File!RuntimeFailed, FailOf
<1>2. \A step, delta, retries :
         File!CarryRetry(step, delta, retries) = CarryOf(file, step, delta, retries)
  BY SameLookups, SameSteps, SameDeltas DEF File!CarryRetry, CarryOf, File!RetryState
<1>3. \A step, delta, retries :
         File!CreateNextStep(step, delta, retries) <=> CreateOf(file, file', step, delta, retries)
  BY <1>1, <1>2, FileViews, SameValidation, SameChains, SameSteps
  DEF File!CreateNextStep, CreateOf
<1>4. \A step, delta, retries :
         File!ReplaceBaseStep(step, delta, retries) <=> ReplaceOf(file, file', step, delta, retries)
  BY <1>1, <1>2, SameValidation, SameChains, SameSteps, SameDeltas
  DEF File!ReplaceBaseStep, ReplaceOf
<1> QED
  BY <1>1, <1>3, <1>4

\* A step that the relation allows is a step of the file.
LEMMA RelatedSteps == StepOf(file, file') => File!AgentStep
<1> SUFFICES ASSUME StepOf(file, file') PROVE File!AgentStep
  OBVIOUS
<1> USE FileViews, FileBounces, SameSteps, SameDeltas
<1>1. ASSUME FailStepOf(file, file')
      PROVE  File!ProviderFails \/ File!ToolFails \/ File!CompactFails
  BY <1>1, SameTurns, SameLookups, SameCompaction
  DEF File!ProviderFails, File!ToolFails, File!CompactFails, FailStepOf, File!RunsTool
<1>2. ASSUME NEW retries \in RetryBudgets, ModuleStepOf(file, file', retries)
      PROVE  \/ File!StepBudgetEndsTurn(retries) \/ File!RetryModel(retries)
             \/ File!RetryExhausted(retries) \/ File!AutoCompact(retries)
             \/ File!RecoverContextOverflow(retries) \/ File!RecoverToolFailure(retries)
             \/ File!RollbackFailure(retries) \/ File!KeepFailure(retries)
  BY <1>2, SameTurns, SameChains, SameRates
  DEF File!StepBudgetEndsTurn, File!RetryModel, File!RetryExhausted, File!AutoCompact,
      File!RecoverContextOverflow, File!RecoverToolFailure, File!RollbackFailure,
      File!RollbackStep, File!KeepFailure, File!KeepBaseStep, File!GivesUp, ModuleStepOf
<1>3. ASSUME NEW retries \in RetryBudgets, CoreStepOf(file, file', retries)
      PROVE  \/ File!ProviderCallsTools(retries) \/ File!ProviderReplies(retries)
             \/ File!ToolSucceeds(retries) \/ File!CompactSucceeds(retries)
             \/ File!ResumeCompacted(retries) \/ File!ResumeTurnEnd(retries)
  BY <1>3, SameTurns, SameLookups, SameCompaction
  DEF File!ProviderCallsTools, File!ProviderReplies, File!ToolSucceeds, File!RunsTool,
      File!CompactSucceeds, File!ResumeCompacted, File!ResumeTurnEnd, CoreStepOf
<1>4. CASE FailStepOf(file, file')
  BY <1>1, <1>4 DEF File!AgentStep
<1>5. ASSUME NEW retries \in RetryBudgets,
             ModuleStepOf(file, file', retries) \/ CoreStepOf(file, file', retries)
      PROVE  File!AgentStep
  BY <1>2, <1>3, <1>5 DEF File!AgentStep
<1> QED
  BY <1>4, <1>5 DEF StepOf

\* The input of an invocation is a command to the file.
LEMMA RelatedInputs == AppendOf(file, file') => File!AppendMessages
  BY FileViews, SameLookups, SameChains, SameDeltas, SameValidation
  DEF AppendOf, File!AppendMessages, File!Transform

LEMMA InputsRelate == AppendMessages => AppendOf(frames, frames')
  BY StepViews DEF AppendOf, AppendMessages, Transform

\* A command of a process of its own is a command to the file.
LEMMA RelatedCommands ==
  ASSUME frames = file, frames' = file', SessionCommand
  PROVE  File!SessionCommand
<1>1. CASE AppendMessages
  BY <1>1, InputsRelate, RelatedInputs DEF File!SessionCommand
<1>2. /\ BaseStep = File!BaseStep /\ (CanGrow <=> File!CanGrow)
      /\ \A next : Transform(next) => File!Transform(next)
  BY StepViews, FileViews, SameValidation DEF Transform, File!Transform
<1> USE <1>2, SameChains, SameDeltas, SameSteps
<1>3. ASSUME NEW key \in UserKeys, NEW value \in UserValues, StoreJson(key, value)
      PROVE  File!SessionCommand
  BY <1>3 DEF StoreJson, File!StoreJson, File!SessionCommand
<1>4. ASSUME NEW key \in UserKeys, RemoveKey(key)
      PROVE  File!SessionCommand
  BY <1>4 DEF RemoveKey, File!RemoveKey, File!SessionCommand
<1>5. CASE NextProvider
  BY <1>5 DEF NextProvider, File!NextProvider, File!SessionCommand
<1>6. CASE ReplaceProvider
  BY <1>6 DEF ReplaceProvider, File!ReplaceProvider, File!SessionCommand
<1>7. CASE InsertToolResult
  BY <1>7, SameTurns DEF InsertToolResult, File!InsertToolResult, File!SessionCommand
<1>8. CASE Rollback
  BY <1>8 DEF Rollback, File!Rollback, File!SessionCommand
<1>9. CASE RollbackTo
  BY <1>9, SameExtremes DEF RollbackTo, File!RollbackTo, File!SessionCommand
<1> QED
  BY <1>1, <1>3, <1>4, <1>5, <1>6, <1>7, <1>8, <1>9 DEF SessionCommand

\* What the process holds and has not saved is one step or one input away from
\* the file.
Unsaved ==
    /\ phase = "starting" => frames = file \/ AppendOf(file, frames)
    /\ phase \in Stepped => StepOf(file, frames)

LEMMA UnsavedKept ==
  ASSUME DriverInv, Unsaved, [DriverNext]_driverVars
  PROVE  Unsaved'
<1> USE DEF Phases, Working, Stepped, Leaving
<1>1. CASE Invoke
  <2>1. frames = file /\ file' = file /\ phase' = "starting"
    BY <1>1 DEF Invoke, DriverInv, CheckpointIsCurrent
  <2>2. frames' = file \/ AppendOf(file, frames')
    BY <1>1, <2>1, InputsRelate DEF Invoke
  <2> QED
    BY <2>1, <2>2 DEF Unsaved
<1>2. CASE Evaluate
  <2>1. frames = file /\ file' = file /\ phase' \in Stepped
    BY <1>2 DEF Evaluate, DriverInv, CheckpointIsCurrent
  <2>2. StepOf(file, frames')
    BY <1>2, <2>1, StepsRelate DEF Evaluate
  <2> QED
    BY <2>1, <2>2 DEF Unsaved
<1>3. CASE UNCHANGED driverVars
  BY <1>3 DEF driverVars, process, Unsaved
<1>4. CASE Command
  BY <1>4 DEF Command, process, Unsaved
<1>5. CASE \/ InitialCheckpoint \/ InteractWithJob \/ Interrupt \/ Panic
           \/ Checkpoint \/ LastCheckpoint
  BY <1>5 DEF InitialCheckpoint, InteractWithJob, Interrupt, Panic, Checkpoint, LastCheckpoint,
              Unsaved
<1>6. CASE CheckpointFails \/ Leave \/ Crash
  BY <1>6 DEF CheckpointFails, Leave, Crash, Gone, Unsaved
<1> QED
  BY <1>1, <1>2, <1>3, <1>4, <1>5, <1>6 DEF DriverNext

\* Saving what is unsaved is a step of the session in the file.
LEMMA SavesStep ==
  ASSUME DriverInv, Unsaved, file' \in {file, frames},
         phase \in {"starting"} \cup Stepped \cup Leaving
  PROVE  [File!SessionNext]_file
<1>1. CASE file' = file
  BY <1>1
<1>2. CASE file' = frames /\ phase = "starting"
  BY <1>2, RelatedInputs DEF Unsaved, File!SessionNext, File!SessionCommand
<1>3. CASE file' = frames /\ phase \in Stepped
  BY <1>3, RelatedSteps DEF Unsaved, File!SessionNext
<1>4. CASE file' = frames /\ phase \in Leaving
  BY <1>4 DEF DriverInv, CheckpointIsCurrent
<1> QED
  BY <1>1, <1>2, <1>3, <1>4

LEMMA FileSteps ==
  ASSUME DriverInv, Unsaved, [DriverNext]_driverVars
  PROVE  [File!SessionNext]_file
<1>1. CASE Command
  <2>1. frames = file /\ frames' = file' /\ SessionCommand
    BY <1>1 DEF Command, DriverInv, CheckpointIsCurrent
  <2> QED
    BY <2>1, RelatedCommands DEF File!SessionNext
<1>2. CASE InitialCheckpoint \/ Checkpoint \/ LastCheckpoint \/ CheckpointFails \/ Leave
  BY <1>2, SavesStep
  DEF InitialCheckpoint, Checkpoint, LastCheckpoint, CheckpointFails, Leave, Saved, SaveFailed,
      Stepped
<1>3. CASE \/ UNCHANGED driverVars \/ Invoke \/ InteractWithJob \/ Evaluate \/ Interrupt
           \/ Panic \/ Crash
  BY <1>3 DEF driverVars, Invoke, InteractWithJob, Evaluate, Interrupt, Panic, Crash
<1> QED
  BY <1>1, <1>2, <1>3 DEF DriverNext

\* The file is a session by itself: through crashes, panics, interrupts and
\* failed saves it moves by whole steps and commands of phi session, and none is
\* lost that a later one builds on.
THEOREM FileMovesByWholeSteps == DriverSpec => FileIsSession
<1> DEFINE IInv == DriverInv /\ Unsaved
<1>1. DriverInit => IInv
  BY DriverStarts DEF DriverInit, Unsaved, Stepped
<1>2. IInv /\ [DriverNext]_driverVars => IInv'
  BY DriverKeeps, UnsavedKept
<1>3. DriverInit => File!Init
  BY SameChains, SameSteps, SameDeltas DEF DriverInit, Init, File!Init
<1>4. IInv /\ [DriverNext]_driverVars => [File!SessionNext]_file
  BY FileSteps
<1> QED
  BY <1>1, <1>2, <1>3, <1>4, PTL DEF DriverSpec, FileIsSession, File!SessionSpec
================================================================================
