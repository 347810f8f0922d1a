-------------------------------- MODULE PhiSteps -------------------------------
(***************************************************************************)
(* The steps a frame can hold (phi/src/session/mod.rs), the errors a       *)
(* failed step carries (phi/src/error.rs) and the validation applied to    *)
(* both.  A step is what the evaluator does next.                          *)
(***************************************************************************)
EXTENDS PhiExpr

-------------------------------------------------------------------------------
(* Retain rates are f32 values.  All of them are multiples of 2^-28, so a  *)
(* rate is kept as that multiple and addition rounds as the hardware does. *)

RateUnit == 268435456          \* 1.0
HalfRate == 134217728          \* 0.5
FirstRate == 26843546          \* the f32 nearest to 0.1
RateStep == 13421773           \* the f32 nearest to 0.05

\* Distance between neighbouring f32 values around n, for 0.0625 <= n < 1.
Spacing(n) == CASE n < 33554432                  -> 2
                [] 33554432 <= n /\ n < 67108864 -> 4
                [] 67108864 <= n /\ n < HalfRate -> 8
                [] HalfRate <= n                 -> 16

\* Round to nearest, ties to even.
RoundRate(n) ==
    LET u == Spacing(n)
        down == n \div u
        rest == n % u
    IN IF 2 * rest < u \/ (2 * rest = u /\ down % 2 = 0) THEN down * u
                                                         ELSE (down + 1) * u

\* Mutant: half a step at a time.
NextRateHalfStep(rate) == RoundRate(rate + RateStep \div 2)

NextRate(rate) == RoundRate(rate + RateStep)

ValidRate(rate) == 0 < rate /\ rate <= HalfRate

-------------------------------------------------------------------------------
(* Tool turns: an assistant message with its calls, the messages to commit *)
(* before it, and the results obtained so far, in call order.              *)

ToolTurn(kinds) == [kind : kinds, pending : Seq(Message), calls : Seq(CallIds),
                    results : Seq(CallIds)]

\* Each completed result answers the call at its position.
ResultsMatchCalls(turn) ==
    \A i \in DOMAIN turn.results \cap DOMAIN turn.calls : turn.results[i] = turn.calls[i]

ValidTurn(turn) ==
    /\ Len(turn.results) < Len(turn.calls)
    /\ ResultsMatchCalls(turn)

\* What a finished turn commits: pending messages, assistant, every result.
TurnMessages(pending, calls, results) ==
    pending \o <<AssistantMessage(calls)>>
            \o [i \in 1 .. Len(results) |-> ToolResultMessage(results[i])]

-------------------------------------------------------------------------------
(* Steps *)

RequestProvider == [kind |-> "request_provider"]
Compacted == [kind |-> "compacted"]
TurnEnd == [kind |-> "turn_end"]
RequestCompact(rate) == [kind |-> "request_compact", rate |-> rate]
RequestExecutor(pending, calls, results) ==
    [kind |-> "request_executor", pending |-> pending, calls |-> calls, results |-> results]

\* Errors a failed step carries.  Only the class decides what recovery does;
\* tool failures also carry their turn.
RetryableErrors == {"provider_request", "provider_response"}
OtherErrors == {"request_compact", "model_output_limit", "model_tool_parse_error", "session"}
PlainErrors == RetryableErrors \cup OtherErrors \cup {"context_exceeded_limit"}
ToolErrors == {"tool_error", "tool_not_found"}

Error(class) == [kind |-> class]
ToolFailure(class, pending, calls, results) ==
    [kind |-> class, pending |-> pending, calls |-> calls, results |-> results]

Failed(error) == [kind |-> "failed", error |-> error]

ErrorSet == [kind : PlainErrors] \cup ToolTurn(ToolErrors)

Step == [kind : {"request_provider", "compacted", "turn_end"}]
            \cup [kind : {"request_compact"}, rate : Nat]
            \cup ToolTurn({"request_executor"})
            \cup [kind : {"failed"}, error : ErrorSet]

IsRequestProvider(step) == step.kind = "request_provider"
IsFailed(step) == step.kind = "failed"
IsToolFailure(step) == IsFailed(step) /\ step.error.kind \in ToolErrors

IsTerminal(step) == step.kind \in {"turn_end", "failed"}

Frame == [step : Step, delta : Delta]

-------------------------------------------------------------------------------
(* Validation *)

ValidReactStep(step) ==
    /\ step.kind = "request_compact" => ValidRate(step.rate)
    /\ step.kind = "request_executor" => ValidTurn(step)

ValidStep(step) ==
    IF IsFailed(step) THEN IsToolFailure(step) => ValidTurn(step.error)
                      ELSE ValidReactStep(step)

\* What saving and loading a Session check of every frame.
ValidFrames(frames) ==
    \A i \in DOMAIN frames : /\ ValidStep(frames[i].step)
                             /\ frames[i].step.kind = "compacted" => i > 1

-------------------------------------------------------------------------------
(* Resolving a tool result: one more result either leaves the turn pending *)
(* or completes it.                                                        *)

TurnCompletes(calls, results) == Len(results) >= Len(calls)
===============================================================================
