---------------------------- MODULE CompactHistories ---------------------------
(***************************************************************************)
(* Histories as sessions grow them, with compactions in between: what      *)
(* phi/src/render/compact.rs has to cope with.  The provider, recovery and *)
(* the retry ladder are left to PhiAgent; here compaction may happen at    *)
(* any time and at any rate of the ladder, on longer histories and with    *)
(* providers that use the same call identifiers again.                     *)
(***************************************************************************)
EXTENDS Compaction

CONSTANTS
    TurnCalls,    \* batches of calls of one turn
    Rates,        \* retain rates to compact at
    MaxLength     \* bound on the messages of a history, for model checking

ASSUME GrowthAssumption ==
    /\ TurnCalls \subseteq Seq(CallIds) \ {<<>>}
    /\ Rates \subseteq 1 .. HalfRate
    /\ MaxLength \in Nat

VARIABLE conversation

HistoriesInit == conversation = <<SystemMessage>>

Grow(messages) ==
    /\ Len(conversation) + Len(messages) <= MaxLength
    /\ conversation' = conversation \o messages

\* phi session append, with --user or --assistant.
UserSpeaks == Grow(<<UserMessage>>)
AssistantSpeaks == Grow(<<AssistantMessage(<<>>)>>)

\* A finished batch commits the assistant message and every result.
TurnRuns == \E calls \in TurnCalls : Grow(TurnMessages(<<>>, calls, calls))

Compacts == \E rate \in Rates : conversation' = Compact(conversation, rate)

HistoriesNext == UserSpeaks \/ AssistantSpeaks \/ TurnRuns \/ Compacts

HistoriesSpec == HistoriesInit /\ [][HistoriesNext]_conversation

-------------------------------------------------------------------------------
(* Properties *)

\* Compaction never separates a tool result from its call, whichever rate it
\* uses, how often it is repeated, and even when call identifiers are used again.
CompactionKeepsPairs == WellPaired(conversation)

UniqueCalls ==
    \A i, j \in DOMAIN conversation :
        i # j => ToSet(conversation[i].calls) \cap ToSet(conversation[j].calls) = {}

\* A start cuts a turn when it lies between a call and its result.
CutsTurn(s) ==
    \E i \in 1 .. s : \E k \in DOMAIN conversation[i].calls : i + k > s

\* When call identifiers are not used again, what is kept is the longest suffix
\* within the budget, extended to the start of the turn it would cut, and no
\* further: compaction does not keep more than pairing forces it to.
KeepsNoMoreThanNeeded ==
    UniqueCalls /\ SystemEnd(conversation) < Len(conversation) =>
        \A budget \in 0 .. Tokens(conversation) :
            RetainedStart(conversation, budget) =
                Max({s \in SystemEnd(conversation) .. BudgetStart(conversation, budget) : ~CutsTurn(s)})

===============================================================================
