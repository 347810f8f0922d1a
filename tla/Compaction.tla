------------------------------- MODULE Compaction ------------------------------
(***************************************************************************)
(* History compaction, phi/src/render/compact.rs: which messages a compact *)
(* request replaces by one summary and which it keeps.  Token estimates    *)
(* depend on message text; here a message weighs what its role weighs.     *)
(***************************************************************************)
EXTENDS PhiSteps

CONSTANT RoleTokens          \* estimated tokens of a message, by role

ASSUME RoleTokensAssumption == RoleTokens \in [Roles -> Nat]

Tokens(history) == FoldLeft(LAMBDA sum, m : sum + RoleTokens[m.role], 0, history)

\* Number of leading system messages.
SystemEnd(history) ==
    LET Leading(n) == \A i \in 1 .. n : history[i].role = "system"
    IN Max({n \in 0 .. Len(history) : Leading(n)})

\* The suffix that starts after position s.
After(history, s) == SubSeq(history, s + 1, Len(history))

\* The last message is always kept; more are kept while they fit the budget.
BudgetStart(history, budget) ==
    Min({s \in SystemEnd(history) .. Len(history) - 1 :
            s = Len(history) - 1 \/ Tokens(After(history, s)) <= budget})

\* Positions (as the number of messages before them) of the nearest earlier
\* assistant message that made the call a kept tool result answers.
PairedStarts(history, s) ==
    LET Calls(c, id) == history[c].role = "assistant" /\ id \in ToSet(history[c].calls)
        Results == {r \in s + 1 .. Len(history) : history[r].role = "tool"}
        Nearest(id) == {c \in 1 .. s : /\ Calls(c, id)
                                       /\ \A d \in c + 1 .. s : ~Calls(d, id)}
    IN {c - 1 : c \in UNION {Nearest(history[r].id) : r \in Results}}

\* Mutant: the suffix that fits is kept as it is.
RetainedStartUnpaired(history, budget) == BudgetStart(history, budget)

\* Mutant: one message before the call is kept as well.
RetainedStartEarlier(history, budget) ==
    LET start == BudgetStart(history, budget)
        paired == Min(PairedStarts(history, start) \cup {start})
    IN IF paired < start /\ paired > SystemEnd(history) THEN paired - 1 ELSE paired

\* Move the start back until no kept result has its call cut off.
RetainedStart(history, budget) ==
    LET extend[s \in 0 .. Len(history)] ==
            LET paired == Min(PairedStarts(history, s) \cup {s})
            IN IF paired = s \/ paired < SystemEnd(history) THEN s ELSE extend[paired]
    IN extend[BudgetStart(history, budget)]

\* The product is not rounded to f32 before the fraction is cut off: for the
\* rates of the ladder, all a little above the decimal they stand for, that
\* makes no difference.
RetainBudget(history, rate) == (Tokens(history) * rate) \div RateUnit

\* Whether anything lies between the system prefix and the retained suffix; if
\* not, the provider is not asked for a summary.
NeedsSummary(history, rate) ==
    /\ SystemEnd(history) < Len(history)
    /\ SystemEnd(history) < RetainedStart(history, RetainBudget(history, rate))

\* The summary enters as a user message.
Compact(history, rate) ==
    IF NeedsSummary(history, rate)
    THEN SubSeq(history, 1, SystemEnd(history))
             \o <<UserMessage>>
             \o After(history, RetainedStart(history, RetainBudget(history, rate)))
    ELSE history

-------------------------------------------------------------------------------
\* What providers require of a request: every tool call is answered at once and
\* in order, and every result answers a call.
WellPaired(history) ==
    /\ \A i \in DOMAIN history : \A k \in DOMAIN history[i].calls :
          i + k \in DOMAIN history /\ history[i + k] = ToolResultMessage(history[i].calls[k])
    /\ \A r \in DOMAIN history :
          history[r].role = "tool" => \E i \in 1 .. r - 1 : r - i \in DOMAIN history[i].calls
===============================================================================
