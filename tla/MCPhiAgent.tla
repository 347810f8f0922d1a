------------------------------ MODULE MCPhiAgent -------------------------------
(* PhiAgent with small batches, budgets and thresholds. *)
EXTENDS PhiAgent

CONSTANTS retry, c1, c2

MCBatches == {<<c1>>, <<c1, c2>>}
MCTails == {<<>>, <<UserMessage>>}
MCBudgets == {NoRetry, 2}
MCRoleTokens == [r \in Roles |-> IF r = "tool" THEN 2 ELSE 1]
MCProviderErrors == {"provider_request", "context_exceeded_limit", "model_output_limit"}
===============================================================================
