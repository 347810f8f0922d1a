------------------------------ MODULE MCPhiDriver ------------------------------
(* PhiDriver on short sessions, with one call per batch. *)
EXTENDS PhiDriver

CONSTANTS retry, c1

MCBatches == {<<c1>>}
MCTails == {<<>>}
MCBudgets == {NoRetry}
MCRoleTokens == [r \in Roles |-> 1]
MCProviderErrors == {"provider_request", "context_exceeded_limit"}
MCInputs == {<<UserMessage>>}
===============================================================================
