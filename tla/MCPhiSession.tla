----------------------------- MODULE MCPhiSession ------------------------------
(* PhiSession with one user variable and one appended message at a time. *)
EXTENDS PhiSession

CONSTANTS retry, note, c1, c2

MCBatches == {<<c1, c2>>}
MCTails == {<<>>}
MCBudgets == {NoRetry, 1}
MCRoleTokens == [r \in Roles |-> 1]
MCProviderErrors == {"provider_request", "context_exceeded_limit"}
MCInputs == {<<UserMessage>>}
===============================================================================
