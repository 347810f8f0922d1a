----------------------------- MODULE ProviderTurns -----------------------------
(***************************************************************************)
(* A conversation across providers.  The history outlives the process and  *)
(* holds canonical messages only, so each request is rendered afresh, by   *)
(* the client of whatever provider is configured when it is made.          *)
(*                                                                         *)
(* The steps in between (rollback, retries, compaction) are in PhiAgent;   *)
(* here a failed request leaves the history alone and is made again.  The  *)
(* model and the gateway in front of it are the environment: they answer   *)
(* with any reply of the sets below.                                       *)
(***************************************************************************)
EXTENDS ProviderWire

CONSTANTS
    Providers,         \* values of provider.kind
    ChatReplies,       \* replies of an openai_chat endpoint
    ResponsesReplies,  \* replies of an openai_response endpoint
    ToolResults,       \* tool results, [json, content]
    MaxMessages        \* bound on the history, for model checking

\* Replies are of the types that they are decoded into.
ASSUME TurnsAssumption ==
    /\ Providers \subseteq {"openai_chat", "openai_response"} \cup FakeProfiles
    /\ MaxMessages \in Nat
    /\ {"prompt", "ask", "more"} \subseteq Words
    /\ \A r \in ChatReplies :
          \/ r.kind \in TransportKinds
          \/ r.kind = "choices" /\ r.choices \in Seq(ChatChoices)
    /\ \A r \in ResponsesReplies :
          \/ r.kind \in TransportKinds
          \/ r.kind = "response" /\ r.output \in Seq(ResponsesItems)
    /\ ToolResults \subseteq [json : BOOLEAN, content : Texts]

VARIABLES
    history,    \* canonical messages
    provider,   \* the provider this process was configured with
    turn,       \* "ended", "asking" or "tools"
    reply,      \* the last reply
    outcome     \* what the client made of it

turnVars == <<history, provider, turn, reply, outcome>>

NoReply == [kind |-> "none"]

TurnsInit ==
    /\ history = <<SystemText(<<"prompt">>), UserText(<<"ask">>)>>
    /\ provider \in Providers
    /\ turn = "asking"
    /\ reply = NoReply
    /\ outcome = Failure("none")

-------------------------------------------------------------------------------

\* Another process goes on with the session, configured differently.  While
\* tools run the provider does not matter.
Configure ==
    /\ turn # "tools"
    /\ provider' \in Providers
    /\ reply' = NoReply
    /\ outcome' = Failure("none")
    /\ UNCHANGED <<history, turn>>

Say ==
    /\ turn = "ended"
    /\ Len(history) < MaxMessages
    /\ history' = Append(history, UserText(<<"more">>))
    /\ turn' = "asking"
    /\ UNCHANGED <<provider, reply, outcome>>

\* How the evaluator takes an outcome: tool calls wait until they have run, any
\* other assistant message is committed, and end_turn = false asks again.
Take(result, again) ==
    /\ outcome' = result
    /\ history' = IF result.assistant = None \/ result.assistant.calls # <<>>
                  THEN history ELSE Append(history, result.assistant)
    /\ turn' = IF result.kind # "ok" THEN "asking"
               ELSE IF result.assistant # None /\ result.assistant.calls # <<>> THEN "tools"
               ELSE IF again THEN "asking" ELSE "ended"
    /\ UNCHANGED provider

Asks == turn = "asking" /\ Len(history) < MaxMessages

AskChat ==
    /\ Asks /\ provider = "openai_chat"
    /\ reply' \in ChatReplies
    /\ Take(ChatOutcome(reply'), FALSE)

AskResponses ==
    /\ Asks /\ provider = "openai_response"
    /\ reply' \in ResponsesReplies
    /\ Take(ResponsesOutcome(reply'), reply'.kind = "response" /\ reply'.end_turn = FALSE)

AskFake ==
    /\ Asks /\ provider \in FakeProfiles
    /\ reply' = NoReply
    /\ \E tools \in {<<>>, <<"tool">>} : Take(FakeOutcome(provider, history, tools), FALSE)

\* Mutant: results go by the id of the call.
RunToolsById ==
    /\ turn = "tools"
    /\ \E ran \in 1 .. Len(outcome.assistant.calls), result \in ToolResults :
          LET kept == SubSeq(outcome.assistant.calls, 1, ran)
          IN history' = history \o <<[outcome.assistant EXCEPT !.calls = kept]>>
                 \o [i \in DOMAIN kept |->
                        ToolResult([kept[i] EXCEPT !.call_id = None], result.json, result.content)]
    /\ turn' = "asking"
    /\ UNCHANGED <<provider, reply, outcome>>

\* The batch has run; calls after one that failed were never made and are left
\* out, and the failed one has its error for a result.
RunTools ==
    /\ turn = "tools"
    /\ \E ran \in 1 .. Len(outcome.assistant.calls), result \in ToolResults :
          LET kept == SubSeq(outcome.assistant.calls, 1, ran)
          IN history' = history \o <<[outcome.assistant EXCEPT !.calls = kept]>>
                 \o [i \in DOMAIN kept |-> ToolResult(kept[i], result.json, result.content)]
    /\ turn' = "asking"
    /\ UNCHANGED <<provider, reply, outcome>>

TurnsNext ==
    \/ Configure
    \/ Say
    \/ AskChat
    \/ AskResponses
    \/ AskFake
    \/ RunTools

TurnsSpec == TurnsInit /\ [][TurnsNext]_turnVars

-------------------------------------------------------------------------------
(* Properties *)

\* Every tool output in a Responses request names a call made before it, and
\* every call is answered before the next item of another kind, whichever
\* provider the call came from.
InputPairsUp(input) ==
    LET calls == {i \in DOMAIN input : input[i].type = "function_call"}
        outputs == {i \in DOMAIN input : input[i].type = "function_call_output"}
    IN /\ \A o \in outputs : \E c \in calls : c < o /\ input[c].call_id = input[o].call_id
       /\ \A c \in calls : \E o \in outputs :
             /\ c < o /\ input[c].call_id = input[o].call_id
             /\ \A i \in c .. o : input[i].type \in {"function_call", "function_call_output"}

ResponsesPairUp == InputPairsUp(ResponsesRequest(history).input)

\* A session that never left openai_chat for openai_response also pairs up in
\* Chat requests.  (A call made by openai_response may go by an item id there,
\* which its result does not name.)
ChatPairsUp ==
    LET request == ChatRequest(history)
    IN (\A i \in DOMAIN history : IsAssistant(history[i]) =>
            \A c \in DOMAIN history[i].calls : CallName(history[i].calls[c]) = history[i].calls[c].id)
       => \A o \in DOMAIN request : request[o].role = "tool" =>
             \E a \in 1 .. o - 1 :
                /\ request[a].role = "assistant"
                /\ \A i \in a + 1 .. o : request[i].role = "tool"
                /\ \E c \in DOMAIN request[a].tool_calls :
                      request[a].tool_calls[c].id = request[o].tool_call_id

\* What a model is told of its tool calls fits together on the wire, after
\* batches that failed and changes of provider (render/provider/*).
OutputsAnswerCalls == ResponsesPairUp /\ ChatPairsUp

\* Reasoning is sent back under the key the endpoint used last, however many
\* messages of other kinds and providers came in between.
ReasoningKeyIsRemembered ==
    [][LET committed == SubSeq(history', Len(history) + 1, Len(history'))
           keys == {m.context : m \in {committed[i] : i \in
                        {j \in DOMAIN committed : IsAssistant(committed[j])}}} \ {None}
       IN \A a \in DOMAIN ChatRequest(history') :
             IsAssistant(history'[a]) =>
                LET sent == {k \in ReasoningKeys :
                                ChatRequest(history')[a].reasoning[k] # None}
                IN sent = IF keys # {} THEN keys
                          ELSE {ReasoningKey(history)}]_turnVars

\* "Structured error codes win; text matching is only a conservative fallback"
\* (render/provider/mod.rs:41).
StructuredCodesWin ==
    reply.kind = "http_error" \/ (reply.kind = "response" /\ reply.status = "failed") =>
        (reply.error.code \in ContextCodes => outcome.kind = "context_exceeded_limit")
===============================================================================
