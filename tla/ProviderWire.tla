------------------------------ MODULE ProviderWire -----------------------------
(***************************************************************************)
(* What phi sends to a model and what it makes of the answers:             *)
(* render/provider/openai_chat.rs, openai_response.rs, fake.rs and mod.rs  *)
(* over the canonical messages of message.rs.  Everything here is a pure   *)
(* function; ProviderTurns is the conversation that applies them.          *)
(*                                                                         *)
(* A text is a sequence of words, the empty text has none, and an absent   *)
(* content is the empty text: the code never tells the two apart.  Names,  *)
(* arguments and sampling settings are left out, except whether arguments  *)
(* are JSON.                                                               *)
(***************************************************************************)
EXTENDS Integers, SequencesExt

CONSTANTS
    Words,   \* what texts are made of
    Names,   \* identifiers of calls and of reasoning
    None     \* an optional value that is absent

-------------------------------------------------------------------------------
(* Texts *)

Texts == Seq(Words)

Optional(S) == S \cup {None}

LineBreak == "newline"

\* Words and names that phi adds itself.  An absent value is told from every
\* text and every name.
ASSUME WordsAssumption ==
    /\ {LineBreak, "encoded", "reply", "done", "reasoning"} \subseteq Words
    /\ {"fake-call", "fake-reasoning"} \subseteq Names
    /\ None \notin Texts \cup Names \cup {"reasoning_content", "reasoning"}

Joined(texts, separator) ==
    FlattenSeq([i \in DOMAIN texts |-> IF i = 1 THEN texts[i] ELSE separator \o texts[i]])

Lines(texts) == Joined(texts, <<LineBreak>>)

FlatMap(Op(_), seq) == FlattenSeq([i \in DOMAIN seq |-> Op(seq[i])])

\* What Op makes of the elements that pass Test.
FilterMap(Test(_), Op(_), seq) ==
    FlatMap(LAMBDA x : IF Test(x) THEN <<Op(x)>> ELSE <<>>, seq)

-------------------------------------------------------------------------------
(* Canonical messages *)

ReasoningParts == [kind : {"text", "summary", "redacted", "encrypted"}, text : Texts]

ReasoningBlocks == [id : Optional(Names), parts : Seq(ReasoningParts)]

\* The fields of a response that may hold the reasoning of an answer.
ReasoningKeys == {"reasoning_content", "reasoning"}

ToolCalls == [id : Names, call_id : Optional(Names)]

AssistantMessages ==
    [role : {"assistant"}, content : Texts, reasoning : Seq(ReasoningBlocks),
     calls : Seq(ToolCalls), context : Optional(ReasoningKeys)]

CanonicalMessages ==
    AssistantMessages
        \cup [role : {"system", "user"}, content : Texts]
        \cup [role : {"tool"}, id : Names, json : BOOLEAN, content : Texts]

SystemText(text) == [role |-> "system", content |-> text]
UserText(text) == [role |-> "user", content |-> text]

Assistant(content, reasoning, calls, context) ==
    [role |-> "assistant", content |-> content, reasoning |-> reasoning,
     calls |-> calls, context |-> context]

IsAssistant(message) == message.role = "assistant"

IsEmptyAssistant(message) ==
    message.content = <<>> /\ message.reasoning = <<>> /\ message.calls = <<>>

\* The name a call goes by in its result: call_id if there is one, else id.
CallName(call) == IF call.call_id # None THEN call.call_id ELSE call.id

ToolResult(call, json, text) ==
    [role |-> "tool", id |-> CallName(call), json |-> json, content |-> text]

\* Strings are sent as they are, other results as JSON text, encoded once.
ToolResultText(result) ==
    IF result.json THEN <<"encoded">> \o result.content ELSE result.content

\* Encrypted reasoning has no text to show.
DisplayTexts(assistant) ==
    FlatMap(LAMBDA block : FilterMap(LAMBDA part : part.kind # "encrypted",
                                     LAMBDA part : part.text, block.parts),
            assistant.reasoning)

\* The provider context of the newest assistant message that has one.
LatestContext(history) ==
    LET with == {i \in DOMAIN history : IsAssistant(history[i]) /\ history[i].context # None}
    IN IF with = {} THEN None ELSE history[Max(with)].context

-------------------------------------------------------------------------------
(* Errors *)

ContextCodes == {"context_length_exceeded", "model_context_window_exceeded"}

\* Statuses that may stand for a request that is too long.
OverflowStatuses == {None, 400, 413, 422}

\* error: the code found by structured lookup, and which of the telling words
\* the text has: those of rate limits and quotas, those of context limits.
IsContextLimit(status, error) ==
    \/ error.code \in ContextCodes
    \/ ~error.limits /\ status \in OverflowStatuses /\ error.context

Failure(kind) == [kind |-> kind, assistant |-> None]
Answer(assistant) ==
    [kind |-> "ok", assistant |-> IF IsEmptyAssistant(assistant) THEN None ELSE assistant]

\* The request was not sent, was answered with an HTTP error, or the body cannot
\* be decoded.
TransportKinds == {"unsent", "http_error", "undecodable"}

\* What both clients do before they look at a response.
TransportFailure(reply) ==
    CASE reply.kind = "unsent" -> Failure("provider_request")
      [] reply.kind = "http_error" ->
            Failure(IF IsContextLimit(reply.status, reply.error)
                    THEN "context_exceeded_limit" ELSE "provider_request")
      [] reply.kind = "undecodable" -> Failure("provider_response")

-------------------------------------------------------------------------------
(* openai_chat *)

ChatChoices ==
    [content : Texts, reasoning : [ReasoningKeys -> Optional(Texts)],
     tool_calls : Seq([id : Names, call_id : Optional(Names), json : BOOLEAN]),
     finish_reason : Optional({"stop", "length", "tool_calls"})]

\* Mutant: the key of the first answer is kept for good.
ReasoningKeyOfFirst(history) ==
    LET with == {i \in DOMAIN history : IsAssistant(history[i]) /\ history[i].context # None}
    IN IF with = {} THEN "reasoning_content" ELSE history[Min(with)].context

ReasoningKey(history) ==
    IF LatestContext(history) = "reasoning" THEN "reasoning" ELSE "reasoning_content"

ChatMessage(message, key) ==
    CASE message.role \in {"system", "user"} -> message
      [] message.role = "tool" ->
            [role |-> "tool", content |-> ToolResultText(message), tool_call_id |-> message.id]
      [] message.role = "assistant" ->
            [role |-> "assistant", content |-> message.content,
             tool_calls |-> [i \in DOMAIN message.calls |->
                 [id |-> message.calls[i].id, call_id |-> message.calls[i].call_id]],
             reasoning |-> [k \in ReasoningKeys |->
                 IF k = key THEN Lines(DisplayTexts(message)) ELSE None]]

ChatRequest(history) ==
    [i \in DOMAIN history |-> ChatMessage(history[i], ReasoningKey(history))]

\* The key a response used, None when it has no reasoning.
ResponseKey(message) ==
    LET said == {k \in ReasoningKeys : message.reasoning[k] \notin {None, <<>>}}
    IN IF said = {} THEN None
       ELSE IF "reasoning_content" \in said THEN "reasoning_content" ELSE "reasoning"

\* Only an absent reasoning_content gives way to reasoning; an empty one is
\* taken for the answer.
ResponseReasoning(message) ==
    LET text == IF message.reasoning["reasoning_content"] # None
                THEN message.reasoning["reasoning_content"] ELSE message.reasoning["reasoning"]
    IN IF text \in {None, <<>>} THEN <<>>
       ELSE <<[id |-> None, parts |-> <<[kind |-> "text", text |-> text]>>]>>

ToRequests(calls) == [i \in DOMAIN calls |-> [id |-> calls[i].id, call_id |-> calls[i].call_id]]

ChatAnswer(choice) ==
    Answer(Assistant(choice.content, ResponseReasoning(choice),
                     ToRequests(choice.tool_calls), ResponseKey(choice)))

HasBadArguments(calls) == \E i \in DOMAIN calls : ~calls[i].json

\* Only the first choice counts, and its finish reason before its calls.
ChatOutcome(reply) ==
    IF reply.kind # "choices" THEN TransportFailure(reply)
    ELSE IF reply.choices = <<>> THEN Failure("provider_response")
    ELSE IF Head(reply.choices).finish_reason = "length" THEN Failure("model_output_limit")
    ELSE IF HasBadArguments(Head(reply.choices).tool_calls) THEN Failure("model_tool_parse_error")
    ELSE ChatAnswer(Head(reply.choices))

-------------------------------------------------------------------------------
(* openai_response *)

ResponsesParts ==
    [kind : {"output_text", "refusal", "summary_text", "reasoning_text", "unknown"}, text : Texts]

ResponsesItems ==
    [type : {"message"}, content : Seq(ResponsesParts)]
        \cup [type : {"function_call"}, id : Optional(Names), call_id : Names, json : BOOLEAN]
        \cup [type : {"reasoning"}, id : Optional(Names), summary : Seq(ResponsesParts),
              content : Seq(ResponsesParts), encrypted_content : Optional(Texts)]
        \cup [type : {"unknown"}]

PartTexts(parts, kinds) ==
    FilterMap(LAMBDA part : part.kind \in kinds, LAMBDA part : part.text, parts)

EncryptedText(parts) ==
    LET of == PartTexts(parts, {"encrypted"}) IN IF of = <<>> THEN None ELSE Head(of)

ReasoningItem(block) ==
    [type |-> "reasoning", id |-> block.id,
     summary |-> PartTexts(block.parts, {"summary", "redacted"}),
     content |-> PartTexts(block.parts, {"text"}),
     encrypted_content |-> EncryptedText(block.parts)]

\* The id of an item is left out when it says no more than the call_id.
FunctionCallItem(call) ==
    [type |-> "function_call", id |-> IF call.id # CallName(call) THEN call.id ELSE None,
     call_id |-> CallName(call)]

MessageItem(role, text) == [type |-> "message", role |-> role, content |-> text]

AssistantItems(assistant) ==
    LET reasoning == assistant.reasoning
        calls == assistant.calls
    IN [i \in DOMAIN reasoning |-> ReasoningItem(reasoning[i])]
       \o (IF assistant.content = <<>> THEN <<>>
           ELSE <<MessageItem("assistant", assistant.content)>>)
       \o [i \in DOMAIN calls |-> FunctionCallItem(calls[i])]

InputItems(message) ==
    CASE message.role = "system" -> <<>>
      [] message.role = "user" -> <<MessageItem("user", message.content)>>
      [] message.role = "assistant" -> AssistantItems(message)
      [] message.role = "tool" ->
            <<[type |-> "function_call_output", call_id |-> message.id,
               output |-> ToolResultText(message)]>>

\* System messages become instructions, wherever they stand.
ResponsesRequest(history) ==
    LET systems == SelectSeq(history, LAMBDA m : m.role = "system" /\ m.content # <<>>)
    IN [instructions |-> Joined([i \in DOMAIN systems |-> systems[i].content],
                                <<LineBreak, LineBreak>>),
        input |-> FlatMap(InputItems, history)]

\* Parts of kinds phi does not know are dropped.
KnownText(parts) == Lines(PartTexts(parts, {"output_text", "summary_text", "refusal"}))

Items(output, type) == FilterMap(LAMBDA item : item.type = type, LAMBDA item : item, output)

\* The messages of an output are joined into one, empty ones left out.
OutputContent(output) ==
    Lines(FilterMap(LAMBDA item : item.type = "message" /\ KnownText(item.content) # <<>>,
                    LAMBDA item : KnownText(item.content), output))

ReasoningBlock(item) ==
    LET parts(texts, kind) == [i \in DOMAIN texts |-> [kind |-> kind, text |-> texts[i]]]
    IN [id |-> item.id,
        parts |-> parts(PartTexts(item.summary, {"summary_text"}), "summary")
                  \o parts(PartTexts(item.content, {"reasoning_text"}), "text")
                  \o (IF item.encrypted_content = None THEN <<>>
                      ELSE parts(<<item.encrypted_content>>, "encrypted"))]

OutputReasoning(output) ==
    FilterMap(LAMBDA item : item.type = "reasoning" /\ ReasoningBlock(item).parts # <<>>,
              ReasoningBlock, output)

OutputCalls(output) ==
    FilterMap(LAMBDA item : item.type = "function_call",
              LAMBDA item : [id |-> IF item.id = None THEN item.call_id ELSE item.id,
                             call_id |-> item.call_id], output)

\* The detail of a failed response is a line of text, "code: message", in which
\* no code is found by structured lookup; the text of one code of the two is
\* also one of the telling words.
FailedDetail(error) ==
    [error EXCEPT !.code = None,
                  !.context = error.context \/ error.code = "context_length_exceeded"]

StatusOutcome(reply) ==
    CASE reply.status = "failed" ->
            Failure(IF IsContextLimit(None, FailedDetail(reply.error))
                    THEN "context_exceeded_limit" ELSE "provider_response")
      [] reply.status = "incomplete" ->
            Failure(IF reply.reason = "max_output_tokens"
                    THEN "model_output_limit" ELSE "provider_response")
      [] OTHER -> Failure("provider_response")

ResponsesOutcome(reply) ==
    IF reply.kind # "response" THEN TransportFailure(reply)
    ELSE IF reply.status \notin {None, "completed"} THEN StatusOutcome(reply)
    ELSE IF HasBadArguments(Items(reply.output, "function_call"))
         THEN Failure("model_tool_parse_error")
    ELSE Answer(Assistant(OutputContent(reply.output), OutputReasoning(reply.output),
                          OutputCalls(reply.output), None))

-------------------------------------------------------------------------------
(* fake *)

FakeProfiles == {"assistant_text", "reasoning_text", "tool_call", "provider_error"}

LastUserText(history) ==
    LET users == {i \in DOMAIN history : history[i].role = "user"}
    IN IF users = {} THEN <<>> ELSE history[Max(users)].content

FakeReply(history) == <<"reply">> \o LastUserText(history)

FakeOutcome(profile, history, tools) ==
    CASE profile = "assistant_text" -> Answer(Assistant(FakeReply(history), <<>>, <<>>, None))
      [] profile = "reasoning_text" ->
            Answer(Assistant(FakeReply(history),
                <<[id |-> "fake-reasoning",
                   parts |-> <<[kind |-> "text", text |-> <<"reasoning">> \o LastUserText(history)]>>]>>,
                <<>>, None))
      [] profile = "tool_call" ->
            IF \E i \in DOMAIN history : history[i].role = "tool"
            THEN Answer(Assistant(<<"done">>, <<>>, <<>>, None))
            ELSE IF tools = <<>> THEN Failure("provider_response")
            ELSE Answer(Assistant(<<>>, <<>>, <<[id |-> "fake-call", call_id |-> "fake-call"]>>, None))
      [] profile = "provider_error" -> Failure("provider_request")
===============================================================================
