------------------------------- MODULE MCModelIO -------------------------------
(* What goes to models and comes back, each by itself: turns of the providers, *)
(* histories that are compacted, and results of tools that are cut.            *)
EXTENDS ProviderTurns, CompactHistories, Truncation

CONSTANTS call1, call2

VARIABLE subject

ioVars == <<subject, turnVars, conversation, truncationVars>>

MCModelIOInit ==
    /\ subject \in {"turns", "histories", "truncation"}
    /\ TurnsInit /\ HistoriesInit /\ TruncationInit
    /\ subject # "turns" => provider = "openai_chat"
    /\ subject # "truncation" => output = Scalar(4) /\ limit = 40

MCModelIONext ==
    /\ UNCHANGED subject
    /\ \/ subject = "turns" /\ TurnsNext /\ UNCHANGED <<conversation, truncationVars>>
       \/ subject = "histories" /\ HistoriesNext /\ UNCHANGED <<turnVars, truncationVars>>
       \/ subject = "truncation" /\ TruncationNext /\ UNCHANGED <<turnVars, conversation>>

MCModelIOSpec == MCModelIOInit /\ [][MCModelIONext]_ioVars

\* Only the turns.
MCTurnsSpec == MCModelIOInit /\ subject = "turns" /\ [][MCModelIONext]_ioVars

-------------------------------------------------------------------------------
(* Replies of the providers. *)

MCWords ==
    {"prompt", "ask", "more", "a", "b", "e", "r", "s", "t", "x", "out",
     LineBreak, "encoded", "reply", "done", "reasoning"}

MCNames == {"c1", "c2", "c3", "i1", "r1", "fake-call", "fake-reasoning"}

MCProviders ==
    {"openai_chat", "openai_response", "reasoning_text", "tool_call", "provider_error",
     "assistant_text"}

Quiet == [code |-> None, limits |-> FALSE, context |-> FALSE]

MCErrors ==
    [code : {None, "model_context_window_exceeded", "context_length_exceeded"},
     limits : BOOLEAN, context : BOOLEAN]

MCTransport ==
    [kind : {"unsent", "undecodable"}]
        \cup [kind : {"http_error"}, status : {400, 429}, error : MCErrors]

Reasons(first, second) ==
    [k \in ReasoningKeys |-> IF k = "reasoning_content" THEN first ELSE second]

ChatCall(id, json) == [id |-> id, call_id |-> None, json |-> json]

Choice(content, reasoning, calls, finish) ==
    [content |-> content, reasoning |-> reasoning, tool_calls |-> calls, finish_reason |-> finish]

MCChoices ==
    {Choice(<<"a">>, Reasons(None, None), <<>>, "stop"),
     Choice(<<"a">>, Reasons(<<"r">>, None), <<>>, "stop"),
     Choice(<<"a">>, Reasons(<<>>, <<"r">>), <<>>, "stop"),
     Choice(<<>>, Reasons(None, <<"r">>), <<ChatCall("c1", TRUE), ChatCall("c2", TRUE)>>, "tool_calls"),
     Choice(<<>>, Reasons(None, None), <<>>, None),
     Choice(<<"a">>, Reasons(None, None), <<ChatCall("c1", FALSE)>>, "length"),
     Choice(<<"a">>, Reasons(None, None), <<ChatCall("c1", TRUE), ChatCall("c2", FALSE)>>, "tool_calls")}

MCChatReplies == MCTransport \cup [kind : {"choices"}, choices : {<<>>} \cup {<<c>> : c \in MCChoices}]

Part(kind, text) == [kind |-> kind, text |-> text]

SaidItem(parts) == [type |-> "message", content |-> parts]

CalledItem(id, call_id, json) ==
    [type |-> "function_call", id |-> id, call_id |-> call_id, json |-> json]

ThoughtItem(id, summary, content, encrypted) ==
    [type |-> "reasoning", id |-> id, summary |-> summary, content |-> content,
     encrypted_content |-> encrypted]

MCItems ==
    {<<>>,
     <<SaidItem(<<Part("output_text", <<"a">>), Part("unknown", <<"x">>)>>), SaidItem(<<>>),
       SaidItem(<<Part("refusal", <<"b">>)>>)>>,
     <<ThoughtItem("r1", <<Part("summary_text", <<"s">>)>>, <<Part("reasoning_text", <<"t">>)>>, <<"e">>),
       CalledItem("i1", "c1", TRUE), [type |-> "unknown"],
       ThoughtItem(None, <<>>, <<>>, None), CalledItem(None, "c3", TRUE)>>,
     <<ThoughtItem(None, <<>>, <<>>, <<"e">>), SaidItem(<<Part("output_text", <<"a">>)>>)>>,
     <<CalledItem("i1", "c1", FALSE)>>}

Responded(status, items, error, reason, end_turn) ==
    [kind |-> "response", status |-> status, output |-> items, error |-> error,
     reason |-> reason, end_turn |-> end_turn]

MCResponsesReplies ==
    MCTransport
        \cup {Responded("completed", o, Quiet, None, e) : o \in MCItems, e \in {None, FALSE}}
        \cup {Responded(None, <<CalledItem("i1", "c1", TRUE)>>, Quiet, None, None)}
        \cup {Responded("failed", <<>>, e, None, None) : e \in MCErrors}
        \cup {Responded("incomplete", <<CalledItem("i1", "c1", FALSE)>>, Quiet, r, None) :
                r \in {"max_output_tokens", "content_filter"}}
        \cup {Responded("in_progress", <<>>, Quiet, None, None)}

MCResults == {[json |-> FALSE, content |-> <<"out">>]}

-------------------------------------------------------------------------------
(* Histories: two call identifiers, so that longer ones repeat them. *)

MCTurnCalls == {<<call1>>, <<call2>>, <<call1, call2>>}
MCRates == {FirstRate, NextRate(NextRate(FirstRate)), HalfRate - 8}
MCRoleTokens == [r \in Roles |-> IF r = "tool" THEN 2 ELSE 1]

-------------------------------------------------------------------------------
(* Results of tools: strings of every kind around the limits, arrays whose    *)
(* numbers cannot be cut, and objects with both.                              *)

PlainString(n) == String(Plain(n))

\* A container and what is in it.
Container(node, items) ==
    [path \in {Root} \cup UNION {{<<i>> \o p : p \in DOMAIN items[i]} : i \in DOMAIN items} |->
        IF path = Root THEN node ELSE items[Head(path)][Tail(path)]]

Array(items) == Container([kind |-> "array", size |-> Len(items)], items)
Object(keys, items) ==
    Container([kind |-> "object", size |-> Len(items), keys |-> keys], items)

MCTexts ==
    {Plain(n) : n \in {3, 40, 150, 400}}
        \cup {Plain(30) \o <<Run("wide", 50)>> \o Newlines(8),
              <<Run("quote", 16), Run("wide", 45)>>,
              <<Run("backslash", 30)>>}

MCFew == {<<>>, Plain(9), Plain(170)}

Numbers(n) == Array(<<Scalar(n), Scalar(n), Scalar(n)>>)

MCOutputs ==
    {String(t) : t \in MCTexts}
        \cup {Scalar(4), Scalar(30), Numbers(60)}
        \cup {Array(<<String(s), String(t), String(u)>>) : s, t, u \in MCFew}
        \cup {Object(<<6, 4>>, <<String(s), Object(<<7, 3>>, <<String(t), String(u)>>)>>) :
                s, u \in MCFew, t \in {Plain(20), Newlines(10)}}
        \cup {Object(<<6, 4>>, <<Array(<<Numbers(40), Numbers(n)>>), PlainString(s)>>) :
                n \in {5, 50}, s \in {8, 120}}
        \cup {Array([i \in 1 .. 5 |-> PlainString(18)])}

MCLimits == {1, 14, 27, 40, 65}
================================================================================
