------------------------------- MODULE Truncation ------------------------------
(***************************************************************************)
(* How tool results are cut to the configured number of tokens:            *)
(* executor/truncation.rs, as executor/mod.rs applies it to results of     *)
(* tools and session/command.rs to results supplied from outside.          *)
(*                                                                         *)
(* A text is a sequence of runs of characters of one kind; what matters of *)
(* a character is its width in bytes and how JSON writes it.  The sizes of *)
(* notices are those of the code, their wording is left out.               *)
(***************************************************************************)
EXTENDS Integers, SequencesExt

CONSTANTS
    Outputs,    \* JSON values that tools return
    Limits      \* values of executor.tool_output_token_limit

VARIABLES
    output,     \* the result as it was given
    limit,      \* the configured limit
    stored      \* the result as the Session stores it

truncationVars == <<output, limit, stored>>

-------------------------------------------------------------------------------
(* RunTexts *)

Run(kind, n) == [kind |-> kind, n |-> n]
RunKinds == {"plain", "newline", "quote", "backslash", "wide"}
RunTexts == Seq([kind : RunKinds, n : Nat])

Plain(n) == <<Run("plain", n)>>
Newlines(n) == <<Run("newline", n)>>

WidthOf(kind) == IF kind = "wide" THEN 3 ELSE 1

Bytes(text) ==
    LET upTo[k \in 0 .. Len(text)] ==
            IF k = 0 THEN 0 ELSE upTo[k - 1] + text[k].n * WidthOf(text[k].kind)
    IN  upTo[Len(text)]

BytesPerToken == 4
CeilDiv(a, b) == (a + b - 1) \div b
TokensOf(text) == CeilDiv(Bytes(text), BytesPerToken)

Least(a, b) == IF a < b THEN a ELSE b
Less(a, b) == IF a < b THEN 0 ELSE a - b    \* saturating_sub

Digits[n \in Nat] == IF n < 10 THEN 1 ELSE 1 + Digits[n \div 10]

\* What fits of a run.
PieceOf(run, bytes) ==
    LET whole == bytes \div WidthOf(run.kind)
    IN  IF whole = 0 THEN <<>> ELSE <<Run(run.kind, whole)>>

\* The longest prefix of whole characters in so many bytes.
TakePrefix(text, bytes) ==
    LET start(k) == SubSeq(text, 1, k)
        whole == Max({k \in 0 .. Len(text) : Bytes(start(k)) <= bytes})
    IN  IF whole = Len(text) THEN text
        ELSE start(whole) \o PieceOf(text[whole + 1], bytes - Bytes(start(whole)))

\* The longest suffix.
TakeSuffix(text, bytes) ==
    LET end(k) == SubSeq(text, k + 1, Len(text))
        whole == Min({k \in 0 .. Len(text) : Bytes(end(k)) <= bytes})
    IN  IF whole = 0 THEN text
        ELSE PieceOf(text[whole], bytes - Bytes(end(whole))) \o end(whole)

-------------------------------------------------------------------------------
(* JSON: the nodes of a value by their paths.  Children are numbered; of the  *)
(* keys of an object only the lengths matter.                                 *)

Root == <<>>

StringNode(text) == [kind |-> "string", text |-> text]

Scalar(bytes) == [path \in {Root} |-> [kind |-> "scalar", bytes |-> bytes]]
String(text) == [path \in {Root} |-> StringNode(text)]

ContainerKinds == {"array", "object"}

KindOf(value) == value[Root].kind

PathsTo(value, kinds) == {path \in DOMAIN value : value[path].kind \in kinds}

Quote == <<Run("quote", 1)>>

\* Each of these characters gets a backslash before it.
Escaped(run) ==
    LET character == IF run.kind = "newline" THEN "plain" ELSE run.kind
    IN CASE run.kind = "backslash" -> <<Run("backslash", 2 * run.n)>>
         [] run.kind \in {"newline", "quote"} ->
               [i \in 1 .. 2 * run.n |-> Run(IF i % 2 = 1 THEN "backslash" ELSE character, 1)]
         [] OTHER -> <<run>>

Separated(texts) ==
    FlattenSeq([i \in DOMAIN texts |-> IF i = 1 THEN texts[i] ELSE Plain(1) \o texts[i]])

Serialized(value) ==
    LET written[path \in DOMAIN value] ==
            LET node == value[path]
                key(i) == IF node.kind = "array" THEN <<>>
                          ELSE Quote \o Plain(node.keys[i]) \o Quote \o Plain(1)
            IN CASE node.kind = "scalar" -> Plain(node.bytes)
                 [] node.kind = "string" ->
                       Quote \o FlattenSeq([i \in DOMAIN node.text |-> Escaped(node.text[i])]) \o Quote
                 [] OTHER ->
                       Plain(1)
                       \o Separated([i \in 1 .. node.size |-> key(i) \o written[Append(path, i)]])
                       \o Plain(1)
    IN  written[Root]

SerializedTokens(value) == TokensOf(Serialized(value))

ValueAt(value, path) ==
    LET below == {p \in DOMAIN value : IsPrefix(path, p)}
    IN  [rest \in {SubSeq(p, Len(path) + 1, Len(p)) : p \in below} |-> value[path \o rest]]

IsBelow(p, path) == \E k \in 0 .. Len(p) - 1 : SubSeq(p, 1, k) = path

\* With a string at some path.
PutString(value, path, text) ==
    [p \in {q \in DOMAIN value : ~IsBelow(q, path)} |->
        IF p = path THEN StringNode(text) ELSE value[p]]

\* In the order in which a value is traversed: parents before their children.
IsBefore(p, q) ==
    \/ IsBelow(q, p)
    \/ \E k \in DOMAIN p \cap DOMAIN q :
          p[k] < q[k] /\ SubSeq(p, 1, k - 1) = SubSeq(q, 1, k - 1)

WithoutStrings(value) ==
    [path \in DOMAIN value |->
        IF value[path].kind = "string" THEN StringNode(<<>>) ELSE value[path]]

-------------------------------------------------------------------------------
(* Cutting one text *)

Marker(omitted, of) == Newlines(2) \o Plain(31 + Digits[omitted] + Digits[of]) \o Newlines(2)

TruncateMiddle(text, body) ==
    IF Bytes(text) <= body THEN text
    ELSE IF body = 0 THEN Marker(Bytes(text), Bytes(text))
    ELSE LET head == TakePrefix(text, body \div 2)
             tail == TakeSuffix(text, body - body \div 2)
         IN head \o Marker(Less(Bytes(text), Bytes(head) + Bytes(tail)), Bytes(text)) \o tail

\* Half as much again as the longest notice needs is set aside for the notice.
NoticeReserve(text) == CeilDiv(3 * TokensOf(Marker(Bytes(text), Bytes(text))), 2)

TruncateText(text, tokens) ==
    IF tokens = 0 THEN Marker(Bytes(text), Bytes(text))
    ELSE TruncateMiddle(text, BytesPerToken * Less(tokens, NoticeReserve(text)))

-------------------------------------------------------------------------------
(* Cutting the strings of a value *)

\* Short strings take their share first.
LeafOrder(value) ==
    LET tokens(path) == TokensOf(value[path].text)
    IN  SetToSortSeq(PathsTo(value, {"string"}), LAMBDA p, q :
            tokens(p) < tokens(q) \/ (tokens(p) = tokens(q) /\ IsBefore(p, q)))

\* What each string of the order is allowed: an equal share of what the
\* strings before it and the structure have left over, and no more than it has.
Shares(value, order, budget) ==
    LET next(state, k) ==
            LET share == Least(TokensOf(value[order[k]].text), state.left \div (Len(order) + 1 - k))
            IN [left |-> state.left - share, shares |-> Append(state.shares, share)]
    IN FoldLeft(next,
                [left |-> Less(budget, SerializedTokens(WithoutStrings(value))), shares |-> <<>>],
                [k \in DOMAIN order |-> k]).shares

TruncateStrings(value, budget) ==
    LET order == LeafOrder(value)
        shares == Shares(value, order, budget)
        share(path) == shares[CHOOSE k \in DOMAIN order : order[k] = path]
    IN [path \in DOMAIN value |->
           IF value[path].kind = "string" /\ share(path) < TokensOf(value[path].text)
           THEN StringNode(TruncateText(value[path].text, share(path)))
           ELSE value[path]]

-------------------------------------------------------------------------------
(* Replacing containers *)

ContainerNotice(value) ==
    Plain((IF KindOf(value) = "array" THEN 35 ELSE 36) + Digits[SerializedTokens(value)])

KeptOf(text, body) ==
    IF body >= Bytes(text) THEN text ELSE IF body = 0 THEN <<>> ELSE TruncateMiddle(text, body)

OnItsLine(text) == IF text = <<>> THEN <<>> ELSE Newlines(1) \o text

\* A notice, and as much of the middle-truncated container as asked for.
Candidate(value, body) == ContainerNotice(value) \o OnItsLine(KeptOf(Serialized(value), body))

Fits(text, target) == SerializedTokens(String(text)) <= target

\* Lengths are below 2^31; a range is halved as often as its length has bits.
WordBits == 31

Bits(length) == Cardinality({k \in 0 .. WordBits - 1 : 2 ^ k <= length})

\* Half the range in which the longest candidate that fits is searched for.
Halved(value, target, range) ==
    LET middle == range.low + (range.high - range.low) \div 2
    IN  IF range.low + 1 >= range.high THEN range
        ELSE IF Fits(Candidate(value, middle), target) THEN [low |-> middle, high |-> range.high]
        ELSE [low |-> range.low, high |-> middle]

SearchBody(value, target) ==
    LET length == Bytes(Serialized(value))
        range[n \in 0 .. Bits(length)] ==
            IF n = 0 THEN [low |-> 0, high |-> length + 1]
            ELSE Halved(value, target, range[n - 1])
    IN  range[Bits(length)].low

\* Mutant: the body is measured as it is, not as it will be escaped.
ContainerTextUnescaped(value, target) ==
    LET room == Less(BytesPerToken * target, Bytes(ContainerNotice(value)) + 3)
    IN IF ~Fits(Candidate(value, 0), target) THEN ContainerNotice(value)
       ELSE Candidate(value, room)

ContainerText(value, target) ==
    IF ~Fits(Candidate(value, 0), target) THEN ContainerNotice(value)
    ELSE Candidate(value, SearchBody(value, target))

\* The containers that get shorter by it.
Shrinking(value, target) ==
    {path \in PathsTo(value, ContainerKinds) :
        LET container == ValueAt(value, path)
        IN SerializedTokens(String(ContainerText(container, target)))
              < SerializedTokens(container)}

\* Of several at the same depth the one that comes first.
Deepest(paths) ==
    CHOOSE p \in paths : \A q \in paths :
        Len(q) < Len(p) \/ (Len(q) = Len(p) /\ ~IsBefore(q, p))

ContainerReplaced(value, path, target) ==
    PutString(value, path, ContainerText(ValueAt(value, path), target))

\* The deepest container that gets shorter by it becomes a string.
Shortened(value, target) ==
    LET able == Shrinking(value, target)
    IN IF SerializedTokens(value) <= target \/ able = {} THEN value
       ELSE ContainerReplaced(value, Deepest(able), target)

\* A container that no part of can be shortened is replaced as a whole.
ReplacedAsWhole(value, target) ==
    IF SerializedTokens(value) <= target \/ KindOf(value) \notin ContainerKinds THEN value
    ELSE String(ContainerText(value, target))

\* Again and again, until the whole fits; each time there is one container less.
TruncateContainers(value, target) ==
    LET rounds == Cardinality(DOMAIN value)
        after[n \in 0 .. rounds] ==
            IF n = 0 THEN value ELSE Shortened(after[n - 1], target)
    IN ReplacedAsWhole(after[rounds], target)

Truncated(value, tokens) ==
    IF SerializedTokens(value) <= tokens \/ KindOf(value) = "scalar" THEN value
    ELSE IF KindOf(value) = "string" THEN String(TruncateText(value[Root].text, tokens))
    ELSE LET strings == TruncateStrings(value, tokens)
         IN IF SerializedTokens(strings) <= tokens THEN strings
            ELSE TruncateContainers(strings, tokens)
-------------------------------------------------------------------------------

ASSUME OutputsAssumption ==
    \A value \in Outputs :
        /\ IsFiniteSet(DOMAIN value) /\ DOMAIN value \subseteq Seq(Nat) /\ Root \in DOMAIN value
        /\ KindOf(value) \in {"scalar", "string"} \cup ContainerKinds
        /\ KindOf(value) = "string" => value[Root].text \in RunTexts

ASSUME LimitsAssumption == Limits \subseteq Nat

Unstored == [path \in {} |-> {}]

TruncationInit == output \in Outputs /\ limit \in Limits /\ stored = Unstored

Stores(value) == stored = Unstored /\ stored' = value /\ UNCHANGED <<output, limit>>

\* The executor cuts what a tool returns, phi session tool-result what it is
\* given.
StoreCut == Stores(Truncated(output, limit))

\* The error of a tool that failed is kept whole, and so is what is given to
\* phi session tool-result --no-truncate.
StoreWhole == Stores(output)

TruncationNext == StoreCut \/ StoreWhole

TruncationSpec == TruncationInit /\ [][TruncationNext]_truncationVars

-------------------------------------------------------------------------------
(* Properties *)

\* A result that was cut fits the limit, or is nothing but a notice; only
\* strings that are results by themselves may exceed it, by what JSON adds.
CutResultsFit ==
    \/ stored \in {Unstored, output}
    \/ SerializedTokens(stored) <= limit
    \/ KindOf(stored) = "string" /\ \A i \in DOMAIN stored[Root].text : stored[Root].text[i].kind = "plain"
    \/ /\ KindOf(output) = "string"
       /\ \/ TokensOf(stored[Root].text) <= limit
          \/ stored[Root].text = Marker(Bytes(output[Root].text), Bytes(output[Root].text))

===============================================================================
