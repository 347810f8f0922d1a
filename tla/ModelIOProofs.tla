----------------------------- MODULE ModelIOProofs ----------------------------
(***************************************************************************)
(* Proofs about CompactHistories: compaction keeps tool results with their *)
(* calls, for histories of any length and whatever call identifiers are    *)
(* used again, and no more than it needs when they are not.  About         *)
(* ProviderTurns: calls and results pair up in requests, and reasoning     *)
(* goes back under its key.  Truncation: whatever tools return and         *)
(* whatever the limit is, what is stored fits it or is a notice.           *)
(***************************************************************************)
EXTENDS CompactHistories, ProviderTurns, Truncation, ChainProofs

\* Histories are made of turns whose calls are all answered.
HistoryInv == conversation \in Seq(Message) /\ Answered(conversation)

LEMMA HistoriesStart ==
  ASSUME HistoriesInit
  PROVE  HistoryInv
<1>1. conversation = <<SystemMessage>> /\ SystemMessage \in Message
  BY MessageTypes DEF HistoriesInit
<1> QED
  BY <1>1, AnsweredSimple DEF HistoryInv

\* Adding messages that answer their own calls.
LEMMA GrowKeeps ==
  ASSUME HistoryInv, NEW messages \in Seq(Message), Answered(messages), Grow(messages)
  PROVE  HistoryInv'
<1>1. conversation' = conversation \o messages
  BY DEF Grow
<1> QED
  BY <1>1, AnsweredConcat DEF HistoryInv

LEMMA HistoriesStep ==
  ASSUME HistoryInv, HistoriesNext
  PROVE  HistoryInv'
<1>1. CASE UserSpeaks
  <2>1. <<UserMessage>> \in Seq(Message)
    BY MessageTypes
  <2> QED
    BY <1>1, <2>1, GrowKeeps, AnsweredSimple DEF UserSpeaks
<1>2. CASE AssistantSpeaks
  <2>1. <<AssistantMessage(<<>>)>> \in Seq(Message)
    <3>1. <<>> \in Seq(CallIds)
      OBVIOUS
    <3>2. AssistantMessage(<<>>) \in Message
      BY <3>1, MessageTypes
    <3> QED
      BY <3>2
  <2> QED
    BY <1>2, <2>1, GrowKeeps, AnsweredSimple DEF AssistantSpeaks
<1>3. CASE TurnRuns
  <2>1. PICK calls \in TurnCalls : Grow(TurnMessages(<<>>, calls, calls))
    BY <1>3 DEF TurnRuns
  <2>2. calls \in Seq(CallIds) /\ <<>> \in Seq(Message) /\ Answered(<<>>)
    BY GrowthAssumption, AnsweredSimple
  <2>3. /\ TurnMessages(<<>>, calls, calls) \in Seq(Message)
        /\ Answered(TurnMessages(<<>>, calls, calls))
    BY <2>2, AnsweredTurn
  <2> QED
    BY <2>1, <2>3, GrowKeeps
<1>4. CASE Compacts
  <2>1. PICK rate \in Rates : conversation' = Compact(conversation, rate)
    BY <1>4 DEF Compacts
  <2> QED
    BY <2>1, CompactType, AnsweredCompact DEF HistoryInv
<1> QED
  BY <1>1, <1>2, <1>3, <1>4 DEF HistoriesNext

LEMMA HistoryKept == HistoriesSpec => []HistoryInv
<1>1. HistoryInv /\ [HistoriesNext]_conversation => HistoryInv'
  <2>1. ASSUME HistoryInv, UNCHANGED conversation PROVE HistoryInv'
    BY <2>1 DEF HistoryInv
  <2> QED
    BY <2>1, HistoriesStep
<1> QED
  BY HistoriesStart, <1>1, PTL DEF HistoriesSpec

\* However a history grows and however often and at whatever rate it is compacted,
\* every tool call in it is answered at once and in order.
THEOREM CompactionsKeepPairs == HistoriesSpec => []CompactionKeepsPairs
<1>1. HistoryInv => CompactionKeepsPairs
  BY DEF HistoryInv, Answered, CompactionKeepsPairs
<1> QED
  BY HistoryKept, <1>1, PTL

-------------------------------------------------------------------------------
(* What is kept *)

\* The assistant messages whose turn a start cuts.
Cutters(s) == {i \in 1 .. s : \E k \in DOMAIN conversation[i].calls : i + k > s}

\* A message of a turn is a result: no other turn begins there.
LEMMA TurnsHoldResults ==
  ASSUME HistoryInv, NEW i \in 1 .. Len(conversation), NEW k \in DOMAIN conversation[i].calls
  PROVE  /\ k \in Nat \ {0} /\ i + k \in 1 .. Len(conversation)
         /\ conversation[i].role = "assistant"
         /\ conversation[i + k].role = "tool"
         /\ conversation[i + k].id = conversation[i].calls[k]
         /\ conversation[i + k].calls = <<>>
<1>1. /\ conversation \in Seq(Message) /\ Answered(conversation)
      /\ Len(conversation) \in Nat /\ DOMAIN conversation = 1 .. Len(conversation)
  BY DEF HistoryInv
<1>2. conversation[i] \in Message
  BY <1>1
<1>3. conversation[i].calls \in Seq(CallIds)
  BY <1>2 DEF Message
<1>4. k \in 1 .. Len(conversation[i].calls) /\ Len(conversation[i].calls) \in Nat
  BY <1>3
<1>5. conversation[i].calls # <<>>
  BY <1>4
<1>6. /\ i + k <= Len(conversation)
      /\ conversation[i + k] = ToolResultMessage(conversation[i].calls[k])
      /\ conversation[i].role = "assistant"
  BY <1>1, <1>4, <1>5, AnsweredAt
<1> QED
  BY <1>1, <1>4, <1>6 DEF ToolResultMessage

\* Turns do not overlap.
LEMMA OneTurnIsCut ==
  ASSUME HistoryInv, NEW s \in 0 .. Len(conversation), NEW i \in Cutters(s), NEW j \in Cutters(s)
  PROVE  i = j
<1>1. Len(conversation) \in Nat
  BY DEF HistoryInv
<1>2. ASSUME NEW a \in Cutters(s), NEW b \in Cutters(s), a < b PROVE FALSE
  <2>1. PICK k \in DOMAIN conversation[a].calls : a + k > s
    BY DEF Cutters
  <2>2. PICK m \in DOMAIN conversation[b].calls : b + m > s
    BY DEF Cutters
  <2>3. a \in 1 .. Len(conversation) /\ b \in 1 .. Len(conversation) /\ b <= s
    BY <1>1 DEF Cutters
  <2>4. conversation[a] \in Message /\ k \in Nat
    BY <2>1, <2>3, TurnsHoldResults DEF HistoryInv
  <2>5. conversation[a].calls \in Seq(CallIds)
    BY <2>4 DEF Message
  <2>6. b - a \in DOMAIN conversation[a].calls
    BY <1>2, <2>1, <2>3, <2>4, <2>5
  <2>7. conversation[a + (b - a)].role = "tool"
    <3> DEFINE d == b - a
    <3>1. d \in DOMAIN conversation[a].calls
      BY <2>6
    <3> HIDE DEF d
    <3>2. conversation[a + d].role = "tool"
      BY <2>3, <3>1, TurnsHoldResults
    <3> QED
      BY <3>2 DEF d
  <2>8. conversation[b].role = "assistant"
    BY <2>2, <2>3, TurnsHoldResults
  <2>9. a + (b - a) = b
    BY <2>3
  <2> QED
    BY <2>7, <2>8, <2>9
<1>3. i \in 1 .. s /\ j \in 1 .. s
  BY DEF Cutters
<1> QED
  BY <1>2, <1>3

\* The assistant messages that kept results reach back for are those whose turn
\* is cut, when call identifiers are not used again.
LEMMA CutTurnsArePaired ==
  ASSUME HistoryInv, UniqueCalls, NEW s \in 0 .. Len(conversation)
  PROVE  PairedStarts(conversation, s) = {i - 1 : i \in Cutters(s)}
<1> DEFINE Calling(c, id) == /\ conversation[c].role = "assistant"
                           /\ id \in ToSet(conversation[c].calls)
           Kept == {r \in s + 1 .. Len(conversation) : conversation[r].role = "tool"}
           NearestTo(id) == {c \in 1 .. s : /\ Calling(c, id)
                                          /\ \A d \in c + 1 .. s : ~Calling(d, id)}
           Found == UNION {NearestTo(conversation[r].id) : r \in Kept}
<1>1. /\ Len(conversation) \in Nat /\ DOMAIN conversation = 1 .. Len(conversation)
      /\ \A i \in 1 .. Len(conversation) :
            /\ conversation[i].calls \in Seq(CallIds)
            /\ DOMAIN conversation[i].calls = 1 .. Len(conversation[i].calls)
            /\ Len(conversation[i].calls) \in Nat
  <2>1. conversation \in Seq(Message)
    BY DEF HistoryInv
  <2>2. \A i \in 1 .. Len(conversation) : conversation[i] \in Message
    BY <2>1
  <2> QED
    BY <2>1, <2>2 DEF Message
<1>2. PairedStarts(conversation, s) = {c - 1 : c \in Found}
  BY DEF PairedStarts
<1>3. ASSUME NEW c \in Found PROVE c \in Cutters(s)
  <2>1. PICK r \in Kept : c \in NearestTo(conversation[r].id)
    OBVIOUS
  <2>2. /\ c \in 1 .. s /\ r \in s + 1 .. Len(conversation) /\ conversation[r].role = "tool"
        /\ conversation[r].id \in ToSet(conversation[c].calls)
    BY <2>1
  <2>3. r \in 1 .. Len(conversation) /\ c \in 1 .. Len(conversation)
    BY <1>1, <2>2
  <2>4. PICK j \in 1 .. r - 1 : r - j <= Len(conversation[j].calls)
    BY <2>2, <2>3, AnsweredAt DEF HistoryInv
  <2>5. j \in 1 .. Len(conversation) /\ r - j \in DOMAIN conversation[j].calls /\ j + (r - j) = r
    <3>1. /\ r \in Nat /\ j \in Nat /\ j >= 1 /\ j <= r - 1 /\ j <= Len(conversation)
      BY <1>1, <2>3
    <3>2. j \in 1 .. Len(conversation)
      BY <1>1, <3>1
    <3> QED
      BY <1>1, <2>4, <3>1, <3>2
  <2>6. conversation[r].id = conversation[j].calls[r - j]
    BY <2>5, TurnsHoldResults
  <2>7. conversation[r].id \in ToSet(conversation[j].calls)
    BY <2>5, <2>6 DEF ToSet
  <2>8. c = j
    BY <1>1, <2>2, <2>3, <2>5, <2>7 DEF UniqueCalls
  <2>9. c + (r - c) > s
    BY <2>2, <2>3
  <2> QED
    BY <2>2, <2>5, <2>8, <2>9 DEF Cutters
<1>4. ASSUME NEW i \in Cutters(s) PROVE i \in Found
  <2>1. PICK k \in DOMAIN conversation[i].calls : i + k > s
    BY DEF Cutters
  <2>2. i \in 1 .. s /\ i \in 1 .. Len(conversation)
    BY <1>1 DEF Cutters
  <2> DEFINE id == conversation[i].calls[k]
  <2>3. i + k \in Kept /\ conversation[i + k].id = id /\ conversation[i].role = "assistant"
    BY <1>1, <2>1, <2>2, TurnsHoldResults
  <2>4. id \in ToSet(conversation[i].calls)
    BY <2>1 DEF ToSet
  <2>5. ASSUME NEW d \in i + 1 .. s PROVE ~Calling(d, id)
    <3>1. d \in DOMAIN conversation /\ i \in DOMAIN conversation /\ i # d
      BY <1>1, <2>2
    <3>2. ToSet(conversation[i].calls) \cap ToSet(conversation[d].calls) = {}
      BY <3>1 DEF UniqueCalls
    <3> QED
      BY <2>4, <3>2
  <2>6. i \in NearestTo(id)
    BY <2>2, <2>3, <2>4, <2>5
  <2> QED
    BY <2>3, <2>6
<1>5. Found = Cutters(s)
  <2> HIDE DEF Found
  <2> QED
    BY <1>3, <1>4
<1> HIDE DEF Found
<1> QED
  BY <1>2, <1>5

\* Where a turn that is cut begins, no turn is cut, and the system prompt is over.
LEMMA TurnBeginnings ==
  ASSUME HistoryInv, NEW s \in 0 .. Len(conversation), NEW i \in Cutters(s)
  PROVE  /\ i - 1 \in SystemEnd(conversation) .. s - 1
         /\ Cutters(i - 1) = {}
         /\ \A t \in i .. s : i \in Cutters(t)
<1>1. /\ Len(conversation) \in Nat /\ i \in 1 .. s /\ i \in 1 .. Len(conversation)
      /\ s \in Nat /\ conversation \in Seq(Message)
  BY DEF HistoryInv, Cutters
<1>2. PICK k \in DOMAIN conversation[i].calls : i + k > s
  BY DEF Cutters
<1>3. conversation[i].role = "assistant" /\ k \in Nat \ {0}
  BY <1>1, <1>2, TurnsHoldResults
<1>4. SystemEnd(conversation) <= i - 1
  <2>1. /\ SystemEnd(conversation) \in 0 .. Len(conversation)
        /\ \A j \in 1 .. SystemEnd(conversation) : conversation[j].role = "system"
    BY <1>1, SystemEndBounds
  <2>2. i \notin 1 .. SystemEnd(conversation)
    BY <1>3, <2>1
  <2> QED
    BY <1>1, <2>1, <2>2
<1>5. ASSUME NEW j \in Cutters(i - 1) PROVE FALSE
  <2>1. PICK m \in DOMAIN conversation[j].calls : j + m > i - 1
    BY DEF Cutters
  <2>2. j \in 1 .. i - 1 /\ j \in 1 .. Len(conversation)
    BY <1>1 DEF Cutters
  <2>3. /\ m \in Nat \ {0} /\ conversation[j].calls \in Seq(CallIds)
    <3>1. conversation[j] \in Message
      BY <1>1, <2>2
    <3> QED
      BY <2>1, <2>2, <3>1, TurnsHoldResults DEF Message
  <2>4. i - j \in DOMAIN conversation[j].calls /\ j + (i - j) = i
    <3>1. i \in Nat /\ j \in Nat /\ j < i /\ i - j <= m
      BY <1>1, <2>1, <2>2, <2>3
    <3>2. DOMAIN conversation[j].calls = 1 .. Len(conversation[j].calls)
          /\ Len(conversation[j].calls) \in Nat
      BY <2>3, LenProperties
    <3>3. m \in Nat /\ m <= Len(conversation[j].calls)
      BY <2>1, <2>3, <3>2
    <3> DEFINE most == Len(conversation[j].calls)
    <3>4. most \in Nat /\ m <= most
      BY <3>2, <3>3
    <3> HIDE DEF most
    <3>5. i - j \in 1 .. most /\ j + (i - j) = i
      BY <3>1, <3>3, <3>4
    <3> QED
      BY <3>2, <3>5 DEF most
  <2>5. conversation[i].role = "tool"
    BY <2>2, <2>4, TurnsHoldResults
  <2> QED
    BY <1>3, <2>5
<1>6. \A t \in i .. s : i \in Cutters(t)
  BY <1>1, <1>2, <1>3 DEF Cutters
<1>7. i - 1 \in SystemEnd(conversation) .. s - 1
  <2>1. SystemEnd(conversation) \in Nat
    BY <1>1, SystemEndBounds
  <2> QED
    BY <1>1, <1>4, <2>1
<1>8. Cutters(i - 1) = {}
  BY <1>5
<1> QED
  BY <1>6, <1>7, <1>8

\* The start goes back to the beginning of the turn it would cut, or stays.
LEMMA StartMovesOnce ==
  ASSUME HistoryInv, UniqueCalls, SystemEnd(conversation) < Len(conversation), NEW budget
  PROVE  LET s == BudgetStart(conversation, budget)
             start == RetainedStart(conversation, budget)
         IN IF Cutters(s) = {} THEN start = s ELSE start + 1 \in Cutters(s)
<1> DEFINE n == Len(conversation)
           s == BudgetStart(conversation, budget)
           e == CHOOSE f : ExtendUpTo(conversation, n, f)
<1>1. n \in Nat /\ conversation \in Seq(Message)
  BY DEF HistoryInv
<1>2. ExtendUpTo(conversation, n, e)
  BY <1>1, ExtendExists
<1>3. RetainedStart(conversation, budget) = e[s]
  BY DEF RetainedStart, ExtendUpTo, ExtendStep, Paired
<1>4. s \in 0 .. n
  BY <1>1, BudgetStartBounds, SystemEndBounds
<1> HIDE DEF e, n, s
<1>5. \A t \in 0 .. n : e[t] = ExtendStep(conversation, e, t)
  BY <1>2 DEF ExtendUpTo
<1>6. ASSUME NEW t \in 0 .. n, Cutters(t) = {} PROVE e[t] = t
  <2>1. PairedStarts(conversation, t) = {}
    BY <1>6, CutTurnsArePaired DEF n
  <2>2. Paired(conversation, t) \in {t}
    <3>1. {t} \in SUBSET (0 .. n) /\ {t} # {} /\ PairedStarts(conversation, t) \cup {t} = {t}
      BY <2>1
    <3> QED
      BY <1>1, <3>1, MinOf DEF Paired
  <2> QED
    BY <1>5, <2>2 DEF ExtendStep
<1>7. ASSUME NEW i \in Cutters(s) PROVE e[s] = i - 1
  <2>1. /\ i - 1 \in SystemEnd(conversation) .. s - 1 /\ Cutters(i - 1) = {}
    BY <1>4, TurnBeginnings DEF n
  <2>2. SystemEnd(conversation) \in Nat
    BY <1>1, SystemEndBounds
  <2>3. PairedStarts(conversation, s) = {i - 1}
    <3>1. Cutters(s) = {i}
      BY <1>4, OneTurnIsCut DEF n
    <3> QED
      BY <1>4, <3>1, CutTurnsArePaired DEF n
  <2>4. Paired(conversation, s) = i - 1
    <3> DEFINE T == {i - 1, s}
    <3>1. T \in SUBSET (0 .. n) /\ T # {} /\ PairedStarts(conversation, s) \cup {s} = T
      BY <1>1, <1>4, <2>1, <2>2, <2>3
    <3>2. i - 1 \in T
      OBVIOUS
    <3>3. Min(T) \in T /\ Min(T) <= i - 1
      <4> HIDE DEF T
      <4> QED
        BY <1>1, <3>1, <3>2, MinOf
    <3>4. Min(T) = i - 1
      BY <1>4, <2>1, <2>2, <3>3
    <3> QED
      BY <3>1, <3>4 DEF Paired
  <2>5. e[s] = e[i - 1]
    BY <1>4, <1>5, <2>1, <2>2, <2>4 DEF ExtendStep
  <2>6. i - 1 \in 0 .. n
    <3>1. i \in 1 .. s
      BY DEF Cutters
    <3> QED
      BY <1>1, <1>4, <3>1
  <2> QED
    BY <1>6, <2>1, <2>5, <2>6
<1>8. CASE Cutters(s) = {}
  BY <1>3, <1>4, <1>6, <1>8 DEF s
<1>9. CASE Cutters(s) # {}
  <2>1. PICK i \in Cutters(s) : TRUE
    BY <1>9
  <2>2. i \in 1 .. s
    BY DEF Cutters
  <2>3. RetainedStart(conversation, budget) = i - 1
    BY <1>3, <1>7, <2>1
  <2>4. i - 1 + 1 = i
    BY <1>4, <2>2
  <2> QED
    BY <1>9, <2>3, <2>4 DEF s
<1> QED
  BY <1>8, <1>9

\* When call identifiers are not used again, compaction keeps the longest suffix
\* within the budget, extended to the start of the turn it would cut, for every
\* history, weight of messages and budget.
THEOREM CompactionsKeepNoMore == HistoriesSpec => []KeepsNoMoreThanNeeded
<1>1. HistoryInv => KeepsNoMoreThanNeeded
  <2> SUFFICES ASSUME HistoryInv, UniqueCalls, SystemEnd(conversation) < Len(conversation),
                      NEW budget \in 0 .. Tokens(conversation)
               PROVE  RetainedStart(conversation, budget) =
                        Max({s \in SystemEnd(conversation) .. BudgetStart(conversation, budget) :
                                ~CutsTurn(s)})
    BY DEF KeepsNoMoreThanNeeded
  <2> DEFINE first == SystemEnd(conversation)
             last == BudgetStart(conversation, budget)
             start == RetainedStart(conversation, budget)
             T == {s \in first .. last : ~CutsTurn(s)}
  <2>1. /\ Len(conversation) \in Nat /\ first \in Nat
        /\ last \in first .. Len(conversation) - 1
        /\ start \in Nat
    BY SystemEndBounds, BudgetStartBounds, RetainedStartBounds DEF HistoryInv
  <2>2. \A s \in 0 .. last : CutsTurn(s) <=> Cutters(s) # {}
    BY DEF CutsTurn, Cutters
  <2>3. start \in T /\ \A t \in T : t <= start
    <3>1. CASE Cutters(last) = {}
      BY <2>1, <2>2, <3>1, StartMovesOnce
    <3>2. CASE Cutters(last) # {}
      <4> DEFINE i == start + 1
      <4>1. i \in Cutters(last) /\ last \in 0 .. Len(conversation)
        BY <2>1, <3>2, StartMovesOnce
      <4>2. /\ i - 1 \in first .. last - 1 /\ Cutters(i - 1) = {}
            /\ \A t \in i .. last : i \in Cutters(t)
        BY <4>1, TurnBeginnings
      <4>3. i - 1 = start
        BY <2>1
      <4>4. start \in T
        BY <2>1, <2>2, <4>2, <4>3
      <4>5. ASSUME NEW t \in T PROVE t <= start
        BY <2>1, <2>2, <4>2, <4>5
      <4> QED
        BY <4>4, <4>5
    <3> QED
      BY <3>1, <3>2
  <2>4. T \in SUBSET (0 .. Len(conversation)) /\ T # {}
    BY <2>1, <2>3
  <2>5. Max(T) \in T /\ start <= Max(T)
    <3> HIDE DEF T
    <3> QED
      BY <2>1, <2>3, <2>4, MaxOf
  <2>6. Max(T) <= start /\ Max(T) \in Nat
    BY <2>1, <2>3, <2>4, <2>5
  <2> QED
    BY <2>1, <2>5, <2>6
<1>2. HistoriesSpec => []HistoryInv
  BY HistoryKept
<1> QED
  BY <1>1, <1>2, PTL

-------------------------------------------------------------------------------
(* What the Responses protocol is sent *)

\* What a history becomes in a request of the Responses protocol.
Input(messages) == FlattenSeq([i \in DOMAIN messages |-> InputItems(messages[i])])

\* The items that a message can become.
WireItems == UNION {Range(InputItems(m)) : m \in CanonicalMessages}

\* A message of an assistant becomes its calls, in order, after items of other
\* types.
LEMMA AssistantParts ==
  ASSUME NEW m \in AssistantMessages
  PROVE  LET calls == [i \in DOMAIN m.calls |-> FunctionCallItem(m.calls[i])]
         IN \E E, before : /\ before \in Seq(E) /\ calls \in Seq(E)
                           /\ AssistantItems(m) = before \o calls
                           /\ \A i \in DOMAIN before : before[i].type \in {"reasoning", "message"}
<1> DEFINE calls == [i \in DOMAIN m.calls |-> FunctionCallItem(m.calls[i])]
           thought == [i \in DOMAIN m.reasoning |-> ReasoningItem(m.reasoning[i])]
           said == IF m.content = <<>> THEN <<>> ELSE <<MessageItem("assistant", m.content)>>
           before == thought \o said
           E == Range(calls) \cup Range(thought) \cup Range(said)
<1>1. /\ Len(m.calls) \in Nat /\ DOMAIN m.calls = 1 .. Len(m.calls)
      /\ Len(m.reasoning) \in Nat /\ DOMAIN m.reasoning = 1 .. Len(m.reasoning)
  BY DEF AssistantMessages
<1>2. calls \in Seq(Range(calls)) /\ thought \in Seq(Range(thought))
  <2>1. ASSUME NEW n \in Nat, NEW f, f = [i \in 1 .. n |-> f[i]]
        PROVE  f \in Seq(Range(f))
    BY <2>1 DEF Range
  <2>2. /\ calls = [i \in 1 .. Len(m.calls) |-> calls[i]]
        /\ thought = [i \in 1 .. Len(m.reasoning) |-> thought[i]]
    BY <1>1
  <2> HIDE DEF calls, thought
  <2> QED
    BY <1>1, <2>1, <2>2
<1>3. said \in Seq(Range(said))
  <2>1. ASSUME NEW item PROVE <<item>> \in Seq(Range(<<item>>))
    BY DEF Range
  <2>2. <<>> \in Seq(Range(<<>>))
    OBVIOUS
  <2> HIDE DEF calls, thought
  <2> QED
    BY <2>1, <2>2
<1>4. \A i \in DOMAIN thought : thought[i].type = "reasoning"
  BY DEF ReasoningItem
<1>5. \A i \in DOMAIN said : said[i].type = "message"
  BY DEF MessageItem
<1>6. AssistantItems(m) = before \o calls
  BY DEF AssistantItems
<1> HIDE DEF calls, thought, said
<1>7. calls \in Seq(E) /\ thought \in Seq(E) /\ said \in Seq(E)
  BY <1>2, <1>3
<1> HIDE DEF E
<1>8. before \in Seq(E)
  BY <1>7
<1>9. \A i \in DOMAIN before : before[i].type \in {"reasoning", "message"}
  BY <1>4, <1>5, <1>7
<1> HIDE DEF before
<1>10. before \in Seq(E) /\ calls \in Seq(E)
  BY <1>7, <1>8
<1> QED
  BY <1>6, <1>9, <1>10 DEF calls

\* A message becomes a sequence of items.
LEMMA MessageBecomesItems ==
  ASSUME NEW m \in CanonicalMessages
  PROVE  InputItems(m) \in Seq(WireItems)
<1>1. \E E : InputItems(m) \in Seq(E)
  <2>1. CASE m.role = "assistant"
    <3>1. m \in AssistantMessages /\ InputItems(m) = AssistantItems(m)
      BY <2>1 DEF CanonicalMessages, InputItems
    <3>2. PICK E, before, calls : before \in Seq(E) /\ calls \in Seq(E)
                                  /\ AssistantItems(m) = before \o calls
      BY <3>1, AssistantParts
    <3>3. before \o calls \in Seq(E)
      BY <3>2
    <3> QED
      BY <3>1, <3>2, <3>3
  <2>2. CASE m.role # "assistant"
    <3>1. m.role \in {"system", "user", "tool"}
      BY <2>2 DEF CanonicalMessages, AssistantMessages
    <3>2. CASE m.role = "system"
      <4>1. InputItems(m) = <<>>
        BY <3>2 DEF InputItems
      <4>2. <<>> \in Seq({})
        OBVIOUS
      <4> QED
        BY <4>1, <4>2
    <3>3. CASE m.role \in {"user", "tool"}
      <4>1. PICK item : InputItems(m) = <<item>>
        BY <3>3 DEF InputItems
      <4>2. <<item>> \in Seq({item})
        OBVIOUS
      <4> QED
        BY <4>1, <4>2
    <3> QED
      BY <3>1, <3>2, <3>3
  <2> QED
    BY <2>1, <2>2
<1>2. InputItems(m) \in Seq(Range(InputItems(m)))
  BY <1>1, SequenceOfOwn
<1>3. Range(InputItems(m)) \subseteq WireItems
  BY DEF WireItems
<1> QED
  BY <1>2, <1>3

\* A history of one message becomes what the message does.
LEMMA InputOfOne ==
  ASSUME NEW m \in CanonicalMessages
  PROVE  Input(<<m>>) = InputItems(m)
<1>1. [i \in DOMAIN <<m>> |-> InputItems((<<m>>)[i])] = <<InputItems(m)>>
  OBVIOUS
<1>2. InputItems(m) \in Seq(WireItems) /\ <<>> \in Seq(Seq(WireItems))
  BY MessageBecomesItems
<1>3. FlattenSeq(Append(<<>>, InputItems(m))) = FlattenSeq(<<>>) \o InputItems(m)
  BY <1>2, FlattenAppend
<1>4. FlattenSeq(<<>>) = <<>>
  BY DEF FlattenSeq
<1>5. Append(<<>>, InputItems(m)) = <<InputItems(m)>> /\ <<>> \o InputItems(m) = InputItems(m)
  BY <1>2
<1> QED
  BY <1>1, <1>3, <1>4, <1>5 DEF Input

\* Histories one after the other become their items one after the other.
LEMMA InputConcat ==
  ASSUME NEW h \in Seq(CanonicalMessages), NEW t \in Seq(CanonicalMessages)
  PROVE  /\ Input(h) \in Seq(WireItems)
         /\ Input(h \o t) = Input(h) \o Input(t)
<1> DEFINE Each(s) == [i \in DOMAIN s |-> InputItems(s[i])]
<1>1. ASSUME NEW s \in Seq(CanonicalMessages)
      PROVE  Each(s) \in Seq(Seq(WireItems)) /\ Len(Each(s)) = Len(s)
  <2>1. DOMAIN s = 1 .. Len(s) /\ Len(s) \in Nat
        /\ \A i \in 1 .. Len(s) : InputItems(s[i]) \in Seq(WireItems)
    BY ElementOfSeq, MessageBecomesItems
  <2> QED
    BY <2>1
<1>2. h \o t \in Seq(CanonicalMessages) /\ Len(h \o t) = Len(h) + Len(t)
  OBVIOUS
<1>3. Each(h \o t) = Each(h) \o Each(t)
  <2> DEFINE a == Each(h \o t)
             b == Each(h) \o Each(t)
  <2>1. a \in Seq(Seq(WireItems)) /\ Len(a) = Len(h) + Len(t)
    BY <1>1, <1>2
  <2>2. /\ Each(h) \in Seq(Seq(WireItems)) /\ Len(Each(h)) = Len(h)
        /\ Each(t) \in Seq(Seq(WireItems)) /\ Len(Each(t)) = Len(t)
    BY <1>1
  <2>3. b \in Seq(Seq(WireItems)) /\ Len(b) = Len(h) + Len(t)
    <3>1. ASSUME NEW x \in Seq(Seq(WireItems)), NEW y \in Seq(Seq(WireItems))
          PROVE  x \o y \in Seq(Seq(WireItems)) /\ Len(x \o y) = Len(x) + Len(y)
      OBVIOUS
    <3> HIDE DEF Each
    <3> QED
      BY <2>2, <3>1
  <2>4. ASSUME NEW i \in 1 .. Len(h) + Len(t) PROVE a[i] = b[i]
    <3>1. a[i] = InputItems((h \o t)[i])
      BY <1>2
    <3>2. CASE i <= Len(h)
      <4>1. b[i] = Each(h)[i] /\ i \in DOMAIN h /\ (h \o t)[i] = h[i]
        <5> HIDE DEF Each
        <5> QED
          BY <2>2, <3>2
      <4> QED
        BY <3>1, <4>1
    <3>3. CASE i > Len(h)
      <4>1. /\ b[i] = Each(t)[i - Len(h)] /\ i - Len(h) \in DOMAIN t
            /\ (h \o t)[i] = t[i - Len(h)]
        <5> HIDE DEF Each
        <5> QED
          BY <2>2, <3>3
      <4> QED
        BY <3>1, <4>1
    <3> QED
      BY <3>2, <3>3
  <2> HIDE DEF a, b
  <2>5. a = b
    BY <2>1, <2>3, <2>4, SeqEqual
  <2> QED
    BY <2>5 DEF a, b
<1>4. Input(h) = FlattenSeq(Each(h)) /\ Input(t) = FlattenSeq(Each(t))
      /\ Input(h \o t) = FlattenSeq(Each(h \o t))
  BY DEF Input
<1> HIDE DEF Each
<1>5. Each(h) \in Seq(Seq(WireItems)) /\ Each(t) \in Seq(Seq(WireItems))
  BY <1>1
<1>6. FlattenSeq(Each(h) \o Each(t)) = FlattenSeq(Each(h)) \o FlattenSeq(Each(t))
  BY <1>5, FlattenConcat
<1>7. FlattenSeq(Each(h)) \in Seq(WireItems)
  <2>1. <<>> \in Seq(WireItems)
    OBVIOUS
  <2> QED
    BY <1>5, <2>1, FlattenAppend
<1> QED
  BY <1>3, <1>4, <1>6, <1>7
-------------------------------------------------------------------------------
(* Pairs of calls and outputs *)

\* Sequences in which calls and outputs pair up pair up one after the other.
LEMMA PairsConcat ==
  ASSUME NEW E, NEW a \in Seq(E), NEW b \in Seq(E), InputPairsUp(a), InputPairsUp(b)
  PROVE  InputPairsUp(a \o b)
<1> DEFINE m == Len(a)
           n == Len(b)
           c == a \o b
<1>1. /\ m \in Nat /\ n \in Nat /\ DOMAIN a = 1 .. m /\ DOMAIN b = 1 .. n
      /\ DOMAIN c = 1 .. m + n
      /\ \A i \in 1 .. m : c[i] = a[i]
      /\ \A i \in 1 .. n : c[m + i] = b[i]
  OBVIOUS
<1> HIDE DEF m, n, c
<1>2. ASSUME NEW i \in 1 .. m + n PROVE i \in 1 .. m \/ \E j \in 1 .. n : i = m + j
  <2>1. CASE i <= m
    BY <1>1, <2>1
  <2>2. CASE ~(i <= m)
    <3>1. i - m \in 1 .. n /\ i = m + (i - m)
      BY <1>1, <2>2
    <3> QED
      BY <3>1
  <2> QED
    BY <2>1, <2>2
<1>3. ASSUME NEW o \in DOMAIN c, c[o].type = "function_call_output"
      PROVE  \E k \in DOMAIN c : /\ c[k].type = "function_call"
                                 /\ k < o /\ c[k].call_id = c[o].call_id
  <2>1. CASE o \in 1 .. m
    <3>1. a[o].type = "function_call_output"
      BY <1>1, <1>3, <2>1
    <3>2. \E k \in {i \in DOMAIN a : a[i].type = "function_call"} :
             k < o /\ a[k].call_id = a[o].call_id
      <4>1. o \in {i \in DOMAIN a : a[i].type = "function_call_output"}
        BY <1>1, <2>1, <3>1
      <4> QED
        BY <4>1 DEF InputPairsUp
    <3>3. PICK k \in 1 .. m : a[k].type = "function_call" /\ k < o /\ a[k].call_id = a[o].call_id
      BY <1>1, <3>2
    <3> QED
      BY <1>1, <2>1, <3>3
  <2>2. ASSUME NEW j \in 1 .. n, o = m + j
        PROVE  \E k \in DOMAIN c : /\ c[k].type = "function_call"
                                   /\ k < o /\ c[k].call_id = c[o].call_id
    <3>1. b[j].type = "function_call_output"
      BY <1>1, <1>3, <2>2
    <3>2. PICK k \in {i \in DOMAIN b : b[i].type = "function_call"} :
             k < j /\ b[k].call_id = b[j].call_id
      <4>1. j \in {i \in DOMAIN b : b[i].type = "function_call_output"}
        BY <1>1, <3>1
      <4> QED
        BY <4>1 DEF InputPairsUp
    <3>3. m + k \in DOMAIN c /\ m + k < o /\ c[m + k] = b[k] /\ c[o] = b[j]
      BY <1>1, <2>2, <3>2
    <3>4. c[m + k].type = "function_call" /\ c[m + k].call_id = c[o].call_id
      BY <3>2, <3>3
    <3> QED
      BY <3>3, <3>4
  <2> QED
    BY <1>1, <1>2, <2>1, <2>2
<1>4. ASSUME NEW k \in DOMAIN c, c[k].type = "function_call"
      PROVE  \E o \in DOMAIN c :
                /\ c[o].type = "function_call_output" /\ k < o /\ c[k].call_id = c[o].call_id
                /\ \A i \in k .. o : c[i].type \in {"function_call", "function_call_output"}
  <2>1. CASE k \in 1 .. m
    <3>1. a[k].type = "function_call"
      BY <1>1, <1>4, <2>1
    <3>2. PICK o \in 1 .. m :
             /\ a[o].type = "function_call_output" /\ k < o /\ a[k].call_id = a[o].call_id
             /\ \A i \in k .. o : a[i].type \in {"function_call", "function_call_output"}
      BY <1>1, <2>1, <3>1 DEF InputPairsUp
    <3>3. \A i \in k .. o : i \in 1 .. m
      BY <1>1, <2>1
    <3>4. \A i \in k .. o : c[i].type \in {"function_call", "function_call_output"}
      BY <1>1, <3>2, <3>3
    <3> QED
      BY <1>1, <2>1, <3>2, <3>4
  <2>2. ASSUME NEW j \in 1 .. n, k = m + j
        PROVE  \E o \in DOMAIN c :
                  /\ c[o].type = "function_call_output" /\ k < o /\ c[k].call_id = c[o].call_id
                  /\ \A i \in k .. o : c[i].type \in {"function_call", "function_call_output"}
    <3>1. b[j].type = "function_call"
      BY <1>1, <1>4, <2>2
    <3>2. PICK o \in 1 .. n :
             /\ b[o].type = "function_call_output" /\ j < o /\ b[j].call_id = b[o].call_id
             /\ \A i \in j .. o : b[i].type \in {"function_call", "function_call_output"}
      BY <1>1, <2>2, <3>1 DEF InputPairsUp
    <3>3. m + o \in DOMAIN c /\ k < m + o /\ c[m + o] = b[o] /\ c[k] = b[j]
      BY <1>1, <2>2, <3>2
    <3>4. ASSUME NEW i \in k .. m + o
          PROVE  c[i].type \in {"function_call", "function_call_output"}
      <4>1. i - m \in j .. o /\ i - m \in 1 .. n /\ i = m + (i - m)
        BY <1>1, <2>2
      <4>2. c[m + (i - m)] = b[i - m]
        BY <1>1, <4>1
      <4> QED
        BY <3>2, <4>1, <4>2
    <3> QED
      BY <3>2, <3>3, <3>4
  <2> QED
    BY <1>1, <1>2, <2>1, <2>2
<1>5. InputPairsUp(c)
  BY <1>3, <1>4 DEF InputPairsUp
<1> QED
  BY <1>5 DEF c

\* Where nothing is called and nothing answered, all pairs up.
LEMMA NothingToPair ==
  ASSUME NEW a, \A i \in DOMAIN a : a[i].type \in {"reasoning", "message"}
  PROVE  InputPairsUp(a)
BY DEF InputPairsUp

\* A batch as it is taken into a history: the message with its calls, and a
\* result for each.
Batch(assistant, json, text) ==
    <<assistant>> \o [i \in DOMAIN assistant.calls |->
                         ToolResult(assistant.calls[i], json, text)]

\* The calls of a batch and their results pair up.
LEMMA BatchPairsUp ==
  ASSUME NEW m \in AssistantMessages, NEW json \in BOOLEAN, NEW text \in Texts
  PROVE  /\ Batch(m, json, text) \in Seq(CanonicalMessages)
         /\ InputPairsUp(Input(Batch(m, json, text)))
<1> DEFINE n == Len(m.calls)
           results == [i \in 1 .. n |-> ToolResult(m.calls[i], json, text)]
           calls == [i \in 1 .. n |-> FunctionCallItem(m.calls[i])]
           outputs == [i \in 1 .. n |-> InputItems(results[i])[1]]
           pairs == calls \o outputs
<1>1. n \in Nat /\ DOMAIN m.calls = 1 .. n /\ \A i \in 1 .. n : m.calls[i] \in ToolCalls
  BY ElementOfSeq DEF AssistantMessages
<1>2. \A i \in 1 .. n : CallName(m.calls[i]) \in Names
  BY <1>1 DEF ToolCalls, CallName, Optional
<1>3. results \in Seq(CanonicalMessages) /\ Len(results) = n
  <2>1. \A i \in 1 .. n : ToolResult(m.calls[i], json, text) \in CanonicalMessages
    BY <1>2 DEF ToolResult, CanonicalMessages
  <2> QED
    BY <1>1, <2>1
<1>4. m \in CanonicalMessages /\ <<m>> \in Seq(CanonicalMessages)
  BY DEF CanonicalMessages
<1>5. Batch(m, json, text) = <<m>> \o results
  BY <1>1 DEF Batch
<1>6. ASSUME NEW i \in 1 .. n
      PROVE  /\ InputItems(results[i]) = <<outputs[i]>>
             /\ outputs[i].type = "function_call_output"
             /\ outputs[i].call_id = CallName(m.calls[i])
             /\ outputs[i] \in WireItems
             /\ calls[i].type = "function_call" /\ calls[i].call_id = CallName(m.calls[i])
  <2>1. results[i] = ToolResult(m.calls[i], json, text) /\ results[i] \in CanonicalMessages
    BY <1>3, ElementOfSeq
  <2> HIDE DEF results
  <2>2. results[i].role = "tool" /\ results[i].id = CallName(m.calls[i])
    BY <2>1 DEF ToolResult
  <2>3. InputItems(results[i]) = <<[type |-> "function_call_output", call_id |-> results[i].id,
                                   output |-> ToolResultText(results[i])]>>
    BY <2>2 DEF InputItems
  <2>4. InputItems(results[i]) \in Seq(WireItems)
    BY <2>1, MessageBecomesItems
  <2>5. outputs[i] = [type |-> "function_call_output", call_id |-> results[i].id,
                      output |-> ToolResultText(results[i])]
    BY <2>3
  <2>6. outputs[i] \in WireItems
    BY <2>3, <2>4, <2>5
  <2>7. calls[i].type = "function_call" /\ calls[i].call_id = CallName(m.calls[i])
    BY DEF FunctionCallItem
  <2> HIDE DEF outputs
  <2> QED
    BY <2>2, <2>3, <2>5, <2>6, <2>7
<1>7. outputs \in Seq(WireItems) /\ Len(outputs) = n /\ Input(results) = outputs
  <2>1. outputs = [i \in 1 .. n |-> outputs[i]]
    OBVIOUS
  <2>2. [i \in DOMAIN results |-> InputItems(results[i])] = [i \in 1 .. n |-> <<outputs[i]>>]
    <3>1. DOMAIN results = 1 .. n
      OBVIOUS
    <3> HIDE DEF outputs, results
    <3> QED
      BY <1>6, <3>1
  <2> HIDE DEF outputs, results
  <2>3. outputs \in Seq(WireItems) /\ Len(outputs) = n /\ DOMAIN outputs = 1 .. n
    <3>1. n \in Nat /\ \A i \in 1 .. n : outputs[i] \in WireItems
      BY <1>1, <1>6
    <3> HIDE DEF n, calls, pairs
    <3> QED
      BY <2>1, <3>1
  <2>4. FlattenSeq([i \in DOMAIN outputs |-> <<outputs[i]>>]) = outputs
    BY <2>3, FlattenSingles
  <2> QED
    BY <2>2, <2>3, <2>4 DEF Input
<1>8. PICK E, before : /\ before \in Seq(E) /\ calls \in Seq(E)
                       /\ AssistantItems(m) = before \o calls
                       /\ \A i \in DOMAIN before : before[i].type \in {"reasoning", "message"}
  BY <1>1, AssistantParts
<1>9. Input(<<m>>) = before \o calls
  <2>1. InputItems(m) = AssistantItems(m)
    BY DEF InputItems, AssistantMessages
  <2> QED
    BY <1>4, <1>8, <2>1, InputOfOne
<1>10. Len(calls) = n /\ \A i \in 1 .. n : calls[i] \in E
  BY <1>1, <1>8, ElementOfSeq
<1> HIDE DEF n, results, calls, outputs
<1> DEFINE All == E \cup WireItems
<1>11. before \in Seq(All) /\ calls \in Seq(All) /\ outputs \in Seq(All)
  BY <1>7, <1>8
<1>12. pairs \in Seq(All) /\ before \o pairs = (before \o calls) \o outputs
  BY <1>11, ConcatAssociative
<1>13. Input(Batch(m, json, text)) = before \o pairs
  BY <1>3, <1>4, <1>5, <1>7, <1>9, <1>12, InputConcat
<1>14. InputPairsUp(pairs)
  <2>1. /\ DOMAIN pairs = 1 .. n + n
        /\ \A i \in 1 .. n : pairs[i] = calls[i] /\ pairs[n + i] = outputs[i]
    BY <1>1, <1>7, <1>10, <1>11, SMTT(30)
  <2> HIDE DEF pairs
  <2>2. ASSUME NEW i \in 1 .. n + n
        PROVE  i \in 1 .. n \/ (i - n \in 1 .. n /\ i = n + (i - n))
    BY <1>1
  <2>3. \A i \in 1 .. n + n : pairs[i].type \in {"function_call", "function_call_output"}
    BY <1>6, <2>1, <2>2
  <2>4. ASSUME NEW o \in DOMAIN pairs, pairs[o].type = "function_call_output"
        PROVE  \E k \in DOMAIN pairs : /\ pairs[k].type = "function_call"
                                       /\ k < o /\ pairs[k].call_id = pairs[o].call_id
    <3>1. o - n \in 1 .. n /\ o = n + (o - n)
      BY <1>6, <2>1, <2>2, <2>4
    <3>2. pairs[o] = outputs[o - n] /\ pairs[o - n] = calls[o - n]
      BY <2>1, <3>1
    <3>3. o - n < o /\ o - n \in DOMAIN pairs
      BY <1>1, <2>1, <3>1
    <3> QED
      BY <1>6, <3>1, <3>2, <3>3
  <2>5. ASSUME NEW k \in DOMAIN pairs, pairs[k].type = "function_call"
        PROVE  \E o \in DOMAIN pairs :
                  /\ pairs[o].type = "function_call_output"
                  /\ k < o /\ pairs[k].call_id = pairs[o].call_id
                  /\ \A i \in k .. o : pairs[i].type \in {"function_call", "function_call_output"}
    <3>1. k \in 1 .. n
      BY <1>6, <2>1, <2>2, <2>5
    <3>2. pairs[k] = calls[k] /\ pairs[n + k] = outputs[k]
      BY <2>1, <3>1
    <3>3. n + k \in DOMAIN pairs /\ k < n + k /\ \A i \in k .. n + k : i \in 1 .. n + n
      BY <1>1, <2>1, <3>1
    <3> QED
      BY <1>6, <2>3, <3>1, <3>2, <3>3
  <2> QED
    BY <2>4, <2>5 DEF InputPairsUp
<1> HIDE DEF pairs, All
<1>15. InputPairsUp(before)
  BY <1>8, NothingToPair
<1>16. InputPairsUp(before \o pairs)
  BY <1>11, <1>12, <1>14, <1>15, PairsConcat
<1>17. Batch(m, json, text) \in Seq(CanonicalMessages)
  BY <1>3, <1>4, <1>5
<1> QED
  BY <1>13, <1>16, <1>17

-------------------------------------------------------------------------------
(* What the answers of the providers are *)

\* The texts of some parts.
LEMMA PartTextsType ==
  ASSUME NEW D, NEW parts \in Seq(D), NEW kinds, \A part \in D : part.text \in Texts
  PROVE  PartTexts(parts, kinds) \in Seq(Texts)
<1> DEFINE f == [i \in DOMAIN parts |-> IF parts[i].kind \in kinds THEN <<parts[i].text>> ELSE <<>>]
<1>1. \A i \in DOMAIN parts : f[i] \in Seq(Texts)
  <2>1. \A i \in DOMAIN parts : parts[i] \in D
    OBVIOUS
  <2>2. \A i \in DOMAIN parts : parts[i].text \in Texts
    BY <2>1
  <2> QED
    BY <2>2
<1>2. PartTexts(parts, kinds) = FlattenSeq(f)
  BY DEF PartTexts, FilterMap, FlatMap
<1>3. f = [i \in DOMAIN parts |-> f[i]]
  OBVIOUS
<1> HIDE DEF f
<1> QED
  BY <1>1, <1>2, <1>3, FlattenType

\* Texts joined are a text.
LEMMA LinesType ==
  ASSUME NEW texts \in Seq(Texts)
  PROVE  Lines(texts) \in Texts
<1> DEFINE f == [i \in DOMAIN texts |-> IF i = 1 THEN texts[i] ELSE <<LineBreak>> \o texts[i]]
<1>1. \A i \in DOMAIN texts : f[i] \in Seq(Words)
  <2>1. \A i \in DOMAIN texts : texts[i] \in Seq(Words)
    BY DEF Texts
  <2>2. LineBreak \in Words
    BY WordsAssumption
  <2>3. ASSUME NEW E, NEW x \in E, NEW s \in Seq(E) PROVE <<x>> \o s \in Seq(E)
    OBVIOUS
  <2>4. \A i \in DOMAIN texts : <<LineBreak>> \o texts[i] \in Seq(Words)
    BY <2>1, <2>2, <2>3
  <2> QED
    BY <2>1, <2>4
<1>2. Lines(texts) = FlattenSeq(f)
  BY DEF Lines, Joined
<1>3. f = [i \in DOMAIN texts |-> f[i]]
  OBVIOUS
<1> HIDE DEF f
<1> QED
  BY <1>1, <1>2, <1>3, FlattenType DEF Texts

\* The reasoning that is shown is made of texts.
LEMMA DisplayTextsType ==
  ASSUME NEW m \in AssistantMessages
  PROVE  DisplayTexts(m) \in Seq(Texts)
<1> DEFINE blocks == m.reasoning
           Shown(parts) == FlattenSeq([i \in DOMAIN parts |->
                              IF parts[i].kind # "encrypted" THEN <<parts[i].text>> ELSE <<>>])
           f == [i \in DOMAIN blocks |-> Shown(blocks[i].parts)]
<1>1. blocks \in Seq(ReasoningBlocks)
  BY DEF AssistantMessages
<1>2. DisplayTexts(m) = FlattenSeq(f)
  BY DEF DisplayTexts, FilterMap, FlatMap
<1>3. ASSUME NEW parts \in Seq(ReasoningParts) PROVE Shown(parts) \in Seq(Texts)
  <2> DEFINE g == [i \in DOMAIN parts |->
                      IF parts[i].kind # "encrypted" THEN <<parts[i].text>> ELSE <<>>]
  <2>1. \A i \in DOMAIN parts : g[i] \in Seq(Texts)
    <3>1. \A i \in DOMAIN parts : parts[i] \in ReasoningParts
      OBVIOUS
    <3>2. \A i \in DOMAIN parts : parts[i].text \in Texts
      BY <3>1 DEF ReasoningParts
    <3> QED
      BY <3>2
  <2>2. g = [i \in DOMAIN parts |-> g[i]] /\ Shown(parts) = FlattenSeq(g)
    OBVIOUS
  <2> HIDE DEF g, Shown
  <2> QED
    BY <2>1, <2>2, FlattenType
<1> HIDE DEF Shown
<1>4. \A i \in DOMAIN blocks : blocks[i].parts \in Seq(ReasoningParts)
  <2>1. ASSUME NEW b \in ReasoningBlocks
        PROVE  b.parts \in Seq(ReasoningParts)
    BY DEF ReasoningBlocks
  <2> HIDE DEF blocks
  <2>2. DOMAIN blocks = 1 .. Len(blocks)
    BY <1>1
  <2>3. \A i \in DOMAIN blocks : blocks[i] \in ReasoningBlocks
    BY <1>1, <2>2, ElementOfSeq
  <2> QED
    BY <2>1, <2>3
<1>5. \A i \in DOMAIN blocks : f[i] \in Seq(Texts)
  BY <1>3, <1>4
<1>6. f = [i \in DOMAIN blocks |-> f[i]]
  OBVIOUS
<1> HIDE DEF f, blocks
<1> QED
  BY <1>1, <1>2, <1>5, <1>6, FlattenType

\* What a response of the Chat protocol is taken for.
LEMMA ChatAnswerType ==
  ASSUME NEW choice \in ChatChoices
  PROVE  ChatAnswer(choice).assistant \in AssistantMessages \cup {None}
<1>1. /\ choice.content \in Texts /\ choice.reasoning \in [ReasoningKeys -> Optional(Texts)]
      /\ choice.tool_calls \in Seq([id : Names, call_id : Optional(Names), json : BOOLEAN])
  BY DEF ChatChoices
<1>2. ResponseKey(choice) \in Optional(ReasoningKeys)
  BY DEF ResponseKey, Optional, ReasoningKeys
<1>3. ResponseReasoning(choice) \in Seq(ReasoningBlocks)
  <2> DEFINE text == IF choice.reasoning["reasoning_content"] # None
                     THEN choice.reasoning["reasoning_content"] ELSE choice.reasoning["reasoning"]
             part == [kind |-> "text", text |-> text]
             block == [id |-> None, parts |-> <<part>>]
  <2>1. ResponseReasoning(choice) = IF text \in {None, <<>>} THEN <<>> ELSE <<block>>
    BY DEF ResponseReasoning
  <2>2. text \in Texts \cup {None}
    BY <1>1 DEF ReasoningKeys, Optional
  <2> HIDE DEF text
  <2>3. text \in Texts => part \in ReasoningParts
    BY DEF ReasoningParts
  <2> HIDE DEF part
  <2>4. text \in Texts => <<part>> \in Seq(ReasoningParts)
    BY <2>3
  <2>5. text \in Texts => block \in ReasoningBlocks
    BY <2>4 DEF ReasoningBlocks, Optional
  <2> HIDE DEF block
  <2> QED
    BY <2>1, <2>2, <2>5
<1>4. ToRequests(choice.tool_calls) \in Seq(ToolCalls)
  <2> DEFINE calls == choice.tool_calls
  <2>1. \A i \in DOMAIN calls : calls[i].id \in Names /\ calls[i].call_id \in Optional(Names)
    <3> DEFINE Called == [id : Names, call_id : Optional(Names), json : BOOLEAN]
    <3>1. \A call \in Called : call.id \in Names /\ call.call_id \in Optional(Names)
      OBVIOUS
    <3>2. calls \in Seq(Called)
      BY <1>1
    <3> HIDE DEF Called, calls
    <3>3. \A i \in DOMAIN calls : calls[i] \in Called
      BY <3>2
    <3> QED
      BY <3>1, <3>3
  <2>2. Len(calls) \in Nat /\ DOMAIN calls = 1 .. Len(calls)
    BY <1>1
  <2> HIDE DEF calls
  <2>3. ToRequests(calls) \in Seq(ToolCalls)
    BY <2>1, <2>2 DEF ToRequests, ToolCalls
  <2> QED
    BY <2>3 DEF calls
<1>5. Assistant(choice.content, ResponseReasoning(choice), ToRequests(choice.tool_calls),
                ResponseKey(choice)) \in AssistantMessages
  BY <1>1, <1>2, <1>3, <1>4 DEF Assistant, AssistantMessages
<1> QED
  BY <1>5 DEF ChatAnswer, Answer

\* Whatever the chat client makes of a reply, it answers with a message or none.
LEMMA ChatOutcomeType ==
  ASSUME NEW r \in ChatReplies
  PROVE  ChatOutcome(r).assistant \in AssistantMessages \cup {None}
<1>1. CASE r.kind \in TransportKinds
  BY <1>1 DEF ChatOutcome, TransportFailure, TransportKinds, Failure
<1>2. CASE r.kind = "choices" /\ r.choices \in Seq(ChatChoices)
  <2>1. CASE r.choices = <<>>
    BY <1>2, <2>1 DEF ChatOutcome, Failure
  <2>2. CASE r.choices # <<>>
    <3>1. Head(r.choices) \in ChatChoices
      BY <1>2, <2>2
    <3>2. \/ ChatOutcome(r) \in {Failure("model_output_limit"), Failure("model_tool_parse_error")}
          \/ ChatOutcome(r) = ChatAnswer(Head(r.choices))
      BY <1>2, <2>2 DEF ChatOutcome
    <3> QED
      BY <3>1, <3>2, ChatAnswerType DEF Failure
  <2> QED
    BY <2>1, <2>2
<1> QED
  BY <1>1, <1>2, TurnsAssumption

\* The text of a response.
LEMMA ContentType ==
  ASSUME NEW items \in Seq(ResponsesItems)
  PROVE  OutputContent(items) \in Texts
<1> DEFINE f == [i \in DOMAIN items |->
                    IF items[i].type = "message" /\ KnownText(items[i].content) # <<>>
                    THEN <<KnownText(items[i].content)>> ELSE <<>>]
<1>1. ASSUME NEW i \in DOMAIN items, items[i].type = "message"
      PROVE  KnownText(items[i].content) \in Texts
  <2>1. items[i] \in ResponsesItems
    OBVIOUS
  <2>2. items[i].content \in Seq(ResponsesParts)
    BY <1>1, <2>1 DEF ResponsesItems
  <2>3. \A part \in ResponsesParts : part.text \in Texts
    BY DEF ResponsesParts
  <2> QED
    BY <2>2, <2>3, PartTextsType, LinesType DEF KnownText
<1>2. \A i \in DOMAIN items : f[i] \in Seq(Texts)
  BY <1>1
<1>3. OutputContent(items) = Lines(FlattenSeq(f))
  BY DEF OutputContent, FilterMap, FlatMap
<1>4. f = [i \in DOMAIN items |-> f[i]]
  OBVIOUS
<1> HIDE DEF f
<1> QED
  BY <1>2, <1>3, <1>4, FlattenType, LinesType

\* The reasoning of an item.
LEMMA BlockType ==
  ASSUME NEW item \in ResponsesItems, item.type = "reasoning"
  PROVE  ReasoningBlock(item) \in ReasoningBlocks
<1> DEFINE Parts(texts, kind) == [i \in DOMAIN texts |-> [kind |-> kind, text |-> texts[i]]]
           hidden == IF item.encrypted_content = None THEN <<>>
                     ELSE Parts(<<item.encrypted_content>>, "encrypted")
           summary == PartTexts(item.summary, {"summary_text"})
           content == PartTexts(item.content, {"reasoning_text"})
<1>1. /\ item.id \in Optional(Names) /\ item.summary \in Seq(ResponsesParts)
      /\ item.content \in Seq(ResponsesParts) /\ item.encrypted_content \in Optional(Texts)
  BY DEF ResponsesItems
<1>2. summary \in Seq(Texts) /\ content \in Seq(Texts)
  <2>1. \A part \in ResponsesParts : part.text \in Texts
    BY DEF ResponsesParts
  <2> QED
    BY <1>1, <2>1, PartTextsType
<1>3. ASSUME NEW texts \in Seq(Texts), NEW kind \in {"text", "summary", "redacted", "encrypted"}
      PROVE  Parts(texts, kind) \in Seq(ReasoningParts)
  <2>1. \A i \in DOMAIN texts : [kind |-> kind, text |-> texts[i]] \in ReasoningParts
    BY DEF ReasoningParts
  <2>2. Len(texts) \in Nat /\ DOMAIN texts = 1 .. Len(texts)
    OBVIOUS
  <2> QED
    BY <2>1, <2>2
<1>4. ReasoningBlock(item) = [id |-> item.id,
                              parts |-> Parts(summary, "summary") \o Parts(content, "text") \o hidden]
  BY DEF ReasoningBlock
<1> HIDE DEF summary, content
<1>5. Parts(summary, "summary") \in Seq(ReasoningParts) /\ Parts(content, "text") \in Seq(ReasoningParts)
  BY <1>2, <1>3
<1>6. hidden \in Seq(ReasoningParts)
  <2>1. CASE item.encrypted_content = None
    BY <2>1
  <2>2. CASE item.encrypted_content # None
    <3>1. <<item.encrypted_content>> \in Seq(Texts)
      BY <1>1, <2>2 DEF Optional
    <3>2. Parts(<<item.encrypted_content>>, "encrypted") \in Seq(ReasoningParts)
      BY <1>3, <3>1
    <3> QED
      BY <2>2, <3>2
  <2> QED
    BY <2>1, <2>2
<1>7. Parts(summary, "summary") \o Parts(content, "text") \o hidden \in Seq(ReasoningParts)
  <2>1. ASSUME NEW a \in Seq(ReasoningParts), NEW b \in Seq(ReasoningParts), NEW c \in Seq(ReasoningParts)
        PROVE  a \o b \o c \in Seq(ReasoningParts)
    OBVIOUS
  <2> HIDE DEF Parts, hidden
  <2> QED
    BY <1>5, <1>6, <2>1
<1> HIDE DEF Parts, hidden
<1> QED
  BY <1>1, <1>4, <1>7 DEF ReasoningBlocks

\* The reasoning and the calls of a response.
LEMMA OutputTypes ==
  ASSUME NEW items \in Seq(ResponsesItems)
  PROVE  /\ OutputReasoning(items) \in Seq(ReasoningBlocks)
         /\ OutputCalls(items) \in Seq(ToolCalls)
<1> DEFINE f == [i \in DOMAIN items |->
                    IF items[i].type = "reasoning" /\ ReasoningBlock(items[i]).parts # <<>>
                    THEN <<ReasoningBlock(items[i])>> ELSE <<>>]
           Call(item) == [id |-> IF item.id = None THEN item.call_id ELSE item.id,
                          call_id |-> item.call_id]
           g == [i \in DOMAIN items |->
                    IF items[i].type = "function_call" THEN <<Call(items[i])>> ELSE <<>>]
<1>1. \A i \in DOMAIN items : items[i] \in ResponsesItems
  OBVIOUS
<1>2. \A i \in DOMAIN items : f[i] \in Seq(ReasoningBlocks)
  BY <1>1, BlockType
<1>3. ASSUME NEW i \in DOMAIN items PROVE g[i] \in Seq(ToolCalls)
  <2>1. CASE items[i].type = "function_call"
    <3>1. items[i].id \in Optional(Names) /\ items[i].call_id \in Names
      BY <1>1, <2>1 DEF ResponsesItems
    <3>2. Call(items[i]) \in ToolCalls
      BY <3>1 DEF ToolCalls, Optional
    <3> HIDE DEF Call
    <3> QED
      BY <2>1, <3>2
  <2>2. CASE items[i].type # "function_call"
    BY <2>2
  <2> QED
    BY <2>1, <2>2
<1>4. OutputReasoning(items) = FlattenSeq(f) /\ OutputCalls(items) = FlattenSeq(g)
  BY DEF OutputReasoning, OutputCalls, FilterMap, FlatMap
<1>5. f = [i \in DOMAIN items |-> f[i]] /\ g = [i \in DOMAIN items |-> g[i]]
  OBVIOUS
<1> HIDE DEF f, g
<1>6. FlattenSeq(f) \in Seq(ReasoningBlocks)
  BY <1>2, <1>5, FlattenType
<1>7. FlattenSeq(g) \in Seq(ToolCalls)
  BY <1>3, <1>5, FlattenType
<1> QED
  BY <1>4, <1>6, <1>7

\* Whatever the responses client makes of a reply, it answers with a message or
\* none.
LEMMA ResponsesOutcomeType ==
  ASSUME NEW r \in ResponsesReplies
  PROVE  ResponsesOutcome(r).assistant \in AssistantMessages \cup {None}
<1>1. CASE r.kind \in TransportKinds
  BY <1>1 DEF ResponsesOutcome, TransportFailure, TransportKinds, Failure
<1>2. CASE r.kind = "response" /\ r.output \in Seq(ResponsesItems)
  <2> DEFINE m == Assistant(OutputContent(r.output), OutputReasoning(r.output),
                            OutputCalls(r.output), None)
  <2>1. m \in AssistantMessages
    BY <1>2, ContentType, OutputTypes DEF Assistant, AssistantMessages, Optional
  <2>2. StatusOutcome(r).assistant = None
    BY DEF StatusOutcome, Failure
  <2>3. ResponsesOutcome(r) \in {StatusOutcome(r), Failure("model_tool_parse_error"), Answer(m)}
    BY <1>2 DEF ResponsesOutcome
  <2> HIDE DEF m
  <2> QED
    BY <2>1, <2>2, <2>3 DEF Answer, Failure
<1> QED
  BY <1>1, <1>2, TurnsAssumption

\* A fake client answers with a message or none.
LEMMA FakeOutcomeType ==
  ASSUME NEW profile \in FakeProfiles, NEW h \in Seq(CanonicalMessages), NEW tools
  PROVE  FakeOutcome(profile, h, tools).assistant \in AssistantMessages \cup {None}
<1>1. {<<"reasoning">>, <<"done">>, <<"reply">>, <<>>} \subseteq Texts
  BY WordsAssumption DEF Texts
<1>2. LastUserText(h) \in Texts
  <2> DEFINE users == {i \in DOMAIN h : h[i].role = "user"}
  <2>1. CASE users = {}
    BY <1>1, <2>1 DEF LastUserText
  <2>2. CASE users # {}
    <3>1. Len(h) \in Nat /\ users \in SUBSET (0 .. Len(h))
      OBVIOUS
    <3>2. Max(users) \in users
      BY <2>2, <3>1, MaxOf
    <3>3. h[Max(users)] \in CanonicalMessages /\ h[Max(users)].role = "user"
      BY <3>2
    <3>4. h[Max(users)].content \in Texts
      BY <3>3 DEF CanonicalMessages, AssistantMessages
    <3> QED
      BY <2>2, <3>4 DEF LastUserText
  <2> QED
    BY <2>1, <2>2
<1>3. \A a \in Texts : a \o LastUserText(h) \in Texts
  BY <1>2 DEF Texts
<1>4. FakeReply(h) \in Texts
  BY <1>1, <1>3 DEF FakeReply
<1> DEFINE thought == <<"reasoning">> \o LastUserText(h)
           block == [id |-> "fake-reasoning", parts |-> <<[kind |-> "text", text |-> thought]>>]
           call == [id |-> "fake-call", call_id |-> "fake-call"]
<1>5. thought \in Texts
  BY <1>1, <1>3
<1> HIDE DEF thought
<1>6. [kind |-> "text", text |-> thought] \in ReasoningParts
  BY <1>5 DEF ReasoningParts
<1>7. <<[kind |-> "text", text |-> thought]>> \in Seq(ReasoningParts)
  BY <1>6
<1>8. <<block>> \in Seq(ReasoningBlocks) /\ <<call>> \in Seq(ToolCalls)
  <2>1. block \in ReasoningBlocks
    BY <1>7, WordsAssumption DEF ReasoningBlocks, Optional
  <2>2. call \in ToolCalls
    BY WordsAssumption DEF ToolCalls, Optional
  <2> HIDE DEF block, call
  <2> QED
    BY <2>1, <2>2
<1>9. <<>> \in Seq(ReasoningBlocks) /\ <<>> \in Seq(ToolCalls)
  OBVIOUS
<1>10. ASSUME NEW content \in Texts, NEW reasoning \in Seq(ReasoningBlocks), NEW calls \in Seq(ToolCalls)
       PROVE  Answer(Assistant(content, reasoning, calls, None)).assistant \in AssistantMessages \cup {None}
  BY DEF Answer, Assistant, AssistantMessages, Optional
<1>11. \A kind : Failure(kind).assistant = None
  BY DEF Failure
<1>12. FakeOutcome(profile, h, tools) \in
          {Answer(Assistant(FakeReply(h), <<>>, <<>>, None)),
           Answer(Assistant(FakeReply(h), <<block>>, <<>>, None)),
           Answer(Assistant(<<"done">>, <<>>, <<>>, None)),
           Answer(Assistant(<<>>, <<>>, <<call>>, None)),
           Failure("provider_response"), Failure("provider_request")}
  BY DEF FakeOutcome, FakeProfiles, thought
<1> HIDE DEF block, call
<1> QED
  BY <1>1, <1>4, <1>8, <1>9, <1>10, <1>11, <1>12

-------------------------------------------------------------------------------
(* The conversation *)

\* Every result in a history comes after the message that made its call, with
\* nothing but results in between, and goes by the name of the call.
ResultsFollow(h) ==
    \A o \in DOMAIN h : h[o].role = "tool" =>
        \E a \in 1 .. o - 1 :
           /\ IsAssistant(h[a])
           /\ \A i \in a + 1 .. o : h[i].role = "tool"
           /\ \E c \in DOMAIN h[a].calls : h[o].id = CallName(h[a].calls[c])

\* What a history is made of, and that calls and outputs pair up in it.
WireInv ==
    /\ history \in Seq(CanonicalMessages)
    /\ outcome.assistant \in AssistantMessages \cup {None}
    /\ turn = "tools" => outcome.assistant \in AssistantMessages
    /\ InputPairsUp(Input(history))
    /\ ResultsFollow(history)

\* Results that follow their calls still do when more messages come after.
LEMMA FollowConcat ==
  ASSUME NEW E, NEW h \in Seq(E), NEW t \in Seq(E), ResultsFollow(h), ResultsFollow(t)
  PROVE  ResultsFollow(h \o t)
<1> DEFINE m == Len(h)
           n == Len(t)
           c == h \o t
<1>1. /\ m \in Nat /\ n \in Nat /\ DOMAIN h = 1 .. m /\ DOMAIN t = 1 .. n
      /\ DOMAIN c = 1 .. m + n
      /\ \A i \in 1 .. m : c[i] = h[i]
      /\ \A i \in 1 .. n : c[m + i] = t[i]
  OBVIOUS
<1> HIDE DEF m, n, c
<1> SUFFICES ASSUME NEW o \in DOMAIN c, c[o].role = "tool"
             PROVE  \E a \in 1 .. o - 1 :
                       /\ IsAssistant(c[a])
                       /\ \A i \in a + 1 .. o : c[i].role = "tool"
                       /\ \E k \in DOMAIN c[a].calls : c[o].id = CallName(c[a].calls[k])
  BY DEF ResultsFollow, c
<1>2. CASE o <= m
  <2>1. o \in 1 .. m /\ h[o].role = "tool"
    BY <1>1, <1>2
  <2>2. PICK a \in 1 .. o - 1 :
           /\ IsAssistant(h[a])
           /\ \A i \in a + 1 .. o : h[i].role = "tool"
           /\ \E k \in DOMAIN h[a].calls : h[o].id = CallName(h[a].calls[k])
    BY <1>1, <2>1 DEF ResultsFollow
  <2>3. a \in 1 .. m /\ \A i \in a + 1 .. o : i \in 1 .. m
    BY <1>1, <2>1
  <2>4. c[a] = h[a] /\ c[o] = h[o] /\ \A i \in a + 1 .. o : c[i] = h[i]
    BY <1>1, <2>1, <2>3
  <2> QED
    BY <2>2, <2>4
<1>3. CASE ~(o <= m)
  <2> DEFINE p == o - m
  <2>1. p \in 1 .. n /\ o = m + p
    BY <1>1, <1>3
  <2> HIDE DEF p
  <2>2. t[p].role = "tool" /\ c[o] = t[p]
    BY <1>1, <2>1
  <2>3. PICK a \in 1 .. p - 1 :
           /\ IsAssistant(t[a])
           /\ \A i \in a + 1 .. p : t[i].role = "tool"
           /\ \E k \in DOMAIN t[a].calls : t[p].id = CallName(t[a].calls[k])
    BY <1>1, <2>1, <2>2 DEF ResultsFollow
  <2>4. a \in 1 .. n /\ m + a \in 1 .. o - 1 /\ c[m + a] = t[a]
    BY <1>1, <2>1
  <2>5. ASSUME NEW i \in (m + a) + 1 .. o PROVE c[i].role = "tool"
    <3>1. i - m \in a + 1 .. p /\ i - m \in 1 .. n /\ i = m + (i - m)
      BY <1>1, <2>1, <2>4
    <3>2. c[m + (i - m)] = t[i - m]
      BY <1>1, <3>1
    <3> QED
      BY <2>3, <3>1, <3>2
  <2> QED
    BY <2>2, <2>3, <2>4, <2>5
<1> QED
  BY <1>1, <1>2, <1>3

\* A message of another kind than a result, without calls, needs no pairing.
LEMMA PlainMessage ==
  ASSUME NEW m \in CanonicalMessages, m.role # "tool", IsAssistant(m) => m.calls = <<>>
  PROVE  InputPairsUp(Input(<<m>>)) /\ ResultsFollow(<<m>>)
<1>1. Input(<<m>>) = InputItems(m)
  BY InputOfOne
<1>2. \A i \in DOMAIN InputItems(m) : InputItems(m)[i].type \in {"reasoning", "message"}
  <2>1. CASE IsAssistant(m)
    <3>1. m \in AssistantMessages /\ InputItems(m) = AssistantItems(m) /\ m.calls = <<>>
      BY <2>1 DEF CanonicalMessages, IsAssistant, InputItems
    <3>2. PICK E, before :
             /\ before \in Seq(E)
             /\ AssistantItems(m) = before \o [i \in DOMAIN m.calls |-> FunctionCallItem(m.calls[i])]
             /\ \A i \in DOMAIN before : before[i].type \in {"reasoning", "message"}
      BY <3>1, AssistantParts
    <3>3. [i \in DOMAIN m.calls |-> FunctionCallItem(m.calls[i])] = <<>>
      BY <3>1
    <3>4. AssistantItems(m) = before
      BY <3>2, <3>3
    <3> QED
      BY <3>1, <3>2, <3>4
  <2>2. CASE m.role \in {"system", "user"}
    BY <2>2 DEF InputItems, MessageItem
  <2> QED
    BY <2>1, <2>2 DEF CanonicalMessages, AssistantMessages, IsAssistant
<1> QED
  BY <1>1, <1>2, NothingToPair DEF ResultsFollow

\* A result follows its call in the batch.
LEMMA BatchFollows ==
  ASSUME NEW m \in AssistantMessages, NEW json \in BOOLEAN, NEW text \in Texts
  PROVE  /\ ResultsFollow(Batch(m, json, text))
         /\ \A i \in DOMAIN Batch(m, json, text) : IsAssistant(Batch(m, json, text)[i]) => i = 1
<1> DEFINE n == Len(m.calls)
           results == [i \in 1 .. n |-> ToolResult(m.calls[i], json, text)]
           b == Batch(m, json, text)
<1>1. n \in Nat /\ DOMAIN m.calls = 1 .. n
  BY DEF AssistantMessages
<1>2. b = <<m>> \o results
  BY <1>1 DEF Batch
<1>3. \A i \in 1 .. n : results[i].role = "tool" /\ results[i].id = CallName(m.calls[i])
  BY DEF ToolResult
<1>4. results \in Seq({ToolResult(m.calls[i], json, text) : i \in 1 .. n}) /\ Len(results) = n
  BY <1>1
<1>5. m.role = "assistant"
  BY DEF AssistantMessages
<1> HIDE DEF results, b, n
<1>6. DOMAIN b = 1 .. n + 1 /\ b[1] = m /\ \A i \in 1 .. n : b[i + 1] = results[i]
  BY <1>1, <1>2, <1>4
<1>7. ASSUME NEW i \in DOMAIN b, i # 1
      PROVE  i - 1 \in 1 .. n /\ b[i].role = "tool" /\ b[i].id = CallName(m.calls[i - 1])
  <2>1. i - 1 \in 1 .. n /\ (i - 1) + 1 = i
    BY <1>1, <1>6, <1>7
  <2>2. b[(i - 1) + 1] = results[i - 1]
    BY <1>6, <2>1
  <2> QED
    BY <1>3, <2>1, <2>2
<1>8. ASSUME NEW o \in DOMAIN b, b[o].role = "tool"
      PROVE  \E a \in 1 .. o - 1 :
                /\ IsAssistant(b[a])
                /\ \A i \in a + 1 .. o : b[i].role = "tool"
                /\ \E c \in DOMAIN b[a].calls : b[o].id = CallName(b[a].calls[c])
  <2>1. o # 1
    BY <1>5, <1>6, <1>8
  <2>2. 1 \in 1 .. o - 1 /\ \A i \in 1 + 1 .. o : i \in DOMAIN b /\ i # 1
    BY <1>1, <1>6, <2>1
  <2>3. \A i \in 1 + 1 .. o : b[i].role = "tool"
    BY <1>7, <2>2
  <2>4. o - 1 \in DOMAIN b[1].calls /\ b[o].id = CallName(b[1].calls[o - 1])
    BY <1>1, <1>6, <1>7, <2>1
  <2> QED
    BY <1>5, <1>6, <2>2, <2>3, <2>4 DEF IsAssistant
<1>9. \A i \in DOMAIN b : IsAssistant(b[i]) => i = 1
  BY <1>7 DEF IsAssistant
<1> QED
  BY <1>8, <1>9 DEF ResultsFollow, b

\* What may come into a history at once.
Entry(t) ==
    \/ t = <<>>
    \/ \E m \in CanonicalMessages : /\ t = <<m>> /\ m.role # "tool"
                                    /\ IsAssistant(m) => m.calls = <<>>
    \/ \E m \in AssistantMessages, json \in BOOLEAN, text \in Texts : t = Batch(m, json, text)

\* What comes into a history at once pairs up by itself.
LEMMA EntryPairsUp ==
  ASSUME NEW t, Entry(t)
  PROVE  /\ t \in Seq(CanonicalMessages) /\ InputPairsUp(Input(t)) /\ ResultsFollow(t)
         /\ \A i \in DOMAIN t : IsAssistant(t[i]) => i = 1
<1>1. CASE t = <<>>
  <2>1. Input(t) = <<>>
    BY <1>1 DEF Input, FlattenSeq
  <2> QED
    BY <1>1, <2>1 DEF InputPairsUp, ResultsFollow
<1>2. CASE \E m \in CanonicalMessages : /\ t = <<m>> /\ m.role # "tool"
                                        /\ IsAssistant(m) => m.calls = <<>>
  BY <1>2, PlainMessage
<1>3. CASE \E m \in AssistantMessages, json \in BOOLEAN, text \in Texts : t = Batch(m, json, text)
  BY <1>3, BatchPairsUp, BatchFollows
<1> QED
  BY <1>1, <1>2, <1>3 DEF Entry

\* An entry keeps what holds of a history.
LEMMA EntryKeeps ==
  ASSUME NEW h \in Seq(CanonicalMessages), NEW t, Entry(t),
         InputPairsUp(Input(h)), ResultsFollow(h)
  PROVE  /\ h \o t \in Seq(CanonicalMessages)
         /\ InputPairsUp(Input(h \o t)) /\ ResultsFollow(h \o t)
<1>1. t \in Seq(CanonicalMessages) /\ InputPairsUp(Input(t)) /\ ResultsFollow(t)
  BY EntryPairsUp
<1>2. h \o t \in Seq(CanonicalMessages)
  BY <1>1
<1>3. /\ Input(h) \in Seq(WireItems) /\ Input(t) \in Seq(WireItems)
      /\ Input(h \o t) = Input(h) \o Input(t)
  BY <1>1, InputConcat
<1>4. InputPairsUp(Input(h \o t))
  BY <1>1, <1>3, PairsConcat
<1>5. ResultsFollow(h \o t)
  BY <1>1, FollowConcat
<1> QED
  BY <1>2, <1>4, <1>5

\* The outcome of a request, taken.
LEMMA TakeCommits ==
  ASSUME WireInv, NEW result, NEW again, result.assistant \in AssistantMessages \cup {None},
         Take(result, again)
  PROVE  /\ \E t : Entry(t) /\ history' = history \o t
         /\ outcome'.assistant \in AssistantMessages \cup {None}
         /\ turn' = "tools" => outcome'.assistant \in AssistantMessages
<1>1. outcome' = result /\ (turn' = "tools" => result.assistant # None)
  BY DEF Take
<1>2. CASE result.assistant = None \/ result.assistant.calls # <<>>
  <2>1. history' = history
    BY <1>2 DEF Take
  <2>2. history' = history \o <<>> /\ Entry(<<>>)
    BY <2>1 DEF WireInv, Entry
  <2> QED
    BY <1>1, <2>2
<1>3. CASE ~(result.assistant = None \/ result.assistant.calls # <<>>)
  <2>1. result.assistant \in AssistantMessages /\ result.assistant.calls = <<>>
    BY <1>3
  <2>2. history' = Append(history, result.assistant)
    BY <1>3 DEF Take
  <2>3. result.assistant \in CanonicalMessages /\ result.assistant.role # "tool"
    BY <2>1 DEF CanonicalMessages, AssistantMessages
  <2>4. history' = history \o <<result.assistant>>
    BY <2>2, <2>3 DEF WireInv
  <2>5. Entry(<<result.assistant>>)
    BY <2>1, <2>3 DEF Entry
  <2> QED
    BY <1>1, <2>4, <2>5
<1> QED
  BY <1>2, <1>3

\* Every step adds one entry to the history or none.
LEMMA StepsCommit ==
  ASSUME WireInv, [TurnsNext]_turnVars
  PROVE  /\ \E t : Entry(t) /\ history' = history \o t
         /\ outcome'.assistant \in AssistantMessages \cup {None}
         /\ turn' = "tools" => outcome'.assistant \in AssistantMessages
<1>1. ASSUME history' = history PROVE \E t : Entry(t) /\ history' = history \o t
  <2>1. history' = history \o <<>> /\ Entry(<<>>)
    BY <1>1 DEF WireInv, Entry
  <2> QED
    BY <2>1
<1>2. CASE Configure
  BY <1>1, <1>2 DEF Configure, Failure
<1>3. CASE Say
  <2>1. UserText(<<"more">>) \in CanonicalMessages /\ UserText(<<"more">>).role = "user"
    <3>1. <<"more">> \in Texts
      BY TurnsAssumption DEF Texts
    <3> QED
      BY <3>1 DEF UserText, CanonicalMessages
  <2>2. Entry(<<UserText(<<"more">>)>>)
    BY <2>1 DEF Entry, IsAssistant
  <2>3. history' = history \o <<UserText(<<"more">>)>>
    BY <1>3, <2>1 DEF Say, WireInv
  <2> QED
    BY <1>3, <2>2, <2>3 DEF Say, WireInv
<1>4. CASE AskChat
  <2>1. PICK r \in ChatReplies : reply' = r /\ Take(ChatOutcome(r), FALSE)
    BY <1>4 DEF AskChat
  <2> QED
    BY <2>1, ChatOutcomeType, TakeCommits
<1>5. CASE AskResponses
  <2>1. PICK r \in ResponsesReplies :
           Take(ResponsesOutcome(r), r.kind = "response" /\ r.end_turn = FALSE)
    BY <1>5 DEF AskResponses
  <2> QED
    BY <2>1, ResponsesOutcomeType, TakeCommits
<1>6. CASE AskFake
  <2>1. PICK tools \in {<<>>, <<"tool">>} : Take(FakeOutcome(provider, history, tools), FALSE)
    BY <1>6 DEF AskFake
  <2>2. FakeOutcome(provider, history, tools).assistant \in AssistantMessages \cup {None}
    BY <1>6, FakeOutcomeType DEF AskFake, WireInv
  <2> QED
    BY <2>1, <2>2, TakeCommits
<1>7. CASE RunTools
  <2>1. PICK ran \in 1 .. Len(outcome.assistant.calls), result \in ToolResults :
           LET kept == SubSeq(outcome.assistant.calls, 1, ran)
           IN history' = history \o <<[outcome.assistant EXCEPT !.calls = kept]>>
                  \o [i \in DOMAIN kept |-> ToolResult(kept[i], result.json, result.content)]
    BY <1>7 DEF RunTools
  <2> DEFINE kept == SubSeq(outcome.assistant.calls, 1, ran)
             m == [outcome.assistant EXCEPT !.calls = kept]
  <2>2. outcome.assistant \in AssistantMessages
    BY <1>7 DEF RunTools, WireInv
  <2>3. kept \in Seq(ToolCalls)
    BY <2>2 DEF AssistantMessages
  <2> HIDE DEF kept
  <2>4. m \in AssistantMessages /\ m.calls = kept
    BY <2>2, <2>3 DEF AssistantMessages
  <2>5. result.json \in BOOLEAN /\ result.content \in Texts
    BY TurnsAssumption
  <2>6. history' = history \o <<m>> \o [i \in DOMAIN kept |-> ToolResult(kept[i], result.json, result.content)]
    BY <2>1 DEF kept
  <2> HIDE DEF m
  <2> DEFINE b == Batch(m, result.json, result.content)
             results == [i \in DOMAIN kept |-> ToolResult(kept[i], result.json, result.content)]
  <2>7. b = <<m>> \o results
    BY <2>4 DEF Batch
  <2>8. Len(kept) \in Nat /\ DOMAIN kept = 1 .. Len(kept)
    BY <2>3
  <2>9. results \in Seq(Range(results))
    BY <2>8 DEF Range
  <2> HIDE DEF results
  <2>10. history' = history \o b
    <3> DEFINE E == CanonicalMessages \cup {m} \cup Range(results)
    <3>1. history \in Seq(E) /\ <<m>> \in Seq(E) /\ results \in Seq(E)
      BY <2>9 DEF WireInv
    <3>2. history' = (history \o <<m>>) \o results
      BY <2>6 DEF results
    <3> HIDE DEF E
    <3> QED
      BY <2>7, <3>1, <3>2, ConcatAssociative
  <2>11. Entry(b)
    BY <2>4, <2>5 DEF Entry
  <2> QED
    BY <1>7, <2>10, <2>11 DEF RunTools, WireInv
<1>8. CASE UNCHANGED turnVars
  BY <1>1, <1>8 DEF turnVars, WireInv
<1> QED
  BY <1>2, <1>3, <1>4, <1>5, <1>6, <1>7, <1>8 DEF TurnsNext

LEMMA TurnsStart ==
  ASSUME TurnsInit
  PROVE  WireInv
<1> DEFINE s == SystemText(<<"prompt">>)
           u == UserText(<<"ask">>)
<1>1. {<<"prompt">>, <<"ask">>} \subseteq Texts
  BY TurnsAssumption DEF Texts
<1>2. /\ s \in CanonicalMessages /\ s.role = "system"
      /\ u \in CanonicalMessages /\ u.role = "user"
  BY <1>1 DEF SystemText, UserText, CanonicalMessages
<1>3. history = <<s, u>> /\ turn = "asking" /\ outcome.assistant = None
  BY DEF TurnsInit, Failure
<1> HIDE DEF s, u
<1>4. Entry(<<s>>) /\ Entry(<<u>>)
  BY <1>2 DEF Entry, IsAssistant
<1>5. history = <<s>> \o <<u>>
  <2>1. ASSUME NEW E, NEW x \in E, NEW y \in E PROVE <<x, y>> = <<x>> \o <<y>>
    <3> DEFINE a == <<x>>
               b == <<y>>
               c == <<x, y>>
    <3>1. a \in Seq(E) /\ Len(a) = 1 /\ a[1] = x /\ b \in Seq(E) /\ Len(b) = 1 /\ b[1] = y
      OBVIOUS
    <3>2. c \in Seq(E) /\ Len(c) = 2 /\ c[1] = x /\ c[2] = y
      OBVIOUS
    <3> HIDE DEF a, b, c
    <3>3. a \o b \in Seq(E) /\ Len(a \o b) = 2 /\ (a \o b)[1] = x /\ (a \o b)[2] = y
      <4>1. /\ a \o b \in Seq(E) /\ Len(a \o b) = Len(a) + Len(b)
            /\ \A i \in 1 .. Len(a) + Len(b) :
                  (a \o b)[i] = IF i <= Len(a) THEN a[i] ELSE b[i - Len(a)]
        BY <3>1, ConcatProperties
      <4>2. Len(a) + Len(b) = 2 /\ 1 \in 1 .. 2 /\ 2 \in 1 .. 2 /\ 2 - 1 = 1 /\ ~(2 <= 1)
        BY <3>1
      <4> QED
        BY <3>1, <4>1, <4>2
    <3> DEFINE d == a \o b
    <3> HIDE DEF d
    <3>4. d \in Seq(E) /\ Len(d) = Len(c) /\ \A i \in 1 .. Len(c) : c[i] = d[i]
      <4>1. Len(c) = 2 /\ \A i \in 1 .. 2 : i = 1 \/ i = 2
        BY <3>2
      <4> QED
        BY <3>2, <3>3, <4>1 DEF d
    <3>5. c = d
      BY <3>2, <3>4, SeqEqual
    <3> QED
      BY <3>5 DEF a, b, c, d
  <2> QED
    BY <1>2, <1>3, <2>1
<1>6. /\ <<s>> \in Seq(CanonicalMessages) /\ InputPairsUp(Input(<<s>>)) /\ ResultsFollow(<<s>>)
  BY <1>4, EntryPairsUp
<1> QED
  BY <1>3, <1>4, <1>5, <1>6, EntryKeeps DEF WireInv

LEMMA TurnsContinue ==
  ASSUME WireInv, [TurnsNext]_turnVars
  PROVE  WireInv'
<1>1. PICK t : Entry(t) /\ history' = history \o t
  BY StepsCommit
<1>2. /\ history \o t \in Seq(CanonicalMessages)
      /\ InputPairsUp(Input(history \o t)) /\ ResultsFollow(history \o t)
  BY <1>1, EntryKeeps DEF WireInv
<1>3. /\ history' \in Seq(CanonicalMessages)
      /\ InputPairsUp(Input(history')) /\ ResultsFollow(history')
  BY <1>1, <1>2
<1> QED
  BY <1>3, StepsCommit DEF WireInv, InputPairsUp, Input, ResultsFollow

\* The requests of both protocols pair up calls and results.
LEMMA PairsAreSent ==
  ASSUME WireInv
  PROVE  OutputsAnswerCalls
<1>1. ResponsesPairUp
  <2>1. ResponsesRequest(history).input = Input(history)
    BY DEF ResponsesRequest, FlatMap, Input
  <2> QED
    BY <2>1 DEF WireInv, ResponsesPairUp
<1>2. ChatPairsUp
  <2> DEFINE request == ChatRequest(history)
  <2> SUFFICES ASSUME \A i \in DOMAIN history : IsAssistant(history[i]) =>
                         \A c \in DOMAIN history[i].calls :
                            CallName(history[i].calls[c]) = history[i].calls[c].id,
                      NEW o \in DOMAIN request, request[o].role = "tool"
               PROVE  \E a \in 1 .. o - 1 :
                         /\ request[a].role = "assistant"
                         /\ \A i \in a + 1 .. o : request[i].role = "tool"
                         /\ \E c \in DOMAIN request[a].tool_calls :
                               request[a].tool_calls[c].id = request[o].tool_call_id
    BY DEF ChatPairsUp
  <2>1. Len(history) \in Nat /\ DOMAIN history = 1 .. Len(history) /\ DOMAIN request = DOMAIN history
    BY DEF WireInv, ChatRequest
  <2>2. ASSUME NEW i \in DOMAIN history
        PROVE  /\ request[i].role = history[i].role
               /\ history[i].role = "tool" => request[i].tool_call_id = history[i].id
               /\ IsAssistant(history[i]) =>
                     /\ DOMAIN request[i].tool_calls = DOMAIN history[i].calls
                     /\ \A c \in DOMAIN history[i].calls :
                           request[i].tool_calls[c].id = history[i].calls[c].id
    <3>1. request[i] = ChatMessage(history[i], ReasoningKey(history))
      BY DEF ChatRequest
    <3>2. history[i] \in CanonicalMessages
      BY DEF WireInv
    <3>3. history[i].role \in {"system", "user", "tool", "assistant"}
      BY <3>2 DEF CanonicalMessages, AssistantMessages
    <3> HIDE DEF request
    <3>4. CASE history[i].role \in {"system", "user"}
      BY <3>1, <3>4 DEF ChatMessage, IsAssistant
    <3>5. CASE history[i].role = "tool"
      BY <3>1, <3>5 DEF ChatMessage, IsAssistant
    <3>6. CASE history[i].role = "assistant"
      BY <3>1, <3>6 DEF ChatMessage, IsAssistant
    <3> QED
      BY <3>3, <3>4, <3>5, <3>6
  <2> HIDE DEF request
  <2>3. o \in DOMAIN history /\ history[o].role = "tool"
    BY <2>1, <2>2
  <2>4. PICK a \in 1 .. o - 1 :
           /\ IsAssistant(history[a])
           /\ \A i \in a + 1 .. o : history[i].role = "tool"
           /\ \E c \in DOMAIN history[a].calls : history[o].id = CallName(history[a].calls[c])
    BY <2>3 DEF WireInv, ResultsFollow
  <2>5. PICK c \in DOMAIN history[a].calls : history[o].id = CallName(history[a].calls[c])
    BY <2>4
  <2>6. a \in DOMAIN history /\ \A i \in a + 1 .. o : i \in DOMAIN history
    BY <2>1, <2>3
  <2>7. request[a].role = "assistant" /\ \A i \in a + 1 .. o : request[i].role = "tool"
    BY <2>2, <2>4, <2>6 DEF IsAssistant
  <2>8. /\ c \in DOMAIN request[a].tool_calls
        /\ request[a].tool_calls[c].id = history[a].calls[c].id
        /\ request[o].tool_call_id = history[o].id
    BY <2>2, <2>3, <2>4, <2>6
  <2>9. CallName(history[a].calls[c]) = history[a].calls[c].id
    BY <2>4, <2>6
  <2> QED
    BY <2>5, <2>7, <2>8, <2>9
<1> QED
  BY <1>1, <1>2 DEF OutputsAnswerCalls

\* Whatever the models and the gateways in front of them answer, however often
\* the provider changes and batches fail, every tool output that a request of
\* either protocol holds answers a call that it holds, and in the Responses
\* protocol every call is answered (render/provider/openai_response.rs:145,
\* openai_chat.rs:176).
THEOREM RequestsPairUp == TurnsSpec => []OutputsAnswerCalls
<1>1. TurnsInit => WireInv
  BY TurnsStart
<1>2. WireInv /\ [TurnsNext]_turnVars => WireInv'
  BY TurnsContinue
<1>3. WireInv => OutputsAnswerCalls
  BY PairsAreSent
<1> QED
  BY <1>1, <1>2, <1>3, PTL DEF TurnsSpec

-------------------------------------------------------------------------------
(* The key that reasoning goes back under *)

\* The context that messages bring with them.
Brought(t) == {m.context : m \in {t[i] : i \in {j \in DOMAIN t : IsAssistant(t[j])}}} \ {None}

\* The key is that of the newest message which has one.
LEMMA KeyOfNewest ==
  ASSUME NEW h \in Seq(CanonicalMessages), NEW t, Entry(t)
  PROVE  \/ Brought(t) = {} /\ ReasoningKey(h \o t) = ReasoningKey(h)
         \/ Brought(t) = {ReasoningKey(h \o t)}
<1> DEFINE m == Len(h)
           n == Len(t)
           c == h \o t
           With(s) == {i \in DOMAIN s : IsAssistant(s[i]) /\ s[i].context # None}
<1>1. t \in Seq(CanonicalMessages) /\ \A i \in DOMAIN t : IsAssistant(t[i]) => i = 1
  BY EntryPairsUp
<1>2. /\ m \in Nat /\ n \in Nat /\ DOMAIN h = 1 .. m /\ DOMAIN t = 1 .. n
      /\ DOMAIN c = 1 .. m + n
      /\ \A i \in 1 .. m : c[i] = h[i]
      /\ \A i \in 1 .. n : c[m + i] = t[i]
  BY <1>1
<1>3. \A s : ReasoningKey(s) = IF With(s) # {} /\ s[Max(With(s))].context = "reasoning"
                               THEN "reasoning" ELSE "reasoning_content"
  <2>1. None # "reasoning"
    BY WordsAssumption
  <2> QED
    BY <2>1 DEF ReasoningKey, LatestContext
<1> HIDE DEF m, n, c
<1>4. CASE With(t) = {}
  <2>1. Brought(t) = {}
    BY <1>4 DEF Brought
  <2>2. With(c) = With(h)
    <3>1. ASSUME NEW i \in With(c) PROVE i \in With(h)
      <4>1. i \in 1 .. m + n
        BY <1>2
      <4>2. CASE i <= m
        BY <1>2, <3>1, <4>1, <4>2
      <4>3. CASE ~(i <= m)
        <5>1. i - m \in 1 .. n /\ i = m + (i - m)
          BY <1>2, <4>1, <4>3
        <5>2. c[m + (i - m)] = t[i - m]
          BY <1>2, <5>1
        <5> QED
          BY <1>2, <1>4, <3>1, <5>1, <5>2
      <4> QED
        BY <4>2, <4>3
    <3>2. ASSUME NEW i \in With(h) PROVE i \in With(c)
      BY <1>2, <3>2
    <3> QED
      BY <3>1, <3>2
  <2>3. With(h) # {} => Max(With(h)) \in 1 .. m
    <3>1. With(h) \in SUBSET (0 .. m)
      BY <1>2
    <3> QED
      BY <1>2, <3>1, MaxOf
  <2>4. With(h) # {} => c[Max(With(c))] = h[Max(With(h))]
    BY <1>2, <2>2, <2>3
  <2>5. ReasoningKey(c) = ReasoningKey(h)
    <3> HIDE DEF With
    <3> QED
      BY <1>3, <2>2, <2>4
  <2> QED
    BY <2>1, <2>5 DEF c
<1>5. CASE With(t) # {}
  <2>1. With(t) = {1} /\ 1 \in 1 .. n /\ IsAssistant(t[1]) /\ t[1].context # None
    BY <1>1, <1>2, <1>5
  <2>2. t[1] \in AssistantMessages
    <3>1. t[1] \in CanonicalMessages
      BY <1>1, <1>2, <2>1
    <3> QED
      BY <2>1, <3>1 DEF CanonicalMessages, IsAssistant
  <2>3. t[1].context \in ReasoningKeys
    BY <2>1, <2>2 DEF AssistantMessages, Optional
  <2>4. {j \in DOMAIN t : IsAssistant(t[j])} = {1}
    BY <1>1, <1>2, <2>1
  <2>5. Brought(t) = {t[1].context}
    BY <2>1, <2>4 DEF Brought
  <2>6. m + 1 \in With(c) /\ c[m + 1] = t[1]
    BY <1>2, <2>1
  <2>7. ASSUME NEW i \in With(c) PROVE i <= m + 1
    <3>1. i \in 1 .. m + n
      BY <1>2
    <3>2. CASE ~(i <= m)
      <4>1. i - m \in 1 .. n /\ i = m + (i - m)
        BY <1>2, <3>1, <3>2
      <4>2. c[m + (i - m)] = t[i - m]
        BY <1>2, <4>1
      <4>3. i - m = 1
        BY <1>1, <1>2, <2>7, <4>1, <4>2
      <4> QED
        BY <1>2, <3>1, <4>3
    <3> QED
      BY <1>2, <3>1, <3>2
  <2>8. Max(With(c)) = m + 1
    <3>1. m + n \in Nat /\ With(c) \in SUBSET (0 .. m + n)
      BY <1>2
    <3> DEFINE w == With(c)
    <3>2. w # {} /\ m + 1 \in w /\ \A i \in w : i <= m + 1 /\ i \in Nat
      BY <1>2, <2>6, <2>7
    <3> HIDE DEF w
    <3>3. Max(w) \in w /\ \A i \in w : i <= Max(w)
      BY <3>1, <3>2, MaxOf DEF w
    <3>4. Max(w) = m + 1
      BY <1>2, <3>2, <3>3
    <3> QED
      BY <3>4 DEF w
  <2>9. ReasoningKey(c) = t[1].context
    <3>1. With(c) # {}
      BY <2>6
    <3> HIDE DEF With
    <3> QED
      BY <1>3, <2>3, <2>6, <2>8, <3>1 DEF ReasoningKeys
  <2> QED
    BY <2>5, <2>9 DEF c
<1> QED
  BY <1>4, <1>5

\* The keys that a request has reasoning under.
LEMMA KeysSent ==
  ASSUME NEW h \in Seq(CanonicalMessages), NEW a \in DOMAIN h, IsAssistant(h[a])
  PROVE  {k \in ReasoningKeys : ChatRequest(h)[a].reasoning[k] # None} = {ReasoningKey(h)}
<1>1. h[a] \in AssistantMessages
  <2>1. h[a] \in CanonicalMessages
    OBVIOUS
  <2> QED
    BY <2>1 DEF CanonicalMessages, IsAssistant
<1>2. Lines(DisplayTexts(h[a])) # None
  BY <1>1, DisplayTextsType, LinesType, WordsAssumption
<1>3. ChatRequest(h)[a].reasoning =
         [k \in ReasoningKeys |-> IF k = ReasoningKey(h) THEN Lines(DisplayTexts(h[a])) ELSE None]
  BY DEF ChatRequest, ChatMessage, IsAssistant
<1>4. ReasoningKey(h) \in ReasoningKeys
  BY DEF ReasoningKey, ReasoningKeys
<1> QED
  BY <1>2, <1>3, <1>4

\* Reasoning goes back to an endpoint of the Chat protocol under the key that
\* the last answer with reasoning used, whatever was said in between and by
\* which provider (render/provider/openai_chat.rs:423, message.rs:196).
THEOREM KeysAreRemembered == TurnsSpec => ReasoningKeyIsRemembered
<1>1. TurnsInit => WireInv
  BY TurnsStart
<1>2. WireInv /\ [TurnsNext]_turnVars => WireInv'
  BY TurnsContinue
<1> DEFINE Remembers ==
      LET committed == SubSeq(history', Len(history) + 1, Len(history'))
          keys == {m.context : m \in {committed[i] : i \in
                       {j \in DOMAIN committed : IsAssistant(committed[j])}}} \ {None}
      IN \A a \in DOMAIN ChatRequest(history') :
            IsAssistant(history'[a]) =>
               LET sent == {k \in ReasoningKeys :
                               ChatRequest(history')[a].reasoning[k] # None}
               IN sent = IF keys # {} THEN keys ELSE {ReasoningKey(history)}
<1>3. ASSUME WireInv, [TurnsNext]_turnVars PROVE Remembers
  <2>1. PICK t : Entry(t) /\ history' = history \o t
    BY <1>3, StepsCommit
  <2>2. history \in Seq(CanonicalMessages) /\ t \in Seq(CanonicalMessages)
    BY <1>3, <2>1, EntryPairsUp DEF WireInv
  <2>3. SubSeq(history', Len(history) + 1, Len(history')) = t
    BY <2>1, <2>2
  <2> DEFINE keys == Brought(t)
  <2>4. \A a \in DOMAIN (history \o t) : IsAssistant((history \o t)[a]) =>
           {k \in ReasoningKeys : ChatRequest(history \o t)[a].reasoning[k] # None}
              = IF keys # {} THEN keys ELSE {ReasoningKey(history)}
    <3>1. history \o t \in Seq(CanonicalMessages)
      BY <2>2
    <3>2. \/ keys = {} /\ ReasoningKey(history \o t) = ReasoningKey(history)
          \/ keys = {ReasoningKey(history \o t)}
      BY <2>1, <2>2, KeyOfNewest
    <3> HIDE DEF keys
    <3> QED
      BY <3>1, <3>2, KeysSent
  <2>5. DOMAIN ChatRequest(history') = DOMAIN history'
    BY DEF ChatRequest
  <2> DEFINE committed == SubSeq(history', Len(history) + 1, Len(history'))
  <2>6. Remembers <=>
           \A a \in DOMAIN ChatRequest(history') : IsAssistant(history'[a]) =>
              {k \in ReasoningKeys : ChatRequest(history')[a].reasoning[k] # None}
                 = IF Brought(committed) # {} THEN Brought(committed) ELSE {ReasoningKey(history)}
    BY DEF Brought
  <2>7. committed = t
    BY <2>3
  <2> HIDE DEF Remembers, committed, keys
  <2>8. \A a \in DOMAIN history' : IsAssistant(history'[a]) =>
           {k \in ReasoningKeys : ChatRequest(history')[a].reasoning[k] # None}
              = IF Brought(t) # {} THEN Brought(t) ELSE {ReasoningKey(history)}
    BY <2>1, <2>4 DEF keys
  <2> QED
    BY <2>5, <2>6, <2>7, <2>8
<1> QED
  BY <1>1, <1>2, <1>3, PTL DEF TurnsSpec, ReasoningKeyIsRemembered

-------------------------------------------------------------------------------
(* Truncation: the lengths of texts, of what is kept of them and of notices;   *)
(* the search for the longest part of a container that fits; the rounds in     *)
(* which containers are replaced.                                              *)

\* The runs that texts are made of.
Runs == [kind : RunKinds, n : Nat]

\* Their length in bytes.
SizeOf(run) == run.n * WidthOf(run.kind)

\* Lengths are numbers.
LEMMA RunSizes ==
  ASSUME NEW run \in Runs
  PROVE  /\ SizeOf(run) \in Nat /\ WidthOf(run.kind) \in 1 .. 3
         /\ WidthOf(run.kind) = 1 => SizeOf(run) = run.n
         /\ WidthOf(run.kind) # 1 => WidthOf(run.kind) = 3 /\ SizeOf(run) = 3 * run.n
<1>1. run.n \in Nat
  BY DEF Runs
<1>2. CASE run.kind = "wide"
  BY <1>1, <1>2 DEF SizeOf, WidthOf
<1>3. CASE run.kind # "wide"
  BY <1>1, <1>3 DEF SizeOf, WidthOf
<1> QED
  BY <1>2, <1>3

\* The sums that make up the length of a text.
Sums(text, f) == f = [k \in 0 .. Len(text) |-> IF k = 0 THEN 0 ELSE f[k - 1] + SizeOf(text[k])]

\* The sums of a text are well defined.
LEMMA SumsExist ==
  ASSUME NEW text \in RunTexts
  PROVE  \E f : Sums(text, f)
<1> DEFINE n == Len(text)
           Right(f, m) == \A k \in 0 .. m : f[k] = IF k = 0 THEN 0 ELSE f[k - 1] + SizeOf(text[k])
           S == {m \in Nat : \E f : Right(f, m)}
<1>1. 0 \in S
  <2> DEFINE f == [k \in 0 .. 0 |-> 0]
  <2>1. Right(f, 0)
    OBVIOUS
  <2> QED
    BY <2>1
<1>2. ASSUME NEW m \in Nat, m \in S PROVE m + 1 \in S
  <2>1. PICK f : Right(f, m)
    BY <1>2
  <2> DEFINE g == [k \in 0 .. m + 1 |-> IF k = m + 1 THEN f[m] + SizeOf(text[m + 1]) ELSE f[k]]
  <2>2. ASSUME NEW k \in 0 .. m + 1 PROVE g[k] = IF k = 0 THEN 0 ELSE g[k - 1] + SizeOf(text[k])
    <3>1. CASE k = m + 1
      <4>1. k # 0 /\ k - 1 = m /\ m \in 0 .. m + 1 /\ m # m + 1
        BY <3>1
      <4> QED
        BY <3>1, <4>1
    <3>2. CASE k # m + 1
      <4>1. k \in 0 .. m /\ (k # 0 => k - 1 \in 0 .. m + 1 /\ k - 1 # m + 1)
        BY <3>2
      <4> QED
        BY <2>1, <3>2, <4>1
    <3> QED
      BY <3>1, <3>2
  <2> HIDE DEF g
  <2>3. Right(g, m + 1)
    BY <2>2
  <2> QED
    BY <2>3
<1> HIDE DEF S
<1>3. \A m \in Nat : m \in S
  BY <1>1, <1>2, NatSetInduction
<1>4. n \in Nat
  BY LenProperties DEF RunTexts
<1>5. PICK f : Right(f, n)
  BY <1>3, <1>4 DEF S
<1> DEFINE g == [k \in 0 .. n |-> f[k]]
<1>6. ASSUME NEW k \in 0 .. n PROVE g[k] = IF k = 0 THEN 0 ELSE g[k - 1] + SizeOf(text[k])
  <2>1. k # 0 => k - 1 \in 0 .. n
    BY <1>4
  <2> QED
    BY <1>5, <2>1
<1>7. g = [k \in 0 .. n |-> g[k]]
  OBVIOUS
<1> HIDE DEF g
<1>8. g = [k \in 0 .. n |-> IF k = 0 THEN 0 ELSE g[k - 1] + SizeOf(text[k])]
  BY <1>6, <1>7, Zenon
<1> QED
  BY <1>8 DEF Sums

\* The length of a text is the last of its sums.
LEMMA BytesAreSums ==
  ASSUME NEW text \in RunTexts
  PROVE  \E f : Sums(text, f) /\ Bytes(text) = f[Len(text)]
<1> DEFINE sums == CHOOSE f : Sums(text, f)
<1>1. Sums(text, sums)
  BY SumsExist, Zenon
<1>2. Bytes(text) = sums[Len(text)]
  BY DEF Bytes, Sums, SizeOf
<1> QED
  BY <1>1, <1>2

\* Sums of the same runs are the same.
LEMMA SumsAgree ==
  ASSUME NEW text \in RunTexts, NEW f, Sums(text, f), NEW more \in RunTexts, NEW g, Sums(more, g),
         Len(text) <= Len(more), \A k \in 1 .. Len(text) : text[k] = more[k]
  PROVE  \A k \in 0 .. Len(text) : f[k] = g[k] /\ f[k] \in Nat
<1>0. Len(text) \in Nat /\ Len(more) \in Nat
  BY LenProperties DEF RunTexts
<1> DEFINE S == {m \in Nat : m <= Len(text) => f[m] = g[m] /\ f[m] \in Nat}
<1>1. 0 \in S
  BY <1>0 DEF Sums
<1>2. ASSUME NEW m \in Nat, m \in S PROVE m + 1 \in S
  <2> SUFFICES ASSUME m + 1 <= Len(text) PROVE f[m + 1] = g[m + 1] /\ f[m + 1] \in Nat
    OBVIOUS
  <2>1. m <= Len(text) /\ m + 1 \in 0 .. Len(text) /\ m + 1 \in 1 .. Len(text)
        /\ m + 1 \in 0 .. Len(more) /\ m + 1 # 0 /\ (m + 1) - 1 = m
    BY <1>0
  <2>2. f[m] = g[m] /\ f[m] \in Nat
    BY <1>2, <2>1
  <2>3. f[m + 1] = f[m] + SizeOf(text[m + 1]) /\ g[m + 1] = g[m] + SizeOf(more[m + 1])
    BY <2>1 DEF Sums
  <2>4. text[m + 1] = more[m + 1]
    BY <2>1
  <2>5. SizeOf(text[m + 1]) \in Nat
    <3>1. text[m + 1] \in Runs
      BY <2>1, ElementOfSeq DEF RunTexts, Runs
    <3> QED
      BY <3>1, RunSizes
  <2> QED
    BY <2>2, <2>3, <2>4, <2>5
<1> HIDE DEF S
<1>3. \A m \in Nat : m \in S
  BY <1>1, <1>2, NatSetInduction
<1> SUFFICES ASSUME NEW k \in 0 .. Len(text) PROVE f[k] = g[k] /\ f[k] \in Nat
  OBVIOUS
<1>4. k \in Nat /\ k <= Len(text)
  BY <1>0
<1> QED
  BY <1>3, <1>4 DEF S

\* A text is longer by a run that is added to it.
LEMMA BytesOfAppended ==
  ASSUME NEW text \in RunTexts, NEW run \in Runs
  PROVE  /\ Append(text, run) \in RunTexts
         /\ Bytes(text) \in Nat
         /\ Bytes(Append(text, run)) = Bytes(text) + SizeOf(run)
<1> DEFINE more == Append(text, run)
<1>1. /\ more \in RunTexts /\ Len(more) = Len(text) + 1 /\ Len(text) \in Nat
      /\ more[Len(text) + 1] = run /\ \A k \in 1 .. Len(text) : text[k] = more[k]
  BY AppendProperties, LenProperties DEF RunTexts, Runs
<1> HIDE DEF more
<1>2. PICK f : Sums(text, f) /\ Bytes(text) = f[Len(text)]
  BY BytesAreSums
<1>3. PICK g : Sums(more, g) /\ Bytes(more) = g[Len(more)]
  BY <1>1, BytesAreSums
<1>4. Len(text) \in 0 .. Len(text) /\ Len(text) <= Len(more) /\ Len(more) \in 0 .. Len(more)
      /\ Len(more) # 0 /\ Len(more) - 1 = Len(text)
  BY <1>1
<1>5. f[Len(text)] = g[Len(text)] /\ f[Len(text)] \in Nat
  BY <1>1, <1>2, <1>3, <1>4, SumsAgree
<1>6. g[Len(more)] = g[Len(text)] + SizeOf(run)
  BY <1>1, <1>3, <1>4 DEF Sums
<1>7. Bytes(more) = Bytes(text) + SizeOf(run)
  BY <1>2, <1>3, <1>5, <1>6
<1> QED
  BY <1>1, <1>2, <1>5, <1>7 DEF more

\* The empty text has no bytes.
LEMMA BytesOfEmpty ==
  <<>> \in RunTexts /\ Bytes(<<>>) = 0
<1>1. <<>> \in RunTexts /\ Len(<<>>) = 0
  BY EmptySeq DEF RunTexts
<1>2. PICK f : Sums(<<>>, f) /\ Bytes(<<>>) = f[Len(<<>>)]
  BY <1>1, BytesAreSums
<1>3. f[0] = 0
  <2>1. 0 \in 0 .. Len(<<>>)
    BY <1>1
  <2> QED
    BY <1>2, <2>1 DEF Sums
<1> QED
  BY <1>1, <1>2, <1>3

\* Joined texts are as long as both together.
LEMMA BytesOfConcat ==
  ASSUME NEW s \in RunTexts
  PROVE  \A t \in RunTexts : /\ s \o t \in RunTexts /\ Bytes(t) \in Nat
                             /\ Bytes(s \o t) = Bytes(s) + Bytes(t)
<1> DEFINE Adds(t) == s \o t \in RunTexts /\ Bytes(t) \in Nat /\ Bytes(s \o t) = Bytes(s) + Bytes(t)
           S == {m \in Nat : \A t \in RunTexts : Len(t) = m => Adds(t)}
<1>0. Bytes(s) \in Nat
  <2>1. [kind |-> "plain", n |-> 0] \in Runs
    BY DEF Runs, RunKinds
  <2> QED
    BY <2>1, BytesOfAppended
<1>1. 0 \in S
  <2> SUFFICES ASSUME NEW t \in RunTexts, Len(t) = 0 PROVE Adds(t)
    OBVIOUS
  <2>1. t = <<>>
    BY EmptySeq DEF RunTexts
  <2>2. s \o <<>> = s
    BY ConcatEmptySeq DEF RunTexts
  <2> QED
    BY <1>0, <2>1, <2>2, BytesOfEmpty
<1>2. ASSUME NEW m \in Nat, m \in S PROVE m + 1 \in S
  <2> SUFFICES ASSUME NEW t \in RunTexts, Len(t) = m + 1 PROVE Adds(t)
    OBVIOUS
  <2>1. PICK u \in RunTexts, run \in Runs : t = Append(u, run)
    <3>1. t # <<>>
      BY EmptySeq DEF RunTexts
    <3>2. \E u \in Seq(Runs) : \E run \in Runs : t = Append(u, run)
      BY <3>1, SequenceEmptyOrAppend DEF RunTexts, Runs
    <3> QED
      BY <3>2 DEF RunTexts, Runs
  <2>2. Len(u) = m
    BY <2>1, AppendProperties, LenProperties DEF RunTexts, Runs
  <2>3. Adds(u)
    BY <1>2, <2>2
  <2>4. s \o t = Append(s \o u, run)
    BY <2>1, AppendIsConcat, ConcatAssociative DEF RunTexts, Runs
  <2>5. /\ Append(s \o u, run) \in RunTexts
        /\ Bytes(Append(s \o u, run)) = Bytes(s \o u) + SizeOf(run)
        /\ Bytes(t) = Bytes(u) + SizeOf(run)
    BY <2>1, <2>3, BytesOfAppended
  <2>6. SizeOf(run) \in Nat
    BY RunSizes
  <2> QED
    BY <1>0, <2>3, <2>4, <2>5, <2>6
<1> HIDE DEF S
<1>3. \A m \in Nat : m \in S
  BY <1>1, <1>2, NatSetInduction
<1> SUFFICES ASSUME NEW t \in RunTexts PROVE Adds(t)
  OBVIOUS
<1>4. Len(t) \in Nat
  BY LenProperties DEF RunTexts
<1> QED
  BY <1>3, <1>4 DEF S

\* A run is a text.
LEMMA BytesOfOne ==
  ASSUME NEW run \in Runs
  PROVE  <<run>> \in RunTexts /\ Bytes(<<run>>) = SizeOf(run)
<1>1. <<run>> = Append(<<>>, run)
  OBVIOUS
<1>2. SizeOf(run) \in Nat
  BY RunSizes
<1>3. /\ Append(<<>>, run) \in RunTexts
      /\ Bytes(Append(<<>>, run)) = Bytes(<<>>) + SizeOf(run)
  BY BytesOfEmpty, BytesOfAppended
<1> QED
  BY <1>1, <1>2, <1>3, BytesOfEmpty

\* The digits of a number, by those of smaller ones.
DigitsOf(f, n) == IF n < 10 THEN 1 ELSE 1 + f[n \div 10]

\* Digits are well defined.
LEMMA DigitsExist ==
  \E f : f = [n \in Nat |-> DigitsOf(f, n)]
<1> DEFINE Right(f, m) == \A k \in 0 .. m : f[k] = DigitsOf(f, k)
           S == {m \in Nat : \E f : f = [k \in Nat |-> f[k]] /\ Right(f, m)}
           upTo == [m \in Nat |-> CHOOSE f : Right(f, m)]
<1>1. 0 \in S
  <2> DEFINE f == [k \in Nat |-> 1]
  <2>1. Right(f, 0)
    BY DEF DigitsOf
  <2>2. f = [k \in Nat |-> f[k]]
    OBVIOUS
  <2> HIDE DEF f
  <2> QED
    BY <2>1, <2>2
<1>2. ASSUME NEW m \in Nat, m \in S PROVE m + 1 \in S
  <2>1. PICK f : f = [k \in Nat |-> f[k]] /\ Right(f, m)
    BY <1>2
  <2> DEFINE g == [k \in Nat |-> IF k = m + 1 THEN DigitsOf(f, k) ELSE f[k]]
  <2>2. ASSUME NEW k \in 0 .. m + 1 PROVE g[k] = DigitsOf(g, k)
    <3>1. k < 10 \/ (k \div 10 \in 0 .. m /\ k \div 10 # m + 1)
      OBVIOUS
    <3>2. DigitsOf(g, k) = DigitsOf(f, k)
      BY <3>1 DEF DigitsOf
    <3>3. CASE k = m + 1
      BY <3>2, <3>3
    <3>4. CASE k # m + 1
      <4>1. k \in 0 .. m
        BY <3>4
      <4> QED
        BY <2>1, <3>2, <3>4, <4>1
    <3> QED
      BY <3>3, <3>4
  <2>3. g = [k \in Nat |-> g[k]]
    OBVIOUS
  <2> HIDE DEF g
  <2> QED
    BY <2>2, <2>3
<1> HIDE DEF S
<1>3. \A m \in Nat : m \in S
  BY <1>1, <1>2, NatSetInduction
<1>4. \A m \in Nat : \E f : Right(f, m)
  BY <1>3 DEF S
\* Where they are defined, any two of these agree.
<1>5. ASSUME NEW m \in Nat, NEW n \in Nat, NEW f, Right(f, m), NEW g, Right(g, n)
      PROVE  \A k \in Nat : k <= m /\ k <= n => f[k] = g[k]
  <2> DEFINE T == {j \in Nat : \A k \in 0 .. j : k <= m /\ k <= n => f[k] = g[k]}
  <2>1. 0 \in T
    BY <1>5 DEF DigitsOf
  <2>2. ASSUME NEW j \in Nat, j \in T PROVE j + 1 \in T
    <3> SUFFICES ASSUME NEW k \in 0 .. j + 1, k <= m, k <= n PROVE f[k] = g[k]
      OBVIOUS
    <3>1. f[k] = DigitsOf(f, k) /\ g[k] = DigitsOf(g, k)
      BY <1>5
    <3>2. k < 10 \/ (k \div 10 \in 0 .. j /\ k \div 10 <= m /\ k \div 10 <= n)
      OBVIOUS
    <3> QED
      BY <2>2, <3>1, <3>2 DEF DigitsOf
  <2> HIDE DEF T
  <2>3. \A j \in Nat : j \in T
    BY <2>1, <2>2, NatSetInduction
  <2> SUFFICES ASSUME NEW k \in Nat, k <= m, k <= n PROVE f[k] = g[k]
    OBVIOUS
  <2>4. k \in T /\ k \in 0 .. k
    BY <2>3
  <2> QED
    BY <2>4 DEF T
<1> DEFINE h == [k \in Nat |-> upTo[k][k]]
<1>6. ASSUME NEW k \in Nat PROVE Right(upTo[k], k)
  BY <1>4, Zenon
<1>7. ASSUME NEW k \in Nat PROVE h[k] = DigitsOf(h, k)
  <2>1. upTo[k][k] = DigitsOf(upTo[k], k)
    <3>1. k \in 0 .. k
      OBVIOUS
    <3> HIDE DEF upTo
    <3> QED
      BY <1>6, <3>1
  <2>2. CASE k < 10
    BY <2>1, <2>2 DEF DigitsOf
  <2>3. CASE ~(k < 10)
    <3>1. k \div 10 \in Nat /\ k \div 10 <= k
      OBVIOUS
    <3>2. upTo[k][k \div 10] = upTo[k \div 10][k \div 10]
      <4> HIDE DEF upTo, Right
      <4>1. Right(upTo[k], k) /\ Right(upTo[k \div 10], k \div 10)
        BY <1>6, <3>1
      <4>2. k \div 10 <= k \div 10
        BY <3>1
      <4> QED
        BY <1>5, <3>1, <4>1, <4>2
    <3> QED
      BY <2>1, <2>3, <3>1, <3>2 DEF DigitsOf
  <2> QED
    BY <2>2, <2>3
<1>8. h = [k \in Nat |-> h[k]]
  OBVIOUS
<1> HIDE DEF h
<1>9. h = [k \in Nat |-> DigitsOf(h, k)]
  BY <1>7, <1>8, Zenon
<1> QED
  BY <1>9

\* They satisfy their definition.
LEMMA DigitsDefined ==
  \A n \in Nat : Digits[n] = DigitsOf(Digits, n)
<1> DEFINE Right(f) == f = [n \in Nat |-> DigitsOf(f, n)]
<1>1. Digits = CHOOSE f : Right(f)
  BY DEF Digits, DigitsOf
<1>2. Right(CHOOSE f : Right(f))
  BY DigitsExist, Zenon
<1> HIDE DEF Right
<1>3. Right(Digits)
  BY <1>1, <1>2
<1>4. Digits = [n \in Nat |-> DigitsOf(Digits, n)]
  BY <1>3, Zenon DEF Right
<1> QED
  BY <1>4, Zenon

\* Longer numbers have more digits.
LEMMA DigitsGrow ==
  \A n \in Nat : Digits[n] \in Nat /\ \A m \in 0 .. n : Digits[m] <= Digits[n]
<1> DEFINE S == {k \in Nat : \A n \in 0 .. k : Digits[n] \in Nat /\ Digits[n] >= 1
                                /\ \A m \in 0 .. n : Digits[m] <= Digits[n]}
<1>1. 0 \in S
  <2>1. Digits[0] = 1
    BY DigitsDefined DEF DigitsOf
  <2> QED
    BY <2>1
<1>2. ASSUME NEW k \in Nat, k \in S PROVE k + 1 \in S
  <2> SUFFICES ASSUME NEW n \in 0 .. k + 1
               PROVE  /\ Digits[n] \in Nat /\ Digits[n] >= 1
                      /\ \A m \in 0 .. n : Digits[m] <= Digits[n]
    OBVIOUS
  <2>0. \A i \in 0 .. n : Digits[i] = IF i < 10 THEN 1 ELSE 1 + Digits[i \div 10]
    BY DigitsDefined DEF DigitsOf
  <2>1. CASE n < 10
    <3>1. \A m \in 0 .. n : Digits[m] = 1
      BY <2>0, <2>1
    <3> QED
      BY <3>1
  <2>2. CASE ~(n < 10)
    <3>1. n \div 10 \in 0 .. k
      BY <2>2
    <3>2. Digits[n \div 10] \in Nat /\ Digits[n \div 10] >= 1 /\ Digits[n] = 1 + Digits[n \div 10]
      BY <1>2, <2>0, <2>2, <3>1
    <3>3. ASSUME NEW m \in 0 .. n PROVE Digits[m] <= Digits[n]
      <4>1. CASE m < 10
        <5>1. Digits[m] = 1
          BY <2>0, <4>1
        <5> QED
          BY <3>2, <5>1
      <4>2. CASE ~(m < 10)
        <5>1. m \div 10 \in 0 .. n \div 10
          BY <4>2
        <5>2. Digits[m \div 10] <= Digits[n \div 10] /\ Digits[m \div 10] \in Nat
          <6>1. m \div 10 \in 0 .. k
            BY <3>1, <5>1
          <6> QED
            BY <1>2, <3>1, <5>1, <6>1
        <5>3. Digits[m] = 1 + Digits[m \div 10]
          BY <2>0, <4>2
        <5> QED
          BY <3>2, <5>2, <5>3
      <4> QED
        BY <4>1, <4>2
    <3> QED
      BY <3>2, <3>3
  <2> QED
    BY <2>1, <2>2
<1> HIDE DEF S
<1>3. \A k \in Nat : k \in S
  BY <1>1, <1>2, NatSetInduction
<1> SUFFICES ASSUME NEW n \in Nat PROVE Digits[n] \in Nat /\ \A m \in 0 .. n : Digits[m] <= Digits[n]
  OBVIOUS
<1>4. n \in S /\ n \in 0 .. n
  BY <1>3
<1> QED
  BY <1>4 DEF S

\* How long a notice is.
LEMMA MarkerSize ==
  ASSUME NEW omitted \in Nat, NEW of \in Nat
  PROVE  /\ Marker(omitted, of) \in RunTexts
         /\ Bytes(Marker(omitted, of)) = 35 + Digits[omitted] + Digits[of]
<1> DEFINE words == 31 + Digits[omitted] + Digits[of]
<1>1. Digits[omitted] \in Nat /\ Digits[of] \in Nat /\ words \in Nat
  BY DigitsGrow
<1>2. /\ Newlines(2) \in RunTexts /\ Bytes(Newlines(2)) = 2
      /\ Plain(words) \in RunTexts /\ Bytes(Plain(words)) = words
  <2> HIDE DEF words
  <2>1. Run("newline", 2) \in Runs /\ Run("plain", words) \in Runs
    BY <1>1 DEF Run, Runs, RunKinds
  <2>2. SizeOf(Run("newline", 2)) = 2 /\ SizeOf(Run("plain", words)) = words
    BY <1>1 DEF SizeOf, WidthOf, Run
  <2> QED
    BY <2>1, <2>2, BytesOfOne DEF Newlines, Plain
<1>3. Marker(omitted, of) = Newlines(2) \o Plain(words) \o Newlines(2)
  BY DEF Marker
<1> HIDE DEF words
<1>4. Newlines(2) \o Plain(words) \in RunTexts /\ Bytes(Newlines(2) \o Plain(words)) = 2 + words
  BY <1>2, BytesOfConcat
<1>5. /\ (Newlines(2) \o Plain(words)) \o Newlines(2) \in RunTexts
      /\ Bytes((Newlines(2) \o Plain(words)) \o Newlines(2)) = (2 + words) + 2
  BY <1>2, <1>4, BytesOfConcat
<1> QED
  BY <1>1, <1>3, <1>5, SMTT(30) DEF words

\* A piece of a run is no longer than asked for.
LEMMA PieceFits ==
  ASSUME NEW run \in Runs, NEW bytes \in Nat
  PROVE  /\ PieceOf(run, bytes) \in RunTexts
         /\ Bytes(PieceOf(run, bytes)) \in Nat /\ Bytes(PieceOf(run, bytes)) <= bytes
<1> DEFINE whole == bytes \div WidthOf(run.kind)
<1>1. whole \in Nat /\ whole * WidthOf(run.kind) <= bytes
  <2>1. CASE WidthOf(run.kind) = 1
    BY <2>1
  <2>2. CASE WidthOf(run.kind) = 3
    BY <2>2
  <2> QED
    BY <2>1, <2>2 DEF WidthOf
<1>2. Run(run.kind, whole) \in Runs /\ SizeOf(Run(run.kind, whole)) = whole * WidthOf(run.kind)
  BY <1>1 DEF Run, Runs, SizeOf
<1>3. <<Run(run.kind, whole)>> \in RunTexts /\ Bytes(<<Run(run.kind, whole)>>) = SizeOf(Run(run.kind, whole))
  BY <1>2, BytesOfOne
<1>4. SizeOf(Run(run.kind, whole)) \in Nat
  BY <1>2, RunSizes
<1>5. PieceOf(run, bytes) \in {<<>>, <<Run(run.kind, whole)>>}
  BY DEF PieceOf
<1> HIDE DEF whole
<1> QED
  BY <1>1, <1>2, <1>3, <1>4, <1>5, BytesOfEmpty

\* The beginnings and the ends of a text are texts.
LEMMA PartsOfTexts ==
  ASSUME NEW text \in RunTexts, NEW k \in 0 .. Len(text)
  PROVE  /\ SubSeq(text, 1, k) \in RunTexts /\ SubSeq(text, k + 1, Len(text)) \in RunTexts
         /\ Bytes(SubSeq(text, 1, k)) \in Nat /\ Bytes(SubSeq(text, k + 1, Len(text))) \in Nat
<1>0. text \in Seq(Runs) /\ Len(text) \in Nat
  BY LenProperties DEF RunTexts, Runs
<1>1. (\A i \in 1 .. k : text[i] \in Runs) /\ (\A i \in k + 1 .. Len(text) : text[i] \in Runs)
  BY <1>0, ElementOfSeq
<1>2. SubSeq(text, 1, k) \in Seq(Runs) /\ SubSeq(text, k + 1, Len(text)) \in Seq(Runs)
  BY <1>0, <1>1, SubSeqProperties
<1>3. SubSeq(text, 1, k) \in RunTexts /\ SubSeq(text, k + 1, Len(text)) \in RunTexts
  BY <1>2 DEF RunTexts, Runs
<1> QED
  BY <1>3, BytesOfConcat

\* A prefix is no longer than asked for.
LEMMA PrefixFits ==
  ASSUME NEW text \in RunTexts, NEW bytes \in Nat
  PROVE  /\ TakePrefix(text, bytes) \in RunTexts
         /\ Bytes(TakePrefix(text, bytes)) \in Nat /\ Bytes(TakePrefix(text, bytes)) <= bytes
<1> DEFINE n == Len(text)
           start(k) == SubSeq(text, 1, k)
           fitting == {k \in 0 .. n : Bytes(start(k)) <= bytes}
           whole == Max(fitting)
<1>0. n \in Nat /\ text \in Seq(Runs)
  BY LenProperties DEF RunTexts, Runs
<1>1. 0 \in fitting
  <2>1. start(0) = <<>>
    BY SubSeqEmpty
  <2>2. Bytes(start(0)) = 0
    BY <2>1, BytesOfEmpty, Zenon
  <2>3. 0 \in 0 .. n /\ 0 <= bytes
    BY <1>0
  <2> HIDE DEF start
  <2> QED
    BY <2>2, <2>3
<1>2. whole \in 0 .. n /\ Bytes(start(whole)) <= bytes
  <2>1. whole \in fitting
    <3>1. fitting \in SUBSET (0 .. n)
      OBVIOUS
    <3> HIDE DEF fitting
    <3> QED
      BY <1>0, <1>1, <3>1, MaxOf
  <2> HIDE DEF whole
  <2> QED
    BY <2>1
<1>3. TakePrefix(text, bytes) =
        IF whole = n THEN text ELSE start(whole) \o PieceOf(text[whole + 1], bytes - Bytes(start(whole)))
  BY DEF TakePrefix
<1> HIDE DEF whole, fitting
<1>4. start(whole) \in RunTexts /\ Bytes(start(whole)) \in Nat
  BY <1>2, PartsOfTexts
<1>5. CASE whole = n
  <2>1. start(n) = text
    BY <1>0, SubSeqFull
  <2> QED
    BY <1>2, <1>3, <1>4, <1>5, <2>1
<1>6. CASE whole # n
  <2> DEFINE left == bytes - Bytes(start(whole))
             piece == PieceOf(text[whole + 1], left)
  <2>1. text[whole + 1] \in Runs
    <3>1. whole + 1 \in 1 .. n
      BY <1>0, <1>2, <1>6
    <3> QED
      BY <1>0, <3>1, ElementOfSeq
  <2>2. left \in Nat
    BY <1>2, <1>4
  <2> HIDE DEF left
  <2>3. piece \in RunTexts /\ Bytes(piece) \in Nat /\ Bytes(piece) <= left
    BY <2>1, <2>2, PieceFits
  <2> HIDE DEF piece
  <2>4. /\ start(whole) \o piece \in RunTexts
        /\ Bytes(start(whole) \o piece) = Bytes(start(whole)) + Bytes(piece)
    BY <1>4, <2>3, BytesOfConcat
  <2>5. Bytes(start(whole)) + Bytes(piece) \in Nat /\ Bytes(start(whole)) + Bytes(piece) <= bytes
    BY <1>4, <2>2, <2>3 DEF left
  <2>6. TakePrefix(text, bytes) = start(whole) \o piece
    BY <1>3, <1>6 DEF piece, left
  <2> QED
    BY <2>4, <2>5, <2>6
<1> QED
  BY <1>5, <1>6

\* Neither is a suffix.
LEMMA SuffixFits ==
  ASSUME NEW text \in RunTexts, NEW bytes \in Nat
  PROVE  /\ TakeSuffix(text, bytes) \in RunTexts
         /\ Bytes(TakeSuffix(text, bytes)) \in Nat /\ Bytes(TakeSuffix(text, bytes)) <= bytes
<1> DEFINE n == Len(text)
           end(k) == SubSeq(text, k + 1, n)
           fitting == {k \in 0 .. n : Bytes(end(k)) <= bytes}
           whole == Min(fitting)
<1>0. n \in Nat /\ text \in Seq(Runs)
  BY LenProperties DEF RunTexts, Runs
<1>1. n \in fitting
  <2>1. end(n) = <<>>
    BY <1>0, SubSeqEmpty
  <2>2. Bytes(end(n)) = 0
    BY <2>1, BytesOfEmpty, Zenon
  <2>3. n \in 0 .. n /\ 0 <= bytes
    BY <1>0
  <2> HIDE DEF end
  <2> QED
    BY <2>2, <2>3
<1>2. whole \in 0 .. n /\ Bytes(end(whole)) <= bytes
  <2>1. whole \in fitting
    <3>1. fitting \in SUBSET (0 .. n)
      OBVIOUS
    <3> HIDE DEF fitting
    <3> QED
      BY <1>0, <1>1, <3>1, MinOf
  <2> HIDE DEF whole
  <2> QED
    BY <2>1
<1>3. TakeSuffix(text, bytes) =
        IF whole = 0 THEN text ELSE PieceOf(text[whole], bytes - Bytes(end(whole))) \o end(whole)
  BY DEF TakeSuffix
<1> HIDE DEF whole, fitting
<1>4. end(whole) \in RunTexts /\ Bytes(end(whole)) \in Nat
  BY <1>2, PartsOfTexts
<1>5. CASE whole = 0
  <2>1. end(0) = text
    BY <1>0, SubSeqFull
  <2> QED
    BY <1>2, <1>3, <1>4, <1>5, <2>1
<1>6. CASE whole # 0
  <2> DEFINE left == bytes - Bytes(end(whole))
             piece == PieceOf(text[whole], left)
  <2>1. text[whole] \in Runs
    <3>1. whole \in 1 .. n
      BY <1>0, <1>2, <1>6
    <3> QED
      BY <1>0, <3>1, ElementOfSeq
  <2>2. left \in Nat
    BY <1>2, <1>4
  <2> HIDE DEF left
  <2>3. piece \in RunTexts /\ Bytes(piece) \in Nat /\ Bytes(piece) <= left
    BY <2>1, <2>2, PieceFits
  <2> HIDE DEF piece
  <2>4. /\ piece \o end(whole) \in RunTexts
        /\ Bytes(piece \o end(whole)) = Bytes(piece) + Bytes(end(whole))
    BY <1>4, <2>3, BytesOfConcat
  <2>5. Bytes(piece) + Bytes(end(whole)) \in Nat /\ Bytes(piece) + Bytes(end(whole)) <= bytes
    BY <1>4, <2>2, <2>3 DEF left
  <2>6. TakeSuffix(text, bytes) = piece \o end(whole)
    BY <1>3, <1>6 DEF piece, left
  <2> QED
    BY <2>4, <2>5, <2>6
<1> QED
  BY <1>5, <1>6

\* What is left of both ends of a text and the notice between them.
LEMMA MiddleFits ==
  ASSUME NEW text \in RunTexts, NEW body \in Nat, body # 0, ~(Bytes(text) <= body)
  PROVE  Bytes(TruncateMiddle(text, body)) \in Nat
         /\ Bytes(TruncateMiddle(text, body)) <= body + Bytes(Marker(Bytes(text), Bytes(text)))
<1> DEFINE head == TakePrefix(text, body \div 2)
           tail == TakeSuffix(text, body - body \div 2)
           of == Bytes(text)
           omitted == Less(of, Bytes(head) + Bytes(tail))
           marker == Marker(omitted, of)
<1>1. body \div 2 \in Nat /\ body - body \div 2 \in Nat
  OBVIOUS
<1>2. /\ head \in RunTexts /\ Bytes(head) \in Nat /\ Bytes(head) <= body \div 2
      /\ tail \in RunTexts /\ Bytes(tail) \in Nat /\ Bytes(tail) <= body - body \div 2
  BY <1>1, PrefixFits, SuffixFits
<1>3. of \in Nat
  BY BytesOfConcat
<1> HIDE DEF head, tail
<1>4. omitted \in 0 .. of
  BY <1>2, <1>3 DEF Less
<1>5. TruncateMiddle(text, body) = head \o marker \o tail
  BY DEF TruncateMiddle, head, tail
<1> HIDE DEF of, omitted
<1>6. /\ marker \in RunTexts
      /\ Bytes(marker) = 35 + Digits[omitted] + Digits[of]
      /\ Bytes(Marker(of, of)) = 35 + Digits[of] + Digits[of]
  <2>1. omitted \in Nat
    BY <1>3, <1>4
  <2> QED
    BY <1>3, <2>1, MarkerSize
<1>7. Digits[omitted] \in Nat /\ Digits[of] \in Nat /\ Digits[omitted] <= Digits[of]
  <2>1. omitted \in Nat
    BY <1>3, <1>4
  <2> QED
    BY <1>3, <1>4, <2>1, DigitsGrow
<1>8. Bytes(marker) \in Nat /\ Bytes(marker) <= Bytes(Marker(of, of))
  BY <1>6, <1>7
<1> HIDE DEF marker
<1>9. head \o marker \in RunTexts /\ Bytes(head \o marker) = Bytes(head) + Bytes(marker)
  BY <1>2, <1>6, BytesOfConcat
<1>10. Bytes((head \o marker) \o tail) = (Bytes(head) + Bytes(marker)) + Bytes(tail)
  BY <1>2, <1>9, BytesOfConcat
<1>11. /\ (Bytes(head) + Bytes(marker)) + Bytes(tail) \in Nat
       /\ (Bytes(head) + Bytes(marker)) + Bytes(tail) <= body + Bytes(Marker(of, of))
  <2>1. Bytes(Marker(of, of)) \in Nat
    BY <1>6, <1>7
  <2>2. Bytes(head) + Bytes(tail) <= body
    BY <1>1, <1>2
  <2> QED
    BY <1>2, <1>8, <2>1, <2>2
<1> QED
  BY <1>5, <1>10, <1>11 DEF of

\* A text that is cut has no more tokens than allowed, or is a notice only.
LEMMA TextFits ==
  ASSUME NEW text \in RunTexts, NEW tokens \in Nat
  PROVE  \/ TokensOf(TruncateText(text, tokens)) <= tokens
         \/ TruncateText(text, tokens) = Marker(Bytes(text), Bytes(text))
<1> DEFINE of == Bytes(text)
           notice == Bytes(Marker(of, of))
           reserve == NoticeReserve(text)
           body == BytesPerToken * Less(tokens, reserve)
<1>1. of \in Nat
  BY BytesOfConcat
<1>2. notice \in Nat
  BY <1>1, MarkerSize, DigitsGrow
<1>3. reserve \in Nat /\ notice <= 4 * reserve
  <2>1. reserve = (3 * ((notice + 4 - 1) \div 4) + 2 - 1) \div 2
    BY DEF NoticeReserve, TokensOf, CeilDiv, BytesPerToken
  <2> HIDE DEF reserve, notice
  <2> QED
    BY <1>2, <2>1
<1> HIDE DEF of, notice, reserve
<1>4. Less(tokens, reserve) \in Nat /\ (Less(tokens, reserve) # 0 => Less(tokens, reserve) = tokens - reserve)
      /\ Less(tokens, reserve) <= tokens
  BY <1>3 DEF Less
<1>5. body \in Nat /\ body <= 4 * tokens /\ (body # 0 => body = 4 * tokens - 4 * reserve)
  BY <1>3, <1>4 DEF BytesPerToken
<1>6. ASSUME NEW bytes \in Nat, bytes <= 4 * tokens PROVE CeilDiv(bytes, BytesPerToken) <= tokens
  BY <1>6 DEF CeilDiv, BytesPerToken
<1>7. CASE tokens = 0
  BY <1>7 DEF TruncateText
<1>8. CASE tokens # 0
  <2>1. TruncateText(text, tokens) = TruncateMiddle(text, body)
    BY <1>8 DEF TruncateText, reserve
  <2> HIDE DEF body
  <2>2. CASE of <= body
    <3>1. TruncateText(text, tokens) = text
      BY <2>1, <2>2 DEF TruncateMiddle, of
    <3>2. of <= 4 * tokens
      BY <1>1, <1>5, <2>2
    <3> QED
      BY <1>1, <1>6, <3>1, <3>2 DEF TokensOf, of
  <2>3. CASE ~(of <= body) /\ body = 0
    BY <2>1, <2>3 DEF TruncateMiddle, of
  <2>4. CASE ~(of <= body) /\ body # 0
    <3>1. /\ Bytes(TruncateMiddle(text, body)) \in Nat
          /\ Bytes(TruncateMiddle(text, body)) <= body + notice
      BY <1>5, <2>4, MiddleFits DEF of, notice
    <3>2. Bytes(TruncateMiddle(text, body)) <= 4 * tokens
      BY <1>2, <1>3, <1>5, <2>4, <3>1
    <3> QED
      BY <1>6, <2>1, <3>1, <3>2 DEF TokensOf
  <2> QED
    BY <2>2, <2>3, <2>4
<1> QED
  BY <1>7, <1>8

\* As many as a word has bits, at most.
LEMMA BitsAreFew ==
  ASSUME NEW length
  PROVE  Bits(length) \in Nat
<1> DEFINE some == {k \in 0 .. WordBits - 1 : 2 ^ k <= length}
<1>1. IsFiniteSet(0 .. WordBits - 1)
  <2>1. 0 \in Int /\ WordBits - 1 \in Int
    BY DEF WordBits
  <2> HIDE DEF some
  <2> QED
    BY <2>1, FS_Interval
<1>2. some \in SUBSET (0 .. WordBits - 1)
  OBVIOUS
<1>3. Bits(length) = Cardinality(some)
  BY DEF Bits
<1> HIDE DEF some
<1>4. IsFiniteSet(some)
  BY <1>1, <1>2, FS_Subset
<1> QED
  BY <1>3, <1>4, FS_CardinalityType

\* The ranges in which a body is searched for.
Ranges(value, target, f) ==
    f = [n \in 0 .. Bits(Bytes(Serialized(value))) |->
            IF n = 0 THEN [low |-> 0, high |-> Bytes(Serialized(value)) + 1]
            ELSE Halved(value, target, f[n - 1])]

\* They are well defined.
LEMMA RangesExist ==
  ASSUME NEW value, NEW target
  PROVE  \E f : Ranges(value, target, f)
<1> DEFINE bits == Bits(Bytes(Serialized(value)))
           first == [low |-> 0, high |-> Bytes(Serialized(value)) + 1]
           Right(f, m) == \A n \in 0 .. m : f[n] = IF n = 0 THEN first ELSE Halved(value, target, f[n - 1])
           S == {m \in Nat : \E f : Right(f, m)}
<1> HIDE DEF bits, first
<1>1. 0 \in S
  <2> DEFINE f == [n \in 0 .. 0 |-> first]
  <2>1. Right(f, 0)
    OBVIOUS
  <2> QED
    BY <2>1
<1>2. ASSUME NEW m \in Nat, m \in S PROVE m + 1 \in S
  <2>1. PICK f : Right(f, m)
    BY <1>2
  <2> DEFINE g == [n \in 0 .. m + 1 |-> IF n = m + 1 THEN Halved(value, target, f[m]) ELSE f[n]]
  <2>2. ASSUME NEW n \in 0 .. m + 1 PROVE g[n] = IF n = 0 THEN first ELSE Halved(value, target, g[n - 1])
    <3>1. CASE n = m + 1
      <4>1. n # 0 /\ n - 1 = m /\ m \in 0 .. m + 1 /\ m # m + 1
        BY <3>1
      <4> QED
        BY <3>1, <4>1
    <3>2. CASE n # m + 1
      <4>1. n \in 0 .. m /\ (n # 0 => n - 1 \in 0 .. m + 1 /\ n - 1 # m + 1)
        BY <3>2
      <4> QED
        BY <2>1, <3>2, <4>1
    <3> QED
      BY <3>1, <3>2
  <2> HIDE DEF g
  <2>3. Right(g, m + 1)
    BY <2>2
  <2> QED
    BY <2>3
<1> HIDE DEF S
<1>3. \A m \in Nat : m \in S
  BY <1>1, <1>2, NatSetInduction
<1>4. bits \in Nat
  BY BitsAreFew DEF bits
<1>5. PICK f : Right(f, bits)
  BY <1>3, <1>4 DEF S
<1> DEFINE g == [n \in 0 .. bits |-> f[n]]
<1>6. ASSUME NEW n \in 0 .. bits PROVE g[n] = IF n = 0 THEN first ELSE Halved(value, target, g[n - 1])
  <2>1. n # 0 => n - 1 \in 0 .. bits
    BY <1>4
  <2> QED
    BY <1>5, <2>1
<1>7. g = [n \in 0 .. bits |-> g[n]]
  OBVIOUS
<1> HIDE DEF g
<1>8. g = [n \in 0 .. bits |-> IF n = 0 THEN first ELSE Halved(value, target, g[n - 1])]
  BY <1>6, <1>7, Zenon
<1> QED
  BY <1>8 DEF Ranges, first, bits

\* The body that is found leaves a candidate that fits.
LEMMA BodyFits ==
  ASSUME NEW value, NEW target, Fits(Candidate(value, 0), target)
  PROVE  Fits(Candidate(value, SearchBody(value, target)), target)
<1> DEFINE bits == Bits(Bytes(Serialized(value)))
           range == CHOOSE f : Ranges(value, target, f)
           S == {n \in Nat : n <= bits => Fits(Candidate(value, range[n].low), target)}
<1>1. Ranges(value, target, range)
  BY RangesExist, Zenon
<1>2. SearchBody(value, target) = range[bits].low
  BY DEF SearchBody, Ranges
<1>0. bits \in Nat
  BY BitsAreFew
<1> HIDE DEF range, bits
<1>3. 0 \in S
  <2>1. 0 \in 0 .. bits
    BY <1>0
  <2>2. range[0].low = 0
    BY <1>1, <2>1 DEF Ranges, bits
  <2> QED
    BY <2>2
<1>4. ASSUME NEW n \in Nat, n \in S PROVE n + 1 \in S
  <2> SUFFICES ASSUME n + 1 <= bits PROVE Fits(Candidate(value, range[n + 1].low), target)
    OBVIOUS
  <2>1. n + 1 \in 0 .. bits /\ n + 1 # 0 /\ (n + 1) - 1 = n /\ n <= bits
    BY <1>0
  <2>2. range[n + 1] = Halved(value, target, range[n])
    BY <1>1, <2>1 DEF Ranges, bits
  <2>3. Fits(Candidate(value, range[n].low), target)
    BY <1>4, <2>1
  <2> QED
    BY <2>2, <2>3 DEF Halved
<1> HIDE DEF S
<1>5. \A n \in Nat : n \in S
  BY <1>3, <1>4, NatSetInduction
<1> QED
  BY <1>0, <1>2, <1>5 DEF S

\* Nothing but words.
IsNotice(text) == \A i \in DOMAIN text : text[i].kind = "plain"

\* What a container is replaced by fits, or is nothing but a notice.
LEMMA ContainerTextFits ==
  ASSUME NEW value, NEW target
  PROVE  Fits(ContainerText(value, target), target) \/ IsNotice(ContainerText(value, target))
<1>1. IsNotice(ContainerNotice(value))
  BY DEF IsNotice, ContainerNotice, Plain, Run
<1> QED
  BY <1>1, BodyFits DEF ContainerText

\* What is left of a container that was replaced.
Replaced(v, target) == \E text : v = String(text) /\ (Fits(text, target) \/ IsNotice(text))

\* What the rounds of shortening make of a value.
RoundInv(v, target) ==
    \/ DOMAIN v \subseteq Seq(Nat) /\ Root \in DOMAIN v /\ KindOf(v) \in ContainerKinds
    \/ Replaced(v, target)

\* A round leaves a container, or a string that fits.
LEMMA RoundKeeps ==
  ASSUME NEW v, NEW target, RoundInv(v, target)
  PROVE  RoundInv(Shortened(v, target), target)
<1>1. CASE Replaced(v, target)
  <2>1. PICK text : v = String(text) /\ (Fits(text, target) \/ IsNotice(text))
    BY <1>1 DEF Replaced
  <2>2. PathsTo(v, ContainerKinds) = {}
    BY <2>1 DEF PathsTo, String, StringNode, ContainerKinds
  <2>3. Shortened(v, target) = v
    BY <2>2 DEF Shortened, Shrinking
  <2> QED
    BY <2>3
<1>2. CASE DOMAIN v \subseteq Seq(Nat) /\ Root \in DOMAIN v /\ KindOf(v) \in ContainerKinds
  <2>1. CASE Shortened(v, target) = v
    BY <2>1
  <2>2. ASSUME Shortened(v, target) # v
        PROVE  \E p : Shortened(v, target) = PutString(v, p, ContainerText(ValueAt(v, p), target))
    BY <2>2 DEF Shortened, ContainerReplaced
  <2>3. ASSUME NEW p, NEW text, Fits(text, target) \/ IsNotice(text)
        PROVE  RoundInv(PutString(v, p, text), target)
    <3> DEFINE w == PutString(v, p, text)
               left == {q \in DOMAIN v : ~IsBelow(q, p)}
    <3>1. w = [q \in left |-> IF q = p THEN StringNode(text) ELSE v[q]]
      BY DEF PutString
    <3>2. Root \in left
      <4>1. 0 .. Len(Root) - 1 = {}
        BY DEF Root
      <4> QED
        BY <1>2, <4>1 DEF IsBelow
    <3>3. CASE p = Root
      <4>1. left = {Root}
        <5> SUFFICES ASSUME NEW q \in left, q # Root PROVE FALSE
          BY <3>2
        <5>1. q \in Seq(Nat) /\ Len(q) \in Nat /\ Len(q) # 0
          BY <1>2, LenProperties, EmptySeq DEF Root
        <5>2. SubSeq(q, 1, 0) = <<>> /\ 0 \in 0 .. Len(q) - 1
          BY <5>1, SubSeqEmpty
        <5> QED
          BY <3>3, <5>2 DEF IsBelow, Root
      <4>2. w = String(text)
        BY <3>1, <3>3, <4>1 DEF String
      <4> HIDE DEF w
      <4>3. Replaced(w, target)
        BY <2>3, <4>2, Zenon DEF Replaced
      <4> QED
        BY <4>3 DEF RoundInv, w
    <3>4. CASE p # Root
      <4>1. DOMAIN w = left /\ w[Root] = v[Root]
        BY <3>1, <3>2, <3>4
      <4> HIDE DEF w
      <4>2. DOMAIN w \subseteq Seq(Nat) /\ Root \in DOMAIN w
        BY <1>2, <3>2, <4>1
      <4>3. KindOf(w) \in ContainerKinds
        BY <1>2, <4>1 DEF KindOf
      <4> QED
        BY <4>2, <4>3 DEF RoundInv, w
    <3> QED
      BY <3>3, <3>4
  <2> QED
    BY <2>1, <2>2, <2>3, ContainerTextFits
<1> QED
  BY <1>1, <1>2 DEF RoundInv

\* A value after each round.
Rounds(value, target, f) ==
    f = [n \in 0 .. Cardinality(DOMAIN value) |->
            IF n = 0 THEN value ELSE Shortened(f[n - 1], target)]

\* They are well defined.
LEMMA RoundsExist ==
  ASSUME NEW value, NEW target, Cardinality(DOMAIN value) \in Nat
  PROVE  \E f : Rounds(value, target, f)
<1> DEFINE last == Cardinality(DOMAIN value)
           Right(f, m) == \A n \in 0 .. m : f[n] = IF n = 0 THEN value ELSE Shortened(f[n - 1], target)
           S == {m \in Nat : \E f : Right(f, m)}
<1> HIDE DEF last
<1>1. 0 \in S
  <2> DEFINE f == [n \in 0 .. 0 |-> value]
  <2>1. Right(f, 0)
    OBVIOUS
  <2> QED
    BY <2>1
<1>2. ASSUME NEW m \in Nat, m \in S PROVE m + 1 \in S
  <2>1. PICK f : Right(f, m)
    BY <1>2
  <2> DEFINE g == [n \in 0 .. m + 1 |-> IF n = m + 1 THEN Shortened(f[m], target) ELSE f[n]]
  <2>2. ASSUME NEW n \in 0 .. m + 1 PROVE g[n] = IF n = 0 THEN value ELSE Shortened(g[n - 1], target)
    <3>1. CASE n = m + 1
      <4>1. n # 0 /\ n - 1 = m /\ m \in 0 .. m + 1 /\ m # m + 1
        BY <3>1
      <4> QED
        BY <3>1, <4>1
    <3>2. CASE n # m + 1
      <4>1. n \in 0 .. m /\ (n # 0 => n - 1 \in 0 .. m + 1 /\ n - 1 # m + 1)
        BY <3>2
      <4> QED
        BY <2>1, <3>2, <4>1
    <3> QED
      BY <3>1, <3>2
  <2> HIDE DEF g
  <2>3. Right(g, m + 1)
    BY <2>2
  <2> QED
    BY <2>3
<1> HIDE DEF S
<1>3. \A m \in Nat : m \in S
  BY <1>1, <1>2, NatSetInduction
<1>4. last \in Nat
  BY DEF last
<1>5. PICK f : Right(f, last)
  BY <1>3, <1>4 DEF S
<1> DEFINE g == [n \in 0 .. last |-> f[n]]
<1>6. ASSUME NEW n \in 0 .. last PROVE g[n] = IF n = 0 THEN value ELSE Shortened(g[n - 1], target)
  <2>1. n # 0 => n - 1 \in 0 .. last
    BY <1>4
  <2> QED
    BY <1>5, <2>1
<1>7. g = [n \in 0 .. last |-> g[n]]
  OBVIOUS
<1> HIDE DEF g
<1>8. g = [n \in 0 .. last |-> IF n = 0 THEN value ELSE Shortened(g[n - 1], target)]
  BY <1>6, <1>7, Zenon
<1> QED
  BY <1>8 DEF Rounds, last

\* Whether a path comes first: it is longer, or as long and of smaller numbers.
Precedes(p, q) ==
    \/ Len(p) > Len(q)
    \/ /\ Len(p) = Len(q)
       /\ \E k \in 1 .. Len(p) : p[k] < q[k] /\ \A i \in 1 .. k - 1 : p[i] = q[i]

\* It does not come before itself, nor before what comes before it.
LEMMA PrecedesOrders ==
  /\ \A p \in Seq(Nat) : ~Precedes(p, p)
  /\ \A p, q, r \in Seq(Nat) : Precedes(p, q) /\ Precedes(q, r) => Precedes(p, r)
<1>1. ASSUME NEW p \in Seq(Nat) PROVE ~Precedes(p, p)
  <2>1. Len(p) \in Nat /\ \A k \in 1 .. Len(p) : p[k] \in Nat
    BY <1>1
  <2>2. \A k \in 1 .. Len(p) : ~(p[k] < p[k])
    BY <2>1
  <2> QED
    BY <2>1, <2>2 DEF Precedes
<1>2. ASSUME NEW p \in Seq(Nat), NEW q \in Seq(Nat), NEW r \in Seq(Nat),
             Precedes(p, q), Precedes(q, r)
      PROVE  Precedes(p, r)
  <2>1. /\ Len(p) \in Nat /\ Len(q) \in Nat /\ Len(r) \in Nat
        /\ \A k \in 1 .. Len(p) : p[k] \in Nat
        /\ \A k \in 1 .. Len(q) : q[k] \in Nat
        /\ \A k \in 1 .. Len(r) : r[k] \in Nat
    BY <1>2
  <2>2. Len(p) >= Len(q) /\ Len(q) >= Len(r)
    BY <1>2, <2>1 DEF Precedes
  <2>3. CASE Len(p) > Len(r)
    BY <2>3 DEF Precedes
  <2>4. CASE Len(p) = Len(r)
    <3>1. Len(p) = Len(q) /\ Len(q) = Len(r)
      BY <2>1, <2>2, <2>4
    <3>2. PICK j \in 1 .. Len(p) : p[j] < q[j] /\ \A i \in 1 .. j - 1 : p[i] = q[i]
      BY <1>2, <2>1, <3>1, SMTT(30) DEF Precedes
    <3>3. PICK k \in 1 .. Len(p) : q[k] < r[k] /\ \A i \in 1 .. k - 1 : q[i] = r[i]
      BY <1>2, <2>1, <3>1, SMTT(30) DEF Precedes
    <3>4. CASE j <= k
      <4>1. \A i \in 1 .. j - 1 : i \in 1 .. k - 1
        BY <2>1, <3>4
      <4>2. \A i \in 1 .. j - 1 : p[i] = r[i]
        BY <3>2, <3>3, <4>1
      <4>3. q[j] <= r[j]
        <5>1. CASE j = k
          BY <2>1, <3>1, <3>3, <5>1
        <5>2. CASE j # k
          <6>1. j \in 1 .. k - 1
            BY <2>1, <3>4, <5>2
          <6>2. q[j] = r[j]
            BY <3>3, <6>1
          <6> QED
            BY <2>1, <3>1, <6>2
        <5> QED
          BY <5>1, <5>2
      <4>4. p[j] < r[j]
        <5>1. p[j] \in Nat /\ q[j] \in Nat /\ r[j] \in Nat
          BY <2>1, <3>1
        <5>2. p[j] < q[j]
          BY <3>2
        <5> QED
          BY <4>3, <5>1, <5>2, SMTT(30)
      <4> QED
        BY <2>4, <4>2, <4>4 DEF Precedes
    <3>5. CASE k < j
      <4>1. \A i \in 1 .. k - 1 : i \in 1 .. j - 1
        BY <2>1, <3>5
      <4>2. \A i \in 1 .. k - 1 : p[i] = r[i]
        BY <3>2, <3>3, <4>1
      <4>3. k \in 1 .. j - 1
        BY <2>1, <3>5
      <4>4. p[k] = q[k]
        BY <3>2, <4>3
      <4>5. p[k] < r[k]
        BY <3>3, <4>4
      <4> QED
        BY <2>4, <4>2, <4>5 DEF Precedes
    <3> QED
      BY <2>1, <3>4, <3>5
  <2> QED
    BY <2>1, <2>2, <2>3, <2>4
<1> QED
  BY <1>1, <1>2

\* Among finitely many paths there is one that none comes before.
LEMMA FirstExists ==
  ASSUME NEW T, IsFiniteSet(T), T \subseteq Seq(Nat), T # {}
  PROVE  \E p \in T : \A q \in T : ~Precedes(q, p)
<1> DEFINE Ahead(p) == {q \in T : Precedes(q, p)}
           Counts == {Cardinality(Ahead(p)) : p \in T}
<1>1. \A p \in T : /\ IsFiniteSet(Ahead(p)) /\ Cardinality(Ahead(p)) \in Nat
                   /\ Cardinality(Ahead(p)) <= Cardinality(T)
  <2> TAKE p \in T
  <2>1. Ahead(p) \in SUBSET T
    OBVIOUS
  <2> HIDE DEF Ahead
  <2> QED
    BY <2>1, FS_Subset, FS_CardinalityType
<1>2. Cardinality(T) \in Nat
  BY FS_CardinalityType
<1> HIDE DEF Ahead
<1>3. Counts \in SUBSET (0 .. Cardinality(T)) /\ Counts # {}
  BY <1>1, <1>2
<1>4. Min(Counts) \in Counts /\ \A n \in Counts : Min(Counts) <= n
  BY <1>2, <1>3, MinOf
<1>5. PICK p \in T : \A q \in T : Cardinality(Ahead(p)) <= Cardinality(Ahead(q))
  BY <1>4
<1>6. ASSUME NEW q \in T, Precedes(q, p) PROVE FALSE
  <2>1. Ahead(q) \subseteq Ahead(p)
    BY <1>6, PrecedesOrders DEF Ahead
  <2>2. q \in Ahead(p) /\ q \notin Ahead(q)
    BY <1>6, PrecedesOrders DEF Ahead
  <2>3. Cardinality(Ahead(q)) <= Cardinality(Ahead(p)) /\ Ahead(q) # Ahead(p)
    BY <1>1, <2>1, <2>2, FS_Subset
  <2>4. Cardinality(Ahead(q)) # Cardinality(Ahead(p))
    BY <1>1, <2>1, <2>3, FS_Subset
  <2>5. Cardinality(Ahead(p)) <= Cardinality(Ahead(q))
    BY <1>5
  <2> QED
    BY <1>1, <2>3, <2>4, <2>5
<1> QED
  BY <1>6

\* The first path of all is the deepest, and of those the first.
LEMMA DeepestExists ==
  ASSUME NEW T, IsFiniteSet(T), T \subseteq Seq(Nat), T # {}
  PROVE  \E p \in T : \A q \in T :
            Len(q) < Len(p) \/ (Len(q) = Len(p) /\ ~IsBefore(q, p))
<1>1. PICK p \in T : \A q \in T : ~Precedes(q, p)
  BY FirstExists
<1>2. ASSUME NEW q \in T, ~(Len(q) < Len(p)) PROVE Len(q) = Len(p) /\ ~IsBefore(q, p)
  <2>1. p \in Seq(Nat) /\ q \in Seq(Nat) /\ Len(p) \in Nat /\ Len(q) \in Nat
    OBVIOUS
  <2>2. Len(q) = Len(p)
    BY <1>1, <1>2, <2>1 DEF Precedes
  <2>3. ~IsBelow(p, q)
    <3> SUFFICES ASSUME NEW k \in 0 .. Len(p) - 1, SubSeq(p, 1, k) = q PROVE FALSE
      BY DEF IsBelow
    <3>1. Len(SubSeq(p, 1, k)) = k
      BY <2>1, SubSeqProperties
    <3> QED
      BY <2>1, <2>2, <3>1
  <2>4. ASSUME NEW k \in DOMAIN q \cap DOMAIN p, q[k] < p[k],
               SubSeq(q, 1, k - 1) = SubSeq(p, 1, k - 1)
        PROVE  FALSE
    <3>1. k \in 1 .. Len(q) /\ k \in 1 .. Len(p)
      BY <2>1
    <3>2. ASSUME NEW i \in 1 .. k - 1 PROVE q[i] = p[i]
      <4>1. SubSeq(q, 1, k - 1)[i] = q[i] /\ SubSeq(p, 1, k - 1)[i] = p[i]
        BY <2>1, <3>1, <3>2, SMTT(30)
      <4> QED
        BY <2>4, <4>1
    <3>3. Precedes(q, p)
      BY <2>2, <2>4, <3>1, <3>2 DEF Precedes
    <3> QED
      BY <1>1, <3>3
  <2> QED
    BY <2>2, <2>3, <2>4 DEF IsBefore
<1> QED
  BY <1>1, <1>2

\* A round that changes a value leaves a container less.
LEMMA RoundsShorten ==
  ASSUME NEW v, NEW target, IsFiniteSet(DOMAIN v), DOMAIN v \subseteq Seq(Nat),
         Shortened(v, target) # v
  PROVE  LET w == Shortened(v, target) IN
         /\ DOMAIN w \subseteq DOMAIN v
         /\ \E p \in PathsTo(v, ContainerKinds) :
               PathsTo(w, ContainerKinds) \subseteq PathsTo(v, ContainerKinds) \ {p}
<1> DEFINE text(p) == ContainerText(ValueAt(v, p), target)
           able == Shrinking(v, target)
           p == Deepest(able)
<1>1. able # {} /\ Shortened(v, target) = PutString(v, p, text(p))
  BY DEF Shortened, ContainerReplaced
<1>2. able \subseteq PathsTo(v, ContainerKinds) /\ able \in SUBSET DOMAIN v
  BY DEF PathsTo, Shrinking
<1>3. IsFiniteSet(able) /\ able \subseteq Seq(Nat)
  BY <1>2, FS_Subset
<1> HIDE DEF able
<1>4. \E first \in able : \A q \in able : Len(q) < Len(first) \/ (Len(q) = Len(first) /\ ~IsBefore(q, first))
  BY <1>1, <1>3, DeepestExists
<1>5. p \in able
  BY <1>4, Zenon DEF Deepest
<1> HIDE DEF p
<1>6. p \in PathsTo(v, ContainerKinds)
  BY <1>2, <1>5
<1> HIDE DEF text
<1> DEFINE w == PutString(v, p, text(p))
<1>7. /\ DOMAIN w \subseteq DOMAIN v
      /\ \A q \in DOMAIN w : w[q] = IF q = p THEN StringNode(text(p)) ELSE v[q]
  BY DEF PutString
<1> HIDE DEF w
<1>8. ASSUME NEW q \in PathsTo(w, ContainerKinds)
      PROVE  q \in PathsTo(v, ContainerKinds) \ {p}
  <2>1. q \in DOMAIN w /\ w[q].kind \in ContainerKinds
    BY <1>8 DEF PathsTo
  <2>2. q # p
    BY <1>7, <2>1 DEF StringNode, ContainerKinds
  <2> QED
    BY <1>7, <2>1, <2>2 DEF PathsTo
<1>9. w = Shortened(v, target)
  BY <1>1 DEF w
<1> QED
  BY <1>6, <1>7, <1>8, <1>9

\* As many rounds as a value has nodes are enough: another one changes nothing.
\* This is why the loop of aggressively_truncate_containers ends.
THEOREM RoundsAreEnough ==
  ASSUME NEW value, NEW target, IsFiniteSet(DOMAIN value), DOMAIN value \subseteq Seq(Nat),
         NEW after, Rounds(value, target, after)
  PROVE  LET last == after[Cardinality(DOMAIN value)]
         IN  Shortened(last, target) = last
<1> DEFINE rounds == Cardinality(DOMAIN value)
           Left(v) == PathsTo(v, ContainerKinds)
           Ends(v) == Shortened(v, target) = v
           Shrinks(v, n) == /\ DOMAIN v \subseteq DOMAIN value
                            /\ Ends(v) \/ Cardinality(Left(v)) + n <= rounds
           S == {n \in Nat : n <= rounds => Shrinks(after[n], n)}
<1>0. rounds \in Nat
  BY FS_CardinalityType
<1>1. ASSUME NEW v, DOMAIN v \subseteq DOMAIN value
      PROVE  /\ IsFiniteSet(DOMAIN v) /\ DOMAIN v \subseteq Seq(Nat)
             /\ IsFiniteSet(Left(v)) /\ Cardinality(Left(v)) \in Nat /\ Cardinality(Left(v)) <= rounds
  <2>1. Left(v) \in SUBSET DOMAIN value
    BY <1>1 DEF PathsTo
  <2> HIDE DEF Left
  <2> QED
    BY <1>1, <2>1, FS_Subset, FS_CardinalityType
<1> HIDE DEF rounds
<1>2. 0 \in S
  <2>1. after[0] = value
    BY <1>0 DEF Rounds, rounds
  <2>2. Cardinality(Left(value)) + 0 <= rounds
    BY <1>0, <1>1
  <2> QED
    BY <2>1, <2>2
<1>3. ASSUME NEW n \in Nat, n \in S PROVE n + 1 \in S
  <2> SUFFICES ASSUME n + 1 <= rounds PROVE Shrinks(after[n + 1], n + 1)
    OBVIOUS
  <2> DEFINE v == after[n]
             w == Shortened(v, target)
  <2>1. n + 1 \in 0 .. rounds /\ n + 1 # 0 /\ (n + 1) - 1 = n /\ n <= rounds
    BY <1>0
  <2>2. after[n + 1] = w
    BY <2>1 DEF Rounds, rounds
  <2>3. Shrinks(v, n)
    BY <1>3, <2>1
  <2> HIDE DEF v, w
  <2>4. CASE Ends(v)
    <3>1. w = v
      BY <2>4 DEF w
    <3> QED
      BY <2>2, <2>3, <2>4, <3>1
  <2>5. CASE ~Ends(v)
    <3>1. IsFiniteSet(DOMAIN v) /\ DOMAIN v \subseteq Seq(Nat) /\ w # v
      BY <1>1, <2>3, <2>5 DEF w
    <3>2. /\ DOMAIN w \subseteq DOMAIN v
          /\ \E p \in Left(v) : Left(w) \subseteq Left(v) \ {p}
      BY <3>1, RoundsShorten DEF w
    <3>3. PICK p \in Left(v) : Left(w) \subseteq Left(v) \ {p}
      BY <3>2
    <3> HIDE DEF Left
    <3>4. IsFiniteSet(Left(v)) /\ Cardinality(Left(v)) \in Nat /\ Cardinality(Left(w)) \in Nat
      BY <1>1, <2>3, <3>2
    <3>5. /\ IsFiniteSet(Left(v) \ {p})
          /\ Cardinality(Left(v) \ {p}) = Cardinality(Left(v)) - 1
      BY <3>3, <3>4, FS_RemoveElement
    <3>6. Cardinality(Left(w)) <= Cardinality(Left(v)) - 1
      BY <3>3, <3>5, FS_Subset
    <3>7. Cardinality(Left(v)) + n <= rounds
      BY <2>3, <2>5
    <3>8. Cardinality(Left(w)) + (n + 1) <= rounds
      BY <1>0, <3>4, <3>6, <3>7
    <3> QED
      BY <2>2, <2>3, <3>2, <3>8
  <2> QED
    BY <2>4, <2>5
<1> HIDE DEF S
<1>4. \A n \in Nat : n \in S
  BY <1>2, <1>3, NatSetInduction
<1> DEFINE last == after[rounds]
<1>5. Shrinks(last, rounds)
  <2>1. rounds \in S /\ rounds <= rounds
    BY <1>0, <1>4
  <2> QED
    BY <2>1 DEF S
<1> HIDE DEF last
<1>6. CASE Cardinality(Left(last)) + rounds <= rounds
  <2>1. IsFiniteSet(Left(last)) /\ Cardinality(Left(last)) = 0
    BY <1>0, <1>1, <1>5, <1>6
  <2>2. Left(last) = {}
    BY <2>1, FS_EmptySet
  <2>3. Shortened(last, target) = last
    BY <2>2 DEF Shortened, Shrinking
  <2> QED
    BY <2>3 DEF last, rounds
<1> QED
  BY <1>5, <1>6 DEF last, rounds

\* A container that is shortened fits, or is nothing but a notice in the end.
LEMMA ContainersFit ==
  ASSUME NEW value, NEW target, IsFiniteSet(DOMAIN value), DOMAIN value \subseteq Seq(Nat),
         Root \in DOMAIN value, KindOf(value) \in ContainerKinds
  PROVE  \/ SerializedTokens(TruncateContainers(value, target)) <= target
         \/ Replaced(TruncateContainers(value, target), target)
<1> DEFINE rounds == Cardinality(DOMAIN value)
           after == CHOOSE f : Rounds(value, target, f)
           last == after[rounds]
           S == {n \in Nat : n <= rounds => RoundInv(after[n], target)}
<1>0. rounds \in Nat
  BY FS_CardinalityType
<1>1. Rounds(value, target, after)
  BY <1>0, RoundsExist, Zenon
<1>2. TruncateContainers(value, target) =
         IF SerializedTokens(last) <= target \/ KindOf(last) \notin ContainerKinds THEN last
         ELSE String(ContainerText(last, target))
  BY DEF TruncateContainers, ReplacedAsWhole, Rounds
<1> HIDE DEF after, rounds
<1>3. 0 \in S
  <2>1. 0 \in 0 .. rounds
    BY <1>0
  <2>2. after[0] = value
    BY <1>1, <2>1 DEF Rounds, rounds
  <2> QED
    BY <2>2 DEF RoundInv
<1>4. ASSUME NEW n \in Nat, n \in S PROVE n + 1 \in S
  <2> SUFFICES ASSUME n + 1 <= rounds PROVE RoundInv(after[n + 1], target)
    OBVIOUS
  <2>1. n + 1 \in 0 .. rounds /\ n + 1 # 0 /\ (n + 1) - 1 = n /\ n <= rounds
    BY <1>0
  <2>2. after[n + 1] = Shortened(after[n], target)
    BY <1>1, <2>1 DEF Rounds, rounds
  <2> QED
    BY <1>4, <2>1, <2>2, RoundKeeps
<1> HIDE DEF S
<1>5. \A n \in Nat : n \in S
  BY <1>3, <1>4, NatSetInduction
<1>6. RoundInv(last, target)
  <2>1. rounds <= rounds
    BY <1>0
  <2> QED
    BY <1>0, <1>5, <2>1 DEF S
<1> HIDE DEF last
<1>7. Replaced(String(ContainerText(last, target)), target)
  BY ContainerTextFits DEF Replaced
<1> QED
  BY <1>2, <1>6, <1>7 DEF RoundInv

\* Strings stay where they were, and so do containers.
LEMMA StringsKeepShape ==
  ASSUME NEW value, NEW budget, Root \in DOMAIN value, KindOf(value) \in ContainerKinds
  PROVE  /\ DOMAIN TruncateStrings(value, budget) = DOMAIN value
         /\ KindOf(TruncateStrings(value, budget)) \in ContainerKinds
<1>1. DOMAIN TruncateStrings(value, budget) = DOMAIN value
  BY DEF TruncateStrings
<1>2. value[Root].kind # "string"
  BY DEF KindOf, ContainerKinds
<1>3. TruncateStrings(value, budget)[Root] = value[Root]
  BY <1>2 DEF TruncateStrings
<1> QED
  BY <1>1, <1>3 DEF KindOf

\* What is made of a result in all.
LEMMA CutFits ==
  ASSUME NEW value \in Outputs, NEW tokens \in Nat
  PROVE  LET cut == Truncated(value, tokens)
         IN  \/ cut = value
             \/ SerializedTokens(cut) <= tokens
             \/ Replaced(cut, tokens)
             \/ /\ KindOf(value) = "string"
                /\ \/ TokensOf(cut[Root].text) <= tokens
                   \/ cut[Root].text = Marker(Bytes(value[Root].text), Bytes(value[Root].text))
<1> DEFINE cut == Truncated(value, tokens)
<1>0. /\ IsFiniteSet(DOMAIN value) /\ DOMAIN value \subseteq Seq(Nat) /\ Root \in DOMAIN value
      /\ KindOf(value) \in {"scalar", "string"} \cup ContainerKinds
      /\ KindOf(value) = "string" => value[Root].text \in RunTexts
  BY OutputsAssumption
<1>1. CASE SerializedTokens(value) <= tokens \/ KindOf(value) = "scalar"
  <2>1. cut = value
    BY <1>1 DEF Truncated
  <2> QED
    BY <2>1
<1>2. CASE ~(SerializedTokens(value) <= tokens \/ KindOf(value) = "scalar") /\ KindOf(value) = "string"
  <2>1. cut = String(TruncateText(value[Root].text, tokens))
    BY <1>2 DEF Truncated
  <2>2. cut[Root].text = TruncateText(value[Root].text, tokens)
    BY <2>1 DEF String, StringNode
  <2> HIDE DEF cut
  <2>3. \/ TokensOf(cut[Root].text) <= tokens
        \/ cut[Root].text = Marker(Bytes(value[Root].text), Bytes(value[Root].text))
    BY <1>0, <1>2, <2>2, TextFits
  <2> QED
    BY <1>2, <2>3 DEF cut
<1>3. CASE ~(SerializedTokens(value) <= tokens \/ KindOf(value) = "scalar") /\ KindOf(value) \in ContainerKinds
  <2> DEFINE strings == TruncateStrings(value, tokens)
  <2>1. KindOf(value) # "string"
    BY <1>3 DEF ContainerKinds
  <2>2. cut = IF SerializedTokens(strings) <= tokens THEN strings ELSE TruncateContainers(strings, tokens)
    BY <1>3, <2>1 DEF Truncated
  <2>3. DOMAIN strings = DOMAIN value /\ KindOf(strings) \in ContainerKinds
    BY <1>0, <1>3, StringsKeepShape
  <2> HIDE DEF strings, cut
  <2>4. \/ SerializedTokens(TruncateContainers(strings, tokens)) <= tokens
        \/ Replaced(TruncateContainers(strings, tokens), tokens)
    BY <1>0, <2>3, ContainersFit
  <2>5. SerializedTokens(cut) <= tokens \/ Replaced(cut, tokens)
    BY <2>2, <2>4
  <2> QED
    BY <2>5 DEF cut
<1> QED
  BY <1>0, <1>1, <1>2, <1>3

\* What is stored fits, and was cut from what tools return.
TruncationInv == output \in Outputs /\ limit \in Limits /\ CutResultsFit

\* Every step keeps that.
LEMMA TruncationStep ==
  TruncationInv /\ [TruncationNext]_truncationVars => TruncationInv'
<1> SUFFICES ASSUME TruncationInv, [TruncationNext]_truncationVars PROVE TruncationInv'
  OBVIOUS
<1>1. CASE StoreCut
  <2>1. stored' = Truncated(output, limit) /\ output' = output /\ limit' = limit
    BY <1>1 DEF StoreCut, Stores
  <2>2. output \in Outputs /\ limit \in Nat
    BY LimitsAssumption DEF TruncationInv
  <2>3. \/ stored' = output
        \/ SerializedTokens(stored') <= limit
        \/ Replaced(stored', limit)
        \/ /\ KindOf(output) = "string"
           /\ \/ TokensOf(stored'[Root].text) <= limit
              \/ stored'[Root].text = Marker(Bytes(output[Root].text), Bytes(output[Root].text))
    BY <2>1, <2>2, CutFits
  <2>4. ASSUME Replaced(stored', limit)
        PROVE  \/ SerializedTokens(stored') <= limit
               \/ /\ KindOf(stored') = "string"
                  /\ \A i \in DOMAIN stored'[Root].text : stored'[Root].text[i].kind = "plain"
    BY <2>4 DEF Replaced, Fits, IsNotice, KindOf, String, StringNode
  <2>5. CutResultsFit'
    BY <2>1, <2>3, <2>4 DEF CutResultsFit
  <2> QED
    BY <2>1, <2>5 DEF TruncationInv
<1>2. CASE StoreWhole
  BY <1>2 DEF StoreWhole, Stores, TruncationInv, CutResultsFit
<1>3. CASE UNCHANGED truncationVars
  BY <1>3 DEF truncationVars, TruncationInv, CutResultsFit
<1> QED
  BY <1>1, <1>2, <1>3 DEF TruncationNext

\* Whatever a tool returns, what is stored of it after it was cut fits the limit
\* or is a notice, and only strings by themselves exceed it, by their escapes
\* (truncate_tool_output_value).
THEOREM ResultsAlwaysFit ==
  TruncationSpec => []CutResultsFit
<1>1. TruncationInit => TruncationInv
  BY DEF TruncationInit, TruncationInv, CutResultsFit
<1>2. TruncationInv => CutResultsFit
  BY DEF TruncationInv
<1> QED
  BY <1>1, <1>2, TruncationStep, PTL DEF TruncationSpec
===============================================================================
