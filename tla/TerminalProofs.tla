----------------------------- MODULE TerminalProofs ----------------------------
(***************************************************************************)
(* Proofs about headless terminal jobs.  OutputJournal: whatever the       *)
(* terminal displays, in chunks of whatever size, the journal holds the    *)
(* end of what is not acknowledged and says so if that is not all.         *)
(* LinearOutput: output that is returned as it came is what it changed on  *)
(* the screen.  RenderedDifference: what is reported of two screens is the *)
(* least that is new on the later one.  TerminalInteraction: what the      *)
(* status and the sleep of an interaction say about the output, for all    *)
(* periods and waits.  ShellJobs: no job is forgotten, no input            *)
(* unfinished, no short command unread, however calls fail and workers die.*)
(***************************************************************************)
EXTENDS ShellJobs, OutputJournal, TerminalInteraction, LinearOutput, RenderedDifference, SequenceLemmas

-------------------------------------------------------------------------------
(* The journal of the output. *)

\* Places of the line feeds of a sequence.
Places(s) == {i \in DOMAIN s : s[i] = "lf"}

\* There are finitely many of them.
LEMMA FinitelyManyPlaces ==
    ASSUME NEW s \in Seq(Bytes)
    PROVE  IsFiniteSet(Places(s)) /\ LineFeeds(s) \in Nat
<1>1. Places(s) \subseteq 1 .. Len(s)
    BY LenProperties DEF Places
<1>2. IsFiniteSet(1 .. Len(s))
    BY LenProperties, FS_Interval
<1>3. IsFiniteSet(Places(s))
    BY <1>1, <1>2, FS_Subset
<1>. QED
    BY <1>3, FS_CardinalityType DEF LineFeeds, Places

\* The line feeds of a concatenation are those of its parts.
LEMMA LineFeedsOfConcat ==
    ASSUME NEW s \in Seq(Bytes), NEW t \in Seq(Bytes)
    PROVE  LineFeeds(s \o t) = LineFeeds(s) + LineFeeds(t)
<1>. DEFINE Shifted == {i \in Len(s) + 1 .. Len(s) + Len(t) : t[i - Len(s)] = "lf"}
<1>1. Places(s \o t) = Places(s) \cup Shifted
    BY ConcatProperties, LenProperties DEF Places, Bytes
<1>2. Places(s) \cap Shifted = {}
    BY LenProperties DEF Places
<1>3. IsFiniteSet(Shifted) /\ Cardinality(Shifted) = Cardinality(Places(t))
    <2>. DEFINE shift == [i \in Places(t) |-> i + Len(s)]
    <2>1. shift \in Bijection(Places(t), Shifted)
        <3>1. shift \in [Places(t) -> Shifted]
            BY LenProperties DEF Places
        <3>2. \A i, j \in Places(t) : shift[i] = shift[j] => i = j
            BY LenProperties DEF Places
        <3>3. \A k \in Shifted : k - Len(s) \in Places(t) /\ shift[k - Len(s)] = k
            BY LenProperties DEF Places
        <3>. QED
            BY <3>1, <3>2, <3>3 DEF Bijection, Injection, Surjection, IsInjective
    <2>2. ExistsBijection(Places(t), Shifted)
        BY <2>1 DEF ExistsBijection
    <2>. QED
        BY <2>2, FinitelyManyPlaces, FS_Bijection
<1>4. Cardinality(Places(s) \cup Shifted) = Cardinality(Places(s)) + Cardinality(Shifted)
    <2>1. IsFiniteSet(Places(s)) /\ IsFiniteSet(Shifted)
        BY <1>3, FinitelyManyPlaces
    <2>2. Cardinality(Places(s) \cup Shifted)
              = Cardinality(Places(s)) + Cardinality(Shifted) - Cardinality(Places(s) \cap Shifted)
        BY <2>1, FS_Union
    <2>3. Cardinality(Places(s)) \in Nat /\ Cardinality(Shifted) \in Nat
        BY <2>1, FS_CardinalityType
    <2>. HIDE DEF Shifted
    <2>4. Cardinality(Places(s) \cap Shifted) = 0
        BY <1>2, FS_EmptySet
    <2>. QED
        BY <2>2, <2>3, <2>4
<1>. QED
    BY <1>1, <1>3, <1>4 DEF LineFeeds, Places

\* One byte counts for one if it is a line feed.
LEMMA LineFeedsOfOne ==
    ASSUME NEW b \in Bytes
    PROVE  LineFeeds(<<b>>) = IF b = "lf" THEN 1 ELSE 0
<1>1. Places(<<b>>) = IF b = "lf" THEN {1} ELSE {}
    BY DEF Places
<1>. QED
    BY <1>1, FS_Singleton, FS_EmptySet DEF LineFeeds, Places

\* Dropping the first byte.
LEMMA LineFeedsOfTail ==
    ASSUME NEW s \in Seq(Bytes), s # <<>>
    PROVE  /\ Tail(s) \in Seq(Bytes)
           /\ LineFeeds(Tail(s)) = IF Head(s) = "lf" THEN LineFeeds(s) - 1 ELSE LineFeeds(s)
           /\ Head(s) = "lf" => LineFeeds(s) > 0
<1>. DEFINE head == <<Head(s)>>
            tail == Tail(s)
<1>1. Head(s) \in Bytes /\ tail \in Seq(Bytes)
    BY HeadTailProperties
<1>2. head \in Seq(Bytes) /\ LineFeeds(head) = IF Head(s) = "lf" THEN 1 ELSE 0
    BY <1>1, LineFeedsOfOne
<1>3. s = head \o tail
    BY HeadTailProperties, <1>1, ConcatProperties, SeqEqual, LenProperties, EmptySeq
<1>. HIDE DEF head, tail
<1>4. LineFeeds(head \o tail) = LineFeeds(head) + LineFeeds(tail)
    BY <1>1, <1>2, LineFeedsOfConcat
<1>5. LineFeeds(s) = LineFeeds(head) + LineFeeds(tail)
    BY <1>3, <1>4, Zenon
<1>6. LineFeeds(tail) \in Nat
    BY <1>1, FinitelyManyPlaces
<1>7. /\ tail \in Seq(Bytes)
      /\ LineFeeds(tail) = IF Head(s) = "lf" THEN LineFeeds(s) - 1 ELSE LineFeeds(s)
      /\ Head(s) = "lf" => LineFeeds(s) > 0
    BY <1>1, <1>2, <1>5, <1>6
<1>. QED
    BY <1>7 DEF tail

\* The end of a concatenation that begins in its first part.
LEMMA EndOfConcat ==
    ASSUME NEW s \in Seq(Bytes), NEW t \in Seq(Bytes), NEW m \in 1 .. Len(s) + 1
    PROVE  SubSeq(s \o t, m, Len(s) + Len(t)) = SubSeq(s, m, Len(s)) \o t
<1>. DEFINE w == s \o t
            u == SubSeq(w, m, Len(s) + Len(t))
            v == SubSeq(s, m, Len(s))
<1>1. Len(s) \in Nat /\ Len(t) \in Nat
    BY LenProperties
<1>2. /\ w \in Seq(Bytes)
      /\ Len(w) = Len(s) + Len(t)
      /\ \A i \in 1 .. Len(s) + Len(t) : w[i] = IF i <= Len(s) THEN s[i] ELSE t[i - Len(s)]
    BY ConcatProperties
<1>3. /\ v \in Seq(Bytes)
      /\ Len(v) = Len(s) - m + 1
      /\ \A i \in 1 .. Len(s) - m + 1 : v[i] = s[m + i - 1]
    BY <1>1, SubSeqProperties, ElementOfSeq
<1>. HIDE DEF w
<1>4. /\ u \in Seq(Bytes)
      /\ Len(u) = Len(s) + Len(t) - m + 1
      /\ \A i \in 1 .. Len(s) + Len(t) - m + 1 : u[i] = w[m + i - 1]
    <2>1. \A i \in m .. Len(s) + Len(t) : w[i] \in Bytes
        BY <1>1, <1>2, ElementOfSeq
    <2>2. Len(s) + Len(t) \in Int /\ m \in Int /\ m <= Len(s) + Len(t) + 1
        BY <1>1
    <2>. QED
        BY <1>1, <2>1, <2>2, SubSeqProperties
<1>. DEFINE x == v \o t
<1>. HIDE DEF u, v
<1>5. /\ x \in Seq(Bytes)
      /\ Len(x) = Len(v) + Len(t)
      /\ \A i \in 1 .. Len(v) + Len(t) : x[i] = IF i <= Len(v) THEN v[i] ELSE t[i - Len(v)]
    BY <1>3, ConcatProperties
<1>. HIDE DEF x
<1>6. Len(u) = Len(x)
    BY <1>1, <1>3, <1>4, <1>5
<1>7. ASSUME NEW i \in 1 .. Len(u)
      PROVE  u[i] = x[i]
    <2>1. i \in Nat /\ 1 <= i /\ i <= Len(s) + Len(t) - m + 1 /\ i <= Len(v) + Len(t)
        BY <1>1, <1>3, <1>4
    <2>2. u[i] = w[m + i - 1]
        BY <1>1, <1>4, <2>1
    <2>3. m + i - 1 \in 1 .. Len(s) + Len(t)
        BY <1>1, <2>1
    <2>4. w[m + i - 1] = IF m + i - 1 <= Len(s) THEN s[m + i - 1] ELSE t[(m + i - 1) - Len(s)]
        BY <1>2, <2>3, Zenon
    <2>5. CASE i <= Len(v)
        <3>1. x[i] = v[i] /\ v[i] = s[m + i - 1]
            BY <1>1, <1>3, <1>5, <2>1, <2>5
        <3>2. w[m + i - 1] = s[m + i - 1]
            BY <1>1, <1>3, <2>1, <2>5, <2>4
        <3>. QED
            BY <2>2, <3>1, <3>2
    <2>6. CASE i > Len(v)
        <3>1. x[i] = t[i - Len(v)]
            BY <1>1, <1>3, <1>5, <2>1, <2>6
        <3>2. w[m + i - 1] = t[(m + i - 1) - Len(s)]
            BY <1>1, <1>3, <2>1, <2>6, <2>4
        <3>3. (m + i - 1) - Len(s) = i - Len(v)
            BY <1>1, <1>3, <2>1, SMTT(30)
        <3>. QED
            BY <2>2, <3>1, <3>2, <3>3
    <2>. QED
        BY <1>1, <1>3, <2>1, <2>5, <2>6
<1>8. u = x
    BY <1>4, <1>5, <1>6, <1>7, SeqEqual, Zenon
<1>. QED
    BY <1>8 DEF u, v, w, x

-------------------------------------------------------------------------------

(* The inductive invariant. *)

\* The journal holds the end of the stream, from its start offset on, and has lost
\* output if that is not the checkpoint.
JournalInv ==
    /\ endOffset = Len(stream)
    /\ startOffset + Len(bytes) = Len(stream)
    /\ bytes = Between(startOffset, Len(stream))
    /\ lineCount = LineFeeds(bytes)
    /\ checkpoint <= startOffset
    /\ truncated <=> startOffset > checkpoint

\* What was lost would not have fitted.
LimitsInv ==
    /\ pc # "trimming" => Fits(bytes)
    /\ startOffset > checkpoint => ~Fits(Between(startOffset - 1, Len(stream)))

\* What was observed, and selected, is all there is.
DeliveryInv ==
    /\ pc \in {"observed", "selected"} => observation = Observation(endOffset, truncated)
    /\ pc = "selected" => response = Pending(bytes, truncated, endOffset)

IInv == TypeOK /\ JournalInv /\ LimitsInv /\ DeliveryInv

LEMMA InitInv == Init => IInv
<1>. SUFFICES ASSUME Init PROVE IInv
    OBVIOUS
<1>1. <<>> \in Seq(Bytes) /\ Len(<<>>) = 0
    BY EmptySeq
<1>2. LineFeeds(<<>>) = 0
    BY <1>1, FS_EmptySet DEF LineFeeds
<1>3. Between(0, 0) = <<>>
    BY <1>1, SubSeqEmpty DEF Between, Init
<1>4. TypeOK
    BY <1>1 DEF Init, TypeOK, Observation, Pending, NothingPending
<1>5. JournalInv /\ LimitsInv /\ DeliveryInv
    BY <1>1, <1>2, <1>3, LimitsAssumption
       DEF Init, JournalInv, LimitsInv, DeliveryInv, Fits
<1>. QED
    BY <1>4, <1>5 DEF IInv

\* A chunk is appended: what is kept and what was lost both grow by it.
LEMMA AppendChunkInv ==
    ASSUME IInv, NEW chunk \in Chunks, AppendChunk(chunk)
    PROVE  IInv'
<1>. USE DEF IInv
<1>1. /\ stream \in Seq(Bytes) /\ bytes \in Seq(Bytes) /\ chunk \in Seq(Bytes)
      /\ Len(stream) \in Nat /\ Len(bytes) \in Nat /\ Len(chunk) \in Nat
      /\ startOffset \in Nat /\ endOffset \in Nat /\ checkpoint \in Nat
    BY ChunksAssumption, LenProperties DEF TypeOK
<1>2. /\ stream' = stream \o chunk /\ stream' \in Seq(Bytes)
      /\ Len(stream') = Len(stream) + Len(chunk)
      /\ bytes' = bytes \o chunk /\ bytes' \in Seq(Bytes)
      /\ Len(bytes') = Len(bytes) + Len(chunk)
    BY <1>1, ConcatProperties DEF AppendChunk
<1>3. LineFeeds(chunk) \in Nat /\ LineFeeds(bytes \o chunk) = LineFeeds(bytes) + LineFeeds(chunk)
    BY <1>1, FinitelyManyPlaces, LineFeedsOfConcat
<1>4. \A from \in 0 .. Len(stream) :
          SubSeq(stream', from + 1, Len(stream')) = Between(from, Len(stream)) \o chunk
    <2>. TAKE from \in 0 .. Len(stream)
    <2>1. from + 1 \in 1 .. Len(stream) + 1
        BY <1>1
    <2>. QED
        BY <1>1, <1>2, <2>1, EndOfConcat, ZenonT(40) DEF Between
<1>5. TypeOK'
    BY <1>1, <1>2, <1>3 DEF AppendChunk, TypeOK
<1>6. JournalInv'
    <2>1. startOffset \in 0 .. Len(stream)
        BY <1>1 DEF JournalInv
    <2>2. bytes' = SubSeq(stream', startOffset + 1, Len(stream'))
        BY <1>2, <1>4, <2>1 DEF JournalInv
    <2>3. /\ startOffset' = startOffset /\ checkpoint' = checkpoint /\ truncated' = truncated
          /\ endOffset' = endOffset + Len(chunk) /\ lineCount' = lineCount + LineFeeds(chunk)
        BY DEF AppendChunk
    <2>4. endOffset' = Len(stream') /\ startOffset' + Len(bytes') = Len(stream')
        <3>1. endOffset = Len(stream) /\ startOffset + Len(bytes) = Len(stream)
            BY DEF JournalInv
        <3>2. /\ Len(stream') = Len(stream) + Len(chunk) /\ Len(bytes') = Len(bytes) + Len(chunk)
              /\ startOffset' = startOffset /\ endOffset' = endOffset + Len(chunk)
            BY <1>2, <2>3, Zenon
        <3>3. Len(stream) \in Nat /\ Len(bytes) \in Nat /\ Len(chunk) \in Nat /\ startOffset \in Nat
            BY <1>1
        <3>4. startOffset + (Len(bytes) + Len(chunk)) = Len(stream) + Len(chunk)
            BY <3>1, <3>3
        <3>. QED
            BY <3>1, <3>2, <3>4, Zenon
    <2>5. lineCount' = LineFeeds(bytes')
        <3>1. lineCount = LineFeeds(bytes) /\ bytes' = bytes \o chunk
            BY <1>2 DEF JournalInv
        <3>. QED
            BY <1>3, <2>3, <3>1, Zenon
    <2>. QED
        BY <2>2, <2>3, <2>4, <2>5 DEF JournalInv, Between
<1>7. LimitsInv'
    <2>1. ASSUME startOffset > checkpoint
          PROVE  ~Fits(SubSeq(stream', startOffset - 1 + 1, Len(stream')))
        <3>. DEFINE gone == Between(startOffset - 1, Len(stream))
        <3>1. startOffset - 1 \in 0 .. Len(stream)
            BY <1>1, <2>1 DEF JournalInv
        <3>2. gone \in Seq(Bytes) /\ Len(gone) \in Nat
            <4>1. \A i \in startOffset .. Len(stream) : stream[i] \in Bytes
                BY <1>1, <2>1, ElementOfSeq
            <4>. QED
                BY <1>1, <3>1, <4>1, SubSeqProperties, LenProperties DEF Between
        <3>3. ~Fits(gone)
            BY <2>1 DEF LimitsInv
        <3>. HIDE DEF gone
        <3>4. /\ LineFeeds(gone) \in Nat
              /\ LineFeeds(gone \o chunk) = LineFeeds(gone) + LineFeeds(chunk)
              /\ Len(gone \o chunk) = Len(gone) + Len(chunk)
            BY <1>1, <3>2, FinitelyManyPlaces, LineFeedsOfConcat, ConcatProperties
        <3>5. ~Fits(gone \o chunk)
            BY <1>1, <1>3, <3>2, <3>3, <3>4, LimitsAssumption DEF Fits
        <3>6. SubSeq(stream', startOffset - 1 + 1, Len(stream')) = gone \o chunk
            BY <1>4, <3>1 DEF gone
        <3>. QED
            BY <3>5, <3>6
    <2>. QED
        BY <2>1 DEF AppendChunk, LimitsInv, Between
<1>8. DeliveryInv'
    BY DEF AppendChunk, DeliveryInv
<1>. QED
    BY <1>5, <1>6, <1>7, <1>8

\* A byte is gone because it did not fit.
LEMMA TrimFrontInv ==
    ASSUME IInv, TrimFront
    PROVE  IInv'
<1>. USE DEF IInv
<1>1. /\ stream \in Seq(Bytes) /\ bytes \in Seq(Bytes) /\ bytes # <<>>
      /\ Len(stream) \in Nat /\ Len(bytes) \in Nat \ {0}
      /\ startOffset \in Nat /\ endOffset \in Nat /\ checkpoint \in Nat
    BY LenProperties, EmptySeq DEF TypeOK, TrimFront
<1>2. /\ bytes' = Tail(bytes) /\ bytes' \in Seq(Bytes) /\ Len(bytes') = Len(bytes) - 1
      /\ LineFeeds(bytes') = IF Head(bytes) = "lf" THEN LineFeeds(bytes) - 1 ELSE LineFeeds(bytes)
      /\ Head(bytes) = "lf" => LineFeeds(bytes) > 0
      /\ LineFeeds(bytes) \in Nat /\ LineFeeds(bytes') \in Nat
    <2>1. bytes' = Tail(bytes)
        BY DEF TrimFront
    <2>2. Tail(bytes) \in Seq(Bytes) /\ Len(Tail(bytes)) = Len(bytes) - 1
        BY <1>1, HeadTailProperties
    <2>. QED
        BY <1>1, <2>1, <2>2, LineFeedsOfTail, FinitelyManyPlaces
<1>3. lineCount' = LineFeeds(bytes')
    BY <1>2 DEF TrimFront, JournalInv, Minus
<1>4. startOffset' = startOffset + 1 /\ stream' = stream /\ checkpoint' = checkpoint
    BY DEF TrimFront
<1>5. bytes' = SubSeq(stream, startOffset + 1 + 1, Len(stream))
    <2>1. startOffset + 1 \in 1 .. Len(stream) /\ Len(stream) \in startOffset + 1 .. Len(stream)
        BY <1>1 DEF JournalInv
    <2>. QED
        BY <1>1, <1>2, <2>1, HeadTailOfSubSeq DEF JournalInv, Between
<1>6. ~Fits(bytes)
    <2>1. Len(bytes) \in Nat /\ lineCount \in Nat /\ lineCount = LineFeeds(bytes) /\ TooMuch
        BY <1>1 DEF TrimFront, TypeOK, JournalInv
    <2>. QED
        BY <2>1, LimitsAssumption DEF TooMuch, Fits
<1>7. TypeOK'
    BY <1>1, <1>2, <1>3 DEF TrimFront, TypeOK
<1>8. JournalInv'
    <2>1. /\ endOffset' = Len(stream) /\ truncated' = TRUE
          /\ startOffset + Len(bytes) = Len(stream) /\ checkpoint <= startOffset
        BY DEF TrimFront, JournalInv
    <2>2. bytes' = Between(startOffset, Len(stream))'
        BY <1>4, <1>5 DEF Between
    <2>3. startOffset' > checkpoint'
        BY <1>1, <1>4, <2>1
    <2>4. startOffset' + Len(bytes') = Len(stream')
        BY <1>1, <1>2, <1>4, <2>1
    <2>. QED
        BY <1>1, <1>3, <1>4, <2>1, <2>2, <2>3, <2>4 DEF JournalInv
<1>9. LimitsInv'
    <2>1. startOffset' - 1 = startOffset
        BY <1>1, <1>4
    <2>2. ~Fits(Between(startOffset, Len(stream)))
        BY <1>6 DEF JournalInv
    <2>. QED
        BY <1>4, <2>1, <2>2 DEF TrimFront, LimitsInv, Between
<1>10. DeliveryInv'
    BY DEF TrimFront, DeliveryInv
<1>. QED
    BY <1>7, <1>8, <1>9, <1>10

\* What fits is kept.
LEMMA TrimmedInv ==
    ASSUME IInv, Trimmed
    PROVE  IInv'
<1>. USE DEF IInv
<1>1. TypeOK' /\ JournalInv' /\ DeliveryInv'
    BY DEF Trimmed, journal, TypeOK, JournalInv, DeliveryInv, Between
<1>2. Fits(bytes)
    <2>1. CASE ~TooMuch
        <3>1. Len(bytes) \in Nat /\ lineCount \in Nat /\ lineCount = LineFeeds(bytes)
            BY LenProperties DEF TypeOK, JournalInv
        <3>. QED
            BY <2>1, <3>1, LimitsAssumption DEF TooMuch, Fits
    <2>2. CASE bytes = <<>>
        BY <2>2, EmptySeq, FS_EmptySet, LimitsAssumption DEF Fits, LineFeeds
    <2>. QED
        BY <2>1, <2>2 DEF Trimmed
<1>3. LimitsInv'
    BY <1>2 DEF Trimmed, journal, LimitsInv, Between
<1>. QED
    BY <1>1, <1>3

\* What is observed and selected is all there is.
LEMMA SelectInv ==
    ASSUME IInv, Select
    PROVE  IInv'
<1>. USE DEF IInv
<1>1. /\ bytes \in Seq(Bytes) /\ Len(bytes) \in Nat
      /\ startOffset \in Nat /\ endOffset \in Nat /\ truncated \in BOOLEAN
    BY LenProperties DEF TypeOK
<1>2. observation = Observation(endOffset, truncated)
    BY DEF Select, DeliveryInv
<1>3. LesserOf(Minus(observation.end, startOffset), Len(bytes)) = Len(bytes)
    BY <1>1, <1>2 DEF Observation, JournalInv, LesserOf, Minus
<1>4. Stream(observation) = bytes
    BY <1>1, <1>3, SubSeqFull DEF Stream
<1>5. response' = Pending(bytes, truncated, endOffset)
    BY <1>2, <1>4 DEF Select, Observation
<1>6. TypeOK'
    BY <1>1, <1>5 DEF Select, journal, TypeOK, Pending
<1>7. JournalInv' /\ LimitsInv' /\ DeliveryInv'
    BY <1>2, <1>5 DEF Select, journal, JournalInv, LimitsInv, DeliveryInv, Between
<1>. QED
    BY <1>6, <1>7

\* Nothing is left that was acknowledged.
LEMMA AcknowledgeInv ==
    ASSUME IInv, Acknowledge
    PROVE  IInv'
<1>. USE DEF IInv
<1>1. /\ stream \in Seq(Bytes) /\ Len(stream) \in Nat
      /\ bytes \in Seq(Bytes) /\ Len(bytes) \in Nat
      /\ startOffset \in Nat /\ endOffset \in Nat /\ truncated \in BOOLEAN
    BY LenProperties DEF TypeOK
<1>2. response.upto = endOffset
    BY DEF Acknowledge, DeliveryInv, Pending
<1>3. LesserOf(Minus(response.upto, startOffset), Len(bytes)) = Len(bytes)
    BY <1>1, <1>2 DEF JournalInv, LesserOf, Minus
<1>4. SubSeq(bytes, Len(bytes) + 1, Len(bytes)) = <<>>
    BY <1>1, SubSeqEmpty
<1>5. bytes' = <<>> /\ startOffset' = endOffset /\ lineCount' = LineFeeds(<<>>)
    BY <1>1, <1>3, <1>4 DEF Acknowledge, JournalInv
<1>6. LineFeeds(<<>>) = 0 /\ Len(<<>>) = 0 /\ <<>> \in Seq(Bytes)
    BY EmptySeq, FS_EmptySet DEF LineFeeds
<1>7. SubSeq(stream, endOffset + 1, Len(stream)) = <<>>
    BY <1>1, SubSeqEmpty DEF JournalInv
<1>8. /\ stream' = stream /\ endOffset' = endOffset /\ pc' = "observed"
      /\ truncated' = FALSE /\ checkpoint' = endOffset
      /\ observation' = Observation(endOffset, FALSE) /\ response' = NothingPending
    BY <1>2 DEF Acknowledge
<1>9. Len(bytes') = 0 /\ LineFeeds(bytes') = 0 /\ lineCount' = 0
    BY <1>5, <1>6
<1>10. TypeOK'
    <2>1. NothingPending \in [text : Seq(Bytes), truncated : BOOLEAN, upto : Nat]
        BY <1>6 DEF Pending, NothingPending
    <2>2. Observation(endOffset, FALSE) \in [end : Nat, truncated : BOOLEAN]
        BY <1>1 DEF Observation
    <2>3. truncated' \in BOOLEAN
        BY <1>8
    <2>4. /\ stream' \in Seq(Bytes) /\ bytes' \in Seq(Bytes) /\ lineCount' \in Nat
          /\ startOffset' \in Nat /\ endOffset' \in Nat /\ checkpoint' \in Nat
        BY <1>1, <1>5, <1>6, <1>8, <1>9
    <2>5. /\ observation' \in [end : Nat, truncated : BOOLEAN]
          /\ response' \in [text : Seq(Bytes), truncated : BOOLEAN, upto : Nat]
        BY <1>8, <2>1, <2>2, Zenon
    <2>. QED
        BY <1>8, <2>3, <2>4, <2>5, Zenon DEF TypeOK
<1>11. JournalInv'
    BY <1>1, <1>5, <1>7, <1>8, <1>9 DEF JournalInv, Between
<1>12. LimitsInv'
    BY <1>1, <1>5, <1>8, <1>9, LimitsAssumption DEF LimitsInv, Fits
<1>13. DeliveryInv'
    BY <1>8 DEF DeliveryInv
<1>. QED
    BY <1>10, <1>11, <1>12, <1>13

LEMMA NextInv == IInv /\ [Next]_vars => IInv'
<1>. SUFFICES ASSUME IInv, [Next]_vars PROVE IInv'
    OBVIOUS
<1>1. CASE \E chunk \in Chunks : AppendChunk(chunk)
    BY <1>1, AppendChunkInv
<1>2. CASE TrimFront
    BY <1>2, TrimFrontInv
<1>3. CASE Trimmed
    BY <1>3, TrimmedInv
<1>4. CASE Observe
    BY <1>4 DEF Observe, journal, IInv, TypeOK, JournalInv, LimitsInv, DeliveryInv, Between, Observation
<1>5. CASE CaptureAgain
    BY <1>5 DEF CaptureAgain, journal, IInv, TypeOK, JournalInv, LimitsInv, DeliveryInv, Between
<1>6. CASE Select
    BY <1>6, SelectInv
<1>7. CASE Acknowledge
    BY <1>7, AcknowledgeInv
<1>8. CASE Undelivered
    BY <1>8, EmptySeq DEF Undelivered, journal, IInv, TypeOK, JournalInv, LimitsInv, DeliveryInv,
       Between, Pending, NothingPending
<1>9. CASE UNCHANGED vars
    BY <1>9 DEF vars, journal, IInv, TypeOK, JournalInv, LimitsInv, DeliveryInv, Between
<1>. QED
    BY <1>1, <1>2, <1>3, <1>4, <1>5, <1>6, <1>7, <1>8, <1>9 DEF Next

LEMMA SpecInv == Spec => []IInv
    BY InitInv, NextInv, PTL DEF Spec

-------------------------------------------------------------------------------

(* Types, for output of any length in chunks of any size. *)
THEOREM JournalIsTyped == Spec => []TypeOK
<1>1. IInv => TypeOK
    BY DEF IInv
<1>. QED
    BY <1>1, SpecInv, PTL

(* A response misses output since the checkpoint just if it is flagged as
   truncated, and never from its middle or its end. *)
THEOREM LossIsAlwaysReported == Spec => []LossIsReported
<1>1. IInv => LossIsReported
    <2>. SUFFICES ASSUME IInv, pc = "selected" PROVE LossIsReported
        BY DEF LossIsReported
    <2>1. /\ Len(stream) \in Nat /\ Len(bytes) \in Nat
          /\ startOffset \in Nat /\ checkpoint \in Nat
        BY LenProperties DEF IInv, TypeOK
    <2>2. response = Pending(bytes, truncated, Len(stream))
        BY DEF IInv, DeliveryInv, JournalInv
    <2>3. Len(stream) - Len(bytes) = startOffset
        BY <2>1 DEF IInv, JournalInv
    <2>. QED
        BY <2>1, <2>2, <2>3 DEF LossIsReported, Pending, IInv, JournalInv
<1>. QED
    BY <1>1, SpecInv, PTL

(* Output is lost only when it does not fit. *)
THEOREM JournalKeepsWhatFits == Spec => []KeepsWhatFits
<1>1. IInv => KeepsWhatFits
    BY DEF IInv, LimitsInv, KeepsWhatFits
<1>. QED
    BY <1>1, SpecInv, PTL


-------------------------------------------------------------------------------
(* Output as it came: while a response does not edit the screen, its last part *)
(* ends in the row of the cursor, and while no carriage return is pending, all *)
(* it printed lies before the cursor, wherever the cursor was at its start.    *)

Marks == Characters \cup {LineFeedMark, TabMark}

LinearTyped ==
    /\ text \in Seq(Marks) /\ takenAt \in Seq(Nat \X Nat) /\ Len(takenAt) = Len(text)
    /\ screen_oriented \in BOOLEAN /\ pending_carriage_return \in BOOLEAN
    /\ row \in Nat /\ column \in Nat

\* The row in which a part of the text leaves the cursor.
RowAfter(i) == takenAt[i][1] + (IF text[i] = LineFeedMark THEN 1 ELSE 0)

RowsFollow ==
    ~screen_oriented =>
        \A i \in 1 .. Len(text) :
            RowAfter(i) = IF i = Len(text) THEN row ELSE takenAt[i + 1][1]

PrintedBehind ==
    ~screen_oriented =>
        /\ ReadInOrder
        /\ \A i \in Printed : takenAt[i][1] <= row
        /\ ~pending_carriage_return => \A i \in Printed : ReadsOn(takenAt[i], Cursor)

CellsAreWritten == ~screen_oriented => StandsWhereItCame /\ RestIsAsBefore

LinearInv == LinearTyped /\ RowsFollow /\ PrintedBehind /\ CellsAreWritten

\* A response that has no text yet.
LEMMA NoTextYet ==
    ASSUME text = <<>>, takenAt = <<>>, beneath = cells,
           screen_oriented = FALSE, pending_carriage_return = FALSE,
           row \in Nat, column \in Nat
    PROVE  LinearInv
<1>1. Len(text) = 0 /\ Printed = {}
  BY DEF Printed
<1>2. LinearTyped
  BY EmptySeq DEF LinearTyped
<1>3. RowsFollow
  BY <1>1 DEF RowsFollow
<1>4. PrintedBehind
  BY <1>1 DEF PrintedBehind, ReadInOrder
<1>5. CellsAreWritten
  BY <1>1 DEF CellsAreWritten, StandsWhereItCame, RestIsAsBefore
<1> QED
  BY <1>2, <1>3, <1>4, <1>5 DEF LinearInv

\* A part of the text is added where the cursor is.
LEMMA PartTaken ==
    ASSUME LinearTyped, NEW mark \in Marks, Take(mark)
    PROVE  /\ text' \in Seq(Marks) /\ takenAt' \in Seq(Nat \X Nat)
           /\ Len(text') = Len(text) + 1 /\ Len(takenAt') = Len(text')
           /\ \A i \in 1 .. Len(text) : text'[i] = text[i] /\ takenAt'[i] = takenAt[i]
           /\ text'[Len(text')] = mark /\ takenAt'[Len(text')] = Cursor
           /\ Printed' = Printed \cup (IF mark \in Characters THEN {Len(text')} ELSE {})
           /\ Printed \subseteq 1 .. Len(text)
           /\ beneath' = beneath
<1>1. text' = Append(text, mark) /\ takenAt' = Append(takenAt, Cursor) /\ beneath' = beneath
  BY DEF Take
<1>2. Cursor \in Nat \X Nat
  BY DEF Cursor, LinearTyped
<1>3. /\ text' \in Seq(Marks) /\ takenAt' \in Seq(Nat \X Nat)
      /\ Len(text') = Len(text) + 1 /\ Len(takenAt') = Len(text')
      /\ \A i \in 1 .. Len(text) : text'[i] = text[i]
      /\ text'[Len(text')] = mark
  BY <1>1, <1>2, AppendProperties DEF LinearTyped
<1>4. /\ \A i \in 1 .. Len(text) : takenAt'[i] = takenAt[i]
      /\ takenAt'[Len(text')] = Cursor
  BY <1>1, <1>2, <1>3, AppendProperties DEF LinearTyped
<1>5. DOMAIN text = 1 .. Len(text) /\ DOMAIN text' = 1 .. Len(text) + 1
  BY <1>3, LenProperties DEF LinearTyped
<1>6. Len(text) \in Nat
  BY LenProperties DEF LinearTyped
<1>7. Printed' = Printed \cup (IF mark \in Characters THEN {Len(text')} ELSE {})
  BY <1>3, <1>5, <1>6 DEF Printed
<1> QED
  BY <1>1, <1>3, <1>4, <1>5, <1>7 DEF Printed

\* Whatever is added, rows and lines keep together if it takes the cursor to
\* the row it should.
LEMMA RowsStillFollow ==
    ASSUME LinearTyped, RowsFollow, NEW mark \in Marks, Take(mark),
           ~screen_oriented' => ~screen_oriented,
           row' = row + (IF mark = LineFeedMark THEN 1 ELSE 0)
    PROVE  RowsFollow'
<1> DEFINE n == Len(text)
<1> SUFFICES ASSUME ~screen_oriented', NEW i \in 1 .. Len(text')
             PROVE  RowAfter(i)' = IF i = Len(text') THEN row' ELSE takenAt'[i + 1][1]
  BY DEF RowsFollow
<1>1. /\ n \in Nat /\ Len(text') = n + 1
      /\ \A j \in 1 .. n : text'[j] = text[j] /\ takenAt'[j] = takenAt[j]
      /\ text'[n + 1] = mark /\ takenAt'[n + 1] = Cursor
  BY PartTaken, LenProperties DEF LinearTyped
<1>2. \A j \in 1 .. n : RowAfter(j) = IF j = n THEN row ELSE takenAt[j + 1][1]
  BY DEF RowsFollow, LinearTyped
<1>3. Cursor[1] = row /\ row \in Nat
  BY DEF Cursor, LinearTyped
<1> HIDE DEF n
<1>4. CASE i = n + 1
  BY <1>1, <1>3, <1>4 DEF RowAfter
<1>5. CASE i = n
  <2>1. RowAfter(i)' = RowAfter(i) /\ RowAfter(i) = row
    BY <1>1, <1>2, <1>5 DEF RowAfter
  <2>2. i # Len(text') /\ takenAt'[i + 1][1] = row
    BY <1>1, <1>3, <1>5
  <2> QED
    BY <2>1, <2>2
<1>6. CASE i # n /\ i # n + 1
  <2>1. i \in 1 .. n /\ i + 1 \in 1 .. n /\ i # Len(text')
    BY <1>1, <1>6
  <2>2. RowAfter(i)' = RowAfter(i) /\ takenAt'[i + 1] = takenAt[i + 1]
    BY <1>1, <2>1 DEF RowAfter
  <2> QED
    BY <1>2, <1>6, <2>1, <2>2
<1> QED
  BY <1>4, <1>5, <1>6

\* What prints nothing leaves the cells of the response as they are.
LEMMA NothingPrinted ==
    ASSUME LinearTyped, CellsAreWritten, NEW mark \in Marks \ Characters, Take(mark),
           ~screen_oriented' => ~screen_oriented, cells' = cells
    PROVE  CellsAreWritten'
<1>1. /\ Printed' = Printed /\ beneath' = beneath
      /\ \A i \in Printed : text'[i] = text[i] /\ takenAt'[i] = takenAt[i]
  BY PartTaken
<1>2. {takenAt'[i] : i \in Printed'} = {takenAt[i] : i \in Printed}
  BY <1>1
<1>3. StandsWhereItCame => StandsWhereItCame'
  BY <1>1 DEF StandsWhereItCame
<1>4. RestIsAsBefore => RestIsAsBefore'
  BY <1>1, <1>2 DEF RestIsAsBefore
<1> QED
  BY <1>3, <1>4 DEF CellsAreWritten

\* What was read on to one place is read on to a later one.
LEMMA ReadsFarther ==
    ASSUME NEW p \in Nat \X Nat, NEW q \in Nat \X Nat, NEW r \in Nat \X Nat,
           ReadsOn(p, q), ReadsOn(q, r)
    PROVE  ReadsOn(p, r)
BY DEF ReadsOn

\* The next tab stop is ahead.
LEMMA PastTabStop ==
    ASSUME NEW c \in Nat, NEW stop \in Nat, stop > 0
    PROVE  (c \div stop + 1) * stop \in Nat /\ c < (c \div stop + 1) * stop
<1> DEFINE q == c \div stop
<1>1. q \in Nat /\ c = stop * q + (c % stop) /\ c % stop < stop /\ c % stop \in Nat
  BY SMTT(30)
<1> HIDE DEF q
<1>2. (q + 1) * stop = stop * q + stop /\ stop * q \in Nat
  BY <1>1, SMTT(30)
<1> QED
  BY <1>1, <1>2 DEF q

LEMMA LinearInitially == LinearInit => LinearInv
<1> SUFFICES ASSUME LinearInit
             PROVE  LinearInv
  OBVIOUS
<1>1. /\ text = <<>> /\ takenAt = <<>> /\ beneath = cells
      /\ screen_oriented = FALSE /\ pending_carriage_return = FALSE
      /\ row \in Nat /\ column \in Nat
  BY DEF LinearInit
<1> QED
  BY <1>1, NoTextYet

LEMMA LinearStep == LinearInv /\ [LinearNext]_linearVars => LinearInv'
<1> SUFFICES ASSUME LinearTyped, RowsFollow, PrintedBehind, CellsAreWritten,
                    [LinearNext]_linearVars
             PROVE  LinearInv'
  BY DEF LinearInv
<1>0. Cursor \in Nat \X Nat /\ Cursor[1] = row /\ Cursor[2] = column
  BY DEF Cursor, LinearTyped
<1>a. \A i \in Printed : takenAt[i] \in Nat \X Nat
  BY LenProperties DEF Printed, LinearTyped
<1>1. ASSUME NEW c \in Characters, PutCharacter(c)
      PROVE  LinearInv'
  <2>1. c \in Marks /\ c # LineFeedMark /\ Take(c)
    BY <1>1, CharactersAssumption DEF Marks, PutCharacter
  <2>2. /\ cells' = WithCell(cells, Cursor, c)
        /\ row' = row /\ column' = column + 1
        /\ screen_oriented' = (screen_oriented \/ pending_carriage_return)
        /\ pending_carriage_return' = FALSE
    BY <1>1 DEF PutCharacter, FlushCarriageReturn, Show
  <2>3. LinearTyped'
    <3>1. row' \in Nat /\ column' \in Nat
      BY <2>2 DEF LinearTyped
    <3>2. screen_oriented' \in BOOLEAN /\ pending_carriage_return' \in BOOLEAN
      BY <2>2
    <3>3. /\ text' \in Seq(Marks) /\ takenAt' \in Seq(Nat \X Nat)
          /\ Len(takenAt') = Len(text')
      BY <2>1, PartTaken
    <3> QED
      BY <3>1, <3>2, <3>3 DEF LinearTyped
  <2>4. ~screen_oriented' => ~screen_oriented /\ ~pending_carriage_return
    BY <2>2
  <2>5. RowsFollow'
    <3>1. row' = row + (IF c = LineFeedMark THEN 1 ELSE 0)
      BY <2>1, <2>2 DEF LinearTyped
    <3> QED
      BY <2>1, <2>4, <3>1, RowsStillFollow
  <2> DEFINE n == Len(text')
  <2>6. /\ Printed' = Printed \cup {n} /\ n \notin Printed
        /\ n \in Nat /\ Printed \subseteq 1 .. n - 1
        /\ \A i \in Printed : text'[i] = text[i] /\ takenAt'[i] = takenAt[i]
        /\ text'[n] = c /\ takenAt'[n] = Cursor /\ beneath' = beneath
    <3>1. Len(text) \in Nat
      BY LenProperties DEF LinearTyped
    <3> QED
      BY <2>1, <3>1, PartTaken, SMTT(30)
  <2> HIDE DEF n
  <2>7. PrintedBehind'
    <3> SUFFICES ASSUME ~screen_oriented'
                 PROVE  /\ ReadInOrder'
                        /\ \A i \in Printed' : takenAt'[i][1] <= row'
                        /\ \A i \in Printed' : ReadsOn(takenAt'[i], Cursor')
      BY DEF PrintedBehind
    <3>1. /\ ReadInOrder
          /\ \A i \in Printed : takenAt[i][1] <= row /\ ReadsOn(takenAt[i], Cursor)
      BY <2>4 DEF PrintedBehind
    <3>2. Cursor' \in Nat \X Nat /\ ReadsOn(Cursor, Cursor')
      BY <2>2 DEF ReadsOn, Cursor, LinearTyped
    <3>3. ReadInOrder'
      BY <2>6, <3>1 DEF ReadInOrder
    <3>4. \A i \in Printed' : takenAt'[i][1] <= row'
      BY <1>0, <2>2, <2>6, <3>1 DEF LinearTyped
    <3>5. \A i \in Printed' : ReadsOn(takenAt'[i], Cursor')
      BY <1>0, <1>a, <2>6, <3>1, <3>2, ReadsFarther
    <3> QED
      BY <3>3, <3>4, <3>5
  <2>8. CellsAreWritten'
    <3> SUFFICES ASSUME ~screen_oriented'
                 PROVE  StandsWhereItCame' /\ RestIsAsBefore'
      BY DEF CellsAreWritten
    <3>1. StandsWhereItCame /\ RestIsAsBefore
      BY <2>4 DEF CellsAreWritten
    <3>2. \A i \in Printed : takenAt[i] # Cursor
      <4>1. \A i \in Printed : ReadsOn(takenAt[i], Cursor)
        BY <2>4 DEF PrintedBehind
      <4>2. ~ReadsOn(Cursor, Cursor)
        BY <1>0 DEF ReadsOn, LinearTyped
      <4> QED
        BY <4>1, <4>2
    <3>3. /\ DOMAIN cells' = DOMAIN cells \cup {Cursor}
          /\ cells'[Cursor] = c
          /\ \A at \in DOMAIN cells \ {Cursor} : cells'[at] = cells[at]
      BY <2>2 DEF WithCell
    <3>4. StandsWhereItCame'
      BY <2>6, <3>1, <3>2, <3>3 DEF StandsWhereItCame
    <3>5. {takenAt'[i] : i \in Printed'} = {takenAt[i] : i \in Printed} \cup {Cursor}
      BY <2>6
    <3>6. RestIsAsBefore'
      BY <2>6, <3>1, <3>3, <3>5 DEF RestIsAsBefore
    <3> QED
      BY <3>4, <3>6
  <2> QED
    BY <2>3, <2>5, <2>7, <2>8 DEF LinearInv
<1>2. CASE PutTab
  <2>1. TabMark \in Marks \ Characters /\ TabMark # LineFeedMark /\ Take(TabMark)
    BY <1>2, CharactersAssumption DEF Marks, PutTab, TabMark, LineFeedMark
  <2>2. /\ cells' = cells /\ row' = row
        /\ column' = (column \div TabStop + 1) * TabStop
        /\ screen_oriented' = (screen_oriented \/ pending_carriage_return)
        /\ pending_carriage_return' = FALSE
    BY <1>2 DEF PutTab, FlushCarriageReturn, ShowTab
  <2>3. column' \in Nat /\ column < column'
    <3>1. column \in Nat /\ TabStop \in Nat /\ TabStop > 0
      BY TabStopAssumption DEF LinearTyped
    <3> QED
      BY <2>2, <3>1, PastTabStop
  <2>4. LinearTyped'
    BY <2>1, <2>2, <2>3, PartTaken DEF LinearTyped
  <2>5. ~screen_oriented' => ~screen_oriented /\ ~pending_carriage_return
    BY <2>2
  <2>6. RowsFollow'
    <3>1. row' = row + (IF TabMark = LineFeedMark THEN 1 ELSE 0)
      BY <2>1, <2>2 DEF LinearTyped
    <3> QED
      BY <2>1, <2>5, <3>1, RowsStillFollow
  <2>7. Printed' = Printed /\ \A i \in Printed : takenAt'[i] = takenAt[i]
    BY <2>1, PartTaken
  <2>8. PrintedBehind'
    <3>1. Cursor' \in Nat \X Nat /\ ReadsOn(Cursor, Cursor')
      BY <2>2, <2>3 DEF ReadsOn, Cursor, LinearTyped
    <3>2. ReadInOrder => ReadInOrder'
      BY <2>7 DEF ReadInOrder
    <3>3. ~screen_oriented' => \A i \in Printed' : ReadsOn(takenAt'[i], Cursor')
      BY <1>0, <1>a, <2>5, <2>7, <3>1, ReadsFarther DEF PrintedBehind
    <3> QED
      BY <2>2, <2>5, <2>7, <3>2, <3>3 DEF PrintedBehind
  <2>9. CellsAreWritten'
    BY <2>1, <2>2, <2>5, NothingPrinted
  <2> QED
    BY <2>4, <2>6, <2>8, <2>9 DEF LinearInv
<1>3. CASE PutCarriageReturn
  <2>1. /\ UNCHANGED <<text, screen_oriented, beneath, takenAt, cells, row>>
        /\ column' = 0 /\ pending_carriage_return' = TRUE
    BY <1>3 DEF PutCarriageReturn, ShowCarriageReturn
  <2>2. LinearTyped' /\ RowsFollow'
    BY <2>1 DEF LinearTyped, RowsFollow, RowAfter
  <2>3. PrintedBehind'
    BY <2>1 DEF PrintedBehind, ReadInOrder, Printed
  <2>4. CellsAreWritten'
    BY <2>1 DEF CellsAreWritten, StandsWhereItCame, RestIsAsBefore, Printed
  <2> QED
    BY <2>2, <2>3, <2>4 DEF LinearInv
<1>4. CASE PutLineFeed
  <2>1. LineFeedMark \in Marks \ Characters /\ Take(LineFeedMark)
    BY <1>4, CharactersAssumption DEF Marks, PutLineFeed
  <2>2. /\ cells' = cells /\ row' = row + 1 /\ column' = column
        /\ screen_oriented' = screen_oriented /\ pending_carriage_return' = FALSE
    BY <1>4 DEF PutLineFeed, ShowLineFeed
  <2>3. LinearTyped'
    <3>1. row' \in Nat /\ column' \in Nat
      BY <2>2 DEF LinearTyped
    <3>2. screen_oriented' \in BOOLEAN /\ pending_carriage_return' \in BOOLEAN
      BY <2>2 DEF LinearTyped
    <3>3. /\ text' \in Seq(Marks) /\ takenAt' \in Seq(Nat \X Nat)
          /\ Len(takenAt') = Len(text')
      BY <2>1, PartTaken
    <3> QED
      BY <3>1, <3>2, <3>3 DEF LinearTyped
  <2>4. RowsFollow'
    <3>1. row' = row + (IF LineFeedMark = LineFeedMark THEN 1 ELSE 0)
      BY <2>2
    <3> QED
      BY <2>1, <2>2, <3>1, RowsStillFollow
  <2>5. Printed' = Printed /\ \A i \in Printed : takenAt'[i] = takenAt[i]
    BY <2>1, PartTaken
  <2>6. PrintedBehind'
    <3>1. ReadInOrder => ReadInOrder'
      BY <2>5 DEF ReadInOrder
    <3>2. Cursor'[1] = row + 1 /\ row \in Nat
      BY <2>2 DEF Cursor, LinearTyped
    <3>3. ~screen_oriented => \A i \in Printed : takenAt[i][1] \in Nat /\ takenAt[i][1] <= row
      BY <1>a DEF PrintedBehind
    <3>4. ~screen_oriented => \A i \in Printed : takenAt[i][1] <= row' /\ ReadsOn(takenAt[i], Cursor')
      BY <2>2, <3>2, <3>3 DEF ReadsOn
    <3> QED
      BY <2>2, <2>5, <3>1, <3>4 DEF PrintedBehind
  <2>7. CellsAreWritten'
    BY <2>1, <2>2, NothingPrinted
  <2> QED
    BY <2>3, <2>4, <2>6, <2>7 DEF LinearInv
<1>5. CASE EditScreen
  <2>1. UNCHANGED <<text, beneath, takenAt>> /\ screen_oriented' = TRUE
        /\ pending_carriage_return' = FALSE
    BY <1>5 DEF EditScreen
  <2>2. row' \in Nat /\ column' \in Nat
    BY <1>5, CursorsAssumption DEF EditScreen, ShowEdit
  <2> QED
    BY <2>1, <2>2 DEF LinearInv, LinearTyped, RowsFollow, PrintedBehind, CellsAreWritten
<1>6. CASE Style
  <2>1. UNCHANGED <<text, beneath, takenAt, cells, row, column>>
    BY <1>6 DEF Style, emulated
  <2>2. /\ screen_oriented' = (screen_oriented \/ pending_carriage_return)
        /\ pending_carriage_return' = FALSE
    BY <1>6 DEF Style, FlushCarriageReturn
  <2>3. ~screen_oriented' => ~screen_oriented /\ ~pending_carriage_return
    BY <2>2
  <2>4. LinearTyped'
    BY <2>1, <2>2 DEF LinearTyped
  <2>5. RowsFollow'
    BY <2>1, <2>3 DEF RowsFollow, RowAfter
  <2>6. PrintedBehind'
    BY <2>1, <2>3 DEF PrintedBehind, ReadInOrder, Printed, Cursor
  <2>7. CellsAreWritten'
    BY <2>1, <2>3 DEF CellsAreWritten, StandsWhereItCame, RestIsAsBefore, Printed
  <2> QED
    BY <2>4, <2>5, <2>6, <2>7 DEF LinearInv
<1>7. CASE StartResponse
  <2>1. /\ text' = <<>> /\ takenAt' = <<>> /\ beneath' = cells' /\ row' \in Nat /\ column' \in Nat
        /\ screen_oriented' = FALSE /\ pending_carriage_return' = FALSE
    BY <1>7 DEF StartResponse, emulated, LinearTyped
  <2>2. Len(text') = 0 /\ Printed' = {}
    BY <2>1 DEF Printed
  <2>3. LinearTyped'
    BY <2>1, EmptySeq DEF LinearTyped
  <2>4. RowsFollow' /\ PrintedBehind'
    BY <2>2 DEF RowsFollow, PrintedBehind, ReadInOrder
  <2>5. CellsAreWritten'
    BY <2>1, <2>2 DEF CellsAreWritten, StandsWhereItCame, RestIsAsBefore
  <2> QED
    BY <2>3, <2>4, <2>5 DEF LinearInv
<1>8. CASE UNCHANGED <<linear, emulated, beneath, takenAt>>
  <2>1. UNCHANGED <<text, screen_oriented, pending_carriage_return, cells, row, column,
                    beneath, takenAt>>
    BY <1>8 DEF linear, emulated
  <2>2. LinearTyped' /\ RowsFollow'
    BY <2>1 DEF LinearTyped, RowsFollow, RowAfter
  <2>3. PrintedBehind'
    BY <2>1 DEF PrintedBehind, ReadInOrder, Printed, Cursor
  <2>4. CellsAreWritten'
    BY <2>1 DEF CellsAreWritten, StandsWhereItCame, RestIsAsBefore, Printed
  <2> QED
    BY <2>2, <2>3, <2>4 DEF LinearInv
<1> QED
  BY <1>1, <1>2, <1>3, <1>4, <1>5, <1>6, <1>7, <1>8 DEF LinearNext, IgnoredControl, linearVars

\* Whatever a job prints and wherever the cursor was when a response began:
\* output that is returned as it came is what that response changed on the
\* screen, in the order of the text, and nothing in it was written over.
THEOREM LinearOutputIsFaithful == LinearSpec => []LinearIsShown
<1>1. LinearInv => LinearIsShown
  <2>1. LinearTyped /\ RowsFollow /\ Linear => LinesAreRows
    <3> SUFFICES ASSUME LinearTyped, RowsFollow, Linear, NEW i \in 1 .. Len(text) - 1
                 PROVE  takenAt[i + 1][1] = RowAfter(i)
      BY DEF LinesAreRows, RowAfter
    <3> DEFINE n == Len(text)
    <3>1. n \in Nat /\ i \in 1 .. n - 1
      BY LenProperties DEF LinearTyped
    <3>2. \A j \in 1 .. n : RowAfter(j) = IF j = n THEN row ELSE takenAt[j + 1][1]
      BY DEF RowsFollow, Linear
    <3> HIDE DEF n
    <3> QED
      BY <3>1, <3>2
  <2> QED
    BY <2>1 DEF LinearInv, PrintedBehind, CellsAreWritten, Linear, LinearIsShown
<1> QED
  BY <1>1, LinearInitially, LinearStep, PTL DEF LinearSpec

-------------------------------------------------------------------------------
(* The difference of two screens: the table of lengths exists and bounds every *)
(* common subsequence; along the walk the rows kept and the length ahead add   *)
(* up to the longest.                                                          *)

\* The rows of two screens.
ScreensTyped ==
    /\ before \in Seq(Rows) /\ Len(before) \in 0 .. LargestLength
    /\ after \in Seq(Rows) /\ Len(after) \in 0 .. LargestLength

\* How many rows of both screens follow a pair of indices.
Ahead(i) == (Len(before) - i[1]) + (Len(after) - i[2])

\* The length at a pair of indices, by those at pairs with less ahead.
LengthAt(f, i) ==
    IF i[1] = Len(before) \/ i[2] = Len(after) THEN 0
    ELSE IF before[i[1] + 1] = after[i[2] + 1] THEN OneMore(f[<<i[1] + 1, i[2] + 1>>])
    ELSE LongerOf(f[<<i[1] + 1, i[2]>>], f[<<i[1], i[2] + 1>>])

\* The pairs next to one have less ahead.
LEMMA NextIndices ==
  ASSUME ScreensTyped, NEW i \in Indices
  PROVE  /\ Ahead(i) \in Nat /\ i = <<i[1], i[2]>>
         /\ i[1] \in 0 .. Len(before) /\ i[2] \in 0 .. Len(after)
         /\ i[1] # Len(before) /\ i[2] # Len(after)
            => \A j \in {<<i[1] + 1, i[2] + 1>>, <<i[1] + 1, i[2]>>, <<i[1], i[2] + 1>>} :
                  j \in Indices /\ Ahead(j) < Ahead(i)
<1>1. PICK b \in 0 .. Len(before), a \in 0 .. Len(after) : i = <<b, a>>
  BY DEF Indices
<1>2. Len(before) \in Nat /\ Len(after) \in Nat
  BY DEF ScreensTyped
<1>3. Ahead(i) \in Nat
  BY <1>1, <1>2 DEF Ahead
<1>4. ASSUME b # Len(before), a # Len(after),
             NEW j \in {<<b + 1, a + 1>>, <<b + 1, a>>, <<b, a + 1>>}
      PROVE  j \in Indices /\ Ahead(j) < Ahead(i)
  BY <1>1, <1>2, <1>4 DEF Ahead, Indices
<1> QED
  BY <1>1, <1>3, <1>4

\* The table of lengths is well defined.
LEMMA LengthsExist ==
  ASSUME ScreensTyped
  PROVE  \E f : f = [i \in Indices |-> LengthAt(f, i)]
<1> DEFINE RightUpTo(f, k) == /\ f = [i \in Indices |-> f[i]]
                              /\ \A i \in Indices : Ahead(i) <= k => f[i] = LengthAt(f, i)
           S == {k \in Nat : \E f : RightUpTo(f, k)}
<1>1. 0 \in S
  <2> DEFINE f == [i \in Indices |-> 0]
  <2>1. ASSUME NEW i \in Indices, Ahead(i) <= 0 PROVE f[i] = LengthAt(f, i)
    <3>0. i[1] \in 0 .. Len(before) /\ i[2] \in 0 .. Len(after)
      BY NextIndices
    <3>1. i[1] = Len(before) \/ i[2] = Len(after)
      BY <2>1, <3>0 DEF Ahead, ScreensTyped
    <3> QED
      BY <3>1 DEF LengthAt
  <2>2. f = [i \in Indices |-> f[i]]
    OBVIOUS
  <2> HIDE DEF f
  <2>3. RightUpTo(f, 0)
    BY <2>1, <2>2
  <2> QED
    BY <2>3
<1>2. ASSUME NEW k \in Nat, k \in S PROVE k + 1 \in S
  <2>1. PICK f : RightUpTo(f, k)
    BY <1>2
  <2> DEFINE g == [i \in Indices |-> IF Ahead(i) <= k THEN f[i] ELSE LengthAt(f, i)]
  <2>2. ASSUME NEW i \in Indices, Ahead(i) <= k + 1 PROVE g[i] = LengthAt(g, i)
    <3>1. g[i] = LengthAt(f, i)
      BY <2>1
    <3>2. LengthAt(g, i) = LengthAt(f, i)
      <4>1. CASE i[1] = Len(before) \/ i[2] = Len(after)
        BY <4>1 DEF LengthAt
      <4>2. CASE i[1] # Len(before) /\ i[2] # Len(after)
        <5>1. ASSUME NEW j \in {<<i[1] + 1, i[2] + 1>>, <<i[1] + 1, i[2]>>, <<i[1], i[2] + 1>>}
              PROVE  g[j] = f[j]
          <6>1. j \in Indices /\ Ahead(j) \in Nat /\ Ahead(j) < Ahead(i) /\ Ahead(i) \in Nat
            BY <4>2, NextIndices
          <6>2. Ahead(j) <= k
            BY <2>2, <6>1
          <6> QED
            BY <6>1, <6>2
        <5> HIDE DEF g
        <5> QED
          BY <5>1 DEF LengthAt
      <4> QED
        BY <4>1, <4>2
    <3> QED
      BY <3>1, <3>2
  <2>3. g = [i \in Indices |-> g[i]]
    OBVIOUS
  <2> HIDE DEF g
  <2>4. RightUpTo(g, k + 1)
    BY <2>2, <2>3
  <2> QED
    BY <2>4
<1> HIDE DEF S
<1>3. \A k \in Nat : k \in S
  BY <1>1, <1>2, NatSetInduction
<1>4. Len(before) + Len(after) \in S
  BY <1>3 DEF ScreensTyped
<1>5. PICK f : RightUpTo(f, Len(before) + Len(after))
  BY <1>4 DEF S
<1>6. ASSUME NEW i \in Indices PROVE f[i] = LengthAt(f, i)
  <2>0. i[1] \in 0 .. Len(before) /\ i[2] \in 0 .. Len(after)
    BY NextIndices
  <2>1. Ahead(i) <= Len(before) + Len(after)
    BY <2>0 DEF Ahead, ScreensTyped
  <2> QED
    BY <1>5, <2>1
<1>7. f = [i \in Indices |-> LengthAt(f, i)]
  BY <1>5, <1>6, Zenon
<1> QED
  BY <1>7

\* The table of lengths satisfies its definition.
LEMMA LengthsDefined ==
  ASSUME ScreensTyped
  PROVE  Lengths = [i \in Indices |-> LengthAt(Lengths, i)]
<1> DEFINE Right(f) == f = [i \in Indices |-> LengthAt(f, i)]
<1>1. \E f : Right(f)
  BY LengthsExist
<1>2. Lengths = CHOOSE f : Right(f)
  BY DEF Lengths, LengthAt
<1>3. Right(CHOOSE f : Right(f))
  BY <1>1
<1> QED
  BY <1>2, <1>3

\* No length exceeds the number of rows that follow, so none overflows.
LEMMA LengthsBounded ==
  ASSUME ScreensTyped
  PROVE  \A i \in Indices : Lengths[i] \in 0 .. Len(before) - i[1]
<1> DEFINE S == {k \in Nat : \A i \in Indices : Ahead(i) <= k => Lengths[i] \in 0 .. Len(before) - i[1]}
<1>0. \A i \in Indices : Lengths[i] = LengthAt(Lengths, i)
  BY LengthsDefined, Zenon
<1>1. 0 \in S
  <2> SUFFICES ASSUME NEW i \in Indices, Ahead(i) <= 0
               PROVE  Lengths[i] \in 0 .. Len(before) - i[1]
    OBVIOUS
  <2>0. i[1] \in 0 .. Len(before) /\ i[2] \in 0 .. Len(after)
    BY NextIndices
  <2>1. i[1] = Len(before) /\ Len(before) \in Nat
    BY <2>0 DEF Ahead, ScreensTyped
  <2>2. Lengths[i] = 0
    BY <1>0, <2>1 DEF LengthAt
  <2> QED
    BY <2>1, <2>2
<1>2. ASSUME NEW k \in Nat, k \in S PROVE k + 1 \in S
  <2> SUFFICES ASSUME NEW i \in Indices, Ahead(i) <= k + 1
               PROVE  Lengths[i] \in 0 .. Len(before) - i[1]
    OBVIOUS
  <2>0. i[1] \in 0 .. Len(before)
    BY NextIndices
  <2>1. i[1] \in 0 .. Len(before) /\ Len(before) \in Nat /\ Len(before) <= LargestLength
    BY <2>0 DEF ScreensTyped
  <2>2. CASE i[1] = Len(before) \/ i[2] = Len(after)
    <3>1. Lengths[i] = 0
      BY <1>0, <2>2 DEF LengthAt
    <3> QED
      BY <2>1, <3>1
  <2>3. CASE i[1] # Len(before) /\ i[2] # Len(after)
    <3>1. ASSUME NEW j \in {<<i[1] + 1, i[2] + 1>>, <<i[1] + 1, i[2]>>, <<i[1], i[2] + 1>>}
          PROVE  Lengths[j] \in 0 .. Len(before) - j[1]
      <4>1. j \in Indices /\ Ahead(j) \in Nat /\ Ahead(j) < Ahead(i) /\ Ahead(i) \in Nat
        BY <2>3, NextIndices
      <4>2. Ahead(j) <= k
        BY <4>1
      <4> QED
        BY <1>2, <4>1, <4>2
    <3>2. /\ Lengths[<<i[1] + 1, i[2] + 1>>] \in 0 .. Len(before) - (i[1] + 1)
          /\ Lengths[<<i[1] + 1, i[2]>>] \in 0 .. Len(before) - (i[1] + 1)
          /\ Lengths[<<i[1], i[2] + 1>>] \in 0 .. Len(before) - i[1]
      BY <3>1
    <3>3. \/ Lengths[i] = OneMore(Lengths[<<i[1] + 1, i[2] + 1>>])
          \/ Lengths[i] = LongerOf(Lengths[<<i[1] + 1, i[2]>>], Lengths[<<i[1], i[2] + 1>>])
      BY <1>0, <2>3 DEF LengthAt
    <3>4. OneMore(Lengths[<<i[1] + 1, i[2] + 1>>]) \in 0 .. Len(before) - i[1]
      BY <2>1, <3>2 DEF OneMore, LargestLength
    <3>5. LongerOf(Lengths[<<i[1] + 1, i[2]>>], Lengths[<<i[1], i[2] + 1>>]) \in 0 .. Len(before) - i[1]
      <4>1. 0 .. Len(before) - (i[1] + 1) \subseteq 0 .. Len(before) - i[1]
        BY <2>1
      <4> QED
        BY <3>2, <4>1 DEF LongerOf
    <3> QED
      BY <3>3, <3>4, <3>5
  <2> QED
    BY <2>2, <2>3
<1> HIDE DEF S
<1>3. \A k \in Nat : k \in S
  BY <1>1, <1>2, NatSetInduction
<1>4. ASSUME NEW i \in Indices PROVE Lengths[i] \in 0 .. Len(before) - i[1]
  <2>0. Ahead(i) \in Nat
    BY NextIndices
  <2>1. Ahead(i) \in Nat /\ Ahead(i) <= Ahead(i)
    BY <2>0
  <2>2. Ahead(i) \in S
    BY <1>3, <2>1
  <2> QED
    BY <2>1, <2>2 DEF S
<1> QED
  BY <1>4

\* The lengths, without their overflow.
LEMMA LengthsAre ==
  ASSUME ScreensTyped, NEW b \in 0 .. Len(before), NEW a \in 0 .. Len(after)
  PROVE  /\ Lengths[<<b, a>>] \in Nat
         /\ b = Len(before) \/ a = Len(after) => Lengths[<<b, a>>] = 0
         /\ b < Len(before) /\ a < Len(after) =>
               /\ b + 1 \in 0 .. Len(before) /\ a + 1 \in 0 .. Len(after)
               /\ before[b + 1] = after[a + 1] => Lengths[<<b, a>>] = Lengths[<<b + 1, a + 1>>] + 1
               /\ before[b + 1] # after[a + 1] =>
                     Lengths[<<b, a>>] = LongerOf(Lengths[<<b + 1, a>>], Lengths[<<b, a + 1>>])
<1>1. <<b, a>> \in Indices /\ Len(before) \in Nat /\ Len(after) \in Nat /\ Len(before) <= LargestLength
  BY DEF Indices, ScreensTyped
<1>2. Lengths[<<b, a>>] = LengthAt(Lengths, <<b, a>>)
  BY <1>1, LengthsDefined, Zenon
<1>3. Lengths[<<b, a>>] \in Nat
  BY <1>1, LengthsBounded
<1>4. CASE b = Len(before) \/ a = Len(after)
  BY <1>2, <1>3, <1>4 DEF LengthAt
<1>5. CASE b < Len(before) /\ a < Len(after)
  <2>1. <<b + 1, a + 1>> \in Indices
    BY <1>1, <1>5 DEF Indices
  <2>2. Lengths[<<b + 1, a + 1>>] \in 0 .. Len(before) - (b + 1)
    BY <2>1, LengthsBounded
  <2>3. OneMore(Lengths[<<b + 1, a + 1>>]) = Lengths[<<b + 1, a + 1>>] + 1
    BY <1>1, <1>5, <2>2 DEF OneMore, LargestLength
  <2> QED
    BY <1>1, <1>2, <1>3, <1>5, <2>3 DEF LengthAt
<1> QED
  BY <1>1, <1>4, <1>5

\* Rows of the rest of both screens that match are no more than the length says.
LEMMA NoneLonger ==
  ASSUME ScreensTyped
  PROVE  \A b \in 0 .. Len(before), a \in 0 .. Len(after) :
            \A places \in SUBSET (a + 1 .. Len(after)) :
               \A match \in [places -> b + 1 .. Len(before)] :
                  IsMatch(match, places) => Cardinality(places) <= Lengths[<<b, a>>]
<1> DEFINE m == Len(before)
           n == Len(after)
           Bounded(b, a) ==
               \A places \in SUBSET (a + 1 .. n) : \A match \in [places -> b + 1 .. m] :
                  IsMatch(match, places) => Cardinality(places) <= Lengths[<<b, a>>]
           S == {k \in Nat : \A b \in 0 .. m, a \in 0 .. n : (m - b) + (n - a) <= k => Bounded(b, a)}
<1>0. m \in Nat /\ n \in Nat
  BY DEF ScreensTyped
<1>1. ASSUME NEW b \in 0 .. m, NEW a \in 0 .. n, b = m \/ a = n PROVE Bounded(b, a)
  <2> SUFFICES ASSUME NEW places \in SUBSET (a + 1 .. n), NEW match \in [places -> b + 1 .. m]
               PROVE  Cardinality(places) <= Lengths[<<b, a>>]
    OBVIOUS
  <2>1. places = {}
    <3>1. a + 1 .. n = {} \/ b + 1 .. m = {}
      BY <1>0, <1>1
    <3> QED
      BY <3>1
  <2>2. Cardinality(places) = 0
    BY <2>1, FS_EmptySet
  <2>3. Lengths[<<b, a>>] \in Nat
    BY LengthsAre
  <2> QED
    BY <2>2, <2>3
<1>2. 0 \in S
  <2> SUFFICES ASSUME NEW b \in 0 .. m, NEW a \in 0 .. n, (m - b) + (n - a) <= 0
               PROVE  Bounded(b, a)
    OBVIOUS
  <2>1. b = m
    BY <1>0
  <2> HIDE DEF Bounded
  <2> QED
    BY <1>1, <2>1
<1>3. ASSUME NEW k \in Nat, k \in S PROVE k + 1 \in S
  <2> SUFFICES ASSUME NEW b \in 0 .. m, NEW a \in 0 .. n, (m - b) + (n - a) <= k + 1
               PROVE  Bounded(b, a)
    OBVIOUS
  <2>1. CASE b = m \/ a = n
    BY <1>1, <2>1
  <2>2. CASE b # m /\ a # n
    <3>0. /\ b + 1 \in 0 .. m /\ a + 1 \in 0 .. n /\ b < m /\ a < n
          /\ (m - (b + 1)) + (n - (a + 1)) <= k
          /\ (m - (b + 1)) + (n - a) <= k
          /\ (m - b) + (n - (a + 1)) <= k
      BY <1>0, <2>2
    <3>1. Bounded(b + 1, a + 1) /\ Bounded(b + 1, a) /\ Bounded(b, a + 1)
      <4> HIDE DEF Bounded
      <4> QED
        BY <1>3, <3>0
    <3>2. /\ Lengths[<<b, a>>] \in Nat
          /\ Lengths[<<b + 1, a + 1>>] \in Nat
          /\ Lengths[<<b + 1, a>>] \in Nat
          /\ Lengths[<<b, a + 1>>] \in Nat
      BY <3>0, LengthsAre
    <3>3. /\ before[b + 1] = after[a + 1] => Lengths[<<b, a>>] = Lengths[<<b + 1, a + 1>>] + 1
          /\ before[b + 1] # after[a + 1] =>
                Lengths[<<b, a>>] = LongerOf(Lengths[<<b + 1, a>>], Lengths[<<b, a + 1>>])
      BY <3>0, LengthsAre
    <3> SUFFICES ASSUME NEW places \in SUBSET (a + 1 .. n), NEW match \in [places -> b + 1 .. m],
                        IsMatch(match, places)
                 PROVE  Cardinality(places) <= Lengths[<<b, a>>]
      OBVIOUS
    <3>4. IsFiniteSet(places) /\ Cardinality(places) \in Nat
      <4>1. IsFiniteSet(a + 1 .. n)
        BY <1>0, FS_Interval
      <4> QED
        BY <4>1, FS_Subset, FS_CardinalityType
    <3>5. CASE before[b + 1] = after[a + 1]
      <4>1. CASE places = {}
        BY <3>2, <4>1, FS_EmptySet
      <4>2. CASE places # {}
        <5>1. PICK first \in places : \A i \in places : first <= i
          <6>1. places \subseteq 0 .. n /\ n \in Nat
            BY <1>0
          <6> QED
            BY <4>2, <6>1, MinOf
        <5> DEFINE others == places \ {first}
                   rest == [i \in others |-> match[i]]
        <5>2. others \in SUBSET (a + 2 .. n)
          <6> SUFFICES ASSUME NEW i \in others PROVE i \in a + 2 .. n
            OBVIOUS
          <6>1. first <= i /\ first # i /\ first \in a + 1 .. n /\ i \in a + 1 .. n
            BY <5>1
          <6> QED
            BY <6>1
        <5>3. rest \in [others -> b + 2 .. m]
          <6> SUFFICES ASSUME NEW i \in others PROVE match[i] \in b + 2 .. m
            OBVIOUS
          <6>1. first < i /\ match[first] \in b + 1 .. m /\ match[i] \in b + 1 .. m
            <7>1. first <= i /\ first # i /\ first \in a + 1 .. n /\ i \in a + 1 .. n
              BY <5>1
            <7> QED
              BY <7>1
          <6>2. match[first] < match[i]
            BY <6>1 DEF IsMatch
          <6> QED
            BY <6>1, <6>2
        <5>4. IsMatch(rest, others)
          BY DEF IsMatch
        <5>5. Cardinality(others) <= Lengths[<<b + 1, a + 1>>]
          <6>1. (a + 1) + 1 = a + 2 /\ (b + 1) + 1 = b + 2
            OBVIOUS
          <6> HIDE DEF others, rest
          <6> QED
            BY <3>1, <5>2, <5>3, <5>4, <6>1
        <5>6. Cardinality(others) = Cardinality(places) - 1
          BY <3>4, FS_RemoveElement
        <5> QED
          BY <3>2, <3>3, <3>4, <3>5, <5>5, <5>6, SMTT(30)
      <4> QED
        BY <4>1, <4>2
    <3>6. CASE before[b + 1] # after[a + 1]
      <4>1. Lengths[<<b + 1, a>>] <= Lengths[<<b, a>>] /\ Lengths[<<b, a + 1>>] <= Lengths[<<b, a>>]
        BY <3>2, <3>3, <3>6 DEF LongerOf
      <4>2. CASE a + 1 \notin places
        <5>1. places \in SUBSET ((a + 1) + 1 .. n)
          <6> SUFFICES ASSUME NEW i \in places PROVE i \in (a + 1) + 1 .. n
            OBVIOUS
          <6>1. i \in a + 1 .. n /\ i # a + 1
            BY <4>2
          <6> QED
            BY <6>1
        <5>2. Cardinality(places) <= Lengths[<<b, a + 1>>]
          BY <3>1, <5>1
        <5> QED
          BY <3>2, <3>4, <4>1, <5>2
      <4>3. CASE a + 1 \in places
        <5>1. match \in [places -> (b + 1) + 1 .. m]
          <6> SUFFICES ASSUME NEW i \in places PROVE match[i] \in (b + 1) + 1 .. m
            OBVIOUS
          <6>1. match[i] \in b + 1 .. m /\ match[a + 1] \in b + 1 .. m /\ i \in a + 1 .. n
            BY <4>3
          <6>2. match[a + 1] # b + 1
            BY <3>6, <4>3 DEF IsMatch
          <6>3. CASE i = a + 1
            BY <6>1, <6>2, <6>3
          <6>4. CASE i # a + 1
            <7>1. a + 1 < i
              BY <6>1, <6>4
            <7>2. match[a + 1] < match[i]
              BY <4>3, <7>1 DEF IsMatch
            <7> QED
              BY <6>1, <7>2
          <6> QED
            BY <6>3, <6>4
        <5>2. Cardinality(places) <= Lengths[<<b + 1, a>>]
          BY <3>1, <5>1
        <5> QED
          BY <3>2, <3>4, <4>1, <5>2
      <4> QED
        BY <4>2, <4>3
    <3> QED
      BY <3>5, <3>6
  <2> HIDE DEF Bounded
  <2> QED
    BY <2>1, <2>2
<1> HIDE DEF S, Bounded
<1>4. \A k \in Nat : k \in S
  BY <1>2, <1>3, NatSetInduction
<1>5. ASSUME NEW b \in 0 .. m, NEW a \in 0 .. n PROVE Bounded(b, a)
  <2>1. (m - b) + (n - a) \in Nat
    BY <1>0
  <2>2. (m - b) + (n - a) \in S /\ (m - b) + (n - a) <= (m - b) + (n - a)
    BY <1>4, <2>1
  <2> HIDE DEF m, n
  <2> QED
    BY <2>2 DEF S
<1> QED
  BY <1>5 DEF Bounded

\* What follows the places listed can be listed as well.
LEMMA RowsAppended ==
  ASSUME NEW E, NEW rows \in Seq(E), NEW part \in Seq(E),
         NEW a \in Nat, NEW z \in Nat, a <= z, z <= Len(rows),
         NEW places \in SUBSET (1 .. a), AreRowsAt(part, rows, places)
  PROVE  AreRowsAt(part \o SubSeq(rows, a + 1, z), rows, places \cup (a + 1 .. z))
<1> DEFINE k == Len(part)
           tail == SubSeq(rows, a + 1, z)
           longer == part \o tail
<1>1. k \in Nat /\ DOMAIN part = 1 .. k
  BY LenProperties
<1>2. /\ tail \in Seq(E) /\ Len(tail) = z - a
      /\ \A i \in 1 .. z - a : tail[i] = rows[a + i]
  <2>1. /\ tail \in Seq(E)
        /\ Len(tail) = IF a + 1 <= z THEN z - (a + 1) + 1 ELSE 0
        /\ \A i \in 1 .. z - (a + 1) + 1 : tail[i] = rows[(a + 1) + i - 1]
    BY SubSeqProperties
  <2> QED
    BY <2>1
<1> HIDE DEF tail
<1>3. /\ DOMAIN longer = 1 .. k + (z - a)
      /\ \A i \in 1 .. k + (z - a) : longer[i] = IF i <= k THEN part[i] ELSE rows[a + (i - k)]
  <2>1. /\ longer \in Seq(E) /\ Len(longer) = k + (z - a)
        /\ \A i \in 1 .. k + (z - a) : longer[i] = IF i <= k THEN part[i] ELSE tail[i - k]
    <3>1. \A s1, s2 \in Seq(E) :
             /\ s1 \o s2 \in Seq(E) /\ Len(s1 \o s2) = Len(s1) + Len(s2)
             /\ \A i \in 1 .. Len(s1) + Len(s2) :
                   (s1 \o s2)[i] = IF i <= Len(s1) THEN s1[i] ELSE s2[i - Len(s1)]
      BY ConcatProperties, Zenon
    <3> QED
      BY <1>2, <3>1, ZenonT(40)
  <2>2. ASSUME NEW i \in 1 .. k + (z - a), ~(i <= k) PROVE tail[i - k] = rows[a + (i - k)]
    <3>1. i - k \in 1 .. z - a
      BY <1>1, <2>2
    <3> QED
      BY <1>2, <3>1
  <2> HIDE DEF longer
  <2> QED
    BY <2>1, <2>2, LenProperties
<1> HIDE DEF longer
<1>4. PICK place \in [1 .. k -> places] :
         /\ \A i, j \in 1 .. k : i < j => place[i] < place[j]
         /\ \A p \in places : \E i \in 1 .. k : place[i] = p
         /\ \A i \in 1 .. k : part[i] = rows[place[i]]
  BY <1>1, ZenonT(40) DEF AreRowsAt
<1> DEFINE next == [i \in 1 .. k + (z - a) |-> IF i <= k THEN place[i] ELSE a + (i - k)]
           all == places \cup (a + 1 .. z)
<1>5. ASSUME NEW i \in 1 .. k + (z - a)
      PROVE  \/ i \in 1 .. k /\ next[i] = place[i] /\ place[i] \in 1 .. a /\ place[i] \in places
             \/ i \in k + 1 .. k + (z - a) /\ next[i] = a + (i - k) /\ a + (i - k) \in a + 1 .. z
  <2>1. CASE i <= k
    <3>1. i \in 1 .. k
      BY <1>1, <2>1
    <3>2. place[i] \in places
      BY <1>4, <3>1
    <3> QED
      BY <2>1, <3>1, <3>2
  <2>2. CASE ~(i <= k)
    BY <1>1, <2>2
  <2> QED
    BY <2>1, <2>2
<1>6. next \in [1 .. k + (z - a) -> all]
  <2> SUFFICES ASSUME NEW i \in 1 .. k + (z - a) PROVE next[i] \in all
    OBVIOUS
  <2> HIDE DEF next
  <2> QED
    BY <1>5
<1>7. ASSUME NEW i \in 1 .. k + (z - a), NEW j \in 1 .. k + (z - a), i < j PROVE next[i] < next[j]
  <2>1. CASE j \in 1 .. k
    <3>0. i \in 1 .. k
      BY <1>1, <1>7, <2>1
    <3>1. i \in 1 .. k /\ next[i] = place[i] /\ next[j] = place[j]
      BY <2>1, <3>0 DEF next
    <3> QED
      BY <1>4, <1>7, <2>1, <3>1
  <2>2. CASE j \notin 1 .. k
    <3> HIDE DEF next
    <3>1. j \in k + 1 .. k + (z - a) /\ next[j] = a + (j - k)
      BY <1>5, <2>2
    <3>2. CASE i \in 1 .. k
      <4>1. next[i] \in 1 .. a
        BY <1>1, <1>5, <3>2
      <4> QED
        BY <1>1, <3>1, <4>1
    <3>3. CASE i \notin 1 .. k
      <4>1. i \in k + 1 .. k + (z - a) /\ next[i] = a + (i - k)
        BY <1>5, <3>3
      <4> QED
        BY <1>1, <1>7, <3>1, <4>1
    <3> QED
      BY <3>2, <3>3
  <2> QED
    BY <2>1, <2>2
<1>8. ASSUME NEW p \in all PROVE \E i \in 1 .. k + (z - a) : next[i] = p
  <2>1. CASE p \in places
    <3>1. PICK i \in 1 .. k : place[i] = p
      BY <1>4, <2>1
    <3>2. i \in 1 .. k + (z - a) /\ next[i] = p
      BY <1>1, <3>1
    <3> QED
      BY <3>2
  <2>2. CASE p \in a + 1 .. z
    <3>1. k + (p - a) \in 1 .. k + (z - a) /\ ~(k + (p - a) <= k) /\ a + ((k + (p - a)) - k) = p
      BY <1>1, <2>2
    <3>2. next[k + (p - a)] = p
      BY <3>1
    <3> QED
      BY <3>1, <3>2
  <2> QED
    BY <2>1, <2>2
<1>9. ASSUME NEW i \in 1 .. k + (z - a) PROVE longer[i] = rows[next[i]]
  <2>1. CASE i <= k
    <3>1. i \in 1 .. k
      BY <1>1, <2>1
    <3> QED
      BY <1>3, <1>4, <2>1, <3>1
  <2>2. CASE ~(i <= k)
    BY <1>3, <2>2
  <2> QED
    BY <2>1, <2>2
<1> HIDE DEF next, all
<1>10. AreRowsAt(longer, rows, all)
  <2>1. next \in [DOMAIN longer -> all]
    BY <1>3, <1>6
  <2>2. /\ \A i, j \in DOMAIN longer : i < j => next[i] < next[j]
        /\ \A p \in all : \E i \in DOMAIN longer : next[i] = p
        /\ \A i \in DOMAIN longer : longer[i] = rows[next[i]]
    <3>1. DOMAIN longer = 1 .. k + (z - a)
      BY <1>3
    <3> HIDE DEF k
    <3> QED
      BY <1>7, <1>8, <1>9, <3>1
  <2> QED
    BY <2>1, <2>2, Zenon DEF AreRowsAt
<1> QED
  BY <1>10 DEF longer, all, tail

\* Empty ends are dropped and nothing else.
LEMMA EndsTrimmed ==
  ASSUME NEW rows \in Seq(Rows)
  PROVE  IsTrimmed(WithoutEmptyEnds(rows), rows)
<1> DEFINE n == Len(rows)
           first == CHOOSE i \in Written(rows) : \A j \in Written(rows) : i <= j
           last == CHOOSE i \in Written(rows) : \A j \in Written(rows) : j <= i
<1>1. n \in Nat /\ DOMAIN rows = 1 .. n /\ Written(rows) \subseteq 1 .. n
  BY LenProperties DEF Written
<1>2. CASE Written(rows) = {}
  <2>1. WithoutEmptyEnds(rows) = <<>> /\ SubSeq(rows, 1, 0) = <<>>
    BY <1>2 DEF WithoutEmptyEnds
  <2>2. 1 \in 1 .. n + 1 /\ 0 \in 0 .. n
    BY <1>1
  <2> QED
    BY <1>2, <2>1, <2>2 DEF IsTrimmed
<1>3. CASE Written(rows) # {}
  <2>1. first \in Written(rows) /\ \A j \in Written(rows) : first <= j
    <3>1. \E i \in Written(rows) : \A j \in Written(rows) : i <= j
      <4>1. Written(rows) \in SUBSET (0 .. n)
        BY <1>1
      <4> QED
        BY <1>1, <1>3, <4>1, MinOf
    <3> QED
      BY <3>1
  <2>2. last \in Written(rows) /\ \A j \in Written(rows) : j <= last
    <3>1. \E i \in Written(rows) : \A j \in Written(rows) : j <= i
      <4>1. Written(rows) \in SUBSET (0 .. n)
        BY <1>1
      <4> QED
        BY <1>1, <1>3, <4>1, MaxOf
    <3> QED
      BY <3>1
  <2>3. WithoutEmptyEnds(rows) = SubSeq(rows, first, last)
    BY <1>3 DEF WithoutEmptyEnds
  <2> HIDE DEF first, last
  <2>4. first \in 1 .. n /\ last \in 1 .. n
    BY <1>1, <2>1, <2>2
  <2>5. Written(rows) \subseteq first .. last
    <3> SUFFICES ASSUME NEW j \in Written(rows) PROVE j \in first .. last
      OBVIOUS
    <3>1. j \in 1 .. n /\ first <= j /\ j <= last
      BY <1>1, <2>1, <2>2
    <3> QED
      BY <2>4, <3>1
  <2>6. first \in 1 .. n + 1 /\ last \in 0 .. n
    BY <1>1, <2>4
  <2> QED
    BY <2>1, <2>2, <2>3, <2>5, <2>6 DEF IsTrimmed
<1> QED
  BY <1>2, <1>3

\* The rows listed are those passed over without some that stood there before,
\* and with what is still ahead as many of these stay as can be.
Kept(b, a, list) ==
    \E same \in SUBSET (1 .. a) :
        \E match \in [same -> 1 .. b] :
            /\ IsMatch(match, same)
            /\ Cardinality(same) + Lengths[<<b, a>>] = Lengths[<<0, 0>>]
            /\ AreRowsAt(list, after, (1 .. a) \ same)

DifferenceInv ==
    /\ ScreensTyped
    /\ before_index \in 0 .. Len(before)
    /\ after_index \in 0 .. Len(after)
    /\ changed \in Seq(Rows)
    /\ returned \in BOOLEAN
    /\ ~returned => Kept(before_index, after_index, changed)
    /\ LeastIsReported

\* Nothing is listed before any rows are compared.
LEMMA NothingKept ==
  ASSUME ScreensTyped
  PROVE  Kept(0, 0, <<>>)
<1> DEFINE none == [i \in {} |-> 0]
<1>1. none \in [{} -> 1 .. 0] /\ IsMatch(none, {})
  BY DEF IsMatch
<1>2. Cardinality({}) = 0
  BY FS_EmptySet
<1>3. Lengths[<<0, 0>>] \in Nat
  <2>1. 0 \in 0 .. Len(before) /\ 0 \in 0 .. Len(after)
    BY DEF ScreensTyped
  <2> QED
    BY <2>1, LengthsAre
<1>4. AreRowsAt(<<>>, after, (1 .. 0) \ {})
  <2> DEFINE nowhere == [i \in {} |-> 0]
  <2>1. DOMAIN (<<>>) = {} /\ (1 .. 0) \ {} = {}
    OBVIOUS
  <2>2. nowhere \in [DOMAIN (<<>>) -> (1 .. 0) \ {}]
    BY <2>1
  <2> HIDE DEF nowhere
  <2> QED
    BY <2>1, <2>2 DEF AreRowsAt
<1> HIDE DEF none
<1>5. Cardinality({}) + Lengths[<<0, 0>>] = Lengths[<<0, 0>>]
  BY <1>2, <1>3
<1>6. \E match \in [{} -> 1 .. 0] :
         /\ IsMatch(match, {})
         /\ Cardinality({}) + Lengths[<<0, 0>>] = Lengths[<<0, 0>>]
         /\ AreRowsAt(<<>>, after, (1 .. 0) \ {})
  BY <1>1, <1>4, <1>5
<1>7. {} \in SUBSET (1 .. 0)
  OBVIOUS
<1> QED
  BY <1>6, <1>7, Zenon DEF Kept

\* A row that both screens show is kept.
LEMMA RowKept ==
  ASSUME ScreensTyped, NEW b \in 0 .. Len(before), NEW a \in 0 .. Len(after),
         b < Len(before), a < Len(after), before[b + 1] = after[a + 1],
         NEW list, Kept(b, a, list)
  PROVE  Kept(b + 1, a + 1, list)
<1>01. PICK same \in SUBSET (1 .. a) : \E match \in [same -> 1 .. b] :
         /\ IsMatch(match, same)
         /\ Cardinality(same) + Lengths[<<b, a>>] = Lengths[<<0, 0>>]
         /\ AreRowsAt(list, after, (1 .. a) \ same)
  BY DEF Kept
<1>1. PICK match \in [same -> 1 .. b] :
         /\ IsMatch(match, same)
         /\ Cardinality(same) + Lengths[<<b, a>>] = Lengths[<<0, 0>>]
         /\ AreRowsAt(list, after, (1 .. a) \ same)
  BY <1>01
<1> DEFINE more == same \cup {a + 1}
           next == [i \in more |-> IF i \in same THEN match[i] ELSE b + 1]
<1>0. a \in Nat /\ b \in Nat /\ Len(before) \in Nat /\ Len(after) \in Nat
  BY DEF ScreensTyped
<1>2. a + 1 \notin same /\ more \in SUBSET (1 .. a + 1)
  BY <1>0
<1>3. next \in [more -> 1 .. b + 1]
  <2> SUFFICES ASSUME NEW i \in more PROVE next[i] \in 1 .. b + 1
    OBVIOUS
  <2>1. CASE i \in same
    <3>1. match[i] \in 1 .. b
      BY <2>1
    <3> QED
      BY <1>0, <2>1, <3>1
  <2>2. CASE i \notin same
    BY <1>0, <2>2
  <2> QED
    BY <2>1, <2>2
<1>4. IsMatch(next, more)
  <2>1. ASSUME NEW i \in more PROVE before[next[i]] = after[i]
    <3>1. CASE i \in same
      BY <1>1, <3>1 DEF IsMatch
    <3>2. CASE i \notin same
      BY <3>2
    <3> QED
      BY <3>1, <3>2
  <2>2. ASSUME NEW i \in more, NEW j \in more, i < j PROVE next[i] < next[j]
    <3>1. i \in same
      BY <1>0, <2>2
    <3>2. CASE j \in same
      BY <1>1, <2>2, <3>1, <3>2 DEF IsMatch
    <3>3. CASE j \notin same
      <4>1. match[i] \in 1 .. b /\ next[j] = b + 1 /\ next[i] = match[i]
        BY <3>1, <3>3
      <4> QED
        BY <1>0, <4>1
    <3> QED
      BY <3>2, <3>3
  <2> HIDE DEF next, more
  <2> QED
    BY <2>1, <2>2 DEF IsMatch
<1>5. Cardinality(more) + Lengths[<<b + 1, a + 1>>] = Lengths[<<0, 0>>]
  <2>1. IsFiniteSet(same) /\ Cardinality(same) \in Nat
    <3>1. IsFiniteSet(1 .. a)
      BY <1>0, FS_Interval
    <3> QED
      BY <3>1, FS_Subset, FS_CardinalityType
  <2>2. Cardinality(more) = Cardinality(same) + 1
    BY <1>2, <2>1, FS_AddElement
  <2>3. Lengths[<<b, a>>] = Lengths[<<b + 1, a + 1>>] + 1
    BY LengthsAre
  <2>4. Lengths[<<b + 1, a + 1>>] \in Nat
    <3>1. b + 1 \in 0 .. Len(before) /\ a + 1 \in 0 .. Len(after)
      BY <1>0
    <3> QED
      BY <3>1, LengthsAre
  <2> HIDE DEF more
  <2>5. Cardinality(more) + Lengths[<<b + 1, a + 1>>]
        = Cardinality(same) + (Lengths[<<b + 1, a + 1>>] + 1)
    <3>1. \A x, y \in Nat : (x + 1) + y = x + (y + 1)
      OBVIOUS
    <3>2. (Cardinality(same) + 1) + Lengths[<<b + 1, a + 1>>]
          = Cardinality(same) + (Lengths[<<b + 1, a + 1>>] + 1)
      BY <2>1, <2>4, <3>1, Zenon
    <3> QED
      BY <2>2, <3>2, Zenon
  <2> QED
    BY <1>1, <2>3, <2>5, Zenon
<1>6. (1 .. a + 1) \ more = (1 .. a) \ same
  BY <1>0
<1> HIDE DEF more, next
<1>7. AreRowsAt(list, after, (1 .. a + 1) \ more)
  BY <1>1, <1>6
<1> QED
  BY <1>2, <1>3, <1>4, <1>5, <1>7 DEF Kept

\* A row before is passed over where the rest is as much alike without it.
LEMMA RowLeft ==
  ASSUME ScreensTyped, NEW b \in 0 .. Len(before), NEW a \in 0 .. Len(after),
         Lengths[<<b + 1, a>>] = Lengths[<<b, a>>], NEW list, Kept(b, a, list)
  PROVE  Kept(b + 1, a, list)
<1>01. PICK same \in SUBSET (1 .. a) : \E match \in [same -> 1 .. b] :
         /\ IsMatch(match, same)
         /\ Cardinality(same) + Lengths[<<b, a>>] = Lengths[<<0, 0>>]
         /\ AreRowsAt(list, after, (1 .. a) \ same)
  BY DEF Kept
<1>1. PICK match \in [same -> 1 .. b] :
         /\ IsMatch(match, same)
         /\ Cardinality(same) + Lengths[<<b, a>>] = Lengths[<<0, 0>>]
         /\ AreRowsAt(list, after, (1 .. a) \ same)
  BY <1>01
<1>2. match \in [same -> 1 .. b + 1]
  <2> SUFFICES ASSUME NEW i \in same PROVE match[i] \in 1 .. b + 1
    OBVIOUS
  <2>1. match[i] \in 1 .. b
    OBVIOUS
  <2> QED
    BY <2>1 DEF ScreensTyped
<1> QED
  BY <1>1, <1>2 DEF Kept

\* Rows shown now, up to some place, are listed where no longer subsequence has them.
LEMMA RowsListed ==
  ASSUME ScreensTyped, NEW b \in 0 .. Len(before), NEW a \in 0 .. Len(after),
         NEW z \in 0 .. Len(after), a <= z,
         Lengths[<<b, z>>] = Lengths[<<b, a>>],
         NEW list \in Seq(Rows), Kept(b, a, list)
  PROVE  /\ Kept(b, z, list \o SubSeq(after, a + 1, z))
         /\ list \o SubSeq(after, a + 1, z) \in Seq(Rows)
<1>0. a \in Nat /\ z \in Nat /\ Len(after) \in Nat /\ z <= Len(after)
  BY DEF ScreensTyped
<1>01. PICK same \in SUBSET (1 .. a) : \E match \in [same -> 1 .. b] :
         /\ IsMatch(match, same)
         /\ Cardinality(same) + Lengths[<<b, a>>] = Lengths[<<0, 0>>]
         /\ AreRowsAt(list, after, (1 .. a) \ same)
  BY DEF Kept
<1>1. PICK match \in [same -> 1 .. b] :
         /\ IsMatch(match, same)
         /\ Cardinality(same) + Lengths[<<b, a>>] = Lengths[<<0, 0>>]
         /\ AreRowsAt(list, after, (1 .. a) \ same)
  BY <1>01
<1>2. same \in SUBSET (1 .. z) /\ (1 .. z) \ same = ((1 .. a) \ same) \cup (a + 1 .. z)
  BY <1>0
<1>3. AreRowsAt(list \o SubSeq(after, a + 1, z), after, ((1 .. a) \ same) \cup (a + 1 .. z))
  <2>1. after \in Seq(Rows) /\ (1 .. a) \ same \in SUBSET (1 .. a)
    BY DEF ScreensTyped
  <2> QED
    BY <1>0, <1>1, <2>1, RowsAppended
<1>4. list \o SubSeq(after, a + 1, z) \in Seq(Rows)
  <2>1. SubSeq(after, a + 1, z) \in Seq(Rows)
    <3>1. \A i \in a + 1 .. z : after[i] \in Rows
      <4> SUFFICES ASSUME NEW i \in a + 1 .. z PROVE after[i] \in Rows
        OBVIOUS
      <4>1. i \in 1 .. Len(after)
        BY <1>0
      <4> QED
        BY <4>1, ElementOfSeq DEF ScreensTyped
    <3> QED
      BY <1>0, <3>1, SubSeqProperties
  <2> QED
    BY <2>1, ConcatProperties
<1>5. Kept(b, z, list \o SubSeq(after, a + 1, z))
  BY <1>1, <1>2, <1>3 DEF Kept
<1> QED
  BY <1>4, <1>5

\* Nothing more could have been kept once one of the screens is passed over.
LEMMA MostKept ==
  ASSUME ScreensTyped, NEW b \in 0 .. Len(before), Lengths[<<b, Len(after)>>] = 0,
         NEW list \in Seq(Rows), Kept(b, Len(after), list)
  PROVE  \E same \in Common :
            /\ \A other \in Common : Cardinality(other) <= Cardinality(same)
            /\ AreRowsAt(list, after, DOMAIN after \ same)
<1> DEFINE m == Len(before)
           n == Len(after)
<1>0. m \in Nat /\ n \in Nat /\ DOMAIN after = 1 .. n /\ DOMAIN before = 1 .. m
  BY LenProperties DEF ScreensTyped
<1>01. PICK same \in SUBSET (1 .. n) : \E match \in [same -> 1 .. b] :
         /\ IsMatch(match, same)
         /\ Cardinality(same) + Lengths[<<b, n>>] = Lengths[<<0, 0>>]
         /\ AreRowsAt(list, after, (1 .. n) \ same)
  BY DEF Kept
<1>1. PICK match \in [same -> 1 .. b] :
         /\ IsMatch(match, same)
         /\ Cardinality(same) + Lengths[<<b, n>>] = Lengths[<<0, 0>>]
         /\ AreRowsAt(list, after, (1 .. n) \ same)
  BY <1>01
<1>2. same \in Common
  <2>1. match \in [same -> DOMAIN before]
    <3> SUFFICES ASSUME NEW i \in same PROVE match[i] \in DOMAIN before
      OBVIOUS
    <3>1. match[i] \in 1 .. b
      OBVIOUS
    <3> QED
      BY <1>0, <3>1
  <2>2. same \in SUBSET DOMAIN after
    BY <1>0
  <2> QED
    BY <1>1, <2>1, <2>2 DEF Common
<1>3. ASSUME NEW other \in Common PROVE Cardinality(other) <= Cardinality(same)
  <2>1. Cardinality(other) <= Lengths[<<0, 0>>]
    <3>1. /\ other \in SUBSET DOMAIN after
          /\ \E where \in [other -> DOMAIN before] : IsMatch(where, other)
      BY DEF Common
    <3>2. PICK where \in [other -> DOMAIN before] : IsMatch(where, other)
      BY <3>1
    <3>3. /\ 0 \in 0 .. m /\ 0 \in 0 .. n
          /\ other \in SUBSET (0 + 1 .. n) /\ where \in [other -> 0 + 1 .. m]
      <4>1. 0 + 1 = 1
        OBVIOUS
      <4> QED
        BY <1>0, <3>1, <4>1
    <3> HIDE DEF m, n
    <3> QED
      BY <3>2, <3>3, NoneLonger DEF m, n
  <2>2. Cardinality(same) \in Nat
    <3>1. IsFiniteSet(1 .. n)
      BY <1>0, FS_Interval
    <3> QED
      BY <3>1, FS_Subset, FS_CardinalityType
  <2>3. Cardinality(same) = Lengths[<<0, 0>>]
    BY <1>1, <2>2
  <2> QED
    BY <2>1, <2>3
<1> QED
  BY <1>0, <1>1, <1>2, <1>3

\* The walk over both screens starts with nothing kept and nothing listed.
LEMMA DifferenceStarts ==
  DifferenceInit => DifferenceInv
<1> SUFFICES ASSUME DifferenceInit PROVE DifferenceInv
  OBVIOUS
<1>1. ASSUME NEW rows \in RowLists PROVE rows \in Seq(Rows) /\ Len(rows) \in 0 .. LargestLength
  <2>1. PICK n \in 0 .. MaxRows : rows \in [1 .. n -> Rows]
    BY <1>1 DEF RowLists
  <2>2. n \in Nat /\ n \in 0 .. LargestLength
    <3>1. MaxRows \in Nat /\ LargestLength \in Nat /\ MaxRows <= LargestLength
      BY MaxRowsAssumption DEF LargestLength
    <3> QED
      BY <2>1, <3>1
  <2>3. rows \in Seq(Rows)
    BY <2>1, <2>2, SeqDef
  <2>4. Len(rows) = n
    BY <2>1, <2>2, <2>3, LenProperties
  <2> QED
    BY <2>2, <2>3, <2>4
<1>2. ScreensTyped
  BY <1>1 DEF DifferenceInit, ScreensTyped
<1>3. Kept(0, 0, <<>>)
  BY <1>2, NothingKept
<1>4. 0 \in 0 .. Len(before) /\ 0 \in 0 .. Len(after) /\ <<>> \in Seq(Rows)
  BY <1>2, EmptySeq DEF ScreensTyped
<1> QED
  BY <1>2, <1>3, <1>4 DEF DifferenceInit, DifferenceInv, LeastIsReported

\* Every step of the walk keeps what was listed right.
LEMMA DifferenceKept ==
  DifferenceInv /\ [DifferenceNext]_differenceVars => DifferenceInv'
<1> SUFFICES ASSUME DifferenceInv, [DifferenceNext]_differenceVars PROVE DifferenceInv'
  OBVIOUS
<1>0. /\ ScreensTyped
      /\ before_index \in 0 .. Len(before) /\ after_index \in 0 .. Len(after)
      /\ changed \in Seq(Rows) /\ returned \in BOOLEAN
      /\ Len(before) \in Nat /\ Len(after) \in Nat
  BY DEF DifferenceInv, ScreensTyped
<1>1. ASSUME UNCHANGED <<before, after>>
      PROVE  /\ ScreensTyped' = ScreensTyped /\ Lengths' = Lengths
             /\ \A b, a, list : Kept(b, a, list)' = Kept(b, a, list)
             /\ Common' = Common
  BY <1>1 DEF ScreensTyped, Lengths, Indices, Kept, IsMatch, Common
<1>2. ASSUME UNCHANGED <<before, after>>, returned' = returned, ~returned,
             before_index' \in 0 .. Len(before), after_index' \in 0 .. Len(after),
             changed' \in Seq(Rows), Kept(before_index', after_index', changed')
      PROVE  DifferenceInv'
  <2>0. ScreensTyped' /\ Lengths' = Lengths /\ before' = before /\ after' = after
    BY <1>0, <1>1, <1>2
  <2>1. ScreensTyped' /\ Kept(before_index, after_index, changed)'
    BY <1>2, <2>0 DEF Kept, IsMatch
  <2>2. LeastIsReported'
    BY <1>2 DEF LeastIsReported
  <2> QED
    BY <1>0, <1>2, <2>1, <2>2 DEF DifferenceInv
<1> DEFINE b == before_index
           a == after_index
<1>3. CASE KeepRow
  <2>1. b < Len(before) /\ a < Len(after) /\ ~returned /\ before[b + 1] = after[a + 1]
    BY <1>3 DEF KeepRow, Comparing, Same
  <2>2. Kept(b, a, changed)
    BY <2>1 DEF DifferenceInv
  <2>3. Kept(b + 1, a + 1, changed)
    BY <1>0, <2>1, <2>2, RowKept
  <2>4. b + 1 \in 0 .. Len(before) /\ a + 1 \in 0 .. Len(after)
    BY <1>0, <2>1
  <2> QED
    BY <1>0, <1>2, <1>3, <2>1, <2>3, <2>4 DEF KeepRow
<1>4. CASE LeaveRow
  <2>1. b < Len(before) /\ a < Len(after) /\ ~returned /\ before[b + 1] # after[a + 1]
    BY <1>4 DEF LeaveRow, Comparing, Same
  <2>2. Kept(b, a, changed)
    BY <2>1 DEF DifferenceInv
  <2>3. b + 1 \in 0 .. Len(before) /\ a + 1 \in 0 .. Len(after)
    BY <1>0, <2>1
  <2>4. Lengths[<<b + 1, a>>] = Lengths[<<b, a>>]
    <3>1. Lengths[<<b + 1, a>>] \in Nat /\ Lengths[<<b, a + 1>>] \in Nat
      BY <1>0, <2>3, LengthsAre
    <3>2. Lengths[<<b, a>>] = LongerOf(Lengths[<<b + 1, a>>], Lengths[<<b, a + 1>>])
      BY <1>0, <2>1, LengthsAre
    <3>3. Lengths[<<b + 1, a>>] >= Lengths[<<b, a + 1>>]
      BY <1>4 DEF LeaveRow, BeforeIsGone
    <3> QED
      BY <3>1, <3>2, <3>3 DEF LongerOf
  <2>5. Kept(b + 1, a, changed)
    BY <1>0, <2>2, <2>4, RowLeft
  <2> QED
    BY <1>0, <1>2, <1>4, <2>1, <2>3, <2>5 DEF LeaveRow
<1>5. CASE ReportRow
  <2>1. b < Len(before) /\ a < Len(after) /\ ~returned /\ before[b + 1] # after[a + 1]
    BY <1>5 DEF ReportRow, Comparing, Same
  <2>2. Kept(b, a, changed)
    BY <2>1 DEF DifferenceInv
  <2>3. b + 1 \in 0 .. Len(before) /\ a + 1 \in 0 .. Len(after) /\ a <= a + 1
    BY <1>0, <2>1
  <2>4. Lengths[<<b, a + 1>>] = Lengths[<<b, a>>]
    <3>1. Lengths[<<b + 1, a>>] \in Nat /\ Lengths[<<b, a + 1>>] \in Nat
      BY <1>0, <2>3, LengthsAre
    <3>2. Lengths[<<b, a>>] = LongerOf(Lengths[<<b + 1, a>>], Lengths[<<b, a + 1>>])
      BY <1>0, <2>1, LengthsAre
    <3>3. ~(Lengths[<<b + 1, a>>] >= Lengths[<<b, a + 1>>])
      BY <1>5 DEF ReportRow, BeforeIsGone
    <3> QED
      BY <3>1, <3>2, <3>3 DEF LongerOf
  <2>5. changed' = changed \o SubSeq(after, a + 1, a + 1)
    <3>1. after \in Seq(Rows) /\ a + 1 \in 1 .. Len(after)
      BY <1>0, <2>3 DEF ScreensTyped
    <3>3. after[a + 1] \in Rows /\ <<after[a + 1]>> \in Seq(Rows)
      BY <3>1, ElementOfSeq
    <3>2. SubSeq(after, a + 1, a + 1) = <<after[a + 1]>>
      <4>1. a + 1 \in a + 1 .. Len(after) /\ (a + 1) - 1 < a + 1
            /\ a + 1 \in Int /\ (a + 1) - 1 \in Int
        BY <1>0, <3>1
      <4>2. SubSeq(after, a + 1, a + 1) = SubSeq(after, a + 1, (a + 1) - 1) \o <<after[a + 1]>>
        BY <3>1, <4>1, SubSeqRecursiveSecond
      <4>3. SubSeq(after, a + 1, (a + 1) - 1) = <<>>
        BY <4>1, SubSeqEmpty
      <4> QED
        BY <3>3, <4>2, <4>3, ConcatEmptySeq
    <3>4. Append(changed, after[a + 1]) = changed \o <<after[a + 1]>>
      BY <1>0, <3>3, AppendIsConcat
    <3> QED
      BY <1>5, <3>2, <3>4 DEF ReportRow
  <2>6. Kept(b, a + 1, changed \o SubSeq(after, a + 1, a + 1))
        /\ changed \o SubSeq(after, a + 1, a + 1) \in Seq(Rows)
    BY <1>0, <2>2, <2>3, <2>4, RowsListed
  <2> QED
    BY <1>0, <1>2, <1>5, <2>1, <2>3, <2>5, <2>6 DEF ReportRow
<1>6. CASE ReturnRows
  <2> DEFINE n == Len(after)
             all == changed \o SubSeq(after, a + 1, n)
  <2>1. /\ (b = Len(before) \/ a = n) /\ ~returned
        /\ UNCHANGED <<before, after, before_index, after_index>>
        /\ changed' = all /\ reported' = WithoutEmptyEnds(all) /\ returned' = TRUE
    BY <1>0, <1>6 DEF ReturnRows, Comparing
  <2>2. Kept(b, a, changed)
    BY <2>1 DEF DifferenceInv
  <2>3. n \in 0 .. n /\ a <= n
    BY <1>0
  <2>4. Lengths[<<b, a>>] = 0 /\ Lengths[<<b, n>>] = 0
    BY <1>0, <2>1, <2>3, LengthsAre
  <2>5. Kept(b, n, all) /\ all \in Seq(Rows)
    BY <1>0, <2>2, <2>3, <2>4, RowsListed
  <2> HIDE DEF all
  <2>6. PICK same \in Common : /\ \A other \in Common : Cardinality(other) <= Cardinality(same)
                               /\ AreRowsAt(all, after, DOMAIN after \ same)
    BY <1>0, <2>4, <2>5, MostKept
  <2>7. IsTrimmed(WithoutEmptyEnds(all), all)
    BY <2>5, EndsTrimmed
  <2>8. same \in Common' /\ \A other \in Common' : Cardinality(other) <= Cardinality(same)
    BY <1>1, <2>1, <2>6
  <2>9. AreRowsAt(changed', after', DOMAIN after' \ same)
    BY <2>1, <2>6
  <2>10. IsTrimmed(reported', changed')
    BY <2>1, <2>7
  <2>11. LeastIsReported'
    BY <2>8, <2>9, <2>10 DEF LeastIsReported
  <2> QED
    BY <1>0, <1>1, <2>1, <2>5, <2>11 DEF DifferenceInv
<1>7. CASE UNCHANGED differenceVars
  <2>1. LeastIsReported'
    <3>1. LeastIsReported' = LeastIsReported
      BY <1>7 DEF differenceVars, LeastIsReported, Common, IsMatch, AreRowsAt, IsTrimmed, Written
    <3> QED
      BY <3>1 DEF DifferenceInv
  <2>2. UNCHANGED <<before, after>>
    BY <1>7 DEF differenceVars
  <2>3. Kept(before_index, after_index, changed)' = Kept(before_index, after_index, changed)
    BY <1>7, <1>1, <2>2 DEF differenceVars, Kept, Lengths, Indices, IsMatch, AreRowsAt
  <2> QED
    BY <1>0, <1>1, <1>7, <2>1, <2>2, <2>3 DEF differenceVars, DifferenceInv
<1> QED
  BY <1>3, <1>4, <1>5, <1>6, <1>7 DEF DifferenceNext

\* Whatever two screens show, the rows reported of the later one are the fewest
\* that are left once rows that stood on the earlier one, in the same order, are
\* taken out, less the empty ones around them (rendered_difference).
THEOREM LeastIsAlwaysReported ==
  DifferenceSpec => []LeastIsReported
<1>1. DifferenceInv => LeastIsReported
  BY DEF DifferenceInv
<1> QED
  BY <1>1, DifferenceStarts, DifferenceKept, PTL DEF DifferenceSpec

-------------------------------------------------------------------------------
(* Interactions: the settle deadline tells which changes were observed since   *)
(* the last acknowledged response, and when; an interaction under way has the  *)
(* one of the job, and does not sleep past it.                                 *)

ChangeTimes ==
    /\ now \in Nat
    /\ lastLinear \in Int /\ firstScreen \in Int /\ lastChange \in Int
    /\ waitAt = Never \/ waitAt \in Nat
    /\ wake \in Int

DeadlineOfChanges ==
    \/ /\ settle = NoDeadline
       /\ lastLinear = Never /\ firstScreen = Never
    \/ /\ settle = Deadline(firstScreen + SettlePeriod, "sampled")
       /\ lastLinear = Never /\ firstScreen \in Nat /\ lastChange # Never
    \/ /\ settle = Deadline(lastLinear + SettlePeriod, "settled")
       /\ lastLinear \in Nat /\ lastChange # Never

InteractionInv ==
    /\ ChangeTimes
    /\ DeadlineOfChanges
    /\ mode \in {"polling", "completing"} => settleAt = settle
    /\ mode = "polling" /\ now < wake /\ settle.kind = "sampled" => wake <= settle.at
    /\ mode = "completing" =>
          /\ status = "settled" => settle.kind = "settled" /\ settle.at <= now
          /\ status = "sampled" => settle.kind = "sampled"

LEMMA InteractionInitially == InteractionInit => InteractionInv
  BY DEF InteractionInit, InteractionInv, ChangeTimes, DeadlineOfChanges, NoDeadline, Deadline,
         Never

LEMMA DeadlineKinds ==
  /\ \A at, kind : Deadline(at, kind).at = at /\ Deadline(at, kind).kind = kind
  /\ NoDeadline.at = Never /\ NoDeadline.kind = "none"
  BY DEF Deadline, NoDeadline

\* A capture keeps the deadline of the job with what was observed.
LEMMA CaptureKeepsDeadline ==
  ASSUME InteractionInv, Capture
  PROVE  /\ DeadlineOfChanges'
         /\ now' = now /\ lastLinear' \in Int /\ firstScreen' \in Int /\ lastChange' \in Int
         /\ settle' = Updated(settle)
<1> USE DEF InteractionInv, ChangeTimes
<1>1. now \in Nat /\ Never \notin Nat /\ now # Never
  BY DEF Never
<1>2. /\ now' = now /\ settle' = Updated(settle)
      /\ lastLinear' = IF Classify = "linear" THEN now ELSE lastLinear
      /\ firstScreen' = IF Classify = "screen" /\ firstScreen = Never THEN now ELSE firstScreen
      /\ lastChange' = IF Classify \in {"linear", "screen"} THEN now ELSE lastChange
  BY DEF Capture
<1>3. CASE Classify = "linear"
  BY <1>1, <1>2, <1>3 DEF Updated, DeadlineOfChanges
<1>4. CASE Classify = "screen"
  <2>1. CASE settle = NoDeadline
    BY <1>1, <1>2, <1>4, <2>1, DeadlineKinds DEF Updated, DeadlineOfChanges
  <2>2. CASE settle # NoDeadline
    BY <1>1, <1>2, <1>4, <2>2 DEF Updated, DeadlineOfChanges
  <2> QED
    BY <2>1, <2>2
<1>5. CASE Classify \notin {"linear", "screen"}
  BY <1>2, <1>5 DEF Updated, DeadlineOfChanges
<1> QED
  BY <1>2, <1>3, <1>4, <1>5

\* What a capture changes of the deadline of a job, an interaction changes alike
\* of its own.
LEMMA PollKeepsInv ==
  ASSUME InteractionInv, Poll
  PROVE  InteractionInv'
<1> DEFINE boundary == Boundary(settleAt')
           reached == boundary # NoDeadline /\ boundary.at <= now
<1>1. Capture /\ mode = "polling" /\ now = wake /\ waitAt' = waitAt
  BY DEF Poll
<1>2. /\ DeadlineOfChanges' /\ now' = now
      /\ lastLinear' \in Int /\ firstScreen' \in Int /\ lastChange' \in Int
  BY <1>1, CaptureKeepsDeadline
<1>3. settleAt' = settle'
  BY <1>1 DEF Poll, Capture, InteractionInv
<1>4. \/ settle' = NoDeadline
      \/ /\ settle' # NoDeadline /\ settle'.at \in Nat
         /\ settle'.kind \in {"sampled", "settled"}
  BY <1>2, DeadlineKinds, PeriodsAssumption DEF DeadlineOfChanges, Never
<1>5. \/ boundary = NoDeadline /\ settle' = NoDeadline
      \/ /\ boundary # NoDeadline /\ boundary.at \in Nat
         /\ settle' # NoDeadline => boundary.at <= settle'.at
         /\ boundary = settle' \/ boundary.kind = "elapsed"
  <2>1. CASE settle' # NoDeadline /\ (waitAt = Never \/ settle'.at <= waitAt)
    BY <1>3, <1>4, <2>1 DEF Boundary
  <2>2. CASE /\ ~(settle' # NoDeadline /\ (waitAt = Never \/ settle'.at <= waitAt))
             /\ waitAt # Never
    <3>1. boundary = Deadline(waitAt, "elapsed")
      BY <1>3, <2>2 DEF Boundary
    <3>2. waitAt \in Nat
      BY <2>2 DEF InteractionInv, ChangeTimes
    <3>3. boundary.at = waitAt /\ boundary.kind = "elapsed" /\ boundary # NoDeadline
      BY <3>1, DeadlineKinds
    <3> HIDE DEF boundary
    <3> QED
      BY <1>4, <2>2, <3>2, <3>3
  <2>3. CASE /\ ~(settle' # NoDeadline /\ (waitAt = Never \/ settle'.at <= waitAt))
             /\ waitAt = Never
    BY <1>3, <2>3 DEF Boundary
  <2> QED
    BY <2>1, <2>2, <2>3
<1>6. CASE exited
  <2>1. mode' = "completing" /\ status' = "exited" /\ wake' = wake
    BY <1>6 DEF Poll
  <2> QED
    BY <1>1, <1>2, <1>3, <2>1 DEF InteractionInv, ChangeTimes
<1>7. CASE ~exited /\ reached
  <2>1. mode' = "completing" /\ status' = boundary.kind /\ wake' = wake
    BY <1>7 DEF Poll
  <2> HIDE DEF boundary
  <2>2. boundary = settle' \/ boundary.kind = "elapsed"
    BY <1>5, <1>7
  <2> QED
    BY <1>1, <1>2, <1>3, <1>7, <2>1, <2>2 DEF InteractionInv, ChangeTimes
<1>8. CASE ~exited /\ ~reached
  <2>1. /\ mode' = mode
        /\ wake' = IF boundary = NoDeadline THEN now + PollInterval
                   ELSE EarlierOf(boundary.at, now + PollInterval)
    BY <1>8 DEF Poll
  <2> HIDE DEF boundary
  <2>2. now \in Nat /\ PollInterval \in Nat
    BY PeriodsAssumption DEF InteractionInv, ChangeTimes
  <2>3. wake' \in Int /\ (settle'.kind = "sampled" => wake' <= settle'.at)
    BY <1>4, <1>5, <2>1, <2>2, DeadlineKinds DEF EarlierOf
  <2> QED
    BY <1>1, <1>2, <1>3, <2>1, <2>3 DEF InteractionInv, ChangeTimes
<1> QED
  BY <1>6, <1>7, <1>8

LEMMA InteractionStep ==
  InteractionInv /\ [InteractionNext]_interactionVars => InteractionInv'
<1> SUFFICES ASSUME InteractionInv, [InteractionNext]_interactionVars
             PROVE  InteractionInv'
  OBVIOUS
<1>1. ASSUME NEW rows \in Screens, NEW alternateAfter \in BOOLEAN, Display(rows, alternateAfter)
      PROVE  InteractionInv'
  BY <1>1 DEF Display, interaction, history, InteractionInv, ChangeTimes, DeadlineOfChanges
<1>2. CASE Exit
  BY <1>2 DEF Exit, interaction, history, InteractionInv, ChangeTimes, DeadlineOfChanges
<1>3. CASE Tick
  BY <1>3 DEF Tick, interaction, history, InteractionInv, ChangeTimes, DeadlineOfChanges
<1>4. CASE Refresh
  BY <1>4, CaptureKeepsDeadline DEF Refresh, interaction, InteractionInv, ChangeTimes
<1>5. ASSUME NEW wait \in Waits, BeginInteraction(wait)
      PROVE  InteractionInv'
  <2>1. waitAt' = Never \/ waitAt' \in Nat
    BY <1>5, WaitsAssumption DEF BeginInteraction, InteractionInv, ChangeTimes
  <2> QED
    BY <1>5, <2>1 DEF BeginInteraction, history, InteractionInv, ChangeTimes, DeadlineOfChanges
<1>6. CASE Poll
  BY <1>6, PollKeepsInv
<1>7. CASE Complete
  BY <1>7, CaptureKeepsDeadline DEF Complete, interaction, InteractionInv, ChangeTimes
<1>8. CASE Cancel
  BY <1>8 DEF Cancel, Idle, history, InteractionInv, ChangeTimes, DeadlineOfChanges, Never
<1>9. CASE AcknowledgeOutput
  BY <1>9 DEF AcknowledgeOutput, Idle, InteractionInv, ChangeTimes, DeadlineOfChanges, Never
<1>10. CASE OutputUndelivered
  BY <1>10 DEF OutputUndelivered, Idle, history, InteractionInv, ChangeTimes,
               DeadlineOfChanges, Never
<1>11. CASE UNCHANGED interactionVars
  BY <1>11 DEF interactionVars, interaction, history, InteractionInv, ChangeTimes,
               DeadlineOfChanges
<1> QED
  BY <1>1, <1>2, <1>3, <1>4, <1>5, <1>6, <1>7, <1>8, <1>9, <1>10, <1>11 DEF InteractionNext

LEMMA InteractionInvariant == InteractionSpec => []InteractionInv
  BY InteractionInitially, InteractionStep, PTL DEF InteractionSpec

\* For any periods, waits and output: when an interaction returns because the
\* output has settled, no linear change was observed for the settle period.
THEOREM SettledOutputIsQuiet == InteractionSpec => []SettledMeansQuiet
<1>1. InteractionInv => SettledMeansQuiet
  <2> SUFFICES ASSUME InteractionInv, mode = "completing", status = "settled"
               PROVE  lastLinear # Never /\ now - lastLinear >= SettlePeriod
    BY DEF SettledMeansQuiet
  <2>1. settle.kind = "settled" /\ settle.at <= now /\ now \in Nat
    BY DEF InteractionInv, ChangeTimes
  <2>2. lastLinear \in Nat /\ settle.at = lastLinear + SettlePeriod
    BY <2>1, DeadlineKinds DEF InteractionInv, DeadlineOfChanges
  <2> QED
    BY <2>1, <2>2, PeriodsAssumption DEF Never
<1> QED
  BY <1>1, InteractionInvariant, PTL

\* An interaction does not sleep past the settle period after the first change
\* of an interactive screen, however often that changes.
THEOREM BusyScreensAreSampled == InteractionSpec => []SampleIsBounded
<1>1. InteractionInv => SampleIsBounded
  <2> SUFFICES ASSUME InteractionInv, mode = "polling", now < wake,
                      firstScreen # Never, lastLinear = Never
               PROVE  wake <= firstScreen + SettlePeriod
    BY DEF SampleIsBounded
  <2>1. settle = Deadline(firstScreen + SettlePeriod, "sampled")
    BY DEF InteractionInv, DeadlineOfChanges, Never
  <2> QED
    BY <2>1, DeadlineKinds DEF InteractionInv
<1> QED
  BY <1>1, InteractionInvariant, PTL

\* An interaction that returns on account of output has observed some since the
\* last acknowledged response.
THEOREM OnlyNewOutputEndsWaits == InteractionSpec => []DeliveredOutputIsOver
<1>1. InteractionInv => DeliveredOutputIsOver
  <2> SUFFICES ASSUME InteractionInv, mode = "completing", status \in {"settled", "sampled"}
               PROVE  lastChange # Never
    BY DEF DeliveredOutputIsOver
  <2>1. settle.kind \in {"settled", "sampled"}
    BY DEF InteractionInv
  <2> QED
    BY <2>1, DeadlineKinds DEF InteractionInv, DeadlineOfChanges
<1> QED
  BY <1>1, InteractionInvariant, PTL

-------------------------------------------------------------------------------
(* Shell jobs: who knows of a job, what a call has typed, and what is left of  *)
(* a job that has ended before its caller connected.                           *)

WorkerStates == {"none", "started", "bound", "spawned", "serving", "ended"}
Endings == {"none", "unprepared", "unheard", "failed", "answered", "closed", "finished",
            "spool_failed", "expired", "killed"}
Statuses == {"settled", "elapsed", "exited", "not_found", "error", "closed", "user_interrupted"}

Tools == {"bash_job", "job_interact", "job_close"}

Requests == [input : Seq(Nat), enter : BOOLEAN, close : BOOLEAN]

Calls == [tool : Tools, job : Handles, input : Nat \cup {None},
          at : {"launching", "connecting", "sent", "served"}, requests : Seq(Requests) \ {<<>>}]

Results == [tool : Tools \cup {"tool_result"}, about : Handles, input : Nat \cup {None},
            status : Statuses, handle : Handles \cup {None}, nested : BOOLEAN]

JobsTyped ==
    /\ worker \in [Handles -> WorkerStates] /\ ending \in [Handles -> Endings]
    /\ reader \in [Handles -> BOOLEAN]
    /\ report \in [Handles -> {"none", "failed", "ready"}]
    /\ command \in [Handles -> {"none", "running", "exited"}]
    /\ kept \in [Handles -> BOOLEAN]
    /\ typed \in [Handles -> Seq(Nat)] /\ lines \in [Handles -> SUBSET Seq(Nat)]
    /\ abandoned \in [Handles -> Seq(Requests)]

SessionTyped ==
    /\ call = NoToolCall \/ call \in Calls
    /\ callCount \in Nat
    /\ results \in Seq(Results)

\* A worker has been launched.
HasLaunched(j) == worker[j] \in {"serving", "ended"}

\* A job that was started is known to the session, or the call that starts it is
\* not over, or has failed, or the job goes on in no way that matters.
Accounted(j) ==
    \/ call.tool = "bash_job" /\ call.job = j
    \/ Known(j)
    \/ j \in lost
    \/ worker[j] \in {"none", "ended"}
    \/ worker[j] = "serving" /\ command[j] # "running"

JobInv(j) ==
    /\ report[j] = "ready" => HasLaunched(j)
    /\ Known(j) => HasLaunched(j)
    /\ worker[j] = "none" => ending[j] = "none"
    /\ Accounted(j)

\* A job that is started has its last response in the spool if it has finished.
StartInv ==
    call.tool = "bash_job" =>
        /\ call.requests = <<ReadOnly>> /\ call.input = None
        /\ call.at # "launching" => HasLaunched(call.job)
        /\ ending[call.job] # "answered"
        /\ ending[call.job] = "finished" => kept[call.job]

AccessInv ==
    call.tool \in {"job_interact", "job_close"} => Known(call.job) /\ call.at # "launching"

EndsIn(keys, input) == keys # <<>> /\ Last(keys) = input
Entered(j, input) == \E keys \in lines[j] : EndsIn(keys, input)

\* The line a call has begun is not continued by others: a write is served only
\* when nothing else is left to be served before it.
InputInv ==
    call # NoToolCall /\ call.input # None =>
        /\ call.tool = "job_interact"
        /\ \/ call.requests = <<Request(<<call.input>>, TRUE, FALSE)>>
           \/ /\ call.requests = <<Request(<<call.input>>, FALSE, FALSE), EnterKey>>
              /\ call.at # "served"
           \/ /\ call.requests = <<EnterKey>>
              /\ \/ call.at = "served"
                 \/ worker[call.job] = "ended"
                 \/ abandoned[call.job] = <<>> /\ EndsIn(typed[call.job], call.input)
        /\ call.at = "served" => Entered(call.job, call.input)

ResultInv(r) ==
    /\ r.input # None /\ r.status \in RunningStatuses => Entered(r.about, r.input)
    /\ r.tool = "bash_job" /\ r.status = "not_found" =>
          worker[r.about] = "ended" /\ ending[r.about] \notin {"finished", "answered"}

JobsInv ==
    /\ JobsTyped /\ SessionTyped
    /\ \A j \in Handles : JobInv(j)
    /\ StartInv /\ AccessInv /\ InputInv
    /\ \A r \in ToSet(results) : ResultInv(r)

LEMMA RequestsAreTyped ==
  /\ ReadOnly \in Requests /\ EnterKey \in Requests /\ CloseRequest \in Requests
  /\ \A n \in Nat, enter \in BOOLEAN : Request(<<n>>, enter, FALSE) \in Requests
<1>1. \A input, enter, close : Request(input, enter, close) =
         [input |-> input, enter |-> enter, close |-> close]
  BY DEF Request
<1>2. <<>> \in Seq(Nat) /\ \A n \in Nat : <<n>> \in Seq(Nat)
  BY EmptySeq
<1> QED
  BY <1>1, <1>2 DEF ReadOnly, EnterKey, CloseRequest, Requests

\* Of a call in flight.
LEMMA InFlight ==
  ASSUME SessionTyped
  PROVE  /\ call.at \in {"launching", "connecting", "sent", "served"} => call \in Calls
         /\ call.tool \in Tools => call \in Calls
         /\ call.job \in Handles => call \in Calls
         /\ call # NoToolCall => call \in Calls
<1>1. /\ NoToolCall.at = "idle" /\ NoToolCall.tool = None /\ NoToolCall.job = None
  BY DEF NoToolCall
<1> QED
  BY <1>1, JobsAssumption DEF SessionTyped, Tools

LEMMA CallFields ==
  ASSUME call \in Calls
  PROVE  /\ call.tool \in Tools /\ call.job \in Handles /\ call.input \in Nat \cup {None}
         /\ call.at \in {"launching", "connecting", "sent", "served"}
         /\ call.requests \in Seq(Requests) /\ call.requests # <<>>
         /\ Head(call.requests) \in Requests
         /\ call # NoToolCall
<1>1. /\ call.tool \in Tools /\ call.job \in Handles /\ call.input \in Nat \cup {None}
      /\ call.at \in {"launching", "connecting", "sent", "served"}
      /\ call.requests \in Seq(Requests) /\ call.requests # <<>>
  BY DEF Calls
<1>2. Head(call.requests) \in Requests
  BY <1>1, HeadTailProperties
<1>3. NoToolCall.at = "idle"
  BY DEF NoToolCall
<1> QED
  BY <1>1, <1>2, <1>3

LEMMA CallGoesTo ==
  ASSUME call \in Calls, NEW at \in {"launching", "connecting", "sent", "served"}, Goto(at)
  PROVE  /\ call' \in Calls
         /\ call'.tool = call.tool /\ call'.job = call.job /\ call'.input = call.input
         /\ call'.requests = call.requests /\ call'.at = at
         /\ UNCHANGED <<callCount, results, lost, deleted>>
  BY DEF Goto, Calls

LEMMA LongTails ==
  ASSUME NEW S, NEW s \in Seq(S), Len(s) > 1
  PROVE  Tail(s) \in Seq(S) /\ Tail(s) # <<>>
<1>1. s # <<>>
  BY EmptySeq
<1>2. Tail(s) \in Seq(S) /\ Len(Tail(s)) = Len(s) - 1
  BY <1>1, HeadTailProperties
<1>3. Len(s) \in Nat
  BY LenProperties
<1> DEFINE t == Tail(s)
<1>4. t \in Seq(S) /\ Len(t) # 0
  BY <1>2, <1>3
<1> HIDE DEF t
<1>5. t # <<>>
  BY <1>4, EmptySeq
<1> QED
  BY <1>2, <1>5 DEF t

LEMMA CallGoesOn ==
  ASSUME call \in Calls, IsWrite, NextRequest
  PROVE  /\ call' \in Calls
         /\ call'.tool = call.tool /\ call'.job = call.job /\ call'.input = call.input
         /\ call'.requests = Tail(call.requests) /\ call'.at = "connecting"
         /\ UNCHANGED <<callCount, results, lost, deleted>>
<1>1. call.requests \in Seq(Requests) /\ call.requests # <<>> /\ Len(call.requests) > 1
  BY CallFields DEF IsWrite
<1>2. Tail(call.requests) \in Seq(Requests) /\ Tail(call.requests) # <<>>
  BY <1>1, LongTails
<1>3. call' = [call EXCEPT !.at = "connecting", !.requests = Tail(call.requests)]
  BY DEF NextRequest
<1>4. /\ call'.tool = call.tool /\ call'.job = call.job /\ call'.input = call.input
      /\ call'.requests = Tail(call.requests) /\ call'.at = "connecting"
  BY <1>3 DEF Calls
<1>5. call' \in Calls
  BY <1>2, <1>3 DEF Calls
<1> QED
  BY <1>4, <1>5 DEF NextRequest

\* What a new result adds to what the session knows.
LEMMA ResultIsAdded ==
  ASSUME SessionTyped, NEW r \in Results, results' = Append(results, r)
  PROVE  /\ results' \in Seq(Results)
         /\ ToSet(results') = ToSet(results) \cup {r}
         /\ \A j \in Handles : Known(j)' <=> Known(j) \/ r.handle = j
<1>1. results \in Seq(Results)
  BY DEF SessionTyped
<1>2. /\ results' \in Seq(Results) /\ Len(results') = Len(results) + 1
      /\ \A i \in 1 .. Len(results) : results'[i] = results[i]
      /\ results'[Len(results) + 1] = r
  BY <1>1, AppendProperties
<1>3. /\ DOMAIN results = 1 .. Len(results) /\ DOMAIN results' = 1 .. Len(results) + 1
      /\ Len(results) \in Nat
  BY <1>1, <1>2, LenProperties
<1>4. ToSet(results') = ToSet(results) \cup {r}
  BY <1>2, <1>3 DEF ToSet
<1>5. ASSUME NEW j \in Handles PROVE Known(j)' <=> Known(j) \/ r.handle = j
  BY <1>2, <1>3 DEF Known
<1> QED
  BY <1>2, <1>4, <1>5

LEMMA CallIsAnswered ==
  ASSUME SessionTyped, call \in Calls, NEW why \in Statuses, Answer(why)
  PROVE  LET r == ToolResult(call.tool, call.job, call.input, why) IN
         /\ SessionTyped' /\ call' = NoToolCall
         /\ r \in Results
         /\ r.tool = call.tool /\ r.about = call.job /\ r.input = call.input
         /\ r.status = why
         /\ ToSet(results') = ToSet(results) \cup {r}
         /\ \A j \in Handles : Known(j)' <=>
               \/ Known(j)
               \/ j = call.job /\ why \in RunningStatuses \cup {"user_interrupted"}
<1> DEFINE r == ToolResult(call.tool, call.job, call.input, why)
<1>1. /\ r.tool = call.tool /\ r.about = call.job /\ r.input = call.input
      /\ r.status = why
      /\ r.handle = IF why \in RunningStatuses \cup {"user_interrupted"} THEN call.job
                    ELSE None
  BY DEF ToolResult
<1>2. r \in Results
  BY CallFields DEF ToolResult, Results
<1>3. call' = NoToolCall /\ results' = Append(results, r) /\ callCount' = callCount
  BY DEF Answer
<1> HIDE DEF r
<1>4. /\ results' \in Seq(Results) /\ ToSet(results') = ToSet(results) \cup {r}
      /\ \A j \in Handles : Known(j)' <=> Known(j) \/ r.handle = j
  BY <1>2, <1>3, ResultIsAdded
<1>5. SessionTyped'
  BY <1>3, <1>4 DEF SessionTyped
<1>6. \A j \in Handles : Known(j)' <=>
         \/ Known(j)
         \/ j = call.job /\ why \in RunningStatuses \cup {"user_interrupted"}
  BY <1>1, <1>4, JobsAssumption
<1> QED
  BY <1>1, <1>2, <1>3, <1>4, <1>5, <1>6 DEF r

LEMMA WorkerEnds ==
  ASSUME JobsTyped, NEW j \in Handles, NEW why \in Endings, Ends(j, why)
  PROVE  /\ worker' \in [Handles -> WorkerStates] /\ ending' \in [Handles -> Endings]
         /\ worker'[j] = "ended" /\ ending'[j] = why
         /\ \A k \in Handles \ {j} : worker'[k] = worker[k] /\ ending'[k] = ending[k]
  BY DEF Ends, JobsTyped, WorkerStates

LEMMA CommandHangsUp ==
  ASSUME JobsTyped, NEW j \in Handles, HangUp(j)
  PROVE  /\ command' \in [Handles -> {"none", "running", "exited"}]
         /\ \A k \in Handles \ {j} : command'[k] = command[k]
  BY DEF HangUp, JobsTyped

LEMMA KeysAreTyped ==
  ASSUME JobsTyped, NEW j \in Handles, NEW request \in Requests, Type(j, request)
  PROVE  /\ typed' \in [Handles -> Seq(Nat)] /\ lines' \in [Handles -> SUBSET Seq(Nat)]
         /\ \A k \in Handles : lines[k] \subseteq lines'[k]
         /\ \A k \in Handles \ {j} : typed'[k] = typed[k]
         /\ IF request.enter THEN typed[j] \o request.input \in lines'[j]
            ELSE typed'[j] = typed[j] \o request.input
<1> DEFINE keys == typed[j] \o request.input
<1>1. keys \in Seq(Nat) /\ <<>> \in Seq(Nat)
  BY ConcatProperties, EmptySeq DEF JobsTyped, Requests
<1>2. IF request.enter
      THEN lines' = [lines EXCEPT ![j] = @ \cup {keys}] /\ typed' = [typed EXCEPT ![j] = <<>>]
      ELSE typed' = [typed EXCEPT ![j] = keys] /\ lines' = lines
  BY DEF Type
<1> HIDE DEF keys
<1>3. /\ typed' \in [Handles -> Seq(Nat)] /\ lines' \in [Handles -> SUBSET Seq(Nat)]
      /\ \A k \in Handles : lines[k] \subseteq lines'[k]
      /\ \A k \in Handles \ {j} : typed'[k] = typed[k]
      /\ IF request.enter THEN keys \in lines'[j] ELSE typed'[j] = keys
  <2>1. CASE request.enter
    <3>1. lines' = [lines EXCEPT ![j] = @ \cup {keys}] /\ typed' = [typed EXCEPT ![j] = <<>>]
      BY <1>2, <2>1
    <3>2. lines' \in [Handles -> SUBSET Seq(Nat)]
      BY <1>1, <3>1 DEF JobsTyped
    <3>3. typed' \in [Handles -> Seq(Nat)]
      BY <1>1, <3>1 DEF JobsTyped
    <3> QED
      BY <2>1, <3>1, <3>2, <3>3 DEF JobsTyped
  <2>2. CASE ~request.enter
    BY <1>1, <1>2, <2>2 DEF JobsTyped
  <2> QED
    BY <2>1, <2>2
<1> QED
  BY <1>3 DEF keys

LEMMA RequestIsLeft ==
  ASSUME JobsTyped, call \in Calls, LeaveRequest
  PROVE  /\ JobsTyped' /\ UNCHANGED <<worker, ending, reader, report, command, kept, lines>>
<1>1. Append(abandoned[call.job], Head(call.requests)) \in Seq(Requests)
  BY CallFields, AppendProperties DEF JobsTyped
<1>2. abandoned' \in [Handles -> Seq(Requests)]
  BY <1>1, CallFields DEF LeaveRequest, JobsTyped
<1> QED
  BY <1>2 DEF LeaveRequest, JobsTyped

\* What any step does to a job.
Evolves(j) ==
    /\ worker[j] = "none" => worker'[j] \in {"none", "started"} /\ ending'[j] = ending[j]
    /\ worker[j] # "none" => worker'[j] # "none"
    /\ worker[j] = "serving" => worker'[j] \in {"serving", "ended"}
    /\ worker[j] = "ended" => worker'[j] = "ended" /\ ending'[j] = ending[j]
    /\ report'[j] = "ready" => report[j] = "ready" \/ worker'[j] \in {"serving", "ended"}
    /\ worker[j] = "serving" /\ command[j] # "running" =>
          worker'[j] = "ended" \/ command'[j] # "running"
    /\ lines[j] \subseteq lines'[j]

AllEvolve == \A j \in Handles : Evolves(j)

LEMMA SameJobsEvolve ==
  ASSUME JobsTyped, UNCHANGED <<worker, ending, report, command, lines>>
  PROVE  AllEvolve
  BY DEF AllEvolve, Evolves, JobsTyped

\* Of the steps of workers, commands and leases.
WorkerSteps(j) ==
    \/ Bind(j) \/ SpawnCommand(j) \/ PrepareFails(j) \/ ReportReady(j) \/ ReportFails(j)
    \/ TypingFails(j) \/ ServeAbandoned(j) \/ CommandExits(j) \/ WorkerFinishes(j)
    \/ Expire(j) \/ WorkerDies(j)

\* What these do to a job in addition.
GoesOn(j) ==
    /\ Evolves(j)
    /\ worker'[j] \in {"none", "started"} => worker'[j] = worker[j]
    /\ worker'[j] = "none" <=> worker[j] = "none"
    /\ ending'[j] = "answered" => ending[j] = "answered"
    /\ ending'[j] = "finished" => kept'[j] \/ (ending[j] = "finished" /\ kept'[j] = kept[j])
    /\ abandoned[j] = <<>> => abandoned'[j] = <<>> /\ typed'[j] = typed[j]

LEMMA WorkersGoOn ==
  ASSUME JobsTyped, NEW j \in Handles, WorkerSteps(j)
  PROVE  JobsTyped' /\ UNCHANGED session /\ \A k \in Handles : GoesOn(k)
<1>1. CASE Bind(j)
  BY <1>1 DEF Bind, JobsTyped, WorkerStates, GoesOn, Evolves
<1>2. CASE SpawnCommand(j)
  BY <1>2 DEF SpawnCommand, JobsTyped, WorkerStates, GoesOn, Evolves
<1>3. CASE PrepareFails(j)
  <2>1. /\ worker' \in [Handles -> WorkerStates] /\ ending' \in [Handles -> Endings]
        /\ worker'[j] = "ended" /\ ending'[j] = "unprepared"
        /\ \A k \in Handles \ {j} : worker'[k] = worker[k] /\ ending'[k] = ending[k]
    BY <1>3, WorkerEnds DEF PrepareFails, Endings
  <2> QED
    BY <1>3, <2>1 DEF PrepareFails, JobsTyped, GoesOn, Evolves
<1>4. CASE ReportReady(j)
  BY <1>4 DEF ReportReady, JobsTyped, WorkerStates, GoesOn, Evolves
<1>5. CASE ReportFails(j)
  <2>1. /\ worker' \in [Handles -> WorkerStates] /\ ending' \in [Handles -> Endings]
        /\ worker'[j] = "ended" /\ ending'[j] = "unheard"
        /\ \A k \in Handles \ {j} : worker'[k] = worker[k] /\ ending'[k] = ending[k]
    BY <1>5, WorkerEnds DEF ReportFails, Endings
  <2>2. /\ command' \in [Handles -> {"none", "running", "exited"}]
        /\ \A k \in Handles \ {j} : command'[k] = command[k]
    BY <1>5, CommandHangsUp DEF ReportFails
  <2> QED
    BY <1>5, <2>1, <2>2 DEF ReportFails, JobsTyped, GoesOn, Evolves
<1>6. CASE TypingFails(j)
  <2>1. /\ worker' \in [Handles -> WorkerStates] /\ ending' \in [Handles -> Endings]
        /\ worker'[j] = "ended" /\ ending'[j] = "failed"
        /\ \A k \in Handles \ {j} : worker'[k] = worker[k] /\ ending'[k] = ending[k]
    BY <1>6, WorkerEnds DEF TypingFails, Endings
  <2> QED
    BY <1>6, <2>1 DEF TypingFails, Turn, Serving, JobsTyped, GoesOn, Evolves
<1>7. CASE ServeAbandoned(j)
  <2>1. abandoned[j] \in Seq(Requests) /\ abandoned[j] # <<>>
    BY <1>7 DEF ServeAbandoned, JobsTyped
  <2>2. Head(abandoned[j]) \in Requests /\ Tail(abandoned[j]) \in Seq(Requests)
    BY <2>1, HeadTailProperties
  <2>3. /\ abandoned' \in [Handles -> Seq(Requests)]
        /\ \A k \in Handles \ {j} : abandoned'[k] = abandoned[k]
    BY <1>7, <2>2 DEF ServeAbandoned, JobsTyped
  <2>4. CASE Head(abandoned[j]).close
    <3>1. /\ Ends(j, "closed") /\ command' = [command EXCEPT ![j] = "exited"]
          /\ UNCHANGED <<typed, lines>>
      BY <1>7, <2>4 DEF ServeAbandoned, Close
    <3>2. /\ worker' \in [Handles -> WorkerStates] /\ ending' \in [Handles -> Endings]
          /\ worker'[j] = "ended" /\ ending'[j] = "closed"
          /\ \A k \in Handles \ {j} : worker'[k] = worker[k] /\ ending'[k] = ending[k]
      BY <3>1, WorkerEnds DEF Endings
    <3> QED
      BY <1>7, <2>1, <2>3, <3>1, <3>2 DEF ServeAbandoned, Serving, JobsTyped, GoesOn, Evolves
  <2>5. CASE ~Head(abandoned[j]).close
    <3>1. Type(j, Head(abandoned[j])) /\ UNCHANGED <<worker, ending, command>>
      BY <1>7, <2>5 DEF ServeAbandoned
    <3>2. /\ typed' \in [Handles -> Seq(Nat)] /\ lines' \in [Handles -> SUBSET Seq(Nat)]
          /\ \A k \in Handles : lines[k] \subseteq lines'[k]
          /\ \A k \in Handles \ {j} : typed'[k] = typed[k]
      BY <2>2, <3>1, KeysAreTyped
    <3> QED
      BY <1>7, <2>1, <2>3, <3>1, <3>2 DEF ServeAbandoned, Serving, JobsTyped, GoesOn, Evolves
  <2> QED
    BY <2>4, <2>5
<1>8. CASE CommandExits(j)
  BY <1>8 DEF CommandExits, JobsTyped, GoesOn, Evolves
<1>9. CASE WorkerFinishes(j)
  <2>1. \E why \in {"finished", "spool_failed"} :
           /\ Ends(j, why)
           /\ kept' = IF why = "finished" THEN [kept EXCEPT ![j] = TRUE] ELSE kept
    BY <1>9 DEF WorkerFinishes
  <2>2. PICK why \in {"finished", "spool_failed"} :
           /\ Ends(j, why)
           /\ kept' = IF why = "finished" THEN [kept EXCEPT ![j] = TRUE] ELSE kept
    BY <2>1
  <2>3. /\ worker' \in [Handles -> WorkerStates] /\ ending' \in [Handles -> Endings]
        /\ worker'[j] = "ended" /\ ending'[j] = why
        /\ \A k \in Handles \ {j} : worker'[k] = worker[k] /\ ending'[k] = ending[k]
    BY <2>2, WorkerEnds DEF Endings
  <2>4. /\ kept' \in [Handles -> BOOLEAN]
        /\ why = "finished" => kept'[j]
        /\ \A k \in Handles \ {j} : kept'[k] = kept[k]
    BY <2>2 DEF JobsTyped
  <2>5. worker[j] = "serving" /\ UNCHANGED <<reader, report, command, typed, lines, abandoned>>
    BY <1>9 DEF WorkerFinishes, Serving
  <2>6. JobsTyped'
    BY <2>3, <2>4, <2>5 DEF JobsTyped
  <2>7. GoesOn(j)
    <3>1. ending'[j] = "finished" => kept'[j]
      BY <2>3, <2>4, Zenon
    <3>2. Evolves(j) /\ ending'[j] # "answered" /\ worker'[j] = "ended"
      BY <2>2, <2>3, <2>5 DEF Evolves
    <3>3. abandoned[j] = <<>> => abandoned'[j] = <<>> /\ typed'[j] = typed[j]
      BY <2>5
    <3> QED
      BY <2>5, <3>1, <3>2, <3>3 DEF GoesOn
  <2>8. \A k \in Handles \ {j} : GoesOn(k)
    BY <2>3, <2>4, <2>5 DEF JobsTyped, GoesOn, Evolves
  <2> QED
    BY <1>9, <2>6, <2>7, <2>8 DEF WorkerFinishes
<1>10. CASE Expire(j)
  <2>1. /\ worker' \in [Handles -> WorkerStates] /\ ending' \in [Handles -> Endings]
        /\ worker'[j] = "ended" /\ ending'[j] = "expired"
        /\ \A k \in Handles \ {j} : worker'[k] = worker[k] /\ ending'[k] = ending[k]
    BY <1>10, WorkerEnds DEF Expire, Endings
  <2> QED
    BY <1>10, <2>1 DEF Expire, Serving, JobsTyped, GoesOn, Evolves
<1>11. CASE WorkerDies(j)
  <2>1. /\ worker' \in [Handles -> WorkerStates] /\ ending' \in [Handles -> Endings]
        /\ worker'[j] = "ended" /\ ending'[j] = "killed"
        /\ \A k \in Handles \ {j} : worker'[k] = worker[k] /\ ending'[k] = ending[k]
    BY <1>11, WorkerEnds DEF WorkerDies, Endings
  <2>2. /\ command' \in [Handles -> {"none", "running", "exited"}]
        /\ \A k \in Handles \ {j} : command'[k] = command[k]
    BY <1>11, CommandHangsUp DEF WorkerDies
  <2>3. worker[j] \notin {"none", "ended"}
    BY <1>11 DEF WorkerDies, Listening
  <2> QED
    BY <1>11, <2>1, <2>2, <2>3 DEF WorkerDies, JobsTyped, GoesOn, Evolves
<1> QED
  BY <1>1, <1>2, <1>3, <1>4, <1>5, <1>6, <1>7, <1>8, <1>9, <1>10, <1>11 DEF WorkerSteps

LEMMA EnteredStays ==
  ASSUME NEW j \in Handles, NEW input, Evolves(j), Entered(j, input)
  PROVE  Entered(j, input)'
  BY DEF Entered, Evolves

LEMMA ResultStays ==
  ASSUME NEW r \in Results, ResultInv(r), AllEvolve
  PROVE  ResultInv(r)'
<1>1. r.about \in Handles
  BY DEF Results
<1>2. Evolves(r.about)
  BY <1>1 DEF AllEvolve
<1>3. r.input # None /\ r.status \in RunningStatuses => Entered(r.about, r.input)'
  BY <1>1, <1>2, EnteredStays DEF ResultInv
<1>4. r.tool = "bash_job" /\ r.status = "not_found" =>
         worker'[r.about] = "ended" /\ ending'[r.about] \notin {"finished", "answered"}
  BY <1>2 DEF ResultInv, Evolves
<1> QED
  BY <1>3, <1>4 DEF ResultInv

LEMMA ResultsAreTyped ==
  ASSUME SessionTyped, NEW r \in ToSet(results)
  PROVE  r \in Results
<1>1. \A i \in 1 .. Len(results) : results[i] \in Results
  BY ElementOfSeq DEF SessionTyped
<1> QED
  BY <1>1, LenProperties DEF SessionTyped, ToSet

\* No step but the start of a job takes it from nowhere.
NoneStarts == \A j \in Handles : worker[j] = "none" => worker'[j] = "none"

LEMMA JobStays ==
  ASSUME NEW j \in Handles, JobsTyped, JobInv(j), Evolves(j), NoneStarts,
         Known(j) => Known(j)', Known(j)' => Known(j) \/ HasLaunched(j)',
         lost \subseteq lost',
         call.tool = "bash_job" /\ call.job = j => Accounted(j)'
  PROVE  JobInv(j)'
<1>1. report'[j] = "ready" => HasLaunched(j)'
  BY DEF JobInv, Evolves, HasLaunched
<1>2. Known(j)' => HasLaunched(j)'
  BY DEF JobInv, Evolves, HasLaunched
<1>3. worker'[j] = "none" => ending'[j] = "none"
  BY DEF JobInv, Evolves
<1>4. Accounted(j)'
  BY DEF JobInv, Evolves, Accounted, NoneStarts
<1> QED
  BY <1>1, <1>2, <1>3, <1>4 DEF JobInv

\* Steps of workers, commands and leases.
LEMMA WorkersKeepInv ==
  ASSUME JobsInv, NEW j \in Handles, WorkerSteps(j)
  PROVE  JobsInv'
<1>1. JobsTyped' /\ UNCHANGED session /\ \A k \in Handles : GoesOn(k)
  BY WorkersGoOn DEF JobsInv
<1>2. /\ call' = call /\ results' = results /\ lost' = lost /\ callCount' = callCount
      /\ \A k \in Handles : Known(k)' <=> Known(k)
  BY <1>1 DEF session, Known
<1>3. SessionTyped'
  BY <1>2 DEF JobsInv, SessionTyped
<1>4. AllEvolve /\ NoneStarts
  BY <1>1 DEF AllEvolve, GoesOn, NoneStarts
<1>5. \A k \in Handles : JobInv(k)'
  <2> TAKE k \in Handles
  <2>1. call.tool = "bash_job" /\ call.job = k => Accounted(k)'
    BY <1>2 DEF Accounted
  <2> QED
    BY <1>2, <1>4, <2>1, JobStays DEF JobsInv, AllEvolve
<1>6. call.tool = "bash_job" => GoesOn(call.job)
  <2>1. call.tool = "bash_job" => call.job \in Handles
    BY InFlight, CallFields DEF JobsInv, Tools
  <2> QED
    BY <1>1, <2>1
<1>7. StartInv'
  <2> SUFFICES ASSUME call.tool = "bash_job"
               PROVE  StartInv'
    BY <1>2 DEF StartInv
  <2>1. HasLaunched(call.job) => HasLaunched(call.job)'
    BY <1>2, <1>6 DEF GoesOn, Evolves, HasLaunched
  <2>2. ending'[call.job] # "answered"
    BY <1>6 DEF GoesOn, StartInv, JobsInv
  <2>3. ending'[call.job] = "finished" => kept'[call.job]
    BY <1>6, Zenon DEF GoesOn, StartInv, JobsInv
  <2> QED
    BY <1>2, <2>1, <2>2, <2>3 DEF StartInv, JobsInv
<1>8. AccessInv'
  <2>1. call.tool \in {"job_interact", "job_close"} => call.job \in Handles
    BY InFlight, CallFields DEF JobsInv, Tools
  <2> QED
    BY <1>2, <2>1 DEF JobsInv, AccessInv
<1>9. InputInv'
  <2> SUFFICES ASSUME call # NoToolCall, call.input # None
               PROVE  InputInv'
    BY <1>2 DEF InputInv
  <2>1. call.job \in Handles
    BY InFlight, CallFields, JobsAssumption DEF JobsInv
  <2>2. GoesOn(call.job)
    BY <1>1, <2>1
  <2>3. Entered(call.job, call.input) => Entered(call.job, call.input)'
    BY <1>2, <2>1, <2>2, EnteredStays DEF GoesOn
  <2>4. worker[call.job] = "ended" => worker'[call.job] = "ended"
    BY <2>2 DEF GoesOn, Evolves
  <2>5. abandoned[call.job] = <<>> =>
           abandoned'[call.job] = <<>> /\ typed'[call.job] = typed[call.job]
    BY <2>2 DEF GoesOn
  <2> QED
    BY <1>2, <2>3, <2>4, <2>5 DEF JobsInv, InputInv
<1>10. \A r \in ToSet(results') : ResultInv(r)'
  BY <1>2, <1>4, ResultStays, ResultsAreTyped DEF JobsInv
<1> QED
  BY <1>1, <1>3, <1>5, <1>7, <1>8, <1>9, <1>10 DEF JobsInv

\* A call goes on.
LEMMA CallsKeepInv ==
  ASSUME JobsInv, JobsTyped', call \in Calls, call' \in Calls,
         call'.tool = call.tool, call'.job = call.job,
         call'.at = "launching" => call.at = "launching",
         UNCHANGED <<callCount, results, lost>>,
         AllEvolve, NoneStarts, StartInv', InputInv'
  PROVE  JobsInv'
<1>1. \A k \in Handles : Known(k)' <=> Known(k)
  BY DEF Known
<1>2. SessionTyped'
  BY DEF JobsInv, SessionTyped
<1>3. \A k \in Handles : JobInv(k)'
  <2> TAKE k \in Handles
  <2>1. call.tool = "bash_job" /\ call.job = k => Accounted(k)'
    BY DEF Accounted
  <2> QED
    BY <1>1, <2>1, JobStays DEF JobsInv, AllEvolve
<1>4. AccessInv'
  BY <1>1, CallFields DEF JobsInv, AccessInv
<1>5. \A r \in ToSet(results') : ResultInv(r)'
  BY ResultStays, ResultsAreTyped DEF JobsInv
<1> QED
  BY <1>2, <1>3, <1>4, <1>5 DEF JobsInv

\* A call is over, with or without a result.
LEMMA ReturnsKeepInv ==
  ASSUME JobsInv, JobsTyped', SessionTyped', call \in Calls, call' = NoToolCall,
         AllEvolve, NoneStarts, lost \subseteq lost',
         \A r \in ToSet(results') : r \in ToSet(results) \/ ResultInv(r)',
         \A k \in Handles : Known(k) => Known(k)',
         \A k \in Handles : Known(k)' => Known(k) \/ HasLaunched(k)',
         \A k \in Handles : call.tool = "bash_job" /\ call.job = k => Accounted(k)'
  PROVE  JobsInv'
<1>1. call'.tool = None /\ call'.input = None
  BY DEF NoToolCall
<1>2. StartInv' /\ AccessInv' /\ InputInv'
  BY <1>1, JobsAssumption DEF StartInv, AccessInv, InputInv
<1>3. \A k \in Handles : JobInv(k)'
  <2> TAKE k \in Handles
  <2>1. call.tool = "bash_job" /\ call.job = k => Accounted(k)'
    OBVIOUS
  <2> QED
    BY <2>1, JobStays DEF JobsInv, AllEvolve
<1>4. \A r \in ToSet(results') : ResultInv(r)'
  BY ResultStays, ResultsAreTyped DEF JobsInv
<1> QED
  BY <1>2, <1>3, <1>4 DEF JobsInv

\* A call fails, whatever becomes of its request.
LEMMA FailuresKeepInv ==
  ASSUME JobsInv, JobsTyped', call \in Calls, Fail, AllEvolve, NoneStarts
  PROVE  JobsInv'
<1>1. Answer("error") /\ "error" \in Statuses /\ "error" \notin RunningStatuses \cup {"user_interrupted"}
  BY DEF Fail, Statuses, RunningStatuses
<1>2. PICK r \in Results :
         /\ SessionTyped' /\ call' = NoToolCall
         /\ r.status = "error"
         /\ ToSet(results') = ToSet(results) \cup {r}
         /\ \A j \in Handles : Known(j)' <=> Known(j)
  BY <1>1, CallIsAnswered DEF JobsInv
<1>3. lost \subseteq lost' /\ (call.tool = "bash_job" => call.job \in lost')
  BY DEF Fail
<1>4. \A k \in Handles : call.tool = "bash_job" /\ call.job = k => Accounted(k)'
  BY <1>3 DEF Accounted
<1>5. ResultInv(r)'
  BY <1>2 DEF ResultInv, RunningStatuses
<1>6. /\ \A k \in Handles : Known(k) => Known(k)'
      /\ \A k \in Handles : Known(k)' => Known(k) \/ HasLaunched(k)'
  BY <1>2
<1>7. \A s \in ToSet(results') : s \in ToSet(results) \/ ResultInv(s)'
  BY <1>2, <1>5
<1>8. lost \subseteq lost'
  BY <1>3
<1> QED
  BY <1>2, <1>4, <1>6, <1>7, <1>8, ReturnsKeepInv

\* A call returns with a result.
LEMMA AnswersKeepInv ==
  ASSUME JobsInv, JobsTyped', call \in Calls, NEW why \in Statuses, Return(why),
         AllEvolve, NoneStarts,
         why \in RunningStatuses \cup {"user_interrupted"} =>
             worker'[call.job] \in {"serving", "ended"},
         call.tool = "bash_job" =>
             \/ why \in RunningStatuses
             \/ worker'[call.job] = "ended"
             \/ worker'[call.job] = "serving" /\ command'[call.job] # "running",
         call.input # None /\ why \in RunningStatuses =>
             \E keys \in lines'[call.job] : EndsIn(keys, call.input),
         call.tool = "bash_job" /\ why = "not_found" =>
             worker'[call.job] = "ended" /\ ending'[call.job] \notin {"finished", "answered"}
  PROVE  JobsInv'
<1>1. PICK r \in Results :
         /\ SessionTyped' /\ call' = NoToolCall
         /\ r.tool = call.tool /\ r.about = call.job /\ r.input = call.input
         /\ r.status = why
         /\ ToSet(results') = ToSet(results) \cup {r}
         /\ \A j \in Handles : Known(j)' <=>
               \/ Known(j)
               \/ j = call.job /\ why \in RunningStatuses \cup {"user_interrupted"}
  BY CallIsAnswered DEF Return, JobsInv
<1>2. lost' = lost
  BY DEF Return
<1>3. ASSUME NEW k \in Handles, call.tool = "bash_job", call.job = k
      PROVE  Accounted(k)'
  BY <1>1, <1>3 DEF Accounted
<1>4. ResultInv(r)'
  <2>1. r.input # None /\ r.status \in RunningStatuses => Entered(r.about, r.input)'
    BY <1>1 DEF Entered
  <2>2. r.tool = "bash_job" /\ r.status = "not_found" =>
           worker'[r.about] = "ended" /\ ending'[r.about] \notin {"finished", "answered"}
    BY <1>1
  <2> QED
    BY <2>1, <2>2 DEF ResultInv
<1>5. \A s \in ToSet(results') : s \in ToSet(results) \/ ResultInv(s)'
  BY <1>1, <1>4
<1>6. /\ \A k \in Handles : Known(k) => Known(k)'
      /\ \A k \in Handles : Known(k)' => Known(k) \/ HasLaunched(k)'
  BY <1>1 DEF HasLaunched
<1>7. \A k \in Handles : call.tool = "bash_job" /\ call.job = k => Accounted(k)'
  BY <1>3
<1> QED
  BY <1>1, <1>2, <1>5, <1>6, <1>7, ReturnsKeepInv

LEMMA KeysEnd ==
  ASSUME NEW s \in Seq(Nat), NEW n \in Nat
  PROVE  EndsIn(s \o <<n>>, n)
<1> DEFINE t == s \o <<n>>
<1>1. <<n>> \in Seq(Nat) /\ Len(<<n>>) = 1 /\ <<n>>[1] = n
  OBVIOUS
<1>2. t \in Seq(Nat) /\ Len(t) = Len(s) + 1 /\ t[Len(s) + 1] = n
  BY <1>1, ConcatProperties, LenProperties
<1>3. Len(s) \in Nat
  BY LenProperties
<1> HIDE DEF t
<1>4. t # <<>>
  BY <1>2, <1>3, EmptySeq
<1>5. EndsIn(t, n)
  BY <1>2, <1>4 DEF EndsIn, Last
<1> QED
  BY <1>5 DEF t

\* The job of a call that has got past the launch.
LEMMA JobOfCall ==
  ASSUME JobsInv, call \in Calls, call.at # "launching"
  PROVE  /\ worker[call.job] \in {"serving", "ended"}
         /\ ~Listening(call.job) => worker[call.job] = "ended"
<1>1. CASE call.tool = "bash_job"
  BY <1>1 DEF JobsInv, StartInv, HasLaunched, Listening
<1>2. CASE call.tool # "bash_job"
  <2>1. Known(call.job) /\ call.job \in Handles
    BY <1>2, CallFields DEF JobsInv, AccessInv, Tools
  <2> QED
    BY <2>1 DEF JobsInv, JobInv, HasLaunched, Listening
<1> QED
  BY <1>1, <1>2

\* Only input that does not end a line is written by itself.
LEMMA WritesAreInputs ==
  ASSUME JobsInv, call \in Calls, IsWrite
  PROVE  /\ call.tool # "bash_job"
         /\ call.input # None =>
               call.requests = <<Request(<<call.input>>, FALSE, FALSE), EnterKey>>
<1>1. Len(call.requests) > 1
  BY DEF IsWrite
<1>2. \A x : call.requests # <<x>>
  <2> SUFFICES ASSUME NEW x, call.requests = <<x>>
               PROVE  FALSE
    OBVIOUS
  <2>1. Len(<<x>>) = 1
    OBVIOUS
  <2> QED
    BY <1>1, <2>1
<1>3. call.tool # "bash_job"
  BY <1>2 DEF JobsInv, StartInv
<1>4. call # NoToolCall
  BY CallFields
<1>5. call.input # None =>
         call.requests = <<Request(<<call.input>>, FALSE, FALSE), EnterKey>>
  BY <1>2, <1>4 DEF JobsInv, InputInv
<1> QED
  BY <1>3, <1>5

LEMMA BashJobKeepsInv ==
  ASSUME JobsInv, NEW j \in Handles, BashJob(j)
  PROVE  JobsInv'
<1>1. /\ worker[j] = "none" /\ call = NoToolCall
      /\ call' = [tool |-> "bash_job", job |-> j, input |-> None, at |-> "launching",
                  requests |-> <<ReadOnly>>]
      /\ callCount' = callCount + 1
      /\ worker' = [worker EXCEPT ![j] = "started"]
      /\ reader' = [reader EXCEPT ![j] = TRUE]
      /\ UNCHANGED <<ending, report, command, kept, typed, lines, abandoned, results, lost>>
  BY DEF BashJob, Begin
<1>2. /\ call'.tool = "bash_job" /\ call'.job = j /\ call'.input = None
      /\ call'.at = "launching" /\ call'.requests = <<ReadOnly>>
  BY <1>1
<1>3. call' \in Calls
  <2>1. <<ReadOnly>> \in Seq(Requests) /\ <<ReadOnly>> # <<>>
    BY RequestsAreTyped
  <2> QED
    BY <1>1, <2>1 DEF Calls, Tools
<1>4. JobsTyped' /\ SessionTyped'
  BY <1>1, <1>3 DEF JobsInv, JobsTyped, SessionTyped, WorkerStates
<1>5. \A k \in Handles : Known(k)' <=> Known(k)
  BY <1>1 DEF Known
<1>6. JobInv(j)
  BY DEF JobsInv
<1>7. report[j] # "ready" /\ ~Known(j) /\ ending[j] = "none"
  BY <1>1, <1>6 DEF JobInv, HasLaunched
<1>8. NoToolCall.tool = None
  BY DEF NoToolCall
<1>9. ASSUME NEW k \in Handles PROVE JobInv(k)'
  <2>1. CASE k = j
    <3>1. worker'[j] = "started"
      BY <1>1 DEF JobsInv, JobsTyped
    <3>2. Accounted(j)'
      BY <1>2 DEF Accounted
    <3> QED
      BY <1>1, <1>5, <1>7, <2>1, <3>1, <3>2 DEF JobInv
  <2>2. CASE k # j
    <3>1. worker'[k] = worker[k] /\ JobInv(k) /\ call.tool # "bash_job"
      BY <1>1, <1>8, <2>2, JobsAssumption DEF JobsInv, JobsTyped
    <3>2. Accounted(k)'
      BY <1>1, <1>5, <3>1 DEF JobInv, Accounted
    <3> QED
      BY <1>1, <1>5, <3>1, <3>2 DEF JobInv, HasLaunched
  <2> QED
    BY <2>1, <2>2
<1>10. StartInv' /\ AccessInv' /\ InputInv'
  BY <1>1, <1>2, <1>7 DEF StartInv, AccessInv, InputInv
<1>11. AllEvolve
  BY <1>1 DEF AllEvolve, Evolves, JobsInv, JobsTyped
<1>12. \A r \in ToSet(results') : ResultInv(r)'
  BY <1>1, <1>11, ResultStays, ResultsAreTyped DEF JobsInv
<1> QED
  BY <1>4, <1>9, <1>10, <1>12 DEF JobsInv

\* A call on a job the session knows begins.
LEMMA AccessKeepsInv ==
  ASSUME JobsInv, call = NoToolCall, call' \in Calls, Known(call'.job),
         call'.tool \in {"job_interact", "job_close"}, call'.at = "connecting",
         UNCHANGED <<jobs, results, lost>>, callCount' \in Nat, InputInv'
  PROVE  JobsInv'
<1>1. UNCHANGED <<worker, ending, reader, report, command, kept, typed, lines, abandoned>>
  BY DEF jobs
<1>2. JobsTyped' /\ SessionTyped'
  BY <1>1 DEF JobsInv, JobsTyped, SessionTyped
<1>3. AllEvolve /\ NoneStarts
  BY <1>1, SameJobsEvolve DEF JobsInv, NoneStarts
<1>4. \A k \in Handles : Known(k)' <=> Known(k)
  BY DEF Known
<1>5. call.tool # "bash_job"
  BY JobsAssumption DEF NoToolCall
<1>6. \A k \in Handles : JobInv(k)'
  BY <1>3, <1>4, <1>5, JobStays DEF JobsInv, AllEvolve
<1>7. StartInv'
  BY DEF StartInv
<1>8. AccessInv'
  <2>1. call'.job \in Handles
    BY DEF Calls
  <2> QED
    BY <1>4, <2>1 DEF AccessInv
<1>9. \A r \in ToSet(results') : ResultInv(r)'
  BY <1>3, ResultStays, ResultsAreTyped DEF JobsInv
<1> QED
  BY <1>2, <1>6, <1>7, <1>8, <1>9 DEF JobsInv

LEMMA OneOrTwo ==
  ASSUME NEW S, NEW x \in S, NEW y \in S
  PROVE  <<x>> \in Seq(S) \ {<<>>} /\ <<x, y>> \in Seq(S) \ {<<>>}
  OBVIOUS

LEMMA InputRequests ==
  ASSUME NEW input
  PROVE  /\ InteractiveInput("terminated", input) = <<Request(<<input>>, TRUE, FALSE)>>
         /\ InteractiveInput("unterminated", input) =
               <<Request(<<input>>, FALSE, FALSE), EnterKey>>
  BY DEF InteractiveInput

LEMMA JobInteractKeepsInv ==
  ASSUME JobsInv, NEW j \in Handles,
         NEW kind \in {"none", "empty", "terminated", "unterminated"}, JobInteract(j, kind)
  PROVE  JobsInv'
<1> DEFINE input == IF kind \in {"terminated", "unterminated"} THEN callCount + 1 ELSE None
<1>1. /\ Known(j) /\ call = NoToolCall /\ UNCHANGED jobs
      /\ call' = [tool |-> "job_interact", job |-> j, input |-> input, at |-> "connecting",
                  requests |-> InteractiveInput(kind, input)]
      /\ callCount' = callCount + 1
      /\ UNCHANGED <<results, lost>>
  BY DEF JobInteract, Begin
<1>2. /\ call'.tool = "job_interact" /\ call'.job = j /\ call'.input = input
      /\ call'.at = "connecting" /\ call'.requests = InteractiveInput(kind, input)
  BY <1>1
<1>3. callCount \in Nat
  BY DEF JobsInv, SessionTyped
<1>4. CASE kind = "none"
  <2>1. input = None /\ InteractiveInput(kind, input) = <<ReadOnly>>
    BY <1>4 DEF InteractiveInput
  <2>2. <<ReadOnly>> \in Seq(Requests) /\ <<ReadOnly>> # <<>>
    BY RequestsAreTyped
  <2> HIDE DEF input
  <2>3. call' \in Calls
    BY <1>1, <2>1, <2>2 DEF Calls, Tools
  <2>4. InputInv'
    BY <1>2, <2>1 DEF InputInv
  <2> QED
    BY <1>1, <1>2, <1>3, <2>3, <2>4, AccessKeepsInv
<1>5. CASE kind = "empty"
  <2>1. input = None /\ InteractiveInput(kind, input) = <<EnterKey>>
    BY <1>5 DEF InteractiveInput
  <2>2. <<EnterKey>> \in Seq(Requests) /\ <<EnterKey>> # <<>>
    BY RequestsAreTyped
  <2> HIDE DEF input
  <2>3. call' \in Calls
    BY <1>1, <2>1, <2>2 DEF Calls, Tools
  <2>4. InputInv'
    BY <1>2, <2>1 DEF InputInv
  <2> QED
    BY <1>1, <1>2, <1>3, <2>3, <2>4, AccessKeepsInv
<1>6. CASE kind = "terminated"
  <2>1. input \in Nat
    BY <1>3, <1>6
  <2> HIDE DEF input
  <2>5. InteractiveInput(kind, input) = <<Request(<<input>>, TRUE, FALSE)>>
    BY <1>6, InputRequests
  <2>2. Request(<<input>>, TRUE, FALSE) \in Requests
    BY <2>1, RequestsAreTyped
  <2>6. InteractiveInput(kind, input) \in Seq(Requests) \ {<<>>}
    BY <2>2, <2>5, OneOrTwo
  <2>3. call' \in Calls
    BY <1>1, <2>1, <2>6 DEF Calls, Tools
  <2>4. InputInv'
    BY <1>2, <2>1, <2>5 DEF InputInv
  <2> QED
    BY <1>1, <1>2, <1>3, <2>3, <2>4, AccessKeepsInv
<1>7. CASE kind = "unterminated"
  <2>1. input \in Nat
    BY <1>3, <1>7
  <2> HIDE DEF input
  <2>5. InteractiveInput(kind, input) = <<Request(<<input>>, FALSE, FALSE), EnterKey>>
    BY <1>7, InputRequests
  <2>2. Request(<<input>>, FALSE, FALSE) \in Requests /\ EnterKey \in Requests
    BY <2>1, RequestsAreTyped
  <2>6. InteractiveInput(kind, input) \in Seq(Requests) \ {<<>>}
    BY <2>2, <2>5, OneOrTwo
  <2>3. call' \in Calls
    BY <1>1, <2>1, <2>6 DEF Calls, Tools
  <2>4. InputInv'
    BY <1>2, <2>1, <2>5 DEF InputInv
  <2> QED
    BY <1>1, <1>2, <1>3, <2>3, <2>4, AccessKeepsInv
<1> QED
  BY <1>4, <1>5, <1>6, <1>7

LEMMA JobCloseKeepsInv ==
  ASSUME JobsInv, NEW j \in Handles, JobClose(j)
  PROVE  JobsInv'
<1>1. /\ Known(j) /\ call = NoToolCall /\ UNCHANGED jobs
      /\ call' = [tool |-> "job_close", job |-> j, input |-> None, at |-> "connecting",
                  requests |-> <<CloseRequest>>]
      /\ callCount' = callCount + 1
      /\ UNCHANGED <<results, lost>>
  BY DEF JobClose, Begin
<1>2. /\ call'.tool = "job_close" /\ call'.job = j /\ call'.input = None
      /\ call'.at = "connecting"
  BY <1>1
<1>3. callCount' \in Nat
  BY <1>1 DEF JobsInv, SessionTyped
<1>4. <<CloseRequest>> \in Seq(Requests) /\ <<CloseRequest>> # <<>>
  BY RequestsAreTyped
<1>5. call' \in Calls
  BY <1>1, <1>4 DEF Calls, Tools
<1>6. InputInv'
  BY <1>2 DEF InputInv
<1> QED
  BY <1>1, <1>2, <1>3, <1>5, <1>6, AccessKeepsInv

LEMMA LaunchKeepsInv ==
  ASSUME JobsInv, Launched \/ LaunchFails
  PROVE  JobsInv'
<1>1. /\ call \in Calls /\ call.job \in Handles /\ call.at = "launching"
      /\ call.tool = "bash_job"
  <2>1. call.at = "launching"
    BY DEF Launched, LaunchFails, Launching
  <2>2. call \in Calls
    BY <2>1, InFlight DEF JobsInv
  <2> QED
    BY <2>1, <2>2, CallFields DEF JobsInv, AccessInv, Tools
<1>2. /\ reader' = [reader EXCEPT ![call.job] = FALSE]
      /\ UNCHANGED <<worker, ending, report, command, kept, typed, lines, abandoned>>
  BY DEF Launched, LaunchFails
<1>3. JobsTyped' /\ AllEvolve /\ NoneStarts
  <2>1. JobsTyped'
    BY <1>1, <1>2 DEF JobsInv, JobsTyped
  <2> QED
    BY <1>2, <2>1, SameJobsEvolve DEF JobsInv, NoneStarts
<1>4. CASE Fail
  BY <1>1, <1>3, <1>4, FailuresKeepInv
<1>5. CASE report[call.job] = "ready" /\ Goto("connecting")
  <2>1. /\ call' \in Calls
        /\ call'.tool = call.tool /\ call'.job = call.job /\ call'.input = call.input
        /\ call'.requests = call.requests /\ call'.at = "connecting"
        /\ UNCHANGED <<callCount, results, lost>>
    BY <1>1, <1>5, CallGoesTo
  <2>2. HasLaunched(call.job)
    BY <1>1, <1>5 DEF JobsInv, JobInv
  <2>3. StartInv'
    BY <1>1, <1>2, <2>1, <2>2 DEF JobsInv, StartInv, HasLaunched
  <2>4. InputInv'
    BY <1>1, <2>1 DEF JobsInv, StartInv, InputInv
  <2> QED
    BY <1>1, <1>3, <2>1, <2>3, <2>4, CallsKeepInv
<1> QED
  BY <1>4, <1>5 DEF Launched, LaunchFails

LEMMA ConnectKeepsInv ==
  ASSUME JobsInv, Connect
  PROVE  JobsInv'
<1>1. call.at = "connecting" /\ call \in Calls /\ UNCHANGED jobs /\ Goto("sent")
  BY InFlight DEF Connect, JobsInv
<1>2. /\ call' \in Calls
      /\ call'.tool = call.tool /\ call'.job = call.job /\ call'.input = call.input
      /\ call'.requests = call.requests /\ call'.at = "sent"
      /\ UNCHANGED <<callCount, results, lost>>
  BY <1>1, CallGoesTo
<1>3. UNCHANGED <<worker, ending, reader, report, command, kept, typed, lines, abandoned>>
  BY <1>1 DEF jobs
<1>4. JobsTyped' /\ AllEvolve /\ NoneStarts
  BY <1>3, SameJobsEvolve DEF JobsInv, JobsTyped, NoneStarts
<1>5. StartInv'
  BY <1>1, <1>2, <1>3 DEF JobsInv, StartInv, HasLaunched
<1>6. call # NoToolCall
  BY <1>1, CallFields
<1>7. InputInv'
  BY <1>1, <1>2, <1>3, <1>6 DEF JobsInv, InputInv
<1> QED
  BY <1>1, <1>2, <1>4, <1>5, <1>7, CallsKeepInv

\* The worker has ended under the interaction of the call.
LEMMA InteractionLostKeepsInv ==
  ASSUME JobsInv, InteractionLost
  PROVE  JobsInv'
<1>1. call.at = "served" /\ call \in Calls /\ UNCHANGED jobs /\ Goto("sent")
  BY InFlight DEF InteractionLost, JobsInv
<1>2. /\ call' \in Calls
      /\ call'.tool = call.tool /\ call'.job = call.job /\ call'.input = call.input
      /\ call'.requests = call.requests /\ call'.at = "sent"
      /\ UNCHANGED <<callCount, results, lost>>
  BY <1>1, CallGoesTo
<1>3. UNCHANGED <<worker, ending, reader, report, command, kept, typed, lines, abandoned>>
  BY <1>1 DEF jobs
<1>4. JobsTyped' /\ AllEvolve /\ NoneStarts
  BY <1>3, SameJobsEvolve DEF JobsInv, JobsTyped, NoneStarts
<1>5. StartInv'
  BY <1>1, <1>2, <1>3 DEF JobsInv, StartInv, HasLaunched
<1>6. call # NoToolCall /\ worker[call.job] = "ended"
  BY <1>1, CallFields, JobOfCall DEF InteractionLost
<1>7. InputInv'
  BY <1>1, <1>2, <1>3, <1>6 DEF JobsInv, InputInv
<1> QED
  BY <1>1, <1>2, <1>4, <1>5, <1>7, CallsKeepInv

LEMMA JobGoneKeepsInv ==
  ASSUME JobsInv, JobGone
  PROVE  JobsInv'
<1>1. /\ call \in Calls /\ call.at # "launching" /\ call.job \in Handles
      /\ ~Listening(call.job)
  BY InFlight, CallFields DEF JobGone, JobsInv
<1>2. worker[call.job] = "ended"
  BY <1>1, JobOfCall
<1>3. UNCHANGED <<worker, ending, reader, report, command, typed, lines, abandoned>>
  BY DEF JobGone
<1>4. AllEvolve /\ NoneStarts
  BY <1>3, SameJobsEvolve DEF JobsInv, NoneStarts
<1>5. CASE IsWrite
  <2>1. NextRequest /\ UNCHANGED kept
    BY <1>5 DEF JobGone
  <2>2. /\ call' \in Calls
        /\ call'.tool = call.tool /\ call'.job = call.job /\ call'.input = call.input
        /\ call'.requests = Tail(call.requests) /\ call'.at = "connecting"
        /\ UNCHANGED <<callCount, results, lost>>
    BY <1>1, <1>5, <2>1, CallGoesOn
  <2>3. JobsTyped'
    BY <1>3, <2>1 DEF JobsInv, JobsTyped
  <2>4. StartInv'
    BY <1>1, <1>5, <2>2, WritesAreInputs DEF StartInv
  <2>5. ASSUME call.input # None PROVE Tail(call.requests) = <<EnterKey>>
    <3>1. call.requests = <<Request(<<call.input>>, FALSE, FALSE), EnterKey>>
      BY <1>1, <1>5, <2>5, WritesAreInputs
    <3> QED
      BY <3>1
  <2>6. call # NoToolCall
    BY <1>1, CallFields
  <2>7. InputInv'
    BY <1>2, <1>3, <2>2, <2>5, <2>6 DEF JobsInv, InputInv
  <2> QED
    BY <1>1, <1>4, <2>2, <2>3, <2>4, <2>7, CallsKeepInv
<1>6. CASE ~IsWrite /\ ~OfClose /\ kept[call.job]
  <2>1. Return("exited") /\ kept' = [kept EXCEPT ![call.job] = FALSE]
    BY <1>6 DEF JobGone
  <2>2. JobsTyped'
    BY <1>3, <2>1 DEF JobsInv, JobsTyped
  <2>3. "exited" \in Statuses /\ "exited" \notin RunningStatuses \cup {"user_interrupted"}
    BY DEF Statuses, RunningStatuses
  <2> QED
    BY <1>1, <1>2, <1>3, <1>4, <2>1, <2>2, <2>3, AnswersKeepInv
<1>7. CASE ~IsWrite /\ ~(~OfClose /\ kept[call.job])
  <2>1. Return("not_found") /\ UNCHANGED kept
    BY <1>7 DEF JobGone
  <2>2. JobsTyped'
    BY <1>3, <2>1 DEF JobsInv, JobsTyped
  <2>3. "not_found" \in Statuses /\ "not_found" \notin RunningStatuses \cup {"user_interrupted"}
    BY DEF Statuses, RunningStatuses
  <2>4. call.tool = "bash_job" => ending[call.job] \notin {"finished", "answered"}
    <3> SUFFICES ASSUME call.tool = "bash_job"
                 PROVE  ending[call.job] \notin {"finished", "answered"}
      OBVIOUS
    <3>1. ~kept[call.job]
      BY <1>7 DEF OfClose
    <3>2. ending[call.job] # "answered" /\ (ending[call.job] = "finished" => kept[call.job])
      BY Zenon DEF JobsInv, StartInv
    <3> QED
      BY <3>1, <3>2
  <2> QED
    BY <1>1, <1>2, <1>3, <1>4, <2>1, <2>2, <2>3, <2>4, AnswersKeepInv
<1> QED
  BY <1>5, <1>6, <1>7

LEMMA TransportFailsKeepsInv ==
  ASSUME JobsInv, TransportFails
  PROVE  JobsInv'
<1>1. call \in Calls
  BY InFlight DEF TransportFails, JobsInv
<1>2. LeaveRequest /\ Fail
  BY DEF TransportFails, LeaveRequest
<1>3. JobsTyped' /\ UNCHANGED <<worker, ending, report, command, lines>>
  BY <1>1, <1>2, RequestIsLeft DEF JobsInv
<1>4. AllEvolve /\ NoneStarts
  BY <1>3, SameJobsEvolve DEF JobsInv, NoneStarts
<1> QED
  BY <1>1, <1>2, <1>3, <1>4, FailuresKeepInv

LEMMA OfTurn ==
  ASSUME JobsInv, NEW j \in Handles, Turn(j)
  PROVE  /\ call \in Calls /\ call # NoToolCall /\ call.at = "sent" /\ call.job = j
         /\ worker[j] = "serving" /\ abandoned[j] = <<>>
         /\ Head(call.requests) \in Requests
<1>1. call.at = "sent" /\ call.job = j /\ worker[j] = "serving" /\ abandoned[j] = <<>>
  BY DEF Turn, Serving
<1>2. call \in Calls
  BY <1>1, InFlight DEF JobsInv
<1> QED
  BY <1>1, <1>2, CallFields

LEMMA ServeWriteKeepsInv ==
  ASSUME JobsInv, NEW j \in Handles, ServeWrite(j)
  PROVE  JobsInv'
<1>1. /\ call \in Calls /\ call # NoToolCall /\ call.at = "sent" /\ call.job = j
      /\ worker[j] = "serving" /\ abandoned[j] = <<>>
      /\ Head(call.requests) \in Requests /\ IsWrite
  BY OfTurn DEF ServeWrite
<1>2. UNCHANGED <<worker, ending, reader, report, command, kept, abandoned>>
  BY DEF ServeWrite
<1>3. CASE Type(j, Head(call.requests)) /\ NextRequest
  <2>1. /\ typed' \in [Handles -> Seq(Nat)] /\ lines' \in [Handles -> SUBSET Seq(Nat)]
        /\ \A k \in Handles : lines[k] \subseteq lines'[k]
        /\ IF Head(call.requests).enter THEN TRUE
           ELSE typed'[j] = typed[j] \o Head(call.requests).input
    BY <1>1, <1>3, KeysAreTyped DEF JobsInv
  <2>2. JobsTyped'
    BY <1>2, <2>1 DEF JobsInv, JobsTyped
  <2>3. AllEvolve /\ NoneStarts
    BY <1>2, <2>1 DEF AllEvolve, Evolves, NoneStarts, JobsInv, JobsTyped
  <2>4. /\ call' \in Calls
        /\ call'.tool = call.tool /\ call'.job = call.job /\ call'.input = call.input
        /\ call'.requests = Tail(call.requests) /\ call'.at = "connecting"
        /\ UNCHANGED <<callCount, results, lost>>
    BY <1>1, <1>3, CallGoesOn
  <2>5. StartInv'
    BY <1>1, <2>4, WritesAreInputs DEF StartInv
  <2>6. InputInv'
    <3> SUFFICES ASSUME call.input # None
                 PROVE  InputInv'
      BY <2>4 DEF InputInv
    <3>1. call.requests = <<Request(<<call.input>>, FALSE, FALSE), EnterKey>>
      BY <1>1, WritesAreInputs
    <3>2. /\ Tail(call.requests) = <<EnterKey>>
          /\ Head(call.requests) = Request(<<call.input>>, FALSE, FALSE)
      BY <3>1
    <3>3. ~Head(call.requests).enter /\ Head(call.requests).input = <<call.input>>
      BY <3>2 DEF Request
    <3>4. typed[j] \in Seq(Nat) /\ call.input \in Nat
      BY <1>1, CallFields DEF JobsInv, JobsTyped
    <3>5. EndsIn(typed'[j], call.input)
      BY <2>1, <3>3, <3>4, KeysEnd
    <3>6. call.tool = "job_interact"
      BY <1>1 DEF JobsInv, InputInv
    <3> QED
      BY <1>1, <1>2, <2>4, <3>2, <3>5, <3>6 DEF InputInv
  <2> QED
    BY <1>1, <2>2, <2>3, <2>4, <2>5, <2>6, CallsKeepInv
<1>4. CASE Return("error") /\ UNCHANGED <<typed, lines>>
  <2>1. JobsTyped'
    BY <1>2, <1>4 DEF JobsInv, JobsTyped
  <2>2. AllEvolve /\ NoneStarts
    BY <1>2, <1>4, SameJobsEvolve DEF JobsInv, NoneStarts
  <2>3. "error" \in Statuses /\ "error" \notin RunningStatuses \cup {"user_interrupted"}
    BY DEF Statuses, RunningStatuses
  <2>4. call.tool # "bash_job"
    BY <1>1, WritesAreInputs
  <2> QED
    BY <1>1, <1>4, <2>1, <2>2, <2>3, <2>4, AnswersKeepInv
<1> QED
  BY <1>3, <1>4 DEF ServeWrite

LEMMA ServeInteractKeepsInv ==
  ASSUME JobsInv, NEW j \in Handles, ServeInteract(j)
  PROVE  JobsInv'
<1>1. /\ call \in Calls /\ call # NoToolCall /\ call.at = "sent" /\ call.job = j
      /\ worker[j] = "serving" /\ abandoned[j] = <<>>
      /\ Head(call.requests) \in Requests /\ ~IsWrite
      /\ Type(j, Head(call.requests)) /\ Goto("served")
  BY OfTurn DEF ServeInteract
<1>2. UNCHANGED <<worker, ending, reader, report, command, kept, abandoned>>
  BY DEF ServeInteract
<1>3. /\ typed' \in [Handles -> Seq(Nat)] /\ lines' \in [Handles -> SUBSET Seq(Nat)]
      /\ \A k \in Handles : lines[k] \subseteq lines'[k]
      /\ IF Head(call.requests).enter THEN typed[j] \o Head(call.requests).input \in lines'[j]
         ELSE TRUE
  BY <1>1, KeysAreTyped DEF JobsInv
<1>4. JobsTyped'
  BY <1>2, <1>3 DEF JobsInv, JobsTyped
<1>5. AllEvolve /\ NoneStarts
  BY <1>2, <1>3 DEF AllEvolve, Evolves, NoneStarts, JobsInv, JobsTyped
<1>6. /\ call' \in Calls
      /\ call'.tool = call.tool /\ call'.job = call.job /\ call'.input = call.input
      /\ call'.requests = call.requests /\ call'.at = "served"
      /\ UNCHANGED <<callCount, results, lost>>
  BY <1>1, CallGoesTo
<1>7. StartInv'
  BY <1>1, <1>2, <1>6 DEF JobsInv, StartInv, HasLaunched
<1>8. InputInv'
  <2> SUFFICES ASSUME call.input # None
               PROVE  InputInv'
    BY <1>6 DEF InputInv
  <2>1. typed[j] \in Seq(Nat) /\ call.input \in Nat /\ call.tool = "job_interact"
    BY <1>1, CallFields DEF JobsInv, JobsTyped, InputInv
  <2>2. \/ call.requests = <<Request(<<call.input>>, TRUE, FALSE)>>
        \/ call.requests = <<EnterKey>> /\ EndsIn(typed[j], call.input)
    <3>1. \A x, y : Len(<<x, y>>) = 2
      OBVIOUS
    <3>2. call.requests # <<Request(<<call.input>>, FALSE, FALSE), EnterKey>>
      <4> SUFFICES ASSUME call.requests = <<Request(<<call.input>>, FALSE, FALSE), EnterKey>>
                   PROVE  FALSE
        OBVIOUS
      <4>1. Len(call.requests) = 2
        BY <3>1
      <4>2. ~(Len(call.requests) > 1)
        BY <1>1 DEF IsWrite
      <4> QED
        BY <4>1, <4>2
    <3> QED
      BY <1>1, <3>2 DEF JobsInv, InputInv
  <2>3. CASE call.requests = <<Request(<<call.input>>, TRUE, FALSE)>>
    <3>1. Head(call.requests) = Request(<<call.input>>, TRUE, FALSE)
      BY <2>3
    <3>2. Head(call.requests).enter /\ Head(call.requests).input = <<call.input>>
      BY <3>1 DEF Request
    <3>3. EndsIn(typed[j] \o <<call.input>>, call.input)
      BY <2>1, KeysEnd
    <3>4. \E keys \in lines'[j] : EndsIn(keys, call.input)
      BY <1>3, <3>2, <3>3
    <3> QED
      BY <1>1, <1>6, <2>1, <2>3, <3>4 DEF InputInv, Entered
  <2>4. CASE call.requests = <<EnterKey>> /\ EndsIn(typed[j], call.input)
    <3>1. Head(call.requests) = Request(<<>>, TRUE, FALSE)
      BY <2>4 DEF EnterKey
    <3>2. Head(call.requests).enter /\ Head(call.requests).input = <<>>
      BY <3>1 DEF Request
    <3>3. typed[j] \o <<>> = typed[j]
      BY <2>1, ConcatEmptySeq
    <3>4. \E keys \in lines'[j] : EndsIn(keys, call.input)
      BY <1>3, <2>4, <3>2, <3>3
    <3> QED
      BY <1>1, <1>6, <2>1, <2>4, <3>4 DEF InputInv, Entered
  <2> QED
    BY <2>2, <2>3, <2>4
<1> QED
  BY <1>1, <1>4, <1>5, <1>6, <1>7, <1>8, CallsKeepInv

LEMMA InteractionEndsKeepsInv ==
  ASSUME JobsInv, NEW j \in Handles, InteractionEnds(j)
  PROVE  JobsInv'
<1>1. /\ call \in Calls /\ call # NoToolCall /\ call.at = "served" /\ call.job = j
      /\ worker[j] = "serving"
  BY InFlight, CallFields DEF InteractionEnds, Serving, JobsInv
<1>2. UNCHANGED <<reader, report, command, kept, typed, lines, abandoned>>
  BY DEF InteractionEnds
<1>3. CASE command[j] = "running"
  <2>1. PICK why \in RunningStatuses : Return(why) /\ UNCHANGED <<worker, ending>>
    BY <1>3 DEF InteractionEnds
  <2>2. JobsTyped'
    BY <1>2, <2>1 DEF JobsInv, JobsTyped
  <2>3. AllEvolve /\ NoneStarts
    BY <1>2, <2>1, SameJobsEvolve DEF JobsInv, NoneStarts
  <2>4. why \in Statuses /\ why # "not_found"
    BY DEF Statuses, RunningStatuses
  <2>5. call.input # None => \E keys \in lines'[call.job] : EndsIn(keys, call.input)
    BY <1>1, <1>2 DEF JobsInv, InputInv, Entered
  <2>6. worker'[call.job] \in {"serving", "ended"}
    BY <1>1, <2>1
  <2> QED
    BY <1>1, <2>1, <2>2, <2>3, <2>4, <2>5, <2>6, AnswersKeepInv
<1>4. CASE command[j] # "running"
  <2>1. Return("exited") /\ (Ends(j, "answered") \/ UNCHANGED <<worker, ending>>)
    BY <1>4 DEF InteractionEnds
  <2>2. /\ worker' \in [Handles -> WorkerStates] /\ ending' \in [Handles -> Endings]
        /\ worker'[j] \in {"serving", "ended"}
        /\ \A k \in Handles \ {j} : worker'[k] = worker[k] /\ ending'[k] = ending[k]
    <3>1. CASE Ends(j, "answered")
      BY <3>1, WorkerEnds DEF Endings, JobsInv
    <3>2. CASE UNCHANGED <<worker, ending>>
      BY <1>1, <3>2 DEF JobsInv, JobsTyped
    <3> QED
      BY <2>1, <3>1, <3>2
  <2>3. JobsTyped'
    BY <1>2, <2>2 DEF JobsInv, JobsTyped
  <2>4. AllEvolve /\ NoneStarts
    BY <1>1, <1>2, <1>4, <2>2 DEF AllEvolve, Evolves, NoneStarts, JobsInv, JobsTyped
  <2>5. "exited" \in Statuses /\ "exited" \notin RunningStatuses \cup {"user_interrupted"}
    BY DEF Statuses, RunningStatuses
  <2> QED
    BY <1>1, <1>2, <1>4, <2>1, <2>2, <2>3, <2>4, <2>5, AnswersKeepInv
<1> QED
  BY <1>3, <1>4

LEMMA ServeCloseKeepsInv ==
  ASSUME JobsInv, NEW j \in Handles, ServeClose(j)
  PROVE  JobsInv'
<1>1. /\ call \in Calls /\ call.job = j /\ worker[j] = "serving" /\ call.tool = "job_close"
  BY OfTurn DEF ServeClose, OfClose
<1>2. UNCHANGED <<reader, report, kept, typed, lines, abandoned>>
  BY DEF ServeClose
<1>3. CASE Close(j) /\ Return("closed")
  <2>1. Ends(j, "closed") /\ command' = [command EXCEPT ![j] = "exited"]
    BY <1>3 DEF Close
  <2>2. /\ worker' \in [Handles -> WorkerStates] /\ ending' \in [Handles -> Endings]
        /\ worker'[j] = "ended"
        /\ \A k \in Handles \ {j} : worker'[k] = worker[k] /\ ending'[k] = ending[k]
    BY <2>1, WorkerEnds DEF Endings, JobsInv
  <2>3. JobsTyped'
    BY <1>2, <2>1, <2>2 DEF JobsInv, JobsTyped
  <2>4. AllEvolve /\ NoneStarts
    BY <1>1, <1>2, <2>1, <2>2 DEF AllEvolve, Evolves, NoneStarts, JobsInv, JobsTyped
  <2>5. "closed" \in Statuses /\ "closed" \notin RunningStatuses \cup {"user_interrupted"}
    BY DEF Statuses, RunningStatuses
  <2> QED
    BY <1>1, <1>3, <2>3, <2>4, <2>5, AnswersKeepInv
<1>4. CASE Return("error") /\ UNCHANGED <<worker, ending, command>>
  <2>1. JobsTyped'
    BY <1>2, <1>4 DEF JobsInv, JobsTyped
  <2>2. AllEvolve /\ NoneStarts
    BY <1>2, <1>4, SameJobsEvolve DEF JobsInv, NoneStarts
  <2>3. "error" \in Statuses /\ "error" \notin RunningStatuses \cup {"user_interrupted"}
    BY DEF Statuses, RunningStatuses
  <2> QED
    BY <1>1, <1>4, <2>1, <2>2, <2>3, AnswersKeepInv
<1> QED
  BY <1>3, <1>4 DEF ServeClose

LEMMA InterruptedKeepsInv ==
  ASSUME JobsInv, InteractInterrupted
  PROVE  JobsInv'
<1>1. /\ call \in Calls /\ call.tool = "job_interact" /\ call.at # "launching"
      /\ Return("user_interrupted") /\ LeaveRequest
  <2>1. call.tool = "job_interact" /\ Return("user_interrupted") /\ LeaveRequest
    BY DEF InteractInterrupted
  <2> QED
    BY <2>1, InFlight DEF JobsInv, AccessInv, Tools
<1>2. JobsTyped' /\ UNCHANGED <<worker, ending, report, command, lines>>
  BY <1>1, RequestIsLeft DEF JobsInv
<1>3. AllEvolve /\ NoneStarts
  BY <1>2, SameJobsEvolve DEF JobsInv, NoneStarts
<1>4. worker'[call.job] \in {"serving", "ended"}
  BY <1>1, <1>2, JobOfCall
<1>5. "user_interrupted" \in Statuses /\ "user_interrupted" \notin RunningStatuses
  BY DEF Statuses, RunningStatuses
<1> QED
  BY <1>1, <1>2, <1>3, <1>4, <1>5, AnswersKeepInv

LEMMA VanishedKeepsInv ==
  ASSUME JobsInv, CallVanishes
  PROVE  JobsInv'
<1>1. /\ call \in Calls /\ call' = NoToolCall /\ LeaveRequest
      /\ lost' = lost \cup (IF call.tool = "bash_job" THEN {call.job} ELSE {})
      /\ UNCHANGED <<callCount, results>>
  BY InFlight DEF CallVanishes, JobsInv
<1>2. JobsTyped' /\ UNCHANGED <<worker, ending, report, command, lines>>
  BY <1>1, RequestIsLeft DEF JobsInv
<1>3. AllEvolve /\ NoneStarts
  BY <1>2, SameJobsEvolve DEF JobsInv, NoneStarts
<1>4. SessionTyped'
  BY <1>1 DEF JobsInv, SessionTyped
<1>5. \A k \in Handles : Known(k)' <=> Known(k)
  BY <1>1 DEF Known
<1>6. lost \subseteq lost'
  BY <1>1
<1>7. \A k \in Handles : call.tool = "bash_job" /\ call.job = k => Accounted(k)'
  BY <1>1 DEF Accounted
<1>8. \A r \in ToSet(results') : r \in ToSet(results) \/ ResultInv(r)'
  BY <1>1
<1> QED
  BY <1>1, <1>2, <1>3, <1>4, <1>5, <1>6, <1>7, <1>8, ReturnsKeepInv

\* Between calls: jobs go on, and results and what is lost only grow.
LEMMA IdleKeepsInv ==
  ASSUME JobsInv, JobsTyped', SessionTyped', call = NoToolCall, call' = call,
         AllEvolve, NoneStarts, lost \subseteq lost',
         \A k \in Handles : Known(k)' <=> Known(k),
         \A r \in ToSet(results') : r \in ToSet(results) \/ ResultInv(r)'
  PROVE  JobsInv'
<1>1. call.tool # "bash_job" /\ call.tool \notin {"job_interact", "job_close"}
  BY JobsAssumption DEF NoToolCall
<1>2. \A k \in Handles : JobInv(k)'
  BY <1>1, JobStays DEF JobsInv, AllEvolve
<1>3. StartInv' /\ AccessInv' /\ InputInv'
  BY <1>1 DEF StartInv, AccessInv, InputInv
<1>4. \A r \in ToSet(results') : ResultInv(r)'
  BY ResultStays, ResultsAreTyped DEF JobsInv
<1> QED
  BY <1>2, <1>3, <1>4 DEF JobsInv

LEMMA ElsewhereKeepsInv ==
  ASSUME JobsInv, NEW j \in Handles, ResultFromElsewhere(j)
  PROVE  JobsInv'
<1> DEFINE t == ToolResult("tool_result", j, None, "settled")
           r == [t EXCEPT !.nested = TRUE]
<1>1. /\ Known(j) /\ call = NoToolCall /\ UNCHANGED <<call, lost, deleted, jobs>>
      /\ results' = Append(results, r) /\ callCount' = callCount + 1
  BY DEF ResultFromElsewhere
<1>2. t = [tool |-> "tool_result", about |-> j, input |-> None, status |-> "settled",
           handle |-> j, nested |-> FALSE]
  BY DEF ToolResult, RunningStatuses
<1> HIDE DEF t
<1>3. t \in Results
  BY <1>2 DEF Results, Statuses
<1>4. r \in Results /\ r.input = None /\ r.tool = "tool_result" /\ r.handle = j
  BY <1>2, <1>3 DEF Results
<1> HIDE DEF r
<1>5. /\ results' \in Seq(Results) /\ ToSet(results') = ToSet(results) \cup {r}
      /\ \A k \in Handles : Known(k)' <=> Known(k) \/ r.handle = k
  BY <1>1, <1>4, ResultIsAdded DEF JobsInv
<1>6. UNCHANGED <<worker, ending, reader, report, command, kept, typed, lines, abandoned>>
  BY <1>1 DEF jobs
<1>7. JobsTyped' /\ SessionTyped'
  BY <1>1, <1>5, <1>6 DEF JobsInv, JobsTyped, SessionTyped
<1>8. AllEvolve /\ NoneStarts
  BY <1>6, SameJobsEvolve DEF JobsInv, NoneStarts
<1>9. \A k \in Handles : Known(k)' <=> Known(k)
  BY <1>1, <1>4, <1>5
<1>10. \A s \in ToSet(results') : s \in ToSet(results) \/ ResultInv(s)'
  BY <1>4, <1>5 DEF ResultInv
<1> QED
  BY <1>1, <1>7, <1>8, <1>9, <1>10, IdleKeepsInv

LEMMA DeleteKeepsInv ==
  ASSUME JobsInv, NEW refusing \in SUBSET RunningJobHandles, DeleteSession(refusing)
  PROVE  JobsInv'
<1> DEFINE closed == {j \in RunningJobHandles \ refusing : Serving(j)}
<1>1. /\ call = NoToolCall
      /\ worker' = [j \in Handles |-> IF j \in closed THEN "ended" ELSE worker[j]]
      /\ ending' = [j \in Handles |-> IF j \in closed THEN "closed" ELSE ending[j]]
      /\ command' = [j \in Handles |-> IF j \in closed THEN "exited" ELSE command[j]]
      /\ lost' = lost \cup refusing
      /\ UNCHANGED <<reader, report, kept, typed, lines, abandoned, call, callCount, results>>
  BY DEF DeleteSession
<1>2. \A j \in closed : worker[j] = "serving"
  BY DEF Serving
<1> HIDE DEF closed
<1>3. JobsTyped' /\ SessionTyped'
  BY <1>1 DEF JobsInv, JobsTyped, SessionTyped, WorkerStates, Endings
<1>4. AllEvolve /\ NoneStarts
  BY <1>1, <1>2 DEF AllEvolve, Evolves, NoneStarts, JobsInv, JobsTyped
<1>5. \A k \in Handles : Known(k)' <=> Known(k)
  BY <1>1 DEF Known
<1>6. \A r \in ToSet(results') : r \in ToSet(results) \/ ResultInv(r)'
  BY <1>1
<1> QED
  BY <1>1, <1>3, <1>4, <1>5, <1>6, IdleKeepsInv

LEMMA JobsInitially == JobsInit => JobsInv
<1> SUFFICES ASSUME JobsInit
             PROVE  JobsInv
  OBVIOUS
<1>1. results = <<>> /\ call = NoToolCall /\ callCount = 0
  BY DEF JobsInit
<1>2. ToSet(results) = {} /\ \A j \in Handles : ~Known(j)
  BY <1>1 DEF ToSet, Known
<1>3. JobsTyped
  BY EmptySeq DEF JobsInit, JobsTyped, WorkerStates, Endings
<1>4. SessionTyped
  BY <1>1, EmptySeq DEF SessionTyped
<1>5. call.tool = None
  BY <1>1 DEF NoToolCall
<1>6. StartInv /\ AccessInv /\ InputInv
  BY <1>1, <1>5, JobsAssumption DEF StartInv, AccessInv, InputInv
<1>7. \A j \in Handles : JobInv(j)
  BY <1>2 DEF JobsInit, JobInv, Accounted
<1> QED
  BY <1>2, <1>3, <1>4, <1>6, <1>7 DEF JobsInv

LEMMA JobsStep == JobsInv /\ [JobsNext]_jobVars => JobsInv'
<1> SUFFICES ASSUME JobsInv, [JobsNext]_jobVars
             PROVE  JobsInv'
  OBVIOUS
<1>1. ASSUME NEW j \in Handles, WorkerSteps(j) PROVE JobsInv'
  BY <1>1, WorkersKeepInv
<1>2. ASSUME NEW j \in Handles, BashJob(j) PROVE JobsInv'
  BY <1>2, BashJobKeepsInv
<1>3. ASSUME NEW j \in Handles,
             NEW kind \in {"none", "empty", "terminated", "unterminated"}, JobInteract(j, kind)
      PROVE  JobsInv'
  BY <1>3, JobInteractKeepsInv
<1>4. ASSUME NEW j \in Handles, JobClose(j) PROVE JobsInv'
  BY <1>4, JobCloseKeepsInv
<1>5. ASSUME NEW j \in Handles, ServeWrite(j) PROVE JobsInv'
  BY <1>5, ServeWriteKeepsInv
<1>6. ASSUME NEW j \in Handles, ServeInteract(j) PROVE JobsInv'
  BY <1>6, ServeInteractKeepsInv
<1>7. ASSUME NEW j \in Handles, InteractionEnds(j) PROVE JobsInv'
  BY <1>7, InteractionEndsKeepsInv
<1>8. ASSUME NEW j \in Handles, ServeClose(j) PROVE JobsInv'
  BY <1>8, ServeCloseKeepsInv
<1>9. ASSUME NEW j \in Handles, ResultFromElsewhere(j) PROVE JobsInv'
  BY <1>9, ElsewhereKeepsInv
<1>10. CASE Launched \/ LaunchFails
  BY <1>10, LaunchKeepsInv
<1>11. CASE Connect \/ JobGone \/ TransportFails \/ InteractionLost
  BY <1>11, ConnectKeepsInv, JobGoneKeepsInv, TransportFailsKeepsInv, InteractionLostKeepsInv
<1>12. CASE InteractInterrupted \/ CallVanishes
  BY <1>12, InterruptedKeepsInv, VanishedKeepsInv
<1>13. ASSUME NEW refusing \in SUBSET RunningJobHandles, DeleteSession(refusing)
       PROVE  JobsInv'
  BY <1>13, DeleteKeepsInv
<1>14. CASE UNCHANGED jobVars
  <2>1. UNCHANGED <<worker, ending, reader, report, command, kept, typed, lines, abandoned,
                    call, callCount, results, lost, deleted>>
    BY <1>14 DEF jobVars, jobs, session
  <2> QED
    BY <2>1, ZenonT(40) DEF JobsInv, JobsTyped, SessionTyped, JobInv, HasLaunched, Accounted, Known,
                StartInv, AccessInv, InputInv, Entered, ResultInv
<1> QED
  BY <1>1, <1>2, <1>3, <1>4, <1>5, <1>6, <1>7, <1>8, <1>9, <1>10, <1>11, <1>12, <1>13, <1>14
     DEF JobsNext, WorkerSteps

LEMMA JobsInvariant == JobsSpec => []JobsInv
  BY JobsInitially, JobsStep, PTL DEF JobsSpec

\* However many jobs a session starts, and however launches, calls and workers
\* fail: a job whose command runs is known to the session or to the call that
\* starts it, unless that call has failed or was interrupted.
THEOREM JobsAreRemembered == JobsSpec => []NoJobIsForgotten
<1>1. JobsInv => NoJobIsForgotten
  BY DEF JobsInv, JobInv, Accounted, NoJobIsForgotten, Runs, Serving
<1> QED
  BY <1>1, JobsInvariant, PTL

\* What a call has typed, before the job was seen to go on, is the end of a line
\* there, whatever other calls have left unfinished or unanswered.
THEOREM InputsEndLines == JobsSpec => []InputIsEntered
<1>1. JobsInv => InputIsEntered
  BY DEF JobsInv, ResultInv, Entered, EndsIn, InputIsEntered
<1> QED
  BY <1>1, JobsInvariant, PTL

\* A command that has ended before its caller connected is not taken for one
\* that was never there.
THEOREM ShortCommandsAreFound == JobsSpec => []ShortCommandsAreRead
<1>1. JobsInv => ShortCommandsAreRead
  BY DEF JobsInv, ResultInv, ShortCommandsAreRead
<1> QED
  BY <1>1, JobsInvariant, PTL
===============================================================================
