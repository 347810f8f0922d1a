----------------------------- MODULE OutputJournal -----------------------------
(***************************************************************************)
(* The output journal of a headless terminal job                           *)
(* (headlessterm/worker/state/journal.rs), from the bytes the terminal     *)
(* displays to the checkpoint of the last acknowledged response.           *)
(*                                                                         *)
(* A response carries the bytes it stands for, line feeds and others: how  *)
(* they are rendered, as text or as a difference of screens, is left out.  *)
(* The job belongs to one thread at a time, so nothing is captured between *)
(* the selection of a response and its delivery.                           *)
(***************************************************************************)
EXTENDS Integers, Sequences, FiniteSets

CONSTANTS
    MaxLines, MaxBytes,   \* SCROLLBACK_ROWS and OUTPUT_MAX_BYTES
    Chunks,               \* what the terminal may display at once
    MaxStream             \* bound on the whole output

ASSUME LimitsAssumption == MaxLines \in Nat /\ MaxBytes \in Nat /\ MaxStream \in Nat

Bytes == {"lf", "other"}

ASSUME ChunksAssumption == Chunks \subseteq Seq(Bytes)

VARIABLES
    stream,                   \* everything ever displayed
    bytes, lineCount,
    truncated,
    startOffset, endOffset,
    checkpoint,               \* stream_offset of the acknowledged checkpoint
    observation,              \* what the last capture has seen
    response,                 \* the response being delivered
    pc                        \* "reading", "trimming", "observed" or "selected"

journal == <<bytes, lineCount, truncated, startOffset, endOffset, checkpoint>>
vars == <<stream, journal, observation, response, pc>>

Observation(end, lossy) == [end |-> end, truncated |-> lossy]

Pending(text, lossy, upto) == [text |-> text, truncated |-> lossy, upto |-> upto]

NothingPending == Pending(<<>>, FALSE, 0)

LineFeeds(s) == Cardinality({i \in DOMAIN s : s[i] = "lf"})

LesserOf(m, n) == IF m < n THEN m ELSE n

\* saturating_sub
Minus(m, n) == IF m > n THEN m - n ELSE 0

Init ==
    /\ stream = <<>>
    /\ bytes = <<>> /\ lineCount = 0
    /\ truncated = FALSE
    /\ startOffset = 0 /\ endOffset = 0
    /\ checkpoint = 0
    /\ observation = Observation(0, FALSE)
    /\ response = NothingPending
    /\ pc = "reading"

-------------------------------------------------------------------------------

\* The capture finds another chunk.
AppendChunk(chunk) ==
    /\ pc = "reading"
    /\ Len(stream) + Len(chunk) <= MaxStream
    /\ stream' = stream \o chunk
    /\ bytes' = bytes \o chunk
    /\ lineCount' = lineCount + LineFeeds(chunk)
    /\ endOffset' = endOffset + Len(chunk)
    /\ pc' = "trimming"
    /\ UNCHANGED <<truncated, startOffset, checkpoint, observation, response>>

TooMuch == lineCount > MaxLines \/ Len(bytes) > MaxBytes

\* Mutant: a line feed that is dropped is still counted.
TrimWithoutCounting ==
    /\ pc = "trimming"
    /\ TooMuch
    /\ bytes # <<>>
    /\ bytes' = Tail(bytes)
    /\ startOffset' = startOffset + 1
    /\ truncated' = TRUE
    /\ UNCHANGED <<stream, lineCount, endOffset, checkpoint, observation, response, pc>>

TrimFront ==
    /\ pc = "trimming"
    /\ TooMuch
    /\ bytes # <<>>
    /\ bytes' = Tail(bytes)
    /\ startOffset' = startOffset + 1
    /\ lineCount' = IF Head(bytes) = "lf" THEN Minus(lineCount, 1) ELSE lineCount
    /\ truncated' = TRUE
    /\ UNCHANGED <<stream, endOffset, checkpoint, observation, response, pc>>

Trimmed ==
    /\ pc = "trimming"
    /\ ~TooMuch \/ bytes = <<>>
    /\ pc' = "reading"
    /\ UNCHANGED <<stream, journal, observation, response>>

\* The capture finds no more for the time being.
Observe ==
    /\ pc = "reading"
    /\ observation' = Observation(endOffset, truncated)
    /\ pc' = "observed"
    /\ UNCHANGED <<stream, journal, response>>

CaptureAgain ==
    /\ pc = "observed"
    /\ pc' = "reading"
    /\ UNCHANGED <<stream, journal, observation, response>>

\* The bytes that were there when the terminal was observed.
Stream(o) == SubSeq(bytes, 1, LesserOf(Minus(o.end, startOffset), Len(bytes)))

Select ==
    /\ pc = "observed"
    /\ response' = Pending(Stream(observation), observation.truncated, observation.end)
    /\ pc' = "selected"
    /\ UNCHANGED <<stream, journal, observation>>

\* Mutant: the loss that was reported is reported again.
AcknowledgeKeepsLoss ==
    /\ pc = "selected"
    /\ LET delivered == LesserOf(Minus(response.upto, startOffset), Len(bytes))
           rest == SubSeq(bytes, delivered + 1, Len(bytes))
       IN  /\ bytes' = rest
           /\ startOffset' = startOffset + delivered
           /\ lineCount' = LineFeeds(rest)
           /\ observation' = Observation(endOffset, truncated)
    /\ checkpoint' = response.upto
    /\ response' = NothingPending
    /\ pc' = "observed"
    /\ UNCHANGED <<stream, endOffset, truncated>>

\* The response was acknowledged, or sent to the caller that closes the job.
Acknowledge ==
    /\ pc = "selected"
    /\ LET delivered == LesserOf(Minus(response.upto, startOffset), Len(bytes))
           rest == SubSeq(bytes, delivered + 1, Len(bytes))
       IN  /\ bytes' = rest
           /\ startOffset' = startOffset + delivered
           /\ lineCount' = LineFeeds(rest)
    /\ truncated' = FALSE
    /\ checkpoint' = response.upto
    /\ observation' = Observation(endOffset, FALSE)
    /\ response' = NothingPending
    /\ pc' = "observed"
    /\ UNCHANGED <<stream, endOffset>>

\* The response was not delivered.
Undelivered ==
    /\ pc = "selected"
    /\ response' = NothingPending
    /\ pc' = "observed"
    /\ UNCHANGED <<stream, journal, observation>>

Next ==
    \/ \E chunk \in Chunks : AppendChunk(chunk)
    \/ TrimFront
    \/ Trimmed
    \/ Observe
    \/ CaptureAgain
    \/ Select
    \/ Acknowledge
    \/ Undelivered

Spec == Init /\ [][Next]_vars

-------------------------------------------------------------------------------

(* Types; offsets and counts never become negative. *)
TypeOK ==
    /\ stream \in Seq(Bytes) /\ bytes \in Seq(Bytes)
    /\ lineCount \in Nat /\ truncated \in BOOLEAN
    /\ startOffset \in Nat /\ endOffset \in Nat /\ checkpoint \in Nat
    /\ observation \in [end : Nat, truncated : BOOLEAN]
    /\ response \in [text : Seq(Bytes), truncated : BOOLEAN, upto : Nat]
    /\ pc \in {"reading", "trimming", "observed", "selected"}

\* The output from one offset of the stream to another.
Between(from, upto) == SubSeq(stream, from + 1, upto)

(* A caller that acknowledges what it gets misses nothing unless it is told so,
   and is told so only then: a response without the flag carries all the output
   since the last acknowledged one, and one with the flag carries the end of it
   and lacks the beginning. *)
LossIsReported ==
    pc = "selected" =>
        /\ response.upto = Len(stream)
        /\ Len(response.text) <= response.upto - checkpoint
        /\ response.text = Between(response.upto - Len(response.text), response.upto)
        /\ response.truncated <=> Len(response.text) < response.upto - checkpoint

Fits(s) == LineFeeds(s) <= MaxLines /\ Len(s) <= MaxBytes

(* No more output is given up than the limits ask for: what is kept fits, and
   one byte more of what is not acknowledged would not. *)
KeepsWhatFits ==
    pc # "trimming" =>
        /\ Fits(bytes)
        /\ startOffset > checkpoint => ~Fits(Between(startOffset - 1, Len(stream)))

===============================================================================
