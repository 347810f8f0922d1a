-------------------------------- MODULE PhiExpr --------------------------------
(***************************************************************************)
(* The step expression of phi/src/expr.rs: the chain of frames a Session   *)
(* file stores and the evaluator rewrites.  A frame is a step together     *)
(* with the delta that step contributes, that is, messages and variable    *)
(* effects.  The Arc-linked chain (outermost frame pointing at its parent) *)
(* is a sequence whose head is the root and whose last element is the      *)
(* outermost frame, which is also how session/mod.rs flattens it.          *)
(*                                                                         *)
(* Message text, tool arguments, provider settings and human readable      *)
(* details are abstracted away: a message keeps its role, the call it      *)
(* answers and the calls it makes, because those are what lookup, history, *)
(* compaction and recovery depend on.                                      *)
(***************************************************************************)
EXTENDS Integers, SequencesExt

CONSTANTS
    Keys,      \* names of session variables
    CallIds,   \* tool-call identifiers a provider may return
    NoCall     \* the id of a message that answers no tool call

ASSUME NoCallAssumption == NoCall \notin CallIds

-------------------------------------------------------------------------------
(* Messages *)

Roles == {"system", "user", "assistant", "tool"}

Message == [role : Roles, id : CallIds \cup {NoCall}, calls : Seq(CallIds)]

SystemMessage == [role |-> "system", id |-> NoCall, calls |-> <<>>]
UserMessage == [role |-> "user", id |-> NoCall, calls |-> <<>>]
AssistantMessage(calls) == [role |-> "assistant", id |-> NoCall, calls |-> calls]
ToolResultMessage(id) == [role |-> "tool", id |-> id, calls |-> <<>>]

-------------------------------------------------------------------------------
(* Variable effects: what one frame says about one variable. *)

Missing == [tag |-> "missing"]
Removed == [tag |-> "removed"]
Stored(v) == [tag |-> "stored", value |-> v]

Effect == {Missing, Removed} \cup [tag : {"stored"}, value : Nat]

NoEffects == [k \in Keys |-> Missing]

(* Deltas: the messages and effects of one frame. *)

Delta == [history : Seq(Message), effects : [Keys -> Effect]]

EmptyDelta == [history |-> <<>>, effects |-> NoEffects]

Messages(ms) == [history |-> ms, effects |-> NoEffects]

Affects(delta, key) == delta.effects[key] # Missing

StoreIn(delta, key, value) == [delta EXCEPT !.effects[key] = Stored(value)]

RemoveIn(delta, key) == [delta EXCEPT !.effects[key] = Removed]

\* base.then(next): the messages of next follow, its effects take precedence.
Then(base, next) ==
    [history |-> base.history \o next.history,
     effects |-> [k \in Keys |-> IF Affects(next, k) THEN next.effects[k]
                                                     ELSE base.effects[k]]]

-------------------------------------------------------------------------------
(* Chains of frames *)

Outer(frames) == frames[Len(frames)]

Parent(frames) == frames[Len(frames) - 1]

HasParent(frames) == Len(frames) > 1

Branch(frames, step, delta) == Append(frames, [step |-> step, delta |-> delta])

ReplaceOuter(frames, step, delta) ==
    [frames EXCEPT ![Len(frames)] = [step |-> step, delta |-> delta]]

\* A root expression has no parent to fall back to and is left alone.
DropOuter(frames) == IF HasParent(frames) THEN Front(frames) ELSE frames

IsHistoryBarrier(step) == step.kind = "compacted"

\* What the frames say up to each position: a compacted frame hides the
\* messages below it, and only the messages.
History(frames) ==
    LET upto[i \in 0 .. Len(frames)] ==
            IF i = 0 THEN <<>>
            ELSE (IF IsHistoryBarrier(frames[i].step) THEN <<>> ELSE upto[i - 1])
                     \o frames[i].delta.history
    IN upto[Len(frames)]

\* Mutant: a removal is taken for a frame that does not mention the variable.
LookupPastRemoval(frames, key) ==
    LET mentions == {i \in DOMAIN frames :
                        frames[i].delta.effects[key] \notin {Missing, Removed}}
    IN IF mentions = {} THEN Missing ELSE frames[Max(mentions)].delta.effects[key]

\* The value of a variable, or Missing.  The outermost frame that mentions the
\* variable decides; a removal there hides every older value.
Lookup(frames, key) ==
    LET mentions == {i \in DOMAIN frames : Affects(frames[i].delta, key)}
        effect == frames[Max(mentions)].delta.effects[key]
    IN IF mentions = {} \/ effect = Removed THEN Missing ELSE effect

\* The nearest strict ancestor with a step of the kind, as the chain that ends
\* there; the empty chain when there is none.
FindAncestor(frames, kind) ==
    LET found == {i \in 1 .. Len(frames) - 1 : frames[i].step.kind = kind}
    IN IF found = {} THEN <<>> ELSE SubSeq(frames, 1, Max(found))
===============================================================================
