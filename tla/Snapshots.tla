------------------------------- MODULE Snapshots -------------------------------
(***************************************************************************)
(* What a session promises to the evaluator, without frames, deltas or     *)
(* steps: a stack of complete states.  Each state has a message history,   *)
(* a variable environment, and whether it was produced by compaction.      *)
(* A step publishes one new state, refines the current one, or takes the   *)
(* last one back; the states below are never touched.                      *)
(***************************************************************************)
EXTENDS Integers, SequencesExt

CONSTANT Opening      \* the state of a new session

VARIABLE stack

Top == Last(stack)

\* Both histories: the new one continues the old one.
Continues(old, new) == IsPrefix(old.history, new.history)

Init == stack = <<Opening>>

\* A new state on top, continuing the previous one in the same environment.
Publish ==
    /\ Len(stack') = Len(stack) + 1
    /\ Front(stack') = stack
    /\ ~Last(stack').compacted
    /\ Continues(Top, Last(stack'))
    /\ Last(stack').env = Top.env

\* A new state on top whose history is a shorter account of the previous one
\* or the same.  Variables are not compacted.
Condense ==
    /\ Len(stack') = Len(stack) + 1
    /\ Front(stack') = stack
    /\ Last(stack').compacted
    /\ Len(Last(stack').history) <= Len(Top.history)
    /\ Last(stack').env = Top.env

\* The current state goes on: nothing committed in it is lost.
Continue ==
    /\ Len(stack') = Len(stack)
    /\ Front(stack') = Front(stack)
    /\ ~Top.compacted /\ ~Last(stack').compacted
    /\ Continues(Top, Last(stack'))

\* Exactly the previous state is back.
TakeBack ==
    /\ Len(stack) > 1
    /\ stack' = Front(stack)

Next == Publish \/ Condense \/ Continue \/ TakeBack

Spec == Init /\ [][Next]_stack

(* The owner of the session may also take back several states at once, and   *)
(* may turn a condensed state into an ordinary one, which brings back the    *)
(* messages it had condensed.                                                *)

TakeBackMany ==
    \E n \in 1 .. Len(stack) - 1 : stack' = SubSeq(stack, 1, n)

Reveal ==
    /\ Top.compacted
    /\ Len(stack') = Len(stack)
    /\ Front(stack') = Front(stack)
    /\ ~Last(stack').compacted
    /\ Last(stack').env = Top.env
    /\ Last(stack').history = stack[Len(stack) - 1].history \o Top.history

\* Messages and variables may be added to a condensed state as well.
Amend ==
    /\ Top.compacted
    /\ Len(stack') = Len(stack)
    /\ Front(stack') = Front(stack)
    /\ Last(stack').compacted
    /\ Continues(Top, Last(stack'))

OwnerSpec == Init /\ [][Next \/ TakeBackMany \/ Reveal \/ Amend]_stack
===============================================================================
