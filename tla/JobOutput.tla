------------------------------- MODULE JobOutput -------------------------------
(***************************************************************************)
(* What the calls on a headless terminal job promise together: the output  *)
(* of the job is one stream, and every call returns the part of it that    *)
(* follows what has been returned before.  HeadlessWorker implements this. *)
(***************************************************************************)
EXTENDS Integers

CONSTANT Calls

VARIABLES
    written,   \* length of the output
    read,      \* how much of it was returned
    got        \* what each call has returned, <<>> if nothing

Init ==
    /\ written \in Nat
    /\ read = 0
    /\ got = [c \in Calls |-> <<>>]

Write ==
    /\ written' = written + 1
    /\ UNCHANGED <<read, got>>

Read(c) ==
    /\ got[c] = <<>>
    /\ \E upto \in read .. written :
        /\ got' = [got EXCEPT ![c] = <<read, upto>>]
        /\ read' = upto
    /\ UNCHANGED written

Next == Write \/ \E c \in Calls : Read(c)

Spec == Init /\ [][Next]_<<written, read, got>>
=============================================================================
