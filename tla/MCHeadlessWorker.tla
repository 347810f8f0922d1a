--------------------------- MODULE MCHeadlessWorker ---------------------------
(* Instances of HeadlessWorker for TLC. *)
EXTENDS HeadlessWorker, TLC

CONSTANTS c1, c2

\* Two processes number their calls alike.
MCSameIds == [c \in Calls |-> 1]

\* The calls of one process.
MCDistinctIds == [c \in Calls |-> IF c = c1 THEN 1 ELSE 2]
=============================================================================
