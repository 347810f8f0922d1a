-------------------------- MODULE RenderedDifference --------------------------
(***************************************************************************)
(* What is reported of a terminal whose screen was edited                  *)
(* (rendered_difference in headlessterm/worker/state/journal.rs): the rows *)
(* shown now without a longest common subsequence with the rows that were  *)
(* shown before.                                                           *)
(***************************************************************************)
EXTENDS Integers, Sequences, FiniteSets

CONSTANTS
    Rows,      \* what a row may show
    EmptyRow,     \* an empty row
    MaxRows    \* bound on the number of rows

ASSUME RowsAssumption == EmptyRow \in Rows

\* Lengths are 16 bits wide; a screen and its scrollback have at most 1024 rows.
LargestLength == 65535

ASSUME MaxRowsAssumption == MaxRows \in 0 .. LargestLength

VARIABLES
    before, after,              \* the rows acknowledged and the rows shown
    before_index, after_index,  \* how many of them were compared
    changed,                    \* rows to be reported
    reported,                   \* what is joined and returned
    returned                    \* whether it has been

differenceVars == <<before, after, before_index, after_index, changed, reported, returned>>

RowLists == UNION {[1 .. n -> Rows] : n \in 0 .. MaxRows}

DifferenceInit ==
    /\ before \in RowLists /\ after \in RowLists
    /\ before_index = 0 /\ after_index = 0
    /\ changed = <<>>
    /\ reported = <<>> /\ returned = FALSE

-------------------------------------------------------------------------------

LongerOf(m, n) == IF m > n THEN m ELSE n

\* saturating_add
OneMore(n) == IF n < LargestLength THEN n + 1 ELSE n

\* Pairs of how many rows before and of how many rows after are passed over.
Indices == (0 .. Len(before)) \X (0 .. Len(after))

\* Mutant: only the rows before are left out.
LengthsOneSided ==
    LET length[i \in Indices] ==
            IF i[1] = Len(before) \/ i[2] = Len(after) THEN 0
            ELSE IF before[i[1] + 1] = after[i[2] + 1] THEN OneMore(length[<<i[1] + 1, i[2] + 1>>])
            ELSE length[<<i[1] + 1, i[2]>>]
    IN  length

\* Lengths of the longest common subsequences of what follows two indices.
Lengths ==
    LET length[i \in Indices] ==
            IF i[1] = Len(before) \/ i[2] = Len(after) THEN 0
            ELSE IF before[i[1] + 1] = after[i[2] + 1] THEN OneMore(length[<<i[1] + 1, i[2] + 1>>])
            ELSE LongerOf(length[<<i[1] + 1, i[2]>>], length[<<i[1], i[2] + 1>>])
    IN  length

Comparing == ~returned /\ before_index < Len(before) /\ after_index < Len(after)

Same == before[before_index + 1] = after[after_index + 1]

\* The rest is at least as much alike without the row before.
BeforeIsGone ==
    LET lengths == Lengths
    IN  lengths[<<before_index + 1, after_index>>] >= lengths[<<before_index, after_index + 1>>]

KeepRow ==
    /\ Comparing
    /\ Same
    /\ before_index' = before_index + 1
    /\ after_index' = after_index + 1
    /\ UNCHANGED <<before, after, changed, reported, returned>>

LeaveRow ==
    /\ Comparing
    /\ ~Same
    /\ BeforeIsGone
    /\ before_index' = before_index + 1
    /\ UNCHANGED <<before, after, after_index, changed, reported, returned>>

ReportRow ==
    /\ Comparing
    /\ ~Same
    /\ ~BeforeIsGone
    /\ changed' = Append(changed, after[after_index + 1])
    /\ after_index' = after_index + 1
    /\ UNCHANGED <<before, after, before_index, reported, returned>>

\* Places of the rows that are not empty.
Written(rows) == {i \in DOMAIN rows : rows[i] # EmptyRow}

\* Without the empty rows around them.
WithoutEmptyEnds(rows) ==
    IF Written(rows) = {} THEN <<>>
    ELSE LET first == CHOOSE i \in Written(rows) : \A j \in Written(rows) : i <= j
             last == CHOOSE i \in Written(rows) : \A j \in Written(rows) : j <= i
         IN  SubSeq(rows, first, last)

ReturnRows ==
    /\ ~Comparing
    /\ ~returned
    /\ changed' = changed \o SubSeq(after, after_index + 1, Len(after))
    /\ reported' = WithoutEmptyEnds(changed')
    /\ returned' = TRUE
    /\ UNCHANGED <<before, after, before_index, after_index>>

DifferenceNext == KeepRow \/ LeaveRow \/ ReportRow \/ ReturnRows

DifferenceSpec == DifferenceInit /\ [][DifferenceNext]_differenceVars

-------------------------------------------------------------------------------
(* Properties *)

\* Whether part has the rows at some places, in order.
AreRowsAt(part, rows, places) ==
    \E place \in [DOMAIN part -> places] :
        /\ \A i, j \in DOMAIN part : i < j => place[i] < place[j]
        /\ \A p \in places : \E i \in DOMAIN part : place[i] = p
        /\ \A i \in DOMAIN part : part[i] = rows[place[i]]

\* Whether match leads from places of rows shown now to places of the same rows
\* before, in the same order.
IsMatch(match, places) ==
    /\ \A i \in places : before[match[i]] = after[i]
    /\ \A i, j \in places : i < j => match[i] < match[j]

\* Places of rows shown now that were also shown before, in the same order.
Common ==
    {places \in SUBSET DOMAIN after :
        \E match \in [places -> DOMAIN before] : IsMatch(match, places)}

\* Whether part is all of rows apart from empty rows around it.
IsTrimmed(part, rows) ==
    \E from \in 1 .. Len(rows) + 1, to \in 0 .. Len(rows) :
        /\ part = SubSeq(rows, from, to)
        /\ Written(rows) \subseteq from .. to
        /\ part # <<>> => from \in Written(rows) /\ to \in Written(rows)

\* What is reported of an edited screen is the least that is new on it: no choice
\* of rows that stood there before in the same order leaves fewer rows to report,
\* and of the rows left only empty ones at the start and the end are dropped.
LeastIsReported ==
    returned =>
        LET common == Common
        IN  \E kept \in common :
                /\ \A other \in common : Cardinality(other) <= Cardinality(kept)
                /\ AreRowsAt(changed, after, DOMAIN after \ kept)
                /\ IsTrimmed(reported, changed)
===============================================================================
