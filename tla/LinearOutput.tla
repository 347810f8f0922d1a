----------------------------- MODULE LinearOutput -----------------------------
(***************************************************************************)
(* When the output of a headless terminal job is returned as it came       *)
(* (linear_output in headlessterm/worker/state/journal.rs).                *)
(*                                                                         *)
(* The parser of control sequences is external: its events are printed     *)
(* characters, tabs, carriage returns, line feeds, control sequences that  *)
(* edit the screen, ones that do not, and control characters without       *)
(* effect.  Next to it runs the terminal that shows the same events, for   *)
(* the whole life of the job, while linear_output starts anew at what was  *)
(* acknowledged last: a response begins wherever the cursor was left, on   *)
(* whatever was shown there.  It begins between two events, since what is  *)
(* displayed reaches the journal by whole ones.                            *)
(*                                                                         *)
(* Left out: the right margin, where the terminal wraps and tabs stop, a   *)
(* response whose beginning was trimmed, and sequences that LinearOutput   *)
(* takes for harmless and a terminal may not, such as setting the origin   *)
(* mode.  Rows are counted with those scrolled off.  Line ends cut off the *)
(* end of the text are not told apart.                                     *)
(***************************************************************************)
EXTENDS Integers, Sequences

CONSTANTS
    Characters,   \* printed ones
    TabStop,      \* columns from one tab stop to the next
    Cursors,      \* where edits of the screen leave the cursor: <<row, column>>
    MaxEvents     \* bound on the output

LineFeedMark == "lf"
TabMark == "tab"

ASSUME CharactersAssumption == LineFeedMark \notin Characters /\ TabMark \notin Characters
ASSUME TabStopAssumption == TabStop \in Nat \ {0}
ASSUME CursorsAssumption == Cursors \subseteq Nat \X Nat
ASSUME MaxEventsAssumption == MaxEvents \in Nat

VARIABLES
    text, screen_oriented, pending_carriage_return,   \* LinearOutput
    cells,         \* of the terminal: the character at each place that has one
    row, column,   \* and its cursor
    beneath,       \* the cells when the response began
    takenAt,       \* where the cursor was when each part of the text came
    events         \* how many there were

linear == <<text, screen_oriented, pending_carriage_return>>
emulated == <<cells, row, column>>
linearVars == <<linear, emulated, beneath, takenAt, events>>

EmptyScreen == [at \in {} |-> LineFeedMark]

LinearInit ==
    /\ text = <<>> /\ screen_oriented = FALSE /\ pending_carriage_return = FALSE
    /\ cells = EmptyScreen /\ row = 0 /\ column = 0
    /\ beneath = EmptyScreen
    /\ takenAt = <<>>
    /\ events = 0

Count ==
    /\ events < MaxEvents
    /\ events' = events + 1

-------------------------------------------------------------------------------
(* The terminal. *)

Cursor == <<row, column>>

WithCell(shown, at, c) ==
    [place \in DOMAIN shown \cup {at} |-> IF place = at THEN c ELSE shown[place]]

\* A character goes where the cursor is.
Show(c) ==
    /\ cells' = WithCell(cells, Cursor, c)
    /\ column' = column + 1
    /\ UNCHANGED row

\* A tab only moves the cursor.
ShowTab ==
    /\ column' = (column \div TabStop + 1) * TabStop
    /\ UNCHANGED <<cells, row>>

ShowCarriageReturn ==
    /\ column' = 0
    /\ UNCHANGED <<cells, row>>

\* A line feed keeps the column.
ShowLineFeed ==
    /\ row' = row + 1
    /\ UNCHANGED <<cells, column>>

ShowEdit ==
    /\ cells' \in {cells, EmptyScreen}
    /\ \E at \in Cursors : row' = at[1] /\ column' = at[2]

-------------------------------------------------------------------------------
(* The events as LinearOutput takes them. *)

\* A carriage return that no line feed follows takes the cursor back.
FlushCarriageReturn ==
    /\ screen_oriented' = (screen_oriented \/ pending_carriage_return)
    /\ pending_carriage_return' = FALSE

Take(mark) ==
    /\ text' = Append(text, mark)
    /\ takenAt' = Append(takenAt, Cursor)
    /\ UNCHANGED beneath

\* Mutant: the carriage return is forgotten.
PutOver(c) ==
    /\ Count
    /\ pending_carriage_return' = FALSE
    /\ Take(c)
    /\ Show(c)
    /\ UNCHANGED screen_oriented

PutCharacter(c) ==
    /\ Count
    /\ FlushCarriageReturn
    /\ Take(c)
    /\ Show(c)

PutTab ==
    /\ Count
    /\ FlushCarriageReturn
    /\ Take(TabMark)
    /\ ShowTab

PutCarriageReturn ==
    /\ Count
    /\ pending_carriage_return' = TRUE
    /\ ShowCarriageReturn
    /\ UNCHANGED <<text, screen_oriented, beneath, takenAt>>

PutLineFeed ==
    /\ Count
    /\ pending_carriage_return' = FALSE
    /\ Take(LineFeedMark)
    /\ ShowLineFeed
    /\ UNCHANGED screen_oriented

\* Backspace, cursor movement, erasing, the alternate screen and the like.
EditScreen ==
    /\ Count
    /\ screen_oriented' = TRUE
    /\ pending_carriage_return' = FALSE
    /\ ShowEdit
    /\ UNCHANGED <<text, beneath, takenAt>>

\* Colours, titles and the like.
Style ==
    /\ Count
    /\ FlushCarriageReturn
    /\ UNCHANGED <<text, emulated, beneath, takenAt>>

IgnoredControl ==
    /\ Count
    /\ UNCHANGED <<linear, emulated, beneath, takenAt>>

\* What came so far was acknowledged: linear_output has a new parser and a new
\* LinearOutput, the terminal stays as it is.
StartResponse ==
    /\ text' = <<>> /\ screen_oriented' = FALSE /\ pending_carriage_return' = FALSE
    /\ beneath' = cells
    /\ takenAt' = <<>>
    /\ UNCHANGED <<emulated, events>>

LinearNext ==
    \/ \E c \in Characters : PutCharacter(c)
    \/ PutTab
    \/ PutCarriageReturn
    \/ PutLineFeed
    \/ EditScreen
    \/ Style
    \/ IgnoredControl
    \/ StartResponse

LinearSpec == LinearInit /\ [][LinearNext]_linearVars

-------------------------------------------------------------------------------

\* Whether linear_output returns the text if the output ends here.
Linear == ~screen_oriented /\ ~pending_carriage_return

-------------------------------------------------------------------------------
(* Properties *)

Printed == {i \in DOMAIN text : text[i] \in Characters}

\* A row ends where the text has a line feed and nowhere else.
LinesAreRows ==
    \A i \in 1 .. Len(text) - 1 :
        takenAt[i + 1][1] = takenAt[i][1] + (IF text[i] = LineFeedMark THEN 1 ELSE 0)

ReadsOn(p, q) == p[1] < q[1] \/ (p[1] = q[1] /\ p[2] < q[2])

ReadInOrder == \A i, j \in Printed : i < j => ReadsOn(takenAt[i], takenAt[j])

StandsWhereItCame ==
    \A i \in Printed : takenAt[i] \in DOMAIN cells /\ cells[takenAt[i]] = text[i]

RestIsAsBefore ==
    \A at \in (DOMAIN cells \cup DOMAIN beneath) \ {takenAt[i] : i \in Printed} :
        at \in DOMAIN cells /\ at \in DOMAIN beneath /\ cells[at] = beneath[at]

\* Output returned as it came is what this response changed on the screen,
\* wherever it began: its characters stand there in the order of the text, line
\* by line, none written over, and no other place changed.  What an earlier
\* response left in the first row may stand next to them: "working\r", once
\* acknowledged, and "ok\r\n" leave "okrking" there, and "ok" is returned.
LinearIsShown == Linear => LinesAreRows /\ ReadInOrder /\ StandsWhereItCame /\ RestIsAsBefore
================================================================================
