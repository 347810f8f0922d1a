-------------------------- MODULE MCHeadlessTerminal --------------------------
(* Headless terminal jobs from the tools of an agent to what they are shown: *)
(* the tools, when interactions return, the journal of the output, and the   *)
(* two ways to render it, each by itself.                                    *)
EXTENDS ShellJobs, OutputJournal, TerminalInteraction, LinearOutput, RenderedDifference

CONSTANTS Text, a, b

VARIABLE subject

terminalVars == <<subject, jobVars, vars, interactionVars, linearVars, differenceVars>>

MCTerminalInit ==
    /\ subject \in {"jobs", "journal", "interaction", "linear", "difference"}
    /\ JobsInit /\ Init /\ InteractionInit /\ LinearInit
    /\ IF subject = "difference" THEN DifferenceInit
       ELSE DifferenceInit /\ before = <<>> /\ after = <<>>

MCTerminalNext ==
    /\ UNCHANGED subject
    /\ \/ /\ subject = "jobs" /\ JobsNext
          /\ UNCHANGED <<vars, interactionVars, linearVars, differenceVars>>
       \/ /\ subject = "journal" /\ Next
          /\ UNCHANGED <<jobVars, interactionVars, linearVars, differenceVars>>
       \/ /\ subject = "interaction" /\ InteractionNext
          /\ UNCHANGED <<jobVars, vars, linearVars, differenceVars>>
       \/ /\ subject = "linear" /\ LinearNext
          /\ UNCHANGED <<jobVars, vars, interactionVars, differenceVars>>
       \/ /\ subject = "difference" /\ DifferenceNext
          /\ UNCHANGED <<jobVars, vars, interactionVars, linearVars>>

MCTerminalSpec == MCTerminalInit /\ [][MCTerminalNext]_terminalVars

\* Only the jobs.
MCJobsSpec == MCTerminalInit /\ subject = "jobs" /\ [][MCTerminalNext]_terminalVars

\* Back in the first row, and on in the second.
MCCursors == {<<0, 1>>, <<1, 2>>}

MCChunks == {<<"other">>, <<"lf">>, <<"other", "lf">>, <<"lf", "other", "lf">>}
===============================================================================
