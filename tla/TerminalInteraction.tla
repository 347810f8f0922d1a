-------------------------- MODULE TerminalInteraction --------------------------
(***************************************************************************)
(* When an interaction with a headless terminal job returns                *)
(* (headlessterm/worker/interaction.rs, and interact in process.rs).       *)
(*                                                                         *)
(* Time is counted in ticks.  The thread of an interaction polls the       *)
(* terminal when it wakes up, and computing takes no time.  Of the         *)
(* terminal there is what its rows show and whether the alternate screen   *)
(* is on.                                                                  *)
(***************************************************************************)
EXTENDS Integers

CONSTANTS
    PollInterval, SettlePeriod,   \* POLL_INTERVAL and OUTPUT_SETTLE_PERIOD
    Waits,                        \* try_wait of the interactions, or Forever
    Forever,                      \* as a wait that overflows the clock
    Screens, Blank,               \* what the rows may show
    MaxTime                       \* bound on the clock

ASSUME PeriodsAssumption == PollInterval \in Nat \ {0} /\ SettlePeriod \in Nat \ {0}
ASSUME WaitsAssumption == Forever \notin Nat /\ Waits \subseteq Nat \cup {Forever}
ASSUME ScreensAssumption == Blank \in Screens
ASSUME MaxTimeAssumption == MaxTime \in Nat

VARIABLES
    now,
    screen, alternate,          \* of the terminal
    displayed, inAlternate,     \* what happened to it since the last capture
    delivered,                  \* rows of the acknowledged checkpoint
    observed,                   \* rows of the last observation
    exited,
    settle,                     \* settle_deadline of InteractionState
    mode,                       \* "idle", "polling", "completing" or "delivering"
    waitAt, settleAt, wake,     \* deadlines of the interaction, and its next poll
    status,                     \* what it returns
    lastLinear, firstScreen,    \* when linear and interactive changes were observed
    lastChange                  \*   since the last acknowledged response

terminal == <<screen, alternate, displayed, inAlternate, exited>>
interaction == <<waitAt, settleAt, wake, status>>
history == <<lastLinear, firstScreen, lastChange>>
interactionVars == <<now, terminal, delivered, observed, settle, mode, interaction, history>>

Never == -1

Deadline(at, kind) == [at |-> at, kind |-> kind]

NoDeadline == Deadline(Never, "none")

InteractionInit ==
    /\ now = 0
    /\ screen = Blank /\ alternate = FALSE
    /\ displayed = FALSE /\ inAlternate = FALSE
    /\ delivered = Blank /\ observed = Blank
    /\ exited = FALSE
    /\ settle = NoDeadline
    /\ mode = "idle"
    /\ waitAt = Never /\ settleAt = NoDeadline /\ wake = Never /\ status = "none"
    /\ lastLinear = Never /\ firstScreen = Never /\ lastChange = Never

-------------------------------------------------------------------------------
(* The terminal, and time. *)

\* A chunk of output is displayed and may switch screens.
Display(rows, alternateAfter) ==
    /\ screen' = rows
    /\ alternate' = alternateAfter
    /\ displayed' = TRUE
    /\ inAlternate' = (inAlternate \/ alternate \/ alternateAfter)
    /\ UNCHANGED <<now, delivered, observed, exited, settle, mode, interaction, history>>

Exit ==
    /\ ~exited
    /\ exited' = TRUE
    /\ UNCHANGED <<now, screen, alternate, displayed, inAlternate, delivered, observed, settle, mode,
                   interaction, history>>

\* The thread of an interaction does not oversleep.
Tick ==
    /\ now < MaxTime
    /\ mode # "completing"
    /\ mode = "polling" => now < wake
    /\ now' = now + 1
    /\ UNCHANGED <<terminal, delivered, observed, settle, mode, interaction, history>>

-------------------------------------------------------------------------------
(* Observations. *)

Classify ==
    IF ~displayed THEN "none"
    ELSE IF screen = delivered THEN "repeated"
    ELSE IF inAlternate THEN "screen" ELSE "linear"

\* Mutant: every change of an interactive screen starts the period again.
UpdatedAlways(deadline) ==
    CASE Classify = "linear" -> Deadline(now + SettlePeriod, "settled")
      [] Classify = "screen" -> Deadline(now + SettlePeriod, "sampled")
      [] OTHER               -> deadline

\* Mutant: the period starts with the first change, as for a screen.
UpdatedOnce(deadline) ==
    CASE Classify = "linear" /\ deadline = NoDeadline -> Deadline(now + SettlePeriod, "settled")
      [] Classify = "screen" /\ deadline = NoDeadline -> Deadline(now + SettlePeriod, "sampled")
      [] OTHER                                        -> deadline

\* update_settle_deadline
Updated(deadline) ==
    CASE Classify = "linear"                             -> Deadline(now + SettlePeriod, "settled")
      [] Classify = "screen" /\ deadline = NoDeadline    -> Deadline(now + SettlePeriod, "sampled")
      [] OTHER                                           -> deadline

\* The terminal is captured and observed.
Capture ==
    /\ observed' = screen
    /\ settle' = Updated(settle)
    /\ displayed' = FALSE /\ inAlternate' = FALSE
    /\ lastLinear' = IF Classify = "linear" THEN now ELSE lastLinear
    /\ firstScreen' = IF Classify = "screen" /\ firstScreen = Never THEN now ELSE firstScreen
    /\ lastChange' = IF Classify \in {"linear", "screen"} THEN now ELSE lastChange
    /\ UNCHANGED <<now, screen, alternate, exited, delivered>>

\* The worker refreshes its job, or serves another request.
Refresh ==
    /\ mode = "idle"
    /\ Capture
    /\ UNCHANGED <<mode, interaction>>

-------------------------------------------------------------------------------
(* An interaction. *)

BeginInteraction(wait) ==
    /\ mode = "idle"
    /\ mode' = "polling"
    /\ waitAt' = IF wait = Forever THEN Never ELSE now + wait
    /\ settleAt' = settle
    /\ wake' = now
    /\ status' = "none"
    /\ UNCHANGED <<now, terminal, delivered, observed, settle, history>>

\* boundary_at: the deadline that comes first, the settle period if both do.
Boundary(settling) ==
    IF settling # NoDeadline /\ (waitAt = Never \/ settling.at <= waitAt) THEN settling
    ELSE IF waitAt # Never THEN Deadline(waitAt, "elapsed") ELSE NoDeadline

EarlierOf(m, n) == IF m < n THEN m ELSE n

\* One turn of the loop of interact.
Poll ==
    /\ mode = "polling"
    /\ now = wake
    /\ Capture
    /\ settleAt' = Updated(settleAt)
    /\ LET boundary == Boundary(settleAt')
           reached == boundary # NoDeadline /\ boundary.at <= now
       IN  CASE exited  -> mode' = "completing" /\ status' = "exited" /\ UNCHANGED wake
             [] ~exited /\ reached ->
                    mode' = "completing" /\ status' = boundary.kind /\ UNCHANGED wake
             [] OTHER ->
                    /\ wake' = IF boundary = NoDeadline THEN now + PollInterval
                               ELSE EarlierOf(boundary.at, now + PollInterval)
                    /\ UNCHANGED <<mode, status>>
    /\ UNCHANGED waitAt

\* complete_interaction captures once more.
Complete ==
    /\ mode = "completing"
    /\ Capture
    /\ mode' = "delivering"
    /\ UNCHANGED interaction

\* The interaction is over.
Idle ==
    /\ mode' = "idle"
    /\ waitAt' = Never /\ settleAt' = NoDeadline /\ wake' = Never /\ status' = "none"

\* It is cancelled before it has reached a boundary.
Cancel ==
    /\ mode = "polling"
    /\ ~exited
    /\ Idle
    /\ UNCHANGED <<now, terminal, delivered, observed, settle, history>>

\* Mutant: the deadline outlives the output it was for.
AcknowledgeKeepsDeadline ==
    /\ mode = "delivering"
    /\ Idle
    /\ delivered' = observed
    /\ observed' = screen
    /\ lastLinear' = Never /\ firstScreen' = Never /\ lastChange' = Never
    /\ UNCHANGED <<now, terminal, settle>>

AcknowledgeOutput ==
    /\ mode = "delivering"
    /\ Idle
    /\ delivered' = observed
    /\ observed' = screen
    /\ settle' = NoDeadline
    /\ lastLinear' = Never /\ firstScreen' = Never /\ lastChange' = Never
    /\ UNCHANGED <<now, terminal>>

OutputUndelivered ==
    /\ mode = "delivering"
    /\ Idle
    /\ UNCHANGED <<now, terminal, delivered, observed, settle, history>>

InteractionNext ==
    \/ \E rows \in Screens, alternateAfter \in BOOLEAN : Display(rows, alternateAfter)
    \/ Exit
    \/ Tick
    \/ Refresh
    \/ \E wait \in Waits : BeginInteraction(wait)
    \/ Poll
    \/ Complete
    \/ Cancel
    \/ AcknowledgeOutput
    \/ OutputUndelivered

InteractionSpec == InteractionInit /\ [][InteractionNext]_interactionVars

-------------------------------------------------------------------------------
(* Properties *)

\* Output that is said to have settled has: no other linear change was seen for
\* the settle period, by this interaction or by the worker before it.
SettledMeansQuiet ==
    mode = "completing" /\ status = "settled" =>
        lastLinear # Never /\ now - lastLinear >= SettlePeriod

\* A screen that is never quiet does not keep a caller waiting: no interaction
\* sleeps past the settle period after the first change that was observed.
SampleIsBounded ==
    mode = "polling" /\ now < wake /\ firstScreen # Never /\ lastLinear = Never =>
        wake <= firstScreen + SettlePeriod

\* An interaction returns on account of output only if that is output which no
\* caller has been given.
DeliveredOutputIsOver ==
    mode = "completing" /\ status \in {"settled", "sampled"} => lastChange # Never
================================================================================
