# phi-agent in TLA+

This directory holds TLA+ models of phi-agent, the runs that model-check them
and the proofs about them. A reader needs the repository and a TLA+ toolbox:
`tlc -config X.cfg M` repeats a run of `PROJECT.json`, `tlapm M.tla` a proof.
The models are translated from the source; the lines each definition stands
for are in `PROJECT.json` under `map`.

Status: everything below is modelled and checked, and every safety property, action
property and refinement that a passing run checks is proved as well, one of them
(`OnlyExhaustionIsFinal`) in other words. The three liveness properties are checked only.

## The system

A *session* is a chain of frames. Each frame holds a *step* (what is to be done
next) and a *delta* (messages added to the history, and effects on variables).
`phi session` commands create and transform sessions; `phi step`, `run` and
`yolo` evaluate them; each command is a process that loads one file and saves
it. Long-running shell jobs live in detached worker processes, which tool calls
reach over local sockets.

| Component | State | Operations | Talks to |
| --- | --- | --- | --- |
| Step expression (`expr.rs`, `message.rs`) | frames: step and delta | history, lookup, ancestor, `then`, push, replace, drop | used by everything |
| Steps and errors (`session/mod.rs`, `error.rs`) | step and error variants | validation, terminal test, resolving tool results | evaluator, serialization |
| Compaction (`render/compact.rs`) | none (pure) | estimate, choose the retained suffix, splice in the summary | evaluator |
| Evaluator (`agent/step.rs`, `agent/mod.rs`, `module.rs`) | the committed expression, the delta of the step in flight | one step: request, tool call, compaction, resumption, failure; five bounces | modules, provider, executor |
| Governance and recovery (`features/`) | a retry counter kept in deltas | step budget, model retry, auto compaction, failure recovery | evaluator, in a fixed order |
| Session transformations (`session/mod.rs`, `session/command.rs`) | the session of the command | append, store, remove, next, replace, tool-result, rollback, rollback-to, new, delete, state, messages | session file |
| Driver (`lib.rs`) | session in memory, previous failure, cancellation | checkpoint, step, Ctrl-C, panic, persist on exit | evaluator, session file |
| Session file (`session/serialization.rs`) | the file, temporary files | create, load, atomic save, delete | the file system, other processes |
| Headless terminal worker (`headlessterm/worker/server.rs`, `state.rs`, `process.rs`, `interaction.rs`) | job, terminal screen, output journal, current interaction, lease | interact, write, close, status, cancel, acknowledge, expire, finish | clients, pty, spool |
| Output journal (`worker/state/journal.rs`) | bytes, offsets, truncation flag, last delivery | append and trim, stream, acknowledge | worker |
| Client and launcher (`worker/client.rs`, `launcher.rs`, `startup.rs`, `rpc.rs`) | request identifiers, the connection | spawn, connect with retry, interact, acknowledge, cancel on drop | worker, spool |
| Lease (`worker/lease.rs`) | last activity, whether anyone interacted | observe, elapsed | worker |
| Spool (`worker/spool.rs`) | one file per finished job | store, take | worker, client |
| Pseudo terminals, platforms (`worker/pty.rs`, `platform/`) | operating system handles | spawn, read, write, resize, kill | worker |
| Executor and shell tools (`executor/`) | registered tools, cancellation flags | dispatch, exec, job_interact, job_write, close | evaluator, client |
| Tool output truncation (`executor/truncation.rs`) | none (pure) | shorten text to a budget | executor |
| Providers (`render/provider/`) | client, configuration | render messages, complete, parse responses | evaluator, network |
| Observers (`features/observers/`) | a display | echo, spinner, channel | evaluator, read only |
| Home stores (`home/`) | directory tree or SQLite file | list, read, write, pack, unpack | configuration |
| Configuration, options (`config/`, `cli.rs`, `agent/command.rs`) | none | parse, merge environment | all, at start |
| `xtask`, scripts | none | release tooling | not part of the program |

What is hard in each, and what makes it correct:

- **Expression**: the current state is spread over the chain. Removals must hide
  older values, a compacted frame must hide older messages, and removing a frame
  must bring both back.
- **Evaluator, governance, recovery**: failures at every step, retries counted
  through deltas, recovery that rewrites half-finished tool turns, a ladder of
  compaction rates. Calls and results must stay together, failed frames must be
  replaced or removed, a session must never become a dead end.
- **Session commands**: they act on any step, also on a failed or a compacted
  one, in any order with evaluation. What is saved must load and evaluate again.
- **Driver and file**: Ctrl-C, panics, failing saves, process and power failures
  at any point, several processes on a file. What is on disk must always be a
  session that was committed.
- **Headless terminal**: clients disappear between receiving output and
  acknowledging it, jobs end while nobody listens, one interaction displaces
  another, leases expire. Output must be delivered or reported as truncated, a
  job must be reachable or over, a worker must not live on for good.
- **Shell tools and launcher**: a worker is started, reports, and is connected to,
  each in a process of its own that may die or be too slow; a call may be
  interrupted at any point. A job that runs must be known to its session, and
  input must end its line.
- **Providers**: a history made with one provider goes to another. What is sent must
  pair calls and outputs whatever failed before; replies of every shape must
  become a message or an error that recovery understands.
- **Truncation, rendering**: shortened output must fit its budget, escapes
  included; what a terminal shows must be reported, and nothing else.
- **Homes, configuration**: several processes create, pack, unpack and load the same
  paths, and go on with a session that others were configured differently for.

`PROJECT.json` lists the hazards one by one, with their lines.

## Modules

    PhiExpr <- PhiSteps <- Compaction <- PhiAgent <- PhiSession <- PhiDriver
                                  ^          ^
                         CompactHistories    Snapshots (refinement)

    JobClients <- HeadlessWorker
                        ^
                    JobOutput (refinement)

    ProviderWire <- ProviderTurns        Configuration <- AgentSetup
    SessionFile   HomeStores   Truncation   ShellJobs
    OutputJournal   TerminalInteraction   LinearOutput   RenderedDifference

Modules without an arrow between them share no state. Three runs check several such
modules at once: `MCStorage`, `MCModelIO` and `MCHeadlessTerminal` choose one in the
initial state (`subject`), and the others stand still.

| Module | Models | Correspondence |
| --- | --- | --- |
| `PhiExpr` | `expr.rs`, `message.rs` | a chain is a sequence of `[step, delta]`, the outermost last; `History`, `Lookup`, `FindAncestor`, `Then` are the functions of the same names; a compacted step starts the history afresh |
| `PhiSteps` | steps, errors, validation | a step is a record with its kind; errors keep their class, tool errors also their turn; retain rates are single-precision numbers, kept as multiples of 2^-28 and rounded like them |
| `Compaction` | `render/compact.rs` | system prefix, budget, retained start, summary |
| `CompactHistories` | the histories sessions grow | the compaction algorithm on longer histories than `PhiAgent` can afford, and with call identifiers that come back |
| `PhiAgent` | `agent/step.rs` with `features/` | one action per outcome of a module or of a core step, each a whole evaluated step; `CreateNextStep`, `ReplaceBaseStep`, `RuntimeFailed`, `RollbackStep`, `KeepBaseStep` are the bounces |
| `Snapshots` | the promise behind the chain | a stack of complete states: publish, condense, continue, take back |
| `PhiSession` | `phi session` commands | one action per command, `Transform` is the validation on saving |
| `PhiDriver` | `phi step`, `run`, `yolo` | the loop of `run_built_cli_agent` with `step_or_interrupt` and the final save; `phase` is the place in it |
| `SessionFile` | `save_atomic` and the targets | system calls are the steps: create, write, sync, rename, sync directory; files, names and what survives a power failure are apart |
| `JobClients` | `client.rs`, `spool.rs`, the sockets of `rpc.rs` | a call goes from connecting over reading and acknowledging to returning, each await a step; `stream` is what has happened on its connection, `cancel` the task `CancelOnDrop` starts |
| `HeadlessWorker` | `server.rs` with `process.rs`, `pty.rs`, `lease.rs` | `pc` is the place in `run`, `serve`, `run_interaction` and `write_response`; `task` is the blocking thread of an interaction, which runs beside them; output is counted in units and a response is an interval of them |
| `JobOutput` | the promise of all calls together | one stream that is read from front to back |
| `OutputJournal` | `state/journal.rs`, capturing in `pty.rs` | the journal byte by byte, a byte being a line feed or not; observing, selecting and acknowledging are apart |
| `TerminalInteraction` | `interaction.rs`, `interact` in `process.rs` | deadlines on a clock of ticks; what the rows show is one of a few screens |
| `LinearOutput` | `linear_output` | the events of the control sequence parser; beside them the terminal that shows them, whose screen and cursor outlive the response (`StartResponse`), the cells beneath the response, and where each part of its text came |
| `RenderedDifference` | `rendered_difference` | the table of lengths is a recursive function of pairs of indices, its entries 16 bits wide; one action per turn of the loop |
| `ShellJobs` | `shell/job.rs`, `launcher.rs`, `startup.rs`, `session delete` | one action per process and await of a launch; a call goes through the requests it makes; the worker serves a request as a whole, what `HeadlessWorker` has in detail |
| `ProviderWire` | `openai_chat.rs`, `openai_response.rs`, `fake.rs`, `provider/mod.rs` | rendering and parsing as functions on messages whose texts are sequences of words |
| `ProviderTurns` | `render/mod.rs`, the request in `agent/step.rs` | a conversation in which the provider changes and the endpoint gives any reply |
| `Truncation` | `executor/truncation.rs` | texts are runs of characters that differ in width and escapes, values functions from paths to nodes; both stages, with the binary search |
| `Configuration` | `config/`, `load_config` | settings by kind: names, texts, typed ones, the tools; which values are rejected, blank or taken |
| `AgentSetup` | `agent/mod.rs`, `agent/command.rs`, `features/mod.rs` | a process is built from files, environment and options, and sends requests that others stored |
| `HomeStores` | `home/` | one action per file system call of new, pack, unpack and load; of a home `config.yml` counts |
| `SequenceLemmas`, `ChainProofs`, `PhiAgentProofs`, `PhiDriverProofs`, `HeadlessWorkerProofs`, `TerminalProofs`, `ModelIOProofs`, `StorageProofs` | | lemmas and theorems, see below |

The modules named `MC...` give constants for the runs. Definitions commented
as *mutants* are what plausible bugs would make of the definition after them;
they are used by nothing and show that each property can fail.

What is abstracted: in `PhiExpr` and above it a message is its role and its call
identifiers; text, reasoning and results are in `ProviderWire` only. Token
estimates are weights by role. The request inside `RequestProvider` is left out, so resuming
after a compaction is the same step whether the old request is found or not.
A provider returns any batch of a small set, any reply or any error of a small
set. Modules that only observe are left out, and so are modules a library user
may add, except that such modules may append messages to a model request
(`RequestTails`). The history length counts as the step budget does.

An evaluated step is one action, since the evaluator works on a private delta
and publishes once. What may happen *during* a step (Ctrl-C, a panic, the death
of the process, a tool that asks for its result to be kept) is in `PhiDriver`,
where a step is begun and ended by different actions.

The headless terminal is split where its code is. `HeadlessWorker` is about who
gets which part of the output, so that parts are all it knows of output;
`OutputJournal` is about which bytes a part holds, and relies on the worker for
one fact: the job belongs to one thread at a time, so that nothing is captured
between selecting a response and acknowledging it. When an interaction returns is
left open in `HeadlessWorker` (at any poll) and settled in `TerminalInteraction`.
How a response is rendered is in `LinearOutput` and `RenderedDifference`. A response is
parsed from the last acknowledged byte on, and begins wherever the terminal was left then,
which may be the middle of a row. What is returned as text is therefore compared with what
the response changed on the screen, not with the whole of it: after an acknowledged
`working\r`, `ok\r\n` is returned as `ok`, and the row reads `okrking`. The right margin,
responses whose beginning was trimmed, and sequences that move the cursor though
`LinearOutput` does not list them (setting the origin mode) are left out. What jobs
mean for a session is in `ShellJobs`, which leaves out output and time: a wait may
end at any moment, and only the lease of a job does not end while a call is on its
way. What is external: local sockets (a connection accepts a frame until
the other side is closed, and a frame that was sent is still read after that), the
command, the parser of control sequences, the emulated screen. A frame is sent and
read as a whole. Exits are noticed at the poll at which they have happened; the
time that is waited for the rest of the output after an exit is not modelled, so
the rest may or may not be there.

## Runs

| Run | Shows | Bounds |
| --- | --- | --- |
| `agent_safety` | sessions go on until every rate of compaction has failed; retries count up; compaction after overflow climbs the rates and gives up; the chain of deltas implements the stack of states | 6 frames of any kind, 13 when a context keeps overflowing; batches of one and two calls, with and without a retry budget of 2, with and without an appended message |
| `session` | sessions stay valid, paired and restorable with session commands in between; stored and removed variables are read back; commands keep the stack of states | 3 frames, one user variable, batches of two |
| `driver` | the file moves by whole steps; runs stop when they should; Ctrl-C ends a run that talks to a job | 4 frames, one call per batch |
| `storage` | readers see whole sessions, temporary files are private, an acknowledged save lasts; homes are whole for readers, apart from one that is being unpacked into; a stored request is replaced after the first answer | one process that saves and one that reads, 4 files, two temporary names; two processes on two directories and a packed home, two configurations, two edits; five home files, two explicit ones, four environments, four sets of options |
| `worker` | two processes read the output of a job as one stream, whatever is dropped, displaced, closed or killed; the last of it reaches a caller or the spool; the lease honours the expiration | two calls of all four kinds, which may vanish, one unit of output, expiration 1, startup grace 2, worker may be killed |
| `worker_live` | calls and the worker end | two calls of one process, which may vanish, fairness as below |
| `terminal` | jobs are not forgotten, input is entered, short commands are read; losses are reported, and only what must be is lost; when interactions return; what is returned as it came is what it changed on the screen, in its order, and of the rest the least that is new is returned | one job, 4 calls; 2 lines, 4 bytes kept, 9 bytes in all, four chunks; polls every 2 ticks, settle period 3, waits of 1 and 5 ticks and for ever, 7 ticks, two screens; 6 events, two characters, tab stops every 2 columns, two places for the cursor after an edit; two lists of up to 4 rows, three kinds of rows |
| `model_io` | calls and outputs pair up in requests of both protocols; the reasoning key is remembered; compaction keeps pairs and no more than needed; results that were cut fit | histories of up to 6 messages, replies of every kind; histories of up to 9 messages to be compacted, two call identifiers; strings, arrays and objects around five limits |
| `failed_frame_append`, `worker_loses_typed`, `structured_codes`, `delete_closes_jobs` | places where code and documentation part, see below | as `session`, `worker`, `model_io`, `terminal` |

Why the bounds are enough to meet the interesting cases:

- Six frames hold a request, a batch that fails in its second call, its
  recovery, an overflow, a compaction and a resumption, with frames replaced
  in place as often as wanted (replacing does not use up frames). Batches of two
  are the smallest that can fail half way. Budgets and thresholds are set so that
  compaction and the step budget both act within these frames.
- The ladder has eight rungs; thirteen frames hold a request, all of them, the
  failure on top and what came before. Rates are exact, so its last step is the
  real one: 0.1 plus eight times 0.05, added up in single precision, is a little
  more than one half.
- One job is enough, since a session calls one tool at a time and jobs share nothing.
  Four calls start it, give it input without a line end, are interrupted, and
  give it input again.
- Six events hold a row, a carriage return, an acknowledgement after it, and
  characters, styles and a line feed over what stands there; four rows hold a row that moves past two others.
- Six messages hold two answers from different providers with the outputs of a
  batch between them. Replies have every status, finish reason and kind of item
  the code tells apart, malformed arguments, and errors with and without a code.
- Limits for truncation are below a notice, around it, and with room for content;
  values have strings that are cut evenly and unevenly, arrays of numbers that
  cannot be, and characters that JSON writes longer. Texts are shorter than 2^31 bytes
  (`WordBits`), which bounds the rounds of the binary search.
- Nine messages hold three turns with results, and identifiers that repeat.
- A refinement needs at least three frames: a state, one on it, one to remove.
- The bug classes of saving involve at most three files: the old session, one
  being saved, one left behind. There are four. `AcknowledgedSavesLast` holds for one
  writer only; that two writers are as safe for readers and for their temporary
  files is proved rather than run (see below).
- Two calls are enough for one to displace, cancel or race the other for the spool.
  One unit of output can come before the last response or with it, which is what
  the ways of losing or repeating output differ by. Calls that share a request
  identifier stand for two processes, calls that do not for one.
- Grace is longer than expiration by a tick so that the grace matters before
  the first interaction and only then.
- A wait of one tick ends before the settle period, one of five after it, and
  seven ticks hold two interactions with a change before, in and between them.

`MaxFrames`, `MaxHistory`, `MaxLength`, `MaxFiles`, `MaxTempId`, `MaxOutput`,
`MaxStream`, `MaxTime`, `MaxEvents`, `MaxRows`, `MaxCalls`, `MaxMessages`, `MaxEdits`
and `MaxAnswers` are bounds of checking only, as is `FreeFrames`, after which a chain
grows by compaction requests and failures alone. `MaxFrames` stops a chain
from growing, which is why runs of the evaluator do not look for deadlocks;
`OnlyExhaustionIsFinal` does, below the bound. `storage` stops when files or
temporary names run out, the worker runs when the worker and all calls have
ended, `terminal` and `model_io` when a bound is reached or an algorithm is done. `MaxHistory` limits
only messages appended by the user.

**Fairness.** `InterruptEndsRun`, `CallsEnd` and `WorkerEnds` are liveness properties.
The last two assume that the worker loop and the thread of an interaction run,
that a caller whose process is there goes on (it awaits sockets only), and that
time passes; the command may do nothing for ever. An interaction that is polling
ends since every `ReturnWhen` has a wait, 60 seconds by default. A caller that
stays connected and never answers is excluded by this; such a caller would
hold up the worker, which reads without a deadline.

`InterruptEndsRun` assumes that a
tool step that is in flight and stays in flight ends (`job_interact` reacts to
the interrupt, other tools have deadlines), and that the driver itself goes on
between steps. Nothing is assumed of a provider request: none of the providers
sets a deadline. Nor does a user have to do anything. Other liveness one might
wish for does not hold: `phi yolo` asks a failing provider again for ever, and a
history that compaction cannot shrink is compacted in every other step.

## Proofs

All are for every value of the constants that the assumptions allow: any
identifiers, messages, limits, any number of frames, calls and processes. Assumptions
are named and stand with the constants; every run evaluates those of its modules. Two
theorems take one more, which they state: `TailsAnswered` and `OneWriter`. What the
proofs of several components need of numbers, sequences and induction is in `SequenceLemmas`.

**Chains are well formed** (`ChainProofs`, `PhiAgentProofs`, `PhiDriverProofs`). The invariant is `WellFormed(frames)`: every frame fits the
one below it. A frame fits if it is typed, its step is one saving accepts, a
compacted frame is not the root, a tool failure lies on the executor whose turn
it carries, and a failed frame lies on one that is not failed. The last part
says what is back when a failure is rolled back, and it is why replacing a frame
in place is harmless: no failure can be lying on the frame that is replaced,
since the outermost frame is the only one that changes, and what replaces it is
not a failure unless it was one before.

The actions are reduced to five outcomes first (`AgentOutcomes`):
a step publishes a valid frame, fails with an empty one, replaces the current
frame by one with a valid step that is not a failure, rolls it back, or stays
failed. Each outcome keeps chains well formed (`OutcomesKeep`); session commands
are shown to do so separately (`CommandsKeep`). This needs types of what steps
compute: that `History` and `Compact` yield messages (`HistoryType`,
`CompactType`), which needs induction over the chain and over positions, done
with well-founded sets since the definitions are recursive functions.

- `AgentChainsAreWellFormed`, `SessionChainsAreWellFormed`: `TypeOK`,
  `CheckpointsAreValid`, `FailedTurnIsRestorable` under the evaluator, and with
  session commands;
- `FailuresStayOnTop`: `FailureIsEmptyAndOutermost` under the evaluator (with
  commands it does not hold, see below);
- `DriverIsTyped`, `StepsStartFromTheFile`, `YoloRunsUntilDone`:
  `DriverTypeOK` (not run by itself), `CheckpointIsCurrent`, `YoloStopsWhenDone`. The
  invariant `DriverInv` adds what `previous_was_failed` means in each phase: the step
  below was failed, so that a failure after it is one recovery gave up on
  (`FailureAfterFailure`: from a failed step every outcome but "stays failed"
  ends in a step that is not failed);
- `SessionsGoOnUntilExhausted`: whatever the evaluator and session commands made of a
  session, some step *changes* it, unless it is `Exhausted`: an overflow on a compact
  request at the last rate, with all rates from the first one below it, above one provider
  request. Only then is a failure kept as it is, and then by every step.
  `OnlyExhaustionIsFinal` says so with `ENABLED`, which the prover does not know. The
  theorem says that another chain exists that a step leads to, where `StepOf` is `AgentStep`
  as a relation of two chains; `StepsRelate` and `RelatedAgentSteps` show it to be the same.
  Its invariant is `Climbs`: each compact request stands on a provider request and has the
  first rate, or on a compact request and has the next rate, and an overflow stands on one
  of the two; that makes a kept failure an exhausted one (`KeptIsExhausted`). Every other
  failure is retried, recovered or taken back, whatever its class, place and rate
  (`FailuresLeadOn`); everything else has the core, or a module before it, and a step that
  is refused becomes a failure (`BouncesLeadOn`). It takes that some retry budget and some
  tail of a request exist, if only none and the empty one.

**How chains have grown.** `GrownInv` adds to this that no failure is buried, and
that every chain that ends at a frame has grown as it should (`Grown`): a request on
an executor holds what ran there; a compact request on a compact request has the next
rate of the ladder and each rate is one of its rungs (`Rung`); a stored retry attempt is
that of the nearest request below, or one more. It is about all prefixes of the chain and
not only about the whole of it, since a rollback makes any of them the whole. Replacing
the outermost frame is the hard case: the new frame takes over the delta of a failure,
so that the delta has to be known to be empty, and the retry attempt that is carried
along has to be that of the nearest request whatever lies between. Theorems:
`TurnsCommitWhatRan`, `CompactionGivesUp`, `RetriesAreCounted`.

**Calls and results.** `AllPaired` says that the delta of every frame is `Answered`, and
what an executor or a tool failure has pending is, too: `WellPaired`, with calls by the
assistant only. Concatenation keeps this (`AnsweredConcat`), so a history does if its
frames do (`AnsweredHistory`). That compaction does (`AnsweredCompact`) is the
argument behind its loop: it stops at a start for which no kept result has its nearest
call before it (`Settled`), and the nearest message that makes a call of that name is no
later than the one that the result belongs to, so that this one is kept as well, even when
identifiers repeat. Theorems: `CallsStayAnswered`, `SessionsStayAnswered` (both under
`TailsAnswered`: what modules append to a request is paired, as the repository's own, which
append nothing, are) and `CompactionsKeepPairs`. In the other direction,
`CompactionsKeepNoMore`: without repeated identifiers turns do not overlap, so a start
cuts at most one of them (`OneTurnIsCut`), goes back to its beginning once
(`StartMovesOnce`), and nothing after that would do.

**Refinements of the core.** `StepsImplementSnapshots` and `SessionsImplementSnapshots`
show the five outcomes and the commands to be steps of the stack of states, from
what `History` and `Lookup` are when a frame is pushed, replaced or dropped; the empty
deltas of failures and of replaced frames are what makes a recovery a stutter or a
continuation. `WritesAreFound` is the part of it that session commands are used for.
`FileMovesByWholeSteps` (`FileIsSession`): the file by itself is a session, through
crashes, panics, interrupts and failed saves. A checkpoint writes the outcome of a step
that was taken before, so the invariant has to speak of that step: it does so with `StepOf`,
and `Unsaved` says that what is in memory and not yet in the file is
related to the file by it, or is the file with the input of the invocation.

**Headless terminal worker** (`HeadlessWorkerProofs`), for any number of calls, any
expiration, grace and amount of output. The parts of `WorkerInv`: a call holds its place only
while its connection is the one being served, queued or watched (`CallInv`, `HeldInv`,
`PlaceInv`); a response that is being made or written starts at the checkpoint and
one with an end of output goes up to what was produced (`ResponseInv`, `InboxInv`); callers
have read up to the checkpoint, unless a response was acknowledged just now
(`FrontInv`); when the worker is done, the last response is kept (`KeptInv`); the time since
the last interaction, by which the lease is judged, is at most the time that
was quiet (`LeaseInv`). TLC found none of these violated in the states of `worker` before
they were proved. Theorems: `LastResponsesAreKept`, `LeasesAreHonoured`,
`WorkersImplementJobOutput`; for the last, every step that sets a result with output is the one
read that `FrontInv` allows, and no other step changes what has been read.

**Tools and launcher** (`TerminalProofs`). `JobsInv`: whether a job runs is known, or the
call that starts it is still under way, has failed or was interrupted (`Accounted`); a job that
is being started has its last response in the spool if it has finished (`StartInv`); a call
about a job is about one that the session knows (`AccessInv`); the requests a call has
left are what is missing of its input, and while only the Enter key is, the
line ends in that input (`InputInv`); and each result is what was found then (`ResultInv`).
Theorems: `JobsAreRemembered`, `InputsEndLines`, `ShortCommandsAreFound`.

**Timing and rendering** (`TerminalProofs`). `InteractionInv`: the settle deadline records when the last
linear change, or the first change of a screen, was observed, and the deadline an
interaction works with is that of its job. Theorems: `SettledOutputIsQuiet`,
`BusyScreensAreSampled`, `OnlyNewOutputEndsWaits`. `LinearInv` is about the current response
and holds wherever it began: while nothing edited the screen, each line of its text is the
row after the last (`RowsFollow`), and while no carriage return is pending, all it printed
lies before the cursor (`PrintedBehind`), so that the next character is not written over
any of it; a pending carriage return is safe only if a line feed takes the cursor to the
next row (`CellsAreWritten`). Theorem: `LinearOutputIsFaithful`.

`LeastIsAlwaysReported`, for any two lists of up to 65535 rows (the code has at most 24 rows
and 1000 of scrollback): what is reported of a screen is the later rows without a longest
subsequence they have in common with the earlier ones. That the table of lengths exists is
shown by induction over a set (`LengthsExist`), since a recursive function is a `CHOOSE`. An
entry is an upper bound of every common subsequence of the two rests, and it never saturates,
since it is at most the number of rows left. `DifferenceInv` ties this to the loop: rows passed
over in both lists are matched in order, and their number with the entry at the current
indices is the entry at the start, so that what the loop leaves out when it ends is as long as
anything can be.

**Providers** (`ModelIOProofs`), for any histories, replies and batches of calls.
`WireInv`: the conversation is a sequence of typed messages, its input in the Responses
protocol pairs up, and every result follows the message that made its call with nothing but
results in between (`ResultsFollow`). What a step adds, a message with its results, pairs up by
itself (`EntryPairsUp`, `BatchPairsUp`), and since the input of a history is flattened out of
what its messages become, it is the old input with that of the addition behind it
(`FlattenConcat`, `InputConcat`, `PairsConcat`). `FlattenSeq` is a recursive function in the
library; that there is such a function for sequences of any length is proved first
(`FlattenExists`), by induction over a set. Theorems: `RequestsPairUp` (`OutputsAnswerCalls`)
and `KeysAreRemembered` (`ReasoningKeyIsRemembered`), which rest on the types of all that
clients make of replies (`ChatOutcomeType`, `ResponsesOutcomeType`, `FakeOutcomeType`). They
assume `TurnsAssumption`, that replies have the types they are decoded into, and
`WordsAssumption`, that absent values are told from texts and names.

**Truncation** (`ModelIOProofs`), for any limit, any characters and containers of any shape.
`ResultsAlwaysFit` (`CutResultsFit`) needs that sizes add up: the bytes of a text are
defined by recursion, so that they exist, and are those of the parts of a joined text, is shown first
(`SumsExist`, `BytesOfConcat`), as it is that larger numbers have no fewer digits (`DigitsGrow`).
Then: the notice of what was left out is no longer than what was set aside for it
(`MarkerSize`, `MiddleFits`), so a cut text fits or is the notice (`TextFits`); the
search for the longest body starts with one that fits and never leaves it (`BodyFits`), hence so does
what replaces a container (`ContainerTextFits`); and each round leaves a container, or
a string that fits or is a notice (`RoundKeeps`, `ContainersFit`). Assumed are limits in the
naturals and values whose root is of a known kind (`LimitsAssumption`, `OutputsAssumption`).
The model replaces containers in as many rounds as the value has nodes; `RoundsAreEnough` says that
another round would change nothing, which is why the loop of the code ends: the deepest
container that gets shorter exists (`DeepestExists`), and each round leaves one container less
(`RoundsShorten`).

**Output journal** (`TerminalProofs`), for any limits, chunks and length of the
output. The invariant has four parts besides types: the offsets enclose the bytes
(`end = start + length`, at or after the checkpoint), the bytes are the stream
between the offsets, the line count is the number of line feeds in them, and the
flag is set just when `start` has passed the checkpoint. It takes a fifth to
prove that no more is given up than needed: after the last byte that was
trimmed, what was kept with that byte did not fit. Output only makes this truer
and acknowledging makes it void. Counting line feeds in a sequence is a
cardinality, so lemmas say how it changes at either end. Theorems:
`JournalIsTyped`, `LossIsAlwaysReported`, `JournalKeepsWhatFits`.

**Session file** (`StorageProofs`).

- `FilesAreTyped`;
- `ReadersNeverSeeHalfASession`: every file the path names now, may name after a
  power failure, or that somebody has open is safe, that is, it was made by
  `session new`, or is whole and synced. It needs the second part because power
  failures bring old directory entries back;
- `TempsStayPrivate`: no file the path may name has a temporary name, and
  the file being saved has only the one its process made;
- `AcknowledgedSavesAreKept`, assuming `OneWriter`: every file the path may name
  holds all acknowledged updates, and so does what the writer has in memory.

**Homes and agents** (`StorageProofs`). `HomesStayWhole`: `HomesAreWhole` is inductive with
types. `ProcessesAskTheirOwn`: `SetupInv` adds to `AnswersRefreshRequests` that what it says
holds of a failed request too, which may be asked again, and that a session that no process
has open has had no answers in it.

**What the proofs changed.** Four places in the models could not be proved and
were wrong, though no run could tell. The arms of `Spacing` overlapped, so that which one
counted was the choice of the tool. A job handle that is the name of a tool would have made
calls and jobs the same (`JobsAssumption`). Session input is a list of user and
assistant messages without calls, as options and commands make it, and no other
(`SessionAssumption`). A response without a status counts as completed, and every status
that `openai_response` does not name is an error (`ResponsesOutcome`, `StatusOutcome`).

**Not proved, only checked**: liveness (`InterruptEndsRun`, `CallsEnd`, `WorkerEnds`), since
the prover does not know fairness, and `OnlyExhaustionIsFinal` in the words of the run, since it
does not know `ENABLED` (what it means is `SessionsGoOnUntilExhausted`). The runs that expect a violation have
no theorems.

## Where code and documentation part

- `append_messages` (`session/mod.rs:492`) adds to the outermost frame whatever
  its step is. On a failed frame this contradicts `invariants.md:8` ("Failed
  runtime frames have an empty delta ..."), and the input is lost when default
  recovery rolls the frame back. Run `failed_frame_append`.
- Input for a job that has just ended makes the interaction fail, and that
  failure ends the worker (`server.rs:360`), its last output unread. The test at
  `tests/headlessterm/unix_rpc.rs:111` says that the worker "must retain the handle
  so the next interaction can drain the bytes written just before exit and report the
  final status"; it sends no input. Run `worker_loses_typed`.
- A failed response of `openai_response` is searched for the words of a context
  overflow only (`openai_response.rs:451`): its error is made a line of text before
  codes are looked for in JSON. `provider/mod.rs:41` says "Structured error codes
  win; text matching is only a conservative fallback". Recovery then asks again
  instead of compacting. Run `structured_codes`.
- `session delete` looks for job handles under `result["value"]`
  (`session/command.rs:505`), but tools put them at the top of the result, so that it
  closes no jobs; `book/src/cli/session.md:18` says it "closes referenced jobs and
  deletes a Session file". Run `delete_closes_jobs`.

Behaviour that modelling brought up and that no run is kept for:

- `phi run` also stops at a request for compaction (`lib.rs:308`), which is no
  terminal step (`session/mod.rs:232`), where its help (`lib.rs:524`) says "until
  the session first reaches a terminal boundary".
- When the response that carries the exit of a headless job is not acknowledged, the
  worker exits all the same (`server.rs:451`) and stores nothing: the output is
  gone with the caller. `LastResponseIsKept` excepts this case.

- The retry counter is not cleared when a retry succeeds. From then on automatic
  compaction is off for the session and later failures have fewer retries.
- Compaction never touches the system prompt and always keeps the last message
  with its calls. When that alone is over the threshold, every other step is
  another compaction. A call identifier that comes back late makes compaction keep
  more than it needs, for the same effect.
- The ladder is meant to end at 50 %, but in single precision 0.1 + 8 x 0.05 is
  greater than 0.5: the last attempt is at 45 %.
- `phi yolo` rolls back and repeats a failing provider request without end.
- Once `job_interact` ran, Ctrl-C waits for whatever step is in flight, a provider
  request included, for the rest of the invocation.
- A failing batch is committed with the calls that ran, the failed one included,
  where `invariants.md:10-11` speaks of batches with every result only.
- `phi session new` writes in place and does not sync: after a crash the file may
  be incomplete, cannot be loaded, and must be removed by hand.
- Two processes that save the same session lose the updates of one, and a run
  that goes on after `session delete` makes the file again.
- Request identifiers of interactions count from one in every process, and a call
  whose connection breaks leaves its cancel request armed: it may cancel the
  interaction of another process.
- A call that another one displaces returns "not found" although its job runs.
- When a job cannot be stopped, closing it answers with a failure and ends the worker
  all the same.
- An expiration of zero ends the worker right after the first interaction.
- `session delete` also leaves jobs whose handle is among the results of an unfinished
  batch.
- `running_user_interrupted` is described as "while the job remains running"
  (`shell/job.rs:123`) but is returned without asking the worker, so also for jobs
  that have ended or never were.
- A `bash_job` that is interrupted leaves its command running until the lease ends,
  with nobody knowing its handle, and the command runs again when the session goes on.
- A worker whose launcher has given up ends when it writes its report, and hangs up on
  its command.
- `bash_job` answers "exited", and gives no handle, while processes in the background
  still hold the terminal.
- `job_close` on a job that has finished says "not found" and leaves its last
  response in the spool.
- `openai_chat` loses the reasoning of a reply whose `reasoning_content` is empty and
  whose `reasoning` is not.
- A call made with `openai_response` whose item has an identifier of its own is sent to
  `openai_chat` later under that identifier, while its result names the call
  identifier. `ChatPairsUp` excepts such histories.
- Reasoning items and calls are grouped by kind when they are sent back to
  `openai_response`, whatever order they came in.
- `max_steps` limits the messages of the history, not steps.
- A path with the extension of a packed home that is not there becomes an empty home,
  so that a misspelt `--home` means the defaults.
- While a home is unpacked, others read an empty configuration and go on with the
  defaults; `home new` may empty a configuration that was written after it looked;
  two processes that unpack into one directory may mix their files.
- A stored request keeps the model, settings and tools of the process that made it
  until its first answer, but goes to the endpoint, and with the key, of the
  process that sends it.
- The notice for a container that was cut gives its size after its strings had been
  cut. A result that is a string by itself may exceed the limit by its escapes.
  Messages of failed tools are not cut.

## Not modelled

Observers, banners, help texts and other output for people; YAML, JSON, HTTP and
SQLite, which are left to their libraries; sampling settings; the contents of files
of a home other than its configuration; how commands are wrapped for containers and
runners; stdin and stdout as session targets (no file is saved); `session state` and
`messages` (they change nothing); `xtask` and scripts. Pseudo terminals and platform
code are operating system input and output and stay outside, as environment of the
worker.

## Plan

1. *Done*: the core above.
2. *Done*: the headless terminal with its journal, rendering, tools and launcher.
3. *Done*: providers, truncation, homes, configuration, the construction of agents.
4. *Done*: theorems for every safety property, action property and refinement that the
   passing runs check.
5. The worker on top of the journal: that the intervals of `HeadlessWorker` are what
   `OutputJournal` delivers, and that what `ShellJobs` takes as one step of a worker is
   what `HeadlessWorker` does, as refinements.
6. The spool and its temporary files against crashes, and the expiration with workers
   that oversleep.
