------------------------------- MODULE AgentSetup ------------------------------
(***************************************************************************)
(* What an agent asks its provider with, over processes that are           *)
(* configured differently and go on with the same session: the             *)
(* construction of an agent (agent/mod.rs, agent/command.rs,               *)
(* features/mod.rs) and the requests it sends.                             *)
(*                                                                         *)
(* A request stored in the session holds the model, its settings and       *)
(* tools; the process that sends it adds the tools it has itself.  The     *)
(* steps are those of PhiAgent, reduced to what makes a request.           *)
(* Compaction sends requests of its own and returns to the stored one.     *)
(***************************************************************************)
EXTENDS Configuration

CONSTANTS
    HomeFiles,      \* what the home may hold as config.yml
    ExplicitFiles,  \* what may be given with --config
    Environments,   \* patches of PHI_* variables
    CommandArgs,    \* options of phi step, run and yolo
    CallSettings,   \* the settings that are part of a request
    ShellTools,     \* names of the built-in tools, in order
    ToolLists,      \* configured list -> names of its tools, in order
    MaxAnswers      \* bound on the answers one process counts, for model checking

ASSUME SetupAssumption ==
    /\ CallSettings \subseteq Settings
    /\ MaxAnswers \in Nat \ {0}

VARIABLES
    process,   \* the process that works on the session, or None
    step,      \* "none" without a session, "request", "tools", "turn_end", "failed"
    call,      \* the request that the session waits with, or last sent
    sent,      \* the request as this process sent it last
    answers    \* the answers this process has committed

setupVars == <<process, step, call, sent, answers>>

Inputs == [home : HomeFiles, explicit : ExplicitFiles, environment : Environments]

LoadedFrom(input) == LoadConfig(input.home, input.explicit, input.environment, NoPatch)

-------------------------------------------------------------------------------
(* Construction *)

\* Where commands run; --null-executor overrides what is wrong with the rest.
Target(args) ==
    IF args.null_executor THEN "null"
    ELSE IF \/ args.runner = "blank"
            \/ args.runner # None /\ args.container \notin {None, "blank"}
            \/ args.runner = None /\ args.runner_args
    THEN "rejected"
    ELSE IF args.container \notin {None, "blank"} THEN "container"
    ELSE IF args.runner # None THEN "runner" ELSE "local"

MaxStepsOf(config, args) == IF args.max_steps # None THEN args.max_steps ELSE config["max_steps"]

Tool(name, by) == [name |-> name, by |-> by]
Names(tools) == {tools[i].name : i \in DOMAIN tools}

\* What is offered already is not offered again; first come, first kept.
Offered(tools, more) ==
    FoldLeft(LAMBDA all, tool : IF tool.name \in Names(all) THEN all ELSE Append(all, tool),
             tools, more)

ExecutorTools(args) ==
    IF Target(args) = "null" THEN <<>>
    ELSE [i \in DOMAIN ShellTools |-> Tool(ShellTools[i], "executor")]

ConfiguredTools(config) ==
    IF config["tools"] = Default THEN <<>>
    ELSE LET names == ToolLists[config["tools"]]
         IN [i \in DOMAIN names |-> Tool(names[i], "configured")]

\* The tools of the executor in front, then configured ones of other names.
ToolDefinitions(config, args) == Offered(ExecutorTools(args), ConfiguredTools(config))

NewProcess(input, config, args) ==
    [input |-> input,
     config |-> config,
     tools |-> ToolDefinitions(config, args),
     max_steps |-> MaxStepsOf(config, args),
     retries |-> args.retries]

-------------------------------------------------------------------------------
(* Requests *)

FromParts(config, tools) ==
    [settings |-> [s \in CallSettings |-> config[s]], tools |-> tools]

\* request_provider_call
OwnCall == FromParts(process.config, process.tools)

\* request_provider_request
Request(stored) == [stored EXCEPT !.tools = Offered(@, process.tools)]

SetupInit ==
    /\ process = None
    /\ step = "none"
    /\ call = [settings |-> Defaults, tools |-> <<>>]
    /\ sent = None
    /\ answers = 0

\* session new, session next --provider, session replace --provider and
\* session tool-result: each loads the configuration and leaves a request
\* without tools.
SessionCommand ==
    /\ process = None
    /\ \E input \in Inputs :
          /\ LoadedFrom(input).kind = "loaded"
          /\ call' = FromParts(LoadedFrom(input).config, <<>>)
    /\ step' = "request"
    /\ UNCHANGED <<process, sent, answers>>

Start ==
    /\ process = None /\ step # "none"
    /\ \E input \in Inputs, args \in CommandArgs :
          /\ LoadedFrom(input).kind = "loaded"
          /\ Target(args) # "rejected"
          /\ process' = NewProcess(input, LoadedFrom(input).config, args)
    /\ UNCHANGED <<step, call, sent, answers>>

ProcessExits ==
    /\ process # None
    /\ process' = None
    /\ sent' = None
    /\ answers' = 0
    /\ UNCHANGED <<step, call>>

Sends == process # None /\ step = "request" /\ sent' = Request(call)

Answered == answers' = IF answers < MaxAnswers THEN answers + 1 ELSE answers

\* A reply, or tool calls.
AnswerComes ==
    /\ Sends
    /\ step' \in {"turn_end", "tools"}
    /\ Answered
    /\ UNCHANGED <<process, call>>

\* A reply that asks to be continued.
AnswerContinues ==
    /\ Sends
    /\ call' = OwnCall
    /\ Answered
    /\ UNCHANGED <<process, step>>

RequestFails ==
    /\ Sends
    /\ step' = "failed"
    /\ UNCHANGED <<process, call, answers>>

\* Rolling the failed frame back leaves the request that failed.
RollsBack ==
    /\ process # None /\ step = "failed"
    /\ step' = "request"
    /\ UNCHANGED <<process, call, sent, answers>>

\* The retry policy makes a request of its own.
Retries ==
    /\ process # None /\ step = "failed" /\ process.retries
    /\ step' = "request"
    /\ call' = OwnCall
    /\ UNCHANGED <<process, sent, answers>>

\* Mutant: the turn goes on with the request that it began with.
TurnGoesOnAsBefore ==
    /\ process # None /\ step \in {"tools", "turn_end"}
    /\ step' = "request"
    /\ UNCHANGED <<process, call, sent, answers>>

\* After the batch of tool calls, and when an ended turn is resumed.
TurnGoesOn ==
    /\ process # None /\ step \in {"tools", "turn_end"}
    /\ step' = "request"
    /\ call' = OwnCall
    /\ UNCHANGED <<process, sent, answers>>

SetupNext ==
    \/ SessionCommand
    \/ Start
    \/ ProcessExits
    \/ AnswerComes
    \/ AnswerContinues
    \/ RequestFails
    \/ RollsBack
    \/ Retries
    \/ TurnGoesOn

SetupSpec == SetupInit /\ [][SetupNext]_setupVars

-------------------------------------------------------------------------------
(* Properties *)

\* A process takes over a request as it was stored, with the model and settings
\* of the process that made it, and may repeat it as long as it fails; from its
\* first answer on it asks by its own configuration.
AnswersRefreshRequests ==
    process # None /\ answers > 0 /\ step = "request" => call = OwnCall
===============================================================================
