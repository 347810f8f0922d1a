----------------------------- MODULE Configuration -----------------------------
(***************************************************************************)
(* How phi arrives at its configuration: config/*.rs and load_config of    *)
(* lib.rs.  A setting is a name; its values are "blank", "junk" (what does *)
(* not parse as the setting's type) and any others; a list of tools is     *)
(* named, too.                                                             *)
(***************************************************************************)
EXTENDS Integers, SequencesExt

CONSTANTS
    None,            \* an optional value that is absent
    Default,         \* the built-in value of a setting
    NameSettings,    \* model, provider kind, API base, fake profile
    TextSettings,    \* API key and system prompt
    TypedSettings    \* numbers, booleans and the reasoning effort

\* The list of configured tools is a setting of its own kind.
Settings == NameSettings \cup TextSettings \cup TypedSettings \cup {"tools"}

Defaults == [s \in Settings |-> Default]

\* A patch has None for what it does not set.
NoPatch == [s \in Settings |-> None]

Patched(config, patch) ==
    [s \in Settings |-> IF patch[s] # None THEN patch[s] ELSE config[s]]

Loaded(config) == [kind |-> "loaded", config |-> config]
Rejected == [kind |-> "rejected"]

\* A file that can be read is a patch as it is written, a blank one sets
\* nothing.  An unknown field or a value of the wrong type rejects it; a blank
\* name is a name.
YamlFile(patch) == [kind |-> "yaml", patch |-> patch]
BlankFile == YamlFile(NoPatch)
UnreadableFile == [kind |-> "unreadable"]
NoFile == [kind |-> "none"]

FromYaml(patch) ==
    IF \E s \in TypedSettings \cup {"tools"} : patch[s] \in {"junk", "blank"} THEN Rejected
    ELSE Loaded(Patched(Defaults, patch))

\* Settings made at run time stand in for variables of the environment.
EnvValues(environment, overrides) ==
    [s \in Settings |-> IF overrides[s] # None THEN overrides[s] ELSE environment[s]]

\* A blank name or list of tools is no name and no list, a blank text is a
\* text, and a blank number is an error.
EnvPatch(values) ==
    IF \/ \E s \in TypedSettings : values[s] \in {"junk", "blank"}
       \/ values["tools"] = "junk"
    THEN Rejected
    ELSE Loaded([s \in Settings |->
            IF values[s] = "blank" /\ s \notin TextSettings THEN None ELSE values[s]])

\* A file that was not found is none; another error ends the command.
FromFile(file) ==
    CASE file.kind = "none" -> Loaded(Defaults)
      [] file.kind = "unreadable" -> Rejected
      [] file.kind = "yaml" -> FromYaml(file.patch)

\* home: the file of the home; explicit: the one of --config, which replaces it
\* (and has to exist), none without the option.
LoadConfig(home, explicit, environment, overrides) ==
    LET base == FromFile(IF explicit.kind = "none" THEN home ELSE explicit)
        env == EnvPatch(EnvValues(environment, overrides))
    IN IF "rejected" \in {base.kind, env.kind} THEN Rejected
       ELSE Loaded(Patched(base.config, env.config))
===============================================================================
