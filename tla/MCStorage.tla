------------------------------- MODULE MCStorage -------------------------------
(* What phi keeps on disk and reads back, each by itself: the Session file,  *)
(* Phi homes, and the configuration that an agent is set up with.            *)
EXTENDS SessionFile, HomeStores, AgentSetup

VARIABLE subject

MCStorageInit ==
    /\ subject \in {"session", "home", "setup"}
    /\ Init /\ HomesInit /\ SetupInit

MCStorageNext ==
    /\ UNCHANGED subject
    /\ \/ subject = "session" /\ Next /\ UNCHANGED <<homeVars, setupVars>>
       \/ subject = "home" /\ HomesNext /\ UNCHANGED <<vars, setupVars>>
       \/ subject = "setup" /\ SetupNext /\ UNCHANGED <<vars, homeVars>>

MCStorageSpec == MCStorageInit /\ [][MCStorageNext]_<<subject, vars, homeVars, setupVars>>

Sets(model, system, steps, tools) ==
    [NoPatch EXCEPT !["model"] = model, !["system"] = system,
                    !["max_steps"] = steps, !["tools"] = tools]

MCHomeFiles ==
    {NoFile, BlankFile, UnreadableFile,
     YamlFile(Sets("small", None, "7", "web")),
     YamlFile(Sets(None, None, "junk", None))}

MCExplicitFiles == {NoFile, YamlFile(Sets("large", "blank", None, "web_and_bash"))}

MCEnvironments ==
    {NoPatch,
     Sets("blank", "blank", None, None),
     Sets("tiny", None, "9", "search"),
     Sets(None, None, "junk", None)}

Args(null, container, runner, more, steps, retries) ==
    [null_executor |-> null, container |-> container, runner |-> runner,
     runner_args |-> more, max_steps |-> steps, retries |-> retries]

MCCommandArgs ==
    {Args(FALSE, None, None, FALSE, None, FALSE),
     Args(TRUE, "box", "ssh", FALSE, None, FALSE),
     Args(FALSE, "box", "ssh", FALSE, None, FALSE),
     Args(FALSE, "blank", "ssh", TRUE, "3", TRUE)}

MCShellTools == <<"bash_job", "job_interact">>

MCToolLists ==
    [web |-> <<"web">>, search |-> <<"search">>, web_and_bash |-> <<"web", "bash_job">>]
===============================================================================
