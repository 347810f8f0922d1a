------------------------------ MODULE SessionFile ------------------------------
(***************************************************************************)
(* The Session file on disk: loading, creating, replacing and deleting it  *)
(* (SessionTarget and Session::save in phi/src/session/mod.rs, save_atomic *)
(* in serialization.rs), with several processes, their deaths and power    *)
(* failures.  The file system is external: a directory maps names to       *)
(* files, an open file outlives its name, data and directory entries that  *)
(* were not synced may be gone after a power failure.                      *)
(*                                                                         *)
(* A session is the set of updates made to it.                             *)
(***************************************************************************)
EXTENDS Integers, SequencesExt

CONSTANTS
    Procs,        \* phi processes, each with its process id
    Writers,      \* those that save; the others only load
    MaxFiles,     \* bound on the files ever made, for model checking
    MaxTempId     \* bound on the counter in temporary file names

ASSUME ProcsAssumption == Writers \subseteq Procs
ASSUME BoundsAssumption == MaxFiles \in Nat /\ MaxTempId \in Nat

VARIABLES
    files,     \* contents: [session, whole, synced, new]
    target,    \* the file the session path names, 0 if none
    survives,  \* the files it may name after a power failure
    temps,     \* the file each temporary name <<process id, counter>> names
    pc, mem, handle, counter,   \* of each process
    acked      \* updates whose save was reported successful

disk == <<files, target, survives, temps>>
procs == <<pc, mem, handle, counter>>
vars == <<disk, procs, acked>>

TempNames == Procs \X (0 .. MaxTempId)

\* Mutant: the counter has moved on to the next name.
NextTempName(p) == <<p, counter[p]>>

\* The name of the temporary file being written: the counter was read before it
\* was advanced.
TempName(p) == <<p, counter[p] - 1>>

Updates == 1 .. MaxFiles

Init ==
    /\ files = <<>>
    /\ target = 0
    /\ survives = {0}
    /\ temps = [n \in TempNames |-> 0]
    /\ pc = [p \in Procs |-> "idle"]
    /\ mem = [p \in Procs |-> {}]
    /\ handle = [p \in Procs |-> 0]
    /\ counter = [p \in Procs |-> 0]
    /\ acked = {}

-------------------------------------------------------------------------------

Goto(p, label) == pc' = [pc EXCEPT ![p] = label]

\* The process ends; another one with the same id may start from scratch.
Exit(p) ==
    /\ Goto(p, "idle")
    /\ mem' = [mem EXCEPT ![p] = {}]
    /\ handle' = [handle EXCEPT ![p] = 0]
    /\ counter' = [counter EXCEPT ![p] = 0]

NewFile(session, new) ==
    Append(files, [session |-> session, whole |-> FALSE, synced |-> FALSE, new |-> new])

RemoveTemp(p) == temps' = [temps EXCEPT ![TempName(p)] = 0]

(* phi session new: the path itself is written, and must not exist. *)

Create(p) ==
    /\ p \in Writers /\ pc[p] = "idle"
    /\ target = 0 /\ Len(files) < MaxFiles
    /\ files' = NewFile({}, TRUE)
    /\ target' = Len(files')
    /\ survives' = survives \cup {target'}
    /\ handle' = [handle EXCEPT ![p] = target']
    /\ Goto(p, "creating")
    /\ UNCHANGED <<temps, mem, counter, acked>>

Created(p) ==
    /\ pc[p] = "creating"
    /\ files' = [files EXCEPT ![handle[p]].whole = TRUE]
    /\ Exit(p)
    /\ UNCHANGED <<target, survives, temps, acked>>

CreateFails(p) ==
    /\ pc[p] = "creating"
    /\ target' = 0
    /\ survives' = survives \cup {0}
    /\ Exit(p)
    /\ UNCHANGED <<files, temps, acked>>

(* Loading: what is read is the file that was opened, whatever the path names *)
(* by then.                                                                   *)

Open(p) ==
    /\ pc[p] = "idle" /\ target # 0
    /\ handle' = [handle EXCEPT ![p] = target]
    /\ Goto(p, "opened")
    /\ UNCHANGED <<disk, mem, counter, acked>>

Load(p) ==
    /\ pc[p] = "opened"
    /\ IF files[handle[p]].whole /\ p \in Writers
       THEN /\ mem' = [mem EXCEPT ![p] = files[handle[p]].session]
            /\ handle' = [handle EXCEPT ![p] = 0]
            /\ Goto(p, "loaded")
            /\ UNCHANGED counter
       ELSE Exit(p)
    /\ UNCHANGED <<disk, acked>>

(* Saving *)

\* The command or the step changes the session; the temporary file gets the
\* first name that is not taken, by a process that died with the same id.
CreateTemp(p) ==
    /\ pc[p] \in {"loaded", "creating_temp"}
    /\ counter[p] <= MaxTempId /\ Len(files) < MaxFiles
    /\ counter' = [counter EXCEPT ![p] = @ + 1]
    /\ IF temps[<<p, counter[p]>>] # 0
       THEN Goto(p, "creating_temp") /\ UNCHANGED <<files, temps, mem, handle>>
       ELSE /\ mem' = [mem EXCEPT ![p] = @ \cup {Len(files) + 1}]
            /\ files' = NewFile(mem'[p], FALSE)
            /\ temps' = [temps EXCEPT ![<<p, counter[p]>>] = Len(files')]
            /\ handle' = [handle EXCEPT ![p] = Len(files')]
            /\ Goto(p, "writing")
    /\ UNCHANGED <<target, survives, acked>>

Write(p) ==
    /\ pc[p] = "writing"
    /\ files' = [files EXCEPT ![handle[p]].whole = TRUE]
    /\ Goto(p, "written")
    /\ UNCHANGED <<target, survives, temps, mem, handle, counter, acked>>

\* Mutant: the data is left to the page cache.
NoSync(p) ==
    /\ pc[p] = "written"
    /\ Goto(p, "synced")
    /\ UNCHANGED <<disk, mem, handle, counter, acked>>

Sync(p) ==
    /\ pc[p] = "written"
    /\ files' = [files EXCEPT ![handle[p]].synced = TRUE]
    /\ Goto(p, "synced")
    /\ UNCHANGED <<target, survives, temps, mem, handle, counter, acked>>

Rename(p) ==
    /\ pc[p] = "synced"
    /\ target' = handle[p]
    /\ survives' = survives \cup {target'}
    /\ RemoveTemp(p)
    /\ Goto(p, "renamed")
    /\ UNCHANGED <<files, mem, handle, counter, acked>>

\* Mutant: the directory is not synced.
NoSyncParent(p) ==
    /\ pc[p] = "renamed"
    /\ acked' = acked \cup mem[p]
    /\ Goto(p, "loaded")
    /\ UNCHANGED <<disk, mem, handle, counter>>

\* The save is reported successful; a run goes on to its next checkpoint.
SyncParent(p) ==
    /\ pc[p] = "renamed"
    /\ survives' = {target}
    /\ acked' = acked \cup mem[p]
    /\ Goto(p, "loaded")
    /\ UNCHANGED <<files, target, temps, mem, handle, counter>>

\* Any of these steps may fail; the temporary file is removed, if it still
\* bears its name, and the command ends with an error.
SaveFails(p) ==
    /\ pc[p] \in {"writing", "written", "synced", "renamed"}
    /\ RemoveTemp(p)
    /\ Exit(p)
    /\ UNCHANGED <<files, target, survives, acked>>

Finish(p) ==
    /\ pc[p] = "loaded"
    /\ Exit(p)
    /\ UNCHANGED <<disk, acked>>

(* phi session delete removes the file it has loaded, whatever the path names *)
(* by then; the directory is not synced.                                      *)

Delete(p) ==
    /\ pc[p] = "loaded" /\ target # 0
    /\ target' = 0
    /\ survives' = survives \cup {0}
    /\ acked' = {}
    /\ Exit(p)
    /\ UNCHANGED <<files, temps>>

(* The environment *)

Crash(p) ==
    /\ pc[p] # "idle"
    /\ Exit(p)
    /\ UNCHANGED <<disk, acked>>

\* Any file the path may name; data that was not synced may be gone.
PowerFailure ==
    /\ target' \in survives
    /\ survives' = {target'}
    /\ \E lost \in SUBSET {f \in DOMAIN files : ~files[f].synced} :
          files' = [f \in DOMAIN files |->
                       IF f \in lost THEN [files[f] EXCEPT !.whole = FALSE]
                                      ELSE files[f]]
    /\ pc' = [p \in Procs |-> "idle"]
    /\ mem' = [p \in Procs |-> {}]
    /\ handle' = [p \in Procs |-> 0]
    /\ counter' = [p \in Procs |-> 0]
    /\ UNCHANGED <<temps, acked>>

Next ==
    \/ PowerFailure
    \/ \E p \in Procs :
          \/ Create(p) \/ Created(p) \/ CreateFails(p)
          \/ Open(p) \/ Load(p)
          \/ CreateTemp(p) \/ Write(p) \/ Sync(p) \/ Rename(p) \/ SyncParent(p)
          \/ SaveFails(p) \/ Finish(p) \/ Delete(p) \/ Crash(p)

Spec == Init /\ [][Next]_vars

-------------------------------------------------------------------------------
(* Properties *)

FileRecord == [session : SUBSET Updates, whole : BOOLEAN, synced : BOOLEAN,
               new : BOOLEAN]

\* Every variable keeps its type.
FileTypeOK ==
    /\ files \in Seq(FileRecord)
    /\ target \in 0 .. Len(files)
    /\ survives \subseteq 0 .. Len(files)
    /\ temps \in [TempNames -> 0 .. Len(files)]
    /\ pc \in [Procs -> {"idle", "creating", "opened", "loaded", "creating_temp",
                         "writing", "written", "synced", "renamed"}]
    /\ mem \in [Procs -> SUBSET Updates]
    /\ handle \in [Procs -> 0 .. Len(files)]
    /\ counter \in [Procs -> 0 .. MaxTempId + 1]
    /\ acked \subseteq Updates

\* A concurrent reader sees a complete session, never one that is half written,
\* also after a power failure; only a file that phi session new is still
\* creating, or had created just before the power failed, may be incomplete.
ReadersSeeWholeSessions ==
    \A p \in Procs :
        pc[p] = "opened" => files[handle[p]].whole \/ files[handle[p]].new

\* Temporary files stay out of each other's way and of the session: while a save
\* is under way its file keeps the name it will be renamed from, whatever other
\* processes and earlier ones with the same id left behind, and no temporary
\* name is left on the file that has become the session.
TempsArePrivate ==
    /\ \A p \in Procs :
          pc[p] \in {"writing", "written", "synced"} =>
              \E id \in 0 .. MaxTempId :
                  /\ temps[<<p, id>>] = handle[p]
                  /\ \A n \in TempNames : temps[n] = handle[p] => n = <<p, id>>
    /\ target # 0 => \A n \in TempNames : temps[n] # target

\* Replacing the file never makes it older: while one process saves, what it was
\* told is saved stays in the file through its own death, failed saves and power
\* failures, until the session is deleted.
AcknowledgedSavesLast ==
    acked # {} => target # 0 /\ acked \subseteq files[target].session
===============================================================================
