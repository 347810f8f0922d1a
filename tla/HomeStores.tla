------------------------------- MODULE HomeStores ------------------------------
(***************************************************************************)
(* Phi homes: directories and the files they are packed into, and the      *)
(* commands that create, pack, unpack and load them, side by side and      *)
(* dying at any point: phi/src/home/*.rs.                                  *)
(*                                                                         *)
(* Of a home only the managed file, config.yml, counts; whatever else lies *)
(* in a directory is neither packed nor touched by unpacking.  A packed    *)
(* home is an sqlite database, whose transactions are atomic, also when    *)
(* the process dies in one.                                                *)
(***************************************************************************)
EXTENDS Naturals, FiniteSets

CONSTANTS
    Nobody,       \* no process
    HomeProcs,    \* processes that run one command after the other
    Directories,  \* paths of local homes
    DotPhi,       \* the one found as .phi in the current directory
    UserPhi,      \* the one found as .phi in the user's home directory
    PackedFiles,  \* paths with the extension .phihome
    Configs,      \* contents of config.yml, but for the blank one
    MaxEdits      \* bound on edits by the user, for model checking

ASSUME HomesAssumption == {DotPhi, UserPhi} \subseteq Directories

\* What a path holds: nothing, a home without configuration, or one with.
Absent == "absent"
Unconfigured == "unconfigured"
Blank == "blank_file"
Mixed == "mixed_file"    \* of two processes that wrote the file at once

VARIABLES
    home,    \* path -> what it holds
    intent,  \* path -> what the last command or edit there was to leave
    torn,    \* directories where a write was cut off
    work,    \* process -> its command: [step, path, held]
    edits

homeVars == <<home, intent, torn, work, edits>>

HomePaths == Directories \cup PackedFiles
IsDir(path) == path \in Directories /\ home[path] # Absent

Idle == [step |-> "idle", path |-> Nobody, held |-> Absent]
Working(step, path, held) == [step |-> step, path |-> path, held |-> held]

HomesInit ==
    /\ home = [path \in HomePaths |-> Absent]
    /\ intent = home
    /\ torn = {}
    /\ work = [p \in HomeProcs |-> Idle]
    /\ edits = 0

\* create_dir_all, and creating an sqlite file with its table: nothing, if the
\* home is there already.
EnsureHome(path) ==
    IF home[path] # Absent THEN UNCHANGED <<home, intent>>
    ELSE /\ home' = [home EXCEPT ![path] = Unconfigured]
         /\ intent' = [intent EXCEPT ![path] = Unconfigured]

\* Content as the last write of a command leaves it.
Leave(path, content) ==
    /\ home' = [home EXCEPT ![path] = content]
    /\ intent' = [intent EXCEPT ![path] = content]
    /\ torn' = torn \ {path}

BeginsTo(p, step) == work' = [work EXCEPT ![p] = step]
Does(p, step) == work[p].step = step

-------------------------------------------------------------------------------
(* phi home new *)

NewMakesDirectory(p, path) ==
    /\ Does(p, "idle")
    /\ path \in Directories
    /\ EnsureHome(path)
    /\ BeginsTo(p, Working("new_looks", path, Absent))
    /\ UNCHANGED <<torn, edits>>

\* An existing configuration is left alone.
NewLooks(p) ==
    /\ Does(p, "new_looks")
    /\ BeginsTo(p, IF home[work[p].path] = Unconfigured THEN [work[p] EXCEPT !.step = "new_writes"]
               ELSE Idle)
    /\ UNCHANGED <<home, intent, torn, edits>>

\* Also when somebody has written one since it looked.
NewWrites(p) ==
    /\ Does(p, "new_writes")
    /\ Leave(work[p].path, Blank)
    /\ BeginsTo(p, Idle)
    /\ UNCHANGED edits

-------------------------------------------------------------------------------
(* phi home pack *)

\* Of all files in a directory, config.yml is collected; without it the home
\* has no entries.
Entries(path) == home[path]

PackReads(p, path, packed) ==
    /\ Does(p, "idle")
    /\ IsDir(path) /\ packed \in PackedFiles
    /\ BeginsTo(p, Working("pack_creates", packed, Entries(path)))
    /\ UNCHANGED <<home, intent, torn, edits>>

PackCreates(p) ==
    /\ Does(p, "pack_creates")
    /\ EnsureHome(work[p].path)
    /\ BeginsTo(p, [work[p] EXCEPT !.step = "pack_commits"])
    /\ UNCHANGED <<torn, edits>>

\* Mutant: the old entries go before the new ones come.
PackInTwo(p) ==
    /\ Does(p, "pack_commits")
    /\ UNCHANGED edits
    /\ IF home[work[p].path] # Unconfigured
       THEN /\ home' = [home EXCEPT ![work[p].path] = Unconfigured]
            /\ UNCHANGED <<intent, torn, work>>
       ELSE /\ Leave(work[p].path, work[p].held)
            /\ BeginsTo(p, Idle)

\* One transaction replaces all entries.
PackCommits(p) ==
    /\ Does(p, "pack_commits")
    /\ Leave(work[p].path, work[p].held)
    /\ BeginsTo(p, Idle)
    /\ UNCHANGED edits

-------------------------------------------------------------------------------
(* phi home unpack *)

UnpackReads(p, packed, path) ==
    /\ Does(p, "idle")
    /\ packed \in PackedFiles /\ home[packed] # Absent
    /\ path \in Directories
    /\ BeginsTo(p, Working("unpack_creates", path, home[packed]))
    /\ UNCHANGED <<home, intent, torn, edits>>

\* Without entries there is nothing to write, and what is there stays.
UnpackCreates(p) ==
    /\ Does(p, "unpack_creates")
    /\ EnsureHome(work[p].path)
    /\ BeginsTo(p, IF work[p].held = Unconfigured THEN Idle
               ELSE [work[p] EXCEPT !.step = "unpack_truncates"])
    /\ UNCHANGED <<torn, edits>>

\* fs::write empties the file and then fills it.
UnpackTruncates(p) ==
    /\ Does(p, "unpack_truncates")
    /\ home' = [home EXCEPT ![work[p].path] = Blank]
    /\ BeginsTo(p, [work[p] EXCEPT !.step = "unpack_writes"])
    /\ UNCHANGED <<intent, torn, edits>>

UnpackWrites(p) ==
    /\ Does(p, "unpack_writes")
    /\ Leave(work[p].path, work[p].held)
    /\ BeginsTo(p, Idle)
    /\ UNCHANGED edits

\* What another process wrote since the file was emptied is overwritten in part.
UnpackWritesOver(p) ==
    /\ Does(p, "unpack_writes")
    /\ home[work[p].path] \notin {Blank, work[p].held}
    /\ home' = [home EXCEPT ![work[p].path] = Mixed]
    /\ intent' = [intent EXCEPT ![work[p].path] = work[p].held]
    /\ torn' = torn \cup {work[p].path}
    /\ BeginsTo(p, Idle)
    /\ UNCHANGED edits

-------------------------------------------------------------------------------
(* load_home and load_config *)

\* .phi in the current directory, or else in the user's home directory.
Detected == IF home[DotPhi] # Absent THEN DotPhi ELSE UserPhi

\* A file with the extension of packed homes counts as one, there or not.
LooksLikeSqlite(path) == path \in PackedFiles

\* The home that --home names, or the detected one without it (Nobody); a path
\* that is neither directory nor packed home is an error.
LoadedHome(spec) ==
    IF spec = Nobody THEN Detected
    ELSE IF IsDir(spec) \/ LooksLikeSqlite(spec) THEN spec
    ELSE Nobody

\* Loading creates a home that is not there.
LoadHome(p, spec) ==
    /\ Does(p, "idle")
    /\ LoadedHome(spec) # Nobody
    /\ EnsureHome(LoadedHome(spec))
    /\ BeginsTo(p, Working("load_reads", LoadedHome(spec), Absent))
    /\ UNCHANGED <<torn, edits>>

\* A home without config.yml and one with a blank one both stand for the
\* built-in defaults.
ReadFile(path) == IF home[path] = Unconfigured THEN Blank ELSE home[path]

LoadReads(p) ==
    /\ Does(p, "load_reads")
    /\ BeginsTo(p, Working("loaded", work[p].path, ReadFile(work[p].path)))
    /\ UNCHANGED <<home, intent, torn, edits>>

LoadDone(p) ==
    /\ Does(p, "loaded")
    /\ BeginsTo(p, Idle)
    /\ UNCHANGED <<home, intent, torn, edits>>

-------------------------------------------------------------------------------
(* The user, and the end of processes *)

WrittenBy(p, path) == work[p].path = path /\ Does(p, "unpack_writes")

\* The user saves a configuration, by replacing the file.
Edit(path, config) ==
    /\ edits < MaxEdits
    /\ IsDir(path)
    /\ \A p \in HomeProcs : ~WrittenBy(p, path)
    /\ Leave(path, config)
    /\ edits' = edits + 1
    /\ UNCHANGED work

\* The process dies; sqlite undoes a transaction that was not committed.
HomeProcDies(p) ==
    /\ ~Does(p, "idle")
    /\ torn' = IF Does(p, "unpack_writes") THEN torn \cup {work[p].path} ELSE torn
    /\ BeginsTo(p, Idle)
    /\ UNCHANGED <<home, intent, edits>>

HomesNext ==
    \/ \E p \in HomeProcs :
          \/ \E path \in Directories : NewMakesDirectory(p, path)
          \/ NewLooks(p)
          \/ NewWrites(p)
          \/ \E path \in Directories, packed \in PackedFiles : PackReads(p, path, packed)
          \/ PackCreates(p)
          \/ PackCommits(p)
          \/ \E path \in Directories, packed \in PackedFiles : UnpackReads(p, packed, path)
          \/ UnpackCreates(p)
          \/ UnpackTruncates(p)
          \/ UnpackWrites(p)
          \/ UnpackWritesOver(p)
          \/ \E spec \in HomePaths \cup {Nobody} : LoadHome(p, spec)
          \/ LoadReads(p)
          \/ LoadDone(p)
          \/ HomeProcDies(p)
    \/ \E path \in Directories, config \in Configs : Edit(path, config)

HomesSpec == HomesInit /\ [][HomesNext]_homeVars

-------------------------------------------------------------------------------
(* Properties *)

\* A home holds what the last pack, unpack, new or edit there was to leave, so
\* that nobody is given the built-in defaults, or an older configuration, in
\* place of it.  Packed homes never fail this, although packing replaces their
\* entries while others read them (SqlitePhiHome::from_entries); a directory
\* does so while it is unpacked into or after that was cut off.
HomesAreWhole ==
    \A path \in HomePaths :
        home[path] # intent[path] =>
            /\ path \in Directories /\ home[path] \in {Blank, Mixed}
            /\ path \in torn \/ \E p \in HomeProcs : WrittenBy(p, path)
===============================================================================
