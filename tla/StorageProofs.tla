------------------------------ MODULE StorageProofs -----------------------------
(***************************************************************************)
(* Proofs about what phi keeps on disk.  SessionFile, for any number of    *)
(* processes, files and temporary names: readers see whole sessions,       *)
(* temporary files are private, and, when one process saves, what it was   *)
(* told is saved stays.  HomeStores, for any homes and processes: a home   *)
(* holds what the last command there was to leave.  AgentSetup, for any    *)
(* configurations: from its first answer on a process asks by its own.     *)
(***************************************************************************)
EXTENDS SessionFile, HomeStores, AgentSetup, SequenceTheorems, TLAPS

-------------------------------------------------------------------------------
(* What happens to files: but for power failures they only grow. *)

Grows(old, now) ==
    /\ now \in Seq(FileRecord)
    /\ Len(old) <= Len(now)
    /\ \A f \in 1 .. Len(old) :
          /\ now[f].session = old[f].session
          /\ now[f].new = old[f].new
          /\ old[f].whole => now[f].whole
          /\ old[f].synced => now[f].synced

\* Writing the contents of a file changes nothing else of any file.
LEMMA WholeGrows ==
  ASSUME NEW fs \in Seq(FileRecord), NEW h \in 1 .. Len(fs)
  PROVE  LET now == [fs EXCEPT ![h].whole = TRUE] IN
         Grows(fs, now) /\ Len(now) = Len(fs) /\ now[h].whole
<1> DEFINE r == [fs[h] EXCEPT !.whole = TRUE]
           now == [fs EXCEPT ![h] = r]
<1>1. \A f \in 1 .. Len(fs) : fs[f] \in FileRecord
  OBVIOUS
<1>2. /\ r \in FileRecord /\ r.session = fs[h].session /\ r.new = fs[h].new
      /\ r.synced = fs[h].synced /\ r.whole = TRUE
  BY <1>1 DEF FileRecord
<1>3. [fs EXCEPT ![h].whole = TRUE] = now
  OBVIOUS
<1> HIDE DEF r
<1>4. /\ now \in Seq(FileRecord) /\ Len(now) = Len(fs)
      /\ \A f \in 1 .. Len(fs) : now[f] = IF f = h THEN r ELSE fs[f]
  BY <1>2, ExceptSeq
<1> HIDE DEF now
<1>5. Grows(fs, now)
  BY <1>2, <1>4 DEF Grows
<1>6. now[h].whole
  BY <1>2, <1>4
<1> QED
  BY <1>3, <1>4, <1>5, <1>6

\* Syncing a file changes nothing else of any file.
LEMMA SyncGrows ==
  ASSUME NEW fs \in Seq(FileRecord), NEW h \in 1 .. Len(fs)
  PROVE  LET now == [fs EXCEPT ![h].synced = TRUE] IN
         Grows(fs, now) /\ Len(now) = Len(fs) /\ now[h].synced
<1> DEFINE r == [fs[h] EXCEPT !.synced = TRUE]
           now == [fs EXCEPT ![h] = r]
<1>1. \A f \in 1 .. Len(fs) : fs[f] \in FileRecord
  OBVIOUS
<1>2. /\ r \in FileRecord /\ r.session = fs[h].session /\ r.new = fs[h].new
      /\ r.whole = fs[h].whole /\ r.synced = TRUE
  BY <1>1 DEF FileRecord
<1>3. [fs EXCEPT ![h].synced = TRUE] = now
  OBVIOUS
<1> HIDE DEF r
<1>4. /\ now \in Seq(FileRecord) /\ Len(now) = Len(fs)
      /\ \A f \in 1 .. Len(fs) : now[f] = IF f = h THEN r ELSE fs[f]
  BY <1>2, ExceptSeq
<1> HIDE DEF now
<1>5. Grows(fs, now)
  BY <1>2, <1>4 DEF Grows
<1>6. now[h].synced
  BY <1>2, <1>4
<1> QED
  BY <1>3, <1>4, <1>5, <1>6

\* A new file comes after all others.
LEMMA NewFileGrows ==
  ASSUME files \in Seq(FileRecord), NEW session \in SUBSET Updates, NEW new \in BOOLEAN
  PROVE  LET now == NewFile(session, new) IN
         /\ Grows(files, now) /\ Len(now) = Len(files) + 1
         /\ now[Len(now)].session = session /\ now[Len(now)].new = new
<1> DEFINE r == [session |-> session, whole |-> FALSE, synced |-> FALSE, new |-> new]
           now == Append(files, r)
<1>1. r \in FileRecord /\ r.session = session /\ r.new = new
  BY DEF FileRecord
<1>2. NewFile(session, new) = now
  BY DEF NewFile
<1> HIDE DEF r
<1>3. /\ now \in Seq(FileRecord) /\ Len(now) = Len(files) + 1
      /\ \A f \in 1 .. Len(files) : now[f] = files[f]
      /\ now[Len(files) + 1] = r
  BY <1>1, AppendProperties
<1> HIDE DEF now
<1> QED
  BY <1>1, <1>2, <1>3 DEF Grows

\* A power failure spares the data that was synced.
LEMMA PowerFailureSpares ==
  ASSUME files \in Seq(FileRecord), PowerFailure
  PROVE  /\ files' \in Seq(FileRecord) /\ Len(files') = Len(files)
         /\ \A f \in 1 .. Len(files) :
               /\ files'[f].session = files[f].session
               /\ files'[f].new = files[f].new
               /\ files[f].synced => files'[f].synced
               /\ files[f].synced /\ files[f].whole => files'[f].whole
<1>1. PICK lost \in SUBSET {f \in DOMAIN files : ~files[f].synced} :
          files' = [f \in DOMAIN files |->
                       IF f \in lost THEN [files[f] EXCEPT !.whole = FALSE]
                                      ELSE files[f]]
  BY DEF PowerFailure
<1>2. ASSUME NEW f \in 1 .. Len(files)
      PROVE  /\ files'[f] \in FileRecord
             /\ files'[f].session = files[f].session
             /\ files'[f].new = files[f].new
             /\ files'[f].synced = files[f].synced
             /\ files[f].synced => files'[f].whole = files[f].whole
  <2>1. files[f] \in FileRecord
    OBVIOUS
  <2>2. CASE f \in lost
    <3> DEFINE now == [files[f] EXCEPT !.whole = FALSE]
    <3>1. files'[f] = now /\ ~files[f].synced
      BY <1>1, <2>2
    <3>2. /\ now \in FileRecord /\ now.session = files[f].session
          /\ now.new = files[f].new /\ now.synced = files[f].synced
      BY <2>1 DEF FileRecord
    <3> QED
      BY <3>1, <3>2
  <2>3. CASE f \notin lost
    <3>1. files'[f] = files[f]
      BY <1>1, <2>3
    <3> QED
      BY <2>1, <3>1
  <2> QED
    BY <2>2, <2>3
<1>3. files' = [f \in 1 .. Len(files) |-> files'[f]]
  BY <1>1
<1>4. files' \in Seq(FileRecord) /\ Len(files') = Len(files)
  BY <1>2, <1>3
<1> QED
  BY <1>2, <1>4

\* No file is touched by a step that leaves them alone.
LEMMA SameGrows ==
  ASSUME files \in Seq(FileRecord), files' = files
  PROVE  Grows(files, files')
  BY DEF Grows

-------------------------------------------------------------------------------
(* Types, and what a process is holding. *)

Holding == {"creating", "opened", "writing", "written", "synced", "renamed"}

HoldsFile == \A p \in Procs : pc[p] \in Holding => handle[p] # 0

\* Updating one entry of a typed function.
LEMMA UpdateTyped ==
  ASSUME NEW D, NEW R, NEW f \in [D -> R], NEW x, NEW v \in R
  PROVE  [f EXCEPT ![x] = v] \in [D -> R]
  OBVIOUS

\* But for power failures, no step shrinks a file.
LEMMA FilesGrow ==
  ASSUME FileTypeOK, HoldsFile, [Next]_vars
  PROVE  Grows(files, files') \/ PowerFailure
<1> USE ProcsAssumption, BoundsAssumption
<1>1. \A p \in Procs : pc[p] \in Holding => handle[p] \in 1 .. Len(files)
  BY DEF FileTypeOK, HoldsFile
<1>2. files \in Seq(FileRecord) /\ Len(files) \in Nat
  BY DEF FileTypeOK
<1>3. ASSUME files' = files PROVE Grows(files, files')
  BY <1>2, <1>3, SameGrows
<1>4. ASSUME NEW p \in Procs, Create(p) PROVE Grows(files, files')
  BY <1>2, <1>4, NewFileGrows DEF Create
<1>5. ASSUME NEW p \in Procs, Created(p) \/ Write(p) PROVE Grows(files, files')
  <2>1. pc[p] \in Holding /\ files' = [files EXCEPT ![handle[p]].whole = TRUE]
    BY <1>5 DEF Created, Write, Holding
  <2> QED
    BY <1>1, <1>2, <2>1, WholeGrows
<1>6. ASSUME NEW p \in Procs, Sync(p) PROVE Grows(files, files')
  <2>1. pc[p] \in Holding /\ files' = [files EXCEPT ![handle[p]].synced = TRUE]
    BY <1>6 DEF Sync, Holding
  <2> QED
    BY <1>1, <1>2, <2>1, SyncGrows
<1>7. ASSUME NEW p \in Procs, CreateTemp(p) PROVE Grows(files, files')
  <2>1. CASE temps[<<p, counter[p]>>] # 0
    BY <1>3, <1>7, <2>1 DEF CreateTemp
  <2>2. CASE temps[<<p, counter[p]>>] = 0
    <3>1. /\ mem' = [mem EXCEPT ![p] = @ \cup {Len(files) + 1}]
          /\ files' = NewFile(mem'[p], FALSE)
          /\ Len(files) < MaxFiles
      BY <1>7, <2>2 DEF CreateTemp
    <3>2. mem'[p] \in SUBSET Updates
      BY <1>2, <3>1 DEF FileTypeOK, Updates
    <3> QED
      BY <1>2, <3>1, <3>2, NewFileGrows
  <2> QED
    BY <2>1, <2>2
<1>8. ASSUME NEW p \in Procs,
             \/ CreateFails(p) \/ Open(p) \/ Load(p) \/ Rename(p) \/ SyncParent(p)
             \/ SaveFails(p) \/ Finish(p) \/ Delete(p) \/ Crash(p)
      PROVE  Grows(files, files')
  <2>1. files' = files
    BY <1>8 DEF CreateFails, Open, Load, Rename, SyncParent, SaveFails, Finish,
                Delete, Crash, disk
  <2> QED
    BY <1>3, <2>1
<1>9. CASE UNCHANGED vars
  BY <1>3, <1>9 DEF vars, disk
<1> QED
  BY <1>4, <1>5, <1>6, <1>7, <1>8, <1>9 DEF Next

\* A system without files or running processes is typed.
LEMMA TypesInit == Init => FileTypeOK /\ HoldsFile
  BY BoundsAssumption DEF Init, FileTypeOK, HoldsFile, Holding, TempNames

\* Every step keeps the types, and who holds a file keeps holding it.
LEMMA TypesStep ==
  ASSUME FileTypeOK, HoldsFile, [Next]_vars
  PROVE  FileTypeOK' /\ HoldsFile'
<1> USE ProcsAssumption, BoundsAssumption
<1>1. /\ files \in Seq(FileRecord) /\ files' \in Seq(FileRecord)
      /\ Len(files) \in Nat /\ Len(files') \in Nat /\ Len(files) <= Len(files')
  BY FilesGrow, PowerFailureSpares DEF Grows, FileTypeOK
<1>2. /\ survives \in SUBSET (0 .. Len(files')) /\ target \in 0 .. Len(files')
      /\ temps \in [TempNames -> 0 .. Len(files')]
      /\ handle \in [Procs -> 0 .. Len(files')]
      /\ 0 \in 0 .. Len(files')
  BY <1>1 DEF FileTypeOK
<1>3. ASSUME NEW p \in Procs, Exit(p), target' \in 0 .. Len(files'),
             survives' \subseteq 0 .. Len(files'),
             temps' \in [TempNames -> 0 .. Len(files')], acked' \subseteq Updates
      PROVE  FileTypeOK' /\ HoldsFile'
  BY <1>1, <1>2, <1>3 DEF FileTypeOK, HoldsFile, Holding, Exit, Goto
<1>4. CASE UNCHANGED vars
  BY <1>1, <1>4 DEF vars, disk, procs, FileTypeOK, HoldsFile
<1>5. CASE PowerFailure
  BY <1>1, <1>2, <1>5 DEF PowerFailure, FileTypeOK, HoldsFile, Holding
<1>6. ASSUME NEW p \in Procs, Create(p) PROVE FileTypeOK' /\ HoldsFile'
  <2>1. Len(files') = Len(files) + 1
    BY <1>1, <1>6, NewFileGrows DEF Create
  <2>2. Len(files') \in 0 .. Len(files') /\ Len(files') # 0
    BY <1>1, <2>1
  <2>3. /\ target' = Len(files')
        /\ survives' = survives \cup {Len(files')}
        /\ handle' = [handle EXCEPT ![p] = Len(files')]
        /\ pc' = [pc EXCEPT ![p] = "creating"]
        /\ UNCHANGED <<temps, mem, counter, acked>>
    BY <1>6 DEF Create, Goto
  <2>4. survives' \subseteq 0 .. Len(files')
    BY <1>2, <2>2, <2>3
  <2>5. handle' \in [Procs -> 0 .. Len(files')]
    BY <1>2, <2>2, <2>3, UpdateTyped
  <2> QED
    BY <1>1, <1>2, <2>2, <2>3, <2>4, <2>5 DEF FileTypeOK, HoldsFile, Holding
<1>7. ASSUME NEW p \in Procs, Created(p) \/ CreateFails(p) \/ Finish(p) \/ Crash(p)
      PROVE  FileTypeOK' /\ HoldsFile'
  <2>1. /\ Exit(p) /\ target' \in {target, 0}
        /\ survives' \subseteq survives \cup {0}
        /\ UNCHANGED <<temps, acked>>
    BY <1>7 DEF Created, CreateFails, Finish, Crash, disk
  <2>2. target' \in 0 .. Len(files') /\ survives' \subseteq 0 .. Len(files')
    BY <1>1, <1>2, <2>1
  <2> QED
    BY <1>2, <1>3, <2>1, <2>2 DEF FileTypeOK
<1>8. ASSUME NEW p \in Procs, Open(p) PROVE FileTypeOK' /\ HoldsFile'
  BY <1>1, <1>2, <1>8 DEF Open, Goto, disk, FileTypeOK, HoldsFile, Holding
<1>9. ASSUME NEW p \in Procs, Load(p) PROVE FileTypeOK' /\ HoldsFile'
  <2>1. CASE Exit(p)
    BY <1>2, <1>3, <1>9, <2>1 DEF Load, disk, FileTypeOK
  <2>2. CASE ~Exit(p)
    <3>1. /\ mem' = [mem EXCEPT ![p] = files[handle[p]].session]
          /\ handle' = [handle EXCEPT ![p] = 0]
          /\ pc' = [pc EXCEPT ![p] = "loaded"]
          /\ UNCHANGED <<disk, counter, acked>>
          /\ pc[p] = "opened"
      BY <1>9, <2>2 DEF Load, Goto
    <3>2. files[handle[p]] \in FileRecord
      BY <1>1, <3>1 DEF FileTypeOK, HoldsFile, Holding
    <3>3. files[handle[p]].session \in SUBSET Updates
      BY <3>2 DEF FileRecord
    <3> QED
      BY <1>1, <1>2, <3>1, <3>3 DEF disk, FileTypeOK, HoldsFile, Holding
  <2> QED
    BY <2>1, <2>2
<1>10. ASSUME NEW p \in Procs, CreateTemp(p) PROVE FileTypeOK' /\ HoldsFile'
  <2>1. counter' \in [Procs -> 0 .. MaxTempId + 1]
    BY <1>10 DEF CreateTemp, FileTypeOK
  <2>2. CASE temps[<<p, counter[p]>>] # 0
    BY <1>1, <1>2, <1>10, <2>1, <2>2 DEF CreateTemp, Goto, FileTypeOK, HoldsFile, Holding
  <2>3. CASE temps[<<p, counter[p]>>] = 0
    <3>1. /\ mem' = [mem EXCEPT ![p] = @ \cup {Len(files) + 1}]
          /\ files' = NewFile(mem'[p], FALSE)
          /\ temps' = [temps EXCEPT ![<<p, counter[p]>>] = Len(files')]
          /\ handle' = [handle EXCEPT ![p] = Len(files')]
          /\ pc' = [pc EXCEPT ![p] = "writing"]
          /\ UNCHANGED <<target, survives, acked>>
          /\ Len(files) < MaxFiles
      BY <1>10, <2>3 DEF CreateTemp, Goto
    <3>2. mem' \in [Procs -> SUBSET Updates]
      BY <1>1, <3>1 DEF FileTypeOK, Updates
    <3>3. Len(files') = Len(files) + 1
      <4>1. mem'[p] \in SUBSET Updates
        BY <3>2
      <4> QED
        BY <1>1, <3>1, <4>1, NewFileGrows
    <3>4. Len(files') \in 0 .. Len(files') /\ Len(files') # 0
      BY <1>1, <3>3
    <3>5. temps' \in [TempNames -> 0 .. Len(files')]
      BY <1>2, <3>1, <3>4, UpdateTyped
    <3>6. handle' \in [Procs -> 0 .. Len(files')]
      BY <1>2, <3>1, <3>4, UpdateTyped
    <3>7. /\ target' \in 0 .. Len(files') /\ survives' \subseteq 0 .. Len(files')
          /\ acked' \subseteq Updates
      BY <1>2, <3>1 DEF FileTypeOK
    <3>8. /\ pc' = [pc EXCEPT ![p] = "writing"]
          /\ handle' = [handle EXCEPT ![p] = Len(files')]
      BY <3>1
    <3> QED
      BY <1>1, <2>1, <3>2, <3>4, <3>5, <3>6, <3>7, <3>8 DEF FileTypeOK, HoldsFile, Holding
  <2> QED
    BY <2>2, <2>3
<1>11. ASSUME NEW p \in Procs, Write(p) \/ Sync(p) PROVE FileTypeOK' /\ HoldsFile'
  BY <1>1, <1>2, <1>11 DEF Write, Sync, Goto, FileTypeOK, HoldsFile, Holding
<1>12. ASSUME NEW p \in Procs, Rename(p) PROVE FileTypeOK' /\ HoldsFile'
  <2>1. target' \in 0 .. Len(files') /\ survives' \subseteq 0 .. Len(files')
    BY <1>1, <1>2, <1>12 DEF Rename, FileTypeOK
  <2>2. temps' \in [TempNames -> 0 .. Len(files')]
    BY <1>2, <1>12, UpdateTyped DEF Rename, RemoveTemp
  <2> QED
    BY <1>1, <1>2, <1>12, <2>1, <2>2 DEF Rename, Goto, FileTypeOK, HoldsFile, Holding
<1>13. ASSUME NEW p \in Procs, SyncParent(p) PROVE FileTypeOK' /\ HoldsFile'
  BY <1>1, <1>2, <1>13 DEF SyncParent, Goto, FileTypeOK, HoldsFile, Holding
<1>14. ASSUME NEW p \in Procs, SaveFails(p) PROVE FileTypeOK' /\ HoldsFile'
  <2>1. temps' \in [TempNames -> 0 .. Len(files')]
    BY <1>2, <1>14, UpdateTyped DEF SaveFails, RemoveTemp
  <2>2. Exit(p) /\ UNCHANGED <<target, survives, acked>>
    BY <1>14 DEF SaveFails
  <2> QED
    BY <1>2, <1>3, <2>1, <2>2 DEF FileTypeOK
<1>15. ASSUME NEW p \in Procs, Delete(p) PROVE FileTypeOK' /\ HoldsFile'
  BY <1>1, <1>2, <1>3, <1>15 DEF Delete, FileTypeOK
<1> QED
  BY <1>4, <1>5, <1>6, <1>7, <1>8, <1>9, <1>10, <1>11, <1>12, <1>13, <1>14, <1>15 DEF Next

\* Every variable keeps its type.
THEOREM FilesAreTyped == Spec => []FileTypeOK
<1>1. FileTypeOK /\ HoldsFile /\ [Next]_vars => (FileTypeOK /\ HoldsFile)'
  BY TypesStep
<1> QED
  BY TypesInit, <1>1, PTL DEF Spec

-------------------------------------------------------------------------------
(* Readers see whole sessions. *)

\* The session in it survives a power failure, unless it is a new file.
Safe(f) == files[f].new \/ (files[f].whole /\ files[f].synced)

SafeOnDisk ==
    /\ target \in survives
    /\ \A f \in survives : f # 0 => Safe(f)

SafeInProcs ==
    \A p \in Procs :
        /\ pc[p] \in {"opened", "synced"} => Safe(handle[p])
        /\ pc[p] = "written" => files[handle[p]].whole

\* A file that is safe for readers stays so.
LEMMA SafeStays ==
  ASSUME FileTypeOK, HoldsFile, [Next]_vars
  PROVE  \A f \in 1 .. Len(files) : Safe(f) => Safe(f)'
  BY FilesGrow, PowerFailureSpares DEF Grows, Safe, FileTypeOK

\* What the name of the session may lead to stays safe to read.
LEMMA SafeOnDiskStep ==
  ASSUME FileTypeOK, HoldsFile, SafeOnDisk, SafeInProcs, [Next]_vars
  PROVE  SafeOnDisk'
<1>1. survives \subseteq 0 .. Len(files) /\ Len(files) \in Nat
  BY DEF FileTypeOK
<1>2. \A f \in survives : f # 0 => Safe(f)'
  BY <1>1, SafeStays DEF SafeOnDisk
<1>3. CASE UNCHANGED <<target, survives>>
  BY <1>2, <1>3 DEF SafeOnDisk
<1>4. CASE target' = 0 /\ survives' = survives \cup {0}
  BY <1>2, <1>4 DEF SafeOnDisk
<1>5. CASE PowerFailure
  BY <1>2, <1>5 DEF PowerFailure, SafeOnDisk
<1>6. ASSUME NEW p \in Procs, Create(p) PROVE SafeOnDisk'
  <2>1. files'[Len(files')].new
    BY <1>6, NewFileGrows DEF Create, FileTypeOK
  <2>2. target' = Len(files') /\ survives' = survives \cup {target'}
    BY <1>6 DEF Create
  <2> QED
    BY <1>2, <2>1, <2>2 DEF SafeOnDisk, Safe
<1>7. ASSUME NEW p \in Procs, Rename(p) PROVE SafeOnDisk'
  <2>1. Safe(handle[p]) /\ UNCHANGED files
    BY <1>7 DEF Rename, SafeInProcs
  <2>2. target' = handle[p] /\ survives' = survives \cup {target'}
    BY <1>7 DEF Rename
  <2> QED
    BY <1>2, <2>1, <2>2 DEF SafeOnDisk, Safe
<1>8. ASSUME NEW p \in Procs, SyncParent(p) PROVE SafeOnDisk'
  <2>1. survives' = {target} /\ target' = target
    BY <1>8 DEF SyncParent
  <2> QED
    BY <1>2, <2>1 DEF SafeOnDisk
<1>9. ASSUME NEW p \in Procs, CreateFails(p) \/ Delete(p) PROVE SafeOnDisk'
  BY <1>4, <1>9 DEF CreateFails, Delete
<1>10. ASSUME NEW p \in Procs,
              \/ Created(p) \/ Open(p) \/ Load(p) \/ CreateTemp(p) \/ Write(p)
              \/ Sync(p) \/ SaveFails(p) \/ Finish(p) \/ Crash(p)
       PROVE  SafeOnDisk'
  BY <1>3, <1>10 DEF Created, Open, Load, CreateTemp, Write, Sync, SaveFails, Finish,
                     Crash, disk
<1>11. CASE UNCHANGED vars
  BY <1>3, <1>11 DEF vars, disk
<1> QED
  BY <1>5, <1>6, <1>7, <1>8, <1>9, <1>10, <1>11 DEF Next

\* What a process has opened or synced stays safe to read.
LEMMA SafeInProcsStep ==
  ASSUME FileTypeOK, HoldsFile, SafeOnDisk, SafeInProcs, [Next]_vars
  PROVE  SafeInProcs'
<1> DEFINE SafeHere(p) == /\ pc[p] \in {"opened", "synced"} => Safe(handle[p])
                          /\ pc[p] = "written" => files[handle[p]].whole
<1> SUFFICES ASSUME NEW p \in Procs PROVE SafeHere(p)'
  BY DEF SafeInProcs
<1>1. SafeHere(p)
  BY DEF SafeInProcs
<1>2. pc[p] \in Holding => handle[p] \in 1 .. Len(files)
  BY DEF FileTypeOK, HoldsFile
<1>3. CASE UNCHANGED <<pc[p], handle[p]>>
  <2>1. pc[p] \in {"opened", "synced"} => Safe(handle[p])'
    BY <1>1, <1>2, <1>3, SafeStays DEF Holding, Safe
  <2>2. CASE pc[p] = "written"
    <3>1. handle[p] \in 1 .. Len(files) /\ files[handle[p]].whole
      BY <1>1, <1>2, <2>2 DEF Holding
    <3>2. CASE PowerFailure
      BY <1>3, <2>2, <3>2 DEF PowerFailure
    <3>3. CASE ~PowerFailure
      BY <1>3, <2>2, <3>1, <3>3, FilesGrow DEF Grows
    <3> QED
      BY <3>2, <3>3
  <2> QED
    BY <1>3, <2>1, <2>2 DEF Safe
<1>4. CASE pc'[p] \notin {"opened", "written", "synced"}
  BY <1>4
<1>5. ASSUME Open(p) PROVE SafeHere(p)'
  <2>1. target # 0 /\ Safe(target) /\ UNCHANGED files
    BY <1>5 DEF Open, disk, SafeOnDisk
  <2>2. handle'[p] = target /\ pc'[p] = "opened"
    BY <1>5 DEF Open, Goto, FileTypeOK
  <2> QED
    BY <2>1, <2>2 DEF Safe
<1>6. ASSUME Write(p) PROVE SafeHere(p)'
  <2>1. pc'[p] = "written" /\ handle'[p] = handle[p] /\ pc[p] = "writing"
    BY <1>6 DEF Write, Goto, FileTypeOK
  <2>2. files'[handle[p]].whole
    BY <1>2, <1>6, <2>1, WholeGrows DEF Write, Holding, FileTypeOK
  <2> QED
    BY <2>1, <2>2
<1>7. ASSUME Sync(p) PROVE SafeHere(p)'
  <2>1. /\ pc'[p] = "synced" /\ handle'[p] = handle[p]
        /\ pc[p] = "written" /\ handle[p] \in 1 .. Len(files)
    BY <1>2, <1>7 DEF Sync, Goto, Holding, FileTypeOK
  <2>2. Grows(files, files') /\ files'[handle[p]].synced
    BY <1>7, <2>1, SyncGrows DEF Sync, FileTypeOK
  <2>3. files'[handle[p]].whole
    BY <1>1, <2>1, <2>2 DEF Grows
  <2> QED
    BY <2>1, <2>2, <2>3 DEF Safe
<1>8. CASE UNCHANGED vars
  BY <1>3, <1>8 DEF vars, procs
<1>9. CASE PowerFailure
  BY <1>4, <1>9 DEF PowerFailure
<1>10. ASSUME NEW q \in Procs, q # p,
              \/ Create(q) \/ Created(q) \/ CreateFails(q) \/ Open(q) \/ Load(q)
              \/ CreateTemp(q) \/ Write(q) \/ Sync(q) \/ Rename(q) \/ SyncParent(q)
              \/ SaveFails(q) \/ Finish(q) \/ Delete(q) \/ Crash(q)
       PROVE  SafeHere(p)'
  <2>1. UNCHANGED <<pc[p], handle[p]>>
    BY <1>10 DEF Create, Created, CreateFails, Open, Load, CreateTemp, Write, Sync, Rename,
                 SyncParent, SaveFails, Finish, Delete, Crash, Goto, Exit, FileTypeOK
  <2> QED
    BY <1>3, <2>1
<1>11. ASSUME \/ Create(p) \/ Created(p) \/ CreateFails(p) \/ Load(p)
              \/ CreateTemp(p) \/ Rename(p) \/ SyncParent(p)
              \/ SaveFails(p) \/ Finish(p) \/ Delete(p) \/ Crash(p)
       PROVE  SafeHere(p)'
  <2>1. pc'[p] \notin {"opened", "written", "synced"}
    BY <1>11 DEF Create, Created, CreateFails, Load, CreateTemp, Rename,
                 SyncParent, SaveFails, Finish, Delete, Crash, Goto, Exit, FileTypeOK
  <2> QED
    BY <1>4, <2>1
<1> HIDE DEF SafeHere
<1> QED
  BY <1>5, <1>6, <1>7, <1>8, <1>9, <1>10, <1>11 DEF Next

\* A concurrent reader sees a complete session, or the one that phi session new
\* is still writing.
THEOREM ReadersNeverSeeHalfASession == Spec => []ReadersSeeWholeSessions
<1> DEFINE IInv == FileTypeOK /\ HoldsFile /\ SafeOnDisk /\ SafeInProcs
<1>1. Init => IInv
  BY TypesInit DEF Init, SafeOnDisk, SafeInProcs
<1>2. IInv /\ [Next]_vars => IInv'
  BY TypesStep, SafeOnDiskStep, SafeInProcsStep
<1>3. IInv => ReadersSeeWholeSessions
  BY DEF SafeInProcs, Safe, ReadersSeeWholeSessions
<1> QED
  BY <1>1, <1>2, <1>3, PTL DEF Spec

-------------------------------------------------------------------------------
(* Temporary files are private. *)

Saving == {"writing", "written", "synced"}

OwnTemp(p) ==
    pc[p] \in Saving =>
        /\ TempName(p) \in TempNames
        /\ temps[TempName(p)] = handle[p]
        /\ \A n \in TempNames : temps[n] = handle[p] => n = TempName(p)

NoTempOnDisk == \A f \in survives : f # 0 => \A n \in TempNames : temps[n] # f

TempsInv == NoTempOnDisk /\ \A p \in Procs : OwnTemp(p)

\* The name a save creates is that of no other file.
LEMMA CreateTempNames ==
  ASSUME FileTypeOK, HoldsFile, NEW p \in Procs, CreateTemp(p)
  PROVE  \/ UNCHANGED temps /\ pc'[p] \notin Saving
         \/ LET n == <<p, counter[p]>> IN
            /\ temps' = [temps EXCEPT ![n] = Len(files) + 1]
            /\ handle'[p] = Len(files) + 1
            /\ n \in TempNames /\ TempName(p)' = n
<1>1. CASE temps[<<p, counter[p]>>] # 0
  BY <1>1 DEF CreateTemp, Goto, Saving, FileTypeOK
<1>2. CASE temps[<<p, counter[p]>>] = 0
  <2>1. /\ mem' = [mem EXCEPT ![p] = @ \cup {Len(files) + 1}]
        /\ files' = NewFile(mem'[p], FALSE)
        /\ temps' = [temps EXCEPT ![<<p, counter[p]>>] = Len(files')]
        /\ handle' = [handle EXCEPT ![p] = Len(files')]
        /\ counter' = [counter EXCEPT ![p] = @ + 1]
        /\ counter[p] <= MaxTempId
    BY <1>2 DEF CreateTemp
  <2>2. Len(files') = Len(files) + 1
    BY <2>1 DEF NewFile, FileTypeOK
  <2>3. counter[p] \in 0 .. MaxTempId /\ counter'[p] = counter[p] + 1
    BY <2>1, BoundsAssumption DEF FileTypeOK
  <2>4. counter'[p] - 1 = counter[p]
    BY <2>3, BoundsAssumption
  <2>5. handle'[p] = Len(files) + 1
    BY <2>1, <2>2 DEF FileTypeOK
  <2> QED
    BY <2>1, <2>2, <2>3, <2>4, <2>5 DEF TempName, TempNames
<1> QED
  BY <1>1, <1>2

\* No file the session's name may lead to still has a temporary name.
LEMMA NoTempOnDiskStep ==
  ASSUME FileTypeOK, HoldsFile, SafeOnDisk, TempsInv, [Next]_vars
  PROVE  NoTempOnDisk'
<1>1. /\ Len(files) \in Nat /\ survives \subseteq 0 .. Len(files)
      /\ temps \in [TempNames -> 0 .. Len(files)]
  BY DEF FileTypeOK
<1>2. ASSUME survives' \subseteq survives \cup {0},
             \A n \in TempNames : temps'[n] \in {temps[n], 0}
      PROVE  NoTempOnDisk'
  BY <1>2 DEF NoTempOnDisk, TempsInv
<1>3. CASE UNCHANGED vars
  BY <1>2, <1>3 DEF vars, disk
<1>4. CASE PowerFailure
  <2>1. target' \in survives /\ survives' = {target'} /\ UNCHANGED temps
    BY <1>4 DEF PowerFailure
  <2>2. survives' \subseteq survives \cup {0}
    BY <2>1
  <2> QED
    BY <1>2, <2>1, <2>2
<1>5. ASSUME NEW p \in Procs, Create(p) PROVE NoTempOnDisk'
  <2>1. survives' = survives \cup {Len(files')} /\ UNCHANGED temps
    BY <1>5 DEF Create
  <2>2. Len(files') = Len(files) + 1
    BY <1>5 DEF Create, NewFile, FileTypeOK
  <2> QED
    BY <1>1, <2>1, <2>2 DEF NoTempOnDisk, TempsInv
<1>6. ASSUME NEW p \in Procs, CreateTemp(p) PROVE NoTempOnDisk'
  <2>1. UNCHANGED survives
    BY <1>6 DEF CreateTemp
  <2>2. CASE UNCHANGED temps
    BY <1>2, <2>1, <2>2
  <2>3. CASE temps' = [temps EXCEPT ![<<p, counter[p]>>] = Len(files) + 1]
    BY <1>1, <2>1, <2>3 DEF NoTempOnDisk, TempsInv
  <2> QED
    BY <1>6, <2>2, <2>3, CreateTempNames
<1>7. ASSUME NEW p \in Procs, Rename(p) PROVE NoTempOnDisk'
  <2>1. /\ survives' = survives \cup {handle[p]}
        /\ temps' = [temps EXCEPT ![TempName(p)] = 0]
        /\ pc[p] = "synced"
    BY <1>7 DEF Rename, RemoveTemp
  <2>2. handle[p] # 0 /\ \A n \in TempNames : temps[n] = handle[p] => n = TempName(p)
    BY <2>1 DEF HoldsFile, Holding, TempsInv, OwnTemp, Saving
  <2> QED
    BY <1>1, <2>1, <2>2 DEF NoTempOnDisk, TempsInv
<1>8. ASSUME NEW p \in Procs, SyncParent(p) \/ SaveFails(p) PROVE NoTempOnDisk'
  <2>1. survives' \subseteq survives \cup {0}
    BY <1>8 DEF SyncParent, SaveFails, SafeOnDisk
  <2>2. \A n \in TempNames : temps'[n] \in {temps[n], 0}
    BY <1>1, <1>8 DEF SyncParent, SaveFails, RemoveTemp
  <2> QED
    BY <1>2, <2>1, <2>2
<1>9. ASSUME NEW p \in Procs,
             \/ Created(p) \/ CreateFails(p) \/ Open(p) \/ Load(p) \/ Write(p)
             \/ Sync(p) \/ Finish(p) \/ Delete(p) \/ Crash(p)
      PROVE  NoTempOnDisk'
  <2>1. UNCHANGED temps /\ survives' \subseteq survives \cup {0}
    BY <1>9 DEF Created, CreateFails, Open, Load, Write, Sync, Finish, Delete, Crash, disk
  <2> QED
    BY <1>2, <2>1
<1> QED
  BY <1>3, <1>4, <1>5, <1>6, <1>7, <1>8, <1>9 DEF Next

\* A temporary file being saved keeps its one name, made by its own process.
LEMMA OwnTempStep ==
  ASSUME FileTypeOK, HoldsFile, TempsInv, [Next]_vars, NEW p \in Procs
  PROVE  OwnTemp(p)'
<1>1. /\ Len(files) \in Nat /\ handle \in [Procs -> 0 .. Len(files)]
      /\ temps \in [TempNames -> 0 .. Len(files)]
  BY DEF FileTypeOK
<1>2. OwnTemp(p) /\ (pc[p] \in Saving => handle[p] # 0)
  BY DEF TempsInv, HoldsFile, Holding, Saving
<1>3. CASE pc'[p] \notin Saving
  BY <1>3 DEF OwnTemp
<1>4. CASE UNCHANGED <<temps, handle[p], counter[p]>> /\ (pc'[p] \in Saving => pc[p] \in Saving)
  BY <1>2, <1>4 DEF OwnTemp, TempName
<1>5. ASSUME NEW q \in Procs, q # p, UNCHANGED <<pc[p], handle[p], counter[p]>>, RemoveTemp(q)
      PROVE  OwnTemp(p)'
  <2>1. TempName(q) # TempName(p) /\ TempName(p)' = TempName(p)
    BY <1>5 DEF TempName
  <2>2. temps' = [temps EXCEPT ![TempName(q)] = 0]
    BY <1>5 DEF RemoveTemp
  <2> QED
    BY <1>1, <1>2, <1>5, <2>1, <2>2 DEF OwnTemp
<1>6. CASE UNCHANGED vars
  BY <1>4, <1>6 DEF vars, disk, procs
<1>7. CASE PowerFailure
  BY <1>3, <1>7 DEF PowerFailure, Saving
<1>8. ASSUME NEW q \in Procs, q # p,
             \/ Create(q) \/ Created(q) \/ CreateFails(q) \/ Open(q) \/ Load(q)
             \/ Write(q) \/ Sync(q) \/ SyncParent(q) \/ Finish(q) \/ Delete(q) \/ Crash(q)
      PROVE  OwnTemp(p)'
  <2>1. UNCHANGED <<temps, pc[p], handle[p], counter[p]>>
    BY <1>8 DEF Create, Created, CreateFails, Open, Load, Write, Sync, SyncParent, Finish,
                Delete, Crash, Goto, Exit, disk, FileTypeOK
  <2> QED
    BY <1>4, <2>1
<1>9. ASSUME NEW q \in Procs, q # p, Rename(q) \/ SaveFails(q) PROVE OwnTemp(p)'
  <2>1. UNCHANGED <<pc[p], handle[p], counter[p]>> /\ RemoveTemp(q)
    BY <1>9 DEF Rename, SaveFails, Goto, Exit, FileTypeOK
  <2> QED
    BY <1>5, <1>9, <2>1
<1>10. ASSUME NEW q \in Procs, q # p, CreateTemp(q) PROVE OwnTemp(p)'
  <2>1. UNCHANGED <<pc[p], handle[p], counter[p]>>
    BY <1>10 DEF CreateTemp, Goto, FileTypeOK
  <2>2. CASE UNCHANGED temps
    BY <1>4, <2>1, <2>2
  <2>3. CASE temps' = [temps EXCEPT ![<<q, counter[q]>>] = Len(files) + 1]
    <3>1. <<q, counter[q]>> # TempName(p) /\ TempName(p)' = TempName(p)
      BY <1>10, <2>1 DEF TempName
    <3>2. handle[p] # Len(files) + 1
      BY <1>1
    <3> QED
      BY <1>1, <1>2, <2>1, <2>3, <3>1, <3>2 DEF OwnTemp
  <2> QED
    BY <1>10, <2>2, <2>3, CreateTempNames
<1>11. ASSUME CreateTemp(p) PROVE OwnTemp(p)'
  <2>1. CASE pc'[p] \notin Saving
    BY <1>3, <2>1
  <2>2. CASE /\ temps' = [temps EXCEPT ![<<p, counter[p]>>] = Len(files) + 1]
             /\ handle'[p] = Len(files) + 1
             /\ <<p, counter[p]>> \in TempNames
             /\ TempName(p)' = <<p, counter[p]>>
    <3>1. \A n \in TempNames : temps[n] # Len(files) + 1
      BY <1>1
    <3> QED
      BY <1>1, <2>2, <3>1 DEF OwnTemp
  <2> QED
    BY <1>11, <2>1, <2>2, CreateTempNames
<1>12. ASSUME Write(p) \/ Sync(p) PROVE OwnTemp(p)'
  <2>1. UNCHANGED <<temps, handle[p], counter[p]>> /\ pc[p] \in Saving
    BY <1>12 DEF Write, Sync, Saving
  <2> QED
    BY <1>4, <2>1
<1>13. ASSUME \/ Create(p) \/ Created(p) \/ CreateFails(p) \/ Open(p) \/ Load(p)
              \/ Rename(p) \/ SyncParent(p)
              \/ SaveFails(p) \/ Finish(p) \/ Delete(p) \/ Crash(p)
       PROVE  OwnTemp(p)'
  <2>1. pc'[p] \notin Saving
    BY <1>13 DEF Create, Created, CreateFails, Open, Load, Rename, SyncParent, SaveFails,
                 Finish, Delete, Crash, Goto, Exit, Saving, FileTypeOK
  <2> QED
    BY <1>3, <2>1
<1> QED
  BY <1>6, <1>7, <1>8, <1>9, <1>10, <1>11, <1>12, <1>13 DEF Next

\* A temporary file keeps the name it will be renamed from, and none keeps the
\* session's.
THEOREM TempsStayPrivate == Spec => []TempsArePrivate
<1> DEFINE IInv == FileTypeOK /\ HoldsFile /\ SafeOnDisk /\ SafeInProcs /\ TempsInv
<1>1. Init => IInv
  BY TypesInit DEF Init, SafeOnDisk, SafeInProcs, TempsInv, NoTempOnDisk, OwnTemp, Saving
<1>2. IInv /\ [Next]_vars => IInv'
  BY TypesStep, SafeOnDiskStep, SafeInProcsStep, NoTempOnDiskStep, OwnTempStep DEF TempsInv
<1>3. IInv => TempsArePrivate
  <2> SUFFICES ASSUME IInv PROVE TempsArePrivate
    OBVIOUS
  <2>1. ASSUME NEW p \in Procs, pc[p] \in Saving
        PROVE  \E id \in 0 .. MaxTempId :
                  /\ temps[<<p, id>>] = handle[p]
                  /\ \A n \in TempNames : temps[n] = handle[p] => n = <<p, id>>
    <3>1. OwnTemp(p)
      BY DEF TempsInv
    <3>2. counter[p] - 1 \in 0 .. MaxTempId
      BY <2>1, <3>1 DEF OwnTemp, TempName, TempNames
    <3> WITNESS counter[p] - 1 \in 0 .. MaxTempId
    <3> QED
      BY <2>1, <3>1 DEF OwnTemp, TempName
  <2>2. target # 0 => \A n \in TempNames : temps[n] # target
    BY DEF SafeOnDisk, TempsInv, NoTempOnDisk
  <2> QED
    BY <2>1, <2>2 DEF TempsArePrivate, Saving
<1> QED
  BY <1>1, <1>2, <1>3, PTL DEF Spec

-------------------------------------------------------------------------------
(* With one writer, what was reported saved stays saved. *)

OneWriter == \A p, q \in Writers : p = q

ReadersOnlyRead == \A p \in Procs \ Writers : pc[p] \in {"idle", "opened"}

AckedOnDisk == acked # {} => \A f \in survives : f # 0 /\ acked \subseteq files[f].session

\* What the writer holds is as new as what it was told is saved.
WriterIsCurrent(p) ==
    /\ pc[p] = "creating" => acked = {}
    /\ pc[p] = "opened" => acked \subseteq files[handle[p]].session
    /\ pc[p] \in {"loaded", "creating_temp", "writing", "written", "synced", "renamed"} =>
          acked \subseteq mem[p]
    /\ pc[p] \in {"writing", "written", "synced", "renamed"} =>
          files[handle[p]].session = mem[p]
    /\ pc[p] = "renamed" => target = handle[p]

AckInv == /\ ReadersOnlyRead
          /\ AckedOnDisk
          /\ \A p \in Writers : WriterIsCurrent(p)

\* No step changes the session in a file that is there.
LEMMA SessionsStay ==
  ASSUME FileTypeOK, HoldsFile, [Next]_vars
  PROVE  \A f \in 1 .. Len(files) : files'[f].session = files[f].session
  BY FilesGrow, PowerFailureSpares DEF Grows, FileTypeOK

\* Processes that do not write only ever read.
LEMMA ReadersStep ==
  ASSUME FileTypeOK, ReadersOnlyRead, [Next]_vars
  PROVE  ReadersOnlyRead'
<1>1. CASE UNCHANGED vars
  BY <1>1 DEF vars, procs, ReadersOnlyRead
<1>2. CASE PowerFailure
  BY <1>2 DEF PowerFailure, ReadersOnlyRead
<1>3. ASSUME NEW p \in Procs,
             \/ Create(p) \/ Created(p) \/ CreateFails(p) \/ CreateTemp(p) \/ Write(p)
             \/ Sync(p) \/ Rename(p) \/ SyncParent(p) \/ SaveFails(p) \/ Finish(p) \/ Delete(p)
      PROVE  ReadersOnlyRead'
  <2>1. p \in Writers
    BY <1>3 DEF Create, Created, CreateFails, CreateTemp, Write, Sync, Rename, SyncParent,
                SaveFails, Finish, Delete, ReadersOnlyRead
  <2>2. \A q \in Procs : q # p => pc'[q] = pc[q]
    BY <1>3 DEF Create, Created, CreateFails, CreateTemp, Write, Sync, Rename, SyncParent,
                SaveFails, Finish, Delete, Goto, Exit, FileTypeOK
  <2> QED
    BY <2>1, <2>2 DEF ReadersOnlyRead
<1>4. ASSUME NEW p \in Procs, Open(p) \/ Load(p) \/ Crash(p) PROVE ReadersOnlyRead'
  <2>1. p \in Writers \/ pc'[p] \in {"idle", "opened"}
    BY <1>4 DEF Open, Load, Crash, Goto, Exit, FileTypeOK
  <2>2. \A q \in Procs : q # p => pc'[q] = pc[q]
    BY <1>4 DEF Open, Load, Crash, Goto, Exit, FileTypeOK
  <2> QED
    BY <2>1, <2>2 DEF ReadersOnlyRead
<1> QED
  BY <1>1, <1>2, <1>3, <1>4 DEF Next

\* Every file the session's name may lead to holds the acknowledged updates.
LEMMA AckedStep ==
  ASSUME OneWriter, FileTypeOK, HoldsFile, SafeOnDisk, AckInv, [Next]_vars
  PROVE  AckedOnDisk'
<1> USE ProcsAssumption
<1>1. \A f \in survives : f # 0 => files'[f].session = files[f].session
  <2>1. \A f \in survives : f # 0 => f \in 1 .. Len(files)
    BY DEF FileTypeOK
  <2> QED
    BY <2>1, SessionsStay
<1>2. ASSUME acked' = acked, survives' \subseteq survives PROVE AckedOnDisk'
  BY <1>1, <1>2 DEF AckInv, AckedOnDisk
<1>3. ASSUME acked' = {} PROVE AckedOnDisk'
  BY <1>3 DEF AckedOnDisk
<1>4. CASE UNCHANGED vars
  BY <1>2, <1>4 DEF vars, disk
<1>5. CASE PowerFailure
  BY <1>2, <1>5 DEF PowerFailure
<1>6. ASSUME NEW p \in Procs, Create(p) PROVE AckedOnDisk'
  <2>1. acked = {}
    BY <1>6 DEF Create, SafeOnDisk, AckInv, AckedOnDisk
  <2> QED
    BY <1>3, <1>6, <2>1 DEF Create
<1>7. ASSUME NEW p \in Procs, CreateFails(p) PROVE AckedOnDisk'
  <2>1. p \in Writers
    BY <1>7 DEF CreateFails, AckInv, ReadersOnlyRead
  <2>2. acked = {}
    BY <1>7, <2>1 DEF CreateFails, AckInv, WriterIsCurrent
  <2> QED
    BY <1>3, <1>7, <2>2 DEF CreateFails
<1>8. ASSUME NEW p \in Procs, Rename(p) PROVE AckedOnDisk'
  <2>1. pc[p] = "synced" /\ survives' = survives \cup {handle[p]} /\ UNCHANGED <<files, acked>>
    BY <1>8 DEF Rename
  <2>2. p \in Writers
    BY <2>1 DEF AckInv, ReadersOnlyRead
  <2>3. handle[p] # 0 /\ acked \subseteq files[handle[p]].session
    BY <2>1, <2>2 DEF AckInv, WriterIsCurrent, HoldsFile, Holding
  <2> QED
    BY <2>1, <2>3 DEF AckInv, AckedOnDisk
<1>9. ASSUME NEW p \in Procs, SyncParent(p) PROVE AckedOnDisk'
  <2>1. /\ pc[p] = "renamed" /\ survives' = {target} /\ acked' = acked \cup mem[p]
        /\ UNCHANGED files
    BY <1>9 DEF SyncParent
  <2>2. p \in Writers
    BY <2>1 DEF AckInv, ReadersOnlyRead
  <2>3. target = handle[p] /\ target # 0 /\ acked' \subseteq files[target].session
    BY <2>1, <2>2 DEF AckInv, WriterIsCurrent, HoldsFile, Holding
  <2> QED
    BY <2>1, <2>3 DEF AckedOnDisk
<1>10. ASSUME NEW p \in Procs, Delete(p) PROVE AckedOnDisk'
  BY <1>3, <1>10 DEF Delete
<1>11. ASSUME NEW p \in Procs,
              \/ Created(p) \/ Open(p) \/ Load(p) \/ CreateTemp(p) \/ Write(p) \/ Sync(p)
              \/ SaveFails(p) \/ Finish(p) \/ Crash(p)
       PROVE  AckedOnDisk'
  BY <1>2, <1>11 DEF Created, Open, Load, CreateTemp, Write, Sync, SaveFails, Finish,
                     Crash, disk
<1> QED
  BY <1>4, <1>5, <1>6, <1>7, <1>8, <1>9, <1>10, <1>11 DEF Next

\* What the writer holds in memory stays as new as what was acknowledged.
LEMMA WriterStep ==
  ASSUME OneWriter, FileTypeOK, HoldsFile, SafeOnDisk, AckInv, [Next]_vars, NEW p \in Writers
  PROVE  WriterIsCurrent(p)'
<1> USE ProcsAssumption
<1>1. \A f \in 1 .. Len(files) : files'[f].session = files[f].session
  BY SessionsStay
<1>2. WriterIsCurrent(p) /\ p \in Procs
  BY DEF AckInv
<1>3. pc[p] \in Holding => handle[p] \in 1 .. Len(files)
  BY <1>2 DEF FileTypeOK, HoldsFile
<1>4. CASE pc'[p] = "idle"
  BY <1>4 DEF WriterIsCurrent
<1>5. ASSUME UNCHANGED <<pc[p], handle[p], mem[p], acked, target>> PROVE WriterIsCurrent(p)'
  BY <1>1, <1>2, <1>3, <1>5 DEF WriterIsCurrent, Holding
<1>6. CASE UNCHANGED vars
  BY <1>5, <1>6 DEF vars, disk, procs
<1>7. CASE PowerFailure
  BY <1>2, <1>4, <1>7 DEF PowerFailure
<1>8. ASSUME NEW q \in Procs \ Writers, Open(q) \/ Load(q) \/ Crash(q)
      PROVE  WriterIsCurrent(p)'
  <2>1. UNCHANGED <<pc[p], handle[p], mem[p], acked, target>>
    BY <1>2, <1>8 DEF Open, Load, Crash, Goto, Exit, disk, FileTypeOK
  <2> QED
    BY <1>5, <2>1
<1>9. ASSUME \/ Created(p) \/ CreateFails(p) \/ SaveFails(p) \/ Finish(p) \/ Delete(p)
             \/ Crash(p)
      PROVE  WriterIsCurrent(p)'
  <2>1. pc'[p] = "idle"
    BY <1>2, <1>9 DEF Created, CreateFails, SaveFails, Finish, Delete, Crash, Exit, Goto, FileTypeOK
  <2> QED
    BY <1>4, <2>1
<1>10. ASSUME Create(p) PROVE WriterIsCurrent(p)'
  <2>1. pc'[p] = "creating" /\ acked' = acked
    BY <1>2, <1>10 DEF Create, Goto, FileTypeOK
  <2>2. acked = {}
    BY <1>10 DEF Create, SafeOnDisk, AckInv, AckedOnDisk
  <2> QED
    BY <2>1, <2>2 DEF WriterIsCurrent
<1>11. ASSUME Open(p) PROVE WriterIsCurrent(p)'
  <2>1. pc'[p] = "opened" /\ handle'[p] = target /\ UNCHANGED <<files, acked>>
    BY <1>2, <1>11 DEF Open, Goto, disk, FileTypeOK
  <2>2. acked \subseteq files[target].session
    BY DEF SafeOnDisk, AckInv, AckedOnDisk
  <2> QED
    BY <2>1, <2>2 DEF WriterIsCurrent
<1>12. ASSUME Load(p) PROVE WriterIsCurrent(p)'
  <2>1. CASE pc'[p] = "idle"
    BY <1>4, <2>1
  <2>2. CASE pc'[p] # "idle"
    <3>1. /\ pc[p] = "opened" /\ pc'[p] = "loaded" /\ acked' = acked
          /\ mem'[p] = files[handle[p]].session
      BY <1>2, <1>12, <2>2 DEF Load, Goto, Exit, FileTypeOK
    <3> QED
      BY <1>2, <3>1 DEF WriterIsCurrent
  <2> QED
    BY <2>1, <2>2
<1>13. ASSUME CreateTemp(p) PROVE WriterIsCurrent(p)'
  <2>1. acked' = acked /\ acked \subseteq mem[p]
    BY <1>2, <1>13 DEF CreateTemp, WriterIsCurrent
  <2>2. CASE temps[<<p, counter[p]>>] # 0
    <3>1. pc'[p] = "creating_temp" /\ mem' = mem
      BY <1>2, <1>13, <2>2 DEF CreateTemp, Goto, FileTypeOK
    <3> QED
      BY <2>1, <3>1 DEF WriterIsCurrent
  <2>3. CASE temps[<<p, counter[p]>>] = 0
    <3>1. /\ mem' = [mem EXCEPT ![p] = @ \cup {Len(files) + 1}]
          /\ files' = NewFile(mem'[p], FALSE)
          /\ handle' = [handle EXCEPT ![p] = Len(files')]
          /\ pc' = [pc EXCEPT ![p] = "writing"]
          /\ Len(files) < MaxFiles
      BY <1>13, <2>3 DEF CreateTemp, Goto
    <3>2. mem'[p] = mem[p] \cup {Len(files) + 1}
      BY <1>2, <3>1 DEF FileTypeOK
    <3>3. mem'[p] \in SUBSET Updates
      BY <1>2, <3>1, <3>2, BoundsAssumption DEF FileTypeOK, Updates
    <3>4. files'[Len(files')].session = mem'[p]
      BY <3>1, <3>3, NewFileGrows DEF FileTypeOK
    <3>5. handle'[p] = Len(files') /\ pc'[p] = "writing"
      BY <1>2, <3>1 DEF FileTypeOK
    <3> QED
      BY <2>1, <3>2, <3>4, <3>5 DEF WriterIsCurrent
  <2> QED
    BY <2>2, <2>3
<1>14. ASSUME Write(p) \/ Sync(p) PROVE WriterIsCurrent(p)'
  <2>1. /\ pc[p] \in {"writing", "written"} /\ pc'[p] \in {"written", "synced"}
        /\ UNCHANGED <<handle, mem, acked>>
    BY <1>2, <1>14 DEF Write, Sync, Goto, FileTypeOK
  <2>2. files'[handle[p]].session = files[handle[p]].session
    BY <1>1, <1>3, <2>1 DEF Holding
  <2> QED
    BY <1>2, <2>1, <2>2 DEF WriterIsCurrent
<1>15. ASSUME Rename(p) PROVE WriterIsCurrent(p)'
  <2>1. /\ pc[p] = "synced" /\ pc'[p] = "renamed" /\ target' = handle[p]
        /\ UNCHANGED <<files, handle, mem, acked>>
    BY <1>2, <1>15 DEF Rename, Goto, FileTypeOK
  <2> QED
    BY <1>2, <2>1 DEF WriterIsCurrent
<1>16. ASSUME SyncParent(p) PROVE WriterIsCurrent(p)'
  <2>1. /\ pc[p] = "renamed" /\ pc'[p] = "loaded" /\ acked' = acked \cup mem[p]
        /\ UNCHANGED mem
    BY <1>2, <1>16 DEF SyncParent, Goto, FileTypeOK
  <2> QED
    BY <1>2, <2>1 DEF WriterIsCurrent
<1>17. ASSUME NEW q \in Procs,
              \/ Create(q) \/ Created(q) \/ CreateFails(q) \/ CreateTemp(q) \/ Write(q)
              \/ Sync(q) \/ Rename(q) \/ SyncParent(q) \/ SaveFails(q) \/ Finish(q) \/ Delete(q)
       PROVE  q = p
  <2>1. q \in Writers
    BY <1>17 DEF Create, Created, CreateFails, CreateTemp, Write, Sync, Rename, SyncParent,
                SaveFails, Finish, Delete, AckInv, ReadersOnlyRead
  <2> QED
    BY <2>1 DEF OneWriter
<1>18. ASSUME NEW q \in Procs, Open(q) \/ Load(q) \/ Crash(q)
       PROVE  q = p \/ q \in Procs \ Writers
  BY DEF OneWriter
<1> QED
  BY <1>6, <1>7, <1>8, <1>9, <1>10, <1>11, <1>12, <1>13, <1>14, <1>15, <1>16, <1>17, <1>18
     DEF Next

\* Replacing the file never makes it older, whatever fails in between, as long
\* as one process at a time saves.
THEOREM AcknowledgedSavesAreKept ==
  ASSUME OneWriter
  PROVE  Spec => []AcknowledgedSavesLast
<1> DEFINE IInv == FileTypeOK /\ HoldsFile /\ SafeOnDisk /\ SafeInProcs /\ AckInv
<1>1. Init => IInv
  BY TypesInit, ProcsAssumption DEF Init, SafeOnDisk, SafeInProcs, AckInv, ReadersOnlyRead,
     AckedOnDisk, WriterIsCurrent
<1>2. IInv /\ [Next]_vars => IInv'
  BY OneWriter, TypesStep, SafeOnDiskStep, SafeInProcsStep, ReadersStep, AckedStep, WriterStep
     DEF AckInv
<1>3. IInv => AcknowledgedSavesLast
  BY DEF AckInv, AckedOnDisk, SafeOnDisk, AcknowledgedSavesLast
<1> QED
  BY <1>1, <1>2, <1>3, PTL DEF Spec

-------------------------------------------------------------------------------
(* Homes: which of them a command in progress may leave emptied. *)

Contents == {Absent, Unconfigured, Blank, Mixed} \cup Configs

HomeSteps ==
    {"idle", "new_looks", "new_writes", "pack_creates", "pack_commits", "unpack_creates",
     "unpack_truncates", "unpack_writes", "load_reads", "loaded"}

Unpacking == {"unpack_creates", "unpack_truncates", "unpack_writes"}

WorkTyped(w) ==
    /\ w \in [step : HomeSteps, path : HomePaths \cup {Nobody}, held : Contents]
    /\ w.step # "idle" => w.path \in HomePaths
    /\ w.step \in Unpacking => w.path \in Directories

HomesTyped ==
    /\ home \in [HomePaths -> Contents]
    /\ intent \in [HomePaths -> Contents]
    /\ work \in [HomeProcs -> {w \in [step : HomeSteps, path : HomePaths \cup {Nobody},
                                     held : Contents] : WorkTyped(w)}]

\* What creating or reading a home leaves.
LEMMA EnsureHomeKeepsTypes ==
  ASSUME HomesTyped, NEW path \in HomePaths, EnsureHome(path)
  PROVE  /\ home' \in [HomePaths -> Contents]
         /\ intent' \in [HomePaths -> Contents]
         /\ \A other \in HomePaths :
               \/ home'[other] = home[other] /\ intent'[other] = intent[other]
               \/ home'[other] = intent'[other]
<1>1. Unconfigured \in Contents
  BY DEF Contents
<1>2. CASE home[path] # Absent
  BY <1>2 DEF EnsureHome, HomesTyped
<1>3. CASE home[path] = Absent
  BY <1>1, <1>3 DEF EnsureHome, HomesTyped
<1> QED
  BY <1>2, <1>3

LEMMA LeaveKeepsTypes ==
  ASSUME HomesTyped, NEW path \in HomePaths, NEW content \in Contents, Leave(path, content)
  PROVE  /\ home' \in [HomePaths -> Contents]
         /\ intent' \in [HomePaths -> Contents]
         /\ home'[path] = intent'[path]
         /\ torn' = torn \ {path}
         /\ \A other \in HomePaths \ {path} :
               home'[other] = home[other] /\ intent'[other] = intent[other]
  BY DEF Leave, HomesTyped

\* One process moves on to other work.
LEMMA BeginsToKeepsTypes ==
  ASSUME HomesTyped, NEW p \in HomeProcs, NEW w, WorkTyped(w), BeginsTo(p, w)
  PROVE  /\ work' \in [HomeProcs -> {v \in [step : HomeSteps, path : HomePaths \cup {Nobody},
                                            held : Contents] : WorkTyped(v)}]
         /\ work'[p] = w
         /\ \A q \in HomeProcs \ {p} : work'[q] = work[q]
  BY DEF BeginsTo, HomesTyped, WorkTyped

LEMMA WorkingIsTyped ==
  ASSUME NEW step0 \in HomeSteps, NEW path \in HomePaths, NEW held \in Contents,
         step0 \in Unpacking => path \in Directories
  PROVE  WorkTyped(Working(step0, path, held))
  BY DEF Working, WorkTyped

LEMMA IdleIsTyped == WorkTyped(Idle)
<1>1. Absent \in Contents
  BY DEF Contents
<1>2. Idle.step = "idle" /\ "idle" \notin Unpacking
  BY DEF Idle, Unpacking
<1>3. Idle \in [step : HomeSteps, path : HomePaths \cup {Nobody}, held : Contents]
  BY <1>1 DEF Idle, HomeSteps
<1> QED
  BY <1>2, <1>3 DEF WorkTyped

\* A command goes on to its next step.
LEMMA NextStepIsTyped ==
  ASSUME HomesTyped, NEW p \in HomeProcs, ~Does(p, "idle"), NEW step0 \in HomeSteps,
         step0 \in Unpacking => work[p].path \in Directories
  PROVE  /\ WorkTyped([work[p] EXCEPT !.step = step0])
         /\ [work[p] EXCEPT !.step = step0].path = work[p].path
         /\ [work[p] EXCEPT !.step = step0].step = step0
  BY DEF HomesTyped, WorkTyped, Does

\* The work of a process, as it is typed.
LEMMA WorkIsTyped ==
  ASSUME HomesTyped, NEW p \in HomeProcs
  PROVE  /\ WorkTyped(work[p])
         /\ work[p].held \in Contents
         /\ ~Does(p, "idle") => work[p].path \in HomePaths
         /\ work[p].step \in Unpacking => work[p].path \in Directories
  BY DEF HomesTyped, WorkTyped, Does

LEMMA HomesInitTyped == HomesInit => HomesTyped /\ HomesAreWhole
<1> SUFFICES ASSUME HomesInit
             PROVE  HomesTyped /\ HomesAreWhole
  OBVIOUS
<1>1. Absent \in Contents
  BY DEF Contents
<1>2. HomesTyped
  BY <1>1, IdleIsTyped DEF HomesInit, HomesTyped, WorkTyped
<1>3. HomesAreWhole
  BY DEF HomesInit, HomesAreWhole
<1> QED
  BY <1>2, <1>3

\* A directory that a step leaves as it is, with whoever empties it still at
\* it, is as whole as before.
WholeAt(path) ==
    home[path] # intent[path] =>
        /\ path \in Directories /\ home[path] \in {Blank, Mixed}
        /\ path \in torn \/ \E p \in HomeProcs : WrittenBy(p, path)

\* A step of a process that is not writing into a directory: it creates the
\* home there, or leaves everything as it is.
LEMMA EnsuringStep ==
  ASSUME HomesTyped, HomesAreWhole,
         NEW p \in HomeProcs, NEW path \in HomePaths, NEW w,
         ~Does(p, "unpack_writes"), WorkTyped(w), BeginsTo(p, w),
         EnsureHome(path) \/ UNCHANGED <<home, intent>>, UNCHANGED torn
  PROVE  HomesTyped' /\ HomesAreWhole'
<1>1. /\ work' \in [HomeProcs -> {v \in [step : HomeSteps, path : HomePaths \cup {Nobody},
                                         held : Contents] : WorkTyped(v)}]
      /\ work'[p] = w
      /\ \A q \in HomeProcs \ {p} : work'[q] = work[q]
  BY BeginsToKeepsTypes
<1>2. /\ home' \in [HomePaths -> Contents]
      /\ intent' \in [HomePaths -> Contents]
      /\ \A other \in HomePaths :
            \/ home'[other] = home[other] /\ intent'[other] = intent[other]
            \/ home'[other] = intent'[other]
  BY EnsureHomeKeepsTypes DEF HomesTyped
<1>3. HomesTyped'
  BY <1>1, <1>2 DEF HomesTyped, WorkTyped
<1>4. ASSUME NEW other \in HomePaths PROVE WholeAt(other)'
  <2>1. WholeAt(other)
    BY DEF HomesAreWhole, WholeAt
  <2>2. \A q \in HomeProcs : WrittenBy(q, other) => WrittenBy(q, other)'
    BY <1>1 DEF WrittenBy, Does
  <2> QED
    BY <1>2, <2>1, <2>2 DEF WholeAt
<1> QED
  BY <1>3, <1>4 DEF HomesAreWhole, WholeAt

\* A step that leaves a home as the command was to leave it.
LEMMA LeavingStep ==
  ASSUME HomesTyped, HomesAreWhole,
         NEW path \in HomePaths, NEW content \in Contents, Leave(path, content),
         \/ UNCHANGED work
         \/ \E p \in HomeProcs : work[p].path = path /\ BeginsTo(p, Idle)
  PROVE  HomesTyped' /\ HomesAreWhole'
<1>1. /\ home' \in [HomePaths -> Contents]
      /\ intent' \in [HomePaths -> Contents]
      /\ home'[path] = intent'[path]
      /\ torn' = torn \ {path}
      /\ \A other \in HomePaths \ {path} :
            home'[other] = home[other] /\ intent'[other] = intent[other]
  BY LeaveKeepsTypes
<1>2. /\ work' \in [HomeProcs -> {v \in [step : HomeSteps, path : HomePaths \cup {Nobody},
                                         held : Contents] : WorkTyped(v)}]
      /\ \A q \in HomeProcs : work'[q] = work[q] \/ work[q].path = path
  <2>1. CASE UNCHANGED work
    BY <2>1 DEF HomesTyped
  <2>2. ASSUME NEW p \in HomeProcs, work[p].path = path, BeginsTo(p, Idle)
        PROVE  <1>2
    BY <2>2, BeginsToKeepsTypes, IdleIsTyped
  <2> QED
    BY <2>1, <2>2
<1>3. HomesTyped'
  BY <1>1, <1>2 DEF HomesTyped, WorkTyped
<1>4. ASSUME NEW other \in HomePaths PROVE WholeAt(other)'
  <2>1. WholeAt(other)
    BY DEF HomesAreWhole, WholeAt
  <2>2. other # path =>
           \A q \in HomeProcs : WrittenBy(q, other) => WrittenBy(q, other)'
    BY <1>2 DEF WrittenBy, Does
  <2> QED
    BY <1>1, <2>1, <2>2 DEF WholeAt
<1> QED
  BY <1>3, <1>4 DEF HomesAreWhole, WholeAt

LEMMA HomesStep ==
  HomesTyped /\ HomesAreWhole /\ [HomesNext]_homeVars => HomesTyped' /\ HomesAreWhole'
<1> SUFFICES ASSUME HomesTyped, HomesAreWhole, [HomesNext]_homeVars
             PROVE  HomesTyped' /\ HomesAreWhole'
  OBVIOUS
<1>1. /\ Absent \in Contents /\ Unconfigured \in Contents /\ Blank \in Contents
      /\ Mixed \in Contents /\ Configs \subseteq Contents
  BY DEF Contents
<1>2. Directories \subseteq HomePaths /\ PackedFiles \subseteq HomePaths
  BY DEF HomePaths
<1>3. ASSUME NEW p \in HomeProcs, NEW path \in Directories, NewMakesDirectory(p, path)
      PROVE  HomesTyped' /\ HomesAreWhole'
  <2>1. "new_looks" \in HomeSteps /\ "new_looks" \notin Unpacking
    BY DEF HomeSteps, Unpacking
  <2>2. WorkTyped(Working("new_looks", path, Absent))
    BY <1>1, <1>2, <2>1, WorkingIsTyped
  <2> QED
    BY <1>2, <1>3, <2>2, EnsuringStep DEF NewMakesDirectory, Does
<1>4. ASSUME NEW p \in HomeProcs, NewLooks(p)
      PROVE  HomesTyped' /\ HomesAreWhole'
  <2>1. work[p].path \in HomePaths /\ ~Does(p, "idle") /\ ~Does(p, "unpack_writes")
    BY <1>4, WorkIsTyped DEF NewLooks, Does
  <2>2. "new_writes" \in HomeSteps /\ "new_writes" \notin Unpacking
    BY DEF HomeSteps, Unpacking
  <2>3. WorkTyped([work[p] EXCEPT !.step = "new_writes"])
    BY <2>1, <2>2, NextStepIsTyped
  <2>4. \E w : WorkTyped(w) /\ BeginsTo(p, w)
    BY <1>4, <2>3, IdleIsTyped DEF NewLooks
  <2> QED
    BY <1>4, <2>1, <2>4, EnsuringStep DEF NewLooks
<1>5. ASSUME NEW p \in HomeProcs, NewWrites(p)
      PROVE  HomesTyped' /\ HomesAreWhole'
  BY <1>1, <1>5, WorkIsTyped, LeavingStep DEF NewWrites, Does
<1>6. ASSUME NEW p \in HomeProcs, NEW path \in Directories, NEW packed \in PackedFiles,
             PackReads(p, path, packed)
      PROVE  HomesTyped' /\ HomesAreWhole'
  <2>1. "pack_creates" \in HomeSteps /\ "pack_creates" \notin Unpacking
    BY DEF HomeSteps, Unpacking
  <2>2. home[path] \in Contents
    BY <1>2 DEF HomesTyped
  <2>3. WorkTyped(Working("pack_creates", packed, Entries(path)))
    BY <1>2, <2>1, <2>2, WorkingIsTyped DEF Entries
  <2> QED
    BY <1>2, <1>6, <2>3, EnsuringStep DEF PackReads, Does
<1>7. ASSUME NEW p \in HomeProcs, PackCreates(p)
      PROVE  HomesTyped' /\ HomesAreWhole'
  <2>1. work[p].path \in HomePaths /\ ~Does(p, "idle") /\ ~Does(p, "unpack_writes")
    BY <1>7, WorkIsTyped DEF PackCreates, Does
  <2>2. "pack_commits" \in HomeSteps /\ "pack_commits" \notin Unpacking
    BY DEF HomeSteps, Unpacking
  <2>3. WorkTyped([work[p] EXCEPT !.step = "pack_commits"])
    BY <2>1, <2>2, NextStepIsTyped
  <2> QED
    BY <1>7, <2>1, <2>3, EnsuringStep DEF PackCreates
<1>8. ASSUME NEW p \in HomeProcs, PackCommits(p)
      PROVE  HomesTyped' /\ HomesAreWhole'
  BY <1>1, <1>8, WorkIsTyped, LeavingStep DEF PackCommits, Does
<1>9. ASSUME NEW p \in HomeProcs, NEW path \in Directories, NEW packed \in PackedFiles,
             UnpackReads(p, packed, path)
      PROVE  HomesTyped' /\ HomesAreWhole'
  <2>1. "unpack_creates" \in HomeSteps
    BY DEF HomeSteps
  <2>2. home[packed] \in Contents
    BY <1>2 DEF HomesTyped
  <2>3. WorkTyped(Working("unpack_creates", path, home[packed]))
    BY <1>2, <2>1, <2>2, WorkingIsTyped
  <2> QED
    BY <1>2, <1>9, <2>3, EnsuringStep DEF UnpackReads, Does
<1>10. ASSUME NEW p \in HomeProcs, UnpackCreates(p)
       PROVE  HomesTyped' /\ HomesAreWhole'
  <2>1. /\ work[p].path \in HomePaths /\ ~Does(p, "idle") /\ ~Does(p, "unpack_writes")
        /\ work[p].path \in Directories
    BY <1>10, WorkIsTyped DEF UnpackCreates, Does, Unpacking
  <2>2. "unpack_truncates" \in HomeSteps
    BY DEF HomeSteps
  <2>3. WorkTyped([work[p] EXCEPT !.step = "unpack_truncates"])
    BY <2>1, <2>2, NextStepIsTyped
  <2>4. \E w : WorkTyped(w) /\ BeginsTo(p, w)
    BY <1>10, <2>3, IdleIsTyped DEF UnpackCreates
  <2> QED
    BY <1>10, <2>1, <2>4, EnsuringStep DEF UnpackCreates
<1>11. ASSUME NEW p \in HomeProcs, UnpackTruncates(p)
       PROVE  HomesTyped' /\ HomesAreWhole'
  <2>1. /\ work[p].path \in HomePaths /\ ~Does(p, "idle") /\ ~Does(p, "unpack_writes")
        /\ work[p].path \in Directories
    BY <1>11, WorkIsTyped DEF UnpackTruncates, Does, Unpacking
  <2>2. "unpack_writes" \in HomeSteps
    BY DEF HomeSteps
  <2> DEFINE w == [work[p] EXCEPT !.step = "unpack_writes"]
  <2>3. WorkTyped(w) /\ w.path = work[p].path /\ w.step = "unpack_writes"
    BY <2>1, <2>2, NextStepIsTyped
  <2>4. BeginsTo(p, w)
    BY <1>11 DEF UnpackTruncates
  <2> HIDE DEF w
  <2>5. /\ work' \in [HomeProcs -> {v \in [step : HomeSteps, path : HomePaths \cup {Nobody},
                                           held : Contents] : WorkTyped(v)}]
        /\ work'[p] = w
        /\ \A q \in HomeProcs \ {p} : work'[q] = work[q]
    BY <2>3, <2>4, BeginsToKeepsTypes
  <2>6. /\ home' \in [HomePaths -> Contents]
        /\ home'[work[p].path] = Blank
        /\ \A other \in HomePaths \ {work[p].path} : home'[other] = home[other]
        /\ UNCHANGED <<intent, torn>>
    BY <1>1, <1>11, <2>1 DEF UnpackTruncates, HomesTyped
  <2>7. HomesTyped'
    BY <2>5, <2>6 DEF HomesTyped, WorkTyped
  <2>8. ASSUME NEW other \in HomePaths PROVE WholeAt(other)'
    <3>1. CASE other = work[p].path
      BY <2>1, <2>3, <2>5, <2>6, <3>1 DEF WholeAt, WrittenBy, Does
    <3>2. CASE other # work[p].path
      <4>1. WholeAt(other)
        BY DEF HomesAreWhole, WholeAt
      <4>2. \A q \in HomeProcs : WrittenBy(q, other) => WrittenBy(q, other)'
        BY <2>5, <3>2 DEF WrittenBy, Does
      <4> QED
        BY <2>6, <3>2, <4>1, <4>2 DEF WholeAt
    <3> QED
      BY <3>1, <3>2
  <2> QED
    BY <2>7, <2>8 DEF HomesAreWhole, WholeAt
<1>12. ASSUME NEW p \in HomeProcs, UnpackWrites(p)
       PROVE  HomesTyped' /\ HomesAreWhole'
  BY <1>1, <1>12, WorkIsTyped, LeavingStep DEF UnpackWrites, Does
<1>13. ASSUME NEW p \in HomeProcs, UnpackWritesOver(p)
       PROVE  HomesTyped' /\ HomesAreWhole'
  <2>1. work[p].path \in HomePaths /\ work[p].path \in Directories /\ work[p].held \in Contents
    BY <1>13, WorkIsTyped DEF UnpackWritesOver, Does, Unpacking
  <2>2. /\ work' \in [HomeProcs -> {v \in [step : HomeSteps, path : HomePaths \cup {Nobody},
                                           held : Contents] : WorkTyped(v)}]
        /\ \A q \in HomeProcs \ {p} : work'[q] = work[q]
    BY <1>13, IdleIsTyped, BeginsToKeepsTypes DEF UnpackWritesOver
  <2>3. /\ home' \in [HomePaths -> Contents]
        /\ intent' \in [HomePaths -> Contents]
        /\ home'[work[p].path] = Mixed
        /\ \A other \in HomePaths \ {work[p].path} :
              home'[other] = home[other] /\ intent'[other] = intent[other]
        /\ torn' = torn \cup {work[p].path}
    BY <1>1, <1>13, <2>1 DEF UnpackWritesOver, HomesTyped
  <2>4. HomesTyped'
    BY <2>2, <2>3 DEF HomesTyped, WorkTyped
  <2>5. ASSUME NEW other \in HomePaths PROVE WholeAt(other)'
    <3>1. CASE other = work[p].path
      BY <2>1, <2>3, <3>1 DEF WholeAt
    <3>2. CASE other # work[p].path
      <4>1. WholeAt(other)
        BY DEF HomesAreWhole, WholeAt
      <4>2. \A q \in HomeProcs : WrittenBy(q, other) => WrittenBy(q, other)'
        BY <2>2, <3>2 DEF WrittenBy, Does
      <4> QED
        BY <2>3, <3>2, <4>1, <4>2 DEF WholeAt
    <3> QED
      BY <3>1, <3>2
  <2> QED
    BY <2>4, <2>5 DEF HomesAreWhole, WholeAt
<1>14. ASSUME NEW p \in HomeProcs, NEW spec \in HomePaths \cup {Nobody}, LoadHome(p, spec)
       PROVE  HomesTyped' /\ HomesAreWhole'
  <2>1. LoadedHome(spec) \in HomePaths
    BY <1>2, <1>14, HomesAssumption DEF LoadHome, LoadedHome, Detected, IsDir, LooksLikeSqlite
  <2>2. "load_reads" \in HomeSteps /\ "load_reads" \notin Unpacking
    BY DEF HomeSteps, Unpacking
  <2>3. WorkTyped(Working("load_reads", LoadedHome(spec), Absent))
    BY <1>1, <2>1, <2>2, WorkingIsTyped
  <2> QED
    BY <1>14, <2>1, <2>3, EnsuringStep DEF LoadHome, Does
<1>15. ASSUME NEW p \in HomeProcs, LoadReads(p)
       PROVE  HomesTyped' /\ HomesAreWhole'
  <2>1. work[p].path \in HomePaths /\ ~Does(p, "unpack_writes")
    BY <1>15, WorkIsTyped DEF LoadReads, Does
  <2>2. "loaded" \in HomeSteps /\ "loaded" \notin Unpacking
    BY DEF HomeSteps, Unpacking
  <2>3. ReadFile(work[p].path) \in Contents
    BY <1>1, <2>1 DEF ReadFile, HomesTyped
  <2>4. WorkTyped(Working("loaded", work[p].path, ReadFile(work[p].path)))
    BY <2>1, <2>2, <2>3, WorkingIsTyped
  <2> QED
    BY <1>15, <2>1, <2>4, EnsuringStep DEF LoadReads
<1>16. ASSUME NEW p \in HomeProcs, LoadDone(p)
       PROVE  HomesTyped' /\ HomesAreWhole'
  <2>1. work[p].path \in HomePaths /\ ~Does(p, "unpack_writes")
    BY <1>16, WorkIsTyped DEF LoadDone, Does
  <2> QED
    BY <1>16, <2>1, IdleIsTyped, EnsuringStep DEF LoadDone
<1>17. ASSUME NEW p \in HomeProcs, HomeProcDies(p)
       PROVE  HomesTyped' /\ HomesAreWhole'
  <2>1. /\ work' \in [HomeProcs -> {v \in [step : HomeSteps, path : HomePaths \cup {Nobody},
                                           held : Contents] : WorkTyped(v)}]
        /\ \A q \in HomeProcs \ {p} : work'[q] = work[q]
    BY <1>17, IdleIsTyped, BeginsToKeepsTypes DEF HomeProcDies
  <2>2. /\ torn \subseteq torn' /\ UNCHANGED <<home, intent>>
        /\ \A path \in HomePaths : WrittenBy(p, path) => path \in torn'
    BY <1>17 DEF HomeProcDies, WrittenBy
  <2>3. HomesTyped'
    BY <2>1, <2>2 DEF HomesTyped, WorkTyped
  <2>4. ASSUME NEW other \in HomePaths PROVE WholeAt(other)'
    <3>1. WholeAt(other)
      BY DEF HomesAreWhole, WholeAt
    <3>2. \A q \in HomeProcs \ {p} : WrittenBy(q, other) => WrittenBy(q, other)'
      BY <2>1 DEF WrittenBy, Does
    <3> QED
      BY <2>2, <3>1, <3>2 DEF WholeAt
  <2> QED
    BY <2>3, <2>4 DEF HomesAreWhole, WholeAt
<1>18. ASSUME NEW path \in Directories, NEW config \in Configs, Edit(path, config)
       PROVE  HomesTyped' /\ HomesAreWhole'
  BY <1>1, <1>2, <1>18, LeavingStep DEF Edit
<1>19. CASE UNCHANGED homeVars
  BY <1>19 DEF homeVars, HomesTyped, HomesAreWhole, WorkTyped, WrittenBy, Does
<1> QED
  BY <1>3, <1>4, <1>5, <1>6, <1>7, <1>8, <1>9, <1>10, <1>11, <1>12, <1>13, <1>14, <1>15,
     <1>16, <1>17, <1>18, <1>19 DEF HomesNext

\* A home holds what the last command or edit there was to leave, however many
\* processes create, pack, unpack and load homes side by side and die at any
\* point; the exception is a directory that is being unpacked into, or where
\* that was cut off.  A packed home is never less than whole.
THEOREM HomesStayWhole == HomesSpec => []HomesAreWhole
<1>1. HomesInit => HomesTyped /\ HomesAreWhole
  BY HomesInitTyped
<1>2. HomesTyped /\ HomesAreWhole /\ [HomesNext]_homeVars => HomesTyped' /\ HomesAreWhole'
  BY HomesStep
<1> QED
  BY <1>1, <1>2, PTL DEF HomesSpec

-------------------------------------------------------------------------------
(* Requests: nothing is answered before there is a process, and a process that *)
(* got an answer has nothing but its own request to wait with, send or repeat. *)

SetupInv ==
    /\ answers \in Nat
    /\ process = None => answers = 0
    /\ process # None /\ answers > 0 /\ step \in {"request", "failed"} => call = OwnCall

LEMMA SetupInitially == SetupInit => SetupInv
  BY DEF SetupInit, SetupInv

\* What a process would ask is settled when it is constructed.
LEMMA OwnCallStays ==
  ASSUME UNCHANGED process
  PROVE  OwnCall' = OwnCall
  BY DEF OwnCall, FromParts

LEMMA SetupStep == SetupInv /\ [SetupNext]_setupVars => SetupInv'
<1> SUFFICES ASSUME SetupInv, [SetupNext]_setupVars
             PROVE  SetupInv'
  OBVIOUS
<1>1. ASSUME Answered PROVE answers' \in Nat
  BY <1>1 DEF Answered, SetupInv
<1>2. CASE SessionCommand
  BY <1>2 DEF SessionCommand, SetupInv
<1>3. CASE Start
  BY <1>3 DEF Start, SetupInv
<1>4. CASE ProcessExits
  BY <1>4 DEF ProcessExits, SetupInv
<1>5. CASE AnswerComes
  BY <1>1, <1>5 DEF AnswerComes, Sends, SetupInv
<1>6. CASE AnswerContinues
  BY <1>1, <1>6, OwnCallStays DEF AnswerContinues, Sends, SetupInv
<1>7. CASE RequestFails
  BY <1>7, OwnCallStays DEF RequestFails, Sends, SetupInv
<1>8. CASE RollsBack
  BY <1>8, OwnCallStays DEF RollsBack, SetupInv
<1>9. CASE Retries
  BY <1>9, OwnCallStays DEF Retries, SetupInv
<1>10. CASE TurnGoesOn
  BY <1>10, OwnCallStays DEF TurnGoesOn, SetupInv
<1>11. CASE UNCHANGED setupVars
  BY <1>11, OwnCallStays DEF setupVars, SetupInv
<1> QED
  BY <1>2, <1>3, <1>4, <1>5, <1>6, <1>7, <1>8, <1>9, <1>10, <1>11 DEF SetupNext

\* From its first answer on a process asks by its own configuration, also when
\* it repeats what failed, whatever request it took over from the session and
\* whatever the processes before it were configured with.
THEOREM ProcessesAskTheirOwn == SetupSpec => []AnswersRefreshRequests
<1>1. SetupInv => AnswersRefreshRequests
  BY DEF SetupInv, AnswersRefreshRequests
<1> QED
  BY <1>1, SetupInitially, SetupStep, PTL DEF SetupSpec
===============================================================================
