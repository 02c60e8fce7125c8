----------------------------- MODULE DurableProofs -----------------------------
(***************************************************************************)
(* Proofs about OwnerStorage and StaticPublication.                        *)
(*                                                                         *)
(* OwnerStorage: the type invariant, that a load never goes back behind an *)
(* explicit save, and that nothing vanishes but what was deleted, or was   *)
(* superseded and has no checkpoint, or none that can be read.  The last   *)
(* one rests on what an operation carries between its effects: while it    *)
(* cleans up, the files it still has to delete are among those the marker  *)
(* announces; and a backup is kept of a checkpoint only.                   *)
(*                                                                         *)
(* StaticPublication: that an open site serves what is approved is not     *)
(* inductive: it rests on what a publisher's checks leave behind.  From    *)
(* the end of quiescence to the end of resume (Deep) nobody else can       *)
(* switch automation or the feed workflow on, nothing is in flight, and    *)
(* the operator's machine, which takes no lease, runs only while the lease *)
(* is free and no feed run waits for it.  A feed run holds the lease from  *)
(* its first look at the site to its upload.                               *)
(***************************************************************************)
EXTENDS OwnerStorage, StaticPublication, TLAPS

(* --- the owner's files ------------------------------------------------- *)

\* A backup is the checkpoint that was replaced.
Files == {fs \in [FileNames -> Revisions \cup {Missing, Corrupt}] :
            fs["checkpoint"] = Missing => fs["backup"] = Missing}
MarkerFiles == Marker \cup {None, Corrupt}
Writes == [name : {"autosave"}, project : Projects, next : {"index", "marker"}, setOpened : BOOLEAN]
Saves == [name : {"save"}, project : Projects, next : {"index", "marker"}]
Cleanups == [name : {"autosave", "save", "list"}, next : {"cleanup"}, todo : SUBSET Projects,
             remaining : SUBSET Projects]
Deletions == [name : {"delete"}, project : Projects, next : {"files"}, restore : MarkerFiles]

IndexOK == index = Corrupt \/ index \subseteq Projects

OpOK == op \in {Idle} \cup Writes \cup Saves \cup Cleanups \cup Deletions

\* What is still to be cleaned is what the marker announces.
Announced == op \in Cleanups /\ op.todo # {} => marker \in Marker /\ op.todo \subseteq marker.pending

FilesInv ==
  /\ files \in [Projects -> Files] /\ IndexOK /\ marker \in MarkerFiles
  /\ known \subseteq Projects /\ top \in [Projects -> Revisions]
  /\ OpOK /\ Announced

\* What the assumption says of revisions.
LEMMA RevisionBounds == /\ MaxRevision \in Nat /\ None \notin Projects /\ None # Corrupt
                /\ None \notin Revisions /\ Corrupt \notin Revisions /\ 0 \in Revisions
<1>1. MaxRevision \in Nat /\ None \notin Projects /\ None # Corrupt
    BY StorageAssumption DEF StorageAssumption
<1>2. None \notin Revisions /\ Corrupt \notin Revisions
    BY StorageAssumption DEF StorageAssumption, Revisions
<1>3. 0 \in Revisions
    BY <1>1 DEF Revisions
<1> QED BY <1>1, <1>2, <1>3

\* A migrated marker announces what the marker announced, or nothing.
LEMMA MigratedMarker ==
  ASSUME NEW m \in Marker
  PROVE  /\ Migrated(m) \in Marker
         /\ Migrated(m).pending \subseteq Projects
BY DEF Migrated, Marker, NewMarker

LEMMA ReadMarkerType == FilesInv => ReadMarker \in MarkerFiles
BY MigratedMarker DEF FilesInv, ReadMarker, MarkerFiles

\* A readable index, or a scan, names Projects only.
LEMMA KnownIndexType == FilesInv => KnownIndex \subseteq Projects
BY DEF FilesInv, IndexOK, KnownIndex, Scan

\* No files, or a draft only.
LEMMA NoFilesType ==
  /\ NoFiles \in Files
  /\ \A copy \in Revisions : [NoFiles EXCEPT !.autosave = copy] \in Files
<1>1. NoFiles = [name \in FileNames |-> Missing]
    BY DEF NoFiles, FileNames
<1> QED BY <1>1, RevisionBounds DEF Files, FileNames, Missing

\* The invariant holds in the first states.
LEMMA FilesInit == StorageInit => FilesInv
<1> SUFFICES ASSUME StorageInit PROVE FilesInv
    OBVIOUS
<1> USE RevisionBounds DEF StorageInit
<1>1. NoFiles \in Files /\ [NoFiles EXCEPT !.autosave = 0] \in Files
    BY NoFilesType
<1>2. files \in [Projects -> Files]
    BY <1>1
<1>3. marker \in MarkerFiles
    BY DEF MarkerFiles, Marker, NewMarker
<1>4. op = Idle /\ Idle \notin Cleanups
    BY DEF Idle, Cleanups
<1>5. IndexOK /\ known \subseteq Projects /\ top \in [Projects -> Revisions]
    BY DEF IndexOK
<1> QED BY <1>2, <1>3, <1>4, <1>5 DEF FilesInv, OpOK, Announced

\* The invariant implies the type invariant that the runs check.
LEMMA FilesTypes == FilesInv => StorageTypeOK
<1> SUFFICES ASSUME FilesInv PROVE StorageTypeOK
    OBVIOUS
<1>1. op.name \in {"idle", "autosave", "save", "list", "delete"}
    BY DEF FilesInv, OpOK, Idle, Writes, Saves, Cleanups, Deletions
<1> QED BY <1>1 DEF FilesInv, StorageTypeOK, IndexOK, Files, MarkerFiles

\* A load prefers the checkpoint to an older draft, whatever is unreadable.
LEMMA LoadNeverShadows ==
  ASSUME FilesInv, NEW p \in Projects, Readable(files[p].checkpoint), Loaded(p) # Corrupt
  PROVE  Loaded(p) >= files[p].checkpoint
<1>1. files[p].checkpoint \in Revisions /\ (Readable(files[p].autosave) => files[p].autosave \in Revisions)
    BY DEF FilesInv, Files, FileNames, Readable
<1>2. files[p].checkpoint \in Nat /\ (Readable(files[p].autosave) => files[p].autosave \in Nat)
    BY <1>1 DEF Revisions
<1>3. Checkpoint(p) = files[p].checkpoint /\ Checkpoint(p) # Corrupt /\ Readable(Checkpoint(p))
    BY DEF Checkpoint, Readable
<1>4. CASE Readable(files[p].autosave)
    <2>1. Loaded(p) = IF files[p].checkpoint > files[p].autosave THEN files[p].checkpoint
                                                                 ELSE files[p].autosave
        BY <1>3, <1>4 DEF Loaded
    <2> QED BY <1>2, <1>4, <2>1
<1>5. CASE ~Readable(files[p].autosave)
    <2>1. Loaded(p) = files[p].checkpoint
        BY <1>3, <1>5 DEF Loaded
    <2> QED BY <1>2, <2>1
<1> QED BY <1>4, <1>5

-----------------------------------------------------------------------------
(* The steps.                                                              *)

\* The end of an operation.
LEMMA Ends ==
  ASSUME FilesInv, op' = Idle, files' \in [Projects -> Files], IndexOK', marker' \in MarkerFiles,
         UNCHANGED <<known, top>>
  PROVE  FilesInv'
<1>1. op' \notin Cleanups
    BY DEF Idle, Cleanups
<1> QED BY <1>1 DEF FilesInv, OpOK, Announced

\* Files of one Project are replaced.
LEMMA FileWritten ==
  ASSUME NEW fs \in [Projects -> Files], NEW p \in Projects, NEW name \in FileNames,
         NEW copy \in Revisions \cup {Missing, Corrupt},
         name = "checkpoint" => copy # Missing,
         name = "backup" /\ copy # Missing => fs[p]["checkpoint"] # Missing
  PROVE  [fs EXCEPT ![p][name] = copy] \in [Projects -> Files]
<1>1. fs[p] \in [FileNames -> Revisions \cup {Missing, Corrupt}]
      /\ (fs[p]["checkpoint"] = Missing => fs[p]["backup"] = Missing)
    BY DEF Files
<1>2. PICK one : one = [fs[p] EXCEPT ![name] = copy]
    OBVIOUS
<1>3. one \in [FileNames -> Revisions \cup {Missing, Corrupt}]
    BY <1>1, <1>2
<1>4. one["checkpoint"] = Missing => one["backup"] = Missing
    BY <1>1, <1>2 DEF FileNames
<1>5. one \in Files
    BY <1>3, <1>4 DEF Files
<1>6. [fs EXCEPT ![p] = one] \in [Projects -> Files]
    BY <1>5
<1> QED BY <1>2, <1>6

\* A deletion leaves no file of a Project.
LEMMA FilesDeleted ==
  ASSUME NEW fs \in [Projects -> Files], NEW p
  PROVE  [fs EXCEPT ![p] = NoFiles] \in [Projects -> Files]
BY NoFilesType

\* A draft is written first, its index entry next.
LEMMA AutosaveKeeps ==
  ASSUME FilesInv, NEW p \in Projects, NEW rev \in Revisions, NEW setOpened \in BOOLEAN,
         Autosave(p, rev, setOpened)
  PROVE  FilesInv'
<1>1. files' = [files EXCEPT ![p]["autosave"] = rev]
    BY DEF Autosave
<1>2. files' \in [Projects -> Files]
    BY <1>1, FileWritten DEF FilesInv, FileNames
<1>3. op' \in Writes /\ op' \notin Cleanups
    BY DEF Autosave, Writes, Cleanups
<1> QED BY <1>2, <1>3 DEF Autosave, FilesInv, OpOK, Announced, IndexOK

\* A save keeps the checkpoint it replaces as the backup.
LEMMA SaveKeeps ==
  ASSUME FilesInv, NEW p \in Projects, NEW rev \in Revisions, Save(p, rev)
  PROVE  FilesInv'
<1> DEFINE backup == IF files[p].checkpoint = Missing THEN files[p].backup ELSE files[p].checkpoint
<1>0. files[p] \in Files /\ files \in [Projects -> Files]
    BY DEF FilesInv
<1>1. backup \in Revisions \cup {Missing, Corrupt}
    BY <1>0 DEF Files, FileNames
<1>2. rev + 1 \in Revisions
    BY RevisionBounds DEF Save, Revisions
<1>3. PICK fs : fs = [files EXCEPT ![p]["checkpoint"] = rev + 1]
    OBVIOUS
<1>4. files' \in [Projects -> Files]
    <2>1. rev + 1 # Missing
        BY <1>2, RevisionBounds DEF Missing
    <2>2. fs \in [Projects -> Files]
        BY <1>0, <1>2, <1>3, <2>1, FileWritten DEF FileNames
    <2>3. fs[p]["checkpoint"] # Missing
        BY <1>0, <1>3, <2>1 DEF Files, FileNames
    <2>4. files' = [fs EXCEPT ![p]["backup"] = backup]
        BY <1>0, <1>3 DEF Save, Files, FileNames
    <2> HIDE DEF backup
    <2> QED BY <1>1, <2>2, <2>3, <2>4, FileWritten DEF FileNames
<1>5. top' \in [Projects -> Revisions]
    BY <1>2 DEF Save, FilesInv
<1>6. op' \in Saves /\ op' \notin Cleanups
    BY DEF Save, Saves, Cleanups
<1> QED BY <1>4, <1>5, <1>6 DEF Save, FilesInv, OpOK, Announced, IndexOK

\* The index names the Project an operation has written.
LEMMA UpdateIndexKeeps == ASSUME FilesInv, UpdateIndex PROVE FilesInv'
<1>1. op \in Writes \/ op \in Saves
    BY DEF UpdateIndex, FilesInv, OpOK, Idle, Writes, Saves, Cleanups, Deletions
<1>2. op' \in Writes \cup Saves /\ op.project \in Projects
    BY <1>1 DEF UpdateIndex, Writes, Saves
<1>3. op' \notin Cleanups
    BY <1>2 DEF Writes, Saves, Cleanups
<1>4. IndexOK'
    BY <1>2, KnownIndexType DEF UpdateIndex, IndexOK
<1> QED BY <1>2, <1>3, <1>4 DEF UpdateIndex, FilesInv, OpOK, Announced

\* What a cleanup starts with.
LEMMA CleaningType ==
  ASSUME NEW name \in {"autosave", "save", "list"}, NEW pending \in SUBSET Projects
  PROVE  Cleaning(name, pending) \in Cleanups /\ Cleaning(name, pending).todo = pending
BY DEF Cleaning, Cleanups

\* An operation that goes over to cleaning up what its marker announces.
LEMMA StartsCleaning ==
  ASSUME FilesInv, NEW name \in {"autosave", "save", "list"}, NEW pending \in SUBSET Projects,
         op' = Cleaning(name, pending),
         marker' \in MarkerFiles, pending # {} => marker' \in Marker /\ pending \subseteq marker'.pending,
         UNCHANGED <<files, index, known, top>>
  PROVE  FilesInv'
BY CleaningType DEF FilesInv, OpOK, Announced, IndexOK

\* A draft's marker: the superseded one is announced for deletion.
LEMMA AutosaveMarkerKeeps == ASSUME FilesInv, AutosaveMarker PROVE FilesInv'
<1> DEFINE read == IF ReadMarker = None \/ (ReadMarker = Corrupt /\ op.setOpened)
                   THEN NewMarker ELSE ReadMarker
           done == Committed(read, op.project, op.setOpened)
<1>1. op \in Writes
    BY DEF AutosaveMarker, FilesInv, OpOK, Idle, Writes, Saves, Cleanups, Deletions
<1>2. op.project \in Projects
    BY <1>1 DEF Writes
<1>3. read \in MarkerFiles /\ (read # Corrupt => read \in Marker)
    BY ReadMarkerType DEF MarkerFiles, Marker, NewMarker
<1>4. UNCHANGED <<files, index, known, top>>
    BY DEF AutosaveMarker
<1>5. CASE op' = Idle /\ marker' \in {marker, None, read}
    BY <1>3, <1>4, <1>5, Ends DEF FilesInv, MarkerFiles, IndexOK
<1>6. CASE read # Corrupt /\ marker' = done /\ op' = Cleaning("autosave", marker'.pending)
    <2>1. done \in Marker
        BY <1>2, <1>3, <1>6 DEF Committed, Marker
    <2> HIDE DEF done
    <2>2. marker'.pending \in SUBSET Projects
        BY <1>6, <2>1 DEF Marker
    <2> QED BY <1>4, <1>6, <2>1, <2>2, StartsCleaning DEF MarkerFiles
<1> QED BY <1>5, <1>6 DEF AutosaveMarker

\* A save's marker: the saved Project is no draft any more.
LEMMA SaveMarkerKeeps == ASSUME FilesInv, SaveMarker PROVE FilesInv'
<1>1. UNCHANGED <<files, index, known, top>>
    BY DEF SaveMarker
<1>2. CASE ReadMarker \in {None, Corrupt}
    BY <1>1, <1>2, Ends DEF SaveMarker, FilesInv, IndexOK
<1>3. CASE ReadMarker \notin {None, Corrupt}
    <2>1. ReadMarker \in Marker
        BY <1>3, ReadMarkerType DEF MarkerFiles
    <2>2. marker' \in Marker /\ marker'.pending = ReadMarker.pending /\ ReadMarker.pending \in SUBSET Projects
        BY <1>3, <2>1 DEF SaveMarker, Marker
    <2>3. op' = Cleaning("save", ReadMarker.pending)
        BY <1>3 DEF SaveMarker
    <2> QED BY <1>1, <2>2, <2>3, StartsCleaning DEF MarkerFiles
<1> QED BY <1>2, <1>3

\* A listing first cleans what is announced.
LEMMA ListKeeps == ASSUME FilesInv, List PROVE FilesInv'
<1>1. UNCHANGED <<files, index, known, top>> /\ marker' = ReadMarker
    BY DEF List
<1>2. CASE ReadMarker \in {None, Corrupt}
    BY <1>1, <1>2, StartsCleaning, ReadMarkerType DEF List
<1>3. CASE ReadMarker \notin {None, Corrupt}
    <2>1. ReadMarker \in Marker /\ ReadMarker.pending \in SUBSET Projects
        BY <1>3, ReadMarkerType DEF MarkerFiles, Marker
    <2> QED BY <1>1, <1>3, <2>1, StartsCleaning DEF List, MarkerFiles
<1> QED BY <1>2, <1>3

\* The operation of a cleanup.
LEMMA InCleanup ==
  ASSUME FilesInv, op.name \in {"autosave", "save", "list"}, op.next = "cleanup"
  PROVE  op \in Cleanups /\ op.todo \subseteq Projects /\ op.remaining \subseteq Projects
BY DEF FilesInv, OpOK, Idle, Writes, Saves, Cleanups, Deletions

\* One announced Project is cleaned, kept because it was saved, or fails.
LEMMA CleanupKeeps == ASSUME FilesInv, NEW p \in Projects, Cleanup(p) PROVE FilesInv'
<1>1. op \in Cleanups /\ p \in op.todo /\ UNCHANGED <<marker, known, top>>
    BY InCleanup DEF Cleanup
<1>2. files' \in [Projects -> Files]
    BY FilesDeleted DEF Cleanup, FilesInv
<1>3. IndexOK'
    BY KnownIndexType DEF Cleanup, FilesInv, IndexOK
<1>4. op' \in Cleanups /\ op'.todo = op.todo \ {p}
    <2>1. op.todo \ {p} \in SUBSET Projects /\ op.remaining \cup {p} \in SUBSET Projects
        BY <1>1, InCleanup DEF Cleanup
    <2>2. \/ op' = [op EXCEPT !.todo = op.todo \ {p}]
          \/ op' = [op EXCEPT !.todo = op.todo \ {p}, !.remaining = op.remaining \cup {p}]
        BY DEF Cleanup
    <2> QED BY <1>1, <2>1, <2>2 DEF Cleanups
<1>5. Announced'
    BY <1>1, <1>4 DEF FilesInv, Announced
<1> QED BY <1>1, <1>2, <1>3, <1>4, <1>5 DEF FilesInv, OpOK

\* The marker forgets what was cleaned.
LEMMA CleanupDoneKeeps == ASSUME FilesInv, CleanupDone PROVE FilesInv'
<1>1. op.remaining \in SUBSET Projects /\ op' = Idle /\ UNCHANGED <<files, known, top>>
    BY InCleanup DEF CleanupDone
<1>2. marker' \in MarkerFiles
    <2>1. CASE marker \in {None, Corrupt}
        BY <2>1 DEF CleanupDone, FilesInv
    <2>2. CASE marker \notin {None, Corrupt}
        <3>1. marker \in Marker /\ Migrated(marker) \in Marker
            BY <2>2, MigratedMarker DEF FilesInv, MarkerFiles
        <3>2. [Migrated(marker) EXCEPT !.pending = op.remaining] \in Marker
            BY <1>1, <3>1 DEF Marker
        <3> QED BY <2>2, <3>1, <3>2 DEF CleanupDone, MarkerFiles
    <2> QED BY <2>1, <2>2
<1>3. IndexOK'
    BY KnownIndexType DEF CleanupDone, FilesInv, IndexOK
<1> QED BY <1>1, <1>2, <1>3, Ends DEF FilesInv

\* A deletion first takes the Project out of the marker.
LEMMA DeleteKeeps == ASSUME FilesInv, NEW p \in Projects, Delete(p) PROVE FilesInv'
<1> DEFINE named == ReadMarker \notin {None, Corrupt} /\ p \in {ReadMarker.opened, ReadMarker.latest}
<1>1. ASSUME NEW m \in Marker PROVE Emptied(Forgotten(m, p)) \in MarkerFiles
    <2>1. Forgotten(m, p) \in Marker
        BY <1>1 DEF Forgotten, Marker
    <2> QED BY <2>1 DEF Emptied, MarkerFiles
<1>2. ReadMarker \in MarkerFiles /\ (ReadMarker \notin {None, Corrupt} => ReadMarker \in Marker)
    BY ReadMarkerType DEF MarkerFiles
<1>3. marker' \in MarkerFiles
    BY <1>1, <1>2 DEF Delete, MarkerFiles
<1>4. op' \in Deletions /\ op' \notin Cleanups
    BY <1>2, <1>3 DEF Delete, Deletions, Cleanups
<1> QED BY <1>3, <1>4 DEF Delete, FilesInv, OpOK, Announced, IndexOK

\* Then its files, or it puts the marker back.
LEMMA DeleteFilesKeeps == ASSUME FilesInv, DeleteFiles PROVE FilesInv'
<1>1. op \in Deletions
    BY DEF DeleteFiles, FilesInv, OpOK, Idle, Writes, Saves, Cleanups, Deletions
<1>2. op.restore \in MarkerFiles
    BY <1>1 DEF Deletions
<1>3. files' \in [Projects -> Files]
    BY FilesDeleted DEF DeleteFiles, FilesInv
<1>4. IndexOK'
    BY KnownIndexType DEF DeleteFiles, FilesInv, IndexOK
<1> QED BY <1>2, <1>3, <1>4, Ends DEF DeleteFiles, FilesInv

\* The operations that are one effect, and the marker they write.
LEMMA OneEffectKeeps ==
  ASSUME FilesInv,
         \/ \E p \in Projects : Load(p) \/ SetOwnerProject(p)
         \/ ClearOwnerProject
  PROVE  FilesInv'
<1>1. \/ UNCHANGED <<files, op, known, top>> /\ op' \notin Cleanups
      \/ UNCHANGED <<files, op, marker, known, top>>
    BY DEF Load, SetOwnerProject, ClearOwnerProject, Idle, Cleanups
<1>2. IndexOK'
    BY KnownIndexType DEF Load, SetOwnerProject, ClearOwnerProject, FilesInv, IndexOK
<1>3. marker' \in MarkerFiles
    <2>1. ReadMarker \in MarkerFiles /\ marker \in MarkerFiles
        BY ReadMarkerType DEF FilesInv
    <2>2. ASSUME NEW m \in Marker, NEW p \in Projects \cup {None} PROVE [m EXCEPT !.opened = p] \in Marker
        BY DEF Marker
    <2>3. NewMarker \in Marker
        BY DEF Marker, NewMarker
    <2> QED BY <2>1, <2>2, <2>3 DEF Load, SetOwnerProject, ClearOwnerProject, Emptied, MarkerFiles
<1> QED BY <1>1, <1>2, <1>3 DEF FilesInv, OpOK, Announced

\* What may happen to any operation.
LEMMA FaultsKeep == ASSUME FilesInv, Raise \/ Crash \/ Rot PROVE FilesInv'
<1>1. op' = Idle /\ UNCHANGED <<known, top>>
    BY DEF Raise, Crash, Rot
<1>2. files' \in [Projects -> Files]
    <2>1. ASSUME NEW p \in Projects, NEW name \in FileNames, Readable(files[p][name]),
                 files' = [files EXCEPT ![p][name] = Corrupt]
          PROVE  files' \in [Projects -> Files]
        <3>1. Corrupt # Missing
            BY RevisionBounds DEF Missing
        <3>2. files[p]["checkpoint"] = Missing => files[p]["backup"] = Missing
            BY DEF FilesInv, Files
        <3> QED BY <2>1, <3>1, <3>2, FileWritten DEF FilesInv, Readable
    <2> QED BY <2>1 DEF Raise, Crash, Rot, FilesInv
<1>3. IndexOK' /\ marker' \in MarkerFiles
    BY DEF Raise, Crash, Rot, FilesInv, IndexOK, MarkerFiles
<1> QED BY <1>1, <1>2, <1>3, Ends

\* Every step keeps the invariant.
LEMMA FilesNextKeeps == ASSUME FilesInv, [StorageNext]_storageVars PROVE FilesInv'
<1>1. CASE UNCHANGED storageVars
    BY <1>1 DEF storageVars, FilesInv, OpOK, Announced, IndexOK
<1>2. CASE StorageNext
    BY <1>2, AutosaveKeeps, SaveKeeps, UpdateIndexKeeps, AutosaveMarkerKeeps, SaveMarkerKeeps, ListKeeps,
       CleanupKeeps, CleanupDoneKeeps, DeleteKeeps, DeleteFilesKeeps, OneEffectKeeps, FaultsKeep
       DEF StorageNext
<1> QED BY <1>1, <1>2

\* The inductive invariant holds throughout, for any Projects, revisions and faults.
THEOREM StorageInductive == StorageSpec => []FilesInv
BY FilesInit, FilesNextKeeps, PTL DEF StorageSpec

\* An explicit save is never shadowed by an older draft: OwnerStorage's SaveNotShadowed.
THEOREM SavesNotShadowed == StorageSpec => []SaveNotShadowed
<1>1. FilesInv => SaveNotShadowed
    BY FilesTypes, LoadNeverShadows DEF SaveNotShadowed
<1> QED BY <1>1, StorageInductive, PTL

\* A file that is written is there.
LEMMA OneVanishes ==
  ASSUME FilesInv, [StorageNext]_storageVars, NEW p \in Projects, Present(p), ~Present(p)'
  PROVE  \/ op.name = "delete" /\ op.project = p
         \/ SupersededUnread(p)
<1> USE RevisionBounds DEF Present
<1>0. files \in [Projects -> Files] /\ \A name \in FileNames : files'[p][name] = None
    BY DEF FilesInv, Missing
<1>1. files' # files
    OBVIOUS
<1>2. ASSUME NEW q \in Projects, NEW rev \in Revisions, NEW setOpened \in BOOLEAN, Autosave(q, rev, setOpened)
      PROVE  FALSE
    <2>1. files'[p]["autosave"] \in {files[p]["autosave"], rev}
          /\ files'[p]["checkpoint"] = files[p]["checkpoint"] /\ files'[p]["backup"] = files[p]["backup"]
        BY <1>0, <1>2 DEF Autosave, Files, FileNames
    <2> QED BY <1>0, <2>1, <1>2 DEF Autosave, Files, FileNames, Missing
<1>3. ASSUME NEW q \in Projects, NEW rev \in Revisions, Save(q, rev) PROVE FALSE
    <2>1. rev + 1 \in Revisions
        BY <1>3 DEF Save, Revisions
    <2>2. files'[q]["checkpoint"] = rev + 1 /\ (q # p => files'[p] = files[p])
        BY <1>0, <1>3 DEF Save, Files, FileNames
    <2> QED BY <1>0, <2>1, <2>2 DEF FileNames
<1>4. ASSUME NEW q \in Projects, Cleanup(q) PROVE SupersededUnread(p)
    <2>1. op \in Cleanups /\ q \in op.todo
        BY <1>4, InCleanup DEF Cleanup
    <2>2. marker \in Marker /\ q \in marker.pending
        BY <2>1 DEF FilesInv, Announced
    <2>3. AutosaveOnly(q) /\ p = q
        BY <1>0, <1>1, <1>4 DEF Cleanup
    <2>4. /\ ~Readable(files[p]["checkpoint"]) /\ ~Readable(files[p]["backup"])
          /\ files[p]["checkpoint"] = Missing => files[p]["backup"] = Missing
          /\ Readable(files[p]["autosave"])
        BY <1>0, <2>3 DEF AutosaveOnly, HasCheckpoint, Files
    <2> QED BY <2>2, <2>3, <2>4 DEF SupersededUnread, NeverSaved, Readable
<1>5. ASSUME DeleteFiles PROVE op.name = "delete" /\ op.project = p
    BY <1>0, <1>1, <1>5 DEF DeleteFiles
<1>6. ASSUME Rot PROVE FALSE
    <2>1. PICK q \in Projects, name \in FileNames : files' = [files EXCEPT ![q][name] = Corrupt]
        BY <1>1, <1>6 DEF Rot
    <2>2. files'[q][name] = Corrupt /\ (q # p => files'[p] = files[p])
        BY <1>0, <2>1 DEF Files, FileNames
    <2> QED BY <1>0, <2>1, <2>2 DEF FileNames
<1>7. \/ \E q \in Projects, rev \in Revisions, setOpened \in BOOLEAN : Autosave(q, rev, setOpened)
      \/ \E q \in Projects, rev \in Revisions : Save(q, rev)
      \/ \E q \in Projects : Cleanup(q)
      \/ DeleteFiles \/ Rot
    BY <1>1 DEF StorageNext, storageVars, Load, SetOwnerProject, Delete, UpdateIndex, AutosaveMarker,
       SaveMarker, CleanupDone, List, ClearOwnerProject, Raise, Crash
<1> QED BY <1>2, <1>3, <1>4, <1>5, <1>6, <1>7

\* A Project disappears only by a deletion the user asked for, or announced as
\* superseded and either never saved or with no readable copy of what was saved:
\* OwnerStorage's OnlySupersededVanish.
THEOREM OnlySupersededVanishes == StorageSpec => OnlySupersededVanish
<1> DEFINE A == \A p \in Projects :
                  Present(p) /\ ~Present(p)' =>
                    \/ op.name = "delete" /\ op.project = p
                    \/ SupersededUnread(p)
<1>1. FilesInv /\ [StorageNext]_storageVars => [A]_storageVars
    BY OneVanishes
<1> QED BY <1>1, StorageInductive, PTL DEF StorageSpec, OnlySupersededVanish

(* --- the published site ------------------------------------------------ *)

Busy == Running \cup {"planned"}
Deep == {"fresh-build-test", "pre-upload", "upload", "canonical-verification", "approved-sha",
         "verify-approved", "resume"}
BeforeUpload == {"fresh-build-test", "pre-upload", "upload"}
WithBuild == {"pre-upload", "upload"}
AfterVerification == {"approved-sha", "verify-approved", "resume"}

RulesOf == {Contract[c].rules : c \in Commits}
Seen == [automation : BOOLEAN, id : 0 .. MaxDeployments, rules : RulesOf]
Built == [commit : Commits, run : 1 .. MaxUpstream, intact : BOOLEAN]
WorkRecords ==
  [stage : Stages, sha : Commits \cup {Absent}, current : Commits \cup {Absent},
   seen : Seen \cup {Absent}, built : Built \cup {Absent},
   changes : [Switches -> {"UNCHANGED", "UNKNOWN", "CONFIRMED"}], touched : SUBSET Switches]
Feeds == [stage : {"none", "preflight", "produce", "gate", "upload"},
          sha : Commits \cup {Absent}, run : 0 .. MaxUpstream, intact : BOOLEAN]

\* The switches a publisher p at stage s relies on are nobody else's.
Alone(p, s) ==
  /\ s \in Deep => /\ ~automation /\ ~workflow /\ landing = Absent
                   /\ p = "manual" => holder = Absent /\ "feed" \notin waiting
  /\ s = "automate" /\ p = "manual" => ~automation /\ holder \in {Absent, "feed"}
  /\ s \in Busy /\ p = "app" => holder \in Commits

\* What a publisher p with the record w knows of the site.
Knows(p, w) ==
  /\ w.stage \in BeforeUpload => /\ site.commit = w.current /\ site.id = w.seen.id
                                 /\ p = "app" => Newer(w.sha, w.current)
  /\ w.stage \in WithBuild => w.built \in Built /\ site.run <= w.built.run /\ w.built.run <= upstream
  /\ w.stage \in AfterVerification => site.commit = w.sha
  /\ w.stage = "resume" => approved = w.sha

WorkOK(p, w) ==
  /\ w \in WorkRecords
  /\ w.stage \in Busy => w.sha \in Commits /\ w.current \in Commits
  /\ w.stage \in Busy \ {"preflight"} => w.seen \in Seen
  /\ Alone(p, w.stage)
  /\ Knows(p, w)

FeedOK ==
  /\ feed \in Feeds
  /\ feed.stage # "none" => holder = "feed" /\ feed.sha \in Commits
  /\ feed.stage \in {"produce", "gate", "upload"} => feed.run \in 1 .. upstream
  /\ feed.stage \in {"gate", "upload"} => landing = Absent
  /\ feed.stage = "upload" => feed.sha = site.commit /\ feed.run > site.run

SiteOK ==
  /\ site \in Deployment /\ landing \in Deployment \cup {Absent}
  /\ site.run <= upstream
  /\ landing # Absent => site.run <= landing.run /\ landing.run <= upstream
  /\ workflow => site.commit = approved
  /\ workflow /\ landing # Absent => landing.commit = approved

VariablesOK ==
  /\ approved \in Commits /\ automation \in BOOLEAN /\ workflow \in BOOLEAN
  /\ rules \in RulesOf /\ reviewed \subseteq Reviewed /\ releases \subseteq Commits
  /\ waiting \subseteq Commits \cup {"feed"} /\ holder \in Commits \cup {"feed", Absent}
  /\ upstream \in 1 .. MaxUpstream /\ deployed \in 0 .. MaxDeployments

SiteInv ==
  /\ VariablesOK
  /\ SiteOK
  /\ FeedOK
  /\ work \in [Publishers -> WorkRecords]
  /\ \A p \in Publishers : WorkOK(p, work[p])

-----------------------------------------------------------------------------
(* The first state, and steps that change nothing but one record.          *)

\* What the assumption says, as arithmetic.
LEMMA SiteBounds ==
  /\ MaxUpstream \in Nat /\ MaxUpstream # 0 /\ MaxDeployments \in Nat
  /\ Absent \notin Commits /\ Absent # "feed" /\ "feed" \notin Commits
  /\ Version \in [Commits -> Nat]
BY PublicationAssumption DEF PublicationAssumption

\* A publisher that does nothing is fine anywhere.
LEMMA IdleFine ==
  ASSUME NEW p \in Publishers, NEW w \in WorkRecords, w.stage \in {"none", "OK", "BLOCKED"}
  PROVE  WorkOK(p, w)
BY DEF WorkOK, Alone, Knows, Busy, Running, Deep, BeforeUpload, WithBuild, AfterVerification

\* The invariant holds in the first states.
LEMMA SiteInit == PublicationInit => SiteInv
<1> SUFFICES ASSUME PublicationInit PROVE SiteInv
    OBVIOUS
<1> USE SiteBounds DEF PublicationInit
<1>1. NoWork \in WorkRecords /\ NoWork.stage = "none"
    BY DEF NoWork, WorkRecords, Stages, Switches
<1>2. work \in [Publishers -> WorkRecords] /\ \A p \in Publishers : WorkOK(p, work[p])
    BY <1>1, IdleFine
<1>3. FeedOK
    BY DEF FeedOK, NoFeed, Feeds
<1>4. rules \in RulesOf
    <2>1. ASSUME NEW r \in Reviewed PROVE r[3] \in Commits
        BY PublicationAssumption DEF PublicationAssumption
    <2> QED BY <2>1 DEF RulesOf
<1>5. SiteOK
    BY DEF SiteOK, Deployment
<1>6. upstream \in 1 .. MaxUpstream /\ deployed \in 0 .. MaxDeployments
    <2>1. upstream = 1 /\ deployed = 0
        OBVIOUS
    <2> QED BY ONLY <2>1, SiteBounds
<1>8. automation \in BOOLEAN /\ workflow \in BOOLEAN
    BY Zenon
<1>7. releases \subseteq Commits /\ waiting \subseteq Commits \cup {"feed"}
    OBVIOUS
<1>9. VariablesOK
    BY <1>4, <1>6, <1>7, <1>8, Zenon DEF VariablesOK
<1> QED BY <1>2, <1>3, <1>5, <1>9 DEF SiteInv

\* The type invariant that the runs check is a part of the inductive one.
LEMMA SiteTypes == SiteInv => PublicationTypeOK
BY DEF SiteInv, VariablesOK, SiteOK, WorkOK, WorkRecords, PublicationTypeOK

\* A step of one publisher that only changes its record.
LEMMA OwnRecord ==
  ASSUME SiteInv, NEW p \in Publishers, NEW w, WorkOK(p, w),
         UNCHANGED remote, UNCHANGED world, UNCHANGED lease,
         work' = [work EXCEPT ![p] = w]
  PROVE  SiteInv'
<1> USE DEF remote, world, lease
<1>1. VariablesOK' /\ SiteOK' /\ FeedOK'
    BY DEF SiteInv, VariablesOK, SiteOK, FeedOK
<1>2. work' \in [Publishers -> WorkRecords]
    BY DEF SiteInv, WorkOK
<1>3. ASSUME NEW q \in Publishers PROVE WorkOK(q, work[q])'
    <2>1. WorkOK(q, work'[q])
        BY DEF SiteInv
    <2> QED BY <2>1 DEF WorkOK, Alone, Knows
<1> QED BY <1>1, <1>2, <1>3 DEF SiteInv

\* The end of a publisher, with what is deployed and switched unchanged.
LEMMA GivesUp ==
  ASSUME SiteInv, NEW p \in Publishers, NEW w \in WorkRecords, w.stage \in {"OK", "BLOCKED"},
         work[p].stage \in Busy,
         UNCHANGED remote, UNCHANGED world, Over(p, w)
  PROVE  SiteInv'
<1> USE DEF remote, world, Over, Released
<1>1. VariablesOK' /\ SiteOK'
    BY DEF SiteInv, VariablesOK, SiteOK
<1>2. feed.stage = "none" \/ holder' = holder
    BY SiteBounds DEF SiteInv, FeedOK, WorkOK, Alone
<1>3. FeedOK'
    BY <1>2 DEF SiteInv, FeedOK
<1>4. work' \in [Publishers -> WorkRecords]
    BY DEF SiteInv
<1>5. ASSUME NEW q \in Publishers PROVE WorkOK(q, work[q])'
    <2>1. CASE q = p
        <3>1. WorkOK(p, w)'
            BY IdleFine DEF WorkOK, Alone, Knows, Busy, Running, Deep, BeforeUpload, WithBuild, AfterVerification
        <3> QED BY <2>1, <3>1 DEF SiteInv
    <2>2. CASE q # p
        <3>1. work'[q] = work[q] /\ WorkOK(q, work[q])
            BY <2>2 DEF SiteInv
        <3> QED BY <2>2, <3>1 DEF WorkOK, Alone, Knows, Publishers
    <2> QED BY <2>1, <2>2
<1> QED BY <1>1, <1>3, <1>4, <1>5 DEF SiteInv

-----------------------------------------------------------------------------
(* A publisher's steps.                                                    *)

\* A busy publisher's record, and the stages apart.
LEMMA InStage ==
  ASSUME SiteInv, NEW p \in Publishers, work[p].stage \in Busy
  PROVE  /\ work[p] \in WorkRecords /\ WorkOK(p, work[p])
         /\ work[p].sha \in Commits /\ work[p].current \in Commits
         /\ [work[p] EXCEPT !.stage = "BLOCKED"] \in WorkRecords
BY DEF SiteInv, WorkOK, WorkRecords, Stages

\* A gate keeps the invariant if the record it goes on with is fine.
LEMMA GateKeeps ==
  ASSUME SiteInv, NEW p \in Publishers, NEW stage \in Busy, NEW guard, NEW next,
         Gate(p, stage, guard, next), guard => WorkOK(p, next)
  PROVE  SiteInv'
<1>1. work[p].stage \in Busy /\ UNCHANGED remote /\ UNCHANGED world
    BY DEF Gate, At
<1>2. CASE guard
    BY <1>1, <1>2, OwnRecord DEF Gate
<1>3. CASE ~guard
    <2>1. [work[p] EXCEPT !.stage = "BLOCKED"] \in WorkRecords
        BY <1>1, InStage
    <2>2. [work[p] EXCEPT !.stage = "BLOCKED"].stage = "BLOCKED"
        BY <1>1, InStage DEF WorkRecords
    <2> QED BY <1>1, <1>3, <2>1, <2>2, GivesUp DEF Gate
<1> QED BY <1>2, <1>3

\* What a snapshot establishes for a publisher that is paused.
LEMMA PausedSnapshot ==
  ASSUME SiteInv, NEW p \in Publishers, work[p].stage \in Busy, SnapshotOK(p, TRUE)
  PROVE  /\ ~automation /\ ~workflow /\ landing = Absent
         /\ p = "manual" => holder = Absent /\ "feed" \notin waiting
         /\ site.commit = work[p].current
         /\ p = "app" => Newer(work[p].sha, work[p].current)
BY DEF SnapshotOK, QuietFor, TargetSafe, Selected, SiteInv, VariablesOK

\* A snapshot is a record of its kind.
LEMMA SnapshotSeen == SiteInv => Snapshot \in Seen /\ site.id \in 0 .. MaxDeployments
BY DEF SiteInv, VariablesOK, SiteOK, Deployment, Snapshot, Seen

LEMMA StagesApart ==
  /\ {"preflight", "build-test", "planned", "pause", "disable", "quiescence", "automate"} \subseteq Busy
  /\ Deep \subseteq Busy /\ Busy \subseteq Stages
  /\ BeforeUpload \subseteq Deep /\ WithBuild \subseteq Deep /\ AfterVerification \subseteq Deep
BY DEF Busy, Running, Stages, Deep, BeforeUpload, WithBuild, AfterVerification

\* The gates before the switches are turned: nothing is known yet.
LEMMA EarlyGates ==
  ASSUME SiteInv, NEW p \in Publishers,
         PrepareSnapshot(p) \/ PreparePlan(p) \/ PublishPlan(p)
  PROVE  SiteInv'
<1>1. \A w \in WorkRecords :
        /\ w.stage \in {"build-test", "planned", "pause"}
        /\ w.sha \in Commits /\ w.current \in Commits /\ w.seen \in Seen
        /\ p = "app" => holder \in Commits
        => WorkOK(p, w)
    BY DEF WorkOK, Alone, Knows, Busy, Running, Stages, Deep, BeforeUpload, WithBuild, AfterVerification
<1>2. ASSUME work[p].stage \in Busy PROVE p = "app" => holder \in Commits
    BY <1>2, InStage DEF WorkOK, Alone
<1>3. CASE PrepareSnapshot(p)
    <2> DEFINE w == [work[p] EXCEPT !.stage = "build-test", !.seen = Snapshot]
    <2>1. work[p].stage \in Busy
        BY <1>3, StagesApart DEF PrepareSnapshot, Gate, At
    <2>2. w \in WorkRecords /\ w.stage = "build-test" /\ w.seen \in Seen
          /\ w.sha \in Commits /\ w.current \in Commits
        BY <2>1, InStage, SnapshotSeen DEF WorkRecords, Stages
    <2> HIDE DEF w
    <2>3. WorkOK(p, w)
        BY <1>1, <1>2, <2>1, <2>2
    <2>4. Gate(p, "preflight", SnapshotOK(p, FALSE), w)
        BY <1>3 DEF PrepareSnapshot, w
    <2> QED BY <2>3, <2>4, GateKeeps, StagesApart
<1>4. CASE PreparePlan(p)
    <2> DEFINE w == [work[p] EXCEPT !.stage = "planned"]
    <2>1. work[p].stage \in Busy /\ work[p].stage = "build-test"
        BY <1>4, StagesApart DEF PreparePlan, Gate, At
    <2>2. work[p].seen \in Seen
        BY <2>1, InStage DEF WorkOK
    <2>3. w \in WorkRecords /\ w.stage = "planned" /\ w.seen \in Seen
          /\ w.sha \in Commits /\ w.current \in Commits
        BY <2>1, <2>2, InStage DEF WorkRecords, Stages
    <2> HIDE DEF w
    <2>4. WorkOK(p, w)
        BY <1>1, <1>2, <2>1, <2>3
    <2>5. Gate(p, "build-test", SnapshotOK(p, FALSE) /\ Unchanged(work[p].seen, FALSE, FALSE), w)
        BY <1>4 DEF PreparePlan, w
    <2> QED BY <2>4, <2>5, GateKeeps, StagesApart
<1>5. CASE PublishPlan(p)
    <2> DEFINE w == [work[p] EXCEPT !.stage = "pause", !.seen = Snapshot]
    <2>1. work[p].stage \in Busy
        BY <1>5, StagesApart DEF PublishPlan, Gate, At
    <2>2. w \in WorkRecords /\ w.stage = "pause" /\ w.seen \in Seen
          /\ w.sha \in Commits /\ w.current \in Commits
        BY <2>1, InStage, SnapshotSeen DEF WorkRecords, Stages
    <2> HIDE DEF w
    <2>3. WorkOK(p, w)
        BY <1>1, <1>2, <2>1, <2>2
    <2>4. Gate(p, "planned", SnapshotOK(p, FALSE) /\ Unchanged(work[p].seen, FALSE, FALSE), w)
        BY <1>5 DEF PublishPlan, w
    <2> QED BY <2>3, <2>4, GateKeeps, StagesApart
<1> QED BY <1>3, <1>4, <1>5

\* The end of quiescence, from where the site is the publisher's own.
LEMMA QuiesceKeeps ==
  ASSUME SiteInv, NEW p \in Publishers, Quiesce(p) PROVE SiteInv'
<1> DEFINE guard == SnapshotOK(p, TRUE) /\ Unchanged(work[p].seen, TRUE, FALSE)
           w == [work[p] EXCEPT !.stage = "fresh-build-test", !.seen.id = site.id]
<1>1. Gate(p, "quiescence", guard, w)
    BY DEF Quiesce
<1>2. work[p].stage \in Busy /\ work[p].stage = "quiescence"
    BY <1>1, StagesApart DEF Gate, At
<1>3. work[p].seen \in Seen
    BY <1>2, InStage DEF WorkOK
<1>4. [work[p].seen EXCEPT !.id = site.id] \in Seen /\ [work[p].seen EXCEPT !.id = site.id].id = site.id
    BY <1>3, SnapshotSeen DEF Seen
<1>5. /\ w \in WorkRecords /\ w.stage = "fresh-build-test" /\ w.seen \in Seen /\ w.seen.id = site.id
      /\ w.sha = work[p].sha /\ w.current = work[p].current
    BY <1>2, <1>4, InStage DEF WorkRecords, Stages
<1>6. p = "app" => holder \in Commits
    BY <1>2, InStage DEF WorkOK, Alone
<1> HIDE DEF w
<1>7. ASSUME guard PROVE WorkOK(p, w)
    <2>1. /\ ~automation /\ ~workflow /\ landing = Absent
          /\ p = "manual" => holder = Absent /\ "feed" \notin waiting
          /\ site.commit = w.current
          /\ p = "app" => Newer(w.sha, w.current)
        BY <1>2, <1>5, <1>7, PausedSnapshot
    <2>2. w.sha \in Commits /\ w.current \in Commits
        BY <1>2, <1>5, InStage
    <2>3. Alone(p, w.stage)
        BY <1>5, <1>6, <2>1 DEF Alone
    <2>4. Knows(p, w)
        BY <1>5, <2>1 DEF Knows, WithBuild, AfterVerification
    <2> QED BY <1>5, <2>2, <2>3, <2>4 DEF WorkOK
<1> QED BY <1>1, <1>7, GateKeeps, StagesApart

\* A build has the newest Run, no older than the one that is served.
LEMMA FreshBuildKeeps ==
  ASSUME SiteInv, NEW p \in Publishers, NEW intact \in BOOLEAN, FreshBuild(p, intact) PROVE SiteInv'
<1> DEFINE b == [commit |-> work[p].sha, run |-> upstream, intact |-> intact]
           w == [work[p] EXCEPT !.stage = "pre-upload", !.built = b]
<1>1. Gate(p, "fresh-build-test", TRUE, w)
    BY DEF FreshBuild
<1>2. work[p].stage \in Busy /\ work[p].stage = "fresh-build-test"
    BY <1>1, StagesApart DEF Gate, At, Deep
<1>3. b \in Built /\ b.run = upstream /\ upstream \in Nat /\ site.run <= upstream
    <2>1. upstream \in 1 .. MaxUpstream /\ site.run <= upstream
        BY DEF SiteInv, VariablesOK, SiteOK
    <2>2. work[p].sha \in Commits
        BY <1>2, InStage
    <2> QED BY <2>1, <2>2, SiteBounds DEF Built
<1> HIDE DEF b
<1>4. /\ w \in WorkRecords /\ w.stage = "pre-upload" /\ w.built = b /\ w.seen = work[p].seen
      /\ w.sha = work[p].sha /\ w.current = work[p].current
    BY <1>2, <1>3, InStage DEF WorkRecords, Stages
<1> HIDE DEF w
<1>5. WorkOK(p, work[p])
    BY <1>2, InStage
<1>6. Alone(p, w.stage)
    BY <1>2, <1>4, <1>5 DEF WorkOK, Alone, Deep, Busy, Running, Stages
<1>7. Knows(p, w)
    BY <1>2, <1>3, <1>4, <1>5 DEF WorkOK, Knows, BeforeUpload, WithBuild, AfterVerification
<1>8. WorkOK(p, w)
    BY <1>2, <1>4, <1>5, <1>6, <1>7 DEF WorkOK, Busy, Running, Stages
<1> QED BY <1>1, <1>8, GateKeeps, StagesApart DEF Deep

\* The gate before the upload.
LEMMA PreUploadKeeps ==
  ASSUME SiteInv, NEW p \in Publishers, PreUpload(p) PROVE SiteInv'
<1> DEFINE guard == SnapshotOK(p, TRUE) /\ Unchanged(work[p].seen, TRUE, TRUE) /\ work[p].built.intact
           w == [work[p] EXCEPT !.stage = "upload"]
<1>1. Gate(p, "pre-upload", guard, w)
    BY DEF PreUpload
<1>2. work[p].stage \in Busy /\ work[p].stage = "pre-upload" /\ WorkOK(p, work[p])
    BY <1>1, StagesApart, InStage DEF Gate, At, Deep
<1>3. /\ w \in WorkRecords /\ w.stage = "upload" /\ w.built = work[p].built /\ w.seen = work[p].seen
      /\ w.sha = work[p].sha /\ w.current = work[p].current
    BY <1>2 DEF WorkOK, WorkRecords, Stages
<1> HIDE DEF w
<1>4. Alone(p, w.stage)
    BY <1>2, <1>3 DEF WorkOK, Alone, Deep, Busy, Running, Stages
<1>5. Knows(p, w)
    BY <1>2, <1>3 DEF WorkOK, Knows, BeforeUpload, WithBuild, AfterVerification
<1>6. WorkOK(p, w)
    BY <1>2, <1>3, <1>4, <1>5 DEF WorkOK, Busy, Running, Stages
<1> QED BY <1>1, <1>6, GateKeeps, StagesApart DEF Deep

\* The upload was verified: the site is the publisher's commit.
LEMMA VerifyPublishedKeeps ==
  ASSUME SiteInv, NEW p \in Publishers, VerifyPublished(p) PROVE SiteInv'
<1> DEFINE guard == /\ Serves(p) /\ approved = work[p].current /\ ~automation /\ ~workflow
                    /\ Compatible(p, work[p].sha, work[p].current) /\ rules = work[p].seen.rules
                    /\ QuietFor(p)
           w == [work[p] EXCEPT !.stage = "approved-sha"]
<1>1. Gate(p, "canonical-verification", guard, w)
    BY DEF VerifyPublished
<1>2. work[p].stage \in Busy /\ work[p].stage = "canonical-verification" /\ WorkOK(p, work[p])
    BY <1>1, StagesApart, InStage DEF Gate, At, Deep
<1>3. /\ w \in WorkRecords /\ w.stage = "approved-sha" /\ w.seen = work[p].seen
      /\ w.sha = work[p].sha /\ w.current = work[p].current
    BY <1>2 DEF WorkOK, WorkRecords, Stages
<1> HIDE DEF w
<1>4. Alone(p, w.stage)
    BY <1>2, <1>3 DEF WorkOK, Alone, Deep, Busy, Running, Stages
<1>5. guard => Knows(p, w)
    BY <1>2, <1>3 DEF Serves, Knows, BeforeUpload, WithBuild, AfterVerification
<1>6. guard => WorkOK(p, w)
    BY <1>2, <1>3, <1>4, <1>5 DEF WorkOK, Busy, Running, Stages
<1> QED BY <1>1, <1>6, GateKeeps, StagesApart DEF Deep

\* The approval was verified.
LEMMA VerifyApprovedKeeps ==
  ASSUME SiteInv, NEW p \in Publishers, VerifyApproved(p) PROVE SiteInv'
<1> DEFINE guard == Serves(p) /\ approved = work[p].sha /\ ~automation
           w == [work[p] EXCEPT !.stage = "resume"]
<1>1. Gate(p, "verify-approved", guard, w)
    BY DEF VerifyApproved
<1>2. work[p].stage \in Busy /\ work[p].stage = "verify-approved" /\ WorkOK(p, work[p])
    BY <1>1, StagesApart, InStage DEF Gate, At, Deep
<1>3. /\ w \in WorkRecords /\ w.stage = "resume" /\ w.seen = work[p].seen
      /\ w.sha = work[p].sha /\ w.current = work[p].current
    BY <1>2 DEF WorkOK, WorkRecords, Stages
<1> HIDE DEF w
<1>4. Alone(p, w.stage)
    BY <1>2, <1>3 DEF WorkOK, Alone, Deep, Busy, Running, Stages
<1>5. guard => Knows(p, w)
    BY <1>2, <1>3 DEF Serves, Knows, BeforeUpload, WithBuild, AfterVerification
<1>6. guard => WorkOK(p, w)
    BY <1>2, <1>3, <1>4, <1>5 DEF WorkOK, Busy, Running, Stages
<1> QED BY <1>1, <1>6, GateKeeps, StagesApart DEF Deep

-----------------------------------------------------------------------------
(* Steps that turn a switch or replace the site.                           *)

\* While one publisher is deep the other is not even busy, or has not come far.
LEMMA Apart ==
  ASSUME SiteInv, NEW p \in Publishers, NEW q \in Publishers, q # p,
         work[p].stage \in Deep \cup {"automate"}
  PROVE  /\ work[q].stage \notin Deep \cup {"automate"}
         /\ q = "app" => work[q].stage \notin Busy
         /\ work[p].stage \in Deep => feed.stage = "none"
<1>1. (p = "manual" /\ q = "app") \/ (p = "app" /\ q = "manual")
    BY DEF Publishers
<1>2. Alone(p, work[p].stage) /\ Alone(q, work[q].stage)
    BY DEF SiteInv, WorkOK
<1>3. feed.stage # "none" => holder = "feed"
    BY DEF SiteInv, FeedOK
<1>4. work[p].stage \in Busy
    BY StagesApart
<1>5. p = "manual" => holder \in {Absent, "feed"} /\ (work[p].stage \in Deep => holder = Absent)
    BY <1>2 DEF Alone
<1>6. p = "app" => holder \in Commits
    BY <1>2, <1>4 DEF Alone
<1>7. q = "app" => work[q].stage \notin Busy
    BY <1>1, <1>2, <1>5, SiteBounds DEF Alone
<1>8. q = "manual" => work[q].stage \notin Deep \cup {"automate"}
    BY <1>1, <1>2, <1>6, SiteBounds DEF Alone
<1>9. work[p].stage \in Deep => feed.stage = "none"
    BY <1>1, <1>3, <1>5, <1>6, SiteBounds
<1> QED BY <1>1, <1>7, <1>8, <1>9, StagesApart

\* What one publisher does to the switches and the site leaves the other fine.
LEMMA OtherFine ==
  ASSUME SiteInv, NEW p \in Publishers, NEW q \in Publishers, q # p, work'[q] = work[q],
         UNCHANGED <<upstream, waiting>>,
         holder' = holder \/ (p = "app" /\ holder' = Absent),
         \/ work[p].stage \in Deep \cup {"automate"}
         \/ /\ UNCHANGED <<site, landing, approved>>
            /\ automation' => automation
            /\ workflow' => workflow
  PROVE  WorkOK(q, work[q])'
<1>1. WorkOK(q, work[q])
    BY DEF SiteInv
<1>2. CASE work[p].stage \in Deep \cup {"automate"}
    <2>1. work[q].stage \notin Deep \cup {"automate"} /\ (q = "app" => work[q].stage \notin Busy)
        BY <1>2, Apart
    <2>2. Alone(q, work[q].stage)'
        BY <2>1 DEF Alone
    <2>3. work[q].stage \notin BeforeUpload \cup WithBuild \cup AfterVerification \cup {"resume"}
        BY <2>1, StagesApart DEF Deep
    <2>4. Knows(q, work[q])'
        BY <2>3 DEF Knows
    <2> QED BY <1>1, <2>2, <2>4 DEF WorkOK
<1>3. CASE /\ UNCHANGED <<site, landing, approved>>
           /\ automation' => automation
           /\ workflow' => workflow
    BY <1>1, <1>3 DEF WorkOK, Alone, Knows, Publishers
<1> QED BY <1>2, <1>3

\* The switches as a publisher may leave them.
SwitchesFine ==
  /\ approved' \in Commits /\ automation' \in BOOLEAN /\ workflow' \in BOOLEAN
  /\ workflow' => /\ site.commit = approved'
                  /\ landing # Absent => landing.commit = approved'

\* A publisher turns a switch and ends.
LEMMA EndsSwitched ==
  ASSUME SiteInv, NEW p \in Publishers, NEW w \in WorkRecords, w.stage \in {"OK", "BLOCKED"},
         work[p].stage \in Busy, Over(p, w),
         UNCHANGED <<site, landing, deployed, world>>, SwitchesFine,
         \/ work[p].stage \in Deep \cup {"automate"}
         \/ /\ UNCHANGED approved
            /\ automation' => automation
            /\ workflow' => workflow
  PROVE  SiteInv'
<1> USE DEF world, Over, Released
<1>1. VariablesOK' /\ SiteOK'
    BY DEF SiteInv, VariablesOK, SiteOK, SwitchesFine
<1>2. feed.stage = "none" \/ holder' = holder
    BY SiteBounds DEF SiteInv, FeedOK, WorkOK, Alone
<1>3. FeedOK'
    BY <1>2 DEF SiteInv, FeedOK
<1>4. work' \in [Publishers -> WorkRecords]
    BY DEF SiteInv
<1>5. ASSUME NEW q \in Publishers PROVE WorkOK(q, work[q])'
    <2>1. CASE q = p
        <3>1. WorkOK(p, w)'
            BY IdleFine DEF WorkOK, Alone, Knows, Busy, Running, Deep, BeforeUpload, WithBuild, AfterVerification
        <3> QED BY <2>1, <3>1 DEF SiteInv
    <2>2. CASE q # p
        <3>1. work'[q] = work[q]
            BY <2>2 DEF SiteInv
        <3> QED BY <2>2, <3>1, OtherFine
    <2> QED BY <2>1, <2>2
<1> QED BY <1>1, <1>3, <1>4, <1>5 DEF SiteInv

\* A publisher turns a switch and goes on.
LEMMA GoesOnSwitched ==
  ASSUME SiteInv, NEW p \in Publishers, NEW w \in WorkRecords, work' = [work EXCEPT ![p] = w],
         WorkOK(p, work[p])',
         UNCHANGED <<site, landing, deployed, world, lease>>, SwitchesFine,
         \/ work[p].stage \in Deep \cup {"automate"}
         \/ /\ UNCHANGED approved
            /\ automation' => automation
            /\ workflow' => workflow
  PROVE  SiteInv'
<1> USE DEF world, lease
<1>1. VariablesOK' /\ SiteOK'
    BY DEF SiteInv, VariablesOK, SiteOK, SwitchesFine
<1>2. FeedOK'
    BY DEF SiteInv, FeedOK
<1>3. work' \in [Publishers -> WorkRecords]
    BY DEF SiteInv
<1>4. ASSUME NEW q \in Publishers, q # p PROVE WorkOK(q, work[q])'
    <2>1. work'[q] = work[q]
        BY <1>4 DEF SiteInv
    <2> QED BY <1>4, <2>1, OtherFine
<1> QED BY <1>1, <1>2, <1>3, <1>4 DEF SiteInv

\* The record a confirmed mutation leaves.
LEMMA ConfirmedRecord ==
  ASSUME SiteInv, NEW p \in Publishers, work[p].stage \in Busy, NEW s \in Switches, NEW next \in Stages
  PROVE  /\ Confirmed(work[p], s, next) \in WorkRecords
         /\ Confirmed(work[p], s, next).stage = next
         /\ Confirmed(work[p], s, next).sha = work[p].sha
         /\ Confirmed(work[p], s, next).current = work[p].current
         /\ Confirmed(work[p], s, next).seen = work[p].seen
<1> DEFINE w == work[p]
           c == [w.changes EXCEPT ![s] = "CONFIRMED"]
<1>1. w \in WorkRecords
    BY InStage
<1>2. c \in [Switches -> {"UNCHANGED", "UNKNOWN", "CONFIRMED"}]
      /\ w.touched \cup {s} \in SUBSET Switches
    BY <1>1 DEF WorkRecords
<1>3. Confirmed(w, s, next) = [w EXCEPT !.changes = c, !.touched = w.touched \cup {s}, !.stage = next]
    BY <1>1 DEF Confirmed, WorkRecords
<1> HIDE DEF w, c
<1>4. Confirmed(w, s, next) \in WorkRecords
    BY <1>1, <1>2, <1>3 DEF WorkRecords
<1>5. /\ Confirmed(w, s, next).stage = next /\ Confirmed(w, s, next).sha = w.sha
      /\ Confirmed(w, s, next).current = w.current /\ Confirmed(w, s, next).seen = w.seen
    BY <1>1, <1>3 DEF WorkRecords
<1> QED BY <1>4, <1>5 DEF w

\* The record a mutation leaves that raised.
LEMMA RaisedRecord ==
  ASSUME SiteInv, NEW p \in Publishers, work[p].stage \in Busy, NEW s \in Switches, NEW effect \in BOOLEAN
  PROVE  Raised(work[p], s, effect) \in WorkRecords /\ Raised(work[p], s, effect).stage = "BLOCKED"
<1> DEFINE w == work[p]
           u == [w.changes EXCEPT ![s] = "UNKNOWN"]
<1>1. w \in WorkRecords
    BY InStage
<1>2. u \in [Switches -> {"UNCHANGED", "UNKNOWN", "CONFIRMED"}]
      /\ w.touched \cup {s} \in SUBSET Switches /\ w.touched \in SUBSET Switches
    BY <1>1 DEF WorkRecords
<1>3. Raised(w, s, effect) = [w EXCEPT !.changes = u, !.stage = "BLOCKED",
                                       !.touched = IF effect THEN w.touched \cup {s} ELSE w.touched]
    BY <1>1 DEF Raised, WorkRecords
<1> HIDE DEF w, u
<1>4. "BLOCKED" \in Stages
    BY DEF Stages
<1>5. Raised(w, s, effect) \in WorkRecords
    BY <1>1, <1>2, <1>3, <1>4 DEF WorkRecords
<1>6. Raised(w, s, effect).stage = "BLOCKED"
    BY <1>1, <1>3 DEF WorkRecords
<1> QED BY <1>5, <1>6 DEF w

\* A command that raised without effect.
LEMMA RaisedKeeps ==
  ASSUME SiteInv, NEW p \in Publishers, work[p].stage \in Busy, NEW s \in Switches,
         Over(p, Raised(work[p], s, FALSE)), UNCHANGED remote, UNCHANGED world
  PROVE  SiteInv'
BY RaisedRecord, GivesUp

\* Automation is paused.
LEMMA PauseKeeps == ASSUME SiteInv, NEW p \in Publishers, Pause(p) PROVE SiteInv'
<1> USE DEF Pause, Mutation, Switches
<1>1. work[p].stage = "pause" /\ work[p].stage \in Busy
    BY StagesApart DEF At
<1>2. CASE automation' = FALSE /\ work' = [work EXCEPT ![p] = Confirmed(@, "automation", "disable")]
           /\ UNCHANGED lease
    <2> DEFINE w == Confirmed(work[p], "automation", "disable")
    <2>1. w \in WorkRecords /\ w.stage = "disable" /\ w.sha = work[p].sha
          /\ w.current = work[p].current /\ w.seen = work[p].seen
        BY <1>1, ConfirmedRecord DEF Stages
    <2>2. work' = [work EXCEPT ![p] = w]
        BY <1>2
    <2> HIDE DEF w
    <2>3. WorkOK(p, work[p]) /\ work'[p] = w
        BY <1>1, <2>2, InStage DEF SiteInv
    <2>4. WorkOK(p, work[p])'
        BY <1>1, <1>2, <2>1, <2>3 DEF WorkOK, Alone, Knows, lease, Busy, Running, Stages, Deep,
           BeforeUpload, WithBuild, AfterVerification
    <2>5. SwitchesFine
        BY <1>2 DEF SwitchesFine, SiteInv, VariablesOK, SiteOK
    <2> QED BY <1>2, <2>1, <2>2, <2>4, <2>5, GoesOnSwitched
<1>3. CASE automation' = FALSE /\ Over(p, Raised(work[p], "automation", TRUE))
    <2>1. SwitchesFine
        BY <1>3 DEF SwitchesFine, SiteInv, VariablesOK, SiteOK
    <2> QED BY <1>1, <1>3, <2>1, RaisedRecord, EndsSwitched
<1>4. CASE UNCHANGED automation /\ Over(p, Raised(work[p], "automation", FALSE))
    BY <1>1, <1>4, RaisedKeeps DEF remote
<1> QED BY <1>2, <1>3, <1>4

\* The feed workflow is disabled.
LEMMA DisableKeeps == ASSUME SiteInv, NEW p \in Publishers, Disable(p) PROVE SiteInv'
<1> USE DEF Disable, Mutation, Switches
<1>1. work[p].stage = "disable" /\ work[p].stage \in Busy
    BY StagesApart DEF At
<1>2. CASE workflow' = FALSE /\ work' = [work EXCEPT ![p] = Confirmed(@, "workflow", "quiescence")]
           /\ UNCHANGED lease
    <2> DEFINE w == Confirmed(work[p], "workflow", "quiescence")
    <2>1. w \in WorkRecords /\ w.stage = "quiescence" /\ w.sha = work[p].sha
          /\ w.current = work[p].current /\ w.seen = work[p].seen
        BY <1>1, ConfirmedRecord DEF Stages
    <2>2. work' = [work EXCEPT ![p] = w]
        BY <1>2
    <2> HIDE DEF w
    <2>3. WorkOK(p, work[p]) /\ work'[p] = w
        BY <1>1, <2>2, InStage DEF SiteInv
    <2>4. WorkOK(p, work[p])'
        BY <1>1, <1>2, <2>1, <2>3 DEF WorkOK, Alone, Knows, lease, Busy, Running, Stages, Deep,
           BeforeUpload, WithBuild, AfterVerification
    <2>5. SwitchesFine
        BY <1>2 DEF SwitchesFine, SiteInv, VariablesOK, SiteOK
    <2> QED BY <1>2, <2>1, <2>2, <2>4, <2>5, GoesOnSwitched
<1>3. CASE workflow' = FALSE /\ Over(p, Raised(work[p], "workflow", TRUE))
    <2>1. SwitchesFine
        BY <1>3 DEF SwitchesFine, SiteInv, VariablesOK, SiteOK
    <2> QED BY <1>1, <1>3, <2>1, RaisedRecord, EndsSwitched
<1>4. CASE UNCHANGED workflow /\ Over(p, Raised(work[p], "workflow", FALSE))
    BY <1>1, <1>4, RaisedKeeps DEF remote
<1> QED BY <1>2, <1>3, <1>4

\* The commit is approved, while nobody may publish on its own.
LEMMA ApproveKeeps == ASSUME SiteInv, NEW p \in Publishers, Approve(p) PROVE SiteInv'
<1> USE DEF Approve, Mutation, Switches
<1>1. work[p].stage = "approved-sha" /\ work[p].stage \in Busy /\ work[p].stage \in Deep
    BY StagesApart DEF At, Deep
<1>2. WorkOK(p, work[p]) /\ work[p].sha \in Commits /\ ~workflow
    BY <1>1, InStage DEF WorkOK, Alone
<1>3. CASE /\ approved' = work[p].sha
           /\ work' = [work EXCEPT ![p] = Confirmed(@, "approved_sha", "verify-approved")]
           /\ UNCHANGED lease
    <2> DEFINE w == Confirmed(work[p], "approved_sha", "verify-approved")
    <2>1. w \in WorkRecords /\ w.stage = "verify-approved" /\ w.sha = work[p].sha
          /\ w.current = work[p].current /\ w.seen = work[p].seen
        BY <1>1, ConfirmedRecord DEF Stages
    <2>2. work' = [work EXCEPT ![p] = w]
        BY <1>3
    <2> HIDE DEF w
    <2>3. work'[p] = w
        BY <2>2 DEF SiteInv
    <2>4. WorkOK(p, work[p])'
        BY <1>1, <1>2, <1>3, <2>1, <2>3 DEF WorkOK, Alone, Knows, lease, Busy, Running, Stages, Deep,
           BeforeUpload, WithBuild, AfterVerification
    <2>5. SwitchesFine
        BY <1>2, <1>3 DEF SwitchesFine, SiteInv, VariablesOK
    <2> QED BY <1>1, <1>3, <2>1, <2>2, <2>4, <2>5, GoesOnSwitched
<1>4. CASE approved' = work[p].sha /\ Over(p, Raised(work[p], "approved_sha", TRUE))
    <2>1. SwitchesFine
        BY <1>2, <1>4 DEF SwitchesFine, SiteInv, VariablesOK
    <2> QED BY <1>1, <1>4, <2>1, RaisedRecord, EndsSwitched
<1>5. CASE UNCHANGED approved /\ Over(p, Raised(work[p], "approved_sha", FALSE))
    BY <1>1, <1>5, RaisedKeeps DEF remote
<1> QED BY <1>3, <1>4, <1>5

\* The feed workflow comes back on a site that is the approved one.
LEMMA ResumeKeeps == ASSUME SiteInv, NEW p \in Publishers, Resume(p) PROVE SiteInv'
<1> USE DEF Resume, Mutation, Switches
<1> DEFINE next == IF work[p].seen.automation THEN "automate" ELSE "OK"
<1>1. work[p].stage = "resume" /\ work[p].stage \in Busy /\ work[p].stage \in Deep
    BY StagesApart DEF At, Deep
<1>2. WorkOK(p, work[p]) /\ site.commit = approved /\ landing = Absent /\ ~automation
    BY <1>1, InStage DEF WorkOK, Alone, Knows, AfterVerification
<1>3. workflow' = TRUE => SwitchesFine
    BY <1>2 DEF SwitchesFine, SiteInv, VariablesOK
<1>4. next \in {"automate", "OK"} /\ next \in Stages
    BY DEF Stages
<1>5. CASE workflow' = TRUE /\ next = "automate" /\ UNCHANGED lease
           /\ work' = [work EXCEPT ![p] = Confirmed(@, "workflow", next)]
    <2> DEFINE w == Confirmed(work[p], "workflow", next)
    <2>1. w \in WorkRecords /\ w.stage = "automate" /\ w.sha = work[p].sha
          /\ w.current = work[p].current /\ w.seen = work[p].seen
        BY <1>1, <1>4, <1>5, ConfirmedRecord
    <2>2. work' = [work EXCEPT ![p] = w]
        BY <1>5
    <2> HIDE DEF w, next
    <2>3. work'[p] = w
        BY <2>2 DEF SiteInv
    <2>4. WorkOK(p, work[p])'
        BY <1>1, <1>2, <1>5, <2>1, <2>3 DEF WorkOK, Alone, Knows, lease, Busy, Running, Stages, Deep,
           BeforeUpload, WithBuild, AfterVerification
    <2> QED BY <1>1, <1>3, <1>5, <2>1, <2>2, <2>4, GoesOnSwitched
<1>6. CASE workflow' = TRUE /\ next = "OK" /\ Over(p, Confirmed(work[p], "workflow", next))
    <2> HIDE DEF next
    <2> QED BY <1>1, <1>3, <1>4, <1>6, ConfirmedRecord, EndsSwitched
<1>7. CASE workflow' = TRUE /\ Over(p, Raised(work[p], "workflow", TRUE))
    BY <1>1, <1>3, <1>7, RaisedRecord, EndsSwitched
<1>8. CASE UNCHANGED workflow /\ Over(p, Raised(work[p], "workflow", FALSE))
    BY <1>1, <1>8, RaisedKeeps DEF remote
<1> QED BY <1>4, <1>5, <1>6, <1>7, <1>8

\* Automation comes back.
LEMMA AutomateKeeps == ASSUME SiteInv, NEW p \in Publishers, Automate(p) PROVE SiteInv'
<1> USE DEF Automate, Mutation, Switches
<1>1. work[p].stage = "automate" /\ work[p].stage \in Busy
    BY StagesApart DEF At
<1>2. automation' = TRUE => SwitchesFine
    BY DEF SwitchesFine, SiteInv, VariablesOK, SiteOK
<1>3. CASE automation' = TRUE /\ Over(p, Confirmed(work[p], "automation", "OK"))
    BY <1>1, <1>2, <1>3, ConfirmedRecord, EndsSwitched DEF Stages
<1>4. CASE automation' = TRUE /\ Over(p, Raised(work[p], "automation", TRUE))
    BY <1>1, <1>2, <1>4, RaisedRecord, EndsSwitched
<1>5. CASE UNCHANGED automation /\ Over(p, Raised(work[p], "automation", FALSE))
    BY <1>1, <1>5, RaisedKeeps DEF remote
<1> QED BY <1>3, <1>4, <1>5

\* A publisher stops where it is.
LEMMA StopKeeps == ASSUME SiteInv, NEW p \in Publishers, Stop(p) PROVE SiteInv'
<1>1. work[p].stage \in Busy
    BY DEF Stop, Busy
<1>2. [work[p] EXCEPT !.stage = "BLOCKED"] \in WorkRecords
      /\ [work[p] EXCEPT !.stage = "BLOCKED"].stage = "BLOCKED"
    BY <1>1, InStage DEF WorkRecords
<1> QED BY <1>1, <1>2, GivesUp DEF Stop

\* What Pages makes of an upload.
LEMMA Deployed ==
  ASSUME SiteInv, NEW built \in Built, NEW outcome \in Outcomes, Deploys(built, outcome)
  PROVE  /\ NewDeployment(built) \in Deployment
         /\ NewDeployment(built).commit = built.commit /\ NewDeployment(built).run = built.run
         /\ deployed' \in 0 .. MaxDeployments
BY SiteBounds DEF SiteInv, VariablesOK, Deploys, NewDeployment, Deployment, Built

\* An upload replaces the site that the gates saw, by a Run that is no older.
LEMMA UploadKeeps == ASSUME SiteInv, NEW p \in Publishers, Upload(p) PROVE SiteInv'
<1> USE DEF Switches
<1>1. work[p].stage = "upload" /\ work[p].stage \in Busy /\ work[p].stage \in Deep
    BY StagesApart DEF Upload, At, Deep
<1>2. /\ WorkOK(p, work[p]) /\ ~workflow /\ landing = Absent /\ ~automation
      /\ work[p].built \in Built /\ site.run <= work[p].built.run /\ work[p].built.run <= upstream
    BY <1>1, InStage DEF WorkOK, Alone, Knows, WithBuild
<1>3. feed.stage = "none"
    <2>1. PICK q \in Publishers : q # p
        BY DEF Publishers
    <2> QED BY <1>1, <2>1, Apart
<1>4. UNCHANGED <<approved, automation, workflow, rules, reviewed, upstream, releases>>
    BY DEF Upload, world
<1>5. ASSUME NEW outcome \in Outcomes, Deploys(work[p].built, outcome),
             UNCHANGED <<waiting, feed>>, holder' \in {holder, Absent}
      PROVE  VariablesOK' /\ SiteOK' /\ FeedOK'
    <2> DEFINE d == NewDeployment(work[p].built)
    <2>1. d \in Deployment /\ d.run = work[p].built.run /\ deployed' \in 0 .. MaxDeployments
        BY <1>2, <1>5, Deployed
    <2>2. \/ site' = d /\ landing' = Absent
          \/ site' = site /\ landing' \in {Absent, d}
        BY <1>2, <1>5 DEF Deploys, Outcomes
    <2> HIDE DEF d
    <2>3. site.run \in Nat /\ d.run \in Nat /\ upstream \in Nat
        BY <2>1, SiteBounds DEF SiteInv, SiteOK, VariablesOK, Deployment
    <2>4. SiteOK'
        BY <1>2, <1>4, <2>1, <2>2, <2>3, SiteBounds DEF SiteInv, SiteOK, Deployment
    <2>5. VariablesOK'
        BY <1>4, <1>5, <2>1 DEF SiteInv, VariablesOK
    <2>6. FeedOK'
        BY <1>3, <1>5 DEF SiteInv, FeedOK
    <2> QED BY <2>4, <2>5, <2>6
<1>6. ASSUME NEW w \in WorkRecords, work' = [work EXCEPT ![p] = w], UNCHANGED waiting,
             holder' = holder \/ (p = "app" /\ holder' = Absent)
      PROVE  /\ work' \in [Publishers -> WorkRecords] /\ work'[p] = w
             /\ \A q \in Publishers : q # p => WorkOK(q, work[q])'
    <2>1. work' \in [Publishers -> WorkRecords] /\ work'[p] = w
        BY <1>6 DEF SiteInv
    <2>2. ASSUME NEW q \in Publishers, q # p PROVE WorkOK(q, work[q])'
        <3>1. work'[q] = work[q]
            BY <1>6, <2>2 DEF SiteInv
        <3> QED BY <1>1, <1>4, <1>6, <2>2, <3>1, OtherFine
    <2> QED BY <2>1, <2>2
<1>7. CASE /\ Deploys(work[p].built, "done")
           /\ work' = [work EXCEPT ![p] = Confirmed(@, "production", "canonical-verification")]
           /\ UNCHANGED lease
    <2> DEFINE w == Confirmed(work[p], "production", "canonical-verification")
    <2>1. w \in WorkRecords /\ w.stage = "canonical-verification" /\ w.sha = work[p].sha
          /\ w.current = work[p].current /\ w.seen = work[p].seen
        BY <1>1, ConfirmedRecord DEF Stages
    <2>2. work' = [work EXCEPT ![p] = w]
        BY <1>7
    <2> HIDE DEF w
    <2>3. landing' = landing
        BY <1>7 DEF Deploys
    <2>4. UNCHANGED <<waiting, holder, feed>> /\ "done" \in Outcomes
        BY <1>7 DEF lease, Outcomes
    <2>5. work'[p] = w /\ work' \in [Publishers -> WorkRecords]
          /\ \A q \in Publishers : q # p => WorkOK(q, work[q])'
        BY <1>6, <2>1, <2>2, <2>4
    <2>6. WorkOK(p, work[p])'
        BY <1>1, <1>2, <1>4, <2>1, <2>3, <2>4, <2>5 DEF WorkOK, Alone, Knows, Busy, Running, Stages,
           Deep, BeforeUpload, WithBuild, AfterVerification
    <2>7. VariablesOK' /\ SiteOK' /\ FeedOK'
        BY <1>5, <1>7, <2>4
    <2> QED BY <2>5, <2>6, <2>7 DEF SiteInv
<1>8. ASSUME NEW outcome \in Outcomes, Deploys(work[p].built, outcome),
             Over(p, Raised(work[p], "production", outcome # "never"))
      PROVE  SiteInv'
    <2> DEFINE w == Raised(work[p], "production", outcome # "never")
    <2>1. w \in WorkRecords /\ w.stage = "BLOCKED"
        BY <1>1, RaisedRecord
    <2>2. work' = [work EXCEPT ![p] = w] /\ UNCHANGED <<waiting, feed>>
          /\ (holder' = holder \/ (p = "app" /\ holder' = Absent))
        BY <1>8 DEF Over, Released
    <2> HIDE DEF w
    <2>3. work'[p] = w /\ work' \in [Publishers -> WorkRecords]
          /\ \A q \in Publishers : q # p => WorkOK(q, work[q])'
        BY <1>6, <2>1, <2>2
    <2>4. WorkOK(p, work[p])'
        BY <2>1, <2>3 DEF WorkOK, Alone, Knows, Busy, Running, Stages, Deep, BeforeUpload, WithBuild,
           AfterVerification
    <2>5. VariablesOK' /\ SiteOK' /\ FeedOK'
        BY <1>5, <1>8, <2>2
    <2> QED BY <2>3, <2>4, <2>5 DEF SiteInv
<1>9. UNCHANGED lease \/ \E outcome \in Outcomes : Over(p, Raised(work[p], "production", outcome # "never"))
    BY DEF Upload
<1> QED BY <1>7, <1>8 DEF Upload

\* A step of a publisher keeps the invariant.
LEMMA PublisherKeeps == ASSUME SiteInv, NEW p \in Publishers, PublisherStep(p) PROVE SiteInv'
<1>1. CASE PrepareSnapshot(p) \/ PreparePlan(p) \/ PublishPlan(p)
    BY <1>1, EarlyGates
<1>2. CASE Pause(p)
    BY <1>2, PauseKeeps
<1>3. CASE Disable(p)
    BY <1>3, DisableKeeps
<1>4. CASE Quiesce(p)
    BY <1>4, QuiesceKeeps
<1>5. CASE \E intact \in BOOLEAN : FreshBuild(p, intact)
    BY <1>5, FreshBuildKeeps
<1>6. CASE PreUpload(p)
    BY <1>6, PreUploadKeeps
<1>7. CASE Upload(p)
    BY <1>7, UploadKeeps
<1>8. CASE VerifyPublished(p)
    BY <1>8, VerifyPublishedKeeps
<1>9. CASE Approve(p)
    BY <1>9, ApproveKeeps
<1>10. CASE VerifyApproved(p)
    BY <1>10, VerifyApprovedKeeps
<1>11. CASE Resume(p)
    BY <1>11, ResumeKeeps
<1>12. CASE Automate(p)
    BY <1>12, AutomateKeeps
<1>13. CASE Stop(p)
    BY <1>13, StopKeeps
<1> QED BY <1>1, <1>2, <1>3, <1>4, <1>5, <1>6, <1>7, <1>8, <1>9, <1>10, <1>11, <1>12, <1>13
        DEF PublisherStep
-----------------------------------------------------------------------------
(* Publications that start, and the feed.                                  *)

\* A publisher that is far from its upload knows nothing that can change.
LEMMA ShallowFine ==
  ASSUME SiteInv, NEW p \in Publishers, work'[p] = work[p], work[p].stage \notin Deep,
         p = "app" => work[p].stage \notin Busy \/ holder' \in Commits,
         p = "manual" /\ work[p].stage = "automate" => ~automation' /\ holder' \in {Absent, "feed"}
  PROVE  WorkOK(p, work[p])'
<1>1. WorkOK(p, work[p])
    BY DEF SiteInv
<1>2. work[p].stage \notin BeforeUpload \cup WithBuild \cup AfterVerification \cup {"resume"}
    BY StagesApart DEF Deep
<1>3. Alone(p, work[p].stage)'
    BY DEF Alone
<1>4. Knows(p, work[p])'
    BY <1>2 DEF Knows
<1> QED BY <1>1, <1>3, <1>4 DEF WorkOK

\* A record of a publication that begins.
LEMMA Begins ==
  ASSUME NEW sha \in Commits, NEW current \in Commits
  PROVE  LET w == [NoWork EXCEPT !.stage = "preflight", !.sha = sha, !.current = current]
         IN  w \in WorkRecords /\ w.stage = "preflight" /\ w.sha \in Commits /\ w.current \in Commits
BY DEF NoWork, WorkRecords, Stages, Switches

\* A publisher in its preflight is fine if it is the operator's, or holds the lease.
LEMMA PreflightFine ==
  ASSUME NEW p \in Publishers, NEW w \in WorkRecords, w.stage = "preflight",
         w.sha \in Commits, w.current \in Commits, p = "app" => holder \in Commits
  PROVE  WorkOK(p, w)
BY DEF WorkOK, Alone, Knows, Busy, Running, Deep, BeforeUpload, WithBuild, AfterVerification

\* An operator begins another publication.
LEMMA OperatorPreparesKeeps ==
  ASSUME SiteInv, NEW sha \in Commits, OperatorPrepares(sha) PROVE SiteInv'
<1> DEFINE w == [NoWork EXCEPT !.stage = "preflight", !.sha = sha, !.current = approved]
<1>1. w \in WorkRecords /\ w.stage = "preflight" /\ w.sha \in Commits /\ w.current \in Commits
    BY Begins DEF SiteInv, VariablesOK
<1>2. work' = [work EXCEPT !["manual"] = w]
    BY DEF OperatorPrepares
<1> HIDE DEF w
<1>3. "manual" \in Publishers /\ "manual" # "app"
    BY DEF Publishers
<1>4. WorkOK("manual", w)
    BY <1>1, <1>3, PreflightFine
<1> QED BY <1>2, <1>3, <1>4, OwnRecord DEF OperatorPrepares

\* The app workflow takes the lease: automation is on, so no operator is in the way.
LEMMA ReleaseRunStartsKeeps ==
  ASSUME SiteInv, NEW sha \in Commits, ReleaseRunStarts(sha) PROVE SiteInv'
<1>0. PICK w : w = [NoWork EXCEPT !.stage = "preflight", !.sha = sha, !.current = approved]
    OBVIOUS
<1>1. w \in WorkRecords /\ w.stage = "preflight" /\ w.sha \in Commits /\ w.current \in Commits
    BY <1>0, Begins DEF SiteInv, VariablesOK
<1>2. UNCHANGED <<remote, world, feed>> /\ holder = Absent /\ waiting' = waiting \ {sha}
    BY DEF ReleaseRunStarts
<1>3. feed.stage = "none"
    BY <1>2, SiteBounds DEF SiteInv, FeedOK
<1>4. SiteOK' /\ FeedOK'
    BY <1>2, <1>3 DEF SiteInv, SiteOK, FeedOK, remote, world
<1>5. CASE UNCHANGED <<holder, work>>
    <2>1. VariablesOK'
        BY <1>2, <1>5 DEF SiteInv, VariablesOK, remote, world
    <2>2. \A p \in Publishers : WorkOK(p, work[p])'
        BY <1>2, <1>5 DEF SiteInv, WorkOK, Alone, Knows, remote, world
    <2> QED BY <1>4, <1>5, <2>1, <2>2 DEF SiteInv
<1>6. CASE holder' = sha /\ automation /\ work' = [work EXCEPT !["app"] = w]
    <2>1. VariablesOK'
        BY <1>2, <1>6 DEF SiteInv, VariablesOK, remote, world
    <2>2. work' \in [Publishers -> WorkRecords] /\ work'["app"] = w /\ work'["manual"] = work["manual"]
        BY <1>1, <1>6 DEF SiteInv, Publishers
    <2>3. WorkOK("app", w)'
        BY <1>1, <1>6 DEF WorkOK, Alone, Knows, Busy, Running, Deep, BeforeUpload, WithBuild,
           AfterVerification
    <2>4. WorkOK("manual", work["manual"]) /\ Alone("manual", work["manual"].stage)
        BY DEF SiteInv, WorkOK, Publishers
    <2>5. work["manual"].stage \notin Deep \cup {"automate"}
        BY <1>6, <2>4 DEF Alone
    <2>6. WorkOK("manual", work["manual"])'
        BY <2>2, <2>5, ShallowFine DEF Publishers
    <2> QED BY <1>4, <2>1, <2>2, <2>3, <2>6 DEF SiteInv, Publishers
<1> QED BY <1>0, <1>5, <1>6 DEF ReleaseRunStarts

\* A feed run waits only while the feed workflow is on.
LEMMA FeedQueuedKeeps == ASSUME SiteInv, FeedQueued PROVE SiteInv'
<1>1. VariablesOK' /\ SiteOK' /\ FeedOK' /\ work' \in [Publishers -> WorkRecords]
    BY DEF SiteInv, VariablesOK, SiteOK, FeedOK, FeedQueued, remote, world
<1>2. ASSUME NEW p \in Publishers PROVE WorkOK(p, work[p])'
    <2>1. WorkOK(p, work[p]) /\ workflow
        BY DEF SiteInv, FeedQueued
    <2>2. work[p].stage \notin Deep
        BY <2>1 DEF WorkOK, Alone
    <2> QED BY <2>1, <2>2, ShallowFine DEF FeedQueued, WorkOK, Alone, remote
<1> QED BY <1>1, <1>2 DEF SiteInv

\* While the feed holds the lease no publisher is deep, and the app's is idle.
LEMMA FeedAlone ==
  ASSUME SiteInv, holder = "feed", NEW p \in Publishers
  PROVE  work[p].stage \notin Deep /\ (p = "app" => work[p].stage \notin Busy)
<1>1. Alone(p, work[p].stage)
    BY DEF SiteInv, WorkOK
<1>2. p = "app" => work[p].stage \notin Busy
    BY <1>1, SiteBounds DEF Alone
<1>3. p = "manual" => work[p].stage \notin Deep
    BY <1>1, SiteBounds DEF Alone
<1> QED BY <1>2, <1>3, StagesApart DEF Publishers

\* What the feed does leaves the publishers fine.
LEMMA FeedLeavesWork ==
  ASSUME SiteInv, holder = "feed", UNCHANGED <<work, automation>>, holder' \in {holder, Absent}
  PROVE  work' \in [Publishers -> WorkRecords] /\ \A p \in Publishers : WorkOK(p, work[p])'
<1>1. ASSUME NEW p \in Publishers PROVE WorkOK(p, work[p])'
    <2>1. Alone(p, work[p].stage)
        BY DEF SiteInv, WorkOK
    <2> QED BY <2>1, FeedAlone, ShallowFine DEF Alone
<1> QED BY <1>1 DEF SiteInv

\* A feed run takes the lease, from an operator who is not deep: deep, none waits.
LEMMA FeedStartsKeeps == ASSUME SiteInv, NEW dispatched \in BOOLEAN, FeedStarts(dispatched) PROVE SiteInv'
<1>1. /\ holder = Absent /\ "feed" \in waiting /\ waiting' = waiting \ {"feed"}
      /\ UNCHANGED <<site, landing, deployed, approved, automation, workflow, rules, reviewed, upstream,
                     releases, work>>
    BY DEF FeedStarts, FeedIdle, world
<1>2. \/ UNCHANGED <<holder, feed>>
      \/ holder' = "feed" /\ feed' = [NoFeed EXCEPT !.stage = "preflight", !.sha = approved]
    BY DEF FeedStarts
<1>3. feed.stage = "none"
    BY <1>1, SiteBounds DEF SiteInv, FeedOK
<1>4. VariablesOK' /\ SiteOK'
    BY <1>1, <1>2 DEF SiteInv, VariablesOK, SiteOK
<1>5. FeedOK'
    <2>1. CASE UNCHANGED <<holder, feed>>
        BY <1>1, <1>3, <2>1 DEF SiteInv, FeedOK
    <2>2. CASE holder' = "feed" /\ feed' = [NoFeed EXCEPT !.stage = "preflight", !.sha = approved]
        <3>1. approved \in Commits
            BY DEF SiteInv, VariablesOK
        <3>2. feed' \in Feeds /\ feed'.stage = "preflight" /\ feed'.sha = approved
            <4>1. feed' = [stage |-> "preflight", sha |-> approved, run |-> 0, intact |-> TRUE]
                BY <2>2 DEF NoFeed
            <4>2. 0 \in 0 .. MaxUpstream
                BY ONLY SiteBounds
            <4> QED BY <3>1, <4>1, <4>2 DEF Feeds
        <3> QED BY <2>2, <3>1, <3>2 DEF FeedOK
    <2> QED BY <1>2, <2>1, <2>2
<1>6. ASSUME NEW p \in Publishers PROVE WorkOK(p, work[p])'
    <2>1. WorkOK(p, work[p]) /\ Alone(p, work[p].stage)
        BY DEF SiteInv, WorkOK
    <2>2. p = "app" => work[p].stage \notin Busy
        BY <1>1, <2>1, SiteBounds DEF Alone
    <2>3. work[p].stage \notin Deep
        BY <1>1, <2>1, <2>2, StagesApart DEF Alone, Publishers
    <2>4. p = "manual" /\ work[p].stage = "automate" => ~automation' /\ holder' \in {Absent, "feed"}
        BY <1>1, <1>2, <2>1 DEF Alone
    <2> QED BY <1>1, <2>2, <2>3, <2>4, ShallowFine
<1> QED BY <1>1, <1>4, <1>5, <1>6 DEF SiteInv

\* The feed workflow gives up its lease.
LEMMA FeedOverKeeps ==
  ASSUME SiteInv, feed.stage # "none", FeedOver, FeedIdle, UNCHANGED waiting,
         VariablesOK', SiteOK'
  PROVE  SiteInv'
<1>1. holder = "feed" /\ UNCHANGED <<work, automation>> /\ holder' = Absent
    BY DEF SiteInv, FeedOK, FeedOver, FeedIdle
<1>2. FeedOK'
    <2>1. feed' = [stage |-> "none", sha |-> Absent, run |-> 0, intact |-> TRUE]
        BY DEF FeedOver, NoFeed
    <2>2. 0 \in 0 .. MaxUpstream
        BY ONLY SiteBounds
    <2> QED BY <2>1, <2>2 DEF FeedOK, Feeds
<1> QED BY <1>1, <1>2, FeedLeavesWork DEF SiteInv

\* A gate of the feed keeps the invariant if the run it goes on with is fine.
LEMMA FeedGoKeeps ==
  ASSUME SiteInv, NEW stage \in {"preflight", "produce", "gate", "upload"}, NEW guard, NEW next,
         FeedGo(stage, guard, next), guard => FeedOK'
  PROVE  SiteInv'
<1>1. /\ feed.stage # "none" /\ feed.stage = stage /\ FeedIdle
      /\ UNCHANGED <<waiting, site, landing, deployed, siteFaults>>
    BY DEF FeedGo
<1>2. holder = "feed" /\ holder' \in {holder, Absent}
    BY <1>1 DEF SiteInv, FeedOK, FeedGo, FeedOver
<1>3. VariablesOK' /\ SiteOK'
    BY <1>1, <1>2 DEF SiteInv, VariablesOK, SiteOK, FeedIdle, world
<1>4. CASE guard
    <2>1. work' \in [Publishers -> WorkRecords] /\ \A p \in Publishers : WorkOK(p, work[p])'
        BY <1>1, <1>2, FeedLeavesWork DEF FeedIdle
    <2> QED BY <1>3, <1>4, <2>1 DEF SiteInv
<1>5. CASE ~guard
    BY <1>1, <1>3, <1>5, FeedOverKeeps DEF FeedGo
<1> QED BY <1>4, <1>5

\* The feed's gates: a newer Run, the approved application, nothing in flight.
LEMMA FeedGatesKeep ==
  ASSUME SiteInv, FeedPreflight \/ (\E intact \in BOOLEAN : FeedProduce(intact)) \/ FeedGate
  PROVE  SiteInv'
<1>0. upstream \in 1 .. MaxUpstream /\ feed \in Feeds /\ MaxUpstream \in Nat
    BY SiteBounds DEF SiteInv, VariablesOK, FeedOK
<1>1. CASE FeedPreflight
    <2> DEFINE next == [feed EXCEPT !.stage = "produce", !.run = upstream]
    <2>1. FeedGo("preflight", upstream > site.run, next)
        BY <1>1 DEF FeedPreflight
    <2>2. feed.stage = "preflight"
        BY <2>1 DEF FeedGo
    <2>5. upstream \in 0 .. MaxUpstream
        BY ONLY <1>0
    <2>3. next \in Feeds /\ next.stage = "produce" /\ next.run = upstream /\ next.sha = feed.sha
        BY <1>0, <2>5 DEF Feeds
    <2> HIDE DEF next
    <2>4. ASSUME upstream > site.run PROVE FeedOK'
        <3>1. feed' = next /\ UNCHANGED <<holder, upstream>> /\ holder = "feed" /\ feed.sha \in Commits
            BY <2>1, <2>2, <2>4 DEF FeedGo, FeedIdle, world, SiteInv, FeedOK
        <3>2. upstream \in 1 .. upstream
            BY ONLY <1>0
        <3> QED BY <2>3, <3>1, <3>2 DEF FeedOK
    <2> QED BY <2>1, <2>4, FeedGoKeeps
<1>2. ASSUME NEW intact \in BOOLEAN, FeedProduce(intact) PROVE SiteInv'
    <2> DEFINE next == [feed EXCEPT !.stage = "gate", !.intact = intact]
               guard == Identified(feed.sha) /\ upstream = feed.run
    <2>1. FeedGo("produce", guard, next) /\ landing = Absent
        BY <1>2 DEF FeedProduce, TargetSafe
    <2>2. feed.stage = "produce"
        BY <2>1 DEF FeedGo
    <2>3. next \in Feeds /\ next.stage = "gate" /\ next.run = feed.run /\ next.sha = feed.sha
        BY <1>0 DEF Feeds
    <2> HIDE DEF next
    <2>4. ASSUME guard PROVE FeedOK'
        <3>1. feed' = next /\ UNCHANGED <<holder, upstream, landing>> /\ holder = "feed"
              /\ feed.sha \in Commits /\ feed.run \in 1 .. upstream
            BY <2>1, <2>2, <2>4 DEF FeedGo, FeedIdle, world, SiteInv, FeedOK
        <3> QED BY <2>1, <2>3, <3>1 DEF FeedOK
    <2> HIDE DEF guard
    <2> QED BY <2>1, <2>4, FeedGoKeeps
<1>3. CASE FeedGate
    <2> DEFINE next == [feed EXCEPT !.stage = "upload"]
               guard == feed.intact /\ site.commit = feed.sha /\ feed.run > site.run
    <2>1. FeedGo("gate", guard, next)
        BY <1>3 DEF FeedGate
    <2>2. feed.stage = "gate"
        BY <2>1 DEF FeedGo
    <2>3. next \in Feeds /\ next.stage = "upload" /\ next.run = feed.run /\ next.sha = feed.sha
        BY <1>0 DEF Feeds
    <2> HIDE DEF next
    <2>4. ASSUME guard PROVE FeedOK'
        <3>1. feed' = next /\ UNCHANGED <<holder, upstream, landing, site>> /\ holder = "feed"
              /\ feed.sha \in Commits /\ feed.run \in 1 .. upstream /\ landing = Absent
            BY <2>1, <2>2, <2>4 DEF FeedGo, FeedIdle, world, SiteInv, FeedOK
        <3>2. feed.sha = site.commit /\ feed.run > site.run
            BY <2>4
        <3> QED BY <2>3, <3>1, <3>2 DEF FeedOK
    <2> HIDE DEF guard
    <2> QED BY <2>1, <2>4, FeedGoKeeps
<1> QED BY <1>1, <1>2, <1>3

\* A renewal serves the same application from a newer Run.
LEMMA FeedUploadKeeps == ASSUME SiteInv, FeedUpload PROVE SiteInv'
<1> DEFINE built == [commit |-> feed.sha, run |-> feed.run, intact |-> feed.intact]
           d == NewDeployment(built)
<1>1. PICK outcome \in Outcomes : Deploys(built, outcome)
    BY DEF FeedUpload, Outcomes
<1>2. /\ feed.stage = "upload" /\ FeedOver /\ UNCHANGED waiting /\ FeedIdle
    BY DEF FeedUpload
<1>3. /\ feed \in Feeds /\ feed.sha \in Commits /\ feed.run \in 1 .. upstream /\ landing = Absent
      /\ feed.sha = site.commit /\ feed.run > site.run
    BY <1>2 DEF SiteInv, FeedOK
<1>4. upstream \in 1 .. MaxUpstream /\ MaxUpstream \in Nat
    BY SiteBounds DEF SiteInv, VariablesOK
<1>5. feed.run \in 1 .. MaxUpstream /\ feed.run \in Nat /\ upstream \in Nat /\ feed.run <= upstream
    BY ONLY <1>3, <1>4
<1>6. built \in Built /\ built.commit = site.commit /\ built.run = feed.run
    BY <1>3, <1>5 DEF Built, Feeds
<1> HIDE DEF built
<1>7. d \in Deployment /\ d.commit = site.commit /\ d.run = feed.run /\ deployed' \in 0 .. MaxDeployments
    BY <1>1, <1>6, Deployed
<1>8. \/ site' = d /\ landing' = Absent
      \/ site' = site /\ landing' \in {Absent, d}
    BY <1>1, <1>3 DEF Deploys, Outcomes
<1> HIDE DEF d
<1>9. UNCHANGED <<approved, automation, workflow, rules, reviewed, upstream, releases>> /\ holder' = Absent
    BY <1>2 DEF FeedIdle, FeedOver, world
<1>10. site.run \in Nat
    BY SiteBounds DEF SiteInv, SiteOK, Deployment
<1>11. SiteOK'
    BY <1>3, <1>5, <1>7, <1>8, <1>9, <1>10, SiteBounds DEF SiteInv, SiteOK
<1>12. VariablesOK'
    BY <1>2, <1>7, <1>9 DEF SiteInv, VariablesOK
<1> QED BY <1>2, <1>11, <1>12, FeedOverKeeps

\* A step of the feed keeps the invariant.
LEMMA FeedKeeps == ASSUME SiteInv, FeedStep PROVE SiteInv'
<1>1. CASE FeedFails
    <2>1. /\ feed.stage # "none" /\ FeedOver /\ FeedIdle /\ UNCHANGED waiting
          /\ UNCHANGED <<site, landing, deployed>>
        BY <1>1 DEF FeedFails
    <2>2. VariablesOK' /\ SiteOK'
        BY <2>1 DEF SiteInv, VariablesOK, SiteOK, FeedIdle, FeedOver, world
    <2> QED BY <2>1, <2>2, FeedOverKeeps
<1> QED BY <1>1, FeedQueuedKeeps, FeedStartsKeeps, FeedGatesKeep, FeedUploadKeeps DEF FeedStep

-----------------------------------------------------------------------------
(* Everybody else, and the theorems.                                       *)

\* What changes neither the site, the switches, the lease nor a publisher.
LEMMA WorldKeeps ==
  ASSUME SiteInv, UNCHANGED <<site, landing, deployed, approved, automation, workflow, holder, feed, work>>,
         upstream' \in upstream .. MaxUpstream, rules' \in RulesOf, reviewed' \subseteq Reviewed,
         releases' \subseteq Commits, waiting' \subseteq waiting \cup Commits
  PROVE  SiteInv'
<1>1. /\ upstream \in 1 .. MaxUpstream /\ MaxUpstream \in Nat
      /\ site \in Deployment /\ landing \in Deployment \cup {Absent} /\ feed \in Feeds
    BY SiteBounds DEF SiteInv, VariablesOK, SiteOK, FeedOK
<1>2. upstream' \in 1 .. MaxUpstream /\ upstream \in Nat /\ upstream' \in Nat /\ upstream <= upstream'
    BY ONLY <1>1, upstream' \in upstream .. MaxUpstream
<1>3. VariablesOK'
    BY <1>2 DEF SiteInv, VariablesOK
<1>4. SiteOK'
    BY <1>1, <1>2 DEF SiteInv, SiteOK, Deployment
<1>5. FeedOK'
    BY <1>1, <1>2 DEF SiteInv, FeedOK, Feeds
<1>6. ASSUME NEW p \in Publishers PROVE WorkOK(p, work[p])'
    <2>1. WorkOK(p, work[p]) /\ ("feed" \notin waiting => "feed" \notin waiting')
        BY SiteBounds DEF SiteInv
    <2>2. Alone(p, work[p].stage)'
        BY <2>1 DEF WorkOK, Alone
    <2>3. Knows(p, work[p])'
        BY <1>2, <2>1 DEF WorkOK, Knows, Built
    <2> QED BY <2>1, <2>2, <2>3 DEF WorkOK
<1> QED BY <1>3, <1>4, <1>5, <1>6 DEF SiteInv

\* An upload lands late, or never: nobody is deep, and the feed saw none in flight.
LEMMA LandKeeps == ASSUME SiteInv, Land PROVE SiteInv'
<1>1. /\ landing # Absent /\ landing' = Absent /\ site' \in {site, landing}
      /\ UNCHANGED <<approved, automation, workflow, deployed, rules, reviewed, upstream, releases,
                     waiting, holder, feed, work>>
    BY DEF Land, world, lease
<1>2. VariablesOK' /\ SiteOK'
    BY <1>1 DEF SiteInv, VariablesOK, SiteOK
<1>3. FeedOK'
    BY <1>1 DEF SiteInv, FeedOK
<1>4. ASSUME NEW p \in Publishers PROVE WorkOK(p, work[p])'
    <2>1. Alone(p, work[p].stage)
        BY DEF SiteInv, WorkOK
    <2>2. work[p].stage \notin Deep
        BY <1>1, <2>1 DEF Alone
    <2> QED BY <1>1, <2>1, <2>2, ShallowFine, StagesApart DEF Alone
<1> QED BY <1>1, <1>2, <1>3, <1>4 DEF SiteInv

\* The owner pauses automation, or puts it right when nothing runs or is in flight.
LEMMA OwnerKeeps == ASSUME SiteInv, OwnerPauses \/ OwnerReconciles PROVE SiteInv'
<1>1. CASE OwnerPauses
    <2>1. automation' = FALSE /\ UNCHANGED <<approved, workflow, rules, reviewed, site, landing,
             deployed, upstream, releases, waiting, holder, feed, work>>
        BY <1>1 DEF OwnerPauses, OwnerActs, lease
    <2>2. VariablesOK' /\ SiteOK' /\ FeedOK'
        BY <2>1 DEF SiteInv, VariablesOK, SiteOK, FeedOK
    <2>3. ASSUME NEW p \in Publishers PROVE WorkOK(p, work[p])'
        BY <2>1 DEF SiteInv, WorkOK, Alone, Knows
    <2> QED BY <2>1, <2>2, <2>3 DEF SiteInv
<1>2. CASE OwnerReconciles
    <2>1. /\ work["manual"].stage \notin Running /\ holder = Absent /\ landing = Absent
          /\ approved' = site.commit /\ automation' = TRUE /\ workflow' = TRUE
          /\ UNCHANGED <<rules, reviewed, site, landing, deployed, upstream, releases, waiting, holder,
                         feed, work>>
        BY <1>2 DEF OwnerReconciles, OwnerActs, lease
    <2>2. feed.stage = "none"
        BY <2>1, SiteBounds DEF SiteInv, FeedOK
    <2>3. SiteOK'
        BY <2>1 DEF SiteInv, SiteOK
    <2>4. FeedOK'
        BY <2>1, <2>2 DEF SiteInv, FeedOK
    <2>5. approved' \in Commits
        BY <2>1 DEF SiteInv, SiteOK, Deployment
    <2>6. VariablesOK'
        BY <2>1, <2>5 DEF SiteInv, VariablesOK
    <2>7. ASSUME NEW p \in Publishers PROVE WorkOK(p, work[p])'
        <3>1. Alone(p, work[p].stage)
            BY DEF SiteInv, WorkOK
        <3>2. p = "app" => work[p].stage \notin Busy
            BY <2>1, <3>1, SiteBounds DEF Alone
        <3>3. p = "manual" => work[p].stage \notin Deep \cup {"automate"}
            BY <2>1 DEF Deep, Running, Stages
        <3>4. work[p].stage \notin Deep
            BY <3>2, <3>3, StagesApart DEF Publishers
        <3> QED BY <2>1, <3>2, <3>3, <3>4, ShallowFine
    <2> QED BY <2>1, <2>3, <2>4, <2>6, <2>7 DEF SiteInv
<1> QED BY <1>1, <1>2

\* Every step keeps the invariant.
LEMMA SiteNextKeeps == ASSUME SiteInv, PublicationNext PROVE SiteInv'
<1> USE DEF remote, world, lease
<1>0. /\ upstream \in 1 .. MaxUpstream /\ upstream \in upstream .. MaxUpstream /\ rules \in RulesOf
      /\ reviewed \subseteq Reviewed /\ releases \subseteq Commits
    <2>1. upstream \in 1 .. MaxUpstream /\ MaxUpstream \in Nat
        BY SiteBounds DEF SiteInv, VariablesOK
    <2>2. upstream \in upstream .. MaxUpstream
        BY ONLY <2>1
    <2> QED BY <2>1, <2>2 DEF SiteInv, VariablesOK
<1>1. ASSUME NEW sha \in Commits, PublishRelease(sha) \/ WithdrawRelease(sha) \/ OwnerDeploysRules(sha)
      PROVE  SiteInv'
    BY <1>0, <1>1, WorldKeeps DEF PublishRelease, WithdrawRelease, OwnerDeploysRules, OwnerActs, RulesOf
<1>2. CASE NewRun
    <2>1. upstream' \in upstream .. MaxUpstream
        <3>1. upstream' = upstream + 1 /\ upstream < MaxUpstream
            BY <1>2 DEF NewRun
        <3> QED BY ONLY <1>0, <3>1, SiteBounds
    <2> QED BY <1>0, <1>2, <2>1, WorldKeeps DEF NewRun
<1>3. CASE OwnerWithdrawsReview
    BY <1>0, <1>3, WorldKeeps DEF OwnerWithdrawsReview, OwnerActs
<1>4. CASE OwnerPauses \/ OwnerReconciles
    BY <1>4, OwnerKeeps
<1>5. CASE \E sha \in Commits : OperatorPrepares(sha) \/ ReleaseRunStarts(sha)
    BY <1>5, OperatorPreparesKeeps, ReleaseRunStartsKeeps
<1> QED BY <1>1, <1>2, <1>3, <1>4, <1>5, PublisherKeeps, FeedKeeps, LandKeeps DEF PublicationNext

\* A step that changes nothing keeps it too.
LEMMA StutterKeeps == ASSUME SiteInv, UNCHANGED pubVars PROVE SiteInv'
BY DEF pubVars, SiteInv, VariablesOK, SiteOK, FeedOK, WorkOK, Alone, Knows

\* The inductive invariant holds throughout, for any commits, contracts and bounds.
THEOREM PublicationInductive == PublicationSpec => []SiteInv
<1>1. SiteInv /\ [PublicationNext]_pubVars => SiteInv'
    BY SiteNextKeeps, StutterKeeps
<1> QED BY SiteInit, <1>1, PTL DEF PublicationSpec

\* Recurring publication is open only on a site that serves what is approved:
\* StaticPublication's OpenMeansApproved.
THEOREM OpenServesApproved == PublicationSpec => []OpenMeansApproved
<1>1. SiteInv => OpenMeansApproved
    BY SiteTypes DEF OpenMeansApproved, SiteInv, SiteOK
<1> QED BY <1>1, PublicationInductive, PTL

\* No step lets the site serve an older Run.
LEMMA RunsNeverFallBack == ASSUME SiteInv, [PublicationNext]_pubVars PROVE site'.run >= site.run
<1>1. site.run \in Nat /\ (landing # Absent => landing.run \in Nat /\ site.run <= landing.run)
    BY SiteBounds DEF SiteInv, SiteOK, Deployment
<1>2. CASE UNCHANGED site
    BY <1>1, <1>2
<1>3. ASSUME NEW p \in Publishers, Upload(p) PROVE site'.run >= site.run
    <2>1. work[p].stage = "upload"
        BY <1>3 DEF Upload, At
    <2>2. site.run <= work[p].built.run /\ work[p].built \in Built
        BY <2>1, StagesApart DEF SiteInv, WorkOK, Knows, WithBuild
    <2>3. site' = site \/ site' = NewDeployment(work[p].built)
        BY <1>3 DEF Upload, Deploys
    <2> QED BY <1>1, <2>2, <2>3, SiteBounds DEF NewDeployment, Built
<1>4. CASE FeedUpload
    <2>1. feed \in Feeds /\ feed.run > site.run
        BY <1>4 DEF FeedUpload, SiteInv, FeedOK
    <2>2. site' = site \/ site'.run = feed.run
        BY <1>4 DEF FeedUpload, Deploys, NewDeployment
    <2> QED BY <1>1, <2>1, <2>2, SiteBounds DEF Feeds
<1>5. CASE Land
    BY <1>1, <1>5 DEF Land
<1>6. UNCHANGED site \/ (\E p \in Publishers : Upload(p)) \/ FeedUpload \/ Land
    <2> USE DEF remote, pubVars
    <2>1. ASSUME NEW p \in Publishers, PublisherStep(p), ~Upload(p) PROVE UNCHANGED site
        BY <2>1 DEF PublisherStep, PrepareSnapshot, PreparePlan, PublishPlan, Pause, Disable, Quiesce,
           FreshBuild, PreUpload, VerifyPublished, Approve, VerifyApproved, Resume, Automate, Stop,
           Gate, Mutation
    <2>2. ASSUME FeedStep, ~FeedUpload PROVE UNCHANGED site
        BY <2>2 DEF FeedStep, FeedQueued, FeedStarts, FeedPreflight, FeedProduce, FeedGate, FeedFails,
           FeedGo
    <2>3. ASSUME NEW sha \in Commits,
                 \/ OperatorPrepares(sha) \/ ReleaseRunStarts(sha) \/ PublishRelease(sha)
                 \/ WithdrawRelease(sha) \/ OwnerDeploysRules(sha)
          PROVE  UNCHANGED site
        BY <2>3 DEF OperatorPrepares, ReleaseRunStarts, PublishRelease, WithdrawRelease,
           OwnerDeploysRules, OwnerActs
    <2>4. ASSUME NewRun \/ OwnerPauses \/ OwnerReconciles \/ OwnerWithdrawsReview
          PROVE  UNCHANGED site
        BY <2>4 DEF NewRun, OwnerPauses, OwnerReconciles, OwnerWithdrawsReview, OwnerActs
    <2> QED BY <2>1, <2>2, <2>3, <2>4 DEF PublicationNext
<1> QED BY <1>2, <1>3, <1>4, <1>5, <1>6

\* Whatever was decided before an upload still holds at the moment of it, and no
\* publication serves an older Run: StaticPublication's UploadsAreCurrent.
THEOREM UploadsCurrent == PublicationSpec => UploadsAreCurrent
<1> DEFINE A == (\A p \in Publishers : NoBlindUpload(p)) /\ NoUnattendedDowngrade /\ FeedKeepsApplication
<1>1. ASSUME SiteInv, [PublicationNext]_pubVars PROVE A
    <2>1. ASSUME NEW p \in Publishers, work[p].stage = "upload"
          PROVE  /\ site.commit = work[p].current /\ site.id = work[p].seen.id /\ landing = Absent
                 /\ p = "app" => Newer(work[p].sha, work[p].current)
        BY <1>1, <2>1 DEF SiteInv, WorkOK, Alone, Knows, Deep, BeforeUpload
    <2>2. \A p \in Publishers : NoBlindUpload(p)
        BY <2>1 DEF NoBlindUpload, At
    <2>3. NoUnattendedDowngrade
        BY <2>1 DEF NoUnattendedDowngrade, At, Publishers
    <2>4. FeedKeepsApplication
        BY <1>1, RunsNeverFallBack DEF FeedKeepsApplication, SiteInv, FeedOK
    <2> QED BY <2>2, <2>3, <2>4
<1>2. SiteInv /\ [PublicationNext]_pubVars => [A]_pubVars
    BY <1>1
<1> QED BY <1>2, PublicationInductive, PTL DEF PublicationSpec, UploadsAreCurrent

================================================================================
