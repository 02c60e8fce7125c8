---------------------------- MODULE OwnerStorage -----------------------------
(***************************************************************************)
(* The server's file repository for one owner                              *)
(* (src/src/autonavlog/storage/local.py over storage/safe_json.py).  An    *)
(* operation runs under the repository's lock and is a sequence of atomic  *)
(* file replacements: the files of a Project, the index of all Projects,   *)
(* the owner's marker, the deletions the marker announces.  Each of them   *)
(* may raise, the process may die between two of them, and a file may be   *)
(* found unreadable.  A copy of a Project is abstracted to its revision.   *)
(***************************************************************************)
EXTENDS Naturals, FiniteSets, Sequences

CONSTANTS Projects,      \* Project ids of the owner
          MaxRevision,   \* bound: explicit saves of a Project
          MaxFaults,     \* bound: crashes, failing writes and deletions
          MaxRot,        \* bound: files found unreadable
          None,          \* no Project, no file, no marker
          Corrupt        \* bytes that do not parse or validate

ASSUME StorageAssumption == /\ MaxRevision \in Nat /\ MaxFaults \in Nat /\ MaxRot \in Nat
                            /\ None \notin Projects /\ None # Corrupt
                            /\ {None, Corrupt} \cap (0 .. MaxRevision) = {}

VARIABLES files,    \* [Projects -> [autosave, checkpoint, backup]]
          index,    \* ids in projects/index.json, or Corrupt
          marker,   \* the owner's state.json
          op,       \* the operation that holds the lock and its next effect
          fresh,    \* TRUE from a restart until the first listing
          known,    \* Projects a session has created
          top,      \* highest revision a session may know of a Project
          storageFaults, rot

storageVars == <<files, index, marker, op, fresh, known, top, storageFaults, rot>>

Revisions == 0 .. MaxRevision
Missing == None
FileNames == {"autosave", "checkpoint", "backup"}
Marker == [schema : {1, 2}, opened : Projects \cup {None}, latest : Projects \cup {None},
           pending : SUBSET Projects]
NewMarker == [schema |-> 2, opened |-> None, latest |-> None, pending |-> {}]
Idle == [name |-> "idle"]
NoFiles == [autosave |-> Missing, checkpoint |-> Missing, backup |-> Missing]

Readable(copy) == copy \notin {Missing, Corrupt}

StorageTypeOK ==
  /\ files \in [Projects -> [FileNames -> Revisions \cup {Missing, Corrupt}]]
  /\ index = Corrupt \/ index \subseteq Projects
  /\ marker \in Marker \cup {None, Corrupt}
  /\ op.name \in {"idle", "autosave", "save", "list", "delete"}
  /\ known \subseteq Projects /\ top \in [Projects -> Revisions]

(* An owner of an older release has a version 1 marker. *)
StorageInit ==
  /\ \/ /\ files = [p \in Projects |-> NoFiles] /\ index = {} /\ known = {} /\ marker = None
     \/ \E p \in Projects :
          /\ files = [q \in Projects |-> IF q = p THEN [NoFiles EXCEPT !.autosave = 0] ELSE NoFiles]
          /\ index = {p} /\ known = {p}
          /\ marker = [NewMarker EXCEPT !.schema = 1, !.opened = p]
  /\ op = Idle /\ fresh = FALSE
  /\ top = [p \in Projects |-> 0]
  /\ storageFaults = 0 /\ rot = 0

(* _checkpoint_summary_locked: project.json, then its backup. *)
HasCheckpoint(p) == Readable(files[p].checkpoint) \/ Readable(files[p].backup)
\* (broken) any Project with a readable draft counts as one never saved
AutosaveOnlyDraft(p) == Readable(files[p].autosave)

AutosaveOnly(p) == ~HasCheckpoint(p) /\ Readable(files[p].autosave)
Present(p) == \E name \in FileNames : files[p][name] # Missing

(* _scan_projects *)
Scan == {p \in Projects : HasCheckpoint(p) \/ Readable(files[p].autosave)}
KnownIndex == IF index = Corrupt THEN Scan ELSE index

(* _load_with_recovery_locked: the revision loaded, Missing for not found, *)
(* Corrupt when it raises.                                                 *)
Checkpoint(p) == IF Readable(files[p].checkpoint) THEN files[p].checkpoint ELSE files[p].backup
\* (broken) a draft is always preferred to the checkpoint
LoadedDraftFirst(p) ==
  IF Readable(files[p].autosave) THEN files[p].autosave ELSE Checkpoint(p)

Loaded(p) ==
  IF Checkpoint(p) = Corrupt THEN Corrupt
  ELSE IF Readable(files[p].autosave)
  THEN IF Readable(Checkpoint(p)) /\ Checkpoint(p) > files[p].autosave
       THEN Checkpoint(p) ELSE files[p].autosave
  ELSE Checkpoint(p)

(* _read_owner_state_locked: a version 1 marker becomes a version 2 one. *)
Migrated(m) ==
  IF m.schema = 2 THEN m
  ELSE [NewMarker EXCEPT !.opened = m.opened,
                         !.latest = IF AutosaveOnly(m.opened) THEN m.opened ELSE None]
ReadMarker == IF marker \in {None, Corrupt} THEN marker ELSE Migrated(marker)

Fault == storageFaults < MaxFaults /\ storageFaults' = storageFaults + 1

(* --- autosave: file, index, marker, cleanup ---------------------------- *)
(* set_last_opened comes with the confirmation of a new route; any other   *)
(* autosave is of a Project some session holds, perhaps one that another   *)
(* tab has saved, replaced or deleted since.                               *)
Autosave(p, rev, setOpened) ==
  /\ op = Idle /\ ~fresh
  /\ setOpened <=> p \notin known
  /\ rev <= top[p]
  /\ files' = [files EXCEPT ![p].autosave = rev]
  /\ known' = known \cup {p}
  /\ op' = [name |-> "autosave", project |-> p, next |-> "index", setOpened |-> setOpened]
  /\ UNCHANGED <<index, marker, fresh, top, storageFaults, rot>>

(* _update_index *)
UpdateIndex ==
  /\ op.name \in {"autosave", "save"} /\ op.next = "index"
  /\ index' = KnownIndex \cup {op.project}
  /\ op' = [op EXCEPT !.next = "marker"]
  /\ UNCHANGED <<files, marker, fresh, known, top, storageFaults, rot>>

Cleaning(name, pending) ==
  [name |-> name, next |-> "cleanup", todo |-> pending, remaining |-> {}]

Committed(m, p, setOpened) ==
  [schema |-> 2,
   opened |-> IF setOpened THEN p ELSE m.opened,
   latest |-> IF HasCheckpoint(p) THEN None ELSE p,
   pending |-> m.pending \cup ({m.latest} \ {p, None})]

AutosaveMarker ==
  /\ op.name = "autosave" /\ op.next = "marker"
  /\ LET read == IF ReadMarker = None \/ (ReadMarker = Corrupt /\ op.setOpened)
                 THEN NewMarker ELSE ReadMarker
     IN IF read = Corrupt
        THEN op' = Idle /\ UNCHANGED marker
        ELSE IF ~op.setOpened /\ read.opened # op.project
        THEN /\ op' = Idle
             /\ marker' = IF marker = None THEN None ELSE read
        ELSE /\ marker' = Committed(read, op.project, op.setOpened)
             /\ op' = Cleaning("autosave", marker'.pending)
  /\ UNCHANGED <<files, index, fresh, known, top, storageFaults, rot>>

(* --- _cleanup_pending_locked ------------------------------------------- *)
Cleanup(p) ==
  /\ op.name \in {"autosave", "save", "list"} /\ op.next = "cleanup"
  /\ p \in op.todo
  /\ IF AutosaveOnly(p)
     THEN \/ /\ files' = [files EXCEPT ![p] = NoFiles]
             /\ index' = KnownIndex \ {p}
             /\ op' = [op EXCEPT !.todo = @ \ {p}]
             /\ UNCHANGED storageFaults
          \/ /\ Fault
             /\ files' \in {files, [files EXCEPT ![p] = NoFiles]}
             /\ op' = [op EXCEPT !.todo = @ \ {p}, !.remaining = @ \cup {p}]
             /\ UNCHANGED index
     ELSE /\ op' = [op EXCEPT !.todo = @ \ {p}]
          /\ UNCHANGED <<files, index, storageFaults>>
  /\ UNCHANGED <<marker, fresh, known, top, rot>>

(* The marker forgets what was cleaned; a listing then reads the index and *)
(* rebuilds one it cannot read.                                            *)
CleanupDone ==
  /\ op.name \in {"autosave", "save", "list"} /\ op.next = "cleanup"
  /\ op.todo = {}
  /\ \/ /\ marker' = IF marker \in {None, Corrupt} THEN marker
                     ELSE [Migrated(marker) EXCEPT !.pending = op.remaining]
        /\ UNCHANGED storageFaults
     \/ Fault /\ UNCHANGED marker
  /\ index' = IF op.name = "list" THEN KnownIndex ELSE index
  /\ fresh' = (fresh /\ op.name # "list")
  /\ op' = Idle
  /\ UNCHANGED <<files, known, top, rot>>

(* --- list_projects ----------------------------------------------------- *)
List ==
  /\ op = Idle
  /\ marker' = ReadMarker
  /\ op' = Cleaning("list", IF ReadMarker \in {None, Corrupt} THEN {} ELSE ReadMarker.pending)
  /\ UNCHANGED <<files, index, fresh, known, top, storageFaults, rot>>

(* --- save -------------------------------------------------------------- *)
(* A conflict writes a copy nobody reads again, and raises; so does a      *)
(* checkpoint that cannot be read, or a missing one with a revision.       *)
MaySave(p, rev) == IF files[p].checkpoint = Missing THEN rev = 0
                   ELSE files[p].checkpoint = rev

Save(p, rev) ==
  /\ op = Idle /\ ~fresh
  /\ p \in known /\ rev <= top[p] /\ rev < MaxRevision
  /\ MaySave(p, rev)
  /\ files' = [files EXCEPT ![p].backup = IF files[p].checkpoint = Missing THEN @
                                          ELSE files[p].checkpoint,
                            ![p].checkpoint = rev + 1]
  /\ top' = [top EXCEPT ![p] = IF rev + 1 > @ THEN rev + 1 ELSE @]
  /\ op' = [name |-> "save", project |-> p, next |-> "index"]
  /\ UNCHANGED <<index, marker, fresh, known, storageFaults, rot>>

(* A marker that cannot be read or written does not undo the save. *)
SaveMarker ==
  /\ op.name = "save" /\ op.next = "marker"
  /\ IF ReadMarker \in {None, Corrupt}
     THEN op' = Idle /\ UNCHANGED marker
     ELSE /\ marker' = IF ReadMarker.latest = op.project
                       THEN [ReadMarker EXCEPT !.latest = None] ELSE ReadMarker
          /\ op' = Cleaning("save", ReadMarker.pending)
  /\ UNCHANGED <<files, index, fresh, known, top, storageFaults, rot>>

(* --- load, and the selection of what to restore ------------------------ *)
Load(p) ==
  /\ op = Idle
  /\ Readable(Loaded(p))
  /\ index' = IF \/ ~Readable(files[p].autosave) /\ files[p].checkpoint # Checkpoint(p)
                 \/ files[p].autosave = Corrupt
                 \/ Readable(files[p].autosave) /\ Loaded(p) # files[p].autosave
              THEN KnownIndex \cup {p} ELSE index
  /\ UNCHANGED <<files, marker, op, fresh, known, top, storageFaults, rot>>

(* set_owner_project, after the facade has loaded the Project. *)
SetOwnerProject(p) ==
  /\ op = Idle /\ ~fresh
  /\ p \in known
  /\ Readable(Loaded(p))
  /\ ReadMarker # Corrupt
  /\ marker' = [(IF ReadMarker = None THEN NewMarker ELSE ReadMarker) EXCEPT !.opened = p]
  /\ UNCHANGED <<files, index, op, fresh, known, top, storageFaults, rot>>

Emptied(m) == IF m.opened = None /\ m.latest = None /\ m.pending = {} THEN None ELSE m

ClearOwnerProject ==
  /\ op = Idle
  /\ marker' = IF ReadMarker \in {None, Corrupt} THEN None
               ELSE Emptied([ReadMarker EXCEPT !.opened = None])
  /\ UNCHANGED <<files, index, op, fresh, known, top, storageFaults, rot>>

(* --- delete_with_owner_marker: marker, then directory and index -------- *)
Forgotten(m, p) == [m EXCEPT !.opened = IF @ = p THEN None ELSE @,
                             !.latest = IF @ = p THEN None ELSE @,
                             !.pending = @ \ {p}]

Delete(p) ==
  /\ op = Idle /\ ~fresh
  /\ Present(p)
  /\ LET named == ReadMarker \notin {None, Corrupt} /\ p \in {ReadMarker.opened, ReadMarker.latest}
     IN /\ marker' = IF named THEN Emptied(Forgotten(ReadMarker, p))
                     ELSE IF ReadMarker = Corrupt THEN None ELSE ReadMarker
        /\ op' = [name |-> "delete", project |-> p, next |-> "files",
                  restore |-> IF named \/ ReadMarker = Corrupt THEN ReadMarker ELSE marker']
  /\ UNCHANGED <<files, index, fresh, known, top, storageFaults, rot>>

DeleteFiles ==
  /\ op.name = "delete"
  /\ \/ /\ files' = [files EXCEPT ![op.project] = NoFiles]
        /\ index' = KnownIndex \ {op.project}
        /\ UNCHANGED <<marker, storageFaults>>
     \/ /\ Fault
        /\ files' \in {files, [files EXCEPT ![op.project] = NoFiles]}
        /\ marker' = op.restore
        /\ UNCHANGED index
  /\ op' = Idle
  /\ UNCHANGED <<fresh, known, top, rot>>

(* --- what may happen to any operation ---------------------------------- *)
(* A write raises: the operation ends with what it has made durable. *)
Raise ==
  /\ op.name \in {"autosave", "save"} /\ op.next \in {"index", "marker"}
  /\ Fault
  /\ op' = Idle
  /\ UNCHANGED <<files, index, marker, fresh, known, top, rot>>

(* The process dies.  The sessions are gone, and the first thing a new one *)
(* does is to present its state, which lists the Projects.                 *)
Crash ==
  /\ op # Idle
  /\ Fault
  /\ op' = Idle
  /\ fresh' = TRUE
  /\ UNCHANGED <<files, index, marker, known, top, rot>>

Rot ==
  /\ op = Idle /\ rot < MaxRot
  /\ \/ \E p \in Projects, name \in FileNames :
          /\ Readable(files[p][name])
          /\ files' = [files EXCEPT ![p][name] = Corrupt]
          /\ UNCHANGED <<index, marker>>
     \/ index' = Corrupt /\ UNCHANGED <<files, marker>>
     \/ marker # None /\ marker' = Corrupt /\ UNCHANGED <<files, index>>
  /\ rot' = rot + 1
  /\ UNCHANGED <<op, fresh, known, top, storageFaults>>

StorageNext ==
  \/ \E p \in Projects :
       \/ \E rev \in Revisions, setOpened \in BOOLEAN : Autosave(p, rev, setOpened)
       \/ \E rev \in Revisions : Save(p, rev)
       \/ Load(p) \/ SetOwnerProject(p) \/ Delete(p) \/ Cleanup(p)
  \/ UpdateIndex \/ AutosaveMarker \/ SaveMarker \/ CleanupDone
  \/ List \/ ClearOwnerProject \/ DeleteFiles
  \/ Raise \/ Crash \/ Rot

StorageSpec == StorageInit /\ [][StorageNext]_storageVars
-----------------------------------------------------------------------------
(* An explicit save is never shadowed by an older draft, also when a tab   *)
(* that has not seen the save writes its draft afterwards.                 *)
SaveNotShadowed ==
  /\ StorageTypeOK
  /\ \A p \in Projects :
       Readable(files[p].checkpoint) /\ Loaded(p) # Corrupt => Loaded(p) >= files[p].checkpoint

NeverSaved(p) == files[p].checkpoint = Missing /\ files[p].backup = Missing

(* Announced as superseded, and either never saved, or saved and neither   *)
(* copy of what was saved can be read: _is_autosave_only_for_owner_locked  *)
(* takes a Project for a mere draft where no checkpoint is readable, not   *)
(* only where there is none.                                               *)
SupersededUnread(p) ==
  /\ p \in marker.pending /\ Readable(files[p].autosave)
  /\ \/ NeverSaved(p)
     \/ files[p].checkpoint = Corrupt /\ ~Readable(files[p].backup)

(* Whatever crashes or fails, a Project disappears only by a deletion the  *)
(* user asked for or because the cleanup found it superseded and either    *)
(* never saved or with nothing saved left to read.                         *)
OnlySupersededVanish ==
  [][\A p \in Projects :
       Present(p) /\ ~Present(p)' =>
         \/ op.name = "delete" /\ op.project = p
         \/ SupersededUnread(p)]_storageVars
=============================================================================
