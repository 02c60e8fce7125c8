---------------------------- MODULE AccountSync -----------------------------
(***************************************************************************)
(* Account Sync: the Firestore documents of one account, the IndexedDB     *)
(* rows of its devices (AccountProjectRepository), and the tabs that share *)
(* a device's rows.  Every tab runs an AccountSyncController               *)
(* (web/src/accountSyncController.ts) and a LocalApplication whose UI      *)
(* edits the open Project.                                                 *)
(*                                                                         *)
(* A step is one IndexedDB transaction, one Firestore transaction, or one  *)
(* network or clock event.  Between a transaction and the next one every   *)
(* other tab, device, and the clock may move.                              *)
(***************************************************************************)
EXTENDS SyncRepository, Sequences, FiniteSets

CONSTANTS Tabs,
          DeviceOf,     \* the device of each tab
          Seed,         \* [already synced Project -> device whose Latest it is, or None]
          Synced,       \* the devices whose first run has already received them
          Imported,     \* [device -> anonymous Latest staged by initialize()]
          MaxEdits,     \* bound: [Project -> versions the user's edits may add]
          MaxFaults,    \* bound: lost requests, lost replies and reloads
          MaxNow        \* bound: the clock; every deadline is within it

ASSUME TabsAssumption == DeviceOf \in [Tabs -> Devices]
ASSUME SeedAssumption ==
    /\ DOMAIN Seed \subseteq Projects
    /\ \A p \in DOMAIN Seed : Seed[p] \in Devices \cup {None}
    /\ Synced \subseteq Devices
    /\ Imported \in [Devices -> SUBSET (Projects \ DOMAIN Seed)]
    /\ \A d, e \in Devices : d # e => Imported[d] \cap Imported[e] = {}
ASSUME BoundsAssumption ==
    /\ MaxEdits \in [Projects -> Nat]
    /\ MaxFaults \in Nat
    /\ MaxNow \in Nat
LedgerEntries == [version : Nat \ {0}, revision : Nat \ {0}, ends : Nat \cup {None}]

\* None is not one of the values it is the absence of.
ASSUME NoneAssumption ==
    /\ None \notin Projects
    /\ None \notin Devices
    /\ None \notin SyncProject
    /\ None \notin SyncMutation
    /\ None \notin Row
    /\ None \notin LedgerEntries

VARIABLES
    cloud,    \* [Projects -> SyncProject or None]: the committed documents
    rows,     \* [Devices -> [Projects -> Row or None]]: the device databases
    work,     \* [Tabs -> the loaded row of the open Project, or None]
    ctl,      \* [Tabs -> the controller's progress through run()]
    wire,     \* commit requests whose sender no longer waits for a reply
    now,      \* the server's clock; the devices agree with it
    faults,   \* faults so far
    hist      \* history: [Projects -> what each version builds on]

vars == <<cloud, rows, work, ctl, wire, now, faults, hist>>

\* The version of p's next local write, and the versions a version includes:
\* those of the content it was made from, or that the user saw and gave up.
Fresh(p) == Len(hist[p]) + 1
Seen(p, v) == IF v = 0 THEN {} ELSE hist[p][v].seen
SeenRow(p, r) == IF r = None THEN {} ELSE Seen(p, r.value.version)
Entry(p, seen, dead) == [seen |-> {<<p, Fresh(p)>>} \cup seen, dead |-> dead]
Editable(p) == Len(hist[p]) < MaxEdits[p]

\* The loaded row: what write() and restoreWorking() need of it.
Capture(p, r) ==
    [id |-> p, token |-> r.value.token, saved |-> r.value.saved,
     version |-> r.value.version, base |-> r.base, baseRev |-> r.baseRev,
     sent |-> r.sent, staged |-> r.staged]

Idle == [pc |-> "idle", queue |-> {}, batch |-> {}, reply |-> {},
         changed |-> TRUE, first |-> TRUE]

SeedValue(p) ==
    [version |-> 1, revision |-> 1, token |-> 1, saved |-> Seed[p] = None,
     latest |-> Seed[p], deletion |-> "ACTIVE", until |-> 0]

Init ==
    /\ cloud = [p \in Projects |-> IF p \in DOMAIN Seed THEN SeedValue(p) ELSE None]
    /\ rows = [d \in Devices |-> [p \in Projects |->
                 IF p \in DOMAIN Seed /\ d \in Synced THEN CleanRow(p, SeedValue(p))
                 ELSE IF p \in Imported[d]
                 THEN [NewRow(p, None, 1, FALSE, d) EXCEPT !.staged = TRUE]
                 ELSE None]]
    /\ work = [t \in Tabs |-> None]
    /\ ctl = [t \in Tabs |-> LET unsynced == DeviceOf[t] \notin Synced
                           IN [Idle EXCEPT !.changed = unsynced, !.first = unsynced]]
    /\ wire = {}
    /\ now = 0
    /\ faults = 0
    /\ hist = [p \in Projects |->
                 IF p \in DOMAIN Seed \cup UNION {Imported[d] : d \in Devices}
                 THEN <<[seen |-> {<<p, 1>>}, dead |-> FALSE]>> ELSE <<>>]

-----------------------------------------------------------------------------
(* The user's edits: one transaction of the repository each. *)

\* The tombstones of discardLatest, and their history.
Discard(rs, except, device, group) ==
    [p \in Projects |-> IF p \in OwnLatest(rs, except, device, now)
                        THEN Discarded(rs[p], Fresh(p), group) ELSE rs[p]]
DiscardHist(rs, except, device) ==
    [p \in Projects |->
        IF p \in OwnLatest(rs, except, device, now)
        THEN Append(hist[p], Entry(p, SeenRow(p, rs[p]), TRUE)) ELSE hist[p]]

\* The row changed remotely under the loaded one, and is not edited here.
RemoteChanged(loaded, old) ==
    /\ loaded # None
    /\ old # None
    /\ old.value.token # loaded.token \/ DeletionState(old.value, now) # "ACTIVE"
    /\ ~old.dirty
    /\ loaded.base # old.base

\* write(): a new Project (its id is a new UUID), an autosave, or a named save.
Write(t, p, named) ==
    LET d == DeviceOf[t]
        rs == rows[d]
        old == rs[p]
        loaded == IF work[t] # None /\ work[t].id = p THEN work[t] ELSE None
        stale == RemoteChanged(loaded, old)
        saved == named \/ (loaded # None /\ loaded.saved)
        new == NewRow(p, IF stale THEN loaded ELSE old, Fresh(p), saved, d)
        next == [new EXCEPT !.conflict = IF stale THEN old.value ELSE None,
                            !.group = IF old # None /\ old.dirty THEN old.group ELSE @]
        seen == IF stale THEN Seen(p, loaded.version) ELSE SeenRow(p, old)
        others == IF saved THEN rs ELSE Discard(rs, p, d, next.group)
    IN
    /\ Editable(p)
    /\ IF loaded = None THEN hist[p] = <<>> ELSE old # None
    /\ ~AnyConflict(rs)
    /\ loaded # None /\ ~stale => old.value.token = loaded.token /\ Active(old, now)
    /\ rows' = [rows EXCEPT ![d] = [others EXCEPT ![p] = next]]
    /\ hist' = [(IF saved THEN hist ELSE DiscardHist(rs, p, d))
                    EXCEPT ![p] = Append(@, Entry(p, seen, FALSE))]
    /\ work' = [work EXCEPT ![t] = Capture(p, next)]
    /\ UNCHANGED <<cloud, ctl, wire, now, faults>>

\* loadProject: read() and open(), which discards this device's other Latest.
Open(t, p) ==
    LET d == DeviceOf[t]
        rs == rows[d]
    IN
    /\ Active(rs[p], now)
    /\ ~AnyConflict(rs)
    /\ rows' = [rows EXCEPT ![d] =
                   Discard(rs, p, d,
                       LET q == CHOOSE q \in OwnLatest(rs, p, d, now) : TRUE
                       IN <<q, Fresh(q)>>)]
    /\ hist' = DiscardHist(rs, p, d)
    /\ work' = [work EXCEPT ![t] = Capture(p, rs[p])]
    /\ UNCHANGED <<cloud, ctl, wire, now, faults>>

\* A relabelled row and its history.
Edit(d, p, r, dead) ==
    /\ rows' = [rows EXCEPT ![d][p] = r]
    /\ hist' = [hist EXCEPT ![p] = Append(@, Entry(p, SeenRow(p, rows[d][p]), dead))]

Delete(t, p) ==
    LET d == DeviceOf[t] IN
    /\ Editable(p)
    /\ ~AnyConflict(rows[d])
    /\ now + UndoWindow <= MaxNow
    /\ Active(rows[d][p], now)
    /\ Edit(d, p, Relabel(rows[d][p], Fresh(p), "PENDING_DELETE", now + UndoWindow), TRUE)
    /\ work' = [work EXCEPT ![t] = IF @ # None /\ @.id = p THEN None ELSE @]
    /\ UNCHANGED <<cloud, ctl, wire, now, faults>>

Undo(t, p) ==
    LET d == DeviceOf[t] IN
    /\ Editable(p)
    /\ rows[d][p] # None
    /\ DeletionState(rows[d][p].value, now) = "PENDING_DELETE"
    /\ rows[d][p].conflict = None
    /\ Edit(d, p, Relabel(rows[d][p], Fresh(p), "ACTIVE", 0), FALSE)
    /\ UNCHANGED <<cloud, work, ctl, wire, now, faults>>

\* importLatest: the staged anonymous Latest is kept as a named Project, or
\* dropped.
ImportLatest(t, p, keep) ==
    LET d == DeviceOf[t]
        fresh == NewRow(p, None, Fresh(p), keep, d)
        next == IF keep THEN fresh
                ELSE [fresh EXCEPT !.value =
                         [fresh.value EXCEPT !.deletion = "DELETED",
                                             !.token = rows[d][p].value.token,
                                             !.saved = rows[d][p].value.saved,
                                             !.latest = IF rows[d][p].value.saved
                                                        THEN None ELSE d]]
    IN
    /\ Editable(p)
    /\ rows[d][p] # None
    /\ rows[d][p].staged
    /\ Edit(d, p, next, ~keep)
    /\ UNCHANGED <<cloud, work, ctl, wire, now, faults>>

-----------------------------------------------------------------------------
(* Conflict resolution. *)

\* The copy a previous "both" made and no acknowledgement confirmed yet.
StagedCopy(rs, p) ==
    LET c == rs[p].copy IN
    IF c # None /\ rs[c] # None /\ rs[c].dirty /\ rs[c].base = 0 THEN c ELSE None

\* The rows of the conflicting group move to a new group, unpinned.
Regrouped(rs, p, copy, group) ==
    [q \in Projects |->
        IF q # p /\ q # copy /\ rs[q] # None /\ rs[q].dirty /\ rs[q].group = rs[p].group
        THEN [rs[q] EXCEPT !.group = group, !.sent = None] ELSE rs[q]]

\* The original after the choice: rebased on the conflicting remote value.
Rebased(p, r, content, copy) ==
    LET remote == r.conflict IN
    [base     |-> remote.version,
     baseRev  |-> remote.revision,
     value    |-> [content EXCEPT !.version = Fresh(p), !.token = Fresh(p),
                                  !.revision = remote.revision + 1],
     dirty    |-> TRUE,
     conflict |-> None,
     group    |-> <<p, Fresh(p)>>,
     sent     |-> None,
     copy     |-> copy,
     staged   |-> FALSE]

\* What the choice includes of the local branch.
LocalSeen(rs, p) ==
    LET c == StagedCopy(rs, p) IN
    SeenRow(p, rs[p]) \cup (IF c = None THEN {} ELSE SeenRow(c, rs[c]))

ResolveOne(d, p, content) ==
    LET rs == rows[d]
        c == StagedCopy(rs, p)
        rest == Regrouped(rs, p, c, <<p, Fresh(p)>>)
        seen == LocalSeen(rs, p) \cup Seen(p, rs[p].conflict.version)
    IN
    /\ rows' = [rows EXCEPT ![d] = [q \in Projects |->
                   IF q = p THEN Rebased(p, rs[p], content, None)
                   ELSE IF q = c THEN None ELSE rest[q]]]
    /\ hist' = [hist EXCEPT ![p] = Append(@, Entry(p, seen, FALSE))]

\* The local record replaces the remote one.  Staging a copy gives the record a
\* checkpoint, so falling back on it leaves a saved record.
ResolveLocal(d, p) ==
    LET r == rows[d][p] IN
    /\ DeletionState(r.conflict, now) # "DELETED"
    /\ ResolveOne(d, p, [r.value EXCEPT
           !.saved = IF StagedCopy(rows[d], p) # None THEN TRUE ELSE @])

ResolveRemote(d, p) == ResolveOne(d, p, rows[d][p].conflict)

\* The original takes the remote content; the local one continues in a saved
\* Project c of its own: the staged copy's id, or a new UUID.
ResolveBoth(d, p, c) ==
    LET rs == rows[d]
        staged == StagedCopy(rs, p)
        group == <<p, Fresh(p)>>
        rest == Regrouped(rs, p, staged, group)
    IN
    /\ IF staged = None THEN hist[c] = <<>> /\ c # p ELSE c = staged
    /\ Editable(c)
    /\ rows' = [rows EXCEPT ![d] = [q \in Projects |->
                   IF q = p THEN Rebased(p, rs[p], rs[p].conflict, c)
                   ELSE IF q = c THEN [NewRow(c, None, Fresh(c), TRUE, d) EXCEPT !.group = group]
                   ELSE rest[q]]]
    /\ hist' = [hist EXCEPT
           ![p] = Append(@, Entry(p, Seen(p, rs[p].conflict.version), FALSE)),
           ![c] = Append(@, Entry(c, LocalSeen(rs, p), FALSE))]

\* resolve(): the signature of all rows is rechecked in the transaction, so the
\* snapshot it decided on is the state it changes.
Resolve(t, p) ==
    LET d == DeviceOf[t] IN
    /\ rows[d][p] # None
    /\ rows[d][p].conflict # None
    /\ Editable(p)
    /\ \/ ResolveLocal(d, p)
       \/ ResolveRemote(d, p)
       \/ \E c \in Projects : ResolveBoth(d, p, c)
    /\ UNCHANGED <<cloud, work, ctl, wire, now, faults>>

-----------------------------------------------------------------------------
(* AccountSyncController.run(), one await at a time. *)

\* pending(): label what expired, then read the outbox.  A run that finds
\* nothing to do is left out.
StartRun(t) ==
    LET d == DeviceOf[t]
        overdue == Overdue(rows[d], now)
        labelled == [p \in Projects |->
            IF p \in overdue
            THEN Relabel(rows[d][p], Fresh(p), "DELETED", rows[d][p].value.until)
            ELSE rows[d][p]]
    IN
    /\ ctl[t].pc = "idle"
    /\ ctl[t].changed \/ ctl[t].first \/ overdue # {} \/ Pending(labelled) # {}
    /\ rows' = [rows EXCEPT ![d] = labelled]
    /\ hist' = [p \in Projects |->
                   IF p \in overdue
                   THEN Append(hist[p], Entry(p, SeenRow(p, rows[d][p]), TRUE)) ELSE hist[p]]
    /\ ctl' = [ctl EXCEPT ![t].pc = "send", ![t].queue = Pending(labelled)]
    /\ UNCHANGED <<cloud, work, wire, now, faults>>

\* markSending(): pin the group, or skip it because the rows moved on.
MarkSending(t) ==
    LET d == DeviceOf[t] IN
    /\ ctl[t].pc = "send"
    /\ \E batch \in ctl[t].queue :
         LET rest == [ctl[t] EXCEPT !.queue = @ \ {batch}] IN
         IF \A m \in batch : StillPending(rows[d], m)
         THEN /\ rows' = [rows EXCEPT ![d] = [p \in Projects |->
                    IF \E m \in batch : m.id = p
                    THEN [rows[d][p] EXCEPT !.sent = CHOOSE m \in batch : m.id = p]
                    ELSE rows[d][p]]]
              /\ ctl' = [ctl EXCEPT ![t] = [rest EXCEPT !.pc = "commit", !.batch = batch]]
         ELSE ctl' = [ctl EXCEPT ![t] = rest] /\ UNCHANGED rows
    /\ UNCHANGED <<cloud, work, wire, now, faults, hist>>

\* An exception leaves run(); the next run starts over from the rows.
Abandoned(c) == [c EXCEPT !.pc = "idle", !.queue = {}, !.batch = {}, !.reply = {}]

\* The subscription invalidates every tab's download.  A late callback is a late
\* run: only the next list() reads the flag.
Invalidated == [t \in Tabs |-> [ctl[t] EXCEPT !.changed = TRUE]]

Clashing(batch) == {m \in batch : Clashes(cloud, m, now)}

\* commit(): the Firestore transaction and its reply.
Commit(t) ==
    LET batch == ctl[t].batch
        clashes == Clashing(batch)
        request == Request(cloud, batch, now)
    IN
    /\ ctl[t].pc = "commit"
    /\ IF \E m \in clashes : cloud[m.id] = None
       THEN \* SYNC_DATA_INVALID leaves run()
            /\ ctl' = [ctl EXCEPT ![t] = Abandoned(@)]
            /\ UNCHANGED cloud
       ELSE IF clashes # {}
       THEN /\ ctl' = [ctl EXCEPT ![t].pc = "conflicted",
                                  ![t].reply = {[id |-> m.id, value |-> cloud[m.id]] :
                                                   m \in clashes}]
            /\ UNCHANGED cloud
       ELSE IF Applies(cloud, request, now)
       THEN /\ cloud' = Apply(cloud, request)
            /\ ctl' = [Invalidated EXCEPT ![t].pc = "committed"]
       ELSE \* permission-denied leaves run()
            /\ ctl' = [ctl EXCEPT ![t] = Abandoned(@)]
            /\ UNCHANGED cloud
    /\ UNCHANGED <<rows, work, wire, now, faults, hist>>

\* acknowledge(): each row of the group that still has the base the group was
\* sent from takes the committed version as its base.
Acknowledge(t) ==
    LET d == DeviceOf[t]
        batch == ctl[t].batch
    IN
    /\ ctl[t].pc = "committed"
    /\ rows' = [rows EXCEPT ![d] = [p \in Projects |->
                   IF \E m \in batch : m.id = p
                   THEN Acknowledged(rows[d][p], CHOOSE m \in batch : m.id = p)
                   ELSE rows[d][p]]]
    /\ ctl' = [ctl EXCEPT ![t].pc = "send", ![t].batch = {}]
    /\ UNCHANGED <<cloud, work, wire, now, faults, hist>>

\* receive(): remote values merged into the rows in one transaction.
ReceivedRows(rs, remote) ==
    [p \in Projects |->
        IF \E x \in remote : x.id = p
        THEN Received(p, rs[p], (CHOOSE x \in remote : x.id = p).value, now)
        ELSE rs[p]]

ReceiveConflicts(t) ==
    LET d == DeviceOf[t] IN
    /\ ctl[t].pc = "conflicted"
    /\ rows' = [rows EXCEPT ![d] = ReceivedRows(rows[d], ctl[t].reply)]
    /\ ctl' = [ctl EXCEPT ![t].pc = "send", ![t].batch = {}, ![t].reply = {},
                          ![t].changed = TRUE]
    /\ UNCHANGED <<cloud, work, wire, now, faults, hist>>

Documents == {[id |-> p, value |-> cloud[p]] : p \in {q \in Projects : cloud[q] # None}}

\* The outbox is through: list() when an invalidation is pending.
ListRemote(t) ==
    /\ ctl[t].pc = "send"
    /\ ctl[t].queue = {}
    /\ ctl[t].changed
    /\ ctl' = [ctl EXCEPT ![t].pc = "listed", ![t].changed = FALSE,
                          ![t].reply = Documents]
    /\ UNCHANGED <<cloud, rows, work, wire, now, faults, hist>>

ReceiveList(t) ==
    LET d == DeviceOf[t] IN
    /\ ctl[t].pc = "listed"
    /\ rows' = [rows EXCEPT ![d] = ReceivedRows(rows[d], ctl[t].reply)]
    /\ ctl' = [ctl EXCEPT ![t].pc = IF ctl[t].first THEN "confirm" ELSE "idle",
                          ![t].reply = {}]
    /\ UNCHANGED <<cloud, work, wire, now, faults, hist>>

SkipList(t) ==
    /\ ctl[t].pc = "send"
    /\ ctl[t].queue = {}
    /\ ~ctl[t].changed
    /\ ctl' = [ctl EXCEPT ![t].pc = IF ctl[t].first THEN "confirm" ELSE "idle"]
    /\ UNCHANGED <<cloud, rows, work, wire, now, faults, hist>>

\* confirmImports(), once per controller: the staged Latest may upload.
ConfirmImports(t) ==
    LET d == DeviceOf[t] IN
    /\ ctl[t].pc = "confirm"
    /\ rows' = [rows EXCEPT ![d] = [p \in Projects |->
                   IF rows[d][p] # None /\ rows[d][p].staged
                      /\ ImportConfirmed(rows[d], p, d, now)
                   THEN [rows[d][p] EXCEPT !.staged = FALSE] ELSE rows[d][p]]]
    /\ ctl' = [ctl EXCEPT ![t].pc = "idle", ![t].first = FALSE]
    /\ UNCHANGED <<cloud, work, wire, now, faults, hist>>

-----------------------------------------------------------------------------
(* Faults and time. *)

\* A request whose sender stops waiting: Firestore may still apply it, later.
Orphaned(t) ==
    IF ctl[t].pc = "commit" /\ Clashing(ctl[t].batch) = {}
    THEN wire \cup {Request(cloud, ctl[t].batch, now)} ELSE wire

\* An await of run() rejects: offline, timeout, contention, full storage.
Fail(t) ==
    /\ ctl[t].pc # "idle"
    /\ faults < MaxFaults
    /\ faults' = faults + 1
    /\ wire' = Orphaned(t)
    /\ ctl' = [ctl EXCEPT ![t] = [Abandoned(ctl[t]) EXCEPT
                   !.changed = ctl[t].changed \/ ctl[t].pc = "listed"]]
    /\ UNCHANGED <<cloud, rows, work, now, hist>>

\* captureWorking() and restoreWorking(): the open Project keeps the baseline
\* it was loaded with unless its row is still the one it was loaded from.
Recovered(d, loaded) ==
    LET r == rows[d][loaded.id] IN
    IF Active(r, now) /\ r.value.token = loaded.token
    THEN Capture(loaded.id, r)
    ELSE [loaded EXCEPT !.sent = None, !.staged = FALSE]

\* The tab is reloaded, with or without session recovery.
Reload(t) ==
    /\ faults < MaxFaults
    /\ faults' = faults + 1
    /\ wire' = Orphaned(t)
    /\ ctl' = [ctl EXCEPT ![t] = Idle]
    /\ work' = [work EXCEPT ![t] =
                   IF work[t] = None THEN None ELSE Recovered(DeviceOf[t], work[t])]
    /\ UNCHANGED <<cloud, rows, now, hist>>

Close(t) ==
    /\ work[t] # None
    /\ work' = [work EXCEPT ![t] = None]
    /\ UNCHANGED <<cloud, rows, ctl, wire, now, faults, hist>>

\* An orphaned request reaches the server: applied, or rejected for good.
Deliver ==
    \E request \in wire :
        /\ wire' = wire \ {request}
        /\ IF Applies(cloud, request, now)
           THEN cloud' = Apply(cloud, request) /\ ctl' = Invalidated
           ELSE UNCHANGED <<cloud, ctl>>
        /\ UNCHANGED <<rows, work, now, faults, hist>>

Tick ==
    /\ now < MaxNow
    /\ now' = now + 1
    /\ UNCHANGED <<cloud, rows, work, ctl, wire, faults, hist>>

UserStep(t) ==
    \/ \E p \in Projects, named \in BOOLEAN : Write(t, p, named)
    \/ \E p \in Projects : Open(t, p)
    \/ \E p \in Projects : Delete(t, p)
    \/ \E p \in Projects : Undo(t, p)
    \/ \E p \in Projects, keep \in BOOLEAN : ImportLatest(t, p, keep)
    \/ \E p \in Projects : Resolve(t, p)
    \/ Close(t)

ControllerStep(t) ==
    \/ StartRun(t)
    \/ MarkSending(t)
    \/ Commit(t)
    \/ Acknowledge(t)
    \/ ReceiveConflicts(t)
    \/ ListRemote(t)
    \/ ReceiveList(t)
    \/ SkipList(t)
    \/ ConfirmImports(t)

Next ==
    \/ \E t \in Tabs : UserStep(t)
    \/ \E t \in Tabs : ControllerStep(t)
    \/ \E t \in Tabs : Fail(t)
    \/ \E t \in Tabs : Reload(t)
    \/ Deliver
    \/ Tick

Spec == Init /\ [][Next]_vars

\* The controller's timer and its awaits, the subscription and the clock.
Fairness ==
    /\ \A t \in Tabs : WF_vars(ControllerStep(t))
    /\ WF_vars(Tick)

FairSpec == Spec /\ Fairness

-----------------------------------------------------------------------------
(* Types. *)

Loaded == [id : Projects, token : Nat \ {0}, saved : BOOLEAN, version : Nat \ {0},
           base : Nat, baseRev : Nat, sent : SyncMutation \cup {None}, staged : BOOLEAN]

Control == [pc : {"idle", "send", "commit", "committed", "conflicted", "listed", "confirm"},
            queue : SUBSET SUBSET SyncMutation,
            batch : SUBSET SyncMutation,
            reply : SUBSET [id : Projects, value : SyncProject],
            changed : BOOLEAN,
            first : BOOLEAN]

HistEntry == [seen : SUBSET (Projects \X Nat), dead : BOOLEAN]

RequestType == SUBSET [id : Projects, base : Nat, read : Nat, doc : SyncProject \cup {None}]

\* Every variable has its type.
TypeOK ==
    /\ cloud \in [Projects -> SyncProject \cup {None}]
    /\ rows \in [Devices -> [Projects -> Row \cup {None}]]
    /\ work \in [Tabs -> Loaded \cup {None}]
    /\ ctl \in [Tabs -> Control]
    /\ wire \subseteq RequestType
    /\ now \in Nat
    /\ faults \in Nat
    /\ hist \in [Projects -> Seq(HistEntry)]

-----------------------------------------------------------------------------
(* Safety. *)

\* A clean row mirrors an acknowledged version and holds nothing pending; a
\* dirty row numbers its value right after its base; a pinned operation was
\* issued against that base for that Project and the row's content builds on it.
RowConsistent(p, r) ==
    /\ ~r.dirty => /\ r.value.version = r.base
                   /\ r.value.revision = r.baseRev
                   /\ r.sent = None
                   /\ r.conflict = None
    /\ r.dirty => r.value.revision = r.baseRev + 1
    /\ r.sent # None => /\ r.sent.id = p
                        /\ r.sent.expected = r.base
                        /\ r.sent.value.revision = r.baseRev + 1
    /\ r.conflict # None => r.conflict.revision > r.baseRev

RowsConsistent ==
    \A d \in Devices, p \in Projects :
        rows[d][p] # None => RowConsistent(p, rows[d][p])

\* An acknowledged base never goes back, except to stage a conflict with the
\* newer remote value it had reached ("rejects delayed snapshots older than an
\* acknowledged save").
AckNeverRegressesStep ==
    \A d \in Devices, p \in Projects :
        rows[d][p] # None /\ rows'[d][p] # None /\ rows'[d][p].baseRev < rows[d][p].baseRev
            => rows'[d][p].conflict # None
AckNeverRegresses == [][AckNeverRegressesStep]_vars

\* No silent last-write-wins: a document is only replaced by a version whose
\* author's content includes the replaced one, or who chose against it.
NoSilentOverwriteStep ==
    \A p \in Projects :
        cloud'[p] # cloud[p] /\ cloud[p] # None =>
            <<p, cloud[p].version>> \in Seen(p, cloud'[p].version)
NoSilentOverwrite == [][NoSilentOverwriteStep]_vars

\* Every local edit ever made is still part of a document or of a device's row,
\* unless it was deleted by its user and the document is a tombstone.
Versions == UNION {{<<p, n>> : n \in 1..Len(hist[p])} : p \in Projects}
Held ==
    UNION ({Seen(p, VersionOf(cloud[p])) : p \in Projects}
           \cup {SeenRow(p, rows[d][p]) : p \in Projects, d \in Devices})
Buried(p, e) ==
    /\ cloud[p] # None
    /\ DeletionState(cloud[p], now) = "DELETED"
    /\ \E n \in 1..Len(hist[p]) : hist[p][n].dead /\ e \in hist[p][n].seen
NoLostEdit == \A e \in Versions : e \in Held \/ Buried(e[1], e)

\* A row never conflicts with a committed version its own content includes:
\* a lost acknowledgement is recognised and not offered as someone's change.
ConflictIsForeign ==
    \A d \in Devices, p \in Projects :
        rows[d][p] # None /\ rows[d][p].conflict # None =>
            <<p, rows[d][p].conflict.version>> \notin SeenRow(p, rows[d][p])

\* "Both" publishes the copy with the original: once the resolved original is
\* the committed document, its copy is committed too.
CopyPublishedWithOriginal ==
    \A d \in Devices, p \in Projects :
        LET r == rows[d][p] IN
        r # None /\ r.copy # None /\ VersionOf(cloud[p]) = r.value.version
            => cloud[r.copy] # None

\* A group that passes the client's compare-and-swap is refused by the Rules
\* for one reason only: it moves the deadline of a running deletion.
MovesDeadline(w) ==
    /\ cloud[w.id] # None
    /\ cloud[w.id].deletion = "PENDING_DELETE"
    /\ w.doc.deletion = "PENDING_DELETE"
    /\ w.doc.until # cloud[w.id].until
RefusedOnlyForDeadline ==
    \A t \in Tabs :
        ctl[t].pc = "commit" /\ Clashing(ctl[t].batch) = {} =>
            \A w \in Request(cloud, ctl[t].batch, now) :
                RulesAllow(cloud, w, now) \/ MovesDeadline(w)

\* A device has at most one usable Latest.
OneLatest ==
    \A d \in Devices :
        \A p, q \in Projects :
            /\ p \in OwnLatest(rows[d], q, d, now)
            /\ q \in OwnLatest(rows[d], p, d, now)
            => rows[d][p].staged \/ rows[d][q].staged

-----------------------------------------------------------------------------
(* The documents implement the ledger. *)

\* An element of LedgerEntries, or None.
LedgerEntry(doc) ==
    IF doc = None THEN None
    ELSE [version  |-> doc.version,
          revision |-> doc.revision,
          ends     |-> CASE doc.deletion = "ACTIVE" -> None
                         [] doc.deletion = "PENDING_DELETE" -> doc.until
                         [] doc.deletion = "DELETED" -> 0]

Ledger == INSTANCE ProjectLedger
              WITH entry <- [p \in Projects |-> LedgerEntry(cloud[p])], clock <- now

\* Tombstones are final, revisions have no gaps, deadlines do not move.
ImplementsLedger == Ledger!Spec

-----------------------------------------------------------------------------
(* Liveness. *)

\* Undo raced the deadline: the committed document became a tombstone under
\* the version this row has acknowledged, so nothing newer can announce it.
StrandedUndo(p, r) ==
    /\ r.dirty
    /\ cloud[p] # None
    /\ r.base = cloud[p].version
    /\ DeletionState(cloud[p], now) = "DELETED"
    /\ DeletionState(r.value, now) # "DELETED"

Mirrors(p, r) == ~r.dirty /\ cloud[p] # None /\ r.base = cloud[p].version

SettledRow(d, p) ==
    LET r == rows[d][p] IN
    /\ cloud[p] # None => r # None
    /\ r # None => Mirrors(p, r) \/ Blocked(rows[d], r.group)

\* When the edits stop, every device comes to mirror the documents, but for
\* groups that wait for the user and for an Undo that lost its race.
ConvergesOrStranded ==
    <>[](\A d \in Devices, p \in Projects :
            SettledRow(d, p) \/ (rows[d][p] # None /\ StrandedUndo(p, rows[d][p])))
=============================================================================
