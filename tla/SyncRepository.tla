--------------------------- MODULE SyncRepository ---------------------------
(***************************************************************************)
(* The rows of one AccountProjectRepository                                *)
(* (web/src/accountProjectRepository.ts): the IndexedDB records of an      *)
(* account on one device with their sync metadata, and what each           *)
(* transaction makes of them.  Operators only; AccountSync.tla owns the    *)
(* state.  rs is the function from Project ids to rows, None where the     *)
(* device has no row.  Rows without sync metadata (copies older than       *)
(* Account Sync, unreadable records) are not represented.                  *)
(***************************************************************************)
EXTENDS SyncValues

Row == [base     : Nat,                       \* baseVersion, acknowledged
        baseRev  : Nat,                       \* baseRevision
        value    : SyncProject,
        dirty    : BOOLEAN,
        conflict : SyncProject \cup {None},
        group    : Projects \X Nat,           \* one remote transaction
        sent     : SyncMutation \cup {None},  \* pinned in-flight operation
        copy     : Projects \cup {None},      \* resolutionCopyId
        staged   : BOOLEAN]                   \* importPending

\* AccountProjectRepository.row: a local write of version n on top of what
\* prev (a row, a loaded row, or None) acknowledges.
NewRow(p, prev, n, saved, device) ==
    [base     |-> IF prev = None THEN 0 ELSE prev.base,
     baseRev  |-> IF prev = None THEN 0 ELSE prev.baseRev,
     value    |-> [version  |-> n,
                   revision |-> 1 + (IF prev = None THEN 0 ELSE prev.baseRev),
                   token    |-> n,
                   saved    |-> saved,
                   latest   |-> IF saved THEN None ELSE device,
                   deletion |-> "ACTIVE",
                   until    |-> 0],
     dirty    |-> TRUE,
     conflict |-> None,
     group    |-> <<p, n>>,
     sent     |-> IF prev = None THEN None ELSE prev.sent,
     copy     |-> None,
     staged   |-> IF prev = None THEN FALSE ELSE prev.staged]

\* A row that mirrors a committed remote value.
CleanRow(p, v) ==
    [base |-> v.version, baseRev |-> v.revision, value |-> v, dirty |-> FALSE,
     conflict |-> None, group |-> <<p, v.version>>, sent |-> None,
     copy |-> None, staged |-> FALSE]

Active(r, clock) == r # None /\ DeletionState(r.value, clock) = "ACTIVE"

AnyConflict(rs) == \E p \in Projects : rs[p] # None /\ rs[p].conflict # None

\* This device's unsaved working Projects other than `except`.
OwnLatest(rs, except, device, clock) ==
    {p \in Projects \ {except} :
        /\ Active(rs[p], clock)
        /\ ~rs[p].value.saved
        /\ rs[p].value.latest = device}

\* A local edit of the envelope only (delete, undo, discard, expiry): the
\* record, the acknowledged base and the pinned operation stay.
Relabel(r, n, deletion, until) ==
    [r EXCEPT !.value = [@ EXCEPT !.deletion = deletion, !.until = until,
                                  !.version = n, !.revision = r.baseRev + 1],
              !.dirty = TRUE]

\* discardLatest: a tombstone that joins the given group.
Discarded(r, n, group) ==
    [Relabel(r, n, "DELETED", r.value.until) EXCEPT !.group = group]

ImportCollision(rs, p, device, clock) ==
    \E q \in OwnLatest(rs, p, device, clock) : ~rs[q].staged

\* (broken) a staged import is released whatever it collides with
ImportConfirmedAlways(rs, p, device, clock) == TRUE

\* confirmImports for one row.
ImportConfirmed(rs, p, device, clock) ==
    \/ ~Active(rs[p], clock)
    \/ rs[p].value.saved
    \/ ~ImportCollision(rs, p, device, clock)

-----------------------------------------------------------------------------
(* The outbox. *)

\* Rows whose Undo deadline passed and whose tombstone is not yet labelled.
Overdue(rs, clock) ==
    {p \in Projects :
        /\ rs[p] # None
        /\ rs[p].conflict = None
        /\ rs[p].sent = None
        /\ Expired(rs[p].value, clock)}

\* (broken) an edit replaces the operation that may already be committed
MutationUnpinned(p, r) == [id |-> p, expected |-> r.base, value |-> r.value]

Mutation(p, r) ==
    IF r.sent # None THEN r.sent
    ELSE [id |-> p, expected |-> r.base, value |-> r.value]

Members(rs, g) == {p \in Projects : rs[p] # None /\ rs[p].dirty /\ rs[p].group = g}

Blocked(rs, g) ==
    \E p \in Projects :
        rs[p] # None /\ rs[p].group = g /\ (rs[p].conflict # None \/ rs[p].staged)

\* (broken) every row is its own transaction
PendingSingly(rs) ==
    {{Mutation(p, rs[p])} : p \in {q \in Projects :
        rs[q] # None /\ rs[q].dirty /\ ~Blocked(rs, rs[q].group)}}

\* pending(): the mutations of every unblocked dirty group.
Pending(rs) ==
    {{Mutation(p, rs[p]) : p \in Members(rs, g)} :
        g \in {rs[p].group : p \in {q \in Projects :
            rs[q] # None /\ rs[q].dirty /\ ~Blocked(rs, rs[q].group)}}}

\* (broken) the recheck compares the newest edit with the pinned operation
StillPendingUnpinned(rs, m) ==
    LET r == rs[m.id] IN
    /\ r # None /\ r.dirty /\ r.conflict = None /\ ~r.staged
    /\ r.base = m.expected
    /\ r.value.version = m.value.version

\* markSending: the operation is still what the row would send.
StillPending(rs, m) ==
    LET r == rs[m.id] IN
    /\ r # None
    /\ r.dirty
    /\ r.conflict = None
    /\ ~r.staged
    /\ r.base = m.expected
    /\ Mutation(m.id, r).value.version = m.value.version

-----------------------------------------------------------------------------
(* Results. *)

\* (broken) a late acknowledgement is applied to a row with another base
AcknowledgedAnyBase(r, m) ==
    IF r = None THEN r
    ELSE [r EXCEPT !.base = m.value.version, !.baseRev = m.value.revision,
                   !.dirty = r.value.version # m.value.version,
                   !.conflict = None, !.sent = None]

\* (broken) newer local edits keep the revision of the acknowledged one
AcknowledgedSameRevision(r, m) ==
    IF r = None \/ (r # None /\ r.base # m.expected) THEN r
    ELSE [r EXCEPT !.base = m.value.version, !.baseRev = m.value.revision,
                   !.dirty = r.value.version # m.value.version,
                   !.conflict = None, !.sent = None]

\* acknowledge one mutation.
Acknowledged(r, m) ==
    IF r = None \/ (r # None /\ r.base # m.expected) THEN r
    ELSE LET newer == r.value.version # m.value.version IN
         [r EXCEPT !.base = m.value.version,
                   !.baseRev = m.value.revision,
                   !.value.revision = m.value.revision + (IF newer THEN 1 ELSE 0),
                   !.dirty = newer,
                   !.conflict = None,
                   !.sent = None]

\* (broken) remote values replace local edits
ReceivedOverEdits(p, r, v, clock) ==
    IF r # None /\ v.revision <= r.baseRev THEN r ELSE CleanRow(p, v)

\* (broken) local edits are moved onto whatever is committed
ReceivedRebasing(p, r, v, clock) ==
    IF r = None \/ (r # None /\ ~r.dirty) THEN CleanRow(p, v)
    ELSE [r EXCEPT !.base = v.version, !.baseRev = v.revision,
                   !.value.revision = v.revision + 1, !.sent = None]

\* (broken) delayed snapshots are not recognised by their revision
ReceivedStale(p, r, v, clock) ==
    IF r = None \/ (r # None /\ ~r.dirty) THEN CleanRow(p, v) ELSE r

\* receive one remote value.
Received(p, r, v, clock) ==
    IF r = None THEN CleanRow(p, v)
    ELSE CASE v.revision <= r.baseRev -> r
           [] v.revision > r.baseRev /\ DeletionState(r.value, clock) = "DELETED"
                /\ DeletionState(v, clock) = "DELETED" -> CleanRow(p, v)
           [] OTHER ->
                IF ~r.dirty
                THEN IF r.base = v.version THEN r ELSE CleanRow(p, v)
                ELSE IF r.value.version = v.version
                THEN [r EXCEPT !.base = v.version, !.baseRev = v.revision,
                               !.dirty = FALSE, !.conflict = None, !.sent = None]
                ELSE IF r.sent # None /\ r.sent.value.version = v.version
                THEN [r EXCEPT !.base = v.version, !.baseRev = v.revision,
                               !.value.revision = v.revision + 1,
                               !.conflict = None, !.sent = None]
                ELSE IF r.base # v.version
                THEN [r EXCEPT !.conflict = v, !.sent = None]
                ELSE r
=============================================================================
