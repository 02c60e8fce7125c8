----------------------------- MODULE SyncValues -----------------------------
(***************************************************************************)
(* The values exchanged by Account Sync: a SyncProject, its deletion state *)
(* and the mutations of one atomic group (web/src/accountSync.ts), with    *)
(* the two tests a mutation meets on its way to a Firestore document: the  *)
(* compare-and-swap of the client transaction                              *)
(* (web/src/firestoreSyncRepository.ts) and the server's Rules             *)
(* (firebase/firestore.rules).                                             *)
(*                                                                         *)
(* A version is the UUID of one local write of one Project.  It is a       *)
(* positive number, fresh for its Project; 0 is null.  The domain record   *)
(* (checkpoint, draft, Last Calculation) is abstracted to its token, which *)
(* is the version at which that record was written, and to whether it has  *)
(* a checkpoint (saved).  until = 0 stands for undoUntil = null.           *)
(***************************************************************************)
EXTENDS Naturals

CONSTANTS Projects,    \* Project ids
          Devices,     \* browser profiles, each with one device id
          None,        \* undefined / null for everything but versions
          UndoWindow   \* the ten seconds between delete and expiry, in ticks

ASSUME UndoWindowAssumption == UndoWindow \in Nat \ {0}

DeletionStates == {"ACTIVE", "PENDING_DELETE", "DELETED"}

SyncProject == [version  : Nat \ {0},
                revision : Nat \ {0},
                token    : Nat \ {0},
                saved    : BOOLEAN,
                latest   : Devices \cup {None},
                deletion : DeletionStates,
                until    : Nat]

SyncMutation == [id : Projects, expected : Nat, value : SyncProject]

Expired(value, clock) ==
    value.deletion = "PENDING_DELETE" /\ value.until # 0 /\ clock >= value.until

DeletionState(value, clock) ==
    IF Expired(value, clock) THEN "DELETED" ELSE value.deletion

-----------------------------------------------------------------------------
(* The transaction of FirestoreSyncRepository.commit, one mutation at a time. *)

VersionOf(doc) == IF doc = None THEN 0 ELSE doc.version

\* The document already holds this operation: a retry after a lost
\* acknowledgement, skipped by both loops of the transaction.
Replayed(docs, m) == VersionOf(docs[m.id]) = m.value.version

\* The compare-and-swap fails, or the mutation would resurrect a tombstone.
Clashes(docs, m, clock) ==
    /\ ~Replayed(docs, m)
    /\ \/ VersionOf(docs[m.id]) # m.expected
       \/ /\ docs[m.id] # None
          /\ DeletionState(docs[m.id], clock) = "DELETED"
          /\ DeletionState(m.value, clock) # "DELETED"

\* What transaction.set stores: the label is normalised, the rest is the value.
Stored(m, clock) ==
    [m.value EXCEPT !.deletion = DeletionState(m.value, clock)]

\* What the browser sends: reads become preconditions, replays write nothing.
Request(docs, batch, clock) ==
    {[id   |-> m.id,
      base |-> m.expected,
      read |-> VersionOf(docs[m.id]),
      doc  |-> IF Replayed(docs, m) THEN None ELSE Stored(m, clock)] : m \in batch}

-----------------------------------------------------------------------------
(* The Rules of one Project document, evaluated with the server's clock. *)

RulesValid(doc, serverNow) ==
    doc.deletion = "PENDING_DELETE" =>
        doc.until # 0 /\ doc.until <= serverNow + UndoWindow

RulesCreate(new, base, serverNow) ==
    RulesValid(new, serverNow) /\ base = 0 /\ new.revision = 1

RulesDeleted(old, serverNow) ==
    \/ old.deletion = "DELETED"
    \/ old.deletion = "PENDING_DELETE" /\ old.until <= serverNow

\* (broken) an expired deletion can be undone
RulesUpdateReviving(old, new, base, serverNow) ==
    /\ RulesValid(new, serverNow)
    /\ base = old.version
    /\ new.revision = old.revision + 1

RulesUpdate(old, new, base, serverNow) ==
    /\ RulesValid(new, serverNow)
    /\ base = old.version
    /\ new.version # old.version
    /\ new.revision = old.revision + 1
    /\ old.deletion = "PENDING_DELETE" /\ new.deletion = "PENDING_DELETE" =>
           new.until = old.until
    /\ RulesDeleted(old, serverNow) => new.deletion = "DELETED"

RulesAllow(docs, w, serverNow) ==
    \/ w.doc = None
    \/ IF docs[w.id] = None THEN RulesCreate(w.doc, w.base, serverNow)
                            ELSE RulesUpdate(docs[w.id], w.doc, w.base, serverNow)

\* Firestore applies all writes of the request, or none: every document read by
\* the transaction is unchanged and the Rules allow every write.
Applies(docs, request, serverNow) ==
    \A w \in request : VersionOf(docs[w.id]) = w.read /\ RulesAllow(docs, w, serverNow)

Apply(docs, request) ==
    [p \in Projects |->
        IF \E w \in request : w.id = p /\ w.doc # None
        THEN (CHOOSE w \in request : w.id = p /\ w.doc # None).doc
        ELSE docs[p]]
=============================================================================
