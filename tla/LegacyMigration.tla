--------------------------- MODULE LegacyMigration ---------------------------
(***************************************************************************)
(* The move of one Legacy owner to NavMate                                 *)
(* (src/src/autonavlog/web/legacy_migration.py).  The row of the links     *)
(* table, the plan in it and the receipts are durable; the owner's lock    *)
(* and the step it protects live in the process.  step() is split at every *)
(* durable or remote effect, and at each of them the call may fail, its    *)
(* answer may be lost, or the process may die; NavMate devices edit the    *)
(* same documents meanwhile.  The lock is an RLock of the process: one     *)
(* server process at a time works on the data directory, as                *)
(* src/docs/legacy_migration.md:26-27 demands; a later one takes over      *)
(* after a death.  Two processes side by side are not modelled.            *)
(***************************************************************************)
EXTENDS Naturals, FiniteSets, Sequences, SequencesExt

CONSTANTS Records,        \* ids of the owner's Projects
          Texts,          \* what a Project may contain
          BatchSize,      \* records of one step
          NoDoc,          \* no document, no receipt side, no Legacy Project
          MaxLegacyEdits, MaxForeignEdits, MaxMigrationFaults  \* bounds

ASSUME MigrationAssumption == /\ BatchSize \in Nat \ {0}
                              /\ MaxLegacyEdits \in Nat /\ MaxForeignEdits \in Nat
                              /\ MaxMigrationFaults \in Nat
ASSUME RecordsAssumption == IsFiniteSet(Records)  \* the Projects of one owner

VARIABLES legacy,     \* Legacy storage: id -> text or NoDoc
          link,       \* the links row: [state, plan, completed, expired]
          receipts,   \* id -> [previous, intended]
          stage,      \* what the holder of the owner's lock does, or "free"
          current,    \* what step read from the account before writing
          desired,    \* what step decided to write: id -> document
          remote,     \* the account's documents: id -> document or NoDoc
          stamp,      \* versions handed out
          edits, foreign, faults,  \* counters of the bounds
          hadText,    \* ghost: texts Legacy ever had, per id
          published   \* ghost: bodies the account ever had, per id

migVars == <<legacy, link, receipts, stage, current, desired, remote, stamp,
             edits, foreign, faults, hadText, published>>

Bodies == [text : Texts, deletion : {"ACTIVE", "DELETED"}]
Targets == [id : Records, body : Bodies]
Doc == [body : Bodies, version : Nat]

ASSUME NoDocAssumption == NoDoc \notin Texts \cup Doc

Stages == {"free", "legacy", "read", "journal", "commit", "verify", "record", "verifyAll", "activate"}

MigrationTypeOK ==
  /\ legacy \in [Records -> Texts \cup {NoDoc}]
  /\ link \in [state : {"UNLINKED", "LINKED", "MIGRATING", "NAVMATE_ACTIVE"},
               plan : Seq(Targets), completed : Nat, expired : BOOLEAN]
  /\ \A id \in DOMAIN receipts : receipts[id] \in [previous : Doc \cup {NoDoc}, intended : Doc]
  /\ stage \in Stages
  /\ remote \in [Records -> Doc \cup {NoDoc}]
  /\ link.completed <= Len(link.plan)

MigrationInit ==
  /\ legacy \in [Records -> Texts \cup {NoDoc}]
  /\ link = [state |-> "UNLINKED", plan |-> <<>>, completed |-> 0, expired |-> FALSE]
  /\ receipts = <<>>
  /\ stage = "free" /\ current = <<>> /\ desired = <<>>
  /\ remote = [id \in Records |-> NoDoc]
  /\ stamp = 0 /\ edits = 0 /\ foreign = 0 /\ faults = 0
  /\ hadText = [id \in Records |-> {legacy[id]} \ {NoDoc}]
  /\ published = [id \in Records |-> {}]

(* _row: a lease that ran out makes the owner LINKED again. *)
Seen == IF link.state = "MIGRATING" /\ link.expired
        THEN [link EXCEPT !.state = "LINKED"] ELSE link

(* fail(): whatever was imported stays, Legacy is usable again. *)
Failed == [link EXCEPT !.state = IF @ = "MIGRATING" THEN "LINKED" ELSE @]

MayFail == faults < MaxMigrationFaults /\ faults' = faults + 1

Abort == /\ link' = Failed
         /\ stage' = "free" /\ current' = <<>> /\ desired' = <<>>

\* (broken) a Legacy operation checks the row and works without the lock
LockFreeOfSteps == stage \in {"free", "legacy"}

LockFree == stage = "free"

(* link: one transaction; an owner already linked is left as it is. *)
Link == /\ LockFree /\ link.state = "UNLINKED"
        /\ link' = [link EXCEPT !.state = "LINKED"]
        /\ UNCHANGED <<legacy, receipts, stage, current, desired, remote, stamp,
                       edits, foreign, faults, hadText, published>>

(* status, or any other call that reads the row first. *)
Status == /\ LockFree
          /\ link' = Seen
          /\ UNCHANGED <<legacy, receipts, stage, current, desired, remote, stamp,
                         edits, foreign, faults, hadText, published>>

MayEnterLegacy == Seen.state \notin {"MIGRATING", "NAVMATE_ACTIVE"}

(* A Legacy operation (legacy_operation): it takes the owner's lock, reads *)
(* the row and is refused or goes on under the lock, also for as long as a *)
(* calculation takes.                                                      *)
LegacyEnter ==
  /\ edits < MaxLegacyEdits
  /\ LockFree
  /\ MayEnterLegacy
  /\ link' = Seen
  /\ stage' = "legacy"
  /\ edits' = edits + 1
  /\ UNCHANGED <<legacy, receipts, current, desired, remote, stamp, foreign, faults,
                 hadText, published>>

(* It saves, creates or deletes a Project and gives the lock back. *)
LegacyWrite(id, text) ==
  /\ stage = "legacy"
  /\ stage' = "free"
  /\ legacy[id] # text
  /\ legacy' = [legacy EXCEPT ![id] = text]
  /\ hadText' = [hadText EXCEPT ![id] = @ \cup ({text} \ {NoDoc})]
  /\ UNCHANGED <<link, receipts, current, desired, remote, stamp, edits, foreign,
                 faults, published>>

(* Or it ends without a write. *)
LegacyLeave ==
  /\ stage = "legacy"
  /\ stage' = "free"
  /\ UNCHANGED <<legacy, link, receipts, current, desired, remote, stamp, edits, foreign,
                 faults, hadText, published>>

ActiveBody(text) == [text |-> text, deletion |-> "ACTIVE"]

(* snapshot, then the retirement of every record imported earlier that     *)
(* Legacy no longer has.                                                   *)
PlanOf ==
  LET kept == {id \in Records : legacy[id] # NoDoc}
      gone == DOMAIN receipts \ kept
  IN SetToSeq({[id |-> id, body |-> ActiveBody(legacy[id])] : id \in kept})
     \o SetToSeq({[id |-> id, body |-> [receipts[id].intended.body EXCEPT !.deletion = "DELETED"]]
                    : id \in gone})

Begin == /\ LockFree
         /\ Seen.state = "LINKED"
         /\ link' = [state |-> "MIGRATING", plan |-> PlanOf, completed |-> 0, expired |-> FALSE]
         /\ UNCHANGED <<legacy, receipts, stage, current, desired, remote, stamp,
                        edits, foreign, faults, hadText, published>>

Batch == SubSeq(link.plan, link.completed + 1,
                IF link.completed + BatchSize > Len(link.plan) THEN Len(link.plan)
                ELSE link.completed + BatchSize)
BatchTargets == {Batch[i] : i \in 1 .. Len(Batch)}
BatchIds == {target.id : target \in BatchTargets}

StepEnter ==
  /\ LockFree
  /\ Seen.state = "MIGRATING"
  /\ stage' = IF Batch = <<>> THEN "verifyAll" ELSE "read"
  /\ UNCHANGED <<legacy, link, receipts, current, desired, remote, stamp,
                 edits, foreign, faults, hadText, published>>

(* remote.read of the batch *)
StepRead ==
  /\ stage = "read"
  /\ \/ /\ current' = [id \in BatchIds |-> remote[id]]
        /\ stage' = "journal"
        /\ UNCHANGED <<link, desired, faults>>
     \/ MayFail /\ Abort
  /\ UNCHANGED <<legacy, receipts, remote, stamp, edits, foreign, hadText, published>>

SameBody(old, target) == old # NoDoc /\ old.body = target.body

\* (broken) only the document the last attempt found is recognised
JournaledBefore(id, old) == id \in DOMAIN receipts /\ old = receipts[id].previous

(* The account's document is one an earlier attempt of this migration left *)
(* there: it has the content and the version of a journaled side.          *)
Journaled(id, old) ==
  id \in DOMAIN receipts /\ old \in {receipts[id].previous, receipts[id].intended}

Conflicts(target) ==
  LET old == current[target.id]
  IN /\ old # NoDoc /\ ~SameBody(old, target)
     /\ \/ ~Journaled(target.id, old)
        \/ old.body.deletion # "ACTIVE" /\ target.body.deletion # "DELETED"

Decided(target) ==
  LET old == current[target.id]
  IN IF SameBody(old, target) THEN old ELSE [body |-> target.body, version |-> stamp + 1]

(* The decision for each record of the batch and the receipts of all of    *)
(* them, in one transaction before the remote call.                        *)
StepJournal ==
  /\ stage = "journal"
  /\ IF \E target \in BatchTargets : Conflicts(target)
     THEN /\ Abort /\ UNCHANGED <<receipts, stamp>>
     ELSE /\ desired' = [id \in BatchIds |->
                           Decided(CHOOSE target \in BatchTargets : target.id = id)]
          /\ receipts' = [id \in DOMAIN receipts \cup BatchIds |->
                            IF id \in BatchIds
                            THEN [previous |-> current[id], intended |-> desired'[id]]
                            ELSE receipts[id]]
          /\ stamp' = stamp + IF desired' = current THEN 0 ELSE 1
          /\ stage' = "commit"
          /\ UNCHANGED <<link, current>>
  /\ UNCHANGED <<legacy, remote, edits, foreign, faults, hadText, published>>

Writes == {id \in BatchIds : desired[id] # current[id]}
\* (broken) the commit does not compare
PreconditionsNone == Writes \subseteq Records

Preconditions == \A id \in Writes : remote[id] = current[id]

Written == [id \in Records |-> IF id \in Writes THEN desired[id] ELSE remote[id]]

(* remote.commit: all writes with their preconditions, or none.  Applied   *)
(* and acknowledged; applied with the answer lost; refused or not sent.    *)
StepCommit ==
  /\ stage = "commit"
  /\ \/ /\ Preconditions
        /\ remote' = Written
        /\ published' = [id \in Records |-> published[id] \cup
                           (IF id \in Writes THEN {desired[id].body} ELSE {})]
        /\ \/ stage' = "verify" /\ UNCHANGED <<link, current, desired, faults>>
           \/ MayFail /\ Abort
     \/ /\ \/ ~Preconditions /\ UNCHANGED faults
           \/ MayFail
        /\ Abort
        /\ UNCHANGED <<remote, published>>
  /\ UNCHANGED <<legacy, receipts, stamp, edits, foreign, hadText>>

Matches(targets) == \A target \in targets : SameBody(remote[target.id], target)

(* The read-back of the batch. *)
StepVerify ==
  /\ stage = "verify"
  /\ \/ /\ Matches(BatchTargets)
        /\ stage' = "record"
        /\ UNCHANGED <<link, current, desired, faults>>
     \/ ~Matches(BatchTargets) /\ Abort /\ UNCHANGED faults
     \/ MayFail /\ Abort
  /\ UNCHANGED <<legacy, receipts, remote, stamp, edits, foreign, hadText, published>>

StepRecord ==
  /\ stage = "record"
  /\ link' = [link EXCEPT !.completed = @ + Len(Batch), !.expired = FALSE]
  /\ stage' = "free" /\ current' = <<>> /\ desired' = <<>>
  /\ UNCHANGED <<legacy, receipts, remote, stamp, edits, foreign, faults, hadText, published>>

(* The last step verifies every record again before the one-way switch. *)
StepVerifyAll ==
  /\ stage = "verifyAll"
  /\ LET all == {link.plan[i] : i \in 1 .. Len(link.plan)}
     IN \/ Matches(all) /\ stage' = "activate" /\ UNCHANGED <<link, current, desired, faults>>
        \/ ~Matches(all) /\ Abort /\ UNCHANGED faults
        \/ MayFail /\ Abort
  /\ UNCHANGED <<legacy, receipts, remote, stamp, edits, foreign, hadText, published>>

StepActivate ==
  /\ stage = "activate"
  /\ link' = [link EXCEPT !.state = "NAVMATE_ACTIVE"]
  /\ stage' = "free"
  /\ UNCHANGED <<legacy, receipts, current, desired, remote, stamp, edits, foreign,
                 faults, hadText, published>>

(* The process dies inside a step or a Legacy operation: lock and          *)
(* decisions go, a row MIGRATING stays so until its lease runs out.        *)
ProcessDies ==
  /\ stage # "free"
  /\ MayFail
  /\ stage' = "free" /\ current' = <<>> /\ desired' = <<>>
  /\ UNCHANGED <<legacy, link, receipts, remote, stamp, edits, foreign, hadText, published>>

(* The page paused for longer than the lease, between steps or in one. *)
LeaseRunsOut ==
  /\ link.state = "MIGRATING" /\ ~link.expired
  /\ MayFail
  /\ link' = [link EXCEPT !.expired = TRUE]
  /\ UNCHANGED <<legacy, receipts, stage, current, desired, remote, stamp,
                 edits, foreign, hadText, published>>

(* A NavMate device writes a document of the account. *)
ForeignEdit(id, body) ==
  /\ foreign < MaxForeignEdits
  /\ remote[id] # NoDoc => /\ remote[id].body # body
                           /\ remote[id].body.deletion = "ACTIVE"
  /\ remote' = [remote EXCEPT ![id] = [body |-> body, version |-> stamp + 1]]
  /\ stamp' = stamp + 1
  /\ published' = [published EXCEPT ![id] = @ \cup {body}]
  /\ foreign' = foreign + 1
  /\ UNCHANGED <<legacy, link, receipts, stage, current, desired, edits, faults, hadText>>

Step == StepEnter \/ StepRead \/ StepJournal \/ StepCommit \/ StepVerify \/ StepRecord
        \/ StepVerifyAll \/ StepActivate

MigrationNext ==
  \/ Link \/ Status \/ Begin \/ Step \/ ProcessDies \/ LeaseRunsOut
  \/ LegacyEnter \/ LegacyLeave
  \/ \E id \in Records, text \in Texts \cup {NoDoc} : LegacyWrite(id, text)
  \/ \E id \in Records, body \in Bodies : ForeignEdit(id, body)

(* The user keeps asking: links, begins and lets the page call step, and a *)
(* step calls its way to the end or to fail(); a Legacy operation ends.  A *)
(* pause that outlasts the lease is a fault: an open page asks again       *)
(* within seconds.                                                         *)
MigrationWork == \/ StepRead \/ StepJournal \/ StepCommit \/ StepVerify
                 \/ StepRecord \/ StepVerifyAll \/ StepActivate

MigrationFairness == /\ WF_migVars(Begin) /\ WF_migVars(StepEnter)
                     /\ WF_migVars(MigrationWork) /\ WF_migVars(LegacyLeave)

MigrationSpec == MigrationInit /\ [][MigrationNext]_migVars /\ MigrationFairness
-----------------------------------------------------------------------------
(* What is being moved is what Legacy holds: no Legacy operation that      *)
(* passed its check writes between begin and the switch, whatever dies or  *)
(* times out in between.                                                   *)
PlanIsLegacy ==
  Seen.state \in {"MIGRATING", "NAVMATE_ACTIVE"} =>
    \A id \in Records :
      (legacy[id] # NoDoc) <=> \E i \in 1 .. Len(link.plan) :
                                  link.plan[i] = [id |-> id, body |-> ActiveBody(legacy[id])]

(* After the one-way switch every Legacy Project has been in the account,  *)
(* and every record an interrupted attempt left there and Legacy dropped   *)
(* since has been deleted there.                                           *)
ActiveIsComplete ==
  link.state = "NAVMATE_ACTIVE" =>
    \A id \in Records :
      /\ legacy[id] # NoDoc => ActiveBody(legacy[id]) \in published[id]
      /\ legacy[id] = NoDoc /\ id \in DOMAIN receipts =>
           \E body \in published[id] : body.deletion = "DELETED"

(* The move loses nothing of what Legacy holds, neither while it runs nor  *)
(* through it.                                                             *)
MoveIsComplete == MigrationTypeOK /\ PlanIsLegacy /\ ActiveIsComplete

(* The migration replaces a document only by what Legacy held, and only    *)
(* where the document is one Legacy once held too: an edit a NavMate       *)
(* device made is never lost to a retry, however stale the attempt.        *)
ForeignEditsKept ==
  [][\A id \in Records :
       (remote'[id] # remote[id] /\ foreign' = foreign /\ remote[id] # NoDoc)
         => remote[id].body.text \in hadText[id] /\ remote'[id].body.text \in hadText[id]]_migVars

(* A Project that was deleted in Legacy after an interrupted attempt had   *)
(* imported it, was retired by the next one and is back in Legacy since    *)
(* (an autosave of a tab that still holds it): its tombstone is final, so  *)
(* every further attempt is refused.                                       *)
BackAfterRetirement ==
  \E id \in Records : /\ legacy[id] # NoDoc /\ remote[id] # NoDoc
                      /\ remote[id].body.deletion = "DELETED"

(* Without a foreign edit, lost acknowledgements and dead processes never  *)
(* turn into a conflict that blocks the owner: the move completes, unless  *)
(* a Project came back after its retirement.                               *)
MigrationCompletes ==
  link.state # "UNLINKED" ~>
    (link.state = "NAVMATE_ACTIVE" \/ foreign > 0 \/ BackAfterRetirement)
=============================================================================
