--------------------------- MODULE ForecastBackup ----------------------------
(***************************************************************************)
(* The ledger of the calculation-only backup service                       *)
(* (src/src/autonavlog/web/forecast_backup.py, class BackupJobs): a SQLite *)
(* table that survives restarts of the process, an executor of the process *)
(* that does not, and clients that repeat a PUT whose answer they lost.    *)
(* Time advances in ticks; the three periods of the code are constants     *)
(* that keep their order (the skew allowed to issued_at, the ten minutes   *)
(* of REQUEST_SECONDS, the day of RETENTION_SECONDS).  A request names its *)
(* owner, its id and the digest of its body in one value.                  *)
(***************************************************************************)
EXTENDS Naturals, Integers, FiniteSets, Sequences

CONSTANTS Requests,        \* pairs of a capability owner and a request id
          Digests,         \* bodies a client may send under one id
          Skew,            \* how far in the future issued_at may lie
          RequestTime,     \* REQUEST_SECONDS
          RetentionTime,   \* RETENTION_SECONDS
          MaximumJobs,     \* the ledger's maximum
          BackupWorkers,   \* max_workers of the executor
          MaxRunning,      \* active runs admitted at a time (8 in the code)
          Horizon,         \* bound: last tick of a behaviour
          MaxRestarts      \* bound: restarts of the process

ASSUME BackupAssumption == /\ Skew \in Nat /\ RequestTime \in Nat /\ RetentionTime \in Nat
                           /\ Skew + RequestTime < RetentionTime
                           /\ MaximumJobs \in Nat /\ BackupWorkers \in Nat
                           /\ MaxRunning \in Nat /\ Horizon \in Nat /\ MaxRestarts \in Nat

VARIABLES now,       \* time.time()
          ledger,    \* the table jobs: request -> row
          handing,   \* requests inserted, not yet handed to the executor
          waiting,   \* requests the executor holds
          computing, \* requests a worker computes
          restarts,
          issued,    \* the client's issued_at of each request
          computed   \* how often compute was called for a request

backupVars == <<now, ledger, handing, waiting, computing, restarts, issued, computed>>

Row == [digest : Digests, created : 0 .. Horizon,
        status : {"running", "succeeded", "failed"}]

BackupTypeOK ==
  /\ now \in 0 .. Horizon
  /\ DOMAIN ledger \subseteq Requests
  /\ \A r \in DOMAIN ledger : ledger[r] \in Row
  /\ handing \subseteq Requests /\ waiting \subseteq Requests /\ computing \subseteq Requests
  /\ restarts \in 0 .. MaxRestarts
  /\ issued \in [Requests -> 0 .. Horizon + Skew]
  /\ computed \in [Requests -> 0 .. 2]

BackupInit ==
  /\ now = 0
  /\ ledger = <<>>
  /\ handing = {} /\ waiting = {} /\ computing = {}
  /\ restarts = 0
  /\ issued \in [Requests -> 0 .. Skew]
  /\ computed = [r \in Requests |-> 0]

\* (broken) a row is dropped as soon as its run is over
RetainedBriefly(rows) ==
  [r \in {q \in DOMAIN rows : rows[q].created >= now - RequestTime} |-> rows[r]]

(* DELETE FROM jobs WHERE created < now - RETENTION_SECONDS *)
Retained(rows) ==
  [r \in {q \in DOMAIN rows : rows[q].created >= now - RetentionTime} |-> rows[r]]

Overdue(row) == row.created < now - RequestTime

Running(rows) == {r \in DOMAIN rows : rows[r].status = "running" /\ ~Overdue(rows[r])}

(* submit's transaction for an id the ledger does not know: the age of the *)
(* request, the runs under way and the size of the ledger decide.  The     *)
(* limits per client and per owner are of the same form as these two.      *)
Admissible(r, rows) ==
  /\ now - issued[r] >= -Skew
  /\ now - issued[r] <= RequestTime
  /\ Cardinality(Running(rows)) < MaxRunning
  /\ Cardinality(DOMAIN rows) < MaximumJobs

Interrupted(row) == [row EXCEPT !.status = "failed"]

\* (broken) reading does not look at the deadline
ReadAsStored(r, rows) == rows

(* get after submit: an overdue run is reported interrupted. *)
Read(r, rows) ==
  IF r \in DOMAIN rows /\ rows[r].status = "running" /\ Overdue(rows[r])
  THEN [rows EXCEPT ![r] = Interrupted(@)]
  ELSE rows

Inserted(r, digest, rows) ==
  [q \in DOMAIN rows \cup {r} |->
     IF q = r THEN [digest |-> digest, created |-> now, status |-> "running"]
     ELSE rows[q]]

(* PUT of a new request: one transaction inserts the row. *)
SubmitNew(r, digest) ==
  LET rows == Retained(ledger)
  IN /\ r \notin DOMAIN rows
     /\ Admissible(r, rows)
     /\ ledger' = Inserted(r, digest, rows)
     /\ handing' = handing \cup {r}
     /\ UNCHANGED <<now, waiting, computing, restarts, issued, computed>>

(* PUT of a known id: a different body is a conflict, which rolls the      *)
(* transaction back; the same body only reads.                             *)
SubmitAgain(r, digest) ==
  LET rows == Retained(ledger)
  IN /\ r \in DOMAIN rows
     /\ rows[r].digest = digest
     /\ ledger' = Read(r, rows)
     /\ UNCHANGED <<now, handing, waiting, computing, restarts, issued, computed>>

(* GET *)
Poll(r) ==
  /\ ledger' = Read(r, Retained(ledger))
  /\ UNCHANGED <<now, handing, waiting, computing, restarts, issued, computed>>

(* executor.submit after the transaction.  Once close has shut the         *)
(* executor down the job is finished as interrupted: see Restart.          *)
Hand(r) ==
  /\ r \in handing
  /\ handing' = handing \ {r}
  /\ waiting' = waiting \cup {r}
  /\ UNCHANGED <<now, ledger, computing, restarts, issued, computed>>

(* _run: the ledger is asked before anything is spent on the request. *)
Run(r) ==
  /\ r \in waiting
  /\ Cardinality(computing) < BackupWorkers
  /\ waiting' = waiting \ {r}
  /\ IF r \notin DOMAIN ledger \/ ledger[r].status # "running"
     THEN UNCHANGED <<ledger, computing, computed>>
     ELSE IF Overdue(ledger[r])
     THEN /\ ledger' = [ledger EXCEPT ![r] = Interrupted(@)]
          /\ UNCHANGED <<computing, computed>>
     ELSE /\ computing' = computing \cup {r}
          /\ computed' = [computed EXCEPT ![r] = @ + 1]
          /\ UNCHANGED ledger
  /\ UNCHANGED <<now, handing, restarts, issued>>

(* _finish: only a row still running takes the result, and one past its    *)
(* deadline takes the interruption instead.                                *)
FinishRow(row, ok) ==
  IF row.status # "running" THEN row
  ELSE IF ok /\ ~Overdue(row) THEN [row EXCEPT !.status = "succeeded"]
  ELSE [row EXCEPT !.status = "failed"]

Finish(r) ==
  /\ r \in computing
  /\ computing' = computing \ {r}
  /\ \E ok \in BOOLEAN :
       ledger' = IF r \in DOMAIN ledger THEN [ledger EXCEPT ![r] = FinishRow(@, ok)] ELSE ledger
  /\ UNCHANGED <<now, handing, waiting, restarts, issued, computed>>

(* close waits for the workers and cancels what waits; a request in        *)
(* between meets a closed executor.  The ledger stays.                     *)
Restart ==
  /\ restarts < MaxRestarts
  /\ computing = {}
  /\ restarts' = restarts + 1
  /\ ledger' = [r \in DOMAIN ledger |->
                  IF r \in handing THEN FinishRow(ledger[r], FALSE) ELSE ledger[r]]
  /\ handing' = {} /\ waiting' = {}
  /\ UNCHANGED <<now, computing, issued, computed>>

(* The process dies: every queued or computing request is lost. *)
Die ==
  /\ restarts < MaxRestarts
  /\ restarts' = restarts + 1
  /\ handing' = {} /\ waiting' = {} /\ computing' = {}
  /\ UNCHANGED <<now, ledger, issued, computed>>

Tick ==
  /\ now < Horizon
  /\ now' = now + 1
  /\ UNCHANGED <<ledger, handing, waiting, computing, restarts, issued, computed>>

BackupNext ==
  \/ \E r \in Requests, digest \in Digests : SubmitNew(r, digest) \/ SubmitAgain(r, digest)
  \/ \E r \in Requests : Poll(r) \/ Hand(r) \/ Run(r) \/ Finish(r)
  \/ Restart
  \/ Die
  \/ Tick

(* The client polls until its job ends and time passes; nothing is assumed *)
(* of the workers, which may hang on an acquisition or be lost.            *)
BackupFairness == /\ WF_backupVars(Tick)
                  /\ \A r \in Requests : WF_backupVars(Poll(r))

BackupSpec == BackupInit /\ [][BackupNext]_backupVars /\ BackupFairness
-----------------------------------------------------------------------------
(* Retries, lost answers and restarts never make the server compute a      *)
(* request twice: the row outlives every moment at which issued_at would   *)
(* let the same id in again.                                               *)
ComputedOnce == BackupTypeOK /\ \A r \in Requests : computed[r] <= 1

(* A client that keeps asking learns the end of its job, even when the     *)
(* process that ran it is gone: running becomes an outcome or the row      *)
(* leaves the ledger.                                                      *)
PollEnds ==
  \A r \in Requests :
    (r \in DOMAIN ledger /\ ledger[r].status = "running" /\ now + RequestTime < Horizon)
      ~> (r \notin DOMAIN ledger \/ ledger[r].status # "running")
=============================================================================
