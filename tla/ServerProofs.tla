----------------------------- MODULE ServerProofs -----------------------------
(***************************************************************************)
(* Proofs about three components of the server that keep durable books:    *)
(* the ledger of the backup service (ForecastBackup), the container and its *)
(* links (LocalRuntime) and the move of a Legacy owner (LegacyMigration),   *)
(* for any numbers of requests, releases, records, restarts and faults.     *)
(***************************************************************************)
EXTENDS ForecastBackup, LegacyMigration, LocalRuntime, FunctionTheorems, FiniteSetTheorems, SequenceTheorems, TLAPS

-----------------------------------------------------------------------------
(* ForecastBackup: a request that the process has seen is in the ledger, or *)
(* too old to be let in again.                                              *)

\* A row was made when its request was young enough, and not in the future.
RowsDated ==
  \A r \in DOMAIN ledger : issued[r] - Skew <= ledger[r].created /\ ledger[r].created <= now

TooOld(r) == now > issued[r] + RequestTime

\* A request the process holds, or has computed, cannot come in a second time.
KnownOrOld ==
  \A r \in Requests :
    (r \in handing \cup waiting \/ computed[r] # 0) => r \in DOMAIN ledger \/ TooOld(r)

\* A request waits in one place, and only before it was computed.
WaitsOnce ==
  /\ handing \cap waiting = {}
  /\ \A r \in handing \cup waiting : computed[r] = 0

BackupInv == ComputedOnce /\ RowsDated /\ KnownOrOld /\ WaitsOnce

\* What the assumption says, as arithmetic.
LEMMA BackupBounds ==
  /\ Skew \in Nat /\ RequestTime \in Nat /\ RetentionTime \in Nat
  /\ Skew + RequestTime < RetentionTime /\ Horizon \in Nat /\ MaxRestarts \in Nat
BY BackupAssumption DEF BackupAssumption

\* The numbers of a request.
LEMMA RequestNumbers ==
  ASSUME BackupTypeOK, NEW r \in Requests
  PROVE  now \in Nat /\ issued[r] \in Nat /\ computed[r] \in 0 .. 2
         /\ (r \in DOMAIN ledger => ledger[r].created \in Nat)
BY BackupBounds DEF BackupTypeOK, Row

\* The ledger is empty at first.
LEMMA BackupInitInv == BackupInit => BackupInv
<1> SUFFICES ASSUME BackupInit PROVE BackupInv
    OBVIOUS
<1> USE BackupBounds DEF BackupInit
<1>1. DOMAIN ledger = {}
    OBVIOUS
<1>2. BackupTypeOK
    BY <1>1 DEF BackupTypeOK
<1> QED BY <1>1, <1>2 DEF BackupInv, ComputedOnce, RowsDated, KnownOrOld, WaitsOnce

\* The retention keeps the rows of all requests that could come in again.
LEMMA RetentionKeeps ==
  ASSUME BackupInv
  PROVE  /\ DOMAIN Retained(ledger) \subseteq DOMAIN ledger
         /\ \A r \in DOMAIN Retained(ledger) : Retained(ledger)[r] = ledger[r]
         /\ \A r \in DOMAIN ledger : r \in DOMAIN Retained(ledger) \/ TooOld(r)
<1>1. DOMAIN Retained(ledger) = {q \in DOMAIN ledger : ledger[q].created >= now - RetentionTime}
    BY DEF Retained
<1>2. \A r \in DOMAIN Retained(ledger) : Retained(ledger)[r] = ledger[r]
    BY <1>1 DEF Retained
<1>3. ASSUME NEW r \in DOMAIN ledger, r \notin DOMAIN Retained(ledger) PROVE TooOld(r)
    <2>1. ~(ledger[r].created >= now - RetentionTime)
        BY <1>1, <1>3
    <2>2. r \in Requests
        BY DEF BackupInv, ComputedOnce, BackupTypeOK
    <2>3. now \in Nat /\ issued[r] \in Nat /\ ledger[r].created \in Nat
        BY <2>2, RequestNumbers DEF BackupInv, ComputedOnce
    <2>4. issued[r] - Skew <= ledger[r].created
        BY DEF BackupInv, RowsDated
    <2> QED BY <2>1, <2>3, <2>4, BackupBounds DEF TooOld
<1> QED BY <1>1, <1>2, <1>3

\* An interrupted or ended row is a row of the same date.
LEMMA EndedRow ==
  ASSUME NEW row \in Row, NEW ok \in BOOLEAN
  PROVE  /\ Interrupted(row) \in Row /\ Interrupted(row).created = row.created
         /\ FinishRow(row, ok) \in Row /\ FinishRow(row, ok).created = row.created
BY DEF Row, Interrupted, FinishRow

\* Rewriting rows keeps the books when no request is lost that is not too old.
LEMMA RewriteKeeps ==
  ASSUME BackupInv, now' = now, issued' = issued,
         DOMAIN ledger' \subseteq DOMAIN ledger,
         \A r \in DOMAIN ledger' : ledger'[r] \in Row /\ ledger'[r].created = ledger[r].created,
         \A r \in DOMAIN ledger : r \in DOMAIN ledger' \/ TooOld(r),
         handing' \subseteq handing, waiting' \subseteq handing \cup waiting,
         computing' \subseteq Requests, handing' \cap waiting' = {},
         restarts' \in 0 .. MaxRestarts,
         computed' \in [Requests -> 0 .. 2],
         \A r \in Requests : computed'[r] = computed[r]
           \/ (r \in waiting /\ r \notin waiting' /\ r \notin handing' /\ computed'[r] = 1)
  PROVE  BackupInv'
<1> USE DEF BackupInv, ComputedOnce
<1>1. BackupTypeOK'
    BY DEF BackupTypeOK
<1>2. \A r \in Requests : computed'[r] <= 1
    BY RequestNumbers
<1>3. RowsDated'
    BY DEF RowsDated
<1>4. \A r \in Requests : (r \in DOMAIN ledger \/ TooOld(r)) => (r \in DOMAIN ledger' \/ TooOld(r)')
    BY DEF TooOld
<1>5. \A r \in Requests : computed'[r] # 0 => computed[r] # 0 \/ r \in waiting
    OBVIOUS
<1>6. KnownOrOld'
    BY <1>4, <1>5 DEF KnownOrOld
<1>7. WaitsOnce'
    BY DEF WaitsOnce, BackupTypeOK
<1> QED BY <1>1, <1>2, <1>3, <1>6, <1>7
\* Reading or resubmitting rewrites the row of a request, if that is overdue.
LEMMA ReadKeeps ==
  ASSUME BackupInv, NEW r \in Requests, ledger' = Read(r, Retained(ledger)),
         UNCHANGED <<now, handing, waiting, computing, restarts, issued, computed>>
  PROVE  BackupInv'
<1> DEFINE rows == Retained(ledger)
<1>1. /\ DOMAIN rows \subseteq DOMAIN ledger
      /\ \A q \in DOMAIN rows : rows[q] = ledger[q]
      /\ \A q \in DOMAIN ledger : q \in DOMAIN rows \/ TooOld(q)
    BY RetentionKeeps
<1>2. \A q \in DOMAIN ledger : ledger[q] \in Row
    BY DEF BackupInv, ComputedOnce, BackupTypeOK
<1>3. DOMAIN ledger' = DOMAIN rows
    BY DEF Read
<1>4. ASSUME NEW q \in DOMAIN rows PROVE ledger'[q] \in Row /\ ledger'[q].created = ledger[q].created
    <2>1. ledger'[q] = rows[q] \/ (q = r /\ ledger'[q] = Interrupted(rows[q]))
        BY DEF Read
    <2>2. rows[q] = ledger[q] /\ ledger[q] \in Row
        BY <1>1, <1>2
    <2>3. Interrupted(ledger[q]) \in Row /\ Interrupted(ledger[q]).created = ledger[q].created
        BY <2>2, EndedRow
    <2> HIDE DEF rows
    <2> QED BY <2>1, <2>2, <2>3
<1>5. /\ handing' \subseteq handing /\ waiting' \subseteq handing \cup waiting
      /\ computing' \subseteq Requests /\ handing' \cap waiting' = {}
      /\ restarts' \in 0 .. MaxRestarts /\ computed' \in [Requests -> 0 .. 2]
      /\ \A q \in Requests : computed'[q] = computed[q]
    BY DEF BackupInv, ComputedOnce, BackupTypeOK, WaitsOnce
<1> HIDE DEF rows
<1> QED BY <1>1, <1>3, <1>4, <1>5, RewriteKeeps

\* A request comes in only if nothing is known of it, or it was too old.
LEMMA SubmitKeeps ==
  ASSUME BackupInv, NEW r \in Requests, NEW digest \in Digests, SubmitNew(r, digest)
  PROVE  BackupInv'
<1> DEFINE rows == Retained(ledger)
<1> USE DEF BackupInv, ComputedOnce
<1>1. /\ DOMAIN rows \subseteq DOMAIN ledger
      /\ \A q \in DOMAIN rows : rows[q] = ledger[q]
      /\ \A q \in DOMAIN ledger : q \in DOMAIN rows \/ TooOld(q)
    BY RetentionKeeps
<1>2. /\ r \notin DOMAIN rows /\ ledger' = Inserted(r, digest, rows) /\ handing' = handing \cup {r}
      /\ now - issued[r] >= -Skew /\ now - issued[r] <= RequestTime
      /\ UNCHANGED <<now, waiting, computing, restarts, issued, computed>>
    BY DEF SubmitNew, Admissible
<1>3. now \in Nat /\ issued[r] \in Nat /\ now \in 0 .. Horizon
    BY RequestNumbers DEF BackupTypeOK
<1>4. ~TooOld(r) /\ issued[r] - Skew <= now
    BY <1>2, <1>3, BackupBounds DEF TooOld
<1>5. r \notin DOMAIN ledger
    BY <1>1, <1>2, <1>4
<1>6. r \notin handing \cup waiting /\ computed[r] = 0
    BY <1>4, <1>5 DEF KnownOrOld
<1> HIDE DEF rows
<1>7. /\ DOMAIN ledger' = DOMAIN rows \cup {r}
      /\ ledger'[r] = [digest |-> digest, created |-> now, status |-> "running"]
      /\ \A q \in DOMAIN rows : ledger'[q] = ledger[q]
    BY <1>1, <1>2 DEF Inserted
<1>8. BackupTypeOK'
    <2>1. [digest |-> digest, created |-> now, status |-> "running"] \in Row
        BY <1>3 DEF Row
    <2>2. DOMAIN ledger' \subseteq Requests /\ \A q \in DOMAIN ledger' : ledger'[q] \in Row
        BY <2>1, <1>1, <1>7 DEF BackupTypeOK
    <2> QED BY <2>2, <1>2 DEF BackupTypeOK
<1>9. RowsDated'
    <2>1. ASSUME NEW q \in DOMAIN ledger', q # r PROVE issued'[q] - Skew <= ledger'[q].created /\ ledger'[q].created <= now'
        BY <2>1, <1>1, <1>2, <1>7 DEF RowsDated
    <2>2. issued'[r] - Skew <= ledger'[r].created /\ ledger'[r].created <= now'
        BY <1>2, <1>3, <1>4, <1>7
    <2> QED BY <2>1, <2>2 DEF RowsDated
<1>10. KnownOrOld'
    BY <1>1, <1>2, <1>7 DEF KnownOrOld, TooOld
<1>11. WaitsOnce'
    BY <1>2, <1>6 DEF WaitsOnce
<1> QED BY <1>2, <1>8, <1>9, <1>10, <1>11

\* A request is computed when its turn comes, and then waits no longer.
LEMMA RunKeeps ==
  ASSUME BackupInv, NEW r \in Requests, Run(r)
  PROVE  BackupInv'
<1> USE DEF BackupInv, ComputedOnce
<1>1. /\ r \in waiting /\ waiting' = waiting \ {r} /\ r \notin handing
      /\ UNCHANGED <<now, handing, restarts, issued>>
    BY DEF Run, WaitsOnce
<1>2. computed[r] = 0 /\ computed \in [Requests -> 0 .. 2] /\ computing \subseteq Requests
    BY <1>1 DEF WaitsOnce, BackupTypeOK
<1>3. /\ computing' \subseteq Requests /\ computed' \in [Requests -> 0 .. 2]
      /\ \A q \in Requests : computed'[q] = computed[q] \/ (q = r /\ computed'[q] = 1)
    BY <1>2 DEF Run
<1>4. \A q \in DOMAIN ledger : ledger[q] \in Row
    BY DEF BackupTypeOK
<1>5. DOMAIN ledger' = DOMAIN ledger
    BY DEF Run
<1>6. ASSUME NEW q \in DOMAIN ledger PROVE ledger'[q] \in Row /\ ledger'[q].created = ledger[q].created
    <2>1. ledger'[q] = ledger[q] \/ ledger'[q] = Interrupted(ledger[q])
        BY DEF Run
    <2> QED BY <2>1, <1>4, EndedRow
<1>7. handing' \subseteq handing /\ waiting' \subseteq handing \cup waiting /\ handing' \cap waiting' = {}
    BY <1>1 DEF WaitsOnce
<1>8. restarts' \in 0 .. MaxRestarts
    BY <1>1 DEF BackupTypeOK
<1>9. \A q \in Requests : computed'[q] = computed[q]
           \/ (q \in waiting /\ q \notin waiting' /\ q \notin handing' /\ computed'[q] = 1)
    BY <1>1, <1>3
<1>10. now' = now /\ issued' = issued
    BY <1>1
<1> QED BY <1>3, <1>5, <1>6, <1>7, <1>8, <1>9, <1>10, RewriteKeeps

\* Handing over, finishing, restarting and dying only let go of requests.
LEMMA WorkersKeep ==
  ASSUME BackupInv, (\E r \in Requests : Hand(r) \/ Finish(r)) \/ Restart \/ Die
  PROVE  BackupInv'
<1> USE DEF BackupInv, ComputedOnce
<1>1. now' = now /\ issued' = issued /\ computed' = computed
    BY DEF Hand, Finish, Restart, Die
<1>2. DOMAIN ledger' = DOMAIN ledger
    BY DEF Hand, Finish, Restart, Die
<1>3. \A q \in DOMAIN ledger : ledger[q] \in Row
    BY DEF BackupTypeOK
<1>4. ASSUME NEW q \in DOMAIN ledger PROVE ledger'[q] \in Row /\ ledger'[q].created = ledger[q].created
    <2>1. ledger'[q] = ledger[q] \/ \E ok \in BOOLEAN : ledger'[q] = FinishRow(ledger[q], ok)
        BY DEF Hand, Finish, Restart, Die
    <2> QED BY <2>1, <1>3, EndedRow
<1>5. /\ handing' \subseteq handing /\ waiting' \subseteq handing \cup waiting
      /\ computing' \subseteq Requests /\ handing' \cap waiting' = {}
    BY DEF Hand, Finish, Restart, Die, WaitsOnce, BackupTypeOK
<1>6. restarts' \in 0 .. MaxRestarts
    <2>1. restarts \in 0 .. MaxRestarts
        BY DEF BackupTypeOK
    <2>2. restarts' = restarts \/ (restarts < MaxRestarts /\ restarts' = restarts + 1)
        BY DEF Hand, Finish, Restart, Die
    <2> QED BY <2>1, <2>2, BackupBounds
<1>7. computed' \in [Requests -> 0 .. 2] /\ \A q \in Requests : computed'[q] = computed[q]
    BY <1>1 DEF BackupTypeOK
<1> QED BY <1>1, <1>2, <1>4, <1>5, <1>6, <1>7, RewriteKeeps

\* Time only makes requests older.
LEMMA TickKeeps ==
  ASSUME BackupInv, Tick
  PROVE  BackupInv'
<1> USE DEF BackupInv, ComputedOnce
<1>1. /\ now' = now + 1 /\ now < Horizon /\ now \in 0 .. Horizon
      /\ UNCHANGED <<ledger, handing, waiting, computing, restarts, issued, computed>>
    BY DEF Tick, BackupTypeOK
<1>2. BackupTypeOK'
    BY <1>1, BackupBounds DEF BackupTypeOK
<1>3. \A r \in Requests : TooOld(r) => TooOld(r)'
    BY <1>1, RequestNumbers, BackupBounds DEF TooOld
<1>4. RowsDated'
    <2> SUFFICES ASSUME NEW r \in DOMAIN ledger
                 PROVE  issued[r] - Skew <= ledger[r].created /\ ledger[r].created <= now + 1
        BY <1>1 DEF RowsDated
    <2>1. r \in Requests
        BY DEF BackupTypeOK
    <2> QED BY <2>1, <1>1, RequestNumbers DEF RowsDated
<1>5. KnownOrOld' /\ WaitsOnce'
    BY <1>1, <1>3 DEF KnownOrOld, WaitsOnce
<1> QED BY <1>1, <1>2, <1>4, <1>5

\* Every step keeps the ledger's books.
LEMMA BackupNextKeeps == BackupInv /\ [BackupNext]_backupVars => BackupInv'
<1> SUFFICES ASSUME BackupInv, [BackupNext]_backupVars PROVE BackupInv'
    OBVIOUS
<1>1. ASSUME NEW r \in Requests, NEW digest \in Digests, SubmitNew(r, digest) PROVE BackupInv'
    BY <1>1, SubmitKeeps
<1>2. ASSUME NEW r \in Requests, NEW digest \in Digests, SubmitAgain(r, digest) PROVE BackupInv'
    BY <1>2, ReadKeeps DEF SubmitAgain
<1>3. ASSUME NEW r \in Requests, Poll(r) PROVE BackupInv'
    BY <1>3, ReadKeeps DEF Poll
<1>4. ASSUME NEW r \in Requests, Run(r) PROVE BackupInv'
    BY <1>4, RunKeeps
<1>5. ASSUME (\E r \in Requests : Hand(r) \/ Finish(r)) \/ Restart \/ Die PROVE BackupInv'
    BY <1>5, WorkersKeep
<1>6. CASE Tick
    BY <1>6, TickKeeps
<1>7. CASE UNCHANGED backupVars
    BY <1>7 DEF backupVars, BackupInv, ComputedOnce, BackupTypeOK, RowsDated, KnownOrOld, WaitsOnce, TooOld
<1> QED BY <1>1, <1>2, <1>3, <1>4, <1>5, <1>6, <1>7 DEF BackupNext

\* The ledger's books hold throughout, for any requests, bodies, periods and restarts.
THEOREM BackupInductive == BackupSpec => []BackupInv
BY BackupInitInv, BackupNextKeeps, PTL DEF BackupSpec

\* No retry, lost answer or restart makes the server compute a request twice:
\* ForecastBackup's ComputedOnce.
THEOREM OneComputation == BackupSpec => []ComputedOnce
<1>1. BackupInv => ComputedOnce
    BY DEF BackupInv
<1> QED BY BackupInductive, <1>1, PTL-----------------------------------------------------------------------------
(* LocalRuntime: what an attempt has prepared is there until it is linked,  *)
(* and a connection's release stays linked until a second link has moved.   *)

\* An attempt is for a commit; once that is archived it stays so to the end, and
\* the copy is complete, without a link to it before previous is set.
AttemptSound ==
  /\ updater.at \in {"build", "archive", "promote", "copied", "previousSet"} =>
       updater.sha \in Heads /\ updater.kind # "none"
  /\ updater.at \in {"promote", "copied", "previousSet"} => updater.sha \in archives
  /\ updater.at \in {"copied", "previousSet"} =>
       updater.target \in Used /\ disk[updater.target] = updater.sha
  /\ updater.at = "copied" => updater.target \notin Kept
  /\ updater.at = "previousSet" /\ Current # NoRelease => links.previous = Current

\* How far the links are from a connection's release.
ConnectionLinked ==
  reader.root # NoRelease =>
    /\ reader.moves = 0 => reader.root = Current
    /\ reader.moves = 1 => reader.root \in Kept

RuntimeInv == ServedIsUsable /\ AttemptSound /\ ConnectionLinked

\* The assumption, as facts about the names.
LEMMA RuntimeBounds == /\ NoRelease \notin Releases /\ Heads \subseteq Nat /\ 1 \in Heads
                       /\ MaxFailures \in Nat /\ MaxKills \in Nat
BY RuntimeAssumption DEF RuntimeAssumption

UpdaterRecords == [at : {"off", "idle", "mainCheck", "build", "archive", "promote",
                         "copied", "previousSet", "collect"},
                   kind : {"none", "weather", "main"}, sha : Heads \cup {0},
                   target : Releases \cup {NoRelease}]
Readers == [root : Releases \cup {NoRelease}, moves : 0 .. 2, broken : BOOLEAN]

\* The first state.
LEMMA RuntimeInitInv == RuntimeInit => RuntimeInv
<1> SUFFICES ASSUME RuntimeInit PROVE RuntimeInv
    OBVIOUS
<1> USE RuntimeBounds DEF RuntimeInit
<1>1. Used = {} /\ Kept = {} /\ Current = NoRelease
    BY DEF Used, Kept, Current
<1>2. RuntimeTypeOK
    <2>1. updater \in UpdaterRecords
        BY DEF Idle, UpdaterRecords
    <2>2. reader \in Readers /\ spent \in [failures : 0 .. MaxFailures, kills : 0 .. MaxKills]
        BY DEF Readers
    <2> QED BY <1>1, <2>1, <2>2 DEF RuntimeTypeOK, UpdaterRecords, Readers
<1>3. ServedIsUsable
    BY <1>1, <1>2 DEF ServedIsUsable, LinksAreComplete, ActiveHasSource, ConnectionOutlivesSwitch
<1>4. AttemptSound /\ ConnectionLinked
    BY DEF AttemptSound, ConnectionLinked, Idle
<1> QED BY <1>3, <1>4 DEF RuntimeInv

\* A step that leaves the files, the links and the connection alone keeps the
\* invariant when the updater's new place asks for nothing more.
LEMMA UpdaterMoves ==
  ASSUME RuntimeInv, UNCHANGED <<disk, links, reader>>,
         archives \subseteq archives', archives' \subseteq Heads,
         head' \in Heads, updater' \in UpdaterRecords, rejected' \in Heads \cup {0},
         due' \subseteq {"weather", "main"},
         spent' \in [failures : 0 .. MaxFailures, kills : 0 .. MaxKills],
         updater'.at \in {"build", "archive", "promote"} =>
           updater'.sha \in Heads /\ updater'.kind # "none",
         updater'.at = "promote" => updater'.sha \in archives',
         updater'.at \in {"copied", "previousSet"} => updater' = updater
  PROVE  RuntimeInv'
<1> USE DEF RuntimeInv, ServedIsUsable
<1>1. RuntimeTypeOK'
    BY DEF RuntimeTypeOK, UpdaterRecords, Used
<1>2. Used' = Used /\ Kept' = Kept /\ Current' = Current
    BY DEF Used, Kept, Current
<1>3. LinksAreComplete' /\ ConnectionOutlivesSwitch'
    BY <1>2 DEF LinksAreComplete, ConnectionOutlivesSwitch
<1>4. ActiveHasSource'
    BY <1>2 DEF ActiveHasSource, CommitOf
<1>5. AttemptSound'
    BY <1>2 DEF AttemptSound, RuntimeTypeOK
<1>6. ConnectionLinked'
    BY <1>2 DEF ConnectionLinked
<1> QED BY <1>1, <1>3, <1>4, <1>5, <1>6

\* The commit in use is one of the repository's.
LEMMA CurrentCommit ==
  ASSUME RuntimeInv, Current # NoRelease
  PROVE  Current \in Used /\ Current \in Releases /\ CommitOf(Current) \in Heads
BY DEF RuntimeInv, ServedIsUsable, RuntimeTypeOK, LinksAreComplete, Kept, Current, CommitOf, Used

\* The updater's choices and the builds of an attempt.
LEMMA AttemptKeeps ==
  ASSUME RuntimeInv,
         \/ StartWeather \/ WeatherNotDue \/ StartMain \/ Build \/ NothingNewer
         \/ Archive \/ Superseded \/ Serve \/ Kill
  PROVE  RuntimeInv'
<1> USE RuntimeBounds
<1>1. /\ head \in Heads /\ updater \in UpdaterRecords /\ rejected \in Heads \cup {0}
      /\ due \subseteq {"weather", "main"} /\ archives \subseteq Heads
      /\ spent \in [failures : 0 .. MaxFailures, kills : 0 .. MaxKills]
      /\ AttemptSound
    BY DEF RuntimeInv, ServedIsUsable, RuntimeTypeOK, UpdaterRecords
<1>2. Idle \in UpdaterRecords /\ [Idle EXCEPT !.at = "off"] \in UpdaterRecords
    BY DEF Idle, UpdaterRecords
<1>3. CASE StartWeather
    <2>1. CommitOf(Current) \in Heads
        BY <1>3, CurrentCommit DEF StartWeather
    <2> QED BY <1>1, <1>3, <2>1, UpdaterMoves DEF StartWeather, UpdaterRecords
<1>4. CASE WeatherNotDue
    BY <1>1, <1>4, UpdaterMoves DEF WeatherNotDue, UpdaterRecords
<1>5. CASE StartMain
    <2>1. updater' = Idle \/ updater' = [at |-> "build", kind |-> "main", sha |-> head, target |-> NoRelease]
        BY <1>5 DEF StartMain
    <2>2. updater' \in UpdaterRecords /\ updater'.at \in {"idle", "build"}
          /\ (updater'.at = "build" => updater'.sha \in Heads /\ updater'.kind # "none")
        BY <1>1, <1>2, <2>1 DEF UpdaterRecords, Idle
    <2> QED BY <1>1, <1>5, <2>2, UpdaterMoves DEF StartMain
<1>6. CASE Build
    BY <1>1, <1>6, UpdaterMoves DEF Build, UpdaterRecords, AttemptSound
<1>7. CASE NothingNewer
    BY <1>1, <1>7, UpdaterMoves DEF NothingNewer, UpdaterRecords, AttemptSound
<1>8. CASE Archive
    BY <1>1, <1>8, UpdaterMoves DEF Archive, UpdaterRecords, AttemptSound
<1>9. CASE Superseded
    BY <1>1, <1>9, UpdaterMoves DEF Superseded, UpdaterRecords
<1>10. CASE Serve
    BY <1>1, <1>2, <1>10, UpdaterMoves DEF Serve, Idle
<1>11. CASE Kill
    <2>1. spent' \in [failures : 0 .. MaxFailures, kills : 0 .. MaxKills]
        BY <1>1, <1>11 DEF Kill
    <2> QED BY <1>1, <1>2, <1>11, <2>1, UpdaterMoves DEF Kill, Idle
<1> QED BY <1>3, <1>4, <1>5, <1>6, <1>7, <1>8, <1>9, <1>10, <1>11

\* The outside.
LEMMA OutsideKeeps ==
  ASSUME RuntimeInv, Synchronise \/ Connect \/ (\E kind \in {"weather", "main"} : ClockRunsOut(kind))
  PROVE  RuntimeInv'
<1> USE RuntimeBounds
<1>1. /\ head \in Heads /\ updater \in UpdaterRecords /\ rejected \in Heads \cup {0}
      /\ due \subseteq {"weather", "main"} /\ archives \subseteq Heads
      /\ spent \in [failures : 0 .. MaxFailures, kills : 0 .. MaxKills]
      /\ AttemptSound
    BY DEF RuntimeInv, ServedIsUsable, RuntimeTypeOK, UpdaterRecords
<1>2. CASE Synchronise
    BY <1>1, <1>2, UpdaterMoves DEF Synchronise, AttemptSound
<1>3. ASSUME NEW kind \in {"weather", "main"}, ClockRunsOut(kind) PROVE RuntimeInv'
    BY <1>1, <1>3, UpdaterMoves DEF ClockRunsOut, AttemptSound
<1>4. CASE Connect
    <2> USE DEF RuntimeInv, ServedIsUsable
    <2>1. reader' = [root |-> Current, moves |-> 0, broken |-> FALSE]
          /\ UNCHANGED <<head, disk, links, archives, updater, rejected, due, spent>>
        BY <1>4 DEF Connect
    <2>2. reader' \in Readers
        BY <1>4, <2>1, CurrentCommit DEF Connect, Readers
    <2>3. Used' = Used /\ Kept' = Kept /\ Current' = Current
        BY <2>1 DEF Used, Kept, Current
    <2>4. RuntimeTypeOK'
        BY <2>1, <2>2, <2>3 DEF RuntimeTypeOK, Readers
    <2>5. LinksAreComplete' /\ ActiveHasSource' /\ ConnectionOutlivesSwitch'
        BY <2>1, <2>3 DEF LinksAreComplete, ActiveHasSource, ConnectionOutlivesSwitch, CommitOf
    <2>6. AttemptSound' /\ ConnectionLinked'
        BY <2>1, <2>3 DEF AttemptSound, ConnectionLinked
    <2> QED BY <2>4, <2>5, <2>6
<1> QED BY <1>2, <1>3, <1>4
\* The copy goes to a name that no link has.
LEMMA CopyKeeps ==
  ASSUME RuntimeInv, Copy
  PROVE  RuntimeInv'
<1> USE RuntimeBounds DEF RuntimeInv, ServedIsUsable
<1>1. NewName \in Releases /\ NewName \notin Used /\ NewName # NoRelease
    BY DEF Copy, NewName, FreshNames
<1>2. /\ disk' = [x \in Used \cup {NewName} |-> IF x = NewName THEN updater.sha ELSE disk[x]]
      /\ updater' = [updater EXCEPT !.at = "copied", !.target = NewName]
      /\ updater.at = "promote"
      /\ UNCHANGED <<head, links, archives, rejected, due, reader, spent>>
    BY DEF Copy
<1>3. updater \in UpdaterRecords /\ updater.sha \in Heads /\ updater.sha \in archives /\ updater.kind # "none"
    BY <1>2 DEF RuntimeTypeOK, UpdaterRecords, AttemptSound
<1>4. updater' \in UpdaterRecords /\ updater'.at = "copied" /\ updater'.target = NewName
      /\ updater'.sha = updater.sha /\ updater'.kind = updater.kind
    BY <1>1, <1>2, <1>3 DEF UpdaterRecords
<1> HIDE DEF NewName
<1>5. Used' = Used \cup {NewName} /\ Kept' = Kept /\ Current' = Current
    BY <1>2 DEF Used, Kept, Current
<1>6. disk'[NewName] = updater.sha /\ \A x \in Used : disk'[x] = disk[x]
    BY <1>1, <1>2
<1>7. RuntimeTypeOK'
    <2>1. Used' \subseteq Releases /\ \A x \in Used' : disk'[x] \in Heads
        BY <1>1, <1>3, <1>5, <1>6 DEF RuntimeTypeOK
    <2> QED BY <1>2, <1>4, <2>1 DEF RuntimeTypeOK, UpdaterRecords
<1>8. LinksAreComplete' /\ ConnectionOutlivesSwitch' /\ ConnectionLinked'
    BY <1>2, <1>5 DEF LinksAreComplete, ConnectionOutlivesSwitch, ConnectionLinked
<1>9. ActiveHasSource'
    BY <1>2, <1>5, <1>6, CurrentCommit DEF ActiveHasSource, CommitOf
<1>10. NewName \notin Kept
    BY <1>1 DEF LinksAreComplete
<1>11. AttemptSound'
    BY <1>2, <1>3, <1>4, <1>5, <1>6, <1>10 DEF AttemptSound
<1> QED BY <1>7, <1>8, <1>9, <1>11

\* What a connection knows after a link has moved.
LEMMA LinkMovedReader ==
  ASSUME RuntimeInv, reader' = LinkMoved,
         links \in [current : Releases \cup {NoRelease}, previous : Releases \cup {NoRelease}],
         links' \in [current : Releases \cup {NoRelease}, previous : Releases \cup {NoRelease}],
         \/ links'.current = links.current
         \/ links.current # NoRelease => links'.previous = links.current
  PROVE  reader' \in Readers /\ ConnectionLinked' /\ ConnectionOutlivesSwitch'
<1> USE DEF RuntimeInv, ServedIsUsable
<1>1. reader \in Readers
    BY DEF RuntimeTypeOK, Readers
<1>2. CASE links' = links \/ reader.moves = 2
    <2>1. reader' = reader
        BY <1>2 DEF LinkMoved
    <2> QED BY <1>1, <1>2, <2>1 DEF ConnectionLinked, ConnectionOutlivesSwitch, Kept, Current
<1>3. CASE ~(links' = links \/ reader.moves = 2)
    <2>1. reader' = [reader EXCEPT !.moves = @ + 1]
        BY <1>3 DEF LinkMoved
    <2>2. reader.moves \in {0, 1}
        BY <1>1, <1>3 DEF Readers
    <2>3. reader' \in Readers /\ reader'.root = reader.root /\ reader'.moves = reader.moves + 1
          /\ reader'.broken = reader.broken
        BY <1>1, <2>1, <2>2 DEF Readers
    <2>4. ConnectionOutlivesSwitch'
        BY <2>2, <2>3 DEF ConnectionOutlivesSwitch
    <2>5. ASSUME reader.root # NoRelease, reader.moves = 0 PROVE reader.root \in Kept'
        <3>1. reader.root = links.current /\ links.current # NoRelease
            BY <2>5 DEF ConnectionLinked, Current
        <3> QED BY <3>1 DEF Kept
    <2>6. ConnectionLinked'
        BY <2>2, <2>3, <2>5 DEF ConnectionLinked
    <2> QED BY <2>3, <2>4, <2>6
<1> QED BY <1>2, <1>3

\* previous is set to the release in use, or the copy of a moved source is removed.
LEMMA SetPreviousKeeps ==
  ASSUME RuntimeInv, SetPrevious
  PROVE  RuntimeInv'
<1> USE RuntimeBounds DEF RuntimeInv, ServedIsUsable
<1>1. /\ updater.at = "copied" /\ reader' = LinkMoved
      /\ UNCHANGED <<head, archives, rejected, due, spent>>
    BY DEF SetPrevious
<1>2. /\ updater \in UpdaterRecords /\ updater.sha \in archives /\ updater.sha \in Heads
      /\ updater.kind # "none"
      /\ updater.target \in Used /\ disk[updater.target] = updater.sha /\ updater.target \notin Kept
      /\ links \in [current : Releases \cup {NoRelease}, previous : Releases \cup {NoRelease}]
    BY <1>1 DEF RuntimeTypeOK, UpdaterRecords, AttemptSound
<1>3. CASE updater.kind = "main" /\ head # updater.sha
    <2>1. /\ disk' = [x \in Used \ {updater.target} |-> disk[x]]
          /\ updater' = [updater EXCEPT !.at = "collect"] /\ links' = links
        BY <1>3 DEF SetPrevious
    <2>2. Used' = Used \ {updater.target} /\ Kept' = Kept /\ Current' = Current
          /\ \A x \in Used' : disk'[x] = disk[x]
        BY <2>1 DEF Used, Kept, Current
    <2>3. reader' \in Readers /\ ConnectionLinked' /\ ConnectionOutlivesSwitch'
        BY <1>1, <1>2, <2>1, LinkMovedReader
    <2>4. updater' \in UpdaterRecords /\ updater'.at = "collect"
        BY <1>2, <2>1 DEF UpdaterRecords
    <2>5. RuntimeTypeOK'
        BY <1>1, <1>2, <2>1, <2>2, <2>3, <2>4 DEF RuntimeTypeOK, UpdaterRecords, Readers
    <2>6. LinksAreComplete'
        BY <1>2, <2>2 DEF LinksAreComplete
    <2>7. ActiveHasSource'
        <3>1. Current # NoRelease => Current \in Used'
            BY <1>2, <2>2, CurrentCommit DEF Kept, Current
        <3> QED BY <1>1, <2>2, <3>1 DEF ActiveHasSource, CommitOf
    <2>8. AttemptSound'
        BY <2>4 DEF AttemptSound
    <2> QED BY <2>3, <2>5, <2>6, <2>7, <2>8
<1>4. CASE ~(updater.kind = "main" /\ head # updater.sha)
    <2>1. /\ disk' = disk /\ updater' = [updater EXCEPT !.at = "previousSet"]
          /\ links' = IF Current = NoRelease THEN links ELSE [links EXCEPT !.previous = Current]
        BY <1>4 DEF SetPrevious
    <2>2. /\ links' \in [current : Releases \cup {NoRelease}, previous : Releases \cup {NoRelease}]
          /\ links'.current = links.current
          /\ Current # NoRelease => links'.previous = Current
        BY <1>2, <2>1 DEF Current
    <2>3. reader' \in Readers /\ ConnectionLinked' /\ ConnectionOutlivesSwitch'
        BY <1>1, <1>2, <2>2, LinkMovedReader
    <2>4. Used' = Used /\ Current' = Current /\ Kept' \subseteq Kept
        BY <2>1, <2>2 DEF Used, Kept, Current
    <2>5. updater' \in UpdaterRecords /\ updater'.at = "previousSet" /\ updater'.sha = updater.sha
          /\ updater'.kind = updater.kind /\ updater'.target = updater.target
        BY <1>2, <2>1 DEF UpdaterRecords
    <2>6. RuntimeTypeOK'
        BY <1>1, <2>1, <2>2, <2>3, <2>4, <2>5 DEF RuntimeTypeOK, UpdaterRecords, Readers
    <2>7. LinksAreComplete' /\ ActiveHasSource'
        BY <1>1, <2>1, <2>4 DEF LinksAreComplete, ActiveHasSource, CommitOf
    <2>8. AttemptSound'
        BY <1>1, <1>2, <2>1, <2>2, <2>4, <2>5 DEF AttemptSound
    <2> QED BY <2>3, <2>6, <2>7, <2>8
<1> QED BY <1>3, <1>4

\* current is set to a complete copy whose source is archived.
LEMMA SetCurrentKeeps ==
  ASSUME RuntimeInv, SetCurrent
  PROVE  RuntimeInv'
<1> USE RuntimeBounds DEF RuntimeInv, ServedIsUsable
<1>1. /\ updater.at = "previousSet" /\ reader' = LinkMoved
      /\ links' = [links EXCEPT !.current = updater.target]
      /\ updater' = [updater EXCEPT !.at = "collect"]
      /\ UNCHANGED <<head, disk, archives, rejected, due, spent>>
    BY DEF SetCurrent
<1>2. /\ updater \in UpdaterRecords /\ updater.sha \in archives
      /\ updater.target \in Used /\ disk[updater.target] = updater.sha
      /\ links \in [current : Releases \cup {NoRelease}, previous : Releases \cup {NoRelease}]
      /\ Current # NoRelease => links.previous = Current
      /\ Used \subseteq Releases
    BY <1>1 DEF RuntimeTypeOK, UpdaterRecords, AttemptSound
<1>3. /\ links' \in [current : Releases \cup {NoRelease}, previous : Releases \cup {NoRelease}]
      /\ links'.current = updater.target /\ links'.previous = links.previous
    BY <1>1, <1>2
<1>4. reader' \in Readers /\ ConnectionLinked' /\ ConnectionOutlivesSwitch'
    BY <1>1, <1>2, <1>3, LinkMovedReader DEF Current
<1>5. Used' = Used /\ Current' = updater.target /\ Kept' \subseteq Kept \cup {updater.target}
    BY <1>1, <1>3 DEF Used, Kept, Current
<1>6. updater' \in UpdaterRecords /\ updater'.at = "collect"
    BY <1>1, <1>2 DEF UpdaterRecords
<1>7. RuntimeTypeOK'
    BY <1>1, <1>3, <1>4, <1>5, <1>6 DEF RuntimeTypeOK, UpdaterRecords, Readers
<1>8. LinksAreComplete'
    BY <1>2, <1>5 DEF LinksAreComplete
<1>9. ActiveHasSource'
    BY <1>1, <1>2, <1>5 DEF ActiveHasSource, CommitOf
<1>10. AttemptSound'
    BY <1>6 DEF AttemptSound
<1> QED BY <1>4, <1>7, <1>8, <1>9, <1>10

\* Collecting removes nothing that a link names, and no connection's release
\* before its second link has moved.
LEMMA CollectKeeps ==
  ASSUME RuntimeInv, NEW at \in UpdaterRecords, at.at \in {"off", "idle", "mainCheck"},
         AfterCollect(at), UNCHANGED <<head, links>>,
         rejected' \in Heads \cup {0}, due' \subseteq {"weather", "main"},
         spent' \in [failures : 0 .. MaxFailures, kills : 0 .. MaxKills]
  PROVE  RuntimeInv'
<1> USE RuntimeBounds DEF RuntimeInv, ServedIsUsable
<1>1. /\ disk' = [r \in Used \cap Kept |-> disk[r]]
      /\ archives' = archives \cap {CommitOf(r) : r \in Kept}
      /\ reader' = [reader EXCEPT !.broken = @ \/ (reader.root # NoRelease
                                                     /\ reader.root \notin Kept)]
      /\ updater' = at
    BY DEF AfterCollect
<1>2. Used' = Used \cap Kept /\ Kept' = Kept /\ Current' = Current
      /\ \A r \in Used' : disk'[r] = disk[r]
    BY <1>1 DEF Used, Kept, Current
<1>3. reader \in Readers
    BY DEF RuntimeTypeOK, Readers
<1>4. /\ reader'.root = reader.root /\ reader'.moves = reader.moves
      /\ reader'.broken = (reader.broken \/ (reader.root # NoRelease /\ reader.root \notin Kept))
      /\ reader' \in Readers
    BY <1>1, <1>3 DEF Readers
<1>5. RuntimeTypeOK'
    BY <1>1, <1>2, <1>4 DEF RuntimeTypeOK, UpdaterRecords, Readers
<1>6. LinksAreComplete'
    BY <1>2 DEF LinksAreComplete
<1>7. ActiveHasSource'
    <2> SUFFICES ASSUME Current # NoRelease PROVE CommitOf(Current)' \in archives'
        BY <1>2 DEF ActiveHasSource
    <2>1. Current \in Kept /\ Current \in Used'
        BY <1>2, CurrentCommit DEF Kept, Current
    <2>2. CommitOf(Current)' = CommitOf(Current)
        BY <1>2, <2>1 DEF CommitOf
    <2> QED BY <1>1, <2>1, <2>2 DEF ActiveHasSource
<1>8. ConnectionOutlivesSwitch'
    <2>1. ASSUME reader.root # NoRelease, reader.root \notin Kept PROVE reader.moves >= 2
        <3>1. reader.moves \in 0 .. 2
            BY <1>3 DEF Readers
        <3>2. reader.moves # 0 /\ reader.moves # 1
            BY <2>1 DEF ConnectionLinked, Kept, Current
        <3> QED BY <3>1, <3>2
    <2>2. reader.broken => reader.moves >= 2
        BY DEF ConnectionOutlivesSwitch
    <2> QED BY <1>4, <2>1, <2>2 DEF ConnectionOutlivesSwitch
<1>9. ConnectionLinked'
    BY <1>2, <1>4 DEF ConnectionLinked
<1>10. AttemptSound'
    BY <1>1 DEF AttemptSound
<1> QED BY <1>5, <1>6, <1>7, <1>8, <1>9, <1>10

\* The three ends of an attempt that collect.
LEMMA EndsKeep ==
  ASSUME RuntimeInv, Collect \/ Fail \/ Stop
  PROVE  RuntimeInv'
<1> USE RuntimeBounds
<1>1. /\ updater \in UpdaterRecords /\ rejected \in Heads \cup {0} /\ due \subseteq {"weather", "main"}
      /\ spent \in [failures : 0 .. MaxFailures, kills : 0 .. MaxKills]
    BY DEF RuntimeInv, ServedIsUsable, RuntimeTypeOK, UpdaterRecords
<1>2. /\ Finished \in UpdaterRecords /\ Finished.at \in {"off", "idle", "mainCheck"}
      /\ [Idle EXCEPT !.at = "off"] \in UpdaterRecords /\ [Idle EXCEPT !.at = "off"].at = "off"
    BY DEF Finished, Idle, UpdaterRecords
<1>3. updater.sha \in Heads \cup {0}
    BY <1>1 DEF UpdaterRecords
<1>4. CASE Collect
    <2>1. rejected' \in Heads \cup {0} /\ due' \subseteq {"weather", "main"}
        BY <1>1, <1>4 DEF Collect
    <2> QED BY <1>1, <1>2, <1>4, <2>1, CollectKeeps DEF Collect
<1>5. CASE Fail
    <2>1. rejected' \in Heads \cup {0} /\ due' \subseteq {"weather", "main"}
        BY <1>1, <1>3, <1>5 DEF Fail
    <2>2. spent' \in [failures : 0 .. MaxFailures, kills : 0 .. MaxKills]
        BY <1>1, <1>5 DEF Fail
    <2> QED BY <1>2, <1>5, <2>1, <2>2, CollectKeeps DEF Fail
<1>6. CASE Stop
    <2>1. spent' \in [failures : 0 .. MaxFailures, kills : 0 .. MaxKills]
        BY <1>1, <1>6 DEF Stop
    <2> QED BY <1>1, <1>2, <1>6, <2>1, CollectKeeps DEF Stop
<1> QED BY <1>4, <1>5, <1>6

\* Every step of the container keeps the invariant.
LEMMA RuntimeNextKeeps == RuntimeInv /\ [RuntimeNext]_runtimeVars => RuntimeInv'
<1> SUFFICES ASSUME RuntimeInv, [RuntimeNext]_runtimeVars PROVE RuntimeInv'
    OBVIOUS
<1>1. CASE UNCHANGED runtimeVars
    BY <1>1 DEF runtimeVars, RuntimeInv, ServedIsUsable, RuntimeTypeOK, LinksAreComplete, ActiveHasSource,
         ConnectionOutlivesSwitch, AttemptSound, ConnectionLinked, Used, Kept, Current, CommitOf
<1> QED BY <1>1, OutsideKeeps, AttemptKeeps, CopyKeeps, SetPreviousKeeps, SetCurrentKeeps, EndsKeep
         DEF RuntimeNext, UpdaterStep

\* The invariant of the container holds throughout, for any releases, commits,
\* failures and kills.
THEOREM RuntimeInductive == RuntimeSpec => []RuntimeInv
BY RuntimeInitInv, RuntimeNextKeeps, PTL DEF RuntimeSpec

\* Killed, failed and superseded attempts leave what is served usable:
\* LocalRuntime's ServedIsUsable.
THEOREM ServedStaysUsable == RuntimeSpec => []ServedIsUsable
<1>1. RuntimeInv => ServedIsUsable
    BY DEF RuntimeInv
<1> QED BY RuntimeInductive, <1>1, PTL
-----------------------------------------------------------------------------
(* LegacyMigration: from begin to the switch the plan is what Legacy holds,  *)
(* each record of it or its retirement; what a step verified is published;   *)
(* and every text the migration handles is one Legacy once held.             *)

\* A step holds the lock of an owner that is being moved, a Legacy operation
\* that of one that is not.
Held == /\ stage \notin {"free", "legacy"} => link.state = "MIGRATING"
        /\ stage = "legacy" => link.state \notin {"MIGRATING", "NAVMATE_ACTIVE"}

Locked == /\ Held
          /\ DOMAIN receipts \subseteq Records /\ stamp \in Nat /\ foreign \in Nat

\* A document whose text Legacy once held for this record.
OnceHeld(id, document) == document # NoDoc => document.body.text \in hadText[id]

\* What a step carries from one of its effects to the next.
Carried ==
  /\ stage \in {"journal", "commit"} =>
       DOMAIN current = BatchIds /\ \A id \in BatchIds : current[id] \in Doc \cup {NoDoc}
  /\ stage = "commit" =>
       /\ DOMAIN desired = BatchIds
       /\ \A id \in BatchIds : /\ desired[id] \in Doc /\ OnceHeld(id, desired[id])
                               /\ OnceHeld(id, current[id])

\* Every item of the plan is a Legacy Project or the retirement of a record.
PlanItem(target) ==
  \/ legacy[target.id] # NoDoc /\ target.body = ActiveBody(legacy[target.id])
  \/ legacy[target.id] = NoDoc /\ target.body.deletion = "DELETED"

\* While Legacy is closed the plan lists what it holds, and retires the rest.
PlanSound ==
  link.state \in {"MIGRATING", "NAVMATE_ACTIVE"} =>
    /\ \A i \in 1 .. Len(link.plan) : PlanItem(link.plan[i])
    /\ \A id \in Records : legacy[id] # NoDoc \/ id \in DOMAIN receipts =>
                              \E i \in 1 .. Len(link.plan) : link.plan[i].id = id

\* The account's documents have been published.
RemotePublished ==
  /\ DOMAIN published = Records
  /\ \A id \in Records : remote[id] # NoDoc => remote[id].body \in published[id]

\* And so has the whole plan, once it is verified.
Verified ==
  stage = "activate" \/ link.state = "NAVMATE_ACTIVE" =>
    \A i \in 1 .. Len(link.plan) : link.plan[i].body \in published[link.plan[i].id]

\* Every text the migration handles is one that Legacy held.
TextsHeld ==
  /\ DOMAIN hadText = Records
  /\ \A id \in Records : legacy[id] # NoDoc => legacy[id] \in hadText[id]
  /\ \A i \in 1 .. Len(link.plan) : link.plan[i].body.text \in hadText[link.plan[i].id]
  /\ \A id \in DOMAIN receipts : OnceHeld(id, receipts[id].previous) /\ OnceHeld(id, receipts[id].intended)

MigrationInv == /\ MigrationTypeOK /\ Locked /\ Carried /\ PlanSound
                /\ RemotePublished /\ Verified /\ TextsHeld

\* What the assumptions say.
LEMMA MigrationBounds ==
  /\ BatchSize \in Nat /\ BatchSize > 0 /\ IsFiniteSet(Records)
  /\ NoDoc \notin Texts /\ NoDoc \notin Doc
<1>1. BatchSize \in Nat \ {0}
    BY MigrationAssumption DEF MigrationAssumption
<1>2. IsFiniteSet(Records)
    BY RecordsAssumption DEF RecordsAssumption
<1>3. NoDoc \notin Texts \cup Doc
    BY NoDocAssumption DEF NoDocAssumption
<1> QED BY <1>1, <1>2, <1>3

\* SetToSeq lists a finite set, every element at some place.
LEMMA SetToSeqLists ==
  ASSUME NEW S, IsFiniteSet(S)
  PROVE  /\ SetToSeq(S) \in Seq(S)
         /\ \A x \in S : \E i \in 1 .. Len(SetToSeq(S)) : SetToSeq(S)[i] = x
<1> DEFINE n == Cardinality(S)
<1>1. n \in Nat /\ ExistsBijection(1 .. n, S)
    BY FS_CardinalityType
<1>2. PICK g \in Bijection(1 .. n, S) : TRUE
    BY <1>1 DEF ExistsBijection
<1>3. g \in [1 .. n -> S] /\ IsInjective(g)
    BY <1>2 DEF Bijection, Injection, IsInjective
<1>4. SetToSeq(S) \in [1 .. n -> S] /\ IsInjective(SetToSeq(S))
    BY <1>3 DEF SetToSeq
<1> HIDE DEF n
<1>5. PICK f : f = SetToSeq(S)
    OBVIOUS
<1>6. f \in Injection(1 .. n, S)
    BY <1>4, <1>5 DEF Injection, IsInjective
<1>7. IsFiniteSet(1 .. n) /\ Cardinality(1 .. n) = n
    BY <1>1, FS_Interval
<1>8. f \in Surjection(1 .. n, S)
    BY <1>6, <1>7, FS_Injection DEF n
<1>9. \A x \in S : \E i \in 1 .. n : f[i] = x
    BY <1>8 DEF Surjection
<1>10. f \in Seq(S) /\ Len(f) = n
    BY <1>1, <1>4, <1>5, SeqDef, LenProperties
<1> QED BY <1>5, <1>9, <1>10

\* A sequence lists the values of a function, or the elements of two sequences.
Lists(s, S, f) == /\ \A i \in 1 .. Len(s) : \E x \in S : s[i] = f[x]
                  /\ \A x \in S : \E i \in 1 .. Len(s) : s[i] = f[x]
Joins(u, s, t) ==
  /\ \A i \in 1 .. Len(u) : \/ \E j \in 1 .. Len(s) : u[i] = s[j]
                            \/ \E j \in 1 .. Len(t) : u[i] = t[j]
  /\ \A j \in 1 .. Len(s) : \E i \in 1 .. Len(u) : u[i] = s[j]
  /\ \A j \in 1 .. Len(t) : \E i \in 1 .. Len(u) : u[i] = t[j]

\* SetToSeq lists the image of a finite set under a function.
LEMMA ImageLists ==
  ASSUME NEW S, IsFiniteSet(S), NEW T, NEW f \in [S -> T], \A y \in T : \E x \in S : f[x] = y,
         NEW s, s = SetToSeq(T)
  PROVE  /\ \A U : T \subseteq U => s \in Seq(U)
         /\ Lists(s, S, f)
<1>1. f \in Surjection(S, T)
    BY DEF Surjection
<1>2. IsFiniteSet(T)
    BY <1>1, FS_Surjection
<1>3. s \in Seq(T) /\ \A x \in T : \E i \in 1 .. Len(s) : s[i] = x
    BY <1>2, SetToSeqLists
<1>4. \A i \in 1 .. Len(s) : s[i] \in T
    BY <1>3, ElementOfSeq
<1>5. ASSUME NEW U, T \subseteq U PROVE s \in Seq(U)
    BY <1>3, <1>5, SeqMonotonic
<1>6. Lists(s, S, f)
    BY <1>3, <1>4 DEF Lists
<1> QED BY <1>5, <1>6

\* What stands in a sequence of two parts stands in one of them, and all of both does.
LEMMA JoinedLists ==
  ASSUME NEW S, NEW s \in Seq(S), NEW t \in Seq(S)
  PROVE  s \o t \in Seq(S) /\ Joins(s \o t, s, t)
<1>1. Len(s) \in Nat /\ Len(t) \in Nat
    BY LenProperties
<1>2. /\ s \o t \in Seq(S) /\ Len(s \o t) = Len(s) + Len(t)
      /\ \A i \in 1 .. Len(s) + Len(t) : (s \o t)[i] = IF i <= Len(s) THEN s[i] ELSE t[i - Len(s)]
    BY ConcatProperties
<1>3. ASSUME NEW i \in 1 .. Len(s \o t)
      PROVE  \/ \E j \in 1 .. Len(s) : (s \o t)[i] = s[j]
             \/ \E j \in 1 .. Len(t) : (s \o t)[i] = t[j]
    <2>1. CASE i <= Len(s)
        <3>1. i \in 1 .. Len(s)
            BY <1>1, <1>2, <1>3, <2>1
        <3> QED BY <1>2, <1>3, <2>1, <3>1
    <2>2. CASE ~(i <= Len(s))
        <3>1. i - Len(s) \in 1 .. Len(t)
            BY <1>1, <1>2, <1>3, <2>2
        <3> QED BY <1>2, <1>3, <2>2, <3>1
    <2> QED BY <2>1, <2>2
<1>4. ASSUME NEW j \in 1 .. Len(s) PROVE \E i \in 1 .. Len(s \o t) : (s \o t)[i] = s[j]
    <2>1. j \in 1 .. Len(s \o t) /\ j <= Len(s)
        BY <1>1, <1>2, <1>4
    <2> QED BY <1>2, <2>1
<1>5. ASSUME NEW j \in 1 .. Len(t) PROVE \E i \in 1 .. Len(s \o t) : (s \o t)[i] = t[j]
    <2>1. Len(s) + j \in 1 .. Len(s \o t) /\ ~(Len(s) + j <= Len(s)) /\ (Len(s) + j) - Len(s) = j
        BY <1>1, <1>2, <1>5
    <2> QED BY <1>2, <2>1
<1> QED BY <1>2, <1>3, <1>4, <1>5 DEF Joins

\* The plan of begin: what Legacy holds and the retirement of what it no longer holds.
LEMMA PlanOfSound ==
  ASSUME MigrationInv
  PROVE  /\ PlanOf \in Seq(Targets)
         /\ \A i \in 1 .. Len(PlanOf) : /\ PlanItem(PlanOf[i])
                                        /\ PlanOf[i].body.text \in hadText[PlanOf[i].id]
         /\ \A id \in Records : legacy[id] # NoDoc \/ id \in DOMAIN receipts =>
                                  \E i \in 1 .. Len(PlanOf) : PlanOf[i].id = id
<1> DEFINE kept == {id \in Records : legacy[id] # NoDoc}
           gone == DOMAIN receipts \ kept
           Move(id) == [id |-> id, body |-> ActiveBody(legacy[id])]
           Retire(id) == [id |-> id, body |-> [receipts[id].intended.body EXCEPT !.deletion = "DELETED"]]
<1>1. ASSUME NEW id \in kept
      PROVE  /\ Move(id) \in Targets /\ PlanItem(Move(id)) /\ Move(id).id = id
             /\ Move(id).body.text \in hadText[Move(id).id]
    BY <1>1, MigrationBounds DEF MigrationInv, MigrationTypeOK, Targets, Bodies, ActiveBody, PlanItem, TextsHeld
<1>2. ASSUME NEW id \in gone
      PROVE  /\ Retire(id) \in Targets /\ PlanItem(Retire(id)) /\ Retire(id).id = id
             /\ Retire(id).body.text \in hadText[Retire(id).id]
    <2>1. id \in DOMAIN receipts /\ id \in Records /\ legacy[id] = NoDoc
        BY <1>2 DEF MigrationInv, Locked
    <2>2. receipts[id].intended \in Doc
        BY <2>1 DEF MigrationInv, MigrationTypeOK
    <2>3. receipts[id].intended.body \in Bodies
        BY <2>2 DEF Doc
    <2>4. receipts[id].intended.body.text \in hadText[id]
        BY <2>1, <2>2, MigrationBounds DEF MigrationInv, TextsHeld, OnceHeld
    <2> QED BY <2>1, <2>3, <2>4 DEF Targets, Bodies, PlanItem
<1>3. kept \subseteq Records /\ gone \subseteq Records
    BY DEF MigrationInv, Locked
<1>4. IsFiniteSet(kept) /\ IsFiniteSet(gone)
    BY <1>3, MigrationBounds, FS_Subset
<1>5. PICK moved, moves : moved = {Move(id) : id \in kept} /\ moves = SetToSeq(moved)
    OBVIOUS
<1>6. PICK retired, retirements : retired = {Retire(id) : id \in gone} /\ retirements = SetToSeq(retired)
    OBVIOUS
<1>7. PlanOf = moves \o retirements
    BY <1>5, <1>6 DEF PlanOf
<1>8. PICK moveOf, retirementOf : moveOf = [id \in kept |-> Move(id)] /\ retirementOf = [id \in gone |-> Retire(id)]
    OBVIOUS
<1>9. \A id \in Records : Move(id).id = id /\ Retire(id).id = id
    OBVIOUS
<1> HIDE DEF Move, Retire, kept, gone
<1>10. /\ moves \in Seq(Targets)
       /\ \A i \in 1 .. Len(moves) : \E id \in kept : moves[i] = Move(id)
       /\ \A id \in kept : \E i \in 1 .. Len(moves) : moves[i] = Move(id)
    <2>1. /\ moveOf \in [kept -> moved] /\ \A y \in moved : \E x \in kept : moveOf[x] = y
          /\ \A id \in kept : moveOf[id] = Move(id)
          /\ moved \subseteq Targets
        BY <1>1, <1>5, <1>8
    <2>2. (\A U : moved \subseteq U => moves \in Seq(U)) /\ Lists(moves, kept, moveOf)
        <3>1. IsFiniteSet(kept) /\ moves = SetToSeq(moved)
            BY <1>4, <1>5
        <3> QED BY ONLY <2>1, <3>1, ImageLists
    <2>3. moves \in Seq(Targets) /\ Lists(moves, kept, moveOf)
        BY <2>1, <2>2
    <2>4. ASSUME NEW i \in 1 .. Len(moves) PROVE \E id \in kept : moves[i] = Move(id)
        <3>1. PICK id \in kept : moves[i] = moveOf[id]
            BY <2>3 DEF Lists
        <3> QED BY <2>1, <3>1
    <2>5. ASSUME NEW id \in kept PROVE \E i \in 1 .. Len(moves) : moves[i] = Move(id)
        <3>1. PICK i \in 1 .. Len(moves) : moves[i] = moveOf[id]
            BY <2>3 DEF Lists
        <3> QED BY <2>1, <3>1
    <2> QED BY <2>3, <2>4, <2>5
<1>14. /\ retirements \in Seq(Targets)
       /\ \A i \in 1 .. Len(retirements) : \E id \in gone : retirements[i] = Retire(id)
       /\ \A id \in gone : \E i \in 1 .. Len(retirements) : retirements[i] = Retire(id)
    <2>1. /\ retirementOf \in [gone -> retired] /\ \A y \in retired : \E x \in gone : retirementOf[x] = y
          /\ \A id \in gone : retirementOf[id] = Retire(id)
          /\ retired \subseteq Targets
        BY <1>2, <1>6, <1>8
    <2>2. (\A U : retired \subseteq U => retirements \in Seq(U)) /\ Lists(retirements, gone, retirementOf)
        <3>1. IsFiniteSet(gone) /\ retirements = SetToSeq(retired)
            BY <1>4, <1>6
        <3> QED BY ONLY <2>1, <3>1, ImageLists
    <2>3. retirements \in Seq(Targets) /\ Lists(retirements, gone, retirementOf)
        BY <2>1, <2>2
    <2>4. ASSUME NEW i \in 1 .. Len(retirements) PROVE \E id \in gone : retirements[i] = Retire(id)
        <3>1. PICK id \in gone : retirements[i] = retirementOf[id]
            BY <2>3 DEF Lists
        <3> QED BY <2>1, <3>1
    <2>5. ASSUME NEW id \in gone PROVE \E i \in 1 .. Len(retirements) : retirements[i] = Retire(id)
        <3>1. PICK i \in 1 .. Len(retirements) : retirements[i] = retirementOf[id]
            BY <2>3 DEF Lists
        <3> QED BY <2>1, <3>1
    <2> QED BY <2>3, <2>4, <2>5
<1>11. PlanOf \in Seq(Targets) /\ Joins(PlanOf, moves, retirements)
    BY <1>7, <1>10, <1>14, JoinedLists
<1>12. ASSUME NEW i \in 1 .. Len(PlanOf)
       PROVE  PlanItem(PlanOf[i]) /\ PlanOf[i].body.text \in hadText[PlanOf[i].id]
    <2>3. (\E id \in kept : PlanOf[i] = Move(id)) \/ (\E id \in gone : PlanOf[i] = Retire(id))
        <3>1. \/ \E j \in 1 .. Len(moves) : PlanOf[i] = moves[j]
              \/ \E j \in 1 .. Len(retirements) : PlanOf[i] = retirements[j]
            BY <1>11, <1>12 DEF Joins
        <3>2. CASE \E j \in 1 .. Len(moves) : PlanOf[i] = moves[j]
            <4>1. PICK j \in 1 .. Len(moves) : PlanOf[i] = moves[j]
                BY <3>2
            <4> QED BY <4>1, <1>10
        <3>3. CASE \E j \in 1 .. Len(retirements) : PlanOf[i] = retirements[j]
            <4>1. PICK j \in 1 .. Len(retirements) : PlanOf[i] = retirements[j]
                BY <3>3
            <4> QED BY <4>1, <1>14
        <3> QED BY <3>1, <3>2, <3>3
    <2> QED BY <2>3, <1>1, <1>2
<1>13. ASSUME NEW id \in Records, legacy[id] # NoDoc \/ id \in DOMAIN receipts
       PROVE  \E i \in 1 .. Len(PlanOf) : PlanOf[i].id = id
    <2>1. id \in kept \/ id \in gone
        BY <1>13 DEF kept, gone
    <2>2. CASE id \in kept
        <3>1. PICK j \in 1 .. Len(moves) : moves[j] = Move(id)
            BY <1>10, <2>2
        <3>2. \E i \in 1 .. Len(PlanOf) : PlanOf[i] = moves[j]
            BY <1>11 DEF Joins
        <3> QED BY <1>9, <3>1, <3>2
    <2>3. CASE id \in gone
        <3>1. PICK j \in 1 .. Len(retirements) : retirements[j] = Retire(id)
            BY <1>14, <2>3
        <3>2. \E i \in 1 .. Len(PlanOf) : PlanOf[i] = retirements[j]
            BY <1>11 DEF Joins
        <3> QED BY <1>9, <3>1, <3>2
    <2> QED BY <2>1, <2>2, <2>3
<1> QED BY <1>11, <1>12, <1>13

\* A batch is a piece of the plan after the completed records.
LEMMA BatchInPlan ==
  ASSUME MigrationTypeOK
  PROVE  /\ Len(Batch) \in Nat /\ link.completed + Len(Batch) <= Len(link.plan)
         /\ \A target \in BatchTargets : target \in Targets /\ \E i \in 1 .. Len(link.plan) : link.plan[i] = target
         /\ BatchIds \subseteq Records
         /\ \A id \in BatchIds : \E target \in BatchTargets : target.id = id
<1> DEFINE m == link.completed + 1
           n == IF link.completed + BatchSize > Len(link.plan) THEN Len(link.plan)
                ELSE link.completed + BatchSize
<1>1. /\ link.plan \in Seq(Targets) /\ link.completed \in Nat /\ link.completed <= Len(link.plan)
      /\ Len(link.plan) \in Nat /\ BatchSize \in Nat
    BY MigrationBounds, LenProperties DEF MigrationTypeOK
<1>2. m \in Int /\ n \in Int /\ m >= 1 /\ n <= Len(link.plan) /\ n + 1 >= m
    BY <1>1
<1>4. Batch = SubSeq(link.plan, m, n)
    BY DEF Batch
<1>5. m = link.completed + 1
    OBVIOUS
<1> HIDE DEF m, n
<1>3. \A i \in m .. n : link.plan[i] \in Targets
    <2>1. \A i \in m .. n : i \in 1 .. Len(link.plan)
        BY <1>1, <1>2
    <2> QED BY <1>1, <2>1, ElementOfSeq
<1>6. /\ Batch \in Seq(Targets) /\ Len(Batch) = IF m <= n THEN n - m + 1 ELSE 0
      /\ \A i \in 1 .. n - m + 1 : Batch[i] = link.plan[m + i - 1]
    BY <1>2, <1>3, <1>4, SubSeqProperties
<1>7. Len(Batch) = n - m + 1 /\ Len(Batch) \in Nat
    BY <1>2, <1>6
<1>8. ASSUME NEW target \in BatchTargets
      PROVE  target \in Targets /\ \E i \in 1 .. Len(link.plan) : link.plan[i] = target
    <2>1. PICK i \in 1 .. Len(Batch) : target = Batch[i]
        BY <1>8 DEF BatchTargets
    <2>2. i \in 1 .. n - m + 1 /\ m + i - 1 \in m .. n /\ m + i - 1 \in 1 .. Len(link.plan)
        BY <1>1, <1>2, <1>7, <2>1
    <2> QED BY <1>3, <1>6, <2>1, <2>2
<1>9. BatchIds \subseteq Records /\ \A id \in BatchIds : \E target \in BatchTargets : target.id = id
    BY <1>8 DEF BatchIds, Targets
<1>10. link.completed + Len(Batch) <= Len(link.plan)
    <2>1. PICK c, l, b : c = link.completed /\ l = Len(link.plan) /\ b = Len(Batch)
        OBVIOUS
    <2>2. /\ m \in Int /\ n \in Int /\ m = c + 1 /\ n <= l
          /\ c \in Nat /\ l \in Nat /\ b = n - m + 1
        BY <1>1, <1>2, <1>5, <1>7, <2>1
    <2>3. c + b <= l
        BY ONLY <2>2
    <2> QED BY <2>1, <2>3
<1> QED BY <1>7, <1>8, <1>9, <1>10

\* The invariant says what the runs check of the move.
LEMMA MigrationInvMeans ==
  ASSUME MigrationInv
  PROVE  MoveIsComplete
<1> USE MigrationBounds DEF MigrationInv
<1>1. link.plan \in Seq(Targets) /\ \A i \in 1 .. Len(link.plan) : link.plan[i] \in Targets
    <2>1. link.plan \in Seq(Targets)
        BY DEF MigrationTypeOK
    <2> QED BY <2>1, ElementOfSeq
<1>3. Seen.state \in {"MIGRATING", "NAVMATE_ACTIVE"} => link.state \in {"MIGRATING", "NAVMATE_ACTIVE"}
    BY DEF Seen, MigrationTypeOK
<1>4. PlanIsLegacy
    <2> SUFFICES ASSUME link.state \in {"MIGRATING", "NAVMATE_ACTIVE"}, NEW id \in Records
                 PROVE  (legacy[id] # NoDoc) <=> \E i \in 1 .. Len(link.plan) :
                                  link.plan[i] = [id |-> id, body |-> ActiveBody(legacy[id])]
        BY <1>3 DEF PlanIsLegacy
    <2>1. ASSUME legacy[id] # NoDoc
          PROVE  \E i \in 1 .. Len(link.plan) : link.plan[i] = [id |-> id, body |-> ActiveBody(legacy[id])]
        <3>1. PICK i \in 1 .. Len(link.plan) : link.plan[i].id = id
            BY <2>1 DEF PlanSound
        <3>2. link.plan[i].body = ActiveBody(legacy[id])
            BY <2>1, <3>1 DEF PlanSound, PlanItem
        <3>3. link.plan[i] \in Targets
            BY <1>1
        <3> QED BY <3>1, <3>2, <3>3 DEF Targets
    <2>2. ASSUME NEW i \in 1 .. Len(link.plan), link.plan[i] = [id |-> id, body |-> ActiveBody(legacy[id])]
          PROVE  legacy[id] # NoDoc
        BY <2>2 DEF PlanSound, PlanItem, ActiveBody
    <2> QED BY <2>1, <2>2
<1>5. ActiveIsComplete
    <2> SUFFICES ASSUME link.state = "NAVMATE_ACTIVE", NEW id \in Records,
                        legacy[id] # NoDoc \/ id \in DOMAIN receipts
                 PROVE  /\ legacy[id] # NoDoc => ActiveBody(legacy[id]) \in published[id]
                        /\ legacy[id] = NoDoc => \E body \in published[id] : body.deletion = "DELETED"
        BY DEF ActiveIsComplete
    <2>1. PICK i \in 1 .. Len(link.plan) : link.plan[i].id = id
        BY DEF PlanSound
    <2>2. link.plan[i].body \in published[id]
        BY <2>1 DEF Verified
    <2>3. PlanItem(link.plan[i])
        BY <2>1 DEF PlanSound
    <2> QED BY <2>1, <2>2, <2>3 DEF PlanItem
<1> QED BY <1>4, <1>5 DEF MoveIsComplete

\* Nothing has been moved at first.
LEMMA MigrationInitInv == MigrationInit => MigrationInv
<1> SUFFICES ASSUME MigrationInit PROVE MigrationInv
    OBVIOUS
<1>1. /\ legacy \in [Records -> Texts \cup {NoDoc}]
      /\ link = [state |-> "UNLINKED", plan |-> <<>>, completed |-> 0, expired |-> FALSE]
      /\ receipts = <<>> /\ stage = "free" /\ stamp = 0 /\ foreign = 0
      /\ remote = [id \in Records |-> NoDoc]
      /\ hadText = [id \in Records |-> {legacy[id]} \ {NoDoc}]
    BY DEF MigrationInit
<1>2. <<>> \in Seq(Targets) /\ Len(<<>>) = 0
    BY EmptySeq
<1>3. DOMAIN receipts = {}
    BY <1>1
<1>4. MigrationTypeOK
    BY <1>1, <1>2, <1>3 DEF MigrationTypeOK, Stages
<1>7. published = [id \in Records |-> {}]
    BY DEF MigrationInit
<1>5. Locked /\ Carried /\ PlanSound /\ RemotePublished /\ Verified
    BY <1>1, <1>3, <1>7 DEF Locked, Held, Carried, PlanSound, RemotePublished, Verified
<1>6. TextsHeld
    BY <1>1, <1>2, <1>3 DEF TextsHeld
<1> QED BY <1>4, <1>5, <1>6 DEF MigrationInv

\* A step that leaves Legacy, the account, the receipts and the plan alone.
LEMMA LinkMoves ==
  ASSUME MigrationInv, UNCHANGED <<legacy, receipts, remote, stamp, hadText, published, foreign>>,
         link' \in [state : {"UNLINKED", "LINKED", "MIGRATING", "NAVMATE_ACTIVE"},
                    plan : Seq(Targets), completed : Nat, expired : BOOLEAN],
         link'.plan = link.plan, link'.completed <= Len(link.plan),
         link'.state \in {"MIGRATING", "NAVMATE_ACTIVE"} => link.state \in {"MIGRATING", "NAVMATE_ACTIVE"},
         stage' \in Stages, Held', Carried', Verified'
  PROVE  MigrationInv'
<1> USE DEF MigrationInv
<1>1. MigrationTypeOK'
    BY DEF MigrationTypeOK
<1>2. Locked'
    BY DEF Locked
<1>3. PlanSound'
    BY DEF PlanSound, PlanItem
<1>4. RemotePublished'
    BY DEF RemotePublished
<1>5. TextsHeld'
    BY DEF TextsHeld, OnceHeld
<1> QED BY <1>1, <1>2, <1>3, <1>4, <1>5

\* The row of the links table.
LEMMA LinkRow ==
  ASSUME MigrationTypeOK
  PROVE  /\ link \in [state : {"UNLINKED", "LINKED", "MIGRATING", "NAVMATE_ACTIVE"},
                      plan : Seq(Targets), completed : Nat, expired : BOOLEAN]
         /\ link.completed <= Len(link.plan) /\ Len(link.plan) \in Nat
         /\ Seen.plan = link.plan /\ Failed.plan = link.plan
         /\ Seen.completed = link.completed /\ Failed.completed = link.completed
         /\ Seen \in [state : {"UNLINKED", "LINKED", "MIGRATING", "NAVMATE_ACTIVE"},
                      plan : Seq(Targets), completed : Nat, expired : BOOLEAN]
         /\ Failed \in [state : {"UNLINKED", "LINKED", "MIGRATING", "NAVMATE_ACTIVE"},
                        plan : Seq(Targets), completed : Nat, expired : BOOLEAN]
         /\ Seen.state = link.state \/ (Seen.state = "LINKED" /\ link.state = "MIGRATING")
         /\ Failed.state = IF link.state = "MIGRATING" THEN "LINKED" ELSE link.state
BY LenProperties DEF MigrationTypeOK, Seen, Failed

\* The batch is given by the plan and the records done.
LEMMA SameBatch ==
  ASSUME link'.plan = link.plan, link'.completed = link.completed
  PROVE  Batch' = Batch /\ BatchTargets' = BatchTargets /\ BatchIds' = BatchIds
<1>1. Batch' = Batch
    BY DEF Batch
<1>2. BatchTargets' = BatchTargets
    BY <1>1 DEF BatchTargets
<1> QED BY <1>1, <1>2 DEF BatchIds

\* The plan is about the owner's records.
LEMMA PlanIds ==
  ASSUME MigrationTypeOK
  PROVE  \A i \in 1 .. Len(link.plan) : link.plan[i].id \in Records
<1>1. link.plan \in Seq(Targets)
    BY DEF MigrationTypeOK
<1>2. \A i \in 1 .. Len(link.plan) : link.plan[i] \in Targets
    BY <1>1, ElementOfSeq
<1> QED BY <1>2 DEF Targets

\* fail() leaves Legacy open with whatever was imported.
LEMMA AbortKeeps ==
  ASSUME MigrationInv, Abort, stage \notin {"free", "legacy"},
         UNCHANGED <<legacy, receipts, remote, stamp, hadText, published, foreign>>
  PROVE  MigrationInv'
<1>1. link' = Failed /\ stage' = "free"
    BY DEF Abort
<1>2. link.state = "MIGRATING"
    BY DEF MigrationInv, Locked, Held
<1>3. /\ link' \in [state : {"UNLINKED", "LINKED", "MIGRATING", "NAVMATE_ACTIVE"},
                    plan : Seq(Targets), completed : Nat, expired : BOOLEAN]
      /\ link'.plan = link.plan /\ link'.completed <= Len(link.plan) /\ link'.state = "LINKED"
    BY <1>1, <1>2, LinkRow DEF MigrationInv
<1>4. Carried' /\ Verified'
    BY <1>1, <1>3 DEF Carried, Verified
<1>5. stage' \in Stages /\ Held'
    BY <1>1 DEF Stages, Held
<1> QED BY <1>1, <1>3, <1>4, <1>5, LinkMoves

\* Link, status, the start of a step, a Legacy operation coming and going, a
\* death and a lease: the row and the lock move alone.
LEMMA RowKeeps ==
  ASSUME MigrationInv,
         Link \/ Status \/ StepEnter \/ LegacyEnter \/ LegacyLeave \/ ProcessDies \/ LeaseRunsOut
  PROVE  MigrationInv'
<1> USE LinkRow DEF MigrationInv
<1>1. CASE Link \/ Status
    <2>1. /\ stage = "free" /\ stage' = "free"
          /\ UNCHANGED <<legacy, receipts, remote, stamp, hadText, published, foreign>>
          /\ \/ link.state = "UNLINKED" /\ link' = [link EXCEPT !.state = "LINKED"]
             \/ link' = Seen
        BY <1>1 DEF Link, Status, LockFree
    <2>2. /\ link' \in [state : {"UNLINKED", "LINKED", "MIGRATING", "NAVMATE_ACTIVE"},
                        plan : Seq(Targets), completed : Nat, expired : BOOLEAN]
          /\ link'.plan = link.plan /\ link'.completed <= Len(link.plan)
          /\ link'.state \in {"LINKED", link.state}
        BY <2>1
    <2>3. Carried' /\ Verified'
        BY <2>1, <2>2 DEF Carried, Verified
    <2>4. stage' \in Stages /\ Held'
        BY <2>1 DEF Stages, Held
    <2> QED BY <2>1, <2>2, <2>3, <2>4, LinkMoves
<1>2. CASE StepEnter
    <2>1. /\ stage' \in {"verifyAll", "read"} /\ link' = link /\ link.state = "MIGRATING"
          /\ UNCHANGED <<legacy, receipts, remote, stamp, hadText, published, foreign>>
        BY <1>2 DEF StepEnter, LockFree
    <2>2. Carried' /\ Verified'
        BY <2>1 DEF Carried, Verified
    <2>3. stage' \in Stages /\ Held'
        BY <2>1 DEF Stages, Held
    <2> QED BY <2>1, <2>2, <2>3, LinkMoves
<1>3. CASE ProcessDies
    <2>1. /\ stage' = "free" /\ link' = link
          /\ UNCHANGED <<legacy, receipts, remote, stamp, hadText, published, foreign>>
        BY <1>3 DEF ProcessDies
    <2>2. Carried' /\ Verified'
        BY <2>1 DEF Carried, Verified
    <2>3. stage' \in Stages /\ Held'
        BY <2>1 DEF Stages, Held
    <2> QED BY <2>1, <2>2, <2>3, LinkMoves
<1>4. CASE LeaseRunsOut
    <2>1. /\ link.state = "MIGRATING" /\ link' = [link EXCEPT !.expired = TRUE]
          /\ UNCHANGED <<legacy, receipts, stage, current, desired, remote, stamp, hadText, published, foreign>>
        BY <1>4 DEF LeaseRunsOut
    <2>2. /\ link' \in [state : {"UNLINKED", "LINKED", "MIGRATING", "NAVMATE_ACTIVE"},
                        plan : Seq(Targets), completed : Nat, expired : BOOLEAN]
          /\ link'.plan = link.plan /\ link'.completed = link.completed /\ link'.state = link.state
        BY <2>1
    <2>3. BatchIds' = BatchIds
        BY <2>2, SameBatch
    <2>4. Carried' /\ Verified'
        BY <2>1, <2>2, <2>3 DEF Carried, Verified, OnceHeld
    <2>5. stage' \in Stages /\ Held'
        BY <2>1, <2>2 DEF MigrationTypeOK, Locked, Held
    <2> QED BY <2>1, <2>2, <2>4, <2>5, LinkMoves
<1>5. CASE LegacyEnter \/ LegacyLeave
    <2>1. /\ UNCHANGED <<legacy, receipts, remote, stamp, hadText, published, foreign>>
          /\ \/ /\ link' = Seen /\ stage' = "legacy"
                /\ Seen.state \notin {"MIGRATING", "NAVMATE_ACTIVE"}
             \/ /\ link' = link /\ stage' = "free"
                /\ link.state \notin {"MIGRATING", "NAVMATE_ACTIVE"}
        BY <1>5 DEF LegacyEnter, LegacyLeave, MayEnterLegacy, Locked, Held
    <2>2. /\ link' \in [state : {"UNLINKED", "LINKED", "MIGRATING", "NAVMATE_ACTIVE"},
                        plan : Seq(Targets), completed : Nat, expired : BOOLEAN]
          /\ link'.plan = link.plan /\ link'.completed <= Len(link.plan)
          /\ link'.state \notin {"MIGRATING", "NAVMATE_ACTIVE"}
        BY <2>1
    <2>3. stage' \in Stages /\ Held' /\ Carried' /\ Verified'
        BY <2>1, <2>2 DEF Stages, Held, Carried, Verified
    <2> QED BY <2>1, <2>2, <2>3, LinkMoves
<1> QED BY <1>1, <1>2, <1>3, <1>4, <1>5

\* begin closes Legacy over a plan of all it holds.
LEMMA BeginKeeps ==
  ASSUME MigrationInv, Begin
  PROVE  MigrationInv'
<1>1. /\ stage = "free"
      /\ link' = [state |-> "MIGRATING", plan |-> PlanOf, completed |-> 0, expired |-> FALSE]
      /\ UNCHANGED <<legacy, receipts, stage, current, desired, remote, stamp, hadText, published, foreign>>
    BY DEF Begin, LockFree
<1>2. /\ PlanOf \in Seq(Targets)
      /\ \A i \in 1 .. Len(PlanOf) : /\ PlanItem(PlanOf[i])
                                     /\ PlanOf[i].body.text \in hadText[PlanOf[i].id]
      /\ \A id \in Records : legacy[id] # NoDoc \/ id \in DOMAIN receipts =>
                               \E i \in 1 .. Len(PlanOf) : PlanOf[i].id = id
    BY PlanOfSound
<1>3. PICK plan : plan = PlanOf
    OBVIOUS
<1>4. link'.plan = plan /\ link'.state = "MIGRATING" /\ Len(plan) \in Nat
    BY <1>1, <1>2, <1>3, LenProperties
<1> USE DEF MigrationInv
<1>5. MigrationTypeOK'
    BY <1>1, <1>2, <1>3, <1>4 DEF MigrationTypeOK
<1>6. Locked' /\ Carried' /\ RemotePublished' /\ Verified'
    BY <1>1, <1>4 DEF Locked, Held, Carried, RemotePublished, Verified
<1>7. PlanSound'
    BY <1>1, <1>2, <1>3, <1>4 DEF PlanSound, PlanItem
<1>8. TextsHeld'
    BY <1>1, <1>2, <1>3, <1>4 DEF TextsHeld, OnceHeld
<1> QED BY <1>5, <1>6, <1>7, <1>8

\* A Legacy operation writes only while the owner is not being moved.
LEMMA LegacyWriteKeeps ==
  ASSUME MigrationInv, NEW id \in Records, NEW text \in Texts \cup {NoDoc}, LegacyWrite(id, text)
  PROVE  MigrationInv'
<1> USE MigrationBounds DEF MigrationInv
<1>1. /\ stage' = "free" /\ link' = link /\ link.state \notin {"MIGRATING", "NAVMATE_ACTIVE"}
      /\ legacy' = [legacy EXCEPT ![id] = text]
      /\ hadText' = [hadText EXCEPT ![id] = @ \cup ({text} \ {NoDoc})]
      /\ UNCHANGED <<receipts, remote, stamp, published, foreign>>
    BY DEF LegacyWrite, Locked, Held
<1>2. /\ link' \in [state : {"UNLINKED", "LINKED", "MIGRATING", "NAVMATE_ACTIVE"},
                    plan : Seq(Targets), completed : Nat, expired : BOOLEAN]
      /\ link'.plan = link.plan /\ link'.completed <= Len(link.plan)
      /\ link'.state \notin {"MIGRATING", "NAVMATE_ACTIVE"}
    BY <1>1, LinkRow
<1>3. MigrationTypeOK'
    BY <1>1, <1>2 DEF MigrationTypeOK, Stages
<1>4. Locked' /\ Carried' /\ PlanSound' /\ RemotePublished' /\ Verified'
    BY <1>1, <1>2 DEF Locked, Held, Carried, PlanSound, RemotePublished, Verified
<1>5. /\ DOMAIN hadText = Records /\ DOMAIN hadText' = Records
      /\ \A r \in Records : hadText[r] \subseteq hadText'[r]
      /\ hadText'[id] = hadText[id] \cup ({text} \ {NoDoc})
    BY <1>1 DEF TextsHeld
<1>6. \A r \in Records : legacy'[r] # NoDoc => legacy'[r] \in hadText'[r]
    <2> SUFFICES ASSUME NEW r \in Records, legacy'[r] # NoDoc PROVE legacy'[r] \in hadText'[r]
        OBVIOUS
    <2>1. CASE r = id
        BY <1>1, <1>5, <2>1 DEF MigrationTypeOK
    <2>2. CASE r # id
        BY <1>1, <1>5, <2>2 DEF MigrationTypeOK, TextsHeld
    <2> QED BY <2>1, <2>2
<1>7. \A i \in 1 .. Len(link.plan) : link.plan[i].id \in Records
    BY PlanIds
<1>8. TextsHeld'
    BY <1>1, <1>2, <1>5, <1>6, <1>7 DEF TextsHeld, OnceHeld, Locked
<1> QED BY <1>3, <1>4, <1>8

\* Reading, reading back, recording and the switch: the row and the stage move.
LEMMA ReadsKeep ==
  ASSUME MigrationInv, StepRead \/ StepVerify \/ StepRecord \/ StepVerifyAll \/ StepActivate
  PROVE  MigrationInv'
<1> USE LinkRow DEF MigrationInv
<1>1. CASE StepRead
    <2>1. /\ stage = "read" /\ UNCHANGED <<legacy, receipts, remote, stamp, hadText, published, foreign>>
          /\ \/ current' = [id \in BatchIds |-> remote[id]] /\ stage' = "journal" /\ link' = link
             \/ Abort
        BY <1>1 DEF StepRead
    <2>2. CASE Abort
        BY <2>1, <2>2, AbortKeeps
    <2>3. CASE current' = [id \in BatchIds |-> remote[id]] /\ stage' = "journal" /\ link' = link
        <3>1. BatchIds' = BatchIds /\ BatchIds \subseteq Records
            BY <2>3, SameBatch, BatchInPlan
        <3>2. Carried' /\ Verified'
            BY <2>1, <2>3, <3>1 DEF Carried, Verified, MigrationTypeOK, Locked, Held
        <3>3. stage' \in Stages /\ Held'
            BY <2>1, <2>3 DEF Stages, Locked, Held
        <3> QED BY <2>1, <2>3, <3>2, <3>3, LinkMoves
    <2> QED BY <2>1, <2>2, <2>3
<1>2. CASE StepVerify
    <2>1. /\ stage = "verify" /\ UNCHANGED <<legacy, receipts, remote, stamp, hadText, published, foreign>>
          /\ (stage' = "record" /\ link' = link) \/ Abort
        BY <1>2 DEF StepVerify
    <2>2. CASE stage' = "record" /\ link' = link
        <3>1. Carried' /\ Verified'
            BY <2>1, <2>2 DEF Carried, Verified, Locked
        <3>2. stage' \in Stages /\ Held'
            BY <2>1, <2>2 DEF Stages, Locked, Held
        <3> QED BY <2>1, <2>2, <3>1, <3>2, LinkMoves
    <2> QED BY <2>1, <2>2, AbortKeeps
<1>3. CASE StepRecord
    <2>1. /\ stage' = "free" /\ UNCHANGED <<legacy, receipts, remote, stamp, hadText, published, foreign>>
          /\ link' = [link EXCEPT !.completed = @ + Len(Batch), !.expired = FALSE]
          /\ stage = "record"
        BY <1>3 DEF StepRecord
    <2>2. link.state = "MIGRATING"
        BY <2>1 DEF Locked, Held
    <2>3. Len(Batch) \in Nat /\ link.completed + Len(Batch) <= Len(link.plan)
        BY BatchInPlan
    <2>4. /\ link' \in [state : {"UNLINKED", "LINKED", "MIGRATING", "NAVMATE_ACTIVE"},
                        plan : Seq(Targets), completed : Nat, expired : BOOLEAN]
          /\ link'.plan = link.plan /\ link'.completed <= Len(link.plan) /\ link'.state = "MIGRATING"
        <3>1. PICK n : n = link.completed + Len(Batch)
            OBVIOUS
        <3>2. n \in Nat /\ n <= Len(link.plan)
            BY <2>3, <3>1 DEF MigrationTypeOK
        <3>3. link' = [link EXCEPT !.completed = n, !.expired = FALSE]
            BY <2>1, <3>1
        <3> QED BY <2>2, <3>2, <3>3
    <2>5. Carried' /\ Verified'
        BY <2>1, <2>4 DEF Carried, Verified
    <2>6. stage' \in Stages /\ Held'
        BY <2>1 DEF Stages, Held
    <2> QED BY <2>1, <2>2, <2>4, <2>5, <2>6, LinkMoves
<1>4. CASE StepVerifyAll
    <2>1. /\ stage = "verifyAll" /\ UNCHANGED <<legacy, receipts, remote, stamp, hadText, published, foreign>>
          /\ \/ Matches({link.plan[i] : i \in 1 .. Len(link.plan)}) /\ stage' = "activate" /\ link' = link
             \/ Abort
        BY <1>4 DEF StepVerifyAll
    <2>2. CASE Matches({link.plan[i] : i \in 1 .. Len(link.plan)}) /\ stage' = "activate" /\ link' = link
        <3>1. \A i \in 1 .. Len(link.plan) : /\ remote[link.plan[i].id] # NoDoc
                                             /\ remote[link.plan[i].id].body = link.plan[i].body
            BY <2>2 DEF Matches, SameBody
        <3>2. \A i \in 1 .. Len(link.plan) : link.plan[i].id \in Records
            BY PlanIds
        <3>3. \A i \in 1 .. Len(link.plan) : link.plan[i].body \in published[link.plan[i].id]
            BY <3>1, <3>2 DEF RemotePublished
        <3>4. Carried' /\ Verified'
            BY <2>1, <2>2, <3>3 DEF Carried, Verified
        <3>5. stage' \in Stages /\ Held'
            BY <2>1, <2>2 DEF Stages, Locked, Held
        <3> QED BY <2>1, <2>2, <3>4, <3>5, LinkMoves
    <2> QED BY <2>1, <2>2, AbortKeeps
<1>5. CASE StepActivate
    <2>1. /\ stage = "activate" /\ UNCHANGED <<legacy, receipts, remote, stamp, hadText, published, foreign>>
          /\ link' = [link EXCEPT !.state = "NAVMATE_ACTIVE"] /\ stage' = "free"
        BY <1>5 DEF StepActivate
    <2>2. /\ link' \in [state : {"UNLINKED", "LINKED", "MIGRATING", "NAVMATE_ACTIVE"},
                        plan : Seq(Targets), completed : Nat, expired : BOOLEAN]
          /\ link'.plan = link.plan /\ link'.completed <= Len(link.plan) /\ link.state = "MIGRATING"
        BY <2>1 DEF Locked, Held
    <2>3. Carried' /\ Verified'
        BY <2>1, <2>2 DEF Carried, Verified
    <2>4. stage' \in Stages /\ Held'
        BY <2>1 DEF Stages, Held
    <2> QED BY <2>1, <2>2, <2>3, <2>4, LinkMoves
<1> QED BY <1>1, <1>2, <1>3, <1>4, <1>5

\* A NavMate device adds to what has been published.
LEMMA ForeignEditKeeps ==
  ASSUME MigrationInv, NEW id \in Records, NEW body \in Bodies, ForeignEdit(id, body)
  PROVE  MigrationInv'
<1> USE DEF MigrationInv
<1>1. /\ remote' = [remote EXCEPT ![id] = [body |-> body, version |-> stamp + 1]]
      /\ stamp' = stamp + 1 /\ published' = [published EXCEPT ![id] = @ \cup {body}]
      /\ UNCHANGED <<legacy, link, receipts, stage, current, desired, hadText>> /\ foreign' = foreign + 1
    BY DEF ForeignEdit
<1>2. stamp \in Nat /\ stamp' \in Nat /\ foreign' \in Nat /\ [body |-> body, version |-> stamp + 1] \in Doc
    BY <1>1 DEF Locked, Held, Doc
<1>3. /\ DOMAIN published' = Records /\ \A r \in Records : published[r] \subseteq published'[r]
      /\ body \in published'[id]
    BY <1>1 DEF RemotePublished
<1>4. MigrationTypeOK'
    BY <1>1, <1>2 DEF MigrationTypeOK
<1>5. RemotePublished'
    BY <1>1, <1>3 DEF RemotePublished, MigrationTypeOK
<1>6. Verified'
    BY <1>1, <1>3, PlanIds DEF Verified
<1>7. BatchIds' = BatchIds
    BY <1>1, SameBatch
<1>8. Locked' /\ Carried' /\ PlanSound' /\ TextsHeld'
    BY <1>1, <1>2, <1>7 DEF Locked, Held, Carried, PlanSound, PlanItem, TextsHeld, OnceHeld
<1> QED BY <1>4, <1>5, <1>6, <1>8

\* Every document a step decides on is typed, and its text is Legacy's.
LEMMA DecidedDocs ==
  ASSUME MigrationInv, stage = "journal", NEW id \in BatchIds,
         \A target \in BatchTargets : ~Conflicts(target),
         NEW document, document = Decided(CHOOSE target \in BatchTargets : target.id = id)
  PROVE  /\ id \in Records /\ document \in Doc /\ OnceHeld(id, document)
         /\ current[id] \in Doc \cup {NoDoc} /\ OnceHeld(id, current[id])
<1> USE DEF MigrationInv
<1>1. PICK target : target = CHOOSE x \in BatchTargets : x.id = id
    OBVIOUS
<1>2. target \in BatchTargets /\ target.id = id
    BY <1>1, BatchInPlan
<1>3. target \in Targets /\ (\E i \in 1 .. Len(link.plan) : link.plan[i] = target) /\ id \in Records
    BY <1>2, BatchInPlan
<1>4. target.body \in Bodies /\ target.body.text \in hadText[id]
    BY <1>2, <1>3 DEF Targets, TextsHeld
<1>5. current[id] \in Doc \cup {NoDoc} /\ stamp \in Nat
    BY DEF Carried, Locked
<1>6. document = IF SameBody(current[id], target) THEN current[id]
                 ELSE [body |-> target.body, version |-> stamp + 1]
    BY <1>1, <1>2 DEF Decided
<1>7. document \in Doc
    BY <1>4, <1>5, <1>6 DEF SameBody, Doc
<1>8. document.body.text \in hadText[id]
    BY <1>4, <1>6 DEF SameBody
<1>9. OnceHeld(id, current[id])
    <2> SUFFICES ASSUME current[id] # NoDoc PROVE current[id].body.text \in hadText[id]
        BY DEF OnceHeld
    <2>1. SameBody(current[id], target) \/ Journaled(id, current[id])
        BY <1>2 DEF Conflicts
    <2>2. CASE SameBody(current[id], target)
        BY <1>4, <2>2 DEF SameBody
    <2>3. CASE Journaled(id, current[id])
        BY <2>3 DEF Journaled, TextsHeld, OnceHeld
    <2> QED BY <2>1, <2>2, <2>3
<1> QED BY <1>3, <1>5, <1>7, <1>8, <1>9 DEF OnceHeld

\* The receipts of the batch are those of what was decided.
LEMMA JournalKeeps ==
  ASSUME MigrationInv, StepJournal
  PROVE  MigrationInv'
<1> USE DEF MigrationInv
<1>1. stage = "journal" /\ UNCHANGED <<legacy, remote, hadText, published, foreign>>
    BY DEF StepJournal
<1>2. CASE \E target \in BatchTargets : Conflicts(target)
    <2>1. Abort /\ UNCHANGED <<receipts, stamp>>
        BY <1>2 DEF StepJournal
    <2> QED BY <1>1, <2>1, AbortKeeps
<1>3. CASE \A target \in BatchTargets : ~Conflicts(target)
    <2>1. /\ desired' = [id \in BatchIds |-> Decided(CHOOSE target \in BatchTargets : target.id = id)]
          /\ receipts' = [id \in DOMAIN receipts \cup BatchIds |->
                            IF id \in BatchIds
                            THEN [previous |-> current[id], intended |-> desired'[id]]
                            ELSE receipts[id]]
          /\ stamp' = stamp + IF desired' = current THEN 0 ELSE 1
          /\ stage' = "commit" /\ UNCHANGED <<link, current>>
        BY <1>3 DEF StepJournal
    <2>2. \A id \in BatchIds : /\ id \in Records /\ desired'[id] \in Doc /\ OnceHeld(id, desired'[id])
                               /\ current[id] \in Doc \cup {NoDoc} /\ OnceHeld(id, current[id])
        BY <1>1, <1>3, <2>1, DecidedDocs
    <2>3. BatchIds' = BatchIds
        BY <2>1, SameBatch
    <2>4. stamp \in Nat /\ stamp' \in Nat
        BY <2>1 DEF Locked, Held
    <2>5. /\ DOMAIN receipts' = DOMAIN receipts \cup BatchIds
          /\ \A id \in BatchIds : receipts'[id] = [previous |-> current[id], intended |-> desired'[id]]
          /\ \A id \in DOMAIN receipts \ BatchIds : receipts'[id] = receipts[id]
        BY <2>1
    <2>6. MigrationTypeOK'
        <3>1. \A id \in DOMAIN receipts' : receipts'[id] \in [previous : Doc \cup {NoDoc}, intended : Doc]
            BY <2>2, <2>5 DEF MigrationTypeOK
        <3> QED BY <1>1, <2>1, <3>1 DEF MigrationTypeOK, Stages
    <2>7. Locked'
        BY <1>1, <2>1, <2>2, <2>4, <2>5 DEF Locked, Held
    <2>8. Carried'
        <3>1. /\ DOMAIN desired' = BatchIds /\ DOMAIN current' = BatchIds /\ current' = current
              /\ hadText' = hadText
            BY <1>1, <2>1 DEF Carried
        <3> QED BY <2>2, <2>3, <3>1 DEF Carried, OnceHeld
    <2>9. PlanSound'
        <3>1. \A id \in BatchIds : \E i \in 1 .. Len(link.plan) : link.plan[i].id = id
            BY BatchInPlan
        <3> QED BY <1>1, <2>1, <2>5, <3>1 DEF PlanSound, PlanItem
    <2>10. RemotePublished' /\ Verified'
        BY <1>1, <2>1 DEF RemotePublished, Verified, Locked
    <2>11. TextsHeld'
        <3>1. \A id \in DOMAIN receipts' :
                OnceHeld(id, receipts'[id].previous) /\ OnceHeld(id, receipts'[id].intended)
            BY <2>2, <2>5 DEF TextsHeld
        <3> QED BY <1>1, <2>1, <3>1 DEF TextsHeld, OnceHeld
    <2> QED BY <2>6, <2>7, <2>8, <2>9, <2>10, <2>11
<1> QED BY <1>2, <1>3

\* What a commit that reaches the account writes there.
LEMMA CommitWrites ==
  ASSUME MigrationInv, StepCommit
  PROVE  \/ /\ Abort /\ remote' = remote /\ published' = published
         \/ /\ (stage' = "verify" /\ link' = link) \/ Abort
            /\ \A id \in Records : \/ remote'[id] = remote[id] /\ published'[id] = published[id]
                                   \/ /\ id \in BatchIds /\ remote[id] = current[id]
                                      /\ remote'[id] = desired[id]
                                      /\ published'[id] = published[id] \cup {desired[id].body}
            /\ remote' \in [Records -> Doc \cup {NoDoc}] /\ DOMAIN published' = Records
<1> USE DEF MigrationInv
<1>1. CASE Abort /\ remote' = remote /\ published' = published
    BY <1>1
<1>2. CASE /\ Preconditions /\ remote' = Written
           /\ published' = [id \in Records |-> published[id] \cup
                              (IF id \in Writes THEN {desired[id].body} ELSE {})]
           /\ (stage' = "verify" /\ link' = link) \/ Abort
    <2>1. stage = "commit"
        BY DEF StepCommit
    <2>2. \A id \in Writes : id \in BatchIds /\ remote[id] = current[id] /\ desired[id] \in Doc
        BY <1>2, <2>1 DEF Writes, Preconditions, Carried
    <2>3. \A id \in Records : remote'[id] = IF id \in Writes THEN desired[id] ELSE remote[id]
        BY <1>2 DEF Written
    <2>4. remote' \in [Records -> Doc \cup {NoDoc}]
        BY <1>2, <2>2 DEF Written, MigrationTypeOK
    <2>5. \A id \in Records : published'[id] = published[id] \cup
                                (IF id \in Writes THEN {desired[id].body} ELSE {})
        BY <1>2
    <2> QED BY <1>2, <2>2, <2>3, <2>4, <2>5
<1>3. \/ /\ Preconditions /\ remote' = Written
         /\ published' = [id \in Records |-> published[id] \cup
                            (IF id \in Writes THEN {desired[id].body} ELSE {})]
         /\ (stage' = "verify" /\ link' = link) \/ Abort
      \/ Abort /\ remote' = remote /\ published' = published
    BY DEF StepCommit
<1> QED BY <1>1, <1>2, <1>3

\* A commit publishes what it writes.
LEMMA CommitKeeps ==
  ASSUME MigrationInv, StepCommit
  PROVE  MigrationInv'
<1> USE DEF MigrationInv
<1>1. stage = "commit" /\ UNCHANGED <<legacy, receipts, stamp, hadText, foreign>>
    BY DEF StepCommit
<1>2. CASE Abort /\ remote' = remote /\ published' = published
    BY <1>1, <1>2, AbortKeeps
<1>3. CASE /\ (stage' = "verify" /\ link' = link) \/ Abort
           /\ \A id \in Records : \/ remote'[id] = remote[id] /\ published'[id] = published[id]
                                  \/ /\ id \in BatchIds /\ remote[id] = current[id]
                                     /\ remote'[id] = desired[id]
                                     /\ published'[id] = published[id] \cup {desired[id].body}
           /\ remote' \in [Records -> Doc \cup {NoDoc}] /\ DOMAIN published' = Records
    <2>1. /\ link' \in [state : {"UNLINKED", "LINKED", "MIGRATING", "NAVMATE_ACTIVE"},
                        plan : Seq(Targets), completed : Nat, expired : BOOLEAN]
          /\ link'.plan = link.plan /\ link'.completed <= Len(link.plan)
          /\ \/ stage' = "verify" /\ link'.state = "MIGRATING"
             \/ stage' = "free" /\ link'.state = "LINKED"
        <3>1. link.state = "MIGRATING"
            BY <1>1 DEF Locked, Held
        <3> QED BY <1>3, <3>1, LinkRow DEF Abort
    <2>2. MigrationTypeOK'
        BY <1>1, <1>3, <2>1 DEF MigrationTypeOK, Stages
    <2>3. Locked' /\ Carried' /\ Verified'
        BY <1>1, <2>1 DEF Locked, Held, Carried, Verified
    <2>4. PlanSound'
        BY <1>1, <2>1 DEF PlanSound, PlanItem, Locked, Held
    <2>5. RemotePublished'
        BY <1>3 DEF RemotePublished
    <2>6. TextsHeld'
        BY <1>1, <2>1 DEF TextsHeld, OnceHeld
    <2> QED BY <2>2, <2>3, <2>4, <2>5, <2>6
<1> QED BY <1>2, <1>3, CommitWrites

\* Every step of the move keeps the invariant.
LEMMA MigrationNextKeeps == MigrationInv /\ [MigrationNext]_migVars => MigrationInv'
<1> SUFFICES ASSUME MigrationInv, [MigrationNext]_migVars PROVE MigrationInv'
    OBVIOUS
<1>1. CASE UNCHANGED migVars
    <2>1. UNCHANGED <<legacy, link, receipts, stage, current, desired, remote, stamp, hadText, published, foreign>>
        BY <1>1 DEF migVars
    <2>2. BatchIds' = BatchIds
        BY <2>1, SameBatch
    <2> QED BY <2>1, <2>2 DEF MigrationInv, MigrationTypeOK, Locked, Held, Carried, PlanSound, PlanItem,
              RemotePublished, Verified, TextsHeld, OnceHeld
<1>2. CASE Link \/ Status \/ Begin \/ Step \/ LegacyEnter \/ LegacyLeave \/ ProcessDies \/ LeaseRunsOut
    BY <1>2, RowKeeps, BeginKeeps, ReadsKeep, JournalKeeps, CommitKeeps DEF Step
<1>3. CASE \E id \in Records, text \in Texts \cup {NoDoc} : LegacyWrite(id, text)
    BY <1>3, LegacyWriteKeeps
<1>4. CASE \E id \in Records, body \in Bodies : ForeignEdit(id, body)
    BY <1>4, ForeignEditKeeps
<1> QED BY <1>1, <1>2, <1>3, <1>4 DEF MigrationNext

\* A document is replaced only by its own migration, text for text.
LEMMA ForeignKeptStep ==
  ASSUME MigrationInv, [MigrationNext]_migVars, NEW id \in Records,
         remote'[id] # remote[id], foreign' = foreign, remote[id] # NoDoc
  PROVE  remote[id].body.text \in hadText[id] /\ remote'[id].body.text \in hadText[id]
<1>1. CASE StepCommit
    <2>1. id \in BatchIds /\ remote[id] = current[id] /\ remote'[id] = desired[id]
        BY <1>1, CommitWrites
    <2>2. stage = "commit"
        BY <1>1 DEF StepCommit
    <2>3. /\ desired[id] \in Doc /\ OnceHeld(id, desired[id]) /\ OnceHeld(id, current[id])
        BY <2>1, <2>2 DEF MigrationInv, Carried
    <2> QED BY <2>1, <2>3, MigrationBounds DEF OnceHeld
<1>2. CASE \E r \in Records, body \in Bodies : ForeignEdit(r, body)
    <2>1. foreign' = foreign + 1 /\ foreign \in Nat
        BY <1>2 DEF ForeignEdit, MigrationInv, Locked
    <2> QED BY <2>1
<1>3. CASE UNCHANGED remote
    BY <1>3
<1> QED BY <1>1, <1>2, <1>3 DEF MigrationNext, migVars, Step, Link, Status, Begin, LegacyEnter, LegacyWrite, LegacyLeave, StepEnter,
          StepRead, StepJournal, StepVerify, StepRecord, StepVerifyAll, StepActivate, ProcessDies, LeaseRunsOut

\* The invariant of the move holds throughout, for any records, texts, batch
\* size, edits and faults.
THEOREM MigrationInductive == MigrationSpec => []MigrationInv
BY MigrationInitInv, MigrationNextKeeps, PTL DEF MigrationSpec

\* What is moved is what Legacy holds, and after the one-way switch it has all
\* been in the account: LegacyMigration's MoveIsComplete.
THEOREM MoveLosesNothing == MigrationSpec => []MoveIsComplete
BY MigrationInductive, MigrationInvMeans, PTL

\* A retry never replaces what a NavMate device wrote: LegacyMigration's
\* ForeignEditsKept.
THEOREM MoveKeepsForeignEdits == MigrationSpec => ForeignEditsKept
<1>1. MigrationInv /\ [MigrationNext]_migVars =>
        [\A id \in Records :
           (remote'[id] # remote[id] /\ foreign' = foreign /\ remote[id] # NoDoc)
             => remote[id].body.text \in hadText[id] /\ remote'[id].body.text \in hadText[id]]_migVars
    BY ForeignKeptStep
<1> QED BY <1>1, MigrationInductive, PTL DEF MigrationSpec, ForeignEditsKept
=============================================================================
