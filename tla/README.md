# Verification of NavMate's stateful core

NavMate (AutoNavLog) plans VFR cross-country flights: in the browser, offline
first, with an account that several devices synchronise; and, in its older
form, on a web server of its own. Unit tests reach its numeric code through
reference values. What they reach badly is everything around it: devices and
tabs that share an account, jobs and quotas on a server, files and deployments
that survive a crash half-written, calculations that are overtaken, and
decisions that several passes make one after the other. This directory holds
TLA+ models of those parts, TLC configurations that check them on small
instances, and proofs checked by TLAPS for every size.

Paths below are relative to the repository root; `AutoNavLog`'s Python package
is `src/autonavlog`. The source lines of every definition are in `PROJECT.json`
(`map`), and so are the hazards the properties are aimed at (`hazards`).

## Inventory

| Component | State it keeps | Operations | Interacts through | Hard behaviour |
|---|---|---|---|---|
| **Account Sync** (`web/src/accountProjectRepository.ts`, `accountSyncController.ts`, `firestoreSyncRepository.ts`, `accountSync.ts`, `firebase/firestore.rules`) | Firestore documents; per device one IndexedDB row per Project with base, outbox and conflict; per tab the loaded Project and the progress of a sync run | write, open, delete, undo, importLatest, resolve; run = pending / markSending / commit / acknowledge / receive / list / confirmImports | IndexedDB shared by tabs; Firestore transactions; snapshot callbacks; timers | devices and tabs interleave at every await; lost replies; late requests; Undo deadline on the server's clock |
| **Account lifecycle** (`accountLifecycle.ts`, `accountContext.ts`) | account document with generation and state; local databases | currentAccount, deleteCurrentAccount, removeLocalAccount | Rules, snapshot of the account document | deletion resumed after a crash, other devices still signed in |
| **Auth provider** (`firebaseAuthProvider.ts`) | current user, token, retained session | accept, refresh, signIn, signOut, deleteAccount | SDK callbacks | superseded calls, outage, events of other tabs |
| **Calculation jobs** (`web/calculation_jobs.py`) | jobs by owner, permits | submit, _run, snapshot, _prune, shutdown | thread pool | the lock is left between admission and hand-over, and between end and permit |
| **Forecast backup** (`web/forecast_backup.py`, `forecastBackup.ts`) | SQLite ledger of requests, queue, quotas | submit, _run, _finish, get, close | HTTP polling | retry of a submitted id, deadlines, restart |
| **Legacy migration** (`web/legacy_migration.py`) | SQLite migration row, plan and receipts, remote account | link, begin, step, fail, status, legacy_operation | remote commits | resumed after a crash between remote write and local note |
| **Server facade** (`web/facade.py`) | sessions and their order of use, drafts, records of calculations, intents to refresh | create, invalidate, load, save, update, confirm, calculate, delete | table lock, session locks, owner's files | a session evicted while it calculates; three writes of one calculation |
| **Destination TAF** (`weather/destination_taf.py`) | cache, download under way per airport, slots | get, repetition of the calculation | threads, HTTP | shared downloads that are late or never start |
| **Server file storage** (`storage/local.py`) | checkpoint, backup, pending, index and marker files | save, autosave, load, list, delete | file system | crash or failed write between two files |
| **Release and feed operations** (`scripts/static_ops/*.py`, `scripts/static_ops/local_runtime.py`) | Pages deployment, approved commit, automation switches; release directories and links of a container; history of workflow runs | publish, feed, approve, withdraw; build, promote, collect, serve; gate | GitHub API, file system | commands that raise although they took effect; kills between two links; decisions from three reads |
| **Readiness, fingerprints, forecast selection** (`application/readiness*.py`, `project_fingerprints.py`, `forecast_selection.py`) | acknowledgements, reviews, fingerprints, pinned Run | issues, acknowledge, review, select | calls | something reviewed for other inputs |
| **Local application** (`localApplication.ts`, `local.worker.ts`, `local.py`) | working Project, queue of operations, generation | execute, calculate, adopt, commit | Web Worker messages, backup server | operations overtake a calculation at any stage |
| **Weather transport** (`localWeather.ts`, `weather/local_forecast.py`, `weather/prewarm.py`) | catalogs, payloads, range cache | demand, acquire, refuse | HTTP, repetition | evidence arrives between repetitions |
| **Flight calculation** (`application/calculation_service.py`, `phase_segments.py`, `navlog_display.py`) | none | profile, partition, display | calls | fixed points, boundaries, rounding in four passes |
| **RJFM guidance** (`rjfm_departure_plan.py`, `rjfm_inbound_plan.py`, guidance modules) | metadata captured on sections | normalize after every edit | calls from the facade | two policies that rewrite one route |
| **Imports** (`kml.py`, facade) | parsed candidates | open, read, join, confirm | calls | names assigned by index in five passes |
| **Anonymous device repository**, **MSM trigger**, **TAF proxy**, **Reference data**, **User interface** | | | | not modelled, see below |

### What makes each part correct

- **Account Sync**: no edit is lost; nothing is overwritten without a choice; a
  lost acknowledgement is recognised; a group is committed whole; the documents
  form a ledger (gapless revisions, final tombstones, deadlines that do not
  move); when the user stops, the devices come to agree.
- **Account lifecycle, auth provider**: a deletion leaves nothing behind, on the
  server and on the deleting device; a generation that was given up is not
  opened again; a live account's copies are never removed.
- **Calculation jobs, forecast backup**: a permit is returned exactly once per
  job; a request is computed once; every poll is answered in the end, also after
  a restart.
- **Legacy migration**: what Legacy had last arrives; an edit made in NavMate
  meanwhile is not overwritten; the move ends.
- **Server facade, destination TAF**: what is kept of a calculation is what was
  computed; a pinned forecast changes on the second click only; what is durable
  is so before it is told; a wind is that of its arrival time.
- **Files, publications, gate, container**: a completed save is not hidden by an
  older file; unasked, a Project vanishes only as a superseded draft that was never
  saved or of which nothing saved can be read; the feed opens for an approved commit only;
  budgets hold although reads are apart; what a container serves is complete and
  in the end the last commit.
- **Planning**: no forecast is replaced unasked, a calculation ends whole or leaves
  no trace, what is copied was computed from the present inputs with its warnings
  acknowledged (the program asks for neither names nor a review), the profile that
  converges is one flight, sums and empty cells read as calculated, a
  normalized route is a fixed point, an imported name stays at its place.

## Modules

| Module | Role |
|---|---|
| `SyncValues`, `SyncRepository` | the exchanged values, the compare-and-swap, the Rules; the rows of a device and what each transaction makes of them (operators only) |
| `AccountSync` | documents, devices, tabs, network and clock, with their properties |
| `ProjectLedger` | abstract specification: what the documents promise to every reader |
| `AccountLifecycle` | account record, cache, local databases, provider, deletion |
| `CalculationJobs`, `ForecastBackup`, `LegacyMigration`, `LocalRuntime` | the server's queue, its backup ledger, the move of a Legacy owner, the container |
| `WebSessions`, `DestinationTaf` | sessions of the facade; the wind at the destination |
| `OwnerStorage`, `StaticPublication`, `ExternalTriggerGate` | what outlives a process |
| `ForecastSelection`, `LocalCalculation` | the choice of a forecast, and a browser calculation around it |
| `Readiness` | whether a NAV LOG may be copied |
| `FlightProfile`, `NavLogDisplay` | the vertical profile and the rows made of it |
| `RjfmRoute`, `KmlRoutes` | the route under two policies, and the import it starts from |
| `MCSync`, `MCLifecycle`, `MCServer`, `MCWeb`, `MCDurable`, `MCPlanning` | instances for TLC |
| `AccountSyncProofs`, `AccountLifecycleProofs`, `WebSessionsProofs` | theorems about the module each is named after |
| `SyncRevisionProofs` | theorems about the revision numbers of `AccountSync`, one tab on each device |
| `WorkerProofs` | theorems about `CalculationJobs` and `DestinationTaf` |
| `DurableProofs` | theorems about `OwnerStorage` and `StaticPublication` |
| `ServerProofs` | theorems about `ForecastBackup`, `LocalRuntime` and `LegacyMigration` |
| `DecisionProofs` | theorems about `ExternalTriggerGate`, `Readiness` and `LocalCalculation` |

Operators whose comment begins with "(broken)" are variants of a definition
below them with a plausible bug; no specification uses them. Substituting one
for its definition must make TLC find the property it is paired with in
`PROJECT.json` (`mutants`) violated, which shows that the property constrains
the code at that place.

### Account Sync

State. `cloud` are the Firestore documents; `rows[d]` the IndexedDB records of
device `d` (`AccountRow`, with its sync metadata); `work[t]` the loaded row a tab
keeps in memory (`loaded`, `saved` of the repository); `ctl[t]` how far the tab's
`AccountSyncController.run` has got, with what it holds across an `await`: the
rest of the outbox, the group being sent, the answer not yet merged, and the
flags `remoteChanged` (`changed`) and `~remoteInitialized` (`first`). `wire`
holds commit requests whose sender stopped waiting. A version is the UUID of
one write of one Project, numbered per Project in the order of the writes.
`hist` is a history variable: for each version, the versions its content builds
on or that its author saw and rejected. No action reads more of it than its
length, which numbers the next version.

| Action | Code |
|---|---|
| `Write`, `Open`, `Delete`, `Undo`, `ImportLatest`, `Resolve` | the transactions `write`, `open`, `delete`, `undo`, `importLatest`, `resolve` of `accountProjectRepository.ts`, with `discardLatest` where they call it |
| `StartRun`, `MarkSending`, `Commit`, `Acknowledge`, `ReceiveConflicts`, `ListRemote` / `SkipList`, `ReceiveList`, `ConfirmImports` | `run()` from one await to the next, with `pending`, `markSending`, `commit`, `acknowledge`, `receive`, `list`, `confirmImports` |
| `Fail` | any await of `run()` rejects; a request already sent may still be applied later (`Deliver`) |
| `Reload` | the page is reloaded, `captureWorking` / `restoreWorking` carry the open Project over |
| `Deliver`, `Tick` | the network and the clock |

`Commit` is one step because a Firestore transaction is: its reads are
preconditions of its writes, and the Rules are evaluated in it. The two
separate points of time (reading on the client, applying on the server) come
apart when the sender gives up, and that is what `Fail` and `Deliver` model.

Abstractions. The record of a Project (checkpoint, draft, Last Calculation) is
the token of its last change and whether it has a checkpoint. Devices and
server share one clock. The subscription's callback coincides with the commit:
a late callback is a late run. `write` reads the row and writes it in one
transaction; loading a Project reads and opens it in one step. A run that
finds nothing to do is left out. Rows without sync metadata (older than
Account Sync) are not represented. The tests of the account's generation in
the Rules belong to `AccountLifecycle`.

### Account lifecycle

State. `record` is the account document of one Google identity, `docs[g]` the
Project documents of its generation `g`, `issued` the ids issued so far;
`cache[d]`, `dbs[d]`, `anon[d]`, `signed[d]` are the cached id (possibly
retired), the local databases, the owner of the anonymous original and the
sign-in that Firebase persists on device `d`; `tab[t]` is the provider's
published state with the progress of its one asynchronous call, which is an
account check (`check`, `register` after an explicit login, `after` a failed
deletion) or a deletion; `late` are removals that a superseded call still
performs. `disowned` is a history variable: the generations whose deletion
passed the server gate on a device.

A call ends one step wherever the code awaits the server or the removal of a
database. `ServerRead`, `Outage`, `Create`, `Got`, `Clean`, `Inactive`,
`Succeed` and `Finish` are `currentAccount`; `DeleteAccount`, `DeleteRead`,
`Mark`, `Disown`, `Drain`, `Batch`, `DeleteLocal`, `Complete` and `Forget` are
`deleteAccount` with `deleteCurrentAccount`; `Refresh`, `SignIn`, `SignOut`,
`Follow`, `Reload`, `Boundary` and `Interrupted` are the events that start, supersede
or break them; `Store`, `Claim` and `Upload` are what an open context does to the
state the deletion removes. Every server transaction may take effect and lose
its reply.

Abstractions. One Google identity: the switch to another one is not modelled. The
first id is deterministic, later ones are fresh. Session storage and map
preferences are removed with the database and not told apart from it. A
refused removal of a database either happens at once or not at all. The failure
to persist a sign-out and `retainAuthDuringOutage` are left out.

### The server

**Calculation jobs.** `Admit` is `submit` under the lock, `HandOver` what it does
after leaving it; `StartJob`, `ReportProgress`, `EndJob` and `ReleasePermit` are
`_run` and what it calls, cut where the lock is left; pruning is part of
every action whose code prunes; `ShutdownJobs` is `shutdown`. Ids are numbered in
order of creation, `finished` keeps the order of the ends, so no clock is needed.

**Forecast backup.** `ledger` is the SQLite table; `handing`, `waiting` and
`computing` are what the process holds and a `Restart` forgets. `SubmitNew` and
`SubmitAgain` are `submit` for an unknown and a known id, with the retention of
other rows; `Poll` is `get`, with the repair of a row that nobody works at;
`Hand`, `Run`, `Finish` the executor; `Tick` the clock. Time has three periods
that keep their order (skew, request, retention). Admissions per address,
capability tokens and the limits of the subprocess are left out.

**Legacy migration.** `link`, `receipts` and Legacy's files are durable, `stage`
is where the step is that holds the owner's lock. `Step` stands for the stages of
`step()` between its effects; each of them may fail, lose its answer, or be the last
thing its process did. Another operation of Legacy mode checks the link, works and
returns (`LegacyEnter`, `LegacyWrite`, `LegacyLeave`) while it holds the owner's lock
(`legacy_migration.py:66-90`, `119`), so that a step and it exclude each other (`LockFree`);
`ForeignEdit` is the writer that does not wait. The lock is one of threads, and the
rules of `docs/legacy_migration.md:26-27` are assumed: one server process at a time, a dead one
followed by another. Two processes side by side, between whose check and write
the other could move the owner, are not modelled. HTTP routes and the browser
that drives the steps are left out.

**Local runtime.** `Synchronise` moves the source, the updater builds, promotes
(two links) and collects; `Connect` is a request that reads the link once;
`Kill` takes effect between any two writes.

**Web sessions.** The table of sessions and the order of use are two
variables under a lock of their own, a session's memory is `mem`, the owner's
durable Projects are `store`. A calculation is two steps (`Calculate`,
`FinishCalculation` or `CalculationRaises`), so that everything another request
may do comes in between. `writeFaults` bounds writes that raise. An input stands
for everything the two fingerprints cover. RJFM inputs, translation of
requests and sign-in are left out.

**Destination TAF.** A calculation (`Callers`) joins or starts the download of its
airport, waits for a limited time and repeats itself until the wind it used is
that of its arrival. Slots, the downloads under way and their ends are separate,
because a wait ends before its download does.

### What outlives a process

**Owner storage.** Each operation is a program of atomic file replacements, held in
`op`; `Raise` and `Crash` stop it between any two, `Rot` makes a file
unreadable. A copy of a Project is its revision.

**Static publication.** A publisher (operator, application workflow, feed workflow)
is a stage and what it read; `Land` makes the effect of a command that raised come
true later. The operator holds no lease. A build is its commit and the newest Run
of its feed.

**Trigger gate.** Requests become workflow runs in one concurrency group; the one
that holds it reads the history, the active runs and decides in separate steps,
twice. A unit of time is 90 minutes.

### Planning

**Forecast selection, local calculation.** `ForecastSelection` holds the pure
choice of model and Run from what is known of each; `LocalCalculation` repeats it
with growing evidence, asks the backup server, adopts its answer for unchanged
input only and lets any later operation overtake it. An overtaken operation does
not stop where it is: its own outcome, when the replay succeeds, is kept and saved as if nothing
had happened (`localApplication.ts:125`, `178`), while a result of the backup server that comes
too late is dropped.

**Readiness.** A fingerprint is the record of the fields it covers; an altitude
stands for everything a pilot reviews, crew names and the arrival plan for the issues the Project
raises itself, the data of a release for its tables and verified airports. The
two switches of the service are constants: the program sets both to false
(`facade.py:279-280`), so that it asks neither for names nor for a review; the
constructor's defaults ask for both. `UpdatePlan` is `update_project` with its confirmation,
`EditRoute` the confirmation of another route, which may drop the arrival plan and
keeps the last outcome. The rounding of numbers is left out.

**Flight profile, NAV LOG display.** Distances, times and fuel are integers in
units chosen so that each rounding of the code has cases above, below and
on its boundary; the offsets of nodes are constants of a flight. Interpolation,
geodesy and the fuel plan are left out; the numbers the profile depends on are
enumerated.

**RJFM route.** `Normalized` is the two policies in the order the facade calls them;
an edit is one of the facade's operations followed by it. A place is a point within
the tolerance of a reference point. Check points, names and the drawn guidance
(geometry of one airport's charts, covered by golden tests) are left out.

**KML routes.** From members of a KMZ to a route: the choice of a document, joins,
deduplication, candidates, and the five passes that give names. Coordinates lie
on a track, which keeps equality and distance.

## Runs

Deadlock is not checked in any run: the edits, faults, generations and clocks are
bounded and the system rightly stops when they are spent; where it must not stop
early a liveness property says so.

| Run | Instance | Question | Result |
|---|---|---|---|
| `sync_conflicts` | 2 Projects, 2 devices of one tab, 4 versions of the first Project and its copy | Are conflicts resolved without losing or silently replacing an edit, and does "both" publish the copy with the original? | holds, 1.4 M states (up to symmetry) |
| `sync_faults` | 1 Project, 2 devices, 3 versions, 1 fault, the clock past one deadline | Do lost requests and replies, reloads and deadlines keep the ledger; are acknowledgements recognised; which refusals are possible; does everything settle? | holds, 0.85 M states |
| `sync_tabs` | 1 Project, two tabs on one device and one on another, 3 versions | Do the row metadata survive two controllers on the same rows? | holds, 0.76 M states |
| `sync_import` | 2 Projects, an anonymous Latest on one device, the account's own in the documents | Is a staged Latest kept apart until its owner decides? | holds, 0.18 M states |
| `sync_tabs_overwrite` | two tabs on one device | `NoSilentOverwrite` | violated (finding) |
| `life_device` | 1 device, 3 generations, 2 documents removed one at a time | Is the account marked deleted only after its local copies are gone? | holds, 15 k states |
| `life_devices` | 2 devices, 2 generations | Is a given-up generation opened again; is a live copy removed? | holds, 1.4 M states (up to symmetry) |
| `life_tabs` | two tabs on one device, 2 generations | Does a deletion leave documents behind while a second tab works or signs out? | holds, 2.2 M states (up to symmetry) |
| `server` | queue: 3 sessions, 4 jobs, 1 worker, 1 waiting; backup: 2 requests, 2 jobs, 1 restart, 7 ticks; move: 2 records, 2 texts, batches of 1, 1 edit on each side, 1 fault, and 1 record with 3 Legacy edits and 3 faults; container: 5 releases, 2 commits, 1 failure, 1 kill | Do the books agree and does all work end? | holds, 0.51 M states |
| `web` | sessions: 2 Projects, 2 tokens, 1 remembered session, 3 requests, 2 failing writes, 2 Runs; TAF: 2 calculations, 2 airports, 1 slot, 2 downloads | Is what is kept of a calculation what was computed, and its wind that of its arrival? | holds, 1.9 M states (up to symmetry) |
| `durable` | files: 2 Projects, 2 revisions, 2 faults, 1 unreadable file; site: 3 commits, 2 deployments, 2 attempts, 1 lost answer; gate: 3 workflow runs, 1 request id, day of 2 units, 1 request a day | Does anything vanish, hide, or go out unapproved? | holds, 3.5 M states |
| `planning` | calculation: 2 drafts, 2 Runs, 2 operations; readiness: 2 altitudes, 2 releases, 1 acknowledgement, the program's switches; flights and logs of 3 and 4 sections; routes of up to 6 points under 2 edits; files of up to 3 members and 4 geometries | Is what is shown what was calculated, for what was asked? | holds, 1.3 M states |

The four composed runs play one component per behaviour (the variable `part`), as
the components share no state: this keeps the sum, not the product, of their state
spaces, and leaves each component's interleavings whole.

### Why the bounds are enough for the cases of interest

- *Sync.* Two devices are needed for a conflict and suffice: a row meets one remote
  value at a time. Three versions allow an acknowledged base, a concurrent version
  and an edit made while one is in flight; the fourth in `sync_conflicts` is the
  resolution, and `CopyOnly` gives the second Project one version, which makes it the
  copy. One fault separates any request from its reply. The clock passes one deadline
  (`UndoWindow` = 1, `MaxNow` = 2), so every step falls before, at and after it.
- *Lifecycle.* Two generations show an account after its deletion, the third a
  deletion of a later generation, whose id is not derived from the Google subject.
  One late removal (`MaxLate`) lets a superseded call act in a later state.
- *Server.* Four jobs of three sessions fill the worker and the queue and force a
  pruning; the backup's horizon passes skew, deadline and retention in each order; two
  records make a step and its successor; a single one with three edits is moved,
  deleted and brought back, and its three faults interrupt the move before, between and after (part `again`); three releases more than are kept make a collection.
- *Web.* One remembered session makes every second one evict; three requests are a
  calculation with one before and one inside it, or a click, an edit and a click.
- *Durable.* Two revisions distinguish newer from older; two faults are a failed write
  and the crash of its repair. Three commits are one approved, one approvable and one
  of another contract; publications start from the approved commit `c1`, which is not
  released again. The gate's day is shorter than the time that passes, so that
  its windows slide, and one request fills it.
- *Planning.* Forecasts differ by a catalog of one or two Runs for each model; to keep the run
  small, the GSM catalog starts with its first Run, both models see the same flight time and
  the second Run reaches far or not at all, which the component treats alike. Four sections
  allow two zones of each phase. Two edits of a route include every pair of
  operations, with a normalization after each.
- *Readiness.* Two altitudes are the default and another. The first release is not
  validated, so its outcome, kept over the upgrade, must not become ready in the second.
  An acknowledgement kept from before a recalculation leaves no room for another, and one of two warnings
  with one code must not stand for both; that two are acknowledged is covered by the proof only.
- Symmetry exchanges what the definitions treat alike (devices with their tabs; Projects;
  threads), in runs without liveness only.

### Fairness

- `AccountSync`: weak fairness of each tab's controller and of the clock. The
  controller's `finally` schedules the next run after every end of a run, by a timer,
  the `online` event or a change (`accountSyncController.ts:106-110`), and an await
  settles, with a result or, by the time-outs, an error. None of the user, reloads or
  orphaned requests.
- `CalculationJobs`: the request thread that admitted a job hands it over, the
  pool starts what waits, a calculation ends, its worker returns the permit.
- `ForecastBackup`: the clock, and a client that polls; nothing is assumed of the
  executor, since the answer has to come also when a computation does not.
- `LegacyMigration`: the browser goes on asking for steps (`Begin`, `StepEnter`), a
  step under way proceeds, and a Legacy operation that has the lock returns.
- `LocalRuntime`: the updater's loop, the web process and the clock of the next attempt.
- All others state no liveness: a failed deletion, an interrupted publication or a blocked
  calculation is resumed when somebody asks for it, so nothing in the code makes it happen.

## What the checks show

**Account.** Within the bounds, with one tab on each device, Account Sync keeps
`NoLostEdit`, `NoSilentOverwrite`, `CopyPublishedWithOriginal`, `ConflictIsForeign`
and `ConvergesOrStranded`; `RowsConsistent` and `AckNeverRegresses` with two tabs
too, where nothing is imported. `RefusedOnlyForDeadline`: a group that passes the client's compare-and-swap is
refused by the Rules only when a Project is deleted again with a new deadline before
the Undo of the first deletion was uploaded. The lifecycle's `Drained` holds for
any number of tabs and devices (proved); `NotReopened` and `ErasesOnlyDead` with one
tab on each device, `MarkedAfterErased` on a single device with a single tab.

**Server.** No permit is lost and no job dropped, whatever is pruned meanwhile; a
request is computed at most once while its client may still repeat it; what Legacy had
last is in the account when the move ends and an edit made there is kept; the link is
never to an incomplete release. Jobs, polls, moves and the delivery of the last
commit end. A move does not end when a Project comes back in Legacy after its deletion
was carried out in the account: its receipt is the tombstone's and the step refuses
(`legacy_migration.py:316-321`); `MigrationCompletes` exempts it (`BackAfterRetirement`).

**Web and durable.** A session's outcome is that of the input it names, however it
was evicted, invalidated or its writes failed; completed saves are found again. A saved
Project is not safe from the cleanup, though: when its only checkpoint cannot be read,
the Project counts as a mere draft and is deleted once another draft supersedes it
(`local.py:309-324`, `374-386`). `OnlySupersededVanish` names this case. Three
publishers without a common lock upload only over a site they looked at.

**Planning.** A calculation takes its own outcome, or the backup server's, as a whole or
leaves input, pinned Run and last result as they were (`EndsWholeOrUntouched`); an
operation that overtakes it does not undo an outcome the worker completes. A NAV LOG that may be copied was
computed by the running release from the values and the arrival plan the draft
has, and its warnings were acknowledged for that computation (`ReadyIsJustified`). With the
program's switches this is all: neither names nor a review are asked for. A service that asks for them is
not let through by a review of other defaults or tables: this is proved, and in no run. The other
properties are stated over values a reader of the paper or of the screen has, not over the pass that made them.

### Beyond the bounds

Four properties of `AccountSync` are true of the stated instances only. With several
tabs on a device, or more edits, they fail, the first two in runs of TLC along the steps described, the
others by analysis of the model:

- `AckNeverRegresses`: a device with an anonymous Latest and two tabs. One tab has it loaded as
  staged when the other releases and commits it; the commit is answered late, the first tab acknowledges the
  retry, receives another device's edit and saves what it has loaded, which is staged again on base 0
  with a conflict; now the late acknowledgement moves the base to 1 and clears the conflict
  (`accountProjectRepository.ts:302-305`), and keeping the import starts the row over on base 0
  (`219-224`). The next commit clashes, so the conflict comes back. With one tab on each device it
  is proved.

- `ConflictIsForeign`: the reply to a commit of a "both" resolution is lost, another device
  edits the original, and the retry clashes on the original only. The copy is then still
  dirty with base 0 on the device although committed; resolved with "both" again it is
  staged anew under its own id and conflicts with its own committed content
  (`accountProjectRepository.ts:314-322`). It needs five versions of the original and a fault.
- `RefusedOnlyForDeadline`: three tabs of one device, one of them with a group it read
  before the others' acknowledgement. With one tab on each device it is proved.
- `NoLostEdit` names the history of a version through its own Project; with three devices
  a copy can be adopted from a tombstone that saw more than its own.

### Divergences from documents and comments

The run `sync_tabs_overwrite` is kept as a finding. While modelling, the following were met
as well; the models have the behaviour and the properties are stated so that they do
not deny it:

- An Undo that misses its deadline stays dirty without a conflict
  (`accountProjectRepository.ts:275`; `docs/account_sync.md:47-48`, `73-74`, `98`).
- Delete a Latest, write another, undo the delete: two usable ones
  (`accountProjectRepository.ts:183`; `docs/local_persistence.md:38`).
- A deletion that fails because the account was deleted elsewhere leaves the context open
  (`firebaseAuthProvider.ts:223`; `docs/account_deletion.md:19-21`).
- A second tab's answer from before a deletion and re-registration removes the
  database of the new generation (`accountLifecycle.ts:78`).
- A reload pairs the draft of a blocked calculation with the older record and shows
  the old NAV LOG as current (`facade.py:1640`; `docs/architecture.md:51-52`).
- A Project saved once, whose `project.json` becomes unreadable before there is a backup, is
  autosaved, becomes the Latest, and is deleted when another route is made
  (`storage/local.py:309-324`, `374-386`); "Project削除は明示操作だけで" says
  `docs/architecture.md:59`, and 33-34 except only what was never saved. `OnlySupersededVanish`
  allows it and nothing else.
- The cleanup of the storage deletes the Project just selected when it is still pending
  (`storage/local.py:397`; comment at 649-650).
- RJFM: a section leaving the departure span can keep 4500 ft
  (`rjfm_departure_plan.py:124-129`; comment at 81-83); deleting the only OMARU of
  RJFM-OMARU-RJFM captures the generated 5500 ft as the original; the mark of ARITA stays after the
  pilot deletes the generated point; the share of a split manual distance stays when
  the two halves do not meet again.
- KML: a title name moved along the line overwrites the label of a Point
  (`facade.py:2655-2674`), and may repeat on an earlier coordinate; the preview of a
  closed line counts one vertex more than is installed (`kml.py:949-950`).
- The gate's cap on the attempts at a forecast Run is said not to reset with the day
  (`external_trigger_gate.py:298`), but the history is read only as far back as the day, the request or the
  Run begins (`external_trigger_gate.py:265-268`): a request held up for longer is not counted by one
  that overtook it. `GateSound` states the cap for the requests of that window.
- A calculation cut off at its third repetition may show a wind for another arrival
  time than its own; `DestinationWindSound` says what time it is shown for.

## Proofs

TLAPS checks every proof module completely. What the proofs assume is what the
modules declare (`ASSUME`): a tab belongs to a device, bounds are numbers, a value
that stands for absence is none of the values it is the absence of, the seed names
known Projects and devices, capacities are not zero. The bounds of the runs do not
appear: any number of Projects, devices, tabs, versions, documents, generations,
jobs, publishers and faults is covered. Each theorem that an invariant always holds
comes from an inductive invariant (`IInv`, or named for its component), which adds what the stated property needs to
be preserved by every action; each action has a step or a lemma of its own.

**`AccountSyncProofs`.** `IInv` is `TypeOK` and `Known`, which says that no version is
named in a document, row, loaded row, request or reply before it was written. `TypeOK`
alone is not inductive: a new version takes over the history of the version it builds
on, and nothing is known of the history of a version that was never written.
`LedgerImplemented` proves `Spec => ImplementsLedger`: the initial documents are an
initial ledger; a commit and a late delivery publish, because `Applies` makes the Rules
hold of every written document and the Rules imply what the ledger asks of a
follower (`AllowedFollows`); `Tick` lets time pass; every other step leaves documents and
clock alone. It rests on the Rules and on no property of the clients: whatever a
client sends, the documents stay a ledger.
`NothingOverwrittenUnseen` proves `Spec => NoSilentOverwrite` where every device has one tab
(`OneTabPerDevice`); `sync_tabs_overwrite` shows that it does not hold with two. The Rules only
compare a write with the version its author names as the base, so the theorem is about
the clients: what they send must build on that base. The invariant `Built` says that of
every row, loaded row, queued operation and request on the wire (`Builds`, `Descends`), and of a
row whose operation is in flight that it is still dirty, free of conflicts and, if its base has
not moved, builds on that operation (`Pinned`). `Pinned` is what makes an acknowledgement safe:
it moves the base to a version the row builds on. Users' edits keep it because they only add
to a row (`Continues`): a save raises a conflict on a clean row only, and to resolve one there must be one. Another
controller working on the same rows could break it, which is where the assumption is used
(`ControllerBuilt`).

**`SyncRevisionProofs`.** `RowsStayConsistent`, `AcknowledgedForGood` and
`RulesAgreeWithClient`: `RowsConsistent`, `AckNeverRegresses` and `RefusedOnlyForDeadline`
where every device has one tab. The code never compares a version together with its
revision: `receive` asks whether a revision is newer and then recognises its own by version, `acknowledge`
and `markSending` look at versions only. That this is enough follows from what no variable
holds: which version was committed as a Project's n-th revision, and as which revision
a version was first offered. The proof carries both in a register `W` whose existence
is the invariant (`Registered`); a step shows a register for the next state.
`Entered(W)` says of every row, loaded row, batch, reply and request that it agrees with
`W`: a base and its revision are a committed pair (`Acked`), an operation has the number it
was offered under and follows its base (`OfferKept`), a version that was offered is the one its row has pinned
(`OfferedKept`), and one that was not is in no other device's row (`Private`). The register
is extended in two steps only: the start of a run numbers the versions of the outbox (`SealEntered`), and a
transaction that the server applies enters its writes as the next revisions
(`AppliedKept`). All other steps leave it alone. `AllSettled` is why an acknowledgement does not hit a
newer offer on the same base, `LoadBehind` why a save under a stale loaded row conflicts with something newer. Both
are about a tab and the rows it shares with no other tab, which is where the assumption is used.

**`AccountLifecycleProofs`.** `Drained` needs to know why no document can appear after the
drain. The invariant adds to `TypeOK`: the record's id is the last one issued and the
caches name issued ids only (`Numbered`, `CachesKnown`); what a tab holds is consistent
with its place in its call (`Sound`); past the server gate the tab's account is not one
the Rules accept writes for (`Gated`); and past the drain it has no documents
(`Emptied`). `Gated` is stable because generations are never reused and a record never
goes back to `ACTIVE`, and it makes `Emptied` stable because an upload is a step the Rules
must accept.

**`WorkerProofs`.** *Queue.* `BooksAgree`: permits are not lost or returned twice, every
worker finds its job, a session has one job under way. The invariant places every job in
exactly one of the hands of the request thread, the executor, a worker or the history
(`OnePlace`), keeps those under way in the table (`Listed`) and counts permits as the
capacity less what is held (`PermitsBalanced`).

*Destination TAF.* `WindsSound`: slots are counted by the downloads that hold them,
an airport's entry is the one download under way, and what a waiting calculation holds
is an answer that the service gave; so a wind that is shown was prevailing in such an
answer at the time it is shown for.

**`WebSessionsProofs`.** `WorkIsConsistent`, `RefreshOnSecondClick` and `WorkDurableFirst`, from one
invariant. Tokens are issued in order, so an evicted session, which lives on in its threads,
is never mistaken for a new one (`TokensOK`); the order of use has no token twice (`OrderOK`), which is what
lets a removal find it; a calculation under way has a Project (`RunningOK`), although others
evict, log out or restart meanwhile; the store files everything under its own id (`StoreOK`).
`IntentOK` is why a refresh is a second click: an intent names the inputs the session has and
the mode it was announced in. It survives every request because each ends in
`_present_unlocked`, which drops an intent that fits no longer (`CommitKeeps`).

**`DurableProofs`.** *Owner's files.* `SavesNotShadowed` and `OnlySupersededVanishes` hold between any two
writes. The invariant says of every kind of operation what its files look like at
each of its steps, that an announced deletion is of a Project that was never saved or of which
nothing saved can be read, that where there is no checkpoint there is no backup, and that the
newest revision of a Project is the one its files give.
*Publication.* `OpenServesApproved` and `UploadsCurrent`: for each stage of a
publisher, what it holds about automation, workflows, approved commit and lease, also
while commands raise after they took effect and effects arrive late (`WorkOK`).

**`ServerProofs`.** *Backup ledger.* `OneComputation`: what keeps a request from being
computed twice is its row, and the retention may remove the row; the invariant says that a
row was made within the skew of its request (`RowsDated`) and that a request the process
holds or has computed is either in the ledger or too old to be let in (`KnownOrOld`).
`BackupAssumption` has what this needs of the periods. *Container.* `ServedStaysUsable`: at each point
of an attempt the links it has not moved yet name complete releases, and the one it
promotes is complete (`AttemptSound`); a request holds a release one of the links still
names (`ConnectionLinked`), so collection spares it. *Move.* `MoveLosesNothing` and
`MoveKeepsForeignEdits`: a
step works only on an owner that is being moved, a Legacy operation only while no step does (`Locked`, `Held`), and a step carries texts Legacy once
held (`Carried`); the account's documents have been published (`RemotePublished`); the plan lists
what Legacy holds and retires the rest (`PlanSound`, by lemmas on the sequence of a set),
and a verified plan has been in the account (`Verified`); all texts are Legacy's (`TextsHeld`).
`RecordsAssumption` says that the records are finitely many and `NoDocAssumption` that no
document is the absence of one.

**`DecisionProofs`.** *Gate.* `BudgetKept` says that three reads made one after the other
suffice: one run holds the group (`OneHolder`), runs are in the order of their creation
(`CreatedInOrder`), and everything the decision has to count was created before the read
that counts it (`EvidenceCovers`); a request that arrives later sees the one that was let through. Requests
leave a window and never come back, so each limit can only be passed by the request just
decided, which counted all the others.
*Readiness.* `ReadyOnlyWhenJustified`: the plan names the computation its outcome came from
(`OutcomeNamed`) and the status kept with it is the one the outcome deserves (`StatusCurrent`).
Both hold for either setting of the switches, and `ReadyOnlyWhenReviewed` says what is
gained where they are on. *Calculation in the
browser.* `PartialEvidenceSuffices`: a decision that asks for nothing more is unchanged by
any further evidence. Each operator of `ForecastSelection` has a lemma that says what it asks
for and one that it is settled once that is known (`LatestSettled`, `PinnedMsmSettled`,
...); that a newest Run exists is by well-foundedness of the naturals.
`PinnedRunKept` and `CalculationsEndWhole` are action properties from `LocalInv`: an operation
in progress knows the session it began with, and a result it adopted is whole
(`SessionKept`); at its end it either keeps what it has or puts back that session.
`NothingAssumption` and `LocalAssumption` say that
a value for absence is none of those it is the absence of.

**Only model-checked.** Liveness (the prover has no rule for fairness and ENABLED
within reach) and the following. Of Account Sync, `NoLostEdit`, `CopyPublishedWithOriginal`, `ConflictIsForeign` and
`OneLatest`, and `RowsConsistent` with two tabs on a device; of the lifecycle, `NotReopened`, `ErasesOnlyDead` and `MarkedAfterErased`
(several of these are false in general and can only be proved of restricted instances);
of flight
planning, `ProfileIsFlown`, `LogReadsTrue`, `RouteIsSettled` and
`ImportIsFaithful`, whose models compute with recursive definitions over a route or a file.

## Not modelled

- A device clock ahead of the server's (a delete is then refused until the
  server catches up): every deadline would need two clocks.
- Two Latest of one device in the documents, and a staged import whose collision
  disappears after the controller's first run. The model has the steps, no run asks.
- **Anonymous device repository**: the same transactions as Account Sync's for rows
  without an account; its two-transaction claim is the one thing of its own.
- **MSM trigger** and **TAF proxy**: two workers outside the Python and browser programs, of a
  dispatch with a cool-down and a map of joined requests.
- **Reference data**: parsing and validation of files, no state.
- **User interface**: React views. What they call is modelled as steps of the user.
- Of the modelled components, the parts named above as left out; the numbers of
  the flight calculation (interpolation, geodesy, performance tables) are reals and tables
  that TLC cannot enumerate, without state between calls, and have reference values in `tests/`.

## Plan

| Step | Content | State |
|---|---|---|
| 1 | Account Sync and its ledger, account lifecycle | modelled, checked, partly proved |
| 2 | server, web, durable and planning components | modelled, checked |
| 3 | theorems of jobs, TAF, storage, publication | proved |
| 4 | theorems of backup, move, container, gate, readiness, calculation in the browser | proved |
| 5 | `NoSilentOverwrite` for one tab per device | proved |
| 6 | theorems of the sessions of the facade | proved |
| 7 | `RowsConsistent`, `AckNeverRegresses`, `RefusedOnlyForDeadline` for one tab per device | proved |
| 8 | anonymous repository with its claim, the two services | open |

Every module states its bounds as constants with named assumptions; the ones that are
proved about use no recursive operator.
