SPECIFICATION ServerSpec
CONSTANTS
  s1 = s1 s2 = s2 s3 = s3
  r1 = r1 r2 = r2 b1 = b1 b2 = b2
  l1 = l1 l2 = l2 x1 = x1 x2 = x2 NoDoc = NoDoc
  JobSessions = {s1, s2, s3}
  JobLimit = 4
  Workers = 1
  MaximumQueued = 1
  Reports = {20, 60}
  Requests = {r1, r2}
  Digests = {b1, b2}
  Skew = 1
  RequestTime = 2
  RetentionTime = 4
  MaximumJobs = 2
  BackupWorkers = 1
  MaxRunning = 1
  Horizon = 7
  MaxRestarts = 1
  Records = {l1, l2}
  Texts = {x1, x2}
  BatchSize = 1
  MaxLegacyEdits = 1
  MaxForeignEdits = 1
  MaxMigrationFaults = 1
  d1 = d1 d2 = d2 d3 = d3 d4 = d4 d5 = d5
  NoRelease = NoRelease
  Releases = {d1, d2, d3, d4, d5}
  Heads = {1, 2}
  MaxFailures = 1
  MaxKills = 1
CHECK_DEADLOCK FALSE
INVARIANT QueueConsistent
INVARIANT ComputedOnce
INVARIANT MoveIsComplete
INVARIANT ServedIsUsable
PROPERTY JobsEnd
PROPERTY PollEnds
PROPERTY ForeignEditsKept
PROPERTY MigrationCompletes
PROPERTY LastHeadServed
