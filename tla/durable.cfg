SPECIFICATION DurableSpec
CONSTANTS
  p1 = p1 p2 = p2 c1 = c1 c2 = c2 c3 = c3 k1 = k1 k2 = k2 q1 = q1
  Projects = {p1, p2}
  None = None
  Corrupt = Corrupt
  MaxRevision = 2
  MaxFaults = 2
  MaxRot = 1
  Commits = {c1, c2, c3}
  Version <- PubVersion
  Contract <- PubContract
  Reviewed <- PubReviewed
  MaxUpstream = 2
  MaxDeployments = 2
  MaxAttempts = 2
  MaxSiteFaults = 1
  Absent = Absent
  RequestIds = {q1}
  Cooldown = 1
  DailyLimit = 1
  PerRunLimit = 1
  DayLength = 2
  RunLength = 2
  MaxWorkflowRuns = 3
  MaxClock = 3
CHECK_DEADLOCK FALSE
INVARIANT SaveNotShadowed
INVARIANT OpenMeansApproved
INVARIANT GateSound
PROPERTY OnlySupersededVanish
PROPERTY UploadsAreCurrent
