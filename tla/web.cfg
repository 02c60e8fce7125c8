SPECIFICATION MCSpec
CONSTANTS
  p1 = p1 p2 = p2
  WebProjects = {p1, p2}
  Inputs = {"a", "f"}
  FtdInputs = {"f"}
  MaximumSessions = 1
  MaxTokens = 2
  MaxRun = 2
  MaxSaves = 1
  MaxRequests = 3
  MaxWriteFaults = 2
  Nothing = Nothing
  k1 = k1 k2 = k2
  Callers = {k1, k2}
  TafAirports = {"RJFM", "RJOM"}
  Arrivals = {1, 3}
  MaxSlots = 1
  CacheTtl = 1
  MaxFetches = 2
  MaxTafClock = 1
  NoTime = NoTime
  NoWind = NoWind
  NoFetch = NoFetch
  Responses <- MCResponses
SYMMETRY Alike
CHECK_DEADLOCK FALSE
INVARIANT WebConsistent
INVARIANT DestinationWindSound
PROPERTY RefreshIsSecondClick
PROPERTY DurableFirst
