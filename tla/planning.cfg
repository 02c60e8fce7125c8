SPECIFICATION PlanningSpec
CONSTANTS
  d1 = d1 d2 = d2
  MaxForecastRun = 2
  Drafts = {d1, d2}
  MaxIssued = 2
  Unread = Unread NoRun = NoRun NoResult = NoResult NoIntent = NoIntent
  NoContext = NoContext NoAction = NoAction
  Altitudes = {0, 1}
  MaxRelease = 1
  Unverified = {0}
  MaxAcks = 1
  RequireCrewIdentification = FALSE RequireDefaultsReview = FALSE
  NoOutcome = NoOutcome NotYet = NotYet
  LegCount = 4
  Flights <- MCFlights
  Snap = 2
  DescentRate = 20
  Deceleration = 8
  MaxIterations = 4
  NavLogs <- MCNavLogs
  Names = {"point", "turn"}
  Missing = Missing
  Places = {"UMK", "OMARU", "ARITA", "point"}
  Airports = {"RJFM", "RJFO"}
  MaxPoints = 6
  MaxEdits = 2
  Absent = Absent
  Uploads <- MCUploads
  Geometries <- MCGeometries
  Path <- MCPath
  Outside = "none"
  AirportAt <- MCAirportAt
  UmkAt = 20000
  OmaruAt = 24000
  MaxFiles = 3 MaxExpanded = 4 MaxCoordinates = 9 MaxSelected = 6 MaxOuter = 4
  MaxGeometries = 4
  NoPoint = NoPoint NoDocument = NoDocument
CHECK_DEADLOCK FALSE
INVARIANT EvidenceSuffices
 
INVARIANT ProfileIsFlown
INVARIANT LogReadsTrue
INVARIANT RouteIsSettled
INVARIANT ImportIsFaithful
PROPERTY PinnedKept
PROPERTY EndsWholeOrUntouched
