SPECIFICATION OrgSpec
CONSTANTS
  s1 = s1  s2 = s2  ap = ap  gr = gr  ho = ho  d1 = d1  c1 = c1  c2 = c2
  j1 = j1  w1 = w1  r1 = r1  i1 = i1  x = x  y = y  z = z
  Services = {s1, s2}
  Approvals = {ap}
  Delegations = {gr}
  Holds = {ho}
  Duties <- OneDuty
  Capacities <- TwoCapacities
  Events = {e1}
  HoursIds = {h1, h2}
  Instants = {0, 1}
  EventInputs <- Planned
  HoursInputs <- Weeks
  LocalTime <- Clocks
  MaxWindows = 2
  MaxActiveEvents = 64
  Jobs = {j1}
  Agents = {w1}
  Resources = {r1}
  Incidents = {i1}
  Refs = {x, y}
  IncidentFacts <- Facts
  WorkerFacts <- Workers
  InputStates = {"SURVIVAL", "NORMAL"}
  DutyInputs = {"OFF_DUTY"}
  CapacityInputs = {"NORMAL", "UNAVAILABLE"}
  Requirements <- Works
  None = None
  MaxTime = 1
  MaxChanges = 3
  MaxCauses = 1
SYMMETRY OrgSymmetry
INVARIANTS OrgTypeOK EligibleIsSafe LapsedStaysLapsed
PROPERTY WritesBuildOnLatest
CHECK_DEADLOCK FALSE
