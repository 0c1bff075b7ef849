\* Two service instances, an incident through its whole life, one shared operation id.
SPECIFICATION IncidentSpec
CONSTANTS
  i1 = i1
  i2 = i2
  c1 = c1
  Incidents = {i1, i2}
  Services = {s1, s2}
  Commanders = {c1, c2}
  EvidenceRefs = {v1}
  SharedOps = {o1}
  Reported = {i2}
  Reports <- MCReports
  None = None
  Phases <- MCPhases
  MaxRevision <- MCMaxRevision
  MaxLag = 1
  MaxTransfers = 1
  MaxEvidence = 1
SYMMETRY Symmetry
INVARIANTS
  IncidentTypeOK
  ClosedWasRecovered
PROPERTIES
  BuildsOnLatest
  CommitsKept
CHECK_DEADLOCK FALSE
