\* Three attempts of either kind at one job; leases run out; everything may fail.
SPECIFICATION RelaySpec
CONSTANTS
  x = x
  Jobs = {j1}
  Executions = {a1, a2, a3}
  NoExecution = NoExecution
  Namespaces = {n1, n2}
  Fingerprints = {f1, f2}
  NoKey = NoKey
  MaxRevision = 0
  Kinds = {"tool", "model"}
  Resources = {x}
  Requirements = {q1}
  ResourceOf <- MCResourceOf
  None = None
  Lease = 1
  MaxTime = 1
  RequirementOf <- MCRequirementOf
  SchedulerWired = TRUE
  Environment = "simulation"
  ContentOf <- MCContentOf
  Memories <- MCMemories
  MemoryRecord <- MCMemoryRecord
  Listings <- MCListings
  Query <- MCQuery
  MaxItems = 2
  MaxChars = 3
  Routes <- MCRoutes
  Registered = {"A", "B"}
  ProviderResults <- MCProviderResults
  TemplateUnits = 1
  UntrustedOutcomes <- MCUntrustedOutcomes
  Faults = {"eligibility", "grant", "memory", "claim", "commit", "gateway", "outcome"}
CHECK_DEADLOCK FALSE
SYMMETRY Symmetry
INVARIANTS
  RelayTypeOK
  SingleEffect
  WorkKeepsReservation
  PackagesReleased
  SummaryEarned
