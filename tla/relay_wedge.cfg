\* A model attempt whose context cannot be built.
SPECIFICATION RelaySpec
CONSTANTS
  x = x
  Jobs = {j1}
  Executions = {a1, a2}
  NoExecution = NoExecution
  Namespaces = {n1, n2}
  Fingerprints = {f1}
  NoKey = NoKey
  MaxRevision = 0
  Kinds = {"tool", "model"}
  Resources = {x}
  Requirements = {q1}
  ResourceOf <- MCResourceOf
  None = None
  Lease = 2
  MaxTime = 1
  RequirementOf <- MCRequirementOf
  SchedulerWired = TRUE
  Environment = "simulation"
  ContentOf <- MCContentOf
  Memories <- MCMemories
  MemoryRecord <- MCMemoryRecord
  Listings <- OneListing
  Query <- MCQuery
  MaxItems = 2
  MaxChars = 3
  Routes <- MCRoutes
  Registered = {"A", "B"}
  ProviderResults <- MCProviderResults
  TemplateUnits = 1
  UntrustedOutcomes <- MCUntrustedOutcomes
  Faults = {"memory"}
CHECK_DEADLOCK FALSE
INVARIANTS
  RejectedStartRetriable
