\* Two attempts of either kind at two jobs that need one exclusive resource: leases
\* run out, starts and grants may be refused, the services that are called work.
SPECIFICATION FairRelaySpec
CONSTANTS
  x = x
  Jobs = {j1, j2}
  Executions = {a1, a2}
  NoExecution = NoExecution
  Namespaces = {n1, n2}
  Fingerprints = {f1}
  NoKey = NoKey
  MaxRevision = 0
  Kinds = {"tool", "model"}
  Resources = {x}
  Requirements = {q1}
  ResourceOf <- MCResourceOf
  None = None
  Lease = 1
  MaxTime = 1
  RequirementOf <- MCRequirementOf
  SchedulerWired = TRUE
  Environment = "simulation"
  ContentOf <- MCContentOf
  Memories <- MCMemories
  MemoryRecord <- MCMemoryRecord
  Listings <- OneListing
  Query <- MCQuery
  MaxItems = 2
  MaxChars = 3
  Routes <- MCRoutes
  Registered = {"A", "B"}
  ProviderResults <- MCProviderResults
  TemplateUnits = 1
  UntrustedOutcomes <- MCUntrustedOutcomes
  Faults = {"eligibility", "grant"}
CHECK_DEADLOCK FALSE
INVARIANTS
  ExclusiveWork
  CapacityReturned
  RejectedStartRetriable
PROPERTIES
  RunsFinish
