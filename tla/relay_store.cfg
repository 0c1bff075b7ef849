\* Any client, any call, any order, on two jobs.
SPECIFICATION StoreSpec
SYMMETRY KeySymmetry
CONSTANTS
  Jobs = {j1, j2}
  Executions = {e1, e2, e3}
  NoExecution = NoExecution
  Namespaces = {n1, n2}
  Fingerprints = {f1, f2}
  NoKey = NoKey
  MaxRevision = 6
INVARIANTS
  StoreTypeOK
  EffectExclusive
  TerminalTruth
  NamespaceOwned
PROPERTIES
  TerminalIsFinal
  VersionStamp
  LifecycleRefined
CHECK_DEADLOCK FALSE
