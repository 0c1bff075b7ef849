\* Two service instances, three calls of any kind, one shared operation id.
SPECIFICATION WorkforceSpec
CONSTANTS
  a1 = a1  a2 = a2  r1 = r1  r2 = r2  k1 = k1  q1 = q1  q2 = q2
  e1 = e1  e2 = e2  t1 = t1  v1 = v1  u1 = u1
  Services = {s1, s2}
  SharedOps = {o1}
  Agents = {a1, a2}
  Roles = {r1, r2}
  Capabilities = {k1}
  Qualifications = {q1, q2}
  Evidence <- MCEvidence
  Attributions <- MCAttributions
  Evaluations <- MCEvaluations
  Requests <- MCRequests
  Employed = {a1}
  None = None
  MaxTime = 1
  MaxAsked = 3
  MaxTransitions = 1
  WindowLength = 0
  MaxWindow = 2
  FailReview = 2
  ConcernWatch = 3
SYMMETRY MCSymmetry
INVARIANTS
  WorkforceTypeOK
  TruthUnbroken
  BlameSubstantiated
PROPERTY CommitsKept
CHECK_DEADLOCK FALSE
