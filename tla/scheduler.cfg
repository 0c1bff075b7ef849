\* Every caller, every order, any clock: two evaluations, two reservations,
\* one confirmation in flight.
SPECIFICATION SchedSpec
CONSTANTS
  qx = qx
  qy = qy
  x = x
  y = y
  Jobs = {j1, j2}
  Resources = {x, y}
  Requirements = {qx, qy}
  ResourceOf <- MCResourceOf
  Evaluations = {e1, e2}
  Reservations = {r1, r2}
  Callers = {c1}
  None = None
  Lease = 2
  MaxTime = 4
SYMMETRY Symmetry
INVARIANTS
  SchedTypeOK
  OneOwnerPerResource
  LiveLeaseKeepsIssuance
  IssuanceBacksOne
PROPERTIES
  EndedReservationFinal
  GrantTraceable
CHECK_DEADLOCK FALSE
