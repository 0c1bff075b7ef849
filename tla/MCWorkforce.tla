----------------------------- MODULE MCWorkforce -----------------------------
(* Workforce for TLC: an agent that is employed and one that is not, and the  *)
(* requests whose order matters.                                              *)
EXTENDS Workforce, TLC

CONSTANTS a1, a2, r1, r2, k1, q1, q2, e1, e2, t1, v1, u1

MCEvidence == <<e1, e2>>
MCAttributions == <<t1>>
MCEvaluations == <<v1>>

Qualify(q, status, effective, expires) ==
  [ action |-> "qualification.create", id |-> q, agent |-> a1, capability |-> k1,
    status |-> status, effective |-> effective, expires |-> expires ]

Saw(e, observation, selfReport) ==
  [ action |-> "evidence.record", id |-> e, agent |-> a1, subject |-> u1, policy |-> ~selfReport,
    observation |-> observation, attribution |-> None, selfReport |-> selfReport ]

Blame(cause, support) ==
  [ action |-> "attribution.record", id |-> t1, agent |-> a1, subject |-> u1,
    cause |-> cause, support |-> support ]

MCRequests ==
  { [action |-> "record.create", id |-> a2, lifecycle |-> "CANDIDATE", role |-> r1],
    [action |-> "lifecycle.change", id |-> a1, lifecycle |-> "RETIRED", expected |-> 1],
    [action |-> "lifecycle.change", id |-> a1, lifecycle |-> "ACTIVE", expected |-> 2],
    [action |-> "role.change", id |-> a1, role |-> r2, expected |-> 2],
    Qualify(q1, "QUALIFIED", None, Never), Qualify(q2, "LIMITED", 0, 1),
    [action |-> "qualification.change", id |-> q1, status |-> None, expires |-> 1, expected |-> 1],
    Saw(e1, "FAIL", FALSE), Saw(e2, "CONCERN", TRUE),
    Blame("EMPLOYEE", {e1}), Blame("EMPLOYEE", {e2}), Blame("TOOL", {e1}),
    [action |-> "agentops.evaluate", id |-> v1, agent |-> a1] }

MCSymmetry == Permutations(Services)
=============================================================================
