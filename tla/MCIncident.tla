------------------------------ MODULE MCIncident ------------------------------
(* Incident for TLC: one incident that can be taken through its whole life,  *)
(* and a second one that was reported under the id that the two may share.   *)
EXTENDS Incident, TLC

CONSTANTS i1, i2

CONSTANTS c1

MCReports ==
  { [ class |-> None, fact |-> {"POWER", "THERMAL"}, severity |-> "SEV-1",
      commander |-> c1, evidence |-> {} ] }

MCMaxRevision == [i \in Incidents |-> IF i = i1 THEN 7 ELSE 0]

\* Every phase that has a rule of its own.
MCPhases == NamedPhases

Symmetry == Permutations(Services)
=============================================================================
