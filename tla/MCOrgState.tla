------------------------------ MODULE MCOrgState ------------------------------
(***************************************************************************)
(* A small instance of OrgState: ordinary work that needs an approval, and   *)
(* containment work under a delegation that is bound to the incident.        *)
(***************************************************************************)
EXTENDS OrgState

CONSTANTS s1, s2, ap, gr, ho, d1, c1, c2, j1, w1, r1, i1, x, y, z

OneDuty == <<d1>>
TwoCapacities == <<c1, c2>>

Facts ==
  { [class |-> "SECURITY", severity |-> "SEV-1", affected |-> {}],
    [class |-> "POWER", severity |-> "SEV-2", affected |-> {r1}] }

Workers ==
  { [lifecycle |-> "ACTIVE", qualification |-> "QUALIFIED", expires |-> 1],
    [lifecycle |-> "INACTIVE", qualification |-> "QUALIFIED", expires |-> Never] }

Plain ==
  [ job |-> j1, agent |-> w1, authority |-> "ALLOW", approval |-> None, delegation |-> None,
    resource |-> r1, health |-> "HEALTHY", dependency |-> "COMPLETE", safety |-> "ORDINARY",
    incident |-> None, early |-> FALSE ]

Works ==
  { Plain,
    [Plain EXCEPT !.approval = ap],
    [Plain EXCEPT !.delegation = gr, !.safety = "INCIDENT_CONTAINMENT", !.incident = i1] }

Hours(from, to) == [day |-> "MON", from |-> from, to |-> to]

\* Monday, at nine and at six.
Clocks == [zone \in {z} |->
  [t \in 0..1 |-> [day |-> "MON", minute |-> IF t = 0 THEN 540 ELSE 1080]]]

Planned ==
  { [class |-> "COMPANY_HOLIDAY", from |-> 0, to |-> 1],
    [class |-> "MAINTENANCE_WINDOW", from |-> 0, to |-> 2] }

\* Working hours, and windows that overlap.
Weeks ==
  { [zone |-> z, windows |-> {Hours(540, 1020)}],
    [zone |-> z, windows |-> {Hours(540, 1020), Hours(900, 1200)}] }

OrgSymmetry == Permutations(Services)

=============================================================================
