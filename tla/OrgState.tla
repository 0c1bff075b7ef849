------------------------------- MODULE OrgState -------------------------------
(***************************************************************************)
(* OrganizationalStateService: approvals, delegations, holds, duties,       *)
(* capacities and the company state, and the reduction of all of them, with *)
(* the facts of Incident, Calendar and Workforce, to what the Scheduler     *)
(* decides on (evaluateExecutionInputs, then SchedulerService.#decide).     *)
(*                                                                          *)
(* Several instances of the service share one store.  A write reads the     *)
(* current record, makes the next one, and puts it under a revision; the    *)
(* put is a step of its own.  A refused request changes nothing and is no   *)
(* step.  An evaluation is one synchronous stretch, and one step.           *)
(*                                                                          *)
(* The planned operating state is CalendarService's own (CompanyCalendar);  *)
(* the facts of Incident and Workforce are free here.  Jobs, delegations    *)
(* and requirements are of one environment.                                 *)
(***************************************************************************)
EXTENDS CompanyCalendar, FiniteSetsExt, Sequences, SequencesExt

CONSTANTS
  Services, Approvals, Delegations, Holds,
  Duties, Capacities,   \* record ids, as sequences in the order of list()
  Jobs, Agents, Resources, Incidents, Refs,
  IncidentFacts,        \* what an incident may report: [class, severity, affected]
  WorkerFacts,          \* what Workforce may report: [lifecycle, qualification, expires]
  InputStates,          \* the company states that callers of setCompanyState report
  DutyInputs, CapacityInputs,
  Requirements,         \* the execution requirements that are evaluated
  None,                 \* null
  MaxTime,              \* bound on trusted time
  MaxChanges,           \* bound on the writes and the changes of the seams' facts
  MaxCauses             \* at most 8 cause_refs

VARIABLES
  store,     \* the current record of each id
  calls,     \* the write an instance is about to put
  clock,     \* the trusted clock of each instance
  lapsed,    \* the ids an instance's evaluations have seen expired (history)
  incident,  \* Incident: the fact and the status of each incident
  workforce, \* Workforce: the facts of each agent
  down,      \* the seams that throw or answer malformed facts
  changes    \* writes and changes so far

facts   == <<incident, planned, workforce, down>>
orgVars == <<store, calls, clock, lapsed, facts, changes>>

Times == 0..MaxTime
Never == MaxTime + 1   \* expires_at null
Expiry == Times \cup {Never}
NoRevision == -1       \* expectedRevision null
Company == "company-state"
Seams == {"incidents", "calendar", "workforce"}

\* COMPANY_STATE_PRECEDENCE, the worst first.
Precedence ==
  << "SURVIVAL", "SECURITY_INCIDENT", "INFRASTRUCTURE_OR_ENVIRONMENT_INCIDENT",
     "MAINTENANCE", "HOLIDAY", "NIGHT", "NORMAL" >>

DutyStates == {"ON_DUTY", "OFF_DUTY", "ON_CALL", "MAINTENANCE_DUTY", "INCIDENT_DUTY"}
CapacityStates == {"AVAILABLE", "LIGHT", "NORMAL", "HIGH", "SATURATED", "UNAVAILABLE"}

CompanyStates == ToSet(Precedence)
IncidentStates == ToSet(SubSeq(Precedence, 1, 3))
Rank == [state \in CompanyStates |-> CHOOSE k \in DOMAIN Precedence : Precedence[k] = state]

DutyIds == ToSet(Duties)
CapacityIds == ToSet(Capacities)
Ids == Approvals \cup Delegations \cup Holds \cup DutyIds \cup CapacityIds \cup {Company}

\* The store keeps the records of each kind under ids of their own.
Kinds == <<Approvals, Delegations, Holds, DutyIds, CapacityIds, {Company}>>

ASSUME OrgStateAssumption ==
  /\ Times \subseteq Instants
  /\ MaxTime \in Nat /\ MaxChanges \in Nat /\ MaxCauses \in Nat
  /\ IsInjective(Duties) /\ IsInjective(Capacities)
  /\ InputStates \subseteq CompanyStates
  /\ \A j, k \in DOMAIN Kinds : j # k => Kinds[j] \cap Kinds[k] = {}

\* validateIncidentV1, validateWorkforceOperatingFactsV1, validateExecutionRequirementV1.
ASSUME FactsAssumption ==
  /\ \A f \in IncidentFacts :
       /\ f.class \in {"SECURITY", "INFRASTRUCTURE", "POWER", "THERMAL"}
       /\ f.severity \in {"SEV-0", "SEV-1", "SEV-2", "SEV-3"}
       /\ f.affected \subseteq Resources
  /\ \A f \in WorkerFacts :
       /\ f.lifecycle \in {"ABSENT", "CANDIDATE", "ACTIVE", "LIMITED", "RETRAINING",
                           "INACTIVE", "RETIRED"}
       /\ f.expires \in Expiry
  /\ \A q \in Requirements :
       /\ q.agent \in Agents /\ q.early \in BOOLEAN
       /\ q.approval \in Approvals \cup {None} /\ q.delegation \in Delegations \cup {None}

NoRecord == [revision |-> 0]
NoCall == [id |-> None, expected |-> NoRevision, record |-> NoRecord]
NoIncident == [status |-> "ABSENT"]

\* isExpiredAt: at the instant itself it has expired.
ExpiredAt(expires, now) == expires <= now

\* The instance reads its trusted clock, which never goes back.
\* Mutant of Reads: the wall clock is taken as it is.
ReadsWall(s, now) == clock' = [clock EXCEPT ![s] = now]

Reads(s, now) == now >= clock[s] /\ clock' = [clock EXCEPT ![s] = now]

-----------------------------------------------------------------------------
(* The store.                                                               *)

\* Mutant of RevisionMatches: a record may be created over one that is there.
RevisionMatchesOrCreates(id, expected, record) ==
  IF expected = NoRevision
  THEN record.revision = 1
  ELSE /\ store[id] # NoRecord
       /\ store[id].revision = expected
       /\ record.revision = expected + 1

RevisionMatches(id, expected, record) ==
  IF expected = NoRevision
  THEN store[id] = NoRecord /\ record.revision = 1
  ELSE /\ store[id] # NoRecord
       /\ store[id].revision = expected
       /\ record.revision = expected + 1

Put(s) ==
  LET c == calls[s] IN
  /\ c # NoCall
  /\ store' = IF RevisionMatches(c.id, c.expected, c.record)
              THEN [store EXCEPT ![c.id] = c.record] ELSE store
  /\ calls' = [calls EXCEPT ![s] = NoCall]
  /\ UNCHANGED <<clock, lapsed, facts, changes>>

\* #newest: the highest revision, then the latest update, then the last in order.
Newer(ids, j, k) ==
  LET a == store[ids[j]]  b == store[ids[k]] IN
  \/ a.revision > b.revision
  \/ a.revision = b.revision /\ a.updated > b.updated
  \/ a.revision = b.revision /\ a.updated = b.updated /\ j > k

About(ids, subject) ==
  {k \in DOMAIN ids : store[ids[k]] # NoRecord /\ store[ids[k]].subject = subject}

Newest(ids, subject) ==
  LET found == About(ids, subject) IN
  IF found = {} THEN NoRecord
  ELSE store[ids[CHOOSE k \in found : \A j \in found \ {k} : Newer(ids, k, j)]]

DutyFor(agent) == Newest(Duties, agent)
CapacityFor(resource) == Newest(Capacities, resource)

-----------------------------------------------------------------------------
(* The validators, which the service and the store put a record through.    *)

\* A decision names who made it; nothing else does.
ValidApproval(r) ==
  /\ r.status \in {"REQUESTED", "APPROVED", "REJECTED", "CANCELLED"}
  /\ r.status \in {"APPROVED", "REJECTED"} <=> r.approver # None

\* Mutant of ValidDelegation: when it ends is not looked at.
ValidDelegationAnyTerm(r) == r.status \in {"ACTIVE", "REVOKED"}

ValidDelegation(r) == r.status \in {"ACTIVE", "REVOKED"} /\ r.from < r.expires

ValidHold(r) == r.status \in {"ACTIVE", "RELEASED"} /\ r.incident \in Incidents \cup {None}
ValidDuty(r) == r.level \in DutyStates
ValidCapacity(r) == r.level \in CapacityStates
ValidCompanyState(r) == r.state \in CompanyStates /\ Cardinality(r.causes) <= MaxCauses

Valid(id, r) ==
  /\ id \in Approvals => ValidApproval(r)
  /\ id \in Delegations => ValidDelegation(r)
  /\ id \in Holds => ValidHold(r)
  /\ id \in DutyIds => ValidDuty(r)
  /\ id \in CapacityIds => ValidCapacity(r)
  /\ id = Company => ValidCompanyState(r)

-----------------------------------------------------------------------------
(* Writes: read the current record and make the one to put.  A caller       *)
(* passes the revision it expects; the put needs the record's revision to   *)
(* be one more, so only the revision that the service reads can succeed.    *)

Prepare(s, now, id, record) ==
  /\ Valid(id, record)
  /\ Reads(s, now)
  /\ LET revision == store[id].revision IN
     calls' = [calls EXCEPT ![s] =
       [ id |-> id,
         expected |-> IF store[id] = NoRecord THEN NoRevision ELSE revision,
         record |-> [record EXCEPT !.revision = revision + 1] ]]
  /\ changes' = changes + 1
  /\ UNCHANGED <<store, lapsed, facts>>

CreateApproval(s, now, a) ==
  /\ store[a] = NoRecord
  /\ \E job \in Jobs, expires \in Expiry :
       Prepare(s, now, a,
         [ revision |-> 0, status |-> "REQUESTED", job |-> job, expires |-> expires,
           approver |-> None ])

DecideApproval(s, now, a) ==
  /\ store[a] # NoRecord /\ store[a].status = "REQUESTED"
  /\ \E status \in {"APPROVED", "REJECTED", "CANCELLED"}, approver \in Agents \cup {None} :
       Prepare(s, now, a,
         [ store[a] EXCEPT !.status = status,
                           !.approver = IF status = "CANCELLED" THEN None ELSE approver ])

GrantDelegation(s, now, g) ==
  /\ store[g] = NoRecord
  /\ \E grantee \in Agents, from \in Times, expires \in Expiry :
       Prepare(s, now, g,
         [ revision |-> 0, status |-> "ACTIVE", grantee |-> grantee,
           from |-> from, expires |-> expires ])

RevokeDelegation(s, now, g) ==
  /\ store[g] # NoRecord /\ store[g].status = "ACTIVE"
  /\ Prepare(s, now, g, [store[g] EXCEPT !.status = "REVOKED"])

CreateHold(s, now, h) ==
  /\ store[h] = NoRecord
  /\ \E job \in Jobs, bound \in Incidents \cup {None}, expires \in Expiry :
       Prepare(s, now, h,
         [ revision |-> 0, status |-> "ACTIVE", job |-> job, incident |-> bound,
           expires |-> expires ])

\* A hold is released with the reference of the incident it is bound to.
ReleaseHold(s, now, h, ref) ==
  /\ store[h] # NoRecord /\ store[h].status = "ACTIVE"
  /\ ref = store[h].incident
  /\ Prepare(s, now, h, [store[h] EXCEPT !.status = "RELEASED", !.expires = Never])

\* setDuty and setCapacity: an existing id may be given to another subject.
SetDuty(s, now, d) ==
  \E agent \in Agents, duty \in DutyInputs :
    Prepare(s, now, d, [revision |-> 0, subject |-> agent, level |-> duty, updated |-> now])

SetCapacity(s, now, c) ==
  \E resource \in Resources, capacity \in CapacityInputs :
    Prepare(s, now, c,
      [revision |-> 0, subject |-> resource, level |-> capacity, updated |-> now])

\* derivedCompanyState: the worst of the states.
Worst(states) == Precedence[Min({Rank[state] : state \in states})]

\* The references of the inputs, in any order, are cut at the limit.
CauseSets(refs) == kSubset(Min({Cardinality(refs), MaxCauses}), refs)

\* setCompanyState.  Of the input states only the worst one counts.  No write
\* lowers the state unless it names a cause of the present one.
SetCompanyState(s, now) ==
  \E state \in InputStates, refs \in SUBSET Refs : \E causes \in CauseSets(refs) :
    /\ (store[Company] # NoRecord /\ Rank[state] > Rank[store[Company].state])
         => causes \cap store[Company].causes # {}
    /\ Prepare(s, now, Company, [revision |-> 0, state |-> state, causes |-> causes])

Write(s, now) ==
  /\ calls[s] = NoCall /\ changes < MaxChanges
  /\ \/ \E a \in Approvals : CreateApproval(s, now, a) \/ DecideApproval(s, now, a)
     \/ \E g \in Delegations : GrantDelegation(s, now, g) \/ RevokeDelegation(s, now, g)
     \/ \E h \in Holds :
          CreateHold(s, now, h) \/ \E ref \in Incidents \cup {None} : ReleaseHold(s, now, h, ref)
     \/ \E d \in DutyIds : SetDuty(s, now, d)
     \/ \E c \in CapacityIds : SetCapacity(s, now, c)
     \/ SetCompanyState(s, now)

-----------------------------------------------------------------------------
(* The facts of the other services, read through their seams.               *)

Changing ==
  /\ changes < MaxChanges
  /\ changes' = changes + 1
  /\ UNCHANGED <<store, calls, clock, lapsed>>

\* An incident opens once and, when resolved, never reopens.
OpenIncident(i) ==
  /\ Changing
  /\ incident[i] = NoIncident
  /\ \E f \in IncidentFacts :
       incident' = [incident EXCEPT ![i] =
         [status |-> "OPEN", class |-> f.class, severity |-> f.severity, affected |-> f.affected]]
  /\ UNCHANGED <<planned, workforce, down>>

EndIncident(i) ==
  /\ Changing
  /\ incident[i].status = "OPEN"
  /\ incident' = [incident EXCEPT ![i].status = "RESOLVED"]
  /\ UNCHANGED <<planned, workforce, down>>

Plan(now) ==
  /\ Changing
  /\ \/ \E e \in Events : CreateEvent(e, now) \/ ChangeEvent(e, now)
     \/ \E h \in HoursIds : SetCompanyHours(h, now)
  /\ UNCHANGED <<incident, workforce, down>>

ChangeWorker(a) ==
  /\ Changing
  /\ \E f \in WorkerFacts \ {workforce[a]} : workforce' = [workforce EXCEPT ![a] = f]
  /\ UNCHANGED <<incident, planned, down>>

BreakSeam(seam) ==
  /\ Changing
  /\ seam \notin down
  /\ down' = down \cup {seam}
  /\ UNCHANGED <<incident, planned, workforce>>

RepairSeam(seam) ==
  /\ Changing
  /\ seam \in down
  /\ down' = down \ {seam}
  /\ UNCHANGED <<incident, planned, workforce>>

-----------------------------------------------------------------------------
(* evaluateExecutionInputs: the facts reduced to bounded inputs.            *)

Open == {i \in Incidents : incident[i].status = "OPEN"}

\* derivedIncidentCompanyState: none, or the one state of an open incident.
DerivedStates(f) ==
  IF f.severity = "SEV-0" THEN {"SURVIVAL"}
  ELSE IF f.severity # "SEV-1" THEN {}
  ELSE IF f.class = "SECURITY" THEN {"SECURITY_INCIDENT"}
  ELSE IF f.class \in {"INFRASTRUCTURE", "POWER", "THERMAL"}
       THEN {"INFRASTRUCTURE_OR_ENVIRONMENT_INCIDENT"} ELSE {}

StoredState == IF store[Company] = NoRecord THEN "NORMAL" ELSE store[Company].state

\* activeCalendarFacts: a seam that is not available says nothing.
CalendarSeam == IF "calendar" \in down THEN "UNAVAILABLE" ELSE OperatingState(calendarTime)
PlannedStates == {CalendarSeam} \ {"UNAVAILABLE"}
IncidentsSeam == IF "incidents" \in down THEN {} ELSE Open

\* Mutant of CompanyState: a stored state stands for the incidents too.
CompanyStateStored ==
  Worst({StoredState} \cup PlannedStates
    \cup IF store[Company] = NoRecord
         THEN UNION {DerivedStates(incident[i]) : i \in IncidentsSeam} ELSE {})

CompanyState ==
  Worst({StoredState} \cup PlannedStates \cup UNION {DerivedStates(incident[i]) : i \in IncidentsSeam})

DegradedResources ==
  UNION {incident[i].affected : i \in {j \in IncidentsSeam : incident[j].severity # "SEV-3"}}

\* Only the exact resource health of the requirement, never better than the incidents say.
ResourceState(q) ==
  IF q.resource \in DegradedResources /\ q.health \notin {"UNKNOWN", "UNAVAILABLE"}
  THEN "DEGRADED" ELSE q.health

ApprovalState(q, now) ==
  LET a == store[q.approval] IN
  IF a = NoRecord THEN "NONE"
  ELSE IF a.job # q.job THEN "NONE"
  ELSE IF ExpiredAt(a.expires, now) THEN "EXPIRED"
  ELSE IF a.status \in {"APPROVED", "REJECTED"} THEN a.status ELSE "PENDING"

DelegationState(q, now) ==
  LET g == store[q.delegation] IN
  IF g = NoRecord THEN "MISSING"
  ELSE IF g.status = "REVOKED" THEN "REVOKED"
  ELSE IF g.grantee # q.agent \/ now < g.from THEN "INVALID"
  ELSE IF ExpiredAt(g.expires, now) THEN "EXPIRED" ELSE "VALID"

ActiveHolds(job, now) ==
  {h \in Holds : /\ store[h] # NoRecord /\ store[h].job = job
                 /\ store[h].status = "ACTIVE" /\ ~ExpiredAt(store[h].expires, now)}

\* No record, or a qualification that this instance's clock has expired, is a seam
\* that is not available.
WorkforceUnavailable(q, now) ==
  LET w == workforce[q.agent] IN
  \/ "workforce" \in down
  \/ w.lifecycle = "ABSENT"
  \/ w.qualification = "QUALIFIED" /\ ExpiredAt(w.expires, now)

\* Work of a safety class is bound to an open incident, whatever that one's severity.
ContainmentEligible(q, company) ==
  /\ q.incident \in IncidentsSeam
  /\ \/ q.safety = "SURVIVAL_CRITICAL" /\ company = "SURVIVAL"
     \/ q.safety = "INCIDENT_CONTAINMENT" /\ company \in IncidentStates

OffDuty(q) == DutyFor(q.agent) # NoRecord /\ DutyFor(q.agent).level \in {"OFF_DUTY", "ON_CALL"}

Capacity(q) == IF CapacityFor(q.resource) = NoRecord THEN "NORMAL" ELSE CapacityFor(q.resource).level

\* SchedulerService.#decide: the first check that fails names the reason.
\* q.early: the Scheduler's own clock is before not_before.
Checks(q, now) ==
  LET company == CompanyState IN
  << << q.authority # "ALLOW", "DENY_AUTHORITY_MISSING" >>,
     << q.delegation # None /\ DelegationState(q, now) # "VALID", "DENY_DELEGATION_INVALID" >>,
     << "incidents" \in down, "DENY_COMPANY_STATE" >>,
     << CalendarSeam = "UNAVAILABLE", "WAIT_DEPENDENCY" >>,
     << WorkforceUnavailable(q, now), "DENY_WORKFORCE" >>,
     << workforce[q.agent].lifecycle \in {"CANDIDATE", "INACTIVE", "RETIRED"}, "DENY_WORKFORCE" >>,
     << workforce[q.agent].qualification # "QUALIFIED", "WAIT_QUALIFICATION" >>,
     << company \in IncidentStates /\ ~ContainmentEligible(q, company), "DENY_COMPANY_STATE" >>,
     << ResourceState(q) \in {"UNKNOWN", "UNAVAILABLE"}, "DENY_RESOURCE_INELIGIBLE" >>,
     << Capacity(q) = "UNAVAILABLE", "DENY_RESOURCE_INELIGIBLE" >>,
     << q.dependency = "FAILED", "DENY_RESOURCE_INELIGIBLE" >>,
     << ActiveHolds(q.job, now) # {}, "HOLD" >>,
     << company = "MAINTENANCE", "WAIT_MAINTENANCE" >>,
     << company = "HOLIDAY", "WAIT_HOLIDAY" >>,
     << company = "NIGHT", "WAIT_NIGHT" >>,
     << q.early, "WAIT_NOT_BEFORE" >>,
     << q.dependency # "COMPLETE", "WAIT_DEPENDENCY" >>,
     << OffDuty(q), "WAIT_OFF_DUTY" >>,
     << Capacity(q) \notin {"AVAILABLE", "LIGHT", "NORMAL", "HIGH"}, "WAIT_CAPACITY" >>,
     << q.approval # None /\ ApprovalState(q, now) # "APPROVED", "WAIT_APPROVAL" >>,
     << TRUE, "ELIGIBLE_NOW" >> >>

Decision(q, now) ==
  LET checks == Checks(q, now) IN
  checks[Min({k \in DOMAIN checks : checks[k][1]})][2]

\* One synchronous stretch.  What it has seen expire is kept for LapsedStaysLapsed.
Expirable(now) ==
  {id \in Approvals \cup Delegations \cup Holds : store[id] # NoRecord /\ ExpiredAt(store[id].expires, now)}

Evaluate(s, now) ==
  /\ Reads(s, now)
  /\ lapsed' = [lapsed EXCEPT ![s] = @ \cup Expirable(now)]
  /\ calendarTime' = Observed(now)
  /\ UNCHANGED <<store, calls, incident, events, hours, workforce, down, changes>>

-----------------------------------------------------------------------------
OrgInit ==
  /\ store = [id \in Ids |-> NoRecord]
  /\ calls = [s \in Services |-> NoCall]
  /\ clock = [s \in Services |-> 0]
  /\ lapsed = [s \in Services |-> {}]
  /\ incident = [i \in Incidents |-> NoIncident]
  /\ calendarTime = 0
  /\ events = [e \in Events |-> NoPlan]
  /\ hours = [h \in HoursIds |-> NoPlan]
  /\ workforce \in [Agents -> WorkerFacts]
  /\ down = {}
  /\ changes = 0

OrgNext ==
  \/ \E s \in Services, now \in Times : Write(s, now) \/ Evaluate(s, now)
  \/ \E s \in Services : Put(s)
  \/ \E i \in Incidents : OpenIncident(i) \/ EndIncident(i)
  \/ \E now \in Times : Plan(now)
  \/ \E a \in Agents : ChangeWorker(a)
  \/ \E seam \in Seams : BreakSeam(seam) \/ RepairSeam(seam)

OrgSpec == OrgInit /\ [][OrgNext]_orgVars

-----------------------------------------------------------------------------
(* Properties.                                                              *)

Revisions == 1..MaxChanges

\* What the store and the service hold is well formed: every record passes the
\* validator of its kind, an approval that was given names who gave it, and there
\* is one record of company hours at most (validate..V1 and put of both stores).
OrgTypeOK ==
  /\ \A a \in Approvals : store[a] # NoRecord =>
       /\ store[a] \in [ revision : Revisions, job : Jobs, expires : Expiry,
                         status : {"REQUESTED", "APPROVED", "REJECTED", "CANCELLED"},
                         approver : Agents \cup {None} ]
       /\ store[a].status = "APPROVED" => store[a].approver # None
  /\ \A g \in Delegations : store[g] # NoRecord =>
       /\ store[g] \in [ revision : Revisions, grantee : Agents, from : Times, expires : Expiry,
                         status : {"ACTIVE", "REVOKED"} ]
       /\ store[g].from < store[g].expires
  /\ \A h \in Holds : store[h] # NoRecord =>
       store[h] \in [ revision : Revisions, job : Jobs, expires : Expiry,
                      incident : Incidents \cup {None}, status : {"ACTIVE", "RELEASED"} ]
  /\ store[Company] # NoRecord =>
       /\ store[Company] \in [revision : Revisions, state : CompanyStates, causes : SUBSET Refs]
       /\ Cardinality(store[Company].causes) <= MaxCauses
  /\ clock \in [Services -> Times]
  /\ down \subseteq Seams
  /\ calendarTime \in Times
  /\ \A e \in Events : events[e] # NoPlan => ValidEvent(events[e])
  /\ Cardinality(Configured) <= 1

\* A job is found eligible only when nothing that could stop it is in force: its
\* approval and its delegation are given, are for it and have not ended, no hold
\* on it is in force, and, unless it is bound to an open incident as containment
\* work, no open SEV-0 or SEV-1 incident, planned closure or company state of any
\* other origin is there; and nothing that could not be read is taken as good
\* (evaluateExecutionInputs and #decide together).
EligibleIsSafe ==
  \A s \in Services, q \in Requirements :
    Decision(q, clock[s]) = "ELIGIBLE_NOW" =>
      LET now == clock[s]
          contains == q.safety # "ORDINARY" /\ q.incident \in Open IN
      /\ down = {}
      /\ q.authority = "ALLOW" /\ q.dependency = "COMPLETE" /\ ~q.early
      /\ workforce[q.agent].lifecycle \in {"ACTIVE", "LIMITED", "RETRAINING"}
      /\ workforce[q.agent].qualification = "QUALIFIED" /\ now < workforce[q.agent].expires
      /\ q.approval # None =>
           LET a == store[q.approval] IN
           a # NoRecord /\ a.status = "APPROVED" /\ a.job = q.job /\ now < a.expires
      /\ q.delegation # None =>
           LET g == store[q.delegation] IN
           g # NoRecord /\ g.status = "ACTIVE" /\ g.grantee = q.agent
             /\ g.from <= now /\ now < g.expires
      /\ \A h \in Holds : store[h] # NoRecord =>
           store[h].job # q.job \/ store[h].status = "RELEASED" \/ store[h].expires <= now
      /\ \A i \in Open : incident[i].severity \in {"SEV-0", "SEV-1"} => contains
      /\ StoredState # "NORMAL" => contains
      /\ Configured # {}
      /\ (ActiveEvents(calendarTime) # {} \/ ~ \E h \in Configured : InHours(h, calendarTime)) => contains

\* What an instance has evaluated as expired it never takes as in force again,
\* whatever its wall clock does; only a hold that is released says otherwise,
\* and that one is no longer in force (createTrustedClock in the constructor).
LapsedStaysLapsed ==
  \A s \in Services : \A id \in lapsed[s] :
    ExpiredAt(store[id].expires, clock[s]) \/ store[id].status = "RELEASED"

\* A record only ever follows the one it was made from: the revision grows by
\* one, a decision, a revocation and a release are final, what was agreed on
\* stays, and the company state is lowered only by a write that names a cause
\* still in force when it is stored (put, and the reads of every operation).
Follows(id, old, new) ==
  /\ new.revision = old.revision + 1
  /\ id \in Approvals /\ old # NoRecord => old.status = "REQUESTED" /\ new.job = old.job /\ new.expires = old.expires
  /\ id \in Delegations /\ old # NoRecord =>
       old.status = "ACTIVE" /\ new.grantee = old.grantee /\ new.expires = old.expires
  /\ id \in Holds /\ old # NoRecord => old.status = "ACTIVE" /\ new.job = old.job /\ new.incident = old.incident
  /\ (id = Company /\ old # NoRecord /\ Rank[new.state] > Rank[old.state])
       => new.causes \cap old.causes # {}

WritesBuildOnLatest ==
  [][\A id \in Ids : store'[id] # store[id] => Follows(id, store[id], store'[id])]_orgVars

=============================================================================
