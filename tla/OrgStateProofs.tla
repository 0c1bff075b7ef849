----------------------------- MODULE OrgStateProofs -----------------------------
(***************************************************************************)
(* OrgState, for any instances, records, incidents and requirements, and    *)
(* however writes, facts, clocks and broken seams interleave: writes build  *)
(* on the latest record, what lapsed stays lapsed, and what is found        *)
(* eligible is forbidden by nothing in force.                               *)
(*                                                                          *)
(* The argument.  A write on its way was made from a revision that its      *)
(* record had; if the record has not moved on, the write follows it, and    *)
(* otherwise the store refuses it.  Eligibility is judged in one stretch:   *)
(* each way to be unsafe makes one of the checks of #decide fail.           *)
(***************************************************************************)
EXTENDS OrgState, FiniteSetTheorems, WellFoundedInduction, TLAPS

-----------------------------------------------------------------------------
(* The invariant.                                                           *)

ApprovalRecords ==
  [ revision : Revisions, job : Jobs, expires : Expiry,
    status : {"REQUESTED", "APPROVED", "REJECTED", "CANCELLED"},
    approver : Agents \cup {None} ]

DelegationRecords ==
  [ revision : Revisions, grantee : Agents, from : Times, expires : Expiry,
    status : {"ACTIVE", "REVOKED"} ]

HoldRecords ==
  [ revision : Revisions, job : Jobs, expires : Expiry,
    incident : Incidents \cup {None}, status : {"ACTIVE", "RELEASED"} ]

CompanyRecords == [revision : Revisions, state : CompanyStates, causes : SUBSET Refs]

IncidentRecords ==
  [ status : {"OPEN", "RESOLVED"},
    class : {"SECURITY", "INFRASTRUCTURE", "POWER", "THERMAL"},
    severity : {"SEV-0", "SEV-1", "SEV-2", "SEV-3"}, affected : SUBSET Resources ]

\* A record passes the validator of its kind.
Sound(id, r) ==
  /\ r.revision \in Revisions
  /\ id \in Approvals =>
       r \in ApprovalRecords /\ (r.status = "APPROVED" => r.approver # None)
  /\ id \in Delegations => r \in DelegationRecords /\ r.from < r.expires
  /\ id \in Holds => r \in HoldRecords
  /\ id = Company => r \in CompanyRecords /\ Cardinality(r.causes) <= MaxCauses

\* What a write makes of the record it read: it follows it, and the only write
\* to a hold that exists releases it.
Makes(id, old, new) ==
  /\ Follows(id, old, new)
  /\ id \in Holds /\ old # NoRecord => new.status = "RELEASED"

\* A write on its way was made from the record that is there, or from an older one.
OnItsWay(c) ==
  /\ c.id \in Ids
  /\ Sound(c.id, c.record) /\ c.record.revision <= changes
  /\ c.expected = NoRevision => c.record.revision = 1
  /\ c.expected # NoRevision =>
       /\ store[c.id] # NoRecord
       /\ c.expected \in Nat /\ c.expected <= store[c.id].revision
       /\ c.expected = store[c.id].revision => Makes(c.id, store[c.id], c.record)

StoreSound ==
  /\ store = [id \in Ids |-> store[id]]
  /\ \A id \in Ids :
       store[id] # NoRecord => Sound(id, store[id]) /\ store[id].revision <= changes

CallsSound ==
  /\ calls = [s \in Services |-> calls[s]]
  /\ \A s \in Services : calls[s] # NoCall => OnItsWay(calls[s])

Expirables == Approvals \cup Delegations \cup Holds

LapsedSound ==
  /\ clock \in [Services -> Times]
  /\ lapsed \in [Services -> SUBSET Expirables]
  /\ \A s \in Services : \A id \in lapsed[s] :
       /\ store[id] # NoRecord
       /\ ExpiredAt(store[id].expires, clock[s]) \/ store[id].status = "RELEASED"

PlanSound ==
  /\ calendarTime \in Times
  /\ events = [e \in Events |-> events[e]]
  /\ \A e \in Events : events[e] # NoPlan => ValidEvent(events[e])
  /\ hours = [h \in HoursIds |-> hours[h]]
  /\ \A g, h \in HoursIds : hours[g] # NoPlan /\ hours[h] # NoPlan => g = h

FactsSound ==
  /\ PlanSound
  /\ down \subseteq Seams
  /\ incident \in [Incidents -> IncidentRecords \cup {NoIncident}]
  /\ workforce \in [Agents -> WorkerFacts]

OrgInv ==
  StoreSound /\ CallsSound /\ LapsedSound /\ FactsSound /\ changes \in 0..MaxChanges

-----------------------------------------------------------------------------
(* The company states and their precedence.                                 *)

\* The states in their order.
LEMMA RankFacts ==
  /\ CompanyStates = { "SURVIVAL", "SECURITY_INCIDENT", "INFRASTRUCTURE_OR_ENVIRONMENT_INCIDENT",
                       "MAINTENANCE", "HOLIDAY", "NIGHT", "NORMAL" }
  /\ IncidentStates =
       {"SURVIVAL", "SECURITY_INCIDENT", "INFRASTRUCTURE_OR_ENVIRONMENT_INCIDENT"}
  /\ \A c \in CompanyStates : Rank[c] \in 1..7 /\ Precedence[Rank[c]] = c
  /\ Rank["NORMAL"] = 7
<1>1. DOMAIN Precedence = 1..7
  BY DEF Precedence
<1>2. /\ Precedence[1] = "SURVIVAL" /\ Precedence[2] = "SECURITY_INCIDENT"
      /\ Precedence[3] = "INFRASTRUCTURE_OR_ENVIRONMENT_INCIDENT"
      /\ Precedence[4] = "MAINTENANCE" /\ Precedence[5] = "HOLIDAY"
      /\ Precedence[6] = "NIGHT" /\ Precedence[7] = "NORMAL"
  BY DEF Precedence
<1>3. CompanyStates = {Precedence[k] : k \in 1..7}
  BY <1>1 DEF CompanyStates, ToSet
<1>4. CompanyStates = { "SURVIVAL", "SECURITY_INCIDENT", "INFRASTRUCTURE_OR_ENVIRONMENT_INCIDENT",
                        "MAINTENANCE", "HOLIDAY", "NIGHT", "NORMAL" }
  <2>1. 1..7 = {1, 2, 3, 4, 5, 6, 7}
    OBVIOUS
  <2>. QED
    BY <1>2, <1>3, <2>1
<1>5. IncidentStates = {Precedence[k] : k \in 1..3}
  <2>1. PICK p : p = SubSeq(Precedence, 1, 3)
    OBVIOUS
  <2>2. p = [k \in 1..3 |-> Precedence[k]]
    BY <2>1, <1>1 DEF Precedence
  <2>3. DOMAIN p = 1..3 /\ \A k \in 1..3 : p[k] = Precedence[k]
    BY <2>2
  <2>. QED
    BY <2>1, <2>3 DEF IncidentStates, ToSet
<1>6. IncidentStates =
        {"SURVIVAL", "SECURITY_INCIDENT", "INFRASTRUCTURE_OR_ENVIRONMENT_INCIDENT"}
  <2>1. 1..3 = {1, 2, 3}
    OBVIOUS
  <2>. QED
    BY <1>2, <1>5, <2>1
<1>7. ASSUME NEW c \in CompanyStates PROVE Rank[c] \in 1..7 /\ Precedence[Rank[c]] = c
  <2>1. \E k \in DOMAIN Precedence : Precedence[k] = c
    BY <1>1, <1>3
  <2>2. Rank[c] = CHOOSE k \in DOMAIN Precedence : Precedence[k] = c
    BY DEF Rank
  <2>. QED
    BY <2>1, <2>2, <1>1
<1>8. Rank["NORMAL"] = 7
  <2>1. "NORMAL" \in CompanyStates
    BY <1>4
  <2>2. Rank["NORMAL"] \in 1..7 /\ Precedence[Rank["NORMAL"]] = "NORMAL"
    BY <1>7, <2>1
  <2>. QED
    BY <1>2, <2>2
<1>. QED
  BY <1>4, <1>6, <1>7, <1>8

\* A set of naturals has a least element, which Min is.
LEMMA LeastOfNaturals ==
  ASSUME NEW T \in SUBSET Nat, T # {}
  PROVE  Min(T) \in T /\ \A y \in T : Min(T) <= y
<1>1. PICK x \in T : \A y \in T : ~(<<y, x>> \in OpToRel(<, Nat))
  BY NatLessThanWellFounded, WFMin
<1>2. ASSUME NEW y \in T PROVE x <= y
  <2>1. ~(y < x)
    BY <1>1 DEF OpToRel
  <2>. QED
    BY <2>1
<1>. QED
  BY <1>2 DEF Min

\* The worst of some states is one of them, and none is worse.
LEMMA WorstOfStates ==
  ASSUME NEW states \in SUBSET CompanyStates, NEW c \in states
  PROVE  Worst(states) \in CompanyStates /\ Rank[Worst(states)] <= Rank[c]
<1>1. PICK ranks : ranks = {Rank[state] : state \in states}
  OBVIOUS
<1>2. ranks \in SUBSET Nat /\ Rank[c] \in ranks
  BY <1>1, RankFacts
<1>3. Min(ranks) \in ranks /\ Min(ranks) <= Rank[c]
  BY <1>2, LeastOfNaturals
<1>4. PICK d \in states : Min(ranks) = Rank[d]
  BY <1>1, <1>3
<1>5. Worst(states) = d
  BY <1>1, <1>4, RankFacts DEF Worst
<1>. QED
  BY <1>3, <1>4, <1>5

-----------------------------------------------------------------------------
(* Eligibility.                                                             *)

\* Only the last of the checks finds a job eligible, so all the others passed.
LEMMA AllPass ==
  ASSUME NEW c, DOMAIN c = 1..21, c[21][1],
         \A k \in 1..20 : c[k][2] # "ELIGIBLE_NOW",
         c[Min({k \in DOMAIN c : c[k][1]})][2] = "ELIGIBLE_NOW"
  PROVE  \A k \in 1..20 : ~c[k][1]
<1>1. PICK failing : failing = {k \in DOMAIN c : c[k][1]}
  OBVIOUS
<1>2. failing \in SUBSET Nat /\ 21 \in failing
  BY <1>1
<1>3. Min(failing) \in failing /\ \A k \in failing : Min(failing) <= k
  BY <1>2, LeastOfNaturals
<1>4. Min(failing) = 21
  <2>1. Min(failing) \in 1..21 /\ c[Min(failing)][2] = "ELIGIBLE_NOW"
    BY <1>1, <1>3
  <2>. QED
    BY <2>1, SMTT(30)
<1>5. ASSUME NEW k \in 1..20, c[k][1] PROVE FALSE
  <2>1. k \in failing
    BY <1>1, <1>5
  <2>. QED
    BY <1>3, <1>4, <2>1
<1>. QED
  BY <1>5

\* What has to hold of a requirement that is found eligible.
Passed(q, now) ==
  /\ q.authority = "ALLOW"
  /\ ~(q.delegation # None /\ DelegationState(q, now) # "VALID")
  /\ "incidents" \notin down
  /\ CalendarSeam # "UNAVAILABLE"
  /\ ~WorkforceUnavailable(q, now)
  /\ workforce[q.agent].lifecycle \notin {"CANDIDATE", "INACTIVE", "RETIRED"}
  /\ workforce[q.agent].qualification = "QUALIFIED"
  /\ ~(CompanyState \in IncidentStates /\ ~ContainmentEligible(q, CompanyState))
  /\ ActiveHolds(q.job, now) = {}
  /\ CompanyState \notin {"MAINTENANCE", "HOLIDAY", "NIGHT"}
  /\ ~q.early
  /\ q.dependency = "COMPLETE"
  /\ ~(q.approval # None /\ ApprovalState(q, now) # "APPROVED")

\* What #decide finds eligible passed every check.
LEMMA EligiblePassed ==
  ASSUME NEW q, NEW now, Decision(q, now) = "ELIGIBLE_NOW" PROVE Passed(q, now)
<1>1. PICK c : c = Checks(q, now)
  OBVIOUS
<1>2. DOMAIN c = 1..21
  BY <1>1 DEF Checks
<1>3. c[21][1]
  BY <1>1 DEF Checks
<1>4. \A k \in 1..20 : c[k][2] # "ELIGIBLE_NOW"
  BY <1>1 DEF Checks
<1>5. c[Min({k \in DOMAIN c : c[k][1]})][2] = "ELIGIBLE_NOW"
  BY <1>1 DEF Decision
<1>6. \A k \in 1..20 : ~c[k][1]
  BY <1>2, <1>3, <1>4, <1>5, AllPass
<1>7. /\ c[1][1] <=> q.authority # "ALLOW"
      /\ c[2][1] <=> q.delegation # None /\ DelegationState(q, now) # "VALID"
      /\ c[3][1] <=> "incidents" \in down
      /\ c[4][1] <=> CalendarSeam = "UNAVAILABLE"
      /\ c[5][1] <=> WorkforceUnavailable(q, now)
      /\ c[6][1] <=> workforce[q.agent].lifecycle \in {"CANDIDATE", "INACTIVE", "RETIRED"}
      /\ c[7][1] <=> workforce[q.agent].qualification # "QUALIFIED"
      /\ c[8][1] <=> CompanyState \in IncidentStates /\ ~ContainmentEligible(q, CompanyState)
      /\ c[12][1] <=> ActiveHolds(q.job, now) # {}
      /\ c[13][1] <=> CompanyState = "MAINTENANCE"
      /\ c[14][1] <=> CompanyState = "HOLIDAY"
      /\ c[15][1] <=> CompanyState = "NIGHT"
      /\ c[16][1] <=> q.early
      /\ c[17][1] <=> q.dependency # "COMPLETE"
      /\ c[20][1] <=> q.approval # None /\ ApprovalState(q, now) # "APPROVED"
  BY <1>1 DEF Checks
<1>8. /\ ~c[1][1] /\ ~c[2][1] /\ ~c[3][1] /\ ~c[4][1] /\ ~c[5][1] /\ ~c[6][1] /\ ~c[7][1] /\ ~c[8][1]
      /\ ~c[12][1] /\ ~c[13][1] /\ ~c[14][1] /\ ~c[15][1] /\ ~c[16][1] /\ ~c[17][1] /\ ~c[20][1]
  BY <1>6
<1>. QED
  BY <1>7, <1>8 DEF Passed

\* The states whose worst is the company state.
PresentStates ==
  {StoredState} \cup PlannedStates \cup UNION {DerivedStates(incident[i]) : i \in IncidentsSeam}

\* The planned operating state, when there is one, is NORMAL only within the
\* company hours and outside every planned closure.
LEMMA PlannedState ==
  ASSUME PlanSound, NEW t, OperatingState(t) # "UNAVAILABLE"
  PROVE  /\ OperatingState(t) \in CompanyStates
         /\ Configured # {}
         /\ OperatingState(t) = "NORMAL" =>
              ActiveEvents(t) = {} /\ \E h \in Configured : InHours(h, t)
<1>1. PICK g, active, state :
        /\ g = CHOOSE h \in Configured : TRUE
        /\ active = ActiveEvents(t)
        /\ state = DerivedCalendarState(active, g, t)
  OBVIOUS
<1>2. /\ Cardinality(Configured) = 1 /\ ValidOperatingFacts(active, state)
      /\ OperatingState(t) = state
  BY <1>1 DEF OperatingState
<1>3. Configured # {}
  BY <1>2, FS_EmptySet
<1>4. g \in Configured
  BY <1>1, <1>3
<1>5. state \in {"MAINTENANCE", "HOLIDAY", "NORMAL", "NIGHT"} /\ (state = "NORMAL" => InHours(g, t))
  BY <1>1 DEF DerivedCalendarState
<1>6. state = "NORMAL" => active = {}
  BY <1>2 DEF ValidOperatingFacts
<1>. QED
  BY <1>1, <1>2, <1>3, <1>4, <1>5, <1>6, RankFacts

\* Every state that is present has its say in the company state.
LEMMA CompanyStateIsWorst ==
  ASSUME OrgInv, NEW c \in PresentStates
  PROVE  /\ c \in CompanyStates /\ CompanyState \in CompanyStates
         /\ CompanyState = "NORMAL" => c = "NORMAL"
<1>1. StoredState \in CompanyStates
  <2>1. Company \in Ids /\ "NORMAL" \in CompanyStates
    BY RankFacts DEF Ids
  <2>. QED
    BY <2>1 DEF StoredState, OrgInv, StoreSound, Sound, CompanyRecords
<1>2. PlannedStates \subseteq CompanyStates
  BY PlannedState DEF PlannedStates, CalendarSeam, OrgInv, FactsSound
<1>3. ASSUME NEW f PROVE DerivedStates(f) \subseteq CompanyStates
  BY RankFacts DEF DerivedStates
<1>4. PresentStates \in SUBSET CompanyStates
  BY <1>1, <1>2, <1>3 DEF PresentStates
<1>5. CompanyState = Worst(PresentStates)
  BY DEF CompanyState, PresentStates
<1>6. CompanyState \in CompanyStates /\ Rank[CompanyState] <= Rank[c] /\ c \in CompanyStates
  BY <1>4, <1>5, WorstOfStates
<1>7. ASSUME CompanyState = "NORMAL" PROVE c = "NORMAL"
  <2>1. Rank[c] = 7
    BY <1>6, <1>7, RankFacts
  <2>. QED
    BY <1>6, <2>1, RankFacts
<1>. QED
  BY <1>6, <1>7

\* Work that is bound to an open incident, as containment of it.
ContainsWork(q) == q.safety # "ORDINARY" /\ q.incident \in Open

\* Work that runs while a state other than NORMAL is present contains an incident.
LEMMA ContainsPresent ==
  ASSUME OrgInv, NEW q, NEW now, Passed(q, now), NEW c \in PresentStates, c # "NORMAL"
  PROVE  ContainsWork(q)
<1>1. CompanyState \in CompanyStates /\ CompanyState # "NORMAL"
  BY CompanyStateIsWorst
<1>2. CompanyState \in IncidentStates
  BY <1>1, RankFacts DEF Passed
<1>3. ContainmentEligible(q, CompanyState)
  BY <1>2 DEF Passed
<1>. QED
  BY <1>3 DEF ContainmentEligible, ContainsWork, IncidentsSeam

\* In every state of the invariant, what is found eligible is safe.
LEMMA EligibleSafe ==
  ASSUME OrgInv PROVE EligibleIsSafe
<1> SUFFICES ASSUME NEW s \in Services, NEW q \in Requirements,
                    Decision(q, clock[s]) = "ELIGIBLE_NOW"
             PROVE  LET now == clock[s]
                        contains == q.safety # "ORDINARY" /\ q.incident \in Open IN
      /\ down = {}
      /\ q.authority = "ALLOW" /\ q.dependency = "COMPLETE" /\ ~q.early
      /\ workforce[q.agent].lifecycle \in {"ACTIVE", "LIMITED", "RETRAINING"}
      /\ workforce[q.agent].qualification = "QUALIFIED" /\ now < workforce[q.agent].expires
      /\ q.approval # None =>
           LET a == store[q.approval] IN
           a # NoRecord /\ a.status = "APPROVED" /\ a.job = q.job /\ now < a.expires
      /\ q.delegation # None =>
           LET g == store[q.delegation] IN
           g # NoRecord /\ g.status = "ACTIVE" /\ g.grantee = q.agent
             /\ g.from <= now /\ now < g.expires
      /\ \A h \in Holds : store[h] # NoRecord =>
           store[h].job # q.job \/ store[h].status = "RELEASED" \/ store[h].expires <= now
      /\ \A i \in Open : incident[i].severity \in {"SEV-0", "SEV-1"} => contains
      /\ StoredState # "NORMAL" => contains
      /\ Configured # {}
      /\ (ActiveEvents(calendarTime) # {} \/ ~ \E h \in Configured : InHours(h, calendarTime)) => contains
  BY DEF EligibleIsSafe
<1>1. PICK now \in Times : now = clock[s]
  BY DEF OrgInv, LapsedSound
<1>2. Passed(q, now) /\ FactsSound /\ StoreSound
  BY <1>1, EligiblePassed DEF OrgInv
<1>3. /\ \A x \in Expiry : x \in Int
      /\ \A x \in Times : x \in Int
  BY OrgStateAssumption DEF Expiry, Times, Never
<1>4. down = {}
  BY <1>2 DEF Passed, CalendarSeam, WorkforceUnavailable, FactsSound, Seams
<1>5. /\ workforce[q.agent].lifecycle \in {"ACTIVE", "LIMITED", "RETRAINING"}
      /\ workforce[q.agent].qualification = "QUALIFIED" /\ now < workforce[q.agent].expires
  <2>1. workforce[q.agent] \in WorkerFacts
    BY <1>2, FactsAssumption DEF FactsSound
  <2>2. PICK w \in WorkerFacts : w = workforce[q.agent]
    BY <2>1
  <2>3. w.lifecycle # "ABSENT" /\ ~(w.expires <= now) /\ w.qualification = "QUALIFIED"
        /\ w.lifecycle \notin {"CANDIDATE", "INACTIVE", "RETIRED"}
    BY <1>2, <2>2 DEF Passed, WorkforceUnavailable, ExpiredAt
  <2>4. w.expires \in Int /\ w.lifecycle \in {"ABSENT", "CANDIDATE", "ACTIVE", "LIMITED",
                                              "RETRAINING", "INACTIVE", "RETIRED"}
    BY <1>3, FactsAssumption
  <2>. QED
    BY <1>3, <2>2, <2>3, <2>4
<1>6. ASSUME q.approval # None
      PROVE  LET a == store[q.approval] IN
             a # NoRecord /\ a.status = "APPROVED" /\ a.job = q.job /\ now < a.expires
  <2>1. PICK a : a = store[q.approval]
    OBVIOUS
  <2>2. a # NoRecord /\ a.job = q.job /\ ~(a.expires <= now) /\ a.status = "APPROVED"
    BY <1>2, <1>6, <2>1 DEF Passed, ApprovalState, ExpiredAt
  <2>3. q.approval \in Approvals
    BY <1>6, FactsAssumption
  <2>4. a.expires \in Expiry
    BY <1>2, <2>1, <2>2, <2>3 DEF StoreSound, Sound, ApprovalRecords, Ids
  <2>. QED
    BY <1>3, <2>1, <2>2, <2>4
<1>7. ASSUME q.delegation # None
      PROVE  LET g == store[q.delegation] IN
             g # NoRecord /\ g.status = "ACTIVE" /\ g.grantee = q.agent
               /\ g.from <= now /\ now < g.expires
  <2>1. PICK g : g = store[q.delegation]
    OBVIOUS
  <2>2. /\ g # NoRecord /\ g.status # "REVOKED" /\ g.grantee = q.agent
        /\ ~(now < g.from) /\ ~(g.expires <= now)
    BY <1>2, <1>7, <2>1 DEF Passed, DelegationState, ExpiredAt
  <2>3. q.delegation \in Delegations
    BY <1>7, FactsAssumption
  <2>4. g \in DelegationRecords
    BY <1>2, <2>1, <2>2, <2>3 DEF StoreSound, Sound, Ids
  <2>5. g.expires \in Expiry /\ g.from \in Times /\ g.status \in {"ACTIVE", "REVOKED"}
    BY <2>4 DEF DelegationRecords
  <2>. QED
    BY <1>3, <2>1, <2>2, <2>5
<1>8. ASSUME NEW h \in Holds, store[h] # NoRecord
      PROVE  store[h].job # q.job \/ store[h].status = "RELEASED" \/ store[h].expires <= now
  <2>1. store[h] \in HoldRecords
    BY <1>2, <1>8 DEF StoreSound, Sound, Ids
  <2>2. store[h].status \in {"ACTIVE", "RELEASED"}
    BY <2>1 DEF HoldRecords
  <2>3. h \notin ActiveHolds(q.job, now)
    BY <1>2 DEF Passed
  <2>. QED
    BY <1>8, <2>2, <2>3 DEF ActiveHolds, ExpiredAt
<1>9. ASSUME NEW i \in Open, incident[i].severity \in {"SEV-0", "SEV-1"} PROVE ContainsWork(q)
  <2>1. PICK f : f = incident[i]
    OBVIOUS
  <2>2. i \in IncidentsSeam /\ f \in IncidentRecords
    BY <1>2, <1>4, <2>1 DEF IncidentsSeam, Open, FactsSound, NoIncident
  <2>3. f.class \in {"SECURITY", "INFRASTRUCTURE", "POWER", "THERMAL"}
    BY <2>2 DEF IncidentRecords
  <2>4. PICK c \in DerivedStates(f) : c # "NORMAL"
    BY <1>9, <2>1, <2>3 DEF DerivedStates
  <2>5. c \in PresentStates
    BY <2>1, <2>2, <2>4 DEF PresentStates
  <2>. QED
    BY <1>2, <2>4, <2>5, ContainsPresent
<1>10. ASSUME StoredState # "NORMAL" PROVE ContainsWork(q)
  <2>1. PICK c : c = StoredState
    OBVIOUS
  <2>2. c \in PresentStates
    BY <2>1 DEF PresentStates
  <2>. QED
    BY <1>2, <1>10, <2>1, <2>2, ContainsPresent
<1>11. /\ Configured # {}
       /\ ActiveEvents(calendarTime) # {} \/ ~(\E h \in Configured : InHours(h, calendarTime))
            => ContainsWork(q)
  <2>1. PICK t, c : t = calendarTime /\ c = OperatingState(t)
    OBVIOUS
  <2>2. c # "UNAVAILABLE" /\ c \in PresentStates
    BY <1>2, <1>4, <2>1 DEF Passed, CalendarSeam, PlannedStates, PresentStates
  <2>3. /\ Configured # {}
        /\ c = "NORMAL" => ActiveEvents(t) = {} /\ \E h \in Configured : InHours(h, t)
    BY <1>2, <2>1, <2>2, PlannedState DEF FactsSound
  <2>4. c # "NORMAL" => ContainsWork(q)
    BY <1>2, <2>2, ContainsPresent
  <2>. QED
    BY <2>1, <2>3, <2>4
<1>12. q.authority = "ALLOW" /\ q.dependency = "COMPLETE" /\ ~q.early
  BY <1>2 DEF Passed
<1>. QED
  BY <1>1, <1>4, <1>5, <1>6, <1>7, <1>8, <1>9, <1>10, <1>11, <1>12 DEF ContainsWork

-----------------------------------------------------------------------------
(* Writes.                                                                  *)

\* A record id is of one kind.
LEMMA KindsApart ==
  /\ Approvals \cap Delegations = {} /\ Approvals \cap Holds = {} /\ Delegations \cap Holds = {}
  /\ Company \notin Expirables
  /\ DutyIds \cap Expirables = {} /\ CapacityIds \cap Expirables = {}
  /\ Company \notin DutyIds /\ Company \notin CapacityIds
<1>1. PICK k : k = Kinds
  OBVIOUS
<1>2. /\ DOMAIN k = 1..6
      /\ k[1] = Approvals /\ k[2] = Delegations /\ k[3] = Holds
      /\ k[4] = DutyIds /\ k[5] = CapacityIds /\ k[6] = {Company}
  BY <1>1 DEF Kinds
<1>3. \A i, j \in 1..6 : i # j => k[i] \cap k[j] = {}
  BY <1>1, <1>2, OrgStateAssumption
<1>4. /\ k[1] \cap k[2] = {} /\ k[1] \cap k[3] = {} /\ k[2] \cap k[3] = {}
      /\ k[1] \cap k[4] = {} /\ k[2] \cap k[4] = {} /\ k[3] \cap k[4] = {}
      /\ k[1] \cap k[5] = {} /\ k[2] \cap k[5] = {} /\ k[3] \cap k[5] = {}
      /\ k[1] \cap k[6] = {} /\ k[2] \cap k[6] = {} /\ k[3] \cap k[6] = {}
      /\ k[4] \cap k[6] = {} /\ k[5] \cap k[6] = {}
  BY <1>3
<1>. QED
  BY <1>2, <1>4 DEF Expirables

\* A record that expires keeps its term, or is released for good.
Keeps(id) ==
  store[id] # NoRecord =>
    /\ store'[id] # NoRecord
    /\ store'[id].expires = store[id].expires \/ store'[id].status = "RELEASED"
    /\ store[id].status = "RELEASED" => store'[id].status = "RELEASED"

\* Times and expiries are numbers.
LEMMA Numbers ==
  /\ \A x \in Expiry : x \in Int
  /\ \A x \in Times : x \in Int /\ x \in Nat
BY OrgStateAssumption DEF Expiry, Times, Never

\* What has an expiry.
LEMMA ExpiryOf ==
  ASSUME StoreSound, NEW id \in Expirables, store[id] # NoRecord
  PROVE  store[id].expires \in Expiry
BY DEF StoreSound, Sound, Expirables, Ids, ApprovalRecords, DelegationRecords, HoldRecords

\* Clocks only go forward, so what lapsed stays lapsed.
LEMMA LapsedKeeps ==
  ASSUME LapsedSound, StoreSound, clock' \in [Services -> Times],
         \A s \in Services : clock[s] <= clock'[s],
         lapsed' = lapsed, \A id \in Expirables : Keeps(id)
  PROVE  LapsedSound'
<1>1. ASSUME NEW s \in Services, NEW id \in lapsed[s]
      PROVE  /\ store'[id] # NoRecord
             /\ ExpiredAt(store'[id].expires, clock'[s]) \/ store'[id].status = "RELEASED"
  <2>1. id \in Expirables /\ store[id] # NoRecord
        /\ (store[id].expires <= clock[s] \/ store[id].status = "RELEASED")
    BY DEF LapsedSound, ExpiredAt
  <2>2. /\ store[id].expires \in Int /\ clock[s] \in Int /\ clock'[s] \in Int
        /\ clock[s] <= clock'[s]
    BY <2>1, ExpiryOf, Numbers DEF LapsedSound
  <2>. QED
    BY <2>1, <2>2 DEF Keeps, ExpiredAt
<1>. QED
  BY <1>1 DEF LapsedSound

\* A trusted clock goes forward, and those of other instances stay.
LEMMA ReadsForward ==
  ASSUME LapsedSound, NEW s \in Services, NEW now \in Times, Reads(s, now)
  PROVE  clock' \in [Services -> Times] /\ \A x \in Services : clock[x] <= clock'[x]
<1>1. \A x \in Services : clock[x] \in Int
  BY Numbers DEF LapsedSound
<1>. QED
  BY <1>1, Numbers DEF LapsedSound, Reads

\* The record that a write puts, one revision after the one it read.
Advanced(id, record) == [record EXCEPT !.revision = store[id].revision + 1]

\* A service prepares a write.
Writes(s, now, id, next) ==
  /\ Sound(id, next) /\ Makes(id, store[id], next)
  /\ Reads(s, now)
  /\ calls' = [calls EXCEPT ![s] =
       [ id |-> id,
         expected |-> IF store[id] = NoRecord THEN NoRevision ELSE store[id].revision,
         record |-> next ]]
  /\ changes' = changes + 1
  /\ UNCHANGED <<store, lapsed, facts>>

\* What an operation prepares is a write of the advanced record.
LEMMA PrepareWrites ==
  ASSUME NEW s, NEW now, NEW id, NEW record, Prepare(s, now, id, record),
         NEW next, next = Advanced(id, record), Sound(id, next), Makes(id, store[id], next)
  PROVE  Writes(s, now, id, next)
BY DEF Prepare, Writes, Advanced

\* A write that is prepared leaves the records alone and is on its way.
LEMMA WriteKeeps ==
  ASSUME OrgInv, changes < MaxChanges, NEW s \in Services, NEW now \in Times, NEW id \in Ids,
         NEW next, Writes(s, now, id, next)
  PROVE  OrgInv'
<1>1. /\ changes \in Nat /\ changes' = changes + 1 /\ changes' \in 0..MaxChanges
      /\ UNCHANGED <<store, lapsed, facts>>
  BY OrgStateAssumption DEF Writes, OrgInv
<1>2. StoreSound'
  BY <1>1 DEF OrgInv, StoreSound, Sound, Revisions
<1>3. LapsedSound'
  BY <1>1, ReadsForward, LapsedKeeps DEF OrgInv, Writes, Keeps
<1>4. FactsSound'
  BY <1>1 DEF OrgInv, FactsSound, PlanSound, facts, planned, Configured
<1>5. CallsSound'
  <2>1. PICK c : c = [ id |-> id,
                       expected |-> IF store[id] = NoRecord THEN NoRevision ELSE store[id].revision,
                       record |-> next ]
    OBVIOUS
  <2>2. calls' = [calls EXCEPT ![s] = c]
    BY <2>1 DEF Writes
  <2>3. next.revision = store[id].revision + 1
    BY DEF Writes, Makes, Follows
  <2>4. /\ c.id = id /\ c.record = next
        /\ store[id] = NoRecord => c.expected = NoRevision /\ next.revision = 1
        /\ store[id] # NoRecord => c.expected = store[id].revision
    BY <2>1, <2>3 DEF NoRecord
  <2>5. store[id] # NoRecord => store[id].revision \in Nat \ {0} /\ store[id].revision <= changes
    BY DEF OrgInv, StoreSound, Sound, Revisions
  <2>6. next.revision <= changes + 1
    BY <1>1, <2>3, <2>5 DEF NoRecord
  <2>7. OnItsWay(c)'
    <3>1. Sound(id, next) /\ Makes(id, store[id], next)
      BY DEF Writes
    <3>2. /\ c.expected = NoRevision => next.revision = 1
          /\ c.expected # NoRevision =>
               /\ store[id] # NoRecord /\ c.expected \in Nat
               /\ c.expected = store[id].revision
      BY <2>4, <2>5 DEF NoRevision
    <3>. QED
      BY <1>1, <2>4, <2>5, <2>6, <3>1, <3>2 DEF OnItsWay
  <2>8. ASSUME NEW x \in Services, x # s, calls[x] # NoCall PROVE OnItsWay(calls[x])'
    <3>1. calls'[x] = calls[x] /\ OnItsWay(calls[x])
      BY <2>2, <2>8 DEF OrgInv, CallsSound
    <3>2. calls[x].record.revision \in Nat
      BY <3>1 DEF OnItsWay, Sound, Revisions
    <3>. QED
      BY <1>1, <3>1, <3>2 DEF OnItsWay
  <2>. QED
    BY <2>2, <2>7, <2>8 DEF OrgInv, CallsSound
<1>. QED
  BY <1>1, <1>2, <1>3, <1>4, <1>5 DEF OrgInv

-----------------------------------------------------------------------------
(* Every operation that writes prepares a record that follows the one that  *)
(* it read.                                                                 *)

\* A write is a step of an instance, of one record.
Prepared(s, now) == \E id \in Ids : \E next : Writes(s, now, id, next)

\* What there is to know of a record before a write.
LEMMA Present ==
  ASSUME OrgInv, changes < MaxChanges, NEW id \in Ids
  PROVE  /\ store[id].revision + 1 \in Revisions
         /\ store[id] # NoRecord => Sound(id, store[id])
<1>1. changes \in Nat /\ MaxChanges \in Nat
  BY OrgStateAssumption DEF OrgInv
<1>2. CASE store[id] = NoRecord
  BY <1>1, <1>2 DEF NoRecord, Revisions
<1>3. CASE store[id] # NoRecord
  BY <1>1, <1>3 DEF OrgInv, StoreSound, Sound, Revisions
<1>. QED
  BY <1>2, <1>3

\* An approval is created, once.
LEMMA CreateApprovalWrites ==
  ASSUME OrgInv, changes < MaxChanges, NEW s, NEW now, NEW a \in Approvals,
         CreateApproval(s, now, a)
  PROVE  Prepared(s, now)
<1>1. PICK job \in Jobs, expires \in Expiry :
        Prepare(s, now, a,
          [ revision |-> 0, status |-> "REQUESTED", job |-> job, expires |-> expires,
            approver |-> None ])
  BY DEF CreateApproval
<1>2. PICK r : r = [ revision |-> 0, status |-> "REQUESTED", job |-> job, expires |-> expires,
                     approver |-> None ]
  OBVIOUS
<1>3. a \in Ids /\ store[a] = NoRecord /\ Prepare(s, now, a, r)
  BY <1>1, <1>2 DEF Ids, CreateApproval
<1>4. PICK next : next = Advanced(a, r)
  OBVIOUS
<1>5. next = [ revision |-> store[a].revision + 1, status |-> "REQUESTED", job |-> job,
               expires |-> expires, approver |-> None ]
  BY <1>2, <1>4 DEF Advanced
<1>6. store[a].revision + 1 \in Revisions
  BY <1>3, Present
<1>7. Sound(a, next)
  BY <1>5, <1>6, KindsApart DEF Sound, ApprovalRecords, Expirables
<1>8. Makes(a, store[a], next)
  BY <1>3, <1>5 DEF Makes, Follows
<1>. QED
  BY <1>3, <1>4, <1>7, <1>8, PrepareWrites DEF Prepared

\* An approval that was requested is decided.
LEMMA DecideApprovalWrites ==
  ASSUME OrgInv, changes < MaxChanges, NEW s, NEW now, NEW a \in Approvals,
         DecideApproval(s, now, a)
  PROVE  Prepared(s, now)
<1>1. a \in Ids /\ store[a] # NoRecord /\ store[a].status = "REQUESTED"
  BY DEF Ids, DecideApproval
<1>2. PICK status, approver, r :
        /\ status \in {"APPROVED", "REJECTED", "CANCELLED"} /\ approver \in Agents \cup {None}
        /\ r = [ store[a] EXCEPT !.status = status,
                                 !.approver = IF status = "CANCELLED" THEN None ELSE approver ]
        /\ Prepare(s, now, a, r)
  BY DEF DecideApproval
<1>3. /\ store[a].revision + 1 \in Revisions /\ store[a] \in ApprovalRecords
  BY <1>1, Present DEF Sound
<1>4. PICK next : next = Advanced(a, r)
  OBVIOUS
<1>5. /\ r \in ApprovalRecords /\ r.job = store[a].job /\ r.expires = store[a].expires
  BY <1>2, <1>3 DEF ApprovalRecords
<1>6. /\ next \in ApprovalRecords /\ next.revision = store[a].revision + 1
      /\ next.job = r.job /\ next.expires = r.expires /\ next.status = r.status
      /\ next.approver = r.approver
  BY <1>3, <1>4, <1>5 DEF ApprovalRecords, Advanced
<1>7. r.status = "APPROVED" => r.approver # None
  BY <1>2 DEF Prepare, Valid, ValidApproval
<1>8. Sound(a, next)
  BY <1>3, <1>6, <1>7, KindsApart DEF Sound, Expirables
<1>9. Makes(a, store[a], next)
  BY <1>1, <1>5, <1>6, KindsApart DEF Makes, Follows, Expirables
<1>. QED
  BY <1>1, <1>2, <1>4, <1>8, <1>9, PrepareWrites DEF Prepared

\* A delegation is granted, once.
LEMMA GrantDelegationWrites ==
  ASSUME OrgInv, changes < MaxChanges, NEW s, NEW now, NEW g \in Delegations,
         GrantDelegation(s, now, g)
  PROVE  Prepared(s, now)
<1>1. PICK grantee, from, expires, r :
        /\ grantee \in Agents /\ from \in Times /\ expires \in Expiry
        /\ r = [ revision |-> 0, status |-> "ACTIVE", grantee |-> grantee,
                 from |-> from, expires |-> expires ]
        /\ Prepare(s, now, g, r)
  BY DEF GrantDelegation
<1>2. g \in Ids /\ store[g] = NoRecord
  BY DEF Ids, GrantDelegation
<1>3. PICK next : next = Advanced(g, r)
  OBVIOUS
<1>4. next = [ revision |-> store[g].revision + 1, status |-> "ACTIVE", grantee |-> grantee,
               from |-> from, expires |-> expires ]
  BY <1>1, <1>3 DEF Advanced
<1>5. from < expires
  BY <1>1 DEF Prepare, Valid, ValidDelegation
<1>6. store[g].revision + 1 \in Revisions
  BY <1>2, Present
<1>7. Sound(g, next)
  BY <1>1, <1>4, <1>5, <1>6, KindsApart DEF Sound, DelegationRecords, Expirables
<1>8. Makes(g, store[g], next)
  BY <1>2, <1>4 DEF Makes, Follows
<1>. QED
  BY <1>1, <1>2, <1>3, <1>7, <1>8, PrepareWrites DEF Prepared

\* A delegation that is active is revoked.
LEMMA RevokeDelegationWrites ==
  ASSUME OrgInv, changes < MaxChanges, NEW s, NEW now, NEW g \in Delegations,
         RevokeDelegation(s, now, g)
  PROVE  Prepared(s, now)
<1>1. PICK r : r = [store[g] EXCEPT !.status = "REVOKED"] /\ Prepare(s, now, g, r)
  BY DEF RevokeDelegation
<1>2. g \in Ids /\ store[g] # NoRecord /\ store[g].status = "ACTIVE"
  BY DEF Ids, RevokeDelegation
<1>3. /\ store[g].revision + 1 \in Revisions
      /\ store[g] \in DelegationRecords /\ store[g].from < store[g].expires
  BY <1>2, Present DEF Sound
<1>4. PICK next : next = Advanced(g, r)
  OBVIOUS
<1>5. /\ r \in DelegationRecords
      /\ r.grantee = store[g].grantee /\ r.expires = store[g].expires /\ r.from = store[g].from
  BY <1>1, <1>3 DEF DelegationRecords
<1>6. /\ next \in DelegationRecords /\ next.revision = store[g].revision + 1
      /\ next.grantee = r.grantee /\ next.expires = r.expires /\ next.from = r.from
  BY <1>3, <1>4, <1>5 DEF DelegationRecords, Advanced
<1>7. Sound(g, next)
  BY <1>3, <1>5, <1>6, KindsApart DEF Sound, Expirables
<1>8. Makes(g, store[g], next)
  BY <1>2, <1>5, <1>6, KindsApart DEF Makes, Follows, Expirables
<1>. QED
  BY <1>1, <1>2, <1>4, <1>7, <1>8, PrepareWrites DEF Prepared

\* A hold is placed, once.
LEMMA CreateHoldWrites ==
  ASSUME OrgInv, changes < MaxChanges, NEW s, NEW now, NEW h \in Holds, CreateHold(s, now, h)
  PROVE  Prepared(s, now)
<1>1. PICK job, bound, expires, r :
        /\ job \in Jobs /\ bound \in Incidents \cup {None} /\ expires \in Expiry
        /\ r = [ revision |-> 0, status |-> "ACTIVE", job |-> job, incident |-> bound,
                 expires |-> expires ]
        /\ Prepare(s, now, h, r)
  BY DEF CreateHold
<1>2. h \in Ids /\ store[h] = NoRecord
  BY DEF Ids, CreateHold
<1>3. PICK next : next = Advanced(h, r)
  OBVIOUS
<1>4. next = [ revision |-> store[h].revision + 1, status |-> "ACTIVE", job |-> job,
               incident |-> bound, expires |-> expires ]
  BY <1>1, <1>3 DEF Advanced
<1>5. store[h].revision + 1 \in Revisions
  BY <1>2, Present
<1>6. Sound(h, next)
  BY <1>1, <1>4, <1>5, KindsApart DEF Sound, HoldRecords, Expirables
<1>7. Makes(h, store[h], next)
  BY <1>2, <1>4 DEF Makes, Follows
<1>. QED
  BY <1>1, <1>2, <1>3, <1>6, <1>7, PrepareWrites DEF Prepared

\* A hold that is in force is released; its record says that it does not expire.
LEMMA ReleaseHoldWrites ==
  ASSUME OrgInv, changes < MaxChanges, NEW s, NEW now, NEW h \in Holds, NEW ref,
         ReleaseHold(s, now, h, ref)
  PROVE  Prepared(s, now)
<1>1. PICK r : /\ r = [store[h] EXCEPT !.status = "RELEASED", !.expires = Never]
               /\ Prepare(s, now, h, r)
  BY DEF ReleaseHold
<1>2. h \in Ids /\ store[h] # NoRecord /\ store[h].status = "ACTIVE"
  BY DEF Ids, ReleaseHold
<1>3. store[h].revision + 1 \in Revisions /\ store[h] \in HoldRecords
  BY <1>2, Present DEF Sound
<1>4. PICK next : next = Advanced(h, r)
  OBVIOUS
<1>5. Never \in Expiry
  BY DEF Expiry
<1>6. /\ r \in HoldRecords /\ r.status = "RELEASED"
      /\ r.job = store[h].job /\ r.incident = store[h].incident
  BY <1>1, <1>3, <1>5 DEF HoldRecords
<1>7. /\ next \in HoldRecords /\ next.revision = store[h].revision + 1
      /\ next.status = r.status /\ next.job = r.job /\ next.incident = r.incident
  BY <1>3, <1>4, <1>6 DEF HoldRecords, Advanced
<1>8. Sound(h, next)
  BY <1>3, <1>7, KindsApart DEF Sound, Expirables
<1>9. Makes(h, store[h], next)
  BY <1>2, <1>6, <1>7, KindsApart DEF Makes, Follows, Expirables
<1>. QED
  BY <1>1, <1>2, <1>4, <1>8, <1>9, PrepareWrites DEF Prepared

\* A duty or a capacity is set, whatever it said before.
LEMMA LevelWrites ==
  ASSUME OrgInv, changes < MaxChanges, NEW s, NEW now, NEW d \in DutyIds \cup CapacityIds,
         SetDuty(s, now, d) \/ SetCapacity(s, now, d)
  PROVE  Prepared(s, now)
<1>1. PICK subject, level, r :
        /\ r = [revision |-> 0, subject |-> subject, level |-> level, updated |-> now]
        /\ Prepare(s, now, d, r)
  BY DEF SetDuty, SetCapacity
<1>2. d \in Ids /\ d \notin Expirables /\ d # Company
  BY KindsApart DEF Ids
<1>3. PICK next : next = Advanced(d, r)
  OBVIOUS
<1>4. next.revision = store[d].revision + 1
  BY <1>1, <1>3 DEF Advanced
<1>5. Sound(d, next)
  BY <1>2, <1>4, Present DEF Sound, Expirables
<1>6. Makes(d, store[d], next)
  BY <1>2, <1>4 DEF Makes, Follows, Expirables
<1>. QED
  BY <1>1, <1>2, <1>3, <1>5, <1>6, PrepareWrites DEF Prepared

\* The company state is set; what lowers it names a cause of the present one.
LEMMA SetCompanyStateWrites ==
  ASSUME OrgInv, changes < MaxChanges, NEW s, NEW now, SetCompanyState(s, now)
  PROVE  Prepared(s, now)
<1>1. PICK state, refs, causes, r :
        /\ state \in InputStates /\ refs \in SUBSET Refs /\ causes \in CauseSets(refs)
        /\ (store[Company] # NoRecord /\ Rank[state] > Rank[store[Company].state])
             => causes \cap store[Company].causes # {}
        /\ r = [revision |-> 0, state |-> state, causes |-> causes]
        /\ Prepare(s, now, Company, r)
  BY DEF SetCompanyState
<1>2. Company \in Ids /\ Company \notin Expirables
  BY KindsApart DEF Ids
<1>3. PICK next : next = Advanced(Company, r)
  OBVIOUS
<1>4. next = [revision |-> store[Company].revision + 1, state |-> state, causes |-> causes]
  BY <1>1, <1>3 DEF Advanced
<1>5. causes \in SUBSET Refs /\ state \in CompanyStates
  BY <1>1, OrgStateAssumption DEF CauseSets, kSubset
<1>6. Cardinality(causes) <= MaxCauses
  BY <1>1 DEF Prepare, Valid, ValidCompanyState
<1>7. Sound(Company, next)
  BY <1>2, <1>4, <1>5, <1>6, Present DEF Sound, Expirables, CompanyRecords
<1>8. Makes(Company, store[Company], next)
  BY <1>1, <1>2, <1>4 DEF Makes, Follows, Expirables
<1>. QED
  BY <1>1, <1>2, <1>3, <1>7, <1>8, PrepareWrites DEF Prepared

\* Every operation that writes preserves the invariant.
LEMMA WriteInv ==
  ASSUME OrgInv, NEW s \in Services, NEW now \in Times, Write(s, now) PROVE OrgInv'
<1>1. changes < MaxChanges
  BY DEF Write
<1>2. Prepared(s, now)
  BY <1>1, CreateApprovalWrites, DecideApprovalWrites, GrantDelegationWrites,
     RevokeDelegationWrites, CreateHoldWrites, ReleaseHoldWrites, LevelWrites,
     SetCompanyStateWrites DEF Write
<1>. QED
  BY <1>1, <1>2, WriteKeeps DEF Prepared

-----------------------------------------------------------------------------
(* The put, and every other step.                                           *)

\* What the store accepts follows the record that is there.
LEMMA PutMakes ==
  ASSUME OrgInv, NEW s \in Services, calls[s] # NoCall,
         NEW c, c = calls[s], RevisionMatches(c.id, c.expected, c.record)
  PROVE  /\ c.id \in Ids /\ Sound(c.id, c.record) /\ c.record.revision <= changes
         /\ Makes(c.id, store[c.id], c.record)
<1>1. OnItsWay(c)
  BY DEF OrgInv, CallsSound
<1>2. CASE c.expected = NoRevision
  <2>1. store[c.id] = NoRecord /\ c.record.revision = 1
    BY <1>2 DEF RevisionMatches
  <2>2. Makes(c.id, store[c.id], c.record)
    BY <2>1 DEF Makes, Follows, NoRecord
  <2>. QED
    BY <1>1, <2>2 DEF OnItsWay
<1>3. CASE c.expected # NoRevision
  BY <1>1, <1>3 DEF OnItsWay, RevisionMatches
<1>. QED
  BY <1>2, <1>3

\* A put, accepted or refused, preserves the invariant: whatever else is on its
\* way to the same record was made from an older revision now.
LEMMA PutInv ==
  ASSUME OrgInv, NEW s \in Services, Put(s) PROVE OrgInv'
<1>1. PICK c : c = calls[s]
  OBVIOUS
<1>2. /\ c # NoCall /\ calls' = [calls EXCEPT ![s] = NoCall]
      /\ UNCHANGED <<clock, lapsed, facts, changes>>
  BY <1>1 DEF Put
<1>3. FactsSound'
  BY <1>2 DEF OrgInv, FactsSound, PlanSound, facts, planned
<1>4. CASE ~RevisionMatches(c.id, c.expected, c.record)
  <2>1. store' = store
    BY <1>1, <1>4 DEF Put
  <2>2. StoreSound' /\ LapsedSound'
    BY <1>2, <2>1 DEF OrgInv, StoreSound, LapsedSound
  <2>3. ASSUME NEW x \in Services, calls'[x] # NoCall PROVE OnItsWay(calls[x])' 
    <3>1. calls'[x] = calls[x] /\ OnItsWay(calls[x])
      BY <1>2, <2>3 DEF OrgInv, CallsSound
    <3>. QED
      BY <1>2, <2>1, <3>1 DEF OnItsWay
  <2>4. CallsSound'
    BY <1>2, <2>3 DEF OrgInv, CallsSound
  <2>. QED
    BY <1>2, <1>3, <2>2, <2>4 DEF OrgInv
<1>5. CASE RevisionMatches(c.id, c.expected, c.record)
  <2>1. PICK id, new : id = c.id /\ new = c.record
    OBVIOUS
  <2>2. store' = [store EXCEPT ![id] = new]
    BY <1>1, <1>5, <2>1 DEF Put
  <2>3. id \in Ids /\ Sound(id, new) /\ new.revision <= changes /\ Makes(id, store[id], new)
    BY <1>1, <1>2, <1>5, <2>1, PutMakes
  <2>4. store' = [i \in Ids |-> store'[i]] /\ store'[id] = new
        /\ \A i \in Ids \ {id} : store'[i] = store[i]
    BY <2>2, <2>3 DEF OrgInv, StoreSound
  <2>5. StoreSound'
    BY <1>2, <2>3, <2>4 DEF OrgInv, StoreSound
  <2>6. new # NoRecord /\ new.revision \in Nat /\ new.revision = store[id].revision + 1
    BY <2>3 DEF Sound, Makes, Follows, NoRecord, Revisions
  <2>7. ASSUME NEW x \in Services, calls'[x] # NoCall PROVE OnItsWay(calls[x])'
    <3>1. PICK d : d = calls[x]
      OBVIOUS
    <3>2. calls'[x] = d /\ OnItsWay(d)
      BY <1>2, <2>7, <3>1 DEF OrgInv, CallsSound
    <3>3. CASE d.id # id
      <4>1. d.id \in Ids /\ store'[d.id] = store[d.id]
        BY <2>4, <3>2, <3>3 DEF OnItsWay
      <4>. QED
        BY <1>2, <3>2, <4>1 DEF OnItsWay
    <3>4. CASE d.id = id
      <4>1. ASSUME d.expected # NoRevision PROVE d.expected \in Nat /\ d.expected < new.revision
        <5>1. /\ store[id] # NoRecord
              /\ d.expected \in Nat /\ d.expected <= store[id].revision
          BY <3>2, <3>4, <4>1 DEF OnItsWay
        <5>2. store[id].revision \in Nat
          BY <2>3, <5>1 DEF OrgInv, StoreSound, Sound, Revisions
        <5>. QED
          BY <2>6, <5>1, <5>2
      <4>2. d.expected # NoRevision => d.expected <= new.revision /\ d.expected # new.revision
        BY <2>6, <4>1
      <4>. QED
        BY <1>2, <2>4, <2>6, <3>2, <3>4, <4>1, <4>2 DEF OnItsWay
    <3>. QED
      BY <3>3, <3>4
  <2>8. CallsSound'
    BY <1>2, <2>7 DEF OrgInv, CallsSound
  <2>9. ASSUME NEW i \in Expirables PROVE Keeps(i)
    <3>1. CASE i # id
      <4>1. i \in Ids
        BY DEF Ids, Expirables
      <4>. QED
        BY <2>4, <3>1, <4>1 DEF Keeps
    <3>2. CASE i = id /\ store[id] # NoRecord
      <4>1. Follows(id, store[id], new) /\ (id \in Holds => new.status = "RELEASED")
        BY <2>3, <3>2 DEF Makes
      <4>. QED
        BY <2>4, <2>6, <3>2, <4>1 DEF Keeps, Follows, Expirables
    <3>. QED
      BY <3>1, <3>2 DEF Keeps
  <2>10. LapsedSound'
    <3>1. clock' \in [Services -> Times] /\ \A x \in Services : clock[x] <= clock'[x]
      BY <1>2, Numbers DEF OrgInv, LapsedSound
    <3>. QED
      BY <1>2, <2>9, <3>1, LapsedKeeps DEF OrgInv
  <2>. QED
    BY <1>2, <1>3, <2>5, <2>8, <2>10 DEF OrgInv
<1>. QED
  BY <1>4, <1>5

\* An evaluation reads the clock and remembers what it saw expire.
LEMMA EvaluateInv ==
  ASSUME OrgInv, NEW s \in Services, NEW now \in Times, Evaluate(s, now) PROVE OrgInv'
<1>1. /\ UNCHANGED <<store, calls, incident, events, hours, workforce, down, changes>>
      /\ clock' = [clock EXCEPT ![s] = now] /\ clock[s] <= now
      /\ calendarTime' = Observed(now)
      /\ lapsed' = [lapsed EXCEPT ![s] = @ \cup Expirable(now)]
  BY Numbers DEF Evaluate, Reads, OrgInv, LapsedSound
<1>2. StoreSound' /\ CallsSound'
  BY <1>1 DEF OrgInv, StoreSound, CallsSound, OnItsWay
<1>3. calendarTime' \in Times
  BY <1>1 DEF Observed, OrgInv, FactsSound, PlanSound
<1>4. FactsSound'
  BY <1>1, <1>3 DEF OrgInv, FactsSound, PlanSound
<1>5. PICK seen : seen = Expirable(now)
  OBVIOUS
<1>6. seen \in SUBSET Expirables /\ \A id \in seen : store[id] # NoRecord /\ store[id].expires <= now
  BY <1>5 DEF Expirable, Expirables, ExpiredAt
<1>7. clock' \in [Services -> Times] /\ lapsed' \in [Services -> SUBSET Expirables]
  BY <1>1, <1>5, <1>6 DEF OrgInv, LapsedSound
<1>8. ASSUME NEW x \in Services, NEW id \in lapsed'[x]
      PROVE  /\ store[id] # NoRecord
             /\ store[id].expires <= clock'[x] \/ store[id].status = "RELEASED"
  <2>1. CASE x # s
    BY <1>1, <1>8, <2>1 DEF OrgInv, LapsedSound, ExpiredAt
  <2>2. CASE x = s /\ id \in seen
    BY <1>1, <1>6, <2>2 DEF OrgInv, LapsedSound
  <2>3. CASE x = s /\ id \in lapsed[s]
    <3>1. /\ id \in Expirables /\ store[id] # NoRecord
          /\ store[id].expires <= clock[s] \/ store[id].status = "RELEASED"
      BY <2>3 DEF OrgInv, LapsedSound, ExpiredAt
    <3>2. store[id].expires \in Int /\ clock[s] \in Int /\ now \in Int /\ clock'[x] = now
      BY <1>1, <2>3, <3>1, ExpiryOf, Numbers DEF OrgInv, LapsedSound
    <3>. QED
      BY <1>1, <3>1, <3>2
  <2>. QED
    BY <1>1, <1>5, <1>8, <2>1, <2>2, <2>3 DEF OrgInv, LapsedSound
<1>9. LapsedSound'
  BY <1>1, <1>7, <1>8 DEF LapsedSound, ExpiredAt
<1>. QED
  BY <1>1, <1>2, <1>4, <1>9 DEF OrgInv

\* Facts of other services change: records and writes stay, one more change is counted.
LEMMA ChangingKeeps ==
  ASSUME OrgInv, Changing, FactsSound' PROVE OrgInv'
<1>1. /\ changes \in Nat /\ changes' = changes + 1 /\ changes' \in 0..MaxChanges
      /\ UNCHANGED <<store, calls, clock, lapsed>>
  BY OrgStateAssumption DEF Changing, OrgInv
<1>2. StoreSound'
  BY <1>1 DEF OrgInv, StoreSound, Sound, Revisions
<1>3. ASSUME NEW x \in Services, calls[x] # NoCall PROVE OnItsWay(calls[x])'
  <2>1. OnItsWay(calls[x]) /\ calls[x].record.revision \in Nat
    BY <1>3 DEF OrgInv, CallsSound, OnItsWay, Sound, Revisions
  <2>. QED
    BY <1>1, <2>1 DEF OnItsWay
<1>4. CallsSound' /\ LapsedSound'
  BY <1>1, <1>3 DEF OrgInv, CallsSound, LapsedSound
<1>. QED
  BY <1>1, <1>2, <1>4 DEF OrgInv

\* The plan: events pass their validator, and there is one record of hours.
LEMMA PlanKeeps ==
  ASSUME OrgInv, NEW now \in Times, Plan(now) PROVE OrgInv'
<1>1. Changing /\ UNCHANGED <<incident, workforce, down>> /\ FactsSound
  BY DEF Plan, OrgInv
<1>2. Observed(now) \in Times
  BY <1>1 DEF Observed, FactsSound, PlanSound
<1>3. ASSUME NEW e \in Events, CreateEvent(e, now) \/ ChangeEvent(e, now) PROVE PlanSound'
  <2>1. PICK r : ValidEvent(r) /\ events' = [events EXCEPT ![e] = r]
    BY <1>3 DEF CreateEvent, ChangeEvent
  <2>2. calendarTime' \in Times /\ hours' = hours
    BY <1>2, <1>3 DEF CreateEvent, ChangeEvent
  <2>. QED
    BY <1>1, <2>1, <2>2 DEF FactsSound, PlanSound
<1>4. ASSUME NEW h \in HoursIds, SetCompanyHours(h, now) PROVE PlanSound'
  <2>1. /\ hours[h] # NoPlan \/ \A other \in HoursIds : hours[other] = NoPlan
        /\ \E r : hours' = [hours EXCEPT ![h] = r]
        /\ calendarTime' \in Times /\ events' = events
    BY <1>2, <1>4 DEF SetCompanyHours
  <2>2. PICK r : hours' = [hours EXCEPT ![h] = r]
    BY <2>1
  <2>3. \A g \in HoursIds \ {h} : hours'[g] = NoPlan
    BY <1>1, <2>1, <2>2 DEF FactsSound, PlanSound
  <2>. QED
    BY <1>1, <2>1, <2>2, <2>3 DEF FactsSound, PlanSound
<1>5. PlanSound'
  BY <1>3, <1>4 DEF Plan
<1>6. FactsSound'
  BY <1>1, <1>5 DEF FactsSound
<1>. QED
  BY <1>1, <1>6, ChangingKeeps

\* The other facts.
LEMMA FactsKeep ==
  ASSUME OrgInv,
         \/ \E i \in Incidents : OpenIncident(i) \/ EndIncident(i)
         \/ \E a \in Agents : ChangeWorker(a)
         \/ \E seam \in Seams : BreakSeam(seam) \/ RepairSeam(seam)
  PROVE  OrgInv'
<1>1. FactsSound
  BY DEF OrgInv
<1>2. ASSUME NEW i \in Incidents, OpenIncident(i) PROVE OrgInv'
  <2>1. PICK f, r :
          /\ f \in IncidentFacts
          /\ r = [ status |-> "OPEN", class |-> f.class, severity |-> f.severity,
                   affected |-> f.affected ]
          /\ incident' = [incident EXCEPT ![i] = r]
    BY <1>2 DEF OpenIncident
  <2>2. r \in IncidentRecords
    BY <2>1, FactsAssumption DEF IncidentRecords
  <2>3. incident' \in [Incidents -> IncidentRecords \cup {NoIncident}]
    BY <1>1, <2>1, <2>2 DEF FactsSound
  <2>4. FactsSound'
    BY <1>1, <1>2, <2>3 DEF FactsSound, PlanSound, OpenIncident, planned
  <2>. QED
    BY <1>2, <2>4, ChangingKeeps DEF OpenIncident
<1>3. ASSUME NEW i \in Incidents, EndIncident(i) PROVE OrgInv'
  <2>1. PICK r : /\ r = [incident[i] EXCEPT !.status = "RESOLVED"]
                 /\ incident' = [incident EXCEPT ![i] = r]
    BY <1>3 DEF EndIncident
  <2>2. incident[i] \in IncidentRecords
    BY <1>1, <1>3 DEF EndIncident, FactsSound, NoIncident
  <2>3. r \in IncidentRecords
    BY <2>1, <2>2 DEF IncidentRecords
  <2>4. incident' \in [Incidents -> IncidentRecords \cup {NoIncident}]
    BY <1>1, <2>1, <2>3 DEF FactsSound
  <2>5. FactsSound'
    BY <1>1, <1>3, <2>4 DEF FactsSound, PlanSound, EndIncident, planned
  <2>. QED
    BY <1>3, <2>5, ChangingKeeps DEF EndIncident
<1>4. ASSUME NEW a \in Agents, ChangeWorker(a) PROVE OrgInv'
  <2>1. FactsSound'
    BY <1>1, <1>4 DEF FactsSound, PlanSound, ChangeWorker, planned
  <2>. QED
    BY <1>4, <2>1, ChangingKeeps DEF ChangeWorker
<1>5. ASSUME NEW seam \in Seams, BreakSeam(seam) \/ RepairSeam(seam) PROVE OrgInv'
  <2>1. FactsSound'
    BY <1>1, <1>5 DEF FactsSound, PlanSound, BreakSeam, RepairSeam, planned
  <2>. QED
    BY <1>5, <2>1, ChangingKeeps DEF BreakSeam, RepairSeam
<1>. QED
  BY <1>2, <1>3, <1>4, <1>5

-----------------------------------------------------------------------------
(* The invariant holds throughout.                                          *)

\* The initial states satisfy the invariant.
LEMMA OrgInitInv == ASSUME OrgInit PROVE OrgInv
<1>1. 0 \in Times /\ 0 \in 0..MaxChanges
  BY OrgStateAssumption DEF Times
<1>2. StoreSound /\ CallsSound
  BY DEF OrgInit, StoreSound, CallsSound
<1>3. LapsedSound
  BY <1>1 DEF OrgInit, LapsedSound
<1>4. FactsSound
  BY <1>1 DEF OrgInit, FactsSound, PlanSound
<1>. QED
  BY <1>1, <1>2, <1>3, <1>4 DEF OrgInv, OrgInit

\* Every step preserves it.
LEMMA OrgStepInv ==
  ASSUME OrgInv, [OrgNext]_orgVars PROVE OrgInv'
<1>1. CASE UNCHANGED orgVars
  BY <1>1 DEF orgVars, facts, planned, OrgInv, StoreSound, CallsSound, OnItsWay, LapsedSound,
              FactsSound, PlanSound
<1>2. CASE OrgNext
  BY <1>2, WriteInv, EvaluateInv, PutInv, PlanKeeps, FactsKeep DEF OrgNext
<1>. QED
  BY <1>1, <1>2

\* So it holds throughout.
LEMMA OrgInvAlways == OrgSpec => []OrgInv
<1>1. OrgInit => OrgInv
  BY OrgInitInv
<1>2. OrgInv /\ [OrgNext]_orgVars => OrgInv'
  BY OrgStepInv
<1>. QED
  BY <1>1, <1>2, PTL DEF OrgSpec

\* The invariant gives the types.
LEMMA InvType == ASSUME OrgInv PROVE OrgTypeOK
<1>1. StoreSound /\ LapsedSound /\ FactsSound /\ PlanSound
  BY DEF OrgInv, FactsSound
<1>2. \A id \in Ids : store[id] # NoRecord => Sound(id, store[id])
  BY <1>1 DEF StoreSound
<1>3. Cardinality(Configured) <= 1
  <2>1. CASE Configured = {}
    BY <2>1, FS_EmptySet
  <2>2. CASE Configured # {}
    <3>1. PICK h \in HoursIds : Configured = {h}
      BY <1>1, <2>2 DEF PlanSound, Configured
    <3>. QED
      BY <3>1, FS_Singleton
  <2>. QED
    BY <2>1, <2>2
<1>4. \A a \in Approvals : store[a] # NoRecord =>
        store[a] \in ApprovalRecords /\ (store[a].status = "APPROVED" => store[a].approver # None)
  BY <1>2 DEF Ids, Sound
<1>5. \A g \in Delegations : store[g] # NoRecord =>
        store[g] \in DelegationRecords /\ store[g].from < store[g].expires
  BY <1>2 DEF Ids, Sound
<1>6. \A h \in Holds : store[h] # NoRecord => store[h] \in HoldRecords
  BY <1>2 DEF Ids, Sound
<1>7. store[Company] # NoRecord =>
        store[Company] \in CompanyRecords /\ Cardinality(store[Company].causes) <= MaxCauses
  BY <1>2 DEF Ids, Sound
<1>8. /\ clock \in [Services -> Times] /\ down \subseteq Seams /\ calendarTime \in Times
      /\ \A e \in Events : events[e] # NoPlan => ValidEvent(events[e])
  BY <1>1 DEF LapsedSound, FactsSound, PlanSound
<1>. QED
  BY <1>3, <1>4, <1>5, <1>6, <1>7, <1>8
     DEF OrgTypeOK, ApprovalRecords, DelegationRecords, HoldRecords, CompanyRecords

-----------------------------------------------------------------------------
(* The theorems.                                                            *)

\* Every record passes the validator of its kind, an approval that was given
\* names who gave it, and there is one record of company hours at most, whatever
\* the instances write and whatever their clocks say.
THEOREM OrgTypeCorrect == OrgSpec => []OrgTypeOK
<1>1. OrgInv => OrgTypeOK
  BY InvType
<1>. QED
  BY <1>1, OrgInvAlways, PTL

\* A job is found eligible only when its approval and delegation are given, are
\* for it and have not ended, no hold is in force, every fact could be read, and
\* no incident, closure or company state stands against it
\* (evaluateExecutionInputs and #decide).
THEOREM EligibilityIsSafe == OrgSpec => []EligibleIsSafe
<1>1. OrgInv => EligibleIsSafe
  BY EligibleSafe
<1>. QED
  BY <1>1, OrgInvAlways, PTL

\* What an instance has seen expire it never takes as in force again, although
\* the wall clock may be set back and other instances write meanwhile.
THEOREM LapsedIsFinal == OrgSpec => []LapsedStaysLapsed
<1>1. OrgInv => LapsedStaysLapsed
  BY DEF OrgInv, LapsedSound, LapsedStaysLapsed
<1>. QED
  BY <1>1, OrgInvAlways, PTL

FollowsNow == \A id \in Ids : store'[id] # store[id] => Follows(id, store[id], store'[id])

\* Every step respects WritesBuildOnLatest: only a put writes.
LEMMA FollowsStep ==
  ASSUME OrgInv, [OrgNext]_orgVars PROVE FollowsNow
<1>1. CASE store' = store
  BY <1>1 DEF FollowsNow
<1>2. ASSUME NEW s \in Services, Put(s), store' # store PROVE FollowsNow
  <2>1. PICK c : c = calls[s]
    OBVIOUS
  <2>2. /\ c # NoCall /\ RevisionMatches(c.id, c.expected, c.record)
        /\ store' = [store EXCEPT ![c.id] = c.record]
    BY <1>2, <2>1 DEF Put
  <2>3. c.id \in Ids /\ Makes(c.id, store[c.id], c.record)
    BY <2>1, <2>2, PutMakes
  <2>4. store'[c.id] = c.record /\ \A i \in Ids \ {c.id} : store'[i] = store[i]
    BY <2>2, <2>3 DEF OrgInv, StoreSound
  <2>. QED
    BY <2>3, <2>4 DEF FollowsNow, Makes
<1>3. store' = store \/ \E s \in Services : Put(s)
  <2>1. CASE UNCHANGED orgVars
    BY <2>1 DEF orgVars
  <2>2. ASSUME NEW s \in Services, NEW now \in Times, Write(s, now) PROVE store' = store
    BY <2>2 DEF Write, CreateApproval, DecideApproval, GrantDelegation, RevokeDelegation,
                CreateHold, ReleaseHold, SetDuty, SetCapacity, SetCompanyState, Prepare
  <2>3. ASSUME Changing PROVE store' = store
    BY <2>3 DEF Changing
  <2>. QED
    BY <2>1, <2>2, <2>3
       DEF OrgNext, Evaluate, OpenIncident, EndIncident, Plan, ChangeWorker, BreakSeam, RepairSeam
<1>. QED
  BY <1>1, <1>2, <1>3

\* A record only ever follows the one it was made from: one revision on, with
\* what was agreed kept and what was final untouched, however many instances read
\* the same record and put what they made of it.
THEOREM WritesFollow == OrgSpec => WritesBuildOnLatest
<1>1. OrgInv /\ [OrgNext]_orgVars => [FollowsNow]_orgVars
  BY FollowsStep
<1>2. OrgSpec => [][FollowsNow]_orgVars
  BY <1>1, OrgInvAlways, PTL DEF OrgSpec
<1>. QED
  BY <1>2 DEF WritesBuildOnLatest, FollowsNow

=============================================================================
