-------------------------- MODULE SchedulerProofs ---------------------------
(***************************************************************************)
(* Scheduler, for any number of jobs, resources, requirements, evaluations, *)
(* reservations and callers, any lease and any clock: what the run          *)
(* scheduler checks.                                                        *)
(*                                                                          *)
(* The argument.  A reservation is made with an evaluation that is at most  *)
(* one lease old and lives for one lease, so it ends within two leases of   *)
(* the issuance; #recordIssuance evicts a used issuance only after two      *)
(* leases.  That relation between a reservation and the issuance behind it  *)
(* is Backed; Forgotten says when a used issuance may be gone, and Captured *)
(* that what a confirmation captured before its await is still what the     *)
(* store and the issuance say, except for the state of the reservation.     *)
(***************************************************************************)
EXTENDS Scheduler, TLAPS

\* An evaluation that can be presented was issued for a requirement.
Issued ==
  \A e \in Evaluations : traces[e].state # "UNISSUED" => traces[e].requirement \in Requirements

\* What is behind a reservation, however it ended.
Backed ==
  \A r \in Reservations :
    IF rsv[r].state = "FREE"
      THEN rsv[r].revision = 0
      ELSE /\ rsv[r].elig \in Evaluations
           /\ traces[rsv[r].elig].consumed
           /\ traces[rsv[r].elig].decision = "ELIGIBLE"
           /\ traces[rsv[r].elig].job = rsv[r].job
           /\ traces[rsv[r].elig].requirement \in Requirements
           /\ ResourceOf[traces[rsv[r].elig].requirement] = rsv[r].resource
           /\ rsv[r].expiresAt <= traces[rsv[r].elig].issuedAt + 2 * Lease

\* A used issuance was issued, and is forgotten after two leases at the earliest.
Forgotten ==
  \A e \in Evaluations : traces[e].consumed =>
    \/ traces[e].state = "HELD"
    \/ traces[e].state = "EVICTED" /\ traces[e].issuedAt + 2 * Lease < last

\* What a pending confirmation captured.
Captured ==
  \A c \in Callers : starts[c].phase = "called" /\ starts[c].seen.state = "ACTIVE" =>
    LET s == starts[c] IN
      /\ s.reservation \in Reservations
      /\ rsv[s.reservation].state # "FREE"
      /\ rsv[s.reservation].elig = s.seen.elig
      /\ rsv[s.reservation].job = s.seen.job
      /\ rsv[s.reservation].resource = s.seen.resource
      /\ rsv[s.reservation].expiresAt = s.seen.expiresAt
      /\ traces[s.seen.elig].issuedAt <= s.now

SchedInv ==
  /\ SchedTypeOK
  /\ OneOwnerPerResource
  /\ IssuanceBacksOne
  /\ Issued
  /\ Backed
  /\ Forgotten
  /\ Captured

-----------------------------------------------------------------------------
(* What the helpers do.                                                     *)

\* Trusted time never runs backwards.
LEMMA TrustedTimeAdvances ==
  ASSUME last \in Nat, NEW now \in Nows
  PROVE  now \in Nat /\ last <= now
  BY LeaseAssumption DEF Nows, TrustedNow

\* What was stamped stays in the past.
LEMMA StampsStayPast ==
  ASSUME SchedTypeOK, NEW now \in Nows, last' = now
  PROVE  /\ last' \in Nat
         /\ last <= last'
         /\ \A e \in Evaluations : traces[e].issuedAt <= last'
         /\ \A c \in Callers : starts[c].now <= last'
<1>1. now \in Nat /\ last \in Nat /\ last <= now
  BY TrustedTimeAdvances DEF SchedTypeOK
<1>2. \A e \in Evaluations : traces[e].issuedAt \in Nat /\ traces[e].issuedAt <= last
  BY DEF SchedTypeOK, Trace
<1>3. \A c \in Callers : starts[c].now \in Nat /\ starts[c].now <= last
  BY DEF SchedTypeOK, Start
<1>. QED
  BY <1>1, <1>2, <1>3

\* How a reservation that is not being made may change: it may end.
MayEnd(r) ==
  \/ rsv'[r] = rsv[r]
  \/ /\ rsv[r].state = "ACTIVE"
     /\ rsv'[r].state \in {"EXPIRED", "RELEASED"}
     /\ rsv'[r].revision = rsv[r].revision + 1
     /\ rsv'[r].job = rsv[r].job
     /\ rsv'[r].resource = rsv[r].resource
     /\ rsv'[r].elig = rsv[r].elig
     /\ rsv'[r].expiresAt = rsv[r].expiresAt

\* A record that ends, in the state it ends in.
Ended(rec, state) == [rec EXCEPT !.state = state, !.revision = @ + 1]

LEMMA EndedRecord ==
  ASSUME NEW rec \in Reservation, NEW state \in {"EXPIRED", "RELEASED"}
  PROVE  /\ Ended(rec, state) \in Reservation
         /\ Ended(rec, state).state = state
         /\ Ended(rec, state).revision = rec.revision + 1
         /\ Ended(rec, state).job = rec.job
         /\ Ended(rec, state).resource = rec.resource
         /\ Ended(rec, state).elig = rec.elig
         /\ Ended(rec, state).expiresAt = rec.expiresAt
<1>1. rec.revision + 1 \in Nat
  BY DEF Reservation
<1>. QED
  BY <1>1 DEF Ended, Reservation

\* #expireIfNeeded, record by record.
LEMMA ExpiryByRecord ==
  ASSUME rsv \in [Reservations -> Reservation], NEW now \in Nat,
         NEW rs \in SUBSET Reservations
  PROVE  /\ ExpireIfNeeded(rs, now) \in [Reservations -> Reservation]
         /\ \A r \in Reservations :
              \/ ExpireIfNeeded(rs, now)[r] = rsv[r]
              \/ /\ rsv[r].state = "ACTIVE"
                 /\ ExpireIfNeeded(rs, now)[r] = Ended(rsv[r], "EXPIRED")
         /\ \A r \in rs : rsv[r].state = "ACTIVE" /\ LeaseOver(r, now) =>
              ExpireIfNeeded(rs, now)[r] = Ended(rsv[r], "EXPIRED")
<1> DEFINE f == ExpireIfNeeded(rs, now)
<1>1. f = [r \in Reservations |-> f[r]]
  BY DEF ExpireIfNeeded
<1>2. \A r \in Reservations :
        f[r] = IF r \in rs /\ rsv[r].state = "ACTIVE" /\ LeaseOver(r, now)
                 THEN Ended(rsv[r], "EXPIRED") ELSE rsv[r]
  BY DEF ExpireIfNeeded, Ended
<1> HIDE DEF f
<1>3. \A r \in Reservations : f[r] \in Reservation
  BY <1>2, EndedRecord
<1>4. f \in [Reservations -> Reservation]
  BY <1>1, <1>3
<1>. QED
  BY <1>2, <1>4 DEF f

LEMMA ExpiryEnds ==
  ASSUME SchedTypeOK, NEW now \in Nat, NEW rs \in SUBSET Reservations,
         rsv' = ExpireIfNeeded(rs, now)
  PROVE  /\ rsv' \in [Reservations -> Reservation]
         /\ \A r \in Reservations : MayEnd(r)
<1>1. \A r \in Reservations : rsv[r] \in Reservation
  BY DEF SchedTypeOK
<1>. QED
  BY <1>1, ExpiryByRecord, EndedRecord DEF SchedTypeOK, MayEnd

\* release, reservation(id) and the first half of confirmExecutionStart.
LEMMA ReleaseEnds ==
  ASSUME SchedTypeOK, NEW r \in Reservations, NEW expected, NEW now \in Nows,
         Release(r, expected, now)
  PROVE  /\ rsv' \in [Reservations -> Reservation]
         /\ \A s \in Reservations : MayEnd(s)
<1>1. now \in Nat
  BY TrustedTimeAdvances DEF SchedTypeOK
<1>2. CASE Releasable(r, expected, now)
  <2>1. \A s \in Reservations : rsv[s] \in Reservation
    BY DEF SchedTypeOK
  <2>2. rsv' = [rsv EXCEPT ![r] = Ended(rsv[r], "RELEASED")] /\ rsv[r].state = "ACTIVE"
    BY <1>2 DEF Release, Releasable, Ended
  <2>. QED
    BY <2>1, <2>2, EndedRecord DEF SchedTypeOK, MayEnd
<1>3. CASE ~Releasable(r, expected, now)
  <2>1. rsv' = ExpireIfNeeded({r}, now) /\ {r} \in SUBSET Reservations
    BY <1>3 DEF Release
  <2>. QED
    BY <1>1, <2>1, ExpiryEnds
<1>. QED
  BY <1>2, <1>3

LEMMA CurrentEnds ==
  ASSUME SchedTypeOK, NEW r \in Reservations, NEW now \in Nows, rsv' = ExpireIfNeeded({r}, now)
  PROVE  /\ rsv' \in [Reservations -> Reservation]
         /\ \A s \in Reservations : MayEnd(s)
<1>1. now \in Nat
  BY TrustedTimeAdvances DEF SchedTypeOK
<1>2. {r} \in SUBSET Reservations
  OBVIOUS
<1>. QED
  BY <1>1, <1>2, ExpiryEnds

\* reserve: the new reservation, and that no other owner is left.
LEMMA ReserveMakes ==
  ASSUME SchedTypeOK, NEW e \in Evaluations, NEW r \in Reservations, NEW j \in Jobs,
         NEW now \in Nows, Reserve(e, r, j, now), traces[e].requirement \in Requirements
  PROVE  /\ rsv' \in [Reservations -> Reservation]
         /\ rsv'[r] = [ state |-> "ACTIVE", revision |-> 1, job |-> j,
                        resource |-> Assessed(e), elig |-> e, expiresAt |-> now + Lease ]
         /\ \A s \in Reservations : s # r =>
              /\ MayEnd(s)
              /\ rsv'[s].state = "ACTIVE" => rsv'[s].resource # Assessed(e)
<1> DEFINE expired == ExpireIfNeeded(OnResource(Assessed(e)), now)
<1>1. now \in Nat
  BY TrustedTimeAdvances DEF SchedTypeOK
<1>2. /\ expired \in [Reservations -> Reservation]
      /\ \A s \in Reservations :
           \/ expired[s] = rsv[s]
           \/ rsv[s].state = "ACTIVE" /\ expired[s] = Ended(rsv[s], "EXPIRED")
      /\ \A s \in OnResource(Assessed(e)) : rsv[s].state = "ACTIVE" =>
           expired[s] = Ended(rsv[s], "EXPIRED")
  <2>1. OnResource(Assessed(e)) \in SUBSET Reservations
    BY DEF OnResource
  <2>2. \A s \in OnResource(Assessed(e)) : rsv[s].state = "ACTIVE" => LeaseOver(s, now)
    BY DEF Reserve, LiveOwners
  <2>. QED
    BY <1>1, <2>1, <2>2, ExpiryByRecord DEF SchedTypeOK
<1>3. Assessed(e) \in Resources
  BY ResourceOfAssumption DEF Assessed
<1>4. rsv' = [expired EXCEPT ![r] =
               [ state |-> "ACTIVE", revision |-> 1, job |-> j,
                 resource |-> Assessed(e), elig |-> e, expiresAt |-> now + Lease ]]
  BY DEF Reserve
<1> HIDE DEF expired
<1>5. rsv' \in [Reservations -> Reservation]
  BY <1>1, <1>2, <1>3, <1>4, LeaseAssumption DEF Reservation
<1>6. \A s \in Reservations : s # r => rsv'[s] = expired[s]
  BY <1>2, <1>4
<1>7. \A s \in Reservations : rsv[s] \in Reservation
  BY DEF SchedTypeOK
<1>8. \A s \in Reservations : s # r => MayEnd(s)
  BY <1>2, <1>6, <1>7, EndedRecord DEF MayEnd
<1>9. \A s \in Reservations : s # r =>
        (rsv'[s].state = "ACTIVE" => rsv'[s].resource # Assessed(e))
  BY <1>2, <1>6, <1>7, EndedRecord DEF OnResource
<1>10. rsv'[r] = [ state |-> "ACTIVE", revision |-> 1, job |-> j,
                   resource |-> Assessed(e), elig |-> e, expiresAt |-> now + Lease ]
  BY <1>2, <1>4
<1>. QED
  BY <1>5, <1>8, <1>9, <1>10

\* evaluate: the new issuance, and what is evicted.
MayBeEvicted(e, now) ==
  \/ traces'[e] = traces[e]
  \/ /\ traces[e].state = "HELD"
     /\ traces[e].consumed => traces[e].issuedAt + 2 * Lease < now
     /\ traces'[e] = [traces[e] EXCEPT !.state = "EVICTED"]

LEMMA EvaluateIssues ==
  ASSUME SchedTypeOK, NEW e \in Evaluations, NEW j \in Jobs, NEW q \in Requirements,
         NEW decision \in {"ELIGIBLE", "REFUSED"}, NEW now \in Nows,
         Evaluate(e, j, q, decision, now)
  PROVE  /\ traces' \in [Evaluations -> Trace]
         /\ traces'[e] = [ state |-> "HELD", job |-> j, requirement |-> q,
                           decision |-> decision, consumed |-> FALSE, issuedAt |-> now ]
         /\ \A d \in Evaluations : d # e => MayBeEvicted(d, now)
<1>1. now \in Nat /\ last <= now
  BY TrustedTimeAdvances DEF SchedTypeOK
<1> DEFINE fresh == [ state |-> "HELD", job |-> j, requirement |-> q,
                      decision |-> decision, consumed |-> FALSE, issuedAt |-> now ]
           issued == [traces EXCEPT ![e] = fresh]
<1>2. fresh \in Trace /\ now - fresh.issuedAt = 0 /\ ~fresh.consumed
  BY <1>1 DEF Trace
<1>3. issued \in [Evaluations -> Trace] /\ issued[e] = fresh
      /\ \A d \in Evaluations : d # e => issued[d] = traces[d]
  BY <1>2 DEF SchedTypeOK
<1>4. traces' = Evict(issued, now)
  BY DEF Evaluate
<1> HIDE DEF issued, fresh
<1>5. traces' = [d \in Evaluations |-> traces'[d]]
  BY <1>4 DEF Evict
<1>6. \A d \in Evaluations :
        traces'[d] = IF /\ issued[d].state = "HELD"
                        /\ now - issued[d].issuedAt >
                             (IF issued[d].consumed THEN 2 * Lease ELSE Lease)
                       THEN [issued[d] EXCEPT !.state = "EVICTED"]
                       ELSE issued[d]
  BY <1>4 DEF Evict
<1>7. traces'[e] = fresh
  <2>1. ~(now - fresh.issuedAt > (IF fresh.consumed THEN 2 * Lease ELSE Lease))
    BY <1>2, LeaseAssumption
  <2>. QED
    BY <1>3, <1>6, <2>1
<1>8. ASSUME NEW d \in Evaluations PROVE traces'[d] \in Trace
  BY <1>3, <1>6 DEF Trace
<1>9. ASSUME NEW d \in Evaluations, d # e PROVE MayBeEvicted(d, now)
  BY <1>1, <1>3, <1>6, <1>9, LeaseAssumption DEF MayBeEvicted, SchedTypeOK, Trace
<1>. QED
  BY <1>5, <1>7, <1>8, <1>9 DEF fresh

-----------------------------------------------------------------------------
(* Every step is one of three: an issuance, a reservation, or quiet.        *)

Quiet ==
  /\ UNCHANGED traces
  /\ \A r \in Reservations : MayEnd(r)

Issues(e, now) ==
  /\ traces[e].state = "UNISSUED"
  /\ ~traces'[e].consumed
  /\ last' = now
  /\ \A d \in Evaluations : d # e => MayBeEvicted(d, now)
  /\ UNCHANGED <<rsv, starts>>

Reserves(e, r, j, now) ==
  /\ rsv[r].state = "FREE"
  /\ Presentable(e, j)
  /\ Fresh(e, now)
  /\ traces' = [traces EXCEPT ![e].consumed = TRUE]
  /\ rsv'[r] = [ state |-> "ACTIVE", revision |-> 1, job |-> j,
                 resource |-> Assessed(e), elig |-> e, expiresAt |-> now + Lease ]
  /\ \A s \in Reservations : s # r =>
       /\ MayEnd(s)
       /\ rsv'[s].state = "ACTIVE" => rsv'[s].resource # Assessed(e)
  /\ UNCHANGED starts

StepShape ==
  \/ Quiet
  \/ \E e \in Evaluations, now \in Nat : Issues(e, now)
  \/ \E e \in Evaluations, r \in Reservations, j \in Jobs, now \in Nat : Reserves(e, r, j, now)

\* A step that reads the clock and may end reservations, and no more.
LEMMA QuietReading ==
  ASSUME SchedTypeOK, Issued, NEW now \in Nows, last' = now, UNCHANGED <<traces, starts>>,
         rsv' \in [Reservations -> Reservation], \A r \in Reservations : MayEnd(r)
  PROVE  SchedTypeOK' /\ Issued' /\ last <= last' /\ StepShape
<1>1. Issued' /\ StepShape
  BY DEF Issued, StepShape, Quiet
<1>. QED
  BY <1>1, StampsStayPast DEF SchedTypeOK

\* Types, the clock and the shape of every step.
LEMMA ShapeOfStep ==
  ASSUME SchedTypeOK, Issued, [SchedNext]_schedVars
  PROVE  /\ SchedTypeOK'
         /\ Issued'
         /\ last <= last'
         /\ StepShape
<1>1. ASSUME NEW e \in Evaluations, NEW j \in Jobs, NEW q \in Requirements,
             NEW decision \in {"ELIGIBLE", "REFUSED"}, NEW now \in Nows,
             Evaluate(e, j, q, decision, now)
      PROVE  SchedTypeOK' /\ Issued' /\ last <= last' /\ StepShape
  <2>1. now \in Nat /\ last <= now /\ last' = now
    BY <1>1, TrustedTimeAdvances DEF SchedTypeOK, Evaluate, ReadClock
  <2>. /\ traces' \in [Evaluations -> Trace]
       /\ traces'[e] = [ state |-> "HELD", job |-> j, requirement |-> q,
                         decision |-> decision, consumed |-> FALSE, issuedAt |-> now ]
       /\ \A d \in Evaluations : d # e => MayBeEvicted(d, now)
    BY <1>1, EvaluateIssues
  <2>2. Issues(e, now)
    BY <1>1, <2>1 DEF Issues, Evaluate
  <2>3. \A d \in Evaluations : d # e =>
          /\ traces'[d].issuedAt = traces[d].issuedAt
          /\ traces'[d].requirement = traces[d].requirement
          /\ traces'[d].state = "UNISSUED" <=> traces[d].state = "UNISSUED"
    BY DEF MayBeEvicted, SchedTypeOK, Trace
  <2>4. traces'[e].issuedAt = now /\ traces'[e].requirement = q
    OBVIOUS
  <2>5. \A d \in Evaluations : traces'[d].issuedAt <= last'
    BY <2>1, <2>3, <2>4, StampsStayPast
  <2>6. Issued'
    BY <2>3, <2>4 DEF Issued
  <2>7. traces' \in [Evaluations -> Trace] /\ UNCHANGED <<rsv, starts>>
    BY <1>1 DEF Evaluate
  <2>8. StepShape
    BY <2>1, <2>2 DEF StepShape
  <2>. QED
    BY <2>1, <2>5, <2>6, <2>7, <2>8, StampsStayPast DEF SchedTypeOK
<1>2. ASSUME NEW e \in Evaluations, NEW r \in Reservations, NEW j \in Jobs, NEW now \in Nows,
             Reserve(e, r, j, now)
      PROVE  SchedTypeOK' /\ Issued' /\ last <= last' /\ StepShape
  <2>1. now \in Nat /\ last <= now /\ last' = now
    BY <1>2, TrustedTimeAdvances DEF SchedTypeOK, Reserve, ReadClock
  <2>2. traces[e].requirement \in Requirements
    BY <1>2 DEF Reserve, Presentable, Issued
  <2>3. Reserves(e, r, j, now)
    BY <1>2, <2>2, ReserveMakes DEF Reserves, Reserve
  <2>4. traces' \in [Evaluations -> Trace]
    BY ZenonT(60), <1>2 DEF Reserve, SchedTypeOK, Trace
  <2>5. \A d \in Evaluations :
          /\ traces'[d].issuedAt = traces[d].issuedAt
          /\ traces'[d].requirement = traces[d].requirement
          /\ traces'[d].state = traces[d].state
    BY <1>2 DEF Reserve, SchedTypeOK, Trace
  <2>6. Issued' /\ \A d \in Evaluations : traces'[d].issuedAt <= last'
    BY <2>1, <2>5, StampsStayPast DEF Issued
  <2>7. rsv' \in [Reservations -> Reservation] /\ UNCHANGED starts
    BY <1>2, <2>2, ReserveMakes DEF Reserve
  <2>8. StepShape
    BY <2>1, <2>3 DEF StepShape
  <2>. QED
    BY <2>1, <2>4, <2>6, <2>7, <2>8, StampsStayPast DEF SchedTypeOK
<1>3. ASSUME NEW e \in Evaluations, NEW j \in Jobs, NEW now \in Nows, ReserveRefused(e, j, now)
      PROVE  SchedTypeOK' /\ Issued' /\ last <= last' /\ StepShape
  <2>1. rsv' \in [Reservations -> Reservation] /\ \A s \in Reservations : MayEnd(s)
    BY <1>3 DEF ReserveRefused, SchedTypeOK, MayEnd
  <2>. QED
    BY <1>3, <2>1, QuietReading DEF ReserveRefused, ReadClock
<1>4. ASSUME NEW r \in Reservations, NEW expected \in 1..2, NEW now \in Nows,
             Release(r, expected, now)
      PROVE  SchedTypeOK' /\ Issued' /\ last <= last' /\ StepShape
  <2>1. rsv' \in [Reservations -> Reservation] /\ \A s \in Reservations : MayEnd(s)
    BY <1>4, ReleaseEnds
  <2>. QED
    BY <1>4, <2>1, QuietReading DEF Release, ReadClock
<1>5. ASSUME NEW r \in Reservations, NEW now \in Nows, Current(r, now)
      PROVE  SchedTypeOK' /\ Issued' /\ last <= last' /\ StepShape
  <2>1. rsv' \in [Reservations -> Reservation] /\ \A s \in Reservations : MayEnd(s)
    BY <1>5, CurrentEnds DEF Current
  <2>. QED
    BY <1>5, <2>1, QuietReading DEF Current, ReadClock
<1>6. ASSUME NEW r \in Reservations, NEW c \in Callers, NEW j \in Jobs,
             NEW q \in Requirements, NEW jobCurrent \in BOOLEAN, NEW now \in Nows,
             ConfirmCall(c, j, q, r, jobCurrent, now)
      PROVE  SchedTypeOK' /\ Issued' /\ last <= last' /\ StepShape
  <2>1. now \in Nat /\ last <= now /\ last' = now
    BY <1>6, TrustedTimeAdvances DEF SchedTypeOK, ConfirmCall, ReadClock
  <2>2. rsv' \in [Reservations -> Reservation] /\ \A s \in Reservations : MayEnd(s)
    BY <1>6, CurrentEnds DEF ConfirmCall
  <2>3. rsv'[r] \in Reservation
    BY <2>2
  <2>4. [ phase |-> "called", job |-> j, requirement |-> q, reservation |-> r,
          jobCurrent |-> jobCurrent, now |-> now, seen |-> rsv'[r] ] \in Start
    BY <2>1, <2>3 DEF Start
  <2>5. starts' \in [Callers -> Start]
    BY <1>6, <2>4 DEF ConfirmCall, SchedTypeOK
  <2>6. \A d \in Callers : starts'[d].now <= last'
    BY <1>6, <2>1, StampsStayPast DEF ConfirmCall, SchedTypeOK
  <2>7. Issued' /\ StepShape
    BY <1>6, <2>2 DEF ConfirmCall, Issued, StepShape, Quiet
  <2>. QED
    BY <1>6, <2>1, <2>2, <2>5, <2>6, <2>7, StampsStayPast DEF ConfirmCall, SchedTypeOK
<1>7. ASSUME NEW c \in Callers, NEW eligible \in BOOLEAN, ConfirmResume(c, eligible)
      PROVE  SchedTypeOK' /\ Issued' /\ last <= last' /\ StepShape
  BY <1>7 DEF ConfirmResume, SchedTypeOK, Start, Issued, StepShape, Quiet, MayEnd
<1>8. CASE UNCHANGED schedVars
  BY <1>8 DEF schedVars, SchedTypeOK, Issued, StepShape, Quiet, MayEnd
<1>. QED
  BY <1>1, <1>2, <1>3, <1>4, <1>5, <1>6, <1>7, <1>8 DEF SchedNext

-----------------------------------------------------------------------------
(* The invariant, conjunct by conjunct.                                     *)

\* What ending leaves alone, and that it makes nothing active.
LEMMA EndingKeeps ==
  ASSUME NEW r \in Reservations, MayEnd(r)
  PROVE  /\ rsv'[r].state = "FREE" <=> rsv[r].state = "FREE"
         /\ rsv'[r].state = "ACTIVE" => rsv'[r] = rsv[r]
         /\ rsv'[r].elig = rsv[r].elig
         /\ rsv'[r].job = rsv[r].job
         /\ rsv'[r].resource = rsv[r].resource
         /\ rsv'[r].expiresAt = rsv[r].expiresAt
         /\ rsv'[r].state = "FREE" => rsv'[r] = rsv[r]
  BY DEF MayEnd

LEMMA OwnerStep ==
  ASSUME OneOwnerPerResource, StepShape
  PROVE  OneOwnerPerResource'
<1>1. CASE Quiet
  BY <1>1, EndingKeeps DEF OneOwnerPerResource, Quiet
<1>2. ASSUME NEW e \in Evaluations, NEW now \in Nat, Issues(e, now)
      PROVE  OneOwnerPerResource'
  BY <1>2 DEF OneOwnerPerResource, Issues
<1>3. ASSUME NEW e \in Evaluations, NEW r \in Reservations, NEW j \in Jobs, NEW now \in Nat,
             Reserves(e, r, j, now)
      PROVE  OneOwnerPerResource'
  <2>1. rsv'[r].resource = Assessed(e)
    BY <1>3 DEF Reserves
  <2>2. \A s \in Reservations : s # r =>
          /\ rsv'[s].state = "ACTIVE" => rsv'[s] = rsv[s]
          /\ rsv'[s].state = "ACTIVE" => rsv'[s].resource # Assessed(e)
    BY <1>3, EndingKeeps DEF Reserves
  <2>. QED
    BY <2>1, <2>2 DEF OneOwnerPerResource
<1>. QED
  BY <1>1, <1>2, <1>3 DEF StepShape

\* An evaluation that can still be presented backs nothing.
LEMMA BacksOneStep ==
  ASSUME IssuanceBacksOne, Backed, StepShape
  PROVE  IssuanceBacksOne'
<1>1. CASE Quiet
  BY <1>1, EndingKeeps DEF IssuanceBacksOne, Quiet
<1>2. ASSUME NEW e \in Evaluations, NEW now \in Nat, Issues(e, now)
      PROVE  IssuanceBacksOne'
  BY <1>2 DEF IssuanceBacksOne, Issues
<1>3. ASSUME NEW e \in Evaluations, NEW r \in Reservations, NEW j \in Jobs, NEW now \in Nat,
             Reserves(e, r, j, now)
      PROVE  IssuanceBacksOne'
  <2>1. rsv'[r].elig = e
    BY <1>3 DEF Reserves
  <2>2. \A s \in Reservations : rsv[s].state # "FREE" => rsv[s].elig # e
    BY <1>3 DEF Backed, Reserves, Presentable
  <2>3. \A s \in Reservations : s # r =>
          /\ rsv'[s].state = "FREE" <=> rsv[s].state = "FREE"
          /\ rsv'[s].elig = rsv[s].elig
    BY <1>3, EndingKeeps DEF Reserves
  <2>. QED
    BY <2>1, <2>2, <2>3 DEF IssuanceBacksOne
<1>. QED
  BY <1>1, <1>2, <1>3 DEF StepShape

\* Eviction and use keep what an issuance says; an issuance is never replaced
\* once it was used.
LEMMA UsedIssuanceKept ==
  ASSUME SchedTypeOK, Forgotten, StepShape, NEW e \in Evaluations,
         traces[e].consumed \/ traces[e].state = "HELD"
  PROVE  /\ traces[e].consumed => traces'[e].consumed
         /\ traces'[e].decision = traces[e].decision
         /\ traces'[e].job = traces[e].job
         /\ traces'[e].requirement = traces[e].requirement
         /\ traces'[e].issuedAt = traces[e].issuedAt
<1>1. traces[e].state # "UNISSUED"
  BY DEF Forgotten
<1>2. CASE Quiet
  BY <1>2 DEF Quiet
<1>3. ASSUME NEW d \in Evaluations, NEW now \in Nat, Issues(d, now)
      PROVE  MayBeEvicted(e, now)
  BY <1>1, <1>3 DEF Issues
<1>4. ASSUME NEW now \in Nat, MayBeEvicted(e, now)
      PROVE  /\ traces'[e].consumed = traces[e].consumed
             /\ traces'[e].decision = traces[e].decision
             /\ traces'[e].job = traces[e].job
             /\ traces'[e].requirement = traces[e].requirement
             /\ traces'[e].issuedAt = traces[e].issuedAt
  BY <1>4 DEF MayBeEvicted, SchedTypeOK, Trace
<1>5. ASSUME NEW d \in Evaluations, NEW r \in Reservations, NEW j \in Jobs, NEW now \in Nat,
             Reserves(d, r, j, now)
      PROVE  /\ traces[e].consumed => traces'[e].consumed
             /\ traces'[e].decision = traces[e].decision
             /\ traces'[e].job = traces[e].job
             /\ traces'[e].requirement = traces[e].requirement
             /\ traces'[e].issuedAt = traces[e].issuedAt
  BY <1>5 DEF Reserves, SchedTypeOK, Trace
<1>. QED
  BY <1>2, <1>3, <1>4, <1>5 DEF StepShape

LEMMA BackedStep ==
  ASSUME SchedTypeOK, Issued, Backed, Forgotten, StepShape
  PROVE  Backed'
<1> DEFINE BackedBy(r) == (IF rsv[r].state = "FREE"
      THEN rsv[r].revision = 0
      ELSE /\ rsv[r].elig \in Evaluations
           /\ traces[rsv[r].elig].consumed
           /\ traces[rsv[r].elig].decision = "ELIGIBLE"
           /\ traces[rsv[r].elig].job = rsv[r].job
           /\ traces[rsv[r].elig].requirement \in Requirements
           /\ ResourceOf[traces[rsv[r].elig].requirement] = rsv[r].resource
           /\ rsv[r].expiresAt <= traces[rsv[r].elig].issuedAt + 2 * Lease)
<1>1. ASSUME NEW r \in Reservations, MayEnd(r) PROVE BackedBy(r)'
  <2>1. BackedBy(r)
    BY DEF Backed
  <2>2. CASE rsv[r].state = "FREE"
    BY <1>1, <2>1, <2>2, EndingKeeps
  <2>3. CASE rsv[r].state # "FREE"
    BY <1>1, <2>1, <2>3, EndingKeeps, UsedIssuanceKept
  <2>. QED
    BY <2>2, <2>3
<1>2. ASSUME NEW e \in Evaluations, NEW r \in Reservations, NEW j \in Jobs, NEW now \in Nat,
             Reserves(e, r, j, now)
      PROVE  BackedBy(r)'
  <2>1. /\ traces[e].state = "HELD"
        /\ traces[e].job = j
        /\ traces[e].decision = "ELIGIBLE"
        /\ traces[e].requirement \in Requirements
        /\ now + Lease <= traces[e].issuedAt + 2 * Lease
    BY <1>2, LeaseAssumption DEF Reserves, Presentable, Fresh, Issued, SchedTypeOK, Trace
  <2>2. traces'[e].consumed
    BY <1>2 DEF Reserves, SchedTypeOK, Trace
  <2>3. /\ rsv'[r].state = "ACTIVE"
        /\ rsv'[r].elig = e
        /\ rsv'[r].job = j
        /\ rsv'[r].resource = Assessed(e)
        /\ rsv'[r].expiresAt = now + Lease
    BY <1>2 DEF Reserves
  <2>. QED
    BY <2>1, <2>2, <2>3, UsedIssuanceKept DEF Assessed
<1>3. ASSUME NEW r \in Reservations
      PROVE  \/ MayEnd(r)
             \/ \E e \in Evaluations, j \in Jobs, now \in Nat : Reserves(e, r, j, now)
  BY DEF StepShape, Quiet, Issues, Reserves, MayEnd
<1>4. \A r \in Reservations : BackedBy(r)'
  <2> HIDE DEF BackedBy
  <2>. QED
    BY <1>1, <1>2, <1>3
<1>. QED
  BY <1>4 DEF Backed

LEMMA ForgottenStep ==
  ASSUME SchedTypeOK, Forgotten, StepShape, last' \in Nat, last <= last'
  PROVE  Forgotten'
<1>1. \A e \in Evaluations : traces[e].issuedAt \in Nat /\ traces[e] \in Trace
  BY DEF SchedTypeOK, Trace
<1>2. CASE Quiet
  BY <1>1, <1>2, LeaseAssumption DEF Quiet, Forgotten, SchedTypeOK
<1>3. ASSUME NEW e \in Evaluations, NEW now \in Nat, Issues(e, now)
      PROVE  Forgotten'
  <2>1. last' = now /\ ~traces'[e].consumed
    BY <1>3 DEF Issues
  <2>2. ASSUME NEW d \in Evaluations, d # e, traces'[d].consumed
        PROVE  \/ traces'[d].state = "HELD"
               \/ traces'[d].state = "EVICTED" /\ traces'[d].issuedAt + 2 * Lease < last'
    <3>1. MayBeEvicted(d, now)
      BY <1>3, <2>2 DEF Issues
    <3>2. CASE traces'[d] = traces[d]
      BY <1>1, <2>2, <3>2, LeaseAssumption DEF Forgotten, SchedTypeOK
    <3>3. CASE traces'[d] # traces[d]
      BY <1>1, <2>1, <2>2, <3>1, <3>3, LeaseAssumption DEF MayBeEvicted, Trace
    <3>. QED
      BY <3>2, <3>3
  <2>. QED
    BY <2>1, <2>2 DEF Forgotten
<1>4. ASSUME NEW e \in Evaluations, NEW r \in Reservations, NEW j \in Jobs, NEW now \in Nat,
             Reserves(e, r, j, now)
      PROVE  Forgotten'
  <2>1. traces[e].state = "HELD"
    BY <1>4 DEF Reserves, Presentable
  <2>2. \A d \in Evaluations :
          /\ traces'[d].state = traces[d].state
          /\ traces'[d].issuedAt = traces[d].issuedAt
          /\ d # e => traces'[d].consumed = traces[d].consumed
    BY <1>1, <1>4 DEF Reserves, SchedTypeOK, Trace
  <2>. QED
    BY <1>1, <2>1, <2>2, LeaseAssumption DEF Forgotten, SchedTypeOK
<1>. QED
  BY <1>2, <1>3, <1>4 DEF StepShape

\* A confirmation that becomes pending in this step, or was and stays.
Calls(c) ==
  /\ starts'[c].reservation \in Reservations
  /\ starts'[c].seen = rsv'[starts'[c].reservation]
  /\ starts'[c].now = last'
  /\ Quiet

LEMMA CallShape ==
  ASSUME SchedTypeOK, [SchedNext]_schedVars, NEW c \in Callers,
         starts'[c].phase = "called"
  PROVE  starts'[c] = starts[c] \/ Calls(c)
<1>1. ASSUME NEW d \in Callers, NEW j \in Jobs, NEW q \in Requirements,
             NEW r \in Reservations, NEW jobCurrent \in BOOLEAN, NEW now \in Nows,
             ConfirmCall(d, j, q, r, jobCurrent, now)
      PROVE  starts'[c] = starts[c] \/ Calls(c)
  <2>1. Quiet
    BY <1>1, CurrentEnds DEF ConfirmCall, Quiet
  <2>. QED
    BY <1>1, <2>1 DEF ConfirmCall, ReadClock, Calls, SchedTypeOK
<1>2. ASSUME NEW d \in Callers, NEW eligible \in BOOLEAN, ConfirmResume(d, eligible)
      PROVE  starts'[c] = starts[c]
  BY <1>2 DEF ConfirmResume, SchedTypeOK, Start
<1>3. ASSUME UNCHANGED starts PROVE starts'[c] = starts[c]
  BY <1>3
<1>. QED
  BY ZenonT(60), <1>1, <1>2, <1>3
  DEF SchedNext, schedVars, Evaluate, Reserve, ReserveRefused, Release, Current

LEMMA CapturedStep ==
  ASSUME SchedTypeOK, SchedTypeOK', Backed, Backed', Forgotten, Captured, StepShape,
         [SchedNext]_schedVars
  PROVE  Captured'
<1> SUFFICES ASSUME NEW c \in Callers, starts'[c].phase = "called",
                    starts'[c].seen.state = "ACTIVE"
             PROVE  LET s == starts'[c] IN
                      /\ s.reservation \in Reservations
                      /\ rsv'[s.reservation].state # "FREE"
                      /\ rsv'[s.reservation].elig = s.seen.elig
                      /\ rsv'[s.reservation].job = s.seen.job
                      /\ rsv'[s.reservation].resource = s.seen.resource
                      /\ rsv'[s.reservation].expiresAt = s.seen.expiresAt
                      /\ traces'[s.seen.elig].issuedAt <= s.now
  BY DEF Captured
<1>1. CASE Calls(c)
  <2>1. starts'[c].reservation \in Reservations
        /\ starts'[c].seen = rsv'[starts'[c].reservation]
    BY <1>1 DEF Calls
  <2>2. starts'[c].seen.elig \in Evaluations
    BY <2>1 DEF Backed
  <2>3. traces'[starts'[c].seen.elig].issuedAt <= last'
    BY <2>2 DEF SchedTypeOK
  <2>. QED
    BY <1>1, <2>1, <2>3 DEF Calls
<1>2. CASE starts'[c] = starts[c]
  <2> DEFINE s == starts[c]
  <2>1. /\ s.reservation \in Reservations
        /\ rsv[s.reservation].state # "FREE"
        /\ rsv[s.reservation].elig = s.seen.elig
        /\ rsv[s.reservation].job = s.seen.job
        /\ rsv[s.reservation].resource = s.seen.resource
        /\ rsv[s.reservation].expiresAt = s.seen.expiresAt
        /\ traces[s.seen.elig].issuedAt <= s.now
    BY <1>2 DEF Captured
  <2>2. MayEnd(s.reservation)
    BY <2>1 DEF StepShape, Quiet, Issues, Reserves, MayEnd
  <2>3. s.seen.elig \in Evaluations /\ traces[s.seen.elig].consumed
    BY <2>1 DEF Backed
  <2>4. traces'[s.seen.elig].issuedAt = traces[s.seen.elig].issuedAt
    BY <2>3, UsedIssuanceKept
  <2>. QED
    BY <1>2, <2>1, <2>2, <2>4, EndingKeeps
<1>. QED
  BY <1>1, <1>2, CallShape

LEMMA SchedInvInit == SchedInit => SchedInv
  BY LeaseAssumption
  DEF SchedInit, SchedInv, SchedTypeOK, OneOwnerPerResource, IssuanceBacksOne, Issued,
      Backed, Forgotten, Captured, NoTrace, NoReservation, NoStart, Trace, Reservation, Start

LEMMA SchedInvStep == SchedInv /\ [SchedNext]_schedVars => SchedInv'
<1> SUFFICES ASSUME SchedInv, [SchedNext]_schedVars PROVE SchedInv'
  OBVIOUS
<1>1. SchedTypeOK' /\ Issued' /\ last <= last' /\ last' \in Nat /\ StepShape
  BY ShapeOfStep DEF SchedInv, SchedTypeOK
<1>2. OneOwnerPerResource' /\ IssuanceBacksOne'
  BY <1>1, OwnerStep, BacksOneStep DEF SchedInv
<1>3. Backed' /\ Forgotten'
  BY <1>1, BackedStep, ForgottenStep DEF SchedInv
<1>4. Captured'
  BY <1>1, <1>3, CapturedStep DEF SchedInv
<1>. QED
  BY <1>1, <1>2, <1>3, <1>4 DEF SchedInv

LEMMA SchedInvAlways == SchedSpec => []SchedInv
  BY SchedInvInit, SchedInvStep, PTL DEF SchedSpec

-----------------------------------------------------------------------------
(* The theorems.                                                            *)

\* Records stay well formed and no stamp is ahead of trusted time, however
\* the wall clock jumps (createTrustedClock and everything stamped with it).
THEOREM SchedTypeCorrect == SchedSpec => []SchedTypeOK
<1>1. SchedInv => SchedTypeOK
  BY DEF SchedInv
<1>. QED
  BY <1>1, SchedInvAlways, PTL

\* An exclusive resource never has two owners, whatever the callers, the
\* order of their calls and the clock do (reserve, #activeFor).
THEOREM ResourceHasOneOwner == SchedSpec => []OneOwnerPerResource
<1>1. SchedInv => OneOwnerPerResource
  BY DEF SchedInv
<1>. QED
  BY <1>1, SchedInvAlways, PTL

\* An evaluation never backs two reservations (consumed, #recordIssuance).
THEOREM EvaluationBacksOne == SchedSpec => []IssuanceBacksOne
<1>1. SchedInv => IssuanceBacksOne
  BY DEF SchedInv
<1>. QED
  BY <1>1, SchedInvAlways, PTL

\* The comment on #recordIssuance: the issuance of a live reservation is
\* never evicted, whatever the lease and the clock.
THEOREM LiveIssuanceKept == SchedSpec => []LiveLeaseKeepsIssuance
<1>1. ASSUME SchedInv, NEW r \in Reservations, Live(r)
      PROVE  LET t == traces[rsv[r].elig] IN
               /\ t.state = "HELD"
               /\ t.consumed
               /\ t.job = rsv[r].job
               /\ ResourceOf[t.requirement] = rsv[r].resource
  <2> DEFINE t == traces[rsv[r].elig]
  <2>1. /\ rsv[r].elig \in Evaluations
        /\ t.consumed
        /\ t.job = rsv[r].job
        /\ ResourceOf[t.requirement] = rsv[r].resource
        /\ rsv[r].expiresAt <= t.issuedAt + 2 * Lease
    BY <1>1 DEF SchedInv, Backed, Live
  <2>2. t.issuedAt \in Nat /\ last \in Nat /\ rsv[r].expiresAt \in Nat
    BY <1>1, <2>1 DEF SchedInv, SchedTypeOK, Trace, Reservation
  <2>3. last < rsv[r].expiresAt
    BY <1>1, <2>2 DEF Live, LeaseOver
  <2>4. ~(t.issuedAt + 2 * Lease < last)
    BY <2>1, <2>2, <2>3, LeaseAssumption
  <2>5. t.state = "HELD"
    BY <1>1, <2>1, <2>4 DEF SchedInv, Forgotten
  <2>. QED
    BY <2>1, <2>5
<1>2. SchedInv => LiveLeaseKeepsIssuance
  BY <1>1 DEF LiveLeaseKeepsIssuance
<1>. QED
  BY <1>2, SchedInvAlways, PTL

\* A reservation that ended is never written again, and every write raises
\* the revision (the store's transition and #expireIfNeeded).
THEOREM EndedStaysEnded == SchedSpec => EndedReservationFinal
<1> DEFINE Final(r) ==
      /\ rsv[r].state \in {"EXPIRED", "RELEASED"} => rsv'[r] = rsv[r]
      /\ rsv'[r] # rsv[r] => rsv'[r].revision > rsv[r].revision
<1>1. ASSUME SchedInv, [SchedNext]_schedVars, NEW r \in Reservations PROVE Final(r)
  <2>1. rsv[r].revision \in Nat /\ StepShape
    BY <1>1, ShapeOfStep DEF SchedInv, SchedTypeOK, Reservation
  <2>2. CASE MayEnd(r)
    BY <2>1, <2>2 DEF MayEnd
  <2>3. ASSUME NEW e \in Evaluations, NEW j \in Jobs, NEW now \in Nat, Reserves(e, r, j, now)
        PROVE  Final(r)
    <3>1. rsv[r].state = "FREE" /\ rsv[r].revision = 0
      BY <1>1, <2>3 DEF Reserves, SchedInv, Backed
    <3>2. rsv'[r].revision = 1
      BY <2>3 DEF Reserves
    <3>. QED
      BY <3>1, <3>2
  <2>4. MayEnd(r) \/ \E e \in Evaluations, j \in Jobs, now \in Nat : Reserves(e, r, j, now)
    BY <2>1 DEF StepShape, Quiet, Issues, Reserves, MayEnd
  <2> HIDE DEF Final
  <2>. QED
    BY <2>2, <2>3, <2>4
<1>2. SchedInv /\ [SchedNext]_schedVars => [\A r \in Reservations : Final(r)]_schedVars
  BY <1>1
<1>. QED
  BY <1>2, SchedInvAlways, PTL DEF SchedSpec, EndedReservationFinal

\* A grant is the second half of confirmExecutionStart, with its checks passed.
LEMMA GrantShape ==
  ASSUME SchedTypeOK, [SchedNext]_schedVars, NEW c \in Callers, Grants(c)
  PROVE  StartChecks(starts[c])
<1>1. ASSUME NEW d \in Callers, NEW eligible \in BOOLEAN, ConfirmResume(d, eligible)
      PROVE  StartChecks(starts[c])
  BY <1>1 DEF ConfirmResume, Grants, SchedTypeOK, Start
<1>2. ASSUME NEW d \in Callers, NEW j \in Jobs, NEW q \in Requirements,
             NEW r \in Reservations, NEW jobCurrent \in BOOLEAN, NEW now \in Nows,
             ConfirmCall(d, j, q, r, jobCurrent, now)
      PROVE  FALSE
  BY <1>2 DEF ConfirmCall, Grants, SchedTypeOK
<1>3. ~ UNCHANGED starts
  BY DEF Grants
<1>. QED
  BY ZenonT(60), <1>1, <1>2, <1>3
  DEF SchedNext, schedVars, Evaluate, Reserve, ReserveRefused, Release, Current

\* Stage 2 only grants what stage 1 assessed: same job, requirement and
\* resource, an issuance less than two leases old, used by this reservation
\* (confirmExecutionStart, although it decides on facts it read before its
\* await).
THEOREM GrantIsTraceable == SchedSpec => GrantTraceable
<1> DEFINE Traceable(c) == Grants(c) =>
      LET s == starts[c]
          t == traces[s.seen.elig]
      IN /\ t.decision = "ELIGIBLE"
         /\ t.consumed
         /\ t.job = s.job
         /\ t.requirement = s.requirement
         /\ ResourceOf[s.requirement] = s.seen.resource
         /\ t.issuedAt <= s.now
         /\ s.now < t.issuedAt + 2 * Lease
         /\ rsv[s.reservation].elig = s.seen.elig
<1>1. ASSUME SchedInv, [SchedNext]_schedVars, NEW c \in Callers PROVE Traceable(c)
  <2> SUFFICES ASSUME Grants(c) PROVE Traceable(c)
    OBVIOUS
  <2> DEFINE s == starts[c]
             t == traces[s.seen.elig]
  <2>1. StartChecks(s)
    BY <1>1, GrantShape DEF SchedInv
  <2>2. /\ s.reservation \in Reservations
        /\ rsv[s.reservation].state # "FREE"
        /\ rsv[s.reservation].elig = s.seen.elig
        /\ rsv[s.reservation].expiresAt = s.seen.expiresAt
        /\ t.issuedAt <= s.now
    BY <1>1, <2>1 DEF SchedInv, Captured, Grants, StartChecks
  <2>3. /\ s.seen.elig \in Evaluations
        /\ t.consumed
        /\ t.decision = "ELIGIBLE"
        /\ s.seen.expiresAt <= t.issuedAt + 2 * Lease
    BY <1>1, <2>2 DEF SchedInv, Backed
  <2>4. s.now \in Nat /\ s.seen.expiresAt \in Nat /\ t.issuedAt \in Nat
    BY <1>1, <2>3 DEF SchedInv, SchedTypeOK, Start, Reservation, Trace
  <2>5. s.now < t.issuedAt + 2 * Lease
    BY <2>1, <2>3, <2>4, LeaseAssumption DEF StartChecks
  <2>. QED
    BY <2>1, <2>2, <2>3, <2>5 DEF StartChecks
<1>2. SchedInv /\ [SchedNext]_schedVars => [\A c \in Callers : Traceable(c)]_schedVars
  BY <1>1
<1>. QED
  BY <1>2, SchedInvAlways, PTL DEF SchedSpec, GrantTraceable

-----------------------------------------------------------------------------
(* Why a reservation ended.                                                 *)

\* A reservation expires when its lease is over, and one that was never made
\* has no lease.
LeasesRunOut ==
  \A r \in Reservations :
    /\ rsv[r].state = "EXPIRED" => LeaseOver(r, last)
    /\ rsv[r].state = "FREE" => rsv[r].expiresAt = 0

\* How one reservation may change at trusted time now.
RunsOut(r, now) ==
  \/ rsv'[r] = rsv[r]
  \/ rsv'[r].state \in {"ACTIVE", "RELEASED"}
  \/ /\ rsv'[r].state = "EXPIRED"
     /\ rsv'[r].expiresAt = rsv[r].expiresAt
     /\ rsv[r].expiresAt <= now

LEMMA ExpiryRunsOut ==
  ASSUME rsv \in [Reservations -> Reservation], NEW rs, NEW now, NEW r \in Reservations
  PROVE  \/ ExpireIfNeeded(rs, now)[r] = rsv[r]
         \/ /\ ExpireIfNeeded(rs, now)[r].state = "EXPIRED"
            /\ ExpireIfNeeded(rs, now)[r].expiresAt = rsv[r].expiresAt
            /\ rsv[r].expiresAt <= now
<1>1. rsv[r] \in Reservation
  OBVIOUS
<1>. QED
  BY <1>1 DEF ExpireIfNeeded, LeaseOver, Reservation

LEMMA LeasesStep ==
  ASSUME SchedTypeOK, LeasesRunOut, [SchedNext]_schedVars
  PROVE  LeasesRunOut'
<1>1. rsv \in [Reservations -> Reservation]
  BY DEF SchedTypeOK
<1>2. ASSUME NEW now \in Nows, last' = now, \A r \in Reservations : RunsOut(r, now)
      PROVE  LeasesRunOut'
  <2>1. last \in Nat /\ last' \in Nat /\ last <= last'
    BY <1>2, TrustedTimeAdvances DEF SchedTypeOK
  <2>2. \A r \in Reservations : rsv[r].expiresAt \in Nat
    BY <1>1 DEF Reservation
  <2>. QED
    BY <1>2, <2>1, <2>2 DEF LeasesRunOut, LeaseOver, RunsOut
<1>3. CASE UNCHANGED <<rsv, last>>
  BY <1>3 DEF LeasesRunOut, LeaseOver
<1>4. ASSUME NEW now \in Nows, NEW e \in Evaluations, NEW j \in Jobs, NEW q \in Requirements,
             NEW decision \in {"ELIGIBLE", "REFUSED"}, Evaluate(e, j, q, decision, now)
      PROVE  LeasesRunOut'
  BY <1>2, <1>4 DEF Evaluate, ReadClock, RunsOut
<1>5. ASSUME NEW now \in Nows, NEW e \in Evaluations, NEW j \in Jobs, NEW s \in Reservations,
             Reserve(e, s, j, now)
      PROVE  LeasesRunOut'
  <2> DEFINE expired == ExpireIfNeeded(OnResource(Assessed(e)), now)
             made == [ state |-> "ACTIVE", revision |-> 1, job |-> j,
                       resource |-> Assessed(e), elig |-> e, expiresAt |-> now + Lease ]
  <2>1. rsv' = [expired EXCEPT ![s] = made] /\ last' = now
    BY <1>5 DEF Reserve, ReadClock
  <2>2. DOMAIN expired = Reservations
    BY DEF ExpireIfNeeded
  <2>3. \A r \in Reservations :
          \/ expired[r] = rsv[r]
          \/ /\ expired[r].state = "EXPIRED"
             /\ expired[r].expiresAt = rsv[r].expiresAt
             /\ rsv[r].expiresAt <= now
    BY <1>1, ExpiryRunsOut
  <2>4. made.state = "ACTIVE"
    OBVIOUS
  <2> HIDE DEF expired, made
  <2>5. \A r \in Reservations : RunsOut(r, now)
    BY <2>1, <2>2, <2>3, <2>4 DEF RunsOut
  <2>. QED
    BY <1>2, <2>1, <2>5
<1>6. ASSUME NEW now \in Nows, NEW e \in Evaluations, NEW j \in Jobs, ReserveRefused(e, j, now)
      PROVE  LeasesRunOut'
  BY <1>2, <1>6 DEF ReserveRefused, ReadClock, RunsOut
<1>7. ASSUME NEW now \in Nows, NEW s \in Reservations, rsv' = ExpireIfNeeded({s}, now),
             last' = now
      PROVE  LeasesRunOut'
  <2>1. \A r \in Reservations : RunsOut(r, now)
    BY <1>1, <1>7, ExpiryRunsOut DEF RunsOut
  <2>. QED
    BY <1>2, <1>7, <2>1
<1>8. ASSUME NEW now \in Nows, NEW s \in Reservations, NEW expected, Release(s, expected, now)
      PROVE  LeasesRunOut'
  <2>1. CASE rsv' = [rsv EXCEPT ![s].state = "RELEASED", ![s].revision = @ + 1]
    <3>1. \A r \in Reservations : RunsOut(r, now)
      BY <1>1, <2>1 DEF RunsOut, Reservation
    <3>. QED
      BY <1>2, <1>8, <3>1 DEF Release, ReadClock
  <2>. QED
    BY <1>7, <1>8, <2>1 DEF Release, ReadClock
<1>9. ASSUME NEW now \in Nows, NEW s \in Reservations, NEW c \in Callers, NEW j \in Jobs,
             NEW q \in Requirements, NEW jobCurrent \in BOOLEAN,
             ConfirmCall(c, j, q, s, jobCurrent, now)
      PROVE  LeasesRunOut'
  BY <1>7, <1>9 DEF ConfirmCall, ReadClock
<1>. QED
  BY <1>3, <1>4, <1>5, <1>6, <1>7, <1>8, <1>9
  DEF SchedNext, schedVars, Current, ReadClock, ConfirmResume

LEMMA LeasesAlways == SchedSpec => []LeasesRunOut
<1>1. SchedInit => LeasesRunOut
  BY DEF SchedInit, LeasesRunOut, NoReservation
<1>2. SchedInv /\ LeasesRunOut /\ [SchedNext]_schedVars => LeasesRunOut'
  BY LeasesStep DEF SchedInv
<1>. QED
  BY <1>1, <1>2, SchedInvAlways, PTL DEF SchedSpec
=============================================================================
