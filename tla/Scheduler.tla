------------------------------ MODULE Scheduler ------------------------------
(***************************************************************************)
(* The Scheduler service with its reservation store and trusted clock.      *)
(*                                                                          *)
(* A start is admitted in two stages.  Stage 1: evaluate issues an          *)
(* eligibility evaluation bound to a job, a requirement and its resource;   *)
(* reserve turns an ELIGIBLE evaluation into an ACTIVE reservation of that  *)
(* resource for one lease.  Stage 2: confirmExecutionStart checks           *)
(* reservation, job revision and requirement again.  It reads the clock and *)
(* the reservation, then awaits the job lookup, and decides when the lookup *)
(* answers: ConfirmCall and ConfirmResume are those two halves.             *)
(*                                                                          *)
(* Time.  createTrustedClock never reports a time earlier than one it has   *)
(* reported; the wall clock behind it may jump either way.  "last" is the   *)
(* latest time reported, and an action that reads the clock works with the  *)
(* trusted time of any wall clock value (Nows).  Expiry is lazy: a          *)
(* reservation whose lease ran out stays ACTIVE in the store until a call   *)
(* that carries the time touches it.                                        *)
(*                                                                          *)
(* Data abstraction.  #decide on the organizational facts is a Boolean      *)
(* choice of each call; WAIT, HOLD and DENY are the one value "REFUSED".    *)
(* A requirement names its resource (ResourceOf); its hash is its identity. *)
(***************************************************************************)
EXTENDS Integers

CONSTANTS
  Jobs,          \* job ids
  Resources,     \* exclusive resources
  Requirements,  \* execution requirements
  ResourceOf,    \* ResourceOf[q]: resource_ref of requirement q
  Evaluations,   \* eligibility ids, generated fresh
  Reservations,  \* reservation ids, generated fresh
  Callers,       \* confirmExecutionStart calls that may be in flight
  None,          \* null
  Lease,         \* RESERVATION_LEASE_MS, in ticks of the bounded clock
  MaxTime        \* bound on wall clock values

ASSUME LeaseAssumption == Lease \in Nat \ {0} /\ MaxTime \in Nat
ASSUME ResourceOfAssumption == ResourceOf \in [Requirements -> Resources]
ASSUME SchedulerNoneAssumption ==
  None \notin Jobs \cup Resources \cup Requirements \cup Evaluations \cup Reservations

VARIABLES
  last,     \* trusted clock: the latest time reported
  traces,   \* #traces: issuance records by eligibility id, evicted ones marked
  rsv,      \* #reservations of the store by reservation id
  starts    \* confirmExecutionStart calls: what each captured before its await

schedVars == <<last, traces, rsv, starts>>

Trace ==
  [ state       : {"UNISSUED", "HELD", "EVICTED"},
    job         : Jobs \cup {None},
    requirement : Requirements \cup {None},
    decision    : {"ELIGIBLE", "REFUSED"},
    consumed    : BOOLEAN,
    issuedAt    : Nat ]

Reservation ==
  [ state     : {"FREE", "ACTIVE", "EXPIRED", "RELEASED"},
    revision  : Nat,
    job       : Jobs \cup {None},
    resource  : Resources \cup {None},
    elig      : Evaluations \cup {None},
    expiresAt : Nat ]

\* jobCurrent: the job that was looked up was ACCEPTED, at the revision the
\* caller expects.
Start ==
  [ phase       : {"idle", "called", "CONFIRMED", "REJECTED"},
    job         : Jobs \cup {None},
    requirement : Requirements \cup {None},
    reservation : Reservations \cup {None},
    jobCurrent  : BOOLEAN,
    now         : Nat,
    seen        : Reservation ]

NoTrace ==
  [ state |-> "UNISSUED", job |-> None, requirement |-> None,
    decision |-> "REFUSED", consumed |-> FALSE, issuedAt |-> 0 ]

NoReservation ==
  [ state |-> "FREE", revision |-> 0, job |-> None, resource |-> None,
    elig |-> None, expiresAt |-> 0 ]

NoStart ==
  [ phase |-> "idle", job |-> None, requirement |-> None, reservation |-> None,
    jobCurrent |-> FALSE, now |-> 0, seen |-> NoReservation ]

-----------------------------------------------------------------------------
(* The trusted clock                                                        *)

\* Mutant of TrustedNow: the wall clock is believed.
UntrustedNow(raw) == raw

TrustedNow(raw) == IF raw < last THEN last ELSE raw

\* What a reading of the clock may report now.
Nows == {TrustedNow(raw) : raw \in 0..MaxTime}

ReadClock(now) == last' = now

(* Lazy expiry of the reservations in set rs: isExpiredAt and               *)
(* #expireIfNeeded.  expires_at is kept as history when it is nulled.       *)

LeaseOver(r, now) == rsv[r].expiresAt <= now

ExpireIfNeeded(rs, now) ==
  [r \in Reservations |->
    IF r \in rs /\ rsv[r].state = "ACTIVE" /\ LeaseOver(r, now)
      THEN [rsv[r] EXCEPT !.state = "EXPIRED", !.revision = @ + 1]
      ELSE rsv[r]]

\* #activeFor walks the records of one resource and expires the stale ones;
\* it stops at the first live one, of which there is at most one
\* (OneOwnerPerResource), so expiring all stale records of the resource is
\* the same change.
OnResource(res) == {r \in Reservations : rsv[r].resource = res}

\* Mutant of LiveOwners: a lease is taken for over one tick early.
LiveOwnersEarly(res, now) ==
  {r \in OnResource(res) : rsv[r].state = "ACTIVE" /\ ~LeaseOver(r, now + 1)}

LiveOwners(res, now) ==
  {r \in OnResource(res) : rsv[r].state = "ACTIVE" /\ ~LeaseOver(r, now)}

-----------------------------------------------------------------------------
(* Stage 1: evaluate, after its await of the job lookup.  #buildEvaluation  *)
(* records the issuance and #recordIssuance evicts what is too old.         *)

\* Mutant of Evict: a consumed issuance is kept no longer than an unused one.
EvictAfterOneLease(ts, now) ==
  [e \in Evaluations |->
    IF ts[e].state = "HELD" /\ now - ts[e].issuedAt > Lease
      THEN [ts[e] EXCEPT !.state = "EVICTED"]
      ELSE ts[e]]

Evict(ts, now) ==
  [e \in Evaluations |->
    IF /\ ts[e].state = "HELD"
       /\ now - ts[e].issuedAt > (IF ts[e].consumed THEN 2 * Lease ELSE Lease)
      THEN [ts[e] EXCEPT !.state = "EVICTED"]
      ELSE ts[e]]

Evaluate(e, j, q, decision, now) ==
  /\ traces[e].state = "UNISSUED"
  /\ traces' = Evict([traces EXCEPT ![e] =
                       [ state |-> "HELD", job |-> j, requirement |-> q,
                         decision |-> decision, consumed |-> FALSE,
                         issuedAt |-> now ]], now)
  /\ ReadClock(now)
  /\ UNCHANGED <<rsv, starts>>

(* Stage 1: reserve.  The caller presents the evaluation it was given.      *)

\* Mutant of Presentable: a used evaluation may be presented again.
PresentableAgain(e, j) ==
  /\ traces[e].state = "HELD"
  /\ traces[e].job = j
  /\ traces[e].decision = "ELIGIBLE"

\* An evaluation this instance issued, for this job, ELIGIBLE and not used.
Presentable(e, j) ==
  /\ traces[e].state = "HELD"
  /\ ~traces[e].consumed
  /\ traces[e].job = j
  /\ traces[e].decision = "ELIGIBLE"

Fresh(e, now) == now - traces[e].issuedAt <= Lease

Assessed(e) == ResourceOf[traces[e].requirement]

Reserve(e, r, j, now) ==
  /\ rsv[r].state = "FREE"
  /\ Presentable(e, j)
  /\ Fresh(e, now)
  /\ LiveOwners(Assessed(e), now) = {}
  /\ rsv' = [ExpireIfNeeded(OnResource(Assessed(e)), now) EXCEPT ![r] =
              [ state |-> "ACTIVE", revision |-> 1, job |-> j,
                resource |-> Assessed(e), elig |-> e,
                expiresAt |-> now + Lease ]]
  /\ traces' = [traces EXCEPT ![e].consumed = TRUE]
  /\ ReadClock(now)
  /\ UNCHANGED starts

\* RESOURCE_BUSY (the evaluation may be presented again) or a stale
\* evaluation.  One that is not Presentable is denied before anything is read.
ReserveRefused(e, j, now) ==
  /\ Presentable(e, j)
  /\ Fresh(e, now) => LiveOwners(Assessed(e), now) # {}
  /\ ReadClock(now)
  /\ UNCHANGED <<traces, rsv, starts>>

(* release: revision guarded; expiry is applied first either way.           *)

\* Mutant of Releasable: only the revision is compared.
ReleasableAnyState(r, expected, now) ==
  rsv[r].revision = expected /\ expected > 0 /\ now >= last

Releasable(r, expected, now) ==
  /\ rsv[r].state = "ACTIVE"
  /\ ~LeaseOver(r, now)
  /\ rsv[r].revision = expected

Release(r, expected, now) ==
  /\ rsv' = IF Releasable(r, expected, now)
              THEN [rsv EXCEPT ![r].state = "RELEASED", ![r].revision = @ + 1]
              ELSE ExpireIfNeeded({r}, now)
  /\ ReadClock(now)
  /\ UNCHANGED <<traces, starts>>

\* reservation(id): a read, which expires what it reads.
Current(r, now) ==
  /\ rsv' = ExpireIfNeeded({r}, now)
  /\ ReadClock(now)
  /\ UNCHANGED <<traces, starts>>

-----------------------------------------------------------------------------
(* Stage 2: confirmExecutionStart.                                          *)

\* Up to the await: the clock, the reservation and (the lookup answers with
\* the job as it is when it is asked) the job are read here.
ConfirmCall(c, j, q, r, jobCurrent, now) ==
  /\ starts[c].phase = "idle"
  /\ rsv' = ExpireIfNeeded({r}, now)
  /\ starts' = [starts EXCEPT ![c] =
                 [ phase |-> "called", job |-> j, requirement |-> q,
                   reservation |-> r, jobCurrent |-> jobCurrent, now |-> now,
                   seen |-> rsv'[r] ]]
  /\ ReadClock(now)
  /\ UNCHANGED traces

\* Mutant of StartChecks: the requirement is not compared with the assessed one.
StartChecksAnyRequirement(s) ==
  /\ s.jobCurrent
  /\ s.seen.state = "ACTIVE"
  /\ s.now < s.seen.expiresAt
  /\ s.seen.job = s.job
  /\ traces[s.seen.elig].state = "HELD"
  /\ traces[s.seen.elig].job = s.job

\* The checks after the await, on what was captured before it; only the
\* issuance and the organizational facts are read now.
StartChecks(s) ==
  /\ s.jobCurrent
  /\ s.seen.state = "ACTIVE"
  /\ s.now < s.seen.expiresAt
  /\ s.seen.job = s.job
  /\ traces[s.seen.elig].state = "HELD"
  /\ traces[s.seen.elig].job = s.job
  /\ traces[s.seen.elig].requirement = s.requirement
  /\ ResourceOf[s.requirement] = s.seen.resource

\* eligible: what #decide says of the facts read now.  (Its comparison with
\* not_before is part of that choice.)
ConfirmResume(c, eligible) ==
  /\ starts[c].phase = "called"
  /\ starts' = [starts EXCEPT ![c].phase =
                 IF eligible /\ StartChecks(starts[c])
                   THEN "CONFIRMED" ELSE "REJECTED"]
  /\ UNCHANGED <<last, traces, rsv>>

-----------------------------------------------------------------------------
(* Any caller, any call, any order.  A caller may name a job, a requirement *)
(* and a reservation that do not belong together.                           *)

SchedInit ==
  /\ last = 0
  /\ traces = [e \in Evaluations |-> NoTrace]
  /\ rsv = [r \in Reservations |-> NoReservation]
  /\ starts = [c \in Callers |-> NoStart]

SchedNext ==
  \/ \E now \in Nows :
       \/ \E e \in Evaluations, j \in Jobs :
            \/ \E q \in Requirements, decision \in {"ELIGIBLE", "REFUSED"} :
                 Evaluate(e, j, q, decision, now)
            \/ \E r \in Reservations : Reserve(e, r, j, now)
            \/ ReserveRefused(e, j, now)
       \/ \E r \in Reservations :
            \/ \E expected \in 1..2 : Release(r, expected, now)
            \/ Current(r, now)
            \/ \E c \in Callers, j \in Jobs, q \in Requirements, jobCurrent \in BOOLEAN :
                 ConfirmCall(c, j, q, r, jobCurrent, now)
  \/ \E c \in Callers, eligible \in BOOLEAN : ConfirmResume(c, eligible)

SchedSpec == SchedInit /\ [][SchedNext]_schedVars

-----------------------------------------------------------------------------
(* Properties                                                               *)

\* Every record is well formed and no timestamp is ahead of trusted time.
SchedTypeOK ==
  /\ last \in Nat
  /\ traces \in [Evaluations -> Trace]
  /\ rsv \in [Reservations -> Reservation]
  /\ starts \in [Callers -> Start]
  /\ \A e \in Evaluations : traces[e].issuedAt <= last
  /\ \A c \in Callers : starts[c].now <= last

Live(r) == rsv[r].state = "ACTIVE" /\ ~LeaseOver(r, last)

\* An exclusive resource has one owner: at no time are two records of one
\* resource ACTIVE, not even while an expired one still waits to be touched
\* (reserve and #activeFor, with expiry that is lazy and a clock that jumps).
OneOwnerPerResource ==
  \A r, s \in Reservations :
    /\ rsv[r].state = "ACTIVE"
    /\ rsv[s].state = "ACTIVE"
    /\ rsv[r].resource = rsv[s].resource
    => r = s

\* "A live reservation's issuance is therefore never evicted"
\* (#recordIssuance): while a lease runs, its issuance is held, consumed, and
\* for the job and resource of the reservation.
LiveLeaseKeepsIssuance ==
  \A r \in Reservations : Live(r) =>
    LET t == traces[rsv[r].elig] IN
      /\ t.state = "HELD"
      /\ t.consumed
      /\ t.job = rsv[r].job
      /\ ResourceOf[t.requirement] = rsv[r].resource

\* One evaluation backs at most one reservation, ever: consumed is set and
\* never lost while the issuance can still be presented, and an eviction does
\* not make the evaluation usable again.
IssuanceBacksOne ==
  \A r, s \in Reservations :
    /\ rsv[r].state # "FREE"
    /\ rsv[s].state # "FREE"
    /\ rsv[r].elig = rsv[s].elig
    => r = s

\* "Expired/released/cancelled reservations can never return to ACTIVE": a
\* reservation that ended is never written again, and every change of a
\* reservation raises its revision (reserve, transition, #expireIfNeeded).
EndedReservationFinal ==
  [][\A r \in Reservations :
       /\ rsv[r].state \in {"EXPIRED", "RELEASED"} => rsv'[r] = rsv[r]
       /\ rsv'[r] # rsv[r] => rsv'[r].revision > rsv[r].revision]_schedVars

Grants(c) == starts[c].phase = "called" /\ starts'[c].phase = "CONFIRMED"

\* A start is only confirmed on facts that stage 1 assessed: the reservation
\* was obtained with an evaluation that was ELIGIBLE for this very job,
\* requirement and resource, issued less than two leases before the
\* confirmation was asked for, and used by no other reservation.
GrantTraceable ==
  [][\A c \in Callers : Grants(c) =>
       LET s == starts[c]
           t == traces[s.seen.elig]
       IN /\ t.decision = "ELIGIBLE"
          /\ t.consumed
          /\ t.job = s.job
          /\ t.requirement = s.requirement
          /\ ResourceOf[s.requirement] = s.seen.resource
          /\ t.issuedAt <= s.now
          /\ s.now < t.issuedAt + 2 * Lease
          /\ rsv[s.reservation].elig = s.seen.elig]_schedVars

\* What the comment on confirmExecutionStart says: "a stale eligibility
\* decision or expired lease fails safe".  When a start is confirmed, the
\* store has not already expired the reservation it is confirmed on.
GrantedOnLiveLease ==
  [][\A c \in Callers : Grants(c) =>
       rsv[starts[c].reservation].state = "ACTIVE"]_schedVars
=============================================================================
